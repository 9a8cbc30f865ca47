-------------------------- MODULE PeripheryProofs --------------------------
(***************************************************************************)
(* What holds around the funnel for any sites, intervals, callers, scripts *)
(* and files: the types; how long a readable post waits for its row        *)
(* (Feed); the order, the budget, the work list and the end of a backfill  *)
(* run, and a row per LLM call that adds up to the bill (Backfill,         *)
(* LlmClient); the report of an import and the names of sources            *)
(* (ReviewImport).                                                         *)
(***************************************************************************)
EXTENDS Periphery, FiniteSetTheorems, SequenceTheorems, TLAPS

---------------------------------------------------------------------------
(* Feed                                                                    *)

\* Invariant: a readable post without a row became readable no earlier than the last
\* slot that was read whole, and a slot that is due is over within Grace.
FeedInv ==
    /\ FeedTypeOK
    /\ now <= slot + Grace /\ now <= MaxTime
    /\ whole <= now
    /\ \A p \in DOMAIN posts :
          /\ posts[p].place < Len(posts)
          /\ Readable(p, MaxPages[kind]) /\ ~posts[p].captured => whole <= ReadableSince(p)

\* The constants of a kind are numbers.
LEMMA KindTyped ==
    ASSUME kind \in Kinds
    PROVE  /\ Interval[kind] \in Nat /\ Window[kind] \in Nat
           /\ PageSize[kind] \in Nat \ {0} /\ MaxPages[kind] \in Nat \ {0}
           /\ kind # "review_sites" => MaxPages[kind] = 1
           /\ MaxTime \in Nat /\ Grace \in Nat /\ Never \in Nat /\ Never = MaxTime + 1
BY FeedAssumption DEF Never

\* What holds of every post; with the rest, FeedInv.
LEMMA PostTyped ==
    ASSUME FeedTypeOK
    PROVE  /\ posts \in Seq(Posts) /\ Len(posts) \in Nat /\ DOMAIN posts = 1 .. Len(posts)
           /\ \A p \in DOMAIN posts :
                 /\ posts[p] \in Posts
                 /\ posts[p].born \in Nat /\ posts[p].qualified \in Nat
                 /\ posts[p].place \in Nat /\ posts[p].shown \in Nat
                 /\ posts[p].captured \in BOOLEAN
<1>1. posts \in Seq(Posts) /\ Len(posts) \in Nat /\ DOMAIN posts = 1 .. Len(posts)
  BY LenProperties DEF FeedTypeOK
<1>2. \A p \in DOMAIN posts : posts[p] \in Posts
  BY <1>1, ElementOfSeq
<1> QED  BY <1>1, <1>2 DEF Posts

\* A post that is moved keeps its date, its votes and its row, and if it is then on the
\* pages it was there already or is there from now on.
LEMMA MovedTyped ==
    ASSUME FeedTypeOK, NEW p \in DOMAIN posts, NEW k \in Nat
    PROVE  /\ Moved(posts[p], k) \in Posts
           /\ Moved(posts[p], k).born = posts[p].born
           /\ Moved(posts[p], k).qualified = posts[p].qualified
           /\ Moved(posts[p], k).captured = posts[p].captured
           /\ Moved(posts[p], k).place = k
           /\ k < PageSize[kind] * MaxPages[kind]
                => \/ /\ OnPages(p, MaxPages[kind])
                      /\ Moved(posts[p], k).shown = posts[p].shown
                   \/ Moved(posts[p], k).shown = now
<1>1. posts[p] \in Posts /\ now \in Nat /\ Never \in Nat
  BY PostTyped, KindTyped DEF FeedTypeOK
<1>2. DEFINE s == CASE ~Reached(k) -> Never
                    [] Reached(k) /\ Reached(posts[p].place) -> posts[p].shown
                    [] OTHER -> now
<1>3. s \in Nat /\ (Reached(k) => \/ Reached(posts[p].place) /\ s = posts[p].shown
                                  \/ s = now)
  BY <1>1 DEF Posts
<1>4. Moved(posts[p], k) = [posts[p] EXCEPT !.place = k, !.shown = s]
  BY DEF Moved
<1> HIDE DEF s
<1> QED  BY <1>1, <1>3, <1>4 DEF Posts, Reached, OnPages

\* A fetch keeps the listing and only adds rows.
LEMMA FetchTyped ==
    ASSUME FeedTypeOK, NEW pages
    PROVE  /\ AfterFetch(pages) \in Seq(Posts)
           /\ Len(AfterFetch(pages)) = Len(posts)
           /\ DOMAIN AfterFetch(pages) = DOMAIN posts
           /\ \A p \in DOMAIN posts :
                 /\ AfterFetch(pages)[p].born = posts[p].born
                 /\ AfterFetch(pages)[p].qualified = posts[p].qualified
                 /\ AfterFetch(pages)[p].place = posts[p].place
                 /\ AfterFetch(pages)[p].shown = posts[p].shown
                 /\ AfterFetch(pages)[p].captured = (posts[p].captured \/ Readable(p, pages))
<1>1. posts \in Seq(Posts) /\ Len(posts) \in Nat /\ DOMAIN posts = 1 .. Len(posts)
  BY LenProperties DEF FeedTypeOK
<1>2. \A p \in DOMAIN posts : posts[p] \in Posts
  BY <1>1, ElementOfSeq
<1>3. \A p \in DOMAIN posts : Readable(p, pages) \in BOOLEAN
  BY DEF Readable, OnPages, InWindow, Qualified
<1>4. AfterFetch(pages) \in [1 .. Len(posts) -> Posts]
  BY <1>1, <1>2, <1>3 DEF AfterFetch, Posts
<1>5. AfterFetch(pages) \in Seq(Posts) /\ Len(AfterFetch(pages)) = Len(posts)
  BY <1>1, <1>4
<1> QED  BY <1>1, <1>2, <1>4, <1>5 DEF AfterFetch, Posts

\* The end of a slot keeps the invariant, if what it calls whole is.
LEMMA TakeInv ==
    ASSUME FeedInv, NEW pages, NEW all \in BOOLEAN, Take(pages, all),
           all => \A p \in DOMAIN posts : OnPages(p, MaxPages[kind]) => OnPages(p, pages)
    PROVE  FeedInv'
<1>1. /\ kind' = kind /\ now' = now /\ posts' = AfterFetch(pages) /\ slot' = slot + Interval[kind]
      /\ whole' = (IF all THEN slot ELSE whole) /\ now >= slot
  BY DEF Take, Due
<1>2. kind \in Kinds /\ now \in Nat /\ slot \in Nat /\ whole \in Nat /\ Interval[kind] \in Nat
      /\ Grace \in Nat
  BY KindTyped DEF FeedInv, FeedTypeOK
<1>3. FeedTypeOK'
  BY <1>1, <1>2, FetchTyped DEF FeedInv, FeedTypeOK
<1>4. now' <= slot' + Grace /\ whole' <= now' /\ now' <= MaxTime
  BY <1>1, <1>2 DEF FeedInv
<1>5. ASSUME NEW p \in DOMAIN posts', Readable(p, MaxPages[kind])', ~posts'[p].captured
      PROVE  whole' <= ReadableSince(p)'
  <2>1. /\ p \in DOMAIN posts /\ posts'[p].born = posts[p].born
        /\ posts'[p].qualified = posts[p].qualified
        /\ posts'[p].place = posts[p].place /\ posts'[p].shown = posts[p].shown
        /\ posts'[p].captured = (posts[p].captured \/ Readable(p, pages))
    BY <1>1, FetchTyped DEF FeedInv
  <2>2. Readable(p, MaxPages[kind])
    BY <1>1, <1>5, <2>1 DEF Readable, OnPages, InWindow, Qualified
  <2>3. ~Readable(p, pages) /\ ~posts[p].captured
    BY <1>5, <2>1
  <2>4. ~all
    BY <2>1, <2>2, <2>3 DEF Readable
  <2> QED  BY <1>1, <2>1, <2>2, <2>3, <2>4 DEF FeedInv, ReadableSince
<1>6. \A p \in DOMAIN posts' : posts'[p].place < Len(posts')
  BY <1>1, FetchTyped DEF FeedInv
<1> QED  BY <1>3, <1>4, <1>5, <1>6 DEF FeedInv

\* Posts that are moved, however, keep the invariant of each of them.
LEMMA PlacedInv ==
    ASSUME FeedInv, NEW p \in DOMAIN posts, UNCHANGED <<kind, now, whole>>,
           p \in DOMAIN posts', NEW k \in Nat,
           posts'[p] = Moved(posts[p], k) \/ posts'[p] = posts[p],
           Readable(p, MaxPages[kind])', ~posts'[p].captured
    PROVE  whole' <= ReadableSince(p)'
<1>1. /\ posts[p].qualified \in Nat /\ posts[p].shown \in Nat /\ whole \in Nat /\ now \in Nat
      /\ whole <= now
  BY PostTyped DEF FeedInv, FeedTypeOK
<1>2. CASE posts'[p] = posts[p]
  BY <1>2 DEF FeedInv, Readable, OnPages, InWindow, Qualified, ReadableSince
<1>3. CASE posts'[p] = Moved(posts[p], k)
  <2>1. /\ posts'[p].born = posts[p].born /\ posts'[p].qualified = posts[p].qualified
        /\ posts'[p].captured = posts[p].captured /\ posts'[p].place = k
        /\ k < PageSize[kind] * MaxPages[kind]
             => \/ OnPages(p, MaxPages[kind]) /\ posts'[p].shown = posts[p].shown
                \/ posts'[p].shown = now
    BY <1>3, MovedTyped DEF FeedInv
  <2>2. k < PageSize[kind] * MaxPages[kind] /\ InWindow(p) /\ Qualified(p)
    BY <2>1 DEF Readable, OnPages, InWindow, Qualified
  <2>3. CASE OnPages(p, MaxPages[kind]) /\ posts'[p].shown = posts[p].shown
    BY <2>1, <2>2, <2>3 DEF FeedInv, Readable, ReadableSince
  <2>4. CASE posts'[p].shown = now
    BY <1>1, <2>1, <2>4 DEF ReadableSince
  <2> QED  BY <2>1, <2>2, <2>3, <2>4
<1> QED  BY <1>2, <1>3

\* Every step of Feed keeps the invariant.
LEMMA FeedStep == FeedInv /\ [FeedNext]_feedVars => FeedInv'
<1> SUFFICES ASSUME FeedInv, [FeedNext]_feedVars
             PROVE  FeedInv'
  OBVIOUS
<1> USE DEF FeedInv
<1>a. /\ kind \in Kinds /\ now \in Nat /\ slot \in Nat /\ whole \in Nat /\ posts \in Seq(Posts)
      /\ Len(posts) \in Nat /\ DOMAIN posts = 1 .. Len(posts)
      /\ \A p \in DOMAIN posts :
            /\ posts[p] \in Posts /\ posts[p].born \in Nat /\ posts[p].qualified \in Nat
            /\ posts[p].place \in Nat /\ posts[p].shown \in Nat
  BY PostTyped DEF FeedTypeOK
<1>b. /\ Interval[kind] \in Nat /\ Window[kind] \in Nat
      /\ PageSize[kind] \in Nat \ {0} /\ MaxPages[kind] \in Nat \ {0}
      /\ kind # "review_sites" => MaxPages[kind] = 1
      /\ MaxTime \in Nat /\ Grace \in Nat /\ Never \in Nat /\ Never > now
  BY <1>a, KindTyped
<1>1. CASE Publish
  <2>1. PICK k \in 0 .. Len(posts) :
          posts' = Append(MakeRoom(k, Len(posts)),
                          [born |-> now, captured |-> FALSE, place |-> k,
                           qualified |-> IF kind \in Scored THEN Never ELSE now,
                           shown |-> IF Reached(k) THEN now ELSE Never])
    BY <1>1 DEF Publish
  <2> DEFINE post == [born |-> now, captured |-> FALSE, place |-> k,
                      qualified |-> IF kind \in Scored THEN Never ELSE now,
                      shown |-> IF Reached(k) THEN now ELSE Never]
             room == MakeRoom(k, Len(posts))
  <2>2. post \in Posts /\ post.place = k /\ post.qualified \in Nat /\ post.shown \in Nat
        /\ (Reached(k) => post.shown = now)
    BY <1>a, <1>b DEF Posts
  <2>3. \A p \in DOMAIN posts :
          /\ room[p] \in Posts
          /\ room[p].place < Len(posts) + 1
          /\ \E n \in Nat : room[p] = Moved(posts[p], n) \/ room[p] = posts[p]
    BY <1>a, MovedTyped DEF MakeRoom
  <2>4. room \in Seq(Posts) /\ Len(room) = Len(posts)
    <3>1. room \in [1 .. Len(posts) -> Posts]
      BY <1>a, <2>3 DEF MakeRoom
    <3> HIDE DEF room
    <3> QED  BY <1>a, <3>1
  <2>5. UNCHANGED <<kind, now, slot, whole>>
    BY <1>1 DEF Publish
  <2> HIDE DEF room, post
  <2>6. /\ posts' \in Seq(Posts) /\ Len(posts') = Len(posts) + 1
        /\ DOMAIN posts' = 1 .. Len(posts) + 1
        /\ \A p \in DOMAIN posts : posts'[p] = room[p]
        /\ posts'[Len(posts) + 1] = post
    <3>1. posts' = Append(room, post)
      BY <2>1 DEF room, post
    <3> QED  BY <1>a, <2>2, <2>4, <3>1, AppendProperties, LenProperties
  <2>7. ASSUME NEW p \in DOMAIN posts'
        PROVE  /\ posts'[p].place < Len(posts')
               /\ Readable(p, MaxPages[kind])' /\ ~posts'[p].captured
                     => whole' <= ReadableSince(p)'
    <3>1. CASE p = Len(posts) + 1
      <4>1. posts'[p] = post
        BY <2>6, <3>1
      <4>2. Readable(p, MaxPages[kind])' => Reached(k)
        BY <2>2, <2>5, <4>1 DEF Readable, OnPages, Reached
      <4> QED  BY <1>a, <2>2, <2>5, <2>6, <4>1, <4>2 DEF ReadableSince
    <3>2. CASE p \in DOMAIN posts
      <4>1. PICK n \in Nat : room[p] = Moved(posts[p], n) \/ room[p] = posts[p]
        BY <2>3, <3>2
      <4>2. posts'[p] = Moved(posts[p], n) \/ posts'[p] = posts[p]
        BY <2>6, <3>2, <4>1
      <4> QED  BY <2>3, <2>5, <2>6, <2>7, <3>2, <4>2, PlacedInv
    <3> QED  BY <1>a, <2>6, <3>1, <3>2
  <2> QED  BY <2>5, <2>6, <2>7 DEF FeedTypeOK
<1>11. ASSUME NEW q \in DOMAIN posts, Climb(q)
       PROVE  FeedInv'
  <2>1. PICK k \in 0 .. posts[q].place - 1 :
          posts' = [MakeRoom(k, posts[q].place) EXCEPT ![q] = Moved(posts[q], k)]
    BY <1>11 DEF Climb
  <2>2. UNCHANGED <<kind, now, slot, whole>>
    BY <1>11 DEF Climb
  <2>3. \A p \in DOMAIN posts :
          posts'[p] = IF p = q THEN Moved(posts[q], k)
                      ELSE IF posts[p].place \in k .. posts[q].place - 1
                           THEN Moved(posts[p], posts[p].place + 1) ELSE posts[p]
    BY <2>1 DEF MakeRoom
  <2>4. \A p \in DOMAIN posts :
          /\ posts'[p] \in Posts
          /\ posts'[p].place < Len(posts)
          /\ \E n \in Nat : posts'[p] = Moved(posts[p], n) \/ posts'[p] = posts[p]
    <3> SUFFICES ASSUME NEW p \in DOMAIN posts
                 PROVE  /\ posts'[p] \in Posts
                        /\ posts'[p].place < Len(posts)
                        /\ \E n \in Nat : posts'[p] = Moved(posts[p], n) \/ posts'[p] = posts[p]
      OBVIOUS
    <3>1. posts[p].place < Len(posts) /\ posts[q].place < Len(posts)
      OBVIOUS
    <3>2. CASE p = q
      <4>1. k \in Nat /\ k < Len(posts) /\ posts'[p] = Moved(posts[p], k)
        BY <1>a, <2>3, <3>1, <3>2
      <4> QED  BY <4>1, MovedTyped
    <3>3. CASE p # q /\ posts[p].place \in k .. posts[q].place - 1
      <4>1. /\ posts[p].place + 1 \in Nat /\ posts[p].place + 1 < Len(posts)
            /\ posts'[p] = Moved(posts[p], posts[p].place + 1)
        BY <1>a, <2>3, <3>1, <3>3
      <4> QED  BY <4>1, MovedTyped
    <3>4. CASE p # q /\ posts[p].place \notin k .. posts[q].place - 1
      BY <1>a, <2>3, <3>1, <3>4
    <3> QED  BY <3>2, <3>3, <3>4
  <2>5. posts' \in Seq(Posts) /\ Len(posts') = Len(posts) /\ DOMAIN posts' = DOMAIN posts
    <3>1. posts' \in [1 .. Len(posts) -> Posts]
      <4>1. DOMAIN posts' = DOMAIN posts /\ posts' = [p \in DOMAIN posts |-> posts'[p]]
        BY <2>1 DEF MakeRoom
      <4> QED  BY <1>a, <2>4, <4>1
    <3>2. \A n \in Nat : \A f \in [1 .. n -> Posts] :
             f \in Seq(Posts) /\ Len(f) = n /\ DOMAIN f = 1 .. n
      OBVIOUS
    <3> QED  BY <1>a, <3>1, <3>2
  <2>6. ASSUME NEW p \in DOMAIN posts', Readable(p, MaxPages[kind])', ~posts'[p].captured
        PROVE  whole' <= ReadableSince(p)'
    <3>1. PICK n \in Nat : posts'[p] = Moved(posts[p], n) \/ posts'[p] = posts[p]
      BY <2>4, <2>5
    <3> QED  BY <2>2, <2>5, <2>6, <3>1, PlacedInv
  <2> QED  BY <2>2, <2>4, <2>5, <2>6 DEF FeedTypeOK
<1>2. ASSUME NEW q \in DOMAIN posts, Upvote(q) \/ Downvote(q)
      PROVE  FeedInv'
  <2>1. PICK t \in {now, Never} :
          /\ posts' = [posts EXCEPT ![q].qualified = t] /\ kind' = kind /\ now' = now
          /\ slot' = slot /\ whole' = whole
    BY <1>2 DEF Upvote, Downvote
  <2>2. posts' = [posts EXCEPT ![q] = [posts[q] EXCEPT !.qualified = t]]
        /\ [posts[q] EXCEPT !.qualified = t] \in Posts
    BY <1>a, <1>b, <2>1 DEF Posts
  <2>3. /\ posts' \in Seq(Posts) /\ Len(posts') = Len(posts) /\ DOMAIN posts' = DOMAIN posts
        /\ \A p \in DOMAIN posts : p # q => posts'[p] = posts[p]
    BY <1>a, <1>2, <2>2, ExceptSeq, LenProperties
  <2>4. posts'[q].qualified = t /\ posts'[q].place = posts[q].place
        /\ posts'[q].shown = posts[q].shown
    BY <1>a, <2>2 DEF Posts
  <2>5. ASSUME NEW p \in DOMAIN posts', Readable(p, MaxPages[kind])', ~posts'[p].captured
        PROVE  whole' <= ReadableSince(p)'
    <3>1. CASE p = q
      <4>1. t = now
        BY <1>a, <1>b, <2>1, <2>4, <2>5, <3>1 DEF Readable, Qualified
      <4> QED  BY <1>a, <2>1, <2>4, <3>1, <4>1 DEF ReadableSince
    <3>2. CASE p # q
      BY <2>1, <2>3, <2>5, <3>2 DEF Readable, OnPages, InWindow, Qualified, ReadableSince
    <3> QED  BY <3>1, <3>2
  <2>6. \A p \in DOMAIN posts' : posts'[p].place < Len(posts')
    BY <2>3, <2>4
  <2> QED  BY <2>1, <2>3, <2>5, <2>6 DEF FeedTypeOK
<1>3. CASE Pass
  <2>1. now' = now + 1 /\ now < slot + Grace /\ UNCHANGED <<kind, posts, slot, whole>>
        /\ now < MaxTime
    BY <1>3 DEF Pass
  <2>2. ASSUME NEW p \in DOMAIN posts', Readable(p, MaxPages[kind])', ~posts'[p].captured
        PROVE  whole' <= ReadableSince(p)'
    <3>1. posts[p].qualified \in Nat /\ posts[p].born \in Nat /\ posts[p].shown \in Nat
      BY <1>a, <2>1
    <3>2. CASE Qualified(p)
      <4>1. Readable(p, MaxPages[kind]) /\ ~posts[p].captured /\ p \in DOMAIN posts
        BY <1>a, <1>b, <2>1, <2>2, <3>1, <3>2 DEF Readable, OnPages, InWindow, Qualified
      <4> QED  BY <2>1, <4>1 DEF ReadableSince
    <3>3. CASE ~Qualified(p)
      BY <1>a, <2>1, <3>1, <3>3 DEF Qualified, ReadableSince
    <3> QED  BY <3>2, <3>3
  <2> QED  BY <1>a, <1>b, <2>1, <2>2 DEF FeedTypeOK
<1>4. CASE IngestHN
  BY <1>4, <1>b, TakeInv DEF IngestHN
<1>5. CASE IngestProductHunt
  BY <1>5, <1>b, TakeInv DEF IngestProductHunt
<1>6. CASE IngestReddit
  BY <1>6, <1>b, TakeInv DEF IngestReddit
<1>7. CASE IngestIndieHackers
  <2>1. PICK shape \in PageShapes : Take(IF ParsePosts(shape) THEN 1 ELSE 0, ParsePosts(shape))
    BY <1>7 DEF IngestIndieHackers
  <2>2. ParsePosts(shape) \in BOOLEAN /\ MaxPages[kind] = 1
    BY <1>7, <1>b DEF IngestIndieHackers, ParsePosts
  <2> QED  BY <2>1, <2>2, TakeInv
<1>8. CASE IngestReviews
  <2>1. PICK end \in {"all", "empty", "error"}, read \in 0 .. MaxPages[kind] - 1 :
            Take(PagesRead(end, read), ReadsAll(end, read))
    BY <1>8 DEF IngestReviews
  <2>2. ReadsAll(end, read) \in BOOLEAN
    BY DEF ReadsAll
  <2>3. ASSUME ReadsAll(end, read), NEW p \in DOMAIN posts, OnPages(p, MaxPages[kind])
        PROVE  OnPages(p, PagesRead(end, read))
    <3>1. CASE end = "all"
      BY <2>3, <3>1 DEF PagesRead
    <3>2. CASE end = "empty"
      <4>1. PagesRead(end, read) = read /\ Len(posts) <= PageSize[kind] * read
        BY <2>3, <3>2 DEF PagesRead, ReadsAll
      <4>2. posts[p].place < Len(posts) /\ PageSize[kind] * read \in Int
        BY <1>a, <1>b
      <4> QED  BY <1>a, <4>1, <4>2 DEF OnPages
    <3> QED  BY <2>3, <3>1, <3>2 DEF ReadsAll
  <2> QED  BY <2>1, <2>2, <2>3, TakeInv
<1>9. CASE Missed
  BY <1>9, TakeInv DEF Missed
<1>10. CASE UNCHANGED feedVars
  BY <1>10 DEF feedVars, FeedTypeOK, Readable, OnPages, InWindow, Qualified, ReadableSince
<1> QED
  BY <1>1, <1>2, <1>3, <1>4, <1>5, <1>6, <1>7, <1>8, <1>9, <1>10, <1>11 DEF FeedNext

\* From when it has its votes and its place on the pages, a readable post waits for its
\* row no longer than from the last slot read whole to the next one due and Grace,
\* whatever the kind, its interval, window and pages, and in any order of the listing.
THEOREM PostsCapturedInTime == FeedSpec => []CapturedInTime
<1>1. FeedInit => FeedInv
  BY FeedAssumption, EmptySeq DEF FeedInit, FeedInv, FeedTypeOK
<1>2. FeedInv => CapturedInTime
  <2> SUFFICES ASSUME FeedInv, NEW p \in DOMAIN posts,
                      Readable(p, MaxPages[kind]), ~posts[p].captured
               PROVE  now <= ReadableSince(p) + (slot - whole) + Grace
    BY DEF CapturedInTime
  <2>1. ReadableSince(p) \in Nat
    BY PostTyped DEF FeedInv, ReadableSince
  <2>2. now \in Nat /\ slot \in Nat /\ whole \in Nat /\ Grace \in Nat
    BY FeedAssumption DEF FeedInv, FeedTypeOK
  <2>3. now <= slot + Grace /\ whole <= ReadableSince(p)
    BY DEF FeedInv
  <2> QED  BY <2>1, <2>2, <2>3
<1> QED  BY <1>1, <1>2, FeedStep, PTL DEF FeedSpec

---------------------------------------------------------------------------
(* LlmClient                                                               *)

\* What a caller's locals may become.
Sound(new) ==
    /\ new \in Calls
    /\ new.pc \in {"request", "log"} =>
          new.task \in Tasks /\ (new.model = "haiku" => new.task \notin JudgmentTasks)

LedgersTyped ==
    /\ llm_runs \in [Tasks -> [rows : Nat, cost : Nat]]
    /\ locked \in BOOLEAN
    /\ asked \in [Tasks -> Nat]
    /\ unlogged \in [Tasks -> Nat]
    /\ billed \in [Tasks -> Nat]
    /\ malformed \subseteq Tasks

\* The types are kept by a step that gives one caller sound locals.
LEMMA CallSet ==
    ASSUME ClientTypeOK, NEW c \in Callers, NEW new, Sound(new),
           call' = [call EXCEPT ![c] = new], LedgersTyped'
    PROVE  ClientTypeOK'
BY DEF ClientTypeOK, LedgersTyped, Sound, InCall

LEMMA CallTyped ==
    ASSUME ClientTypeOK, NEW c \in Callers
    PROVE  /\ call \in [Callers -> Calls] /\ call[c] \in Calls /\ call[c].attempt \in 1 .. 3
           /\ call[c].task \in Tasks \cup {""} /\ call[c].model \in {"opus", "haiku"}
           /\ call[c].cost \in Nat
           /\ InCall(c) => Sound(call[c]) /\ call[c].task \in Tasks
           /\ LedgersTyped
BY DEF ClientTypeOK, LedgersTyped, Sound, InCall, Calls, MaxRetries

\* After an error a caller tries again or has a failure to log.
LEMMA ErrorTyped ==
    ASSUME ClientTypeOK, NEW c \in Callers, call[c].pc = "request", NEW error
    PROVE  \E new : /\ Sound(new) /\ AfterError(c, error) = [call EXCEPT ![c] = new]
                    /\ new.pc \in {"request", "log"} /\ new.task = call[c].task
                    /\ new.cost \in {0, call[c].cost} /\ (new.pc = "log" => new.cost = 0)
<1>1. Sound(call[c]) /\ call[c].attempt \in 1 .. 3 /\ call[c].task \in Tasks
  BY CallTyped DEF InCall
<1>2. CASE error \in Retryable /\ call[c].attempt < MaxRetries
  <2> DEFINE new == [call[c] EXCEPT !.attempt = @ + 1]
  <2>1. AfterError(c, error) = [call EXCEPT ![c] = new]
    BY <1>2, CallTyped DEF AfterError
  <2>2. call[c].attempt + 1 \in 1 .. 3
    BY <1>1, <1>2 DEF MaxRetries
  <2>3. new \in Calls /\ new.task = call[c].task /\ new.cost = call[c].cost
        /\ new.pc = "request" /\ new.model = call[c].model
    BY <1>1, <2>2 DEF Sound, Calls, MaxRetries
  <2> HIDE DEF new
  <2> QED  BY <1>1, <2>1, <2>3 DEF Sound
<1>3. CASE ~(error \in Retryable /\ call[c].attempt < MaxRetries)
  <2> DEFINE new == [call[c] EXCEPT !.pc = "log", !.ok = FALSE, !.cost = 0]
  <2>1. AfterError(c, error) = [call EXCEPT ![c] = new]
    BY <1>3, CallTyped DEF AfterError
  <2>2. Sound(new) /\ new.pc = "log" /\ new.task = call[c].task /\ new.cost = 0
    BY <1>1 DEF Sound, Calls
  <2> QED  BY <2>1, <2>2
<1> QED  BY <1>2, <1>3

LEMMA EndTyped == Sound(NoCall) /\ NoCall.pc = "idle" /\ NoCall.cost = 0
BY DEF Sound, NoCall, Calls, MaxRetries

\* One step of a call: it goes on for the same task, or ends with a row or without.
LEMMA CallSteps ==
    ASSUME ClientTypeOK, NEW c \in Callers, CallStep(c)
    PROVE  \E new :
              /\ Sound(new) /\ call' = [call EXCEPT ![c] = new]
              /\ LedgersTyped' /\ asked' = asked /\ InCall(c)
              /\ \/ /\ new.pc \in {"request", "log"} /\ new.task = call[c].task
                    /\ new.cost \in {0, call[c].cost} \cup Costs
                    /\ UNCHANGED <<llm_runs, unlogged>>
                 \/ /\ new.pc \in {"returned", "failed"}
                    /\ new.cost \in {0, call[c].cost}
                    /\ llm_runs' = [llm_runs EXCEPT ![call[c].task].rows = @ + 1,
                                                    ![call[c].task].cost = @ + call[c].cost]
                    /\ unlogged' = unlogged
                 \/ /\ new.pc = "failed" /\ new.cost = 0
                    /\ llm_runs' = llm_runs
                    /\ unlogged' = [unlogged EXCEPT ![call[c].task] = @ + 1]
<1>a. /\ call[c] \in Calls /\ LedgersTyped /\ Costs \subseteq Nat
      /\ InCall(c) => Sound(call[c]) /\ call[c].task \in Tasks
      /\ call[c].cost \in Nat /\ call[c].model \in {"opus", "haiku"}
  BY CallTyped, ClientAssumption
<1>1. ASSUME NEW error, Refused(c, error)
      PROVE  \E new : /\ Sound(new) /\ call' = [call EXCEPT ![c] = new]
                      /\ new.pc \in {"request", "log"} /\ new.task = call[c].task
                      /\ new.cost \in {0, call[c].cost} /\ InCall(c)
                      /\ UNCHANGED <<llm_runs, locked, asked, unlogged, billed, malformed>>
  BY <1>1, ErrorTyped DEF Refused, InCall
<1>2. CASE Transient(c) \/ Rejected(c)
  <2>1. PICK error : Refused(c, error)
    BY <1>2 DEF Transient, Rejected
  <2> QED  BY <1>a, <1>1, <2>1 DEF LedgersTyped
<1>3. CASE Malformed(c)
  <2>1. /\ call[c].pc = "request" /\ call' = AfterError(c, "JSONParseError")
        /\ UNCHANGED <<llm_runs, locked, asked, unlogged>> /\ InCall(c)
    BY <1>3 DEF Malformed, InCall
  <2>2. LedgersTyped'
    BY <1>a, <1>3, <2>1 DEF Malformed, LedgersTyped
  <2> QED  BY <2>1, <2>2, ErrorTyped
<1>4. CASE Answered(c)
  <2>1. PICK cost \in Costs :
          /\ billed' = [billed EXCEPT ![call[c].task] = @ + cost]
          /\ call' = [call EXCEPT ![c].pc = "log", ![c].ok = TRUE,
                                  ![c].cost = Estimated(call[c].model, cost)]
    BY <1>4 DEF Answered
  <2> DEFINE new == [call[c] EXCEPT !.pc = "log", !.ok = TRUE,
                                    !.cost = Estimated(call[c].model, cost)]
  <2>2. Estimated(call[c].model, cost) = cost
    BY <1>a DEF Estimated, Priced
  <2>3. call' = [call EXCEPT ![c] = new]
    BY <2>1, CallTyped
  <2>4. InCall(c) /\ UNCHANGED <<llm_runs, locked, asked, unlogged, malformed>>
    BY <1>4 DEF Answered, InCall
  <2>5. new \in Calls /\ new.pc = "log" /\ new.task = call[c].task /\ new.cost = cost
        /\ new.model = call[c].model
    BY <1>a, <2>2 DEF Calls
  <2>6. LedgersTyped'
    BY <1>a, <2>1, <2>4 DEF LedgersTyped
  <2>7. new.task \in Tasks /\ (new.model = "haiku" => new.task \notin JudgmentTasks)
    <3> HIDE DEF new
    <3> QED  BY <1>a, <1>4, <2>4, <2>5 DEF Sound, InCall, Answered
  <2> HIDE DEF new
  <2> QED  BY <2>3, <2>4, <2>5, <2>6, <2>7 DEF Sound
<1>5. ASSUME WriteRow(c)
      PROVE  /\ LedgersTyped' /\ asked' = asked /\ InCall(c) /\ unlogged' = unlogged
             /\ llm_runs' = [llm_runs EXCEPT ![call[c].task].rows = @ + 1,
                                             ![call[c].task].cost = @ + call[c].cost]
  BY <1>a, <1>5 DEF WriteRow, LedgersTyped, InCall
<1>6. CASE LogSuccess(c)
  <2> DEFINE new == [NoCall EXCEPT !.pc = "returned", !.cost = call[c].cost]
  <2>1. Sound(new) /\ new.pc = "returned" /\ new.cost = call[c].cost
    BY <1>a, EndTyped DEF Sound, NoCall, Calls
  <2> QED  BY <1>5, <1>6, <2>1 DEF LogSuccess
<1> DEFINE failed == [NoCall EXCEPT !.pc = "failed"]
<1>7. Sound(failed) /\ failed.pc = "failed" /\ failed.cost = 0
  BY EndTyped DEF Sound, NoCall, Calls
<1>8. CASE LogFailure(c)
  BY <1>5, <1>7, <1>8 DEF LogFailure
<1>9. CASE LogLocked(c)
  <2>1. LedgersTyped'
    BY <1>a, <1>9 DEF LogLocked, LedgersTyped, InCall
  <2> QED  BY <1>7, <1>9, <2>1 DEF LogLocked, InCall
<1> QED  BY <1>2, <1>3, <1>4, <1>6, <1>8, <1>9 DEF CallStep

\* A call begins with one request of its task.
Begins(c, task) ==
    \E new : /\ Sound(new) /\ call' = [call EXCEPT ![c] = new] /\ LedgersTyped' /\ ~InCall(c)
             /\ new.pc = "request" /\ new.task = task /\ new.cost = 0
             /\ asked' = [asked EXCEPT ![task] = @ + 1]
             /\ UNCHANGED <<llm_runs, unlogged>>

LEMMA BeginTyped ==
    ASSUME ClientTypeOK, NEW c \in Callers, NEW task \in Tasks, NEW parses \in BOOLEAN,
           NEW model \in {"opus", "haiku"}, model = "haiku" => task \notin JudgmentTasks,
           BeginCall(c, task, model, parses)
    PROVE  Begins(c, task)
<1> DEFINE new == [NoCall EXCEPT !.pc = "request", !.task = task, !.model = model,
                                 !.parses = parses]
<1>1. NoCall \in Calls /\ NoCall.cost = 0
  BY EndTyped DEF Sound
<1>2. new \in Calls /\ new.pc = "request" /\ new.task = task /\ new.cost = 0
      /\ new.model = model
  BY <1>1 DEF Calls
<1>3. /\ call' = [call EXCEPT ![c] = new] /\ ~InCall(c)
      /\ asked' = [asked EXCEPT ![task] = @ + 1]
      /\ UNCHANGED <<llm_runs, locked, unlogged, billed, malformed>>
  BY DEF BeginCall
<1> HIDE DEF new
<1>4. LedgersTyped
  BY CallTyped
<1>5. LedgersTyped'
  BY <1>3, <1>4 DEF LedgersTyped
<1> QED  BY <1>2, <1>3, <1>5 DEF Begins, Sound

---------------------------------------------------------------------------
(* Backfill                                                                *)

\* What the application asks is not a buildability call.
LEMMA AppBegins ==
    ASSUME ClientTypeOK, NEW c \in Callers, AppAsks(c)
    PROVE  \E t \in Tasks \ {"buildability"} : Begins(c, t)
<1>1. PICK t \in Tasks \ {"buildability"} :
        Judge(c, t) \/ JudgeJson(c, t) \/ Mechanic(c, t) \/ MechanicJson(c, t)
  BY DEF AppAsks
<1> QED
  BY <1>1, BeginTyped DEF Judge, JudgeJson, Mechanic, MechanicJson

LEMMA RunBegins ==
    ASSUME ClientTypeOK, NEW r \in Runs, NextCandidate(r)
    PROVE  Begins(r, "buildability")
BY BeginTyped, BackfillAssumption DEF NextCandidate, JudgeJson

\* A killed run leaves its call without a row.
LEMMA KillTyped ==
    ASSUME ClientTypeOK, NEW c \in Callers, AbandonCall(c)
    PROVE  /\ call' = [call EXCEPT ![c] = NoCall] /\ LedgersTyped' /\ ClientTypeOK'
           /\ unlogged' = IF InCall(c) THEN [unlogged EXCEPT ![call[c].task] = @ + 1] ELSE unlogged
           /\ UNCHANGED <<llm_runs, asked>>
<1>a. LedgersTyped /\ (InCall(c) => call[c].task \in Tasks)
  BY CallTyped
<1>1. LedgersTyped'
  BY <1>a DEF AbandonCall, LedgersTyped
<1> QED  BY <1>1, EndTyped, CallSet DEF AbandonCall

LEMMA ScriptTyped ==
    ASSUME BackfillTypeOK, NEW r \in Runs
    PROVE  /\ script \in [Runs -> Scripts] /\ script[r] \in Scripts
           /\ script[r].todo \in SUBSET Candidates /\ script[r].candidate \in 0 .. MaxCandidate
           /\ script[r].since \in Nat /\ script[r].own \in Nat /\ script[r].alone \in BOOLEAN
           /\ script[r].pc \in {"idle", "next", "call", "check"}
           /\ Candidates \subseteq Nat /\ MaxCandidate \in Nat
           /\ r \in Callers /\ call[r].cost \in Nat /\ ClientTypeOK
           /\ llm_runs["buildability"].cost \in Nat /\ "buildability" \in Tasks
           /\ Budget \in Nat /\ Costs \subseteq Nat
<1>1. /\ r \in Callers /\ "buildability" \in Tasks /\ Budget \in Nat /\ Costs \subseteq Nat
      /\ MaxCandidate \in Nat /\ Candidates \subseteq Nat
  BY BackfillAssumption, ClientAssumption DEF Candidates
<1>2. ClientTypeOK /\ script \in [Runs -> Scripts] /\ script[r] \in Scripts
  BY DEF BackfillTypeOK
<1>3. /\ script[r].todo \in SUBSET Candidates /\ script[r].candidate \in 0 .. MaxCandidate
      /\ script[r].since \in Nat /\ script[r].own \in Nat /\ script[r].alone \in BOOLEAN
      /\ script[r].pc \in {"idle", "next", "call", "check"}
  BY <1>2 DEF Scripts
<1>4. call[r].cost \in Nat /\ llm_runs \in [Tasks -> [rows : Nat, cost : Nat]]
  BY <1>1, <1>2, CallTyped DEF LedgersTyped
<1> QED  BY <1>1, <1>2, <1>3, <1>4

\* What a run's locals may become.
SoundScript(new) ==
    /\ new \in Scripts
    /\ new.pc \in {"call", "check"} => new.candidate \in Candidates

LEMMA IdleSound == SoundScript(NoScript)
BY BackfillAssumption DEF SoundScript, NoScript, Scripts, Candidates

\* Every step of Backfill keeps the types.
LEMMA BackfillTypes == BackfillTypeOK /\ [BackfillNext]_backfillVars => BackfillTypeOK'
<1> SUFFICES ASSUME BackfillTypeOK, [BackfillNext]_backfillVars
             PROVE  BackfillTypeOK'
  OBVIOUS
<1>a. ClientTypeOK /\ starts \in Nat /\ buildability \in [Candidates -> BOOLEAN]
      /\ Runs \subseteq Callers
      /\ script \in [Runs -> Scripts] /\ \A r \in Runs : SoundScript(script[r])
  BY BackfillAssumption DEF BackfillTypeOK, SoundScript
<1>b. ASSUME NEW r \in Runs, NEW new, SoundScript(new), script' = [script EXCEPT ![r] = new],
             ClientTypeOK', starts' = starts, buildability' \in [Candidates -> BOOLEAN]
      PROVE  BackfillTypeOK'
  BY <1>a, <1>b DEF BackfillTypeOK, SoundScript
<1>c. UNCHANGED clientVars => ClientTypeOK'
  BY <1>a DEF clientVars, ClientTypeOK, InCall
<1>1. ASSUME NEW r \in Runs, NEW limit \in Limits, Start(r, limit)
      PROVE  BackfillTypeOK'
  <2> DEFINE new == [NoScript EXCEPT !.pc = "next", !.todo = Unassessed(limit),
                                     !.since = llm_runs["buildability"].cost,
                                     !.alone = \A p \in Runs : ~Running(p)]
  <2>1. (\A p \in Runs : ~Running(p)) \in BOOLEAN /\ Unassessed(limit) \subseteq Candidates
        /\ llm_runs["buildability"].cost \in Nat
    BY ScriptTyped DEF Unassessed
  <2>2. SoundScript(new)
    <3>1. NoScript \in Scripts
      BY IdleSound DEF SoundScript
    <3>2. new \in Scripts /\ new.pc = "next"
      BY <2>1, <3>1 DEF Scripts
    <3> HIDE DEF new
    <3> QED  BY <3>2 DEF SoundScript
  <2>3. ASSUME NEW q \in Runs
        PROVE  SoundScript([script[q] EXCEPT !.alone = FALSE])
    <3> DEFINE with == [script[q] EXCEPT !.alone = FALSE]
    <3>1. with \in Scripts /\ with.pc = script[q].pc /\ with.candidate = script[q].candidate
      BY ScriptTyped DEF Scripts
    <3>2. SoundScript(with)
      <4> HIDE DEF with
      <4> QED  BY <1>a, <3>1 DEF SoundScript
    <3> QED  BY <3>2
  <2>4. script' \in [Runs -> Scripts] /\ \A q \in Runs : SoundScript(script'[q])
    <3>1. script' = [q \in Runs |-> IF q = r THEN new
                       ELSE IF Running(q) THEN [script[q] EXCEPT !.alone = FALSE] ELSE script[q]]
      BY <1>1 DEF Start
    <3> HIDE DEF new
    <3> QED  BY <1>a, <2>2, <2>3, <3>1 DEF SoundScript
  <2>5. ClientTypeOK' /\ starts' \in Nat /\ buildability' = buildability
    <3>1. starts' = starts + 1 /\ UNCHANGED <<clientVars, buildability>>
      BY <1>1, Zenon DEF Start
    <3> QED  BY <1>a, <1>c, <3>1
  <2> HIDE DEF new
  <2> QED  BY <1>a, <2>4, <2>5 DEF BackfillTypeOK, SoundScript
<1>2. ASSUME NEW r \in Runs, NextCandidate(r)
      PROVE  BackfillTypeOK'
  <2>1. PICK c \in script[r].todo :
          script' = [script EXCEPT ![r].pc = "call", ![r].candidate = c, ![r].todo = @ \ {c}]
    BY <1>2 DEF NextCandidate
  <2> DEFINE new == [script[r] EXCEPT !.pc = "call", !.candidate = c, !.todo = @ \ {c}]
  <2>2. script' = [script EXCEPT ![r] = new]
    BY <1>a, <2>1
  <2>3. SoundScript(new)
    <3>1. script[r] \in Scripts /\ c \in Candidates /\ c \in 0 .. MaxCandidate
          /\ script[r].todo \ {c} \in SUBSET Candidates
      BY ScriptTyped DEF Candidates
    <3>2. new \in Scripts /\ new.candidate = c
      BY <3>1 DEF Scripts
    <3> HIDE DEF new
    <3> QED  BY <3>1, <3>2 DEF SoundScript
  <2>4. ClientTypeOK'
    BY <1>a, <1>2, RunBegins, CallSet DEF Begins
  <2> HIDE DEF new
  <2> QED  BY <1>a, <1>b, <1>2, <2>2, <2>3, <2>4 DEF NextCandidate
<1>3. ASSUME NEW r \in Runs, Finish(r) \/ BackfillRaises(r)
      PROVE  BackfillTypeOK'
  BY <1>a, <1>b, <1>c, <1>3, IdleSound DEF Finish, BackfillRaises
<1>4. ASSUME NEW r \in Runs, AssessCommit(r)
      PROVE  BackfillTypeOK'
  <2> DEFINE new == [script[r] EXCEPT !.pc = "check", !.own = @ + call[r].cost]
  <2>1. script' = [script EXCEPT ![r] = new]
    BY <1>a, <1>4 DEF AssessCommit
  <2>2. SoundScript(new)
    <3>1. script[r] \in Scripts /\ script[r].own + call[r].cost \in Nat
          /\ script[r].pc = "call" /\ script[r].candidate \in Candidates
      BY <1>a, <1>4, ScriptTyped DEF SoundScript, AssessCommit
    <3>2. new \in Scripts /\ new.candidate = script[r].candidate
      BY <3>1 DEF Scripts
    <3> HIDE DEF new
    <3> QED  BY <3>1, <3>2 DEF SoundScript
  <2>3. buildability' \in [Candidates -> BOOLEAN]
    BY <1>a, <1>4 DEF AssessCommit
  <2> HIDE DEF new
  <2> QED  BY <1>b, <1>c, <1>4, <2>1, <2>2, <2>3 DEF AssessCommit
<1>5. ASSUME NEW r \in Runs, CheckBudget(r)
      PROVE  BackfillTypeOK'
  <2> DEFINE new == IF RunCost(r) > Budget THEN NoScript
                    ELSE [script[r] EXCEPT !.pc = "next", !.candidate = 0]
  <2>1. script' = [script EXCEPT ![r] = new]
    BY <1>a, <1>5 DEF CheckBudget
  <2>2. SoundScript([script[r] EXCEPT !.pc = "next", !.candidate = 0])
    <3> DEFINE on == [script[r] EXCEPT !.pc = "next", !.candidate = 0]
    <3>1. script[r] \in Scripts /\ 0 \in 0 .. MaxCandidate
      BY ScriptTyped
    <3>2. on \in Scripts /\ on.pc = "next"
      BY <3>1 DEF Scripts
    <3>3. SoundScript(on)
      <4> HIDE DEF on
      <4> QED  BY <3>2 DEF SoundScript
    <3> QED  BY <3>3
  <2>3. SoundScript(new)
    BY <2>2, IdleSound
  <2> HIDE DEF new
  <2> QED  BY <1>a, <1>b, <1>c, <1>5, <2>1, <2>3 DEF CheckBudget
<1>6. ASSUME NEW r \in Runs, Kill(r)
      PROVE  BackfillTypeOK'
  BY <1>a, <1>b, <1>6, IdleSound, KillTyped DEF Kill
<1>7. ASSUME NEW c \in Callers \ Runs, AppAsks(c)
      PROVE  BackfillTypeOK'
  <2>1. ClientTypeOK'
    BY <1>a, <1>7, AppBegins, CallSet DEF Begins
  <2> QED  BY <1>a, <1>7, <2>1 DEF AppAsks, BackfillTypeOK
<1>8. ASSUME NEW c \in Callers, CallStep(c), UNCHANGED <<buildability, script, starts>>
      PROVE  BackfillTypeOK'
  <2>1. ClientTypeOK'
    BY <1>a, <1>8, CallSteps, CallSet
  <2> QED  BY <1>8, <2>1 DEF BackfillTypeOK
<1>9. CASE LockToggles /\ UNCHANGED <<buildability, script, starts>>
  BY <1>9 DEF LockToggles, BackfillTypeOK, ClientTypeOK, InCall
<1>10. CASE UNCHANGED backfillVars
  BY <1>a, <1>c, <1>10 DEF backfillVars, BackfillTypeOK
<1> QED
  BY <1>1, <1>2, <1>3, <1>4, <1>5, <1>6, <1>7, <1>8, <1>9, <1>10 DEF BackfillNext, RunStep

\* Calls of a task that are under way.
Pending(t) == {c \in Callers : InCall(c) /\ call[c].task = t}

\* How one caller's step changes them.
LEMMA PendingCount ==
    ASSUME ClientTypeOK, NEW c \in Callers, NEW new, call' = [call EXCEPT ![c] = new], NEW t
    PROVE  /\ Cardinality(Pending(t)) \in Nat
           /\ Cardinality(Pending(t))' =
                 Cardinality(Pending(t))
                   + (IF new.pc \in {"request", "log"} /\ new.task = t THEN 1 ELSE 0)
                   - (IF InCall(c) /\ call[c].task = t THEN 1 ELSE 0)
<1> DEFINE is == new.pc \in {"request", "log"} /\ new.task = t
           held == Pending(t)
<1>1. IsFiniteSet(held)
  BY ClientAssumption, FS_Subset DEF Pending
<1>2. call'[c] = new /\ \A d \in Callers \ {c} : call'[d] = call[d]
  BY DEF ClientTypeOK
<1>3. held' = IF is THEN held \cup {c} ELSE held \ {c}
  BY <1>2 DEF Pending, InCall
<1>4. is \in BOOLEAN
  OBVIOUS
<1> HIDE DEF is, held
<1>5. /\ Cardinality(held) \in Nat
      /\ c \notin held /\ is => Cardinality(held') = Cardinality(held) + 1
      /\ c \in held /\ ~is => Cardinality(held') = Cardinality(held) - 1
      /\ (c \in held) = is => held' = held
  BY <1>1, <1>3, <1>4, FS_CardinalityType, FS_AddElement, FS_RemoveElement
<1>6. (c \in held) = (InCall(c) /\ call[c].task = t)
  BY DEF held, Pending
<1>7. Cardinality(held)' = Cardinality(held) + (IF is THEN 1 ELSE 0)
                             - (IF InCall(c) /\ call[c].task = t THEN 1 ELSE 0)
  BY <1>4, <1>5, <1>6
<1> QED  BY <1>5, <1>7 DEF is, held

\* A caller's step keeps RowPerCall if it begins a call, goes on with one, or ends one
\* with a row or without.
LEMMA RowStep ==
    ASSUME ClientTypeOK, RowPerCall, NEW c \in Callers, CallStep(c)
    PROVE  RowPerCall'
<1> SUFFICES ASSUME NEW t \in Tasks
             PROVE  asked'[t] = llm_runs'[t].rows + unlogged'[t] + Cardinality(Pending(t))'
  BY DEF RowPerCall, Pending
<1>1. /\ asked[t] = llm_runs[t].rows + unlogged[t] + Cardinality(Pending(t))
      /\ llm_runs \in [Tasks -> [rows : Nat, cost : Nat]]
      /\ unlogged \in [Tasks -> Nat] /\ llm_runs[t].rows \in Nat
      /\ unlogged[t] \in Nat /\ asked[t] \in Nat
  BY DEF RowPerCall, Pending, ClientTypeOK
<1>2. PICK new :
        /\ Sound(new) /\ call' = [call EXCEPT ![c] = new] /\ asked' = asked /\ InCall(c)
        /\ \/ /\ new.pc \in {"request", "log"} /\ new.task = call[c].task
              /\ UNCHANGED <<llm_runs, unlogged>>
           \/ /\ new.pc \in {"returned", "failed"}
              /\ llm_runs' = [llm_runs EXCEPT ![call[c].task].rows = @ + 1,
                                              ![call[c].task].cost = @ + call[c].cost]
              /\ unlogged' = unlogged
           \/ /\ new.pc = "failed"
              /\ llm_runs' = llm_runs
              /\ unlogged' = [unlogged EXCEPT ![call[c].task] = @ + 1]
  BY CallSteps
<1>4. /\ Cardinality(Pending(t)) \in Nat
      /\ Cardinality(Pending(t))' =
            Cardinality(Pending(t))
              + (IF new.pc \in {"request", "log"} /\ new.task = t THEN 1 ELSE 0)
              - (IF call[c].task = t THEN 1 ELSE 0)
  BY <1>2, PendingCount
<1>5. CASE new.pc \in {"request", "log"} /\ new.task = call[c].task
           /\ UNCHANGED <<llm_runs, unlogged>>
  <2>1. Cardinality(Pending(t))' = Cardinality(Pending(t))
    BY <1>4, <1>5
  <2> QED  BY <1>1, <1>2, <1>5, <2>1
<1>6. CASE call[c].task # t /\ new.pc \in {"returned", "failed"}
  <2>1. Cardinality(Pending(t))' = Cardinality(Pending(t))
    BY <1>4, <1>6
  <2>2. llm_runs'[t].rows = llm_runs[t].rows /\ unlogged'[t] = unlogged[t]
    BY <1>1, <1>2, <1>6
  <2> QED  BY <1>1, <1>2, <2>1, <2>2
<1>7. CASE call[c].task = t /\ new.pc \in {"returned", "failed"}
  <2>1. Cardinality(Pending(t))' = Cardinality(Pending(t)) - 1
    BY <1>4, <1>7
  <2>2. \/ llm_runs'[t].rows = llm_runs[t].rows + 1 /\ unlogged'[t] = unlogged[t]
        \/ llm_runs'[t].rows = llm_runs[t].rows /\ unlogged'[t] = unlogged[t] + 1
    BY <1>1, <1>2, <1>7
  <2> QED  BY <1>1, <1>2, <1>4, <2>1, <2>2
<1> QED  BY <1>2, <1>5, <1>6, <1>7

LEMMA RowBegin ==
    ASSUME ClientTypeOK, RowPerCall, NEW c \in Callers, NEW task \in Tasks, Begins(c, task)
    PROVE  RowPerCall'
<1> SUFFICES ASSUME NEW t \in Tasks
             PROVE  asked'[t] = llm_runs'[t].rows + unlogged'[t] + Cardinality(Pending(t))'
  BY DEF RowPerCall, Pending
<1>1. /\ asked[t] = llm_runs[t].rows + unlogged[t] + Cardinality(Pending(t))
      /\ asked \in [Tasks -> Nat] /\ llm_runs[t].rows \in Nat
      /\ unlogged[t] \in Nat /\ asked[t] \in Nat
  BY DEF RowPerCall, Pending, ClientTypeOK
<1>2. PICK new :
        /\ call' = [call EXCEPT ![c] = new] /\ ~InCall(c) /\ new.pc = "request"
        /\ new.task = task /\ asked' = [asked EXCEPT ![task] = @ + 1]
        /\ UNCHANGED <<llm_runs, unlogged>>
  BY DEF Begins
<1>3. /\ Cardinality(Pending(t)) \in Nat
      /\ Cardinality(Pending(t))' = Cardinality(Pending(t)) + (IF task = t THEN 1 ELSE 0)
  <2>1. Cardinality(Pending(t)) \in Nat
    BY <1>2, PendingCount
  <2>2. Cardinality(Pending(t))' =
          Cardinality(Pending(t))
            + (IF new.pc \in {"request", "log"} /\ new.task = t THEN 1 ELSE 0)
            - (IF InCall(c) /\ call[c].task = t THEN 1 ELSE 0)
    BY <1>2, PendingCount
  <2> QED  BY <1>2, <2>1, <2>2
<1> QED  BY <1>1, <1>2, <1>3

LEMMA RowKill ==
    ASSUME ClientTypeOK, RowPerCall, NEW c \in Callers, AbandonCall(c)
    PROVE  RowPerCall'
<1> SUFFICES ASSUME NEW t \in Tasks
             PROVE  asked'[t] = llm_runs'[t].rows + unlogged'[t] + Cardinality(Pending(t))'
  BY DEF RowPerCall, Pending
<1>1. /\ asked[t] = llm_runs[t].rows + unlogged[t] + Cardinality(Pending(t))
      /\ unlogged \in [Tasks -> Nat] /\ llm_runs[t].rows \in Nat
      /\ unlogged[t] \in Nat /\ asked[t] \in Nat
  BY DEF RowPerCall, Pending, ClientTypeOK
<1>2. /\ call' = [call EXCEPT ![c] = NoCall] /\ UNCHANGED <<llm_runs, asked>>
      /\ unlogged' = IF InCall(c) THEN [unlogged EXCEPT ![call[c].task] = @ + 1] ELSE unlogged
  BY KillTyped
<1>4. /\ Cardinality(Pending(t)) \in Nat
      /\ Cardinality(Pending(t))' =
            Cardinality(Pending(t)) - (IF InCall(c) /\ call[c].task = t THEN 1 ELSE 0)
  <2>1. Cardinality(Pending(t)) \in Nat
    BY <1>2, PendingCount
  <2>2. Cardinality(Pending(t))' =
          Cardinality(Pending(t))
            + (IF NoCall.pc \in {"request", "log"} /\ NoCall.task = t THEN 1 ELSE 0)
            - (IF InCall(c) /\ call[c].task = t THEN 1 ELSE 0)
    BY <1>2, PendingCount
  <2> QED  BY <2>1, <2>2, EndTyped
<1>5. CASE InCall(c) /\ call[c].task = t
  <2>1. Cardinality(Pending(t))' = Cardinality(Pending(t)) - 1
    BY <1>4, <1>5
  <2> QED  BY <1>1, <1>2, <1>4, <1>5, <2>1
<1>6. CASE ~(InCall(c) /\ call[c].task = t)
  <2>1. Cardinality(Pending(t))' = Cardinality(Pending(t))
    BY <1>4, <1>6
  <2> QED  BY <1>1, <1>2, <1>4, <1>6, <2>1
<1> QED  BY <1>5, <1>6

\* The types hold of every state of Backfill, for any callers, costs and limits.
LEMMA BackfillTyped == BackfillSpec => []BackfillTypeOK
<1>1. BackfillInit => BackfillTypeOK
  <2> SUFFICES ASSUME BackfillInit
               PROVE  BackfillTypeOK
    OBVIOUS
  <2>1. NoCall \in Calls /\ NoCall.pc = "idle"
    BY EndTyped DEF Sound
  <2>2. NoScript \in Scripts /\ NoScript.pc = "idle"
    BY IdleSound DEF SoundScript, NoScript
  <2>3. ClientTypeOK
    BY <2>1 DEF BackfillInit, ClientInit, ClientTypeOK, InCall
  <2> QED  BY <2>2, <2>3 DEF BackfillInit, BackfillTypeOK
<1> QED  BY <1>1, BackfillTypes, PTL DEF BackfillSpec

\* The audit log has one row per call, whoever calls, however often a request is
\* retried and whenever a caller is killed or locked out.
THEOREM CallsLogged == BackfillSpec => []RowPerCall
<1>1. BackfillInit => RowPerCall
  <2> SUFFICES ASSUME BackfillInit, NEW t \in Tasks
               PROVE  asked[t] = llm_runs[t].rows + unlogged[t] + Cardinality(Pending(t))
    BY DEF RowPerCall, Pending
  <2>1. Pending(t) = {}
    BY DEF BackfillInit, ClientInit, Pending, InCall, NoCall
  <2> QED  BY <2>1, FS_EmptySet DEF BackfillInit, ClientInit
<1>2. BackfillTypeOK /\ RowPerCall /\ [BackfillNext]_backfillVars => RowPerCall'
  <2> SUFFICES ASSUME BackfillTypeOK, RowPerCall, [BackfillNext]_backfillVars
               PROVE  RowPerCall'
    OBVIOUS
  <2>a. ClientTypeOK /\ Runs \subseteq Callers /\ "buildability" \in Tasks
    BY BackfillAssumption DEF BackfillTypeOK
  <2>b. UNCHANGED clientVars => RowPerCall'
    BY DEF clientVars, RowPerCall, InCall
  <2>1. ASSUME NEW r \in Runs, NextCandidate(r)
        PROVE  RowPerCall'
    BY <2>a, <2>1, RunBegins, RowBegin
  <2>2. ASSUME NEW r \in Runs, Kill(r)
        PROVE  RowPerCall'
    BY <2>a, <2>2, RowKill DEF Kill
  <2>3. ASSUME NEW c \in Callers, AppAsks(c)
        PROVE  RowPerCall'
    BY <2>a, <2>3, AppBegins, RowBegin
  <2>4. ASSUME NEW c \in Callers, CallStep(c)
        PROVE  RowPerCall'
    BY <2>a, <2>4, RowStep
  <2>5. CASE LockToggles
    BY <2>5 DEF LockToggles, RowPerCall, InCall
  <2>6. ASSUME NEW r \in Runs, NEW limit \in Limits, Start(r, limit)
        PROVE  RowPerCall'
    <3>1. UNCHANGED clientVars
      BY <2>6, Zenon DEF Start
    <3> QED  BY <2>b, <3>1
  <2>7. ASSUME NEW r \in Runs,
               Finish(r) \/ AssessCommit(r) \/ BackfillRaises(r) \/ CheckBudget(r)
        PROVE  RowPerCall'
    <3>1. UNCHANGED clientVars
      BY <2>7, Zenon DEF Finish, AssessCommit, BackfillRaises, CheckBudget
    <3> QED  BY <2>b, <3>1
  <2>8. CASE UNCHANGED backfillVars
    <3>1. UNCHANGED clientVars
      BY <2>8 DEF backfillVars
    <3> QED  BY <2>b, <3>1
  <2> QED
    BY <2>1, <2>2, <2>3, <2>4, <2>5, <2>6, <2>7, <2>8 DEF BackfillNext, RunStep
<1> QED  BY <1>1, <1>2, BackfillTyped, PTL DEF BackfillSpec

\* What a run has still to assess.
Ahead(r) ==
    script[r].todo \cup (IF script[r].pc = "call" THEN {script[r].candidate} ELSE {})

\* A run has left out no older candidate without a value, and takes the oldest first.
InOrder(r) ==
    /\ \A d \in Ahead(r), c \in Candidates : c < d => c \in Ahead(r) \/ buildability[c]
    /\ script[r].pc = "call" => \A d \in script[r].todo : script[r].candidate < d

\* A run that no other overlapped has only candidates without a value ahead.
Exclusive(r) ==
    Running(r) /\ script[r].alone =>
        /\ \A q \in Runs : Running(q) => q = r
        /\ \A c \in Ahead(r) : ~buildability[c]

WorkInv == OldestFirst /\ \A r \in Runs : InOrder(r) /\ Exclusive(r)

\* The oldest of the candidates without a value have no older one without.
LEMMA UnassessedOldest ==
    ASSUME BackfillTypeOK, NEW limit \in Limits, NEW d \in Unassessed(limit),
           NEW c \in Candidates, c < d
    PROVE  c \in Unassessed(limit) \/ buildability[c]
<1> SUFFICES ASSUME ~buildability[c]
             PROVE  c \in Unassessed(limit)
  OBVIOUS
<1> DEFINE open == {e \in Candidates : ~buildability[e]}
           older(n) == {e \in open : e < n}
<1>1. limit \in Nat /\ d \in Candidates /\ Candidates \subseteq Nat
      /\ Cardinality(older(d)) < limit
  BY BackfillAssumption DEF Unassessed, Candidates
<1>2. IsFiniteSet(Candidates)
  BY BackfillAssumption, FS_Interval DEF Candidates
<1>3. older(d) \subseteq Candidates /\ older(c) \subseteq older(d)
  <2>1. \A e \in Candidates : e < c => e < d
    BY <1>1
  <2> QED  BY <2>1
<1>4. IsFiniteSet(older(d))
  BY <1>2, <1>3, FS_Subset
<1>5. /\ Cardinality(older(c)) \in Nat /\ Cardinality(older(d)) \in Nat
      /\ Cardinality(older(c)) <= Cardinality(older(d))
  BY <1>3, <1>4, FS_Subset, FS_CardinalityType
<1>6. Cardinality(older(c)) < limit
  BY <1>1, <1>5
<1> QED  BY <1>6 DEF Unassessed

\* A run that ends takes nothing from the others.
LEMMA WorkEnds ==
    ASSUME BackfillTypeOK, WorkInv, NEW r \in Runs,
           script' = [script EXCEPT ![r] = NoScript], buildability' = buildability
    PROVE  WorkInv'
<1>1. \A q \in Runs : script'[q] = IF q = r THEN NoScript ELSE script[q]
  BY DEF BackfillTypeOK
<1>2. NoScript.todo = {} /\ NoScript.pc = "idle"
  BY DEF NoScript
<1>3. \A q \in Runs : Ahead(q)' = IF q = r THEN {} ELSE Ahead(q)
  BY <1>1, <1>2 DEF Ahead
<1>4. \A q \in Runs : InOrder(q)'
  BY <1>1, <1>2, <1>3 DEF WorkInv, InOrder
<1>5. \A q \in Runs : Exclusive(q)'
  BY <1>1, <1>2, <1>3 DEF WorkInv, Exclusive, Running
<1> QED  BY <1>4, <1>5 DEF WorkInv, OldestFirst

LEMMA WorkSame ==
    ASSUME WorkInv, UNCHANGED <<script, buildability>>
    PROVE  WorkInv'
BY DEF WorkInv, OldestFirst, InOrder, Exclusive, Ahead, Running

LEMMA WorkStart ==
    ASSUME BackfillTypeOK, WorkInv, NEW r \in Runs, NEW limit \in Limits, Start(r, limit)
    PROVE  WorkInv'
<1> DEFINE new == [NoScript EXCEPT !.pc = "next", !.todo = Unassessed(limit),
                                   !.since = llm_runs["buildability"].cost,
                                   !.alone = \A p \in Runs : ~Running(p)]
<1>1. /\ script' = [q \in Runs |-> IF q = r THEN new
                       ELSE IF Running(q) THEN [script[q] EXCEPT !.alone = FALSE] ELSE script[q]]
      /\ ~Running(r)
      /\ buildability' = buildability
  BY Zenon DEF Start
<1>2. /\ new.pc = "next" /\ new.todo = Unassessed(limit)
      /\ new.alone = \A p \in Runs : ~Running(p)
  BY DEF NoScript
<1>3. \A q \in Runs : LET s == [script[q] EXCEPT !.alone = FALSE]
                      IN  s.pc = script[q].pc /\ s.todo = script[q].todo /\ ~s.alone
                          /\ s.candidate = script[q].candidate
  BY DEF BackfillTypeOK, Scripts
<1> HIDE DEF new
<1>4. \A q \in Runs : /\ q = r => script'[q] = new
                      /\ q # r => /\ script'[q].pc = script[q].pc
                                  /\ script'[q].todo = script[q].todo
                                  /\ script'[q].candidate = script[q].candidate
                                  /\ Running(q) => ~script'[q].alone
  BY <1>1, <1>3
<1>5. \A q \in Runs : Ahead(q)' = IF q = r THEN Unassessed(limit) ELSE Ahead(q)
  BY <1>2, <1>4 DEF Ahead
<1>6. \A q \in Runs : InOrder(q)'
  BY <1>1, <1>2, <1>4, <1>5, UnassessedOldest DEF WorkInv, InOrder
<1>7. \A q \in Runs : Exclusive(q)'
  BY <1>1, <1>2, <1>4, <1>5 DEF Exclusive, Running, Unassessed
<1> QED  BY <1>1, <1>6, <1>7 DEF WorkInv, OldestFirst

LEMMA WorkNext ==
    ASSUME BackfillTypeOK, WorkInv, NEW r \in Runs, NextCandidate(r)
    PROVE  WorkInv' /\ (script[r].alone => ~buildability[script'[r].candidate])
<1>1. PICK c \in script[r].todo :
        /\ \A d \in script[r].todo : c <= d
        /\ script' = [script EXCEPT ![r].pc = "call", ![r].candidate = c, ![r].todo = @ \ {c}]
  BY DEF NextCandidate
<1>2. script[r].pc = "next" /\ buildability' = buildability
  BY DEF NextCandidate
<1>3. /\ script'[r].pc = "call" /\ script'[r].candidate = c
      /\ script'[r].todo = script[r].todo \ {c} /\ script'[r].alone = script[r].alone
      /\ \A q \in Runs \ {r} : script'[q] = script[q]
  BY <1>1, ScriptTyped DEF Scripts
<1>4. script[r].todo \subseteq Nat
  BY ScriptTyped
<1>5. \A q \in Runs : Ahead(q)' = Ahead(q)
  BY <1>1, <1>2, <1>3 DEF Ahead
<1>6. ASSUME NEW q \in Runs
      PROVE  InOrder(q)'
  <2>1. \A d \in script[r].todo \ {c} : c < d
    BY <1>1, <1>4
  <2>2. \A d \in Ahead(q)', e \in Candidates : e < d => e \in Ahead(q)' \/ buildability'[e]
    BY <1>2, <1>5 DEF WorkInv, InOrder
  <2>3. script'[q].pc = "call" => \A d \in script'[q].todo : script'[q].candidate < d
    BY <1>3, <2>1 DEF WorkInv, InOrder
  <2> QED  BY <2>2, <2>3 DEF InOrder
<1>7. \A q \in Runs : Exclusive(q)'
  BY <1>2, <1>3, <1>5 DEF WorkInv, Exclusive, Running
<1>8. script[r].alone => ~buildability[c]
  BY <1>1, <1>2 DEF WorkInv, Exclusive, Running, Ahead
<1> QED  BY <1>2, <1>3, <1>6, <1>7, <1>8 DEF WorkInv, OldestFirst

LEMMA WorkCommit ==
    ASSUME BackfillTypeOK, WorkInv, NEW r \in Runs, AssessCommit(r)
    PROVE  WorkInv'
<1> DEFINE cand == script[r].candidate
<1>1. /\ script[r].pc = "call" /\ buildability' = [buildability EXCEPT ![cand] = TRUE]
      /\ script' = [script EXCEPT ![r].pc = "check", ![r].own = @ + call[r].cost]
  BY DEF AssessCommit
<1>2. /\ script'[r].pc = "check" /\ script'[r].todo = script[r].todo
      /\ script'[r].alone = script[r].alone
      /\ \A q \in Runs \ {r} : script'[q] = script[q]
  BY <1>1, ScriptTyped DEF Scripts
<1>3. /\ cand \in Candidates /\ Candidates \subseteq Nat /\ script[r].todo \subseteq Candidates
      /\ buildability \in [Candidates -> BOOLEAN]
  BY <1>1, ScriptTyped DEF BackfillTypeOK
<1>4. \A c \in Candidates : buildability'[c] = (buildability[c] \/ c = cand)
  BY <1>1, <1>3
<1>5. Ahead(r) = script[r].todo \cup {cand} /\ \A d \in script[r].todo : cand < d
  BY <1>1 DEF Ahead, WorkInv, InOrder
<1>6. \A q \in Runs : Ahead(q)' = IF q = r THEN script[r].todo ELSE Ahead(q)
  BY <1>2 DEF Ahead
<1>7. ASSUME NEW c \in Candidates, c < cand
      PROVE  buildability[c]
  <2>1. c \in Ahead(r) \/ buildability[c]
    BY <1>5, <1>7 DEF WorkInv, InOrder
  <2>2. ~(cand < c) /\ c # cand
    BY <1>3, <1>7
  <2> QED  BY <1>5, <2>1, <2>2
<1>8. OldestFirst'
  BY <1>3, <1>4, <1>7 DEF WorkInv, OldestFirst
<1>9. \A q \in Runs : InOrder(q)'
  BY <1>2, <1>4, <1>5, <1>6 DEF WorkInv, InOrder
<1>10. \A q \in Runs : Exclusive(q)'
  <2>1. ASSUME Running(r), script[r].alone
        PROVE  \A c \in script[r].todo : ~buildability'[c]
    <3>1. \A c \in script[r].todo : c # cand
      <4>1. cand \in Nat
        BY <1>3
      <4>2. ~(cand < cand)
        BY <4>1
      <4> QED  BY <1>5, <4>2
    <3> QED  BY <1>3, <1>4, <1>5, <2>1, <3>1 DEF WorkInv, Exclusive
  <2> QED  BY <1>1, <1>2, <1>6, <2>1 DEF WorkInv, Exclusive, Running
<1> QED  BY <1>8, <1>9, <1>10 DEF WorkInv

LEMMA WorkCheck ==
    ASSUME BackfillTypeOK, WorkInv, NEW r \in Runs, CheckBudget(r)
    PROVE  WorkInv'
<1>1. /\ script[r].pc = "check" /\ buildability' = buildability
      /\ script' = [script EXCEPT ![r] = IF RunCost(r) > Budget THEN NoScript
                                         ELSE [@ EXCEPT !.pc = "next", !.candidate = 0]]
  BY DEF CheckBudget
<1>2. CASE RunCost(r) > Budget
  BY <1>1, <1>2, WorkEnds
<1>3. CASE ~(RunCost(r) > Budget)
  <2>1. /\ script'[r].pc = "next" /\ script'[r].todo = script[r].todo
        /\ script'[r].alone = script[r].alone
        /\ \A q \in Runs \ {r} : script'[q] = script[q]
    BY <1>1, <1>3, ScriptTyped DEF Scripts
  <2>2. \A q \in Runs : Ahead(q)' = Ahead(q)
    BY <1>1, <2>1 DEF Ahead
  <2>3. \A q \in Runs : InOrder(q)'
    BY <1>1, <2>1, <2>2 DEF WorkInv, InOrder
  <2>4. \A q \in Runs : Exclusive(q)'
    BY <1>1, <2>1, <2>2 DEF WorkInv, Exclusive, Running
  <2> QED  BY <1>1, <2>3, <2>4 DEF WorkInv, OldestFirst
<1> QED  BY <1>2, <1>3

LEMMA WorkStep == BackfillTypeOK /\ WorkInv /\ [BackfillNext]_backfillVars => WorkInv'
<1> SUFFICES ASSUME BackfillTypeOK, WorkInv, [BackfillNext]_backfillVars
             PROVE  WorkInv'
  OBVIOUS
<1>1. ASSUME NEW r \in Runs, Finish(r) \/ BackfillRaises(r) \/ Kill(r)
      PROVE  WorkInv'
  BY <1>1, WorkEnds DEF Finish, BackfillRaises, Kill
<1>2. ASSUME NEW c \in Callers, AppAsks(c)
      PROVE  WorkInv'
  BY <1>2, WorkSame DEF AppAsks
<1>3. CASE UNCHANGED backfillVars
  BY <1>3, WorkSame DEF backfillVars
<1> QED
  BY <1>1, <1>2, <1>3, WorkStart, WorkNext, WorkCommit, WorkCheck, WorkSame
     DEF BackfillNext, RunStep

LEMMA WorkInit == BackfillInit => WorkInv
<1> SUFFICES ASSUME BackfillInit
             PROVE  WorkInv
  OBVIOUS
<1>1. \A r \in Runs : script[r].pc = "idle" /\ script[r].todo = {}
  BY DEF BackfillInit, NoScript
<1>2. \A c \in Candidates : ~buildability[c]
  BY DEF BackfillInit
<1> QED  BY <1>1, <1>2 DEF WorkInv, OldestFirst, InOrder, Exclusive, Ahead, Running

\* Candidates are assessed in the order of their ids, for any runs and limits.
THEOREM BackfillOldestFirst == BackfillSpec => []OldestFirst
<1>1. WorkInv => OldestFirst
  BY DEF WorkInv
<1> QED  BY <1>1, WorkInit, WorkStep, BackfillTyped, PTL DEF BackfillSpec

\* A run that no other overlaps asks for no candidate that has its value.
THEOREM BackfillIdempotent == BackfillSpec => AloneNeverAsksTwice
<1>1. BackfillTypeOK /\ WorkInv =>
        [\A r \in Runs :
            NextCandidate(r) /\ script[r].alone => ~buildability[script'[r].candidate]]_backfillVars
  BY WorkNext
<1> QED  BY <1>1, WorkInit, WorkStep, BackfillTyped, PTL DEF BackfillSpec, AloneNeverAsksTwice

\* What the log holds since a run started covers the run's rows, and the guard is
\* passed before each call.
Guarded(r) ==
    /\ script[r].pc = "idle" => script[r].own = 0
    /\ script[r].pc \in {"next", "call"} => script[r].own <= Budget
    /\ script[r].pc = "check" => \E cost \in Costs \cup {0} : script[r].own <= Budget + cost
    /\ script[r].pc = "call" /\ InCall(r) => call[r].task = "buildability"
    /\ Running(r) => script[r].since + script[r].own
                       + (IF script[r].pc = "call" /\ call[r].pc = "returned"
                            THEN call[r].cost ELSE 0)
                     <= llm_runs["buildability"].cost

SpendInv ==
    /\ \A c \in Callers : call[c].cost \in Costs \cup {0}
    /\ \A r \in Runs : Guarded(r)

\* A step of a caller leaves the runs of the others covered.
LEMMA SpendOther ==
    ASSUME BackfillTypeOK, SpendInv, BackfillTypeOK', NEW q \in Runs,
           script'[q].pc = script[q].pc, script'[q].own = script[q].own,
           script'[q].since = script[q].since, call'[q] = call[q],
           llm_runs'["buildability"].cost >= llm_runs["buildability"].cost
    PROVE  Guarded(q)'
<1>1. /\ llm_runs'["buildability"].cost \in Nat /\ llm_runs["buildability"].cost \in Nat
      /\ script[q].since \in Nat /\ script[q].own \in Nat /\ call[q].cost \in Nat
  BY ScriptTyped DEF BackfillTypeOK, ClientTypeOK
<1> QED  BY <1>1 DEF SpendInv, Guarded, InCall, Running

LEMMA SpendEnds ==
    ASSUME BackfillTypeOK, NEW r \in Runs, script' = [script EXCEPT ![r] = NoScript]
    PROVE  Guarded(r)'
<1>1. script'[r] = NoScript
  BY DEF BackfillTypeOK
<1> QED  BY <1>1 DEF Guarded, Running, NoScript

LEMMA SpendCallStep ==
    ASSUME BackfillTypeOK, SpendInv, BackfillTypeOK', NEW c \in Callers, CallStep(c),
           script' = script
    PROVE  SpendInv'
<1>1. PICK new :
        /\ call' = [call EXCEPT ![c] = new] /\ InCall(c)
        /\ \/ /\ new.pc \in {"request", "log"} /\ new.task = call[c].task
              /\ new.cost \in {0, call[c].cost} \cup Costs
              /\ llm_runs' = llm_runs
           \/ /\ new.pc \in {"returned", "failed"}
              /\ new.cost \in {0, call[c].cost}
              /\ llm_runs' = [llm_runs EXCEPT ![call[c].task].rows = @ + 1,
                                              ![call[c].task].cost = @ + call[c].cost]
           \/ /\ new.pc = "failed" /\ new.cost = 0
              /\ llm_runs' = llm_runs
  BY CallSteps DEF BackfillTypeOK
<1>2. /\ call[c].cost \in Costs \cup {0} /\ call[c].cost \in Nat /\ Costs \subseteq Nat
      /\ call[c].task \in Tasks /\ "buildability" \in Tasks
      /\ llm_runs \in [Tasks -> [rows : Nat, cost : Nat]]
  BY <1>1, CallTyped, BackfillAssumption, ClientAssumption
     DEF SpendInv, BackfillTypeOK, LedgersTyped
<1>3. call'[c] = new /\ new.cost \in Costs \cup {0} /\ new.cost \in Nat
      /\ \A d \in Callers \ {c} : call'[d] = call[d]
  BY <1>1, <1>2 DEF BackfillTypeOK, ClientTypeOK
<1>4. /\ llm_runs["buildability"].cost \in Nat
      /\ llm_runs'["buildability"].cost =
           llm_runs["buildability"].cost
             + (IF call[c].task = "buildability" /\ llm_runs' # llm_runs THEN call[c].cost ELSE 0)
  BY <1>1, <1>2
<1>5. \A d \in Callers : call'[d].cost \in Costs \cup {0}
  BY <1>3 DEF SpendInv
<1>6. ASSUME NEW q \in Runs, q # c
      PROVE  Guarded(q)'
  <2>1. call'[q] = call[q]
    BY <1>3, <1>6, BackfillAssumption
  <2> QED  BY <1>2, <1>4, <2>1, SpendOther
<1>7. ASSUME c \in Runs
      PROVE  Guarded(c)'
  <2>1. /\ script[c].since \in Nat /\ script[c].own \in Nat
        /\ script[c].pc \in {"idle", "next", "call", "check"}
        /\ Guarded(c)
    BY <1>7, ScriptTyped DEF SpendInv
  <2>2. InCall(c) /\ call[c].pc # "returned"
    BY <1>1 DEF InCall
  <2>3. script[c].pc = "call" /\ InCall(c)' => call'[c].task = "buildability"
    BY <1>1, <1>3, <2>1, <2>2 DEF Guarded, InCall
  <2>4. ASSUME Running(c)
        PROVE  script[c].since + script[c].own
                 + (IF script[c].pc = "call" /\ new.pc = "returned" THEN new.cost ELSE 0)
               <= llm_runs'["buildability"].cost
    <3>1. script[c].since + script[c].own <= llm_runs["buildability"].cost
      BY <2>1, <2>2, <2>4 DEF Guarded
    <3>2. CASE script[c].pc = "call" /\ new.pc = "returned"
      <4>1. new.cost <= call[c].cost /\ call[c].task = "buildability"
        BY <1>1, <1>2, <2>1, <2>2, <3>2 DEF Guarded
      <4>2. llm_runs'["buildability"].cost = llm_runs["buildability"].cost + call[c].cost
        BY <1>1, <1>2, <3>2, <4>1
      <4> QED  BY <1>2, <1>3, <1>4, <2>1, <3>1, <3>2, <4>1, <4>2
    <3>3. CASE ~(script[c].pc = "call" /\ new.pc = "returned")
      BY <1>2, <1>4, <2>1, <3>1, <3>3
    <3> QED  BY <3>2, <3>3
  <2> QED  BY <1>3, <2>1, <2>3, <2>4 DEF Guarded, Running
<1> QED  BY <1>5, <1>6, <1>7 DEF SpendInv

LEMMA SpendStep ==
    BackfillTypeOK /\ BackfillTypeOK' /\ SpendInv /\ [BackfillNext]_backfillVars => SpendInv'
<1> SUFFICES ASSUME BackfillTypeOK, BackfillTypeOK', SpendInv, [BackfillNext]_backfillVars
             PROVE  SpendInv'
  OBVIOUS
<1>a. ASSUME NEW r \in Runs, NEW new, script' = [script EXCEPT ![r] = new], Guarded(r)',
             UNCHANGED clientVars
      PROVE  SpendInv'
  <2>1. \A q \in Runs \ {r} : script'[q] = script[q]
    BY <1>a DEF BackfillTypeOK
  <2>2. UNCHANGED <<call, llm_runs>> /\ llm_runs["buildability"].cost \in Nat
    BY <1>a, ScriptTyped DEF clientVars
  <2>3. \A q \in Runs \ {r} : Guarded(q)'
    BY <2>1, <2>2, SpendOther
  <2> QED  BY <1>a, <2>2, <2>3 DEF SpendInv
<1>1. ASSUME NEW r \in Runs, NEW limit \in Limits, Start(r, limit)
      PROVE  SpendInv'
  <2> DEFINE new == [NoScript EXCEPT !.pc = "next", !.todo = Unassessed(limit),
                                     !.since = llm_runs["buildability"].cost,
                                     !.alone = \A p \in Runs : ~Running(p)]
  <2>1. /\ script' = [q \in Runs |-> IF q = r THEN new
                         ELSE IF Running(q) THEN [script[q] EXCEPT !.alone = FALSE]
                                            ELSE script[q]]
        /\ UNCHANGED clientVars
    BY <1>1, Zenon DEF Start
  <2>2. new.pc = "next" /\ new.own = 0 /\ new.since = llm_runs["buildability"].cost
    BY DEF NoScript
  <2>3. \A q \in Runs : LET s == [script[q] EXCEPT !.alone = FALSE]
                        IN  s.pc = script[q].pc /\ s.own = script[q].own
                            /\ s.since = script[q].since
    BY DEF BackfillTypeOK, Scripts
  <2> HIDE DEF new
  <2>4. \A q \in Runs : /\ q = r => script'[q] = new
                        /\ q # r => /\ script'[q].pc = script[q].pc
                                    /\ script'[q].own = script[q].own
                                    /\ script'[q].since = script[q].since
    BY <2>1, <2>3
  <2>5. UNCHANGED <<call, llm_runs>> /\ llm_runs["buildability"].cost \in Nat /\ Budget \in Nat
    BY <1>1, <2>1, ScriptTyped DEF clientVars
  <2>6. \A q \in Runs \ {r} : Guarded(q)'
    BY <2>4, <2>5, SpendOther
  <2>7. Guarded(r)'
    BY <2>2, <2>4, <2>5 DEF Guarded
  <2> QED  BY <2>5, <2>6, <2>7 DEF SpendInv
<1>2. ASSUME NEW r \in Runs, NextCandidate(r)
      PROVE  SpendInv'
  <2>1. PICK c \in script[r].todo :
          script' = [script EXCEPT ![r].pc = "call", ![r].candidate = c, ![r].todo = @ \ {c}]
    BY <1>2 DEF NextCandidate
  <2>2. /\ script'[r].pc = "call" /\ script'[r].own = script[r].own
        /\ script'[r].since = script[r].since /\ script[r].pc = "next"
        /\ \A q \in Runs \ {r} : script'[q] = script[q]
    BY <1>2, <2>1, ScriptTyped DEF Scripts, NextCandidate
  <2>3. PICK new :
          /\ call' = [call EXCEPT ![r] = new] /\ new.pc = "request" /\ new.task = "buildability"
          /\ new.cost = 0 /\ llm_runs' = llm_runs
    BY <1>2, RunBegins, ScriptTyped DEF Begins
  <2>4. /\ call'[r] = new /\ \A d \in Callers \ {r} : call'[d] = call[d]
        /\ Runs \subseteq Callers
    BY <2>3, ScriptTyped, BackfillAssumption DEF ClientTypeOK
  <2>5. \A d \in Callers : call'[d].cost \in Costs \cup {0}
    BY <2>3, <2>4 DEF SpendInv
  <2>6. /\ script[r].since \in Nat /\ script[r].own \in Nat
        /\ llm_runs["buildability"].cost \in Nat
    BY ScriptTyped
  <2>7. Guarded(r)'
    BY <2>2, <2>3, <2>4, <2>6 DEF SpendInv, Guarded, InCall, Running
  <2>8. \A q \in Runs \ {r} : Guarded(q)'
    BY <2>2, <2>3, <2>4, <2>6, SpendOther
  <2> QED  BY <2>5, <2>7, <2>8 DEF SpendInv
<1>3. ASSUME NEW r \in Runs, Finish(r) \/ BackfillRaises(r)
      PROVE  SpendInv'
  BY <1>a, <1>3, SpendEnds DEF Finish, BackfillRaises
<1>4. ASSUME NEW r \in Runs, AssessCommit(r)
      PROVE  SpendInv'
  <2> DEFINE new == [script[r] EXCEPT !.pc = "check", !.own = @ + call[r].cost]
  <2>1. /\ script' = [script EXCEPT ![r] = new] /\ UNCHANGED clientVars
        /\ script[r].pc = "call" /\ call[r].pc = "returned"
    BY <1>4 DEF AssessCommit, BackfillTypeOK
  <2>2. /\ script'[r].pc = "check" /\ script'[r].own = script[r].own + call[r].cost
        /\ script'[r].since = script[r].since
    BY <2>1, ScriptTyped DEF Scripts
  <2>3. /\ script[r].since \in Nat /\ script[r].own \in Nat /\ call[r].cost \in Nat
        /\ llm_runs["buildability"].cost \in Nat /\ Budget \in Nat
    BY ScriptTyped
  <2>4. call[r].cost \in Costs \cup {0} /\ script[r].own + call[r].cost <= Budget + call[r].cost
    BY <2>1, <2>3, BackfillAssumption DEF SpendInv, Guarded
  <2>5. script[r].since + (script[r].own + call[r].cost) <= llm_runs["buildability"].cost
    BY <2>1, <2>3 DEF SpendInv, Guarded, Running
  <2>6. Guarded(r)'
    BY <2>1, <2>2, <2>3, <2>4, <2>5 DEF Guarded, clientVars
  <2> HIDE DEF new
  <2> QED  BY <1>a, <2>1, <2>6
<1>5. ASSUME NEW r \in Runs, CheckBudget(r)
      PROVE  SpendInv'
  <2>1. CASE RunCost(r) > Budget
    BY <1>a, <1>5, <2>1, SpendEnds DEF CheckBudget
  <2>2. CASE ~(RunCost(r) > Budget)
    <3> DEFINE new == [script[r] EXCEPT !.pc = "next", !.candidate = 0]
    <3>1. /\ script' = [script EXCEPT ![r] = new] /\ UNCHANGED clientVars
          /\ script[r].pc = "check"
      BY <1>5, <2>2 DEF CheckBudget, BackfillTypeOK
    <3>2. /\ script'[r].pc = "next" /\ script'[r].own = script[r].own
          /\ script'[r].since = script[r].since
      BY <3>1, ScriptTyped DEF Scripts
    <3>3. /\ script[r].since \in Nat /\ script[r].own \in Nat
          /\ llm_runs["buildability"].cost \in Nat /\ Budget \in Nat
      BY ScriptTyped
    <3>4. script[r].since + script[r].own <= llm_runs["buildability"].cost
      BY <3>1, <3>3 DEF SpendInv, Guarded, Running
    <3>5. script[r].own <= Budget
      BY <2>2, <3>3, <3>4 DEF RunCost
    <3>6. Guarded(r)'
      BY <3>1, <3>2, <3>3, <3>4, <3>5 DEF Guarded, clientVars
    <3> HIDE DEF new
    <3> QED  BY <1>a, <3>1, <3>6
  <2> QED  BY <2>1, <2>2
<1>6. ASSUME NEW r \in Runs, Kill(r)
      PROVE  SpendInv'
  <2>1. /\ script' = [script EXCEPT ![r] = NoScript] /\ call' = [call EXCEPT ![r] = NoCall]
        /\ llm_runs' = llm_runs
    BY <1>6, ScriptTyped, KillTyped DEF Kill
  <2>2. /\ \A q \in Runs \ {r} : script'[q] = script[q] /\ call'[q] = call[q]
        /\ \A c \in Callers : call'[c].cost \in Costs \cup {0}
    BY <2>1, ScriptTyped, EndTyped, BackfillAssumption
       DEF BackfillTypeOK, ClientTypeOK, SpendInv
  <2>3. \A q \in Runs \ {r} : Guarded(q)'
    BY <2>1, <2>2, ScriptTyped, SpendOther
  <2> QED  BY <2>1, <2>2, <2>3, SpendEnds DEF SpendInv
<1>7. ASSUME NEW c \in Callers \ Runs, AppAsks(c)
      PROVE  SpendInv'
  <2>1. PICK t \in Tasks : Begins(c, t)
    BY <1>7, AppBegins DEF BackfillTypeOK
  <2>2. PICK new :
          call' = [call EXCEPT ![c] = new] /\ new.cost = 0 /\ llm_runs' = llm_runs
    BY <2>1 DEF Begins
  <2>3. /\ \A q \in Runs : call'[q] = call[q]
        /\ \A d \in Callers : call'[d].cost \in Costs \cup {0}
    BY <1>7, <2>2, BackfillAssumption DEF BackfillTypeOK, ClientTypeOK, SpendInv
  <2>4. script' = script
    BY <1>7 DEF AppAsks
  <2>5. \A q \in Runs : Guarded(q)'
    BY <2>2, <2>3, <2>4, ScriptTyped, SpendOther
  <2> QED  BY <2>3, <2>5 DEF SpendInv
<1>8. CASE LockToggles /\ UNCHANGED <<buildability, script, starts>>
  BY <1>8 DEF LockToggles, SpendInv, Guarded, InCall, Running
<1>9. CASE UNCHANGED backfillVars
  BY <1>9 DEF backfillVars, clientVars, SpendInv, Guarded, InCall, Running
<1> QED
  BY <1>1, <1>2, <1>3, <1>4, <1>5, <1>6, <1>7, <1>8, <1>9, SpendCallStep
     DEF BackfillNext, RunStep

\* What the rows of one run cost never exceeds the budget by more than its last call.
THEOREM BackfillWithinBudget == BackfillSpec => []OwnSpendBounded
<1>1. BackfillInit => SpendInv
  <2> SUFFICES ASSUME BackfillInit
               PROVE  SpendInv
    OBVIOUS
  <2>1. \A c \in Callers : call[c].cost = 0
    BY EndTyped DEF BackfillInit, ClientInit
  <2>2. \A r \in Runs : script[r].pc = "idle" /\ script[r].own = 0
    BY DEF BackfillInit, NoScript
  <2> QED  BY <2>1, <2>2 DEF SpendInv, Guarded, Running
<1>2. BackfillTypeOK /\ SpendInv => OwnSpendBounded
  <2> SUFFICES ASSUME BackfillTypeOK, SpendInv, NEW r \in Runs
               PROVE  \E cost \in Costs \cup {0} : script[r].own <= Budget + cost
    BY DEF OwnSpendBounded
  <2>1. /\ script[r].pc \in {"idle", "next", "call", "check"}
        /\ script[r].own \in Nat /\ Budget \in Nat
    BY ScriptTyped
  <2>2. CASE script[r].pc = "check"
    BY <2>2 DEF SpendInv, Guarded
  <2>3. CASE script[r].pc # "check"
    <3>1. script[r].own <= Budget + 0
      BY <2>1, <2>3 DEF SpendInv, Guarded
    <3> QED  BY <3>1
  <2> QED  BY <2>2, <2>3
<1> QED  BY <1>1, <1>2, SpendStep, BackfillTyped, PTL DEF BackfillSpec

---------------------------------------------------------------------------
(* The end of a run: each step of its own is one less of a bounded number.  *)

\* Only a run that waits for an answer has a call under way.
CallInv == \A r \in Runs : InCall(r) => script[r].pc = "call"

\* What is left of a run, by where it and its call are.
LEMMA RemainingAt ==
    ASSUME NEW run \in Scripts, NEW llm \in Calls
    PROVE  /\ IsFiniteSet(run.todo) /\ Cardinality(run.todo) \in Nat
           /\ run.pc = "idle" => Remaining(run, llm) = 0
           /\ run.pc = "next" => Remaining(run, llm) = 7 * Cardinality(run.todo) + 1
           /\ run.pc = "check" => Remaining(run, llm) = 7 * Cardinality(run.todo) + 2
           /\ run.pc = "call" /\ llm.pc \notin {"request", "log"}
                => Remaining(run, llm) = 7 * Cardinality(run.todo) + 3
           /\ run.pc = "call" /\ llm.pc = "log"
                => Remaining(run, llm) = 7 * Cardinality(run.todo) + 4
           /\ run.pc = "call" /\ llm.pc = "request"
                => Remaining(run, llm) = 7 * Cardinality(run.todo) + 8 - llm.attempt
           /\ llm.attempt \in 1 .. 3
           /\ Remaining(run, llm) \in Int
<1>1. IsFiniteSet(run.todo) /\ Cardinality(run.todo) \in Nat
  <2>1. run.todo \in SUBSET Candidates
    BY DEF Scripts
  <2>2. IsFiniteSet(Candidates)
    BY BackfillAssumption, FS_Interval DEF Candidates
  <2> QED  BY <2>1, <2>2, FS_Subset, FS_CardinalityType
<1>2. llm.attempt \in 1 .. 3
  BY DEF Calls, MaxRetries
<1>3. run.pc \in {"idle", "next", "call", "check"}
  BY DEF Scripts
<1> DEFINE n == Cardinality(run.todo)
<1>4. /\ run.pc = "idle" => Remaining(run, llm) = 0
      /\ run.pc = "next" => Remaining(run, llm) = 7 * n + 1
      /\ run.pc = "check" => Remaining(run, llm) = 7 * n + 2
      /\ run.pc = "call" /\ llm.pc \notin {"request", "log"}
           => Remaining(run, llm) = 7 * n + 3
      /\ run.pc = "call" /\ llm.pc = "log" => Remaining(run, llm) = 7 * n + 4
      /\ run.pc = "call" /\ llm.pc = "request"
           => Remaining(run, llm) = 7 * n + 8 - llm.attempt
  BY <1>1, <1>2 DEF Remaining, MaxRetries
<1> HIDE DEF n
<1>5. Remaining(run, llm) \in Int
  BY <1>1, <1>2, <1>3, <1>4 DEF n
<1> QED  BY <1>1, <1>2, <1>4, <1>5 DEF n

\* A call goes on with one attempt more, to its row, or to its end.
LEMMA CallShortens ==
    ASSUME ClientTypeOK, NEW c \in Callers, CallStep(c)
    PROVE  \E new :
              /\ call' = [call EXCEPT ![c] = new]
              /\ call[c].pc = "request" =>
                    new.pc = "log" \/ (new.pc = "request" /\ new.attempt = call[c].attempt + 1)
              /\ call[c].pc = "log" => new.pc \notin {"request", "log"}
              /\ call[c].pc \in {"request", "log"}
<1>a. call[c] \in Calls
  BY CallTyped
<1>1. ASSUME NEW error, call[c].pc = "request", call' = AfterError(c, error)
      PROVE  \E new :
                /\ call' = [call EXCEPT ![c] = new]
                /\ new.pc = "log" \/ (new.pc = "request" /\ new.attempt = call[c].attempt + 1)
  <2>1. CASE error \in Retryable /\ call[c].attempt < MaxRetries
    <3> DEFINE new == [call[c] EXCEPT !.attempt = @ + 1]
    <3>1. call' = [call EXCEPT ![c] = new]
      BY <1>1, <2>1, CallTyped DEF AfterError
    <3>2. new.pc = "request" /\ new.attempt = call[c].attempt + 1
      BY <1>a, <1>1 DEF Calls
    <3> QED  BY <3>1, <3>2
  <2>2. CASE ~(error \in Retryable /\ call[c].attempt < MaxRetries)
    <3> DEFINE new == [call[c] EXCEPT !.pc = "log", !.ok = FALSE, !.cost = 0]
    <3>1. call' = [call EXCEPT ![c] = new]
      BY <1>1, <2>2, CallTyped DEF AfterError
    <3>2. new.pc = "log"
      BY <1>a DEF Calls
    <3> QED  BY <3>1, <3>2
  <2> QED  BY <2>1, <2>2
<1>2. CASE Transient(c) \/ Rejected(c) \/ Malformed(c)
  <2>1. /\ call[c].pc = "request"
        /\ \E error : call' = AfterError(c, error)
    BY <1>2 DEF Transient, Rejected, Refused, Malformed
  <2> QED  BY <1>1, <2>1
<1>3. CASE Answered(c)
  <2>1. PICK cost : call' = [call EXCEPT ![c].pc = "log", ![c].ok = TRUE,
                                         ![c].cost = Estimated(call[c].model, cost)]
    BY <1>3 DEF Answered
  <2> DEFINE new == [call[c] EXCEPT !.pc = "log", !.ok = TRUE,
                                    !.cost = Estimated(call[c].model, cost)]
  <2>2. call' = [call EXCEPT ![c] = new]
    BY <2>1, CallTyped
  <2>3. new.pc = "log" /\ call[c].pc = "request"
    BY <1>a, <1>3 DEF Calls, Answered
  <2> QED  BY <2>2, <2>3
<1>4. CASE LogSuccess(c) \/ LogFailure(c) \/ LogLocked(c)
  <2>1. call[c].pc = "log"
    BY <1>4 DEF LogSuccess, LogFailure, LogLocked, WriteRow
  <2> DEFINE failed == [NoCall EXCEPT !.pc = "failed"]
             returned == [NoCall EXCEPT !.pc = "returned", !.cost = call[c].cost]
  <2>2. call' = [call EXCEPT ![c] = failed] \/ call' = [call EXCEPT ![c] = returned]
    BY <1>4 DEF LogSuccess, LogFailure, LogLocked
  <2>3. failed.pc \notin {"request", "log"} /\ returned.pc \notin {"request", "log"}
    BY DEF NoCall
  <2> HIDE DEF failed, returned
  <2> QED  BY <2>1, <2>2, <2>3
<1> QED  BY <1>2, <1>3, <1>4 DEF CallStep

\* A step that is not of run r leaves its list and its place, and so what it has left.
LEMMA OthersStep ==
    ASSUME BackfillTypeOK, NEW r \in Runs, Running(r), [BackfillNext]_backfillVars
    PROVE  \/ RunStep(r) \/ Kill(r)
           \/ /\ script'[r].pc = script[r].pc /\ script'[r].todo = script[r].todo
              /\ call'[r] = call[r] \/ CallStep(r)
<1>a. r \in Callers /\ call \in [Callers -> Calls] /\ script \in [Runs -> Scripts]
      /\ ClientTypeOK /\ Runs \subseteq Callers
  BY ScriptTyped, BackfillAssumption DEF BackfillTypeOK, ClientTypeOK
<1>1. ASSUME NEW q \in Runs \ {r}, RunStep(q)
      PROVE  script'[r] = script[r] /\ call'[r] = call[r]
  <2>1. script'[r] = script[r]
    BY <1>a, <1>1
       DEF RunStep, NextCandidate, Finish, AssessCommit, BackfillRaises, CheckBudget
  <2>2. call'[r] = call[r]
    BY <1>a, <1>1
       DEF RunStep, NextCandidate, Finish, AssessCommit, BackfillRaises, CheckBudget,
           clientVars, JudgeJson, BeginCall
  <2> QED  BY <2>1, <2>2
<1>2. ASSUME NEW q \in Runs \ {r}, Kill(q)
      PROVE  script'[r] = script[r] /\ call'[r] = call[r]
  BY <1>a, <1>2 DEF Kill, AbandonCall
<1>3. ASSUME NEW q \in Runs, NEW limit \in Limits, Start(q, limit)
      PROVE  /\ script'[r].pc = script[r].pc /\ script'[r].todo = script[r].todo
             /\ call'[r] = call[r]
  <2>1. q # r /\ script'[r] = [script[r] EXCEPT !.alone = FALSE] /\ UNCHANGED clientVars
    BY <1>3, Zenon DEF Start
  <2>2. LET s == [script[r] EXCEPT !.alone = FALSE]
        IN  s.pc = script[r].pc /\ s.todo = script[r].todo
    BY <1>a DEF Scripts
  <2> QED  BY <2>1, <2>2 DEF clientVars
<1>4. ASSUME NEW c \in Callers \ Runs, AppAsks(c)
      PROVE  script' = script /\ call'[r] = call[r]
  BY <1>a, <1>4 DEF AppAsks, Judge, JudgeJson, Mechanic, MechanicJson, BeginCall
<1>5. ASSUME NEW c \in Callers, CallStep(c), c # r
      PROVE  call'[r] = call[r]
  BY <1>a, <1>5, CallShortens
<1>6. CASE LockToggles /\ UNCHANGED <<buildability, script, starts>>
  BY <1>6 DEF LockToggles
<1>7. CASE UNCHANGED backfillVars
  BY <1>7 DEF backfillVars, clientVars
<1> QED
  BY <1>1, <1>2, <1>3, <1>4, <1>5, <1>6, <1>7 DEF BackfillNext

\* Each step of a run, or of its call, is one less.
LEMMA OwnStep ==
    ASSUME BackfillTypeOK, BackfillTypeOK', CallInv, NEW r \in Runs, Running(r)
    PROVE  /\ RunStep(r) \/ Kill(r) => StepsLeft(r)' < StepsLeft(r)
           /\ CallStep(r) /\ script'[r].pc = script[r].pc /\ script'[r].todo = script[r].todo
                => StepsLeft(r)' < StepsLeft(r)
<1> DEFINE n == Cardinality(script[r].todo)
           m == Cardinality(script'[r].todo)
<1>a. /\ script[r] \in Scripts /\ script'[r] \in Scripts
      /\ call[r] \in Calls /\ call'[r] \in Calls
      /\ r \in Callers /\ ClientTypeOK
      /\ script[r].pc \in {"next", "call", "check"}
  BY ScriptTyped, BackfillAssumption DEF BackfillTypeOK, ClientTypeOK, Running
<1>b. /\ n \in Nat /\ m \in Nat /\ IsFiniteSet(script[r].todo)
      /\ script[r].pc = "next" => StepsLeft(r) = 7 * n + 1
      /\ script[r].pc = "check" => StepsLeft(r) = 7 * n + 2
      /\ script[r].pc = "call" /\ call[r].pc \notin {"request", "log"} => StepsLeft(r) = 7 * n + 3
      /\ script[r].pc = "call" /\ call[r].pc = "log" => StepsLeft(r) = 7 * n + 4
      /\ script[r].pc = "call" /\ call[r].pc = "request"
           => StepsLeft(r) = 7 * n + 8 - call[r].attempt
      /\ call[r].attempt \in 1 .. 3
  BY <1>a, RemainingAt DEF StepsLeft
<1>c. /\ script'[r].pc = "idle" => StepsLeft(r)' = 0
      /\ script'[r].pc = "next" => StepsLeft(r)' = 7 * m + 1
      /\ script'[r].pc = "check" => StepsLeft(r)' = 7 * m + 2
      /\ script'[r].pc = "call" /\ call'[r].pc \notin {"request", "log"}
           => StepsLeft(r)' = 7 * m + 3
      /\ script'[r].pc = "call" /\ call'[r].pc = "log" => StepsLeft(r)' = 7 * m + 4
      /\ script'[r].pc = "call" /\ call'[r].pc = "request"
           => StepsLeft(r)' = 7 * m + 8 - call'[r].attempt
      /\ call'[r].attempt \in 1 .. 3
  BY <1>a, RemainingAt DEF StepsLeft
<1>d. StepsLeft(r) > 0
  BY <1>a, <1>b
<1> HIDE DEF n, m
<1>1. ASSUME Finish(r) \/ BackfillRaises(r) \/ Kill(r)
      PROVE  StepsLeft(r)' < StepsLeft(r)
  <2>1. script'[r].pc = "idle"
    BY <1>1 DEF Finish, BackfillRaises, Kill, NoScript, BackfillTypeOK
  <2> QED  BY <1>c, <1>d, <2>1
<1>2. ASSUME NextCandidate(r)
      PROVE  StepsLeft(r)' < StepsLeft(r)
  <2>1. PICK c \in script[r].todo :
          script' = [script EXCEPT ![r].pc = "call", ![r].candidate = c, ![r].todo = @ \ {c}]
    BY <1>2 DEF NextCandidate
  <2>2. script[r].pc = "next" /\ script'[r].pc = "call" /\ script'[r].todo = script[r].todo \ {c}
    BY <1>2, <2>1, ScriptTyped DEF Scripts, NextCandidate
  <2>3. m = n - 1
    BY <1>b, <2>2, FS_RemoveElement DEF n, m
  <2>4. call'[r].pc = "request" /\ call'[r].attempt = 1
    BY <1>2, <1>a DEF NextCandidate, JudgeJson, BeginCall, NoCall, ClientTypeOK
  <2>5. StepsLeft(r) = 7 * n + 1 /\ StepsLeft(r)' = 7 * m + 8 - 1
    BY <1>b, <1>c, <2>2, <2>4
  <2> QED  BY <1>b, <2>3, <2>5
<1>3. ASSUME AssessCommit(r)
      PROVE  StepsLeft(r)' < StepsLeft(r)
  <2>1. /\ script[r].pc = "call" /\ script'[r].pc = "check" /\ script'[r].todo = script[r].todo
        /\ call[r].pc = "returned"
    BY <1>3, ScriptTyped DEF AssessCommit, Scripts
  <2> QED  BY <1>b, <1>c, <2>1 DEF n, m
<1>4. ASSUME CheckBudget(r)
      PROVE  StepsLeft(r)' < StepsLeft(r)
  <2>1. CASE RunCost(r) > Budget
    <3>1. script'[r].pc = "idle"
      BY <1>4, <2>1 DEF CheckBudget, NoScript, BackfillTypeOK
    <3> QED  BY <1>c, <1>d, <3>1
  <2>2. CASE ~(RunCost(r) > Budget)
    <3>1. script[r].pc = "check" /\ script'[r].pc = "next" /\ script'[r].todo = script[r].todo
      BY <1>4, <2>2, ScriptTyped DEF CheckBudget, Scripts
    <3> QED  BY <1>b, <1>c, <3>1 DEF n, m
  <2> QED  BY <2>1, <2>2
<1>5. ASSUME CallStep(r), script'[r].pc = script[r].pc, script'[r].todo = script[r].todo
      PROVE  StepsLeft(r)' < StepsLeft(r)
  <2>1. PICK new :
          /\ call' = [call EXCEPT ![r] = new]
          /\ call[r].pc = "request" =>
                new.pc = "log" \/ (new.pc = "request" /\ new.attempt = call[r].attempt + 1)
          /\ call[r].pc = "log" => new.pc \notin {"request", "log"}
          /\ call[r].pc \in {"request", "log"}
    BY <1>a, <1>5, CallShortens
  <2>2. call'[r] = new
    BY <1>a, <2>1 DEF ClientTypeOK
  <2>3. script[r].pc = "call" /\ m = n
    BY <1>5, <2>1 DEF CallInv, InCall, n, m
  <2> QED  BY <1>5, <1>b, <1>c, <2>1, <2>2, <2>3
<1> QED  BY <1>1, <1>2, <1>3, <1>4, <1>5 DEF RunStep

\* A run leaves its place only when its call is over.
LEMMA CallInvStep ==
    BackfillTypeOK /\ CallInv /\ [BackfillNext]_backfillVars => CallInv'
<1> SUFFICES ASSUME BackfillTypeOK, CallInv, [BackfillNext]_backfillVars, NEW r \in Runs,
                    InCall(r)'
             PROVE  script'[r].pc = "call"
  BY DEF CallInv
<1>a. /\ script \in [Runs -> Scripts] /\ script[r] \in Scripts /\ r \in Callers
      /\ call \in [Callers -> Calls] /\ Runs \subseteq Callers /\ ClientTypeOK
  BY ScriptTyped, BackfillAssumption DEF BackfillTypeOK, ClientTypeOK
<1>1. CASE NextCandidate(r)
  BY <1>a, <1>1 DEF NextCandidate, Scripts
<1>2. CASE AssessCommit(r) \/ BackfillRaises(r) \/ Finish(r) \/ CheckBudget(r)
  <2>1. UNCHANGED call
    BY <1>2 DEF AssessCommit, BackfillRaises, Finish, CheckBudget, clientVars
  <2>2. ~InCall(r)
    BY <1>2 DEF AssessCommit, BackfillRaises, Finish, CheckBudget, CallInv, InCall
  <2> QED  BY <2>1, <2>2 DEF InCall
<1>3. CASE Kill(r)
  <2>1. call'[r] = NoCall
    BY <1>a, <1>3 DEF Kill, AbandonCall
  <2> QED  BY <2>1, EndTyped DEF InCall
<1>4. CASE ~Running(r)
  <2>1. ~InCall(r)
    BY <1>4 DEF CallInv, Running
  <2>2. ASSUME NEW q \in Runs, RunStep(q) \/ Kill(q)
        PROVE  call'[r] = call[r]
    <3>1. q # r
      BY <1>4, <2>2 DEF RunStep, NextCandidate, Finish, AssessCommit, BackfillRaises,
                        CheckBudget, Kill, Running
    <3> QED
      BY <1>a, <2>2, <3>1 DEF RunStep, NextCandidate, Finish, AssessCommit, BackfillRaises,
                        CheckBudget, Kill, AbandonCall, clientVars, JudgeJson, BeginCall
  <2>3. ASSUME NEW q \in Runs, NEW limit \in Limits, Start(q, limit)
        PROVE  call' = call
    <3>1. UNCHANGED clientVars
      BY <2>3, Zenon DEF Start
    <3> QED  BY <3>1 DEF clientVars
  <2>4. ASSUME NEW c \in Callers \ Runs, AppAsks(c)
        PROVE  call'[r] = call[r]
    BY <1>a, <2>4 DEF AppAsks, Judge, JudgeJson, Mechanic, MechanicJson, BeginCall
  <2>5. ASSUME NEW c \in Callers, CallStep(c)
        PROVE  call'[r] = call[r]
    <3>1. c # r
      BY <1>a, <2>1, <2>5, CallShortens DEF InCall
    <3> QED  BY <1>a, <2>5, <3>1, CallShortens
  <2>6. ASSUME LockToggles \/ UNCHANGED backfillVars
        PROVE  call' = call
    BY <2>6 DEF LockToggles, backfillVars, clientVars
  <2>7. call'[r] = call[r]
    BY <2>2, <2>3, <2>4, <2>5, <2>6 DEF BackfillNext
  <2> QED  BY <2>1, <2>7 DEF InCall
<1>5. CASE Running(r) /\ script'[r].pc = script[r].pc /\ (call'[r] = call[r] \/ CallStep(r))
  <2>1. InCall(r)
    BY <1>a, <1>5, CallShortens DEF InCall
  <2> QED  BY <1>5, <2>1 DEF CallInv
<1> QED  BY <1>1, <1>2, <1>3, <1>4, <1>5, OthersStep DEF RunStep

\* The work of a backfill run is bounded when it starts, and nothing adds to it: with any
\* number of runs, callers and candidates, each step of a run or of its call leaves it
\* fewer to take, and no other step puts its end off.  This is the termination argument
\* of BackfillEnds but for the fairness that makes the steps happen.
THEOREM BackfillShortens == BackfillSpec => RunsShorten
<1>1. BackfillInit => CallInv
  <2> SUFFICES ASSUME BackfillInit, NEW r \in Runs
               PROVE  ~InCall(r)
    BY DEF CallInv
  <2>1. call[r] = NoCall
    BY BackfillAssumption DEF BackfillInit, ClientInit
  <2> QED  BY <2>1, EndTyped DEF InCall
<1>2. BackfillTypeOK /\ BackfillTypeOK' /\ CallInv /\ [BackfillNext]_backfillVars =>
        [\A r \in Runs : Running(r) =>
            /\ StepsLeft(r)' <= StepsLeft(r)
            /\ RunStep(r) \/ CallStep(r) \/ Kill(r) => StepsLeft(r)' < StepsLeft(r)]_backfillVars
  <2> SUFFICES ASSUME BackfillTypeOK, BackfillTypeOK', CallInv, [BackfillNext]_backfillVars,
                      NEW r \in Runs, Running(r)
               PROVE  /\ StepsLeft(r)' <= StepsLeft(r)
                      /\ RunStep(r) \/ CallStep(r) \/ Kill(r) => StepsLeft(r)' < StepsLeft(r)
    OBVIOUS
  <2>1. /\ script[r] \in Scripts /\ script'[r] \in Scripts
        /\ call[r] \in Calls /\ call'[r] \in Calls
    BY ScriptTyped, BackfillAssumption DEF BackfillTypeOK, ClientTypeOK
  <2>2. StepsLeft(r) \in Int /\ StepsLeft(r)' \in Int
    <3>1. ASSUME NEW run \in Scripts, NEW llm \in Calls
          PROVE  Remaining(run, llm) \in Int
      BY RemainingAt
    <3> QED  BY <2>1, <3>1 DEF StepsLeft
  <2>3. CASE RunStep(r) \/ Kill(r)
    BY <2>2, <2>3, OwnStep
  <2>4. CASE /\ script'[r].pc = script[r].pc /\ script'[r].todo = script[r].todo
             /\ ~RunStep(r) /\ ~Kill(r) /\ ~CallStep(r) /\ call'[r] = call[r]
    <3>1. StepsLeft(r)' = StepsLeft(r)
      BY <2>4 DEF StepsLeft, Remaining
    <3> QED  BY <2>2, <2>4, <3>1
  <2>5. CASE /\ script'[r].pc = script[r].pc /\ script'[r].todo = script[r].todo
             /\ CallStep(r)
    BY <2>2, <2>5, OwnStep
  <2> QED  BY <2>3, <2>4, <2>5, OthersStep
<1> QED  BY <1>1, <1>2, CallInvStep, BackfillTyped, PTL DEF BackfillSpec, RunsShorten

---------------------------------------------------------------------------
(* The bill: what the callers have to log, counted one unit at a time, for  *)
(* a sum over the callers is a recursion and the size of a set is not.      *)

\* What a caller's locals hold of a task's bill.
OwedBy(locals, t) == IF locals.pc = "log" /\ locals.task = t THEN locals.cost ELSE 0

\* The units of a task's bill that wait for a row.
Owing(t) == {unit \in Callers \X Nat : unit[2] \in 1 .. OwedBy(call[unit[1]], t)}

\* The bill of a task is in its rows or on its way there, until an answer does not
\* parse or a row is lost.
BillInv ==
    \A t \in Tasks :
        /\ IsFiniteSet(Owing(t))
        /\ t \notin malformed /\ unlogged[t] = 0
              => billed[t] = llm_runs[t].cost + Cardinality(Owing(t))

\* A step of c that leaves it new locals pays, owes and logs the same.
Balances(c, new) ==
    \A t \in Tasks :
        t \notin malformed' /\ unlogged'[t] = 0 =>
            /\ t \notin malformed /\ unlogged[t] = 0
            /\ billed'[t] + llm_runs[t].cost + OwedBy(call[c], t)
                 = billed[t] + llm_runs'[t].cost + OwedBy(new, t)

\* The units of one caller are as many as it owes.
LEMMA UnitCount ==
    ASSUME NEW c, NEW n \in Nat
    PROVE  IsFiniteSet({c} \X (1 .. n)) /\ Cardinality({c} \X (1 .. n)) = n
<1>1. IsFiniteSet({c}) /\ Cardinality({c}) = 1
  BY FS_Singleton
<1>2. IsFiniteSet(1 .. n) /\ Cardinality(1 .. n) = n
  BY FS_Interval
<1>3. /\ IsFiniteSet({c} \X (1 .. n))
      /\ Cardinality({c} \X (1 .. n)) = Cardinality({c}) * Cardinality(1 .. n)
  BY <1>1, <1>2, FS_Product
<1> QED  BY <1>1, <1>2, <1>3

\* Sets with nothing in common add up.
LEMMA DisjointCount ==
    ASSUME NEW S, NEW T, IsFiniteSet(S), IsFiniteSet(T), S \cap T = {}
    PROVE  /\ IsFiniteSet(S \cup T)
           /\ Cardinality(S \cup T) = Cardinality(S) + Cardinality(T)
<1>1. Cardinality(S) \in Nat /\ Cardinality(T) \in Nat
  BY FS_CardinalityType
<1>2. Cardinality(S \cap T) = 0
  BY FS_EmptySet
<1>3. /\ IsFiniteSet(S \cup T)
      /\ Cardinality(S \cup T) = Cardinality(S) + Cardinality(T) - Cardinality(S \cap T)
  BY FS_Union
<1> QED  BY <1>1, <1>2, <1>3

\* How one caller's step changes the units of a task.
LEMMA OwingCount ==
    ASSUME ClientTypeOK, NEW c \in Callers, NEW new \in Calls,
           call' = [call EXCEPT ![c] = new], NEW t, IsFiniteSet(Owing(t))
    PROVE  /\ IsFiniteSet(Owing(t))'
           /\ Cardinality(Owing(t)) \in Nat /\ Cardinality(Owing(t))' \in Nat
           /\ OwedBy(call[c], t) \in Nat /\ OwedBy(new, t) \in Nat
           /\ Cardinality(Owing(t))' + OwedBy(call[c], t)
                = Cardinality(Owing(t)) + OwedBy(new, t)
<1> DEFINE rest == {unit \in Owing(t) : unit[1] # c}
           old == {c} \X (1 .. OwedBy(call[c], t))
           then == {c} \X (1 .. OwedBy(new, t))
<1>1. OwedBy(call[c], t) \in Nat /\ OwedBy(new, t) \in Nat
  BY CallTyped DEF OwedBy, Calls
<1>2. call'[c] = new /\ \A d \in Callers \ {c} : call'[d] = call[d]
  BY DEF ClientTypeOK
<1>3. Owing(t) = rest \cup old /\ rest \cap old = {}
  BY <1>1 DEF Owing
<1>4. Owing(t)' = rest \cup then /\ rest \cap then = {}
  BY <1>1, <1>2 DEF Owing
<1>5. IsFiniteSet(rest) /\ Cardinality(rest) \in Nat
  BY FS_Subset, FS_CardinalityType
<1>6. /\ IsFiniteSet(old) /\ Cardinality(old) = OwedBy(call[c], t)
      /\ IsFiniteSet(then) /\ Cardinality(then) = OwedBy(new, t)
  BY <1>1, UnitCount
<1> HIDE DEF rest, old, then
<1>7. Cardinality(rest \cup old) = Cardinality(rest) + OwedBy(call[c], t)
  BY <1>3, <1>5, <1>6, DisjointCount
<1>8. /\ IsFiniteSet(rest \cup then)
      /\ Cardinality(rest \cup then) = Cardinality(rest) + OwedBy(new, t)
  BY <1>4, <1>5, <1>6, DisjointCount
<1> QED  BY <1>1, <1>3, <1>4, <1>5, <1>7, <1>8

\* A step that balances keeps the bill.
LEMMA BalancedStep ==
    ASSUME ClientTypeOK, ClientTypeOK', BillInv, NEW c \in Callers, NEW new \in Calls,
           call' = [call EXCEPT ![c] = new], Balances(c, new)
    PROVE  BillInv'
<1> SUFFICES ASSUME NEW t \in Tasks
             PROVE  /\ IsFiniteSet(Owing(t))'
                    /\ t \notin malformed' /\ unlogged'[t] = 0
                          => billed'[t] = llm_runs'[t].cost + Cardinality(Owing(t))'
  BY DEF BillInv
<1>1. /\ billed[t] \in Nat /\ billed'[t] \in Nat
      /\ llm_runs[t].cost \in Nat /\ llm_runs'[t].cost \in Nat
  BY DEF ClientTypeOK
<1>2. IsFiniteSet(Owing(t))
  BY DEF BillInv
<1>3. /\ IsFiniteSet(Owing(t))'
      /\ Cardinality(Owing(t)) \in Nat /\ Cardinality(Owing(t))' \in Nat
      /\ OwedBy(call[c], t) \in Nat /\ OwedBy(new, t) \in Nat
      /\ Cardinality(Owing(t))' + OwedBy(call[c], t)
           = Cardinality(Owing(t)) + OwedBy(new, t)
  BY <1>2, OwingCount
<1>4. ASSUME t \notin malformed', unlogged'[t] = 0
      PROVE  billed'[t] = llm_runs'[t].cost + Cardinality(Owing(t))'
  <2>1. billed[t] = llm_runs[t].cost + Cardinality(Owing(t))
    BY <1>4 DEF Balances, BillInv
  <2>2. billed'[t] + llm_runs[t].cost + OwedBy(call[c], t)
          = billed[t] + llm_runs'[t].cost + OwedBy(new, t)
    BY <1>4 DEF Balances
  <2> QED  BY <1>1, <1>3, <2>1, <2>2
<1> QED  BY <1>3, <1>4

\* An answer that parses is owed by its caller, a row pays it off with what it
\* records, and what is dropped leaves its mark.
LEMMA BillStep ==
    ASSUME ClientTypeOK, ClientTypeOK', BillInv, NEW c \in Callers, CallStep(c)
    PROVE  BillInv'
<1>a. /\ call[c] \in Calls /\ call[c].task \in Tasks \cup {""} /\ call[c].cost \in Nat
      /\ call[c].model \in {"opus", "haiku"} /\ Costs \subseteq Nat
      /\ InCall(c) => call[c].task \in Tasks
      /\ llm_runs \in [Tasks -> [rows : Nat, cost : Nat]]
      /\ unlogged \in [Tasks -> Nat] /\ billed \in [Tasks -> Nat]
  BY CallTyped, ClientAssumption DEF LedgersTyped
<1>b. ASSUME NEW t \in Tasks
      PROVE  billed[t] \in Nat /\ llm_runs[t].cost \in Nat /\ unlogged[t] \in Nat
  BY <1>a
<1>1. ASSUME NEW error, call[c].pc = "request", call' = AfterError(c, error),
             \A t \in Tasks \ malformed' :
                /\ t \notin malformed /\ billed'[t] = billed[t],
             UNCHANGED <<llm_runs, unlogged>>
      PROVE  BillInv'
  <2>1. PICK new : /\ Sound(new) /\ call' = [call EXCEPT ![c] = new]
                   /\ (new.pc = "log" => new.cost = 0)
    BY <1>1, ErrorTyped
  <2>2. \A t \in Tasks : OwedBy(call[c], t) = 0 /\ OwedBy(new, t) = 0
    BY <1>1, <2>1 DEF OwedBy
  <2>3. Balances(c, new)
    BY <1>a, <1>1, <2>2 DEF Balances
  <2> QED  BY <2>1, <2>3, BalancedStep DEF Sound
<1>2. CASE Transient(c) \/ Rejected(c)
  BY <1>1, <1>2 DEF Transient, Rejected, Refused
<1>3. CASE Malformed(c)
  <2>1. \A t \in Tasks \ malformed' : t \notin malformed /\ billed'[t] = billed[t]
    BY <1>a, <1>3 DEF Malformed
  <2> QED  BY <1>1, <1>3, <2>1 DEF Malformed
<1>4. CASE Answered(c)
  <2>1. PICK cost \in Costs :
          /\ billed' = [billed EXCEPT ![call[c].task] = @ + cost]
          /\ call' = [call EXCEPT ![c].pc = "log", ![c].ok = TRUE,
                                  ![c].cost = Estimated(call[c].model, cost)]
    BY <1>4 DEF Answered
  <2> DEFINE new == [call[c] EXCEPT !.pc = "log", !.ok = TRUE,
                                    !.cost = Estimated(call[c].model, cost)]
  <2>2. Estimated(call[c].model, cost) = cost /\ cost \in Nat
    BY <1>a DEF Estimated, Priced
  <2>3. call' = [call EXCEPT ![c] = new]
    BY <2>1, CallTyped
  <2>4. new \in Calls /\ new.pc = "log" /\ new.task = call[c].task /\ new.cost = cost
    BY <1>a, <2>2 DEF Calls
  <2>5. call[c].pc = "request" /\ UNCHANGED <<llm_runs, unlogged, malformed>>
    BY <1>4 DEF Answered
  <2> HIDE DEF new
  <2>6. ASSUME NEW t \in Tasks
        PROVE  billed'[t] = billed[t] + OwedBy(new, t) /\ OwedBy(call[c], t) = 0
               /\ OwedBy(new, t) \in Nat
    <3>1. OwedBy(new, t) = (IF call[c].task = t THEN cost ELSE 0) /\ OwedBy(call[c], t) = 0
      BY <2>4, <2>5 DEF OwedBy
    <3>2. billed'[t] = IF call[c].task = t THEN billed[t] + cost ELSE billed[t]
      BY <1>a, <2>1
    <3> QED  BY <1>b, <2>2, <3>1, <3>2
  <2>7. Balances(c, new)
    BY <1>b, <2>5, <2>6 DEF Balances
  <2> QED  BY <2>3, <2>4, <2>7, BalancedStep
<1>5. ASSUME WriteRow(c), NEW new, Sound(new), new.pc # "log",
             call' = [call EXCEPT ![c] = new]
      PROVE  BillInv'
  <2>1. /\ call[c].pc = "log" /\ UNCHANGED <<unlogged, billed, malformed>>
        /\ llm_runs' = [llm_runs EXCEPT ![call[c].task].rows = @ + 1,
                                        ![call[c].task].cost = @ + call[c].cost]
    BY <1>5 DEF WriteRow
  <2>2. ASSUME NEW t \in Tasks
        PROVE  llm_runs'[t].cost = llm_runs[t].cost + OwedBy(call[c], t)
    <3>1. CASE call[c].task = t
      <4>1. OwedBy(call[c], t) = call[c].cost
        BY <2>1, <3>1 DEF OwedBy
      <4>2. llm_runs'[t].cost = llm_runs[t].cost + call[c].cost
        BY <1>a, <2>1, <3>1
      <4> QED  BY <4>1, <4>2
    <3>2. CASE call[c].task # t
      <4>1. OwedBy(call[c], t) = 0
        BY <3>2 DEF OwedBy
      <4>2. llm_runs'[t].cost = llm_runs[t].cost
        BY <1>a, <2>1, <3>2
      <4> QED  BY <1>b, <4>1, <4>2
    <3> QED  BY <3>1, <3>2
  <2>3. \A t \in Tasks : OwedBy(new, t) = 0 /\ OwedBy(call[c], t) \in Nat
    BY <1>a, <1>5 DEF OwedBy
  <2>4. Balances(c, new)
    <3>1. ASSUME NEW t \in Tasks
          PROVE  billed'[t] + llm_runs[t].cost + OwedBy(call[c], t)
                   = billed[t] + llm_runs'[t].cost + OwedBy(new, t)
      <4>1. /\ billed'[t] = billed[t] /\ OwedBy(new, t) = 0
            /\ llm_runs'[t].cost = llm_runs[t].cost + OwedBy(call[c], t)
        BY <2>1, <2>2, <2>3
      <4> QED  BY <1>b, <2>3, <4>1
    <3> QED  BY <2>1, <3>1 DEF Balances
  <2> QED  BY <1>5, <2>4, BalancedStep DEF Sound
<1>6. CASE LogSuccess(c)
  <2> DEFINE new == [NoCall EXCEPT !.pc = "returned", !.cost = call[c].cost]
  <2>1. Sound(new) /\ new.pc = "returned"
    BY <1>a, EndTyped DEF Sound, NoCall, Calls
  <2> QED  BY <1>5, <1>6, <2>1 DEF LogSuccess
<1> DEFINE failed == [NoCall EXCEPT !.pc = "failed"]
<1>7. Sound(failed) /\ failed.pc = "failed"
  BY EndTyped DEF Sound, NoCall, Calls
<1>8. CASE LogFailure(c)
  BY <1>5, <1>7, <1>8 DEF LogFailure
<1>9. CASE LogLocked(c)
  <2>1. /\ call[c].pc = "log" /\ call' = [call EXCEPT ![c] = failed]
        /\ unlogged' = [unlogged EXCEPT ![call[c].task] = @ + 1]
        /\ UNCHANGED <<llm_runs, billed, malformed>>
    BY <1>9 DEF LogLocked
  <2>2. ASSUME NEW t \in Tasks, unlogged'[t] = 0
        PROVE  t # call[c].task /\ unlogged[t] = 0
    <3>1. call[c].task \in Tasks /\ unlogged[t] \in Nat
      BY <1>a, <2>1 DEF InCall
    <3>2. unlogged'[t] = IF t = call[c].task THEN unlogged[t] + 1 ELSE unlogged[t]
      BY <1>a, <2>1
    <3> QED  BY <2>2, <3>1, <3>2
  <2>3. Balances(c, failed)
    BY <1>7, <2>1, <2>2 DEF Balances, OwedBy
  <2> QED  BY <1>7, <2>1, <2>3, BalancedStep DEF Sound
<1> QED  BY <1>2, <1>3, <1>4, <1>6, <1>8, <1>9 DEF CallStep

\* A new call owes nothing yet.
LEMMA BillBegin ==
    ASSUME ClientTypeOK, ClientTypeOK', BillInv, NEW c \in Callers, NEW task, Begins(c, task),
           UNCHANGED <<billed, malformed>>
    PROVE  BillInv'
<1>1. PICK new :
        /\ Sound(new) /\ call' = [call EXCEPT ![c] = new] /\ ~InCall(c) /\ new.pc = "request"
        /\ UNCHANGED <<llm_runs, unlogged>>
  BY DEF Begins
<1>2. \A t \in Tasks : billed[t] \in Nat /\ llm_runs[t].cost \in Nat
  BY DEF ClientTypeOK
<1>3. Balances(c, new)
  BY <1>1, <1>2 DEF Balances, OwedBy, InCall
<1> QED  BY <1>1, <1>3, BalancedStep DEF Sound

\* A killed caller takes what it owes with it, and its call is counted as unlogged.
LEMMA BillKill ==
    ASSUME ClientTypeOK, ClientTypeOK', BillInv, NEW c \in Callers, AbandonCall(c)
    PROVE  BillInv'
<1>1. /\ call' = [call EXCEPT ![c] = NoCall]
      /\ unlogged' = IF InCall(c) THEN [unlogged EXCEPT ![call[c].task] = @ + 1] ELSE unlogged
      /\ UNCHANGED <<llm_runs, billed, malformed>>
  BY DEF AbandonCall
<1>2. \A t \in Tasks : billed[t] \in Nat /\ llm_runs[t].cost \in Nat /\ unlogged[t] \in Nat
  BY DEF ClientTypeOK
<1>3. ASSUME NEW t \in Tasks, unlogged'[t] = 0
      PROVE  unlogged[t] = 0 /\ ~(InCall(c) /\ call[c].task = t)
  BY <1>1, <1>2, <1>3 DEF ClientTypeOK
<1>4. Balances(c, NoCall)
  BY <1>1, <1>2, <1>3, EndTyped DEF Balances, OwedBy, InCall
<1> QED  BY <1>1, <1>4, EndTyped, BalancedStep DEF Sound

\* The audit log of a task equals its bill while none of its calls is under way, for any
\* callers, tasks and costs: only an answer that did not parse and a row that was lost
\* part them, whichever calls, retries, locks and kills interleave.
THEOREM BillIsRecorded == BackfillSpec => []BillRecorded
<1>1. BackfillInit => BillInv
  <2> SUFFICES ASSUME BackfillInit, NEW t \in Tasks
               PROVE  /\ IsFiniteSet(Owing(t))
                      /\ billed[t] = llm_runs[t].cost + Cardinality(Owing(t))
    BY DEF BillInv
  <2>1. \A c \in Callers : OwedBy(call[c], t) = 0
    BY DEF BackfillInit, ClientInit, OwedBy, NoCall
  <2>2. Owing(t) = {}
    BY <2>1 DEF Owing
  <2> QED  BY <2>2, FS_EmptySet DEF BackfillInit, ClientInit
<1>2. BackfillTypeOK /\ BackfillTypeOK' /\ BillInv /\ [BackfillNext]_backfillVars => BillInv'
  <2> SUFFICES ASSUME BackfillTypeOK, BackfillTypeOK', BillInv, [BackfillNext]_backfillVars
               PROVE  BillInv'
    OBVIOUS
  <2>a. ClientTypeOK /\ ClientTypeOK' /\ Runs \subseteq Callers
    BY BackfillAssumption DEF BackfillTypeOK
  <2>b. UNCHANGED <<call, llm_runs, unlogged, billed, malformed>> => BillInv'
    BY DEF BillInv, Owing
  <2>1. ASSUME NEW r \in Runs, NextCandidate(r)
        PROVE  BillInv'
    <3>1. UNCHANGED <<billed, malformed>>
      BY <2>1 DEF NextCandidate, JudgeJson, BeginCall
    <3> QED  BY <2>a, <2>1, <3>1, RunBegins, BillBegin
  <2>2. ASSUME NEW r \in Runs, Kill(r)
        PROVE  BillInv'
    BY <2>a, <2>2, BillKill DEF Kill
  <2>3. ASSUME NEW c \in Callers, AppAsks(c)
        PROVE  BillInv'
    <3>1. UNCHANGED <<billed, malformed>>
      BY <2>3 DEF AppAsks, Judge, JudgeJson, Mechanic, MechanicJson, BeginCall
    <3>2. PICK t : Begins(c, t)
      BY <2>a, <2>3, AppBegins
    <3> QED  BY <2>a, <3>1, <3>2, BillBegin
  <2>4. ASSUME NEW c \in Callers, CallStep(c)
        PROVE  BillInv'
    BY <2>a, <2>4, BillStep
  <2>5. CASE LockToggles
    BY <2>b, <2>5 DEF LockToggles
  <2>6. ASSUME NEW r \in Runs, NEW limit \in Limits, Start(r, limit)
        PROVE  BillInv'
    <3>1. UNCHANGED clientVars
      BY <2>6, Zenon DEF Start
    <3> QED  BY <2>b, <3>1 DEF clientVars
  <2>7. ASSUME NEW r \in Runs,
               Finish(r) \/ AssessCommit(r) \/ BackfillRaises(r) \/ CheckBudget(r)
        PROVE  BillInv'
    <3>1. UNCHANGED clientVars
      BY <2>7, Zenon DEF Finish, AssessCommit, BackfillRaises, CheckBudget
    <3> QED  BY <2>b, <3>1 DEF clientVars
  <2>8. CASE UNCHANGED backfillVars
    BY <2>b, <2>8 DEF backfillVars, clientVars
  <2> QED
    BY <2>1, <2>2, <2>3, <2>4, <2>5, <2>6, <2>7, <2>8 DEF BackfillNext, RunStep
<1>3. BackfillTypeOK /\ BillInv => BillRecorded
  <2> SUFFICES ASSUME BackfillTypeOK, BillInv, NEW t \in Tasks, t \notin malformed,
                      unlogged[t] = 0, \A c \in Callers : InCall(c) => call[c].task # t
               PROVE  llm_runs[t].cost = billed[t]
    BY DEF BillRecorded
  <2>1. \A c \in Callers : OwedBy(call[c], t) = 0
    BY DEF OwedBy, InCall
  <2>2. Owing(t) = {}
    BY <2>1 DEF Owing
  <2>3. llm_runs[t].cost \in Nat
    BY DEF BackfillTypeOK, ClientTypeOK
  <2> QED  BY <2>2, <2>3, FS_EmptySet DEF BillInv
<1> QED  BY <1>1, <1>2, <1>3, BackfillTyped, PTL DEF BackfillSpec

---------------------------------------------------------------------------
(* ReviewImport                                                            *)

\* The variables that the types need, by part.
LEMMA ImportTyped ==
    ASSUME ImportTypeOK, NEW i \in Importers
    PROVE  /\ importer[i] \in Imports
           /\ importer[i].pc \in {"idle", "row", "create", "insert", "done"}
           /\ importer[i].file \in Seq(Reviews \cup {Invalid})
           /\ importer[i].pos \in Nat \ {0} /\ importer[i].naming \in [Keys -> STRING]
           /\ importer[i].cache \in [Keys -> Nat]
           /\ importer[i].inserted \in Nat /\ importer[i].skipped \in Nat
           /\ importer[i].committed \in Nat /\ importer[i].lost \in Nat
           /\ View(i) \in Tables /\ View(i).sources \in Seq(STRING)
           /\ View(i).signals \in [Reviews -> Nat]
           /\ DOMAIN View(i).sources = 1 .. Len(View(i).sources)
           /\ Len(View(i).sources) \in Nat
           /\ Len(importer[i].file) \in Nat
           /\ i # Nobody
<1>1. importer[i] \in Imports /\ View(i) \in Tables
  BY DEF ImportTypeOK, View
<1>2. View(i).sources \in Seq(STRING) /\ View(i).signals \in [Reviews -> Nat]
  BY <1>1 DEF Tables
<1>3. importer[i].file \in Seq(Reviews \cup {Invalid})
  BY <1>1 DEF Imports
<1> QED  BY <1>1, <1>2, <1>3, LenProperties, ImportAssumption DEF Imports

\* A row with a review has a key, and the name of its source.
LEMMA RowTyped ==
    ASSUME ImportTypeOK, NEW i \in Importers, importer[i].pos <= Len(importer[i].file),
           Row(i) # Invalid
    PROVE  Row(i) \in Reviews /\ Key(i) \in Keys /\ NameOf(i) \in STRING
<1>1. Row(i) \in Reviews \cup {Invalid}
  BY ImportTyped, ElementOfSeq DEF Row
<1>2. Row(i) \in Reviews /\ Key(i) \in Keys
  BY <1>1 DEF Key, Keys
<1> QED  BY <1>2, ImportTyped DEF NameOf

\* What an importer's locals may become.
SoundImport(new) ==
    /\ new \in Imports
    /\ new.pc \in {"create", "insert"} =>
          new.pos <= Len(new.file) /\ new.file[new.pos] # Invalid

\* The tables and locks of a typed state.
Stored ==
    /\ tables \in Tables /\ working \in Tables
    /\ write_lock \in Importers \cup {Nobody}
    /\ write_lock = Nobody => working = tables
    /\ seeder \in [pc : {"idle", "check"}, pos : Nat \ {0}, missing : Seq(STRING)]
    /\ scripts \in Nat /\ crowd \in BOOLEAN /\ wounded \in BOOLEAN

LEMMA ImportSet ==
    ASSUME ImportTypeOK, NEW i \in Importers, NEW new, SoundImport(new),
           importer' = [importer EXCEPT ![i] = new], Stored'
    PROVE  ImportTypeOK'
BY DEF ImportTypeOK, Stored, SoundImport, Row

LEMMA StoredTyped == ImportTypeOK => Stored
BY DEF ImportTypeOK, Stored

\* The locals after a skipped row.
LEMMA SkipTyped ==
    ASSUME ImportTypeOK, NEW i \in Importers
    PROVE  \E new :
              /\ SoundImport(new) /\ SkipRow(i) = [importer EXCEPT ![i] = new]
              /\ new.pc = "row" /\ new.pos = importer[i].pos + 1
              /\ new.skipped = importer[i].skipped + 1 /\ new.lost = importer[i].pos
              /\ new.inserted = importer[i].inserted /\ new.file = importer[i].file
              /\ new.naming = importer[i].naming /\ new.cache = importer[i].cache
<1> DEFINE new == [importer[i] EXCEPT !.pc = "row", !.pos = @ + 1, !.skipped = @ + 1,
                                      !.lost = importer[i].pos]
<1>1. SkipRow(i) = [importer EXCEPT ![i] = new]
  BY DEF SkipRow, ImportTypeOK
<1>2. /\ importer[i] \in Imports /\ importer[i].pos + 1 \in Nat \ {0} /\ importer[i].pos \in Nat
      /\ importer[i].skipped + 1 \in Nat
  BY ImportTyped
<1>3. /\ new \in Imports
      /\ new.pc = "row" /\ new.pos = importer[i].pos + 1
      /\ new.skipped = importer[i].skipped + 1 /\ new.lost = importer[i].pos
      /\ new.inserted = importer[i].inserted /\ new.file = importer[i].file
      /\ new.naming = importer[i].naming /\ new.cache = importer[i].cache
  BY <1>2 DEF Imports
<1> HIDE DEF new
<1> QED  BY <1>1, <1>3 DEF SoundImport

\* The locals after the lookup, the creation, the insertion and the commit.
LEMMA FindTyped ==
    ASSUME ImportTypeOK, NEW i \in Importers, FindSource(i)
    PROVE  \E new :
              /\ SoundImport(new) /\ importer' = [importer EXCEPT ![i] = new]
              /\ new.pos = importer[i].pos /\ new.skipped = importer[i].skipped
              /\ new.lost = importer[i].lost /\ new.inserted = importer[i].inserted
              /\ new.file = importer[i].file /\ new.naming = importer[i].naming
              /\ \/ new.pc = "create" /\ new.cache = importer[i].cache /\ Matches(i) = {}
                 \/ /\ new.pc = "insert" /\ new.cache = importer[i].cache
                    /\ new.cache[Key(i)] # 0
                 \/ /\ new.pc = "insert"
                    /\ \E id \in Matches(i) : new.cache = [importer[i].cache EXCEPT ![Key(i)] = id]
<1>1. /\ importer[i].pos <= Len(importer[i].file) /\ Row(i) # Invalid
      /\ Key(i) \in Keys
  BY RowTyped DEF FindSource, HasRow
<1>2. Matches(i) \subseteq Nat \ {0}
  BY ImportTyped DEF Matches
<1>3. /\ importer[i] \in Imports /\ importer[i].cache \in [Keys -> Nat]
      /\ importer \in [Importers -> Imports]
  BY ImportTyped DEF ImportTypeOK
<1>4. ASSUME NEW pc \in {"create", "insert"}, importer' = [importer EXCEPT ![i].pc = pc]
      PROVE  \E new :
              /\ SoundImport(new) /\ importer' = [importer EXCEPT ![i] = new]
              /\ new.pc = pc
              /\ new.pos = importer[i].pos /\ new.skipped = importer[i].skipped
              /\ new.lost = importer[i].lost /\ new.inserted = importer[i].inserted
              /\ new.file = importer[i].file /\ new.naming = importer[i].naming
              /\ new.cache = importer[i].cache
  <2> DEFINE new == [importer[i] EXCEPT !.pc = pc]
  <2>1. /\ new \in Imports /\ importer' = [importer EXCEPT ![i] = new]
        /\ new.pc = pc
        /\ new.pos = importer[i].pos /\ new.skipped = importer[i].skipped
        /\ new.lost = importer[i].lost /\ new.inserted = importer[i].inserted
        /\ new.file = importer[i].file /\ new.naming = importer[i].naming
        /\ new.cache = importer[i].cache
    BY <1>3, <1>4 DEF Imports
  <2> HIDE DEF new
  <2>2. SoundImport(new)
    BY <1>1, <2>1 DEF SoundImport, Row
  <2> QED  BY <2>1, <2>2, Zenon
<1>5. CASE importer[i].cache[Key(i)] # 0
  <2>1. importer' = [importer EXCEPT ![i].pc = "insert"]
    BY <1>5 DEF FindSource
  <2>2. PICK new :
          /\ SoundImport(new) /\ importer' = [importer EXCEPT ![i] = new]
          /\ new.pc = "insert"
          /\ new.pos = importer[i].pos /\ new.skipped = importer[i].skipped
          /\ new.lost = importer[i].lost /\ new.inserted = importer[i].inserted
          /\ new.file = importer[i].file /\ new.naming = importer[i].naming
          /\ new.cache = importer[i].cache
    BY <1>4, <2>1
  <2> QED  BY <1>5, <2>2, Zenon
<1>6. CASE importer[i].cache[Key(i)] = 0 /\ importer' = [importer EXCEPT ![i].pc = "create"]
           /\ Matches(i) = {}
  BY <1>4, <1>6
<1>7. ASSUME NEW id \in Matches(i),
             importer' = [importer EXCEPT ![i].pc = "insert", ![i].cache[Key(i)] = id]
      PROVE  \E new :
              /\ SoundImport(new) /\ importer' = [importer EXCEPT ![i] = new]
              /\ new.pc = "insert"
              /\ new.pos = importer[i].pos /\ new.skipped = importer[i].skipped
              /\ new.lost = importer[i].lost /\ new.inserted = importer[i].inserted
              /\ new.file = importer[i].file /\ new.naming = importer[i].naming
              /\ new.cache = [importer[i].cache EXCEPT ![Key(i)] = id]
  <2> DEFINE cache == [importer[i].cache EXCEPT ![Key(i)] = id]
             new == [importer[i] EXCEPT !.pc = "insert", !.cache = cache]
  <2>1. cache \in [Keys -> Nat]
    BY <1>1, <1>2, <1>3
  <2>2. importer' = [importer EXCEPT ![i] = new]
    BY <1>3, <1>7 DEF Imports
  <2> HIDE DEF cache
  <2>3. /\ new \in Imports
        /\ new.pc = "insert"
        /\ new.pos = importer[i].pos /\ new.skipped = importer[i].skipped
        /\ new.lost = importer[i].lost /\ new.inserted = importer[i].inserted
        /\ new.file = importer[i].file /\ new.naming = importer[i].naming
        /\ new.cache = cache
    BY <1>3, <2>1 DEF Imports
  <2> HIDE DEF new
  <2> QED  BY <1>1, <2>2, <2>3 DEF SoundImport, Row, cache
<1>8. CASE importer[i].cache[Key(i)] = 0 /\ Matches(i) # {}
  <2>1. PICK id \in Matches(i) :
          importer' = [importer EXCEPT ![i].pc = "insert", ![i].cache[Key(i)] = id]
    BY <1>8 DEF FindSource
  <2>2. PICK new :
          /\ SoundImport(new) /\ importer' = [importer EXCEPT ![i] = new]
          /\ new.pc = "insert"
          /\ new.pos = importer[i].pos /\ new.skipped = importer[i].skipped
          /\ new.lost = importer[i].lost /\ new.inserted = importer[i].inserted
          /\ new.file = importer[i].file /\ new.naming = importer[i].naming
          /\ new.cache = [importer[i].cache EXCEPT ![Key(i)] = id]
    BY <1>7, <2>1, Zenon
  <2> QED  BY <2>2, Zenon
<1>9. CASE importer[i].cache[Key(i)] = 0 /\ Matches(i) = {}
  <2>1. importer' = [importer EXCEPT ![i].pc = "create"]
    BY <1>9 DEF FindSource
  <2> QED  BY <1>6, <1>9, <2>1
<1> QED  BY <1>5, <1>8, <1>9, Zenon


LEMMA CreateTyped ==
    ASSUME ImportTypeOK, NEW i \in Importers, CreateSource(i)
    PROVE  /\ Stored'
           /\ working' = [View(i) EXCEPT !.sources = Append(@, NameOf(i))]
           /\ \E new :
              /\ SoundImport(new) /\ importer' = [importer EXCEPT ![i] = new]
              /\ new.pos = importer[i].pos /\ new.skipped = importer[i].skipped
              /\ new.lost = importer[i].lost /\ new.inserted = importer[i].inserted
              /\ new.file = importer[i].file /\ new.naming = importer[i].naming
              /\ new.pc = "insert"
              /\ new.cache = [importer[i].cache EXCEPT ![Key(i)] = Len(View(i).sources) + 1]
              /\ Len(View(i).sources) + 1 \in Nat \ {0}
<1>1. /\ importer[i].pos <= Len(importer[i].file) /\ Row(i) # Invalid
      /\ Key(i) \in Keys /\ NameOf(i) \in STRING
  BY RowTyped DEF CreateSource, ImportTypeOK
<1>2. /\ importer[i] \in Imports /\ importer[i].cache \in [Keys -> Nat]
      /\ importer \in [Importers -> Imports] /\ View(i) \in Tables
      /\ View(i).sources \in Seq(STRING) /\ Len(View(i).sources) + 1 \in Nat \ {0}
  BY ImportTyped DEF ImportTypeOK
<1>3. /\ write_lock' = i /\ working' = [View(i) EXCEPT !.sources = Append(@, NameOf(i))]
      /\ importer' = [importer EXCEPT ![i].pc = "insert",
                                      ![i].cache[Key(i)] = Len(View(i).sources) + 1]
      /\ UNCHANGED <<tables, seeder, scripts, crowd, wounded>>
  BY DEF CreateSource
<1>4. working' \in Tables
  <2>1. Append(View(i).sources, NameOf(i)) \in Seq(STRING)
    BY <1>1, <1>2, AppendProperties
  <2> QED  BY <1>2, <1>3, <2>1 DEF Tables
<1>5. Stored'
  BY <1>3, <1>4, StoredTyped, ImportTyped DEF Stored
<1> DEFINE cache == [importer[i].cache EXCEPT ![Key(i)] = Len(View(i).sources) + 1]
           new == [importer[i] EXCEPT !.pc = "insert", !.cache = cache]
<1>6. cache \in [Keys -> Nat]
  BY <1>1, <1>2
<1>7. importer' = [importer EXCEPT ![i] = new]
  BY <1>2, <1>3 DEF Imports
<1> HIDE DEF cache
<1>8. /\ new \in Imports
      /\ new.pos = importer[i].pos /\ new.skipped = importer[i].skipped
      /\ new.lost = importer[i].lost /\ new.inserted = importer[i].inserted
      /\ new.file = importer[i].file /\ new.naming = importer[i].naming
      /\ new.pc = "insert" /\ new.cache = cache
  BY <1>2, <1>6 DEF Imports
<1> HIDE DEF new
<1>9. SoundImport(new)
  BY <1>1, <1>8 DEF SoundImport, Row
<1> QED  BY <1>2, <1>3, <1>5, <1>7, <1>8, <1>9, Zenon DEF cache

LEMMA InsertTyped ==
    ASSUME ImportTypeOK, NEW i \in Importers, InsertReview(i)
    PROVE  /\ Stored' /\ Row(i) \in Reviews /\ Key(i) \in Keys
           /\ working'.sources = View(i).sources
           /\ working'.signals = [View(i).signals EXCEPT ![Row(i)] = importer[i].cache[Key(i)]]
           /\ \E new :
              /\ SoundImport(new) /\ importer' = [importer EXCEPT ![i] = new]
              /\ new.pos = importer[i].pos + 1 /\ new.skipped = importer[i].skipped
              /\ new.lost = importer[i].lost /\ new.inserted = importer[i].inserted + 1
              /\ new.file = importer[i].file /\ new.naming = importer[i].naming
              /\ new.pc = "row" /\ new.cache = importer[i].cache
<1>1. /\ importer[i].pos <= Len(importer[i].file) /\ Row(i) # Invalid
      /\ Key(i) \in Keys /\ Row(i) \in Reviews
  BY RowTyped DEF InsertReview, ImportTypeOK
<1>2. /\ importer[i] \in Imports /\ importer[i].cache \in [Keys -> Nat]
      /\ importer \in [Importers -> Imports] /\ View(i) \in Tables
      /\ importer[i].pos + 1 \in Nat \ {0} /\ importer[i].inserted + 1 \in Nat
  BY ImportTyped DEF ImportTypeOK
<1>3. /\ write_lock' = i
      /\ working' = [View(i) EXCEPT !.signals[Row(i)] = importer[i].cache[Key(i)]]
      /\ importer' = [importer EXCEPT ![i].pc = "row", ![i].pos = @ + 1, ![i].inserted = @ + 1]
      /\ UNCHANGED <<tables, seeder, scripts, crowd, wounded>>
  BY DEF InsertReview
<1>4. /\ working' \in Tables /\ working'.sources = View(i).sources
      /\ working'.signals = [View(i).signals EXCEPT ![Row(i)] = importer[i].cache[Key(i)]]
  BY <1>1, <1>2, <1>3 DEF Tables
<1>5. Stored'
  BY <1>3, <1>4, StoredTyped, ImportTyped DEF Stored
<1> DEFINE new == [importer[i] EXCEPT !.pc = "row", !.pos = @ + 1, !.inserted = @ + 1]
<1>6. importer' = [importer EXCEPT ![i] = new]
  BY <1>2, <1>3
<1>7. /\ new \in Imports
      /\ new.pos = importer[i].pos + 1 /\ new.skipped = importer[i].skipped
      /\ new.lost = importer[i].lost /\ new.inserted = importer[i].inserted + 1
      /\ new.file = importer[i].file /\ new.naming = importer[i].naming
      /\ new.pc = "row" /\ new.cache = importer[i].cache
  BY <1>2 DEF Imports
<1> HIDE DEF new
<1>8. SoundImport(new)
  BY <1>7 DEF SoundImport
<1> QED  BY <1>1, <1>4, <1>5, <1>6, <1>7, <1>8, Zenon

LEMMA CommitTyped ==
    ASSUME ImportTypeOK, NEW i \in Importers, ImportCommit(i)
    PROVE  /\ Stored'
           /\ \E new :
              /\ SoundImport(new) /\ importer' = [importer EXCEPT ![i] = new]
              /\ new.pos = importer[i].pos /\ new.skipped = importer[i].skipped
              /\ new.lost = importer[i].lost /\ new.inserted = importer[i].inserted
              /\ new.file = importer[i].file /\ new.naming = importer[i].naming
              /\ new.pc = "done" /\ new.committed = Cardinality(Added(View(i)))
<1>1. /\ importer[i] \in Imports /\ importer \in [Importers -> Imports] /\ View(i) \in Tables
      /\ Cardinality(Added(View(i))) \in Nat
  BY ImportTyped, ImportAssumption, FS_Subset, FS_CardinalityType DEF ImportTypeOK, Added
<1>2. /\ tables' = View(i) /\ UNCHANGED <<working, seeder, scripts, crowd, wounded>>
      /\ write_lock' = IF write_lock = i THEN Nobody ELSE write_lock
      /\ importer' = [importer EXCEPT ![i].pc = "done",
                                      ![i].committed = Cardinality(Added(View(i)))]
  BY DEF ImportCommit
<1>3. Stored'
  BY <1>1, <1>2, StoredTyped DEF Stored, View
<1> DEFINE new == [importer[i] EXCEPT !.pc = "done",
                                      !.committed = Cardinality(Added(View(i)))]
<1>4. importer' = [importer EXCEPT ![i] = new]
  BY <1>1, <1>2
<1>5. /\ new \in Imports
      /\ new.pos = importer[i].pos /\ new.skipped = importer[i].skipped
      /\ new.lost = importer[i].lost /\ new.inserted = importer[i].inserted
      /\ new.file = importer[i].file /\ new.naming = importer[i].naming
      /\ new.pc = "done" /\ new.committed = Cardinality(Added(View(i)))
  BY <1>1 DEF Imports
<1> HIDE DEF new
<1>6. SoundImport(new)
  BY <1>5 DEF SoundImport
<1> QED  BY <1>3, <1>4, <1>5, <1>6, Zenon


\* Every step of ReviewImport keeps the types.
LEMMA ImportTypes == ImportTypeOK /\ [ImportNext]_importVars => ImportTypeOK'
<1> SUFFICES ASSUME ImportTypeOK, [ImportNext]_importVars
             PROVE  ImportTypeOK'
  OBVIOUS
<1>a. Stored /\ NoImport \in Imports /\ NoImport.pc = "idle"
  BY StoredTyped, ImportAssumption, EmptySeq DEF NoImport, Imports
<1>b. importer \in [Importers -> Imports]
  BY DEF ImportTypeOK
<1>1. ASSUME NEW i \in Importers, NEW file \in Files, NEW naming \in Namings,
             ImportStart(i, file, naming)
      PROVE  ImportTypeOK'
  <2> DEFINE new == [NoImport EXCEPT !.pc = "row", !.file = file, !.naming = naming]
  <2>1. file \in Seq(Reviews \cup {Invalid}) /\ naming \in [Keys -> STRING]
    BY ImportAssumption
  <2>2. new \in Imports /\ new.pc = "row"
    BY <1>a, <2>1 DEF Imports
  <2>3. Stored'
    BY <1>a, <1>1 DEF ImportStart, Started, Stored, Alone, Busy
  <2>4. importer' = [importer EXCEPT ![i] = new]
    BY <1>1 DEF ImportStart
  <2> HIDE DEF new
  <2> QED  BY <2>2, <2>3, <2>4, ImportSet DEF SoundImport
<1>2. ASSUME NEW i \in Importers, SkipInvalid(i) \/ RollbackReview(i)
      PROVE  ImportTypeOK'
  <2>1. importer' = SkipRow(i) /\ Stored'
    BY <1>a, <1>2 DEF SkipInvalid, RollbackReview, Stored
  <2> QED  BY <2>1, SkipTyped, ImportSet
<1>3. ASSUME NEW i \in Importers, FindSource(i)
      PROVE  ImportTypeOK'
  <2>1. Stored'
    BY <1>a, <1>3 DEF FindSource, Stored
  <2> QED  BY <1>3, <2>1, FindTyped, ImportSet
<1>4. ASSUME NEW i \in Importers, CreateSource(i)
      PROVE  ImportTypeOK'
  BY <1>4, CreateTyped, ImportSet
<1>5. ASSUME NEW i \in Importers, InsertReview(i)
      PROVE  ImportTypeOK'
  BY <1>5, InsertTyped, ImportSet
<1>6. ASSUME NEW i \in Importers, ImportCommit(i)
      PROVE  ImportTypeOK'
  BY <1>6, CommitTyped, ImportSet
<1>7. ASSUME NEW i \in Importers, ImportStops(i)
      PROVE  ImportTypeOK'
  <2>1. Stored' /\ importer' = [importer EXCEPT ![i] = NoImport]
    BY <1>a, <1>7 DEF ImportStops, Stored
  <2> QED  BY <1>a, <2>1, ImportSet DEF SoundImport
<1>8. CASE SeedStart \/ SeedCheck \/ SeedStops
  <2>1. seeder' \in [pc : {"idle", "check"}, pos : Nat \ {0}, missing : Seq(STRING)]
    <3>1. CASE SeedStart \/ SeedStops
      <4>1. <<>> \in Seq(STRING)
        BY EmptySeq
      <4>2. \E pc \in {"idle", "check"} : seeder' = [pc |-> pc, pos |-> 1, missing |-> <<>>]
        BY <3>1 DEF SeedStart, SeedStops
      <4> QED  BY <4>1, <4>2
    <3>2. CASE SeedCheck
      <4>1. /\ SeedNames[seeder.pos] \in STRING /\ seeder.missing \in Seq(STRING)
            /\ seeder.pos \in Nat \ {0}
        BY <1>a, <3>2, ImportAssumption, ElementOfSeq, LenProperties DEF SeedCheck, Stored
      <4>2. Append(seeder.missing, SeedNames[seeder.pos]) \in Seq(STRING)
        BY <4>1, AppendProperties
      <4>3. PICK missing \in Seq(STRING) :
              seeder' = [seeder EXCEPT !.pos = @ + 1, !.missing = missing]
        BY <3>2, <4>1, <4>2 DEF SeedCheck
      <4>4. /\ seeder \in [pc : {"idle", "check"}, pos : Nat \ {0}, missing : Seq(STRING)]
            /\ seeder.pos + 1 \in Nat \ {0}
        BY <1>a, <4>1 DEF Stored
      <4> QED  BY <4>3, <4>4
    <3> QED  BY <1>8, <3>1, <3>2
  <2>2. importer' = importer /\ UNCHANGED <<tables, working, write_lock, wounded>>
        /\ scripts' \in Nat /\ crowd' \in BOOLEAN
    <3>1. CASE SeedStart
      BY <1>a, <3>1 DEF SeedStart, Started, Stored, Alone, Busy
    <3>2. CASE SeedCheck \/ SeedStops
      <4>1. UNCHANGED <<importer, tables, working, write_lock, wounded, scripts, crowd>>
        BY <3>2, Zenon DEF SeedCheck, SeedStops
      <4> QED  BY <1>a, <4>1 DEF Stored
    <3> QED  BY <1>8, <3>1, <3>2
  <2> QED  BY <2>1, <2>2 DEF ImportTypeOK, Row
<1>9. CASE SeedCommit
  <2>1. tables.sources \o seeder.missing \in Seq(STRING) /\ tables \in Tables
    BY <1>a, ConcatProperties DEF Stored, Tables
  <2>2. tables' = [tables EXCEPT !.sources = @ \o seeder.missing] /\ working' = tables'
        /\ seeder' = [pc |-> "idle", pos |-> 1, missing |-> <<>>]
        /\ UNCHANGED <<write_lock, importer, scripts, crowd, wounded>>
    BY <1>9 DEF SeedCommit
  <2>3. tables' \in Tables
    BY <2>1, <2>2 DEF Tables
  <2>4. seeder' \in [pc : {"idle", "check"}, pos : Nat \ {0}, missing : Seq(STRING)]
    BY <2>2, EmptySeq
  <2> QED  BY <2>2, <2>3, <2>4 DEF ImportTypeOK, Row
<1>10. ASSUME NEW v \in Reviews, Scraped(v)
      PROVE  ImportTypeOK'
  <2>1. tables' = [tables EXCEPT !.signals[v] = 1] /\ working' = tables'
        /\ UNCHANGED <<write_lock, importer, seeder, scripts, crowd, wounded>>
    BY <1>10 DEF Scraped
  <2>2. tables' \in Tables
    BY <1>a, <2>1 DEF Tables, Stored
  <2> QED  BY <2>1, <2>2 DEF ImportTypeOK, Row
<1>11. CASE UNCHANGED importVars
  BY <1>11 DEF importVars, ImportTypeOK, Row
<1> QED
  BY <1>1, <1>2, <1>3, <1>4, <1>5, <1>6, <1>7, <1>8, <1>9, <1>10, <1>11
     DEF ImportNext, ImportStep

LEMMA ImportTypesHold == ImportSpec => []ImportTypeOK
<1>1. ImportInit => ImportTypeOK
  <2> SUFFICES ASSUME ImportInit
               PROVE  ImportTypeOK
    OBVIOUS
  <2>1. NoImport \in Imports /\ NoImport.pc = "idle"
    BY ImportAssumption, EmptySeq DEF NoImport, Imports
  <2>2. <<Scraper>> \in Seq(STRING)
    <3>1. Append(<<>>, Scraper) \in Seq(STRING)
      BY ImportAssumption, EmptySeq, AppendProperties
    <3> QED  BY <3>1
  <2>3. tables \in Tables
    BY <2>2 DEF ImportInit, Tables
  <2>4. seeder \in [pc : {"idle", "check"}, pos : Nat \ {0}, missing : Seq(STRING)]
    BY EmptySeq DEF ImportInit
  <2> QED  BY <2>1, <2>3, <2>4 DEF ImportInit, ImportTypeOK
<1> QED  BY <1>1, ImportTypes, PTL DEF ImportSpec


\* `new` has every source and every review of `old`, under the same ids.
Grows(new, old) ==
    /\ Len(old.sources) <= Len(new.sources)
    /\ \A id \in 1 .. Len(old.sources) : new.sources[id] = old.sources[id]
    /\ \A v \in Reviews : old.signals[v] # 0 => new.signals[v] = old.signals[v]

\* A write transaction is that of an import under way, and takes nothing away.
LockInv ==
    /\ \A i \in Importers : write_lock = i => Busy(i)
    /\ Grows(working, tables)

\* What a step of another process does to importer i.
Frame(i) ==
    /\ importer'[i] = importer[i]
    /\ wounded => wounded'
    /\ \/ write_lock = i /\ write_lock' = i /\ UNCHANGED <<tables, working>>
       \/ write_lock # i /\ write_lock' # i /\ Grows(tables', tables)

LEMMA GrowsSelf ==
    ASSUME NEW t \in Tables
    PROVE  Grows(t, t)
<1>1. Len(t.sources) \in Nat
  BY LenProperties DEF Tables
<1> QED  BY <1>1 DEF Grows

\* Adding to a table only adds.
LEMMA GrowsAppend ==
    ASSUME NEW t \in Tables, NEW u \in Tables, Grows(t, u), NEW seq \in Seq(STRING)
    PROVE  Grows([t EXCEPT !.sources = @ \o seq], u)
<1>1. /\ t.sources \in Seq(STRING) /\ u.sources \in Seq(STRING) /\ Len(t.sources) \in Nat
      /\ Len(u.sources) \in Nat /\ Len(seq) \in Nat
  BY LenProperties DEF Tables
<1>2. /\ Len(t.sources \o seq) = Len(t.sources) + Len(seq)
      /\ \A id \in 1 .. Len(t.sources) : (t.sources \o seq)[id] = t.sources[id]
  BY <1>1, ConcatProperties
<1>3. LET w == [t EXCEPT !.sources = @ \o seq]
      IN  w.sources = t.sources \o seq /\ w.signals = t.signals
  BY DEF Tables
<1> QED  BY <1>1, <1>2, <1>3 DEF Grows

LEMMA GrowsSignal ==
    ASSUME NEW t \in Tables, NEW u \in Tables, Grows(t, u), NEW v \in Reviews, NEW id,
           t.signals[v] = 0
    PROVE  Grows([t EXCEPT !.signals[v] = id], u)
<1>1. LET w == [t EXCEPT !.signals[v] = id]
      IN  w.sources = t.sources /\ w.signals = [t.signals EXCEPT ![v] = id]
  BY DEF Tables
<1>2. \A x \in Reviews : u.signals[x] # 0 => x # v
  BY DEF Grows
<1>3. t.signals \in [Reviews -> Nat]
  BY DEF Tables
<1> QED  BY <1>1, <1>2, <1>3 DEF Grows

\* What an importer sees has all that is committed.
LEMMA ViewGrows == ASSUME ImportTypeOK, LockInv, NEW i PROVE Grows(View(i), tables)
BY GrowsSelf DEF ImportTypeOK, LockInv, View

\* A step of one process is a frame step for the importers it does not run.
LEMMA Framed ==
    ASSUME ImportTypeOK, LockInv, NEW i \in Importers, NEW j \in Importers, i # j,
           ImportStep(j) \/ \E file \in Files, naming \in Namings : ImportStart(j, file, naming)
    PROVE  Frame(i)
<1>a. Grows(tables, tables) /\ i # Nobody /\ j # Nobody /\ Grows(View(j), tables)
      /\ importer \in [Importers -> Imports]
  BY GrowsSelf, ImportTyped, ViewGrows DEF ImportTypeOK
<1>1. CASE SkipInvalid(j) \/ FindSource(j)
  <2>1. importer'[i] = importer[i] /\ UNCHANGED <<tables, working, write_lock, wounded>>
    <3>1. CASE SkipInvalid(j)
      BY <1>a, <3>1 DEF SkipInvalid, SkipRow
    <3>2. CASE FindSource(j)
      BY <1>a, <3>2, FindTyped DEF FindSource
    <3> QED  BY <1>1, <3>1, <3>2
  <2> QED  BY <1>a, <2>1 DEF Frame
<1>2. ASSUME NEW file \in Files, NEW naming \in Namings, ImportStart(j, file, naming)
      PROVE  Frame(i)
  BY <1>a, <1>2 DEF ImportStart, Frame
<1>3. CASE CreateSource(j) \/ InsertReview(j)
  <2>1. importer'[i] = importer[i]
    BY <1>a, <1>3, CreateTyped, InsertTyped
  <2>2. write_lock # i /\ write_lock' # i /\ UNCHANGED <<tables, wounded>>
    BY <1>a, <1>3 DEF CreateSource, InsertReview, MayWrite
  <2> QED  BY <1>a, <2>1, <2>2 DEF Frame
<1>4. CASE RollbackReview(j)
  <2>1. importer'[i] = importer[i]
    BY <1>a, <1>4, SkipTyped DEF RollbackReview
  <2>2. write_lock # i /\ write_lock' # i /\ UNCHANGED tables /\ (wounded => wounded')
    BY <1>a, <1>4 DEF RollbackReview, MayWrite
  <2> QED  BY <1>a, <2>1, <2>2 DEF Frame
<1>5. CASE ImportCommit(j)
  <2>1. importer'[i] = importer[i]
    BY <1>a, <1>5, CommitTyped
  <2>2. tables' = View(j) /\ UNCHANGED <<working, wounded>>
        /\ write_lock' = IF write_lock = j THEN Nobody ELSE write_lock
    BY <1>5 DEF ImportCommit
  <2>3. CASE write_lock = i
    BY <2>1, <2>2, <2>3 DEF Frame, View
  <2>4. CASE write_lock # i
    BY <1>a, <2>1, <2>2, <2>4 DEF Frame
  <2> QED  BY <2>3, <2>4
<1>6. CASE ImportStops(j)
  BY <1>a, <1>6 DEF ImportStops, Frame
<1> QED  BY <1>1, <1>2, <1>3, <1>4, <1>5, <1>6 DEF ImportStep

\* So is a step of the seeding or of an ingest batch, for all importers.
LEMMA FramedAlone ==
    ASSUME ImportTypeOK, LockInv, NEW i \in Importers,
           \/ SeedStart \/ SeedCheck \/ SeedCommit \/ SeedStops
           \/ \E v \in Reviews : Scraped(v)
           \/ UNCHANGED importVars
    PROVE  Frame(i)
<1>a. Grows(tables, tables) /\ i # Nobody /\ tables \in Tables
  BY GrowsSelf, ImportTyped DEF ImportTypeOK
<1>1. CASE SeedStart \/ SeedCheck \/ SeedStops \/ UNCHANGED importVars
  <2>1. UNCHANGED <<tables, working, write_lock, importer, wounded>>
    BY <1>1, Zenon DEF SeedStart, SeedCheck, SeedStops, importVars
  <2> QED  BY <1>a, <2>1 DEF Frame
<1>2. CASE SeedCommit
  <2>1. /\ tables' = [tables EXCEPT !.sources = @ \o seeder.missing] /\ write_lock = Nobody
        /\ UNCHANGED <<write_lock, importer, wounded>> /\ seeder.missing \in Seq(STRING)
    BY <1>2 DEF SeedCommit, ImportTypeOK
  <2> QED  BY <1>a, <2>1, GrowsAppend DEF Frame
<1>3. ASSUME NEW v \in Reviews, Scraped(v)
      PROVE  Frame(i)
  <2>1. /\ tables' = [tables EXCEPT !.signals[v] = 1] /\ write_lock = Nobody
        /\ UNCHANGED <<write_lock, importer, wounded>> /\ tables.signals[v] = 0
    BY <1>3 DEF Scraped
  <2> QED  BY <1>a, <2>1, GrowsSignal DEF Frame
<1> QED  BY <1>1, <1>2, <1>3

LEMMA LockStep == ImportTypeOK /\ ImportTypeOK' /\ LockInv /\ [ImportNext]_importVars => LockInv'
<1> SUFFICES ASSUME ImportTypeOK, ImportTypeOK', LockInv, [ImportNext]_importVars
             PROVE  LockInv'
  OBVIOUS
<1>a. tables \in Tables /\ working \in Tables /\ tables' \in Tables
      /\ Grows(tables, tables) /\ Grows(tables', tables')
      /\ importer \in [Importers -> Imports]
  BY GrowsSelf DEF ImportTypeOK
<1>1. ASSUME NEW j \in Importers,
             ImportStep(j) \/ \E file \in Files, naming \in Namings : ImportStart(j, file, naming),
             write_lock' = j => Busy(j)', Grows(working', tables')
      PROVE  LockInv'
  BY <1>1, Framed DEF LockInv, Frame, Busy
<1>2. ASSUME NEW j \in Importers, SkipInvalid(j) \/ FindSource(j)
      PROVE  LockInv'
  <2>1. UNCHANGED <<tables, working, write_lock>>
    BY <1>2, Zenon DEF SkipInvalid, FindSource
  <2>2. Busy(j)'
    <3>1. CASE SkipInvalid(j)
      BY <3>1, SkipTyped, <1>a DEF SkipInvalid, Busy
    <3>2. CASE FindSource(j)
      BY <3>2, FindTyped, <1>a DEF Busy
    <3> QED  BY <1>2, <3>1, <3>2
  <2> QED  BY <1>1, <1>2, <2>1, <2>2 DEF ImportStep, LockInv
<1>3. ASSUME NEW j \in Importers, NEW file \in Files, NEW naming \in Namings,
             ImportStart(j, file, naming)
      PROVE  LockInv'
  <2>1. UNCHANGED <<tables, working, write_lock>> /\ ~Busy(j)
    BY <1>3 DEF ImportStart
  <2> QED  BY <1>1, <1>3, <2>1 DEF LockInv
<1>4. ASSUME NEW j \in Importers, CreateSource(j)
      PROVE  LockInv'
  <2>1. /\ working' = [View(j) EXCEPT !.sources = Append(@, NameOf(j))] /\ tables' = tables
        /\ importer'[j].pc = "insert" /\ View(j) \in Tables /\ View(j).sources \in Seq(STRING)
    <3>1. PICK new : importer' = [importer EXCEPT ![j] = new] /\ new.pc = "insert"
      BY <1>4, CreateTyped
    <3>2. /\ working' = [View(j) EXCEPT !.sources = Append(@, NameOf(j))]
          /\ tables' = tables
      BY <1>4, Zenon DEF CreateSource
    <3> QED  BY <1>a, <3>1, <3>2, ImportTyped
  <2>2. NameOf(j) \in STRING
    BY <1>4, RowTyped DEF CreateSource, ImportTypeOK
  <2>3. /\ working'.sources = Append(View(j).sources, NameOf(j))
        /\ working'.signals = View(j).signals
    BY <2>1 DEF Tables
  <2>4. /\ Len(working'.sources) = Len(View(j).sources) + 1 /\ Len(View(j).sources) \in Nat
        /\ \A id \in 1 .. Len(View(j).sources) : working'.sources[id] = View(j).sources[id]
        /\ Len(tables.sources) \in Nat
    BY <1>a, <2>1, <2>2, <2>3, AppendProperties, LenProperties DEF Tables
  <2>5. Grows(working', tables')
    BY <2>1, <2>3, <2>4, ViewGrows DEF Grows
  <2> QED  BY <1>1, <1>4, <2>1, <2>5 DEF ImportStep, Busy
<1>5. ASSUME NEW j \in Importers, InsertReview(j)
      PROVE  LockInv'
  <2>1. /\ working' = [View(j) EXCEPT !.signals[Row(j)] = importer[j].cache[Key(j)]]
        /\ tables' = tables /\ importer'[j].pc = "row" /\ View(j) \in Tables
        /\ View(j).signals[Row(j)] = 0 /\ Row(j) \in Reviews
    BY <1>a, <1>5, InsertTyped, ImportTyped DEF InsertReview, Insertable
  <2>2. Grows(working', tables')
    BY <1>a, <2>1, GrowsSignal, ViewGrows
  <2> QED  BY <1>1, <1>5, <2>1, <2>2 DEF ImportStep, Busy
<1>6. ASSUME NEW j \in Importers, RollbackReview(j)
      PROVE  LockInv'
  <2>1. UNCHANGED tables /\ working' = tables /\ write_lock' = Nobody /\ j # Nobody
    BY <1>6, ImportTyped DEF RollbackReview
  <2> QED  BY <1>1, <1>6, <1>a, <2>1 DEF ImportStep
<1>7. ASSUME NEW j \in Importers, ImportCommit(j)
      PROVE  LockInv'
  <2>1. tables' = View(j) /\ UNCHANGED working /\ j # Nobody
        /\ write_lock' = IF write_lock = j THEN Nobody ELSE write_lock
    BY <1>7, ImportTyped DEF ImportCommit
  <2>2. Grows(working', tables')
    BY <1>a, <2>1 DEF View, LockInv
  <2> QED  BY <1>1, <1>7, <2>1, <2>2 DEF ImportStep
<1>8. ASSUME NEW j \in Importers, ImportStops(j)
      PROVE  LockInv'
  <2>1. /\ UNCHANGED tables /\ j # Nobody
        /\ write_lock' # j
        /\ working' = IF write_lock = j THEN tables ELSE working
    BY <1>8, ImportTyped DEF ImportStops
  <2> QED  BY <1>1, <1>8, <1>a, <2>1 DEF ImportStep, LockInv
<1>9. CASE SeedStart \/ SeedCheck \/ SeedStops \/ UNCHANGED importVars
  <2>1. UNCHANGED <<tables, working, write_lock, importer>>
    BY <1>9, Zenon DEF SeedStart, SeedCheck, SeedStops, importVars
  <2> QED  BY <2>1 DEF LockInv, Busy
<1>10. CASE SeedCommit \/ \E v \in Reviews : Scraped(v)
  <2>1. working' = tables' /\ UNCHANGED <<write_lock, importer>>
    BY <1>10, Zenon DEF SeedCommit, Scraped
  <2> QED  BY <1>a, <2>1 DEF LockInv, Busy
<1> QED
  BY <1>2, <1>3, <1>4, <1>5, <1>6, <1>7, <1>8, <1>9, <1>10 DEF ImportNext, ImportStep


\* The report so far against the rows of the transaction, which a rollback resets.
Counted(i) ==
    /\ Busy(i) =>
          /\ Cardinality(Added(View(i))) <= importer[i].inserted
          /\ importer[i].skipped = 0 => Cardinality(Added(View(i))) = importer[i].inserted
    /\ importer[i].pc = "done" =>
          /\ importer[i].committed <= importer[i].inserted
          /\ importer[i].skipped = 0 => importer[i].committed = importer[i].inserted

\* The rows since the last one skipped are there.
Tailed(i) ==
    /\ importer[i].lost < importer[i].pos
    /\ importer[i].pc = "done" => importer[i].pos > Len(importer[i].file)
    /\ importer[i].pc # "idle" =>
          \A p \in importer[i].lost + 1 .. importer[i].pos - 1 :
              importer[i].file[p] \in Reviews /\ View(i).signals[importer[i].file[p]] # 0

\* source_cache holds ids of sources with the right names, until one is dropped.
Cached(i) ==
    /\ importer[i].pc = "insert" => importer[i].cache[Key(i)] # 0
    /\ ~wounded /\ Busy(i) =>
          \A k \in Keys : importer[i].cache[k] # 0 =>
              /\ importer[i].cache[k] \in 1 .. Len(View(i).sources)
              /\ View(i).sources[importer[i].cache[k]] = importer[i].naming[k]
    /\ ~wounded /\ write_lock = i =>
          \A v \in Added(working) :
              /\ working.signals[v] \in 1 .. Len(working.sources)
              /\ working.sources[working.signals[v]] = importer[i].naming[Product[v]]

Reported(i) == Counted(i) /\ Tailed(i) /\ Cached(i)

\* A frame step keeps what is known of an importer.
LEMMA FrameKeeps ==
    ASSUME ImportTypeOK, ImportTypeOK', LockInv, NEW i \in Importers, Frame(i), Reported(i)
    PROVE  Reported(i)'
<1>1. importer'[i] = importer[i] /\ (wounded => wounded') /\ Busy(i)' = Busy(i)
  BY DEF Frame, Busy
<1>2. CASE write_lock = i /\ write_lock' = i /\ UNCHANGED <<tables, working>>
  <2>1. View(i)' = View(i)
    BY <1>2 DEF View, Added
  <2>2. Added(View(i))' = Added(View(i)) /\ Added(working)' = Added(working)
    BY <1>2 DEF View, Added
  <2>3. Counted(i)'
    BY <1>1, <2>2 DEF Reported, Counted
  <2>4. Tailed(i)'
    BY <1>1, <2>1 DEF Reported, Tailed
  <2>5. Cached(i)'
    BY <1>1, <1>2, <2>1, <2>2 DEF Reported, Cached, Key, Row
  <2> QED  BY <2>3, <2>4, <2>5 DEF Reported
<1>3. CASE write_lock # i /\ write_lock' # i /\ Grows(tables', tables)
  <2>1. View(i) = tables /\ View(i)' = tables'
    BY <1>3 DEF View
  <2>2. Added(View(i)) = {} /\ Added(View(i))' = {}
    BY <2>1 DEF Added
  <2>3. Counted(i)'
    BY <1>1, <2>2 DEF Reported, Counted
  <2>4. Tailed(i)'
    BY <1>1, <1>3, <2>1 DEF Reported, Tailed, Grows
  <2>5. Len(tables.sources) \in Nat /\ Len(tables'.sources) \in Nat
    BY LenProperties DEF ImportTypeOK, Tables
  <2>6. Cached(i)'
    BY <1>1, <1>3, <2>1, <2>5 DEF Reported, Cached, Grows, Key, Row
  <2> QED  BY <2>3, <2>4, <2>6 DEF Reported
<1> QED  BY <1>2, <1>3 DEF Frame

\* Nothing is added when an import holds no lock.
LEMMA AddedView ==
    ASSUME ImportTypeOK, NEW i \in Importers
    PROVE  /\ IsFiniteSet(Added(View(i))) /\ Cardinality(Added(View(i))) \in Nat
           /\ write_lock # i => Added(View(i)) = {} /\ Cardinality(Added(View(i))) = 0
<1>1. Added(View(i)) \subseteq Reviews
  BY DEF Added
<1>2. write_lock # i => Added(View(i)) = {}
  BY DEF View, Added
<1> QED  BY <1>1, <1>2, ImportAssumption, FS_Subset, FS_CardinalityType, FS_EmptySet

LEMMA StartReported ==
    ASSUME ImportTypeOK, LockInv, NEW i \in Importers, NEW file \in Files,
           NEW naming \in Namings, ImportStart(i, file, naming)
    PROVE  Reported(i)'
<1>1. /\ importer' = [importer EXCEPT ![i] =
                        [NoImport EXCEPT !.pc = "row", !.file = file, !.naming = naming]]
      /\ UNCHANGED <<tables, working, write_lock, wounded>> /\ ~Busy(i)
  BY DEF ImportStart
<1>2. /\ importer'[i].pc = "row" /\ importer'[i].inserted = 0 /\ importer'[i].skipped = 0
      /\ importer'[i].lost = 0 /\ importer'[i].pos = 1 /\ importer'[i].cache = [k \in Keys |-> 0]
  BY <1>1 DEF ImportTypeOK, NoImport
<1>3. write_lock # i
  BY <1>1 DEF LockInv
<1>4. View(i)' = tables /\ Added(View(i))' = {}
  BY <1>1, <1>3 DEF View, Added
<1>5. Counted(i)'
  BY <1>2, <1>4, FS_EmptySet DEF Counted
<1>6. Tailed(i)'
  BY <1>2 DEF Tailed
<1>7. Cached(i)'
  BY <1>1, <1>2, <1>3 DEF Cached
<1> QED  BY <1>5, <1>6, <1>7 DEF Reported

LEMMA SkipReported ==
    ASSUME ImportTypeOK, NEW i \in Importers, SkipInvalid(i), Reported(i)
    PROVE  Reported(i)'
<1>1. PICK new :
        /\ SkipRow(i) = [importer EXCEPT ![i] = new]
        /\ new.pc = "row" /\ new.pos = importer[i].pos + 1
        /\ new.skipped = importer[i].skipped + 1 /\ new.lost = importer[i].pos
        /\ new.inserted = importer[i].inserted /\ new.file = importer[i].file
        /\ new.naming = importer[i].naming /\ new.cache = importer[i].cache
  BY SkipTyped
<1>2. /\ importer'[i] = new /\ UNCHANGED <<tables, working, write_lock, wounded>>
      /\ Busy(i)
  BY <1>1 DEF SkipInvalid, ImportTypeOK, HasRow, Busy
<1>3. View(i)' = View(i) /\ Added(View(i))' = Added(View(i)) /\ Added(working)' = Added(working)
  BY <1>2 DEF View, Added
<1>4. importer[i].skipped \in Nat /\ importer[i].pos \in Nat
  BY ImportTyped
<1>5. Counted(i)'
  BY <1>1, <1>2, <1>3, <1>4 DEF Reported, Counted
<1>6. Tailed(i)'
  BY <1>1, <1>2, <1>4 DEF Tailed
<1>7. Cached(i)'
  BY <1>1, <1>2, <1>3 DEF Reported, Cached, Busy
<1> QED  BY <1>5, <1>6, <1>7 DEF Reported

\* A rollback leaves no row, and no source, of the transaction.
LEMMA RollbackReported ==
    ASSUME ImportTypeOK, NEW i \in Importers, RollbackReview(i), Reported(i)
    PROVE  Reported(i)'
<1>1. PICK new :
        /\ SkipRow(i) = [importer EXCEPT ![i] = new]
        /\ new.pc = "row" /\ new.pos = importer[i].pos + 1
        /\ new.skipped = importer[i].skipped + 1 /\ new.lost = importer[i].pos
        /\ new.inserted = importer[i].inserted /\ new.file = importer[i].file
        /\ new.naming = importer[i].naming /\ new.cache = importer[i].cache
  BY SkipTyped
<1>2. /\ importer'[i] = new /\ tables' = tables /\ write_lock' = Nobody /\ i # Nobody
      /\ wounded' = (wounded \/ View(i).sources # tables.sources) /\ Busy(i)
  BY <1>1, ImportTyped DEF RollbackReview, ImportTypeOK, Busy
<1>3. View(i)' = tables /\ Added(View(i))' = {}
  BY <1>2 DEF View, Added
<1>4. importer[i].skipped \in Nat /\ importer[i].pos \in Nat /\ importer[i].inserted \in Nat
  BY ImportTyped
<1>5. Counted(i)'
  BY <1>1, <1>2, <1>3, <1>4, FS_EmptySet DEF Counted
<1>6. Tailed(i)'
  BY <1>1, <1>2, <1>4 DEF Tailed
<1>7. Cached(i)'
  BY <1>1, <1>2, <1>3 DEF Reported, Cached
<1> QED  BY <1>5, <1>6, <1>7 DEF Reported

LEMMA StopReported ==
    ASSUME ImportTypeOK, NEW i \in Importers, ImportStops(i)
    PROVE  Reported(i)'
<1>1. importer'[i] = NoImport /\ write_lock' # i /\ i # Nobody
  BY ImportTyped DEF ImportStops, ImportTypeOK
<1> QED  BY <1>1 DEF Reported, Counted, Tailed, Cached, Busy, NoImport


\* What the lookup finds, or the creation makes, has the name the row asks for.
LEMMA FindReported ==
    ASSUME ImportTypeOK, NEW i \in Importers, FindSource(i), Reported(i)
    PROVE  Reported(i)'
<1>1. PICK new :
        /\ importer' = [importer EXCEPT ![i] = new]
        /\ new.pos = importer[i].pos /\ new.skipped = importer[i].skipped
        /\ new.lost = importer[i].lost /\ new.inserted = importer[i].inserted
        /\ new.file = importer[i].file /\ new.naming = importer[i].naming
        /\ \/ new.pc = "create" /\ new.cache = importer[i].cache
           \/ /\ new.pc = "insert" /\ new.cache = importer[i].cache
              /\ new.cache[Key(i)] # 0
           \/ /\ new.pc = "insert"
              /\ \E id \in Matches(i) : new.cache = [importer[i].cache EXCEPT ![Key(i)] = id]
  BY FindTyped
<1>2. /\ importer'[i] = new /\ UNCHANGED <<tables, working, write_lock, wounded>>
      /\ Busy(i)
  BY <1>1 DEF FindSource, ImportTypeOK, HasRow, Busy
<1>3. View(i)' = View(i) /\ Added(View(i))' = Added(View(i)) /\ Added(working)' = Added(working)
  BY <1>2 DEF View, Added
<1>4. Key(i)' = Key(i)
  BY <1>1, <1>2 DEF Key, Row
<1>5. Counted(i)'
  BY <1>1, <1>2, <1>3 DEF Reported, Counted
<1>6. Tailed(i)'
  BY <1>1, <1>2, <1>3 DEF Reported, Tailed, Busy
<1>7. CASE new.cache = importer[i].cache /\ (new.pc = "create" \/ new.cache[Key(i)] # 0)
  <2>1. Cached(i)'
    BY <1>1, <1>2, <1>3, <1>4, <1>7 DEF Reported, Cached
  <2> QED  BY <1>5, <1>6, <2>1 DEF Reported
<1>8. ASSUME NEW id \in Matches(i), new.cache = [importer[i].cache EXCEPT ![Key(i)] = id]
      PROVE  Reported(i)'
  <2>1. Key(i) \in Keys /\ importer[i].cache \in [Keys -> Nat]
    BY RowTyped, ImportTyped DEF FindSource, HasRow
  <2>2. /\ id \in 1 .. Len(View(i).sources) /\ View(i).sources[id] = importer[i].naming[Key(i)]
        /\ id # 0
    BY ImportTyped DEF Matches, NameOf
  <2>3. \A k \in Keys : new.cache[k] = IF k = Key(i) THEN id ELSE importer[i].cache[k]
    BY <1>8, <2>1
  <2>4. new.cache[Key(i)] # 0
    BY <2>1, <2>2, <2>3
  <2>5. ASSUME ~wounded, NEW k \in Keys, new.cache[k] # 0
        PROVE  /\ new.cache[k] \in 1 .. Len(View(i).sources)
               /\ View(i).sources[new.cache[k]] = importer[i].naming[k]
    BY <1>2, <2>2, <2>3, <2>5 DEF Reported, Cached
  <2>6. Cached(i)'
    BY <1>1, <1>2, <1>3, <1>4, <2>4, <2>5 DEF Reported, Cached
  <2> QED  BY <1>5, <1>6, <2>6 DEF Reported
<1> QED  BY <1>1, <1>7, <1>8

LEMMA CreateReported ==
    ASSUME ImportTypeOK, NEW i \in Importers, CreateSource(i), Reported(i)
    PROVE  Reported(i)'
<1> DEFINE id == Len(View(i).sources) + 1
<1>1. PICK new :
        /\ importer' = [importer EXCEPT ![i] = new]
        /\ new.pos = importer[i].pos /\ new.skipped = importer[i].skipped
        /\ new.lost = importer[i].lost /\ new.inserted = importer[i].inserted
        /\ new.file = importer[i].file /\ new.naming = importer[i].naming
        /\ new.pc = "insert"
        /\ new.cache = [importer[i].cache EXCEPT ![Key(i)] = id]
  BY CreateTyped
<1>2. /\ importer'[i] = new /\ UNCHANGED <<tables, wounded>> /\ write_lock' = i
      /\ working' = [View(i) EXCEPT !.sources = Append(@, NameOf(i))]
      /\ Busy(i) /\ importer[i].pc = "create" /\ write_lock \in {i, Nobody}
  BY <1>1 DEF CreateSource, ImportTypeOK, Busy, MayWrite
<1>3. /\ Key(i) \in Keys /\ NameOf(i) \in STRING /\ View(i).sources \in Seq(STRING)
      /\ View(i) \in Tables /\ Len(View(i).sources) \in Nat /\ importer[i].cache \in [Keys -> Nat]
      /\ i # Nobody
  BY <1>2, RowTyped, ImportTyped DEF ImportTypeOK
<1>4. /\ View(i)' = working' /\ View(i)'.signals = View(i).signals
      /\ View(i)'.sources = Append(View(i).sources, NameOf(i))
  BY <1>2, <1>3 DEF View, Tables
<1>5. /\ Len(View(i)'.sources) = id /\ View(i)'.sources[id] = NameOf(i)
      /\ \A n \in 1 .. Len(View(i).sources) : View(i)'.sources[n] = View(i).sources[n]
  BY <1>3, <1>4, AppendProperties
<1>6. Added(View(i))' = Added(View(i)) /\ Added(working)' = Added(View(i))
  BY <1>2, <1>4 DEF Added
<1>7. Key(i)' = Key(i)
  BY <1>1, <1>2 DEF Key, Row
<1>8. Counted(i)'
  BY <1>1, <1>2, <1>6 DEF Reported, Counted
<1>9. Tailed(i)'
  BY <1>1, <1>2, <1>4 DEF Reported, Tailed
<1>10. \A k \in Keys : new.cache[k] = IF k = Key(i) THEN id ELSE importer[i].cache[k]
  BY <1>1, <1>3
<1>11. id \in 1 .. id /\ id # 0 /\ \A n \in 1 .. Len(View(i).sources) : n \in 1 .. id
  BY <1>3
<1> HIDE DEF id
<1>12. ASSUME ~wounded, NEW k \in Keys, new.cache[k] # 0
       PROVE  /\ new.cache[k] \in 1 .. Len(View(i)'.sources)
              /\ View(i)'.sources[new.cache[k]] = new.naming[k]
  <2>1. CASE k = Key(i)
    BY <1>1, <1>5, <1>10, <1>11, <2>1 DEF NameOf
  <2>2. CASE k # Key(i)
    BY <1>1, <1>2, <1>5, <1>10, <1>11, <1>12, <2>2 DEF Reported, Cached
  <2> QED  BY <2>1, <2>2
<1>13. ASSUME ~wounded, NEW v \in Added(working)'
       PROVE  /\ working'.signals[v] \in 1 .. Len(working'.sources)
              /\ working'.sources[working'.signals[v]] = new.naming[Product[v]]
  <2>1. write_lock = i /\ View(i) = working /\ v \in Added(working)
    BY <1>6, <1>13, AddedView DEF View
  <2>2. /\ working.signals[v] \in 1 .. Len(working.sources)
        /\ working.sources[working.signals[v]] = importer[i].naming[Product[v]]
    BY <1>13, <2>1 DEF Reported, Cached
  <2> QED  BY <1>1, <1>4, <1>5, <1>11, <2>1, <2>2
<1>14. Cached(i)'
  BY <1>2, <1>7, <1>10, <1>11, <1>12, <1>13, <1>3 DEF Cached
<1> QED  BY <1>8, <1>9, <1>14 DEF Reported

LEMMA InsertReported ==
    ASSUME ImportTypeOK, LockInv, NEW i \in Importers, InsertReview(i), Reported(i)
    PROVE  Reported(i)'
<1> DEFINE id == importer[i].cache[Key(i)]
           v == Row(i)
<1>1. PICK new :
        /\ importer' = [importer EXCEPT ![i] = new]
        /\ new.pos = importer[i].pos + 1 /\ new.skipped = importer[i].skipped
        /\ new.lost = importer[i].lost /\ new.inserted = importer[i].inserted + 1
        /\ new.file = importer[i].file /\ new.naming = importer[i].naming
        /\ new.pc = "row" /\ new.cache = importer[i].cache
  BY InsertTyped
<1>2. /\ importer'[i] = new /\ UNCHANGED <<tables, wounded>> /\ write_lock' = i
      /\ Busy(i) /\ importer[i].pc = "insert"
      /\ View(i).signals[v] = 0 /\ id <= Len(View(i).sources)
  BY <1>1 DEF InsertReview, ImportTypeOK, Busy, Insertable
<1>3. /\ v \in Reviews /\ Key(i) \in Keys /\ Key(i) = Product[v]
      /\ working'.sources = View(i).sources
      /\ working'.signals = [View(i).signals EXCEPT ![v] = id]
  BY InsertTyped DEF Key
<1>4. /\ id \in Nat /\ id # 0 /\ View(i).signals \in [Reviews -> Nat]
      /\ importer[i].pos \in Nat \ {0} /\ importer[i].lost \in Nat /\ importer[i].inserted \in Nat
      /\ importer[i].skipped \in Nat
  BY <1>2, <1>3, ImportTyped DEF Reported, Cached
<1>5. View(i)' = working' /\ \A w \in Reviews : working'.signals[w] =
                                IF w = v THEN id ELSE View(i).signals[w]
  BY <1>2, <1>3, <1>4 DEF View
<1> HIDE DEF id, v
<1>6. v \notin Added(View(i)) /\ tables.signals[v] = 0
  BY <1>2, <1>3, ViewGrows DEF Added, Grows
<1>7. Added(View(i))' = Added(View(i)) \cup {v} /\ Added(working)' = Added(View(i)) \cup {v}
  BY <1>2, <1>3, <1>4, <1>5, <1>6 DEF Added
<1>8. Cardinality(Added(View(i))') = Cardinality(Added(View(i))) + 1
  BY <1>6, <1>7, AddedView, FS_AddElement
<1>9. Counted(i)'
  BY <1>1, <1>2, <1>4, <1>8, AddedView DEF Reported, Counted, Busy
<1>10. Tailed(i)'
  <2>1. new.lost < new.pos
    BY <1>1, <1>4 DEF Reported, Tailed
  <2>2. ASSUME NEW p \in new.lost + 1 .. new.pos - 1
        PROVE  new.file[p] \in Reviews /\ View(i)'.signals[new.file[p]] # 0
    <3>1. CASE p = importer[i].pos
      BY <1>1, <1>3, <1>4, <1>5, <3>1 DEF v, Row
    <3>2. CASE p # importer[i].pos
      <4>1. p \in importer[i].lost + 1 .. importer[i].pos - 1
        BY <1>1, <1>4, <2>2, <3>2
      <4> QED  BY <1>1, <1>2, <1>4, <1>5, <4>1 DEF Reported, Tailed
    <3> QED  BY <3>1, <3>2
  <2> QED  BY <1>1, <1>2, <2>1, <2>2 DEF Tailed
<1>11. ASSUME ~wounded
       PROVE  /\ id \in 1 .. Len(View(i).sources)
              /\ View(i).sources[id] = importer[i].naming[Product[v]]
  BY <1>2, <1>3, <1>4, <1>11 DEF Reported, Cached, id
<1>12. ASSUME ~wounded, NEW w \in Added(working)'
       PROVE  /\ working'.signals[w] \in 1 .. Len(working'.sources)
              /\ working'.sources[working'.signals[w]] = new.naming[Product[w]]
  <2>1. CASE w = v
    BY <1>1, <1>3, <1>5, <1>11, <1>12, <2>1
  <2>2. CASE w # v
    <3>1. w \in Added(View(i)) /\ w \in Reviews
      BY <1>7, <1>12, <2>2 DEF Added
    <3>2. write_lock = i /\ View(i) = working
      BY <3>1, AddedView DEF View
    <3> QED  BY <1>1, <1>3, <1>5, <1>12, <2>2, <3>1, <3>2 DEF Reported, Cached
  <2> QED  BY <2>1, <2>2
<1>13. Cached(i)'
  BY <1>1, <1>2, <1>3, <1>5, <1>12 DEF Reported, Cached
<1> QED  BY <1>9, <1>10, <1>13 DEF Reported

\* The commit makes the transaction's rows those of everyone.
LEMMA CommitReported ==
    ASSUME ImportTypeOK, LockInv, NEW i \in Importers, ImportCommit(i), Reported(i)
    PROVE  Reported(i)'
<1>1. PICK new :
        /\ importer' = [importer EXCEPT ![i] = new]
        /\ new.pos = importer[i].pos /\ new.skipped = importer[i].skipped
        /\ new.lost = importer[i].lost /\ new.inserted = importer[i].inserted
        /\ new.file = importer[i].file /\ new.naming = importer[i].naming
        /\ new.pc = "done" /\ new.committed = Cardinality(Added(View(i)))
  BY CommitTyped
<1>2. /\ importer'[i] = new /\ tables' = View(i) /\ write_lock' # i /\ UNCHANGED wounded
      /\ Busy(i) /\ ~HasRow(i) /\ importer[i].pc = "row"
  BY <1>1, ImportTyped DEF ImportCommit, ImportTypeOK, Busy
<1>3. View(i)' = View(i)
  BY <1>2 DEF View
<1>4. importer[i].pos > Len(importer[i].file)
  BY <1>2, ImportTyped DEF HasRow
<1>5. Counted(i)'
  BY <1>1, <1>2 DEF Reported, Counted, Busy
<1>6. Tailed(i)'
  BY <1>1, <1>2, <1>3, <1>4 DEF Reported, Tailed
<1>7. Cached(i)'
  BY <1>1, <1>2 DEF Cached, Busy
<1> QED  BY <1>5, <1>6, <1>7 DEF Reported


ImportInv == LockInv /\ \A i \in Importers : Reported(i)

LEMMA ReportedStep ==
    ImportTypeOK /\ ImportTypeOK' /\ ImportInv /\ [ImportNext]_importVars => ImportInv'
<1> SUFFICES ASSUME ImportTypeOK, ImportTypeOK', ImportInv, [ImportNext]_importVars
             PROVE  ImportInv'
  OBVIOUS
<1>a. LockInv /\ LockInv' /\ \A i \in Importers : Reported(i)
  BY LockStep DEF ImportInv
<1>1. ASSUME NEW j \in Importers,
             ImportStep(j) \/ \E file \in Files, naming \in Namings : ImportStart(j, file, naming)
      PROVE  ImportInv'
  <2>1. \A i \in Importers \ {j} : Reported(i)'
    BY <1>a, <1>1, Framed, FrameKeeps
  <2>2. Reported(j)'
    BY <1>a, <1>1, StartReported, SkipReported, FindReported, CreateReported, InsertReported,
       RollbackReported, CommitReported, StopReported
       DEF ImportStep
  <2> QED  BY <1>a, <2>1, <2>2 DEF ImportInv
<1>2. ASSUME \/ SeedStart \/ SeedCheck \/ SeedCommit \/ SeedStops
             \/ \E v \in Reviews : Scraped(v)
             \/ UNCHANGED importVars
      PROVE  ImportInv'
  BY <1>a, <1>2, FramedAlone, FrameKeeps DEF ImportInv
<1> QED  BY <1>1, <1>2 DEF ImportNext

LEMMA ImportInvHolds == ImportSpec => [](ImportTypeOK /\ ImportInv)
<1>1. ImportInit => ImportInv
  <2> SUFFICES ASSUME ImportInit
               PROVE  ImportInv
    OBVIOUS
  <2>1. \A i \in Importers : /\ importer[i] = NoImport /\ ~Busy(i) /\ write_lock # i
                             /\ i # Nobody
    BY ImportAssumption DEF ImportInit, Busy, NoImport
  <2>2. Grows(working, tables)
    <3>1. working = tables /\ tables.sources = <<Scraper>> /\ Len(tables.sources) = 1
      BY DEF ImportInit
    <3> QED  BY <3>1 DEF Grows
  <2>3. \A i \in Importers : Reported(i)
    BY <2>1 DEF Reported, Counted, Tailed, Cached, NoImport
  <2> QED  BY <2>1, <2>2, <2>3 DEF ImportInv, LockInv
<1> QED  BY <1>1, ReportedStep, ImportTypesHold, PTL DEF ImportSpec

\* The report of an import never claims fewer rows than were added, and none more
\* when no row was skipped, whatever the files and however imports overlap.
THEOREM ImportReportHonest == ImportSpec => []ReportHonest
<1>1. ImportInv => ReportHonest
  BY DEF ImportInv, Reported, Counted, ReportHonest
<1> QED  BY <1>1, ImportInvHolds, PTL

\* Each row after the last skipped one is there when an import is done.
THEOREM ImportTail == ImportSpec => []TailImported
<1>1. ImportTypeOK /\ ImportInv => TailImported
  <2> SUFFICES ASSUME ImportTypeOK, ImportInv, NEW i \in Importers, importer[i].pc = "done",
                      NEW p \in importer[i].lost + 1 .. Len(importer[i].file)
               PROVE  tables.signals[importer[i].file[p]] # 0
    BY DEF TailImported
  <2>1. /\ importer[i].pos \in Nat /\ importer[i].lost \in Nat
        /\ Len(importer[i].file) \in Nat
    BY ImportTyped
  <2>2. Reported(i) /\ write_lock # i
    BY DEF ImportInv, LockInv, Busy
  <2>3. p \in importer[i].lost + 1 .. importer[i].pos - 1
    BY <2>1, <2>2 DEF Reported, Tailed
  <2> QED  BY <2>2, <2>3 DEF Reported, Tailed, View
<1> QED  BY <1>1, ImportInvHolds, PTL

\* Reviews are filed under the source their row names until a rollback drops one.
THEOREM ImportRightSource == ImportSpec => []RightSource
<1>1. ImportTypeOK /\ ImportInv => RightSource
  <2>1. ImportTypeOK => DOMAIN working.sources = 1 .. Len(working.sources)
    BY LenProperties DEF ImportTypeOK, Tables
  <2> QED  BY <2>1 DEF ImportInv, Reported, Cached, RightSource
<1> QED  BY <1>1, ImportInvHolds, PTL

---------------------------------------------------------------------------
\* Names of sources.

Injective(seq) == \A a, b \in 1 .. Len(seq) : seq[a] = seq[b] => a = b

\* While no scripts have overlapped: one is under way at most, names are unique in
\* every transaction, and a name that is about to be added is new.
UniqueInv ==
    ~crowd =>
        /\ \A i, j \in Importers : Busy(i) /\ Busy(j) => i = j
        /\ seeder.pc = "check" => \A i \in Importers : ~Busy(i)
        /\ Injective(tables.sources) /\ Injective(working.sources)
        /\ \A i \in Importers : importer[i].pc = "create" =>
              \A id \in 1 .. Len(View(i).sources) : View(i).sources[id] # NameOf(i)
        /\ seeder.pc = "check" =>
              /\ Injective(seeder.missing)
              /\ \A m \in 1 .. Len(seeder.missing) :
                    /\ \E q \in 1 .. seeder.pos - 1 :
                          q \in 1 .. Len(SeedNames) /\ seeder.missing[m] = SeedNames[q]
                    /\ \A id \in 1 .. Len(tables.sources) :
                          tables.sources[id] # seeder.missing[m]

LEMMA InjectiveAppend ==
    ASSUME NEW seq \in Seq(STRING), Injective(seq), NEW name \in STRING,
           \A a \in 1 .. Len(seq) : seq[a] # name
    PROVE  Injective(Append(seq, name))
<1>1. /\ Len(seq) \in Nat /\ Len(Append(seq, name)) = Len(seq) + 1
      /\ \A a \in 1 .. Len(seq) : Append(seq, name)[a] = seq[a]
      /\ Append(seq, name)[Len(seq) + 1] = name
  <2>1. Len(seq) \in Nat
    BY LenProperties
  <2> QED  BY <2>1, AppendProperties
<1>2. \A a \in 1 .. Len(seq) + 1 : a \in 1 .. Len(seq) \/ a = Len(seq) + 1
  BY <1>1
<1> QED  BY <1>1, <1>2 DEF Injective

LEMMA InjectiveConcat ==
    ASSUME NEW seq \in Seq(STRING), Injective(seq), NEW more \in Seq(STRING), Injective(more),
           \A m \in 1 .. Len(more) : \A a \in 1 .. Len(seq) : seq[a] # more[m]
    PROVE  Injective(seq \o more)
<1>1. /\ Len(seq) \in Nat /\ Len(more) \in Nat /\ Len(seq \o more) = Len(seq) + Len(more)
      /\ \A a \in 1 .. Len(seq) : (seq \o more)[a] = seq[a]
      /\ \A m \in 1 .. Len(more) : (seq \o more)[Len(seq) + m] = more[m]
  BY ConcatProperties, LenProperties
<1>2. \A a \in 1 .. Len(seq) + Len(more) :
        a \in 1 .. Len(seq) \/ \E m \in 1 .. Len(more) : a = Len(seq) + m
  <2> SUFFICES ASSUME NEW a \in 1 .. Len(seq) + Len(more), a \notin 1 .. Len(seq)
               PROVE  \E m \in 1 .. Len(more) : a = Len(seq) + m
    OBVIOUS
  <2>1. a - Len(seq) \in 1 .. Len(more) /\ a = Len(seq) + (a - Len(seq))
    BY <1>1
  <2> QED  BY <2>1
<1> SUFFICES ASSUME NEW a \in 1 .. Len(seq) + Len(more), NEW b \in 1 .. Len(seq) + Len(more),
                    (seq \o more)[a] = (seq \o more)[b]
             PROVE  a = b
  BY <1>1 DEF Injective
<1>3. CASE a \in 1 .. Len(seq)
  BY <1>1, <1>2, <1>3 DEF Injective
<1>4. CASE b \in 1 .. Len(seq)
  BY <1>1, <1>2, <1>4 DEF Injective
<1>5. ASSUME NEW m \in 1 .. Len(more), NEW n \in 1 .. Len(more),
             a = Len(seq) + m, b = Len(seq) + n
      PROVE  a = b
  BY <1>1, <1>5 DEF Injective
<1> QED  BY <1>2, <1>3, <1>4, <1>5


\* An import's own step keeps names unique if the tables have unique names after it and
\* what it goes on to create is new.
LEMMA UniqueOwn ==
    ASSUME ImportTypeOK, UniqueInv, ~crowd, NEW i \in Importers, Busy(i), NEW new,
           importer' = [importer EXCEPT ![i] = new], UNCHANGED <<seeder, crowd>>,
           Injective(tables'.sources), Injective(working'.sources),
           new.pc = "create" =>
              \A id \in 1 .. Len(View(i)'.sources) : View(i)'.sources[id] # NameOf(i)'
    PROVE  UniqueInv'
<1>1. importer'[i] = new /\ \A j \in Importers \ {i} : importer'[j] = importer[j]
  BY DEF ImportTypeOK
<1>2. \A j \in Importers \ {i} : ~Busy(j) /\ importer[j].pc # "create"
  BY DEF UniqueInv, Busy
<1>3. seeder.pc # "check"
  BY DEF UniqueInv
<1>4. \A j \in Importers \ {i} : ~Busy(j)' /\ importer'[j].pc # "create"
  BY <1>1, <1>2 DEF Busy
<1> QED  BY <1>1, <1>3, <1>4 DEF UniqueInv

LEMMA UniqueStep ==
    ImportTypeOK /\ ImportTypeOK' /\ LockInv /\ UniqueInv /\ [ImportNext]_importVars => UniqueInv'
<1> SUFFICES ASSUME ImportTypeOK, ImportTypeOK', LockInv, UniqueInv, [ImportNext]_importVars,
                    ~crowd'
             PROVE  UniqueInv'
  BY DEF UniqueInv
<1>a. /\ tables \in Tables /\ tables.sources \in Seq(STRING) /\ importer \in [Importers -> Imports]
      /\ Len(tables.sources) \in Nat
  BY LenProperties DEF ImportTypeOK, Tables
<1>b. ~crowd => /\ Injective(tables.sources) /\ Injective(working.sources)
                /\ \A i \in Importers : Injective(View(i).sources)
  BY DEF UniqueInv, View
<1>1. ASSUME NEW i \in Importers, NEW file \in Files, NEW naming \in Namings,
             ImportStart(i, file, naming)
      PROVE  UniqueInv'
  <2>1. /\ ~crowd /\ Alone /\ UNCHANGED <<tables, working, seeder>>
        /\ importer' = [importer EXCEPT ![i] =
                          [NoImport EXCEPT !.pc = "row", !.file = file, !.naming = naming]]
    BY <1>1 DEF ImportStart, Started
  <2>2. /\ importer'[i].pc = "row" /\ seeder.pc = "idle"
        /\ \A j \in Importers \ {i} : importer'[j] = importer[j] /\ ~Busy(j)
    BY <1>a, <2>1 DEF Alone, NoImport
  <2>3. \A j \in Importers : (Busy(j)' => j = i) /\ importer'[j].pc # "create"
    BY <2>2 DEF Busy
  <2> QED  BY <1>b, <2>1, <2>2, <2>3 DEF UniqueInv
<1>2. ASSUME NEW i \in Importers, SkipInvalid(i) \/ RollbackReview(i)
      PROVE  UniqueInv'
  <2>1. PICK new : SkipRow(i) = [importer EXCEPT ![i] = new] /\ new.pc = "row"
    BY SkipTyped
  <2>2. /\ importer' = [importer EXCEPT ![i] = new] /\ UNCHANGED <<tables, seeder, crowd>>
        /\ working' = working \/ working' = tables
        /\ Busy(i)
    BY <1>2, <2>1 DEF SkipInvalid, RollbackReview, HasRow, Busy
  <2>3. ~crowd
    BY <2>2
  <2> QED  BY <1>b, <2>1, <2>2, <2>3, UniqueOwn
<1>3. ASSUME NEW i \in Importers, FindSource(i)
      PROVE  UniqueInv'
  <2>1. PICK new :
          /\ importer' = [importer EXCEPT ![i] = new] /\ new.pos = importer[i].pos
          /\ new.file = importer[i].file /\ new.naming = importer[i].naming
          /\ new.pc = "create" => Matches(i) = {}
    BY <1>3, FindTyped
  <2>2. /\ UNCHANGED <<tables, working, write_lock, seeder, crowd>> /\ Busy(i)
        /\ importer'[i] = new
    BY <1>a, <1>3, <2>1 DEF FindSource, HasRow, Busy
  <2>3. View(i)' = View(i) /\ NameOf(i)' = NameOf(i) /\ ~crowd
    BY <2>1, <2>2 DEF View, NameOf, Key, Row
  <2>4. new.pc = "create" =>
          \A id \in 1 .. Len(View(i)'.sources) : View(i)'.sources[id] # NameOf(i)'
    BY <2>1, <2>3, ImportTyped DEF Matches
  <2> QED  BY <1>b, <2>1, <2>2, <2>3, <2>4, UniqueOwn
<1>4. ASSUME NEW i \in Importers, CreateSource(i)
      PROVE  UniqueInv'
  <2>1. PICK new : importer' = [importer EXCEPT ![i] = new] /\ new.pc = "insert"
    BY <1>4, CreateTyped
  <2>2. /\ working' = [View(i) EXCEPT !.sources = Append(@, NameOf(i))] /\ Busy(i)
        /\ UNCHANGED <<tables, seeder, crowd>> /\ importer[i].pc = "create"
    BY <1>4, Zenon DEF CreateSource, Busy
  <2>3. NameOf(i) \in STRING /\ View(i) \in Tables /\ View(i).sources \in Seq(STRING) /\ ~crowd
    BY <2>2, RowTyped, ImportTyped DEF ImportTypeOK
  <2>4. working'.sources = Append(View(i).sources, NameOf(i))
    BY <2>2, <2>3 DEF Tables
  <2>5. \A id \in 1 .. Len(View(i).sources) : View(i).sources[id] # NameOf(i)
    BY <2>2, <2>3 DEF UniqueInv
  <2>6. Injective(working'.sources)
    BY <1>b, <2>3, <2>4, <2>5, InjectiveAppend
  <2> QED  BY <1>b, <2>1, <2>2, <2>3, <2>6, UniqueOwn
<1>5. ASSUME NEW i \in Importers, InsertReview(i)
      PROVE  UniqueInv'
  <2>1. PICK new : importer' = [importer EXCEPT ![i] = new] /\ new.pc = "row"
    BY <1>5, InsertTyped
  <2>2. /\ working'.sources = View(i).sources /\ Busy(i) /\ UNCHANGED <<tables, seeder, crowd>>
    BY <1>5, InsertTyped DEF InsertReview, Busy
  <2> QED  BY <1>b, <2>1, <2>2, UniqueOwn
<1>6. ASSUME NEW i \in Importers, ImportCommit(i)
      PROVE  UniqueInv'
  <2>1. PICK new : importer' = [importer EXCEPT ![i] = new] /\ new.pc = "done"
    BY <1>6, CommitTyped
  <2>2. /\ tables' = View(i) /\ Busy(i) /\ UNCHANGED <<working, seeder, crowd>>
    BY <1>6 DEF ImportCommit, Busy
  <2> QED  BY <1>b, <2>1, <2>2, UniqueOwn
<1>7. ASSUME NEW i \in Importers, ImportStops(i)
      PROVE  UniqueInv'
  <2>1. /\ importer' = [importer EXCEPT ![i] = NoImport] /\ NoImport.pc = "idle" /\ Busy(i)
        /\ UNCHANGED <<tables, seeder, crowd>> /\ (working' = working \/ working' = tables)
    BY <1>7 DEF ImportStops, NoImport
  <2> QED  BY <1>b, <2>1, UniqueOwn
<1>8. CASE SeedStart
  <2>1. /\ ~crowd /\ Alone /\ UNCHANGED <<tables, working, importer, write_lock>>
        /\ seeder' = [pc |-> "check", pos |-> 1, missing |-> <<>>]
    BY <1>8 DEF SeedStart, Started
  <2>2. Injective(seeder'.missing) /\ Len(seeder'.missing) = 0
    BY <2>1 DEF Injective
  <2>3. \A i \in Importers : ~Busy(i)' /\ importer'[i].pc # "create"
    BY <2>1 DEF Alone, Busy
  <2> QED  BY <1>b, <2>1, <2>2, <2>3 DEF UniqueInv
<1>9. CASE SeedStops
  <2>1. /\ seeder'.pc = "idle" /\ UNCHANGED <<tables, working, write_lock, importer, crowd>>
        /\ ~crowd
    BY <1>9 DEF SeedStops
  <2> QED  BY <2>1 DEF UniqueInv, Busy, View, NameOf, Key, Row
<1>10. ASSUME NEW v \in Reviews, Scraped(v)
       PROVE  UniqueInv'
  <2>1. /\ tables' = [tables EXCEPT !.signals[v] = 1] /\ working' = tables' /\ ~crowd
        /\ UNCHANGED <<write_lock, importer, seeder, crowd>> /\ write_lock = Nobody
    BY <1>10 DEF Scraped
  <2>2. tables'.sources = tables.sources /\ working'.sources = tables.sources
    BY <1>a, <2>1 DEF Tables
  <2>3. \A i \in Importers : View(i).sources = tables.sources /\ View(i)'.sources = tables.sources
    BY <2>1, <2>2 DEF View, ImportTypeOK
  <2> QED  BY <1>b, <2>1, <2>2, <2>3 DEF UniqueInv, Busy, NameOf, Key, Row
<1>11. CASE UNCHANGED importVars
  BY <1>11 DEF importVars, UniqueInv, Busy, View, NameOf, Key, Row
<1>12. CASE SeedCheck
  <2> DEFINE name == SeedNames[seeder.pos]
             known == \E id \in DOMAIN tables.sources : tables.sources[id] = name
  <2>1. /\ UNCHANGED <<tables, working, write_lock, importer, crowd>> /\ ~crowd
        /\ seeder.pc = "check" /\ seeder.pos <= Len(SeedNames)
        /\ seeder' = [seeder EXCEPT !.pos = @ + 1,
                                    !.missing = IF known THEN @ ELSE Append(@, name)]
    BY <1>12 DEF SeedCheck
  <2>2. /\ seeder.pos \in Nat \ {0} /\ seeder.missing \in Seq(STRING) /\ Len(SeedNames) \in Nat
        /\ Len(seeder.missing) \in Nat /\ SeedNames \in Seq(STRING)
        /\ seeder \in [pc : {"idle", "check"}, pos : Nat \ {0}, missing : Seq(STRING)]
    BY LenProperties, ImportAssumption DEF ImportTypeOK
  <2>3. name \in STRING /\ seeder.pos \in 1 .. Len(SeedNames)
    BY <2>1, <2>2, ElementOfSeq
  <2>4. /\ seeder'.pc = "check" /\ seeder'.pos = seeder.pos + 1
        /\ seeder'.missing = IF known THEN seeder.missing ELSE Append(seeder.missing, name)
    BY <2>1, <2>2
  <2>5. /\ \A i \in Importers : ~Busy(i)' /\ importer'[i].pc # "create"
        /\ Injective(tables'.sources) /\ Injective(working'.sources)
    BY <1>b, <2>1 DEF UniqueInv, Busy
  <2>6. /\ Injective(seeder.missing)
        /\ \A m \in 1 .. Len(seeder.missing) :
              /\ \E q \in 1 .. seeder.pos - 1 :
                    q \in 1 .. Len(SeedNames) /\ seeder.missing[m] = SeedNames[q]
              /\ \A id \in 1 .. Len(tables.sources) : tables.sources[id] # seeder.missing[m]
    BY <2>1 DEF UniqueInv
  <2>7. \A q \in 1 .. seeder.pos - 1 : q \in 1 .. seeder.pos /\ q # seeder.pos
    BY <2>2
  <2>8. \A m \in 1 .. Len(seeder.missing) : seeder.missing[m] # name
    BY <2>3, <2>6, <2>7, ImportAssumption
  <2>9. known = \E id \in 1 .. Len(tables.sources) : tables.sources[id] = name
    BY <1>a, LenProperties
  <2> HIDE DEF name, known
  <2>10. CASE known
    <3>1. \A m \in 1 .. Len(seeder'.missing) :
              /\ \E q \in 1 .. seeder'.pos - 1 :
                    q \in 1 .. Len(SeedNames) /\ seeder'.missing[m] = SeedNames[q]
              /\ \A id \in 1 .. Len(tables'.sources) : tables'.sources[id] # seeder'.missing[m]
      BY <2>1, <2>2, <2>4, <2>6, <2>7, <2>10
    <3> QED  BY <2>4, <2>5, <2>6, <2>10, <3>1 DEF UniqueInv
  <2>11. CASE ~known
    <3>1. Injective(seeder'.missing)
      BY <2>2, <2>3, <2>4, <2>6, <2>8, <2>11, InjectiveAppend
    <3>2. /\ Len(seeder'.missing) = Len(seeder.missing) + 1
          /\ \A m \in 1 .. Len(seeder.missing) : seeder'.missing[m] = seeder.missing[m]
          /\ seeder'.missing[Len(seeder.missing) + 1] = name
      BY <2>2, <2>3, <2>4, <2>11, AppendProperties
    <3>3. ASSUME NEW m \in 1 .. Len(seeder'.missing)
          PROVE  /\ \E q \in 1 .. seeder'.pos - 1 :
                       q \in 1 .. Len(SeedNames) /\ seeder'.missing[m] = SeedNames[q]
                 /\ \A id \in 1 .. Len(tables'.sources) : tables'.sources[id] # seeder'.missing[m]
      <4>1. CASE m \in 1 .. Len(seeder.missing)
        BY <2>1, <2>2, <2>4, <2>6, <2>7, <3>2, <4>1
      <4>2. CASE m = Len(seeder.missing) + 1
        <5>1. seeder.pos \in 1 .. seeder'.pos - 1
          BY <2>2, <2>4
        <5>2. seeder'.missing[m] = SeedNames[seeder.pos] /\ seeder'.missing[m] = name
          BY <3>2, <4>2 DEF name
        <5>3. \A id \in 1 .. Len(tables'.sources) : tables'.sources[id] # name
          BY <2>1, <2>9, <2>11
        <5> QED  BY <2>3, <5>1, <5>2, <5>3
      <4>3. m \in 1 .. Len(seeder.missing) \/ m = Len(seeder.missing) + 1
        BY <2>2, <3>2, <3>3
      <4> QED  BY <4>1, <4>2, <4>3
    <3> QED  BY <2>4, <2>5, <3>1, <3>3 DEF UniqueInv
  <2> QED  BY <2>10, <2>11
<1>13. CASE SeedCommit
  <2>1. /\ tables' = [tables EXCEPT !.sources = @ \o seeder.missing] /\ working' = tables'
        /\ seeder'.pc = "idle" /\ ~crowd /\ seeder.pc = "check"
        /\ UNCHANGED <<importer, crowd, write_lock>> /\ seeder.missing \in Seq(STRING)
    BY <1>13 DEF SeedCommit, ImportTypeOK
  <2>2. tables'.sources = tables.sources \o seeder.missing
    BY <1>a, <2>1 DEF Tables
  <2>3. Injective(tables'.sources)
    BY <1>a, <1>b, <2>1, <2>2, InjectiveConcat DEF UniqueInv
  <2>4. \A i \in Importers : ~Busy(i)' /\ importer'[i].pc # "create"
    BY <2>1 DEF UniqueInv, Busy
  <2> QED  BY <2>1, <2>3, <2>4 DEF UniqueInv
<1> QED
  BY <1>1, <1>2, <1>3, <1>4, <1>5, <1>6, <1>7, <1>8, <1>9, <1>10, <1>11, <1>12, <1>13
     DEF ImportNext, ImportStep

\* Looking up and then creating never makes a second source of a name, unless two
\* scripts overlap.
THEOREM SourceNamesUnique == ImportSpec => []NamesUnique
<1>1. ImportInit => UniqueInv
  <2> SUFFICES ASSUME ImportInit
               PROVE  UniqueInv
    OBVIOUS
  <2>1. /\ \A i \in Importers : ~Busy(i) /\ importer[i].pc # "create"
        /\ seeder.pc = "idle" /\ Len(tables.sources) = 1 /\ working = tables
    BY DEF ImportInit, Busy, NoImport
  <2>2. Injective(tables.sources)
    BY <2>1 DEF Injective
  <2> QED  BY <2>1, <2>2 DEF UniqueInv
<1>2. ImportTypeOK /\ UniqueInv => NamesUnique
  <2>1. ImportTypeOK => DOMAIN tables.sources = 1 .. Len(tables.sources)
    BY LenProperties DEF ImportTypeOK, Tables
  <2> QED  BY <2>1 DEF UniqueInv, Injective, NamesUnique
<1>3. ImportInv => LockInv
  BY DEF ImportInv
<1> QED  BY <1>1, <1>2, <1>3, UniqueStep, ImportInvHolds, PTL DEF ImportSpec


---------------------------------------------------------------------------
(* Periphery                                                               *)

\* A behaviour of the whole is one of each part.
LEMMA PartsOf == PeripherySpec => FeedSpec /\ BackfillSpec /\ ImportSpec
<1>1. PeripheryInit => FeedInit /\ BackfillInit /\ ImportInit
  BY DEF PeripheryInit
<1>2. [PeripheryNext]_peripheryVars =>
        [FeedNext]_feedVars /\ [BackfillNext]_backfillVars /\ [ImportNext]_importVars
  BY DEF PeripheryNext, peripheryVars
<1> QED  BY <1>1, <1>2, PTL DEF PeripherySpec, FeedSpec, BackfillSpec, ImportSpec

\* The variables keep their types, for every value of the constants.
THEOREM PeripheryTypes == PeripherySpec => []PeripheryTypeOK
<1>1. FeedInit => FeedInv
  BY FeedAssumption, EmptySeq DEF FeedInit, FeedInv, FeedTypeOK
<1>2. FeedInv /\ BackfillTypeOK /\ ImportTypeOK => PeripheryTypeOK
  BY DEF FeedInv, PeripheryTypeOK
<1> QED
  BY <1>1, <1>2, FeedStep, PartsOf, BackfillTyped, ImportTypesHold, PTL DEF FeedSpec

\* The parts share no variable, so what is proved of each holds of their sum, which
\* is the specification that TLC runs.
THEOREM PeripherySafe ==
    PeripherySpec =>
        /\ []CapturedInTime
        /\ []RowPerCall /\ []BillRecorded
        /\ []OldestFirst /\ []OwnSpendBounded /\ AloneNeverAsksTwice /\ RunsShorten
        /\ []ReportHonest /\ []TailImported /\ []RightSource /\ []NamesUnique
BY PartsOf, PostsCapturedInTime, CallsLogged, BillIsRecorded, BackfillOldestFirst,
   BackfillWithinBudget, BackfillIdempotent, BackfillShortens,
   ImportReportHonest, ImportTail, ImportRightSource, SourceNamesUnique, PTL
=============================================================================
