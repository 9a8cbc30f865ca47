-------------------------------- MODULE Feed --------------------------------
(***************************************************************************)
(* What the adapters under sourcing/ see of a site: a listing of which     *)
(* each adapter reads the first page (review sites: up to max_pages) when  *)
(* its job's slot comes up.  hn and producthunt also ask for posts of a    *)
(* time window only, and take only posts with enough points or votes at    *)
(* that time.  A post that is not read while it is on those pages and in   *)
(* the window is not captured: nothing remembers how far the last fetch    *)
(* got.                                                                    *)
(*                                                                         *)
(* The sites are outside of src/.  New posts and votes come at any time,   *)
(* and the order of a listing is the site's: only hn (search_by_date) and  *)
(* a reddit listing of fetch_kind "new" are asked for by date, and there   *)
(* too a post moves up when one before it is taken down.                   *)
(***************************************************************************)
EXTENDS Integers, Sequences

CONSTANTS
    Kinds,      \* the source kinds checked
    Interval,   \* per kind: time between the slots of its ingest job
    Window,     \* per kind: how far back the request asks
    PageSize,   \* per kind: posts of one page
    MaxPages,   \* per kind: pages that a fetch reads at most
    Grace,      \* misfire_grace_time, and the time a batch takes
    MaxPosts,   \* bound, per kind: posts published
    MaxTime     \* bound: the clock

Windowed == {"hn", "producthunt"}
Scored == {"hn", "producthunt"}

ASSUME FeedAssumption ==
    /\ Kinds \subseteq {"hn", "producthunt", "reddit", "indiehackers", "review_sites"}
    /\ Interval \in [Kinds -> Nat \ {0}]
    /\ Window \in [Kinds -> Nat]
    /\ PageSize \in [Kinds -> Nat \ {0}]
    /\ MaxPages \in [Kinds -> Nat \ {0}]
    /\ \A k \in Kinds \ {"review_sites"} : MaxPages[k] = 1
    /\ Grace \in Nat
    /\ MaxPosts \in [Kinds -> Nat] /\ MaxTime \in Nat

VARIABLES
    kind,    \* the source's kind
    now,     \* the clock
    posts,   \* the posts in the order of their publication, each with its place
             \* in the listing
    slot,    \* when the next slot of the job is due
    whole    \* history: the last slot whose fetch read all that its pages showed

feedVars == <<kind, now, posts, slot, whole>>

Never == MaxTime + 1

\* qualified and shown: since when it is, Never while it is not.
Posts == [born : Nat, qualified : Nat, place : Nat, shown : Nat, captured : BOOLEAN]

FeedInit ==
    /\ kind \in Kinds
    /\ now = 0
    /\ posts = <<>>
    /\ slot = Interval[kind]
    /\ whole = 0

-----------------------------------------------------------------------------
\* The pages a request shows are filled before any threshold is applied.
OnPages(p, pages) == posts[p].place < PageSize[kind] * pages

\* numericFilters of hn, featuredAfter of producthunt.
InWindow(p) == kind \in Windowed => now < posts[p].born + Window[kind]

\* _hit_passes_threshold, min_votes_count; the other kinds take every post, and a
\* review site is asked for the configured ratings only.
Qualified(p) == posts[p].qualified <= now

Readable(p, pages) == OnPages(p, pages) /\ InWindow(p) /\ Qualified(p)

\* Mutant: only what is new since the last fetch is taken.
AfterFetchNew(pages) ==
    [p \in DOMAIN posts |->
        [posts[p] EXCEPT !.captured = @ \/ (Readable(p, pages) /\ posts[p].born >= whole)]]

\* Each post read is inserted, or is there already by its content hash.
AfterFetch(pages) ==
    [p \in DOMAIN posts |-> [posts[p] EXCEPT !.captured = @ \/ Readable(p, pages)]]

\* A place that a fetch reaches if nothing goes wrong.
Reached(place) == place < PageSize[kind] * MaxPages[kind]

\* A post is given another place.
Moved(post, place) ==
    [post EXCEPT !.place = place,
                 !.shown = CASE ~Reached(place) -> Never
                             [] Reached(place) /\ Reached(post.place) -> post.shown
                             [] OTHER -> now]

\* The posts from the place k up to, not including, the place n make room at k.
MakeRoom(k, n) ==
    [p \in DOMAIN posts |->
        IF posts[p].place \in k .. n - 1 THEN Moved(posts[p], posts[p].place + 1)
        ELSE posts[p]]

Publish ==
    /\ Len(posts) < MaxPosts[kind]
    /\ \E k \in 0 .. Len(posts) :
         posts' = Append(MakeRoom(k, Len(posts)),
                         [born |-> now, captured |-> FALSE, place |-> k,
                          qualified |-> IF kind \in Scored THEN Never ELSE now,
                          shown |-> IF Reached(k) THEN now ELSE Never])
    /\ UNCHANGED <<kind, now, slot, whole>>

\* The site moves a post up, by its votes or because those before it are taken down
\* or have left the window; from such moves comes every order.
Climb(p) ==
    /\ \E k \in 0 .. posts[p].place - 1 :
         posts' = [MakeRoom(k, posts[p].place) EXCEPT ![p] = Moved(posts[p], k)]
    /\ UNCHANGED <<kind, now, slot, whole>>

\* The votes of a post reach the threshold.
Upvote(p) ==
    /\ ~Qualified(p)
    /\ posts' = [posts EXCEPT ![p].qualified = now]
    /\ UNCHANGED <<kind, now, slot, whole>>

\* Votes are taken back, and the post is below the threshold again.
Downvote(p) ==
    /\ kind \in Scored /\ Qualified(p)
    /\ posts' = [posts EXCEPT ![p].qualified = Never]
    /\ UNCHANGED <<kind, now, slot, whole>>

\* A slot that is due is run, or given up, within Grace.
Pass ==
    /\ now < MaxTime
    /\ now < slot + Grace
    /\ now' = now + 1
    /\ UNCHANGED <<kind, posts, slot, whole>>

Due == now >= slot

\* One slot of the job is over; the slots stay on their grid, however late one ran.
Take(pages, all) ==
    /\ Due
    /\ posts' = AfterFetch(pages)
    /\ whole' = IF all THEN slot ELSE whole
    /\ slot' = slot + Interval[kind]
    /\ UNCHANGED <<kind, now>>

IngestHN == kind = "hn" /\ Take(1, TRUE)

IngestProductHunt == kind = "producthunt" /\ Take(1, TRUE)

IngestReddit == kind = "reddit" /\ Take(1, TRUE)

\* The forms of a group page that the parsers know, and which of them it has.
PageShapes == SUBSET {"next_data", "cards"}

ParsePosts(shape) == shape # {}

\* A page of neither form is a parse_error: no posts, and the slot is a success.
IngestIndieHackers ==
    /\ kind = "indiehackers"
    /\ \E shape \in PageShapes :
          Take(IF ParsePosts(shape) THEN 1 ELSE 0, ParsePosts(shape))

\* fetch_reviews after `read` pages with cards: the pages are over ("all"), the next
\* one has no card ("empty": the reviews are over, or it is a 429's page), or its
\* request fails or shows a block, and then the pages before it are dropped.
PagesRead(end, read) ==
    CASE end = "all"    -> MaxPages[kind]
      [] end = "empty"  -> read
      [] end = "error"  -> 0

ReadsAll(end, read) ==
    \/ end = "all"
    \/ end = "empty" /\ Len(posts) <= PageSize[kind] * read

IngestReviews ==
    /\ kind = "review_sites"
    /\ \E end \in {"all", "empty", "error"}, read \in 0 .. MaxPages[kind] - 1 :
          Take(PagesRead(end, read), ReadsAll(end, read))

\* Nothing is read: the slot misfired, the scheduler was paused or down, the retries
\* were used up, the status was terminal or the token missing.
Missed == Take(0, FALSE)

FeedNext ==
    \/ Publish
    \/ \E p \in DOMAIN posts : Climb(p) \/ Upvote(p) \/ Downvote(p)
    \/ Pass
    \/ IngestHN \/ IngestProductHunt \/ IngestReddit \/ IngestIndieHackers \/ IngestReviews
    \/ Missed

FeedSpec == FeedInit /\ [][FeedNext]_feedVars

-----------------------------------------------------------------------------
FeedTypeOK ==
    /\ kind \in Kinds
    /\ now \in Nat /\ slot \in Nat /\ whole \in Nat
    /\ posts \in Seq(Posts)

\* It is on the pages, and has the votes, since then.
ReadableSince(p) ==
    IF posts[p].shown <= posts[p].qualified THEN posts[p].qualified ELSE posts[p].shown

\* A post that could be read, and is not captured, became so after the last slot that
\* was read whole: from when it has its votes and its place on the pages, it waits for
\* its row at most from that slot to the next one due, and Grace.  So late votes, a late
\* climb in the ranking, delayed runs and posts of another slot's page are no reason to
\* miss one; only leaving the pages or the window, and slots not read whole, are (the
\* ingest functions; the job's interval, jobs.py).
CapturedInTime ==
    \A p \in DOMAIN posts :
        Readable(p, MaxPages[kind]) /\ ~posts[p].captured
            => now <= ReadableSince(p) + (slot - whole) + Grace
=============================================================================
