-------------------------- MODULE RateLimitProofs --------------------------
(***************************************************************************)
(* The bounds of RateLimit for every rate, burst, number of threads and    *)
(* stopwatch.  Invariant: what was granted since the stopwatch started and *)
(* what is left in the bucket came from the burst and the refills since.   *)
(***************************************************************************)
EXTENDS RateLimit, FiniteSetTheorems, TLAPS

\* A refill only multiplies the rate by a stretch of time.
LEMMA RefillIsNat ==
    ASSUME NEW d \in Nat
    PROVE  Rate * d \in Nat
BY RateLimitAssumption

\* A longer stretch of time refills at least as much.
LEMMA RefillGrows ==
    ASSUME NEW a \in Nat, NEW b \in Nat, a <= b
    PROVE  Rate * a <= Rate * b
<1>1. Rate * (b - a) \in Nat
  BY RefillIsNat
<1> QED  BY <1>1, RateLimitAssumption

\* The capacity of a bucket is a number of units, at least one token.
LEMMA CapacityIsNat == Capacity \in Nat /\ Capacity >= Unit
<1>1. Burst * Unit \in Nat  BY RateLimitAssumption
<1>2. (Burst - 1) * Unit \in Nat  BY RateLimitAssumption
<1> QED  BY <1>1, <1>2, RateLimitAssumption DEF Capacity

\* A refill leaves the bucket between what it held and its capacity.
LEMMA RefilledBounds ==
    ASSUME TypeOK
    PROVE  /\ Refilled \in 0 .. Capacity
           /\ Refilled <= tokens + Rate * (clock - last_refill)
<1>1. Rate * (clock - last_refill) \in Nat
  BY RefillIsNat DEF TypeOK
<1> QED  BY <1>1, CapacityIsNat DEF TypeOK, Refilled

\* What a thread sleeps is a number of ticks.
LEMMA WaitIsNat ==
    ASSUME NEW deficit \in Nat
    PROVE  Wait(deficit) \in Nat
BY RateLimitAssumption DEF Wait

\* The threads that hold a token are finitely many.
LEMMA HoldingIsFinite == IsFiniteSet(Holding) /\ Cardinality(Holding) \in Nat
BY RateLimitAssumption, FS_Subset, FS_CardinalityType DEF Holding

---------------------------------------------------------------------------
(* Types                                                                   *)

\* The initial state is typed.
LEMMA InitTypeOK == Init => TypeOK
BY CapacityIsNat, RateLimitAssumption DEF Init, TypeOK, Calls, NoCall

\* Every step keeps the types.
LEMMA NextTypeOK == TypeOK /\ [Next]_vars => TypeOK'
<1> SUFFICES ASSUME TypeOK, [Next]_vars
             PROVE  TypeOK'
  OBVIOUS
<1> USE RateLimitAssumption, CapacityIsNat DEF TypeOK, Calls
<1>1. ASSUME NEW t \in Threads, BeginCall(t)
      PROVE  TypeOK'
  BY <1>1 DEF BeginCall, bucket, Capacity
<1>2. ASSUME NEW t \in Threads, Acquire(t)
      PROVE  TypeOK'
  <2>1. Refilled \in 0 .. Capacity
    BY RefilledBounds
  <2>2. CASE Refilled >= Unit
    <3>1. tokens' = Refilled - Unit /\ granted' = granted + 1
          /\ call' = [call EXCEPT ![t].pc = "send"]
      BY <1>2, <2>1, <2>2 DEF Acquire
    <3> QED  BY <1>2, <2>1, <2>2, <3>1 DEF Acquire, Capacity
  <2>3. CASE Refilled < Unit
    <3>1. Wait(Unit - Refilled) \in Nat
      BY <2>1, <2>3, WaitIsNat
    <3>2. tokens' = Refilled /\ granted' = granted
          /\ call' = [call EXCEPT ![t].wake = clock + Wait(Unit - Refilled)]
      BY <1>2, <2>1, <2>3 DEF Acquire
    <3> QED  BY <1>2, <2>1, <3>1, <3>2 DEF Acquire, Capacity
  <2> QED  BY <2>1, <2>2, <2>3
<1>3. ASSUME NEW t \in Threads, RequestEndsCall(t)
      PROVE  TypeOK'
  BY <1>3 DEF RequestEndsCall, NoCall, bucket, Capacity
<1>4. ASSUME NEW t \in Threads, RequestTransient(t)
      PROVE  TypeOK'
  BY <1>4 DEF RequestTransient, NoCall, bucket, Capacity
<1>5. CASE Tick
  BY <1>5 DEF Tick, bucket, Capacity
<1>6. CASE StartStopwatch
  BY <1>6, HoldingIsFinite DEF StartStopwatch, Reading, bucket, Capacity
<1>7. CASE UNCHANGED vars
  BY <1>7 DEF vars, Capacity
<1> QED
  BY <1>1, <1>2, <1>3, <1>4, <1>5, <1>6, <1>7 DEF Next

\* The bucket never holds more than its burst nor less than nothing, whatever the rate.
THEOREM TypeCorrect == Spec => []TypeOK
<1> QED  BY InitTypeOK, NextTypeOK, PTL DEF Spec

---------------------------------------------------------------------------
(* The bound on grants                                                     *)

\* Nothing is granted between a refill and a stopwatch started after it; from then on
\* grants and what is left are paid for by the burst and the refills.
GrantsArePaid ==
    \/ granted = stopwatch.granted /\ last_refill < stopwatch.time
    \/ /\ last_refill >= stopwatch.time
       /\ (granted - stopwatch.granted) * Unit + tokens
            <= Capacity + Rate * (last_refill - stopwatch.time)

\* What is paid for is within the bound.
LEMMA PaidIsWithinRate == TypeOK /\ GrantsArePaid => GrantsWithinRate
<1> SUFFICES ASSUME TypeOK, GrantsArePaid
             PROVE  GrantsWithinRate
  OBVIOUS
<1> DEFINE since == last_refill - stopwatch.time
<1>1. Elapsed \in Nat /\ Rate * Elapsed \in Nat
  BY RefillIsNat DEF TypeOK, Elapsed
<1>2. CASE granted = stopwatch.granted
  BY <1>1, <1>2, CapacityIsNat, RateLimitAssumption DEF TypeOK, GrantsWithinRate
<1>3. CASE /\ last_refill >= stopwatch.time
           /\ (granted - stopwatch.granted) * Unit + tokens <= Capacity + Rate * since
  <2>1. Rate * since <= Rate * Elapsed
    BY <1>3, RefillGrows DEF TypeOK, Elapsed
  <2>2. since \in Nat /\ Rate * since \in Nat
    BY <1>3, RefillIsNat DEF TypeOK
  <2>3. (granted - stopwatch.granted) * Unit \in Int
    BY RateLimitAssumption DEF TypeOK
  <2> QED  BY <1>1, <1>3, <2>1, <2>2, <2>3, CapacityIsNat DEF TypeOK, GrantsWithinRate
<1> QED  BY <1>2, <1>3 DEF GrantsArePaid

\* A turn of acquire pays for its grant with what it refills.
LEMMA AcquirePays ==
    ASSUME TypeOK, GrantsArePaid, NEW t \in Threads, Acquire(t)
    PROVE  GrantsArePaid'
<1> DEFINE out == granted - stopwatch.granted
           before == last_refill - stopwatch.time
           gap == clock - last_refill
           after == clock - stopwatch.time
<1>1. /\ UNCHANGED <<clock, stopwatch>>
      /\ last_refill' = clock
      /\ \/ tokens' = Refilled - Unit /\ granted' = granted + 1
         \/ tokens' = Refilled /\ granted' = granted
  BY DEF Acquire
<1>2. /\ clock \in Nat /\ tokens \in Nat /\ granted \in Nat /\ last_refill \in Nat
      /\ stopwatch.time \in Nat /\ stopwatch.time <= clock /\ stopwatch.granted \in Nat
      /\ gap \in Nat /\ after \in Nat /\ out \in Int /\ out * Unit \in Int
  BY RateLimitAssumption DEF TypeOK
<1>3. /\ Refilled \in 0 .. Capacity
      /\ Refilled <= tokens + Rate * gap
  BY RefilledBounds
<1>4. Rate * gap \in Nat /\ Rate * after \in Nat
  BY <1>2, RefillIsNat
<1>5. out * Unit + Refilled <= Capacity + Rate * after
  <2>1. CASE granted = stopwatch.granted
    <3>1. out * Unit = 0
      BY <1>2, <2>1, RateLimitAssumption
    <3> QED  BY <1>3, <1>4, <3>1, CapacityIsNat
  <2>2. CASE /\ last_refill >= stopwatch.time
             /\ out * Unit + tokens <= Capacity + Rate * before
    <3>1. before \in Nat /\ Rate * before \in Nat
      BY <1>2, <2>2, RefillIsNat
    <3>2. Rate * after = Rate * before + Rate * gap
      BY <1>2, RateLimitAssumption
    <3> QED  BY <1>2, <1>3, <1>4, <2>2, <3>1, <3>2, CapacityIsNat
  <2> QED  BY <2>1, <2>2 DEF GrantsArePaid
<1>6. (out + 1) * Unit = out * Unit + Unit
  BY <1>2, RateLimitAssumption
<1>7. granted + 1 - stopwatch.granted = out + 1
  BY <1>2
<1>8. Capacity' = Capacity
  BY DEF Capacity
<1>9. (granted - stopwatch.granted)' * Unit + tokens' <= Capacity + Rate * after
  <2>1. CASE tokens' = Refilled - Unit /\ granted' = granted + 1
    BY <1>1, <1>2, <1>3, <1>4, <1>5, <1>6, <1>7, <2>1, RateLimitAssumption
  <2>2. CASE tokens' = Refilled /\ granted' = granted
    BY <1>1, <1>5, <2>2
  <2> QED  BY <1>1, <2>1, <2>2
<1> QED  BY <1>1, <1>2, <1>8, <1>9 DEF GrantsArePaid

\* Every step keeps grants paid for.
LEMMA NextPays == TypeOK /\ GrantsArePaid /\ [Next]_vars => GrantsArePaid'
<1> SUFFICES ASSUME TypeOK, GrantsArePaid, [Next]_vars
             PROVE  GrantsArePaid'
  OBVIOUS
<1>1. CASE UNCHANGED <<bucket, granted, stopwatch>>
  BY <1>1 DEF GrantsArePaid, bucket, Capacity
<1>2. ASSUME NEW t \in Threads, Acquire(t)
      PROVE  GrantsArePaid'
  BY <1>2, AcquirePays
<1>3. CASE StartStopwatch
  <2>1. /\ stopwatch' = Reading
        /\ UNCHANGED <<clock, tokens, last_refill, granted>>
    BY <1>3 DEF StartStopwatch, bucket
  <2>2. stopwatch'.time = clock /\ stopwatch'.granted = granted
    BY <2>1 DEF Reading
  <2> QED
    BY <2>1, <2>2, CapacityIsNat, RateLimitAssumption DEF GrantsArePaid, TypeOK, Capacity
<1> QED
  BY <1>1, <1>2, <1>3
  DEF Next, BeginCall, RequestEndsCall, RequestTransient, Tick, vars, bucket

\* In any interval the bucket hands out at most its burst and what the elapsed time refills.
THEOREM GrantsBounded == Spec => []GrantsWithinRate
<1>1. Init => GrantsArePaid
  BY CapacityIsNat, RateLimitAssumption DEF Init, GrantsArePaid
<1> QED
  BY <1>1, InitTypeOK, NextTypeOK, NextPays, PaidIsWithinRate, PTL DEF Spec

---------------------------------------------------------------------------
(* The bound on requests                                                   *)

\* Every token handed out was spent on a request or is held by a thread about to send.
TokensAreSpent ==
    /\ granted = sent + Cardinality(Holding)
    /\ stopwatch.granted = stopwatch.sent + stopwatch.holding

\* A thread that gets a token joins those that hold one.
LEMMA HoldingGrows ==
    ASSUME TypeOK, NEW t \in Threads, call[t].pc # "send",
           Holding' = Holding \cup {t}
    PROVE  Cardinality(Holding') = Cardinality(Holding) + 1
BY HoldingIsFinite, FS_AddElement DEF Holding

\* A thread that sends leaves those that hold a token.
LEMMA HoldingShrinks ==
    ASSUME TypeOK, NEW t \in Threads, call[t].pc = "send",
           Holding' = Holding \ {t}
    PROVE  Cardinality(Holding') = Cardinality(Holding) - 1
<1>1. t \in Holding
  BY DEF Holding
<1> QED  BY <1>1, HoldingIsFinite, FS_RemoveElement

\* Every step accounts for the tokens.
LEMMA NextSpends == TypeOK /\ TokensAreSpent /\ [Next]_vars => TokensAreSpent'
<1> SUFFICES ASSUME TypeOK, TokensAreSpent, [Next]_vars
             PROVE  TokensAreSpent'
  OBVIOUS
<1>1. ASSUME NEW t \in Threads, BeginCall(t)
      PROVE  TokensAreSpent'
  <2>1. Holding' = Holding
    BY <1>1 DEF BeginCall, Holding, TypeOK, Calls
  <2> QED  BY <1>1, <2>1 DEF BeginCall, TokensAreSpent
<1>2. ASSUME NEW t \in Threads, Acquire(t)
      PROVE  TokensAreSpent'
  <2>1. CASE granted' = granted + 1 /\ call' = [call EXCEPT ![t].pc = "send"]
    <3>1. Holding' = Holding \cup {t}
      BY <2>1 DEF Holding, TypeOK, Calls
    <3>2. Cardinality(Holding') = Cardinality(Holding) + 1
      BY <1>2, <3>1, HoldingGrows DEF Acquire
    <3> QED
      BY <1>2, <2>1, <3>2, HoldingIsFinite DEF Acquire, TokensAreSpent, TypeOK
  <2>2. CASE /\ granted' = granted
             /\ call' = [call EXCEPT ![t].wake = clock + Wait(Unit - Refilled)]
    <3>1. Holding' = Holding
      BY <2>2 DEF Holding, TypeOK, Calls
    <3> QED  BY <1>2, <2>2, <3>1 DEF Acquire, TokensAreSpent
  <2> QED  BY <1>2, <2>1, <2>2 DEF Acquire
<1>3. ASSUME NEW t \in Threads, RequestEndsCall(t) \/ RequestTransient(t)
      PROVE  TokensAreSpent'
  <2>1. /\ call[t].pc = "send"
        /\ sent' = sent + 1
        /\ UNCHANGED <<granted, stopwatch>>
    BY <1>3 DEF RequestEndsCall, RequestTransient
  <2>2. Holding' = Holding \ {t}
    BY <1>3 DEF RequestEndsCall, RequestTransient, NoCall, Holding, TypeOK, Calls
  <2>3. Cardinality(Holding') = Cardinality(Holding) - 1
    BY <2>1, <2>2, HoldingShrinks
  <2> QED  BY <2>1, <2>3, HoldingIsFinite DEF TokensAreSpent, TypeOK
<1>4. CASE Tick
  BY <1>4 DEF Tick, TokensAreSpent, Holding
<1>5. CASE StartStopwatch
  <2>1. /\ stopwatch' = Reading
        /\ UNCHANGED <<call, granted, sent>>
    BY <1>5 DEF StartStopwatch
  <2>2. Holding' = Holding
    BY <2>1 DEF Holding
  <2> QED  BY <2>1, <2>2 DEF Reading, TokensAreSpent
<1>6. CASE UNCHANGED vars
  BY <1>6 DEF vars, TokensAreSpent, Holding
<1> QED
  BY <1>1, <1>2, <1>3, <1>4, <1>5, <1>6 DEF Next

\* Requests are bounded because the grants are.
LEMMA SpentIsWithinRate ==
    TypeOK /\ TokensAreSpent /\ GrantsWithinRate => RequestsWithinRate
<1> SUFFICES ASSUME TypeOK, TokensAreSpent, GrantsWithinRate
             PROVE  RequestsWithinRate
  OBVIOUS
<1> DEFINE requests == sent - stopwatch.sent - stopwatch.holding
           grants == granted - stopwatch.granted
<1>1. requests \in Int /\ grants \in Int /\ requests <= grants
  BY HoldingIsFinite DEF TokensAreSpent, TypeOK
<1>2. (grants - requests) * Unit \in Nat
  BY <1>1, RateLimitAssumption
<1>3. requests * Unit \in Int /\ grants * Unit \in Int
  BY <1>1, RateLimitAssumption
<1>4. grants * Unit = requests * Unit + (grants - requests) * Unit
  BY <1>1, RateLimitAssumption
<1>5. requests * Unit <= grants * Unit
  BY <1>2, <1>3, <1>4
<1>6. Elapsed \in Nat /\ Rate * Elapsed \in Nat
  BY RefillIsNat DEF TypeOK, Elapsed
<1> QED
  BY <1>3, <1>5, <1>6, CapacityIsNat DEF GrantsWithinRate, RequestsWithinRate

\* Retries and concurrent threads included, the requests of any interval stay within the
\* burst, the refills and the threads that held a token when it began.
THEOREM RequestsBounded == Spec => []RequestsWithinRate
<1>1. Init => TokensAreSpent
  <2> SUFFICES ASSUME Init PROVE TokensAreSpent
    OBVIOUS
  <2>1. Holding = {}
    BY DEF Init, Holding, NoCall
  <2> QED  BY <2>1, FS_EmptySet DEF Init, TokensAreSpent
<1> QED
  BY <1>1, GrantsBounded, InitTypeOK, NextTypeOK, NextSpends, SpentIsWithinRate, PTL DEF Spec
===========================================================================
