----------------------------- MODULE RateLimit -----------------------------
(***************************************************************************)
(* The requests of one source kind: run_with_retry (sourcing/_base.py)     *)
(* takes a token from the kind's TokenBucket (sourcing/_rate_limit.py)     *)
(* before every attempt.  The bucket is shared by the threads of the       *)
(* process that ingest the kind.  For review sites a request is one        *)
(* product: its pages share a token, and nothing is retried.               *)
(*                                                                         *)
(* Time passes in ticks and tokens are counted in units, Unit to a token,  *)
(* so that a refill of Rate units a tick is exact.  A stopwatch that may   *)
(* start at any moment observes the system; it changes nothing in it.      *)
(***************************************************************************)
EXTENDS Integers, FiniteSets

CONSTANTS
    Threads,       \* threads that ingest this kind
    Unit,          \* units in a token
    Rate,          \* rate_per_sec, in units gained per tick
    Burst,         \* burst
    MaxRetries,    \* MAX_RETRIES
    BackoffDelay,  \* RETRY_BASE_DELAY_S, in ticks
    MaxClock       \* bound: ticks of the clock

\* TokenBucket.__post_init__ rejects anything else.
ASSUME RateLimitAssumption ==
    /\ IsFiniteSet(Threads)
    /\ Unit \in Nat \ {0}
    /\ Rate \in Nat \ {0}
    /\ Burst \in Nat \ {0}
    /\ MaxRetries \in Nat \ {0}
    /\ BackoffDelay \in Nat
    /\ MaxClock \in Nat

VARIABLES
    clock,        \* time.monotonic()
    tokens,       \* _tokens, in units
    last_refill,  \* _last_refill
    call,         \* the locals of each thread
    granted,      \* history: tokens handed out
    sent,         \* history: requests sent
    stopwatch     \* history: what the stopwatch read when it was started

bucket == <<tokens, last_refill>>
vars == <<clock, tokens, last_refill, call, granted, sent, stopwatch>>

Capacity == Burst * Unit
Calls == [pc : {"idle", "acquire", "send"}, attempt : 0 .. MaxRetries - 1,
          delay : Nat, wake : Nat]
NoCall == [pc |-> "idle", attempt |-> 0, delay |-> BackoffDelay, wake |-> 0]

\* Threads that hold a token and have not sent their request yet.
Holding == {t \in Threads : call[t].pc = "send"}
Reading == [time |-> clock, granted |-> granted, sent |-> sent,
            holding |-> Cardinality(Holding)]

Init ==
    /\ clock = 0
    /\ tokens = Capacity
    /\ last_refill = 0
    /\ call = [t \in Threads |-> NoCall]
    /\ granted = 0
    /\ sent = 0
    /\ stopwatch = [time |-> 0, granted |-> 0, sent |-> 0, holding |-> 0]

---------------------------------------------------------------------------
(* TokenBucket.acquire: the lock makes one turn of its loop atomic.        *)

\* Mutant: the refill is not capped at the burst.
RefilledUncapped == tokens + Rate * (clock - last_refill)
Refilled ==
    LET gained == tokens + Rate * (clock - last_refill)
    IN  IF gained < Capacity THEN gained ELSE Capacity

\* The least number of ticks that sleeps off a deficit of units.
Wait(deficit) == (deficit + Rate - 1) \div Rate

\* Mutant: a token that is only partly there is handed out.
AcquireEager(t) ==
    /\ call[t].pc = "acquire"
    /\ clock >= call[t].wake
    /\ last_refill' = clock
    /\ tokens' = Refilled - Unit
    /\ granted' = granted + 1
    /\ call' = [call EXCEPT ![t].pc = "send"]
    /\ UNCHANGED <<clock, sent, stopwatch>>

Acquire(t) ==
    /\ call[t].pc = "acquire"
    /\ clock >= call[t].wake
    /\ last_refill' = clock
    /\ \/ /\ Refilled >= Unit
          /\ tokens' = Refilled - Unit
          /\ granted' = granted + 1
          /\ call' = [call EXCEPT ![t].pc = "send"]
       \/ /\ Refilled < Unit
          /\ tokens' = Refilled
          /\ call' = [call EXCEPT ![t].wake = clock + Wait(Unit - Refilled)]
          /\ UNCHANGED granted
    /\ UNCHANGED <<clock, sent, stopwatch>>

---------------------------------------------------------------------------
(* run_with_retry                                                          *)

BeginCall(t) ==
    /\ call[t].pc = "idle"
    /\ call' = [call EXCEPT ![t].pc = "acquire", ![t].wake = clock]
    /\ UNCHANGED <<clock, bucket, granted, sent, stopwatch>>

\* A terminal status, a 2xx or an exception that is no HTTPError ends the call.
RequestEndsCall(t) ==
    /\ call[t].pc = "send"
    /\ sent' = sent + 1
    /\ call' = [call EXCEPT ![t] = NoCall]
    /\ UNCHANGED <<clock, bucket, granted, stopwatch>>

\* Mutant: a retry does not take a token of its own.
RequestRetriesFree(t) ==
    /\ call[t].pc = "send"
    /\ sent' = sent + 1
    /\ call' = [call EXCEPT ![t].attempt = (@ + 1) % MaxRetries]
    /\ UNCHANGED <<clock, bucket, granted, stopwatch>>

\* 5xx, 429, a timeout or a connection error: sleep, twice as long as the time before,
\* and try again, unless this attempt was the last.
RequestTransient(t) ==
    /\ call[t].pc = "send"
    /\ sent' = sent + 1
    /\ \/ /\ call[t].attempt < MaxRetries - 1
          /\ call' = [call EXCEPT ![t] =
                [pc |-> "acquire", attempt |-> call[t].attempt + 1,
                 delay |-> 2 * call[t].delay, wake |-> clock + call[t].delay]]
       \/ /\ call[t].attempt = MaxRetries - 1
          /\ call' = [call EXCEPT ![t] = NoCall]
    /\ UNCHANGED <<clock, bucket, granted, stopwatch>>

---------------------------------------------------------------------------
Tick ==
    /\ clock < MaxClock
    /\ clock' = clock + 1
    /\ UNCHANGED <<bucket, call, granted, sent, stopwatch>>

StartStopwatch ==
    /\ stopwatch' = Reading
    /\ UNCHANGED <<clock, bucket, call, granted, sent>>

Next ==
    \/ \E t \in Threads :
          BeginCall(t) \/ Acquire(t) \/ RequestEndsCall(t) \/ RequestTransient(t)
    \/ Tick
    \/ StartStopwatch

Spec == Init /\ [][Next]_vars

---------------------------------------------------------------------------
(* Type invariant: in particular the bucket never holds more than its      *)
(* burst and never less than nothing.                                      *)
TypeOK ==
    /\ clock \in Nat
    /\ tokens \in 0 .. Capacity
    /\ last_refill \in 0 .. clock
    /\ call \in [Threads -> Calls]
    /\ granted \in Nat
    /\ sent \in Nat
    /\ stopwatch \in [time : 0 .. clock, granted : 0 .. granted, sent : 0 .. sent, holding : Nat]

Elapsed == clock - stopwatch.time

\* However many threads wait and wake, in any interval the bucket hands out at most its
\* burst and what the elapsed time refills.
GrantsWithinRate ==
    (granted - stopwatch.granted) * Unit <= Capacity + Rate * Elapsed

\* The same of requests, retries included, but for the threads that held a token when the
\* interval began: a burst of late senders is no larger than that.
RequestsWithinRate ==
    (sent - stopwatch.sent - stopwatch.holding) * Unit <= Capacity + Rate * Elapsed
===========================================================================
