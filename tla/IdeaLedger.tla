----------------------------- MODULE IdeaLedger -----------------------------
(***************************************************************************)
(* What the funnel promises its operator, without sessions, transactions   *)
(* or model calls: a ledger of the ideas on display.  Each rests on some   *)
(* evidence and carries the operator's last verdict on it.  Only the       *)
(* operator changes a verdict; evidence leaves an idea only when the idea  *)
(* is combined with others, and then all of it goes to the combined idea.  *)
(***************************************************************************)
EXTENDS Naturals

CONSTANTS Ideas, Signals, Verdict

VARIABLES
    shown,      \* the ideas on display
    evidence,   \* per idea: the signals behind it ({} when it is not on display)
    verdict     \* per idea: "pending" until the operator decides

ledger == <<shown, evidence, verdict>>

LedgerInit ==
    /\ shown = {}
    /\ evidence = [i \in Ideas |-> {}]
    /\ verdict = [i \in Ideas |-> "pending"]

\* Stage 1 puts up new ideas, each with evidence, and strengthens others.
Publish ==
    /\ shown \subseteq shown'
    /\ shown' \subseteq Ideas
    /\ evidence' \in [Ideas -> SUBSET Signals]
    /\ \A i \in shown : evidence[i] \subseteq evidence'[i]
    /\ \A i \in shown' \ shown : evidence'[i] # {}
    /\ \A i \in Ideas \ shown' : evidence'[i] = {}
    /\ UNCHANGED verdict

\* The ideas of a set give way to a new, undecided one that has all their evidence.
Combine(from, into) ==
    /\ from \subseteq shown
    /\ \E i, j \in from : i # j
    /\ into \in Ideas \ shown
    /\ verdict[into] = "pending"
    /\ shown' = (shown \ from) \cup {into}
    /\ evidence' = [i \in Ideas |->
                      IF i = into THEN {s \in Signals : \E j \in from : s \in evidence[j]}
                      ELSE IF i \in from THEN {} ELSE evidence[i]]
    /\ verdict' = [i \in Ideas |-> IF i \in from THEN "pending" ELSE verdict[i]]

Decide(i, v) ==
    /\ i \in shown
    /\ verdict' = [verdict EXCEPT ![i] = v]
    /\ UNCHANGED <<shown, evidence>>

LedgerNext ==
    \/ Publish
    \/ \E from \in SUBSET Ideas, into \in Ideas : Combine(from, into)
    \/ \E i \in Ideas, v \in Verdict : Decide(i, v)

LedgerSpec == LedgerInit /\ [][LedgerNext]_ledger
===========================================================================
