------------------------------- MODULE Inbox -------------------------------
(***************************************************************************)
(* POST /inbox/<id>/{approve,reject,unsure}: _decide (apfun/web/routes/    *)
(* inbox.py).  The handler loads the candidate, then one commit inserts    *)
(* the approvals row and updates candidates.decision; the ORM sends the    *)
(* UPDATE only when the decision differs from the one loaded.  Any         *)
(* candidate can be decided, soft-deleted ones included.                   *)
(***************************************************************************)
EXTENDS IdeaTables

CONSTANTS
    Operators,       \* decision requests that may be in flight at once
    Asked,           \* bound: the verdicts that requests carry
    MaxApprovals     \* bound: approvals rows

ASSUME InboxAssumption ==
    /\ Asked \subseteq Verdicts
    /\ MaxApprovals \in Nat

VARIABLE deciding    \* per request: what it loaded and decided, or NotDeciding

Requests == [candidate : CandidateIds \cup {Null}, loaded : Decisions, verdict : Verdicts]
NotDeciding == [candidate |-> Null, loaded |-> "pending", verdict |-> "unsure"]

InboxTypeOK == deciding \in [Operators -> Requests]

\* session.get(Candidate, id); a missing candidate is a 404 and changes nothing.
DecideLoad(o, c, verdict) ==
    /\ deciding[o] = NotDeciding
    /\ Exists(candidates, c)
    /\ deciding' = [deciding EXCEPT ![o] = [candidate |-> c, verdict |-> verdict,
                                            loaded |-> candidates[c].decision]]
    /\ UNCHANGED tables

\* Mutant: only a pending candidate takes the verdict.
AfterVerdictOnce(c, loaded, verdict) ==
    IF loaded # "pending" THEN candidates ELSE [candidates EXCEPT ![c].decision = verdict]

\* What the flush leaves in candidates: no UPDATE for a value that did not change.
AfterVerdict(c, loaded, verdict) ==
    IF verdict = loaded THEN candidates ELSE [candidates EXCEPT ![c].decision = verdict]

DecideCommit(o) ==
    LET c == deciding[o].candidate
        verdict == deciding[o].verdict
    IN  /\ c # Null
        /\ NoOpenTransaction
        /\ Len(approvals) < MaxApprovals
        /\ approvals' = Append(approvals, [candidate |-> c, verdict |-> verdict])
        /\ candidates' = AfterVerdict(c, deciding[o].loaded, verdict)
        /\ deciding' = [deciding EXCEPT ![o] = NotDeciding]
        /\ UNCHANGED <<raw_signals, signal_text, candidate_signals, write_lock>>

\* The commit raises (a locked database): neither the row nor the decision is kept.
DecideFail(o) ==
    /\ deciding[o] # NotDeciding
    /\ deciding' = [deciding EXCEPT ![o] = NotDeciding]
    /\ UNCHANGED tables

InboxNext ==
    \E o \in Operators :
        \/ \E c \in CandidateIds, verdict \in Asked : DecideLoad(o, c, verdict)
        \/ DecideCommit(o)
        \/ DecideFail(o)
===========================================================================
