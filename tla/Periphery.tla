----------------------------- MODULE Periphery -----------------------------
(***************************************************************************)
(* What stands around the funnel: the listings the adapters read (Feed),   *)
(* the LLM client with the backfill script on it (Backfill, LlmClient) and *)
(* the scripts that write sources (ReviewImport).  They share nothing but  *)
(* SQLite's write lock, which each of them already sees taken by others at *)
(* any time, so a behaviour is that of one part and the others rest.       *)
(***************************************************************************)
EXTENDS Feed, Backfill, ReviewImport

VARIABLE part

peripheryVars == <<part, feedVars, backfillVars, importVars>>

PeripheryInit ==
    /\ part \in {"feed", "backfill", "import"}
    /\ FeedInit /\ BackfillInit /\ ImportInit
    /\ part # "feed" => kind = CHOOSE k \in Kinds : TRUE

PeripheryNext ==
    /\ UNCHANGED part
    /\ \/ part = "feed" /\ FeedNext /\ UNCHANGED <<backfillVars, importVars>>
       \/ part = "backfill" /\ BackfillNext /\ UNCHANGED <<feedVars, importVars>>
       \/ part = "import" /\ ImportNext /\ UNCHANGED <<feedVars, backfillVars>>

PeripherySpec == PeripheryInit /\ [][PeripheryNext]_peripheryVars /\ BackfillFairness

\* The variables of all three modules keep their types.
PeripheryTypeOK == FeedTypeOK /\ BackfillTypeOK /\ ImportTypeOK
=============================================================================
