---------------------------- MODULE MCScheduler ----------------------------
(* Scheduler on an ingest job and the two pipeline jobs.  A tick is the    *)
(* five minutes of misfire_grace_time, and cluster runs two ticks after    *)
(* normalize; the two hours of their grid are shortened to four ticks.     *)
EXTENDS Scheduler, TLC

CONSTANTS ingest, normalize, cluster

MCJobs == {ingest, normalize, cluster}
MCSlots == (ingest :> {1}) @@ (normalize :> {0}) @@ (cluster :> {2})

ASSUME MCGrid == OffsetOutlastsGrace
=============================================================================
