---------------------------- MODULE MCScheduler ----------------------------
EXTENDS Scheduler, TLC

FourJobs == <<"sample", "reconcile", "presence", "remote">>
Periods == ("sample" :> 3) @@ ("reconcile" :> 6) @@ ("presence" :> 7) @@ ("remote" :> 4)
=============================================================================
