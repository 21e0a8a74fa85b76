---------------------------- MODULE MCScheduler ----------------------------
(* Instances of Scheduler for TLC: the kinds of the schedules, symmetric replicas. *)
EXTENDS Scheduler, TLC

CONSTANTS s1, s2

CronOnly     == s1 :> "cron"
OnceAndCron  == s1 :> "once" @@ s2 :> "cron"

Replicas == Permutations(Replica)
=============================================================================
