------------------------------ MODULE MCScheduler -----------------------------
(* A small instance of Scheduler: a task every minute and a broken one.      *)
EXTENDS Scheduler

CONSTANTS t1, t2, u1, u2

EveryMinute == (1 :> 0) @@ (2 :> 1)
AllCallers == Ticks \cup Users
Symmetric == Permutations(Ticks) \cup Permutations(Users)
=============================================================================
