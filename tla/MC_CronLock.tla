----------------------------- MODULE MC_CronLock -----------------------------
(* Two requests at two instances. *)
EXTENDS CronLock
MCHome == [t1 |-> "i1", t2 |-> "i2"]
=============================================================================
