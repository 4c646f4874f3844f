---------------------------- MODULE MC_QueueEngine ----------------------------
(* Two callers, and Redis servers beside Postgres. *)
EXTENDS QueueEngine, TLC
CONSTANTS c1, c2, r1, r2
MCClients == {c1, c2}
MCTwoRedises == {r1, r2}
MCOneRedis == {r1}
MCSymmetry == Permutations(MCClients) \cup Permutations(MCTwoRedises)
=============================================================================
