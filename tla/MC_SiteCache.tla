---------------------------- MODULE MC_SiteCache ----------------------------
(* Requests on two sites that compete for one place in the cache. *)
EXTENDS SiteCache, TLC
CONSTANTS t1, t2, t3
MCPair == {t1, t2}
MCThreads == {t1, t2, t3}
\* Bound: the site that is written through the proxy too has an old and a new
\* version, the one that competes with it for its place has one.
MCVersions == [s \in Sites |-> IF s \in ProxySites THEN 2 ELSE 1]
MCSymmetry == Permutations(MCThreads)
=============================================================================
