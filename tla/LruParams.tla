------------------------------ MODULE LruParams ------------------------------
(***************************************************************************)
(* What the site cache and the list that implements it are built with      *)
(* (NewLRUCache in buckstream/pkg/handler/lru.go, and its caller).         *)
(***************************************************************************)
EXTENDS Naturals

CONSTANTS Keys,      \* the names a site can have
          Values,    \* the unzipped archives
          None,      \* what Get returns for a missing key
          Capacity,  \* MAX_CACHED_SITES
          TTL        \* the janitor's time-to-live, in units of time

ASSUME LruAssumption == /\ None \notin Values
                        /\ Capacity \in Nat
                        /\ TTL \in Nat
=============================================================================
