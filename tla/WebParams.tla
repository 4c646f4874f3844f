----------------------------- MODULE WebParams -----------------------------
(* What the panels of the web applications have in common.                 *)
EXTENDS Naturals, FiniteSets

CONSTANTS Users,    \* the people who log in; each is a tenant
          Names,    \* names of a project's variables
          Objects,  \* names of the files in the bucket of the dashboard or of the demo
          Tables,   \* names of the tables of a tenant
          Projects, \* names of Cloudflare projects and of the repositories
          MaxCalls, \* bound: requests of a kind under way at once
          None      \* null: no user, no name, no key

ASSUME WebAssumption == /\ None \notin Users \cup Names \cup Projects
                        /\ None \notin Objects \cup Tables
                        /\ MaxCalls \in Nat \ {0}

\* One request, or chain of requests, in each.
Calls == 1 .. MaxCalls

\* Of answers that are on their way, by call: those that were given before
\* each, when that of i has come.
Without(older, i) == [j \in Calls |-> IF j = i THEN {} ELSE older[j] \ {i}]

\* The numbers of a finite set, the least first.
InOrder(S) == [n \in 1 .. Cardinality(S) |->
                  CHOOSE i \in S : Cardinality({j \in S : j <= i}) = n]

\* What a sequence has at the places of S.
Picked(s, S) == LET q == InOrder(S) IN [n \in DOMAIN q |-> s[q[n]]]
=============================================================================
