------------------------------ MODULE MC_Login ------------------------------
(* Codes for one of two addresses, and one person with an account elsewhere. *)
EXTENDS Login, TLC
CONSTANTS t1, t2, ann, bob, cleo
MCThreads == {t1, t2}
MCMails == {ann, bob}
MCPeople == {cleo}
MCSymmetry == Permutations(MCThreads)

\* No property reads used once upset holds, nor who once calm does not; neither
\* history guards an action, and upset and calm change once.
MCView == <<kind, memory, redis, rows, blank, link, task, latest, upset, calm,
            IF upset THEN {} ELSE used, IF calm THEN who ELSE <<>> >>
=============================================================================
