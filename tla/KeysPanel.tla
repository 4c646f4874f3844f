----------------------------- MODULE KeysPanel -----------------------------
(***************************************************************************)
(* The API keys of the dashboard (api-key-bento.tsx): the rows, the modal  *)
(* a key is created in and the key it shows, against the keys ArcAuth has. *)
(*                                                                         *)
(* Key 0 exists when the page is opened; the i-th submission of the form   *)
(* makes the server's key i, and when it fails the component makes up a    *)
(* key of its own, here -i.                                                *)
(***************************************************************************)
EXTENDS WebParams, Integers, Sequences, SequencesExt

CONSTANT MaxKeys  \* bound: submissions of the form

ASSUME KeysPanelAssumption == MaxKeys \in Nat \ {0} /\ None \notin Int

Creations == 1 .. MaxKeys
KeyIds == (-MaxKeys) .. MaxKeys

\* live    the keys of the server           rows   keys, newest first
\* list    the listing of the mount         snap   what it was answered with
\* create  each submission                  del    revocations under way
\* modal, typed, shown, copied              isModalOpen, newKeyName is not
\*         blank, generatedKey, copied      timers of the copy button
\* early   ghost: something was started before the list was answered
\* failed  ghost: a call failed
VARIABLE kp

KpInit == kp =
    [live |-> {0}, rows |-> <<>>, list |-> "sent", snap |-> {},
     create |-> [i \in Creations |-> "unused"], del |-> {}, modal |-> FALSE,
     typed |-> FALSE, shown |-> None, copied |-> FALSE, timers |-> 0,
     early |-> FALSE, failed |-> FALSE]

KpStarted == kp.early \/ kp.list # "done"

\* arcauth.listAPIKeys on the server: newest first, as the rows have them.
KpListServed ==
    /\ kp.list = "sent"
    /\ kp' = [kp EXCEPT !.list = "served", !.snap = kp.live]

\* The rows become what was listed; a listing that fails lists nothing.
KpListed ==
    \/ /\ kp.list = "served"
       /\ kp' = [kp EXCEPT !.list = "done",
                           !.rows = Reverse(InOrder(kp.snap))]
    \/ /\ kp.list # "done"
       /\ kp' = [kp EXCEPT !.list = "done", !.rows = <<>>, !.failed = TRUE]

\* The modal covers the list.
ListReachable == ~kp.modal
FormShown == kp.modal /\ kp.shown = None
KeyShown == kp.modal /\ kp.shown # None

KpOpen == ListReachable /\ kp' = [kp EXCEPT !.modal = TRUE]

KpType == FormShown /\ ~kp.typed /\ kp' = [kp EXCEPT !.typed = TRUE]

KpClose ==
    /\ kp.modal
    /\ kp' = [kp EXCEPT !.modal = FALSE, !.typed = FALSE, !.shown = None,
                        !.copied = FALSE]

\* "Generate Key": nothing disables it while a creation is under way.
KpCreate ==
    /\ FormShown /\ kp.typed
    /\ \E i \in Creations :
          /\ kp.create[i] = "unused"
          /\ \A j \in Creations : j < i => kp.create[j] # "unused"
          /\ kp' = [kp EXCEPT !.create[i] = "sent", !.early = KpStarted]

\* The server may come to a creation after the component gave it up.
KpCreateServed ==
    \E i \in Creations :
       /\ kp.create[i] \in {"sent", "late"}
       /\ kp' = [kp EXCEPT !.create[i] = IF @ = "sent" THEN "made" ELSE "done",
                           !.live = @ \cup {i}]

\* The fields of the answer to a creation (handleCreateAPIKey).
CreatedFields == {"id", "name", "role", "key_display", "raw_key", "created_at"}

\* setGeneratedKey(result.key)
KeyIn(i) == IF "key" \in CreatedFields THEN i ELSE None

\* Changed program: the new row takes the place of the others.
KpCreatedAlone ==
    \E i \in Creations :
       /\ kp.create[i] = "made"
       /\ kp' = [kp EXCEPT !.create[i] = "done", !.rows = <<i>>,
                           !.shown = KeyIn(i)]

KpCreated ==
    \E i \in Creations :
       /\ kp.create[i] = "made"
       /\ kp' = [kp EXCEPT !.create[i] = "done", !.rows = <<i>> \o @,
                           !.shown = KeyIn(i)]

\* The creation is refused, or it times out before or after the server has
\* made the key: a row and a key that are made up.
KpCreateFailed ==
    \E i \in Creations :
       /\ kp.create[i] \in {"sent", "made"}
       /\ kp' = [kp EXCEPT !.create[i] = IF @ = "sent" THEN "late" ELSE "done",
                           !.rows = <<-i>> \o @, !.shown = -i,
                           !.failed = TRUE]

KpDelete ==
    /\ ListReachable /\ Cardinality(kp.del) < MaxCalls
    /\ \E k \in ToSet(kp.rows) :
          kp' = [kp EXCEPT !.early = KpStarted, !.del = @ \cup
                    {[key |-> k, served |-> FALSE, waits |-> TRUE]}]

KpDeleteServed ==
    \E d \in {x \in kp.del : ~x.served} :
       kp' = [kp EXCEPT !.live = @ \ {d.key}, !.del = (@ \ {d}) \cup
                 IF d.waits THEN {[d EXCEPT !.served = TRUE]} ELSE {}]

\* The row goes whether or not the key was revoked: the answer is not looked
\* at, an error or a timeout is dropped, and the server may still come to it.
KpDeleted ==
    \E d \in {x \in kp.del : x.waits} :
       kp' = [kp EXCEPT !.rows = Picked(@, {n \in DOMAIN @ : @[n] # d.key}),
                        !.failed = @ \/ ~d.served, !.del = (@ \ {d}) \cup
                 IF d.served THEN {} ELSE {[d EXCEPT !.waits = FALSE]}]

KpCopy ==
    /\ KeyShown /\ kp.timers < MaxCalls
    /\ kp' = [kp EXCEPT !.copied = TRUE, !.timers = @ + 1]

KpCopyTimer ==
    /\ kp.timers > 0
    /\ kp' = [kp EXCEPT !.copied = FALSE, !.timers = @ - 1]

KpUser == KpOpen \/ KpType \/ KpClose \/ KpCreate \/ KpDelete \/ KpCopy
KpServer == KpListServed \/ KpCreateServed \/ KpDeleteServed
KpNext ==
    \/ KpUser \/ KpServer
    \/ KpListed \/ KpCreated \/ KpCreateFailed \/ KpDeleted \/ KpCopyTimer

\* Every call is answered or times out and every timer fires; no one has to
\* click.
KpFair == WF_kp(KpListed) /\ WF_kp(KpCreated \/ KpCreateFailed)
          /\ WF_kp(KpDeleted) /\ WF_kp(KpCopyTimer)
KpSpec == KpInit /\ [][KpNext]_kp /\ KpFair

KpTypeOK ==
    kp \in [live : SUBSET (0 .. MaxKeys), rows : Seq(KeyIds),
            list : {"sent", "served", "done"}, snap : SUBSET (0 .. MaxKeys),
            create : [Creations -> {"unused", "sent", "made", "late", "done"}],
            del : SUBSET [key : KeyIds, served : BOOLEAN, waits : BOOLEAN],
            modal : BOOLEAN, typed : BOOLEAN,
            shown : KeyIds \cup {None}, copied : BOOLEAN,
            timers : 0 .. MaxCalls, early : BOOLEAN, failed : BOOLEAN]

KpQuiet ==
    /\ kp.list = "done" /\ \A d \in kp.del : ~d.waits
    /\ \A i \in Creations : kp.create[i] \notin {"sent", "made"}

\* When no call failed and nothing was started before the list was there, the
\* rows of a page that waits for nothing are the keys of the server, each
\* once, however creations and revocations overlapped.
KpAgrees ==
    KpQuiet /\ ~kp.early /\ ~kp.failed =>
        ToSet(kp.rows) = kp.live /\ Len(kp.rows) = Cardinality(kp.live)

=============================================================================
