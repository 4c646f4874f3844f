---------------------------- MODULE FrontedgeForm ----------------------------
(***************************************************************************)
(* The form of a new Frontedge project (frontedge-create-project.tsx): the *)
(* repository, the settings and the environment variables, the draft of    *)
(* them in sessionStorage, and the deployment.  The form goes with its     *)
(* screen; the repository and the deployment belong to the console, which  *)
(* stays.  A row of the environment is its key, None when it is blank, and *)
(* "name" and "build" stand for every field of the same kind.              *)
(***************************************************************************)
EXTENDS WebParams, Sequences, SequencesExt

CONSTANT MaxRows  \* bound: rows of the environment

ASSUME FrontedgeFormAssumption == MaxRows \in Nat \ {0}

\* form    what the form has, while it is mounted
\* repo    selectedRepo                    draft   None, or form and repo
\* deploy  a deployment is under way
\* left    ghost: form and repo when the form was left, None when a deployment
\*         that ended has removed the draft of it
VARIABLE ff

FfBlank == [name |-> "blank", build |-> "default", env |-> <<None>>]

FfKept(form, repo) == [form |-> form, repo |-> repo]

\* The effect that writes the draft runs after every change.
FfPersist(form, repo) ==
    [ff EXCEPT !.form = form, !.repo = repo, !.draft = FfKept(form, repo)]

FfInit == ff = [mounted |-> FALSE, form |-> FfBlank, repo |-> None,
                draft |-> None, deploy |-> FALSE, left |-> None]

\* Changed program: the rows of the draft are not restored.
FfMountNoRows ==
    /\ ~ff.mounted
    /\ LET d == IF ff.draft = None THEN FfKept(FfBlank, None) ELSE ff.draft
           form == [FfBlank EXCEPT !.name = d.form.name]
           repo == IF d.repo # None THEN d.repo ELSE ff.repo IN
       ff' = [FfPersist(form, repo) EXCEPT !.mounted = TRUE, !.left = None]

\* The draft is restored: a command that was cleared is not, the default
\* takes its place.
FfMount ==
    /\ ~ff.mounted
    /\ LET d == IF ff.draft = None THEN FfKept(FfBlank, None) ELSE ff.draft
           form == [d.form EXCEPT !.build = IF @ = "blank" THEN "default" ELSE @]
           repo == IF d.repo # None THEN d.repo ELSE ff.repo IN
       ff' = [FfPersist(form, repo) EXCEPT !.mounted = TRUE, !.left = None]

FfLeave ==
    /\ ff.mounted
    /\ ff' = [ff EXCEPT !.mounted = FALSE, !.form = FfBlank,
                        !.left = IF ff.draft = None THEN None
                                 ELSE FfKept(ff.form, ff.repo)]

\* "Import" of a repository in the list; the name is made from it.
FfSelect ==
    /\ ff.mounted /\ ff.repo = None
    /\ \E r \in Projects :
          ff' = FfPersist([ff.form EXCEPT !.name = "derived"], r)

\* The settings are there once a repository is selected.
FfSettings == ff.mounted /\ ff.repo # None

FfChangeRepo == FfSettings /\ ff' = FfPersist(ff.form, None)

FfType ==
    /\ FfSettings
    /\ \/ \E n \in {"blank", "typed"} :
             ff' = FfPersist([ff.form EXCEPT !.name = n], ff.repo)
       \/ \E b \in {"blank", "typed"} :
             ff' = FfPersist([ff.form EXCEPT !.build = b], ff.repo)

FfEnv(rows) == ff' = FfPersist([ff.form EXCEPT !.env = rows], ff.repo)

FfAddRow == /\ FfSettings /\ Len(ff.form.env) < MaxRows
            /\ FfEnv(Append(ff.form.env, None))

FfRemoveRow == FfSettings /\ \E i \in DOMAIN ff.form.env :
                                FfEnv(RemoveAt(ff.form.env, i))

FfEditRow == FfSettings /\ \E i \in DOMAIN ff.form.env, k \in Names \cup {None} :
                              FfEnv([ff.form.env EXCEPT ![i] = k])

\* Changed program: the pasted keys that are beyond the last row are dropped.
FfPastedShort(rows, i, keys) ==
    [j \in DOMAIN rows |-> IF j \in i .. i + Len(keys) - 1
                           THEN keys[j - i + 1] ELSE rows[j]]

\* handlePasteEnv: the keys take the rows from i on, then new rows, and of
\* the blank rows only one that comes last is left.
FfPasted(rows, i, keys) ==
    LET to == i + Len(keys) - 1
        n == IF to > Len(rows) THEN to ELSE Len(rows)
        updated == [j \in 1 .. n |-> IF j \in i .. to THEN keys[j - i + 1]
                                     ELSE rows[j]]
    IN Picked(updated, {j \in 1 .. n : updated[j] # None \/ j = n})

FfPastes == {<<k>> : k \in Names} \cup (Names \X Names)

FfPaste ==
    /\ FfSettings
    /\ \E i \in DOMAIN ff.form.env, keys \in FfPastes :
          LET rows == FfPasted(ff.form.env, i, keys) IN
          Len(rows) <= MaxRows /\ FfEnv(rows)

\* The button is disabled while a deployment is under way.
FfDeploy ==
    /\ FfSettings /\ ~ff.deploy
    /\ ff' = [ff EXCEPT !.deploy = TRUE]

\* The draft is removed whether the deployment succeeded, which leaves for
\* the page of the project, or failed, which leaves the form where it is.
FfDeployed ==
    /\ ff.deploy
    /\ \E mounted \in {ff.mounted, FALSE} :
          ff' = [ff EXCEPT !.deploy = FALSE, !.draft = None, !.left = None,
                           !.mounted = mounted,
                           !.form = IF mounted THEN @ ELSE FfBlank]

FfNext ==
    \/ FfMount \/ FfLeave \/ FfSelect \/ FfChangeRepo \/ FfType \/ FfAddRow
    \/ FfRemoveRow \/ FfEditRow \/ FfPaste \/ FfDeploy \/ FfDeployed

FfFair == WF_ff(FfDeployed)
FfSpec == FfInit /\ [][FfNext]_ff /\ FfFair

FfTypeOK ==
    LET Forms == [name : {"blank", "derived", "typed"},
                  build : {"default", "typed", "blank"},
                  env : BoundedSeq(Names \cup {None}, MaxRows)]
        Kept == [form : Forms, repo : Projects \cup {None}]
    IN ff \in [mounted : BOOLEAN, form : Forms, repo : Projects \cup {None},
              draft : {None} \cup Kept, deploy : BOOLEAN, left : {None} \cup Kept]

\* Of a paste: what was pasted is in the rows, without a gap and in its order,
\* and of the other keys those of the rows that it took are gone and no more:
\* the keys before stay before it and the keys behind it stay behind, in their
\* order, whatever blank rows there were (frontedge-create-project.tsx:153-167).
FfPasteKeepsOthers ==
    \A i \in DOMAIN ff.form.env, keys \in FfPastes :
       LET rows == ff.form.env
           Filled(s) == Picked(s, {j \in DOMAIN s : s[j] # None}) IN
       Filled(FfPasted(rows, i, keys)) =
           Filled(SubSeq(rows, 1, i - 1)) \o keys
               \o Filled(SubSeq(rows, i + Len(keys), Len(rows)))

\* A form that is left and opened again has what it had, but for a command
\* that was cleared, unless a deployment ended since its last change.
FfRestored ==
    [][~ff.mounted /\ ff'.mounted /\ ff.left # None =>
          /\ ff'.repo = ff.left.repo /\ ff'.form.name = ff.left.form.name
          /\ ff'.form.env = ff.left.form.env
          /\ ff.left.form.build \in {ff'.form.build, "blank"}]_ff

=============================================================================
