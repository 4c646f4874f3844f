--------------------------- MODULE FrontedgeDetail --------------------------
(***************************************************************************)
(* The page of a Frontedge project (frontedge-project-detail.tsx with what *)
(* frontedge-console.tsx does for it): its builds, their logs, its secrets.*)
(***************************************************************************)
EXTENDS WebParams, Integers, FiniteSets

-----------------------------------------------------------------------------
(* The builds (fetchDeployments, handleRedeploy): whose the page shows and *)
(* whose "Redeploy Project" starts.  One component shows every project in  *)
(* turn and keeps its state when it goes from one to another.              *)
(*                                                                         *)
(* A list of builds is known by the repository it is of: the repository    *)
(* named like a project under the user's own account, or under the account *)
(* the console falls back to while it does not know the user's.            *)

Repos == {"own", "default"} \X Projects

\* active  the project of the route, None on the other screens
\* chosen  selectedRepo, which the form of a new project sets
\* status  the call of the mount and whether it told the user's account
\* shown   whose builds "deployments" has, None when it is empty
\* gets    calls of fetchDeployments
\* redo    a redeployment that is sent, or the fetch that it put off by three
\*         seconds; bound: one of them
\* failed  ghost: a fetch failed after the page of its project was opened
\* misled  ghost: a fetch was started with a repository chosen in the form or
\*         before the user's account was known
\* crossed ghost: two fetches were under way at once, or one was put off
VARIABLE fb

\* ownerRepo of fetchDeployments and handleRedeploy.
FbRepo(state, p) ==
    IF state.chosen # None THEN <<"own", state.chosen>>
    ELSE IF state.status = "known" THEN <<"own", p>> ELSE <<"default", p>>

FbBusy == fb.gets # {}
FbRoom == Cardinality(fb.gets) < MaxCalls

\* fetchDeployments(p), which asks for the builds of repo first.
FbFetch(state, p, repo) ==
    [state EXCEPT !.gets = @ \cup {[of |-> repo, for |-> p]},
                  !.misled = @ \/ repo # <<"own", p>>,
                  !.crossed = @ \/ FbBusy]

FbInit ==
    \E p \in Projects \cup {None} :
       LET mounted == [active |-> p, chosen |-> None, status |-> "asked",
                       shown |-> None, gets |-> {}, redo |-> None,
                       failed |-> FALSE, misled |-> FALSE,
                       crossed |-> FALSE]
       IN fb = IF p = None THEN mounted
               ELSE [mounted EXCEPT !.misled = TRUE,
                        !.gets = {[of |-> <<"default", p>>, for |-> p]}]

FbStatus ==
    /\ fb.status = "asked"
    /\ \E to \in {"known", "unknown"} : fb' = [fb EXCEPT !.status = to]

FbReady == fb.status # "asked"

\* Changed program: the builds are fetched on the mount only.
FbOpenNoFetch ==
    /\ FbReady /\ fb.active = None
    /\ \E p \in Projects : fb' = [fb EXCEPT !.active = p]

\* The page of a project is opened from its card, or by the deployment that
\* made it: the effect of activeProject fetches its builds. What the last
\* project left is still shown.
FbOpen ==
    /\ FbReady /\ FbRoom
    /\ \E p \in Projects \ {fb.active} :
          fb' = FbFetch([fb EXCEPT !.active = p, !.failed = FALSE], p,
                        FbRepo(fb, p))

FbBack ==
    /\ FbReady /\ fb.active # None
    /\ fb' = [fb EXCEPT !.active = None]

\* "Import" and "Change Repo" of the form of a new project.
FbChoose ==
    /\ FbReady /\ fb.active = None
    /\ \E r \in (Projects \cup {None}) \ {fb.chosen} :
          fb' = [fb EXCEPT !.chosen = r]

FbRefresh ==
    /\ FbReady /\ FbRoom /\ fb.active # None
    /\ fb' = FbFetch(fb, fb.active, FbRepo(fb, fb.active))

\* The runs that GitHub has of the repository, or else the deployments that
\* Cloudflare has of the project, whoever's page is shown by now; a failure
\* leaves what is shown.
FbAnswered ==
    \E get \in fb.gets :
       \E whose \in {get.of, <<"own", get.for>>, None} :
          fb' = [fb EXCEPT !.gets = @ \ {get}, !.shown = whose]

FbFailed ==
    \E get \in fb.gets :
       fb' = [fb EXCEPT !.gets = @ \ {get}, !.failed = TRUE]

\* The button is disabled while a redeployment is under way.
FbRedeploy ==
    /\ FbReady /\ fb.active # None /\ fb.redo = None
    /\ fb' = [fb EXCEPT !.redo = [of |-> FbRepo(fb, fb.active),
                                  for |-> fb.active, at |-> "sent"]]

FbTriggering == fb.redo # None /\ fb.redo.at = "sent"

\* The dispatch is accepted, and the builds are fetched three seconds later,
\* or it is refused or fails.
FbRedeployed ==
    /\ FbTriggering
    /\ \/ fb' = [fb EXCEPT !.redo.at = "off", !.crossed = TRUE]
       \/ fb' = [fb EXCEPT !.redo = None]

\* The fetch is that of the project and the render the button was clicked in.
FbTimer ==
    /\ fb.redo # None /\ fb.redo.at = "off" /\ FbRoom
    /\ fb' = FbFetch([fb EXCEPT !.redo = None], fb.redo.for, fb.redo.of)

FbNext ==
    \/ FbStatus \/ FbOpen \/ FbBack \/ FbChoose \/ FbRefresh \/ FbAnswered
    \/ FbFailed \/ FbRedeploy \/ FbRedeployed \/ FbTimer

FbFair == WF_fb(FbStatus) /\ WF_fb(FbAnswered \/ FbFailed)
          /\ WF_fb(FbRedeployed) /\ WF_fb(FbTimer)
FbSpec == FbInit /\ [][FbNext]_fb /\ FbFair

FbTypeOK ==
    LET Fetches == [of : Repos, for : Projects] IN
    fb \in [active : Projects \cup {None}, chosen : Projects \cup {None},
            status : {"asked", "known", "unknown"}, shown : Repos \cup {None},
            gets : SUBSET Fetches,
            redo : {None} \cup
                [of : Repos, for : Projects, at : {"sent", "off"}], failed : BOOLEAN, misled : BOOLEAN,
            crossed : BOOLEAN]

\* The builds on the page of a project are that project's once they are there,
\* when no fetch of it failed, no two overlapped and none was of another
\* repository.
FbWhose ==
    /\ fb.active # None /\ ~FbBusy
    /\ ~fb.failed /\ ~fb.misled /\ ~fb.crossed
    => fb.shown \in {<<"own", fb.active>>, None}

-----------------------------------------------------------------------------
(* The build history of one project: the builds, the one that is unfolded  *)
(* and the logs (fetchLogsById).  Builds are numbered as they start and     *)
(* listed newest first; a list has every build that there was.             *)

CONSTANT MaxBuilds  \* bound: builds of the project

ASSUME FrontedgeDetailAssumption == MaxBuilds \in Nat \ {0}

Builds == 1 .. MaxBuilds
FlNone == 0

\* made      builds there are              list     the newest build listed
\* gets      lists under way: 0 none, -1 asked, n served with n builds
\* expanded  expandedBuildId               loading  loadingLogs
\* logs      builds that have lines        asks     log requests under way
\* failed    ghost: a list failed
VARIABLE fl

FlNoGet == -2
FlInit ==
    \E n \in 0 .. MaxBuilds :
       fl = [made |-> n, list |-> 0,
             gets |-> [c \in Calls |-> IF c = 1 THEN -1 ELSE FlNoGet],
             expanded |-> FlNone, loading |-> {}, logs |-> {},
             asks |-> [b \in Builds |-> 0], failed |-> FALSE]

\* "Refresh History"
FlRefresh ==
    \E c \in Calls :
       /\ fl.gets[c] = FlNoGet
       /\ fl' = [fl EXCEPT !.gets[c] = -1]

\* A build starts: a redeployment or a push to the repository.
FlBuild == fl.made < MaxBuilds /\ fl' = [fl EXCEPT !.made = @ + 1]

FlServed ==
    \E c \in Calls :
       /\ fl.gets[c] = -1
       /\ fl' = [fl EXCEPT !.gets[c] = fl.made]

\* Changed program: the logs of the first build are not asked for.
FlListedNoLogs ==
    \E c \in Calls :
       /\ fl.gets[c] >= 0
       /\ fl' = [fl EXCEPT !.gets[c] = FlNoGet, !.list = fl.gets[c],
                           !.expanded = IF @ = FlNone THEN fl.gets[c] ELSE @]

\* The list becomes what was answered.  Its first build is unfolded unless
\* one is, and the logs of that first build are asked for.
FlListed ==
    \E c \in Calls :
       /\ fl.gets[c] >= 0
       /\ LET n == fl.gets[c]
              listed == [fl EXCEPT !.gets[c] = FlNoGet, !.list = n] IN
          \/ n = 0 /\ fl' = listed
          \/ /\ n > 0 /\ fl.asks[n] < MaxCalls
             /\ fl' = [listed EXCEPT !.asks[n] = @ + 1, !.loading = @ \cup {n},
                          !.expanded = IF @ = FlNone THEN n ELSE @]

FlListFailed ==
    \E c \in Calls :
       /\ fl.gets[c] # FlNoGet
       /\ fl' = [fl EXCEPT !.gets[c] = FlNoGet, !.failed = TRUE]

\* A click on a build folds or unfolds it, and nothing more.
FlClick ==
    \E b \in 1 .. fl.list :
       fl' = [fl EXCEPT !.expanded = IF @ = b THEN FlNone ELSE b]

\* Lines in any case: those of GitHub, those of Cloudflare, or a sentence
\* that says there are none.
FlLogged(b) ==
    /\ fl.asks[b] > 0
    /\ fl' = [fl EXCEPT !.asks[b] = @ - 1, !.logs = @ \cup {b},
                        !.loading = @ \ {b}]

FlNext == \/ FlRefresh \/ FlBuild \/ FlServed \/ FlListed \/ FlListFailed
          \/ FlClick \/ \E b \in Builds : FlLogged(b)

FlFair == WF_fl(FlListed \/ FlListFailed) /\ \A b \in Builds : WF_fl(FlLogged(b))
FlSpec == FlInit /\ [][FlNext]_fl /\ FlFair

FlTypeOK ==
    fl \in [made : 0 .. MaxBuilds, list : 0 .. MaxBuilds,
            gets : [Calls -> FlNoGet .. MaxBuilds],
            expanded : 0 .. MaxBuilds, loading : SUBSET Builds,
            logs : SUBSET Builds, asks : [Builds -> 0 .. MaxCalls],
            failed : BOOLEAN]

\* What the terminal of the unfolded build says.
FlTerminal ==
    CASE fl.expanded \in fl.loading -> "loading"
      [] fl.expanded \in fl.logs -> "lines"
      [] OTHER -> "No log output available"

\* The newest build of a list has its log, or a request for it is under way.
FlFirstHasLog ==
    fl.list > 0 => fl.list \in fl.logs \/ fl.asks[fl.list] > 0

-----------------------------------------------------------------------------
(* The secrets of a Frontedge project (frontedge-project-detail.tsx and    *)
(* handleSaveSecrets of frontedge-console.tsx): the modal, the rows typed  *)
(* in it and what Cloudflare has for each project.  The page of a project  *)
(* goes when its screen is left; "savingSecrets" belongs to the console,   *)
(* which stays.  What is typed is known by the project whose name headed   *)
(* the modal.                                                              *)

\* active   the project of the page, None on other screens
\* modal    showSecretModal      typed   projects that modalEnvVars was typed
\*          for                  saved   what the server has of each project
\* save     the call under way   coming  a deployment that will make its page
\*          the one shown        late    the call given up last that the
\*          server will come to, None when there is none: bound
\* moved    ghost: a deployment changed the project under the rows
VARIABLE fs

FsInit ==
    \E p \in Projects \cup {None}, d \in Projects \cup {None} :
       fs = [active |-> p, modal |-> FALSE, typed |-> {},
             saved |-> [q \in Projects |-> {}], save |-> None, coming |-> d,
             late |-> None, moved |-> FALSE]

FsOpenPage ==
    /\ fs.active = None
    /\ \E p \in Projects : fs' = [fs EXCEPT !.active = p]

FsElsewhere ==
    IF fs.save = None THEN None ELSE [fs.save EXCEPT !.here = FALSE]

\* Changed program: the rows stay for the page that is opened next.
FsLeaveKeeps ==
    /\ fs.active # None
    /\ fs' = [fs EXCEPT !.active = None, !.modal = FALSE,
                        !.save = FsElsewhere]

\* The modal and its rows go with the page.
FsLeave ==
    /\ fs.active # None
    /\ fs' = [fs EXCEPT !.active = None, !.modal = FALSE, !.typed = {},
                        !.save = FsElsewhere]

\* handleDeploy navigates to the project it made: the page of another project
\* becomes the page of that one and keeps its state.
FsDeployed ==
    /\ fs.coming # None
    /\ fs' = [fs EXCEPT !.active = fs.coming, !.coming = None,
                        !.moved = @ \/ fs.typed \ {fs.coming} # {}]

FsOpen ==
    /\ fs.active # None /\ ~fs.modal
    /\ fs' = [fs EXCEPT !.modal = TRUE]

FsClose == fs.modal /\ fs' = [fs EXCEPT !.modal = FALSE]

FsType == /\ fs.modal /\ fs.active \notin fs.typed
          /\ fs' = [fs EXCEPT !.typed = @ \cup {fs.active}]

\* "Save Secrets" is disabled while savingSecrets.
FsSave ==
    /\ fs.modal /\ fs.save = None
    /\ fs' = [fs EXCEPT !.save = [project |-> fs.active, rows |-> fs.typed,
                                  here |-> TRUE, at |-> "sent"]]

FsServed ==
    \/ /\ fs.save # None /\ fs.save.at = "sent"
       /\ fs' = [fs EXCEPT !.save.at = "done",
                           !.saved[fs.save.project] = @ \cup fs.save.rows]
    \/ /\ fs.late # None
       /\ fs' = [fs EXCEPT !.late = None,
                           !.saved[fs.late.project] = @ \cup fs.late.rows]

\* Changed program: "savingSecrets" is reset with the modal of the page.
FsEndedHere ==
    /\ fs.save # None /\ fs.save.here
    /\ fs' = [fs EXCEPT !.save = None, !.modal = FALSE]

\* Saved, refused or given up: an alert, and the modal that is open on the
\* same page closes; the rows stay.
FsEnded ==
    /\ fs.save # None
    /\ fs' = [fs EXCEPT !.save = None, !.modal = @ /\ ~fs.save.here,
                 !.late = IF fs.save.at = "done" THEN @ ELSE
                     [project |-> fs.save.project, rows |-> fs.save.rows]]

FsNext == \/ FsOpenPage \/ FsLeave \/ FsDeployed \/ FsOpen \/ FsClose
          \/ FsType \/ FsSave \/ FsServed \/ FsEnded

FsFair == WF_fs(FsEnded)
FsSpec == FsInit /\ [][FsNext]_fs /\ FsFair

FsTypeOK ==
    LET Sent == [project : Projects, rows : SUBSET Projects] IN
    fs \in [active : Projects \cup {None}, modal : BOOLEAN,
            typed : SUBSET Projects, saved : [Projects -> SUBSET Projects],
            save : {None} \cup
                [project : Projects, rows : SUBSET Projects, here : BOOLEAN,
                 at : {"sent", "done"}],
            coming : Projects \cup {None}, late : Sent \cup {None},
            moved : BOOLEAN]

\* The rows of a page, and what was saved for a project, were typed for it,
\* unless a deployment changed the project under the rows.
FsTypedForIt ==
    ~fs.moved => /\ fs.typed \subseteq {fs.active}
                 /\ \A p \in Projects : fs.saved[p] \subseteq {p}

=============================================================================
