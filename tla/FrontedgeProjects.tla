-------------------------- MODULE FrontedgeProjects --------------------------
(***************************************************************************)
(* The projects of the Frontedge console (frontedge-console.tsx), which    *)
(* one component shows on three routes: the cards, the form that deploys a *)
(* new one and the page of one, against the projects that Cloudflare has.  *)
(***************************************************************************)
EXTENDS WebParams

Deployments == [project : Projects, at : {"sent", "made", "refused"}]

ASSUME FrontedgeProjectsAssumption == None \notin Deployments

\* screen, active  the route              status   the call of the mount
\* made      the projects of Cloudflare   cards    projects
\* lists     calls of fetchProjects       loading  loadingProjects
\* picked    selectedProjectObj           deploy   the deployment under way
\* error     "error" is not blank         late     deployments given up that
\*                                                 the server will come to
\* failed    ghost: a call failed         crossed  ghost: two lists at once
VARIABLE fp

FpIdle == [at |-> "idle", seen |-> {}]

FpInit ==
    \E made \in SUBSET Projects, screen \in {"dashboard", "new_project"} \cup Projects :
       fp = [screen |-> IF screen \in Projects THEN "project_detail" ELSE screen,
             active |-> IF screen \in Projects THEN screen ELSE None,
             status |-> "asked", made |-> made, cards |-> {},
             lists |-> [c \in Calls |-> FpIdle], loading |-> FALSE,
             picked |-> None, deploy |-> None, error |-> FALSE, late |-> {},
             failed |-> FALSE, crossed |-> FALSE]

\* fetchProjects in a free slot.
FpFetch(state, c) ==
    [state EXCEPT !.lists[c] = [FpIdle EXCEPT !.at = "sent"], !.loading = TRUE,
                  !.crossed = @ \/ \E d \in Calls : state.lists[d].at # "idle"]

\* fetchStatus: the projects are listed when Cloudflare is configured.
FpStatus ==
    /\ fp.status = "asked"
    /\ \/ \E c \in Calls :
             /\ fp.lists[c].at = "idle"
             /\ fp' = FpFetch([fp EXCEPT !.status = "done"], c)
       \/ fp' = [fp EXCEPT !.status = "done", !.failed = TRUE]

FpListServed ==
    \E c \in Calls :
       /\ fp.lists[c].at = "sent"
       /\ fp' = [fp EXCEPT !.lists[c] = [at |-> "served", seen |-> fp.made]]

FpListed ==
    \E c \in Calls :
       /\ fp.lists[c].at # "idle"
       /\ \/ /\ fp.lists[c].at = "served"
             /\ fp' = [fp EXCEPT !.lists[c] = FpIdle, !.loading = FALSE,
                                 !.cards = fp.lists[c].seen]
          \/ fp' = [fp EXCEPT !.lists[c] = FpIdle, !.loading = FALSE,
                              !.failed = TRUE]

\* Until the status is there a spinner stands for every screen.
FpOn(screen) == fp.status = "done" /\ fp.screen = screen

\* A card is there unless a list is under way.
FpCard ==
    /\ FpOn("dashboard") /\ ~fp.loading
    /\ \E p \in fp.cards :
          fp' = [fp EXCEPT !.picked = p, !.active = p,
                           !.screen = "project_detail"]

FpNew == FpOn("dashboard") /\ fp' = [fp EXCEPT !.screen = "new_project"]

FpBack ==
    /\ fp.status = "done" /\ fp.screen # "dashboard"
    /\ fp' = [fp EXCEPT !.screen = "dashboard", !.active = None]

FpDeploy ==
    /\ FpOn("new_project") /\ fp.deploy = None
    /\ \E p \in Projects :
          fp' = [fp EXCEPT !.deploy = [project |-> p, at |-> "sent"],
                           !.error = FALSE]

\* handleDeploy of the server: whether Cloudflare made the project is not
\* looked at, and only the commit of the workflow can refuse the deployment.
FpDeployServed ==
    \E to \in {"made", "refused"}, add \in BOOLEAN :
       \/ /\ fp.deploy # None /\ fp.deploy.at = "sent"
          /\ fp' = [fp EXCEPT !.deploy.at = to, !.failed = @ \/ ~add,
                       !.made = @ \cup IF add THEN {fp.deploy.project} ELSE {}]
       \/ \E p \in fp.late :
             fp' = [fp EXCEPT !.late = @ \ {p},
                              !.made = @ \cup IF add THEN {p} ELSE {}]

\* Changed program: the projects are not listed again.
FpDeployedNoFetch ==
    /\ fp.deploy # None /\ fp.deploy.at = "made"
    /\ fp' = [fp EXCEPT !.deploy = None, !.screen = "project_detail",
                        !.active = fp.deploy.project]

\* The page becomes that of the project, whatever the user was at.
FpDeployed ==
    /\ fp.deploy # None /\ fp.deploy.at = "made"
    /\ \E c \in Calls :
          /\ fp.lists[c].at = "idle"
          /\ fp' = FpFetch([fp EXCEPT !.deploy = None,
                                      !.screen = "project_detail",
                                      !.active = fp.deploy.project], c)

FpDeployFailed ==
    /\ fp.deploy # None /\ fp.deploy.at \in {"sent", "refused"}
    /\ fp' = [fp EXCEPT !.deploy = None, !.error = TRUE, !.failed = TRUE,
                        !.late = @ \cup IF fp.deploy.at = "sent"
                                        THEN {fp.deploy.project} ELSE {}]

FpNext ==
    \/ FpStatus \/ FpListServed \/ FpListed \/ FpCard \/ FpNew \/ FpBack
    \/ FpDeploy \/ FpDeployServed \/ FpDeployed \/ FpDeployFailed

\* Every call is answered or fails; no one has to click.
FpFair == WF_fp(FpStatus) /\ WF_fp(FpListed)
          /\ WF_fp(FpDeployed \/ FpDeployFailed)
FpSpec == FpInit /\ [][FpNext]_fp /\ FpFair

FpTypeOK ==
    fp \in [screen : {"dashboard", "new_project", "project_detail"},
            active : Projects \cup {None}, status : {"asked", "done"},
            made : SUBSET Projects, cards : SUBSET Projects,
            lists : [Calls -> [at : {"idle", "sent", "served"},
                               seen : SUBSET Projects]],
            loading : BOOLEAN, picked : Projects \cup {None},
            deploy : {None} \cup Deployments,
            error : BOOLEAN, late : SUBSET Projects, failed : BOOLEAN,
            crossed : BOOLEAN]

FpQuiet ==
    /\ fp.status = "done" /\ fp.deploy = None
    /\ \A c \in Calls : fp.lists[c].at = "idle"

\* The cards of a console that waits for nothing are Cloudflare's projects,
\* unless a call failed or two lists were under way at once.
FpAgrees == FpQuiet /\ ~fp.failed /\ ~fp.crossed => fp.cards = fp.made

\* liveUrl: the site that "Visit Site" of a project's page opens.
FpLive == IF fp.active \notin fp.cards /\ fp.picked # None
          THEN fp.picked ELSE fp.active

=============================================================================
