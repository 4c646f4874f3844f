--------------------------- MODULE DashboardPanel ---------------------------
(***************************************************************************)
(* The two panels of dashboard-bento.tsx.                                  *)
(***************************************************************************)
EXTENDS WebParams

-----------------------------------------------------------------------------
(* The files (BuckstreamBentoContent): uploads, deletions and listings,     *)
(* each a chain of requests that nothing holds back while others run.       *)

\* A chain is an upload or a deletion that is followed by a listing, or a
\* listing alone (the mount and arcauth_login_success).  Its stage is the
\* request that is out, or answered by the server.
NoChain == [op |-> "none", file |-> None, stage |-> "none", snap |-> {}]
BsListing == [NoChain EXCEPT !.op = "list", !.stage = "list"]

\* files      on the server                 shown      assets
\* uploading, name   as in the component    chain      the chains
\* older      ghost: of each listing that is answered, those answered before it
\* crossed    ghost: a listing was taken before one answered earlier
\* failed     ghost: a request failed
VARIABLE bs

BsInit == \E f \in SUBSET Objects : bs =
    [files |-> f, shown |-> {}, uploading |-> FALSE, name |-> None,
     chain |-> [i \in Calls |-> IF i = 1 THEN BsListing ELSE NoChain],
     older |-> [i \in Calls |-> {}], crossed |-> FALSE, failed |-> FALSE]

\* The first chain that is free; which one it is does not matter.
BsFree(i) ==
    /\ bs.chain[i].op = "none"
    /\ \A j \in Calls : j < i => bs.chain[j].op # "none"

\* A file is chosen or dropped, also while another is uploaded.
BsUpload(f) == \E i \in Calls :
    /\ BsFree(i)
    /\ bs' = [bs EXCEPT !.uploading = TRUE, !.name = f,
              !.chain[i] = [NoChain EXCEPT !.op = "upload", !.file = f,
                                           !.stage = "sent"]]

BsDelete(f) == \E i \in Calls :
    /\ f \in bs.shown /\ BsFree(i)
    /\ bs' = [bs EXCEPT !.chain[i] =
                  [NoChain EXCEPT !.op = "delete", !.file = f, !.stage = "sent"]]

BsRelist == \E i \in Calls :
    BsFree(i) /\ bs' = [bs EXCEPT !.chain[i] = BsListing]

BsServed(i) ==
  LET c == bs.chain[i] IN
    /\ c.stage = "sent"
    /\ bs' = [bs EXCEPT !.chain[i].stage = "served",
                        !.files = IF c.op = "upload" THEN @ \cup {c.file}
                                  ELSE @ \ {c.file}]

\* Changed program: after a deletion the files are not fetched.
BsAnsweredNoRefresh(i) ==
    /\ bs.chain[i].stage = "served"
    /\ bs' = IF bs.chain[i].op = "delete"
             THEN [bs EXCEPT !.chain[i] = NoChain]
             ELSE [bs EXCEPT !.chain[i].stage = "list"]

\* The call succeeded: the files are fetched.
BsAnswered(i) ==
    /\ bs.chain[i].stage = "served"
    /\ bs' = [bs EXCEPT !.chain[i].stage = "list"]

\* The chain is at its end; that of an upload clears the flag, whatever other
\* upload has set it.
BsEnded(i, s) ==
    [s EXCEPT !.chain[i] = NoChain, !.older = Without(@, i),
              !.uploading = @ /\ s.chain[i].op # "upload"]

\* Changed program: an upload that fails leaves the flag.
BsFailedStuck(i) ==
    /\ bs.chain[i].stage \in {"sent", "served"}
    /\ bs' = [bs EXCEPT !.chain[i] = NoChain, !.failed = TRUE]

\* The call failed, with its effect or without: nothing is fetched.
BsFailed(i) ==
    /\ bs.chain[i].stage \in {"sent", "served"}
    /\ bs' = BsEnded(i, [bs EXCEPT !.failed = TRUE])

BsListServed(i) ==
    /\ bs.chain[i].stage = "list"
    /\ bs' = [bs EXCEPT !.chain[i].stage = "listed", !.chain[i].snap = bs.files,
                        !.older[i] = {j \in Calls : bs.chain[j].stage = "listed"}]

\* fetchAssets has its answer; a listing that fails shows no files.
BsListed(i) ==
    /\ bs.chain[i].stage \in {"list", "listed"}
    /\ \/ /\ bs.chain[i].stage = "listed"
          /\ bs' = BsEnded(i, [bs EXCEPT !.shown = bs.chain[i].snap,
                                       !.crossed = @ \/ bs.older[i] # {}])
       \/ bs' = BsEnded(i, [bs EXCEPT !.shown = {}, !.failed = TRUE])

\* The next step of a chain that is under way.
BsStep(i) ==
    \/ BsServed(i) \/ BsAnswered(i) \/ BsFailed(i)
    \/ BsListServed(i) \/ BsListed(i)

BsNext ==
    \/ \E f \in Objects : BsUpload(f) \/ BsDelete(f)
    \/ BsRelist
    \/ \E i \in Calls : BsStep(i)

\* Every request is answered or fails.
BsFair == \A i \in Calls : WF_bs(BsStep(i))
BsSpec == BsInit /\ [][BsNext]_bs /\ BsFair

BsTypeOK ==
    LET Chain == [op : {"none", "upload", "delete", "list"},
                  file : Objects \cup {None},
                  stage : {"none", "sent", "served", "list", "listed"},
                  snap : SUBSET Objects] IN
    bs \in [files : SUBSET Objects, shown : SUBSET Objects,
            uploading : BOOLEAN, name : Objects \cup {None},
            chain : [Calls -> Chain], older : [Calls -> SUBSET Calls],
            crossed : BOOLEAN, failed : BOOLEAN]

BsQuiet == \A i \in Calls : bs.chain[i].op = "none"

\* When no request failed and the listings arrived in the order in which the
\* server answered them, a page that waits for nothing shows the files of the
\* server, however uploads and deletions overlapped.
BsAgrees == BsQuiet /\ ~bs.failed /\ ~bs.crossed => bs.shown = bs.files

-----------------------------------------------------------------------------
(* The charts (ChartsBentoContent) while sessions come and go under them: a *)
(* login and a logout are two events each, and each event is a fetch with   *)
(* the token there is then.                                                 *)

\* token  of localStorage      data   whose metrics are charted
\* fetch  how many queries are out with the token of each user
\* late   ghost: the last answer taken was to another token than the present
VARIABLE ch

ChInit == \E u \in Users :
    ch = [token |-> u, data |-> None, late |-> FALSE,
          fetch |-> [v \in Users |-> IF v = u THEN 1 ELSE 0]]

\* arcauth_login_success and authx_login_success.
ChLogin == \E u \in Users :
    /\ ch.fetch[u] + 2 <= 2 * MaxCalls
    /\ ch' = [ch EXCEPT !.token = u, !.fetch[u] = @ + 2]

\* Changed program: the charts hear of logins only.
ChLogoutUnheard == ch.token # None /\ ch' = [ch EXCEPT !.token = None]

\* arcauth_logout and authx_logout: without a token both fetches clear.
ChLogout ==
    /\ ch.token # None
    /\ ch' = [ch EXCEPT !.token = None, !.data = None, !.late = FALSE]

\* getTelemetryMetrics never fails; a query that did has nothing, and nothing
\* clears the charts.  What it has goes into the charts of whoever is there.
ChAnswered == \E u \in Users, d \in {TRUE, FALSE} :
    /\ ch.fetch[u] > 0
    /\ ch' = [ch EXCEPT !.fetch[u] = @ - 1,
                        !.data = IF d THEN u ELSE None,
                        !.late = d /\ u # ch.token]

ChNext == ChLogin \/ ChLogout \/ ChAnswered

ChSpec == ChInit /\ [][ChNext]_ch /\ WF_ch(ChAnswered)

ChTypeOK ==
    ch \in [token : Users \cup {None}, data : Users \cup {None},
            late : BOOLEAN, fetch : [Users -> 0 .. 2 * MaxCalls]]

\* The metrics of another user than the one who is logged in, and metrics
\* without a login, are charted after an answer that came late only, or while
\* the queries of a login are out: not after a logout that was heard.
ChWhose ==
    \/ ch.data \in {None, ch.token} \/ ch.late
    \/ ch.token # None /\ ch.fetch[ch.token] > 0
=============================================================================
