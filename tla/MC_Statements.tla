--------------------------- MODULE MC_Statements ---------------------------
(***************************************************************************)
(* What the pages say, or a comment says of them, and TLC refutes: labels, *)
(* messages and comments that are quoted at their line, and a few things a *)
(* user would expect.  MC_Statements.cfg checks CreatedIsShown of the      *)
(* panel "kp"; any other is checked by putting its name there, as an       *)
(* INVARIANT where it is of one state, and the name of its panel.          *)
(***************************************************************************)
EXTENDS Workspace

CONSTANT Looked  \* the panel a statement is about

MCSpec == panel = Looked /\ WsInit /\ [][WsNext]_webVars

-----------------------------------------------------------------------------
(* The databases (db-bento.tsx) *)

\* "Toggle Mode - Enforces DSN requirement for BYODB" (db-bento.tsx:281): a
\* database in BYODB mode has a DSN.
ByodHasDsn == \A d \in Dbs : db.saved[d].mode = "byod" => db.saved[d].dsn # None

\* "BYOD Active" (db-bento.tsx:530): a card that says so has a DSN.
ActiveHasDsn ==
    \A d \in Dbs : DbLabel(d) = "BYOD Active" => db.card[d].dsn # None

\* The mode the switch shows for mysql, mongodb and vector is that of a reload.
ModeSurvivesReload ==
    db.user # None /\ db.loads = 0 =>
        \A d \in DsnDbs : db.card[d].status = Restored(db.saved, d)

\* The modal says the mode its database has ("Current Mode:", line 618).
ModalShowsMode ==
    DetailShown /\ db.loads = 0 => db.modal.status = db.card[db.modal.db].status

\* The end of a registration closes the modal of its own database only.
ClosesItsOwn ==
    [][db.reg # NoReg /\ db'.reg = NoReg /\ DetailShown /\ db'.modal = NoModal
       /\ db'.saved # db.saved => db.modal.db = db.reg.db]_db

\* A user is shown no DSN that another user registered.
OwnDsnOnly == db.user # None => \A d \in Dbs : db.card[d].dsn \in {db.user, None}

\* A DSN that is stored is on the card, also when the page of its registration
\* was left.
StoredIsShown ==
    db.user # None /\ db.loads = 0 =>
        \A d \in Dbs : db.card[d].dsn = db.saved[d].dsn

\* "Unconfigured baseline when no user is logged in" (db-bento.tsx:40).
BaselineWithoutUser == db.user = None => db.card = Unconfigured

\* "Executed successfully!" (db-bento.tsx:433) is said of a script that ran.
SuccessMeansRan == sc.told = "ok" => sc.ran

\* "SQL Execution failed" (db-bento.tsx:448) is said of a script that did not.
FailureMeansNot == sc.told = "failed" => ~sc.ran

\* "Tenant: <email>" (db-bento.tsx:483): a script runs for the user shown.
RunsAsShown == sc.run.step = "script" => sc.run.tenant = sc.user

\* When nothing is under way the size shown is that of the user shown.
SizeIsOfUser ==
    (\A u \in Users : sc.loads[u] = 0) /\ sc.run = Still /\ QuotaShown
        => sc.size \in {sc.user, None}

\* Only the script that succeeded is erased from the editor.
TypedIsKept ==
    [][sc.script # "none" /\ sc'.script = "none" /\ sc.run.step = "script"
       /\ sc'.told = "ok"
          => sc.script = sc.run.script]_sc

\* "(Fetched Live via DBMux RPC API)" (db-bento.tsx:348, 369): the
\* configuration in a file is one the server gave.
LiveMeansFetched == dn.file # "invented"

-----------------------------------------------------------------------------
(* API keys (api-key-bento.tsx) *)

\* "Copy this API key now. It is shown ONE TIME ONLY" (api-key-bento.tsx:237):
\* the answer to a creation shows the key it made.
CreatedIsShown ==
    [][\A i \in Creations :
          kp.create[i] = "made" /\ i \in ToSet(kp'.rows) \ ToSet(kp.rows)
              => kp'.shown = i]_kp

\* "Save Your API Key" (api-key-bento.tsx:187): what is shown is a key of the
\* server.
ShownIsAKey == kp.shown # None => kp.shown \in 0 .. MaxKeys

\* "Revoke API Key" (api-key-bento.tsx:170): a row that is gone after a
\* revocation is a key that is gone.
RevokedIsRevoked ==
    [][\A k \in 0 .. MaxKeys :
          k \in ToSet(kp.rows) \ ToSet(kp'.rows) /\ kp'.list = kp.list
              => k \notin kp.live]_kp

\* A key that was created stays in the rows until it is revoked.
CreatedStays ==
    [][\A k \in Creations :
          k \in ToSet(kp.rows) \ ToSet(kp'.rows) => kp.del # {}]_kp

\* No key is in two rows.
OneRow == \A i, j \in DOMAIN kp.rows : kp.rows[i] = kp.rows[j] => i = j

-----------------------------------------------------------------------------
(* Files and charts (dashboard-bento.tsx) *)

\* A file whose deletion succeeded does not come back to the page.
DeletedStays ==
    [][\A f \in Names :
          f \notin bs.files /\ f \notin bs.shown => f \notin bs'.shown]_bs

\* "Uploading to Backblaze..." (dashboard-bento.tsx:392): the card says so
\* while a file is uploaded.
UploadingIsSaid ==
    (\E i \in Calls : bs.chain[i].op = "upload") => bs.uploading

\* Without a token the charts are empty (dashboard-bento.tsx:57-61).
LoggedOutIsEmpty == ch.token = None => ch.data = None

-----------------------------------------------------------------------------
(* Tables, SQL drawer and schema *)

\* "Columns for <table>" (tables-page.tsx:247): what is listed are its columns.
ViewedAreTheColumns == tb.viewed # None => 
    tb.live[tb.viewed] \in {"none", ViewedColumns(tb.viewed)}

\* A creation that ends without an error made its table.
EndedIsMade ==
    [][tb.sent # NoTable /\ tb'.sent = NoTable /\ tb'.error = "none"
          => tb.sent.made]_tb

\* Only its own creation closes the drawer and empties its form.
DrawerStays ==
    [][tb.open /\ ~tb'.open /\ tb'.name # tb.name => tb.name = tb.sent.name]_tb

\* A drawer that is opened has no error of an earlier one.
OpensWithoutError == [][~tb.open /\ tb'.open => tb'.error = "none"]_tb

\* A form the drawer lets be saved is one the database can take.
SavableIsAccepted ==
    [][tb.sent = NoTable /\ tb'.sent # NoTable => tb'.sent.form # "keys"]_tb

\* A page that waits for nothing lists the tables there are: not after the SQL
\* drawer that its own button opens has made or dropped one.
ListedAreThere ==
    (\A i \in Calls : tb.fetch[i] = TbNoFetch) /\ ~tb.failed /\ ~tb.crossed
        => tb.shown \subseteq {t \in Tables : tb.live[t] # "none"}

\* "0 rows returned." (sql-drawer.tsx:250) is said of a run without rows.
ZeroMeansNone ==
    sq.results = "0 rows" /\ sq.ran /\ (\A i \in Calls : sq.run[i] = "none")
        => ~sq.rows

\* "Auto-saved draft" (sql-drawer.tsx:205): a page that is loaded again has
\* the query it had.
DraftSurvives ==
    [][(\E t \in BOOLEAN : sq' = SqLoaded(t, sq.draft))
          => sq'.query = sq.query]_sq

\* The page behind is locked under a drawer that is seen.
LockedUnderDrawer == sq.locked => Visible

\* The button can be used when no query runs only (sql-drawer.tsx:213).
RunningIsSaid == (\E i \in Calls : sq.run[i] # "none") => sq.executing

\* Every edge that is drawn is between two tables that are.
EdgesHaveEnds == \A e \in sv.edges : {e[1], e[2]} \subseteq sv.nodes

\* A fetch whose queries succeed shows its tables.
FetchedIsDrawn ==
    [][\A i \in SvOut : Complete(i) /\ sv'.fetch[i] = SvNoFetch
          => sv'.nodes = sv.fetch[i].tables]_sv

\* "Connecting..." covers the page while a fetch is out.
LoadingIsSaid == SvOut # {} => sv.loading

-----------------------------------------------------------------------------
(* The BuckStream demo (demo/src/App.tsx) and that of the ArcAuth page *)

\* "Full key already includes uploads/ prefix" (App.tsx:69): the key that an
\* upload leaves to be retrieved is the key of an object.
LeftKeyIsFull == df.left # DfNoKey => df.left.full

\* "(Size <= 5MB)" next to the strategy (App.tsx:225) is said of an upload
\* that went through the broker.
SizeIsOfTheUpload ==
    df.method # "none" => (df.method = "proxy" <=> df.selected \in Small)

\* "Refreshing..." means that the list is fetched (App.tsx:243).
RefreshingIsSaid == (\E i \in Calls : df.call[i].op = "list") => df.listing

\* The preview is rendered by the type of what is previewed.
MimeIsOfTheBlob == dp.blob # None => dp.mime = dp.blob

\* "Save to Disk" saves what is previewed under its own name (App.tsx:351).
SavedUnderItsName == dp.saved.blob = dp.saved.key.name

\* "Retrieving..." is said while a retrieval is out (App.tsx:340).
RetrievingIsSaid == (\E i \in Calls : dp.get[i] # NoGet) => dp.loading

\* The token is of the address that "OTP sent to" names, also when that was
\* made blank while "Sending...".
OdTokenOfNamed == od.step = "done" => od.token = od.email

\* "Verifying..." (arcauth-page.tsx:223): it is said while a timer runs.
OdVerifyingIsSaid == od.loading => od.timer # NoTimer

\* "Enter 6-digit code" (arcauth-page.tsx:212) asks for none.
OdCodeIsEntered == od.timer.op = "verify" => od.code

-----------------------------------------------------------------------------
(* The Frontedge console *)

\* "Visit Site" (frontedge-project-detail.tsx:132): the site opened on the
\* page of a project is that project's.
VisitsTheProject == FpOn("project_detail") => FpLive = fp.active

\* "Fetching edge projects from Cloudflare Pages..."
\* (frontedge-projects-list.tsx:106): it is said while a list is awaited.
FetchingIsSaid ==
    (\E c \in Calls : fp.lists[c].at # "idle") => fp.loading

\* A project's page is left by the user's own step.
OnlyTheUserLeaves ==
    [][fp.screen = "project_detail" /\ fp'.screen = "project_detail"
           => fp'.active = fp.active]_fp

\* "Redeploy Project" (frontedge-project-detail.tsx:140): what is redeployed
\* is the repository of the project that is shown.
RedeploysTheProject ==
    fb.redo # None /\ fb.status = "known" => fb.redo.of = <<"own", fb.redo.for>>

\* "Deployment History" (frontedge-project-detail.tsx:228): when no fetch
\* failed and the account is known, the page shows the history of its project.
ShowsTheProject ==
    fb.active # None /\ ~FbBusy /\ ~fb.failed /\ ~fb.misled
        => fb.shown \in {<<"own", fb.active>>, None}

\* "Click any build to view clean Vercel-style build terminal logs"
\* (frontedge-project-detail.tsx:229): an unfolded build has its log or is
\* loading it.
ClickShowsLogs ==
    fl.expanded # FlNone => FlTerminal # "No log output available"

\* "Loading sanitized GitHub Actions build logs..."
\* (frontedge-project-detail.tsx:325): it is said while a log is awaited.
LoadingIsShown == \A b \in Builds : fl.asks[b] > 0 => b \in fl.loading

\* "Restore draft from sessionStorage on mount"
\* (frontedge-create-project.tsx:66): the form has what the draft has.
DraftIsRestored ==
    [][~ff.mounted /\ ff'.mounted /\ ff.draft # None
           => ff'.form = ff.draft.form]_ff

\* "Persist form state to sessionStorage on every change"
\* (frontedge-create-project.tsx:87): the draft is what the form has.
DraftIsTheForm == ff.mounted => ff.draft = FfKept(ff.form, ff.repo)

\* "Environment Secrets - {activeProject}"
\* (frontedge-project-detail.tsx:358): a project has what was typed for it.
SavedIsTypedForIt == \A p \in Projects : fs.saved[p] \subseteq {p}

\* The modal is closed by the user or by the save that was started in it.
ClosedByItsSave ==
    [][fs.modal /\ ~fs'.modal /\ fs.save # None /\ fs'.save = None
           => fs.save.project = fs.active /\ fs.save.rows = fs.typed]_fs
=============================================================================
