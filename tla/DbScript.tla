------------------------------ MODULE DbScript ------------------------------
(***************************************************************************)
(* The queries of the database cards (db-bento.tsx): the size shown for    *)
(* postgres and the SQL script editor, with the part of dbmux.ts they go   *)
(* through.  Every statement runs in the database of the tenant whom       *)
(* localStorage names when it is sent (getTenantId), and executeSQL        *)
(* answers at once with nothing when it names none.                        *)
(*                                                                         *)
(* A size is the tenant it was measured for; a script is whether it holds  *)
(* a statement at all.                                                     *)
(***************************************************************************)
EXTENDS WebParams

Tenants == Users \cup {None}

\* tab    the tenant of localStorage        user   the component's user
\* loads  size queries of the cards, by tenant
\* size   whose size postgres is shown with
\* editor showSqlEditorModal, over the modal of postgres
\* script the text: "none", "blank" (comments only) or "sql"
\* run    the script or the size query after it that is under way, and for
\*        whom: isExecutingSql
\* told   sqlMessage    ran  the server took the script this message is about
VARIABLE sc

Still == [step |-> "none", tenant |-> None, script |-> "none"]

ScMounted(u) ==
    [tab |-> u, user |-> u, loads |-> [t \in Users |-> IF t = u THEN 1 ELSE 0],
     size |-> None, editor |-> FALSE, script |-> "none", run |-> Still,
     told |-> "none", ran |-> FALSE]

ScInit == \E u \in Users : sc = ScMounted(u)

\* executeSQL reaches the server: with a tenant and at least one statement.
Reaches(tenant, script) == tenant # None /\ script = "sql"

\* The quota bar is shown to a user for a managed postgres.
QuotaShown == sc.user # None

-----------------------------------------------------------------------------
(* The session and the size of the cards *)

ScArrive(u) == sc' = ScMounted(u)

\* A login event, or the one of Navbar's Sign Out.
ScHear(u) ==
    /\ u # None => sc.loads[u] < MaxCalls
    /\ sc' = IF u = None
             THEN [sc EXCEPT !.tab = u, !.user = u, !.size = None]
             ELSE [sc EXCEPT !.tab = u, !.user = u, !.loads[u] = @ + 1]

\* arcauth.logout() and the logins of other tabs: no event the panel hears.
ScUnheard(u) == sc' = [sc EXCEPT !.tab = u]

\* A failed query shows a size of 0, which is nobody's.
ScSized(u) ==
    /\ sc.loads[u] > 0
    /\ \E size \in {u, None} :
          sc' = [sc EXCEPT !.loads[u] = @ - 1, !.size = size]

-----------------------------------------------------------------------------
(* The script editor *)

EditorShown == sc.editor /\ sc.user # None

ScOpen == sc.user # None /\ ~sc.editor /\ sc' = [sc EXCEPT !.editor = TRUE]
ScClose == EditorShown /\ sc' = [sc EXCEPT !.editor = FALSE]

\* The text can be edited while a script runs, the button can not be used.
ScType(s) == EditorShown /\ sc' = [sc EXCEPT !.script = s]
CanExecute == EditorShown /\ sc.run = Still /\ sc.script # "none"

ScExecute ==
    /\ CanExecute
    /\ sc' = [sc EXCEPT !.run = [step |-> "script", tenant |-> sc.tab, script |-> sc.script],
                        !.told = "none", !.ran = FALSE]

\* The script succeeds: the text goes, whatever it is by now, and the size is
\* asked for, for the tenant of now.
ScScriptDone ==
    /\ sc.run.step = "script"
    /\ sc' = [sc EXCEPT !.told = "ok", !.script = "none",
                        !.ran = Reaches(sc.run.tenant, sc.run.script),
                        !.run = [step |-> "size", tenant |-> sc.tab, script |-> "none"]]

\* Refused or unreachable, which an executeSQL that sends nothing never is.
ScScriptFailed ==
    /\ sc.run.step = "script" /\ Reaches(sc.run.tenant, sc.run.script)
    /\ \E ran \in BOOLEAN : sc' = [sc EXCEPT !.told = "failed", !.ran = ran, !.run = Still]

ScSizeDone ==
    /\ sc.run.step = "size"
    /\ \E size \in {sc.size} \cup ({sc.run.tenant} \ {None}) :
          sc' = [sc EXCEPT !.size = size, !.run = Still]

\* The message of the script is replaced by that of the size query.
ScSizeFailed ==
    /\ sc.run.step = "size" /\ sc.run.tenant # None
    /\ sc' = [sc EXCEPT !.told = "failed", !.run = Still]

-----------------------------------------------------------------------------
ScNext ==
    \/ \E u \in Users : ScArrive(u) \/ ScSized(u)
    \/ \E u \in Tenants : ScHear(u) \/ ScUnheard(u)
    \/ \E s \in {"none", "blank", "sql"} : ScType(s)
    \/ ScOpen \/ ScClose \/ ScExecute \/ ScScriptDone \/ ScScriptFailed
    \/ ScSizeDone \/ ScSizeFailed

\* The queries are answered or fail.
ScFairness ==
    /\ WF_sc(ScScriptDone \/ ScScriptFailed) /\ WF_sc(ScSizeDone \/ ScSizeFailed)
    /\ \A u \in Users : WF_sc(ScSized(u))

ScSpec == ScInit /\ [][ScNext]_sc /\ ScFairness

ScTypeOK ==
    LET Script == {"none", "blank", "sql"} IN
    sc \in [tab : Tenants, user : Tenants, size : Tenants,
            loads : [Users -> 0 .. MaxCalls + 1],
            editor : BOOLEAN, ran : BOOLEAN, script : Script,
            run : [step : {"none", "script", "size"}, tenant : Tenants,
                   script : Script],
            told : {"none", "ok", "failed"}]

-----------------------------------------------------------------------------
(* "Download Schema" of a database (handleDownloadSchema): the provider's  *)
(* configuration is asked for, then for postgres its columns, and a file is*)
(* delivered.  Downloads share nothing, so that one at a time is enough.   *)

\* step    the request that is out        db   the database of the click
\* config  what getBackendConfig returned: a provider of the server, or the
\*         one it makes up
\* tenant  whom localStorage named when the columns were asked for
\* file    what the last file was made from
VARIABLE dn

DnIdle == [step |-> "none", db |-> "none", config |-> "none", tenant |-> None,
           file |-> "none"]

DnInit == dn = DnIdle

DnClick(d) ==
    /\ dn.step = "none"
    /\ dn' = [DnIdle EXCEPT !.step = "config", !.db = d]

\* The switch over the kinds of database: every case delivers a file made
\* from the configuration.
DnFromConfig(c) == [dn EXCEPT !.step = "none", !.config = c, !.file = c]

\* getBackendConfig never fails: without an answer, or without the provider in
\* it, it makes one up that is active.  Only postgres has columns to ask for.
DnConfigured ==
    /\ dn.step = "config"
    /\ \E c \in {"fetched", "invented"}, u \in Users \cup {None} :
          dn' = IF dn.db = "postgres"
                THEN [dn EXCEPT !.step = "columns", !.config = c, !.tenant = u]
                ELSE DnFromConfig(c)

\* Changed program: a query that fails ends the download.
DnColumnsThrow ==
    /\ dn.step = "columns"
    /\ \E f \in {"live", "none"} : dn' = [dn EXCEPT !.step = "none", !.file = f]

\* The live definitions when there are rows; the configuration when there are
\* none, when there is no tenant or when the query failed.
DnColumns ==
    /\ dn.step = "columns"
    /\ \/ dn.tenant # None /\ dn' = [dn EXCEPT !.step = "none", !.file = "live"]
       \/ dn' = DnFromConfig(dn.config)

DnNext ==
    \/ \E d \in {"postgres", "redis", "mysql", "mongodb", "vector"} : DnClick(d)
    \/ DnConfigured \/ DnColumns

DnSpec == DnInit /\ [][DnNext]_dn /\ WF_dn(DnConfigured \/ DnColumns)

\* A click that waits for nothing has delivered a file, whatever failed on the
\* way, and definitions that are called live are those of a tenant of postgres
\* (db-bento.tsx:308-423).
DnDelivered ==
    /\ dn.step = "none" /\ dn.db # "none" => dn.file # "none"
    /\ dn.file = "live" => dn.db = "postgres" /\ dn.tenant # None

=============================================================================
