------------------------------ MODULE Workspace ------------------------------
(***************************************************************************)
(* The panels of the web applications side by side: those of the dashboard *)
(* and its studio, those of the demos and those of the Frontedge console.  *)
(* Each keeps a state of its own and reads no other's.  What they share is *)
(* outside of them, the session in localStorage and what the servers keep, *)
(* and what another panel, another tab or another page does to it is a     *)
(* step of each panel that can meet it (TbElsewhere, SvSchema, FlBuild,    *)
(* KpCreateServed).  A behaviour of the workspace is therefore, for each   *)
(* panel, a behaviour of that panel, and it is enough to look at one panel *)
(* at a time while the others stand as they were mounted.                  *)
(***************************************************************************)
EXTENDS DbPanel, DbScript, KeysPanel, DashboardPanel, DemoFiles,
        DemoPreview, TablesPage, SqlDrawer, SchemaPage, FrontedgeProjects,
        FrontedgeDetail, FrontedgeForm, OtpDemo

VARIABLE panel  \* the panel that is looked at

Panels == {"db", "sc", "dn", "kp", "bs", "ch", "df", "dp", "tb", "sq", "sv",
           "fp", "fb", "fl", "ff", "fs", "od"}

webVars == <<panel, db, sc, dn, kp, bs, ch, df, dp, tb, sq, sv, fp, fb, fl, ff, fs, od>>

\* Whatever the users of a panel that is not looked at: one is as good as
\* another.
Anyone == CHOOSE u \in Users : TRUE

WsInit ==
    /\ panel \in Panels
    /\ DbInit /\ (panel # "db" => db.user = CHOOSE u \in Owners : TRUE)
    /\ ScInit /\ (panel # "sc" => sc.user = Anyone)
    /\ DnInit /\ KpInit /\ DpInit /\ SqInit
    /\ BsInit /\ (panel # "bs" => bs.files = {})
    /\ ChInit /\ (panel # "ch" => ch.token = Anyone)
    /\ DfInit /\ (panel # "df" => df.files = {})
    /\ TbInit /\ (panel # "tb" => \A n \in Tables : tb.live[n] = "none")
    /\ SvInit /\ (panel # "sv" => sv.tables = {})
    /\ FpInit /\ (panel # "fp" => fp.made = {} /\ fp.screen = "dashboard")
    /\ FbInit /\ (panel # "fb" => fb.active = None)
    /\ FlInit /\ (panel # "fl" => fl.made = 0)
    /\ FfInit
    /\ FsInit /\ (panel # "fs" => fs.active = None /\ fs.coming = None)
    /\ OdInit

\* A step of the panel p leaves the others alone.
WsOnly(p) ==
    /\ panel = p /\ UNCHANGED panel
    /\ p # "db" => UNCHANGED db
    /\ p # "sc" => UNCHANGED sc
    /\ p # "dn" => UNCHANGED dn
    /\ p # "kp" => UNCHANGED kp
    /\ p # "bs" => UNCHANGED bs
    /\ p # "ch" => UNCHANGED ch
    /\ p # "df" => UNCHANGED df
    /\ p # "dp" => UNCHANGED dp
    /\ p # "tb" => UNCHANGED tb
    /\ p # "sq" => UNCHANGED sq
    /\ p # "sv" => UNCHANGED sv
    /\ p # "fp" => UNCHANGED fp
    /\ p # "fb" => UNCHANGED fb
    /\ p # "fl" => UNCHANGED fl
    /\ p # "ff" => UNCHANGED ff
    /\ p # "fs" => UNCHANGED fs
    /\ p # "od" => UNCHANGED od

WsNext ==
    \/ WsOnly("db") /\ DbNext
    \/ WsOnly("sc") /\ ScNext
    \/ WsOnly("dn") /\ DnNext
    \/ WsOnly("kp") /\ KpNext
    \/ WsOnly("bs") /\ BsNext
    \/ WsOnly("ch") /\ ChNext
    \/ WsOnly("df") /\ DfNext
    \/ WsOnly("dp") /\ DpNext
    \/ WsOnly("tb") /\ TbNext
    \/ WsOnly("sq") /\ SqNext
    \/ WsOnly("sv") /\ SvNext
    \/ WsOnly("fp") /\ FpNext
    \/ WsOnly("fb") /\ FbNext
    \/ WsOnly("fl") /\ FlNext
    \/ WsOnly("ff") /\ FfNext
    \/ WsOnly("fs") /\ FsNext
    \/ WsOnly("od") /\ OdNext
=============================================================================
