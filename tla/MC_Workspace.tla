---------------------------- MODULE MC_Workspace ----------------------------
(* The panels, one at a time, and the properties of each put together by    *)
(* what they are about.                                                     *)
EXTENDS Workspace

WsTypeOK ==
    /\ DbTypeOK /\ ScTypeOK /\ KpTypeOK /\ BsTypeOK /\ ChTypeOK
    /\ DfTypeOK /\ DpTypeOK /\ TbTypeOK /\ SqTypeOK /\ SvTypeOK
    /\ FpTypeOK /\ FbTypeOK /\ FlTypeOK /\ FfTypeOK /\ FsTypeOK
    /\ OdTypeOK

\* Of the fairness of each panel's own specification, what BusyEnds needs: the
\* nth of the calls and timers of a panel that is each fair by itself.  Only the
\* panel that is looked at moves, so that a condition on the actions of several
\* panels is one on those of each.
WsCall(n) ==
    \/ /\ n = 1
       /\ \/ WsOnly("db") /\ (DbRegistered \/ DbRefused)
          \/ WsOnly("sc") /\ (ScScriptDone \/ ScScriptFailed)
          \/ WsOnly("dn") /\ (DnConfigured \/ DnColumns)
          \/ WsOnly("kp") /\ KpCopyTimer
          \/ WsOnly("fp") /\ FpListed
          \/ WsOnly("fb") /\ FbRedeployed
          \/ WsOnly("ff") /\ FfDeployed
          \/ WsOnly("fs") /\ FsEnded
          \/ WsOnly("od") /\ (OdSent \/ OdVerified \/ OdThrown)
    \/ /\ n = 2
       /\ \/ WsOnly("sc") /\ (ScSizeDone \/ ScSizeFailed)
          \/ WsOnly("fp") /\ (FpDeployed \/ FpDeployFailed)
          \/ WsOnly("od") /\ OdCopyTimer
    \/ /\ n = MaxCalls + 1
       /\ \/ WsOnly("fp") /\ FpStatus
          \/ WsOnly("sv") /\ SvCopyTimer
          \/ WsOnly("tb") /\ TbAnswer
    \/ /\ n \in Calls
       /\ \/ WsOnly("bs") /\ BsStep(n)
          \/ WsOnly("df") /\ DfStep(n)
          \/ WsOnly("dp") /\ DpStep(n)
          \/ WsOnly("sq") /\ SqStep(n)
          \/ WsOnly("sv") /\ SvStep(n)
          \/ WsOnly("tb") /\ TbStep(n)
    \/ n \in Builds /\ WsOnly("fl") /\ FlLogged(n)

\* With two calls of a kind and two builds, these are three.
WsFair == \A n \in 1 .. 3 : WF_webVars(WsCall(n))

WsSpec == WsInit /\ [][WsNext]_webVars /\ WsFair

\* A page that waits for nothing shows what the server has: the API keys, the
\* files of the dashboard and of the demo, the tables, the projects; what is
\* drawn of a schema is of one fetch.  Each says of itself when it need not:
\* after a failure, an answer that overtook another, or a table that came or
\* went elsewhere.
PagesAgree ==
    /\ WsTypeOK
    /\ KpAgrees /\ BsAgrees /\ TbAgrees /\ DfAgreesOrTold /\ FpAgrees
    /\ SvOneSchema

\* What is shown is of whom and of what it is shown for: the databases and the
\* charts of the user, the builds and the secrets of the project, the token of
\* the address.
WhoseIsShown == DbShownIsSaved /\ ChWhose /\ FbWhose /\ FsTypedForIt /\ OdWhose

\* A download of a schema ends in a file, a retrieval in a preview or an error,
\* and the newest build of a history that was listed has its log or is loading
\* it.  Of a query the drawer tells no more than that it is over
\* (sql-drawer.tsx:88-102), and of an older build nothing is asked for.
OutcomeIsTold == DnDelivered /\ DpToldOrShown /\ FlFirstHasLog

\* The flags of the panel that is looked at: each disables a button, puts a
\* spinner or "Loading" in the place of something, or shows that something was
\* copied.
WsFlags ==
    CASE panel = "db" -> <<db.reg # NoReg>>
      [] panel = "sc" -> <<sc.run # Still>>
      [] panel = "dn" -> <<dn.step # "none">>
      [] panel = "kp" -> <<kp.copied>>
      [] panel = "bs" -> <<bs.uploading>>
      [] panel = "df" -> <<df.uploading, df.listing>>
      [] panel = "dp" -> <<dp.loading>>
      [] panel = "tb" -> <<tb.creating>>
      [] panel = "sq" -> <<Here /\ sq.executing>>
      [] panel = "sv" -> <<sv.loading, sv.copied>>
      [] panel = "fp" -> <<fp.status = "asked" \/ fp.loading, fp.deploy # None>>
      [] panel = "fb" -> <<FbTriggering>>
      [] panel = "fl" -> [b \in Builds |-> b \in fl.loading]
      [] panel = "ff" -> <<ff.deploy>>
      [] panel = "fs" -> <<fs.save # None>>
      [] panel = "od" -> <<od.loading /\ ~OdStuck, od.copied>>
      [] OTHER -> <<>>

WsFlag(n) == n \in DOMAIN WsFlags /\ WsFlags[n]

\* No flag stays set, whatever calls fail and however they overlap: of each it
\* happens again and again that it is not.  Only "Verifying..." of the ArcAuth
\* page's demo stays, for an address that btoa does not take
\* (arcauth-page.tsx:116).
BusyEnds == \A n \in 1 .. 2 : []<>~WsFlag(n)
=============================================================================
