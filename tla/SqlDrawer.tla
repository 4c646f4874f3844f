----------------------------- MODULE SqlDrawer -----------------------------
(***************************************************************************)
(* The SQL drawer (sql-drawer.tsx, opened from App.tsx): the query with    *)
(* its draft in localStorage, the runs and what is shown of them.          *)
(*                                                                         *)
(* Of a query it matters whether it is the one the drawer starts with,     *)
(* another, one that speaks of auth_users, or blank; of a run, whether     *)
(* PostgreSQL gave rows.                                                   *)
(***************************************************************************)
EXTENDS WebParams

Queries == {"first", "other", "auth_users", ""}

ASSUME SqlDrawerAssumption == None \notin Queries \cup {"rows", "0 rows"}

\* open    isOpen       token   whether localStorage has one
\* query   in the editor        draft   arcops_sql_draft, None if there is none
\* locked  the page behind does not scroll
\* executing, results   as in the component; results None before a run
\* run     each run that is out: "none", "sent" or what it was answered with
\* rows    ghost: whether the last run that ended gave rows
\* ran     ghost: a run has ended
\* page    "here" until the drawer sends to the login page
VARIABLE sq

\* What the editor starts with.
FirstQuery(draft) ==
    IF draft \in {None, "", "auth_users"} THEN "first" ELSE draft

\* The page is loaded; the editor saves what it starts with at once.
SqLoaded(token, draft) ==
    [open |-> FALSE, token |-> token, query |-> FirstQuery(draft),
     draft |-> FirstQuery(draft), locked |-> FALSE, executing |-> FALSE,
     results |-> None, run |-> [i \in Calls |-> "none"], rows |-> FALSE,
     ran |-> FALSE, page |-> "here"]

SqInit == sq = SqLoaded(TRUE, None)

Here == sq.page = "here"
Visible == Here /\ sq.open /\ sq.token

\* open_sql_drawer: of the buttons that send it one alone asks for a token
\* first, so that the drawer asks again.
SqOpen ==
    /\ Here /\ ~sq.open
    /\ sq' = IF sq.token THEN [sq EXCEPT !.open = TRUE, !.locked = TRUE]
             ELSE [sq EXCEPT !.page = "login"]

\* X, or a click beside the drawer.
SqClose ==
    /\ Visible
    /\ sq' = [sq EXCEPT !.open = FALSE, !.locked = FALSE]

SqType(q) ==
    /\ Visible /\ sq.query # q
    /\ sq' = [sq EXCEPT !.query = q, !.draft = q]

\* Another tab logs in or out, or saves its own draft.
SqOtherTab ==
    /\ Here
    /\ \/ sq' = [sq EXCEPT !.token = ~@]
       \/ \E q \in Queries : sq' = [sq EXCEPT !.draft = q]

SqReload == \E t \in {sq.token, TRUE} : sq' = SqLoaded(t, sq.draft)

\* runQuery: the button waits for the run before, Ctrl+Enter does not, and
\* works in a drawer that is open and hidden.
SqRun == \E i \in Calls :
    /\ Here /\ sq.open /\ sq.run[i] = "none"
    /\ \A j \in Calls : j < i => sq.run[j] # "none"
    /\ sq' = [sq EXCEPT !.executing = TRUE, !.run[i] = "sent"]

SqServed(i) ==
    /\ Here /\ sq.run[i] = "sent"
    /\ \E a \in {"rows", "no rows"} : sq' = [sq EXCEPT !.run[i] = a]

\* executeSQL returns a record, not an array.
IsArray(answer) == FALSE

SqAnswered(i) ==
    /\ Here /\ sq.run[i] \in {"rows", "no rows"}
    /\ sq' = [sq EXCEPT !.run[i] = "none", !.executing = FALSE, !.ran = TRUE,
                        !.rows = sq.run[i] = "rows",
                        !.results = IF IsArray(sq.run[i]) THEN "rows" ELSE "0 rows"]

\* Every error is caught and shown as a result without rows.
SqFailed(i) ==
    /\ Here /\ sq.run[i] # "none"
    /\ sq' = [sq EXCEPT !.run[i] = "none", !.executing = FALSE, !.ran = TRUE,
                        !.rows = FALSE, !.results = "0 rows"]

SqStep(i) == SqServed(i) \/ SqAnswered(i) \/ SqFailed(i)

SqNext ==
    \/ SqOpen \/ SqClose \/ SqOtherTab \/ SqReload \/ SqRun
    \/ \E q \in Queries : SqType(q)
    \/ \E i \in Calls : SqStep(i)

\* Every query is answered or fails.
SqFair == \A i \in Calls : WF_sq(SqStep(i))
SqSpec == SqInit /\ [][SqNext]_sq /\ SqFair

SqTypeOK ==
    sq \in [open : BOOLEAN, token : BOOLEAN, query : Queries,
            draft : Queries \cup {None}, locked : BOOLEAN, executing : BOOLEAN,
            results : {None, "0 rows", "rows"}, rows : BOOLEAN, ran : BOOLEAN,
            run : [Calls -> {"none", "sent", "rows", "no rows"}],
            page : {"here", "login"}]

=============================================================================
