----------------------------- MODULE TablesPage -----------------------------
(***************************************************************************)
(* The tables of the studio (tables-page.tsx): the list, the drawer a      *)
(* table is created in and the columns that are viewed of a table.         *)
(*                                                                         *)
(* Of the columns of the form it is told apart what their submission tells *)
(* apart: the two it starts with, others that are fit for a table, a       *)
(* column without a name ("blank") and more than one primary key ("keys"). *)
(***************************************************************************)
EXTENDS WebParams

Forms == {"default", "other", "blank", "keys"}

\* live    the columns of each table, or "none"    shown   names in the list
\* fetch   the fetches that are out, each of the mount or of a creation
\* open, name, form, error, creating   the drawer; creating is also set while
\*         the tables are fetched after a creation
\* sent    the creation that is out          viewed   selectedTableColumns
\* tenant  whether localStorage names one
\* older, crossed  ghosts: of each fetch that is answered, those answered before
\*         it; one overtook another
\* failed  ghost: a fetch failed or found no tenant, or the answer to a
\*         creation was lost
\* edited  ghost: a table came or went elsewhere, and no fetch was answered since
VARIABLE tb

NoTable == [name |-> None, form |-> "blank", tenant |-> FALSE, made |-> FALSE]
TbNoFetch == [stage |-> "none", tenant |-> FALSE, creates |-> FALSE, snap |-> {}]

TbFetch(i, s, creates) ==
    [s EXCEPT !.fetch[i] = [stage |-> "sent", tenant |-> s.tenant,
                            creates |-> creates, snap |-> {}]]

TbInit == \E live \in [Tables -> {"none", "other"}] : tb = TbFetch(1,
    [live |-> live, shown |-> {}, open |-> FALSE, name |-> None,
     form |-> "default", error |-> "none", creating |-> FALSE,
     sent |-> NoTable, viewed |-> None, tenant |-> TRUE,
     older |-> [i \in Calls |-> {}], fetch |-> [i \in Calls |-> TbNoFetch],
     crossed |-> FALSE, failed |-> FALSE, edited |-> FALSE],
    FALSE)

\* Another tab of the browser logs in or out.
TbOtherTab == tb' = [tb EXCEPT !.tenant = ~@]

\* A table is created or dropped that this page does not hear of: in the SQL
\* drawer its button opens, in another tab, or by a creation of a page that
\* was left.  Nothing fetches the tables again.
TbElsewhere(t) ==
    tb' = [tb EXCEPT !.edited = TRUE,
                     !.live[t] = IF @ = "none" THEN "other" ELSE "none"]

Covered == tb.open \/ tb.viewed # None

TbOpen == ~Covered /\ tb' = [tb EXCEPT !.open = TRUE]

\* Cancel and X: what was typed, and the error, stay.
TbCancel == tb.open /\ tb' = [tb EXCEPT !.open = FALSE]

TbName(n) == tb.open /\ tb.name # n /\ tb' = [tb EXCEPT !.name = n]

TbAddColumn == tb.open /\ tb' = [tb EXCEPT !.form = "blank"]

\* A column is changed or, unless it is the last, removed.
TbEditColumns ==
    /\ tb.open
    /\ \E f \in Forms \ {tb.form} : tb' = [tb EXCEPT !.form = f]

CanSave == tb.open /\ ~tb.creating /\ tb.name # None

\* handleCreateSubmit up to its request: the names of the columns are looked
\* at, the keys are not.
TbSubmit ==
    /\ CanSave
    /\ tb' = IF tb.form = "blank"
             THEN [tb EXCEPT !.error = "name"]
             ELSE [tb EXCEPT !.creating = TRUE, !.error = "none",
                      !.sent = [name |-> tb.name, form |-> tb.form,
                                tenant |-> tb.tenant, made |-> FALSE]]

\* PostgreSQL refuses a second primary key and a name that is taken.
Accepts(t) == tb.live[t.name] = "none" /\ t.form # "keys"

TbCreateServed ==
    /\ tb.sent.tenant /\ ~tb.sent.made /\ Accepts(tb.sent)
    /\ tb' = [tb EXCEPT !.sent.made = TRUE,
                        !.live[tb.sent.name] = tb.sent.form]

\* Changed program: a creation ends with the drawer, without a fetch.
TbCreatedNoFetch ==
    /\ tb.sent # NoTable /\ (tb.sent.tenant => tb.sent.made)
    /\ tb' = [tb EXCEPT !.open = FALSE, !.name = None, !.form = "default",
                        !.sent = NoTable, !.creating = FALSE]

\* The creation succeeded, or there is no tenant and executeSQL did nothing:
\* the drawer that is open now is closed and its form is reset.
TbCreated == \E i \in Calls :
    /\ tb.sent # NoTable /\ (tb.sent.tenant => tb.sent.made)
    /\ tb.fetch[i] = TbNoFetch
    /\ \A j \in Calls : j < i => tb.fetch[j] # TbNoFetch
    /\ tb' = TbFetch(i, [tb EXCEPT !.open = FALSE, !.name = None,
                            !.form = "default", !.sent = NoTable], TRUE)

\* It was refused, or its answer was lost.
TbCreateFailed ==
    /\ tb.sent.tenant
    /\ tb' = [tb EXCEPT !.sent = NoTable, !.error = "failed", !.creating = FALSE,
                        !.failed = @ \/ tb.sent.made]

TbFetchServed(i) ==
    /\ tb.fetch[i].stage = "sent" /\ tb.fetch[i].tenant
    /\ tb' = [tb EXCEPT !.fetch[i].stage = "served",
                        !.older[i] = {j \in Calls : tb.fetch[j].stage = "served"},
                        !.fetch[i].snap = {t \in Tables : tb.live[t] # "none"},
                        !.edited = FALSE]

TbEnded(i, s) ==
    [s EXCEPT !.fetch[i] = TbNoFetch, !.older = Without(@, i),
              !.creating = @ /\ ~s.fetch[i].creates]

TbFetched(i) ==
    /\ tb.fetch[i].stage = "served"
    /\ tb' = TbEnded(i, [tb EXCEPT !.shown = tb.fetch[i].snap,
                                   !.crossed = @ \/ tb.older[i] # {}])

\* A fetch that fails leaves the list; one without a tenant empties it.
TbFetchFailed(i) ==
  LET f == tb.fetch[i] IN
    /\ f.stage # "none"
    /\ tb' = TbEnded(i, [tb EXCEPT !.failed = TRUE,
                                   !.shown = IF f.tenant THEN @ ELSE {}])

TbView(t) ==
    /\ ~Covered /\ t \in tb.shown
    /\ tb' = [tb EXCEPT !.viewed = t]

TbCloseView == tb.viewed # None /\ tb' = [tb EXCEPT !.viewed = None]

\* The rows of the columns modal, "id", "name / user_id" and "created_at", are
\* the same for every table, and never those of a table of the default columns.
ViewedColumns(t) == "other"

TbStep(i) == TbFetchServed(i) \/ TbFetched(i) \/ TbFetchFailed(i)
TbAnswer == TbCreateServed \/ TbCreated \/ TbCreateFailed

TbNext ==
    \/ TbOtherTab \/ TbOpen \/ TbCancel \/ TbAddColumn \/ TbEditColumns
    \/ TbSubmit \/ TbCloseView
    \/ \E n \in Tables : TbName(n) \/ TbView(n) \/ TbElsewhere(n)
    \/ TbAnswer
    \/ \E i \in Calls : TbStep(i)

\* Every request is answered or fails.
TbFair == WF_tb(TbAnswer) /\ \A i \in Calls : WF_tb(TbStep(i))
TbSpec == TbInit /\ [][TbNext]_tb /\ TbFair

TbTypeOK ==
    LET Fetch == [stage : {"none", "sent", "served"}, tenant : BOOLEAN,
                  creates : BOOLEAN, snap : SUBSET Tables]
        Creation == [name : Tables \cup {None}, form : Forms,
                     tenant : BOOLEAN, made : BOOLEAN] IN
    tb \in [live : [Tables -> {"none", "default", "other"}],
            shown : SUBSET Tables, open : BOOLEAN, name : Tables \cup {None},
            form : Forms, error : {"none", "name", "failed"},
            creating : BOOLEAN, sent : Creation, viewed : Tables \cup {None},
            tenant : BOOLEAN, older : [Calls -> SUBSET Calls],
            fetch : [Calls -> Fetch], crossed : BOOLEAN, failed : BOOLEAN,
            edited : BOOLEAN]

\* A page that waits for nothing lists the tables of the database, whatever
\* was created elsewhere before its last fetch was answered, unless a fetch
\* failed or was overtaken, or the answer to a creation was lost.  What is
\* created or dropped elsewhere later it does not show (tables-page.tsx:30-44,
\* 110-118, 141-148).
TbAgrees ==
    (\A i \in Calls : tb.fetch[i] = TbNoFetch) /\ tb.sent = NoTable
        /\ ~tb.failed /\ ~tb.crossed /\ ~tb.edited
        => tb.shown = {t \in Tables : tb.live[t] # "none"}

=============================================================================
