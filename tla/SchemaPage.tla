----------------------------- MODULE SchemaPage -----------------------------
(***************************************************************************)
(* The schema visualizer of the studio (schema-visualizer.tsx): tables as  *)
(* nodes and foreign keys as edges, from two queries that run side by side *)
(* while the schema changes under them.                                    *)
(***************************************************************************)
EXTENDS WebParams

CONSTANT Inherited   \* names that every JavaScript object has a property of

ASSUME SchemaPageAssumption == Inherited \subseteq Tables

\* tables, keys   of the database; a foreign key is a pair of tables
\* nodes, edges   what is drawn           loading   covers the drawing
\* fetch   each fetch: its queries' answers
\* copied, timers   the copy button and its timers
\* raced   ghost: the schema changed while a fetch was out
VARIABLE sv

SvNoFetch == [stage |-> "none", tables |-> {None}, keys |-> {<<None, None>>}]
Sent == [SvNoFetch EXCEPT !.stage = "sent"]

SvFetch(i, s) == [s EXCEPT !.loading = TRUE, !.fetch[i] = Sent]

SvInit == \E t \in SUBSET Tables : sv = SvFetch(1,
    [tables |-> t, keys |-> {}, nodes |-> {}, edges |-> {}, loading |-> FALSE,
     fetch |-> [i \in Calls |-> SvNoFetch], copied |-> FALSE,
     timers |-> 0, raced |-> FALSE])

SvOut == {i \in Calls : sv.fetch[i].stage # "none"}

Changed(s) == [s EXCEPT !.raced = @ \/ SvOut # {}]

\* A table is made, one is dropped with its keys, a key is added; by the SQL
\* drawer or another page.
SvSchema ==
    \/ \E t \in Tables \ sv.tables :
          sv' = Changed([sv EXCEPT !.tables = @ \cup {t}])
    \/ \E t \in sv.tables :
          sv' = Changed([sv EXCEPT !.tables = @ \ {t},
                                   !.keys = {k \in @ : t \notin {k[1], k[2]}}])
    \/ \E k \in (sv.tables \X sv.tables) \ sv.keys :
          sv' = Changed([sv EXCEPT !.keys = @ \cup {k}])

\* arcauth_login_success fetches again, also while a fetch is out.
SvRefetch == \E i \in Calls \ SvOut :
    /\ \A j \in Calls : j < i => j \in SvOut
    /\ sv' = SvFetch(i, sv)

\* The two queries of a fetch are answered in any order; the keys may fail.
SvTablesServed(i) ==
    /\ i \in SvOut /\ None \in sv.fetch[i].tables
    /\ sv' = [sv EXCEPT !.fetch[i].tables = sv.tables]

SvKeysServed(i) ==
    /\ i \in SvOut /\ <<None, None>> \in sv.fetch[i].keys
    /\ \/ sv' = [sv EXCEPT !.fetch[i].keys = sv.keys]
       \/ sv' = [sv EXCEPT !.fetch[i].keys = {}]

SvEnded(i, s) ==
    [s EXCEPT !.fetch[i] = SvNoFetch, !.loading = FALSE]

\* tableMap is a plain object: a table whose name it has a property of already
\* ends the grouping with an error.
Groupable(tables) == tables \cap Inherited = {}

Complete(i) == None \notin sv.fetch[i].tables /\ <<None, None>> \notin sv.fetch[i].keys

\* Nodes and edges of a fetch, set together.
SvFetched(i) ==
    /\ i \in SvOut /\ Complete(i) /\ Groupable(sv.fetch[i].tables)
    /\ sv' = SvEnded(i, [sv EXCEPT !.nodes = sv.fetch[i].tables,
                                   !.edges = sv.fetch[i].keys])

SvFetchFailed(i) ==
    /\ i \in SvOut
    /\ \/ None \in sv.fetch[i].tables
       \/ Complete(i) /\ ~Groupable(sv.fetch[i].tables)
    /\ sv' = SvEnded(i, [sv EXCEPT !.nodes = {}, !.edges = {}])

SvCopy ==
    /\ sv.nodes # {} /\ sv.timers < MaxCalls
    /\ sv' = [sv EXCEPT !.copied = TRUE, !.timers = @ + 1]

SvCopyTimer ==
    /\ sv.timers > 0
    /\ sv' = [sv EXCEPT !.copied = FALSE, !.timers = @ - 1]

SvStep(i) == SvTablesServed(i) \/ SvKeysServed(i) \/ SvFetched(i) \/ SvFetchFailed(i)

SvNext ==
    \/ SvSchema \/ SvRefetch \/ SvCopy \/ SvCopyTimer
    \/ \E i \in Calls : SvStep(i)

\* Every query is answered or fails and every timer fires.
SvFair == WF_sv(SvCopyTimer) /\ \A i \in Calls : WF_sv(SvStep(i))
SvSpec == SvInit /\ [][SvNext]_sv /\ SvFair

SvTypeOK ==
    LET Some == Tables \cup {None} IN
    /\ sv \in [tables : SUBSET Tables, keys : SUBSET (Tables \X Tables),
               nodes : SUBSET Tables, edges : SUBSET (Tables \X Tables),
               loading : BOOLEAN, copied : BOOLEAN, timers : 0 .. MaxCalls,
               raced : BOOLEAN,
               fetch : [Calls -> [stage : {"none", "sent"}, tables : SUBSET Some,
                                  keys : SUBSET (Some \X Some)]]]
    /\ sv.keys \subseteq sv.tables \X sv.tables

\* Unless the schema changed under a fetch, what is drawn is of one fetch,
\* however fetches overlapped: every edge is between two nodes.
SvOneSchema ==
    ~sv.raced => \A e \in sv.edges : {e[1], e[2]} \subseteq sv.nodes

=============================================================================
