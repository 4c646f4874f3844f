----------------------------- MODULE QueueEngine -----------------------------
(***************************************************************************)
(* DBMux's work queue (dbmux/pkg/queue/queue.go): one named queue, in a    *)
(* list of a Redis or in rows of Postgres, whichever findRedis and         *)
(* findPostgres find when a call starts.  A call finds its backend and     *)
(* then sends it one command; Redis' client sends a command again when its *)
(* answer does not come.                                                   *)
(*                                                                         *)
(* An item is enqueued by one call; more calls for it are more items.      *)
(***************************************************************************)
EXTENDS Naturals, Sequences, FiniteSets, SequencesExt

CONSTANTS Clients,  \* callers of the engine
          Items,    \* the payloads
          Redises,  \* the Redis providers that can be registered
          Postgres, \* the Postgres provider
          Flaky,    \* whether commands and their answers can be lost
          NoItem

ASSUME QueueAssumption ==
    /\ Postgres \notin Redises
    /\ NoItem \notin Items
    /\ Flaky \in BOOLEAN

Backends == Redises \cup {Postgres}

VARIABLES registered, \* the providers there are
          stored,     \* stored[b]: the items in backend b, the oldest first
          call,       \* call[c]: what c is doing, at which backend
          sent,       \* history: the items enqueued
          acked,      \* history: those whose Enqueue succeeded
          resent,     \* history: those pushed again after an answer was lost
          lost,       \* history: those popped for an answer that was lost
          purged,     \* history: those that Purge removed
          pushes,     \* history: the items pushed to each backend, in order
          got         \* got[c]: the items c dequeued, with their backends

history == <<sent, acked, resent, lost, purged, pushes, got>>
vars == <<registered, stored, call, sent, acked, resent, lost, purged, pushes, got>>

Op == {"idle", "enqueue", "dequeue", "size", "peek", "purge"}
NoCall == [op |-> "idle", at |-> Postgres, item |-> NoItem]

Init == /\ registered \in SUBSET Backends
        /\ stored = [b \in Backends |-> <<>>]
        /\ call = [c \in Clients |-> NoCall]
        /\ sent = {} /\ acked = {} /\ resent = {} /\ lost = {} /\ purged = {}
        /\ pushes = [b \in Backends |-> <<>>]
        /\ got = [c \in Clients |-> <<>>]

\* RegisterProvider.
Register(b) == /\ b \in Backends \ registered
               /\ registered' = registered \cup {b}
               /\ UNCHANGED <<stored, call, history>>

-----------------------------------------------------------------------------
(* A call.                                                                 *)

\* findRedis goes through a Go map, in any order; findPostgres comes second.
Found(b) == /\ b \in registered
            /\ b = Postgres => registered \cap Redises = {}

Start(c, op, item) ==
    /\ call[c].op = "idle"
    /\ \E b \in Backends : /\ Found(b)
                           /\ call' = [call EXCEPT ![c] = [op |-> op, at |-> b, item |-> item]]

Enqueue(c, i) == /\ i \notin sent
                 /\ Start(c, "enqueue", i)
                 /\ sent' = sent \cup {i}
                 /\ UNCHANGED <<registered, stored, acked, resent, lost, purged, pushes, got>>

Ask(c, op) == /\ Start(c, op, NoItem)
              /\ UNCHANGED <<registered, stored, history>>

End(c) == call' = [call EXCEPT ![c] = NoCall]

\* The command fails and the caller gets an error.
Fail(c) == /\ Flaky
           /\ call[c].op # "idle"
           /\ End(c)
           /\ UNCHANGED <<registered, stored, history>>

\* Mutated: the arguments are mixed up and the payload is not what is stored.
MutStoreMixed(c) == /\ stored' = [stored EXCEPT ![call[c].at] = Append(@, NoItem)]
                    /\ pushes' = [pushes EXCEPT ![call[c].at] = Append(@, call[c].item)]

\* Mutated: the item goes to the end that Dequeue takes from.
MutPushLeft(c) == /\ stored' = [stored EXCEPT ![call[c].at] = <<call[c].item>> \o @]
                  /\ pushes' = [pushes EXCEPT ![call[c].at] = Append(@, call[c].item)]

\* RPUSH of the list "dbmux:queue:" + name, or an INSERT.
Store(c) == /\ stored' = [stored EXCEPT ![call[c].at] = Append(@, call[c].item)]
            /\ pushes' = [pushes EXCEPT ![call[c].at] = Append(@, call[c].item)]

\* Mutated: the error of RPUSH is dropped.
MutPushUnchecked(c) == /\ call[c].op = "enqueue"
                       /\ Store(c) \/ UNCHANGED <<stored, pushes>>
                       /\ acked' = acked \cup {call[c].item}
                       /\ End(c)
                       /\ UNCHANGED <<registered, sent, resent, lost, purged, got>>

Push(c) == /\ call[c].op = "enqueue"
           /\ Store(c)
           /\ acked' = acked \cup {call[c].item}
           /\ End(c)
           /\ UNCHANGED <<registered, sent, resent, lost, purged, got>>

\* The item is there and the caller gets an error.
PushLost(c) == /\ Flaky
               /\ call[c].op = "enqueue"
               /\ Store(c)
               /\ End(c)
               /\ UNCHANGED <<registered, sent, acked, resent, lost, purged, got>>

\* The item is there but the answer is not: Redis' client pushes it again.
PushAgain(c) == /\ Flaky
                /\ call[c].op = "enqueue" /\ call[c].at # Postgres
                /\ call[c].item \notin resent
                /\ Store(c)
                /\ resent' = resent \cup {call[c].item}
                /\ UNCHANGED <<registered, call, sent, acked, lost, purged, got>>

\* The places that a dequeue can take from: the head of a list; any row, because
\* DELETE skips the rows others have locked and ids are not in order of commit.
Candidates(c) == IF call[c].op # "dequeue" THEN {}
                 ELSE {n \in DOMAIN stored[call[c].at] : n = 1 \/ call[c].at = Postgres}

\* Mutated: the item is read and left where it is.
MutTakeOut(c, n) == UNCHANGED stored

\* LPOP, or DELETE of one row.
TakeOut(c, n) == stored' = [stored EXCEPT ![call[c].at] = RemoveAt(@, n)]

Pop(c) == /\ \E n \in Candidates(c) :
                /\ TakeOut(c, n)
                /\ got' = [got EXCEPT ![c] = Append(@, [item |-> stored[call[c].at][n],
                                                     at   |-> call[c].at])]
          /\ End(c)
          /\ UNCHANGED <<registered, sent, acked, resent, lost, purged, pushes>>

\* An item is out but the answer is lost, between the backend and DBMux or
\* between DBMux and the caller.
LoseOne(c) == /\ Flaky
              /\ \E n \in Candidates(c) : /\ TakeOut(c, n)
                                          /\ lost' = lost \cup {stored[call[c].at][n]}
              /\ UNCHANGED <<registered, sent, acked, resent, purged, pushes, got>>

PopLost(c) == LoseOne(c) /\ End(c)

\* Redis' client does not know that LPOP took an item out, and sends it again.
PopAgain(c) == LoseOne(c) /\ call[c].at # Postgres /\ UNCHANGED call

\* The list is empty, or others have locked every row.
PopNothing(c) ==
    LET others == {d \in Clients \ {c} : call[d].op = "dequeue" /\ call[d].at = Postgres}
    IN  /\ call[c].op = "dequeue"
        /\ \/ stored[call[c].at] = <<>>
           \/ call[c].at = Postgres /\ Len(stored[Postgres]) <= Cardinality(others)
        /\ End(c)
        /\ UNCHANGED <<registered, stored, history>>

-----------------------------------------------------------------------------
(* Size, Peek and Purge ask Redis for the list "queue:" + name, to which   *)
(* nobody pushes.                                                          *)

Asked(b) == IF b = Postgres THEN stored[b] ELSE <<>>

SizeAnswer(c) == Len(Asked(call[c].at))
PeekAnswer(c) == IF Asked(call[c].at) = <<>> THEN NoItem ELSE Head(Asked(call[c].at))

Size(c) == call[c].op = "size" /\ End(c) /\ UNCHANGED <<registered, stored, history>>
Peek(c) == call[c].op = "peek" /\ End(c) /\ UNCHANGED <<registered, stored, history>>

Purge(c) == /\ call[c].op = "purge"
            /\ IF call[c].at = Postgres
               THEN /\ stored' = [stored EXCEPT ![Postgres] = <<>>]
                    /\ purged' = purged \cup ToSet(stored[Postgres])
               ELSE UNCHANGED <<stored, purged>>
            /\ End(c)
            /\ UNCHANGED <<registered, sent, acked, resent, lost, pushes, got>>

Command(c) == \/ Push(c) \/ PushLost(c) \/ PushAgain(c) \/ Pop(c) \/ PopLost(c) \/ PopAgain(c) \/ PopNothing(c)
              \/ Size(c) \/ Peek(c) \/ Purge(c) \/ Fail(c)

Next == \/ \E b \in Backends : Register(b)
        \/ \E c \in Clients :
              \/ \E i \in Items : Enqueue(c, i)
              \/ \E op \in {"dequeue", "size", "peek", "purge"} : Ask(c, op)
              \/ Command(c)

Spec == Init /\ [][Next]_vars

-----------------------------------------------------------------------------
TypeOK == /\ registered \in SUBSET Backends
          /\ stored \in [Backends -> Seq(Items)]
          /\ call \in [Clients -> [op : Op, at : Backends, item : Items \cup {NoItem}]]
          /\ \A c \in Clients : call[c].op = "enqueue" => call[c].item \in sent
          /\ \A h \in {sent, acked, resent, lost, purged} : h \in SUBSET Items
          /\ pushes \in [Backends -> Seq(Items)]
          /\ got \in [Clients -> Seq([item : Items, at : Backends])]

Waiting == UNION {ToSet(stored[b]) : b \in Backends}
Delivered == UNION {{got[c][n].item : n \in DOMAIN got[c]} : c \in Clients}

\* Where item i is: in a list or in a caller's hands.
Places(i) ==
    (UNION {{<<b, n>> : n \in {m \in DOMAIN stored[b] : stored[b][m] = i}} : b \in Backends})
    \cup (UNION {{<<c, n>> : n \in {m \in DOMAIN got[c] : got[c][m].item = i}} : c \in Clients})

\* However callers, retries, purges and new backends interleave, an item that
\* was not pushed twice is in one place: two callers never dequeue it, and it is
\* not waiting once it was dequeued, lost or purged.
InOnePlace ==
    /\ TypeOK
    /\ \A i \in Items \ resent :
          /\ Cardinality(Places(i)) <= 1
          /\ i \in lost \cup purged => Places(i) = {}

\* An Enqueue that succeeded did store the item: it is waiting somewhere, was
\* dequeued, was purged, or its answer was lost.
AckedIsKept == acked \subseteq Waiting \cup Delivered \cup lost \cup purged

Pushed(b, i) == CHOOSE n \in DOMAIN pushes[b] : pushes[b][n] = i

\* What a caller dequeues from one Redis comes in the order of the pushes to it.
OrderKept ==
    \A c \in Clients : \A m, n \in DOMAIN got[c] :
       /\ m < n
       /\ got[c][m].at = got[c][n].at /\ got[c][m].at # Postgres
       /\ {got[c][m].item, got[c][n].item} \cap resent = {}
       => Pushed(got[c][m].at, got[c][m].item) < Pushed(got[c][n].at, got[c][n].item)

\* queue.go:17: "QueueEngine provides at-least-once queue operations".  An item
\* that was taken out was handed over to somebody.
AtLeastOnce == lost \subseteq Waiting \cup Delivered

\* queue.go:83: when LPOP finds nothing the "Queue is empty".
EmptyMeansEmpty ==
    [][\A c \in Clients : call[c].op = "dequeue" /\ PopNothing(c) => Waiting = {}]_vars

\* dbmux/skills.md:305: purge is to "Clear all pending items from queue".
PurgeClears ==
    [][\A c \in Clients : call[c].op = "purge" /\ Purge(c) => stored'[call[c].at] = <<>>]_vars

\* dbmux/skills.md:303: size is to "Get total pending items count in queue".
SizeCounts ==
    [][\A c \in Clients : Size(c) => SizeAnswer(c) = Len(stored[call[c].at])]_vars
=============================================================================
