------------------------------ MODULE Khashmir ------------------------------
(***************************************************************************)
(* How a DHT node keeps its contacts: insertNode, sendPing and nodeFailed  *)
(* of khashmir.py, with self.pinging, which holds for a node either the    *)
(* Deferred of the ping under way or the delayed call of a later one, and  *)
(* the callbacks that wait for a ping.                                     *)
(*                                                                         *)
(* The routing table is one bucket that cannot be split (KTable models the *)
(* table itself).  Nodes are those that pass the test for local addresses. *)
(* Time is abstracted: a node may become stale, and a delayed ping may run *)
(* at any time.                                                            *)
(***************************************************************************)
EXTENDS Integers, Sequences, FiniteSets, Functions

CONSTANTS
    Nodes,          \* remote nodes
    None,           \* no node
    K,              \* size of the bucket
    MAX_FAILURES,   \* failures in a row after which a node is removed
    MaxWaiting      \* bound on the callbacks waiting for pings when nodes are heard of

ASSUME SizesAssumption ==
    /\ K \in Nat \ {0}
    /\ MAX_FAILURES \in Nat \ {0}
    /\ MaxWaiting \in Nat \ {0}
ASSUME NoneAssumption == None \notin Nodes

VARIABLES
    table,      \* the bucket's nodes, the one seen longest ago first
    fails,      \* Node.fails of the nodes in the table
    stale,      \* nodes in the table last seen more than MIN_PING_INTERVAL ago
    pinging,    \* self.pinging: "none", "sent" (a Deferred) or "later" (a DelayedCall)
    inFlight,   \* number of ping requests to a node that have not been concluded
    waiters,    \* _staleNodeHandlers added to the Deferred of the ping under way
    rePings,    \* nodes for the Deferred of whose ping there is a rePing
    inserting,  \* nodes whose callLater(0, self.insertNode, node) after a ping is pending
    failing,    \* the node whose ping's errbacks are running, or None
    handlers,   \* _staleNodeHandler calls that are still to be run for it
    listening   \* FALSE once shutdown has been called

vars == <<table, fails, stale, pinging, inFlight, waiters, rePings, inserting,
          failing, handlers, listening>>

\* What a _staleNodeHandler is to insert in the place of the node that is pinged.
Newcomers == [node : Nodes, contacted : BOOLEAN]

Members(s) == {s[i] : i \in 1..Len(s)}

TypeOK ==
    /\ table \in Seq(Nodes)
    /\ Len(table) <= K
    /\ fails \in [Nodes -> 0..(MAX_FAILURES - 1)]
    /\ stale \subseteq Nodes
    /\ pinging \in [Nodes -> {"none", "sent", "later"}]
    /\ inFlight \in [Nodes -> Nat]
    /\ waiters \in [Nodes -> Seq(Newcomers)]
    /\ rePings \subseteq Nodes
    /\ inserting \subseteq Nodes
    /\ failing \in Nodes \cup {None}
    /\ handlers \in Seq(Newcomers)
    /\ listening \in BOOLEAN

Init ==
    /\ table = <<>>
    /\ fails = [n \in Nodes |-> 0]
    /\ stale = {}
    /\ pinging = [n \in Nodes |-> "none"]
    /\ inFlight = [n \in Nodes |-> 0]
    /\ waiters = [n \in Nodes |-> <<>>]
    /\ rePings = {}
    /\ inserting = {}
    /\ failing = None
    /\ handlers = <<>>
    /\ listening = TRUE

-----------------------------------------------------------------------------
(* The table. *)

\* Errbacks run to their end within one event of the reactor.
ReactorFree == failing = None

\* The list t after t.remove(n), if n is in it.
Without(t, n) ==
    IF n \notin Members(t) THEN t
    ELSE LET i == CHOOSE i \in 1..Len(t) : t[i] = n
         IN  SubSeq(t, 1, i - 1) \o SubSeq(t, i + 1, Len(t))

\* The table becomes t; nothing is known of nodes that are not in it.
SetTable(t) ==
    /\ table' = t
    /\ stale' = stale \cap Members(t)

\* KTable.nodeFailed and KhashmirBase.nodeFailed: a node that has failed too often
\* is removed; one that stays is to be pinged later, unless it is being pinged.
\* busy is self.pinging at that point.
NodeFailed(t, n, busy) ==
    IF n \in Members(t) /\ fails[n] + 1 < MAX_FAILURES
    THEN /\ SetTable(t)
         /\ fails' = [fails EXCEPT ![n] = @ + 1]
         /\ pinging' = IF busy[n] = "none" THEN [busy EXCEPT ![n] = "later"] ELSE busy
    ELSE /\ SetTable(Without(t, n))
         /\ fails' = [fails EXCEPT ![n] = 0]
         /\ pinging' = busy

-----------------------------------------------------------------------------
(* Pings. *)

\* Mutant of SendPing: a ping under way is not noticed.
DoubleSendPing(n, newcomers, again) ==
    /\ pinging' = [pinging EXCEPT ![n] = "sent"]
    /\ inFlight' = [inFlight EXCEPT ![n] = @ + 1]
    /\ waiters' = [waiters EXCEPT ![n] = newcomers]
    /\ rePings' = rePings \cup again

\* KhashmirBase.sendPing, with the callbacks that its caller adds, _staleNodeHandlers
\* for newcomers and a rePing for again: a delayed ping is cancelled and sent now,
\* and a ping under way is shared.
SendPing(n, newcomers, again) ==
    /\ pinging' = [pinging EXCEPT ![n] = "sent"]
    /\ inFlight' = IF pinging[n] = "sent" THEN inFlight
                   ELSE [inFlight EXCEPT ![n] = @ + 1]
    /\ waiters' = [waiters EXCEPT ![n] = @ \o newcomers]
    /\ rePings' = rePings \cup again

NoPing == UNCHANGED <<pinging, inFlight, waiters, rePings>>

\* KhashmirBase.insertNode into the table t, whose failure counts are f: a
\* contacted node is moved to the end or added; one that is only heard of is pinged
\* first; if there is no room, the oldest node is pinged in case it is stale.
InsertNode(t, f, n, contacted) ==
    LET known == n \in Members(t)
        room == Len(t) < K
    IN  \/ /\ contacted /\ (known \/ room)
           /\ table' = Append(Without(t, n), n)
           /\ stale' = (stale \cap Members(t)) \ {n}
           /\ fails' = [f EXCEPT ![n] = 0]
           /\ NoPing
        \/ /\ ~known /\ room /\ ~contacted
           /\ SetTable(t) /\ fails' = f
           /\ SendPing(n, <<>>, {n})
        \/ /\ ~known /\ ~room /\ Head(t) \in stale
           /\ SetTable(t) /\ fails' = f
           /\ SendPing(Head(t), <<[node |-> n, contacted |-> contacted]>>, {})
        \/ /\ IF known THEN ~contacted ELSE ~room /\ Head(t) \notin stale
           /\ SetTable(t) /\ fails' = f
           /\ NoPing

\* The reactor runs the insertNode that _pingHandler has scheduled.
RunInsertNode(n) ==
    /\ ReactorFree
    /\ n \in inserting
    /\ inserting' = inserting \ {n}
    /\ InsertNode(table, fails, n, TRUE)
    /\ UNCHANGED <<failing, handlers, listening>>

\* The reactor runs a delayed ping.
RunLaterPing(n) ==
    /\ ReactorFree
    /\ pinging[n] = "later"
    /\ SendPing(n, <<>>, {})
    /\ UNCHANGED <<table, fails, stale, inserting, failing, handlers, listening>>

\* The ping is answered: _pingHandler, then the callbacks of those who wait; the
\* first rePing schedules another ping, and stale node handlers are dropped.
PingAnswered(n) ==
    /\ ReactorFree
    /\ listening
    /\ pinging[n] = "sent"
    /\ inFlight' = [inFlight EXCEPT ![n] = @ - 1]
    /\ pinging' = [pinging EXCEPT ![n] = IF n \in rePings THEN "later" ELSE "none"]
    /\ waiters' = [waiters EXCEPT ![n] = <<>>]
    /\ rePings' = rePings \ {n}
    /\ inserting' = inserting \cup {n}
    /\ UNCHANGED <<table, fails, stale, failing, handlers, listening>>

\* Mutant of PingFails: nobody watches the node afterwards.
UnwatchedPingFails(n, t) ==
    /\ ReactorFree
    /\ pinging[n] = "sent"
    /\ inFlight' = [inFlight EXCEPT ![n] = @ - 1]
    /\ IF n \in Members(t) /\ fails[n] + 1 < MAX_FAILURES
       THEN SetTable(t) /\ fails' = [fails EXCEPT ![n] = @ + 1]
       ELSE SetTable(Without(t, n)) /\ fails' = [fails EXCEPT ![n] = 0]
    /\ pinging' = [pinging EXCEPT ![n] = "none"]
    /\ handlers' = waiters[n]
    /\ failing' = IF handlers' = <<>> THEN None ELSE n
    /\ waiters' = [waiters EXCEPT ![n] = <<>>]
    /\ rePings' = rePings \ {n}
    /\ UNCHANGED <<inserting, listening>>

\* The ping fails: _pingError, after which the stale node handlers are run.  The
\* table is t: the node's own, or without it if another node answered
\* (checkSender in knode.py).
PingFails(n, t) ==
    /\ ReactorFree
    /\ pinging[n] = "sent"
    /\ inFlight' = [inFlight EXCEPT ![n] = @ - 1]
    /\ NodeFailed(t, n, [pinging EXCEPT ![n] = "none"])
    /\ handlers' = waiters[n]
    /\ failing' = IF handlers' = <<>> THEN None ELSE n
    /\ waiters' = [waiters EXCEPT ![n] = <<>>]
    /\ rePings' = rePings \ {n}
    /\ UNCHANGED <<inserting, listening>>

\* KhashmirBase._staleNodeHandler, for the next newcomer.
StaleNodeHandler ==
    /\ failing # None
    /\ InsertNode(Without(table, failing), [fails EXCEPT ![failing] = 0],
                  Head(handlers).node, Head(handlers).contacted)
    /\ handlers' = Tail(handlers)
    /\ failing' = IF Tail(handlers) = <<>> THEN None ELSE failing
    /\ UNCHANGED <<inserting, listening>>

-----------------------------------------------------------------------------
(* What others do. *)

Waiting == Cardinality(rePings) + FoldFunction(LAMBDA w, sum : sum + Len(w), 0, waiters)

\* A remote node is heard of, and the insertNode scheduled by the handler runs.  As
\* a message may come at any time, the two are one step.
Heard(n, contacted) ==
    /\ ReactorFree
    /\ listening
    /\ Waiting < MaxWaiting
    /\ InsertNode(table, fails, n, contacted)
    /\ UNCHANGED <<inserting, failing, handlers, listening>>

\* A remote node sends a request (krpc_ping, krpc_join, krpc_find_node, ...).
RemoteRequest(n) == Heard(n, FALSE)

\* A remote node answers a join (_joinHandler) or a request of a DHT operation.
RequestAnswered(n) == Heard(n, TRUE)

\* A join or a request of a DHT operation fails: nodeFailed.  The table is t, as for a ping.
RequestFailed(n, t) ==
    /\ ReactorFree
    /\ NodeFailed(t, n, pinging)
    /\ UNCHANGED <<inFlight, waiters, rePings, inserting, failing, handlers, listening>>

\* A node in the table has not been heard of for more than MIN_PING_INTERVAL.
BecomesStale(n) ==
    /\ ReactorFree
    /\ n \in Members(table) \ stale
    /\ stale' = stale \cup {n}
    /\ UNCHANGED <<table, fails, pinging, inFlight, waiters, rePings, inserting,
                   failing, handlers, listening>>

\* KhashmirBase.shutdown: the port is closed and delayed pings are cancelled.  Pings
\* under way, and those sent later all the same, fail.
Shutdown ==
    /\ ReactorFree
    /\ listening
    /\ listening' = FALSE
    /\ pinging' = [n \in Nodes |-> IF pinging[n] = "later" THEN "none" ELSE pinging[n]]
    /\ UNCHANGED <<table, fails, stale, inFlight, waiters, rePings, inserting, failing,
                   handlers>>

-----------------------------------------------------------------------------

PingEnds(n) ==
    \/ PingAnswered(n)
    \/ PingFails(n, table)
    \/ listening /\ PingFails(n, Without(table, n))

RequestFails(n) ==
    \/ RequestFailed(n, table)
    \/ listening /\ RequestFailed(n, Without(table, n))

Next ==
    \/ StaleNodeHandler
    \/ \E n \in Nodes :
         \/ RunInsertNode(n)
         \/ RunLaterPing(n)
         \/ PingEnds(n)
         \/ RemoteRequest(n)
         \/ RequestAnswered(n)
         \/ RequestFails(n)
         \/ BecomesStale(n)
    \/ Shutdown

\* The reactor runs what is scheduled and KRPC concludes every request.
Fairness ==
    /\ WF_vars(StaleNodeHandler)
    /\ \A n \in Nodes :
         /\ WF_vars(RunInsertNode(n))
         /\ WF_vars(RunLaterPing(n))
         /\ WF_vars(PingEnds(n))

Safety == Init /\ [][Next]_vars
Spec == Safety /\ Fairness

-----------------------------------------------------------------------------
(* Properties. *)

\* At most one ping to a node is under way, and self.pinging holds its Deferred as
\* long as it is, so that whoever wants the node pinged can share it: pings, re-pings,
\* failures and stale node checks all meet in that one entry.
OnePingPerNode ==
    \A n \in Nodes :
        /\ inFlight[n] = (IF pinging[n] = "sent" THEN 1 ELSE 0)
        /\ pinging[n] # "sent" => waiters[n] = <<>> /\ n \notin rePings

\* A node in the table that has failed a request is being watched: a ping to it is
\* under way or scheduled, or its answer is about to be entered in the table.  A node
\* that is neither would be handed out to others until somebody happens to ask it.
FailedIsWatched ==
    listening => \A n \in Members(table) :
        fails[n] > 0 =>
            \/ pinging[n] # "none"
            \/ n \in inserting

\* A node that has failed a request answers a ping some day or leaves the table.
FailedIsSettled ==
    \A n \in Nodes :
        (fails[n] > 0 /\ listening) ~> (fails[n] = 0 \/ ~listening)
=============================================================================
