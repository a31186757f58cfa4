---------------------------- MODULE KRPC_proofs ----------------------------
(***************************************************************************)
(* Theorems about KRPC, and then about KTable: the requests of the DHT     *)
(* node and its routing table.                                             *)
(* KRPC: for every set of addresses and requests and every choice of the   *)
(* delays; one inductive invariant, IInv, carries all the safety           *)
(* properties and the refinement of RequestOnce.                           *)
(* KTable: for every length of an ID, capacity of a bucket and set of      *)
(* nodes.  Its inductive invariant, TableInv, says that the ranges are     *)
(* those that halving the ID space around the local node leads to; the     *)
(* lemmas go from powers of two and ranges over the sorted lists of nodes  *)
(* to single splits and merges, and from these to the chains of them, and  *)
(* to what the exclusive or of IDs means for the nodes that are found.     *)
(***************************************************************************)
EXTENDS KRPC, KTable, SetLemmas, SequenceTheorems

\* A request not made yet has left no trace.
Untouched ==
    \A r \in Reqs : conn[r] = None =>
        /\ laterSend[r] = Off
        /\ laterNextTimeout[r] = Off
        /\ laterFinalTimeout[r] = Off
        /\ fires[r] = 0
        /\ elapsed[r] = 0
        /\ \A c \in Conns : r \notin tids[c]

\* The outcome tells whether the Deferred has fired.
FiredIsConcluded ==
    \A r \in Reqs : fires[r] = IF outcome[r] = "none" THEN 0 ELSE 1

\* A transaction is in the table of the address it was sent to, and nowhere else.
OwnTable == \A c \in Conns : \A r \in tids[c] : conn[r] = c

\* What stop() has still to errback is pending, timed and in the table it clears.
StopLoop ==
    /\ stopping = None => toFail = {} /\ ~inCallback
    /\ stopping # None => \A r \in toFail :
         /\ r \in tids[stopping]
         /\ Pending(r)
         /\ laterFinalTimeout[r] # Off

\* The final timeout counts down what elapsed counts up.
FinalTimeoutClock ==
    \A r \in Reqs : laterFinalTimeout[r] # Off =>
        /\ laterFinalTimeout[r] >= -MaxLate
        /\ elapsed[r] = KRPC_TIMEOUT - laterFinalTimeout[r]

\* Unless callbacks ask the stopping node again: what is pending is outstanding,
\* and stop() has it in its snapshot.
PendingIsOutstanding ==
    ~Reentrant => \A r \in Reqs : Pending(r) =>
        /\ r \in tids[conn[r]]
        /\ conn[r] = stopping => r \in toFail

StoppedIsEmpty == \A c \in Conns : stopped[c] => tids[c] = {}

IInv ==
    /\ TypeOK
    /\ SendNeverOverlaps
    /\ OutstandingIsTimed
    /\ Untouched
    /\ FiredIsConcluded
    /\ OwnTable
    /\ StopLoop
    /\ FinalTimeoutClock
    /\ PendingIsOutstanding
    /\ StoppedIsEmpty

\* Time passing preserves the invariant.
LEMMA TickStep ==
    ASSUME IInv, Tick
    PROVE  IInv'
<1> USE TimesAssumption, OffAssumption, NoneAssumption DEF IInv, Pending, Left, Tick, ReactorFree, NotTooLate, OneUnitLess, stopVars
<1>1. TypeOK'
  BY DEF TypeOK, ElapsedCap
<1>2. SendNeverOverlaps'
  BY DEF TypeOK, SendNeverOverlaps, Untouched
<1>3. OutstandingIsTimed'
  BY DEF TypeOK, OutstandingIsTimed, OwnTable, Untouched, StopLoop
<1>4. Untouched'
  BY DEF TypeOK, Untouched, OwnTable, OutstandingIsTimed, StopLoop
<1>5. FiredIsConcluded'
  BY DEF TypeOK, FiredIsConcluded, OutstandingIsTimed, StopLoop, Untouched
<1>6. OwnTable'
  BY DEF TypeOK, OwnTable
<1>7. StopLoop'
  BY DEF TypeOK, StopLoop, OutstandingIsTimed, Untouched, OwnTable
<1>8. FinalTimeoutClock'
  BY DEF TypeOK, FinalTimeoutClock, Untouched, ElapsedCap
<1>9. PendingIsOutstanding'
  BY DEF TypeOK, PendingIsOutstanding, FiredIsConcluded, Untouched, OwnTable, StoppedIsEmpty
<1>10. StoppedIsEmpty'
  BY DEF TypeOK, StoppedIsEmpty, OwnTable
<1>11. QED
  BY <1>1, <1>2, <1>3, <1>4, <1>5, <1>6, <1>7, <1>8, <1>9, <1>10 DEF IInv

\* A new request preserves the invariant.
LEMMA SendRequestStep ==
    ASSUME NEW c \in Conns, NEW r \in Reqs, IInv, SendRequest(c, r)
    PROVE  IInv'
<1> USE TimesAssumption, OffAssumption, NoneAssumption DEF IInv, Pending, Left, SendRequest, ReactorFree, stopVars, Outcomes
<1>1. TypeOK'
  BY DEF TypeOK, ElapsedCap
<1>2. SendNeverOverlaps'
  BY DEF TypeOK, SendNeverOverlaps, Untouched
<1>3. OutstandingIsTimed'
  <2>1. SUFFICES ASSUME NEW a \in Conns, a # stopping', NEW q \in Reqs, q \in tids'[a]
                 PROVE  /\ conn'[q] = a /\ outcome'[q] = "none"
                        /\ laterFinalTimeout'[q] # Off
    BY DEF OutstandingIsTimed, TypeOK
  <2>2. CASE q = r
    BY <2>1, <2>2 DEF TypeOK, Untouched, FiredIsConcluded
  <2>3. CASE q # r
    <3>1. q \in tids[a] /\ conn'[q] = conn[q]
      BY <2>1, <2>3 DEF TypeOK
    <3>2. outcome'[q] = outcome[q] /\ laterFinalTimeout'[q] = laterFinalTimeout[q]
      BY <2>3 DEF TypeOK
    <3>3. QED
      BY <2>1, <3>1, <3>2 DEF OutstandingIsTimed, TypeOK
  <2>4. QED
    BY <2>2, <2>3
<1>4. Untouched'
  BY DEF TypeOK, Untouched, OwnTable, OutstandingIsTimed, StopLoop
<1>5. FiredIsConcluded'
  BY DEF TypeOK, FiredIsConcluded, OutstandingIsTimed, StopLoop, Untouched
<1>6. OwnTable'
  BY DEF TypeOK, OwnTable
<1>7. StopLoop'
  BY DEF TypeOK, StopLoop, OutstandingIsTimed, Untouched, OwnTable
<1>8. FinalTimeoutClock'
  BY DEF TypeOK, FinalTimeoutClock, Untouched
<1>9. PendingIsOutstanding'
  BY DEF TypeOK, PendingIsOutstanding, FiredIsConcluded, Untouched, OwnTable, StoppedIsEmpty
<1>10. StoppedIsEmpty'
  BY DEF TypeOK, StoppedIsEmpty, OwnTable
<1>11. QED
  BY <1>1, <1>2, <1>3, <1>4, <1>5, <1>6, <1>7, <1>8, <1>9, <1>10 DEF IInv

\* A (re)transmission preserves the invariant.
LEMMA SendStep ==
    ASSUME NEW r \in Reqs, IInv, Send(r)
    PROVE  IInv'
<1> USE TimesAssumption, OffAssumption, NoneAssumption DEF IInv, Pending, Left, Send, Due, ReactorFree, stopVars
<1>1. TypeOK'
  BY DEF TypeOK, ElapsedCap
<1>2. SendNeverOverlaps'
  BY DEF TypeOK, SendNeverOverlaps, Untouched
<1>3. OutstandingIsTimed'
  BY DEF TypeOK, OutstandingIsTimed, OwnTable, Untouched, StopLoop
<1>4. Untouched'
  BY DEF TypeOK, Untouched, OwnTable, OutstandingIsTimed, StopLoop
<1>5. FiredIsConcluded'
  BY DEF TypeOK, FiredIsConcluded, OutstandingIsTimed, StopLoop, Untouched
<1>6. OwnTable'
  BY DEF TypeOK, OwnTable
<1>7. StopLoop'
  BY DEF TypeOK, StopLoop, OutstandingIsTimed, Untouched, OwnTable
<1>8. FinalTimeoutClock'
  BY DEF TypeOK, FinalTimeoutClock, Untouched
<1>9. PendingIsOutstanding'
  BY DEF TypeOK, PendingIsOutstanding, FiredIsConcluded, Untouched, OwnTable, StoppedIsEmpty
<1>10. StoppedIsEmpty'
  BY DEF TypeOK, StoppedIsEmpty, OwnTable
<1>11. QED
  BY <1>1, <1>2, <1>3, <1>4, <1>5, <1>6, <1>7, <1>8, <1>9, <1>10 DEF IInv

\* The final timeout preserves the invariant.
LEMMA RunFinalTimeoutStep ==
    ASSUME NEW r \in Reqs, IInv, RunFinalTimeout(r)
    PROVE  IInv'
<1> USE TimesAssumption, OffAssumption, NoneAssumption DEF IInv, Pending, Left, RunFinalTimeout, FinalTimeout, Conclude, Due, ReactorFree, stopVars, Outcomes
<1>1. TypeOK'
  BY DEF TypeOK, ElapsedCap
<1>2. SendNeverOverlaps'
  BY DEF TypeOK, SendNeverOverlaps, Untouched
<1>3. OutstandingIsTimed'
  BY DEF TypeOK, OutstandingIsTimed, OwnTable, Untouched, StopLoop
<1>4. Untouched'
  BY DEF TypeOK, Untouched, OwnTable, OutstandingIsTimed, StopLoop
<1>5. FiredIsConcluded'
  BY DEF TypeOK, FiredIsConcluded, OutstandingIsTimed, StopLoop, Untouched
<1>6. OwnTable'
  BY DEF TypeOK, OwnTable
<1>7. StopLoop'
  BY DEF TypeOK, StopLoop, OutstandingIsTimed, Untouched, OwnTable
<1>8. FinalTimeoutClock'
  BY DEF TypeOK, FinalTimeoutClock, Untouched
<1>9. PendingIsOutstanding'
  BY DEF TypeOK, PendingIsOutstanding, FiredIsConcluded, Untouched, OwnTable, StoppedIsEmpty
<1>10. StoppedIsEmpty'
  BY DEF TypeOK, StoppedIsEmpty, OwnTable
<1>11. QED
  BY <1>1, <1>2, <1>3, <1>4, <1>5, <1>6, <1>7, <1>8, <1>9, <1>10 DEF IInv

\* The next timeout preserves the invariant.
LEMMA NextTimeoutStep ==
    ASSUME NEW r \in Reqs, IInv, NextTimeout(r)
    PROVE  IInv'
<1> USE TimesAssumption, OffAssumption, NoneAssumption DEF IInv, Pending, Left, NextTimeout, FinalTimeout, Conclude, Due, ReactorFree, stopVars, Outcomes
<1>1. TypeOK'
  BY DEF TypeOK, ElapsedCap
<1>2. SendNeverOverlaps'
  BY DEF TypeOK, SendNeverOverlaps, Untouched
<1>3. OutstandingIsTimed'
  BY SMTT(20) DEF TypeOK, OutstandingIsTimed, OwnTable, Untouched, StopLoop
<1>4. Untouched'
  BY DEF TypeOK, Untouched, OwnTable, OutstandingIsTimed, StopLoop
<1>5. FiredIsConcluded'
  BY DEF TypeOK, FiredIsConcluded, OutstandingIsTimed, StopLoop, Untouched
<1>6. OwnTable'
  BY DEF TypeOK, OwnTable
<1>7. StopLoop'
  BY DEF TypeOK, StopLoop, OutstandingIsTimed, Untouched, OwnTable
<1>8. FinalTimeoutClock'
  BY DEF TypeOK, FinalTimeoutClock, Untouched
<1>9. PendingIsOutstanding'
  BY DEF TypeOK, PendingIsOutstanding, FiredIsConcluded, Untouched, OwnTable, StoppedIsEmpty
<1>10. StoppedIsEmpty'
  BY DEF TypeOK, StoppedIsEmpty, OwnTable
<1>11. QED
  BY <1>1, <1>2, <1>3, <1>4, <1>5, <1>6, <1>7, <1>8, <1>9, <1>10 DEF IInv

\* A datagram preserves the invariant.
LEMMA ReceiveStep ==
    ASSUME NEW c \in Conns, NEW r \in Reqs, NEW o \in {"answered", "error"},
           IInv, Receive(c, r, o)
    PROVE  IInv'
<1> USE TimesAssumption, OffAssumption, NoneAssumption DEF IInv, Pending, Left, Receive, Conclude, ReactorFree, stopVars, Outcomes
<1>1. TypeOK'
  BY DEF TypeOK, ElapsedCap
<1>2. SendNeverOverlaps'
  BY DEF TypeOK, SendNeverOverlaps, Untouched
<1>3. OutstandingIsTimed'
  BY DEF TypeOK, OutstandingIsTimed, OwnTable, Untouched, StopLoop
<1>4. Untouched'
  BY DEF TypeOK, Untouched, OwnTable, OutstandingIsTimed, StopLoop
<1>5. FiredIsConcluded'
  BY DEF TypeOK, FiredIsConcluded, OutstandingIsTimed, StopLoop, Untouched
<1>6. OwnTable'
  BY DEF TypeOK, OwnTable
<1>7. StopLoop'
  BY DEF TypeOK, StopLoop, OutstandingIsTimed, Untouched, OwnTable
<1>8. FinalTimeoutClock'
  BY DEF TypeOK, FinalTimeoutClock, Untouched
<1>9. PendingIsOutstanding'
  BY DEF TypeOK, PendingIsOutstanding, FiredIsConcluded, Untouched, OwnTable, StoppedIsEmpty
<1>10. StoppedIsEmpty'
  BY DEF TypeOK, StoppedIsEmpty, OwnTable
<1>11. QED
  BY <1>1, <1>2, <1>3, <1>4, <1>5, <1>6, <1>7, <1>8, <1>9, <1>10 DEF IInv

\* Closing the port preserves the invariant.
LEMMA StopProtocolStep ==
    ASSUME IInv, StopProtocol
    PROVE  IInv'
<1> USE TimesAssumption, OffAssumption, NoneAssumption DEF IInv, Pending, Left, StopProtocol, ReactorFree, timers
<1>1. TypeOK'
  BY DEF TypeOK, ElapsedCap
<1>2. SendNeverOverlaps'
  BY DEF TypeOK, SendNeverOverlaps, Untouched
<1>3. OutstandingIsTimed'
  BY DEF TypeOK, OutstandingIsTimed, OwnTable, Untouched, StopLoop
<1>4. Untouched'
  BY DEF TypeOK, Untouched, OwnTable, OutstandingIsTimed, StopLoop
<1>5. FiredIsConcluded'
  BY DEF TypeOK, FiredIsConcluded, OutstandingIsTimed, StopLoop, Untouched
<1>6. OwnTable'
  BY DEF TypeOK, OwnTable
<1>7. StopLoop'
  BY DEF TypeOK, StopLoop, OutstandingIsTimed, Untouched, OwnTable
<1>8. FinalTimeoutClock'
  BY DEF TypeOK, FinalTimeoutClock, Untouched
<1>9. PendingIsOutstanding'
  BY DEF TypeOK, PendingIsOutstanding, FiredIsConcluded, Untouched, OwnTable, StoppedIsEmpty
<1>10. StoppedIsEmpty'
  BY DEF TypeOK, StoppedIsEmpty, OwnTable
<1>11. QED
  BY <1>1, <1>2, <1>3, <1>4, <1>5, <1>6, <1>7, <1>8, <1>9, <1>10 DEF IInv

\* The start of stop() preserves the invariant.
LEMMA StopConnStep ==
    ASSUME NEW c \in Conns, IInv, StopConn(c)
    PROVE  IInv'
<1> USE TimesAssumption, OffAssumption, NoneAssumption DEF IInv, Pending, Left, StopConn, timers
<1>1. TypeOK'
  BY DEF TypeOK, ElapsedCap
<1>2. SendNeverOverlaps'
  BY DEF TypeOK, SendNeverOverlaps, Untouched
<1>3. OutstandingIsTimed'
  BY DEF TypeOK, OutstandingIsTimed, OwnTable, Untouched, StopLoop
<1>4. Untouched'
  BY DEF TypeOK, Untouched, OwnTable, OutstandingIsTimed, StopLoop
<1>5. FiredIsConcluded'
  BY DEF TypeOK, FiredIsConcluded, OutstandingIsTimed, StopLoop, Untouched
<1>6. OwnTable'
  BY DEF TypeOK, OwnTable
<1>7. StopLoop'
  BY DEF TypeOK, StopLoop, OutstandingIsTimed, Untouched, OwnTable
<1>8. FinalTimeoutClock'
  BY DEF TypeOK, FinalTimeoutClock, Untouched
<1>9. PendingIsOutstanding'
  BY DEF TypeOK, PendingIsOutstanding, FiredIsConcluded, Untouched, OwnTable, StoppedIsEmpty
<1>10. StoppedIsEmpty'
  BY DEF TypeOK, StoppedIsEmpty, OwnTable
<1>11. QED
  BY <1>1, <1>2, <1>3, <1>4, <1>5, <1>6, <1>7, <1>8, <1>9, <1>10 DEF IInv

\* One errback of stop() preserves the invariant.
LEMMA StopErrbackStep ==
    ASSUME NEW r \in Reqs, IInv, StopErrback(r)
    PROVE  IInv'
<1> USE TimesAssumption, OffAssumption, NoneAssumption DEF IInv, Pending, Left, StopErrback, Conclude, Outcomes
<1>1. TypeOK'
  BY DEF TypeOK, ElapsedCap
<1>2. SendNeverOverlaps'
  BY DEF TypeOK, SendNeverOverlaps, Untouched
<1>3. OutstandingIsTimed'
  BY DEF TypeOK, OutstandingIsTimed, OwnTable, Untouched, StopLoop
<1>4. Untouched'
  BY DEF TypeOK, Untouched, OwnTable, OutstandingIsTimed, StopLoop
<1>5. FiredIsConcluded'
  BY DEF TypeOK, FiredIsConcluded, OutstandingIsTimed, StopLoop, Untouched
<1>6. OwnTable'
  BY DEF TypeOK, OwnTable
<1>7. StopLoop'
  BY DEF TypeOK, StopLoop, OutstandingIsTimed, Untouched, OwnTable
<1>8. FinalTimeoutClock'
  BY DEF TypeOK, FinalTimeoutClock, Untouched
<1>9. PendingIsOutstanding'
  BY DEF TypeOK, PendingIsOutstanding, FiredIsConcluded, Untouched, OwnTable, StoppedIsEmpty
<1>10. StoppedIsEmpty'
  BY DEF TypeOK, StoppedIsEmpty, OwnTable
<1>11. QED
  BY <1>1, <1>2, <1>3, <1>4, <1>5, <1>6, <1>7, <1>8, <1>9, <1>10 DEF IInv

\* The end of stop() preserves the invariant.
LEMMA StopFinishStep ==
    ASSUME IInv, StopFinish
    PROVE  IInv'
<1> USE TimesAssumption, OffAssumption, NoneAssumption DEF IInv, Pending, Left, StopFinish, timers
<1>1. TypeOK'
  BY DEF TypeOK, ElapsedCap
<1>2. SendNeverOverlaps'
  BY DEF TypeOK, SendNeverOverlaps, Untouched
<1>3. OutstandingIsTimed'
  BY DEF TypeOK, OutstandingIsTimed, OwnTable, Untouched, StopLoop
<1>4. Untouched'
  BY DEF TypeOK, Untouched, OwnTable, OutstandingIsTimed, StopLoop
<1>5. FiredIsConcluded'
  BY DEF TypeOK, FiredIsConcluded, OutstandingIsTimed, StopLoop, Untouched
<1>6. OwnTable'
  BY DEF TypeOK, OwnTable
<1>7. StopLoop'
  BY DEF TypeOK, StopLoop, OutstandingIsTimed, Untouched, OwnTable
<1>8. FinalTimeoutClock'
  BY DEF TypeOK, FinalTimeoutClock, Untouched
<1>9. PendingIsOutstanding'
  BY DEF TypeOK, PendingIsOutstanding, FiredIsConcluded, Untouched, OwnTable, StoppedIsEmpty
<1>10. StoppedIsEmpty'
  BY DEF TypeOK, StoppedIsEmpty, OwnTable
<1>11. QED
  BY <1>1, <1>2, <1>3, <1>4, <1>5, <1>6, <1>7, <1>8, <1>9, <1>10 DEF IInv

\* The invariant holds initially.
LEMMA InitIInv == Init => IInv
<1> USE TimesAssumption, NoneAssumption, OffAssumption DEF Init
<1>1. Init => TypeOK
  <2> SUFFICES ASSUME Init PROVE TypeOK
    OBVIOUS
  <2>1. elapsed \in [Reqs -> 0..ElapsedCap]
    <3>1. 0 \in 0..ElapsedCap
      BY DEF ElapsedCap
    <3>2. QED
      BY <3>1, Zenon
  <2>2. tids \in [Conns -> SUBSET Reqs] /\ stopped \in [Conns -> BOOLEAN]
    OBVIOUS
  <2>3. /\ delay \in [Reqs -> Nat] /\ fires \in [Reqs -> Nat] /\ sent \in [Reqs -> Nat]
        /\ outcome \in [Reqs -> Outcomes \cup {"none"}]
        /\ conn \in [Reqs -> Conns \cup {None}]
    OBVIOUS
  <2>4. /\ laterSend \in [Reqs -> Left] /\ laterNextTimeout \in [Reqs -> Left]
        /\ laterFinalTimeout \in [Reqs -> Left]
    BY DEF Left
  <2>5. QED
    BY <2>1, <2>2, <2>3, <2>4 DEF TypeOK
<1>2. Init => SendNeverOverlaps /\ OutstandingIsTimed /\ Untouched
  BY DEF SendNeverOverlaps, OutstandingIsTimed, Untouched
<1>3. Init => FiredIsConcluded /\ OwnTable /\ StopLoop
  BY DEF FiredIsConcluded, OwnTable, StopLoop
<1>4. Init => FinalTimeoutClock /\ PendingIsOutstanding /\ StoppedIsEmpty
  BY DEF FinalTimeoutClock, PendingIsOutstanding, Pending, StoppedIsEmpty
<1>5. QED
  BY <1>1, <1>2, <1>3, <1>4 DEF IInv

\* A step that changes nothing preserves the invariant.
LEMMA StutterStep == ASSUME IInv, UNCHANGED vars PROVE IInv'
<1> USE DEF IInv, vars, timers, stopVars
<1>1. TypeOK' /\ SendNeverOverlaps' /\ OutstandingIsTimed' /\ Untouched'
  BY DEF TypeOK, SendNeverOverlaps, OutstandingIsTimed, Untouched, Pending
<1>2. FiredIsConcluded' /\ OwnTable' /\ StopLoop'
  BY DEF FiredIsConcluded, OwnTable, StopLoop, Pending
<1>3. FinalTimeoutClock' /\ PendingIsOutstanding' /\ StoppedIsEmpty'
  BY DEF FinalTimeoutClock, PendingIsOutstanding, StoppedIsEmpty, Pending
<1>4. QED
  BY <1>1, <1>2, <1>3

\* Every step preserves the invariant.
LEMMA NextIInv == IInv /\ [Next]_vars => IInv'
<1> SUFFICES ASSUME IInv, [Next]_vars PROVE IInv'
  OBVIOUS
<1>1. CASE Tick
  BY <1>1, TickStep
<1>2. CASE RunDelayedCall
  BY <1>2, SendStep, NextTimeoutStep, RunFinalTimeoutStep DEF RunDelayedCall
<1>3. CASE Stop
  BY <1>3, StopConnStep, StopErrbackStep, StopFinishStep DEF Stop
<1>4. CASE StopProtocol
  BY <1>4, StopProtocolStep
<1>5. CASE Datagram
  BY <1>5, ReceiveStep DEF Datagram
<1>6. CASE \E c \in Conns, r \in Reqs : SendRequest(c, r)
  BY <1>6, SendRequestStep
<1>7. CASE UNCHANGED vars
  BY <1>7, StutterStep
<1>8. QED
  BY <1>1, <1>2, <1>3, <1>4, <1>5, <1>6, <1>7 DEF Next

\* The inductive invariant holds in every reachable state of the request machinery.
THEOREM Invariance == Safety => []IInv
  BY InitIInv, NextIInv, PTL DEF Safety

\* The state of hostbroker, KRPC and KrpcRequest is always well formed.
THEOREM TypeCorrect == Safety => []TypeOK
<1>1. IInv => TypeOK
  BY DEF IInv
<1>2. QED
  BY <1>1, Invariance, PTL

\* The assertion at the start of KrpcRequest.send never fails.
THEOREM SendAssertionHolds == Safety => []SendNeverOverlaps
<1>1. IInv => SendNeverOverlaps
  BY DEF IInv
<1>2. QED
  BY <1>1, Invariance, PTL

\* No request's Deferred is fired twice, whatever races for it and whatever its
\* callbacks ask while stop() runs.
THEOREM AtMostOnce == Safety => []FiredAtMostOnce
<1>1. IInv => FiredAtMostOnce
  BY DEF IInv, FiredIsConcluded, FiredAtMostOnce, TypeOK
<1>2. QED
  BY <1>1, Invariance, PTL

\* No outstanding transaction is without its final timeout.
THEOREM OutstandingTimed == Safety => []OutstandingIsTimed
<1>1. IInv => OutstandingIsTimed
  BY DEF IInv
<1>2. QED
  BY <1>1, Invariance, PTL

\* If callbacks leave the node being stopped alone, stop() concludes all its requests.
THEOREM StopIsComplete == ASSUME ~Reentrant PROVE Safety => []StopConcludes
<1>1. IInv => StopConcludes
  BY DEF IInv, PendingIsOutstanding, StoppedIsEmpty, StopConcludes, Pending, TypeOK
<1>2. QED
  BY <1>1, Invariance, PTL

\* If callbacks leave the node being stopped alone, a request is given up in time.
THEOREM GivenUpInTime == ASSUME ~Reentrant PROVE Safety => []PendingIsYoung
<1>1. IInv => PendingIsYoung
  <2>1. SUFFICES ASSUME IInv, NEW r \in Reqs, Pending(r)
                 PROVE  elapsed[r] <= KRPC_TIMEOUT + MaxLate
    BY DEF PendingIsYoung
  <2>2. r \in tids[conn[r]] /\ (conn[r] = stopping => r \in toFail)
    BY <2>1 DEF IInv, PendingIsOutstanding
  <2>3. conn[r] \in Conns
    BY <2>1 DEF IInv, TypeOK, Pending
  <2>4. laterFinalTimeout[r] # Off
    BY <2>1, <2>2, <2>3, NoneAssumption DEF IInv, OutstandingIsTimed, StopLoop
  <2>5. /\ laterFinalTimeout[r] >= -MaxLate
        /\ elapsed[r] = KRPC_TIMEOUT - laterFinalTimeout[r]
    BY <2>1, <2>4 DEF IInv, FinalTimeoutClock
  <2>6. laterFinalTimeout[r] \in Int
    BY <2>1, <2>4 DEF IInv, TypeOK, Left
  <2>7. QED
    BY <2>1, <2>5, <2>6, TimesAssumption
<1>2. QED
  BY <1>1, Invariance, PTL

\* A step changes the caller's view of at most the request it concludes.
LEMMA ConcludeIsOnce ==
    ASSUME IInv, NEW r \in Reqs, NEW o \in Outcomes, Pending(r), Conclude(r, o), conn' = conn
    PROVE  Once!Conclude({r}) /\ Once!Concluded = {r}
<1>1. fires[r] = 0 /\ status[r] = "pending"
  BY DEF IInv, FiredIsConcluded, Pending, status, Outcomes
<1>2. outcome' = [outcome EXCEPT ![r] = o]
  BY <1>1 DEF Conclude
<1>3. status' = [status EXCEPT ![r] = o]
  BY <1>2 DEF status, Pending, IInv, TypeOK, Outcomes
<1>4. status' = [x \in Reqs |-> IF x \in {r} THEN o ELSE status[x]]
  BY <1>3 DEF status
<1>5. Once!Conclude({r})
  BY <1>1, <1>4 DEF Once!Conclude, Once!Outcomes, Outcomes
<1>6. Once!Concluded = {r}
  BY <1>1, <1>4 DEF Once!Concluded, Outcomes
<1>7. QED
  BY <1>5, <1>6

\* A request made is a request issued to the caller.
LEMMA SendRequestIsIssue ==
    ASSUME IInv, NEW c \in Conns, NEW r \in Reqs, SendRequest(c, r)
    PROVE  Once!Issue(r)
<1>1. conn[r] = None /\ conn' = [conn EXCEPT ![r] = c] /\ outcome[r] = "none"
  BY DEF SendRequest, IInv, Untouched, FiredIsConcluded
<1>2. CASE outcome' = [outcome EXCEPT ![r] = "stopped"]
  BY <1>1, <1>2, NoneAssumption DEF status, Once!Issue, IInv, TypeOK
<1>3. CASE outcome' = outcome
  BY <1>1, <1>3, NoneAssumption DEF status, Once!Issue, IInv, TypeOK
<1>4. QED
  BY <1>2, <1>3 DEF SendRequest

\* Every step of KRPC is a step of RequestOnce or leaves it as it is.
LEMMA NextIsOnce == IInv /\ [Next]_vars => [Once!Next]_status
<1> SUFFICES ASSUME IInv, [Next]_vars PROVE [Once!Next]_status
  OBVIOUS
<1>1. ASSUME NEW r \in Reqs,
             (Once!Conclude({r}) /\ Once!Concluded = {r}) \/ Once!Issue(r)
      PROVE  Once!Next
  BY <1>1 DEF Once!Next
<1>2. ASSUME conn' = conn, outcome' = outcome PROVE status' = status
  BY <1>2 DEF status
<1>3. CASE Tick
  BY <1>2, <1>3 DEF Tick
<1>4. ASSUME NEW r \in Reqs, FinalTimeout(r), conn' = conn, conn[r] # None, ReactorFree
      PROVE  [Once!Next]_status
  <2>1. CASE r \in tids[conn[r]]
    <3>1. Pending(r) /\ Conclude(r, "timeout")
      BY <1>4, <2>1, NoneAssumption
      DEF IInv, TypeOK, OutstandingIsTimed, FinalTimeout, ReactorFree
    <3>2. QED
      BY <1>1, <1>4, <3>1, ConcludeIsOnce DEF Outcomes
  <2>2. CASE r \notin tids[conn[r]]
    BY <1>2, <1>4, <2>2 DEF FinalTimeout
  <2>3. QED
    BY <2>1, <2>2
<1>5. CASE RunDelayedCall
  <2>1. ASSUME NEW r \in Reqs, Send(r) PROVE [Once!Next]_status
    BY <1>2, <2>1 DEF Send
  <2>2. ASSUME NEW r \in Reqs, NextTimeout(r) PROVE [Once!Next]_status
    <3>1. conn' = conn /\ conn[r] # None /\ ReactorFree
      BY <2>2 DEF NextTimeout, Due, IInv, Untouched
    <3>2. QED
      BY <1>2, <1>4, <2>2, <3>1 DEF NextTimeout
  <2>3. ASSUME NEW r \in Reqs, RunFinalTimeout(r) PROVE [Once!Next]_status
    <3>1. conn' = conn /\ conn[r] # None /\ ReactorFree
      BY <2>3 DEF RunFinalTimeout, Due, IInv, Untouched
    <3>2. QED
      BY <1>4, <2>3, <3>1 DEF RunFinalTimeout
  <2>4. QED
    BY <1>5, <2>1, <2>2, <2>3 DEF RunDelayedCall
<1>6. CASE Stop
  <2>1. ASSUME NEW r \in Reqs, StopErrback(r) PROVE [Once!Next]_status
    <3>1. Pending(r) /\ Conclude(r, "stopped") /\ conn' = conn
      BY <2>1 DEF StopErrback, IInv, StopLoop
    <3>2. QED
      BY <1>1, <3>1, ConcludeIsOnce DEF Outcomes
  <2>2. QED
    BY <1>2, <1>6, <2>1 DEF Stop, StopConn, StopFinish
<1>7. CASE StopProtocol
  BY <1>2, <1>7 DEF StopProtocol
<1>8. CASE Datagram
  <2>1. ASSUME NEW c \in Conns, NEW r \in Reqs, NEW o \in {"answered", "error"},
               Receive(c, r, o)
        PROVE  [Once!Next]_status
    <3>1. CASE r \in tids[c]
      <4>1. Pending(r) /\ Conclude(r, o) /\ conn' = conn
        BY <2>1, <3>1, NoneAssumption DEF Receive, ReactorFree, IInv, OutstandingIsTimed
      <4>2. QED
        BY <1>1, <4>1, ConcludeIsOnce DEF Outcomes
    <3>2. CASE r \notin tids[c]
      BY <1>2, <2>1, <3>2 DEF Receive
    <3>3. QED
      BY <3>1, <3>2
  <2>2. QED
    BY <1>8, <2>1 DEF Datagram
<1>9. CASE \E c \in Conns, r \in Reqs : SendRequest(c, r)
  BY <1>1, <1>9, SendRequestIsIssue
<1>10. CASE UNCHANGED vars
  BY <1>2, <1>10 DEF vars
<1>11. QED
  BY <1>3, <1>5, <1>6, <1>7, <1>8, <1>9, <1>10 DEF Next

\* KrpcRequest with all its timers, retransmissions and races implements the safety
\* part of the one-shot promise: a conclusion, once given, never changes.
THEOREM RefinesRequestOnce == Safety => Once!Safety
<1>1. Init => Once!Init
  BY DEF Init, Once!Init, status
<1>2. QED
  BY <1>1, Invariance, NextIsOnce, PTL DEF Safety, Once!Safety

-----------------------------------------------------------------------------
(* The routing table. *)

\* Induction on the numbers up to N.
LEMMA UpTo ==
    ASSUME NEW N \in Nat, NEW S, 0 \in S, \A d \in 1..N : d - 1 \in S => d \in S
    PROVE  \A d \in 0..N : d \in S
<1> DEFINE out == {d \in 0..N : d \notin S}
<1> SUFFICES ASSUME out # {} PROVE FALSE
  OBVIOUS
<1>1. IsFiniteSet(out) /\ out \subseteq Int
  <2>1. IsFiniteSet(0..N)
    BY FS_Interval
  <2> QED  BY <2>1, FS_Subset
<1> DEFINE m == Min(out)
<1>2. m \in out /\ \A d \in out : m <= d
  BY <1>1, MinOfSet
<1>3. m \in 1..N /\ m \notin S
  BY <1>2
<1> HIDE DEF m
<1>4. m - 1 \in S
  BY <1>2, <1>3
<1> QED  BY <1>3, <1>4

-----------------------------------------------------------------------------
(* Powers of two. *)

\* What the recursive definition of Power says.
LEMMA PowerDef ==
    Power[0] = 1 /\ \A k \in 1..Bits : Power[k] = 2 * Power[k - 1]
<1> DEFINE S == {m \in 0..Bits : \E f : f = [k \in 0..m |-> IF k = 0 THEN 1 ELSE 2 * f[k - 1]]}
<1>1. Bits \in Nat
  BY KTableAssumption
<1>2. 0 \in S
  <2> DEFINE f == [k \in 0..0 |-> 1]
  <2>1. f = [k \in 0..0 |-> IF k = 0 THEN 1 ELSE 2 * f[k - 1]]
    OBVIOUS
  <2>2. 0 \in 0..Bits
    BY <1>1
  <2> HIDE DEF f
  <2> QED  BY <2>1, <2>2
<1>3. ASSUME NEW m \in 1..Bits, m - 1 \in S PROVE m \in S
  <2>1. PICK f : f = [k \in 0..(m - 1) |-> IF k = 0 THEN 1 ELSE 2 * f[k - 1]]
    BY <1>3
  <2> DEFINE g == [k \in 0..m |-> IF k = m THEN 2 * f[m - 1] ELSE f[k]]
  <2>2. ASSUME NEW k \in 0..m PROVE g[k] = IF k = 0 THEN 1 ELSE 2 * g[k - 1]
    BY <2>1
  <2>3. g = [k \in 0..m |-> IF k = 0 THEN 1 ELSE 2 * g[k - 1]]
    BY <2>2
  <2> HIDE DEF g
  <2> QED  BY <2>3
<1> HIDE DEF S
<1>4. Bits \in S
  BY <1>1, <1>2, <1>3, UpTo
<1>5. Power = [k \in 0..Bits |-> IF k = 0 THEN 1 ELSE 2 * Power[k - 1]]
  BY <1>4 DEF Power, S
<1> QED  BY <1>1, <1>5

\* The powers of two up to 2^Bits are positive.
LEMMA PowerType ==
    /\ Bits \in Nat /\ Bits > 0
    /\ \A k \in 0..Bits : Power[k] \in Nat /\ Power[k] > 0
<1>1. Bits \in Nat /\ Bits > 0
  BY KTableAssumption
<1> DEFINE S == {k \in 0..Bits : Power[k] \in Nat /\ Power[k] > 0}
<1>2. 0 \in S
  BY <1>1, PowerDef
<1>3. ASSUME NEW k \in 1..Bits, k - 1 \in S PROVE k \in S
  BY <1>3, PowerDef
<1> HIDE DEF S
<1>4. \A k \in 0..Bits : k \in S
  BY <1>1, <1>2, <1>3, UpTo
<1> QED  BY <1>1, <1>4 DEF S

\* A larger power is a multiple of a smaller one.
LEMMA PowerMultiple ==
    ASSUME NEW k \in 0..Bits, NEW d \in 0..Bits, k + d <= Bits
    PROVE  \E m \in Nat \ {0} : Power[k + d] = m * Power[k] /\ (d > 0 => m >= 2)
<1> DEFINE S == {e \in 0..Bits : k + e <= Bits =>
                    \E m \in Nat \ {0} : Power[k + e] = m * Power[k] /\ (e > 0 => m >= 2)}
<1>1. Bits \in Nat /\ Power[k] \in Nat /\ Power[k] > 0
  BY PowerType
<1>2. 0 \in S
  BY <1>1
<1>3. ASSUME NEW e \in 1..Bits, e - 1 \in S PROVE e \in S
  <2> SUFFICES ASSUME k + e <= Bits
               PROVE  \E m \in Nat \ {0} : Power[k + e] = m * Power[k] /\ (e > 0 => m >= 2)
    OBVIOUS
  <2>0. k + (e - 1) <= Bits
    BY <1>1
  <2>1. PICK m \in Nat \ {0} : Power[k + (e - 1)] = m * Power[k]
    BY <1>3, <2>0
  <2>2. Power[k + e] = 2 * Power[k + (e - 1)]
    <3>1. k + e \in 1..Bits /\ (k + e) - 1 = k + (e - 1)
      BY <1>1
    <3> QED  BY <3>1, PowerDef
  <2>3. Power[k + e] = (2 * m) * Power[k] /\ 2 * m \in Nat \ {0} /\ 2 * m >= 2
    BY <1>1, <2>1, <2>2
  <2> QED  BY <2>3
<1> HIDE DEF S
<1>4. d \in S
  BY <1>1, <1>2, <1>3, UpTo
<1> QED  BY <1>4 DEF S

\* Different levels have different powers.
LEMMA PowerGrows ==
    ASSUME NEW j \in 0..Bits, NEW k \in 0..Bits, j < k
    PROVE  2 * Power[j] <= Power[k]
<1> DEFINE d == k - j
<1>1. Bits \in Nat /\ d \in 0..Bits /\ d > 0 /\ j + d = k /\ Power[j] \in Nat /\ Power[j] > 0
  BY PowerType
<1> HIDE DEF d
<1>2. PICK m \in Nat \ {0} : Power[j + d] = m * Power[j] /\ (d > 0 => m >= 2)
  <2>1. j + d <= Bits
    BY <1>1
  <2> QED  BY <1>1, <2>1, PowerMultiple
<1> QED  BY <1>1, <1>2

-----------------------------------------------------------------------------
(* Ranges of IDs. *)

\* A range of IDs that k halvings of the ID space can lead to, counted from the end.
IsBlock(lo, hi, k) ==
    /\ k \in 0..Bits /\ lo \in Nat /\ hi = lo + Power[k] /\ hi <= Power[Bits]
    /\ \E q \in Nat : lo = q * Power[k]

\* A range that a bucket may have: it came from one with the local node in it.
IsRange(lo, hi) ==
    \E k \in 0..Bits :
        /\ IsBlock(lo, hi, k)
        /\ k < Bits => \E p, q \in Nat : /\ IsBlock(p, q, k + 1)
                                        /\ p <= lo /\ hi <= q
                                        /\ p <= Own /\ Own < q

\* KBucket.split halves a block into two.
LEMMA BlockHalves ==
    ASSUME NEW lo, NEW hi, NEW k \in 1..Bits, IsBlock(lo, hi, k)
    PROVE  LET middle == hi - (hi - lo) \div 2
           IN  IsBlock(lo, middle, k - 1) /\ IsBlock(middle, hi, k - 1)
<1> DEFINE P == Power[k - 1]
           middle == hi - (hi - lo) \div 2
<1>1. Bits \in Nat /\ P \in Nat /\ P > 0 /\ Power[k] = 2 * P /\ Power[Bits] \in Nat /\ k - 1 \in 0..Bits
  BY PowerType, PowerDef
<1>2. PICK q \in Nat : lo = q * Power[k]
  BY DEF IsBlock
<1>3. lo \in Nat /\ hi = lo + Power[k] /\ hi <= Power[Bits]
  BY DEF IsBlock
<1>4. (hi - lo) \div 2 = P
  BY <1>1, <1>3
<1>5. middle = lo + P /\ hi = middle + P
  BY <1>1, <1>3, <1>4
<1> HIDE DEF middle
<1>6. lo = (2 * q) * P /\ middle = (2 * q + 1) * P /\ 2 * q \in Nat /\ 2 * q + 1 \in Nat
  BY <1>1, <1>2, <1>3, <1>5
<1>7. IsBlock(lo, middle, k - 1)
  BY <1>1, <1>3, <1>5, <1>6 DEF IsBlock
<1>8. IsBlock(middle, hi, k - 1)
  BY <1>1, <1>3, <1>5, <1>6 DEF IsBlock
<1> QED  BY <1>7, <1>8 DEF middle

\* Blocks of a size do not overlap.
LEMMA BlocksApart ==
    ASSUME NEW a, NEW b, NEW c, NEW d, NEW k, IsBlock(a, b, k), IsBlock(c, d, k), a < c
    PROVE  b <= c
<1> DEFINE P == Power[k]
<1>1. P \in Nat /\ P > 0 /\ a \in Nat /\ c \in Nat /\ b = a + P
  BY PowerType DEF IsBlock
<1>2. PICK q \in Nat : a = q * P
  BY DEF IsBlock
<1>3. PICK r \in Nat : c = r * P
  BY DEF IsBlock
<1> HIDE DEF P
<1>4. q < r
  <2>1. SUFFICES ASSUME r <= q PROVE FALSE
    OBVIOUS
  <2>2. r * P <= q * P
    BY <1>1, <2>1
  <2> QED  BY <1>1, <1>2, <1>3, <2>2
<1>5. (q + 1) * P <= r * P
  BY <1>1, <1>4
<1>6. (q + 1) * P = q * P + P
  BY <1>1
<1> QED  BY <1>1, <1>2, <1>3, <1>5, <1>6

\* A block is one half of a block of the next size.
LEMMA BlockInParent ==
    ASSUME NEW a, NEW b, NEW p, NEW q, NEW k \in Nat,
           IsBlock(a, b, k), IsBlock(p, q, k + 1), p <= a, b <= q
    PROVE  (a = p /\ q = b + Power[k]) \/ (a = p + Power[k] /\ q = b)
<1> DEFINE P == Power[k]
<1>1. k + 1 \in 1..Bits /\ Power[k + 1] = 2 * P /\ P \in Nat /\ P > 0
  BY PowerDef, PowerType DEF IsBlock
<1>2. a \in Nat /\ b = a + P /\ p \in Nat /\ q = p + 2 * P
  BY <1>1 DEF IsBlock
<1>3. PICK u \in Nat : a = u * P
  BY DEF IsBlock
<1>4. PICK v \in Nat : p = v * (2 * P)
  BY <1>1 DEF IsBlock
<1> HIDE DEF P
<1>5. p = (2 * v) * P /\ 2 * v \in Nat
  BY <1>1, <1>4
<1> DEFINE w == u - 2 * v
<1>6. w \in Int /\ a - p = w * P
  BY <1>1, <1>2, <1>3, <1>5
<1> HIDE DEF w
<1>7. w * P >= 0 /\ w * P <= P
  BY <1>1, <1>2, <1>6
<1>8. w >= 0
  <2>1. SUFFICES ASSUME w <= -1 PROVE FALSE
    BY <1>6
  <2>2. w * P <= (-1) * P
    BY <1>1, <1>6, <2>1
  <2> QED  BY <1>1, <1>6, <1>7, <2>2
<1>9. w <= 1
  <2>1. SUFFICES ASSUME w >= 2 PROVE FALSE
    BY <1>6
  <2>2. w * P >= 2 * P
    BY <1>1, <1>6, <2>1
  <2> QED  BY <1>1, <1>6, <1>7, <2>2
<1>10. w = 0 \/ w = 1
  BY <1>6, <1>8, <1>9
<1>11. a - p = 0 \/ a - p = P
  BY <1>1, <1>6, <1>10
<1>12. (a = p /\ q = b + P) \/ (a = p + P /\ q = b)
  <2>1. p \in Nat
    BY DEF IsBlock
  <2>2. P \in Nat /\ a \in Nat /\ b = a + P /\ q = p + 2 * P
    BY <1>1, <1>2
  <2>3. CASE a - p = 0
    BY <2>1, <2>2, <2>3
  <2>4. CASE a - p = P
    BY <2>1, <2>2, <2>4
  <2> QED  BY <1>11, <2>3, <2>4
<1> QED  BY <1>12 DEF P

\* A block that is not the whole ID space is in one of the next size.
LEMMA ParentBlock ==
    ASSUME NEW a, NEW b, NEW k \in Nat, k < Bits, IsBlock(a, b, k)
    PROVE  \E p, q \in Nat : IsBlock(p, q, k + 1) /\ p <= a /\ b <= q
<1> DEFINE P == Power[k]
<1>1. Bits \in Nat /\ k + 1 \in 1..Bits /\ Power[k + 1] = 2 * P /\ P \in Nat /\ P > 0 /\ Power[Bits] \in Nat
  BY PowerDef, PowerType DEF IsBlock
<1>2. a \in Nat /\ b = a + P /\ b <= Power[Bits]
  BY DEF IsBlock
<1>3. PICK u \in Nat : a = u * P
  BY DEF IsBlock
<1>4. PICK m \in Nat : Power[Bits] = m * (2 * P)
  <2> DEFINE d == Bits - (k + 1)
  <2>1. d \in 0..Bits /\ (k + 1) + d = Bits /\ k + 1 \in 0..Bits /\ (k + 1) + d <= Bits
    BY <1>1
  <2> HIDE DEF d
  <2>2. PICK m \in Nat \ {0} : Power[(k + 1) + d] = m * Power[k + 1]
    BY <2>1, PowerMultiple
  <2> QED  BY <1>1, <2>1, <2>2
<1> HIDE DEF P
<1> DEFINE v == u \div 2
<1>5. v \in Nat /\ (u = 2 * v \/ u = 2 * v + 1)
  BY <1>3
<1> HIDE DEF v
<1> DEFINE p == v * (2 * P)
<1>6. p \in Nat /\ p = (2 * v) * P
  BY <1>1, <1>5
<1>7. p <= a /\ b <= p + 2 * P
  <2>1. CASE u = 2 * v
    BY <1>1, <1>2, <1>3, <1>6, <2>1
  <2>2. CASE u = 2 * v + 1
    <3>1. a = (2 * v) * P + P
      BY <1>1, <1>3, <1>5, <2>2
    <3> QED  BY <1>1, <1>2, <1>6, <3>1
  <2> QED  BY <1>5, <2>1, <2>2
<1>8. v < m
  <2>1. SUFFICES ASSUME m <= v PROVE FALSE
    BY <1>4, <1>5
  <2>2. m * (2 * P) <= v * (2 * P)
    BY <1>1, <1>4, <1>5, <2>1
  <2> QED  BY <1>1, <1>2, <1>4, <1>6, <1>7, <2>2
<1>9. p + 2 * P <= Power[Bits]
  <2>1. (v + 1) * (2 * P) <= m * (2 * P)
    BY <1>1, <1>4, <1>5, <1>8
  <2>2. (v + 1) * (2 * P) = p + 2 * P
    BY <1>1, <1>5
  <2> QED  BY <1>4, <2>1, <2>2
<1>10. p = v * Power[k + 1]
  BY <1>1
<1> HIDE DEF p
<1>11. IsBlock(p, p + 2 * P, k + 1)
  BY <1>1, <1>5, <1>6, <1>9, <1>10 DEF IsBlock
<1> QED  BY <1>1, <1>6, <1>7, <1>11

\* The local node has an ID.
LEMMA OwnType == Own \in Nat /\ Own < Power[Bits] /\ Power[Bits] \in Nat /\ Bits \in Nat
<1>1. Bits \in Nat /\ Power[Bits] \in Nat
  BY PowerType
<1>2. Own \in Ids
  BY KTableAssumption
<1> QED  BY <1>1, <1>2 DEF Ids

\* The levels of ranges of one size are the same.
LEMMA SameLevel ==
    ASSUME NEW j \in 0..Bits, NEW k \in 0..Bits, Power[j] = Power[k]
    PROVE  j = k
<1>1. Bits \in Nat /\ Power[j] \in Nat /\ Power[j] > 0
  BY PowerType
<1>2. CASE j < k
  <2>1. 2 * Power[j] <= Power[k]
    BY <1>2, PowerGrows
  <2> QED  BY <1>1, <2>1
<1>3. CASE k < j
  <2>1. 2 * Power[k] <= Power[j]
    BY <1>3, PowerGrows
  <2> QED  BY <1>1, <2>1
<1> QED  BY <1>1, <1>2, <1>3

\* A block with the local node in it is a range.
LEMMA OwnBlockIsRange ==
    ASSUME NEW a, NEW b, NEW k, IsBlock(a, b, k), a <= Own, Own < b
    PROVE  IsRange(a, b)
<1>1. k \in 0..Bits /\ k \in Nat /\ Bits \in Nat /\ Own \in Nat /\ a \in Nat /\ b \in Nat
  <2>1. Bits \in Nat /\ k \in 0..Bits /\ Power[k] \in Nat
    BY PowerType DEF IsBlock
  <2> QED  BY <2>1, OwnType DEF IsBlock
<1>2. CASE k = Bits
  BY <1>1, <1>2 DEF IsRange
<1>3. CASE k < Bits
  <2>1. PICK p, q \in Nat : IsBlock(p, q, k + 1) /\ p <= a /\ b <= q
    BY <1>1, <1>3, ParentBlock
  <2>2. p <= Own /\ Own < q
    BY <1>1, <2>1
  <2> QED  BY <1>1, <2>1, <2>2 DEF IsRange
<1> QED  BY <1>1, <1>2, <1>3

\* Adjoining ranges of one size are the halves of a block with the local node in it.
LEMMA TwinRanges ==
    ASSUME NEW a, NEW b, NEW c, IsRange(a, b), IsRange(b, c), b - a = c - b
    PROVE  \E k \in Nat : /\ k < Bits
                         /\ IsBlock(a, b, k) /\ IsBlock(b, c, k) /\ IsBlock(a, c, k + 1)
                         /\ a <= Own /\ Own < c
<1>1. PICK k \in 0..Bits :
         /\ IsBlock(a, b, k)
         /\ k < Bits => \E p, q \in Nat : IsBlock(p, q, k + 1) /\ p <= a /\ b <= q /\ p <= Own /\ Own < q
  BY DEF IsRange
<1>2. PICK l \in 0..Bits :
         /\ IsBlock(b, c, l)
         /\ l < Bits => \E p, q \in Nat : IsBlock(p, q, l + 1) /\ p <= b /\ c <= q /\ p <= Own /\ Own < q
  BY DEF IsRange
<1>3. /\ Bits \in Nat /\ Power[k] \in Nat /\ Power[k] > 0 /\ Power[l] \in Nat
      /\ a \in Nat /\ b = a + Power[k] /\ b \in Nat /\ c = b + Power[l] /\ c \in Nat
      /\ c <= Power[Bits] /\ Own \in Nat
  <2>1. Bits \in Nat /\ Power[k] \in Nat /\ Power[k] > 0 /\ Power[l] \in Nat
    BY PowerType
  <2>2. a \in Nat /\ b = a + Power[k] /\ b \in Nat /\ c = b + Power[l] /\ c <= Power[Bits]
    BY <1>1, <1>2 DEF IsBlock
  <2>3. c \in Nat
    <3>1. c = b + Power[l] /\ b \in Nat
      BY <1>1, <1>2 DEF IsBlock
    <3>2. Power[l] \in Nat
      BY <2>1
    <3> QED  BY <3>1, <3>2
  <2>4. Own \in Nat
    BY OwnType
  <2> QED  BY <2>1, <2>2, <2>3, <2>4
<1>4. l = k
  <2>1. Power[l] = Power[k]
    BY <1>3
  <2> QED  BY <2>1, SameLevel
<1>5. k < Bits /\ k \in Nat
  <2>1. k # Bits
    BY <1>3, <1>4
  <2> QED  BY <1>3, <2>1
<1>6. PICK p, q \in Nat : IsBlock(p, q, k + 1) /\ p <= a /\ b <= q /\ p <= Own /\ Own < q
  BY <1>1, <1>5
<1>7. PICK r, s \in Nat : IsBlock(r, s, k + 1) /\ r <= b /\ c <= s /\ r <= Own /\ Own < s
  BY <1>2, <1>4, <1>5
<1>8. (a = p /\ q = b + Power[k]) \/ (a = p + Power[k] /\ q = b)
  BY <1>1, <1>5, <1>6, BlockInParent
<1>9. (b = r /\ s = c + Power[k]) \/ (b = r + Power[k] /\ s = c)
  BY <1>2, <1>4, <1>5, <1>7, BlockInParent
<1>10. CASE a = p /\ q = b + Power[k]
  <2>1. q = c
    BY <1>3, <1>4, <1>10
  <2> QED  BY <1>1, <1>2, <1>4, <1>5, <1>6, <1>10, <2>1
<1>11. CASE b = r + Power[k] /\ s = c
  <2>1. r = a
    BY <1>3, <1>7, <1>11
  <2> QED  BY <1>1, <1>2, <1>4, <1>5, <1>7, <1>11, <2>1
<1>12. CASE a = p + Power[k] /\ q = b /\ b = r
  BY <1>3, <1>6, <1>7, <1>12
<1> QED  BY <1>8, <1>9, <1>10, <1>11, <1>12

\* The size of a range is positive, and within the ID space.
LEMMA RangeBounds ==
    ASSUME NEW a, NEW b, IsRange(a, b)
    PROVE  a \in Nat /\ b \in Nat /\ a < b /\ b <= Power[Bits] /\ Power[Bits] \in Nat
<1>1. PICK k \in 0..Bits : IsBlock(a, b, k)
  BY DEF IsRange
<1> QED  BY <1>1, PowerType DEF IsBlock

\* A multiple leaves no remainder.
LEMMA MultipleOf ==
    ASSUME NEW P \in Nat, P > 0, NEW u \in Nat
    PROVE  (u * P) % P = 0
<1>1. PICK x : x = u * P
  OBVIOUS
<1>2. x \in Nat /\ x = u * P + 0
  BY <1>1
<1> QED  BY <1>1, <1>2

\* What a range has to do with the local node, in terms of divisions.
LEMMA RangeDivides ==
    ASSUME NEW a, NEW b, IsRange(a, b)
    PROVE  /\ a % (b - a) = 0
           /\ b - a < Power[Bits] => a \div (2 * (b - a)) = Own \div (2 * (b - a))
<1>1. PICK k \in 0..Bits :
         /\ IsBlock(a, b, k)
         /\ k < Bits => \E p, q \in Nat : IsBlock(p, q, k + 1) /\ p <= a /\ b <= q /\ p <= Own /\ Own < q
  BY DEF IsRange
<1> DEFINE P == b - a
<1>2. /\ Bits \in Nat /\ P = Power[k] /\ P \in Nat /\ P > 0 /\ a \in Nat /\ Own \in Nat /\ b \in Nat
  <2>1. Bits \in Nat /\ Power[k] \in Nat /\ Power[k] > 0
    BY PowerType
  <2>2. a \in Nat /\ b = a + Power[k]
    BY <1>1 DEF IsBlock
  <2> QED  BY <2>1, <2>2, OwnType
<1>3. PICK u \in Nat : a = u * P
  BY <1>1, <1>2 DEF IsBlock
<1>4. b = a + P
  BY <1>2
<1> HIDE DEF P
<1>5. a % P = 0
  BY <1>2, <1>3, MultipleOf
<1>6. ASSUME P < Power[Bits] PROVE a \div (2 * P) = Own \div (2 * P)
  <2>1. k < Bits
    BY <1>2, <1>6
  <2>2. PICK p, q \in Nat : IsBlock(p, q, k + 1) /\ p <= a /\ b <= q /\ p <= Own /\ Own < q
    BY <1>1, <2>1
  <2>3. k + 1 \in 1..Bits /\ Power[k + 1] = 2 * P
    <3>1. k + 1 \in 1..Bits /\ (k + 1) - 1 = k
      BY <1>2, <2>1
    <3> QED  BY <1>2, <3>1, PowerDef
  <2>4. PICK v \in Nat : p = v * (2 * P)
    BY <2>2, <2>3 DEF IsBlock
  <2>5. q = p + 2 * P
    BY <2>2, <2>3 DEF IsBlock
  <2> DEFINE D == 2 * P
  <2>6. D \in Nat /\ D > 0 /\ p = v * D /\ p <= a /\ a < p + D /\ p <= Own /\ Own < p + D
    BY <1>2, <1>4, <2>2, <2>4, <2>5
  <2> HIDE DEF D
  <2>7. a \div D = v /\ Own \div D = v
    BY <1>2, <2>6
  <2> QED  BY <2>7 DEF D
<1> QED  BY <1>5, <1>6 DEF P

-----------------------------------------------------------------------------
(* Sequences. *)

\* u is t with the elements of w in the place of those from i up to before j.
IsSplice(u, t, w, i, j) ==
    /\ Len(u) = (i - 1) + Len(w) + (Len(t) - j + 1)
    /\ \A k \in 1..Len(u) :
         u[k] = IF k < i THEN t[k]
                ELSE IF k < i + Len(w) THEN w[k - i + 1]
                ELSE t[k - i - Len(w) + j]

\* Putting a sequence in the place of a part of another.
LEMMA Spliced ==
    ASSUME NEW S, NEW t \in Seq(S), NEW w \in Seq(S), NEW i \in 1..(Len(t) + 1), NEW j \in 1..(Len(t) + 1),
           NEW u, u = (SubSeq(t, 1, i - 1) \o w) \o SubSeq(t, j, Len(t))
    PROVE  u \in Seq(S) /\ IsSplice(u, t, w, i, j)
<1> DEFINE a == SubSeq(t, 1, i - 1)
           b == SubSeq(t, j, Len(t))
           aw == a \o w
<1>1. Len(t) \in Nat /\ Len(w) \in Nat /\ \A k \in 1..Len(t) : t[k] \in S
  BY LenProperties, ElementOfSeq
<1>2. a \in Seq(S) /\ Len(a) = i - 1 /\ \A k \in 1..(i - 1) : a[k] = t[k]
  BY <1>1, SubSeqProperties
<1>3. b \in Seq(S) /\ Len(b) = Len(t) - j + 1 /\ \A k \in 1..(Len(t) - j + 1) : b[k] = t[j + k - 1]
  BY <1>1, SubSeqProperties
<1> HIDE DEF a, b
<1>4. /\ aw \in Seq(S) /\ Len(aw) = Len(a) + Len(w)
      /\ \A k \in 1..(Len(a) + Len(w)) : aw[k] = IF k <= Len(a) THEN a[k] ELSE w[k - Len(a)]
  BY <1>2, ConcatProperties
<1> HIDE DEF aw
<1>5. /\ u \in Seq(S) /\ Len(u) = Len(aw) + Len(b)
      /\ \A k \in 1..(Len(aw) + Len(b)) : u[k] = IF k <= Len(aw) THEN aw[k] ELSE b[k - Len(aw)]
  <2>1. aw \in Seq(S) /\ b \in Seq(S)
    BY <1>3, <1>4
  <2>2. u = aw \o b
    BY DEF a, b, aw
  <2>3. /\ aw \o b \in Seq(S) /\ Len(aw \o b) = Len(aw) + Len(b)
        /\ \A k \in 1..(Len(aw) + Len(b)) : (aw \o b)[k] = IF k <= Len(aw) THEN aw[k] ELSE b[k - Len(aw)]
    BY <2>1, ConcatProperties
  <2> QED  BY <2>2, <2>3
<1>6. Len(u) = (i - 1) + Len(w) + (Len(t) - j + 1)
  BY <1>1, <1>2, <1>3, <1>4, <1>5
<1>7. ASSUME NEW k \in 1..Len(u)
      PROVE  u[k] = IF k < i THEN t[k]
                    ELSE IF k < i + Len(w) THEN w[k - i + 1]
                    ELSE t[k - i - Len(w) + j]
  <2>1. CASE k < i
    BY <1>1, <1>2, <1>3, <1>4, <1>5, <1>6, <2>1
  <2>2. CASE ~(k < i) /\ k < i + Len(w)
    <3>1. k - Len(a) = k - i + 1 /\ ~(k <= Len(a)) /\ k <= Len(aw)
      BY <1>1, <1>2, <1>4, <2>2
    <3>2. u[k] = aw[k]
      BY <1>5, <3>1
    <3>3. aw[k] = w[k - Len(a)]
      BY <1>1, <1>2, <1>4, <3>1
    <3> QED  BY <2>2, <3>1, <3>2, <3>3
  <2>3. CASE ~(k < i) /\ ~(k < i + Len(w))
    <3>1. /\ k - Len(aw) \in 1..(Len(t) - j + 1) /\ ~(k <= Len(aw))
          /\ j + (k - Len(aw)) - 1 = k - i - Len(w) + j
      <4>1. Len(aw) = (i - 1) + Len(w) /\ Len(t) \in Nat /\ Len(w) \in Nat /\ Len(aw) \in Nat
        BY <1>1, <1>2, <1>4
      <4>2. k \in 1..((i - 1) + Len(w) + (Len(t) - j + 1))
        BY <1>6
      <4> QED  BY <2>3, <4>1, <4>2
    <3>2. u[k] = b[k - Len(aw)]
      BY <1>5, <3>1
    <3> QED  BY <1>3, <2>3, <3>1, <3>2
  <2> QED  BY <2>1, <2>2, <2>3
<1> QED  BY <1>5, <1>6, <1>7 DEF IsSplice

\* u is t without its element i.
IsWithout(u, t, i) ==
    /\ Len(u) = Len(t) - 1
    /\ \A k \in 1..Len(u) : u[k] = IF k < i THEN t[k] ELSE t[k + 1]

\* RemoveAt, by its elements.
LEMMA RemoveAtElements ==
    ASSUME NEW S, NEW t \in Seq(S), NEW i \in 1..Len(t)
    PROVE  RemoveAt(t, i) \in Seq(S) /\ IsWithout(RemoveAt(t, i), t, i)
<1> DEFINE a == SubSeq(t, 1, i - 1)
           b == SubSeq(t, i + 1, Len(t))
           u == a \o b
<1>1. Len(t) \in Nat /\ \A k \in 1..Len(t) : t[k] \in S
  BY LenProperties, ElementOfSeq
<1>2. a \in Seq(S) /\ Len(a) = i - 1 /\ \A k \in 1..(i - 1) : a[k] = t[k]
  BY <1>1, SubSeqProperties
<1>3. b \in Seq(S) /\ Len(b) = Len(t) - i /\ \A k \in 1..(Len(t) - i) : b[k] = t[k + i]
  BY <1>1, SubSeqProperties
<1> HIDE DEF a, b
<1>4. /\ u \in Seq(S) /\ Len(u) = Len(a) + Len(b)
      /\ \A k \in 1..(Len(a) + Len(b)) : u[k] = IF k <= Len(a) THEN a[k] ELSE b[k - Len(a)]
  BY <1>2, <1>3, ConcatProperties
<1> HIDE DEF u
<1>5. Len(u) = Len(t) - 1
  BY <1>1, <1>2, <1>3, <1>4
<1>6. ASSUME NEW k \in 1..(Len(t) - 1) PROVE u[k] = IF k < i THEN t[k] ELSE t[k + 1]
  <2>0. k \in 1..(Len(a) + Len(b))
    <3>1. Len(a) = i - 1 /\ Len(b) = Len(t) - i /\ Len(t) \in Nat
      BY <1>1, <1>2, <1>3
    <3> QED  BY <3>1
  <2>5. u[k] = IF k <= Len(a) THEN a[k] ELSE b[k - Len(a)]
    BY <1>4, <2>0
  <2>1. CASE k < i
    <3>1. k <= Len(a) /\ k \in 1..(i - 1)
      BY <1>1, <1>2, <2>1
    <3> QED  BY <1>2, <2>1, <2>5, <3>1
  <2>2. CASE ~(k < i)
    <3>1. k - Len(a) \in 1..(Len(t) - i) /\ ~(k <= Len(a)) /\ (k - Len(a)) + i = k + 1
      BY <1>1, <1>2, <2>2
    <3>2. u[k] = b[k - Len(a)]
      BY <2>5, <3>1
    <3> QED  BY <1>3, <2>2, <3>1, <3>2
  <2> QED  BY <2>1, <2>2
<1>7. RemoveAt(t, i) = u
  BY DEF RemoveAt, u, a, b
<1>8. IsWithout(u, t, i)
  BY <1>5, <1>6 DEF IsWithout
<1> QED  BY <1>4, <1>7, <1>8

\* u is t with e before its element i.
IsInserted(u, t, i, e) ==
    /\ Len(u) = Len(t) + 1
    /\ \A k \in 1..Len(u) : u[k] = IF k < i THEN t[k] ELSE IF k = i THEN e ELSE t[k - 1]

\* InsertAt, by its elements.
LEMMA InsertAtElements ==
    ASSUME NEW S, NEW t \in Seq(S), NEW e \in S, NEW i \in 1..(Len(t) + 1)
    PROVE  InsertAt(t, i, e) \in Seq(S) /\ IsInserted(InsertAt(t, i, e), t, i, e)
<1>0. PICK w : w = <<e>>
  OBVIOUS
<1>1. w \in Seq(S) /\ Len(w) = 1 /\ w[1] = e
  BY <1>0
<1>2. Len(t) \in Nat
  BY LenProperties
<1>9. PICK u : u = (SubSeq(t, 1, i - 1) \o w) \o SubSeq(t, i, Len(t))
  OBVIOUS
<1>3. u \in Seq(S) /\ IsSplice(u, t, w, i, i)
  <2>1. w \in Seq(S)
    BY <1>1
  <2> QED  BY <1>9, <2>1, Spliced
<1>8. /\ Len(u) = (i - 1) + Len(w) + (Len(t) - i + 1)
      /\ \A k \in 1..Len(u) :
           u[k] = IF k < i THEN t[k]
                  ELSE IF k < i + Len(w) THEN w[k - i + 1]
                  ELSE t[k - i - Len(w) + i]
  BY <1>3 DEF IsSplice
<1>4. InsertAt(t, i, e) = u
  BY <1>0, <1>9 DEF InsertAt
<1>5. Len(u) = Len(t) + 1
  BY <1>1, <1>2, <1>8
<1>6. ASSUME NEW k \in 1..(Len(t) + 1)
      PROVE  u[k] = IF k < i THEN t[k] ELSE IF k = i THEN e ELSE t[k - 1]
  <2>1. CASE k < i
    BY <1>8, <1>5, <2>1
  <2>2. CASE k = i
    <3>1. k - i + 1 = 1 /\ k < i + Len(w)
      BY <1>1, <2>2
    <3> QED  BY <1>1, <1>8, <1>5, <2>2, <3>1
  <2>3. CASE k > i
    <3>1. k - i - Len(w) + i = k - 1 /\ ~(k < i + Len(w))
      BY <1>1, <1>2, <2>3
    <3> QED  BY <1>8, <1>5, <2>3, <3>1
  <2> QED  BY <1>2, <2>1, <2>2, <2>3
<1>7. IsInserted(u, t, i, e)
  BY <1>5, <1>6 DEF IsInserted
<1> QED  BY <1>3, <1>4, <1>7

\* Two elements in the place of one.
IsSplit(u, t, i, a, b) ==
    /\ Len(u) = Len(t) + 1
    /\ \A k \in 1..Len(u) :
         u[k] = IF k < i THEN t[k] ELSE IF k = i THEN a
                ELSE IF k = i + 1 THEN b ELSE t[k - 1]

\* The sequence that a split of element i makes, by its elements.
LEMMA SplitElements ==
    ASSUME NEW S, NEW t \in Seq(S), NEW a \in S, NEW b \in S, NEW i \in 1..Len(t),
           NEW v, v = SubSeq(t, 1, i - 1) \o <<a, b>> \o SubSeq(t, i + 1, Len(t))
    PROVE  v \in Seq(S) /\ IsSplit(v, t, i, a, b)
<1>0. PICK w : w = <<a, b>>
  OBVIOUS
<1>10. PICK j : j = i + 1
  OBVIOUS
<1>1. w \in Seq(S) /\ Len(w) = 2 /\ w[1] = a /\ w[2] = b
  BY <1>0
<1>2. Len(t) \in Nat /\ j \in 1..(Len(t) + 1) /\ i \in 1..(Len(t) + 1)
  BY <1>10, LenProperties
<1>9. PICK u : u = (SubSeq(t, 1, i - 1) \o w) \o SubSeq(t, j, Len(t))
  OBVIOUS
<1>3. u \in Seq(S) /\ IsSplice(u, t, w, i, j)
  <2>1. w \in Seq(S)
    BY <1>1
  <2>2. i \in 1..(Len(t) + 1)
    BY <1>2
  <2>3. j \in 1..(Len(t) + 1)
    BY <1>2
  <2> QED  BY <1>9, <2>1, <2>2, <2>3, Spliced
<1>8. /\ Len(u) = (i - 1) + Len(w) + (Len(t) - j + 1)
      /\ \A k \in 1..Len(u) :
           u[k] = IF k < i THEN t[k]
                  ELSE IF k < i + Len(w) THEN w[k - i + 1]
                  ELSE t[k - i - Len(w) + j]
  BY <1>3 DEF IsSplice
<1>4. Len(u) = Len(t) + 1
  BY <1>1, <1>2, <1>8, <1>10
<1>5. ASSUME NEW k \in 1..(Len(t) + 1)
      PROVE  u[k] = IF k < i THEN t[k] ELSE IF k = i THEN a
                    ELSE IF k = i + 1 THEN b ELSE t[k - 1]
  <2>1. CASE k < i
    BY <1>8, <1>4, <2>1
  <2>2. CASE k = i
    <3>1. k - i + 1 = 1 /\ k < i + Len(w)
      BY <1>1, <2>2
    <3> QED  BY <1>1, <1>8, <1>4, <2>2, <3>1
  <2>3. CASE k = i + 1
    <3>1. k - i + 1 = 2 /\ k < i + Len(w) /\ ~(k < i) /\ k # i
      BY <1>1, <2>3
    <3> QED  BY <1>1, <1>8, <1>4, <2>3, <3>1
  <2>4. CASE k > i + 1
    <3>1. k - i - Len(w) + j = k - 1 /\ ~(k < i + Len(w)) /\ ~(k < i) /\ k # i /\ k # i + 1
      BY <1>1, <1>2, <1>10, <2>4
    <3>2. u[k] = t[k - i - Len(w) + j]
      BY <1>8, <1>4, <3>1
    <3> QED  BY <3>1, <3>2
  <2> QED  BY <1>2, <2>1, <2>2, <2>3, <2>4
<1>6. u = v
  BY <1>0, <1>9, <1>10
<1>7. IsSplit(u, t, i, a, b)
  BY <1>4, <1>5 DEF IsSplit
<1> QED  BY <1>3, <1>6, <1>7

-----------------------------------------------------------------------------
(* The list of a bucket's nodes. *)

\* list has the nodes of S, each of them once, in the order in which they were seen.
Lists(list, S, seen) ==
    /\ list \in Seq(Nodes)
    /\ \A j \in 1..Len(list) : list[j] \in S
    /\ \A n \in S : \E j \in 1..Len(list) : list[j] = n
    /\ \A a, b \in 1..Len(list) : a < b => list[a] # list[b] /\ seen[list[a]] <= seen[list[b]]

\* What a list of nodes is made of.
LEMMA ListsType ==
    ASSUME NEW seen \in [Nodes -> Nat], NEW S, NEW list, Lists(list, S, seen)
    PROVE  /\ list \in Seq(Nodes) /\ Len(list) \in Nat /\ DOMAIN list = 1..Len(list)
           /\ \A j \in 1..Len(list) : list[j] \in Nodes /\ seen[list[j]] \in Nat
           /\ S \subseteq Nodes /\ ToSet(list) = S
<1>1. list \in Seq(Nodes)
  BY DEF Lists
<1>2. Len(list) \in Nat /\ DOMAIN list = 1..Len(list)
  BY <1>1, LenProperties
<1>3. \A j \in 1..Len(list) : list[j] \in Nodes
  BY <1>1, ElementOfSeq
<1>4. \A j \in 1..Len(list) : seen[list[j]] \in Nat
  BY <1>3
<1>5. S \subseteq Nodes
  BY <1>3 DEF Lists
<1>6. ToSet(list) = S
  BY <1>2 DEF Lists, ToSet
<1> QED  BY <1>1, <1>2, <1>3, <1>4, <1>5, <1>6

\* n was seen after the nodes before p and not after the others.
IsPlace(p, list, n, seen) ==
    /\ p \in 1..(Len(list) + 1)
    /\ \A x \in 1..(p - 1) : seen[list[x]] <= seen[n]
    /\ \A x \in p..Len(list) : seen[n] <= seen[list[x]]

\* A node goes into a list at its place.
LEMMA InsertLists ==
    ASSUME NEW seen \in [Nodes -> Nat], NEW S, NEW list, Lists(list, S, seen),
           NEW n \in Nodes, n \notin S, NEW p, IsPlace(p, list, n, seen)
    PROVE  /\ Lists(InsertAt(list, p, n), S \cup {n}, seen)
           /\ IsInserted(InsertAt(list, p, n), list, p, n)
<1>0. PICK u : u = InsertAt(list, p, n)
  OBVIOUS
<1>11. /\ p \in 1..(Len(list) + 1)
       /\ \A x \in 1..(p - 1) : seen[list[x]] <= seen[n]
       /\ \A x \in p..Len(list) : seen[n] <= seen[list[x]]
  BY DEF IsPlace
<1>1. list \in Seq(Nodes) /\ Len(list) \in Nat
  BY ListsType
<1>10. u \in Seq(Nodes) /\ IsInserted(u, list, p, n)
  BY <1>0, <1>1, <1>11, InsertAtElements
<1>2. /\ u \in Seq(Nodes) /\ Len(u) = Len(list) + 1
      /\ \A k \in 1..Len(u) :
           u[k] = IF k < p THEN list[k] ELSE IF k = p THEN n ELSE list[k - 1]
  BY <1>10 DEF IsInserted
<1>3. \A j \in 1..Len(list) : list[j] \in S /\ list[j] \in Nodes /\ seen[list[j]] \in Nat
  BY ListsType DEF Lists
<1>4. ASSUME NEW j \in 1..Len(u)
      PROVE  \/ j < p /\ j \in 1..Len(list) /\ u[j] = list[j]
             \/ j = p /\ u[j] = n
             \/ j > p /\ j - 1 \in 1..Len(list) /\ u[j] = list[j - 1]
  <2>1. u[j] = IF j < p THEN list[j] ELSE IF j = p THEN n ELSE list[j - 1]
    BY <1>2, <1>11
  <2>2. j \in 1..(Len(list) + 1) /\ p \in 1..(Len(list) + 1)
    BY <1>2, <1>11
  <2>3. CASE j < p
    BY <1>1, <2>1, <2>2, <2>3
  <2>4. CASE j = p
    BY <2>1, <2>2, <2>4
  <2>5. CASE j > p
    <3>1. j - 1 \in 1..Len(list) /\ ~(j < p) /\ j # p
      BY <1>1, <2>2, <2>5
    <3> QED  BY <2>1, <2>5, <3>1
  <2> QED  BY <1>1, <2>2, <2>3, <2>4, <2>5
<1>5. \A j \in 1..Len(u) : u[j] \in S \cup {n}
  BY <1>3, <1>4
<1>6. ASSUME NEW m \in S \cup {n} PROVE \E j \in 1..Len(u) : u[j] = m
  <2>1. CASE m = n
    BY <1>1, <1>2, <1>11, <2>1
  <2>2. CASE m \in S
    <3>1. PICK j \in 1..Len(list) : list[j] = m
      BY <2>2 DEF Lists
    <3>2. CASE j < p
      <4>1. j \in 1..Len(u)
        BY <1>1, <1>2, <1>11, <3>1
      <4> QED  BY <1>2, <3>1, <3>2, <4>1
    <3>3. CASE ~(j < p)
      <4>1. j + 1 \in 1..(Len(list) + 1) /\ ~(j + 1 < p) /\ j + 1 # p /\ (j + 1) - 1 = j
        BY <1>1, <1>11, <3>3
      <4>2. u[j + 1] = list[j]
        BY <1>2, <4>1
      <4> QED  BY <1>2, <3>1, <4>1, <4>2
    <3> QED  BY <3>2, <3>3
  <2> QED  BY <2>1, <2>2
<1>7. ASSUME NEW a \in 1..Len(u), NEW b \in 1..Len(u), a < b
      PROVE  u[a] # u[b] /\ seen[u[a]] <= seen[u[b]]
  <2>0. \A x, y \in 1..Len(list) : x < y => list[x] # list[y] /\ seen[list[x]] <= seen[list[y]]
    BY DEF Lists
  <2>1. CASE b < p
    <3>1. a < p /\ a \in 1..Len(list) /\ b \in 1..Len(list)
      BY <1>1, <1>11, <1>7, <2>1
    <3>2. u[a] = list[a] /\ u[b] = list[b]
      BY <1>2, <1>11, <2>1, <3>1
    <3> QED  BY <1>7, <2>0, <3>1, <3>2
  <2>2. CASE b = p
    <3>1. u[a] = list[a] /\ u[b] = n /\ a \in 1..(p - 1) /\ a \in 1..Len(list)
      BY <1>1, <1>2, <1>11, <1>7, <2>2
    <3> QED  BY <1>3, <1>11, <3>1
  <2>3. CASE b > p
    <3>1. b - 1 \in 1..Len(list) /\ u[b] = list[b - 1] /\ b - 1 \in p..Len(list)
      BY <1>1, <1>2, <1>11, <1>7, <2>3
    <3>2. CASE a < p
      <4>1. u[a] = list[a] /\ a \in 1..Len(list) /\ a < b - 1
        BY <1>1, <1>2, <1>11, <2>3, <3>2
      <4> QED  BY <2>0, <3>1, <4>1
    <3>3. CASE a = p
      <4>1. u[a] = n
        BY <1>1, <1>2, <1>11, <3>3
      <4> QED  BY <1>3, <1>11, <3>1, <4>1
    <3>4. CASE a > p
      <4>1. u[a] = list[a - 1] /\ a - 1 \in 1..Len(list)
        <5>1. a # p /\ ~(a < p)
          BY <1>11, <3>4
        <5> QED  BY <1>4, <5>1
      <4>2. a - 1 < b - 1
        BY <1>1, <1>2, <1>7, <3>1, <3>4
      <4> QED  BY <2>0, <3>1, <4>1, <4>2
    <3>5. a < p \/ a = p \/ a > p
      BY <1>11
    <3> QED  BY <3>2, <3>3, <3>4, <3>5
  <2>4. b < p \/ b = p \/ b > p
    BY <1>11
  <2> QED  BY <2>1, <2>2, <2>3, <2>4
<1>8. Lists(u, S \cup {n}, seen)
  BY <1>2, <1>5, <1>6, <1>7 DEF Lists
<1> QED  BY <1>0, <1>8, <1>10

\* KBucket.add finds that place.
LEMMA AddNodeLists ==
    ASSUME NEW seen \in [Nodes -> Nat], NEW S, NEW list, Lists(list, S, seen),
           NEW n \in Nodes, n \notin S
    PROVE  Lists(AddNode(list, n, seen), S \cup {n}, seen) /\ Len(AddNode(list, n, seen)) = Len(list) + 1
<1>0. PICK earlier : earlier = {j \in 1..Len(list) : seen[list[j]] <= seen[n]} \cup {0}
  OBVIOUS
<1>1. /\ Len(list) \in Nat /\ DOMAIN list = 1..Len(list) /\ seen[n] \in Nat
      /\ \A j \in 1..Len(list) : seen[list[j]] \in Nat
  BY ListsType
<1>2. IsFiniteSet(earlier) /\ earlier \subseteq Int /\ earlier # {}
  <2>1. IsFiniteSet(0..Len(list))
    BY <1>1, FS_Interval
  <2>2. earlier \subseteq 0..Len(list)
    BY <1>0, <1>1
  <2> QED  BY <1>0, <2>1, <2>2, FS_Subset
<1>3. PICK m : m = Max(earlier)
  OBVIOUS
<1>4. m \in earlier /\ \A y \in earlier : y <= m
  BY <1>2, <1>3, MaxOfSet
<1>5. PICK p : p = m + 1
  OBVIOUS
<1>6. m \in 0..Len(list) /\ p \in 1..(Len(list) + 1)
  BY <1>0, <1>1, <1>4, <1>5
<1>7. ASSUME NEW x \in 1..(p - 1) PROVE seen[list[x]] <= seen[n]
  <2>1. m \in 1..Len(list) /\ seen[list[m]] <= seen[n] /\ x \in 1..Len(list)
    BY <1>0, <1>1, <1>4, <1>5, <1>6
  <2>2. CASE x = m
    BY <2>1, <2>2
  <2>3. CASE x # m
    <3>1. x < m
      BY <1>5, <1>6, <2>3
    <3>2. seen[list[x]] <= seen[list[m]]
      BY <2>1, <3>1 DEF Lists
    <3>3. seen[list[x]] \in Nat /\ seen[list[m]] \in Nat /\ seen[n] \in Nat
      BY <1>1, <2>1
    <3> QED  BY <2>1, <3>2, <3>3
  <2> QED  BY <2>2, <2>3
<1>8. ASSUME NEW x \in p..Len(list) PROVE seen[n] <= seen[list[x]]
  <2>1. x \in 1..Len(list) /\ ~(x <= m)
    BY <1>1, <1>5, <1>6
  <2>2. x \notin earlier
    BY <1>4, <2>1
  <2>3. ~(seen[list[x]] <= seen[n])
    BY <1>0, <2>1, <2>2
  <2>4. seen[list[x]] \in Nat /\ seen[n] \in Nat
    BY <1>1, <2>1
  <2> QED  BY <2>3, <2>4
<1>9. AddNode(list, n, seen) = InsertAt(list, p, n)
  BY <1>0, <1>1, <1>3, <1>5 DEF AddNode
<1>10. IsPlace(p, list, n, seen)
  BY <1>6, <1>7, <1>8 DEF IsPlace
<1>11. Lists(InsertAt(list, p, n), S \cup {n}, seen) /\ IsInserted(InsertAt(list, p, n), list, p, n)
  BY <1>10, InsertLists
<1> QED  BY <1>9, <1>11 DEF IsInserted

\* A node that nothing in the list was seen after goes to its end.
LEMMA AppendLists ==
    ASSUME NEW seen \in [Nodes -> Nat], NEW S, NEW list, Lists(list, S, seen),
           NEW n \in Nodes, n \notin S, \A m \in S : seen[m] <= seen[n]
    PROVE  Lists(Append(list, n), S \cup {n}, seen) /\ Len(Append(list, n)) = Len(list) + 1
<1>0. PICK u : u = Append(list, n)
  OBVIOUS
<1>1. list \in Seq(Nodes) /\ Len(list) \in Nat
  BY ListsType
<1>2. u \in Seq(Nodes) /\ Len(u) = Len(list) + 1 /\ u[Len(list) + 1] = n /\ \A j \in 1..Len(list) : u[j] = list[j]
  BY <1>0, <1>1, AppendProperties
<1>3. \A j \in 1..Len(list) : list[j] \in S
  BY DEF Lists
<1>4. \A j \in 1..Len(u) : j \in 1..Len(list) \/ j = Len(list) + 1
  BY <1>1, <1>2
<1>5. \A j \in 1..Len(u) : u[j] \in S \cup {n}
  BY <1>2, <1>3, <1>4
<1>6. ASSUME NEW m \in S \cup {n} PROVE \E j \in 1..Len(u) : u[j] = m
  <2>1. CASE m = n
    BY <1>1, <1>2, <2>1
  <2>2. CASE m \in S
    <3>1. PICK j \in 1..Len(list) : list[j] = m
      BY <2>2 DEF Lists
    <3> QED  BY <1>1, <1>2, <3>1
  <2> QED  BY <2>1, <2>2
<1>7. ASSUME NEW a \in 1..Len(u), NEW b \in 1..Len(u), a < b
      PROVE  u[a] # u[b] /\ seen[u[a]] <= seen[u[b]]
  <2>1. a \in 1..Len(list) /\ u[a] = list[a]
    BY <1>1, <1>2, <1>7
  <2>2. CASE b \in 1..Len(list)
    <3>1. u[b] = list[b]
      BY <1>2, <2>2
    <3> QED  BY <1>7, <2>1, <2>2, <3>1 DEF Lists
  <2>3. CASE b = Len(list) + 1
    BY <1>2, <1>3, <2>1, <2>3
  <2> QED  BY <1>4, <2>2, <2>3
<1>8. Lists(u, S \cup {n}, seen)
  BY <1>2, <1>5, <1>6, <1>7 DEF Lists
<1> QED  BY <1>0, <1>2, <1>8

\* KBucket.remove takes out one node.
LEMMA RemoveNodeLists ==
    ASSUME NEW seen \in [Nodes -> Nat], NEW S, NEW list, Lists(list, S, seen), NEW n \in S
    PROVE  Lists(RemoveNode(list, n), S \ {n}, seen) /\ Len(RemoveNode(list, n)) = Len(list) - 1
<1>1. list \in Seq(Nodes) /\ Len(list) \in Nat /\ DOMAIN list = 1..Len(list)
  BY ListsType
<1>2. PICK i : i = CHOOSE j \in DOMAIN list : list[j] = n
  OBVIOUS
<1>3. i \in 1..Len(list) /\ list[i] = n
  <2>1. \E j \in DOMAIN list : list[j] = n
    BY <1>1 DEF Lists
  <2> QED  BY <1>1, <1>2, <2>1
<1>4. PICK u : u = RemoveAt(list, i)
  OBVIOUS
<1>5. RemoveNode(list, n) = u
  BY <1>2, <1>4 DEF RemoveNode
<1>14. u \in Seq(Nodes) /\ IsWithout(u, list, i)
  BY <1>1, <1>3, <1>4, RemoveAtElements
<1>6. /\ u \in Seq(Nodes) /\ Len(u) = Len(list) - 1
      /\ \A k \in 1..Len(u) : u[k] = IF k < i THEN list[k] ELSE list[k + 1]
  BY <1>14 DEF IsWithout
<1>7. \A x, y \in 1..Len(list) : x < y => list[x] # list[y] /\ seen[list[x]] <= seen[list[y]]
  BY DEF Lists
<1>8. ASSUME NEW j \in 1..Len(u)
      PROVE  \/ j < i /\ j \in 1..Len(list) /\ u[j] = list[j]
             \/ j >= i /\ j + 1 \in 1..Len(list) /\ u[j] = list[j + 1]
  <2>1. u[j] = IF j < i THEN list[j] ELSE list[j + 1]
    BY <1>6
  <2>2. j \in 1..(Len(list) - 1) /\ i \in 1..Len(list)
    BY <1>3, <1>6
  <2>3. CASE j < i
    BY <1>1, <2>1, <2>2, <2>3
  <2>4. CASE ~(j < i)
    BY <1>1, <2>1, <2>2, <2>4
  <2> QED  BY <2>3, <2>4
<1>9. ASSUME NEW j \in 1..Len(u) PROVE u[j] \in S \ {n}
  <2>1. CASE j < i
    <3>1. j \in 1..Len(list) /\ u[j] = list[j]
      BY <1>3, <1>8, <2>1
    <3>2. list[j] # list[i]
      BY <1>3, <1>7, <2>1, <3>1
    <3> QED  BY <1>3, <3>1, <3>2 DEF Lists
  <2>2. CASE j >= i
    <3>1. j + 1 \in 1..Len(list) /\ u[j] = list[j + 1] /\ i < j + 1
      BY <1>1, <1>3, <1>6, <2>2
    <3>2. list[i] # list[j + 1]
      BY <1>3, <1>7, <3>1
    <3> QED  BY <1>3, <3>1, <3>2 DEF Lists
  <2>3. j < i \/ j >= i
    BY <1>3
  <2> QED  BY <2>1, <2>2, <2>3
<1>10. ASSUME NEW m \in S \ {n} PROVE \E j \in 1..Len(u) : u[j] = m
  <2>1. PICK j \in 1..Len(list) : list[j] = m
    BY DEF Lists
  <2>2. j # i
    BY <1>3, <2>1
  <2>3. CASE j < i
    <3>1. j \in 1..Len(u)
      BY <1>1, <1>3, <1>6, <2>1, <2>3
    <3> QED  BY <1>6, <2>1, <2>3, <3>1
  <2>4. CASE j > i
    <3>1. j - 1 \in 1..Len(u) /\ ~(j - 1 < i) /\ (j - 1) + 1 = j
      BY <1>1, <1>3, <1>6, <2>4
    <3>2. u[j - 1] = list[j]
      BY <1>6, <3>1
    <3> QED  BY <1>6, <2>1, <3>1, <3>2
  <2> QED  BY <1>3, <2>2, <2>3, <2>4
<1>11. ASSUME NEW a \in 1..Len(u), NEW b \in 1..Len(u), a < b
      PROVE  u[a] # u[b] /\ seen[u[a]] <= seen[u[b]]
  <2>1. CASE b < i
    <3>0. a < i
      BY <1>3, <1>6, <1>11, <2>1
    <3>1. u[a] = list[a] /\ u[b] = list[b] /\ a \in 1..Len(list) /\ b \in 1..Len(list)
      BY <1>3, <1>8, <2>1, <3>0
    <3> QED  BY <1>7, <1>11, <3>1
  <2>2. CASE b >= i
    <3>1. u[b] = list[b + 1] /\ b + 1 \in 1..Len(list)
      BY <1>3, <1>8, <2>2
    <3>2. CASE a < i
      <4>1. u[a] = list[a] /\ a \in 1..Len(list)
        BY <1>3, <1>8, <3>2
      <4>2. a < b + 1
        BY <1>11
      <4> QED  BY <1>7, <3>1, <4>1, <4>2
    <3>3. CASE a >= i
      <4>1. u[a] = list[a + 1] /\ a + 1 \in 1..Len(list)
        BY <1>3, <1>8, <3>3
      <4>2. a + 1 < b + 1
        BY <1>11
      <4> QED  BY <1>7, <3>1, <4>1, <4>2
    <3>4. a < i \/ a >= i
      BY <1>3
    <3> QED  BY <3>2, <3>3, <3>4
  <2>3. b < i \/ b >= i
    BY <1>3
  <2> QED  BY <2>1, <2>2, <2>3
<1>12. Lists(u, S \ {n}, seen)
  BY <1>6, <1>9, <1>10, <1>11 DEF Lists
<1> QED  BY <1>5, <1>6, <1>12

\* Only when the listed nodes were seen matters.
LEMMA ListsSeen ==
    ASSUME NEW seen, NEW other, NEW S, NEW list, Lists(list, S, seen),
           \A n \in S : other[n] = seen[n]
    PROVE  Lists(list, S, other)
<1>1. \A a \in 1..Len(list) : other[list[a]] = seen[list[a]]
  BY DEF Lists
<1> QED  BY <1>1 DEF Lists

\* No nodes, in order.
LEMMA EmptyLists ==
    ASSUME NEW seen PROVE Lists(<<>>, {}, seen) /\ Len(<<>>) = 0
<1>1. <<>> \in Seq(Nodes) /\ Len(<<>>) = 0
  BY EmptySeq
<1> QED  BY <1>1 DEF Lists

-----------------------------------------------------------------------------
(* Splitting and merging lists. *)

\* The IDs of the remote nodes are in the ID space.
LEMMA NodesAreIds == \A n \in Nodes : n \in Nat /\ n < Power[Bits] /\ n # Own
<1>1. \A n \in Nodes : n \in Ids /\ n # Own
  BY KTableAssumption
<1> QED  BY <1>1, OwnType DEF Ids

\* lower and upper are the lists of a bucket's halves.
SplitsInto(bucket, seen, S, middle, lower, upper) ==
    /\ Split(bucket, seen) = <<[min |-> bucket.min, max |-> middle, nodes |-> lower],
                               [min |-> middle, max |-> bucket.max, nodes |-> upper]>>
    /\ Lists(lower, {m \in S : m < middle}, seen)
    /\ Lists(upper, {m \in S : m >= middle}, seen)
    /\ Len(lower) + Len(upper) = Len(bucket.nodes)

\* KBucket.split gives each half the nodes of its range, in order.
LEMMA SplitLists ==
    ASSUME NEW seen \in [Nodes -> Nat], NEW S, NEW bucket, Lists(bucket.nodes, S, seen),
           NEW middle \in Int, middle = bucket.max - (bucket.max - bucket.min) \div 2
    PROVE  \E lower, upper : SplitsInto(bucket, seen, S, middle, lower, upper)
<1> DEFINE list == bucket.nodes
           N == Len(list)
           base == [lower |-> <<>>, upper |-> <<>>]
           Step(j, prev) == IF list[j] >= middle
                            THEN [prev EXCEPT !.upper = AddNode(@, list[j], seen)]
                            ELSE [prev EXCEPT !.lower = Append(@, list[j])]
           halves[j \in 0..N] == IF j = 0 THEN base ELSE Step(j, halves[j - 1])
           A == {m \in 0..N : \E f : f = [j \in 0..m |-> IF j = 0 THEN base ELSE Step(j, f[j - 1])]}
<1>1. N \in Nat /\ \A j \in 1..N : list[j] \in Nodes /\ list[j] \in S /\ seen[list[j]] \in Nat
  BY ListsType DEF Lists
<1> HIDE DEF Step, base, list, N
<1>2. 0 \in A
  <2> DEFINE f == [j \in 0..0 |-> base]
  <2>1. f = [j \in 0..0 |-> IF j = 0 THEN base ELSE Step(j, f[j - 1])]
    OBVIOUS
  <2>2. 0 \in 0..N
    BY <1>1
  <2> HIDE DEF f
  <2> QED  BY <2>1, <2>2
<1>3. ASSUME NEW m \in 1..N, m - 1 \in A PROVE m \in A
  <2>1. PICK f : f = [j \in 0..(m - 1) |-> IF j = 0 THEN base ELSE Step(j, f[j - 1])]
    BY <1>3
  <2> DEFINE g == [j \in 0..m |-> IF j = m THEN Step(m, f[m - 1]) ELSE f[j]]
  <2>2. ASSUME NEW j \in 0..m PROVE g[j] = IF j = 0 THEN base ELSE Step(j, g[j - 1])
    <3>1. CASE j = m
      BY <3>1
    <3>2. CASE j # m
      BY <2>1, <3>2
    <3> QED  BY <3>1, <3>2
  <2>3. g = [j \in 0..m |-> IF j = 0 THEN base ELSE Step(j, g[j - 1])]
    BY <2>2
  <2> HIDE DEF g
  <2> QED  BY <2>3
<1>4. N \in A
  <2> HIDE DEF A
  <2> QED  BY <1>1, <1>2, <1>3, UpTo
<1>5. halves = [j \in 0..N |-> IF j = 0 THEN base ELSE Step(j, halves[j - 1])]
  BY <1>4
<1>6. Split(bucket, seen) = <<[min |-> bucket.min, max |-> middle, nodes |-> halves[N].lower],
                              [min |-> middle, max |-> bucket.max, nodes |-> halves[N].upper]>>
  BY DEF Split, Step, base, N, list
<1> HIDE DEF halves, A
<1> DEFINE Seen(j) == {list[x] : x \in 1..j}
           Good == {j \in 0..N :
                       /\ halves[j] = [lower |-> halves[j].lower, upper |-> halves[j].upper]
                       /\ Lists(halves[j].lower, {m \in Seen(j) : m < middle}, seen)
                       /\ Lists(halves[j].upper, {m \in Seen(j) : m >= middle}, seen)
                       /\ Len(halves[j].lower) + Len(halves[j].upper) = j}
<1>7. 0 \in Good
  <2>1. halves[0] = [lower |-> <<>>, upper |-> <<>>]
    BY <1>1, <1>5 DEF base
  <2>2. Seen(0) = {}
    OBVIOUS
  <2>3. {m \in Seen(0) : m < middle} = {} /\ {m \in Seen(0) : m >= middle} = {}
    BY <2>2
  <2>4. halves[0].lower = <<>> /\ halves[0].upper = <<>>
    BY <2>1
  <2>5. 0 \in 0..N /\ Len(<<>>) + Len(<<>>) = 0
    BY <1>1, EmptyLists
  <2>6. Lists(<<>>, {}, seen)
    BY EmptyLists
  <2>7. /\ Lists(halves[0].lower, {m \in Seen(0) : m < middle}, seen)
        /\ Lists(halves[0].upper, {m \in Seen(0) : m >= middle}, seen)
    <3> HIDE DEF Seen
    <3> QED  BY <2>3, <2>4, <2>6
  <2>8. Len(halves[0].lower) + Len(halves[0].upper) = 0
    BY <2>4, <2>5
  <2>9. halves[0] = [lower |-> halves[0].lower, upper |-> halves[0].upper]
    BY <2>1, <2>4
  <2> HIDE DEF Seen
  <2> QED  BY <2>5, <2>7, <2>8, <2>9
<1>8. ASSUME NEW j \in 1..N, j - 1 \in Good PROVE j \in Good
  <2>0. PICK n, lower, upper : n = list[j] /\ lower = halves[j - 1].lower /\ upper = halves[j - 1].upper
    OBVIOUS
  <2> DEFINE low == {m \in Seen(j - 1) : m < middle}
             high == {m \in Seen(j - 1) : m >= middle}
  <2>1. /\ halves[j - 1] = [lower |-> lower, upper |-> upper]
        /\ Lists(lower, low, seen) /\ Lists(upper, high, seen)
        /\ Len(lower) + Len(upper) = j - 1
    BY <1>8, <2>0
  <2>2. n \in Nodes /\ n \in Nat /\ n \in Int
    BY <1>1, <2>0, NodesAreIds
  <2>3. n \notin Seen(j - 1) /\ \A m \in Seen(j - 1) : seen[m] <= seen[n]
    <3>1. ASSUME NEW x \in 1..(j - 1) PROVE list[x] # n /\ seen[list[x]] <= seen[n]
      <4>1. x \in 1..N /\ x < j /\ j \in 1..N
        BY <1>1
      <4> QED  BY <2>0, <4>1 DEF Lists, list, N
    <3> QED  BY <3>1
  <2>4. Seen(j) = Seen(j - 1) \cup {n}
    <3>1. 1..j = (1..(j - 1)) \cup {j}
      BY <1>1
    <3> QED  BY <2>0, <3>1
  <2>5. halves[j] = Step(j, [lower |-> lower, upper |-> upper])
    <3>1. j \in 0..N /\ j # 0
      BY <1>1
    <3> QED  BY <1>5, <2>1, <3>1
  <2>6. Len(lower) \in Nat /\ Len(upper) \in Nat
    BY <2>1, ListsType
  <2>7. j \in 0..N
    BY <1>1
  <2> HIDE DEF Seen
  <2>8. CASE n >= middle
    <3>1. halves[j] = [lower |-> lower, upper |-> AddNode(upper, n, seen)]
      BY <2>0, <2>5, <2>8 DEF Step
    <3>2. n \notin high
      BY <2>3
    <3>3. {m \in Seen(j) : m < middle} = low /\ {m \in Seen(j) : m >= middle} = high \cup {n}
      BY <2>2, <2>4, <2>8
    <3> HIDE DEF low, high
    <3>4. Lists(AddNode(upper, n, seen), high \cup {n}, seen) /\ Len(AddNode(upper, n, seen)) = Len(upper) + 1
      BY <2>1, <2>2, <3>2, AddNodeLists
    <3>5. Len(lower) + (Len(upper) + 1) = j
      BY <1>1, <2>1, <2>6
    <3>6. halves[j].lower = lower /\ halves[j].upper = AddNode(upper, n, seen)
      BY <3>1
    <3> QED  BY <2>1, <2>7, <3>1, <3>3, <3>4, <3>5, <3>6
  <2>9. CASE ~(n >= middle)
    <3>1. halves[j] = [lower |-> Append(lower, n), upper |-> upper]
      BY <2>0, <2>5, <2>9 DEF Step
    <3>2. n \notin low /\ \A m \in low : seen[m] <= seen[n]
      BY <2>3
    <3>3. {m \in Seen(j) : m < middle} = low \cup {n} /\ {m \in Seen(j) : m >= middle} = high
      BY <2>2, <2>4, <2>9
    <3> HIDE DEF low, high
    <3>4. Lists(Append(lower, n), low \cup {n}, seen) /\ Len(Append(lower, n)) = Len(lower) + 1
      BY <2>1, <2>2, <3>2, AppendLists
    <3>5. (Len(lower) + 1) + Len(upper) = j
      BY <1>1, <2>1, <2>6
    <3>6. halves[j].lower = Append(lower, n) /\ halves[j].upper = upper
      BY <3>1
    <3> QED  BY <2>1, <2>7, <3>1, <3>3, <3>4, <3>5, <3>6
  <2> QED  BY <2>8, <2>9
<1>9. N \in Good
  <2> HIDE DEF Good
  <2> QED  BY <1>1, <1>7, <1>8, UpTo
<1>10. Seen(N) = S
  BY <1>1 DEF Lists, list, N
<1>11. /\ Lists(halves[N].lower, {m \in S : m < middle}, seen)
       /\ Lists(halves[N].upper, {m \in S : m >= middle}, seen)
       /\ Len(halves[N].lower) + Len(halves[N].upper) = N
  BY <1>9, <1>10
<1> QED  BY <1>6, <1>11 DEF N, list, SplitsInto

\* KBucket.merge keeps the order, too.
LEMMA MergedNodesLists ==
    ASSUME NEW seen \in [Nodes -> Nat], NEW S, NEW T, NEW list, NEW old,
           Lists(list, S, seen), Lists(old, T, seen), \A n \in S : n \notin T
    PROVE  /\ Lists(MergedNodes(list, old, seen), S \cup T, seen)
           /\ Len(MergedNodes(list, old, seen)) = Len(list) + Len(old)
<1> DEFINE N == Len(old)
           base == [list |-> list, i |-> 1]
           Later(l, i, n) == Min({x \in i..Len(l) : seen[l[x]] > seen[n]} \cup {Len(l) + 1})
           Step(j, so_far) == LET i == Later(so_far.list, so_far.i, old[j])
                              IN  [list |-> InsertAt(so_far.list, i, old[j]), i |-> i + 1]
           merged[j \in 0..N] == IF j = 0 THEN base ELSE Step(j, merged[j - 1])
           A == {m \in 0..N : \E f : f = [j \in 0..m |-> IF j = 0 THEN base ELSE Step(j, f[j - 1])]}
<1>1. N \in Nat /\ \A j \in 1..N : old[j] \in Nodes /\ old[j] \in T /\ seen[old[j]] \in Nat
  BY ListsType DEF Lists
<1> HIDE DEF Step, base, N
<1>2. 0 \in A
  <2> DEFINE f == [j \in 0..0 |-> base]
  <2>1. f = [j \in 0..0 |-> IF j = 0 THEN base ELSE Step(j, f[j - 1])]
    OBVIOUS
  <2>2. 0 \in 0..N
    BY <1>1
  <2> HIDE DEF f
  <2> QED  BY <2>1, <2>2
<1>3. ASSUME NEW m \in 1..N, m - 1 \in A PROVE m \in A
  <2>1. PICK f : f = [j \in 0..(m - 1) |-> IF j = 0 THEN base ELSE Step(j, f[j - 1])]
    BY <1>3
  <2> DEFINE g == [j \in 0..m |-> IF j = m THEN Step(m, f[m - 1]) ELSE f[j]]
  <2>2. ASSUME NEW j \in 0..m PROVE g[j] = IF j = 0 THEN base ELSE Step(j, g[j - 1])
    <3>1. CASE j = m
      BY <3>1
    <3>2. CASE j # m
      BY <2>1, <3>2
    <3> QED  BY <3>1, <3>2
  <2>3. g = [j \in 0..m |-> IF j = 0 THEN base ELSE Step(j, g[j - 1])]
    BY <2>2
  <2> HIDE DEF g
  <2> QED  BY <2>3
<1>4. N \in A
  <2> HIDE DEF A
  <2> QED  BY <1>1, <1>2, <1>3, UpTo
<1>5. merged = [j \in 0..N |-> IF j = 0 THEN base ELSE Step(j, merged[j - 1])]
  BY <1>4
<1>6. MergedNodes(list, old, seen) = merged[N].list
  BY DEF MergedNodes, Step, base, N
<1> HIDE DEF merged, A
<1> DEFINE Seen(j) == {old[x] : x \in 1..j}
           \* the nodes before the place that the search for the next one starts from
           Passed(l, i, j) == /\ i \in 1..(Len(l) + 1)
                              /\ \A x \in 1..(i - 1) : j # 0 /\ seen[l[x]] <= seen[old[j]]
           Good == {j \in 0..N :
                       /\ Lists(merged[j].list, S \cup Seen(j), seen)
                       /\ Len(merged[j].list) = Len(list) + j
                       /\ Passed(merged[j].list, merged[j].i, j)}
<1>7. 0 \in Good
  <2>1. merged[0].list = list /\ merged[0].i = 1
    BY <1>1, <1>5 DEF base
  <2>2. S \cup Seen(0) = S
    OBVIOUS
  <2>3. 0 \in 0..N /\ Len(list) \in Nat /\ Len(list) + 0 = Len(list)
    BY <1>1, ListsType
  <2>4. Passed(list, 1, 0)
    BY <2>3
  <2> HIDE DEF Passed, Seen
  <2> QED  BY <2>1, <2>2, <2>3, <2>4
<1>8. ASSUME NEW j \in 1..N, j - 1 \in Good PROVE j \in Good
  <2>0. PICK n, l, s : n = old[j] /\ l = merged[j - 1].list /\ s = merged[j - 1].i
    OBVIOUS
  <2>1. Lists(l, S \cup Seen(j - 1), seen) /\ Len(l) = Len(list) + (j - 1) /\ Passed(l, s, j - 1)
    BY <1>8, <2>0
  <2>2. n \in Nodes /\ seen[n] \in Nat /\ n \notin S
    BY <1>1, <2>0
  <2>3. \A x \in 1..(j - 1) : old[x] # n /\ seen[old[x]] <= seen[n] /\ seen[old[x]] \in Nat
    <3>1. ASSUME NEW x \in 1..(j - 1) PROVE old[x] # n /\ seen[old[x]] <= seen[n] /\ seen[old[x]] \in Nat
      <4>1. x \in 1..N /\ x < j /\ j \in 1..N
        BY <1>1
      <4> QED  BY <1>1, <2>0, <4>1 DEF Lists, N
    <3> QED  BY <3>1
  <2>4. n \notin S \cup Seen(j - 1)
    BY <2>2, <2>3
  <2>5. Seen(j) = Seen(j - 1) \cup {n}
    <3>1. 1..j = (1..(j - 1)) \cup {j}
      BY <1>1
    <3> QED  BY <2>0, <3>1
  <2>6. /\ l \in Seq(Nodes) /\ Len(l) \in Nat
        /\ \A x \in 1..Len(l) : seen[l[x]] \in Nat
    BY <2>1, ListsType
  <2>7. /\ s \in 1..(Len(l) + 1)
        /\ \A x \in 1..(s - 1) : j - 1 # 0 /\ seen[l[x]] <= seen[old[j - 1]]
    BY <2>1
  <2> HIDE DEF Seen, Passed
  <2>8. PICK later : later = {x \in s..Len(l) : seen[l[x]] > seen[n]} \cup {Len(l) + 1}
    OBVIOUS
  <2>9. PICK i : i = Min(later)
    OBVIOUS
  <2>10. i \in later /\ \A y \in later : i <= y
    <3>1. IsFiniteSet(s..(Len(l) + 1))
      BY <2>6, <2>7, FS_Interval
    <3>2. later \subseteq s..(Len(l) + 1)
      BY <2>6, <2>7, <2>8
    <3>3. IsFiniteSet(later) /\ later \subseteq Int /\ later # {}
      BY <2>7, <2>8, <3>1, <3>2, FS_Subset
    <3> QED  BY <2>9, <3>3, MinOfSet
  <2>11. i \in s..(Len(l) + 1) /\ i \in 1..(Len(l) + 1)
    BY <2>6, <2>7, <2>8, <2>10
  <2>12. ASSUME NEW x \in 1..(i - 1) PROVE seen[l[x]] <= seen[n]
    <3>1. x \in 1..Len(l) /\ seen[l[x]] \in Nat
      BY <2>6, <2>11
    <3>2. CASE x < s
      <4>1. j - 1 # 0 /\ seen[l[x]] <= seen[old[j - 1]]
        BY <2>7, <3>1, <3>2
      <4>2. j - 1 \in 1..(j - 1)
        BY <1>1, <4>1
      <4>3. seen[old[j - 1]] <= seen[n] /\ seen[old[j - 1]] \in Nat
        BY <2>3, <4>2
      <4> QED  BY <2>2, <3>1, <4>1, <4>3
    <3>3. CASE ~(x < s)
      <4>1. x \in s..Len(l) /\ ~(i <= x)
        BY <2>6, <2>7, <2>11, <3>1, <3>3
      <4>2. x \notin later
        BY <2>10, <4>1
      <4>3. ~(seen[l[x]] > seen[n])
        BY <2>8, <4>1, <4>2
      <4> QED  BY <2>2, <3>1, <4>3
    <3> QED  BY <3>2, <3>3
  <2>13. ASSUME NEW x \in i..Len(l) PROVE seen[n] <= seen[l[x]]
    <3>1. i \in 1..Len(l) /\ x \in 1..Len(l) /\ i # Len(l) + 1
      BY <2>6, <2>11
    <3>2. seen[l[i]] > seen[n]
      BY <2>8, <2>10, <3>1
    <3>3. i = x \/ i < x
      BY <3>1
    <3>4. seen[l[i]] <= seen[l[x]]
      BY <2>1, <2>6, <3>1, <3>3 DEF Lists
    <3>5. seen[l[i]] \in Nat /\ seen[l[x]] \in Nat /\ seen[n] \in Nat
      BY <2>2, <2>6, <3>1
    <3> QED  BY <3>2, <3>4, <3>5
  <2>14. IsPlace(i, l, n, seen)
    BY <2>11, <2>12, <2>13 DEF IsPlace
  <2>15. PICK u : u = InsertAt(l, i, n)
    OBVIOUS
  <2>16. Lists(u, (S \cup Seen(j - 1)) \cup {n}, seen) /\ IsInserted(u, l, i, n)
    BY <2>1, <2>2, <2>4, <2>14, <2>15, InsertLists
  <2>17. merged[j].list = u /\ merged[j].i = i + 1
    <3>1. j \in 0..N /\ j # 0
      BY <1>1
    <3>2. merged[j] = Step(j, merged[j - 1])
      BY <1>5, <3>1
    <3> QED  BY <2>0, <2>8, <2>9, <2>15, <3>2 DEF Step
  <2>18. (S \cup Seen(j - 1)) \cup {n} = S \cup Seen(j)
    BY <2>5
  <2>19. Len(u) = Len(l) + 1 /\ \A k \in 1..Len(u) : u[k] = IF k < i THEN l[k] ELSE IF k = i THEN n ELSE l[k - 1]
    BY <2>16 DEF IsInserted
  <2>20. Len(u) = Len(list) + j
    <3>1. Len(list) \in Nat
      BY ListsType
    <3> QED  BY <1>1, <2>1, <2>6, <2>19, <3>1
  <2>21. Passed(u, i + 1, j)
    <3>1. i + 1 \in 1..(Len(u) + 1)
      BY <2>6, <2>11, <2>19
    <3>2. ASSUME NEW x \in 1..((i + 1) - 1) PROVE j # 0 /\ seen[u[x]] <= seen[old[j]]
      <4>1. x \in 1..Len(u) /\ (x < i \/ x = i)
        BY <2>6, <2>11, <2>19
      <4>2. CASE x < i
        <5>1. x \in 1..(i - 1)
          BY <2>11, <4>1, <4>2
        <5> QED  BY <1>1, <2>0, <2>12, <2>19, <4>1, <4>2, <5>1
      <4>3. CASE x = i
        BY <1>1, <2>0, <2>2, <2>19, <4>1, <4>3
      <4> QED  BY <4>1, <4>2, <4>3
    <3> QED  BY <3>1, <3>2 DEF Passed
  <2>22. j \in 0..N
    BY <1>1
  <2> QED  BY <2>16, <2>17, <2>18, <2>20, <2>21, <2>22
<1>9. N \in Good
  <2> HIDE DEF Good
  <2> QED  BY <1>1, <1>7, <1>8, UpTo
<1>10. Seen(N) = T
  BY <1>1 DEF Lists, N
<1> QED  BY <1>6, <1>9, <1>10 DEF N

-----------------------------------------------------------------------------
(* Tables. *)

IsBucket(b, seen) ==
    /\ b \in Bucket
    /\ IsRange(b.min, b.max)
    /\ Lists(b.nodes, ToSet(b.nodes), seen)
    /\ Len(b.nodes) <= K
    /\ \A n \in ToSet(b.nodes) : b.min <= n /\ n < b.max

\* The buckets in the order of their ranges; the one with the local node in it is as
\* small as the splits that made the others left it.
IsTable(bs, seen) ==
    /\ bs \in Seq(Bucket) /\ Len(bs) \in 1..Bits
    /\ bs[1].min = 0 /\ bs[Len(bs)].max = Power[Bits]
    /\ \A i \in 2..Len(bs) : bs[i - 1].max = bs[i].min
    /\ \A i \in 1..Len(bs) : IsBucket(bs[i], seen)
    /\ \A i \in 1..Len(bs) :
         bs[i].min <= Own /\ Own < bs[i].max => bs[i].max - bs[i].min = Power[Bits - Len(bs) + 1]

\* What a bucket is made of.
LEMMA BucketType ==
    ASSUME NEW seen, NEW b, IsBucket(b, seen)
    PROVE  /\ b.min \in Nat /\ b.max \in Nat /\ b.min < b.max /\ b.max <= Power[Bits]
           /\ b.nodes \in Seq(Nodes) /\ Len(b.nodes) \in Nat
           /\ b = [min |-> b.min, max |-> b.max, nodes |-> b.nodes]
<1>1. b.min \in Nat /\ b.max \in Nat /\ b.min < b.max /\ b.max <= Power[Bits]
  BY RangeBounds DEF IsBucket
<1>2. b.nodes \in Seq(Nodes) /\ b = [min |-> b.min, max |-> b.max, nodes |-> b.nodes]
  BY DEF IsBucket, Bucket
<1> QED  BY <1>1, <1>2, LenProperties

\* What a table is made of.
LEMMA TableType ==
    ASSUME NEW seen, NEW bs, IsTable(bs, seen)
    PROVE  /\ bs \in Seq(Bucket) /\ Len(bs) \in Nat /\ Len(bs) >= 1 /\ DOMAIN bs = 1..Len(bs)
           /\ Bits \in Nat /\ Len(bs) <= Bits
           /\ bs \in [1..Len(bs) -> Bucket]
<1>1. Bits \in Nat
  BY PowerType
<1>2. bs \in Seq(Bucket) /\ Len(bs) \in 1..Bits
  BY DEF IsTable
<1>3. DOMAIN bs = 1..Len(bs) /\ bs \in [1..Len(bs) -> Bucket]
  BY <1>2, LenProperties
<1> QED  BY <1>1, <1>2, <1>3

\* The buckets come in the order of their ranges.
LEMMA TableOrder ==
    ASSUME NEW seen, NEW bs, IsTable(bs, seen), NEW i \in 1..Len(bs), NEW j \in 1..Len(bs), i < j
    PROVE  bs[i].max <= bs[j].min
<1> DEFINE N == Len(bs) - i
           A == {d \in 0..N : d > 0 => bs[i].max <= bs[i + d].min}
<1>1. Len(bs) \in Nat /\ N \in Nat
  BY TableType
<1>2. \A k \in 1..Len(bs) : bs[k].min \in Nat /\ bs[k].max \in Nat /\ bs[k].min < bs[k].max
  BY BucketType DEF IsTable
<1>3. 0 \in A
  BY <1>1
<1>4. ASSUME NEW d \in 1..N, d - 1 \in A PROVE d \in A
  <2>1. i + d \in 2..Len(bs) /\ i + d \in 1..Len(bs) /\ (i + d) - 1 = i + (d - 1) /\ (i + d) - 1 \in 1..Len(bs) /\ d \in 0..N
    BY <1>1
  <2>2. bs[i + (d - 1)].max = bs[i + d].min
    BY <2>1 DEF IsTable
  <2>3. CASE d = 1
    <3>1. i + (d - 1) = i
      BY <2>3
    <3>2. bs[i].max = bs[i + d].min
      BY <2>2, <3>1
    <3>3. bs[i].max \in Nat
      BY <1>2
    <3>4. bs[i].max <= bs[i + d].min
      BY <3>2, <3>3
    <3> QED  BY <2>1, <3>4
  <2>4. CASE d # 1
    <3>1. bs[i].max <= bs[i + (d - 1)].min
      BY <1>4, <2>4
    <3>2. bs[i + (d - 1)].min \in Nat /\ bs[i + (d - 1)].max \in Nat /\ bs[i + (d - 1)].min < bs[i + (d - 1)].max /\ bs[i].max \in Nat
      BY <1>2, <2>1
    <3>3. bs[i].max <= bs[i + (d - 1)].max
      BY <3>1, <3>2
    <3> QED  BY <2>1, <2>2, <3>3
  <2> QED  BY <2>3, <2>4
<1> DEFINE e == j - i
<1>5. e \in 0..N /\ e > 0 /\ i + e = j
  BY <1>1
<1> HIDE DEF A, N, e
<1>6. e \in A
  BY <1>1, <1>3, <1>4, <1>5, UpTo
<1> QED  BY <1>5, <1>6 DEF A

\* i is the index of the one bucket with num in its range.
IsIndex(bs, num, i) ==
    /\ i \in 1..Len(bs)
    /\ bs[i].min <= num /\ num < bs[i].max
    /\ \A j \in 1..Len(bs) : bs[j].min <= num /\ num < bs[j].max => j = i

\* The bisection finds it.
LEMMA BisectionFinds ==
    ASSUME NEW seen, NEW bs, IsTable(bs, seen), NEW num \in Nat, num < Power[Bits]
    PROVE  IsIndex(bs, num, BucketIndex(bs, num))
<1>1. Len(bs) \in Nat /\ Len(bs) >= 1 /\ DOMAIN bs = 1..Len(bs)
  BY TableType
<1>2. \A k \in 1..Len(bs) : bs[k].min \in Nat /\ bs[k].max \in Nat /\ bs[k].min < bs[k].max
  BY BucketType DEF IsTable
<1>3. PICK above : above = {i \in 1..Len(bs) : num < bs[i].max}
  OBVIOUS
<1>4. IsFiniteSet(above) /\ above \subseteq Int /\ above # {}
  <2>1. IsFiniteSet(1..Len(bs))
    BY <1>1, FS_Interval
  <2>2. above \subseteq 1..Len(bs)
    BY <1>3
  <2>3. Len(bs) \in above
    <3>1. bs[Len(bs)].max = Power[Bits] /\ Len(bs) \in 1..Len(bs)
      BY <1>1 DEF IsTable
    <3> QED  BY <1>3, <3>1
  <2>4. above \subseteq Int
    BY <2>2
  <2>5. IsFiniteSet(above)
    BY <2>1, <2>2, FS_Subset
  <2> QED  BY <2>3, <2>4, <2>5
<1>5. PICK m : m = Min(above)
  OBVIOUS
<1>6. m \in above /\ \A y \in above : m <= y
  BY <1>4, <1>5, MinOfSet
<1>7. m \in 1..Len(bs) /\ num < bs[m].max
  BY <1>3, <1>6
<1>8. \A x \in 1..Len(bs) : x < m => bs[x].max <= num
  <2> SUFFICES ASSUME NEW x \in 1..Len(bs), x < m PROVE bs[x].max <= num
    OBVIOUS
  <2>1. x \notin above
    BY <1>6, <1>7
  <2> QED  BY <1>2, <1>3, <2>1
<1>9. bs[m].min <= num
  <2>1. CASE m = 1
    BY <1>2, <2>1 DEF IsTable
  <2>2. CASE m # 1
    <3>1. m \in 2..Len(bs) /\ m - 1 \in 1..Len(bs) /\ m - 1 < m
      BY <1>1, <1>7, <2>2
    <3>2. bs[m - 1].max = bs[m].min
      BY <3>1 DEF IsTable
    <3> QED  BY <1>8, <3>1, <3>2
  <2> QED  BY <2>1, <2>2
<1>10. \A x \in 1..Len(bs) : m < x => num < bs[x].min
  <2> SUFFICES ASSUME NEW x \in 1..Len(bs), m < x PROVE num < bs[x].min
    OBVIOUS
  <2>1. bs[m].max <= bs[x].min
    BY <1>7, TableOrder
  <2> QED  BY <1>2, <1>7, <2>1
<1>11. {i \in DOMAIN bs : bs[i].max <= num} = 1..(m - 1)
  <2>1. ASSUME NEW x \in 1..Len(bs) PROVE bs[x].max <= num <=> x \in 1..(m - 1)
    <3>1. CASE x < m
      BY <1>7, <1>8, <3>1
    <3>2. CASE x = m
      BY <1>2, <1>7, <3>2
    <3>3. CASE m < x
      <4>1. ~(x \in 1..(m - 1))
        BY <1>7, <3>3
      <4>2. num < bs[x].min /\ bs[x].min < bs[x].max /\ bs[x].min \in Nat /\ bs[x].max \in Nat
        BY <1>2, <1>10, <3>3
      <4>3. ~(bs[x].max <= num)
        BY <4>2
      <4> QED  BY <4>1, <4>3
    <3> QED  BY <1>7, <3>1, <3>2, <3>3
  <2>2. 1..(m - 1) \subseteq 1..Len(bs)
    BY <1>1, <1>7
  <2> QED  BY <1>1, <2>1, <2>2
<1>12. BucketIndex(bs, num) = m
  <2>1. m - 1 \in Int /\ Cardinality(1..(m - 1)) = m - 1
    <3>1. m \in Int /\ m >= 1
      BY <1>7
    <3>2. m - 1 \in Int /\ 1 \in Int
      BY <3>1
    <3>3. Cardinality(1..(m - 1)) = IF 1 > m - 1 THEN 0 ELSE (m - 1) - 1 + 1
      BY <3>2, FS_Interval
    <3> QED  BY <3>1, <3>2, <3>3
  <2>2. BucketIndex(bs, num) = 1 + Cardinality(1..(m - 1))
    BY <1>11 DEF BucketIndex
  <2>3. m \in Int
    BY <1>7
  <2> QED  BY <2>1, <2>2, <2>3
<1>13. ASSUME NEW j \in 1..Len(bs), bs[j].min <= num, num < bs[j].max PROVE j = m
  <2>1. CASE j < m
    BY <1>2, <1>8, <1>13, <2>1
  <2>2. CASE m < j
    BY <1>2, <1>10, <1>13, <2>2
  <2> QED  BY <1>7, <2>1, <2>2
<1>14. IsIndex(bs, num, m)
  BY <1>7, <1>9, <1>13 DEF IsIndex
<1> QED  BY <1>12, <1>14

\* A node of the table is in the bucket that the bisection finds.
LEMMA MemberIsFound ==
    ASSUME NEW seen, NEW bs, IsTable(bs, seen), NEW n \in Nodes
    PROVE  /\ IsIndex(bs, n, BucketIndex(bs, n))
           /\ n \in Members(bs) <=> n \in ToSet(bs[BucketIndex(bs, n)].nodes)
           /\ \A j \in 1..Len(bs) : n \in ToSet(bs[j].nodes) => j = BucketIndex(bs, n)
<1>1. PICK i : i = BucketIndex(bs, n)
  OBVIOUS
<1>2. IsIndex(bs, n, i)
  BY <1>1, NodesAreIds, BisectionFinds
<1>3. DOMAIN bs = 1..Len(bs)
  BY TableType
<1>4. \A j \in 1..Len(bs) : n \in ToSet(bs[j].nodes) => j = i
  BY <1>2 DEF IsIndex, IsTable, IsBucket
<1>5. n \in Members(bs) <=> n \in ToSet(bs[i].nodes)
  BY <1>2, <1>3, <1>4 DEF Members, IsIndex
<1> QED  BY <1>1, <1>2, <1>4, <1>5

-----------------------------------------------------------------------------
(* Twins. *)

\* Buckets a and a + 1 are the halves of a block with the local node in it.
AreTwins(bs, a) ==
    /\ a \in 1..(Len(bs) - 1)
    /\ LET k == Bits - Len(bs) + 1
       IN  /\ k \in Nat /\ k < Bits
           /\ IsBlock(bs[a].min, bs[a].max, k)
           /\ IsBlock(bs[a].max, bs[a + 1].max, k)
           /\ IsBlock(bs[a].min, bs[a + 1].max, k + 1)
           /\ bs[a].max = bs[a + 1].min
           /\ bs[a].min <= Own /\ Own < bs[a + 1].max

\* Neighbours of one size are the halves of a block with the local node in it: only
\* such blocks are split.
LEMMA EqualNeighbours ==
    ASSUME NEW seen, NEW bs, IsTable(bs, seen), NEW a \in 1..(Len(bs) - 1),
           bs[a].max - bs[a].min = bs[a + 1].max - bs[a + 1].min
    PROVE  AreTwins(bs, a)
<1>1. Len(bs) \in Nat /\ Len(bs) >= 1 /\ Bits \in Nat /\ Len(bs) <= Bits
  BY TableType
<1>2. a \in 1..Len(bs) /\ a + 1 \in 1..Len(bs) /\ a + 1 \in 2..Len(bs) /\ (a + 1) - 1 = a /\ Len(bs) >= 2
  BY <1>1
<1>3. bs[a].max = bs[a + 1].min
  BY <1>2 DEF IsTable
<1>4. IsRange(bs[a].min, bs[a].max) /\ IsRange(bs[a].max, bs[a + 1].max)
  BY <1>2, <1>3 DEF IsTable, IsBucket
<1>5. bs[a].max - bs[a].min = bs[a + 1].max - bs[a].max
  BY <1>3
<1>6. PICK k \in Nat : /\ k < Bits
                       /\ IsBlock(bs[a].min, bs[a].max, k) /\ IsBlock(bs[a].max, bs[a + 1].max, k)
                       /\ IsBlock(bs[a].min, bs[a + 1].max, k + 1)
                       /\ bs[a].min <= Own /\ Own < bs[a + 1].max
  BY <1>4, <1>5, TwinRanges
<1>7. PICK level : level = Bits - Len(bs) + 1
  OBVIOUS
<1>8. level \in 0..Bits /\ k \in 0..Bits
  BY <1>1, <1>2, <1>6, <1>7
<1>9. Power[k] = Power[level]
  <2>0. Own \in Nat /\ Power[k] \in Nat
    BY <1>8, OwnType, PowerType
  <2>1. bs[a].min \in Nat /\ bs[a].max \in Nat /\ bs[a].max = bs[a].min + Power[k] /\ bs[a + 1].max = bs[a].max + Power[k]
    <3>1. bs[a].min \in Nat /\ bs[a].max = bs[a].min + Power[k] /\ bs[a + 1].max = bs[a].max + Power[k]
      BY <1>6 DEF IsBlock
    <3> QED  BY <2>0, <3>1
  <2>2. CASE Own < bs[a].max
    <3>1. bs[a].max - bs[a].min = Power[level]
      BY <1>2, <1>6, <1>7, <2>2 DEF IsTable
    <3> QED  BY <2>0, <2>1, <3>1
  <2>3. CASE ~(Own < bs[a].max)
    <3>1. bs[a + 1].min <= Own
      BY <1>3, <2>0, <2>1, <2>3
    <3>2. bs[a + 1].max - bs[a + 1].min = Power[level]
      BY <1>2, <1>6, <1>7, <3>1 DEF IsTable
    <3> QED  BY <1>3, <2>0, <2>1, <3>2
  <2> QED  BY <2>2, <2>3
<1>10. k = level
  BY <1>8, <1>9, SameLevel
<1> QED  BY <1>3, <1>6, <1>7, <1>10 DEF AreTwins

\* Only the two innermost buckets are of one size.
LEMMA OneTwinPair ==
    ASSUME NEW seen, NEW bs, IsTable(bs, seen), NEW a, NEW b, AreTwins(bs, a), AreTwins(bs, b)
    PROVE  a = b
<1>1. Len(bs) \in Nat /\ Own \in Nat /\ \A k \in 1..Len(bs) : bs[k].min \in Nat /\ bs[k].max \in Nat /\ bs[k].min < bs[k].max
  BY TableType, OwnType, BucketType DEF IsTable
<1>2. ASSUME NEW x, NEW y, AreTwins(bs, x), AreTwins(bs, y), x < y PROVE FALSE
  <2>1. /\ x \in 1..Len(bs) /\ y \in 1..Len(bs) /\ x + 1 \in 1..Len(bs)
    <3>1. x \in 1..(Len(bs) - 1) /\ y \in 1..(Len(bs) - 1)
      BY <1>2 DEF AreTwins
    <3> QED  BY <1>1, <3>1
  <2>2. bs[x].max <= bs[y].min
    BY <1>2, <2>1, TableOrder
  <2>3. bs[x].min < bs[y].min
    BY <1>1, <2>1, <2>2
  <2> DEFINE k == Bits - Len(bs) + 1
  <2>4. IsBlock(bs[x].min, bs[x + 1].max, k + 1) /\ IsBlock(bs[y].min, bs[y + 1].max, k + 1)
    BY <1>2 DEF AreTwins
  <2> HIDE DEF k
  <2>5. bs[x + 1].max <= bs[y].min
    BY <2>3, <2>4, BlocksApart
  <2>6. Own < bs[x + 1].max /\ bs[y].min <= Own
    BY <1>2 DEF AreTwins
  <2> QED  BY <1>1, <2>1, <2>5, <2>6
<1>3. a \in Int /\ b \in Int
  BY DEF AreTwins
<1> QED  BY <1>2, <1>3

\* The twins of the model are the two buckets of that pair.
LEMMA TwinMeaning ==
    ASSUME NEW seen, NEW bs, IsTable(bs, seen), NEW i \in 1..Len(bs)
    PROVE  /\ \A j \in Twin(bs, i) : \E a : AreTwins(bs, a) /\ ((i = a /\ j = a + 1) \/ (i = a + 1 /\ j = a))
           /\ AreTwins(bs, i) => Twin(bs, i) = {i + 1}
           /\ \A a : AreTwins(bs, a) /\ i = a + 1 => Twin(bs, i) = {a}
<1>1. Len(bs) \in Nat /\ \A k \in 1..Len(bs) : bs[k].min \in Nat /\ bs[k].max \in Nat
  BY TableType, BucketType DEF IsTable
<1>2. ASSUME NEW j \in Twin(bs, i)
      PROVE  \E a : AreTwins(bs, a) /\ ((i = a /\ j = a + 1) \/ (i = a + 1 /\ j = a))
  <2>1. CASE /\ j = i - 1 /\ j >= 1 /\ bs[j].max - bs[j].min = bs[i].max - bs[i].min
    <3>1. j \in 1..(Len(bs) - 1) /\ j + 1 = i
      BY <1>1, <2>1
    <3>2. AreTwins(bs, j)
      BY <2>1, <3>1, EqualNeighbours
    <3> QED  BY <3>1, <3>2
  <2>2. CASE /\ j = i + 1 /\ j <= Len(bs) /\ bs[j].max - bs[j].min = bs[i].max - bs[i].min
    <3>1. i \in 1..(Len(bs) - 1)
      BY <1>1, <2>2
    <3>2. bs[i].max - bs[i].min = bs[i + 1].max - bs[i + 1].min
      BY <2>2
    <3>3. AreTwins(bs, i)
      BY <3>1, <3>2, EqualNeighbours
    <3> QED  BY <2>2, <3>3
  <2> QED  BY <2>1, <2>2 DEF Twin
<1>3. ASSUME NEW a, AreTwins(bs, a)
      PROVE  bs[a].max - bs[a].min = bs[a + 1].max - bs[a + 1].min /\ a \in 1..(Len(bs) - 1)
  <2>1. PICK k \in 0..Bits : IsBlock(bs[a].min, bs[a].max, k) /\ IsBlock(bs[a].max, bs[a + 1].max, k)
    BY <1>3 DEF AreTwins, IsBlock
  <2>2. Power[k] \in Nat
    BY PowerType
  <2>3. bs[a].min \in Nat /\ bs[a].max = bs[a].min + Power[k] /\ bs[a + 1].max = bs[a].max + Power[k]
    BY <2>1 DEF IsBlock
  <2>4. bs[a].max = bs[a + 1].min /\ a \in 1..(Len(bs) - 1)
    BY <1>3 DEF AreTwins
  <2> QED  BY <2>2, <2>3, <2>4
<1>4. ASSUME AreTwins(bs, i) PROVE Twin(bs, i) = {i + 1}
  <2>1. bs[i].max - bs[i].min = bs[i + 1].max - bs[i + 1].min /\ i + 1 <= Len(bs)
    BY <1>1, <1>3, <1>4
  <2>2. ~(i - 1 >= 1 /\ bs[i - 1].max - bs[i - 1].min = bs[i].max - bs[i].min)
    <3> SUFFICES ASSUME i - 1 >= 1, bs[i - 1].max - bs[i - 1].min = bs[i].max - bs[i].min PROVE FALSE
      OBVIOUS
    <3>1. i - 1 \in 1..(Len(bs) - 1) /\ (i - 1) + 1 = i
      BY <1>1
    <3>2. AreTwins(bs, i - 1)
      BY <3>1, EqualNeighbours
    <3>3. i - 1 = i
      BY <1>4, <3>2, OneTwinPair
    <3> QED  BY <3>3
  <2> QED  BY <2>1, <2>2 DEF Twin
<1>5. ASSUME NEW a, AreTwins(bs, a), i = a + 1 PROVE Twin(bs, i) = {a}
  <2>1. bs[a].max - bs[a].min = bs[i].max - bs[i].min /\ i - 1 = a /\ a >= 1
    BY <1>1, <1>3, <1>5
  <2>2. bs[i - 1].max - bs[i - 1].min = bs[i].max - bs[i].min /\ i - 1 >= 1
    BY <2>1
  <2> QED  BY <2>1, <2>2 DEF Twin
<1> QED  BY <1>2, <1>4, <1>5

-----------------------------------------------------------------------------
(* A table with a changed bucket. *)

\* Pairs of equally large neighbours, one at index at excepted, need both buckets.
MinimalBut(bs, at) ==
    \A i \in 1..Len(bs) : \A j \in Twin(bs, i) :
        i # at /\ j # at => Len(bs[i].nodes) + Len(bs[j].nodes) >= K

\* A bucket depends on nothing but when its own nodes were seen.
LEMMA BucketSeen ==
    ASSUME NEW seen, NEW other, NEW b, IsBucket(b, seen),
           \A n \in ToSet(b.nodes) : other[n] = seen[n]
    PROVE  IsBucket(b, other)
<1>1. Lists(b.nodes, ToSet(b.nodes), other)
  BY ListsSeen DEF IsBucket
<1> QED  BY <1>1 DEF IsBucket

\* A table depends on nothing but when its own nodes were seen.
LEMMA TableSeen ==
    ASSUME NEW seen, NEW other, NEW bs, IsTable(bs, seen),
           \A n \in Members(bs) : other[n] = seen[n]
    PROVE  IsTable(bs, other)
<1>1. DOMAIN bs = 1..Len(bs)
  BY TableType
<1>2. ASSUME NEW i \in 1..Len(bs) PROVE IsBucket(bs[i], other)
  <2>1. \A n \in ToSet(bs[i].nodes) : other[n] = seen[n]
    BY <1>1 DEF Members
  <2>2. IsBucket(bs[i], seen)
    BY DEF IsTable
  <2> QED  BY <2>1, <2>2, BucketSeen
<1> QED  BY <1>2 DEF IsTable

\* The set of the nodes in a list.
LEMMA ListsMeansSet ==
    ASSUME NEW seen, NEW S, NEW list, Lists(list, S, seen)
    PROVE  ToSet(list) = S
<1>1. DOMAIN list = 1..Len(list)
  BY LenProperties DEF Lists
<1> QED  BY <1>1 DEF Lists, ToSet

\* What makes a record a bucket.
LEMMA MakeBucket ==
    ASSUME NEW seen, NEW lo, NEW hi, NEW nodes, NEW S,
           IsRange(lo, hi), Lists(nodes, S, seen), Len(nodes) <= K,
           \A n \in S : lo <= n /\ n < hi
    PROVE  IsBucket([min |-> lo, max |-> hi, nodes |-> nodes], seen)
<1>1. lo \in Nat /\ hi \in Nat /\ lo < hi /\ hi <= Power[Bits] /\ Power[Bits] \in Nat
  BY RangeBounds
<1>2. lo \in Ids /\ hi \in 1..Power[Bits]
  BY <1>1 DEF Ids
<1>3. nodes \in Seq(Nodes)
  BY DEF Lists
<1>4. ToSet(nodes) = S
  BY ListsMeansSet
<1>5. [min |-> lo, max |-> hi, nodes |-> nodes] \in Bucket
  BY <1>2, <1>3 DEF Bucket
<1> QED  BY <1>4, <1>5 DEF IsBucket

\* The table new is bs with other nodes in bucket i.
IsChanged(new, bs, i, nodes) ==
    /\ Len(new) = Len(bs)
    /\ \A j \in 1..Len(bs) :
         /\ new[j].min = bs[j].min /\ new[j].max = bs[j].max
         /\ j # i => new[j].nodes = bs[j].nodes
    /\ new[i].nodes = nodes

\* Other nodes of its range in one bucket leave a table.
LEMMA ChangeBucket ==
    ASSUME NEW seen, NEW other, NEW bs, IsTable(bs, seen), NEW i \in 1..Len(bs),
           NEW nodes, NEW S, Lists(nodes, S, other), Len(nodes) <= K,
           \A n \in S : bs[i].min <= n /\ n < bs[i].max,
           \A j \in 1..Len(bs) : j # i => \A n \in ToSet(bs[j].nodes) : other[n] = seen[n],
           NEW new, new = [bs EXCEPT ![i].nodes = nodes]
    PROVE  IsTable(new, other) /\ IsChanged(new, bs, i, nodes)
<1>1. PICK b : b = [min |-> bs[i].min, max |-> bs[i].max, nodes |-> nodes]
  OBVIOUS
<1>2. IsBucket(bs[i], seen)
  BY DEF IsTable
<1>3. IsBucket(b, other)
  <2>1. IsRange(bs[i].min, bs[i].max)
    BY <1>2 DEF IsBucket
  <2> QED  BY <1>1, <2>1, MakeBucket
<1>4. [bs[i] EXCEPT !.nodes = nodes] = b
  <2>1. bs[i] = [min |-> bs[i].min, max |-> bs[i].max, nodes |-> bs[i].nodes]
    BY <1>2, BucketType
  <2> QED  BY <1>1, <2>1
<1>5. new = [bs EXCEPT ![i] = b]
  <2>1. new = [bs EXCEPT ![i] = [bs[i] EXCEPT !.nodes = nodes]]
    OBVIOUS
  <2> QED  BY <1>4, <2>1
<1>6. bs \in Seq(Bucket) /\ b \in Bucket /\ Len(bs) \in Nat /\ Len(bs) >= 1
  BY <1>3, TableType DEF IsBucket
<1>7. new \in Seq(Bucket) /\ Len(new) = Len(bs) /\ \A j \in 1..Len(bs) : new[j] = IF j = i THEN b ELSE bs[j]
  BY <1>5, <1>6, ExceptSeq
<1>8. \A j \in 1..Len(bs) : new[j].min = bs[j].min /\ new[j].max = bs[j].max
  BY <1>1, <1>7
<1>9. IsChanged(new, bs, i, nodes)
  BY <1>1, <1>7, <1>8 DEF IsChanged
<1>10. ASSUME NEW j \in 1..Len(bs) PROVE IsBucket(new[j], other)
  <2>1. CASE j = i
    BY <1>3, <1>7, <2>1
  <2>2. CASE j # i
    <3>1. IsBucket(bs[j], seen)
      BY DEF IsTable
    <3>2. \A n \in ToSet(bs[j].nodes) : other[n] = seen[n]
      BY <2>2
    <3>3. IsBucket(bs[j], other)
      BY <3>1, <3>2, BucketSeen
    <3> QED  BY <1>7, <2>2, <3>3
  <2> QED  BY <2>1, <2>2
<1>11. new[1].min = 0 /\ new[Len(new)].max = Power[Bits]
  <2>1. 1 \in 1..Len(bs) /\ Len(bs) \in 1..Len(bs)
    BY <1>6
  <2>2. bs[1].min = 0 /\ bs[Len(bs)].max = Power[Bits]
    BY DEF IsTable
  <2>3. new[1].min = bs[1].min /\ new[Len(bs)].max = bs[Len(bs)].max
    BY <1>8, <2>1
  <2> QED  BY <1>7, <2>2, <2>3
<1>12. \A j \in 2..Len(new) : new[j - 1].max = new[j].min
  <2> SUFFICES ASSUME NEW j \in 2..Len(bs) PROVE new[j - 1].max = new[j].min
    BY <1>7
  <2>1. j \in 1..Len(bs) /\ j - 1 \in 1..Len(bs)
    BY <1>6
  <2>2. bs[j - 1].max = bs[j].min
    BY DEF IsTable
  <2> QED  BY <1>8, <2>1, <2>2
<1>13. ASSUME NEW j \in 1..Len(new), new[j].min <= Own, Own < new[j].max
       PROVE  new[j].max - new[j].min = Power[Bits - Len(new) + 1]
  BY <1>7, <1>8, <1>13 DEF IsTable
<1>14. Len(new) \in 1..Bits
  BY <1>7 DEF IsTable
<1>15. IsTable(new, other)
  BY <1>7, <1>10, <1>11, <1>12, <1>13, <1>14 DEF IsTable
<1> QED  BY <1>9, <1>15

\* The index of a node's bucket stays.
LEMMA ChangedIndex ==
    ASSUME NEW seen, NEW other, NEW bs, NEW new, NEW i, NEW nodes,
           IsTable(bs, seen), IsTable(new, other), IsChanged(new, bs, i, nodes), NEW n \in Nodes
    PROVE  BucketIndex(new, n) = BucketIndex(bs, n)
<1>1. PICK x, y : x = BucketIndex(bs, n) /\ y = BucketIndex(new, n)
  OBVIOUS
<1>2. IsIndex(bs, n, x) /\ IsIndex(new, n, y)
  BY <1>1, MemberIsFound
<1>3. x \in 1..Len(new) /\ new[x].min <= n /\ n < new[x].max
  BY <1>2 DEF IsIndex, IsChanged
<1>4. x = y
  BY <1>2, <1>3 DEF IsIndex
<1> QED  BY <1>1, <1>4

\* Ranges decide about twins.
LEMMA ChangedTwins ==
    ASSUME NEW bs, NEW new, NEW i, NEW nodes, IsChanged(new, bs, i, nodes), Len(bs) \in Nat,
           NEW j \in 1..Len(bs)
    PROVE  Twin(new, j) = Twin(bs, j)
<1>1. \A k \in 1..Len(bs) : new[k].max - new[k].min = bs[k].max - bs[k].min
  BY DEF IsChanged
<1>2. Len(new) = Len(bs)
  BY DEF IsChanged
<1>3. j - 1 >= 1 => j - 1 \in 1..Len(bs)
  OBVIOUS
<1>4. j + 1 <= Len(bs) => j + 1 \in 1..Len(bs)
  OBVIOUS
<1> QED  BY <1>1, <1>2, <1>3, <1>4 DEF Twin

\* More nodes in a bucket keep its pair minimal; a bucket that lost one is the exception.
LEMMA ChangedMinimal ==
    ASSUME NEW seen, NEW bs, NEW new, NEW i \in 1..Len(bs), NEW nodes, NEW at,
           IsTable(bs, seen), IsChanged(new, bs, i, nodes), MinimalBut(bs, 0),
           Len(nodes) \in Nat, at = i \/ Len(nodes) >= Len(bs[i].nodes)
    PROVE  MinimalBut(new, at)
<1>1. Len(bs) \in Nat /\ \A j \in 1..Len(bs) : Len(bs[j].nodes) \in Nat
  BY TableType, BucketType DEF IsTable
<1>2. Len(new) = Len(bs) /\ \A j \in 1..Len(bs) : j # i => new[j].nodes = bs[j].nodes
  BY DEF IsChanged
<1>3. ASSUME NEW x \in 1..Len(new), NEW y \in Twin(new, x), x # at, y # at
      PROVE  Len(new[x].nodes) + Len(new[y].nodes) >= K
  <2>1. y \in Twin(bs, x) /\ x \in 1..Len(bs)
    BY <1>1, <1>2, <1>3, ChangedTwins
  <2>2. y \in 1..Len(bs)
    BY <1>1, <2>1 DEF Twin
  <2>3. x # 0 /\ y # 0 /\ Len(bs[x].nodes) + Len(bs[y].nodes) >= K
    <3>1. x # 0 /\ y # 0
      BY <2>1, <2>2
    <3> QED  BY <2>1, <3>1 DEF MinimalBut
  <2>4. \A z \in 1..Len(bs) : z # at => Len(new[z].nodes) \in Nat /\ Len(new[z].nodes) >= Len(bs[z].nodes)
    <3> SUFFICES ASSUME NEW z \in 1..Len(bs), z # at
                 PROVE  Len(new[z].nodes) \in Nat /\ Len(new[z].nodes) >= Len(bs[z].nodes)
      OBVIOUS
    <3>1. CASE z = i
      <4>1. new[z].nodes = nodes
        BY <3>1 DEF IsChanged
      <4> QED  BY <3>1, <4>1
    <3>2. CASE z # i
      BY <1>1, <1>2, <3>2
    <3> QED  BY <3>1, <3>2
  <2>5. K \in Nat
    BY KTableAssumption
  <2>6. Len(new[x].nodes) >= Len(bs[x].nodes) /\ Len(new[y].nodes) >= Len(bs[y].nodes)
    BY <1>3, <2>1, <2>2, <2>4
  <2>7. /\ Len(new[x].nodes) \in Nat /\ Len(new[y].nodes) \in Nat
        /\ Len(bs[x].nodes) \in Nat /\ Len(bs[y].nodes) \in Nat
    <3>1. Len(new[x].nodes) \in Nat
      BY <1>3, <2>1, <2>4
    <3>2. Len(new[y].nodes) \in Nat
      BY <1>3, <2>2, <2>4
    <3>3. Len(bs[x].nodes) \in Nat /\ Len(bs[y].nodes) \in Nat
      BY <1>1, <2>1, <2>2
    <3> QED  BY <3>1, <3>2, <3>3
  <2>8. PICK p, q, r, s : /\ p = Len(new[x].nodes) /\ q = Len(new[y].nodes)
                          /\ r = Len(bs[x].nodes) /\ s = Len(bs[y].nodes)
    OBVIOUS
  <2>9. p \in Nat /\ q \in Nat /\ r \in Nat /\ s \in Nat /\ p >= r /\ q >= s /\ r + s >= K
    BY <2>3, <2>6, <2>7, <2>8
  <2>10. p + q >= K
    BY <2>5, <2>9
  <2> QED  BY <2>8, <2>10
<1> QED  BY <1>3 DEF MinimalBut

-----------------------------------------------------------------------------
(* Splits. *)

\* Two buckets in the place of the one with the local node in it.
HalvesOf(low, high, bs, i, seen) ==
    /\ bs[i].min <= Own /\ Own < bs[i].max /\ Len(bs) < Bits
    /\ IsBucket(low, seen) /\ IsBucket(high, seen)
    /\ low.min = bs[i].min /\ high.min = low.max /\ high.max = bs[i].max
    /\ IsBlock(bs[i].min, low.max, Bits - Len(bs)) /\ IsBlock(low.max, bs[i].max, Bits - Len(bs))
    /\ Len(low.nodes) + Len(high.nodes) >= K

\* Two halves in the place of the innermost bucket leave a table.
LEMMA SplitTable ==
    ASSUME NEW seen, NEW bs, IsTable(bs, seen), NEW i \in 1..Len(bs),
           NEW low, NEW high, HalvesOf(low, high, bs, i, seen),
           NEW new \in Seq(Bucket), IsSplit(new, bs, i, low, high)
    PROVE  IsTable(new, seen) /\ MinimalBut(new, 0) /\ Len(new) = Len(bs) + 1
<1>34. PICK middle, k : middle = low.max /\ k = Bits - Len(bs) + 1
  OBVIOUS
<1>36. k - 1 = Bits - Len(bs)
  BY <1>34, TableType
<1>35. /\ bs[i].min <= Own /\ Own < bs[i].max /\ Len(bs) < Bits
       /\ IsBlock(bs[i].min, middle, k - 1) /\ IsBlock(middle, bs[i].max, k - 1)
       /\ IsBucket(low, seen) /\ IsBucket(high, seen)
       /\ low.min = bs[i].min /\ low.max = middle /\ high.min = middle /\ high.max = bs[i].max
       /\ Len(low.nodes) + Len(high.nodes) >= K
  BY <1>34, <1>36 DEF HalvesOf
<1>0. Len(new) = Len(bs) + 1
  BY DEF IsSplit
<1>17. \A j \in 1..Len(new) :
         new[j] = IF j < i THEN bs[j] ELSE IF j = i THEN low
                  ELSE IF j = i + 1 THEN high ELSE bs[j - 1]
  BY DEF IsSplit
<1>1. Len(bs) \in Nat /\ Len(bs) >= 1 /\ Bits \in Nat /\ Own \in Nat /\ Power[k - 1] \in Nat
  <2>1. k - 1 \in 0..Bits
    BY <1>35 DEF IsBlock
  <2> QED  BY <2>1, TableType, OwnType, PowerType
<1>2. \A j \in 1..Len(bs) : IsBucket(bs[j], seen)
  BY DEF IsTable
<1>3. \A j \in 1..Len(bs) : bs[j].min \in Nat /\ bs[j].max \in Nat /\ bs[j].min < bs[j].max
  BY <1>2, BucketType
<1>4. bs[i].min \in Nat /\ middle \in Nat /\ middle = bs[i].min + Power[k - 1] /\ bs[i].max = middle + Power[k - 1]
  <2>1. bs[i].min \in Nat /\ middle = bs[i].min + Power[k - 1] /\ bs[i].max = middle + Power[k - 1]
    BY <1>35 DEF IsBlock
  <2> QED  BY <1>1, <2>1
<1>19. ASSUME NEW j \in 1..Len(new)
       PROVE  \/ j < i /\ j \in 1..Len(bs) /\ new[j] = bs[j]
              \/ j = i /\ new[j] = low
              \/ j = i + 1 /\ new[j] = high
              \/ j > i + 1 /\ j - 1 \in 1..Len(bs) /\ j - 1 > i /\ new[j] = bs[j - 1]
  <2>1. new[j] = IF j < i THEN bs[j] ELSE IF j = i THEN low ELSE IF j = i + 1 THEN high ELSE bs[j - 1]
    BY <1>0, <1>17
  <2>2. j \in 1..(Len(bs) + 1)
    BY <1>0, <1>17
  <2>3. CASE j < i
    BY <1>1, <2>1, <2>2, <2>3
  <2>4. CASE j = i
    BY <2>1, <2>4
  <2>5. CASE j = i + 1
    <3>1. ~(j < i) /\ j # i
      BY <2>5
    <3> QED  BY <2>1, <2>5, <3>1
  <2>6. CASE j > i + 1
    <3>1. ~(j < i) /\ j # i /\ j # i + 1 /\ j - 1 \in 1..Len(bs) /\ j - 1 > i
      BY <1>1, <2>2, <2>6
    <3> QED  BY <2>1, <2>6, <3>1
  <2> QED  BY <1>1, <2>2, <2>3, <2>4, <2>5, <2>6
<1>20. ASSUME NEW j \in 1..Len(new) PROVE IsBucket(new[j], seen)
  BY <1>2, <1>19, <1>35
<1>21. /\ i \in 1..Len(new) /\ i + 1 \in 1..Len(new) /\ new[i] = low /\ new[i + 1] = high
  <2>1. i \in 1..Len(new) /\ i + 1 \in 1..Len(new) /\ ~(i < i) /\ ~(i + 1 < i) /\ i + 1 # i
    BY <1>1, <1>0, <1>17
  <2> QED  BY <1>0, <1>17, <2>1
<1>22. new[1].min = 0
  <2>1. bs[1].min = 0 /\ 1 \in 1..Len(new)
    BY <1>1, <1>0, <1>17 DEF IsTable
  <2>2. CASE i = 1
    BY <1>21, <1>35, <2>1, <2>2
  <2>3. CASE i # 1
    <3>1. 1 < i
      BY <2>3
    <3> QED  BY <1>0, <1>17, <2>1, <3>1
  <2> QED  BY <2>2, <2>3
<1>23. new[Len(new)].max = Power[Bits]
  <2>1. bs[Len(bs)].max = Power[Bits] /\ Len(new) \in 1..Len(new)
    BY <1>1, <1>0, <1>17 DEF IsTable
  <2>2. CASE i = Len(bs)
    BY <1>0, <1>17, <1>21, <1>35, <2>1, <2>2
  <2>3. CASE i # Len(bs)
    <3>1. ~(Len(new) < i) /\ Len(new) # i /\ Len(new) # i + 1 /\ Len(new) - 1 = Len(bs)
      BY <1>1, <1>0, <1>17, <2>3
    <3>2. new[Len(new)] = bs[Len(new) - 1]
      BY <1>0, <1>17, <2>1, <3>1
    <3> QED  BY <2>1, <3>1, <3>2
  <2> QED  BY <2>2, <2>3
<1>24. ASSUME NEW j \in 2..Len(new) PROVE new[j - 1].max = new[j].min
  <2>0. /\ j \in 1..Len(new) /\ j - 1 \in 1..Len(new) /\ Len(new) = Len(bs) + 1
        /\ \A x \in 2..Len(bs) : bs[x - 1].max = bs[x].min
    BY <1>1, <1>0, <1>17 DEF IsTable
  <2>1. CASE j < i
    <3>1. new[j] = bs[j] /\ new[j - 1] = bs[j - 1] /\ j \in 2..Len(bs)
      BY <1>1, <1>0, <1>17, <2>0, <2>1
    <3> QED  BY <2>0, <3>1
  <2>2. CASE j = i
    <3>1. new[j - 1] = bs[j - 1] /\ new[j] = low /\ i \in 2..Len(bs) /\ j - 1 = i - 1
      <4>1. j - 1 < i
        BY <2>2
      <4> QED  BY <1>0, <1>17, <1>21, <1>35, <2>0, <2>2, <4>1
    <3>2. bs[i - 1].max = bs[i].min
      BY <2>0, <3>1
    <3> QED  BY <1>35, <3>1, <3>2
  <2>3. CASE j = i + 1
    <3>1. j - 1 = i
      BY <2>3
    <3> QED  BY <1>21, <1>35, <2>3, <3>1
  <2>4. CASE j = i + 2
    <3>1. j - 1 = i + 1 /\ ~(j < i) /\ j # i /\ j # i + 1 /\ i + 1 \in 2..Len(bs) /\ (i + 1) - 1 = i
      BY <1>1, <2>0, <2>4
    <3>2. new[j] = bs[i + 1] /\ new[j - 1] = high
      BY <1>0, <1>17, <1>21, <1>35, <2>0, <3>1
    <3>3. bs[i].max = bs[i + 1].min
      BY <2>0, <3>1
    <3> QED  BY <1>35, <3>2, <3>3
  <2>5. CASE j > i + 2
    <3>1. /\ ~(j < i) /\ j # i /\ j # i + 1 /\ ~(j - 1 < i) /\ j - 1 # i /\ j - 1 # i + 1
          /\ j - 1 \in 2..Len(bs)
      <4>1. Len(bs) \in Nat /\ j \in 2..(Len(bs) + 1)
        BY <1>0, <1>1
      <4> QED  BY <2>5, <4>1
    <3>2. new[j] = bs[j - 1] /\ new[j - 1] = bs[(j - 1) - 1]
      BY <1>0, <1>17, <2>0, <3>1
    <3> QED  BY <2>0, <3>1, <3>2
  <2> QED  BY <2>1, <2>2, <2>3, <2>4, <2>5
<1>25. ASSUME NEW j \in 1..Len(bs), bs[j].min <= Own, Own < bs[j].max PROVE j = i
  <2>1. CASE j < i
    <3>1. bs[j].max <= bs[i].min
      BY <2>1, TableOrder
    <3>2. bs[j].max \in Nat /\ bs[i].min \in Nat /\ bs[i].min <= Own /\ Own < bs[j].max
      BY <1>3, <1>25, <1>35
    <3> QED  BY <1>1, <3>1, <3>2
  <2>2. CASE i < j
    <3>1. bs[i].max <= bs[j].min
      BY <2>2, TableOrder
    <3>2. bs[i].max \in Nat /\ bs[j].min \in Nat /\ bs[j].min <= Own /\ Own < bs[i].max
      BY <1>3, <1>25, <1>35
    <3> QED  BY <1>1, <3>1, <3>2
  <2> QED  BY <2>1, <2>2
<1>26. Bits - Len(new) + 1 = k - 1
  BY <1>0, <1>1, <1>34
<1>33. Power[Bits - Len(new) + 1] = Power[k - 1]
  BY <1>26
<1>27. ASSUME NEW j \in 1..Len(new), new[j].min <= Own, Own < new[j].max
       PROVE  new[j].max - new[j].min = Power[Bits - Len(new) + 1]
  <2>1. j = i \/ j = i + 1
    <3>1. CASE j < i /\ j \in 1..Len(bs) /\ new[j] = bs[j]
      <4>1. bs[j].min <= Own /\ Own < bs[j].max
        BY <1>27, <3>1
      <4>2. j = i
        BY <1>25, <3>1, <4>1
      <4> QED  BY <4>2
    <3>2. CASE j > i + 1 /\ j - 1 \in 1..Len(bs) /\ j - 1 > i /\ new[j] = bs[j - 1]
      <4>1. bs[j - 1].min <= Own /\ Own < bs[j - 1].max
        BY <1>27, <3>2
      <4>2. j - 1 = i
        BY <1>25, <3>2, <4>1
      <4> QED  BY <3>2, <4>2
    <3> QED  BY <1>19, <3>1, <3>2
  <2>4. CASE j = i
    <3>1. new[j].max = middle /\ new[j].min = bs[i].min
      BY <1>21, <1>35, <2>4
    <3>4. bs[i].max - middle = Power[k - 1] /\ middle - bs[i].min = Power[k - 1]
      BY <1>1, <1>4
    <3>2. new[j].max - new[j].min = Power[k - 1]
      BY <3>1, <3>4
    <3> QED  BY <1>33, <3>2
  <2>5. CASE j = i + 1
    <3>1. new[j].max = bs[i].max /\ new[j].min = middle
      BY <1>21, <1>35, <2>5
    <3>4. bs[i].max - middle = Power[k - 1] /\ middle - bs[i].min = Power[k - 1]
      BY <1>1, <1>4
    <3>2. new[j].max - new[j].min = Power[k - 1]
      BY <3>1, <3>4
    <3> QED  BY <1>33, <3>2
  <2> QED  BY <2>1, <2>4, <2>5
<1>28. Len(new) \in 1..Bits
  BY <1>1, <1>0, <1>35
<1>29. IsTable(new, seen)
  BY <1>0, <1>20, <1>22, <1>23, <1>24, <1>27, <1>28 DEF IsTable
<1>30. AreTwins(new, i)
  <2>1. i \in 1..(Len(new) - 1)
    BY <1>1, <1>0, <1>17
  <2>2. new[i].max - new[i].min = new[i + 1].max - new[i + 1].min
    <3>3. new[i].max = middle /\ new[i].min = bs[i].min /\ new[i + 1].max = bs[i].max /\ new[i + 1].min = middle
      BY <1>21, <1>35
    <3> QED  BY <1>1, <1>4, <3>3
  <2> QED  BY <1>29, <2>1, <2>2, EqualNeighbours
<1>31. ASSUME NEW x \in 1..Len(new), NEW y \in Twin(new, x)
       PROVE  Len(new[x].nodes) + Len(new[y].nodes) >= K
  <2>1. PICK a : AreTwins(new, a) /\ ((x = a /\ y = a + 1) \/ (x = a + 1 /\ y = a))
    BY <1>29, TwinMeaning
  <2>2. a = i
    BY <1>29, <1>30, <2>1, OneTwinPair
  <2>3. new[i].nodes = low.nodes /\ new[i + 1].nodes = high.nodes
    BY <1>21, <1>35
  <2>4. Len(low.nodes) \in Nat /\ Len(high.nodes) \in Nat
    BY <1>35, BucketType
  <2>5. (x = i /\ y = i + 1) \/ (x = i + 1 /\ y = i)
    BY <2>1, <2>2
  <2>6. Len(low.nodes) + Len(high.nodes) >= K /\ Len(high.nodes) + Len(low.nodes) >= K
    <3>1. PICK p, q : p = Len(low.nodes) /\ q = Len(high.nodes)
      OBVIOUS
    <3>2. p \in Nat /\ q \in Nat /\ p + q >= K
      BY <1>35, <2>4, <3>1
    <3>3. p + q = q + p
      BY <3>2
    <3> QED  BY <3>1, <3>2, <3>3
  <2> QED  BY <2>3, <2>5, <2>6
<1>32. MinimalBut(new, 0)
  BY <1>31 DEF MinimalBut
<1> QED  BY <1>0, <1>17, <1>29, <1>32

\* The halves of a full innermost bucket are buckets.
LEMMA SplitBuckets ==
    ASSUME NEW seen \in [Nodes -> Nat], NEW bs, IsTable(bs, seen), NEW i \in 1..Len(bs),
           bs[i].min <= Own, Own < bs[i].max, Len(bs) < Bits, Len(bs[i].nodes) >= K
    PROVE  \E low, high : /\ Split(bs[i], seen) = <<low, high>>
                          /\ HalvesOf(low, high, bs, i, seen)
<1> DEFINE b == bs[i]
           k == Bits - Len(bs) + 1
           S == ToSet(b.nodes)
<1>1. /\ bs \in Seq(Bucket) /\ Len(bs) \in Nat /\ Len(bs) >= 1 /\ Bits \in Nat
      /\ Own \in Nat /\ Power[Bits] \in Nat /\ K \in Nat
  BY TableType, OwnType, KTableAssumption
<1>2. IsBucket(b, seen) /\ \A j \in 1..Len(bs) : IsBucket(bs[j], seen)
  BY DEF IsTable
<1>3. /\ b.min \in Nat /\ b.max \in Nat /\ b.min < b.max /\ Len(b.nodes) \in Nat
      /\ \A j \in 1..Len(bs) : bs[j].min \in Nat /\ bs[j].max \in Nat /\ bs[j].min < bs[j].max
  BY <1>2, BucketType
<1>4. k \in 1..Bits /\ k >= 2 /\ k - 1 \in 0..Bits /\ k - 1 \in Nat /\ k - 1 < Bits
  BY <1>1
<1>5. IsBlock(b.min, b.max, k)
  <2>1. PICK l \in 0..Bits : IsBlock(b.min, b.max, l)
    BY <1>2 DEF IsBucket, IsRange
  <2>2. b.max - b.min = Power[k]
    BY DEF IsTable
  <2>3. k \in 0..Bits /\ Power[l] \in Nat /\ Power[k] \in Nat
    BY <1>4, PowerType
  <2>4. b.max = b.min + Power[l]
    BY <2>1 DEF IsBlock
  <2>5. Power[l] = Power[k]
    BY <1>3, <2>2, <2>3, <2>4
  <2>6. l = k
    BY <2>3, <2>5, SameLevel
  <2> QED  BY <2>1, <2>6
<1>6. PICK middle : middle = b.max - (b.max - b.min) \div 2
  OBVIOUS
<1> HIDE DEF k
<1>7. IsBlock(b.min, middle, k - 1) /\ IsBlock(middle, b.max, k - 1)
  BY <1>4, <1>5, <1>6, BlockHalves
<1>8. middle \in Nat /\ b.min < middle /\ middle < b.max
  <2>0. PICK P : P = Power[k - 1]
    OBVIOUS
  <2>1. P \in Nat /\ P > 0
    BY <1>4, <2>0, PowerType
  <2>2. middle \in Nat /\ middle = b.min + P /\ b.max = middle + P
    <3>1. middle = b.min + P /\ b.max = middle + P
      BY <1>7, <2>0 DEF IsBlock
    <3> QED  BY <1>3, <2>1, <3>1
  <2> QED  BY <1>3, <2>1, <2>2
<1>9. Lists(b.nodes, S, seen) /\ \A n \in S : b.min <= n /\ n < b.max
  BY <1>2 DEF IsBucket
<1> HIDE DEF S
<1>10. PICK lower, upper :
          /\ Split(b, seen) = <<[min |-> b.min, max |-> middle, nodes |-> lower],
                                [min |-> middle, max |-> b.max, nodes |-> upper]>>
          /\ Lists(lower, {m \in S : m < middle}, seen)
          /\ Lists(upper, {m \in S : m >= middle}, seen)
          /\ Len(lower) + Len(upper) = Len(b.nodes)
  <2>1. middle \in Int
    BY <1>8
  <2>2. Lists(b.nodes, S, seen)
    BY <1>9
  <2>3. middle = b.max - (b.max - b.min) \div 2
    BY <1>6
  <2> HIDE DEF b
  <2>4. PICK lower, upper : SplitsInto(b, seen, S, middle, lower, upper)
    BY <2>1, <2>2, <2>3, SplitLists
  <2> QED  BY <2>4 DEF SplitsInto
<1>11. Len(lower) \in Nat /\ Len(upper) \in Nat /\ Len(lower) <= K /\ Len(upper) <= K
  <2>1. Len(lower) \in Nat /\ Len(upper) \in Nat
    BY <1>10, ListsType
  <2>2. Len(b.nodes) <= K
    BY <1>2 DEF IsBucket
  <2> QED  BY <1>1, <1>3, <1>10, <2>1, <2>2
<1>12. PICK low, high : /\ low = [min |-> b.min, max |-> middle, nodes |-> lower]
                        /\ high = [min |-> middle, max |-> b.max, nodes |-> upper]
  OBVIOUS
<1>13. IsRange(b.min, middle) /\ IsRange(middle, b.max)
  <2>1. (k - 1) + 1 = k /\ k - 1 \in 0..Bits
    BY <1>4
  <2>2. b.min <= middle /\ middle <= b.max /\ b.min <= b.min /\ b.max <= b.max /\ b.min \in Nat /\ b.max \in Nat
    BY <1>3, <1>8
  <2>3. b.min <= Own /\ Own < b.max
    OBVIOUS
  <2> HIDE DEF b
  <2>4. IsRange(b.min, middle)
    BY <1>5, <1>7, <2>1, <2>2, <2>3 DEF IsRange
  <2>5. IsRange(middle, b.max)
    BY <1>5, <1>7, <2>1, <2>2, <2>3 DEF IsRange
  <2> QED  BY <2>4, <2>5
<1>14. IsBucket(low, seen)
  <2>1. \A n \in {m \in S : m < middle} : b.min <= n /\ n < middle
    BY <1>9
  <2> HIDE DEF b
  <2> QED  BY <1>10, <1>11, <1>12, <1>13, <2>1, MakeBucket
<1>15. IsBucket(high, seen)
  <2>1. \A n \in {m \in S : m >= middle} : middle <= n /\ n < b.max
    <3>1. S \subseteq Nodes
      BY <1>9, ListsType
    <3> QED  BY <1>8, <1>9, <3>1, NodesAreIds
  <2> HIDE DEF b
  <2> QED  BY <1>10, <1>11, <1>12, <1>13, <2>1, MakeBucket
<1>16. HalvesOf(low, high, bs, i, seen)
  <2>1. Len(low.nodes) + Len(high.nodes) >= K
    BY <1>10, <1>12
  <2>2. low.min = b.min /\ low.max = middle /\ high.min = middle /\ high.max = b.max
    BY <1>12
  <2>3. k - 1 = Bits - Len(bs)
    BY <1>1 DEF k
  <2>4. IsBlock(b.min, middle, Bits - Len(bs)) /\ IsBlock(middle, b.max, Bits - Len(bs))
    BY <1>7, <2>3
  <2> QED  BY <1>14, <1>15, <2>1, <2>2, <2>4 DEF HalvesOf
<1>17. Split(b, seen) = <<low, high>>
  BY <1>10, <1>12
<1> QED  BY <1>16, <1>17

\* A split in insertNode leaves a table with one bucket more, and a minimal one.
LEMMA SplitOnce ==
    ASSUME NEW seen \in [Nodes -> Nat], NEW bs, IsTable(bs, seen), NEW i \in 1..Len(bs),
           bs[i].min <= Own, Own < bs[i].max, Len(bs) < Bits, Len(bs[i].nodes) >= K,
           NEW new, new = SubSeq(bs, 1, i - 1) \o Split(bs[i], seen) \o SubSeq(bs, i + 1, Len(bs))
    PROVE  IsTable(new, seen) /\ MinimalBut(new, 0) /\ Len(new) = Len(bs) + 1
<1>2. PICK low, high : Split(bs[i], seen) = <<low, high>> /\ HalvesOf(low, high, bs, i, seen)
  BY SplitBuckets
<1>3. bs \in Seq(Bucket) /\ low \in Bucket /\ high \in Bucket
  BY <1>2, TableType DEF HalvesOf, IsBucket
<1>4. new = SubSeq(bs, 1, i - 1) \o <<low, high>> \o SubSeq(bs, i + 1, Len(bs))
  BY <1>2
<1>5. new \in Seq(Bucket) /\ IsSplit(new, bs, i, low, high)
  BY <1>3, <1>4, SplitElements
<1>6. HalvesOf(low, high, bs, i, seen)
  BY <1>2
<1>7. new \in Seq(Bucket)
  BY <1>5
<1>8. IsSplit(new, bs, i, low, high)
  BY <1>5
<1>9. IsTable(new, seen)
  BY <1>6, <1>7, <1>8, SplitTable
<1>10. MinimalBut(new, 0)
  BY <1>6, <1>7, <1>8, SplitTable
<1>11. Len(new) = Len(bs) + 1
  BY <1>8 DEF IsSplit
<1> QED  BY <1>9, <1>10, <1>11

-----------------------------------------------------------------------------
(* Merges. *)

\* new is bs with the bucket m in the place of the buckets a and a + 1.
IsJoined(new, bs, a, m) ==
    /\ Len(new) = Len(bs) - 1
    /\ \A x \in 1..Len(new) :
         new[x] = IF x < a THEN bs[x] ELSE IF x = a THEN m ELSE bs[x + 1]

JoinOf(m, bs, a, seen) ==
    /\ AreTwins(bs, a)
    /\ IsBucket(m, seen) /\ m.min = bs[a].min /\ m.max = bs[a + 1].max

\* One bucket in the place of the two innermost ones leaves a table.
LEMMA JoinTable ==
    ASSUME NEW seen, NEW bs, IsTable(bs, seen), NEW a, NEW m, JoinOf(m, bs, a, seen),
           NEW new \in Seq(Bucket), IsJoined(new, bs, a, m)
    PROVE  IsTable(new, seen) /\ MinimalBut(new, a) /\ a \in 1..Len(new)
<1>1. Len(new) = Len(bs) - 1
  BY DEF IsJoined
<1>2. \A x \in 1..Len(new) : new[x] = IF x < a THEN bs[x] ELSE IF x = a THEN m ELSE bs[x + 1]
  BY DEF IsJoined
<1>3. Len(bs) \in Nat /\ Len(bs) <= Bits /\ Bits \in Nat /\ Own \in Nat
  BY TableType, OwnType
<1>4. a \in 1..(Len(bs) - 1)
  BY DEF JoinOf, AreTwins
<1>5. IsBucket(m, seen) /\ m.min = bs[a].min /\ m.max = bs[a + 1].max
  BY DEF JoinOf
<1>6. \A x \in 1..Len(bs) : IsBucket(bs[x], seen)
  BY DEF IsTable
<1>7. \A x \in 1..Len(bs) : bs[x].min \in Nat /\ bs[x].max \in Nat /\ bs[x].min < bs[x].max
  BY <1>6, BucketType
<1>8. a \in 1..Len(bs) /\ a + 1 \in 1..Len(bs) /\ a \in 1..Len(new)
  BY <1>1, <1>3, <1>4
<1>9. bs[a].min <= Own /\ Own < bs[a + 1].max
  BY DEF JoinOf, AreTwins
<1>10. ASSUME NEW x \in 1..Len(new)
       PROVE  \/ x < a /\ x \in 1..Len(bs) /\ new[x] = bs[x]
              \/ x = a /\ new[x] = m
              \/ x > a /\ x + 1 \in 1..Len(bs) /\ x + 1 > a + 1 /\ new[x] = bs[x + 1]
  <2>1. new[x] = IF x < a THEN bs[x] ELSE IF x = a THEN m ELSE bs[x + 1]
    BY <1>2
  <2>2. x \in 1..(Len(bs) - 1)
    BY <1>1
  <2>3. CASE x < a
    BY <1>3, <2>1, <2>2, <2>3
  <2>4. CASE x = a
    BY <2>1, <2>4
  <2>5. CASE x > a
    <3>1. ~(x < a) /\ x # a /\ x + 1 \in 1..Len(bs) /\ x + 1 > a + 1
      BY <1>3, <1>4, <2>2, <2>5
    <3> QED  BY <2>1, <2>5, <3>1
  <2> QED  BY <1>4, <2>2, <2>3, <2>4, <2>5
<1>11. new[a] = m
  BY <1>2, <1>8
<1>12. ASSUME NEW x \in 1..Len(new) PROVE IsBucket(new[x], seen)
  BY <1>5, <1>6, <1>10
<1>13. ASSUME NEW x \in 1..Len(new), new[x].min <= Own, Own < new[x].max PROVE x = a
  <2>1. CASE x < a /\ x \in 1..Len(bs) /\ new[x] = bs[x]
    <3>1. bs[x].max <= bs[a].min
      BY <1>8, <2>1, TableOrder
    <3>2. bs[x].max \in Nat /\ bs[a].min \in Nat /\ bs[a].min <= Own /\ Own < bs[x].max
      BY <1>7, <1>8, <1>9, <1>13, <2>1
    <3> QED  BY <1>3, <3>1, <3>2
  <2>2. CASE x > a /\ x + 1 \in 1..Len(bs) /\ x + 1 > a + 1 /\ new[x] = bs[x + 1]
    <3>0. a + 1 < x + 1
      BY <1>8, <2>2
    <3>1. bs[a + 1].max <= bs[x + 1].min
      BY <1>8, <2>2, <3>0, TableOrder
    <3>2. bs[a + 1].max \in Nat /\ bs[x + 1].min \in Nat /\ Own < bs[a + 1].max /\ bs[x + 1].min <= Own
      BY <1>7, <1>8, <1>9, <1>13, <2>2
    <3> QED  BY <1>3, <3>1, <3>2
  <2> QED  BY <1>10, <2>1, <2>2
<1>14. new[1].min = 0
  <2>1. bs[1].min = 0 /\ 1 \in 1..Len(new)
    <3>1. 1 \in 1..Len(new)
      BY <1>1, <1>3, <1>4
    <3> QED  BY <3>1 DEF IsTable
  <2>2. CASE a = 1
    BY <1>5, <1>11, <2>1, <2>2
  <2>3. CASE a # 1
    <3>1. 1 < a
      BY <1>4, <2>3
    <3> QED  BY <1>2, <2>1, <3>1
  <2> QED  BY <2>2, <2>3
<1>15. new[Len(new)].max = Power[Bits]
  <2>1. Len(new) \in 1..Len(new) /\ Len(new) + 1 = Len(bs)
    BY <1>1, <1>3, <1>4
  <2>2. bs[Len(bs)].max = Power[Bits]
    BY DEF IsTable
  <2>3. CASE a = Len(new)
    BY <1>5, <1>11, <2>1, <2>2, <2>3
  <2>4. CASE a # Len(new)
    <3>1. ~(Len(new) < a) /\ Len(new) # a
      BY <1>8, <2>4
    <3>2. new[Len(new)] = bs[Len(new) + 1]
      BY <1>2, <2>1, <3>1
    <3> QED  BY <2>1, <2>2, <3>2
  <2> QED  BY <2>3, <2>4
<1>16. ASSUME NEW x \in 2..Len(new) PROVE new[x - 1].max = new[x].min
  <2>1. x \in 1..Len(new) /\ x - 1 \in 1..Len(new) /\ x \in 2..(Len(bs) - 1)
    BY <1>1, <1>3
  <2>2. \A y \in 2..Len(bs) : bs[y - 1].max = bs[y].min
    BY DEF IsTable
  <2>3. CASE x < a
    <3>1. x - 1 < a /\ x \in 2..Len(bs)
      BY <1>3, <1>4, <2>1, <2>3
    <3>2. new[x] = bs[x] /\ new[x - 1] = bs[x - 1]
      BY <1>2, <2>1, <2>3, <3>1
    <3> QED  BY <2>2, <3>1, <3>2
  <2>4. CASE x = a
    <3>1. x - 1 < a /\ x \in 2..Len(bs)
      BY <1>3, <1>4, <2>1, <2>4
    <3>2. new[x] = m /\ new[x - 1] = bs[x - 1]
      BY <1>2, <1>11, <2>1, <2>4, <3>1
    <3>3. bs[x - 1].max = bs[x].min
      BY <2>2, <3>1
    <3> QED  BY <1>5, <2>4, <3>2, <3>3
  <2>5. CASE x = a + 1
    <3>1. x - 1 = a /\ ~(x < a) /\ x # a /\ x + 1 \in 2..Len(bs) /\ (x + 1) - 1 = x
      BY <1>3, <1>4, <2>1, <2>5
    <3>2. new[x] = bs[x + 1] /\ new[x - 1] = m
      BY <1>2, <1>11, <2>1, <3>1
    <3>3. bs[x].max = bs[x + 1].min
      BY <2>2, <3>1
    <3> QED  BY <1>5, <2>5, <3>2, <3>3
  <2>6. CASE x > a + 1
    <3>1. /\ ~(x < a) /\ x # a /\ ~(x - 1 < a) /\ x - 1 # a
          /\ x + 1 \in 2..Len(bs) /\ (x + 1) - 1 = x /\ (x - 1) + 1 = x
      BY <1>3, <1>4, <2>1, <2>6
    <3>2. new[x] = bs[x + 1] /\ new[x - 1] = bs[(x - 1) + 1]
      BY <1>2, <2>1, <3>1
    <3>3. bs[x].max = bs[x + 1].min
      BY <2>2, <3>1
    <3> QED  BY <3>1, <3>2, <3>3
  <2> QED  BY <1>4, <2>1, <2>3, <2>4, <2>5, <2>6
<1>17. m.max - m.min = Power[Bits - Len(new) + 1]
  <2>1. PICK k : k = Bits - Len(bs) + 1
    OBVIOUS
  <2>2. IsBlock(bs[a].min, bs[a + 1].max, k + 1) /\ k + 1 \in 0..Bits
    BY <2>1 DEF JoinOf, AreTwins, IsBlock
  <2>3. Power[k + 1] \in Nat
    BY <2>2, PowerType
  <2>4. bs[a].min \in Nat /\ bs[a + 1].max = bs[a].min + Power[k + 1]
    BY <2>2 DEF IsBlock
  <2>5. bs[a + 1].max - bs[a].min = Power[k + 1]
    BY <2>3, <2>4
  <2>6. Bits - Len(new) + 1 = k + 1
    BY <1>1, <1>3, <2>1
  <2> QED  BY <1>5, <2>5, <2>6
<1>18. ASSUME NEW x \in 1..Len(new), new[x].min <= Own, Own < new[x].max
       PROVE  new[x].max - new[x].min = Power[Bits - Len(new) + 1]
  <2>1. x = a
    BY <1>13, <1>18
  <2> QED  BY <1>11, <1>17, <2>1
<1>19. Len(new) \in 1..Bits
  BY <1>1, <1>3, <1>4
<1>20. IsTable(new, seen)
  BY <1>12, <1>14, <1>15, <1>16, <1>18, <1>19 DEF IsTable
<1>21. ASSUME NEW x \in 1..Len(new), NEW y \in Twin(new, x) PROVE x = a \/ y = a
  <2>1. PICK b : AreTwins(new, b) /\ ((x = b /\ y = b + 1) \/ (x = b + 1 /\ y = b))
    BY <1>20, TwinMeaning
  <2>2. b \in 1..(Len(new) - 1) /\ new[b].max = new[b + 1].min /\ new[b].min <= Own /\ Own < new[b + 1].max
    BY <2>1 DEF AreTwins
  <2>3. b \in 1..Len(new) /\ b + 1 \in 1..Len(new)
    BY <1>1, <1>3, <2>2
  <2>4. new[b].max \in Nat
    BY <1>12, <2>3, BucketType
  <2>5. CASE Own < new[b].max
    <3>1. b = a
      BY <1>13, <2>2, <2>3, <2>5
    <3> QED  BY <2>1, <3>1
  <2>6. CASE ~(Own < new[b].max)
    <3>1. new[b + 1].min <= Own
      BY <1>3, <2>2, <2>4, <2>6
    <3>2. b + 1 = a
      BY <1>13, <2>2, <2>3, <3>1
    <3> QED  BY <2>1, <3>2
  <2> QED  BY <2>5, <2>6
<1>22. MinimalBut(new, a)
  BY <1>21 DEF MinimalBut
<1> QED  BY <1>8, <1>20, <1>22

\* One round of KTable._mergeBucket.
LEMMA MergeOnce ==
    ASSUME NEW seen \in [Nodes -> Nat], NEW bs, IsTable(bs, seen), NEW i \in 1..Len(bs),
           NEW j \in Twin(bs, i), Fits(bs, i, j)
    PROVE  LET new == Merge(bs, i, j, seen)
               at == Min({i, j})
           IN  IsTable(new, seen) /\ MinimalBut(new, at) /\ at \in 1..Len(new) /\ Len(new) = Len(bs) - 1
<1>1. PICK a : AreTwins(bs, a) /\ ((i = a /\ j = a + 1) \/ (i = a + 1 /\ j = a))
  BY TwinMeaning
<1>2. a \in 1..(Len(bs) - 1) /\ bs[a].max = bs[a + 1].min
  BY <1>1 DEF AreTwins
<1>3. bs \in Seq(Bucket) /\ Len(bs) \in Nat
  BY TableType
<1>4. a \in 1..Len(bs) /\ a + 1 \in 1..Len(bs) /\ j \in 1..Len(bs) /\ Min({i, j}) = a
  <2>1. a \in 1..Len(bs) /\ a + 1 \in 1..Len(bs)
    BY <1>2, <1>3
  <2>2. j \in 1..Len(bs)
    BY <1>1, <2>1
  <2>3. Min({i, j}) = IF i <= j THEN i ELSE j
    BY <2>2, MinOfTwo
  <2> QED  BY <1>1, <2>1, <2>2, <2>3
<1>5. \A x \in 1..Len(bs) : IsBucket(bs[x], seen)
  BY DEF IsTable
<1>6. \A x \in 1..Len(bs) : bs[x].min \in Nat /\ bs[x].max \in Nat /\ bs[x].min < bs[x].max
  BY <1>5, BucketType
<1>7. PICK S, T : S = ToSet(bs[i].nodes) /\ T = ToSet(bs[j].nodes)
  OBVIOUS
<1>8. Lists(bs[i].nodes, S, seen) /\ Lists(bs[j].nodes, T, seen)
  BY <1>4, <1>5, <1>7 DEF IsBucket
<1>9. \A n \in S : n \notin T
  <2> SUFFICES ASSUME NEW n \in S, n \in T PROVE FALSE
    OBVIOUS
  <2>1. n \in Nodes
    BY <1>8, ListsType
  <2>2. i = BucketIndex(bs, n) /\ j = BucketIndex(bs, n)
    BY <1>4, <1>7, <2>1, MemberIsFound
  <2> QED  BY <1>1, <1>2, <2>2
<1>10. PICK nodes : nodes = MergedNodes(bs[i].nodes, bs[j].nodes, seen)
  OBVIOUS
<1>11. Lists(nodes, S \cup T, seen) /\ Len(nodes) = Len(bs[i].nodes) + Len(bs[j].nodes)
  <2>1. PICK p, q : p = bs[i].nodes /\ q = bs[j].nodes
    OBVIOUS
  <2>2. Lists(p, S, seen)
    BY <1>8, <2>1
  <2>3. Lists(q, T, seen)
    BY <1>8, <2>1
  <2>4. Lists(MergedNodes(p, q, seen), S \cup T, seen)
    BY <1>9, <2>2, <2>3, MergedNodesLists
  <2>5. Len(MergedNodes(p, q, seen)) = Len(p) + Len(q)
    BY <1>9, <2>2, <2>3, <2>4, MergedNodesLists
  <2> QED  BY <1>10, <2>1, <2>4, <2>5
<1>12. Len(nodes) <= K
  BY <1>11 DEF Fits
<1>13. PICK lo, hi : lo = bs[a].min /\ hi = bs[a + 1].max
  OBVIOUS
<1>14. lo \in Nat /\ hi \in Nat /\ bs[a].min < bs[a + 1].min /\ bs[a].max < bs[a + 1].max
  BY <1>2, <1>4, <1>6, <1>13
<1>15. Min({bs[i].min, bs[j].min}) = lo /\ Max({bs[i].max, bs[j].max}) = hi
  <2>6. bs[i].min \in Int /\ bs[j].min \in Int /\ bs[i].max \in Int /\ bs[j].max \in Int
    BY <1>4, <1>6
  <2>1. Min({bs[i].min, bs[j].min}) = IF bs[i].min <= bs[j].min THEN bs[i].min ELSE bs[j].min
    BY <2>6, MinOfTwo
  <2>2. Max({bs[i].max, bs[j].max}) = IF bs[i].max <= bs[j].max THEN bs[j].max ELSE bs[i].max
    BY <2>6, MaxOfTwo
  <2>3. /\ bs[a].min \in Nat /\ bs[a + 1].min \in Nat /\ bs[a].max \in Nat /\ bs[a + 1].max \in Nat
    BY <1>4, <1>6
  <2>4. CASE i = a /\ j = a + 1
    BY <1>13, <1>14, <2>1, <2>2, <2>3, <2>4
  <2>5. CASE i = a + 1 /\ j = a
    BY <1>13, <1>14, <2>1, <2>2, <2>3, <2>5
  <2> QED  BY <1>1, <2>4, <2>5
<1>16. PICK m : m = [min |-> lo, max |-> hi, nodes |-> nodes]
  OBVIOUS
<1>17. MergedBucket(bs[i], bs[j], seen) = m
  BY <1>10, <1>15, <1>16 DEF MergedBucket
<1>18. IsRange(lo, hi)
  <2>1. PICK k : IsBlock(lo, hi, k)
    BY <1>1, <1>13 DEF AreTwins
  <2>2. lo <= Own /\ Own < hi
    BY <1>1, <1>13 DEF AreTwins
  <2> QED  BY <2>1, <2>2, OwnBlockIsRange
<1>19. ASSUME NEW n \in S \cup T PROVE lo <= n /\ n < hi
  <2>1. n \in Nat
    BY <1>8, ListsType, NodesAreIds
  <2>2. \/ bs[a].min <= n /\ n < bs[a].max
        \/ bs[a + 1].min <= n /\ n < bs[a + 1].max
    BY <1>1, <1>4, <1>5, <1>7 DEF IsBucket
  <2>3. PICK x, y : x = bs[a].max /\ y = bs[a + 1].min
    OBVIOUS
  <2>4. x \in Nat /\ y \in Nat /\ lo < y /\ x < hi
    BY <1>4, <1>6, <1>13, <1>14, <2>3
  <2>5. (lo <= n /\ n < x) \/ (y <= n /\ n < hi)
    BY <1>13, <2>2, <2>3
  <2> QED  BY <1>14, <2>1, <2>4, <2>5
<1>20. IsBucket(m, seen)
  BY <1>11, <1>12, <1>16, <1>18, <1>19, MakeBucket
<1>21. JoinOf(m, bs, a, seen)
  BY <1>1, <1>13, <1>16, <1>20 DEF JoinOf
<1>22. PICK t : t = [bs EXCEPT ![i] = m]
  OBVIOUS
<1>23. t \in Seq(Bucket) /\ Len(t) = Len(bs) /\ \A x \in 1..Len(bs) : t[x] = IF x = i THEN m ELSE bs[x]
  <2>1. m \in Bucket
    BY <1>20 DEF IsBucket
  <2> QED  BY <1>3, <1>22, <2>1, ExceptSeq
<1>24. PICK new : new = RemoveAt(t, j)
  OBVIOUS
<1>25. Merge(bs, i, j, seen) = new
  BY <1>17, <1>22, <1>24 DEF Merge
<1>26. new \in Seq(Bucket) /\ IsWithout(new, t, j)
  BY <1>4, <1>23, <1>24, RemoveAtElements
<1>27. IsJoined(new, bs, a, m)
  <2>1. Len(new) = Len(bs) - 1
    BY <1>23, <1>26 DEF IsWithout
  <2>2. ASSUME NEW x \in 1..Len(new)
        PROVE  new[x] = IF x < a THEN bs[x] ELSE IF x = a THEN m ELSE bs[x + 1]
    <3>1. new[x] = IF x < j THEN t[x] ELSE t[x + 1]
      BY <1>26 DEF IsWithout
    <3>2. x \in 1..Len(bs) /\ x + 1 \in 1..Len(bs)
      BY <1>3, <2>1
    <3>3. t[x] = (IF x = i THEN m ELSE bs[x]) /\ t[x + 1] = (IF x + 1 = i THEN m ELSE bs[x + 1])
      BY <1>23, <3>2
    <3>4. CASE i = a /\ j = a + 1
      <4>1. CASE x < a
        <5>1. x < j /\ x # i
          BY <1>2, <3>4, <4>1
        <5> QED  BY <3>1, <3>3, <4>1, <5>1
      <4>2. CASE x = a
        <5>1. x < j /\ x = i /\ ~(x < a)
          BY <1>2, <3>4, <4>2
        <5> QED  BY <3>1, <3>3, <4>2, <5>1
      <4>3. CASE x > a
        <5>1. ~(x < j) /\ x + 1 # i /\ ~(x < a) /\ x # a
          BY <1>2, <3>4, <4>3
        <5> QED  BY <3>1, <3>3, <5>1
      <4> QED  BY <1>2, <4>1, <4>2, <4>3
    <3>5. CASE i = a + 1 /\ j = a
      <4>1. CASE x < a
        <5>1. x < j /\ x # i
          BY <1>2, <3>5, <4>1
        <5> QED  BY <3>1, <3>3, <4>1, <5>1
      <4>2. CASE x = a
        <5>1. ~(x < j) /\ x + 1 = i /\ ~(x < a)
          BY <1>2, <3>5, <4>2
        <5> QED  BY <3>1, <3>3, <4>2, <5>1
      <4>3. CASE x > a
        <5>1. ~(x < j) /\ x + 1 # i /\ ~(x < a) /\ x # a
          BY <1>2, <3>5, <4>3
        <5> QED  BY <3>1, <3>3, <5>1
      <4> QED  BY <1>2, <4>1, <4>2, <4>3
    <3> QED  BY <1>1, <3>4, <3>5
  <2> QED  BY <2>1, <2>2 DEF IsJoined
<1>28. IsTable(new, seen) /\ MinimalBut(new, a) /\ a \in 1..Len(new)
  BY <1>21, <1>26, <1>27, JoinTable
<1>29. Len(new) = Len(bs) - 1
  BY <1>27 DEF IsJoined
<1> QED  BY <1>4, <1>25, <1>28, <1>29

-----------------------------------------------------------------------------
(* Chains of splits and merges. *)

\* A table where the exceptional bucket has no neighbour to merge with is minimal.
LEMMA NoFittingTwin ==
    ASSUME NEW seen, NEW bs, IsTable(bs, seen), NEW at \in 1..Len(bs), MinimalBut(bs, at),
           \A j \in Twin(bs, at) : ~Fits(bs, at, j)
    PROVE  MinimalBut(bs, 0)
<1>1. \A x \in 1..Len(bs) : Len(bs[x].nodes) \in Nat
  BY BucketType DEF IsTable
<1>2. K \in Nat /\ Len(bs) \in Nat
  BY KTableAssumption, TableType
<1>3. ASSUME NEW x \in Twin(bs, at)
      PROVE  Len(bs[at].nodes) + Len(bs[x].nodes) >= K /\ Len(bs[x].nodes) + Len(bs[at].nodes) >= K
  <2>1. ~(Len(bs[at].nodes) + Len(bs[x].nodes) <= K)
    BY DEF Fits
  <2>2. x \in 1..Len(bs)
    BY <1>2 DEF Twin
  <2>3. PICK p, q : p = Len(bs[at].nodes) /\ q = Len(bs[x].nodes)
    OBVIOUS
  <2>4. p \in Nat /\ q \in Nat /\ ~(p + q <= K)
    BY <1>1, <2>1, <2>2, <2>3
  <2>5. p + q >= K /\ q + p >= K
    BY <1>2, <2>4
  <2> QED  BY <2>3, <2>5
<1>4. ASSUME NEW x \in 1..Len(bs), NEW y \in Twin(bs, x)
      PROVE  Len(bs[x].nodes) + Len(bs[y].nodes) >= K
  <2>1. CASE x # at /\ y # at
    BY <2>1 DEF MinimalBut
  <2>2. CASE x = at
    BY <1>3, <2>2
  <2>3. CASE y = at
    <3>1. PICK a : AreTwins(bs, a) /\ ((x = a /\ y = a + 1) \/ (x = a + 1 /\ y = a))
      BY TwinMeaning
    <3>2. CASE x = a /\ y = a + 1
      <4>1. Twin(bs, at) = {a}
        BY <2>3, <3>1, <3>2, TwinMeaning
      <4> QED  BY <1>3, <2>3, <3>2, <4>1
    <3>3. CASE x = a + 1 /\ y = a
      <4>1. Twin(bs, at) = {at + 1}
        BY <2>3, <3>1, <3>3, TwinMeaning
      <4> QED  BY <1>3, <2>3, <3>3, <4>1
    <3> QED  BY <3>1, <3>2, <3>3
  <2> QED  BY <2>1, <2>2, <2>3
<1> QED  BY <1>4 DEF MinimalBut

\* _mergeBucket, down to the last merge, leaves a minimal table.
LEMMA MergeChain ==
    ASSUME NEW seen \in [Nodes -> Nat], NEW bs, IsTable(bs, seen), NEW i \in 1..Len(bs), MinimalBut(bs, i)
    PROVE  IsTable(MergeBucket(bs, i, seen), seen) /\ MinimalBut(MergeBucket(bs, i, seen), 0)
<1> DEFINE N == Len(bs)
           base == [table |-> bs, at |-> i]
           Fitting(table, at) == {j \in Twin(table, at) : Fits(table, at, j)}
           Step(prev) == LET table == prev.table
                             at == prev.at
                             fitting == {j \in Twin(table, at) : Fits(table, at, j)}
                             j == CHOOSE j \in fitting : TRUE
                         IN  IF fitting = {} THEN prev
                             ELSE [table |-> Merge(table, at, j, seen), at |-> Min({at, j})]
           merged[d \in 0..N] == IF d = 0 THEN base ELSE Step(merged[d - 1])
           A == {m \in 0..N : \E f : f = [d \in 0..m |-> IF d = 0 THEN base ELSE Step(f[d - 1])]}
<1>1. N \in Nat /\ N >= 1
  BY TableType
<1> HIDE DEF Step, base, N
<1>2. 0 \in A
  <2> DEFINE f == [d \in 0..0 |-> base]
  <2>1. f = [d \in 0..0 |-> IF d = 0 THEN base ELSE Step(f[d - 1])]
    OBVIOUS
  <2>2. 0 \in 0..N
    BY <1>1
  <2> HIDE DEF f
  <2> QED  BY <2>1, <2>2
<1>3. ASSUME NEW m \in 1..N, m - 1 \in A PROVE m \in A
  <2>1. PICK f : f = [d \in 0..(m - 1) |-> IF d = 0 THEN base ELSE Step(f[d - 1])]
    BY <1>3
  <2> DEFINE g == [d \in 0..m |-> IF d = m THEN Step(f[m - 1]) ELSE f[d]]
  <2>2. ASSUME NEW d \in 0..m PROVE g[d] = IF d = 0 THEN base ELSE Step(g[d - 1])
    <3>1. CASE d = m
      BY <3>1
    <3>2. CASE d # m
      BY <2>1, <3>2
    <3> QED  BY <3>1, <3>2
  <2>3. g = [d \in 0..m |-> IF d = 0 THEN base ELSE Step(g[d - 1])]
    BY <2>2
  <2> HIDE DEF g
  <2> QED  BY <2>3
<1>4. N \in A
  <2> HIDE DEF A, merged
  <2>1. N \in Nat
    BY <1>1
  <2>2. \A m \in 0..N : m \in A
    BY <1>2, <1>3, <2>1, UpTo
  <2> QED  BY <2>1, <2>2
<1>5. merged = [d \in 0..N |-> IF d = 0 THEN base ELSE Step(merged[d - 1])]
  BY <1>4
<1>6. MergeBucket(bs, i, seen) = merged[N].table
  BY DEF MergeBucket, Step, base, N
<1> HIDE DEF merged, A
<1> DEFINE IsGood(t, at, d) == /\ IsTable(t, seen) /\ at \in 1..Len(t) /\ MinimalBut(t, at)
                               /\ Fitting(t, at) = {} \/ Len(t) = N - d
           Good == {d \in 0..N : IsGood(merged[d].table, merged[d].at, d)}
<1>7. 0 \in Good
  <2>1. merged[0].table = bs /\ merged[0].at = i
    BY <1>1, <1>5 DEF base
  <2>2. 0 \in 0..N /\ Len(bs) = N - 0
    BY <1>1 DEF N
  <2>3. IsGood(bs, i, 0)
    BY <2>2
  <2> HIDE DEF IsGood
  <2> QED  BY <2>1, <2>2, <2>3
<1>8. ASSUME NEW d \in 1..N, d - 1 \in Good PROVE d \in Good
  <2>1. PICK prev : prev = merged[d - 1]
    OBVIOUS
  <2>2. PICK t, at : t = prev.table /\ at = prev.at
    OBVIOUS
  <2>3. IsGood(t, at, d - 1)
    BY <1>8, <2>1, <2>2
  <2>4. d \in 0..N /\ d # 0
    BY <1>1
  <2>5. merged[d] = Step(prev)
    BY <1>5, <2>1, <2>4
  <2>6. CASE Fitting(t, at) = {}
    <3>1. merged[d] = prev
      BY <2>2, <2>5, <2>6 DEF Step
    <3>2. IsGood(t, at, d)
      BY <2>3, <2>6
    <3> HIDE DEF IsGood
    <3> QED  BY <2>2, <2>4, <3>1, <3>2
  <2>7. CASE Fitting(t, at) # {}
    <3>1. PICK j : j = CHOOSE x \in Fitting(t, at) : TRUE
      OBVIOUS
    <3>2. j \in Twin(t, at) /\ Fits(t, at, j)
      BY <2>7, <3>1
    <3>3. merged[d] = [table |-> Merge(t, at, j, seen), at |-> Min({at, j})]
      BY <2>2, <2>5, <2>7, <3>1 DEF Step
    <3>4. IsTable(t, seen) /\ at \in 1..Len(t) /\ Len(t) = N - (d - 1)
      BY <2>3, <2>7
    <3>5. PICK new, low : new = Merge(t, at, j, seen) /\ low = Min({at, j})
      OBVIOUS
    <3>6. IsTable(new, seen) /\ MinimalBut(new, low) /\ low \in 1..Len(new) /\ Len(new) = Len(t) - 1
      BY <3>2, <3>4, <3>5, MergeOnce
    <3>7. Len(new) = N - d
      BY <1>1, <3>4, <3>6
    <3>8. IsGood(new, low, d)
      BY <3>6, <3>7
    <3>9. merged[d].table = new /\ merged[d].at = low
      BY <3>3, <3>5
    <3> HIDE DEF IsGood
    <3> QED  BY <2>4, <3>8, <3>9
  <2> QED  BY <2>6, <2>7
<1>9. N \in Good
  <2> HIDE DEF Good
  <2>1. N \in Nat
    BY <1>1
  <2>2. \A d \in 0..N : d \in Good
    BY <1>7, <1>8, <2>1, UpTo
  <2> QED  BY <2>1, <2>2
<1>10. PICK t, at : t = merged[N].table /\ at = merged[N].at
  OBVIOUS
<1>11. IsGood(t, at, N)
  BY <1>9, <1>10
<1>12. Fitting(t, at) = {}
  <2>1. Len(t) # N - N
    BY <1>1, <1>11
  <2> QED  BY <1>11, <2>1
<1>13. MinimalBut(t, 0)
  <2>1. \A j \in Twin(t, at) : ~Fits(t, at, j)
    BY <1>12
  <2> QED  BY <1>11, <2>1, NoFittingTwin
<1> QED  BY <1>6, <1>10, <1>11, <1>13

\* The splits of an insertion leave a minimal table, where none is needed any more.
LEMMA SplitChain ==
    ASSUME NEW seen \in [Nodes -> Nat], NEW bs, IsTable(bs, seen), MinimalBut(bs, 0), NEW n \in Nodes
    PROVE  LET table == SplitFor(bs, n, seen)
           IN  IsTable(table, seen) /\ MinimalBut(table, 0) /\ ~NeedsSplit(table, n)
<1> DEFINE Step(table) == LET i == BucketIndex(table, n)
                          IN  IF NeedsSplit(table, n)
                              THEN SubSeq(table, 1, i - 1) \o Split(table[i], seen)
                                   \o SubSeq(table, i + 1, Len(table))
                              ELSE table
           split[d \in 0..Bits] == IF d = 0 THEN bs ELSE Step(split[d - 1])
           A == {m \in 0..Bits : \E f : f = [d \in 0..m |-> IF d = 0 THEN bs ELSE Step(f[d - 1])]}
<1>1. Bits \in Nat /\ Len(bs) \in Nat /\ Len(bs) >= 1
  BY TableType
<1> HIDE DEF Step
<1>2. 0 \in A
  <2> DEFINE f == [d \in 0..0 |-> bs]
  <2>1. f = [d \in 0..0 |-> IF d = 0 THEN bs ELSE Step(f[d - 1])]
    OBVIOUS
  <2>2. 0 \in 0..Bits
    BY <1>1
  <2> HIDE DEF f
  <2> QED  BY <2>1, <2>2
<1>3. ASSUME NEW m \in 1..Bits, m - 1 \in A PROVE m \in A
  <2>1. PICK f : f = [d \in 0..(m - 1) |-> IF d = 0 THEN bs ELSE Step(f[d - 1])]
    BY <1>3
  <2> DEFINE g == [d \in 0..m |-> IF d = m THEN Step(f[m - 1]) ELSE f[d]]
  <2>2. ASSUME NEW d \in 0..m PROVE g[d] = IF d = 0 THEN bs ELSE Step(g[d - 1])
    <3>1. CASE d = m
      BY <3>1
    <3>2. CASE d # m
      BY <2>1, <3>2
    <3> QED  BY <3>1, <3>2
  <2>3. g = [d \in 0..m |-> IF d = 0 THEN bs ELSE Step(g[d - 1])]
    BY <2>2
  <2> HIDE DEF g
  <2> QED  BY <2>3
<1>4. Bits \in A
  <2>1. Bits \in Nat
    BY <1>1
  <2> HIDE DEF A
  <2> QED  BY <2>1, <1>2, <1>3, UpTo
<1>5. split = [d \in 0..Bits |-> IF d = 0 THEN bs ELSE Step(split[d - 1])]
  BY <1>4
<1>6. SplitFor(bs, n, seen) = split[Bits]
  BY DEF SplitFor, Step
<1> HIDE DEF split, A
<1> DEFINE IsGood(t, d) == /\ IsTable(t, seen) /\ MinimalBut(t, 0)
                           /\ ~NeedsSplit(t, n) \/ Len(t) = Len(bs) + d
           Good == {d \in 0..Bits : IsGood(split[d], d)}
<1>7. 0 \in Good
  <2>1. 0 \in 0..Bits /\ Len(bs) = Len(bs) + 0
    BY <1>1
  <2>2. split[0] = bs
    BY <1>5, <2>1
  <2> QED  BY <2>1, <2>2
<1>8. ASSUME NEW d \in 1..Bits, d - 1 \in Good PROVE d \in Good
  <2>1. PICK t : t = split[d - 1]
    OBVIOUS
  <2>2. IsTable(t, seen) /\ MinimalBut(t, 0) /\ (~NeedsSplit(t, n) \/ Len(t) = Len(bs) + (d - 1))
    BY <1>8, <2>1
  <2>3. d \in 0..Bits /\ d # 0
    BY <1>1
  <2>4. split[d] = Step(t)
    BY <1>5, <2>1, <2>3
  <2>5. CASE ~NeedsSplit(t, n)
    <3>1. split[d] = t
      BY <2>4, <2>5 DEF Step
    <3> QED  BY <2>2, <2>3, <2>5, <3>1
  <2>6. CASE NeedsSplit(t, n)
    <3>1. PICK i : i = BucketIndex(t, n)
      OBVIOUS
    <3>2. PICK new : new = SubSeq(t, 1, i - 1) \o Split(t[i], seen) \o SubSeq(t, i + 1, Len(t))
      OBVIOUS
    <3>3. split[d] = new
      BY <2>4, <2>6, <3>1, <3>2 DEF Step
    <3>4. t[i].min <= Own /\ Own < t[i].max /\ Len(t) < Bits /\ Len(t[i].nodes) >= K
      BY <2>6, <3>1 DEF NeedsSplit
    <3>5. i \in 1..Len(t)
      BY <2>2, <3>1, MemberIsFound DEF IsIndex
    <3>6. IsTable(new, seen) /\ MinimalBut(new, 0) /\ Len(new) = Len(t) + 1
      BY <2>2, <3>2, <3>4, <3>5, SplitOnce
    <3>7. Len(new) = Len(bs) + d
      BY <1>1, <2>2, <2>6, <3>6
    <3> QED  BY <2>3, <3>3, <3>6, <3>7
  <2> QED  BY <2>5, <2>6
<1>9. Bits \in Good
  <2>1. Bits \in Nat
    BY <1>1
  <2> HIDE DEF Good
  <2> QED  BY <2>1, <1>7, <1>8, UpTo
<1>10. PICK t : t = split[Bits]
  OBVIOUS
<1>11. IsTable(t, seen) /\ MinimalBut(t, 0) /\ (~NeedsSplit(t, n) \/ Len(t) = Len(bs) + Bits)
  BY <1>9, <1>10
<1>12. ~NeedsSplit(t, n)
  <2>1. Len(t) \in Nat /\ Len(t) <= Bits
    BY <1>11, TableType
  <2>2. Len(t) # Len(bs) + Bits
    BY <1>1, <2>1
  <2> QED  BY <1>11, <2>2
<1> QED  BY <1>6, <1>10, <1>11, <1>12

\* An insertion that needs no split leaves the table to the rest of insertNode.
LEMMA NoSplit ==
    ASSUME NEW seen, NEW bs, NEW n, ~NeedsSplit(bs, n)
    PROVE  SplitFor(bs, n, seen) = bs
<1> DEFINE Step(table) == LET i == BucketIndex(table, n)
                          IN  IF NeedsSplit(table, n)
                              THEN SubSeq(table, 1, i - 1) \o Split(table[i], seen)
                                   \o SubSeq(table, i + 1, Len(table))
                              ELSE table
           split[d \in 0..Bits] == IF d = 0 THEN bs ELSE Step(split[d - 1])
           f == [d \in 0..Bits |-> bs]
<1>1. Bits \in Nat
  BY PowerType
<1>2. Step(bs) = bs
  OBVIOUS
<1> HIDE DEF Step
<1>3. f = [d \in 0..Bits |-> IF d = 0 THEN bs ELSE Step(f[d - 1])]
  <2>1. \A d \in 0..Bits : bs = IF d = 0 THEN bs ELSE Step(f[d - 1])
    BY <1>1, <1>2
  <2> QED  BY <2>1
<1> HIDE DEF f
<1>4. split = [d \in 0..Bits |-> IF d = 0 THEN bs ELSE Step(split[d - 1])]
  BY <1>3
<1>5. SplitFor(bs, n, seen) = split[Bits]
  BY DEF SplitFor, Step
<1> HIDE DEF split
<1> DEFINE Good == {d \in 0..Bits : split[d] = bs}
<1>6. 0 \in Good
  BY <1>1, <1>4
<1>7. ASSUME NEW d \in 1..Bits, d - 1 \in Good PROVE d \in Good
  <2>1. d \in 0..Bits /\ d # 0
    BY <1>1
  <2> QED  BY <1>2, <1>4, <1>7, <2>1
<1>8. Bits \in Good
  <2> HIDE DEF Good
  <2> QED  BY <1>1, <1>6, <1>7, UpTo
<1> QED  BY <1>5, <1>8

-----------------------------------------------------------------------------
(* The operations on tables. *)

\* KTable.__init__ makes a table.
LEMMA NewTable ==
    ASSUME NEW seen
    PROVE  IsTable(EmptyTable, seen) /\ MinimalBut(EmptyTable, 0)
<1>1. Bits \in Nat /\ Bits > 0 /\ Power[Bits] \in Nat /\ Power[Bits] > 0
  BY PowerType
<1>2. PICK b : b = [min |-> 0, max |-> Power[Bits], nodes |-> <<>>]
  OBVIOUS
<1>3. IsRange(0, Power[Bits])
  <2>1. 0 = 0 * Power[Bits] /\ Power[Bits] = 0 + Power[Bits]
    BY <1>1
  <2>2. IsBlock(0, Power[Bits], Bits)
    BY <1>1, <2>1 DEF IsBlock
  <2>3. Bits \in 0..Bits /\ ~(Bits < Bits)
    BY <1>1
  <2> QED  BY <2>2, <2>3 DEF IsRange
<1>4. IsBucket(b, seen)
  <2>1. Lists(<<>>, {}, seen)
    BY EmptyLists
  <2>2. Len(<<>>) <= K
    BY KTableAssumption
  <2> QED  BY <1>2, <1>3, <2>1, <2>2, MakeBucket
<1>5. b \in Bucket
  BY <1>4 DEF IsBucket
<1>6. PICK t : t = EmptyTable
  OBVIOUS
<1>7. t \in Seq(Bucket) /\ Len(t) = 1 /\ t[1] = b
  BY <1>2, <1>5, <1>6 DEF EmptyTable
<1>8. \A i \in 1..Len(t) : i = 1
  BY <1>7
<1>9. Bits - Len(t) + 1 = Bits /\ Power[Bits] - 0 = Power[Bits] /\ Len(t) \in 1..Bits
  BY <1>1, <1>7
<1>10. b.min = 0 /\ b.max = Power[Bits]
  BY <1>2
<1>11. \A i \in 2..Len(t) : FALSE
  BY <1>7
<1>12. t[1].min = 0 /\ t[Len(t)].max = Power[Bits]
  BY <1>7, <1>10
<1>13. \A i \in 1..Len(t) : IsBucket(t[i], seen)
  BY <1>4, <1>7, <1>8
<1>14. \A i \in 1..Len(t) : t[i].max - t[i].min = Power[Bits - Len(t) + 1]
  BY <1>7, <1>8, <1>9, <1>10
<1>15. IsTable(t, seen)
  BY <1>7, <1>9, <1>11, <1>12, <1>13, <1>14 DEF IsTable
<1>16. \A i \in 1..Len(t) : Twin(t, i) = {}
  BY <1>7 DEF Twin
<1> QED  BY <1>6, <1>15, <1>16 DEF MinimalBut

\* invalidateNode leaves a minimal table.
LEMMA WithoutNodeTable ==
    ASSUME NEW seen \in [Nodes -> Nat], NEW bs, IsTable(bs, seen), MinimalBut(bs, 0), NEW n \in Nodes
    PROVE  IsTable(WithoutNode(bs, n, seen), seen) /\ MinimalBut(WithoutNode(bs, n, seen), 0)
<1>1. PICK i : i = BucketIndex(bs, n)
  OBVIOUS
<1>2. CASE n \notin ToSet(bs[i].nodes)
  BY <1>1, <1>2 DEF WithoutNode
<1>3. CASE n \in ToSet(bs[i].nodes)
  <2>1. i \in 1..Len(bs)
    BY <1>1, MemberIsFound DEF IsIndex
  <2>2. PICK list, S : list = bs[i].nodes /\ S = ToSet(bs[i].nodes)
    OBVIOUS
  <2>3. IsBucket(bs[i], seen)
    BY <2>1 DEF IsTable
  <2>4. Lists(list, S, seen) /\ Len(list) <= K /\ \A m \in S : bs[i].min <= m /\ m < bs[i].max
    BY <2>2, <2>3 DEF IsBucket
  <2>5. PICK nodes : nodes = RemoveNode(list, n)
    OBVIOUS
  <2>6. n \in S
    BY <1>3, <2>2
  <2>7. Lists(nodes, S \ {n}, seen) /\ Len(nodes) = Len(list) - 1
    BY <2>4, <2>5, <2>6, RemoveNodeLists
  <2>8. Len(nodes) \in Nat /\ Len(nodes) <= K
    <3>1. Len(nodes) \in Nat /\ Len(list) \in Nat
      BY <2>4, <2>7, ListsType
    <3> QED  BY <2>4, <2>7, <3>1, KTableAssumption
  <2>9. PICK new : new = [bs EXCEPT ![i].nodes = nodes]
    OBVIOUS
  <2>10. \A m \in S \ {n} : bs[i].min <= m /\ m < bs[i].max
    BY <2>4
  <2>11. \A j \in 1..Len(bs) : j # i => \A m \in ToSet(bs[j].nodes) : seen[m] = seen[m]
    OBVIOUS
  <2>12. IsTable(new, seen) /\ IsChanged(new, bs, i, nodes)
    BY <2>1, <2>7, <2>8, <2>9, <2>10, <2>11, ChangeBucket
  <2>13. MinimalBut(new, i)
    BY <2>1, <2>8, <2>12, ChangedMinimal
  <2>14. i \in 1..Len(new)
    BY <2>1, <2>12 DEF IsChanged
  <2>15. WithoutNode(bs, n, seen) = MergeBucket(new, i, seen)
    BY <1>1, <1>3, <2>2, <2>5, <2>9 DEF WithoutNode
  <2> QED  BY <2>12, <2>13, <2>14, <2>15, MergeChain
<1> QED  BY <1>2, <1>3

\* The first of a list was seen first.
LEMMA HeadIsOldest ==
    ASSUME NEW seen \in [Nodes -> Nat], NEW S, NEW list, Lists(list, S, seen), Len(list) > 0
    PROVE  Head(list) \in S /\ Head(list) \in Nodes /\ \A m \in S : seen[Head(list)] <= seen[m]
<1>1. list \in Seq(Nodes) /\ Len(list) \in Nat /\ \A j \in 1..Len(list) : list[j] \in Nodes /\ seen[list[j]] \in Nat
  BY ListsType
<1>2. Head(list) = list[1] /\ 1 \in 1..Len(list)
  <2>1. list # <<>>
    BY EmptySeq
  <2> QED  BY <1>1, <2>1
<1>3. ASSUME NEW m \in S PROVE seen[list[1]] <= seen[m]
  <2>1. PICK j \in 1..Len(list) : list[j] = m
    BY DEF Lists
  <2>2. CASE j = 1
    BY <1>1, <2>1, <2>2
  <2>3. CASE 1 < j
    BY <1>2, <2>1, <2>3 DEF Lists
  <2> QED  BY <1>1, <2>1, <2>2, <2>3
<1> QED  BY <1>1, <1>2, <1>3 DEF Lists

\* A full bucket with the local node in it can be split, or n is in it: "Hash Table is
\* FULL" is never the answer.
LEMMA NeverFull ==
    ASSUME NEW seen \in [Nodes -> Nat], NEW bs, IsTable(bs, seen), NEW n \in Nodes, ~NeedsSplit(bs, n),
           NEW i, i = BucketIndex(bs, n), n \notin ToSet(bs[i].nodes), Len(bs[i].nodes) >= K
    PROVE  ~(bs[i].min <= Own /\ Own < bs[i].max)
<1> SUFFICES ASSUME bs[i].min <= Own, Own < bs[i].max PROVE FALSE
  OBVIOUS
<1>1. n \in Nat /\ n # Own /\ Own \in Nat /\ Bits \in Nat /\ Bits > 0
  BY NodesAreIds, OwnType, PowerType
<1>2. i \in 1..Len(bs) /\ bs[i].min <= n /\ n < bs[i].max
  BY MemberIsFound DEF IsIndex
<1>3. Len(bs) = Bits
  <2>1. ~(Len(bs) < Bits)
    BY <1>1 DEF NeedsSplit
  <2>2. Len(bs) \in Nat /\ Len(bs) <= Bits
    BY TableType
  <2> QED  BY <1>1, <2>1, <2>2
<1>4. IsBucket(bs[i], seen)
  BY <1>2 DEF IsTable
<1>5. bs[i].min \in Nat /\ bs[i].max \in Nat /\ Len(bs[i].nodes) \in Nat
  BY <1>4, BucketType
<1>6. bs[i].max - bs[i].min = Power[1]
  <2>1. bs[i].max - bs[i].min = Power[Bits - Len(bs) + 1]
    BY <1>2 DEF IsTable
  <2>2. Bits - Len(bs) + 1 = 1
    BY <1>1, <1>3
  <2> QED  BY <2>1, <2>2
<1>7. Power[1] = 2
  <2>1. 1 \in 1..Bits /\ 1 - 1 = 0
    BY <1>1
  <2> QED  BY <2>1, PowerDef
<1>8. 1 \in 1..Len(bs[i].nodes)
  BY <1>5, KTableAssumption
<1>9. PICK m : m = bs[i].nodes[1]
  OBVIOUS
<1>10. m \in ToSet(bs[i].nodes) /\ m \in Nodes
  <2>1. bs[i].nodes \in Seq(Nodes) /\ DOMAIN bs[i].nodes = 1..Len(bs[i].nodes)
    BY <1>4, BucketType, LenProperties
  <2> QED  BY <1>8, <1>9, <2>1, ElementOfSeq DEF ToSet
<1>11. m \in Nat /\ m # Own /\ bs[i].min <= m /\ m < bs[i].max
  BY <1>4, <1>10, NodesAreIds DEF IsBucket
<1>12. m = n
  <2>1. PICK lo, hi : lo = bs[i].min /\ hi = bs[i].max
    OBVIOUS
  <2>2. lo \in Nat /\ hi \in Nat /\ hi = lo + 2 /\ lo <= Own /\ Own < hi
    BY <1>5, <1>6, <1>7, <2>1
  <2>3. lo <= n /\ n < hi /\ lo <= m /\ m < hi
    BY <1>2, <1>11, <2>1
  <2> QED  BY <1>1, <1>11, <2>2, <2>3
<1> QED  BY <1>10, <1>12

-----------------------------------------------------------------------------
(* Insertions. *)

\* The answers that are no nodes can be told from each other and from nodes.
LEMMA AnswersDiffer ==
    /\ True # False /\ True # Full /\ False # Full
    /\ True \notin Nodes /\ False \notin Nodes /\ Full \notin Nodes
<1>1. Nodes \subseteq Ids /\ {True, False, Full} \cap Ids = {} /\ Cardinality({True, False, Full}) = 3
  BY KTableAssumption
<1>2. True # False /\ True # Full /\ False # Full
  <2>1. ASSUME NEW a, NEW b, {True, False, Full} = {a, b} PROVE FALSE
    <3>1. IsFiniteSet({b}) /\ Cardinality({b}) = 1
      BY FS_Singleton
    <3>2. {a, b} = {b} \cup {a}
      OBVIOUS
    <3>3. Cardinality({a, b}) <= 2
      <4>1. CASE a \in {b}
        <5>1. {a, b} = {b}
          BY <4>1
        <5> QED  BY <3>1, <5>1
      <4>2. CASE a \notin {b}
        <5>1. Cardinality({b} \cup {a}) = Cardinality({b}) + 1
          BY <3>1, <4>2, FS_AddElement
        <5> QED  BY <3>1, <3>2, <5>1
      <4> QED  BY <4>1, <4>2
    <3>4. Cardinality({a, b}) = 3
      BY <1>1, <2>1
    <3> QED  BY <3>3, <3>4
  <2>2. True # False
    <3> SUFFICES ASSUME True = False PROVE FALSE
      OBVIOUS
    <3>1. {True, False, Full} = {True, Full}
      OBVIOUS
    <3> QED  BY <2>1, <3>1
  <2>3. True # Full
    <3> SUFFICES ASSUME True = Full PROVE FALSE
      OBVIOUS
    <3>1. {True, False, Full} = {True, False}
      OBVIOUS
    <3> QED  BY <2>1, <3>1
  <2>4. False # Full
    <3> SUFFICES ASSUME False = Full PROVE FALSE
      OBVIOUS
    <3>1. {True, False, Full} = {True, False}
      OBVIOUS
    <3> QED  BY <2>1, <3>1
  <2> QED  BY <2>2, <2>3, <2>4
<1> QED  BY <1>1, <1>2

\* What a caller may conclude from an answer about node n.
AnswerIsTrue(bs, seen, n, contacted, returned) ==
    LET nodes == bs[BucketIndex(bs, n)].nodes
    IN  \/ returned = True /\ n \in Members(bs)
        \/ returned = False /\ ~contacted /\ n \notin Members(bs) /\ Len(nodes) < K
        \/ /\ returned \in Nodes /\ n \notin Members(bs) /\ Len(nodes) = K
           /\ returned \in ToSet(nodes)
           /\ \A m \in ToSet(nodes) : seen[returned] <= seen[m]

\* The two tables agree on when all nodes but n were seen.
AgreeBut(seen, other, n) == \A m \in Nodes : m # n => seen[m] = other[m]

\* What the splits leave for the insertion itself.
IsReady(table, bs, st, before, n) ==
    /\ IsTable(table, st) /\ MinimalBut(table, 0) /\ ~NeedsSplit(table, n)
    /\ n \notin ToSet(table[BucketIndex(table, n)].nodes) => IsTable(table, before)
    /\ ~NeedsSplit(bs, n) => table = bs

\* A table holds remote nodes.
LEMMA MembersAreNodes ==
    ASSUME NEW seen, NEW bs, IsTable(bs, seen), NEW n \in Members(bs)
    PROVE  n \in Nodes
<1>1. PICK i \in 1..Len(bs) : n \in ToSet(bs[i].nodes)
  BY TableType DEF Members
<1>2. bs[i].nodes \in Seq(Nodes)
  BY BucketType DEF IsTable
<1> QED  BY <1>1, <1>2 DEF ToSet

\* Before the insertion itself: a node that is in the table needs no split, and one that
\* is not has no say in the order of the others, whenever it was seen.
LEMMA SplitsAreReady ==
    ASSUME NEW before \in [Nodes -> Nat], NEW bs, IsTable(bs, before), MinimalBut(bs, 0),
           NEW n \in Nodes, NEW seen \in [Nodes -> Nat], AgreeBut(before, seen, n)
    PROVE  \E st \in [Nodes -> Nat] : /\ AgreeBut(st, seen, n)
                                      /\ IsReady(SplitFor(bs, n, seen), bs, st, before, n)
<1>1. PICK table : table = SplitFor(bs, n, seen)
  OBVIOUS
<1>2. ~NeedsSplit(bs, n) => table = bs
  BY <1>1, NoSplit
<1>3. CASE n \in Members(bs)
  <2>1. n \in ToSet(bs[BucketIndex(bs, n)].nodes)
    BY <1>3, MemberIsFound
  <2>2. ~NeedsSplit(bs, n)
    BY <2>1 DEF NeedsSplit
  <2>3. IsReady(table, bs, before, before, n)
    BY <1>2, <2>2 DEF IsReady
  <2> QED  BY <1>1, <2>3
<1>4. CASE n \notin Members(bs)
  <2>1. \A m \in Members(bs) : seen[m] = before[m]
    BY <1>4, MembersAreNodes DEF AgreeBut
  <2>2. IsTable(bs, seen)
    BY <2>1, TableSeen
  <2>3. IsTable(table, seen) /\ MinimalBut(table, 0) /\ ~NeedsSplit(table, n)
    BY <1>1, <2>2, SplitChain
  <2>4. ASSUME n \notin ToSet(table[BucketIndex(table, n)].nodes) PROVE IsTable(table, before)
    <3>1. n \notin Members(table)
      BY <2>3, <2>4, MemberIsFound
    <3>2. \A m \in Members(table) : before[m] = seen[m]
      BY <2>3, <3>1, MembersAreNodes DEF AgreeBut
    <3> QED  BY <2>3, <3>2, TableSeen
  <2>5. IsReady(table, bs, seen, before, n)
    BY <1>2, <2>3, <2>4 DEF IsReady
  <2>6. AgreeBut(seen, seen, n)
    BY DEF AgreeBut
  <2> QED  BY <1>1, <2>5, <2>6
<1> QED  BY <1>3, <1>4

\* A bucket with node n in its range gets the node, or gets it in another place.
LEMMA RenewedTable ==
    ASSUME NEW st \in [Nodes -> Nat], NEW table, IsTable(table, st), MinimalBut(table, 0),
           NEW n \in Nodes, NEW seen \in [Nodes -> Nat], AgreeBut(st, seen, n),
           NEW i, i = BucketIndex(table, n),
           NEW nodes, Lists(nodes, ToSet(table[i].nodes) \cup {n}, seen),
           Len(nodes) <= K, Len(nodes) >= Len(table[i].nodes),
           NEW new, new = [table EXCEPT ![i].nodes = nodes]
    PROVE  IsTable(new, seen) /\ MinimalBut(new, 0) /\ n \in Members(new)
<1>1. IsIndex(table, n, i) /\ \A j \in 1..Len(table) : n \in ToSet(table[j].nodes) => j = i
  BY MemberIsFound
<1>2. i \in 1..Len(table) /\ table[i].min <= n /\ n < table[i].max
  BY <1>1 DEF IsIndex
<1>3. PICK S : S = ToSet(table[i].nodes) \cup {n}
  OBVIOUS
<1>4. \A j \in 1..Len(table) : IsBucket(table[j], st)
  BY DEF IsTable
<1>5. \A m \in S : table[i].min <= m /\ m < table[i].max
  BY <1>2, <1>3, <1>4 DEF IsBucket
<1>6. ASSUME NEW j \in 1..Len(table), j # i, NEW m \in ToSet(table[j].nodes) PROVE seen[m] = st[m]
  <2>1. m # n
    BY <1>1, <1>6
  <2>2. table[j].nodes \in Seq(Nodes)
    BY <1>4, BucketType
  <2>3. m \in Nodes
    BY <2>2, <1>6 DEF ToSet
  <2> QED  BY <2>1, <2>3 DEF AgreeBut
<1>7. Lists(nodes, S, seen)
  BY <1>3
<1>8. \A j \in 1..Len(table) : j # i => \A m \in ToSet(table[j].nodes) : seen[m] = st[m]
  BY <1>6
<1>9. IsTable(new, seen) /\ IsChanged(new, table, i, nodes)
  BY <1>2, <1>5, <1>7, <1>8, ChangeBucket
<1>10. Len(nodes) \in Nat
  BY <1>7, ListsType
<1>11. MinimalBut(new, 0)
  BY <1>2, <1>9, <1>10, ChangedMinimal
<1>12. new[i].nodes = nodes /\ Len(new) = Len(table)
  BY <1>9 DEF IsChanged
<1>13. n \in ToSet(new[i].nodes)
  BY <1>3, <1>7, <1>12, ListsMeansSet
<1>14. i \in DOMAIN new
  BY <1>2, <1>9, <1>12, TableType
<1>15. n \in Members(new)
  BY <1>13, <1>14 DEF Members
<1> QED  BY <1>9, <1>11, <1>15

\* What an insertion has to do.
IsInsertion(new, before, seen, n, contacted) ==
    /\ new.renewed \in BOOLEAN
    /\ new.renewed => IsTable(new.buckets, seen) /\ AnswerIsTrue(new.buckets, seen, n, contacted, new.returned)
    /\ ~new.renewed => IsTable(new.buckets, before) /\ AnswerIsTrue(new.buckets, before, n, contacted, new.returned)
    /\ MinimalBut(new.buckets, 0)

\* insertNode leaves a minimal table and answers truly.
LEMMA InsertedTable ==
    ASSUME NEW before \in [Nodes -> Nat], NEW bs, IsTable(bs, before), MinimalBut(bs, 0),
           NEW n \in Nodes, NEW seen \in [Nodes -> Nat], AgreeBut(before, seen, n), NEW contacted \in BOOLEAN
    PROVE  IsInsertion(Inserted(bs, n, contacted, seen), before, seen, n, contacted)
<1>1. PICK table : table = SplitFor(bs, n, seen)
  OBVIOUS
<1>2. PICK st \in [Nodes -> Nat] : AgreeBut(st, seen, n) /\ IsReady(table, bs, st, before, n)
  BY <1>1, SplitsAreReady
<1>3. PICK i : i = BucketIndex(table, n)
  OBVIOUS
<1>4. PICK nodes : nodes = table[i].nodes
  OBVIOUS
<1>5. PICK good \in BOOLEAN : good <=> (contacted \/ NeedsSplit(bs, n))
  OBVIOUS
<1>6. PICK new : new = Inserted(bs, n, contacted, seen)
  OBVIOUS
<1>7. IsTable(table, st) /\ MinimalBut(table, 0) /\ ~NeedsSplit(table, n)
  BY <1>2 DEF IsReady
<1>8. IsIndex(table, n, i) /\ (n \in Members(table) <=> n \in ToSet(nodes))
  BY <1>3, <1>4, <1>7, MemberIsFound
<1>9. i \in 1..Len(table)
  BY <1>8 DEF IsIndex
<1>10. IsBucket(table[i], st)
  BY <1>7, <1>9 DEF IsTable
<1>11. Lists(nodes, ToSet(nodes), st) /\ Len(nodes) <= K
  BY <1>4, <1>10 DEF IsBucket
<1>12. Len(nodes) \in Nat /\ ToSet(nodes) \subseteq Nodes
  BY <1>11, ListsType
<1>13. table[i] = [table[i] EXCEPT !.nodes = nodes]
  <2>1. table[i] = [min |-> table[i].min, max |-> table[i].max, nodes |-> table[i].nodes]
    BY <1>10, BucketType
  <2>2. PICK b : b = table[i]
    OBVIOUS
  <2>3. b = [min |-> b.min, max |-> b.max, nodes |-> nodes]
    BY <2>1, <2>2, <1>4
  <2>4. b = [b EXCEPT !.nodes = nodes]
    BY <2>3
  <2> QED  BY <2>2, <2>4
<1>14. table = [table EXCEPT ![i].nodes = nodes]
  <2>1. table \in [1..Len(table) -> Bucket]
    BY <1>7, TableType
  <2> QED  BY <1>9, <1>13, <2>1
<1>15. n # Own
  BY NodesAreIds
<1>16. ASSUME ~good PROVE table = bs
  BY <1>2, <1>5, <1>16 DEF IsReady
<1>17. CASE n \in ToSet(nodes) /\ good
  <2>1. PICK list : list = AddNode(RemoveNode(nodes, n), n, seen)
    OBVIOUS
  <2>2. new = [buckets |-> [table EXCEPT ![i].nodes = list], renewed |-> TRUE, returned |-> True]
    BY <1>1, <1>3, <1>4, <1>5, <1>6, <1>15, <1>17, <2>1 DEF Inserted
  <2>3. PICK rest : rest = RemoveNode(nodes, n)
    OBVIOUS
  <2>4. Lists(rest, ToSet(nodes) \ {n}, st) /\ Len(rest) = Len(nodes) - 1
    BY <1>11, <1>17, <2>3, RemoveNodeLists
  <2>5. \A m \in ToSet(nodes) \ {n} : seen[m] = st[m]
    BY <1>2, <1>12 DEF AgreeBut
  <2>6. Lists(rest, ToSet(nodes) \ {n}, seen)
    BY <2>4, <2>5, ListsSeen
  <2>7. PICK S : S = ToSet(nodes) \ {n}
    OBVIOUS
  <2>8. Lists(rest, S, seen) /\ n \notin S
    BY <2>6, <2>7
  <2>9. Lists(list, S \cup {n}, seen) /\ Len(list) = Len(rest) + 1
    BY <2>1, <2>3, <2>8, AddNodeLists
  <2>10. S \cup {n} = ToSet(table[i].nodes) \cup {n}
    BY <1>4, <2>7
  <2>11. Len(list) = Len(nodes)
    BY <1>12, <2>4, <2>9
  <2>12. Lists(list, ToSet(table[i].nodes) \cup {n}, seen)
    BY <2>9, <2>10
  <2>13. Len(list) <= K /\ Len(list) >= Len(table[i].nodes)
    BY <1>4, <1>11, <1>12, <2>11, KTableAssumption
  <2>14. PICK changed : changed = [table EXCEPT ![i].nodes = list]
    OBVIOUS
  <2>15. IsTable(changed, seen) /\ MinimalBut(changed, 0) /\ n \in Members(changed)
    BY <1>2, <1>3, <1>7, <2>12, <2>13, <2>14, RenewedTable
  <2>16. new.buckets = changed /\ new.renewed = TRUE /\ new.returned = True
    BY <2>2, <2>14
  <2> QED  BY <1>6, <2>15, <2>16 DEF IsInsertion, AnswerIsTrue
<1>18. CASE n \in ToSet(nodes) /\ ~good
  <2>1. new = [buckets |-> [table EXCEPT ![i].nodes = nodes], renewed |-> FALSE, returned |-> True]
    BY <1>1, <1>3, <1>4, <1>5, <1>6, <1>15, <1>18 DEF Inserted
  <2>2. new.buckets = bs /\ new.renewed = FALSE /\ new.returned = True
    BY <1>14, <1>16, <1>18, <2>1
  <2>3. n \in Members(bs)
    BY <1>8, <1>16, <1>18
  <2> QED  BY <1>6, <2>2, <2>3 DEF IsInsertion, AnswerIsTrue
<1>19. CASE n \notin ToSet(nodes) /\ Len(nodes) < K /\ good
  <2>1. PICK list : list = AddNode(nodes, n, seen)
    OBVIOUS
  <2>2. new = [buckets |-> [table EXCEPT ![i].nodes = list], renewed |-> TRUE, returned |-> True]
    BY <1>1, <1>3, <1>4, <1>5, <1>6, <1>15, <1>19, <2>1 DEF Inserted
  <2>3. \A m \in ToSet(nodes) : seen[m] = st[m]
    BY <1>2, <1>12, <1>19 DEF AgreeBut
  <2>4. Lists(nodes, ToSet(nodes), seen)
    BY <1>11, <2>3, ListsSeen
  <2>5. PICK S : S = ToSet(nodes)
    OBVIOUS
  <2>6. Lists(nodes, S, seen) /\ n \notin S
    BY <1>19, <2>4, <2>5
  <2>7. Lists(list, S \cup {n}, seen) /\ Len(list) = Len(nodes) + 1
    BY <2>1, <2>6, AddNodeLists
  <2>8. Lists(list, ToSet(table[i].nodes) \cup {n}, seen)
    BY <1>4, <2>5, <2>7
  <2>9. Len(list) <= K /\ Len(list) >= Len(table[i].nodes)
    BY <1>4, <1>12, <1>19, <2>7, KTableAssumption
  <2>10. PICK changed : changed = [table EXCEPT ![i].nodes = list]
    OBVIOUS
  <2>11. IsTable(changed, seen) /\ MinimalBut(changed, 0) /\ n \in Members(changed)
    BY <1>2, <1>3, <1>7, <2>8, <2>9, <2>10, RenewedTable
  <2>12. new.buckets = changed /\ new.renewed = TRUE /\ new.returned = True
    BY <2>2, <2>10
  <2> QED  BY <1>6, <2>11, <2>12 DEF IsInsertion, AnswerIsTrue
<1>20. CASE n \notin ToSet(nodes) /\ Len(nodes) < K /\ ~good
  <2>1. new = [buckets |-> [table EXCEPT ![i].nodes = nodes], renewed |-> FALSE, returned |-> False]
    BY <1>1, <1>3, <1>4, <1>5, <1>6, <1>15, <1>20 DEF Inserted
  <2>2. new.buckets = bs /\ new.renewed = FALSE /\ new.returned = False
    BY <1>14, <1>16, <1>20, <2>1
  <2>3. n \notin Members(bs) /\ ~contacted /\ Len(bs[BucketIndex(bs, n)].nodes) < K
    BY <1>3, <1>4, <1>5, <1>8, <1>16, <1>20
  <2> QED  BY <1>6, <2>2, <2>3 DEF IsInsertion, AnswerIsTrue
<1>21. CASE n \notin ToSet(nodes) /\ ~(Len(nodes) < K)
  <2>1. Len(nodes) = K /\ Len(nodes) >= K /\ Len(nodes) > 0
    BY <1>11, <1>12, <1>21, KTableAssumption
  <2>2. ~(table[i].min <= Own /\ Own < table[i].max)
    BY <1>3, <1>4, <1>7, <1>21, <2>1, NeverFull
  <2>3. new = [buckets |-> [table EXCEPT ![i].nodes = nodes], renewed |-> FALSE, returned |-> Head(nodes)]
    BY <1>1, <1>3, <1>4, <1>6, <1>15, <1>21, <2>2 DEF Inserted
  <2>4. new.buckets = table /\ new.renewed = FALSE /\ new.returned = Head(nodes)
    BY <1>14, <2>3
  <2>5. IsTable(table, before)
    BY <1>2, <1>3, <1>4, <1>21 DEF IsReady
  <2>6. IsBucket(table[i], before)
    BY <1>9, <2>5 DEF IsTable
  <2>7. Lists(nodes, ToSet(nodes), before)
    BY <1>4, <2>6 DEF IsBucket
  <2>8. /\ Head(nodes) \in ToSet(nodes) /\ Head(nodes) \in Nodes
        /\ \A m \in ToSet(nodes) : before[Head(nodes)] <= before[m]
    BY <2>1, <2>7, HeadIsOldest
  <2>9. n \notin Members(table)
    BY <1>8, <1>21
  <2>10. AnswerIsTrue(table, before, n, contacted, Head(nodes))
    BY <1>3, <1>4, <2>1, <2>8, <2>9 DEF AnswerIsTrue
  <2> QED  BY <1>6, <1>7, <2>4, <2>5, <2>10 DEF IsInsertion
<1> QED  BY <1>17, <1>18, <1>19, <1>20, <1>21

-----------------------------------------------------------------------------
(* Restarts. *)

\* dumpRoutingTable saves nodes.
LEMMA DumpedNodes ==
    ASSUME NEW seen, NEW bs, IsTable(bs, seen)
    PROVE  DumpRoutingTable(bs) \in Seq(Nodes)
<1> DEFINE N == Len(bs)
           Step(i, prev) == prev \o bs[i].nodes
           dumped[i \in 0..N] == IF i = 0 THEN <<>> ELSE Step(i, dumped[i - 1])
           A == {m \in 0..N : \E f : f = [i \in 0..m |-> IF i = 0 THEN <<>> ELSE Step(i, f[i - 1])]}
<1>1. N \in Nat
  BY TableType
<1>2. ASSUME NEW i \in 1..N, NEW prev \in Seq(Nodes) PROVE Step(i, prev) \in Seq(Nodes)
  <2>1. bs[i].nodes \in Seq(Nodes)
    BY BucketType DEF IsTable
  <2> QED  BY <2>1, ConcatProperties
<1> HIDE DEF Step
<1>3. 0 \in A
  <2> DEFINE f == [i \in 0..0 |-> <<>>]
  <2>1. f = [i \in 0..0 |-> IF i = 0 THEN <<>> ELSE Step(i, f[i - 1])]
    OBVIOUS
  <2>2. 0 \in 0..N
    BY <1>1
  <2> HIDE DEF f
  <2> QED  BY <2>1, <2>2
<1>4. ASSUME NEW m \in 1..N, m - 1 \in A PROVE m \in A
  <2>1. PICK f : f = [i \in 0..(m - 1) |-> IF i = 0 THEN <<>> ELSE Step(i, f[i - 1])]
    BY <1>4
  <2> DEFINE g == [i \in 0..m |-> IF i = m THEN Step(m, f[m - 1]) ELSE f[i]]
  <2>2. ASSUME NEW i \in 0..m PROVE g[i] = IF i = 0 THEN <<>> ELSE Step(i, g[i - 1])
    <3>1. CASE i = m
      BY <3>1
    <3>2. CASE i # m
      BY <2>1, <3>2
    <3> QED  BY <3>1, <3>2
  <2>3. g = [i \in 0..m |-> IF i = 0 THEN <<>> ELSE Step(i, g[i - 1])]
    BY <2>2
  <2>4. m \in 0..N
    BY <1>1
  <2> HIDE DEF g
  <2> QED  BY <2>3, <2>4
<1>5. N \in A
  <2> HIDE DEF A, N, dumped
  <2>1. \A m \in 0..N : m \in A
    BY <1>1, <1>3, <1>4, UpTo
  <2> QED  BY <1>1, <2>1
<1>6. dumped = [i \in 0..N |-> IF i = 0 THEN <<>> ELSE Step(i, dumped[i - 1])]
  BY <1>5
<1>7. DumpRoutingTable(bs) = dumped[N]
  BY DEF DumpRoutingTable, Step
<1> HIDE DEF dumped, A
<1> DEFINE Good == {i \in 0..N : dumped[i] \in Seq(Nodes)}
<1>8. 0 \in Good
  <2>1. <<>> \in Seq(Nodes)
    OBVIOUS
  <2> QED  BY <1>1, <1>6, <2>1
<1>9. ASSUME NEW i \in 1..N, i - 1 \in Good PROVE i \in Good
  <2>1. i \in 0..N /\ i # 0
    BY <1>1
  <2>2. dumped[i] = Step(i, dumped[i - 1])
    BY <1>6, <2>1
  <2> QED  BY <1>2, <1>9, <2>1, <2>2
<1>10. N \in Good
  <2> HIDE DEF Good, N
  <2> QED  BY <1>1, <1>8, <1>9, UpTo
<1> QED  BY <1>7, <1>10

\* An empty table takes no node that has not been contacted.
LEMMA UncontactedIsNotAdded ==
    ASSUME NEW n \in Nodes, NEW seen
    PROVE  Inserted(EmptyTable, n, FALSE, seen).buckets = EmptyTable
<1>1. PICK bs : bs = EmptyTable
  OBVIOUS
<1>2. PICK b : b = [min |-> 0, max |-> Power[Bits], nodes |-> <<>>]
  OBVIOUS
<1>3. bs = <<b>>
  BY <1>1, <1>2 DEF EmptyTable
<1>4. IsTable(bs, seen)
  BY <1>1, NewTable
<1>5. PICK i : i = BucketIndex(bs, n)
  OBVIOUS
<1>6. i \in 1..Len(bs)
  BY <1>4, <1>5, MemberIsFound DEF IsIndex
<1>7. i = 1 /\ bs[i] = b /\ b.nodes = <<>>
  BY <1>2, <1>3, <1>6
<1>8. Len(<<>>) < K /\ n \notin ToSet(<<>>)
  <2>1. K \in Nat /\ K > 0
    BY KTableAssumption
  <2> QED  BY <2>1 DEF ToSet
<1>9. ~NeedsSplit(bs, n)
  <2>1. Len(<<>>) < K /\ K \in Nat /\ Len(<<>>) \in Nat
    BY <1>8, KTableAssumption
  <2>2. ~(Len(<<>>) >= K)
    BY <2>1
  <2> QED  BY <1>5, <1>7, <2>2 DEF NeedsSplit
<1>10. SplitFor(bs, n, seen) = bs
  BY <1>9, NoSplit
<1>11. n # Own
  BY NodesAreIds
<1>12. Inserted(bs, n, FALSE, seen).buckets = [bs EXCEPT ![i].nodes = b.nodes]
  BY <1>5, <1>7, <1>8, <1>9, <1>10, <1>11 DEF Inserted
<1>13. [bs EXCEPT ![i].nodes = b.nodes] = bs
  <2>1. b = [b EXCEPT !.nodes = b.nodes]
    BY <1>2
  <2>2. bs = [bs EXCEPT ![1] = b]
    BY <1>3
  <2> QED  BY <1>7, <2>1, <2>2
<1> QED  BY <1>1, <1>12, <1>13

\* A restart loses the routing table: the saved nodes are inserted as nodes that have not
\* been contacted, so that none of them is added (khashmir.py, _loadRoutingTable).
THEOREM RestartForgets ==
    ASSUME NEW saved \in Seq(Nodes)
    PROVE  LoadRoutingTable(saved) = EmptyTable
<1> DEFINE zeros == [m \in Nodes |-> 0]
           N == Len(saved)
           Step(j, prev) == Inserted(prev, saved[j], FALSE, zeros).buckets
           table[j \in 0..N] == IF j = 0 THEN EmptyTable ELSE Step(j, table[j - 1])
           f == [j \in 0..N |-> EmptyTable]
<1>1. N \in Nat
  OBVIOUS
<1>2. ASSUME NEW j \in 1..N PROVE Step(j, EmptyTable) = EmptyTable
  <2>1. saved[j] \in Nodes
    BY <1>1, ElementOfSeq
  <2> QED  BY <2>1, UncontactedIsNotAdded
<1> HIDE DEF Step
<1>3. f = [j \in 0..N |-> IF j = 0 THEN EmptyTable ELSE Step(j, f[j - 1])]
  <2>1. ASSUME NEW j \in 0..N PROVE EmptyTable = IF j = 0 THEN EmptyTable ELSE Step(j, f[j - 1])
    <3>1. CASE j # 0
      <4>1. j \in 1..N /\ j - 1 \in 0..N
        BY <1>1, <3>1
      <4>2. f[j - 1] = EmptyTable
        BY <4>1
      <4> QED  BY <1>2, <3>1, <4>1, <4>2
    <3> QED  BY <3>1
  <2> QED  BY <2>1
<1> HIDE DEF f
<1>4. table = [j \in 0..N |-> IF j = 0 THEN EmptyTable ELSE Step(j, table[j - 1])]
  BY <1>3
<1>5. LoadRoutingTable(saved) = table[N]
  BY DEF LoadRoutingTable, Step
<1> HIDE DEF table
<1> DEFINE Good == {j \in 0..N : table[j] = EmptyTable}
<1>6. 0 \in Good
  BY <1>1, <1>4
<1>7. ASSUME NEW j \in 1..N, j - 1 \in Good PROVE j \in Good
  <2>1. j \in 0..N /\ j # 0
    BY <1>1
  <2> QED  BY <1>2, <1>4, <1>7, <2>1
<1>8. N \in Good
  <2> HIDE DEF Good, N, zeros
  <2>1. \A j \in 0..N : j \in Good
    BY <1>1, <1>6, <1>7, UpTo
  <2> QED  BY <1>1, <2>1
<1> QED  BY <1>5, <1>8

-----------------------------------------------------------------------------
(* The invariant. *)

TableInv ==
    /\ TableTypeOK
    /\ IsTable(buckets, lastSeen)
    /\ MinimalBut(buckets, 0)
    /\ \A n \in Nodes : lastSeen[n] <= now

\* justSeenNode: the node seen last is the last of its bucket.
LEMMA JustSeenTable ==
    ASSUME NEW before \in [Nodes -> Nat], NEW bs, IsTable(bs, before), MinimalBut(bs, 0),
           NEW n \in Nodes, NEW seen \in [Nodes -> Nat], AgreeBut(before, seen, n),
           \A m \in Nodes : seen[m] <= seen[n],
           NEW i, i = BucketIndex(bs, n), n \in ToSet(bs[i].nodes),
           NEW list, list = Append(RemoveNode(bs[i].nodes, n), n),
           NEW new, new = [bs EXCEPT ![i].nodes = list]
    PROVE  IsTable(new, seen) /\ MinimalBut(new, 0)
<1>1. i \in 1..Len(bs)
  BY MemberIsFound DEF IsIndex
<1>2. PICK nodes, all : nodes = bs[i].nodes /\ all = ToSet(bs[i].nodes)
  OBVIOUS
<1>3. IsBucket(bs[i], before)
  BY <1>1 DEF IsTable
<1>4. Lists(nodes, all, before) /\ Len(nodes) <= K /\ n \in all
  BY <1>2, <1>3 DEF IsBucket
<1>5. all \subseteq Nodes /\ Len(nodes) \in Nat
  BY <1>4, ListsType
<1>6. PICK rest : rest = RemoveNode(nodes, n)
  OBVIOUS
<1>7. Lists(rest, all \ {n}, before) /\ Len(rest) = Len(nodes) - 1
  BY <1>4, <1>6, RemoveNodeLists
<1>8. PICK S : S = all \ {n}
  OBVIOUS
<1>9. \A m \in S : seen[m] = before[m]
  BY <1>5, <1>8 DEF AgreeBut
<1>10. \A m \in S : seen[m] <= seen[n]
  BY <1>5, <1>8
<1>11. Lists(rest, S, seen) /\ n \notin S
  BY <1>7, <1>8, <1>9, ListsSeen
<1>12. list = Append(rest, n)
  BY <1>2, <1>6
<1>13. Lists(list, S \cup {n}, seen) /\ Len(list) = Len(rest) + 1
  <2>1. /\ Lists(Append(rest, n), S \cup {n}, seen)
        /\ Len(Append(rest, n)) = Len(rest) + 1
    BY <1>10, <1>11, AppendLists
  <2> QED  BY <1>12, <2>1
<1>14. S \cup {n} = ToSet(bs[i].nodes) \cup {n}
  BY <1>2, <1>8
<1>15. Lists(list, ToSet(bs[i].nodes) \cup {n}, seen)
  BY <1>13, <1>14
<1>16. Len(list) = Len(nodes)
  BY <1>5, <1>7, <1>13
<1>17. Len(list) <= K /\ Len(list) >= Len(bs[i].nodes)
  BY <1>2, <1>4, <1>5, <1>16, KTableAssumption
<1> QED  BY <1>15, <1>17, RenewedTable

\* The new table satisfies the invariant.
LEMMA TableInvInit == TableInit => TableInv
<1> SUFFICES ASSUME TableInit PROVE TableInv
  OBVIOUS
<1>1. IsTable(buckets, lastSeen) /\ MinimalBut(buckets, 0)
  BY NewTable DEF TableInit
<1>2. buckets \in Seq(Bucket)
  BY <1>1, TableType
<1>3. MAX_FAILURES \in Nat /\ MAX_FAILURES > 0
  BY KTableAssumption
<1>4. /\ lastSeen \in [Nodes -> Nat] /\ now \in Nat
      /\ fails \in [Nodes -> 0 .. MAX_FAILURES - 1]
      /\ \A n \in Nodes : lastSeen[n] <= now
  BY <1>3 DEF TableInit
<1>5. answer.node = Own /\ answer.contacted = TRUE /\ answer.returned = True
  BY DEF TableInit, NoAnswer
<1> QED  BY <1>1, <1>2, <1>4, <1>5 DEF TableInv, TableTypeOK

\* insertNode keeps the invariant and answers truly.
LEMMA InsertNodeStep ==
    ASSUME TableInv, NEW n \in Nodes, NEW contacted \in BOOLEAN, InsertNode(n, contacted)
    PROVE  /\ TableInv'
           /\ answer'.node = n
           /\ AnswerIsTrue(buckets', lastSeen', n, answer'.contacted, answer'.returned)
<1>1. PICK seen : seen = [lastSeen EXCEPT ![n] = now]
  OBVIOUS
<1>2. PICK new : new = Inserted(buckets, n, contacted, seen)
  OBVIOUS
<1>3. /\ buckets' = new.buckets
      /\ lastSeen' = IF new.renewed THEN seen ELSE lastSeen
      /\ fails' = IF new.renewed THEN [fails EXCEPT ![n] = 0] ELSE fails
      /\ now' = now + 1
      /\ answer' = [node |-> n, contacted |-> contacted, returned |-> new.returned]
  BY <1>1, <1>2 DEF InsertNode
<1>4. /\ lastSeen \in [Nodes -> Nat] /\ now \in Nat /\ fails \in [Nodes -> 0 .. MAX_FAILURES - 1]
      /\ \A m \in Nodes : lastSeen[m] <= now
  BY DEF TableInv, TableTypeOK
<1>5. seen \in [Nodes -> Nat] /\ AgreeBut(lastSeen, seen, n) /\ \A m \in Nodes : seen[m] <= now
  BY <1>1, <1>4 DEF AgreeBut
<1>6. IsTable(buckets, lastSeen) /\ MinimalBut(buckets, 0)
  BY DEF TableInv
<1>7. IsInsertion(new, lastSeen, seen, n, contacted)
  BY <1>2, <1>4, <1>5, <1>6, InsertedTable
<1>8. IsTable(buckets', lastSeen') /\ MinimalBut(buckets', 0)
  <2>1. CASE new.renewed
    BY <1>3, <1>7, <2>1 DEF IsInsertion
  <2>2. CASE ~new.renewed
    BY <1>3, <1>7, <2>2 DEF IsInsertion
  <2> QED  BY <2>1, <2>2
<1>9. AnswerIsTrue(buckets', lastSeen', n, contacted, new.returned)
  <2>1. CASE new.renewed
    BY <1>3, <1>7, <2>1 DEF IsInsertion
  <2>2. CASE ~new.renewed
    BY <1>3, <1>7, <2>2 DEF IsInsertion
  <2> QED  BY <2>1, <2>2
<1>10. answer'.node = n /\ answer'.contacted = contacted /\ answer'.returned = new.returned
  BY <1>3
<1>11. new.returned \in Nodes \cup {True, False, Full}
  BY <1>9 DEF AnswerIsTrue
<1>12. lastSeen' \in [Nodes -> Nat] /\ now' \in Nat /\ \A m \in Nodes : lastSeen'[m] <= now'
  <2>1. PICK after : after = lastSeen'
    OBVIOUS
  <2>2. after = seen \/ after = lastSeen
    BY <1>3, <2>1
  <2>3. after \in [Nodes -> Nat] /\ \A m \in Nodes : after[m] <= now
    BY <1>4, <1>5, <2>2
  <2>4. \A m \in Nodes : after[m] <= now + 1
    BY <1>4, <2>3
  <2> QED  BY <1>3, <1>4, <2>1, <2>3, <2>4
<1>13. fails' \in [Nodes -> 0 .. MAX_FAILURES - 1]
  <2>1. 0 \in 0 .. MAX_FAILURES - 1
    BY KTableAssumption
  <2> QED  BY <1>3, <1>4, <2>1
<1>14. buckets' \in Seq(Bucket)
  BY <1>8, TableType
<1>15. TableInv'
  BY <1>8, <1>10, <1>11, <1>12, <1>13, <1>14 DEF TableInv, TableTypeOK
<1> QED  BY <1>9, <1>10, <1>15

\* justSeenNode keeps the invariant.
LEMMA JustSeenNodeStep ==
    ASSUME TableInv, NEW n \in Nodes, JustSeenNode(n)
    PROVE  TableInv' /\ answer' = NoAnswer
<1>1. PICK i : i = BucketIndex(buckets, n)
  OBVIOUS
<1>2. /\ n \in ToSet(buckets[i].nodes)
      /\ buckets' = [buckets EXCEPT ![i].nodes = Append(RemoveNode(@, n), n)]
      /\ lastSeen' = [lastSeen EXCEPT ![n] = now]
      /\ fails' = [fails EXCEPT ![n] = 0]
      /\ now' = now + 1
      /\ answer' = NoAnswer
  BY <1>1 DEF JustSeenNode
<1>3. /\ lastSeen \in [Nodes -> Nat] /\ now \in Nat /\ fails \in [Nodes -> 0 .. MAX_FAILURES - 1]
      /\ \A m \in Nodes : lastSeen[m] <= now
  BY DEF TableInv, TableTypeOK
<1>4. IsTable(buckets, lastSeen) /\ MinimalBut(buckets, 0)
  BY DEF TableInv
<1>14. PICK list : list = Append(RemoveNode(buckets[i].nodes, n), n)
  OBVIOUS
<1>5. PICK new : new = [buckets EXCEPT ![i].nodes = list]
  OBVIOUS
<1>6. PICK seen : seen = [lastSeen EXCEPT ![n] = now]
  OBVIOUS
<1>15. seen \in [Nodes -> Nat] /\ AgreeBut(lastSeen, seen, n) /\ \A m \in Nodes : seen[m] <= seen[n]
  BY <1>3, <1>6 DEF AgreeBut
<1>7. IsTable(new, seen) /\ MinimalBut(new, 0)
  BY <1>1, <1>2, <1>3, <1>4, <1>5, <1>14, <1>15, JustSeenTable
<1>8. seen \in [Nodes -> Nat] /\ now + 1 \in Nat /\ \A m \in Nodes : seen[m] <= now + 1
  BY <1>3, <1>6
<1>9. new \in Seq(Bucket)
  BY <1>7, TableType
<1>10. 0 \in 0 .. MAX_FAILURES - 1
  BY KTableAssumption
<1>11. fails' \in [Nodes -> 0 .. MAX_FAILURES - 1]
  BY <1>2, <1>3, <1>10
<1>12. answer'.node = Own /\ answer'.contacted = TRUE /\ answer'.returned = True
  BY <1>2 DEF NoAnswer
<1>13. buckets' = new /\ lastSeen' = seen /\ now' = now + 1
  BY <1>2, <1>5, <1>6, <1>14
<1> QED  BY <1>2, <1>7, <1>8, <1>9, <1>11, <1>12, <1>13 DEF TableInv, TableTypeOK

\* invalidateNode keeps the invariant.
LEMMA InvalidateNodeStep ==
    ASSUME TableInv, NEW n \in Nodes, InvalidateNode(n)
    PROVE  TableInv' /\ answer' = NoAnswer
<1>1. /\ lastSeen \in [Nodes -> Nat] /\ now \in Nat /\ fails \in [Nodes -> 0 .. MAX_FAILURES - 1]
      /\ \A m \in Nodes : lastSeen[m] <= now
  BY DEF TableInv, TableTypeOK
<1>2. PICK new : new = WithoutNode(buckets, n, lastSeen)
  OBVIOUS
<1>3. /\ buckets' = new
      /\ lastSeen' = Forgotten(lastSeen, Members(new))
      /\ fails' = Forgotten(fails, Members(new))
      /\ answer' = NoAnswer
      /\ now' = now
  BY <1>2 DEF InvalidateNode
<1>4. IsTable(new, lastSeen) /\ MinimalBut(new, 0)
  BY <1>1, <1>2, WithoutNodeTable DEF TableInv
<1>5. PICK seen : seen = Forgotten(lastSeen, Members(new))
  OBVIOUS
<1>6. /\ seen \in [Nodes -> Nat] /\ \A m \in Nodes : seen[m] \in {lastSeen[m], 0}
      /\ \A m \in Nodes : m \in Members(new) => seen[m] = lastSeen[m]
  BY <1>1, <1>5 DEF Forgotten
<1>7. \A m \in Members(new) : seen[m] = lastSeen[m]
  BY <1>4, <1>6, MembersAreNodes
<1>8. IsTable(new, seen)
  BY <1>4, <1>7, TableSeen
<1>9. new \in Seq(Bucket)
  BY <1>8, TableType
<1>10. \A m \in Nodes : seen[m] <= now
  BY <1>1, <1>6
<1>11. fails' \in [Nodes -> 0 .. MAX_FAILURES - 1]
  <2>1. 0 \in 0 .. MAX_FAILURES - 1
    BY KTableAssumption
  <2> QED  BY <1>1, <1>3, <2>1 DEF Forgotten
<1>12. answer'.node = Own /\ answer'.contacted = TRUE /\ answer'.returned = True
  BY <1>3 DEF NoAnswer
<1>13. buckets' = new /\ lastSeen' = seen /\ now' = now
  BY <1>3, <1>5
<1> QED  BY <1>1, <1>3, <1>4, <1>6, <1>8, <1>9, <1>10, <1>11, <1>12, <1>13 DEF TableInv, TableTypeOK

\* nodeFailed keeps the invariant.
LEMMA NodeFailedStep ==
    ASSUME TableInv, NEW n \in Nodes, NodeFailed(n)
    PROVE  TableInv' /\ answer' = NoAnswer
<1>1. CASE fails[n] + 1 >= MAX_FAILURES /\ InvalidateNode(n)
  BY <1>1, InvalidateNodeStep
<1>2. CASE /\ fails[n] + 1 < MAX_FAILURES
           /\ fails' = [fails EXCEPT ![n] = @ + 1]
           /\ answer' = NoAnswer
           /\ UNCHANGED <<buckets, lastSeen, now>>
  <2>1. fails \in [Nodes -> 0 .. MAX_FAILURES - 1] /\ MAX_FAILURES \in Nat
    BY KTableAssumption DEF TableInv, TableTypeOK
  <2>2. fails[n] + 1 \in 0 .. MAX_FAILURES - 1
    BY <1>2, <2>1
  <2>3. fails' \in [Nodes -> 0 .. MAX_FAILURES - 1]
    BY <1>2, <2>1, <2>2
  <2>4. answer'.node = Own /\ answer'.contacted = TRUE /\ answer'.returned = True
    BY <1>2 DEF NoAnswer
  <2>5. buckets' = buckets /\ lastSeen' = lastSeen /\ now' = now
    BY <1>2
  <2> QED  BY <1>2, <2>3, <2>4, <2>5 DEF TableInv, TableTypeOK
<1> QED  BY <1>1, <1>2 DEF NodeFailed

\* A restart keeps the invariant.
LEMMA RestartStep ==
    ASSUME TableInv, Restart
    PROVE  TableInv' /\ answer' = NoAnswer
<1>1. IsTable(buckets, lastSeen) /\ now \in Nat
  BY DEF TableInv, TableTypeOK
<1>2. PICK zeros : zeros = [n \in Nodes |-> 0]
  OBVIOUS
<1>3. buckets' = EmptyTable /\ lastSeen' = zeros /\ fails' = zeros /\ answer' = NoAnswer /\ now' = now
  BY <1>1, <1>2, DumpedNodes, RestartForgets DEF Restart
<1>4. IsTable(EmptyTable, zeros) /\ MinimalBut(EmptyTable, 0)
  BY NewTable
<1>5. EmptyTable \in Seq(Bucket)
  BY <1>4, TableType
<1>6. /\ zeros \in [Nodes -> Nat] /\ zeros \in [Nodes -> 0 .. MAX_FAILURES - 1]
      /\ \A n \in Nodes : zeros[n] <= now
  BY <1>1, <1>2, KTableAssumption
<1>7. answer'.node = Own /\ answer'.contacted = TRUE /\ answer'.returned = True
  BY <1>3 DEF NoAnswer
<1> QED  BY <1>1, <1>3, <1>4, <1>5, <1>6, <1>7 DEF TableInv, TableTypeOK

\* Every step keeps the invariant.
LEMMA TableInvNext == TableInv /\ [TableNext]_tableVars => TableInv'
<1> SUFFICES ASSUME TableInv, [TableNext]_tableVars PROVE TableInv'
  OBVIOUS
<1>1. ASSUME NEW n \in Nodes, NEW contacted \in BOOLEAN, InsertNode(n, contacted) PROVE TableInv'
  BY <1>1, InsertNodeStep
<1>2. ASSUME NEW n \in Nodes, JustSeenNode(n) PROVE TableInv'
  BY <1>2, JustSeenNodeStep
<1>3. ASSUME NEW n \in Nodes, InvalidateNode(n) PROVE TableInv'
  BY <1>3, InvalidateNodeStep
<1>4. ASSUME NEW n \in Nodes, NodeFailed(n) PROVE TableInv'
  BY <1>4, NodeFailedStep
<1>5. CASE Restart
  BY <1>5, RestartStep
<1>6. CASE UNCHANGED tableVars
  BY <1>6 DEF tableVars, TableInv, TableTypeOK
<1> QED  BY <1>1, <1>2, <1>3, <1>4, <1>5, <1>6 DEF TableNext

\* Whatever the order of insertions, failures, answers and restarts, and for every ID
\* length and bucket size: the inductive invariant of the routing table, which says of
\* every bucket's range that it is a block of halvings whose parent block holds the local
\* node, and ties the size of the innermost bucket to the number of buckets.
THEOREM TableInvariance == TableSpec => []TableInv
BY TableInvInit, TableInvNext, PTL DEF TableSpec

\* The routing table's variables have their types.
THEOREM TableTypeCorrect == TableSpec => []TableTypeOK
<1>1. TableInv => TableTypeOK
  BY DEF TableInv
<1> QED  BY <1>1, TableInvariance, PTL

\* The buckets of a table partition the ID space.
LEMMA InvMeansPartition == TableInv => BucketsPartition
<1> SUFFICES ASSUME TableInv PROVE BucketsPartition
  OBVIOUS
<1>1. IsTable(buckets, lastSeen)
  BY DEF TableInv
<1>2. DOMAIN buckets = 1..Len(buckets)
  BY <1>1, TableType
<1>3. buckets[1].min = 0 /\ buckets[Len(buckets)].max = Power[Bits]
  BY <1>1 DEF IsTable
<1>4. ASSUME NEW i \in DOMAIN buckets
      PROVE  /\ buckets[i].min < buckets[i].max
             /\ i > 1 => buckets[i - 1].max = buckets[i].min
             /\ Len(buckets[i].nodes) <= K
             /\ \A j \in DOMAIN buckets[i].nodes :
                  buckets[i].min <= buckets[i].nodes[j] /\ buckets[i].nodes[j] < buckets[i].max
             /\ IsInjective(buckets[i].nodes)
  <2>1. i \in 1..Len(buckets)
    BY <1>2
  <2>2. i > 1 => i \in 2..Len(buckets)
    BY <2>1
  <2>3. i > 1 => buckets[i - 1].max = buckets[i].min
    BY <1>1, <2>2 DEF IsTable
  <2>4. PICK b : b = buckets[i]
    OBVIOUS
  <2>5. IsBucket(b, lastSeen)
    BY <1>1, <2>1, <2>4 DEF IsTable
  <2>6. b.min < b.max /\ b.nodes \in Seq(Nodes) /\ Len(b.nodes) \in Nat
    BY <2>5, BucketType
  <2>7. DOMAIN b.nodes = 1..Len(b.nodes)
    BY <2>6
  <2>8. Len(b.nodes) <= K /\ \A m \in ToSet(b.nodes) : b.min <= m /\ m < b.max
    BY <2>5 DEF IsBucket
  <2>9. \A j \in DOMAIN b.nodes : b.min <= b.nodes[j] /\ b.nodes[j] < b.max
    BY <2>8 DEF ToSet
  <2>10. \A x, y \in 1..Len(b.nodes) : x < y => b.nodes[x] # b.nodes[y]
    BY <2>5 DEF IsBucket, Lists
  <2>11. IsInjective(b.nodes)
    <3>1. ASSUME NEW x \in 1..Len(b.nodes), NEW y \in 1..Len(b.nodes), b.nodes[x] = b.nodes[y] PROVE x = y
      <4>1. x < y \/ y < x \/ x = y
        BY <2>6
      <4> QED  BY <2>10, <3>1, <4>1
    <3> QED  BY <2>7, <3>1 DEF IsInjective
  <2> QED  BY <2>3, <2>4, <2>6, <2>8, <2>9, <2>11
<1> QED  BY <1>3, <1>4 DEF BucketsPartition

\* The lists of a table are sorted.
LEMMA InvMeansOrder == TableInv => OldestFirst
<1> SUFFICES ASSUME TableInv, NEW i \in DOMAIN buckets,
                    NEW a \in DOMAIN buckets[i].nodes, NEW b \in DOMAIN buckets[i].nodes, a < b
             PROVE  lastSeen[buckets[i].nodes[a]] <= lastSeen[buckets[i].nodes[b]]
  BY DEF OldestFirst
<1>1. IsTable(buckets, lastSeen)
  BY DEF TableInv
<1>2. i \in 1..Len(buckets)
  BY <1>1, TableType
<1>3. PICK list : list = buckets[i].nodes
  OBVIOUS
<1>4. IsBucket(buckets[i], lastSeen)
  BY <1>1, <1>2 DEF IsTable
<1>5. Lists(list, ToSet(list), lastSeen)
  BY <1>3, <1>4 DEF IsBucket
<1>6. lastSeen \in [Nodes -> Nat]
  BY DEF TableInv, TableTypeOK
<1>7. DOMAIN list = 1..Len(list)
  BY <1>5, <1>6, ListsType
<1> QED  BY <1>3, <1>5, <1>7 DEF Lists

\* The block around a range holds the local node.
LEMMA InvMeansSiblings == TableInv => SiblingHoldsOwn
<1> SUFFICES ASSUME TableInv, NEW i \in DOMAIN buckets
             PROVE  LET b == buckets[i]
                        size == b.max - b.min
                    IN  /\ b.min % size = 0
                        /\ size < Power[Bits] => b.min \div (2 * size) = Own \div (2 * size)
  BY DEF SiblingHoldsOwn
<1>1. IsTable(buckets, lastSeen)
  BY DEF TableInv
<1>2. i \in 1..Len(buckets)
  BY <1>1, TableType
<1>3. PICK lo, hi : lo = buckets[i].min /\ hi = buckets[i].max
  OBVIOUS
<1>4. IsRange(lo, hi)
  BY <1>1, <1>2, <1>3 DEF IsTable, IsBucket
<1>5. lo % (hi - lo) = 0 /\ (hi - lo < Power[Bits] => lo \div (2 * (hi - lo)) = Own \div (2 * (hi - lo)))
  BY <1>4, RangeDivides
<1> QED  BY <1>3, <1>5

\* A minimal table is one in the words of TableIsMinimal.
LEMMA InvMeansMinimal == TableInv => TableIsMinimal
<1> SUFFICES ASSUME TableInv, NEW i \in DOMAIN buckets, NEW j \in Twin(buckets, i)
             PROVE  Len(buckets[i].nodes) + Len(buckets[j].nodes) >= K
  BY DEF TableIsMinimal
<1>1. IsTable(buckets, lastSeen) /\ MinimalBut(buckets, 0)
  BY DEF TableInv
<1>2. i \in 1..Len(buckets)
  BY <1>1, TableType
<1>3. PICK a : AreTwins(buckets, a) /\ ((i = a /\ j = a + 1) \/ (i = a + 1 /\ j = a))
  BY <1>1, <1>2, TwinMeaning
<1>4. a \in 1..(Len(buckets) - 1) /\ Len(buckets) \in Nat
  BY <1>1, <1>3, TableType DEF AreTwins
<1>5. i # 0 /\ j # 0
  BY <1>3, <1>4
<1> QED  BY <1>1, <1>2, <1>5 DEF MinimalBut

\* TableIsSound of the routing table (ktable.py): the bisection finds the right bucket, the
\* first node of a bucket is the least recently seen one, equally large neighbours are
\* siblings, and no split outlives its reason, for any ID length, bucket size and node IDs.
THEOREM TableSound == TableSpec => []TableIsSound
<1>1. TableInv => TableIsSound
  BY InvMeansPartition, InvMeansOrder, InvMeansSiblings, InvMeansMinimal DEF TableIsSound
<1> QED  BY <1>1, TableInvariance, PTL

\* What is recorded of a step that is no insertion.
LEMMA NoAnswerIsTrue ==
    ASSUME answer' = NoAnswer
    PROVE  /\ answer'.returned = True /\ answer'.node = Own
BY DEF NoAnswer

\* InsertContract of insertNode (ktable.py), with the "Hash Table is FULL" that is never
\* answered.
THEOREM InsertAnswers == TableSpec => InsertContract
<1> DEFINE Contract ==
        LET bs == buckets'
            n == answer'.node
            bucket == bs[BucketIndex(bs, n)]
            returned == answer'.returned
        IN  CASE returned = True -> n \in Members(bs) \cup {Own}
              [] returned = False -> /\ ~answer'.contacted
                                     /\ n \notin Members(bs)
                                     /\ Len(bucket.nodes) < K
              [] returned = Full -> FALSE
              [] OTHER -> /\ n \notin Members(bs)
                          /\ Len(bucket.nodes) = K
                          /\ returned \in ToSet(bucket.nodes)
                          /\ \A m \in ToSet(bucket.nodes) :
                               lastSeen'[returned] <= lastSeen'[m]
<1>1. ASSUME answer' = NoAnswer PROVE Contract
  BY <1>1, NoAnswerIsTrue, AnswersDiffer
<1>2. ASSUME NEW n \in Nodes, answer'.node = n,
             AnswerIsTrue(buckets', lastSeen', n, answer'.contacted, answer'.returned)
      PROVE  Contract
  <2>1. PICK bs, seen, contacted, returned :
            bs = buckets' /\ seen = lastSeen' /\ contacted = answer'.contacted /\ returned = answer'.returned
    OBVIOUS
  <2>2. PICK nodes : nodes = bs[BucketIndex(bs, n)].nodes
    OBVIOUS
  <2>3. CASE returned = True /\ n \in Members(bs)
    BY <1>2, <2>1, <2>3, AnswersDiffer
  <2>4. CASE returned = False /\ ~contacted /\ n \notin Members(bs) /\ Len(nodes) < K
    BY <1>2, <2>1, <2>2, <2>4, AnswersDiffer
  <2>5. CASE /\ returned \in Nodes /\ n \notin Members(bs) /\ Len(nodes) = K
             /\ returned \in ToSet(nodes)
             /\ \A m \in ToSet(nodes) : seen[returned] <= seen[m]
    <3>1. returned # True /\ returned # False /\ returned # Full
      BY <2>5, AnswersDiffer
    <3> QED  BY <1>2, <2>1, <2>2, <2>5, <3>1
  <2> QED  BY <1>2, <2>1, <2>2, <2>3, <2>4, <2>5 DEF AnswerIsTrue
<1> HIDE DEF Contract
<1>3. TableInv /\ [TableNext]_tableVars => [Contract]_tableVars
  <2> SUFFICES ASSUME TableInv, TableNext PROVE Contract
    OBVIOUS
  <2>1. ASSUME NEW n \in Nodes, NEW contacted \in BOOLEAN, InsertNode(n, contacted) PROVE Contract
    BY <1>2, <2>1, InsertNodeStep
  <2>2. ASSUME NEW n \in Nodes, JustSeenNode(n) PROVE Contract
    BY <1>1, <2>2, JustSeenNodeStep
  <2>3. ASSUME NEW n \in Nodes, InvalidateNode(n) PROVE Contract
    BY <1>1, <2>3, InvalidateNodeStep
  <2>4. ASSUME NEW n \in Nodes, NodeFailed(n) PROVE Contract
    BY <1>1, <2>4, NodeFailedStep
  <2>5. CASE Restart
    BY <1>1, <2>5, RestartStep
  <2> QED  BY <2>1, <2>2, <2>3, <2>4, <2>5 DEF TableNext
<1>4. TableSpec => [][Contract]_tableVars
  BY <1>3, TableInvariance, PTL DEF TableSpec
<1> QED  BY <1>4 DEF InsertContract, Contract

-----------------------------------------------------------------------------
(* Distances. *)

\* The leading k bits of an ID.
Leading(a, k) == a \div Power[Bits - k]

\* f[k] is the exclusive or of the leading k bits of a and b.
IsLeadingXor(f, a, b) ==
    /\ f[0] = 0
    /\ \A k \in 1..Bits : f[k] = 2 * f[k - 1] + ((Leading(a, k) + Leading(b, k)) % 2)

\* What the recursive definition in Distance says.
LEMMA DistanceDef ==
    ASSUME NEW a, NEW b
    PROVE  \E f : IsLeadingXor(f, a, b) /\ Distance(a, b) = f[Bits]
<1> DEFINE Step(k, prev) == 2 * prev + ((a \div Power[Bits - k] + b \div Power[Bits - k]) % 2)
           leading[k \in 0..Bits] == IF k = 0 THEN 0 ELSE Step(k, leading[k - 1])
           A == {m \in 0..Bits : \E f : f = [k \in 0..m |-> IF k = 0 THEN 0 ELSE Step(k, f[k - 1])]}
<1>1. Bits \in Nat
  BY PowerType
<1>2. \A k, prev : Step(k, prev) = 2 * prev + ((Leading(a, k) + Leading(b, k)) % 2)
  BY DEF Leading
<1>3. Distance(a, b) = leading[Bits]
  BY DEF Distance, Step
<1> HIDE DEF Step
<1>4. 0 \in A
  <2> DEFINE f == [k \in 0..0 |-> 0]
  <2>1. f = [k \in 0..0 |-> IF k = 0 THEN 0 ELSE Step(k, f[k - 1])]
    OBVIOUS
  <2>2. 0 \in 0..Bits
    BY <1>1
  <2> HIDE DEF f
  <2> QED  BY <2>1, <2>2
<1>5. ASSUME NEW m \in 1..Bits, m - 1 \in A PROVE m \in A
  <2>1. PICK f : f = [k \in 0..(m - 1) |-> IF k = 0 THEN 0 ELSE Step(k, f[k - 1])]
    BY <1>5
  <2> DEFINE g == [k \in 0..m |-> IF k = m THEN Step(m, f[m - 1]) ELSE f[k]]
  <2>2. ASSUME NEW k \in 0..m PROVE g[k] = IF k = 0 THEN 0 ELSE Step(k, g[k - 1])
    <3>1. CASE k = m
      BY <3>1
    <3>2. CASE k # m
      BY <2>1, <3>2
    <3> QED  BY <3>1, <3>2
  <2>3. g = [k \in 0..m |-> IF k = 0 THEN 0 ELSE Step(k, g[k - 1])]
    BY <2>2
  <2>4. m \in 0..Bits
    BY <1>1
  <2> HIDE DEF g
  <2> QED  BY <2>3, <2>4
<1>6. Bits \in A
  <2> HIDE DEF A, leading
  <2>1. \A m \in 0..Bits : m \in A
    BY <1>1, <1>4, <1>5, UpTo
  <2> QED  BY <1>1, <2>1
<1>7. leading = [k \in 0..Bits |-> IF k = 0 THEN 0 ELSE Step(k, leading[k - 1])]
  BY <1>6
<1> HIDE DEF leading, A
<1>8. leading[0] = 0
  BY <1>1, <1>7
<1>9. \A k \in 1..Bits : leading[k] = Step(k, leading[k - 1])
  <2>1. \A k \in 1..Bits : k \in 0..Bits /\ k # 0
    BY <1>1
  <2> QED  BY <1>7, <2>1
<1>10. IsLeadingXor(leading, a, b)
  BY <1>2, <1>8, <1>9 DEF IsLeadingXor
<1> QED  BY <1>3, <1>10

\* A quotient is known from a remainder.
LEMMA Quotient ==
    ASSUME NEW a \in Nat, NEW d \in Nat, d > 0, NEW q \in Nat, NEW r \in Nat,
           a = q * d + r, r < d
    PROVE  a \div d = q
OBVIOUS

\* The leading bits of an ID are the ones before them and one bit.
LEMMA LeadingBits ==
    ASSUME NEW a \in Ids
    PROVE  /\ Leading(a, 0) = 0
           /\ \A k \in 0..Bits : Leading(a, k) \in Nat
           /\ \A k \in 1..Bits : \E bit \in {0, 1} : Leading(a, k) = 2 * Leading(a, k - 1) + bit
<1>1. a \in Nat /\ a < Power[Bits] /\ Power[Bits] \in Nat /\ Bits \in Nat
  BY OwnType DEF Ids
<1>2. ASSUME NEW k \in 0..Bits
      PROVE  /\ Bits - k \in 0..Bits
             /\ Power[Bits - k] \in Nat /\ Power[Bits - k] > 0 /\ Leading(a, k) \in Nat
  <2>1. Bits - k \in 0..Bits
    BY <1>1
  <2>2. PICK P : P = Power[Bits - k]
    OBVIOUS
  <2>3. P \in Nat /\ P > 0
    BY <2>1, <2>2, PowerType
  <2>4. a \div P \in Nat
    BY <1>1, <2>3
  <2> QED  BY <2>1, <2>2, <2>3, <2>4 DEF Leading
<1>3. Leading(a, 0) = 0
  <2>1. PICK P : P = Power[Bits]
    OBVIOUS
  <2>2. a \div P = 0
    BY <1>1, <2>1
  <2>3. Bits - 0 = Bits
    BY <1>1
  <2> QED  BY <2>1, <2>2, <2>3 DEF Leading
<1>4. ASSUME NEW k \in 1..Bits
      PROVE  \E bit \in {0, 1} : Leading(a, k) = 2 * Leading(a, k - 1) + bit
  <2>1. k \in 0..Bits /\ k - 1 \in 0..Bits /\ Bits - (k - 1) \in 1..Bits /\ (Bits - (k - 1)) - 1 = Bits - k
    BY <1>1
  <2>2. PICK P, Q : P = Power[Bits - k] /\ Q = Power[Bits - (k - 1)]
    OBVIOUS
  <2>3. P \in Nat /\ P > 0
    BY <1>2, <2>1, <2>2
  <2>4. Q = 2 * P
    BY <2>1, <2>2, PowerDef
  <2>5. PICK q : q = a \div Q
    OBVIOUS
  <2>6. PICK r : r = a % Q
    OBVIOUS
  <2>7. q \in Nat /\ r \in Nat /\ r < Q /\ a = q * Q + r
    <3>1. Q \in Nat /\ Q > 0
      BY <2>3, <2>4
    <3>2. q \in Nat /\ r \in Nat /\ r < Q
      BY <1>1, <2>5, <2>6, <3>1
    <3>3. a = Q * (a \div Q) + (a % Q)
      BY <1>1, <3>1
    <3>4. Q * q = q * Q
      BY <3>1, <3>2
    <3> QED  BY <2>5, <2>6, <3>2, <3>3, <3>4
  <2>8. q * Q = (2 * q) * P
    BY <2>3, <2>4, <2>7
  <2>9. CASE r < P
    <3>1. a = (2 * q) * P + r /\ 2 * q \in Nat
      BY <2>7, <2>8
    <3>2. a \div P = 2 * q
      BY <1>1, <2>3, <2>7, <2>9, <3>1, Quotient
    <3>3. Leading(a, k) = 2 * Leading(a, k - 1) + 0
      BY <2>2, <2>5, <2>7, <3>2 DEF Leading
    <3> QED  BY <3>3
  <2>10. CASE P <= r
    <3>1. PICK s : s = r - P
      OBVIOUS
    <3>2. s \in Nat /\ s < P /\ 2 * q + 1 \in Nat
      BY <2>3, <2>4, <2>7, <2>10, <3>1
    <3>3. a = (2 * q + 1) * P + s
      <4>1. (2 * q + 1) * P = (2 * q) * P + P
        BY <2>3, <2>7
      <4>2. (2 * q) * P \in Int
        BY <2>3, <2>7
      <4> QED  BY <2>3, <2>7, <2>8, <3>1, <4>1, <4>2
    <3>4. a \div P = 2 * q + 1
      BY <1>1, <2>3, <3>2, <3>3, Quotient
    <3>5. Leading(a, k) = 2 * Leading(a, k - 1) + 1
      BY <2>2, <2>5, <2>7, <3>4 DEF Leading
    <3> QED  BY <3>5
  <2> QED  BY <2>3, <2>7, <2>9, <2>10
<1> QED  BY <1>2, <1>3, <1>4

\* The exclusive or of leading bits is a number.
LEMMA LeadingXorType ==
    ASSUME NEW a \in Ids, NEW b \in Ids, NEW f, IsLeadingXor(f, a, b)
    PROVE  /\ \A k \in 0..Bits : f[k] \in Nat
           /\ \A k \in 1..Bits : f[k] = 2 * f[k - 1] \/ f[k] = 2 * f[k - 1] + 1
<1> DEFINE A == {k \in 0..Bits : f[k] \in Nat}
<1>1. Bits \in Nat
  BY PowerType
<1>2. ASSUME NEW k \in 1..Bits
      PROVE  f[k] = 2 * f[k - 1] + 0 \/ f[k] = 2 * f[k - 1] + 1
  <2>1. PICK u, v : u = Leading(a, k) /\ v = Leading(b, k)
    OBVIOUS
  <2>2. u \in Nat /\ v \in Nat
    <3>1. k \in 0..Bits
      BY <1>1
    <3> QED  BY <2>1, <3>1, LeadingBits
  <2>3. (u + v) % 2 = 0 \/ (u + v) % 2 = 1
    BY <2>2
  <2>4. f[k] = 2 * f[k - 1] + ((u + v) % 2)
    BY <2>1 DEF IsLeadingXor
  <2> QED  BY <2>3, <2>4
<1>3. 0 \in A
  BY <1>1 DEF IsLeadingXor
<1>4. ASSUME NEW k \in 1..Bits, k - 1 \in A PROVE k \in A
  <2>1. k \in 0..Bits
    BY <1>1
  <2>2. f[k - 1] \in Nat
    BY <1>4
  <2>3. f[k] \in Nat
    BY <1>2, <2>2
  <2> QED  BY <2>1, <2>3
<1>5. \A k \in 0..Bits : k \in A
  <2> HIDE DEF A
  <2> QED  BY <1>1, <1>3, <1>4, UpTo
<1>6. \A k \in 0..Bits : f[k] \in Nat
  BY <1>5
<1>7. ASSUME NEW k \in 1..Bits PROVE f[k] = 2 * f[k - 1] \/ f[k] = 2 * f[k - 1] + 1
  <2>1. k - 1 \in 0..Bits
    BY <1>1
  <2>2. f[k - 1] \in Nat
    BY <1>6, <2>1
  <2> QED  BY <1>2, <2>2
<1> QED  BY <1>6, <1>7

\* Two IDs have the same leading bits if and only if these differ from a in the same bits.
LEMMA SameLeading ==
    ASSUME NEW a \in Ids, NEW b \in Ids, NEW c \in Ids, NEW f, NEW g,
           IsLeadingXor(f, a, b), IsLeadingXor(g, a, c)
    PROVE  \A k \in 0..Bits : f[k] = g[k] <=> Leading(b, k) = Leading(c, k)
<1> DEFINE A == {k \in 0..Bits : f[k] = g[k] <=> Leading(b, k) = Leading(c, k)}
<1>1. Bits \in Nat
  BY PowerType
<1>2. 0 \in A
  BY <1>1, LeadingBits DEF IsLeadingXor
<1>3. ASSUME NEW k \in 1..Bits, k - 1 \in A PROVE k \in A
  <2>1. k \in 0..Bits /\ k - 1 \in 0..Bits
    BY <1>1
  <2>2. PICK u, v, w : u = Leading(a, k) /\ v = Leading(b, k) /\ w = Leading(c, k)
    OBVIOUS
  <2>3. PICK x, y : x = Leading(b, k - 1) /\ y = Leading(c, k - 1)
    OBVIOUS
  <2>4. u \in Nat /\ v \in Nat /\ w \in Nat /\ x \in Nat /\ y \in Nat
    BY <2>1, <2>2, <2>3, LeadingBits
  <2>5. (v = 2 * x \/ v = 2 * x + 1) /\ (w = 2 * y \/ w = 2 * y + 1)
    <3>1. PICK i \in {0, 1} : v = 2 * x + i
      BY <2>2, <2>3, LeadingBits
    <3>2. PICK j \in {0, 1} : w = 2 * y + j
      BY <2>2, <2>3, LeadingBits
    <3> QED  BY <2>4, <3>1, <3>2
  <2>6. PICK p, q : p = f[k - 1] /\ q = g[k - 1]
    OBVIOUS
  <2>7. p \in Nat /\ q \in Nat
    BY <2>1, <2>6, LeadingXorType
  <2>8. f[k] = 2 * p + ((u + v) % 2) /\ g[k] = 2 * q + ((u + w) % 2)
    BY <2>2, <2>6 DEF IsLeadingXor
  <2>9. p = q <=> x = y
    BY <1>3, <2>3, <2>6
  <2>10. f[k] = g[k] <=> v = w
    BY <2>4, <2>5, <2>7, <2>8, <2>9
  <2> QED  BY <2>1, <2>2, <2>10
<1>4. \A k \in 0..Bits : k \in A
  <2> HIDE DEF A
  <2> QED  BY <1>1, <1>2, <1>3, UpTo
<1> QED  BY <1>4

\* An ID does not differ from itself.
LEMMA SelfXor ==
    ASSUME NEW a \in Ids, NEW f, IsLeadingXor(f, a, a)
    PROVE  \A k \in 0..Bits : f[k] = 0
<1> DEFINE A == {k \in 0..Bits : f[k] = 0}
<1>1. Bits \in Nat
  BY PowerType
<1>2. 0 \in A
  BY <1>1 DEF IsLeadingXor
<1>3. ASSUME NEW k \in 1..Bits, k - 1 \in A PROVE k \in A
  <2>1. k \in 0..Bits
    BY <1>1
  <2>2. PICK u : u = Leading(a, k)
    OBVIOUS
  <2>3. u \in Nat
    BY <2>1, <2>2, LeadingBits
  <2>4. (u + u) % 2 = 0
    BY <2>3
  <2>5. f[k] = 2 * 0 + 0
    BY <1>3, <2>2, <2>4 DEF IsLeadingXor
  <2> QED  BY <2>1, <2>5
<1>4. \A k \in 0..Bits : k \in A
  <2> HIDE DEF A
  <2> QED  BY <1>1, <1>2, <1>3, UpTo
<1> QED  BY <1>4

\* The leading bits decide which of two exclusive ors is the smaller one.
LEMMA LeadingDecides ==
    ASSUME NEW a \in Ids, NEW b \in Ids, NEW c \in Ids, NEW f, NEW g,
           IsLeadingXor(f, a, b), IsLeadingXor(g, a, c), NEW k \in 0..Bits, f[k] < g[k]
    PROVE  f[Bits] < g[Bits]
<1> DEFINE N == Bits - k
           A == {d \in 0..N : f[k + d] < g[k + d]}
<1>1. Bits \in Nat /\ N \in Nat /\ k + N = Bits /\ k + 0 = k
  BY PowerType
<1>2. 0 \in A
  BY <1>1
<1>3. ASSUME NEW d \in 1..N, d - 1 \in A PROVE d \in A
  <2>1. d \in 0..N /\ k + d \in 1..Bits /\ k + (d - 1) \in 0..Bits /\ (k + d) - 1 = k + (d - 1)
    BY <1>1
  <2>2. PICK x, y, u, v : x = f[k + (d - 1)] /\ y = g[k + (d - 1)] /\ u = f[k + d] /\ v = g[k + d]
    OBVIOUS
  <2>3. x \in Nat /\ y \in Nat
    BY <2>1, <2>2, LeadingXorType
  <2>4. (u = 2 * x \/ u = 2 * x + 1) /\ (v = 2 * y \/ v = 2 * y + 1)
    <3>1. u = 2 * x \/ u = 2 * x + 1
      BY <2>1, <2>2, LeadingXorType
    <3>2. v = 2 * y \/ v = 2 * y + 1
      BY <2>1, <2>2, LeadingXorType
    <3> QED  BY <3>1, <3>2
  <2>5. x < y
    BY <1>3, <2>2
  <2>6. u < v
    BY <2>3, <2>4, <2>5
  <2> QED  BY <2>1, <2>2, <2>6
<1>4. N \in A
  <2> HIDE DEF A, N
  <2> QED  BY <1>1, <1>2, <1>3, UpTo
<1> QED  BY <1>1, <1>4

\* Distances are numbers.
LEMMA DistanceType ==
    ASSUME NEW a \in Ids, NEW b \in Ids
    PROVE  Distance(a, b) \in Nat
<1>1. PICK f : IsLeadingXor(f, a, b) /\ Distance(a, b) = f[Bits]
  BY DistanceDef
<1>2. Bits \in 0..Bits
  BY PowerType
<1> QED  BY <1>1, <1>2, LeadingXorType

\* No two IDs are equally far from a third.
LEMMA DistancesDiffer ==
    ASSUME NEW a \in Ids, NEW b \in Ids, NEW c \in Ids, Distance(a, b) = Distance(a, c)
    PROVE  b = c
<1>1. PICK f : IsLeadingXor(f, a, b) /\ Distance(a, b) = f[Bits]
  BY DistanceDef
<1>2. PICK g : IsLeadingXor(g, a, c) /\ Distance(a, c) = g[Bits]
  BY DistanceDef
<1>3. Bits \in 0..Bits /\ Bits - Bits = 0
  BY PowerType
<1>4. Leading(b, Bits) = Leading(c, Bits)
  <2>1. f[Bits] = g[Bits]
    BY <1>1, <1>2
  <2>2. \A k \in 0..Bits : f[k] = g[k] <=> Leading(b, k) = Leading(c, k)
    BY <1>1, <1>2, SameLeading
  <2> QED  BY <1>3, <2>1, <2>2
<1>5. b \div 1 = c \div 1
  BY <1>3, <1>4, PowerDef DEF Leading
<1>6. b \in Nat /\ c \in Nat
  BY OwnType DEF Ids
<1> QED  BY <1>5, <1>6

\* The IDs of a block are the ones with the same leading bits.
LEMMA BlockLeading ==
    ASSUME NEW lo, NEW hi, NEW k, IsBlock(lo, hi, k), NEW a \in Ids, NEW b \in Ids,
           lo <= a, a < hi
    PROVE  Leading(a, Bits - k) = Leading(b, Bits - k) <=> (lo <= b /\ b < hi)
<1>1. k \in 0..Bits /\ Bits \in Nat /\ Bits - (Bits - k) = k
  BY PowerType DEF IsBlock
<1>2. PICK P : P = Power[k]
  OBVIOUS
<1>3. P \in Nat /\ P > 0
  BY <1>1, <1>2, PowerType
<1>4. PICK q \in Nat : lo = q * P
  BY <1>2 DEF IsBlock
<1>5. lo \in Nat /\ hi = lo + P
  BY <1>2 DEF IsBlock
<1>6. a \in Nat /\ b \in Nat
  BY OwnType DEF Ids
<1>7. ASSUME NEW x \in Nat, lo <= x, x < hi PROVE x \div P = q
  <2>1. PICK r : r = x - lo
    OBVIOUS
  <2>2. r \in Nat /\ r < P /\ x = q * P + r
    BY <1>3, <1>4, <1>5, <1>7, <2>1
  <2> QED  BY <1>3, <2>2, Quotient
<1>8. ASSUME NEW x \in Nat, x \div P = q PROVE lo <= x /\ x < hi
  <2>1. PICK r : r = x % P
    OBVIOUS
  <2>2. r \in Nat /\ r < P /\ x = (x \div P) * P + r
    BY <1>3, <2>1
  <2>3. x = lo + r
    BY <1>4, <1>8, <2>2
  <2> QED  BY <1>3, <1>5, <2>2, <2>3
<1>9. Leading(a, Bits - k) = a \div P /\ Leading(b, Bits - k) = b \div P
  BY <1>1, <1>2 DEF Leading
<1>10. a \div P = q
  BY <1>6, <1>7
<1> QED  BY <1>6, <1>7, <1>8, <1>9, <1>10

\* To an ID of a block, the IDs in the block are closer than the ones outside.
LEMMA BlockIsClose ==
    ASSUME NEW lo, NEW hi, NEW k, IsBlock(lo, hi, k), NEW num \in Ids, NEW n \in Ids, NEW m \in Ids,
           lo <= num, num < hi, lo <= n, n < hi, ~(lo <= m /\ m < hi)
    PROVE  Distance(num, n) < Distance(num, m)
<1>1. PICK j : j = Bits - k
  OBVIOUS
<1>2. j \in 0..Bits
  BY <1>1, PowerType DEF IsBlock
<1>3. PICK f : IsLeadingXor(f, num, num)
  BY DistanceDef
<1>4. PICK g : IsLeadingXor(g, num, n) /\ Distance(num, n) = g[Bits]
  BY DistanceDef
<1>5. PICK h : IsLeadingXor(h, num, m) /\ Distance(num, m) = h[Bits]
  BY DistanceDef
<1>6. Leading(num, j) = Leading(n, j) /\ Leading(num, j) # Leading(m, j)
  BY <1>1, BlockLeading
<1>7. f[j] = 0
  BY <1>2, <1>3, SelfXor
<1>8. g[j] = 0
  BY <1>2, <1>3, <1>4, <1>6, <1>7, SameLeading
<1>9. h[j] # 0
  BY <1>2, <1>3, <1>5, <1>6, <1>7, SameLeading
<1>10. h[j] \in Nat
  BY <1>2, <1>5, LeadingXorType
<1>11. g[j] < h[j]
  BY <1>8, <1>9, <1>10
<1> QED  BY <1>2, <1>4, <1>5, <1>11, LeadingDecides

-----------------------------------------------------------------------------
(* findNodes. *)

\* list has the nodes of S, nearest to num first.
IsByDistance(list, S, num) ==
    /\ list \in Seq(S) /\ Len(list) = Cardinality(S)
    /\ \A n \in S : \E j \in 1..Len(list) : list[j] = n
    /\ \A x, y \in 1..Len(list) : x < y => Distance(num, list[x]) < Distance(num, list[y])

\* A set of IDs is finite.
LEMMA IdsAreFinite ==
    ASSUME NEW S, S \subseteq Ids
    PROVE  IsFiniteSet(S) /\ Cardinality(S) \in Nat
<1>1. IsFiniteSet(Ids)
  <2>1. 0 \in Int /\ Power[Bits] - 1 \in Int
    BY OwnType
  <2> QED  BY <2>1, FS_Interval DEF Ids
<1> QED  BY <1>1, FS_Subset, FS_CardinalityType

\* Distances give every node of a set a place of its own.
LEMMA SortsByDistance ==
    ASSUME NEW num \in Ids, NEW S, S \subseteq Ids
    PROVE  IsByDistance(ByDistance(S, num), S, num)
<1> DEFINE Closer(n) == {m \in S : Distance(num, m) < Distance(num, n)}
           Rank(n) == Cardinality(Closer(n))
           N == Cardinality(S)
           s == ByDistance(S, num)
<1>1. IsFiniteSet(S) /\ N \in Nat
  BY IdsAreFinite
<1>2. \A n \in S : Distance(num, n) \in Nat
  BY DistanceType
<1>3. ASSUME NEW n \in S PROVE IsFiniteSet(Closer(n)) /\ Rank(n) \in Nat /\ Rank(n) < N
  <2>1. PICK C : C = Closer(n)
    OBVIOUS
  <2>2. C \subseteq S /\ n \notin C
    BY <1>2, <2>1
  <2>3. IsFiniteSet(C) /\ Cardinality(C) <= N /\ (N = Cardinality(C) => S = C)
    BY <1>1, <2>2, FS_Subset
  <2>4. Cardinality(C) \in Nat
    BY <2>3, FS_CardinalityType
  <2>5. N # Cardinality(C)
    BY <2>2, <2>3
  <2> HIDE DEF N
  <2> QED  BY <1>1, <2>1, <2>3, <2>4, <2>5
<1>4. ASSUME NEW n \in S, NEW m \in S, Distance(num, n) < Distance(num, m) PROVE Rank(n) < Rank(m)
  <2>1. PICK C, D : C = Closer(n) /\ D = Closer(m)
    OBVIOUS
  <2>2. n \in D /\ n \notin C
    BY <1>2, <1>4, <2>1
  <2>3. \A x \in S : Distance(num, x) < Distance(num, n) => Distance(num, x) < Distance(num, m)
    BY <1>2, <1>4
  <2>4. C \subseteq D
    BY <2>1, <2>3
  <2>5. IsFiniteSet(D) /\ Cardinality(D) \in Nat /\ Cardinality(C) \in Nat
    BY <1>3, <2>1
  <2>6. Cardinality(C) <= Cardinality(D) /\ (Cardinality(D) = Cardinality(C) => D = C)
    BY <2>4, <2>5, FS_Subset
  <2>7. Cardinality(D) # Cardinality(C)
    BY <2>2, <2>6
  <2> QED  BY <2>1, <2>5, <2>6, <2>7
<1>5. ASSUME NEW n \in S, NEW m \in S, Rank(n) = Rank(m) PROVE n = m
  <2>1. Rank(n) \in Nat /\ Rank(m) \in Nat /\ Distance(num, n) \in Nat /\ Distance(num, m) \in Nat
    BY <1>2, <1>3
  <2>2. ~(Distance(num, n) < Distance(num, m)) /\ ~(Distance(num, m) < Distance(num, n))
    <3> HIDE DEF Rank
    <3> QED  BY <1>4, <1>5, <2>1
  <2>3. Distance(num, n) = Distance(num, m)
    BY <2>1, <2>2
  <2> QED  BY <2>3, DistancesDiffer
<1>6. s = [j \in 1..N |-> CHOOSE n \in S : Rank(n) = j - 1]
  BY DEF ByDistance
<1> HIDE DEF Rank, Closer, s
<1>7. \A r \in 0..N - 1 : \E n \in S : Rank(n) = r
  <2> DEFINE f == [n \in S |-> Rank(n)]
  <2>1. f \in [S -> 0..N - 1]
    <3>1. \A n \in S : Rank(n) \in 0..N - 1
      BY <1>1, <1>3
    <3> QED  BY <3>1
  <2>2. IsInjective(f)
    BY <1>5 DEF IsInjective
  <2>3. f \in Injection(S, 0..N - 1)
    BY <2>1, <2>2 DEF Injection
  <2>4. IsFiniteSet(0..N - 1) /\ Cardinality(0..N - 1) = N
    <3>1. 0 \in Int /\ N - 1 \in Int
      BY <1>1
    <3>2. IsFiniteSet(0..N - 1) /\ Cardinality(0..N - 1) = IF 0 > N - 1 THEN 0 ELSE (N - 1) - 0 + 1
      BY <3>1, FS_Interval
    <3> QED  BY <1>1, <3>2
  <2>5. f \in Surjection(S, 0..N - 1)
    <3> HIDE DEF f
    <3> QED  BY <2>3, <2>4, FS_Injection
  <2> QED  BY <2>5 DEF Surjection
<1> HIDE DEF N
<1>8. \A j \in 1..N : s[j] \in S /\ Rank(s[j]) = j - 1
  <2> SUFFICES ASSUME NEW j \in 1..N PROVE s[j] \in S /\ Rank(s[j]) = j - 1
    OBVIOUS
  <2>1. j - 1 \in 0..N - 1
    BY <1>1
  <2>2. \E n \in S : Rank(n) = j - 1
    BY <1>7, <2>1
  <2>3. s[j] = CHOOSE n \in S : Rank(n) = j - 1
    BY <1>6
  <2> QED  BY <2>2, <2>3
<1>9. s \in Seq(S) /\ Len(s) = N
  <2>1. s \in [1..N -> S]
    BY <1>6, <1>8
  <2> QED  BY <1>1, <2>1
<1>10. \A n \in S : \E j \in 1..N : s[j] = n
  <2> SUFFICES ASSUME NEW n \in S PROVE \E j \in 1..N : s[j] = n
    OBVIOUS
  <2>1. PICK j : j = Rank(n) + 1
    OBVIOUS
  <2>2. j \in 1..N /\ j - 1 = Rank(n)
    BY <1>1, <1>3, <2>1
  <2>3. s[j] \in S /\ Rank(s[j]) = Rank(n)
    BY <1>8, <2>2
  <2>4. s[j] = n
    BY <1>5, <2>3
  <2> QED  BY <2>2, <2>4
<1>11. \A x, y \in 1..N : x < y => Distance(num, s[x]) < Distance(num, s[y])
  <2> SUFFICES ASSUME NEW x \in 1..N, NEW y \in 1..N, x < y
               PROVE  Distance(num, s[x]) < Distance(num, s[y])
    OBVIOUS
  <2>1. PICK n, m : n = s[x] /\ m = s[y]
    OBVIOUS
  <2>2. n \in S /\ m \in S /\ Rank(n) = x - 1 /\ Rank(m) = y - 1
    BY <1>8, <2>1
  <2>3. Distance(num, n) \in Nat /\ Distance(num, m) \in Nat /\ x \in Int /\ y \in Int
    BY <1>2, <2>2
  <2>4. ~(Distance(num, m) < Distance(num, n))
    <3>1. SUFFICES ASSUME Distance(num, m) < Distance(num, n) PROVE FALSE
      OBVIOUS
    <3>2. Rank(m) < Rank(n)
      BY <1>4, <2>2, <3>1
    <3> QED  BY <2>2, <2>3, <3>2
  <2>5. Distance(num, m) # Distance(num, n)
    <3>1. SUFFICES ASSUME Distance(num, m) = Distance(num, n) PROVE FALSE
      OBVIOUS
    <3>2. m = n
      BY <2>2, <3>1, DistancesDiffer
    <3> QED  BY <2>2, <2>3, <3>2
  <2> QED  BY <2>1, <2>3, <2>4, <2>5
<1> QED  BY <1>9, <1>10, <1>11 DEF IsByDistance, N, s

\* A list in which no node comes twice has as many elements as nodes.
LEMMA ListsCount ==
    ASSUME NEW seen \in [Nodes -> Nat], NEW S, NEW list, Lists(list, S, seen)
    PROVE  IsFiniteSet(S) /\ Cardinality(S) = Len(list)
<1>1. list \in Seq(Nodes) /\ Len(list) \in Nat /\ DOMAIN list = 1..Len(list)
  BY ListsType
<1>2. list \in [1..Len(list) -> S]
  BY <1>1 DEF Lists
<1>3. ASSUME NEW x \in 1..Len(list), NEW y \in 1..Len(list), list[x] = list[y] PROVE x = y
  <2>1. x < y \/ y < x \/ x = y
    BY <1>1
  <2> QED  BY <1>3, <2>1 DEF Lists
<1>4. list \in Injection(1..Len(list), S)
  BY <1>2, <1>3 DEF Injection, IsInjective
<1>5. list \in Surjection(1..Len(list), S)
  BY <1>2 DEF Surjection, Lists
<1>6. ExistsBijection(1..Len(list), S)
  BY <1>4, <1>5 DEF ExistsBijection, Bijection
<1>7. IsFiniteSet(1..Len(list))
  BY <1>1, FS_Interval
<1> QED  BY <1>1, <1>6, <1>7, FS_Bijection, FS_CountingElements

\* The nodes in the buckets around bucket i.
LEMMA NodesWithin ==
    ASSUME NEW seen, NEW bs, IsTable(bs, seen), NEW i \in 1..Len(bs), NEW d \in Nat
    PROVE  /\ ToSet(bs[i].nodes) \subseteq Within(bs, i, d) /\ Within(bs, i, d) \subseteq Members(bs)
           /\ Within(bs, i, 0) = ToSet(bs[i].nodes)
           /\ i - d <= 1 /\ i + d >= Len(bs) => Within(bs, i, d) = Members(bs)
<1>1. Len(bs) \in Nat /\ DOMAIN bs = 1..Len(bs)
  BY TableType
<1>2. ASSUME NEW e \in Nat, NEW j \in DOMAIN bs
      PROVE  j \in {x \in DOMAIN bs : i - e <= x /\ x <= i + e} <=> i - e <= j /\ j <= i + e
  OBVIOUS
<1>3. ToSet(bs[i].nodes) \subseteq Within(bs, i, d)
  <2>1. i \in {x \in DOMAIN bs : i - d <= x /\ x <= i + d}
    BY <1>1
  <2> QED  BY <2>1 DEF Within
<1>4. Within(bs, i, d) \subseteq Members(bs)
  BY DEF Within, Members
<1>5. Within(bs, i, 0) = ToSet(bs[i].nodes)
  <2>1. {x \in DOMAIN bs : i - 0 <= x /\ x <= i + 0} = {i}
    BY <1>1
  <2> QED  BY <2>1 DEF Within
<1>6. ASSUME i - d <= 1, i + d >= Len(bs) PROVE Within(bs, i, d) = Members(bs)
  <2>1. {x \in DOMAIN bs : i - d <= x /\ x <= i + d} = DOMAIN bs
    BY <1>1, <1>6
  <2> QED  BY <2>1 DEF Within, Members
<1> QED  BY <1>3, <1>4, <1>5, <1>6

\* found is what findNodes collects around bucket i: at least that bucket, all of the
\* table unless it is enough, and no more than that bucket if it is full.
IsFound(found, bs, i) ==
    /\ ToSet(bs[i].nodes) \subseteq found /\ found \subseteq Members(bs)
    /\ Cardinality(found) >= K \/ found = Members(bs)
    /\ Len(bs[i].nodes) = K => found = ToSet(bs[i].nodes)

LEMMA FindNodesCollects ==
    ASSUME NEW seen \in [Nodes -> Nat], NEW bs, IsTable(bs, seen), NEW num,
           NEW i \in 1..Len(bs), i = BucketIndex(bs, num)
    PROVE  \E found : /\ IsFound(found, bs, i)
                      /\ FindNodes(bs, num)
                           = SubSeq(ByDistance(found, num), 1, Min({K, Cardinality(found)}))
<1> DEFINE Enough(d) == Cardinality(Within(bs, i, d)) >= K \/ (i - d <= 1 /\ i + d >= Len(bs))
           D == {d \in 0..Len(bs) : Enough(d)}
<1>1. Len(bs) \in Nat /\ i \in Nat /\ K \in Nat
  BY TableType, KTableAssumption
<1>2. PICK d0 : d0 = Min(D)
  OBVIOUS
<1>3. FindNodes(bs, num)
        = SubSeq(ByDistance(Within(bs, i, d0), num), 1, Min({K, Cardinality(Within(bs, i, d0))}))
  BY <1>2 DEF FindNodes
<1>4. D \subseteq 0..Len(bs) /\ Len(bs) \in D
  BY <1>1
<1>5. \A d \in D : Enough(d)
  OBVIOUS
<1>6. Enough(0) => 0 \in D
  BY <1>1
<1> HIDE DEF D
<1>7. d0 \in D /\ \A d \in D : d0 <= d
  <2>1. IsFiniteSet(0..Len(bs))
    BY <1>1, FS_Interval
  <2>2. IsFiniteSet(D)
    BY <1>4, <2>1, FS_Subset
  <2>3. D \subseteq Int /\ D # {}
    BY <1>1, <1>4
  <2> QED  BY <1>2, <2>2, <2>3, MinOfSet
<1>8. d0 \in Nat /\ Enough(d0)
  BY <1>1, <1>4, <1>5, <1>7
<1>9. PICK found : found = Within(bs, i, d0)
  OBVIOUS
<1>10. ToSet(bs[i].nodes) \subseteq found /\ found \subseteq Members(bs)
  BY <1>8, <1>9, NodesWithin
<1>11. Cardinality(found) >= K \/ found = Members(bs)
  BY <1>8, <1>9, NodesWithin
<1>12. ASSUME Len(bs[i].nodes) = K PROVE found = ToSet(bs[i].nodes)
  <2>1. IsBucket(bs[i], seen)
    BY DEF IsTable
  <2>2. Cardinality(ToSet(bs[i].nodes)) = Len(bs[i].nodes)
    BY <2>1, ListsCount DEF IsBucket
  <2>3. Within(bs, i, 0) = ToSet(bs[i].nodes)
    BY <1>8, NodesWithin
  <2>4. Cardinality(Within(bs, i, 0)) >= K
    BY <1>1, <1>12, <2>2, <2>3
  <2>5. 0 \in D
    BY <1>6, <2>4
  <2>6. d0 = 0
    BY <1>7, <1>8, <2>5
  <2> QED  BY <1>9, <2>3, <2>6
<1>13. IsFound(found, bs, i)
  BY <1>10, <1>11, <1>12 DEF IsFound
<1> QED  BY <1>3, <1>9, <1>13

\* Of the IDs in a table, those in the range of a bucket are closer to an ID of that range
\* than those in other buckets.
LEMMA LocalIsCloser ==
    ASSUME NEW seen, NEW bs, IsTable(bs, seen), NEW num \in Ids, NEW i, IsIndex(bs, num, i),
           NEW n \in ToSet(bs[i].nodes), NEW m \in Members(bs), m \notin ToSet(bs[i].nodes)
    PROVE  Distance(num, n) < Distance(num, m)
<1>1. i \in 1..Len(bs) /\ bs[i].min <= num /\ num < bs[i].max
  BY DEF IsIndex
<1>2. IsBucket(bs[i], seen)
  BY <1>1 DEF IsTable
<1>3. PICK lo, hi : lo = bs[i].min /\ hi = bs[i].max
  OBVIOUS
<1>4. PICK k \in 0..Bits : IsBlock(lo, hi, k)
  BY <1>2, <1>3 DEF IsBucket, IsRange
<1>5. lo <= num /\ num < hi /\ lo <= n /\ n < hi
  BY <1>1, <1>2, <1>3 DEF IsBucket
<1>6. m \in Nodes
  BY MembersAreNodes
<1>7. n \in Members(bs) /\ n \in Nodes
  <2>1. n \in Members(bs)
    BY <1>1, TableType DEF Members
  <2> QED  BY <2>1, MembersAreNodes
<1>8. n \in Ids /\ m \in Ids
  BY <1>6, <1>7, KTableAssumption
<1>9. ~(lo <= m /\ m < hi)
  <2>1. SUFFICES ASSUME lo <= m, m < hi PROVE FALSE
    OBVIOUS
  <2>2. PICK j : j = BucketIndex(bs, m)
    OBVIOUS
  <2>3. IsIndex(bs, m, j) /\ m \in ToSet(bs[j].nodes)
    BY <1>6, <2>2, MemberIsFound
  <2>4. i = j
    BY <1>1, <1>3, <2>1, <2>3 DEF IsIndex
  <2> QED  BY <2>3, <2>4
<1> QED  BY <1>4, <1>5, <1>8, <1>9, BlockIsClose

\* The first elements of a list sorted by distance.
LEMMA FirstByDistance ==
    ASSUME NEW list, NEW S, NEW num, IsByDistance(list, S, num), Cardinality(S) \in Nat,
           NEW L \in Nat, L <= Cardinality(S), NEW first, first = SubSeq(list, 1, L)
    PROVE  /\ Len(first) = L /\ DOMAIN first = 1..L
           /\ \A j \in 1..L : first[j] = list[j] /\ first[j] \in S
<1>1. list \in Seq(S) /\ Len(list) = Cardinality(S)
  BY DEF IsByDistance
<1>2. \A j \in 1..L : j \in 1..Len(list) /\ list[j] \in S
  BY <1>1, ElementOfSeq
<1>3. /\ SubSeq(list, 1, L) \in Seq(S)
      /\ Len(SubSeq(list, 1, L)) = IF 1 <= L THEN L - 1 + 1 ELSE 0
      /\ \A j \in 1..(L - 1 + 1) : SubSeq(list, 1, L)[j] = list[1 + j - 1]
  BY <1>2, SubSeqProperties
<1>4. Len(first) = L /\ first \in Seq(S)
  BY <1>3
<1>5. DOMAIN first = 1..L
  BY <1>4, LenProperties
<1>6. \A j \in 1..L : first[j] = list[j]
  <2>1. \A j \in 1..L : j \in 1..(L - 1 + 1) /\ 1 + j - 1 = j
    OBVIOUS
  <2> QED  BY <1>3, <2>1
<1> QED  BY <1>2, <1>4, <1>5, <1>6

\* What findNodes answers from a table.
LEMMA InvMeansReliable == TableInv => FindNodesReliable
<1> SUFFICES ASSUME TableInv, NEW num \in Ids
             PROVE  LET found == FindNodes(buckets, num)
                        local == buckets[BucketIndex(buckets, num)].nodes
                    IN  /\ Len(found) = Min({K, Cardinality(Members(buckets))})
                        /\ ToSet(found) \subseteq Members(buckets)
                        /\ \A x, y \in 1..Len(found) :
                             x < y => Distance(num, found[x]) < Distance(num, found[y])
                        /\ Len(local) = K => IsClosest(num, ToSet(found))
                        /\ local # <<>> => IsClosest(num, {found[1]})
  BY DEF FindNodesReliable
<1>1. IsTable(buckets, lastSeen) /\ lastSeen \in [Nodes -> Nat]
  BY DEF TableInv, TableTypeOK
<1>2. PICK i : i = BucketIndex(buckets, num)
  OBVIOUS
<1>3. IsIndex(buckets, num, i) /\ i \in 1..Len(buckets)
  <2>1. num \in Nat /\ num < Power[Bits]
    BY OwnType DEF Ids
  <2> QED  BY <1>1, <1>2, <2>1, BisectionFinds DEF IsIndex
<1>4. PICK S : /\ IsFound(S, buckets, i)
               /\ FindNodes(buckets, num) = SubSeq(ByDistance(S, num), 1, Min({K, Cardinality(S)}))
  BY <1>1, <1>2, <1>3, FindNodesCollects
<1>5. PICK members, local : members = Members(buckets) /\ local = buckets[i].nodes
  OBVIOUS
<1>6. ToSet(local) \subseteq S /\ S \subseteq members /\ members \subseteq Ids
  <2>1. members \subseteq Nodes
    BY <1>1, <1>5, MembersAreNodes
  <2> QED  BY <1>4, <1>5, <2>1, KTableAssumption DEF IsFound
<1>7. PICK list, N : list = ByDistance(S, num) /\ N = Cardinality(S)
  OBVIOUS
<1>8. IsByDistance(list, S, num)
  <2>1. S \subseteq Ids
    BY <1>6
  <2> QED  BY <1>7, <2>1, SortsByDistance
<1>9. N \in Nat /\ IsFiniteSet(members) /\ Cardinality(members) \in Nat /\ N <= Cardinality(members)
  <2>1. IsFiniteSet(members) /\ Cardinality(members) \in Nat
    BY <1>6, IdsAreFinite
  <2>2. N \in Nat
    <3>1. S \subseteq Ids
      BY <1>6
    <3> QED  BY <1>7, <3>1, IdsAreFinite
  <2> QED  BY <1>6, <1>7, <2>1, <2>2, FS_Subset
<1>10. K \in Nat /\ K >= 1
  BY KTableAssumption
<1>11. PICK L : L = Min({K, N})
  OBVIOUS
<1>12. L = IF K <= N THEN K ELSE N
  BY <1>9, <1>10, <1>11, MinOfTwo
<1>13. L \in Nat /\ L <= N
  BY <1>9, <1>10, <1>12
<1>14. PICK found : found = FindNodes(buckets, num)
  OBVIOUS
<1>15. found = SubSeq(list, 1, L)
  BY <1>4, <1>7, <1>11, <1>14
<1>16. /\ Len(found) = L /\ DOMAIN found = 1..L
       /\ \A j \in 1..L : found[j] = list[j] /\ found[j] \in S
  <2>1. Cardinality(S) \in Nat /\ L <= Cardinality(S)
    BY <1>7, <1>9, <1>13
  <2> QED  BY <1>8, <1>13, <1>15, <2>1, FirstByDistance
<1>17. Len(found) = Min({K, Cardinality(members)})
  <2>1. Min({K, Cardinality(members)}) = IF K <= Cardinality(members) THEN K ELSE Cardinality(members)
    BY <1>9, <1>10, MinOfTwo
  <2>2. N >= K \/ N = Cardinality(members)
    BY <1>4, <1>5, <1>7 DEF IsFound
  <2> QED  BY <1>9, <1>10, <1>12, <1>16, <2>1, <2>2
<1>18. ToSet(found) \subseteq S
  BY <1>16 DEF ToSet
<1>19. \A x, y \in 1..N : x < y => Distance(num, list[x]) < Distance(num, list[y])
  BY <1>7, <1>8 DEF IsByDistance
<1>20. \A x, y \in 1..Len(found) : x < y => Distance(num, found[x]) < Distance(num, found[y])
  <2>1. \A x \in 1..L : x \in 1..N
    BY <1>9, <1>13
  <2> QED  BY <1>16, <1>19, <2>1
<1>21. ASSUME NEW n \in ToSet(local), NEW m \in members, m \notin ToSet(local)
       PROVE  Distance(num, n) < Distance(num, m)
  BY <1>1, <1>3, <1>5, <1>21, LocalIsCloser
<1>22. ASSUME Len(local) = K PROVE IsClosest(num, ToSet(found))
  <2>1. S = ToSet(local)
    BY <1>4, <1>5, <1>22 DEF IsFound
  <2>2. N = K
    <3>1. IsBucket(buckets[i], lastSeen)
      BY <1>1, <1>3 DEF IsTable
    <3>2. Lists(local, ToSet(local), lastSeen)
      BY <1>5, <3>1 DEF IsBucket
    <3>3. Cardinality(ToSet(local)) = Len(local)
      BY <1>1, <3>2, ListsCount
    <3> QED  BY <1>7, <1>22, <2>1, <3>3
  <2>3. L = N
    BY <1>9, <1>10, <1>12, <2>2
  <2>4. S \subseteq ToSet(found)
    <3>1. ASSUME NEW n \in S PROVE n \in ToSet(found)
      <4>1. PICK j \in 1..N : list[j] = n
        BY <1>7, <1>8 DEF IsByDistance
      <4> QED  BY <1>16, <2>3, <4>1 DEF ToSet
    <3> QED  BY <3>1
  <2>5. ToSet(found) = ToSet(local)
    BY <1>18, <2>1, <2>4
  <2> QED  BY <1>5, <1>21, <2>5 DEF IsClosest
<1>23. ASSUME local # <<>> PROVE IsClosest(num, {found[1]})
  <2>1. PICK first : first = found[1]
    OBVIOUS
  <2>2. PICK n : n \in ToSet(local)
    <3>1. IsBucket(buckets[i], lastSeen)
      BY <1>1, <1>3 DEF IsTable
    <3>2. local \in Seq(Nodes)
      BY <1>5, <3>1, BucketType
    <3>3. 1 \in DOMAIN local
      BY <1>23, <3>2
    <3> QED  BY <3>3 DEF ToSet
  <2>3. n \in S
    BY <1>6, <2>2
  <2>4. PICK p \in 1..N : list[p] = n
    BY <1>7, <1>8, <2>3 DEF IsByDistance
  <2>5. L >= 1 /\ 1 \in 1..N
    BY <1>9, <1>10, <1>12, <2>4
  <2>6. first = list[1] /\ first \in S
    BY <1>13, <1>16, <2>1, <2>5
  <2>7. ASSUME NEW m \in members, m # first PROVE Distance(num, first) < Distance(num, m)
    <3>1. CASE m \in S
      <4>1. PICK q \in 1..N : list[q] = m
        BY <1>7, <1>8, <3>1 DEF IsByDistance
      <4>2. q # 1
        BY <2>6, <2>7, <4>1
      <4>3. 1 < q
        BY <4>1, <4>2
      <4> QED  BY <1>19, <2>5, <2>6, <4>1, <4>3
    <3>2. CASE m \notin S
      <4>1. m \notin ToSet(local)
        BY <1>6, <3>2
      <4>2. Distance(num, n) < Distance(num, m)
        BY <1>21, <2>2, <4>1
      <4>3. Distance(num, first) \in Nat /\ Distance(num, n) \in Nat /\ Distance(num, m) \in Nat
        <5>1. first \in Ids /\ n \in Ids /\ m \in Ids
          BY <1>6, <2>3, <2>6
        <5> QED  BY <5>1, DistanceType
      <4>4. Distance(num, first) <= Distance(num, n)
        <5>1. CASE p = 1
          BY <2>4, <2>6, <4>3, <5>1
        <5>2. CASE p # 1
          <6>1. 1 < p
            BY <5>2
          <6>2. Distance(num, first) < Distance(num, n)
            BY <1>19, <2>4, <2>5, <2>6, <6>1
          <6> QED  BY <4>3, <6>2
        <5> QED  BY <5>1, <5>2
      <4> QED  BY <4>2, <4>3, <4>4
    <3> QED  BY <3>1, <3>2
  <2> QED  BY <1>5, <2>1, <2>7 DEF IsClosest
<1>24. ToSet(found) \subseteq members
  BY <1>6, <1>18
<1> QED  BY <1>2, <1>5, <1>14, <1>17, <1>20, <1>22, <1>23, <1>24

\* FindNodesReliable of findNodes (ktable.py): for any ID length, bucket size and node IDs
\* it finds up to K of the nodes there are, nearest first, the closest of all if the bucket
\* of the ID is full, and the closest one first if that bucket is not empty.
THEOREM FindNodesAnswers == TableSpec => []FindNodesReliable
BY InvMeansReliable, TableInvariance, PTL
=============================================================================
