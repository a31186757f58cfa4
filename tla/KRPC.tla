-------------------------------- MODULE KRPC --------------------------------
(***************************************************************************)
(* The client side of the DHT's UDP protocol: krpc.py's hostbroker (one    *)
(* KRPC object per remote address), KRPC (its table of outstanding         *)
(* transactions) and KrpcRequest (the Deferred of one request, with the    *)
(* three delayed calls that send it, resend it and time it out).           *)
(*                                                                         *)
(* A delayed call is modelled by the number of clock units left before it  *)
(* is due, or Off.  The reactor may be late by at most MaxLate units and   *)
(* runs due calls in the order of their times.  The Deferred's callbacks   *)
(* belong to the caller: the only thing they do here is make requests.     *)
(***************************************************************************)
EXTENDS Integers

CONSTANTS
    Conns,              \* remote addresses, each with a KRPC object once used
    Reqs,               \* requests, each with a transaction ID of its own
    None,               \* no connection
    Off,                \* a delayed call that is not pending
    KRPC_TIMEOUT,       \* seconds until a request is given up
    KRPC_INITIAL_DELAY, \* seconds until it is sent again the first time
    MaxLate,            \* bound on how late the reactor runs a delayed call
    Reentrant           \* may a callback run by stop() ask the stopping node again?

ASSUME TimesAssumption ==
    /\ KRPC_TIMEOUT \in Nat \ {0}
    /\ KRPC_INITIAL_DELAY \in Nat \ {0}
    /\ MaxLate \in Nat
ASSUME OffAssumption == Off \notin Int
ASSUME NoneAssumption == None \notin Conns
ASSUME ReentrantAssumption == Reentrant \in BOOLEAN

Outcomes == {"answered", "error", "timeout", "stopped"}

VARIABLES
    listening,          \* whether the UDP port is open
    connections,        \* hostbroker.connections: addresses with a KRPC object
    stopped,            \* KRPC.stopped
    tids,               \* KRPC.tids: outstanding transactions of each address
    conn,               \* the address a request was made to, or None
    laterSend,          \* the callLater(0, self.send) of a request
    laterNextTimeout,   \* KrpcRequest.laterNextTimeout
    laterFinalTimeout,  \* KrpcRequest.laterFinalTimeout
    delay,              \* KrpcRequest.delay
    elapsed,            \* datetime.now() - KrpcRequest.start
    outcome,            \* what a request's Deferred was fired with, or "none"
    fires,              \* how often it was fired
    sent,               \* how many datagrams were written for a request
    toStop,             \* stopProtocol's loop: KRPC objects still to be stopped
    stopping,           \* the KRPC object whose stop() is running, or None
    toFail,             \* stop()'s loop: requests still to be errbacked
    inCallback          \* whether stop() is inside a caller's errback

timers == <<laterSend, laterNextTimeout, laterFinalTimeout>>
stopVars == <<toStop, stopping, toFail, inCallback>>
vars == <<listening, connections, stopped, tids, conn, timers, delay, elapsed,
          outcome, fires, sent, stopVars>>

Left == Int \cup {Off}
\* elapsed is not counted beyond the point where no condition tells it apart
ElapsedCap == KRPC_TIMEOUT + MaxLate + 1

TypeOK ==
    /\ listening \in BOOLEAN
    /\ connections \subseteq Conns
    /\ stopped \in [Conns -> BOOLEAN]
    /\ tids \in [Conns -> SUBSET Reqs]
    /\ conn \in [Reqs -> Conns \cup {None}]
    /\ laterSend \in [Reqs -> Left]
    /\ laterNextTimeout \in [Reqs -> Left]
    /\ laterFinalTimeout \in [Reqs -> Left]
    /\ delay \in [Reqs -> Nat]
    /\ elapsed \in [Reqs -> 0..ElapsedCap]
    /\ outcome \in [Reqs -> Outcomes \cup {"none"}]
    /\ fires \in [Reqs -> Nat]
    /\ sent \in [Reqs -> Nat]
    /\ toStop \subseteq Conns
    /\ stopping \in Conns \cup {None}
    /\ toFail \subseteq Reqs
    /\ inCallback \in BOOLEAN

Init ==
    /\ listening = TRUE
    /\ connections = {}
    /\ stopped = [c \in Conns |-> FALSE]
    /\ tids = [c \in Conns |-> {}]
    /\ conn = [r \in Reqs |-> None]
    /\ laterSend = [r \in Reqs |-> Off]
    /\ laterNextTimeout = [r \in Reqs |-> Off]
    /\ laterFinalTimeout = [r \in Reqs |-> Off]
    /\ delay = [r \in Reqs |-> KRPC_INITIAL_DELAY]
    /\ elapsed = [r \in Reqs |-> 0]
    /\ outcome = [r \in Reqs |-> "none"]
    /\ fires = [r \in Reqs |-> 0]
    /\ sent = [r \in Reqs |-> 0]
    /\ toStop = {}
    /\ stopping = None
    /\ toFail = {}
    /\ inCallback = FALSE

-----------------------------------------------------------------------------
(* The reactor. *)

\* stopProtocol runs to its end within one reactor event: meanwhile only it
\* and the callbacks it fires make steps.
ReactorFree == toStop = {} /\ stopping = None

\* A pending call may run when it is due and no pending call is due earlier.
Due(left) ==
    /\ ReactorFree
    /\ left # Off
    /\ left <= 0
    /\ \A r \in Reqs :
         /\ laterSend[r] # Off => left <= laterSend[r]
         /\ laterNextTimeout[r] # Off => left <= laterNextTimeout[r]
         /\ laterFinalTimeout[r] # Off => left <= laterFinalTimeout[r]

OneUnitLess(later) ==
    [r \in Reqs |-> IF later[r] = Off THEN Off ELSE later[r] - 1]

NotTooLate(later) == \A r \in Reqs : later[r] # Off => later[r] > -MaxLate

\* One unit of time passes.
Tick ==
    /\ ReactorFree
    /\ NotTooLate(laterSend)
    /\ NotTooLate(laterNextTimeout)
    /\ NotTooLate(laterFinalTimeout)
    /\ laterSend' = OneUnitLess(laterSend)
    /\ laterNextTimeout' = OneUnitLess(laterNextTimeout)
    /\ laterFinalTimeout' = OneUnitLess(laterFinalTimeout)
    /\ elapsed' = [r \in Reqs |->
         IF conn[r] # None /\ elapsed[r] < ElapsedCap THEN elapsed[r] + 1 ELSE elapsed[r]]
    /\ UNCHANGED <<listening, connections, stopped, tids, conn, delay, outcome,
                   fires, sent, stopVars>>

-----------------------------------------------------------------------------
(* KrpcRequest and KRPC. *)

\* KrpcRequest.callback and .errback: dropTimeOut, then Deferred.callback or
\* .errback, which refuses to fire twice with an AlreadyCalledError.
Conclude(r, o) ==
    /\ laterNextTimeout' = [laterNextTimeout EXCEPT ![r] = Off]
    /\ laterFinalTimeout' = [laterFinalTimeout EXCEPT ![r] = Off]
    /\ outcome' = [outcome EXCEPT ![r] = IF fires[r] = 0 THEN o ELSE @]
    /\ fires' = [fires EXCEPT ![r] = @ + 1]

\* Mutant of SendRequest: the final timeout is never scheduled.
UntimedSendRequest(c, r) ==
    /\ ReactorFree \/ inCallback
    /\ stopping = c => Reentrant
    /\ conn[r] = None
    /\ ~stopped[c]
    /\ conn' = [conn EXCEPT ![r] = c]
    /\ connections' = connections \cup {c}
    /\ tids' = [tids EXCEPT ![c] = @ \cup {r}]
    /\ laterSend' = [laterSend EXCEPT ![r] = 0]
    /\ UNCHANGED <<listening, stopped, laterNextTimeout, laterFinalTimeout, delay,
                   elapsed, outcome, fires, sent, stopVars>>

\* KRPC.sendRequest on the connection of address c, with r the new transaction
\* ID.  A stopped protocol refuses with defer.fail; otherwise the KrpcRequest
\* is created with its final timeout and its first send scheduled.
SendRequest(c, r) ==
    /\ ReactorFree \/ inCallback
    /\ stopping = c => Reentrant
    /\ conn[r] = None
    /\ conn' = [conn EXCEPT ![r] = c]
    /\ connections' = connections \cup {c}
    /\ \/ /\ stopped[c]
          /\ outcome' = [outcome EXCEPT ![r] = "stopped"]
          /\ fires' = [fires EXCEPT ![r] = @ + 1]
          /\ UNCHANGED <<tids, laterSend, laterFinalTimeout>>
       \/ /\ ~stopped[c]
          /\ tids' = [tids EXCEPT ![c] = @ \cup {r}]
          /\ laterSend' = [laterSend EXCEPT ![r] = 0]
          /\ laterFinalTimeout' = [laterFinalTimeout EXCEPT ![r] = KRPC_TIMEOUT]
          /\ UNCHANGED <<outcome, fires>>
    /\ UNCHANGED <<listening, stopped, laterNextTimeout, delay, elapsed, sent, stopVars>>

\* KrpcRequest.send: the assertion on laterNextTimeout, the next timeout, and
\* KRPC.sendData, whose failure on a closed port is only logged.
Send(r) ==
    /\ Due(laterSend[r])
    /\ laterSend' = [laterSend EXCEPT ![r] = Off]
    /\ IF laterNextTimeout[r] = Off
       THEN /\ laterNextTimeout' = [laterNextTimeout EXCEPT ![r] = delay[r]]
            /\ sent' = [sent EXCEPT ![r] = IF listening THEN @ + 1 ELSE @]
       ELSE UNCHANGED <<laterNextTimeout, sent>>
    /\ UNCHANGED <<listening, connections, stopped, tids, conn, laterFinalTimeout,
                   delay, elapsed, outcome, fires, stopVars>>

\* Mutant of FinalTimeout: the transaction is dropped, its Deferred never fired.
SilentFinalTimeout(r) ==
    /\ laterNextTimeout' = [laterNextTimeout EXCEPT ![r] = Off]
    /\ laterFinalTimeout' = [laterFinalTimeout EXCEPT ![r] = Off]
    /\ tids' = [tids EXCEPT ![conn[r]] = @ \ {r}]
    /\ UNCHANGED <<outcome, fires>>

\* KrpcRequest.finalTimeout and KRPC.timeOut: drop the timeouts and errback the
\* request if its transaction is still outstanding.
FinalTimeout(r) ==
    /\ IF r \in tids[conn[r]]
       THEN /\ tids' = [tids EXCEPT ![conn[r]] = @ \ {r}]
            /\ Conclude(r, "timeout")
       ELSE /\ laterNextTimeout' = [laterNextTimeout EXCEPT ![r] = Off]
            /\ laterFinalTimeout' = [laterFinalTimeout EXCEPT ![r] = Off]
            /\ UNCHANGED <<tids, outcome, fires>>

RunFinalTimeout(r) ==
    /\ Due(laterFinalTimeout[r])
    /\ FinalTimeout(r)
    /\ UNCHANGED <<listening, connections, stopped, conn, laterSend, delay, elapsed,
                   sent, stopVars>>

\* KrpcRequest.nextTimeout: give up if the request is too old, do nothing if the
\* protocol has been stopped, else double the delay and schedule another send.
\* The code compares fractions of a unit, so that at equality either may happen.
NextTimeout(r) ==
    /\ Due(laterNextTimeout[r])
    /\ \/ /\ elapsed[r] >= KRPC_TIMEOUT
          /\ FinalTimeout(r)
          /\ UNCHANGED <<laterSend, delay>>
       \/ /\ elapsed[r] <= KRPC_TIMEOUT
          /\ laterNextTimeout' = [laterNextTimeout EXCEPT ![r] = Off]
          /\ IF stopped[conn[r]]
             THEN UNCHANGED <<laterSend, delay>>
             ELSE /\ delay' = [delay EXCEPT ![r] = 2 * @]
                  /\ laterSend' = [laterSend EXCEPT ![r] = 0]
          /\ UNCHANGED <<tids, laterFinalTimeout, outcome, fires>>
    /\ UNCHANGED <<listening, connections, stopped, conn, elapsed, sent, stopVars>>

\* KRPC.datagramReceived of a response (RSP: answered) or an error (ERR, or a
\* message of an unknown type) that bears the transaction ID of r and comes from
\* address c.  UDP may lose, duplicate and delay it: it may arrive at any time
\* and any number of times once the request has been written, or never.
Receive(c, r, o) ==
    /\ ReactorFree
    /\ listening
    /\ sent[r] > 0
    /\ connections' = connections \cup {c}
    /\ IF r \in tids[c]
       THEN /\ tids' = [tids EXCEPT ![c] = @ \ {r}]
            /\ Conclude(r, o)
       ELSE UNCHANGED <<tids, laterNextTimeout, laterFinalTimeout, outcome, fires>>
    /\ UNCHANGED <<listening, stopped, conn, laterSend, delay, elapsed, sent, stopVars>>

-----------------------------------------------------------------------------
(* Shutting down: hostbroker.stopProtocol and KRPC.stop. *)

\* The port is closed and stopProtocol starts its loop over connections.values().
StopProtocol ==
    /\ ReactorFree
    /\ listening
    /\ listening' = FALSE
    /\ toStop' = connections
    /\ UNCHANGED <<connections, stopped, tids, conn, timers, delay, elapsed, outcome,
                   fires, sent, stopping, toFail, inCallback>>

\* KRPC.stop starts its loop over a snapshot of tids.values().
StopConn(c) ==
    /\ stopping = None
    /\ c \in toStop
    /\ toStop' = toStop \ {c}
    /\ stopping' = c
    /\ toFail' = tids[c]
    /\ UNCHANGED <<listening, connections, stopped, tids, conn, timers, delay, elapsed,
                   outcome, fires, sent, inCallback>>

\* One turn of the loop: the errback runs the caller's callbacks.
StopErrback(r) ==
    /\ stopping # None
    /\ r \in toFail
    /\ toFail' = toFail \ {r}
    /\ inCallback' = TRUE
    /\ Conclude(r, "stopped")
    /\ UNCHANGED <<listening, connections, stopped, tids, conn, laterSend, delay,
                   elapsed, sent, toStop, stopping>>

\* The end of KRPC.stop: self.tids = {}; self.stopped = True.
StopFinish ==
    /\ stopping # None
    /\ toFail = {}
    /\ tids' = [tids EXCEPT ![stopping] = {}]
    /\ stopped' = [stopped EXCEPT ![stopping] = TRUE]
    /\ stopping' = None
    /\ inCallback' = FALSE
    /\ UNCHANGED <<listening, connections, conn, timers, delay, elapsed, outcome,
                   fires, sent, toStop, toFail>>

-----------------------------------------------------------------------------

RunDelayedCall == \E r \in Reqs : Send(r) \/ NextTimeout(r) \/ RunFinalTimeout(r)

Stop == StopFinish \/ (\E c \in Conns : StopConn(c)) \/ (\E r \in Reqs : StopErrback(r))

Datagram ==
    \E c \in Conns, r \in Reqs, o \in {"answered", "error"} : Receive(c, r, o)

Next ==
    \/ Tick
    \/ RunDelayedCall
    \/ Stop
    \/ StopProtocol
    \/ Datagram
    \/ \E c \in Conns, r \in Reqs : SendRequest(c, r)

\* The clock and the reactor never stop, and a running stop() goes on; nobody is
\* obliged to make requests, to answer them or to shut down.
Fairness == WF_vars(Tick) /\ WF_vars(RunDelayedCall) /\ WF_vars(Stop)

Safety == Init /\ [][Next]_vars
Spec == Safety /\ Fairness

-----------------------------------------------------------------------------
(* Properties. *)

Pending(r) == conn[r] # None /\ outcome[r] = "none"

\* The assertion in KrpcRequest.send, 'There is already a pending request', never
\* fails: a request's send and its next timeout are never both scheduled, however
\* answers, timeouts and retransmissions interleave.
SendNeverOverlaps ==
    \A r \in Reqs : laterSend[r] = Off \/ laterNextTimeout[r] = Off

\* A Deferred is never fired twice (Twisted would raise AlreadyCalledError),
\* whatever answer, error, timeout and stop() race for it.
FiredAtMostOnce == \A r \in Reqs : fires[r] <= 1

\* As long as a transaction is in a table of outstanding ones its request has not
\* been concluded and its final timeout is scheduled, so that it cannot be forgotten;
\* only a running stop() leaves concluded ones in the table it is about to clear.
OutstandingIsTimed ==
    \A c \in Conns \ {stopping} : \A r \in tids[c] :
        Pending(r) /\ conn[r] = c /\ laterFinalTimeout[r] # Off

\* A request is not pending for longer than KRPC_TIMEOUT plus the reactor's delay.
PendingIsYoung ==
    \A r \in Reqs : Pending(r) => elapsed[r] <= KRPC_TIMEOUT + MaxLate

\* When stop() is over, no request made to that address is left unconcluded.
StopConcludes ==
    \A r \in Reqs : Pending(r) => ~stopped[conn[r]]

\* The caller's view of this module.
status == [r \in Reqs |->
    IF conn[r] = None THEN "none"
    ELSE IF outcome[r] = "none" THEN "pending" ELSE outcome[r]]

\* KRPC and its timers implement the one-shot promise, including that every
\* request is concluded some day.
Once == INSTANCE RequestOnce WITH Reqs <- Reqs, status <- status
OnceSpec == Once!Spec
=============================================================================
