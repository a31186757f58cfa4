-------------------------------- MODULE Peer --------------------------------
(***************************************************************************)
(* HTTPDownloader.Peer, the queue of HTTP requests to one peer, with the   *)
(* client protocol (LoggingHTTPClientProtocol) of its current connection.  *)
(*                                                                         *)
(* Requests wait in request_queue until processQueue, always run by a      *)
(* callLater(0), may hand them to the protocol; the protocol keeps them in *)
(* inRequests until their responses have been read.  What twisted.web2's   *)
(* HTTPClientProtocol does in between is modelled from how its overridden  *)
(* methods are used.  A request has no body: writing it ends at once, and  *)
(* the protocol's outRequest is None between two handlers.                 *)
(***************************************************************************)
EXTENDS Naturals, Sequences

CONSTANTS
    Reqs,           \* the requests that callers may submit
    MaxScheduled    \* bound on the pending callLater(0, processQueue)

ASSUME MaxScheduledAssumption == MaxScheduled \in Nat \ {0}

VARIABLES
    request_queue,  \* Peer.request_queue
    connecting,     \* Peer.connecting
    closed,         \* Peer.closed
    busy,           \* Peer.busy
    pipeline,       \* Peer.pipeline
    peer_outstanding, \* Peer.outstanding
    scheduled,      \* how many callLater(0, self.processQueue) are pending
    inRequests,     \* proto.inRequests
    reading,        \* whether the headers of the first of them have been read
    readPersistent, \* proto.readPersistent
    disconnecting,  \* whether the transport has been told to lose the connection
    status          \* of the Deferred that submitRequest returned for a request

proto == <<inRequests, reading, readPersistent, disconnecting>>
peerVars == <<request_queue, connecting, closed, busy, pipeline, peer_outstanding,
          scheduled, proto, status>>

Persistence == {"no", "no_pipeline", "pipeline"}

PeerTypeOK ==
    /\ request_queue \in Seq(Reqs)
    /\ connecting \in BOOLEAN
    /\ closed \in BOOLEAN
    /\ busy \in BOOLEAN
    /\ pipeline \in BOOLEAN
    /\ peer_outstanding \in Nat
    /\ scheduled \in 0..MaxScheduled
    /\ inRequests \in Seq(Reqs)
    /\ reading \in BOOLEAN
    /\ readPersistent \in Persistence
    /\ disconnecting \in BOOLEAN
    /\ status \in [Reqs -> {"none", "pending", "answered", "error"}]

PeerInit ==
    /\ request_queue = <<>>
    /\ connecting = FALSE
    /\ closed = TRUE
    /\ busy = FALSE
    /\ pipeline = FALSE
    /\ peer_outstanding = 0
    /\ scheduled = 0
    /\ inRequests = <<>>
    /\ reading = FALSE
    /\ readPersistent = "no"
    /\ disconnecting = FALSE
    /\ status = [r \in Reqs |-> "none"]

-----------------------------------------------------------------------------
(* Deferreds and delayed calls. *)

\* The Deferreds of the requests in R fire.  Twisted refuses to fire one twice.
Fired(R, o) ==
    [r \in Reqs |-> IF r \notin R THEN status[r]
                    ELSE IF status[r] = "pending" THEN o ELSE "fired_twice"]

\* reactor.callLater(0, self.processQueue), within the bound.
CallProcessQueue ==
    /\ scheduled < MaxScheduled
    /\ scheduled' = scheduled + 1

\* The requests in a sequence.
Members(s) == {s[i] : i \in 1..Len(s)}

\* Requests handed to the protocol whose Deferreds have not fired: all but the
\* first while the body of the first one's response is being read.
Unanswered == IF reading THEN Tail(inRequests) ELSE inRequests

-----------------------------------------------------------------------------
(* The peer's queue. *)

\* Peer.submitRequest, called by get and getRange.
SubmitRequest(r) ==
    /\ status[r] = "none"
    /\ status' = [status EXCEPT ![r] = "pending"]
    /\ request_queue' = Append(request_queue, r)
    /\ CallProcessQueue
    /\ UNCHANGED <<connecting, closed, busy, pipeline, peer_outstanding, proto>>

\* Peer.connect, from processQueue.
Connect ==
    /\ connecting' = TRUE
    /\ UNCHANGED <<request_queue, closed, busy, pipeline, peer_outstanding, proto, status>>

\* The conditions under which processQueue takes a request from the queue of an
\* open connection.
CanSend ==
    /\ busy => pipeline
    /\ peer_outstanding # 0 => pipeline
    /\ \/ readPersistent = "no_pipeline" /\ inRequests = <<>>
       \/ readPersistent = "pipeline"

\* processQueue pops a request and hands it to the protocol's submitRequest, which
\* calls clientBusy and, as the request is written at once, clientPipelining if
\* the connection is known to be pipelined.
Send ==
    /\ request_queue' = Tail(request_queue)
    /\ inRequests' = Append(inRequests, Head(request_queue))
    /\ peer_outstanding' = peer_outstanding + 1
    /\ busy' = TRUE
    /\ pipeline' = (pipeline \/ readPersistent = "pipeline")
    /\ scheduled' = IF readPersistent = "pipeline" THEN scheduled ELSE scheduled - 1
    /\ UNCHANGED <<connecting, closed, reading, readPersistent, disconnecting, status>>

\* Peer.processQueue, run by the reactor.  Its except branch is left out: the
\* assertions of the protocol's submitRequest are implied by CanSend.
ProcessQueue ==
    /\ scheduled > 0
    /\ \/ /\ request_queue # <<>> /\ ~connecting /\ closed
          /\ Connect
          /\ scheduled' = scheduled - 1
       \/ /\ request_queue # <<>> /\ ~connecting /\ ~closed /\ CanSend
          /\ Send
       \/ /\ \/ request_queue = <<>>
             \/ connecting
             \/ ~closed /\ ~CanSend
          /\ scheduled' = scheduled - 1
          /\ UNCHANGED <<request_queue, connecting, closed, busy, pipeline,
                         peer_outstanding, proto, status>>

\* Peer.connected.  The protocol is new.
Connected ==
    /\ connecting
    /\ connecting' = FALSE
    /\ closed' = FALSE
    /\ CallProcessQueue
    /\ inRequests' = <<>>
    /\ reading' = FALSE
    /\ readPersistent' = "no_pipeline"
    /\ disconnecting' = FALSE
    /\ UNCHANGED <<request_queue, busy, pipeline, peer_outstanding, status>>

\* Mutant of ClientGone: the queue is not looked at again.
ForgetfulClientGone(queue) ==
    /\ busy' = FALSE
    /\ pipeline' = FALSE
    /\ closed' = TRUE
    /\ connecting' = FALSE
    /\ UNCHANGED scheduled

\* Peer.clientGone, with queue what is left in the queue.
ClientGone(queue) ==
    /\ busy' = FALSE
    /\ pipeline' = FALSE
    /\ closed' = TRUE
    /\ connecting' = FALSE
    /\ IF queue = <<>> THEN UNCHANGED scheduled ELSE CallProcessQueue

\* Peer.connectionError: one request fails, the others make it connect again.
ConnectionError ==
    /\ connecting
    /\ request_queue # <<>>
    /\ request_queue' = Tail(request_queue)
    /\ status' = Fired({Head(request_queue)}, "error")
    /\ ClientGone(Tail(request_queue))
    /\ UNCHANGED <<peer_outstanding, proto>>

-----------------------------------------------------------------------------
(* The connection.  After loseConnection the transport reads nothing more. *)

Readable == ~closed /\ ~disconnecting /\ inRequests # <<>>

\* The headers of the first response have been read: setReadPersistent with what
\* they say, then requestComplete.  A connection that will not be kept aborts the
\* requests behind the first with requestError; one that turns out to be
\* pipelined calls clientPipelining.
ResponseBegins(persist) ==
    /\ Readable
    /\ ~reading
    /\ reading' = TRUE
    /\ readPersistent' = persist
    /\ IF persist = "no"
       THEN /\ inRequests' = <<Head(inRequests)>>
            /\ status' = [Fired(Members(Tail(inRequests)), "error")
                            EXCEPT ![Head(inRequests)] = Fired({Head(inRequests)}, "answered")[Head(inRequests)]]
            /\ peer_outstanding' = peer_outstanding - Len(inRequests)
       ELSE /\ inRequests' = inRequests
            /\ status' = Fired({Head(inRequests)}, "answered")
            /\ peer_outstanding' = peer_outstanding - 1
    /\ IF readPersistent = "no_pipeline" /\ persist = "pipeline"
       THEN pipeline' = TRUE /\ CallProcessQueue
       ELSE UNCHANGED <<pipeline, scheduled>>
    /\ UNCHANGED <<request_queue, connecting, closed, busy, disconnecting>>

\* The first line of a response is malformed: the request fails, those behind it
\* are aborted, and the connection is told to close.
ResponseMalformed ==
    /\ Readable
    /\ ~reading
    /\ inRequests' = <<>>
    /\ status' = Fired(Members(inRequests), "error")
    /\ peer_outstanding' = peer_outstanding - Len(inRequests)
    /\ readPersistent' = "no"
    /\ disconnecting' = TRUE
    /\ UNCHANGED <<request_queue, connecting, closed, busy, pipeline, scheduled, reading>>

\* The body of the first response has been read: requestReadFinished, with
\* clientIdle or loseConnection if it was the last.
ResponseEnds ==
    /\ Readable
    /\ reading
    /\ reading' = FALSE
    /\ inRequests' = Tail(inRequests)
    /\ IF Tail(inRequests) # <<>>
       THEN UNCHANGED <<busy, scheduled, disconnecting>>
       ELSE IF readPersistent # "no"
       THEN busy' = FALSE /\ CallProcessQueue /\ UNCHANGED disconnecting
       ELSE disconnecting' = TRUE /\ UNCHANGED <<busy, scheduled>>
    /\ UNCHANGED <<request_queue, connecting, closed, pipeline, peer_outstanding,
                   readPersistent, status>>

\* loseConnection for another reason: Peer.close, the protocol's timeout, or data
\* that no request asked for.
Close ==
    /\ ~closed
    /\ ~disconnecting
    /\ disconnecting' = TRUE
    /\ UNCHANGED <<request_queue, connecting, closed, busy, pipeline, peer_outstanding,
                   scheduled, inRequests, reading, readPersistent, status>>

\* Mutant of ConnectionLost: only the first of the requests is told.
FirstOnlyConnectionLost ==
    /\ ~closed
    /\ ClientGone(request_queue)
    /\ status' = IF reading THEN status ELSE Fired({inRequests[1] : i \in 1..Len(inRequests)}, "error")
    /\ peer_outstanding' = IF reading \/ inRequests = <<>> THEN peer_outstanding ELSE peer_outstanding - 1
    /\ inRequests' = <<>>
    /\ reading' = FALSE
    /\ readPersistent' = "no"
    /\ disconnecting' = FALSE
    /\ UNCHANGED request_queue

\* LoggingHTTPClientProtocol.connectionLost: clientGone first, then the first
\* request (the stream of its response, if there is one already) and the others
\* behind it are told.
ConnectionLost ==
    /\ ~closed
    /\ ClientGone(request_queue)
    /\ status' = Fired(Members(Unanswered), "error")
    /\ peer_outstanding' = peer_outstanding - Len(Unanswered)
    /\ inRequests' = <<>>
    /\ reading' = FALSE
    /\ readPersistent' = "no"
    /\ disconnecting' = FALSE
    /\ UNCHANGED request_queue

-----------------------------------------------------------------------------

ConnectEnds == Connected \/ ConnectionError

PeerResponse ==
    \/ \E persist \in Persistence : ResponseBegins(persist)
    \/ ResponseMalformed
    \/ ResponseEnds

PeerNext ==
    \/ \E r \in Reqs : SubmitRequest(r)
    \/ ProcessQueue
    \/ ConnectEnds
    \/ PeerResponse
    \/ Close
    \/ ConnectionLost

PeerSafety == PeerInit /\ [][PeerNext]_peerVars

\* The reactor runs what is scheduled; connectTCP has a timeout; a connection that
\* owes a response or has been told to close gets on or is lost, since the protocol
\* times out.  A connection that is lost again and again before anything could be
\* sent is not retried for ever only if the reactor wins the race some time.
PeerFairness ==
    /\ WF_peerVars(ProcessQueue)
    /\ WF_peerVars(ConnectEnds)
    /\ WF_peerVars(PeerResponse \/ (ConnectionLost /\ (disconnecting \/ inRequests # <<>>)))
    /\ SF_peerVars(ProcessQueue /\ inRequests' # inRequests)

PeerSpec == PeerSafety /\ PeerFairness

-----------------------------------------------------------------------------
(* Properties. *)

\* A request whose Deferred has not fired is in exactly one place, the queue or the
\* protocol, once, and no request there has been concluded: none is lost or sent
\* twice when a connection goes away with requests in it.  Peer.outstanding, kept by
\* requestComplete and requestError alone, is the number of those in the protocol: its
\* assertion (outstanding >= 0) never fails, and no connection that does not
\* pipeline stays unused because it is too high.
PendingIsHeld ==
    LET held == request_queue \o Unanswered
    IN  /\ Members(held) = {r \in Reqs : status[r] = "pending"}
        /\ \A i, j \in 1..Len(held) : held[i] = held[j] => i = j
        /\ reading => inRequests # <<>>
        /\ peer_outstanding = Len(Unanswered)

\* A queue with requests in it is never forgotten: processQueue is scheduled, a
\* connection attempt is under way, or the connection has a response to read or
\* has been told to close, each of which leads to another look at the queue.
NeverForgotten ==
    request_queue # <<>> =>
        \/ scheduled > 0
        \/ connecting
        \/ ~closed /\ (inRequests # <<>> \/ disconnecting)

\* To their callers the requests are the one-shot promises of RequestOnce, including
\* that each is concluded some day, through however many connections.
Once == INSTANCE RequestOnce WITH Reqs <- Reqs, status <- status
OnceSpec == Once!Spec
=============================================================================
