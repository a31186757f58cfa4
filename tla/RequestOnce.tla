---------------------------- MODULE RequestOnce ----------------------------
(***************************************************************************)
(* What a caller of KRPC.sendRequest, of an HTTP Peer's submitRequest, of  *)
(* the DHT's join, getValue and storeValue, or apt, whose requests go to   *)
(* the main program's get_resp, is promised: the Deferred it gets back is  *)
(* concluded exactly once, with an answer, an error, a timeout or a notice *)
(* that the call was refused or the protocol stopped, and what it was      *)
(* concluded with never changes.  Nothing is said of timers,               *)
(* retransmissions, connections, queues or addresses.                      *)
(***************************************************************************)
CONSTANT Reqs   \* the requests that callers may make

Outcomes == {"answered", "error", "timeout", "stopped"}

VARIABLE status \* status[r]: how far the Deferred of request r is

TypeOK == status \in [Reqs -> {"none", "pending"} \cup Outcomes]

Init == status = [r \in Reqs |-> "none"]

\* A caller makes request r; it may be refused at once.
Issue(r) ==
    /\ status[r] = "none"
    /\ \E s \in {"pending", "stopped"} : status' = [status EXCEPT ![r] = s]

\* The Deferreds of some pending requests fire: more than one where the event that
\* ends one request ends others as well, the others all in the same way.
Conclude(R) ==
    /\ \A r \in R : status[r] = "pending"
    /\ \E first \in R, outcome \in Outcomes, others \in Outcomes :
         status' = [r \in Reqs |-> IF r = first THEN outcome
                                  ELSE IF r \in R THEN others ELSE status[r]]

\* The Deferreds of R fire, and in their callbacks the requests N are made.
ConcludeAndIssue(R, N) ==
    /\ R # {}
    /\ \A r \in R : status[r] = "pending"
    /\ \A r \in N : status[r] = "none"
    /\ \E outcome \in Outcomes, s \in {"pending", "stopped"} :
         status' = [r \in Reqs |-> IF r \in R THEN outcome
                                  ELSE IF r \in N THEN s ELSE status[r]]

\* The requests whose Deferreds a step fires, and those that it makes.
Concluded == {r \in Reqs : status[r] = "pending" /\ status'[r] # "pending"}
Issued == {r \in Reqs : status[r] = "none" /\ status'[r] # "none"}

Next ==
    \/ \E r \in Reqs : Issue(r)
    \/ Conclude(Concluded)
    \/ ConcludeAndIssue(Concluded, Issued)

Safety == Init /\ [][Next]_status

\* No request stays pending for ever.
Fairness ==
    \A r \in Reqs : WF_status(\E R \in SUBSET Reqs : r \in R /\ Conclude(R))

Spec == Safety /\ Fairness
=============================================================================
