------------------------------- MODULE Action -------------------------------
(***************************************************************************)
(* The long running operations of the DHT (actions.py): the iterative      *)
(* search for the nodes closest to a target (FindNode, and FindValue which *)
(* differs in what it returns), and the retrieval of values from (GetValue)*)
(* and the storage of a value at (StoreValue) the nodes such a search      *)
(* found.  All share ActionBase: schedule() sends requests, gotResponse()  *)
(* and actionFailed() take the replies and call schedule() again.          *)
(*                                                                         *)
(* A node is known by its distance from the target.  Every request is      *)
(* answered or fails, once: that is what RequestOnce promises.             *)
(***************************************************************************)
EXTENDS Integers, FiniteSets, FiniteSetsExt

CONSTANTS
    Nodes,             \* nodes, as distances from the target
    Own,               \* the local node, where every search starts
    Values,            \* the values that may be stored under the target
    Kinds,             \* which of "find", "get" and "store" to consider
    K,                 \* number of closest nodes searched for
    CONCURRENT_REQS,   \* number of outstanding requests
    STORE_REDUNDANCY,  \* number of nodes to store a value at
    RETRIEVE_VALUES,   \* number of values to get; see apt-p2p.conf
    MaxValues          \* bound on the number of values a node says it has

ASSUME ActionAssumption ==
    /\ Nodes \subseteq Nat /\ IsFiniteSet(Nodes) /\ Own \in Nodes
    /\ IsFiniteSet(Values)
    /\ Kinds \subseteq {"find", "get", "store"}
    /\ K \in Nat \ {0} /\ CONCURRENT_REQS \in Nat \ {0} /\ STORE_REDUNDANCY \in Nat \ {0}
    /\ RETRIEVE_VALUES \in Int /\ MaxValues \in Nat \ {0}

VARIABLES
    kind,                \* which operation this is
    expect,              \* values the node said it has (get), or whether its token is known (store)
    initial,             \* the nodes that goWithNodes is called with
    started,             \* whether goWithNodes has been called
    found,               \* ActionBase.found
    queried,             \* ActionBase.queried
    answered,            \* ActionBase.answered; but for Own, reported to Khashmir.insertNode
    failed,              \* ActionBase.failed; but for Own, reported to Khashmir.nodeFailed
    outstanding,         \* ActionBase.outstanding: requests to wait for
    outstandingResults,  \* ActionBase.outstanding_results
    results,             \* ActionBase.results: values got, nodes stored at
    finished,            \* ActionBase.finished
    inFlight,            \* requests sent that have neither been answered nor failed
    calls,               \* how often the callback was given a final result
    result               \* the nodes it was given by a search

progress == <<queried, outstanding, outstandingResults, finished, inFlight, calls, result>>
vars == <<kind, initial, expect, started, found, answered, failed, results, progress>>

TypeOK ==
    /\ kind \in Kinds
    /\ initial \subseteq Nodes
    /\ expect \in [Nodes -> 0 .. MaxValues]
    /\ started \in BOOLEAN
    /\ found \subseteq Nodes /\ queried \subseteq found
    /\ answered \subseteq queried /\ failed \subseteq queried
    /\ outstanding \subseteq queried
    /\ outstandingResults \in Nat
    /\ results \subseteq Values \cup Nodes
    /\ finished \in BOOLEAN
    /\ inFlight \subseteq queried
    /\ calls \in Nat
    /\ result \subseteq Nodes

\* What goWithNodes is called with, as the values that the nodes say they have (get) or
\* whether their tokens are known (store).  findNode and findValue begin with the local
\* node.
GivenToFind == {[n \in {Own} |-> 0]}

\* valueForKey: the nodes that FindValue found values at, the local one among them if
\* it has values itself.
GivenToGet == UNION {[nodes -> 1 .. MaxValues] : nodes \in SUBSET Nodes}

\* storeValueForKey: the closest nodes that FindNode found, with the tokens of those that
\* have answered it.
GivenToStore ==
    UNION {[nodes -> {0, 1}] : nodes \in {s \in SUBSET Nodes : Cardinality(s) <= K}}

Given ==
    CASE kind = "find" -> GivenToFind
      [] kind = "get" -> GivenToGet
      [] kind = "store" -> GivenToStore

Init ==
    /\ kind \in Kinds
    /\ \E given \in Given :
         /\ initial = DOMAIN given
         /\ expect = [n \in Nodes |-> IF n \in DOMAIN given THEN given[n] ELSE 0]
    /\ started = FALSE
    /\ found = {} /\ queried = {} /\ answered = {} /\ failed = {}
    /\ outstanding = {} /\ outstandingResults = 0
    /\ results = {}
    /\ finished = FALSE
    /\ inFlight = {}
    /\ calls = 0 /\ result = {}

-----------------------------------------------------------------------------
(* schedule() *)

\* desired_results; 0 stands for None too, since the code only tests its truth.
Desired == CASE kind = "find" -> 0
             [] kind = "get" -> RETRIEVE_VALUES
             [] kind = "store" -> STORE_REDUNDANCY

Wanted == Max({Desired, -Desired})

\* generateArgs: whether the node is asked at all, which it is not if it has no values
\* or its token is unknown (a ValueError).
Askable(n) == kind = "find" \/ expect[n] > 0

\* The results that a set of nodes promises, and the number of them.
Promised(out) == {promise \in out \X (1 .. MaxValues) : promise[2] <= expect[promise[1]]}
Total(out) == Cardinality(Promised(out))

Closest(nodes) == {n \in nodes : Cardinality({m \in nodes : m < n}) < K}

\* getNodesToProcess: a search looks at the closest nodes that have not failed, the
\* others at all the nodes they were given.
ToProcess(fnd, bad) == IF kind = "find" THEN Closest(fnd \ bad) ELSE fnd

\* Mutant of IsDone: any K answers end a search.
HastyIsDone(nodes, ans, res) ==
    \/ kind = "find" /\ Cardinality(ans) >= K
    \/ /\ Desired # 0
       /\ \/ Cardinality(res) >= Wanted
          \/ Desired < 0 /\ Cardinality(ans) >= STORE_REDUNDANCY

\* The first test of schedule: the closest nodes have answered, or there are as many
\* results, or (for negative numbers) as many answers, as desired.
IsDone(nodes, ans, res) ==
    \/ kind = "find" /\ Cardinality(nodes \cap ans) >= K
    \/ /\ Desired # 0
       /\ \/ Cardinality(res) >= Wanted
          \/ Desired < 0 /\ Cardinality(ans) >= STORE_REDUNDANCY

\* Mutant of Enough: results on their way are not counted.
BlindEnough(res, expected) == Desired # 0 /\ Cardinality(res) >= Wanted

\* Whether enough results are there or on their way.
Enough(res, expected) == Desired # 0 /\ Cardinality(res) + expected >= Wanted

\* The requests a search goes on waiting for: those to nodes that are still among the
\* closest.  The others "are taking too long", but their answers remain welcome.
Awaited(out, nodes) == IF kind = "find" THEN out \cap nodes ELSE out

\* The assertion in GetValue.generateArgs, which fails if no number of values is desired.
AssertionFails == kind = "get" /\ Desired = 0

\* Mutant of LookedAt: the loop breaks at a node that is not askable.
BreakingLookedAt(nodes, out, expected, res) ==
    {n \in nodes : \A m \in nodes : Askable(m) \/ n <= m}

\* The nodes that the loop of schedule sends a request to on its way to m.
SentUpTo(m, nodes) == {n \in nodes \ queried : n <= m /\ Askable(n)}

\* Whether the loop stops behind m: the requests or the results are enough then, and m
\* has been asked.
StopsAt(m, nodes, out, expected, res) ==
    /\ m \in queried \/ Askable(m)
    /\ \/ Cardinality(out \cup SentUpTo(m, nodes)) >= CONCURRENT_REQS
       \/ Enough(res, expected + Total(SentUpTo(m, nodes)))

\* The nodes that the loop of schedule comes to, closest first.
LookedAt(nodes, out, expected, res) ==
    {n \in nodes : \A m \in nodes : StopsAt(m, nodes, out, expected, res) => n <= m}

\* The end of an action: its callback is going to be called with its result.
Finish(nodes) ==
    /\ finished' = TRUE
    /\ calls' = calls + 1
    /\ result' = nodes

\* The rest of schedule, once the action is known not to be finished.  It ends it if
\* nothing is left to wait for; a failed assertion leaves it as it is.
Proceed(fnd, ans, bad, out, expected, res, flying) ==
    LET nodes == ToProcess(fnd, bad)
        awaited == Awaited(out, nodes)
        counted == expected - Total(out \ awaited)
        looked == IF Enough(res, counted) THEN {} ELSE LookedAt(nodes, awaited, counted, res)
        asked == {n \in looked \ queried : Askable(n)}
    IN  IF IsDone(nodes, ans, res)
        THEN /\ outstanding' = out /\ outstandingResults' = expected /\ inFlight' = flying
             /\ Finish(Closest(fnd \ bad))
             /\ UNCHANGED queried
        ELSE IF asked # {} /\ AssertionFails
        THEN /\ queried' = queried \cup {n \in looked : n <= Min(asked)}
             /\ outstanding' = awaited /\ outstandingResults' = counted /\ inFlight' = flying
             /\ UNCHANGED <<finished, calls, result>>
        ELSE /\ queried' = queried \cup looked
             /\ outstanding' = awaited \cup asked
             /\ outstandingResults' = counted + Total(asked)
             /\ inFlight' = flying \cup asked
             /\ IF awaited \cup asked = {} /\ ~Enough(res, counted)
                THEN Finish(Closest(fnd \ bad))
                ELSE UNCHANGED <<finished, calls, result>>

\* ActionBase.schedule, called at the end of every handler with the handler's updates.
Schedule(fnd, ans, bad, out, expected, res, flying) ==
    IF finished
    THEN /\ outstanding' = out /\ outstandingResults' = expected /\ inFlight' = flying
         /\ UNCHANGED <<queried, finished, calls, result>>
    ELSE Proceed(fnd, ans, bad, out, expected, res, flying)

-----------------------------------------------------------------------------
(* Handlers. *)

\* ActionBase.goWithNodes
GoWithNodes ==
    /\ ~started
    /\ started' = TRUE
    /\ found' = initial
    /\ Schedule(initial, answered, failed, outstanding, outstandingResults, results, inFlight)
    /\ UNCHANGED <<kind, initial, expect, answered, failed, results>>

\* Mutant of ExpectedLess: the results are not counted out.
SameExpected(n) == outstandingResults

\* What is left of outstanding_results when the answer of n has come.
ExpectedLess(n) == IF n \in outstanding THEN outstandingResults - expect[n] ELSE outstandingResults

\* What a node may answer: nodes (those that are new to the search matter), values (any
\* number of them), or its ID, which KNode.checkSender has compared.
NewNodes == IF kind = "find" THEN SUBSET (Nodes \ found) ELSE {{}}

NewResults(n) ==
    CASE kind = "find" -> {{}}
      [] kind = "get" -> SUBSET Values
      [] kind = "store" -> {{n}}

\* ActionBase.gotResponse with a response that processResponse accepts.
GotResponse(n, nodes, values) ==
    /\ n \in inFlight
    /\ ~finished
    /\ found' = found \cup nodes
    /\ answered' = answered \cup {n}
    /\ results' = results \cup values
    /\ Schedule(found \cup nodes, answered \cup {n}, failed, outstanding \ {n},
                ExpectedLess(n), results \cup values, inFlight \ {n})
    /\ UNCHANGED <<kind, initial, expect, started, failed>>

\* ActionBase.gotResponse with a response that processResponse chokes on, after it may
\* have added some of the nodes or values.
PartOfResults == IF kind = "get" THEN SUBSET Values ELSE {{}}

GotMalformedResponse(n, nodes, values) ==
    /\ n \in inFlight
    /\ ~finished
    /\ found' = found \cup nodes
    /\ failed' = failed \cup {n}
    /\ results' = results \cup values
    /\ Schedule(found \cup nodes, answered, failed \cup {n}, outstanding \ {n},
                ExpectedLess(n), results \cup values, inFlight \ {n})
    /\ UNCHANGED <<kind, initial, expect, started, answered>>

\* ActionBase.gotResponse when the action has finished: "a day late and a dollar short".
GotLateResponse(n) ==
    /\ n \in inFlight
    /\ finished
    /\ inFlight' = inFlight \ {n}
    /\ UNCHANGED <<kind, initial, expect, started, found, answered, failed, results, queried,
                   outstanding, outstandingResults, finished, calls, result>>

\* ActionBase.actionFailed: an error, a timeout or an answer under another ID.
ActionFailed(n) ==
    /\ n \in inFlight
    /\ failed' = failed \cup {n}
    /\ Schedule(found, answered, failed \cup {n}, outstanding \ {n}, ExpectedLess(n),
                results, inFlight \ {n})
    /\ UNCHANGED <<kind, initial, expect, started, found, answered, results>>

-----------------------------------------------------------------------------

Concluded(n) ==
    \/ GotLateResponse(n)
    \/ ActionFailed(n)
    \/ \E nodes \in NewNodes :
         \/ \E values \in PartOfResults : GotMalformedResponse(n, nodes, values)
         \/ \E values \in NewResults(n) : GotResponse(n, nodes, values)

Next == GoWithNodes \/ \E n \in Nodes : Concluded(n)

\* The reactor calls goWithNodes, and requests go on being concluded as long as there
\* are any on their way (RequestOnce promises more: each of them is).
Fairness == WF_vars(Next)

Safety == Init /\ [][Next]_vars
Spec == Safety /\ Fairness

-----------------------------------------------------------------------------
(* Properties. *)

\* The callback gets one final result however late or often requests are concluded.
CalledOnce == calls = IF finished THEN 1 ELSE 0

\* The bookkeeping of requests: those that are waited for are on their way, and
\* outstanding_results is what they promise, so that the assertion in schedule that it
\* is not negative never fails although requests are given up and answered later.
BooksBalance ==
    ~finished => outstanding \subseteq inFlight /\ outstandingResults = Total(outstanding)

\* Until it has finished, an action waits for a request that is on its way.
NeverStuck == started /\ ~finished => outstanding \cap inFlight # {}

\* A search ends when the closest nodes it has found and that have not failed have all
\* been asked, and if no node failed, they have all answered.  (If one failed, a node
\* whose request was given up may be among the closest again, and is not waited for.)
SearchIsThorough ==
    kind = "find" /\ finished => result \subseteq queried /\ (failed = {} => result \subseteq answered)

\* A retrieval or storage that ends with fewer results than desired has exhausted the
\* nodes: each of them that was worth asking has answered or failed.
ShortfallIsExhausted ==
    kind # "find" /\ finished =>
        \/ Cardinality(results) >= Wanted
        \/ Desired < 0 /\ Cardinality(answered) >= STORE_REDUNDANCY
        \/ \A n \in found : Askable(n) => n \in answered \cup failed

\* A value is never stored at more than STORE_REDUNDANCY nodes, requests on their way
\* included.
NeverOverstores ==
    kind = "store" => Cardinality(results \cup inFlight) <= STORE_REDUNDANCY

\* Every operation ends.
ActionEnds == <>finished
=============================================================================
