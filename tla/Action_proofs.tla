---------------------------- MODULE Action_proofs ----------------------------
(***************************************************************************)
(* Theorems about Action for every set of nodes, every number of values    *)
(* that they have, and every setting of K, CONCURRENT_REQS,                *)
(* STORE_REDUNDANCY and RETRIEVE_VALUES, with their proofs.                *)
(***************************************************************************)
EXTENDS Action, SetLemmas

-----------------------------------------------------------------------------
(* Counting promised results. *)

\* A set of nodes is finite, and so is the number of results that it promises.
LEMMA TotalType ==
    ASSUME TypeOK, NEW A, A \subseteq Nodes
    PROVE  IsFiniteSet(A) /\ IsFiniteSet(Promised(A)) /\ Total(A) \in Nat
<1>1. IsFiniteSet(A)
  BY ActionAssumption, FS_Subset
<1>2. IsFiniteSet(A \X (1 .. MaxValues))
  <2>1. IsFiniteSet(1 .. MaxValues)
    BY ActionAssumption, FS_Interval
  <2> QED  BY <1>1, <2>1, FS_Product
<1>3. Promised(A) \in SUBSET (A \X (1 .. MaxValues))
  BY DEF Promised
<1>4. IsFiniteSet(Promised(A))
  BY <1>2, <1>3, FS_Subset
<1> QED  BY <1>1, <1>4, FS_CardinalityType DEF Total

LEMMA TotalNone == Total({}) = 0
<1>1. Promised({}) = {}
  BY DEF Promised
<1> QED  BY <1>1, FS_EmptySet DEF Total

LEMMA TotalUnion ==
    ASSUME TypeOK, NEW A, A \subseteq Nodes, NEW B, B \subseteq Nodes, A \cap B = {}
    PROVE  Total(A \cup B) = Total(A) + Total(B)
<1>1. Promised(A \cup B) = Promised(A) \cup Promised(B)
  BY DEF Promised
<1>2. Promised(A) \cap Promised(B) = {}
  BY DEF Promised
<1>3. IsFiniteSet(Promised(A)) /\ IsFiniteSet(Promised(B))
  BY TotalType
<1> QED  BY <1>1, <1>2, <1>3, DisjointUnion DEF Total

LEMMA TotalMinus ==
    ASSUME TypeOK, NEW A, A \subseteq Nodes, NEW B, B \subseteq A
    PROVE  Total(A \ B) = Total(A) - Total(B)
<1>1. A \ B \subseteq Nodes /\ B \subseteq Nodes /\ (A \ B) \cap B = {} /\ (A \ B) \cup B = A
  OBVIOUS
<1>2. Total(A) = Total(A \ B) + Total(B)
  BY <1>1, TotalUnion
<1>3. Total(A) \in Nat /\ Total(B) \in Nat /\ Total(A \ B) \in Nat
  BY <1>1, TotalType
<1> QED  BY <1>2, <1>3

LEMMA TotalOne ==
    ASSUME TypeOK, NEW n \in Nodes
    PROVE  Total({n}) = expect[n]
<1>1. expect[n] \in 0 .. MaxValues /\ MaxValues \in Nat
  BY ActionAssumption DEF TypeOK
<1>2. Promised({n}) = {n} \X (1 .. expect[n])
  BY <1>1 DEF Promised
<1>3. \A S, T : IsFiniteSet(S) /\ IsFiniteSet(T) =>
         Cardinality(S \X T) = Cardinality(S) * Cardinality(T)
  BY FS_Product
<1>4. IsFiniteSet({n}) /\ Cardinality({n}) = 1
  BY FS_Singleton
<1>5. IsFiniteSet(1 .. expect[n]) /\ Cardinality(1 .. expect[n]) = expect[n]
  <2>1. expect[n] \in Int /\ 1 \in Int
    BY <1>1
  <2>2. /\ IsFiniteSet(1 .. expect[n])
        /\ Cardinality(1 .. expect[n]) = IF 1 > expect[n] THEN 0 ELSE expect[n] - 1 + 1
    BY <2>1, FS_Interval
  <2>3. expect[n] = IF 1 > expect[n] THEN 0 ELSE expect[n] - 1 + 1
    BY <1>1
  <2> QED  BY <2>2, <2>3
<1>6. Cardinality({n} \X (1 .. expect[n])) = Cardinality({n}) * Cardinality(1 .. expect[n])
  BY <1>3, <1>4, <1>5
<1>7. Cardinality({n} \X (1 .. expect[n])) = 1 * expect[n]
  BY <1>4, <1>5, <1>6
<1>8. 1 * expect[n] = expect[n]
  BY <1>1
<1> QED  BY <1>2, <1>7, <1>8 DEF Total

\* What the nodes that are waited for promise once n is no longer waited for.
LEMMA ExpectedLessTotal ==
    ASSUME TypeOK, outstandingResults = Total(outstanding), NEW n \in Nodes
    PROVE  ExpectedLess(n) = Total(outstanding \ {n})
<1>1. outstanding \subseteq Nodes
  BY DEF TypeOK
<1>2. CASE n \in outstanding
  BY <1>1, <1>2, TotalMinus, TotalOne DEF ExpectedLess
<1>3. CASE n \notin outstanding
  <2>1. outstanding \ {n} = outstanding
    BY <1>3
  <2> QED  BY <1>3, <2>1 DEF ExpectedLess
<1> QED  BY <1>2, <1>3

\* What is desired is an integer, and Wanted its absolute value.
LEMMA WantedType ==
    ASSUME TypeOK
    PROVE  /\ Desired \in Int
           /\ Wanted \in Nat
           /\ Wanted = IF Desired >= 0 THEN Desired ELSE -Desired
<1>1. Desired \in Int
  BY ActionAssumption DEF TypeOK, Desired
<1>2. Wanted = IF Desired <= -Desired THEN -Desired ELSE Desired
  BY <1>1, MaxOfTwo DEF Wanted
<1> QED  BY <1>1, <1>2

-----------------------------------------------------------------------------
(* schedule() *)

\* What the rest of schedule() leaves behind, for an action that has not finished.
LEMMA ProceedStep ==
    ASSUME TypeOK, ~finished, calls = 0,
           NEW fnd, fnd \subseteq Nodes, queried \subseteq fnd,
           NEW ans, NEW bad,
           NEW out, out \subseteq queried,
           NEW expected, expected = Total(out),
           NEW res, res \subseteq Values \cup Nodes,
           NEW flying, flying \subseteq queried, out \subseteq flying,
           Proceed(fnd, ans, bad, out, expected, res, flying)
    PROVE  /\ queried \subseteq queried' /\ queried' \subseteq fnd
           /\ outstanding' \subseteq inFlight' /\ inFlight' \subseteq queried'
           /\ outstandingResults' = Total(outstanding')
           /\ finished' \in BOOLEAN
           /\ calls' = IF finished' THEN 1 ELSE 0
           /\ result' \subseteq Nodes
           /\ RETRIEVE_VALUES # 0 /\ ~finished' => outstanding' # {}
<1> DEFINE nodes == ToProcess(fnd, bad)
           awaited == Awaited(out, nodes)
           counted == expected - Total(out \ awaited)
           looked == IF Enough(res, counted) THEN {} ELSE LookedAt(nodes, awaited, counted, res)
           asked == {n \in looked \ queried : Askable(n)}
<1>1. nodes \subseteq fnd /\ looked \subseteq nodes
  BY DEF ToProcess, Closest, LookedAt
<1>2. awaited \subseteq out
  BY DEF Awaited
<1>3. asked \subseteq Nodes /\ asked \cap awaited = {} /\ asked \subseteq looked
  BY <1>1, <1>2
<1>4. counted = Total(awaited) /\ Total(awaited) \in Nat
  <2> HIDE DEF awaited
  <2>1. out \subseteq Nodes /\ out \ awaited \subseteq out /\ out \ (out \ awaited) = awaited
    BY <1>2
  <2>2. Total(awaited) = Total(out) - Total(out \ awaited)
    BY <2>1, TotalMinus
  <2>3. Total(awaited) \in Nat
    BY <1>2, <2>1, TotalType
  <2> QED  BY <2>2, <2>3
<1>5. counted + Total(asked) = Total(awaited \cup asked)
  <2> HIDE DEF awaited, asked, counted
  <2> QED  BY <1>2, <1>3, <1>4, TotalUnion
<1>6. Closest(fnd \ bad) \subseteq Nodes
  BY DEF Closest
<1>7. \/ /\ IsDone(nodes, ans, res)
         /\ outstanding' = out /\ outstandingResults' = expected /\ inFlight' = flying
         /\ Finish(Closest(fnd \ bad))
         /\ queried' = queried
      \/ /\ AssertionFails
         /\ queried' = queried \cup {n \in looked : n <= Min(asked)}
         /\ outstanding' = awaited /\ outstandingResults' = counted /\ inFlight' = flying
         /\ UNCHANGED <<finished, calls, result>>
      \/ /\ ~IsDone(nodes, ans, res)
         /\ queried' = queried \cup looked
         /\ outstanding' = awaited \cup asked
         /\ outstandingResults' = counted + Total(asked)
         /\ inFlight' = flying \cup asked
         /\ IF awaited \cup asked = {} /\ ~Enough(res, counted)
            THEN Finish(Closest(fnd \ bad))
            ELSE UNCHANGED <<finished, calls, result>>
  BY DEF Proceed
<1> HIDE DEF nodes, awaited, counted, looked, asked
<1>8. queried \subseteq queried' /\ queried' \subseteq fnd
  BY <1>1, <1>7
<1>9. outstanding' \subseteq inFlight' /\ inFlight' \subseteq queried'
  BY <1>2, <1>3, <1>7
<1>10. outstandingResults' = Total(outstanding')
  <2>1. CASE outstandingResults' = expected /\ outstanding' = out
    BY <2>1
  <2>2. CASE outstandingResults' = counted /\ outstanding' = awaited
    BY <1>4, <2>2
  <2>3. CASE outstandingResults' = counted + Total(asked) /\ outstanding' = awaited \cup asked
    BY <1>5, <2>3
  <2> QED  BY <1>7, <2>1, <2>2, <2>3
<1>11. finished' \in BOOLEAN /\ calls' = (IF finished' THEN 1 ELSE 0) /\ result' \subseteq Nodes
  <2>1. CASE Finish(Closest(fnd \ bad))
    BY <1>6, <2>1 DEF Finish
  <2>2. CASE UNCHANGED <<finished, calls, result>>
    BY <2>2 DEF TypeOK
  <2> QED  BY <1>7, <2>1, <2>2
<1>12. ASSUME RETRIEVE_VALUES # 0, ~finished' PROVE outstanding' # {}
  <2>1. ~AssertionFails
    BY <1>12 DEF AssertionFails, Desired
  <2>2. ~IsDone(nodes, ans, res)
    BY <1>7, <1>12, <2>1 DEF Finish
  <2> SUFFICES ASSUME outstanding' = {} PROVE FALSE
    OBVIOUS
  <2>3. Enough(res, counted) /\ awaited = {}
    BY <1>7, <1>12, <2>1, <2>2 DEF Finish
  <2>4. counted = 0
    BY <1>4, <2>3, TotalNone
  <2>5. Cardinality(res) \in Nat
    <3>1. IsFiniteSet(Values \cup Nodes)
      BY ActionAssumption, FS_Union
    <3> QED  BY <3>1, FS_Subset, FS_CardinalityType
  <2> QED  BY <2>2, <2>3, <2>4, <2>5 DEF Enough, IsDone
<1> QED  BY <1>8, <1>9, <1>10, <1>11, <1>12

-----------------------------------------------------------------------------
(* The invariant of the bookkeeping. *)

\* The promised results are those of the nodes waited for, even when the action has
\* finished; before that, the nodes waited for have requests on their way.
Balanced ==
    /\ outstandingResults = Total(outstanding)
    /\ ~finished => outstanding \subseteq inFlight

\* Nothing happens before goWithNodes is called.
Unstarted ==
    ~started => /\ found = {} /\ queried = {} /\ outstanding = {} /\ inFlight = {}
                /\ answered = {} /\ failed = {} /\ results = {}
                /\ ~finished

\* If some number of values is desired, the action waits for a request until it has
\* finished.
Waits == RETRIEVE_VALUES # 0 /\ started /\ ~finished => outstanding # {}

BookInv ==
    /\ TypeOK
    /\ CalledOnce
    /\ Balanced
    /\ Unstarted
    /\ Waits

LEMMA InitBookInv == Init => BookInv
<1> SUFFICES ASSUME Init PROVE BookInv
  OBVIOUS
<1>1. initial \subseteq Nodes /\ expect \in [Nodes -> 0 .. MaxValues]
  <2>1. PICK given \in Given :
          /\ initial = DOMAIN given
          /\ expect = [n \in Nodes |-> IF n \in DOMAIN given THEN given[n] ELSE 0]
    BY DEF Init
  <2>2. \E nodes \in SUBSET Nodes : given \in [nodes -> 0 .. MaxValues]
    <3>1. CASE kind = "find"
      BY <3>1, ActionAssumption DEF Given, GivenToFind
    <3>2. CASE kind = "get"
      <4>1. PICK nodes \in SUBSET Nodes : given \in [nodes -> 1 .. MaxValues]
        BY <3>2 DEF Given, GivenToGet
      <4> QED  BY <4>1, ActionAssumption
    <3>3. CASE kind = "store"
      <4>1. PICK nodes \in SUBSET Nodes : given \in [nodes -> {0, 1}]
        BY <3>3 DEF Given, GivenToStore
      <4> QED  BY <4>1, ActionAssumption
    <3> QED  BY <3>1, <3>2, <3>3, ActionAssumption DEF Init
  <2> QED  BY <2>1, <2>2, ActionAssumption
<1>2. TypeOK
  BY <1>1 DEF Init, TypeOK
<1>3. Balanced
  BY TotalNone DEF Init, Balanced
<1> QED  BY <1>2, <1>3 DEF Init, BookInv, CalledOnce, Unstarted, Waits

\* A handler that hands schedule() what it makes of the variables.
LEMMA ScheduleStep ==
    ASSUME BookInv,
           NEW fnd, fnd \subseteq Nodes, found \subseteq fnd,
           NEW ans, ans \subseteq queried, NEW bad, bad \subseteq queried,
           NEW out, out \subseteq outstanding,
           NEW res, res \subseteq Values \cup Nodes,
           NEW flying, flying \subseteq inFlight, ~finished => out \subseteq flying,
           Schedule(fnd, ans, bad, out, Total(out), res, flying),
           found' = fnd, answered' = ans, failed' = bad, results' = res, started' = TRUE,
           UNCHANGED <<kind, initial, expect>>
    PROVE  BookInv'
<1>1. /\ queried \subseteq fnd /\ out \subseteq queried /\ flying \subseteq queried
      /\ out \subseteq Nodes
  BY DEF BookInv, TypeOK
<1>2. /\ queried \subseteq queried' /\ queried' \subseteq fnd
      /\ outstanding' \subseteq queried' /\ inFlight' \subseteq queried'
      /\ outstandingResults' = Total(outstanding')
      /\ finished' \in BOOLEAN
      /\ calls' = IF finished' THEN 1 ELSE 0
      /\ result' \subseteq Nodes
      /\ ~finished' => outstanding' \subseteq inFlight'
      /\ RETRIEVE_VALUES # 0 /\ ~finished' => outstanding' # {}
  <2>1. CASE finished
    <3>1. /\ outstanding' = out /\ outstandingResults' = Total(out) /\ inFlight' = flying
          /\ UNCHANGED <<queried, finished, calls, result>>
      BY <2>1 DEF Schedule
    <3> QED  BY <1>1, <2>1, <3>1 DEF BookInv, TypeOK, CalledOnce
  <2>2. CASE ~finished
    <3>1. Proceed(fnd, ans, bad, out, Total(out), res, flying)
      BY <2>2 DEF Schedule
    <3>2. calls = 0 /\ TypeOK
      BY <2>2 DEF BookInv, CalledOnce
    <3>3. /\ queried \subseteq queried' /\ queried' \subseteq fnd
          /\ outstanding' \subseteq inFlight' /\ inFlight' \subseteq queried'
          /\ outstandingResults' = Total(outstanding')
          /\ finished' \in BOOLEAN
          /\ calls' = IF finished' THEN 1 ELSE 0
          /\ result' \subseteq Nodes
          /\ RETRIEVE_VALUES # 0 /\ ~finished' => outstanding' # {}
      BY <1>1, <2>2, <3>1, <3>2, ProceedStep
    <3> QED  BY <3>3
  <2> QED  BY <2>1, <2>2
<1>3. outstanding' \subseteq Nodes
  BY <1>2
<1>4. Total(outstanding') \in Nat
  BY <1>3, TotalType DEF BookInv
<1>5. TypeOK'
  BY <1>2, <1>4 DEF BookInv, TypeOK
<1>6. Balanced'
  BY <1>2 DEF Balanced, Total, Promised
<1>7. CalledOnce' /\ Unstarted' /\ Waits'
  BY <1>2 DEF CalledOnce, Unstarted, Waits
<1> QED  BY <1>5, <1>6, <1>7 DEF BookInv

\* goWithNodes.
LEMMA GoWithNodesBook ==
    ASSUME BookInv, GoWithNodes
    PROVE  BookInv'
<1>1. outstandingResults = Total(outstanding) /\ initial \subseteq Nodes /\ found \subseteq initial
  BY DEF BookInv, Balanced, TypeOK, Unstarted, GoWithNodes
<1>2. Schedule(initial, answered, failed, outstanding, Total(outstanding), results, inFlight)
  BY <1>1 DEF GoWithNodes
<1>3. /\ answered \subseteq queried /\ failed \subseteq queried /\ results \subseteq Values \cup Nodes
      /\ ~finished => outstanding \subseteq inFlight
  BY DEF BookInv, Balanced, TypeOK
<1> QED  BY <1>1, <1>2, <1>3, ScheduleStep DEF GoWithNodes

\* What holds of the node whose request is concluded.
LEMMA InFlightNode ==
    ASSUME BookInv, NEW n \in inFlight
    PROVE  /\ n \in Nodes /\ n \in queried /\ started
           /\ ExpectedLess(n) = Total(outstanding \ {n})
           /\ ~finished => outstanding \ {n} \subseteq inFlight \ {n}
<1>1. n \in Nodes /\ n \in queried /\ started
  BY DEF BookInv, TypeOK, Unstarted
<1> QED  BY <1>1, ExpectedLessTotal DEF BookInv, Balanced

\* gotResponse with a response that is accepted.
LEMMA GotResponseBook ==
    ASSUME BookInv, NEW n \in Nodes, NEW nodes \in NewNodes, NEW values \in NewResults(n),
           GotResponse(n, nodes, values)
    PROVE  BookInv'
<1>1. n \in inFlight
  BY DEF GotResponse
<1>2. nodes \subseteq Nodes /\ values \subseteq Values \cup Nodes
  BY ActionAssumption DEF NewNodes, NewResults, BookInv, TypeOK
<1>3. Schedule(found \cup nodes, answered \cup {n}, failed, outstanding \ {n},
               Total(outstanding \ {n}), results \cup values, inFlight \ {n})
  BY <1>1, InFlightNode DEF GotResponse
<1>4. /\ found \cup nodes \subseteq Nodes /\ found \subseteq found \cup nodes
      /\ answered \cup {n} \subseteq queried /\ failed \subseteq queried
      /\ outstanding \ {n} \subseteq outstanding /\ inFlight \ {n} \subseteq inFlight
      /\ results \cup values \subseteq Values \cup Nodes
      /\ ~finished => outstanding \ {n} \subseteq inFlight \ {n}
  BY <1>1, <1>2, InFlightNode DEF BookInv, TypeOK
<1>5. /\ found' = found \cup nodes /\ answered' = answered \cup {n} /\ failed' = failed
      /\ results' = results \cup values /\ started' = TRUE /\ UNCHANGED <<kind, initial, expect>>
  BY <1>1, InFlightNode DEF GotResponse, BookInv, TypeOK
<1> QED  BY <1>3, <1>4, <1>5, ScheduleStep

\* A request that fails, or is answered with a response that processResponse chokes on.
LEMMA FailureBook ==
    ASSUME BookInv, NEW n \in inFlight, NEW nodes, nodes \subseteq Nodes,
           NEW values, values \subseteq Values,
           found' = found \cup nodes,
           failed' = failed \cup {n},
           results' = results \cup values,
           Schedule(found \cup nodes, answered, failed \cup {n}, outstanding \ {n},
                    ExpectedLess(n), results \cup values, inFlight \ {n}),
           UNCHANGED <<kind, initial, expect, started, answered>>
    PROVE  BookInv'
<1>1. Schedule(found \cup nodes, answered, failed \cup {n}, outstanding \ {n},
               Total(outstanding \ {n}), results \cup values, inFlight \ {n})
  BY InFlightNode
<1>2. /\ found \cup nodes \subseteq Nodes /\ found \subseteq found \cup nodes
      /\ failed \cup {n} \subseteq queried /\ answered \subseteq queried
      /\ outstanding \ {n} \subseteq outstanding /\ inFlight \ {n} \subseteq inFlight
      /\ results \cup values \subseteq Values \cup Nodes
      /\ ~finished => outstanding \ {n} \subseteq inFlight \ {n}
  BY InFlightNode DEF BookInv, TypeOK
<1>3. answered' = answered /\ started' = TRUE
  BY InFlightNode DEF BookInv, TypeOK
<1> QED  BY <1>1, <1>2, <1>3, ScheduleStep

LEMMA NextBookInv == BookInv /\ [Next]_vars => BookInv'
<1> SUFFICES ASSUME BookInv, [Next]_vars PROVE BookInv'
  OBVIOUS
<1>1. CASE GoWithNodes
  BY <1>1, GoWithNodesBook
<1>2. ASSUME NEW n \in Nodes, GotLateResponse(n) PROVE BookInv'
  <2>1. /\ inFlight' = inFlight \ {n} /\ finished
        /\ UNCHANGED <<kind, initial, expect, started, found, answered, failed, results, queried,
                       outstanding, outstandingResults, finished, calls, result>>
    BY <1>2 DEF GotLateResponse
  <2>2. TypeOK' /\ CalledOnce' /\ Unstarted' /\ Waits'
    BY <2>1 DEF BookInv, TypeOK, CalledOnce, Unstarted, Waits
  <2>3. Balanced'
    BY <2>1 DEF BookInv, Balanced, Total, Promised
  <2> QED  BY <2>2, <2>3 DEF BookInv
<1>3. ASSUME NEW n \in Nodes, ActionFailed(n) PROVE BookInv'
  <2> DEFINE nodes == {}
             values == {}
  <2>1. found \cup nodes = found /\ nodes \subseteq Nodes
        /\ results \cup values = results /\ values \subseteq Values
    OBVIOUS
  <2> HIDE DEF nodes, values
  <2>2. /\ n \in inFlight
        /\ found' = found \cup nodes
        /\ failed' = failed \cup {n}
        /\ results' = results \cup values
        /\ Schedule(found \cup nodes, answered, failed \cup {n}, outstanding \ {n},
                    ExpectedLess(n), results \cup values, inFlight \ {n})
        /\ UNCHANGED <<kind, initial, expect, started, answered>>
    BY <1>3, <2>1 DEF ActionFailed
  <2> QED  BY <2>1, <2>2, FailureBook
<1>4. ASSUME NEW n \in Nodes, NEW nodes \in NewNodes, NEW values \in PartOfResults,
             GotMalformedResponse(n, nodes, values)
      PROVE  BookInv'
  <2>1. nodes \subseteq Nodes /\ values \subseteq Values /\ (kind = "store" => values = {})
    BY DEF NewNodes, PartOfResults
  <2> QED  BY <1>4, <2>1, FailureBook DEF GotMalformedResponse
<1>5. ASSUME NEW n \in Nodes, NEW nodes \in NewNodes, NEW values \in NewResults(n),
             GotResponse(n, nodes, values)
      PROVE  BookInv'
  BY <1>5, GotResponseBook
<1>6. CASE UNCHANGED vars
  BY <1>6 DEF vars, progress, BookInv, TypeOK, CalledOnce, Balanced, Unstarted, Waits,
              Total, Promised
<1> QED  BY <1>1, <1>2, <1>3, <1>4, <1>5, <1>6 DEF Next, Concluded

\* The bookkeeping holds in every reachable state.
THEOREM Bookkeeping == Safety => []BookInv
  BY InitBookInv, NextBookInv, PTL DEF Safety

-----------------------------------------------------------------------------

\* Every variable of an action keeps its type.
THEOREM TypeCorrect == Spec => []TypeOK
<1>1. BookInv => TypeOK
  BY DEF BookInv
<1> QED  BY <1>1, Bookkeeping, PTL DEF Spec

\* The callback gets its final result once, however late requests are concluded.
THEOREM CallsOnce == Spec => []CalledOnce
<1>1. BookInv => CalledOnce
  BY DEF BookInv
<1> QED  BY <1>1, Bookkeeping, PTL DEF Spec

\* outstanding_results is always what the requests that are waited for promise; it is
\* never negative, and the assertion in schedule never fails.
THEOREM Balance == Spec => []BooksBalance
<1>1. BookInv => BooksBalance
  BY DEF BookInv, Balanced, BooksBalance
<1> QED  BY <1>1, Bookkeeping, PTL DEF Spec

\* If some number of values is desired, an action that has started waits for a request
\* that is on its way until it has finished.
THEOREM AlwaysWaits ==
    ASSUME RETRIEVE_VALUES # 0
    PROVE  Spec => []NeverStuck
<1>1. BookInv => NeverStuck
  BY DEF BookInv, Balanced, Waits, NeverStuck
<1> QED  BY <1>1, Bookkeeping, PTL DEF Spec

-----------------------------------------------------------------------------
(* What an action has achieved when it ends. *)

\* A node behind K closer ones stays there when more nodes are found.
LEMMA ClosestShrinks ==
    ASSUME NEW S, NEW T, S \subseteq T, IsFiniteSet(T), NEW n \in S, n \in Closest(T)
    PROVE  n \in Closest(S)
<1> DEFINE below(U) == {m \in U : m < n}
<1>1. below(S) \in SUBSET below(T) /\ below(T) \in SUBSET T
  OBVIOUS
<1>2. Cardinality(below(T)) < K
  BY DEF Closest
<1>3. IsFiniteSet(below(T))
  <2> HIDE DEF below
  <2> QED  BY <1>1, FS_Subset
<1>4. Cardinality(below(S)) <= Cardinality(below(T)) /\ IsFiniteSet(below(S))
  <2> HIDE DEF below
  <2> QED  BY <1>1, <1>3, FS_Subset
<1>5. Cardinality(below(S)) \in Nat /\ Cardinality(below(T)) \in Nat
  <2> HIDE DEF below
  <2> QED  BY <1>3, <1>4, FS_CardinalityType
<1>6. Cardinality(below(S)) < K
  <2> HIDE DEF below
  <2> QED  BY <1>2, <1>4, <1>5, ActionAssumption
<1> QED  BY <1>6 DEF Closest

\* If the loop of schedule finds no request to wait for and sends none, it has come to
\* all the nodes.
LEMMA WholeLoop ==
    ASSUME TypeOK, NEW nodes, nodes \subseteq Nodes, NEW expected \in Int, NEW res,
           ~Enough(res, expected),
           {n \in LookedAt(nodes, {}, expected, res) \ queried : Askable(n)} = {}
    PROVE  LookedAt(nodes, {}, expected, res) = nodes
<1> DEFINE stops == {m \in nodes : StopsAt(m, nodes, {}, expected, res)}
<1> SUFFICES ASSUME stops # {} PROVE FALSE
  BY DEF LookedAt
<1>1. stops \subseteq nodes /\ stops \subseteq Nodes /\ stops \subseteq Int
  <2>1. stops \subseteq nodes
    OBVIOUS
  <2> HIDE DEF stops
  <2> QED  BY <2>1, ActionAssumption
<1>2. IsFiniteSet(stops)
  <2> HIDE DEF stops
  <2> QED  BY <1>1, ActionAssumption, FS_Subset
<1> DEFINE first == Min(stops)
<1>3. first \in stops /\ \A m \in stops : first <= m
  <2> HIDE DEF stops
  <2> QED  BY <1>1, <1>2, MinOfSet
<1> HIDE DEF first
<1>4. \A n \in SentUpTo(first, nodes) : n \in LookedAt(nodes, {}, expected, res)
  <2> SUFFICES ASSUME NEW n \in SentUpTo(first, nodes), NEW m \in nodes,
                      StopsAt(m, nodes, {}, expected, res)
               PROVE  n <= m
    BY DEF LookedAt, SentUpTo
  <2>1. n <= first /\ first <= m
    BY <1>3 DEF SentUpTo
  <2>2. n \in Int /\ first \in Int /\ m \in Int
    BY <1>1, <1>3, ActionAssumption DEF SentUpTo
  <2> QED  BY <2>1, <2>2
<1>5. SentUpTo(first, nodes) = {}
  BY <1>4 DEF SentUpTo
<1>6. Cardinality({} \cup SentUpTo(first, nodes)) = 0 /\ Total(SentUpTo(first, nodes)) = 0
  BY <1>5, FS_EmptySet, TotalNone
<1>7. expected + Total(SentUpTo(first, nodes)) = expected
  BY <1>6
<1> QED  BY <1>3, <1>6, <1>7, ActionAssumption DEF StopsAt

\* A search: what schedule() makes of it.  (Closest nodes that were asked have answered
\* or are waited for, as long as no node has failed.)
LEMMA SearchStep ==
    ASSUME TypeOK, ~finished, kind = "find",
           NEW fnd, fnd \subseteq Nodes, queried \subseteq fnd,
           NEW ans, ans \subseteq queried, NEW bad,
           NEW out, out \subseteq queried, NEW res, NEW flying,
           bad = {} => Closest(fnd) \cap queried \subseteq ans \cup out,
           Proceed(fnd, ans, bad, out, Total(out), res, flying)
    PROVE  /\ finished' => result' \subseteq queried' /\ (bad = {} => result' \subseteq ans)
           /\ ~finished' /\ bad = {} => Closest(fnd) \cap queried' \subseteq ans \cup outstanding'
<1> DEFINE nodes == ToProcess(fnd, bad)
           awaited == Awaited(out, nodes)
           counted == Total(out) - Total(out \ awaited)
           looked == IF Enough(res, counted) THEN {} ELSE LookedAt(nodes, awaited, counted, res)
           asked == {n \in looked \ queried : Askable(n)}
<1>1. nodes = Closest(fnd \ bad) /\ awaited = out \cap nodes /\ looked \subseteq nodes
      /\ nodes \subseteq fnd
  BY DEF ToProcess, Awaited, LookedAt, Closest
<1>2. asked = looked \ queried /\ ~AssertionFails
  BY DEF Askable, AssertionFails
<1>3. bad = {} => Closest(fnd) = nodes
  <2>1. bad = {} => fnd \ bad = fnd
    OBVIOUS
  <2> QED  BY <1>1, <2>1
<1>4. \/ /\ IsDone(nodes, ans, res)
         /\ finished' = TRUE /\ result' = nodes /\ queried' = queried
      \/ /\ queried' = queried \cup looked /\ outstanding' = awaited \cup asked
         /\ \/ /\ awaited \cup asked = {} /\ ~Enough(res, counted)
               /\ finished' = TRUE /\ result' = nodes
            \/ finished' = finished
  BY <1>1, <1>2 DEF Proceed, Finish
<1>5. out \subseteq Nodes /\ nodes \subseteq Nodes /\ IsFiniteSet(nodes)
  BY <1>1, ActionAssumption, FS_Subset
<1>6. IsDone(nodes, ans, res) => nodes \subseteq ans
  <2> SUFFICES ASSUME IsDone(nodes, ans, res) PROVE nodes \cap ans = nodes
    OBVIOUS
  <2>1. Cardinality(nodes \cap ans) >= K
    BY DEF IsDone, Desired
  <2>2. Cardinality(nodes) <= K
    <3> DEFINE good == fnd \ bad
    <3>1. good \subseteq Nodes
      OBVIOUS
    <3> HIDE DEF good
    <3>2. good \subseteq Nodes /\ good \subseteq Int
      BY <3>1, ActionAssumption
    <3>3. IsFiniteSet(good) /\ K \in Nat \ {0}
      BY <3>2, ActionAssumption, FS_Subset
    <3>4. Cardinality(Closest(good)) <= K
      BY <3>2, <3>3, FirstFew DEF Closest
    <3> QED  BY <1>1, <3>4 DEF good
  <2> HIDE DEF nodes
  <2>3. nodes \cap ans \in SUBSET nodes
    OBVIOUS
  <2>4. /\ IsFiniteSet(nodes \cap ans) /\ Cardinality(nodes \cap ans) <= Cardinality(nodes)
        /\ Cardinality(nodes) = Cardinality(nodes \cap ans) => nodes = nodes \cap ans
    BY <1>5, <2>3, FS_Subset
  <2>5. Cardinality(nodes) \in Nat /\ Cardinality(nodes \cap ans) \in Nat
    BY <1>5, <2>4, FS_CardinalityType
  <2> QED  BY <2>1, <2>2, <2>4, <2>5, ActionAssumption
<1>7. ASSUME awaited \cup asked = {}, ~Enough(res, counted)
      PROVE  looked = nodes /\ nodes \subseteq queried
  <2>1. counted \in Int
    BY <1>5, TotalType
  <2>2. awaited = {} /\ looked = LookedAt(nodes, {}, counted, res) /\ asked = {}
    BY <1>7
  <2>3. looked = nodes
    <3> HIDE DEF nodes, counted
    <3> QED  BY <1>5, <1>7, <2>1, <2>2, WholeLoop
  <2> QED  BY <1>2, <1>7, <2>3
<1> HIDE DEF nodes, awaited, counted, looked, asked
<1>8. finished' => result' \subseteq queried' /\ (bad = {} => result' \subseteq ans)
  BY <1>1, <1>3, <1>4, <1>6, <1>7
<1>9. ~finished' /\ bad = {} => Closest(fnd) \cap queried' \subseteq ans \cup outstanding'
  BY <1>1, <1>2, <1>3, <1>4
<1> QED  BY <1>8, <1>9

\* A retrieval or storage: what schedule() makes of it.  (Nodes that were worth asking
\* and were asked have answered, failed, or are waited for.)
LEMMA ExhaustStep ==
    ASSUME TypeOK, ~finished, kind # "find", Desired # 0,
           NEW fnd, fnd \subseteq Nodes, queried \subseteq fnd,
           NEW ans, NEW bad,
           NEW out, out \subseteq queried, NEW res, NEW flying,
           \A n \in queried : Askable(n) => n \in ans \cup bad \cup out,
           Proceed(fnd, ans, bad, out, Total(out), res, flying)
    PROVE  /\ finished' => \/ Cardinality(res) >= Wanted
                           \/ Desired < 0 /\ Cardinality(ans) >= STORE_REDUNDANCY
                           \/ \A n \in fnd : Askable(n) => n \in ans \cup bad
           /\ ~finished' =>
                \A n \in queried' : Askable(n) => n \in ans \cup bad \cup outstanding'
<1> DEFINE counted == Total(out) - Total(out \ out)
           looked == IF Enough(res, counted) THEN {} ELSE LookedAt(fnd, out, counted, res)
           asked == {n \in looked \ queried : Askable(n)}
<1>1. ToProcess(fnd, bad) = fnd /\ Awaited(out, fnd) = out /\ looked \subseteq fnd
  BY DEF ToProcess, Awaited, LookedAt
<1>2. ~AssertionFails
  BY DEF AssertionFails
<1>3. \/ IsDone(fnd, ans, res) /\ finished' = TRUE
      \/ /\ queried' = queried \cup looked /\ outstanding' = out \cup asked
         /\ \/ out \cup asked = {} /\ ~Enough(res, counted)
            \/ finished' = finished
  BY <1>1, <1>2 DEF Proceed, Finish
<1>4. ASSUME IsDone(fnd, ans, res)
      PROVE  \/ Cardinality(res) >= Wanted
             \/ Desired < 0 /\ Cardinality(ans) >= STORE_REDUNDANCY
  BY <1>4 DEF IsDone
<1>5. ASSUME out \cup asked = {}, ~Enough(res, counted)
      PROVE  looked = fnd
  <2>1. counted \in Int
    <3>1. out \subseteq Nodes /\ out \ out \subseteq Nodes
      OBVIOUS
    <3> QED  BY <3>1, TotalType
  <2>2. out = {} /\ looked = LookedAt(fnd, {}, counted, res) /\ asked = {}
    BY <1>5
  <2> HIDE DEF counted
  <2> QED  BY <1>5, <2>1, <2>2, WholeLoop
<1>6. \A n \in looked \ queried : Askable(n) => n \in asked
  OBVIOUS
<1> HIDE DEF counted, looked, asked
<1> QED  BY <1>3, <1>4, <1>5, <1>6

\* Nodes that promise one result each.
LEMMA TotalOfOnes ==
    ASSUME NEW A, IsFiniteSet(A), \A n \in A : expect[n] = 1
    PROVE  Total(A) = Cardinality(A)
<1>1. Promised(A) = A \X {1}
  BY ActionAssumption DEF Promised
<1>2. IsFiniteSet({1}) /\ Cardinality({1}) = 1
  BY FS_Singleton
<1>3. Cardinality(A \X {1}) = Cardinality(A) * Cardinality({1})
  BY <1>2, FS_Product
<1>4. Cardinality(A) \in Nat
  BY FS_CardinalityType
<1> QED  BY <1>1, <1>2, <1>3, <1>4 DEF Total

\* The loop of schedule does not send more requests for storage than results are missing:
\* it has not stopped behind the last but one node that it sends a request to.
LEMMA SendsNoMore ==
    ASSUME TypeOK, Desired # 0, \A n \in Nodes : expect[n] \in {0, 1},
           NEW nodes, nodes \subseteq Nodes, NEW out, NEW res, Cardinality(res) \in Nat,
           NEW expected \in Nat, ~Enough(res, expected), kind # "find",
           NEW asked, asked # {},
           asked = {n \in LookedAt(nodes, out, expected, res) \ queried : Askable(n)}
    PROVE  Cardinality(res) + expected + Cardinality(asked) <= Wanted
<1> DEFINE last == Max(asked)
           others == asked \ {last}
<1>1. asked \subseteq Nodes /\ asked \subseteq Int /\ IsFiniteSet(asked)
  <2>1. asked \subseteq Nodes
    BY DEF LookedAt
  <2>2. IsFiniteSet(asked)
    BY <2>1, ActionAssumption, FS_Subset
  <2>3. Nodes \subseteq Int
    BY ActionAssumption
  <2> QED  BY <2>1, <2>2, <2>3
<1>2. last \in asked /\ \A n \in asked : n <= last
  BY <1>1, MaxOfSet
<1> HIDE DEF last
<1>3. /\ IsFiniteSet(others) /\ Cardinality(others) \in Nat
      /\ Cardinality(asked) = Cardinality(others) + 1
  <2>1. IsFiniteSet(others) /\ Cardinality(others) = Cardinality(asked) - 1
    BY <1>1, <1>2, FS_RemoveElement
  <2> QED  BY <1>1, <2>1, FS_CardinalityType
<1>4. Wanted \in Nat
  BY WantedType
<1>5. CASE others = {}
  <2>1. Cardinality(others) = 0
    BY <1>5, FS_EmptySet
  <2>2. Cardinality(res) + expected < Wanted
    BY <1>4 DEF Enough
  <2>3. Cardinality(asked) = 1
    BY <1>3, <2>1
  <2> HIDE DEF others
  <2> QED  BY <1>4, <2>2, <2>3
<1>6. CASE others # {}
  <2> DEFINE before == Max(others)
  <2>1. before \in others /\ \A n \in others : n <= before
    <3>1. others \subseteq Int
      BY <1>1
    <3> HIDE DEF others
    <3> QED  BY <1>3, <1>6, <3>1, MaxOfSet
  <2> HIDE DEF before
  <2>2. before < last /\ before \in Int /\ last \in Int
    BY <1>1, <1>2, <2>1
  <2>3. ~StopsAt(before, nodes, out, expected, res)
    <3>1. before \in nodes /\ last \in LookedAt(nodes, out, expected, res)
      BY <1>2, <2>1 DEF LookedAt
    <3> QED  BY <2>2, <3>1 DEF LookedAt
  <2>4. SentUpTo(before, nodes) = others
    <3>1. ASSUME NEW n \in SentUpTo(before, nodes) PROVE n \in others
      <4>1. n \in nodes /\ n \notin queried /\ n <= before /\ Askable(n) /\ n \in Int
        BY ActionAssumption DEF SentUpTo
      <4>2. \A m \in nodes : StopsAt(m, nodes, out, expected, res) => last <= m /\ m \in Int
        BY <1>2, ActionAssumption DEF LookedAt
      <4>3. n \in LookedAt(nodes, out, expected, res)
        BY <2>2, <4>1, <4>2 DEF LookedAt
      <4> QED  BY <2>2, <4>1, <4>3
    <3>2. ASSUME NEW n \in others PROVE n \in SentUpTo(before, nodes)
      BY <2>1 DEF SentUpTo, LookedAt
    <3> QED  BY <3>1, <3>2
  <2>5. Askable(before)
    BY <2>1
  <2>6. ~Enough(res, expected + Total(others))
    BY <2>3, <2>4, <2>5 DEF StopsAt
  <2>7. Total(others) = Cardinality(others)
    <3>1. \A n \in others : expect[n] = 1
      BY <1>1 DEF Askable
    <3> HIDE DEF others
    <3> QED  BY <1>3, <3>1, TotalOfOnes
  <2> HIDE DEF others
  <2>8. Cardinality(res) + (expected + Cardinality(others)) < Wanted
    BY <1>3, <1>4, <2>6, <2>7 DEF Enough
  <2> QED  BY <1>3, <1>4, <2>8
<1> QED  BY <1>5, <1>6

\* A storage: what schedule() makes of it.
LEMMA StoreStep ==
    ASSUME TypeOK, ~finished, kind = "store", \A n \in Nodes : expect[n] \in {0, 1},
           NEW fnd, fnd \subseteq Nodes, queried \subseteq fnd, NEW ans, NEW bad,
           NEW out, out \subseteq queried, \A n \in out : expect[n] = 1,
           NEW res, IsFiniteSet(res), Cardinality(res \cup out) <= STORE_REDUNDANCY,
           Proceed(fnd, ans, bad, out, Total(out), res, out)
    PROVE  /\ Cardinality(res \cup inFlight') <= STORE_REDUNDANCY
           /\ \A n \in inFlight' : expect[n] = 1
           /\ outstanding' = inFlight'
<1> DEFINE counted == Total(out) - Total(out \ out)
           looked == IF Enough(res, counted) THEN {} ELSE LookedAt(fnd, out, counted, res)
           asked == {n \in looked \ queried : Askable(n)}
<1>1. ToProcess(fnd, bad) = fnd /\ Awaited(out, fnd) = out /\ ~AssertionFails
  BY DEF ToProcess, Awaited, AssertionFails
<1>2. \/ inFlight' = out /\ outstanding' = out
      \/ inFlight' = out \cup asked /\ outstanding' = out \cup asked
  BY <1>1 DEF Proceed
<1>3. \A n \in asked : n \in Nodes /\ expect[n] = 1
  BY DEF Askable, LookedAt
<1>4. ASSUME asked # {} PROVE Cardinality(res \cup (out \cup asked)) <= STORE_REDUNDANCY
  <2>1. out \subseteq Nodes /\ asked \subseteq Nodes
    BY <1>3
  <2>2. ~Enough(res, counted) /\ looked = LookedAt(fnd, out, counted, res)
    BY <1>4
  <2>3. asked = {n \in LookedAt(fnd, out, counted, res) \ queried : Askable(n)}
    BY <2>2
  <2> HIDE DEF asked, looked
  <2>4. IsFiniteSet(out) /\ IsFiniteSet(asked)
    BY <2>1, TotalType
  <2>5. /\ Cardinality(out) \in Nat /\ Cardinality(asked) \in Nat /\ Cardinality(res) \in Nat
        /\ Total(out) = Cardinality(out)
    BY <2>4, FS_CardinalityType, TotalOfOnes
  <2>6. counted = Cardinality(out)
    <3>1. out \ out = {}
      OBVIOUS
    <3>2. Total(out \ out) = 0
      BY <3>1, TotalNone
    <3> QED  BY <2>5, <3>2
  <2> HIDE DEF counted
  <2>7. Desired # 0 /\ Wanted = STORE_REDUNDANCY
    <3>1. Desired = STORE_REDUNDANCY
      BY DEF Desired
    <3> QED  BY <3>1, WantedType, ActionAssumption
  <2>8. Cardinality(res) + counted + Cardinality(asked) <= Wanted
    BY <1>4, <2>2, <2>3, <2>5, <2>6, <2>7, SendsNoMore
  <2>9. IsFiniteSet(out \cup asked) /\ Cardinality(out \cup asked) \in Nat
        /\ Cardinality(out \cup asked) <= Cardinality(out) + Cardinality(asked)
    BY <2>4, UnionBound
  <2>10. Cardinality(res \cup (out \cup asked)) \in Nat
         /\ Cardinality(res \cup (out \cup asked)) <= Cardinality(res) + Cardinality(out \cup asked)
    BY <2>9, UnionBound
  <2> QED  BY <2>5, <2>6, <2>7, <2>8, <2>9, <2>10, ActionAssumption
<1>5. ASSUME asked = {} PROVE inFlight' = out
  BY <1>2, <1>5
<1> HIDE DEF asked, counted, looked
<1> QED  BY <1>2, <1>3, <1>4, <1>5

-----------------------------------------------------------------------------
(* The invariant of what is achieved. *)

\* As long as no node has failed, the closest nodes that were asked are not given up.
GivenUpIsFar ==
    kind = "find" /\ ~finished /\ failed = {} =>
        Closest(found) \cap queried \subseteq answered \cup outstanding

\* What a retrieval or storage has asked has answered, failed, or is waited for.
AskedIsKnown ==
    kind # "find" /\ Desired # 0 /\ ~finished =>
        \A n \in queried : Askable(n) => n \in answered \cup failed \cup outstanding

\* A storage waits for all its requests, each of which promises one more node.
StoreBooks ==
    kind = "store" =>
        /\ \A n \in Nodes : expect[n] \in {0, 1}
        /\ \A n \in inFlight : expect[n] = 1
        /\ ~finished => inFlight = outstanding

EndInv ==
    /\ BookInv
    /\ GivenUpIsFar /\ SearchIsThorough
    /\ AskedIsKnown /\ ShortfallIsExhausted
    /\ StoreBooks /\ NeverOverstores

\* Everything that an action gathers is finite.
LEMMA ResultsFinite ==
    ASSUME NEW res, res \subseteq Values \cup Nodes
    PROVE  IsFiniteSet(res) /\ Cardinality(res) \in Nat
<1>1. IsFiniteSet(Values \cup Nodes)
  BY ActionAssumption, FS_Union
<1> QED  BY <1>1, FS_Subset, FS_CardinalityType

LEMMA InitEndInv == Init => EndInv
<1> SUFFICES ASSUME Init PROVE EndInv
  OBVIOUS
<1>1. BookInv
  BY InitBookInv
<1>2. StoreBooks
  <2> SUFFICES ASSUME kind = "store" PROVE \A n \in Nodes : expect[n] \in {0, 1}
    BY DEF StoreBooks, Init
  <2>1. PICK given \in Given : expect = [n \in Nodes |-> IF n \in DOMAIN given THEN given[n] ELSE 0]
    BY DEF Init
  <2>2. PICK nodes \in SUBSET Nodes : given \in [nodes -> {0, 1}]
    BY DEF Given, GivenToFind, GivenToGet, GivenToStore
  <2> QED  BY <2>1, <2>2
<1>3. Cardinality(results \cup inFlight) = 0
  BY FS_EmptySet DEF Init
<1> QED
  BY <1>1, <1>2, <1>3, ActionAssumption
     DEF Init, EndInv, GivenUpIsFar, SearchIsThorough, AskedIsKnown, ShortfallIsExhausted,
         NeverOverstores

\* A handler that hands schedule() what it makes of the variables.
LEMMA EndScheduleStep ==
    ASSUME EndInv, BookInv',
           NEW fnd, fnd \subseteq Nodes, found \subseteq fnd,
           NEW ans, ans \subseteq queried, NEW bad, failed \subseteq bad,
           NEW out, out \subseteq queried,
           NEW res, res \subseteq Values \cup Nodes,
           NEW flying, flying \subseteq inFlight,
           finished => fnd = found /\ ans = answered /\ res = results,
           kind = "find" /\ ~finished /\ bad = {} => Closest(fnd) \cap queried \subseteq ans \cup out,
           kind # "find" /\ Desired # 0 /\ ~finished =>
               \A n \in queried : Askable(n) => n \in ans \cup bad \cup out,
           kind = "store" => /\ ~finished => flying = out
                             /\ Cardinality(res \cup flying) <= STORE_REDUNDANCY,
           Schedule(fnd, ans, bad, out, Total(out), res, flying),
           found' = fnd, answered' = ans, failed' = bad, results' = res,
           UNCHANGED <<kind, expect>>
    PROVE  EndInv'
<1>1. TypeOK /\ queried \subseteq fnd /\ Desired' = Desired /\ Wanted' = Wanted
      /\ \A n : Askable(n)' = Askable(n)
  BY DEF EndInv, BookInv, TypeOK, Desired, Wanted, Askable
<1>2. CASE finished
  <2>1. inFlight' = flying /\ UNCHANGED <<queried, finished, result>>
    BY <1>2 DEF Schedule
  <2>2. SearchIsThorough'
    BY <1>2, <2>1 DEF EndInv, SearchIsThorough
  <2>3. ShortfallIsExhausted'
    BY <1>1, <1>2, <2>1 DEF EndInv, ShortfallIsExhausted
  <2>4. StoreBooks' /\ NeverOverstores'
    BY <1>2, <2>1 DEF EndInv, StoreBooks, NeverOverstores
  <2> QED  BY <1>2, <2>1, <2>2, <2>3, <2>4 DEF EndInv, GivenUpIsFar, AskedIsKnown
<1>3. CASE ~finished
  <2>1. Proceed(fnd, ans, bad, out, Total(out), res, flying)
    BY <1>3 DEF Schedule
  <2>2. GivenUpIsFar' /\ SearchIsThorough'
    <3> SUFFICES ASSUME kind = "find" PROVE GivenUpIsFar' /\ SearchIsThorough'
      BY DEF GivenUpIsFar, SearchIsThorough
    <3>1. /\ finished' => result' \subseteq queried' /\ (bad = {} => result' \subseteq ans)
          /\ ~finished' /\ bad = {} => Closest(fnd) \cap queried' \subseteq ans \cup outstanding'
      BY <1>1, <1>3, <2>1, SearchStep
    <3> QED  BY <3>1 DEF GivenUpIsFar, SearchIsThorough, Closest
  <2>3. AskedIsKnown' /\ ShortfallIsExhausted'
    <3> SUFFICES ASSUME kind # "find" PROVE AskedIsKnown' /\ ShortfallIsExhausted'
      BY DEF AskedIsKnown, ShortfallIsExhausted
    <3>1. CASE Desired # 0
      <4>1. /\ finished' => \/ Cardinality(res) >= Wanted
                            \/ Desired < 0 /\ Cardinality(ans) >= STORE_REDUNDANCY
                            \/ \A n \in fnd : Askable(n) => n \in ans \cup bad
            /\ ~finished' =>
                 \A n \in queried' : Askable(n) => n \in ans \cup bad \cup outstanding'
        BY <1>1, <1>3, <2>1, <3>1, ExhaustStep
      <4> QED  BY <1>1, <4>1 DEF AskedIsKnown, ShortfallIsExhausted
    <3>2. CASE Desired = 0
      <4>1. Wanted = 0 /\ Cardinality(res) >= 0
        BY <1>1, <3>2, WantedType, ResultsFinite
      <4> QED  BY <1>1, <3>2, <4>1 DEF AskedIsKnown, ShortfallIsExhausted
    <3> QED  BY <3>1, <3>2
  <2>4. StoreBooks' /\ NeverOverstores'
    <3> SUFFICES ASSUME kind = "store" PROVE StoreBooks' /\ NeverOverstores'
      BY DEF StoreBooks, NeverOverstores
    <3>1. /\ \A n \in Nodes : expect[n] \in {0, 1}
          /\ \A n \in out : expect[n] = 1
          /\ flying = out
      BY <1>3 DEF EndInv, StoreBooks
    <3>2. IsFiniteSet(res)
      BY ResultsFinite
    <3>3. /\ Cardinality(res \cup inFlight') <= STORE_REDUNDANCY
          /\ \A n \in inFlight' : expect[n] = 1
          /\ outstanding' = inFlight'
      BY <1>1, <1>3, <2>1, <3>1, <3>2, StoreStep
    <3> QED  BY <3>1, <3>3 DEF StoreBooks, NeverOverstores
  <2> QED  BY <2>2, <2>3, <2>4 DEF EndInv
<1> QED  BY <1>2, <1>3

\* What is stored or on its way does not grow by the answer to a request.
LEMMA StoredIsBounded ==
    ASSUME EndInv, kind = "store", NEW S, S \subseteq results \cup inFlight
    PROVE  Cardinality(S) <= STORE_REDUNDANCY
<1>1. results \cup inFlight \subseteq Values \cup Nodes
  BY DEF EndInv, BookInv, TypeOK
<1>2. IsFiniteSet(results \cup inFlight) /\ Cardinality(results \cup inFlight) \in Nat
  BY <1>1, ResultsFinite
<1>3. Cardinality(S) <= Cardinality(results \cup inFlight) /\ Cardinality(S) \in Nat
  BY <1>2, FS_Subset, FS_CardinalityType
<1>4. Cardinality(results \cup inFlight) <= STORE_REDUNDANCY
  BY DEF EndInv, NeverOverstores
<1> QED  BY <1>2, <1>3, <1>4, ActionAssumption

\* goWithNodes.
LEMMA GoWithNodesEnd ==
    ASSUME EndInv, BookInv', GoWithNodes
    PROVE  EndInv'
<1>1. outstandingResults = Total(outstanding) /\ initial \subseteq Nodes /\ found \subseteq initial
      /\ ~finished /\ queried = {} /\ inFlight = outstanding
  BY DEF EndInv, BookInv, Balanced, TypeOK, Unstarted, GoWithNodes
<1>2. Schedule(initial, answered, failed, outstanding, Total(outstanding), results, inFlight)
  BY <1>1 DEF GoWithNodes
<1>3. answered \subseteq queried /\ outstanding \subseteq queried /\ results \subseteq Values \cup Nodes
  BY DEF EndInv, BookInv, TypeOK
<1>4. kind = "store" => Cardinality(results \cup inFlight) <= STORE_REDUNDANCY
  BY DEF EndInv, NeverOverstores
<1>5. /\ found' = initial /\ UNCHANGED <<kind, expect, answered, failed, results>>
  BY DEF GoWithNodes
<1> QED  BY <1>1, <1>2, <1>3, <1>4, <1>5, EndScheduleStep

\* What the conclusion of a request leaves to know of the nodes that were asked.
LEMMA KnownAfter ==
    ASSUME EndInv, NEW n \in inFlight, ~finished, NEW fnd, found \subseteq fnd, fnd \subseteq Nodes
    PROVE  /\ kind = "find" /\ failed = {} =>
                Closest(fnd) \cap queried \subseteq (answered \cup {n}) \cup (outstanding \ {n})
           /\ kind # "find" /\ Desired # 0 => \A m \in queried : Askable(m) =>
                /\ m \in (answered \cup {n}) \cup failed \cup (outstanding \ {n})
                /\ m \in answered \cup (failed \cup {n}) \cup (outstanding \ {n})
<1>1. IsFiniteSet(fnd) /\ queried \subseteq found
  BY ActionAssumption, FS_Subset DEF EndInv, BookInv, TypeOK
<1>2. \A m \in Closest(fnd) \cap queried : m \in Closest(found)
  BY <1>1, ClosestShrinks
<1>3. kind = "find" /\ failed = {} => Closest(found) \cap queried \subseteq answered \cup outstanding
  BY DEF EndInv, GivenUpIsFar
<1>4. kind # "find" /\ Desired # 0 =>
         \A m \in queried : Askable(m) => m \in answered \cup failed \cup outstanding
  BY DEF EndInv, AskedIsKnown
<1>5. kind = "find" /\ failed = {} =>
         Closest(fnd) \cap queried \subseteq (answered \cup {n}) \cup (outstanding \ {n})
  BY <1>2, <1>3
<1> QED  BY <1>4, <1>5

\* gotResponse with a response that is accepted.
LEMMA GotResponseEnd ==
    ASSUME EndInv, BookInv', NEW n \in Nodes, NEW nodes \in NewNodes, NEW values \in NewResults(n),
           GotResponse(n, nodes, values)
    PROVE  EndInv'
<1>1. n \in inFlight /\ ~finished /\ BookInv
  BY DEF GotResponse, EndInv
<1>2. n \in queried /\ ExpectedLess(n) = Total(outstanding \ {n})
  BY <1>1, InFlightNode
<1>3. nodes \subseteq Nodes /\ values \subseteq Values \cup Nodes
  BY ActionAssumption DEF NewNodes, NewResults, EndInv, BookInv, TypeOK
<1>4. Schedule(found \cup nodes, answered \cup {n}, failed, outstanding \ {n},
               Total(outstanding \ {n}), results \cup values, inFlight \ {n})
  BY <1>2 DEF GotResponse
<1>5. /\ found \cup nodes \subseteq Nodes /\ found \subseteq found \cup nodes
      /\ answered \cup {n} \subseteq queried /\ failed \subseteq failed
      /\ outstanding \ {n} \subseteq queried /\ inFlight \ {n} \subseteq inFlight
      /\ results \cup values \subseteq Values \cup Nodes
  BY <1>2, <1>3 DEF EndInv, BookInv, TypeOK
<1>6. /\ kind = "find" /\ failed = {} =>
           Closest(found \cup nodes) \cap queried \subseteq (answered \cup {n}) \cup (outstanding \ {n})
      /\ kind # "find" /\ Desired # 0 => \A m \in queried : Askable(m) =>
           m \in (answered \cup {n}) \cup failed \cup (outstanding \ {n})
  BY <1>1, <1>5, KnownAfter
<1>7. kind = "store" =>
         /\ inFlight \ {n} = outstanding \ {n}
         /\ Cardinality((results \cup values) \cup (inFlight \ {n})) <= STORE_REDUNDANCY
  <2> SUFFICES ASSUME kind = "store"
               PROVE  /\ inFlight \ {n} = outstanding \ {n}
                      /\ Cardinality((results \cup values) \cup (inFlight \ {n})) <= STORE_REDUNDANCY
    OBVIOUS
  <2>1. values = {n}
    BY DEF NewResults
  <2>2. (results \cup values) \cup (inFlight \ {n}) \subseteq results \cup inFlight
    BY <1>1, <2>1
  <2>3. inFlight = outstanding
    BY <1>1 DEF EndInv, StoreBooks
  <2> QED  BY <2>2, <2>3, StoredIsBounded
<1>8. /\ found' = found \cup nodes /\ answered' = answered \cup {n} /\ failed' = failed
      /\ results' = results \cup values /\ UNCHANGED <<kind, expect>>
  BY DEF GotResponse
<1> QED  BY <1>1, <1>4, <1>5, <1>6, <1>7, <1>8, EndScheduleStep

\* A request that fails, or is answered with a response that processResponse chokes on.
LEMMA FailureEnd ==
    ASSUME EndInv, BookInv', NEW n \in inFlight, NEW nodes, nodes \subseteq Nodes,
           NEW values, values \subseteq Values, kind = "store" => values = {},
           finished => nodes = {} /\ values = {},
           found' = found \cup nodes,
           failed' = failed \cup {n},
           results' = results \cup values,
           Schedule(found \cup nodes, answered, failed \cup {n}, outstanding \ {n},
                    ExpectedLess(n), results \cup values, inFlight \ {n}),
           UNCHANGED <<kind, expect, answered>>
    PROVE  EndInv'
<1>1. n \in queried /\ ExpectedLess(n) = Total(outstanding \ {n})
  BY InFlightNode DEF EndInv
<1>2. Schedule(found \cup nodes, answered, failed \cup {n}, outstanding \ {n},
               Total(outstanding \ {n}), results \cup values, inFlight \ {n})
  BY <1>1
<1>3. /\ found \cup nodes \subseteq Nodes /\ found \subseteq found \cup nodes
      /\ answered \subseteq queried /\ failed \subseteq failed \cup {n}
      /\ outstanding \ {n} \subseteq queried /\ inFlight \ {n} \subseteq inFlight
      /\ results \cup values \subseteq Values \cup Nodes
      /\ failed \cup {n} # {}
  BY DEF EndInv, BookInv, TypeOK
<1>4. ~finished /\ kind # "find" /\ Desired # 0 => \A m \in queried : Askable(m) =>
         m \in answered \cup (failed \cup {n}) \cup (outstanding \ {n})
  BY <1>3, KnownAfter
<1>5. kind = "store" =>
         /\ ~finished => inFlight \ {n} = outstanding \ {n}
         /\ Cardinality((results \cup values) \cup (inFlight \ {n})) <= STORE_REDUNDANCY
  <2>1. kind = "store" => (results \cup values) \cup (inFlight \ {n}) \subseteq results \cup inFlight
    OBVIOUS
  <2>2. kind = "store" /\ ~finished => inFlight = outstanding
    BY DEF EndInv, StoreBooks
  <2> QED  BY <2>1, <2>2, StoredIsBounded
<1>6. finished => found \cup nodes = found /\ results \cup values = results
  OBVIOUS
<1> QED  BY <1>2, <1>3, <1>4, <1>5, <1>6, EndScheduleStep

LEMMA NextEndInv == EndInv /\ [Next]_vars => EndInv'
<1> SUFFICES ASSUME EndInv, [Next]_vars PROVE EndInv'
  OBVIOUS
<1>1. BookInv'
  BY NextBookInv DEF EndInv
<1>2. CASE GoWithNodes
  BY <1>1, <1>2, GoWithNodesEnd
<1>3. ASSUME NEW n \in Nodes, GotLateResponse(n) PROVE EndInv'
  <2>1. /\ inFlight' = inFlight \ {n} /\ finished
        /\ UNCHANGED <<kind, expect, found, answered, failed, results, queried, outstanding,
                       finished, result>>
    BY <1>3 DEF GotLateResponse
  <2>2. GivenUpIsFar' /\ SearchIsThorough' /\ AskedIsKnown'
    BY <2>1 DEF EndInv, GivenUpIsFar, SearchIsThorough, AskedIsKnown
  <2>3. ShortfallIsExhausted'
    BY <2>1 DEF EndInv, ShortfallIsExhausted, Wanted, Desired, Askable
  <2>4. StoreBooks' /\ NeverOverstores'
    <3>1. kind = "store" => Cardinality(results \cup (inFlight \ {n})) <= STORE_REDUNDANCY
      BY StoredIsBounded
    <3> QED  BY <2>1, <3>1 DEF EndInv, StoreBooks, NeverOverstores
  <2> QED  BY <1>1, <2>2, <2>3, <2>4 DEF EndInv
<1>4. ASSUME NEW n \in Nodes, ActionFailed(n) PROVE EndInv'
  <2> DEFINE nodes == {}
             values == {}
  <2>1. found \cup nodes = found /\ nodes \subseteq Nodes /\ nodes = {}
        /\ results \cup values = results /\ values \subseteq Values /\ values = {}
    OBVIOUS
  <2> HIDE DEF nodes, values
  <2>2. /\ n \in inFlight
        /\ found' = found \cup nodes
        /\ failed' = failed \cup {n}
        /\ results' = results \cup values
        /\ Schedule(found \cup nodes, answered, failed \cup {n}, outstanding \ {n},
                    ExpectedLess(n), results \cup values, inFlight \ {n})
        /\ UNCHANGED <<kind, expect, answered>>
    BY <1>4, <2>1 DEF ActionFailed
  <2> QED  BY <1>1, <2>1, <2>2, FailureEnd
<1>5. ASSUME NEW n \in Nodes, NEW nodes \in NewNodes, NEW values \in PartOfResults,
             GotMalformedResponse(n, nodes, values)
      PROVE  EndInv'
  <2>1. nodes \subseteq Nodes /\ values \subseteq Values /\ (kind = "store" => values = {})
    BY DEF NewNodes, PartOfResults
  <2> QED  BY <1>1, <1>5, <2>1, FailureEnd DEF GotMalformedResponse
<1>6. ASSUME NEW n \in Nodes, NEW nodes \in NewNodes, NEW values \in NewResults(n),
             GotResponse(n, nodes, values)
      PROVE  EndInv'
  BY <1>1, <1>6, GotResponseEnd
<1>7. CASE UNCHANGED vars
  BY <1>1, <1>7
     DEF vars, progress, EndInv, GivenUpIsFar, SearchIsThorough, AskedIsKnown,
         ShortfallIsExhausted, StoreBooks, NeverOverstores, Wanted, Desired, Askable
<1> QED  BY <1>2, <1>3, <1>4, <1>5, <1>6, <1>7 DEF Next, Concluded

\* What is achieved holds in every reachable state.
THEOREM Achievement == Safety => []EndInv
  BY InitEndInv, NextEndInv, PTL DEF Safety

-----------------------------------------------------------------------------

\* A search returns only nodes that it has asked and, if none failed, only nodes that
\* have answered, whichever requests it gave up on its way.
THEOREM ThoroughSearch == Spec => []SearchIsThorough
<1>1. EndInv => SearchIsThorough
  BY DEF EndInv
<1> QED  BY <1>1, Achievement, PTL DEF Spec

\* A retrieval or storage falls short of what is desired only after it has asked every
\* node worth asking and heard of it.
THEOREM ExhaustedShortfall == Spec => []ShortfallIsExhausted
<1>1. EndInv => ShortfallIsExhausted
  BY DEF EndInv
<1> QED  BY <1>1, Achievement, PTL DEF Spec

\* A value is never stored at more than STORE_REDUNDANCY nodes.
THEOREM BoundedStorage == Spec => []NeverOverstores
<1>1. EndInv => NeverOverstores
  BY DEF EndInv
<1> QED  BY <1>1, Achievement, PTL DEF Spec
=============================================================================
