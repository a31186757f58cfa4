-------------------------- MODULE Khashmir_proofs --------------------------
(***************************************************************************)
(* Theorems about Khashmir, and at the end about KhashmirStore, for every  *)
(* set of nodes, hosts and values and every setting of the constants, with *)
(* their proofs.  The inductive invariant of Khashmir, IInv, says how      *)
(* self.pinging, the requests under way and those that wait for them go    *)
(* together, and that a node which has failed is being pinged; that of     *)
(* KhashmirStore, StoreInv, how old a token or a value may be by the time  *)
(* left until the next checkpoint.  The arithmetic that shortens a         *)
(* response to get_value has lemmas of its own.                            *)
(***************************************************************************)
EXTENDS Khashmir, KhashmirStore, SetLemmas, SequenceTheorems, TLAPS

\* A sequence that holds nothing twice.
Once(t) == \A i, j \in 1..Len(t) : t[i] = t[j] => i = j

\* The bucket is a list of at most K nodes, none of which is in it twice.
IsBucket(t) == t \in Seq(Nodes) /\ Len(t) <= K /\ Once(t)

\* The sizes.
LEMMA Positive == K \in Nat /\ K > 0 /\ MAX_FAILURES \in Nat /\ MAX_FAILURES > 0
  BY SizesAssumption

-----------------------------------------------------------------------------
(* The bucket. *)

\* list.remove.
LEMMA WithoutIsBucket ==
    ASSUME NEW t, IsBucket(t), NEW n
    PROVE  /\ IsBucket(Without(t, n))
           /\ Members(Without(t, n)) = Members(t) \ {n}
           /\ n \in Members(t) => Len(Without(t, n)) = Len(t) - 1
<1>1. CASE n \notin Members(t)
  BY <1>1 DEF Without
<1>2. CASE n \in Members(t)
  <2> DEFINE i == CHOOSE i \in 1..Len(t) : t[i] = n
             a == SubSeq(t, 1, i - 1)
             b == SubSeq(t, i + 1, Len(t))
             u == a \o b
  <2>1. t \in Seq(Nodes) /\ Len(t) \in Nat /\ Len(t) <= K /\ Once(t)
    BY LenProperties DEF IsBucket
  <2>2. i \in 1..Len(t) /\ t[i] = n
    BY <1>2 DEF Members
  <2> HIDE DEF i
  <2>3. a \in Seq(Nodes) /\ Len(a) = i - 1 /\ \A k \in 1..i - 1 : a[k] = t[k]
    BY <2>1, <2>2, SubSeqProperties
  <2>4. b \in Seq(Nodes) /\ Len(b) = Len(t) - i /\ \A k \in 1..Len(t) - i : b[k] = t[k + i]
    BY <2>1, <2>2, SubSeqProperties
  <2> HIDE DEF a, b
  <2>5. /\ u \in Seq(Nodes) /\ Len(u) = Len(t) - 1
        /\ \A k \in 1..Len(u) : u[k] = IF k < i THEN t[k] ELSE t[k + 1]
    <3>1. /\ u \in Seq(Nodes) /\ Len(u) = Len(a) + Len(b)
          /\ \A k \in 1..Len(u) : u[k] = IF k <= Len(a) THEN a[k] ELSE b[k - Len(a)]
      <4>1. a \in Seq(Nodes) /\ b \in Seq(Nodes)
        BY <2>3, <2>4
      <4> QED  BY <4>1, ConcatProperties
    <3>2. Len(u) = Len(t) - 1
      BY <2>1, <2>2, <2>3, <2>4, <3>1
    <3> HIDE DEF u
    <3>3. ASSUME NEW k \in 1..Len(u) PROVE u[k] = IF k < i THEN t[k] ELSE t[k + 1]
      <4>1. CASE k < i
        BY <2>1, <2>2, <2>3, <3>1, <3>2, <4>1
      <4>2. CASE ~(k < i)
        <5>1. k - Len(a) \in 1..Len(t) - i /\ k - Len(a) + i = k + 1 /\ ~(k <= Len(a))
          BY <2>1, <2>2, <2>3, <3>2, <4>2
        <5> QED  BY <2>4, <3>1, <4>2, <5>1
      <4> QED  BY <4>1, <4>2
    <3> QED  BY <3>1, <3>2, <3>3
  <2> HIDE DEF u
  <2>6. Once(u)
    <3> SUFFICES ASSUME NEW k \in 1..Len(u), NEW l \in 1..Len(u), u[k] = u[l] PROVE k = l
      BY DEF Once
    <3> DEFINE old(x) == IF x < i THEN x ELSE x + 1
    <3>1. old(k) \in 1..Len(t) /\ old(l) \in 1..Len(t) /\ u[k] = t[old(k)] /\ u[l] = t[old(l)]
      BY <2>1, <2>2, <2>5
    <3>2. old(k) = old(l)
      BY <2>1, <3>1 DEF Once
    <3> QED  BY <2>1, <2>2, <2>5, <3>2
  <2>7. Members(u) = Members(t) \ {n}
    <3>1. ASSUME NEW k \in 1..Len(u) PROVE u[k] \in Members(t) /\ u[k] # n
      <4> DEFINE l == IF k < i THEN k ELSE k + 1
      <4>1. l \in 1..Len(t) /\ l # i /\ u[k] = t[l]
        BY <2>1, <2>2, <2>5
      <4>2. t[l] # t[i]
        BY <2>1, <2>2, <4>1 DEF Once
      <4> QED  BY <2>2, <4>1, <4>2 DEF Members
    <3>2. ASSUME NEW l \in 1..Len(t), t[l] # n PROVE t[l] \in Members(u)
      <4> DEFINE k == IF l < i THEN l ELSE l - 1
      <4>1. k \in 1..Len(u) /\ u[k] = t[l]
        BY <2>1, <2>2, <2>5, <3>2
      <4> QED  BY <4>1 DEF Members
    <3>3. Members(u) \subseteq Members(t) \ {n}
      BY <3>1 DEF Members
    <3>4. Members(t) \ {n} \subseteq Members(u)
      BY <3>2 DEF Members
    <3> QED  BY <3>3, <3>4
  <2>8. Without(t, n) = u
    BY <1>2 DEF Without, u, a, b, i
  <2> QED  BY <2>1, <2>5, <2>6, <2>7, <2>8, Positive DEF IsBucket
<1> QED  BY <1>1, <1>2

\* A node that is moved to the end, or added where there is room.
LEMMA MovedIsBucket ==
    ASSUME NEW t, IsBucket(t), NEW n \in Nodes, n \in Members(t) \/ Len(t) < K
    PROVE  /\ IsBucket(Append(Without(t, n), n))
           /\ Members(Append(Without(t, n), n)) = Members(t) \cup {n}
<1> DEFINE u == Without(t, n)
           w == Append(u, n)
<1>1. /\ u \in Seq(Nodes) /\ Len(u) \in Nat /\ Once(u) /\ n \notin Members(u)
      /\ Members(u) = Members(t) \ {n} /\ Len(u) < K
  <2>1. IsBucket(u) /\ Members(u) = Members(t) \ {n}
    BY WithoutIsBucket
  <2>2. Len(u) < K
    <3>1. Len(t) \in Nat /\ Len(t) <= K
      BY LenProperties DEF IsBucket
    <3>2. CASE n \in Members(t)
      BY <3>1, <3>2, WithoutIsBucket, Positive
    <3>3. CASE n \notin Members(t)
      BY <3>3 DEF Without
    <3> QED  BY <3>2, <3>3
  <2> QED  BY <2>1, <2>2, LenProperties DEF IsBucket
<1> HIDE DEF u
<1>2. /\ w \in Seq(Nodes) /\ Len(w) = Len(u) + 1
      /\ \A i \in 1..Len(u) : w[i] = u[i]
      /\ w[Len(u) + 1] = n
  BY <1>1, AppendProperties
<1>3. \A i \in 1..Len(w) : i \in 1..Len(u) \/ i = Len(u) + 1
  BY <1>1, <1>2
<1>4. \A i \in 1..Len(u) : u[i] # n
  BY <1>1 DEF Members
<1> HIDE DEF w
<1>5. Once(w)
  BY <1>1, <1>2, <1>3, <1>4 DEF Once
<1>6. Members(w) = Members(u) \cup {n}
  <2>1. Members(w) \subseteq Members(u) \cup {n}
    BY <1>2, <1>3 DEF Members
  <2>2. Members(u) \subseteq Members(w) /\ n \in Members(w)
    BY <1>1, <1>2 DEF Members
  <2> QED  BY <2>1, <2>2
<1>7. Members(u) \cup {n} = Members(t) \cup {n}
  BY <1>1
<1>8. Len(w) <= K
  BY <1>1, <1>2, Positive
<1> QED  BY <1>2, <1>5, <1>6, <1>7, <1>8 DEF IsBucket, w, u

-----------------------------------------------------------------------------
(* What the steps are made of. *)

\* A ping of a node is under way while self.pinging holds its Deferred, one only, and
\* nothing waits for any other.
Pings(p, f, w, r) ==
    \A n \in Nodes :
        /\ f[n] = (IF p[n] = "sent" THEN 1 ELSE 0)
        /\ p[n] # "sent" => w[n] = <<>> /\ n \notin r

\* The types of what the pings are kept in.
PingTypes(p, f, w, r) ==
    /\ p \in [Nodes -> {"none", "sent", "later"}]
    /\ f \in [Nodes -> Nat]
    /\ w \in [Nodes -> Seq(Newcomers)]
    /\ r \subseteq Nodes

\* In the table t with failures f, no failed node but those in x goes unwatched.
Watched(t, f, p, x) ==
    \A n \in Members(t) : f[n] > 0 => p[n] # "none" \/ n \in x

\* sendPing keeps the books of the pings.
LEMMA SendPingStep ==
    ASSUME PingTypes(pinging, inFlight, waiters, rePings), Pings(pinging, inFlight, waiters, rePings),
           NEW n \in Nodes, NEW newcomers \in Seq(Newcomers), NEW again \in SUBSET {n},
           SendPing(n, newcomers, again)
    PROVE  /\ PingTypes(pinging', inFlight', waiters', rePings')
           /\ Pings(pinging', inFlight', waiters', rePings')
           /\ pinging' = [pinging EXCEPT ![n] = "sent"]
<1>1. waiters[n] \o newcomers \in Seq(Newcomers)
  BY ConcatProperties DEF PingTypes
<1>2. PingTypes(pinging', inFlight', waiters', rePings')
  BY <1>1 DEF PingTypes, SendPing
<1>3. ASSUME NEW m \in Nodes
      PROVE  /\ inFlight'[m] = (IF pinging'[m] = "sent" THEN 1 ELSE 0)
             /\ pinging'[m] # "sent" => waiters'[m] = <<>> /\ m \notin rePings'
  <2>1. CASE m = n
    BY <2>1 DEF PingTypes, Pings, SendPing
  <2>2. CASE m # n
    BY <2>2 DEF PingTypes, Pings, SendPing
  <2> QED  BY <2>1, <2>2
<1> QED  BY <1>2, <1>3 DEF Pings, SendPing

\* insertNode, whatever else is going on: the bucket stays one, and who was watched in it
\* is, except that a contacted node has not failed.
LEMMA InsertNodeStep ==
    ASSUME PingTypes(pinging, inFlight, waiters, rePings), Pings(pinging, inFlight, waiters, rePings),
           NEW t, IsBucket(t), NEW f \in [Nodes -> 0..(MAX_FAILURES - 1)], stale \subseteq Nodes,
           NEW n \in Nodes, NEW contacted \in BOOLEAN, InsertNode(t, f, n, contacted),
           NEW x, Watched(t, f, pinging, x)
    PROVE  /\ PingTypes(pinging', inFlight', waiters', rePings')
           /\ Pings(pinging', inFlight', waiters', rePings')
           /\ IsBucket(table') /\ stale' \subseteq Nodes
           /\ fails' \in [Nodes -> 0..(MAX_FAILURES - 1)]
           /\ Watched(table', fails', pinging', IF contacted THEN x \ {n} ELSE x)
<1>1. CASE /\ contacted /\ (n \in Members(t) \/ Len(t) < K)
           /\ table' = Append(Without(t, n), n)
           /\ stale' = (stale \cap Members(t)) \ {n}
           /\ fails' = [f EXCEPT ![n] = 0]
           /\ NoPing
  <2>1. IsBucket(table') /\ Members(table') = Members(t) \cup {n}
    BY <1>1, MovedIsBucket
  <2>2. fails' \in [Nodes -> 0..(MAX_FAILURES - 1)]
    BY <1>1, Positive
  <2>3. Watched(table', fails', pinging', x \ {n})
    <3> SUFFICES ASSUME NEW m \in Members(table'), fails'[m] > 0
                 PROVE  pinging'[m] # "none" \/ m \in x \ {n}
      BY DEF Watched
    <3>1. m # n
      BY <1>1
    <3>2. m \in Members(t) /\ f[m] > 0
      BY <1>1, <2>1, <3>1
    <3> QED  BY <1>1, <3>1, <3>2 DEF Watched, NoPing
  <2> QED  BY <1>1, <2>1, <2>2, <2>3 DEF NoPing
<1>2. CASE /\ n \notin Members(t) /\ Len(t) < K /\ ~contacted
           /\ SetTable(t) /\ fails' = f
           /\ SendPing(n, <<>>, {n})
  <2>1. <<>> \in Seq(Newcomers)
    BY EmptySeq
  <2>2. /\ PingTypes(pinging', inFlight', waiters', rePings')
        /\ Pings(pinging', inFlight', waiters', rePings')
        /\ pinging' = [pinging EXCEPT ![n] = "sent"]
    BY <1>2, <2>1, SendPingStep
  <2>3. Watched(table', fails', pinging', x)
    BY <1>2, <2>2 DEF Watched, SetTable, PingTypes
  <2> QED  BY <1>2, <2>2, <2>3 DEF SetTable
<1>3. CASE /\ n \notin Members(t) /\ ~(Len(t) < K) /\ Head(t) \in stale
           /\ SetTable(t) /\ fails' = f
           /\ SendPing(Head(t), <<[node |-> n, contacted |-> contacted]>>, {})
  <2> DEFINE h == Head(t)
             w == <<[node |-> n, contacted |-> contacted]>>
  <2>1. w \in Seq(Newcomers)
    BY DEF Newcomers
  <2>2. h \in Nodes
    <3>1. t \in Seq(Nodes) /\ t # <<>>
      BY <1>3, Positive, LenProperties, EmptySeq DEF IsBucket
    <3> QED  BY <3>1, HeadTailProperties
  <2>3. SendPing(h, w, {}) /\ table' = t /\ stale' = stale \cap Members(t) /\ fails' = f
    BY <1>3 DEF SetTable
  <2>4. {} \in SUBSET {h}
    OBVIOUS
  <2> HIDE DEF h, w
  <2>5. /\ PingTypes(pinging', inFlight', waiters', rePings')
        /\ Pings(pinging', inFlight', waiters', rePings')
        /\ pinging' = [pinging EXCEPT ![h] = "sent"]
    BY <2>1, <2>2, <2>3, <2>4, SendPingStep
  <2>6. Watched(table', fails', pinging', IF contacted THEN x \ {n} ELSE x)
    <3> SUFFICES ASSUME NEW m \in Members(t), f[m] > 0
                 PROVE  pinging'[m] # "none" \/ m \in (IF contacted THEN x \ {n} ELSE x)
      BY <2>3 DEF Watched
    <3>1. m # n /\ m \in Nodes
      BY <1>3 DEF IsBucket, Members
    <3>2. pinging[m] # "none" \/ m \in x
      BY DEF Watched
    <3>3. pinging[m] # "none" => pinging'[m] # "none"
      BY <2>2, <2>5, <3>1 DEF PingTypes
    <3> QED  BY <3>1, <3>2, <3>3
  <2> QED  BY <2>3, <2>5, <2>6
<1>4. CASE /\ IF n \in Members(t) THEN ~contacted ELSE ~(Len(t) < K) /\ Head(t) \notin stale
           /\ SetTable(t) /\ fails' = f
           /\ NoPing
  BY <1>4 DEF SetTable, NoPing, Watched
<1> QED  BY <1>1, <1>2, <1>3, <1>4 DEF InsertNode

\* nodeFailed: a node that stays in the bucket is watched from then on.
LEMMA NodeFailedStep ==
    ASSUME NEW t, IsBucket(t), NEW n \in Nodes, NEW busy \in [Nodes -> {"none", "sent", "later"}],
           fails \in [Nodes -> 0..(MAX_FAILURES - 1)], stale \subseteq Nodes,
           NodeFailed(t, n, busy), NEW x, \A m \in Members(t) \ {n} : fails[m] > 0 => busy[m] # "none" \/ m \in x
    PROVE  /\ IsBucket(table') /\ stale' \subseteq Nodes
           /\ fails' \in [Nodes -> 0..(MAX_FAILURES - 1)]
           /\ pinging' \in [Nodes -> {"none", "sent", "later"}]
           /\ \A m \in Nodes : \/ pinging'[m] = busy[m]
                               \/ busy[m] = "none" /\ pinging'[m] = "later"
           /\ Watched(table', fails', pinging', x)
<1>1. CASE n \in Members(t) /\ fails[n] + 1 < MAX_FAILURES
  <2>1. /\ table' = t /\ stale' \subseteq Nodes /\ fails' = [fails EXCEPT ![n] = @ + 1]
        /\ pinging' = IF busy[n] = "none" THEN [busy EXCEPT ![n] = "later"] ELSE busy
    BY <1>1 DEF NodeFailed, SetTable
  <2>2. fails' \in [Nodes -> 0..(MAX_FAILURES - 1)]
    BY <1>1, <2>1, Positive
  <2>3. Watched(table', fails', pinging', x)
    BY <2>1 DEF Watched
  <2> QED  BY <2>1, <2>2, <2>3
<1>2. CASE ~(n \in Members(t) /\ fails[n] + 1 < MAX_FAILURES)
  <2>1. /\ table' = Without(t, n) /\ stale' \subseteq Nodes /\ fails' = [fails EXCEPT ![n] = 0]
        /\ pinging' = busy
    BY <1>2 DEF NodeFailed, SetTable
  <2>2. IsBucket(table') /\ Members(table') = Members(t) \ {n}
    BY <2>1, WithoutIsBucket
  <2>3. fails' \in [Nodes -> 0..(MAX_FAILURES - 1)]
    BY <2>1, Positive
  <2>4. Watched(table', fails', pinging', x)
    BY <2>1, <2>2 DEF Watched
  <2> QED  BY <2>1, <2>2, <2>3, <2>4
<1> QED  BY <1>1, <1>2

-----------------------------------------------------------------------------
(* The inductive invariant. *)

\* Nodes in the table that need no ping: those whose answer is about to be entered, and
\* after shutdown all.
Excused == IF listening THEN inserting ELSE Nodes

\* The inductive invariant.
IInv ==
    /\ PingTypes(pinging, inFlight, waiters, rePings)
    /\ Pings(pinging, inFlight, waiters, rePings)
    /\ IsBucket(table)
    /\ stale \subseteq Nodes
    /\ fails \in [Nodes -> 0..(MAX_FAILURES - 1)]
    /\ inserting \subseteq Nodes
    /\ failing \in Nodes \cup {None}
    /\ handlers \in Seq(Newcomers)
    /\ failing # None <=> handlers # <<>>
    /\ listening \in BOOLEAN
    /\ Watched(table, fails, pinging, Excused)

\* What is excused may grow.
LEMMA WatchedMore ==
    ASSUME NEW t, NEW f, NEW p, NEW x, NEW y, Watched(t, f, p, x), x \subseteq y
    PROVE  Watched(t, f, p, y)
  BY DEF Watched

\* The invariant holds of an empty table.
LEMMA InitInv == Init => IInv
<1> SUFFICES ASSUME Init PROVE IInv
  OBVIOUS
<1>1. <<>> \in Seq(Newcomers) /\ <<>> \in Seq(Nodes) /\ Len(<<>>) = 0
  BY EmptySeq
<1>2. Members(table) = {} /\ Once(table)
  BY <1>1 DEF Init, Members, Once
<1>3. PingTypes(pinging, inFlight, waiters, rePings)
  BY <1>1 DEF Init, PingTypes
<1>4. Pings(pinging, inFlight, waiters, rePings)
  BY DEF Init, Pings
<1>5. IsBucket(table)
  BY <1>1, <1>2, Positive DEF Init, IsBucket
<1>6. Watched(table, fails, pinging, Excused)
  BY <1>2 DEF Watched
<1>7. fails \in [Nodes -> 0..(MAX_FAILURES - 1)]
  BY Positive DEF Init
<1> QED  BY <1>1, <1>3, <1>4, <1>5, <1>6, <1>7 DEF Init, IInv

\* insertNode, called later, after an answer.
LEMMA RunInsertNodeInv ==
    ASSUME IInv, NEW n \in Nodes, RunInsertNode(n) PROVE IInv'
<1>1. /\ PingTypes(pinging', inFlight', waiters', rePings')
      /\ Pings(pinging', inFlight', waiters', rePings')
      /\ IsBucket(table') /\ stale' \subseteq Nodes
      /\ fails' \in [Nodes -> 0..(MAX_FAILURES - 1)]
      /\ Watched(table', fails', pinging', Excused \ {n})
  <2>1. InsertNode(table, fails, n, TRUE)
    BY DEF RunInsertNode
  <2> QED  BY <2>1, InsertNodeStep DEF IInv
<1>2. inserting' = inserting \ {n} /\ UNCHANGED <<failing, handlers, listening>>
  BY DEF RunInsertNode
<1>3. Excused \ {n} \subseteq Excused'
  BY <1>2 DEF Excused
<1>4. Watched(table', fails', pinging', Excused')
  BY <1>1, <1>3, WatchedMore
<1> QED  BY <1>1, <1>2, <1>4 DEF IInv

\* insertNode, called when a node is heard of.
LEMMA HeardInv ==
    ASSUME IInv, NEW n \in Nodes, NEW contacted \in BOOLEAN, Heard(n, contacted) PROVE IInv'
<1> DEFINE x == IF contacted THEN Excused \ {n} ELSE Excused
<1>1. /\ PingTypes(pinging', inFlight', waiters', rePings')
      /\ Pings(pinging', inFlight', waiters', rePings')
      /\ IsBucket(table') /\ stale' \subseteq Nodes
      /\ fails' \in [Nodes -> 0..(MAX_FAILURES - 1)]
      /\ Watched(table', fails', pinging', x)
  <2>1. InsertNode(table, fails, n, contacted)
    BY DEF Heard
  <2> QED  BY <2>1, InsertNodeStep DEF IInv
<1>2. UNCHANGED <<inserting, failing, handlers, listening>>
  BY DEF Heard
<1>3. x \subseteq Excused'
  BY <1>2 DEF Excused
<1>4. Watched(table', fails', pinging', Excused')
  BY <1>1, <1>3, WatchedMore
<1> QED  BY <1>1, <1>2, <1>4 DEF IInv

\* _staleNodeHandler replaces a node, and may ping another one for the same newcomer.
LEMMA StaleNodeHandlerInv ==
    ASSUME IInv, StaleNodeHandler PROVE IInv'
<1> DEFINE t == Without(table, failing)
           f == [fails EXCEPT ![failing] = 0]
           h == Head(handlers)
           x == IF h.contacted THEN Excused \ {h.node} ELSE Excused
<1>1. failing \in Nodes /\ handlers \in Seq(Newcomers) /\ handlers # <<>>
  BY DEF IInv, StaleNodeHandler
<1>2. h \in Newcomers /\ Tail(handlers) \in Seq(Newcomers)
  BY <1>1, HeadTailProperties
<1>3. h.node \in Nodes /\ h.contacted \in BOOLEAN
  BY <1>2 DEF Newcomers
<1>4. IsBucket(t) /\ Members(t) = Members(table) \ {failing}
  BY WithoutIsBucket DEF IInv
<1>5. f \in [Nodes -> 0..(MAX_FAILURES - 1)]
  <2>1. fails \in [Nodes -> 0..(MAX_FAILURES - 1)]
    BY DEF IInv
  <2>2. 0 \in 0..(MAX_FAILURES - 1)
    BY Positive
  <2> HIDE DEF t, h, x
  <2> QED  BY <2>1, <2>2
<1>6. Watched(t, f, pinging, Excused)
  BY <1>4 DEF IInv, Watched
<1>7. InsertNode(t, f, h.node, h.contacted)
  BY DEF StaleNodeHandler
<1> HIDE DEF t, f, h
<1>8. /\ PingTypes(pinging', inFlight', waiters', rePings')
      /\ Pings(pinging', inFlight', waiters', rePings')
      /\ IsBucket(table') /\ stale' \subseteq Nodes
      /\ fails' \in [Nodes -> 0..(MAX_FAILURES - 1)]
      /\ Watched(table', fails', pinging', x)
  <2> DEFINE n == h.node
             contacted == h.contacted
  <2>1. n \in Nodes /\ contacted \in BOOLEAN /\ InsertNode(t, f, n, contacted)
    BY <1>3, <1>7
  <2>2. /\ PingTypes(pinging, inFlight, waiters, rePings)
        /\ Pings(pinging, inFlight, waiters, rePings)
        /\ stale \subseteq Nodes
    BY DEF IInv
  <2> HIDE DEF n, contacted
  <2>3. /\ PingTypes(pinging', inFlight', waiters', rePings')
        /\ Pings(pinging', inFlight', waiters', rePings')
        /\ IsBucket(table') /\ stale' \subseteq Nodes
        /\ fails' \in [Nodes -> 0..(MAX_FAILURES - 1)]
        /\ Watched(table', fails', pinging', IF contacted THEN Excused \ {n} ELSE Excused)
    BY <1>4, <1>5, <1>6, <2>1, <2>2, InsertNodeStep
  <2> QED  BY <2>3 DEF n, contacted
<1>9. /\ handlers' = Tail(handlers) /\ UNCHANGED <<inserting, listening>>
      /\ failing' = IF Tail(handlers) = <<>> THEN None ELSE failing
  BY DEF StaleNodeHandler
<1>10. x \subseteq Excused'
  BY <1>9 DEF Excused
<1>11. Watched(table', fails', pinging', Excused')
  BY <1>8, <1>10, WatchedMore
<1>12. failing' \in Nodes \cup {None} /\ (failing' # None <=> handlers' # <<>>)
  BY <1>1, <1>9, NoneAssumption
<1> QED  BY <1>2, <1>8, <1>9, <1>11, <1>12 DEF IInv

\* The delayed call of sendPing.
LEMMA RunLaterPingInv ==
    ASSUME IInv, NEW n \in Nodes, RunLaterPing(n) PROVE IInv'
<1>1. SendPing(n, <<>>, {}) /\ UNCHANGED <<table, fails, stale, inserting, failing, handlers, listening>>
  BY DEF RunLaterPing
<1>2. <<>> \in Seq(Newcomers) /\ {} \in SUBSET {n}
  BY EmptySeq
<1>3. /\ PingTypes(pinging', inFlight', waiters', rePings')
      /\ Pings(pinging', inFlight', waiters', rePings')
      /\ pinging' = [pinging EXCEPT ![n] = "sent"]
  BY <1>1, <1>2, SendPingStep DEF IInv
<1>4. Watched(table', fails', pinging', Excused')
  BY <1>1, <1>3 DEF IInv, Watched, Excused, PingTypes
<1> QED  BY <1>1, <1>3, <1>4 DEF IInv

\* _pingHandler.
LEMMA PingAnsweredInv ==
    ASSUME IInv, NEW n \in Nodes, PingAnswered(n) PROVE IInv'
<1>1. inFlight[n] = 1
  BY DEF IInv, Pings, PingAnswered
<1>2. PingTypes(pinging', inFlight', waiters', rePings')
  BY <1>1, EmptySeq DEF IInv, PingTypes, PingAnswered
<1>3. Pings(pinging', inFlight', waiters', rePings')
  BY <1>1 DEF IInv, Pings, PingTypes, PingAnswered
<1>4. Watched(table', fails', pinging', Excused')
  BY DEF IInv, Watched, Excused, PingTypes, PingAnswered
<1> QED  BY <1>2, <1>3, <1>4 DEF IInv, PingAnswered

\* _pingError, with the bucket t that checkSender in knode.py may have left.
LEMMA PingFailsInv ==
    ASSUME IInv, NEW n \in Nodes, NEW t, IsBucket(t), Members(t) \subseteq Members(table),
           PingFails(n, t)
    PROVE  IInv'
<1> DEFINE busy == [pinging EXCEPT ![n] = "none"]
<1>1. busy \in [Nodes -> {"none", "sent", "later"}]
  BY DEF IInv, PingTypes
<1>2. \A m \in Members(t) \ {n} : fails[m] > 0 => busy[m] # "none" \/ m \in Excused
  BY DEF IInv, Watched, PingTypes
<1>3. NodeFailed(t, n, busy)
  BY DEF PingFails
<1>4. busy[n] = "none" /\ \A m \in Nodes \ {n} : busy[m] = pinging[m]
  BY DEF IInv, PingTypes
<1> HIDE DEF busy
<1>5. /\ IsBucket(table') /\ stale' \subseteq Nodes
      /\ fails' \in [Nodes -> 0..(MAX_FAILURES - 1)]
      /\ pinging' \in [Nodes -> {"none", "sent", "later"}]
      /\ \A m \in Nodes : \/ pinging'[m] = busy[m]
                          \/ busy[m] = "none" /\ pinging'[m] = "later"
      /\ Watched(table', fails', pinging', Excused)
  BY <1>1, <1>2, <1>3, NodeFailedStep DEF IInv
<1>6. /\ pinging[n] = "sent"
      /\ inFlight' = [inFlight EXCEPT ![n] = @ - 1]
      /\ waiters' = [waiters EXCEPT ![n] = <<>>]
      /\ rePings' = rePings \ {n}
      /\ UNCHANGED <<inserting, listening>>
  BY DEF PingFails
<1>7. inFlight[n] = 1
  BY <1>6 DEF IInv, Pings
<1>8. PingTypes(pinging', inFlight', waiters', rePings')
  BY <1>5, <1>6, <1>7, EmptySeq DEF IInv, PingTypes
<1>9. Pings(pinging', inFlight', waiters', rePings')
  <2> SUFFICES ASSUME NEW m \in Nodes
               PROVE  /\ inFlight'[m] = (IF pinging'[m] = "sent" THEN 1 ELSE 0)
                      /\ pinging'[m] # "sent" => waiters'[m] = <<>> /\ m \notin rePings'
    BY DEF Pings
  <2>1. CASE m = n
    <3>1. pinging'[n] # "sent"
      BY <1>4, <1>5
    <3>2. inFlight'[n] = 0 /\ waiters'[n] = <<>> /\ n \notin rePings'
      BY <1>6, <1>7 DEF IInv, PingTypes
    <3> QED  BY <2>1, <3>1, <3>2
  <2>2. CASE m # n
    <3>1. pinging'[m] = "sent" <=> pinging[m] = "sent"
      BY <1>4, <1>5, <2>2
    <3>2. inFlight'[m] = inFlight[m] /\ waiters'[m] = waiters[m] /\ (m \in rePings' => m \in rePings)
      BY <1>6, <2>2 DEF IInv, PingTypes
    <3> QED  BY <3>1, <3>2 DEF IInv, Pings
  <2> QED  BY <2>1, <2>2
<1>10. /\ handlers' \in Seq(Newcomers) /\ failing' \in Nodes \cup {None}
       /\ failing' # None <=> handlers' # <<>>
  <2>1. handlers' = waiters[n] /\ failing' = IF handlers' = <<>> THEN None ELSE n
    BY DEF PingFails
  <2> QED  BY <2>1, NoneAssumption DEF IInv, PingTypes
<1>11. Excused' = Excused
  BY <1>6 DEF Excused
<1> QED  BY <1>5, <1>6, <1>8, <1>9, <1>10, <1>11 DEF IInv

\* nodeFailed, after a join or a request of a DHT operation.
LEMMA RequestFailedInv ==
    ASSUME IInv, NEW n \in Nodes, NEW t, IsBucket(t), Members(t) \subseteq Members(table),
           RequestFailed(n, t)
    PROVE  IInv'
<1>1. NodeFailed(t, n, pinging) /\ UNCHANGED <<inFlight, waiters, rePings, inserting, failing, handlers, listening>>
  BY DEF RequestFailed
<1>2. \A m \in Members(t) \ {n} : fails[m] > 0 => pinging[m] # "none" \/ m \in Excused
  BY DEF IInv, Watched
<1>3. /\ IsBucket(table') /\ stale' \subseteq Nodes
      /\ fails' \in [Nodes -> 0..(MAX_FAILURES - 1)]
      /\ pinging' \in [Nodes -> {"none", "sent", "later"}]
      /\ \A m \in Nodes : \/ pinging'[m] = pinging[m]
                          \/ pinging[m] = "none" /\ pinging'[m] = "later"
      /\ Watched(table', fails', pinging', Excused)
  BY <1>1, <1>2, NodeFailedStep DEF IInv, PingTypes
<1>4. PingTypes(pinging', inFlight', waiters', rePings')
  BY <1>1, <1>3 DEF IInv, PingTypes
<1>5. Pings(pinging', inFlight', waiters', rePings')
  BY <1>1, <1>3 DEF IInv, Pings
<1>6. Excused' = Excused
  BY <1>1 DEF Excused
<1> QED  BY <1>1, <1>3, <1>4, <1>5, <1>6 DEF IInv

\* shutdown stops the delayed pings.
LEMMA ShutdownInv ==
    ASSUME IInv, Shutdown PROVE IInv'
<1>1. PingTypes(pinging', inFlight', waiters', rePings')
  BY DEF IInv, PingTypes, Shutdown
<1>2. Pings(pinging', inFlight', waiters', rePings')
  BY DEF IInv, PingTypes, Pings, Shutdown
<1>3. Watched(table', fails', pinging', Excused')
  <2>1. Members(table') \subseteq Excused'
    BY DEF IInv, IsBucket, Members, Excused, Shutdown
  <2> QED  BY <2>1 DEF Watched
<1> QED  BY <1>1, <1>2, <1>3 DEF IInv, Shutdown

\* Every step preserves the invariant.
LEMMA NextInv == IInv /\ [Next]_vars => IInv'
<1> SUFFICES ASSUME IInv, [Next]_vars PROVE IInv'
  OBVIOUS
<1>1. CASE StaleNodeHandler
  BY <1>1, StaleNodeHandlerInv
<1>2. ASSUME NEW n \in Nodes, RunInsertNode(n) PROVE IInv'
  BY <1>2, RunInsertNodeInv
<1>3. ASSUME NEW n \in Nodes, RunLaterPing(n) PROVE IInv'
  BY <1>3, RunLaterPingInv
<1>4. ASSUME NEW n \in Nodes, PingEnds(n) PROVE IInv'
  <2>1. CASE PingAnswered(n)
    BY <2>1, PingAnsweredInv
  <2>2. CASE PingFails(n, table)
    BY <2>2, PingFailsInv DEF IInv
  <2>3. CASE listening /\ PingFails(n, Without(table, n))
    <3>1. IsBucket(Without(table, n)) /\ Members(Without(table, n)) \subseteq Members(table)
      BY WithoutIsBucket DEF IInv
    <3> QED  BY <2>3, <3>1, PingFailsInv
  <2> QED  BY <1>4, <2>1, <2>2, <2>3 DEF PingEnds
<1>5. ASSUME NEW n \in Nodes, RemoteRequest(n) PROVE IInv'
  BY <1>5, HeardInv DEF RemoteRequest
<1>6. ASSUME NEW n \in Nodes, RequestAnswered(n) PROVE IInv'
  BY <1>6, HeardInv DEF RequestAnswered
<1>7. ASSUME NEW n \in Nodes, RequestFails(n) PROVE IInv'
  <2>1. CASE RequestFailed(n, table)
    BY <2>1, RequestFailedInv DEF IInv
  <2>2. CASE listening /\ RequestFailed(n, Without(table, n))
    <3>1. IsBucket(Without(table, n)) /\ Members(Without(table, n)) \subseteq Members(table)
      BY WithoutIsBucket DEF IInv
    <3> QED  BY <2>2, <3>1, RequestFailedInv
  <2> QED  BY <1>7, <2>1, <2>2 DEF RequestFails
<1>8. ASSUME NEW n \in Nodes, BecomesStale(n) PROVE IInv'
  <2>1. /\ stale' \subseteq Nodes
        /\ UNCHANGED <<table, fails, pinging, inFlight, waiters, rePings, inserting,
                       failing, handlers, listening>>
    BY <1>8 DEF BecomesStale, IInv
  <2> QED  BY <2>1 DEF IInv, Excused
<1>9. CASE Shutdown
  BY <1>9, ShutdownInv
<1>10. CASE UNCHANGED vars
  BY <1>10 DEF IInv, vars, Excused
<1> QED  BY <1>1, <1>2, <1>3, <1>4, <1>5, <1>6, <1>7, <1>8, <1>9, <1>10 DEF Next

-----------------------------------------------------------------------------

\* IInv holds in every reachable state.
THEOREM Invariance == Spec => []IInv
<1>1. Safety => []IInv
  BY InitInv, NextInv, PTL DEF Safety
<1> QED  BY <1>1, PTL DEF Spec

\* Every variable of Khashmir keeps its type; the bucket never holds more than K nodes.
THEOREM TypeCorrect == Spec => []TypeOK
<1>1. IInv => TypeOK
  BY DEF IInv, TypeOK, IsBucket, PingTypes
<1> QED  BY <1>1, Invariance, PTL

\* However pings, re-pings, answers and failures interleave, a node has one ping request
\* under way at most, and one only while self.pinging holds its Deferred.
THEOREM PingsAreOne == Spec => []OnePingPerNode
<1>1. IInv => OnePingPerNode
  BY DEF IInv, OnePingPerNode, Pings
<1> QED  BY <1>1, Invariance, PTL

\* A node of the bucket that has failed is being pinged, or will be: it either answers or
\* is removed in the end.
THEOREM FailedAreWatched == Spec => []FailedIsWatched
<1>1. IInv => FailedIsWatched
  BY DEF IInv, FailedIsWatched, Watched, Excused
<1> QED  BY <1>1, Invariance, PTL

-----------------------------------------------------------------------------
(***************************************************************************)
(* The node's database and its tokens (KhashmirStore): theorems for every  *)
(* set of hosts and values and all times that TimeAssumption allows.  The  *)
(* inductive invariant, StoreInv, ties a token's place among the secrets,  *)
(* and the age of a value, to the time left until the next checkpoint.     *)
(***************************************************************************)

\* Where the counting of ages stops.
AgeLimit == AgeCap

\* The clock and the secrets of a running process.
ClockInv ==
    /\ uptime \in Nat \cup {NoTime}
    /\ next_checkpoint \in 0..MaxInterval
    /\ secrets \in (IF Running THEN 1..3 ELSE {0})

\* The ages at which a token of this process can have its place among the secrets:
\* it gets there by so many checkpoints.
AgeFits(place, age, next) ==
    \/ place = 1 /\ age <= MaxInterval - next
    \/ place = 2 /\ MinInterval - next <= age /\ age <= 2 * MaxInterval - next
    \/ place = 3 /\ 2 * MinInterval - next <= age /\ age <= 3 * MaxInterval - next
    \/ place = Gone /\ 2 * MinInterval <= age

\* What holds of a host's token; those of an earlier process count as long gone.
TokenFits(token, next, count) ==
    token # NoTime =>
        /\ token \in [secret : Places, age : Nat, ours : BOOLEAN]
        /\ IF token.ours
           THEN /\ AgeFits(token.secret, token.age, next)
                /\ token.secret = Gone \/ token.secret <= count
           ELSE token.secret = Gone

\* What holds of the tokens, and after a crash.
TokenInv ==
    /\ tokens \in [Hosts -> [secret : Places, age : Nat, ours : BOOLEAN] \cup {NoTime}]
    /\ \A host \in Hosts : TokenFits(tokens[host], next_checkpoint, secrets)
    /\ ~Running => \A host \in Hosts : tokens[host] # NoTime => ~tokens[host].ours

\* No value is older than a checkpoint leaves it, and the time since.
ValuesFit(rows, next) == \A v \in Values : rows[v] # NoTime => rows[v] <= KEY_EXPIRE + (MaxInterval - next)

\* That holds from the first checkpoint on.
ValueInv ==
    /\ kv \in [Values -> Nat \cup {NoTime}]
    /\ Running => \/ uptime + next_checkpoint = FirstCheckpoint
                        \/ ValuesFit(kv, next_checkpoint)

\* The inductive invariant.
StoreInv == ClockInv /\ TokenInv /\ ValueInv

\* The extremes of two numbers.
LEMMA SmallerOfTwo ==
    ASSUME NEW a \in Int, NEW b \in Int
    PROVE  /\ Min({a, b}) = (IF a <= b THEN a ELSE b)
           /\ Max({a, b}) = (IF a <= b THEN b ELSE a)
  BY DEF Min, Max

\* Ages are counted beyond everything they are compared with.
LEMMA Limit ==
    AgeLimit \in Nat /\ 3 * MaxInterval < AgeLimit /\ KEY_EXPIRE + MaxInterval < AgeLimit
<1>1. KEY_EXPIRE + MaxInterval \in Nat /\ 3 * MaxInterval \in Nat
  BY TimeAssumption, NoTimeAssumption
<1> DEFINE most == Max({KEY_EXPIRE + MaxInterval, 3 * MaxInterval})
<1>2. most \in Nat /\ 3 * MaxInterval <= most /\ KEY_EXPIRE + MaxInterval <= most
  <2> DEFINE a == KEY_EXPIRE + MaxInterval
             b == 3 * MaxInterval
  <2>1. a \in Nat /\ b \in Nat /\ most = Max({a, b})
    BY <1>1
  <2> HIDE DEF a, b, most
  <2>2. a \in Int /\ b \in Int
    BY <2>1
  <2>3. Max({a, b}) = IF a <= b THEN b ELSE a
    BY <2>2, SmallerOfTwo
  <2>4. most \in Nat /\ a <= most /\ b <= most
    BY <2>1, <2>3
  <2> QED  BY <2>4 DEF a, b
<1>3. AgeLimit = most + 1
  BY DEF AgeLimit, AgeCap
<1> HIDE DEF most
<1> QED  BY <1>1, <1>2, <1>3

\* A value or a token gets older.
LEMMA OlderAge ==
    ASSUME NEW age \in Nat
    PROVE  Older(age) = IF age < AgeLimit THEN age + 1 ELSE AgeLimit
<1>1. age # NoTime
  BY TimeAssumption, NoTimeAssumption
<1>2. AgeLimit \in Nat
  BY Limit
<1>3. Min({age + 1, AgeLimit}) = IF age + 1 <= AgeLimit THEN age + 1 ELSE AgeLimit
  BY <1>2, SmallerOfTwo
<1>4. Older(age) = Min({age + 1, AgeLimit})
  BY <1>1 DEF Older, AgeLimit
<1> HIDE DEF AgeLimit
<1> QED  BY <1>2, <1>3, <1>4

\* The invariant holds of an empty database, and of one from an earlier process.
LEMMA StoreInvInit == StoreInit => StoreInv
<1> SUFFICES ASSUME StoreInit PROVE StoreInv
  OBVIOUS
<1>1. NoTime \notin Nat /\ uptime = 0 /\ Running /\ next_checkpoint = FirstCheckpoint /\ secrets = 1
  BY TimeAssumption, NoTimeAssumption DEF StoreInit, Running
<1>2. ClockInv
  BY <1>1, TimeAssumption, NoTimeAssumption DEF ClockInv
<1>3. TokenInv
  BY <1>1 DEF StoreInit, TokenInv, TokenFits
<1>4. ValueInv
  BY <1>1, TimeAssumption, NoTimeAssumption DEF StoreInit, ValueInv
<1> QED  BY <1>2, <1>3, <1>4 DEF StoreInv

\* Time passes for a token.
LEMMA TokenTick ==
    ASSUME NEW token, NEW count, NEW next \in 0..MaxInterval, NEW later \in 0..MaxInterval,
           TokenFits(token, next, count), token # NoTime, later = next \/ later = next - 1,
           token.ours => later = next - 1
    PROVE  TokenFits([token EXCEPT !.age = Older(@)], later, count)
<1> DEFINE older == [token EXCEPT !.age = Older(@)]
<1>1. token \in [secret : Places, age : Nat, ours : BOOLEAN]
  BY DEF TokenFits
<1>2. older \in [secret : Places, age : Nat, ours : BOOLEAN]
      /\ older.secret = token.secret /\ older.ours = token.ours
      /\ older.age = IF token.age < AgeLimit THEN token.age + 1 ELSE AgeLimit
  BY <1>1, OlderAge, Limit
<1>3. CASE ~token.ours
  BY <1>2, <1>3 DEF TokenFits
<1>4. CASE token.ours
  <2>1. AgeFits(token.secret, token.age, next) /\ (token.secret = Gone \/ token.secret <= count)
    BY <1>4 DEF TokenFits
  <2>2. token.age \in Nat /\ token.secret \in Places /\ later = next - 1
    BY <1>1, <1>4
  <2> HIDE DEF older
  <2>3. AgeFits(token.secret, older.age, later)
    <3>1. /\ MinInterval \in Nat /\ MaxInterval \in Nat /\ MinInterval <= MaxInterval
          /\ AgeLimit \in Nat /\ 3 * MaxInterval < AgeLimit
      BY Limit, TimeAssumption, NoTimeAssumption
    <3>2. older.age \in Nat /\ (older.age = token.age + 1 \/ (older.age = AgeLimit /\ AgeLimit <= token.age))
      BY <1>2, <2>2, <3>1
    <3>3. /\ next \in Nat /\ later \in Nat /\ later = next - 1
      BY <2>2, <3>1
    <3> DEFINE place == token.secret
               age == token.age
               newAge == older.age
    <3>4. /\ AgeFits(place, age, next) /\ age \in Nat /\ newAge \in Nat
          /\ newAge = age + 1 \/ (newAge = AgeLimit /\ AgeLimit <= age)
      BY <2>1, <2>2, <3>2
    <3> HIDE DEF place, age, newAge
    <3>5. AgeFits(place, newAge, later)
      BY <3>1, <3>3, <3>4 DEF AgeFits
    <3> QED  BY <3>5 DEF place, newAge
  <2> QED  BY <1>2, <2>1, <2>3 DEF TokenFits, older
<1> QED  BY <1>3, <1>4

\* Time passes.
LEMMA StoreTick == ASSUME StoreInv, Tick PROVE StoreInv'
<1> DEFINE Token == [secret : Places, age : Nat, ours : BOOLEAN]
<1>1. ClockInv' /\ (Running' <=> Running)
  <2>1. CASE Running
    <3>1. uptime \in Nat /\ Min({uptime + 1, FirstCheckpoint + 1}) \in Nat
      BY <2>1, SmallerOfTwo, TimeAssumption, NoTimeAssumption DEF StoreInv, ClockInv, Running
    <3> QED  BY <2>1, <3>1, TimeAssumption, NoTimeAssumption DEF StoreInv, ClockInv, Running, Tick
  <2>2. CASE ~Running
    BY <2>2, TimeAssumption, NoTimeAssumption DEF StoreInv, ClockInv, Running, Tick
  <2> QED  BY <2>1, <2>2
<1>2. TokenInv'
  <2>1. ASSUME NEW host \in Hosts
        PROVE  /\ tokens'[host] \in Token \cup {NoTime} /\ TokenFits(tokens'[host], next_checkpoint', secrets')
               /\ ~Running' => (tokens'[host] # NoTime => ~tokens'[host].ours)
    <3>1. CASE tokens[host] = NoTime
      BY <3>1 DEF Tick, TokenFits
    <3>2. CASE tokens[host] # NoTime
      <4> DEFINE token == tokens[host]
                 older == [token EXCEPT !.age = Older(@)]
      <4>1. token \in Token /\ TokenFits(token, next_checkpoint, secrets) /\ (~Running => ~token.ours)
        BY <3>2 DEF StoreInv, TokenInv
      <4>2. tokens'[host] = older /\ secrets' = secrets
        BY <3>2 DEF Tick
      <4>3. next_checkpoint' = IF Running THEN next_checkpoint - 1 ELSE next_checkpoint
        BY DEF Tick
      <4>4. next_checkpoint \in 0..MaxInterval /\ next_checkpoint' \in 0..MaxInterval
        BY <1>1 DEF StoreInv, ClockInv
      <4>5. older.ours = token.ours
        BY <4>1
      <4> HIDE DEF token
      <4>6. TokenFits(older, next_checkpoint', secrets)
        BY <3>2, <4>1, <4>3, <4>4, TokenTick DEF token
      <4>7. older # NoTime => older \in Token
        BY <4>6 DEF TokenFits
      <4> QED  BY <1>1, <4>1, <4>2, <4>5, <4>6, <4>7
    <3> QED  BY <3>1, <3>2
  <2>2. tokens' = [host \in Hosts |-> tokens'[host]]
    BY DEF Tick
  <2>3. tokens' \in [Hosts -> Token \cup {NoTime}]
    BY <2>1, <2>2
  <2> QED  BY <2>1, <2>3 DEF TokenInv
<1>3. ValueInv'
  <2>1. ASSUME NEW v \in Values
        PROVE  /\ kv'[v] \in Nat \cup {NoTime}
               /\ kv[v] = NoTime => kv'[v] = NoTime
               /\ kv[v] # NoTime => kv'[v] \in Nat /\ kv'[v] <= kv[v] + 1
    <3>1. kv'[v] = Older(kv[v]) /\ kv[v] \in Nat \cup {NoTime}
      BY DEF StoreInv, ValueInv, Tick
    <3>2. CASE kv[v] = NoTime
      BY <3>1, <3>2 DEF Older
    <3>3. CASE kv[v] # NoTime
      <4>1. kv[v] \in Nat
        BY <3>1, <3>3
      <4>2. kv'[v] = IF kv[v] < AgeLimit THEN kv[v] + 1 ELSE AgeLimit
        BY <3>1, <4>1, OlderAge
      <4> QED  BY <3>3, <4>1, <4>2, Limit
    <3> QED  BY <3>2, <3>3
  <2>2. kv' \in [Values -> Nat \cup {NoTime}]
    <3>1. kv' = [v \in Values |-> kv'[v]]
      BY DEF Tick
    <3> QED  BY <2>1, <3>1
  <2>3. ASSUME Running
        PROVE  uptime' + next_checkpoint' = FirstCheckpoint \/ ValuesFit(kv', next_checkpoint')
    <3>1. /\ uptime \in Nat /\ next_checkpoint \in Nat /\ next_checkpoint > 0
          /\ next_checkpoint' = next_checkpoint - 1
          /\ uptime' = Min({uptime + 1, FirstCheckpoint + 1})
      BY <2>3, TimeAssumption, NoTimeAssumption DEF StoreInv, ClockInv, Running, Tick
    <3>2. CASE uptime + next_checkpoint = FirstCheckpoint
      <4>1. uptime + 1 <= FirstCheckpoint + 1 /\ FirstCheckpoint \in Nat
        BY <3>1, <3>2, TimeAssumption, NoTimeAssumption
      <4>2. uptime' = uptime + 1
        BY <3>1, <4>1, SmallerOfTwo
      <4> QED  BY <3>1, <3>2, <4>2
    <3>3. CASE ValuesFit(kv, next_checkpoint)
      <4> SUFFICES ASSUME NEW v \in Values, kv'[v] # NoTime
                   PROVE  kv'[v] <= KEY_EXPIRE + (MaxInterval - next_checkpoint')
        BY DEF ValuesFit
      <4>1. kv[v] # NoTime /\ kv[v] \in Nat /\ kv'[v] \in Nat /\ kv'[v] <= kv[v] + 1
        BY <2>1 DEF StoreInv, ValueInv
      <4>2. kv[v] <= KEY_EXPIRE + (MaxInterval - next_checkpoint)
        BY <3>3, <4>1 DEF ValuesFit
      <4> QED  BY <3>1, <4>1, <4>2, TimeAssumption, NoTimeAssumption
    <3> QED  BY <2>3, <3>2, <3>3 DEF StoreInv, ValueInv
  <2> QED  BY <1>1, <2>2, <2>3 DEF ValueInv
<1> QED  BY <1>1, <1>2, <1>3 DEF StoreInv

\* A checkpoint for a token: it is one place further from the newest secret.
LEMMA TokenCheckpoint ==
    ASSUME NEW token, NEW count \in 1..3, NEW after \in 1..3, NEW next \in MinInterval..MaxInterval,
           TokenFits(token, 0, count), token # NoTime, after = (IF count < 3 THEN count + 1 ELSE 3)
    PROVE  TokenFits([token EXCEPT !.secret = IF @ < 3 THEN @ + 1 ELSE Gone], next, after)
<1> DEFINE moved == [token EXCEPT !.secret = IF @ < 3 THEN @ + 1 ELSE Gone]
           place == token.secret
           newPlace == moved.secret
           age == token.age
<1>1. /\ token \in [secret : Places, age : Nat, ours : BOOLEAN]
      /\ IF token.ours THEN AgeFits(place, age, 0) /\ (place = Gone \/ place <= count)
         ELSE place = Gone
  BY DEF TokenFits
<1>2. place \in 1..5 /\ age \in Nat
  BY <1>1 DEF Places, Gone
<1>3. newPlace = (IF place < 3 THEN place + 1 ELSE 5) /\ moved.age = age /\ moved.ours = token.ours
  BY <1>1 DEF Gone
<1>4. moved \in [secret : Places, age : Nat, ours : BOOLEAN]
  BY <1>1, <1>2 DEF Gone, Places
<1>5. /\ MinInterval \in Nat /\ MaxInterval \in Nat /\ MinInterval <= MaxInterval
      /\ next \in Nat /\ MinInterval <= next /\ next <= MaxInterval
  BY TimeAssumption, NoTimeAssumption
<1> HIDE DEF place, newPlace, age, moved
<1>6. CASE token.ours
  <2>1. AgeFits(newPlace, age, next)
    BY <1>1, <1>2, <1>3, <1>5, <1>6 DEF AgeFits, Gone
  <2>2. newPlace = Gone \/ newPlace <= after
    BY <1>1, <1>2, <1>3, <1>6 DEF Gone
  <2> QED  BY <1>3, <1>4, <1>6, <2>1, <2>2 DEF TokenFits, newPlace, moved
<1>7. CASE ~token.ours
  BY <1>1, <1>2, <1>3, <1>4, <1>7 DEF TokenFits, newPlace, moved, Gone
<1> QED  BY <1>6, <1>7 DEF moved

\* checkpoint() makes a new secret, and expires the old values.
LEMMA StoreCheckpoint == ASSUME StoreInv, Checkpoint PROVE StoreInv'
<1> DEFINE Token == [secret : Places, age : Nat, ours : BOOLEAN]
<1>1. /\ Running /\ Running' /\ uptime' = uptime /\ uptime \in Nat
      /\ next_checkpoint = 0 /\ next_checkpoint' \in MinInterval..MaxInterval
      /\ secrets \in 1..3 /\ secrets' = Min({secrets + 1, 3})
      /\ kv' = Expired(kv)
      /\ tokens' = [host \in Hosts |->
           IF tokens[host] = NoTime THEN NoTime
           ELSE [tokens[host] EXCEPT !.secret = IF @ < 3 THEN @ + 1 ELSE Gone]]
  BY DEF Checkpoint, CheckpointKeeping, Running, StoreInv, ClockInv
<1>2. secrets' = (IF secrets < 3 THEN secrets + 1 ELSE 3) /\ secrets' \in 1..3
  <2>1. secrets + 1 \in Int /\ 3 \in Int
    BY <1>1
  <2>2. Min({secrets + 1, 3}) = IF secrets + 1 <= 3 THEN secrets + 1 ELSE 3
    BY <2>1, SmallerOfTwo
  <2> QED  BY <1>1, <2>2
<1>3. ClockInv'
  BY <1>1, <1>2, TimeAssumption, NoTimeAssumption DEF ClockInv
<1>4. TokenInv'
  <2>1. ASSUME NEW host \in Hosts
        PROVE  tokens'[host] \in Token \cup {NoTime} /\ TokenFits(tokens'[host], next_checkpoint', secrets')
    <3>1. CASE tokens[host] = NoTime
      BY <1>1, <3>1 DEF TokenFits
    <3>2. CASE tokens[host] # NoTime
      <4> DEFINE token == tokens[host]
                 moved == [token EXCEPT !.secret = IF @ < 3 THEN @ + 1 ELSE Gone]
      <4>1. token # NoTime /\ TokenFits(token, 0, secrets) /\ tokens'[host] = moved
        BY <1>1, <3>2 DEF StoreInv, TokenInv
      <4> HIDE DEF token
      <4>2. TokenFits(moved, next_checkpoint', secrets')
        BY <1>1, <1>2, <4>1, TokenCheckpoint
      <4>3. moved # NoTime => moved \in Token
        BY <4>2 DEF TokenFits
      <4> QED  BY <4>1, <4>2, <4>3
    <3> QED  BY <3>1, <3>2
  <2>2. tokens' = [host \in Hosts |-> tokens'[host]]
    BY <1>1
  <2>3. tokens' \in [Hosts -> Token \cup {NoTime}]
    BY <2>1, <2>2
  <2> QED  BY <1>1, <2>1, <2>3 DEF TokenInv
<1>5. ValueInv'
  <2>1. kv' \in [Values -> Nat \cup {NoTime}]
    BY <1>1 DEF StoreInv, ValueInv, Expired
  <2>2. ASSUME NEW v \in Values, kv'[v] # NoTime
        PROVE  kv'[v] <= KEY_EXPIRE + (MaxInterval - next_checkpoint')
    <3>1. kv'[v] \in Nat /\ kv'[v] <= KEY_EXPIRE
      BY <1>1, <2>2, TimeAssumption, NoTimeAssumption DEF StoreInv, ValueInv, Expired
    <3> QED  BY <1>1, <3>1, TimeAssumption, NoTimeAssumption
  <2> QED  BY <2>1, <2>2 DEF ValueInv, ValuesFit
<1> QED  BY <1>3, <1>4, <1>5 DEF StoreInv

\* The process ends, and its secrets with it.
LEMMA StoreCrash == ASSUME StoreInv, Crash PROVE StoreInv'
<1>1. /\ ~Running' /\ uptime' = NoTime /\ secrets' = 0 /\ UNCHANGED <<next_checkpoint, kv>>
      /\ tokens' = [host \in Hosts |->
           IF tokens[host] = NoTime THEN NoTime
           ELSE [tokens[host] EXCEPT !.secret = Gone, !.ours = FALSE]]
  BY DEF Crash, Running
<1>2. ASSUME NEW host \in Hosts, tokens[host] # NoTime
      PROVE  /\ tokens'[host] \in [secret : Places, age : Nat, ours : BOOLEAN]
             /\ tokens'[host].secret = Gone /\ tokens'[host].ours = FALSE
  <2> DEFINE token == tokens[host]
  <2>1. token \in [secret : Places, age : Nat, ours : BOOLEAN]
    BY <1>2 DEF StoreInv, TokenInv
  <2>2. tokens'[host] = [token EXCEPT !.secret = Gone, !.ours = FALSE]
    BY <1>1, <1>2
  <2>3. Gone \in Places
    BY DEF Places, Gone
  <2> HIDE DEF token
  <2> QED  BY <2>1, <2>2, <2>3
<1>3. TokenInv'
  BY <1>1, <1>2 DEF TokenInv, TokenFits
<1>4. ClockInv' /\ ValueInv'
  BY <1>1 DEF StoreInv, ClockInv, ValueInv
<1> QED  BY <1>3, <1>4 DEF StoreInv

\* A process starts.
LEMMA StoreRestart == ASSUME StoreInv, Restart PROVE StoreInv'
<1>1. /\ ~Running /\ Running' /\ uptime' = 0 /\ secrets' = 1
      /\ next_checkpoint' = FirstCheckpoint /\ UNCHANGED <<kv, tokens>>
  BY TimeAssumption, NoTimeAssumption DEF Restart, RestartWith, Running
<1>2. \A host \in Hosts : TokenFits(tokens[host], next_checkpoint', secrets')
  BY <1>1 DEF StoreInv, TokenInv, TokenFits
<1>3. TokenInv'
  BY <1>1, <1>2 DEF StoreInv, TokenInv
<1>4. ClockInv' /\ ValueInv'
  BY <1>1, TimeAssumption, NoTimeAssumption DEF StoreInv, ClockInv, ValueInv
<1> QED  BY <1>3, <1>4 DEF StoreInv

\* find_node() gives out a token.
LEMMA StoreFindNode ==
    ASSUME StoreInv, NEW host \in Hosts, FindNode(host) PROVE StoreInv'
<1> DEFINE token == [secret |-> 1, age |-> 0, ours |-> TRUE]
<1>1. /\ Running /\ UNCHANGED <<uptime, next_checkpoint, secrets, kv>> /\ Running'
      /\ tokens' = [tokens EXCEPT ![host] = token]
  BY DEF FindNode, Running
<1>2. token \in [secret : Places, age : Nat, ours : BOOLEAN] /\ token.secret = 1 /\ token.age = 0 /\ token.ours
  BY DEF Places, Gone
<1> HIDE DEF token
<1>3. TokenFits(token, next_checkpoint', secrets')
  <2>1. /\ next_checkpoint' = next_checkpoint /\ secrets' = secrets
        /\ next_checkpoint \in 0..MaxInterval /\ MaxInterval \in Nat /\ secrets \in 1..3
    BY <1>1, TimeAssumption, NoTimeAssumption DEF StoreInv, ClockInv
  <2>2. AgeFits(1, 0, next_checkpoint) /\ 1 <= secrets
    BY <2>1 DEF AgeFits
  <2> QED  BY <1>2, <2>1, <2>2 DEF TokenFits
<1>4. TokenInv'
  BY <1>1, <1>2, <1>3 DEF StoreInv, TokenInv
<1>5. ClockInv' /\ ValueInv'
  BY <1>1 DEF StoreInv, ClockInv, ValueInv
<1> QED  BY <1>4, <1>5 DEF StoreInv

\* store_value() stores a value under a token that is accepted.
LEMMA StoreStoreValue ==
    ASSUME StoreInv, NEW host \in Hosts, NEW value \in Values, StoreValue(host, value)
    PROVE  StoreInv'
<1>1. /\ Running /\ UNCHANGED <<uptime, next_checkpoint, secrets, tokens>> /\ Running'
      /\ kv' = [kv EXCEPT ![value] = 0]
  BY DEF StoreValue, Running
<1>2. kv' \in [Values -> Nat \cup {NoTime}]
  BY <1>1 DEF StoreInv, ValueInv
<1>3. ValuesFit(kv, next_checkpoint) => ValuesFit(kv', next_checkpoint')
  <2>1. 0 <= KEY_EXPIRE + (MaxInterval - next_checkpoint)
    BY TimeAssumption, NoTimeAssumption DEF StoreInv, ClockInv
  <2> QED  BY <1>1, <2>1 DEF StoreInv, ValueInv, ValuesFit
<1>4. ValueInv'
  BY <1>1, <1>2, <1>3 DEF StoreInv, ValueInv
<1> QED  BY <1>1, <1>4 DEF StoreInv, ClockInv, TokenInv

\* Every step preserves the invariant.
LEMMA StoreInvNext == ASSUME StoreInv, [StoreNext]_storeVars PROVE StoreInv'
<1>1. CASE Tick
  BY <1>1, StoreTick
<1>2. CASE Checkpoint
  BY <1>2, StoreCheckpoint
<1>3. CASE Crash
  BY <1>3, StoreCrash
<1>4. CASE Restart
  BY <1>4, StoreRestart
<1>5. ASSUME NEW host \in Hosts, FindNode(host) PROVE StoreInv'
  BY <1>5, StoreFindNode
<1>6. ASSUME NEW host \in Hosts, NEW value \in Values, StoreValue(host, value) PROVE StoreInv'
  BY <1>6, StoreStoreValue
<1>7. CASE UNCHANGED <<uptime, next_checkpoint, secrets, kv, tokens>>
  BY <1>7 DEF StoreInv, ClockInv, TokenInv, ValueInv, Running
<1>8. ASSUME NEW num, GetValue(num) PROVE StoreInv'
  BY <1>7, <1>8 DEF GetValue
<1>9. CASE UNCHANGED storeVars
  BY <1>7, <1>9 DEF storeVars
<1> QED  BY <1>1, <1>2, <1>3, <1>4, <1>5, <1>6, <1>8, <1>9 DEF StoreNext

\* StoreInv holds in every reachable state.
THEOREM StoreInvariance == StoreSpec => []StoreInv
<1>1. StoreInit => StoreInv
  BY StoreInvInit
<1>2. StoreInv /\ [StoreNext]_storeVars => StoreInv'
  BY StoreInvNext
<1> QED  BY <1>1, <1>2, PTL DEF StoreSpec

\* A token is accepted for two of the shortest checkpoint intervals at least and for three
\* of the longest ones at most, and never after a restart.
THEOREM StoreTokenLifetime == StoreSpec => []TokenLifetime
<1>1. StoreInv => TokenLifetime
  <2> SUFFICES ASSUME StoreInv, Running, NEW host \in Hosts, tokens[host] # NoTime
               PROVE  LET age == tokens[host].age
                          ours == tokens[host].ours
                      IN  /\ ours /\ age < 2 * MinInterval => Accepts(host)
                          /\ ~ours \/ age > 3 * MaxInterval => ~Accepts(host)
    BY DEF TokenLifetime
  <2> DEFINE place == tokens[host].secret
             age == tokens[host].age
             ours == tokens[host].ours
  <2>1. /\ place \in Places /\ age \in Nat /\ ours \in BOOLEAN
        /\ IF ours THEN AgeFits(place, age, next_checkpoint) /\ (place = Gone \/ place <= secrets)
           ELSE place = Gone
    BY DEF StoreInv, TokenInv, TokenFits
  <2>2. /\ secrets \in 1..3 /\ next_checkpoint \in 0..MaxInterval
        /\ Accepts(host) <=> place \in 1..secrets
    BY DEF StoreInv, ClockInv, Accepts
  <2>3. MinInterval \in Nat /\ MaxInterval \in Nat
    BY TimeAssumption, NoTimeAssumption
  <2> HIDE DEF place, age, ours
  <2>4. /\ ours /\ age < 2 * MinInterval => place \in 1..secrets
        /\ ~ours \/ age > 3 * MaxInterval => ~(place \in 1..secrets)
    <3>1. CASE ours
      <4>1. /\ AgeFits(place, age, next_checkpoint) /\ (place = 5 \/ place <= secrets)
            /\ place \in 1..5 /\ age \in Nat
        BY <2>1, <3>1 DEF Places, Gone
      <4>2. AgeFits(place, age, next_checkpoint) => IF place = 5 THEN 2 * MinInterval <= age ELSE age <= 3 * MaxInterval
        BY <2>2, <2>3, <4>1 DEF AgeFits, Gone
      <4> QED  BY <2>2, <2>3, <3>1, <4>1, <4>2
    <3>2. CASE ~ours
      BY <2>1, <2>2, <3>2 DEF Gone
    <3> QED  BY <3>1, <3>2
  <2> QED  BY <2>2, <2>4 DEF age, ours
<1> QED  BY <1>1, StoreInvariance, PTL

\* From the first checkpoint on, no value is older than KEY_EXPIRE and one interval.
THEOREM StoreNothingOutdated == StoreSpec => []NothingOutdated
<1>1. StoreInv => NothingOutdated
  <2> SUFFICES ASSUME StoreInv, Running, uptime > FirstCheckpoint, NEW v \in Values, kv[v] # NoTime
               PROVE  kv[v] <= KEY_EXPIRE + MaxInterval
    BY DEF NothingOutdated
  <2>1. uptime \in Nat /\ next_checkpoint \in 0..MaxInterval /\ kv[v] \in Nat
    BY DEF StoreInv, ClockInv, ValueInv, Running
  <2>2. ~(uptime + next_checkpoint = FirstCheckpoint)
    BY <2>1, TimeAssumption, NoTimeAssumption
  <2>3. kv[v] <= KEY_EXPIRE + (MaxInterval - next_checkpoint)
    BY <2>2 DEF StoreInv, ValueInv, ValuesFit
  <2> QED  BY <2>1, <2>3, TimeAssumption, NoTimeAssumption
<1> QED  BY <1>1, StoreInvariance, PTL

-----------------------------------------------------------------------------
(***************************************************************************)
(* The shortening of long responses to get_value: how many characters the  *)
(* first k values of a response have, the guess of how many fit, and the   *)
(* loops that correct it.                                                  *)
(***************************************************************************)

\* The characters of each value.
LEMMA ValueCharacters ==
    ASSUME NEW s \in Seq(Values), NEW i \in 1..Len(s)
    PROVE  Size[s[i]] \in Nat \ {0} /\ IsFiniteSet({i} \X (1..Size[s[i]]))
<1>1. s[i] \in Values
  BY ElementOfSeq
<1>2. Size[s[i]] \in Nat \ {0}
  BY <1>1, SizeAssumption
<1>3. IsFiniteSet({i})
  BY FS_Singleton
<1>4. IsFiniteSet(1..Size[s[i]])
  <2>1. 1 \in Int /\ Size[s[i]] \in Int
    BY <1>2
  <2> QED  BY <2>1, FS_Interval
<1> QED  BY <1>2, <1>3, <1>4, FS_Product

LEMMA CharactersFinite ==
    ASSUME NEW s \in Seq(Values), NEW k \in 0..Len(s)
    PROVE  IsFiniteSet(Characters(s, k))
<1> DEFINE part == [i \in 1..k |-> {i} \X (1..Size[s[i]])]
           parts == {{i} \X (1..Size[s[i]]) : i \in 1..k}
<1>1. Len(s) \in Nat /\ k \in Nat /\ 1..k \subseteq 1..Len(s)
  BY LenProperties
<1>2. part \in Surjection(1..k, parts)
  BY DEF Surjection
<1>3. IsFiniteSet(1..k)
  BY <1>1, FS_Interval
<1>4. \A T \in parts : IsFiniteSet(T)
  BY <1>1, ValueCharacters
<1>5. Characters(s, k) = UNION parts
  BY DEF Characters
<1> HIDE DEF part, parts
<1> QED  BY <1>2, <1>3, <1>4, <1>5, FS_Surjection, FS_UNION

\* A list gets longer with each value.
LEMMA ListGrows ==
    ASSUME NEW s \in Seq(Values)
    PROVE  /\ Len(s) \in Nat
           /\ \A k \in 0..Len(s) : ListLength(s, k) \in Nat
           /\ ListLength(s, 0) = 2
           /\ \A j, k \in 0..Len(s) : j < k => ListLength(s, j) < ListLength(s, k)
<1>1. Len(s) \in Nat
  BY LenProperties
<1>2. ASSUME NEW k \in 0..Len(s)
      PROVE  ListLength(s, k) \in Nat /\ Cardinality(Characters(s, k)) \in Nat
  BY CharactersFinite, FS_CardinalityType DEF ListLength
<1>3. ListLength(s, 0) = 2
  <2>1. Characters(s, 0) = {}
    BY DEF Characters
  <2>2. Cardinality(Characters(s, 0)) = 0
    BY <2>1, FS_EmptySet
  <2> QED  BY <2>2 DEF ListLength
<1>4. ASSUME NEW j \in 0..Len(s), NEW k \in 0..Len(s), j < k
      PROVE  ListLength(s, j) < ListLength(s, k)
  <2>1. j \in Nat /\ k \in Nat /\ k \in 1..k /\ k \in 1..Len(s) /\ k \notin 1..j /\ 1..j \subseteq 1..k
    BY <1>1, <1>4
  <2>2. 1 \in 1..Size[s[k]]
    <3>1. Size[s[k]] \in Nat \ {0}
      BY <2>1, ValueCharacters
    <3> QED  BY <3>1
  <2>3. Characters(s, j) \subseteq Characters(s, k)
    BY <2>1 DEF Characters
  <2>4. <<k, 1>> \in Characters(s, k) /\ <<k, 1>> \notin Characters(s, j)
    BY <2>1, <2>2 DEF Characters
  <2>5. Cardinality(Characters(s, j)) < Cardinality(Characters(s, k))
    <3>1. IsFiniteSet(Characters(s, k))
      BY CharactersFinite
    <3>2. /\ Cardinality(Characters(s, j)) <= Cardinality(Characters(s, k))
          /\ Cardinality(Characters(s, j)) # Cardinality(Characters(s, k))
      BY <2>3, <2>4, <3>1, FS_Subset
    <3>3. Cardinality(Characters(s, j)) \in Nat /\ Cardinality(Characters(s, k)) \in Nat
      BY <1>2
    <3> QED  BY <3>2, <3>3
  <2>6. Cardinality(Characters(s, j)) \in Nat /\ Cardinality(Characters(s, k)) \in Nat
    BY <1>2
  <2> QED  BY <2>5, <2>6 DEF ListLength
<1> QED  BY <1>1, <1>2, <1>3, <1>4

\* The first guess is some of the values, but not all.
LEMMA GuessInRange ==
    ASSUME NEW s \in Seq(Values), Length(s, Len(s)) > UDP_PACKET_LIMIT
    PROVE  Len(s) > 0 /\ FirstGuess(s) \in 0..(Len(s) - 1)
<1> DEFINE n == Len(s)
           all == ListLength(s, n) - 2
           excess == Length(s, n) - UDP_PACKET_LIMIT
           q == (excess * n + all - 1) \div all
<1>1. n \in Nat /\ ListLength(s, n) \in Nat /\ ListLength(s, 0) = 2
      /\ (0 < n => ListLength(s, 0) < ListLength(s, n))
      /\ UDP_PACKET_LIMIT \in Nat /\ Overhead \in Nat /\ Overhead + 2 <= UDP_PACKET_LIMIT
  BY ListGrows, SizeAssumption
<1>2. n > 0 /\ all \in Nat /\ all > 0
  BY <1>1 DEF Length
<1>3. excess \in Nat /\ excess > 0 /\ excess <= all
  BY <1>1 DEF Length
<1>4. FirstGuess(s) = n - q
  BY DEF FirstGuess
<1> HIDE DEF all, excess
<1>5. /\ excess * n \in Nat
      /\ 1 <= excess * n
      /\ excess * n <= all * n
  BY <1>1, <1>2, <1>3
<1>6. q \in Int /\ q * all <= excess * n + all - 1 /\ excess * n + all - 1 < q * all + all
  BY <1>2, <1>5
<1> HIDE DEF q, n
<1>7. q >= 1
  BY <1>2, <1>5, <1>6
<1>8. q <= n
  BY <1>1, <1>2, <1>5, <1>6
<1>9. n - q \in 0..(n - 1)
  BY <1>1, <1>6, <1>7, <1>8
<1> QED  BY <1>2, <1>4, <1>9 DEF n

\* The values that fit are those before the first that does not.
LEMMA LongestFits ==
    ASSUME NEW s \in Seq(Values)
    PROVE  /\ Longest(s) \in 0..Len(s)
           /\ \A k \in 0..Len(s) : Length(s, k) <= UDP_PACKET_LIMIT <=> k <= Longest(s)
<1> DEFINE fit == {0} \cup {k \in 1..Len(s) : Length(s, k) <= UDP_PACKET_LIMIT}
<1>1. /\ Len(s) \in Nat /\ \A k \in 0..Len(s) : ListLength(s, k) \in Nat
      /\ ListLength(s, 0) = 2
      /\ \A j, k \in 0..Len(s) : j < k => ListLength(s, j) < ListLength(s, k)
      /\ UDP_PACKET_LIMIT \in Nat /\ Overhead \in Nat /\ Overhead + 2 <= UDP_PACKET_LIMIT
  BY ListGrows, SizeAssumption
<1>2. fit \subseteq 0..Len(s) /\ fit # {} /\ 0 \in fit
  BY <1>1
<1>3. IsFiniteSet(0..Len(s)) /\ 0..Len(s) \subseteq Int
  BY <1>1, FS_Interval
<1>4. Longest(s) = Max(fit)
  BY DEF Longest
<1>5. \A k \in 0..Len(s) : k \in fit <=> Length(s, k) <= UDP_PACKET_LIMIT
  BY <1>1 DEF Length
<1> HIDE DEF fit
<1>6. IsFiniteSet(fit) /\ fit \subseteq Int
  BY <1>2, <1>3, FS_Subset
<1>7. Longest(s) \in fit /\ \A k \in fit : k <= Longest(s)
  BY <1>2, <1>4, <1>6, MaxOfSet
<1>8. Longest(s) \in 0..Len(s) /\ Length(s, Longest(s)) <= UDP_PACKET_LIMIT
  BY <1>2, <1>5, <1>7
<1>9. ASSUME NEW k \in 0..Len(s), k <= Longest(s)
      PROVE  Length(s, k) <= UDP_PACKET_LIMIT
  <2>1. ListLength(s, k) <= ListLength(s, Longest(s))
    BY <1>1, <1>8, <1>9
  <2> QED  BY <1>1, <1>8, <2>1 DEF Length
<1> QED  BY <1>5, <1>7, <1>8, <1>9

\* The loops find the values that fit, wherever they begin.
LEMMA CorrectedIsLongest ==
    ASSUME NEW s \in Seq(Values), Length(s, Len(s)) > UDP_PACKET_LIMIT,
           NEW guess \in 0..(Len(s) - 1)
    PROVE  Corrected(s, guess) = Longest(s)
<1> DEFINE n == Len(s)
           room == UDP_PACKET_LIMIT - Overhead
           g == Longest(s)
           ups == {m \in guess..n : ListLength(s, m) >= room \/ m + 1 >= n}
           up == Min(ups)
           downs == {m \in 0..up : ListLength(s, m) <= room \/ m = 0}
<1>1. /\ n \in Nat /\ \A k \in 0..n : ListLength(s, k) \in Nat
      /\ ListLength(s, 0) = 2
      /\ \A j, k \in 0..n : j < k => ListLength(s, j) < ListLength(s, k)
      /\ UDP_PACKET_LIMIT \in Nat /\ Overhead \in Nat /\ Overhead + 2 <= UDP_PACKET_LIMIT
  BY ListGrows, SizeAssumption
<1>2. g \in 0..n /\ \A k \in 0..n : ListLength(s, k) <= room <=> k <= g
  <2>1. g \in 0..n /\ \A k \in 0..n : Length(s, k) <= UDP_PACKET_LIMIT <=> k <= g
    BY LongestFits
  <2> QED  BY <1>1, <2>1 DEF Length
<1>3. g < n
  <2>1. n \in 0..n /\ ~(Length(s, n) <= UDP_PACKET_LIMIT)
    BY <1>1 DEF Length
  <2> QED  BY <1>1, <1>2, <2>1 DEF Length
<1>4. up \in guess..n /\ g <= up
  <2>1. ups \subseteq guess..n /\ n \in ups
    BY <1>1
  <2>2. IsFiniteSet(guess..n) /\ guess..n \subseteq Int
    BY <1>1, FS_Interval
  <2>3. \A m \in ups : m \in guess..n /\ (ListLength(s, m) >= room \/ m + 1 >= n)
    OBVIOUS
  <2> HIDE DEF ups
  <2>4. IsFiniteSet(ups) /\ ups \subseteq Int
    BY <2>1, <2>2, FS_Subset
  <2>5. up \in ups
    BY <2>1, <2>4, MinOfSet
  <2>6. up \in guess..n /\ (ListLength(s, up) >= room \/ up + 1 >= n)
    BY <2>3, <2>5
  <2> HIDE DEF up
  <2>7. g <= up
    <3>1. SUFFICES ASSUME up < g PROVE FALSE
      BY <1>1, <1>2, <2>6
    <3>2. up \in 0..n /\ ListLength(s, up) < ListLength(s, g) /\ ListLength(s, g) <= room
      BY <1>1, <1>2, <2>6, <3>1
    <3>3. ListLength(s, up) \in Nat /\ ListLength(s, g) \in Nat
      BY <1>1, <1>2, <3>2
    <3> QED  BY <1>1, <1>2, <1>3, <2>6, <3>1, <3>2, <3>3
  <2> QED  BY <2>6, <2>7
<1>5. Corrected(s, guess) = Max(downs)
  BY DEF Corrected
<1> HIDE DEF up
<1>6. g \in downs /\ \A m \in downs : m <= g
  <2>1. 0..up \subseteq 0..n /\ g \in 0..up /\ ListLength(s, g) <= room
    BY <1>1, <1>2, <1>4
  <2>2. \A m \in 0..n : ListLength(s, m) <= room \/ m = 0 => m <= g
    BY <1>1, <1>2
  <2> QED  BY <2>1, <2>2
<1>7. IsFiniteSet(downs) /\ downs \subseteq Int
  <2>1. up \in Int /\ downs \subseteq 0..up
    BY <1>1, <1>4
  <2>2. IsFiniteSet(0..up) /\ 0..up \subseteq Int
    BY <2>1, FS_Interval
  <2> HIDE DEF downs
  <2> QED  BY <2>1, <2>2, FS_Subset
<1>8. g \in Int
  BY <1>1, <1>2
<1> HIDE DEF downs, g
<1>9. Max(downs) \in downs /\ g <= Max(downs)
  BY <1>6, <1>7, MaxOfSet
<1>10. Max(downs) <= g /\ Max(downs) \in Int
  BY <1>6, <1>7, <1>9
<1>11. Max(downs) = g
  BY <1>8, <1>9, <1>10
<1> QED  BY <1>5, <1>11 DEF g

\* A response is as long as the limit allows, or an error.
LEMMA SentIsLongest ==
    ASSUME NEW s \in Seq(Values)
    PROVE  Sent(s) = IF Longest(s) = Len(s) THEN Longest(s)
                     ELSE IF Longest(s) = 0 \/ Length(s, Longest(s)) = UDP_PACKET_LIMIT THEN NoTime
                     ELSE Longest(s)
<1>1. /\ Len(s) \in Nat /\ \A k \in 0..Len(s) : ListLength(s, k) \in Nat
      /\ UDP_PACKET_LIMIT \in Nat /\ Overhead \in Nat
  BY ListGrows, SizeAssumption
<1>2. /\ Longest(s) \in 0..Len(s)
      /\ \A k \in 0..Len(s) : Length(s, k) <= UDP_PACKET_LIMIT <=> k <= Longest(s)
  BY LongestFits
<1>3. CASE Length(s, Len(s)) <= UDP_PACKET_LIMIT
  <2>1. Longest(s) = Len(s)
    BY <1>1, <1>2, <1>3
  <2> QED  BY <1>3, <2>1 DEF Sent
<1>4. CASE Length(s, Len(s)) > UDP_PACKET_LIMIT
  <2>1. Longest(s) # Len(s) /\ ~(Length(s, Len(s)) <= UDP_PACKET_LIMIT)
    <3>1. Length(s, Len(s)) \in Int
      BY <1>1 DEF Length
    <3> QED  BY <1>1, <1>2, <1>4, <3>1
  <2>2. Corrected(s, FirstGuess(s)) = Longest(s)
    BY <1>4, GuessInRange, CorrectedIsLongest
  <2>3. Length(s, Longest(s)) \in Int /\ Length(s, Longest(s)) <= UDP_PACKET_LIMIT
    BY <1>1, <1>2 DEF Length
  <2>4. Longest(s) > 0 <=> Longest(s) # 0
    BY <1>1, <1>2
  <2>5. Length(s, Longest(s)) < UDP_PACKET_LIMIT <=> Length(s, Longest(s)) # UDP_PACKET_LIMIT
    BY <1>1, <2>3
  <2> QED  BY <2>1, <2>2, <2>4, <2>5 DEF Sent
<1>5. Length(s, Len(s)) \in Int
  BY <1>1 DEF Length
<1> QED  BY <1>1, <1>3, <1>4, <1>5

\* The response is what _sendResponse makes of the values.
ReplyInv == reply \in Replies /\ reply.sent = Sent(reply.asked)

LEMMA SentType == ASSUME NEW s \in Seq(Values) PROVE Sent(s) \in Int \cup {NoTime}
<1>1. Longest(s) \in Int
  <2>1. Longest(s) \in 0..Len(s) /\ Len(s) \in Nat
    BY LongestFits, LenProperties
  <2> QED  BY <2>1
<1> QED  BY <1>1, SentIsLongest

\* No values are sent as they are.
LEMMA NothingSent == Sent(<<>>) = 0
<1>1. <<>> \in Seq(Values) /\ Len(<<>>) = 0
  BY EmptySeq
<1>2. Longest(<<>>) \in 0..Len(<<>>)
  BY <1>1, LongestFits
<1>3. Longest(<<>>) = Len(<<>>) /\ Longest(<<>>) = 0
  BY <1>1, <1>2
<1>4. Sent(<<>>) = Longest(<<>>)
  BY <1>1, <1>3, SentIsLongest
<1> QED  BY <1>3, <1>4

LEMMA ReplyNext == ReplyInv /\ [StoreNext]_storeVars => ReplyInv'
<1> SUFFICES ASSUME ReplyInv, [StoreNext]_storeVars PROVE ReplyInv'
  OBVIOUS
<1>1. ASSUME NEW num, GetValue(num) PROVE ReplyInv'
  <2> DEFINE stored == {v \in Values : kv[v] # NoTime}
         count == IF num = 0 THEN Cardinality(stored) ELSE Min({num, Cardinality(stored)})
  <2>1. PICK chosen \in kSubset(count, stored) :
          \E s \in SetToSeqs(chosen) : reply' = [asked |-> s, sent |-> Sent(s)]
    BY <1>1 DEF GetValue
  <2>5. PICK s \in SetToSeqs(chosen) : reply' = [asked |-> s, sent |-> Sent(s)]
    BY <2>1
  <2>2. chosen \subseteq Values /\ IsFiniteSet(chosen)
    BY FS_Subset, SizeAssumption DEF kSubset
  <2>3. Cardinality(chosen) \in Nat /\ s \in [1..Cardinality(chosen) -> chosen]
    BY <2>2, FS_CardinalityType DEF SetToSeqs
  <2>4. s \in Seq(Values)
    <3>1. s \in [1..Cardinality(chosen) -> Values]
      BY <2>2, <2>3
    <3> QED  BY <2>3, <3>1, SeqDef
  <2> QED  BY <2>5, <2>4, SentType DEF ReplyInv, Replies
<1>2. CASE reply' = reply
  BY <1>2 DEF ReplyInv
<1>3. CASE reply' = NoReply
  <2>1. <<>> \in Seq(Values)
    BY EmptySeq
  <2> QED  BY <1>3, <2>1, NothingSent DEF ReplyInv, Replies, NoReply
<1> QED
  BY <1>1, <1>2, <1>3
     DEF StoreNext, Tick, Checkpoint, CheckpointKeeping, Crash, Restart, RestartWith, FindNode,
         StoreValue, storeVars

\* ReplyInv holds in every reachable state.
THEOREM StoreReplies == StoreSpec => []ReplyInv
<1>1. StoreInit => ReplyInv
  <2>1. <<>> \in Seq(Values)
    BY EmptySeq
  <2> QED  BY <2>1, NothingSent DEF ReplyInv, Replies, StoreInit, NoReply
<1> QED  BY <1>1, ReplyNext, PTL DEF StoreSpec

\* However different the lengths of the values are, the loops that correct the first guess
\* find as many as fit into a packet (_sendResponse).
THEOREM StoreReplyIsLongest == StoreSpec => []ReplyIsLongest
<1>1. ReplyInv => ReplyIsLongest
  BY SentIsLongest DEF ReplyInv, Replies, ReplyIsLongest
<1> QED  BY <1>1, StoreReplies, PTL

-----------------------------------------------------------------------------
(* Types. *)

\* Ages are not counted beyond AgeCap.
AgesInv ==
    /\ uptime \in Ages \cup {NoTime}
    /\ \A v \in Values : kv[v] \in Ages \cup {NoTime}
    /\ \A host \in Hosts : tokens[host] # NoTime => tokens[host].age \in Ages

\* Small numbers are ages, and an age gets older within Ages.
LEMMA AgesOlder ==
    /\ 0 \in Ages /\ NoTime \notin Ages
    /\ \A n \in 0..(FirstCheckpoint + 1) : n \in Ages
    /\ \A age \in Ages : Older(age) \in Ages
<1>1. AgeLimit \in Nat /\ 3 * MaxInterval < AgeLimit /\ Ages = 0..AgeLimit
  BY Limit DEF Ages, AgeLimit
<1>2. \A age \in Nat : Older(age) = IF age < AgeLimit THEN age + 1 ELSE AgeLimit
  BY OlderAge
<1>3. NoTime \notin Int /\ FirstCheckpoint \in Nat /\ MaxInterval \in Nat /\ FirstCheckpoint <= MaxInterval
  BY TimeAssumption, NoTimeAssumption
<1>4. \A age \in Ages : Older(age) \in Ages
  BY <1>1, <1>2
<1>5. FirstCheckpoint + 1 <= AgeLimit
  BY <1>1, <1>3
<1> QED  BY <1>1, <1>3, <1>4, <1>5

LEMMA AgesTick == ASSUME StoreInv, AgesInv, Tick PROVE AgesInv'
<1>1. uptime' \in Ages \cup {NoTime}
  <2>1. CASE Running
    <3>1. uptime \in Nat /\ FirstCheckpoint \in Nat
      BY <2>1, TimeAssumption DEF StoreInv, ClockInv, Running
    <3>2. uptime' = Min({uptime + 1, FirstCheckpoint + 1})
      BY <2>1 DEF Tick
    <3>3. uptime' \in 0..(FirstCheckpoint + 1)
      BY <3>1, <3>2, SmallerOfTwo
    <3> QED  BY <3>3, AgesOlder
  <2>2. CASE ~Running
    BY <2>2 DEF Tick
  <2> QED  BY <2>1, <2>2
<1>2. \A v \in Values : kv'[v] \in Ages \cup {NoTime}
  BY AgesOlder DEF Tick, AgesInv, Older
<1>3. ASSUME NEW host \in Hosts, tokens'[host] # NoTime PROVE tokens'[host].age \in Ages
  <2>1. tokens[host] # NoTime /\ tokens'[host] = [tokens[host] EXCEPT !.age = Older(@)]
    BY <1>3 DEF Tick
  <2>2. tokens[host] \in [secret : Places, age : Nat, ours : BOOLEAN]
    BY <2>1 DEF StoreInv, TokenInv
  <2>3. tokens'[host].age = Older(tokens[host].age)
    BY <2>1, <2>2
  <2> QED  BY <2>1, <2>3, AgesOlder DEF AgesInv
<1> QED  BY <1>1, <1>2, <1>3 DEF AgesInv

LEMMA AgesNext == StoreInv /\ AgesInv /\ [StoreNext]_storeVars => AgesInv'
<1> SUFFICES ASSUME StoreInv, AgesInv, [StoreNext]_storeVars PROVE AgesInv'
  OBVIOUS
<1> DEFINE Token == [secret : Places, age : Nat, ours : BOOLEAN]
<1>1. tokens \in [Hosts -> Token \cup {NoTime}] /\ kv \in [Values -> Nat \cup {NoTime}]
  BY DEF StoreInv, TokenInv, ValueInv
<1>2. CASE Tick
  BY <1>2, AgesTick
<1>3. CASE Checkpoint
  <2>1. uptime' = uptime /\ kv' = Expired(kv)
    BY <1>3 DEF Checkpoint, CheckpointKeeping
  <2>2. \A v \in Values : kv'[v] \in {kv[v], NoTime}
    BY <2>1 DEF Expired
  <2>3. ASSUME NEW host \in Hosts, tokens'[host] # NoTime PROVE tokens'[host].age \in Ages
    <3>1. tokens[host] # NoTime
          /\ tokens'[host] = [tokens[host] EXCEPT !.secret = IF @ < 3 THEN @ + 1 ELSE Gone]
      BY <1>3, <2>3 DEF Checkpoint, CheckpointKeeping
    <3>2. tokens[host] \in Token
      BY <1>1, <3>1
    <3>3. tokens'[host].age = tokens[host].age
      BY <3>1, <3>2
    <3> QED  BY <3>1, <3>3 DEF AgesInv
  <2> QED  BY <2>1, <2>2, <2>3 DEF AgesInv
<1>4. CASE Crash
  <2>1. uptime' = NoTime /\ kv' = kv
    BY <1>4 DEF Crash
  <2>2. ASSUME NEW host \in Hosts, tokens'[host] # NoTime PROVE tokens'[host].age \in Ages
    <3>1. tokens[host] # NoTime
          /\ tokens'[host] = [tokens[host] EXCEPT !.secret = Gone, !.ours = FALSE]
      BY <1>4, <2>2 DEF Crash
    <3>2. tokens[host] \in Token
      BY <1>1, <3>1
    <3>3. tokens'[host].age = tokens[host].age
      BY <3>1, <3>2
    <3> QED  BY <3>1, <3>3 DEF AgesInv
  <2> QED  BY <2>1, <2>2 DEF AgesInv
<1>5. CASE Restart
  BY <1>5, AgesOlder DEF Restart, RestartWith, AgesInv
<1>6. ASSUME NEW host \in Hosts, FindNode(host) PROVE AgesInv'
  <2>1. ASSUME NEW h \in Hosts, tokens'[h] # NoTime PROVE tokens'[h].age \in Ages
    <3>1. tokens'[h] = IF h = host THEN [secret |-> 1, age |-> 0, ours |-> TRUE] ELSE tokens[h]
      BY <1>1, <1>6 DEF FindNode
    <3> QED  BY <2>1, <3>1, AgesOlder DEF AgesInv
  <2> QED  BY <1>6, <2>1 DEF FindNode, AgesInv
<1>7. ASSUME NEW host \in Hosts, NEW value \in Values, StoreValue(host, value) PROVE AgesInv'
  <2>1. \A v \in Values : kv'[v] \in {kv[v], 0}
    BY <1>1, <1>7 DEF StoreValue
  <2> QED  BY <1>7, <2>1, AgesOlder DEF StoreValue, AgesInv
<1>8. ASSUME NEW num, GetValue(num) PROVE AgesInv'
  BY <1>8 DEF GetValue, AgesInv
<1>9. CASE UNCHANGED storeVars
  BY <1>9 DEF storeVars, AgesInv
<1> QED  BY <1>2, <1>3, <1>4, <1>5, <1>6, <1>7, <1>8, <1>9 DEF StoreNext

\* Every variable of KhashmirStore keeps its type: a process has three secrets at most,
\* and a response is a number of values or an error.
THEOREM StoreTypeCorrect == StoreSpec => []StoreTypeOK
<1>1. StoreInit => AgesInv
  BY AgesOlder DEF StoreInit, AgesInv
<1>2. StoreInv /\ AgesInv /\ ReplyInv => StoreTypeOK
  <2> SUFFICES ASSUME StoreInv, AgesInv, ReplyInv PROVE StoreTypeOK
    OBVIOUS
  <2>1. uptime \in Ages \cup {NoTime} /\ next_checkpoint \in 0..MaxInterval /\ secrets \in 0..3
    BY DEF StoreInv, ClockInv, AgesInv
  <2>2. kv \in [Values -> Ages \cup {NoTime}]
    BY DEF StoreInv, ValueInv, AgesInv
  <2>3. tokens \in [Hosts -> [secret : Places, age : Ages, ours : BOOLEAN] \cup {NoTime}]
    <3>1. tokens \in [Hosts -> [secret : Places, age : Nat, ours : BOOLEAN] \cup {NoTime}]
      BY DEF StoreInv, TokenInv
    <3>2. \A host \in Hosts :
             tokens[host] \in [secret : Places, age : Ages, ours : BOOLEAN] \cup {NoTime}
      BY <3>1 DEF AgesInv
    <3> QED  BY <3>1, <3>2
  <2> QED  BY <2>1, <2>2, <2>3 DEF ReplyInv, StoreTypeOK
<1> QED  BY <1>1, <1>2, AgesNext, StoreInvariance, StoreReplies, PTL DEF StoreSpec
=============================================================================
