------------------------------- MODULE KTable -------------------------------
(***************************************************************************)
(* The Kademlia routing table of ktable.py: KTable, a list of buckets that *)
(* partition the ID space, and KBucket, at most K nodes in the order they  *)
(* were last seen; with the Node attributes it keeps up to date (lastSeen  *)
(* and fails, node.py) and the reload of the table that a restart does     *)
(* (khashmir.py).  A node is known by its ID number.                       *)
(***************************************************************************)
EXTENDS Integers, FiniteSets, Sequences, SequencesExt

CONSTANTS
    Bits,          \* length of an ID in bits (160 in the code)
    K,             \* capacity of a bucket
    Own,           \* the ID of the local node
    Nodes,         \* the IDs of the remote nodes that may be met
    MAX_FAILURES,  \* failures in a row after which a node is removed
    True, False,   \* what insertNode returns beside a node,
    Full           \* and the None it returns when the table is full

\* Powers of two.
Power[k \in 0..Bits] == IF k = 0 THEN 1 ELSE 2 * Power[k - 1]

Ids == 0 .. Power[Bits] - 1

ASSUME KTableAssumption ==
    /\ Bits \in Nat \ {0} /\ K \in Nat \ {0} /\ MAX_FAILURES \in Nat \ {0}
    /\ Own \in Ids
    /\ Nodes \subseteq Ids \ {Own}
    /\ {True, False, Full} \cap Ids = {} /\ Cardinality({True, False, Full}) = 3

VARIABLES
    buckets,    \* KTable.buckets
    lastSeen,   \* Node.lastSeen of the nodes in the table; 0 is "never"
    fails,      \* Node.fails of the nodes in the table
    now,        \* the clock
    answer      \* what the last insertion did and returned

tableVars == <<buckets, lastSeen, fails, now, answer>>

Bucket == [min : Ids, max : 1 .. Power[Bits], nodes : Seq(Nodes)]

NoAnswer == [node |-> Own, contacted |-> TRUE, returned |-> True]

Members(bs) == UNION {ToSet(bs[i].nodes) : i \in DOMAIN bs}

TableTypeOK ==
    /\ buckets \in Seq(Bucket)
    /\ lastSeen \in [Nodes -> Nat]
    /\ fails \in [Nodes -> 0 .. MAX_FAILURES - 1]
    /\ now \in Nat
    /\ answer.node \in Nodes \cup {Own}
    /\ answer.contacted \in BOOLEAN
    /\ answer.returned \in Nodes \cup {True, False, Full}

EmptyTable == <<[min |-> 0, max |-> Power[Bits], nodes |-> <<>>]>>

TableInit ==
    /\ buckets = EmptyTable
    /\ lastSeen = [n \in Nodes |-> 0]
    /\ fails = [n \in Nodes |-> 0]
    /\ now = 1
    /\ answer = NoAnswer

-----------------------------------------------------------------------------
(* KBucket. *)

\* Mutant of AddNode: new nodes go to the front.
FrontAddNode(nodes, n, seen) == <<n>> \o nodes

\* KBucket.add: behind the last node not seen later than n.
AddNode(nodes, n, seen) ==
    LET earlier == {j \in DOMAIN nodes : seen[nodes[j]] <= seen[n]}
    IN  InsertAt(nodes, Max(earlier \cup {0}) + 1, n)

\* KBucket.remove.
RemoveNode(nodes, n) == RemoveAt(nodes, CHOOSE j \in DOMAIN nodes : nodes[j] = n)

\* KBucket.split: the lower and the upper half of a bucket.
Split(bucket, seen) ==
    LET middle == bucket.max - (bucket.max - bucket.min) \div 2
        halves[j \in 0..Len(bucket.nodes)] ==
            IF j = 0 THEN [lower |-> <<>>, upper |-> <<>>]
            ELSE IF bucket.nodes[j] >= middle
                 THEN [halves[j - 1] EXCEPT !.upper = AddNode(@, bucket.nodes[j], seen)]
                 ELSE [halves[j - 1] EXCEPT !.lower = Append(@, bucket.nodes[j])]
        all == halves[Len(bucket.nodes)]
    IN  <<[min |-> bucket.min, max |-> middle, nodes |-> all.lower],
          [min |-> middle, max |-> bucket.max, nodes |-> all.upper]>>

\* KBucket.merge's transfer of the other bucket's nodes, merging the sorting: each goes
\* before the first node, at i or behind it, that was seen later.
MergedNodes(nodes, old, seen) ==
    LET Later(list, i, n) ==
            Min({x \in i..Len(list) : seen[list[x]] > seen[n]} \cup {Len(list) + 1})
        merged[j \in 0..Len(old)] ==
            IF j = 0 THEN [list |-> nodes, i |-> 1]
            ELSE LET so_far == merged[j - 1]
                     i == Later(so_far.list, so_far.i, old[j])
                 IN  [list |-> InsertAt(so_far.list, i, old[j]), i |-> i + 1]
    IN  merged[Len(old)].list

MergedBucket(bucket, old, seen) ==
    [min |-> Min({bucket.min, old.min}), max |-> Max({bucket.max, old.max}),
     nodes |-> MergedNodes(bucket.nodes, old.nodes, seen)]

-----------------------------------------------------------------------------
(* KTable. *)

\* KTable._bucketIndexForInt: bisect_left with KBucket.__lt__.
BucketIndex(bs, num) == 1 + Cardinality({i \in DOMAIN bs : bs[i].max <= num})

\* The equally large neighbour that _mergeBucket tries to merge bucket i with.
Twin(bs, i) ==
    LET Size(j) == bs[j].max - bs[j].min
    IN  IF i - 1 >= 1 /\ Size(i - 1) = Size(i) THEN {i - 1}
        ELSE IF i + 1 <= Len(bs) /\ Size(i + 1) = Size(i) THEN {i + 1} ELSE {}

\* Whether bucket i and its neighbour j fit into one.
Fits(bs, i, j) == Len(bs[i].nodes) + Len(bs[j].nodes) <= K

\* Bucket i takes the place of bucket j, too.
Merge(bs, i, j, seen) == RemoveAt([bs EXCEPT ![i] = MergedBucket(@, bs[j], seen)], j)

\* Mutant of MergeBucket: it does not go on with the merged bucket.
MergeBucketOnce(bs, i, seen) ==
    IF \E j \in Twin(bs, i) : Fits(bs, i, j)
    THEN Merge(bs, i, CHOOSE j \in Twin(bs, i) : TRUE, seen) ELSE bs

\* KTable._mergeBucket: after bucket i lost a node, merge it with its twin if both
\* fit into one bucket, and go on with the merged bucket.
MergeBucket(bs, i, seen) ==
    LET merged[d \in 0..Len(bs)] ==
            IF d = 0 THEN [table |-> bs, at |-> i]
            ELSE LET table == merged[d - 1].table
                     at == merged[d - 1].at
                     fitting == {j \in Twin(table, at) : Fits(table, at, j)}
                     j == CHOOSE j \in fitting : TRUE
                 IN  IF fitting = {} THEN merged[d - 1]
                     ELSE [table |-> Merge(table, at, j, seen), at |-> Min({at, j})]
    IN  merged[Len(bs)].table

\* KTable.replaceStaleNode without a new node, and KTable.invalidateNode.
WithoutNode(bs, stale, seen) ==
    LET i == BucketIndex(bs, stale)
    IN  IF stale \in ToSet(bs[i].nodes)
        THEN MergeBucket([bs EXCEPT ![i].nodes = RemoveNode(@, stale)], i, seen)
        ELSE bs

\* Whether insertNode splits the bucket that n belongs to: it is full and holds the
\* local node.
NeedsSplit(bs, n) ==
    LET bucket == bs[BucketIndex(bs, n)]
    IN  /\ n # Own
        /\ n \notin ToSet(bucket.nodes)
        /\ Len(bucket.nodes) >= K
        /\ bucket.min <= Own /\ Own < bucket.max
        /\ Len(bs) < Bits

\* The splits that come before an insertion.
SplitFor(bs, n, seen) ==
    LET split[d \in 0..Bits] ==
            IF d = 0 THEN bs
            ELSE LET table == split[d - 1]
                     i == BucketIndex(table, n)
                 IN  IF NeedsSplit(table, n)
                     THEN SubSeq(table, 1, i - 1) \o Split(table[i], seen)
                          \o SubSeq(table, i + 1, Len(table))
                     ELSE table
    IN  split[Bits]

\* KTable.insertNode: the new buckets, whether the node's attributes were renewed,
\* and what it returns.  After a split it calls itself without `contacted`, which
\* then has its default value.
Inserted(bs, n, contacted, seen) ==
    LET table == SplitFor(bs, n, seen)
        i == BucketIndex(table, n)
        nodes == table[i].nodes
        good == contacted \/ NeedsSplit(bs, n)
        Outcome(new, renewed, returned) ==
            [buckets |-> [table EXCEPT ![i].nodes = new], renewed |-> renewed, returned |-> returned]
    IN  IF n = Own THEN Outcome(nodes, FALSE, True)
        ELSE IF n \in ToSet(nodes)
        THEN IF good THEN Outcome(AddNode(RemoveNode(nodes, n), n, seen), TRUE, True)
             ELSE Outcome(nodes, FALSE, True)
        ELSE IF Len(nodes) < K
        THEN IF good THEN Outcome(AddNode(nodes, n, seen), TRUE, True)
             ELSE Outcome(nodes, FALSE, False)
        ELSE IF table[i].min <= Own /\ Own < table[i].max THEN Outcome(nodes, FALSE, Full)
        ELSE Outcome(nodes, FALSE, Head(nodes))

\* The Kademlia distance of two IDs, their exclusive or: its leading k + 1 bits are the
\* leading k bits and one more, which is set if the IDs differ there.
Distance(a, b) ==
    LET leading[k \in 0..Bits] ==
            IF k = 0 THEN 0
            ELSE 2 * leading[k - 1] + ((a \div Power[Bits - k] + b \div Power[Bits - k]) % 2)
    IN  leading[Bits]

\* The nodes of a set, sorted by proximity to num: each has its place behind those that
\* are closer.
ByDistance(S, num) ==
    LET Closer(n) == {m \in S : Distance(num, m) < Distance(num, n)}
    IN  [j \in 1..Cardinality(S) |-> CHOOSE n \in S : Cardinality(Closer(n)) = j - 1]

\* The nodes in the buckets up to d places from bucket i.
Within(bs, i, d) ==
    UNION {ToSet(bs[j].nodes) : j \in {x \in DOMAIN bs : i - d <= x /\ x <= i + d}}

\* Mutant of FindNodes: it looks no further than the two adjoining buckets.
NearFindNodes(bs, num) ==
    LET found == Within(bs, BucketIndex(bs, num), 1)
    IN  SubSeq(ByDistance(found, num), 1, Min({K, Cardinality(found)}))

\* KTable.findNodes: the bucket of the ID, adjoining buckets pair by pair until
\* there are K nodes or no more buckets, sorted by distance and cut to K.
FindNodes(bs, num) ==
    LET i == BucketIndex(bs, num)
        Enough(d) == Cardinality(Within(bs, i, d)) >= K \/ (i - d <= 1 /\ i + d >= Len(bs))
        found == Within(bs, i, Min({d \in 0 .. Len(bs) : Enough(d)}))
    IN  SubSeq(ByDistance(found, num), 1, Min({K, Cardinality(found)}))

-----------------------------------------------------------------------------
(* Operations. *)

\* What a removal leaves of the attributes: a node that comes back is a new object.
Forgotten(f, kept) == [n \in Nodes |-> IF n \in kept THEN f[n] ELSE 0]

\* KTable.insertNode(node, contacted), called by Khashmir.insertNode.
InsertNode(n, contacted) ==
    LET seen == [lastSeen EXCEPT ![n] = now]
        new == Inserted(buckets, n, contacted, seen)
    IN  /\ buckets' = new.buckets
        /\ lastSeen' = IF new.renewed THEN seen ELSE lastSeen
        /\ fails' = IF new.renewed THEN [fails EXCEPT ![n] = 0] ELSE fails
        /\ now' = now + 1
        /\ answer' = [node |-> n, contacted |-> contacted, returned |-> new.returned]

\* KTable.justSeenNode and KBucket.justSeen: move the node to the end.
JustSeenNode(n) ==
    LET i == BucketIndex(buckets, n)
    IN  /\ n \in ToSet(buckets[i].nodes)
        /\ buckets' = [buckets EXCEPT ![i].nodes = Append(RemoveNode(@, n), n)]
        /\ lastSeen' = [lastSeen EXCEPT ![n] = now]
        /\ fails' = [fails EXCEPT ![n] = 0]
        /\ now' = now + 1
        /\ answer' = NoAnswer

\* KTable.invalidateNode, called when a node did not answer a ping or answered
\* under another ID.
InvalidateNode(n) ==
    /\ buckets' = WithoutNode(buckets, n, lastSeen)
    /\ lastSeen' = Forgotten(lastSeen, Members(buckets'))
    /\ fails' = Forgotten(fails, Members(buckets'))
    /\ answer' = NoAnswer
    /\ UNCHANGED now

\* KTable.nodeFailed: count the failure, remove the node when there are too many.
NodeFailed(n) ==
    /\ n \in Members(buckets)
    /\ \/ /\ fails[n] + 1 >= MAX_FAILURES
          /\ InvalidateNode(n)
       \/ /\ fails[n] + 1 < MAX_FAILURES
          /\ fails' = [fails EXCEPT ![n] = @ + 1]
          /\ answer' = NoAnswer
          /\ UNCHANGED <<buckets, lastSeen, now>>

\* KrpcDB.dumpRoutingTable and, after a restart, Khashmir._loadRoutingTable: every
\* saved node is inserted into a new table as one that has not been contacted.
LoadRoutingTable(saved) ==
    LET table[j \in 0..Len(saved)] ==
            IF j = 0 THEN EmptyTable
            ELSE Inserted(table[j - 1], saved[j], FALSE, [m \in Nodes |-> 0]).buckets
    IN  table[Len(saved)]

DumpRoutingTable(bs) ==
    LET dumped[i \in 0..Len(bs)] == IF i = 0 THEN <<>> ELSE dumped[i - 1] \o bs[i].nodes
    IN  dumped[Len(bs)]

Restart ==
    /\ buckets' = LoadRoutingTable(DumpRoutingTable(buckets))
    /\ lastSeen' = [n \in Nodes |-> 0]
    /\ fails' = [n \in Nodes |-> 0]
    /\ answer' = NoAnswer
    /\ UNCHANGED now

TableNext ==
    \/ \E n \in Nodes :
        \/ \E contacted \in BOOLEAN : InsertNode(n, contacted)
        \/ JustSeenNode(n)
        \/ InvalidateNode(n)
        \/ NodeFailed(n)
    \/ Restart

TableSpec == TableInit /\ [][TableNext]_tableVars

-----------------------------------------------------------------------------
(* Properties. *)

\* The buckets' ranges partition the ID space in order, every node is in the one
\* bucket of its range and in no other place, and no bucket holds more than K: the
\* bisection that every operation starts with finds the right bucket.
BucketsPartition ==
    /\ buckets[1].min = 0 /\ buckets[Len(buckets)].max = Power[Bits]
    /\ \A i \in DOMAIN buckets :
         LET b == buckets[i]
         IN  /\ b.min < b.max
             /\ i > 1 => buckets[i - 1].max = b.min
             /\ Len(b.nodes) <= K
             /\ \A j \in DOMAIN b.nodes : b.min <= b.nodes[j] /\ b.nodes[j] < b.max
             /\ IsInjective(b.nodes)

\* KBucket.oldest takes the first node of a bucket: whatever sequence of insertions,
\* splits and merges, it is the least recently seen one.
OldestFirst ==
    \A i \in DOMAIN buckets :
        LET nodes == buckets[i].nodes
        IN  \A a, b \in DOMAIN nodes : a < b => lastSeen[nodes[a]] <= lastSeen[nodes[b]]

\* Only buckets with the local node in their range are ever split, so that the sibling
\* range of a bucket always holds the local node (the comment in _mergeBucket, line
\* 121): two neighbours of equal size are siblings and may be merged.
SiblingHoldsOwn ==
    \A i \in DOMAIN buckets :
        LET b == buckets[i]
            size == b.max - b.min
        IN  /\ b.min % size = 0
            /\ size < Power[Bits] => b.min \div (2 * size) = Own \div (2 * size)

\* No split outlives its reason: the two innermost buckets never fit into one with a
\* node to spare, so that the chain of merges after a removal went far enough.
TableIsMinimal ==
    \A i \in DOMAIN buckets : \A j \in Twin(buckets, i) :
        Len(buckets[i].nodes) + Len(buckets[j].nodes) >= K

\* The table that the bisection, the splits, the merges and the pings of the oldest
\* nodes rely on.
TableIsSound ==
    /\ BucketsPartition
    /\ OldestFirst
    /\ SiblingHoldsOwn
    /\ TableIsMinimal

\* The nodes that are closer to num than every other node of the table.
IsClosest(num, nodes) ==
    \A m \in Members(buckets) \ nodes, n \in nodes : Distance(num, n) < Distance(num, m)

\* For every ID, findNodes finds as many nodes as there are, up to K, nearest first;
\* they are the closest ones when the bucket of the ID has K of them, and the first
\* is the closest known node whenever that bucket is not empty.
FindNodesReliable ==
    \A num \in Ids :
        LET found == FindNodes(buckets, num)
            local == buckets[BucketIndex(buckets, num)].nodes
        IN  /\ Len(found) = Min({K, Cardinality(Members(buckets))})
            /\ ToSet(found) \subseteq Members(buckets)
            /\ \A x, y \in 1..Len(found) :
                 x < y => Distance(num, found[x]) < Distance(num, found[y])
            /\ Len(local) = K => IsClosest(num, ToSet(found))
            /\ local # <<>> => IsClosest(num, {found[1]})

\* What insertNode's caller may conclude from its answer: True is only said of a node
\* that is in the table (or is the local one), False only of an uncontacted node that
\* there is room for, a node only if it is the least recently seen one of a full bucket
\* that the new node belongs to, and "Hash Table is FULL" never.
InsertContract ==
    [][LET bs == buckets'
           n == answer'.node
           bucket == bs[BucketIndex(bs, n)]
           returned == answer'.returned
       IN  CASE returned = True -> n \in Members(bs) \cup {Own}
             [] returned = False -> /\ ~answer'.contacted
                                    /\ n \notin Members(bs)
                                    /\ Len(bucket.nodes) < K
             [] returned = Full -> FALSE
             [] OTHER -> /\ n \notin Members(bs)
                         /\ Len(bucket.nodes) = K
                         /\ returned \in ToSet(bucket.nodes)
                         /\ \A m \in ToSet(bucket.nodes) :
                              lastSeen'[returned] <= lastSeen'[m]]_tableVars
=============================================================================
