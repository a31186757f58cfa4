------------------------------ MODULE MCKTable ------------------------------
(* KTable for TLC.  The clock only orders the nodes, and `answer` only reports a
   step: the view keeps the order in which the nodes of the table were seen. *)
EXTENDS KTable, Bitwise

\* Distance is the exclusive or.
ASSUME DistanceIsXor == \A a, b \in Ids : Distance(a, b) = a ^^ b

SeenOrder ==
    LET kept == Members(buckets)
    IN  [n \in kept |-> Cardinality({m \in kept : lastSeen[m] < lastSeen[n]})]

View == <<buckets, SeenOrder, fails>>
=============================================================================
