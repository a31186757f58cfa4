------------------------------- MODULE MCPeer -------------------------------
(* Four requests to one peer: one being answered, some pipelined behind it    *)
(* and some still in the queue.                                               *)
EXTENDS Peer
=============================================================================
