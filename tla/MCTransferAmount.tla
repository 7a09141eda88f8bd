------------------------- MODULE MCTransferAmount -------------------------
(***************************************************************************)
(* The network of bin/Test/Input/adj_matrices/adj_matr4.txt with the        *)
(* shortest paths AsynchBellmanFord finds in it: the ring 0-1-3-2-0 with    *)
(* the edge between 1 and 3 too dear to use, so that a payment between them *)
(* goes through all four nodes.                                             *)
(***************************************************************************)
EXTENDS TransferAmount

Indexed(s) == [i \in Nodes |-> s[i + 1]]

RingDistance == Indexed(<< Indexed(<<0, 2, 3, 4>>),
                           Indexed(<<2, 0, 5, 6>>),
                           Indexed(<<3, 5, 0, 1>>),
                           Indexed(<<4, 6, 1, 0>>) >>)

RingParent == Indexed(<< Indexed(<<NoNode, 0, 0, 2>>),
                         Indexed(<<1, NoNode, 0, 2>>),
                         Indexed(<<2, 0, NoNode, 2>>),
                         Indexed(<<2, 0, 3, NoNode>>) >>)

Credits == Indexed(<<2, 3, 0, 5>>)
=============================================================================
