--------------------------- MODULE MCNodeRuntime ---------------------------
(***************************************************************************)
(* The network of bin/Test/Input/adj_matrices/adj_matr4.txt, as in          *)
(* MCTransferAmount: a path of four nodes has a relay next to a relay, each *)
(* of which connects in both directions.                                    *)
(***************************************************************************)
EXTENDS NodeRuntime

Indexed(s) == [i \in Nodes |-> s[i + 1]]

RingDistance == Indexed(<< Indexed(<<0, 2, 3, 4>>),
                           Indexed(<<2, 0, 5, 6>>),
                           Indexed(<<3, 5, 0, 1>>),
                           Indexed(<<4, 6, 1, 0>>) >>)

RingParent == Indexed(<< Indexed(<<NoNode, 0, 0, 2>>),
                         Indexed(<<1, NoNode, 0, 2>>),
                         Indexed(<<2, 0, NoNode, 2>>),
                         Indexed(<<2, 0, 3, NoNode>>) >>)

Credits == Indexed(<<2, 3, 0, 5>>)
=============================================================================
