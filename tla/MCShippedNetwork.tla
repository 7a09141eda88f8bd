-------------------------- MODULE MCShippedNetwork --------------------------
(***************************************************************************)
(* AsynchBellmanFord on the network that main reads (main.cpp:94,           *)
(* adj_matr12.txt): twelve nodes with five neighbours each.  All            *)
(* interleavings are out of TLC's reach here; InOrder picks one of them.    *)
(***************************************************************************)
EXTENDS Integers, Sequences

CONSTANTS Source, NoNode

VARIABLES
    request, state, distance, parent, counter_acks, counter_finishing,
    counter_finished, finished, interrupt, chan, closed, joined

Nodes    == 0 .. 11
Infinity == 10000

FromRows(rows) == [e \in Nodes \X Nodes |-> rows[e[1] + 1][e[2] + 1]]

Weight == FromRows(<< <<0, 1, 1, 0, 1, 0, 1, 0, 1, 0, 0, 0>>,
                      <<1, 0, 1, 0, 1, 1, 0, 1, 0, 0, 0, 0>>,
                      <<1, 1, 0, 1, 0, 0, 0, 1, 1, 0, 0, 0>>,
                      <<0, 0, 1, 0, 0, 0, 0, 1, 1, 1, 1, 0>>,
                      <<1, 1, 0, 0, 0, 1, 1, 0, 0, 0, 0, 1>>,
                      <<0, 1, 0, 0, 1, 0, 0, 1, 0, 0, 1, 1>>,
                      <<1, 0, 0, 0, 1, 0, 0, 0, 1, 1, 0, 1>>,
                      <<0, 1, 1, 1, 0, 1, 0, 0, 0, 0, 1, 0>>,
                      <<1, 0, 1, 1, 0, 0, 1, 0, 0, 1, 0, 0>>,
                      <<0, 0, 0, 1, 0, 0, 1, 0, 1, 0, 1, 1>>,
                      <<0, 0, 0, 1, 0, 1, 0, 1, 0, 1, 0, 1>>,
                      <<0, 0, 0, 0, 1, 1, 1, 0, 0, 1, 1, 0>> >>)

Call(t) == INSTANCE AsynchBellmanFord WITH Source <- t

(* Of the connections that hold a message the one with the lowest sender,   *)
(* and then the lowest reader, is read next.                                *)
Pending == {e \in Call(Source)!Edges : chan[e] # <<>>}

Lowest(S) ==
    CHOOSE e \in S : \A f \in S : e[1] < f[1] \/ (e[1] = f[1] /\ e[2] <= f[2])

InOrder == Pending # {} =>
              LET e == Lowest(Pending) IN chan'[e] = Tail(chan[e])

(* Every behaviour of OrderedSpec is one of Call(Source)!Spec, whose        *)
(* fairness this is.                                                        *)
OrderedSpec ==
    /\ Call(Source)!Init
    /\ [][Call(Source)!Next /\ InOrder]_(Call(Source)!vars)
    /\ WF_(Call(Source)!vars)(Call(Source)!CalculateShortestPaths)
    /\ \A i, j \in Nodes : WF_(Call(Source)!vars)(Call(Source)!NodeStep(i, j))
    /\ \A i \in Nodes : WF_(Call(Source)!vars)(Call(Source)!Join(i))

----------------------------------------------------------------------------
(* The source learns that the calculation is over and all threads end, for  *)
(* every order of the messages, and so for this one (Node.cpp:182-183,      *)
(* 260-275): it does not, since an ack that meets no entry it may be        *)
(* credited to is dropped (Node.cpp:238).                                   *)
Termination == Call(Source)!Termination
=============================================================================
