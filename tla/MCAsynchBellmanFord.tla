------------------------ MODULE MCAsynchBellmanFord ------------------------
(***************************************************************************)
(* Networks for AsynchBellmanFord.  A cfg takes one of them as its Weight.  *)
(* Nodes are 0 .. n-1, as in the program, and a network is written as the   *)
(* rows of an adjacency matrix file.                                        *)
(***************************************************************************)
EXTENDS AsynchBellmanFord

FromRows(rows) == [e \in Nodes \X Nodes |-> rows[e[1] + 1][e[2] + 1]]

(* Five banks in a ring where one edge is dearer than the way round. *)
Ring5 == FromRows(<< <<0, 9, 0, 0, 1>>,
                     <<9, 0, 1, 0, 0>>,
                     <<0, 1, 0, 1, 0>>,
                     <<0, 0, 1, 0, 1>>,
                     <<1, 0, 0, 1, 0>> >>)

(* What is proved of rings is about Ring5. *)
ASSUME Ring5Assumption == Weight = Ring5 => IsRing

(* The ring 0-1-3-2 with the chord 1-2: two nodes of degree 3. *)
Diamond == FromRows(<< <<0, 1, 4, 0>>,
                       <<1, 0, 1, 6>>,
                       <<4, 1, 0, 1>>,
                       <<0, 6, 1, 0>> >>)

(* Four banks, all connected: every degree is 3. *)
Complete4 == FromRows(<< <<0, 5, 7, 3>>,
                         <<5, 0, 2, 2>>,
                         <<7, 2, 0, 2>>,
                         <<3, 2, 2, 0>> >>)

(* A ring with a leaf, node 3. *)
Leaf == FromRows(<< <<0, 1, 5, 0>>,
                    <<1, 0, 1, 0>>,
                    <<5, 1, 0, 2>>,
                    <<0, 0, 2, 0>> >>)
=============================================================================
