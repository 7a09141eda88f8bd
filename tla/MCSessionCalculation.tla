------------------------ MODULE MCSessionCalculation ------------------------
(***************************************************************************)
(* Matr4: bin/Test/Input/adj_matrices/adj_matr4.txt, a ring in which the    *)
(* edge 1-3 is dearer than the way round.  Triangle: with an Infinity of 3, *)
(* a network whose nodes 0 and 2 are as far apart as INFINITY.  One user    *)
(* has several accounts and sends to others and to herself.                 *)
(***************************************************************************)
EXTENDS SessionCalculation

FromRows(rows) == [e \in Nodes \X Nodes |-> rows[e[1] + 1][e[2] + 1]]

Matr4 == FromRows(<< <<0, 2, 3, 0>>,
                     <<2, 0, 0, 9>>,
                     <<3, 0, 0, 1>>,
                     <<0, 9, 1, 0>> >>)

Triangle == FromRows(<< <<0, 1, 4>>,
                        <<1, 0, 2>>,
                        <<4, 2, 0>> >>)

PasswordFile == [p \in {"malakian5", "winterfell92"} |->
                    IF p = "malakian5" THEN "Lenti" ELSE "Stark"]

Owners == [i \in Nodes |-> IF i = 1 THEN "Stark" ELSE "Lenti"]

Credits == [i \in Nodes |-> i + 2]
=============================================================================
