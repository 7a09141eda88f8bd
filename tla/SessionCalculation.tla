------------------------- MODULE SessionCalculation -------------------------
(***************************************************************************)
(* A session of the program with every message of its calculations: the    *)
(* calculation of BankingSession is AsynchBellmanFord, run on one column of *)
(* the paths.                                                               *)
(***************************************************************************)
EXTENDS BankingSession

VARIABLES
    request, state, distance, parent, counter_acks, counter_finishing,
    counter_finished, finished, interrupt, chan, closed, joined
                    \* a calculation, as in AsynchBellmanFord

(* The matrix is one of AsynchBellmanFord: symmetric, with a zero diagonal. *)
ASSUME CalculationAssumption ==
    /\ \A i, j \in Nodes : Weight[<<i, j>>] = Weight[<<j, i>>]
    /\ \A i \in Nodes : Weight[<<i, i>>] = 0

BellmanFord(t) == INSTANCE AsynchBellmanFord WITH Source <- t

run     == <<request, state, distance, parent, counter_acks,
             counter_finishing, counter_finished, finished, interrupt, chan,
             closed, joined>>
allVars == <<vars, run>>

CalculationInit == Init /\ \E t \in Nodes : BellmanFord(t)!Init

(* What main does outside a calculation. *)
MainNext ==
    /\ \/ ReadFiles
       \/ Question
       \/ KeptPaths \/ Pay \/ Display
       \/ WriteOutput
    /\ UNCHANGED run

(* calculate_shortest_paths starts with fresh copies of the nodes. *)
Start ==
    /\ StartCalculation
    /\ distance' = paths[index_to].distance /\ parent' = paths[index_to].parent
    /\ request' = TRUE
    /\ state' = [i \in Nodes |-> "sleeping"]
    /\ counter_acks' = [i \in Nodes |-> <<>>]
    /\ counter_finishing' = 0
    /\ counter_finished' = [i \in Nodes |-> 0]
    /\ finished' = [i \in Nodes |-> FALSE]
    /\ interrupt' = [i \in Nodes |-> FALSE]
    /\ chan' = [e \in DOMAIN chan |-> <<>>]
    /\ closed' = {}
    /\ joined' = [i \in Nodes |-> FALSE]

Running(t) == pc = "calculate" /\ t = index_to /\ UNCHANGED vars

Calculate == \E t \in Nodes : Running(t) /\ BellmanFord(t)!Next

(* It returns when all nodes have been joined; the column is in place. *)
Started  == ~ request
AllEnded == \A i \in Nodes : joined[i]
Column   == [distance |-> distance, parent |-> parent]

StoredAtPayer == [paths EXCEPT ![index_from] = Column]
Stored        == [paths EXCEPT ![index_to] = Column]

End ==
    /\ Goes("calculate", "pay")
    /\ AllEnded
    /\ paths' = Stored
    /\ UNCHANGED <<questions, credit, records, run>>

CalculationNext == MainNext \/ Start \/ Calculate \/ End

(* Every thread of a calculation goes on by itself, as main does. *)
CalculationFairness ==
    /\ WF_allVars((KeptPaths \/ Pay \/ Display) /\ UNCHANGED run)
    /\ WF_allVars(Start \/ End)
    /\ \A t \in Nodes :
          /\ WF_allVars(Running(t) /\ BellmanFord(t)!CalculateShortestPaths)
          /\ \A i \in Nodes : WF_allVars(Running(t) /\ BellmanFord(t)!Join(i))
          /\ \A i, j \in Nodes :
                WF_allVars(Running(t) /\ BellmanFord(t)!NodeStep(i, j))

CalculationSpec ==
    CalculationInit /\ [][CalculationNext]_allVars /\ CalculationFairness

----------------------------------------------------------------------------
(* To main a calculation looks like one step that fills a column with a     *)
(* shortest path tree and that eventually comes ("The main thread sends a   *)
(* message to the receiving account in order to calculate all the shortest  *)
(* paths (one for each node) leading to that account", main.cpp:264).       *)
ImplementsSession == Spec

(* A transaction whose questions have been answered is carried out.         *)
TransactionCompletes == pc = "transfer" ~> pc = "again"
=============================================================================
