--------------------- MODULE SessionCalculation_proofs ---------------------
(***************************************************************************)
(* Theorems about a session with every message of its calculations: that    *)
(* main's calculation (BankingSession) is implemented by the nodes'         *)
(* (AsynchBellmanFord), and that the paths kept of it are right.            *)
(*                                                                          *)
(* A calculation is one run of AsynchBellmanFord to the node index_to, the  *)
(* value of a variable, while theorems about AsynchBellmanFord are about    *)
(* one constant Source.  The proofs follow the calculations to Target, an   *)
(* arbitrary node: a theorem here holds for each of the nodes.              *)
(***************************************************************************)
EXTENDS SessionCalculation, BankingSession_proofs

CONSTANT Target     \* any node

(* The calculation to Target, with what is proved about it. *)
Call == INSTANCE AckLedger_proofs WITH Source <- Target

LEMMA CallNeighbours ==
  /\ Call!Edges = {e \in Nodes \X Nodes : Weight[e] # 0}
  /\ \A i \in Nodes : Call!Neighbours(i) = Neighbours(i)
<1>1. \A i, j \in Nodes : <<i, j>> \in Nodes \X Nodes
  OBVIOUS
<1>. QED BY <1>1 DEF Call!Edges, Call!Neighbours, Neighbours

LEMMA SameCardinality == \A S : Call!Cardinality(S) = Cardinality(S)
  BY Zenon DEF Call!Cardinality, Cardinality

LEMMA CallAssumption == ASSUME Target \in Nodes PROVE Call!NetworkAssumption
<1>1. Call!IsFiniteSet(Nodes)
  BY NetworkAssumption DEF Call!IsFiniteSet, IsFiniteSet
<1>. QED BY <1>1, NetworkAssumption, CalculationAssumption

LEMMA CallRing == ASSUME Target \in Nodes, IsRing PROVE Call!IsRing
<1>1. \A i \in Nodes : Call!Degree(i) = 2
  BY CallNeighbours, SameCardinality DEF IsRing, Call!Degree
<1>. QED BY <1>1, CallNeighbours DEF IsRing, Call!IsRing

-----------------------------------------------------------------------------
(* The calculation of a transaction to Target takes the steps of the call.  *)
LEMMA SameStep ==
  ASSUME NEW i \in Nodes, NEW j \in Nodes, BellmanFord(Target)!NodeStep(i, j)
  PROVE  Call!NodeStep(i, j)
<1>1. BellmanFord(Target)!UpdateImproves(i, j) => Call!UpdateImproves(i, j)
  BY DEF
     BellmanFord!UpdateImproves, BellmanFord!Receives, BellmanFord!Edges,
     BellmanFord!Answer, BellmanFord!Neighbours, BellmanFord!endgame,
     BellmanFord!Improves, BellmanFord!DistanceThrough, BellmanFord!ToCorrect,
     BellmanFord!AcksAwaited, BellmanFord!Degree, BellmanFord!Update,
     BellmanFord!Cardinality, Call!UpdateImproves, Call!Receives, Call!Edges,
     Call!Answer, Call!Neighbours, Call!endgame, Call!Improves,
     Call!DistanceThrough, Call!ToCorrect, Call!AcksAwaited, Call!Degree,
     Call!Update, Call!Cardinality
<1>2. BellmanFord(Target)!UpdateRefused(i, j) => Call!UpdateRefused(i, j)
  BY DEF
     BellmanFord!UpdateRefused, BellmanFord!Receives, BellmanFord!Edges,
     BellmanFord!Answer, BellmanFord!Neighbours, BellmanFord!endgame,
     BellmanFord!Improves, BellmanFord!DistanceThrough, BellmanFord!AckSender,
     BellmanFord!Ack, BellmanFord!estimates, Call!UpdateRefused, Call!Receives,
     Call!Edges, Call!Answer, Call!Neighbours, Call!endgame, Call!Improves,
     Call!DistanceThrough, Call!AckSender, Call!Ack, Call!estimates
<1>3. BellmanFord(Target)!AckCounted(i, j) => Call!AckCounted(i, j)
  BY DEF
     BellmanFord!AckCounted, BellmanFord!Receives, BellmanFord!Edges,
     BellmanFord!Answer, BellmanFord!Neighbours, BellmanFord!endgame,
     BellmanFord!Credited, BellmanFord!Creditable, BellmanFord!Ack,
     BellmanFord!estimates, Call!AckCounted, Call!Receives, Call!Edges,
     Call!Answer, Call!Neighbours, Call!endgame, Call!Credited,
     Call!Creditable, Call!Ack, Call!estimates
<1>4. BellmanFord(Target)!AckCompletes(i, j) => Call!AckCompletes(i, j)
  BY DEF
     BellmanFord!AckCompletes, BellmanFord!Receives, BellmanFord!Edges,
     BellmanFord!Answer, BellmanFord!Neighbours, BellmanFord!endgame,
     BellmanFord!Credited, BellmanFord!Creditable, BellmanFord!Ack,
     BellmanFord!estimates, BellmanFord!Erased, Call!AckCompletes,
     Call!Receives, Call!Edges, Call!Answer, Call!Neighbours, Call!endgame,
     Call!Credited, Call!Creditable, Call!Ack, Call!estimates, Call!Erased
<1>5. BellmanFord(Target)!AckLost(i, j) => Call!AckLost(i, j)
  BY DEF
     BellmanFord!AckLost, BellmanFord!Receives, BellmanFord!Edges,
     BellmanFord!Answer, BellmanFord!Neighbours, BellmanFord!endgame,
     BellmanFord!Creditable, BellmanFord!Ack, BellmanFord!estimates,
     Call!AckLost, Call!Receives, Call!Edges, Call!Answer, Call!Neighbours,
     Call!endgame, Call!Creditable, Call!Ack, Call!estimates
<1>6. BellmanFord(Target)!SourceAck(j) => Call!SourceAck(j)
  BY DEF
     BellmanFord!SourceAck, BellmanFord!Receives, BellmanFord!Edges,
     BellmanFord!Answer, BellmanFord!Neighbours, BellmanFord!endgame,
     BellmanFord!AllAcked, BellmanFord!Degree, BellmanFord!Writers,
     BellmanFord!Finished, BellmanFord!estimates, BellmanFord!Cardinality,
     Call!SourceAck, Call!Receives, Call!Edges, Call!Answer, Call!Neighbours,
     Call!endgame, Call!AllAcked, Call!Degree, Call!Writers, Call!Finished,
     Call!estimates, Call!Cardinality
<1>7. BellmanFord(Target)!AnswerToFinished(i, j) => Call!AnswerToFinished(i, j)
  BY DEF
     BellmanFord!AnswerToFinished, BellmanFord!Receives, BellmanFord!Edges,
     BellmanFord!Answer, BellmanFord!Neighbours, BellmanFord!endgame,
     BellmanFord!RelayTo, BellmanFord!Writers, BellmanFord!Finished,
     BellmanFord!estimates, BellmanFord!Cardinality, Call!AnswerToFinished,
     Call!Receives, Call!Edges, Call!Answer, Call!Neighbours, Call!endgame,
     Call!RelayTo, Call!Writers, Call!Finished, Call!estimates,
     Call!Cardinality
<1>8. BellmanFord(Target)!Drain(i, j) => Call!Drain(i, j)
  BY DEF
     BellmanFord!Drain, BellmanFord!Receives, BellmanFord!Edges,
     BellmanFord!Answer, BellmanFord!Neighbours, BellmanFord!endgame,
     BellmanFord!Ack, BellmanFord!Finished, BellmanFord!estimates, Call!Drain,
     Call!Receives, Call!Edges, Call!Answer, Call!Neighbours, Call!endgame,
     Call!Ack, Call!Finished, Call!estimates
<1>. QED BY <1>1, <1>2, <1>3, <1>4, <1>5, <1>6, <1>7, <1>8
         DEF BellmanFord!NodeStep, Call!NodeStep

LEMMA SameNext ==
  ASSUME BellmanFord(Target)!Next
  PROVE  Call!Next
<1>1. BellmanFord(Target)!CalculateShortestPaths => Call!CalculateShortestPaths
  BY DEF
     BellmanFord!CalculateShortestPaths, BellmanFord!Edges, BellmanFord!Update,
     BellmanFord!endgame, Call!CalculateShortestPaths, Call!Edges, Call!Update,
     Call!endgame
<1>2. \A i, j \in Nodes :
         BellmanFord(Target)!NodeStep(i, j) => Call!NodeStep(i, j)
  BY SameStep
<1>3. \A i \in Nodes : BellmanFord(Target)!Join(i) => Call!Join(i)
  BY DEF
     BellmanFord!Join, BellmanFord!HandlerDone, BellmanFord!Neighbours,
     BellmanFord!Edges, BellmanFord!estimates, Call!Join, Call!HandlerDone,
     Call!Neighbours, Call!Edges, Call!estimates
<1>4. BellmanFord(Target)!Terminated => Call!Terminated
  BY DEF
     BellmanFord!Terminated, BellmanFord!AllJoined, BellmanFord!vars,
     BellmanFord!estimates, BellmanFord!endgame, Call!Terminated,
     Call!AllJoined, Call!vars, Call!estimates, Call!endgame
<1>. QED BY <1>1, <1>2, <1>3, <1>4 DEF BellmanFord!Next, Call!Next

-----------------------------------------------------------------------------
(* The rounds of the call are those of Shortest.                            *)
LEMMA SameRound ==
  /\ Call!FirstRound = First(Target)
  /\ \A d : Call!NextRound(d) = Round(d)
<1>1. ASSUME NEW d, NEW i \in Nodes PROVE Call!Offered(d, i) = Offered(d, i)
  BY CallNeighbours, Zenon DEF Offered, Call!Offered
<1>2. \A S : Call!Min(S) = Min(S)
  BY Zenon DEF Min, Call!Min
<1>3. ASSUME NEW d PROVE Call!NextRound(d) = Round(d)
  BY <1>1, <1>2 DEF Round, Call!NextRound
<1>. QED BY <1>3 DEF First, Call!FirstRound

LEMMA CallShortest ==
  ASSUME Target \in Nodes
  PROVE  Call!ShortestDistance = Shortest[Target]
<1>. DEFINE N == Cardinality(Nodes)
            R == Rounds(Target, N)
            Q == Call!Rounds(N)
            G == {n \in Nat : n <= N => Q[n] = R[n]}
<1>1. N \in Nat
  BY NetworkAssumption, FS_CardinalityType
<1>2. Shortest[Target] = R[N]
  BY Zenon DEF Shortest, Rounds, AreRounds, First, Round, Offered
<1>3. Call!ShortestDistance = Q[N]
  BY CallAssumption, SameCardinality, Call!ShortestIsLastRound
<1>. HIDE DEF N
<1>4. \A k \in 0 .. N : R[k] = IF k = 0 THEN First(Target) ELSE Round(R[k - 1])
  <2>1. AreRounds(R, Target, N)
    BY <1>1, RoundsExist
  <2>. HIDE DEF R
  <2>2. R = [k \in 0 .. N |-> IF k = 0 THEN First(Target) ELSE Round(R[k - 1])]
    BY <2>1 DEF AreRounds
  <2>. QED BY <2>2
<1>5. /\ Q[0] = Call!FirstRound
      /\ \A k \in 0 .. N - 1 : Q[k + 1] = Call!NextRound(Q[k])
  BY <1>1, CallAssumption, Call!RoundsFacts
<1>. HIDE DEF R, Q
<1>6. 0 \in G
  BY <1>1, <1>4, <1>5, SameRound
<1>7. ASSUME NEW n \in Nat, n \in G PROVE n + 1 \in G
  <2>1. SUFFICES ASSUME n + 1 <= N PROVE Q[n + 1] = R[n + 1]
    OBVIOUS
  <2>2. Q[n] = R[n] /\ n \in 0 .. N - 1 /\ n + 1 \in 0 .. N /\ n + 1 # 0
        /\ (n + 1) - 1 = n
    BY <1>1, <1>7, <2>1
  <2>3. R[n + 1] = Round(R[n])
    BY <1>4, <2>2
  <2>4. Q[n + 1] = Call!NextRound(Q[n])
    BY <1>5, <2>2
  <2>. QED BY <2>2, <2>3, <2>4, SameRound
<1>8. N \in G
  <2>. HIDE DEF G
  <2>. QED BY <1>1, <1>6, <1>7, NaturalInduction
<1>. QED BY <1>1, <1>2, <1>3, <1>8

-----------------------------------------------------------------------------
(* The connections of every calculation are those of the network.           *)
LEMMA CallEdges == \A t : BellmanFord(t)!Edges = Call!Edges
  BY Zenon DEF BellmanFord!Edges, Call!Edges

LEMMA InitConnections ==
  ASSUME NEW t, BellmanFord(t)!Init
  PROVE  DOMAIN chan = Call!Edges
  BY CallEdges DEF BellmanFord!Init

LEMMA Connections ==
  ASSUME NEW t, BellmanFord(t)!Next, DOMAIN chan = Call!Edges
  PROVE  DOMAIN chan' = Call!Edges
<1>1. ASSUME NEW i, NEW j, NEW S, NEW m, BellmanFord(t)!Answer(i, j, S, m)
      PROVE  DOMAIN chan' = Call!Edges
  BY <1>1, CallEdges DEF BellmanFord!Answer
<1>2. CASE BellmanFord(t)!CalculateShortestPaths
  BY <1>2, CallEdges DEF BellmanFord!CalculateShortestPaths
<1>3. ASSUME NEW i \in Nodes, NEW j \in Nodes, BellmanFord(t)!NodeStep(i, j)
      PROVE  DOMAIN chan' = Call!Edges
  BY <1>1, <1>3 DEF BellmanFord!NodeStep, BellmanFord!UpdateImproves,
     BellmanFord!UpdateRefused, BellmanFord!AckCounted,
     BellmanFord!AckCompletes, BellmanFord!AckLost, BellmanFord!SourceAck,
     BellmanFord!AnswerToFinished, BellmanFord!Drain
<1>4. ASSUME NEW i \in Nodes, BellmanFord(t)!Join(i)
      PROVE  DOMAIN chan' = Call!Edges
  BY <1>4 DEF BellmanFord!Join
<1>5. CASE BellmanFord(t)!Terminated
  BY <1>5 DEF BellmanFord!Terminated, BellmanFord!vars
<1>. QED BY <1>2, <1>3, <1>4, <1>5 DEF BellmanFord!Next

-----------------------------------------------------------------------------
(* What a session keeps for the calculations to Target: the column is as    *)
(* constructed until a calculation has put 0 at Target, and while one runs  *)
(* the invariant of the call holds.                                         *)
ColumnInv ==
    /\ paths = [t \in Nodes |-> paths[t]]
    /\ paths[Target] = Untouched \/ paths[Target].distance[Target] = 0
    /\ DOMAIN chan = Call!Edges

(* Paths are calculated to a node only. *)
ReceiverInv == pc \in {"transfer", "calculate"} => index_to \in Nodes

Calculating == pc = "calculate" /\ index_to = Target

TargetInv == ColumnInv /\ ReceiverInv /\ (Calculating => Call!CallInv)

LEMMA InitTargetInv ==
  ASSUME Target \in Nodes, CalculationInit
  PROVE  TargetInv
<1>1. PICK t \in Nodes : BellmanFord(t)!Init
  BY DEF CalculationInit
<1>2. DOMAIN chan = Call!Edges
  BY <1>1, InitConnections
<1>. QED BY <1>2 DEF CalculationInit, Init, TargetInv, ColumnInv, ReceiverInv,
            Calculating

(* A calculation starts as the call does, since the column is untouched.    *)
LEMMA StartIsInit ==
  ASSUME Target \in Nodes, ColumnInv, Start, index_to = Target
  PROVE  Call!Init'
<1>1. paths[Target] = Untouched
  BY DEF Start, StartCalculation, AlreadyComputed, ColumnInv
<1>2. /\ distance' = [i \in Nodes |-> Infinity]
      /\ parent' = [i \in Nodes |-> NoNode]
  BY <1>1 DEF Start, Untouched
<1>3. chan' = [e \in Call!Edges |-> <<>>]
  BY DEF Start, ColumnInv
<1>. QED BY <1>2, <1>3 DEF Start, Call!Init, Call!Edges

LEMMA MainKeepsRun ==
  ASSUME MainNext
  PROVE  UNCHANGED run /\ UNCHANGED paths /\ pc' # "calculate"
  BY DEF MainNext, ReadFiles, Opens, Goes, Question, Login, ChooseFrom,
     ChooseAmount, ChooseTo, AgainYes, AgainNo, KeptPaths, Pay, Display,
     WriteOutput

(* The column that a calculation to Target returns.                         *)
LEMMA ColumnCalculated ==
  ASSUME Target \in Nodes, Call!CallInv, AllEnded
  PROVE  Column \in Calculated(Target)
<1>1. Call!AllJoined
  BY DEF AllEnded, Call!AllJoined
<1>2. /\ distance \in [Nodes -> 0 .. Infinity]
      /\ parent \in [Nodes -> Nodes \cup {NoNode}]
      /\ distance[Target] = 0 /\ parent[Target] = NoNode
      /\ Call!IsRing =>
            /\ distance = Call!ShortestDistance
            /\ \A i \in Nodes \ {Target} :
                  IF distance[i] = Infinity THEN parent[i] = NoNode
                  ELSE /\ parent[i] \in Call!Neighbours(i)
                       /\ distance[i] = distance[parent[i]]
                                        + Weight[<<parent[i], i>>]
  BY <1>1, CallAssumption, Call!ReturnedColumn
<1>3. ASSUME IsRing
      PROVE  distance = Shortest[Target] /\ IsTreeTo(Target, Column)
  <2>1. Call!IsRing
    BY <1>3, CallRing
  <2>2. distance = Shortest[Target]
    BY <1>2, <2>1, CallShortest
  <2>3. ASSUME NEW i \in Nodes \ {Target}
        PROVE  IF distance[i] = Infinity THEN parent[i] = NoNode
               ELSE /\ parent[i] \in Neighbours(i)
                    /\ distance[i] = distance[parent[i]]
                                     + Weight[<<i, parent[i]>>]
    <3>1. CASE distance[i] = Infinity
      BY <1>2, <2>1, <3>1
    <3>2. CASE distance[i] # Infinity
      <4>1. /\ parent[i] \in Neighbours(i)
            /\ distance[i] = distance[parent[i]] + Weight[<<parent[i], i>>]
        BY <1>2, <2>1, <3>2, CallNeighbours
      <4>2. Weight[<<parent[i], i>>] = Weight[<<i, parent[i]>>]
        BY <4>1, CalculationAssumption DEF Neighbours
      <4>. QED BY <3>2, <4>1, <4>2
    <3>. QED BY <3>1, <3>2
  <2>. QED BY <1>2, <2>2, <2>3 DEF IsTreeTo, Column
<1>4. distance \in Distances(Target)
  BY <1>2, <1>3 DEF Distances
<1>. QED BY <1>2, <1>3, <1>4 DEF Calculated, Column

LEMMA NextReceiverInv ==
  ASSUME ReceiverInv, [CalculationNext]_allVars
  PROVE  ReceiverInv'
<1>1. CASE MainNext
  BY <1>1 DEF MainNext, ReadFiles, Opens, Goes, Question, Login, ChooseFrom,
     ChooseAmount, ChooseTo, AgainYes, AgainNo, KeptPaths, Pay, Display,
     WriteOutput, ReceiverInv
<1>2. CASE Start
  BY <1>2 DEF Start, StartCalculation, Goes, questions, ReceiverInv
<1>3. CASE Calculate
  BY <1>3 DEF Calculate, Running, vars, questions, ReceiverInv
<1>4. CASE End
  BY <1>4 DEF End, Goes, ReceiverInv
<1>5. CASE UNCHANGED allVars
  BY <1>5 DEF allVars, vars, questions, ReceiverInv
<1>. QED BY <1>1, <1>2, <1>3, <1>4, <1>5 DEF CalculationNext

LEMMA NextTargetInv ==
  ASSUME Target \in Nodes
  PROVE  TargetInv /\ [CalculationNext]_allVars => TargetInv'
<1>1. Call!Init => Call!CallInv
  BY CallAssumption, Call!InitCallInv
<1>2. Call!Init' => Call!CallInv'
  BY <1>1, PTL
<1>3. Call!CallInv /\ [Call!Next]_(Call!vars) => Call!CallInv'
  BY CallAssumption, Call!NextCallInv
<1>4. UNCHANGED run => UNCHANGED Call!vars
  BY DEF run, Call!vars, Call!estimates, Call!endgame
<1>5. SUFFICES ASSUME TargetInv, [CalculationNext]_allVars
               PROVE  ColumnInv' /\ (Calculating' => Call!CallInv')
  BY NextReceiverInv DEF TargetInv
<1>6. ColumnInv /\ (Calculating => Call!CallInv)
  BY <1>5 DEF TargetInv
<1>7. ASSUME UNCHANGED run PROVE Call!CallInv => Call!CallInv'
  BY <1>3, <1>4, <1>7
<1>8. ASSUME UNCHANGED run, UNCHANGED paths PROVE ColumnInv'
  BY <1>6, <1>8 DEF run, ColumnInv
<1>9. CASE MainNext
  <2>1. UNCHANGED run /\ UNCHANGED paths /\ pc' # "calculate"
    BY <1>9, MainKeepsRun
  <2>. QED BY <1>8, <2>1 DEF Calculating
<1>10. CASE Start
  <2>1. UNCHANGED paths /\ UNCHANGED index_to /\ DOMAIN chan' = DOMAIN chan
    BY <1>10 DEF Start, StartCalculation, questions
  <2>2. ColumnInv'
    BY <1>6, <2>1 DEF ColumnInv
  <2>3. Calculating' => Call!Init'
    BY <1>6, <1>10, <2>1, StartIsInit DEF Calculating
  <2>. QED BY <1>2, <2>2, <2>3
<1>11. CASE Calculate
  <2>1. PICK t \in Nodes : Running(t) /\ BellmanFord(t)!Next
    BY <1>11 DEF Calculate
  <2>2. UNCHANGED vars /\ pc = "calculate" /\ t = index_to
    BY <2>1 DEF Running
  <2>3. UNCHANGED <<pc, index_to, paths>>
    BY <2>2 DEF vars, questions
  <2>4. DOMAIN chan' = Call!Edges
    BY <1>6, <2>1, Connections DEF ColumnInv
  <2>5. ColumnInv'
    BY <1>6, <2>3, <2>4 DEF ColumnInv
  <2>6. ASSUME Calculating' PROVE Call!CallInv'
    <3>1. Calculating /\ t = Target
      BY <2>2, <2>3, <2>6 DEF Calculating
    <3>2. BellmanFord(Target)!Next
      BY <2>1, <3>1
    <3>3. Call!Next
      BY <3>2, SameNext
    <3>. QED BY <1>3, <1>6, <3>1, <3>3
  <2>. QED BY <2>5, <2>6
<1>12. CASE End
  <2>1. UNCHANGED run /\ pc = "calculate" /\ pc' = "pay" /\ AllEnded
        /\ paths' = [paths EXCEPT ![index_to] = Column]
    BY <1>12 DEF End, Goes, Stored
  <2>2. DOMAIN chan' = Call!Edges
    BY <1>6, <2>1 DEF run, ColumnInv
  <2>3. paths' = [t \in Nodes |-> paths'[t]]
    BY <1>6, <2>1 DEF ColumnInv
  <2>4. paths'[Target] = Untouched \/ paths'[Target].distance[Target] = 0
    <3>1. CASE index_to = Target
      <4>1. Column \in Calculated(Target)
        BY <1>6, <2>1, <3>1, ColumnCalculated DEF Calculating
      <4>2. paths'[Target] = Column
        BY <1>6, <2>1, <3>1 DEF ColumnInv
      <4>. QED BY <4>1, <4>2 DEF Calculated
    <3>2. CASE index_to # Target
      BY <1>6, <2>1, <3>2 DEF ColumnInv
    <3>. QED BY <3>1, <3>2
  <2>. QED BY <2>1, <2>2, <2>3, <2>4 DEF ColumnInv, Calculating
<1>13. CASE UNCHANGED allVars
  <2>1. UNCHANGED run /\ UNCHANGED <<pc, index_to, paths>>
    BY <1>13 DEF allVars, vars, questions
  <2>. QED BY <1>6, <1>7, <1>8, <2>1 DEF Calculating
<1>. QED BY <1>5, <1>9, <1>10, <1>11, <1>12, <1>13 DEF CalculationNext

LEMMA TargetHolds ==
  ASSUME Target \in Nodes
  PROVE  CalculationSpec => []TargetInv
<1>1. CalculationInit => TargetInv
  BY InitTargetInv
<1>. QED BY <1>1, NextTargetInv, PTL DEF CalculationSpec

LEMMA StepImplemented ==
  ASSUME Target \in Nodes, TargetInv, [CalculationNext]_allVars
  PROVE  [Next \/ (End /\ index_to \in Nodes \ {Target})]_vars
<1>1. CASE MainNext
  BY <1>1 DEF MainNext, Next, Transaction
<1>2. CASE Start
  BY <1>2 DEF Start, Next, Transaction
<1>3. CASE Calculate
  BY <1>3 DEF Calculate, Running
<1>4. CASE End
  <2>1. CASE index_to = Target
    <3>1. Column \in Calculated(Target)
      BY <1>4, <2>1, ColumnCalculated DEF TargetInv, Calculating, End, Goes
    <3>2. EndCalculation
      BY <1>4, <2>1, <3>1 DEF End, EndCalculation, Stored
    <3>. QED BY <3>2 DEF Next, Transaction
  <2>2. index_to \in Nodes
    BY <1>4 DEF TargetInv, ReceiverInv, End, Goes
  <2>. QED BY <1>4, <2>1, <2>2
<1>5. CASE UNCHANGED allVars
  BY <1>5 DEF allVars
<1>. QED BY <1>1, <1>2, <1>3, <1>4, <1>5 DEF CalculationNext

(* A session with every message of its calculations takes the steps of      *)
(* BankingSession: what main does in between is the same, the steps inside a *)
(* calculation do not show, and a calculation returns (main.cpp:262) a      *)
(* column that BankingSession allows - whenever the receiving node is       *)
(* Target, which stands for any node.                                       *)
THEOREM CalculationImplemented ==
  ASSUME Target \in Nodes
  PROVE  CalculationSpec =>
            Init /\ [][Next \/ (End /\ index_to \in Nodes \ {Target})]_vars
<1>1. CalculationInit => Init
  BY DEF CalculationInit
<1>2. TargetInv /\ [CalculationNext]_allVars
         => [Next \/ (End /\ index_to \in Nodes \ {Target})]_vars
  BY StepImplemented
<1>. QED BY <1>1, <1>2, TargetHolds, PTL DEF CalculationSpec

-----------------------------------------------------------------------------
(* The column of Target, as KeptPathsAreRight has it for every column.      *)
KeptColumnIsRight ==
    IF AlreadyComputed(Target) THEN IsTreeTo(Target, paths[Target])
    ELSE paths[Target] = Untouched

LEMMA NextKeptColumn ==
  ASSUME Target \in Nodes, IsRing, TargetInv, KeptColumnIsRight,
         [CalculationNext]_allVars
  PROVE  KeptColumnIsRight'
<1>1. ASSUME paths'[Target] = paths[Target] PROVE KeptColumnIsRight'
  BY <1>1 DEF KeptColumnIsRight, AlreadyComputed, IsTreeTo
<1>2. CASE MainNext
  BY <1>1, <1>2, MainKeepsRun
<1>3. CASE Start
  BY <1>1, <1>3 DEF Start, StartCalculation
<1>4. CASE Calculate
  BY <1>1, <1>4 DEF Calculate, Running, vars
<1>5. CASE End
  <2>1. /\ paths = [t \in Nodes |-> paths[t]]
        /\ paths' = [paths EXCEPT ![index_to] = Column]
        /\ pc = "calculate" /\ AllEnded
    BY <1>5 DEF End, Goes, Stored, TargetInv, ColumnInv
  <2>2. CASE index_to # Target
    BY <1>1, <2>1, <2>2
  <2>3. CASE index_to = Target
    <3>1. Column \in Calculated(Target)
      BY <2>1, <2>3, ColumnCalculated DEF TargetInv, Calculating
    <3>2. paths'[Target] = Column
      BY <2>1, <2>3
    <3>3. Column.distance[Target] = 0 /\ IsTreeTo(Target, Column)
      BY <3>1 DEF Calculated
    <3>. QED BY <3>2, <3>3 DEF KeptColumnIsRight, AlreadyComputed, IsTreeTo
  <2>. QED BY <2>2, <2>3
<1>6. CASE UNCHANGED allVars
  BY <1>1, <1>6 DEF allVars, vars
<1>. QED BY <1>2, <1>3, <1>4, <1>5, <1>6 DEF CalculationNext

(* On a ring the column kept for Target is complete all through the         *)
(* session, although it takes many messages to fill it: the test of         *)
(* Node.hpp:100 finds either a shortest path tree or a column that nobody   *)
(* has touched.                                                             *)
THEOREM CalculatedPathsAreKept ==
  ASSUME Target \in Nodes, IsRing
  PROVE  CalculationSpec => []KeptColumnIsRight
<1>1. CalculationInit => KeptColumnIsRight
  BY NetworkAssumption DEF CalculationInit, Init, KeptColumnIsRight,
     AlreadyComputed, Untouched
<1>2. TargetInv /\ KeptColumnIsRight /\ [CalculationNext]_allVars
         => KeptColumnIsRight'
  BY NextKeptColumn
<1>. QED BY <1>1, <1>2, TargetHolds, PTL DEF CalculationSpec
=============================================================================
