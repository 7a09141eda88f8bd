---------------------- MODULE AsynchBellmanFord_proofs ----------------------
(***************************************************************************)
(* Theorems about AsynchBellmanFord for every network: the ledger of acks   *)
(* never underflows (part of TypeOK), the parents always lead down to the   *)
(* source, and estimates that no update can change any more are a shortest  *)
(* path tree.                                                               *)
(***************************************************************************)
EXTENDS AsynchBellmanFord, FiniteInduction, SequenceTheorems

(* The edges of the network in terms of its nodes. *)
LEMMA EdgeFacts ==
    /\ \A e \in Edges : /\ e = <<e[1], e[2]>>
                        /\ e[1] \in Nodes /\ e[2] \in Nodes /\ e[1] # e[2]
                        /\ Weight[e] \in Nat \ {0}
    /\ \A i, j \in Nodes : <<i, j>> \in Edges <=> <<j, i>> \in Edges
    /\ \A i \in Nodes : \A j : j \in Neighbours(i) <=> j \in Nodes /\ <<i, j>> \in Edges
  BY NetworkAssumption DEF Edges, Neighbours

(* Degrees are natural numbers, positive where there is a neighbour, and at *)
(* least two where there are two of them.                                   *)
LEMMA DegreeFacts ==
    /\ \A i \in Nodes : Degree(i) \in Nat
    /\ \A i \in Nodes, j \in Nodes : j \in Neighbours(i) => Degree(i) > 0
    /\ \A i, j, k \in Nodes :
          j \in Neighbours(i) /\ k \in Neighbours(i) /\ j # k => Degree(i) # 1
<1>1. \A i \in Nodes : IsFiniteSet(Neighbours(i))
  BY NetworkAssumption, FS_Subset DEF Neighbours
<1>2. \A i \in Nodes : Degree(i) \in Nat
  BY <1>1, FS_CardinalityType DEF Degree
<1>3. \A i \in Nodes, j \in Nodes : j \in Neighbours(i) => Degree(i) > 0
  BY <1>1, <1>2, FS_EmptySet DEF Degree
<1>4. ASSUME NEW i \in Nodes, NEW j \in Nodes, NEW k \in Nodes,
             j \in Neighbours(i), k \in Neighbours(i), j # k
      PROVE  Degree(i) # 1
  <2>1. SUFFICES ASSUME Cardinality(Neighbours(i)) = 1 PROVE FALSE
    BY DEF Degree
  <2>2. PICK x : Neighbours(i) = {x}
    BY <1>1, <2>1, FS_Singleton
  <2>. QED BY <1>4, <2>2
<1>. QED BY <1>2, <1>3, <1>4

(* Removing an entry of a sequence leaves a sequence of entries it had. *)
LEMMA ErasedFacts ==
    ASSUME NEW S, NEW s \in Seq(S), NEW k \in DOMAIN s
    PROVE  /\ Erased(s, k) \in Seq(S)
           /\ \A n \in DOMAIN Erased(s, k) :
                 \E m \in DOMAIN s : Erased(s, k)[n] = s[m]
<1>. DEFINE before == SubSeq(s, 1, k - 1)
            after  == SubSeq(s, k + 1, Len(s))
<1>1. Len(s) \in Nat /\ k \in 1 .. Len(s)
  OBVIOUS
<1>2. /\ before \in Seq(S) /\ Len(before) = k - 1
      /\ \A n \in 1 .. k - 1 : before[n] = s[n]
  BY <1>1
<1>3. /\ after \in Seq(S) /\ Len(after) = Len(s) - k
      /\ \A n \in 1 .. Len(s) - k : after[n] = s[k + n]
  BY <1>1
<1>. HIDE DEF before, after
<1>4. /\ before \o after \in Seq(S)
      /\ Len(before \o after) = Len(before) + Len(after)
      /\ \A n \in 1 .. Len(before) + Len(after) :
            (before \o after)[n] = IF n <= Len(before) THEN before[n]
                                   ELSE after[n - Len(before)]
  BY <1>2, <1>3, ConcatProperties
<1>5. ASSUME NEW n \in 1 .. Len(s) - 1
      PROVE  \E m \in 1 .. Len(s) : (before \o after)[n] = s[m]
  <2>1. n \in 1 .. Len(before) + Len(after)
    BY <1>1, <1>2, <1>3
  <2>2. (before \o after)[n] = IF n <= k - 1 THEN before[n] ELSE after[n - (k - 1)]
    BY <1>2, <1>4, <2>1
  <2>3. CASE n <= k - 1
    BY <1>1, <1>2, <2>2, <2>3
  <2>4. CASE ~ (n <= k - 1)
    <3>1. n - (k - 1) \in 1 .. Len(s) - k /\ k + (n - (k - 1)) = n + 1
      BY <1>1, <2>4
    <3>2. (before \o after)[n] = s[n + 1]
      BY <1>3, <2>2, <2>4, <3>1
    <3>3. n + 1 \in 1 .. Len(s)
      BY <1>1
    <3>. QED BY <3>2, <3>3
  <2>. QED BY <2>3, <2>4
<1>6. /\ DOMAIN (before \o after) = 1 .. Len(s) - 1
      /\ DOMAIN s = 1 .. Len(s)
  BY <1>1, <1>2, <1>3, <1>4, SMTT(60)
<1>7. Erased(s, k) = before \o after
  BY DEF Erased, before, after
<1>. QED BY <1>4, <1>5, <1>6, <1>7

(* What a handler that takes the head of <<j, i>> and writes m to the nodes *)
(* of S does to the connections.                                            *)
LEMMA AnswerFacts ==
    ASSUME chan \in [Edges -> Seq(Message)],
           NEW i \in Nodes, NEW j \in Nodes, NEW S, NEW m \in Message,
           <<j, i>> \in Edges, chan[<<j, i>>] # <<>>, Answer(i, j, S, m)
    PROVE  /\ chan' \in [Edges -> Seq(Message)]
           /\ \A e \in Edges : \A n \in DOMAIN chan'[e] :
                 \/ \E k \in DOMAIN chan[e] : chan'[e][n] = chan[e][k]
                 \/ e[1] = i /\ e[2] \in S /\ chan'[e][n] = m
<1>1. \A e \in Edges :
         chan'[e] = IF e = <<j, i>> THEN Tail(chan[e])
                    ELSE IF e[1] = i /\ e[2] \in S THEN Append(chan[e], m)
                    ELSE chan[e]
  BY DEF Answer
<1>2. ASSUME NEW e \in Edges
      PROVE  /\ chan'[e] \in Seq(Message)
             /\ \A n \in DOMAIN chan'[e] :
                   \/ \E k \in DOMAIN chan[e] : chan'[e][n] = chan[e][k]
                   \/ e[1] = i /\ e[2] \in S /\ chan'[e][n] = m
  <2>1. chan[e] \in Seq(Message)
    OBVIOUS
  <2>2. CASE e = <<j, i>>
    <3>1. chan'[e] = Tail(chan[e]) /\ chan[e] # <<>>
      BY <1>1, <2>2
    <3>2. /\ Tail(chan[e]) \in Seq(Message)
          /\ \A n \in DOMAIN Tail(chan[e]) :
                n + 1 \in DOMAIN chan[e] /\ Tail(chan[e])[n] = chan[e][n + 1]
      BY <2>1, <3>1
    <3>. QED BY <3>1, <3>2
  <2>3. CASE e # <<j, i>> /\ e[1] = i /\ e[2] \in S
    <3>1. chan'[e] = Append(chan[e], m)
      BY <1>1, <2>3
    <3>2. /\ Append(chan[e], m) \in Seq(Message)
          /\ \A n \in DOMAIN Append(chan[e], m) :
                \/ n \in DOMAIN chan[e] /\ Append(chan[e], m)[n] = chan[e][n]
                \/ Append(chan[e], m)[n] = m
      BY <2>1
    <3>. QED BY <2>3, <3>1, <3>2
  <2>4. CASE e # <<j, i>> /\ ~ (e[1] = i /\ e[2] \in S)
    BY <1>1, <2>1, <2>4
  <2>. QED BY <2>2, <2>3, <2>4
<1>. QED BY <1>2 DEF Answer

----------------------------------------------------------------------------
(* Every message a handler writes is a message. *)
LEMMA MessageFacts ==
    /\ Ack \in Message /\ Finished \in Message
    /\ \A w \in 0 .. Infinity : Update(w) \in Message
    /\ \A m \in Message : m.type = "update" => m.w \in 0 .. Infinity
  BY DEF Message, Ack, Finished, Update

(* The nodes main constructs (Node.hpp:43) satisfy the types. *)
LEMMA InitTypeOK == Init => TypeOK
  BY NetworkAssumption DEF Init, TypeOK, CounterInRange

(* Every handler keeps the types.  An ack lowers an entry that is for        *)
(* another neighbour than its sender, so the node has two and the entry was  *)
(* not 0; an entry that reaches 0 is removed in the same step.               *)
LEMMA NextTypeOK == TypeOK /\ [Next]_vars => TypeOK'
<1>. SUFFICES ASSUME TypeOK, [Next]_vars PROVE TypeOK'
  OBVIOUS
<1>. USE NetworkAssumption
<1>1. CASE CalculateShortestPaths
  <2>1. \A e \in Edges : chan[e] \in Seq(Message) /\ Append(chan[e], Update(0)) \in Seq(Message)
    BY MessageFacts DEF TypeOK
  <2>2. chan' \in [Edges -> Seq(Message)]
    BY <1>1, <2>1 DEF CalculateShortestPaths
  <2>3. 0 \in 0 .. Infinity
    OBVIOUS
  <2>4. /\ request' = FALSE
        /\ state' = [state EXCEPT ![Source] = "awake"]
        /\ distance' = [distance EXCEPT ![Source] = 0]
        /\ UNCHANGED <<parent, counter_acks, counter_finishing, endgame>>
    BY <1>1 DEF CalculateShortestPaths
  <2>. QED BY <2>2, <2>3, <2>4 DEF TypeOK, CounterInRange, endgame
<1>2. ASSUME NEW i \in Nodes, NEW j \in Nodes, NodeStep(i, j) PROVE TypeOK'
  <2>1. CASE UpdateImproves(i, j)
    <3>. DEFINE d == DistanceThrough(i, j)
                c == [node_index |-> j, counter |-> Degree(i) - 1]
    <3>1. /\ <<j, i>> \in Edges /\ <<i, j>> \in Edges /\ chan[<<j, i>>] # <<>>
          /\ Head(chan[<<j, i>>]) \in Message
          /\ Head(chan[<<j, i>>]).type = "update"
      BY <2>1, EdgeFacts DEF UpdateImproves, Receives, TypeOK
    <3>2. d \in 0 .. Infinity
      <4>1. d = Head(chan[<<j, i>>]).w + Weight[<<i, j>>] /\ d < distance[i]
        BY <2>1 DEF UpdateImproves, Improves, DistanceThrough
      <4>2. distance[i] \in 0 .. Infinity
        BY DEF TypeOK
      <4>3. Head(chan[<<j, i>>]).w \in 0 .. Infinity
        BY <3>1, MessageFacts
      <4>4. Weight[<<i, j>>] \in Nat
        BY <3>1, EdgeFacts
      <4>. HIDE DEF d
      <4>. QED BY <4>1, <4>2, <4>3, <4>4
    <3>3. chan' \in [Edges -> Seq(Message)]
      <4>1. Answer(i, j, ToCorrect(i, j), Update(d)) /\ Update(d) \in Message
        BY <2>1, <3>2, MessageFacts DEF UpdateImproves
      <4>. QED BY <3>1, <4>1, AnswerFacts DEF TypeOK
    <3>4. c \in Counter /\ CounterInRange(i, c)
      BY <3>1, EdgeFacts, DegreeFacts DEF Counter, CounterInRange
    <3>5. counter_acks' = [counter_acks EXCEPT ![i] = Append(@, c)]
      BY <2>1 DEF UpdateImproves, AcksAwaited
    <3>6. /\ counter_acks' \in [Nodes -> Seq(Counter)]
          /\ \A n \in Nodes : \A k \in DOMAIN counter_acks'[n] :
                CounterInRange(n, counter_acks'[n][k])
      BY <3>4, <3>5 DEF TypeOK
    <3>. QED BY <2>1, <3>2, <3>3, <3>6 DEF TypeOK, UpdateImproves, CounterInRange, endgame
  <2>2. CASE UpdateRefused(i, j)
    <3>1. <<j, i>> \in Edges /\ chan[<<j, i>>] # <<>> /\ Answer(i, j, AckSender(j), Ack)
      BY <2>2 DEF UpdateRefused, Receives
    <3>2. chan' \in [Edges -> Seq(Message)]
      BY <3>1, AnswerFacts, MessageFacts DEF TypeOK
    <3>. QED BY <2>2, <3>2 DEF TypeOK, UpdateRefused, CounterInRange, estimates, endgame
  <2>3. CASE AckCounted(i, j)
    <3>1. <<j, i>> \in Edges /\ chan[<<j, i>>] # <<>> /\ Answer(i, j, {}, Ack)
      BY <2>3 DEF AckCounted, Receives
    <3>2. chan' \in [Edges -> Seq(Message)]
      BY <3>1, AnswerFacts, MessageFacts DEF TypeOK
    <3>3. PICK k \in DOMAIN counter_acks[i] :
             /\ Credited(i, j, k)
             /\ counter_acks[i][k].counter # 1
             /\ counter_acks' = [counter_acks EXCEPT ![i][k].counter = @ - 1]
      BY <2>3 DEF AckCounted
    <3>. DEFINE c == counter_acks[i][k]
    <3>4. /\ c \in Counter /\ CounterInRange(i, c) /\ c.node_index # j /\ Degree(i) \in Nat
      BY <3>3, DegreeFacts DEF TypeOK, Credited, Creditable
    <3>5. Degree(i) # 1
      <4>1. j \in Neighbours(i)
        BY <3>1, EdgeFacts
      <4>2. c.node_index \in Nodes /\ c.node_index \in Neighbours(i)
        BY <3>4 DEF Counter, CounterInRange
      <4>. HIDE DEF c
      <4>. QED BY <3>4, <4>1, <4>2, DegreeFacts
    <3>. DEFINE c1 == [c EXCEPT !.counter = @ - 1]
                s1 == [counter_acks[i] EXCEPT ![k] = c1]
    <3>6. c1 \in Counter /\ CounterInRange(i, c1)
      <4>1. /\ c.node_index \in Nodes /\ c.counter \in Nat
            /\ c.node_index \in Neighbours(i) /\ c.counter < Degree(i)
            /\ c.counter # 0
        BY <3>4, <3>5 DEF Counter, CounterInRange
      <4>2. /\ c1 = [node_index |-> c.node_index, counter |-> c.counter - 1]
            /\ c.counter - 1 \in Nat /\ c.counter - 1 < Degree(i) /\ c.counter - 1 # 0
        BY <3>3, <3>4, <4>1 DEF Counter
      <4>. HIDE DEF c, c1
      <4>. QED BY <4>1, <4>2 DEF Counter, CounterInRange
    <3>7. counter_acks' = [counter_acks EXCEPT ![i] = s1]
      BY <3>3
    <3>. HIDE DEF c, c1
    <3>8. /\ counter_acks' \in [Nodes -> Seq(Counter)]
          /\ \A n \in Nodes : \A l \in DOMAIN counter_acks'[n] :
                CounterInRange(n, counter_acks'[n][l])
      <4>1. counter_acks[i] \in Seq(Counter)
        BY DEF TypeOK
      <4>2. /\ s1 \in Seq(Counter) /\ DOMAIN s1 = DOMAIN counter_acks[i]
            /\ \A l \in DOMAIN s1 : s1[l] = IF l = k THEN c1 ELSE counter_acks[i][l]
        BY <3>6, <4>1
      <4>. HIDE DEF s1
      <4>. QED BY <3>6, <3>7, <4>2 DEF TypeOK
    <3>. QED BY <2>3, <3>2, <3>8 DEF TypeOK, AckCounted, CounterInRange, estimates, endgame
  <2>4. CASE AckCompletes(i, j)
    <3>1. <<j, i>> \in Edges /\ chan[<<j, i>>] # <<>>
      BY <2>4 DEF AckCompletes, Receives
    <3>2. PICK k \in DOMAIN counter_acks[i] :
             /\ counter_acks' = [counter_acks EXCEPT ![i] = Erased(@, k)]
             /\ Answer(i, j, {counter_acks[i][k].node_index}, Ack)
      BY <2>4 DEF AckCompletes
    <3>3. chan' \in [Edges -> Seq(Message)]
      BY <3>1, <3>2, AnswerFacts, MessageFacts DEF TypeOK
    <3>4. counter_acks[i] \in Seq(Counter)
      BY DEF TypeOK
    <3>5. /\ Erased(counter_acks[i], k) \in Seq(Counter)
          /\ \A n \in DOMAIN Erased(counter_acks[i], k) :
                \E m \in DOMAIN counter_acks[i] :
                   Erased(counter_acks[i], k)[n] = counter_acks[i][m]
      BY <3>4, ErasedFacts
    <3>6. /\ counter_acks' \in [Nodes -> Seq(Counter)]
          /\ \A n \in Nodes : \A l \in DOMAIN counter_acks'[n] :
                CounterInRange(n, counter_acks'[n][l])
      BY <3>2, <3>5 DEF TypeOK
    <3>. QED BY <2>4, <3>3, <3>6 DEF TypeOK, AckCompletes, CounterInRange, estimates, endgame
  <2>5. CASE AckLost(i, j)
    <3>1. <<j, i>> \in Edges /\ chan[<<j, i>>] # <<>> /\ Answer(i, j, {}, Ack)
      BY <2>5 DEF AckLost, Receives
    <3>2. chan' \in [Edges -> Seq(Message)]
      BY <3>1, AnswerFacts, MessageFacts DEF TypeOK
    <3>. QED BY <2>5, <3>2 DEF TypeOK, AckLost, CounterInRange, estimates, endgame
  <2>6. CASE i = Source /\ SourceAck(j)
    <3>. DEFINE done == AllAcked(counter_finishing')
    <3>1. /\ <<j, i>> \in Edges /\ chan[<<j, i>>] # <<>>
          /\ Answer(i, j, IF done THEN Writers(i) ELSE {}, Finished)
          /\ interrupt' = [interrupt EXCEPT ![i] = done]
      BY <2>6 DEF SourceAck, Receives
    <3>2. chan' \in [Edges -> Seq(Message)]
      BY <3>1, AnswerFacts, MessageFacts DEF TypeOK
    <3>3. done \in BOOLEAN
      BY DEF AllAcked
    <3>4. interrupt' \in [Nodes -> BOOLEAN]
      BY <3>1, <3>3, Zenon DEF TypeOK
    <3>. QED BY <2>6, <3>2, <3>4 DEF TypeOK, SourceAck, CounterInRange, estimates
  <2>7. CASE AnswerToFinished(i, j)
    <3>1. /\ <<j, i>> \in Edges /\ chan[<<j, i>>] # <<>>
          /\ Answer(i, j, RelayTo(i), Finished)
      BY <2>7 DEF AnswerToFinished, Receives
    <3>2. chan' \in [Edges -> Seq(Message)]
      BY <3>1, AnswerFacts, MessageFacts DEF TypeOK
    <3>. DEFINE all == counter_finished'[i] = Cardinality(Writers(i))
    <3>3. interrupt' = [interrupt EXCEPT ![i] = all] /\ all \in BOOLEAN
      BY <2>7 DEF AnswerToFinished
    <3>4. interrupt' \in [Nodes -> BOOLEAN]
      BY <3>3, Zenon DEF TypeOK
    <3>5. /\ counter_finished' \in [Nodes -> Nat]
          /\ finished' \in [Nodes -> BOOLEAN]
          /\ closed' \subseteq Edges
      <4>. HIDE DEF all
      <4>1. counter_finished' = [counter_finished EXCEPT ![i] = @ + 1]
        BY <2>7 DEF AnswerToFinished
      <4>2. finished' = [finished EXCEPT ![i] = TRUE]
        BY <2>7 DEF AnswerToFinished
      <4>3. closed' = closed \cup {<<j, i>>}
        BY <2>7 DEF AnswerToFinished
      <4>4. finished' \in [Nodes -> BOOLEAN]
        BY <4>2 DEF TypeOK
      <4>5. closed' \subseteq Edges
        BY <3>1, <4>3 DEF TypeOK
      <4>6. counter_finished' \in [Nodes -> Nat]
        BY <4>1 DEF TypeOK
      <4>. QED BY <4>4, <4>5, <4>6
    <3>6. UNCHANGED <<request, state, estimates, counter_acks, counter_finishing, joined>>
      BY <2>7 DEF AnswerToFinished
    <3>. QED BY <3>2, <3>4, <3>5, <3>6 DEF TypeOK, CounterInRange, estimates
  <2>8. CASE Drain(i, j)
    <3>1. <<j, i>> \in Edges /\ chan[<<j, i>>] # <<>> /\ Answer(i, j, {}, Ack)
      BY <2>8 DEF Drain
    <3>2. chan' \in [Edges -> Seq(Message)]
      BY <3>1, AnswerFacts, MessageFacts DEF TypeOK
    <3>. QED BY <2>8, <3>1, <3>2 DEF TypeOK, Drain, CounterInRange, estimates
  <2>. QED BY <1>2, <2>1, <2>2, <2>3, <2>4, <2>5, <2>6, <2>7, <2>8 DEF NodeStep
<1>3. ASSUME NEW i \in Nodes, Join(i) PROVE TypeOK'
  BY <1>3 DEF TypeOK, Join, CounterInRange, estimates
<1>4. CASE UNCHANGED vars
  BY <1>4 DEF TypeOK, vars, CounterInRange, estimates, endgame
<1>. QED BY <1>1, <1>2, <1>3, <1>4 DEF Next, Terminated

(* TypeOK holds in every run: in particular the counter of an entry of      *)
(* counter_acks, an unsigned integer decremented at Node.cpp:240, never     *)
(* wraps, since an ack is only credited where two neighbours are involved.  *)
THEOREM TypeCorrect == Spec => []TypeOK
  BY InitTypeOK, NextTypeOK, PTL DEF Spec

----------------------------------------------------------------------------
(* A handler loses nothing but the head it reads and delivers what it sends.*)
LEMMA AnswerDelivers ==
    ASSUME chan \in [Edges -> Seq(Message)],
           NEW i \in Nodes, NEW j \in Nodes, NEW S, NEW m \in Message,
           <<j, i>> \in Edges, chan[<<j, i>>] # <<>>, Answer(i, j, S, m)
    PROVE  /\ \A e \in Edges : \A k \in DOMAIN chan[e] :
                 \/ e = <<j, i>> /\ chan[e][k] = Head(chan[<<j, i>>])
                 \/ \E n \in DOMAIN chan'[e] : chan'[e][n] = chan[e][k]
           /\ \A e \in Edges : e[1] = i /\ e[2] \in S =>
                 \E n \in DOMAIN chan'[e] : chan'[e][n] = m
<1>1. \A e \in Edges :
         chan'[e] = IF e = <<j, i>> THEN Tail(chan[e])
                    ELSE IF e[1] = i /\ e[2] \in S THEN Append(chan[e], m)
                    ELSE chan[e]
  BY DEF Answer
<1>2. ASSUME NEW e \in Edges, NEW k \in DOMAIN chan[e]
      PROVE  \/ e = <<j, i>> /\ chan[e][k] = Head(chan[<<j, i>>])
             \/ \E n \in DOMAIN chan'[e] : chan'[e][n] = chan[e][k]
  <2>1. chan[e] \in Seq(Message) /\ k \in 1 .. Len(chan[e])
    OBVIOUS
  <2>2. CASE e = <<j, i>>
    <3>1. chan'[e] = Tail(chan[e]) /\ chan[e] # <<>>
      BY <1>1, <2>2
    <3>2. k = 1 => chan[e][k] = Head(chan[e])
      BY <2>1, <3>1
    <3>3. k # 1 => k - 1 \in DOMAIN Tail(chan[e]) /\ Tail(chan[e])[k - 1] = chan[e][k]
      BY <2>1, <3>1
    <3>. QED BY <2>2, <3>1, <3>2, <3>3
  <2>3. CASE e # <<j, i>> /\ e[1] = i /\ e[2] \in S
    <3>1. chan'[e] = Append(chan[e], m)
      BY <1>1, <2>3
    <3>. QED BY <2>1, <3>1
  <2>4. CASE e # <<j, i>> /\ ~ (e[1] = i /\ e[2] \in S)
    BY <1>1, <2>1, <2>4
  <2>. QED BY <2>2, <2>3, <2>4
<1>3. ASSUME NEW e \in Edges, e[1] = i, e[2] \in S
      PROVE  \E n \in DOMAIN chan'[e] : chan'[e][n] = m
  <2>1. e # <<j, i>>
    BY <1>3, EdgeFacts
  <2>2. chan'[e] = Append(chan[e], m)
    BY <1>1, <1>3, <2>1
  <2>3. chan[e] \in Seq(Message)
    OBVIOUS
  <2>4. Len(chan[e]) + 1 \in DOMAIN Append(chan[e], m) /\ Append(chan[e], m)[Len(chan[e]) + 1] = m
    BY <2>3
  <2>. QED BY <2>2, <2>4
<1>. QED BY <1>2, <1>3

(* A handler that leaves the estimates alone and sends no update keeps the  *)
(* invariant, provided the head it takes was of no more use to the node.    *)
LEMMA QuietHandler ==
    ASSUME TypeOK, TreeInv,
           NEW i \in Nodes, NEW j \in Nodes, NEW S, NEW m \in Message,
           m.type # "update",
           <<j, i>> \in Edges, chan[<<j, i>>] # <<>>, Answer(i, j, S, m),
           UNCHANGED <<request, distance, parent>>,
           \A n \in Nodes : interrupt[n] => interrupt'[n],
           \/ Head(chan[<<j, i>>]).type # "update"
           \/ interrupt[i]
           \/ distance[i] <= Head(chan[<<j, i>>]).w + Weight[<<j, i>>]
    PROVE  TreeInv'
<1>1. /\ \A e \in Edges : \A n \in DOMAIN chan'[e] :
            (\E k \in DOMAIN chan[e] : chan'[e][n] = chan[e][k]) \/ chan'[e][n] = m
      /\ \A e \in Edges : \A k \in DOMAIN chan[e] :
            \/ e = <<j, i>> /\ chan[e][k] = Head(chan[<<j, i>>])
            \/ \E n \in DOMAIN chan'[e] : chan'[e][n] = chan[e][k]
  <2>1. chan \in [Edges -> Seq(Message)]
    BY DEF TypeOK
  <2>. QED BY <2>1, AnswerFacts, AnswerDelivers
<1>2. UpdatesSound'
  BY <1>1 DEF TreeInv, UpdatesSound
<1>3. SourceAtZero'
  BY DEF TreeInv, SourceAtZero
<1>4. ParentsDescend'
  BY DEF TreeInv, ParentsDescend
<1>5. ASSUME NEW e \in Edges PROVE (interrupt[e[2]] \/ Relaxed(e) \/ Informed(e))'
  <2>1. CASE interrupt[e[2]]
    BY <2>1, EdgeFacts
  <2>2. CASE Relaxed(e)
    BY <2>2 DEF Relaxed
  <2>3. CASE ~ interrupt[e[2]] /\ Informed(e)
    <3>1. PICK k \in DOMAIN chan[e] :
             chan[e][k].type = "update" /\ chan[e][k].w = distance[e[1]]
      BY <2>3 DEF Informed
    <3>2. CASE e = <<j, i>> /\ chan[e][k] = Head(chan[<<j, i>>])
      <4>1. e[1] = j /\ e[2] = i
        BY <3>2
      <4>2. distance[e[2]] <= distance[e[1]] + Weight[e]
        BY <2>3, <3>1, <3>2, <4>1
      <4>. QED BY <4>2 DEF Relaxed
    <3>3. CASE \E n \in DOMAIN chan'[e] : chan'[e][n] = chan[e][k]
      BY <3>1, <3>3 DEF Informed
    <3>. QED BY <1>1, <3>2, <3>3
  <2>. QED BY <2>1, <2>2, <2>3 DEF TreeInv, EdgesInformed
<1>. QED BY <1>2, <1>3, <1>4, <1>5 DEF TreeInv, EdgesInformed

(* Before the source is asked nobody knows a distance but Infinity. *)
LEMMA InitTreeInv == Init => TreeInv
<1>. SUFFICES ASSUME Init PROVE TreeInv
  OBVIOUS
<1>1. UpdatesSound /\ SourceAtZero
  BY DEF Init, UpdatesSound, SourceAtZero
<1>2. ParentsDescend
  BY NetworkAssumption DEF Init, ParentsDescend
<1>3. EdgesInformed
  BY NetworkAssumption, EdgeFacts DEF Init, EdgesInformed, Relaxed
<1>. QED BY <1>1, <1>2, <1>3 DEF TreeInv

(* The source starts: its updates carry the best distance there is. *)
LEMMA CalculateTreeInv == TypeOK /\ TreeInv /\ CalculateShortestPaths => TreeInv'
<1>. SUFFICES ASSUME TypeOK, TreeInv, CalculateShortestPaths PROVE TreeInv'
  OBVIOUS
<1>. USE NetworkAssumption
<1>1. /\ request /\ request' = FALSE
      /\ distance' = [distance EXCEPT ![Source] = 0]
      /\ chan' = [e \in Edges |-> IF e[1] = Source
                                  THEN Append(chan[e], Update(0)) ELSE chan[e]]
      /\ UNCHANGED <<parent, interrupt>>
  BY DEF CalculateShortestPaths, endgame
<1>2. \A e \in Edges : chan[e] = <<>>
  BY <1>1 DEF TreeInv, SourceAtZero
<1>3. \A e \in Edges : chan'[e] = IF e[1] = Source THEN <<Update(0)>> ELSE <<>>
  <2>1. Append(<<>>, Update(0)) = <<Update(0)>>
    OBVIOUS
  <2>. QED BY <1>1, <1>2, <2>1
<1>4. /\ distance' \in [Nodes -> 0 .. Infinity] /\ distance'[Source] = 0
      /\ \A n \in Nodes : distance'[n] <= distance[n]
      /\ \A n \in Nodes \ {Source} : distance'[n] = distance[n]
  BY <1>1 DEF TypeOK
<1>5. UpdatesSound'
  <2>1. ASSUME NEW e \in Edges, NEW n \in DOMAIN chan'[e]
        PROVE  chan'[e][n].w >= distance'[e[1]]
    <3>1. e[1] = Source /\ chan'[e] = <<Update(0)>> /\ n = 1
      BY <1>3
    <3>. QED BY <1>4, <3>1 DEF Update
  <2>. QED BY <2>1 DEF UpdatesSound
<1>6. SourceAtZero'
  BY <1>1, <1>4 DEF SourceAtZero
<1>7. ParentsDescend'
  <2>1. ASSUME NEW n \in Nodes, parent[n] # NoNode
        PROVE  /\ <<parent[n], n>> \in Edges
               /\ distance'[parent[n]] + Weight[<<parent[n], n>>] <= distance'[n]
    <3>1. /\ n # Source /\ <<parent[n], n>> \in Edges /\ parent[n] \in Nodes
          /\ distance[parent[n]] + Weight[<<parent[n], n>>] <= distance[n]
      BY <2>1, EdgeFacts DEF TreeInv, ParentsDescend
    <3>2. /\ distance'[parent[n]] <= distance[parent[n]] /\ distance'[n] = distance[n]
          /\ distance'[parent[n]] \in Nat /\ distance[parent[n]] \in Nat
          /\ distance[n] \in Nat /\ Weight[<<parent[n], n>>] \in Nat
      BY <1>4, <3>1, EdgeFacts DEF TypeOK
    <3>. QED BY <3>1, <3>2
  <2>. QED BY <1>1, <1>4, <2>1 DEF TreeInv, ParentsDescend
<1>8. ASSUME NEW e \in Edges PROVE (interrupt[e[2]] \/ Relaxed(e) \/ Informed(e))'
  <2>1. CASE e[1] = Source
    <3>1. chan'[e] = <<Update(0)>> /\ distance'[e[1]] = 0
      BY <1>3, <1>4, <2>1
    <3>. QED BY <3>1 DEF Informed, Update
  <2>2. CASE e[2] = Source
    BY <1>4, <2>2, EdgeFacts DEF Relaxed
  <2>3. CASE e[1] # Source /\ e[2] # Source
    <3>1. ~ Informed(e) /\ (interrupt[e[2]] \/ Relaxed(e))
      BY <1>2 DEF Informed, TreeInv, EdgesInformed
    <3>. QED BY <1>1, <1>4, <2>3, <3>1, EdgeFacts DEF Relaxed
  <2>. QED BY <2>1, <2>2, <2>3
<1>. QED BY <1>5, <1>6, <1>7, <1>8 DEF TreeInv, EdgesInformed

(* A better distance: the neighbours it is not sent to do not need it. *)
LEMMA ImproveTreeInv ==
    ASSUME TypeOK, TreeInv, NEW i \in Nodes, NEW j \in Nodes, UpdateImproves(i, j)
    PROVE  TreeInv'
<1>. USE NetworkAssumption
<1>. DEFINE h == Head(chan[<<j, i>>])
            d == DistanceThrough(i, j)
<1>1. /\ <<j, i>> \in Edges /\ <<i, j>> \in Edges /\ i # j /\ chan[<<j, i>>] # <<>>
      /\ h \in Message /\ h.type = "update" /\ h.w \in Nat
      /\ h = chan[<<j, i>>][1] /\ 1 \in DOMAIN chan[<<j, i>>]
      /\ Weight[<<j, i>>] = Weight[<<i, j>>]
      /\ Weight[<<i, j>>] \in Nat \ {0}
  <2>1. /\ <<j, i>> \in Edges /\ chan[<<j, i>>] # <<>> /\ h.type = "update"
        /\ chan[<<j, i>>] \in Seq(Message)
    BY DEF UpdateImproves, Receives, TypeOK
  <2>2. h \in Message /\ h = chan[<<j, i>>][1] /\ 1 \in DOMAIN chan[<<j, i>>]
    BY <2>1
  <2>. QED BY <2>1, <2>2, EdgeFacts, MessageFacts
<1>2. h.w >= distance[j] /\ d = h.w + Weight[<<j, i>>] /\ d < distance[i]
  <2>1. h.w >= distance[<<j, i>>[1]]
    BY <1>1 DEF TreeInv, UpdatesSound
  <2>. QED BY <1>1, <2>1 DEF DistanceThrough, UpdateImproves, Improves
<1>3. d \in 0 .. Infinity
  BY <1>1, <1>2, SMTT(60) DEF TypeOK
<1>4. i # Source /\ ~ request
  BY <1>1, <1>2, <1>3, SMTT(60) DEF TreeInv, SourceAtZero, TypeOK
<1>5. /\ distance' = [distance EXCEPT ![i] = d] /\ parent' = [parent EXCEPT ![i] = j]
      /\ Answer(i, j, Neighbours(i) \ {j}, Update(d))
      /\ UNCHANGED <<request, interrupt>>
  BY DEF UpdateImproves, ToCorrect, endgame
<1>6. /\ distance' \in [Nodes -> 0 .. Infinity] /\ distance'[i] = d
      /\ \A n \in Nodes \ {i} : distance'[n] = distance[n]
      /\ \A n \in Nodes : distance'[n] <= distance[n]
      /\ parent'[i] = j /\ \A n \in Nodes \ {i} : parent'[n] = parent[n]
  <2>. HIDE DEF d, h
  <2>1. distance \in [Nodes -> 0 .. Infinity] /\ parent \in [Nodes -> Nodes \cup {NoNode}]
    BY DEF TypeOK
  <2>2. /\ distance' \in [Nodes -> 0 .. Infinity] /\ distance'[i] = d
        /\ \A n \in Nodes \ {i} : distance'[n] = distance[n]
    BY <1>3, <1>5, <2>1
  <2>3. \A n \in Nodes : distance'[n] <= distance[n]
    BY <1>2, <2>1, <2>2
  <2>4. parent'[i] = j /\ \A n \in Nodes \ {i} : parent'[n] = parent[n]
    BY <1>5, <2>1
  <2>. QED BY <2>2, <2>3, <2>4
<1>. HIDE DEF d, h
<1>7. /\ chan' \in [Edges -> Seq(Message)]
      /\ \A e \in Edges : \A n \in DOMAIN chan'[e] :
            \/ \E k \in DOMAIN chan[e] : chan'[e][n] = chan[e][k]
            \/ e[1] = i /\ chan'[e][n] = Update(d)
      /\ \A e \in Edges : \A k \in DOMAIN chan[e] :
            \/ e = <<j, i>> /\ chan[e][k] = h
            \/ \E n \in DOMAIN chan'[e] : chan'[e][n] = chan[e][k]
      /\ \A e \in Edges : e[1] = i /\ e[2] # j =>
            \E n \in DOMAIN chan'[e] : chan'[e][n] = Update(d)
  <2>1. chan \in [Edges -> Seq(Message)] /\ Update(d) \in Message
    BY <1>3, MessageFacts DEF TypeOK
  <2>2. \A e \in Edges : e[1] = i /\ e[2] # j => e[2] \in Neighbours(i) \ {j}
    BY EdgeFacts
  <2>3. Answer(i, j, Neighbours(i) \ {j}, Update(d)) /\ <<j, i>> \in Edges /\ chan[<<j, i>>] # <<>>
    BY <1>1, <1>5
  <2>4. /\ chan' \in [Edges -> Seq(Message)]
        /\ \A e \in Edges : \A n \in DOMAIN chan'[e] :
              \/ \E k \in DOMAIN chan[e] : chan'[e][n] = chan[e][k]
              \/ e[1] = i /\ e[2] \in Neighbours(i) \ {j} /\ chan'[e][n] = Update(d)
    BY <2>1, <2>3, AnswerFacts
  <2>5. \A e \in Edges : \A k \in DOMAIN chan[e] :
              \/ e = <<j, i>> /\ chan[e][k] = Head(chan[<<j, i>>])
              \/ \E n \in DOMAIN chan'[e] : chan'[e][n] = chan[e][k]
    BY <2>1, <2>3, AnswerDelivers
  <2>6. \A e \in Edges : e[1] = i /\ e[2] \in Neighbours(i) \ {j} =>
              \E n \in DOMAIN chan'[e] : chan'[e][n] = Update(d)
    BY <2>1, <2>3, AnswerDelivers
  <2>. QED BY <2>2, <2>4, <2>5, <2>6 DEF h
<1>8. UpdatesSound'
  <2>1. ASSUME NEW e \in Edges, NEW n \in DOMAIN chan'[e], chan'[e][n].type = "update"
        PROVE  chan'[e][n].w >= distance'[e[1]]
    <3>1. CASE e[1] = i /\ chan'[e][n] = Update(d)
      BY <1>3, <1>6, <3>1 DEF Update
    <3>2. CASE \E k \in DOMAIN chan[e] : chan'[e][n] = chan[e][k]
      <4>1. PICK k \in DOMAIN chan[e] : chan'[e][n] = chan[e][k]
        BY <3>2
      <4>2. chan[e][k] \in Message
        BY DEF TypeOK
      <4>3. chan[e][k].w >= distance[e[1]] /\ chan[e][k].w \in Nat
        BY <2>1, <4>1, <4>2, MessageFacts DEF TreeInv, UpdatesSound
      <4>4. /\ distance'[e[1]] <= distance[e[1]]
            /\ distance'[e[1]] \in Nat /\ distance[e[1]] \in Nat
        BY <1>6, EdgeFacts, SMTT(60) DEF TypeOK
      <4>. QED BY <4>1, <4>3, <4>4
    <3>. QED BY <1>7, <3>1, <3>2
  <2>. QED BY <2>1 DEF UpdatesSound
<1>9. SourceAtZero'
  BY <1>4, <1>5, <1>6 DEF TreeInv, SourceAtZero
<1>10. ParentsDescend'
  <2>1. ASSUME NEW n \in Nodes, parent'[n] # NoNode
        PROVE  /\ <<parent'[n], n>> \in Edges
               /\ distance'[parent'[n]] + Weight[<<parent'[n], n>>] <= distance'[n]
    <3>1. CASE n = i
      <4>1. distance'[j] = distance[j] /\ distance[j] \in Nat /\ d \in Nat
        BY <1>1, <1>3, <1>6 DEF TypeOK
      <4>2. parent'[n] = j /\ distance'[n] = d
        BY <1>6, <3>1
      <4>3. distance'[j] + Weight[<<j, i>>] <= d
        BY <1>1, <1>2, <4>1
      <4>. QED BY <1>1, <3>1, <4>2, <4>3
    <3>2. CASE n # i
      <4>1. /\ parent'[n] = parent[n] /\ <<parent[n], n>> \in Edges
            /\ parent[n] \in Nodes
            /\ distance[parent[n]] + Weight[<<parent[n], n>>] <= distance[n]
        BY <1>6, <2>1, <3>2, EdgeFacts DEF TreeInv, ParentsDescend
      <4>2. /\ distance'[parent[n]] <= distance[parent[n]] /\ distance'[n] = distance[n]
            /\ distance'[parent[n]] \in Nat /\ distance[parent[n]] \in Nat
            /\ distance[n] \in Nat /\ Weight[<<parent[n], n>>] \in Nat
        BY <1>6, <3>2, <4>1, EdgeFacts DEF TypeOK
      <4>. QED BY <4>1, <4>2
    <3>. QED BY <3>1, <3>2
  <2>2. \A n \in Nodes \ {Source} : distance'[n] < Infinity => parent'[n] # NoNode
    BY <1>6 DEF TreeInv, ParentsDescend
  <2>3. parent'[Source] = NoNode
    BY <1>4, <1>6 DEF TreeInv, ParentsDescend
  <2>. QED BY <2>1, <2>2, <2>3 DEF ParentsDescend
<1>11. ASSUME NEW e \in Edges PROVE (interrupt[e[2]] \/ Relaxed(e) \/ Informed(e))'
  <2>0. /\ e[1] \in Nodes /\ e[2] \in Nodes /\ e[1] # e[2] /\ Weight[e] \in Nat
        /\ distance[e[1]] \in Nat /\ distance[e[2]] \in Nat
        /\ distance'[e[1]] \in Nat /\ distance'[e[2]] \in Nat
    BY <1>6, EdgeFacts, SMTT(60) DEF TypeOK
  <2>1. CASE e[1] = i /\ e[2] # j
    BY <1>6, <1>7, <2>1 DEF Informed, Update
  <2>2. CASE e[1] = i /\ e[2] = j
    BY <1>1, <1>2, <1>6, <2>0, <2>2 DEF Relaxed
  <2>3. CASE e[1] # i /\ Relaxed(e)
    BY <1>6, <2>0, <2>3 DEF Relaxed
  <2>4. CASE e[1] # i /\ interrupt[e[2]]
    BY <1>5, <2>4
  <2>5. CASE e[1] # i /\ Informed(e)
    <3>1. PICK k \in DOMAIN chan[e] :
             chan[e][k].type = "update" /\ chan[e][k].w = distance[e[1]]
      BY <2>5 DEF Informed
    <3>2. distance'[e[1]] = distance[e[1]]
      BY <1>6, <2>0, <2>5
    <3>3. CASE e = <<j, i>> /\ chan[e][k] = h
      BY <1>2, <1>6, <3>1, <3>2, <3>3 DEF Relaxed
    <3>4. CASE \E n \in DOMAIN chan'[e] : chan'[e][n] = chan[e][k]
      BY <3>1, <3>2, <3>4 DEF Informed
    <3>. QED BY <1>7, <3>3, <3>4
  <2>. QED BY <2>1, <2>2, <2>3, <2>4, <2>5 DEF TreeInv, EdgesInformed
<1>. QED BY <1>8, <1>9, <1>10, <1>11 DEF TreeInv, EdgesInformed

(* Every step keeps the tree invariant: a refused update was of no use to    *)
(* the node that refused it, and the other messages carry no estimate.       *)
LEMMA NextTreeInv == TypeOK /\ TreeInv /\ [Next]_vars => TreeInv'
<1>. SUFFICES ASSUME TypeOK, TreeInv, [Next]_vars PROVE TreeInv'
  OBVIOUS
<1>1. CASE CalculateShortestPaths
  BY <1>1, CalculateTreeInv
<1>2. ASSUME NEW i \in Nodes, NEW j \in Nodes, NodeStep(i, j) PROVE TreeInv'
  <2>1. CASE UpdateImproves(i, j)
    BY <2>1, ImproveTreeInv
  <2>. DEFINE Quiet(S, m) ==
          /\ <<j, i>> \in Edges /\ chan[<<j, i>>] # <<>> /\ Answer(i, j, S, m)
          /\ m \in Message /\ m.type # "update"
          /\ UNCHANGED <<request, distance, parent>>
          /\ \A n \in Nodes : interrupt[n] => interrupt'[n]
          /\ \/ Head(chan[<<j, i>>]).type # "update"
             \/ interrupt[i]
             \/ distance[i] <= Head(chan[<<j, i>>]).w + Weight[<<j, i>>]
  <2>2. ASSUME NEW S, NEW m, Quiet(S, m) PROVE TreeInv'
    BY <2>2, QuietHandler
  <2>3. /\ Ack \in Message /\ Ack.type # "update" /\ Finished \in Message
        /\ Finished.type # "update"
    BY MessageFacts DEF Ack, Finished
  <2>4. CASE UpdateRefused(i, j)
    <3>1. distance[i] <= Head(chan[<<j, i>>]).w + Weight[<<j, i>>]
      <4>1. /\ <<j, i>> \in Edges /\ Head(chan[<<j, i>>]).type = "update"
            /\ Head(chan[<<j, i>>]) \in Message /\ distance[i] \in Nat
        BY <2>4 DEF UpdateRefused, Receives, TypeOK
      <4>2. Weight[<<i, j>>] = Weight[<<j, i>>] /\ Weight[<<j, i>>] \in Nat
        BY <4>1, EdgeFacts, NetworkAssumption
      <4>3. ~ (Head(chan[<<j, i>>]).w + Weight[<<i, j>>] < distance[i])
        BY <2>4 DEF UpdateRefused, Improves, DistanceThrough
      <4>. QED BY <4>1, <4>2, <4>3, MessageFacts, NetworkAssumption
    <3>2. Quiet(AckSender(j), Ack)
      BY <2>3, <2>4, <3>1 DEF UpdateRefused, Receives, estimates, endgame
    <3>. QED BY <2>2, <3>2
  <2>5. CASE AckCounted(i, j)
    <3>1. Quiet({}, Ack)
      BY <2>3, <2>5 DEF AckCounted, Receives, estimates, endgame
    <3>. QED BY <2>2, <3>1
  <2>6. CASE AckCompletes(i, j)
    <3>1. PICK k \in DOMAIN counter_acks[i] :
             Answer(i, j, {counter_acks[i][k].node_index}, Ack)
      BY <2>6 DEF AckCompletes
    <3>2. Quiet({counter_acks[i][k].node_index}, Ack)
      BY <2>3, <2>6, <3>1 DEF AckCompletes, Receives, estimates, endgame
    <3>. QED BY <2>2, <3>2
  <2>7. CASE AckLost(i, j)
    <3>1. Quiet({}, Ack)
      BY <2>3, <2>7 DEF AckLost, Receives, estimates, endgame
    <3>. QED BY <2>2, <3>1
  <2>8. CASE i = Source /\ SourceAck(j)
    <3>1. PICK S : Answer(i, j, S, Finished)
      BY <2>8 DEF SourceAck
    <3>2. \A n \in Nodes : interrupt[n] => interrupt'[n]
      BY <2>8 DEF SourceAck, Receives, TypeOK
    <3>3. Quiet(S, Finished)
      BY <2>3, <2>8, <3>1, <3>2 DEF SourceAck, Receives, estimates
    <3>. QED BY <2>2, <3>3
  <2>9. CASE AnswerToFinished(i, j)
    <3>1. \A n \in Nodes : interrupt[n] => interrupt'[n]
      BY <2>9 DEF AnswerToFinished, Receives, TypeOK
    <3>2. Quiet(RelayTo(i), Finished)
      BY <2>3, <2>9, <3>1 DEF AnswerToFinished, Receives, estimates
    <3>. QED BY <2>2, <3>2
  <2>10. CASE Drain(i, j)
    <3>1. Quiet({}, Ack)
      BY <2>3, <2>10 DEF Drain, estimates
    <3>. QED BY <2>2, <3>1
  <2>. QED BY <1>2, <2>1, <2>4, <2>5, <2>6, <2>7, <2>8, <2>9, <2>10 DEF NodeStep
<1>3. ASSUME UNCHANGED <<request, estimates, chan, interrupt>> PROVE TreeInv'
  BY <1>3 DEF TreeInv, UpdatesSound, SourceAtZero, ParentsDescend, EdgesInformed,
              Relaxed, Informed, estimates
<1>4. ASSUME NEW i \in Nodes, Join(i) PROVE TreeInv'
  BY <1>3, <1>4 DEF Join
<1>5. CASE UNCHANGED vars
  BY <1>3, <1>5 DEF vars, endgame
<1>. QED BY <1>1, <1>2, <1>4, <1>5 DEF Next, Terminated

(* Where no edge has anything to offer the tree invariant is the Bellman    *)
(* equations: the parent's distance is bounded from both sides.             *)
LEMMA RelaxedIsTree ==
    ASSUME TypeOK, TreeInv, ~ request, \A e \in Edges : Relaxed(e)
    PROVE  IsShortestPathTree
<1>1. distance[Source] = 0
  BY DEF TreeInv, SourceAtZero
<1>2. ASSUME NEW i \in Nodes \ {Source}, distance[i] < Infinity
      PROVE  /\ parent[i] \in Neighbours(i)
             /\ distance[i] = distance[parent[i]] + Weight[<<parent[i], i>>]
  <2>1. /\ <<parent[i], i>> \in Edges /\ parent[i] \in Nodes
        /\ distance[parent[i]] + Weight[<<parent[i], i>>] <= distance[i]
    BY <1>2, EdgeFacts DEF TreeInv, ParentsDescend
  <2>2. distance[i] <= distance[parent[i]] + Weight[<<parent[i], i>>]
    BY <2>1 DEF Relaxed
  <2>3. /\ distance[i] \in Nat /\ distance[parent[i]] \in Nat
        /\ Weight[<<parent[i], i>>] \in Nat
    BY <2>1, EdgeFacts, NetworkAssumption DEF TypeOK
  <2>4. parent[i] \in Neighbours(i)
    BY <2>1, EdgeFacts
  <2>. QED BY <2>2, <2>1, <2>3, <2>4
<1>. QED BY <1>1, <1>2 DEF IsShortestPathTree

(* Without updates under way no edge is informed, so all are relaxed.       *)
LEMMA TreeInvQuiescent == TypeOK /\ TreeInv => QuiescentIsShortest
<1>. SUFFICES ASSUME TypeOK, TreeInv, Quiescent PROVE IsShortestPathTree
  BY DEF QuiescentIsShortest
<1>1. \A e \in Edges : Relaxed(e)
  BY EdgeFacts DEF Quiescent, InFlight, TreeInv, EdgesInformed, Informed
<1>. QED BY <1>1, RelaxedIsTree DEF Quiescent

(* In every run an edge that still has a better distance to offer carries   *)
(* the update that says so: the order in which answer_to_update assigns,     *)
(* forwards and acknowledges (Node.cpp:187-220) loses no improvement.        *)
THEOREM TreeInvariant == Spec => []TreeInv
  BY InitTreeInv, NextTreeInv, TypeCorrect, PTL DEF Spec

(* At every moment the parents lead down to the source: the walk of         *)
(* transfer_amount along them (main.cpp:290) ends.                          *)
THEOREM ParentsAlwaysDescend == Spec => []ParentsDescend
<1>1. TreeInv => ParentsDescend
  BY DEF TreeInv
<1>. QED BY <1>1, TreeInvariant, PTL

(* Whenever no update is under way and no node has left its loop, distances *)
(* and parents are a shortest path tree, on any network and under any       *)
(* interleaving of the connections.                                         *)
THEOREM QuiescenceIsCorrect == Spec => []QuiescentIsShortest
  BY TypeCorrect, TreeInvariant, TreeInvQuiescent, PTL

(* p gives every node a distance no longer than any path from Source: along *)
(* an edge it grows by at most the weight.                                  *)
IsLowerBound(p) ==
    /\ p \in [Nodes -> 0 .. Infinity]
    /\ p[Source] = 0
    /\ \A e \in Edges : p[e[2]] <= p[e[1]] + Weight[e]

Bounded(p) == \A i \in Nodes : p[i] <= distance[i]

(* A step keeps every distance above the bound: the source sets 0, and what *)
(* an update offers is not below its sender's distance (UpdatesSound).      *)
LEMMA NextBounded ==
    ASSUME NEW p, IsLowerBound(p), TypeOK, TreeInv, Bounded(p), [Next]_vars
    PROVE  Bounded(p)'
<1>1. CASE CalculateShortestPaths
  <2>1. distance' = [distance EXCEPT ![Source] = 0]
    BY <1>1 DEF CalculateShortestPaths
  <2>. QED BY <2>1, NetworkAssumption DEF Bounded, IsLowerBound, TypeOK
<1>2. ASSUME NEW i \in Nodes, NEW j \in Nodes, UpdateImproves(i, j)
      PROVE  Bounded(p)'
  <2>1. /\ <<j, i>> \in Edges /\ chan[<<j, i>>] # <<>>
        /\ Head(chan[<<j, i>>]).type = "update"
        /\ distance' = [distance EXCEPT ![i] = DistanceThrough(i, j)]
    BY <1>2 DEF UpdateImproves, Receives
  <2>2. chan[<<j, i>>] \in Seq(Message)
    BY <2>1 DEF TypeOK
  <2>3. 1 \in DOMAIN chan[<<j, i>>] /\ Head(chan[<<j, i>>]) = chan[<<j, i>>][1]
    BY <2>1, <2>2
  <2>4. Head(chan[<<j, i>>]).w >= distance[j]
    BY <2>1, <2>3 DEF TreeInv, UpdatesSound
  <2>5. Head(chan[<<j, i>>]).w \in Nat
    BY <2>1, <2>2, <2>3, MessageFacts
  <2>6. /\ Weight[<<i, j>>] = Weight[<<j, i>>] /\ Weight[<<j, i>>] \in Nat
        /\ p[i] <= p[j] + Weight[<<j, i>>]
    BY <2>1, NetworkAssumption DEF IsLowerBound
  <2>7. p[j] <= distance[j] /\ p[i] \in Nat /\ p[j] \in Nat /\ distance[j] \in Nat
    BY NetworkAssumption DEF Bounded, IsLowerBound, TypeOK
  <2>8. p[i] <= DistanceThrough(i, j)
    BY <2>4, <2>5, <2>6, <2>7 DEF DistanceThrough
  <2>. QED BY <2>1, <2>8 DEF Bounded, TypeOK
<1>3. CASE UNCHANGED distance
  BY <1>3 DEF Bounded
<1>. QED
  BY <1>1, <1>2, <1>3, ZenonT(60)
  DEF Next, NodeStep, UpdateRefused, AckCounted, AckCompletes, AckLost,
      SourceAck, AnswerToFinished, Drain, Join, Terminated, vars, estimates

(* No distance is ever too short: whatever corrections are under way, a     *)
(* node's distance (Node.cpp:187) is at least every lower bound on it, the  *)
(* shortest distance itself included.  With the Bellman equations this      *)
(* makes it the shortest one when no update is under way.                   *)
THEOREM NeverTooShort ==
    ASSUME NEW p, IsLowerBound(p)
    PROVE  Spec => []Bounded(p)
<1>1. Init => Bounded(p)
  BY NetworkAssumption DEF Init, Bounded, IsLowerBound
<1>2. TypeOK /\ TreeInv /\ Bounded(p) /\ [Next]_vars => Bounded(p)'
  BY NextBounded
<1>. QED BY <1>1, <1>2, TypeCorrect, TreeInvariant, PTL DEF Spec

----------------------------------------------------------------------------
(* The rounds of ShortestDistance: round n has the lengths of the shortest  *)
(* paths of at most n edges.                                                *)
FirstRound == [i \in Nodes |-> IF i = Source THEN 0 ELSE Infinity]

Offered(d, i) == {d[i]} \cup {d[j] + Weight[<<j, i>>] : j \in Neighbours(i)}
NextRound(d)  == [i \in Nodes |-> Min(Offered(d, i))]

AreRounds(D, n) ==
    D = [k \in 0 .. n |-> IF k = 0 THEN FirstRound ELSE NextRound(D[k - 1])]
Rounds(n) == CHOOSE D : AreRounds(D, n)

LEMMA RoundsFacts ==
    ASSUME NEW n \in Nat
    PROVE  /\ Rounds(n)[0] = FirstRound
           /\ \A k \in 0 .. n - 1 : Rounds(n)[k + 1] = NextRound(Rounds(n)[k])
<1>. DEFINE G == {m \in Nat : \E D : AreRounds(D, m)}
<1>1. 0 \in G
  <2>. DEFINE D == [k \in 0 .. 0 |-> FirstRound]
  <2>1. D = [k \in 0 .. 0 |-> IF k = 0 THEN FirstRound ELSE NextRound(D[k - 1])]
    OBVIOUS
  <2>2. AreRounds(D, 0)
    BY <2>1 DEF AreRounds
  <2>. QED BY <2>2
<1>2. ASSUME NEW m \in Nat, m \in G PROVE m + 1 \in G
  <2>1. PICK D : AreRounds(D, m)
    BY <1>2
  <2>. DEFINE E == [k \in 0 .. m + 1 |-> IF k <= m THEN D[k] ELSE NextRound(D[m])]
  <2>2. \A k \in 0 .. m : E[k] = D[k]
    OBVIOUS
  <2>3. \A k \in 0 .. m : D[k] = IF k = 0 THEN FirstRound ELSE NextRound(D[k - 1])
    BY <2>1 DEF AreRounds
  <2>4. ASSUME NEW k \in 0 .. m + 1
        PROVE  E[k] = IF k = 0 THEN FirstRound ELSE NextRound(E[k - 1])
    <3>1. CASE k <= m
      BY <2>2, <2>3, <3>1
    <3>2. CASE k = m + 1
      BY <2>2, <3>2
    <3>. QED BY <3>1, <3>2
  <2>5. AreRounds(E, m + 1)
    <3>1. E = [k \in 0 .. m + 1 |-> E[k]]
      OBVIOUS
    <3>. HIDE DEF E
    <3>. QED BY <2>4, <3>1 DEF AreRounds
  <2>. HIDE DEF E
  <2>. QED BY <2>5
<1>3. n \in G
  <2>. HIDE DEF G
  <2>. QED BY <1>1, <1>2, NaturalInduction
<1>4. AreRounds(Rounds(n), n)
  BY <1>3 DEF Rounds
<1>. DEFINE R == Rounds(n)
<1>5. R = [k \in 0 .. n |-> IF k = 0 THEN FirstRound ELSE NextRound(R[k - 1])]
  BY <1>4 DEF AreRounds
<1>. HIDE DEF R
<1>6. R[0] = FirstRound
  BY <1>5
<1>7. ASSUME NEW k \in 0 .. n - 1 PROVE R[k + 1] = NextRound(R[k])
  <2>1. k + 1 \in 0 .. n /\ k + 1 # 0 /\ (k + 1) - 1 = k
    OBVIOUS
  <2>2. R[k + 1] = IF k + 1 = 0 THEN FirstRound ELSE NextRound(R[(k + 1) - 1])
    BY <1>5, <2>1, Zenon
  <2>. QED BY <2>1, <2>2
<1>. QED BY <1>6, <1>7 DEF R

LEMMA ShortestIsLastRound ==
    ShortestDistance = Rounds(Cardinality(Nodes))[Cardinality(Nodes)]
  BY Zenon DEF ShortestDistance, Rounds, AreRounds, FirstRound, NextRound, Offered

(* A round offers a node the best of what it has and what its neighbours    *)
(* offer.                                                                   *)
LEMMA NextRoundFacts ==
    ASSUME NEW d \in [Nodes -> Nat], NEW i \in Nodes
    PROVE  /\ NextRound(d)[i] \in Nat
           /\ NextRound(d)[i] <= d[i]
           /\ \A j \in Neighbours(i) : NextRound(d)[i] <= d[j] + Weight[<<j, i>>]
           /\ \/ NextRound(d)[i] = d[i]
              \/ \E j \in Neighbours(i) : NextRound(d)[i] = d[j] + Weight[<<j, i>>]
<1>1. ASSUME NEW j \in Neighbours(i) PROVE d[j] + Weight[<<j, i>>] \in Nat
  <2>1. j \in Nodes
    BY EdgeFacts
  <2>2. Weight[<<j, i>>] \in Nat
    BY <2>1, NetworkAssumption
  <2>. QED BY <2>1, <2>2
<1>2. Offered(d, i) \subseteq Nat /\ d[i] \in Offered(d, i)
  BY <1>1 DEF Offered
<1>3. \E m \in Offered(d, i) : \A n \in Offered(d, i) : m <= n
  BY <1>2, LeastNatural
<1>4. /\ Min(Offered(d, i)) \in Offered(d, i)
      /\ \A n \in Offered(d, i) : Min(Offered(d, i)) <= n
  BY <1>3 DEF Min
<1>5. NextRound(d)[i] = Min(Offered(d, i))
  BY DEF NextRound
<1>6. \A j \in Neighbours(i) : d[j] + Weight[<<j, i>>] \in Offered(d, i)
  BY DEF Offered
<1>7. \A n \in Offered(d, i) : \/ n = d[i]
                               \/ \E j \in Neighbours(i) : n = d[j] + Weight[<<j, i>>]
  BY DEF Offered
<1>. QED BY <1>2, <1>4, <1>5, <1>6, <1>7

(* Distances that satisfy the Bellman equations are the shortest ones.  A   *)
(* round never goes below them, since every edge is relaxed; and it has     *)
(* reached every node with at most n nodes nearer to the source after n     *)
(* rounds, since the parent of a node is one of those nearer than it.       *)
LEMMA TreeIsShortest ==
    ASSUME TypeOK, IsShortestPathTree
    PROVE  distance = ShortestDistance
<1>. DEFINE N == Cardinality(Nodes)
            R == Rounds(N)
            Nearer(i) == {k \in Nodes : distance[k] < distance[i]}
            Rank(i) == Cardinality(Nearer(i))
            Close(n) == /\ R[n] \in [Nodes -> Nat]
                        /\ \A i \in Nodes : /\ distance[i] <= R[n][i]
                                            /\ R[n][i] <= Infinity
                                            /\ Rank(i) <= n => R[n][i] <= distance[i]
            G == {n \in Nat : n <= N => Close(n)}
<1>1. N \in Nat /\ Source \in Nodes /\ Infinity \in Nat \ {0}
  BY NetworkAssumption, FS_CardinalityType
<1>2. \A i \in Nodes : distance[i] \in Nat /\ distance[i] <= Infinity
  BY <1>1 DEF TypeOK
<1>3. \A i \in Nodes : IsFiniteSet(Nearer(i)) /\ Rank(i) \in Nat /\ Rank(i) <= N
  BY NetworkAssumption, FS_Subset, FS_CardinalityType
<1>4. ASSUME NEW i \in Nodes, NEW k \in Nodes, distance[k] < distance[i]
      PROVE  Rank(k) < Rank(i)
  <2>1. Nearer(k) \in SUBSET Nearer(i) /\ k \in Nearer(i) /\ k \notin Nearer(k)
    BY <1>2, <1>4
  <2>2. Rank(k) <= Rank(i) /\ (Rank(i) = Rank(k) => Nearer(i) = Nearer(k))
    <3>. HIDE DEF Nearer
    <3>. QED BY <1>3, <2>1, FS_Subset
  <2>. QED BY <1>3, <2>1, <2>2
<1>5. /\ R[0] = FirstRound
      /\ \A n \in 0 .. N - 1 : R[n + 1] = NextRound(R[n])
  <2>. HIDE DEF N
  <2>. QED BY <1>1, RoundsFacts
<1>6. ASSUME NEW i \in Nodes \ {Source}, distance[i] < Infinity
      PROVE  /\ parent[i] \in Neighbours(i) /\ parent[i] \in Nodes
             /\ distance[i] = distance[parent[i]] + Weight[<<parent[i], i>>]
             /\ distance[parent[i]] < distance[i]
             /\ Rank(parent[i]) < Rank(i)
  <2>1. /\ parent[i] \in Neighbours(i) /\ parent[i] \in Nodes
        /\ distance[i] = distance[parent[i]] + Weight[<<parent[i], i>>]
    BY <1>6, EdgeFacts DEF IsShortestPathTree
  <2>2. Weight[<<parent[i], i>>] \in Nat \ {0}
    BY <2>1, EdgeFacts
  <2>3. distance[parent[i]] < distance[i]
    BY <1>2, <2>1, <2>2
  <2>. HIDE DEF Rank
  <2>. QED BY <1>4, <2>1, <2>3
<1>. HIDE DEF N, R, Rank
<1>7. 0 \in G
  <2>1. R[0] \in [Nodes -> Nat]
    BY <1>1, <1>5 DEF FirstRound
  <2>2. ASSUME NEW i \in Nodes
        PROVE  /\ distance[i] <= R[0][i] /\ R[0][i] <= Infinity
               /\ Rank(i) <= 0 => R[0][i] <= distance[i]
    <3>1. CASE i = Source
      BY <1>1, <1>5, <3>1 DEF FirstRound, IsShortestPathTree
    <3>2. CASE i # Source
      <4>1. R[0][i] = Infinity
        BY <1>5, <3>2 DEF FirstRound
      <4>2. CASE distance[i] < Infinity
        <5>1. Rank(parent[i]) < Rank(i) /\ Rank(parent[i]) \in Nat /\ Rank(i) \in Nat
          BY <1>3, <1>6, <3>2, <4>2
        <5>. QED BY <1>1, <1>2, <4>1, <5>1
      <4>3. CASE distance[i] = Infinity
        BY <1>1, <4>1, <4>3
      <4>. QED BY <1>1, <1>2, <4>2, <4>3
    <3>. QED BY <3>1, <3>2
  <2>. QED BY <2>1, <2>2
<1>8. ASSUME NEW n \in Nat, n \in G PROVE n + 1 \in G
  <2>1. SUFFICES ASSUME n + 1 <= N PROVE Close(n + 1)
    OBVIOUS
  <2>2. Close(n) /\ n \in 0 .. N - 1
    BY <1>1, <1>8, <2>1
  <2>. DEFINE d == R[n]
              e == R[n + 1]
  <2>3. e = NextRound(d) /\ d \in [Nodes -> Nat]
    BY <1>5, <2>2
  <2>4. \A i \in Nodes : /\ distance[i] <= d[i] /\ d[i] <= Infinity
                         /\ Rank(i) <= n => d[i] <= distance[i]
    BY <2>2
  <2>. HIDE DEF d, e, G
  <2>5. e \in [Nodes -> Nat]
    <3>1. \A i \in Nodes : e[i] \in Nat
      BY <2>3, NextRoundFacts
    <3>. QED BY <2>3, <3>1 DEF NextRound
  <2>6. ASSUME NEW i \in Nodes
        PROVE  /\ distance[i] <= e[i] /\ e[i] <= Infinity
               /\ Rank(i) <= n + 1 => e[i] <= distance[i]
    <3>1. /\ e[i] \in Nat /\ e[i] <= d[i]
          /\ \A j \in Neighbours(i) : e[i] <= d[j] + Weight[<<j, i>>]
          /\ \/ e[i] = d[i]
             \/ \E j \in Neighbours(i) : e[i] = d[j] + Weight[<<j, i>>]
      BY <2>3, NextRoundFacts
    <3>2. distance[i] <= e[i]
      <4>1. ASSUME NEW j \in Neighbours(i), e[i] = d[j] + Weight[<<j, i>>]
            PROVE  distance[i] <= e[i]
        <5>1. j \in Nodes /\ <<j, i>> \in Edges /\ Weight[<<j, i>>] \in Nat
          BY EdgeFacts, NetworkAssumption
        <5>2. distance[i] <= distance[j] + Weight[<<j, i>>]
          BY <5>1 DEF IsShortestPathTree, Relaxed
        <5>3. distance[j] <= d[j] /\ d[j] \in Nat
          BY <2>3, <2>4, <5>1
        <5>. QED BY <1>2, <4>1, <5>1, <5>2, <5>3
      <4>. QED BY <2>4, <3>1, <4>1
    <3>3. e[i] <= Infinity
      BY <1>1, <2>3, <2>4, <3>1
    <3>4. ASSUME Rank(i) <= n + 1 PROVE e[i] <= distance[i]
      <4>1. CASE i # Source /\ distance[i] < Infinity
        <5>. DEFINE p == parent[i]
        <5>1. /\ p \in Neighbours(i) /\ p \in Nodes /\ Rank(p) < Rank(i)
              /\ distance[i] = distance[p] + Weight[<<p, i>>]
          BY <1>6, <4>1
        <5>2. Weight[<<p, i>>] \in Nat
          BY <5>1, NetworkAssumption
        <5>. HIDE DEF p
        <5>3. d[p] <= distance[p] /\ d[p] \in Nat
          <6>1. Rank(p) \in Nat /\ Rank(i) \in Nat
            BY <1>3, <5>1
          <6>2. Rank(p) <= n
            BY <3>4, <5>1, <6>1
          <6>. QED BY <2>3, <2>4, <5>1, <6>2
        <5>4. e[i] <= d[p] + Weight[<<p, i>>]
          BY <3>1, <5>1
        <5>. QED BY <1>2, <3>1, <5>1, <5>2, <5>3, <5>4
      <4>2. CASE distance[i] = Infinity
        BY <3>3, <4>2
      <4>3. CASE i = Source
        <5>1. \A k \in Nodes : Rank(k) \in Nat
          BY <1>3
        <5>2. Nearer(Source) = {}
          BY <1>2 DEF IsShortestPathTree
        <5>3. Rank(i) = 0
          BY <4>3, <5>2, FS_EmptySet DEF Rank
        <5>. QED BY <1>2, <2>3, <2>4, <3>1, <4>3, <5>3
      <4>. QED BY <1>1, <1>2, <4>1, <4>2, <4>3
    <3>. QED BY <3>2, <3>3, <3>4
  <2>. QED BY <2>5, <2>6 DEF e
<1>9. N \in G
  <2>. HIDE DEF G
  <2>. QED BY <1>1, <1>7, <1>8, NaturalInduction
<1>10. Close(N)
  BY <1>1, <1>9
<1>11. ShortestDistance = R[N]
  BY ShortestIsLastRound DEF R, N
<1>12. ASSUME NEW i \in Nodes PROVE distance[i] = R[N][i]
  <2>1. R[N][i] \in Nat /\ distance[i] <= R[N][i] /\ R[N][i] <= distance[i]
    BY <1>3, <1>10
  <2>. HIDE DEF Close, G
  <2>. QED BY <1>2, <2>1
<1>13. distance \in [Nodes -> 0 .. Infinity] /\ R[N] \in [Nodes -> Nat]
  BY <1>10 DEF TypeOK
<1>14. distance = R[N]
  <2>. DEFINE r == R[N]
  <2>. HIDE DEF r
  <2>1. \A i \in Nodes : distance[i] = r[i]
    BY <1>12 DEF r
  <2>2. distance \in [Nodes -> 0 .. Infinity] /\ r \in [Nodes -> Nat]
    BY <1>13 DEF r
  <2>3. distance = r
    BY <2>1, <2>2
  <2>. QED BY <2>3 DEF r
<1>. QED BY <1>11, <1>14

(* Whenever no update is under way and no node has left its loop, the       *)
(* estimates are the lengths of the shortest paths: the convergence of      *)
(* Bellman-Ford, in every network and whatever the order of the messages.   *)
THEOREM QuiescentDistances == Spec => [](Quiescent => distance = ShortestDistance)
<1>1. TypeOK /\ QuiescentIsShortest => (Quiescent => distance = ShortestDistance)
  BY TreeIsShortest DEF QuiescentIsShortest
<1>. QED BY <1>1, TypeCorrect, QuiescenceIsCorrect, PTL

(* Only a shorter way changes an estimate.                                  *)
LEMMA NeverGrows ==
    ASSUME TypeOK, [Next]_vars PROVE \A n \in Nodes : distance'[n] <= distance[n]
<1>1. distance \in [Nodes -> 0 .. Infinity] /\ Infinity \in Nat /\ Source \in Nodes
  BY NetworkAssumption DEF TypeOK
<1>2. CASE UNCHANGED distance
  BY <1>1, <1>2
<1>3. CASE CalculateShortestPaths
  <2>1. distance' = [distance EXCEPT ![Source] = 0]
    BY <1>3 DEF CalculateShortestPaths
  <2>. QED BY <1>1, <2>1
<1>4. ASSUME NEW i \in Nodes, NEW j \in Nodes, UpdateImproves(i, j)
      PROVE  \A n \in Nodes : distance'[n] <= distance[n]
  <2>. DEFINE d == DistanceThrough(i, j)
              s == chan[<<j, i>>]
  <2>1. distance' = [distance EXCEPT ![i] = d] /\ d < distance[i]
    BY <1>4 DEF UpdateImproves, Improves
  <2>2. d \in Nat
    <3>1. /\ s # <<>> /\ Head(s).type = "update" /\ s \in Seq(Message)
          /\ <<i, j>> \in Edges
      BY <1>4, EdgeFacts DEF UpdateImproves, Receives, TypeOK
    <3>2. Head(s) \in Message
      <4>. HIDE DEF s
      <4>. QED BY <3>1
    <3>3. Head(s).w \in 0 .. Infinity
      BY <3>1, <3>2, MessageFacts
    <3>4. Weight[<<i, j>>] \in Nat
      BY <3>1, EdgeFacts
    <3>. QED BY <1>1, <3>3, <3>4 DEF DistanceThrough
  <2>. HIDE DEF d
  <2>. QED BY <1>1, <2>1, <2>2
<1>5. \/ UNCHANGED distance \/ CalculateShortestPaths
      \/ \E i, j \in Nodes : UpdateImproves(i, j)
  BY ZenonT(60) DEF Next, NodeStep, UpdateRefused, AckCounted, AckCompletes, AckLost,
     SourceAck, AnswerToFinished, Drain, Join, Terminated, vars, estimates
<1>. QED BY <1>2, <1>3, <1>4, <1>5

(* In every network an estimate only ever gets shorter: answer_to_update    *)
(* (Node.cpp:187) takes nothing else, whatever the order of the updates.    *)
THEOREM EstimatesNeverGrow == Spec => [][\A n \in Nodes : distance'[n] <= distance[n]]_vars
<1>1. TypeOK /\ [Next]_vars => [\A n \in Nodes : distance'[n] <= distance[n]]_vars
  BY NeverGrows
<1>. QED BY <1>1, TypeCorrect, PTL DEF Spec
=============================================================================
