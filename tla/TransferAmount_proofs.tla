----------------------- MODULE TransferAmount_proofs -----------------------
(***************************************************************************)
(* Theorems about TransferAmount for every set of nodes, shortest paths,    *)
(* accounts and width of the amounts: the types, the invariant PhaseInv,    *)
(* the order in which the money moves, that no money is lost, that the      *)
(* protocol implements AccountsLedger, and that a call leaves nothing       *)
(* behind.                                                                  *)
(***************************************************************************)
EXTENDS TransferAmount, FiniteInduction

(* Sums and negations stay in the range of an unsigned long, and adding the *)
(* negation of a covered amount subtracts it (Node.cpp:306).                *)
LEMMA AmountFacts ==
    /\ \A x, y \in Amount : Plus(x, y) \in Amount /\ Minus(x) \in Amount
    /\ \A x, y \in Amount : y < x => Plus(x, Minus(y)) = x - y
  BY ModulusAssumption DEF Amount, Plus, Minus

(* The next node on the way is nearer to the receiving node, which is the   *)
(* only one that has none.                                                  *)
LEMMA PathFacts ==
  ASSUME TypeOK, Running
  PROVE  /\ call.to \in Nodes /\ call.from \in Nodes /\ call.amount \in Amounts
         /\ call.amount \in Amount /\ call.from # call.to
         /\ NextNode(call.to) = NoNode
         /\ \A i \in Nodes \ {call.to} :
               /\ NextNode(i) \in Nodes /\ NextNode(i) # i
               /\ Distance[call.to][NextNode(i)] < Distance[call.to][i]
         /\ \A i \in Nodes : Distance[call.to][i] \in Nat
<1>1. /\ call.to \in Nodes /\ call.from \in Nodes /\ call.amount \in Amounts
      /\ call.from # call.to
  BY DEF TypeOK
<1>2. call.amount \in Amount
  BY <1>1, PathsAssumption
<1>3. \A i \in Nodes : Distance[call.to][i] \in Nat
  BY <1>1, PathsAssumption
<1>4. NextNode(call.to) = NoNode
  BY <1>1, PathsAssumption DEF NextNode
<1>5. ASSUME NEW i \in Nodes \ {call.to}
      PROVE  /\ NextNode(i) \in Nodes
             /\ Distance[call.to][NextNode(i)] < Distance[call.to][i]
  BY <1>1, PathsAssumption DEF NextNode
<1>6. ASSUME NEW i \in Nodes \ {call.to} PROVE NextNode(i) # i
  BY <1>3, <1>5
<1>. QED BY <1>1, <1>2, <1>3, <1>4, <1>5, <1>6

(* Outside of a call no thread exists and nothing is posted. *)
LEMMA IdleFacts ==
  ASSUME TypeOK, ~ Running
  PROVE  spawned = {} /\ ~ posted
  BY DEF TypeOK

(* What a handler that takes the head of <<j, i>> and writes m to S leaves  *)
(* on the connections are messages.                                         *)
LEMMA AnswerType ==
  ASSUME TypeOK, NEW i \in Nodes, NEW j \in Nodes, NEW S, NEW m \in Message,
         chan[<<j, i>>] # <<>>, Answer(i, j, S, m)
  PROVE  chan' \in [Links -> Seq(Message)]
<1>1. chan \in [Links -> Seq(Message)]
  BY DEF TypeOK
<1>2. ASSUME NEW e \in Links
      PROVE  (IF e = <<j, i>> THEN Tail(chan[e])
              ELSE IF e[1] = i /\ e[2] \in S THEN Append(chan[e], m)
              ELSE chan[e]) \in Seq(Message)
  <2>1. chan[e] \in Seq(Message)
    BY <1>1
  <2>2. e = <<j, i>> => Tail(chan[e]) \in Seq(Message)
    BY <2>1
  <2>3. Append(chan[e], m) \in Seq(Message)
    BY <2>1
  <2>. QED BY <2>1, <2>2, <2>3
<1>. QED BY <1>2 DEF Answer

(* A message that is read belongs to a running call. *)
LEMMA ReadFacts ==
  ASSUME TypeOK, NEW i \in Nodes, NEW j \in Nodes, NEW t, Receives(i, j, t)
  PROVE  /\ Running
         /\ i \in spawned /\ ~ interrupt[i]
         /\ chan[<<j, i>>] # <<>>
         /\ Head(chan[<<j, i>>]) \in Message
         /\ Head(chan[<<j, i>>]).type = t
         /\ chan[<<j, i>>] \in Seq(Message)
<1>1. chan[<<j, i>>] \in Seq(Message) /\ chan[<<j, i>>] # <<>>
  BY DEF TypeOK, Receives, Links
<1>2. Head(chan[<<j, i>>]) \in Message
  BY <1>1
<1>. QED BY <1>1, <1>2, IdleFacts DEF Receives

(* The two kinds of messages differ. *)
LEMMA MessageFacts ==
    /\ Finished \in Message
    /\ Finished.type = "finished"
    /\ \A a \in Amounts : Transfer(a) \in Message /\ Transfer(a).type = "transfer_amount"
                          /\ Transfer(a).amount = a
    /\ \A m \in Message : /\ m.type = "transfer_amount" => m.amount \in Amounts
                          /\ m.type = "finished" => m = Finished
    /\ \A a : Transfer(a) # Finished
  BY DEF Message, Transfer, Finished

(* The threads of a new call start from these. *)
LEMMA FreshTypes ==
    /\ Nobody \in [Nodes -> SUBSET Nodes]
    /\ Never \in [Nodes -> BOOLEAN]
    /\ Zero \in [Nodes -> Nat]
    /\ Silent \in [Links -> Seq(Message)]
  BY DEF Nobody, Never, Zero, Silent
----------------------------------------------------------------------------
(* The session starts with the credits of the accounts file. *)
LEMMA InitTypeOK == Init => TypeOK
<1>1. InitialCredit \in [Nodes -> Amount] /\ MaxCalls \in Nat
  BY PathsAssumption
<1>2. SUFFICES ASSUME Init PROVE TypeOK
  OBVIOUS
<1>3. ~ Running /\ calls \in 0 .. MaxCalls /\ pc = "session"
  BY <1>1, <1>2 DEF Init, Running
<1>4. /\ credit \in [Nodes -> Amount] /\ opening \in [Nodes -> Amount]
      /\ spawned = {} /\ closed = {} /\ posted = FALSE /\ announced = FALSE
      /\ adj_edges = Nobody /\ writers = Nobody /\ counter_finished = Zero
      /\ transfering_account = Never /\ finished = Never /\ interrupt = Never
      /\ joined = Never /\ chan = Silent
      /\ previous = NoNode /\ current = NoNode /\ following = NoNode
  BY <1>1, <1>2 DEF Init
<1>. QED BY <1>3, <1>4, FreshTypes DEF TypeOK

(* Main's steps keep the types.  The walk stays among the nodes: it stops   *)
(* at the receiving node, the only one with nothing to follow.              *)
LEMMA MainTypeOK ==
  ASSUME TypeOK, PhaseInv,
         \/ \E f, t \in Nodes, a \in Amounts : Begin(f, t, a)
         \/ CallStep
  PROVE  TypeOK'
<1>. USE FreshTypes
<1>1. ASSUME NEW f \in Nodes, NEW t \in Nodes, NEW a \in Amounts, Begin(f, t, a)
      PROVE  TypeOK'
  <2>1. Parent[t][f] \in Nodes \cup {NoNode}
    BY PathsAssumption
  <2>2. pc' = "walk" /\ call' \in [from : Nodes, to : Nodes, amount : Amounts]
        /\ call'.from # call'.to
    BY <1>1 DEF Begin
  <2>. QED BY <1>1, <2>1, <2>2 DEF Begin, TypeOK, Running, threads
<1>2. ASSUME Spawn, current \in Nodes
      PROVE  spawned' \subseteq Nodes /\ adj_edges' \in [Nodes -> SUBSET Nodes]
  BY <1>2 DEF Spawn, TypeOK
<1>3. ASSUME SpawnOnPath PROVE TypeOK'
  <2>1. Running /\ current \in Nodes \ {call.to} /\ following = NextNode(current)
    BY <1>3 DEF SpawnOnPath, PhaseInv, WalkInv, Running
  <2>2. following \in Nodes /\ call.to \in Nodes
    BY <2>1, PathFacts
  <2>3. NextNode(following) \in Nodes \cup {NoNode}
    BY <2>2, PathsAssumption DEF NextNode
  <2>4. Running' /\ pc' \in {"walk", "last"}
    BY <1>3 DEF SpawnOnPath, Running
  <2>5. spawned' \subseteq Nodes /\ adj_edges' \in [Nodes -> SUBSET Nodes]
    BY <1>2, <1>3, <2>1 DEF SpawnOnPath
  <2>. QED BY <1>3, <2>1, <2>2, <2>3, <2>4, <2>5 DEF SpawnOnPath, TypeOK, threads
<1>4. ASSUME SpawnLast PROVE TypeOK'
  <2>1. Running /\ current = call.to
    BY <1>4 DEF SpawnLast, PhaseInv, WalkInv, Running
  <2>2. current \in Nodes
    BY <2>1, PathFacts
  <2>3. spawned' \subseteq Nodes /\ adj_edges' \in [Nodes -> SUBSET Nodes]
    BY <1>2, <1>4, <2>2 DEF SpawnLast
  <2>4. Running'
    BY <1>4 DEF SpawnLast, Running
  <2>. QED BY <1>4, <2>1, <2>3, <2>4 DEF SpawnLast, TypeOK, walk, threads
<1>5. ASSUME Post PROVE TypeOK'
  BY <1>5 DEF Post, TypeOK, Running, walk
<1>6. ASSUME Announce PROVE TypeOK'
  BY <1>6 DEF Announce, TypeOK, Running, walk, threads
<1>7. ASSUME Return PROVE TypeOK'
  <2>1. Running /\ call.from \in spawned /\ pc = "join"
    BY <1>7 DEF Return, PhaseInv, WalkInv, Running
  <2>2. interrupt[call.from]
    BY <1>7, <2>1, PathFacts DEF Return, AllJoined, PhaseInv
  <2>3. ~ posted
    BY <2>1, <2>2, PathFacts DEF PhaseInv, Started, Untouched, Never
  <2>4. calls' \in 0 .. MaxCalls
    <3>1. calls < MaxCalls /\ calls \in 0 .. MaxCalls
      BY <2>1 DEF PhaseInv, TypeOK
    <3>2. MaxCalls \in Nat
      BY PathsAssumption
    <3>. QED BY <1>7, <3>1, <3>2 DEF Return
  <2>5. ~ Running' /\ spawned' = {} /\ ~ posted'
    BY <1>7, <2>3 DEF Return, Running
  <2>. QED BY <1>7, <2>4, <2>5 DEF Return, TypeOK, walk
<1>. QED BY <1>1, <1>3, <1>4, <1>5, <1>6, <1>7 DEF CallStep

(* The steps of the node threads keep the types. *)
LEMMA NodeTypeOK ==
  ASSUME TypeOK, NEW i \in Nodes,
         \/ StartTransfer(i)
         \/ Join(i)
         \/ \E j \in Nodes : NodeStep(i, j)
  PROVE  TypeOK'
<1>1. ASSUME StartTransfer(i) PROVE TypeOK'
  <2>1. Running /\ i = call.from
    BY <1>1, IdleFacts DEF StartTransfer
  <2>2. NextNode(i) \in Nodes /\ Transfer(call.amount) \in Message
    BY <2>1, PathFacts, MessageFacts
  <2>3. chan' \in [Links -> Seq(Message)]
    BY <1>1, <2>2 DEF StartTransfer, TypeOK, Links
  <2>4. Running'
    BY <1>1, <2>1 DEF StartTransfer, Running, main
  <2>. QED BY <1>1, <2>1, <2>2, <2>3, <2>4 DEF StartTransfer, TypeOK, main, walk
<1>2. ASSUME Join(i) PROVE TypeOK'
  <2>1. Running
    BY <1>2, IdleFacts DEF Join
  <2>2. Running'
    BY <1>2, <2>1 DEF Join, Running, main
  <2>. QED BY <1>2, <2>1, <2>2 DEF Join, TypeOK, main, walk
<1>3. ASSUME NEW j \in Nodes, RelayTransfer(i, j) PROVE TypeOK'
  <2>1. Running /\ Head(chan[<<j, i>>]) \in Message /\ chan[<<j, i>>] # <<>>
    BY <1>3, ReadFacts DEF RelayTransfer
  <2>2. NextNode(i) \in Nodes
    BY <1>3, <2>1, PathFacts DEF RelayTransfer
  <2>3. chan' \in [Links -> Seq(Message)]
    BY <1>3, <2>1, AnswerType DEF RelayTransfer
  <2>4. Running'
    BY <1>3, <2>1 DEF RelayTransfer, Running, main
  <2>. QED BY <1>3, <2>1, <2>2, <2>3, <2>4 DEF RelayTransfer, TypeOK, main, walk
<1>4. ASSUME NEW j \in Nodes, ReceivePayment(i, j) PROVE TypeOK'
  <2>1. /\ Running /\ Head(chan[<<j, i>>]) \in Message /\ chan[<<j, i>>] # <<>>
        /\ Head(chan[<<j, i>>]).type = "transfer_amount"
    BY <1>4, ReadFacts DEF ReceivePayment
  <2>2. Head(chan[<<j, i>>]).amount \in Amount
    BY <2>1, MessageFacts, PathsAssumption
  <2>3. credit' \in [Nodes -> Amount]
    BY <1>4, <2>2, AmountFacts DEF ReceivePayment, TypeOK
  <2>4. chan' \in [Links -> Seq(Message)]
    BY <1>4, <2>1, AnswerType, MessageFacts DEF ReceivePayment
  <2>5. Running'
    BY <1>4, <2>1 DEF ReceivePayment, Running, main
  <2>. QED BY <1>4, <2>1, <2>3, <2>4, <2>5, SMTT(60) DEF ReceivePayment, TypeOK, main, walk
<1>5. ASSUME NEW j \in Nodes, AnswerToFinished(i, j) PROVE TypeOK'
  <2>1. Running /\ chan[<<j, i>>] # <<>>
    BY <1>5, ReadFacts DEF AnswerToFinished
  <2>2. Settled(i) \in Amount
    BY <2>1, PathFacts, AmountFacts DEF Settled, TypeOK
  <2>3. credit' \in [Nodes -> Amount]
    BY <1>5, <2>2 DEF AnswerToFinished, TypeOK
  <2>4. chan' \in [Links -> Seq(Message)]
    BY <1>5, <2>1, AnswerType, MessageFacts DEF AnswerToFinished
  <2>5. Running'
    BY <1>5, <2>1 DEF AnswerToFinished, Running, main
  <2>6. interrupt' \in [Nodes -> BOOLEAN] /\ counter_finished' \in [Nodes -> Nat]
        /\ finished' \in [Nodes -> BOOLEAN] /\ closed' \subseteq Links
    BY <1>5 DEF AnswerToFinished, TypeOK, Links
  <2>. QED BY <1>5, <2>1, <2>3, <2>4, <2>5, <2>6 DEF AnswerToFinished, TypeOK, main, walk
<1>. QED BY <1>1, <1>2, <1>3, <1>4, <1>5 DEF NodeStep

(* Every step keeps the types. *)
LEMMA NextTypeOK == TypeOK /\ PhaseInv /\ [Next]_vars => TypeOK'
<1>1. SUFFICES ASSUME TypeOK, PhaseInv, [Next]_vars PROVE TypeOK'
  OBVIOUS
<1>2. ASSUME UNCHANGED vars PROVE TypeOK'
  <2>1. /\ UNCHANGED <<calls, pc, call, previous, current, following, announced>>
        /\ UNCHANGED <<opening, spawned, adj_edges, posted, credit, writers>>
        /\ UNCHANGED <<transfering_account, finished, counter_finished>>
        /\ UNCHANGED <<interrupt, chan, closed, joined>>
    BY <1>2 DEF vars, main, walk, threads
  <2>. QED BY <1>1, <2>1 DEF TypeOK, Running
<1>. QED BY <1>1, <1>2, MainTypeOK, NodeTypeOK DEF Next
----------------------------------------------------------------------------
(* Which message a node can find on a connection in which phase.            *)
LEMMA PhaseOfMessage ==
  ASSUME TypeOK, PhaseInv, NEW i \in Nodes, NEW j \in Nodes, NEW t,
         Receives(i, j, t)
  PROVE  /\ Started
         /\ t = "transfer_amount" =>
               /\ j # call.to /\ SentBy(j) /\ i = NextNode(j)
               /\ Head(chan[<<j, i>>]) = Transfer(call.amount)
               /\ finished = Never /\ interrupt = Never /\ counter_finished = Zero
         /\ t = "finished" => Homeward
<1>1. /\ Running /\ chan[<<j, i>>] # <<>> /\ chan[<<j, i>>] \in Seq(Message)
      /\ Head(chan[<<j, i>>]).type = t /\ <<j, i>> \in Links
  BY ReadFacts DEF Links
<1>2. Started
  BY <1>1 DEF PhaseInv, Untouched, Silent
<1>3. Outward \/ Homeward
  BY <1>2 DEF PhaseInv
<1>4. ASSUME NEW k \in Nodes \ {call.to}, SentBy(k)
      PROVE  /\ k = j /\ i = NextNode(j)
             /\ chan[<<j, i>>] = <<Transfer(call.amount)>>
  <2>1. <<k, NextNode(k)>> \in Links
    BY <1>1, PathFacts DEF Links
  <2>2. <<j, i>> = <<k, NextNode(k)>>
    BY <1>1, <1>4, <2>1 DEF SentBy, Silent
  <2>. QED BY <1>4, <2>1, <2>2 DEF SentBy, Silent
<1>5. Homeward => t = "finished"
  <2>1. Homeward => Head(chan[<<j, i>>]) = Finished
    <3>1. 1 \in DOMAIN chan[<<j, i>>] /\ Head(chan[<<j, i>>]) = chan[<<j, i>>][1]
      BY <1>1
    <3>. QED BY <1>1, <3>1 DEF Homeward
  <2>. QED BY <1>1, <2>1, MessageFacts
<1>6. ASSUME Outward
      PROVE  /\ j # call.to /\ SentBy(j) /\ i = NextNode(j)
             /\ Head(chan[<<j, i>>]) = Transfer(call.amount)
             /\ finished = Never /\ interrupt = Never /\ counter_finished = Zero
             /\ t = "transfer_amount"
  <2>1. PICK k \in Nodes \ {call.to} : SentBy(k)
    BY <1>6 DEF Outward
  <2>2. k = j /\ i = NextNode(j) /\ chan[<<j, i>>] = <<Transfer(call.amount)>>
    BY <2>1, <1>4
  <2>3. Head(chan[<<j, i>>]) = Transfer(call.amount)
    BY <2>2
  <2>4. t = "transfer_amount"
    BY <1>1, <2>3, PathFacts, MessageFacts
  <2>. QED BY <1>6, <2>1, <2>2, <2>3, <2>4 DEF Outward
<1>. QED BY <1>2, <1>3, <1>5, <1>6

(* Before the first call every thread is as constructed. *)
LEMMA InitPhaseInv == Init => PhaseInv
<1>1. SUFFICES ASSUME Init PROVE PhaseInv
  OBVIOUS
<1>2. ~ Running /\ ~ posted /\ ~ Started /\ pc = "session"
  BY <1>1 DEF Init, Running, Started
<1>3. Untouched /\ \A i \in Nodes : ~ joined[i]
  BY <1>1 DEF Init, Untouched, Never
<1>. QED BY <1>2, <1>3 DEF PhaseInv, WalkInv

(* A step that leaves alone everything the phases speak of, except main's   *)
(* place in the call.                                                       *)
LEMMA SamePhase ==
  ASSUME PhaseInv, Started' <=> Started, call' = call,
         UNCHANGED <<writers, transfering_account, finished, interrupt,
                     counter_finished, chan>>
  PROVE  /\ ~ Started' => Untouched'
         /\ Started' => /\ transfering_account' = [i \in Nodes |-> i = call'.from]
                        /\ writers'[call'.from] = {NextNode(call.from)}
                        /\ NextNode(call.from)' = NextNode(call.from)
                        /\ Outward' \/ Homeward'
<1>1. NextNode(call.from)' = NextNode(call.from)
  BY DEF NextNode
<1>2. ~ Started' => Untouched'
  BY DEF PhaseInv, Untouched
<1>3. ASSUME Outward PROVE Outward'
  <2>1. PICK j \in Nodes \ {call.to} : SentBy(j)
    BY <1>3 DEF Outward
  <2>2. SentBy(j)'
    BY <2>1 DEF SentBy, NextNode
  <2>. QED BY <1>3, <2>1, <2>2 DEF Outward
<1>4. ASSUME Homeward PROVE Homeward'
  BY <1>4 DEF Homeward, Credited, Debited
<1>. QED BY <1>1, <1>2, <1>3, <1>4 DEF PhaseInv

(* A new call starts its walk at the paying node, with untouched threads.   *)
LEMMA BeginPhaseInv ==
  ASSUME TypeOK, PhaseInv, NEW f \in Nodes, NEW t \in Nodes, NEW a \in Amounts,
         Begin(f, t, a)
  PROVE  PhaseInv'
<1>1. /\ ~ Running /\ ~ Started /\ ~ posted /\ spawned = {}
      /\ pc' = "walk" /\ call' = [from |-> f, to |-> t, amount |-> a]
      /\ current' = f /\ following' = Parent[t][f] /\ f # t
      /\ opening' = credit /\ a < credit[f] /\ calls' = calls /\ calls < MaxCalls
      /\ spawned' = spawned /\ posted' = posted
  BY IdleFacts DEF Begin, Running, Started, Covered, threads
<1>2. ~ Started'
  BY <1>1 DEF Started
<1>3. Untouched'
  BY <1>1 DEF Begin, threads, PhaseInv, Untouched
<1>4. following' = NextNode(current)'
  BY <1>1 DEF NextNode
<1>5. WalkInv'
  BY <1>1, <1>4 DEF WalkInv
<1>6. \A i \in Nodes : joined'[i] => interrupt'[i]
  BY DEF Begin, threads, PhaseInv
<1>. QED BY <1>1, <1>2, <1>3, <1>5, <1>6 DEF PhaseInv

(* The walk: the next node is nearer than all that have a thread.           *)
LEMMA WalkPhaseInv ==
  ASSUME TypeOK, PhaseInv, SpawnOnPath \/ SpawnLast
  PROVE  PhaseInv'
<1>1. /\ Running /\ ~ Started /\ ~ Started' /\ ~ posted /\ ~ posted'
      /\ call' = call /\ opening' = opening /\ calls' = calls
      /\ spawned' = spawned \cup {current}
      /\ pc \in {"walk", "last"}
  BY DEF SpawnOnPath, SpawnLast, Spawn, Running, Started, threads, PhaseInv
<1>2. Untouched'
  BY <1>1 DEF SpawnOnPath, SpawnLast, threads, PhaseInv, Untouched
<1>3. \A i \in Nodes : joined'[i] => interrupt'[i]
  BY DEF SpawnOnPath, SpawnLast, threads, PhaseInv
<1>4. ASSUME SpawnOnPath PROVE WalkInv'
  <2>1. /\ current \in Nodes \ {call.to} /\ following = NextNode(current)
        /\ current = call.from \/ call.from \in spawned
        /\ \A i \in spawned : Distance[call.to][current] < Distance[call.to][i]
    BY <1>4 DEF SpawnOnPath, PhaseInv, WalkInv
  <2>2. /\ following \in Nodes
        /\ Distance[call.to][following] < Distance[call.to][current]
        /\ \A i \in Nodes : Distance[call.to][i] \in Nat
    BY <1>1, <2>1, PathFacts
  <2>3. /\ current' = following /\ following' = NextNode(following)
        /\ pc' = IF following = call.to THEN "last" ELSE "walk"
    BY <1>4 DEF SpawnOnPath
  <2>4. following' = NextNode(current)'
    BY <1>1, <2>3 DEF NextNode
  <2>5. call'.from \in spawned'
    BY <1>1, <2>1
  <2>6. spawned \subseteq Nodes
    BY DEF TypeOK
  <2>7. \A i \in spawned' : Distance[call'.to][current'] < Distance[call'.to][i]
    BY <1>1, <2>1, <2>2, <2>3, <2>6
  <2>. QED BY <1>1, <2>2, <2>3, <2>4, <2>5, <2>7 DEF WalkInv
<1>5. ASSUME SpawnLast PROVE WalkInv'
  BY <1>1, <1>5 DEF SpawnLast, PhaseInv, WalkInv
<1>. QED BY <1>1, <1>2, <1>3, <1>4, <1>5 DEF PhaseInv, Running

(* Posting, announcing and returning.  Main returns when the paying node    *)
(* has ended, so that its message is no longer in the queue.                *)
LEMMA ReturnPhaseInv ==
  ASSUME TypeOK, PhaseInv, Post \/ Announce \/ Return
  PROVE  PhaseInv'
<1>1. ASSUME Post PROVE PhaseInv'
  <2>1. ~ Started /\ ~ Started' /\ Running /\ pc' = "announce" /\ pc = "post"
    BY <1>1 DEF Post, Started, Running
  <2>2. Untouched'
    BY <1>1, <2>1 DEF Post, PhaseInv, Untouched
  <2>3. WalkInv'
    BY <1>1, <2>1 DEF Post, PhaseInv, WalkInv, walk
  <2>. QED BY <1>1, <2>1, <2>2, <2>3 DEF Post, PhaseInv, Running
<1>2. ASSUME Announce PROVE PhaseInv'
  <2>1. /\ Started' <=> Started
        /\ Running /\ pc' = "join" /\ pc = "announce"
        /\ call' = call /\ posted' = posted /\ opening' = opening /\ calls' = calls
        /\ spawned' = spawned
        /\ UNCHANGED <<writers, transfering_account, finished, interrupt,
                       counter_finished, chan, joined>>
    BY <1>2 DEF Announce, Started, Running, threads
  <2>2. WalkInv'
    BY <2>1 DEF PhaseInv, WalkInv
  <2>3. /\ ~ Started' => Untouched'
        /\ Started' => /\ transfering_account' = [i \in Nodes |-> i = call'.from]
                       /\ writers'[call'.from] = {NextNode(call.from)}
                       /\ NextNode(call.from)' = NextNode(call.from)
                       /\ Outward' \/ Homeward'
    BY <2>1, SamePhase
  <2>. QED BY <2>1, <2>2, <2>3 DEF PhaseInv, Running
<1>3. ASSUME Return PROVE PhaseInv'
  <2>1. Running /\ call.from \in spawned /\ pc = "join"
    BY <1>3 DEF Return, PhaseInv, WalkInv, Running
  <2>2. interrupt[call.from]
    BY <1>3, <2>1, PathFacts DEF Return, AllJoined, PhaseInv
  <2>3. ~ posted
    BY <2>1, <2>2, PathFacts DEF PhaseInv, Started, Untouched, Never
  <2>4. pc' = "session" /\ ~ posted' /\ ~ Running' /\ ~ Started'
    BY <1>3, <2>3 DEF Return, Running, Started
  <2>5. Untouched' /\ joined' = Never
    BY <1>3 DEF Return, Untouched, Nobody, Never, Zero, Silent
  <2>6. \A i \in Nodes : ~ joined'[i]
    BY <2>5 DEF Never
  <2>7. WalkInv'
    BY <2>4 DEF WalkInv
  <2>. QED BY <2>4, <2>5, <2>6, <2>7 DEF PhaseInv
<1>. QED BY <1>1, <1>2, <1>3

(* The threads leave main alone. *)
LEMMA MainUnchanged ==
  ASSUME PhaseInv, UNCHANGED main
  PROVE  /\ UNCHANGED <<calls, pc, call, current, following, opening, spawned>>
         /\ Running' = Running
         /\ WalkInv'
         /\ Running' => call'.amount < opening'[call'.from] /\ calls' < MaxCalls
         /\ \A i : NextNode(i)' = NextNode(i)
<1>1. UNCHANGED <<calls, pc, call, current, following, opening, spawned>>
  BY DEF main, walk
<1>2. \A i : NextNode(i)' = NextNode(i)
  BY <1>1 DEF NextNode
<1>3. WalkInv'
  BY <1>1 DEF PhaseInv, WalkInv, NextNode
<1>. QED BY <1>1, <1>2, <1>3 DEF PhaseInv, Running

(* The paying node puts the amount on the first connection of the path.     *)
LEMMA StartPhaseInv ==
  ASSUME TypeOK, PhaseInv, NEW i \in Nodes, StartTransfer(i)
  PROVE  PhaseInv'
<1>1. /\ posted /\ ~ posted' /\ i = call.from /\ ~ Started /\ Running
      /\ UNCHANGED main
  BY IdleFacts DEF StartTransfer, Started
<1>2. Started'
  BY <1>1, MainUnchanged DEF PhaseInv, Started
<1>3. Untouched
  BY <1>1 DEF PhaseInv
<1>4. /\ i \in Nodes \ {call.to} /\ NextNode(i) \in Nodes
      /\ Distance[call.to][i] \in Nat /\ <<i, NextNode(i)>> \in Links
  BY <1>1, PathFacts DEF Links
<1>5. transfering_account' = [k \in Nodes |-> k = call'.from]
  BY <1>1, <1>3, <1>4, MainUnchanged DEF StartTransfer, Untouched, Never
<1>6. writers'[call'.from] = {NextNode(call.from)'}
  BY <1>1, <1>3, <1>4, MainUnchanged DEF StartTransfer, Untouched, Nobody
<1>7. chan' = [Silent EXCEPT ![<<i, NextNode(i)>>] = <<Transfer(call.amount)>>]
  <2>1. chan[<<i, NextNode(i)>>] = <<>>
    BY <1>3, <1>4 DEF Untouched, Silent
  <2>2. Append(chan[<<i, NextNode(i)>>], Transfer(call.amount)) = <<Transfer(call.amount)>>
    BY <2>1
  <2>. QED BY <1>3, <2>2 DEF StartTransfer, Untouched
<1>8. SentBy(i)'
  <2>1. Distance[call.to][i] <= Distance[call.to][call.from]
    BY <1>1, <1>4
  <2>2. call' = call /\ NextNode(i)' = NextNode(i)
    BY <1>1, MainUnchanged
  <2>. QED BY <1>7, <2>1, <2>2 DEF SentBy
<1>9. Outward'
  BY <1>1, <1>3, <1>4, <1>8, MainUnchanged DEF Outward, StartTransfer, Untouched, Never, Zero
<1>10. \A k \in Nodes : joined'[k] => interrupt'[k]
  BY DEF StartTransfer, PhaseInv
<1>. QED BY <1>1, <1>2, <1>5, <1>6, <1>9, <1>10, MainUnchanged DEF PhaseInv

(* A relay moves the amount from one connection to the next. *)
LEMMA RelayPhaseInv ==
  ASSUME TypeOK, PhaseInv, NEW i \in Nodes, NEW j \in Nodes, RelayTransfer(i, j)
  PROVE  PhaseInv'
<1>1. /\ Running /\ Started /\ UNCHANGED main /\ posted' = posted
      /\ j # call.to /\ SentBy(j) /\ i = NextNode(j)
      /\ Head(chan[<<j, i>>]) = Transfer(call.amount)
      /\ finished = Never /\ interrupt = Never /\ counter_finished = Zero
  BY ReadFacts, PhaseOfMessage DEF RelayTransfer
<1>2. Started'
  BY <1>1, MainUnchanged DEF Started
<1>3. /\ i \in Nodes \ {call.to} /\ NextNode(i) \in Nodes /\ i # j
      /\ NextNode(i) # i
      /\ Distance[call.to][i] < Distance[call.to][j]
      /\ \A k \in Nodes : Distance[call.to][k] \in Nat
      /\ call.from \in Nodes
  BY <1>1, PathFacts DEF RelayTransfer
<1>4. /\ Distance[call.to][i] <= Distance[call.to][call.from]
      /\ i # call.from
  BY <1>1, <1>3 DEF SentBy
<1>5. chan' = [Silent EXCEPT ![<<i, NextNode(i)>>] = <<Transfer(call.amount)>>]
  <2>1. Tail(<<Transfer(call.amount)>>) = <<>>
    OBVIOUS
  <2>2. Append(<<>>, Transfer(call.amount)) = <<Transfer(call.amount)>>
    OBVIOUS
  <2>3. <<j, i>> \in Links /\ <<i, NextNode(i)>> \in Links
    BY <1>3 DEF Links
  <2>4. chan = [Silent EXCEPT ![<<j, i>>] = <<Transfer(call.amount)>>]
    BY <1>1 DEF SentBy
  <2>5. ASSUME NEW e \in Links
        PROVE  chan'[e] = IF e = <<i, NextNode(i)>> THEN <<Transfer(call.amount)>>
                          ELSE <<>>
    <3>1. CASE e = <<j, i>>
      BY <1>3, <2>1, <2>3, <2>4, <3>1 DEF RelayTransfer, Answer, Silent
    <3>2. CASE e = <<i, NextNode(i)>>
      <4>1. e # <<j, i>> /\ e[1] = i /\ e[2] \in {NextNode(i)}
        BY <1>3, <3>2
      <4>2. chan[e] = <<>>
        BY <2>4, <4>1 DEF Silent
      <4>3. chan'[e] = Append(chan[e], Head(chan[<<j, i>>]))
        BY <4>1 DEF RelayTransfer, Answer
      <4>. QED BY <1>1, <2>2, <3>2, <4>2, <4>3
    <3>3. CASE e # <<j, i>> /\ e # <<i, NextNode(i)>>
      <4>1. ~ (e[1] = i /\ e[2] \in {NextNode(i)})
        BY <3>3 DEF Links
      <4>2. chan[e] = <<>>
        BY <2>4, <3>3 DEF Silent
      <4>. QED BY <3>3, <4>1, <4>2 DEF RelayTransfer, Answer
    <3>. QED BY <3>1, <3>2, <3>3
  <2>6. chan' = [e \in Links |-> chan'[e]]
    BY DEF RelayTransfer, Answer
  <2>. QED BY <2>5, <2>6 DEF Silent
<1>6. SentBy(i)'
  BY <1>1, <1>4, <1>5, MainUnchanged DEF SentBy
<1>7. Outward'
  BY <1>1, <1>3, <1>6, MainUnchanged DEF Outward, RelayTransfer, Never, Zero
<1>8. writers'[call'.from] = {NextNode(call.from)'}
  BY <1>1, <1>4, MainUnchanged DEF RelayTransfer, PhaseInv, TypeOK
<1>9. transfering_account' = [k \in Nodes |-> k = call'.from]
  <2>1. transfering_account = [k \in Nodes |-> k = call.from]
    BY <1>1 DEF PhaseInv
  <2>2. call' = call /\ transfering_account' = transfering_account
    BY <1>1, MainUnchanged DEF RelayTransfer
  <2>. QED BY <2>1, <2>2
<1>10. \A k \in Nodes : joined'[k] => interrupt'[k]
  BY DEF RelayTransfer, PhaseInv
<1>. QED BY <1>1, <1>2, <1>7, <1>8, <1>9, <1>10, MainUnchanged DEF PhaseInv

(* The amount comes in: from now on there is only finished to be read.      *)
LEMMA PaymentPhaseInv ==
  ASSUME TypeOK, PhaseInv, NEW i \in Nodes, NEW j \in Nodes, ReceivePayment(i, j)
  PROVE  PhaseInv'
<1>1. /\ Running /\ Started /\ UNCHANGED main /\ posted' = posted
      /\ j # call.to /\ SentBy(j) /\ i = NextNode(j)
      /\ finished = Never /\ interrupt = Never /\ counter_finished = Zero
  BY ReadFacts, PhaseOfMessage DEF ReceivePayment
<1>2. Started'
  BY <1>1, MainUnchanged DEF Started
<1>3. i = call.to /\ i # call.from /\ call.from \in Nodes
  BY <1>1, PathFacts, PathsAssumption DEF ReceivePayment
<1>4. Credited'
  BY <1>1, <1>3, MainUnchanged DEF ReceivePayment, Credited, Never
<1>5. \A e \in Links : \A k \in DOMAIN chan'[e] : chan'[e][k] = Finished
  <2>1. chan = [Silent EXCEPT ![<<j, i>>] = <<Transfer(call.amount)>>]
    BY <1>1 DEF SentBy
  <2>2. Tail(<<Transfer(call.amount)>>) = <<>> /\ <<j, i>> \in Links
    BY DEF Links
  <2>3. Append(<<>>, Finished) = <<Finished>>
    OBVIOUS
  <2>4. ASSUME NEW e \in Links PROVE chan'[e] = <<>> \/ chan'[e] = <<Finished>>
    BY <2>1, <2>2, <2>3 DEF ReceivePayment, Answer, Silent
  <2>. QED BY <2>4
<1>6. Homeward'
  BY <1>1, <1>3, <1>4, <1>5, MainUnchanged DEF Homeward, ReceivePayment, Zero
<1>7. writers'[call'.from] = {NextNode(call.from)'}
  BY <1>1, <1>3, MainUnchanged DEF ReceivePayment, PhaseInv, TypeOK
<1>8. transfering_account' = [k \in Nodes |-> k = call'.from]
  <2>1. transfering_account = [k \in Nodes |-> k = call.from]
    BY <1>1 DEF PhaseInv
  <2>2. call' = call /\ transfering_account' = transfering_account
    BY <1>1, MainUnchanged DEF ReceivePayment
  <2>. QED BY <2>1, <2>2
<1>9. \A k \in Nodes : joined'[k] => interrupt'[k]
  BY DEF ReceivePayment, PhaseInv
<1>. QED BY <1>1, <1>2, <1>6, <1>7, <1>8, <1>9, MainUnchanged DEF PhaseInv

(* A finished finds the receiving account credited; for the paying node it  *)
(* is the only one.                                                         *)
LEMMA FinishedFacts ==
  ASSUME TypeOK, PhaseInv, NEW i \in Nodes, NEW j \in Nodes, AnswerToFinished(i, j)
  PROVE  /\ Running /\ Started /\ Homeward /\ UNCHANGED main /\ posted' = posted
         /\ ~ interrupt[i] /\ Credited'
         /\ i # call.from => /\ Debited' = Debited /\ ~ transfering_account[i]
                             /\ counter_finished'[call.from] = counter_finished[call.from]
         /\ i = call.from => /\ Debited' /\ transfering_account[i]
                             /\ counter_finished[i] + 1 = Cardinality(writers[i])
<1>1. /\ Running /\ Started /\ Homeward /\ UNCHANGED main /\ posted' = posted
      /\ ~ interrupt[i]
  BY ReadFacts, PhaseOfMessage DEF AnswerToFinished
<1>2. call.from \in Nodes /\ call.to \in Nodes /\ call' = call
  BY <1>1, PathFacts, MainUnchanged
<1>3. Credited'
  BY <1>1, <1>2 DEF Homeward, Credited, AnswerToFinished, TypeOK
<1>4. transfering_account = [k \in Nodes |-> k = call.from]
  BY <1>1 DEF PhaseInv
<1>5. ASSUME i # call.from
      PROVE  /\ Debited' = Debited /\ ~ transfering_account[i]
             /\ counter_finished'[call.from] = counter_finished[call.from]
  <2>1. ~ transfering_account[i]
    BY <1>4, <1>5
  <2>2. interrupt'[call.from] = interrupt[call.from]
    BY <1>2, <1>5 DEF AnswerToFinished, TypeOK
  <2>3. counter_finished'[call.from] = counter_finished[call.from]
    BY <1>2, <1>5 DEF AnswerToFinished, TypeOK
  <2>. QED BY <1>2, <2>1, <2>2, <2>3 DEF Debited
<1>6. ASSUME i = call.from
      PROVE  /\ Debited' /\ transfering_account[i]
             /\ counter_finished[i] + 1 = Cardinality(writers[i])
  <2>1. counter_finished[i] = 0
    BY <1>1, <1>6 DEF Homeward, Debited
  <2>2. writers[i] = {NextNode(i)}
    BY <1>1, <1>6 DEF PhaseInv
  <2>3. Cardinality(writers[i]) = 1
    BY <2>2, FS_Singleton
  <2>4. counter_finished[i] + 1 = Cardinality(writers[i])
    BY <2>1, <2>3
  <2>5. interrupt'[i] = TRUE
    BY <2>4 DEF AnswerToFinished, TypeOK
  <2>6. transfering_account[i]
    BY <1>4, <1>6
  <2>. QED BY <1>2, <1>6, <2>4, <2>5, <2>6 DEF Debited
<1>. QED BY <1>1, <1>3, <1>5, <1>6

(* Finished only ever leads to more of it. *)
LEMMA FinishedPhaseInv ==
  ASSUME TypeOK, PhaseInv, NEW i \in Nodes, NEW j \in Nodes, AnswerToFinished(i, j)
  PROVE  PhaseInv'
<1>1. /\ Running /\ Started /\ Homeward /\ UNCHANGED main /\ posted' = posted
      /\ ~ interrupt[i] /\ Credited'
  BY FinishedFacts
<1>2. Started'
  BY <1>1, MainUnchanged DEF Started
<1>3. ~ Debited' => counter_finished'[call'.from] = 0
  BY <1>1, FinishedFacts, MainUnchanged DEF Homeward
<1>4. \A e \in Links : \A k \in DOMAIN chan'[e] : chan'[e][k] = Finished
  <2>1. chan[<<j, i>>] # <<>> /\ chan \in [Links -> Seq(Message)]
    BY ReadFacts DEF AnswerToFinished, TypeOK
  <2>2. ASSUME NEW e \in Links, NEW k \in DOMAIN chan'[e]
        PROVE  chan'[e][k] = Finished
    <3>1. chan[e] \in Seq(Message) /\ \A l \in DOMAIN chan[e] : chan[e][l] = Finished
      BY <1>1, <2>1 DEF Homeward
    <3>2. CASE e = <<j, i>>
      <4>1. chan'[e] = Tail(chan[e])
        BY <3>2 DEF AnswerToFinished, Answer
      <4>2. chan[e] \in Seq(Message) /\ chan[e] # <<>>
        BY <2>1, <3>2
      <4>3. k \in DOMAIN Tail(chan[e])
        BY <2>2, <4>1
      <4>4. k + 1 \in DOMAIN chan[e] /\ Tail(chan[e])[k] = chan[e][k + 1]
        BY <4>2, <4>3
      <4>. QED BY <3>1, <4>1, <4>4
    <3>3. CASE chan'[e] = Append(chan[e], Finished)
      BY <2>2, <3>1, <3>3
    <3>4. CASE chan'[e] = chan[e]
      BY <2>2, <3>1, <3>4
    <3>. QED BY <3>2, <3>3, <3>4 DEF AnswerToFinished, Answer
  <2>. QED BY <2>2
<1>5. Homeward'
  BY <1>1, <1>3, <1>4 DEF Homeward
<1>6. writers'[call'.from] = {NextNode(call.from)'}
  BY <1>1, MainUnchanged DEF AnswerToFinished, PhaseInv
<1>7. transfering_account' = [k \in Nodes |-> k = call'.from]
  <2>1. transfering_account = [k \in Nodes |-> k = call.from]
    BY <1>1 DEF PhaseInv
  <2>2. call' = call /\ transfering_account' = transfering_account
    BY <1>1, MainUnchanged DEF AnswerToFinished
  <2>. QED BY <2>1, <2>2
<1>8. ASSUME NEW k \in Nodes, joined'[k] PROVE interrupt'[k]
  <2>1. joined[k] /\ interrupt[k] /\ k # i
    BY <1>1, <1>8 DEF AnswerToFinished, PhaseInv
  <2>. QED BY <2>1 DEF AnswerToFinished, TypeOK
<1>. QED BY <1>1, <1>2, <1>5, <1>6, <1>7, <1>8, MainUnchanged DEF PhaseInv

(* Every step keeps the phases. *)
LEMMA NextPhaseInv == TypeOK /\ PhaseInv /\ [Next]_vars => PhaseInv'
<1>1. SUFFICES ASSUME TypeOK, PhaseInv, [Next]_vars PROVE PhaseInv'
  OBVIOUS
<1>2. ASSUME NEW i \in Nodes, Join(i) PROVE PhaseInv'
  <2>1. /\ UNCHANGED main /\ interrupt[i] /\ posted' = posted
        /\ UNCHANGED <<writers, transfering_account, finished, interrupt,
                       counter_finished, chan>>
        /\ joined' = [joined EXCEPT ![i] = TRUE]
    BY <1>2 DEF Join
  <2>2. (Started' <=> Started) /\ call' = call
    BY <1>1, <2>1, MainUnchanged DEF Started
  <2>3. \A k \in Nodes : joined'[k] => interrupt'[k]
    BY <1>1, <2>1 DEF PhaseInv, TypeOK
  <2>. QED BY <1>1, <2>1, <2>2, <2>3, SamePhase, MainUnchanged DEF PhaseInv
<1>3. ASSUME UNCHANGED vars PROVE PhaseInv'
  <2>1. /\ UNCHANGED main /\ posted' = posted /\ UNCHANGED joined
        /\ UNCHANGED <<writers, transfering_account, finished, interrupt,
                       counter_finished, chan>>
    BY <1>3 DEF vars, threads
  <2>2. (Started' <=> Started) /\ call' = call
    BY <1>1, <2>1, MainUnchanged DEF Started
  <2>3. \A k \in Nodes : joined'[k] => interrupt'[k]
    BY <1>1, <2>1 DEF PhaseInv
  <2>. QED BY <1>1, <2>1, <2>2, <2>3, SamePhase, MainUnchanged DEF PhaseInv
<1>. QED BY <1>1, <1>2, <1>3, BeginPhaseInv, WalkPhaseInv, ReturnPhaseInv,
            StartPhaseInv, RelayPhaseInv, PaymentPhaseInv, FinishedPhaseInv
         DEF Next, CallStep, NodeStep
----------------------------------------------------------------------------
(* The only steps that touch an account: the receiving node's, and the last *)
(* finished in the paying one.                                              *)
LEMMA CreditSteps ==
  ASSUME TypeOK, PhaseInv, Next
  PROVE  \/ \E f, t \in Nodes, a \in Amounts : Begin(f, t, a)
         \/ Return
         \/ \E i, j \in Nodes : ReceivePayment(i, j)
         \/ \E j \in Nodes : Running /\ AnswerToFinished(call.from, j)
         \/ UNCHANGED <<credit, opening, call, Running, Credited, Debited>>
<1>1. ASSUME SpawnOnPath \/ SpawnLast
      PROVE  UNCHANGED <<credit, opening, call, Running, Credited, Debited>>
  BY <1>1 DEF SpawnOnPath, SpawnLast, threads, Running, Credited, Debited
<1>2. ASSUME Post \/ Announce
      PROVE  UNCHANGED <<credit, opening, call, Running, Credited, Debited>>
  BY <1>2 DEF Post, Announce, threads, Running, Credited, Debited
<1>3. ASSUME NEW i \in Nodes,
             StartTransfer(i) \/ Join(i) \/ \E j \in Nodes : RelayTransfer(i, j)
      PROVE  UNCHANGED <<credit, opening, call, Running, Credited, Debited>>
  BY <1>3 DEF StartTransfer, Join, RelayTransfer, main, Running, Credited, Debited
<1>4. ASSUME NEW i \in Nodes, NEW j \in Nodes, AnswerToFinished(i, j), i # call.from
      PROVE  UNCHANGED <<credit, opening, call, Running, Credited, Debited>>
  <2>1. /\ Homeward /\ UNCHANGED main /\ Credited' /\ Debited' = Debited
        /\ ~ transfering_account[i]
    BY <1>4, FinishedFacts
  <2>2. credit' = credit
    BY <1>4, <2>1 DEF AnswerToFinished, Settled, TypeOK
  <2>3. UNCHANGED <<opening, call, Running>>
    BY <2>1, MainUnchanged
  <2>4. Credited' = Credited
    <3>1. finished[call.to] = TRUE /\ call.to \in Nodes
      BY <1>4, <2>1, FinishedFacts, PathFacts DEF Homeward, Credited, TypeOK
    <3>2. finished'[call.to] = TRUE
      BY <1>4, <3>1 DEF AnswerToFinished, TypeOK
    <3>. QED BY <2>3, <3>1, <3>2 DEF Credited
  <2>. QED BY <2>1, <2>2, <2>3, <2>4
<1>5. ASSUME UNCHANGED vars
      PROVE  UNCHANGED <<credit, opening, call, Running, Credited, Debited>>
  BY <1>5 DEF vars, main, threads, Running, Credited, Debited
<1>6. ASSUME NEW i \in Nodes, NEW j \in Nodes, AnswerToFinished(i, j)
      PROVE  Running
  BY <1>6, FinishedFacts
<1>. QED BY <1>1, <1>2, <1>3, <1>4, <1>5, <1>6 DEF Next, CallStep, NodeStep

(* The receiving account is credited. *)
LEMMA PaymentCredits ==
  ASSUME TypeOK, PhaseInv, PaidInOrder, NEW i \in Nodes, NEW j \in Nodes,
         ReceivePayment(i, j)
  PROVE  /\ Running /\ Running' /\ call' = call /\ opening' = opening
         /\ ~ Debited /\ ~ Debited' /\ Credited'
         /\ credit' = [opening EXCEPT ![call.to] = Plus(@, call.amount)]
<1>1. /\ Running /\ UNCHANGED main /\ j # call.to /\ i = NextNode(j)
      /\ Head(chan[<<j, i>>]) = Transfer(call.amount)
      /\ finished = Never /\ interrupt = Never
  BY ReadFacts, PhaseOfMessage DEF ReceivePayment
<1>2. i = call.to /\ call.from \in Nodes /\ call.to \in Nodes
  BY <1>1, PathFacts, PathsAssumption DEF ReceivePayment
<1>3. call' = call /\ opening' = opening /\ Running'
  BY <1>1, MainUnchanged
<1>4. ~ Credited /\ ~ Debited /\ ~ Debited'
  BY <1>1, <1>2, <1>3 DEF Credited, Debited, Never, ReceivePayment
<1>5. credit = opening
  BY <1>1, <1>4 DEF PaidInOrder
<1>6. Credited'
  BY <1>2, <1>3 DEF Credited, ReceivePayment, TypeOK
<1>7. Head(chan[<<j, i>>]).amount = call.amount
  BY <1>1 DEF Transfer
<1>8. credit' = [opening EXCEPT ![call.to] = Plus(@, call.amount)]
  BY <1>2, <1>5, <1>7 DEF ReceivePayment
<1>. QED BY <1>1, <1>3, <1>4, <1>6, <1>8

(* The paying account is debited: the amount was covered and nobody has     *)
(* touched the account since, so the subtraction does not wrap.             *)
LEMMA SettlementDebits ==
  ASSUME TypeOK, PhaseInv, PaidInOrder, Running, NEW j \in Nodes,
         AnswerToFinished(call.from, j)
  PROVE  /\ Running' /\ call' = call /\ opening' = opening
         /\ ~ Debited /\ Debited' /\ Credited'
         /\ credit' = Ledger!Paid(opening, call.from, call.to, call.amount)
<1>. DEFINE f == call.from
            t == call.to
            a == call.amount
<1>1. f \in Nodes /\ t \in Nodes /\ f # t /\ a \in Amount
  BY PathFacts
<1>2. /\ Homeward /\ UNCHANGED main /\ ~ interrupt[f] /\ Credited' /\ Debited'
      /\ transfering_account[f]
      /\ counter_finished[f] + 1 = Cardinality(writers[f])
  BY <1>1, FinishedFacts
<1>3. call' = call /\ opening' = opening /\ Running'
  BY <1>2, MainUnchanged
<1>4. ~ Debited /\ Credited
  BY <1>2 DEF Debited, Homeward
<1>5. credit = [opening EXCEPT ![t] = Plus(@, a)]
  BY <1>4 DEF PaidInOrder
<1>6. opening \in [Nodes -> Amount] /\ a < opening[f]
  BY DEF TypeOK, PhaseInv
<1>7. credit[f] = opening[f]
  BY <1>1, <1>5, <1>6
<1>8. Settled(f) = opening[f] - a
  BY <1>1, <1>2, <1>6, <1>7, AmountFacts DEF Settled
<1>9. credit' = [credit EXCEPT ![f] = opening[f] - a]
  BY <1>2, <1>8 DEF AnswerToFinished
<1>10. credit' = [opening EXCEPT ![f] = opening[f] - a, ![t] = Plus(opening[t], a)]
  BY <1>1, <1>5, <1>6, <1>9
<1>. QED BY <1>2, <1>3, <1>4, <1>10 DEF Ledger!Paid, Ledger!Plus, Plus

(* The order of payment is kept by every step. *)
LEMMA NextPaidInOrder ==
  ASSUME TypeOK, PhaseInv, PaidInOrder, [Next]_vars
  PROVE  PaidInOrder'
<1>1. ASSUME NEW f \in Nodes, NEW t \in Nodes, NEW a \in Amounts, Begin(f, t, a)
      PROVE  PaidInOrder'
  <2>1. /\ ~ Running /\ opening' = credit /\ credit' = credit
        /\ finished' = finished /\ interrupt' = interrupt
        /\ call'.from = f /\ call'.to = t
    BY <1>1 DEF Begin, Running, threads
  <2>2. ~ Debited' /\ ~ Credited'
    BY <2>1 DEF TypeOK, Debited, Credited, Never
  <2>. QED BY <2>1, <2>2 DEF PaidInOrder
<1>2. ASSUME Return PROVE PaidInOrder'
  BY <1>2 DEF Return, PaidInOrder, Running
<1>3. ASSUME NEW i \in Nodes, NEW j \in Nodes, ReceivePayment(i, j)
      PROVE  PaidInOrder'
  BY <1>3, PaymentCredits DEF PaidInOrder
<1>4. ASSUME NEW j \in Nodes, Running, AnswerToFinished(call.from, j)
      PROVE  PaidInOrder'
  BY <1>4, SettlementDebits DEF PaidInOrder, Ledger!Paid, Ledger!Plus
<1>5. ASSUME UNCHANGED <<credit, opening, call, Running, Credited, Debited>>
      PROVE  PaidInOrder'
  BY <1>5 DEF PaidInOrder, Ledger!Paid, Ledger!Plus
<1>6. CASE UNCHANGED vars
  BY <1>5, <1>6 DEF vars, main, threads, Running, Credited, Debited
<1>. QED BY <1>1, <1>2, <1>3, <1>4, <1>5, <1>6, CreditSteps

(* A step of the protocol is a transfer of the ledger or none.              *)
LEMMA NextLedger ==
  ASSUME TypeOK, PhaseInv, PaidInOrder, [Next]_vars
  PROVE  [Ledger!Next]_settled
<1>1. ASSUME NEW f \in Nodes, NEW t \in Nodes, NEW a \in Amounts, Begin(f, t, a)
      PROVE  settled' = settled
  <2>1. /\ ~ Running /\ Running' /\ opening' = credit /\ credit' = credit
        /\ interrupt' = interrupt /\ call'.from = f
    BY <1>1 DEF Begin, Running, threads
  <2>2. ~ Debited'
    BY <2>1 DEF TypeOK, Debited, Never
  <2>. QED BY <2>1, <2>2 DEF settled
<1>2. ASSUME Return PROVE settled' = settled
  <2>1. Running /\ ~ Running' /\ credit' = credit /\ call.from \in spawned
    BY <1>2 DEF Return, Running, PhaseInv, WalkInv
  <2>2. Debited
    BY <1>2, <2>1, PathFacts DEF Return, AllJoined, PhaseInv, Debited
  <2>. QED BY <2>1, <2>2 DEF settled
<1>3. ASSUME NEW i \in Nodes, NEW j \in Nodes, ReceivePayment(i, j)
      PROVE  settled' = settled
  BY <1>3, PaymentCredits DEF settled
<1>4. ASSUME NEW j \in Nodes, Running, AnswerToFinished(call.from, j)
      PROVE  Ledger!Next
  <2>1. settled = opening
        /\ settled' = Ledger!Paid(opening, call.from, call.to, call.amount)
    BY <1>4, SettlementDebits DEF settled
  <2>2. /\ call.from \in Nodes /\ call.to \in Nodes /\ call.amount \in Amount
        /\ call.from # call.to /\ call.amount < opening[call.from]
    BY <1>4, PathFacts DEF PhaseInv
  <2>3. Ledger!Transfer(call.from, call.to, call.amount)
    BY <2>1, <2>2 DEF Ledger!Transfer
  <2>. QED BY <2>2, <2>3 DEF Ledger!Next, Ledger!Amount, Amount
<1>5. ASSUME UNCHANGED <<credit, opening, call, Running, Credited, Debited>>
      PROVE  settled' = settled
  BY <1>5 DEF settled
<1>6. CASE UNCHANGED vars
  BY <1>5, <1>6 DEF vars, main, threads, Running, Credited, Debited
<1>. QED BY <1>1, <1>2, <1>3, <1>4, <1>5, <1>6, CreditSteps

(* What every state of every behaviour satisfies. *)
LEMMA Inductive == Spec => [](TypeOK /\ PhaseInv /\ PaidInOrder)
<1>1. Init => PaidInOrder
  BY DEF Init, PaidInOrder, Running
<1>2. Init => TypeOK /\ PhaseInv /\ PaidInOrder
  BY <1>1, InitTypeOK, InitPhaseInv
<1>3. TypeOK /\ PhaseInv /\ PaidInOrder /\ [Next]_vars
        => (TypeOK /\ PhaseInv /\ PaidInOrder)'
  BY NextTypeOK, NextPhaseInv, NextPaidInOrder
<1>. QED BY <1>2, <1>3, PTL DEF Spec

(* Credits stay in the range of an unsigned long whatever is transferred,   *)
(* and every variable of a call has its initial value between calls.        *)
THEOREM TypeCorrect == Spec => []TypeOK
  BY Inductive, PTL

(* The phases of a call: in particular no relay ever credits or debits its  *)
(* account, and the amount is in one place at a time.                       *)
THEOREM PhasesHold == Spec => []PhaseInv
  BY Inductive, PTL

(* Credit first, debit afterwards, each once and exactly by the amount, and *)
(* no other account changes (Node.cpp:102, 306).                            *)
THEOREM MoneyMovesInOrder == Spec => []PaidInOrder
  BY Inductive, PTL

(* The walk of main never starts a second thread for a node (main.cpp:290). *)
THEOREM WalkNeverReturns == Spec => []WalkIsSimple
<1>1. TypeOK /\ PhaseInv => WalkIsSimple
  <2>1. SUFFICES ASSUME TypeOK, PhaseInv, pc \in {"walk", "last"},
                        current \in spawned
                 PROVE  FALSE
    BY DEF WalkIsSimple
  <2>2. Running /\ current \in Nodes
    BY <2>1 DEF Running, TypeOK
  <2>3. Distance[call.to][current] \in Nat
    BY <2>1, <2>2, PathFacts
  <2>4. Distance[call.to][current] < Distance[call.to][current]
    BY <2>1 DEF PhaseInv, WalkInv
  <2>. QED BY <2>3, <2>4
<1>. QED BY <1>1, Inductive, PTL

(* transfer_amount returns only when the money has moved: the accounts that *)
(* main displays next (main.cpp:215) are the final ones.                    *)
THEOREM ReturnsPaid == Spec => ReturnMeansPaid
<1>1. ASSUME TypeOK, PhaseInv, PaidInOrder, [Next]_vars, Running, pc' = "session"
      PROVE  credit = Ledger!Paid(opening, call.from, call.to, call.amount)
  <2>1. Return \/ UNCHANGED vars
    BY <1>1 DEF Next, CallStep, NodeStep, Begin, SpawnOnPath, SpawnLast, Post,
                Announce, StartTransfer, Join, RelayTransfer, ReceivePayment,
                AnswerToFinished, main, Running
  <2>2. Return
    BY <1>1, <2>1 DEF vars, main, Running
  <2>3. call.from \in spawned
    BY <1>1, <2>2 DEF Return, PhaseInv, WalkInv
  <2>4. Debited
    BY <1>1, <2>2, <2>3, PathFacts DEF Return, AllJoined, PhaseInv, Debited
  <2>. QED BY <1>1, <2>4 DEF PaidInOrder
<1>2. TypeOK /\ PhaseInv /\ PaidInOrder /\ [Next]_vars
        => [Running /\ pc' = "session" =>
              credit = Ledger!Paid(opening, call.from, call.to, call.amount)]_vars
  BY <1>1
<1>. QED BY <1>2, Inductive, PTL DEF Spec, ReturnMeansPaid

(* TransferAmount implements the ledger: the owners of the accounts see     *)
(* transfers that happen at once, completely and covered.                   *)
THEOREM LedgerImplemented == Spec => ImplementsLedger
<1>1. Init => Ledger!Init
  BY DEF Init, Ledger!Init, settled, Running
<1>2. TypeOK /\ PhaseInv /\ PaidInOrder /\ [Next]_vars => [Ledger!Next]_settled
  BY NextLedger
<1>. QED BY <1>1, <1>2, Inductive, PTL DEF Spec, ImplementsLedger, Ledger!Spec

----------------------------------------------------------------------------
(* Moving an amount from one account to another does not change the total,  *)
(* and adding it to one account adds it to the total.                       *)
LEMMA TotalOfPayment ==
  ASSUME Total(InitialCredit) < Modulus,
         NEW c \in [Nodes -> Amount], Total(c) = Total(InitialCredit),
         NEW f \in Nodes, NEW t \in Nodes, f # t, NEW a \in Amount, a < c[f]
  PROVE  /\ Total([c EXCEPT ![t] = Plus(@, a)]) = Total(InitialCredit) + a
         /\ Total(Ledger!Paid(c, f, t, a)) = Total(InitialCredit)
<1>. DEFINE T == Total(InitialCredit)
            d == [c EXCEPT ![t] = c[t] + a]
            e == [d EXCEPT ![f] = d[f] - a]
<1>1. IsFiniteSet(Nodes) /\ Amount \subseteq Nat /\ a \in Nat /\ Modulus \in Nat
  BY PathsAssumption, ModulusAssumption DEF Amount
<1>2. c \in [Nodes -> Nat] /\ c[f] \in Nat /\ c[t] \in Nat
  BY <1>1
<1>3. \A g : Total(g) = SumOf(g)
  BY DEF Total, SumOf
<1>4. T \in Nat /\ c[f] + c[t] <= T
  BY <1>1, <1>2, <1>3, SumBounds
<1>5. Plus(c[t], a) = c[t] + a
  <2>. HIDE DEF T
  <2>1. T < Modulus
    BY DEF T
  <2>. QED BY <1>1, <1>2, <1>4, <2>1 DEF Plus
<1>6. /\ d \in [Nodes -> Int] /\ d[f] = c[f] /\ d[f] - a \in Int
      /\ c \in [Nodes -> Int] /\ c[t] + a \in Int
  BY <1>1, <1>2
<1>7. \A b \in [Nodes -> Int] : \A k \in Nodes, v \in Int :
         Total([b EXCEPT ![k] = v]) = Total(b) - b[k] + v
  <2>1. \A b \in [Nodes -> Int] : \A k \in Nodes, v \in Int :
           SumOf([b EXCEPT ![k] = v]) = SumOf(b) - b[k] + v
    BY <1>1, SumUpdate
  <2>. HIDE DEF T, d, e
  <2>. QED BY <1>3, <2>1, Zenon
<1>8. Total(d) = Total(c) - c[t] + (c[t] + a)
  <2>. HIDE DEF e, T
  <2>. QED BY <1>6, <1>7, ZenonT(60)
<1>9. Total(e) = Total(d) - d[f] + (d[f] - a)
  <2>. HIDE DEF d, T
  <2>. QED BY <1>6, <1>7, Zenon
<1>10. [c EXCEPT ![t] = Plus(@, a)] = d
  BY <1>5
<1>11. Ledger!Paid(c, f, t, a) = e
  BY <1>2, <1>5 DEF Ledger!Paid, Ledger!Plus, Plus
<1>12. Total(d) = T + a /\ Total(e) = T
  <2>. HIDE DEF d, e
  <2>1. Total(c) = T
    OBVIOUS
  <2>. HIDE DEF T
  <2>. QED BY <1>1, <1>2, <1>4, <1>6, <1>8, <1>9, <2>1
<1>. QED BY <1>10, <1>11, <1>12

(* The total with which a call has begun, or which the session has. *)
TotalKept == Total(IF Running THEN opening ELSE credit) = Total(InitialCredit)

LEMMA NextTotalKept ==
  ASSUME Total(InitialCredit) < Modulus,
         TypeOK, PhaseInv, PaidInOrder, TotalKept, [Next]_vars
  PROVE  TotalKept'
<1>1. ASSUME NEW f \in Nodes, NEW t \in Nodes, NEW a \in Amounts, Begin(f, t, a)
      PROVE  TotalKept'
  <2>1. ~ Running /\ Running' /\ opening' = credit
    BY <1>1 DEF Begin, Running
  <2>. QED BY <2>1 DEF TotalKept
<1>2. ASSUME Return PROVE TotalKept'
  <2>1. Running /\ ~ Running' /\ credit' = credit /\ call.from \in spawned
    BY <1>2 DEF Return, Running, PhaseInv, WalkInv
  <2>2. Debited
    BY <1>2, <2>1, PathFacts DEF Return, AllJoined, PhaseInv, Debited
  <2>3. credit = Ledger!Paid(opening, call.from, call.to, call.amount)
    BY <2>1, <2>2 DEF PaidInOrder
  <2>4. Total(opening) = Total(InitialCredit) /\ opening \in [Nodes -> Amount]
    BY <2>1 DEF TotalKept, TypeOK
  <2>5. /\ call.from \in Nodes /\ call.to \in Nodes /\ call.amount \in Amount
        /\ call.from # call.to /\ call.amount < opening[call.from]
    BY <2>1, PathFacts DEF PhaseInv
  <2>6. Total(credit) = Total(InitialCredit)
    BY <2>3, <2>4, <2>5, TotalOfPayment
  <2>. QED BY <2>1, <2>6 DEF TotalKept
<1>3. ASSUME NEW i \in Nodes, NEW j \in Nodes, ReceivePayment(i, j)
      PROVE  TotalKept'
  BY <1>3, PaymentCredits DEF TotalKept
<1>4. ASSUME NEW j \in Nodes, Running, AnswerToFinished(call.from, j)
      PROVE  TotalKept'
  BY <1>4, SettlementDebits DEF TotalKept
<1>5. ASSUME UNCHANGED <<credit, opening, call, Running, Credited, Debited>>
      PROVE  TotalKept'
  BY <1>5 DEF TotalKept
<1>6. CASE UNCHANGED vars
  BY <1>5, <1>6 DEF vars, main, threads, Running, Credited, Debited
<1>. QED BY <1>1, <1>2, <1>3, <1>4, <1>5, <1>6, CreditSteps

(* No money is lost or made, as long as all of it fits an unsigned long: a  *)
(* receiving account cannot wrap, since what it gets was somebody else's.   *)
THEOREM NoMoneyLost ==
  ASSUME Total(InitialCredit) < Modulus
  PROVE  Spec => []MoneyConserved
<1>1. Init => TotalKept
  BY DEF Init, TotalKept, Running
<1>2. TypeOK /\ PhaseInv /\ PaidInOrder /\ TotalKept /\ [Next]_vars => TotalKept'
  BY NextTotalKept
<1>3. TypeOK /\ PhaseInv /\ PaidInOrder /\ TotalKept => MoneyConserved
  <2>1. SUFFICES ASSUME TypeOK, PhaseInv, PaidInOrder, TotalKept PROVE MoneyConserved
    OBVIOUS
  <2>. DEFINE T == Total(InitialCredit)
  <2>2. T \in Nat
    <3>1. IsFiniteSet(Nodes) /\ InitialCredit \in [Nodes -> Nat]
      BY PathsAssumption, ModulusAssumption DEF Amount
    <3>. QED BY <3>1, SumBounds DEF Total, SumOf
  <2>3. CASE ~ Running
    BY <2>1, <2>2, <2>3 DEF TotalKept, MoneyConserved
  <2>4. CASE Running
    <3>1. /\ call.from \in Nodes /\ call.to \in Nodes /\ call.amount \in Amount
          /\ call.from # call.to /\ call.amount < opening[call.from]
          /\ opening \in [Nodes -> Amount] /\ Total(opening) = T
      BY <2>1, <2>4, PathFacts DEF PhaseInv, TypeOK, TotalKept
    <3>2. /\ Total([opening EXCEPT ![call.to] = Plus(@, call.amount)])
                = T + call.amount
          /\ Total(Ledger!Paid(opening, call.from, call.to, call.amount)) = T
      BY <3>1, TotalOfPayment
    <3>3. Debited => Credited
      BY <2>1, <2>4 DEF PaidInOrder
    <3>4. Total(credit) = T + (IF Credited /\ ~ Debited THEN call.amount ELSE 0)
      <4>. HIDE DEF T
      <4>1. CASE Debited
        BY <2>1, <2>2, <2>4, <3>2, <4>1 DEF PaidInOrder
      <4>2. CASE ~ Debited /\ Credited
        BY <2>1, <2>2, <2>4, <3>2, <4>2 DEF PaidInOrder
      <4>3. CASE ~ Debited /\ ~ Credited
        BY <2>1, <2>2, <2>4, <3>1, <4>3 DEF PaidInOrder
      <4>. QED BY <4>1, <4>2, <4>3
    <3>. QED BY <2>4, <3>4 DEF MoneyConserved
  <2>. QED BY <2>3, <2>4
<1>. QED BY <1>1, <1>2, <1>3, Inductive, PTL DEF Spec

----------------------------------------------------------------------------
(* CleanReturn: when transfer_amount returns, the nodes on the path have    *)
(* opened, emptied and closed their connections.  PhaseInv says nothing of  *)
(* the nodes between the two accounts; the invariants here follow the path  *)
(* main has walked, the amount on its way out, and finished on its way back.*)

D(i) == Distance[call.to][i]

(* The path main has walked so far.  The nodes next to each other on it     *)
(* know of each other, no node is entered from two, and no node of it lies  *)
(* between a node and its next one.                                         *)
OnPath ==
    /\ \A i \in Nodes \ spawned : adj_edges[i] = {}
    /\ \A i \in spawned : adj_edges[i] =
          {k \in Nodes : k = NextNode(i) \/ (k \in spawned /\ NextNode(k) = i)}
    /\ \A k, l \in spawned :
          /\ NextNode(k) = NextNode(l) => k = l
          /\ D(l) < D(k) => l = NextNode(k) \/ D(l) < D(NextNode(k))
    /\ \A k \in spawned : k = call.from \/ D(k) < D(call.from)

AtCurrent ==
    /\ following = NextNode(current)
    /\ current = call.from \/ D(current) < D(call.from)
    /\ \/ spawned = {} /\ previous = NoNode
       \/ previous \in spawned /\ NextNode(previous) = current
    /\ \A k \in spawned \ {previous} : NextNode(k) \in spawned

AtEnd ==
    /\ call.to \in spawned
    /\ \A k \in spawned \ {call.to} : NextNode(k) \in spawned /\ D(call.to) < D(k)

PathInv == /\ OnPath
           /\ pc \in {"walk", "last"} => AtCurrent
           /\ pc \in {"post", "announce", "join"} => AtEnd

(* The way out: the nodes the amount has passed have opened their           *)
(* connections, the others none.                                            *)
PassedBy(j) ==
    /\ SentBy(j)
    /\ \A k \in spawned :
          writers[k] = IF D(k) < D(j) THEN {} ELSE adj_edges[k]

(* The way home: every node writes one finished to each of its neighbours   *)
(* on the path, and each is read once, which closes the connection.         *)
ClosedTo(i) == {j \in adj_edges[i] : <<j, i>> \in closed}

Sent(j, i)     == chan[<<j, i>>] = <<Finished>> /\ <<j, i>> \notin closed
Answered(j, i) == chan[<<j, i>>] = <<>> /\ <<j, i>> \in closed
Unused(j, i)   == chan[<<j, i>>] = <<>> /\ <<j, i>> \notin closed

EdgesHome == \A j, i \in Nodes :
                IF finished[j] /\ i \in adj_edges[j]
                THEN Sent(j, i) \/ Answered(j, i) ELSE Unused(j, i)

HomeInv ==
    /\ \A i \in spawned : writers[i] = adj_edges[i]
    /\ EdgesHome
    /\ \A i \in spawned :
          /\ counter_finished[i] = Cardinality(ClosedTo(i))
          /\ interrupt[i] => finished[i] /\ ClosedTo(i) = adj_edges[i]

WayInv ==
    /\ ~ (Started /\ Credited) => closed = {}
    /\ Started /\ ~ Credited => \E j \in spawned \ {call.to} : PassedBy(j)
    /\ Started /\ Credited => HomeInv
----------------------------------------------------------------------------
(* Main's step from one node of the path to the next. *)
LEMMA WalkPathInv ==
  ASSUME TypeOK, PhaseInv, PathInv, SpawnOnPath
  PROVE  PathInv'
<1>. DEFINE c == current
            p == previous
            f == following
            S == spawned
<1>1. /\ Running /\ c \in Nodes \ {call.to} /\ f = NextNode(c)
      /\ \A i \in S : D(c) < D(i)
      /\ OnPath /\ AtCurrent
      /\ call' = call /\ spawned' = S \cup {c} /\ previous' = c /\ current' = f
      /\ following' = NextNode(f) /\ pc' \in {"walk", "last"}
      /\ adj_edges' = [adj_edges EXCEPT ![c] = {p, f} \ {NoNode}]
  BY DEF SpawnOnPath, Spawn, PhaseInv, WalkInv, Running, PathInv, D
<1>2. /\ call.to \in Nodes /\ NextNode(call.to) = NoNode /\ NoNode \notin Nodes
      /\ \A i \in Nodes \ {call.to} :
            /\ NextNode(i) \in Nodes /\ NextNode(i) # i /\ D(NextNode(i)) < D(i)
      /\ \A i \in Nodes : D(i) \in Nat
      /\ S \subseteq Nodes /\ adj_edges \in [Nodes -> SUBSET Nodes]
      /\ call.from \in Nodes
  BY <1>1, PathFacts, PathsAssumption DEF D, TypeOK
<1>3. (\A i : NextNode(i)' = NextNode(i) /\ D(i)' = D(i)) /\ call'.from = call.from
      /\ call'.to = call.to
  BY <1>1 DEF NextNode, D
<1>4. c \notin S /\ f \in Nodes /\ D(f) < D(c)
  BY <1>1, <1>2
<1>5. \A k \in S : k # c /\ NextNode(c) # k /\ k # call.to
  <2>1. SUFFICES ASSUME NEW k \in S PROVE k # c /\ NextNode(c) # k /\ k # call.to
    OBVIOUS
  <2>2. k # c /\ NextNode(c) # k
    BY <1>1, <1>2, <1>4
  <2>3. CASE k = p
    <3>1. NextNode(k) = c
      BY <1>1, <2>1, <2>3 DEF AtCurrent
    <3>. QED BY <1>1, <1>2, <2>2, <3>1
  <2>4. CASE k # p
    BY <1>1, <1>2, <2>1, <2>2, <2>4 DEF AtCurrent
  <2>. QED BY <2>2, <2>3, <2>4
<1>6. \A i \in Nodes \ spawned' : adj_edges'[i] = {}
  BY <1>1, <1>2 DEF OnPath
<1>7. ASSUME NEW i \in spawned'
      PROVE  adj_edges'[i] =
               {k \in Nodes : k = NextNode(i) \/ (k \in spawned' /\ NextNode(k) = i)}
  <2>1. CASE i \in S
    <3>1. adj_edges'[i] = adj_edges[i]
      BY <1>1, <1>2, <1>4, <2>1
    <3>2. NextNode(c) # i
      BY <1>5, <2>1
    <3>. QED BY <1>1, <2>1, <3>1, <3>2 DEF OnPath
  <2>2. CASE i = c
    <3>1. adj_edges'[c] = {p, f} \ {NoNode}
      BY <1>1, <1>2
    <3>2. CASE S = {} /\ p = NoNode
      BY <1>1, <1>2, <1>4, <2>2, <3>1, <3>2
    <3>3. CASE p \in S /\ NextNode(p) = c
      <4>1. \A k \in S : NextNode(k) = c => k = p
        BY <1>1, <3>3 DEF OnPath
      <4>2. NextNode(c) # c /\ p # NoNode /\ f # NoNode
        BY <1>1, <1>2, <1>4, <3>3
      <4>. QED BY <1>1, <1>2, <1>4, <2>2, <3>1, <3>3, <4>1, <4>2
    <3>. QED BY <1>1, <3>2, <3>3 DEF AtCurrent
  <2>. QED BY <1>1, <2>1, <2>2
<1>8. ASSUME NEW k \in spawned', NEW l \in spawned'
      PROVE  /\ NextNode(k) = NextNode(l) => k = l
             /\ D(l) < D(k) => l = NextNode(k) \/ D(l) < D(NextNode(k))
  <2>1. CASE k \in S /\ l \in S
    BY <1>1, <2>1 DEF OnPath
  <2>2. CASE k = c /\ l \in S
    <3>1. NextNode(l) = c \/ NextNode(l) \in S
      BY <1>1, <2>2 DEF AtCurrent
    <3>2. NextNode(c) # NextNode(l)
      BY <1>1, <1>2, <1>5, <3>1
    <3>3. ~ (D(l) < D(c))
      BY <1>1, <1>2, <2>2
    <3>. QED BY <2>2, <3>2, <3>3
  <2>3. CASE l = c /\ k \in S
    <3>1. NextNode(k) = c \/ NextNode(k) \in S
      BY <1>1, <2>3 DEF AtCurrent
    <3>2. NextNode(c) # NextNode(k)
      BY <1>1, <1>2, <1>5, <3>1
    <3>3. c = NextNode(k) \/ D(c) < D(NextNode(k))
      BY <1>1, <3>1
    <3>. QED BY <2>3, <3>2, <3>3
  <2>4. CASE k = c /\ l = c
    BY <1>1, <1>2, <2>4
  <2>. QED BY <1>1, <2>1, <2>2, <2>3, <2>4
<1>9. \A k \in spawned' : k = call.from \/ D(k) < D(call.from)
  BY <1>1 DEF OnPath, AtCurrent
<1>10. /\ current' = call.from \/ D(current') < D(call.from)
       /\ previous' \in spawned' /\ NextNode(previous') = current'
       /\ following' = NextNode(current')
  BY <1>1, <1>2, <1>4 DEF AtCurrent
<1>11. \A k \in spawned' \ {previous'} : NextNode(k) \in spawned'
  BY <1>1 DEF AtCurrent
<1>12. OnPath'
  BY <1>3, <1>6, <1>7, <1>8, <1>9 DEF OnPath
<1>13. AtCurrent'
  BY <1>3, <1>10, <1>11 DEF AtCurrent
<1>. QED BY <1>1, <1>12, <1>13 DEF PathInv

(* The receiving node is the last. *)
LEMMA LastPathInv ==
  ASSUME TypeOK, PhaseInv, PathInv, SpawnLast
  PROVE  PathInv'
<1>. DEFINE c == call.to
            p == previous
            S == spawned
<1>1. /\ Running /\ current = c /\ following = NextNode(c)
      /\ \A i \in S : D(c) < D(i)
      /\ OnPath /\ AtCurrent /\ call.from \in S
      /\ call' = call /\ spawned' = S \cup {c} /\ pc' = "post"
      /\ adj_edges' = [adj_edges EXCEPT ![c] = {p, following} \ {NoNode}]
  BY DEF SpawnLast, Spawn, PhaseInv, WalkInv, Running, PathInv, AtCurrent, D
<1>2. /\ c \in Nodes /\ NextNode(c) = NoNode /\ NoNode \notin Nodes
      /\ \A i \in Nodes \ {c} :
            /\ NextNode(i) \in Nodes /\ NextNode(i) # i /\ D(NextNode(i)) < D(i)
      /\ \A i \in Nodes : D(i) \in Nat
      /\ S \subseteq Nodes /\ adj_edges \in [Nodes -> SUBSET Nodes]
      /\ call.from \in Nodes
  BY <1>1, PathFacts, PathsAssumption DEF D, TypeOK
<1>3. (\A i : NextNode(i)' = NextNode(i) /\ D(i)' = D(i)) /\ call'.from = call.from
      /\ call'.to = call.to
  BY <1>1 DEF NextNode, D
<1>4. c \notin S /\ \A k \in S : k # c /\ k \in Nodes \ {c}
  BY <1>1, <1>2
<1>5. p \in S /\ NextNode(p) = c /\ \A k \in S : NextNode(k) = c => k = p
  BY <1>1 DEF AtCurrent, OnPath
<1>6. \A i \in Nodes \ spawned' : adj_edges'[i] = {}
  BY <1>1, <1>2 DEF OnPath
<1>7. ASSUME NEW i \in spawned'
      PROVE  adj_edges'[i] =
               {k \in Nodes : k = NextNode(i) \/ (k \in spawned' /\ NextNode(k) = i)}
  <2>1. CASE i \in S
    <3>1. adj_edges'[i] = adj_edges[i] /\ NextNode(c) # i
      BY <1>1, <1>2, <1>4, <2>1
    <3>. QED BY <1>1, <2>1, <3>1 DEF OnPath
  <2>2. CASE i = c
    <3>1. adj_edges'[c] = {p}
      BY <1>1, <1>2, <1>4, <1>5
    <3>2. NextNode(c) # c
      BY <1>2
    <3>. QED BY <1>1, <1>2, <1>4, <1>5, <2>2, <3>1, <3>2
  <2>. QED BY <1>1, <2>1, <2>2
<1>8. ASSUME NEW k \in spawned', NEW l \in spawned'
      PROVE  /\ NextNode(k) = NextNode(l) => k = l
             /\ D(l) < D(k) => l = NextNode(k) \/ D(l) < D(NextNode(k))
  <2>1. CASE k \in S /\ l \in S
    BY <1>1, <2>1 DEF OnPath
  <2>2. CASE k = c /\ l \in S
    <3>1. NextNode(c) # NextNode(l)
      BY <1>2, <1>4, <2>2
    <3>2. ~ (D(l) < D(c))
      BY <1>1, <1>2, <2>2
    <3>. QED BY <2>2, <3>1, <3>2
  <2>3. CASE l = c /\ k \in S
    <3>1. NextNode(c) # NextNode(k)
      BY <1>2, <1>4, <2>3
    <3>2. NextNode(k) = c \/ NextNode(k) \in S
      BY <1>1, <2>3 DEF AtCurrent
    <3>3. c = NextNode(k) \/ D(c) < D(NextNode(k))
      BY <1>1, <3>2
    <3>. QED BY <2>3, <3>1, <3>3
  <2>4. CASE k = c /\ l = c
    BY <1>2, <2>4
  <2>. QED BY <1>1, <2>1, <2>2, <2>3, <2>4
<1>9. \A k \in spawned' : k = call.from \/ D(k) < D(call.from)
  BY <1>1 DEF OnPath
<1>10. OnPath'
  BY <1>3, <1>6, <1>7, <1>8, <1>9 DEF OnPath
<1>11. \A k \in spawned' \ {c} : NextNode(k) \in spawned' /\ D(c) < D(k)
  BY <1>1, <1>5 DEF AtCurrent
<1>12. AtEnd'
  BY <1>1, <1>3, <1>11 DEF AtEnd
<1>. QED BY <1>1, <1>10, <1>12 DEF PathInv

(* Every step keeps the path. *)
LEMMA NextPathInv ==
  ASSUME TypeOK, PhaseInv, PathInv, [Next]_vars
  PROVE  PathInv'
<1>1. ASSUME NEW f \in Nodes, NEW t \in Nodes, NEW a \in Amounts, Begin(f, t, a)
      PROVE  PathInv'
  <2>1. /\ spawned' = {} /\ pc' = "walk" /\ adj_edges' = adj_edges
        /\ previous' = NoNode /\ current' = f /\ following' = Parent[t][f]
        /\ call'.from = f /\ call'.to = t
        /\ \A i \in Nodes : adj_edges[i] = {}
    BY <1>1, IdleFacts DEF Begin, Running, PathInv, OnPath
  <2>2. OnPath' /\ AtCurrent'
    BY <2>1 DEF OnPath, AtCurrent, NextNode
  <2>. QED BY <2>1, <2>2 DEF PathInv
<1>2. ASSUME Post \/ Announce PROVE PathInv'
  <2>1. /\ UNCHANGED <<call, previous, current, following, spawned, adj_edges>>
        /\ pc \in {"post", "announce"} /\ pc' \in {"announce", "join"}
    BY <1>2 DEF Post, Announce, walk
  <2>. QED BY <2>1 DEF PathInv, OnPath, AtEnd, NextNode, D
<1>3. ASSUME Return PROVE PathInv'
  BY <1>3 DEF Return, PathInv, OnPath, Nobody
<1>4. ASSUME UNCHANGED main PROVE PathInv'
  <2>1. UNCHANGED <<pc, call, previous, current, following, spawned, adj_edges>>
    BY <1>4 DEF main, walk
  <2>. QED BY <2>1 DEF PathInv, OnPath, AtCurrent, AtEnd, NextNode, D
<1>5. ASSUME NEW i \in Nodes,
             StartTransfer(i) \/ Join(i) \/ \E j \in Nodes : NodeStep(i, j)
      PROVE  UNCHANGED main
  BY <1>5 DEF StartTransfer, Join, NodeStep, RelayTransfer, ReceivePayment,
              AnswerToFinished
<1>6. UNCHANGED vars => UNCHANGED main
  BY DEF vars
<1>. QED BY <1>1, <1>2, <1>3, <1>4, <1>5, <1>6, WalkPathInv, LastPathInv
         DEF Next, CallStep
----------------------------------------------------------------------------
(* What the path says once it is complete. *)
LEMMA CompletePath ==
  ASSUME TypeOK, PathInv, Started
  PROVE  /\ Running /\ OnPath /\ AtEnd /\ spawned \subseteq Nodes
         /\ \A i \in Nodes : D(i) \in Nat
         /\ \A i \in Nodes : adj_edges[i] # {} => i \in spawned
         /\ \A i \in Nodes : adj_edges[i] \subseteq spawned \ {i}
         /\ \A i, j \in Nodes : i \in adj_edges[j] => j \in adj_edges[i]
         /\ \A j \in spawned \ {call.to} :
               /\ NextNode(j) \in spawned
               /\ adj_edges[NextNode(j)] =
                     {j} \cup {k \in Nodes : k = NextNode(NextNode(j))}
<1>1. /\ Running /\ OnPath /\ AtEnd /\ spawned \subseteq Nodes
      /\ adj_edges \in [Nodes -> SUBSET Nodes]
  BY DEF Started, Running, PathInv, TypeOK
<1>2. /\ \A i \in Nodes : D(i) \in Nat
      /\ NextNode(call.to) = NoNode /\ NoNode \notin Nodes /\ call.to \in Nodes
      /\ \A i \in Nodes \ {call.to} : NextNode(i) # i
  BY <1>1, PathFacts, PathsAssumption DEF D
<1>3. \A i \in spawned : adj_edges[i] =
         {k \in Nodes : k = NextNode(i) \/ (k \in spawned /\ NextNode(k) = i)}
  BY <1>1 DEF OnPath
<1>4. \A i \in Nodes : adj_edges[i] # {} => i \in spawned
  BY <1>1 DEF OnPath
<1>5. \A i \in Nodes : NextNode(i) # i
  BY <1>2
<1>6. \A k \in spawned : NextNode(k) \in Nodes => NextNode(k) \in spawned
  BY <1>1, <1>2 DEF AtEnd
<1>7. \A i \in Nodes : adj_edges[i] \subseteq spawned \ {i}
  BY <1>3, <1>4, <1>5, <1>6
<1>8. ASSUME NEW i \in Nodes, NEW j \in Nodes, i \in adj_edges[j]
      PROVE  j \in adj_edges[i]
  BY <1>3, <1>4, <1>7, <1>8
<1>9. ASSUME NEW j \in spawned \ {call.to}
      PROVE  /\ NextNode(j) \in spawned
             /\ adj_edges[NextNode(j)] =
                   {j} \cup {k \in Nodes : k = NextNode(NextNode(j))}
  <2>1. NextNode(j) \in spawned
    BY <1>1 DEF AtEnd
  <2>2. \A k \in spawned : NextNode(k) = NextNode(j) => k = j
    BY <1>1 DEF OnPath
  <2>. QED BY <1>1, <1>3, <2>1, <2>2
<1>. QED BY <1>1, <1>2, <1>4, <1>7, <1>8, <1>9

(* A step that only main's place in the call or the joins can show. *)
LEMMA SameWay ==
  ASSUME WayInv, Started' <=> Started,
         UNCHANGED <<call, spawned, adj_edges, writers, finished, interrupt,
                     counter_finished, chan, closed>>
  PROVE  WayInv'
<1>1. (Credited' <=> Credited) /\ call' = call /\ closed' = closed
  BY DEF Credited
<1>2. \A j : PassedBy(j) => PassedBy(j)'
  BY DEF PassedBy, SentBy, D, NextNode
<1>3. HomeInv => HomeInv'
  BY DEF HomeInv, EdgesHome, Sent, Answered, Unused, ClosedTo
<1>. QED BY <1>1, <1>2, <1>3 DEF WayInv

(* The paying node passes the amount on first. *)
LEMMA StartWayInv ==
  ASSUME TypeOK, PhaseInv, PathInv, WayInv, NEW i \in Nodes, StartTransfer(i)
  PROVE  WayInv'
<1>1. /\ posted /\ ~ posted' /\ i = call.from /\ i \in spawned /\ ~ Started
      /\ Running /\ UNCHANGED main /\ pc \in {"announce", "join"}
  BY IdleFacts DEF StartTransfer, Started, PhaseInv
<1>2. /\ Started' /\ call' = call /\ spawned' = spawned /\ adj_edges' = adj_edges
      /\ \A k : NextNode(k)' = NextNode(k) /\ D(k)' = D(k)
  BY <1>1, MainUnchanged DEF Started, main, D
<1>3. Untouched /\ closed = {}
  BY <1>1 DEF PhaseInv, WayInv
<1>4. ~ Credited' /\ closed' = {}
  BY <1>1, <1>2, <1>3, PathFacts DEF Untouched, Never, Credited, StartTransfer
<1>5. /\ i \in Nodes \ {call.to} /\ NextNode(i) \in Nodes /\ D(i) \in Nat
      /\ \A k \in Nodes : D(k) \in Nat
      /\ \A k \in Nodes \ {call.to} : D(NextNode(k)) < D(k)
      /\ spawned \subseteq Nodes
  BY <1>1, PathFacts DEF D, TypeOK
<1>6. OnPath /\ AtEnd
  BY <1>1 DEF PathInv
<1>7. chan' = [Silent EXCEPT ![<<i, NextNode(i)>>] = <<Transfer(call.amount)>>]
  <2>1. <<i, NextNode(i)>> \in Links
    BY <1>5 DEF Links
  <2>2. chan[<<i, NextNode(i)>>] = <<>>
    BY <1>3, <2>1 DEF Untouched, Silent
  <2>3. Append(chan[<<i, NextNode(i)>>], Transfer(call.amount)) = <<Transfer(call.amount)>>
    BY <2>2
  <2>. QED BY <1>3, <2>3 DEF StartTransfer, Untouched
<1>8. SentBy(i)'
  <2>1. Distance[call.to][i] <= Distance[call.to][call.from]
    BY <1>1, <1>5 DEF D
  <2>. QED BY <1>2, <1>7, <2>1 DEF SentBy
<1>9. adj_edges[i] = {NextNode(i)}
  <2>1. \A k \in spawned : NextNode(k) # i
    <3>1. SUFFICES ASSUME NEW k \in spawned, NextNode(k) = i PROVE FALSE
      OBVIOUS
    <3>2. k \in Nodes \ {call.to} /\ D(i) < D(k)
      BY <1>5, <3>1, PathFacts, <1>1, PathsAssumption
    <3>3. k = i \/ D(k) < D(i)
      BY <1>1, <1>6, <3>1 DEF OnPath
    <3>. QED BY <1>5, <3>2, <3>3
  <2>. QED BY <1>1, <1>5, <1>6, <2>1 DEF OnPath
<1>10. writers' = [Nobody EXCEPT ![i] = {NextNode(i)}]
  BY <1>3, <1>5 DEF StartTransfer, Untouched, Nobody
<1>11. \A k \in spawned : writers'[k] = IF D(k) < D(i) THEN {} ELSE adj_edges[k]
  <2>1. SUFFICES ASSUME NEW k \in spawned
                 PROVE  writers'[k] = IF D(k) < D(i) THEN {} ELSE adj_edges[k]
    OBVIOUS
  <2>2. k = i \/ D(k) < D(i)
    BY <1>1, <1>6 DEF OnPath
  <2>3. ~ (D(i) < D(i)) /\ k \in Nodes
    BY <1>5
  <2>4. writers'[k] = IF k = i THEN {NextNode(i)} ELSE {}
    BY <1>10, <2>3 DEF Nobody
  <2>. QED BY <1>9, <2>2, <2>3, <2>4
<1>12. PassedBy(i)'
  BY <1>2, <1>8, <1>11 DEF PassedBy
<1>. QED BY <1>1, <1>2, <1>4, <1>5, <1>12 DEF WayInv

(* The node that finds the amount is the next one of the node that has      *)
(* passed it.                                                               *)
LEMMA PassedFacts ==
  ASSUME TypeOK, PhaseInv, PathInv, WayInv, NEW i \in Nodes, NEW j \in Nodes,
         Receives(i, j, "transfer_amount")
  PROVE  /\ Started /\ Running /\ ~ Credited /\ closed = {}
         /\ finished = Never /\ interrupt = Never /\ counter_finished = Zero
         /\ j \in spawned \ {call.to} /\ i = NextNode(j) /\ i \in spawned
         /\ PassedBy(j)
         /\ chan = [Silent EXCEPT ![<<j, i>>] = <<Transfer(call.amount)>>]
         /\ Head(chan[<<j, i>>]) = Transfer(call.amount)
<1>1. /\ Started /\ Running /\ j # call.to /\ SentBy(j) /\ i = NextNode(j)
      /\ Head(chan[<<j, i>>]) = Transfer(call.amount)
      /\ finished = Never /\ interrupt = Never /\ counter_finished = Zero
      /\ i \in spawned /\ chan[<<j, i>>] # <<>>
  BY PhaseOfMessage, ReadFacts
<1>2. ~ Credited /\ closed = {}
  BY <1>1, PathFacts DEF Credited, Never, WayInv
<1>3. PICK k \in spawned \ {call.to} : PassedBy(k)
  BY <1>1, <1>2 DEF WayInv
<1>4. k = j
  <2>1. <<j, i>> \in Links
    BY DEF Links
  <2>. QED BY <1>1, <1>3, <2>1 DEF PassedBy, SentBy, Silent
<1>. QED BY <1>1, <1>2, <1>3, <1>4 DEF SentBy

(* A relay passes the amount on. *)
LEMMA RelayWayInv ==
  ASSUME TypeOK, PhaseInv, PathInv, WayInv, NEW i \in Nodes, NEW j \in Nodes,
         RelayTransfer(i, j)
  PROVE  WayInv'
<1>1. /\ Started /\ Running /\ ~ Credited /\ closed = {} /\ UNCHANGED main
      /\ j \in spawned \ {call.to} /\ i = NextNode(j) /\ i \in spawned
      /\ PassedBy(j) /\ finished' = finished /\ closed' = closed
      /\ posted' = posted
  BY PassedFacts DEF RelayTransfer
<1>2. /\ Started' /\ call' = call /\ spawned' = spawned /\ adj_edges' = adj_edges
      /\ \A k : NextNode(k)' = NextNode(k) /\ D(k)' = D(k)
  BY <1>1, MainUnchanged DEF Started, main, D
<1>3. ~ Credited' /\ closed' = {}
  BY <1>1, <1>2 DEF Credited
<1>4. PhaseInv' /\ TypeOK'
  BY NextPhaseInv, NextTypeOK DEF Next, NodeStep
<1>5. /\ i # call.to /\ NextNode(i) \in Nodes /\ D(i) < D(j)
      /\ \A k \in Nodes : D(k) \in Nat
  BY <1>1, PathFacts DEF RelayTransfer, D
<1>6. adj_edges[i] = {j, NextNode(i)} /\ OnPath /\ spawned \subseteq Nodes
  BY <1>1, <1>5, CompletePath
<1>7. PICK k \in Nodes \ {call.to} : SentBy(k)'
  <2>1. Outward' \/ Homeward'
    BY <1>2, <1>4 DEF PhaseInv
  <2>. QED BY <1>2, <1>3, <2>1 DEF Outward, Homeward
<1>8. k = i
  <2>1. <<i, NextNode(i)>> \in Links /\ <<i, NextNode(i)>> # <<j, i>>
        /\ NextNode(i) \in {NextNode(i)}
    BY <1>1, <1>5, PathFacts DEF Links
  <2>2. chan'[<<i, NextNode(i)>>] = Append(chan[<<i, NextNode(i)>>], Head(chan[<<j, i>>]))
    BY <2>1 DEF RelayTransfer, Answer
  <2>3. chan[<<i, NextNode(i)>>] \in Seq(Message) /\ Head(chan[<<j, i>>]) \in Message
    BY <2>1, ReadFacts DEF TypeOK, RelayTransfer
  <2>4. chan'[<<i, NextNode(i)>>] # <<>>
    <3>1. ASSUME NEW m \in Message, NEW s \in Seq(Message)
          PROVE  Append(s, m) # <<>>
      <4>1. Len(Append(s, m)) = Len(s) + 1 /\ Len(s) \in Nat /\ Len(<<>>) = 0
        BY <3>1
      <4>2. Len(Append(s, m)) # Len(<<>>)
        BY <4>1
      <4>. QED BY <4>2, Zenon
    <3>. QED BY <2>2, <2>3, <3>1, Zenon
  <2>. QED BY <1>7, <2>1, <2>4 DEF SentBy, Silent
<1>9. ASSUME NEW l \in spawned
      PROVE  writers'[l] = IF D(l) < D(i) THEN {} ELSE adj_edges[l]
  <2>1. writers[l] = IF D(l) < D(j) THEN {} ELSE adj_edges[l]
    BY <1>1 DEF PassedBy
  <2>2. CASE l = i
    <3>1. writers'[i] = writers[i] \cup {j, NextNode(i)}
      BY DEF RelayTransfer, TypeOK
    <3>2. ~ (D(i) < D(i))
      BY <1>1, <1>5, <1>6
    <3>. QED BY <1>6, <2>1, <2>2, <3>1, <3>2
  <2>3. CASE l # i
    <3>1. writers'[l] = writers[l]
      BY <2>3 DEF RelayTransfer, TypeOK
    <3>2. D(l) < D(j) <=> D(l) < D(i)
      <4>1. D(l) < D(j) => D(l) < D(i)
        BY <1>1, <1>6, <2>3 DEF OnPath
      <4>2. D(l) \in Nat /\ D(i) \in Nat /\ D(j) \in Nat /\ D(i) < D(j)
        BY <1>5, <1>6
      <4>. QED BY <4>1, <4>2
    <3>. QED BY <2>1, <3>1, <3>2
  <2>. QED BY <2>2, <2>3
<1>10. PassedBy(i)'
  BY <1>2, <1>7, <1>8, <1>9 DEF PassedBy
<1>. QED BY <1>1, <1>2, <1>3, <1>5, <1>10 DEF WayInv

(* The amount comes in and finished is on its way. *)
LEMMA PaymentWayInv ==
  ASSUME TypeOK, PhaseInv, PathInv, WayInv, NEW i \in Nodes, NEW j \in Nodes,
         ReceivePayment(i, j)
  PROVE  WayInv'
<1>1. /\ Started /\ Running /\ ~ Credited /\ closed = {} /\ UNCHANGED main
      /\ j \in spawned \ {call.to} /\ i = NextNode(j) /\ i \in spawned
      /\ PassedBy(j) /\ closed' = closed /\ posted' = posted
      /\ finished = Never /\ interrupt = Never /\ counter_finished = Zero
      /\ chan = [Silent EXCEPT ![<<j, i>>] = <<Transfer(call.amount)>>]
  BY PassedFacts DEF ReceivePayment
<1>2. i = call.to /\ i # j
  BY <1>1, PathFacts, PathsAssumption DEF ReceivePayment
<1>3. /\ Started' /\ call' = call /\ spawned' = spawned /\ adj_edges' = adj_edges
      /\ \A k : NextNode(k)' = NextNode(k) /\ D(k)' = D(k)
  BY <1>1, MainUnchanged DEF Started, main, D
<1>4. finished' = [k \in Nodes |-> k = i] /\ Credited'
  BY <1>1, <1>2, <1>3 DEF ReceivePayment, Never, Credited
<1>5. /\ adj_edges[i] = {j} /\ OnPath /\ AtEnd /\ spawned \subseteq Nodes
      /\ \A k \in Nodes : D(k) \in Nat
  <2>1. {k \in Nodes : k = NextNode(NextNode(j))} = {}
    BY <1>1, <1>2, PathFacts, PathsAssumption
  <2>. QED BY <1>1, <2>1, CompletePath
<1>6. ASSUME NEW l \in spawned PROVE writers'[l] = adj_edges[l]
  <2>1. writers[l] = IF D(l) < D(j) THEN {} ELSE adj_edges[l]
    BY <1>1 DEF PassedBy
  <2>2. CASE l = i
    <3>1. writers'[i] = writers[i] \cup {j}
      BY DEF ReceivePayment, TypeOK
    <3>. QED BY <1>5, <2>1, <2>2, <3>1
  <2>3. CASE l # i
    <3>1. writers'[l] = writers[l]
      BY <2>3 DEF ReceivePayment, TypeOK
    <3>2. ~ (D(l) < D(j))
      <4>1. SUFFICES ASSUME D(l) < D(j) PROVE FALSE
        OBVIOUS
      <4>2. D(l) < D(i) /\ D(i) < D(l)
        BY <1>1, <1>2, <1>5, <2>3, <4>1 DEF OnPath, AtEnd
      <4>. QED BY <1>5, <4>2
    <3>. QED BY <2>1, <3>1, <3>2
  <2>. QED BY <2>2, <2>3
<1>7. \A e \in Links : chan'[e] = IF e = <<i, j>> THEN <<Finished>> ELSE <<>>
  <2>1. SUFFICES ASSUME NEW e \in Links
                 PROVE  chan'[e] = IF e = <<i, j>> THEN <<Finished>> ELSE <<>>
    OBVIOUS
  <2>2. writers'[i] = {j}
    BY <1>1, <1>5, <1>6
  <2>3. Append(<<>>, Finished) = <<Finished>> /\ Tail(<<Transfer(call.amount)>>) = <<>>
    OBVIOUS
  <2>4. e[1] = i /\ e[2] \in writers'[i] <=> e = <<i, j>>
    BY <2>2 DEF Links
  <2>5. CASE e = <<j, i>>
    BY <1>1, <1>2, <2>3, <2>5 DEF ReceivePayment, Answer, Silent
  <2>6. CASE e # <<j, i>>
    <3>1. chan[e] = <<>>
      BY <1>1, <2>6 DEF Silent
    <3>2. chan'[e] = IF e = <<i, j>> THEN Append(<<>>, Finished) ELSE <<>>
      BY <2>4, <2>6, <3>1 DEF ReceivePayment, Answer
    <3>. QED BY <2>3, <3>2
  <2>. QED BY <2>5, <2>6
<1>8. ASSUME NEW k \in Nodes, NEW l \in Nodes
      PROVE  IF finished'[k] /\ l \in adj_edges'[k]
             THEN Sent(k, l)' \/ Answered(k, l)' ELSE Unused(k, l)'
  <2>1. <<k, l>> \in Links /\ <<k, l>> \notin closed'
    BY <1>1 DEF Links
  <2>2. finished'[k] /\ l \in adj_edges'[k] <=> <<k, l>> = <<i, j>>
    BY <1>3, <1>4, <1>5
  <2>. QED BY <1>7, <2>1, <2>2 DEF Sent, Unused
<1>9. ASSUME NEW l \in spawned
      PROVE  /\ counter_finished'[l] = Cardinality(ClosedTo(l)')
             /\ ~ interrupt'[l]
  <2>1. ClosedTo(l)' = {}
    BY <1>1 DEF ClosedTo
  <2>2. counter_finished'[l] = 0 /\ ~ interrupt'[l]
    BY <1>1, <1>5 DEF ReceivePayment, Zero, Never
  <2>. QED BY <2>1, <2>2, FS_EmptySet
<1>10. HomeInv'
  BY <1>3, <1>6, <1>8, <1>9 DEF HomeInv, EdgesHome
<1>. QED BY <1>3, <1>4, <1>10 DEF WayInv

(* A finished is read: its connection closes, and the node answers if it is *)
(* the first.                                                               *)
LEMMA FinishedWayInv ==
  ASSUME TypeOK, PhaseInv, PathInv, WayInv, NEW i \in Nodes, NEW j \in Nodes,
         AnswerToFinished(i, j)
  PROVE  WayInv'
<1>1. /\ Started /\ Running /\ Credited /\ Credited' /\ UNCHANGED main
      /\ posted' = posted /\ i \in spawned /\ chan[<<j, i>>] # <<>>
      /\ <<j, i>> \notin closed
  BY FinishedFacts DEF Homeward, AnswerToFinished, Receives
<1>2. /\ Started' /\ call' = call /\ spawned' = spawned /\ adj_edges' = adj_edges
  BY <1>1, MainUnchanged DEF Started, main
<1>3. HomeInv
  BY <1>1 DEF WayInv
<1>4. /\ \A k \in Nodes : adj_edges[k] \subseteq spawned \ {k}
      /\ \A k, l \in Nodes : k \in adj_edges[l] => l \in adj_edges[k]
      /\ spawned \subseteq Nodes
  BY <1>1, CompletePath
<1>5. finished[j] /\ i \in adj_edges[j] /\ Sent(j, i)
  BY <1>1, <1>3 DEF HomeInv, EdgesHome, Unused, Answered
<1>6. j \in adj_edges[i] /\ i # j
  BY <1>4, <1>5
<1>7. writers[i] = adj_edges[i] /\ writers' = writers
      /\ closed' = closed \cup {<<j, i>>}
      /\ finished' = [finished EXCEPT ![i] = TRUE]
  BY <1>1, <1>3 DEF HomeInv, AnswerToFinished
<1>8. ASSUME NEW k \in Nodes, NEW l \in Nodes
      PROVE  IF finished'[k] /\ l \in adj_edges'[k]
             THEN Sent(k, l)' \/ Answered(k, l)' ELSE Unused(k, l)'
  <2>1. /\ <<k, l>> \in Links
        /\ IF finished[k] /\ l \in adj_edges[k]
           THEN Sent(k, l) \/ Answered(k, l) ELSE Unused(k, l)
    BY <1>3 DEF HomeInv, EdgesHome, Links
  <2>2. chan'[<<k, l>>] = IF <<k, l>> = <<j, i>> THEN Tail(chan[<<k, l>>])
                          ELSE IF k = i /\ l \in RelayTo(i)
                          THEN Append(chan[<<k, l>>], Finished)
                          ELSE chan[<<k, l>>]
    BY <2>1 DEF AnswerToFinished, Answer
  <2>3. CASE k = j /\ l = i
    <3>1. Tail(<<Finished>>) = <<>>
      OBVIOUS
    <3>2. Answered(k, l)'
      BY <1>5, <1>7, <2>2, <2>3, <3>1 DEF Sent, Answered
    <3>3. finished'[k] /\ l \in adj_edges'[k]
      BY <1>2, <1>5, <1>6, <1>7, <2>3 DEF TypeOK
    <3>. QED BY <3>2, <3>3
  <2>4. CASE k = i
    <3>1. <<k, l>> # <<j, i>> /\ finished'[k]
      BY <1>6, <1>7, <2>4 DEF TypeOK
    <3>2. <<k, l>> \in closed' <=> <<k, l>> \in closed
      BY <1>7, <3>1
    <3>3. CASE finished[i] \/ l \notin adj_edges[i]
      <4>1. chan'[<<k, l>>] = chan[<<k, l>>]
        BY <1>7, <2>2, <2>4, <3>1, <3>3 DEF RelayTo
      <4>. QED BY <1>2, <2>1, <2>4, <3>1, <3>2, <3>3, <4>1 DEF Sent, Answered, Unused
    <3>4. CASE ~ finished[i] /\ l \in adj_edges[i]
      <4>1. Unused(k, l)
        BY <2>1, <2>4, <3>4
      <4>2. Append(<<>>, Finished) = <<Finished>>
        OBVIOUS
      <4>3. chan'[<<k, l>>] = <<Finished>>
        BY <1>7, <2>2, <2>4, <3>1, <3>4, <4>1, <4>2 DEF RelayTo, Unused
      <4>. QED BY <1>2, <2>4, <3>1, <3>2, <3>4, <4>1, <4>3 DEF Sent, Unused
    <3>. QED BY <3>3, <3>4
  <2>5. CASE k # i /\ ~ (k = j /\ l = i)
    <3>1. /\ chan'[<<k, l>>] = chan[<<k, l>>] /\ finished'[k] = finished[k]
          /\ <<k, l>> \in closed' <=> <<k, l>> \in closed
      BY <1>7, <2>2, <2>5 DEF TypeOK
    <3>. QED BY <1>2, <2>1, <3>1 DEF Sent, Answered, Unused
  <2>. QED BY <2>3, <2>4, <2>5
<1>9. ASSUME NEW l \in spawned
      PROVE  /\ counter_finished'[l] = Cardinality(ClosedTo(l)')
             /\ interrupt'[l] => finished'[l] /\ ClosedTo(l)' = adj_edges[l]
  <2>1. /\ counter_finished[l] = Cardinality(ClosedTo(l))
        /\ interrupt[l] => finished[l] /\ ClosedTo(l) = adj_edges[l]
    BY <1>3 DEF HomeInv
  <2>2. IsFiniteSet(adj_edges[l]) /\ l \in Nodes
    <3>1. adj_edges[l] \subseteq Nodes /\ IsFiniteSet(Nodes) /\ l \in Nodes
      BY <1>4, PathsAssumption
    <3>. QED BY <3>1, FS_Subset
  <2>3. CASE l # i
    <3>1. ClosedTo(l)' = ClosedTo(l)
      BY <1>2, <1>7, <2>3 DEF ClosedTo
    <3>2. /\ counter_finished'[l] = counter_finished[l]
          /\ interrupt'[l] = interrupt[l] /\ finished'[l] = finished[l]
      BY <2>2, <2>3 DEF AnswerToFinished, TypeOK
    <3>. QED BY <2>1, <3>1, <3>2
  <2>4. CASE l = i
    <3>1. ClosedTo(i)' = ClosedTo(i) \cup {j} /\ j \notin ClosedTo(i)
      BY <1>1, <1>2, <1>6, <1>7 DEF ClosedTo
    <3>2. IsFiniteSet(ClosedTo(i)) /\ ClosedTo(i)' \subseteq adj_edges[i]
      BY <1>2, <2>2, <2>4, FS_Subset DEF ClosedTo
    <3>3. Cardinality(ClosedTo(i)') = counter_finished[i] + 1
      <4>1. Cardinality(ClosedTo(i) \cup {j}) = Cardinality(ClosedTo(i)) + 1
        BY <3>1, <3>2, FS_AddElement
      <4>. QED BY <2>1, <2>4, <3>1, <4>1
    <3>4. counter_finished'[i] = counter_finished[i] + 1
      BY DEF AnswerToFinished, TypeOK
    <3>5. ASSUME interrupt'[i] PROVE ClosedTo(i)' = adj_edges[i]
      <4>1. counter_finished[i] + 1 = Cardinality(adj_edges[i])
        BY <1>7, <3>5 DEF AnswerToFinished, TypeOK
      <4>2. Cardinality(ClosedTo(i)') = Cardinality(adj_edges[i])
        BY <3>3, <4>1
      <4>. QED BY <2>2, <2>4, <3>2, <4>2, FS_Subset
    <3>6. finished'[i]
      BY <1>7 DEF TypeOK
    <3>. QED BY <2>4, <3>3, <3>4, <3>5, <3>6
  <2>. QED BY <2>3, <2>4
<1>10. \A l \in spawned' : writers'[l] = adj_edges'[l]
  BY <1>2, <1>3, <1>7 DEF HomeInv
<1>11. HomeInv'
  BY <1>2, <1>8, <1>9, <1>10 DEF HomeInv, EdgesHome
<1>. QED BY <1>1, <1>2, <1>11 DEF WayInv

(* Every step keeps the way of the amount and of finished. *)
LEMMA NextWayInv ==
  ASSUME TypeOK, PhaseInv, PathInv, WayInv, [Next]_vars
  PROVE  WayInv'
<1>1. ASSUME ~ Started, ~ Started', closed' = closed \/ closed' = {}
      PROVE  WayInv'
  BY <1>1 DEF WayInv
<1>2. ASSUME NEW f \in Nodes, NEW t \in Nodes, NEW a \in Amounts, Begin(f, t, a)
      PROVE  WayInv'
  BY <1>1, <1>2 DEF Begin, Started, threads
<1>3. ASSUME SpawnOnPath \/ SpawnLast PROVE WayInv'
  BY <1>1, <1>3 DEF SpawnOnPath, SpawnLast, Started, threads
<1>4. ASSUME Post PROVE WayInv'
  BY <1>1, <1>4 DEF Post, Started
<1>5. ASSUME Return PROVE WayInv'
  BY <1>5 DEF Return, Started, WayInv
<1>6. ASSUME Announce PROVE WayInv'
  BY <1>6, SameWay DEF Announce, Started, threads
<1>7. ASSUME NEW i \in Nodes, Join(i) PROVE WayInv'
  <2>1. UNCHANGED main /\ posted' = posted
    BY <1>7 DEF Join
  <2>2. UNCHANGED <<call, spawned, adj_edges, writers, finished, interrupt,
                    counter_finished, chan, closed>>
    BY <1>7 DEF Join, main
  <2>3. Started' <=> Started
    BY <2>1 DEF Started, main
  <2>. QED BY <2>2, <2>3, SameWay
<1>8. ASSUME UNCHANGED vars PROVE WayInv'
  BY <1>8, SameWay DEF vars, main, threads, Started
<1>. QED BY <1>2, <1>3, <1>4, <1>5, <1>6, <1>7, <1>8, StartWayInv, RelayWayInv,
            PaymentWayInv, FinishedWayInv DEF Next, CallStep, NodeStep

LEMMA WayHolds == Spec => [](PathInv /\ WayInv)
<1>1. Init => PathInv /\ WayInv
  BY DEF Init, PathInv, OnPath, WayInv, Started, Nobody
<1>2. /\ TypeOK /\ PhaseInv /\ PaidInOrder /\ PathInv /\ WayInv /\ [Next]_vars
      => PathInv' /\ WayInv'
  BY NextPathInv, NextWayInv
<1>. QED BY <1>1, <1>2, Inductive, PTL DEF Spec

(* transfer_amount leaves nothing behind: every connection that a handler   *)
(* waited for has been opened, emptied and closed (main.cpp:320).           *)
THEOREM ReturnIsClean == Spec => []CleanReturn
<1>1. TypeOK /\ PhaseInv /\ PathInv /\ WayInv => CleanReturn
  <2>1. SUFFICES ASSUME TypeOK, PhaseInv, PathInv, WayInv, pc = "join", AllJoined
                 PROVE  /\ \A i \in spawned :
                              /\ writers[i] = adj_edges[i]
                              /\ \A j \in adj_edges[i] : i \in adj_edges[j]
                        /\ closed = {e \in Links : e[2] \in adj_edges[e[1]]}
                        /\ \A e \in Links : chan[e] = <<>>
                        /\ ~ posted
    BY DEF CleanReturn
  <2>2. \A i \in spawned : i \in Nodes /\ interrupt[i]
    BY <2>1 DEF AllJoined, PhaseInv, TypeOK
  <2>3. call.from \in spawned /\ call.from \in Nodes
    BY <2>1, <2>2 DEF PhaseInv, WalkInv
  <2>4. Started /\ Credited /\ ~ posted
    BY <2>1, <2>2, <2>3 DEF PhaseInv, Started, Untouched, Never, Outward, Homeward
  <2>5. HomeInv
    BY <2>1, <2>4 DEF WayInv
  <2>6. /\ \A k \in Nodes : adj_edges[k] \subseteq spawned \ {k}
        /\ \A k, l \in Nodes : k \in adj_edges[l] => l \in adj_edges[k]
        /\ spawned \subseteq Nodes
    BY <2>1, <2>4, CompletePath
  <2>7. \A k, l \in Nodes : l \in adj_edges[k] => <<k, l>> \in closed
    <3>1. SUFFICES ASSUME NEW k \in Nodes, NEW l \in Nodes, l \in adj_edges[k]
                   PROVE  <<k, l>> \in closed
      OBVIOUS
    <3>2. l \in spawned /\ k \in adj_edges[l]
      BY <2>6, <3>1
    <3>3. ClosedTo(l) = adj_edges[l]
      BY <2>2, <2>5, <3>2 DEF HomeInv
    <3>. QED BY <3>2, <3>3 DEF ClosedTo
  <2>8. ASSUME NEW k \in Nodes, NEW l \in Nodes
        PROVE  /\ <<k, l>> \in closed <=> l \in adj_edges[k]
               /\ chan[<<k, l>>] = <<>>
    BY <2>5, <2>7 DEF HomeInv, EdgesHome, Sent, Answered, Unused
  <2>9. closed \subseteq Links
    BY <2>1 DEF TypeOK
  <2>10. closed = {e \in Links : e[2] \in adj_edges[e[1]]}
    BY <2>8, <2>9 DEF Links
  <2>11. \A e \in Links : chan[e] = <<>>
    BY <2>8 DEF Links
  <2>12. \A i \in spawned : /\ writers[i] = adj_edges[i]
                            /\ \A j \in adj_edges[i] : i \in adj_edges[j]
    BY <2>5, <2>6 DEF HomeInv
  <2>. QED BY <2>4, <2>10, <2>11, <2>12
<1>. QED BY <1>1, WayHolds, Inductive, PTL

----------------------------------------------------------------------------
(* What a node can rely on, whatever else is under way.  An amount finds it *)
(* without connections of its own.                                          *)
LEMMA NewReceiver ==
  ASSUME TypeOK, PhaseInv, PathInv, WayInv, NEW i \in Nodes, NEW j \in Nodes,
         Receives(i, j, "transfer_amount")
  PROVE  writers[i] = {} /\ ~ transfering_account[i]
<1>1. /\ Started /\ Running /\ PassedBy(j) /\ i = NextNode(j)
      /\ j \in spawned \ {call.to} /\ i \in spawned
  BY PassedFacts
<1>2. j \in Nodes \ {call.to} /\ i \in Nodes /\ call.from \in Nodes
  BY <1>1, PathFacts DEF TypeOK
<1>3. D(i) < D(j) /\ D(i) \in Nat /\ D(j) \in Nat /\ D(call.from) \in Nat
  BY <1>1, <1>2, PathFacts DEF D
<1>4. writers[i] = {}
  BY <1>1, <1>3 DEF PassedBy
<1>5. i # call.from
  <2>1. D(j) <= D(call.from)
    BY <1>1 DEF PassedBy, SentBy, D
  <2>. QED BY <1>3, <2>1
<1>6. transfering_account = [k \in Nodes |-> k = call.from]
  BY <1>1 DEF PhaseInv
<1>. QED BY <1>4, <1>5, <1>6

(* On a connection that carries a finished nothing else is left. *)
LEMMA FinishedOnly ==
  ASSUME TypeOK, PhaseInv, NEW e \in Links, NEW n \in DOMAIN chan[e],
         chan[e][n] = Finished
  PROVE  \A k \in DOMAIN chan[e] : chan[e][k] = Finished
<1>1. Started
  BY DEF PhaseInv, Untouched, Silent
<1>2. ASSUME Outward PROVE FALSE
  <2>1. PICK j \in Nodes \ {call.to} : SentBy(j)
    BY <1>2 DEF Outward
  <2>2. chan[e] = <<>> \/ chan[e] = <<Transfer(call.amount)>>
    BY <2>1 DEF SentBy, Silent
  <2>3. chan[e] = <<Transfer(call.amount)>> /\ n = 1
    BY <2>2
  <2>. QED BY <2>3, MessageFacts
<1>. QED BY <1>1, <1>2 DEF PhaseInv, Homeward

(* A finished is alone on its connection. *)
LEMMA LastMessage ==
  ASSUME TypeOK, PhaseInv, PathInv, WayInv, NEW i \in Nodes, NEW j \in Nodes,
         Receives(i, j, "finished")
  PROVE  chan[<<j, i>>] = <<Finished>>
<1>1. Started /\ Credited /\ chan[<<j, i>>] # <<>>
  BY PhaseOfMessage, ReadFacts DEF Homeward
<1>2. EdgesHome
  BY <1>1 DEF WayInv, HomeInv
<1>. QED BY <1>1, <1>2 DEF EdgesHome, Sent, Answered, Unused

(* Nothing is on its way to a node that has left its loop. *)
LEMMA NothingMore ==
  ASSUME TypeOK, PhaseInv, PathInv, WayInv, NEW i \in spawned, interrupt[i]
  PROVE  /\ ~ posted /\ HandlerDone(i)
         /\ \A j \in Nodes : chan[<<j, i>>] = <<>>
<1>1. i \in Nodes /\ interrupt # Never
  BY DEF TypeOK, Never
<1>2. Started /\ Credited /\ ~ posted
  BY <1>1 DEF PhaseInv, Untouched, Outward, Homeward, Started
<1>3. HomeInv
  BY <1>2 DEF WayInv
<1>4. ClosedTo(i) = adj_edges[i]
  BY <1>3 DEF HomeInv
<1>5. \A j \in Nodes : i \in adj_edges[j] => j \in adj_edges[i]
  BY <1>1, <1>2, CompletePath
<1>6. HandlerDone(i)
  BY <1>4 DEF ClosedTo, HandlerDone
<1>7. \A j \in Nodes : chan[<<j, i>>] = <<>>
  BY <1>1, <1>3, <1>5, <1>6 DEF HomeInv, EdgesHome, HandlerDone, Sent, Answered, Unused
<1>. QED BY <1>2, <1>6, <1>7

(* A node that has ended has written finished to each neighbour, and each   *)
(* has it, or has it on the connection.                                     *)
LEMMA FinishedSent ==
  ASSUME TypeOK, PhaseInv, PathInv, WayInv, NEW i \in spawned, interrupt[i],
         NEW j \in writers[i]
  PROVE  Sent(i, j) \/ Answered(i, j)
<1>1. i \in Nodes /\ interrupt # Never
  BY DEF TypeOK, Never
<1>2. Started /\ Credited
  BY <1>1 DEF PhaseInv, Untouched, Outward, Homeward, Started
<1>3. HomeInv
  BY <1>2 DEF WayInv
<1>4. j \in adj_edges[i] /\ j \in Nodes
  BY <1>1, <1>3 DEF HomeInv, TypeOK
<1>5. finished[i]
  BY <1>3 DEF HomeInv
<1>. QED BY <1>1, <1>3, <1>4, <1>5 DEF HomeInv, EdgesHome

=============================================================================
