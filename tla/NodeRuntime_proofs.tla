------------------------- MODULE NodeRuntime_proofs -------------------------
(***************************************************************************)
(* Theorems about NodeRuntime for every network and every order in which    *)
(* the threads start: a handler that accepts no more has accepted exactly   *)
(* the neighbours of its node, and a call in which a connection was refused *)
(* never returns.                                                           *)
(***************************************************************************)
EXTENDS NodeRuntime, FiniteInduction, SequenceTheorems

(* What main has done so far: it walks down the distances, and the thread   *)
(* of the paying node is the first.                                         *)
WalkInv ==
    /\ pc \in {"session", "walk", "last", "post", "announce", "join"}
    /\ spawned \subseteq Nodes
    /\ adj_edges \in [Nodes -> SUBSET Nodes]
    /\ Running => call.from \in Nodes /\ call.to \in Nodes /\ call.amount \in Amounts
    /\ pc = "session" => spawned = {}
    /\ pc \in {"walk", "last"} =>
          /\ current \in Nodes /\ previous \in Nodes \cup {NoNode}
          /\ following = NextNode(current)
          /\ \A i \in spawned : Distance[call.to][current] < Distance[call.to][i]
    /\ pc = "walk" => current # call.to /\ (current = call.from \/ call.from \in spawned)
    /\ pc = "last" => current = call.to
    /\ pc \in {"last", "post", "announce", "join"} => call.from \in spawned

(* The nodes next to each other on the path know of each other; the last    *)
(* one started is not yet known to the one that comes next.                 *)
PathInv ==
    /\ \A i \in Nodes : /\ (node[i] = "none") <=> (i \notin spawned)
                        /\ i \notin spawned => adj_edges[i] = {}
    /\ \A i \in spawned : NextNode(i) \in Nodes =>
          /\ NextNode(i) \in adj_edges[i]
          /\ \/ i \in adj_edges[NextNode(i)]
             \/ /\ pc \in {"walk", "last"}
                /\ previous = i /\ current = NextNode(i)

(* Nothing moves before main has posted its message. *)
QuietInv ==
    pc \in {"session", "walk", "last", "post"} =>
        /\ \A i \in Nodes : /\ queue[i] = <<>> /\ writers[i] = {}
                            /\ node[i] \in {"none", "created", "loop"}
                            /\ handler[i] \in {"none", "created", "listening"}
                            /\ count_connections[i] = 0
        /\ \A e \in Links : link[e] = "none" /\ stream[e] = <<>>

(* What may be under way to i: an amount comes from main, or from the node  *)
(* whose next one is i.                                                     *)
Deliverable(i) ==
    {m \in Message : m.type = "transfer_amount" =>
        m.sender = NoNode \/ (m.sender \in spawned /\ NextNode(m.sender) = i)}

MessageInv ==
    /\ DOMAIN answering = Nodes
    /\ \A i \in Nodes : /\ queue[i] \in Seq(Deliverable(i))
                        /\ queue[i] # <<>> => i \in spawned
                        /\ Connecting(i) => /\ answering[i] \in Deliverable(i)
                                            /\ answering[i].type = "transfer_amount"
    /\ \A i, j \in Nodes : stream[<<j, i>>] \in Seq(Deliverable(i))

(* Connections are opened only between neighbours on the path, and a        *)
(* handler has counted those it has accepted.                               *)
Accepted(i) == {j \in Nodes : link[<<j, i>>] \in {"accepted", "closed"}}

LinkInv ==
    /\ \A i \in Nodes : \A j \in writers[i] : i \in adj_edges[j]
    /\ \A i, j \in Nodes : link[<<j, i>>] # "none" => j \in adj_edges[i]
    /\ \A i \in Nodes : count_connections[i] = Cardinality(Accepted(i))

(* The end of a handler and of a node. *)
EndInv ==
    \A i \in Nodes :
        /\ handler[i] \in {"full", "done"} =>
              count_connections[i] >= Cardinality(adj_edges[i])
        /\ handler[i] = "done" => \A j \in Nodes : link[<<j, i>>] # "accepted"
        /\ node[i] = "ended" => handler[i] = "done" /\ queue[i] = <<>>
        /\ node[i] \in {"none", "created"} => handler[i] = "none"

IInv == TypeOK /\ WalkInv /\ PathInv /\ QuietInv /\ MessageInv /\ LinkInv /\ EndInv

----------------------------------------------------------------------------
(* The parents of the shortest paths lead down to the receiving account. *)
LEMMA PathFacts ==
    /\ NoNode \notin Nodes
    /\ \A t \in Nodes, i \in Nodes : /\ Parent[t][i] \in Nodes \cup {NoNode}
                                    /\ Distance[t][i] \in Nat
                                    /\ Parent[t][t] = NoNode
    /\ \A t \in Nodes, i \in Nodes : i # t =>
          /\ Parent[t][i] \in Nodes
          /\ Distance[t][Parent[t][i]] < Distance[t][i]
  BY PathsAssumption

(* The fields of a message. *)
LEMMA MessageFacts ==
    /\ \A s \in Nodes \cup {NoNode}, a \in Amounts :
          /\ Transfer(s, a) \in Message /\ Transfer(s, a).sender = s
          /\ Transfer(s, a).type = "transfer_amount"
    /\ \A s \in Nodes : /\ Finished(s) \in Message
                         /\ Finished(s).type = "finished"
    /\ \A m \in Message : m.type = "transfer_amount" =>
          m.sender \in Nodes \cup {NoNode} /\ m.amount \in Amounts
    /\ \A i : \A m \in Deliverable(i) : m \in Message
  BY DEF Transfer, Finished, Message, Deliverable

(* Where a queue or a stream is read or written it stays a sequence of what *)
(* may be in it.                                                            *)
LEMMA SeqFacts ==
    ASSUME NEW S, NEW s \in Seq(S)
    PROVE  /\ <<>> \in Seq(S)
           /\ s # <<>> => Head(s) \in S /\ Tail(s) \in Seq(S)
           /\ \A m \in S : Append(s, m) \in Seq(S)
<1>1. <<>> \in Seq(S)
  OBVIOUS
<1>2. s # <<>> => Head(s) \in S /\ Tail(s) \in Seq(S)
  BY HeadTailProperties
<1>3. \A m \in S : Append(s, m) \in Seq(S)
  BY AppendProperties
<1>. QED BY <1>1, <1>2, <1>3

(* A step that leaves main alone leaves its part of the invariant alone.    *)
LEMMA MainSame ==
    ASSUME WalkInv, UNCHANGED main
    PROVE  /\ WalkInv'
           /\ \A i : NextNode(i)' = NextNode(i) /\ Deliverable(i)' = Deliverable(i)
           /\ Running' = Running
  BY DEF main, walk, WalkInv, NextNode, Deliverable, Running

LEMMA InitIInv == Init => IInv
<1>. SUFFICES ASSUME Init PROVE IInv
  OBVIOUS
<1>1. \A i \in Nodes : Accepted(i) = {}
  BY DEF Init, Accepted, Links
<1>2. Cardinality({}) = 0
  BY FS_EmptySet
<1>3. TypeOK
  BY <1>2, PathsAssumption DEF Init, TypeOK, Connecting, Amount
<1>4. WalkInv /\ PathInv /\ QuietInv /\ EndInv
  BY DEF Init, WalkInv, PathInv, QuietInv, EndInv, Running
<1>5. \A i \in Nodes : <<>> \in Seq(Deliverable(i))
  OBVIOUS
<1>6. MessageInv
  BY <1>5 DEF Init, MessageInv, Connecting, Links
<1>7. LinkInv
  BY <1>1, <1>2 DEF Init, LinkInv, Links
<1>. QED BY <1>3, <1>4, <1>6, <1>7 DEF IInv

----------------------------------------------------------------------------
(* What the steps of the threads leave alone. *)
LEMMA Frame ==
    ASSUME IInv, UNCHANGED main
    PROVE  /\ WalkInv'
           /\ (\A i \in Nodes : node'[i] = "none" <=> node[i] = "none") => PathInv'
           /\ UNCHANGED <<queue, node, answering, stream>> => MessageInv'
           /\ UNCHANGED <<writers, link, count_connections>> => LinkInv'
<1>1. /\ WalkInv'
      /\ \A i : NextNode(i)' = NextNode(i) /\ Deliverable(i)' = Deliverable(i)
  BY MainSame DEF IInv
<1>2. ASSUME \A i \in Nodes : node'[i] = "none" <=> node[i] = "none" PROVE PathInv'
  BY <1>1, <1>2 DEF IInv, PathInv, main, walk
<1>3. ASSUME UNCHANGED <<queue, node, answering, stream>> PROVE MessageInv'
  BY <1>1, <1>3 DEF IInv, MessageInv, Connecting, main
<1>4. ASSUME UNCHANGED <<writers, link, count_connections>> PROVE LinkInv'
  <2>1. \A i : Accepted(i)' = Accepted(i)
    BY <1>4 DEF Accepted
  <2>. QED BY <1>4, <2>1 DEF IInv, LinkInv, main
<1>. QED BY <1>1, <1>2, <1>3, <1>4

(* A thread that has anything to do but to start runs after main's message. *)
LEMMA NotQuiet ==
    ASSUME IInv,
           \/ \E i \in Nodes : \/ queue[i] # <<>> \/ Connecting(i)
                               \/ handler[i] \in {"full", "done"}
                               \/ node[i] \in {"joining", "ended"}
           \/ \E e \in Links : link[e] # "none" \/ stream[e] # <<>>
    PROVE  pc \in {"announce", "join"}
  BY DEF IInv, QuietInv, WalkInv, Connecting

(* The handler begins to listen. *)
LEMMA ListenStep ==
    ASSUME IInv, NEW i \in Nodes, Listen(i)
    PROVE  IInv'
<1>1. /\ handler[i] = "created"
      /\ handler' = [handler EXCEPT ![i] = "listening"]
      /\ UNCHANGED <<main, worker, count_connections, wire, queue>>
  BY DEF Listen
<1>2. TypeOK'
  BY <1>1 DEF IInv, TypeOK, worker, wire, main, Connecting
<1>3. WalkInv' /\ PathInv' /\ MessageInv' /\ LinkInv'
  BY <1>1, Frame DEF worker, wire
<1>4. QuietInv'
  BY <1>1 DEF IInv, TypeOK, QuietInv, worker, wire, main
<1>5. EndInv'
  BY <1>1 DEF IInv, TypeOK, EndInv, worker, wire, main
<1>. QED BY <1>2, <1>3, <1>4, <1>5 DEF IInv

(* A connection is accepted once, and counted. *)
LEMMA AcceptStep ==
    ASSUME IInv, NEW i \in Nodes, NEW j \in Nodes, Accept(i, j)
    PROVE  IInv'
<1>1. /\ handler[i] = "listening" /\ link[<<j, i>>] = "backlog"
      /\ link' = [link EXCEPT ![<<j, i>>] = "accepted"]
      /\ count_connections' = [count_connections EXCEPT ![i] = @ + 1]
      /\ handler' = [handler EXCEPT ![i] =
            IF count_connections[i] + 1 < Cardinality(adj_edges[i])
            THEN "listening" ELSE "full"]
      /\ UNCHANGED <<main, worker, stream, queue>>
  BY DEF Accept, Expects, IInv, TypeOK
<1>2. /\ link \in [Links -> {"none", "refused", "backlog", "accepted", "closed"}]
      /\ <<j, i>> \in Links
      /\ adj_edges \in [Nodes -> SUBSET Nodes]
      /\ count_connections \in [Nodes -> Nat] /\ DOMAIN handler = Nodes
  BY DEF IInv, TypeOK, WalkInv, Links
<1>3. \A k \in Nodes : IsFiniteSet(Accepted(k)) /\ IsFiniteSet(adj_edges[k])
  BY <1>2, PathsAssumption, FS_Subset DEF Accepted
<1>4. /\ j \notin Accepted(i)
      /\ Accepted(i)' = Accepted(i) \cup {j}
      /\ \A k \in Nodes \ {i} : Accepted(k)' = Accepted(k)
  BY <1>1, <1>2 DEF Accepted, Links
<1>5. LinkInv'
  <2>1. \A k \in Nodes : count_connections'[k] = Cardinality(Accepted(k)')
    BY <1>1, <1>2, <1>3, <1>4, FS_AddElement DEF IInv, LinkInv
  <2>2. \A k, l \in Nodes : link'[<<l, k>>] # "none" => l \in adj_edges'[k]
    BY <1>1, <1>2 DEF IInv, LinkInv, main, Links
  <2>3. \A k \in Nodes : \A l \in writers'[k] : k \in adj_edges'[l]
    BY <1>1 DEF IInv, LinkInv, main, worker
  <2>. QED BY <2>1, <2>2, <2>3 DEF LinkInv
<1>6. \A k \in Nodes : Accepted(k)' \subseteq adj_edges[k]
  BY <1>1, <1>5 DEF LinkInv, Accepted, main
<1>7. \A k \in Nodes : /\ count_connections'[k] \in Nat
                        /\ count_connections'[k] <= Cardinality(adj_edges[k])
                        /\ Cardinality(adj_edges[k]) \in Nat
  BY <1>1, <1>2, <1>3, <1>5, <1>6, FS_Subset, FS_CardinalityType DEF LinkInv
<1>8. TypeOK'
  <2>1. handler' \in [Nodes -> {"none", "created", "listening", "full", "done"}]
    BY <1>1 DEF IInv, TypeOK
  <2>2. link' \in [Links -> {"none", "refused", "backlog", "accepted", "closed"}]
    BY <1>1, <1>2
  <2>3. /\ count_connections' \in [Nodes -> Nat]
        /\ \A k \in Nodes : count_connections'[k] <= Cardinality(adj_edges'[k])
    BY <1>1, <1>2, <1>7 DEF main
  <2>. QED BY <1>1, <2>1, <2>2, <2>3 DEF IInv, TypeOK, worker, Connecting
<1>9. WalkInv' /\ PathInv' /\ MessageInv'
  BY <1>1, Frame DEF worker
<1>10. QuietInv'
  BY <1>1, <1>2, NotQuiet DEF QuietInv, main
<1>11. EndInv'
  <2>1. ASSUME NEW k \in Nodes, handler'[k] \in {"full", "done"}
        PROVE  count_connections'[k] >= Cardinality(adj_edges'[k])
    BY <1>1, <1>2, <1>7, <2>1 DEF IInv, TypeOK, EndInv, main
  <2>2. ASSUME NEW k \in Nodes, handler'[k] = "done", NEW l \in Nodes
        PROVE  link'[<<l, k>>] # "accepted"
    BY <1>1, <1>2, <2>2 DEF IInv, TypeOK, EndInv, Links
  <2>3. ASSUME NEW k \in Nodes
        PROVE  /\ node'[k] = "ended" => handler'[k] = "done" /\ queue'[k] = <<>>
               /\ node'[k] \in {"none", "created"} => handler'[k] = "none"
    BY <1>1, <1>2 DEF IInv, EndInv, worker
  <2>. QED BY <2>1, <2>2, <2>3, Zenon DEF EndInv
<1>. QED BY <1>5, <1>8, <1>9, <1>10, <1>11 DEF IInv

(* A message is moved from its connection to the queue; the connection of a *)
(* finished is closed, and stays counted.                                   *)
LEMMA ReadStep ==
    ASSUME IInv, NEW i \in Nodes, NEW j \in Nodes, Read(i, j)
    PROVE  IInv'
<1>. DEFINE m == Head(stream[<<j, i>>])
<1>1. /\ link[<<j, i>>] = "accepted" /\ stream[<<j, i>>] # <<>>
      /\ queue' = [queue EXCEPT ![i] = Append(@, m)]
      /\ stream' = [stream EXCEPT ![<<j, i>>] = Tail(@)]
      /\ link' = [link EXCEPT ![<<j, i>>] = IF m.type = "finished" THEN "closed" ELSE @]
      /\ UNCHANGED <<main, worker, server>>
  BY DEF Read
<1>2. /\ link \in [Links -> {"none", "refused", "backlog", "accepted", "closed"}]
      /\ queue \in [Nodes -> Seq(Message)] /\ stream \in [Links -> Seq(Message)]
      /\ \A k, l \in Nodes : <<k, l>> \in Links
  BY DEF IInv, TypeOK, Links
<1>3. \A k \in Nodes : Accepted(k)' = Accepted(k)
  BY <1>1, <1>2 DEF Accepted, Links
<1>4. /\ m \in Deliverable(i) /\ Tail(stream[<<j, i>>]) \in Seq(Deliverable(i))
      /\ Append(queue[i], m) \in Seq(Deliverable(i))
  <2>1. stream[<<j, i>>] \in Seq(Deliverable(i)) /\ queue[i] \in Seq(Deliverable(i))
    BY DEF IInv, MessageInv
  <2>. QED BY <1>1, <2>1, SeqFacts
<1>5. /\ m \in Message /\ Tail(stream[<<j, i>>]) \in Seq(Message)
      /\ Append(queue[i], m) \in Seq(Message)
  <2>1. stream[<<j, i>>] \in Seq(Message) /\ queue[i] \in Seq(Message)
    BY <1>2
  <2>. QED BY <1>1, <2>1, SeqFacts
<1>6. pc \in {"announce", "join"} /\ i \in spawned /\ node[i] # "ended"
  <2>1. pc \in {"announce", "join"}
    BY <1>1, <1>2, NotQuiet
  <2>2. j \in adj_edges[i]
    BY <1>1, <1>2 DEF IInv, LinkInv
  <2>3. node[i] # "ended"
    BY <1>1 DEF IInv, EndInv
  <2>. QED BY <2>1, <2>2, <2>3 DEF IInv, PathInv
<1>7. TypeOK'
  <2>1. queue' \in [Nodes -> Seq(Message)] /\ stream' \in [Links -> Seq(Message)]
    BY <1>1, <1>2, <1>5
  <2>2. link' \in [Links -> {"none", "refused", "backlog", "accepted", "closed"}]
    BY <1>1, <1>2
  <2>. QED BY <1>1, <2>1, <2>2 DEF IInv, TypeOK, worker, server, main, Connecting
<1>8. WalkInv' /\ PathInv' /\ \A k : Deliverable(k)' = Deliverable(k)
  BY <1>1, Frame, MainSame DEF worker, IInv
<1>9. QuietInv'
  BY <1>1, <1>6 DEF QuietInv, main
<1>10. MessageInv'
  <2>1. ASSUME NEW k \in Nodes
        PROVE  /\ queue'[k] \in Seq(Deliverable(k)')
               /\ queue'[k] # <<>> => k \in spawned'
    BY <1>1, <1>2, <1>4, <1>6, <1>8 DEF IInv, MessageInv, main
  <2>2. ASSUME NEW k \in Nodes, Connecting(k)'
        PROVE  /\ answering'[k] \in Deliverable(k)'
               /\ answering'[k].type = "transfer_amount"
    BY <1>1, <1>8, <2>2 DEF IInv, MessageInv, worker, Connecting
  <2>3. ASSUME NEW k \in Nodes, NEW l \in Nodes
        PROVE  stream'[<<l, k>>] \in Seq(Deliverable(k)')
    BY <1>1, <1>2, <1>4, <1>8 DEF IInv, MessageInv, Links
  <2>4. DOMAIN answering' = Nodes
    BY <1>1 DEF IInv, MessageInv, worker
  <2>. QED BY <2>1, <2>2, <2>3, <2>4 DEF MessageInv
<1>11. LinkInv'
  BY <1>1, <1>2, <1>3 DEF IInv, LinkInv, main, worker, server
<1>12. EndInv'
  <2>1. ASSUME NEW k \in Nodes, NEW l \in Nodes, handler'[k] = "done"
        PROVE  link'[<<l, k>>] # "accepted"
    BY <1>1, <1>2, <2>1 DEF IInv, EndInv, server, Links
  <2>2. ASSUME NEW k \in Nodes
        PROVE  /\ handler'[k] \in {"full", "done"} =>
                     count_connections'[k] >= Cardinality(adj_edges'[k])
               /\ node'[k] \in {"none", "created"} => handler'[k] = "none"
    BY <1>1, <2>2 DEF IInv, EndInv, server, worker, main
  <2>3. ASSUME NEW k \in Nodes, node'[k] = "ended"
        PROVE  handler'[k] = "done" /\ queue'[k] = <<>>
    BY <1>1, <1>2, <1>6, <2>3 DEF IInv, EndInv, worker, server
  <2>. QED BY <2>1, <2>2, <2>3, Zenon DEF EndInv
<1>. QED BY <1>7, <1>8, <1>9, <1>10, <1>11, <1>12 DEF IInv

(* The handler ends with every connection it accepted closed. *)
LEMMA HandlerEndStep ==
    ASSUME IInv, NEW i \in Nodes, HandlerEnd(i)
    PROVE  IInv'
<1>1. /\ handler[i] = "full" /\ \A j \in Nodes : link[<<j, i>>] # "accepted"
      /\ handler' = [handler EXCEPT ![i] = "done"]
      /\ UNCHANGED <<main, worker, count_connections, wire, queue>>
  BY DEF HandlerEnd
<1>2. TypeOK'
  BY <1>1 DEF IInv, TypeOK, worker, wire, main, Connecting
<1>3. WalkInv' /\ PathInv' /\ MessageInv' /\ LinkInv'
  BY <1>1, Frame DEF worker, wire
<1>4. QuietInv'
  BY <1>1, NotQuiet DEF QuietInv, main
<1>5. EndInv'
  BY <1>1 DEF IInv, TypeOK, EndInv, worker, wire, main
<1>. QED BY <1>2, <1>3, <1>4, <1>5 DEF IInv

(* The node thread starts its handler. *)
LEMMA StartHandlerStep ==
    ASSUME IInv, NEW i \in Nodes, StartHandler(i)
    PROVE  IInv'
<1>1. /\ node[i] = "created"
      /\ node' = [node EXCEPT ![i] = "loop"]
      /\ handler' = [handler EXCEPT ![i] = "created"]
      /\ UNCHANGED <<main, credit, answering, writers, transfering_account,
                     finished, counter_finished, count_connections, wire, queue>>
  BY DEF StartHandler
<1>2. DOMAIN node = Nodes /\ DOMAIN handler = Nodes
  BY DEF IInv, TypeOK
<1>3. TypeOK'
  BY <1>1 DEF IInv, TypeOK, wire, main, Connecting
<1>4. WalkInv' /\ PathInv' /\ LinkInv' /\ \A k : Deliverable(k)' = Deliverable(k)
  BY <1>1, <1>2, Frame, MainSame DEF wire, IInv
<1>5. QuietInv'
  BY <1>1, <1>2 DEF IInv, QuietInv, wire, main
<1>6. MessageInv'
  BY <1>1, <1>2, <1>4 DEF IInv, MessageInv, Connecting, main, wire
<1>7. EndInv'
  BY <1>1, <1>2 DEF IInv, EndInv, wire, main
<1>. QED BY <1>3, <1>4, <1>5, <1>6, <1>7 DEF IInv

(* A connection is opened, or refused. *)
LEMMA ConnectStep ==
    ASSUME IInv, NEW i \in Nodes, NEW j \in Nodes, Connect(i, j)
    PROVE  IInv'
<1>1. /\ Connecting(i) /\ j \in writers[i] /\ link[<<i, j>>] = "none"
      /\ \E l \in {"backlog", "refused"} : link' = [link EXCEPT ![<<i, j>>] = l]
      /\ UNCHANGED <<main, worker, server, stream, queue>>
  BY DEF Connect
<1>2. /\ link \in [Links -> {"none", "refused", "backlog", "accepted", "closed"}]
      /\ <<i, j>> \in Links
  BY DEF IInv, TypeOK, Links
<1>3. \A k \in Nodes : Accepted(k)' = Accepted(k)
  BY <1>1, <1>2 DEF Accepted, Links
<1>4. TypeOK'
  <2>1. link' \in [Links -> {"none", "refused", "backlog", "accepted", "closed"}]
    BY <1>1, <1>2
  <2>. QED BY <1>1, <2>1 DEF IInv, TypeOK, worker, server, main, Connecting
<1>5. WalkInv' /\ PathInv' /\ MessageInv'
  BY <1>1, Frame DEF worker
<1>6. QuietInv'
  BY <1>1, NotQuiet DEF QuietInv, main
<1>7. LinkInv'
  <2>1. i \in adj_edges[j]
    BY <1>1 DEF IInv, LinkInv
  <2>2. \A k, l \in Nodes : link'[<<l, k>>] # "none" => l \in adj_edges'[k]
    BY <1>1, <1>2, <2>1 DEF IInv, LinkInv, main, Links
  <2>. QED BY <1>1, <1>3, <2>2 DEF IInv, LinkInv, main, worker, server
<1>8. EndInv'
  <2>1. ASSUME NEW k \in Nodes, NEW l \in Nodes, handler'[k] = "done"
        PROVE  link'[<<l, k>>] # "accepted"
    BY <1>1, <1>2, <2>1 DEF IInv, EndInv, server, Links
  <2>2. ASSUME NEW k \in Nodes
        PROVE  /\ handler'[k] \in {"full", "done"} =>
                     count_connections'[k] >= Cardinality(adj_edges'[k])
               /\ node'[k] \in {"none", "created"} => handler'[k] = "none"
               /\ node'[k] = "ended" => handler'[k] = "done" /\ queue'[k] = <<>>
    BY <1>1, <2>2 DEF IInv, EndInv, server, worker, main
  <2>. QED BY <2>1, <2>2, Zenon DEF EndInv
<1>. QED BY <1>4, <1>5, <1>6, <1>7, <1>8 DEF IInv

(* What is written to a node may be under way to it. *)
LEMMA WriteFacts ==
    ASSUME IInv, NEW i \in Nodes, NEW S, NEW m,
           \A k \in Nodes \cap S : m \in Deliverable(k),
           Write(i, S, m)
    PROVE  /\ stream' \in [Links -> Seq(Message)]
           /\ \A j, k \in Nodes : stream'[<<j, k>>] \in Seq(Deliverable(k))
<1>1. stream' = [e \in Links |-> IF e[1] = i /\ e[2] \in S
                                 THEN Append(stream[e], m) ELSE stream[e]]
  BY DEF Write
<1>2. \A j, k \in Nodes : stream[<<j, k>>] \in Seq(Deliverable(k))
  BY DEF IInv, MessageInv
<1>3. ASSUME NEW j \in Nodes, NEW k \in Nodes
      PROVE  stream'[<<j, k>>] \in Seq(Deliverable(k))
  <2>1. CASE j = i /\ k \in S
    <3>1. stream'[<<j, k>>] = Append(stream[<<j, k>>], m)
      BY <1>1, <2>1 DEF Links
    <3>. QED BY <3>1, <2>1, <1>2, AppendProperties
  <2>2. CASE ~ (j = i /\ k \in S)
    BY <1>1, <1>2, <2>2 DEF Links
  <2>. QED BY <2>1, <2>2
<1>4. \A k : Seq(Deliverable(k)) \subseteq Seq(Message)
  BY SeqMonotonic DEF Deliverable
<1>5. \A e \in Links : stream'[e] \in Seq(Message)
  BY <1>3, <1>4 DEF Links
<1>6. DOMAIN stream' = Links /\ stream' = [e \in Links |-> stream'[e]]
  BY <1>1
<1>. QED BY <1>3, <1>5, <1>6

(* A node that takes a message belongs to the path. *)
LEMMA OnPath ==
    ASSUME IInv, NEW i \in Nodes, node[i] # "none"
    PROVE  i \in spawned /\ Running /\ NextNode(i) \in Nodes \cup {NoNode}
  BY PathFacts DEF IInv, PathInv, WalkInv, Running, NextNode

(* The payment arrives: the node connects to its neighbours on the path. *)
LEMMA GetTransferStep ==
    ASSUME IInv, NEW i \in Nodes, GetTransfer(i)
    PROVE  IInv'
<1>. DEFINE m == Head(queue[i])
            W == writers[i] \cup ({m.sender, NextNode(i)} \ {NoNode})
<1>1. /\ node[i] = "loop" /\ queue[i] # <<>> /\ m.type = "transfer_amount"
      /\ queue' = [queue EXCEPT ![i] = Tail(@)]
      /\ answering' = [answering EXCEPT ![i] = m]
      /\ writers' = [writers EXCEPT ![i] = W]
      /\ transfering_account' = [transfering_account EXCEPT ![i] = @ \/ m.sender = NoNode]
      /\ node' = [node EXCEPT ![i] = "connecting"]
      /\ UNCHANGED <<main, credit, finished, counter_finished, server, wire>>
  BY DEF GetTransfer, Gets, Popped, IInv, TypeOK
<1>2. /\ DOMAIN node = Nodes /\ queue \in [Nodes -> Seq(Message)]
      /\ DOMAIN answering' = DOMAIN answering
      /\ writers \in [Nodes -> SUBSET Nodes]
      /\ transfering_account \in [Nodes -> BOOLEAN]
  BY <1>1 DEF IInv, TypeOK
<1>3. pc \in {"announce", "join"} /\ i \in spawned /\ NextNode(i) \in Nodes \cup {NoNode}
  BY <1>1, NotQuiet, OnPath
<1>4. /\ m \in Deliverable(i) /\ Tail(queue[i]) \in Seq(Deliverable(i))
      /\ m \in Message /\ Tail(queue[i]) \in Seq(Message)
  <2>1. queue[i] \in Seq(Deliverable(i))
    BY DEF IInv, MessageInv
  <2>. QED BY <1>1, <1>2, <2>1, SeqFacts
<1>5. /\ m.sender \in Nodes \cup {NoNode}
      /\ m.sender \in Nodes => i \in adj_edges[m.sender]
  BY <1>1, <1>4, MessageFacts, PathFacts DEF IInv, PathInv, Deliverable
<1>6. NextNode(i) \in Nodes => i \in adj_edges[NextNode(i)]
  BY <1>3 DEF IInv, PathInv
<1>7. W \subseteq Nodes /\ \A j \in W : i \in adj_edges[j]
  BY <1>2, <1>3, <1>5, <1>6 DEF IInv, LinkInv
<1>8. TypeOK'
  <2>1. writers' \in [Nodes -> SUBSET Nodes]
    BY <1>1, <1>2, <1>7
  <2>2. queue' \in [Nodes -> Seq(Message)]
    BY <1>1, <1>2, <1>4
  <2>3. transfering_account' \in [Nodes -> BOOLEAN]
    BY <1>1, <1>2
  <2>4. node' \in [Nodes -> {"none", "created", "loop", "connecting", "joining",
                             "ended"}]
    BY <1>1 DEF IInv, TypeOK
  <2>5. ASSUME NEW k \in Nodes, Connecting(k)' PROVE answering'[k] \in Message
    BY <1>1, <1>2, <1>4, <2>5 DEF IInv, TypeOK, MessageInv, Connecting
  <2>6. /\ finished' \in [Nodes -> BOOLEAN] /\ counter_finished' \in [Nodes -> Nat]
        /\ handler' \in [Nodes -> {"none", "created", "listening", "full", "done"}]
        /\ count_connections' \in [Nodes -> Nat]
        /\ \A k \in Nodes : count_connections'[k] <= Cardinality(adj_edges'[k])
        /\ link' \in [Links -> {"none", "refused", "backlog", "accepted", "closed"}]
        /\ stream' \in [Links -> Seq(Message)]
        /\ credit' \in [Nodes -> Amount]
    BY <1>1 DEF IInv, TypeOK, main, server, wire
  <2>. QED BY <2>1, <2>2, <2>3, <2>4, <2>5, <2>6, Zenon DEF TypeOK
<1>9. WalkInv' /\ PathInv' /\ \A k : Deliverable(k)' = Deliverable(k)
  BY <1>1, <1>2, Frame, MainSame DEF IInv
<1>10. QuietInv'
  BY <1>1, <1>3 DEF QuietInv, main
<1>11. MessageInv'
  <2>1. ASSUME NEW k \in Nodes
        PROVE  /\ queue'[k] \in Seq(Deliverable(k)')
               /\ queue'[k] # <<>> => k \in spawned'
    BY <1>1, <1>2, <1>3, <1>4, <1>9 DEF IInv, MessageInv, main
  <2>2. ASSUME NEW k \in Nodes, Connecting(k)'
        PROVE  /\ answering'[k] \in Deliverable(k)'
               /\ answering'[k].type = "transfer_amount"
    BY <1>1, <1>2, <1>4, <1>9, <2>2 DEF IInv, MessageInv, Connecting
  <2>3. ASSUME NEW k \in Nodes, NEW l \in Nodes
        PROVE  stream'[<<l, k>>] \in Seq(Deliverable(k)')
    BY <1>1, <1>9 DEF IInv, MessageInv, wire
  <2>4. DOMAIN answering' = Nodes
    BY <1>1 DEF IInv, MessageInv
  <2>. QED BY <2>1, <2>2, <2>3, <2>4 DEF MessageInv
<1>12. LinkInv'
  <2>1. \A k : Accepted(k)' = Accepted(k)
    BY <1>1 DEF Accepted, wire
  <2>2. \A k \in Nodes : \A l \in writers'[k] : k \in adj_edges'[l]
    BY <1>1, <1>2, <1>7 DEF IInv, LinkInv, main
  <2>. QED BY <1>1, <2>1, <2>2 DEF IInv, LinkInv, main, server, wire
<1>13. EndInv'
  <2>1. ASSUME NEW k \in Nodes
        PROVE  /\ handler'[k] \in {"full", "done"} =>
                     count_connections'[k] >= Cardinality(adj_edges'[k])
               /\ handler'[k] = "done" => \A l \in Nodes : link'[<<l, k>>] # "accepted"
    BY <1>1 DEF IInv, EndInv, server, wire, main
  <2>2. ASSUME NEW k \in Nodes
        PROVE  /\ node'[k] = "ended" => handler'[k] = "done" /\ queue'[k] = <<>>
               /\ node'[k] \in {"none", "created"} => handler'[k] = "none"
    BY <1>1, <1>2 DEF IInv, EndInv, server
  <2>. QED BY <2>1, <2>2, Zenon DEF EndInv
<1>. QED BY <1>8, <1>9, <1>10, <1>11, <1>12, <1>13 DEF IInv

LEMMA PlusFacts ==
    ASSUME NEW a \in Amount, NEW b \in Amount
    PROVE  Plus(a, b) \in Amount /\ Minus(b) \in Amount
  BY ModulusAssumption DEF Amount, Plus, Minus

(* The answer to the payment: the node writes and comes back to its loop. *)
LEMMA AnsweredStep ==
    ASSUME IInv, NEW i \in Nodes, Connecting(i), NEW S, NEW m,
           \A k \in Nodes \cap S : m \in Deliverable(k),
           Write(i, S, m),
           node' = [node EXCEPT ![i] = "loop"],
           credit' \in [Nodes -> Amount], finished' \in [Nodes -> BOOLEAN],
           UNCHANGED <<main, answering, writers, transfering_account,
                       counter_finished, server, link, queue>>
    PROVE  IInv'
<1>1. /\ stream' \in [Links -> Seq(Message)]
      /\ \A j, k \in Nodes : stream'[<<j, k>>] \in Seq(Deliverable(k))
  BY WriteFacts
<1>2. pc \in {"announce", "join"}
  BY NotQuiet
<1>3. DOMAIN node = Nodes /\ node[i] = "connecting"
  BY DEF IInv, TypeOK, Connecting
<1>4. TypeOK'
  <2>1. node' \in [Nodes -> {"none", "created", "loop", "connecting", "joining",
                             "ended"}]
    BY DEF IInv, TypeOK
  <2>. QED BY <1>1, <1>3, <2>1 DEF IInv, TypeOK, main, server, Connecting
<1>5. WalkInv' /\ PathInv' /\ LinkInv' /\ \A k : Deliverable(k)' = Deliverable(k)
  BY <1>3, Frame, MainSame DEF server, IInv
<1>6. QuietInv'
  BY <1>2 DEF QuietInv, main
<1>7. MessageInv'
  BY <1>1, <1>3, <1>5 DEF IInv, MessageInv, Connecting, main
<1>8. EndInv'
  BY <1>3 DEF IInv, EndInv, server, main
<1>. QED BY <1>4, <1>5, <1>6, <1>7, <1>8 DEF IInv

(* A node on the way passes the amount on. *)
LEMMA SendOnStep ==
    ASSUME IInv, NEW i \in Nodes, SendOn(i)
    PROVE  IInv'
<1>. DEFINE m == Transfer(i, answering[i].amount)
<1>1. /\ Connecting(i) /\ Write(i, {NextNode(i)}, m)
      /\ node' = [node EXCEPT ![i] = "loop"]
      /\ UNCHANGED <<main, credit, answering, writers, transfering_account,
                     finished, counter_finished, server, link, queue>>
  BY DEF SendOn, Resolved
<1>2. answering[i].amount \in Amounts
  BY <1>1, MessageFacts DEF IInv, MessageInv
<1>3. i \in spawned
  BY <1>1, OnPath DEF Connecting
<1>4. m \in Deliverable(NextNode(i))
  BY <1>2, <1>3, MessageFacts DEF Deliverable
<1>5. credit' \in [Nodes -> Amount] /\ finished' \in [Nodes -> BOOLEAN]
  BY <1>1 DEF IInv, TypeOK
<1>. HIDE DEF m
<1>. QED BY <1>1, <1>4, <1>5, AnsweredStep

(* The receiving account is credited, and the end announced. *)
LEMMA ReceivePaymentStep ==
    ASSUME IInv, NEW i \in Nodes, ReceivePayment(i)
    PROVE  IInv'
<1>1. /\ Connecting(i) /\ Write(i, writers[i], Finished(i))
      /\ node' = [node EXCEPT ![i] = "loop"]
      /\ credit' = [credit EXCEPT ![i] = Plus(@, answering[i].amount)]
      /\ finished' = [finished EXCEPT ![i] = TRUE]
      /\ UNCHANGED <<main, answering, writers, transfering_account,
                     counter_finished, server, link, queue>>
  BY DEF ReceivePayment, Resolved
<1>2. answering[i].amount \in Amount
  BY <1>1, MessageFacts, PathsAssumption DEF IInv, MessageInv
<1>3. \A k : Finished(i) \in Deliverable(k)
  BY MessageFacts DEF Deliverable
<1>4. credit' \in [Nodes -> Amount] /\ finished' \in [Nodes -> BOOLEAN]
  BY <1>1, <1>2, PlusFacts DEF IInv, TypeOK
<1>. QED BY <1>1, <1>3, <1>4, AnsweredStep

(* A finished is relayed once, and the last one settles the account. *)
LEMMA AnswerToFinishedStep ==
    ASSUME IInv, NEW i \in Nodes, AnswerToFinished(i)
    PROVE  IInv'
<1>1. /\ node[i] = "loop" /\ queue[i] # <<>>
      /\ queue' = [queue EXCEPT ![i] = Tail(@)]
      /\ Write(i, RelayTo(i), Finished(i))
      /\ finished' = [finished EXCEPT ![i] = TRUE]
      /\ counter_finished' = [counter_finished EXCEPT ![i] = @ + 1]
      /\ \/ credit' = [credit EXCEPT ![i] = Plus(@, Minus(call.amount))]
         \/ credit' = credit
      /\ \E n \in {"loop", "joining"} : node' = [node EXCEPT ![i] = n]
      /\ UNCHANGED <<main, answering, writers, transfering_account, server, link>>
  <2>1. /\ node[i] = "loop" /\ queue[i] # <<>>
        /\ queue' = [queue EXCEPT ![i] = Tail(@)]
    BY DEF AnswerToFinished, Gets, Popped, IInv, TypeOK
  <2>2. \E n \in {"loop", "joining"} : node' = [node EXCEPT ![i] = n]
    BY <2>1 DEF AnswerToFinished
  <2>. QED BY <2>1, <2>2 DEF AnswerToFinished
<1>2. /\ DOMAIN node = Nodes /\ queue \in [Nodes -> Seq(Message)]
      /\ pc \in {"announce", "join"} /\ i \in spawned
  BY <1>1, NotQuiet, OnPath DEF IInv, TypeOK
<1>3. /\ stream' \in [Links -> Seq(Message)]
      /\ \A j, k \in Nodes : stream'[<<j, k>>] \in Seq(Deliverable(k))
  <2>1. \A k : Finished(i) \in Deliverable(k)
    BY MessageFacts DEF Deliverable
  <2>. QED BY <1>1, <2>1, WriteFacts
<1>4. Tail(queue[i]) \in Seq(Deliverable(i)) /\ Tail(queue[i]) \in Seq(Message)
  <2>1. queue[i] \in Seq(Deliverable(i))
    BY DEF IInv, MessageInv
  <2>. QED BY <1>1, <1>2, <2>1, SeqFacts
<1>5. TypeOK'
  <2>1. node' \in [Nodes -> {"none", "created", "loop", "connecting", "joining",
                             "ended"}]
    BY <1>1 DEF IInv, TypeOK
  <2>2. credit' \in [Nodes -> Amount]
    <3>1. call.amount \in Amount
      BY <1>2, PathsAssumption DEF IInv, WalkInv, Running
    <3>2. credit \in [Nodes -> Amount]
      BY DEF IInv, TypeOK
    <3>3. Plus(credit[i], Minus(call.amount)) \in Amount
      BY <3>1, <3>2, PlusFacts
    <3>. QED BY <1>1, <3>2, <3>3
  <2>3. /\ finished' \in [Nodes -> BOOLEAN] /\ counter_finished' \in [Nodes -> Nat]
    BY <1>1 DEF IInv, TypeOK
  <2>4. queue' \in [Nodes -> Seq(Message)]
    BY <1>1, <1>2, <1>4
  <2>5. \A k \in Nodes : Connecting(k)' => answering'[k] \in Message
    BY <1>1, <1>2 DEF IInv, TypeOK, Connecting
  <2>6. /\ writers' \in [Nodes -> SUBSET Nodes]
        /\ transfering_account' \in [Nodes -> BOOLEAN]
        /\ handler' \in [Nodes -> {"none", "created", "listening", "full", "done"}]
        /\ count_connections' \in [Nodes -> Nat]
        /\ \A k \in Nodes : count_connections'[k] <= Cardinality(adj_edges'[k])
        /\ link' \in [Links -> {"none", "refused", "backlog", "accepted", "closed"}]
    BY <1>1 DEF IInv, TypeOK, main, server
  <2>. QED BY <1>3, <2>1, <2>2, <2>3, <2>4, <2>5, <2>6, Zenon DEF TypeOK
<1>6. WalkInv' /\ PathInv' /\ LinkInv' /\ \A k : Deliverable(k)' = Deliverable(k)
  <2>1. \A k \in Nodes : node'[k] = "none" <=> node[k] = "none"
    BY <1>1, <1>2
  <2>. QED BY <1>1, <2>1, Frame, MainSame DEF IInv, server
<1>7. QuietInv'
  BY <1>1, <1>2 DEF QuietInv, main
<1>8. MessageInv'
  <2>1. ASSUME NEW k \in Nodes
        PROVE  /\ queue'[k] \in Seq(Deliverable(k)')
               /\ queue'[k] # <<>> => k \in spawned'
    BY <1>1, <1>2, <1>4, <1>6 DEF IInv, MessageInv, main
  <2>2. ASSUME NEW k \in Nodes, Connecting(k)'
        PROVE  /\ answering'[k] \in Deliverable(k)'
               /\ answering'[k].type = "transfer_amount"
    BY <1>1, <1>2, <1>6, <2>2 DEF IInv, MessageInv, Connecting
  <2>3. DOMAIN answering' = Nodes
    BY <1>1 DEF IInv, MessageInv
  <2>. QED BY <1>3, <1>6, <2>1, <2>2, <2>3 DEF MessageInv
<1>9. EndInv'
  <2>1. ASSUME NEW k \in Nodes
        PROVE  /\ handler'[k] \in {"full", "done"} =>
                     count_connections'[k] >= Cardinality(adj_edges'[k])
               /\ handler'[k] = "done" => \A l \in Nodes : link'[<<l, k>>] # "accepted"
    BY <1>1 DEF IInv, EndInv, server, main
  <2>2. ASSUME NEW k \in Nodes
        PROVE  /\ node'[k] = "ended" => handler'[k] = "done" /\ queue'[k] = <<>>
               /\ node'[k] \in {"none", "created"} => handler'[k] = "none"
    BY <1>1, <1>2 DEF IInv, EndInv, server
  <2>. QED BY <2>1, <2>2, Zenon DEF EndInv
<1>. QED BY <1>5, <1>6, <1>7, <1>8, <1>9 DEF IInv

(* The node joins its handler and erases the queue. *)
LEMMA JoinStep ==
    ASSUME IInv, NEW i \in Nodes, Join(i)
    PROVE  IInv'
<1>1. /\ node[i] = "joining" /\ handler[i] = "done"
      /\ queue' = [queue EXCEPT ![i] = <<>>]
      /\ node' = [node EXCEPT ![i] = "ended"]
      /\ UNCHANGED <<main, credit, answering, writers, transfering_account,
                     finished, counter_finished, server, wire>>
  BY DEF Join
<1>2. /\ DOMAIN node = Nodes /\ DOMAIN queue = Nodes
      /\ pc \in {"announce", "join"}
  BY <1>1, NotQuiet DEF IInv, TypeOK
<1>3. TypeOK'
  <2>1. node' \in [Nodes -> {"none", "created", "loop", "connecting", "joining",
                             "ended"}]
    BY <1>1 DEF IInv, TypeOK
  <2>2. queue' \in [Nodes -> Seq(Message)]
    BY <1>1 DEF IInv, TypeOK
  <2>. QED BY <1>1, <1>2, <2>1, <2>2 DEF IInv, TypeOK, main, server, wire, Connecting
<1>4. WalkInv' /\ PathInv' /\ LinkInv' /\ \A k : Deliverable(k)' = Deliverable(k)
  BY <1>1, <1>2, Frame, MainSame DEF IInv, server, wire
<1>5. QuietInv'
  BY <1>1, <1>2 DEF QuietInv, main
<1>6. MessageInv'
  BY <1>1, <1>2, <1>4 DEF IInv, MessageInv, Connecting, main, wire
<1>7. EndInv'
  BY <1>1, <1>2 DEF IInv, EndInv, server, wire, main
<1>. QED BY <1>3, <1>4, <1>5, <1>6, <1>7 DEF IInv

----------------------------------------------------------------------------
(* The steps of main.  Until the message is posted main moves alone: it may *)
(* only create threads, and the rest of the runtime is as it was at first.  *)
LEMMA QuietStep ==
    ASSUME IInv, pc \in {"session", "walk", "last"},
           adj_edges' \in [Nodes -> SUBSET Nodes],
           node' \in [Nodes -> {"none", "created", "loop"}],
           \A k \in Nodes : node'[k] = node[k]
                            \/ (node[k] = "none" /\ node'[k] = "created"),
           UNCHANGED <<credit, answering, writers, transfering_account, finished,
                       counter_finished, server, wire, queue>>
    PROVE  TypeOK' /\ QuietInv' /\ MessageInv' /\ LinkInv' /\ EndInv'
<1>1. \A i \in Nodes : /\ queue[i] = <<>> /\ writers[i] = {}
                        /\ node'[i] \in {"none", "created", "loop"}
                        /\ handler[i] \in {"none", "created", "listening"}
                        /\ count_connections[i] = 0
  BY DEF IInv, QuietInv
<1>2. \A e \in Links : link[e] = "none" /\ stream[e] = <<>>
  BY DEF IInv, QuietInv
<1>3. \A k \in Nodes : Cardinality(adj_edges'[k]) \in Nat
  BY PathsAssumption, FS_Subset, FS_CardinalityType
<1>4. TypeOK'
  BY <1>1, <1>3 DEF IInv, TypeOK, server, wire, Connecting
<1>5. QuietInv'
  BY <1>1, <1>2 DEF QuietInv, server, wire
<1>6. MessageInv'
  <2>1. \A k : <<>> \in Seq(Deliverable(k)')
    OBVIOUS
  <2>2. \A k \in Nodes : ~ Connecting(k)' /\ queue'[k] = <<>>
    BY <1>1 DEF Connecting
  <2>3. \A k, l \in Nodes : stream'[<<l, k>>] = <<>>
    BY <1>2 DEF wire, Links
  <2>4. DOMAIN answering' = Nodes
    BY DEF IInv, MessageInv
  <2>5. \A k \in Nodes : queue'[k] \in Seq(Deliverable(k)')
    BY <2>1, <2>2
  <2>6. \A k, l \in Nodes : stream'[<<l, k>>] \in Seq(Deliverable(k)')
    BY <2>1, <2>3
  <2>. QED BY <2>2, <2>4, <2>5, <2>6 DEF MessageInv
<1>7. LinkInv'
  <2>1. \A k : Accepted(k)' = Accepted(k)
    BY DEF Accepted, wire
  <2>2. \A k, l \in Nodes : link'[<<l, k>>] = "none"
    BY <1>2 DEF wire, Links
  <2>. QED BY <1>1, <2>1, <2>2 DEF IInv, LinkInv, server
<1>8. EndInv'
  BY <1>1 DEF IInv, EndInv, server, wire
<1>. QED BY <1>4, <1>5, <1>6, <1>7, <1>8

LEMMA BeginStep ==
    ASSUME IInv, NEW f \in Nodes, NEW t \in Nodes, NEW a \in Amounts, Begin(f, t, a)
    PROVE  IInv'
<1>1. /\ pc = "session" /\ f # t /\ pc' = "walk"
      /\ call' = [from |-> f, to |-> t, amount |-> a]
      /\ previous' = NoNode /\ current' = f /\ following' = Parent[t][f]
      /\ UNCHANGED <<spawned, adj_edges, runtime>>
  BY DEF Begin, Protocol!Begin
<1>2. spawned = {} /\ adj_edges \in [Nodes -> SUBSET Nodes]
  BY <1>1 DEF IInv, WalkInv
<1>3. \A k \in Nodes : node[k] = "none" /\ adj_edges[k] = {}
  BY <1>2 DEF IInv, PathInv
<1>4. node' \in [Nodes -> {"none", "created", "loop"}]
  BY <1>1, <1>3 DEF IInv, TypeOK, runtime, worker
<1>5. TypeOK' /\ QuietInv' /\ MessageInv' /\ LinkInv' /\ EndInv'
  BY <1>1, <1>2, <1>4, QuietStep DEF runtime, worker
<1>6. WalkInv'
  BY <1>1, <1>2 DEF WalkInv, Running, NextNode
<1>7. PathInv'
  BY <1>1, <1>2, <1>3 DEF PathInv, runtime, worker
<1>. QED BY <1>5, <1>6, <1>7 DEF IInv

(* A new thread on the path: the one before it comes to know of it.         *)
LEMMA CreateStep ==
    ASSUME IInv, pc \in {"walk", "last"}, pc' \in {"walk", "last", "post"},
           Create(current),
           spawned' = spawned \cup {current},
           adj_edges' = [adj_edges EXCEPT ![current] = {previous, following} \ {NoNode}],
           UNCHANGED call,
           NextNode(current) \in Nodes =>
               /\ pc' \in {"walk", "last"}
               /\ previous' = current /\ current' = NextNode(current)
    PROVE  /\ TypeOK' /\ QuietInv' /\ MessageInv' /\ LinkInv' /\ EndInv'
           /\ PathInv'
           /\ adj_edges' \in [Nodes -> SUBSET Nodes]
<1>1. /\ current \in Nodes /\ previous \in Nodes \cup {NoNode}
      /\ following = NextNode(current)
      /\ adj_edges \in [Nodes -> SUBSET Nodes]
      /\ call.to \in Nodes /\ spawned \subseteq Nodes
      /\ \A i \in spawned : Distance[call.to][current] < Distance[call.to][i]
  BY DEF IInv, WalkInv, Running
<1>2. /\ current \notin spawned /\ NextNode(current) \in Nodes \cup {NoNode}
      /\ \A i : NextNode(i)' = NextNode(i)
  BY <1>1, PathFacts DEF NextNode
<1>3. /\ node[current] = "none" /\ node' = [node EXCEPT ![current] = "created"]
      /\ DOMAIN node = Nodes
  BY <1>1, <1>2 DEF IInv, PathInv, Create, TypeOK
<1>4. adj_edges' \in [Nodes -> SUBSET Nodes]
  BY <1>1, <1>2, PathFacts
<1>5. TypeOK' /\ QuietInv' /\ MessageInv' /\ LinkInv' /\ EndInv'
  <2>1. \A k \in Nodes : node[k] \in {"none", "created", "loop"}
    BY DEF IInv, QuietInv
  <2>2. node' \in [Nodes -> {"none", "created", "loop"}]
    BY <1>3, <2>1 DEF IInv, TypeOK
  <2>. QED BY <1>3, <1>4, <2>2, QuietStep DEF Create
<1>6. PathInv'
  <2>1. ASSUME NEW i \in Nodes
        PROVE  /\ (node'[i] = "none") <=> (i \notin spawned')
               /\ i \notin spawned' => adj_edges'[i] = {}
    BY <1>1, <1>3 DEF IInv, PathInv
  <2>2. ASSUME NEW i \in spawned', NextNode(i)' \in Nodes
        PROVE  /\ NextNode(i) \in adj_edges'[i]
               /\ \/ i \in adj_edges'[NextNode(i)]
                  \/ /\ pc' \in {"walk", "last"}
                     /\ previous' = i /\ current' = NextNode(i)
    <3>1. CASE i = current
      BY <1>1, <1>2, <2>2, <3>1, PathFacts
    <3>2. CASE i # current
      <4>1. i \in spawned /\ NextNode(i) \in Nodes /\ i \in Nodes
        BY <1>1, <1>2, <2>2, <3>2
      <4>2. NextNode(i) \in adj_edges'[i]
        BY <1>1, <3>2, <4>1 DEF IInv, PathInv
      <4>3. CASE i \in adj_edges[NextNode(i)]
        <5>1. NextNode(i) # current
          BY <1>1, <1>2, <4>3 DEF IInv, PathInv
        <5>. QED BY <1>1, <4>1, <4>2, <4>3, <5>1
      <4>4. CASE previous = i /\ current = NextNode(i)
        BY <1>1, <4>1, <4>2, <4>4, PathFacts
      <4>. QED BY <4>1, <4>3, <4>4 DEF IInv, PathInv
    <3>. QED BY <3>1, <3>2
  <2>. QED BY <1>2, <2>1, <2>2 DEF PathInv
<1>. QED BY <1>4, <1>5, <1>6

LEMMA SpawnOnPathStep ==
    ASSUME IInv, SpawnOnPath
    PROVE  IInv'
<1>1. /\ pc = "walk" /\ Create(current)
      /\ spawned' = spawned \cup {current}
      /\ adj_edges' = [adj_edges EXCEPT ![current] = {previous, following} \ {NoNode}]
      /\ previous' = current /\ current' = following
      /\ following' = NextNode(following)
      /\ pc' = IF following = call.to THEN "last" ELSE "walk"
      /\ UNCHANGED call
  BY DEF SpawnOnPath, Protocol!SpawnOnPath, Protocol!Spawn, Protocol!NextNode, NextNode
<1>2. /\ current \in Nodes /\ following = NextNode(current) /\ current # call.to
      /\ call.from \in Nodes /\ call.to \in Nodes /\ call.amount \in Amounts
      /\ spawned \subseteq Nodes
      /\ current = call.from \/ call.from \in spawned
      /\ \A i \in spawned : Distance[call.to][current] < Distance[call.to][i]
  BY <1>1 DEF IInv, WalkInv, Running
<1>3. /\ following \in Nodes
      /\ Distance[call.to][following] < Distance[call.to][current]
      /\ \A i \in Nodes : Distance[call.to][i] \in Nat
  BY <1>2, PathFacts DEF NextNode
<1>4. /\ TypeOK' /\ QuietInv' /\ MessageInv' /\ LinkInv' /\ EndInv' /\ PathInv'
      /\ adj_edges' \in [Nodes -> SUBSET Nodes]
  BY <1>1, <1>2, CreateStep
<1>5. WalkInv'
  <2>1. \A i \in spawned' : Distance[call.to][following] < Distance[call.to][i]
    BY <1>1, <1>2, <1>3
  <2>2. pc' \in {"walk", "last"} /\ spawned' \subseteq Nodes /\ call.from \in spawned'
    BY <1>1, <1>2
  <2>3. \A i : NextNode(i)' = NextNode(i)
    BY <1>1 DEF NextNode
  <2>. QED BY <1>1, <1>2, <1>3, <1>4, <2>1, <2>2, <2>3 DEF WalkInv, Running
<1>. QED BY <1>4, <1>5 DEF IInv

LEMMA SpawnLastStep ==
    ASSUME IInv, SpawnLast
    PROVE  IInv'
<1>1. /\ pc = "last" /\ Create(current)
      /\ spawned' = spawned \cup {current}
      /\ adj_edges' = [adj_edges EXCEPT ![current] = {previous, following} \ {NoNode}]
      /\ pc' = "post"
      /\ UNCHANGED <<call, walk>>
  BY DEF SpawnLast, Protocol!SpawnLast, Protocol!Spawn, Protocol!walk, walk
<1>2. /\ current = call.to /\ call.to \in Nodes /\ call.from \in spawned
      /\ call.from \in Nodes /\ call.amount \in Amounts /\ spawned \subseteq Nodes
  BY <1>1 DEF IInv, WalkInv, Running
<1>3. NextNode(current) \notin Nodes
  BY <1>2, PathFacts DEF NextNode
<1>4. /\ TypeOK' /\ QuietInv' /\ MessageInv' /\ LinkInv' /\ EndInv' /\ PathInv'
      /\ adj_edges' \in [Nodes -> SUBSET Nodes]
  BY <1>1, <1>3, CreateStep
<1>5. WalkInv'
  BY <1>1, <1>2, <1>4 DEF WalkInv, Running
<1>. QED BY <1>4, <1>5 DEF IInv

LEMMA PostStep ==
    ASSUME IInv, Post
    PROVE  IInv'
<1>. DEFINE m == Transfer(NoNode, call.amount)
<1>1. /\ pc = "post" /\ pc' = "announce"
      /\ queue' = [queue EXCEPT ![call.from] = Append(@, m)]
      /\ UNCHANGED <<calls, call, walk, announced, opening, spawned, adj_edges,
                     worker, server, wire>>
  BY DEF Post
<1>2. /\ call.from \in spawned /\ spawned \subseteq Nodes /\ call.amount \in Amounts
      /\ queue \in [Nodes -> Seq(Message)]
      /\ node[call.from] # "ended"
  BY <1>1 DEF IInv, WalkInv, Running, TypeOK, QuietInv
<1>3. \A i : Deliverable(i)' = Deliverable(i)
  BY <1>1 DEF Deliverable, NextNode
<1>4. /\ m \in Message
      /\ \A i : m \in Deliverable(i)
  BY <1>2, MessageFacts DEF Deliverable
<1>5. \A i \in Nodes : /\ Append(queue[i], m) \in Seq(Deliverable(i))
                        /\ Append(queue[i], m) \in Seq(Message)
  <2>. SUFFICES ASSUME NEW i \in Nodes
                PROVE  /\ Append(queue[i], m) \in Seq(Deliverable(i))
                       /\ Append(queue[i], m) \in Seq(Message)
    OBVIOUS
  <2>1. queue[i] \in Seq(Deliverable(i)) /\ queue[i] \in Seq(Message)
    BY <1>2 DEF IInv, MessageInv
  <2>. QED BY <2>1, <1>4, AppendProperties
<1>. HIDE DEF m
<1>6. TypeOK'
  <2>1. queue' \in [Nodes -> Seq(Message)]
    BY <1>1, <1>2, <1>5
  <2>. QED BY <1>1, <2>1 DEF IInv, TypeOK, worker, server, wire, Connecting
<1>7. WalkInv' /\ QuietInv'
  BY <1>1 DEF IInv, WalkInv, QuietInv, Running, walk
<1>8. PathInv'
  <2>1. \A i : NextNode(i)' = NextNode(i)
    BY <1>1 DEF NextNode
  <2>. QED BY <1>1, <2>1 DEF IInv, PathInv, worker
<1>9. MessageInv'
  <2>1. ASSUME NEW k \in Nodes
        PROVE  /\ queue'[k] \in Seq(Deliverable(k)')
               /\ queue'[k] # <<>> => k \in spawned'
    BY <1>1, <1>2, <1>3, <1>5 DEF IInv, MessageInv
  <2>. QED BY <1>1, <1>3, <2>1 DEF IInv, MessageInv, worker, wire, Connecting
<1>10. LinkInv'
  <2>1. \A k : Accepted(k)' = Accepted(k)
    BY <1>1 DEF Accepted, wire
  <2>. QED BY <1>1, <2>1 DEF IInv, LinkInv, worker, server, wire
<1>11. EndInv'
  BY <1>1, <1>2 DEF IInv, EndInv, worker, server, wire
<1>. QED BY <1>6, <1>7, <1>8, <1>9, <1>10, <1>11 DEF IInv

LEMMA AnnounceStep ==
    ASSUME IInv, Announce
    PROVE  IInv'
<1>1. /\ pc = "announce" /\ pc' = "join"
      /\ UNCHANGED <<calls, call, walk, opening, spawned, adj_edges, runtime>>
  BY DEF Announce, Protocol!Announce, Protocol!walk, walk
<1>2. \A i : Deliverable(i)' = Deliverable(i) /\ NextNode(i)' = NextNode(i)
  BY <1>1 DEF Deliverable, NextNode
<1>3. \A i : Accepted(i)' = Accepted(i)
  BY <1>1 DEF Accepted, runtime, wire
<1>4. TypeOK'
  BY <1>1 DEF IInv, TypeOK, runtime, worker, server, wire, Connecting
<1>5. WalkInv' /\ QuietInv'
  BY <1>1 DEF IInv, WalkInv, QuietInv, Running, walk
<1>6. PathInv'
  BY <1>1, <1>2 DEF IInv, PathInv, runtime, worker
<1>7. MessageInv'
  BY <1>1, <1>2 DEF IInv, MessageInv, runtime, worker, wire, Connecting
<1>8. LinkInv'
  BY <1>1, <1>3 DEF IInv, LinkInv, runtime, worker, server, wire
<1>9. EndInv'
  BY <1>1 DEF IInv, EndInv, runtime, worker, server, wire
<1>. QED BY <1>4, <1>5, <1>6, <1>7, <1>8, <1>9 DEF IInv

(* Main goes back with the queues empty. *)
LEMMA AllQueuesEmpty ==
    ASSUME IInv, AllJoined
    PROVE  \A i \in Nodes : queue[i] = <<>>
  BY DEF IInv, AllJoined, MessageInv, EndInv

LEMMA ReturnStep ==
    ASSUME IInv, Return
    PROVE  IInv'
<1>1. /\ AllJoined /\ pc' = "session"
      /\ spawned' = {} /\ adj_edges' = [i \in Nodes |-> {}]
      /\ node' = [i \in Nodes |-> "none"]
      /\ answering' = [i \in Nodes |-> Nothing]
      /\ writers' = [i \in Nodes |-> {}]
      /\ transfering_account' = [i \in Nodes |-> FALSE]
      /\ finished' = [i \in Nodes |-> FALSE]
      /\ counter_finished' = [i \in Nodes |-> 0]
      /\ handler' = [i \in Nodes |-> "none"]
      /\ count_connections' = [i \in Nodes |-> 0]
      /\ link' = [e \in Links |-> "none"]
      /\ stream' = [e \in Links |-> <<>>]
      /\ UNCHANGED <<call, credit, queue>>
  BY DEF Return
<1>2. \A i \in Nodes : queue'[i] = <<>>
  BY <1>1, AllQueuesEmpty
<1>3. Cardinality({}) = 0
  BY FS_EmptySet
<1>4. TypeOK'
  BY <1>1, <1>3 DEF IInv, TypeOK, Connecting
<1>5. WalkInv' /\ PathInv' /\ QuietInv' /\ EndInv'
  BY <1>1, <1>2 DEF WalkInv, PathInv, QuietInv, EndInv, Running
<1>6. MessageInv'
  <2>1. \A k : <<>> \in Seq(Deliverable(k)')
    OBVIOUS
  <2>2. \A k \in Nodes : queue'[k] \in Seq(Deliverable(k)') /\ ~ Connecting(k)'
    BY <1>1, <1>2, <2>1 DEF Connecting
  <2>3. \A k, l \in Nodes : stream'[<<l, k>>] \in Seq(Deliverable(k)')
    BY <1>1, <2>1 DEF Links
  <2>. QED BY <1>1, <1>2, <2>2, <2>3 DEF MessageInv
<1>7. LinkInv'
  <2>1. \A k \in Nodes : Accepted(k)' = {}
    BY <1>1 DEF Accepted, Links
  <2>. QED BY <1>1, <1>3, <2>1 DEF LinkInv, Links
<1>. QED BY <1>4, <1>5, <1>6, <1>7 DEF IInv

----------------------------------------------------------------------------
LEMMA NextIInv ==
    ASSUME IInv, [Next]_vars
    PROVE  IInv'
<1>1. CASE \E f, t \in Nodes, a \in Amounts : Begin(f, t, a)
  BY <1>1, BeginStep
<1>2. CASE MainStep
  BY <1>2, SpawnOnPathStep, SpawnLastStep, PostStep, AnnounceStep, ReturnStep
     DEF MainStep
<1>3. CASE \E i \in Nodes : NodeStep(i)
  BY <1>3, StartHandlerStep, GetTransferStep, SendOnStep, ReceivePaymentStep,
     AnswerToFinishedStep, JoinStep DEF NodeStep
<1>4. CASE \E i \in Nodes : Listen(i) \/ HandlerEnd(i)
  BY <1>4, ListenStep, HandlerEndStep
<1>5. CASE \E i, j \in Nodes : Connect(i, j) \/ Accept(i, j) \/ Read(i, j)
  BY <1>5, ConnectStep, AcceptStep, ReadStep
<1>6. CASE UNCHANGED vars
  <2>1. /\ UNCHANGED main
        /\ UNCHANGED <<credit, node, answering, writers, transfering_account,
                       finished, counter_finished, handler, count_connections,
                       link, stream, queue>>
    BY <1>6 DEF vars, runtime, worker, server, wire
  <2>2. WalkInv' /\ PathInv' /\ MessageInv' /\ LinkInv'
    BY <2>1, Frame
  <2>3. TypeOK'
    BY <2>1 DEF IInv, TypeOK, main, Connecting
  <2>4. QuietInv' /\ EndInv'
    BY <2>1 DEF IInv, QuietInv, EndInv, main
  <2>. QED BY <2>2, <2>3, <2>4 DEF IInv
<1>. QED BY <1>1, <1>2, <1>3, <1>4, <1>5, <1>6 DEF Next

LEMMA Invariant == Spec => []IInv
  BY InitIInv, NextIInv, PTL DEF Spec

(* Messages, sockets and threads stay what their types say, for any number  *)
(* of calls; no handler counts more connections than the node has           *)
(* neighbours on the path.                                                  *)
THEOREM TypeCorrect == Spec => []TypeOK
  BY Invariant, PTL DEF IInv

(* A neighbour that has been accepted is one of those the node has, and a   *)
(* handler that accepts no more has counted as many as these.               *)
LEMMA AcceptedAll ==
    ASSUME IInv, NEW i \in Nodes, handler[i] \in {"full", "done"}
    PROVE  Accepted(i) = adj_edges[i]
<1>1. Accepted(i) \subseteq adj_edges[i] /\ adj_edges[i] \subseteq Nodes
  BY DEF IInv, LinkInv, WalkInv, Accepted
<1>2. IsFiniteSet(adj_edges[i]) /\ IsFiniteSet(Accepted(i))
  BY <1>1, PathsAssumption, FS_Subset
<1>3. Cardinality(Accepted(i)) >= Cardinality(adj_edges[i])
  BY DEF IInv, EndInv, LinkInv
<1>. QED BY <1>1, <1>2, <1>3, FS_Subset, FS_CardinalityType

(* Whatever the order in which the threads start and connect, a handler     *)
(* stops accepting (Handler.cpp:123) when it has accepted each neighbour    *)
(* of its node on the path, and nobody else.                                *)
THEOREM EveryNeighbourAccepted == Spec => []AcceptsAllNeighbours
<1>1. IInv => AcceptsAllNeighbours
  <2>. SUFFICES ASSUME IInv, NEW i \in Nodes, handler[i] \in {"full", "done"},
                       NEW j \in Nodes
                PROVE  IF j \in adj_edges[i]
                       THEN link[<<j, i>>] \in {"accepted", "closed"}
                       ELSE link[<<j, i>>] = "none"
    BY DEF AcceptsAllNeighbours
  <2>1. Accepted(i) = adj_edges[i]
    BY AcceptedAll
  <2>2. link[<<j, i>>] # "none" => j \in adj_edges[i]
    BY DEF IInv, LinkInv
  <2>. QED BY <2>1, <2>2 DEF Accepted
<1>. QED BY <1>1, Invariant, PTL

(* A call in which a connection was refused never returns: when main is     *)
(* back in the session every connection has been made, and no message is    *)
(* left in a queue.                                                         *)
THEOREM ReturnIsConnected == Spec => ReturnsConnected
<1>1. ASSUME IInv, [Next]_vars, Running, pc' = "session"
      PROVE  Refused = {} /\ \A i \in Nodes : queue[i] = <<>>
  <2>1. Return
    BY <1>1 DEF Next, vars, Running, Begin, Protocol!Begin, MainStep, SpawnOnPath,
       Protocol!SpawnOnPath, SpawnLast, Protocol!SpawnLast, Post, Announce,
       Protocol!Announce, NodeStep, StartHandler, GetTransfer, SendOn,
       ReceivePayment, AnswerToFinished, Join, Listen, HandlerEnd, Connect,
       Accept, Read, main
  <2>2. \A i \in Nodes : queue[i] = <<>>
    BY <1>1, <2>1, AllQueuesEmpty DEF Return
  <2>3. ASSUME NEW j \in Nodes, NEW i \in Nodes PROVE link[<<j, i>>] # "refused"
    <3>1. CASE link[<<j, i>>] = "none"
      BY <3>1
    <3>2. CASE link[<<j, i>>] # "none"
      <4>1. j \in adj_edges[i]
        BY <1>1, <3>2 DEF IInv, LinkInv
      <4>2. i \in spawned
        BY <1>1, <4>1 DEF IInv, PathInv
      <4>3. handler[i] = "done"
        BY <1>1, <2>1, <4>2 DEF Return, AllJoined, IInv, EndInv
      <4>. QED BY <1>1, <4>1, <4>3, AcceptedAll DEF Accepted
    <3>. QED BY <3>1, <3>2
  <2>. QED BY <2>2, <2>3 DEF Refused, Links
<1>. QED BY <1>1, Invariant, PTL DEF Spec, ReturnsConnected

-----------------------------------------------------------------------------
(***************************************************************************)
(* NodeRuntime implements TransferAmount, for every network, any number of  *)
(* calls, and every order in which the threads start, connect and read.     *)
(*                                                                          *)
(* A message is under way in three places here (the stream, the queue, the  *)
(* hand of a node that connects), and in one there (chan): reading and      *)
(* taking a message change nothing there, and answering it takes it from    *)
(* the head of chan because a connection keeps the order of its messages.   *)
(* That the message fits the state of the node is what TransferAmount has   *)
(* proved of itself, and holds of the mapped state as long as all steps so  *)
(* far were steps of TransferAmount: the two are proved by one induction.   *)
(***************************************************************************)
(* Induction over sequences, for the set in which a formula holds. *)
LEMMA SequenceInduction ==
  ASSUME NEW S, NEW G, <<>> \in G,
         \A s \in Seq(S), m \in S : s \in G => Append(s, m) \in G
  PROVE  Seq(S) \subseteq G
<1>. DEFINE L == {n \in Nat : \A s \in Seq(S) : Len(s) = n => s \in G}
<1>1. 0 \in L
  <2>1. \A s \in Seq(S) : Len(s) = 0 => s = <<>>
    BY EmptySeq
  <2>. QED BY <2>1
<1>2. ASSUME NEW n \in Nat, n \in L PROVE n + 1 \in L
  <2>1. SUFFICES ASSUME NEW s \in Seq(S), Len(s) = n + 1 PROVE s \in G
    OBVIOUS
  <2>2. s # <<>>
    BY <1>2, <2>1, EmptySeq
  <2>3. PICK t \in Seq(S), m \in S : s = Append(t, m)
    BY <2>2, SequenceEmptyOrAppend
  <2>4. Len(t) = n
    BY <1>2, <2>1, <2>3, AppendProperties, LenProperties
  <2>. QED BY <1>2, <2>3, <2>4
<1>3. Nat \subseteq L
  <2>. HIDE DEF L
  <2>. QED BY <1>1, <1>2, NaturalInduction
<1>4. SUFFICES ASSUME NEW s \in Seq(S) PROVE s \in G
  OBVIOUS
<1>. QED BY <1>3, LenProperties

----------------------------------------------------------------------------
(* The messages of one sender.  From is a recursive function: it exists,    *)
(* and two of them agree where their sequences do.                          *)
Chosen(f, j, s, k) == IF s[k].sender = j THEN Append(f[k - 1], s[k]) ELSE f[k - 1]
Selects(f, j, s, n) == f = [k \in 0 .. n |-> IF k = 0 THEN <<>> ELSE Chosen(f, j, s, k)]
Selection(j, s, n) == CHOOSE f : Selects(f, j, s, n)

LEMMA FromIsSelection ==
  ASSUME NEW j, NEW s
  PROVE  From(j, s) = Selection(j, s, Len(s))[Len(s)]
BY Zenon DEF From, Selection, Selects, Chosen

LEMMA SelectionFacts ==
  ASSUME NEW j, NEW s, NEW n \in Nat
  PROVE  /\ Selection(j, s, n)[0] = <<>>
         /\ \A k \in 1 .. n : Selection(j, s, n)[k] = Chosen(Selection(j, s, n), j, s, k)
<1>. DEFINE G == {m \in Nat : \E f : Selects(f, j, s, m)}
<1>1. 0 \in G
  <2>. DEFINE f == [k \in 0 .. 0 |-> <<>>]
  <2>1. f = [k \in 0 .. 0 |-> IF k = 0 THEN <<>> ELSE Chosen(f, j, s, k)]
    OBVIOUS
  <2>2. Selects(f, j, s, 0)
    BY <2>1 DEF Selects
  <2>. QED BY <2>2
<1>2. ASSUME NEW m \in Nat, m \in G PROVE m + 1 \in G
  <2>1. PICK f : Selects(f, j, s, m)
    BY <1>2
  <2>. DEFINE g == [k \in 0 .. m + 1 |->
                       IF k <= m THEN f[k] ELSE Chosen(f, j, s, m + 1)]
  <2>2. \A k \in 0 .. m : g[k] = f[k]
    OBVIOUS
  <2>3. \A k \in 0 .. m : f[k] = IF k = 0 THEN <<>> ELSE Chosen(f, j, s, k)
    BY <2>1 DEF Selects
  <2>4. ASSUME NEW k \in 0 .. m + 1
        PROVE  g[k] = IF k = 0 THEN <<>> ELSE Chosen(g, j, s, k)
    <3>1. k # 0 => Chosen(g, j, s, k) = Chosen(f, j, s, k)
      <4>1. k # 0 => k - 1 \in 0 .. m
        OBVIOUS
      <4>. QED BY <2>2, <4>1 DEF Chosen
    <3>2. CASE k <= m
      BY <2>2, <2>3, <3>1, <3>2
    <3>3. CASE k = m + 1
      BY <3>1, <3>3
    <3>. QED BY <3>2, <3>3
  <2>5. Selects(g, j, s, m + 1)
    <3>1. g = [k \in 0 .. m + 1 |-> g[k]]
      OBVIOUS
    <3>. HIDE DEF g
    <3>. QED BY <2>4, <3>1 DEF Selects
  <2>. HIDE DEF g
  <2>. QED BY <2>5
<1>3. n \in G
  <2>. HIDE DEF G
  <2>. QED BY <1>1, <1>2, NaturalInduction
<1>4. Selects(Selection(j, s, n), j, s, n)
  BY <1>3 DEF Selection
<1>. DEFINE h == Selection(j, s, n)
<1>5. h = [k \in 0 .. n |-> IF k = 0 THEN <<>> ELSE Chosen(h, j, s, k)]
  BY <1>4 DEF Selects
<1>. HIDE DEF h
<1>6. h[0] = <<>>
  BY <1>5
<1>7. ASSUME NEW k \in 1 .. n PROVE h[k] = Chosen(h, j, s, k)
  <2>1. k \in 0 .. n /\ k # 0
    OBVIOUS
  <2>. QED BY <1>5, <2>1, Zenon
<1>. QED BY <1>6, <1>7 DEF h

LEMMA SelectionOfPrefix ==
  ASSUME NEW j, NEW s, NEW t, NEW n \in Nat, NEW m \in Nat, n <= m,
         \A k \in 1 .. n : t[k] = s[k]
  PROVE  \A k \in 0 .. n : Selection(j, t, m)[k] = Selection(j, s, n)[k]
<1>. DEFINE f == Selection(j, s, n)
            g == Selection(j, t, m)
            G == {k \in Nat : k <= n => g[k] = f[k]}
<1>1. 0 \in G
  BY SelectionFacts
<1>2. ASSUME NEW k \in Nat, k \in G PROVE k + 1 \in G
  <2>1. SUFFICES ASSUME k + 1 <= n PROVE g[k + 1] = f[k + 1]
    OBVIOUS
  <2>2. k + 1 \in 1 .. n /\ k + 1 \in 1 .. m /\ (k + 1) - 1 = k /\ g[k] = f[k]
    BY <1>2, <2>1
  <2>3. g[k + 1] = Chosen(g, j, t, k + 1) /\ f[k + 1] = Chosen(f, j, s, k + 1)
    BY <2>2, SelectionFacts
  <2>. QED BY <2>2, <2>3 DEF Chosen
<1>3. Nat \subseteq G
  <2>. HIDE DEF G
  <2>. QED BY <1>1, <1>2, NaturalInduction
<1>. QED BY <1>3

LEMMA FromEmpty == \A j : From(j, <<>>) = <<>>
<1>. SUFFICES ASSUME NEW j PROVE From(j, <<>>) = <<>>
  OBVIOUS
<1>1. Len(<<>>) = 0 /\ 0 \in Nat
  OBVIOUS
<1>. QED BY <1>1, FromIsSelection, SelectionFacts

LEMMA FromAppend ==
  ASSUME NEW j, NEW S, NEW s \in Seq(S), NEW m \in S
  PROVE  From(j, Append(s, m)) =
            IF m.sender = j THEN Append(From(j, s), m) ELSE From(j, s)
<1>. DEFINE t == Append(s, m)
            n == Len(s)
<1>1. n \in Nat /\ Len(t) = n + 1 /\ t[n + 1] = m /\ \A k \in 1 .. n : t[k] = s[k]
  BY AppendProperties, LenProperties
<1>. HIDE DEF t, n
<1>2. Selection(j, t, n + 1)[n] = Selection(j, s, n)[n]
  <2>1. n \in 0 .. n /\ n + 1 \in Nat /\ n <= n + 1
    BY <1>1
  <2>. QED BY <1>1, <2>1, SelectionOfPrefix
<1>3. Selection(j, t, n + 1)[n + 1] = Chosen(Selection(j, t, n + 1), j, t, n + 1)
  <2>1. n + 1 \in 1 .. n + 1 /\ n + 1 \in Nat
    BY <1>1
  <2>. QED BY <2>1, SelectionFacts
<1>4. (n + 1) - 1 = n
  BY <1>1
<1>5. From(j, t) = Selection(j, t, n + 1)[n + 1] /\ From(j, s) = Selection(j, s, n)[n]
  BY <1>1, FromIsSelection DEF n
<1>. QED BY <1>1, <1>2, <1>3, <1>4, <1>5 DEF Chosen, t

(* What From selects is of that sender, and what the sequence has. *)
LEMMA FromType ==
  ASSUME NEW j, NEW S, NEW s \in Seq(S)
  PROVE  From(j, s) \in Seq({m \in S : m.sender = j})
<1>. DEFINE T == {m \in S : m.sender = j}
            G == {r \in Seq(S) : From(j, r) \in Seq(T)}
<1>1. <<>> \in G
  <2>1. <<>> \in Seq(S) /\ <<>> \in Seq(T)
    BY EmptySeq
  <2>2. From(j, <<>>) = <<>>
    BY FromEmpty
  <2>. HIDE DEF T
  <2>. QED BY <2>1, <2>2
<1>2. ASSUME NEW r \in Seq(S), NEW m \in S, r \in G PROVE Append(r, m) \in G
  <2>1. Append(r, m) \in Seq(S) /\ From(j, r) \in Seq(T)
    BY <1>2, AppendProperties
  <2>2. m.sender = j => Append(From(j, r), m) \in Seq(T)
    BY <2>1, AppendProperties
  <2>. QED BY <2>1, <2>2, FromAppend, ZenonT(60)
<1>3. Seq(S) \subseteq G
  <2>. HIDE DEF G
  <2>. QED BY <1>1, <1>2, SequenceInduction
<1>. QED BY <1>3

LEMMA MessagesRegroup ==
  \A a \in Seq(Message) : \A b \in Seq(Message) : \A c \in Seq(Message) :
     (a \o b) \o c = a \o (b \o c)
BY ConcatAssociative, SMT

LEMMA ConcatAppend ==
  ASSUME NEW S, NEW s \in Seq(S), NEW t \in Seq(S), NEW m \in S
  PROVE  s \o Append(t, m) = Append(s \o t, m)
<1>1. <<m>> \in Seq(S) /\ s \o t \in Seq(S)
  BY ConcatProperties
<1>2. Append(t, m) = t \o <<m>> /\ Append(s \o t, m) = (s \o t) \o <<m>>
  BY <1>1, AppendIsConcat
<1>3. (s \o t) \o <<m>> = s \o (t \o <<m>>)
  BY <1>1, ConcatAssociative
<1>. QED BY <1>2, <1>3

(* It selects from two sequences one after the other. *)
LEMMA FromConcat ==
  ASSUME NEW j, NEW S, NEW s \in Seq(S), NEW t \in Seq(S)
  PROVE  From(j, s \o t) = From(j, s) \o From(j, t)
<1>. DEFINE G == {r \in Seq(S) : From(j, s \o r) = From(j, s) \o From(j, r)}
<1>1. From(j, s) \in Seq(S) /\ \A r \in Seq(S) : From(j, r) \in Seq(S)
  <2>1. \A r \in Seq(S) : From(j, r) \in Seq({m \in S : m.sender = j})
    BY FromType
  <2>2. {m \in S : m.sender = j} \subseteq S
    OBVIOUS
  <2>3. \A r \in Seq(S) : From(j, r) \in Seq(S)
    BY <2>1, <2>2, SeqMonotonic
  <2>. QED BY <2>3
<1>2. <<>> \in G
  <2>1. s \o <<>> = s /\ From(j, s) \o <<>> = From(j, s)
    BY <1>1, ConcatEmptySeq
  <2>2. <<>> \in Seq(S) /\ From(j, <<>>) = <<>>
    BY FromEmpty, EmptySeq
  <2>. QED BY <2>1, <2>2
<1>3. ASSUME NEW r \in Seq(S), NEW m \in S, r \in G PROVE Append(r, m) \in G
  <2>1. <<m>> \in Seq(S) /\ s \o r \in Seq(S) /\ Append(r, m) \in Seq(S)
    BY ConcatProperties, AppendProperties
  <2>2. s \o Append(r, m) = Append(s \o r, m)
    BY ConcatAppend
  <2>3. From(j, s \o r) = From(j, s) \o From(j, r)
    BY <1>3
  <2>4. From(j, Append(s \o r, m)) =
           IF m.sender = j THEN Append(From(j, s \o r), m) ELSE From(j, s \o r)
    BY <2>1, FromAppend, ZenonT(60)
  <2>5. From(j, Append(r, m)) = IF m.sender = j THEN Append(From(j, r), m) ELSE From(j, r)
    BY FromAppend
  <2>6. Append(From(j, s) \o From(j, r), m) = From(j, s) \o Append(From(j, r), m)
    <3>1. From(j, s) \in Seq(S) /\ From(j, r) \in Seq(S)
      BY <1>1
    <3>2. ASSUME NEW a \in Seq(S), NEW b \in Seq(S)
          PROVE  a \o Append(b, m) = Append(a \o b, m)
      BY ConcatAppend
    <3>. QED BY <3>1, <3>2, Zenon
  <2>7. From(j, s \o Append(r, m)) = From(j, s) \o From(j, Append(r, m))
    <3>1. CASE m.sender = j
      BY <2>2, <2>3, <2>4, <2>5, <2>6, <3>1, Zenon
    <3>2. CASE m.sender # j
      BY <2>2, <2>3, <2>4, <2>5, <3>2, Zenon
    <3>. QED BY <3>1, <3>2
  <2>. QED BY <2>1, <2>7
<1>4. Seq(S) \subseteq G
  <2>. HIDE DEF G
  <2>. QED BY <1>2, <1>3, SequenceInduction
<1>. QED BY <1>4

(* The first message is the first of its sender. *)
LEMMA FromHead ==
  ASSUME NEW j, NEW S, NEW s \in Seq(S), s # <<>>
  PROVE  From(j, s) = IF Head(s).sender = j THEN <<Head(s)>> \o From(j, Tail(s))
                      ELSE From(j, Tail(s))
<1>1. /\ Head(s) \in S /\ Tail(s) \in Seq(S) /\ <<Head(s)>> \in Seq(S)
      /\ s = <<Head(s)>> \o Tail(s)
  OBVIOUS
<1>2. From(j, s) = From(j, <<Head(s)>>) \o From(j, Tail(s))
  BY <1>1, FromConcat, ZenonT(60)
<1>3. From(j, <<Head(s)>>) = IF Head(s).sender = j THEN <<Head(s)>> ELSE <<>>
  <2>1. Append(<<>>, Head(s)) = <<Head(s)>> /\ <<>> \in Seq(S)
    OBVIOUS
  <2>2. From(j, Append(<<>>, Head(s))) =
           IF Head(s).sender = j THEN Append(From(j, <<>>), Head(s)) ELSE From(j, <<>>)
    BY <1>1, <2>1, FromAppend, ZenonT(60)
  <2>. QED BY <2>1, <2>2, FromEmpty
<1>4. <<>> \o From(j, Tail(s)) = From(j, Tail(s))
  <2>1. From(j, Tail(s)) \in Seq({m \in S : m.sender = j})
    BY <1>1, FromType
  <2>. QED BY <2>1, ConcatEmptySeq
<1>. QED BY <1>2, <1>3, <1>4

(* What is said of messages in a row. *)
LEMMA SaidFacts ==
  ASSUME NEW s \in Seq(Message)
  PROVE  /\ SaidOf(s) = <<>> <=> s = <<>>
         /\ \A m \in Message : SaidOf(Append(s, m)) = Append(SaidOf(s), Said(m))
         /\ s # <<>> => /\ Head(SaidOf(s)) = Said(Head(s))
                        /\ Tail(SaidOf(s)) = SaidOf(Tail(s))
         /\ Len(SaidOf(s)) = Len(s)
<1>1. SaidOf(s) \in Seq({Said(m) : m \in Message}) /\ Len(SaidOf(s)) = Len(s)
  BY DEF SaidOf
<1>2. SaidOf(s) = <<>> <=> s = <<>>
  BY <1>1, EmptySeq, LenProperties DEF SaidOf
<1>3. ASSUME NEW m \in Message
      PROVE  SaidOf(Append(s, m)) = Append(SaidOf(s), Said(m))
  BY DEF SaidOf
<1>4. ASSUME s # <<>>
      PROVE  /\ Head(SaidOf(s)) = Said(Head(s))
             /\ Tail(SaidOf(s)) = SaidOf(Tail(s))
  <2>1. Head(SaidOf(s)) = Said(Head(s))
    BY <1>1, <1>2, <1>4 DEF SaidOf
  <2>2. Tail(SaidOf(s)) = SaidOf(Tail(s))
    BY <1>1, <1>2, <1>4 DEF SaidOf
  <2>. QED BY <2>1, <2>2
<1>. QED BY <1>1, <1>2, <1>3, <1>4

----------------------------------------------------------------------------
(* TransferAmount with what is proved about it, under the refinement        *)
(* mapping of NodeRuntime.                                                  *)
TA == INSTANCE TransferAmount_proofs WITH
    writers <- opened, transfering_account <- paying

LEMMA ProtocolAssumptions == TA!PathsAssumption /\ TA!ModulusAssumption
<1>1. TA!PathsAssumption
  BY PathsAssumption DEF TA!Amount, Amount, TA!IsFiniteSet, IsFiniteSet
<1>2. TA!ModulusAssumption
  BY ModulusAssumption
<1>. QED BY <1>1, <1>2

(* The messages a node holds, and those on their way to it.  A connection   *)
(* carries what its writer has written.  The connection of a finished was   *)
(* closed when the handler had read it, and no amount came in on a closed   *)
(* connection.  A node that connects has only the connections of the        *)
(* message it answers.  Main's message is in one place.                     *)
Arrived(i) ==
    {m \in Message : m.type = "finished" => link[<<m.sender, i>>] = "closed"}
Written(j) == {m \in Message : m.sender = j}

ArrivedInv == \A i \in Nodes : queue[i] \in Seq(Arrived(i))
WrittenInv == \A j, i \in Nodes : stream[<<j, i>>] \in Seq(Written(j))

ConnectInv ==
    \A i \in Nodes : Connecting(i) =>
        /\ writers[i] = {answering[i].sender, NextNode(i)} \ {NoNode}
        /\ transfering_account[i] = (answering[i].sender = NoNode)

MainsInv ==
    /\ \A i \in Nodes \ {call.from} : From(NoNode, InHand(i)) = <<>>
    /\ Running => From(NoNode, InHand(call.from)) \in
                      {<<>>, <<Transfer(NoNode, call.amount)>>}

ClosedInv ==
    \A j, i \in Nodes : link[<<j, i>>] = "closed" =>
        From(j, InHand(i)) \in Seq({m \in Message : m.type = "finished"})

CarryInv    == ArrivedInv /\ WrittenInv /\ ClosedInv /\ ConnectInv /\ MainsInv
ProtocolInv == TA!TypeOK /\ TA!PhaseInv /\ TA!PathInv /\ TA!WayInv
RefineInv   == IInv /\ CarryInv /\ ProtocolInv

----------------------------------------------------------------------------
(* The types of what is under way. *)
LEMMA UnderwayFacts ==
  ASSUME IInv, CarryInv
  PROVE  /\ \A i \in Nodes : InHand(i) \in Seq(Message) /\ queue[i] \in Seq(Message)
         /\ \A j, i \in Nodes :
               /\ From(j, InHand(i)) \in Seq(Message)
               /\ stream[<<j, i>>] \in Seq(Message)
               /\ Underway(j, i) \in Seq(Message)
               /\ <<j, i>> \in Links
               /\ chan[<<j, i>>] = SaidOf(Underway(j, i))
<1>1. \A i \in Nodes : queue[i] \in Seq(Message)
  BY DEF IInv, TypeOK
<1>2. \A i \in Nodes : InHand(i) \in Seq(Message)
  <2>1. SUFFICES ASSUME NEW i \in Nodes PROVE InHand(i) \in Seq(Message)
    OBVIOUS
  <2>2. Connecting(i) => <<answering[i]>> \in Seq(Message)
    BY DEF IInv, TypeOK
  <2>3. <<>> \in Seq(Message) /\ queue[i] \in Seq(Message)
    BY <1>1
  <2>4. \A s \in Seq(Message) : s \o queue[i] \in Seq(Message)
    BY <2>3, ConcatProperties
  <2>. QED BY <2>2, <2>3, <2>4 DEF InHand
<1>3. SUFFICES ASSUME NEW j \in Nodes, NEW i \in Nodes
               PROVE  /\ From(j, InHand(i)) \in Seq(Message)
                      /\ stream[<<j, i>>] \in Seq(Message)
                      /\ Underway(j, i) \in Seq(Message)
                      /\ <<j, i>> \in Links
                      /\ chan[<<j, i>>] = SaidOf(Underway(j, i))
  BY <1>1, <1>2
<1>4. From(j, InHand(i)) \in Seq(Message)
  <2>1. From(j, InHand(i)) \in Seq({m \in Message : m.sender = j})
    BY <1>2, FromType
  <2>2. {m \in Message : m.sender = j} \subseteq Message
    OBVIOUS
  <2>. QED BY <2>1, <2>2, SeqMonotonic
<1>5. <<j, i>> \in Links
  BY DEF Links
<1>6. stream[<<j, i>>] \in Seq(Message)
  BY <1>5 DEF IInv, TypeOK
<1>7. Underway(j, i) \in Seq(Message)
  BY <1>4, <1>6, ConcatProperties DEF Underway
<1>8. chan[<<j, i>>] = SaidOf(Underway(j, i))
  BY <1>5 DEF chan
<1>. QED BY <1>4, <1>5, <1>6, <1>7, <1>8

(* Steps that change no message. *)
LEMMA SameMessages ==
  ASSUME \A i \in Nodes : Connecting(i)' = Connecting(i) /\ answering'[i] = answering[i],
         UNCHANGED <<queue, stream>>
  PROVE  /\ \A i \in Nodes : InHand(i)' = InHand(i)
         /\ posted' = posted /\ chan' = chan
<1>1. \A i \in Nodes : InHand(i)' = InHand(i)
  BY DEF InHand
<1>2. posted' = posted
  BY <1>1 DEF posted
<1>3. \A e \in Links : Underway(e[1], e[2])' = Underway(e[1], e[2])
  BY <1>1 DEF Underway, Links
<1>4. chan' = chan
  BY <1>3 DEF chan
<1>. QED BY <1>1, <1>2, <1>4

(* What is kept by steps of the threads. *)
LEMMA CarryFrame ==
  ASSUME IInv, CarryInv, UNCHANGED main,
         \A e \in Links : link[e] = "closed" => link'[e] = "closed"
  PROVE  /\ \A i \in Nodes : Arrived(i) \subseteq Arrived(i)'
         /\ \A i : NextNode(i)' = NextNode(i)
         /\ queue' = queue => ArrivedInv'
         /\ stream' = stream => WrittenInv'
         /\ (\A i \in Nodes : From(NoNode, InHand(i)') = From(NoNode, InHand(i)))
               => MainsInv'
         /\ (\A i, j \in Nodes : /\ From(j, InHand(i)') = From(j, InHand(i))
                                 /\ link'[<<j, i>>] = "closed" => link[<<j, i>>] = "closed")
               => ClosedInv'
<1>1. \A i \in Nodes : Arrived(i) \subseteq Arrived(i)'
  <2>1. SUFFICES ASSUME NEW i \in Nodes, NEW m \in Arrived(i), m.type = "finished"
                 PROVE  link'[<<m.sender, i>>] = "closed"
    BY DEF Arrived
  <2>2. m.sender \in Nodes
    BY <2>1 DEF Arrived, Message
  <2>. QED BY <2>1, <2>2 DEF Arrived, Links
<1>2. \A i : NextNode(i)' = NextNode(i)
  BY DEF main, NextNode
<1>3. ASSUME queue' = queue PROVE ArrivedInv'
  <2>1. SUFFICES ASSUME NEW i \in Nodes PROVE queue[i] \in Seq(Arrived(i)')
    BY <1>3 DEF ArrivedInv
  <2>2. queue[i] \in Seq(Arrived(i))
    BY DEF CarryInv, ArrivedInv
  <2>. QED BY <1>1, <2>2, SeqMonotonic
<1>4. ASSUME stream' = stream PROVE WrittenInv'
  BY <1>4 DEF CarryInv, WrittenInv, Written
<1>5. ASSUME \A i \in Nodes : From(NoNode, InHand(i)') = From(NoNode, InHand(i))
      PROVE  MainsInv'
  <2>1. call' = call /\ (Running' <=> Running)
    BY DEF main, Running
  <2>2. Running => call.from \in Nodes
    BY DEF IInv, WalkInv
  <2>. QED BY <1>5, <2>1, <2>2 DEF CarryInv, MainsInv
<1>6. ASSUME \A i, j \in Nodes :
                /\ From(j, InHand(i)') = From(j, InHand(i))
                /\ link'[<<j, i>>] = "closed" => link[<<j, i>>] = "closed"
      PROVE  ClosedInv'
  BY <1>6 DEF CarryInv, ClosedInv
<1>. QED BY <1>1, <1>2, <1>3, <1>4, <1>5, <1>6

----------------------------------------------------------------------------
(* A step that changes nothing TransferAmount sees. *)
LEMMA SameProtocol ==
  ASSUME UNCHANGED main, UNCHANGED <<credit, finished, counter_finished>>,
         UNCHANGED <<posted, chan, closed, opened, paying, interrupt, joined>>
  PROVE  UNCHANGED TA!vars
BY DEF TA!vars, TA!main, TA!walk, TA!threads, main, walk

(* The handler and the connections move, the messages do not. *)
LEMMA QuietlyOn ==
  ASSUME RefineInv,
         UNCHANGED <<main, credit, answering, writers, transfering_account,
                     finished, counter_finished, queue, stream>>,
         \A i \in Nodes : \/ node'[i] = node[i]
                          \/ node[i] = "created" /\ node'[i] = "loop",
         \A e \in Links : link'[e] = "closed" <=> link[e] = "closed"
  PROVE  UNCHANGED TA!vars /\ CarryInv'
<1>1. \A i \in Nodes : /\ Connecting(i)' = Connecting(i)
                       /\ Interrupted(i)' = Interrupted(i)
                       /\ (node'[i] = "ended") = (node[i] = "ended")
  BY DEF Connecting, Interrupted
<1>2. /\ \A i \in Nodes : InHand(i)' = InHand(i)
      /\ posted' = posted /\ chan' = chan
  BY <1>1, SameMessages
<1>3. closed' = closed
  BY <1>2 DEF closed, Links
<1>4. UNCHANGED <<opened, paying, interrupt, joined>>
  BY <1>1 DEF opened, paying, interrupt, joined
<1>5. UNCHANGED TA!vars
  BY <1>2, <1>3, <1>4, SameProtocol
<1>6. /\ ArrivedInv' /\ WrittenInv' /\ MainsInv' /\ ClosedInv'
      /\ \A i : NextNode(i)' = NextNode(i)
  <2>1. \A i, j \in Nodes : /\ From(j, InHand(i)') = From(j, InHand(i))
                            /\ link'[<<j, i>>] = "closed" => link[<<j, i>>] = "closed"
    BY <1>2 DEF Links
  <2>. QED BY <1>2, <2>1, CarryFrame DEF RefineInv
<1>7. ConnectInv'
  BY <1>1, <1>6 DEF RefineInv, CarryInv, ConnectInv
<1>. QED BY <1>5, <1>6, <1>7 DEF CarryInv

LEMMA QuietSteps ==
  ASSUME RefineInv, NEW i \in Nodes,
         \/ Listen(i) \/ HandlerEnd(i) \/ StartHandler(i)
         \/ \E j \in Nodes : Accept(i, j) \/ Connect(i, j)
  PROVE  UNCHANGED TA!vars /\ CarryInv'
<1>1. CASE Listen(i) \/ HandlerEnd(i)
  BY <1>1, QuietlyOn DEF Listen, HandlerEnd, worker, wire
<1>2. CASE StartHandler(i)
  <2>1. \A k \in Nodes : \/ node'[k] = node[k]
                         \/ node[k] = "created" /\ node'[k] = "loop"
    BY <1>2 DEF StartHandler, RefineInv, IInv, TypeOK
  <2>. QED BY <1>2, <2>1, QuietlyOn DEF StartHandler, wire
<1>3. ASSUME NEW j \in Nodes, Accept(i, j) \/ Connect(i, j)
      PROVE  UNCHANGED TA!vars /\ CarryInv'
  <2>1. \A e \in Links : link'[e] = "closed" <=> link[e] = "closed"
    BY <1>3, ZenonT(60) DEF Accept, Connect, RefineInv, IInv, TypeOK, Links
  <2>. QED BY <1>3, <2>1, QuietlyOn DEF Accept, Connect, worker, server
<1>. QED BY <1>1, <1>2, <1>3

----------------------------------------------------------------------------
(* Before main's message there are none. *)
LEMMA EmptyHanded ==
    \A i \in Nodes : queue[i] = <<>> /\ ~ Connecting(i) => InHand(i) = <<>>
BY DEF InHand

LEMMA NothingCarried ==
  ASSUME IInv', pc' \in {"session", "walk", "last", "post"}
  PROVE  CarryInv'
<1>1. /\ \A i \in Nodes : queue'[i] = <<>> /\ ~ Connecting(i)'
      /\ \A e \in Links : stream'[e] = <<>>
  BY DEF IInv, QuietInv, Connecting
<1>2. \A S : <<>> \in Seq(S)
  BY EmptySeq
<1>3. ArrivedInv' /\ WrittenInv' /\ ClosedInv'
  <2>1. \A e \in Links : link'[e] = "none"
    BY DEF IInv, QuietInv
  <2>. QED BY <1>1, <1>2, <2>1 DEF ArrivedInv, WrittenInv, ClosedInv, Links
<1>4. ConnectInv'
  BY <1>1 DEF ConnectInv
<1>5. \A i \in Nodes : InHand(i)' = <<>>
  BY <1>1 DEF InHand
<1>6. Running' => call'.from \in Nodes
  BY DEF IInv, WalkInv
<1>7. MainsInv'
  BY <1>5, <1>6, FromEmpty DEF MainsInv
<1>. QED BY <1>3, <1>4, <1>7 DEF CarryInv

(* Main asks, and walks. *)
LEMMA WalkSteps ==
  ASSUME RefineInv, IInv',
         \/ \E f, t \in Nodes, a \in Amounts : Begin(f, t, a)
         \/ SpawnOnPath \/ SpawnLast
  PROVE  TA!Next /\ CarryInv'
<1>1. ASSUME NEW f \in Nodes, NEW t \in Nodes, NEW a \in Amounts, Begin(f, t, a)
      PROVE  TA!Begin(f, t, a) /\ pc' = "walk"
  BY <1>1 DEF Begin, Protocol!Begin, Protocol!Covered, Protocol!threads,
              TA!Begin, TA!Covered, TA!threads
<1>2. ASSUME SpawnOnPath PROVE TA!SpawnOnPath /\ pc' \in {"walk", "last"}
  BY <1>2 DEF SpawnOnPath, Protocol!SpawnOnPath, Protocol!Spawn, Protocol!threads,
              Protocol!NextNode, TA!SpawnOnPath, TA!Spawn, TA!threads, TA!NextNode
<1>3. ASSUME SpawnLast PROVE TA!SpawnLast /\ pc' = "post"
  BY <1>3 DEF SpawnLast, Protocol!SpawnLast, Protocol!Spawn, Protocol!threads,
              Protocol!walk, TA!SpawnLast, TA!Spawn, TA!threads, TA!walk
<1>4. TA!Next
  BY <1>1, <1>2, <1>3, Zenon DEF TA!Next, TA!CallStep
<1>5. pc' \in {"session", "walk", "last", "post"}
  BY <1>1, <1>2, <1>3
<1>. QED BY <1>4, <1>5, NothingCarried

(* Main posts the amount, to an empty queue. *)
LEMMA PostMaps ==
  ASSUME RefineInv, Post
  PROVE  TA!Next /\ CarryInv'
<1>. DEFINE m == Transfer(NoNode, call.amount)
<1>0. PICK f : f = call.from
  OBVIOUS
<1>1. /\ pc = "post" /\ pc' = "announce"
      /\ queue' = [queue EXCEPT ![f] = Append(@, m)]
      /\ UNCHANGED <<calls, call, walk, announced, opening, spawned, adj_edges,
                     worker, server, wire>>
  BY <1>0 DEF Post
<1>2. /\ f \in Nodes /\ call.amount \in Amounts
      /\ DOMAIN queue = Nodes
      /\ \A i \in Nodes : queue[i] = <<>> /\ node[i] \in {"none", "created", "loop"}
      /\ \A e \in Links : link[e] = "none" /\ stream[e] = <<>>
  BY <1>0, <1>1 DEF RefineInv, IInv, WalkInv, Running, QuietInv, TypeOK
<1>3. m \in Message /\ m.sender = NoNode /\ m.type = "transfer_amount" /\ NoNode \notin Nodes
  BY <1>2, MessageFacts, PathFacts
<1>. HIDE DEF m
<1>4. queue'[f] = <<m>> /\ \A i \in Nodes \ {f} : queue'[i] = <<>>
  <2>1. Append(<<>>, m) = <<m>>
    OBVIOUS
  <2>2. queue'[f] = Append(queue[f], m) /\ \A i \in Nodes \ {f} : queue'[i] = queue[i]
    BY <1>1, <1>2
  <2>. QED BY <1>2, <2>1, <2>2
<1>5. \A i \in Nodes : ~ Connecting(i) /\ ~ Connecting(i)'
  BY <1>1, <1>2 DEF Connecting, worker
<1>6. /\ \A i \in Nodes : InHand(i) = <<>>
      /\ \A i \in Nodes \ {f} : InHand(i)' = <<>>
      /\ InHand(f)' = <<m>>
  <2>1. <<>> \o <<>> = <<>> /\ <<>> \o <<m>> = <<m>>
    OBVIOUS
  <2>2. /\ \A i \in Nodes : InHand(i) = <<>> \o queue[i]
        /\ \A i \in Nodes : InHand(i)' = <<>> \o queue'[i]
    BY <1>5 DEF InHand
  <2>. QED BY <1>2, <1>4, <2>1, <2>2
<1>7. \A j : From(j, <<m>>) = IF j = NoNode THEN <<m>> ELSE <<>>
  <2>1. SUFFICES ASSUME NEW j PROVE From(j, <<m>>) = IF j = NoNode THEN <<m>> ELSE <<>>
    OBVIOUS
  <2>2. Append(<<>>, m) = <<m>> /\ <<>> \in Seq(Message)
    OBVIOUS
  <2>3. From(j, Append(<<>>, m)) =
           IF m.sender = j THEN Append(From(j, <<>>), m) ELSE From(j, <<>>)
    BY <1>3, <2>2, FromAppend
  <2>. QED BY <1>3, <2>2, <2>3, FromEmpty
<1>8. ~ posted /\ posted'
  <2>1. From(NoNode, <<m>>) # <<>> /\ From(NoNode, <<>>) = <<>>
    BY <1>7, FromEmpty
  <2>2. From(NoNode, InHand(f)') # <<>>
    BY <1>6, <2>1
  <2>3. \A i \in Nodes : From(NoNode, InHand(i)) = <<>>
    BY <1>6, <2>1
  <2>. QED BY <1>2, <2>2, <2>3 DEF posted
<1>9. \A j, i \in Nodes : From(j, InHand(i)') = From(j, InHand(i))
  <2>1. \A j \in Nodes : From(j, <<m>>) = <<>> /\ From(j, <<>>) = <<>>
    BY <1>3, <1>7, FromEmpty
  <2>2. SUFFICES ASSUME NEW j \in Nodes, NEW i \in Nodes
                 PROVE  From(j, InHand(i)') = From(j, InHand(i))
    OBVIOUS
  <2>3. CASE i = f
    <3>1. InHand(i)' = <<m>> /\ InHand(i) = <<>>
      BY <1>6, <2>3
    <3>. QED BY <2>1, <3>1
  <2>4. CASE i # f
    <3>1. InHand(i)' = <<>> /\ InHand(i) = <<>>
      BY <1>6, <2>4
    <3>. QED BY <3>1
  <2>. QED BY <2>3, <2>4
<1>10. chan' = chan /\ closed' = closed
  <2>1. \A e \in Links : Underway(e[1], e[2])' = Underway(e[1], e[2])
    BY <1>1, <1>9 DEF Underway, Links, wire
  <2>2. \A e \in Links : From(e[1], InHand(e[2]))' = From(e[1], InHand(e[2]))
    BY <1>9 DEF Links
  <2>. QED BY <1>1, <2>1, <2>2 DEF chan, closed, wire
<1>11. UNCHANGED <<opened, paying, interrupt, joined>>
  BY <1>1 DEF worker, opened, paying, interrupt, joined, Connecting, Interrupted
<1>12. TA!Post
  BY <1>1, <1>8, <1>10, <1>11 DEF TA!Post, TA!walk, walk, worker, posted
<1>13. ArrivedInv'
  <2>1. \A i : m \in Arrived(i)'
    BY <1>3 DEF Arrived
  <2>2. \A S : <<>> \in Seq(S) /\ (m \in S => <<m>> \in Seq(S))
    OBVIOUS
  <2>3. \A i \in Nodes : queue'[i] \in Seq(Arrived(i)')
    BY <1>4, <2>1, <2>2
  <2>. QED BY <2>3 DEF ArrivedInv
<1>14. WrittenInv' /\ ClosedInv' /\ ConnectInv'
  BY <1>1, <1>2, <1>5 DEF RefineInv, CarryInv, WrittenInv, ClosedInv, ConnectInv, Written,
                          wire, Links
<1>15. MainsInv'
  <2>1. call' = call /\ From(NoNode, <<m>>) = <<Transfer(NoNode, call.amount)>>
    BY <1>1, <1>7 DEF m
  <2>2. From(NoNode, InHand(f)') = <<Transfer(NoNode, call'.amount)>>
    BY <1>6, <2>1
  <2>3. \A i \in Nodes \ {f} : From(NoNode, InHand(i)') = <<>>
    BY <1>6, FromEmpty
  <2>. QED BY <1>0, <2>1, <2>2, <2>3 DEF MainsInv
<1>. QED BY <1>12, <1>13, <1>14, <1>15 DEF TA!Next, TA!CallStep, CarryInv

LEMMA AnnounceMaps ==
  ASSUME RefineInv, Announce
  PROVE  TA!Next /\ CarryInv'
<1>1. /\ UNCHANGED <<calls, call, walk, opening, spawned, adj_edges, runtime>>
      /\ pc = "announce" /\ pc' = "join"
  BY DEF Announce, Protocol!Announce, Protocol!walk, walk
<1>2. TA!Announce
  BY DEF Announce, Protocol!Announce, Protocol!walk, Protocol!threads,
         TA!Announce, TA!walk, TA!threads
<1>3. \A i \in Nodes : InHand(i)' = InHand(i)
  BY <1>1 DEF InHand, Connecting, runtime, worker
<1>4. ArrivedInv' /\ WrittenInv' /\ ClosedInv'
  BY <1>1, <1>3 DEF RefineInv, CarryInv, ArrivedInv, WrittenInv, ClosedInv, Arrived, Written,
                    runtime, wire
<1>5. ConnectInv'
  <2>1. \A i : NextNode(i)' = NextNode(i)
    BY <1>1 DEF NextNode
  <2>. QED BY <1>1, <2>1 DEF RefineInv, CarryInv, ConnectInv, Connecting, runtime, worker
<1>6. MainsInv'
  <2>1. Running /\ call.from \in Nodes
    BY <1>1 DEF Running, RefineInv, IInv, WalkInv
  <2>. QED BY <1>1, <1>3, <2>1 DEF RefineInv, CarryInv, MainsInv
<1>. QED BY <1>2, <1>4, <1>5, <1>6 DEF TA!Next, TA!CallStep, CarryInv

(* Main returns: the queues are empty, and everything else is new. *)
LEMMA ReturnMaps ==
  ASSUME RefineInv, IInv', Return
  PROVE  TA!Next /\ CarryInv'
<1>1. /\ pc = "join" /\ AllJoined
      /\ pc' = "session" /\ calls' = calls + 1
      /\ spawned' = {} /\ adj_edges' = [i \in Nodes |-> {}]
      /\ node' = [i \in Nodes |-> "none"]
      /\ writers' = [i \in Nodes |-> {}]
      /\ transfering_account' = [i \in Nodes |-> FALSE]
      /\ finished' = [i \in Nodes |-> FALSE]
      /\ counter_finished' = [i \in Nodes |-> 0]
      /\ link' = [e \in Links |-> "none"]
      /\ stream' = [e \in Links |-> <<>>]
      /\ UNCHANGED <<call, walk, announced, opening, credit, queue>>
  BY DEF Return
<1>2. \A i \in Nodes : queue[i] = <<>> /\ queue'[i] = <<>>
  BY <1>1, AllQueuesEmpty DEF RefineInv
<1>3. \A i \in Nodes : ~ Connecting(i) /\ ~ Connecting(i)'
  <2>1. \A i \in Nodes : ~ Connecting(i)'
    BY <1>1 DEF Connecting
  <2>2. \A i \in spawned : node[i] = "ended"
    BY <1>1 DEF AllJoined
  <2>3. \A i \in Nodes : i \notin spawned => node[i] = "none"
    BY DEF RefineInv, IInv, PathInv
  <2>. QED BY <2>1, <2>2, <2>3 DEF Connecting
<1>4. \A i \in Nodes : InHand(i) = <<>> /\ InHand(i)' = <<>>
  BY <1>2, <1>3 DEF InHand
<1>5. ~ posted /\ ~ posted'
  BY <1>4, FromEmpty DEF posted
<1>6. chan' = [e \in Links |-> <<>>]
  <2>1. SaidOf(<<>>) = <<>>
    BY DEF SaidOf
  <2>2. \A e \in Links : Underway(e[1], e[2])' = <<>>
    BY <1>1, <1>4, FromEmpty DEF Underway, Links
  <2>. QED BY <2>1, <2>2 DEF chan
<1>7. /\ closed' = {} /\ opened' = [i \in Nodes |-> {}]
      /\ paying' = [i \in Nodes |-> FALSE]
      /\ interrupt' = [i \in Nodes |-> FALSE] /\ joined' = [i \in Nodes |-> FALSE]
  <2>1. \A i \in Nodes : Interrupted(i)' = FALSE /\ (node'[i] = "ended") = FALSE
    BY <1>1 DEF Interrupted
  <2>2. closed' = {} /\ opened' = [i \in Nodes |-> {}]
    BY <1>1, <1>3 DEF closed, opened
  <2>3. paying' = [i \in Nodes |-> FALSE]
    BY <1>1 DEF paying
  <2>4. interrupt' = [i \in Nodes |-> FALSE] /\ joined' = [i \in Nodes |-> FALSE]
    BY <2>1, Zenon DEF interrupt, joined
  <2>. QED BY <2>2, <2>3, <2>4
<1>8. TA!AllJoined
  <2>1. spawned \subseteq Nodes
    BY DEF RefineInv, IInv, WalkInv
  <2>. QED BY <1>1, <2>1 DEF TA!AllJoined, AllJoined, joined
<1>9. TA!Return
  <2>1. posted' = posted
    BY <1>5 DEF posted
  <2>. QED BY <1>1, <1>6, <1>7, <1>8, <2>1 DEF TA!Return, TA!Nobody, TA!Never,
       TA!Zero, TA!Silent, TA!Links, Links, TA!walk, walk
<1>10. CarryInv'
  BY <1>1, NothingCarried
<1>. QED BY <1>9, <1>10 DEF TA!Next, TA!CallStep

----------------------------------------------------------------------------
(* The head of one sequence moves to the end of the other. *)
LEMMA HeadMoves ==
  ASSUME NEW S, NEW s \in Seq(S), NEW t \in Seq(S), t # <<>>
  PROVE  Append(s, Head(t)) \o Tail(t) = s \o t
<1>1. Head(t) \in S /\ Tail(t) \in Seq(S) /\ <<Head(t)>> \in Seq(S)
      /\ t = <<Head(t)>> \o Tail(t)
  OBVIOUS
<1>2. Append(s, Head(t)) = s \o <<Head(t)>>
  BY <1>1, AppendIsConcat
<1>3. (s \o <<Head(t)>>) \o Tail(t) = s \o (<<Head(t)>> \o Tail(t))
  BY <1>1, ConcatAssociative
<1>. QED BY <1>1, <1>2, <1>3

(* A message in the hands of a node joins those it has. *)
LEMMA HandGrows ==
  ASSUME RefineInv, NEW i \in Nodes, NEW m \in Message,
         queue'[i] = Append(queue[i], m),
         Connecting(i)' = Connecting(i), answering'[i] = answering[i]
  PROVE  /\ InHand(i)' = Append(InHand(i), m)
         /\ \A k : From(k, InHand(i)') = IF m.sender = k
                                         THEN Append(From(k, InHand(i)), m)
                                         ELSE From(k, InHand(i))
<1>. DEFINE pre == IF Connecting(i) THEN <<answering[i]>> ELSE <<>>
<1>1. pre \in Seq(Message) /\ queue[i] \in Seq(Message)
  <2>1. Connecting(i) => <<answering[i]>> \in Seq(Message)
    BY DEF RefineInv, IInv, TypeOK
  <2>2. <<>> \in Seq(Message) /\ queue[i] \in Seq(Message)
    BY DEF RefineInv, IInv, TypeOK
  <2>. QED BY <2>1, <2>2
<1>2. InHand(i) = pre \o queue[i] /\ InHand(i)' = pre \o Append(queue[i], m)
  BY DEF InHand
<1>. HIDE DEF pre
<1>3. InHand(i)' = Append(InHand(i), m)
  BY <1>1, <1>2, ConcatAppend
<1>4. InHand(i) \in Seq(Message)
  BY UnderwayFacts DEF RefineInv
<1>5. ASSUME NEW k
      PROVE  From(k, Append(InHand(i), m)) = IF m.sender = k
                                             THEN Append(From(k, InHand(i)), m)
                                             ELSE From(k, InHand(i))
  BY <1>4, FromAppend
<1>. QED BY <1>3, <1>5

(* A message the handler reads stays under way. *)
LEMMA ReadMaps ==
  ASSUME RefineInv, NEW i \in Nodes, NEW j \in Nodes, Read(i, j)
  PROVE  UNCHANGED TA!vars /\ CarryInv'
<1>. DEFINE t == stream[<<j, i>>]
            h == Head(t)
<1>1. /\ link[<<j, i>>] = "accepted" /\ t # <<>>
      /\ queue' = [queue EXCEPT ![i] = Append(@, h)]
      /\ stream' = [stream EXCEPT ![<<j, i>>] = Tail(@)]
      /\ link' = [link EXCEPT ![<<j, i>>] = IF h.type = "finished" THEN "closed" ELSE @]
      /\ UNCHANGED <<main, worker, server>>
  BY DEF Read
<1>2. /\ link \in [Links -> {"none", "refused", "backlog", "accepted", "closed"}]
      /\ queue \in [Nodes -> Seq(Message)] /\ stream \in [Links -> Seq(Message)]
      /\ \A k, l \in Nodes : <<k, l>> \in Links
      /\ NoNode \notin Nodes
  BY PathFacts DEF RefineInv, IInv, TypeOK, Links
<1>3. /\ h \in Written(j) /\ Tail(t) \in Seq(Written(j))
      /\ t \in Seq(Message)
  <2>1. t \in Seq(Written(j))
    BY DEF RefineInv, CarryInv, WrittenInv
  <2>2. h \in Written(j) /\ Tail(t) \in Seq(Written(j))
    BY <1>1, <2>1, SeqFacts
  <2>. QED BY <1>2, <2>2
<1>4. h \in Message /\ h.sender = j
  BY <1>3 DEF Written
<1>5. /\ queue'[i] = Append(queue[i], h) /\ stream'[<<j, i>>] = Tail(t)
      /\ \A k \in Nodes \ {i} : queue'[k] = queue[k]
      /\ \A k, l \in Nodes : <<k, l>> # <<j, i>> => /\ stream'[<<k, l>>] = stream[<<k, l>>]
                                                  /\ link'[<<k, l>>] = link[<<k, l>>]
      /\ h.type = "finished" => link'[<<j, i>>] = "closed"
  BY <1>1, <1>2
<1>6. \A k \in Nodes : Connecting(k)' = Connecting(k) /\ answering'[k] = answering[k]
  BY <1>1 DEF worker, Connecting
<1>. HIDE DEF h, t
<1>7. /\ InHand(i)' = Append(InHand(i), h)
      /\ \A k : From(k, InHand(i)') = IF j = k THEN Append(From(k, InHand(i)), h)
                                      ELSE From(k, InHand(i))
  BY <1>4, <1>5, <1>6, HandGrows
<1>8. \A k \in Nodes \ {i} : InHand(k)' = InHand(k)
  BY <1>5, <1>6 DEF InHand
<1>9. \A k \in Nodes : From(NoNode, InHand(k)') = From(NoNode, InHand(k))
  BY <1>2, <1>7, <1>8
<1>10. posted' = posted
  BY <1>9 DEF posted
<1>11. \A k, l \in Nodes : <<k, l>> # <<j, i>> => From(k, InHand(l)') = From(k, InHand(l))
  BY <1>7, <1>8
<1>12. From(j, InHand(i)) \in Seq(Message) /\ t = stream[<<j, i>>]
  BY UnderwayFacts DEF RefineInv, t
<1>13. chan' = chan
  <2>1. From(j, InHand(i)') \o Tail(t) = From(j, InHand(i)) \o t
    <3>1. Append(From(j, InHand(i)), Head(t)) \o Tail(t) = From(j, InHand(i)) \o t
      BY <1>1, <1>3, <1>12, HeadMoves
    <3>. QED BY <1>7, <3>1 DEF h
  <2>2. Underway(j, i)' = Underway(j, i)
    BY <1>5, <1>12, <2>1 DEF Underway
  <2>3. \A k, l \in Nodes : <<k, l>> # <<j, i>> => Underway(k, l)' = Underway(k, l)
    BY <1>5, <1>11 DEF Underway
  <2>4. \A e \in Links : Underway(e[1], e[2])' = Underway(e[1], e[2])
    BY <2>2, <2>3 DEF Links
  <2>. QED BY <2>4 DEF chan
<1>14. closed' = closed
  <2>1. From(j, InHand(i)') # <<>>
    BY <1>4, <1>7, <1>12, AppendProperties
  <2>2. <<j, i>> \notin closed /\ <<j, i>> \notin closed'
    BY <1>1, <2>1 DEF closed
  <2>3. ASSUME NEW k \in Nodes, NEW l \in Nodes, <<k, l>> # <<j, i>>
        PROVE  <<k, l>> \in closed' <=> <<k, l>> \in closed
    BY <1>5, <1>11, <2>3 DEF closed
  <2>4. closed \subseteq Links /\ closed' \subseteq Links
    BY DEF closed
  <2>. QED BY <2>2, <2>3, <2>4 DEF Links
<1>15. UNCHANGED <<opened, paying, interrupt, joined>>
  BY <1>1, <1>6 DEF worker, opened, paying, interrupt, joined, Interrupted
<1>16. UNCHANGED TA!vars
  BY <1>1, <1>10, <1>13, <1>14, <1>15, SameProtocol DEF worker
<1>17. /\ \A k \in Nodes : Arrived(k) \subseteq Arrived(k)'
       /\ MainsInv' /\ \A k : NextNode(k)' = NextNode(k)
  <2>1. \A e \in Links : link[e] = "closed" => link'[e] = "closed"
    BY <1>1, <1>2
  <2>. QED BY <1>1, <1>9, <2>1, CarryFrame DEF RefineInv
<1>18. ArrivedInv'
  <2>1. h \in Arrived(i)'
    BY <1>4, <1>5 DEF Arrived
  <2>2. \A k \in Nodes : queue[k] \in Seq(Arrived(k)')
    BY <1>17, SeqMonotonic DEF RefineInv, CarryInv, ArrivedInv
  <2>3. queue'[i] \in Seq(Arrived(i)')
    BY <1>5, <2>1, <2>2, AppendProperties
  <2>4. \A k \in Nodes : queue'[k] \in Seq(Arrived(k)')
    BY <1>5, <2>2, <2>3
  <2>. QED BY <2>4 DEF ArrivedInv
<1>19. WrittenInv'
  <2>1. \A k, l \in Nodes : stream'[<<k, l>>] \in Seq(Written(k))
    BY <1>3, <1>5 DEF RefineInv, CarryInv, WrittenInv
  <2>. QED BY <2>1 DEF WrittenInv, Written
<1>20. ConnectInv'
  BY <1>1, <1>6, <1>17 DEF RefineInv, CarryInv, ConnectInv, worker
<1>21. ASSUME h.type = "finished"
       PROVE  From(j, InHand(i)) \in Seq({m \in Message : m.type = "finished"})
  <2>. DEFINE F == From(j, InHand(i))
  <2>1. Underway(j, i) \in Seq(Message) /\ chan[<<j, i>>] = SaidOf(F \o t)
    BY UnderwayFacts DEF RefineInv, Underway, t
  <2>2. /\ F \in Seq(Message) /\ t \in Seq(Message)
        /\ t[1] = h /\ Len(t) >= 1
    BY <1>1, <1>3, <1>12 DEF h
  <2>. HIDE DEF F
  <2>. DEFINE n == Len(F) + 1
  <2>3. /\ n \in DOMAIN (F \o t) /\ (F \o t)[n] = h
        /\ \A k \in 1 .. Len(F) : k \in DOMAIN (F \o t) /\ (F \o t)[k] = F[k]
        /\ Len(F) \in Nat
    BY <2>2
  <2>. HIDE DEF n
  <2>4. /\ DOMAIN chan[<<j, i>>] = DOMAIN (F \o t)
        /\ \A k \in DOMAIN (F \o t) : chan[<<j, i>>][k] = Said((F \o t)[k])
    BY <2>1 DEF SaidOf
  <2>5. n \in DOMAIN chan[<<j, i>>] /\ chan[<<j, i>>][n] = TA!Finished
    BY <1>21, <2>3, <2>4 DEF Said, TA!Finished
  <2>6. \A k \in DOMAIN chan[<<j, i>>] : chan[<<j, i>>][k] = TA!Finished
    <3>1. TA!TypeOK /\ TA!PhaseInv /\ <<j, i>> \in TA!Links
      BY DEF RefineInv, ProtocolInv, TA!Links
    <3>. QED BY <2>5, <3>1, TA!FinishedOnly, ProtocolAssumptions
  <2>7. \A k \in 1 .. Len(F) : Said(F[k]) = TA!Finished
    BY <2>3, <2>4, <2>6
  <2>8. \A k \in 1 .. Len(F) : F[k] \in Message /\ F[k].type = "finished"
    <3>1. \A k \in 1 .. Len(F) : F[k] \in Message
      BY <2>2
    <3>2. \A m \in Message : Said(m) = TA!Finished => m.type = "finished"
      BY DEF Said, TA!Finished
    <3>. QED BY <2>7, <3>1, <3>2
  <2>. QED BY <2>2, <2>8 DEF F
<1>22. ClosedInv'
  <2>. DEFINE T == {m \in Message : m.type = "finished"}
  <2>1. ASSUME link'[<<j, i>>] = "closed" PROVE From(j, InHand(i)') \in Seq(T)
    <3>1. h.type = "finished"
      BY <1>1, <1>2, <2>1
    <3>2. h \in T /\ From(j, InHand(i)) \in Seq(T)
      BY <1>4, <1>21, <3>1
    <3>3. From(j, InHand(i)') = Append(From(j, InHand(i)), h)
      BY <1>7
    <3>. QED BY <3>2, <3>3, AppendProperties
  <2>2. \A k, l \in Nodes : link'[<<k, l>>] = "closed" => From(k, InHand(l)') \in Seq(T)
    BY <1>5, <1>11, <2>1 DEF RefineInv, CarryInv, ClosedInv
  <2>. QED BY <2>2 DEF ClosedInv
<1>. QED BY <1>16, <1>17, <1>18, <1>19, <1>20, <1>22 DEF CarryInv

----------------------------------------------------------------------------
(* The first message in the hands of a node, of a neighbour: the head of    *)
(* its connection.                                                          *)
LEMMA FirstInHand ==
  ASSUME RefineInv, NEW i \in Nodes, node[i] \in {"loop", "connecting"},
         NEW m \in Message, NEW r \in Seq(Message), InHand(i) = <<m>> \o r,
         NEW j \in Nodes, m.sender = j
  PROVE  /\ TA!Receives(i, j, m.type)
         /\ Head(chan[<<j, i>>]) = Said(m)
         /\ Tail(chan[<<j, i>>]) = SaidOf(From(j, r) \o stream[<<j, i>>])
<1>1. /\ <<m>> \in Seq(Message) /\ InHand(i) # <<>>
      /\ Head(InHand(i)) = m /\ Tail(InHand(i)) = r
      /\ InHand(i) \in Seq(Message)
  OBVIOUS
<1>2. From(j, InHand(i)) = <<m>> \o From(j, r)
  BY <1>1, FromHead
<1>3. From(j, r) \in Seq(Message)
  <2>1. From(j, r) \in Seq({n \in Message : n.sender = j})
    BY FromType
  <2>2. {n \in Message : n.sender = j} \subseteq Message
    OBVIOUS
  <2>. QED BY <2>1, <2>2, SeqMonotonic
<1>4. /\ stream[<<j, i>>] \in Seq(Message)
      /\ <<j, i>> \in Links
      /\ chan[<<j, i>>] = SaidOf(Underway(j, i))
      /\ Underway(j, i) \in Seq(Message)
  BY UnderwayFacts DEF RefineInv
<1>. DEFINE rest == From(j, r) \o stream[<<j, i>>]
<1>5. rest \in Seq(Message)
  BY <1>3, <1>4, ConcatProperties
<1>6. Underway(j, i) = <<m>> \o rest
  <2>1. (<<m>> \o From(j, r)) \o stream[<<j, i>>] = <<m>> \o rest
    <3>1. stream[<<j, i>>] \in Seq(Message) /\ <<m>> \in Seq(Message)
      BY <1>1, <1>4
    <3>. QED BY <1>3, <3>1, MessagesRegroup, ZenonT(60) DEF rest
  <2>. QED BY <1>2, <2>1 DEF Underway
<1>. HIDE DEF rest
<1>7. Underway(j, i) # <<>> /\ Head(Underway(j, i)) = m /\ Tail(Underway(j, i)) = rest
  BY <1>5, <1>6
<1>8. /\ chan[<<j, i>>] # <<>> /\ Head(chan[<<j, i>>]) = Said(m)
      /\ Tail(chan[<<j, i>>]) = SaidOf(rest)
  BY <1>4, <1>7, SaidFacts
<1>9. From(j, InHand(i)) # <<>>
  BY <1>2, <1>3
<1>10. <<j, i>> \in TA!Links \ closed
  BY <1>4, <1>9 DEF closed, TA!Links, Links
<1>11. i \in spawned /\ ~ interrupt[i]
  <2>1. i \in spawned
    BY OnPath DEF RefineInv
  <2>. QED BY <2>1 DEF interrupt, Interrupted
<1>12. Said(m).type = m.type
  BY DEF Said, Message
<1>. QED BY <1>8, <1>10, <1>11, <1>12 DEF TA!Receives, rest

(* The first message is main's. *)
LEMMA MainsInHand ==
  ASSUME RefineInv, NEW i \in Nodes, NEW m \in Message, NEW r \in Seq(Message),
         InHand(i) = <<m>> \o r, m.sender = NoNode
  PROVE  From(NoNode, InHand(i)) = <<m>> \o From(NoNode, r) /\ posted
<1>1. /\ <<m>> \in Seq(Message) /\ InHand(i) # <<>>
      /\ Head(InHand(i)) = m /\ Tail(InHand(i)) = r
      /\ InHand(i) \in Seq(Message)
  OBVIOUS
<1>2. From(NoNode, InHand(i)) = <<m>> \o From(NoNode, r)
  BY <1>1, FromHead
<1>3. From(NoNode, r) \in Seq({n \in Message : n.sender = NoNode})
  BY FromType
<1>4. From(NoNode, InHand(i)) # <<>>
  BY <1>2, <1>3
<1>. QED BY <1>2, <1>4 DEF posted

(* A node that is paid to has opened nothing yet. *)
LEMMA FreshReceiver ==
  ASSUME RefineInv, NEW i \in Nodes, node[i] = "loop",
         queue[i] # <<>>, Head(queue[i]).type = "transfer_amount"
  PROVE  writers[i] = {} /\ transfering_account[i] = FALSE
<1>. DEFINE m == Head(queue[i])
            r == Tail(queue[i])
<1>1. queue[i] \in Seq(Message)
  BY DEF RefineInv, IInv, TypeOK
<1>2. m \in Message /\ r \in Seq(Message) /\ queue[i] = <<m>> \o r
  BY <1>1
<1>3. ~ Connecting(i) /\ InHand(i) = queue[i]
  BY <1>1 DEF Connecting, InHand
<1>4. m.sender \in Nodes \cup {NoNode}
  BY <1>2, MessageFacts
<1>5. opened[i] = writers[i] /\ paying[i] = transfering_account[i]
      /\ transfering_account[i] \in BOOLEAN
  <2>1. transfering_account[i] \in BOOLEAN
    BY DEF RefineInv, IInv, TypeOK
  <2>. QED BY <1>3, <2>1 DEF opened, paying
<1>6. CASE m.sender = NoNode
  <2>1. posted
    BY <1>2, <1>3, <1>6, MainsInHand
  <2>2. TA!Untouched
    BY <2>1 DEF RefineInv, ProtocolInv, TA!PhaseInv, TA!Started
  <2>3. opened[i] = {} /\ paying[i] = FALSE
    BY <2>2 DEF TA!Untouched, TA!Nobody, TA!Never
  <2>. QED BY <1>5, <2>3
<1>7. CASE m.sender \in Nodes
  <2>. DEFINE j == m.sender
  <2>0. m.type = "transfer_amount" /\ node[i] \in {"loop", "connecting"}
    OBVIOUS
  <2>. HIDE DEF m, r
  <2>1. TA!Receives(i, j, "transfer_amount")
    <3>1. InHand(i) = <<m>> \o r
      BY <1>2, <1>3
    <3>. QED BY <1>2, <1>7, <2>0, <3>1, FirstInHand, ZenonT(60)
  <2>2. TA!TypeOK /\ TA!PhaseInv /\ TA!PathInv /\ TA!WayInv
    BY DEF RefineInv, ProtocolInv
  <2>. HIDE DEF m
  <2>3. opened[i] = {} /\ ~ paying[i]
    BY <1>7, <2>1, <2>2, TA!NewReceiver, ProtocolAssumptions
  <2>. QED BY <1>5, <2>3
<1>. QED BY <1>4, <1>6, <1>7

(* Taking a payment from the queue, before the connections are up. *)
LEMMA GetTransferMaps ==
  ASSUME RefineInv, NEW i \in Nodes, GetTransfer(i)
  PROVE  UNCHANGED TA!vars /\ CarryInv'
<1>. DEFINE m == Head(queue[i])
            r == Tail(queue[i])
<1>1. /\ node[i] = "loop" /\ queue[i] # <<>> /\ m.type = "transfer_amount"
      /\ queue' = [queue EXCEPT ![i] = r]
      /\ answering' = [answering EXCEPT ![i] = m]
      /\ writers' = [writers EXCEPT
            ![i] = @ \cup ({m.sender, NextNode(i)} \ {NoNode})]
      /\ transfering_account' = [transfering_account EXCEPT ![i] = @ \/ m.sender = NoNode]
      /\ node' = [node EXCEPT ![i] = "connecting"]
      /\ UNCHANGED <<main, credit, finished, counter_finished, server, wire>>
  BY DEF GetTransfer, Gets, Popped
<1>2. /\ DOMAIN node = Nodes /\ DOMAIN queue = Nodes /\ DOMAIN answering = Nodes
      /\ DOMAIN writers = Nodes /\ DOMAIN transfering_account = Nodes
      /\ queue[i] \in Seq(Message)
  BY DEF RefineInv, IInv, TypeOK, MessageInv
<1>3. writers[i] = {} /\ transfering_account[i] = FALSE
  BY <1>1, FreshReceiver
<1>4. /\ node'[i] = "connecting" /\ queue'[i] = r /\ answering'[i] = m
      /\ writers'[i] = {m.sender, NextNode(i)} \ {NoNode}
      /\ transfering_account'[i] = (m.sender = NoNode)
      /\ \A k \in Nodes \ {i} :
            /\ node'[k] = node[k] /\ queue'[k] = queue[k] /\ answering'[k] = answering[k]
            /\ writers'[k] = writers[k]
            /\ transfering_account'[k] = transfering_account[k]
  <2>1. /\ node'[i] = "connecting" /\ queue'[i] = r /\ answering'[i] = m
        /\ writers'[i] = {m.sender, NextNode(i)} \ {NoNode}
    BY <1>1, <1>2, <1>3
  <2>2. transfering_account'[i] = (m.sender = NoNode)
    BY <1>1, <1>2, <1>3
  <2>. QED BY <1>1, <1>2, <2>1, <2>2
<1>5. m \in Message /\ r \in Seq(Message) /\ queue[i] = <<m>> \o r
  BY <1>1, <1>2
<1>. HIDE DEF m, r
<1>6. \A k \in Nodes : InHand(k)' = InHand(k)
  <2>1. InHand(i)' = <<m>> \o r
    BY <1>4 DEF InHand, Connecting
  <2>2. InHand(i) = <<>> \o queue[i] /\ <<>> \o queue[i] = queue[i]
    BY <1>1, <1>2 DEF InHand, Connecting
  <2>3. \A k \in Nodes \ {i} : InHand(k)' = InHand(k)
    BY <1>4 DEF InHand, Connecting
  <2>. QED BY <1>5, <2>1, <2>2, <2>3
<1>7. posted' = posted /\ chan' = chan /\ closed' = closed
  <2>1. \A e \in Links : Underway(e[1], e[2])' = Underway(e[1], e[2])
    BY <1>1, <1>6 DEF Underway, Links, wire
  <2>2. posted' = posted
    BY <1>6 DEF posted
  <2>3. chan' = chan
    BY <2>1 DEF chan
  <2>4. closed' = closed
    BY <1>1, <1>6 DEF closed, Links, wire
  <2>. QED BY <2>2, <2>3, <2>4
<1>8. UNCHANGED <<opened, paying, interrupt, joined>>
  <2>1. \A k \in Nodes : /\ Interrupted(k)' = Interrupted(k)
                         /\ (node'[k] = "ended") = (node[k] = "ended")
    BY <1>1, <1>4 DEF Interrupted
  <2>2. \A k \in Nodes : (IF Connecting(k) THEN {} ELSE writers[k])' =
                         IF Connecting(k) THEN {} ELSE writers[k]
    <3>1. \A k \in Nodes \ {i} : /\ Connecting(k)' = Connecting(k)
                                 /\ writers'[k] = writers[k]
      BY <1>4 DEF Connecting
    <3>2. ~ Connecting(i) /\ Connecting(i)'
      BY <1>1, <1>4 DEF Connecting
    <3>3. \A k \in Nodes : k = i \/ k \in Nodes \ {i}
      OBVIOUS
    <3>. QED BY <1>3, <3>1, <3>2, <3>3, Zenon
  <2>3. \A k \in Nodes : (transfering_account[k] /\ ~ Connecting(k))' =
                         (transfering_account[k] /\ ~ Connecting(k))
    BY <1>1, <1>3, <1>4 DEF Connecting
  <2>. QED BY <2>1, <2>2, <2>3, Zenon DEF opened, paying, interrupt, joined
<1>9. UNCHANGED TA!vars
  BY <1>1, <1>7, <1>8, SameProtocol
<1>10. /\ \A k \in Nodes : Arrived(k) \subseteq Arrived(k)'
       /\ MainsInv' /\ WrittenInv' /\ ClosedInv' /\ \A k : NextNode(k)' = NextNode(k)
  BY <1>1, <1>6, CarryFrame DEF RefineInv, wire
<1>11. ArrivedInv'
  <2>1. \A k \in Nodes : queue[k] \in Seq(Arrived(k)')
    BY <1>10, SeqMonotonic DEF RefineInv, CarryInv, ArrivedInv
  <2>2. r \in Seq(Arrived(i)')
    BY <1>1, <2>1, SeqFacts DEF r
  <2>3. \A k \in Nodes : queue'[k] \in Seq(Arrived(k)')
    BY <1>4, <2>1, <2>2
  <2>. QED BY <2>3 DEF ArrivedInv
<1>12. ConnectInv'
  <2>1. ASSUME NEW k \in Nodes, Connecting(k)'
        PROVE  /\ writers'[k] = {answering'[k].sender, NextNode(k)} \ {NoNode}
               /\ transfering_account'[k] = (answering'[k].sender = NoNode)
    <3>1. CASE k = i
      BY <1>4, <3>1
    <3>2. CASE k # i
      BY <1>4, <2>1, <3>2 DEF RefineInv, CarryInv, ConnectInv, Connecting
    <3>. QED BY <3>1, <3>2
  <2>. QED BY <1>10, <2>1 DEF ConnectInv
<1>. QED BY <1>9, <1>10, <1>11, <1>12 DEF CarryInv

----------------------------------------------------------------------------
(* No node is its own neighbour. *)
LEMMA NoLoops ==
  ASSUME RefineInv, NEW i \in Nodes
  PROVE  i \notin adj_edges[i] /\ i \notin writers[i] /\ (Running => NextNode(i) # i)
<1>1. Running => NextNode(i) # i
  <2>1. SUFFICES ASSUME Running PROVE NextNode(i) # i
    OBVIOUS
  <2>2. call.to \in Nodes
    BY <2>1 DEF RefineInv, IInv, WalkInv
  <2>. QED BY <2>2, PathFacts DEF NextNode
<1>2. i \notin adj_edges[i]
  <2>1. CASE i \in spawned
    <3>1. adj_edges[i] = {k \in Nodes : k = NextNode(i)
                                        \/ (k \in spawned /\ NextNode(k) = i)}
      BY <2>1 DEF RefineInv, ProtocolInv, TA!PathInv, TA!OnPath, TA!NextNode, NextNode
    <3>2. Running
      BY <2>1 DEF RefineInv, IInv, WalkInv, Running
    <3>. QED BY <1>1, <3>1, <3>2
  <2>2. CASE i \notin spawned
    BY <2>2 DEF RefineInv, IInv, PathInv
  <2>. QED BY <2>1, <2>2
<1>. QED BY <1>1, <1>2 DEF RefineInv, IInv, LinkInv

(* i says m on its connections to S. *)
Says(i, S, m) == chan' = [e \in Links |-> IF e[1] = i /\ e[2] \in S
                                          THEN Append(chan[e], m) ELSE chan[e]]

(* A node answers the message it holds, and writes n to the nodes S. *)
LEMMA AnswerMaps ==
  ASSUME RefineInv, NEW i \in Nodes, node[i] \in {"loop", "connecting"},
         NEW m \in Message, NEW r \in Seq(Message),
         InHand(i) = <<m>> \o r, InHand(i)' = r,
         \A k \in Nodes \ {i} : InHand(k)' = InHand(k),
         NEW S, i \notin S, NEW n \in Message, Write(i, S, n)
  PROVE  /\ \A j \in Nodes : m.sender = j => TA!Answer(i, j, S, Said(n))
         /\ m.sender = NoNode =>
               Says(i, S, Said(n))
         /\ \A j : \A k \in Nodes : <<j, k>> # <<m.sender, i>> =>
               From(j, InHand(k)') = From(j, InHand(k))
<1>1. stream' = [e \in Links |-> IF e[1] = i /\ e[2] \in S
                                 THEN Append(stream[e], n) ELSE stream[e]]
  BY DEF Write
<1>2. /\ InHand(i) \in Seq(Message) /\ InHand(i) # <<>>
      /\ Head(InHand(i)) = m /\ Tail(InHand(i)) = r
  OBVIOUS
<1>3. \A j : From(j, InHand(i)) = IF m.sender = j THEN <<m>> \o From(j, r)
                                  ELSE From(j, r)
  <2>1. SUFFICES ASSUME NEW j
                 PROVE  From(j, InHand(i)) = IF m.sender = j THEN <<m>> \o From(j, r)
                                             ELSE From(j, r)
    OBVIOUS
  <2>2. From(j, InHand(i)) = IF Head(InHand(i)).sender = j
                             THEN <<Head(InHand(i))>> \o From(j, Tail(InHand(i)))
                             ELSE From(j, Tail(InHand(i)))
    BY <1>2, FromHead
  <2>. QED BY <1>2, <2>2, Zenon
<1>4. \A j : \A k \in Nodes : <<j, k>> # <<m.sender, i>> =>
         From(j, InHand(k)') = From(j, InHand(k))
  <2>1. SUFFICES ASSUME NEW j, NEW k \in Nodes, <<j, k>> # <<m.sender, i>>
                 PROVE  From(j, InHand(k)') = From(j, InHand(k))
    OBVIOUS
  <2>2. CASE k = i
    <3>1. InHand(k)' = r /\ m.sender # j
      BY <2>1, <2>2
    <3>. QED BY <1>3, <2>2, <3>1
  <2>3. CASE k # i
    BY <2>3
  <2>. QED BY <2>2, <2>3
<1>5. ASSUME NEW k \in Nodes, k \in S
      PROVE  chan'[<<i, k>>] = Append(chan[<<i, k>>], Said(n))
  <2>1. k # i /\ From(i, InHand(k)') = From(i, InHand(k))
    BY <1>4, <1>5
  <2>2. stream'[<<i, k>>] = Append(stream[<<i, k>>], n)
    BY <1>1, <1>5 DEF Links
  <2>3. /\ From(i, InHand(k)) \in Seq(Message) /\ stream[<<i, k>>] \in Seq(Message)
        /\ Underway(i, k) \in Seq(Message)
        /\ chan[<<i, k>>] = SaidOf(Underway(i, k))
    BY UnderwayFacts DEF RefineInv
  <2>4. Underway(i, k)' = Append(Underway(i, k), n)
    <3>1. ASSUME NEW a \in Seq(Message), NEW b \in Seq(Message)
          PROVE  a \o Append(b, n) = Append(a \o b, n)
      BY ConcatAppend
    <3>. QED BY <2>1, <2>2, <2>3, <3>1, Zenon DEF Underway
  <2>5. chan'[<<i, k>>] = SaidOf(Underway(i, k)')
    BY DEF chan, Links
  <2>. QED BY <2>3, <2>4, <2>5, SaidFacts
<1>6. ASSUME NEW j \in Nodes, NEW k \in Nodes, <<j, k>> # <<m.sender, i>>,
             ~ (j = i /\ k \in S)
      PROVE  chan'[<<j, k>>] = chan[<<j, k>>]
  <2>1. stream'[<<j, k>>] = stream[<<j, k>>]
    BY <1>1, <1>6 DEF Links
  <2>2. From(j, InHand(k)') = From(j, InHand(k))
    BY <1>4, <1>6
  <2>3. Underway(j, k)' = Underway(j, k)
    BY <2>1, <2>2 DEF Underway
  <2>. QED BY <2>3 DEF chan, Links
<1>7. ASSUME NEW j \in Nodes, m.sender = j
      PROVE  chan'[<<j, i>>] = Tail(chan[<<j, i>>])
  <2>1. stream'[<<j, i>>] = stream[<<j, i>>]
    BY <1>1 DEF Links
  <2>2. Underway(j, i)' = From(j, r) \o stream[<<j, i>>]
    BY <2>1 DEF Underway
  <2>3. Tail(chan[<<j, i>>]) = SaidOf(From(j, r) \o stream[<<j, i>>])
    BY <1>7, FirstInHand
  <2>4. chan'[<<j, i>>] = SaidOf(Underway(j, i)')
    BY DEF chan, Links
  <2>. QED BY <2>2, <2>3, <2>4
<1>8. chan' = [e \in Links |-> chan'[e]] /\ DOMAIN chan = Links
  BY DEF chan
<1>9. ASSUME NEW j \in Nodes, m.sender = j PROVE TA!Answer(i, j, S, Said(n))
  <2>1. ASSUME NEW e \in Links
        PROVE  chan'[e] = IF e = <<j, i>> THEN Tail(chan[e])
                          ELSE IF e[1] = i /\ e[2] \in S THEN Append(chan[e], Said(n))
                          ELSE chan[e]
    <3>1. PICK k \in Nodes, l \in Nodes : e = <<k, l>>
      BY DEF Links
    <3>2. CASE e = <<j, i>>
      BY <1>7, <1>9, <3>2
    <3>3. CASE e # <<j, i>> /\ k = i /\ l \in S
      <4>1. chan'[<<i, l>>] = Append(chan[<<i, l>>], Said(n))
        BY <1>5, <3>3
      <4>2. e = <<i, l>> /\ e[1] = i /\ e[2] = l
        BY <3>1, <3>3
      <4>. QED BY <3>3, <4>1, <4>2
    <3>4. CASE e # <<j, i>> /\ ~ (k = i /\ l \in S)
      <4>1. chan'[<<k, l>>] = chan[<<k, l>>]
        BY <1>6, <1>9, <3>1, <3>4
      <4>2. e = <<k, l>> /\ e[1] = k /\ e[2] = l
        BY <3>1
      <4>. QED BY <3>4, <4>1, <4>2
    <3>. QED BY <3>2, <3>3, <3>4
  <2>2. chan' = [e \in Links |->
                    IF e = <<j, i>> THEN Tail(chan[e])
                    ELSE IF e[1] = i /\ e[2] \in S THEN Append(chan[e], Said(n))
                    ELSE chan[e]]
    BY <1>8, <2>1, Zenon
  <2>. QED BY <2>2 DEF TA!Answer, TA!Links, Links
<1>10. ASSUME m.sender = NoNode
       PROVE  Says(i, S, Said(n))
  <2>1. ASSUME NEW e \in Links
        PROVE  chan'[e] = IF e[1] = i /\ e[2] \in S THEN Append(chan[e], Said(n))
                          ELSE chan[e]
    <3>1. PICK k \in Nodes, l \in Nodes : e = <<k, l>>
      BY DEF Links
    <3>2. e[1] = k /\ e[2] = l
      BY <3>1
    <3>3. <<k, l>> # <<m.sender, i>>
      BY <1>10, PathFacts
    <3>4. CASE k = i /\ l \in S
      <4>1. chan'[<<i, l>>] = Append(chan[<<i, l>>], Said(n))
        BY <1>5, <3>4
      <4>. QED BY <3>1, <3>2, <3>4, <4>1
    <3>5. CASE ~ (k = i /\ l \in S)
      <4>1. chan'[<<k, l>>] = chan[<<k, l>>]
        BY <1>6, <3>3, <3>5
      <4>. QED BY <3>1, <3>2, <3>5, <4>1
    <3>. QED BY <3>4, <3>5
  <2>. QED BY <1>8, <2>1, Zenon DEF Says
<1>. QED BY <1>4, <1>9, <1>10

----------------------------------------------------------------------------
(* Of a message written by i.  *)
LEMMA WrittenOn ==
  ASSUME RefineInv, NEW i \in Nodes, NEW S, NEW n \in Message, n.sender = i, Write(i, S, n)
  PROVE  WrittenInv'
<1>1. stream' = [e \in Links |-> IF e[1] = i /\ e[2] \in S
                                 THEN Append(stream[e], n) ELSE stream[e]]
  BY DEF Write
<1>2. ASSUME NEW j \in Nodes, NEW k \in Nodes PROVE stream'[<<j, k>>] \in Seq(Written(j))
  <2>1. stream[<<j, k>>] \in Seq(Written(j))
    BY DEF RefineInv, CarryInv, WrittenInv
  <2>2. stream'[<<j, k>>] = IF j = i /\ k \in S THEN Append(stream[<<j, k>>], n)
                            ELSE stream[<<j, k>>]
    BY <1>1 DEF Links
  <2>3. j = i => n \in Written(j)
    BY DEF Written
  <2>. QED BY <2>1, <2>2, <2>3, AppendProperties
<1>. QED BY <1>2 DEF WrittenInv, Written

(* The connections are up: i answers the payment it has taken, and writes n *)
(* to the nodes S.                                                          *)
LEMMA PaymentAnswered ==
  ASSUME RefineInv, NEW i \in Nodes, Connecting(i), NEW S, i \notin S,
         NEW n \in Message, n.sender = i, Write(i, S, n),
         node' = [node EXCEPT ![i] = "loop"],
         UNCHANGED <<main, answering, writers, transfering_account,
                     counter_finished, server, link, queue>>
  PROVE  /\ CarryInv'
         /\ opened' = [opened EXCEPT ![i] =
                          @ \cup ({answering[i].sender, NextNode(i)} \ {NoNode})]
         /\ UNCHANGED <<closed, interrupt, joined>>
         /\ answering[i] \in Message /\ answering[i].type = "transfer_amount"
         /\ i \in spawned /\ ~ interrupt[i]
         /\ \A j \in Nodes : answering[i].sender = j =>
               /\ posted' = posted /\ paying' = paying
               /\ TA!Receives(i, j, "transfer_amount")
               /\ Head(chan[<<j, i>>]) = Said(answering[i])
               /\ TA!Answer(i, j, S, Said(n))
         /\ answering[i].sender = NoNode =>
               /\ posted /\ posted' = FALSE /\ i = call.from
               /\ answering[i].amount = call.amount
               /\ paying' = [paying EXCEPT ![i] = TRUE]
               /\ Says(i, S, Said(n))
<1>. DEFINE r == queue[i]
<1>0. PICK m : m = answering[i]
  OBVIOUS
<1>1. /\ m \in Message /\ m.type = "transfer_amount" /\ r \in Seq(Message)
      /\ DOMAIN node = Nodes /\ node[i] = "connecting"
      /\ transfering_account \in [Nodes -> BOOLEAN]
      /\ NoNode \notin Nodes
  BY <1>0, PathFacts DEF RefineInv, IInv, TypeOK, MessageInv, Connecting
<1>2. m.sender \in Nodes \cup {NoNode}
  BY <1>1, MessageFacts
<1>3. /\ node'[i] = "loop" /\ \A k \in Nodes \ {i} : node'[k] = node[k]
      /\ ~ Connecting(i)' /\ \A k \in Nodes \ {i} : Connecting(k)' = Connecting(k)
  BY <1>1 DEF Connecting
<1>4. /\ InHand(i) = <<m>> \o r /\ InHand(i)' = r
      /\ \A k \in Nodes \ {i} : InHand(k)' = InHand(k)
  <2>1. InHand(i)' = <<>> \o r /\ <<>> \o r = r
    BY <1>1, <1>3 DEF InHand
  <2>2. InHand(i) = <<m>> \o r
    BY <1>0 DEF InHand
  <2>3. \A k \in Nodes \ {i} : InHand(k)' = InHand(k)
    BY <1>3 DEF InHand
  <2>. QED BY <2>1, <2>2, <2>3
<1>5. i \in spawned /\ Running /\ ~ interrupt[i]
  BY <1>1, OnPath DEF RefineInv, interrupt, Interrupted
<1>6. writers[i] = {m.sender, NextNode(i)} \ {NoNode}
      /\ transfering_account[i] = (m.sender = NoNode)
  BY <1>0 DEF RefineInv, CarryInv, ConnectInv
<1>. HIDE DEF r
<1>7. /\ \A j \in Nodes : m.sender = j => TA!Answer(i, j, S, Said(n))
      /\ m.sender = NoNode =>
            Says(i, S, Said(n))
      /\ \A j : \A k \in Nodes : <<j, k>> # <<m.sender, i>> =>
            From(j, InHand(k)') = From(j, InHand(k))
  BY <1>1, <1>4, AnswerMaps
<1>8. m.sender \in Nodes => link[<<m.sender, i>>] # "closed"
  <2>1. SUFFICES ASSUME m.sender \in Nodes, link[<<m.sender, i>>] = "closed" PROVE FALSE
    OBVIOUS
  <2>2. From(m.sender, InHand(i)) \in Seq({k \in Message : k.type = "finished"})
    BY <2>1 DEF RefineInv, CarryInv, ClosedInv
  <2>3. <<m>> \o r \in Seq(Message) /\ <<m>> \o r # <<>>
        /\ Head(<<m>> \o r) = m /\ Tail(<<m>> \o r) = r
    BY <1>1
  <2>4. From(m.sender, InHand(i)) = <<m>> \o From(m.sender, r)
    BY <1>4, <2>3, FromHead
  <2>5. From(m.sender, r) \in Seq({k \in Message : k.sender = m.sender})
    BY <1>1, FromType
  <2>6. From(m.sender, InHand(i)) # <<>> /\ Head(From(m.sender, InHand(i))) = m
    BY <2>4, <2>5
  <2>7. m \in {k \in Message : k.type = "finished"}
    BY <2>2, <2>6, HeadTailProperties
  <2>. QED BY <1>1, <2>7
<1>9. closed' = closed /\ ClosedInv'
  <2>1. ASSUME NEW j \in Nodes, NEW k \in Nodes, link[<<j, k>>] = "closed"
        PROVE  From(j, InHand(k)') = From(j, InHand(k))
    BY <1>7, <1>8, <2>1
  <2>2. closed' = closed
    BY <2>1 DEF closed, Links
  <2>3. ClosedInv'
    BY <2>1 DEF RefineInv, CarryInv, ClosedInv
  <2>. QED BY <2>2, <2>3
<1>10. /\ interrupt' = interrupt /\ joined' = joined
       /\ opened' = [opened EXCEPT ![i] = @ \cup ({m.sender, NextNode(i)} \ {NoNode})]
  <2>1. \A k \in Nodes : /\ Interrupted(k)' = Interrupted(k)
                         /\ (node'[k] = "ended") = (node[k] = "ended")
    BY <1>1, <1>3 DEF Interrupted
  <2>2. interrupt' = interrupt /\ joined' = joined
    BY <2>1, Zenon DEF interrupt, joined
  <2>3. opened[i] = {} /\ opened'[i] = {m.sender, NextNode(i)} \ {NoNode}
    BY <1>3, <1>6 DEF opened
  <2>4. \A k \in Nodes \ {i} : opened'[k] = opened[k]
    BY <1>3 DEF opened
  <2>5. opened' = [k \in Nodes |-> opened'[k]] /\ opened = [k \in Nodes |-> opened[k]]
    BY DEF opened
  <2>. QED BY <2>2, <2>3, <2>4, <2>5
<1>11. paying[i] = FALSE /\ paying'[i] = (m.sender = NoNode)
  <2>1. paying[i] = FALSE
    BY DEF paying
  <2>2. paying'[i] = (m.sender = NoNode)
    BY <1>3, <1>6 DEF paying
  <2>. QED BY <2>1, <2>2
<1>12. /\ \A k \in Nodes \ {i} : paying'[k] = paying[k]
       /\ paying' = [k \in Nodes |-> paying'[k]] /\ paying = [k \in Nodes |-> paying[k]]
  <2>1. ASSUME NEW k \in Nodes \ {i} PROVE paying'[k] = paying[k]
    BY <1>3, Zenon DEF paying
  <2>. QED BY <2>1 DEF paying
<1>13. /\ \A k \in Nodes : Arrived(k) \subseteq Arrived(k)'
       /\ ArrivedInv' /\ \A k : NextNode(k)' = NextNode(k)
       /\ (\A k \in Nodes : From(NoNode, InHand(k)') = From(NoNode, InHand(k))) => MainsInv'
  BY CarryFrame DEF RefineInv
<1>14. WrittenInv'
  BY WrittenOn
<1>15. ConnectInv'
  BY <1>3, <1>13 DEF RefineInv, CarryInv, ConnectInv
<1>16. ASSUME NEW j \in Nodes, m.sender = j
       PROVE  /\ posted' = posted /\ paying' = paying /\ MainsInv'
              /\ TA!Receives(i, j, "transfer_amount")
              /\ Head(chan[<<j, i>>]) = Said(m)
              /\ TA!Answer(i, j, S, Said(n))
  <2>1. \A k \in Nodes : From(NoNode, InHand(k)') = From(NoNode, InHand(k))
    BY <1>1, <1>7, <1>16
  <2>2. posted' = posted
    BY <2>1 DEF posted
  <2>3. paying'[i] = paying[i]
    BY <1>1, <1>11, <1>16
  <2>4. paying' = paying
    BY <1>12, <2>3
  <2>5. TA!Receives(i, j, "transfer_amount") /\ Head(chan[<<j, i>>]) = Said(m)
    BY <1>1, <1>4, <1>16, FirstInHand
  <2>. QED BY <1>7, <1>13, <1>16, <2>1, <2>2, <2>4, <2>5
<1>17. ASSUME m.sender = NoNode
       PROVE  /\ posted /\ posted' = FALSE /\ i = call.from /\ MainsInv'
              /\ m.amount = call.amount
              /\ paying' = [paying EXCEPT ![i] = TRUE]
              /\ Says(i, S, Said(n))
  <2>1. posted /\ From(NoNode, InHand(i)) = <<m>> \o From(NoNode, r)
    BY <1>1, <1>4, <1>17, MainsInHand, ZenonT(60)
  <2>2. From(NoNode, r) \in Seq({k \in Message : k.sender = NoNode})
    BY <1>1, FromType
  <2>3. From(NoNode, InHand(i)) # <<>>
    BY <2>1, <2>2
  <2>4. i = call.from
    BY <2>3 DEF RefineInv, CarryInv, MainsInv
  <2>5. <<m>> \o From(NoNode, r) = <<Transfer(NoNode, call.amount)>>
    BY <1>5, <2>1, <2>3, <2>4 DEF RefineInv, CarryInv, MainsInv
  <2>6. From(NoNode, r) = <<>> /\ m = Transfer(NoNode, call.amount)
    <3>1. ASSUME NEW T, NEW F \in Seq(T), NEW b, <<m>> \o F = <<b>>
          PROVE  F = <<>> /\ m = b
      <4>1. Len(<<m>> \o F) = 1 + Len(F) /\ (<<m>> \o F)[1] = m
        BY <3>1
      <4>2. Len(<<b>>) = 1 /\ <<b>>[1] = b
        OBVIOUS
      <4>3. Len(F) \in Nat
        BY <3>1, LenProperties
      <4>4. m = b
        BY <3>1, <4>1, <4>2
      <4>5. Len(<<m>> \o F) = Len(<<b>>)
        BY <3>1
      <4>6. Len(F) = 0
        BY <4>1, <4>2, <4>3, <4>5
      <4>7. \A s \in Seq(T) : Len(s) = 0 => s = <<>>
        BY EmptySeq
      <4>. QED BY <4>4, <4>6, <4>7
    <3>. QED BY <2>2, <2>5, <3>1, Zenon
  <2>7. \A k \in Nodes : From(NoNode, InHand(k)') = <<>>
    <3>1. \A k \in Nodes \ {i} : From(NoNode, InHand(k)') = From(NoNode, InHand(k))
      BY <1>7
    <3>2. \A k \in Nodes \ {i} : From(NoNode, InHand(k)) = <<>>
      BY <2>4 DEF RefineInv, CarryInv, MainsInv
    <3>. QED BY <1>4, <2>6, <3>1, <3>2
  <2>8. posted' = FALSE
    BY <2>7 DEF posted
  <2>9. MainsInv'
    <3>1. call' = call
      BY DEF main
    <3>. QED BY <2>4, <2>7, <3>1 DEF MainsInv
  <2>10. paying' = [paying EXCEPT ![i] = TRUE]
    BY <1>11, <1>12, <1>17
  <2>11. m.amount = call.amount
    BY <2>6 DEF Transfer
  <2>. QED BY <1>7, <1>17, <2>1, <2>4, <2>8, <2>9, <2>10, <2>11
<1>18. CarryInv'
  BY <1>2, <1>9, <1>13, <1>14, <1>15, <1>16, <1>17 DEF CarryInv
<1>. QED BY <1>0, <1>1, <1>5, <1>9, <1>10, <1>16, <1>17, <1>18

----------------------------------------------------------------------------
LEMMA SendOnMaps ==
  ASSUME RefineInv, NEW i \in Nodes, SendOn(i)
  PROVE  TA!Next /\ CarryInv'
<1>. DEFINE a == answering[i].amount
<1>0. PICK n, S : n = Transfer(i, a) /\ S = {NextNode(i)}
  OBVIOUS
<1>1. /\ Connecting(i) /\ NextNode(i) # NoNode
      /\ Write(i, S, n)
      /\ node' = [node EXCEPT ![i] = "loop"]
      /\ UNCHANGED <<main, credit, answering, writers, transfering_account,
                     finished, counter_finished, server, link, queue>>
  BY <1>0 DEF SendOn, Resolved
<1>2. /\ answering[i] \in Message /\ answering[i].type = "transfer_amount"
      /\ answering[i].sender \in Nodes \cup {NoNode} /\ a \in Amounts
  <2>1. answering[i] \in Message /\ answering[i].type = "transfer_amount"
    BY <1>1 DEF RefineInv, IInv, TypeOK, MessageInv
  <2>. QED BY <2>1, MessageFacts
<1>3. /\ n \in Message /\ n.sender = i
      /\ Said(n) = TA!Transfer(a) /\ Said(answering[i]) = TA!Transfer(a)
  <2>1. n \in Message /\ n.sender = i
    BY <1>0, <1>2, MessageFacts
  <2>2. Said(n) = TA!Transfer(a)
    BY <1>0 DEF Said, Transfer, TA!Transfer
  <2>3. Said(answering[i]) = TA!Transfer(a)
    BY <1>2 DEF Said, TA!Transfer
  <2>. QED BY <2>1, <2>2, <2>3
<1>4. /\ Running /\ i \notin S /\ NextNode(i) \in Nodes
  BY <1>0, <1>1, OnPath, NoLoops DEF RefineInv, Connecting
<1>5. /\ CarryInv'
      /\ opened' = [opened EXCEPT ![i] =
                       @ \cup ({answering[i].sender, NextNode(i)} \ {NoNode})]
      /\ UNCHANGED <<closed, interrupt, joined>>
      /\ i \in spawned /\ ~ interrupt[i]
      /\ \A j \in Nodes : answering[i].sender = j =>
            /\ posted' = posted /\ paying' = paying
            /\ TA!Receives(i, j, "transfer_amount")
            /\ Head(chan[<<j, i>>]) = Said(answering[i])
            /\ TA!Answer(i, j, S, Said(n))
      /\ answering[i].sender = NoNode =>
            /\ posted /\ posted' = FALSE /\ i = call.from
            /\ a = call.amount
            /\ paying' = [paying EXCEPT ![i] = TRUE]
            /\ Says(i, S, Said(n))
  <2>1. UNCHANGED <<main, answering, writers, transfering_account,
                    counter_finished, server, link, queue>>
    BY <1>1
  <2>. QED BY <1>1, <1>3, <1>4, <2>1, PaymentAnswered
<1>6. TA!NextNode(i) = NextNode(i) /\ UNCHANGED TA!main /\ NoNode \notin Nodes
  BY <1>1, PathFacts DEF TA!NextNode, NextNode, TA!main, TA!walk, main, walk
<1>7. ASSUME NEW j \in Nodes, answering[i].sender = j
      PROVE  TA!RelayTransfer(i, j)
  <2>1. ({answering[i].sender, NextNode(i)} \ {NoNode}) = {j, NextNode(i)}
    BY <1>4, <1>6, <1>7
  <2>2. TA!Answer(i, j, {NextNode(i)}, Head(chan[<<j, i>>]))
    BY <1>0, <1>3, <1>5, <1>7
  <2>. QED BY <1>1, <1>5, <1>6, <1>7, <2>1, <2>2 DEF TA!RelayTransfer
<1>8. ASSUME answering[i].sender = NoNode PROVE TA!StartTransfer(i)
  <2>1. ({answering[i].sender, NextNode(i)} \ {NoNode}) = {NextNode(i)}
    BY <1>4, <1>6, <1>8
  <2>2. chan' = [chan EXCEPT ![<<i, NextNode(i)>>] = Append(@, TA!Transfer(call.amount))]
    <3>1. chan = [e \in Links |-> chan[e]]
      BY DEF chan
    <3>2. chan' = [e \in Links |-> IF e[1] = i /\ e[2] \in {NextNode(i)}
                                   THEN Append(chan[e], TA!Transfer(call.amount))
                                   ELSE chan[e]]
      BY <1>0, <1>3, <1>5, <1>8 DEF Says
    <3>3. \A e \in Links : e[1] = i /\ e[2] \in {NextNode(i)} <=> e = <<i, NextNode(i)>>
      BY DEF Links
    <3>. QED BY <3>1, <3>2, <3>3
  <2>. QED BY <1>1, <1>5, <1>6, <1>8, <2>1, <2>2 DEF TA!StartTransfer
<1>9. TA!Next
  BY <1>2, <1>7, <1>8 DEF TA!Next, TA!NodeStep
<1>. QED BY <1>5, <1>9

LEMMA ReceivePaymentMaps ==
  ASSUME RefineInv, NEW i \in Nodes, ReceivePayment(i)
  PROVE  TA!Next /\ CarryInv'
<1>. DEFINE a == answering[i].amount
<1>0. PICK n : n = Finished(i)
  OBVIOUS
<1>1. /\ Connecting(i) /\ NextNode(i) = NoNode
      /\ credit' = [credit EXCEPT ![i] = Plus(@, a)]
      /\ Write(i, writers[i], n)
      /\ finished' = [finished EXCEPT ![i] = TRUE]
      /\ node' = [node EXCEPT ![i] = "loop"]
      /\ UNCHANGED <<main, answering, writers, transfering_account,
                     counter_finished, server, link, queue>>
  BY <1>0 DEF ReceivePayment, Resolved
<1>2. /\ answering[i] \in Message /\ answering[i].type = "transfer_amount"
      /\ answering[i].sender \in Nodes \cup {NoNode}
  <2>1. answering[i] \in Message /\ answering[i].type = "transfer_amount"
    BY <1>1 DEF RefineInv, IInv, TypeOK, MessageInv
  <2>. QED BY <2>1, MessageFacts
<1>3. /\ n \in Message /\ n.sender = i
      /\ Said(n) = TA!Finished /\ Said(answering[i]).amount = a
  <2>1. n \in Message /\ n.sender = i
    BY <1>0, MessageFacts DEF Finished
  <2>2. Said(n) = TA!Finished
    BY <1>0 DEF Said, Finished, TA!Finished
  <2>3. Said(answering[i]).amount = a
    BY <1>2 DEF Said
  <2>. QED BY <2>1, <2>2, <2>3
<1>4. Running /\ i \notin writers[i]
  BY <1>1, OnPath, NoLoops DEF RefineInv, Connecting
<1>5. /\ CarryInv'
      /\ opened' = [opened EXCEPT ![i] =
                       @ \cup ({answering[i].sender, NextNode(i)} \ {NoNode})]
      /\ UNCHANGED <<closed, interrupt, joined>>
      /\ \A j \in Nodes : answering[i].sender = j =>
            /\ posted' = posted /\ paying' = paying
            /\ TA!Receives(i, j, "transfer_amount")
            /\ Head(chan[<<j, i>>]) = Said(answering[i])
            /\ TA!Answer(i, j, writers[i], Said(n))
      /\ answering[i].sender = NoNode => i = call.from
  BY <1>1, <1>3, <1>4, PaymentAnswered
<1>6. TA!NextNode(i) = NextNode(i) /\ UNCHANGED TA!main /\ NoNode \notin Nodes
  BY <1>1, PathFacts DEF TA!NextNode, NextNode, TA!main, TA!walk, main, walk
<1>7. answering[i].sender # NoNode
  <2>1. call.from # call.to /\ call.from \in Nodes /\ call.to \in Nodes
    BY <1>4 DEF RefineInv, ProtocolInv, TA!TypeOK, TA!Running, Running
  <2>2. NextNode(call.from) \in Nodes
    BY <2>1, PathFacts DEF NextNode
  <2>. QED BY <1>1, <1>5, <1>6, <2>2
<1>8. PICK j \in Nodes : answering[i].sender = j
  BY <1>2, <1>7
<1>9. writers[i] = {j} /\ opened[i] = {}
  BY <1>1, <1>6, <1>8 DEF RefineInv, CarryInv, ConnectInv, opened
<1>10. opened' = [opened EXCEPT ![i] = @ \cup {j}] /\ opened'[i] = writers[i]
  <2>1. opened' = [opened EXCEPT ![i] = @ \cup {j}]
    BY <1>1, <1>5, <1>6, <1>8
  <2>2. i \in DOMAIN opened
    BY DEF opened
  <2>. QED BY <1>9, <2>1, <2>2
<1>11. TA!Answer(i, j, opened'[i], TA!Finished)
  BY <1>3, <1>5, <1>8, <1>10
<1>12. credit' = [credit EXCEPT ![i] = TA!Plus(@, Head(chan[<<j, i>>]).amount)]
  <2>1. Head(chan[<<j, i>>]).amount = a
    BY <1>3, <1>5, <1>8
  <2>2. \A x, y : TA!Plus(x, y) = Plus(x, y)
    BY DEF TA!Plus, Plus
  <2>. QED BY <1>1, <2>1, <2>2
<1>13. TA!ReceivePayment(i, j)
  BY <1>1, <1>5, <1>6, <1>8, <1>10, <1>11, <1>12 DEF TA!ReceivePayment
<1>14. TA!Next
  BY <1>13 DEF TA!Next, TA!NodeStep
<1>. QED BY <1>5, <1>14

----------------------------------------------------------------------------
(* The last messages. *)
LEMMA EmptyConcat ==
  ASSUME NEW S, NEW s \in Seq(S), NEW t \in Seq(S), s \o t = <<>>
  PROVE  s = <<>> /\ t = <<>>
<1>1. Len(s \o t) = Len(s) + Len(t) /\ Len(s) \in Nat /\ Len(t) \in Nat
  BY ConcatProperties, LenProperties
<1>2. Len(s \o t) = 0
  OBVIOUS
<1>3. Len(s) = 0 /\ Len(t) = 0
  BY <1>1, <1>2
<1>. QED BY <1>3, EmptySeq

(* The answer to a finished: the handler had closed its connection. *)
LEMMA AnswerToFinishedMaps ==
  ASSUME RefineInv, NEW i \in Nodes, AnswerToFinished(i)
  PROVE  TA!Next /\ CarryInv'
<1>. DEFINE r == Tail(queue[i])
            all == counter_finished[i] + 1 = Cardinality(writers[i])
<1>0. PICK m, n, S : m = Head(queue[i]) /\ n = Finished(i) /\ S = RelayTo(i)
  OBVIOUS
<1>1. /\ node[i] = "loop" /\ queue[i] # <<>> /\ m.type = "finished"
      /\ queue' = [queue EXCEPT ![i] = r]
      /\ Write(i, S, n)
      /\ finished' = [finished EXCEPT ![i] = TRUE]
      /\ counter_finished' = [counter_finished EXCEPT ![i] = @ + 1]
      /\ credit' = IF all /\ transfering_account[i]
                   THEN [credit EXCEPT ![i] = Plus(@, Minus(call.amount))]
                   ELSE credit
      /\ node' = [node EXCEPT ![i] = IF all THEN "joining" ELSE @]
      /\ UNCHANGED <<main, answering, writers, transfering_account, server, link>>
  BY <1>0 DEF AnswerToFinished, Gets, Popped
<1>2. /\ queue[i] \in Seq(Message) /\ DOMAIN queue = Nodes /\ DOMAIN node = Nodes
      /\ credit \in [Nodes -> Amount] /\ transfering_account[i] \in BOOLEAN
      /\ finished[i] \in BOOLEAN /\ NoNode \notin Nodes
  BY PathFacts DEF RefineInv, IInv, TypeOK
<1>3. m \in Message /\ r \in Seq(Message) /\ queue[i] = <<m>> \o r
  BY <1>0, <1>1, <1>2
<1>4. PICK j \in Nodes : m.sender = j
  BY <1>1, <1>3 DEF Message
<1>5. /\ n \in Message /\ n.sender = i /\ Said(n) = TA!Finished
  <2>1. n \in Message /\ n.sender = i
    BY <1>0, MessageFacts DEF Finished
  <2>2. Said(n) = TA!Finished
    BY <1>0 DEF Said, Finished, TA!Finished
  <2>. QED BY <2>1, <2>2
<1>6. /\ ~ Connecting(i) /\ ~ Connecting(i)'
      /\ node'[i] = IF all THEN "joining" ELSE "loop"
      /\ \A k \in Nodes \ {i} : /\ node'[k] = node[k] /\ queue'[k] = queue[k]
                                /\ Connecting(k)' = Connecting(k)
      /\ queue'[i] = r
  <2>1. /\ node'[i] = IF all THEN "joining" ELSE "loop"
        /\ \A k \in Nodes \ {i} : node'[k] = node[k]
    BY <1>1, <1>2
  <2>2. queue'[i] = r /\ \A k \in Nodes \ {i} : queue'[k] = queue[k]
    BY <1>1, <1>2
  <2>. HIDE DEF all, r
  <2>. QED BY <1>1, <2>1, <2>2 DEF Connecting
<1>7. /\ InHand(i) = <<m>> \o r /\ InHand(i)' = r
      /\ \A k \in Nodes \ {i} : InHand(k)' = InHand(k)
  <2>1. InHand(i)' = <<>> \o r /\ <<>> \o r = r
    BY <1>3, <1>6 DEF InHand
  <2>2. InHand(i) = <<>> \o queue[i] /\ <<>> \o queue[i] = queue[i]
    BY <1>2, <1>6 DEF InHand
  <2>3. \A k \in Nodes \ {i} : InHand(k)' = InHand(k)
    BY <1>1, <1>6 DEF InHand
  <2>. QED BY <1>3, <2>1, <2>2, <2>3
<1>. HIDE DEF r
<1>8. i \notin S
  BY <1>0, NoLoops DEF RelayTo
<1>9. /\ TA!Answer(i, j, S, TA!Finished)
      /\ \A l : \A k \in Nodes : <<l, k>> # <<j, i>> =>
            From(l, InHand(k)') = From(l, InHand(k))
  <2>1. node[i] \in {"loop", "connecting"} /\ Write(i, S, n) /\ n \in Message
    BY <1>1, <1>5
  <2>2. /\ \A k \in Nodes : m.sender = k => TA!Answer(i, k, S, Said(n))
        /\ \A l : \A k \in Nodes : <<l, k>> # <<m.sender, i>> =>
              From(l, InHand(k)') = From(l, InHand(k))
    BY <1>3, <1>7, <1>8, <2>1, AnswerMaps
  <2>3. TA!Answer(i, j, S, Said(n))
    BY <1>4, <2>2
  <2>. QED BY <1>4, <1>5, <2>2, <2>3
<1>10. /\ TA!Receives(i, j, "finished")
       /\ Tail(chan[<<j, i>>]) = SaidOf(From(j, r) \o stream[<<j, i>>])
  BY <1>1, <1>3, <1>4, <1>7, FirstInHand
<1>11. From(j, r) = <<>>
  <2>1. chan[<<j, i>>] = <<TA!Finished>>
    <3>1. TA!TypeOK /\ TA!PhaseInv /\ TA!PathInv /\ TA!WayInv
      BY DEF RefineInv, ProtocolInv
    <3>. QED BY <1>10, <3>1, TA!LastMessage, ProtocolAssumptions
  <2>2. Tail(chan[<<j, i>>]) = <<>>
    BY <2>1
  <2>3. From(j, r) \in Seq(Message) /\ stream[<<j, i>>] \in Seq(Message)
    <3>1. From(j, r) \in Seq({k \in Message : k.sender = j})
      BY <1>3, FromType
    <3>2. {k \in Message : k.sender = j} \subseteq Message
      OBVIOUS
    <3>3. stream[<<j, i>>] \in Seq(Message)
      BY UnderwayFacts DEF RefineInv
    <3>. QED BY <3>1, <3>2, <3>3, SeqMonotonic
  <2>4. From(j, r) \o stream[<<j, i>>] \in Seq(Message)
    BY <2>3, ConcatProperties
  <2>5. From(j, r) \o stream[<<j, i>>] = <<>>
    BY <1>10, <2>2, <2>4, SaidFacts
  <2>. QED BY <2>3, <2>5, EmptyConcat
<1>12. link[<<j, i>>] = "closed"
  <2>1. queue[i] \in Seq(Arrived(i))
    BY DEF RefineInv, CarryInv, ArrivedInv
  <2>2. m \in Arrived(i)
    BY <1>0, <1>1, <2>1, HeadTailProperties
  <2>. QED BY <1>1, <1>4, <2>2 DEF Arrived
<1>13. closed' = closed \cup {<<j, i>>}
  <2>1. <<j, i>> \in closed' /\ <<j, i>> \in Links
    BY <1>1, <1>7, <1>11, <1>12 DEF closed, Links
  <2>2. ASSUME NEW k \in Nodes, NEW l \in Nodes, <<k, l>> # <<j, i>>
        PROVE  <<k, l>> \in closed' <=> <<k, l>> \in closed
    BY <1>1, <1>9, <2>2 DEF closed
  <2>3. closed \subseteq Links /\ closed' \subseteq Links
    BY DEF closed
  <2>. QED BY <2>1, <2>2, <2>3 DEF Links
<1>14. posted' = posted
  <2>1. \A k \in Nodes : From(NoNode, InHand(k)') = From(NoNode, InHand(k))
    BY <1>2, <1>9
  <2>. QED BY <2>1 DEF posted
<1>15. opened' = opened /\ paying' = paying
  <2>1. \A k \in Nodes : Connecting(k)' = Connecting(k)
    BY <1>1, <1>6 DEF Connecting
  <2>. QED BY <1>1, <2>1 DEF opened, paying
<1>16. interrupt' = [interrupt EXCEPT ![i] = all] /\ joined' = joined
  <2>1. Interrupted(i)' = all
    BY <1>6 DEF Interrupted
  <2>2. \A k \in Nodes \ {i} : Interrupted(k)' = Interrupted(k)
    BY <1>6 DEF Interrupted
  <2>3. \A k \in Nodes : (node'[k] = "ended") = (node[k] = "ended")
    BY <1>1, <1>6
  <2>4. joined' = joined
    BY <2>3, Zenon DEF joined
  <2>5. interrupt'[i] = all /\ \A k \in Nodes \ {i} : interrupt'[k] = interrupt[k]
    BY <2>1, <2>2, Zenon DEF interrupt
  <2>6. /\ interrupt' = [k \in Nodes |-> interrupt'[k]]
        /\ interrupt = [k \in Nodes |-> interrupt[k]]
    BY DEF interrupt
  <2>. HIDE DEF all
  <2>. QED BY <2>4, <2>5, <2>6
<1>17. opened[i] = writers[i] /\ paying[i] = transfering_account[i]
  BY <1>2, <1>6 DEF opened, paying
<1>18. credit' = [credit EXCEPT ![i] = IF all THEN TA!Settled(i) ELSE @]
  <2>1. \A x, y : TA!Plus(x, y) = Plus(x, y) /\ TA!Minus(x) = Minus(x)
    BY DEF TA!Plus, Plus, TA!Minus, Minus
  <2>2. TA!Settled(i) = IF transfering_account[i] THEN Plus(credit[i], Minus(call.amount))
                        ELSE credit[i]
    BY <1>17, <2>1 DEF TA!Settled
  <2>3. credit = [credit EXCEPT ![i] = @]
    BY <1>2
  <2>. HIDE DEF all
  <2>. QED BY <1>1, <1>2, <2>2, <2>3
<1>19. TA!Answer(i, j, TA!RelayTo(i), TA!Finished)
  BY <1>0, <1>9, <1>17 DEF TA!RelayTo, RelayTo
<1>20. UNCHANGED TA!main
  BY <1>1 DEF TA!main, TA!walk, main, walk
<1>21. TA!AnswerToFinished(i, j)
  <2>1. TA!Cardinality(opened[i]) = Cardinality(writers[i])
    BY <1>17 DEF TA!Cardinality, Cardinality, TA!IsFiniteSet, IsFiniteSet
  <2>2. (counter_finished[i] + 1 = TA!Cardinality(opened[i])) = all
    BY <2>1
  <2>. HIDE DEF all
  <2>. QED BY <1>1, <1>10, <1>13, <1>14, <1>15, <1>16, <1>17, <1>18, <1>19, <1>20, <2>2
           DEF TA!AnswerToFinished
<1>22. /\ \A k \in Nodes : Arrived(k) \subseteq Arrived(k)'
       /\ MainsInv' /\ \A k : NextNode(k)' = NextNode(k)
  <2>1. \A k \in Nodes : From(NoNode, InHand(k)') = From(NoNode, InHand(k))
    BY <1>2, <1>9
  <2>. QED BY <1>1, <2>1, CarryFrame DEF RefineInv
<1>23. ArrivedInv'
  <2>1. \A k \in Nodes : queue[k] \in Seq(Arrived(k)')
    BY <1>22, SeqMonotonic DEF RefineInv, CarryInv, ArrivedInv
  <2>2. r \in Seq(Arrived(i)')
    BY <1>1, <2>1, SeqFacts DEF r
  <2>3. \A k \in Nodes : queue'[k] \in Seq(Arrived(k)')
    BY <1>6, <2>1, <2>2
  <2>. QED BY <2>3 DEF ArrivedInv
<1>24. WrittenInv'
  BY <1>1, <1>5, WrittenOn
<1>25. ClosedInv'
  <2>. DEFINE T == {k \in Message : k.type = "finished"}
  <2>1. <<>> \in Seq(T)
    BY EmptySeq
  <2>2. From(j, InHand(i)') \in Seq(T)
    BY <1>7, <1>11, <2>1
  <2>3. \A l, k \in Nodes : link'[<<l, k>>] = "closed" => From(l, InHand(k)') \in Seq(T)
    BY <1>1, <1>9, <2>2 DEF RefineInv, CarryInv, ClosedInv
  <2>. QED BY <2>3 DEF ClosedInv
<1>26. ConnectInv'
  BY <1>1, <1>6, <1>22 DEF RefineInv, CarryInv, ConnectInv
<1>27. TA!Next
  BY <1>21 DEF TA!Next, TA!NodeStep
<1>. QED BY <1>22, <1>23, <1>24, <1>25, <1>26, <1>27 DEF CarryInv

(* A node joins its handler: nothing is on its way to it any more, and what *)
(* it erases from the queue is nothing.                                     *)
LEMMA JoinMaps ==
  ASSUME RefineInv, NEW i \in Nodes, Join(i)
  PROVE  TA!Next /\ CarryInv'
<1>1. /\ node[i] = "joining"
      /\ queue' = [queue EXCEPT ![i] = <<>>]
      /\ node' = [node EXCEPT ![i] = "ended"]
      /\ UNCHANGED <<main, credit, answering, writers, transfering_account,
                     finished, counter_finished, server, wire>>
  BY DEF Join
<1>2. /\ DOMAIN queue = Nodes /\ DOMAIN node = Nodes /\ queue[i] \in Seq(Message)
      /\ NoNode \notin Nodes /\ i \in spawned
  BY <1>1, OnPath, PathFacts DEF RefineInv, IInv, TypeOK
<1>3. /\ node'[i] = "ended" /\ queue'[i] = <<>>
      /\ \A k \in Nodes \ {i} : node'[k] = node[k] /\ queue'[k] = queue[k]
      /\ \A k \in Nodes : Connecting(k)' = Connecting(k)
      /\ ~ Connecting(i)
  BY <1>1, <1>2 DEF Connecting
<1>4. interrupt[i] /\ ~ joined[i]
  BY <1>1 DEF interrupt, Interrupted, joined
<1>5. /\ ~ posted /\ TA!HandlerDone(i)
      /\ \A j \in Nodes : chan[<<j, i>>] = <<>>
  <2>1. TA!TypeOK /\ TA!PhaseInv /\ TA!PathInv /\ TA!WayInv
    BY DEF RefineInv, ProtocolInv
  <2>. QED BY <1>2, <1>4, <2>1, TA!NothingMore, ProtocolAssumptions
<1>6. InHand(i)' = <<>> /\ \A k \in Nodes \ {i} : InHand(k)' = InHand(k)
  <2>1. InHand(i)' = <<>> \o <<>> /\ <<>> \o <<>> = <<>>
    BY <1>3 DEF InHand
  <2>2. \A k \in Nodes \ {i} : InHand(k)' = InHand(k)
    BY <1>1, <1>3 DEF InHand
  <2>. QED BY <2>1, <2>2
<1>7. \A j \in Nodes : From(j, InHand(i)) = <<>>
  <2>1. SUFFICES ASSUME NEW j \in Nodes PROVE From(j, InHand(i)) = <<>>
    OBVIOUS
  <2>2. /\ From(j, InHand(i)) \in Seq(Message) /\ stream[<<j, i>>] \in Seq(Message)
        /\ Underway(j, i) \in Seq(Message) /\ SaidOf(Underway(j, i)) = <<>>
    BY <1>5, UnderwayFacts DEF RefineInv
  <2>3. From(j, InHand(i)) \o stream[<<j, i>>] = <<>>
    BY <2>2, SaidFacts DEF Underway
  <2>. QED BY <2>2, <2>3, EmptyConcat
<1>8. From(NoNode, InHand(i)) = <<>>
  BY <1>5 DEF posted
<1>9. \A j \in Nodes \cup {NoNode} : \A k \in Nodes :
         From(j, InHand(k)') = From(j, InHand(k))
  <2>1. SUFFICES ASSUME NEW j \in Nodes \cup {NoNode}, NEW k \in Nodes
                 PROVE  From(j, InHand(k)') = From(j, InHand(k))
    OBVIOUS
  <2>2. From(j, InHand(i)') = <<>>
    BY <1>6, FromEmpty
  <2>. QED BY <1>6, <1>7, <1>8, <2>2
<1>10. posted' = posted /\ chan' = chan /\ closed' = closed
  <2>1. posted' = posted
    BY <1>9 DEF posted
  <2>2. \A e \in Links : From(e[1], InHand(e[2]))' = From(e[1], InHand(e[2]))
    BY <1>9 DEF Links
  <2>3. \A e \in Links : Underway(e[1], e[2])' = Underway(e[1], e[2])
    BY <1>1, <2>2 DEF Underway, Links, wire
  <2>4. chan' = chan
    BY <2>3 DEF chan
  <2>5. closed' = closed
    BY <1>1, <2>2 DEF closed, wire
  <2>. QED BY <2>1, <2>4, <2>5
<1>11. /\ UNCHANGED <<opened, paying, interrupt>>
       /\ joined' = [joined EXCEPT ![i] = TRUE]
  <2>1. \A k \in Nodes : Interrupted(k)' = Interrupted(k)
    BY <1>1, <1>3 DEF Interrupted
  <2>2. UNCHANGED <<opened, paying, interrupt>>
    BY <1>1, <1>3, <2>1, Zenon DEF opened, paying, interrupt
  <2>3. joined'[i] = TRUE /\ \A k \in Nodes \ {i} : joined'[k] = joined[k]
    BY <1>3 DEF joined
  <2>4. joined' = [k \in Nodes |-> joined'[k]] /\ joined = [k \in Nodes |-> joined[k]]
    BY DEF joined
  <2>. QED BY <2>2, <2>3, <2>4
<1>12. TA!Join(i)
  <2>1. UNCHANGED TA!main
    BY <1>1 DEF TA!main, TA!walk, main, walk
  <2>. QED BY <1>1, <1>2, <1>4, <1>5, <1>10, <1>11, <2>1 DEF TA!Join
<1>13. /\ \A k \in Nodes : Arrived(k) \subseteq Arrived(k)'
       /\ MainsInv' /\ WrittenInv' /\ ClosedInv' /\ \A k : NextNode(k)' = NextNode(k)
  <2>1. link' = link /\ stream' = stream
    BY <1>1 DEF wire
  <2>2. \A k, j \in Nodes : From(j, InHand(k)') = From(j, InHand(k))
    BY <1>9
  <2>3. \A k \in Nodes : From(NoNode, InHand(k)') = From(NoNode, InHand(k))
    BY <1>9
  <2>. QED BY <1>1, <2>1, <2>2, <2>3, CarryFrame DEF RefineInv
<1>14. ArrivedInv'
  <2>1. \A k \in Nodes : queue[k] \in Seq(Arrived(k)')
    BY <1>13, SeqMonotonic DEF RefineInv, CarryInv, ArrivedInv
  <2>2. <<>> \in Seq(Arrived(i)')
    BY EmptySeq
  <2>3. \A k \in Nodes : queue'[k] \in Seq(Arrived(k)')
    BY <1>3, <2>1, <2>2
  <2>. QED BY <2>3 DEF ArrivedInv
<1>15. ConnectInv'
  BY <1>1, <1>3, <1>13 DEF RefineInv, CarryInv, ConnectInv
<1>16. TA!Next
  BY <1>12 DEF TA!Next
<1>. QED BY <1>13, <1>14, <1>15, <1>16 DEF CarryInv

----------------------------------------------------------------------------
(* Every step is one of TransferAmount, or changes nothing there. *)
LEMMA NextMaps ==
  ASSUME RefineInv, IInv', [Next]_vars
  PROVE  [TA!Next]_(TA!vars) /\ CarryInv'
<1>1. ASSUME UNCHANGED vars PROVE UNCHANGED TA!vars /\ CarryInv'
  BY <1>1, QuietlyOn DEF vars, runtime, worker, wire
<1>2. ASSUME MainStep \/ \E f, t \in Nodes, a \in Amounts : Begin(f, t, a)
      PROVE  TA!Next /\ CarryInv'
  BY <1>2, WalkSteps, PostMaps, AnnounceMaps, ReturnMaps DEF MainStep
<1>3. ASSUME NEW i \in Nodes, NodeStep(i) \/ Listen(i) \/ HandlerEnd(i)
      PROVE  [TA!Next]_(TA!vars) /\ CarryInv'
  BY <1>3, QuietSteps, GetTransferMaps, SendOnMaps, ReceivePaymentMaps,
     AnswerToFinishedMaps, JoinMaps DEF NodeStep
<1>4. ASSUME NEW i \in Nodes, NEW j \in Nodes, Connect(i, j) \/ Accept(i, j) \/ Read(i, j)
      PROVE  [TA!Next]_(TA!vars) /\ CarryInv'
  BY <1>4, QuietSteps, ReadMaps
<1>. QED BY <1>1, <1>2, <1>3, <1>4 DEF Next

(* What TransferAmount keeps in its steps, the mapped state keeps. *)
LEMMA NextRefineInv ==
  ASSUME RefineInv, [Next]_vars
  PROVE  RefineInv' /\ [TA!Next]_(TA!vars)
<1>1. IInv'
  BY NextIInv DEF RefineInv
<1>2. [TA!Next]_(TA!vars) /\ CarryInv'
  BY <1>1, NextMaps
<1>3. TA!TypeOK /\ TA!PhaseInv /\ TA!PathInv /\ TA!WayInv
  BY DEF RefineInv, ProtocolInv
<1>4. TA!TypeOK'
  BY <1>2, <1>3, ProtocolAssumptions, TA!NextTypeOK
<1>5. TA!PhaseInv'
  BY <1>2, <1>3, ProtocolAssumptions, TA!NextPhaseInv
<1>6. TA!PathInv'
  BY <1>2, <1>3, ProtocolAssumptions, TA!NextPathInv
<1>7. TA!WayInv'
  BY <1>2, <1>3, ProtocolAssumptions, TA!NextWayInv
<1>. QED BY <1>1, <1>2, <1>4, <1>5, <1>6, <1>7 DEF RefineInv, ProtocolInv

(* At the beginning nothing has been sent, and nobody has started.          *)
LEMMA InitMaps == Init => TA!Init
<1>1. SUFFICES ASSUME Init PROVE TA!Init
  OBVIOUS
<1>2. \A i \in Nodes : /\ node[i] = "none" /\ writers[i] = {}
                       /\ ~ transfering_account[i] /\ queue[i] = <<>>
  BY <1>1 DEF Init
<1>3. \A i \in Nodes : /\ ~ Connecting(i) /\ Interrupted(i) = FALSE
                       /\ (node[i] = "ended") = FALSE /\ InHand(i) = <<>>
  <2>1. <<>> \o <<>> = <<>>
    OBVIOUS
  <2>2. \A i \in Nodes : ~ Connecting(i)
    BY <1>2 DEF Connecting
  <2>. QED BY <1>2, <2>1, <2>2 DEF InHand, Interrupted
<1>4. ~ posted
  BY <1>3, FromEmpty DEF posted
<1>5. chan = [e \in Links |-> <<>>]
  <2>1. SaidOf(<<>>) = <<>> /\ <<>> \o <<>> = <<>>
    BY DEF SaidOf
  <2>2. \A e \in Links : Underway(e[1], e[2]) = <<>>
    BY <1>1, <1>3, <2>1, FromEmpty DEF Underway, Links, Init
  <2>. QED BY <2>1, <2>2 DEF chan
<1>6. closed = {} /\ opened = [i \in Nodes |-> {}] /\ paying = [i \in Nodes |-> FALSE]
  <2>1. closed = {}
    BY <1>1 DEF closed, Init
  <2>2. opened = [i \in Nodes |-> {}]
    BY <1>2, <1>3 DEF opened
  <2>3. \A i \in Nodes : paying[i] = FALSE
    BY <1>2 DEF paying
  <2>4. paying = [i \in Nodes |-> paying[i]]
    BY DEF paying
  <2>. QED BY <2>1, <2>2, <2>3, <2>4
<1>7. interrupt = [i \in Nodes |-> FALSE] /\ joined = [i \in Nodes |-> FALSE]
  BY <1>3, Zenon DEF interrupt, joined
<1>8. posted = FALSE
  BY <1>4 DEF posted
<1>. QED BY <1>1, <1>5, <1>6, <1>7, <1>8 DEF Init, TA!Init, TA!Nobody, TA!Never, TA!Zero,
            TA!Silent, TA!Links, Links

LEMMA InitRefineInv == Init => RefineInv
<1>1. SUFFICES ASSUME Init PROVE RefineInv
  OBVIOUS
<1>2. IInv
  BY <1>1, InitIInv
<1>3. TA!TypeOK /\ TA!PhaseInv
  BY <1>1, InitMaps, ProtocolAssumptions, TA!InitTypeOK, TA!InitPhaseInv
<1>4. TA!PathInv /\ TA!WayInv
  BY <1>1, InitMaps DEF TA!Init, TA!PathInv, TA!OnPath, TA!WayInv, TA!Started, TA!Nobody
<1>5. CarryInv
  <2>1. /\ \A i \in Nodes : queue[i] = <<>> /\ ~ Connecting(i)
        /\ \A e \in Links : stream[e] = <<>> /\ link[e] = "none"
        /\ ~ Running
    BY <1>1 DEF Init, Connecting, Running
  <2>2. \A S : <<>> \in Seq(S)
    BY EmptySeq
  <2>3. ArrivedInv /\ WrittenInv /\ ClosedInv
    <3>1. \A j, i \in Nodes : stream[<<j, i>>] = <<>> /\ link[<<j, i>>] = "none"
      BY <2>1 DEF Links
    <3>2. ArrivedInv /\ WrittenInv
      BY <2>1, <2>2, <3>1 DEF ArrivedInv, WrittenInv
    <3>3. ClosedInv
      BY <3>1 DEF ClosedInv
    <3>. QED BY <3>2, <3>3
  <2>4. ConnectInv
    BY <2>1 DEF ConnectInv
  <2>5. \A i \in Nodes : InHand(i) = <<>>
    BY <2>1, EmptyHanded
  <2>. QED BY <2>1, <2>3, <2>4, <2>5, FromEmpty DEF CarryInv, MainsInv
<1>. QED BY <1>2, <1>3, <1>4, <1>5 DEF RefineInv, ProtocolInv


----------------------------------------------------------------------------
(* The instance of this module and the instance that NodeRuntime has are    *)
(* the same specification.                                                  *)
LEMMA SameInit == TA!Init => Protocol!Init
BY DEF TA!Init, TA!Nobody, TA!Never, TA!Zero, TA!Silent, TA!Links,
       Protocol!Init, Protocol!Nobody, Protocol!Never, Protocol!Zero,
       Protocol!Silent, Protocol!Links

LEMMA SameCallSteps ==
  /\ \A f, t, a : TA!Begin(f, t, a) => Protocol!Begin(f, t, a)
  /\ TA!CallStep => Protocol!CallStep
<1>1. \A f, t, a : TA!Begin(f, t, a) => Protocol!Begin(f, t, a)
  BY DEF TA!Begin, TA!Covered, TA!threads,
         Protocol!Begin, Protocol!Covered, Protocol!threads
<1>2. TA!SpawnOnPath => Protocol!SpawnOnPath
  BY DEF TA!SpawnOnPath, TA!Spawn, TA!NextNode, TA!threads,
         Protocol!SpawnOnPath, Protocol!Spawn, Protocol!NextNode, Protocol!threads
<1>3. TA!SpawnLast => Protocol!SpawnLast
  BY DEF TA!SpawnLast, TA!Spawn, TA!walk, TA!threads,
         Protocol!SpawnLast, Protocol!Spawn, Protocol!walk, Protocol!threads
<1>4. (TA!Post => Protocol!Post) /\ (TA!Announce => Protocol!Announce)
  BY DEF TA!Post, TA!Announce, TA!walk, TA!threads,
         Protocol!Post, Protocol!Announce, Protocol!walk, Protocol!threads
<1>5. TA!Return => Protocol!Return
  BY DEF TA!Return, TA!AllJoined, TA!Nobody, TA!Never, TA!Zero, TA!Silent,
         TA!Links, TA!walk, Protocol!Return, Protocol!AllJoined, Protocol!Nobody,
         Protocol!Never, Protocol!Zero, Protocol!Silent, Protocol!Links, Protocol!walk
<1>. QED BY <1>1, <1>2, <1>3, <1>4, <1>5 DEF TA!CallStep, Protocol!CallStep

LEMMA SameNodeSteps ==
  ASSUME NEW i \in Nodes
  PROVE  /\ TA!StartTransfer(i) => Protocol!StartTransfer(i)
         /\ TA!Join(i) => Protocol!Join(i)
         /\ \A j \in Nodes : TA!NodeStep(i, j) => Protocol!NodeStep(i, j)
<1>1. TA!main = Protocol!main /\ TA!main' = Protocol!main'
  BY DEF TA!main, TA!walk, Protocol!main, Protocol!walk
<1>2. TA!StartTransfer(i) => Protocol!StartTransfer(i)
  BY <1>1 DEF TA!StartTransfer, TA!NextNode, TA!Transfer,
         Protocol!StartTransfer, Protocol!NextNode, Protocol!Transfer
<1>3. TA!Join(i) => Protocol!Join(i)
  BY <1>1 DEF TA!Join, TA!HandlerDone, Protocol!Join, Protocol!HandlerDone
<1>4. ASSUME NEW j \in Nodes, NEW t, TA!Receives(i, j, t)
      PROVE  Protocol!Receives(i, j, t)
  BY <1>4 DEF TA!Receives, TA!Links, Protocol!Receives, Protocol!Links
<1>5. ASSUME NEW j \in Nodes, NEW S, NEW m, TA!Answer(i, j, S, m)
      PROVE  Protocol!Answer(i, j, S, m)
  BY <1>5 DEF TA!Answer, TA!Links, Protocol!Answer, Protocol!Links
<1>6. ASSUME NEW j \in Nodes, TA!RelayTransfer(i, j)
      PROVE  Protocol!RelayTransfer(i, j)
  BY <1>1, <1>4, <1>5, <1>6 DEF TA!RelayTransfer, TA!NextNode,
     Protocol!RelayTransfer, Protocol!NextNode
<1>7. ASSUME NEW j \in Nodes, TA!ReceivePayment(i, j)
      PROVE  Protocol!ReceivePayment(i, j)
  <2>1. \A x, y : TA!Plus(x, y) = Protocol!Plus(x, y)
    BY DEF TA!Plus, Protocol!Plus
  <2>. QED BY <1>1, <1>4, <1>5, <1>7, <2>1 DEF TA!ReceivePayment, TA!NextNode,
           TA!Finished, Protocol!ReceivePayment, Protocol!NextNode, Protocol!Finished
<1>8. ASSUME NEW j \in Nodes, TA!AnswerToFinished(i, j)
      PROVE  Protocol!AnswerToFinished(i, j)
  <2>1. TA!Settled(i) = Protocol!Settled(i)
    BY DEF TA!Settled, TA!Plus, TA!Minus, Protocol!Settled, Protocol!Plus, Protocol!Minus
  <2>2. TA!Cardinality(opened[i]) = Protocol!Cardinality(opened[i])
    BY DEF TA!Cardinality, Protocol!Cardinality, TA!IsFiniteSet, Protocol!IsFiniteSet
  <2>3. TA!RelayTo(i) = Protocol!RelayTo(i) /\ TA!Finished = Protocol!Finished
    BY DEF TA!RelayTo, TA!Finished, Protocol!RelayTo, Protocol!Finished
  <2>. QED BY <1>1, <1>4, <1>5, <1>8, <2>1, <2>2, <2>3
           DEF TA!AnswerToFinished, Protocol!AnswerToFinished
<1>. QED BY <1>2, <1>3, <1>6, <1>7, <1>8 DEF TA!NodeStep, Protocol!NodeStep

LEMMA SameNext == [TA!Next]_(TA!vars) => [Protocol!Next]_(Protocol!vars)
<1>1. UNCHANGED TA!vars => UNCHANGED Protocol!vars
  BY DEF TA!vars, TA!main, TA!walk, TA!threads,
         Protocol!vars, Protocol!main, Protocol!walk, Protocol!threads
<1>. QED BY <1>1, SameCallSteps, SameNodeSteps DEF TA!Next, Protocol!Next

----------------------------------------------------------------------------
LEMMA CarriedAlong == Spec => []RefineInv
BY InitRefineInv, NextRefineInv, PTL DEF Spec

(* Whatever the order in which the threads start, connect and read, and     *)
(* whether connections are refused or not, every step of the threads, the   *)
(* sockets and the queues is a step of the protocol of TransferAmount, or   *)
(* one it does not see: the two handlers of a message are one step of it    *)
(* each (Node.cpp:266, 310), taken when they send or book.                  *)
THEOREM ProtocolImplemented == Spec => ImplementsProtocol
<1>1. Init => Protocol!Init
  BY InitMaps, SameInit
<1>2. RefineInv /\ [Next]_vars => [Protocol!Next]_(Protocol!vars)
  BY NextRefineInv, SameNext
<1>. QED BY <1>1, <1>2, CarriedAlong, PTL DEF Spec, ImplementsProtocol

----------------------------------------------------------------------------
(* A finished that the reader holds came in on a closed connection.         *)
LEMMA FinishedHeld ==
  ASSUME RefineInv, NEW i \in Nodes, NEW j \in Nodes, From(i, InHand(j)) # <<>>,
         Head(From(i, InHand(j))).type = "finished"
  PROVE  link[<<i, j>>] = "closed"
<1>1. queue[j] \in Seq(Message) /\ queue[j] \in Seq(Arrived(j))
  BY UnderwayFacts DEF RefineInv, CarryInv, ArrivedInv
<1>2. From(i, queue[j]) \in Seq({m \in Arrived(j) : m.sender = i})
  BY <1>1, FromType
<1>3. CASE ~ Connecting(j)
  <2>1. InHand(j) = <<>> \o queue[j] /\ <<>> \o queue[j] = queue[j]
    BY <1>1, <1>3 DEF InHand
  <2>2. Head(From(i, queue[j])) \in {m \in Arrived(j) : m.sender = i}
    BY <1>2, <2>1, HeadTailProperties
  <2>. QED BY <2>1, <2>2 DEF Arrived
<1>4. CASE Connecting(j)
  <2>1. answering[j] \in Message /\ answering[j].type = "transfer_amount"
    BY <1>4 DEF RefineInv, IInv, TypeOK, MessageInv, Connecting
  <2>2. InHand(j) = <<answering[j]>> \o queue[j]
    BY <1>4 DEF InHand
  <2>3. /\ InHand(j) \in Seq(Message) /\ InHand(j) # <<>>
        /\ Head(InHand(j)) = answering[j] /\ Tail(InHand(j)) = queue[j]
    BY <1>1, <2>1, <2>2
  <2>4. From(i, InHand(j)) = IF answering[j].sender = i
                             THEN <<answering[j]>> \o From(i, queue[j])
                             ELSE From(i, queue[j])
    <3>1. ASSUME NEW s \in Seq(Message), s # <<>>
          PROVE  From(i, s) = IF Head(s).sender = i THEN <<Head(s)>> \o From(i, Tail(s))
                              ELSE From(i, Tail(s))
      BY <3>1, FromHead
    <3>2. From(i, InHand(j)) = IF Head(InHand(j)).sender = i
                               THEN <<Head(InHand(j))>> \o From(i, Tail(InHand(j)))
                               ELSE From(i, Tail(InHand(j)))
      BY <2>3, <3>1, Zenon
    <3>. QED BY <2>3, <3>2, Zenon
  <2>5. answering[j].sender # i
    <3>1. SUFFICES ASSUME answering[j].sender = i PROVE FALSE
      OBVIOUS
    <3>2. Head(<<answering[j]>> \o From(i, queue[j])) = answering[j]
      BY <1>2
    <3>. QED BY <2>1, <2>4, <3>1, <3>2
  <2>6. Head(From(i, queue[j])) \in {m \in Arrived(j) : m.sender = i}
    BY <1>2, <2>4, <2>5, HeadTailProperties
  <2>. QED BY <2>4, <2>5, <2>6 DEF Arrived
<1>. QED BY <1>3, <1>4

(* When a node closes its sockets at the end of its thread (Node.cpp:337),  *)
(* each handler at the other end has read its finished, or still has it in  *)
(* the stream: nobody sees an end of the connection before it.              *)
THEOREM NoEarlyClosing == Spec => []NoEarlyClose
<1>1. RefineInv => NoEarlyClose
  <2>1. SUFFICES ASSUME RefineInv, NEW i \in Nodes, NEW j \in Nodes, node[i] = "ended",
                        j \in writers[i], link[<<i, j>>] # "closed"
                 PROVE  \E k \in DOMAIN stream[<<i, j>>] : stream[<<i, j>>][k] = Finished(i)
    BY DEF NoEarlyClose
  <2>2. /\ i \in spawned /\ interrupt[i] /\ j \in opened[i]
    BY <2>1, OnPath DEF RefineInv, interrupt, opened, Interrupted, Connecting
  <2>3. TA!TypeOK /\ TA!PhaseInv /\ TA!PathInv /\ TA!WayInv
    BY <2>1 DEF RefineInv, ProtocolInv
  <2>4. TA!Sent(i, j) \/ TA!Answered(i, j)
    BY <2>2, <2>3, TA!FinishedSent, ProtocolAssumptions
  <2>5. chan[<<i, j>>] = <<TA!Finished>>
    BY <2>1, <2>4 DEF TA!Sent, TA!Answered, closed
  <2>6. PICK x, s : x = From(i, InHand(j)) /\ s = stream[<<i, j>>]
    OBVIOUS
  <2>7. /\ x \in Seq(Message) /\ s \in Seq(Message) /\ x \o s \in Seq(Message)
        /\ SaidOf(x \o s) = <<TA!Finished>>
    BY <2>1, <2>5, <2>6, UnderwayFacts DEF RefineInv, Underway
  <2>8. /\ Len(x \o s) = 1 /\ x \o s # <<>>
        /\ Said(Head(x \o s)) = TA!Finished
    <3>1. /\ Len(SaidOf(x \o s)) = Len(x \o s)
          /\ SaidOf(x \o s) = <<>> <=> x \o s = <<>>
          /\ x \o s # <<>> => Head(SaidOf(x \o s)) = Said(Head(x \o s))
      BY <2>7, SaidFacts, Zenon
    <3>2. /\ Len(SaidOf(x \o s)) = 1 /\ SaidOf(x \o s) # <<>>
          /\ Head(SaidOf(x \o s)) = TA!Finished
      BY <2>7
    <3>. QED BY <3>1, <3>2, Zenon
  <2>9. Head(x \o s) \in Message /\ Head(x \o s).type = "finished"
    <3>1. Head(x \o s) \in Message
      BY <2>7, <2>8
    <3>. QED BY <2>8, <3>1 DEF Said, TA!Finished, Message
  <2>10. x = <<>>
    <3>1. SUFFICES ASSUME x # <<>> PROVE FALSE
      OBVIOUS
    <3>2. Head(x \o s) = Head(x)
      BY <2>7, <3>1
    <3>. QED BY <2>1, <2>6, <2>9, <3>1, <3>2, FinishedHeld
  <2>11. s # <<>> /\ Head(s).type = "finished"
    BY <2>7, <2>8, <2>9, <2>10
  <2>12. s \in Seq(Written(i))
    BY <2>1, <2>6 DEF RefineInv, CarryInv, WrittenInv
  <2>13. Head(s) \in Written(i) /\ 1 \in DOMAIN s /\ Head(s) = s[1]
    BY <2>11, <2>12
  <2>14. Head(s) = Finished(i)
    BY <2>11, <2>13 DEF Written, Message, Finished
  <2>. QED BY <2>6, <2>13, <2>14
<1>. QED BY <1>1, CarriedAlong, PTL
=============================================================================
