---------------------------- MODULE NodeRuntime ----------------------------
(***************************************************************************)
(* What a node runs on, under the TransferAmount protocol: the node thread  *)
(* starts a handler thread, which listens, accepts one connection from each *)
(* neighbour and moves what it reads to the queue; the node takes a message *)
(* from the queue, connects to those it will write to, and writes.  All     *)
(* threads start in any order, so that a node may connect before the other  *)
(* one listens: then the connection is refused, which is only logged        *)
(* (tcp_writer.cpp:29), and what is written on it is lost.                  *)
(*                                                                          *)
(* TransferAmount takes the connections to be up, and the handler and the   *)
(* queue together with them.  This module shows when it may.                *)
(***************************************************************************)
EXTENDS UnsignedAmount, Sequences, FiniteSets

CONSTANTS
    Nodes, NoNode, Distance, Parent, InitialCredit, Amounts, MaxCalls
                    \* as in TransferAmount

ASSUME PathsAssumption ==
    /\ IsFiniteSet(Nodes) /\ NoNode \notin Nodes
    /\ Distance \in [Nodes -> [Nodes -> Nat]]
    /\ Parent \in [Nodes -> [Nodes -> Nodes \cup {NoNode}]]
    /\ \A t \in Nodes : /\ Parent[t][t] = NoNode
                        /\ \A i \in Nodes \ {t} :
                              /\ Parent[t][i] \in Nodes
                              /\ Distance[t][Parent[t][i]] < Distance[t][i]
    /\ InitialCredit \in [Nodes -> Amount]
    /\ Amounts \subseteq Amount
    /\ MaxCalls \in Nat

Links == Nodes \X Nodes

(* A message carries its sender; main signs with -1. *)
Transfer(s, a) == [type |-> "transfer_amount", sender |-> s, amount |-> a]
Finished(s)    == [type |-> "finished", sender |-> s]
Message == [type : {"transfer_amount"}, sender : Nodes \cup {NoNode},
            amount : Amounts]
           \cup [type : {"finished"}, sender : Nodes]

VARIABLES
    calls, pc, call, previous, current, following, announced, opening,
    spawned, adj_edges, credit,         \* as in TransferAmount
    node,                   \* where each node thread is
    answering,              \* the message a connecting node has taken
    writers, transfering_account, finished, counter_finished,
    handler,                \* where each handler thread is
    count_connections,      \* connections it has accepted
    queue,                  \* messages put and not yet taken
    link,                   \* connections, from the writer to the handler
    stream                  \* written on a connection, and not read

walk   == <<previous, current, following>>
main   == <<calls, pc, call, walk, announced, opening, spawned, adj_edges>>
worker == <<credit, node, answering, writers, transfering_account, finished,
            counter_finished>>
server == <<handler, count_connections>>
wire   == <<link, stream>>
runtime == <<worker, server, wire, queue>>
vars == <<main, runtime>>

Nothing == [type |-> "finished", sender |-> NoNode]

Init ==
    /\ calls = 0 /\ pc = "session"
    /\ call = [from |-> NoNode, to |-> NoNode, amount |-> 0]
    /\ previous = NoNode /\ current = NoNode /\ following = NoNode
    /\ announced = FALSE
    /\ credit = InitialCredit /\ opening = InitialCredit
    /\ spawned = {} /\ adj_edges = [i \in Nodes |-> {}]
    /\ node = [i \in Nodes |-> "none"]
    /\ answering = [i \in Nodes |-> Nothing]
    /\ writers = [i \in Nodes |-> {}]
    /\ transfering_account = [i \in Nodes |-> FALSE]
    /\ finished = [i \in Nodes |-> FALSE]
    /\ counter_finished = [i \in Nodes |-> 0]
    /\ handler = [i \in Nodes |-> "none"]
    /\ count_connections = [i \in Nodes |-> 0]
    /\ queue = [i \in Nodes |-> <<>>]
    /\ link = [e \in Links |-> "none"]
    /\ stream = [e \in Links |-> <<>>]

----------------------------------------------------------------------------
(* The protocol as TransferAmount has it.  There a message is on its        *)
(* connection until it has been answered, that is, until the answer is sent *)
(* or the account changed: what this module still has in the stream, in the *)
(* queue, or in the hands of a node that connects.                          *)
Connecting(i)  == node[i] = "connecting"
Interrupted(i) == node[i] \in {"joining", "ended"}

InHand(i) == (IF Connecting(i) THEN <<answering[i]>> ELSE <<>>) \o queue[i]

(* The messages of s that j has sent, in their order. *)
From(j, s) ==
    LET from[k \in 0 .. Len(s)] ==
            IF k = 0 THEN <<>>
            ELSE IF s[k].sender = j THEN Append(from[k - 1], s[k])
            ELSE from[k - 1]
    IN  from[Len(s)]

Said(m) == IF m.type = "finished" THEN [type |-> "finished"]
           ELSE [type |-> "transfer_amount", amount |-> m.amount]
SaidOf(s) == [k \in DOMAIN s |-> Said(s[k])]

Underway(j, i) == From(j, InHand(i)) \o stream[<<j, i>>]

posted == \E i \in Nodes : From(NoNode, InHand(i)) # <<>>
chan   == [e \in Links |-> SaidOf(Underway(e[1], e[2]))]
closed == {e \in Links : link[e] = "closed" /\ From(e[1], InHand(e[2])) = <<>>}
opened == [i \in Nodes |-> IF Connecting(i) THEN {} ELSE writers[i]]
paying == [i \in Nodes |-> transfering_account[i] /\ ~ Connecting(i)]
interrupt == [i \in Nodes |-> Interrupted(i)]
joined == [i \in Nodes |-> node[i] = "ended"]

Protocol == INSTANCE TransferAmount WITH
    writers <- opened, transfering_account <- paying

NextNode(i) == Parent[call.to][i]

----------------------------------------------------------------------------
(* The main thread, as in TransferAmount, and what it does to the threads.  *)

Begin(f, t, a) == UNCHANGED runtime /\ Protocol!Begin(f, t, a)

(* guarded_thread{nodes[i]}: from here on the node runs when it likes. *)
Create(i) ==
    /\ node' = [node EXCEPT ![i] = "created"]
    /\ UNCHANGED <<credit, answering, writers, transfering_account, finished,
                   counter_finished, server, wire, queue>>

SpawnOnPath == pc = "walk" /\ Create(current) /\ Protocol!SpawnOnPath
SpawnLast   == pc = "last" /\ Create(current) /\ Protocol!SpawnLast

Post ==
    /\ pc = "post" /\ pc' = "announce"
    /\ queue' = [queue EXCEPT ![call.from] =
                    Append(@, Transfer(NoNode, call.amount))]
    /\ UNCHANGED <<calls, call, walk, announced, opening, spawned, adj_edges,
                   worker, server, wire>>

Announce == UNCHANGED runtime /\ Protocol!Announce

(* The joins at the end of transfer_amount.  Nodes, handlers and sockets    *)
(* are destroyed with the call, the queues stay.                            *)
NotAwaited == TRUE
AllJoined  == \A i \in spawned : node[i] = "ended"

Return ==
    /\ pc = "join" /\ AllJoined
    /\ pc' = "session" /\ calls' = calls + 1
    /\ spawned' = {} /\ adj_edges' = [i \in Nodes |-> {}]
    /\ node' = [i \in Nodes |-> "none"]
    /\ answering' = [i \in Nodes |-> Nothing]
    /\ writers' = [i \in Nodes |-> {}]
    /\ transfering_account' = [i \in Nodes |-> FALSE]
    /\ finished' = [i \in Nodes |-> FALSE]
    /\ counter_finished' = [i \in Nodes |-> 0]
    /\ handler' = [i \in Nodes |-> "none"]
    /\ count_connections' = [i \in Nodes |-> 0]
    /\ link' = [e \in Links |-> "none"]
    /\ stream' = [e \in Links |-> <<>>]
    /\ UNCHANGED <<call, walk, announced, opening, credit, queue>>

----------------------------------------------------------------------------
(* The handler thread. *)

(* The acceptor listens from its construction to the end of the thread. *)
Listen(i) ==
    /\ handler[i] = "created"
    /\ handler' = [handler EXCEPT ![i] = "listening"]
    /\ UNCHANGED <<main, worker, count_connections, wire, queue>>

Listening(i) == handler[i] \in {"listening", "full"}

(* Whether do_accept is called again, with n connections accepted. *)
OneMore(i, n)  == n <= Cardinality(adj_edges[i])
OneLess(i, n)  == n + 1 < Cardinality(adj_edges[i])
Expects(i, n)  == n < Cardinality(adj_edges[i])

Accept(i, j) ==
    /\ handler[i] = "listening" /\ link[<<j, i>>] = "backlog"
    /\ link' = [link EXCEPT ![<<j, i>>] = "accepted"]
    /\ count_connections' = [count_connections EXCEPT ![i] = @ + 1]
    /\ handler' = [handler EXCEPT ![i] =
          IF Expects(i, count_connections'[i]) THEN "listening" ELSE "full"]
    /\ UNCHANGED <<main, worker, stream, queue>>

(* do_read_header and do_read_body: put, and close after a finished. *)
Read(i, j) ==
    /\ link[<<j, i>>] = "accepted" /\ stream[<<j, i>>] # <<>>
    /\ queue' = [queue EXCEPT ![i] = Append(@, Head(stream[<<j, i>>]))]
    /\ stream' = [stream EXCEPT ![<<j, i>>] = Tail(@)]
    /\ link' = [link EXCEPT ![<<j, i>>] =
          IF Head(stream[<<j, i>>]).type = "finished" THEN "closed" ELSE @]
    /\ UNCHANGED <<main, worker, server>>

(* io_service.run() returns when there is nothing to accept or to read. *)
HandlerEnd(i) ==
    /\ handler[i] = "full"
    /\ \A j \in Nodes : link[<<j, i>>] # "accepted"
    /\ handler' = [handler EXCEPT ![i] = "done"]
    /\ UNCHANGED <<main, worker, count_connections, wire, queue>>

----------------------------------------------------------------------------
(* The node thread. *)

StartHandler(i) ==
    /\ node[i] = "created"
    /\ node' = [node EXCEPT ![i] = "loop"]
    /\ handler' = [handler EXCEPT ![i] = "created"]
    /\ UNCHANGED <<main, credit, answering, writers, transfering_account,
                   finished, counter_finished, count_connections, wire, queue>>

Gets(i, type) ==
    /\ node[i] = "loop"
    /\ queue[i] # <<>> /\ Head(queue[i]).type = type

(* get pops what it returns. *)
Kept(i)   == queue[i]
Popped(i) == Tail(queue[i])

(* i writes m to the nodes S; on a refused connection it is lost there. *)
Write(i, S, m) ==
    stream' = [e \in Links |-> IF e[1] = i /\ e[2] \in S
                               THEN Append(stream[e], m) ELSE stream[e]]

(* answer_to_transfer_amount up to io_service_.run(): a writer for the      *)
(* sender, if it is a node, and one for the next node, if there is one.     *)
GetTransfer(i) ==
    /\ Gets(i, "transfer_amount")
    /\ LET m == Head(queue[i])
       IN  /\ queue' = [queue EXCEPT ![i] = Popped(i)]
           /\ answering' = [answering EXCEPT ![i] = m]
           /\ writers' = [writers EXCEPT
                 ![i] = @ \cup ({m.sender, NextNode(i)} \ {NoNode})]
           /\ transfering_account' =
                 [transfering_account EXCEPT ![i] = @ \/ m.sender = NoNode]
    /\ node' = [node EXCEPT ![i] = "connecting"]
    /\ UNCHANGED <<main, credit, finished, counter_finished, server, wire>>

(* A connection of its own for each writer. *)
Connect(i, j) ==
    /\ Connecting(i) /\ j \in writers[i] /\ link[<<i, j>>] = "none"
    /\ link' = [link EXCEPT ![<<i, j>>] =
                   IF Listening(j) THEN "backlog" ELSE "refused"]
    /\ UNCHANGED <<main, worker, server, stream, queue>>

(* run() has returned: every connect has its result. *)
Resolved(i) == Connecting(i) /\ \A j \in writers[i] : link[<<i, j>>] # "none"

SendOn(i) ==
    /\ Resolved(i) /\ NextNode(i) # NoNode
    /\ Write(i, {NextNode(i)}, Transfer(i, answering[i].amount))
    /\ node' = [node EXCEPT ![i] = "loop"]
    /\ UNCHANGED <<main, credit, answering, writers, transfering_account,
                   finished, counter_finished, server, link, queue>>

ReceivePayment(i) ==
    /\ Resolved(i) /\ NextNode(i) = NoNode
    /\ credit' = [credit EXCEPT ![i] = Plus(@, answering[i].amount)]
    /\ Write(i, writers[i], Finished(i))
    /\ finished' = [finished EXCEPT ![i] = TRUE]
    /\ node' = [node EXCEPT ![i] = "loop"]
    /\ UNCHANGED <<main, answering, writers, transfering_account,
                   counter_finished, server, link, queue>>

(* answer_to_finished. *)
NoRelay(i) == {}
RelayTo(i) == IF finished[i] THEN {} ELSE writers[i]

AnswerToFinished(i) ==
    LET all == counter_finished[i] + 1 = Cardinality(writers[i])
    IN  /\ Gets(i, "finished")
        /\ queue' = [queue EXCEPT ![i] = Popped(i)]
        /\ Write(i, RelayTo(i), Finished(i))
        /\ finished' = [finished EXCEPT ![i] = TRUE]
        /\ counter_finished' = [counter_finished EXCEPT ![i] = @ + 1]
        /\ credit' = IF all /\ transfering_account[i]
                     THEN [credit EXCEPT ![i] = Plus(@, Minus(call.amount))]
                     ELSE credit
        /\ node' = [node EXCEPT ![i] = IF all THEN "joining" ELSE @]
        /\ UNCHANGED <<main, answering, writers, transfering_account, server,
                       link>>

(* The end of operator(): join the handler, erase the queue, close.  (The   *)
(* handlers at the other ends have had their finished: NoEarlyClose.)       *)
Join(i) ==
    /\ node[i] = "joining" /\ handler[i] = "done"
    /\ queue' = [queue EXCEPT ![i] = <<>>]
    /\ node' = [node EXCEPT ![i] = "ended"]
    /\ UNCHANGED <<main, credit, answering, writers, transfering_account,
                   finished, counter_finished, server, wire>>

----------------------------------------------------------------------------
MainStep == SpawnOnPath \/ SpawnLast \/ Post \/ Announce \/ Return

NodeStep(i) ==
    \/ StartHandler(i)
    \/ GetTransfer(i)
    \/ SendOn(i)
    \/ ReceivePayment(i)
    \/ AnswerToFinished(i)
    \/ Join(i)

Next ==
    \/ \E f, t \in Nodes, a \in Amounts : Begin(f, t, a)
    \/ MainStep
    \/ \E i \in Nodes : NodeStep(i) \/ Listen(i) \/ HandlerEnd(i)
    \/ \E i, j \in Nodes : Connect(i, j) \/ Accept(i, j) \/ Read(i, j)

Fairness ==
    /\ WF_vars(MainStep)
    /\ \A i \in Nodes : /\ WF_vars(NodeStep(i))
                        /\ WF_vars(Listen(i)) /\ WF_vars(HandlerEnd(i))
    /\ \A i, j \in Nodes : /\ WF_vars(Connect(i, j))
                           /\ WF_vars(Accept(i, j)) /\ WF_vars(Read(i, j))

Spec == Init /\ [][Next]_vars /\ Fairness

----------------------------------------------------------------------------
Running == pc # "session"
Refused == {e \in Links : link[e] = "refused"}

(* Types.  The messages in a queue were sent to its node. *)
TypeOK ==
    /\ node \in [Nodes -> {"none", "created", "loop", "connecting", "joining",
                           "ended"}]
    /\ \A i \in Nodes : Connecting(i) => answering[i] \in Message
    /\ writers \in [Nodes -> SUBSET Nodes]
    /\ transfering_account \in [Nodes -> BOOLEAN]
    /\ finished \in [Nodes -> BOOLEAN]
    /\ counter_finished \in [Nodes -> Nat]
    /\ handler \in [Nodes -> {"none", "created", "listening", "full", "done"}]
    /\ count_connections \in [Nodes -> Nat]
    /\ \A i \in Nodes : count_connections[i] <= Cardinality(adj_edges[i])
    /\ queue \in [Nodes -> Seq(Message)]
    /\ link \in [Links -> {"none", "refused", "backlog", "accepted", "closed"}]
    /\ stream \in [Links -> Seq(Message)]
    /\ credit \in [Nodes -> Amount]

(* A handler that accepts no more has accepted every neighbour on the path, *)
(* and nobody else has connected to it: no connection stays in the backlog  *)
(* of a listener nobody serves (Handler.cpp:123).                           *)
AcceptsAllNeighbours ==
    \A i \in Nodes : handler[i] \in {"full", "done"} =>
        \A j \in Nodes : IF j \in adj_edges[i]
                         THEN link[<<j, i>>] \in {"accepted", "closed"}
                         ELSE link[<<j, i>>] = "none"

(* When a node closes its sockets (Node.cpp:337) the handlers at the other  *)
(* ends have their finished, or still will read it: nobody sees the end of  *)
(* a connection before the end of the protocol.                             *)
NoEarlyClose ==
    \A i, j \in Nodes : node[i] = "ended" /\ j \in writers[i] =>
        \/ link[<<i, j>>] = "closed"
        \/ \E k \in DOMAIN stream[<<i, j>>] : stream[<<i, j>>][k] = Finished(i)

(* A refused connection is never mistaken for success: main comes back to   *)
(* the session, and displays the accounts, only from a call in which every  *)
(* connection was made, and with the queues of all nodes empty.             *)
ReturnsConnected ==
    [][Running /\ pc' = "session" =>
          Refused = {} /\ \A i \in Nodes : queue[i] = <<>>]_vars

(* Whatever the order in which the threads start, and with connections that *)
(* are refused or not, the threads, sockets and queues do what              *)
(* TransferAmount says of them: its safety properties are theirs.           *)
ImplementsProtocol == Protocol!Init /\ [][Protocol!Next]_(Protocol!vars)

(* A call returns, unless a connection of it has been refused. *)
ReturnsUnlessRefused == Running ~> ~ Running \/ Refused # {}

(* "Each message sent by a node to its neighbor arrives within some finite  *)
(* but unpredictable time" (program_description.docx, network model).       *)
MessagesArrive == \A e \in Links : stream[e] # <<>> ~> stream[e] = <<>>
=============================================================================
