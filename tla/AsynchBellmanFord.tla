------------------------- MODULE AsynchBellmanFord -------------------------
(***************************************************************************)
(* The AsynchBellmanFord protocol of Node.cpp: one run of                   *)
(* calculate_shortest_paths (main.cpp:262), which computes, at every node,  *)
(* the distance to the receiving account's node (the Source) and the next   *)
(* node on the way (the parent).                                            *)
(*                                                                          *)
(* A node is a thread that takes messages from its queue and answers them.  *)
(* Between two neighbours there is one TCP connection in each direction.    *)
(* This module takes a message straight from the connection: the handler    *)
(* thread that moves it to the node's queue keeps the order of each         *)
(* connection and interleaves the connections arbitrarily, as choosing the  *)
(* connection to read does.  All connections are up when a node wakes; what *)
(* happens when one cannot be opened is not part of this module.            *)
(***************************************************************************)
EXTENDS Integers, Sequences, FiniteSets, FiniteSetsExt

CONSTANTS
    Nodes,      \* indices of the nodes
    Source,     \* the node all paths lead to
    Weight,     \* the adjacency matrix: 0 where there is no edge
    Infinity,   \* INFINITY of Node.hpp, the distance of a node not reached
    NoNode      \* the index -1

ASSUME NetworkAssumption ==
    /\ IsFiniteSet(Nodes)
    /\ Source \in Nodes
    /\ NoNode \notin Nodes
    /\ Weight \in [Nodes \X Nodes -> Nat]
    /\ \A i, j \in Nodes : Weight[<<i, j>>] = Weight[<<j, i>>]
    /\ \A i \in Nodes : Weight[<<i, i>>] = 0
    /\ Infinity \in Nat \ {0}

Edges == {e \in Nodes \X Nodes : Weight[e] # 0}
Neighbours(i) == {j \in Nodes : <<i, j>> \in Edges}
Degree(i) == Cardinality(Neighbours(i))

Update(w) == [type |-> "update", w |-> w]
Ack       == [type |-> "ack"]
Finished  == [type |-> "finished"]
Message   == [type : {"update"}, w : 0 .. Infinity] \cup {Ack, Finished}

(* An entry of counter_acks: the neighbour whose update was accepted and    *)
(* the number of acks still awaited before it is acknowledged.              *)
Counter == [node_index : Nodes, counter : Nat]

VARIABLES
    request,            \* main's calculate_shortest_paths is in Source's queue
    state,              \* sleeping or awake
    distance, parent,   \* column Source of the node's shortest paths
    counter_acks,
    counter_finishing,  \* acks counted by the source
    counter_finished,
    finished,
    interrupt,          \* the node's message loop has ended
    chan,               \* messages written on a connection and not yet read
    closed,             \* connections whose reader has closed its socket
    joined              \* nodes whose thread has ended

estimates == <<distance, parent>>
endgame   == <<counter_finished, finished, interrupt, closed, joined>>
vars == <<request, state, estimates, counter_acks, counter_finishing, chan,
          endgame>>

Init ==
    /\ request = TRUE
    /\ state = [i \in Nodes |-> "sleeping"]
    /\ distance = [i \in Nodes |-> Infinity]
    /\ parent = [i \in Nodes |-> NoNode]
    /\ counter_acks = [i \in Nodes |-> <<>>]
    /\ counter_finishing = 0
    /\ counter_finished = [i \in Nodes |-> 0]
    /\ finished = [i \in Nodes |-> FALSE]
    /\ interrupt = [i \in Nodes |-> FALSE]
    /\ chan = [e \in Edges |-> <<>>]
    /\ closed = {}
    /\ joined = [i \in Nodes |-> FALSE]

----------------------------------------------------------------------------
(* The writers of a node are instantiated when it wakes up. *)
Writers(i) == IF state[i] = "awake" THEN Neighbours(i) ELSE {}

(* The head of the connection from j, if i's message loop is to answer it. *)
Receives(i, j, type) ==
    /\ <<j, i>> \in Edges \ closed
    /\ ~ interrupt[i]
    /\ chan[<<j, i>>] # <<>>
    /\ Head(chan[<<j, i>>]).type = type

(* i takes the head of the connection from j and writes m to the nodes S. *)
Answer(i, j, S, m) ==
    chan' = [e \in Edges |->
                IF e = <<j, i>> THEN Tail(chan[e])
                ELSE IF e[1] = i /\ e[2] \in S THEN Append(chan[e], m)
                ELSE chan[e]]

(* answer_to_calculate_shortest_paths: the source wakes up and starts. *)
CalculateShortestPaths ==
    /\ request /\ ~ interrupt[Source]
    /\ request' = FALSE
    /\ state' = [state EXCEPT ![Source] = "awake"]
    /\ distance' = [distance EXCEPT ![Source] = 0]
    /\ chan' = [e \in Edges |-> IF e[1] = Source
                                THEN Append(chan[e], Update(0)) ELSE chan[e]]
    /\ UNCHANGED <<parent, counter_acks, counter_finishing, endgame>>

(* What the update at the head of the connection from j offers i. *)
WeightForgotten(i, j) == Head(chan[<<j, i>>]).w
DistanceThrough(i, j) == Head(chan[<<j, i>>]).w + Weight[<<i, j>>]

Differs(i, j)  == DistanceThrough(i, j) # distance[i]
Improves(i, j) == DistanceThrough(i, j) < distance[i]

(* Acks to wait for before the sender of an accepted update gets its own:   *)
(* one from every other neighbour.                                          *)
OneAckTooFew(i) == Degree(i) - 2
AcksAwaited(i)  == Degree(i) - 1

(* The neighbours told of a new distance: all but the one it came from. *)
FirstTimeOnly(i, j) == IF state[i] = "sleeping" THEN Neighbours(i) \ {j} ELSE {}
ToCorrect(i, j)     == Neighbours(i) \ {j}

(* answer_to_update, the distance through j is shorter: take it and owe j   *)
(* an ack.                                                                  *)
UpdateImproves(i, j) ==
    /\ Receives(i, j, "update")
    /\ Improves(i, j)
    /\ state' = [state EXCEPT ![i] = "awake"]
    /\ counter_acks' = [counter_acks EXCEPT ![i] =
          Append(@, [node_index |-> j, counter |-> AcksAwaited(i)])]
    /\ distance' = [distance EXCEPT ![i] = DistanceThrough(i, j)]
    /\ parent' = [parent EXCEPT ![i] = j]
    /\ Answer(i, j, ToCorrect(i, j), Update(DistanceThrough(i, j)))
    /\ UNCHANGED <<request, counter_finishing, endgame>>

(* answer_to_update, no improvement: acknowledge at once. *)
NoAck(j)     == {}
AckSender(j) == {j}

UpdateRefused(i, j) ==
    /\ Receives(i, j, "update")
    /\ ~ Improves(i, j)
    /\ state' = [state EXCEPT ![i] = "awake"]
    /\ Answer(i, j, AckSender(j), Ack)
    /\ UNCHANGED <<request, estimates, counter_acks, counter_finishing, endgame>>

(* answer_to_ack credits the first entry that is not for the sender. *)
AnyEntry(i, j)   == DOMAIN counter_acks[i]
Creditable(i, j) == {k \in DOMAIN counter_acks[i] :
                        counter_acks[i][k].node_index # j}
Credited(i, j, k) == /\ k \in Creditable(i, j)
                     /\ \A l \in Creditable(i, j) : k <= l

AckCounted(i, j) ==
    /\ i # Source /\ Receives(i, j, "ack")
    /\ \E k \in DOMAIN counter_acks[i] :
          /\ Credited(i, j, k)
          /\ counter_acks[i][k].counter # 1
          /\ counter_acks' = [counter_acks EXCEPT ![i][k].counter = @ - 1]
    /\ Answer(i, j, {}, Ack)
    /\ UNCHANGED <<request, state, estimates, counter_finishing, endgame>>

(* A list of entries without its k-th (erase). *)
Erased(s, k) == SubSeq(s, 1, k - 1) \o SubSeq(s, k + 1, Len(s))

(* The last ack of an entry: the neighbour it is for is acknowledged. *)
AckCompletes(i, j) ==
    /\ i # Source /\ Receives(i, j, "ack")
    /\ \E k \in DOMAIN counter_acks[i] :
          /\ Credited(i, j, k)
          /\ counter_acks[i][k].counter = 1
          /\ counter_acks' = [counter_acks EXCEPT ![i] = Erased(@, k)]
          /\ Answer(i, j, {counter_acks[i][k].node_index}, Ack)
    /\ UNCHANGED <<request, state, estimates, counter_finishing, endgame>>

(* An ack no entry can take is dropped without a trace. *)
AckLost(i, j) ==
    /\ i # Source /\ Receives(i, j, "ack")
    /\ Creditable(i, j) = {}
    /\ Answer(i, j, {}, Ack)
    /\ UNCHANGED <<request, state, estimates, counter_acks, counter_finishing,
                   endgame>>

AnyAcked(n) == n >= 1
AllAcked(n) == n = Degree(Source)

(* The source counts acks and, when all its neighbours have acknowledged,   *)
(* broadcasts finished and leaves its loop.                                 *)
SourceAck(j) ==
    /\ Receives(Source, j, "ack")
    /\ counter_finishing' = counter_finishing + 1
    /\ LET done == AllAcked(counter_finishing')
       IN  /\ Answer(Source, j, IF done THEN Writers(Source) ELSE {}, Finished)
           /\ interrupt' = [interrupt EXCEPT ![Source] = done]
    /\ UNCHANGED <<request, state, estimates, counter_acks, counter_finished,
                   finished, closed, joined>>

(* The neighbours a finished is relayed to. *)
EveryTime(i)    == Writers(i)
ButToParent(i)  == IF finished[i] THEN {} ELSE Writers(i) \ {parent[i]}
RelayTo(i)      == IF finished[i] THEN {} ELSE Writers(i)

(* answer_to_finished: relay the first one; end the loop when as many have  *)
(* come as there are writers.  The connection it came on is closed by the   *)
(* handler that read it.                                                    *)
AnswerToFinished(i, j) ==
    /\ Receives(i, j, "finished")
    /\ Answer(i, j, RelayTo(i), Finished)
    /\ finished' = [finished EXCEPT ![i] = TRUE]
    /\ counter_finished' = [counter_finished EXCEPT ![i] = @ + 1]
    /\ interrupt' = [interrupt EXCEPT
          ![i] = counter_finished'[i] = Cardinality(Writers(i))]
    /\ closed' = closed \cup {<<j, i>>}
    /\ UNCHANGED <<request, state, estimates, counter_acks, counter_finishing,
                   joined>>

(* Once the loop has ended the handler still moves messages to the queue,   *)
(* which is erased unread, and closes a connection after its finished.      *)
Drain(i, j) ==
    /\ <<j, i>> \in Edges \ closed
    /\ interrupt[i] /\ chan[<<j, i>>] # <<>>
    /\ Answer(i, j, {}, Ack)
    /\ closed' = IF Head(chan[<<j, i>>]) = Finished
                 THEN closed \cup {<<j, i>>} ELSE closed
    /\ UNCHANGED <<request, state, estimates, counter_acks, counter_finishing,
                   counter_finished, finished, interrupt, joined>>

(* t.join() returns when the handler has no connection left. *)
Always(i)      == TRUE
HandlerDone(i) == \A j \in Neighbours(i) : <<j, i>> \in closed

Join(i) ==
    /\ interrupt[i] /\ ~ joined[i]
    /\ HandlerDone(i)
    /\ joined' = [joined EXCEPT ![i] = TRUE]
    /\ UNCHANGED <<request, state, estimates, counter_acks, counter_finishing,
                   chan, counter_finished, finished, interrupt, closed>>

(* The destructors of t_nodes have joined every node: the call returns. *)
AllJoined == \A i \in Nodes : joined[i]

Terminated == AllJoined /\ UNCHANGED vars

NodeStep(i, j) ==
    \/ UpdateImproves(i, j)
    \/ UpdateRefused(i, j)
    \/ AckCounted(i, j)
    \/ AckCompletes(i, j)
    \/ AckLost(i, j)
    \/ i = Source /\ SourceAck(j)
    \/ AnswerToFinished(i, j)
    \/ Drain(i, j)

Next ==
    \/ CalculateShortestPaths
    \/ \E i, j \in Nodes : NodeStep(i, j)
    \/ \E i \in Nodes : Join(i)
    \/ Terminated

(* Every thread runs, and a queue hands its messages out in order, so that  *)
(* no connection is passed over for ever.                                   *)
Fairness ==
    /\ WF_vars(CalculateShortestPaths)
    /\ \A i, j \in Nodes : WF_vars(NodeStep(i, j))
    /\ \A i \in Nodes : WF_vars(Join(i))

Spec == Init /\ [][Next]_vars /\ Fairness

----------------------------------------------------------------------------
(* The distance to Source, by rounds over paths of growing length. *)
ShortestDistance ==
    LET D[n \in 0 .. Cardinality(Nodes)] ==
          IF n = 0 THEN [i \in Nodes |-> IF i = Source THEN 0 ELSE Infinity]
          ELSE LET before == D[n - 1]
               IN  [i \in Nodes |-> Min({before[i]} \cup
                      {before[j] + Weight[<<j, i>>] : j \in Neighbours(i)})]
    IN  D[Cardinality(Nodes)]

InFlight(e, type) == {k \in DOMAIN chan[e] : chan[e][k].type = type}

(* No node has anything to answer that could change an estimate. *)
Quiescent == /\ ~ request
             /\ \A i \in Nodes : ~ interrupt[i]
             /\ \A e \in Edges : InFlight(e, "update") = {}

(* The edge e offers its far end no shorter way. *)
Relaxed(e) == distance[e[2]] <= distance[e[1]] + Weight[e]

(* A ring: every node has two neighbours, and a path leads to Source from   *)
(* everywhere (no set of nodes without Source is closed).  There the acks   *)
(* do what they are for.                                                    *)
IsRing ==
    /\ \A i \in Nodes : Degree(i) = 2
    /\ \A S \in SUBSET Nodes :
          S # {} /\ (\A i \in S : Neighbours(i) \subseteq S) => Source \in S

(* The Bellman equations: no edge offers a shorter way, and every distance  *)
(* is the one through the parent.                                           *)
IsShortestPathTree ==
    /\ distance[Source] = 0
    /\ \A e \in Edges : Relaxed(e)
    /\ \A i \in Nodes \ {Source} : distance[i] < Infinity =>
          /\ parent[i] \in Neighbours(i)
          /\ distance[i] = distance[parent[i]] + Weight[<<parent[i], i>>]

(* Updates i has sent to k for which i still has to be credited an ack: on  *)
(* the way to k, in k's bookkeeping, or acknowledged and on the way back.   *)
Unacknowledged(i, k) ==
    Cardinality(InFlight(<<i, k>>, "update")) +
    Cardinality({n \in DOMAIN counter_acks[k] :
                    counter_acks[k][n].node_index = i}) +
    Cardinality(InFlight(<<k, i>>, "ack"))

----------------------------------------------------------------------------
(* Types.  The counter of an entry (an unsigned integer in the code) stays  *)
(* below the degree, and an entry with nothing left to wait for survives    *)
(* only at a node that had nobody else to ask.                              *)
CounterInRange(i, c) ==
    /\ c.node_index \in Neighbours(i)
    /\ c.counter < Degree(i)
    /\ c.counter = 0 => Degree(i) = 1

TypeOK ==
    /\ request \in BOOLEAN
    /\ state \in [Nodes -> {"sleeping", "awake"}]
    /\ distance \in [Nodes -> 0 .. Infinity]
    /\ parent \in [Nodes -> Nodes \cup {NoNode}]
    /\ counter_acks \in [Nodes -> Seq(Counter)]
    /\ \A i \in Nodes : \A k \in DOMAIN counter_acks[i] :
          CounterInRange(i, counter_acks[i][k])
    /\ counter_finishing \in Nat
    /\ counter_finished \in [Nodes -> Nat]
    /\ finished \in [Nodes -> BOOLEAN]
    /\ interrupt \in [Nodes -> BOOLEAN]
    /\ chan \in [Edges -> Seq(Message)]
    /\ closed \subseteq Edges
    /\ joined \in [Nodes -> BOOLEAN]

(* The parents lead down to Source at any moment, also while estimates are  *)
(* being corrected: main's walk along them (main.cpp:290) cannot go round   *)
(* in circles.  A parent may have improved since, hence the inequality.     *)
ParentsDescend ==
    /\ \A i \in Nodes : parent[i] # NoNode =>
          /\ <<parent[i], i>> \in Edges
          /\ distance[parent[i]] + Weight[<<parent[i], i>>] <= distance[i]
    /\ \A i \in Nodes \ {Source} : distance[i] < Infinity => parent[i] # NoNode
    /\ parent[Source] = NoNode

(* As soon as no update is under way the estimates are a shortest path      *)
(* tree: whatever tells the source that the computation is over only has to *)
(* tell it that.                                                            *)
QuiescentIsShortest == Quiescent => IsShortestPathTree

(* The invariant behind the shortest path tree.  An update in flight is     *)
(* never better than what its sender now has; and an edge whose far end     *)
(* could still be improved carries the update that will do it, unless the   *)
(* far end has left its loop.  The order in which answer_to_update assigns, *)
(* forwards and acknowledges (Node.cpp:187-220) is right only because of it.*)
UpdatesSound ==
    \A e \in Edges : \A k \in DOMAIN chan[e] :
        chan[e][k].type = "update" => chan[e][k].w >= distance[e[1]]

SourceAtZero == IF request THEN \A e \in Edges : chan[e] = <<>>
                           ELSE distance[Source] = 0

Informed(e) == \E k \in DOMAIN chan[e] :
                  chan[e][k].type = "update" /\ chan[e][k].w = distance[e[1]]

EdgesInformed == \A e \in Edges : interrupt[e[2]] \/ Relaxed(e) \/ Informed(e)

TreeInv == UpdatesSound /\ SourceAtZero /\ ParentsDescend /\ EdgesInformed

(* When the source leaves its loop and broadcasts finished (Node.cpp:260),  *)
(* every distance is the shortest one and the parents make a tree of it.    *)
FinishedIsCorrect ==
    interrupt[Source] => distance = ShortestDistance /\ IsShortestPathTree

(* Termination detection, the purpose of the acks: when the source leaves   *)
(* its loop nothing is left of the computation: no update, no ack, no debt. *)
StableWhenFinished ==
    interrupt[Source] =>
        /\ \A e \in Edges : InFlight(e, "update") = {} /\ InFlight(e, "ack") = {}
        /\ \A i \in Nodes : counter_acks[i] = <<>>

(* Nothing is written on a connection after finished, on which its reader   *)
(* closes the socket (Handler.cpp:73): no message meets a closed socket.    *)
NothingAfterFinished ==
    \A e \in Edges : /\ e \in closed => chan[e] = <<>>
                     /\ \A k \in InFlight(e, "finished") : k = Len(chan[e])

(* The source counts one ack per neighbour, each for its one update.        *)
SourceLedger ==
    ~ request =>
        counter_finishing + Cardinality({k \in Neighbours(Source) :
                                Unacknowledged(Source, k) = 1}) = Degree(Source)

(* What the comment on answer_to_ack (Node.cpp:223) asks for: an entry is   *)
(* kept as long as one of the neighbours asked for it has not acknowledged. *)
AckDebtCovered ==
    \A i \in Nodes \ {Source} : \A k \in Neighbours(i) :
        Unacknowledged(i, k) <=
            Cardinality({n \in DOMAIN counter_acks[i] :
                            counter_acks[i][n].node_index # k})

(* When a call returns nothing is left over for the next one: every node    *)
(* has left its loop, the connections are empty and closed, every debt paid.*)
CleanReturn ==
    AllJoined => /\ \A i \in Nodes : interrupt[i] /\ counter_acks[i] = <<>>
                 /\ closed = Edges
                 /\ \A e \in Edges : chan[e] = <<>>

(* Estimates only improve, and are frozen once the source has finished.     *)
EstimatesImprove ==
    [][ /\ \A i \in Nodes : distance'[i] <= distance[i]
        /\ interrupt[Source] => UNCHANGED estimates ]_vars

(* The call returns (main.cpp:262): every node thread ends and is joined.   *)
Termination == <>AllJoined

(* Whatever becomes of the acks, the estimates reach the distances for good.*)
Convergence == <>[](distance = ShortestDistance)
=============================================================================
