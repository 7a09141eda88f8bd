--------------------------- MODULE TransferAmount ---------------------------
(***************************************************************************)
(* The TransferAmount protocol of Node.cpp and the part of main.cpp that    *)
(* runs it: main checks the credit, walks along the parents that            *)
(* AsynchBellmanFord has left, starts a thread for every node on the way,   *)
(* posts the amount to the paying node, announces success and joins.  The   *)
(* amount travels to the receiving node, which is credited; "finished"      *)
(* travels back, and the paying node is debited.                            *)
(*                                                                          *)
(* As in AsynchBellmanFord a message is taken straight from its connection, *)
(* and a connection that is opened is up.                                   *)
(***************************************************************************)
EXTENDS UnsignedAmount, Sequences, FiniteSets, FiniteSetsExt

CONSTANTS
    Nodes,          \* indices of the nodes, each with its account
    NoNode,         \* the index -1
    Distance,       \* Distance[t][i], Parent[t][i]: the shortest path from i
    Parent,         \*   to t, as kept by node i
    InitialCredit,  \* credits read from the accounts file
    Amounts,        \* amounts the user may ask for
    MaxCalls        \* bound: transactions of a session

ASSUME PathsAssumption ==
    /\ IsFiniteSet(Nodes) /\ NoNode \notin Nodes
    /\ Distance \in [Nodes -> [Nodes -> Nat]]
    /\ Parent \in [Nodes -> [Nodes -> Nodes \cup {NoNode}]]
    /\ \A t \in Nodes : /\ Parent[t][t] = NoNode
                        /\ \A i \in Nodes \ {t} :
                              /\ Parent[t][i] \in Nodes
                              /\ Distance[t][Parent[t][i]] < Distance[t][i]
    /\ InitialCredit \in [Nodes -> Amount]
    /\ Amounts \subseteq Amount
    /\ MaxCalls \in Nat

Links == Nodes \X Nodes

Transfer(a) == [type |-> "transfer_amount", amount |-> a]
Finished    == [type |-> "finished"]
Message     == [type : {"transfer_amount"}, amount : Amounts] \cup {Finished}

VARIABLES
    calls,              \* transactions done
    pc,                 \* where main is in transfer_amount
    call,               \* its arguments
    previous, current, following,   \* main's walk
    announced,          \* main has printed that the transaction is complete
    posted,             \* main's message is in the paying node's queue
    credit,             \* the accounts
    opening,            \* history: the credits when the call began
    spawned,            \* nodes whose thread has been started
    adj_edges,          \* their neighbours on the path
    writers,            \* connections they have opened
    transfering_account,
    finished, counter_finished, interrupt,
    chan, closed, joined

walk    == <<previous, current, following>>
main    == <<calls, pc, call, walk, announced, opening, spawned, adj_edges>>
threads == <<posted, credit, writers, transfering_account, finished,
             counter_finished, interrupt, chan, closed, joined>>
vars == <<main, threads>>

(* The copies of the nodes a call runs on are new. *)
Nobody == [i \in Nodes |-> {}]
Never  == [i \in Nodes |-> FALSE]
Zero   == [i \in Nodes |-> 0]
Silent == [e \in Links |-> <<>>]

Init ==
    /\ calls = 0
    /\ pc = "session"
    /\ call = [from |-> NoNode, to |-> NoNode, amount |-> 0]
    /\ previous = NoNode /\ current = NoNode /\ following = NoNode
    /\ announced = FALSE
    /\ posted = FALSE
    /\ credit = InitialCredit
    /\ opening = InitialCredit
    /\ spawned = {} /\ adj_edges = Nobody /\ writers = Nobody
    /\ transfering_account = Never /\ finished = Never /\ interrupt = Never
    /\ counter_finished = Zero
    /\ chan = Silent /\ closed = {} /\ joined = Never

----------------------------------------------------------------------------
(* The main thread. *)

(* The questions of the session: the amount has to be below the credit of   *)
(* the paying account and the receiving account has to be another one.      *)
CoveredByAll(f, a) == a <= credit[f]
Covered(f, a)      == a < credit[f]

Begin(f, t, a) ==
    /\ pc = "session" /\ calls < MaxCalls
    /\ f # t /\ Covered(f, a)
    /\ pc' = "walk"
    /\ call' = [from |-> f, to |-> t, amount |-> a]
    /\ previous' = NoNode /\ current' = f /\ following' = Parent[t][f]
    /\ announced' = FALSE
    /\ opening' = credit
    /\ UNCHANGED <<calls, spawned, adj_edges, threads>>

(* A thread for the current node, which knows the two nodes next to it. *)
Spawn ==
    /\ spawned' = spawned \cup {current}
    /\ adj_edges' = [adj_edges EXCEPT ![current] = {previous, following} \ {NoNode}]

(* What get_parent_index returns for the receiving account. *)
WrongColumn(i) == Parent[call.from][i]
NextNode(i)    == Parent[call.to][i]

(* The loop goes on until the receiving node is the current one. *)
SpawnOnPath ==
    /\ pc = "walk"
    /\ Spawn
    /\ previous' = current
    /\ current' = following
    /\ following' = NextNode(following)
    /\ pc' = IF following = call.to THEN "last" ELSE "walk"
    /\ UNCHANGED <<calls, call, announced, opening, threads>>

SpawnLast ==
    /\ pc = "last"
    /\ Spawn
    /\ pc' = "post"
    /\ UNCHANGED <<calls, call, walk, announced, opening, threads>>

Post ==
    /\ pc = "post"
    /\ posted' = TRUE
    /\ pc' = "announce"
    /\ UNCHANGED <<calls, call, walk, announced, opening, spawned, adj_edges,
                   credit, writers, transfering_account, finished,
                   counter_finished, interrupt, chan, closed, joined>>

Announce ==
    /\ pc = "announce"
    /\ announced' = TRUE
    /\ pc' = "join"
    /\ UNCHANGED <<calls, call, walk, opening, spawned, adj_edges, threads>>

(* Leaving transfer_amount destroys the threads, which joins them. *)
NotAwaited == TRUE
AllJoined  == \A i \in spawned : joined[i]

Return ==
    /\ pc = "join" /\ AllJoined
    /\ pc' = "session"
    /\ calls' = calls + 1
    /\ spawned' = {} /\ adj_edges' = Nobody /\ writers' = Nobody
    /\ transfering_account' = Never /\ finished' = Never /\ interrupt' = Never
    /\ counter_finished' = Zero
    /\ chan' = Silent /\ closed' = {} /\ joined' = Never
    /\ UNCHANGED <<call, walk, announced, opening, posted, credit>>

----------------------------------------------------------------------------
(* The node threads. *)

Receives(i, j, type) ==
    /\ <<j, i>> \in Links \ closed
    /\ i \in spawned /\ ~ interrupt[i]
    /\ chan[<<j, i>>] # <<>>
    /\ Head(chan[<<j, i>>]).type = type

(* i takes the head of the connection from j and writes m to the nodes S. *)
Answer(i, j, S, m) ==
    chan' = [e \in Links |->
                IF e = <<j, i>> THEN Tail(chan[e])
                ELSE IF e[1] = i /\ e[2] \in S THEN Append(chan[e], m)
                ELSE chan[e]]

(* answer_to_transfer_amount in the paying node, from the main thread. *)
StartTransfer(i) ==
    /\ posted /\ i = call.from /\ i \in spawned /\ ~ interrupt[i]
    /\ posted' = FALSE
    /\ transfering_account' = [transfering_account EXCEPT ![i] = TRUE]
    /\ writers' = [writers EXCEPT ![i] = @ \cup {NextNode(i)}]
    /\ chan' = [chan EXCEPT ![<<i, NextNode(i)>>] = Append(@, Transfer(call.amount))]
    /\ UNCHANGED <<main, credit, finished, counter_finished, interrupt, closed,
                   joined>>

(* answer_to_transfer_amount in a node on the way. *)
RelayTransfer(i, j) ==
    /\ Receives(i, j, "transfer_amount")
    /\ NextNode(i) # NoNode
    /\ writers' = [writers EXCEPT ![i] = @ \cup {j, NextNode(i)}]
    /\ Answer(i, j, {NextNode(i)}, Head(chan[<<j, i>>]))
    /\ UNCHANGED <<main, posted, credit, transfering_account, finished,
                   counter_finished, interrupt, closed, joined>>

(* answer_to_transfer_amount in the receiving node. *)
ReceivePayment(i, j) ==
    /\ Receives(i, j, "transfer_amount")
    /\ NextNode(i) = NoNode
    /\ writers' = [writers EXCEPT ![i] = @ \cup {j}]
    /\ credit' = [credit EXCEPT ![i] = Plus(@, Head(chan[<<j, i>>]).amount)]
    /\ Answer(i, j, writers'[i], Finished)
    /\ finished' = [finished EXCEPT ![i] = TRUE]
    /\ UNCHANGED <<main, posted, transfering_account, counter_finished,
                   interrupt, closed, joined>>

(* The connections a finished is relayed on: all, the first time. *)
EveryTime(i) == writers[i]
NoRelay(i)   == {}
RelayTo(i)   == IF finished[i] THEN {} ELSE writers[i]

(* What a node does when it has collected its last finished. *)
NeverDebited(i) == credit[i]
AlwaysDebited(i) == Plus(credit[i], Minus(call.amount))
Settled(i) == IF transfering_account[i] THEN Plus(credit[i], Minus(call.amount))
              ELSE credit[i]

(* answer_to_finished *)
AnswerToFinished(i, j) ==
    LET all == counter_finished[i] + 1 = Cardinality(writers[i])
    IN  /\ Receives(i, j, "finished")
        /\ Answer(i, j, RelayTo(i), Finished)
        /\ finished' = [finished EXCEPT ![i] = TRUE]
        /\ counter_finished' = [counter_finished EXCEPT ![i] = @ + 1]
        /\ interrupt' = [interrupt EXCEPT ![i] = all]
        /\ credit' = [credit EXCEPT ![i] = IF all THEN Settled(i) ELSE @]
        /\ closed' = closed \cup {<<j, i>>}
        /\ UNCHANGED <<main, posted, writers, transfering_account, joined>>

(* t.join() returns when the handler has no connection left. *)
HandlerDone(i) == \A j \in adj_edges[i] : <<j, i>> \in closed

Join(i) ==
    /\ i \in spawned /\ interrupt[i] /\ ~ joined[i]
    /\ HandlerDone(i)
    /\ joined' = [joined EXCEPT ![i] = TRUE]
    /\ UNCHANGED <<main, posted, credit, writers, transfering_account, finished,
                   counter_finished, interrupt, chan, closed>>

NodeStep(i, j) ==
    \/ RelayTransfer(i, j)
    \/ ReceivePayment(i, j)
    \/ AnswerToFinished(i, j)

CallStep == SpawnOnPath \/ SpawnLast \/ Post \/ Announce \/ Return

Next ==
    \/ \E f, t \in Nodes, a \in Amounts : Begin(f, t, a)
    \/ CallStep
    \/ \E i \in Nodes : StartTransfer(i) \/ Join(i)
    \/ \E i, j \in Nodes : NodeStep(i, j)
    \/ pc = "session" /\ UNCHANGED vars

(* Main goes on once it has been asked for a transaction, and every thread  *)
(* and every connection is served; nobody has to ask for a transaction.     *)
Fairness ==
    /\ WF_vars(CallStep)
    /\ \A i \in Nodes : WF_vars(StartTransfer(i)) /\ WF_vars(Join(i))
    /\ \A i, j \in Nodes : WF_vars(NodeStep(i, j))

Spec == Init /\ [][Next]_vars /\ Fairness

----------------------------------------------------------------------------
Credited == finished[call.to]
Debited  == interrupt[call.from]
Running  == pc # "session"

Total(c) == FoldFunction(LAMBDA x, y : x + y, 0, c)

(* The accounts as the owners may rely on them: a running call counts once  *)
(* the paying account has been debited.                                     *)
settled == IF Running /\ ~ Debited THEN opening ELSE credit

Ledger == INSTANCE AccountsLedger WITH Accounts <- Nodes, credit <- settled

(* Types: the credits stay in the range of an unsigned long, and everything *)
(* a call uses is in its initial state between calls.                       *)
TypeOK ==
    /\ calls \in 0 .. MaxCalls
    /\ pc \in {"session", "walk", "last", "post", "announce", "join"}
    /\ Running => /\ call \in [from : Nodes, to : Nodes, amount : Amounts]
                  /\ call.from # call.to
    /\ previous \in Nodes \cup {NoNode}
    /\ current \in Nodes \cup {NoNode}
    /\ following \in Nodes \cup {NoNode}
    /\ announced \in BOOLEAN /\ posted \in BOOLEAN
    /\ credit \in [Nodes -> Amount] /\ opening \in [Nodes -> Amount]
    /\ spawned \subseteq Nodes
    /\ adj_edges \in [Nodes -> SUBSET Nodes]
    /\ writers \in [Nodes -> SUBSET Nodes]
    /\ transfering_account \in [Nodes -> BOOLEAN]
    /\ finished \in [Nodes -> BOOLEAN]
    /\ counter_finished \in [Nodes -> Nat]
    /\ interrupt \in [Nodes -> BOOLEAN]
    /\ chan \in [Links -> Seq(Message)]
    /\ closed \subseteq Links
    /\ joined \in [Nodes -> BOOLEAN]
    /\ ~ Running => /\ spawned = {} /\ ~ posted
                    /\ finished = Never /\ interrupt = Never /\ joined = Never

(* The invariant behind the payment.  Main's walk comes closer to the       *)
(* receiving node with every thread it starts.  The threads are as they were *)
(* constructed until the paying node starts the transfer; then the amount is *)
(* on one connection of the path, and nowhere else; and when it has come in  *)
(* there is nothing but finished on the connections.  Only the paying node   *)
(* is marked to be debited (Node.cpp:305), and it waits for one finished.    *)
Untouched == /\ writers = Nobody /\ transfering_account = Never
             /\ finished = Never /\ interrupt = Never
             /\ counter_finished = Zero /\ chan = Silent

Started == pc \in {"announce", "join"} /\ ~ posted

(* j has sent the amount on and the next node has not taken it yet. *)
SentBy(j) ==
    /\ chan = [Silent EXCEPT ![<<j, NextNode(j)>>] = <<Transfer(call.amount)>>]
    /\ Distance[call.to][j] <= Distance[call.to][call.from]

Outward == /\ finished = Never /\ interrupt = Never /\ counter_finished = Zero
           /\ \E j \in Nodes \ {call.to} : SentBy(j)

Homeward == /\ Credited
            /\ ~ Debited => counter_finished[call.from] = 0
            /\ \A e \in Links : \A k \in DOMAIN chan[e] : chan[e][k] = Finished

WalkInv ==
    /\ pc = "walk" => /\ current \in Nodes \ {call.to}
                      /\ following = NextNode(current)
                      /\ current = call.from \/ call.from \in spawned
    /\ pc = "last" => current = call.to
    /\ pc \in {"walk", "last"} =>
          \A i \in spawned : Distance[call.to][current] < Distance[call.to][i]
    /\ pc \in {"last", "post", "announce", "join"} => call.from \in spawned

PhaseInv ==
    /\ WalkInv
    /\ Running => call.amount < opening[call.from] /\ calls < MaxCalls
    /\ posted => pc \in {"announce", "join"}
    /\ ~ Started => Untouched
    /\ Started => /\ transfering_account = [i \in Nodes |-> i = call.from]
                  /\ writers[call.from] = {NextNode(call.from)}
                  /\ Outward \/ Homeward
    /\ \A i \in Nodes : joined[i] => interrupt[i]

(* During a call no account but the two changes; the receiving one is       *)
(* credited first, once, with the amount (Node.cpp:102), and the paying one *)
(* debited afterwards, once, without wrapping below zero (Node.cpp:306).    *)
PaidInOrder ==
    Running =>
        /\ Debited => Credited
        /\ credit = IF Debited
                    THEN Ledger!Paid(opening, call.from, call.to, call.amount)
                    ELSE IF Credited
                    THEN [opening EXCEPT ![call.to] = Plus(@, call.amount)]
                    ELSE opening

(* No money is lost: between calls the total is that of the accounts file,  *)
(* and while the amount is on its way back the total exceeds it by that.    *)
(* (The total has to fit an unsigned long.)                                 *)
MoneyConserved ==
    Total(credit) = Total(InitialCredit) +
        (IF Running /\ Credited /\ ~ Debited THEN call.amount ELSE 0)

(* Main's walk along the parents starts no node twice: two threads would    *)
(* listen on one port and share one queue (main.cpp:290).                   *)
WalkIsSimple == pc \in {"walk", "last"} => current \notin spawned

(* When the threads are joined every connection a handler waited for has    *)
(* been opened by the node at its other end, emptied and closed, and no     *)
(* message is left in a queue for the next call.                            *)
CleanReturn ==
    pc = "join" /\ AllJoined =>
        /\ \A i \in spawned : /\ writers[i] = adj_edges[i]
                              /\ \A j \in adj_edges[i] : i \in adj_edges[j]
        /\ closed = {e \in Links : e[2] \in adj_edges[e[1]]}
        /\ \A e \in Links : chan[e] = <<>>
        /\ ~ posted

(* transfer_amount returns to the session, which displays the accounts      *)
(* (main.cpp:215), only when the money has moved.                           *)
ReturnMeansPaid ==
    [][ Running /\ pc' = "session" =>
          credit = Ledger!Paid(opening, call.from, call.to, call.amount) ]_vars

(* A call is a transfer of the ledger: nothing, or all of it, in one step.  *)
ImplementsLedger == Ledger!Spec

(* Every call returns. *)
CallReturns == Running ~> ~ Running

(* "The transaction has been completed successfully" (main.cpp:318) is what *)
(* main tells the user: the money has moved when it is said.                *)
SuccessIsTrue == Running /\ announced => Credited /\ Debited
=============================================================================
