# Banking system: a TLA+ verification development

The program (`src/source`) moves money between bank accounts.  Each account is
a node of a network.  A node is a thread with a message queue, a handler thread
that reads its TCP connections into that queue, and one outgoing connection to
each neighbour.  For each transaction the main thread runs two distributed
protocols one after the other:

1. *AsynchBellmanFord* finds, at every node, the shortest path to the receiving
   account's node.  Acks travel back to that node (the *source*), which must find
   out that the computation is over and then stops everybody with "finished".
2. *TransferAmount* sends the amount along the path.  The receiving node is
   credited, "finished" travels back, and the paying node is debited.

References such as `Node.cpp:238` are to files of `src/source`.

## Inventory

| Part | State | Operations | Correct when |
|---|---|---|---|
| AsynchBellmanFord (`Node.cpp:133-317`, `main.cpp:262-277`) | distance and parent per node and receiving account (`Shortest_paths`), `counter_acks`, `counter_finishing`, `finished`, `counter_finished`, `interrupt` | answers to calculate_shortest_paths, update, ack, finished; wake-up; end of the loop; join | the distances are the shortest, the parents a tree towards the source, the end is detected only when the computation is over, every thread ends, nothing is left for the next call |
| TransferAmount (`Node.cpp:69-132`, `280-317`, `main.cpp:279-319`) | main's walk, `transfering_account`, `amount_to_transfer`, `writers`, the accounts | walk and start of threads, post, answers to transfer_amount and finished, join | a call moves the amount once, from the one account to the other, never without cover, and returns |
| Accounts (`Account.hpp`) | an unsigned amount per node | `change_amount` | no wrap-around, the total is kept |
| Session (`main.cpp:46-259`, `321-334`) | the user, the questions, the paths already computed, the log, the output file | read the files, log in, ask, `transfer`, display, log, write the output file | the cover check holds at the debit; kept paths are right and lead to the receiver; accounts, log and file agree |
| Node runtime (`Node.cpp:322-341`) | the loop, the handler thread, `writers` | start the handler, get and answer, connect, join the handler, erase the queue, close | messages of one connection are answered in order; no connection ends before the protocol; a node waits for ever only when a connection was refused |
| Handler (`Handler.cpp`) | the acceptor, connections | listen, accept n connections, read, put, close after finished | it accepts each neighbour and nobody else; no message of the protocol is on a connection after its close |
| tcp_writer | a socket, a queue of writes | connect, send, close | what is sent on a connection that was made arrives once and in order; main takes no transfer for done when one was refused |
| Synch_queue | a list, a mutex, a condition variable | put, get, erase | FIFO, nobody else at the list, no front of an empty list, no lost wake-up, a call starts with an empty queue |
| Edge, Message, Synch_cout, File_ptr, split, to | data, conversions, output | | |

**Interaction.** main and the nodes share the queues (main posts one message per
protocol), the accounts and the paths.  Node objects are *copied* into threads,
so a call starts with fresh counters, while accounts, paths and queues live on
through pointers (`Node.hpp:51`).  Nodes talk through connections only: writer ->
socket -> handler -> queue -> node.  main waits for the threads in the destructor
of `guarded_thread`, that is, when the function that started them is left.

**What is hard here.** Connections are FIFO one by one, but a node sees any
interleaving of them: estimates are corrected several times, acks for different
updates mix, "finished" overtakes acks of other connections.  A node stops
answering when its own count is complete, whatever is still on the way.  There
is no timeout or retry anywhere, so one message that is not sent means that main
waits for ever.  Credit and debit happen in different threads at different
times.  There is no crash recovery: accounts are written once, at the end of the
session.  `hazards` in `PROJECT.json` lists each of these at its line.

## Modules

| Module | What it is |
|---|---|
| `AsynchBellmanFord` | the first protocol, with its properties |
| `AsynchBellmanFord_proofs` | theorems about its estimates |
| `AckLedger_proofs` | theorems about its acks: on any network, and the end of the computation on rings |
| `FiniteInduction` | induction and minimal elements without operator parameters, for the proof modules |
| `MCAsynchBellmanFord` | networks for TLC |
| `MCShippedNetwork` | the network main reads, `adj_matr12.txt`, under one order of the messages |
| `UnsignedAmount` | arithmetic of an unsigned integer of width `Modulus` |
| `AccountsLedger` | the abstract specification: a transfer is one step, all or nothing, with cover |
| `TransferAmount` | the second protocol and main's part in it; implements `AccountsLedger` |
| `TransferAmount_proofs` | its theorems, the refinement of the ledger among them |
| `MCTransferAmount` | the network and the shortest paths of `adj_matr4.txt` for TLC |
| `FifoQueue` | the abstract specification of a message queue |
| `SynchQueue`, `SynchQueue_proofs` | `Synch_queue` statement by statement with its three threads; implements `FifoQueue` |
| `NodeRuntime`, `NodeRuntime_proofs` | node thread, handler thread, queue and sockets under TransferAmount; implements `TransferAmount` (the second part of its proofs) |
| `MCNodeRuntime` | the same network for it |
| `BankingSession` | the main thread from the files to the output file, calculation and transfer as one step each; implements `AccountsLedger` |
| `BankingSession_proofs` | its theorems |
| `SessionCalculation`, `SessionCalculation_proofs` | the same session with every message of its calculations (`AsynchBellmanFord`); implements `BankingSession` |
| `MCSessionCalculation` | networks, users and accounts for it |

They stand on one another: `SynchQueue` implements a FIFO queue, which
`NodeRuntime` uses; `NodeRuntime` implements `TransferAmount`, which implements
`AccountsLedger`, whose step `BankingSession` takes; `SessionCalculation` puts
`AsynchBellmanFord` in the place of the calculation of `BankingSession`; and what `AsynchBellmanFord`
guarantees of the parents is what `TransferAmount` and `NodeRuntime` assume of them.

### AsynchBellmanFord

The variables are the members of `Node` under their own names, one function over
the nodes per member; `distance` and `parent` are the one column of
`Shortest_paths` a call is about.  `request` is main's message in the source's
queue; `chan[<<j, i>>]` holds what `j` has written for `i` and `i` has not
answered.  Reading a message from the connection at the moment it is answered
stands for the handler that reads it and the queue it waits in: both are FIFO for
one connection, and interleave several arbitrarily.  There are two moments at
which the handler is visible by itself, and both are modelled: it closes a
connection after a finished (`closed`), and it goes on reading when the node has
left its loop (`Drain`).  In the code the handler closes when it has read
the finished, here when the node answers it or drains it: a message
can follow a finished only if the protocol sends one, and `NothingAfterFinished` shows
that it does not.

| Action | Code |
|---|---|
| `CalculateShortestPaths` | `answer_to_calculate_shortest_paths` with `wakeup` |
| `UpdateImproves`, `UpdateRefused` | the two branches of `answer_to_update` |
| `AckCounted`, `AckCompletes`, `AckLost` | `answer_to_ack` at a node that is not the source: an entry counts down, an entry is complete and the neighbour it is for acknowledged, no entry takes the ack |
| `SourceAck` | `answer_to_ack` at the source |
| `AnswerToFinished` | `answer_to_finished` |
| `Drain`, `Join` | the end of `Node::operator()` |

Each is one step: a node answers one message at a time and shares nothing
with the other nodes but the connections.  A write is an append because
`tcp_writer::send` hands the message to the socket at once.

### TransferAmount

main is a process with a program counter `pc`: the questions (`Begin`), the walk
(`SpawnOnPath`, `SpawnLast`), `Post`, `Announce`, and `Return`, which is enabled
when all started threads have been joined.  The nodes run concurrently with it
from the moment they are spawned.  `Return` gives the variables of the threads
their initial values, since the next call runs on new copies; that nothing is
lost by this (no message is under way or in a queue) is the property `CleanReturn`.
`Distance` and `Parent` are constants: the paths that the first protocol has left
and that nothing changes any more.  What `PathsAssumption` asks of them is what
`ParentsDescend` of `AsynchBellmanFord` gives.

`opening` is a history variable.  The refinement mapping gives the ledger the
opening credits until the paying account is debited, and the credits after that:
`ImplementsLedger` then says that each call is one atomic transfer with cover,
although the code credits first and debits later.

### SynchQueue

Every statement of `put` and `get` is a step: the lock, `push_back`,
`notify_one`, the unlock; the test of the predicate, the wait that gives up the
mutex, the wake-up (notified or spurious), the lock after it, `front`, `pop_front`.
`erase` is the one step of `Node.cpp:334`, without the mutex.  The threads are those
the program has at a queue: main (at most one message per call), the handler, the
node.  What a message makes the node do is left open: it may go on or be finished
(`Interrupt`), but not before main's message, if this node is the one it is for, has been
taken, since a protocol does not end before the message that starts it is answered.
Two threads are never at `put` and `erase` together because `join` comes
first; the mutant `Unjoined` shows the race.

### NodeRuntime

`TransferAmount` takes a message from a connection when it is answered.  Here the
message is written on a socket (`stream`), read by the handler thread into the
`queue`, taken by the node (`GetTransfer`), kept (`answering`) while the node opens
its connections, and answered when all connects have a result (`io_service_.run()`
returns).  Threads start in any order; `Connect` finds the other handler listening
(`backlog`) or not (`refused`).

| Action | Code |
|---|---|
| `SpawnOnPath`, `SpawnLast`, `Post`, `Announce`, `Return` | `transfer_amount` and the joins at its end |
| `StartHandler` | the start of `Node::operator()` |
| `Listen`, `Accept`, `HandlerEnd` | the acceptor and the accept loop of `Handler.cpp`, the return of `run()` |
| `Read` | `do_read_header`, `do_read_body`: put, and close after a finished |
| `GetTransfer`, `Connect`, `SendOn`, `ReceivePayment` | `answer_to_transfer_amount`, with the constructor of `tcp_writer` |
| `AnswerToFinished` | `answer_to_finished` |
| `Join` | the end of `Node::operator()` |

A queue operation is one step: `SynchQueue` shows that it may be.  A write on
a refused connection fails without anybody noticing; here it is appended to a stream that nobody
reads.  A handler that saw the end of a connection instead of a finished would
close it; that is not an action, because `NoEarlyClose` shows that
it does not happen.  A port can always be bound (see `hazards`).

The refinement mapping puts together what `NodeRuntime` takes apart: the
channel of `TransferAmount` is what the node holds from the sender, then what is in the queue
from it, then the stream.  `ImplementsProtocol` holds with refused connections too: the
amount then stays on its connection for ever, which a safety property allows.
That such a call does not return is `ReturnsConnected`, and that every other one does
`ReturnsUnlessRefused`.

### BankingSession and SessionCalculation

main with a program counter: `ReadFiles`, `Login`, the three questions, `KeptPaths` or a
calculation, `Pay`, `Display`, the question whether to go on, `WriteOutput`.
The transfer is one step (`Pay`), the one `TransferAmount` is shown to implement.
Opening a file may fail, which nobody catches (`aborted`).  An answer that is not accepted is
asked for again and changes nothing: it is not an action.

The calculation is `StartCalculation` and `EndCalculation`, which fills the column of the receiving
account with one of the results `Calculated` allows.  On a ring (`IsRing`) that is a shortest path tree
to the receiving node, where nodes at `INFINITY` keep the parent -1.  On other networks
`Calculated` allows any distances and parents (with the distance 0 at the receiving node,
which the node has set itself): nothing is promised there, since the acks of the protocol go wrong (see
the findings).  `Shortest` is computed by rounds of relaxation, independently of the protocol.

In `SessionCalculation` the calculation is an instance of `AsynchBellmanFord` for each
receiving account (`BellmanFord(t)`), with all its messages, on the column of `paths` for that
account; its variables get fresh values at `Start`, as new copies of the nodes do.
`ImplementsSession` is the whole specification of `BankingSession`, with its fairness: seen by
main, a calculation ends and has filled the column rightly.

## Runs

| Run | Question | Bounds |
|---|---|---|
| `bf_ring` | does calculate_shortest_paths do all it is for? | ring of 5, weights such that one estimate is corrected by the way round |
| `bf_diamond` | are the distances right where nodes have 3 neighbours? | 4 nodes, a chord, every distance can come out too long first |
| `bf_leaf` | does it return when a node has one neighbour? **no** | ring of 3 and a leaf |
| `bf_shipped` | does the calculation return on the network main reads? **no** | `adj_matr12.txt`, one order of the messages |
| `bf_unstable` | is the computation over when the source says so? **no** | 4 nodes, all connected |
| `transfer_ring` | does a transaction move the money, once, and return? | the ring of `adj_matr4.txt`, two transactions between any accounts, paths of 2 to 4 nodes, amounts 0, 2, 3, amounts modulo 16 |
| `transfer_announced` | is the success main prints true? **no** | as `transfer_ring` |
| `synch_queue` | is the queue right, statement by statement? | 2 messages, 2 reads of the handler per call, 2 calls |
| `node_runtime` | do threads, handlers and sockets carry the protocol? | the ring of `adj_matr4.txt`, two transactions |
| `connect_race` | does every message written arrive? **no** | as `node_runtime`, one transaction |
| `session` | do the parts of main fit together over a session, and is the calculation the one step main takes it for? | the ring of `adj_matr4.txt`, two transactions, amounts 0 and 2, amounts modulo 32, one user with three accounts, one with one |
| `session_far` | does the walk always arrive? **no** | a triangle, `Infinity` 3, one transaction |

Ring and diamond are exhaustive: every interleaving of five (four) nodes and
ten connections.  A ring is the network in which every degree is 2: an ack of one
neighbour completes an entry for the other one, which waits for nobody else, so
the bookkeeping of acks cannot mix them up.  Five nodes let the two waves of updates
go round, meet and correct each other.  In the diamond two nodes have degree 3,
the least for which an ack can be credited wrongly.  In a
transfer the longest path of the ring has a paying node, two relays and a
receiving node, and a relay next to a relay; a longer path adds more relays of the
same kind.  Two transactions show that the second starts as the first did, with
the accounts of the first.  16 is above the total of the credits, which has to
fit the integer in the program too; a debit is a wrap-around
in every call.  In `synch_queue` handler and main can both be at `put` while the node
waits, tests or has just been woken, the queue has up to three messages, and a second call
finds what the first has left.  In `node_runtime` a path of four nodes has relays
that connect in both directions; every node may find either neighbour
listening or not.  In `session` the second transaction goes to the same account
(kept paths), to another one (a new calculation) or back, from any account of the
user; 32 is above the total of the credits.

`FinishedIsCorrect` is checked in `bf_diamond` only, where acks do go wrong; for rings it is
a theorem (`RingFinishesCorrect`).

`bf_shipped` explores one behaviour, chosen by `InOrder` (always the pending connection with the
lowest sender and reader).  It is a behaviour of the specification with its fairness, so that it
can refute a property but not confirm one.

**The network of the program.**  main reads `data12.txt` and `adj_matr12.txt` (`main.cpp:66`, `94`): twelve
nodes with five neighbours each, all weights 1.  Not everything here is about that network:

| Result | On `adj_matr12.txt` |
|---|---|
| `TypeOK`, `TreeInv`, `ParentsDescend`, `QuiescentIsShortest`, `NeverTooShort`, `QuiescentDistances`, `EstimatesNeverGrow`, `SourceLedger` | proved (any symmetric network) |
| the theorems about `SynchQueue`; `TransferAmount` and `NodeRuntime`, from shortest paths as `PathsAssumption` describes them | proved (any network) |
| `Termination` | **false**: `bf_shipped` |
| `AckDebtCovered` | **false**: in the same behaviour an ack is dropped (`AckLost`) although it answers an update of an open entry |
| `FinishedIsCorrect`, `StableWhenFinished` | open: proved for rings; the first is checked in `bf_diamond`, the second fails in `bf_unstable`, both on other networks |
| `NothingAfterFinished`, `CleanReturn`, `EstimatesImprove` of the calculation, and what `BankingSession` says of a calculation under `IsRing` | proved for rings only |

**Findings.**  Six runs end in a counterexample.

* `bf_leaf` (`Node.cpp:191`): a leaf enters a counter of 0 for its first update,
  sends the update on to nobody, so gets no ack, and never acknowledges its
  neighbour.  The source waits for ever.  (None of the networks in
  `bin/Test/Input/adj_matrices` has a leaf.)
* `bf_shipped` (`Node.cpp:238`): on the network main reads, the ack is credited to the first entry that is not
  *for* its sender, which need not be the one whose update it answers.  A node that has
  accepted two updates may complete the first entry with two acks of one neighbour; the ack of the
  neighbour the other entry is for then meets no entry and is dropped (`AckLost`), and that entry is never
  completed.  Here node 11 drops an ack of node 9, node 9 never acknowledges the source (node 3), and main
  waits for ever.  All distances are right by then (`QuiescentDistances`): only the detection of the end
  fails.  `bf_diamond` has such behaviours too, so it
  does not check for deadlock, and `Termination` is not claimed there.
* `bf_unstable` (`Node.cpp:263`): for the same reason the source can collect its
  acks while updates are still under way.  `FinishedIsCorrect` (the distances
  are right at that moment) holds on the networks checked, and is not claimed
  for other ones: nothing in the protocol but the acks would guarantee it.
* `transfer_announced` (`main.cpp:318`): the message is printed when the request
  is in the queue.  The program is not wrong about the accounts it displays
  afterwards: `ReturnMeansPaid` shows that it displays them when the threads have been joined.
* `connect_race` (`tcp_writer.cpp:29`): a node connects before its neighbour listens.  The
  refusal is printed and nothing else; the amount is written on a connection that does not
  exist, and main waits for ever.  `node_runtime` shows that this is all: no money moves wrongly
  and no call returns.  (Because of it `node_runtime` does not check for deadlock.)
* `session_far` (`main.cpp:299`, `Node.hpp:26`): a node `INFINITY` away or further is never reached,
  as an update has to offer less than `INFINITY` to be taken.  Its parent
  stays -1, and the walk reads the node of index -1.  No matrix of the
  repository has distances of that size.

One finding is shown by a run that passes.  `synch_queue` (`Synch_queue.cpp:25`): the comment of the class says that
messages are put at the end and got from the end (`Synch_queue.hpp:21-23`), the one of the handler that they are
put at the beginning (`Handler.cpp:23-24`); either would make the queue a stack.  The code appends at the tail
and takes the head, as `Synch_queue.cpp:17-18` and `Node.cpp:320-321` say, and `ImplementsFifo` holds.  The
protocols need that order: a stack would let a finished overtake the acks and updates before it.

**Properties.**  Types are `TypeOK`.  For AsynchBellmanFord: `ParentsDescend`,
`QuiescentIsShortest` (the estimates), `FinishedIsCorrect`, `StableWhenFinished`,
`SourceLedger`, `AckDebtCovered` (the acks), `NothingAfterFinished`, `CleanReturn` (the end),
`EstimatesImprove` (a step), `Termination`, `Convergence` (liveness).  For TransferAmount:
`PhaseInv`, `PaidInOrder`, `MoneyConserved`, `ImplementsLedger` (the money), `WalkIsSimple`,
`CleanReturn` (the threads), `ReturnMeansPaid` (a step), `CallReturns` (liveness).
For SynchQueue: `ListExclusive`, `FrontExists`, `FreshQueue`, `ImplementsFifo`,
`NoLostWakeup` (liveness).  For NodeRuntime: `AcceptsAllNeighbours`, `NoEarlyClose`,
`ReturnsConnected`, `ImplementsProtocol`, `ReturnsUnlessRefused` (liveness).  For BankingSession:
`KeptPathsAreRight`, `WalkArrives`, `CoverIsCurrent`, `LogExplainsAccounts`, `ImplementsSession`,
`TransactionCompletes` (liveness).  `TreeInv` and the `ImplementsLedger` of BankingSession are
theorems only.
Each is stated in words above its definition.  The modules contain variants of
some operators (`FirstTimeOnly` before `ToCorrect`, `AnyEntry` before
`Creditable`, ...): the code with a plausible mistake in it.  Nothing uses them;
put in the place of the operator they precede, they show that the
properties can fail (`mutants` in `PROJECT.json`).

**Fairness.**  Weak fairness of each node's step on each connection, of the
join and of the source's start: all are threads that wait for nothing but their
input, the queue and the sockets are FIFO, so no message is passed over for
ever.  For main weak fairness of the call it is in; `Begin` has none, as nobody has to
ask for a transaction.  In `NodeRuntime` weak fairness of each node, of each handler (listen, end),
and of each connection (connect, accept, read), which are the threads and what the
operating system does for them.  In `SynchQueue` the threads at the queue are weakly fair: a mutex
nobody keeps is got by whoever waits for it as long as others leave it free, which
is the case since each putter has finitely many messages.  Nothing obliges the handler to
put a message, and a spurious wake-up has no fairness.  In `BankingSession` main is fair between the last
question and the end of the transaction, in `SessionCalculation` so is every thread of the
calculation; the user's answers are not.

## Proofs

`AsynchBellmanFord_proofs` proves, for every finite network with symmetric
weights and every value of `Infinity` (`NetworkAssumption`, nothing else; in particular
the network need not be connected and leaves are allowed):

* `TypeCorrect`: `Spec => []TypeOK`.  The interesting conjunct is
  `CounterInRange`.  The code decrements an unsigned counter and only then compares it with
  0.  An entry at 0 exists only at a leaf; an ack there comes from the
  neighbour the entry is for, and so is not credited to it.
* `TreeInvariant`: `Spec => []TreeInv`, which is inductive together with `TypeOK`.
  `ParentsDescend` and `QuiescentIsShortest` alone are not inductive: an update that
  arrives may be refused, and nothing in them says that the node did not need it.
  `UpdatesSound` (an update never offers less than its sender now has) and
  `EdgesInformed` (an edge that is not relaxed carries the update that will relax
  it, unless its far end has stopped) say that.  The hard case is
  `ImproveTreeInv`: a node that improves through `j` tells everybody but `j`, and
  the edge back to `j` is relaxed because `j` is nearer by the weight.
* `ParentsAlwaysDescend` and `QuiescenceIsCorrect` follow.
* `NeverTooShort`: take any function of the nodes that is 0 at the source and grows along
  no edge by more than its weight (`IsLowerBound`); no distance, and no offer under way, is ever below it.
* `QuiescentDistances`: when nothing is under way and no node has stopped, the estimates
  *are* `ShortestDistance`, which the model computes with rounds of relaxation over the whole network.
  `TreeIsShortest` is the argument: a round never goes below distances whose edges are all
  relaxed, and after `n` rounds it has reached every node with at most `n` nodes nearer to the
  source, as the parent is one of the nearer nodes.
* `EstimatesNeverGrow`: no step makes an estimate worse, on any network.

The step lemmas follow the actions; `AnswerFacts` and `AnswerDelivers` say once what
a handler does to the connections, and `QuietHandler` covers all actions that leave
the estimates alone.

`AckLedger_proofs` counts acks, on any network.  What `i` owes or may still owe `k` (`Debt(i, k)`) is an
update of `k` on its way to `i`, an entry of `i` for `k`, or an ack on its way back.
`SourceLedgerBalanced` (`SourceLedger`): the debts to the source and the acks it has
counted always add up to its degree.  It holds everywhere because an ack credited to the wrong
entry still completes some entry, and an entry for the source is made by its one
update and nothing else.

The second part of `AckLedger_proofs` assumes `IsRing`: every node has two neighbours, and there is a way to the source from each.
Elsewhere the results are false: `bf_shipped` and `bf_unstable` are the counterexamples, with nodes of degree 5 and 3.
(Of the matrices in `bin/Test/Input/adj_matrices` `adj_matr4.txt` is a ring; the others, `adj_matr12.txt` of
`main.cpp:94` among them, have nodes of degree 3 or more, so for them these results are not proved.)  On a ring an ack from
one neighbour can only belong to an entry for the other, and each such entry waits for one ack, so
`RingInv` can say that the debts of a node to a neighbour are covered one by one by entries
of that neighbour for the next.

* `RingCoversDebts` (`AckDebtCovered`) is that invariant.
* `RingIsStable` (`StableWhenFinished`): when the source has all its acks, nothing is owed to it; a node that owed its
  neighbour something would be owed as much by the next one, and so on round the ring until the source. (The
  proof has no induction along the ring: a map of a finite set into itself that
  is injective is onto, so the source would be among those that are owed.)
* `RingEndsInOrder` (`NothingAfterFinished`), `RingReturnsClean` (`CleanReturn`),
  `RingFinishesCorrect` (`FinishedIsCorrect`), `RingImproves` (`EstimatesImprove`): once nothing is under way
  only finished is sent, once per connection (`EndInv`), the estimates are frozen
  (`FrozenInv`) and, by `QuiescentDistances`, right.

`TransferAmount_proofs` proves, for every set of nodes, any shortest paths as
`PathsAssumption` describes them, any credits, amounts and `Modulus`:

* `TypeCorrect` and `PhasesHold`: `TypeOK /\ PhaseInv` is inductive; neither is
  without the other.  `PhaseInv` divides a call into
  the walk (threads untouched), the way out (the amount on one connection of the path,
  ever nearer to the receiving node, nobody finished) and the way home (nothing
  but finished on the connections, the receiving account credited).
* `MoneyMovesInOrder` (`PaidInOrder`).  It needs the phases, since nothing in the credits says that a
  second transfer_amount or a second last finished cannot arrive, and the
  cover from the time of the question, which makes adding
  `amount * -1` a subtraction (`AmountFacts`).
* `WalkNeverReturns`, `ReturnsPaid`, and `LedgerImplemented`: the initial state
  maps to the ledger's, the paying node's last finished to `Transfer`, every other step to a
  stutter.
* `NoMoneyLost` (`MoneyConserved`): the credits and the amount that is under way add up to the total of the
  beginning, on the assumption that this total is below `Modulus`.  The assumption is needed
  (`change_amount` wraps without notice), and is one about the accounts file, whose credits have
  to sum up to less than an `unsigned long` holds; in the run the total is 10 and the modulus 16.
* `ReturnIsClean` (`CleanReturn`): `PathInv` says that the started nodes are a chain along the parents,
  each with its two neighbours; `WayInv` says of the way out that exactly the nodes behind the
  amount have opened their connections, and of the way home (`HomeInv`) that each connection
  of a node that has finished has its finished on it, or has been closed by it.  A node has left its
  loop when all its connections are closed; so when all have, all are.

`SynchQueue_proofs` proves, for any messages and bounds, `TypeCorrect`, `NoRaceOnTheList`,
`NeverEmptyAtFront`, `CallsStartFresh` and `FifoImplemented`.  `TypeOK` says who holds the mutex, and
the invariant adds what each thread knows where it is: that the list has a front when the node takes it, and the front the node has copied when it
pops; that main has gone when the node leaves its loop, and the handler when it
erases; that the list is empty when the node has gone.

`NodeRuntime_proofs` proves, for every set of nodes, any shortest paths as `PathsAssumption`
describes them and any number of calls, `TypeCorrect`, `EveryNeighbourAccepted`
(`AcceptsAllNeighbours`) and `ReturnIsConnected` (`ReturnsConnected`).  The
inductive invariant `IInv` says: main's walk goes down the distances, so that it starts
no node twice (`WalkInv`); nodes next to each other on the path have each other
among `adj_edges` (`PathInv`), so that an amount can only be under way from main or to the
sender's next node (`MessageInv`), so that connections are opened only between
neighbours (`LinkInv`); a handler has counted exactly those it has accepted.  Both
results are then a matter of counting: accepted neighbours are neighbours, and as many.
A refused connection belongs to a neighbour that is missing from that count, so
that the handler, the node and main's call do not end.

The second part of `NodeRuntime_proofs` proves, from the same assumptions, `ProtocolImplemented` (`ImplementsProtocol`) and
`NoEarlyClosing` (`NoEarlyClose`).  The mapping takes the messages of one sender (`From`, a recursive function: its
laws are proved by induction over sequences) that the reader holds or the stream still
has (`Underway`).  Reading a message and taking it from the queue then change nothing, and `SendOn`,
`ReceivePayment` and `AnswerToFinished` take the head of one connection, although the node takes
the head of a queue in which the connections are mixed.  `CarryInv` is what this needs of
the threads: the senders of the messages in each place, that a connection is closed when a finished
has been read from it, that a connecting node has exactly the connections of the message it
answers.  The last one is not inductive by itself: it says that a node that is paid has no connections
yet, which `TransferAmount` guarantees and the threads do not.  So the proof carries the
invariant of `TransferAmount` along, in the mapped state (`TA`): as long as all steps were steps of
`TransferAmount`, its invariants hold, and they show that the next step is one too.  With
them the end of a node says what is on its connections (`FinishedSent`), which is `NoEarlyClose`.

Together with `LedgerImplemented` this is the whole way down: threads, handlers, queues and sockets
do, for any shortest paths, what one atomic transfer with cover does.

`BankingSession_proofs` proves, for any accounts file, matrix, number of transactions and `Modulus`:

* `TypeCorrect`, with `Asked` (what main knows of the transaction it is in) as the inductive invariant.
* `AmountStaysCovered` (`CoverIsCurrent`): the copy of the credit taken at the first question is the credit
  still when it is debited, as nothing between touches the accounts.
* `LogIsComplete` (`LogExplainsAccounts`).  `Books` says it for every place of main; between the
  payment and its entry the accounts are explained by the log with that entry.  The step that
  counts is `PaymentIsExplained`: an amount sent to an account of the user leaves her sum
  as it is or one `Modulus` below, an amount sent to somebody else moves from the sum to what
  the log says has been sent, and a credited account stays its opening credit and what the log has
  sent it, modulo `Modulus` (`PlusIsModular`).  No bound on the credits is assumed.
* `LedgerImplemented` (`ImplementsLedger`): `Pay` is a `Transfer` of the ledger, by the cover.
* `KeptPathsStayRight` (`KeptPathsAreRight`), on rings: that later transactions leave the
  columns of earlier ones alone and that the test of one distance tells the calculated from the untouched.  That
  the calculation itself is right is in `Calculated`, for which `CalculationImplemented` (below) stands.
* `WalkAlwaysArrives` (`WalkArrives`), on rings whose distances are all below `Infinity` (`AllNear`; `session_far` shows
  that this is needed).  A node with `k` nearer nodes reaches the receiving node in at most `k` steps,
  since its parent is nearer (`WalkExists`), and the weights on the way add up to the difference
  of the distances (`WalkCost`).

`SessionCalculation_proofs` joins the two halves of the program: the calculation that `BankingSession` takes
in one step is what the nodes of `AsynchBellmanFord` do with their messages.  Its network is that of
`BankingSession` with symmetric weights and a zero diagonal (`CalculationAssumption`).

* `CalculationImplemented`: a behaviour with all messages, seen by main, starts as a session and
  takes its steps.  What main does in between is the same, a step inside a calculation does not
  show, and the column with which a calculation returns is in `Calculated`.
* `CalculatedPathsAreKept`: on a ring, the column that the messages have filled is a shortest path tree from
  then on, for all later transactions; before, nobody has touched it.  This is `KeptPathsAreRight` with
  nothing assumed of the calculation.

The theorems of `AckLedger_proofs` are about one constant `Source`, but the source of a calculation is
`index_to`, a variable.  So the module has a constant `Target`, any node, and follows the
calculations to it: `Call` is `AckLedger_proofs` with `Target` as the source.  `TargetInv`, the inductive invariant,
says that while such a calculation runs the invariant of the call holds
(`CallInv`, all that `AckLedger_proofs` knows, plus `ReachedInv`: a node with a parent has a distance
below `Infinity`), and that between them the column is as constructed until 0 has been put at
`Target`; that is why a calculation that is started finds the distances of `Init`.  `SameNext` takes the
steps of the calculation to those of `Call`, `ReturnedColumn` (in `AckLedger_proofs`) says what the column is when all
threads have been joined, and `CallShortest` that `ShortestDistance` there and `Shortest` here are the same
rounds.  The returns of calculations to other nodes are left open in
`CalculationImplemented` (`index_to \in Nodes \ {Target}`); as `Target` is any node, the theorem holds
for each of them, and together they say that every step is one of `Next`.

**Induction.**  The induction theorems of the library take an operator as a parameter, which the provers cannot
instantiate.  `FiniteInduction` and `SequenceInduction` (in `NodeRuntime_proofs`) state them for the *set* in which a formula holds,
from the least element of a set of naturals, which needs no parameter.

Only model-checked: liveness (`Termination`, `Convergence`, `CallReturns`, `NoLostWakeup`,
`ReturnsUnlessRefused`, `TransactionCompletes`; temporal proofs with
fairness are out of the prover's reach), and of `ImplementsSession` the fairness, that is, that a
calculation returns; its initial states and steps are `CalculationImplemented`.
`StableWhenFinished`, `AckDebtCovered`, `NothingAfterFinished`, `CleanReturn` and `FinishedIsCorrect` of
`AsynchBellmanFord` are proved for rings only; on other networks the first two are false, and
`FinishedIsCorrect` is checked on the diamond.

## Not modelled

* The text of messages, files and answers (`split`, `to`, the header of `Message`,
  reading lines in `File_ptr`): conversions, replaced by records of the fields.
* `Synch_cout`: output lines under a mutex under which nothing else is taken.
* The sockets below `async_connect`, `async_accept`, `async_read` and `async_write`: a
  connection is made or refused, and what is written on one that was made arrives in
  order.  `tcp_writer::send` removes a message from its own queue as soon as the write
  has been started; that it is written then is the library's doing (see
  `hazards`).
* A port that cannot be bound; addresses and ports are the index of the node.
* `NodeRuntime` is written for TransferAmount.  Under AsynchBellmanFord the same threads
  and sockets carry more kinds of messages, and every node connects to all its neighbours
  in `wakeup`; a connection refused there has the same effect (the call does not return).  `Termination`
  and `TransactionCompletes` therefore hold for calls in which no connection is refused.  The state space of
  that composition is out of reach, and `AsynchBellmanFord` takes the connections to be up.
* `Node::operator()` of the relays reads the column -1 of its paths at the end
  (`Node.cpp:308`); nothing is done with what is read.
* Crashes and restarts: accounts are only written at the end of a session, and
  nothing is read back.
* Build files and generated files.

## What is left

Whether `FinishedIsCorrect` holds on every network of degree 2 or
more is open, and with it whether it holds on `adj_matr12.txt`: acks that go wrong do not protect it, and no
network tried refutes it.
