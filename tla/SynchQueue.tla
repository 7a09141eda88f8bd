----------------------------- MODULE SynchQueue -----------------------------
(***************************************************************************)
(* The message queue of one node (Synch_queue.cpp): a list, a mutex and a   *)
(* condition variable, with the three threads that use it.  main puts at    *)
(* most one message per call, the one that starts a protocol; the handler   *)
(* puts what it reads from the connections; the node gets.  A call ends     *)
(* with the erase of Node.cpp:334, which does not take the mutex.           *)
(***************************************************************************)
EXTENDS Integers, Sequences

CONSTANTS
    Messages,   \* what a message may say
    MaxReads,   \* bound: messages the handler reads in a call
    MaxCalls    \* bound: calls of the session

ASSUME BoundsAssumption == MaxReads \in Nat /\ MaxCalls \in Nat

Putters == {"main", "handler"}
Threads == Putters \cup {"node"}
NoThread == "nobody"
Item == [from : Putters, says : Messages]

VARIABLES
    mtx,        \* the thread that holds the mutex
    q,          \* the list
    pc,         \* where each thread is
    val,        \* the argument of a thread's put
    front,      \* what the node's get has copied from the list
    got,        \* history: what get has returned in this session
    reads,      \* messages read by the handler in this call
    calls       \* calls begun

vars == <<mtx, q, pc, val, front, got, reads, calls>>

Init ==
    /\ mtx = NoThread
    /\ q = <<>>
    /\ pc = [t \in Threads |-> "idle"]
    /\ \E m \in Item : val = [t \in Putters |-> m] /\ front = m
    /\ got = <<>>
    /\ reads = 0
    /\ calls = 1

----------------------------------------------------------------------------
At(t, s)       == pc[t] = s
Goes(t, s)     == pc' = [pc EXCEPT ![t] = s]
Takes(t)       == mtx = NoThread /\ mtx' = t
Releases(t)    == mtx = t /\ mtx' = NoThread

(* The threads come to the queue with a message. *)
CallPut(t, m) ==
    /\ t = "handler" => reads < MaxReads
    /\ At(t, "idle") /\ Goes(t, "lock")
    /\ val' = [val EXCEPT ![t] = [from |-> t, says |-> m]]
    /\ reads' = IF t = "handler" THEN reads + 1 ELSE reads
    /\ UNCHANGED <<mtx, q, front, got, calls>>

(* main has posted to another node; the handler has no connection left. *)
Leave(t) ==
    /\ At(t, "idle") /\ Goes(t, "gone")
    /\ UNCHANGED <<mtx, q, val, front, got, reads, calls>>

(* put: lock_guard, push_back, notify_one, and the end of the lock_guard. *)
PutLock(t) ==
    /\ At(t, "lock") /\ Goes(t, "push") /\ Takes(t)
    /\ UNCHANGED <<q, val, front, got, reads, calls>>

AtTheFront(t) == <<val[t]>> \o q
AtTheBack(t)  == Append(q, val[t])

PutPush(t) ==
    /\ At(t, "push") /\ Goes(t, "notify")
    /\ q' = AtTheBack(t)
    /\ UNCHANGED <<mtx, val, front, got, reads, calls>>

(* The waiting node, if there is one, is woken and goes for the mutex. *)
NobodyWoken(t) == [pc EXCEPT ![t] = "unlock"]
Woken(t) == [pc EXCEPT ![t] = "unlock",
                       !["node"] = IF @ = "waiting" THEN "relock" ELSE @]

PutNotify(t) ==
    /\ At(t, "notify")
    /\ pc' = Woken(t)
    /\ UNCHANGED <<mtx, q, val, front, got, reads, calls>>

PutUnlock(t) ==
    /\ At(t, "unlock") /\ Releases(t)
    /\ Goes(t, IF t = "main" THEN "gone" ELSE "idle")
    /\ UNCHANGED <<q, val, front, got, reads, calls>>

(* get: unique_lock, then wait, which tests, and gives up the mutex in the  *)
(* same step in which it begins to wait.                                    *)
GetLock ==
    /\ At("node", "idle") /\ Goes("node", "test") /\ Takes("node")
    /\ UNCHANGED <<q, val, front, got, reads, calls>>

GetTest ==
    /\ At("node", "test") /\ q # <<>>
    /\ Goes("node", "front")
    /\ UNCHANGED <<mtx, q, val, front, got, reads, calls>>

KeepsMutex    == mtx
WaitsWithout  == NoThread

GetWait ==
    /\ At("node", "test") /\ q = <<>>
    /\ Goes("node", "waiting")
    /\ mtx' = WaitsWithout
    /\ UNCHANGED <<q, val, front, got, reads, calls>>

(* A wait may also return without a notification. *)
SpuriousWakeup ==
    /\ At("node", "waiting") /\ Goes("node", "relock")
    /\ UNCHANGED <<mtx, q, val, front, got, reads, calls>>

(* Where wait goes when it has the mutex again: the predicate is tested.    *)
WithoutPredicate == "front"
WithPredicate    == "test"

GetRelock ==
    /\ At("node", "relock") /\ Goes("node", WithPredicate) /\ Takes("node")
    /\ UNCHANGED <<q, val, front, got, reads, calls>>

GetFront ==
    /\ At("node", "front") /\ Goes("node", "pop")
    /\ front' = q[1]
    /\ UNCHANGED <<mtx, q, val, got, reads, calls>>

GetPop ==
    /\ At("node", "pop") /\ Goes("node", "unlock")
    /\ q' = Tail(q)
    /\ got' = Append(got, front)
    /\ UNCHANGED <<mtx, val, front, reads, calls>>

GetUnlock ==
    /\ At("node", "unlock") /\ Releases("node")
    /\ Goes("node", "process")
    /\ UNCHANGED <<q, val, front, got, reads, calls>>

(* The node answers the message and comes back for the next one. *)
Process ==
    /\ At("node", "process") /\ Goes("node", "idle")
    /\ UNCHANGED <<mtx, q, val, front, got, reads, calls>>

(* Or the message was the last one it needed.  A protocol does not end      *)
(* before the message that starts it has been answered, so that main has    *)
(* put it by then, if this is the node it is for.                           *)
Interrupt ==
    /\ At("node", "process")
    /\ At("main", "gone") /\ \A k \in DOMAIN q : q[k].from # "main"
    /\ Goes("node", "joining")
    /\ UNCHANGED <<mtx, q, val, front, got, reads, calls>>

(* t.join(), and erase(), which empties the list in a step of its own. *)
Unjoined   == TRUE
HandlerEnd == At("handler", "gone")

Join ==
    /\ At("node", "joining") /\ HandlerEnd
    /\ Goes("node", "erase")
    /\ UNCHANGED <<mtx, q, val, front, got, reads, calls>>

LeftOver == q
Erased   == <<>>

Erase ==
    /\ At("node", "erase") /\ Goes("node", "gone")
    /\ q' = Erased
    /\ UNCHANGED <<mtx, val, front, got, reads, calls>>

(* main has joined the node; the next call of the session has new threads   *)
(* and the same queue.                                                      *)
NextCall ==
    /\ calls < MaxCalls
    /\ \A t \in Threads : At(t, "gone")
    /\ pc' = [t \in Threads |-> "idle"]
    /\ reads' = 0
    /\ calls' = calls + 1
    /\ UNCHANGED <<mtx, q, val, front, got>>

(* The session is over, or nobody has anything left to put and the node     *)
(* waits.  (That a protocol does not stop so is shown with the protocols.)  *)
AtRest ==
    /\ \A t \in Putters : At(t, "gone")
    /\ \/ At("node", "gone") /\ calls = MaxCalls
       \/ At("node", "waiting") /\ q = <<>>
    /\ UNCHANGED vars

PutStep(t) == PutLock(t) \/ PutPush(t) \/ PutNotify(t) \/ PutUnlock(t)

GetStep ==
    \/ GetLock \/ GetTest \/ GetWait \/ GetRelock \/ GetFront \/ GetPop
    \/ GetUnlock

NodeStep == GetStep \/ Process \/ Interrupt \/ Join \/ Erase

Next ==
    \/ \E t \in Putters, m \in Messages : CallPut(t, m)
    \/ \E t \in Putters : PutStep(t) \/ Leave(t)
    \/ NodeStep
    \/ SpuriousWakeup
    \/ NextCall
    \/ AtRest

(* The threads run.  A spurious wake-up cannot be relied on, and nobody has *)
(* to put a message.                                                        *)
Fairness ==
    /\ \A t \in Putters : WF_vars(PutStep(t)) /\ WF_vars(Leave(t))
    /\ WF_vars(NodeStep)

Spec == Init /\ [][Next]_vars /\ Fairness

----------------------------------------------------------------------------
(* Types; the mutex is held by exactly the thread that is in a critical     *)
(* section, so that no thread unlocks or keeps what is not its own.         *)
Critical(t) == IF t = "node" THEN pc[t] \in {"test", "front", "pop", "unlock"}
               ELSE pc[t] \in {"push", "notify", "unlock"}

TypeOK ==
    /\ q \in Seq(Item) /\ front \in Item /\ got \in Seq(Item)
    /\ val \in [Putters -> Item]
    /\ reads \in 0 .. MaxReads /\ calls \in Nat
    /\ mtx \in Threads \cup {NoThread}
    /\ pc \in [Threads -> {"idle", "lock", "push", "notify", "unlock", "gone",
                           "test", "waiting", "relock", "front", "pop",
                           "process", "joining", "erase"}]
    /\ \A t \in Threads : (mtx = t) <=> Critical(t)

(* No two threads are at the list at the same time.  For put and get the    *)
(* mutex sees to it; for erase, which takes no mutex (Synch_queue.hpp:33),  *)
(* only the order of Node.cpp:332-334 and the protocols do.                 *)
AtList(t) == IF t = "node" THEN pc[t] \in {"test", "front", "pop", "erase"}
             ELSE pc[t] = "push"

ListExclusive == \A t, u \in Threads : AtList(t) /\ AtList(u) => t = u

(* get takes the front only of a list that has one, also after a spurious   *)
(* wake-up, and pops what it has copied (Synch_queue.cpp:25-26).            *)
FrontExists ==
    /\ pc["node"] = "front" => q # <<>>
    /\ pc["node"] = "pop" => q # <<>> /\ front = q[1]

(* A call begins with an empty queue whatever the one before has left       *)
(* unread: no thread of a call gets a message of an earlier one.            *)
FreshQueue ==
    [][calls' # calls => q' = <<>>]_vars

(* The queue is a FIFO queue, step by step: what push_back puts at the tail *)
(* (Synch_queue.cpp:18) the node takes from the head after everything put   *)
(* before it, as Synch_queue.cpp:17-18 and Node.cpp:320-321 say.  Two other *)
(* comments do not hold: Synch_queue.hpp:21-23, which puts messages at the  *)
(* end and gets them from the end, and Handler.cpp:23-24, which puts them   *)
(* at the beginning; either would let a finished overtake an ack.           *)
Fifo == INSTANCE FifoQueue WITH content <- q

ImplementsFifo == Fifo!Spec

(* No wake-up is lost: the node does not go on waiting while there is a     *)
(* message for it (Synch_queue.cpp:24).                                     *)
NoLostWakeup == pc["node"] = "waiting" /\ q # <<>> ~> pc["node"] = "process"
=============================================================================
