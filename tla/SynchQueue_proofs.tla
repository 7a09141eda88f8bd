-------------------------- MODULE SynchQueue_proofs --------------------------
(***************************************************************************)
(* Theorems about SynchQueue, for any messages and any number of reads and  *)
(* calls.                                                                   *)
(***************************************************************************)
EXTENDS SynchQueue, TLAPS

(* What the mutex does not say: when the node is past its loop main has     *)
(* gone, when it is past the join the handler has, and what it leaves is an *)
(* empty list.                                                              *)
Ending ==
    /\ pc["node"] \in {"joining", "erase", "gone"} => pc["main"] = "gone"
    /\ pc["node"] \in {"erase", "gone"} => pc["handler"] = "gone"
    /\ pc["node"] = "gone" => q = <<>>

IInv == TypeOK /\ FrontExists /\ Ending

(* The threads are three. *)
LEMMA ThreadFacts ==
    /\ Putters = {"main", "handler"}
    /\ Threads = {"main", "handler", "node"}
    /\ NoThread \notin Threads
  BY DEF Putters, Threads, NoThread

(* The initial state satisfies the invariant. *)
LEMMA InitIInv == Init => IInv
  <1> SUFFICES ASSUME Init PROVE IInv
    OBVIOUS
  <1>1. PICK m \in Item : val = [t \in Putters |-> m] /\ front = m
    BY DEF Init
  <1>2. TypeOK
    BY <1>1, BoundsAssumption, ThreadFacts DEF Init, TypeOK, Critical
  <1>3. FrontExists /\ Ending
    BY ThreadFacts DEF Init, FrontExists, Ending
  <1> QED
    BY <1>2, <1>3 DEF IInv

(* The steps of put keep the invariant: the node is not at the list while   *)
(* another thread has the mutex.                                            *)
LEMMA PutKeepsIInv ==
    ASSUME IInv, NEW t \in Putters, PutStep(t)
    PROVE  IInv'
  <1> USE ThreadFacts DEF IInv, TypeOK, Critical, FrontExists, Ending, At, Goes,
          Takes, Releases
  <1>1. CASE PutLock(t)
    BY <1>1 DEF PutLock
  <1>2. CASE PutPush(t)
    <2>1. q' \in Seq(Item)
      BY <1>2 DEF PutPush, AtTheBack
    <2>2. mtx = t /\ pc["node"] \notin {"front", "pop", "gone"}
      BY <1>2 DEF PutPush
    <2> QED
      BY <1>2, <2>1, <2>2 DEF PutPush
  <1>3. CASE PutNotify(t)
    BY <1>3 DEF PutNotify, Woken
  <1>4. CASE PutUnlock(t)
    BY <1>4 DEF PutUnlock
  <1> QED
    BY <1>1, <1>2, <1>3, <1>4 DEF PutStep

(* The steps of get keep the invariant. *)
LEMMA GetKeepsIInv ==
    ASSUME IInv, GetStep
    PROVE  IInv'
  <1> USE ThreadFacts DEF IInv, TypeOK, Critical, FrontExists, Ending, At, Goes,
          Takes, Releases
  <1>1. CASE GetLock
    BY <1>1 DEF GetLock
  <1>2. CASE GetTest
    BY <1>2 DEF GetTest
  <1>3. CASE GetWait
    BY <1>3 DEF GetWait, WaitsWithout
  <1>4. CASE GetRelock
    BY <1>4 DEF GetRelock, WithPredicate
  <1>5. CASE GetFront
    <2>1. q[1] \in Item
      BY <1>5 DEF GetFront
    <2> QED
      BY <1>5, <2>1 DEF GetFront
  <1>6. CASE GetPop
    <2>1. q' \in Seq(Item) /\ got' \in Seq(Item)
      BY <1>6 DEF GetPop
    <2> QED
      BY <1>6, <2>1 DEF GetPop
  <1>7. CASE GetUnlock
    BY <1>7 DEF GetUnlock
  <1> QED
    BY <1>1, <1>2, <1>3, <1>4, <1>5, <1>6, <1>7 DEF GetStep

(* Every step keeps the invariant. *)
LEMMA NextKeepsIInv == IInv /\ [Next]_vars => IInv'
  <1> SUFFICES ASSUME IInv, [Next]_vars PROVE IInv'
    OBVIOUS
  <1> USE ThreadFacts DEF At, Goes
  <1>1. ASSUME NEW t \in Putters, NEW m \in Messages, CallPut(t, m) PROVE IInv'
    <2>1. [from |-> t, says |-> m] \in Item
      BY DEF Item
    <2>2. reads' \in 0 .. MaxReads
      BY <1>1, BoundsAssumption DEF CallPut, IInv, TypeOK
    <2> QED
      BY <1>1, <2>1, <2>2
      DEF CallPut, IInv, TypeOK, Critical, FrontExists, Ending
  <1>2. ASSUME NEW t \in Putters, PutStep(t) PROVE IInv'
    BY <1>2, PutKeepsIInv
  <1>3. ASSUME NEW t \in Putters, Leave(t) PROVE IInv'
    BY <1>3 DEF Leave, IInv, TypeOK, Critical, FrontExists, Ending
  <1>4. CASE GetStep
    BY <1>4, GetKeepsIInv
  <1>5. CASE Process
    BY <1>5 DEF Process, IInv, TypeOK, Critical, FrontExists, Ending
  <1>6. CASE Interrupt
    BY <1>6 DEF Interrupt, IInv, TypeOK, Critical, FrontExists, Ending
  <1>7. CASE Join
    BY <1>7 DEF Join, HandlerEnd, IInv, TypeOK, Critical, FrontExists, Ending
  <1>8. CASE Erase
    BY <1>8 DEF Erase, Erased, IInv, TypeOK, Critical, FrontExists, Ending
  <1>9. CASE SpuriousWakeup
    BY <1>9 DEF SpuriousWakeup, IInv, TypeOK, Critical, FrontExists, Ending
  <1>10. CASE NextCall
    BY <1>10, BoundsAssumption
    DEF NextCall, IInv, TypeOK, Critical, FrontExists, Ending
  <1>11. CASE UNCHANGED vars
    BY <1>11 DEF vars, IInv, TypeOK, Critical, FrontExists, Ending
  <1> QED
    BY <1>1, <1>2, <1>3, <1>4, <1>5, <1>6, <1>7, <1>8, <1>9, <1>10, <1>11
    DEF Next, NodeStep, AtRest

(* The types, and the mutex is held by the thread in its critical section   *)
(* (Synch_queue.cpp:17, 23).                                                *)
THEOREM TypeCorrect == Spec => []TypeOK
  <1>1. IInv => TypeOK
    BY DEF IInv
  <1> QED
    BY <1>1, InitIInv, NextKeepsIInv, PTL DEF Spec

(* The list is never accessed by two threads at once, although erase takes  *)
(* no mutex.                                                                *)
THEOREM NoRaceOnTheList == Spec => []ListExclusive
  <1>1. IInv => ListExclusive
    BY ThreadFacts DEF IInv, TypeOK, Critical, Ending, ListExclusive, AtList
  <1> QED
    BY <1>1, InitIInv, NextKeepsIInv, PTL DEF Spec

(* front and pop_front meet a list that is not empty. *)
THEOREM NeverEmptyAtFront == Spec => []FrontExists
  <1>1. IInv => FrontExists
    BY DEF IInv
  <1> QED
    BY <1>1, InitIInv, NextKeepsIInv, PTL DEF Spec

(* A call of the session finds the queue empty. *)
THEOREM CallsStartFresh == Spec => FreshQueue
  <1>1. IInv /\ [Next]_vars => (calls' # calls => q' = <<>>)
    <2> SUFFICES ASSUME IInv, [Next]_vars, calls' # calls PROVE q' = <<>>
      OBVIOUS
    <2>1. NextCall
      BY DEF Next, vars, CallPut, PutStep, PutLock, PutPush, PutNotify,
             PutUnlock, Leave, NodeStep, GetStep, GetLock, GetTest, GetWait,
             GetRelock, GetFront, GetPop, GetUnlock, Process, Interrupt, Join,
             Erase, SpuriousWakeup, AtRest
    <2> QED
      BY <2>1, ThreadFacts DEF NextCall, At, IInv, Ending
  <1>2. IInv /\ [Next]_vars => [calls' # calls => q' = <<>>]_vars
    BY <1>1
  <1> QED
    BY <1>2, InitIInv, NextKeepsIInv, PTL DEF Spec, FreshQueue

(* The steps that touch neither the list nor what has been got. *)
LEMMA QuietSteps ==
    ASSUME [Next]_vars,
           \A t \in Putters : ~ PutPush(t),
           ~ GetPop, ~ Erase
    PROVE  UNCHANGED <<q, got>>
  BY DEF Next, vars, CallPut, PutStep, PutLock, PutNotify, PutUnlock, Leave,
         NodeStep, GetStep, GetLock, GetTest, GetWait, GetRelock, GetFront,
         GetUnlock, Process, Interrupt, Join, SpuriousWakeup, NextCall, AtRest

(* put, get and erase are those of a FIFO queue: the refinement, whose      *)
(* steps are push_back, pop_front and erase.                                *)
THEOREM FifoImplemented == Spec => ImplementsFifo
  <1>1. Init => Fifo!Init
    BY DEF Init, Fifo!Init
  <1>2. IInv /\ [Next]_vars => [Fifo!Next]_<<q, got>>
    <2> SUFFICES ASSUME IInv, [Next]_vars PROVE [Fifo!Next]_<<q, got>>
      OBVIOUS
    <2>1. ASSUME NEW t \in Putters, PutPush(t) PROVE Fifo!Put
      <3>1. val[t] \in Item
        BY DEF IInv, TypeOK
      <3> QED
        BY <2>1, <3>1 DEF PutPush, AtTheBack, Fifo!Put
    <2>2. CASE GetPop
      <3>1. q # <<>> /\ front = q[1] /\ q \in Seq(Item)
        BY <2>2 DEF GetPop, At, IInv, FrontExists, TypeOK
      <3>2. front = Head(q)
        BY <3>1
      <3> QED
        BY <2>2, <3>1, <3>2 DEF GetPop, Fifo!Get, Fifo!Next
    <2>3. CASE Erase
      BY <2>3 DEF Erase, Erased, Fifo!Erase, Fifo!Next
    <2> QED
      BY <2>1, <2>2, <2>3, QuietSteps DEF Fifo!Next
  <1> QED
    BY <1>1, <1>2, InitIInv, NextKeepsIInv, PTL
    DEF Spec, ImplementsFifo, Fifo!Spec
=============================================================================
