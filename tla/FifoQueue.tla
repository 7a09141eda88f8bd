------------------------------ MODULE FifoQueue ------------------------------
(***************************************************************************)
(* What a message queue promises its node: messages are added to the tail   *)
(* (Synch_queue.cpp:17-18) and taken from the head (Node.cpp:320-321), so   *)
(* in the order in which they were put, each once; a call ends with an      *)
(* empty queue.  (Synch_queue.hpp:21-23 and Handler.cpp:23-24 say          *)
(* otherwise; the code does as described here.)                             *)
(***************************************************************************)
EXTENDS Sequences

CONSTANT Item

VARIABLES
    content,    \* put and not yet taken
    got         \* taken, in order

Init == content = <<>> /\ got = <<>>

Put == \E m \in Item : content' = Append(content, m) /\ UNCHANGED got

Get == /\ content # <<>>
       /\ content' = Tail(content)
       /\ got' = Append(got, Head(content))

Erase == content' = <<>> /\ UNCHANGED got

Next == Put \/ Get \/ Erase

Spec == Init /\ [][Next]_<<content, got>>
=============================================================================
