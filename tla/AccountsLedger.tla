--------------------------- MODULE AccountsLedger ---------------------------
(***************************************************************************)
(* What a transaction promises the owners of the accounts (main.cpp:140):   *)
(* it moves an amount from one account to another in one step, and only     *)
(* when the paying account has more than the amount.                        *)
(***************************************************************************)
EXTENDS UnsignedAmount

CONSTANTS
    Accounts,       \* one account per node, known by the node's index
    InitialCredit   \* credits read from the accounts file

VARIABLE credit

(* The credits after f has paid a to t. *)
Paid(before, f, t, a) == [before EXCEPT ![f] = @ - a, ![t] = Plus(@, a)]

Init == credit = InitialCredit

Transfer(f, t, a) ==
    /\ f # t
    /\ a < credit[f]
    /\ credit' = Paid(credit, f, t, a)

Next == \E f, t \in Accounts, a \in Amount : Transfer(f, t, a)

Spec == Init /\ [][Next]_credit
=============================================================================
