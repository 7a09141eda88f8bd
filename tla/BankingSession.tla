--------------------------- MODULE BankingSession ---------------------------
(***************************************************************************)
(* A session of the program (main.cpp): the files are read, a user logs in, *)
(* answers the questions of a transaction, the shortest paths to the        *)
(* receiving account are calculated unless an earlier transaction has done  *)
(* so, the amount is transferred, and at the end everything is written to a *)
(* file.                                                                    *)
(*                                                                          *)
(* The calculation and the transfer are one step each: the calculation ends *)
(* with a shortest path tree in networks where AsynchBellmanFord does so    *)
(* (SessionCalculation has it with all its messages), and the transfer is   *)
(* the step of AccountsLedger that TransferAmount implements.  A question   *)
(* that is answered wrongly is asked again, which changes nothing.          *)
(***************************************************************************)
EXTENDS UnsignedAmount, Sequences, FiniteSetsExt, Functions

CONSTANTS
    Nodes, Weight, Infinity, NoNode,    \* as in AsynchBellmanFord
    Users,
    Passwords,      \* passwords.txt: the user of each password
    Owner,          \* accounts file: the owner of each account
    InitialCredit,  \*   and its credit
    Amounts,        \* amounts the user may ask for
    MaxTransactions \* bound: transactions of a session

ASSUME NetworkAssumption ==
    /\ IsFiniteSet(Nodes)
    /\ NoNode \notin Nodes
    /\ Weight \in [Nodes \X Nodes -> Nat]
    /\ Infinity \in Nat \ {0}

ASSUME FilesAssumption ==
    /\ Passwords \in [DOMAIN Passwords -> Users]
    /\ Owner \in [Nodes -> Users]
    /\ InitialCredit \in [Nodes -> Amount]
    /\ Amounts \subseteq Amount
    /\ MaxTransactions \in Nat

NoUser == "nobody"
NoFile == [user |-> NoUser, log |-> <<>>, accounts |-> <<>>]

VARIABLES
    pc,             \* where main is
    user,           \* who has logged in
    index_from, current_amount, amount, index_to,   \* the transaction
    credit,         \* the accounts
    paths,          \* the shortest paths, a column for each receiving account
    displayed,      \* what the user was last shown of the accounts
    log_data,       \* the transactions of the session
    file            \* the output file

questions == <<user, index_from, current_amount, amount, index_to>>
records   == <<displayed, log_data, file>>
vars == <<pc, questions, credit, paths, records>>

(* A column of Shortest_paths, and how it is constructed. *)
Columns   == [distance : [Nodes -> 0 .. Infinity],
              parent : [Nodes -> Nodes \cup {NoNode}]]
Untouched == [distance |-> [i \in Nodes |-> Infinity],
              parent |-> [i \in Nodes |-> NoNode]]

Init ==
    /\ pc = "files"
    /\ user = NoUser /\ index_from = NoNode /\ index_to = NoNode
    /\ current_amount = 0 /\ amount = 0
    /\ credit = InitialCredit
    /\ paths = [t \in Nodes |-> Untouched]
    /\ displayed = <<>> /\ log_data = <<>> /\ file = NoFile

----------------------------------------------------------------------------
Goes(from, to) == pc = from /\ pc' = to

(* A file is opened and main goes on, or File_ptr throws and, as nobody     *)
(* catches it, the program is aborted.                                      *)
Opens(from, to) == pc = from /\ pc' \in {to, "aborted"}

(* passwords.txt, the accounts and the matrix. *)
ReadFiles ==
    /\ Opens("files", "login")
    /\ UNCHANGED <<questions, credit, paths, records>>

AccountsOf(u) == {i \in Nodes : Owner[i] = u}

(* display_accounts, at the beginning and at the end of a transaction. *)
Shown(u) == [i \in AccountsOf(u) |-> credit[i]]

Login(u, p) ==
    /\ p \in DOMAIN Passwords /\ Passwords[p] = u
    /\ Goes("login", "from")
    /\ user' = u
    /\ displayed' = Shown(u)
    /\ UNCHANGED <<index_from, current_amount, amount, index_to, credit, paths,
                   log_data, file>>

(* The credit the amount is compared with. *)
CreditAtStart(i) == InitialCredit[i]
CreditOf(i)      == credit[i]

ChooseFrom(i) ==
    /\ i \in AccountsOf(user)
    /\ Goes("from", "amount")
    /\ index_from' = i
    /\ current_amount' = CreditOf(i)
    /\ UNCHANGED <<user, amount, index_to, credit, paths, records>>

Covers(a) == current_amount > a

ChooseAmount(a) ==
    /\ Covers(a)
    /\ Goes("amount", "to")
    /\ amount' = a
    /\ UNCHANGED <<user, index_from, current_amount, index_to, credit, paths,
                   records>>

(* The receiver's name has to be that of the owner. *)
ChooseTo(t, name) ==
    /\ Owner[t] = name /\ t # index_from
    /\ Goes("to", "transfer")
    /\ index_to' = t
    /\ UNCHANGED <<user, index_from, current_amount, amount, credit, paths,
                   records>>

(* transfer: a column is calculated if the receiving node is not yet at     *)
(* distance 0 from itself.                                                  *)
AnyComputed(t)     == \E u \in Nodes : paths[u].distance[u] = 0
AlreadyComputed(t) == paths[t].distance[t] = 0

KeptPaths ==
    /\ Goes("transfer", "pay")
    /\ AlreadyComputed(index_to)
    /\ UNCHANGED <<questions, credit, paths, records>>

StartCalculation ==
    /\ Goes("transfer", "calculate")
    /\ ~ AlreadyComputed(index_to)
    /\ UNCHANGED <<questions, credit, paths, records>>

(* The distances to t, by rounds over paths of growing length. *)
Neighbours(i) == {j \in Nodes : Weight[<<i, j>>] # 0}

Shortest == [t \in Nodes |->
    LET D[n \in 0 .. Cardinality(Nodes)] ==
          IF n = 0 THEN [i \in Nodes |-> IF i = t THEN 0 ELSE Infinity]
          ELSE LET before == D[n - 1]
               IN  [i \in Nodes |-> Min({before[i]} \cup
                      {before[j] + Weight[<<j, i>>] : j \in Neighbours(i)})]
    IN  D[Cardinality(Nodes)]]

(* The column p is a shortest path tree to t of the nodes that are reached. *)
IsTreeTo(t, p) ==
    /\ p.distance = Shortest[t]
    /\ p.parent[t] = NoNode
    /\ \A i \in Nodes \ {t} :
          IF p.distance[i] = Infinity THEN p.parent[i] = NoNode
          ELSE /\ p.parent[i] \in Neighbours(i)
               /\ p.distance[i] =
                     p.distance[p.parent[i]] + Weight[<<i, p.parent[i]>>]

(* A ring: every node has two neighbours, and every node a path to every    *)
(* other.  There the calculation detects its own end (AsynchBellmanFord).   *)
IsRing ==
    /\ \A i \in Nodes : Cardinality(Neighbours(i)) = 2
    /\ \A S \in (SUBSET Nodes) \ {{}} :
          (\A i \in S : Neighbours(i) \subseteq S) => S = Nodes

(* What the calculation of the paths to t may return. *)
Distances(t)  == IF IsRing THEN {Shortest[t]} ELSE [Nodes -> 0 .. Infinity]
Calculated(t) == {p \in [distance : Distances(t),
                         parent : [Nodes -> Nodes \cup {NoNode}]] :
                     p.distance[t] = 0 /\ (IsRing => IsTreeTo(t, p))}

(* calculate_shortest_paths returns when all nodes have been joined; they   *)
(* have filled the column of the receiving account.                         *)
EndCalculation ==
    /\ Goes("calculate", "pay")
    /\ \E p \in Calculated(index_to) : paths' = [paths EXCEPT ![index_to] = p]
    /\ UNCHANGED <<questions, credit, records>>

(* transfer_amount. *)
CreditedOnly == [credit EXCEPT ![index_to] = Plus(@, amount)]
Paid == [credit EXCEPT ![index_from] = Plus(@, Minus(amount)),
                       ![index_to] = Plus(@, amount)]

Pay ==
    /\ Goes("pay", "display")
    /\ credit' = Paid
    /\ UNCHANGED <<questions, paths, records>>

(* The accounts are displayed and the transaction is logged. *)
Logged == Append(log_data, [to |-> index_to, amount |-> amount])

Display ==
    /\ Goes("display", "again")
    /\ displayed' = Shown(user)
    /\ log_data' = Logged
    /\ UNCHANGED <<questions, credit, paths, file>>

(* The variables of a transaction are declared inside the loop. *)
AgainYes ==
    /\ Len(log_data) < MaxTransactions
    /\ Goes("again", "from")
    /\ index_from' = NoNode /\ index_to' = NoNode
    /\ current_amount' = 0 /\ amount' = 0
    /\ displayed' = Shown(user)
    /\ UNCHANGED <<user, credit, paths, log_data, file>>

AgainNo ==
    /\ Goes("again", "output")
    /\ UNCHANGED <<questions, credit, paths, records>>

(* What is written to the output file. *)
Written == [user |-> user, log |-> log_data, accounts |-> credit]

WriteOutput ==
    /\ Opens("output", "end")
    /\ file' = IF pc' = "end" THEN Written ELSE file
    /\ UNCHANGED <<questions, credit, paths, displayed, log_data>>

Question ==
    \/ \E u \in Users, p \in DOMAIN Passwords : Login(u, p)
    \/ \E i \in Nodes : ChooseFrom(i)
    \/ \E a \in Amounts : ChooseAmount(a)
    \/ \E t \in Nodes, u \in Users : ChooseTo(t, u)
    \/ AgainYes \/ AgainNo

Transaction ==
    \/ KeptPaths \/ StartCalculation \/ EndCalculation
    \/ Pay \/ Display

Next ==
    \/ ReadFiles
    \/ Question
    \/ Transaction
    \/ WriteOutput

(* main goes on by itself from the last question to the end of the          *)
(* transaction; nobody has to answer a question.                            *)
Fairness == WF_vars(Transaction)

Spec == Init /\ [][Next]_vars /\ Fairness

----------------------------------------------------------------------------
(* The sum of the values of a function. *)
Total(c) == FoldFunction(LAMBDA x, y : x + y, 0, c)

(* What the log says has been sent to the accounts S, and what they have. *)
Sent(log, S) == Total([k \in DOMAIN log |->
                          IF log[k].to \in S THEN log[k].amount ELSE 0])
Sum(c, S)    == Total([i \in S |-> c[i]])

(* Types. *)
TypeOK ==
    /\ pc \in {"files", "login", "from", "amount", "to", "transfer",
               "calculate", "pay", "display", "again", "output", "end",
               "aborted"}
    /\ user \in Users \cup {NoUser}
    /\ index_from \in Nodes \cup {NoNode} /\ index_to \in Nodes \cup {NoNode}
    /\ current_amount \in Amount /\ amount \in Amounts \cup {0}
    /\ credit \in [Nodes -> Amount]
    /\ paths \in [Nodes -> Columns]
    /\ log_data \in Seq([to : Nodes, amount : Amounts])

(* What is kept of a calculation for the rest of the session is complete:   *)
(* the test that looks at one distance only (Node.hpp:100) finds either a   *)
(* whole shortest path tree or a column nobody has touched.                 *)
KeptPathsAreRight ==
    \A t \in Nodes : IF AlreadyComputed(t) THEN IsTreeTo(t, paths[t])
                     ELSE paths[t] = Untouched

(* The walk for the transfer ends at the receiving node, without reading    *)
(* the parent of a node that has none (vector_nodes[-1], main.cpp:299), and *)
(* costs the shortest distance.  ("The main thread sends a message to the   *)
(* receiving account in order to calculate all the shortest paths (one for  *)
(* each node) leading to that account", main.cpp:264.)                      *)
Walks(n) ==
    {w \in [0 .. n -> Nodes] :
        /\ w[0] = index_from
        /\ \A m \in 0 .. n - 1 : w[m] # index_to
                                /\ w[m + 1] = paths[index_to].parent[w[m]]}

WalkArrives ==
    pc = "pay" => \E n \in 1 .. Cardinality(Nodes) : \E w \in Walks(n) :
        /\ w[n] = index_to
        /\ Total([m \in 0 .. n - 1 |-> Weight[<<w[m], w[m + 1]>>]])
              = Shortest[index_to][index_from]

(* The credit that covered the amount when it was asked for (main.cpp:164)  *)
(* is still the credit when it is paid, several steps later.                *)
CoverIsCurrent ==
    pc \in {"amount", "to", "transfer", "calculate", "pay"} =>
        /\ current_amount = credit[index_from]
        /\ pc \notin {"amount"} => amount < credit[index_from]

(* The log and the accounts agree: nobody but the user has paid, and what   *)
(* the others have received and the user has lost is what the log says.     *)
(* The same goes for the file written at the end, which lists both          *)
(* (main.cpp:232-240); and the user always sees the accounts as they are    *)
(* ("Before and after a transaction", main.cpp:142), except during one.     *)
Explains(log, c) ==
    LET mine   == AccountsOf(user)
        others == Nodes \ mine
    IN  /\ \A i \in others : c[i] = (InitialCredit[i] + Sent(log, {i})) % Modulus
        /\ (Sum(c, mine) + Sent(log, others)) % Modulus
              = Sum(InitialCredit, mine) % Modulus

LogExplainsAccounts ==
    /\ pc \in {"from", "again", "output", "end"} => Explains(log_data, credit)
    /\ pc \notin {"files", "login", "display", "aborted"} => displayed = Shown(user)
    /\ file # NoFile => file.user = user /\ Explains(file.log, file.accounts)

(* A session is a sequence of transfers, each between two accounts and of   *)
(* less than the paying account has at that moment ("The amount to transfer *)
(* cannot overcome the account available credit", main.cpp:175).            *)
Ledger == INSTANCE AccountsLedger WITH Accounts <- Nodes

ImplementsLedger == Ledger!Spec
=============================================================================
