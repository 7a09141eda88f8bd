----------------------- MODULE BankingSession_proofs -----------------------
(***************************************************************************)
(* Theorems about a session, in every network, for every accounts file and  *)
(* every number of transactions.                                            *)
(***************************************************************************)
EXTENDS BankingSession, FiniteInduction

-----------------------------------------------------------------------------
(* The rounds of Shortest never leave the numbers up to Infinity.           *)
First(t) == [i \in Nodes |-> IF i = t THEN 0 ELSE Infinity]
Offered(d, i) == {d[i]} \cup {d[j] + Weight[<<j, i>>] : j \in Neighbours(i)}
Round(d) == [i \in Nodes |-> Min(Offered(d, i))]

AreRounds(D, t, n) ==
    D = [k \in 0 .. n |-> IF k = 0 THEN First(t) ELSE Round(D[k - 1])]
Rounds(t, n) == CHOOSE D : AreRounds(D, t, n)

Distance == [Nodes -> 0 .. Infinity]

LEMMA RoundsExist ==
  ASSUME NEW t, NEW n \in Nat
  PROVE  AreRounds(Rounds(t, n), t, n)
<1>. DEFINE G == {m \in Nat : \E D : AreRounds(D, t, m)}
<1>1. 0 \in G
  <2>. DEFINE D == [k \in 0 .. 0 |-> First(t)]
  <2>1. D = [k \in 0 .. 0 |-> IF k = 0 THEN First(t) ELSE Round(D[k - 1])]
    OBVIOUS
  <2>. QED BY <2>1 DEF AreRounds
<1>2. ASSUME NEW m \in Nat, m \in G PROVE m + 1 \in G
  <2>1. PICK D : AreRounds(D, t, m)
    BY <1>2
  <2>. DEFINE E == [k \in 0 .. m + 1 |-> IF k <= m THEN D[k] ELSE Round(D[m])]
  <2>2. \A k \in 0 .. m : D[k] = IF k = 0 THEN First(t) ELSE Round(D[k - 1])
    BY <2>1 DEF AreRounds
  <2>3. /\ E = [k \in 0 .. m + 1 |-> E[k]]
        /\ \A k \in 0 .. m : E[k] = D[k]
        /\ E[m + 1] = Round(D[m])
    OBVIOUS
  <2>. HIDE DEF E
  <2>4. ASSUME NEW k \in 0 .. m + 1
        PROVE  E[k] = IF k = 0 THEN First(t) ELSE Round(E[k - 1])
    <3>1. CASE k \in 0 .. m
      <4>1. k # 0 => k - 1 \in 0 .. m
        BY <3>1
      <4>. QED BY <2>2, <2>3, <3>1, <4>1
    <3>2. CASE k = m + 1
      <4>1. k # 0 /\ k - 1 = m /\ m \in 0 .. m
        BY <3>2
      <4>. QED BY <2>3, <3>2, <4>1
    <3>. QED BY <3>1, <3>2
  <2>5. AreRounds(E, t, m + 1)
    <3>. DEFINE F == [k \in 0 .. m + 1 |-> IF k = 0 THEN First(t) ELSE Round(E[k - 1])]
    <3>1. E = F
      BY <2>3, <2>4
    <3>. QED BY <3>1 DEF AreRounds
  <2>. QED BY <2>5
<1>3. n \in G
  <2>. HIDE DEF G
  <2>. QED BY <1>1, <1>2, NaturalInduction
<1>. QED BY <1>3 DEF Rounds

LEMMA RoundType ==
  ASSUME NEW d \in Distance
  PROVE  Round(d) \in Distance
<1>1. ASSUME NEW i \in Nodes PROVE Min(Offered(d, i)) \in 0 .. Infinity
  <2>1. ASSUME NEW j \in Neighbours(i) PROVE d[j] + Weight[<<j, i>>] \in Nat
    BY NetworkAssumption DEF Neighbours, Distance
  <2>2. d[i] \in 0 .. Infinity /\ d[i] \in Nat /\ Infinity \in Nat
    BY NetworkAssumption DEF Distance
  <2>3. Offered(d, i) \subseteq Nat /\ d[i] \in Offered(d, i)
    BY <2>1, <2>2 DEF Offered
  <2>4. \E m \in Offered(d, i) : \A n \in Offered(d, i) : m <= n
    BY <2>3, LeastNatural
  <2>5. /\ Min(Offered(d, i)) \in Offered(d, i)
        /\ \A n \in Offered(d, i) : Min(Offered(d, i)) <= n
    BY <2>4 DEF Min
  <2>. QED BY <2>2, <2>3, <2>5
<1>. QED BY <1>1 DEF Round, Distance

LEMMA ShortestType ==
  ASSUME NEW t \in Nodes
  PROVE  Shortest[t] \in Distance
<1>. DEFINE N == Cardinality(Nodes)
            R == Rounds(t, N)
            G == {n \in Nat : n <= N => R[n] \in Distance}
<1>1. N \in Nat
  BY NetworkAssumption, FS_CardinalityType
<1>2. Shortest[t] = R[N]
  BY Zenon DEF Shortest, Rounds, AreRounds, First, Round, Offered
<1>. HIDE DEF N
<1>3. \A k \in 0 .. N : R[k] = IF k = 0 THEN First(t) ELSE Round(R[k - 1])
  <2>1. AreRounds(R, t, N)
    BY <1>1, RoundsExist
  <2>. HIDE DEF R
  <2>2. R = [k \in 0 .. N |-> IF k = 0 THEN First(t) ELSE Round(R[k - 1])]
    BY <2>1 DEF AreRounds
  <2>. QED BY <2>2
<1>. HIDE DEF R
<1>4. 0 \in G
  <2>1. R[0] = First(t)
    BY <1>1, <1>3
  <2>2. Infinity \in Nat
    BY NetworkAssumption
  <2>. QED BY <2>1, <2>2 DEF First, Distance
<1>5. ASSUME NEW n \in Nat, n \in G PROVE n + 1 \in G
  <2>1. SUFFICES ASSUME n + 1 <= N PROVE R[n + 1] \in Distance
    OBVIOUS
  <2>2. R[n] \in Distance /\ n + 1 \in 0 .. N /\ n + 1 # 0 /\ (n + 1) - 1 = n
    BY <1>1, <1>5, <2>1
  <2>3. R[n + 1] = Round(R[n])
    BY <1>3, <2>2
  <2>. QED BY <2>2, <2>3, RoundType
<1>6. N \in G
  <2>. HIDE DEF G
  <2>. QED BY <1>1, <1>4, <1>5, NaturalInduction
<1>. QED BY <1>1, <1>2, <1>6

-----------------------------------------------------------------------------
LEMMA InitTypeOK == Init => TypeOK
  BY FilesAssumption, NetworkAssumption, ModulusAssumption
     DEF Init, TypeOK, Columns, Untouched, Amount

LEMMA PlusType ==
  ASSUME NEW x \in Amount, NEW y \in Amount
  PROVE  Plus(x, y) \in Amount /\ Minus(x) \in Amount
  BY ModulusAssumption DEF Plus, Minus, Amount

LEMMA CalculatedType ==
  ASSUME NEW t \in Nodes, NEW p \in Calculated(t)
  PROVE  p \in Columns
<1>1. Distances(t) \subseteq Distance
  BY ShortestType DEF Distances, Distance
<1>. QED BY <1>1 DEF Calculated, Columns, Distance

(* What main knows of the transaction it is in.                             *)
Asked ==
    /\ pc \in {"amount", "to", "transfer", "calculate", "pay", "display"} =>
          index_from \in AccountsOf(user)
    /\ pc \in {"to", "transfer", "calculate", "pay", "display"} =>
          amount \in Amounts
    /\ pc \in {"transfer", "calculate", "pay", "display"} =>
          index_to \in Nodes \ {index_from}
    /\ pc = "pay" => AlreadyComputed(index_to)

LEMMA InitAsked == Init => Asked
  BY DEF Init, Asked

LEMMA NextTypeOK == TypeOK /\ Asked /\ [Next]_vars => TypeOK'
<1>. SUFFICES ASSUME TypeOK, Asked, [Next]_vars PROVE TypeOK'
  OBVIOUS
<1>. USE DEF TypeOK, questions, records, Goes, Opens
<1>1. CASE ReadFiles
  BY <1>1 DEF ReadFiles
<1>2. ASSUME NEW u \in Users, NEW p \in DOMAIN Passwords, Login(u, p) PROVE TypeOK'
  BY <1>2 DEF Login
<1>3. ASSUME NEW i \in Nodes, ChooseFrom(i) PROVE TypeOK'
  BY <1>3 DEF ChooseFrom, CreditOf
<1>4. ASSUME NEW a \in Amounts, ChooseAmount(a) PROVE TypeOK'
  BY <1>4 DEF ChooseAmount, Covers
<1>5. ASSUME NEW t \in Nodes, NEW u \in Users, ChooseTo(t, u) PROVE TypeOK'
  BY <1>5 DEF ChooseTo
<1>6. CASE AgainYes
  BY <1>6, ModulusAssumption DEF AgainYes, Amount
<1>7. CASE AgainNo
  BY <1>7 DEF AgainNo
<1>8. CASE KeptPaths \/ StartCalculation
  BY <1>8 DEF KeptPaths, StartCalculation
<1>9. CASE EndCalculation
  <2>1. PICK p \in Calculated(index_to) : paths' = [paths EXCEPT ![index_to] = p]
    BY <1>9 DEF EndCalculation
  <2>2. index_to \in Nodes
    BY <1>9 DEF EndCalculation, Asked
  <2>3. p \in Columns
    BY <2>1, <2>2, CalculatedType
  <2>. QED BY <1>9, <2>1, <2>3 DEF EndCalculation
<1>10. CASE Pay
  <2>1. index_from \in Nodes /\ index_to \in Nodes /\ amount \in Amount
    BY <1>10, FilesAssumption DEF Pay, Asked, AccountsOf
  <2>2. Paid \in [Nodes -> Amount]
    BY <2>1, PlusType DEF Paid
  <2>. QED BY <1>10, <2>2 DEF Pay
<1>11. CASE Display
  <2>1. index_to \in Nodes /\ amount \in Amounts
    BY <1>11 DEF Display, Asked
  <2>. QED BY <1>11, <2>1 DEF Display, Logged
<1>12. CASE WriteOutput
  BY <1>12 DEF WriteOutput
<1>13. CASE UNCHANGED vars
  BY <1>13 DEF vars
<1>. QED BY <1>1, <1>2, <1>3, <1>4, <1>5, <1>6, <1>7, <1>8, <1>9, <1>10,
            <1>11, <1>12, <1>13 DEF Next, Question, Transaction

LEMMA NextAsked == TypeOK /\ Asked /\ [Next]_vars => Asked'
<1>. SUFFICES ASSUME TypeOK, Asked, [Next]_vars PROVE Asked'
  OBVIOUS
<1>. USE DEF Asked, questions, records, Goes, Opens, AccountsOf
<1>1. CASE ReadFiles
  BY <1>1 DEF ReadFiles
<1>2. ASSUME NEW u \in Users, NEW p \in DOMAIN Passwords, Login(u, p) PROVE Asked'
  BY <1>2 DEF Login
<1>3. ASSUME NEW i \in Nodes, ChooseFrom(i) PROVE Asked'
  BY <1>3 DEF ChooseFrom
<1>4. ASSUME NEW a \in Amounts, ChooseAmount(a) PROVE Asked'
  BY <1>4 DEF ChooseAmount, Covers
<1>5. ASSUME NEW t \in Nodes, NEW u \in Users, ChooseTo(t, u) PROVE Asked'
  BY <1>5 DEF ChooseTo
<1>6. CASE AgainYes \/ AgainNo
  BY <1>6 DEF AgainYes, AgainNo
<1>7. CASE KeptPaths
  BY <1>7 DEF KeptPaths, AlreadyComputed
<1>8. CASE StartCalculation
  BY <1>8 DEF StartCalculation
<1>9. CASE EndCalculation
  <2>1. PICK p \in Calculated(index_to) : paths' = [paths EXCEPT ![index_to] = p]
    BY <1>9 DEF EndCalculation
  <2>2. p.distance[index_to] = 0
    BY <2>1 DEF Calculated
  <2>3. index_to \in DOMAIN paths
    BY <1>9 DEF EndCalculation, TypeOK
  <2>. QED BY <1>9, <2>1, <2>2, <2>3 DEF EndCalculation, AlreadyComputed
<1>10. CASE Pay \/ Display
  BY <1>10 DEF Pay, Display
<1>11. CASE WriteOutput
  BY <1>11 DEF WriteOutput
<1>12. CASE UNCHANGED vars
  BY <1>12 DEF vars, AlreadyComputed
<1>. QED BY <1>1, <1>2, <1>3, <1>4, <1>5, <1>6, <1>7, <1>8, <1>9, <1>10,
            <1>11, <1>12 DEF Next, Question, Transaction

(* The variables keep their types, however many transactions are carried    *)
(* out: no sum leaves the unsigned integers, and every index main goes on   *)
(* with is one of a node.                                                   *)
THEOREM TypeCorrect == Spec => []TypeOK
<1>1. Init => TypeOK /\ Asked
  BY InitTypeOK, InitAsked
<1>2. TypeOK /\ Asked /\ [Next]_vars => (TypeOK /\ Asked)'
  BY NextTypeOK, NextAsked
<1>. QED BY <1>1, <1>2, PTL DEF Spec

-----------------------------------------------------------------------------
LEMMA NextCover == TypeOK /\ CoverIsCurrent /\ [Next]_vars => CoverIsCurrent'
<1>. SUFFICES ASSUME TypeOK, CoverIsCurrent, [Next]_vars PROVE CoverIsCurrent'
  OBVIOUS
<1>. USE DEF CoverIsCurrent, questions, records, Goes, Opens
<1>1. CASE ReadFiles
  BY <1>1 DEF ReadFiles
<1>2. ASSUME NEW u \in Users, NEW p \in DOMAIN Passwords, Login(u, p)
      PROVE  CoverIsCurrent'
  BY <1>2 DEF Login
<1>3. ASSUME NEW i \in Nodes, ChooseFrom(i) PROVE CoverIsCurrent'
  BY <1>3 DEF ChooseFrom, CreditOf
<1>4. ASSUME NEW a \in Amounts, ChooseAmount(a) PROVE CoverIsCurrent'
  BY <1>4 DEF ChooseAmount, Covers
<1>5. ASSUME NEW t \in Nodes, NEW u \in Users, ChooseTo(t, u) PROVE CoverIsCurrent'
  BY <1>5 DEF ChooseTo
<1>6. CASE AgainYes \/ AgainNo
  BY <1>6 DEF AgainYes, AgainNo
<1>7. CASE KeptPaths \/ StartCalculation \/ EndCalculation
  BY <1>7 DEF KeptPaths, StartCalculation, EndCalculation
<1>8. CASE Pay \/ Display
  BY <1>8 DEF Pay, Display
<1>9. CASE WriteOutput
  BY <1>9 DEF WriteOutput
<1>10. CASE UNCHANGED vars
  BY <1>10 DEF vars
<1>. QED BY <1>1, <1>2, <1>3, <1>4, <1>5, <1>6, <1>7, <1>8, <1>9, <1>10
         DEF Next, Question, Transaction

(* However many transactions come before, the paying account has more than  *)
(* the amount until it is paid, several steps after the check               *)
(* (main.cpp:178).                                                          *)
THEOREM AmountStaysCovered == Spec => []CoverIsCurrent
<1>1. Init => CoverIsCurrent
  BY DEF Init, CoverIsCurrent
<1>2. TypeOK /\ CoverIsCurrent /\ [Next]_vars => CoverIsCurrent'
  BY NextCover
<1>. QED BY <1>1, <1>2, TypeCorrect, PTL DEF Spec

-----------------------------------------------------------------------------
LEMMA NextKept ==
  ASSUME IsRing, TypeOK, Asked, KeptPathsAreRight, [Next]_vars
  PROVE  KeptPathsAreRight'
<1>1. CASE UNCHANGED paths
  BY <1>1 DEF KeptPathsAreRight, AlreadyComputed
<1>2. CASE EndCalculation
  <2>1. PICK p \in Calculated(index_to) : paths' = [paths EXCEPT ![index_to] = p]
    BY <1>2 DEF EndCalculation
  <2>2. p.distance[index_to] = 0 /\ IsTreeTo(index_to, p)
    BY <2>1 DEF Calculated
  <2>3. ASSUME NEW t \in Nodes, t # index_to PROVE paths'[t] = paths[t]
    BY <2>1, <2>3 DEF TypeOK
  <2>4. index_to \in Nodes => paths'[index_to] = p
    BY <2>1 DEF TypeOK
  <2>5. ASSUME NEW t \in Nodes
        PROVE  IF paths'[t].distance[t] = 0 THEN IsTreeTo(t, paths'[t])
               ELSE paths'[t] = Untouched
    <3>1. CASE t = index_to
      BY <2>2, <2>4, <3>1
    <3>2. CASE t # index_to
      BY <2>3, <3>2 DEF KeptPathsAreRight, AlreadyComputed
    <3>. QED BY <3>1, <3>2
  <2>6. \A t \in Nodes : IF paths'[t].distance[t] = 0 THEN IsTreeTo(t, paths'[t])
                         ELSE paths'[t] = Untouched
    BY <2>5
  <2>. QED BY <2>6, Zenon DEF KeptPathsAreRight, AlreadyComputed, IsTreeTo
<1>3. EndCalculation \/ UNCHANGED paths
  BY DEF Next, Question, Transaction, vars, ReadFiles, Login, ChooseFrom,
         ChooseAmount, ChooseTo, AgainYes, AgainNo, KeptPaths,
         StartCalculation, Pay, Display, WriteOutput
<1>. QED BY <1>1, <1>2, <1>3

(* In a ring the paths kept from one transaction to the next are whole      *)
(* shortest path trees or have not been touched, for every matrix and any   *)
(* number of transactions.                                                  *)
THEOREM KeptPathsStayRight == ASSUME IsRing PROVE Spec => []KeptPathsAreRight
<1>1. Init => KeptPathsAreRight
  BY NetworkAssumption DEF Init, KeptPathsAreRight, AlreadyComputed, Untouched
<1>2. TypeOK /\ Asked /\ KeptPathsAreRight /\ [Next]_vars => KeptPathsAreRight'
  BY NextKept
<1>3. Spec => []Asked
  <2>1. TypeOK /\ Asked /\ [Next]_vars => Asked'
    BY NextAsked
  <2>. QED BY <2>1, InitAsked, TypeCorrect, PTL DEF Spec
<1>. QED BY <1>1, <1>2, <1>3, TypeCorrect, PTL DEF Spec

-----------------------------------------------------------------------------
(* Counting modulo Modulus.                                                 *)
LEMMA Quotient ==
  ASSUME NEW x \in Int
  PROVE  /\ x % Modulus \in 0 .. Modulus - 1 /\ x \div Modulus \in Int
         /\ x = (Modulus * (x \div Modulus)) + (x % Modulus)
  BY ModulusAssumption

LEMMA Remainder ==
  ASSUME NEW q \in Int, NEW r \in 0 .. Modulus - 1
  PROVE  ((Modulus * q) + r) % Modulus = r
  BY ModulusAssumption

LEMMA OnceAround ==
  ASSUME NEW x \in Int
  PROVE  (x + Modulus) % Modulus = x % Modulus /\ (x - Modulus) % Modulus = x % Modulus
<1>. DEFINE q == x \div Modulus
            r == x % Modulus
<1>1. q \in Int /\ r \in 0 .. Modulus - 1 /\ x = (Modulus * q) + r
  BY Quotient
<1>. HIDE DEF q, r
<1>2. /\ Modulus * (q + 1) = (Modulus * q) + Modulus
      /\ Modulus * (q - 1) = (Modulus * q) - Modulus
  BY <1>1, ModulusAssumption
<1>3. /\ Modulus * q \in Int /\ Modulus \in Int /\ r \in Int
      /\ q + 1 \in Int /\ q - 1 \in Int
  BY <1>1, ModulusAssumption
<1>4. /\ x + Modulus = (Modulus * (q + 1)) + r
      /\ x - Modulus = (Modulus * (q - 1)) + r
  BY <1>1, <1>2, <1>3
<1>5. /\ ((Modulus * (q + 1)) + r) % Modulus = r
      /\ ((Modulus * (q - 1)) + r) % Modulus = r
  BY <1>1, <1>3, Remainder
<1>. QED BY <1>4, <1>5 DEF r

LEMMA PlusIsModular ==
  ASSUME NEW x \in Int, NEW a \in Amount
  PROVE  (x + a) % Modulus = Plus(x % Modulus, a)
<1>. DEFINE q == x \div Modulus
            r == x % Modulus
<1>1. q \in Int /\ r \in 0 .. Modulus - 1 /\ x = (Modulus * q) + r
  BY Quotient
<1>. HIDE DEF q, r
<1>2. Modulus * q \in Int /\ Modulus \in Int /\ r \in Int /\ a \in Int /\ r + a \in Int
  BY <1>1, ModulusAssumption DEF Amount
<1>3. x + a = (Modulus * q) + (r + a)
  BY <1>1, <1>2
<1>4. CASE r + a < Modulus
  <2>1. r + a \in 0 .. Modulus - 1
    BY <1>1, <1>2, <1>4 DEF Amount
  <2>2. (x + a) % Modulus = r + a
    BY <1>1, <1>3, <2>1, Remainder
  <2>. QED BY <1>4, <2>2 DEF Plus, r
<1>5. CASE ~ (r + a < Modulus)
  <2>. DEFINE y == (x + a) - Modulus
  <2>1. r + a - Modulus \in 0 .. Modulus - 1
    BY <1>1, <1>2, <1>5 DEF Amount
  <2>2. y = (Modulus * q) + (r + a - Modulus) /\ y \in Int /\ x + a = y + Modulus
    BY <1>2, <1>3
  <2>. HIDE DEF y
  <2>3. y % Modulus = r + a - Modulus
    BY <1>1, <2>1, <2>2, Remainder
  <2>4. (x + a) % Modulus = r + a - Modulus
    BY <2>2, <2>3, OnceAround
  <2>. QED BY <1>5, <2>4 DEF Plus, r
<1>. QED BY <1>4, <1>5

LEMMA AmountModulo ==
  ASSUME NEW x \in Amount
  PROVE  x % Modulus = x
  BY ModulusAssumption DEF Amount

-----------------------------------------------------------------------------
LEMMA TotalIsSum == ASSUME NEW c PROVE Total(c) = SumOf(c)
  BY Zenon DEF Total, SumOf

Entry == [to : Nodes, amount : Amounts]
Summands(log, S) == [k \in DOMAIN log |-> IF log[k].to \in S THEN log[k].amount ELSE 0]

LEMMA SentIsSum ==
  ASSUME NEW log, NEW S
  PROVE  Sent(log, S) = SumOf(Summands(log, S))
  BY TotalIsSum, Zenon DEF Sent, Summands

LEMMA SummandsType ==
  ASSUME NEW log \in Seq(Entry), NEW S
  PROVE  IsFiniteSet(DOMAIN log) /\ Summands(log, S) \in [DOMAIN log -> Int]
<1>1. \A a \in Amounts : a \in Int
  BY FilesAssumption DEF Amount
<1>2. Summands(log, S) \in [DOMAIN log -> Int]
  <2>1. \A k \in DOMAIN log : log[k] \in Entry
    OBVIOUS
  <2>2. \A k \in DOMAIN log : (IF log[k].to \in S THEN log[k].amount ELSE 0) \in Int
    BY <1>1, <2>1 DEF Entry
  <2>. QED BY <2>2 DEF Summands
<1>3. DOMAIN log = 1 .. Len(log) /\ Len(log) \in Int
  OBVIOUS
<1>4. IsFiniteSet(1 .. Len(log))
  BY <1>3, FS_Interval
<1>. QED BY <1>2, <1>3, <1>4

LEMMA SentNothing == ASSUME NEW S PROVE Sent(<<>>, S) = 0
<1>1. Summands(<<>>, S) \in [{} -> Int]
  BY DEF Summands
<1>. QED BY <1>1, SentIsSum, SumOfNothing

LEMMA SentAppend ==
  ASSUME NEW log \in Seq(Entry), NEW r \in Entry, NEW S
  PROVE  /\ Sent(log, S) \in Int
         /\ Sent(Append(log, r), S) =
               Sent(log, S) + (IF r.to \in S THEN r.amount ELSE 0)
<1>. DEFINE l == Append(log, r)
            n == Len(log) + 1
            c == Summands(l, S)
            b == [k \in DOMAIN l \ {n} |-> c[k]]
<1>1. l \in Seq(Entry) /\ n \in DOMAIN l
  OBVIOUS
<1>2. IsFiniteSet(DOMAIN l) /\ c \in [DOMAIN l -> Int]
  <2>. HIDE DEF l
  <2>. QED BY <1>1, SummandsType
<1>3. b = Summands(log, S)
  <2>1. DOMAIN l \ {n} = DOMAIN log /\ \A k \in DOMAIN log : l[k] = log[k]
    <3>1. /\ Len(log) \in Nat /\ DOMAIN log = 1 .. Len(log)
          /\ DOMAIN l = 1 .. Len(log) + 1
      OBVIOUS
    <3>2. \A k \in 1 .. Len(log) : l[k] = log[k]
      OBVIOUS
    <3>. HIDE DEF l
    <3>. QED BY <3>1, <3>2
  <2>2. \A k \in DOMAIN log : c[k] = IF log[k].to \in S THEN log[k].amount ELSE 0
    <3>. HIDE DEF l, n
    <3>. QED BY <2>1 DEF Summands
  <2>. HIDE DEF c, l, n
  <2>. QED BY <2>1, <2>2 DEF Summands
<1>4. c[n] = IF r.to \in S THEN r.amount ELSE 0
  <2>1. l[n] = r
    OBVIOUS
  <2>. HIDE DEF l, n
  <2>. QED BY <1>1, <2>1 DEF Summands
<1>5. SumOf(b) \in Int /\ SumOf(c) = c[n] + SumOf(b)
  <2>. HIDE DEF l, n, c
  <2>. QED BY <1>1, <1>2, SumWithout, ZenonT(60)
<1>6. Sent(l, S) = SumOf(c) /\ Sent(log, S) = SumOf(b)
  <2>. HIDE DEF b, l
  <2>. QED BY <1>3, SentIsSum
<1>. HIDE DEF b, c
<1>7. c[n] \in Int
  <2>. HIDE DEF l, n
  <2>. QED BY <1>1, <1>2
<1>8. Sent(l, S) = Sent(log, S) + c[n] /\ Sent(log, S) \in Int
  <2>. HIDE DEF l, n
  <2>. QED BY <1>5, <1>6, <1>7
<1>. QED BY <1>4, <1>8

(* Two accounts that differ in i.                                           *)
LEMMA SumChange ==
  ASSUME NEW c \in [Nodes -> Amount], NEW S \in SUBSET Nodes, NEW i \in Nodes,
         NEW d \in [Nodes -> Amount], \A j \in Nodes \ {i} : d[j] = c[j]
  PROVE  /\ Sum(c, S) \in Int
         /\ Sum(d, S) = IF i \in S THEN Sum(c, S) - c[i] + d[i] ELSE Sum(c, S)
<1>. DEFINE b == [j \in S |-> c[j]]
            e == [j \in S |-> d[j]]
<1>1. Amount \subseteq Int
  BY DEF Amount
<1>2. b \in [S -> Int] /\ d[i] \in Int /\ IsFiniteSet(S)
  BY <1>1, NetworkAssumption, FS_Subset
<1>3. Sum(c, S) = SumOf(b) /\ Sum(d, S) = SumOf(e)
  BY TotalIsSum, Zenon DEF Sum
<1>4. CASE i \in S
  <2>1. e = [b EXCEPT ![i] = d[i]] /\ b[i] = c[i]
    BY <1>4
  <2>2. SumOf(b) \in Int /\ SumOf([b EXCEPT ![i] = d[i]]) = SumOf(b) - b[i] + d[i]
    <3>. HIDE DEF b
    <3>. QED BY <1>2, <1>4, SumUpdate
  <2>. HIDE DEF b, e
  <2>. QED BY <1>3, <1>4, <2>1, <2>2
<1>5. CASE i \notin S
  <2>1. e = b
    BY <1>5
  <2>2. SumOf(b) \in Int
    <3>. HIDE DEF b
    <3>1. \A k \in S : SumOf(b) \in Int
      BY <1>2, SumUpdate
    <3>2. S = {} => SumOf(b) = 0
      BY <1>2, SumOfNothing
    <3>. QED BY <3>1, <3>2
  <2>. HIDE DEF b, e
  <2>. QED BY <1>3, <1>5, <2>1, <2>2
<1>. QED BY <1>4, <1>5

-----------------------------------------------------------------------------
(* Explains for a user who owns the accounts mine.                          *)
Others(mine, log, c) ==
    \A i \in Nodes \ mine : c[i] = (InitialCredit[i] + Sent(log, {i})) % Modulus
Mine(mine, log, c) ==
    (Sum(c, mine) + Sent(log, Nodes \ mine)) % Modulus
        = Sum(InitialCredit, mine) % Modulus

LEMMA ExplainsParts ==
  ASSUME NEW log, NEW c
  PROVE  Explains(log, c) <=> /\ Others(AccountsOf(user), log, c)
                              /\ Mine(AccountsOf(user), log, c)
  BY DEF Explains, Others, Mine

LEMMA NothingToExplain ==
  ASSUME NEW mine \in SUBSET Nodes
  PROVE  Others(mine, <<>>, InitialCredit) /\ Mine(mine, <<>>, InitialCredit)
<1>1. InitialCredit \in [Nodes -> Amount] /\ Amount \subseteq Int
  BY FilesAssumption DEF Amount
<1>2. ASSUME NEW i \in Nodes \ mine
      PROVE  InitialCredit[i] = (InitialCredit[i] + Sent(<<>>, {i})) % Modulus
  <2>1. InitialCredit[i] \in Amount /\ InitialCredit[i] \in Int
    BY <1>1
  <2>2. InitialCredit[i] + Sent(<<>>, {i}) = InitialCredit[i]
    BY <2>1, SentNothing
  <2>. QED BY <2>1, <2>2, AmountModulo
<1>3. ASSUME NEW i \in Nodes PROVE Sum(InitialCredit, mine) \in Int
  BY <1>1, SumChange
<1>4. Nodes = {} => Sum(InitialCredit, mine) = 0
  <2>1. SUFFICES ASSUME Nodes = {} PROVE Sum(InitialCredit, mine) = 0
    OBVIOUS
  <2>. DEFINE b == [i \in mine |-> InitialCredit[i]]
  <2>2. b \in [{} -> Int]
    BY <2>1
  <2>3. Sum(InitialCredit, mine) = SumOf(b)
    BY TotalIsSum, Zenon DEF Sum
  <2>. HIDE DEF b
  <2>. QED BY <2>2, <2>3, SumOfNothing
<1>5. Sum(InitialCredit, mine) + Sent(<<>>, Nodes \ mine) = Sum(InitialCredit, mine)
  BY <1>3, <1>4, SentNothing
<1>. QED BY <1>2, <1>5 DEF Others, Mine

(* The step of a transfer from f to t and its entry in the log.             *)
LEMMA PaymentIsExplained ==
  ASSUME NEW mine \in SUBSET Nodes, NEW log \in Seq(Entry),
         NEW c \in [Nodes -> Amount], NEW f \in mine, NEW t \in Nodes \ {f},
         NEW a \in Amounts, a < c[f],
         Others(mine, log, c), Mine(mine, log, c)
  PROVE  LET l == Append(log, [to |-> t, amount |-> a])
             d == [c EXCEPT ![f] = Plus(@, Minus(a)), ![t] = Plus(@, a)]
         IN  Others(mine, l, d) /\ Mine(mine, l, d)
<1>. DEFINE r == [to |-> t, amount |-> a]
            l == Append(log, r)
            u == Plus(c[f], Minus(a))
            v == Plus(c[t], a)
            e == [c EXCEPT ![f] = u]
            d == [e EXCEPT ![t] = v]
<1>1. /\ a \in Amount /\ f \in Nodes /\ t \in Nodes /\ f # t
      /\ c[f] \in Amount /\ c[t] \in Amount
  BY FilesAssumption
<1>2. u \in Amount /\ v \in Amount
  BY <1>1, PlusType
<1>3. u = c[f] - a
  BY <1>1, ModulusAssumption DEF Plus, Minus, Amount
<1>4. /\ e \in [Nodes -> Amount] /\ e[t] = c[t] /\ d \in [Nodes -> Amount]
      /\ \A i \in Nodes \ mine : d[i] = IF i = t THEN v ELSE c[i]
  <2>. HIDE DEF u, v
  <2>. QED BY <1>1, <1>2
<1>5. d = [c EXCEPT ![f] = Plus(@, Minus(a)), ![t] = Plus(@, a)]
  BY <1>1
<1>6. r \in Entry /\ r.to = t /\ r.amount = a
  BY <1>1 DEF Entry
<1>7. ASSUME NEW S
      PROVE  /\ Sent(log, S) \in Int
             /\ Sent(l, S) = Sent(log, S) + (IF t \in S THEN a ELSE 0)
  <2>. HIDE DEF r
  <2>. QED BY <1>6, SentAppend
<1>. HIDE DEF r, l, d, e, u
<1>8. Others(mine, l, d)
  <2>. SUFFICES ASSUME NEW i \in Nodes \ mine
                PROVE  d[i] = (InitialCredit[i] + Sent(l, {i})) % Modulus
    BY DEF Others
  <2>1. c[i] = (InitialCredit[i] + Sent(log, {i})) % Modulus
    BY DEF Others
  <2>2. InitialCredit[i] \in Int /\ a \in Int /\ Sent(log, {i}) \in Int
    BY <1>1, <1>7, FilesAssumption DEF Amount
  <2>3. CASE i = t
    <3>1. InitialCredit[i] + Sent(l, {i}) = (InitialCredit[i] + Sent(log, {i})) + a
      BY <1>7, <2>2, <2>3
    <3>. DEFINE x == InitialCredit[i] + Sent(log, {i})
    <3>2. x \in Int /\ c[i] = x % Modulus
      BY <2>1, <2>2
    <3>. HIDE DEF x
    <3>3. (x + a) % Modulus = Plus(c[i], a)
      BY <1>1, <3>2, PlusIsModular
    <3>4. d[i] = Plus(c[i], a)
      BY <1>4, <2>3
    <3>. QED BY <3>1, <3>3, <3>4 DEF x
  <2>4. CASE i # t
    <3>1. Sent(l, {i}) = Sent(log, {i})
      BY <1>7, <2>2, <2>4
    <3>. QED BY <1>4, <2>1, <2>4, <3>1
  <2>. QED BY <2>3, <2>4
<1>9. Mine(mine, l, d)
  <2>. DEFINE N == Nodes \ mine
              x == Sum(c, mine) + Sent(log, N)
  <2>1. /\ Sum(c, mine) \in Int /\ Sum(e, mine) \in Int
        /\ Sum(e, mine) = Sum(c, mine) - c[f] + u
    <3>1. /\ \A j \in Nodes \ {f} : e[j] = c[j]
          /\ e[f] = u /\ c[f] \in Int /\ u \in Int
      BY <1>1, <1>2 DEF e, Amount
    <3>2. Sum(c, mine) \in Int /\ Sum(e, mine) = Sum(c, mine) - c[f] + e[f]
      BY <1>1, <1>4, <3>1, SumChange
    <3>. QED BY <3>1, <3>2
  <2>2. Sum(d, mine) = IF t \in mine THEN Sum(e, mine) - c[t] + v ELSE Sum(e, mine)
    <3>1. (\A j \in Nodes \ {t} : d[j] = e[j]) /\ d[t] = v
      BY <1>1, <1>4 DEF d
    <3>2. Sum(d, mine) = IF t \in mine THEN Sum(e, mine) - e[t] + d[t] ELSE Sum(e, mine)
      BY <1>1, <1>4, <3>1, SumChange
    <3>. QED BY <1>4, <3>1, <3>2
  <2>3. /\ Sent(log, N) \in Int
        /\ Sent(l, N) = Sent(log, N) + (IF t \in mine THEN 0 ELSE a)
    BY <1>1, <1>7
  <2>4. a \in Int /\ c[f] \in Int /\ c[t] \in Int /\ Modulus \in Int
    BY <1>1, ModulusAssumption DEF Amount
  <2>5. x \in Int
    BY <2>1, <2>3
  <2>6. v = c[t] + a \/ v = c[t] + a - Modulus
    BY DEF Plus
  <2>. HIDE DEF N, v
  <2>7. \/ Sum(d, mine) + Sent(l, N) = x
        \/ Sum(d, mine) + Sent(l, N) = x - Modulus
    <3>1. CASE t \in mine
      BY <1>3, <2>1, <2>2, <2>3, <2>4, <2>6, <3>1, SMTT(60)
    <3>2. CASE t \notin mine
      BY <1>3, <2>1, <2>2, <2>3, <2>4, <3>2
    <3>. QED BY <3>1, <3>2
  <2>8. x % Modulus = Sum(InitialCredit, mine) % Modulus
    BY DEF Mine, N
  <2>. HIDE DEF x
  <2>9. (x - Modulus) % Modulus = x % Modulus
    BY <2>5, OnceAround
  <2>10. (Sum(d, mine) + Sent(l, N)) % Modulus = Sum(InitialCredit, mine) % Modulus
    BY <2>7, <2>8, <2>9
  <2>. QED BY <2>10 DEF Mine, N
<1>. QED BY <1>5, <1>8, <1>9 DEF l, r

(* The books at every place of main: between the payment and its entry in   *)
(* the log they are explained by the log with the entry.                    *)
Books ==
    /\ pc \in {"files", "login"} => credit = InitialCredit /\ log_data = <<>>
    /\ pc \in {"from", "amount", "to", "transfer", "calculate", "pay", "again",
               "output", "end"} => Explains(log_data, credit)
    /\ pc = "display" => Explains(Logged, credit)
    /\ pc \in {"from", "amount", "to", "transfer", "calculate", "pay", "again",
               "output", "end"} => displayed = Shown(user)
    /\ IF pc = "end" THEN file = Written ELSE file = NoFile

LEMMA BooksAreKept ==
  ASSUME TypeOK, Asked, CoverIsCurrent, Books, [Next]_vars
  PROVE  Books'
<1>. USE DEF Books, questions, records, Goes, Opens
<1>0. ASSUME user' = user, NEW log, NEW c
      PROVE  (Explains(log, c))' <=> Explains(log, c)
  BY <1>0 DEF Explains, AccountsOf
<1>1. CASE ReadFiles
  BY <1>1 DEF ReadFiles
<1>2. ASSUME NEW u \in Users, NEW p \in DOMAIN Passwords, Login(u, p) PROVE Books'
  <2>1. credit' = InitialCredit /\ log_data' = <<>> /\ pc' = "from"
    BY <1>2 DEF Login
  <2>. DEFINE mine == AccountsOf(user')
  <2>2. mine \in SUBSET Nodes
    BY DEF AccountsOf
  <2>3. Others(mine, <<>>, InitialCredit) /\ Mine(mine, <<>>, InitialCredit)
    <3>. HIDE DEF mine
    <3>. QED BY <2>2, NothingToExplain
  <2>4. Explains(log_data, credit)'
    BY <2>1, <2>3 DEF Explains, Others, Mine, AccountsOf
  <2>5. displayed' = Shown(user)'
    BY <1>2 DEF Login, Shown, AccountsOf
  <2>. QED BY <1>2, <2>1, <2>4, <2>5 DEF Login
<1>3. ASSUME NEW i \in Nodes, ChooseFrom(i) PROVE Books'
  BY <1>0, <1>3 DEF ChooseFrom, Shown, AccountsOf
<1>4. ASSUME NEW a \in Amounts, ChooseAmount(a) PROVE Books'
  BY <1>0, <1>4 DEF ChooseAmount, Shown, AccountsOf
<1>5. ASSUME NEW t \in Nodes, NEW u \in Users, ChooseTo(t, u) PROVE Books'
  BY <1>0, <1>5 DEF ChooseTo, Shown, AccountsOf
<1>6. CASE AgainYes \/ AgainNo
  BY <1>0, <1>6 DEF AgainYes, AgainNo, Shown, AccountsOf
<1>7. CASE KeptPaths \/ StartCalculation \/ EndCalculation
  BY <1>0, <1>7 DEF KeptPaths, StartCalculation, EndCalculation, Shown, AccountsOf
<1>8. CASE Pay
  <2>. DEFINE mine == AccountsOf(user)
              l == Append(log_data, [to |-> index_to, amount |-> amount])
  <2>1. /\ mine \in SUBSET Nodes /\ index_from \in mine
        /\ index_to \in Nodes \ {index_from} /\ amount \in Amounts
        /\ amount < credit[index_from]
    BY <1>8 DEF Pay, Asked, CoverIsCurrent, AccountsOf
  <2>2. Others(mine, log_data, credit) /\ Mine(mine, log_data, credit)
    BY <1>8, ExplainsParts DEF Pay
  <2>3. log_data \in Seq(Entry) /\ credit \in [Nodes -> Amount]
    BY DEF TypeOK, Entry
  <2>4. Others(mine, l, Paid) /\ Mine(mine, l, Paid)
    <3>. HIDE DEF mine
    <3>. QED BY <2>1, <2>2, <2>3, PaymentIsExplained DEF Paid
  <2>5. Explains(l, Paid)
    BY <2>4, ExplainsParts
  <2>6. /\ user' = user /\ credit' = Paid /\ log_data' = log_data
        /\ index_to' = index_to /\ amount' = amount
    BY <1>8 DEF Pay
  <2>7. Explains(Logged, credit)'
    BY <2>5, <2>6 DEF Explains, AccountsOf, Logged
  <2>. QED BY <1>8, <2>7 DEF Pay
<1>9. CASE Display
  <2>1. user' = user /\ credit' = credit /\ log_data' = Logged
    BY <1>9 DEF Display
  <2>2. Explains(Logged, credit)
    BY <1>9 DEF Display
  <2>3. Explains(log_data, credit)'
    BY <2>1, <2>2 DEF Explains, AccountsOf
  <2>4. displayed' = Shown(user)'
    BY <1>9 DEF Display, Shown, AccountsOf
  <2>. QED BY <1>9, <2>3, <2>4 DEF Display
<1>10. CASE WriteOutput
  BY <1>0, <1>10 DEF WriteOutput, Written, Shown, AccountsOf
<1>11. CASE UNCHANGED vars
  BY <1>0, <1>11 DEF vars, Written, Shown, AccountsOf, Logged
<1>. QED BY <1>1, <1>2, <1>3, <1>4, <1>5, <1>6, <1>7, <1>8, <1>9, <1>10,
            <1>11 DEF Next, Question, Transaction

LEMMA BooksAgree == Books /\ TypeOK => LogExplainsAccounts
  BY DEF Books, TypeOK, LogExplainsAccounts, Written, Explains, NoFile

(* After any number of transactions, between any accounts, whether or not   *)
(* the sums wrap, the credits are the opening credits with exactly the      *)
(* payments of the log; so are those in the output file, and what the user  *)
(* is shown is true.                                                        *)
THEOREM LogIsComplete == Spec => []LogExplainsAccounts
<1>1. Init => TypeOK /\ Asked /\ CoverIsCurrent /\ Books
  BY InitTypeOK, InitAsked DEF Init, CoverIsCurrent, Books
<1>2. /\ TypeOK /\ Asked /\ CoverIsCurrent /\ Books /\ [Next]_vars
      => (TypeOK /\ Asked /\ CoverIsCurrent /\ Books)'
  BY NextTypeOK, NextAsked, NextCover, BooksAreKept
<1>3. TypeOK /\ Books => LogExplainsAccounts
  BY BooksAgree
<1>. QED BY <1>1, <1>2, <1>3, PTL DEF Spec

-----------------------------------------------------------------------------
(* The walk of main along the parents p.parent from i to t, and its cost.   *)
IsWalk(w, n, p, i, t) ==
    /\ w \in [0 .. n -> Nodes] /\ w[0] = i /\ w[n] = t
    /\ \A m \in 0 .. n - 1 : w[m] # t /\ w[m + 1] = p.parent[w[m]]

Cost(w, n) == [m \in 0 .. n - 1 |-> Weight[<<w[m], w[m + 1]>>]]

(* Every node has a parent, which is nearer to t.                           *)
IsWholeTree(t, p) ==
    /\ p \in Columns /\ p.distance[t] = 0 /\ IsTreeTo(t, p)
    /\ \A i \in Nodes : p.distance[i] < Infinity

LEMMA ParentIsNearer ==
  ASSUME NEW t \in Nodes, NEW p, IsWholeTree(t, p), NEW i \in Nodes \ {t}
  PROVE  /\ p.parent[i] \in Nodes
         /\ Weight[<<i, p.parent[i]>>] \in Nat \ {0}
         /\ p.distance[i] \in Nat /\ p.distance[p.parent[i]] \in Nat
         /\ p.distance[i] = p.distance[p.parent[i]] + Weight[<<i, p.parent[i]>>]
<1>1. \A j \in Nodes : p.distance[j] \in Nat /\ p.distance[j] # Infinity
  BY NetworkAssumption DEF IsWholeTree, Columns
<1>2. /\ p.parent[i] \in Neighbours(i)
      /\ p.distance[i] = p.distance[p.parent[i]] + Weight[<<i, p.parent[i]>>]
  BY <1>1 DEF IsWholeTree, IsTreeTo
<1>3. p.parent[i] \in Nodes /\ Weight[<<i, p.parent[i]>>] # 0
  BY <1>2 DEF Neighbours
<1>4. Weight[<<i, p.parent[i]>>] \in Nat
  BY <1>3, NetworkAssumption
<1>. QED BY <1>1, <1>2, <1>3, <1>4

(* A walk visits no more nodes than there are nearer ones.                  *)
LEMMA WalkExists ==
  ASSUME NEW t \in Nodes, NEW p, IsWholeTree(t, p), NEW f \in Nodes \ {t}
  PROVE  \E n \in 1 .. Cardinality(Nodes) : \E w : IsWalk(w, n, p, f, t)
<1>. DEFINE d == p.distance
            Nearer(i) == {k \in Nodes : d[k] < d[i]}
            Rank(i) == Cardinality(Nearer(i))
            Arrives(i) == \E n \in 0 .. Rank(i) : \E w : IsWalk(w, n, p, i, t)
            G == {k \in Nat : \A i \in Nodes : Rank(i) <= k => Arrives(i)}
            N == Cardinality(Nodes)
<1>0. \A i \in Nodes : IsFiniteSet(Nearer(i))
  BY NetworkAssumption, FS_Subset
<1>1. N \in Nat /\ \A i \in Nodes : Rank(i) \in Nat /\ Rank(i) <= N
  <2>1. \A i \in Nodes : Nearer(i) \in SUBSET Nodes
    OBVIOUS
  <2>. HIDE DEF Nearer
  <2>. QED BY <1>0, <2>1, NetworkAssumption, FS_Subset, FS_CardinalityType
<1>2. ASSUME NEW i \in Nodes \ {t}
      PROVE  p.parent[i] \in Nodes /\ Rank(p.parent[i]) < Rank(i)
  <2>. DEFINE k == p.parent[i]
  <2>1. k \in Nodes /\ d[k] < d[i] /\ d[k] \in Nat /\ d[i] \in Nat
    <3>1. /\ k \in Nodes /\ Weight[<<i, k>>] \in Nat \ {0}
          /\ d[i] \in Nat /\ d[k] \in Nat /\ d[i] = d[k] + Weight[<<i, k>>]
      BY ParentIsNearer
    <3>. HIDE DEF k, d
    <3>. QED BY <3>1
  <2>2. \A j \in Nodes : d[j] \in Nat
    BY NetworkAssumption DEF IsWholeTree, Columns
  <2>. HIDE DEF k, d
  <2>3. Nearer(k) \in SUBSET Nearer(i) /\ k \in Nearer(i) /\ k \notin Nearer(k)
    BY <2>1, <2>2
  <2>4. IsFiniteSet(Nearer(i)) /\ Rank(i) \in Nat /\ Rank(k) \in Nat
    BY <1>0, <1>1, <2>1
  <2>5. Rank(k) <= Rank(i) /\ (Rank(i) = Rank(k) => Nearer(i) = Nearer(k))
    <3>. HIDE DEF Nearer
    <3>. QED BY <2>3, <2>4, FS_Subset
  <2>6. Rank(k) < Rank(i)
    <3>. HIDE DEF Nearer, Rank
    <3>. QED BY <2>3, <2>4, <2>5
  <2>. QED BY <2>1, <2>6 DEF k
<1>. HIDE DEF Rank, d, N
<1>3. Arrives(t)
  <2>. DEFINE w == [m \in 0 .. 0 |-> t]
  <2>1. IsWalk(w, 0, p, t, t)
    BY DEF IsWalk
  <2>2. 0 \in 0 .. Rank(t)
    BY <1>1
  <2>. HIDE DEF w
  <2>. QED BY <2>1, <2>2
<1>4. ASSUME NEW i \in Nodes \ {t}, Arrives(p.parent[i]) PROVE Arrives(i)
  <2>. DEFINE k == p.parent[i]
  <2>1. PICK n \in 0 .. Rank(k) : \E w : IsWalk(w, n, p, k, t)
    BY <1>4
  <2>2. PICK w : IsWalk(w, n, p, k, t)
    BY <2>1
  <2>. DEFINE v == [m \in 0 .. n + 1 |-> IF m = 0 THEN i ELSE w[m - 1]]
  <2>3. /\ n \in Nat /\ w \in [0 .. n -> Nodes] /\ w[0] = k /\ w[n] = t
        /\ \A m \in 0 .. n - 1 : w[m] # t /\ w[m + 1] = p.parent[w[m]]
    BY <2>2 DEF IsWalk
  <2>. HIDE DEF k
  <2>4. v \in [0 .. n + 1 -> Nodes] /\ v[0] = i /\ v[n + 1] = t
    BY <2>3
  <2>5. ASSUME NEW m \in 0 .. n PROVE v[m] # t /\ v[m + 1] = p.parent[v[m]]
    <3>1. v[m + 1] = w[m]
      BY <2>3
    <3>2. CASE m = 0
      BY <2>3, <2>4, <3>1, <3>2 DEF k
    <3>3. CASE m # 0
      <4>1. m - 1 \in 0 .. n - 1 /\ (m - 1) + 1 = m /\ v[m] = w[m - 1]
        BY <2>3, <3>3
      <4>2. w[m - 1] # t /\ w[(m - 1) + 1] = p.parent[w[m - 1]]
        BY <2>3, <4>1
      <4>. HIDE DEF v
      <4>. QED BY <3>1, <4>1, <4>2
    <3>. QED BY <3>2, <3>3
  <2>6. IsWalk(v, n + 1, p, i, t)
    <3>1. (n + 1) - 1 = n
      BY <2>3
    <3>. HIDE DEF v
    <3>. QED BY <2>4, <2>5, <3>1 DEF IsWalk
  <2>7. n + 1 \in 0 .. Rank(i)
    BY <1>1, <1>2, <2>3 DEF k
  <2>. HIDE DEF v
  <2>. QED BY <2>6, <2>7
<1>. HIDE DEF Arrives
<1>5. 0 \in G
  <2>1. ASSUME NEW i \in Nodes, Rank(i) <= 0 PROVE i = t
    <3>1. SUFFICES ASSUME i # t PROVE FALSE
      OBVIOUS
    <3>. QED BY <1>1, <1>2, <2>1, <3>1
  <2>. QED BY <1>3, <2>1
<1>6. ASSUME NEW k \in Nat, k \in G PROVE k + 1 \in G
  <2>1. ASSUME NEW i \in Nodes \ {t}, Rank(i) <= k + 1 PROVE Arrives(i)
    <3>1. p.parent[i] \in Nodes /\ Rank(p.parent[i]) < Rank(i)
      BY <1>2
    <3>2. Rank(p.parent[i]) <= k
      BY <1>1, <2>1, <3>1
    <3>3. Arrives(p.parent[i])
      BY <1>6, <3>1, <3>2
    <3>. QED BY <1>4, <3>3
  <2>. QED BY <1>3, <2>1
<1>7. Arrives(f)
  <2>1. Rank(f) \in Nat /\ Rank(f) <= Rank(f)
    BY <1>1
  <2>2. Rank(f) \in G
    <3>. HIDE DEF G
    <3>. QED BY <1>5, <1>6, <2>1, NaturalInduction
  <2>. QED BY <2>1, <2>2
<1>8. PICK n \in 0 .. Rank(f) : \E w : IsWalk(w, n, p, f, t)
  BY <1>7 DEF Arrives
<1>9. n # 0
  BY <1>8 DEF IsWalk
<1>10. n \in 1 .. N
  BY <1>1, <1>9
<1>. QED BY <1>8, <1>10 DEF N

(* The weights along it add up to the difference of the distances.          *)
LEMMA WalkCost ==
  ASSUME NEW t \in Nodes, NEW p, IsWholeTree(t, p),
         NEW i \in Nodes, NEW n \in Nat, NEW w, IsWalk(w, n, p, i, t)
  PROVE  SumOf(Cost(w, n)) = p.distance[i]
<1>. DEFINE d == p.distance
            G == {k \in Nat : k <= n => SumOf(Cost(w, k)) = d[w[0]] - d[w[k]]}
<1>1. /\ w \in [0 .. n -> Nodes] /\ w[0] = i /\ w[n] = t
      /\ \A m \in 0 .. n - 1 : w[m] # t /\ w[m + 1] = p.parent[w[m]]
  BY DEF IsWalk
<1>2. \A j \in Nodes : d[j] \in Nat
  BY NetworkAssumption DEF IsWholeTree, Columns
<1>3. ASSUME NEW m \in 0 .. n - 1
      PROVE  /\ Weight[<<w[m], w[m + 1]>>] \in Int
             /\ d[w[m]] = d[w[m + 1]] + Weight[<<w[m], w[m + 1]>>]
  <2>1. w[m] \in Nodes \ {t} /\ w[m + 1] = p.parent[w[m]]
    BY <1>1
  <2>. QED BY <2>1, ParentIsNearer
<1>. HIDE DEF d
<1>4. 0 \in G
  <2>1. Cost(w, 0) \in [{} -> Int]
    BY DEF Cost
  <2>2. SumOf(Cost(w, 0)) = 0
    BY <2>1, SumOfNothing
  <2>. QED BY <1>1, <1>2, <2>2
<1>5. ASSUME NEW k \in Nat, k \in G PROVE k + 1 \in G
  <2>1. SUFFICES ASSUME k + 1 <= n
                 PROVE  SumOf(Cost(w, k + 1)) = d[w[0]] - d[w[k + 1]]
    OBVIOUS
  <2>. DEFINE c == Cost(w, k + 1)
              b == [m \in (0 .. k) \ {k} |-> c[m]]
  <2>2. k \in 0 .. n - 1 /\ (k + 1) - 1 = k /\ k \in 0 .. k
    BY <2>1
  <2>3. /\ c \in [0 .. k -> Int] /\ IsFiniteSet(0 .. k)
        /\ c[k] = Weight[<<w[k], w[k + 1]>>]
    <3>1. \A m \in 0 .. k : Weight[<<w[m], w[m + 1]>>] \in Int
      BY <1>3, <2>2
    <3>2. c = [m \in 0 .. k |-> Weight[<<w[m], w[m + 1]>>]]
      BY <2>2 DEF Cost
    <3>3. IsFiniteSet(0 .. k)
      BY FS_Interval
    <3>. QED BY <2>2, <3>1, <3>2, <3>3
  <2>4. b = Cost(w, k)
    <3>1. (0 .. k) \ {k} = 0 .. k - 1
      OBVIOUS
    <3>2. \A m \in 0 .. k - 1 : c[m] = Weight[<<w[m], w[m + 1]>>]
      BY <2>2 DEF Cost
    <3>. HIDE DEF c
    <3>. QED BY <3>1, <3>2 DEF Cost
  <2>. HIDE DEF c
  <2>5. SumOf(b) \in Int /\ SumOf(c) = c[k] + SumOf(b)
    <3>. DEFINE S == 0 .. k
    <3>1. c \in [S -> Int] /\ IsFiniteSet(S) /\ k \in S /\ b = [m \in S \ {k} |-> c[m]]
      BY <2>2, <2>3
    <3>. HIDE DEF S, b
    <3>. QED BY <3>1, SumWithout, ZenonT(60)
  <2>. HIDE DEF b
  <2>6. SumOf(b) = d[w[0]] - d[w[k]]
    BY <1>5, <2>1, <2>4
  <2>7. d[w[0]] \in Int /\ d[w[k]] \in Int /\ d[w[k + 1]] \in Int
    BY <1>1, <1>2, <2>1
  <2>8. d[w[k]] = d[w[k + 1]] + c[k] /\ c[k] \in Int
    BY <1>3, <2>2, <2>3
  <2>. QED BY <2>5, <2>6, <2>7, <2>8 DEF c
<1>6. n \in G
  <2>. HIDE DEF G
  <2>. QED BY <1>4, <1>5, NaturalInduction
<1>7. d[t] = 0 /\ d[i] \in Nat
  BY <1>2 DEF IsWholeTree, d
<1>. QED BY <1>1, <1>6, <1>7 DEF d

-----------------------------------------------------------------------------
(* No shortest path is as long as INFINITY.                                 *)
AllNear == \A t, i \in Nodes : Shortest[t][i] < Infinity

LEMMA KeptWalkArrives ==
  ASSUME AllNear, TypeOK, Asked, KeptPathsAreRight
  PROVE  WalkArrives
<1>. SUFFICES ASSUME pc = "pay"
              PROVE  \E n \in 1 .. Cardinality(Nodes) : \E w \in Walks(n) :
                        /\ w[n] = index_to
                        /\ Total([m \in 0 .. n - 1 |-> Weight[<<w[m], w[m + 1]>>]])
                              = Shortest[index_to][index_from]
  BY DEF WalkArrives
<1>. DEFINE t == index_to
            p == paths[t]
<1>1. t \in Nodes /\ index_from \in Nodes \ {t} /\ p \in Columns /\ p.distance[t] = 0
  BY DEF Asked, TypeOK, AccountsOf, AlreadyComputed
<1>2. IsTreeTo(t, p) /\ p.distance = Shortest[t]
  BY <1>1 DEF KeptPathsAreRight, AlreadyComputed, IsTreeTo
<1>3. IsWholeTree(t, p)
  BY <1>1, <1>2 DEF AllNear, IsWholeTree
<1>4. PICK n \in 1 .. Cardinality(Nodes) : \E w : IsWalk(w, n, p, index_from, t)
  <2>. HIDE DEF t, p
  <2>. QED BY <1>1, <1>3, WalkExists
<1>5. PICK w : IsWalk(w, n, p, index_from, t)
  BY <1>4
<1>6. w \in Walks(n) /\ w[n] = t
  BY <1>5 DEF IsWalk, Walks
<1>7. SumOf(Cost(w, n)) = p.distance[index_from]
  <2>1. n \in Nat
    OBVIOUS
  <2>. HIDE DEF t, p
  <2>. QED BY <1>1, <1>3, <1>5, <2>1, WalkCost
<1>8. Total([m \in 0 .. n - 1 |-> Weight[<<w[m], w[m + 1]>>]])
         = Shortest[index_to][index_from]
  BY <1>2, <1>7, TotalIsSum DEF Cost
<1>. QED BY <1>6, <1>8

(* In a ring without distances of INFINITY main's walk along the parents    *)
(* ends at the receiving node, reads no parent of a node that has none, and *)
(* costs the shortest distance, whichever accounts were paid before.        *)
THEOREM WalkAlwaysArrives == ASSUME IsRing, AllNear PROVE Spec => []WalkArrives
<1>1. TypeOK /\ Asked /\ KeptPathsAreRight => WalkArrives
  BY KeptWalkArrives
<1>2. Spec => []Asked
  <2>1. TypeOK /\ Asked /\ [Next]_vars => Asked'
    BY NextAsked
  <2>. QED BY <2>1, InitAsked, TypeCorrect, PTL DEF Spec
<1>. QED BY <1>1, <1>2, TypeCorrect, KeptPathsStayRight, PTL

-----------------------------------------------------------------------------
LEMMA PayIsTransfer ==
  ASSUME TypeOK, Asked, CoverIsCurrent, Pay
  PROVE  Ledger!Next
<1>1. /\ index_from \in Nodes /\ index_to \in Nodes /\ index_from # index_to
      /\ amount \in Amount /\ amount < credit[index_from]
  BY FilesAssumption DEF Pay, Goes, Asked, CoverIsCurrent, AccountsOf
<1>2. Plus(credit[index_from], Minus(amount)) = credit[index_from] - amount
  <2>1. credit[index_from] \in Amount
    BY <1>1 DEF TypeOK
  <2>. QED BY <1>1, <2>1, ModulusAssumption DEF Plus, Minus, Amount
<1>3. credit' = Ledger!Paid(credit, index_from, index_to, amount)
  BY <1>1, <1>2 DEF Pay, Paid, TypeOK, Ledger!Paid, Plus, Ledger!Plus
<1>4. Ledger!Transfer(index_from, index_to, amount)
  BY <1>1, <1>3 DEF Ledger!Transfer
<1>. QED BY <1>1, <1>4 DEF Ledger!Next, Amount, Ledger!Amount

(* A session implements the ledger: its payments are the ledger's transfers *)
(* and nothing else touches a credit.                                       *)
THEOREM LedgerImplemented == Spec => ImplementsLedger
<1>1. Init => Ledger!Init
  BY DEF Init, Ledger!Init
<1>2. TypeOK /\ Asked /\ CoverIsCurrent /\ [Next]_vars => [Ledger!Next]_credit
  <2>1. SUFFICES ASSUME TypeOK, Asked, CoverIsCurrent, [Next]_vars
                 PROVE  Ledger!Next \/ credit' = credit
    OBVIOUS
  <2>2. CASE Pay
    BY <2>1, <2>2, PayIsTransfer
  <2>3. Pay \/ UNCHANGED credit
    BY <2>1 DEF Next, Question, Transaction, vars, ReadFiles, Login, ChooseFrom,
                ChooseAmount, ChooseTo, AgainYes, AgainNo, KeptPaths,
                StartCalculation, EndCalculation, Display, WriteOutput
  <2>. QED BY <2>2, <2>3
<1>3. Spec => []Asked
  <2>1. TypeOK /\ Asked /\ [Next]_vars => Asked'
    BY NextAsked
  <2>. QED BY <2>1, InitAsked, TypeCorrect, PTL DEF Spec
<1>. QED BY <1>1, <1>2, <1>3, TypeCorrect, AmountStaysCovered, PTL
         DEF Spec, ImplementsLedger, Ledger!Spec
=============================================================================
