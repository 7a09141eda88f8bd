-------------------------- MODULE AckLedger_proofs --------------------------
(***************************************************************************)
(* Theorems about the acks of AsynchBellmanFord: that the source counts one *)
(* ack per neighbour, in every network; and that in a ring every update is  *)
(* paid back, so that the computation is over when the source says so.      *)
(***************************************************************************)
EXTENDS AsynchBellmanFord_proofs, FiniteInduction

Bit(b) == IF b THEN 1 ELSE 0

(* The messages and the entries that the ledger of an edge counts. *)
Updates == {m \in Message : m.type = "update"}
Acks    == {m \in Message : m.type = "ack"}
Ends    == {m \in Message : m.type = "finished"}

For(i)    == {c \in Counter : c.node_index = i}
NotFor(i) == {c \in Counter : c.node_index # i}

Debt(i, k) == Count(chan[<<i, k>>], Updates) + Count(counter_acks[k], For(i))
              + Count(chan[<<k, i>>], Acks)

(* Entries that keep i from acknowledging while k has not. *)
Cover(i, k) == Count(counter_acks[i], NotFor(k))

(* Every message is of one of three kinds. *)
LEMMA KindFacts ==
    /\ Ack \in Acks /\ Finished \in Ends /\ \A w \in 0 .. Infinity : Update(w) \in Updates
    /\ Acks \cap Updates = {} /\ Ends \cap Updates = {} /\ Ends \cap Acks = {}
    /\ Acks = {Ack} /\ Ends = {Finished}
    /\ Message = Updates \cup Acks \cup Ends
  BY DEF Acks, Ends, Updates, Message, Ack, Finished, Update

(* What the properties count, in terms of Count. *)
LEMMA DebtFacts ==
  ASSUME TypeOK, NEW i \in Nodes, NEW k \in Nodes, <<i, k>> \in Edges
  PROVE  /\ Unacknowledged(i, k) = Debt(i, k)
         /\ Count(chan[<<i, k>>], Updates) \in Nat
         /\ Count(chan[<<i, k>>], Acks) \in Nat
         /\ Count(chan[<<k, i>>], Acks) \in Nat
         /\ Count(counter_acks[k], For(i)) \in Nat
         /\ Debt(i, k) \in Nat
         /\ Cover(i, k) \in Nat
         /\ Cover(i, k) = Cardinality({n \in DOMAIN counter_acks[i] :
                                          counter_acks[i][n].node_index # k})
<1>1. /\ <<k, i>> \in Edges /\ chan[<<i, k>>] \in Seq(Message)
      /\ chan[<<k, i>>] \in Seq(Message)
      /\ counter_acks[k] \in Seq(Counter) /\ counter_acks[i] \in Seq(Counter)
  BY EdgeFacts DEF TypeOK
<1>2. \A e \in Edges : InFlight(e, "update") = Places(chan[e], Updates)
                       /\ InFlight(e, "ack") = Places(chan[e], Acks)
  <2>1. SUFFICES ASSUME NEW e \in Edges
                 PROVE  /\ InFlight(e, "update") = Places(chan[e], Updates)
                        /\ InFlight(e, "ack") = Places(chan[e], Acks)
    OBVIOUS
  <2>2. \A n \in DOMAIN chan[e] : chan[e][n] \in Message
    BY DEF TypeOK
  <2>. QED BY <2>2 DEF InFlight, Places, Updates, Acks
<1>3. {n \in DOMAIN counter_acks[k] : counter_acks[k][n].node_index = i}
         = Places(counter_acks[k], For(i))
  <2>1. \A n \in DOMAIN counter_acks[k] : counter_acks[k][n] \in Counter
    BY <1>1
  <2>. QED BY <2>1 DEF Places, For
<1>4. {n \in DOMAIN counter_acks[i] : counter_acks[i][n].node_index # k}
         = Places(counter_acks[i], NotFor(k))
  <2>1. \A n \in DOMAIN counter_acks[i] : counter_acks[i][n] \in Counter
    BY <1>1
  <2>. QED BY <2>1 DEF Places, NotFor
<1>5. /\ Count(chan[<<i, k>>], Updates) \in Nat
      /\ Count(chan[<<i, k>>], Acks) \in Nat
      /\ Count(chan[<<k, i>>], Acks) \in Nat
      /\ Count(counter_acks[k], For(i)) \in Nat
      /\ Cover(i, k) \in Nat
  BY <1>1, CountType DEF Cover
<1>6. Unacknowledged(i, k) = Debt(i, k)
  BY <1>1, <1>2, <1>3 DEF Unacknowledged, Debt, Count
<1>7. Debt(i, k) \in Nat
  BY <1>5 DEF Debt
<1>8. Cover(i, k) = Cardinality({n \in DOMAIN counter_acks[i] :
                                   counter_acks[i][n].node_index # k})
  BY <1>4 DEF Cover, Count
<1>. QED BY <1>5, <1>6, <1>7, <1>8

(* What a handler that takes the head of <<j, i>> and writes m to the nodes *)
(* of S does to the number of messages of a kind T on a connection.         *)
AnswerCounted(i, j, S, m) ==
    \A T : \A a, b \in Nodes : <<a, b>> \in Edges =>
        Count(chan'[<<a, b>>], T) =
            Count(chan[<<a, b>>], T)
            - Bit(a = j /\ b = i /\ Head(chan[<<j, i>>]) \in T)
            + Bit(a = i /\ b \in S /\ m \in T)

LEMMA AnswerCounts ==
  ASSUME TypeOK, NEW i \in Nodes, NEW j \in Nodes, NEW S, NEW m \in Message,
         <<j, i>> \in Edges, chan[<<j, i>>] # <<>>, Answer(i, j, S, m)
  PROVE  AnswerCounted(i, j, S, m)
<1>. SUFFICES ASSUME NEW T, NEW a \in Nodes, NEW b \in Nodes, <<a, b>> \in Edges
              PROVE  Count(chan'[<<a, b>>], T) =
                        Count(chan[<<a, b>>], T)
                        - Bit(a = j /\ b = i /\ Head(chan[<<j, i>>]) \in T)
                        + Bit(a = i /\ b \in S /\ m \in T)
  BY Zenon DEF AnswerCounted
<1>0. chan \in [Edges -> Seq(Message)]
  BY DEF TypeOK
<1>. DEFINE e == <<a, b>>
            s == chan[e]
<1>1. /\ i # j /\ s \in Seq(Message) /\ Count(s, T) \in Nat
      /\ e = <<j, i>> <=> a = j /\ b = i
  BY <1>0, EdgeFacts, CountType
<1>2. chan'[e] = IF e = <<j, i>> THEN Tail(s)
                 ELSE IF a = i /\ b \in S THEN Append(s, m) ELSE s
  BY DEF Answer
<1>3. CASE e = <<j, i>>
  <2>1. s # <<>> /\ a # i /\ chan'[e] = Tail(s)
    BY <1>1, <1>2, <1>3
  <2>. HIDE DEF s
  <2>2. /\ Tail(s) \in Seq(Message)
        /\ Count(s, T) = Count(Tail(s), T) + (IF Head(s) \in T THEN 1 ELSE 0)
    BY <1>1, <2>1, CountTail
  <2>3. Count(Tail(s), T) \in Nat
    BY <2>2, CountType
  <2>. QED BY <1>1, <1>3, <2>1, <2>2, <2>3 DEF Bit, s
<1>4. CASE e # <<j, i>> /\ a = i /\ b \in S
  <2>1. chan'[e] = Append(s, m) /\ ~ (a = j /\ b = i)
    BY <1>1, <1>2, <1>4
  <2>. HIDE DEF s
  <2>2. Count(Append(s, m), T) = Count(s, T) + (IF m \in T THEN 1 ELSE 0)
    BY <1>1, CountAppend
  <2>. QED BY <1>1, <1>4, <2>1, <2>2 DEF Bit, s
<1>5. CASE e # <<j, i>> /\ ~ (a = i /\ b \in S)
  BY <1>1, <1>2, <1>5 DEF Bit
<1>. QED BY <1>3, <1>4, <1>5

(* Taking an entry out of counter_acks. *)
LEMMA RemoveCounts ==
  ASSUME NEW s \in Seq(Counter), NEW k \in DOMAIN s, NEW T
  PROVE  /\ Erased(s, k) \in Seq(Counter)
         /\ Count(Erased(s, k), T) = Count(s, T) - Bit(s[k] \in T)
<1>. DEFINE before == SubSeq(s, 1, k - 1)
            after  == SubSeq(s, k + 1, Len(s))
            r == Erased(s, k)
<1>1. Len(s) \in Nat /\ k \in 1 .. Len(s) /\ DOMAIN s = 1 .. Len(s)
  OBVIOUS
<1>2. /\ before \in Seq(Counter) /\ Len(before) = k - 1
      /\ \A n \in 1 .. k - 1 : before[n] = s[n]
  BY <1>1
<1>3. /\ after \in Seq(Counter) /\ Len(after) = Len(s) - k
      /\ \A n \in 1 .. Len(s) - k : after[n] = s[k + n]
  BY <1>1
<1>4. r = before \o after
  BY DEF Erased
<1>. HIDE DEF before, after, r
<1>5. /\ r \in Seq(Counter) /\ Len(r) = Len(before) + Len(after)
      /\ \A n \in 1 .. Len(before) + Len(after) :
            r[n] = IF n <= Len(before) THEN before[n] ELSE after[n - Len(before)]
  BY <1>2, <1>3, <1>4, ConcatProperties
<1>6. ASSUME NEW n \in 1 .. Len(r) PROVE r[n] = s[IF n < k THEN n ELSE n + 1]
  <2>1. r[n] = IF n <= k - 1 THEN before[n] ELSE after[n - (k - 1)]
    BY <1>1, <1>2, <1>3, <1>5
  <2>2. CASE n < k
    BY <1>1, <1>2, <2>1, <2>2
  <2>3. CASE ~ (n < k)
    <3>1. n - (k - 1) \in 1 .. Len(s) - k /\ k + (n - (k - 1)) = n + 1
      BY <1>1, <1>2, <1>3, <1>5, <2>3, SMTT(60)
    <3>. QED BY <1>1, <1>3, <2>1, <2>3, <3>1
  <2>. QED BY <2>2, <2>3
<1>7. Without(s, k, r)
  BY <1>1, <1>2, <1>3, <1>5, <1>6, SMTT(60) DEF Without
<1>8. Count(s, T) = Count(r, T) + (IF s[k] \in T THEN 1 ELSE 0)
  BY <1>5, <1>7, CountWithout
<1>9. Count(r, T) \in Nat
  BY <1>5, CountType
<1>. QED BY <1>5, <1>8, <1>9 DEF Bit, r
----------------------------------------------------------------------------
(* The head of a connection that is read. *)
LEMMA HeadFacts ==
  ASSUME TypeOK, NEW i \in Nodes, NEW j \in Nodes, <<j, i>> \in Edges,
         chan[<<j, i>>] # <<>>
  PROVE  /\ Head(chan[<<j, i>>]) \in Message /\ chan[<<j, i>>] \in Seq(Message)
         /\ Head(chan[<<j, i>>]) \in Updates <=> Head(chan[<<j, i>>]).type = "update"
         /\ Head(chan[<<j, i>>]) \in Acks <=> Head(chan[<<j, i>>]).type = "ack"
         /\ Head(chan[<<j, i>>]) \in Ends <=> Head(chan[<<j, i>>]).type = "finished"
         /\ \A T : Head(chan[<<j, i>>]) \in T => Count(chan[<<j, i>>], T) > 0
<1>1. chan[<<j, i>>] \in Seq(Message)
  BY DEF TypeOK
<1>. DEFINE s == chan[<<j, i>>]
<1>2. s # <<>> /\ s \in Seq(Message)
  BY <1>1
<1>. HIDE DEF s
<1>3. Head(s) \in Message /\ 1 \in DOMAIN s /\ Head(s) = s[1]
  BY <1>2
<1>4. ASSUME NEW T, Head(s) \in T PROVE Count(s, T) > 0
  <2>1. Count(s, T) \in Nat /\ (Count(s, T) = 0 <=> \A n \in DOMAIN s : s[n] \notin T)
    BY <1>2, CountType
  <2>. QED BY <1>3, <1>4, <2>1
<1>. QED BY <1>2, <1>3, <1>4 DEF s, Updates, Acks, Ends

(* What a handler does to the two connections of an edge, in the ledger.    *)
LEMMA HandlerCounts ==
  ASSUME TypeOK, NEW i \in Nodes, NEW j \in Nodes, NEW S, NEW m \in Message,
         <<j, i>> \in Edges, chan[<<j, i>>] # <<>>, Answer(i, j, S, m),
         NEW a \in Nodes, NEW b \in Nodes, <<a, b>> \in Edges
  PROVE  /\ Count(chan'[<<a, b>>], Updates) =
               Count(chan[<<a, b>>], Updates)
               - Bit(a = j /\ b = i /\ Head(chan[<<j, i>>]) \in Updates)
               + Bit(a = i /\ b \in S /\ m \in Updates)
         /\ Count(chan'[<<b, a>>], Acks) =
               Count(chan[<<b, a>>], Acks)
               - Bit(b = j /\ a = i /\ Head(chan[<<j, i>>]) \in Acks)
               + Bit(b = i /\ a \in S /\ m \in Acks)
<1>1. <<b, a>> \in Edges
  BY EdgeFacts
<1>2. AnswerCounted(i, j, S, m)
  BY AnswerCounts
<1>. QED BY <1>1, <1>2, ZenonT(60) DEF AnswerCounted

(* An accepted update becomes an entry for its sender, and new updates.     *)
LEMMA DebtOfImprovement ==
  ASSUME TypeOK, NEW i \in Nodes, NEW j \in Nodes, UpdateImproves(i, j),
         TypeOK', NEW a \in Nodes, NEW b \in Nodes, <<a, b>> \in Edges
  PROVE  /\ Debt(a, b)' = Debt(a, b) + Bit(a = i /\ b # j)
         /\ Cover(a, b)' = Cover(a, b) + Bit(a = i /\ b # j)
<1>. DEFINE d == DistanceThrough(i, j)
            c == [node_index |-> j, counter |-> AcksAwaited(i)]
<1>1. /\ <<j, i>> \in Edges /\ chan[<<j, i>>] # <<>> /\ i # j
      /\ Head(chan[<<j, i>>]).type = "update"
      /\ Answer(i, j, Neighbours(i) \ {j}, Update(d))
      /\ counter_acks' = [counter_acks EXCEPT ![i] = Append(@, c)]
      /\ distance' = [distance EXCEPT ![i] = d]
  BY EdgeFacts DEF UpdateImproves, Receives, ToCorrect
<1>2. d \in 0 .. Infinity
  BY <1>1 DEF TypeOK
<1>. HIDE DEF d
<1>3. Update(d) \in Updates /\ Update(d) \in Message /\ Update(d) \notin Acks
  BY <1>2, KindFacts
<1>4. /\ Head(chan[<<j, i>>]) \in Updates /\ Head(chan[<<j, i>>]) \notin Acks
  BY <1>1, HeadFacts, KindFacts
<1>5. a = i => b \in Neighbours(i)
  BY EdgeFacts
<1>6. /\ Count(chan'[<<a, b>>], Updates) =
            Count(chan[<<a, b>>], Updates) - Bit(a = j /\ b = i) + Bit(a = i /\ b # j)
      /\ Count(chan'[<<b, a>>], Acks) = Count(chan[<<b, a>>], Acks)
  <2>1. /\ Count(chan'[<<a, b>>], Updates) =
               Count(chan[<<a, b>>], Updates)
               - Bit(a = j /\ b = i /\ Head(chan[<<j, i>>]) \in Updates)
               + Bit(a = i /\ b \in Neighbours(i) \ {j} /\ Update(d) \in Updates)
         /\ Count(chan'[<<b, a>>], Acks) =
               Count(chan[<<b, a>>], Acks)
               - Bit(b = j /\ a = i /\ Head(chan[<<j, i>>]) \in Acks)
               + Bit(b = i /\ a \in Neighbours(i) \ {j} /\ Update(d) \in Acks)
    BY <1>1, <1>3, HandlerCounts
  <2>2. Count(chan[<<b, a>>], Acks) \in Nat
    BY DebtFacts
  <2>. QED BY <1>3, <1>4, <1>5, <2>1, <2>2 DEF Bit
<1>7. c \in Counter
  <2>1. counter_acks'[i] \in Seq(Counter) /\ counter_acks[i] \in Seq(Counter)
        /\ counter_acks'[i] = Append(counter_acks[i], c)
    BY <1>1 DEF TypeOK
  <2>2. \A s \in Seq(Counter) : Len(s) + 1 \in DOMAIN Append(s, c)
                               /\ Append(s, c)[Len(s) + 1] = c
    OBVIOUS
  <2>. QED BY <2>1, <2>2
<1>8. ASSUME NEW n \in Nodes, NEW T
      PROVE  Count(counter_acks'[n], T) = Count(counter_acks[n], T) + Bit(n = i /\ c \in T)
  <2>1. counter_acks[n] \in Seq(Counter) /\ Count(counter_acks[n], T) \in Nat
    BY CountType DEF TypeOK
  <2>2. CASE n = i
    <3>1. counter_acks'[n] = Append(counter_acks[n], c)
      BY <1>1, <2>2 DEF TypeOK
    <3>2. Count(Append(counter_acks[n], c), T)
             = Count(counter_acks[n], T) + (IF c \in T THEN 1 ELSE 0)
      BY <1>7, <2>1, CountAppend
    <3>. QED BY <2>2, <3>1, <3>2 DEF Bit
  <2>3. CASE n # i
    BY <1>1, <2>1, <2>3 DEF TypeOK, Bit
  <2>. QED BY <2>2, <2>3
<1>9. (c \in For(a) <=> a = j) /\ (c \in NotFor(b) <=> b # j)
  BY <1>7 DEF For, NotFor
<1>10. /\ Count(counter_acks'[b], For(a)) = Count(counter_acks[b], For(a)) + Bit(b = i /\ a = j)
       /\ Count(counter_acks'[a], NotFor(b)) = Count(counter_acks[a], NotFor(b)) + Bit(a = i /\ b # j)
  BY <1>8, <1>9
<1>11. /\ Count(chan[<<a, b>>], Updates) \in Nat /\ Count(counter_acks[b], For(a)) \in Nat
       /\ Count(chan[<<b, a>>], Acks) \in Nat
  BY DebtFacts
<1>. QED BY <1>6, <1>10, <1>11 DEF Debt, Cover, Bit

(* A refused update becomes an ack. *)
LEMMA DebtOfRefusal ==
  ASSUME TypeOK, NEW i \in Nodes, NEW j \in Nodes, UpdateRefused(i, j),
         NEW a \in Nodes, NEW b \in Nodes, <<a, b>> \in Edges
  PROVE  Debt(a, b)' = Debt(a, b) /\ Cover(a, b)' = Cover(a, b)
<1>1. /\ <<j, i>> \in Edges /\ chan[<<j, i>>] # <<>>
      /\ Head(chan[<<j, i>>]).type = "update"
      /\ Answer(i, j, {j}, Ack) /\ counter_acks' = counter_acks
  BY DEF UpdateRefused, Receives, AckSender
<1>2. /\ Head(chan[<<j, i>>]) \in Updates /\ Head(chan[<<j, i>>]) \notin Acks
      /\ Ack \in Acks /\ Ack \notin Updates /\ Ack \in Message
  BY <1>1, HeadFacts, KindFacts
<1>3. /\ Count(chan'[<<a, b>>], Updates) =
            Count(chan[<<a, b>>], Updates)
            - Bit(a = j /\ b = i /\ Head(chan[<<j, i>>]) \in Updates)
            + Bit(a = i /\ b \in {j} /\ Ack \in Updates)
      /\ Count(chan'[<<b, a>>], Acks) =
            Count(chan[<<b, a>>], Acks)
            - Bit(b = j /\ a = i /\ Head(chan[<<j, i>>]) \in Acks)
            + Bit(b = i /\ a \in {j} /\ Ack \in Acks)
  BY <1>1, <1>2, HandlerCounts
<1>4. /\ Count(chan[<<a, b>>], Updates) \in Nat /\ Count(counter_acks[b], For(a)) \in Nat
      /\ Count(chan[<<b, a>>], Acks) \in Nat
  BY DebtFacts
<1>. QED BY <1>1, <1>2, <1>3, <1>4 DEF Debt, Cover, Bit

(* An ack that is read, whether by an entry, by the source or by nobody,     *)
(* is one debt less.                                                         *)
LEMMA DebtOfAck ==
  ASSUME TypeOK, NEW i \in Nodes, NEW j \in Nodes, NEW S, NEW m \in Message,
         Receives(i, j, "ack"), Answer(i, j, S, m), m \notin Updates,
         NEW a \in Nodes, NEW b \in Nodes, <<a, b>> \in Edges,
         Count(counter_acks'[b], For(a)) =
            Count(counter_acks[b], For(a)) - Bit(b = i /\ a \in S /\ m \in Acks)
  PROVE  /\ Debt(a, b)' = Debt(a, b) - Bit(a = i /\ b = j)
         /\ Debt(i, j) > 0 /\ <<i, j>> \in Edges
<1>1. /\ <<j, i>> \in Edges /\ <<i, j>> \in Edges /\ chan[<<j, i>>] # <<>>
      /\ Head(chan[<<j, i>>]).type = "ack"
  BY EdgeFacts DEF Receives
<1>2. /\ Head(chan[<<j, i>>]) \in Acks /\ Head(chan[<<j, i>>]) \notin Updates
      /\ Count(chan[<<j, i>>], Acks) > 0
  BY <1>1, HeadFacts, KindFacts
<1>3. /\ Count(chan'[<<a, b>>], Updates) =
            Count(chan[<<a, b>>], Updates)
            - Bit(a = j /\ b = i /\ Head(chan[<<j, i>>]) \in Updates)
            + Bit(a = i /\ b \in S /\ m \in Updates)
      /\ Count(chan'[<<b, a>>], Acks) =
            Count(chan[<<b, a>>], Acks)
            - Bit(b = j /\ a = i /\ Head(chan[<<j, i>>]) \in Acks)
            + Bit(b = i /\ a \in S /\ m \in Acks)
  BY <1>1, HandlerCounts
<1>4. /\ Count(chan[<<a, b>>], Updates) \in Nat /\ Count(counter_acks[b], For(a)) \in Nat
      /\ Count(chan[<<b, a>>], Acks) \in Nat
  BY DebtFacts
<1>5. Debt(a, b)' = Debt(a, b) - Bit(a = i /\ b = j)
  BY <1>2, <1>3, <1>4 DEF Debt, Bit
<1>6. Debt(i, j) > 0
  <2>1. /\ Count(chan[<<i, j>>], Updates) \in Nat /\ Count(counter_acks[j], For(i)) \in Nat
        /\ Count(chan[<<j, i>>], Acks) \in Nat
    BY <1>1, DebtFacts
  <2>. QED BY <1>2, <2>1 DEF Debt
<1>. QED BY <1>1, <1>5, <1>6

(* The entry that is complete is taken out and its neighbour acknowledged.   *)
CreditTaken(i, j, a, b) ==
    \E n \in Neighbours(i) \ {j} : Cover(a, b)' = Cover(a, b) - Bit(a = i /\ b # n)

LEMMA DebtOfCompletion ==
  ASSUME TypeOK, NEW i \in Nodes, NEW j \in Nodes, AckCompletes(i, j),
         NEW a \in Nodes, NEW b \in Nodes, <<a, b>> \in Edges
  PROVE  /\ Debt(a, b)' = Debt(a, b) - Bit(a = i /\ b = j)
         /\ Debt(i, j) > 0 /\ <<i, j>> \in Edges /\ i # Source
         /\ CreditTaken(i, j, a, b)
<1>1. /\ Receives(i, j, "ack") /\ i # Source
  BY DEF AckCompletes
<1>2. PICK k \in DOMAIN counter_acks[i] :
         /\ Credited(i, j, k)
         /\ counter_acks' = [counter_acks EXCEPT ![i] = Erased(@, k)]
         /\ Answer(i, j, {counter_acks[i][k].node_index}, Ack)
  BY DEF AckCompletes
<1>. DEFINE c == counter_acks[i][k]
            n == c.node_index
<1>3. c \in Counter /\ n \in Nodes /\ n \in Neighbours(i) \ {j}
  <2>1. c \in Counter /\ CounterInRange(i, c) /\ c.node_index # j
    BY <1>2 DEF TypeOK, Credited, Creditable
  <2>. HIDE DEF c
  <2>. QED BY <2>1 DEF CounterInRange, Counter
<1>4. ASSUME NEW l \in Nodes, NEW T
      PROVE  Count(counter_acks'[l], T) = Count(counter_acks[l], T) - Bit(l = i /\ c \in T)
  <2>1. counter_acks[l] \in Seq(Counter) /\ Count(counter_acks[l], T) \in Nat
    BY CountType DEF TypeOK
  <2>2. CASE l = i
    <3>1. counter_acks'[l] = Erased(counter_acks[l], k)
      BY <1>2, <2>2 DEF TypeOK
    <3>2. Count(Erased(counter_acks[l], k), T)
             = Count(counter_acks[l], T) - Bit(counter_acks[l][k] \in T)
      BY <1>2, <2>1, <2>2, RemoveCounts
    <3>. QED BY <2>2, <3>1, <3>2
  <2>3. CASE l # i
    BY <1>2, <2>1, <2>3 DEF TypeOK, Bit
  <2>. QED BY <2>2, <2>3
<1>5. (c \in For(a) <=> a = n) /\ (c \in NotFor(b) <=> b # n)
  BY <1>3 DEF For, NotFor
<1>6. Ack \in Message /\ Ack \in Acks /\ Ack \notin Updates
  BY KindFacts
<1>. HIDE DEF c, n
<1>7. Count(counter_acks'[b], For(a)) =
         Count(counter_acks[b], For(a)) - Bit(b = i /\ a \in {n} /\ Ack \in Acks)
  BY <1>4, <1>5, <1>6
<1>8. Answer(i, j, {n}, Ack)
  BY <1>2 DEF n, c
<1>9. /\ Debt(a, b)' = Debt(a, b) - Bit(a = i /\ b = j)
      /\ Debt(i, j) > 0 /\ <<i, j>> \in Edges
  BY <1>1, <1>6, <1>7, <1>8, DebtOfAck
<1>10. Cover(a, b)' = Cover(a, b) - Bit(a = i /\ b # n)
  BY <1>4, <1>5 DEF Cover
<1>11. CreditTaken(i, j, a, b)
  BY <1>3, <1>10 DEF CreditTaken
<1>. QED BY <1>1, <1>9, <1>11

(* An ack that lowers an entry, and one that is dropped. *)
LEMMA DebtOfUnusedAck ==
  ASSUME TypeOK, NEW i \in Nodes, NEW j \in Nodes, AckCounted(i, j) \/ AckLost(i, j),
         NEW a \in Nodes, NEW b \in Nodes, <<a, b>> \in Edges
  PROVE  /\ Debt(a, b)' = Debt(a, b) - Bit(a = i /\ b = j)
         /\ Debt(i, j) > 0 /\ <<i, j>> \in Edges /\ i # Source
<1>1. Receives(i, j, "ack") /\ Answer(i, j, {}, Ack) /\ i # Source
  BY DEF AckCounted, AckLost
<1>2. Ack \in Message /\ Ack \notin Updates
  BY KindFacts
<1>3. Count(counter_acks'[b], For(a)) = Count(counter_acks[b], For(a))
  <2>1. CASE AckLost(i, j)
    BY <2>1 DEF AckLost
  <2>2. CASE AckCounted(i, j)
    <3>1. PICK k \in DOMAIN counter_acks[i] :
             counter_acks' = [counter_acks EXCEPT ![i][k].counter = @ - 1]
      BY <2>2 DEF AckCounted
    <3>2. /\ DOMAIN counter_acks'[b] = DOMAIN counter_acks[b]
          /\ \A n \in DOMAIN counter_acks[b] :
                counter_acks'[b][n] \in For(a) <=> counter_acks[b][n] \in For(a)
      <4>1. CASE b # i
        BY <3>1, <4>1 DEF TypeOK
      <4>2. CASE b = i
        <5>. DEFINE s == counter_acks[i]
                    c == s[k]
                    c1 == [c EXCEPT !.counter = @ - 1]
        <5>1. counter_acks'[i] = [s EXCEPT ![k] = c1] /\ s \in Seq(Counter)
          BY <3>1 DEF TypeOK
        <5>2. c \in Counter /\ c.counter # 0
          <6>1. c \in Counter /\ CounterInRange(i, c)
            BY <3>1, <5>1 DEF TypeOK
          <6>2. TypeOK'
            BY <2>2, NextTypeOK DEF Next, NodeStep
          <6>3. c1 \in Counter
            <7>1. counter_acks'[i] \in Seq(Counter) /\ k \in DOMAIN counter_acks'[i]
                  /\ counter_acks'[i][k] = c1
              BY <3>1, <5>1, <6>2 DEF TypeOK
            <7>. HIDE DEF c1, s
            <7>. QED BY <7>1
          <6>4. c1.counter = c.counter - 1 /\ c1.counter \in Nat
            BY <6>1, <6>3 DEF Counter
          <6>. HIDE DEF c, c1
          <6>. QED BY <6>1, <6>4 DEF Counter
        <5>3. c1 \in For(a) <=> c \in For(a)
          <6>1. c1 = [node_index |-> c.node_index, counter |-> c.counter - 1]
                /\ c.counter - 1 \in Nat
            BY <5>2 DEF Counter
          <6>. HIDE DEF c, c1
          <6>. QED BY <5>2, <6>1 DEF For, Counter
        <5>. HIDE DEF s, c, c1
        <5>4. s[k] = c
          BY DEF c
        <5>. QED BY <3>1, <4>2, <5>1, <5>3, <5>4 DEF s
      <4>. QED BY <4>1, <4>2
    <3>3. Places(counter_acks'[b], For(a)) = Places(counter_acks[b], For(a))
      BY <3>2 DEF Places
    <3>. QED BY <3>3 DEF Count
  <2>. QED BY <2>1, <2>2
<1>4. Count(counter_acks[b], For(a)) \in Nat
  BY DebtFacts
<1>5. Count(counter_acks'[b], For(a)) =
         Count(counter_acks[b], For(a)) - Bit(b = i /\ a \in {} /\ Ack \in Acks)
  BY <1>3, <1>4 DEF Bit
<1>. QED BY <1>1, <1>2, <1>5, DebtOfAck

(* An ack the source counts. *)
LEMMA DebtOfSourceAck ==
  ASSUME TypeOK, NEW j \in Nodes, SourceAck(j),
         NEW a \in Nodes, NEW b \in Nodes, <<a, b>> \in Edges
  PROVE  /\ Debt(a, b)' = Debt(a, b) - Bit(a = Source /\ b = j)
         /\ Debt(Source, j) > 0 /\ <<Source, j>> \in Edges
         /\ Cover(a, b)' = Cover(a, b)
<1>. DEFINE S == IF AllAcked(counter_finishing') THEN Writers(Source) ELSE {}
<1>1. /\ Receives(Source, j, "ack") /\ Answer(Source, j, S, Finished)
      /\ counter_acks' = counter_acks /\ Source \in Nodes
  BY NetworkAssumption DEF SourceAck
<1>2. Finished \in Message /\ Finished \notin Updates /\ Finished \notin Acks
  BY KindFacts
<1>3. Count(counter_acks[b], For(a)) \in Nat
  BY DebtFacts
<1>. HIDE DEF S
<1>4. Count(counter_acks'[b], For(a)) =
         Count(counter_acks[b], For(a)) - Bit(b = Source /\ a \in S /\ Finished \in Acks)
  BY <1>1, <1>2, <1>3 DEF Bit
<1>5. Cover(a, b)' = Cover(a, b)
  BY <1>1 DEF Cover
<1>6. /\ Debt(a, b)' = Debt(a, b) - Bit(a = Source /\ b = j)
      /\ Debt(Source, j) > 0 /\ <<Source, j>> \in Edges
  <2>1. ASSUME NEW i \in Nodes, i = Source
        PROVE  /\ Debt(a, b)' = Debt(a, b) - Bit(a = i /\ b = j)
               /\ Debt(i, j) > 0 /\ <<i, j>> \in Edges
    <3>1. Receives(i, j, "ack") /\ Answer(i, j, S, Finished)
          /\ Count(counter_acks'[b], For(a)) =
               Count(counter_acks[b], For(a)) - Bit(b = i /\ a \in S /\ Finished \in Acks)
      BY <1>1, <1>4, <2>1
    <3>. QED BY <1>2, <3>1, DebtOfAck
  <2>. QED BY <1>1, <2>1
<1>. QED BY <1>5, <1>6

(* A finished, and what a node that has left its loop throws away. *)
LEMMA DebtOfEnd ==
  ASSUME TypeOK, NEW i \in Nodes, NEW j \in Nodes,
         AnswerToFinished(i, j) \/ Drain(i, j),
         NEW a \in Nodes, NEW b \in Nodes, <<a, b>> \in Edges
  PROVE  /\ Debt(a, b)' \in 0 .. Debt(a, b)
         /\ Head(chan[<<j, i>>]).type = "finished" => Debt(a, b)' = Debt(a, b)
         /\ Cover(a, b)' = Cover(a, b)
<1>1. PICK S, m : /\ Answer(i, j, S, m) /\ m \in {Ack, Finished}
                  /\ m = Ack => S = {}
                  /\ <<j, i>> \in Edges /\ chan[<<j, i>>] # <<>>
                  /\ counter_acks' = counter_acks
  <2>1. CASE AnswerToFinished(i, j)
    BY <2>1, KindFacts DEF AnswerToFinished, Receives
  <2>2. CASE Drain(i, j)
    BY <2>2 DEF Drain
  <2>. QED BY <2>1, <2>2
<1>2. m \in Message /\ m \notin Updates /\ (m \in Acks => S = {})
  BY <1>1, KindFacts
<1>. DEFINE h == Head(chan[<<j, i>>])
<1>3. h.type = "finished" => h \notin Updates /\ h \notin Acks
  BY <1>1, HeadFacts, KindFacts
<1>4. /\ Count(chan'[<<a, b>>], Updates) =
            Count(chan[<<a, b>>], Updates) - Bit(a = j /\ b = i /\ h \in Updates)
            + Bit(a = i /\ b \in S /\ m \in Updates)
      /\ Count(chan'[<<b, a>>], Acks) =
            Count(chan[<<b, a>>], Acks) - Bit(b = j /\ a = i /\ h \in Acks)
            + Bit(b = i /\ a \in S /\ m \in Acks)
  BY <1>1, <1>2, HandlerCounts
<1>5. /\ Count(chan[<<a, b>>], Updates) \in Nat /\ Count(counter_acks[b], For(a)) \in Nat
      /\ Count(chan[<<b, a>>], Acks) \in Nat
  BY DebtFacts
<1>6. /\ a = j /\ b = i /\ h \in Updates => Count(chan[<<a, b>>], Updates) > 0
      /\ b = j /\ a = i /\ h \in Acks => Count(chan[<<b, a>>], Acks) > 0
  BY <1>1, HeadFacts
<1>. HIDE DEF h
<1>7. Debt(a, b)' = Debt(a, b) - Bit(a = j /\ b = i /\ h \in Updates)
                    - Bit(b = j /\ a = i /\ h \in Acks)
  BY <1>1, <1>2, <1>4, <1>5 DEF Debt, Bit
<1>8. Debt(a, b)' \in 0 .. Debt(a, b)
  BY <1>5, <1>6, <1>7, EdgeFacts DEF Debt, Bit
<1>9. h.type = "finished" => Debt(a, b)' = Debt(a, b)
  BY <1>3, <1>5, <1>7 DEF Bit, Debt
<1>. QED BY <1>1, <1>8, <1>9 DEF Cover, h

(* The source's first updates. *)
LEMMA DebtOfStart ==
  ASSUME TypeOK, CalculateShortestPaths,
         NEW a \in Nodes, NEW b \in Nodes, <<a, b>> \in Edges
  PROVE  /\ Debt(a, b)' = Debt(a, b) + Bit(a = Source)
         /\ Cover(a, b)' = Cover(a, b)
<1>1. /\ counter_acks' = counter_acks /\ <<b, a>> \in Edges
      /\ \A e \in Edges : chan'[e] = IF e[1] = Source THEN Append(chan[e], Update(0))
                                     ELSE chan[e]
  BY EdgeFacts DEF CalculateShortestPaths
<1>2. Update(0) \in Message /\ Update(0) \in Updates /\ Update(0) \notin Acks
  BY KindFacts, NetworkAssumption
<1>3. ASSUME NEW e \in Edges, NEW T
      PROVE  Count(chan'[e], T) = Count(chan[e], T) + Bit(e[1] = Source /\ Update(0) \in T)
  <2>1. chan[e] \in Seq(Message) /\ Count(chan[e], T) \in Nat
    BY CountType DEF TypeOK
  <2>2. Count(Append(chan[e], Update(0)), T)
           = Count(chan[e], T) + (IF Update(0) \in T THEN 1 ELSE 0)
    BY <1>2, <2>1, CountAppend
  <2>. QED BY <1>1, <2>1, <2>2 DEF Bit
<1>4. /\ Count(chan'[<<a, b>>], Updates) = Count(chan[<<a, b>>], Updates) + Bit(a = Source)
      /\ Count(chan'[<<b, a>>], Acks) = Count(chan[<<b, a>>], Acks)
  <2>1. /\ Count(chan'[<<a, b>>], Updates) = Count(chan[<<a, b>>], Updates)
                + Bit(<<a, b>>[1] = Source /\ Update(0) \in Updates)
        /\ Count(chan'[<<b, a>>], Acks) = Count(chan[<<b, a>>], Acks)
                + Bit(<<b, a>>[1] = Source /\ Update(0) \in Acks)
    BY <1>1, <1>3
  <2>2. Count(chan[<<b, a>>], Acks) \in Nat
    BY DebtFacts
  <2>. QED BY <1>2, <2>1, <2>2 DEF Bit
<1>5. /\ Count(chan[<<a, b>>], Updates) \in Nat /\ Count(counter_acks[b], For(a)) \in Nat
      /\ Count(chan[<<b, a>>], Acks) \in Nat
  BY DebtFacts
<1>. QED BY <1>1, <1>4, <1>5 DEF Debt, Cover, Bit
----------------------------------------------------------------------------
(* As long as the source is at work nothing has ended anywhere.             *)
OpenInv ==
    ~ interrupt[Source] =>
        /\ \A i \in Nodes : ~ interrupt[i] /\ ~ finished[i]
        /\ \A e \in Edges : Count(chan[e], Ends) = 0
        /\ closed = {}

(* The neighbours whose ack the source still waits for. *)
Awaited == {k \in Neighbours(Source) : Debt(Source, k) = 1}

SourceInv ==
    /\ request => /\ counter_finishing = 0 /\ ~ interrupt[Source]
                  /\ \A i \in Nodes : counter_acks[i] = <<>>
    /\ ~ request => /\ state[Source] = "awake"
                    /\ counter_finishing + Cardinality(Awaited) = Degree(Source)
    /\ \A k \in Neighbours(Source) : Debt(Source, k) \in {0, 1}
    /\ interrupt[Source] => counter_finishing = Degree(Source)

(* A message is read when the source has started, and the source has no     *)
(* distance to improve.                                                     *)
LEMMA StepFacts ==
  ASSUME TypeOK, TreeInv, SourceInv, OpenInv, NEW i \in Nodes, NEW j \in Nodes,
         NodeStep(i, j)
  PROVE  /\ <<j, i>> \in Edges /\ chan[<<j, i>>] # <<>>
         /\ ~ request /\ ~ request' /\ state[Source] = "awake"
         /\ UpdateImproves(i, j) => i # Source
         /\ AnswerToFinished(i, j) => interrupt[Source] /\ i # Source
         /\ Drain(i, j) => interrupt[Source]
<1>1. <<j, i>> \in Edges /\ chan[<<j, i>>] # <<>> /\ request' = request
  BY DEF NodeStep, UpdateImproves, UpdateRefused, AckCounted, AckCompletes, AckLost,
         SourceAck, AnswerToFinished, Drain, Receives
<1>2. ~ request /\ state[Source] = "awake" /\ distance[Source] = 0
  BY <1>1 DEF TreeInv, SourceAtZero, SourceInv
<1>3. UpdateImproves(i, j) => i # Source
  <2>1. SUFFICES ASSUME UpdateImproves(i, j), i = Source PROVE FALSE
    OBVIOUS
  <2>2. DistanceThrough(i, j) < 0
    BY <1>2, <2>1 DEF UpdateImproves, Improves
  <2>3. Head(chan[<<j, i>>]).type = "update" /\ Head(chan[<<j, i>>]) \in Message
    BY <1>1, <2>1, HeadFacts DEF UpdateImproves, Receives
  <2>4. Head(chan[<<j, i>>]).w \in 0 .. Infinity
    BY <2>3, MessageFacts
  <2>. QED BY <2>2, <2>4, NetworkAssumption DEF DistanceThrough
<1>4. AnswerToFinished(i, j) => interrupt[Source] /\ i # Source
  <2>1. SUFFICES ASSUME AnswerToFinished(i, j) PROVE interrupt[Source] /\ i # Source
    OBVIOUS
  <2>2. Head(chan[<<j, i>>]).type = "finished" /\ ~ interrupt[i]
    BY <2>1 DEF AnswerToFinished, Receives
  <2>3. Count(chan[<<j, i>>], Ends) > 0
    BY <1>1, <2>2, HeadFacts
  <2>. QED BY <1>1, <2>2, <2>3 DEF OpenInv
<1>5. Drain(i, j) => interrupt[Source]
  BY DEF Drain, OpenInv
<1>. QED BY <1>1, <1>2, <1>3, <1>4, <1>5

(* A handler that reads no finished and writes none. *)
LEMMA EndsUnchanged ==
  ASSUME TypeOK, NEW i \in Nodes, NEW j \in Nodes, NEW S, NEW m \in Message,
         <<j, i>> \in Edges, chan[<<j, i>>] # <<>>, Answer(i, j, S, m),
         Head(chan[<<j, i>>]).type # "finished", m \notin Ends \/ S = {}
  PROVE  \A e \in Edges : Count(chan'[e], Ends) = Count(chan[e], Ends)
<1>1. chan \in [Edges -> Seq(Message)] /\ Head(chan[<<j, i>>]) \notin Ends
  BY HeadFacts DEF TypeOK
<1>3. AnswerCounted(i, j, S, m)
  BY AnswerCounts
<1>2. ASSUME NEW a \in Nodes, NEW b \in Nodes, <<a, b>> \in Edges
      PROVE  Count(chan'[<<a, b>>], Ends) = Count(chan[<<a, b>>], Ends)
  <2>1. Count(chan'[<<a, b>>], Ends) =
            Count(chan[<<a, b>>], Ends)
            - Bit(a = j /\ b = i /\ Head(chan[<<j, i>>]) \in Ends)
            + Bit(a = i /\ b \in S /\ m \in Ends)
    BY <1>2, <1>3, Zenon DEF AnswerCounted
  <2>2. Count(chan[<<a, b>>], Ends) \in Nat
    BY <1>1, <1>2, CountType
  <2>. QED BY <1>1, <2>1, <2>2 DEF Bit
<1>. QED BY <1>2, EdgeFacts

LEMMA InitSourceInv == Init => SourceInv /\ OpenInv
<1>1. SUFFICES ASSUME Init PROVE SourceInv /\ OpenInv
  OBVIOUS
<1>2. Source \in Nodes /\ \A n \in Nodes : ~ interrupt[n] /\ counter_acks[n] = <<>> /\ ~ finished[n]
  BY <1>1, NetworkAssumption DEF Init
<1>3. \A T : Count(<<>>, T) = 0
  <2>1. <<>> \in Seq({})
    OBVIOUS
  <2>. QED BY <2>1, CountType
<1>4. \A k \in Neighbours(Source) : Debt(Source, k) = 0
  BY <1>1, <1>2, <1>3, EdgeFacts DEF Init, Debt
<1>5. \A e \in Edges : Count(chan[e], Ends) = 0
  BY <1>1, <1>3 DEF Init
<1>. QED BY <1>1, <1>2, <1>4, <1>5 DEF SourceInv, OpenInv, Init

(* Nothing ends before the source has counted its last ack. *)
LEMMA NextOpenInv ==
  ASSUME TypeOK, TreeInv, SourceInv, OpenInv, [Next]_vars
  PROVE  OpenInv' /\ (interrupt[Source] => interrupt'[Source])
<1>. USE KindFacts, NetworkAssumption
<1>1. CASE CalculateShortestPaths
  <2>1. /\ chan' = [e \in Edges |-> IF e[1] = Source THEN Append(chan[e], Update(0))
                                    ELSE chan[e]]
        /\ UNCHANGED <<interrupt, finished, closed>>
    BY <1>1 DEF CalculateShortestPaths, endgame
  <2>2. Update(0) \in Message /\ Update(0) \notin Ends
    OBVIOUS
  <2>3. ASSUME NEW e \in Edges PROVE Count(chan'[e], Ends) = Count(chan[e], Ends)
    <3>1. chan[e] \in Seq(Message) /\ Count(chan[e], Ends) \in Nat
      BY CountType DEF TypeOK
    <3>2. Count(Append(chan[e], Update(0)), Ends) = Count(chan[e], Ends)
      BY <2>2, <3>1, CountAppend
    <3>. QED BY <2>1, <3>2
  <2>. QED BY <2>1, <2>3 DEF OpenInv
<1>2. ASSUME NEW i \in Nodes, NEW j \in Nodes, NodeStep(i, j)
      PROVE  OpenInv' /\ (interrupt[Source] => interrupt'[Source])
  <2>1. <<j, i>> \in Edges /\ chan[<<j, i>>] # <<>>
    BY <1>2, StepFacts
  <2>2. ASSUME NEW S, NEW m \in Message, Answer(i, j, S, m), m \notin Ends \/ S = {},
               Head(chan[<<j, i>>]).type # "finished",
               UNCHANGED <<interrupt, finished, closed>>
        PROVE  OpenInv'
    BY <2>1, <2>2, EndsUnchanged DEF OpenInv
  <2>3. CASE UpdateImproves(i, j)
    <3>. DEFINE d == DistanceThrough(i, j)
    <3>1. d \in 0 .. Infinity
      <4>1. distance'[i] = d /\ TypeOK'
        BY <1>2, <2>3, NextTypeOK DEF UpdateImproves, TypeOK, Next
      <4>. QED BY <4>1 DEF TypeOK
    <3>2. Update(d) \in Message /\ Update(d) \notin Ends
      BY <3>1
    <3>3. /\ Answer(i, j, ToCorrect(i, j), Update(d))
          /\ Head(chan[<<j, i>>]).type # "finished"
          /\ UNCHANGED <<interrupt, finished, closed>>
      BY <2>3 DEF UpdateImproves, Receives, endgame
    <3>. QED BY <2>2, <3>2, <3>3
  <2>4. CASE UpdateRefused(i, j)
    BY <2>2, <2>4 DEF UpdateRefused, Receives, endgame
  <2>5. CASE AckCounted(i, j) \/ AckCompletes(i, j) \/ AckLost(i, j)
    <3>1. PICK S : Answer(i, j, S, Ack)
      BY <2>5 DEF AckCounted, AckCompletes, AckLost
    <3>2. /\ Head(chan[<<j, i>>]).type # "finished"
          /\ UNCHANGED <<interrupt, finished, closed>>
      BY <2>5 DEF AckCounted, AckCompletes, AckLost, Receives, endgame
    <3>. QED BY <2>2, <3>1, <3>2
  <2>6. CASE i = Source /\ SourceAck(j)
    <3>. DEFINE done == AllAcked(counter_finishing')
    <3>1. /\ Answer(Source, j, IF done THEN Writers(Source) ELSE {}, Finished)
          /\ interrupt' = [interrupt EXCEPT ![Source] = done] /\ ~ interrupt[Source]
          /\ UNCHANGED <<finished, closed>>
          /\ Head(chan[<<j, i>>]).type # "finished"
      BY <2>6 DEF SourceAck, Receives
    <3>. HIDE DEF done
    <3>2. interrupt \in [Nodes -> BOOLEAN]
      BY DEF TypeOK
    <3>3. interrupt'[Source] = done
      BY <3>1, <3>2
    <3>4. CASE done
      BY <3>1, <3>3, <3>4 DEF OpenInv
    <3>5. CASE ~ done
      <4>1. \A n \in Nodes : ~ interrupt'[n]
        BY <3>1, <3>2, <3>5 DEF OpenInv
      <4>2. \A e \in Edges : Count(chan'[e], Ends) = Count(chan[e], Ends)
        BY <2>1, <2>6, <3>1, <3>5, EndsUnchanged
      <4>. QED BY <3>1, <4>1, <4>2 DEF OpenInv
    <3>. QED BY <3>1, <3>4, <3>5
  <2>7. CASE AnswerToFinished(i, j) \/ Drain(i, j)
    <3>1. interrupt[Source]
      BY <1>2, <2>7, StepFacts
    <3>2. interrupt'[Source]
      BY <1>2, <2>7, <3>1, StepFacts DEF AnswerToFinished, Drain, TypeOK
    <3>. QED BY <3>2 DEF OpenInv
  <2>8. CASE UNCHANGED interrupt
    BY <1>2, <2>3, <2>4, <2>5, <2>6, <2>7, <2>8 DEF NodeStep
  <2>9. i = Source /\ SourceAck(j) => ~ interrupt[Source]
    BY DEF SourceAck, Receives
  <2>10. AnswerToFinished(i, j) => interrupt'[Source]
    BY <1>2, StepFacts DEF AnswerToFinished, TypeOK
  <2>. QED BY <1>2, <2>3, <2>4, <2>5, <2>6, <2>7, <2>8, <2>9, <2>10
           DEF NodeStep, UpdateImproves, UpdateRefused, AckCounted, AckCompletes,
               AckLost, Drain, endgame
<1>3. ASSUME UNCHANGED <<interrupt, finished, chan, closed>>
      PROVE  OpenInv' /\ (interrupt[Source] => interrupt'[Source])
  BY <1>3 DEF OpenInv
<1>4. ASSUME NEW i \in Nodes, Join(i)
      PROVE  OpenInv' /\ (interrupt[Source] => interrupt'[Source])
  BY <1>3, <1>4 DEF Join
<1>5. CASE UNCHANGED vars
  BY <1>3, <1>5 DEF vars, endgame
<1>. QED BY <1>1, <1>2, <1>4, <1>5 DEF Next, Terminated

(* What a step does to the debts the source is owed: an ack it counts takes *)
(* one away, and a node that throws messages away only does so at the end.  *)
LEMMA SourceDebt ==
  ASSUME TypeOK, TreeInv, SourceInv, OpenInv, NEW i \in Nodes, NEW j \in Nodes,
         NodeStep(i, j), NEW k \in Neighbours(Source)
  PROVE  /\ ~ interrupt[Source] =>
               Debt(Source, k)' = Debt(Source, k)
                                  - Bit(i = Source /\ SourceAck(j) /\ k = j)
         /\ Debt(Source, k)' \in 0 .. Debt(Source, k)
         /\ i = Source /\ SourceAck(j) => Debt(Source, j) > 0 /\ j \in Neighbours(Source)
<1>1. k \in Nodes /\ <<Source, k>> \in Edges /\ Source \in Nodes /\ Debt(Source, k) \in Nat
  BY EdgeFacts, NetworkAssumption, DebtFacts
<1>2. TypeOK'
  BY NextTypeOK DEF Next
<1>3. \/ Debt(Source, k)' = Debt(Source, k)
      \/ interrupt[Source] /\ Debt(Source, k)' \in 0 .. Debt(Source, k)
      \/ i = Source /\ SourceAck(j)
  <2>1. CASE UpdateImproves(i, j)
    <3>1. i # Source
      BY <2>1, StepFacts
    <3>2. Debt(Source, k)' = Debt(Source, k) + Bit(Source = i /\ k # j)
      BY <1>1, <1>2, <2>1, DebtOfImprovement
    <3>. QED BY <1>1, <3>1, <3>2 DEF Bit
  <2>2. CASE UpdateRefused(i, j)
    BY <1>1, <2>2, DebtOfRefusal
  <2>3. CASE AckCounted(i, j) \/ AckLost(i, j)
    <3>1. /\ Debt(Source, k)' = Debt(Source, k) - Bit(Source = i /\ k = j)
          /\ i # Source
      BY <1>1, <2>3, DebtOfUnusedAck
    <3>. QED BY <1>1, <3>1 DEF Bit
  <2>4. CASE AckCompletes(i, j)
    <3>1. /\ Debt(Source, k)' = Debt(Source, k) - Bit(Source = i /\ k = j)
          /\ i # Source
      BY <1>1, <2>4, DebtOfCompletion
    <3>. QED BY <1>1, <3>1 DEF Bit
  <2>5. CASE AnswerToFinished(i, j) \/ Drain(i, j)
    <3>1. Debt(Source, k)' \in 0 .. Debt(Source, k)
      BY <1>1, <2>5, DebtOfEnd
    <3>2. interrupt[Source]
      BY <2>5, StepFacts
    <3>. QED BY <3>1, <3>2
  <2>. QED BY <2>1, <2>2, <2>3, <2>4, <2>5 DEF NodeStep
<1>4. CASE i = Source /\ SourceAck(j)
  <2>1. /\ Debt(Source, k)' = Debt(Source, k) - Bit(Source = Source /\ k = j)
        /\ Debt(Source, j) > 0 /\ <<Source, j>> \in Edges
    BY <1>1, <1>4, DebtOfSourceAck
  <2>. QED BY <1>1, <1>4, <2>1, EdgeFacts DEF Bit
<1>5. CASE ~ (i = Source /\ SourceAck(j))
  BY <1>1, <1>3, <1>5 DEF Bit
<1>. QED BY <1>4, <1>5

(* The source is owed one ack by every neighbour, and counts each once.     *)
LEMMA NextSourceInv ==
  ASSUME TypeOK, TreeInv, SourceInv, OpenInv, [Next]_vars
  PROVE  SourceInv'
<1>. USE NetworkAssumption
<1>1. IsFiniteSet(Neighbours(Source)) /\ IsFiniteSet(Awaited)
      /\ Degree(Source) = Cardinality(Neighbours(Source))
      /\ Cardinality(Awaited) \in Nat /\ Degree(Source) \in Nat
  BY FS_Subset, FS_CardinalityType DEF Neighbours, Degree, Awaited
<1>2. CASE CalculateShortestPaths
  <2>1. /\ request /\ ~ request' /\ state' = [state EXCEPT ![Source] = "awake"]
        /\ UNCHANGED <<counter_acks, counter_finishing, interrupt>>
    BY <1>2 DEF CalculateShortestPaths, endgame
  <2>2. \A e \in Edges : chan[e] = <<>>
    BY <2>1 DEF TreeInv, SourceAtZero
  <2>3. /\ counter_finishing = 0 /\ ~ interrupt[Source]
        /\ \A i \in Nodes : counter_acks[i] = <<>>
    BY <2>1 DEF SourceInv
  <2>4. \A T : Count(<<>>, T) = 0
    <3>1. <<>> \in Seq({})
      OBVIOUS
    <3>. QED BY <3>1, CountType
  <2>5. ASSUME NEW k \in Neighbours(Source) PROVE Debt(Source, k)' = 1
    <3>1. k \in Nodes /\ <<Source, k>> \in Edges /\ <<k, Source>> \in Edges
      BY EdgeFacts
    <3>2. Debt(Source, k)' = Debt(Source, k) + Bit(Source = Source)
      BY <1>2, <3>1, DebtOfStart
    <3>3. Debt(Source, k) = 0
      BY <2>2, <2>3, <2>4, <3>1 DEF Debt
    <3>. QED BY <3>2, <3>3 DEF Bit
  <2>6. Awaited' = Neighbours(Source)
    BY <2>5 DEF Awaited
  <2>7. state'[Source] = "awake"
    BY <2>1 DEF TypeOK
  <2>. QED BY <1>1, <2>1, <2>3, <2>5, <2>6, <2>7 DEF SourceInv
<1>3. ASSUME NEW i \in Nodes, NEW j \in Nodes, NodeStep(i, j) PROVE SourceInv'
  <2>1. ~ request /\ ~ request' /\ state[Source] = "awake" /\ chan[<<j, i>>] # <<>>
    BY <1>3, StepFacts
  <2>2. state'[Source] = "awake"
    BY <1>3, <2>1 DEF NodeStep, UpdateImproves, UpdateRefused, AckCounted,
       AckCompletes, AckLost, SourceAck, AnswerToFinished, Drain, TypeOK
  <2>3. \A k \in Neighbours(Source) :
           /\ ~ interrupt[Source] =>
                 Debt(Source, k)' = Debt(Source, k)
                                    - Bit(i = Source /\ SourceAck(j) /\ k = j)
           /\ Debt(Source, k)' \in 0 .. Debt(Source, k)
           /\ Debt(Source, k) \in {0, 1}
    BY <1>3, SourceDebt DEF SourceInv
  <2>4. \A k \in Neighbours(Source) : Debt(Source, k)' \in {0, 1}
    BY <2>3
  <2>5. counter_finishing + Cardinality(Awaited) = Degree(Source)
        /\ counter_finishing \in Nat
    BY <2>1 DEF SourceInv, TypeOK
  <2>6. CASE i = Source /\ SourceAck(j)
    <3>1. /\ Debt(Source, j) > 0 /\ j \in Neighbours(Source)
      <4>1. Receives(Source, j, "ack")
        BY <2>6 DEF SourceAck
      <4>2. j \in Neighbours(Source)
        BY <4>1, EdgeFacts DEF Receives
      <4>. QED BY <1>3, <2>6, <4>2, SourceDebt
    <3>2. ~ interrupt[Source] /\ counter_finishing' = counter_finishing + 1
          /\ interrupt' = [interrupt EXCEPT ![Source] = counter_finishing' = Degree(Source)]
      BY <2>6 DEF SourceAck, Receives, AllAcked
    <3>3. Awaited' = Awaited \ {j} /\ j \in Awaited
      BY <2>3, <2>6, <3>1, <3>2 DEF Awaited, Bit
    <3>4. Cardinality(Awaited \ {j}) = Cardinality(Awaited) - 1
      BY <1>1, <3>3, FS_RemoveElement
    <3>5. interrupt'[Source] => counter_finishing' = Degree(Source)
      BY <3>2 DEF TypeOK
    <3>6. counter_finishing' + Cardinality(Awaited') = Degree(Source)
      BY <1>1, <2>5, <3>2, <3>3, <3>4
    <3>. QED BY <2>1, <2>2, <2>4, <3>5, <3>6 DEF SourceInv
  <2>7. CASE ~ (i = Source /\ SourceAck(j))
    <3>1. counter_finishing' = counter_finishing
      BY <1>3, <2>7 DEF NodeStep, UpdateImproves, UpdateRefused, AckCounted,
         AckCompletes, AckLost, AnswerToFinished, Drain
    <3>2. interrupt'[Source] = interrupt[Source]
      <4>1. AnswerToFinished(i, j) => i # Source
        BY <1>3, StepFacts
      <4>. QED BY <1>3, <2>7, <4>1 DEF NodeStep, UpdateImproves, UpdateRefused,
              AckCounted, AckCompletes, AckLost, AnswerToFinished, Drain, TypeOK, endgame
    <3>3. Awaited' = Awaited
      <4>1. CASE ~ interrupt[Source]
        <5>1. \A k \in Neighbours(Source) : Debt(Source, k)' = Debt(Source, k)
          BY <2>3, <2>7, <4>1 DEF Bit
        <5>. QED BY <5>1 DEF Awaited
      <4>2. CASE interrupt[Source]
        <5>1. Cardinality(Awaited) = 0
          BY <1>1, <2>5, <4>2 DEF SourceInv
        <5>2. Awaited = {}
          BY <1>1, <5>1, FS_EmptySet
        <5>3. \A k \in Neighbours(Source) : Debt(Source, k)' = 0
          BY <2>3, <5>2 DEF Awaited
        <5>. QED BY <5>2, <5>3 DEF Awaited
      <4>. QED BY <4>1, <4>2
    <3>. QED BY <2>1, <2>2, <2>4, <2>5, <3>1, <3>2, <3>3 DEF SourceInv
  <2>. QED BY <2>6, <2>7
<1>4. ASSUME UNCHANGED <<request, state, chan, counter_acks, counter_finishing, interrupt>>
      PROVE  SourceInv'
  <2>1. \A k : Debt(Source, k)' = Debt(Source, k)
    BY <1>4 DEF Debt
  <2>2. Awaited' = Awaited
    BY <2>1 DEF Awaited
  <2>. QED BY <1>4, <2>1, <2>2 DEF SourceInv
<1>5. ASSUME NEW i \in Nodes, Join(i) PROVE SourceInv'
  BY <1>4, <1>5 DEF Join
<1>6. CASE UNCHANGED vars
  BY <1>4, <1>6 DEF vars, endgame
<1>. QED BY <1>2, <1>3, <1>5, <1>6 DEF Next, Terminated

LEMMA SourceHolds == Spec => [](TypeOK /\ TreeInv /\ SourceInv /\ OpenInv)
<1>1. TypeOK /\ TreeInv /\ SourceInv /\ OpenInv /\ [Next]_vars => SourceInv' /\ OpenInv'
  BY NextSourceInv, NextOpenInv
<1>. QED BY <1>1, InitSourceInv, TypeCorrect, TreeInvariant, PTL DEF Spec

(* In every network, at any moment after the source has started, the acks   *)
(* it has counted and the neighbours that still owe it exactly one add up   *)
(* to its degree (Node.cpp:250): it counts no ack twice and misses none.    *)
THEOREM SourceLedgerBalanced == Spec => []SourceLedger
<1>1. TypeOK /\ SourceInv => SourceLedger
  <2>1. SUFFICES ASSUME TypeOK, SourceInv, ~ request
                 PROVE  counter_finishing + Cardinality({k \in Neighbours(Source) :
                                Unacknowledged(Source, k) = 1}) = Degree(Source)
    BY DEF SourceLedger
  <2>2. \A k \in Neighbours(Source) : Unacknowledged(Source, k) = Debt(Source, k)
    BY <2>1, DebtFacts, EdgeFacts, NetworkAssumption
  <2>3. Awaited = {k \in Neighbours(Source) : Unacknowledged(Source, k) = 1}
    BY <2>2 DEF Awaited
  <2>. QED BY <2>1, <2>3 DEF SourceInv
<1>. QED BY <1>1, SourceHolds, PTL

-----------------------------------------------------------------------------
(* In a ring (adj_matr4.txt is one) every node has two neighbours, so an    *)
(* accepted update is forwarded to one node and one ack pays for it: the    *)
(* acks detect the end of the computation.  In other networks they need not *)
(* (the runs bf_unstable and bf_acks).                                      *)
(* The neighbour of i that is not k. *)
Other(i, k) == CHOOSE m \in Neighbours(i) : m # k

LEMMA RingFacts ==
  ASSUME IsRing, NEW i \in Nodes, NEW k \in Neighbours(i)
  PROVE  /\ Other(i, k) \in Neighbours(i) /\ Other(i, k) # k
         /\ Neighbours(i) = {k, Other(i, k)}
<1>1. IsFiniteSet(Neighbours(i)) /\ Cardinality(Neighbours(i)) = 2
  BY NetworkAssumption, FS_Subset DEF IsRing, Degree, Neighbours
<1>2. IsFiniteSet(Neighbours(i) \ {k}) /\ Cardinality(Neighbours(i) \ {k}) = 1
  BY <1>1, FS_RemoveElement
<1>3. PICK m : Neighbours(i) \ {k} = {m}
  BY <1>2, FS_Singleton
<1>. QED BY <1>3 DEF Other

(* What is owed to a node by one neighbour it owes to the other.            *)
RingInv ==
    /\ \A i \in Nodes : \A n \in DOMAIN counter_acks[i] : counter_acks[i][n].counter = 1
    /\ counter_acks[Source] = <<>>
    /\ \A i \in Nodes \ {Source} : \A k \in Neighbours(i) : Debt(i, k) = Cover(i, k)

(* When the source has its acks nobody owes anybody: a debt would imply one *)
(* of the next node on the ring, all the way round to the source.           *)
LEMMA NothingOwed ==
  ASSUME IsRing, TypeOK, SourceInv, RingInv, interrupt[Source]
  PROVE  \A i \in Nodes : \A k \in Neighbours(i) : Debt(i, k) = 0
<1>. DEFINE O == {e \in Edges : Debt(e[1], e[2]) # 0}
            f == [e \in O |-> <<Other(e[1], e[2]), e[1]>>]
            V == {i \in Nodes : \E k \in Neighbours(i) : <<i, k>> \in O}
<1>1. \A k \in Neighbours(Source) : Debt(Source, k) = 0
  <2>1. IsFiniteSet(Awaited) /\ Degree(Source) \in Nat /\ Cardinality(Awaited) \in Nat
    BY NetworkAssumption, FS_Subset, FS_CardinalityType DEF Neighbours, Degree, Awaited
  <2>2. Cardinality(Awaited) = 0
    BY <2>1 DEF SourceInv, TypeOK
  <2>3. Awaited = {}
    BY <2>1, <2>2, FS_EmptySet
  <2>. QED BY <2>3 DEF SourceInv, Awaited
<1>2. ASSUME NEW i \in Nodes, NEW k \in Neighbours(i), Debt(i, k) # 0
      PROVE  Debt(Other(i, k), i) # 0
  <2>1. i # Source /\ k \in Nodes /\ <<i, k>> \in Edges
    BY <1>1, <1>2, EdgeFacts
  <2>2. Debt(i, k) = Cover(i, k) /\ Cover(i, k) # 0
    BY <1>2, <2>1 DEF RingInv
  <2>3. counter_acks[i] \in Seq(Counter)
    BY DEF TypeOK
  <2>4. PICK n \in DOMAIN counter_acks[i] : counter_acks[i][n] \in NotFor(k)
    BY <2>2, <2>3, CountType DEF Cover
  <2>5. CounterInRange(i, counter_acks[i][n]) /\ counter_acks[i][n] \in Counter
    BY <2>3 DEF TypeOK
  <2>. DEFINE c == counter_acks[i][n]
              m == Other(i, k)
  <2>6. c.node_index \in Neighbours(i) /\ c.node_index # k
    BY <2>4, <2>5 DEF CounterInRange, NotFor
  <2>7. c.node_index = m /\ m \in Nodes /\ <<m, i>> \in Edges
    <3>1. Neighbours(i) = {k, m} /\ m \in Neighbours(i)
      BY RingFacts
    <3>2. m \in Nodes /\ <<m, i>> \in Edges
      BY <3>1, EdgeFacts
    <3>. HIDE DEF m, c
    <3>. QED BY <2>6, <3>1, <3>2
  <2>8. c \in For(m)
    BY <2>5, <2>7 DEF For
  <2>9. Count(counter_acks[i], For(m)) # 0
    BY <2>3, <2>8, CountType
  <2>. HIDE DEF m
  <2>10. /\ Count(chan[<<m, i>>], Updates) \in Nat /\ Count(chan[<<i, m>>], Acks) \in Nat
         /\ Count(counter_acks[i], For(m)) \in Nat
    BY <2>7, DebtFacts
  <2>. QED BY <2>9, <2>10 DEF Debt, m
<1>3. \A e \in O : /\ e = <<e[1], e[2]>> /\ e[1] \in Nodes /\ e[2] \in Neighbours(e[1])
                   /\ Debt(e[1], e[2]) # 0
  BY EdgeFacts
<1>4. f \in [O -> O]
  <2>1. ASSUME NEW e \in O PROVE <<Other(e[1], e[2]), e[1]>> \in O
    <3>1. Debt(Other(e[1], e[2]), e[1]) # 0 /\ Other(e[1], e[2]) \in Neighbours(e[1])
      BY <1>2, <1>3, RingFacts
    <3>2. <<Other(e[1], e[2]), e[1]>> \in Edges
      BY <1>3, <3>1, EdgeFacts
    <3>. QED BY <3>1, <3>2
  <2>. QED BY <2>1
<1>5. \A d, e \in O : f[d] = f[e] => d = e
  <2>1. SUFFICES ASSUME NEW d \in O, NEW e \in O, f[d] = f[e] PROVE d = e
    OBVIOUS
  <2>2. d[1] = e[1] /\ Other(d[1], d[2]) = Other(e[1], e[2])
    BY <2>1
  <2>3. d[2] = e[2]
    <3>1. Neighbours(d[1]) = {d[2], Other(d[1], d[2])} /\ Other(d[1], d[2]) # d[2]
      BY <1>3, RingFacts
    <3>2. Neighbours(e[1]) = {e[2], Other(e[1], e[2])} /\ Other(e[1], e[2]) # e[2]
      BY <1>3, RingFacts
    <3>. HIDE DEF O, f
    <3>. QED BY <2>2, <3>1, <3>2
  <2>. QED BY <1>3, <2>2, <2>3
<1>6. IsFiniteSet(O)
  <2>1. IsFiniteSet(Nodes \X Nodes)
    BY NetworkAssumption, FS_Product
  <2>2. O \in SUBSET (Nodes \X Nodes)
    BY DEF Edges
  <2>. HIDE DEF O
  <2>. QED BY <2>1, <2>2, FS_Subset
<1>7. ASSUME NEW e \in O PROVE \E d \in O : f[d] = e
  <2>. HIDE DEF O, f
  <2>1. f \in Injection(O, O)
    BY <1>4, <1>5 DEF Injection, IsInjective
  <2>2. f \in Surjection(O, O)
    BY <1>6, <2>1, FS_Injection
  <2>. QED BY <1>7, <2>2 DEF Surjection
<1>8. \A i \in V : Neighbours(i) \subseteq V
  <2>1. SUFFICES ASSUME NEW i \in V PROVE Neighbours(i) \subseteq V
    OBVIOUS
  <2>2. PICK k \in Neighbours(i) : <<i, k>> \in O
    OBVIOUS
  <2>. DEFINE m == Other(i, k)
  <2>3. i \in Nodes /\ m \in Neighbours(i) /\ Neighbours(i) = {k, m}
    BY <2>2, RingFacts
  <2>4. m \in V
    <3>1. f[<<i, k>>] = <<m, i>> /\ <<m, i>> \in O
      BY <1>4, <2>2
    <3>. QED BY <1>3, <3>1
  <2>5. k \in V
    <3>1. PICK d \in O : f[d] = <<i, k>>
      BY <1>7, <2>2
    <3>2. d[1] = k /\ d[2] \in Neighbours(d[1]) /\ <<d[1], d[2]>> \in O /\ d[1] \in Nodes
      BY <1>3, <3>1
    <3>. QED BY <3>2
  <2>. QED BY <2>3, <2>4, <2>5
<1>9. Source \notin V
  BY <1>1
<1>10. V = {}
  <2>1. V \in SUBSET Nodes
    OBVIOUS
  <2>. HIDE DEF V
  <2>. QED BY <1>8, <1>9, <2>1 DEF IsRing
<1>11. O = {}
  BY <1>3, <1>10
<1>12. ASSUME NEW i \in Nodes, NEW k \in Neighbours(i) PROVE Debt(i, k) = 0
  <2>1. <<i, k>> \in Edges
    BY EdgeFacts
  <2>. QED BY <1>11, <2>1
<1>. QED BY <1>12

(* On a ring every step keeps the books: an accepted update is a new debt   *)
(* and a new credit, and an ack takes one of each away.                     *)
LEMMA StepRingInv ==
  ASSUME IsRing, TypeOK, TreeInv, SourceInv, OpenInv, RingInv,
         NEW i \in Nodes, NEW j \in Nodes, NodeStep(i, j)
  PROVE  RingInv'
<1>. USE NetworkAssumption
<1>1. <<j, i>> \in Edges /\ <<i, j>> \in Edges /\ j \in Neighbours(i)
  BY StepFacts, EdgeFacts
<1>2. TypeOK'
  BY NextTypeOK DEF Next
<1>3. counter_acks \in [Nodes -> Seq(Counter)]
  BY DEF TypeOK
<1>4. \A a \in Nodes \ {Source} : \A b \in Neighbours(a) :
         /\ b \in Nodes /\ <<a, b>> \in Edges /\ Debt(a, b) = Cover(a, b)
         /\ Debt(a, b) \in Nat /\ Cover(a, b) \in Nat
  BY DebtFacts, EdgeFacts DEF RingInv
<1>. DEFINE Same(a, b) == Debt(a, b)' = Cover(a, b)'
<1>5. ASSUME counter_acks' = counter_acks,
             \A a \in Nodes \ {Source} : \A b \in Neighbours(a) : Same(a, b)
      PROVE  RingInv'
  BY <1>5 DEF RingInv
<1>6. CASE UpdateImproves(i, j)
  <2>. DEFINE c == [node_index |-> j, counter |-> AcksAwaited(i)]
  <2>1. /\ i # Source
        /\ counter_acks' = [counter_acks EXCEPT ![i] = Append(@, c)]
    BY <1>6, StepFacts DEF UpdateImproves
  <2>2. c.counter = 1
    BY DEF AcksAwaited, IsRing
  <2>3. ASSUME NEW n \in Nodes, NEW k \in DOMAIN counter_acks'[n]
        PROVE  counter_acks'[n][k].counter = 1
    <3>1. CASE n = i
      <4>1. counter_acks'[n] = Append(counter_acks[i], c) /\ counter_acks[i] \in Seq(Counter)
        BY <1>3, <2>1, <3>1
      <4>. HIDE DEF c
      <4>2. \/ k \in DOMAIN counter_acks[i] /\ counter_acks'[n][k] = counter_acks[i][k]
            \/ counter_acks'[n][k] = c
        BY <2>3, <4>1
      <4>. QED BY <2>2, <4>2 DEF RingInv
    <3>2. CASE n # i
      BY <1>3, <2>1, <2>3, <3>2 DEF RingInv
    <3>. QED BY <3>1, <3>2
  <2>4. counter_acks'[Source] = <<>>
    BY <1>3, <2>1 DEF RingInv
  <2>5. ASSUME NEW a \in Nodes \ {Source}, NEW b \in Neighbours(a) PROVE Same(a, b)
    <3>1. b \in Nodes /\ <<a, b>> \in Edges
      BY <1>4
    <3>2. /\ Debt(a, b)' = Debt(a, b) + Bit(a = i /\ b # j)
          /\ Cover(a, b)' = Cover(a, b) + Bit(a = i /\ b # j)
      BY <1>2, <1>6, <3>1, DebtOfImprovement
    <3>. QED BY <1>4, <3>2
  <2>. QED BY <2>3, <2>4, <2>5 DEF RingInv
<1>7. CASE UpdateRefused(i, j)
  <2>1. counter_acks' = counter_acks
    BY <1>7 DEF UpdateRefused
  <2>2. ASSUME NEW a \in Nodes \ {Source}, NEW b \in Neighbours(a) PROVE Same(a, b)
    <3>1. b \in Nodes /\ <<a, b>> \in Edges
      BY <1>4
    <3>2. Debt(a, b)' = Debt(a, b) /\ Cover(a, b)' = Cover(a, b)
      BY <1>7, <3>1, DebtOfRefusal
    <3>. QED BY <1>4, <3>2
  <2>. QED BY <1>5, <2>1, <2>2
<1>8. CASE AckCounted(i, j)
  BY <1>8 DEF AckCounted, RingInv
<1>9. CASE AckLost(i, j)
  <2>1. Debt(i, j) > 0 /\ i # Source
    BY <1>1, <1>9, DebtOfUnusedAck
  <2>2. Cover(i, j) # 0
    BY <1>1, <1>4, <2>1
  <2>3. PICK n \in DOMAIN counter_acks[i] : counter_acks[i][n] \in NotFor(j)
    BY <1>3, <2>2, CountType DEF Cover
  <2>. QED BY <1>9, <2>3 DEF AckLost, Creditable, NotFor
<1>10. CASE AckCompletes(i, j)
  <2>1. i # Source
    BY <1>10 DEF AckCompletes
  <2>2. PICK k \in DOMAIN counter_acks[i] :
           counter_acks' = [counter_acks EXCEPT ![i] = Erased(@, k)]
    BY <1>10 DEF AckCompletes
  <2>3. ASSUME NEW n \in Nodes, NEW l \in DOMAIN counter_acks'[n]
        PROVE  counter_acks'[n][l].counter = 1
    <3>1. CASE n = i
      <4>1. counter_acks'[n] = Erased(counter_acks[i], k) /\ counter_acks[i] \in Seq(Counter)
        BY <1>3, <2>2, <3>1
      <4>2. \A p \in DOMAIN Erased(counter_acks[i], k) : \E m \in DOMAIN counter_acks[i] :
                Erased(counter_acks[i], k)[p] = counter_acks[i][m]
        BY <4>1, ErasedFacts
      <4>3. PICK m \in DOMAIN counter_acks[i] : counter_acks'[n][l] = counter_acks[i][m]
        BY <2>3, <4>1, <4>2
      <4>. QED BY <4>3 DEF RingInv
    <3>2. CASE n # i
      BY <1>3, <2>2, <2>3, <3>2 DEF RingInv
    <3>. QED BY <3>1, <3>2
  <2>4. counter_acks'[Source] = <<>>
    BY <1>3, <2>1, <2>2 DEF RingInv
  <2>5. ASSUME NEW a \in Nodes \ {Source}, NEW b \in Neighbours(a) PROVE Same(a, b)
    <3>1. b \in Nodes /\ <<a, b>> \in Edges
      BY <1>4
    <3>2. Debt(a, b)' = Debt(a, b) - Bit(a = i /\ b = j)
      BY <1>10, <3>1, DebtOfCompletion, ZenonT(60)
    <3>7. CreditTaken(i, j, a, b)
      BY <1>10, <3>1, DebtOfCompletion
    <3>3. PICK n \in Neighbours(i) \ {j} :
             Cover(a, b)' = Cover(a, b) - Bit(a = i /\ b # n)
      BY <3>7 DEF CreditTaken
    <3>4. Neighbours(i) = {j, n} /\ n # j
      BY <1>1, RingFacts
    <3>5. a = i => (b = j <=> b # n)
      BY <3>4
    <3>6. Bit(a = i /\ b = j) = Bit(a = i /\ b # n)
      BY <3>5 DEF Bit
    <3>. QED BY <1>4, <3>2, <3>3, <3>6
  <2>. QED BY <2>3, <2>4, <2>5 DEF RingInv
<1>11. CASE i = Source /\ SourceAck(j)
  <2>1. counter_acks' = counter_acks
    BY <1>11 DEF SourceAck
  <2>2. ASSUME NEW a \in Nodes \ {Source}, NEW b \in Neighbours(a) PROVE Same(a, b)
    <3>1. b \in Nodes /\ <<a, b>> \in Edges /\ a # Source
      BY <1>4
    <3>2. /\ Debt(a, b)' = Debt(a, b) - Bit(a = Source /\ b = j)
          /\ Cover(a, b)' = Cover(a, b)
      BY <1>11, <3>1, DebtOfSourceAck
    <3>. QED BY <1>4, <3>1, <3>2 DEF Bit
  <2>. QED BY <1>5, <2>1, <2>2
<1>12. CASE AnswerToFinished(i, j) \/ Drain(i, j)
  <2>1. counter_acks' = counter_acks /\ interrupt[Source]
    BY <1>12, StepFacts DEF AnswerToFinished, Drain
  <2>2. ASSUME NEW a \in Nodes \ {Source}, NEW b \in Neighbours(a) PROVE Same(a, b)
    <3>1. b \in Nodes /\ <<a, b>> \in Edges
      BY <1>4
    <3>2. Debt(a, b) = 0
      BY <2>1, NothingOwed
    <3>3. Debt(a, b)' \in 0 .. Debt(a, b) /\ Cover(a, b)' = Cover(a, b)
      BY <1>12, <3>1, DebtOfEnd
    <3>4. Cover(a, b) = 0
      BY <1>4, <3>2
    <3>5. Debt(a, b)' = 0
      BY <3>2, <3>3
    <3>. QED BY <3>3, <3>4, <3>5
  <2>. QED BY <1>5, <2>1, <2>2
<1>. QED BY <1>6, <1>7, <1>8, <1>9, <1>10, <1>11, <1>12 DEF NodeStep

LEMMA NextRingInv ==
  ASSUME IsRing, TypeOK, TreeInv, SourceInv, OpenInv, RingInv, [Next]_vars
  PROVE  RingInv'
<1>1. CASE CalculateShortestPaths
  <2>1. counter_acks' = counter_acks
    BY <1>1 DEF CalculateShortestPaths
  <2>2. ASSUME NEW a \in Nodes \ {Source}, NEW b \in Neighbours(a)
        PROVE  Debt(a, b)' = Cover(a, b)'
    <3>1. b \in Nodes /\ <<a, b>> \in Edges /\ a # Source
      BY EdgeFacts
    <3>2. Debt(a, b)' = Debt(a, b) + Bit(a = Source) /\ Cover(a, b)' = Cover(a, b)
      BY <1>1, <3>1, DebtOfStart
    <3>3. Debt(a, b) \in Nat /\ Debt(a, b) = Cover(a, b)
      BY <3>1, DebtFacts DEF RingInv
    <3>. QED BY <3>1, <3>2, <3>3 DEF Bit
  <2>. QED BY <2>1, <2>2 DEF RingInv
<1>2. ASSUME UNCHANGED <<chan, counter_acks>> PROVE RingInv'
  <2>1. \A a, b : Debt(a, b)' = Debt(a, b) /\ Cover(a, b)' = Cover(a, b)
    BY <1>2 DEF Debt, Cover
  <2>. QED BY <1>2, <2>1 DEF RingInv
<1>3. ASSUME NEW i \in Nodes, Join(i) PROVE RingInv'
  BY <1>2, <1>3 DEF Join
<1>4. CASE UNCHANGED vars
  BY <1>2, <1>4 DEF vars
<1>. QED BY <1>1, <1>3, <1>4, StepRingInv DEF Next, Terminated

LEMMA InitRingInv == Init => RingInv
<1>1. SUFFICES ASSUME Init PROVE RingInv
  OBVIOUS
<1>2. \A T : Count(<<>>, T) = 0
  <2>1. <<>> \in Seq({})
    OBVIOUS
  <2>. QED BY <2>1, CountType
<1>3. \A i \in Nodes : counter_acks[i] = <<>>
  BY <1>1 DEF Init
<1>4. ASSUME NEW a \in Nodes, NEW b \in Neighbours(a) PROVE Debt(a, b) = Cover(a, b)
  <2>1. b \in Nodes /\ <<a, b>> \in Edges /\ <<b, a>> \in Edges
    BY EdgeFacts
  <2>2. chan[<<a, b>>] = <<>> /\ chan[<<b, a>>] = <<>>
    BY <1>1, <2>1 DEF Init
  <2>. QED BY <1>2, <1>3, <2>1, <2>2 DEF Debt, Cover
<1>. QED BY <1>3, <1>4, NetworkAssumption DEF RingInv

RingState == TypeOK /\ TreeInv /\ SourceInv /\ OpenInv /\ RingInv

LEMMA RingHolds == ASSUME IsRing PROVE Spec => []RingState
<1>1. TypeOK /\ TreeInv /\ SourceInv /\ OpenInv /\ RingInv /\ [Next]_vars => RingInv'
  BY NextRingInv
<1>. QED BY <1>1, InitRingInv, SourceHolds, PTL DEF Spec, RingState

(* On a ring a node keeps an entry for as long as a neighbour it asked has  *)
(* not acknowledged, as the comment on answer_to_ack (Node.cpp:223) wants.  *)
THEOREM RingCoversDebts == ASSUME IsRing PROVE Spec => []AckDebtCovered
<1>1. RingState => AckDebtCovered
  <2>1. SUFFICES ASSUME RingState, NEW i \in Nodes \ {Source}, NEW k \in Neighbours(i)
                 PROVE  Unacknowledged(i, k) <=
                           Cardinality({n \in DOMAIN counter_acks[i] :
                                           counter_acks[i][n].node_index # k})
    BY DEF AckDebtCovered
  <2>2. k \in Nodes /\ <<i, k>> \in Edges
    BY EdgeFacts
  <2>3. /\ Unacknowledged(i, k) = Debt(i, k) /\ Debt(i, k) \in Nat
        /\ Cover(i, k) = Cardinality({n \in DOMAIN counter_acks[i] :
                                          counter_acks[i][n].node_index # k})
    BY <2>1, <2>2, DebtFacts DEF RingState
  <2>4. Debt(i, k) = Cover(i, k)
    BY <2>1 DEF RingState, RingInv
  <2>. QED BY <2>3, <2>4
<1>. QED BY <1>1, RingHolds, PTL

(* Termination detection: on a ring no update, no ack and no entry is left  *)
(* when the source has counted its acks (Node.cpp:260).                     *)
LEMMA RingStable == ASSUME IsRing, RingState PROVE StableWhenFinished
<1>1. SUFFICES ASSUME interrupt[Source]
               PROVE  /\ \A e \in Edges : InFlight(e, "update") = {} /\ InFlight(e, "ack") = {}
                      /\ \A i \in Nodes : counter_acks[i] = <<>>
  BY DEF StableWhenFinished
<1>2. \A i \in Nodes : \A k \in Neighbours(i) : Debt(i, k) = 0
  BY <1>1, NothingOwed DEF RingState
<1>3. ASSUME NEW i \in Nodes, NEW k \in Nodes, <<i, k>> \in Edges
      PROVE  /\ InFlight(<<i, k>>, "update") = {} /\ InFlight(<<k, i>>, "ack") = {}
             /\ \A n \in DOMAIN counter_acks[k] : counter_acks[k][n].node_index # i
  <2>1. Unacknowledged(i, k) = 0
    <3>1. Debt(i, k) = 0
      BY <1>2, <1>3, EdgeFacts
    <3>2. Unacknowledged(i, k) = Debt(i, k)
      BY <1>3, DebtFacts DEF RingState
    <3>. QED BY <3>1, <3>2
  <2>. DEFINE U == InFlight(<<i, k>>, "update")
              A == InFlight(<<k, i>>, "ack")
              E == {n \in DOMAIN counter_acks[k] : counter_acks[k][n].node_index = i}
  <2>2. IsFiniteSet(U) /\ IsFiniteSet(A) /\ IsFiniteSet(E)
    <3>1. /\ chan[<<i, k>>] \in Seq(Message) /\ chan[<<k, i>>] \in Seq(Message)
          /\ counter_acks[k] \in Seq(Counter)
      BY <1>3, EdgeFacts DEF RingState, TypeOK
    <3>2. \A s \in Seq(Message) \cup Seq(Counter) : IsFiniteSet(DOMAIN s)
      BY FS_Interval
    <3>3. IsFiniteSet(DOMAIN chan[<<i, k>>]) /\ IsFiniteSet(DOMAIN chan[<<k, i>>])
          /\ IsFiniteSet(DOMAIN counter_acks[k])
      BY <3>1, <3>2
    <3>. QED BY <3>3, FS_Subset DEF InFlight
  <2>3. Cardinality(U) \in Nat /\ Cardinality(A) \in Nat /\ Cardinality(E) \in Nat
    BY <2>2, FS_CardinalityType
  <2>4. Cardinality(U) + Cardinality(E) + Cardinality(A) = 0
    BY <2>1 DEF Unacknowledged
  <2>. HIDE DEF U, A, E
  <2>5. Cardinality(U) = 0 /\ Cardinality(E) = 0 /\ Cardinality(A) = 0
    BY <2>3, <2>4
  <2>6. U = {} /\ E = {} /\ A = {}
    BY <2>2, <2>5, FS_EmptySet
  <2>. QED BY <2>6 DEF U, A, E
<1>4. ASSUME NEW e \in Edges PROVE InFlight(e, "update") = {} /\ InFlight(e, "ack") = {}
  <2>1. /\ e = <<e[1], e[2]>> /\ e[1] \in Nodes /\ e[2] \in Nodes
        /\ <<e[1], e[2]>> \in Edges /\ <<e[2], e[1]>> \in Edges
    BY EdgeFacts
  <2>. QED BY <1>3, <2>1
<1>5. ASSUME NEW k \in Nodes PROVE counter_acks[k] = <<>>
  <2>1. counter_acks[k] \in Seq(Counter)
    BY DEF RingState, TypeOK
  <2>2. \A n \in DOMAIN counter_acks[k] : counter_acks[k][n].node_index \in Neighbours(k)
    BY DEF RingState, TypeOK, CounterInRange
  <2>3. DOMAIN counter_acks[k] = {}
    BY <1>3, <2>2, EdgeFacts
  <2>4. \A s \in Seq(Counter) : s # <<>> => 1 \in DOMAIN s
    OBVIOUS
  <2>. QED BY <2>1, <2>3, <2>4
<1>. QED BY <1>4, <1>5

THEOREM RingIsStable == ASSUME IsRing PROVE Spec => []StableWhenFinished
  BY RingStable, RingHolds, PTL
----------------------------------------------------------------------------
(* A node that has relayed the end of the computation: the source, and a    *)
(* node that was awake when finished came.                                  *)
Told(j) == j = Source \/ (finished[j] /\ state[j] = "awake")

(* After the source has left its loop a connection carries one finished     *)
(* from when its writer is told until its reader has closed it.             *)
EndInv ==
    interrupt[Source] =>
        \A e \in Edges :
            /\ e \in closed => Told(e[1])
            /\ Count(chan[e], Ends) = Bit(Told(e[1]) /\ e \notin closed)

(* A thread is joined when its handler has closed all its connections.      *)
JoinInv == \A i \in Nodes : joined[i] => interrupt[i] /\ HandlerDone(i)

(* When the source leaves its loop no edge has anything to offer.           *)
FrozenInv == interrupt[Source] => ~ request /\ \A e \in Edges : Relaxed(e)

(* All a connection carries at the end is finished.                         *)
LEMMA OnlyEnds ==
  ASSUME TypeOK, StableWhenFinished, interrupt[Source], NEW e \in Edges
  PROVE  /\ \A n \in DOMAIN chan[e] : chan[e][n] \in Ends /\ chan[e][n].type = "finished"
         /\ Len(chan[e]) = Count(chan[e], Ends)
         /\ chan[e] # <<>> => Head(chan[e]) = Finished
<1>1. chan[e] \in Seq(Message) /\ Len(chan[e]) \in Nat
  BY DEF TypeOK
<1>2. InFlight(e, "update") = {} /\ InFlight(e, "ack") = {}
  BY DEF StableWhenFinished
<1>3. ASSUME NEW n \in DOMAIN chan[e]
      PROVE  chan[e][n] \in Ends /\ chan[e][n].type = "finished"
  <2>1. chan[e][n] \in Message
    BY <1>1
  <2>2. chan[e][n].type # "update" /\ chan[e][n].type # "ack"
    BY <1>2 DEF InFlight
  <2>. QED BY <2>1, <2>2, KindFacts DEF Ends, Updates, Acks
<1>4. Places(chan[e], Ends) = 1 .. Len(chan[e])
  BY <1>1, <1>3 DEF Places
<1>5. Len(chan[e]) = Count(chan[e], Ends)
  BY <1>1, <1>4, FS_Interval DEF Count
<1>6. ASSUME chan[e] # <<>> PROVE Head(chan[e]) = Finished
  <2>1. 1 \in DOMAIN chan[e] /\ Head(chan[e]) = chan[e][1]
    BY <1>1, <1>6
  <2>. QED BY <1>3, <2>1, KindFacts
<1>. QED BY <1>3, <1>5, <1>6

(* At the end the only messages to answer are finished ones.                *)
LEMMA EndSteps ==
  ASSUME TypeOK, StableWhenFinished, interrupt[Source],
         NEW i \in Nodes, NEW j \in Nodes, NodeStep(i, j)
  PROVE  /\ AnswerToFinished(i, j) \/ Drain(i, j)
         /\ Head(chan[<<j, i>>]) = Finished
<1>1. <<j, i>> \in Edges /\ chan[<<j, i>>] # <<>>
  BY DEF NodeStep, UpdateImproves, UpdateRefused, AckCounted, AckCompletes, AckLost,
         SourceAck, AnswerToFinished, Drain, Receives
<1>2. Head(chan[<<j, i>>]) = Finished /\ Finished.type = "finished"
  BY <1>1, OnlyEnds DEF Finished
<1>. QED BY <1>2 DEF NodeStep, UpdateImproves, UpdateRefused, AckCounted,
            AckCompletes, AckLost, SourceAck, Receives

(* The step in which the source leaves its loop tells its neighbours.       *)
LEMMA LastAckEndInv ==
  ASSUME RingState, TypeOK', StableWhenFinished', NEW j \in Nodes, SourceAck(j),
         ~ interrupt[Source], interrupt'[Source]
  PROVE  EndInv'
<1>. USE NetworkAssumption
<1>1. <<j, Source>> \in Edges /\ chan[<<j, Source>>] # <<>>
      /\ Head(chan[<<j, Source>>]).type = "ack" /\ ~ request
  BY DEF SourceAck, Receives, RingState, TreeInv, SourceAtZero
<1>2. state[Source] = "awake" /\ Writers(Source) = Neighbours(Source)
  BY <1>1 DEF RingState, SourceInv, Writers
<1>3. /\ Answer(Source, j, Neighbours(Source), Finished)
      /\ UNCHANGED <<state, finished, closed>>
  <2>1. interrupt' = [interrupt EXCEPT ![Source] = AllAcked(counter_finishing')]
    BY DEF SourceAck
  <2>2. AllAcked(counter_finishing')
    BY <2>1 DEF RingState, TypeOK
  <2>. QED BY <1>2, <2>2 DEF SourceAck
<1>4. AnswerCounted(Source, j, Neighbours(Source), Finished)
  BY <1>1, <1>3, AnswerCounts, KindFacts DEF RingState
<1>5. /\ closed = {} /\ \A n \in Nodes : ~ finished[n]
      /\ \A e \in Edges : Count(chan[e], Ends) = 0
  BY DEF RingState, OpenInv
<1>6. Head(chan[<<j, Source>>]) \notin Ends /\ Finished \in Ends
  BY <1>1, HeadFacts, KindFacts DEF RingState
<1>7. ASSUME NEW a \in Nodes, NEW b \in Nodes, <<a, b>> \in Edges
      PROVE  /\ <<a, b>> \notin closed'
             /\ Told(a)' <=> a = Source
             /\ Count(chan'[<<a, b>>], Ends) = Bit(a = Source)
  <2>1. Count(chan'[<<a, b>>], Ends) =
           Count(chan[<<a, b>>], Ends)
           - Bit(a = j /\ b = Source /\ Head(chan[<<j, Source>>]) \in Ends)
           + Bit(a = Source /\ b \in Neighbours(Source) /\ Finished \in Ends)
    BY <1>4, <1>7, Zenon, SMTT(60) DEF AnswerCounted
  <2>2. a = Source => b \in Neighbours(Source)
    BY <1>7, EdgeFacts
  <2>. QED BY <1>3, <1>5, <1>6, <1>7, <2>1, <2>2 DEF Bit, Told
<1>8. ASSUME NEW e \in Edges
      PROVE  /\ e \notin closed'
             /\ Count(chan'[e], Ends) = Bit(Told(e[1])' /\ e \notin closed')
  <2>1. e = <<e[1], e[2]>> /\ e[1] \in Nodes /\ e[2] \in Nodes /\ <<e[1], e[2]>> \in Edges
    BY EdgeFacts
  <2>2. /\ e \notin closed' /\ (Told(e[1])' <=> e[1] = Source)
        /\ Count(chan'[e], Ends) = Bit(e[1] = Source)
    BY <1>7, <2>1
  <2>. QED BY <2>2 DEF Bit
<1>. QED BY <1>8 DEF EndInv

(* A finished that is read is the only one on its connection, which is      *)
(* closed; a node that is told by it tells its neighbours.                  *)
LEMMA FinishedEndInv ==
  ASSUME TypeOK, EndInv, interrupt[Source], NEW i \in Nodes, NEW j \in Nodes,
         AnswerToFinished(i, j) \/ Drain(i, j), Head(chan[<<j, i>>]) = Finished
  PROVE  EndInv'
<1>. USE NetworkAssumption
<1>1. <<j, i>> \in Edges /\ chan[<<j, i>>] # <<>> /\ j # i
      /\ state' = state /\ closed' = closed \cup {<<j, i>>}
  BY EdgeFacts DEF AnswerToFinished, Drain, Receives
<1>2. \A n \in Nodes : n # i => Told(n)' = Told(n)
  BY <1>1 DEF AnswerToFinished, Drain, Told, TypeOK
<1>3. <<j, i>> \notin closed /\ Told(j) /\ Count(chan[<<j, i>>], Ends) = 1
  <2>1. Count(chan[<<j, i>>], Ends) > 0
    BY <1>1, HeadFacts, KindFacts
  <2>2. Count(chan[<<j, i>>], Ends) = Bit(Told(j) /\ <<j, i>> \notin closed)
    BY <1>1 DEF EndInv
  <2>. QED BY <2>1, <2>2 DEF Bit
<1>4. PICK S, m :
         /\ Answer(i, j, S, m) /\ m \in Message
         /\ \/ m = Ack /\ S = {} /\ Told(i)' = Told(i)
            \/ m = Finished /\ ~ Told(i) /\ S = IF Told(i)' THEN Neighbours(i) ELSE {}
            \/ m = Finished /\ S = {} /\ Told(i)' = Told(i)
  <2>1. CASE Drain(i, j)
    <3>1. Answer(i, j, {}, Ack) /\ UNCHANGED <<state, finished>>
      BY <2>1 DEF Drain
    <3>2. Told(i)' = Told(i)
      BY <3>1 DEF Told
    <3>. QED BY <3>1, <3>2, KindFacts
  <2>2. CASE AnswerToFinished(i, j)
    <3>1. /\ Answer(i, j, RelayTo(i), Finished) /\ ~ interrupt[i]
          /\ finished' = [finished EXCEPT ![i] = TRUE]
      BY <2>2 DEF AnswerToFinished, Receives
    <3>2. i # Source /\ finished'[i] /\ (Told(i)' <=> state[i] = "awake")
      BY <1>1, <3>1 DEF Told, TypeOK
    <3>3. CASE finished[i]
      <4>1. RelayTo(i) = {} /\ Told(i)' = Told(i)
        BY <3>2, <3>3, <1>1 DEF RelayTo, Told
      <4>. QED BY <3>1, <4>1, KindFacts
    <3>4. CASE ~ finished[i]
      <4>1. ~ Told(i) /\ RelayTo(i) = IF Told(i)' THEN Neighbours(i) ELSE {}
        BY <3>2, <3>4 DEF RelayTo, Told, Writers
      <4>. QED BY <3>1, <4>1, KindFacts
    <3>. QED BY <3>3, <3>4
  <2>. QED BY <1>1, <2>1, <2>2
<1>5. AnswerCounted(i, j, S, m)
  BY <1>1, <1>4, AnswerCounts
<1>6. ASSUME NEW a \in Nodes, NEW b \in Nodes, <<a, b>> \in Edges
      PROVE  /\ <<a, b>> \in closed' => Told(a)'
             /\ Count(chan'[<<a, b>>], Ends) = Bit(Told(a)' /\ <<a, b>> \notin closed')
  <2>1. Count(chan'[<<a, b>>], Ends) =
           Count(chan[<<a, b>>], Ends)
           - Bit(a = j /\ b = i /\ Head(chan[<<j, i>>]) \in Ends)
           + Bit(a = i /\ b \in S /\ m \in Ends)
    BY <1>5, <1>6, Zenon, SMTT(60) DEF AnswerCounted
  <2>2. Head(chan[<<j, i>>]) \in Ends /\ Finished \in Ends /\ Ack \notin Ends
    BY KindFacts
  <2>3. /\ <<a, b>> \in closed => Told(a)
        /\ Count(chan[<<a, b>>], Ends) = Bit(Told(a) /\ <<a, b>> \notin closed)
    BY <1>6 DEF EndInv
  <2>4. a = i => b \in Neighbours(i)
    BY <1>6, EdgeFacts
  <2>5. <<a, b>> = <<j, i>> <=> a = j /\ b = i
    OBVIOUS
  <2>6. CASE a = j /\ b = i
    <3>1. Told(a)' /\ <<a, b>> \in closed' /\ Count(chan[<<a, b>>], Ends) = 1
      BY <1>1, <1>2, <1>3, <2>6
    <3>. QED BY <1>1, <2>1, <2>2, <2>6, <3>1 DEF Bit
  <2>7. CASE a = i
    <3>1. <<a, b>> \in closed' <=> <<a, b>> \in closed
      BY <1>1, <2>5, <2>7
    <3>2. Count(chan'[<<a, b>>], Ends) =
             Bit(Told(i) /\ <<a, b>> \notin closed) + Bit(b \in S /\ m \in Ends)
      BY <1>1, <2>1, <2>3, <2>7 DEF Bit
    <3>3. CASE S = {} /\ Told(i)' = Told(i)
      BY <2>3, <2>7, <3>1, <3>2, <3>3 DEF Bit
    <3>4. CASE m = Finished /\ ~ Told(i) /\ S = IF Told(i)' THEN Neighbours(i) ELSE {}
      <4>1. <<a, b>> \notin closed'
        BY <2>3, <2>7, <3>1, <3>4
      <4>2. b \in S <=> Told(i)'
        BY <2>4, <2>7, <3>4
      <4>. QED BY <2>2, <2>7, <3>2, <3>4, <4>1, <4>2 DEF Bit
    <3>. QED BY <1>4, <3>3, <3>4
  <2>8. CASE a # i /\ ~ (a = j /\ b = i)
    <3>1. /\ Count(chan'[<<a, b>>], Ends) = Count(chan[<<a, b>>], Ends)
          /\ Told(a)' = Told(a) /\ (<<a, b>> \in closed' <=> <<a, b>> \in closed)
      BY <1>1, <1>2, <2>1, <2>3, <2>5, <2>8 DEF Bit
    <3>. QED BY <2>3, <3>1
  <2>. QED BY <2>6, <2>7, <2>8
<1>7. ASSUME NEW e \in Edges
      PROVE  /\ e \in closed' => Told(e[1])'
             /\ Count(chan'[e], Ends) = Bit(Told(e[1])' /\ e \notin closed')
  <2>1. e = <<e[1], e[2]>> /\ e[1] \in Nodes /\ e[2] \in Nodes /\ <<e[1], e[2]>> \in Edges
    BY EdgeFacts
  <2>. QED BY <1>6, <2>1
<1>. QED BY <1>7 DEF EndInv

(* Only the source's last ack makes it leave its loop. *)
LEMMA SourceLeaves ==
  ASSUME RingState, [Next]_vars, ~ interrupt[Source], interrupt'[Source]
  PROVE  \E j \in Nodes : SourceAck(j)
<1>1. UNCHANGED interrupt => FALSE
  OBVIOUS
<1>2. ASSUME NEW i \in Nodes, NEW j \in Nodes, NodeStep(i, j)
      PROVE  i = Source /\ SourceAck(j)
  <2>1. ~ AnswerToFinished(i, j)
    BY <1>2, StepFacts DEF RingState
  <2>. QED BY <1>1, <1>2, <2>1 DEF NodeStep, UpdateImproves, UpdateRefused,
              AckCounted, AckCompletes, AckLost, Drain, endgame
<1>3. ~ CalculateShortestPaths
  BY <1>1 DEF CalculateShortestPaths, endgame
<1>4. \A i \in Nodes : ~ Join(i)
  BY <1>1 DEF Join
<1>5. vars' # vars
  BY <1>1 DEF vars, endgame
<1>. QED BY <1>2, <1>3, <1>4, <1>5 DEF Next, Terminated

(* Once the source has left its loop the estimates stay.                    *)
LEMMA EndKeepsEstimates ==
  ASSUME RingState, StableWhenFinished, [Next]_vars, interrupt[Source]
  PROVE  UNCHANGED <<request, estimates>>
<1>1. ~ CalculateShortestPaths
  BY DEF CalculateShortestPaths
<1>2. ASSUME NEW i \in Nodes, NEW j \in Nodes, NodeStep(i, j)
      PROVE  UNCHANGED <<request, estimates>>
  <2>1. AnswerToFinished(i, j) \/ Drain(i, j)
    BY <1>2, EndSteps DEF RingState
  <2>. QED BY <2>1 DEF AnswerToFinished, Drain
<1>3. \A i \in Nodes : Join(i) => UNCHANGED <<request, estimates>>
  BY DEF Join
<1>4. UNCHANGED vars => UNCHANGED <<request, estimates>>
  BY DEF vars
<1>. QED BY <1>1, <1>2, <1>3, <1>4 DEF Next, Terminated

LEMMA NextEndInv ==
  ASSUME RingState, StableWhenFinished, RingState', StableWhenFinished',
         EndInv, FrozenInv, [Next]_vars
  PROVE  EndInv' /\ FrozenInv'
<1>. USE NetworkAssumption
<1>1. interrupt[Source] => interrupt'[Source]
  BY NextOpenInv DEF RingState
<1>2. CASE ~ interrupt'[Source]
  BY <1>2 DEF EndInv, FrozenInv
<1>3. CASE ~ interrupt[Source] /\ interrupt'[Source]
  <2>1. PICK j \in Nodes : SourceAck(j)
    BY <1>3, SourceLeaves
  <2>2. EndInv'
    BY <1>3, <2>1, LastAckEndInv DEF RingState
  <2>3. ~ request' /\ \A n \in Nodes : interrupt'[n] => n = Source
    BY <1>3, <2>1 DEF SourceAck, Receives, RingState, SourceInv, OpenInv, TypeOK
  <2>4. ASSUME NEW e \in Edges PROVE Relaxed(e)'
    <3>1. e[1] \in Nodes /\ e[2] \in Nodes /\ Weight[e] \in Nat
      BY EdgeFacts
    <3>2. distance'[e[1]] \in Nat /\ distance'[Source] = 0
      <4>1. TypeOK' /\ SourceAtZero'
        BY DEF RingState, TreeInv
      <4>2. distance' \in [Nodes -> 0 .. Infinity] /\ distance'[Source] = 0
        BY <2>3, <4>1 DEF TypeOK, SourceAtZero
      <4>. QED BY <3>1, <4>2
    <3>3. CASE e[2] = Source
      BY <3>1, <3>2, <3>3 DEF Relaxed
    <3>4. CASE e[2] # Source
      <4>1. ~ Informed(e)'
        BY <1>3 DEF Informed, InFlight, StableWhenFinished
      <4>2. interrupt'[e[2]] \/ Relaxed(e)' \/ Informed(e)'
        BY DEF RingState, TreeInv, EdgesInformed
      <4>. QED BY <2>3, <3>1, <3>4, <4>1, <4>2
    <3>. QED BY <3>3, <3>4
  <2>. QED BY <2>2, <2>3, <2>4 DEF FrozenInv
<1>4. CASE interrupt[Source]
  <2>1. FrozenInv'
    BY <1>4, EndKeepsEstimates DEF FrozenInv, Relaxed, estimates
  <2>2. ASSUME NEW i \in Nodes, NEW j \in Nodes, NodeStep(i, j) PROVE EndInv'
    BY <1>4, <2>2, EndSteps, FinishedEndInv DEF RingState
  <2>3. ASSUME UNCHANGED <<interrupt, chan, closed, state, finished>> PROVE EndInv'
    BY <2>3 DEF EndInv, Told
  <2>4. \A i \in Nodes : Join(i) => EndInv'
    BY <2>3 DEF Join
  <2>5. UNCHANGED vars => EndInv'
    BY <2>3 DEF vars, endgame
  <2>6. ~ CalculateShortestPaths
    BY <1>4 DEF CalculateShortestPaths
  <2>. QED BY <2>1, <2>2, <2>4, <2>5, <2>6 DEF Next, Terminated
<1>. QED BY <1>1, <1>2, <1>3, <1>4

LEMMA NextJoinInv == ASSUME TypeOK, JoinInv, [Next]_vars PROVE JoinInv'
<1>1. ASSUME \A i \in Nodes : interrupt[i] => interrupt'[i],
             closed \subseteq closed', joined' = joined
      PROVE  JoinInv'
  BY <1>1 DEF JoinInv, HandlerDone
<1>2. CASE CalculateShortestPaths
  BY <1>1, <1>2 DEF CalculateShortestPaths, endgame
<1>3. ASSUME NEW i \in Nodes, NEW j \in Nodes, NodeStep(i, j) PROVE JoinInv'
  <2>1. closed \subseteq closed' /\ joined' = joined
    BY <1>3 DEF NodeStep, UpdateImproves, UpdateRefused, AckCounted, AckCompletes,
       AckLost, SourceAck, AnswerToFinished, Drain, endgame
  <2>2. \A n \in Nodes : interrupt[n] => interrupt'[n]
    BY <1>3 DEF NodeStep, UpdateImproves, UpdateRefused, AckCounted, AckCompletes,
       AckLost, SourceAck, AnswerToFinished, Drain, endgame, Receives, TypeOK
  <2>. QED BY <1>1, <2>1, <2>2
<1>4. ASSUME NEW i \in Nodes, Join(i) PROVE JoinInv'
  BY <1>4 DEF Join, JoinInv, HandlerDone, TypeOK
<1>5. CASE UNCHANGED vars
  BY <1>1, <1>5 DEF vars, endgame
<1>. QED BY <1>2, <1>3, <1>4, <1>5 DEF Next, Terminated

LEMMA EndHolds ==
  ASSUME IsRing PROVE Spec => [](RingState /\ StableWhenFinished /\ EndInv /\ FrozenInv /\ JoinInv)
<1>1. Init => EndInv /\ FrozenInv /\ JoinInv
  BY NetworkAssumption DEF Init, EndInv, FrozenInv, JoinInv
<1>2. RingState /\ StableWhenFinished /\ RingState' /\ StableWhenFinished' /\ EndInv
      /\ FrozenInv /\ [Next]_vars => EndInv' /\ FrozenInv'
  BY NextEndInv
<1>3. RingState /\ JoinInv /\ [Next]_vars => JoinInv'
  BY NextJoinInv DEF RingState
<1>. QED BY <1>1, <1>2, <1>3, RingHolds, RingIsStable, PTL DEF Spec

(* On a ring no message is written on a connection after finished, so none  *)
(* meets the socket that Handler.cpp:73 has closed.                         *)
THEOREM RingEndsInOrder == ASSUME IsRing PROVE Spec => []NothingAfterFinished
<1>1. RingState /\ StableWhenFinished /\ EndInv => NothingAfterFinished
  <2>1. SUFFICES ASSUME RingState, StableWhenFinished, EndInv, NEW e \in Edges
                 PROVE  /\ e \in closed => chan[e] = <<>>
                        /\ \A k \in InFlight(e, "finished") : k = Len(chan[e])
    BY DEF NothingAfterFinished
  <2>2. chan[e] \in Seq(Message)
    BY <2>1 DEF RingState, TypeOK
  <2>3. CASE ~ interrupt[Source]
    <3>1. closed = {} /\ Count(chan[e], Ends) = 0
      BY <2>1, <2>3 DEF RingState, OpenInv
    <3>2. \A n \in DOMAIN chan[e] : chan[e][n] \notin Ends /\ chan[e][n] \in Message
      BY <2>2, <3>1, CountType
    <3>. QED BY <3>1, <3>2 DEF InFlight, Ends
  <2>4. CASE interrupt[Source]
    <3>1. Len(chan[e]) = Count(chan[e], Ends)
      BY <2>1, <2>4, OnlyEnds DEF RingState
    <3>2. Count(chan[e], Ends) = Bit(Told(e[1]) /\ e \notin closed)
      BY <2>1, <2>4 DEF EndInv
    <3>3. Len(chan[e]) \in {0, 1} /\ (e \in closed => Len(chan[e]) = 0)
      BY <3>1, <3>2 DEF Bit
    <3>4. \A s \in Seq(Message) : Len(s) \in Nat /\ DOMAIN s = 1 .. Len(s)
                                 /\ (Len(s) = 0 => s = <<>>)
      OBVIOUS
    <3>5. \A k \in InFlight(e, "finished") : k \in 1 .. Len(chan[e])
      BY <2>2, <3>4 DEF InFlight
    <3>6. e \in closed => chan[e] = <<>>
      BY <2>2, <3>3, <3>4
    <3>7. \A k \in InFlight(e, "finished") : k = Len(chan[e])
      <4>1. \A l \in {0, 1} : \A k \in 1 .. l : k = l
        OBVIOUS
      <4>. QED BY <3>3, <3>5, <4>1, Zenon
    <3>. QED BY <3>6, <3>7
  <2>. QED BY <2>3, <2>4
<1>. QED BY <1>1, EndHolds, PTL

(* On a ring a call of calculate_shortest_paths (main.cpp:262) leaves no    *)
(* message, no debt and no open connection to the next one.                 *)
THEOREM RingReturnsClean == ASSUME IsRing PROVE Spec => []CleanReturn
<1>1. RingState /\ StableWhenFinished /\ EndInv /\ JoinInv => CleanReturn
  <2>1. SUFFICES ASSUME RingState, StableWhenFinished, EndInv, JoinInv, AllJoined
                 PROVE  /\ \A i \in Nodes : interrupt[i] /\ counter_acks[i] = <<>>
                        /\ closed = Edges
                        /\ \A e \in Edges : chan[e] = <<>>
    BY DEF CleanReturn
  <2>2. \A i \in Nodes : interrupt[i] /\ HandlerDone(i)
    BY <2>1 DEF AllJoined, JoinInv
  <2>3. interrupt[Source]
    BY <2>2, NetworkAssumption
  <2>4. \A i \in Nodes : counter_acks[i] = <<>>
    BY <2>1, <2>3 DEF StableWhenFinished
  <2>5. \A e \in Edges : e \in closed
    <3>1. SUFFICES ASSUME NEW e \in Edges PROVE e \in closed
      OBVIOUS
    <3>2. e = <<e[1], e[2]>> /\ e[1] \in Nodes /\ e[2] \in Nodes
      BY EdgeFacts
    <3>3. <<e[2], e[1]>> \in Edges
      BY <3>2, EdgeFacts
    <3>4. e[1] \in Neighbours(e[2])
      BY <3>2, <3>3, EdgeFacts
    <3>. QED BY <2>2, <3>2, <3>4 DEF HandlerDone
  <2>6. closed = Edges
    BY <2>1, <2>5 DEF RingState, TypeOK
  <2>7. ASSUME NEW e \in Edges PROVE chan[e] = <<>>
    <3>1. chan[e] \in Seq(Message) /\ Len(chan[e]) = Count(chan[e], Ends)
      BY <2>1, <2>3, OnlyEnds DEF RingState, TypeOK
    <3>2. Count(chan[e], Ends) = 0
      BY <2>1, <2>3, <2>5 DEF EndInv, Bit
    <3>. QED BY <3>1, <3>2
  <2>. QED BY <2>2, <2>4, <2>6, <2>7
<1>. QED BY <1>1, EndHolds, PTL

(* On a ring the estimates are final, and the lengths of the shortest paths,*)
(* when the source broadcasts finished (Node.cpp:260).                      *)
THEOREM RingFinishesCorrect == ASSUME IsRing PROVE Spec => []FinishedIsCorrect
<1>1. RingState /\ FrozenInv => FinishedIsCorrect
  <2>1. SUFFICES ASSUME RingState, FrozenInv, interrupt[Source]
                 PROVE  distance = ShortestDistance /\ IsShortestPathTree
    BY DEF FinishedIsCorrect
  <2>2. IsShortestPathTree
    BY <2>1, RelaxedIsTree DEF RingState, FrozenInv
  <2>. QED BY <2>1, <2>2, TreeIsShortest DEF RingState
<1>. QED BY <1>1, EndHolds, PTL

(* On a ring an estimate never grows, and none changes once the source has  *)
(* finished, while main (main.cpp:262) waits for the threads to end.        *)
THEOREM RingImproves == ASSUME IsRing PROVE Spec => EstimatesImprove
<1>1. RingState /\ StableWhenFinished /\ [Next]_vars =>
         [ /\ \A i \in Nodes : distance'[i] <= distance[i]
           /\ interrupt[Source] => UNCHANGED estimates ]_vars
  <2>1. SUFFICES ASSUME RingState, StableWhenFinished, [Next]_vars
                 PROVE  /\ \A i \in Nodes : distance'[i] <= distance[i]
                        /\ interrupt[Source] => UNCHANGED estimates
    OBVIOUS
  <2>. QED BY <2>1, NeverGrows, EndKeepsEstimates DEF RingState
<1>. QED BY <1>1, EndHolds, PTL DEF Spec, EstimatesImprove
-----------------------------------------------------------------------------
(* What holds at any moment of a call, and what it returns to main.         *)
(* A node takes a parent with its first distance.                           *)
ReachedInv == \A i \in Nodes : parent[i] # NoNode => distance[i] < Infinity

CallInv ==
    /\ TypeOK /\ TreeInv /\ SourceInv /\ OpenInv /\ JoinInv /\ ReachedInv
    /\ IsRing => RingInv /\ EndInv /\ FrozenInv

LEMMA InitCallInv == Init => CallInv
<1>1. Init => JoinInv /\ ReachedInv /\ EndInv /\ FrozenInv
  BY NetworkAssumption DEF Init, JoinInv, ReachedInv, EndInv, FrozenInv
<1>. QED BY <1>1, InitTypeOK, InitTreeInv, InitSourceInv, InitRingInv DEF CallInv

LEMMA NextReachedInv == ASSUME TypeOK, ReachedInv, [Next]_vars PROVE ReachedInv'
<1>1. ASSUME UNCHANGED estimates PROVE ReachedInv'
  BY <1>1 DEF estimates, ReachedInv
<1>2. CASE CalculateShortestPaths
  BY <1>2, NetworkAssumption DEF CalculateShortestPaths, ReachedInv, TypeOK
<1>3. ASSUME NEW i \in Nodes, NEW j \in Nodes, UpdateImproves(i, j) PROVE ReachedInv'
  <2>1. distance[i] \in 0 .. Infinity /\ Infinity \in Nat
    BY NetworkAssumption DEF TypeOK
  <2>2. DistanceThrough(i, j) < distance[i]
    BY <1>3 DEF UpdateImproves, Improves
  <2>3. DistanceThrough(i, j) \in Int
    <3>1. <<j, i>> \in Edges /\ chan[<<j, i>>] # <<>>
          /\ Head(chan[<<j, i>>]).type = "update"
      BY <1>3 DEF UpdateImproves, Receives
    <3>2. Head(chan[<<j, i>>]) \in Message
      BY <3>1 DEF TypeOK
    <3>3. Head(chan[<<j, i>>]).w \in 0 .. Infinity
      BY <3>1, <3>2, MessageFacts
    <3>. QED BY <3>3, NetworkAssumption DEF DistanceThrough
  <2>. QED BY <1>3, <2>1, <2>2, <2>3 DEF UpdateImproves, ReachedInv, TypeOK
<1>4. ASSUME NEW i \in Nodes, NEW j \in Nodes, NodeStep(i, j) PROVE ReachedInv'
  BY <1>1, <1>3, <1>4 DEF NodeStep, UpdateRefused, AckCounted, AckCompletes, AckLost,
     SourceAck, AnswerToFinished, Drain
<1>5. ASSUME NEW i \in Nodes, Join(i) PROVE ReachedInv'
  BY <1>1, <1>5 DEF Join
<1>6. CASE UNCHANGED vars
  BY <1>1, <1>6 DEF vars
<1>. QED BY <1>2, <1>4, <1>5, <1>6 DEF Next, Terminated

LEMMA NextCallInv == CallInv /\ [Next]_vars => CallInv'
<1>1. CallInv /\ [Next]_vars => (TypeOK /\ TreeInv /\ SourceInv /\ OpenInv)'
  BY NextTypeOK, NextTreeInv, NextSourceInv, NextOpenInv DEF CallInv
<1>2. CallInv /\ [Next]_vars => (JoinInv /\ ReachedInv)'
  BY NextJoinInv, NextReachedInv DEF CallInv
<1>3. IsRing /\ CallInv /\ [Next]_vars => RingInv'
  BY NextRingInv DEF CallInv
<1>4. IsRing /\ RingState => StableWhenFinished
  BY RingStable
<1>5. (IsRing /\ RingState => StableWhenFinished)'
  BY <1>4, PTL
<1>6. IsRing /\ CallInv /\ [Next]_vars => (RingInv /\ EndInv /\ FrozenInv)'
  <2>1. SUFFICES ASSUME IsRing, CallInv, [Next]_vars PROVE (RingInv /\ EndInv /\ FrozenInv)'
    OBVIOUS
  <2>2. RingState /\ RingState'
    BY <1>1, <1>3, <2>1 DEF RingState, CallInv
  <2>3. StableWhenFinished /\ StableWhenFinished'
    BY <1>4, <1>5, <2>1, <2>2
  <2>. QED BY <1>3, <2>1, <2>2, <2>3, NextEndInv DEF CallInv
<1>. QED BY <1>1, <1>2, <1>6 DEF CallInv

(* When all threads have been joined the column is typed, its source is at  *)
(* distance 0, and on a ring it is the shortest path tree.                  *)
LEMMA ReturnedColumn ==
  ASSUME CallInv, AllJoined
  PROVE  /\ distance \in [Nodes -> 0 .. Infinity]
         /\ parent \in [Nodes -> Nodes \cup {NoNode}]
         /\ distance[Source] = 0 /\ parent[Source] = NoNode
         /\ IsRing => /\ distance = ShortestDistance
                      /\ \A i \in Nodes \ {Source} :
                            IF distance[i] = Infinity THEN parent[i] = NoNode
                            ELSE /\ parent[i] \in Neighbours(i)
                                 /\ distance[i] = distance[parent[i]]
                                                  + Weight[<<parent[i], i>>]
<1>1. interrupt[Source] /\ ~ request
  BY NetworkAssumption DEF CallInv, AllJoined, JoinInv, SourceInv
<1>2. distance[Source] = 0 /\ parent[Source] = NoNode
  BY <1>1 DEF CallInv, TreeInv, SourceAtZero, ParentsDescend
<1>3. /\ distance \in [Nodes -> 0 .. Infinity]
      /\ parent \in [Nodes -> Nodes \cup {NoNode}]
  BY DEF CallInv, TypeOK
<1>4. ASSUME IsRing
      PROVE  /\ distance = ShortestDistance
             /\ IsShortestPathTree
  <2>1. IsShortestPathTree
    BY <1>1, <1>4, RelaxedIsTree DEF CallInv, FrozenInv
  <2>. QED BY <1>1, <1>4, <2>1, TreeIsShortest DEF CallInv
<1>5. ASSUME NEW i \in Nodes, distance[i] = Infinity PROVE parent[i] = NoNode
  BY <1>5, NetworkAssumption DEF CallInv, ReachedInv
<1>6. ASSUME NEW i \in Nodes, distance[i] # Infinity PROVE distance[i] < Infinity
  BY <1>3, <1>6, NetworkAssumption
<1>. QED BY <1>2, <1>3, <1>4, <1>5, <1>6 DEF IsShortestPathTree
=============================================================================
