--------------------------- MODULE MpscQueueProofs --------------------------
(***************************************************************************)
(* The mailbox ring of MpscQueue for any number of producers, any capacity *)
(* and any number of messages: an inductive invariant and the properties   *)
(* it implies.                                                             *)
(***************************************************************************)
EXTENDS MpscQueue, TLAPS

-----------------------------------------------------------------------------
(* The inductive invariant.                                                *)

\* The oldest position whose cell has not been handed on: between the store of
\* dequeue_pos_ and the release of the cell it lies one behind head.
Low == IF cons.at = "release" THEN head - 1 ELSE head

\* The Capacity positions from Low on each have a cell: those below tail are reserved or
\* published, the others free for the position they stand for.
CellsOK ==
    /\ Low \in Nat /\ Low <= tail /\ tail <= Low + Capacity
    /\ \A n \in Low..(Low + Capacity - 1) :
          IF n < tail THEN sequence[Slot(n)] \in {n, n + 1} ELSE sequence[Slot(n)] = n

Owner(p) == prod[p].at \in {"move", "publish"}

\* A producer that passed the test of a free cell stays within the window, and one that
\* won the exchange owns its cell until it publishes.
ProducerOK(p) ==
    /\ prod[p].at = "test" => prod[p].pos <= tail
    /\ prod[p].at = "cas" => prod[p].pos <= tail /\ prod[p].pos < Low + Capacity
    /\ Owner(p) => /\ head <= prod[p].pos /\ prod[p].pos < tail
                   /\ sequence[Slot(prod[p].pos)] = prod[p].pos
                   /\ order[prod[p].pos + 1] = <<p, sent[p]>>
    /\ prod[p].at = "publish" => item[Slot(prod[p].pos)] = <<p, sent[p]>>

ProducersOK == \A p \in Producer : ProducerOK(p)

\* A published cell holds the message of its position until the consumer takes it.
ItemsOK ==
    \A n \in head..(tail - 1) :
       sequence[Slot(n)] = n + 1 /\ ~(cons.at = "advance" /\ n = head)
          => item[Slot(n)] = order[n + 1]

\* The histories count what tail and head count, and the consumer works at the head.
ConsumerOK ==
    /\ Len(order) = tail
    /\ Len(received) = IF cons.at = "advance" THEN head + 1 ELSE head
    /\ \A i \in 1..Len(received) : received[i] = order[i]
    /\ cons.at \in {"peek", "take", "advance"} => cons.pos = head
    /\ cons.at = "release" => head = cons.pos + 1
    /\ cons.at \in {"take", "advance", "release"} =>
          cons.pos < tail /\ sequence[Slot(cons.pos)] = cons.pos + 1
    /\ cons.last => clos.at = "closed"
    /\ cons.at = "drained" /\ cons.last => head = tail

\* close() has published everything below the position it has scanned to.
CloserOK ==
    /\ clos.at # "out" => closed /\ clos.end = tail
    /\ clos.at = "scan" =>
          /\ clos.pos <= clos.end
          /\ \A n \in head..(clos.pos - 1) : sequence[Slot(n)] = n + 1
    /\ clos.at = "closed" => \A n \in head..(tail - 1) : sequence[Slot(n)] = n + 1

IInv == TypeOK /\ CellsOK /\ ProducersOK /\ ItemsOK /\ ConsumerOK /\ CloserOK

-----------------------------------------------------------------------------
(* The cells of positions.                                                 *)

\* Euclid: % and \div as the masks of the code compute them.
LEMMA DivMod ==
    ASSUME NEW a \in Nat, NEW b \in Nat \ {0}
    PROVE  /\ a % b \in 0..(b - 1) /\ a \div b \in Nat
           /\ a = b * (a \div b) + (a % b)
  OBVIOUS

\* A multiple of b is at least b, or not positive.
LEMMA Multiples ==
    ASSUME NEW b \in Nat \ {0}, NEW k \in Int
    PROVE  (k >= 1 => b * k >= b) /\ (k <= 0 => b * k <= 0)
  OBVIOUS

\* Every position has a cell.
LEMMA SlotInRange == \A n \in Nat : Slot(n) \in Slots
  BY CapacityAssumption, DivMod DEF Slot, Slots

\* Fewer than Capacity apart, two positions have different cells.
LEMMA SlotsApart ==
    \A m, n \in Nat : m < n /\ n < m + Capacity => Slot(m) # Slot(n)
<1> SUFFICES ASSUME NEW m \in Nat, NEW n \in Nat, m < n, n < m + Capacity,
                    m % Capacity = n % Capacity
             PROVE  FALSE
  BY DEF Slot
<1> DEFINE k == (n \div Capacity) - (m \div Capacity)
<1>1. /\ m \div Capacity \in Nat /\ n \div Capacity \in Nat
      /\ m = Capacity * (m \div Capacity) + (m % Capacity)
      /\ n = Capacity * (n \div Capacity) + (n % Capacity)
      /\ m % Capacity \in Nat
  <2>1. Capacity \in Nat \ {0}
    BY CapacityAssumption
  <2>2. m % Capacity \in 0..(Capacity - 1) /\ m \div Capacity \in Nat
        /\ m = Capacity * (m \div Capacity) + (m % Capacity)
    BY <2>1, DivMod, Zenon
  <2>3. n % Capacity \in 0..(Capacity - 1) /\ n \div Capacity \in Nat
        /\ n = Capacity * (n \div Capacity) + (n % Capacity)
    BY <2>1, DivMod, Zenon
  <2>4. m % Capacity \in Nat
    BY <2>1, <2>2
  <2> QED
    BY <2>2, <2>3, <2>4, Zenon
<1>2. k \in Int /\ Capacity * k = Capacity * (n \div Capacity) - Capacity * (m \div Capacity)
  BY <1>1, CapacityAssumption
<1>3. Capacity * k = n - m
  BY <1>1, <1>2, CapacityAssumption
<1>4. (k >= 1 => Capacity * k >= Capacity) /\ (k <= 0 => Capacity * k <= 0)
  BY <1>2, CapacityAssumption, Multiples
<1> QED
  BY <1>2, <1>3, <1>4, CapacityAssumption

\* Capacity positions on, the cell is the same.
LEMMA SlotNextLap == \A n \in Nat : Slot(n + Capacity) = Slot(n)
<1> SUFFICES ASSUME NEW n \in Nat
             PROVE  (n + Capacity) % Capacity = n % Capacity
  BY DEF Slot
<1> DEFINE m == n + Capacity
           k == (m \div Capacity) - (n \div Capacity)
           r == (m % Capacity) - (n % Capacity)
<1>1. /\ m \in Nat /\ m \div Capacity \in Nat /\ n \div Capacity \in Nat
      /\ m = Capacity * (m \div Capacity) + (m % Capacity)
      /\ n = Capacity * (n \div Capacity) + (n % Capacity)
      /\ m % Capacity \in 0..(Capacity - 1) /\ n % Capacity \in 0..(Capacity - 1)
  <2>1. Capacity \in Nat \ {0} /\ m \in Nat
    BY CapacityAssumption
  <2>2. m % Capacity \in 0..(Capacity - 1) /\ m \div Capacity \in Nat
        /\ m = Capacity * (m \div Capacity) + (m % Capacity)
    <3> HIDE DEF m
    <3> QED BY <2>1, DivMod, Zenon
  <2>3. n % Capacity \in 0..(Capacity - 1) /\ n \div Capacity \in Nat
        /\ n = Capacity * (n \div Capacity) + (n % Capacity)
    BY <2>1, DivMod, Zenon
  <2> QED
    BY <2>1, <2>2, <2>3, Zenon
<1>2. k \in Int /\ Capacity * (k - 1) = Capacity * (m \div Capacity) - Capacity * (n \div Capacity) - Capacity
  BY <1>1, CapacityAssumption
<1>3. Capacity * (k - 1) = 0 - r
  BY <1>1, <1>2, CapacityAssumption
<1>4. /\ (k - 1 >= 1 => Capacity * (k - 1) >= Capacity)
      /\ (1 - k >= 1 => Capacity * (1 - k) >= Capacity)
  BY <1>2, CapacityAssumption, Multiples
<1>5. Capacity * (1 - k) = r
  BY <1>2, <1>3, CapacityAssumption
<1>6. r > 0 - Capacity /\ r < Capacity
  BY <1>1, CapacityAssumption
<1>7. k = 1
  BY <1>2, <1>3, <1>4, <1>5, <1>6, <1>1, CapacityAssumption
<1> QED
  BY <1>1, <1>3, <1>7, CapacityAssumption








\* In the first lap a position is the index of its cell.
LEMMA SlotOfFirstLap == \A n \in 0..(Capacity - 1) : Slot(n) = n
<1> SUFFICES ASSUME NEW n \in 0..(Capacity - 1)
             PROVE  n % Capacity = n
  BY DEF Slot
<1>1. Capacity \in Nat \ {0} /\ n \in Nat /\ n < Capacity
  BY CapacityAssumption
<1>2. n % Capacity \in 0..(Capacity - 1) /\ n \div Capacity \in Nat
      /\ n = Capacity * (n \div Capacity) + (n % Capacity)
  BY <1>1, DivMod, Zenon
<1>3. n \div Capacity >= 1 => Capacity * (n \div Capacity) >= Capacity
  BY <1>1, <1>2, Multiples
<1>4. n \div Capacity = 0
  BY <1>1, <1>2, <1>3
<1> QED
  BY <1>1, <1>2, <1>4





-----------------------------------------------------------------------------
(* The steps.                                                              *)

\* A producer loads enqueue_state_, at the start or after a lost race.
LEMMA LoadStep ==
    ASSUME IInv, NEW p \in Producer, Load(p) \/ Retry(p)
    PROVE  IInv'
<1>0. TypeOK /\ CellsOK /\ ProducersOK /\ ItemsOK /\ ConsumerOK /\ CloserOK
  BY DEF IInv
<1> DEFINE loaded == [at |-> "test", pos |-> tail, closed |-> closed]
<1>1. prod' = [prod EXCEPT ![p] = loaded]
      /\ UNCHANGED <<tail, closed, head, sequence, item, sent, cons, clos, order, received>>
  BY Zenon DEF Load, Retry
<1>2. TypeOK'
  BY <1>0, <1>1 DEF TypeOK
<1>3. Low' = Low
  BY <1>1 DEF Low
<1>4. CellsOK'
  BY <1>0, <1>1, <1>3 DEF CellsOK
<1>5. ProducersOK'
  <2> SUFFICES ASSUME NEW q \in Producer
               PROVE  ProducerOK(q)'
    BY DEF ProducersOK
  <2>1. CASE q = p
    <3>1. prod'[p].at = "test" /\ prod'[p].pos = tail
      BY <1>0, <1>1 DEF TypeOK
    <3> QED
      BY <1>0, <1>1, <2>1, <3>1 DEF ProducerOK, Owner, TypeOK
  <2>2. CASE q # p
    BY <1>0, <1>1, <1>3, <2>2 DEF ProducersOK, ProducerOK, Owner, TypeOK
  <2> QED
    BY <2>1, <2>2
<1>6. ItemsOK' /\ ConsumerOK' /\ CloserOK'
  BY <1>0, <1>1 DEF ItemsOK, ConsumerOK, CloserOK
<1> QED
  BY <1>2, <1>4, <1>5, <1>6 DEF IInv

\* The test: a cell whose sequence is the producer's position lies within the window,
\* because a reserved or published cell of the last lap has another one.
LEMMA TestStep ==
    ASSUME IInv, NEW p \in Producer, Test(p)
    PROVE  IInv'
<1>0. TypeOK /\ CellsOK /\ ProducersOK /\ ItemsOK /\ ConsumerOK /\ CloserOK
  BY DEF IInv
<1> DEFINE n == prod[p].pos
<1>1. /\ UNCHANGED <<tail, closed, head, sequence, item, sent, cons, clos, order, received>>
      /\ prod[p].at = "test" /\ n \in Nat /\ n <= tail /\ sequence[Slot(n)] \in Nat
  BY <1>0, SlotInRange DEF TypeOK, ProducersOK, ProducerOK, Test
<1> DEFINE difference == sequence[Slot(n)] - n
           a == CASE prod[p].closed -> "out"
                  [] ~prod[p].closed /\ difference = 0 -> "cas"
                  [] ~prod[p].closed /\ difference < 0 -> "out"
                  [] ~prod[p].closed /\ difference > 0 -> "reload"
<1>2. prod' = [prod EXCEPT ![p].at = a]
  BY DEF Test
<1>3. a \in {"out", "cas", "reload"} /\ (a = "cas" => sequence[Slot(n)] = n)
  <2>1. difference \in Int /\ (difference = 0 => sequence[Slot(n)] = n)
    BY <1>1
  <2>2. prod[p].closed \in BOOLEAN
    BY <1>0 DEF TypeOK
  <2>3. CASE prod[p].closed
    BY <2>3
  <2>4. CASE ~prod[p].closed
    BY <2>1, <2>4
  <2> QED
    BY <2>2, <2>3, <2>4
<1> HIDE DEF a
<1>4. TypeOK'
  BY <1>0, <1>1, <1>2, <1>3 DEF TypeOK
<1>5. Low' = Low
  BY <1>1 DEF Low
<1>6. CellsOK'
  BY <1>0, <1>1, <1>5 DEF CellsOK
<1>7. sequence[Slot(n)] = n => n < Low + Capacity
  <2>0. Low \in Nat /\ tail \in Nat /\ tail <= Low + Capacity /\ Capacity \in Nat
    BY <1>0, CapacityAssumption DEF CellsOK, TypeOK
  <2> SUFFICES ASSUME sequence[Slot(n)] = n, n = Low + Capacity PROVE FALSE
    BY <1>1, <2>0
  <2>1. Slot(n) = Slot(Low)
    BY <1>0, SlotNextLap DEF CellsOK
  <2>2. Low \in Low..(Low + Capacity - 1) /\ Low < tail
    BY <1>0, <1>1, CapacityAssumption DEF CellsOK, TypeOK
  <2>3. sequence[Slot(Low)] \in {Low, Low + 1}
    BY <1>0, <2>2 DEF CellsOK
  <2> QED
    BY <1>0, <2>1, <2>3, CapacityAssumption DEF CellsOK
<1>8. ProducersOK'
  <2> SUFFICES ASSUME NEW q \in Producer
               PROVE  ProducerOK(q)'
    BY DEF ProducersOK
  <2>1. CASE q = p
    <3>1. prod'[p].at = a /\ prod'[p].pos = n
      BY <1>0, <1>2 DEF TypeOK
    <3> QED
      BY <1>1, <1>3, <1>5, <1>7, <2>1, <3>1 DEF ProducerOK, Owner
  <2>2. CASE q # p
    BY <1>0, <1>1, <1>2, <1>5, <2>2 DEF ProducersOK, ProducerOK, Owner, TypeOK
  <2> QED
    BY <2>1, <2>2
<1>9. ItemsOK' /\ ConsumerOK' /\ CloserOK'
  BY <1>0, <1>1 DEF ItemsOK, ConsumerOK, CloserOK
<1> QED
  BY <1>4, <1>6, <1>8, <1>9 DEF IInv

\* The exchange: the position is the tail, so its cell is free and becomes the producer's.
LEMMA ReserveStep ==
    ASSUME IInv, NEW p \in Producer, Reserve(p)
    PROVE  IInv'
<1>0. TypeOK /\ CellsOK /\ ProducersOK /\ ItemsOK /\ ConsumerOK /\ CloserOK
  BY DEF IInv
<1>1. /\ UNCHANGED <<closed, head, sequence, item, sent, cons, clos, received>>
      /\ prod[p].at = "cas" /\ prod[p].pos = tail /\ ~closed
      /\ tail' = tail + 1 /\ order' = Append(order, <<p, sent[p]>>)
      /\ prod' = [prod EXCEPT ![p].at = "move"]
  BY DEF Reserve
<1>2. TypeOK'
  <2>1. order' \in Seq(Message)
    BY <1>0, <1>1 DEF TypeOK, Message
  <2>2. prod' \in [Producer -> [at : {"out", "reload", "test", "cas", "move", "publish"},
                                pos : Nat, closed : BOOLEAN]]
    BY <1>0, <1>1 DEF TypeOK
  <2>3. tail' \in Nat
    BY <1>0, <1>1 DEF TypeOK
  <2> QED
    BY <1>0, <1>1, <2>1, <2>2, <2>3 DEF TypeOK
<1>3. Low' = Low /\ Low \in Nat
  BY <1>0, <1>1 DEF Low, CellsOK
<1>4. tail < Low + Capacity /\ sequence[Slot(tail)] = tail /\ tail \in Nat /\ Low <= tail
      /\ head <= tail
  <2>1. tail < Low + Capacity /\ tail \in Nat /\ Low <= tail
    BY <1>0, <1>1 DEF CellsOK, ProducersOK, ProducerOK, TypeOK
  <2>2. sequence[Slot(tail)] = tail
    BY <1>0, <1>3, <2>1, CapacityAssumption DEF CellsOK
  <2>3. head <= tail
    BY <1>0, <2>1 DEF Low, ConsumerOK, TypeOK
  <2> QED
    BY <2>1, <2>2, <2>3
<1>5. CellsOK'
  BY <1>0, <1>1, <1>3, <1>4, CapacityAssumption DEF CellsOK
<1>6. /\ Len(order) = tail /\ Len(order') = tail + 1 /\ order'[tail + 1] = <<p, sent[p]>>
      /\ \A i \in 1..tail : order'[i] = order[i]
  <2>1. order \in Seq(Message) /\ <<p, sent[p]>> \in Message /\ Len(order) = tail
    BY <1>0 DEF ConsumerOK, TypeOK, Message
  <2> QED
    BY <1>1, <1>4, <2>1
<1>7. ProducersOK'
  <2> SUFFICES ASSUME NEW q \in Producer
               PROVE  ProducerOK(q)'
    BY DEF ProducersOK
  <2>1. CASE q = p
    <3>1. prod'[p].at = "move" /\ prod'[p].pos = tail
      BY <1>0, <1>1 DEF TypeOK
    <3> QED
      BY <1>1, <1>3, <1>4, <1>6, <2>1, <3>1 DEF ProducerOK, Owner
  <2>2. CASE q # p
    <3>1. prod'[q] = prod[q] /\ prod[q].pos \in Nat /\ ProducerOK(q) /\ head \in Nat
      BY <1>0, <1>1, <2>2 DEF TypeOK, ProducersOK
    <3>2. Owner(q) => order'[prod[q].pos + 1] = order[prod[q].pos + 1]
      BY <1>4, <1>6, <3>1 DEF ProducerOK
    <3>3. (Owner(q)' <=> Owner(q)) /\ sent'[q] = sent[q] /\ tail' \in Nat /\ tail <= tail'
      <4>1. sent' = sent /\ tail' = tail + 1
        BY <1>1
      <4> QED
        BY <1>4, <3>1, <4>1 DEF Owner
    <3>4. /\ prod[q].at = "test" => prod[q].pos <= tail'
          /\ prod[q].at = "cas" => prod[q].pos <= tail' /\ prod[q].pos < Low' + Capacity
          /\ Owner(q) => prod[q].pos < tail'
      BY <1>3, <1>4, <3>1, <3>3 DEF ProducerOK
    <3> QED
      BY <1>1, <3>1, <3>2, <3>3, <3>4 DEF ProducerOK
  <2> QED
    BY <2>1, <2>2
<1>8. ItemsOK'
  <2>0. tail' - 1 = tail
    BY <1>1, <1>4
  <2> SUFFICES ASSUME NEW n \in head..tail,
                      sequence[Slot(n)] = n + 1, ~(cons.at = "advance" /\ n = head)
               PROVE  item[Slot(n)] = order'[n + 1]
    BY <1>1, <2>0 DEF ItemsOK
  <2>1. n \in head..(tail - 1) /\ n + 1 \in 1..tail
    BY <1>0, <1>4 DEF TypeOK
  <2> QED
    BY <1>0, <1>6, <2>1 DEF ItemsOK
<1>9. ConsumerOK'
  BY <1>0, <1>1, <1>4, <1>6 DEF ConsumerOK, CloserOK, TypeOK
<1>10. CloserOK'
  BY <1>0, <1>1 DEF CloserOK
<1> QED
  BY <1>2, <1>5, <1>7, <1>8, <1>9, <1>10 DEF IInv

\* The payload is moved: no other reserved or published position has this cell.
LEMMA MoveStep ==
    ASSUME IInv, NEW p \in Producer, Move(p)
    PROVE  IInv'
<1>0. TypeOK /\ CellsOK /\ ProducersOK /\ ItemsOK /\ ConsumerOK /\ CloserOK
  BY DEF IInv
<1> DEFINE n == prod[p].pos
<1>1. UNCHANGED <<tail, closed, head, sequence, sent, cons, clos, order, received>>
  BY DEF Move
<1>2. prod' = [prod EXCEPT ![p].at = "publish"] /\ prod[p].at = "move"
  BY DEF Move
<1>3. item' = [item EXCEPT ![Slot(n)] = <<p, sent[p]>>]
  BY DEF Move
<1>4. /\ n \in Nat /\ Slot(n) \in Slots /\ <<p, sent[p]>> \in Message
      /\ prod'[p].at = "publish" /\ prod'[p].pos = n
      /\ \A q \in Producer \ {p} : prod'[q] = prod[q]
  BY <1>0, <1>2, SlotInRange DEF TypeOK, Message
<1>5. TypeOK'
  <2>1. item' \in [Slots -> Message \cup {Empty}]
    BY <1>0, <1>3, <1>4 DEF TypeOK
  <2>2. prod' \in [Producer -> [at : {"out", "reload", "test", "cas", "move", "publish"},
                                pos : Nat, closed : BOOLEAN]]
    BY <1>0, <1>2 DEF TypeOK
  <2> QED
    BY <1>0, <1>1, <2>1, <2>2 DEF TypeOK
<1>6. Low' = Low
  BY <1>1 DEF Low
<1>7. CellsOK'
  BY <1>0, <1>1, <1>6 DEF CellsOK
<1>8. /\ head <= n /\ n < tail /\ sequence[Slot(n)] = n /\ order[n + 1] = <<p, sent[p]>>
      /\ head \in Nat /\ tail \in Nat /\ Low \in Nat /\ head <= Low + 1 /\ Low <= head
      /\ tail <= Low + Capacity
  <2>1. Owner(p) /\ ProducerOK(p)
    BY <1>0, <1>2 DEF ProducersOK, Owner
  <2>2. /\ head \in Nat /\ tail \in Nat /\ Low \in Nat /\ head <= Low + 1 /\ Low <= head
        /\ tail <= Low + Capacity
    BY <1>0 DEF TypeOK, CellsOK, Low
  <2> QED
    BY <2>1, <2>2 DEF ProducerOK
<1>9. ASSUME NEW m \in head..(tail - 1), m # n
      PROVE  Slot(m) # Slot(n)
  <2>1. m \in Nat /\ m < n + Capacity /\ n < m + Capacity
    BY <1>4, <1>8, <1>9, CapacityAssumption
  <2>2. CASE m < n
    BY <1>4, <2>1, <2>2, SlotsApart
  <2>3. CASE n < m
    BY <1>4, <2>1, <2>3, SlotsApart
  <2> QED
    BY <1>4, <1>9, <2>1, <2>2, <2>3
<1>10. ProducersOK'
  <2> SUFFICES ASSUME NEW q \in Producer
               PROVE  ProducerOK(q)'
    BY DEF ProducersOK
  <2>1. CASE q = p
    <3>1. item'[Slot(n)] = <<p, sent[p]>>
      BY <1>0, <1>3, <1>4 DEF TypeOK
    <3> QED
      BY <1>1, <1>4, <1>8, <2>1, <3>1 DEF ProducerOK, Owner
  <2>2. CASE q # p
    <3>1. prod'[q] = prod[q] /\ ProducerOK(q) /\ prod[q].pos \in Nat
      BY <1>0, <1>4, <2>2 DEF ProducersOK, TypeOK
    <3>2. prod[q].at = "publish" => item'[Slot(prod[q].pos)] = item[Slot(prod[q].pos)]
      <4> SUFFICES ASSUME prod[q].at = "publish"
                   PROVE  Slot(prod[q].pos) # Slot(n)
        BY <1>0, <1>3, <3>1, SlotInRange DEF TypeOK
      <4>1. prod[q].pos \in head..(tail - 1) /\ order[prod[q].pos + 1] = <<q, sent[q]>>
        BY <1>8, <3>1 DEF ProducerOK, Owner
      <4> QED
        BY <1>8, <1>9, <2>2, <4>1
    <3> QED
      BY <1>1, <1>6, <3>1, <3>2 DEF ProducerOK, Owner
  <2> QED
    BY <2>1, <2>2
<1>11. ItemsOK'
  <2> SUFFICES ASSUME NEW m \in head..(tail - 1),
                      sequence[Slot(m)] = m + 1, ~(cons.at = "advance" /\ m = head)
               PROVE  item'[Slot(m)] = order[m + 1]
    BY <1>1 DEF ItemsOK
  <2>1. item[Slot(m)] = order[m + 1]
    BY <1>0 DEF ItemsOK
  <2>2. Slot(m) # Slot(n) /\ Slot(m) \in Slots
    BY <1>8, <1>9, SlotInRange
  <2> QED
    BY <1>0, <1>3, <2>1, <2>2 DEF TypeOK
<1>12. ConsumerOK' /\ CloserOK'
  BY <1>0, <1>1 DEF ConsumerOK, CloserOK
<1> QED
  BY <1>5, <1>7, <1>10, <1>11, <1>12 DEF IInv

\* The release of a full cell: the consumer may read it from now on.
LEMMA PublishStep ==
    ASSUME IInv, NEW p \in Producer, Publish(p)
    PROVE  IInv'
<1>0. TypeOK /\ CellsOK /\ ProducersOK /\ ItemsOK /\ ConsumerOK /\ CloserOK
  BY DEF IInv
<1> DEFINE n == prod[p].pos
<1>1. UNCHANGED <<tail, closed, head, item, cons, clos, order, received>>
  BY DEF Publish
<1>2. prod' = [prod EXCEPT ![p].at = "out"] /\ prod[p].at = "publish"
  BY DEF Publish
<1>3. sequence' = [sequence EXCEPT ![Slot(n)] = n + 1] /\ sent' = [sent EXCEPT ![p] = @ + 1]
  BY DEF Publish
<1>4. /\ n \in Nat /\ Slot(n) \in Slots
      /\ prod'[p].at = "out" /\ prod'[p].pos = n
      /\ \A q \in Producer \ {p} : prod'[q] = prod[q] /\ sent'[q] = sent[q]
      /\ sequence'[Slot(n)] = n + 1
      /\ \A s \in Slots \ {Slot(n)} : sequence'[s] = sequence[s]
  BY <1>0, <1>2, <1>3, SlotInRange DEF TypeOK
<1>5. TypeOK'
  <2>1. sequence' \in [Slots -> Nat] /\ sent' \in [Producer -> Nat]
    BY <1>0, <1>3, <1>4 DEF TypeOK
  <2>2. prod' \in [Producer -> [at : {"out", "reload", "test", "cas", "move", "publish"},
                                pos : Nat, closed : BOOLEAN]]
    BY <1>0, <1>2 DEF TypeOK
  <2> QED
    BY <1>0, <1>1, <2>1, <2>2 DEF TypeOK
<1>6. Low' = Low
  BY <1>1 DEF Low
<1>7. /\ head <= n /\ n < tail /\ sequence[Slot(n)] = n /\ order[n + 1] = <<p, sent[p]>>
      /\ item[Slot(n)] = <<p, sent[p]>>
      /\ head \in Nat /\ tail \in Nat /\ Low \in Nat /\ head <= Low + 1 /\ Low <= head
      /\ tail <= Low + Capacity
  <2>1. Owner(p) /\ ProducerOK(p) /\ prod[p].at = "publish"
    BY <1>0, <1>2 DEF ProducersOK, Owner
  <2>2. /\ head \in Nat /\ tail \in Nat /\ Low \in Nat /\ head <= Low + 1 /\ Low <= head
        /\ tail <= Low + Capacity
    BY <1>0 DEF TypeOK, CellsOK, Low
  <2> QED
    BY <2>1, <2>2 DEF ProducerOK
<1>8. \A m \in Low..(Low + Capacity - 1) : m # n => sequence'[Slot(m)] = sequence[Slot(m)]
  <2> SUFFICES ASSUME NEW m \in Low..(Low + Capacity - 1), m # n
               PROVE  Slot(m) \in Slots /\ Slot(m) # Slot(n)
    BY <1>4
  <2>1. m \in Nat /\ Capacity \in Nat /\ (m < n => n < m + Capacity) /\ (n < m => m < n + Capacity)
    BY <1>4, <1>7, CapacityAssumption
  <2> QED
    BY <1>4, <2>1, SlotsApart, SlotInRange
<1>9. CellsOK'
  BY <1>0, <1>1, <1>4, <1>6, <1>7, <1>8 DEF CellsOK
<1>10. ProducersOK'
  <2> SUFFICES ASSUME NEW q \in Producer
               PROVE  ProducerOK(q)'
    BY DEF ProducersOK
  <2>1. CASE q = p
    BY <1>4, <2>1 DEF ProducerOK, Owner
  <2>2. CASE q # p
    <3>1. prod'[q] = prod[q] /\ ProducerOK(q) /\ prod[q].pos \in Nat /\ sent'[q] = sent[q]
      BY <1>0, <1>4, <2>2 DEF ProducersOK, TypeOK
    <3>2. Owner(q) => sequence'[Slot(prod[q].pos)] = sequence[Slot(prod[q].pos)]
      <4> SUFFICES ASSUME Owner(q)
                   PROVE  prod[q].pos \in Low..(Low + Capacity - 1) /\ prod[q].pos # n
        BY <1>8
      <4>1. prod[q].pos \in head..(tail - 1) /\ order[prod[q].pos + 1] = <<q, sent[q]>>
        BY <1>7, <3>1 DEF ProducerOK
      <4> QED
        BY <1>7, <2>2, <4>1, CapacityAssumption
    <3> QED
      BY <1>1, <1>6, <3>1, <3>2 DEF ProducerOK, Owner
  <2> QED
    BY <2>1, <2>2
<1>11. ItemsOK'
  <2> SUFFICES ASSUME NEW m \in head..(tail - 1),
                      sequence'[Slot(m)] = m + 1, ~(cons.at = "advance" /\ m = head)
               PROVE  item[Slot(m)] = order[m + 1]
    BY <1>1 DEF ItemsOK
  <2>1. CASE m = n
    BY <1>7, <2>1
  <2>2. CASE m # n
    <3>1. sequence[Slot(m)] = m + 1
      BY <1>7, <1>8, <2>2, CapacityAssumption
    <3> QED
      BY <1>0, <3>1 DEF ItemsOK
  <2> QED
    BY <2>1, <2>2
<1>12. \A m \in Low..(tail - 1) : sequence[Slot(m)] = m + 1 => sequence'[Slot(m)] = m + 1
  BY <1>7, <1>8, CapacityAssumption
<1>13. ConsumerOK'
  <2>1. cons.at \in {"take", "advance", "release"} => cons.pos \in Low..(tail - 1)
    BY <1>0, <1>7 DEF ConsumerOK, TypeOK, Low
  <2>2. cons.at \in {"take", "advance", "release"} => sequence'[Slot(cons.pos)] = cons.pos + 1
    BY <1>0, <1>12, <2>1 DEF ConsumerOK
  <2> QED
    BY <1>0, <1>1, <2>2 DEF ConsumerOK
<1>14. CloserOK'
  <2>1. clos.at = "scan" => clos.pos \in Nat /\ clos.pos <= tail
    BY <1>0 DEF CloserOK, TypeOK
  <2>2. clos.at = "scan" => \A m \in head..(clos.pos - 1) : sequence'[Slot(m)] = m + 1
    <3> SUFFICES ASSUME clos.at = "scan", NEW m \in head..(clos.pos - 1)
                 PROVE  sequence'[Slot(m)] = m + 1
      OBVIOUS
    <3>1. m \in Low..(tail - 1)
      BY <1>7, <2>1
    <3> QED
      BY <1>0, <1>12, <3>1 DEF CloserOK
  <2>3. clos.at = "closed" => \A m \in head..(tail - 1) : sequence'[Slot(m)] = m + 1
    BY <1>0, <1>7, <1>12 DEF CloserOK
  <2> QED
    BY <1>0, <1>1, <2>2, <2>3 DEF CloserOK
<1> QED
  BY <1>5, <1>9, <1>10, <1>11, <1>13, <1>14 DEF IInv

\* A drain begins at the head; one that begins after close() returned is marked.
LEMMA StartDrainStep ==
    ASSUME IInv, StartDrain
    PROVE  IInv'
<1>0. TypeOK /\ CellsOK /\ ProducersOK /\ ItemsOK /\ ConsumerOK /\ CloserOK
  BY DEF IInv
<1>1. UNCHANGED <<tail, closed, head, sequence, item, prod, sent, clos, order, received>>
  BY DEF StartDrain
<1>2. /\ cons.at \in {"out", "drained"}
      /\ cons' = [at |-> "peek", pos |-> head, last |-> clos.at = "closed"]
  BY DEF StartDrain
<1>3. TypeOK'
  <2>1. cons' \in [at : {"out", "peek", "take", "advance", "release", "drained"},
                   pos : Nat, last : BOOLEAN]
    BY <1>0, <1>2 DEF TypeOK
  <2> QED
    BY <1>0, <1>1, <2>1 DEF TypeOK
<1>4. cons'.at = "peek" /\ cons'.pos = head /\ (cons'.last <=> clos.at = "closed")
  BY <1>2
<1>5. Low' = Low
  BY <1>1, <1>2, <1>4 DEF Low
<1>6. CellsOK' /\ CloserOK'
  BY <1>0, <1>1, <1>5 DEF CellsOK, CloserOK
<1>7. ProducersOK'
  BY <1>0, <1>1, <1>5 DEF ProducersOK, ProducerOK, Owner
<1>8. ItemsOK'
  BY <1>0, <1>1, <1>2, <1>4 DEF ItemsOK
<1>9. ConsumerOK'
  BY <1>0, <1>1, <1>2, <1>4 DEF ConsumerOK
<1> QED
  BY <1>3, <1>6, <1>7, <1>8, <1>9 DEF IInv

\* The look at the head cell: it is published, or, in a drain after close(), there is
\* nothing between head and tail.
LEMMA PeekStep ==
    ASSUME IInv, Peek
    PROVE  IInv'
<1>0. TypeOK /\ CellsOK /\ ProducersOK /\ ItemsOK /\ ConsumerOK /\ CloserOK
  BY DEF IInv
<1> DEFINE found == sequence[Slot(cons.pos)] = cons.pos + 1
<1>1. UNCHANGED <<tail, closed, head, sequence, item, prod, sent, clos, order, received>>
  BY DEF Peek
<1>2. cons.at = "peek" /\ cons' = [cons EXCEPT !.at = IF found THEN "take" ELSE "drained"]
  BY DEF Peek
<1>3. TypeOK'
  <2>1. cons' \in [at : {"out", "peek", "take", "advance", "release", "drained"},
                   pos : Nat, last : BOOLEAN]
    BY <1>0, <1>2 DEF TypeOK
  <2> QED
    BY <1>0, <1>1, <2>1 DEF TypeOK
<1>4. /\ cons'.at = IF found THEN "take" ELSE "drained"
      /\ cons'.pos = cons.pos /\ cons'.last = cons.last
  BY <1>0, <1>2 DEF TypeOK
<1>5. /\ Low' = Low /\ Low = head /\ cons.pos = head
      /\ head \in Nat /\ tail \in Nat /\ head <= tail /\ tail <= head + Capacity
  BY <1>0, <1>1, <1>2, <1>4 DEF Low, TypeOK, CellsOK, ConsumerOK
<1>6. CellsOK' /\ CloserOK'
  BY <1>0, <1>1, <1>5 DEF CellsOK, CloserOK
<1>7. ProducersOK'
  BY <1>0, <1>1, <1>5 DEF ProducersOK, ProducerOK, Owner
<1>8. ItemsOK'
  BY <1>0, <1>1, <1>2, <1>4 DEF ItemsOK
<1>9. found => head < tail
  <2> SUFFICES ASSUME found, head = tail PROVE FALSE
    BY <1>5
  <2>1. head \in Low..(Low + Capacity - 1)
    BY <1>5, CapacityAssumption
  <2>2. sequence[Slot(head)] = head
    BY <1>0, <1>5, <2>1 DEF CellsOK
  <2> QED
    BY <1>5, <2>2
<1>10. ~found /\ cons.last => head = tail
  <2> SUFFICES ASSUME ~found, cons.last, head < tail PROVE FALSE
    BY <1>5
  <2>1. head \in head..(tail - 1)
    BY <1>5
  <2> QED
    BY <1>0, <1>5, <2>1 DEF ConsumerOK, CloserOK
<1>11. ConsumerOK'
  BY <1>0, <1>1, <1>2, <1>4, <1>5, <1>9, <1>10 DEF ConsumerOK
<1> QED
  BY <1>3, <1>6, <1>7, <1>8, <1>11 DEF IInv

\* The message of the head position is taken out of its cell.
LEMMA TakeStep ==
    ASSUME IInv, Take
    PROVE  IInv'
<1>0. TypeOK /\ CellsOK /\ ProducersOK /\ ItemsOK /\ ConsumerOK /\ CloserOK
  BY DEF IInv
<1>1. UNCHANGED <<tail, closed, head, sequence, prod, sent, clos, order>>
  BY DEF Take
<1>2. cons.at = "take" /\ cons' = [cons EXCEPT !.at = "advance"]
  BY DEF Take
<1>3. /\ received' = Append(received, item[Slot(cons.pos)])
      /\ item' = [item EXCEPT ![Slot(cons.pos)] = Empty]
  BY DEF Take
<1>4. cons'.at = "advance" /\ cons'.pos = cons.pos /\ cons'.last = cons.last
  BY <1>0, <1>2 DEF TypeOK
<1>5. /\ Low' = Low /\ Low = head /\ cons.pos = head
      /\ head \in Nat /\ tail \in Nat /\ head < tail /\ tail <= head + Capacity
      /\ sequence[Slot(head)] = head + 1
  BY <1>0, <1>1, <1>2, <1>4 DEF Low, TypeOK, CellsOK, ConsumerOK
<1>6. /\ Slot(head) \in Slots /\ item[Slot(head)] \in Message \cup {Empty}
      /\ item[Slot(head)] = order[head + 1]
  <2>1. head \in head..(tail - 1)
    BY <1>5
  <2>2. item[Slot(head)] = order[head + 1]
    BY <1>0, <1>2, <1>5, <2>1 DEF ItemsOK
  <2> QED
    BY <1>0, <1>5, <2>2, SlotInRange DEF TypeOK
<1>7. TypeOK'
  <2>1. cons' \in [at : {"out", "peek", "take", "advance", "release", "drained"},
                   pos : Nat, last : BOOLEAN]
    BY <1>0, <1>2 DEF TypeOK
  <2>2. item' \in [Slots -> Message \cup {Empty}]
    BY <1>0, <1>3 DEF TypeOK
  <2>3. received' \in Seq(Message \cup {Empty})
    BY <1>0, <1>3, <1>5, <1>6 DEF TypeOK
  <2> QED
    BY <1>0, <1>1, <2>1, <2>2, <2>3 DEF TypeOK
<1>8. CellsOK' /\ CloserOK'
  BY <1>0, <1>1, <1>5 DEF CellsOK, CloserOK
<1>9. \A m \in (head + 1)..(tail - 1) : Slot(m) \in Slots /\ Slot(m) # Slot(head)
  <2> SUFFICES ASSUME NEW m \in (head + 1)..(tail - 1)
               PROVE  Slot(m) \in Slots /\ Slot(m) # Slot(head)
    OBVIOUS
  <2>1. m \in Nat /\ head < m /\ m < head + Capacity
    BY <1>5, CapacityAssumption
  <2> QED
    BY <1>5, <2>1, SlotInRange, SlotsApart
<1>10. \A m \in (head + 1)..(tail - 1) : item'[Slot(m)] = item[Slot(m)]
  BY <1>0, <1>3, <1>5, <1>9 DEF TypeOK
<1>11. ProducersOK'
  <2> SUFFICES ASSUME NEW q \in Producer
               PROVE  ProducerOK(q)'
    BY DEF ProducersOK
  <2>1. ProducerOK(q) /\ prod[q].pos \in Nat
    BY <1>0 DEF ProducersOK, TypeOK
  <2>2. Owner(q) => prod[q].pos \in (head + 1)..(tail - 1)
    BY <1>5, <2>1 DEF ProducerOK
  <2>3. Owner(q) => item'[Slot(prod[q].pos)] = item[Slot(prod[q].pos)]
    BY <1>10, <2>2
  <2> QED
    BY <1>1, <1>5, <2>1, <2>3 DEF ProducerOK, Owner
<1>12. ItemsOK'
  <2> SUFFICES ASSUME NEW m \in head..(tail - 1), sequence[Slot(m)] = m + 1, m # head
               PROVE  item'[Slot(m)] = order[m + 1]
    BY <1>1, <1>4 DEF ItemsOK
  <2>1. m \in (head + 1)..(tail - 1)
    BY <1>5
  <2> QED
    BY <1>0, <1>10, <2>1 DEF ItemsOK
<1>13. /\ Len(received) = head /\ Len(received') = head + 1
       /\ received'[head + 1] = order[head + 1]
       /\ \A i \in 1..head : received'[i] = received[i]
  <2>1. received \in Seq(Message \cup {Empty}) /\ Len(received) = head
    BY <1>0, <1>2 DEF TypeOK, ConsumerOK
  <2> QED
    BY <1>3, <1>5, <1>6, <2>1
<1>14. \A i \in 1..Len(received') : received'[i] = order[i]
  BY <1>0, <1>5, <1>13 DEF ConsumerOK
<1>15. ConsumerOK'
  BY <1>0, <1>1, <1>2, <1>4, <1>5, <1>13, <1>14 DEF ConsumerOK
<1> QED
  BY <1>7, <1>8, <1>11, <1>12, <1>15 DEF IInv

\* dequeue_pos_ moves on; the cell stays the consumer's.
LEMMA AdvanceStep ==
    ASSUME IInv, Advance
    PROVE  IInv'
<1>0. TypeOK /\ CellsOK /\ ProducersOK /\ ItemsOK /\ ConsumerOK /\ CloserOK
  BY DEF IInv
<1>1. UNCHANGED <<tail, closed, sequence, item, prod, sent, clos, order, received>>
  BY DEF Advance
<1>2. cons.at = "advance" /\ cons' = [cons EXCEPT !.at = "release"] /\ head' = cons.pos + 1
  BY DEF Advance
<1>3. cons'.at = "release" /\ cons'.pos = cons.pos /\ cons'.last = cons.last
  BY <1>0, <1>2 DEF TypeOK
<1>4. /\ cons.pos = head /\ head' = head + 1 /\ Low = head /\ Low' = Low
      /\ head \in Nat /\ tail \in Nat /\ head < tail /\ sequence[Slot(head)] = head + 1
  BY <1>0, <1>2, <1>3 DEF Low, TypeOK, ConsumerOK
<1>5. TypeOK'
  <2>1. cons' \in [at : {"out", "peek", "take", "advance", "release", "drained"},
                   pos : Nat, last : BOOLEAN]
    BY <1>0, <1>2 DEF TypeOK
  <2>2. head' \in Nat
    BY <1>4
  <2> QED
    BY <1>0, <1>1, <2>1, <2>2 DEF TypeOK
<1>6. CellsOK'
  BY <1>0, <1>1, <1>4 DEF CellsOK
<1>7. ProducersOK'
  <2> SUFFICES ASSUME NEW q \in Producer
               PROVE  ProducerOK(q)'
    BY DEF ProducersOK
  <2>1. ProducerOK(q) /\ prod[q].pos \in Nat
    BY <1>0 DEF ProducersOK, TypeOK
  <2>2. Owner(q) => head' <= prod[q].pos
    BY <1>4, <2>1 DEF ProducerOK
  <2> QED
    BY <1>1, <1>4, <2>1, <2>2 DEF ProducerOK, Owner
<1>8. \A n : n \in head'..(tail - 1) => n \in head..(tail - 1) /\ n # head
  BY <1>4
<1>9. ItemsOK'
  BY <1>0, <1>1, <1>8 DEF ItemsOK
<1>10. ConsumerOK'
  BY <1>0, <1>1, <1>2, <1>3, <1>4 DEF ConsumerOK
<1>11. CloserOK'
  <2>1. clos.at = "scan" => clos.pos \in Nat
    BY <1>0 DEF TypeOK
  <2>2. clos.at = "scan" => \A n \in head'..(clos.pos - 1) : n \in head..(clos.pos - 1)
    BY <1>4, <2>1
  <2> QED
    BY <1>0, <1>1, <1>8, <2>2 DEF CloserOK
<1> QED
  BY <1>5, <1>6, <1>7, <1>9, <1>10, <1>11 DEF IInv

\* The cell is handed to the position Capacity further on, and the window moves up.
LEMMA ReleaseStep ==
    ASSUME IInv, Release
    PROVE  IInv'
<1>0. TypeOK /\ CellsOK /\ ProducersOK /\ ItemsOK /\ ConsumerOK /\ CloserOK
  BY DEF IInv
<1> DEFINE n == cons.pos
<1>1. UNCHANGED <<tail, closed, head, item, prod, sent, clos, order, received>>
  BY DEF Release
<1>2. cons.at = "release" /\ cons' = [cons EXCEPT !.at = "peek", !.pos = head]
  BY DEF Release
<1>3. sequence' = [sequence EXCEPT ![Slot(n)] = n + Capacity]
  BY DEF Release
<1>4. cons'.at = "peek" /\ cons'.pos = head /\ cons'.last = cons.last
  BY <1>0, <1>2 DEF TypeOK
<1>5. /\ n \in Nat /\ head = n + 1 /\ Low = n /\ Low' = n + 1
      /\ tail \in Nat /\ n < tail /\ tail <= n + Capacity /\ Capacity \in Nat /\ Capacity > 1
  BY <1>0, <1>1, <1>2, <1>4, CapacityAssumption DEF Low, TypeOK, ConsumerOK, CellsOK
<1>6. /\ Slot(n) \in Slots /\ sequence'[Slot(n)] = n + Capacity
      /\ \A s \in Slots \ {Slot(n)} : sequence'[s] = sequence[s]
  BY <1>0, <1>3, <1>5, SlotInRange DEF TypeOK
<1>7. TypeOK'
  <2>1. cons' \in [at : {"out", "peek", "take", "advance", "release", "drained"},
                   pos : Nat, last : BOOLEAN]
    BY <1>0, <1>2 DEF TypeOK
  <2>2. sequence' \in [Slots -> Nat]
    <3>1. n + Capacity \in Nat /\ sequence \in [Slots -> Nat]
      BY <1>0, <1>5 DEF TypeOK
    <3> QED
      BY <1>3, <3>1
  <2> QED
    BY <1>0, <1>1, <2>1, <2>2 DEF TypeOK
<1>8. \A m \in (n + 1)..(n + Capacity - 1) : sequence'[Slot(m)] = sequence[Slot(m)]
  <2> SUFFICES ASSUME NEW m \in (n + 1)..(n + Capacity - 1)
               PROVE  Slot(m) \in Slots /\ Slot(m) # Slot(n)
    BY <1>6
  <2>1. m \in Nat /\ n < m /\ m < n + Capacity
    BY <1>5
  <2> QED
    BY <1>5, <2>1, SlotInRange, SlotsApart
<1>9. CellsOK'
  <2> SUFFICES ASSUME NEW m \in (n + 1)..(n + 1 + Capacity - 1)
               PROVE  IF m < tail THEN sequence'[Slot(m)] \in {m, m + 1}
                      ELSE sequence'[Slot(m)] = m
    BY <1>1, <1>5 DEF CellsOK
  <2>1. CASE m = n + Capacity
    <3>1. Slot(m) = Slot(n)
      BY <1>5, <2>1, SlotNextLap
    <3> QED
      BY <1>5, <1>6, <2>1, <3>1
  <2>2. CASE m # n + Capacity
    <3>1. m \in (n + 1)..(n + Capacity - 1) /\ m \in Low..(Low + Capacity - 1)
      BY <1>5, <2>2
    <3> QED
      BY <1>0, <1>8, <3>1 DEF CellsOK
  <2> QED
    BY <2>1, <2>2
<1>10. \A m \in head..(tail - 1) : sequence'[Slot(m)] = sequence[Slot(m)]
  BY <1>5, <1>8
<1>11. ProducersOK'
  <2> SUFFICES ASSUME NEW q \in Producer
               PROVE  ProducerOK(q)'
    BY DEF ProducersOK
  <2>1. ProducerOK(q) /\ prod[q].pos \in Nat
    BY <1>0 DEF ProducersOK, TypeOK
  <2>2. Owner(q) => prod[q].pos \in head..(tail - 1)
    BY <1>5, <2>1 DEF ProducerOK
  <2>3. prod[q].pos < Low + Capacity => prod[q].pos < Low' + Capacity
    BY <1>5, <2>1
  <2> QED
    BY <1>1, <1>10, <2>1, <2>2, <2>3 DEF ProducerOK, Owner
<1>12. ItemsOK'
  BY <1>0, <1>1, <1>2, <1>4, <1>10 DEF ItemsOK
<1>13. ConsumerOK'
  BY <1>0, <1>1, <1>2, <1>4 DEF ConsumerOK
<1>14. CloserOK'
  <2>1. clos.at = "scan" => clos.pos \in Nat /\ clos.pos <= tail
    BY <1>0 DEF TypeOK, CloserOK
  <2>2. clos.at = "scan" => \A m \in head..(clos.pos - 1) : m \in head..(tail - 1)
    BY <1>5, <2>1
  <2> QED
    BY <1>0, <1>1, <1>10, <2>2 DEF CloserOK
<1> QED
  BY <1>7, <1>9, <1>11, <1>12, <1>13, <1>14 DEF IInv

\* close() sets the bit, reads the head and scans up to what was reserved.
LEMMA CloseStep ==
    ASSUME IInv, CloseQueue \/ CloseStart \/ CloseScan
    PROVE  IInv'
<1>0. TypeOK /\ CellsOK /\ ProducersOK /\ ItemsOK /\ ConsumerOK /\ CloserOK
  BY DEF IInv
<1>1. UNCHANGED <<tail, head, sequence, item, prod, sent, cons, order, received>>
  BY Zenon DEF CloseQueue, CloseStart, CloseScan
<1>2. Low' = Low
  BY <1>1 DEF Low
<1>3. CellsOK' /\ ItemsOK'
  BY <1>0, <1>1, <1>2 DEF CellsOK, ItemsOK
<1>4. ProducersOK'
  BY <1>0, <1>1, <1>2 DEF ProducersOK, ProducerOK, Owner
<1>5. /\ tail \in Nat /\ head \in Nat /\ Low \in Nat /\ Low <= head /\ head <= tail
      /\ tail <= Low + Capacity
  BY <1>0 DEF TypeOK, CellsOK, ConsumerOK, Low
<1>6. CASE CloseQueue
  <2>1. clos.at = "out" /\ closed' = TRUE /\ clos' = [clos EXCEPT !.at = "position", !.end = tail]
    BY <1>6 DEF CloseQueue
  <2>2. clos'.at = "position" /\ clos'.end = tail
    BY <1>0, <2>1 DEF TypeOK
  <2>3. TypeOK'
    BY <1>0, <1>1, <2>1 DEF TypeOK
  <2>4. ConsumerOK' /\ CloserOK'
    BY <1>0, <1>1, <2>1, <2>2 DEF ConsumerOK, CloserOK
  <2> QED
    BY <1>3, <1>4, <2>3, <2>4 DEF IInv
<1>7. CASE CloseStart
  <2>1. clos.at = "position" /\ closed' = closed /\ clos' = [clos EXCEPT !.at = "scan", !.pos = head]
    BY <1>7 DEF CloseStart
  <2>2. clos'.at = "scan" /\ clos'.pos = head /\ clos'.end = clos.end
    BY <1>0, <2>1 DEF TypeOK
  <2>3. TypeOK'
    BY <1>0, <1>1, <2>1 DEF TypeOK
  <2>4. CloserOK'
    BY <1>0, <1>1, <1>5, <2>1, <2>2 DEF CloserOK
  <2>5. ConsumerOK'
    BY <1>0, <1>1, <2>1 DEF ConsumerOK
  <2> QED
    BY <1>3, <1>4, <2>3, <2>4, <2>5 DEF IInv
<1>8. CASE CloseScan
  <2>1. clos.at = "scan" /\ closed' = closed
    BY <1>8 DEF CloseScan
  <2>2. /\ closed /\ clos.end = tail /\ clos.pos \in Nat /\ clos.pos <= tail
        /\ \A n \in head..(clos.pos - 1) : sequence[Slot(n)] = n + 1
    BY <1>0, <2>1 DEF CloserOK, TypeOK
  <2>3. ConsumerOK'
    BY <1>0, <1>1, <2>1 DEF ConsumerOK
  <2>4. CASE clos.pos = clos.end /\ clos' = [clos EXCEPT !.at = "closed"]
    <3>1. clos'.at = "closed" /\ clos'.end = clos.end
      BY <1>0, <2>4 DEF TypeOK
    <3>2. TypeOK'
      BY <1>0, <1>1, <2>1, <2>4 DEF TypeOK
    <3>3. CloserOK'
      BY <1>1, <2>1, <2>2, <2>4, <3>1 DEF CloserOK
    <3> QED
      BY <1>3, <1>4, <2>3, <3>2, <3>3 DEF IInv
  <2>5. CASE /\ clos.pos # clos.end /\ sequence[Slot(clos.pos)] # clos.pos
             /\ clos' = [clos EXCEPT !.pos = @ + 1]
    <3>1. clos'.at = "scan" /\ clos'.end = clos.end /\ clos'.pos = clos.pos + 1
      BY <1>0, <2>1, <2>5 DEF TypeOK
    <3>2. TypeOK'
      <4>1. clos' \in [at : {"out", "position", "scan", "closed"}, pos : Nat, end : Nat]
        <5>1. clos.pos + 1 \in Nat
          BY <2>2
        <5>2. clos' = [clos EXCEPT !.pos = clos.pos + 1]
          BY <2>5
        <5> QED
          BY <1>0, <5>1, <5>2 DEF TypeOK
      <4> QED
        BY <1>0, <1>1, <2>1, <4>1 DEF TypeOK
    <3>3. head <= clos.pos => sequence[Slot(clos.pos)] = clos.pos + 1
      <4> SUFFICES ASSUME head <= clos.pos
                   PROVE  sequence[Slot(clos.pos)] = clos.pos + 1
        OBVIOUS
      <4>1. clos.pos \in Low..(Low + Capacity - 1) /\ clos.pos < tail
        BY <1>5, <2>2, <2>5, CapacityAssumption
      <4> QED
        BY <1>0, <2>5, <4>1 DEF CellsOK
    <3>4. \A n \in head..clos.pos : sequence[Slot(n)] = n + 1
      BY <1>5, <2>2, <3>3
    <3>5. CloserOK'
      BY <1>1, <1>5, <2>1, <2>2, <2>5, <3>1, <3>4 DEF CloserOK
    <3> QED
      BY <1>3, <1>4, <2>3, <3>2, <3>5 DEF IInv
  <2> QED
    BY <1>8, <2>4, <2>5 DEF CloseScan
<1> QED
  BY <1>6, <1>7, <1>8

-----------------------------------------------------------------------------
(* The theorems.                                                           *)

\* The ring's cells, producers, consumer and close() fit together in every state.
THEOREM Invariance == Spec => []IInv
<1>1. Init => IInv
  <2> SUFFICES ASSUME Init PROVE IInv
    OBVIOUS
  <2>0. Capacity \in Nat /\ Capacity > 1
    BY CapacityAssumption
  <2>1. TypeOK
    <3>1. /\ sequence \in [Slots -> Nat] /\ item \in [Slots -> Message \cup {Empty}]
          /\ sent \in [Producer -> Nat]
      BY <2>0 DEF Init, Slots
    <3>2. prod \in [Producer -> [at : {"out", "reload", "test", "cas", "move", "publish"},
                                 pos : Nat, closed : BOOLEAN]]
      BY DEF Init
    <3>3. order \in Seq(Message) /\ received \in Seq(Message \cup {Empty})
      BY DEF Init
    <3>5. tail \in Nat /\ closed \in BOOLEAN /\ head \in Nat
      BY DEF Init
    <3>4. /\ cons \in [at : {"out", "peek", "take", "advance", "release", "drained"},
                       pos : Nat, last : BOOLEAN]
          /\ clos \in [at : {"out", "position", "scan", "closed"}, pos : Nat, end : Nat]
      BY DEF Init
    <3> QED
      BY <3>1, <3>2, <3>3, <3>4, <3>5 DEF TypeOK
  <2>2. Low = 0 /\ \A n \in 0..(Capacity - 1) : n \in Slots /\ Slot(n) = n
    BY <2>0, SlotOfFirstLap DEF Init, Low, Slots
  <2>3. CellsOK
    BY <2>0, <2>2 DEF Init, CellsOK
  <2>4. ProducersOK /\ ItemsOK /\ ConsumerOK /\ CloserOK
    BY DEF Init, ProducersOK, ProducerOK, Owner, ItemsOK, ConsumerOK, CloserOK
  <2> QED
    BY <2>1, <2>3, <2>4 DEF IInv
<1>2. IInv /\ [Next]_vars => IInv'
  <2> SUFFICES ASSUME IInv, [Next]_vars PROVE IInv'
    OBVIOUS
  <2>1. ASSUME NEW p \in Producer, Enqueue(p) PROVE IInv'
    BY <2>1, LoadStep, TestStep, ReserveStep, MoveStep, PublishStep DEF Enqueue
  <2>2. CASE StartDrain
    BY <2>2, StartDrainStep
  <2>3. CASE Dequeue
    BY <2>3, PeekStep, TakeStep, AdvanceStep, ReleaseStep DEF Dequeue
  <2>4. CASE CloseQueue \/ CloseStart \/ CloseScan
    BY <2>4, CloseStep
  <2>5. CASE UNCHANGED vars
    BY <2>5 DEF vars, IInv, TypeOK, CellsOK, Low, ProducersOK, ProducerOK, Owner,
                ItemsOK, ConsumerOK, CloserOK
  <2> QED
    BY <2>1, <2>2, <2>3, <2>4, <2>5 DEF Next
<1> QED
  BY <1>1, <1>2, PTL DEF Spec

\* Every variable keeps its type.
THEOREM TypeCorrect == Spec => []TypeOK
<1>1. IInv => TypeOK
  BY DEF IInv
<1> QED
  BY <1>1, Invariance, PTL

\* try_dequeue returns the accepted messages, each once, in the order of the exchanges.
THEOREM InOrderOnce == Spec => []ExactlyOnceInOrder
<1>1. IInv => ExactlyOnceInOrder
  <2> SUFFICES ASSUME IInv PROVE Len(received) <= Len(order)
    BY DEF IInv, ConsumerOK, ExactlyOnceInOrder
  <2> QED
    BY DEF IInv, ConsumerOK, CellsOK, Low, TypeOK
<1> QED
  BY <1>1, Invariance, PTL

\* The ring never holds more messages than it has cells, and head never passes tail.
THEOREM Bounded == Spec => []NeverOverCapacity
<1>1. IInv => NeverOverCapacity
  BY CapacityAssumption DEF IInv, CellsOK, Low, ConsumerOK, TypeOK, NeverOverCapacity
<1> QED
  BY <1>1, Invariance, PTL

\* When close() has returned, every accepted message can be dequeued.
THEOREM CloseWaits == Spec => []ClosedIsPublished
<1>1. IInv => ClosedIsPublished
  BY DEF IInv, CloserOK, ClosedIsPublished
<1> QED
  BY <1>1, Invariance, PTL

\* A drain() that starts after close() has returned yields every accepted message.
THEOREM NothingLeftBehind == Spec => []LastDrainIsComplete
<1>1. IInv => LastDrainIsComplete
  <2> SUFFICES ASSUME IInv, cons.at = "drained", cons.last PROVE received = order
    BY DEF LastDrainIsComplete
  <2>1. /\ received \in Seq(Message \cup {Empty}) /\ order \in Seq(Message)
        /\ Len(received) = Len(order) /\ \A i \in 1..Len(received) : received[i] = order[i]
    BY DEF IInv, ConsumerOK, TypeOK
  <2> QED
    BY <2>1
<1> QED
  BY <1>1, Invariance, PTL

\* The ring implements the bounded first-in first-out channel.
THEOREM ImplementsChannel == Spec => IsChannel
<1>1. Init => Fifo!Init
  BY DEF Init, Fifo!Init
<1>2. IInv /\ [Next]_vars => [Fifo!Next]_(Fifo!vars)
  <2> SUFFICES ASSUME IInv, [Next]_vars
               PROVE  Fifo!Next \/ UNCHANGED Fifo!vars
    OBVIOUS
  <2>0. TypeOK /\ CellsOK /\ ProducersOK /\ ItemsOK /\ ConsumerOK /\ CloserOK
    BY DEF IInv
  <2>1. ASSUME NEW p \in Producer, Reserve(p) PROVE Fifo!Accept
    <3>1. /\ ~closed /\ order' = Append(order, <<p, sent[p]>>)
          /\ UNCHANGED <<received, closed>> /\ prod[p].at = "cas" /\ tail = prod[p].pos
      BY <2>1 DEF Reserve
    <3>2. order \in Seq(Message) /\ <<p, sent[p]>> \in Message
      BY <2>0 DEF TypeOK, Message
    <3>3. order'[Len(order) + 1] = <<p, sent[p]>>
      BY <3>1, <3>2
    <3>7. Len(order') = Len(order) + 1
      BY <3>1, <3>2
    <3>4. tail < Low + Capacity /\ Low \in Nat /\ tail \in Nat /\ Capacity \in Nat
      BY <2>0, <3>1, CapacityAssumption DEF CellsOK, ProducersOK, ProducerOK, TypeOK
    <3>5. Len(order) = tail /\ Len(received) \in Nat /\ Low <= Len(received)
      BY <2>0 DEF ConsumerOK, Low, TypeOK
    <3>6. Len(order) - Len(received) < Capacity
      BY <3>4, <3>5
    <3> QED
      BY <3>1, <3>2, <3>3, <3>6, <3>7 DEF Fifo!Accept
  <2>2. ASSUME Take PROVE Fifo!Deliver
    <3>1. /\ received' = Append(received, item[Slot(cons.pos)]) /\ cons.at = "take"
          /\ UNCHANGED <<order, closed>>
      BY <2>2 DEF Take
    <3>2. /\ cons.pos = head /\ head < tail /\ sequence[Slot(head)] = head + 1
          /\ Len(received) = head /\ Len(order) = tail /\ head \in Nat /\ tail \in Nat
      BY <2>0, <3>1 DEF ConsumerOK, TypeOK
    <3>3. item[Slot(cons.pos)] = order[Len(received) + 1]
      <4>1. head \in head..(tail - 1)
        BY <3>2
      <4> QED
        BY <2>0, <3>1, <3>2, <4>1 DEF ItemsOK
    <3> QED
      BY <3>1, <3>2, <3>3 DEF Fifo!Deliver
  <2>3. ASSUME CloseQueue PROVE Fifo!Shut
    <3>1. clos.at = "out" /\ closed' = TRUE /\ UNCHANGED <<order, received>>
      BY <2>3 DEF CloseQueue
    <3> QED
      BY <3>1 DEF Fifo!Shut
  <2>4. ASSUME NEW p \in Producer, Load(p) \/ Test(p) \/ Retry(p) \/ Move(p) \/ Publish(p)
        PROVE  UNCHANGED <<order, received, closed>>
    BY <2>4, Zenon DEF Load, Test, Retry, Move, Publish
  <2>5. ASSUME StartDrain \/ Peek \/ Advance \/ Release \/ CloseStart \/ CloseScan
        PROVE  UNCHANGED <<order, received, closed>>
    BY <2>5, Zenon DEF StartDrain, Peek, Advance, Release, CloseStart, CloseScan
  <2>6. ASSUME UNCHANGED vars PROVE UNCHANGED <<order, received, closed>>
    BY <2>6 DEF vars
  <2> QED
    BY <2>1, <2>2, <2>3, <2>4, <2>5, <2>6, Zenon
       DEF Next, Enqueue, Dequeue, Fifo!Next, Fifo!vars
<1> QED
  BY <1>1, <1>2, Invariance, PTL DEF Spec, IsChannel, Fifo!Spec
=============================================================================
