------------------------------ MODULE MpscQueue -----------------------------
(***************************************************************************)
(* MpscQueue (src/include/v2/io/mailbox.h), the lock-free ring of an IO    *)
(* core's mailbox: any thread enqueues, the core's thread drains, and      *)
(* AsioIoEngine::stop closes the queue from a thread of its own.           *)
(*                                                                         *)
(* Every atomic load, store and read-modify-write is a step; a move of the *)
(* payload is a step too, because it is not atomic.  The steps are         *)
(* sequentially consistent: a payload is moved only between the acquire    *)
(* of its cell's sequence number and the release that hands the cell on.   *)
(* Positions are natural numbers: kPositionMask leaves 63 bits to them.    *)
(***************************************************************************)
EXTENDS Integers, Sequences, FiniteSets

CONSTANTS
    Producer,   \* threads that post to the mailbox
    Capacity,   \* capacity_
    Empty,      \* an empty optional
    MaxSent     \* bound: messages each producer gets in

\* With one cell, "published" and "free for the next lap" are the same sequence number:
\* the constructor accepts that capacity, the ring needs two cells.
ASSUME CapacityAssumption == Capacity \in Nat \ {0, 1}
ASSUME SentAssumption == MaxSent \in Nat

VARIABLES
    tail,      \* the position in enqueue_state_
    closed,    \* kClosedBit of enqueue_state_
    head,      \* dequeue_pos_
    sequence,  \* buffer_[i].sequence
    item,      \* buffer_[i].item
    prod,      \* try_enqueue_result of each producer: where it is, and its state
    sent,      \* messages each producer has got in
    cons,      \* drain() of the consumer: where it is, and its position
    clos,      \* close(): where it is, position and reserved_end
    order,     \* history: the messages in the order their slots were reserved
    received   \* history: the messages in the order they were dequeued

vars == <<tail, closed, head, sequence, item, prod, sent, cons, clos, order, received>>

Slots == 0..(Capacity - 1)
Slot(position) == position % Capacity
Message == Producer \X Nat

Init ==
    /\ tail = 0 /\ closed = FALSE /\ head = 0
    /\ sequence = [i \in Slots |-> i]
    /\ item = [i \in Slots |-> Empty]
    /\ prod = [p \in Producer |-> [at |-> "out", pos |-> 0, closed |-> FALSE]]
    /\ sent = [p \in Producer |-> 0]
    /\ cons = [at |-> "out", pos |-> 0, last |-> FALSE]
    /\ clos = [at |-> "out", pos |-> 0, end |-> 0]
    /\ order = <<>> /\ received = <<>>

-----------------------------------------------------------------------------
(* try_enqueue_result.                                                     *)

\* The loads of enqueue_state_ at the start and after a lost race.
Load(p) ==
    /\ \/ prod[p].at = "out" /\ sent[p] < MaxSent
       \/ prod[p].at = "reload"
    /\ prod' = [prod EXCEPT ![p] = [at |-> "test", pos |-> tail, closed |-> closed]]
    /\ UNCHANGED <<tail, closed, head, sequence, item, sent, cons, clos, order, received>>

\* Mutant: a cell that still holds a message of the last lap is taken for a free one.
TestFull(p) ==
    /\ prod[p].at = "test"
    /\ LET difference == sequence[Slot(prod[p].pos)] - prod[p].pos
       IN  prod' = [prod EXCEPT ![p].at = CASE prod[p].closed -> "out"
                                            [] ~prod[p].closed /\ difference <= 0 -> "cas"
                                            [] ~prod[p].closed /\ difference > 0 -> "reload"]
    /\ UNCHANGED <<tail, closed, head, sequence, item, sent, cons, clos, order, received>>

\* The tests before the exchange: closed, free, full or overtaken.  A full and a closed
\* queue both refuse the message.
Test(p) ==
    /\ prod[p].at = "test"
    /\ LET difference == sequence[Slot(prod[p].pos)] - prod[p].pos
       IN  prod' = [prod EXCEPT ![p].at = CASE prod[p].closed -> "out"
                                            [] ~prod[p].closed /\ difference = 0 -> "cas"
                                            [] ~prod[p].closed /\ difference < 0 -> "out"
                                            [] ~prod[p].closed /\ difference > 0 -> "reload"]
    /\ UNCHANGED <<tail, closed, head, sequence, item, sent, cons, clos, order, received>>

\* Mutant: the cell is marked as filled with the reservation, before the payload is in.
ReservePublished(p) ==
    /\ prod[p].at = "cas"
    /\ tail = prod[p].pos /\ ~closed
    /\ tail' = tail + 1
    /\ order' = Append(order, <<p, sent[p]>>)
    /\ sequence' = [sequence EXCEPT ![Slot(prod[p].pos)] = prod[p].pos + 1]
    /\ prod' = [prod EXCEPT ![p].at = "move"]
    /\ UNCHANGED <<closed, head, item, sent, cons, clos, received>>

\* compare_exchange_weak succeeds: the slot belongs to p.
Reserve(p) ==
    /\ prod[p].at = "cas"
    /\ tail = prod[p].pos /\ ~closed
    /\ tail' = tail + 1
    /\ order' = Append(order, <<p, sent[p]>>)
    /\ prod' = [prod EXCEPT ![p].at = "move"]
    /\ UNCHANGED <<closed, head, sequence, item, sent, cons, clos, received>>

\* compare_exchange_weak fails, spuriously or not, and reloads the state.
Retry(p) ==
    /\ prod[p].at = "cas"
    /\ prod' = [prod EXCEPT ![p] = [at |-> "test", pos |-> tail, closed |-> closed]]
    /\ UNCHANGED <<tail, closed, head, sequence, item, sent, cons, clos, order, received>>

\* The payload is moved into the cell.
Move(p) ==
    /\ prod[p].at = "move"
    /\ item' = [item EXCEPT ![Slot(prod[p].pos)] = <<p, sent[p]>>]
    /\ prod' = [prod EXCEPT ![p].at = "publish"]
    /\ UNCHANGED <<tail, closed, head, sequence, sent, cons, clos, order, received>>

\* Mutant: the cell is left marked as reserved.
PublishUnmarked(p) ==
    /\ prod[p].at = "publish"
    /\ sequence' = [sequence EXCEPT ![Slot(prod[p].pos)] = prod[p].pos]
    /\ sent' = [sent EXCEPT ![p] = @ + 1]
    /\ prod' = [prod EXCEPT ![p].at = "out"]
    /\ UNCHANGED <<tail, closed, head, item, cons, clos, order, received>>

Publish(p) ==
    /\ prod[p].at = "publish"
    /\ sequence' = [sequence EXCEPT ![Slot(prod[p].pos)] = prod[p].pos + 1]
    /\ sent' = [sent EXCEPT ![p] = @ + 1]
    /\ prod' = [prod EXCEPT ![p].at = "out"]
    /\ UNCHANGED <<tail, closed, head, item, cons, clos, order, received>>

Enqueue(p) == Load(p) \/ Test(p) \/ Reserve(p) \/ Retry(p) \/ Move(p) \/ Publish(p)

-----------------------------------------------------------------------------
(* drain(), a loop of try_dequeue; last: it started after close() returned.*)

StartDrain ==
    /\ cons.at \in {"out", "drained"}
    /\ cons' = [at |-> "peek", pos |-> head, last |-> clos.at = "closed"]
    /\ UNCHANGED <<tail, closed, head, sequence, item, prod, sent, clos, order, received>>

\* Mutant: nothing is taken from a closed queue.
PeekOpen ==
    /\ cons.at = "peek"
    /\ cons' = [cons EXCEPT !.at = IF ~closed /\ sequence[Slot(cons.pos)] = cons.pos + 1
                                   THEN "take" ELSE "drained"]
    /\ UNCHANGED <<tail, closed, head, sequence, item, prod, sent, clos, order, received>>

\* The sequence number of the head cell: try_dequeue takes the message or finds none.
Peek ==
    /\ cons.at = "peek"
    /\ cons' = [cons EXCEPT !.at = IF sequence[Slot(cons.pos)] = cons.pos + 1
                                   THEN "take" ELSE "drained"]
    /\ UNCHANGED <<tail, closed, head, sequence, item, prod, sent, clos, order, received>>

Take ==
    /\ cons.at = "take"
    /\ received' = Append(received, item[Slot(cons.pos)])
    /\ item' = [item EXCEPT ![Slot(cons.pos)] = Empty]
    /\ cons' = [cons EXCEPT !.at = "advance"]
    /\ UNCHANGED <<tail, closed, head, sequence, prod, sent, clos, order>>

Advance ==
    /\ cons.at = "advance"
    /\ head' = cons.pos + 1
    /\ cons' = [cons EXCEPT !.at = "release"]
    /\ UNCHANGED <<tail, closed, sequence, item, prod, sent, clos, order, received>>

\* The cell is handed to the producer of the next lap.
Release ==
    /\ cons.at = "release"
    /\ sequence' = [sequence EXCEPT ![Slot(cons.pos)] = cons.pos + Capacity]
    /\ cons' = [cons EXCEPT !.at = "peek", !.pos = head]
    /\ UNCHANGED <<tail, closed, head, item, prod, sent, clos, order, received>>

Dequeue == Peek \/ Take \/ Advance \/ Release

-----------------------------------------------------------------------------
(* close().                                                                *)

\* fetch_or of the closed bit; the reservations before it are to be waited for.
CloseQueue ==
    /\ clos.at = "out"
    /\ closed' = TRUE
    /\ clos' = [clos EXCEPT !.at = "position", !.end = tail]
    /\ UNCHANGED <<tail, head, sequence, item, prod, sent, cons, order, received>>

CloseStart ==
    /\ clos.at = "position"
    /\ clos' = [clos EXCEPT !.at = "scan", !.pos = head]
    /\ UNCHANGED <<tail, closed, head, sequence, item, prod, sent, cons, order, received>>

\* One iteration of the scan; the thread yields while a slot waits for its payload.
CloseScan ==
    /\ clos.at = "scan"
    /\ \/ clos.pos = clos.end /\ clos' = [clos EXCEPT !.at = "closed"]
       \/ /\ clos.pos # clos.end
          /\ sequence[Slot(clos.pos)] # clos.pos
          /\ clos' = [clos EXCEPT !.pos = @ + 1]
    /\ UNCHANGED <<tail, closed, head, sequence, item, prod, sent, cons, order, received>>

Next ==
    \/ \E p \in Producer : Enqueue(p)
    \/ StartDrain \/ Dequeue
    \/ CloseQueue \/ CloseStart \/ CloseScan

Spec == Init /\ [][Next]_vars

\* Every thread is scheduled: a producer finishes its call, and so does close().
Fairness ==
    /\ \A p \in Producer : WF_vars(Move(p) \/ Publish(p))
    /\ WF_vars(CloseStart \/ CloseScan)

FairSpec == Spec /\ Fairness

-----------------------------------------------------------------------------
(* Properties.                                                             *)

\* Every variable keeps its type.
TypeOK ==
    /\ tail \in Nat /\ closed \in BOOLEAN /\ head \in Nat
    /\ sequence \in [Slots -> Nat]
    /\ item \in [Slots -> Message \cup {Empty}]
    /\ prod \in [Producer -> [at : {"out", "reload", "test", "cas", "move", "publish"},
                              pos : Nat, closed : BOOLEAN]]
    /\ sent \in [Producer -> Nat]
    /\ cons \in [at : {"out", "peek", "take", "advance", "release", "drained"},
                 pos : Nat, last : BOOLEAN]
    /\ clos \in [at : {"out", "position", "scan", "closed"}, pos : Nat, end : Nat]
    /\ order \in Seq(Message)
    /\ received \in Seq(Message \cup {Empty})

\* What was dequeued is what was enqueued, in the order of the reservations: every message
\* once, none lost or overwritten, each producer's in the order it sent them.
ExactlyOnceInOrder ==
    /\ Len(received) <= Len(order)
    /\ \A i \in 1..Len(received) : received[i] = order[i]

\* The ring never holds more than its capacity, and the counters behind size() never cross.
NeverOverCapacity == head <= tail /\ tail - head <= Capacity

\* Once close() has returned, every accepted message can be dequeued.
ClosedIsPublished ==
    clos.at = "closed" => \A n \in head..(tail - 1) : sequence[Slot(n)] = n + 1

\* A drain that starts after close() returned misses no accepted message.
LastDrainIsComplete == cons.at = "drained" /\ cons.last => received = order

\* The ring is a bounded channel: the exchange accepts a message, moving it out of its cell
\* delivers it, and the closed bit shuts the channel; all other steps change nothing.
Fifo == INSTANCE Channel WITH Item <- Message, Limit <- Capacity,
                              accepted <- order, delivered <- received, shut <- closed
IsChannel == Fifo!Spec

\* close() returns: the reservations it waits for are published.
CloseReturns == clos.at = "position" ~> clos.at = "closed"
=============================================================================
