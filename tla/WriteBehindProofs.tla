-------------------------- MODULE WriteBehindProofs -------------------------
(***************************************************************************)
(* The write-behind store of WriteBehindStore for any number of callers,   *)
(* battles and writes: an inductive invariant and what it implies.         *)
(***************************************************************************)
EXTENDS WriteBehindStore, TLAPS

\* Zenon is tried before the SMT solver, which is given more time than by default.
USE ZenonT(5), SMTT(30)

-----------------------------------------------------------------------------
(* The inductive invariant.                                                *)

\* The program counters of the worker, the callers and the destructor, and what the
\* destructor's position says of the others: nobody else uses the store any more, its
\* flush has emptied it, and running_ is cleared from then on.
ThreadsOK ==
    /\ pc[Worker] \in {"loop", "asleep", "save", "notify", "done"}
    /\ \A t \in Caller : pc[t] \in {"out", "flush", "asleep", "flushed"}
    /\ pc[Owner] \in {"out", "flush", "asleep", "flushed", "notify", "join", "gone"}
    /\ pc[Owner] # "out" => \A t \in Caller : pc[t] = "out"
    /\ ~running <=> pc[Owner] \in {"notify", "join", "gone"}
    /\ pc[Owner] \in {"flushed", "notify", "join", "gone"} =>
          queue = <<>> /\ pc[Worker] # "save"
    /\ pc[Worker] = "done" => queue = <<>> /\ ~running
    /\ idle <=> pc[Worker] # "save"

\* The commands are numbered without a gap: those up to Taken have left the queue, the one
\* in hand is the last of them, and no document is newer.
Taken == enqueued - Len(queue)
NumbersOK ==
    /\ Taken = flushed + failed + InHand
    /\ \A i \in 1..Len(queue) : queue[i].n = Taken + i
    /\ pc[Worker] = "save" => hand.n = Taken
    /\ \A b \in Battle, d \in Document : saved[b][d] <= Taken

\* Nobody sleeps with no one left to wake them: the worker sleeps on an empty queue, and
\* a flush sleeps only while the worker has something to do and a notify_all before it.
SleepersOK ==
    /\ WorkerNeverOversleeps
    /\ \A t \in Flusher : pc[t] = "asleep" =>
          queue # <<>> \/ pc[Worker] \in {"save", "notify"}

\* What a flush waits for had been accepted when it was called.
FlushesOK ==
    /\ FlushCovers
    /\ \A t \in Flusher : due[t] <= enqueued

IInv == TypeOK /\ ThreadsOK /\ NumbersOK /\ SleepersOK /\ FlushesOK

-----------------------------------------------------------------------------
(* Threads and notifications.                                              *)

\* The three roles are distinct.
LEMMA Roles ==
    /\ Worker \in Thread /\ Owner \in Thread /\ Owner \in Flusher /\ Worker \notin Flusher
    /\ \A t \in Caller : t \in Thread /\ t \in Flusher /\ t # Owner /\ t # Worker
    /\ \A t \in Flusher : t \in Thread /\ (t = Owner \/ t \in Caller)
    /\ \A t \in Thread : t = Worker \/ t \in Flusher
  BY ThreadAssumption DEF Thread, Flusher

\* A notify_all wakes exactly the sleepers.
LEMMA NotifyAllWakes ==
    ASSUME NEW at \in [Thread -> Place]
    PROVE  /\ NotifyAll(at) \in [Thread -> Place]
           /\ \A t \in Thread :
                 NotifyAll(at)[t] = IF at[t] = "asleep" THEN Woken(t) ELSE at[t]
  BY DEF NotifyAll, Woken, Place

\* A notify_one wakes one sleeper, if there is one, and changes nothing else.
LEMMA NotifyOneWakes ==
    ASSUME NEW at \in [Thread -> Place], NEW after \in NotifyOne(at)
    PROVE  /\ after \in [Thread -> Place]
           /\ \A t \in Thread :
                 after[t] = at[t] \/ (at[t] = "asleep" /\ after[t] = Woken(t))
           /\ (\E t \in Thread : at[t] = "asleep") =>
                 \E t \in Thread : at[t] = "asleep" /\ after[t] = Woken(t)
<1>1. CASE {t \in Thread : at[t] = "asleep"} = {}
  <2>1. after = at
    BY <1>1 DEF NotifyOne
  <2> QED
    BY <1>1, <2>1
<1>2. CASE {t \in Thread : at[t] = "asleep"} # {}
  <2>1. PICK u \in Thread : at[u] = "asleep" /\ after = [at EXCEPT ![u] = Woken(u)]
    BY <1>2 DEF NotifyOne
  <2>2. Woken(u) \in Place
    BY DEF Woken, Place
  <2> QED
    BY <2>1, <2>2
<1> QED
  BY <1>1, <1>2

\* What popping a command off the queue leaves.
LEMMA Pop ==
    ASSUME NEW S, NEW q \in Seq(S), q # <<>>
    PROVE  /\ Len(q) \in Nat /\ Len(q) > 0 /\ Head(q) = q[1] /\ q[1] \in S
           /\ Tail(q) \in Seq(S) /\ Len(Tail(q)) = Len(q) - 1
           /\ \A i \in 1..(Len(q) - 1) : Tail(q)[i] = q[i + 1]
  OBVIOUS

\* A command's delegate calls save documents.
LEMMA CallsSave == \A kind \in Kind : Calls(kind) \in Seq(Document)
<1> SUFFICES ASSUME NEW kind \in Kind PROVE Calls(kind) \in Seq(Document)
  OBVIOUS
<1>1. CASE kind = "persist"
  <2>1. Calls(kind) = <<"result", "replay">>
    BY <1>1 DEF Calls
  <2>2. "result" \in Document /\ "replay" \in Document
    BY DEF Document
  <2> QED
    BY <2>1, <2>2
<1>2. CASE kind # "persist"
  <2>1. Calls(kind) = <<kind>> /\ kind \in Document
    BY <1>2 DEF Calls, Kind
  <2> QED
    BY <2>1
<1> QED
  BY <1>1, <1>2

-----------------------------------------------------------------------------
(* The steps.                                                              *)

\* Where a step moves one thread and touches nothing else, only what is said of the
\* threads has to be shown again.
LEMMA OneThreadMoves ==
    ASSUME IInv, NEW t \in Thread, NEW place \in Place,
           pc' = [pc EXCEPT ![t] = place],
           UNCHANGED <<queue, hand, idle, enqueued, flushed, failed, saved, due>>,
           running' \in BOOLEAN,
           (pc[Worker] = "save") <=> (pc'[Worker] = "save"),
           ThreadsOK', SleepersOK',
           place = "flushed" /\ t \in Flusher => flushed + failed >= due[t]
    PROVE  IInv'
<1>0. TypeOK /\ ThreadsOK /\ NumbersOK /\ SleepersOK /\ FlushesOK
  BY DEF IInv
<1>1. TypeOK'
  BY <1>0 DEF TypeOK
<1>2. NumbersOK'
  BY <1>0 DEF NumbersOK, Taken, InHand
<1>3. FlushesOK'
  <2> SUFFICES ASSUME NEW u \in Flusher
               PROVE  (pc'[u] = "flushed" => flushed + failed >= due[u]) /\ due[u] <= enqueued
    BY DEF FlushesOK, FlushCovers
  <2>1. u \in Thread /\ pc'[u] = IF u = t THEN place ELSE pc[u]
    BY <1>0, Roles DEF TypeOK
  <2> QED
    BY <1>0, <2>1 DEF FlushesOK, FlushCovers
<1> QED
  BY <1>1, <1>2, <1>3 DEF IInv

\* The wait of worker_loop.
LEMMA WorkerWaitStep == IInv /\ (WorkerWait \/ WorkerLeave) => IInv'
<1> SUFFICES ASSUME IInv, WorkerWait \/ WorkerLeave PROVE IInv'
  OBVIOUS
<1>0. TypeOK /\ ThreadsOK /\ SleepersOK
  BY DEF IInv
<1>1. PICK place \in {"asleep", "done"} :
        /\ pc' = [pc EXCEPT ![Worker] = place]
        /\ place = "asleep" <=> running
  BY DEF WorkerWait, WorkerLeave
<1>2. /\ pc[Worker] = "loop" /\ queue = <<>>
      /\ UNCHANGED <<queue, hand, idle, running, enqueued, flushed, failed, saved, due>>
  BY DEF WorkerWait, WorkerLeave
<1>3. pc'[Worker] = place /\ \A t \in Flusher : pc'[t] = pc[t]
  BY <1>0, <1>1, Roles DEF TypeOK
<1>4. \A t \in Flusher : pc[t] # "asleep"
  BY <1>0, <1>2 DEF SleepersOK
<1>5. ThreadsOK'
  BY <1>0, <1>1, <1>2, <1>3, Roles DEF ThreadsOK
<1>6. SleepersOK'
  BY <1>1, <1>2, <1>3, <1>4 DEF SleepersOK, WorkerNeverOversleeps
<1> QED
  <2>1. place \in Place /\ running' \in BOOLEAN /\ ((pc[Worker] = "save") <=> (pc'[Worker] = "save"))
    BY <1>0, <1>1, <1>2, <1>3 DEF Place, TypeOK
  <2> QED
    BY <1>1, <1>2, <1>5, <1>6, <2>1, OneThreadMoves, Roles, ZenonT(30)

\* The worker takes the oldest command.
LEMMA WorkerTakeStep == IInv /\ WorkerTake => IInv'
<1> SUFFICES ASSUME IInv, WorkerTake PROVE IInv'
  OBVIOUS
<1>0. TypeOK /\ ThreadsOK /\ NumbersOK /\ SleepersOK /\ FlushesOK
  BY DEF IInv
<1>1. /\ pc[Worker] = "loop" /\ queue # <<>> /\ idle' = FALSE /\ queue' = Tail(queue)
      /\ pc' = [pc EXCEPT ![Worker] = "save"]
      /\ UNCHANGED <<running, enqueued, flushed, failed, saved, due>>
  BY DEF WorkerTake
<1>2. pc'[Worker] = "save" /\ \A t \in Flusher : pc'[t] = pc[t]
  BY <1>0, <1>1, Roles DEF TypeOK
<1>3. /\ queue \in Seq([n : Nat, kind : Kind, battle : Battle]) /\ Len(queue) \in Nat
      /\ Len(queue) > 0
      /\ Len(queue') = Len(queue) - 1
      /\ \A i \in 1..Len(queue') : queue'[i] = queue[i + 1]
      /\ queue' \in Seq([n : Nat, kind : Kind, battle : Battle])
      /\ Head(queue) = queue[1] /\ queue[1] \in [n : Nat, kind : Kind, battle : Battle]
  <2> DEFINE Command == [n : Nat, kind : Kind, battle : Battle]
  <2>1. queue \in Seq(Command)
    BY <1>0 DEF TypeOK
  <2> HIDE DEF Command
  <2>2. /\ Len(queue) \in Nat /\ Len(queue) > 0 /\ Head(queue) = queue[1]
        /\ queue[1] \in Command /\ queue' \in Seq(Command) /\ Len(queue') = Len(queue) - 1
        /\ \A i \in 1..(Len(queue) - 1) : queue'[i] = queue[i + 1]
    BY <1>1, <2>1, Pop
  <2> QED
    BY <2>1, <2>2 DEF Command
<1>4. /\ hand' = [n |-> queue[1].n, battle |-> queue[1].battle,
                  calls |-> Calls(queue[1].kind), ok |-> TRUE]
  BY <1>3, ZenonT(30) DEF WorkerTake
<1>5. Calls(queue[1].kind) \in Seq(Document)
  BY <1>3, CallsSave
<1>6. hand' \in [n : Nat, battle : Battle, calls : Seq(Document), ok : BOOLEAN]
  BY <1>3, <1>4, <1>5
<1>7. TypeOK'
  BY <1>0, <1>1, <1>3, <1>6, ZenonT(30) DEF TypeOK, Place
<1>8. ThreadsOK'
  BY <1>0, <1>1, <1>2, Roles DEF ThreadsOK
<1>9. NumbersOK'
  <2>1. /\ Taken \in Int /\ Taken' = Taken + 1 /\ flushed \in Nat /\ failed \in Nat
        /\ Taken = flushed + failed
    BY <1>0, <1>1, <1>3 DEF Taken, TypeOK, NumbersOK, InHand
  <2>2. Taken' = flushed' + failed' + InHand'
    BY <2>1, <1>1, <1>2 DEF InHand
  <2>3. \A i \in 1..Len(queue') : queue'[i].n = Taken' + i
    <3> SUFFICES ASSUME NEW i \in 1..Len(queue') PROVE queue'[i].n = Taken' + i
      OBVIOUS
    <3>1. i + 1 \in 1..Len(queue) /\ queue'[i] = queue[i + 1]
      BY <1>3
    <3>2. queue[i + 1].n = Taken + (i + 1)
      BY <1>0, <3>1 DEF NumbersOK
    <3> QED
      BY <2>1, <3>1, <3>2
  <2>4. hand'.n = Taken'
    <3>1. 1 \in 1..Len(queue)
      BY <1>3
    <3>2. queue[1].n = Taken + 1
      BY <1>0, <3>1 DEF NumbersOK
    <3> QED
      BY <1>4, <2>1, <3>2
  <2>5. \A b \in Battle, d \in Document : saved'[b][d] <= Taken'
    <3> SUFFICES ASSUME NEW b \in Battle, NEW d \in Document PROVE saved[b][d] <= Taken + 1
      BY <1>1, <2>1
    <3>1. saved[b][d] \in Nat /\ saved[b][d] <= Taken
      BY <1>0 DEF TypeOK, NumbersOK
    <3> QED
      BY <2>1, <3>1
  <2> QED
    BY <2>2, <2>3, <2>4, <2>5 DEF NumbersOK
<1>10. SleepersOK'
  BY <1>2 DEF SleepersOK, WorkerNeverOversleeps
<1>11. FlushesOK'
  BY <1>0, <1>1, <1>2 DEF FlushesOK, FlushCovers
<1> QED
  BY <1>7, <1>8, <1>9, <1>10, <1>11 DEF IInv

\* One call of the delegate.
LEMMA WorkerSaveStep == IInv /\ WorkerSave => IInv'
<1> SUFFICES ASSUME IInv, WorkerSave PROVE IInv'
  OBVIOUS
<1>0. TypeOK /\ ThreadsOK /\ NumbersOK /\ SleepersOK /\ FlushesOK
  BY DEF IInv
<1>1. /\ pc[Worker] = "save" /\ hand.calls # <<>>
      /\ UNCHANGED <<pc, queue, idle, running, enqueued, flushed, failed, due>>
  BY DEF WorkerSave
<1>2. PICK ok \in BOOLEAN :
        /\ hand' = [hand EXCEPT !.calls = Tail(hand.calls), !.ok = hand.ok /\ ok]
        /\ saved' = IF ok THEN [saved EXCEPT ![hand.battle][Head(hand.calls)] = hand.n]
                    ELSE saved
  BY ZenonT(30) DEF WorkerSave
<1>3. /\ hand.n \in Nat /\ hand.battle \in Battle /\ hand.calls \in Seq(Document)
      /\ hand.ok \in BOOLEAN
  BY <1>0 DEF TypeOK
<1>4. Head(hand.calls) \in Document /\ Tail(hand.calls) \in Seq(Document)
  BY <1>1, <1>3, Pop
<1>5. hand' \in [n : Nat, battle : Battle, calls : Seq(Document), ok : BOOLEAN] /\ hand'.n = hand.n
  <2>1. hand' = [n |-> hand.n, battle |-> hand.battle, calls |-> Tail(hand.calls),
                 ok |-> hand.ok /\ ok]
    BY <1>0, <1>2, ZenonT(30) DEF TypeOK
  <2> QED
    BY <1>3, <1>4, <2>1
<1>6. saved' \in [Battle -> [Document -> Nat]]
  BY <1>0, <1>2, <1>3, <1>4 DEF TypeOK
<1>7. \A b \in Battle, d \in Document : saved'[b][d] = saved[b][d] \/ saved'[b][d] = hand.n
  BY <1>0, <1>2, <1>3, <1>4 DEF TypeOK
<1>8. TypeOK'
  BY <1>0, <1>1, <1>5, <1>6 DEF TypeOK
<1>9. ThreadsOK'
  BY <1>0, <1>1 DEF ThreadsOK
<1>10. NumbersOK'
  <2>1. Taken' = Taken /\ InHand' = InHand /\ Taken \in Int
    BY <1>0, <1>1 DEF Taken, InHand, TypeOK
  <2>2. \A b \in Battle, d \in Document : saved'[b][d] <= Taken
    BY <1>0, <1>1, <1>3, <1>7, <2>1 DEF NumbersOK
  <2> QED
    BY <1>0, <1>1, <1>5, <2>1, <2>2 DEF NumbersOK
<1>11. SleepersOK' /\ FlushesOK'
  BY <1>0, <1>1 DEF SleepersOK, WorkerNeverOversleeps, FlushesOK, FlushCovers
<1> QED
  BY <1>8, <1>9, <1>10, <1>11 DEF IInv

\* The worker counts the command and is idle again.
LEMMA WorkerSettleStep == IInv /\ WorkerSettle => IInv'
<1> SUFFICES ASSUME IInv, WorkerSettle PROVE IInv'
  OBVIOUS
<1>0. TypeOK /\ ThreadsOK /\ NumbersOK /\ SleepersOK /\ FlushesOK
  BY DEF IInv
<1>1. /\ pc[Worker] = "save" /\ idle' = TRUE
      /\ pc' = [pc EXCEPT ![Worker] = "notify"]
      /\ UNCHANGED <<queue, hand, running, enqueued, saved, due>>
  BY DEF WorkerSettle
<1>2. pc'[Worker] = "notify" /\ \A t \in Flusher : pc'[t] = pc[t]
  BY <1>0, <1>1, Roles DEF TypeOK
<1>3. /\ flushed \in Nat /\ failed \in Nat /\ flushed' \in Nat /\ failed' \in Nat
      /\ \/ flushed' = flushed + 1 /\ failed' = failed
         \/ flushed' = flushed /\ failed' = failed + 1
  BY <1>0 DEF WorkerSettle, TypeOK
<1>4. TypeOK'
  BY <1>0, <1>1, <1>3, ZenonT(30) DEF TypeOK, Place
<1>5. ThreadsOK'
  BY <1>0, <1>1, <1>2, Roles DEF ThreadsOK
<1>6. NumbersOK'
  <2>1. Taken' = Taken
    BY <1>1 DEF Taken
  <2>5. InHand = 1 /\ InHand' = 0
    BY <1>1, <1>2 DEF InHand
  <2>3. Taken = flushed + failed + 1 /\ InHand' = 0
    BY <1>0, <2>5, ZenonT(30) DEF NumbersOK
  <2>4. flushed + failed + 1 = flushed' + failed' + 0
    <3>1. CASE flushed' = flushed + 1 /\ failed' = failed
      BY <1>3, <3>1
    <3>2. CASE flushed' = flushed /\ failed' = failed + 1
      BY <1>3, <3>2
    <3> QED
      BY <1>3, <3>1, <3>2, ZenonT(30)
  <2>2. Taken' = flushed' + failed' + InHand'
    BY <2>1, <2>3, <2>4, ZenonT(30)
  <2> QED
    BY <1>0, <1>1, <1>2, <2>1, <2>2 DEF NumbersOK
<1>7. SleepersOK'
  BY <1>2 DEF SleepersOK, WorkerNeverOversleeps
<1>8. FlushesOK'
  <2> SUFFICES ASSUME NEW t \in Flusher
               PROVE  (pc[t] = "flushed" => flushed' + failed' >= due[t]) /\ due[t] <= enqueued
    BY <1>1, <1>2 DEF FlushesOK, FlushCovers
  <2>1. due[t] \in Nat /\ (pc[t] = "flushed" => flushed + failed >= due[t]) /\ due[t] <= enqueued
    BY <1>0 DEF FlushesOK, FlushCovers, TypeOK
  <2> QED
    BY <1>3, <2>1
<1> QED
  BY <1>4, <1>5, <1>6, <1>7, <1>8 DEF IInv

\* The notify_all at the end of an iteration.
LEMMA WorkerNotifyStep == IInv /\ WorkerNotify => IInv'
<1> SUFFICES ASSUME IInv, WorkerNotify PROVE IInv'
  OBVIOUS
<1>0. TypeOK /\ ThreadsOK /\ NumbersOK /\ SleepersOK /\ FlushesOK
  BY DEF IInv
<1> DEFINE at == [pc EXCEPT ![Worker] = "loop"]
<1>1. /\ pc[Worker] = "notify" /\ pc' = NotifyAll(at)
      /\ UNCHANGED <<queue, hand, idle, running, enqueued, flushed, failed, saved, due>>
  BY DEF WorkerNotify
<1>2. /\ at \in [Thread -> Place] /\ at[Worker] = "loop"
      /\ \A t \in Flusher : at[t] = pc[t]
  BY <1>0, Roles DEF TypeOK, Place
<1> HIDE DEF at
<1>3. /\ pc' \in [Thread -> Place] /\ pc'[Worker] = "loop"
      /\ \A t \in Flusher : pc'[t] = IF pc[t] = "asleep" THEN "flush" ELSE pc[t]
  BY <1>1, <1>2, NotifyAllWakes, Roles DEF Woken
<1>4. TypeOK'
  BY <1>0, <1>1, <1>3 DEF TypeOK
<1>5. ThreadsOK'
  BY <1>0, <1>1, <1>3, Roles DEF ThreadsOK
<1>6. NumbersOK'
  BY <1>0, <1>1, <1>3 DEF NumbersOK, Taken, InHand
<1>7. SleepersOK'
  BY <1>3 DEF SleepersOK, WorkerNeverOversleeps
<1>8. FlushesOK'
  BY <1>0, <1>1, <1>3 DEF FlushesOK, FlushCovers
<1> QED
  BY <1>4, <1>5, <1>6, <1>7, <1>8 DEF IInv

\* save_replay, save_result, save_snapshot and persist.
LEMMA SaveStep ==
    ASSUME IInv, NEW t \in Caller, NEW kind \in Kind, NEW b \in Battle, Save(t, kind, b)
    PROVE  IInv'
<1>0. TypeOK /\ ThreadsOK /\ NumbersOK /\ SleepersOK /\ FlushesOK
  BY DEF IInv
<1> DEFINE command == [n |-> enqueued + 1, kind |-> kind, battle |-> b]
<1>1. /\ pc[Owner] = "out" /\ queue' = Append(queue, command) /\ enqueued' = enqueued + 1
      /\ pc' \in NotifyOne(pc)
      /\ UNCHANGED <<hand, idle, running, flushed, failed, saved, due>>
  BY DEF Save
<1>2. /\ pc' \in [Thread -> Place]
      /\ \A u \in Thread : pc'[u] = pc[u] \/ (pc[u] = "asleep" /\ pc'[u] = Woken(u))
      /\ (\E u \in Thread : pc[u] = "asleep") =>
            \E u \in Thread : pc[u] = "asleep" /\ pc'[u] = Woken(u)
  <2>1. pc \in [Thread -> Place]
    BY <1>0 DEF TypeOK
  <2> QED BY <1>1, <2>1, NotifyOneWakes, ZenonT(30)
<1>3. /\ pc'[Worker] = pc[Worker] \/ (pc[Worker] = "asleep" /\ pc'[Worker] = "loop")
      /\ \A u \in Flusher : pc'[u] = pc[u] \/ (pc[u] = "asleep" /\ pc'[u] = "flush")
  BY <1>2, Roles DEF Woken
<1>4. enqueued \in Nat /\ command \in [n : Nat, kind : Kind, battle : Battle]
  BY <1>0 DEF TypeOK
<1>5. command.n = enqueued + 1
  OBVIOUS
<1> HIDE DEF command
<1>6. /\ queue' \in Seq([n : Nat, kind : Kind, battle : Battle]) /\ Len(queue) \in Nat
      /\ Len(queue') = Len(queue) + 1 /\ queue' # <<>>
      /\ queue'[Len(queue) + 1] = command
      /\ \A i \in 1..Len(queue) : queue'[i] = queue[i]
  <2> DEFINE Command == [n : Nat, kind : Kind, battle : Battle]
  <2>1. queue \in Seq(Command) /\ command \in Command
    BY <1>0, <1>4 DEF TypeOK
  <2> HIDE DEF Command
  <2>2. /\ queue' \in Seq(Command) /\ Len(queue) \in Nat
        /\ Len(queue') = Len(queue) + 1 /\ queue' # <<>>
        /\ queue'[Len(queue) + 1] = command
        /\ \A i \in 1..Len(queue) : queue'[i] = queue[i]
    BY <1>1, <2>1
  <2> QED
    BY <2>2 DEF Command
<1>7. TypeOK'
  BY <1>0, <1>1, <1>2, <1>4, <1>6 DEF TypeOK
<1>8. pc'[Owner] = "out" /\ running
  BY <1>0, <1>1, <1>3, Roles DEF ThreadsOK
<1>9. pc[Worker] # "done" /\ pc'[Worker] # "done" /\ (pc'[Worker] = "save" <=> pc[Worker] = "save")
  BY <1>0, <1>3, <1>8 DEF ThreadsOK
<1>10. ThreadsOK'
  <2>1. \A u \in Caller : pc'[u] \in {"out", "flush", "asleep", "flushed"}
    BY <1>0, <1>3, Roles DEF ThreadsOK
  <2>2. pc'[Worker] \in {"loop", "asleep", "save", "notify", "done"}
    BY <1>0, <1>3 DEF ThreadsOK
  <2>3. idle' <=> pc'[Worker] # "save"
    BY <1>0, <1>1, <1>9 DEF ThreadsOK
  <2> QED
    BY <1>1, <1>8, <1>9, <2>1, <2>2, <2>3 DEF ThreadsOK
<1>11. NumbersOK'
  <2>1. Taken' = Taken /\ InHand' = InHand /\ Taken \in Int /\ Taken = enqueued - Len(queue)
    BY <1>1, <1>4, <1>6, <1>9 DEF Taken, InHand
  <2>2. \A i \in 1..Len(queue') : queue'[i].n = Taken + i
    <3> SUFFICES ASSUME NEW i \in 1..Len(queue') PROVE queue'[i].n = Taken + i
      OBVIOUS
    <3>1. CASE i = Len(queue) + 1
      BY <1>4, <1>5, <1>6, <2>1, <3>1
    <3>2. CASE i \in 1..Len(queue)
      BY <1>0, <1>6, <3>2 DEF NumbersOK
    <3> QED
      BY <1>6, <3>1, <3>2
  <2> QED
    BY <1>0, <1>1, <1>9, <2>1, <2>2 DEF NumbersOK
<1>12. SleepersOK'
  <2>1. pc'[Worker] # "asleep"
    <3> SUFFICES ASSUME pc[Worker] = "asleep" PROVE pc'[Worker] = "loop"
      BY <1>3
    <3>1. \A u \in Flusher : pc[u] # "asleep"
      BY <1>0 DEF SleepersOK, WorkerNeverOversleeps
    <3> QED
      BY <1>2, <3>1, Roles DEF Woken
  <2> QED
    BY <1>6, <2>1 DEF SleepersOK, WorkerNeverOversleeps
<1>13. FlushesOK'
  <2> SUFFICES ASSUME NEW u \in Flusher
               PROVE  (pc'[u] = "flushed" => flushed + failed >= due[u]) /\ due[u] <= enqueued + 1
    BY <1>1 DEF FlushesOK, FlushCovers
  <2>1. due[u] \in Nat /\ due[u] <= enqueued
    BY <1>0 DEF FlushesOK, TypeOK
  <2>2. pc'[u] = "flushed" => flushed + failed >= due[u]
    BY <1>0, <1>3 DEF FlushesOK, FlushCovers
  <2> QED
    BY <1>4, <2>1, <2>2
<1> QED
  BY <1>7, <1>10, <1>11, <1>12, <1>13 DEF IInv

\* flush() is called.
LEMMA CallFlushStep == ASSUME IInv, NEW t \in Flusher, CallFlush(t) PROVE IInv'
<1>0. TypeOK /\ ThreadsOK /\ NumbersOK /\ SleepersOK /\ FlushesOK
  BY DEF IInv
<1>1. /\ pc[t] = "out" /\ pc[Owner] = "out" /\ (t = Owner => \A u \in Caller : pc[u] = "out")
      /\ pc' = [pc EXCEPT ![t] = "flush"] /\ due' = [due EXCEPT ![t] = enqueued]
      /\ UNCHANGED <<queue, hand, idle, running, enqueued, flushed, failed, saved>>
  BY DEF CallFlush
<1>2. /\ pc'[Worker] = pc[Worker] /\ pc'[t] = "flush"
      /\ \A u \in Flusher : u # t => pc'[u] = pc[u]
  BY <1>0, <1>1, Roles DEF TypeOK
<1>3. due'[t] = enqueued /\ \A u \in Flusher : u # t => due'[u] = due[u]
  BY <1>0, <1>1 DEF TypeOK
<1>4. TypeOK'
  BY <1>0, <1>1, Roles DEF TypeOK, Place
<1>5. ThreadsOK'
  <2>1. \A u \in Caller : pc'[u] \in {"out", "flush", "asleep", "flushed"}
    BY <1>0, <1>2, Roles DEF ThreadsOK
  <2>2. pc'[Owner] \in {"out", "flush"} /\ (pc'[Owner] # "out" => t = Owner)
    BY <1>1, <1>2, Roles
  <2>3. pc'[Owner] # "out" => \A u \in Caller : pc'[u] = "out"
    BY <1>1, <1>2, <2>2, Roles
  <2> QED
    BY <1>0, <1>1, <1>2, <2>1, <2>2, <2>3 DEF ThreadsOK
<1>6. NumbersOK'
  BY <1>0, <1>1, <1>2 DEF NumbersOK, Taken, InHand
<1>7. SleepersOK'
  <2>1. running
    BY <1>0, <1>1 DEF ThreadsOK
  <2> QED
    BY <1>0, <1>1, <1>2, <2>1 DEF SleepersOK, WorkerNeverOversleeps
<1>8. FlushesOK'
  <2> SUFFICES ASSUME NEW u \in Flusher
               PROVE  (pc'[u] = "flushed" => flushed + failed >= due'[u]) /\ due'[u] <= enqueued
    BY <1>1 DEF FlushesOK, FlushCovers
  <2>1. CASE u = t
    BY <1>0, <1>2, <1>3, <2>1 DEF TypeOK
  <2>2. CASE u # t
    BY <1>0, <1>2, <1>3, <2>2 DEF FlushesOK, FlushCovers
  <2> QED
    BY <2>1, <2>2
<1> QED
  BY <1>4, <1>5, <1>6, <1>7, <1>8 DEF IInv

\* The predicate of flush() under mutex_.
LEMMA FlushStepHolds == ASSUME IInv, NEW t \in Flusher, Flush(t) PROVE IInv'
<1>0. TypeOK /\ ThreadsOK /\ NumbersOK /\ SleepersOK
  BY DEF IInv
<1> DEFINE place == IF queue = <<>> /\ idle THEN "flushed" ELSE "asleep"
<1>1. /\ pc[t] = "flush" /\ pc' = [pc EXCEPT ![t] = place]
      /\ UNCHANGED <<queue, hand, idle, running, enqueued, flushed, failed, saved, due>>
  BY DEF Flush
<1>2. /\ pc'[Worker] = pc[Worker] /\ pc'[t] = place
      /\ \A u \in Flusher : u # t => pc'[u] = pc[u]
  BY <1>0, <1>1, Roles DEF TypeOK
<1>3. /\ place \in {"flushed", "asleep"}
      /\ place = "flushed" => queue = <<>> /\ pc[Worker] # "save"
      /\ place = "asleep" => queue # <<>> \/ pc[Worker] = "save"
  BY <1>0 DEF ThreadsOK
<1> HIDE DEF place
<1>4. ThreadsOK'
  <2>1. \A u \in Caller : pc'[u] \in {"out", "flush", "asleep", "flushed"}
    BY <1>0, <1>2, <1>3, Roles DEF ThreadsOK
  <2>2. /\ pc'[Owner] # "out" <=> pc[Owner] # "out"
        /\ pc'[Owner] \in {"notify", "join", "gone"} <=> pc[Owner] \in {"notify", "join", "gone"}
        /\ pc'[Owner] = pc[Owner] \/ (t = Owner /\ pc'[Owner] = place)
    BY <1>1, <1>2, <1>3, Roles
  <2>3. pc'[Owner] # "out" => \A u \in Caller : pc'[u] = "out"
    BY <1>0, <1>1, <1>2, <2>2, Roles DEF ThreadsOK
  <2>4. pc'[Owner] \in {"out", "flush", "asleep", "flushed", "notify", "join", "gone"}
    BY <1>0, <1>3, <2>2 DEF ThreadsOK
  <2>5. pc'[Owner] \in {"flushed", "notify", "join", "gone"} =>
           queue = <<>> /\ pc[Worker] # "save"
    BY <1>0, <1>3, <2>2 DEF ThreadsOK
  <2> QED
    BY <1>0, <1>1, <1>2, <2>1, <2>2, <2>3, <2>4, <2>5 DEF ThreadsOK
<1>5. SleepersOK'
  <2>1. pc'[Owner] = pc[Owner] \/ running
    BY <1>0, <1>1, <1>2, Roles DEF ThreadsOK
  <2> QED
    BY <1>0, <1>1, <1>2, <1>3, <2>1, Roles DEF SleepersOK, WorkerNeverOversleeps
<1>6. place = "flushed" => flushed + failed >= due[t]
  <2> SUFFICES ASSUME place = "flushed" PROVE flushed + failed >= due[t]
    OBVIOUS
  <2>1. InHand = 0 /\ Len(queue) = 0 /\ enqueued \in Nat /\ due[t] \in Nat /\ due[t] <= enqueued
        /\ flushed \in Nat /\ failed \in Nat
    BY <1>0, <1>3 DEF InHand, TypeOK, IInv, FlushesOK
  <2>2. enqueued - 0 = flushed + failed + 0
    BY <1>0, <2>1, ZenonT(30) DEF NumbersOK, Taken
  <2> QED
    BY <2>1, <2>2
<1> QED
  <2>1. /\ t \in Thread /\ place \in Place /\ running' \in BOOLEAN
        /\ (pc[Worker] = "save") <=> (pc'[Worker] = "save")
    BY <1>0, <1>1, <1>2, <1>3, Roles DEF Place, TypeOK
  <2> QED
    BY <1>1, <1>4, <1>5, <1>6, <2>1, OneThreadMoves, ZenonT(30)

\* flush() returns.
LEMMA ReturnStep == ASSUME IInv, NEW t \in Flusher, Return(t) PROVE IInv'
<1>0. TypeOK /\ ThreadsOK /\ SleepersOK
  BY DEF IInv
<1>1. /\ t # Owner /\ pc[t] = "flushed" /\ pc' = [pc EXCEPT ![t] = "out"]
      /\ UNCHANGED <<queue, hand, idle, running, enqueued, flushed, failed, saved, due>>
  BY DEF Return
<1>2. /\ pc'[Worker] = pc[Worker] /\ pc'[Owner] = pc[Owner] /\ pc'[t] = "out"
      /\ \A u \in Flusher : u # t => pc'[u] = pc[u]
  BY <1>0, <1>1, Roles DEF TypeOK
<1>3. ThreadsOK'
  BY <1>0, <1>1, <1>2, Roles DEF ThreadsOK
<1>4. SleepersOK'
  BY <1>0, <1>1, <1>2 DEF SleepersOK, WorkerNeverOversleeps
<1> QED
  <2>1. /\ t \in Thread /\ "out" \in Place /\ running' \in BOOLEAN /\ "out" # "flushed"
        /\ (pc[Worker] = "save") <=> (pc'[Worker] = "save")
    BY <1>0, <1>1, <1>2, Roles DEF Place, TypeOK
  <2> QED
    BY <1>1, <1>3, <1>4, <2>1, OneThreadMoves, ZenonT(30)

\* The destructor clears running_.
LEMMA CloseStep == ASSUME IInv, Close PROVE IInv'
<1>0. TypeOK /\ ThreadsOK /\ SleepersOK
  BY DEF IInv
<1>1. /\ pc[Owner] = "flushed" /\ running' = FALSE /\ pc' = [pc EXCEPT ![Owner] = "notify"]
      /\ UNCHANGED <<queue, hand, idle, enqueued, flushed, failed, saved, due>>
  BY DEF Close
<1>2. /\ pc'[Worker] = pc[Worker] /\ pc'[Owner] = "notify"
      /\ \A u \in Flusher : u # Owner => pc'[u] = pc[u]
  BY <1>0, <1>1, Roles DEF TypeOK
<1>3. ThreadsOK'
  BY <1>0, <1>1, <1>2, Roles DEF ThreadsOK
<1>4. SleepersOK'
  BY <1>0, <1>1, <1>2 DEF SleepersOK, WorkerNeverOversleeps
<1> QED
  <2>1. /\ Owner \in Thread /\ "notify" \in Place /\ running' \in BOOLEAN /\ "notify" # "flushed"
        /\ (pc[Worker] = "save") <=> (pc'[Worker] = "save")
    BY <1>0, <1>1, <1>2, Roles, ZenonT(30) DEF Place, TypeOK
  <2> QED
    BY <1>1, <1>3, <1>4, <2>1, OneThreadMoves, ZenonT(30)

\* The destructor notifies the worker.
LEMMA CloseNotifyStep == ASSUME IInv, CloseNotify PROVE IInv'
<1>0. TypeOK /\ ThreadsOK /\ NumbersOK /\ SleepersOK /\ FlushesOK
  BY DEF IInv
<1>1. /\ pc[Owner] = "notify" /\ pc' = [NotifyAll(pc) EXCEPT ![Owner] = "join"]
      /\ UNCHANGED <<queue, hand, idle, running, enqueued, flushed, failed, saved, due>>
  BY DEF CloseNotify
<1>2. /\ NotifyAll(pc) \in [Thread -> Place]
      /\ \A t \in Thread : NotifyAll(pc)[t] = IF pc[t] = "asleep" THEN Woken(t) ELSE pc[t]
  BY <1>0, NotifyAllWakes DEF TypeOK
<1>3. /\ pc' \in [Thread -> Place] /\ pc'[Owner] = "join"
      /\ \A t \in Thread : t # Owner => pc'[t] = NotifyAll(pc)[t]
  BY <1>1, <1>2, Roles DEF Place
<1>4. /\ pc'[Worker] = IF pc[Worker] = "asleep" THEN "loop" ELSE pc[Worker]
      /\ \A t \in Caller : pc'[t] = "out" /\ pc[t] = "out"
  BY <1>0, <1>1, <1>2, <1>3, Roles DEF Woken, ThreadsOK
<1>5. TypeOK'
  BY <1>0, <1>1, <1>3 DEF TypeOK
<1>6. ThreadsOK'
  BY <1>0, <1>1, <1>3, <1>4 DEF ThreadsOK
<1>7. NumbersOK'
  BY <1>0, <1>1, <1>4 DEF NumbersOK, Taken, InHand
<1>8. SleepersOK'
  BY <1>3, <1>4, Roles DEF SleepersOK, WorkerNeverOversleeps
<1>9. FlushesOK'
  BY <1>0, <1>1, <1>3, <1>4, Roles DEF FlushesOK, FlushCovers
<1> QED
  BY <1>5, <1>6, <1>7, <1>8, <1>9 DEF IInv

\* The destructor joins the worker.
LEMMA JoinStep == ASSUME IInv, Join PROVE IInv'
<1>0. TypeOK /\ ThreadsOK /\ SleepersOK
  BY DEF IInv
<1>1. /\ pc[Owner] = "join" /\ pc[Worker] = "done" /\ pc' = [pc EXCEPT ![Owner] = "gone"]
      /\ UNCHANGED <<queue, hand, idle, running, enqueued, flushed, failed, saved, due>>
  BY DEF Join
<1>2. /\ pc'[Worker] = pc[Worker] /\ pc'[Owner] = "gone"
      /\ \A u \in Flusher : u # Owner => pc'[u] = pc[u]
  BY <1>0, <1>1, Roles DEF TypeOK
<1>3. ThreadsOK'
  BY <1>0, <1>1, <1>2, Roles DEF ThreadsOK
<1>4. SleepersOK'
  BY <1>0, <1>1, <1>2 DEF SleepersOK, WorkerNeverOversleeps
<1> QED
  <2>1. /\ Owner \in Thread /\ "gone" \in Place /\ running' \in BOOLEAN /\ "gone" # "flushed"
        /\ (pc[Worker] = "save") <=> (pc'[Worker] = "save")
    BY <1>0, <1>1, <1>2, Roles DEF Place, TypeOK
  <2> QED
    BY <1>1, <1>3, <1>4, <2>1, OneThreadMoves, ZenonT(30)

\* A spurious wake-up.
LEMMA SpuriousStep == ASSUME IInv, NEW t \in Thread, Spurious(t) PROVE IInv'
<1>0. TypeOK /\ ThreadsOK /\ SleepersOK
  BY DEF IInv
<1>1. /\ pc[t] = "asleep" /\ pc' = [pc EXCEPT ![t] = Woken(t)]
      /\ UNCHANGED <<queue, hand, idle, running, enqueued, flushed, failed, saved, due>>
  BY DEF Spurious
<1>2. /\ Woken(t) \in {"loop", "flush"} /\ pc'[t] = Woken(t)
      /\ \A u \in Thread : u # t => pc'[u] = pc[u]
  BY <1>0, <1>1 DEF TypeOK, Woken
<1>3. /\ pc'[Worker] = pc[Worker] \/ (pc[Worker] = "asleep" /\ pc'[Worker] = "loop")
      /\ \A u \in Flusher : pc'[u] = pc[u] \/ (pc[u] = "asleep" /\ pc'[u] = "flush")
  BY <1>1, <1>2, Roles DEF Woken
<1>4. ThreadsOK'
  <2>1. \A u \in Caller : /\ pc'[u] \in {"out", "flush", "asleep", "flushed"}
                          /\ pc[u] = "out" => pc'[u] = "out"
    BY <1>0, <1>3, Roles DEF ThreadsOK
  <2>2. /\ pc'[Owner] = pc[Owner] \/ (pc[Owner] = "asleep" /\ pc'[Owner] = "flush")
    BY <1>3, Roles
  <2> QED
    BY <1>0, <1>1, <1>3, <2>1, <2>2 DEF ThreadsOK
<1>5. SleepersOK'
  <2>1. pc'[Owner] = pc[Owner] \/ running
    BY <1>0, <1>3, Roles DEF ThreadsOK
  <2> QED
    BY <1>0, <1>1, <1>3, <2>1 DEF SleepersOK, WorkerNeverOversleeps
<1> QED
  <2>1. /\ Woken(t) \in Place /\ running' \in BOOLEAN /\ Woken(t) # "flushed"
        /\ (pc[Worker] = "save") <=> (pc'[Worker] = "save")
    BY <1>0, <1>1, <1>2, <1>3 DEF Place, TypeOK
  <2> QED
    BY <1>1, <1>4, <1>5, <2>1, OneThreadMoves, ZenonT(30)

-----------------------------------------------------------------------------
(* The theorems.                                                           *)

\* The threads, the numbers of the commands, the sleepers and the flushes fit together in
\* every state.
THEOREM Invariance == Spec => []IInv
<1>1. Init => IInv
  <2> SUFFICES ASSUME Init PROVE IInv
    OBVIOUS
  <2>1. Nothing \in [n : Nat, battle : Battle, calls : Seq(Document), ok : BOOLEAN]
    <3>1. (CHOOSE b \in Battle : TRUE) \in Battle
      BY BattleAssumption
    <3> QED
      BY <3>1 DEF Nothing
  <2>2. pc \in [Thread -> Place]
    BY DEF Init, Place
  <2>3. TypeOK
    BY <2>1, <2>2 DEF Init, TypeOK
  <2>4. pc[Worker] = "loop" /\ pc[Owner] = "out" /\ \A t \in Flusher : pc[t] = "out"
    BY Roles DEF Init
  <2>5. ThreadsOK /\ SleepersOK
    BY <2>4, Roles DEF Init, ThreadsOK, SleepersOK, WorkerNeverOversleeps
  <2>6. NumbersOK
    <3>5. Len(queue) = 0 /\ enqueued = 0 /\ flushed = 0 /\ failed = 0
      BY DEF Init
    <3>6. InHand = 0
      BY <2>4 DEF InHand
    <3>1. Len(queue) = 0 /\ Taken = 0 /\ InHand = 0 /\ flushed = 0 /\ failed = 0
      BY <3>5, <3>6 DEF Taken
    <3>2. \A b \in Battle, d \in Document : saved[b][d] = 0
      BY DEF Init
    <3>3. Taken = flushed + failed + InHand
      BY <3>1
    <3>4. /\ \A b \in Battle, d \in Document : saved[b][d] <= Taken
          /\ \A i \in 1..Len(queue) : queue[i].n = Taken + i
      BY <3>1, <3>2
    <3> QED
      BY <2>4, <3>3, <3>4, ZenonT(30) DEF NumbersOK
  <2>7. FlushesOK
    BY <2>4 DEF Init, FlushesOK, FlushCovers
  <2> QED
    BY <2>3, <2>5, <2>6, <2>7 DEF IInv
<1>2. IInv /\ [Next]_vars => IInv'
  <2> SUFFICES ASSUME IInv, [Next]_vars PROVE IInv'
    OBVIOUS
  <2>1. CASE WorkerStep
    BY <2>1, WorkerWaitStep, WorkerTakeStep, WorkerSaveStep, WorkerSettleStep,
       WorkerNotifyStep DEF WorkerStep
  <2>2. CASE \E t \in Caller, kind \in Kind, b \in Battle : Save(t, kind, b)
    BY <2>2, SaveStep
  <2>3. ASSUME NEW t \in Flusher, CallFlush(t) \/ FlushStep(t) PROVE IInv'
    BY <2>3, CallFlushStep, FlushStepHolds, ReturnStep DEF FlushStep
  <2>4. CASE OwnerStep
    BY <2>4, CloseStep, CloseNotifyStep, JoinStep DEF OwnerStep
  <2>5. CASE \E t \in Thread : Spurious(t)
    BY <2>5, SpuriousStep
  <2>6. CASE UNCHANGED vars
    BY <2>6 DEF vars, IInv, TypeOK, ThreadsOK, NumbersOK, Taken, InHand, SleepersOK,
                WorkerNeverOversleeps, FlushesOK, FlushCovers
  <2> QED
    BY <2>1, <2>2, <2>3, <2>4, <2>5, <2>6 DEF Next
<1> QED
  BY <1>1, <1>2, PTL DEF Spec

\* Every variable keeps its type.
THEOREM TypeCorrect == Spec => []TypeOK
<1>1. IInv => TypeOK
  BY DEF IInv
<1> QED
  BY <1>1, Invariance, PTL

\* stats() adds up in every state, and the destructor returns with every accepted write
\* handed to the delegate.
THEOREM NothingIsLost == Spec => []WritesAccountedFor
<1>1. IInv => WritesAccountedFor
  <2> SUFFICES ASSUME IInv PROVE WritesAccountedFor
    OBVIOUS
  <2>1. /\ enqueued \in Nat /\ flushed \in Nat /\ failed \in Nat /\ Len(queue) \in Nat
        /\ InHand \in {0, 1}
    BY DEF IInv, TypeOK, InHand
  <2>2. enqueued - Len(queue) = flushed + failed + InHand
    BY DEF IInv, NumbersOK, Taken
  <2>3. pc[Owner] = "gone" => queue = <<>> /\ pc[Worker] # "save"
    BY DEF IInv, ThreadsOK
  <2>4. pc[Owner] = "gone" => Len(queue) = 0 /\ InHand = 0
    BY <2>3 DEF InHand
  <2> QED
    BY <2>1, <2>2, <2>4 DEF WritesAccountedFor
<1> QED
  BY <1>1, Invariance, PTL

\* A flush() that returns has waited for every write accepted before it was called.
THEOREM FlushWaits == Spec => []FlushCovers
<1>1. IInv => FlushCovers
  BY DEF IInv, FlushesOK
<1> QED
  BY <1>1, Invariance, PTL

\* No notification is taken from the worker: it never sleeps on a queue that holds a
\* command, nor past the destructor's notify_all.
THEOREM WorkerIsWoken == Spec => []WorkerNeverOversleeps
<1>1. IInv => WorkerNeverOversleeps
  BY DEF IInv, SleepersOK
<1> QED
  BY <1>1, Invariance, PTL

\* The delegate sees the saves of a document in the order they were accepted.
THEOREM SavesInOrder == Spec => DocumentsNeverGoBack
<1>1. IInv /\ [Next]_vars =>
        [\A b \in Battle, d \in Document : saved'[b][d] >= saved[b][d]]_vars
  <2> SUFFICES ASSUME IInv, Next, NEW b \in Battle, NEW d \in Document
               PROVE  saved'[b][d] >= saved[b][d]
    OBVIOUS
  <2>0. /\ saved \in [Battle -> [Document -> Nat]] /\ saved[b][d] \in Nat
        /\ hand.n \in Nat /\ hand.battle \in Battle /\ hand.calls \in Seq(Document)
    BY DEF IInv, TypeOK
  <2>1. CASE WorkerSave
    <3>1. hand.n >= saved[b][d]
      BY <2>0, <2>1 DEF WorkerSave, IInv, NumbersOK
    <3>2. Head(hand.calls) \in Document
      BY <2>0, <2>1, Pop DEF WorkerSave
    <3>3. \/ saved' = saved
          \/ saved' = [saved EXCEPT ![hand.battle][Head(hand.calls)] = hand.n]
      BY <2>1 DEF WorkerSave
    <3>4. saved'[b][d] = saved[b][d] \/ saved'[b][d] = hand.n
      BY <2>0, <3>2, <3>3, ZenonT(30)
    <3> QED
      BY <2>0, <3>1, <3>4
  <2>2. CASE saved' = saved
    BY <2>0, <2>2
  <2>3. WorkerSave \/ saved' = saved
    BY ZenonT(30) DEF Next, WorkerStep, WorkerWait, WorkerLeave, WorkerTake, WorkerSettle, WorkerNotify,
       Save, CallFlush, FlushStep, Flush, Return, OwnerStep, Close, CloseNotify, Join, Spurious
  <2> QED
    BY <2>1, <2>2, <2>3
<1> QED
  BY <1>1, Invariance, PTL DEF Spec, DocumentsNeverGoBack
=============================================================================
