-------------------------- MODULE WriteBehindStore --------------------------
(***************************************************************************)
(* WriteBehindDataStore (src/src/v2/data/write_behind_store.cpp): battle   *)
(* archives are queued by any thread and handed to the delegate by one     *)
(* worker; flush() waits for the queue to empty and the worker to be idle, *)
(* and the destructor flushes, stops the worker and joins it.              *)
(*                                                                         *)
(* What a thread does under mutex_ is one action.  All threads share one   *)
(* condition variable: a thread with pc "asleep" is in its wait set,       *)
(* notify_one takes some thread out of it, notify_all every thread, and a  *)
(* thread may leave it for no reason (Spurious).  A thread that left the   *)
(* wait set evaluates its predicate again.                                 *)
(***************************************************************************)
EXTENDS Integers, Sequences, FiniteSets

CONSTANTS
    Caller,     \* threads that save and flush
    Owner,      \* the thread that destroys the store
    Worker,     \* the thread of worker_loop
    Battle,     \* battle ids
    MaxWrites   \* bound: calls of save_* and persist

ASSUME ThreadAssumption ==
    Owner \notin Caller /\ Worker \notin Caller /\ Owner # Worker
ASSUME WritesAssumption == MaxWrites \in Nat
ASSUME BattleAssumption == Battle # {}

VARIABLES
    pc,        \* where each thread is
    queue,     \* queue_, commands numbered in the order they were accepted
    hand,      \* cmd of worker_loop: the delegate calls left and their result
    idle,      \* worker_idle_
    running,   \* running_
    enqueued,  \* enqueued_count_
    flushed,   \* flushed_count_
    failed,    \* failed_count_
    saved,     \* delegate: the number of the command last saved, by document
    due        \* history: enqueued_count_ when the thread called flush

vars == <<pc, queue, hand, idle, running, enqueued, flushed, failed, saved, due>>

Thread == Caller \cup {Owner, Worker}
Flusher == Caller \cup {Owner}
Document == {"replay", "result", "snapshot"}
Kind == Document \cup {"persist"}

\* The delegate calls of a command, in order: an archive is a result and a replay.
Calls(kind) == IF kind = "persist" THEN <<"result", "replay">> ELSE <<kind>>

Woken(t) == IF t = Worker THEN "loop" ELSE "flush"
NotifyAll(at) == [t \in Thread |-> IF at[t] = "asleep" THEN Woken(t) ELSE at[t]]
\* The program counters notify_one can leave.
NotifyOne(at) ==
    LET asleep == {t \in Thread : at[t] = "asleep"}
    IN  IF asleep = {} THEN {at} ELSE {[at EXCEPT ![t] = Woken(t)] : t \in asleep}

Nothing == [n |-> 0, battle |-> CHOOSE b \in Battle : TRUE, calls |-> <<>>, ok |-> TRUE]

Init ==
    /\ pc = [t \in Thread |-> IF t = Worker THEN "loop" ELSE "out"]
    /\ queue = <<>>
    /\ hand = Nothing
    /\ idle = TRUE
    /\ running = TRUE
    /\ enqueued = 0 /\ flushed = 0 /\ failed = 0
    /\ saved = [b \in Battle |-> [d \in Document |-> 0]]
    /\ due = [t \in Flusher |-> 0]

-----------------------------------------------------------------------------
(* The worker.                                                             *)

\* The wait of worker_loop: go to sleep, leave, or take the oldest command.
WorkerWait ==
    /\ pc[Worker] = "loop"
    /\ queue = <<>> /\ running
    /\ pc' = [pc EXCEPT ![Worker] = "asleep"]
    /\ UNCHANGED <<queue, hand, idle, running, enqueued, flushed, failed, saved, due>>

WorkerLeave ==
    /\ pc[Worker] = "loop"
    /\ queue = <<>> /\ ~running
    /\ pc' = [pc EXCEPT ![Worker] = "done"]
    /\ UNCHANGED <<queue, hand, idle, running, enqueued, flushed, failed, saved, due>>

\* Mutant: the newest command is taken first.
WorkerTakeNewest ==
    /\ pc[Worker] = "loop"
    /\ queue # <<>>
    /\ idle' = FALSE
    /\ hand' = LET cmd == queue[Len(queue)]
               IN  [n |-> cmd.n, battle |-> cmd.battle, calls |-> Calls(cmd.kind), ok |-> TRUE]
    /\ queue' = SubSeq(queue, 1, Len(queue) - 1)
    /\ pc' = [pc EXCEPT ![Worker] = "save"]
    /\ UNCHANGED <<running, enqueued, flushed, failed, saved, due>>

WorkerTake ==
    /\ pc[Worker] = "loop"
    /\ queue # <<>>
    /\ idle' = FALSE
    /\ hand' = LET cmd == Head(queue)
               IN  [n |-> cmd.n, battle |-> cmd.battle, calls |-> Calls(cmd.kind), ok |-> TRUE]
    /\ queue' = Tail(queue)
    /\ pc' = [pc EXCEPT ![Worker] = "save"]
    /\ UNCHANGED <<running, enqueued, flushed, failed, saved, due>>

\* One delegate call, outside mutex_; it may fail, and the next one is made all the same.
WorkerSave ==
    /\ pc[Worker] = "save"
    /\ hand.calls # <<>>
    /\ \E ok \in BOOLEAN :
         /\ hand' = [hand EXCEPT !.calls = Tail(hand.calls), !.ok = hand.ok /\ ok]
         /\ saved' = IF ok THEN [saved EXCEPT ![hand.battle][Head(hand.calls)] = hand.n]
                     ELSE saved
    /\ UNCHANGED <<pc, queue, idle, running, enqueued, flushed, failed, due>>

\* Mutant: a write the delegate refused is not counted.
SettleUncounted ==
    /\ pc[Worker] = "save"
    /\ hand.calls = <<>>
    /\ flushed' = IF hand.ok THEN flushed + 1 ELSE flushed
    /\ idle' = TRUE
    /\ pc' = [pc EXCEPT ![Worker] = "notify"]
    /\ UNCHANGED <<queue, hand, running, enqueued, failed, saved, due>>

WorkerSettle ==
    /\ pc[Worker] = "save"
    /\ hand.calls = <<>>
    /\ flushed' = IF hand.ok THEN flushed + 1 ELSE flushed
    /\ failed' = IF hand.ok THEN failed ELSE failed + 1
    /\ idle' = TRUE
    /\ pc' = [pc EXCEPT ![Worker] = "notify"]
    /\ UNCHANGED <<queue, hand, running, enqueued, saved, due>>

\* The notify_all that ends an iteration, made without mutex_.
WorkerNotify ==
    /\ pc[Worker] = "notify"
    /\ pc' = NotifyAll([pc EXCEPT ![Worker] = "loop"])
    /\ UNCHANGED <<queue, hand, idle, running, enqueued, flushed, failed, saved, due>>

WorkerStep ==
    WorkerWait \/ WorkerLeave \/ WorkerTake \/ WorkerSave \/ WorkerSettle \/ WorkerNotify

-----------------------------------------------------------------------------
(* The threads that use the store.                                         *)

\* save_replay, save_result, save_snapshot and persist.
Save(t, kind, b) ==
    /\ pc[t] = "out" /\ pc[Owner] = "out"
    /\ enqueued < MaxWrites
    /\ queue' = Append(queue, [n |-> enqueued + 1, kind |-> kind, battle |-> b])
    /\ enqueued' = enqueued + 1
    /\ pc' \in NotifyOne(pc)
    /\ UNCHANGED <<hand, idle, running, flushed, failed, saved, due>>

\* flush() is called; the destructor calls it when no other thread uses the store.
CallFlush(t) ==
    /\ pc[t] = "out" /\ pc[Owner] = "out"
    /\ t = Owner => \A u \in Caller : pc[u] = "out"
    /\ pc' = [pc EXCEPT ![t] = "flush"]
    /\ due' = [due EXCEPT ![t] = enqueued]
    /\ UNCHANGED <<queue, hand, idle, running, enqueued, flushed, failed, saved>>

\* Mutant: flush waits for the queue only, not for the command in hand.
FlushQueueOnly(t) ==
    /\ pc[t] = "flush"
    /\ pc' = [pc EXCEPT ![t] = IF queue = <<>> THEN "flushed" ELSE "asleep"]
    /\ UNCHANGED <<queue, hand, idle, running, enqueued, flushed, failed, saved, due>>

\* The predicate of flush(), evaluated under mutex_.
Flush(t) ==
    /\ pc[t] = "flush"
    /\ pc' = [pc EXCEPT ![t] = IF queue = <<>> /\ idle THEN "flushed" ELSE "asleep"]
    /\ UNCHANGED <<queue, hand, idle, running, enqueued, flushed, failed, saved, due>>

Return(t) ==
    /\ t # Owner
    /\ pc[t] = "flushed"
    /\ pc' = [pc EXCEPT ![t] = "out"]
    /\ UNCHANGED <<queue, hand, idle, running, enqueued, flushed, failed, saved, due>>

\* Mutant: the destructor notifies and leaves running_ set.
CloseRunning ==
    /\ pc[Owner] = "flushed"
    /\ pc' = [pc EXCEPT ![Owner] = "notify"]
    /\ UNCHANGED <<queue, hand, idle, running, enqueued, flushed, failed, saved, due>>

\* The destructor clears running_ under mutex_ ...
Close ==
    /\ pc[Owner] = "flushed"
    /\ running' = FALSE
    /\ pc' = [pc EXCEPT ![Owner] = "notify"]
    /\ UNCHANGED <<queue, hand, idle, enqueued, flushed, failed, saved, due>>

\* Mutant: running_ is cleared with no notification behind it.
CloseSilently ==
    /\ pc[Owner] = "notify"
    /\ pc' = [pc EXCEPT ![Owner] = "join"]
    /\ UNCHANGED <<queue, hand, idle, running, enqueued, flushed, failed, saved, due>>

\* ... and then notifies the worker
CloseNotify ==
    /\ pc[Owner] = "notify"
    /\ pc' = [NotifyAll(pc) EXCEPT ![Owner] = "join"]
    /\ UNCHANGED <<queue, hand, idle, running, enqueued, flushed, failed, saved, due>>

\* and joins it.
Join ==
    /\ pc[Owner] = "join" /\ pc[Worker] = "done"
    /\ pc' = [pc EXCEPT ![Owner] = "gone"]
    /\ UNCHANGED <<queue, hand, idle, running, enqueued, flushed, failed, saved, due>>

FlushStep(t) == Flush(t) \/ Return(t)
OwnerStep == Close \/ CloseNotify \/ Join

\* A wake-up nobody asked for.
Spurious(t) ==
    /\ pc[t] = "asleep"
    /\ pc' = [pc EXCEPT ![t] = Woken(t)]
    /\ UNCHANGED <<queue, hand, idle, running, enqueued, flushed, failed, saved, due>>

Next ==
    \/ WorkerStep
    \/ \E t \in Caller, kind \in Kind, b \in Battle : Save(t, kind, b)
    \/ \E t \in Flusher : CallFlush(t) \/ FlushStep(t)
    \/ OwnerStep
    \/ \E t \in Thread : Spurious(t)

Spec == Init /\ [][Next]_vars

\* Every thread that can run is scheduled in the end, and a delegate call returns.
Fairness ==
    /\ WF_vars(WorkerStep)
    /\ WF_vars(OwnerStep)
    /\ \A t \in Flusher : WF_vars(FlushStep(t))

FairSpec == Spec /\ Fairness

-----------------------------------------------------------------------------
(* Properties.                                                             *)

InHand == IF pc[Worker] = "save" THEN 1 ELSE 0

Place == {"out", "flush", "asleep", "flushed", "notify", "join", "gone", "loop", "save", "done"}

\* Every variable keeps its type.
TypeOK ==
    /\ pc \in [Thread -> Place]
    /\ queue \in Seq([n : Nat, kind : Kind, battle : Battle])
    /\ hand \in [n : Nat, battle : Battle, calls : Seq(Document), ok : BOOLEAN]
    /\ idle \in BOOLEAN /\ running \in BOOLEAN
    /\ enqueued \in Nat /\ flushed \in Nat /\ failed \in Nat
    /\ saved \in [Battle -> [Document -> Nat]]
    /\ due \in [Flusher -> Nat]

\* stats() adds up: a write that was accepted is flushed, failed, queued or in hand, and
\* nothing else; the destructor leaves none behind.
WritesAccountedFor ==
    /\ enqueued = flushed + failed + Len(queue) + InHand
    /\ pc[Owner] = "gone" => enqueued = flushed + failed

\* flush() returns only when every write accepted before it was called has been handed to
\* the delegate, whoever wakes whom on the one condition variable.
FlushCovers == \A t \in Flusher : pc[t] = "flushed" => flushed + failed >= due[t]

\* The worker sleeps only while there is nothing to do: no thread can take the notification
\* of a save from it, and none of running_ is lost.
WorkerNeverOversleeps ==
    pc[Worker] = "asleep" => queue = <<>> /\ (running \/ pc[Owner] = "notify")

\* A document at the delegate is never replaced by an older save of it.
DocumentsNeverGoBack ==
    [][\A b \in Battle, d \in Document : saved'[b][d] >= saved[b][d]]_vars

\* Every blocking call returns: flush() once the writes stop, and the destructor, whose
\* worker sees running_ cleared.
CallsReturn ==
    /\ \A t \in Caller : pc[t] = "flush" ~> pc[t] = "out"
    /\ pc[Owner] = "flush" ~> pc[Owner] = "gone"
=============================================================================
