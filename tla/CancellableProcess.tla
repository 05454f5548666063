------------------------- MODULE CancellableProcess -------------------------
(***************************************************************************)
(* scripts/lib/cancellable_process.py: how a gate runs one child process,   *)
(* and how SIGTERM travels down a chain of gates.                           *)
(*                                                                         *)
(* A supervisor starts its child in a session of its own and looks at it,   *)
(* and at its own cancellation flag, every Poll.  A cancelled or expired    *)
(* wait sends SIGTERM to the child's group, waits for a grace, sends        *)
(* SIGKILL and waits Hard more.  A supervisor that is itself the child of   *)
(* another one turns SIGTERM into its cancellation flag, so a signal to     *)
(* the outermost gate is a race of nested graces against one another.       *)
(*                                                                         *)
(* Time is counted in polls, and only where it decides something: a Tick    *)
(* passes when every live supervisor is waiting and none is overdue.        *)
(***************************************************************************)
EXTENDS Integers, FiniteSets

CONSTANTS Poll, Hard, CancelGrace, TimeoutGrace, None,
          MaxStuck    \* processes that survive SIGKILL, in an uninterruptible wait

Supervisor == {"orch", "gate", "soak"}
Leaf == {"tool", "arch"}
Proc == Supervisor \union Leaf \union {"base"}

(* A signalled supervisor outlives the poll its own child needs to see the  *)
(* signal, and the outermost grace covers a whole inner escalation.         *)
ASSUME GraceAssumption ==
  /\ Poll \in Nat \ {0} /\ Hard \in Nat \ {0} /\ MaxStuck \in Nat
  /\ CancelGrace \in [Supervisor -> Nat] /\ TimeoutGrace \in [Supervisor -> Nat]
  /\ \A p \in Supervisor : TimeoutGrace[p] > Poll /\ CancelGrace[p] > Poll

VARIABLES proc,    \* per process: alive, signalled, cancellation flag, handlers, exit code
          sup,     \* per supervisor: the wait it is in
          stuck    \* processes that SIGKILL has not ended

processVars == <<proc, sup, stuck>>

Code == {"zero", "two", "other"}
Dead(c) == [up |-> FALSE, told |-> FALSE, want |-> FALSE, hand |-> FALSE, code |-> c]
Born == [Dead("zero") EXCEPT !.up = TRUE]
NoWait == [kid |-> None, mode |-> "none", why |-> "", left |-> 0, late |-> 0]
Watch(c) == [NoWait EXCEPT !.kid = c, !.mode = "watch"]

ProcessInit ==
  /\ proc = [p \in Proc |-> Dead("zero")]
  /\ sup = [p \in Supervisor |-> NoWait]
  /\ stuck = {}

Up(p) == proc[p].up
Cancelled(p) == proc[p].want
Waiting(p) == sup[p].mode # "none"
Computing(p) == Up(p) /\ ~Waiting(p)

(* SIGTERM to process c: the handler keeps it as a request; without one the *)
(* interpreter ends at once, and any other program ends when it gets to it. *)
Termed(r, c) ==
  CASE ~r.up -> r
    [] r.hand -> [r EXCEPT !.want = TRUE, !.told = TRUE]
    [] c \in Leaf -> [r EXCEPT !.told = TRUE]
    [] OTHER -> Dead("other")

(* A wait belongs to a live process.                                        *)
Waits(ps) == [p \in Supervisor |-> IF ps[p].up THEN sup[p] ELSE NoWait]

(* Mutant: SIGKILL follows at once.                                         *)
TerminateAtOnce(p, why, grace) ==
  LET ps == [proc EXCEPT ![sup[p].kid] = Termed(@, sup[p].kid)]
  IN  /\ proc' = ps
      /\ sup' = [Waits(ps) EXCEPT ![p] = [@ EXCEPT !.mode = "term", !.why = why, !.left = 0, !.late = 0]]
      /\ UNCHANGED stuck

(* terminate_process_group, its first half: SIGTERM and the grace.          *)
Terminate(p, why, grace) ==
  LET ps == [proc EXCEPT ![sup[p].kid] = Termed(@, sup[p].kid)]
  IN  /\ proc' = ps
      /\ sup' = [Waits(ps) EXCEPT ![p] = [@ EXCEPT !.mode = "term", !.why = why, !.left = grace, !.late = 0]]
      /\ UNCHANGED stuck

(* run_cancellable_process: the flag is looked at first, then the deadline. *)
NoticeCancel(p) ==
  /\ Up(p) /\ sup[p].mode = "watch" /\ Cancelled(p)
  /\ Terminate(p, "cancelled", CancelGrace[p])

Expire(p) ==
  /\ Up(p) /\ sup[p].mode = "watch" /\ ~Cancelled(p) /\ Up(sup[p].kid)
  /\ Terminate(p, "timeout", TimeoutGrace[p])

(* ... its second half: SIGKILL to a group whose leader outlived the grace. *)
Escalate(p) ==
  /\ Up(p) /\ sup[p].mode = "term" /\ sup[p].left = 0 /\ Up(sup[p].kid)
  /\ LET c == sup[p].kid IN
       \/ /\ proc' = [proc EXCEPT ![c] = Dead("other")]
          /\ sup' = [Waits(proc') EXCEPT ![p] = [sup[p] EXCEPT !.mode = "hard", !.left = Hard]]
          /\ UNCHANGED stuck
       \/ /\ c \in Leaf \ stuck /\ Cardinality(stuck) < MaxStuck
          /\ stuck' = stuck \union {c}
          /\ sup' = [sup EXCEPT ![p] = [@ EXCEPT !.mode = "hard", !.left = Hard]]
          /\ UNCHANGED proc

(* The wait returns: the child ended, or it outlived SIGKILL as well and is *)
(* given up.                                                                *)
Returned(p) ==
  /\ Up(p) /\ Waiting(p)
  /\ \/ ~Up(sup[p].kid)
     \/ sup[p].mode = "hard" /\ sup[p].left = 0

Outcome(p) ==
  CASE sup[p].mode # "watch" -> sup[p].why
    [] proc[sup[p].kid].code = "zero" -> "passed"
    [] OTHER -> "failed"

ExitCode(p) == proc[sup[p].kid].code

(* A process ends by itself.  One that SIGTERM reached never reports        *)
(* success afterwards; a stuck one may come back later.                     *)
LeafExits(c) ==
  /\ c \in Leaf /\ Up(c)
  /\ \E code \in Code :
       /\ code # "two" /\ (proc[c].told => code = "other")
       /\ proc' = [proc EXCEPT ![c] = Dead(code)]
  /\ stuck' = stuck \ {c}
  /\ UNCHANGED sup

(* Time passes while every live supervisor waits and none is late.          *)
Due(p) == \/ Returned(p)
          \/ sup[p].mode = "term" /\ sup[p].left = 0
          \/ sup[p].mode = "watch" /\ Cancelled(p) /\ sup[p].late = Poll

Timed(p) == Up(p) /\ \/ sup[p].mode \in {"term", "hard"}
                     \/ sup[p].mode = "watch" /\ Cancelled(p)

Tick ==
  /\ \A p \in Supervisor : ~Computing(p) /\ ~(Up(p) /\ Due(p))
  /\ \E p \in Supervisor : Timed(p)
  /\ sup' = [p \in Supervisor |->
               CASE ~Timed(p) -> sup[p]
                 [] sup[p].mode = "watch" -> [sup[p] EXCEPT !.late = @ + 1]
                 [] OTHER -> [sup[p] EXCEPT !.left = @ - 1]]
  /\ UNCHANGED <<proc, stuck>>

(* Popen in a session of its own; the exit of a supervisor.                 *)
Popen(p, c) == proc' = [proc EXCEPT ![c] = Born] /\ sup' = [sup EXCEPT ![p] = Watch(c)]
Exit(p, code) == proc' = [proc EXCEPT ![p] = Dead(code)] /\ sup' = [sup EXCEPT ![p] = NoWait]
Resume(p) == sup' = [sup EXCEPT ![p] = NoWait]
=============================================================================
