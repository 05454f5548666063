------------------------- MODULE RaftLogInvariant -------------------------
(***************************************************************************)
(* The inductive invariant of the logs: why no two of them hold different  *)
(* entries before a common one.  A piece of a log is what follows a        *)
(* previous entry: a node's log and its state file follow the entry 0, a   *)
(* request carries a piece.                                                *)
(***************************************************************************)
EXTENDS RaftInvariant

Piece(prev, term, entries) == [prev |-> prev, term |-> term, entries |-> entries]
Whole(log) == Piece(0, 0, log)
Carried(r) == Piece(r.prevLogIndex, r.prevLogTerm, r.entries)

\* The indexes a piece holds entries for, and the entry at one of them.
Places(x) == x.prev + 1 .. x.prev + Len(x.entries)
EntryAt(x, k) == x.entries[k - x.prev]

\* Two pieces that hold an entry of the same term at the same index agree up to there,
\* and on the term of the entry before.
Agree(x, y) ==
    \A k \in Places(x) \cap Places(y) : EntryAt(x, k).term = EntryAt(y, k).term =>
        /\ \A m \in Places(x) \cap Places(y) : m <= k => EntryAt(x, m) = EntryAt(y, m)
        /\ x.prev \in Places(y) => EntryAt(y, x.prev).term = x.term
        /\ y.prev \in Places(x) => EntryAt(x, y.prev).term = y.term
        /\ x.prev = y.prev /\ x.prev > 0 => x.term = y.term

\* The AppendEntries requests that can still be executed.
InFlight ==
    {r \in late : r.kind = "append"} \cup
    UNION {{call[i][th].req : th \in {t \in Thread : call[i][t].at = "sent" /\
                                                    call[i][t].req.kind = "append"}}
               : i \in Server}

Pieces ==
    {Whole(node[i].log) : i \in Server} \cup {Whole(node[i].disk.log) : i \in Server}
        \cup {Carried(r) : r \in InFlight}

\* All pieces agree; whoever wrote an entry was elected in its term; and a leader has
\* an entry wherever a piece has one of the leader's term, so the next entry it
\* appends is unlike all others.
LogsOK ==
    /\ \A x, y \in Pieces : Agree(x, y)
    /\ \A x \in Pieces : \A k \in Places(x) :
          \E c \in Server : <<EntryAt(x, k).term, c>> \in elected
    /\ \A i \in Server : node[i].state = "leader" =>
          \A x \in Pieces : \A k \in Places(x) :
              EntryAt(x, k).term = node[i].currentTerm => k <= Len(node[i].log)

\* A cluster of one leads again in its old term after a restart, and has nobody to
\* disagree with.
LogInv == (\A i \in Server : Server # {i}) => LogsOK
=============================================================================
