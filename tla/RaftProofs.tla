----------------------------- MODULE RaftProofs -----------------------------
(***************************************************************************)
(* The invariant of logs: every step keeps LogInv, and with it the logs    *)
(* match.  The theorems about Raft are at the end.                         *)
(***************************************************************************)
EXTENDS RaftVoteProofs, RaftLogInvariant, FiniteSetTheorems

\* Zenon is tried before the SMT solver, which is given more time than by default.
USE ZenonT(5), SMTT(30)

(***************************************************************************)
(* Pieces of logs.                                                         *)
(***************************************************************************)
IsPiece(x) == x.prev \in Nat /\ x.entries \in Seq(Entries)

\* z holds some of the entries of x, and the term of the entry before them.
PartOf(z, x) ==
    \A k \in Places(z) :
        /\ k \in Places(x) /\ EntryAt(z, k) = EntryAt(x, k) /\ x.prev <= z.prev
        /\ z.prev = x.prev => z.term = x.term
        /\ z.prev \in Places(x) => z.term = EntryAt(x, z.prev).term

\* The fields of the pieces.
LEMMA PieceFields ==
    /\ \A p, t, e : Piece(p, t, e).prev = p /\ Piece(p, t, e).term = t /\ Piece(p, t, e).entries = e
    /\ \A log \in Seq(Entries) :
          /\ IsPiece(Whole(log)) /\ Whole(log).prev = 0
          /\ Places(Whole(log)) = 1..Len(log)
          /\ \A k \in 1..Len(log) : EntryAt(Whole(log), k) = log[k]
<1>1. \A p, t, e : Piece(p, t, e).prev = p /\ Piece(p, t, e).term = t /\ Piece(p, t, e).entries = e
  BY DEF Piece
<1>2. ASSUME NEW log \in Seq(Entries)
      PROVE  /\ IsPiece(Whole(log)) /\ Whole(log).prev = 0
             /\ Places(Whole(log)) = 1..Len(log)
             /\ \A k \in 1..Len(log) : EntryAt(Whole(log), k) = log[k]
  BY <1>1, LenProperties DEF Whole, IsPiece, Places, EntryAt
<1> QED BY <1>1, <1>2

\* A piece agrees with itself, and agreement is mutual.
LEMMA AgreeSelf ==
    ASSUME NEW x, IsPiece(x)
    PROVE  Agree(x, x)
<1>1. x.prev \notin Places(x)
  BY LenProperties DEF IsPiece, Places
<1> QED BY <1>1 DEF Agree

\* Agreement is mutual.
LEMMA AgreeSwap ==
    ASSUME NEW x, NEW y, Agree(x, y)
    PROVE  Agree(y, x)
BY DEF Agree

\* A part of a piece agrees with what the piece agrees with.
LEMMA PartAgrees ==
    ASSUME NEW x, NEW y, NEW z, IsPiece(x), IsPiece(y), IsPiece(z), Agree(x, y), PartOf(z, x)
    PROVE  Agree(z, y)
<1> SUFFICES ASSUME NEW k \in Places(z) \cap Places(y), EntryAt(z, k).term = EntryAt(y, k).term
             PROVE  /\ \A m \in Places(z) \cap Places(y) : m <= k => EntryAt(z, m) = EntryAt(y, m)
                    /\ z.prev \in Places(y) => EntryAt(y, z.prev).term = z.term
                    /\ y.prev \in Places(z) => EntryAt(z, y.prev).term = y.term
                    /\ z.prev = y.prev /\ z.prev > 0 => z.term = y.term
  BY DEF Agree
<1>1. /\ k \in Places(x) /\ EntryAt(z, k) = EntryAt(x, k) /\ x.prev <= z.prev
      /\ z.prev = x.prev => z.term = x.term
      /\ z.prev \in Places(x) => z.term = EntryAt(x, z.prev).term
  BY DEF PartOf
<1>2. \A m \in Places(z) : m \in Places(x) /\ EntryAt(z, m) = EntryAt(x, m)
  BY DEF PartOf
<1>3. /\ \A m \in Places(x) \cap Places(y) : m <= k => EntryAt(x, m) = EntryAt(y, m)
      /\ x.prev \in Places(y) => EntryAt(y, x.prev).term = x.term
      /\ y.prev \in Places(x) => EntryAt(x, y.prev).term = y.term
      /\ x.prev = y.prev /\ x.prev > 0 => x.term = y.term
  BY <1>1 DEF Agree
<1>4. /\ x.prev \in Nat /\ y.prev \in Nat /\ z.prev \in Nat
      /\ Len(x.entries) \in Nat /\ Len(y.entries) \in Nat /\ Len(z.entries) \in Nat
  BY LenProperties DEF IsPiece
<1>5. k \in Int /\ z.prev < k /\ y.prev < k /\ k <= x.prev + Len(x.entries)
  BY <1>1, <1>4 DEF Places
<1>6. \A m \in Places(z) \cap Places(y) : m <= k => EntryAt(z, m) = EntryAt(y, m)
  BY <1>2, <1>3
<1>7. y.prev \in Places(z) => EntryAt(z, y.prev).term = y.term
  BY <1>2, <1>3
<1>8. z.prev = x.prev \/ z.prev \in Places(x)
  BY <1>1, <1>4, <1>5 DEF Places
<1>9. z.prev \in Places(y) => EntryAt(y, z.prev).term = z.term
  BY <1>1, <1>3, <1>4, <1>5, <1>8
<1>10. z.prev = y.prev /\ z.prev > 0 => z.term = y.term
  BY <1>1, <1>3, <1>8
<1> QED BY <1>6, <1>7, <1>9, <1>10

\* What handle_append_entries leaves of an accepted request: its log up to the previous
\* entry, and the entries of the request.
Merged(z, x, a) ==
    /\ z.prev = 0 /\ x.prev = 0 /\ a.prev <= Len(x.entries)
    /\ a.prev > 0 => EntryAt(x, a.prev).term = a.term
    /\ Places(z) = 1..(a.prev + Len(a.entries))
    /\ \A k \in Places(z) : EntryAt(z, k) = IF k <= a.prev THEN EntryAt(x, k) ELSE EntryAt(a, k)

\* What agrees with both sources of a merge agrees with the result: the check of the
\* previous entry ties the two together.
LEMMA MergedAgrees ==
    ASSUME NEW x, NEW y, NEW z, NEW a, IsPiece(x), IsPiece(y), IsPiece(z), IsPiece(a),
           Agree(x, y), Agree(a, y), Merged(z, x, a)
    PROVE  Agree(z, y)
<1> SUFFICES ASSUME NEW k \in Places(z) \cap Places(y), EntryAt(z, k).term = EntryAt(y, k).term
             PROVE  /\ \A m \in Places(z) \cap Places(y) : m <= k => EntryAt(z, m) = EntryAt(y, m)
                    /\ z.prev \in Places(y) => EntryAt(y, z.prev).term = z.term
                    /\ y.prev \in Places(z) => EntryAt(z, y.prev).term = y.term
                    /\ z.prev = y.prev /\ z.prev > 0 => z.term = y.term
  BY DEF Agree
<1>1. /\ a.prev \in Nat /\ y.prev \in Nat /\ z.prev = 0 /\ x.prev = 0
      /\ Len(x.entries) \in Nat /\ Len(y.entries) \in Nat /\ Len(a.entries) \in Nat
      /\ a.prev <= Len(x.entries)
  BY LenProperties DEF IsPiece, Merged
<1>2. /\ Places(x) = 1..Len(x.entries)
      /\ Places(a) = (a.prev + 1)..(a.prev + Len(a.entries))
      /\ Places(y) = (y.prev + 1)..(y.prev + Len(y.entries))
      /\ Places(z) = 1..(a.prev + Len(a.entries))
  BY <1>1 DEF Places, Merged
<1>3. \A m \in Places(z) : EntryAt(z, m) = IF m <= a.prev THEN EntryAt(x, m) ELSE EntryAt(a, m)
  BY DEF Merged
<1>4. z.prev \notin Places(y)
  BY <1>1, <1>2
<1>5. ASSUME NEW b \in Places(x) \cap Places(y), EntryAt(x, b).term = EntryAt(y, b).term
      PROVE  /\ \A m \in Places(x) \cap Places(y) : m <= b => EntryAt(x, m) = EntryAt(y, m)
             /\ y.prev \in Places(x) => EntryAt(x, y.prev).term = y.term
  BY <1>5 DEF Agree
<1>6. CASE k <= a.prev
  <2>1. k \in Places(x) \cap Places(y) /\ EntryAt(x, k).term = EntryAt(y, k).term
    BY <1>1, <1>2, <1>3, <1>6
  <2>2. /\ \A m \in Places(x) \cap Places(y) : m <= k => EntryAt(x, m) = EntryAt(y, m)
        /\ y.prev \in Places(x) => EntryAt(x, y.prev).term = y.term
    BY <1>5, <2>1
  <2>3. \A m \in Places(z) : m <= k => m \in Places(x) /\ EntryAt(z, m) = EntryAt(x, m)
    BY <1>1, <1>2, <1>3, <1>6
  <2>4. y.prev \in Places(z) => y.prev <= k
    BY <1>1, <1>2
  <2> QED BY <1>1, <1>4, <2>2, <2>3, <2>4
<1>7. CASE ~(k <= a.prev)
  <2>1. k \in Places(a) \cap Places(y) /\ EntryAt(a, k).term = EntryAt(y, k).term
    BY <1>1, <1>2, <1>3, <1>7
  <2>2. /\ \A m \in Places(a) \cap Places(y) : m <= k => EntryAt(a, m) = EntryAt(y, m)
        /\ a.prev \in Places(y) => EntryAt(y, a.prev).term = a.term
        /\ y.prev \in Places(a) => EntryAt(a, y.prev).term = y.term
        /\ a.prev = y.prev /\ a.prev > 0 => a.term = y.term
    BY <2>1 DEF Agree
  <2>3. a.prev > 0 => EntryAt(x, a.prev).term = a.term
    BY DEF Merged
  <2>4. CASE a.prev \in Places(y)
    <3>1. a.prev \in Places(x) \cap Places(y) /\ EntryAt(x, a.prev).term = EntryAt(y, a.prev).term
      BY <1>1, <1>2, <2>2, <2>3, <2>4
    <3>2. /\ \A m \in Places(x) \cap Places(y) : m <= a.prev => EntryAt(x, m) = EntryAt(y, m)
          /\ y.prev \in Places(x) => EntryAt(x, y.prev).term = y.term
      BY <1>5, <3>1
    <3>3. ASSUME NEW m \in Places(z) \cap Places(y), m <= k PROVE EntryAt(z, m) = EntryAt(y, m)
      <4>1. CASE m <= a.prev
        BY <1>1, <1>2, <1>3, <3>2, <4>1
      <4>2. CASE ~(m <= a.prev)
        BY <1>1, <1>2, <1>3, <2>2, <3>3, <4>2
      <4> QED BY <4>1, <4>2
    <3>4. y.prev \in Places(z) => EntryAt(z, y.prev).term = y.term
      BY <1>1, <1>2, <1>3, <2>4, <3>2
    <3> QED BY <1>1, <1>4, <3>3, <3>4
  <2>5. CASE a.prev \notin Places(y)
    <3>1. a.prev <= y.prev
      BY <1>1, <1>2, <1>7, <2>5
    <3>2. ASSUME NEW m \in Places(z) \cap Places(y), m <= k PROVE EntryAt(z, m) = EntryAt(y, m)
      BY <1>1, <1>2, <1>3, <2>2, <3>1, <3>2
    <3>3. ASSUME y.prev \in Places(z) PROVE EntryAt(z, y.prev).term = y.term
      <4>1. CASE y.prev = a.prev
        BY <1>1, <1>2, <1>3, <2>2, <2>3, <3>3, <4>1
      <4>2. CASE y.prev # a.prev
        BY <1>1, <1>2, <1>3, <2>2, <3>1, <3>3, <4>2
      <4> QED BY <4>1, <4>2
    <3> QED BY <1>1, <1>4, <3>2, <3>3
  <2> QED BY <2>4, <2>5
<1> QED BY <1>6, <1>7

\* append_command: one entry more, and nobody else has one of its term there.
Longer(z, x) ==
    /\ z.prev = 0 /\ x.prev = 0 /\ Places(z) = 1..(Len(x.entries) + 1)
    /\ \A k \in Places(x) : EntryAt(z, k) = EntryAt(x, k)

\* A log with one more entry agrees with what agreed with it, unless an entry of the
\* same term is there already.
LEMMA LongerAgrees ==
    ASSUME NEW x, NEW y, NEW z, IsPiece(x), IsPiece(y), IsPiece(z), Agree(x, y), Longer(z, x),
           LET k == Len(x.entries) + 1
           IN  k \in Places(y) => EntryAt(y, k).term # EntryAt(z, k).term
    PROVE  Agree(z, y)
<1> SUFFICES ASSUME NEW k \in Places(z) \cap Places(y), EntryAt(z, k).term = EntryAt(y, k).term
             PROVE  /\ \A m \in Places(z) \cap Places(y) : m <= k => EntryAt(z, m) = EntryAt(y, m)
                    /\ z.prev \in Places(y) => EntryAt(y, z.prev).term = z.term
                    /\ y.prev \in Places(z) => EntryAt(z, y.prev).term = y.term
                    /\ z.prev = y.prev /\ z.prev > 0 => z.term = y.term
  BY DEF Agree
<1>1. /\ y.prev \in Nat /\ Len(x.entries) \in Nat /\ Len(y.entries) \in Nat
      /\ z.prev = 0 /\ Places(x) = 1..Len(x.entries) /\ Places(z) = 1..(Len(x.entries) + 1)
      /\ Places(y) = (y.prev + 1)..(y.prev + Len(y.entries))
  BY LenProperties DEF IsPiece, Longer, Places
<1>2. k \in Places(x)
  BY <1>1
<1>3. \A m \in Places(z) : m <= k => m \in Places(x) /\ EntryAt(z, m) = EntryAt(x, m)
  BY <1>1, <1>2 DEF Longer
<1>4. EntryAt(x, k).term = EntryAt(y, k).term
  BY <1>1, <1>2, <1>3
<1>5. /\ \A m \in Places(x) \cap Places(y) : m <= k => EntryAt(x, m) = EntryAt(y, m)
      /\ y.prev \in Places(x) => EntryAt(x, y.prev).term = y.term
  BY <1>2, <1>4 DEF Agree
<1>6. y.prev \in Places(z) => y.prev <= k
  BY <1>1
<1>7. z.prev \notin Places(y)
  BY <1>1
<1> QED BY <1>1, <1>3, <1>5, <1>6, <1>7

----------------------------------------------------------------------------
(***************************************************************************)
(* What the functions of RaftNode do to the log and to the state file's.   *)
(***************************************************************************)
\* The log stays, the state file keeps its log or gets the node's, and nobody becomes
\* a leader or leads in another term.
KeepsLog(n, m) ==
    /\ m.log = n.log /\ m.disk.log \in {n.log, n.disk.log}
    /\ m.state = "leader" => n.state = "leader" /\ m.currentTerm = n.currentTerm

\* Two functions in a row that keep the log keep it.
LEMMA KeepsLogTransitive ==
    ASSUME NEW n, NEW m, NEW r, KeepsLog(n, m), KeepsLog(m, r)
    PROVE  KeepsLog(n, r)
BY DEF KeepsLog

\* A change of the node outside its log, its state and its file.
LEMMA SameRoleKeepsLog ==
    ASSUME NEW n, NEW m, SameRole(n, m), m.log = n.log
    PROVE  KeepsLog(n, m)
BY DEF KeepsLog, SameRole

\* mark_unhealthy_locked keeps the log.
LEMMA MarkKeepsLog ==
    ASSUME NEW n \in Nodes
    PROVE  KeepsLog(n, MarkUnhealthy(n))
BY MarkUnhealthyEffect DEF KeepsLog

\* persist_state_locked keeps the log, and elects nobody.
LEMMA PersistKeepsLog ==
    ASSUME NEW n \in Nodes, NEW ok \in BOOLEAN
    PROVE  KeepsLog(n, Persist(n, ok)) /\ Persist(n, ok).state \in {n.state, "follower"}
<1> DEFINE m == Persist(n, ok)
<1>1. /\ m \in Nodes /\ m.log = n.log /\ m.currentTerm = n.currentTerm
      /\ m.healthy => m = [n EXCEPT !.disk = Image(n)] /\ m.disk = Image(m)
      /\ ~m.healthy => m = MarkUnhealthy(n) /\ m.disk = n.disk
  BY PersistEffect
<1> HIDE DEF m
<1>2. CASE m.healthy
  <2>1. m.state = n.state
    BY <1>1, <1>2, ZenonT(30) DEF Nodes
  <2>2. m.disk.log = m.log
    BY <1>1, <1>2 DEF Image
  <2> QED BY <1>1, <2>1, <2>2 DEF KeepsLog, m
<1>3. CASE ~m.healthy
  <2>1. m.state \in {n.state, "follower"}
    BY <1>1, <1>3, MarkUnhealthyEffect
  <2> QED BY <1>1, <1>3, <2>1, MarkKeepsLog DEF m
<1> QED BY <1>2, <1>3

\* become_follower_locked keeps the log.
LEMMA BecomeFollowerKeepsLog ==
    ASSUME NEW n \in Nodes, NEW term \in Nat, NEW ok \in BOOLEAN
    PROVE  /\ KeepsLog(n, BecomeFollower(n, term, ok))
           /\ BecomeFollower(n, term, ok).state = "follower"
<1> DEFINE r == [n EXCEPT !.state = "follower", !.currentTerm = term, !.votedFor = NoNode,
                      !.votes = {}, !.nextIndex = NoIndexes, !.matchIndex = NoIndexes,
                      !.leaderId = NoNode]
<1>1. r \in Nodes /\ r.log = n.log /\ r.disk = n.disk /\ r.state = "follower"
  BY ZenonT(30) DEF Nodes, MaybeNode, NoIndexes
<1>2. BecomeFollower(n, term, ok) = Persist(r, ok)
  BY DEF BecomeFollower
<1> HIDE DEF r
<1>3. KeepsLog(r, Persist(r, ok)) /\ Persist(r, ok).state = "follower"
  BY <1>1, PersistKeepsLog
<1> QED BY <1>1, <1>2, <1>3 DEF KeepsLog

\* The delivery of committed entries keeps the log.
LEMMA DeliverKeepsLog ==
    ASSUME NEW n \in Nodes, Sound(n), NEW io \in IoType
    PROVE  KeepsLog(n, Deliver(n, io))
BY DeliverEffect DEF KeepsLog, SameTerm, Sound

\* handle_request_vote keeps the log.
LEMMA RequestVoteKeepsLog ==
    ASSUME NEW n \in Nodes, NEW a \in VoteRequests, NEW io \in IoType
    PROVE  KeepsLog(n, HandleRequestVote(n, a, io).node)
<1> DEFINE m == IF a.term > n.currentTerm THEN BecomeFollower(n, a.term, io.save1) ELSE n
           r == [m EXCEPT !.votedFor = a.src]
           v == Persist(r, io.save2)
           h == HandleRequestVote(n, a, io)
<1>1. a.term \in Nat /\ a.src \in Server /\ io.save1 \in BOOLEAN /\ io.save2 \in BOOLEAN
  BY DEF VoteRequests, IoType
<1>2. KeepsLog(n, n)
  BY DEF KeepsLog
<1>3. KeepsLog(n, m)
  BY <1>1, <1>2, BecomeFollowerKeepsLog
<1>4. m \in Nodes
  <2>1. a.term > n.currentTerm => m = BecomeFollower(n, a.term, io.save1)
    OBVIOUS
  <2>2. BecomeFollower(n, a.term, io.save1) \in Nodes
    <3> DEFINE q == [n EXCEPT !.state = "follower", !.currentTerm = a.term, !.votedFor = NoNode,
                      !.votes = {}, !.nextIndex = NoIndexes, !.matchIndex = NoIndexes,
                      !.leaderId = NoNode]
    <3>1. q \in Nodes
      BY <1>1, ZenonT(30) DEF Nodes, MaybeNode, NoIndexes
    <3>2. BecomeFollower(n, a.term, io.save1) = Persist(q, io.save1)
      BY DEF BecomeFollower
    <3> HIDE DEF q
    <3> QED BY <1>1, <3>1, <3>2, PersistEffect
  <2> QED BY <2>2
<1>5. h.node \in {n, m, v}
  BY ZenonT(30) DEF HandleRequestVote, Answer
<1> HIDE DEF m
<1>6. r \in Nodes /\ KeepsLog(m, r)
  <2>1. r \in Nodes /\ r.log = m.log /\ r.disk = m.disk /\ r.state = m.state
        /\ r.currentTerm = m.currentTerm
    BY <1>1, <1>4, ZenonT(30) DEF Nodes, MaybeNode
  <2> QED BY <2>1 DEF KeepsLog
<1> HIDE DEF r
<1>7. KeepsLog(r, v)
  BY <1>1, <1>6, PersistKeepsLog
<1>8. KeepsLog(n, v)
  BY <1>3, <1>6, <1>7, KeepsLogTransitive, ZenonT(30)
<1> HIDE DEF v, h
<1> QED BY <1>2, <1>3, <1>5, <1>8 DEF h

\* handle_append_entries keeps the log, cuts it before the previous entry, or makes it
\* what follows the previous entry; a leader that stays one was sent its own term.
LEMMA AppendEntriesLog ==
    ASSUME NEW n \in Nodes, Sound(n), NEW a \in AppendRequests, NEW io \in IoType
    PROVE  LET m == HandleAppendEntries(n, a, io).node
               prev == a.prevLogIndex
           IN  \/ KeepsLog(n, m)
               \/ /\ prev <= Len(n.log) /\ m.disk.log \in {n.log, n.disk.log, m.log}
                  /\ m.state = "leader" => n.state = "leader" /\ a.term = n.currentTerm
                  /\ \/ prev > 0 /\ m.log = SubSeq(n.log, 1, prev - 1)
                     \/ /\ prev > 0 => n.log[prev].term = a.prevLogTerm
                        /\ m.log = SubSeq(n.log, 1, prev) \o a.entries
<1> DEFINE h == HandleAppendEntries(n, a, io)
           m == IF StepsDown(n, a) THEN BecomeFollower(n, a.term, io.save1) ELSE n
           l == [m EXCEPT !.leaderId = a.src]
           prev == a.prevLogIndex
           c == CutBefore(l, prev)
           cut == Persist(c, io.save2)
           log == MergeEntries(l.log, prev, a.entries)
           accepted == AcceptEntries(l, a, io)
<1>1. a.term \in Nat /\ a.src \in Server /\ io.save1 \in BOOLEAN /\ io.save2 \in BOOLEAN
      /\ n.currentTerm \in Nat /\ prev \in Nat /\ Len(n.log) \in Nat
  BY LenProperties DEF AppendRequests, IoType, Nodes
<1>2. KeepsLog(n, n)
  BY DEF KeepsLog
<1>3. CASE RefuseAppend(n, a)
  <2>1. h.node = n
    BY <1>3 DEF HandleAppendEntries, Answer
  <2> QED BY <1>2, <2>1
<1>4. CASE ~RefuseAppend(n, a)
  <2>1. n.healthy /\ a.term >= n.currentTerm
    BY <1>1, <1>4 DEF RefuseAppend
  <2>2. /\ m \in Nodes /\ Sound(m) /\ KeepsLog(n, m)
        /\ m.state = "leader" => n.state = "leader" /\ a.term = n.currentTerm
    <3>1. CASE StepsDown(n, a)
      BY <1>1, <2>1, <3>1, BecomeFollowerKeepsLog, BecomeFollowerEffect
    <3>2. CASE ~StepsDown(n, a)
      BY <1>1, <1>2, <2>1, <3>2 DEF StepsDown
    <3> QED BY <3>1, <3>2
  <2>3. CASE ~m.healthy
    <3>1. h.node = m
      BY <1>4, <2>3, ZenonT(30) DEF HandleAppendEntries, Answer
    <3> HIDE DEF m
    <3> QED BY <2>2, <3>1
  <2>4. CASE m.healthy
    <3>1. /\ l \in Nodes /\ l.healthy /\ l.state = m.state /\ l.currentTerm = m.currentTerm
          /\ l.log = m.log /\ l.disk = m.disk /\ Image(l) = Image(m)
      <4> HIDE DEF m
      <4> QED BY <1>1, <2>2, <2>4, ZenonT(30) DEF Nodes, MaybeNode, Image
    <3> HIDE DEF m, l
    <3>2. Sound(l) /\ l.log = n.log /\ KeepsLog(n, l)
      BY <2>2, <2>4, <3>1 DEF Sound, KeepsLog
    <3>3. CASE prev > Len(l.log)
      <4>1. h.node = l
        BY <1>4, <2>4, <3>3, ZenonT(30) DEF HandleAppendEntries, Answer, m, l
      <4> QED BY <3>2, <4>1
    <3>4. CASE ~(prev > Len(l.log)) /\ PrevDiffers(l, a)
      <4>1. h.node = cut
        BY <1>4, <2>4, <3>4, ZenonT(30) DEF HandleAppendEntries, Answer, m, l
      <4>2. prev > 0 /\ prev <= Len(n.log)
        BY <1>1, <3>2, <3>4 DEF PrevDiffers
      <4>3. SameRole(l, c)
        BY <1>1, <3>1, <3>2, <4>2, CutBeforeEffect
      <4>4. c.log = SubSeq(n.log, 1, prev - 1)
        BY <3>1, <3>2, ZenonT(30) DEF CutBefore, Nodes
      <4> HIDE DEF c
      <4>5. KeepsLog(c, cut)
        BY <1>1, <4>3, PersistKeepsLog DEF SameRole
      <4>6. cut.log = c.log /\ cut.disk.log \in {n.log, n.disk.log, cut.log}
        BY <3>2, <4>3, <4>5 DEF KeepsLog, SameRole
      <4>7. cut.state = "leader" => n.state = "leader" /\ a.term = n.currentTerm
        BY <2>2, <3>1, <4>3, <4>5 DEF KeepsLog, SameRole
      <4> HIDE DEF cut, h
      <4> QED BY <4>1, <4>2, <4>4, <4>6, <4>7 DEF h
    <3>5. CASE ~(prev > Len(l.log)) /\ ~PrevDiffers(l, a)
      <4>1. h.node = accepted
        BY <1>4, <2>4, <3>5, ZenonT(30) DEF HandleAppendEntries, Answer, m, l
      <4>2. prev <= Len(n.log) /\ (prev > 0 => n.log[prev].term = a.prevLogTerm)
        BY <1>1, <3>2, <3>5 DEF PrevDiffers
      <4>3. SameTerm(l, accepted)
        BY <3>1, <3>2, <4>2, AcceptEntriesEffect
      <4>4. accepted.log = log /\ accepted.disk.log \in {log, l.disk.log}
        BY <3>1, <3>2, <4>2, AcceptEntriesEffect
      <4>5. accepted.disk.log \in {n.log, n.disk.log, accepted.log}
        BY <3>2, <4>4 DEF KeepsLog
      <4>6. accepted.state = "leader" =>
                /\ l.state = "leader" /\ accepted.currentTerm = l.currentTerm
        BY <4>3 DEF SameTerm, Sound
      <4>7. accepted.state = "leader" =>
                /\ n.state = "leader" /\ a.term = n.currentTerm
                /\ accepted.currentTerm = n.currentTerm
        BY <2>2, <3>1, <3>2, <4>6 DEF KeepsLog
      <4>8. CASE log = l.log
        <5>1. KeepsLog(n, accepted)
          BY <3>2, <4>4, <4>5, <4>7, <4>8 DEF KeepsLog
        <5> QED BY <4>1, <5>1
      <4>9. CASE log # l.log
        <5>1. log = SubSeq(n.log, 1, prev) \o a.entries
          BY <3>2, <4>9 DEF MergeEntries
        <5> HIDE DEF accepted, log, h
        <5> QED BY <4>1, <4>2, <4>4, <4>5, <4>7, <5>1 DEF h
      <4> QED BY <4>8, <4>9
    <3> QED BY <3>3, <3>4, <3>5
  <2> QED BY <2>3, <2>4
<1> QED BY <1>3, <1>4

\* become_leader_locked leaves the log and the term.
LEMMA BecomeLeaderLog ==
    ASSUME NEW n \in Nodes, NEW i \in Server, NEW ok \in BOOLEAN
    PROVE  LET m == BecomeLeader(n, i, ok)
           IN  /\ m.log = n.log /\ m.disk.log \in {n.log, n.disk.log}
               /\ m.currentTerm = n.currentTerm
<1> DEFINE ni == [p \in Server |-> IF p = i THEN 0 ELSE Len(n.log) + 1]
           q == [n EXCEPT !.state = "leader", !.leaderId = i, !.nextIndex = ni,
                          !.matchIndex = NoIndexes]
<1>1. BecomeLeader(n, i, ok) = Persist(q, ok)
  BY DEF BecomeLeader
<1>2. ni \in [Server -> Nat]
  BY LenProperties DEF Nodes
<1> HIDE DEF ni
<1>3. q \in Nodes /\ q.log = n.log /\ q.disk = n.disk /\ q.currentTerm = n.currentTerm
  BY <1>2, ZenonT(30) DEF Nodes, MaybeNode, NoIndexes
<1> HIDE DEF q
<1>4. KeepsLog(q, Persist(q, ok)) /\ Persist(q, ok).currentTerm = q.currentTerm
  BY <1>3, PersistKeepsLog, PersistEffect
<1> QED BY <1>1, <1>3, <1>4 DEF KeepsLog

\* A process that starts has the log of its state file.
LEMMA StartedLog ==
    ASSUME NEW disk \in Images, ValidState(disk), NEW i \in Server
    PROVE  Started(i, disk).log = disk.log /\ Started(i, disk).disk.log = disk.log
<1> DEFINE b == Loaded(disk)
           l == [b EXCEPT !.applied = SubSeq(disk.log, 1, disk.lastApplied)]
           ready == Deliver(l, IoOk)
           t == IF ready.currentTerm = 0 THEN 1 ELSE ready.currentTerm
           q == [ready EXCEPT !.currentTerm = t]
           m == Started(i, disk)
<1>1. b \in Nodes /\ Sound(b) /\ b.healthy /\ b.state = "follower" /\ b.disk = disk /\ b.log = disk.log
  BY LoadedEffect DEF Loaded
<1>2. SubSeq(disk.log, 1, disk.lastApplied) \in Seq(Entries)
  <2>1. disk.log \in Seq(Entries) /\ Len(disk.log) \in Nat /\ disk.lastApplied \in Nat
        /\ disk.commitIndex \in Nat /\ disk.lastApplied <= Len(disk.log)
    BY LenProperties DEF Images, ValidState
  <2>2. \A k \in 1..disk.lastApplied : disk.log[k] \in Entries
    BY <2>1, ElementOfSeq
  <2> QED BY <2>1, <2>2, SubSeqProperties
<1>3. m = IF Server = {i} THEN BecomeLeader(q, i, TRUE) ELSE Persist(ready, TRUE)
  <2>1. [ready EXCEPT !.currentTerm = IF @ = 0 THEN 1 ELSE @] = q
    OBVIOUS
  <2> QED BY <2>1 DEF Started
<1>4. IoOk \in IoType
  BY DEF IoOk, Io, IoType
<1> HIDE DEF b
<1>5. /\ l \in Nodes /\ l.log = disk.log /\ l.disk = disk /\ l.healthy /\ l.state = b.state
      /\ Image(l) = Image(b)
  BY <1>1, <1>2, ZenonT(30) DEF Nodes, Image
<1> HIDE DEF l
<1>6. Sound(l)
  BY <1>1, <1>5 DEF Sound
<1>7. KeepsLog(l, ready) /\ SameTerm(l, ready)
  BY <1>4, <1>5, <1>6, DeliverKeepsLog, DeliverEffect
<1> HIDE DEF ready
<1>8. ready \in Nodes /\ ready.log = disk.log /\ ready.disk.log = disk.log /\ ready.currentTerm \in Nat
  <2>1. ready \in Nodes
    BY <1>7 DEF SameTerm
  <2> QED BY <1>5, <1>7, <2>1 DEF KeepsLog, Nodes
<1>9. q \in Nodes /\ q.log = disk.log /\ q.disk.log = disk.log
  <2>1. t \in Nat
    BY <1>8
  <2> HIDE DEF t
  <2> QED BY <1>8, <2>1, ZenonT(30) DEF Nodes
<1> HIDE DEF q, m
<1>10. CASE Server = {i}
  <2>1. m = BecomeLeader(q, i, TRUE)
    BY <1>3, <1>10
  <2>2. /\ BecomeLeader(q, i, TRUE).log = q.log
        /\ BecomeLeader(q, i, TRUE).disk.log \in {q.log, q.disk.log}
    BY <1>9, BecomeLeaderLog
  <2>3. m.log = disk.log /\ m.disk.log = disk.log
    BY <1>9, <2>1, <2>2
  <2> QED BY <2>3 DEF m
<1>11. CASE Server # {i}
  <2>1. m = Persist(ready, TRUE)
    BY <1>3, <1>11
  <2>2. KeepsLog(ready, Persist(ready, TRUE))
    BY <1>8, PersistKeepsLog
  <2>3. m.log = disk.log /\ m.disk.log = disk.log
    BY <1>8, <2>1, <2>2 DEF KeepsLog
  <2> QED BY <2>3 DEF m
<1> QED BY <1>10, <1>11
----------------------------------------------------------------------------
(***************************************************************************)
(* The logs.  Steps derive every log, state file and request from pieces   *)
(* that were there before, but for the entry a leader appends.             *)
(***************************************************************************)
\* A request in flight was sent by the elected leader of its term.
LEMMA InFlightGood ==
    ASSUME IInv, NEW r \in InFlight
    PROVE  r \in AppendRequests /\ r.src # r.dst /\ <<r.term, r.src>> \in elected
<1>1. GoodRequest(r, elected) /\ r.kind = "append"
  <2>1. CASE r \in late /\ r.kind = "append"
    BY <2>1, Parts DEF LateOK
  <2>2. ASSUME NEW i \in Server, NEW th \in Thread, call[i][th].at = "sent",
               r = call[i][th].req, r.kind = "append"
        PROVE  GoodRequest(r, elected) /\ r.kind = "append"
    BY <2>2, SentGood
  <2> QED BY <2>1, <2>2 DEF InFlight
<1> QED BY <1>1 DEF GoodRequest, Requests, VoteRequests

\* All pieces are pieces.
LEMMA PieceTypes ==
    ASSUME IInv
    PROVE  \A x \in Pieces : IsPiece(x)
<1>1. ASSUME NEW j \in Server
      PROVE  IsPiece(Whole(node[j].log)) /\ IsPiece(Whole(node[j].disk.log))
  <2>1. node[j].log \in Seq(Entries) /\ node[j].disk.log \in Seq(Entries)
    BY Parts DEF Nodes, Images
  <2> QED BY <2>1, PieceFields
<1>2. ASSUME NEW r \in InFlight PROVE IsPiece(Carried(r))
  <2>1. r.prevLogIndex \in Nat /\ r.entries \in Seq(Entries)
    BY InFlightGood, ZenonT(30) DEF AppendRequests
  <2> QED BY <2>1, PieceFields DEF Carried, IsPiece
<1> QED BY <1>1, <1>2 DEF Pieces

\* z is part of a piece, or of two.
Derived(z) ==
    /\ IsPiece(z)
    /\ \/ \E x \in Pieces : PartOf(z, x)
       \/ \E x, a \in Pieces : Merged(z, x, a)

\* Every piece is derived, from itself.
LEMMA PieceDerived ==
    ASSUME IInv, NEW x \in Pieces
    PROVE  Derived(x)
<1>1. IsPiece(x)
  BY PieceTypes
<1>2. x.prev \notin Places(x) /\ x.prev <= x.prev
  BY <1>1, LenProperties DEF IsPiece, Places
<1>3. PartOf(x, x)
  BY <1>2 DEF PartOf
<1> QED BY <1>1, <1>3 DEF Derived

\* What is derived agrees with whatever agrees with all pieces, and its entries are
\* theirs.
LEMMA DerivedAgrees ==
    ASSUME IInv, NEW z, Derived(z), NEW y, IsPiece(y), \A x \in Pieces : Agree(x, y)
    PROVE  Agree(z, y)
<1>1. CASE \E x \in Pieces : PartOf(z, x)
  BY <1>1, PieceTypes, PartAgrees DEF Derived
<1>2. CASE \E x, a \in Pieces : Merged(z, x, a)
  BY <1>2, PieceTypes, MergedAgrees DEF Derived
<1> QED BY <1>1, <1>2 DEF Derived

\* Every entry of a derived piece is an entry of a piece, at the same index.
LEMMA DerivedEntries ==
    ASSUME IInv, NEW z, Derived(z), NEW k \in Places(z)
    PROVE  \E x \in Pieces : k \in Places(x) /\ EntryAt(x, k) = EntryAt(z, k)
<1>1. CASE \E x \in Pieces : PartOf(z, x)
  BY <1>1 DEF PartOf
<1>2. ASSUME NEW x \in Pieces, NEW a \in Pieces, Merged(z, x, a)
      PROVE  \E w \in Pieces : k \in Places(w) /\ EntryAt(w, k) = EntryAt(z, k)
  <2>1. /\ x.prev = 0 /\ a.prev \in Nat /\ a.prev <= Len(x.entries)
        /\ Len(x.entries) \in Nat /\ Len(a.entries) \in Nat
        /\ k \in 1..(a.prev + Len(a.entries))
        /\ EntryAt(z, k) = IF k <= a.prev THEN EntryAt(x, k) ELSE EntryAt(a, k)
    BY <1>2, PieceTypes, LenProperties DEF Merged, IsPiece
  <2>2. CASE k <= a.prev
    <3>1. k \in Places(x)
      BY <2>1, <2>2 DEF Places
    <3> QED BY <2>1, <2>2, <3>1
  <2>3. CASE ~(k <= a.prev)
    <3>1. k \in Places(a)
      BY <2>1, <2>3 DEF Places
    <3> QED BY <2>1, <2>3, <3>1
  <2> QED BY <2>2, <2>3
<1> QED BY <1>1, <1>2 DEF Derived

\* If every piece of the next state is derived, and a leader is the old one or the
\* first of its term, the logs stay in order.
LEMMA DerivedLogs ==
    ASSUME IInv, IInv', LogsOK, \A z \in Pieces' : Derived(z), elected \subseteq elected',
           \A j \in Server : node'[j].state = "leader" =>
               \/ /\ node[j].state = "leader" /\ node'[j].currentTerm = node[j].currentTerm
                  /\ Len(node'[j].log) >= Len(node[j].log)
               \/ \A c \in Server : <<node'[j].currentTerm, c>> \notin elected
    PROVE  LogsOK'
<1>1. ASSUME NEW x \in Pieces', NEW y \in Pieces' PROVE Agree(x, y)
  <2>1. Derived(x) /\ Derived(y) /\ IsPiece(x)
    BY DEF Derived
  <2>2. ASSUME NEW w \in Pieces PROVE Agree(w, x)
    <3>1. \A v \in Pieces : Agree(v, w)
      BY DEF LogsOK
    <3>2. Agree(x, w)
      BY <2>1, <3>1, PieceTypes, DerivedAgrees
    <3> QED BY <3>2, AgreeSwap
  <2>3. Agree(y, x)
    BY <2>1, <2>2, DerivedAgrees
  <2> QED BY <2>3, AgreeSwap
<1>2. ASSUME NEW x \in Pieces', NEW k \in Places(x)
      PROVE  \E w \in Pieces : k \in Places(w) /\ EntryAt(w, k) = EntryAt(x, k)
  BY DerivedEntries
<1>3. ASSUME NEW x \in Pieces', NEW k \in Places(x)
      PROVE  \E c \in Server : <<EntryAt(x, k).term, c>> \in elected
  BY <1>2 DEF LogsOK
<1>4. ASSUME NEW j \in Server, node'[j].state = "leader",
             NEW x \in Pieces', NEW k \in Places(x), EntryAt(x, k).term = node'[j].currentTerm
      PROVE  k <= Len(node'[j].log)
  <2>1. /\ node[j].state = "leader" /\ node'[j].currentTerm = node[j].currentTerm
        /\ Len(node'[j].log) >= Len(node[j].log)
    BY <1>3, <1>4, ZenonT(30)
  <2>2. k <= Len(node[j].log)
    BY <1>2, <1>4, <2>1 DEF LogsOK
  <2>3. x.prev \in Nat /\ Len(x.entries) \in Nat
    BY LenProperties DEF Derived, IsPiece
  <2>4. k \in Int
    BY <2>3 DEF Places
  <2>5. Len(node[j].log) \in Nat /\ Len(node'[j].log) \in Nat
    <3>1. node[j].log \in Seq(Entries) /\ node'[j].log \in Seq(Entries)
      BY DEF IInv, TypeOK, Nodes
    <3> QED BY <3>1, LenProperties
  <2> QED BY <2>1, <2>2, <2>4, <2>5
<1>5. \A x, y \in Pieces' : Agree(x, y)
  BY <1>1
<1>6. \A x \in Pieces' : \A k \in Places(x) :
          \E c \in Server : <<EntryAt(x, k).term, c>> \in elected'
  BY <1>3, ZenonT(30)
<1>7. \A j \in Server : node'[j].state = "leader" =>
          \A x \in Pieces' : \A k \in Places(x) :
              EntryAt(x, k).term = node'[j].currentTerm => k <= Len(node'[j].log)
  BY <1>4
<1> QED BY <1>5, <1>6, <1>7 DEF LogsOK

\* What every step does: it keeps the logs in order, and a leader that stays one only
\* appends.
LeadersAppend ==
    \A j \in Server : node[j].state = "leader" /\ node'[j].state = "leader" =>
        /\ Len(node'[j].log) >= Len(node[j].log)
        /\ SubSeq(node'[j].log, 1, Len(node[j].log)) = node[j].log
LogStep == (LogInv => LogInv') /\ LeadersAppend

\* Node i changes; its new log and state file, and the requests, are derived.
LEMMA NodeLogs ==
    ASSUME IInv, IInv', LogsOK, NEW i \in Server, NEW m, SetNode(i, m),
           Derived(Whole(m.log)), Derived(Whole(m.disk.log)),
           \A r \in InFlight' : Derived(Carried(r)), elected \subseteq elected',
           m.state = "leader" =>
               \/ /\ node[i].state = "leader" /\ m.currentTerm = node[i].currentTerm
                  /\ Len(m.log) >= Len(node[i].log)
               \/ \A c \in Server : <<m.currentTerm, c>> \notin elected
    PROVE  LogsOK'
<1>1. \A j \in Server : node'[j] = IF j = i THEN m ELSE node[j]
  BY DEF SetNode, IInv, TypeOK
<1>2. \A j \in Server : Derived(Whole(node[j].log)) /\ Derived(Whole(node[j].disk.log))
  BY PieceDerived DEF Pieces
<1>3. \A j \in Server : Derived(Whole(node'[j].log)) /\ Derived(Whole(node'[j].disk.log))
  BY <1>1, <1>2
<1>4. Pieces' = {Whole(node'[j].log) : j \in Server} \cup {Whole(node'[j].disk.log) : j \in Server}
                    \cup {Carried(r) : r \in InFlight'}
  BY DEF Pieces
<1>5. \A z \in Pieces' : Derived(z)
  BY <1>3, <1>4
<1>6. \A j \in Server : Len(node[j].log) \in Nat
  <2>1. \A j \in Server : node[j].log \in Seq(Entries)
    BY Parts DEF Nodes
  <2> QED BY <2>1, LenProperties
<1>7. \A j \in Server : node'[j].state = "leader" =>
               \/ /\ node[j].state = "leader" /\ node'[j].currentTerm = node[j].currentTerm
                  /\ Len(node'[j].log) >= Len(node[j].log)
               \/ \A c \in Server : <<node'[j].currentTerm, c>> \notin elected
  BY <1>1, <1>6
<1> QED BY <1>5, <1>7, DerivedLogs

\* Requests in flight are derived.
LEMMA FlightDerived ==
    ASSUME IInv
    PROVE  \A r \in InFlight : Derived(Carried(r))
BY PieceDerived DEF Pieces

\* A leader's log that stays is appended to.
LEMMA SameLogAppends ==
    ASSUME IInv, NEW i \in Server, NEW m, SetNode(i, m),
           node[i].state = "leader" /\ m.state = "leader" => m.log = node[i].log
    PROVE  LeadersAppend
<1>1. \A j \in Server : node'[j] = IF j = i THEN m ELSE node[j]
  BY DEF SetNode, IInv, TypeOK
<1>2. ASSUME NEW j \in Server
      PROVE  /\ Len(node[j].log) >= Len(node[j].log)
             /\ SubSeq(node[j].log, 1, Len(node[j].log)) = node[j].log
  <2>1. node[j].log \in Seq(Entries)
    BY Parts DEF Nodes
  <2>2. Len(node[j].log) \in Nat
    BY <2>1, LenProperties
  <2> QED BY <2>1, <2>2, SubSeqFull
<1> QED BY <1>1, <1>2 DEF LeadersAppend

\* A step that touches no log and sends no entries.
LEMMA NodeQuiet ==
    ASSUME IInv, IInv', NEW i \in Server, NEW m, SetNode(i, m), KeepsLog(node[i], m),
           InFlight' \subseteq InFlight, elected' = elected
    PROVE  LogStep
<1>1. LeadersAppend
  BY SameLogAppends DEF KeepsLog
<1>2. ASSUME LogsOK PROVE LogsOK'
  <2>1. Derived(Whole(node[i].log)) /\ Derived(Whole(node[i].disk.log))
    BY PieceDerived DEF Pieces
  <2>2. Derived(Whole(m.log)) /\ Derived(Whole(m.disk.log))
    BY <2>1 DEF KeepsLog
  <2>3. \A r \in InFlight' : Derived(Carried(r))
    BY FlightDerived
  <2>4. Len(node[i].log) \in Nat
    <3>1. node[i].log \in Seq(Entries)
      BY Parts DEF Nodes
    <3> QED BY <3>1, LenProperties
  <2>5. m.state = "leader" => 
          /\ node[i].state = "leader" /\ m.currentTerm = node[i].currentTerm
          /\ Len(m.log) >= Len(node[i].log)
    BY <2>4 DEF KeepsLog
  <2> QED BY <1>2, <2>2, <2>3, <2>5, NodeLogs
<1> QED BY <1>1, <1>2 DEF LogStep, LogInv

\* A thread that sends no AppendEntries puts none in flight.
Quiet(c) == c.at = "sent" => c.req.kind # "append"

\* A thread that sends no AppendEntries adds none to those in flight.
LEMMA QuietFlight ==
    ASSUME IInv, NEW i \in Server, NEW th \in Thread, NEW c, Quiet(c), SetCall(i, th, c),
           \A r \in late' : r \in late \/ (call[i][th].at = "sent" /\ r = call[i][th].req)
    PROVE  InFlight' \subseteq InFlight
<1>1. \A j \in Server, t \in Thread :
          call'[j][t] = IF j = i /\ t = th THEN c ELSE call[j][t]
  BY DEF SetCall, IInv, TypeOK
<1>2. ASSUME NEW r \in late', r.kind = "append" PROVE r \in InFlight
  BY <1>2 DEF InFlight
<1>3. ASSUME NEW j \in Server, NEW t \in Thread, call'[j][t].at = "sent",
             call'[j][t].req.kind = "append"
      PROVE  call'[j][t].req \in InFlight
  <2>1. call'[j][t] = call[j][t]
    BY <1>1, <1>3 DEF Quiet
  <2> QED BY <1>3, <2>1 DEF InFlight
<1>4. InFlight' = {r \in late' : r.kind = "append"} \cup
          UNION {{call'[j][t].req : t \in {u \in Thread : call'[j][u].at = "sent" /\
                                                          call'[j][u].req.kind = "append"}}
                     : j \in Server}
  BY DEF InFlight
<1> QED BY <1>2, <1>3, <1>4

\* A step of a thread that keeps the log and sends no entries.
LEMMA QuietStep ==
    ASSUME IInv, IInv', NEW i \in Server, NEW th \in Thread, NEW m, NEW c,
           SetNode(i, m), KeepsLog(node[i], m), Quiet(c), SetCall(i, th, c),
           UNCHANGED <<late, elected>>
    PROVE  LogStep
<1>1. InFlight' \subseteq InFlight
  BY QuietFlight
<1> QED BY <1>1, NodeQuiet

\* ... when the node does not change.
LEMMA QuietCall ==
    ASSUME IInv, IInv', NEW i \in Server, NEW th \in Thread, NEW c, node' = node,
           Quiet(c), SetCall(i, th, c), elected' = elected,
           \A r \in late' : r \in late \/ (call[i][th].at = "sent" /\ r = call[i][th].req)
    PROVE  LogStep
<1>1. SetNode(i, node[i])
  BY DEF SetNode, IInv, TypeOK
<1>2. KeepsLog(node[i], node[i])
  BY DEF KeepsLog
<1>3. InFlight' \subseteq InFlight
  BY QuietFlight
<1> QED BY <1>1, <1>2, <1>3, NodeQuiet

\* Threads that do not wait for a reply to AppendEntries.
LEMMA QuietCalls ==
    /\ Quiet(Idle)
    /\ \A c \in Calls : Quiet(Resume(c)) /\ Quiet([c EXCEPT !.at = "replied"])
    /\ \A q : \A c \in Calls : Quiet([c EXCEPT !.at = "replied", !.reply = q])
    /\ \A p, r : \A c \in Calls : r.kind # "append" => Quiet(Send(c, p, r))
    /\ \A op, i : Quiet(Busy(op, i))
<1>1. Quiet(Idle)
  BY DEF Quiet, Idle
<1>2. \A c \in Calls : Resume(c).at # "sent"
  BY DEF Resume, Calls
<1>3. \A c \in Calls : [c EXCEPT !.at = "replied"].at = "replied"
  BY DEF Calls
<1>4. \A q : \A c \in Calls : [c EXCEPT !.at = "replied", !.reply = q].at = "replied"
  BY DEF Calls
<1>5. \A p, r : \A c \in Calls : Send(c, p, r).req = r
  BY DEF Calls, Send
<1>6. \A op, i : Busy(op, i).at = "next"
  BY DEF Busy, Idle
<1> QED BY <1>1, <1>2, <1>3, <1>4, <1>5, <1>6 DEF Quiet

\* Starting an election writes a term and a vote, and no entry.
LEMMA StartElectionLogs ==
    ASSUME IInv, IInv', NEW i \in Server, StartElection(i)
    PROVE  LogStep
<1> DEFINE n == node[i]
           r == [n EXCEPT !.currentTerm = @ + 1, !.votedFor = i, !.votes = {i},
                          !.state = "candidate", !.leaderId = NoNode]
<1>1. PICK io \in Outcome, p \in First(Peers(i)) :
        LET m == Persist(r, io.save1)
        IN  /\ SetNode(i, m)
            /\ SetCall(i, "worker",
                    IF m.healthy
                    THEN Send(Busy("election", i), p, MakeRequestVote(m, i, p)) ELSE Idle)
  BY DEF StartElection
<1> DEFINE m == Persist(r, io.save1)
           c == IF m.healthy
                THEN Send(Busy("election", i), p, MakeRequestVote(m, i, p)) ELSE Idle
<1>2. UNCHANGED <<late, elected>> /\ "worker" \in Thread
  BY DEF StartElection, Thread
<1>3. n \in Nodes /\ n.currentTerm + 1 \in Nat
  BY Parts
<1>4. io.save1 \in BOOLEAN
  BY OutcomeType DEF IoType
<1>5. r \in Nodes /\ r.state = "candidate" /\ r.disk = n.disk /\ r.log = n.log
  <2> HIDE DEF n
  <2> QED BY <1>3, ZenonT(30) DEF Nodes, MaybeNode
<1> HIDE DEF r
<1>6. KeepsLog(r, m) /\ m.state \in {r.state, "follower"}
  BY <1>4, <1>5, PersistKeepsLog
<1>7. KeepsLog(n, m)
  BY <1>5, <1>6 DEF KeepsLog
<1>8. Quiet(c)
  <2>1. Busy("election", i) \in Calls
    BY BusyGood, ZenonT(30) DEF GoodCall
  <2>2. MakeRequestVote(m, i, p).kind = "vote"
    BY DEF MakeRequestVote
  <2> HIDE DEF m
  <2> QED BY <2>1, <2>2, QuietCalls, ZenonT(30)
<1>9. SetNode(i, m) /\ SetCall(i, "worker", c)
  BY <1>1
<1> HIDE DEF m, c
<1> QED BY <1>2, <1>7, <1>8, <1>9, QuietStep

\* Counting a vote, or adopting a higher term.
LEMMA ElectionReplyLogs ==
    ASSUME IInv, IInv', NEW i \in Server, ElectionReply(i)
    PROVE  LogStep
<1> DEFINE c == call[i]["worker"]
           n == node[i]
<1>1. c.op = "election" /\ c.at = "replied" /\ UNCHANGED <<late, elected>> /\ "worker" \in Thread
  BY DEF ElectionReply, Thread
<1>2. n \in Nodes /\ c \in Calls /\ GoodCall(i, c, granted, elected)
  BY <1>1, Parts
<1>3. c.req \in VoteRequests /\ c.reply.term \in Nat /\ c.req.dst \in Server
  BY <1>1, <1>2 DEF GoodCall, Calls, Replies, VoteRequests
<1>4. CASE SetCall(i, "worker", Idle) /\ UNCHANGED node
  BY <1>1, <1>4, QuietCalls, QuietCall, ZenonT(30)
<1>5. CASE /\ \E io \in Outcome : SetNode(i, BecomeFollower(n, c.reply.term, io.save1))
           /\ SetCall(i, "worker", Idle)
  <2>1. PICK io \in Outcome : SetNode(i, BecomeFollower(n, c.reply.term, io.save1))
    BY <1>5
  <2>2. io.save1 \in BOOLEAN
    BY OutcomeType DEF IoType
  <2>3. KeepsLog(n, BecomeFollower(n, c.reply.term, io.save1))
    BY <1>2, <1>3, <2>2, BecomeFollowerKeepsLog
  <2> QED BY <1>1, <1>5, <2>1, <2>3, QuietCalls, QuietStep, ZenonT(30)
<1>6. CASE /\ SetNode(i, IF c.reply.ok THEN [n EXCEPT !.votes = @ \cup {c.req.dst}] ELSE n)
           /\ \/ c.rest = {} /\ SetCall(i, "worker", Resume(c))
              \/ \E p \in First(c.rest) :
                   SetCall(i, "worker", Send(Resume(c), p, [c.req EXCEPT !.dst = p]))
  <2> DEFINE m == IF c.reply.ok THEN [n EXCEPT !.votes = @ \cup {c.req.dst}] ELSE n
  <2>1. KeepsLog(n, m)
    <3>1. m.log = n.log /\ m.disk = n.disk /\ m.state = n.state /\ m.currentTerm = n.currentTerm
      <4> HIDE DEF n, c
      <4> QED BY <1>2, ZenonT(30) DEF Nodes
    <3> QED BY <3>1 DEF KeepsLog
  <2>2. \E d : Quiet(d) /\ SetCall(i, "worker", d)
    <3>1. Resume(c) \in Calls
      <4> HIDE DEF c
      <4> QED BY <1>2, ResumeGood, ZenonT(30) DEF GoodCall
    <3>2. \A p : [c.req EXCEPT !.dst = p].kind = "vote"
      BY <1>3 DEF VoteRequests
    <3> HIDE DEF c
    <3> QED BY <1>2, <1>6, <3>1, <3>2, QuietCalls, ZenonT(30)
  <2>3. SetNode(i, m)
    BY <1>6
  <2> HIDE DEF m, c
  <2> QED BY <1>1, <2>1, <2>2, <2>3, QuietStep
<1> QED BY <1>4, <1>5, <1>6 DEF ElectionReply

\* A reply to a heartbeat moves indexes, or makes the leader step down.
LEMMA HeartbeatReplyLogs ==
    ASSUME IInv, IInv', NEW i \in Server, NEW th \in Thread, HeartbeatReply(i, th)
    PROVE  LogStep
<1> DEFINE c == call[i][th]
           n == node[i]
           GoOn == \/ c.rest = {} /\ Return(i, th, c)
                   \/ c.rest # {} /\ SetCall(i, th, Resume(c)) /\ UNCHANGED acked
<1>1. c.op = "heartbeat" /\ c.at = "replied" /\ UNCHANGED <<late, elected>>
  BY ZenonT(30) DEF HeartbeatReply
<1>2. c \in Calls /\ GoodCall(i, c, granted, elected) /\ n \in Nodes
  BY Parts, ZenonT(30)
<1>3. c.req.dst \in Server /\ c.reply \in Replies /\ c.reply.term \in Nat
  BY <1>1, <1>2 DEF GoodCall, AppendRequests, Calls, Replies
<1>4. ASSUME GoOn \/ Return(i, th, c) PROVE \E d : Quiet(d) /\ SetCall(i, th, d)
  <2> HIDE DEF c
  <2> QED BY <1>2, <1>4, QuietCalls, ZenonT(30) DEF Return
<1>5. ASSUME GoOn \/ Return(i, th, c), UNCHANGED node PROVE LogStep
  BY <1>1, <1>4, <1>5, QuietCall
<1>6. ASSUME NEW m, KeepsLog(n, m), SetNode(i, m), GoOn \/ Return(i, th, c) PROVE LogStep
  BY <1>1, <1>4, <1>6, QuietStep
<1>7. ASSUME NEW io \in Outcome, SetNode(i, BecomeFollower(n, c.reply.term, io.save1)),
             Return(i, th, c)
      PROVE  LogStep
  <2>1. io.save1 \in BOOLEAN
    BY OutcomeType DEF IoType
  <2>2. KeepsLog(n, BecomeFollower(n, c.reply.term, io.save1))
    BY <1>2, <1>3, <2>1, BecomeFollowerKeepsLog
  <2> QED BY <1>6, <1>7, <2>2
<1>8. ASSUME GoOn \/ Return(i, th, c), NEW io \in Outcome,
             SetNode(i, Persist(UpdateCommitIndex(Matched(n, c)), io.save1))
      PROVE  LogStep
  <2> DEFINE r == Matched(n, c)
             u == UpdateCommitIndex(r)
             m == Persist(u, io.save1)
  <2>1. io.save1 \in BOOLEAN
    BY OutcomeType DEF IoType
  <2>2. SameRole(n, r) /\ r.log = n.log
    BY <1>2, <1>3, BookkeepingEffect, ZenonT(30) DEF Image
  <2>3. SetNode(i, m)
    BY <1>8
  <2> HIDE DEF r
  <2>4. SameRole(r, u) /\ u.log = r.log
    BY <2>2, UpdateCommitIndexEffect DEF SameRole
  <2> HIDE DEF u
  <2>5. KeepsLog(u, m)
    BY <2>1, <2>4, PersistKeepsLog DEF SameRole
  <2> HIDE DEF m
  <2>6. KeepsLog(n, m)
    BY <2>2, <2>4, <2>5 DEF KeepsLog, SameRole
  <2> QED BY <1>6, <1>8, <2>3, <2>6
<1>9. ASSUME GoOn, SetNode(i, Backed(n, c)) PROVE LogStep
  <2>1. SameRole(n, Backed(n, c)) /\ Backed(n, c).log = n.log
    BY <1>2, <1>3, BookkeepingEffect, ZenonT(30) DEF Image
  <2>2. KeepsLog(n, Backed(n, c))
    BY <2>1, SameRoleKeepsLog
  <2> QED BY <1>6, <1>9, <2>2
<1> QED BY <1>5, <1>7, <1>8, <1>9, ZenonT(30) DEF HeartbeatReply

\* A reply to the AppendEntries of append_command.
LEMMA AppendReplyLogs ==
    ASSUME IInv, IInv', NEW i \in Server, AppendReply(i)
    PROVE  LogStep
<1> DEFINE c == call[i]["client"]
           n == node[i]
<1>1. /\ c.op = "append" /\ c.at = "replied" /\ "client" \in Thread
      /\ UNCHANGED <<late, elected>>
  BY DEF AppendReply, Thread
<1>2. c \in Calls /\ GoodCall(i, c, granted, elected) /\ n \in Nodes
  BY <1>1, Parts
<1>3. c.req.dst \in Server /\ c.reply \in Replies /\ c.reply.term \in Nat
  BY <1>1, <1>2 DEF GoodCall, AppendRequests, Calls, Replies
<1>4. ASSUME Return(i, "client", c), UNCHANGED node PROVE LogStep
  BY <1>1, <1>4, QuietCalls, QuietCall, ZenonT(30) DEF Return
<1>5. ASSUME NEW io \in Outcome, SetNode(i, BecomeFollower(n, c.reply.term, io.save1)),
             Return(i, "client", c)
      PROVE  LogStep
  <2>1. io.save1 \in BOOLEAN
    BY OutcomeType DEF IoType
  <2>2. KeepsLog(n, BecomeFollower(n, c.reply.term, io.save1))
    BY <1>2, <1>3, <2>1, BecomeFollowerKeepsLog
  <2> QED BY <1>1, <1>5, <2>2, QuietCalls, QuietStep, ZenonT(30) DEF Return
<1>6. KeepsLog(n, Backed(n, c)) /\ KeepsLog(n, Matched(n, c))
  <2>1. /\ SameRole(n, Backed(n, c)) /\ Backed(n, c).log = n.log
        /\ SameRole(n, Matched(n, c)) /\ Matched(n, c).log = n.log
    BY <1>2, <1>3, BookkeepingEffect, ZenonT(30) DEF Image
  <2> QED BY <2>1, SameRoleKeepsLog
<1>7. Quiet(Resume(c)) /\ Quiet([Resume(c) EXCEPT !.successes = @ + 1])
  <2>1. Quiet(Resume(c)) /\ Resume(c) \in Calls
    <3> HIDE DEF c
    <3> QED BY <1>2, QuietCalls, ResumeGood, ZenonT(30) DEF GoodCall
  <2> DEFINE d == Resume(c)
  <2> HIDE DEF d
  <2>2. /\ [d EXCEPT !.successes = @ + 1].at = d.at
        /\ [d EXCEPT !.successes = @ + 1].req = d.req
    BY <2>1 DEF Calls, d
  <2> QED BY <2>1, <2>2 DEF Quiet, d
<1>8. ASSUME SetNode(i, Backed(n, c)), SetCall(i, "client", Resume(c)) PROVE LogStep
  BY <1>1, <1>6, <1>7, <1>8, QuietStep
<1>9. ASSUME SetNode(i, Matched(n, c)),
             SetCall(i, "client", [Resume(c) EXCEPT !.successes = @ + 1])
      PROVE  LogStep
  BY <1>1, <1>6, <1>7, <1>9, QuietStep
<1> QED BY <1>4, <1>5, <1>8, <1>9, ZenonT(30) DEF AppendReply

\* The commit that ends append_command.
LEMMA AppendCommitLogs ==
    ASSUME IInv, IInv', NEW i \in Server, AppendCommit(i)
    PROVE  LogStep
<1> DEFINE c == call[i]["client"]
           n == node[i]
           b == Busy("heartbeat", i)
           tail == [b EXCEPT !.entry = c.entry]
<1>1. "client" \in Thread /\ UNCHANGED <<late, elected>>
  BY DEF AppendCommit, Thread
<1>2. n \in Nodes /\ Sound(n)
  BY Parts
<1>3. Quiet(tail)
  BY DEF Busy, Idle, Quiet
<1>4. ASSUME \/ Return(i, "client", c)
             \/ Return(i, "client", tail)
             \/ SetCall(i, "client", tail) /\ UNCHANGED acked
      PROVE  \E d : Quiet(d) /\ SetCall(i, "client", d)
  <2> HIDE DEF c, tail
  <2> QED BY <1>3, <1>4, QuietCalls, ZenonT(30) DEF Return
<1>5. ASSUME Return(i, "client", c), UNCHANGED node PROVE LogStep
  BY <1>1, <1>4, <1>5, QuietCall
<1>6. ASSUME IsLeader(n), NEW io \in Outcome,
             SetNode(i, Deliver(Persist(UpdateCommitIndex(n), io.save1), io)),
             \/ Return(i, "client", c)
             \/ Return(i, "client", tail)
             \/ SetCall(i, "client", tail) /\ UNCHANGED acked
      PROVE  LogStep
  <2> DEFINE u == UpdateCommitIndex(n)
             p == Persist(u, io.save1)
             m == Deliver(p, io)
  <2>1. io \in IoType /\ io.save1 \in BOOLEAN /\ n.healthy
    BY <1>6, OutcomeType DEF IoType, IsLeader
  <2>2. SameRole(n, u) /\ u.log = n.log
    BY <1>2, UpdateCommitIndexEffect
  <2>3. SetNode(i, m)
    BY <1>6
  <2> HIDE DEF u
  <2>4. SameTerm(n, p) /\ KeepsLog(u, p)
    BY <1>2, <2>1, <2>2, PersistSameRole, PersistKeepsLog, ZenonT(30) DEF SameRole
  <2>5. p \in Nodes /\ Sound(p) /\ KeepsLog(n, u)
    BY <2>2, <2>4, SameRoleKeepsLog DEF SameTerm
  <2> HIDE DEF p
  <2>6. KeepsLog(p, m)
    BY <2>1, <2>5, DeliverKeepsLog
  <2> HIDE DEF m
  <2>7. KeepsLog(n, m)
    BY <2>4, <2>5, <2>6, KeepsLogTransitive
  <2> QED BY <1>1, <1>4, <1>6, <2>3, <2>7, QuietStep
<1> QED BY <1>5, <1>6, ZenonT(30) DEF AppendCommit

\* A round of heartbeats begins.
LEMMA StartHeartbeatLogs ==
    ASSUME IInv, IInv', NEW i \in Server, StartHeartbeat(i)
    PROVE  LogStep
<1>1. /\ SetCall(i, "worker", Busy("heartbeat", i)) /\ "worker" \in Thread
      /\ UNCHANGED <<node, late, elected>>
  BY DEF StartHeartbeat, Thread
<1> QED BY <1>1, QuietCalls, QuietCall, ZenonT(30)

\* An RPC fails; its request may stay on its way.
LEMMA RpcFailLogs ==
    ASSUME IInv, IInv', NEW i \in Server, NEW th \in Thread, RpcFail(i, th)
    PROVE  LogStep
<1> DEFINE c == call[i][th]
           d == [c EXCEPT !.at = "replied"]
<1>1. c.at = "sent" /\ SetCall(i, th, d) /\ late' \subseteq late \cup {c.req}
      /\ UNCHANGED <<node, elected>>
  BY DEF RpcFail
<1>2. Quiet(d)
  BY Parts, QuietCalls, ZenonT(30)
<1> HIDE DEF d
<1> QED BY <1>1, <1>2, QuietCall

\* A node that wins an election is the first of its term.
LEMMA FirstOfTerm ==
    ASSUME QuorumsMeet, IInv, NEW i \in Server, Server # {i}, node[i].state = "candidate",
           Cardinality(node[i].votes) >= QuorumSize, NEW c \in Server
    PROVE  <<node[i].currentTerm, c>> \notin elected
<1> DEFINE t == node[i].currentTerm
<1> SUFFICES ASSUME <<t, c>> \in elected PROVE FALSE
  OBVIOUS
<1>1. /\ node[i] \in Nodes /\ Sound(node[i]) /\ node[i].votedFor = i
      /\ node[i].votes \in SUBSET Server /\ t \in Nat /\ VotesOK
  BY Parts, ZenonT(30) DEF Nodes
<1>2. /\ \A g \in granted : ~(g[1] = t /\ g[2] = i)
      /\ \A v \in node[i].votes : v = i \/ <<t, v, i>> \in granted
  BY <1>1 DEF VotesOK, CandidatesHonest
<1>3. Server = {c} \/ QuorumBehind(t, c)
  BY <1>1 DEF VotesOK, LeadersBacked
<1>4. QuorumBehind(t, c)
  BY <1>3
<1>5. CASE c = i
  <2>1. node[i].disk.currentTerm = t
    BY <1>1 DEF Sound, Image, Nodes
  <2>2. ~Backs(node[i], i, t)
    BY <1>1, <2>1 DEF Backs
  <2> QED BY <1>4, <1>5, <2>2 DEF QuorumBehind
<1>6. CASE c # i
  <2>1. PICK Q \in SUBSET Server : /\ Cardinality(Q) >= QuorumSize
                                   /\ \A v \in Q : v = c \/ <<t, v, c>> \in granted
    BY <1>4 DEF QuorumBehind
  <2>2. PICK v \in Q : v \in node[i].votes
    BY <1>1, <2>1 DEF QuorumsMeet
  <2>3. CASE v = i
    BY <1>2, <1>6, <2>1, <2>3, ZenonT(30)
  <2>4. CASE v = c
    <3>1. <<t, c, i>> \in granted
      BY <1>2, <1>6, <2>2, <2>4
    <3> QED BY <1>4, <3>1 DEF QuorumBehind
  <2>5. CASE v # i /\ v # c
    <3>1. <<t, v, c>> \in granted /\ <<t, v, i>> \in granted
      BY <1>2, <2>1, <2>2, <2>5
    <3> QED BY <1>1, <1>6, <3>1 DEF VotesOK, VotesBind
  <2> QED BY <2>3, <2>4, <2>5
<1> QED BY <1>5, <1>6

\* A won election makes a leader, whose log is still its own.
LEMMA ElectionTallyLogs ==
    ASSUME QuorumsMeet, IInv, IInv', NEW i \in Server, ElectionTally(i)
    PROVE  LogStep
<1> DEFINE n == node[i]
           won == n.state = "candidate" /\ Cardinality(n.votes) >= QuorumSize
<1>1. PICK io \in Outcome : SetNode(i, IF won THEN BecomeLeader(n, i, io.save1) ELSE n)
  BY DEF ElectionTally
<1>2. /\ elected \subseteq elected' /\ SetCall(i, "worker", Idle) /\ "worker" \in Thread
      /\ UNCHANGED late
  BY DEF ElectionTally, Thread
<1>3. n \in Nodes /\ n.log \in Seq(Entries) /\ Len(n.log) \in Nat
  <2>1. n \in Nodes
    BY Parts
  <2> QED BY <2>1, LenProperties DEF Nodes
<1>4. io.save1 \in BOOLEAN
  BY OutcomeType DEF IoType
<1>5. InFlight' \subseteq InFlight
  BY <1>2, QuietCalls, QuietFlight, ZenonT(30)
<1> DEFINE m == IF won THEN BecomeLeader(n, i, io.save1) ELSE n
<1>6. m.log = n.log /\ m.disk.log \in {n.log, n.disk.log} /\ (won \/ m = n)
      /\ (m.currentTerm = n.currentTerm)
  <2>1. /\ BecomeLeader(n, i, io.save1).log = n.log
        /\ BecomeLeader(n, i, io.save1).disk.log \in {n.log, n.disk.log}
        /\ BecomeLeader(n, i, io.save1).currentTerm = n.currentTerm
    BY <1>3, <1>4, BecomeLeaderLog
  <2> HIDE DEF won, n
  <2>5. CASE won
    BY <2>1, <2>5
  <2>6. CASE ~won
    BY <2>6
  <2> QED BY <2>5, <2>6
<1>7. SetNode(i, m)
  BY <1>1
<1> HIDE DEF m
<1>8. LeadersAppend
  BY <1>6, <1>7, SameLogAppends
<1>9. ASSUME LogsOK, Server # {i} PROVE LogsOK'
  <2>1. Derived(Whole(n.log)) /\ Derived(Whole(n.disk.log))
    BY PieceDerived DEF Pieces
  <2>2. Derived(Whole(m.log)) /\ Derived(Whole(m.disk.log))
    BY <1>6, <2>1
  <2>3. \A q \in InFlight' : Derived(Carried(q))
    BY <1>5, FlightDerived
  <2>4. won => \A c \in Server : <<m.currentTerm, c>> \notin elected
    BY <1>6, <1>9, FirstOfTerm
  <2>5. Len(m.log) >= Len(n.log)
    BY <1>3, <1>6
  <2>6. m.state = "leader" =>
               \/ /\ n.state = "leader" /\ m.currentTerm = n.currentTerm
                  /\ Len(m.log) >= Len(n.log)
               \/ \A c \in Server : <<m.currentTerm, c>> \notin elected
    BY <1>6, <2>4, <2>5
  <2> QED BY <1>2, <1>7, <1>9, <2>2, <2>3, <2>6, NodeLogs
<1> QED BY <1>8, <1>9 DEF LogStep, LogInv

\* The suffix of a log from index next on, with the term of the entry before it,
\* is a part of the log.
LEMMA SuffixPart ==
    ASSUME NEW log \in Seq(Entries), NEW next \in Nat, NEW z, IsPiece(z),
           next \in 1..Len(log) =>
               /\ z.prev = next - 1
               /\ z.term = IF next > 1 THEN log[next - 1].term ELSE 0
               /\ z.entries = SubSeq(log, next, Len(log)),
           next \notin 1..Len(log) => z.entries = << >>
    PROVE  PartOf(z, Whole(log))
<1> DEFINE x == Whole(log)
<1>1. /\ x.prev = 0 /\ x.term = 0 /\ Places(x) = 1..Len(log) /\ Len(log) \in Nat
      /\ \A k \in 1..Len(log) : EntryAt(x, k) = log[k]
  BY PieceFields, LenProperties DEF Whole
<1> HIDE DEF x
<1> SUFFICES ASSUME NEW k \in Places(z)
             PROVE  /\ k \in Places(x) /\ EntryAt(z, k) = EntryAt(x, k) /\ x.prev <= z.prev
                    /\ z.prev = x.prev => z.term = x.term
                    /\ z.prev \in Places(x) => z.term = EntryAt(x, z.prev).term
  BY DEF PartOf, x
<1>2. next \in 1..Len(log)
  <2>1. CASE next \notin 1..Len(log)
    <3>1. Len(z.entries) = 0 /\ z.prev \in Nat
      BY <2>1 DEF IsPiece
    <3> QED BY <3>1 DEF Places
  <2> QED BY <2>1
<1> DEFINE e == SubSeq(log, next, Len(log))
<1>3. Len(e) = Len(log) - next + 1 /\ \A j \in 1..Len(e) : e[j] = log[next + j - 1]
  <2>1. \A j \in next..Len(log) : log[j] \in Entries
    BY <1>1, <1>2, ElementOfSeq
  <2> QED BY <1>1, <1>2, <2>1, SubSeqProperties
<1>4. z.prev = next - 1 /\ z.entries = e /\ z.term = IF next > 1 THEN log[next - 1].term ELSE 0
  BY <1>2
<1> HIDE DEF e
<1>5. k \in next..Len(log) /\ EntryAt(z, k) = log[k]
  <2>1. k \in (next - 1 + 1)..(next - 1 + Len(e)) /\ EntryAt(z, k) = e[k - (next - 1)]
    BY <1>4 DEF Places, EntryAt
  <2> QED BY <1>1, <1>2, <1>3, <2>1
<1> QED BY <1>1, <1>2, <1>4, <1>5

\* What a leader sends is part of its log.
LEMMA SendAppendLogs ==
    ASSUME IInv, IInv', NEW i \in Server, NEW th \in Thread, SendAppend(i, th)
    PROVE  LogStep
<1> DEFINE c == call[i][th]
           n == node[i]
<1>1. UNCHANGED <<node, late, elected>> /\ c \in Calls /\ n \in Nodes
  BY Parts, ZenonT(30) DEF SendAppend
<1>2. CASE Return(i, th, c)
  BY <1>1, <1>2, QuietCalls, QuietCall, ZenonT(30) DEF Return
<1>3. ASSUME NEW p, p \in c.rest, SetCall(i, th, Send(c, p, MakeAppendEntries(n, i, p)))
      PROVE  LogStep
  <2> DEFINE r == MakeAppendEntries(n, i, p)
             d == Send(c, p, r)
             z == Carried(r)
             x == Whole(n.log)
             next == n.nextIndex[p]
             hasPrev == next > 1 /\ next - 1 <= Len(n.log)
  <2>1. p \in Server /\ n.log \in Seq(Entries) /\ Len(n.log) \in Nat /\ next \in Nat
    <3>1. p \in Server
      BY <1>1, <1>3, ZenonT(30) DEF Calls
    <3> QED BY <1>1, <3>1, LenProperties DEF Nodes
  <2>2. /\ z.prev = IF hasPrev THEN next - 1 ELSE 0
        /\ z.term = IF hasPrev THEN n.log[next - 1].term ELSE 0
        /\ z.entries = IF next \in 1..Len(n.log) THEN SubSeq(n.log, next, Len(n.log)) ELSE << >>
    <3>1. z.prev = r.prevLogIndex /\ z.term = r.prevLogTerm /\ z.entries = r.entries
      <4> HIDE DEF r
      <4> QED BY PieceFields DEF Carried
    <3>2. /\ r.prevLogIndex = IF hasPrev THEN next - 1 ELSE 0
          /\ r.prevLogTerm = IF hasPrev THEN n.log[next - 1].term ELSE 0
          /\ r.entries = IF next \in 1..Len(n.log) THEN SubSeq(n.log, next, Len(n.log)) ELSE << >>
      BY ZenonT(30) DEF MakeAppendEntries
    <3> HIDE DEF z, r, n
    <3> QED BY <3>1, <3>2, ZenonT(30)
  <2>3. r \in AppendRequests
    BY <1>1, <2>1, RequestTypes
  <2>4. IsPiece(z)
    <3>1. r.prevLogIndex \in Nat /\ r.entries \in Seq(Entries)
      BY <2>3 DEF AppendRequests
    <3> HIDE DEF r
    <3> QED BY <3>1, PieceFields DEF IsPiece, Carried
  <2>5. d.req = r
    <3> HIDE DEF r, c
    <3> QED BY <1>1 DEF Send, Calls
  <2>6. SetCall(i, th, d)
    BY <1>3
  <2> HIDE DEF d, r
  <2>7. InFlight' \subseteq InFlight \cup {r}
    <3>1. \A j \in Server, t \in Thread :
              call'[j][t] = IF j = i /\ t = th THEN d ELSE call[j][t]
      BY <2>6 DEF SetCall, IInv, TypeOK
    <3>2. ASSUME NEW j \in Server, NEW t \in Thread, call'[j][t].at = "sent",
                 call'[j][t].req.kind = "append"
          PROVE  call'[j][t].req \in InFlight \cup {r}
      BY <2>5, <3>1, <3>2 DEF InFlight
    <3>3. ASSUME NEW q \in late', q.kind = "append" PROVE q \in InFlight
      BY <1>1, <3>3 DEF InFlight
    <3>4. InFlight' = {q \in late' : q.kind = "append"} \cup
              UNION {{call'[j][t].req : t \in {u \in Thread : call'[j][u].at = "sent" /\
                                                              call'[j][u].req.kind = "append"}}
                         : j \in Server}
      BY DEF InFlight
    <3> QED BY <3>2, <3>3, <3>4
  <2>8. PartOf(z, x)
    <3> HIDE DEF z, n
    <3>1. next \in 1..Len(n.log) =>
               /\ z.prev = next - 1
               /\ z.term = IF next > 1 THEN n.log[next - 1].term ELSE 0
               /\ z.entries = SubSeq(n.log, next, Len(n.log))
      BY <2>1, <2>2
    <3>2. next \notin 1..Len(n.log) => z.entries = << >>
      BY <2>2
    <3> HIDE DEF next
    <3> QED BY <2>1, <2>4, <3>1, <3>2, SuffixPart, ZenonT(30)
  <2>9. Derived(z)
    <3>1. x \in Pieces
      BY DEF Pieces
    <3> HIDE DEF x, z
    <3> QED BY <2>4, <2>8, <3>1 DEF Derived
  <2>10. SetNode(i, n)
    BY <1>1 DEF SetNode, IInv, TypeOK
  <2>11. LeadersAppend
    BY <2>10, SameLogAppends
  <2>12. ASSUME LogsOK PROVE LogsOK'
    <3>1. Derived(Whole(n.log)) /\ Derived(Whole(n.disk.log))
      BY PieceDerived DEF Pieces
    <3>2. \A q \in InFlight' : Derived(Carried(q))
      BY <2>7, <2>9, FlightDerived
    <3>3. Len(n.log) >= Len(n.log)
      BY <2>1
    <3> QED BY <1>1, <2>10, <2>12, <3>1, <3>2, <3>3, NodeLogs
  <2> QED BY <2>11, <2>12 DEF LogStep, LogInv
<1> QED BY <1>2, <1>3, ZenonT(30) DEF SendAppend, First

\* The leader of a term is the only one to write entries of the term, and its log is
\* the longest that holds one: its next entry meets no other.
LEMMA AppendedLogs ==
    ASSUME QuorumsMeet, IInv, IInv', LogsOK, NEW i \in Server, NEW m, SetNode(i, m), NEW e \in Entries,
           node[i].state = "leader", e.term = node[i].currentTerm,
           m.log = Append(node[i].log, e), m.disk.log \in {m.log, node[i].disk.log},
           m.state = "leader" => m.currentTerm = node[i].currentTerm,
           InFlight' \subseteq InFlight, elected' = elected
    PROVE  LogsOK'
<1> DEFINE log == node[i].log
           new == Append(log, e)
           x == Whole(log)
           z == Whole(new)
           last == Len(log) + 1
<1>1. log \in Seq(Entries) /\ Len(log) \in Nat
  <2>1. log \in Seq(Entries)
    BY Parts DEF Nodes
  <2> QED BY <2>1, LenProperties
<1>2. /\ new \in Seq(Entries) /\ Len(new) = last /\ new[last] = e
      /\ \A k \in 1..Len(log) : new[k] = log[k]
  <2> HIDE DEF log
  <2> QED BY <1>1, AppendProperties
<1>3. \A j \in Server : node'[j] = IF j = i THEN m ELSE node[j]
  BY DEF SetNode, IInv, TypeOK
<1> HIDE DEF new
<1>4. /\ IsPiece(x) /\ x.prev = 0 /\ x.entries = log /\ Places(x) = 1..Len(log)
      /\ \A k \in 1..Len(log) : EntryAt(x, k) = log[k]
  BY <1>1, PieceFields DEF Whole
<1>5. /\ IsPiece(z) /\ z.prev = 0 /\ Places(z) = 1..last
      /\ \A k \in 1..last : EntryAt(z, k) = new[k]
  BY <1>2, PieceFields
<1>6. x \in Pieces
  BY DEF Pieces
<1>7. m.log = new
  BY DEF new
<1>8. ASSUME NEW y \in Pieces' PROVE y \in Pieces \/ y = z
  <2>1. Pieces' = {Whole(node'[j].log) : j \in Server} \cup {Whole(node'[j].disk.log) : j \in Server}
                    \cup {Carried(r) : r \in InFlight'}
    BY DEF Pieces
  <2>2. \A r \in InFlight' : Carried(r) \in Pieces
    BY DEF Pieces
  <2>3. ASSUME NEW j \in Server
        PROVE  /\ Whole(node'[j].log) \in Pieces \/ Whole(node'[j].log) = z
               /\ Whole(node'[j].disk.log) \in Pieces \/ Whole(node'[j].disk.log) = z
    <3>1. Whole(node[j].log) \in Pieces /\ Whole(node[j].disk.log) \in Pieces
      BY DEF Pieces
    <3> QED BY <1>3, <1>7, <3>1
  <2> HIDE DEF z
  <2> QED BY <2>1, <2>2, <2>3
<1> HIDE DEF x, z, log
<1>9. ASSUME NEW y \in Pieces, NEW k \in Places(y), EntryAt(y, k).term = e.term
      PROVE  k <= Len(log)
  BY <1>9 DEF LogsOK, log
<1>10. ASSUME NEW y \in Pieces PROVE Agree(z, y) /\ Agree(y, z)
  <2>1. IsPiece(y) /\ Agree(x, y)
    BY <1>6, PieceTypes DEF LogsOK
  <2>2. Longer(z, x)
    BY <1>2, <1>4, <1>5 DEF Longer
  <2>3. last \in Places(y) => EntryAt(y, last).term # EntryAt(z, last).term
    <3>1. EntryAt(z, last) = e
      BY <1>1, <1>2, <1>5
    <3>2. ~(last <= Len(log))
      BY <1>1
    <3> QED BY <1>9, <3>1, <3>2
  <2>4. Agree(z, y)
    BY <1>4, <1>5, <2>1, <2>2, <2>3, LongerAgrees
  <2> QED BY <2>4, AgreeSwap
<1>11. \A y, w \in Pieces' : Agree(y, w)
  <2>1. Agree(z, z)
    BY AgreeSelf, <1>5
  <2>2. \A y, w \in Pieces : Agree(y, w)
    BY DEF LogsOK
  <2> QED BY <1>8, <1>10, <2>1, <2>2
<1>12. <<e.term, i>> \in elected
  BY Parts, ZenonT(30) DEF VotesOK, LeadersElected
<1>13. ASSUME NEW k \in Places(z)
       PROVE  \/ k = last /\ EntryAt(z, k) = e
              \/ k \in Places(x) /\ EntryAt(z, k) = EntryAt(x, k)
  <2>1. k = last \/ k \in 1..Len(log)
    BY <1>1, <1>5
  <2>2. CASE k = last
    BY <1>1, <1>2, <1>5, <2>2
  <2>3. CASE k \in 1..Len(log)
    BY <1>1, <1>2, <1>4, <1>5, <2>3
  <2> QED BY <2>1, <2>2, <2>3
<1>14. \A y \in Pieces' : \A k \in Places(y) :
           \E c \in Server : <<EntryAt(y, k).term, c>> \in elected'
  <2>1. \A y \in Pieces : \A k \in Places(y) : \E c \in Server : <<EntryAt(y, k).term, c>> \in elected
    BY ZenonT(30) DEF LogsOK
  <2> QED BY <1>6, <1>8, <1>12, <1>13, <2>1, ZenonT(30)
<1>15. ASSUME NEW j \in Server, node'[j].state = "leader", NEW y \in Pieces', NEW k \in Places(y),
              EntryAt(y, k).term = node'[j].currentTerm
       PROVE  k <= Len(node'[j].log)
  <2>1. CASE j = i
    <3>1. node'[j].currentTerm = e.term /\ node'[j].log = new
      BY <1>3, <1>7, <1>15, <2>1
    <3>2. CASE y = z
      BY <1>1, <1>2, <1>5, <1>15, <3>1, <3>2
    <3>3. CASE y \in Pieces
      <4>1. k <= Len(log)
        BY <1>9, <1>15, <3>1, <3>3
      <4>2. k \in Int
        <5>1. IsPiece(y)
          BY <3>3, PieceTypes
        <5>2. y.prev \in Nat /\ Len(y.entries) \in Nat
          BY <5>1, LenProperties DEF IsPiece
        <5> QED BY <5>2 DEF Places
      <4> QED BY <1>1, <1>2, <3>1, <4>1, <4>2
    <3> QED BY <1>8, <3>2, <3>3
  <2>2. CASE j # i
    <3>1. node'[j] = node[j] /\ node[j].state = "leader"
      BY <1>3, <1>15, <2>2
    <3>2. <<node[j].currentTerm, j>> \in elected
      BY <3>1, Parts, ZenonT(30) DEF VotesOK, LeadersElected
    <3>3. node[j].currentTerm # e.term
      BY <1>12, <2>2, <3>2, OneLeader DEF ElectionSafety
    <3>4. PICK w \in Pieces : k \in Places(w) /\ EntryAt(w, k) = EntryAt(y, k)
      BY <1>6, <1>8, <1>13, <1>15, <3>1, <3>3
    <3> QED BY <1>15, <3>1, <3>4 DEF LogsOK
  <2> QED BY <2>1, <2>2
<1>16. \A j \in Server : node'[j].state = "leader" =>
          \A y \in Pieces' : \A k \in Places(y) :
              EntryAt(y, k).term = node'[j].currentTerm => k <= Len(node'[j].log)
  BY <1>15, ZenonT(30)
<1> QED BY <1>11, <1>14, <1>16 DEF LogsOK

\* A sequence that holds another at its front has it as a prefix.
LEMMA PrefixIs ==
    ASSUME NEW log \in Seq(Entries), NEW new \in Seq(Entries), Len(new) >= Len(log),
           \A j \in 1..Len(log) : new[j] = log[j]
    PROVE  SubSeq(new, 1, Len(log)) = log
<1> DEFINE p == SubSeq(new, 1, Len(log))
<1>1. Len(log) \in Nat /\ Len(new) \in Nat
  BY LenProperties
<1>2. \A j \in 1..Len(log) : new[j] \in Entries
  BY <1>1, ElementOfSeq
<1>3. p \in Seq(Entries) /\ Len(p) = Len(log) /\ \A j \in 1..Len(log) : p[j] = new[j]
  BY <1>1, <1>2, SubSeqProperties
<1> HIDE DEF p
<1>4. \A j \in 1..Len(p) : p[j] = log[j]
  BY <1>3
<1>5. p = log
  BY <1>3, <1>4, SeqEqual
<1> QED BY <1>5 DEF p

\* append_command writes an entry to the log of the leader.
LEMMA AppendCommandLogs ==
    ASSUME QuorumsMeet, IInv, IInv', NEW i \in Server, NEW cmd \in Command, AppendCommand(i, cmd)
    PROVE  LogStep
<1> DEFINE n == node[i]
           e == [term |-> n.currentTerm, command |-> cmd]
           k == Len(n.log) + 1
           r == [n EXCEPT !.log = Append(@, e), !.matchIndex[i] = k]
           b == [Resume(Busy("append", i)) EXCEPT !.successes = 1,
                              !.entry = {[index |-> k, entry |-> e]}]
<1>1. PICK io \in Outcome :
        /\ SetNode(i, Persist(r, io.save1))
        /\ SetCall(i, "client", IF Persist(r, io.save1).healthy THEN b ELSE Idle)
  BY DEF AppendCommand
<1> DEFINE m == Persist(r, io.save1)
<1>2. n.state = "leader" /\ UNCHANGED <<late, elected>> /\ "client" \in Thread
  BY DEF AppendCommand, IsLeader, Thread
<1>3. n \in Nodes /\ io.save1 \in BOOLEAN
  BY Parts, OutcomeType DEF IoType
<1>4. n.log \in Seq(Entries) /\ Len(n.log) \in Nat /\ e \in Entries /\ n.matchIndex \in [Server -> Nat]
  BY <1>3, LenProperties DEF Nodes, Entries
<1>5. /\ Append(n.log, e) \in Seq(Entries) /\ Len(Append(n.log, e)) = Len(n.log) + 1
      /\ \A j \in 1..Len(n.log) : Append(n.log, e)[j] = n.log[j]
  <2> HIDE DEF n, e
  <2> QED BY <1>4, AppendProperties
<1>6. /\ r \in Nodes /\ r.log = Append(n.log, e) /\ r.disk = n.disk
      /\ r.state = n.state /\ r.currentTerm = n.currentTerm
  <2> DEFINE log == Append(n.log, e)
             mi == [n.matchIndex EXCEPT ![i] = k]
  <2> HIDE DEF n, e
  <2>1. mi \in [Server -> Nat]
    BY <1>4
  <2>2. r = [n EXCEPT !.log = log, !.matchIndex = mi]
    BY <1>3 DEF Nodes
  <2> HIDE DEF log, mi, r
  <2>3. log \in Seq(Entries)
    BY <1>5 DEF log
  <2>4. /\ r \in Nodes /\ r.log = log /\ r.disk = n.disk
        /\ r.state = n.state /\ r.currentTerm = n.currentTerm
    BY <1>3, <2>1, <2>2, <2>3, ZenonT(30) DEF Nodes
  <2> QED BY <2>4 DEF log
<1> HIDE DEF r
<1>7. KeepsLog(r, m) /\ m.currentTerm = r.currentTerm
  BY <1>3, <1>6, PersistKeepsLog, PersistEffect
<1>8. InFlight' \subseteq InFlight
  <2> DEFINE d == IF m.healthy THEN b ELSE Idle
  <2>1. Quiet(b)
    <3>1. Busy("append", i) \in Calls
      BY BusyGood, ZenonT(30) DEF GoodCall
    <3>2. Resume(Busy("append", i)) \in Calls /\ Resume(Busy("append", i)).at # "sent"
      <4>1. GoodCall(i, Resume(Busy("append", i)), granted, elected)
        BY BusyGood, ResumeGood
      <4>2. \A c \in Calls : Resume(c).at # "sent"
        BY DEF Resume, Calls
      <4> QED BY <3>1, <4>1, <4>2 DEF GoodCall
    <3> DEFINE q == Resume(Busy("append", i))
    <3> HIDE DEF q
    <3>3. b.at = q.at
      BY <3>2 DEF Calls, q
    <3> HIDE DEF b
    <3> QED BY <3>2, <3>3 DEF Quiet, q
  <2>2. Quiet(d) /\ SetCall(i, "client", d)
    BY <1>1, <2>1, QuietCalls, ZenonT(30)
  <2> HIDE DEF d
  <2> QED BY <1>2, <2>2, QuietFlight
<1>9. SetNode(i, m)
  BY <1>1
<1> HIDE DEF m
<1>10. m.log = Append(n.log, e) /\ m.disk.log \in {m.log, n.disk.log}
  BY <1>6, <1>7 DEF KeepsLog
<1>11. LeadersAppend
  <2>1. Len(m.log) >= Len(n.log) /\ SubSeq(m.log, 1, Len(n.log)) = n.log
    <3> DEFINE log == n.log
               new == Append(n.log, e)
    <3> HIDE DEF n, e
    <3>1. /\ log \in Seq(Entries) /\ Len(log) \in Nat /\ new \in Seq(Entries) /\ m.log = new
          /\ Len(new) = Len(log) + 1 /\ \A j \in 1..Len(log) : new[j] = log[j]
      BY <1>4, <1>5, <1>10
    <3> HIDE DEF log, new
    <3>2. SubSeq(new, 1, Len(log)) = log
      BY <3>1, PrefixIs
    <3> QED BY <3>1, <3>2 DEF log
  <2>2. \A j \in Server : node'[j] = IF j = i THEN m ELSE node[j]
    BY <1>9 DEF SetNode, IInv, TypeOK
  <2>3. ASSUME NEW j \in Server
        PROVE  /\ Len(node[j].log) >= Len(node[j].log)
               /\ SubSeq(node[j].log, 1, Len(node[j].log)) = node[j].log
    <3>1. node[j].log \in Seq(Entries)
      BY Parts DEF Nodes
    <3>2. Len(node[j].log) \in Nat
      BY <3>1, LenProperties
    <3> QED BY <3>1, <3>2, SubSeqFull
  <2> QED BY <2>1, <2>2, <2>3 DEF LeadersAppend
<1>12. ASSUME LogsOK PROVE LogsOK'
  <2>1. e.term = n.currentTerm /\ (m.state = "leader" => m.currentTerm = n.currentTerm)
    BY <1>6, <1>7
  <2> HIDE DEF e
  <2> QED BY <1>2, <1>4, <1>8, <1>9, <1>10, <1>12, <2>1, AppendedLogs, ZenonT(30)
<1> QED BY <1>11, <1>12 DEF LogStep, LogInv

\* What HandleAppendEntries leaves is cut from the log, or merged from it and the
\* entries of the request.
LEMMA MergedLog ==
    ASSUME NEW log \in Seq(Entries), NEW a \in AppendRequests, NEW new,
           a.prevLogIndex <= Len(log),
           \/ a.prevLogIndex > 0 /\ new = SubSeq(log, 1, a.prevLogIndex - 1)
           \/ /\ a.prevLogIndex > 0 => log[a.prevLogIndex].term = a.prevLogTerm
              /\ new = SubSeq(log, 1, a.prevLogIndex) \o a.entries
    PROVE  /\ IsPiece(Whole(new))
           /\ PartOf(Whole(new), Whole(log)) \/ Merged(Whole(new), Whole(log), Carried(a))
<1> DEFINE x == Whole(log)
           z == Whole(new)
           c == Carried(a)
           p == a.prevLogIndex
<1>1. Len(log) \in Nat /\ p \in Nat /\ a.entries \in Seq(Entries) /\ Len(a.entries) \in Nat
  BY LenProperties DEF AppendRequests
<1>2. \A k \in 1..Len(log) : log[k] \in Entries
  BY ElementOfSeq
<1>3. /\ x.prev = 0 /\ x.term = 0 /\ x.entries = log /\ Places(x) = 1..Len(log)
      /\ \A k \in 1..Len(log) : EntryAt(x, k) = log[k]
  BY PieceFields DEF Whole
<1>4. /\ c.prev = p /\ c.term = a.prevLogTerm /\ c.entries = a.entries
  BY PieceFields DEF Carried
<1>5. CASE p > 0 /\ new = SubSeq(log, 1, p - 1)
  <2>1. new \in Seq(Entries) /\ Len(new) = p - 1 /\ \A k \in 1..(p - 1) : new[k] = log[k]
    <3>1. \A k \in 1..(p - 1) : log[k] \in Entries
      BY <1>1, <1>2
    <3> QED BY <1>1, <1>5, <3>1, SubSeqProperties
  <2>2. /\ IsPiece(z) /\ z.prev = 0 /\ z.term = 0 /\ Places(z) = 1..(p - 1)
        /\ \A k \in 1..(p - 1) : EntryAt(z, k) = new[k]
    BY <2>1, PieceFields DEF Whole
  <2> HIDE DEF x, z, p
  <2>3. ASSUME NEW k \in 1..(p - 1) PROVE k \in Places(x) /\ EntryAt(z, k) = EntryAt(x, k)
    <3>1. k \in 1..Len(log)
      BY <1>1 DEF p
    <3> QED BY <1>3, <2>1, <2>2, <3>1
  <2>4. z.prev = 0 /\ x.prev = 0 /\ z.term = x.term /\ 0 \notin Places(x)
    BY <1>1, <1>3, <2>2
  <2>5. PartOf(z, x)
    BY <2>2, <2>3, <2>4 DEF PartOf
  <2> QED BY <2>2, <2>5 DEF x, z
<1>6. CASE /\ p > 0 => log[p].term = a.prevLogTerm
           /\ new = SubSeq(log, 1, p) \o a.entries
  <2> DEFINE s == SubSeq(log, 1, p)
  <2>1. s \in Seq(Entries) /\ Len(s) = p /\ \A k \in 1..p : s[k] = log[k]
    <3>1. \A k \in 1..p : log[k] \in Entries
      BY <1>1, <1>2
    <3> QED BY <1>1, <3>1, SubSeqProperties
  <2>2. new = s \o a.entries
    BY <1>6
  <2> HIDE DEF s
  <2>3. /\ new \in Seq(Entries) /\ Len(new) = p + Len(a.entries)
        /\ \A k \in 1..(p + Len(a.entries)) :
               new[k] = IF k <= p THEN log[k] ELSE a.entries[k - p]
    <3> DEFINE t == a.entries
    <3>1. /\ s \o t \in Seq(Entries) /\ Len(s \o t) = Len(s) + Len(t)
          /\ \A k \in 1..(Len(s) + Len(t)) : (s \o t)[k] = IF k <= Len(s) THEN s[k] ELSE t[k - Len(s)]
      <4> HIDE DEF t
      <4> QED BY <1>1, <2>1, ConcatProperties, ZenonT(30) DEF t
    <3> HIDE DEF t, p
    <3>2. /\ s \o t \in Seq(Entries) /\ Len(s \o t) = p + Len(t)
          /\ \A k \in 1..(p + Len(t)) : (s \o t)[k] = IF k <= p THEN log[k] ELSE t[k - p]
      <4>1. ASSUME NEW k \in 1..(p + Len(t)) PROVE (s \o t)[k] = IF k <= p THEN log[k] ELSE t[k - p]
        <5>1. (s \o t)[k] = IF k <= p THEN s[k] ELSE t[k - p]
          BY <2>1, <3>1
        <5>2. k <= p => s[k] = log[k]
          BY <1>1, <2>1 DEF t
        <5> QED BY <5>1, <5>2
      <4> QED BY <2>1, <3>1, <4>1
    <3> QED BY <2>2, <3>2 DEF t
  <2>4. /\ IsPiece(z) /\ z.prev = 0 /\ Places(z) = 1..(p + Len(a.entries))
        /\ \A k \in 1..(p + Len(a.entries)) : EntryAt(z, k) = new[k]
    BY <2>3, PieceFields
  <2>5. \A k : EntryAt(c, k) = a.entries[k - p]
    BY <1>4 DEF EntryAt
  <2> HIDE DEF x, z, c, p
  <2>6. /\ z.prev = 0 /\ x.prev = 0 /\ c.prev <= Len(x.entries)
        /\ Places(z) = 1..(c.prev + Len(c.entries))
    BY <1>3, <1>4, <2>4 DEF p
  <2>7. c.prev > 0 => EntryAt(x, c.prev).term = c.term
    BY <1>1, <1>3, <1>4, <1>6 DEF p
  <2>8. \A k \in Places(z) : EntryAt(z, k) = IF k <= c.prev THEN EntryAt(x, k) ELSE EntryAt(c, k)
    <3> SUFFICES ASSUME NEW k \in 1..(p + Len(a.entries))
                 PROVE  EntryAt(z, k) = IF k <= p THEN EntryAt(x, k) ELSE EntryAt(c, k)
      BY <1>4, <2>4 DEF p
    <3>1. EntryAt(z, k) = IF k <= p THEN log[k] ELSE a.entries[k - p]
      BY <2>3, <2>4
    <3>2. k <= p => EntryAt(x, k) = log[k]
      BY <1>1, <1>3 DEF p
    <3> QED BY <2>5, <3>1, <3>2
  <2>9. Merged(z, x, c)
    BY <2>6, <2>7, <2>8 DEF Merged
  <2> QED BY <2>4, <2>9 DEF x, z, c
<1> QED BY <1>5, <1>6, ZenonT(30)

\* A request is executed at its destination.
LEMMA HandleLogs ==
    ASSUME QuorumsMeet, IInv, IInv', NEW r, GoodRequest(r, elected), NEW io \in Outcome,
           r.kind = "append" => r \in InFlight, SetNode(r.dst, Handle(r, io).node),
           InFlight' \subseteq InFlight, elected' = elected
    PROVE  LogStep
<1> DEFINE i == r.dst
           n == node[i]
           m == Handle(r, io).node
<1>1. /\ r \in Requests /\ r.src # r.dst /\ r.src \in Server /\ i \in Server
      /\ r.kind = "append" => <<r.term, r.src>> \in elected
      /\ r.kind = "vote" => r \in VoteRequests
      /\ r.kind # "vote" => r \in AppendRequests /\ r.kind = "append"
  BY DEF GoodRequest, Requests, VoteRequests, AppendRequests
<1>2. n \in Nodes /\ Sound(n) /\ io \in IoType /\ n.log \in Seq(Entries)
  <2>1. n \in Nodes /\ Sound(n) /\ io \in IoType
    BY <1>1, Parts, OutcomeType
  <2> QED BY <2>1 DEF Nodes
<1>3. CASE r.kind = "vote"
  <2>1. m = HandleRequestVote(n, r, io).node
    BY <1>3, ZenonT(30) DEF Handle
  <2>2. KeepsLog(n, m)
    BY <1>1, <1>2, <1>3, <2>1, RequestVoteKeepsLog, ZenonT(30)
  <2> HIDE DEF m
  <2> QED BY <1>1, <2>2, NodeQuiet, ZenonT(30) DEF m
<1>4. CASE r.kind # "vote"
  <2>1. m = HandleAppendEntries(n, r, io).node
    BY <1>4 DEF Handle
  <2>2. r \in AppendRequests /\ r \in InFlight /\ <<r.term, r.src>> \in elected
    BY <1>1, <1>4
  <2> DEFINE Placed == /\ r.prevLogIndex <= Len(n.log)
                       /\ \/ r.prevLogIndex > 0 /\ m.log = SubSeq(n.log, 1, r.prevLogIndex - 1)
                          \/ /\ r.prevLogIndex > 0 => n.log[r.prevLogIndex].term = r.prevLogTerm
                             /\ m.log = SubSeq(n.log, 1, r.prevLogIndex) \o r.entries
  <2>3. \/ KeepsLog(n, m)
        \/ /\ Placed /\ m.disk.log \in {n.log, n.disk.log, m.log}
           /\ m.state = "leader" => n.state = "leader" /\ r.term = n.currentTerm
    <3> DEFINE h == HandleAppendEntries(n, r, io).node
    <3> HIDE DEF n, i
    <3>1. LET prev == r.prevLogIndex
          IN  \/ KeepsLog(n, h)
              \/ /\ prev <= Len(n.log) /\ h.disk.log \in {n.log, n.disk.log, h.log}
                 /\ h.state = "leader" => n.state = "leader" /\ r.term = n.currentTerm
                 /\ \/ prev > 0 /\ h.log = SubSeq(n.log, 1, prev - 1)
                    \/ /\ prev > 0 => n.log[prev].term = r.prevLogTerm
                       /\ h.log = SubSeq(n.log, 1, prev) \o r.entries
      BY <1>2, <2>2, AppendEntriesLog, ZenonT(30)
    <3> HIDE DEF h, m
    <3>2. m = h
      BY <2>1 DEF h
    <3> QED BY <3>1, <3>2, ZenonT(30)
  <2> HIDE DEF m
  <2>4. CASE KeepsLog(n, m)
    BY <1>1, <2>4, NodeQuiet DEF m
  <2>5. CASE /\ Placed /\ m.disk.log \in {n.log, n.disk.log, m.log}
             /\ m.state = "leader" => n.state = "leader" /\ r.term = n.currentTerm
    <3>1. m.state # "leader"
      <4> SUFFICES ASSUME m.state = "leader" PROVE FALSE
        OBVIOUS
      <4>1. <<n.currentTerm, i>> \in elected /\ r.term = n.currentTerm
        BY <1>1, <2>5, Parts, ZenonT(30) DEF VotesOK, LeadersElected
      <4> QED BY <1>1, <2>2, <4>1, OneLeader DEF ElectionSafety
    <3>2. LeadersAppend
      BY <1>1, <3>1, SameLogAppends DEF m
    <3>3. /\ IsPiece(Whole(m.log))
          /\ PartOf(Whole(m.log), Whole(n.log)) \/ Merged(Whole(m.log), Whole(n.log), Carried(r))
      BY <1>2, <2>2, <2>5, MergedLog, ZenonT(30)
    <3>4. /\ Whole(n.log) \in Pieces /\ Whole(n.disk.log) \in Pieces /\ Carried(r) \in Pieces
      BY <1>1, <2>2 DEF Pieces
    <3>5. Derived(Whole(m.log))
      BY <3>3, <3>4, ZenonT(30) DEF Derived
    <3>6. Derived(Whole(m.disk.log))
      BY <2>5, <3>4, <3>5, PieceDerived, ZenonT(30)
    <3>7. \A q \in InFlight' : Derived(Carried(q))
      BY FlightDerived
    <3>8. ASSUME LogsOK PROVE LogsOK'
      BY <1>1, <3>1, <3>5, <3>6, <3>7, <3>8, NodeLogs, ZenonT(30) DEF m
    <3> QED BY <3>2, <3>8 DEF LogStep, LogInv
  <2> QED BY <2>3, <2>4, <2>5, ZenonT(30)
<1> QED BY <1>3, <1>4

\* The destination executes the request of a waiting thread.
LEMMA RpcExecuteLogs ==
    ASSUME QuorumsMeet, IInv, IInv', NEW i \in Server, NEW th \in Thread, RpcExecute(i, th)
    PROVE  LogStep
<1> DEFINE c == call[i][th]
           r == c.req
<1>1. PICK io \in Outcome :
        /\ SetNode(r.dst, Handle(r, io).node)
        /\ \/ SetCall(i, th, [c EXCEPT !.at = "replied", !.reply = Handle(r, io).reply])
           \/ SetCall(i, th, [c EXCEPT !.at = "replied"])
  BY ZenonT(30) DEF RpcExecute
<1>2. c.at = "sent" /\ UNCHANGED <<late, elected>> /\ c \in Calls
  BY Parts DEF RpcExecute
<1>3. GoodRequest(r, elected)
  BY <1>2, SentGood
<1>4. r.kind = "append" => r \in InFlight
  BY <1>2 DEF InFlight
<1>5. InFlight' \subseteq InFlight
  <2> HIDE DEF c, r
  <2>1. Quiet([c EXCEPT !.at = "replied", !.reply = Handle(r, io).reply])
    BY <1>2, QuietCalls, ZenonT(30)
  <2>2. Quiet([c EXCEPT !.at = "replied"])
    BY <1>2, QuietCalls, ZenonT(30)
  <2>3. \A q \in late' : q \in late
    BY <1>2
  <2> QED BY <1>1, <2>1, <2>2, <2>3, QuietFlight
<1> HIDE DEF r
<1> QED BY <1>1, <1>2, <1>3, <1>4, <1>5, HandleLogs

\* A request whose caller stopped waiting is executed.
LEMMA LateExecuteLogs ==
    ASSUME QuorumsMeet, IInv, IInv', NEW r \in late, LateExecute(r)
    PROVE  LogStep
<1>1. PICK io \in Outcome : SetNode(r.dst, Handle(r, io).node)
  BY DEF LateExecute
<1>2. late' = late \ {r} /\ UNCHANGED <<call, elected>>
  BY DEF LateExecute
<1>3. GoodRequest(r, elected)
  BY Parts DEF LateOK
<1>4. r.kind = "append" => r \in InFlight
  BY DEF InFlight
<1>5. InFlight' \subseteq InFlight
  BY <1>2 DEF InFlight
<1> QED BY <1>1, <1>2, <1>3, <1>4, <1>5, HandleLogs

\* A crash leaves the log of the state file.
LEMMA CrashLogs ==
    ASSUME IInv, IInv', NEW i \in Server, Crash(i)
    PROVE  LogStep
<1> DEFINE n == node[i]
           b == Loaded(n.disk)
           m == [b EXCEPT !.up = FALSE]
           sent == {call[i][th].req : th \in {t \in Thread : call[i][t].at = "sent"}}
<1>1. /\ SetNode(i, m) /\ call' = [call EXCEPT ![i] = [th \in Thread |-> Idle]]
      /\ late' \subseteq late \cup sent /\ elected' = elected
  BY DEF Crash
<1>2. n \in Nodes /\ Sound(n) /\ n.disk \in Images /\ ValidState(n.disk)
  <2>1. n \in Nodes /\ Sound(n)
    BY Parts
  <2> QED BY <2>1, ZenonT(30) DEF Nodes, Sound
<1>3. b \in Nodes /\ b.disk = n.disk /\ b.log = n.disk.log /\ b.state = "follower"
  <2> HIDE DEF n
  <2>1. b \in Nodes /\ b.disk = n.disk /\ b.state = "follower"
    BY <1>2, LoadedEffect
  <2>2. b.log = n.disk.log
    BY DEF Loaded
  <2> QED BY <2>1, <2>2
<1>4. m.log = n.disk.log /\ m.disk = n.disk /\ m.state = "follower"
  <2> HIDE DEF b
  <2> QED BY <1>3 DEF Nodes
<1> HIDE DEF b, m
<1>5. InFlight' \subseteq InFlight
  <2>1. \A j \in Server, t \in Thread : call'[j][t] = IF j = i THEN Idle ELSE call[j][t]
    BY <1>1 DEF IInv, TypeOK
  <2>2. Idle.at # "sent"
    BY DEF Idle
  <2>3. ASSUME NEW r \in late', r.kind = "append" PROVE r \in InFlight
    BY <1>1, <2>3 DEF InFlight
  <2>4. ASSUME NEW j \in Server, NEW t \in Thread, call'[j][t].at = "sent",
               call'[j][t].req.kind = "append"
        PROVE  call'[j][t].req \in InFlight
    <3>1. call'[j][t] = call[j][t]
      BY <2>1, <2>2, <2>4
    <3> QED BY <2>4, <3>1 DEF InFlight
  <2>5. InFlight' = {r \in late' : r.kind = "append"} \cup
            UNION {{call'[j][t].req : t \in {u \in Thread : call'[j][u].at = "sent" /\
                                                            call'[j][u].req.kind = "append"}}
                       : j \in Server}
    BY DEF InFlight
  <2> QED BY <2>3, <2>4, <2>5
<1>6. LeadersAppend
  BY <1>1, <1>4, SameLogAppends
<1>7. ASSUME LogsOK PROVE LogsOK'
  <2>1. Derived(Whole(m.log)) /\ Derived(Whole(m.disk.log))
    <3>1. Derived(Whole(n.disk.log))
      BY PieceDerived DEF Pieces
    <3> QED BY <1>4, <3>1
  <2>2. \A r \in InFlight' : Derived(Carried(r))
    BY <1>5, FlightDerived
  <2> QED BY <1>1, <1>4, <1>7, <2>1, <2>2, NodeLogs, ZenonT(30)
<1> QED BY <1>6, <1>7 DEF LogStep, LogInv

\* A restart loads the log of the state file.
LEMMA RestartLogs ==
    ASSUME IInv, IInv', NEW i \in Server, Restart(i)
    PROVE  LogStep
<1> DEFINE n == node[i]
           m == Started(i, n.disk)
<1>1. /\ SetNode(i, m) /\ elected \subseteq elected' /\ UNCHANGED <<call, late>>
  BY ZenonT(30) DEF Restart
<1>2. n \in Nodes /\ Sound(n) /\ n.disk \in Images /\ ValidState(n.disk)
  <2>1. n \in Nodes /\ Sound(n)
    BY Parts
  <2> QED BY <2>1, ZenonT(30) DEF Nodes, Sound
<1>3. m.log = n.disk.log /\ m.disk.log = n.disk.log /\ (Server # {i} => m.state # "leader")
  <2> HIDE DEF n
  <2> QED BY <1>2, StartedEffect, StartedLog, ZenonT(30)
<1> HIDE DEF m
<1>4. n.state = "leader" => n.disk.log = n.log
  BY <1>2 DEF Sound, Image
<1>5. LeadersAppend
  BY <1>1, <1>3, <1>4, SameLogAppends
<1>6. InFlight' = InFlight
  BY <1>1 DEF InFlight
<1>7. ASSUME LogsOK, Server # {i} PROVE LogsOK'
  <2>1. Derived(Whole(m.log)) /\ Derived(Whole(m.disk.log))
    <3>1. Derived(Whole(n.disk.log))
      BY PieceDerived DEF Pieces
    <3> QED BY <1>3, <3>1
  <2>2. \A r \in InFlight' : Derived(Carried(r))
    BY <1>6, FlightDerived
  <2> QED BY <1>1, <1>3, <1>7, <2>1, <2>2, NodeLogs, ZenonT(30)
<1> QED BY <1>5, <1>7 DEF LogStep, LogInv

\* All logs are empty at first.
LEMMA InitLogs == Init => LogInv
<1> SUFFICES ASSUME Init PROVE LogsOK
  BY DEF LogInv
<1>1. EmptyDisk \in Images /\ ValidState(EmptyDisk) /\ EmptyDisk.log = << >>
  <2>1. << >> \in Seq(Entries) /\ Len(<< >>) = 0
    BY EmptySeq
  <2> QED BY <2>1, BoundAssumption DEF EmptyDisk, Images, MaybeNode, ValidState
<1>2. \A i \in Server : node[i] = Started(i, EmptyDisk)
  BY DEF Init
<1>3. \A i \in Server : node[i].log = << >> /\ node[i].disk.log = << >>
  BY <1>1, <1>2, StartedLog
<1>4. InFlight = {}
  <2>1. Idle.at # "sent"
    BY DEF Idle
  <2>2. \A i \in Server, t \in Thread : call[i][t].at # "sent"
    BY <2>1 DEF Init
  <2>3. late = {}
    BY DEF Init
  <2> QED BY <2>2, <2>3 DEF InFlight
<1>5. \A x \in Pieces : x = Whole(<< >>)
  BY <1>3, <1>4 DEF Pieces
<1>6. \A x \in Pieces : Places(x) = {}
  <2>1. << >> \in Seq(Entries) /\ Len(<< >>) = 0
    BY EmptySeq
  <2>2. Places(Whole(<< >>)) = 1..0
    BY <2>1, PieceFields, ZenonT(30)
  <2> QED BY <1>5, <2>2
<1> QED BY <1>6 DEF LogsOK, Agree

\* Every step keeps the logs in order.
LEMMA NextLogs == ASSUME QuorumsMeet, IInv, IInv', [Next]_vars PROVE LogStep
<1>1. CASE UNCHANGED vars
  <2>1. UNCHANGED <<node, call, late, elected>>
    BY <1>1 DEF vars
  <2>2. LogInv => LogInv'
    <3>1. InFlight' = InFlight
      BY <2>1 DEF InFlight
    <3>2. Pieces' = Pieces
      BY <2>1, <3>1 DEF Pieces
    <3> QED BY <2>1, <3>2 DEF LogInv, LogsOK
  <2>3. ASSUME NEW i \in Server PROVE LeadersAppend
    <3>1. SetNode(i, node[i])
      BY <2>1 DEF SetNode, IInv, TypeOK
    <3> QED BY <3>1, SameLogAppends
  <2>4. LeadersAppend
    BY <2>3 DEF LeadersAppend
  <2> QED BY <2>2, <2>4 DEF LogStep
<1>2. ASSUME NEW i \in Server, StartElection(i) PROVE LogStep
  BY <1>2, StartElectionLogs
<1>3. ASSUME NEW i \in Server, ElectionReply(i) PROVE LogStep
  BY <1>3, ElectionReplyLogs
<1>4. ASSUME NEW i \in Server, ElectionTally(i) PROVE LogStep
  BY <1>4, ElectionTallyLogs
<1>5. ASSUME NEW i \in Server, StartHeartbeat(i) PROVE LogStep
  BY <1>5, StartHeartbeatLogs
<1>6. ASSUME NEW i \in Server, NEW cmd \in Command, AppendCommand(i, cmd) PROVE LogStep
  BY <1>6, AppendCommandLogs
<1>7. ASSUME NEW i \in Server, AppendReply(i) PROVE LogStep
  BY <1>7, AppendReplyLogs
<1>8. ASSUME NEW i \in Server, AppendCommit(i) PROVE LogStep
  BY <1>8, AppendCommitLogs
<1>9. ASSUME NEW i \in Server, Crash(i) PROVE LogStep
  BY <1>9, CrashLogs
<1>10. ASSUME NEW i \in Server, Restart(i) PROVE LogStep
  BY <1>10, RestartLogs
<1>11. ASSUME NEW i \in Server, NEW th \in Thread, SendAppend(i, th) PROVE LogStep
  BY <1>11, SendAppendLogs
<1>12. ASSUME NEW i \in Server, NEW th \in Thread, HeartbeatReply(i, th) PROVE LogStep
  BY <1>12, HeartbeatReplyLogs
<1>13. ASSUME NEW i \in Server, NEW th \in Thread, RpcExecute(i, th) PROVE LogStep
  BY <1>13, RpcExecuteLogs
<1>14. ASSUME NEW i \in Server, NEW th \in Thread, RpcFail(i, th) PROVE LogStep
  BY <1>14, RpcFailLogs
<1>15. ASSUME NEW r \in late, LateExecute(r) PROVE LogStep
  BY <1>15, LateExecuteLogs
<1> QED BY <1>1, <1>2, <1>3, <1>4, <1>5, <1>6, <1>7, <1>8, <1>9, <1>10, <1>11, <1>12,
           <1>13, <1>14, <1>15 DEF Next

\* Two logs that hold an entry of the same term at the same index are the same up to it.
LEMMA LogsAgree == IInv /\ LogInv => LogMatching
<1> SUFFICES ASSUME IInv, LogInv, NEW i \in Server, NEW j \in Server,
                    NEW k \in 1..MinOf(Len(node[i].log), Len(node[j].log)),
                    node[i].log[k].term = node[j].log[k].term, NEW m \in 1..k
             PROVE  node[i].log[m] = node[j].log[m]
  BY DEF LogMatching
<1>1. CASE i = j
  BY <1>1
<1>2. CASE i # j
  <2> DEFINE x == Whole(node[i].log)
             y == Whole(node[j].log)
  <2>1. node[i].log \in Seq(Entries) /\ node[j].log \in Seq(Entries)
    BY Parts, ZenonT(30) DEF Nodes
  <2>2. Len(node[i].log) \in Nat /\ Len(node[j].log) \in Nat
    BY <2>1, LenProperties, ZenonT(30)
  <2>3. k \in 1..Len(node[i].log) /\ k \in 1..Len(node[j].log)
        /\ m \in 1..Len(node[i].log) /\ m \in 1..Len(node[j].log) /\ m <= k
    BY <2>2 DEF MinOf
  <2>4. /\ Places(x) = 1..Len(node[i].log) /\ Places(y) = 1..Len(node[j].log)
        /\ \A p \in 1..Len(node[i].log) : EntryAt(x, p) = node[i].log[p]
        /\ \A p \in 1..Len(node[j].log) : EntryAt(y, p) = node[j].log[p]
    BY <2>1, PieceFields
  <2>5. x \in Pieces /\ y \in Pieces
    BY DEF Pieces
  <2>6. Agree(x, y)
    BY <1>2, <2>5 DEF LogInv, LogsOK
  <2> HIDE DEF x, y
  <2>7. k \in Places(x) \cap Places(y) /\ m \in Places(x) \cap Places(y)
        /\ EntryAt(x, k).term = EntryAt(y, k).term
    BY <2>3, <2>4
  <2>8. EntryAt(x, m) = EntryAt(y, m)
    BY <2>3, <2>6, <2>7 DEF Agree
  <2> QED BY <2>3, <2>4, <2>8
<1> QED BY <1>1, <1>2

(***************************************************************************)
(* The theorems, for every set of servers and every bound.                 *)
(***************************************************************************)
\* The inductive invariant holds in every reachable state of RaftNode clusters
\* of any size.
THEOREM Invariance == Spec => []IInv
<1>1. Init => IInv
  BY InitHolds
<1>2. IInv /\ [Next]_vars => IInv'
  BY NextKeeps
<1> QED BY <1>1, <1>2, PTL DEF Spec

\* The fields of RaftNode, its state file, the RPC threads and the messages keep
\* their types.
THEOREM TypeCorrect == Spec => []TypeOK
<1>1. IInv => TypeOK
  BY DEF IInv
<1> QED BY <1>1, Invariance, PTL

\* persist_state_locked: whenever mutex_ is free the state file of a healthy node
\* is its memory, and is valid.
THEOREM Durability == Spec => []HealthyIsDurable
<1>1. IInv => HealthyIsDurable
  BY DEF IInv, VotesOK, NodesSound, Sound, HealthyIsDurable
<1> QED BY <1>1, Invariance, PTL

\* start_election and handle_request_vote: every leader has a quorum of durable,
\* binding votes behind it.
THEOREM LeadersHaveQuorum == Spec => []LeadersBacked
<1>1. IInv => LeadersBacked
  BY DEF IInv, VotesOK
<1> QED BY <1>1, Invariance, PTL

\* leader_id(): a node redirects only to a node that won the election of its term.
THEOREM RedirectsToElected == Spec => []KnownLeaderWasElected
<1>1. IInv => KnownLeaderWasElected
  BY ZenonT(30) DEF IInv, VotesOK, LeadersElected, KnownLeaderWasElected
<1> QED BY <1>1, Invariance, PTL

\* No step takes the term of a healthy node back: not a reply or request of an old
\* term, not a crash, not a restart from the state file.
THEOREM TermsAdvance == Spec => TermNeverDecreases
<1>1. IInv /\ [Next]_vars =>
        [\A i \in Server : node[i].healthy => node'[i].currentTerm >= node[i].currentTerm]_vars
  BY NextKeeps DEF NodesSteady, Steady
<1> QED BY <1>1, Invariance, PTL DEF Spec, TermNeverDecreases

\* mark_unhealthy_locked is a latch: an unhealthy node changes nothing until its
\* process ends.
THEOREM LatchHolds == Spec => UnhealthyIsFrozen
<1>1. IInv /\ [Next]_vars =>
        [\A i \in Server : node[i].up /\ ~node[i].healthy /\ node'[i].up =>
             node'[i] = node[i]]_vars
  BY NextKeeps DEF NodesSteady, Steady
<1> QED BY <1>1, Invariance, PTL DEF Spec, UnhealthyIsFrozen

\* Two majorities of peers_ overlap.
LEMMA QuorumsIntersect == QuorumsMeet
<1> SUFFICES ASSUME NEW P \in SUBSET Server, NEW Q \in SUBSET Server,
                    Cardinality(P) >= QuorumSize, Cardinality(Q) >= QuorumSize
             PROVE  \E v \in P : v \in Q
  BY SMTT(30), ZenonT(30) DEF QuorumsMeet
<1>1. /\ Cardinality(P) \in Nat /\ Cardinality(Q) \in Nat /\ Cardinality(Server) \in Nat
  BY ServerAssumption, FS_Subset, FS_CardinalityType, SMTT(30), ZenonT(30)
<1>2. Cardinality(P) + Cardinality(Q) > Cardinality(Server)
  BY <1>1, SMTT(30), ZenonT(30) DEF QuorumSize
<1>3. P \cap Q # {}
  BY <1>2, ServerAssumption, FS_MajoritiesIntersect, SMTT(30), ZenonT(30)
<1> QED BY <1>3

\* start_election and handle_request_vote: at most one leader per term, in every
\* cluster and whatever crashes, fails or arrives late.
THEOREM OneLeaderPerTerm == Spec => []ElectionSafety
BY OneLeader, QuorumsIntersect, Invariance, PTL

\* In every reachable state, all logs, state files and requests in flight agree up to
\* the last entry they hold of the same term at the same index.
THEOREM LogsInOrder == Spec => []LogInv
<1>1. Init => LogInv
  BY InitLogs
<1>2. IInv /\ IInv' /\ LogInv /\ [Next]_vars => LogInv'
  BY NextLogs, QuorumsIntersect, SMTT(30), ZenonT(30) DEF LogStep
<1> QED BY <1>1, <1>2, Invariance, PTL DEF Spec

\* Log Matching, for clusters of any size and through crashes, failed saves, lost and
\* late requests: what AppendEntries' check of prev_log_index and prev_log_term is for.
THEOREM LogsMatch == Spec => []LogMatching
BY LogsAgree, LogsInOrder, Invariance, PTL

\* A node that leads before and after a step has only appended to its log.
THEOREM LeadersOnlyAppend == Spec => LeaderAppendOnly
<1>1. IInv /\ IInv' /\ [Next]_vars =>
        [\A i \in Server : node[i].state = "leader" /\ node'[i].state = "leader" =>
           /\ Len(node'[i].log) >= Len(node[i].log)
           /\ SubSeq(node'[i].log, 1, Len(node[i].log)) = node[i].log]_vars
  BY NextLogs, QuorumsIntersect, SMTT(30), ZenonT(30) DEF LogStep, LeadersAppend
<1> QED BY <1>1, Invariance, PTL DEF Spec, LeaderAppendOnly
=============================================================================
