--------------------------- MODULE RaftVoteProofs ---------------------------
(***************************************************************************)
(* The invariant of votes and leaders: what the functions of RaftNode do to *)
(* one node, and that every step keeps IInv.                               *)
(***************************************************************************)
EXTENDS RaftInvariant, TLAPS

\* Zenon is tried before the SMT solver, which is given more time than by default.
USE ZenonT(5), SMTT(30)

(***************************************************************************)
(* Sequences.                                                              *)
(***************************************************************************)
\* The length and the domain of a sequence.
LEMMA LenProperties ==
    ASSUME NEW S, NEW seq \in Seq(S)
    PROVE  Len(seq) \in Nat /\ seq \in [1..Len(seq) -> S] /\ DOMAIN seq = 1..Len(seq)
  OBVIOUS

\* The elements of a sequence.
LEMMA ElementOfSeq ==
    ASSUME NEW S, NEW seq \in Seq(S), NEW n \in 1..Len(seq)
    PROVE  seq[n] \in S
  OBVIOUS

\* The empty sequence is the only one of length 0.
LEMMA EmptySeq ==
    ASSUME NEW S
    PROVE  /\ <<>> \in Seq(S) /\ Len(<<>>) = 0
           /\ \A seq \in Seq(S) : seq # <<>> => Len(seq) \in Nat \ {0}
  OBVIOUS

\* A part of a sequence.
LEMMA SubSeqProperties ==
    ASSUME NEW S, NEW s, NEW m \in Int, NEW n \in Int, \A i \in m..n : s[i] \in S
    PROVE  /\ SubSeq(s, m, n) \in Seq(S)
           /\ Len(SubSeq(s, m, n)) = IF m <= n THEN n - m + 1 ELSE 0
           /\ \A i \in 1..(n - m + 1) : SubSeq(s, m, n)[i] = s[m + i - 1]
  OBVIOUS

\* The whole of a sequence.
LEMMA SubSeqFull ==
    ASSUME NEW S, NEW seq \in Seq(S)
    PROVE  SubSeq(seq, 1, Len(seq)) = seq
  OBVIOUS

\* Two sequences joined.
LEMMA ConcatProperties ==
    ASSUME NEW S, NEW s1 \in Seq(S), NEW s2 \in Seq(S)
    PROVE  /\ s1 \o s2 \in Seq(S) /\ Len(s1 \o s2) = Len(s1) + Len(s2)
           /\ \A i \in 1..(Len(s1) + Len(s2)) :
                 (s1 \o s2)[i] = IF i <= Len(s1) THEN s1[i] ELSE s2[i - Len(s1)]
  OBVIOUS

\* Sequences with the same elements.
LEMMA SeqEqual ==
    ASSUME NEW S, NEW s \in Seq(S), NEW t \in Seq(S), Len(s) = Len(t),
           \A i \in 1..Len(s) : s[i] = t[i]
    PROVE  s = t
  OBVIOUS

\* One more element.
LEMMA AppendProperties ==
    ASSUME NEW S, NEW seq \in Seq(S), NEW elt \in S
    PROVE  /\ Append(seq, elt) \in Seq(S) /\ Append(seq, elt) # <<>>
           /\ Len(Append(seq, elt)) = Len(seq) + 1
           /\ \A i \in 1..Len(seq) : Append(seq, elt)[i] = seq[i]
           /\ Append(seq, elt)[Len(seq) + 1] = elt
  OBVIOUS

(***************************************************************************)
(* One node.                                                               *)
(***************************************************************************)

IoType == [save1 : BOOLEAN, save2 : BOOLEAN, accepts : Nat, fate : {"ok", "reject", "save"}]

\* The environment's choices are records of I/O outcomes.
LEMMA OutcomeType == Outcome \subseteq IoType
<1>1. \A s, t \in BOOLEAN, k \in Nat, f \in {"ok", "reject", "save"} : Io(s, t, k, f) \in IoType
  BY DEF Io, IoType
<1>2. 0..(MaxLog - 1) \subseteq Nat
  BY BoundAssumption
<1>3. IoOk \in IoType
  BY <1>1, ZenonT(30) DEF IoOk
<1>4. IoFail \subseteq IoType
  BY <1>1, <1>2, ZenonT(30) DEF IoFail
<1> QED BY <1>3, <1>4 DEF Outcome

\* mark_unhealthy_locked keeps the term, the vote, the log and the state file.
LEMMA MarkUnhealthyEffect ==
    ASSUME NEW n \in Nodes
    PROVE  LET m == MarkUnhealthy(n)
           IN  /\ m \in Nodes /\ ~m.healthy
               /\ m.up = n.up /\ m.currentTerm = n.currentTerm /\ m.votedFor = n.votedFor
               /\ m.log = n.log /\ m.disk = n.disk
               /\ n.healthy => m.state = "follower" /\ m.leaderId = NoNode /\ m.votes = {}
               /\ ~n.healthy => m = n
BY ZenonT(30) DEF MarkUnhealthy, Nodes, NoIndexes, MaybeNode

\* What is saved is a state image.
LEMMA ImageType == ASSUME NEW n \in Nodes PROVE Image(n) \in Images
BY DEF Image, Images, Nodes

\* persist_state_locked: after a success the state file is the memory image and
\* nothing else changed; after a failure the node is latched and the file kept.
LEMMA PersistEffect ==
    ASSUME NEW n \in Nodes, NEW ok \in BOOLEAN
    PROVE  LET m == Persist(n, ok)
           IN  /\ m \in Nodes
               /\ m.up = n.up /\ m.currentTerm = n.currentTerm /\ m.votedFor = n.votedFor
               /\ m.log = n.log
               /\ m.healthy => /\ n.healthy /\ m = [n EXCEPT !.disk = Image(n)]
                               /\ m.disk = Image(m) /\ ValidState(m.disk)
               /\ ~m.healthy => m = MarkUnhealthy(n) /\ m.disk = n.disk
<1> DEFINE m == Persist(n, ok)
<1>1. CASE ~n.healthy
  BY <1>1, MarkUnhealthyEffect DEF Persist
<1>2. CASE n.healthy /\ ok /\ ValidState(Image(n))
  <2>1. m = [n EXCEPT !.disk = Image(n)]
    BY <1>2 DEF Persist
  <2>2. m \in Nodes
    BY <2>1, ImageType, ZenonT(30) DEF Nodes
  <2>3. m.healthy /\ m.disk = Image(n) /\ m.disk = Image(m)
    BY <2>1, <1>2 DEF Nodes, Image
  <2> QED BY <1>2, <2>1, <2>2, <2>3, ZenonT(30) DEF Nodes
<1>3. CASE n.healthy /\ ~(ok /\ ValidState(Image(n)))
  BY <1>3, MarkUnhealthyEffect DEF Persist
<1> QED BY <1>1, <1>2, <1>3 DEF Nodes
----------------------------------------------------------------------------
(***************************************************************************)
(* What the functions of the class do to a sound node.                     *)
(***************************************************************************)
\* From n to m the term and the vote stay, in memory and on disk, and m plays the
\* role of n unless it was latched on the way.
SameTerm(n, m) ==
    /\ m \in Nodes /\ Sound(m) /\ m.up = n.up
    /\ m.currentTerm = n.currentTerm /\ m.votedFor = n.votedFor
    /\ m.disk.currentTerm = n.disk.currentTerm /\ m.disk.votedFor = n.disk.votedFor
    /\ m.healthy => /\ n.healthy /\ m.state = n.state
                    /\ m.leaderId = n.leaderId /\ m.votes = n.votes
    /\ ~n.healthy => m = n

\* Saving a node of which only the log and the indexes changed.
LEMMA PersistSameTerm ==
    ASSUME NEW n \in Nodes, Sound(n), n.healthy, NEW r \in Nodes, NEW ok \in BOOLEAN,
           r.healthy, r.up = n.up, r.state = n.state, r.leaderId = n.leaderId,
           r.votes = n.votes, r.currentTerm = n.currentTerm, r.votedFor = n.votedFor,
           r.disk = n.disk
    PROVE  SameTerm(n, Persist(r, ok)) /\ Persist(r, ok).log = r.log
<1> DEFINE m == Persist(r, ok)
<1>1. m \in Nodes /\ m.up = n.up /\ m.currentTerm = n.currentTerm
      /\ m.votedFor = n.votedFor /\ m.log = r.log
  BY PersistEffect
<1>2. CASE m.healthy
  <2>1. m = [r EXCEPT !.disk = Image(r)] /\ m.disk = Image(m) /\ ValidState(m.disk)
    BY <1>2, PersistEffect
  <2>2. m.state = n.state /\ m.leaderId = n.leaderId /\ m.votes = n.votes
    BY <2>1 DEF Nodes
  <2>3. m.disk.currentTerm = n.disk.currentTerm /\ m.disk.votedFor = n.disk.votedFor
    BY <1>1, <2>1 DEF Image, Sound
  <2> QED BY <1>1, <1>2, <2>1, <2>2, <2>3 DEF SameTerm, Sound
<1>3. CASE ~m.healthy
  <2>1. m = MarkUnhealthy(r) /\ m.disk = n.disk
    BY <1>3, PersistEffect
  <2>2. m.state = "follower" /\ m.leaderId = NoNode
    BY <2>1, MarkUnhealthyEffect
  <2> QED BY <1>1, <1>3, <2>1, <2>2 DEF SameTerm, Sound
<1> QED BY <1>1, <1>2, <1>3 DEF Nodes

\* Latching a sound node.
LEMMA MarkSameTerm ==
    ASSUME NEW n \in Nodes, Sound(n)
    PROVE  SameTerm(n, MarkUnhealthy(n))
BY MarkUnhealthyEffect DEF SameTerm, Sound

\* ... in two steps.
LEMMA SameTermTransitive ==
    ASSUME NEW n, NEW m, NEW r, SameTerm(n, m), SameTerm(m, r)
    PROVE  SameTerm(n, r)
BY DEF SameTerm

\* become_follower: a new term without a vote, or a latched node.
LEMMA BecomeFollowerEffect ==
    ASSUME NEW n \in Nodes, Sound(n), n.healthy, NEW term \in Nat, NEW ok \in BOOLEAN
    PROVE  LET m == BecomeFollower(n, term, ok)
           IN  /\ m \in Nodes /\ Sound(m) /\ m.up = n.up /\ m.log = n.log
               /\ m.currentTerm = term /\ m.votedFor = NoNode
               /\ m.state = "follower" /\ m.leaderId = NoNode
               /\ ~m.healthy => m.disk = n.disk
<1> DEFINE r == [n EXCEPT !.state = "follower", !.currentTerm = term, !.votedFor = NoNode,
                          !.votes = {}, !.nextIndex = NoIndexes, !.matchIndex = NoIndexes,
                          !.leaderId = NoNode]
           m == BecomeFollower(n, term, ok)
<1>1. r \in Nodes /\ r.healthy /\ r.up = n.up /\ r.log = n.log /\ r.currentTerm = term
      /\ r.votedFor = NoNode /\ r.state = "follower" /\ r.leaderId = NoNode /\ r.disk = n.disk
  BY ZenonT(30) DEF Nodes, NoIndexes, MaybeNode
<1>2. m = Persist(r, ok)
  BY DEF BecomeFollower
<1> HIDE DEF r, m
<1>3. m \in Nodes /\ m.up = n.up /\ m.log = n.log /\ m.currentTerm = term
      /\ m.votedFor = NoNode
  BY <1>1, <1>2, PersistEffect
<1>4. CASE m.healthy
  <2>1. m = [r EXCEPT !.disk = Image(r)] /\ m.disk = Image(m) /\ ValidState(m.disk)
    BY <1>1, <1>2, <1>4, PersistEffect
  <2>2. m.state = "follower" /\ m.leaderId = NoNode
    BY <1>1, <2>1 DEF Nodes
  <2> QED BY <1>3, <1>4, <2>1, <2>2 DEF Sound, m
<1>5. CASE ~m.healthy
  <2>1. m = MarkUnhealthy(r) /\ m.disk = n.disk
    BY <1>1, <1>2, <1>5, PersistEffect
  <2>2. m.state = "follower" /\ m.leaderId = NoNode
    BY <1>1, <2>1, MarkUnhealthyEffect
  <2> QED BY <1>3, <1>5, <2>1, <2>2 DEF Sound, m
<1> QED BY <1>3, <1>4, <1>5 DEF Nodes

\* Only the log and the indexes of a node differ.
SameRole(n, r) ==
    /\ r \in Nodes /\ r.healthy = n.healthy /\ r.up = n.up /\ r.state = n.state
    /\ r.leaderId = n.leaderId /\ r.votes = n.votes /\ r.currentTerm = n.currentTerm
    /\ r.votedFor = n.votedFor /\ r.disk = n.disk

\* Saving a node of which only the log and the indexes changed, in one word.
LEMMA PersistSameRole ==
    ASSUME NEW n \in Nodes, Sound(n), NEW r, SameRole(n, r), n.healthy, NEW ok \in BOOLEAN
    PROVE  SameTerm(n, Persist(r, ok)) /\ Persist(r, ok).log = r.log
BY PersistSameTerm, ZenonT(30) DEF SameRole

\* update_commit_index_locked moves the commit index and nothing else.
LEMMA UpdateCommitIndexEffect ==
    ASSUME NEW n \in Nodes
    PROVE  SameRole(n, UpdateCommitIndex(n)) /\ UpdateCommitIndex(n).log = n.log
<1> DEFINE candidates == {k \in n.commitIndex + 1 .. Len(n.log) :
                           /\ Replicated(n, k) >= QuorumSize
                           /\ Replicated(n, k + 1) < QuorumSize
                           /\ n.log[k].term = n.currentTerm}
<1>1. CASE candidates = {}
  BY <1>1 DEF UpdateCommitIndex, SameRole
<1>2. CASE candidates # {}
  <2> DEFINE j == CHOOSE k \in candidates : TRUE
  <2>1. j \in candidates
    BY <1>2
  <2>2. j \in Nat
    <3>1. n.commitIndex \in Nat /\ n.log \in Seq(Entries)
      BY DEF Nodes
    <3>2. Len(n.log) \in Nat
      BY <3>1, LenProperties
    <3> QED BY <2>1, <3>1, <3>2
  <2>3. UpdateCommitIndex(n) = [n EXCEPT !.commitIndex = j]
    BY <1>2 DEF UpdateCommitIndex
  <2> HIDE DEF j
  <2> QED BY <2>2, <2>3, ZenonT(30) DEF SameRole, Nodes
<1> QED BY <1>1, <1>2

\* Delivery moves last_applied_ and the state machine, or latches the node.
LEMMA DeliverEffect ==
    ASSUME NEW n \in Nodes, Sound(n), NEW io \in IoType
    PROVE  /\ SameTerm(n, Deliver(n, io)) /\ Deliver(n, io).log = n.log
           /\ Deliver(n, io).disk.log \in {n.log, n.disk.log}
<1> DEFINE goal == MinOf(n.commitIndex, Len(n.log))
           stop == IF io.fate = "ok" THEN goal ELSE MinOf(goal, n.lastApplied + io.accepts)
           seen == IF io.fate = "save" THEN MinOf(goal, stop + 1) ELSE stop
           part == SubSeq(n.log, n.lastApplied + 1, seen)
           r == [n EXCEPT !.lastApplied = stop, !.applied = @ \o part]
           m == Persist(r, TRUE)
<1>1. n.commitIndex \in Nat /\ n.lastApplied \in Nat /\ n.log \in Seq(Entries)
      /\ n.applied \in Seq(Entries) /\ Len(n.log) \in Nat
  BY LenProperties DEF Nodes
<1>2. io.accepts \in Nat
  BY DEF IoType
<1>3. goal \in Nat /\ goal <= Len(n.log) /\ stop \in Nat /\ stop <= goal
      /\ seen \in Nat /\ seen <= goal
  BY <1>1, <1>2 DEF MinOf
<1>4. CASE goal <= n.lastApplied \/ ~n.healthy
  <2>1. Deliver(n, io) = n
    BY <1>4, ZenonT(30) DEF Deliver
  <2> QED BY <2>1 DEF SameTerm
<1>5. CASE ~(goal <= n.lastApplied \/ ~n.healthy)
  <2>1. part \in Seq(Entries)
    <3>1. \A k \in n.lastApplied + 1 .. seen : n.log[k] \in Entries
      BY <1>1, <1>3, ElementOfSeq
    <3> HIDE DEF seen
    <3> QED BY <1>1, <1>3, <3>1, SubSeqProperties
  <2>2. n.applied \o part \in Seq(Entries)
    BY <1>1, <2>1, ConcatProperties
  <2>3. SameRole(n, r) /\ r.log = n.log
    <3> HIDE DEF stop, part
    <3> QED BY <1>3, <2>2, ZenonT(30) DEF SameRole, Nodes
  <2>4. Deliver(n, io) = IF stop < goal THEN MarkUnhealthy(m) ELSE m
    BY <1>5 DEF Deliver
  <2> HIDE DEF r, goal, stop
  <2>5. SameTerm(n, m) /\ m.log = n.log
    BY <1>5, <2>3, PersistSameRole, ZenonT(30)
  <2>6. /\ SameTerm(m, MarkUnhealthy(m)) /\ MarkUnhealthy(m).log = m.log
        /\ MarkUnhealthy(m).disk = m.disk
    BY <2>5, MarkSameTerm, MarkUnhealthyEffect, ZenonT(30) DEF SameTerm
  <2>7. ~m.healthy => m.disk = n.disk
    BY <2>3, PersistEffect DEF SameRole
  <2> HIDE DEF m
  <2>8. m.disk.log \in {n.log, n.disk.log}
    <3>1. m.healthy => m.disk.log = m.log
      BY <2>5 DEF SameTerm, Sound, Image
    <3> QED BY <2>5, <2>7, <3>1
  <2>9. SameTerm(n, MarkUnhealthy(m))
    BY <2>5, <2>6, SameTermTransitive
  <2> QED BY <2>4, <2>5, <2>6, <2>8, <2>9
<1> QED BY <1>4, <1>5
----------------------------------------------------------------------------
(***************************************************************************)
(* What handlers and replies do to a sound node.                           *)
(***************************************************************************)
\* The durable vote of a term changes only when there was none, when the node was
\* a candidate, or with the term; and nobody becomes a candidate in its term.
KeepsVote(n, m) ==
    \/ m.disk.currentTerm > n.disk.currentTerm
    \/ /\ m.disk.currentTerm = n.disk.currentTerm
       /\ \/ m.disk.votedFor = n.disk.votedFor
          \/ n.disk.votedFor = NoNode
          \/ n.state = "candidate"
       /\ m.state = "candidate" => n.state = "candidate"

\* A change that makes no candidate and no leader.
Moves(n, m) ==
    /\ m \in Nodes /\ Sound(m)
    /\ KeepsVote(n, m)
    /\ m.state = "leader" => n.state = "leader" /\ m.currentTerm = n.currentTerm
    /\ m.state = "candidate" => /\ n.state = "candidate" /\ m.currentTerm = n.currentTerm
                                /\ m.votedFor = n.votedFor /\ m.votes = n.votes

\* ... within the life of a process.
Handled(n, m) ==
    /\ Moves(n, m)
    /\ m.up = n.up
    /\ m.currentTerm >= n.currentTerm
    /\ ~n.healthy => m = n

\* The node knows the leader it knew, in the same term, or none.
SameLeader(n, m) ==
    m.leaderId = NoNode \/ (m.leaderId = n.leaderId /\ m.currentTerm = n.currentTerm)

\* Changes within a term make no candidate, no leader and no vote.
LEMMA SameTermHandled ==
    ASSUME NEW n \in Nodes, Sound(n), NEW m, SameTerm(n, m)
    PROVE  Handled(n, m) /\ SameLeader(n, m)
BY DEF SameTerm, Handled, Moves, KeepsVote, SameLeader, Nodes, Sound

\* A node that does not change at all.
LEMMA SameNodeHandled ==
    ASSUME NEW n \in Nodes, Sound(n)
    PROVE  Handled(n, n) /\ SameLeader(n, n)
<1>1. n.disk.currentTerm = n.disk.currentTerm /\ n.currentTerm \in Nat
  BY DEF Nodes
<1>2. Moves(n, n)
  BY <1>1 DEF Moves, KeepsVote
<1> QED BY <1>1, <1>2 DEF Handled, SameLeader

\* Nor does become_follower, in a higher term or for a candidate.
LEMMA BecomeFollowerHandled ==
    ASSUME NEW n \in Nodes, Sound(n), n.healthy, NEW term \in Nat, NEW ok \in BOOLEAN,
           term > n.currentTerm \/ (term = n.currentTerm /\ n.state = "candidate")
    PROVE  LET m == BecomeFollower(n, term, ok)
           IN  Handled(n, m) /\ SameLeader(n, m) /\ m.state = "follower"
<1> DEFINE m == BecomeFollower(n, term, ok)
<1>1. /\ m \in Nodes /\ Sound(m) /\ m.up = n.up
      /\ m.currentTerm = term /\ m.votedFor = NoNode
      /\ m.state = "follower" /\ m.leaderId = NoNode
      /\ ~m.healthy => m.disk = n.disk
  BY BecomeFollowerEffect
<1>2. n.disk.currentTerm = n.currentTerm /\ n.currentTerm \in Nat
  BY DEF Sound, Image, Nodes
<1>3. m.healthy => m.disk.currentTerm = term
  BY <1>1 DEF Sound, Image
<1>4. KeepsVote(n, m)
  BY <1>1, <1>2, <1>3 DEF KeepsVote
<1> QED BY <1>1, <1>2, <1>4 DEF Handled, Moves, SameLeader

\* A handler answers with the state it leaves.
LEMMA AnswerType ==
    \A q \in Nodes, b \in BOOLEAN :
        Answer(q, b).node = q /\ Answer(q, b).reply \in Replies /\ Answer(q, b).reply.ok = b
<1> SUFFICES ASSUME NEW q \in Nodes, NEW b \in BOOLEAN
             PROVE  Answer(q, b).node = q /\ Answer(q, b).reply \in Replies
                    /\ Answer(q, b).reply.ok = b
  OBVIOUS
<1>1. q.currentTerm \in Nat /\ Len(q.log) \in Nat
  BY LenProperties DEF Nodes
<1> QED BY <1>1 DEF Answer, Replies

\* handle_request_vote: a granted vote is on disk, for a term in which the voter
\* had given none to another node.
LEMMA HandleRequestVoteEffect ==
    ASSUME NEW n \in Nodes, Sound(n), NEW a \in VoteRequests, NEW io \in IoType,
           n.state = "candidate" => n.votedFor \notin {NoNode, a.src}
    PROVE  LET h == HandleRequestVote(n, a, io)
           IN  /\ Handled(n, h.node) /\ SameLeader(n, h.node) /\ h.reply \in Replies
               /\ h.reply.ok =>
                    /\ n.healthy /\ n.currentTerm <= a.term
                    /\ n.currentTerm = a.term => n.votedFor \in {NoNode, a.src}
                    /\ h.node.disk.currentTerm = a.term /\ h.node.disk.votedFor = a.src
                    /\ h.node.state # "candidate"
<1> DEFINE h == HandleRequestVote(n, a, io)
           m == IF a.term > n.currentTerm THEN BecomeFollower(n, a.term, io.save1) ELSE n
           grant == /\ m.votedFor \in {NoNode, a.src}
                    /\ IsLogUpToDate(m, a.lastLogTerm, a.lastLogIndex)
           r == [m EXCEPT !.votedFor = a.src]
           v == Persist(r, io.save2)
<1>1. a.term \in Nat /\ a.src \in Server /\ io.save1 \in BOOLEAN /\ io.save2 \in BOOLEAN
      /\ n.currentTerm \in Nat
  BY DEF VoteRequests, IoType, Nodes
<1>2. Handled(n, n) /\ SameLeader(n, n)
  BY DEF Handled, Moves, KeepsVote, SameLeader, Nodes
<1>3. CASE RefuseVote(n, a)
  <2>1. h = Answer(n, FALSE)
    BY <1>3 DEF HandleRequestVote
  <2>2. h.node = n /\ h.reply \in Replies /\ h.reply.ok = FALSE
    BY AnswerType, <2>1, ZenonT(30)
  <2> QED BY <1>2, <2>2
<1>4. CASE ~RefuseVote(n, a)
  <2>1. n.healthy /\ a.term >= n.currentTerm
    BY <1>1, <1>4 DEF RefuseVote
  <2>2. m \in Nodes /\ Sound(m) /\ Handled(n, m) /\ SameLeader(n, m) /\ m.currentTerm = a.term
    <3>1. CASE a.term > n.currentTerm
      BY <1>1, <2>1, <3>1, BecomeFollowerHandled, BecomeFollowerEffect DEF Handled, Moves
    <3>2. CASE a.term = n.currentTerm
      BY <1>1, <1>2, <3>2
    <3> QED BY <1>1, <2>1, <3>1, <3>2
  <2>3. CASE ~m.healthy \/ ~grant
    <3>1. h = Answer(m, FALSE)
      BY <1>4, <2>3, ZenonT(30) DEF HandleRequestVote
    <3>2. h.node = m /\ h.reply \in Replies /\ h.reply.ok = FALSE
      <4> HIDE DEF m
      <4> QED BY AnswerType, <2>2, <3>1, ZenonT(30)
    <3> QED BY <2>2, <3>2
  <2>4. CASE m.healthy /\ grant
    <3>1. h = Answer(v, v.healthy)
      BY <1>4, <2>4, ZenonT(30) DEF HandleRequestVote
    <3>2. n.currentTerm = a.term => m = n /\ n.votedFor \in {NoNode, a.src}
                                    /\ n.state # "candidate"
      BY <1>1, <2>4
    <3>3. n.currentTerm # a.term => a.term > n.currentTerm /\ m.state = "follower"
      BY <1>1, <2>1, BecomeFollowerEffect
    <3>4. m.state # "candidate"
      BY <3>2, <3>3
    <3>5. r \in Nodes /\ r.healthy /\ r.state = m.state /\ r.leaderId = m.leaderId
          /\ r.up = m.up /\ r.currentTerm = a.term /\ r.votedFor = a.src /\ r.disk = m.disk
      BY <1>1, <2>2, <2>4, ZenonT(30) DEF Nodes, MaybeNode
    <3> HIDE DEF m, r
    <3>6. v \in Nodes /\ v.up = m.up /\ v.currentTerm = a.term /\ v.votedFor = a.src
      BY <1>1, <3>5, PersistEffect
    <3>7. m.disk.currentTerm = a.term
      BY <2>2, <2>4 DEF Sound, Image
    <3>8. v.healthy => /\ v.state = m.state /\ v.leaderId = m.leaderId
                       /\ v.disk = Image(v) /\ ValidState(v.disk)
                       /\ v.disk.currentTerm = a.term /\ v.disk.votedFor = a.src
      <4> SUFFICES ASSUME v.healthy
                   PROVE  /\ v.state = m.state /\ v.leaderId = m.leaderId
                          /\ v.disk = Image(v) /\ ValidState(v.disk)
                          /\ v.disk.currentTerm = a.term /\ v.disk.votedFor = a.src
        OBVIOUS
      <4>1. v = [r EXCEPT !.disk = Image(r)] /\ v.disk = Image(v) /\ ValidState(v.disk)
        BY <1>1, <3>5, PersistEffect
      <4> QED BY <3>5, <3>6, <4>1 DEF Nodes, Image
    <3>9. ~v.healthy => v.state = "follower" /\ v.leaderId = NoNode /\ v.disk = m.disk
      BY <1>1, <3>5, PersistEffect, MarkUnhealthyEffect
    <3>10. Sound(v)
      BY <2>2, <3>8, <3>9 DEF Sound
    <3>11. KeepsVote(n, v)
      <4>1. CASE n.currentTerm = a.term
        BY <1>1, <2>1, <3>2, <3>4, <3>7, <3>8, <3>9, <4>1 DEF KeepsVote, Sound, Image
      <4>2. CASE n.currentTerm # a.term
        <5>1. n.disk.currentTerm = n.currentTerm
          BY <2>1 DEF Sound, Image
        <5> QED BY <1>1, <3>3, <3>7, <3>8, <3>9, <4>2, <5>1 DEF KeepsVote
      <4> QED BY <4>1, <4>2
    <3>12. Handled(n, v) /\ SameLeader(n, v)
      BY <1>1, <2>1, <2>2, <3>3, <3>2, <3>4, <3>6, <3>8, <3>9, <3>10, <3>11
      DEF Handled, Moves, SameLeader
    <3>13. v.healthy \in BOOLEAN
      BY <3>6 DEF Nodes
    <3>14. v.state # "candidate"
      BY <3>4, <3>8, <3>9, <3>13
    <3> QED BY AnswerType, <2>1, <3>1, <3>2, <3>6, <3>8, <3>12, <3>13, <3>14
  <2>5. m.healthy \in BOOLEAN
    BY <2>2 DEF Nodes
  <2> QED BY <2>3, <2>4, <2>5
<1> QED BY <1>3, <1>4

\* A change within the term after a handler's step is the handler's.
LEMMA HandledSameTerm ==
    ASSUME NEW n \in Nodes, n.healthy, NEW l \in Nodes, Handled(n, l), NEW x, SameTerm(l, x)
    PROVE  Handled(n, x)
BY DEF Handled, Moves, SameTerm, KeepsVote, Sound

\* The entry loop yields a log.
LEMMA MergeEntriesType ==
    ASSUME NEW log \in Seq(Entries), NEW prev \in Nat, prev <= Len(log),
           NEW entries \in Seq(Entries)
    PROVE  MergeEntries(log, prev, entries) \in Seq(Entries)
<1>1. \A k \in 1..prev : log[k] \in Entries
  BY ElementOfSeq, LenProperties
<1>2. SubSeq(log, 1, prev) \in Seq(Entries)
  BY <1>1, SubSeqProperties
<1>3. SubSeq(log, 1, prev) \o entries \in Seq(Entries)
  BY <1>2, ConcatProperties
<1> QED BY <1>3 DEF MergeEntries

\* Cutting the log changes the log and the indexes only.
LEMMA CutBeforeEffect ==
    ASSUME NEW n \in Nodes, NEW prev \in Nat, prev > 0, prev <= Len(n.log)
    PROVE  SameRole(n, CutBefore(n, prev))
<1> DEFINE commit == MinOf(n.commitIndex, prev - 1)
           applied == MinOf(n.lastApplied, commit)
           log == SubSeq(n.log, 1, prev - 1)
<1>1. n.commitIndex \in Nat /\ n.lastApplied \in Nat /\ n.log \in Seq(Entries)
      /\ Len(n.log) \in Nat
  BY LenProperties DEF Nodes
<1>2. commit \in Nat /\ applied \in Nat
  BY <1>1 DEF MinOf
<1>3. log \in Seq(Entries)
  <2>1. \A k \in 1..(prev - 1) : n.log[k] \in Entries
    BY <1>1, ElementOfSeq
  <2> QED BY <1>1, <2>1, SubSeqProperties
<1>4. CutBefore(n, prev) = [n EXCEPT !.log = log, !.commitIndex = commit,
                                     !.lastApplied = applied]
  BY DEF CutBefore, Nodes
<1> HIDE DEF commit, applied, log
<1> QED BY <1>2, <1>3, <1>4, ZenonT(30) DEF SameRole, Nodes

\* Entries, save and delivery keep the term and the vote.
LEMMA AcceptEntriesEffect ==
    ASSUME NEW n \in Nodes, Sound(n), n.healthy, NEW a \in AppendRequests, NEW io \in IoType,
           a.prevLogIndex <= Len(n.log)
    PROVE  LET log == MergeEntries(n.log, a.prevLogIndex, a.entries)
           IN  /\ SameTerm(n, AcceptEntries(n, a, io))
               /\ AcceptEntries(n, a, io).log = log
               /\ AcceptEntries(n, a, io).disk.log \in {log, n.disk.log}
<1> DEFINE log == MergeEntries(n.log, a.prevLogIndex, a.entries)
           commit == IF a.leaderCommit > n.commitIndex
                     THEN MinOf(a.leaderCommit, Len(log)) ELSE n.commitIndex
           r == [n EXCEPT !.log = log, !.commitIndex = commit]
           m == Persist(r, io.save2)
<1>1. n.commitIndex \in Nat /\ n.log \in Seq(Entries) /\ a.prevLogIndex \in Nat
      /\ a.entries \in Seq(Entries) /\ a.leaderCommit \in Nat /\ io.save2 \in BOOLEAN
  BY DEF Nodes, AppendRequests, IoType
<1>2. log \in Seq(Entries)
  BY <1>1, MergeEntriesType
<1>3. commit \in Nat
  <2> HIDE DEF log
  <2> QED BY <1>1, <1>2, LenProperties DEF MinOf
<1>4. SameRole(n, r) /\ r.log = log
  <2> HIDE DEF log, commit
  <2> QED BY <1>2, <1>3, ZenonT(30) DEF SameRole, Nodes
<1>5. AcceptEntries(n, a, io) = Deliver(m, io)
  BY DEF AcceptEntries
<1> HIDE DEF r
<1>6. SameTerm(n, m) /\ m.log = log
  BY <1>1, <1>4, PersistSameRole
<1>7. /\ SameTerm(m, Deliver(m, io)) /\ Deliver(m, io).log = m.log
      /\ Deliver(m, io).disk.log \in {m.log, m.disk.log}
  BY <1>6, DeliverEffect DEF SameTerm
<1>8. ~m.healthy => m.disk = n.disk
  BY <1>1, <1>4, PersistEffect DEF SameRole
<1> HIDE DEF m, log
<1>9. m.disk.log \in {log, n.disk.log}
  <2>1. m.healthy => m.disk.log = m.log
    BY <1>6 DEF SameTerm, Sound, Image
  <2> QED BY <1>6, <1>8, <2>1
<1> QED BY <1>5, <1>6, <1>7, <1>9, SameTermTransitive DEF log

\* handle_append_entries: the node follows the sender's term, keeps its vote, and
\* knows the sender as its leader when it learns a new one.
LEMMA HandleAppendEntriesEffect ==
    ASSUME NEW n \in Nodes, Sound(n), NEW a \in AppendRequests, NEW io \in IoType
    PROVE  LET h == HandleAppendEntries(n, a, io)
           IN  /\ Handled(n, h.node) /\ h.reply \in Replies
               /\ \/ SameLeader(n, h.node)
                  \/ h.node.leaderId = a.src /\ h.node.currentTerm = a.term
<1> DEFINE h == HandleAppendEntries(n, a, io)
           m == IF StepsDown(n, a) THEN BecomeFollower(n, a.term, io.save1) ELSE n
           l == [m EXCEPT !.leaderId = a.src]
           prev == a.prevLogIndex
           cut == Persist(CutBefore(l, prev), io.save2)
           accepted == AcceptEntries(l, a, io)
<1>1. a.term \in Nat /\ a.src \in Server /\ io.save1 \in BOOLEAN /\ io.save2 \in BOOLEAN
      /\ n.currentTerm \in Nat /\ prev \in Nat
  BY DEF AppendRequests, IoType, Nodes
<1>2. Handled(n, n) /\ SameLeader(n, n)
  BY DEF Handled, Moves, KeepsVote, SameLeader, Nodes
<1>3. CASE RefuseAppend(n, a)
  <2>1. h = Answer(n, FALSE)
    BY <1>3 DEF HandleAppendEntries
  <2>2. h.node = n /\ h.reply \in Replies
    BY AnswerType, <2>1, ZenonT(30)
  <2> QED BY <1>2, <2>2
<1>4. CASE ~RefuseAppend(n, a)
  <2>1. n.healthy /\ a.term >= n.currentTerm
    BY <1>1, <1>4 DEF RefuseAppend
  <2>2. m \in Nodes /\ Sound(m) /\ Handled(n, m) /\ SameLeader(n, m) /\ m.currentTerm = a.term
    <3>1. CASE StepsDown(n, a)
      BY <1>1, <2>1, <3>1, BecomeFollowerHandled, BecomeFollowerEffect DEF StepsDown
    <3>2. CASE ~StepsDown(n, a)
      BY <1>1, <1>2, <2>1, <3>2 DEF StepsDown
    <3> QED BY <3>1, <3>2
  <2>3. CASE ~m.healthy
    <3>1. h = Answer(m, FALSE)
      BY <1>4, <2>3 DEF HandleAppendEntries
    <3>2. h.node = m /\ h.reply \in Replies
      <4> HIDE DEF m
      <4> QED BY AnswerType, <2>2, <3>1, ZenonT(30)
    <3> QED BY <2>2, <3>2
  <2>4. CASE m.healthy
    <3>1. /\ l \in Nodes /\ l.healthy /\ l.leaderId = a.src /\ l.currentTerm = a.term
          /\ l.up = m.up /\ l.state = m.state /\ l.votes = m.votes /\ l.votedFor = m.votedFor
          /\ l.log = m.log /\ l.disk = m.disk /\ Image(l) = Image(m)
      <4> HIDE DEF m
      <4> QED BY <1>1, <2>2, <2>4, ZenonT(30) DEF Nodes, MaybeNode, Image
    <3> HIDE DEF m, l
    <3>2. Sound(l)
      BY <2>2, <2>4, <3>1 DEF Sound
    <3>3. Handled(n, l)
      BY <2>1, <2>2, <3>1, <3>2 DEF Handled, Moves, KeepsVote
    <3>4. \A x : SameTerm(l, x) =>
              /\ x \in Nodes /\ Handled(n, x)
              /\ SameLeader(n, x) \/ (x.leaderId = a.src /\ x.currentTerm = a.term)
      BY <2>1, <3>1, <3>3, HandledSameTerm, ZenonT(30) DEF SameTerm, SameLeader, Sound, Nodes
    <3>5. SameTerm(l, l)
      BY <3>1, <3>2 DEF SameTerm
    <3>6. prev > 0 /\ ~(prev > Len(l.log)) => prev <= Len(l.log)
      BY <1>1, <3>1, LenProperties DEF Nodes
    <3>7. CASE prev > Len(l.log)
      <4>1. h = Answer(l, FALSE)
        BY <1>4, <2>4, <3>7 DEF HandleAppendEntries, m, l
      <4>2. h.node = l /\ h.reply \in Replies
        BY <3>1, <4>1, AnswerType, ZenonT(30)
      <4> QED BY <3>4, <3>5, <4>2
    <3>8. CASE ~(prev > Len(l.log)) /\ PrevDiffers(l, a)
      <4>1. h = Answer(cut, FALSE)
        BY <1>4, <2>4, <3>8 DEF HandleAppendEntries, m, l
      <4>2. SameRole(l, CutBefore(l, prev))
        BY <1>1, <3>1, <3>6, <3>8, CutBeforeEffect DEF PrevDiffers
      <4>3. SameTerm(l, cut)
        BY <1>1, <3>1, <3>2, <4>2, PersistSameRole
      <4>4. h.node = cut /\ h.reply \in Replies
        BY <3>4, <4>1, <4>3, AnswerType, ZenonT(30)
      <4> QED BY <3>4, <4>3, <4>4
    <3>9. CASE ~(prev > Len(l.log)) /\ ~PrevDiffers(l, a)
      <4>1. h = Answer(accepted, accepted.healthy)
        BY <1>4, <2>4, <3>9 DEF HandleAppendEntries, m, l
      <4>2. a.prevLogIndex <= Len(l.log)
        BY <1>1, <3>1, <3>9, LenProperties DEF Nodes
      <4>3. SameTerm(l, accepted)
        BY <3>1, <3>2, <4>2, AcceptEntriesEffect
      <4>4. accepted \in Nodes /\ accepted.healthy \in BOOLEAN
        BY <4>3 DEF SameTerm, Nodes
      <4>5. h.node = accepted /\ h.reply \in Replies
        BY <4>1, <4>4, AnswerType
      <4> QED BY <3>4, <4>3, <4>5
    <3> QED BY <3>7, <3>8, <3>9
  <2> QED BY <2>3, <2>4
<1> QED BY <1>3, <1>4
----------------------------------------------------------------------------
(***************************************************************************)
(* Elections, load and start; the leader's bookkeeping; messages.          *)
(***************************************************************************)
\* become_leader keeps term and vote; a failed save latches the node instead.
LEMMA BecomeLeaderEffect ==
    ASSUME NEW n \in Nodes, ValidState(n.disk), n.healthy, NEW i \in Server, NEW ok \in BOOLEAN
    PROVE  LET m == BecomeLeader(n, i, ok)
           IN  /\ m \in Nodes /\ Sound(m) /\ m.up = n.up
               /\ m.currentTerm = n.currentTerm /\ m.votedFor = n.votedFor
               /\ m.healthy => m.state = "leader" /\ m.leaderId = i /\ m.disk = Image(m)
               /\ ~m.healthy => m.state = "follower" /\ m.leaderId = NoNode /\ m.disk = n.disk
<1> DEFINE r == [n EXCEPT !.state = "leader", !.leaderId = i,
                      !.nextIndex = [p \in Server |-> IF p = i THEN 0 ELSE Len(n.log) + 1],
                      !.matchIndex = NoIndexes]
           m == BecomeLeader(n, i, ok)
<1>1. Len(n.log) \in Nat
  BY LenProperties DEF Nodes
<1>2. [p \in Server |-> IF p = i THEN 0 ELSE Len(n.log) + 1] \in [Server -> Nat]
      /\ NoIndexes \in [Server -> Nat]
  BY <1>1 DEF NoIndexes
<1>3. r \in Nodes /\ r.healthy /\ r.up = n.up /\ r.currentTerm = n.currentTerm
      /\ r.votedFor = n.votedFor /\ r.state = "leader" /\ r.leaderId = i /\ r.disk = n.disk
  BY <1>2, ZenonT(30) DEF Nodes, MaybeNode
<1>4. m = Persist(r, ok)
  BY DEF BecomeLeader
<1> HIDE DEF r, m
<1>5. m \in Nodes /\ m.up = n.up /\ m.currentTerm = n.currentTerm /\ m.votedFor = n.votedFor
  BY <1>3, <1>4, PersistEffect
<1>6. CASE m.healthy
  <2>1. m = [r EXCEPT !.disk = Image(r)] /\ m.disk = Image(m) /\ ValidState(m.disk)
    BY <1>3, <1>4, <1>6, PersistEffect
  <2>2. m.state = "leader" /\ m.leaderId = i
    BY <1>3, <2>1 DEF Nodes
  <2> QED BY <1>5, <1>6, <2>1, <2>2 DEF Sound, m
<1>7. CASE ~m.healthy
  <2>1. m = MarkUnhealthy(r) /\ m.disk = n.disk
    BY <1>3, <1>4, <1>7, PersistEffect
  <2>2. m.state = "follower" /\ m.leaderId = NoNode
    BY <1>3, <2>1, MarkUnhealthyEffect
  <2> QED BY <1>5, <1>7, <2>1, <2>2 DEF Sound, m
<1> QED BY <1>5, <1>6, <1>7, ZenonT(30) DEF Nodes

\* load_persistent_state leaves a sound follower.
LEMMA LoadedEffect ==
    ASSUME NEW disk \in Images, ValidState(disk)
    PROVE  LET m == Loaded(disk)
           IN  /\ m \in Nodes /\ Sound(m) /\ m.healthy /\ m.up /\ m.state = "follower"
               /\ m.leaderId = NoNode /\ m.currentTerm = disk.currentTerm
               /\ m.votedFor = disk.votedFor /\ m.disk = disk
<1> DEFINE m == Loaded(disk)
<1>1. << >> \in Seq(Entries) /\ NoIndexes \in [Server -> Nat]
  BY EmptySeq DEF NoIndexes
<1>2. /\ m \in Nodes /\ m.healthy /\ m.up /\ m.state = "follower"
      /\ m.leaderId = NoNode /\ m.currentTerm = disk.currentTerm
      /\ m.votedFor = disk.votedFor /\ m.disk = disk
  BY <1>1, ZenonT(30) DEF Loaded, Nodes, Images, MaybeNode
<1>3. Image(m) = disk
  BY DEF Image, Loaded, Images
<1> QED BY <1>2, <1>3 DEF Sound

\* Delivery without a failure leaves a healthy node healthy.
LEMMA DeliverOk ==
    ASSUME NEW n \in Nodes, Sound(n), n.healthy
    PROVE  Deliver(n, IoOk).healthy
<1> DEFINE goal == MinOf(n.commitIndex, Len(n.log))
           part == SubSeq(n.log, n.lastApplied + 1, goal)
           r == [n EXCEPT !.lastApplied = goal, !.applied = @ \o part]
<1>1. n.commitIndex \in Nat /\ n.lastApplied \in Nat /\ Len(n.log) \in Nat
  BY LenProperties DEF Nodes
<1>2. goal <= n.commitIndex /\ goal \in Nat
  BY <1>1 DEF MinOf
<1>3. Deliver(n, IoOk) = IF goal <= n.lastApplied THEN n ELSE Persist(r, TRUE)
  <2>1. IoOk.fate = "ok" /\ ~(goal < goal)
    BY <1>2 DEF IoOk, Io
  <2>2. CASE goal <= n.lastApplied
    BY <2>2 DEF Deliver
  <2>3. CASE ~(goal <= n.lastApplied)
    BY <2>1, <2>3 DEF Deliver
  <2> QED BY <2>2, <2>3, ZenonT(30)
<1>4. ValidState(Image(r)) /\ r.healthy
  <2> HIDE DEF goal, part
  <2>1. r.healthy /\ r.lastApplied = goal /\ r.currentTerm = n.currentTerm /\ r.log = n.log
        /\ r.votedFor = n.votedFor /\ r.commitIndex = n.commitIndex
    BY DEF Nodes
  <2> QED BY <1>2, <2>1 DEF Sound, ValidState, Image
<1>5. Persist(r, TRUE) = [r EXCEPT !.disk = Image(r)]
  BY <1>4 DEF Persist
<1>6. [r EXCEPT !.disk = Image(r)].healthy = n.healthy
  BY ZenonT(30) DEF Nodes
<1> QED BY <1>3, <1>5, <1>6, ZenonT(30)

\* A restart: the durable term and vote are those of the state file; only a
\* cluster of one starts with a leader.
LEMMA StartedEffect ==
    ASSUME NEW disk \in Images, ValidState(disk), NEW i \in Server
    PROVE  LET m == Started(i, disk)
           IN  /\ m \in Nodes /\ Sound(m) /\ m.state # "candidate"
               /\ m.currentTerm >= disk.currentTerm
               /\ m.disk.currentTerm >= disk.currentTerm
               /\ m.disk.votedFor = disk.votedFor
               /\ Server # {i} => m.state # "leader" /\ m.leaderId = NoNode
               /\ m.leaderId \in {NoNode, i}
               /\ m.leaderId = i => m.state = "leader"
<1> DEFINE b == Loaded(disk)
           l == [b EXCEPT !.applied = SubSeq(disk.log, 1, disk.lastApplied)]
           ready == Deliver(l, IoOk)
           t == IF ready.currentTerm = 0 THEN 1 ELSE ready.currentTerm
           q == [ready EXCEPT !.currentTerm = t]
           m == Started(i, disk)
           Fine(x) == /\ x \in Nodes /\ Sound(x) /\ x.state # "candidate"
                      /\ x.currentTerm >= disk.currentTerm
                      /\ x.disk.currentTerm >= disk.currentTerm
                      /\ x.disk.votedFor = disk.votedFor
                      /\ Server # {i} => x.state # "leader" /\ x.leaderId = NoNode
                      /\ x.leaderId \in {NoNode, i}
                      /\ x.leaderId = i => x.state = "leader"
<1>1. /\ b \in Nodes /\ Sound(b) /\ b.healthy /\ b.up /\ b.state = "follower"
      /\ b.leaderId = NoNode /\ b.currentTerm = disk.currentTerm
      /\ b.votedFor = disk.votedFor /\ b.disk = disk
  BY LoadedEffect
<1>2. SubSeq(disk.log, 1, disk.lastApplied) \in Seq(Entries)
  <2>1. disk.log \in Seq(Entries) /\ Len(disk.log) \in Nat /\ disk.lastApplied \in Nat
        /\ disk.commitIndex \in Nat /\ disk.lastApplied <= Len(disk.log)
    BY LenProperties DEF Images, ValidState
  <2>2. \A k \in 1..disk.lastApplied : disk.log[k] \in Entries
    BY <2>1, ElementOfSeq
  <2> QED BY <2>1, <2>2, SubSeqProperties
<1>3. SameRole(b, l) /\ Image(l) = Image(b)
  <2> HIDE DEF b
  <2> QED BY <1>1, <1>2, ZenonT(30) DEF SameRole, Nodes, Image
<1>4. m = IF Server = {i} THEN BecomeLeader(q, i, TRUE) ELSE Persist(ready, TRUE)
  <2>1. [ready EXCEPT !.currentTerm = IF @ = 0 THEN 1 ELSE @] = q
    OBVIOUS
  <2> QED BY <2>1 DEF Started
<1>5. IoOk \in IoType
  BY DEF IoOk, Io, IoType
<1> HIDE DEF b, l
<1>6. l \in Nodes /\ Sound(l) /\ l.healthy /\ l.state = "follower" /\ l.leaderId = NoNode
      /\ l.currentTerm = disk.currentTerm /\ l.votedFor = disk.votedFor /\ l.disk = disk
  BY <1>1, <1>3 DEF SameRole, Sound
<1>7. SameTerm(l, ready) /\ ready.healthy
  BY <1>5, <1>6, DeliverEffect, DeliverOk
<1> HIDE DEF ready
<1>8. /\ ready \in Nodes /\ Sound(ready) /\ ready.state = "follower" /\ ready.leaderId = NoNode
      /\ ready.currentTerm = disk.currentTerm /\ ready.votedFor = disk.votedFor
      /\ ready.disk.currentTerm = disk.currentTerm /\ ready.disk.votedFor = disk.votedFor
  BY <1>6, <1>7 DEF SameTerm, Sound, Nodes
<1>9. disk.currentTerm \in Nat
  BY DEF Images
<1>10. CASE Server # {i}
  <2>1. SameTerm(ready, Persist(ready, TRUE))
    BY <1>7, <1>8, PersistSameTerm, ZenonT(30)
  <2>2. SameTerm(ready, m)
    BY <1>4, <1>10, <2>1, ZenonT(30)
  <2> HIDE DEF m
  <2>3. m.state = "follower" /\ m.leaderId = NoNode
    BY <1>8, <2>2 DEF SameTerm, Sound, Nodes
  <2>4. NoNode # i
    BY ServerAssumption
  <2> QED BY <1>8, <1>9, <2>2, <2>3, <2>4 DEF SameTerm, m
<1>11. CASE Server = {i}
  <2>1. t \in Nat /\ t >= disk.currentTerm
    BY <1>8, <1>9
  <2> HIDE DEF t
  <2>2. /\ q \in Nodes /\ q.healthy /\ q.currentTerm = t
        /\ q.votedFor = disk.votedFor /\ q.disk = ready.disk
    BY <1>7, <1>8, <2>1, ZenonT(30) DEF Nodes
  <2> HIDE DEF q
  <2>3. m = BecomeLeader(q, i, TRUE)
    BY <1>4, <1>11
  <2> HIDE DEF m
  <2>4. /\ m \in Nodes /\ Sound(m) /\ m.currentTerm = t /\ m.votedFor = disk.votedFor
        /\ m.healthy => m.state = "leader" /\ m.leaderId = i /\ m.disk = Image(m)
        /\ ~m.healthy => m.state = "follower" /\ m.leaderId = NoNode /\ m.disk = ready.disk
    BY <1>8, <2>2, <2>3, BecomeLeaderEffect, ZenonT(30) DEF Sound
  <2>5. CASE m.healthy
    <3>1. m.disk.currentTerm = t /\ m.disk.votedFor = disk.votedFor
      BY <2>4, <2>5 DEF Image
    <3> QED BY <1>9, <1>11, <2>1, <2>4, <2>5, <3>1 DEF m
  <2>6. CASE ~m.healthy
    <3>1. m.disk = ready.disk /\ m.state = "follower" /\ m.leaderId = NoNode
      BY <2>4, <2>6
    <3>2. m.disk.currentTerm = disk.currentTerm /\ m.disk.votedFor = disk.votedFor
      BY <1>8, <3>1
    <3>3. NoNode # i
      BY ServerAssumption
    <3> QED BY <1>9, <1>11, <2>1, <2>4, <3>1, <3>2, <3>3 DEF m
  <2> QED BY <2>5, <2>6
<1> QED BY <1>10, <1>11

\* The leader's bookkeeping changes next_index_ and match_index_ only.
LEMMA BookkeepingEffect ==
    ASSUME NEW n \in Nodes, NEW c, c.req.dst \in Server, c.reply \in Replies
    PROVE  /\ SameRole(n, Matched(n, c)) /\ Image(Matched(n, c)) = Image(n)
           /\ SameRole(n, Backed(n, c)) /\ Image(Backed(n, c)) = Image(n)
<1> DEFINE k == c.reply.matchIndex
           b == IF n.nextIndex[c.req.dst] > 1 THEN n.nextIndex[c.req.dst] - 1 ELSE 1
           mi == [n.matchIndex EXCEPT ![c.req.dst] = k]
           ni == [n.nextIndex EXCEPT ![c.req.dst] = k + 1]
           bi == [n.nextIndex EXCEPT ![c.req.dst] = b]
<1>1. n.nextIndex \in [Server -> Nat] /\ n.matchIndex \in [Server -> Nat]
  BY DEF Nodes
<1>2. k \in Nat /\ b \in Nat
  BY <1>1 DEF Replies
<1>3. mi \in [Server -> Nat] /\ ni \in [Server -> Nat] /\ bi \in [Server -> Nat]
  <2> HIDE DEF k, b
  <2> QED BY <1>1, <1>2
<1>4. Matched(n, c) = [n EXCEPT !.matchIndex = mi, !.nextIndex = ni]
  BY DEF Matched, Nodes
<1>5. Backed(n, c) = [n EXCEPT !.nextIndex = bi]
  BY DEF Backed, Nodes
<1> HIDE DEF mi, ni, bi
<1> QED BY <1>3, <1>4, <1>5, ZenonT(30) DEF SameRole, Nodes, Image

\* Bookkeeping alone is a change within the term.
LEMMA BookkeepingSameTerm ==
    ASSUME NEW n \in Nodes, Sound(n), n.healthy, NEW r, SameRole(n, r), Image(r) = Image(n)
    PROVE  SameTerm(n, r)
BY DEF SameRole, SameTerm, Sound

\* The requests a node builds are requests.
LEMMA RequestTypes ==
    ASSUME NEW n \in Nodes, NEW i \in Server, NEW p \in Server
    PROVE  /\ MakeRequestVote(n, i, p) \in VoteRequests
           /\ MakeRequestVote(n, i, p).src = i /\ MakeRequestVote(n, i, p).dst = p
           /\ MakeAppendEntries(n, i, p) \in AppendRequests
           /\ MakeAppendEntries(n, i, p).src = i /\ MakeAppendEntries(n, i, p).dst = p
           /\ MakeAppendEntries(n, i, p).term = n.currentTerm
<1>1. n.log \in Seq(Entries) /\ Len(n.log) \in Nat /\ n.currentTerm \in Nat
      /\ n.commitIndex \in Nat /\ n.nextIndex[p] \in Nat
  BY LenProperties DEF Nodes
<1>2. \A k \in 1..Len(n.log) : n.log[k] \in Entries /\ n.log[k].term \in Nat
  <2>1. \A k \in 1..Len(n.log) : n.log[k] \in Entries
    BY <1>1, ElementOfSeq
  <2>2. \A e \in Entries : e.term \in Nat
    BY DEF Entries
  <2> QED BY <2>1, <2>2
<1>3. LastLogTerm(n.log) \in Nat
  <2>1. n.log # << >> => Len(n.log) \in 1..Len(n.log)
    BY <1>1, EmptySeq
  <2> QED BY <1>2, <2>1 DEF LastLogTerm
<1> DEFINE next == n.nextIndex[p]
           hasPrev == next > 1 /\ next - 1 <= Len(n.log)
           prev == IF hasPrev THEN next - 1 ELSE 0
           pterm == IF hasPrev THEN n.log[next - 1].term ELSE 0
           part == IF next \in 1..Len(n.log) THEN SubSeq(n.log, next, Len(n.log)) ELSE << >>
<1>4. prev \in Nat /\ pterm \in Nat
  BY <1>1, <1>2
<1>5. part \in Seq(Entries)
  <2>1. CASE next \in 1..Len(n.log)
    <3>1. \A k \in next..Len(n.log) : n.log[k] \in Entries
      BY <1>1, <1>2, <2>1
    <3> QED BY <1>1, <2>1, <3>1, SubSeqProperties
  <2>2. CASE next \notin 1..Len(n.log)
    BY <2>2, EmptySeq
  <2> QED BY <2>1, <2>2
<1>6. MakeAppendEntries(n, i, p) =
        [kind |-> "append", src |-> i, dst |-> p, term |-> n.currentTerm,
         prevLogIndex |-> prev, prevLogTerm |-> pterm, entries |-> part,
         leaderCommit |-> n.commitIndex]
  BY DEF MakeAppendEntries
<1> HIDE DEF prev, pterm, part
<1> QED BY <1>1, <1>3, <1>4, <1>5, <1>6 DEF MakeRequestVote, VoteRequests, AppendRequests

----------------------------------------------------------------------------

(***************************************************************************)
(* What a change of one node does to the votes.                            *)
(***************************************************************************)
\* A vote that binds stays binding.
LEMMA BacksKept ==
    ASSUME NEW n \in Nodes, NEW m \in Nodes, KeepsVote(n, m), NEW c \in Server, NEW t \in Nat,
           Backs(n, c, t)
    PROVE  Backs(m, c, t)
<1>1. n.disk.currentTerm \in Nat /\ m.disk.currentTerm \in Nat
  BY DEF Nodes, Images
<1>2. c # NoNode
  BY ServerAssumption
<1> QED BY <1>1, <1>2 DEF KeepsVote, Backs

\* No grant of term t came from node i.
NoGrant(i, t) == \A g \in granted : ~(g[1] = t /\ g[2] = i)

\* Node i changes and gives no vote to another node; it may have become a
\* candidate or a leader.
LEMMA NodeChange ==
    ASSUME TypeOK, VotesOK, NEW i \in Server, NEW m \in Nodes, SetNode(i, m),
           granted' = granted, elected \subseteq elected', elected' \subseteq Nat \X Server,
           Sound(m), KeepsVote(node[i], m),
           m.state = "candidate" =>
               /\ m.votedFor = i /\ NoGrant(i, m.currentTerm)
               /\ \A v \in m.votes : v = i \/ <<m.currentTerm, v, i>> \in granted,
           m.state = "leader" => <<m.currentTerm, i>> \in elected',
           m.leaderId # NoNode => <<m.currentTerm, m.leaderId>> \in elected',
           \A e \in elected' \ elected :
               \/ Server = {e[2]}
               \/ /\ e[2] = i /\ Backs(m, i, e[1]) /\ NoGrant(i, e[1])
                  /\ \E Q \in SUBSET Server :
                       /\ Cardinality(Q) >= QuorumSize
                       /\ \A v \in Q : v = i \/ <<e[1], v, i>> \in granted
    PROVE  VotesOK'
<1>1. /\ node \in [Server -> Nodes]
      /\ granted \subseteq Nat \X Server \X Server /\ elected \subseteq Nat \X Server
  BY DEF TypeOK
<1>2. node' = [node EXCEPT ![i] = m]
  BY DEF SetNode
<1>3. \A j \in Server : node'[j] = IF j = i THEN m ELSE node[j]
  BY <1>1, <1>2
<1>4. \A j, c \in Server, t \in Nat : Backs(node[j], c, t) => Backs(node'[j], c, t)
  BY <1>1, <1>3, BacksKept
<1>5. NodesSound'
  BY <1>3 DEF VotesOK, NodesSound
<1>6. VotesBind'
  BY <1>1, <1>4 DEF VotesOK, VotesBind
<1>7. CandidatesHonest'
  BY <1>3 DEF VotesOK, CandidatesHonest, NoGrant
<1>8. LeadersElected'
  BY <1>3 DEF VotesOK, LeadersElected
<1>9. LeadersBacked'
  <2> SUFFICES ASSUME NEW e \in elected', Server # {e[2]} PROVE QuorumBehind(e[1], e[2])'
    BY DEF LeadersBacked
  <2>1. CASE e \in elected
    <3>1. e[1] \in Nat /\ e[2] \in Server
      BY <1>1, <2>1
    <3>2. QuorumBehind(e[1], e[2])
      BY <2>1 DEF VotesOK, LeadersBacked
    <3> QED BY <1>4, <3>1, <3>2 DEF QuorumBehind
  <2>2. CASE e \notin elected
    BY <1>3, <2>2 DEF QuorumBehind, NoGrant
  <2> QED BY <2>1, <2>2
<1> QED BY <1>5, <1>6, <1>7, <1>8, <1>9 DEF VotesOK

\* Node i changes without becoming a candidate or a leader.
LEMMA MovesKeepVotes ==
    ASSUME TypeOK, VotesOK, NEW i \in Server, NEW m, Moves(node[i], m), SetNode(i, m),
           granted' = granted, elected' = elected,
           SameLeader(node[i], m) \/ <<m.currentTerm, m.leaderId>> \in elected
    PROVE  VotesOK'
<1>1. elected \subseteq Nat \X Server
  BY DEF TypeOK
<1>2. m.state = "candidate" =>
        /\ m.votedFor = i /\ NoGrant(i, m.currentTerm)
        /\ \A v \in m.votes : v = i \/ <<m.currentTerm, v, i>> \in granted
  BY DEF VotesOK, NodesSound, CandidatesHonest, NoGrant, Moves
<1>3. m.state = "leader" => <<m.currentTerm, i>> \in elected
  BY ZenonT(30) DEF VotesOK, LeadersElected, Moves
<1>4. m.leaderId # NoNode => <<m.currentTerm, m.leaderId>> \in elected
  BY ZenonT(30) DEF VotesOK, LeadersElected, SameLeader
<1>5. m \in Nodes /\ Sound(m) /\ KeepsVote(node[i], m)
  BY DEF Moves
<1> QED BY <1>1, <1>2, <1>3, <1>4, <1>5, NodeChange

\* Node i grants its vote to node c.
LEMMA GrantKeepsVotes ==
    ASSUME TypeOK, VotesOK, NEW i \in Server, NEW m, Moves(node[i], m), SetNode(i, m),
           NEW t \in Nat, NEW c \in Server, c # i,
           granted' = granted \cup {<<t, i, c>>}, elected' = elected,
           SameLeader(node[i], m), node[i].healthy, node[i].currentTerm <= t,
           node[i].currentTerm = t => node[i].votedFor \in {NoNode, c},
           m.disk.currentTerm = t, m.disk.votedFor = c, m.state # "candidate"
    PROVE  VotesOK'
<1>1. /\ node \in [Server -> Nodes]
      /\ granted \subseteq Nat \X Server \X Server /\ elected \subseteq Nat \X Server
  BY DEF TypeOK
<1>2. node' = [node EXCEPT ![i] = m]
  BY DEF SetNode
<1>3. \A j \in Server : node'[j] = IF j = i THEN m ELSE node[j]
  BY <1>1, <1>2
<1>4. m \in Nodes /\ Sound(m) /\ KeepsVote(node[i], m)
  BY DEF Moves
<1>5. \A j, d \in Server, s \in Nat : Backs(node[j], d, s) => Backs(node'[j], d, s)
  BY <1>1, <1>3, <1>4, BacksKept
<1>6. \A d \in Server : Backs(node[i], d, t) => d = c
  <2>1. node[i].disk = Image(node[i]) /\ node[i].currentTerm \in Nat
    BY <1>1, ZenonT(30) DEF VotesOK, NodesSound, Sound, Nodes
  <2> QED BY <2>1, ServerAssumption DEF Backs, Image
<1>7. NodesSound'
  BY <1>3, <1>4 DEF VotesOK, NodesSound
<1>8. VotesBind'
  <2>1. Backs(m, c, t)
    BY DEF Backs
  <2>2. \A g \in granted : Backs(node'[g[2]], g[3], g[1])
    BY <1>1, <1>5 DEF VotesOK, VotesBind
  <2>3. \A g \in granted' : Backs(node'[g[2]], g[3], g[1])
    BY <1>3, <2>1, <2>2
  <2>4. \A g \in granted : g[1] = t /\ g[2] = i => g = <<t, i, c>>
    <3> SUFFICES ASSUME NEW g \in granted, g[1] = t, g[2] = i PROVE g = <<t, i, c>>
      OBVIOUS
    <3>1. Backs(node[i], g[3], t) /\ g[3] \in Server
      BY <1>1 DEF VotesOK, VotesBind
    <3>2. g[3] = c
      BY <1>6, <3>1
    <3> QED BY <1>1, <3>2
  <2>5. \A g, h \in granted' : g[1] = h[1] /\ g[2] = h[2] => g = h
    BY <2>4 DEF VotesOK, VotesBind
  <2> QED BY <2>3, <2>5 DEF VotesBind
<1>9. CandidatesHonest'
  BY <1>3 DEF VotesOK, CandidatesHonest
<1>10. LeadersElected'
  <2>1. m.leaderId # NoNode => <<m.currentTerm, m.leaderId>> \in elected
    BY ZenonT(30) DEF VotesOK, LeadersElected, SameLeader
  <2>2. m.state = "leader" => <<m.currentTerm, i>> \in elected
    BY ZenonT(30) DEF VotesOK, LeadersElected, Moves
  <2> QED BY <1>3, <2>1, <2>2 DEF VotesOK, LeadersElected
<1>11. LeadersBacked'
  <2> SUFFICES ASSUME NEW e \in elected, Server # {e[2]} PROVE QuorumBehind(e[1], e[2])'
    BY DEF LeadersBacked
  <2>1. e[1] \in Nat /\ e[2] \in Server
    BY <1>1
  <2>2. QuorumBehind(e[1], e[2])
    BY DEF VotesOK, LeadersBacked
  <2>3. ~(e[1] = t /\ e[2] = i)
    BY <1>6, <2>1, <2>2 DEF QuorumBehind
  <2>4. \A g \in granted' : ~(g[1] = e[1] /\ g[2] = e[2])
    BY <2>2, <2>3 DEF QuorumBehind
  <2>5. Backs(node'[e[2]], e[2], e[1])
    BY <1>5, <2>1, <2>2 DEF QuorumBehind
  <2>6. \E Q \in SUBSET Server : /\ Cardinality(Q) >= QuorumSize
                                 /\ \A v \in Q : v = e[2] \/ <<e[1], v, e[2]>> \in granted'
    BY <2>2 DEF QuorumBehind
  <2> QED BY <2>4, <2>5, <2>6 DEF QuorumBehind
<1> QED BY <1>7, <1>8, <1>9, <1>10, <1>11 DEF VotesOK
----------------------------------------------------------------------------
(***************************************************************************)
(* What a change of one thread does to the calls.                          *)
(***************************************************************************)
\* An idle thread is in order.
LEMMA IdleGood ==
    ASSUME NEW i \in Server, NEW G, NEW E
    PROVE  GoodCall(i, Idle, G, E)
BY DEF GoodCall, Idle, Calls, NoRequest, NoReply, Replies

\* One thread changes, and votes and leaders are only added.
LEMMA CallChange ==
    ASSUME TypeOK, CallsOK, NEW i \in Server, NEW th \in Thread, NEW c,
           GoodCall(i, c, granted', elected'), SetCall(i, th, c),
           granted \subseteq granted', elected \subseteq elected'
    PROVE  CallsOK' /\ call' \in [Server -> [Thread -> Calls]]
<1>1. call \in [Server -> [Thread -> Calls]]
  BY DEF TypeOK
<1>2. call' = [call EXCEPT ![i][th] = c] /\ c \in Calls
  BY DEF SetCall, GoodCall
<1>3. call' \in [Server -> [Thread -> Calls]]
  BY <1>1, <1>2
<1>4. \A j \in Server, u \in Thread : call'[j][u] = IF j = i /\ u = th THEN c ELSE call[j][u]
  BY <1>1, <1>2
<1>5. \A j \in Server, u \in Thread : GoodCall(j, call[j][u], granted', elected')
  BY DEF CallsOK, GoodCall
<1>6. CallsOK'
  BY <1>4, <1>5 DEF CallsOK
<1> QED BY <1>3, <1>6

\* The threads stay, and votes and leaders are only added.
LEMMA CallsStay ==
    ASSUME CallsOK, LateOK, call' = call, granted \subseteq granted', elected \subseteq elected'
    PROVE  CallsOK' /\ \A r \in late : GoodRequest(r, elected')
BY DEF CallsOK, GoodCall, LateOK, GoodRequest

\* A thread that turns to the next peer.
LEMMA ResumeGood ==
    ASSUME NEW i \in Server, NEW G, NEW E, NEW c, GoodCall(i, c, G, E)
    PROVE  /\ GoodCall(i, Resume(c), G, E)
           /\ Resume(c).op = c.op /\ Resume(c).rest = c.rest
           /\ Resume(c).at \in {"next", "last"}
<1>1. c \in Calls
  BY DEF GoodCall
<1>2. NoReply \in Replies
  BY DEF NoReply, Replies
<1>3. /\ Resume(c) \in Calls /\ Resume(c).op = c.op /\ Resume(c).rest = c.rest
      /\ Resume(c).at \in {"next", "last"} /\ Resume(c).reply.ok = FALSE
  BY <1>1, <1>2, ZenonT(30) DEF Resume, Calls, NoReply
<1> QED BY <1>3 DEF GoodCall

\* A thread that waits for one of the peers left.
LEMMA SendGood ==
    ASSUME NEW i \in Server, NEW G, NEW E, NEW c, GoodCall(i, c, G, E), c.at # "replied",
           NEW p \in c.rest,
           NEW r, r \in IF c.op = "election" THEN VoteRequests ELSE AppendRequests,
           r.src = i, r.dst = p, c.op # "election" => <<r.term, i>> \in E
    PROVE  GoodCall(i, Send(c, p, r), G, E)
<1>1. c \in Calls /\ i \notin c.rest
  BY DEF GoodCall
<1>2. r \in Requests
  BY DEF Requests
<1>3. /\ Send(c, p, r) \in Calls /\ Send(c, p, r).op = c.op /\ Send(c, p, r).at = "sent"
      /\ Send(c, p, r).req = r /\ Send(c, p, r).rest \subseteq c.rest
      /\ Send(c, p, r).reply = c.reply
  BY <1>1, <1>2, ZenonT(30) DEF Send, Calls
<1> QED BY <1>1, <1>3 DEF GoodCall

\* A thread that enters a function that calls every peer.
LEMMA BusyGood ==
    ASSUME NEW i \in Server, NEW G, NEW E, NEW op \in {"election", "heartbeat", "append"}
    PROVE  /\ GoodCall(i, Busy(op, i), G, E) /\ Busy(op, i).op = op
           /\ Busy(op, i).rest = Peers(i) /\ Busy(op, i).at = "next"
<1>1. /\ Busy(op, i) \in Calls /\ Busy(op, i).op = op /\ Busy(op, i).reply.ok = FALSE
      /\ Busy(op, i).rest = Peers(i) /\ Busy(op, i).at = "next"
  BY ZenonT(30) DEF Busy, Idle, Calls, NoRequest, NoReply, Replies, Peers
<1> QED BY <1>1 DEF GoodCall, Peers
----------------------------------------------------------------------------
(***************************************************************************)
(* Every action keeps the invariant.                                       *)
(***************************************************************************)
\* The types of what an action assigns.
LEMMA AssignTypes ==
    ASSUME TypeOK, NEW i \in Server
    PROVE  /\ \A m \in Nodes : SetNode(i, m) => node' \in [Server -> Nodes] /\ node'[i] = m
           /\ \A io : Charge(i, io) => faults' \in Nat
           /\ \A th \in Thread, c \in Calls :
                Return(i, th, c) => SetCall(i, th, Idle) /\ acked' \in SUBSET Written
<1>1. node \in [Server -> Nodes] /\ faults \in Nat /\ acked \in SUBSET Written
  BY DEF TypeOK
<1>2. \A c \in Calls : c.entry \in SUBSET Written
  BY DEF Calls
<1> QED BY <1>1, <1>2 DEF SetNode, Charge, Return

\* What the invariant says of one node and of one call.
LEMMA Parts ==
    ASSUME IInv
    PROVE  /\ TypeOK /\ VotesOK /\ CallsOK /\ LateOK
           /\ \A i \in Server : /\ node[i] \in Nodes /\ Sound(node[i])
                                /\ node[i].currentTerm \in Nat
                                /\ node[i].state = "candidate" => node[i].votedFor = i
           /\ \A i \in Server, th \in Thread : /\ call[i][th] \in Calls
                                               /\ GoodCall(i, call[i][th], granted, elected)
BY ZenonT(30) DEF IInv, TypeOK, VotesOK, NodesSound, CallsOK, Nodes

\* The term of a healthy node does not decrease, a latched node that stays up does
\* not change.
Steady(n, m) ==
    /\ n.healthy => m.currentTerm >= n.currentTerm
    /\ n.up /\ ~n.healthy /\ m.up => m = n
NodesSteady == \A j \in Server : Steady(node[j], node'[j])

\* One node changes steadily.
LEMMA SetNodeSteady ==
    ASSUME TypeOK, NEW i \in Server, NEW m, SetNode(i, m), Steady(node[i], m)
    PROVE  NodesSteady
<1>1. \A j \in Server : node'[j] = IF j = i THEN m ELSE node[j]
  BY DEF TypeOK, SetNode
<1>2. \A j \in Server : node[j].currentTerm \in Nat
  BY DEF TypeOK, Nodes
<1> QED BY <1>1, <1>2 DEF NodesSteady, Steady

\* No node changes.
LEMMA StaySteady ==
    ASSUME TypeOK, node' = node
    PROVE  NodesSteady
BY DEF TypeOK, Nodes, NodesSteady, Steady

\* start_election up to its first request: a candidate of a new term, its vote on
\* disk, or a latched node.
LEMMA StartElectionKeeps ==
    ASSUME IInv, NEW i \in Server, StartElection(i)
    PROVE  IInv' /\ NodesSteady
<1> DEFINE n == node[i]
           r == [n EXCEPT !.currentTerm = @ + 1, !.votedFor = i, !.votes = {i},
                          !.state = "candidate", !.leaderId = NoNode]
<1>1. PICK io \in Outcome, p \in First(Peers(i)) :
        LET m == Persist(r, io.save1)
        IN  /\ SetNode(i, m) /\ Charge(i, io)
            /\ SetCall(i, "worker",
                    IF m.healthy
                    THEN Send(Busy("election", i), p, MakeRequestVote(m, i, p)) ELSE Idle)
  BY DEF StartElection
<1> DEFINE m == Persist(r, io.save1)
<1>2. n.healthy /\ UNCHANGED <<late, granted, elected, acked, lost, crashes>>
  BY DEF StartElection
<1>3. n \in Nodes /\ Sound(n) /\ n.currentTerm \in Nat /\ TypeOK /\ VotesOK /\ CallsOK /\ LateOK
  BY Parts
<1>4. io.save1 \in BOOLEAN
  BY OutcomeType DEF IoType
<1>5. p \in Server /\ p # i /\ p \in Peers(i) /\ "worker" \in Thread
  BY DEF First, Peers, Thread
<1>6. /\ r \in Nodes /\ r.healthy /\ r.currentTerm = n.currentTerm + 1 /\ r.votedFor = i
      /\ r.votes = {i} /\ r.state = "candidate" /\ r.leaderId = NoNode /\ r.disk = n.disk
  <2>1. n.currentTerm + 1 \in Nat
    BY <1>3
  <2> HIDE DEF n
  <2> QED BY <1>2, <1>3, <2>1, ZenonT(30) DEF Nodes, MaybeNode
<1> HIDE DEF r
<1>7. m \in Nodes /\ m.currentTerm = n.currentTerm + 1 /\ m.votedFor = i
  BY <1>4, <1>6, PersistEffect
<1>8. node' \in [Server -> Nodes] /\ faults' \in Nat
  BY <1>1, <1>3, <1>7, AssignTypes
<1>9. n.disk.currentTerm = n.currentTerm
  BY <1>2, <1>3 DEF Sound, Image
<1>10. SetNode(i, m)
  BY <1>1
<1>11. elected \subseteq Nat \X Server /\ granted \subseteq Nat \X Server \X Server
  BY <1>3 DEF TypeOK
<1>12. CASE m.healthy
  <2>1. m = [r EXCEPT !.disk = Image(r)] /\ m.disk = Image(m) /\ ValidState(m.disk)
    BY <1>4, <1>6, <1>12, PersistEffect
  <2>2. m.state = "candidate" /\ m.votes = {i} /\ m.leaderId = NoNode
    BY <1>6, <2>1 DEF Nodes
  <2>3. m.disk.currentTerm = n.currentTerm + 1
    BY <1>7, <2>1 DEF Image
  <2>4. Sound(m) /\ KeepsVote(n, m)
    BY <1>3, <1>9, <1>12, <2>1, <2>3 DEF Sound, KeepsVote
  <2>5. NoGrant(i, m.currentTerm)
    <3> SUFFICES ASSUME NEW g \in granted, g[1] = m.currentTerm, g[2] = i PROVE FALSE
      BY DEF NoGrant
    <3>1. Backs(n, g[3], m.currentTerm)
      BY <1>3 DEF VotesOK, VotesBind
    <3> QED BY <1>3, <1>7, <1>9, <3>1 DEF Backs
  <2>6. VotesOK'
    <3> HIDE DEF m, n
    <3> QED BY <1>2, <1>3, <1>7, <1>10, <1>11, <2>2, <2>4, <2>5, NodeChange, ZenonT(30) DEF n
  <2>7. GoodCall(i, Send(Busy("election", i), p, MakeRequestVote(m, i, p)), granted, elected)
    <3> HIDE DEF m
    <3>1. MakeRequestVote(m, i, p) \in VoteRequests
          /\ MakeRequestVote(m, i, p).src = i /\ MakeRequestVote(m, i, p).dst = p
      BY <1>5, <1>7, RequestTypes
    <3> QED BY <1>5, <3>1, BusyGood, SendGood, ZenonT(30)
  <2>8. SetCall(i, "worker", Send(Busy("election", i), p, MakeRequestVote(m, i, p)))
    BY <1>1, <1>12
  <2>9. CallsOK' /\ call' \in [Server -> [Thread -> Calls]]
    <3> HIDE DEF m
    <3> QED BY <1>2, <1>3, <1>5, <2>7, <2>8, CallChange
  <2>10. NodesSteady
    BY <1>2, <1>3, <1>7, <1>10, SetNodeSteady DEF Steady
  <2> QED BY <1>2, <1>3, <1>8, <2>6, <2>9, <2>10 DEF IInv, TypeOK, LateOK
<1>13. CASE ~m.healthy
  <2>1. m = MarkUnhealthy(r) /\ m.disk = n.disk /\ m.state = "follower" /\ m.leaderId = NoNode
    BY <1>4, <1>6, <1>13, PersistEffect, MarkUnhealthyEffect
  <2>2. Moves(n, m) /\ SameLeader(n, m)
    BY <1>3, <1>7, <1>13, <2>1 DEF Moves, SameLeader, Sound, KeepsVote
  <2>3. VotesOK'
    <3> HIDE DEF m, n
    <3> QED BY <1>2, <1>3, <1>10, <2>2, MovesKeepVotes, ZenonT(30) DEF n
  <2>4. CallsOK' /\ call' \in [Server -> [Thread -> Calls]]
    BY <1>1, <1>2, <1>3, <1>5, <1>13, IdleGood, CallChange, ZenonT(30)
  <2>5. NodesSteady
    BY <1>2, <1>3, <1>7, <1>10, SetNodeSteady DEF Steady
  <2> QED BY <1>2, <1>3, <1>8, <2>3, <2>4, <2>5 DEF IInv, TypeOK, LateOK
<1> QED BY <1>7, <1>12, <1>13 DEF Nodes

\* The reply to a request for a vote.
LEMMA ElectionReplyKeeps ==
    ASSUME IInv, NEW i \in Server, ElectionReply(i)
    PROVE  IInv' /\ NodesSteady
<1> DEFINE c == call[i]["worker"]
           n == node[i]
           on == n.healthy /\ n.state = "candidate" /\ n.currentTerm = c.req.term
<1>1. c.op = "election" /\ c.at = "replied"
      /\ UNCHANGED <<late, granted, elected, acked, lost, crashes>>
  BY DEF ElectionReply
<1>2. "worker" \in Thread
  BY DEF Thread
<1>3. /\ n \in Nodes /\ Sound(n) /\ n.currentTerm \in Nat
      /\ n.state = "candidate" => n.votedFor = i
      /\ TypeOK /\ VotesOK /\ CallsOK /\ LateOK
      /\ c \in Calls /\ GoodCall(i, c, granted, elected)
  BY <1>2, Parts
<1>4. /\ c.req \in VoteRequests /\ c.req.src = i /\ c.req.dst # i /\ i \notin c.rest
      /\ c.reply \in Replies /\ c.reply.term \in Nat /\ c.rest \subseteq Server
      /\ c.reply.ok => <<c.req.term, c.req.dst, i>> \in granted
  BY <1>1, <1>3 DEF GoodCall, Calls, Replies
<1>5. GoodCall(i, Idle, granted, elected)
  BY IdleGood
<1>6. ASSUME SetCall(i, "worker", Idle)
      PROVE  CallsOK' /\ call' \in [Server -> [Thread -> Calls]]
  <2> HIDE DEF c, n
  <2> QED BY <1>1, <1>2, <1>3, <1>5, <1>6, CallChange
<1>7. CASE ~on /\ SetCall(i, "worker", Idle) /\ UNCHANGED <<node, faults>>
  <2>1. VotesOK'
    BY <1>1, <1>3, <1>7, ZenonT(30) DEF VotesOK, NodesSound, VotesBind, CandidatesHonest, LeadersBacked,
                            QuorumBehind, LeadersElected
  <2> QED BY <1>1, <1>3, <1>6, <1>7, <2>1, StaySteady DEF IInv, TypeOK, LateOK
<1>8. CASE /\ on /\ c.reply.term > n.currentTerm
           /\ \E io \in Outcome : /\ SetNode(i, BecomeFollower(n, c.reply.term, io.save1))
                                  /\ Charge(i, io)
           /\ SetCall(i, "worker", Idle)
  <2>1. PICK io \in Outcome : /\ SetNode(i, BecomeFollower(n, c.reply.term, io.save1))
                              /\ Charge(i, io)
    BY <1>8
  <2> DEFINE m == BecomeFollower(n, c.reply.term, io.save1)
  <2>2. io.save1 \in BOOLEAN
    BY OutcomeType DEF IoType
  <2>3. Handled(n, m) /\ SameLeader(n, m)
    BY <1>3, <1>4, <1>8, <2>2, BecomeFollowerHandled, ZenonT(30)
  <2>4. Moves(n, m) /\ m \in Nodes
    BY <2>3, ZenonT(30) DEF Handled, Moves
  <2>5. SetNode(i, m)
    BY <2>1
  <2> HIDE DEF m
  <2>6. node' \in [Server -> Nodes] /\ faults' \in Nat
    BY <1>3, <2>1, <2>4, <2>5, AssignTypes
  <2>7. VotesOK'
    BY <1>1, <1>3, <2>3, <2>4, <2>5, MovesKeepVotes, ZenonT(30)
  <2>8. NodesSteady
    BY <1>3, <2>3, <2>5, SetNodeSteady DEF Handled, Steady
  <2> QED BY <1>1, <1>3, <1>6, <1>8, <2>6, <2>7, <2>8 DEF IInv, TypeOK, LateOK
<1>9. CASE /\ on /\ c.reply.term <= n.currentTerm
           /\ SetNode(i, IF c.reply.ok THEN [n EXCEPT !.votes = @ \cup {c.req.dst}] ELSE n)
           /\ \/ c.rest = {} /\ SetCall(i, "worker", Resume(c))
              \/ \E p \in First(c.rest) :
                   SetCall(i, "worker", Send(Resume(c), p, [c.req EXCEPT !.dst = p]))
           /\ UNCHANGED faults
  <2> DEFINE m == IF c.reply.ok THEN [n EXCEPT !.votes = @ \cup {c.req.dst}] ELSE n
  <2>1. c.req.dst \in Server
    BY <1>4 DEF VoteRequests
  <2>2. /\ m \in Nodes /\ m.healthy = n.healthy /\ m.state = n.state
        /\ m.currentTerm = n.currentTerm /\ m.votedFor = n.votedFor /\ m.leaderId = n.leaderId
        /\ m.disk = n.disk /\ Image(m) = Image(n)
        /\ m.votes \subseteq n.votes \cup (IF c.reply.ok THEN {c.req.dst} ELSE {})
    <3> HIDE DEF n, c
    <3> QED BY <1>3, <2>1, ZenonT(30) DEF Nodes, Image
  <2>3. SetNode(i, m)
    BY <1>9
  <2> HIDE DEF m
  <2>4. Sound(m) /\ KeepsVote(n, m)
    BY <1>3, <2>2 DEF Sound, KeepsVote
  <2>5. /\ m.votedFor = i /\ NoGrant(i, m.currentTerm)
        /\ \A v \in m.votes : v = i \/ <<m.currentTerm, v, i>> \in granted
    BY <1>3, <1>4, <1>9, <2>2 DEF VotesOK, CandidatesHonest, NoGrant
  <2>6. m.state = "candidate"
    BY <1>9, <2>2
  <2>7. m.leaderId # NoNode => <<m.currentTerm, m.leaderId>> \in elected
    BY <1>3, <2>2, ZenonT(30) DEF VotesOK, LeadersElected
  <2>8. VotesOK'
    <3>1. elected \subseteq Nat \X Server
      BY <1>3 DEF TypeOK
    <3> HIDE DEF n, c
    <3> QED BY <1>1, <1>3, <2>2, <2>3, <2>4, <2>5, <2>6, <2>7, <3>1, NodeChange, ZenonT(30) DEF n
  <2>9. CallsOK' /\ call' \in [Server -> [Thread -> Calls]]
    <3>1. GoodCall(i, Resume(c), granted, elected) /\ Resume(c).op = "election"
          /\ Resume(c).rest = c.rest /\ Resume(c).at # "replied"
      <4> HIDE DEF c
      <4> QED BY <1>1, <1>3, ResumeGood
    <3>2. CASE SetCall(i, "worker", Resume(c))
      <4> HIDE DEF c, n
      <4> QED BY <1>1, <1>2, <1>3, <3>1, <3>2, CallChange
    <3>3. ASSUME NEW p \in First(c.rest),
                 SetCall(i, "worker", Send(Resume(c), p, [c.req EXCEPT !.dst = p]))
          PROVE  CallsOK' /\ call' \in [Server -> [Thread -> Calls]]
      <4>1. p \in c.rest /\ p \in Server
        BY <1>4 DEF First
      <4>2. [c.req EXCEPT !.dst = p] \in VoteRequests /\ [c.req EXCEPT !.dst = p].src = i
            /\ [c.req EXCEPT !.dst = p].dst = p
        BY <1>4, <4>1 DEF VoteRequests
      <4> HIDE DEF c, n
      <4>3. GoodCall(i, Send(Resume(c), p, [c.req EXCEPT !.dst = p]), granted, elected)
        BY <3>1, <4>1, <4>2, SendGood, ZenonT(30)
      <4> QED BY <1>1, <1>2, <1>3, <3>3, <4>3, CallChange
    <3> QED BY <1>9, <3>2, <3>3, ZenonT(30)
  <2>10. node' \in [Server -> Nodes]
    BY <1>3, <2>2, <2>3, AssignTypes
  <2>11. NodesSteady
    BY <1>3, <1>9, <2>2, <2>3, SetNodeSteady DEF Steady
  <2> QED BY <1>1, <1>3, <1>9, <2>8, <2>9, <2>10, <2>11 DEF IInv, TypeOK, LateOK
<1> QED BY <1>7, <1>8, <1>9 DEF ElectionReply

\* The last critical section of start_election: a quorum of counted votes makes a
\* leader, and stands behind it from then on.
LEMMA ElectionTallyKeeps ==
    ASSUME IInv, NEW i \in Server, ElectionTally(i)
    PROVE  IInv' /\ NodesSteady
<1> DEFINE n == node[i]
           won == n.state = "candidate" /\ Cardinality(n.votes) >= QuorumSize
<1>1. PICK io \in Outcome : /\ SetNode(i, IF won THEN BecomeLeader(n, i, io.save1) ELSE n)
                            /\ Charge(i, io)
  BY DEF ElectionTally
<1> DEFINE m == IF won THEN BecomeLeader(n, i, io.save1) ELSE n
<1>2. /\ elected' = elected \cup Elected(i, node'[i])
      /\ SetCall(i, "worker", Idle)
      /\ UNCHANGED <<late, granted, acked, lost, crashes>>
  BY DEF ElectionTally
<1>3. /\ n \in Nodes /\ Sound(n) /\ n.currentTerm \in Nat
      /\ n.state = "candidate" => n.votedFor = i
      /\ TypeOK /\ VotesOK /\ CallsOK /\ LateOK
  BY Parts
<1>4. io.save1 \in BOOLEAN /\ "worker" \in Thread
  BY OutcomeType DEF IoType, Thread
<1>5. won => n.healthy
  BY <1>3 DEF Sound, Nodes
<1>6. won =>
        /\ m \in Nodes /\ Sound(m)
        /\ m.currentTerm = n.currentTerm /\ m.votedFor = n.votedFor
        /\ m.healthy => m.state = "leader" /\ m.leaderId = i /\ m.disk = Image(m)
        /\ ~m.healthy => m.state = "follower" /\ m.leaderId = NoNode /\ m.disk = n.disk
  <2>1. ValidState(n.disk)
    BY <1>3 DEF Sound
  <2>2. won => m = BecomeLeader(n, i, io.save1)
    OBVIOUS
  <2> HIDE DEF n, won, m
  <2>3. CASE won
    <3>1. m = BecomeLeader(n, i, io.save1)
      BY <2>2, <2>3
    <3>2. n.healthy
      BY <1>5, <2>3
    <3> QED BY <1>3, <1>4, <2>1, <3>1, <3>2, BecomeLeaderEffect
  <2> QED BY <2>3
<1>7. ~won => m = n
  OBVIOUS
<1>8. SetNode(i, m)
  BY <1>1
<1> HIDE DEF m
<1>9. /\ m \in Nodes /\ Sound(m) /\ m.currentTerm = n.currentTerm
      /\ m.disk.currentTerm = n.disk.currentTerm /\ m.disk.votedFor = n.disk.votedFor
      /\ m.state = "candidate" => m = n /\ n.state = "candidate"
      /\ m.state = "leader" => m = n \/ won
      /\ m.leaderId # NoNode => m.leaderId = n.leaderId \/ (m.leaderId = i /\ m.state = "leader")
  <2>1. CASE won
    <3>1. n.disk.currentTerm = n.currentTerm /\ n.disk.votedFor = n.votedFor
      BY <1>3, <1>5, <2>1 DEF Sound, Image
    <3>2. m.healthy => m.disk.currentTerm = n.currentTerm /\ m.disk.votedFor = n.votedFor
      BY <1>6, <2>1 DEF Image
    <3> HIDE DEF n, won
    <3> QED BY <1>6, <2>1, <3>1, <3>2
  <2>2. CASE ~won
    BY <1>3, <1>7, <2>2
  <2> QED BY <2>1, <2>2
<1>10. node' \in [Server -> Nodes] /\ node'[i] = m /\ faults' \in Nat
  BY <1>1, <1>3, <1>8, <1>9, AssignTypes
<1>11. /\ elected \subseteq elected' /\ elected' \subseteq Nat \X Server
       /\ m.state = "leader" => <<m.currentTerm, i>> \in elected'
       /\ \A e \in elected' \ elected : e = <<n.currentTerm, i>> /\ m.state = "leader"
  BY <1>2, <1>3, <1>9, <1>10 DEF TypeOK, Elected
<1>12. KeepsVote(n, m)
  BY <1>9 DEF KeepsVote
<1>13. m.state = "candidate" =>
         /\ m.votedFor = i /\ NoGrant(i, m.currentTerm)
         /\ \A v \in m.votes : v = i \/ <<m.currentTerm, v, i>> \in granted
  BY <1>3, <1>9 DEF VotesOK, CandidatesHonest, NoGrant
<1>14. m.leaderId # NoNode => <<m.currentTerm, m.leaderId>> \in elected'
  BY <1>3, <1>9, <1>11 DEF VotesOK, LeadersElected
<1>15. ASSUME NEW e \in elected' \ elected
       PROVE  /\ e[2] = i /\ Backs(m, i, e[1]) /\ NoGrant(i, e[1])
              /\ \E Q \in SUBSET Server :
                   /\ Cardinality(Q) >= QuorumSize
                   /\ \A v \in Q : v = i \/ <<e[1], v, i>> \in granted
  <2>1. e = <<n.currentTerm, i>> /\ m.state = "leader"
    BY <1>11, <1>15
  <2>2. won
    <3>1. m = n => <<n.currentTerm, i>> \in elected
      BY <1>3, <2>1, ZenonT(30) DEF VotesOK, LeadersElected
    <3> QED BY <1>9, <1>15, <2>1, <3>1
  <2>3. n.disk.currentTerm = n.currentTerm /\ n.disk.votedFor = i
    BY <1>3, <1>5, <2>2 DEF Sound, Image
  <2>4. Backs(m, i, n.currentTerm)
    BY <1>9, <2>1, <2>3 DEF Backs
  <2>5. NoGrant(i, n.currentTerm)
        /\ \A v \in n.votes : v = i \/ <<n.currentTerm, v, i>> \in granted
    BY <1>3, <2>2 DEF VotesOK, CandidatesHonest, NoGrant
  <2>6. n.votes \in SUBSET Server
    BY <1>3 DEF Nodes
  <2> HIDE DEF n
  <2> QED BY <2>1, <2>2, <2>4, <2>5, <2>6
<1>16. VotesOK'
  <2> HIDE DEF n, won
  <2> QED BY <1>2, <1>3, <1>8, <1>9, <1>11, <1>12, <1>13, <1>14, <1>15, NodeChange, ZenonT(30) DEF n
<1>17. CallsOK' /\ call' \in [Server -> [Thread -> Calls]]
  BY <1>2, <1>3, <1>4, <1>11, IdleGood, CallChange, ZenonT(30)
<1>18. LateOK'
  BY <1>2, <1>3, <1>11, ZenonT(30) DEF LateOK, GoodRequest
<1>19. NodesSteady
  BY <1>3, <1>5, <1>7, <1>8, <1>9, SetNodeSteady DEF Steady
<1> QED BY <1>2, <1>3, <1>10, <1>11, <1>16, <1>17, <1>18, <1>19 DEF IInv, TypeOK

(***************************************************************************)
(* send_heartbeat and append_command.                                      *)
(***************************************************************************)
\* A thread of a node takes a step that makes no candidate and no leader.
LEMMA ThreadStep ==
    ASSUME IInv, NEW i \in Server, NEW th \in Thread, NEW m, Handled(node[i], m),
           SameLeader(node[i], m), SetNode(i, m),
           NEW c, GoodCall(i, c, granted, elected), SetCall(i, th, c),
           acked' \in SUBSET Written, faults' \in Nat,
           UNCHANGED <<late, granted, elected, lost, crashes>>
    PROVE  IInv' /\ NodesSteady
<1>1. TypeOK /\ VotesOK /\ CallsOK /\ LateOK
  BY Parts
<1>2. VotesOK'
  BY <1>1, MovesKeepVotes, ZenonT(30) DEF Handled
<1>3. CallsOK' /\ call' \in [Server -> [Thread -> Calls]]
  BY <1>1, CallChange
<1>4. node' \in [Server -> Nodes]
  BY <1>1, AssignTypes DEF Handled, Moves
<1>5. NodesSteady
  BY <1>1, SetNodeSteady, ZenonT(30) DEF Handled, Steady
<1> QED BY <1>1, <1>2, <1>3, <1>4, <1>5 DEF IInv, TypeOK, LateOK

\* ... and leaves the node as it is.
LEMMA CallStep ==
    ASSUME IInv, NEW i \in Server, NEW th \in Thread,
           NEW c, GoodCall(i, c, granted, elected), SetCall(i, th, c),
           acked' \in SUBSET Written,
           UNCHANGED <<node, faults, late, granted, elected, lost, crashes>>
    PROVE  IInv' /\ NodesSteady
<1>1. TypeOK /\ node[i] \in Nodes /\ Sound(node[i])
  BY Parts
<1>2. Handled(node[i], node[i]) /\ SameLeader(node[i], node[i])
  BY <1>1, SameNodeHandled
<1>3. SetNode(i, node[i]) /\ faults' \in Nat
  BY <1>1 DEF SetNode, TypeOK
<1> QED BY <1>2, <1>3, ThreadStep

\* A thread whose counters changed.
LEMMA RelabelGood ==
    ASSUME NEW i, NEW G, NEW E, NEW c, GoodCall(i, c, G, E), NEW s \in Nat,
           NEW w \in SUBSET Written
    PROVE  GoodCall(i, [c EXCEPT !.successes = s, !.entry = w], G, E)
<1> DEFINE d == [c EXCEPT !.successes = s, !.entry = w]
<1>1. /\ d \in Calls /\ d.op = c.op /\ d.at = c.at /\ d.rest = c.rest /\ d.req = c.req
      /\ d.reply = c.reply
  BY ZenonT(30) DEF GoodCall, Calls
<1> HIDE DEF d
<1> QED BY <1>1 DEF GoodCall, d

\* A round of heartbeats begins.
LEMMA StartHeartbeatKeeps ==
    ASSUME IInv, NEW i \in Server, StartHeartbeat(i)
    PROVE  IInv' /\ NodesSteady
<1>1. /\ SetCall(i, "worker", Busy("heartbeat", i))
      /\ UNCHANGED <<node, late, granted, elected, acked, lost, crashes, faults>>
  BY DEF StartHeartbeat
<1>2. "worker" \in Thread /\ acked \in SUBSET Written
  BY Parts DEF Thread, TypeOK
<1>3. GoodCall(i, Busy("heartbeat", i), granted, elected)
  BY BusyGood
<1> QED BY <1>1, <1>2, <1>3, CallStep

\* A request of send_heartbeat or append_command.
LEMMA SendAppendKeeps ==
    ASSUME IInv, NEW i \in Server, NEW th \in Thread, SendAppend(i, th)
    PROVE  IInv' /\ NodesSteady
<1> DEFINE c == call[i][th]
<1>1. /\ c.op \in {"heartbeat", "append"} /\ c.at = "next"
      /\ UNCHANGED <<node, late, granted, elected, lost, crashes, faults>>
  BY DEF SendAppend
<1>2. /\ TypeOK /\ VotesOK /\ c \in Calls /\ GoodCall(i, c, granted, elected) /\ node[i] \in Nodes
  BY Parts
<1>3. ASSUME IsLeader(node[i]), NEW p \in First(c.rest), UNCHANGED acked,
             SetCall(i, th, Send(c, p, MakeAppendEntries(node[i], i, p)))
      PROVE  IInv' /\ NodesSteady
  <2> DEFINE r == MakeAppendEntries(node[i], i, p)
  <2>1. p \in c.rest /\ p \in Server
    BY <1>2 DEF First, Calls
  <2>2. r \in AppendRequests /\ r.src = i /\ r.dst = p /\ r.term = node[i].currentTerm
    BY <1>2, <2>1, RequestTypes
  <2>3. <<r.term, i>> \in elected
    BY <1>2, <1>3, <2>2, ZenonT(30) DEF VotesOK, LeadersElected, IsLeader
  <2>4. SetCall(i, th, Send(c, p, r))
    BY <1>3
  <2>5. c.op # "election" /\ c.at # "replied"
    BY <1>1
  <2> HIDE DEF c, r
  <2>6. GoodCall(i, Send(c, p, r), granted, elected)
    BY <1>2, <2>1, <2>2, <2>3, <2>5, SendGood
  <2>7. acked' \in SUBSET Written
    BY <1>2, <1>3 DEF TypeOK
  <2> QED BY <1>1, <2>4, <2>6, <2>7, CallStep
<1>4. CASE Return(i, th, c)
  <2>1. SetCall(i, th, Idle) /\ acked' \in SUBSET Written
    <3> HIDE DEF c
    <3> QED BY <1>2, <1>4, AssignTypes
  <2> QED BY <1>1, <2>1, IdleGood, CallStep
<1> QED BY <1>3, <1>4 DEF SendAppend

\* A reply that names a higher term: the thread leaves its function.
LEMMA StepDownKeeps ==
    ASSUME IInv, NEW i \in Server, NEW th \in Thread, NEW term \in Nat, NEW io \in Outcome,
           term > node[i].currentTerm, node[i].healthy,
           SetNode(i, BecomeFollower(node[i], term, io.save1)), Charge(i, io),
           Return(i, th, call[i][th]), UNCHANGED <<late, granted, elected, lost, crashes>>
    PROVE  IInv' /\ NodesSteady
<1> DEFINE m == BecomeFollower(node[i], term, io.save1)
<1>1. io.save1 \in BOOLEAN
  BY OutcomeType DEF IoType
<1>2. node[i] \in Nodes /\ Sound(node[i]) /\ TypeOK /\ call[i][th] \in Calls
  BY Parts
<1>3. Handled(node[i], m) /\ SameLeader(node[i], m)
  BY <1>1, <1>2, BecomeFollowerHandled
<1>4. SetCall(i, th, Idle) /\ acked' \in SUBSET Written /\ faults' \in Nat
  BY <1>2, AssignTypes
<1>5. SetNode(i, m)
  OBVIOUS
<1> HIDE DEF m
<1> QED BY <1>3, <1>4, <1>5, IdleGood, ThreadStep, ZenonT(30)

\* A reply of a round.
LEMMA HeartbeatReplyKeeps ==
    ASSUME IInv, NEW i \in Server, NEW th \in Thread, HeartbeatReply(i, th)
    PROVE  IInv' /\ NodesSteady
<1> DEFINE c == call[i][th]
           n == node[i]
           GoOn == \/ c.rest = {} /\ Return(i, th, c)
                   \/ c.rest # {} /\ SetCall(i, th, Resume(c)) /\ UNCHANGED acked
<1>1. /\ c.op = "heartbeat" /\ c.at = "replied"
      /\ UNCHANGED <<late, granted, elected, lost, crashes>>
  BY ZenonT(30) DEF HeartbeatReply
<1>2. /\ TypeOK /\ VotesOK /\ c \in Calls /\ GoodCall(i, c, granted, elected)
      /\ n \in Nodes /\ Sound(n) /\ n.currentTerm \in Nat
  BY Parts
<1>3. c.req \in AppendRequests /\ c.req.dst \in Server /\ c.reply \in Replies
      /\ c.reply.term \in Nat
  BY <1>1, <1>2 DEF GoodCall, AppendRequests, Calls, Replies
<1>4. ASSUME GoOn \/ Return(i, th, c)
      PROVE  \E d : GoodCall(i, d, granted, elected) /\ SetCall(i, th, d)
                    /\ acked' \in SUBSET Written
  <2>1. GoodCall(i, Idle, granted, elected) /\ GoodCall(i, Resume(c), granted, elected)
    <3> HIDE DEF c
    <3> QED BY <1>2, IdleGood, ResumeGood
  <2>2. Return(i, th, c) => SetCall(i, th, Idle) /\ acked' \in SUBSET Written
    <3> HIDE DEF c
    <3> QED BY <1>2, AssignTypes
  <2>3. acked \in SUBSET Written
    BY <1>2 DEF TypeOK
  <2> HIDE DEF c
  <2> QED BY <1>4, <2>1, <2>2, <2>3
<1>5. ASSUME GoOn \/ Return(i, th, c), UNCHANGED <<node, faults>>
      PROVE  IInv' /\ NodesSteady
  BY <1>1, <1>4, <1>5, CallStep
<1>6. ASSUME NEW m, SameTerm(n, m), SetNode(i, m), faults' \in Nat, GoOn \/ Return(i, th, c)
      PROVE  IInv' /\ NodesSteady
  <2>1. Handled(n, m) /\ SameLeader(n, m)
    BY <1>2, <1>6, SameTermHandled, ZenonT(30)
  <2>2. PICK d : GoodCall(i, d, granted, elected) /\ SetCall(i, th, d)
                 /\ acked' \in SUBSET Written
    BY <1>4, <1>6, ZenonT(30)
  <2> QED BY <1>1, <1>6, <2>1, <2>2, ThreadStep, ZenonT(30)
<1>7. ASSUME c.reply # NoReply, IsLeader(n), c.reply.term > n.currentTerm,
             \E io \in Outcome : /\ SetNode(i, BecomeFollower(n, c.reply.term, io.save1))
                                 /\ Charge(i, io),
             Return(i, th, c)
      PROVE  IInv' /\ NodesSteady
  BY <1>1, <1>2, <1>3, <1>7, StepDownKeeps, ZenonT(30) DEF IsLeader
<1>8. ASSUME IsLeader(n), GoOn \/ Return(i, th, c), NEW io \in Outcome, Charge(i, io),
             SetNode(i, Persist(UpdateCommitIndex(Matched(n, c)), io.save1))
      PROVE  IInv' /\ NodesSteady
  <2> DEFINE r == Matched(n, c)
             u == UpdateCommitIndex(r)
             m == Persist(u, io.save1)
  <2>1. io.save1 \in BOOLEAN
    BY OutcomeType DEF IoType
  <2>2. SameRole(n, r)
    BY <1>2, <1>3, BookkeepingEffect, ZenonT(30)
  <2>3. r \in Nodes
    BY <2>2 DEF SameRole
  <2>4. SameRole(r, u)
    <3> HIDE DEF r
    <3> QED BY <2>3, UpdateCommitIndexEffect
  <2>5. SameRole(n, u)
    BY <2>2, <2>4, ZenonT(30) DEF SameRole
  <2>6. SetNode(i, m) /\ n.healthy
    BY <1>8, ZenonT(30) DEF IsLeader
  <2> HIDE DEF u
  <2>7. SameTerm(n, m)
    BY <1>2, <2>1, <2>5, <2>6, PersistSameRole
  <2>8. faults' \in Nat
    BY <1>2, <1>8, AssignTypes, ZenonT(30)
  <2> HIDE DEF m
  <2> QED BY <1>6, <1>8, <2>6, <2>7, <2>8, ZenonT(30)
<1>9. ASSUME IsLeader(n), GoOn, SetNode(i, Backed(n, c)), UNCHANGED faults
      PROVE  IInv' /\ NodesSteady
  <2>1. SameTerm(n, Backed(n, c))
    BY <1>2, <1>3, <1>9, BookkeepingEffect, BookkeepingSameTerm, ZenonT(30) DEF IsLeader
  <2>2. faults' \in Nat
    BY <1>2, <1>9, ZenonT(30) DEF TypeOK
  <2> QED BY <1>6, <1>9, <2>1, <2>2, ZenonT(30)
<1> QED BY <1>5, <1>7, <1>8, <1>9, ZenonT(30) DEF HeartbeatReply

\* The first critical section of append_command.
LEMMA AppendCommandKeeps ==
    ASSUME IInv, NEW i \in Server, NEW cmd \in Command, AppendCommand(i, cmd)
    PROVE  IInv' /\ NodesSteady
<1> DEFINE n == node[i]
           e == [term |-> n.currentTerm, command |-> cmd]
           k == Len(n.log) + 1
           r == [n EXCEPT !.log = Append(@, e), !.matchIndex[i] = k]
           b == Resume(Busy("append", i))
           w == {[index |-> k, entry |-> e]}
<1>1. PICK io \in Outcome :
        /\ SetNode(i, Persist(r, io.save1)) /\ Charge(i, io)
        /\ SetCall(i, "client", IF Persist(r, io.save1).healthy
                                THEN [b EXCEPT !.successes = 1, !.entry = w] ELSE Idle)
  BY DEF AppendCommand
<1> DEFINE m == Persist(r, io.save1)
<1>2. IsLeader(n) /\ UNCHANGED <<late, granted, elected, acked, lost, crashes>>
  BY DEF AppendCommand
<1>3. TypeOK /\ n \in Nodes /\ Sound(n) /\ n.currentTerm \in Nat /\ n.healthy
  BY <1>2, Parts DEF IsLeader
<1>4. io.save1 \in BOOLEAN /\ "client" \in Thread
  BY OutcomeType DEF IoType, Thread
<1>5. n.log \in Seq(Entries) /\ k \in Nat /\ e \in Entries /\ n.matchIndex \in [Server -> Nat]
  BY <1>3, LenProperties DEF Nodes, Entries
<1>6. SameRole(n, r)
  <2> DEFINE log == Append(n.log, e)
             mi == [n.matchIndex EXCEPT ![i] = k]
  <2> HIDE DEF n, e, k
  <2>1. log \in Seq(Entries) /\ mi \in [Server -> Nat]
    BY <1>5, AppendProperties
  <2>2. r = [n EXCEPT !.log = log, !.matchIndex = mi]
    BY <1>3 DEF Nodes
  <2> HIDE DEF log, mi, r
  <2> QED BY <1>3, <2>1, <2>2, ZenonT(30) DEF SameRole, Nodes
<1>7. SetNode(i, m) /\ faults' \in Nat
  BY <1>1, <1>3, AssignTypes
<1>8. Handled(n, m) /\ SameLeader(n, m)
  <2> HIDE DEF r, n
  <2>1. SameTerm(n, m)
    BY <1>3, <1>4, <1>6, PersistSameRole
  <2> QED BY <1>3, <2>1, SameTermHandled
<1>9. w \in SUBSET Written
  <2> HIDE DEF e, k
  <2> QED BY <1>5 DEF Written
<1>10. GoodCall(i, b, granted, elected)
  BY BusyGood, ResumeGood
<1>11. GoodCall(i, [b EXCEPT !.successes = 1, !.entry = w], granted, elected)
  <2> HIDE DEF b, w
  <2> QED BY <1>9, <1>10, RelabelGood, ZenonT(30)
<1>12. \E d : GoodCall(i, d, granted, elected) /\ SetCall(i, "client", d)
  <2>1. CASE m.healthy
    <3>1. SetCall(i, "client", [b EXCEPT !.successes = 1, !.entry = w])
      BY <1>1, <2>1
    <3> HIDE DEF b, w
    <3> QED BY <1>11, <3>1
  <2>2. CASE ~m.healthy
    BY <1>1, <2>2, IdleGood
  <2> QED BY <2>1, <2>2
<1>13. acked' \in SUBSET Written
  BY <1>2, <1>3 DEF TypeOK
<1> HIDE DEF m
<1> QED BY <1>2, <1>4, <1>7, <1>8, <1>12, <1>13, ThreadStep

\* A reply to append_command.
LEMMA AppendReplyKeeps ==
    ASSUME IInv, NEW i \in Server, AppendReply(i)
    PROVE  IInv' /\ NodesSteady
<1> DEFINE c == call[i]["client"]
           n == node[i]
<1>1. /\ c.op = "append" /\ c.at = "replied" /\ "client" \in Thread
      /\ UNCHANGED <<late, granted, elected, lost, crashes>>
  BY DEF AppendReply, Thread
<1>2. /\ TypeOK /\ c \in Calls /\ GoodCall(i, c, granted, elected)
      /\ n \in Nodes /\ Sound(n) /\ n.currentTerm \in Nat
  BY <1>1, Parts
<1>3. c.req \in AppendRequests /\ c.req.dst \in Server /\ c.reply \in Replies
      /\ c.reply.term \in Nat /\ c.successes + 1 \in Nat /\ c.entry \in SUBSET Written
  <2>1. c.req \in AppendRequests
    BY <1>1, <1>2 DEF GoodCall
  <2>2. c.req.dst \in Server
    BY <2>1 DEF AppendRequests
  <2>3. c.reply \in Replies /\ c.successes + 1 \in Nat /\ c.entry \in SUBSET Written
    BY <1>2 DEF Calls
  <2> HIDE DEF c
  <2>4. c.reply.term \in Nat
    BY <2>3 DEF Replies
  <2> QED BY <2>1, <2>2, <2>3, <2>4
<1>4. ASSUME Return(i, "client", c), UNCHANGED <<node, faults>>
      PROVE  IInv' /\ NodesSteady
  <2>1. SetCall(i, "client", Idle) /\ acked' \in SUBSET Written
    <3> HIDE DEF c
    <3> QED BY <1>1, <1>2, <1>4, AssignTypes
  <2> QED BY <1>1, <1>4, <2>1, IdleGood, CallStep, ZenonT(30)
<1>5. ASSUME IsLeader(n), c.reply.term > n.currentTerm,
             \E io \in Outcome : /\ SetNode(i, BecomeFollower(n, c.reply.term, io.save1))
                                 /\ Charge(i, io),
             Return(i, "client", c)
      PROVE  IInv' /\ NodesSteady
  BY <1>1, <1>2, <1>3, <1>5, StepDownKeeps, ZenonT(30) DEF IsLeader
<1>6. ASSUME IsLeader(n), NEW m, SameRole(n, m), Image(m) = Image(n), SetNode(i, m),
             NEW d, GoodCall(i, d, granted, elected), SetCall(i, "client", d),
             UNCHANGED <<acked, faults>>
      PROVE  IInv' /\ NodesSteady
  <2>1. SameTerm(n, m)
    BY <1>2, <1>6, BookkeepingSameTerm, ZenonT(30) DEF IsLeader
  <2>2. Handled(n, m) /\ SameLeader(n, m)
    BY <1>2, <2>1, SameTermHandled
  <2>3. acked' \in SUBSET Written /\ faults' \in Nat
    BY <1>2, <1>6 DEF TypeOK
  <2> QED BY <1>1, <1>6, <2>2, <2>3, ThreadStep, ZenonT(30)
<1>7. GoodCall(i, Resume(c), granted, elected)
  <2> HIDE DEF c
  <2> QED BY <1>2, ResumeGood
<1>8. GoodCall(i, [Resume(c) EXCEPT !.successes = @ + 1], granted, elected)
  <2> DEFINE d == Resume(c)
  <2>1. d \in Calls /\ d.successes = c.successes /\ d.entry = c.entry
    BY <1>2, <1>7, ZenonT(30) DEF GoodCall, Resume, Calls
  <2>2. [d EXCEPT !.successes = @ + 1]
          = [d EXCEPT !.successes = c.successes + 1, !.entry = c.entry]
    <3> HIDE DEF d, c
    <3> QED BY <2>1, ZenonT(30) DEF Calls
  <2> HIDE DEF d, c
  <2>3. GoodCall(i, [d EXCEPT !.successes = c.successes + 1, !.entry = c.entry],
                 granted, elected)
    BY <1>3, <1>7, RelabelGood, ZenonT(30) DEF d
  <2> QED BY <2>2, <2>3 DEF d
<1>9. ASSUME IsLeader(n), SetNode(i, Backed(n, c)), SetCall(i, "client", Resume(c)),
             UNCHANGED <<acked, faults>>
      PROVE  IInv' /\ NodesSteady
  <2>1. SameRole(n, Backed(n, c)) /\ Image(Backed(n, c)) = Image(n)
    BY <1>2, <1>3, BookkeepingEffect, ZenonT(30)
  <2> QED BY <1>6, <1>7, <1>9, <2>1, ZenonT(30)
<1>10. ASSUME IsLeader(n), SetNode(i, Matched(n, c)),
              SetCall(i, "client", [Resume(c) EXCEPT !.successes = @ + 1]),
              UNCHANGED <<acked, faults>>
       PROVE  IInv' /\ NodesSteady
  <2>1. SameRole(n, Matched(n, c)) /\ Image(Matched(n, c)) = Image(n)
    BY <1>2, <1>3, BookkeepingEffect, ZenonT(30)
  <2> QED BY <1>6, <1>8, <1>10, <2>1
<1> QED BY <1>4, <1>5, <1>9, <1>10 DEF AppendReply

\* The commit and the delivery that end append_command.
LEMMA AppendCommitKeeps ==
    ASSUME IInv, NEW i \in Server, AppendCommit(i)
    PROVE  IInv' /\ NodesSteady
<1> DEFINE c == call[i]["client"]
           n == node[i]
           b == Busy("heartbeat", i)
           tail == [b EXCEPT !.entry = c.entry]
<1>1. "client" \in Thread /\ UNCHANGED <<late, granted, elected, lost, crashes>>
  BY DEF AppendCommit, Thread
<1>2. /\ TypeOK /\ c \in Calls /\ n \in Nodes /\ Sound(n) /\ acked \in SUBSET Written
  BY <1>1, Parts DEF TypeOK
<1>3. GoodCall(i, b, granted, elected) /\ c.entry \in SUBSET Written
  BY <1>2, BusyGood, ZenonT(30) DEF Calls
<1>4. GoodCall(i, tail, granted, elected) /\ tail \in Calls
  <2>1. b.successes \in Nat /\ b \in Calls
    BY <1>3 DEF GoodCall, Calls
  <2>2. tail = [b EXCEPT !.successes = b.successes, !.entry = c.entry]
    <3> HIDE DEF b, c
    <3> QED BY <2>1, ZenonT(30) DEF Calls
  <2> HIDE DEF b, c, tail
  <2>3. GoodCall(i, tail, granted, elected)
    BY <1>3, <2>1, <2>2, RelabelGood, ZenonT(30)
  <2> QED BY <2>3 DEF GoodCall
<1>5. ASSUME \/ Return(i, "client", c)
             \/ Return(i, "client", tail)
             \/ SetCall(i, "client", tail) /\ UNCHANGED acked
      PROVE  \E d : GoodCall(i, d, granted, elected) /\ SetCall(i, "client", d)
                    /\ acked' \in SUBSET Written
  <2> HIDE DEF tail, c
  <2>1. GoodCall(i, Idle, granted, elected)
    BY IdleGood
  <2>2. \A x \in Calls : Return(i, "client", x) =>
            SetCall(i, "client", Idle) /\ acked' \in SUBSET Written
    BY <1>1, <1>2, AssignTypes
  <2> QED BY <1>2, <1>4, <1>5, <2>1, <2>2
<1>6. ASSUME Return(i, "client", c), UNCHANGED <<node, faults>>
      PROVE  IInv' /\ NodesSteady
  BY <1>1, <1>5, <1>6, CallStep
<1>7. ASSUME IsLeader(n), NEW io \in Outcome, Charge(i, io),
             SetNode(i, Deliver(Persist(UpdateCommitIndex(n), io.save1), io)),
             \/ Return(i, "client", c)
             \/ Return(i, "client", tail)
             \/ SetCall(i, "client", tail) /\ UNCHANGED acked
      PROVE  IInv' /\ NodesSteady
  <2> DEFINE u == UpdateCommitIndex(n)
             p == Persist(u, io.save1)
             m == Deliver(p, io)
  <2>1. io \in IoType /\ io.save1 \in BOOLEAN /\ n.healthy
    BY <1>7, OutcomeType DEF IoType, IsLeader
  <2>2. SameRole(n, u)
    BY <1>2, UpdateCommitIndexEffect
  <2> HIDE DEF u
  <2>3. SameTerm(n, p)
    BY <1>2, <2>1, <2>2, PersistSameRole
  <2>4. p \in Nodes /\ Sound(p)
    BY <2>3 DEF SameTerm
  <2> HIDE DEF p
  <2>5. SameTerm(p, m)
    BY <2>1, <2>4, DeliverEffect
  <2>6. SetNode(i, m) /\ faults' \in Nat
    BY <1>2, <1>7, AssignTypes DEF p, u
  <2> HIDE DEF m
  <2>7. SameTerm(n, m)
    BY <2>3, <2>5, SameTermTransitive
  <2>8. Handled(n, m) /\ SameLeader(n, m)
    BY <1>2, <2>7, SameTermHandled
  <2>9. PICK d : GoodCall(i, d, granted, elected) /\ SetCall(i, "client", d)
                 /\ acked' \in SUBSET Written
    BY <1>5, <1>7
  <2> QED BY <1>1, <2>6, <2>8, <2>9, ThreadStep
<1> QED BY <1>6, <1>7 DEF AppendCommit
----------------------------------------------------------------------------

\* A request is executed at its destination.
LEMMA HandleKeeps ==
    ASSUME IInv, NEW r, GoodRequest(r, elected), NEW io \in Outcome,
           SetNode(r.dst, Handle(r, io).node), elected' = elected,
           granted' = granted \cup Granted(r, Handle(r, io).reply)
    PROVE  /\ VotesOK' /\ node' \in [Server -> Nodes]
           /\ granted' \in SUBSET (Nat \X Server \X Server)
           /\ Handle(r, io).reply \in Replies
           /\ r.dst \in Server /\ Handled(node[r.dst], Handle(r, io).node)
<1> DEFINE n == node[r.dst]
           h == Handle(r, io)
<1>1. r \in Requests /\ r.src # r.dst
  BY DEF GoodRequest
<1>2. r.dst \in Server /\ r.src \in Server /\ r.term \in Nat
  BY <1>1 DEF Requests, VoteRequests, AppendRequests
<1>3. /\ TypeOK /\ VotesOK /\ n \in Nodes /\ Sound(n)
      /\ n.state = "candidate" => n.votedFor = r.dst
  BY <1>2, Parts
<1>4. io \in IoType
  BY OutcomeType
<1>5. granted \subseteq Nat \X Server \X Server
  BY <1>3 DEF TypeOK
<1>6. CASE r.kind = "vote"
  <2>1. r \in VoteRequests /\ h = HandleRequestVote(n, r, io)
    BY <1>1, <1>6 DEF Requests, AppendRequests, Handle
  <2>2. n.state = "candidate" => n.votedFor \notin {NoNode, r.src}
    BY <1>1, <1>2, <1>3, ServerAssumption
  <2> HIDE DEF n, h
  <2>3. /\ Handled(n, h.node) /\ SameLeader(n, h.node) /\ h.reply \in Replies
        /\ h.reply.ok => /\ n.healthy /\ n.currentTerm <= r.term
                         /\ n.currentTerm = r.term => n.votedFor \in {NoNode, r.src}
                         /\ h.node.disk.currentTerm = r.term /\ h.node.disk.votedFor = r.src
                         /\ h.node.state # "candidate"
    BY <1>3, <1>4, <2>1, <2>2, HandleRequestVoteEffect
  <2>4. Moves(n, h.node) /\ h.node \in Nodes
    BY <2>3 DEF Handled, Moves
  <2>5. SetNode(r.dst, h.node)
    BY DEF h
  <2>6. node' \in [Server -> Nodes]
    BY <1>2, <1>3, <2>4, <2>5, AssignTypes
  <2>7. CASE h.reply.ok
    <3>1. granted' = granted \cup {<<r.term, r.dst, r.src>>}
      BY <1>6, <2>7 DEF Granted, h
    <3>2. VotesOK'
      BY <1>1, <1>2, <1>3, <2>3, <2>4, <2>5, <2>7, <3>1, GrantKeepsVotes DEF n
    <3> QED BY <1>2, <1>5, <2>3, <2>6, <3>1, <3>2 DEF h, n
  <2>8. CASE ~h.reply.ok
    <3>1. granted' = granted
      BY <2>8 DEF Granted, h
    <3>2. VotesOK'
      BY <1>2, <1>3, <2>3, <2>4, <2>5, <3>1, MovesKeepVotes, ZenonT(30) DEF n
    <3> QED BY <1>2, <1>5, <2>3, <2>6, <3>1, <3>2 DEF h, n
  <2> QED BY <2>7, <2>8
<1>7. CASE r.kind # "vote"
  <2>1. r \in AppendRequests /\ r.kind = "append" /\ h = HandleAppendEntries(n, r, io)
    BY <1>1, <1>7 DEF Requests, VoteRequests, AppendRequests, Handle
  <2>2. <<r.term, r.src>> \in elected
    BY <2>1 DEF GoodRequest
  <2> HIDE DEF n, h
  <2>3. /\ Handled(n, h.node) /\ h.reply \in Replies
        /\ \/ SameLeader(n, h.node)
           \/ h.node.leaderId = r.src /\ h.node.currentTerm = r.term
    BY <1>3, <1>4, <2>1, HandleAppendEntriesEffect
  <2>4. Moves(n, h.node) /\ h.node \in Nodes
    BY <2>3 DEF Handled, Moves
  <2>5. SetNode(r.dst, h.node) /\ granted' = granted
    BY <1>7 DEF h, Granted
  <2>6. node' \in [Server -> Nodes]
    BY <1>2, <1>3, <2>4, <2>5, AssignTypes
  <2>7. VotesOK'
    BY <1>2, <1>3, <2>2, <2>3, <2>4, <2>5, MovesKeepVotes, ZenonT(30) DEF n
  <2> QED BY <1>2, <1>5, <2>3, <2>5, <2>6, <2>7 DEF h, n
<1> QED BY <1>6, <1>7

\* A request in a call is a good one.
LEMMA SentGood ==
    ASSUME IInv, NEW i \in Server, NEW th \in Thread, call[i][th].at = "sent"
    PROVE  GoodRequest(call[i][th].req, elected)
<1> DEFINE c == call[i][th]
<1>1. GoodCall(i, c, granted, elected)
  BY Parts
<1> HIDE DEF c
<1>2. /\ c.req \in IF c.op = "election" THEN VoteRequests ELSE AppendRequests
      /\ c.req.src = i /\ c.req.dst # i
      /\ c.op # "election" => <<c.req.term, i>> \in elected
  BY <1>1 DEF GoodCall, c
<1>3. CASE c.op = "election"
  BY <1>2, <1>3 DEF GoodRequest, Requests, VoteRequests, c
<1>4. CASE c.op # "election"
  BY <1>2, <1>4 DEF GoodRequest, Requests, AppendRequests, c
<1> QED BY <1>3, <1>4

\* The destination executes the request of a waiting thread.
LEMMA RpcExecuteKeeps ==
    ASSUME IInv, NEW i \in Server, NEW th \in Thread, RpcExecute(i, th)
    PROVE  IInv' /\ NodesSteady
<1> DEFINE c == call[i][th]
           r == c.req
<1>1. PICK io \in Outcome :
        /\ SetNode(r.dst, Handle(r, io).node) /\ Charge(r.dst, io)
        /\ granted' = granted \cup Granted(r, Handle(r, io).reply)
        /\ \/ /\ SetCall(i, th, [c EXCEPT !.at = "replied", !.reply = Handle(r, io).reply])
              /\ UNCHANGED lost
           \/ /\ lost < MaxLost
              /\ SetCall(i, th, [c EXCEPT !.at = "replied"])
              /\ lost' = lost + 1
  BY ZenonT(30) DEF RpcExecute
<1> DEFINE h == Handle(r, io)
<1>2. c.at = "sent" /\ UNCHANGED <<late, elected, acked, crashes>>
  BY DEF RpcExecute
<1>3. TypeOK /\ CallsOK /\ LateOK /\ c \in Calls /\ GoodCall(i, c, granted, elected)
  BY Parts
<1>4. GoodRequest(r, elected)
  BY <1>2, SentGood
<1>5. /\ VotesOK' /\ node' \in [Server -> Nodes]
      /\ granted' \in SUBSET (Nat \X Server \X Server)
      /\ h.reply \in Replies /\ r.dst \in Server /\ Handled(node[r.dst], h.node)
  <2> HIDE DEF r
  <2> QED BY <1>1, <1>2, <1>4, HandleKeeps
<1>6. faults' \in Nat
  <2> HIDE DEF r
  <2> QED BY <1>1, <1>3, <1>5, AssignTypes
<1>7. granted \subseteq granted' /\ elected \subseteq elected'
  BY <1>1, <1>2
<1>8. ASSUME NEW q \in Replies,
             c.op = "election" /\ q.ok => <<r.term, r.dst, i>> \in granted'
      PROVE  GoodCall(i, [c EXCEPT !.at = "replied", !.reply = q], granted', elected')
  <2> DEFINE d == [c EXCEPT !.at = "replied", !.reply = q]
  <2> HIDE DEF c
  <2>1. /\ d \in Calls /\ d.op = c.op /\ d.at = "replied" /\ d.reply = q /\ d.req = c.req
        /\ d.rest = c.rest
    BY <1>3, ZenonT(30) DEF Calls
  <2> HIDE DEF d
  <2> QED BY <1>2, <1>3, <1>8, <2>1 DEF GoodCall, d
<1>9. c.op = "election" /\ h.reply.ok => <<r.term, r.dst, i>> \in granted'
  <2>1. c.op = "election" => r.kind = "vote" /\ r.src = i
    BY <1>2, <1>3 DEF GoodCall, VoteRequests
  <2> HIDE DEF c
  <2> QED BY <1>1, <2>1 DEF Granted
<1>10. NodesSteady
  <2> HIDE DEF r, h
  <2> QED BY <1>1, <1>3, <1>5, SetNodeSteady DEF Handled, Steady, h
<1>11. CASE SetCall(i, th, [c EXCEPT !.at = "replied", !.reply = h.reply]) /\ UNCHANGED lost
  <2> HIDE DEF c, h
  <2>1. CallsOK' /\ call' \in [Server -> [Thread -> Calls]]
    BY <1>3, <1>5, <1>7, <1>8, <1>9, <1>11, CallChange, ZenonT(30)
  <2> QED BY <1>2, <1>3, <1>5, <1>6, <1>11, <1>10, <2>1 DEF IInv, TypeOK, LateOK
<1>12. CASE SetCall(i, th, [c EXCEPT !.at = "replied"]) /\ lost' = lost + 1
  <2>1. GoodCall(i, [c EXCEPT !.at = "replied"], granted', elected')
    <3>1. [c EXCEPT !.at = "replied"] = [c EXCEPT !.at = "replied", !.reply = c.reply]
      <4> HIDE DEF c
      <4> QED BY <1>3, ZenonT(30) DEF Calls
    <3>2. c.reply \in Replies /\ ~c.reply.ok
      BY <1>2, <1>3 DEF Calls, GoodCall
    <3> HIDE DEF c
    <3> QED BY <1>8, <3>1, <3>2, ZenonT(30)
  <2>2. lost' \in Nat
    BY <1>3, <1>12 DEF TypeOK
  <2> HIDE DEF c
  <2>3. CallsOK' /\ call' \in [Server -> [Thread -> Calls]]
    BY <1>3, <1>7, <1>12, <2>1, CallChange
  <2> QED BY <1>2, <1>3, <1>5, <1>6, <1>10, <2>2, <2>3 DEF IInv, TypeOK, LateOK
<1> QED BY <1>1, <1>11, <1>12

\* A caller gives up; its request may still be on its way.
LEMMA RpcFailKeeps ==
    ASSUME IInv, NEW i \in Server, NEW th \in Thread, RpcFail(i, th)
    PROVE  IInv' /\ NodesSteady
<1> DEFINE c == call[i][th]
           d == [c EXCEPT !.at = "replied"]
<1>1. /\ c.at = "sent" /\ SetCall(i, th, d) /\ lost' \in {lost, lost + 1}
      /\ late' \subseteq late \cup {c.req}
      /\ UNCHANGED <<node, granted, elected, acked, crashes, faults>>
  BY DEF RpcFail
<1>2. TypeOK /\ VotesOK /\ CallsOK /\ LateOK /\ c \in Calls /\ GoodCall(i, c, granted, elected)
  BY Parts
<1>3. GoodRequest(c.req, elected)
  BY <1>1, SentGood
<1>4. GoodCall(i, d, granted, elected)
  <2> HIDE DEF c
  <2>1. /\ d \in Calls /\ d.op = c.op /\ d.at = "replied" /\ d.reply = c.reply /\ d.req = c.req
        /\ d.rest = c.rest
    BY <1>2 DEF Calls
  <2> HIDE DEF d
  <2> QED BY <1>1, <1>2, <2>1 DEF GoodCall
<1>5. CallsOK' /\ call' \in [Server -> [Thread -> Calls]]
  <2> HIDE DEF d, c
  <2> QED BY <1>1, <1>2, <1>4, CallChange
<1>6. VotesOK'
  BY <1>1, <1>2 DEF VotesOK, NodesSound, VotesBind, CandidatesHonest, LeadersBacked,
                    QuorumBehind, LeadersElected
<1>7. LateOK' /\ late' \in SUBSET Requests
  <2> HIDE DEF c
  <2> QED BY <1>1, <1>2, <1>3, ZenonT(30) DEF LateOK, GoodRequest
<1>8. lost' \in Nat
  BY <1>1, <1>2 DEF TypeOK
<1> QED BY <1>1, <1>2, <1>5, <1>6, <1>7, <1>8, StaySteady DEF IInv, TypeOK

\* A late request is executed.
LEMMA LateExecuteKeeps ==
    ASSUME IInv, NEW r \in late, LateExecute(r)
    PROVE  IInv' /\ NodesSteady
<1>1. PICK io \in Outcome :
        /\ SetNode(r.dst, Handle(r, io).node) /\ Charge(r.dst, io)
        /\ granted' = granted \cup Granted(r, Handle(r, io).reply)
  BY DEF LateExecute
<1>2. late' = late \ {r} /\ UNCHANGED <<call, elected, acked, lost, crashes>>
  BY DEF LateExecute
<1>3. TypeOK /\ CallsOK /\ LateOK
  BY Parts
<1>4. GoodRequest(r, elected)
  BY <1>3 DEF LateOK
<1>5. /\ VotesOK' /\ node' \in [Server -> Nodes]
      /\ granted' \in SUBSET (Nat \X Server \X Server) /\ r.dst \in Server
      /\ Handled(node[r.dst], Handle(r, io).node)
  BY <1>1, <1>2, <1>4, HandleKeeps
<1>6. faults' \in Nat
  BY <1>1, <1>3, <1>5, AssignTypes
<1>7. granted \subseteq granted' /\ elected \subseteq elected'
  BY <1>1, <1>2
<1>8. CallsOK' /\ \A q \in late : GoodRequest(q, elected')
  BY <1>2, <1>3, <1>7, CallsStay
<1>9. LateOK' /\ late' \in SUBSET Requests
  BY <1>2, <1>3, <1>8 DEF LateOK, TypeOK
<1>10. NodesSteady
  BY <1>1, <1>3, <1>5, SetNodeSteady DEF Handled, Steady
<1> QED BY <1>2, <1>3, <1>5, <1>6, <1>8, <1>9, <1>10 DEF IInv, TypeOK

\* A crash: the node's vote is what its state file says.
LEMMA CrashKeeps ==
    ASSUME IInv, NEW i \in Server, Crash(i)
    PROVE  IInv' /\ NodesSteady
<1> DEFINE n == node[i]
           b == Loaded(n.disk)
           m == [b EXCEPT !.up = FALSE]
           sent == {call[i][th].req : th \in {t \in Thread : call[i][t].at = "sent"}}
<1>1. /\ SetNode(i, m) /\ call' = [call EXCEPT ![i] = [th \in Thread |-> Idle]]
      /\ late' \subseteq late \cup sent /\ crashes' = crashes + 1
      /\ UNCHANGED <<granted, elected, acked, lost, faults>>
  BY DEF Crash
<1>2. TypeOK /\ VotesOK /\ CallsOK /\ LateOK /\ n \in Nodes /\ Sound(n)
  BY Parts
<1>3. n.disk \in Images /\ ValidState(n.disk)
  BY <1>2 DEF Nodes, Sound
<1>4. /\ b \in Nodes /\ Sound(b) /\ b.state = "follower" /\ b.leaderId = NoNode /\ b.disk = n.disk
      /\ b.currentTerm = n.disk.currentTerm
  <2> HIDE DEF n
  <2> QED BY <1>3, LoadedEffect
<1>5. /\ m \in Nodes /\ m.healthy = b.healthy /\ m.state = "follower" /\ m.leaderId = NoNode
      /\ m.disk = n.disk /\ Image(m) = Image(b) /\ ~m.up /\ m.currentTerm = n.disk.currentTerm
  <2> HIDE DEF b
  <2> QED BY <1>4, ZenonT(30) DEF Nodes, Image
<1> HIDE DEF b, m
<1>6. Moves(n, m) /\ SameLeader(n, m)
  BY <1>4, <1>5 DEF Moves, SameLeader, Sound, KeepsVote
<1>7. VotesOK'
  BY <1>1, <1>2, <1>6, MovesKeepVotes, ZenonT(30)
<1>8. node' \in [Server -> Nodes]
  BY <1>1, <1>2, <1>5, AssignTypes
<1>9. GoodCall(i, Idle, granted, elected) /\ Idle \in Calls
  BY IdleGood DEF GoodCall
<1>10. call' \in [Server -> [Thread -> Calls]]
  BY <1>1, <1>2, <1>9 DEF TypeOK
<1>11. CallsOK'
  <2>1. \A j \in Server, th \in Thread : call'[j][th] = IF j = i THEN Idle ELSE call[j][th]
    BY <1>1, <1>2 DEF TypeOK
  <2> QED BY <1>1, <1>2, <1>9, <2>1 DEF CallsOK
<1>12. \A r \in sent : GoodRequest(r, elected)
  BY SentGood
<1>13. LateOK' /\ late' \in SUBSET Requests
  <2> HIDE DEF sent
  <2> QED BY <1>1, <1>2, <1>12, ZenonT(30) DEF LateOK, GoodRequest
<1>14. crashes' \in Nat
  BY <1>1, <1>2 DEF TypeOK
<1>15. NodesSteady
  <2>1. n.healthy => n.disk.currentTerm = n.currentTerm
    BY <1>2 DEF Sound, Image
  <2>2. n.currentTerm \in Nat
    BY <1>2 DEF Nodes
  <2> QED BY <1>1, <1>2, <1>5, <2>1, <2>2, SetNodeSteady DEF Steady
<1> QED BY <1>1, <1>2, <1>7, <1>8, <1>10, <1>11, <1>13, <1>14, <1>15 DEF IInv, TypeOK

\* A restart from the state file.
LEMMA RestartKeeps ==
    ASSUME IInv, NEW i \in Server, Restart(i)
    PROVE  IInv' /\ NodesSteady
<1> DEFINE n == node[i]
           m == Started(i, n.disk)
<1>1. /\ SetNode(i, m) /\ elected' = elected \cup Elected(i, node'[i]) /\ ~n.up
      /\ UNCHANGED <<call, late, granted, acked, lost, crashes, faults>>
  BY DEF Restart
<1>2. TypeOK /\ VotesOK /\ CallsOK /\ LateOK /\ n \in Nodes /\ Sound(n)
  BY Parts
<1>3. n.disk \in Images /\ ValidState(n.disk)
  BY <1>2 DEF Nodes, Sound
<1>4. /\ m \in Nodes /\ Sound(m) /\ m.state # "candidate"
      /\ m.currentTerm >= n.disk.currentTerm
      /\ m.disk.currentTerm >= n.disk.currentTerm /\ m.disk.votedFor = n.disk.votedFor
      /\ Server # {i} => m.state # "leader" /\ m.leaderId = NoNode
      /\ m.leaderId \in {NoNode, i}
      /\ m.leaderId = i => m.state = "leader"
  <2> HIDE DEF n
  <2> QED BY <1>3, StartedEffect
<1> HIDE DEF m
<1>5. node' \in [Server -> Nodes] /\ node'[i] = m
  BY <1>1, <1>2, <1>4, AssignTypes
<1>6. n.disk.currentTerm \in Nat /\ m.disk.currentTerm \in Nat /\ m.currentTerm \in Nat
  BY <1>2, <1>4 DEF Nodes, Images
<1>7. KeepsVote(n, m)
  BY <1>4, <1>6 DEF KeepsVote
<1>8. /\ elected \subseteq elected' /\ elected' \subseteq Nat \X Server
      /\ m.state = "leader" => <<m.currentTerm, i>> \in elected'
      /\ \A e \in elected' \ elected : e = <<m.currentTerm, i>> /\ m.state = "leader"
  BY <1>1, <1>2, <1>5, <1>6 DEF TypeOK, Elected
<1>9. \A e \in elected' \ elected : Server = {e[2]}
  BY <1>4, <1>8
<1>10. m.leaderId # NoNode => <<m.currentTerm, m.leaderId>> \in elected'
  BY <1>4, <1>8
<1>11. VotesOK'
  <2> HIDE DEF n
  <2> QED BY <1>1, <1>2, <1>4, <1>7, <1>8, <1>9, <1>10, NodeChange DEF n
<1>12. CallsOK' /\ \A r \in late : GoodRequest(r, elected')
  BY <1>1, <1>2, <1>8, CallsStay, ZenonT(30)
<1>13. LateOK'
  BY <1>1, <1>12 DEF LateOK
<1>14. NodesSteady
  <2>1. n.healthy => n.disk.currentTerm = n.currentTerm
    BY <1>2 DEF Sound, Image
  <2> QED BY <1>1, <1>2, <1>4, <2>1, SetNodeSteady DEF Steady
<1> QED BY <1>1, <1>2, <1>5, <1>8, <1>11, <1>12, <1>13, <1>14 DEF IInv, TypeOK

\* A fresh cluster.
LEMMA InitHolds == Init => IInv
<1> SUFFICES ASSUME Init PROVE IInv
  OBVIOUS
<1>1. EmptyDisk \in Images /\ ValidState(EmptyDisk)
  <2>1. << >> \in Seq(Entries) /\ Len(<< >>) = 0
    BY EmptySeq
  <2> QED BY <2>1, BoundAssumption DEF EmptyDisk, Images, MaybeNode, ValidState
<1>2. \A i \in Server : node[i] = Started(i, EmptyDisk)
  BY DEF Init
<1>3. \A i \in Server :
        /\ node[i] \in Nodes /\ Sound(node[i]) /\ node[i].state # "candidate"
        /\ Server # {i} => node[i].state # "leader" /\ node[i].leaderId = NoNode
        /\ node[i].leaderId \in {NoNode, i}
        /\ node[i].leaderId = i => node[i].state = "leader"
  BY <1>1, <1>2, StartedEffect
<1>4. \A i \in Server : node[i].state = "leader" => <<node[i].currentTerm, i>> \in elected
  BY DEF Init, Elected
<1>5. \A e \in elected : \E i \in Server : e = <<node[i].currentTerm, i>> /\ node[i].state = "leader"
  BY DEF Init, Elected
<1>6. \A i \in Server : node[i].currentTerm \in Nat
  BY <1>3 DEF Nodes
<1>7. VotesOK
  <2>1. LeadersBacked
    BY <1>3, <1>5 DEF LeadersBacked
  <2>2. LeadersElected
    BY <1>3, <1>4 DEF LeadersElected
  <2>3. NodesSound /\ VotesBind /\ CandidatesHonest
    BY <1>3 DEF Init, NodesSound, VotesBind, CandidatesHonest
  <2> QED BY <2>1, <2>2, <2>3 DEF VotesOK
<1>8. \A i \in Server : GoodCall(i, Idle, granted, elected)
  BY IdleGood
<1>9. CallsOK /\ call \in [Server -> [Thread -> Calls]]
  BY <1>8, ZenonT(30) DEF Init, CallsOK, GoodCall
<1>10. node \in [Server -> Nodes]
  BY <1>3 DEF Init
<1>11. elected \in SUBSET (Nat \X Server)
  BY <1>5, <1>6
<1>12. LateOK /\ late \in SUBSET Requests /\ granted = {} /\ acked = {}
       /\ lost \in Nat /\ crashes \in Nat /\ faults \in Nat
  BY DEF Init, LateOK
<1> QED BY <1>7, <1>9, <1>10, <1>11, <1>12 DEF IInv, TypeOK

\* Every step keeps the invariant.
LEMMA NextKeeps == IInv /\ [Next]_vars => IInv' /\ NodesSteady
<1> SUFFICES ASSUME IInv, [Next]_vars PROVE IInv' /\ NodesSteady
  OBVIOUS
<1>1. CASE UNCHANGED vars
  BY <1>1, StaySteady DEF vars, IInv, TypeOK, VotesOK, CallsOK, LateOK, NodesSound, VotesBind,
              CandidatesHonest, LeadersBacked, QuorumBehind, LeadersElected
<1>2. ASSUME NEW i \in Server, StartElection(i) PROVE IInv' /\ NodesSteady
  BY <1>2, StartElectionKeeps
<1>3. ASSUME NEW i \in Server, ElectionReply(i) PROVE IInv' /\ NodesSteady
  BY <1>3, ElectionReplyKeeps
<1>4. ASSUME NEW i \in Server, ElectionTally(i) PROVE IInv' /\ NodesSteady
  BY <1>4, ElectionTallyKeeps
<1>5. ASSUME NEW i \in Server, StartHeartbeat(i) PROVE IInv' /\ NodesSteady
  BY <1>5, StartHeartbeatKeeps
<1>6. ASSUME NEW i \in Server, NEW cmd \in Command, AppendCommand(i, cmd) PROVE IInv' /\ NodesSteady
  BY <1>6, AppendCommandKeeps
<1>7. ASSUME NEW i \in Server, AppendReply(i) PROVE IInv' /\ NodesSteady
  BY <1>7, AppendReplyKeeps
<1>8. ASSUME NEW i \in Server, AppendCommit(i) PROVE IInv' /\ NodesSteady
  BY <1>8, AppendCommitKeeps
<1>9. ASSUME NEW i \in Server, Crash(i) PROVE IInv' /\ NodesSteady
  BY <1>9, CrashKeeps
<1>10. ASSUME NEW i \in Server, Restart(i) PROVE IInv' /\ NodesSteady
  BY <1>10, RestartKeeps
<1>11. ASSUME NEW i \in Server, NEW th \in Thread, SendAppend(i, th) PROVE IInv' /\ NodesSteady
  BY <1>11, SendAppendKeeps
<1>12. ASSUME NEW i \in Server, NEW th \in Thread, HeartbeatReply(i, th) PROVE IInv' /\ NodesSteady
  BY <1>12, HeartbeatReplyKeeps
<1>13. ASSUME NEW i \in Server, NEW th \in Thread, RpcExecute(i, th) PROVE IInv' /\ NodesSteady
  BY <1>13, RpcExecuteKeeps
<1>14. ASSUME NEW i \in Server, NEW th \in Thread, RpcFail(i, th) PROVE IInv' /\ NodesSteady
  BY <1>14, RpcFailKeeps
<1>15. ASSUME NEW r \in late, LateExecute(r) PROVE IInv' /\ NodesSteady
  BY <1>15, LateExecuteKeeps
<1> QED BY <1>1, <1>2, <1>3, <1>4, <1>5, <1>6, <1>7, <1>8, <1>9, <1>10, <1>11, <1>12,
           <1>13, <1>14, <1>15 DEF Next
----------------------------------------------------------------------------
\* Two leaders of a term would share a voter, which votes once.
LEMMA OneLeader == ASSUME QuorumsMeet, IInv PROVE ElectionSafety
<1> SUFFICES ASSUME NEW e \in elected, NEW f \in elected, e[1] = f[1], e # f
             PROVE  FALSE
  BY DEF ElectionSafety
<1>1. /\ e = <<e[1], e[2]>> /\ f = <<f[1], f[2]>> /\ e[2] \in Server /\ f[2] \in Server
  BY DEF IInv, TypeOK
<1>2. e[2] # f[2]
  BY <1>1
<1>3. QuorumBehind(e[1], e[2]) /\ QuorumBehind(f[1], f[2])
  BY <1>1, <1>2 DEF IInv, VotesOK, LeadersBacked
<1>4. PICK P \in SUBSET Server : /\ Cardinality(P) >= QuorumSize
                                 /\ \A v \in P : v = e[2] \/ <<e[1], v, e[2]>> \in granted
  BY <1>3 DEF QuorumBehind
<1>5. PICK Q \in SUBSET Server : /\ Cardinality(Q) >= QuorumSize
                                 /\ \A v \in Q : v = f[2] \/ <<f[1], v, f[2]>> \in granted
  BY <1>3 DEF QuorumBehind
<1>6. PICK v \in P : v \in Q
  BY <1>4, <1>5 DEF QuorumsMeet
<1>7. CASE v = e[2]
  <2>1. <<f[1], e[2], f[2]>> \in granted
    BY <1>2, <1>5, <1>6, <1>7
  <2> QED BY <1>3, <2>1 DEF QuorumBehind
<1>8. CASE v = f[2]
  <2>1. <<e[1], f[2], e[2]>> \in granted
    BY <1>2, <1>4, <1>6, <1>8
  <2> QED BY <1>3, <2>1 DEF QuorumBehind
<1>9. CASE v # e[2] /\ v # f[2]
  <2>1. <<e[1], v, e[2]>> \in granted /\ <<e[1], v, f[2]>> \in granted
    BY <1>4, <1>5, <1>6, <1>9
  <2> QED BY <1>2, <2>1 DEF IInv, VotesOK, VotesBind
<1> QED BY <1>7, <1>8, <1>9

=============================================================================
