-------------------------------- MODULE Raft --------------------------------
(***************************************************************************)
(* The RaftNode class of src/src/v3/cluster/raft.cpp: leader election, log *)
(* replication, commitment, delivery to the state machine, persistence and *)
(* the fail-stop latch, for a fixed set of voting peers.                   *)
(*                                                                         *)
(* A node is one record, node[i]; the functions of the class that run      *)
(* under mutex_ are operators from node records to node records.  Two      *)
(* threads of a node issue RPCs and give up mutex_ while they wait: the    *)
(* worker (run) and the caller of append_command.  call[i][th] is the      *)
(* program counter and the local variables of such a thread, and every     *)
(* critical section between two RPCs is one action.  append_command keeps  *)
(* apply_pipeline_mutex_ from its first line to its last, so the handler   *)
(* of AppendEntries waits while the client thread of its node is busy.     *)
(*                                                                         *)
(* An RPC is a request on a connection of its own with a read timeout: it  *)
(* can be lost, be executed and lose its reply, or be executed after the   *)
(* caller stopped waiting (late).                                          *)
(***************************************************************************)
EXTENDS Integers, Sequences, FiniteSets

CONSTANTS
    Server,      \* peers_: the voting peers, every node included
    Rank,        \* position in peers_; peers of equal rank come in any order
    Command,     \* commands handed to append_command
    NoNode,      \* no vote, no known leader
    Electors,    \* bound: the nodes whose election deadline may pass
    Writers,     \* bound: the nodes whose service calls append_command
    MaxTerm,     \* bound: elections stop at this term
    MaxLog,      \* RaftStateCodecLimits::max_log_entries
    MaxLost,     \* bound: RPCs that fail although the destination could answer
    MaxLate,     \* bound: requests in flight whose caller gave up
    MaxCrashes,  \* bound: process crashes
    MaxFaults    \* bound: failed writes and rejected applies

ASSUME ServerAssumption == IsFiniteSet(Server) /\ Server # {} /\ NoNode \notin Server
ASSUME RankAssumption == Rank \in [Server -> Nat]
ASSUME BoundAssumption ==
    /\ Electors \subseteq Server
    /\ Writers \subseteq Server
    /\ MaxTerm \in Nat /\ MaxLog \in Nat /\ MaxLost \in Nat
    /\ MaxLate \in Nat /\ MaxCrashes \in Nat /\ MaxFaults \in Nat

VARIABLES
    node,     \* node[i]: the fields of RaftNode i and its state file
    call,     \* call[i][th]: what thread th of node i is doing
    late,     \* requests whose caller stopped waiting, still to be executed
    granted,  \* history: the <<term, voter, candidate>> of every granted vote
    elected,  \* history: the <<term, node>> pairs of every elected leader
    acked,    \* history: the log entries append_command returned true for
    lost,     \* RPCs that failed so far
    crashes,  \* crashes so far
    faults    \* storage and state machine failures so far

vars == <<node, call, late, granted, elected, acked, lost, crashes, faults>>

Thread == {"worker", "client"}
Peers(i) == Server \ {i}
First(rest) == {p \in rest : \A q \in rest : Rank[p] <= Rank[q]}

\* Mutant: half of the nodes are a quorum.
QuorumSizeHalf == Cardinality(Server) \div 2

\* quorum_size(): peers_.size() / 2 + 1.
QuorumSize == (Cardinality(Server) \div 2) + 1

MinOf(a, b) == IF a <= b THEN a ELSE b

\* next_index_ and match_index_ after clear(): an absent entry reads as 0, which
\* leaves the quorum-th largest match index as it is.
NoIndexes == [p \in Server |-> 0]
----------------------------------------------------------------------------
(***************************************************************************)
(* Functions of the class that run under mutex_, from record to record.    *)
(***************************************************************************)
LastLogTerm(log) == IF log = << >> THEN 0 ELSE log[Len(log)].term

\* mark_unhealthy_locked: the fail-stop latch.
MarkUnhealthy(n) ==
    IF ~n.healthy THEN n
    ELSE [n EXCEPT !.healthy = FALSE, !.state = "follower", !.leaderId = NoNode,
                   !.votes = {}, !.nextIndex = NoIndexes, !.matchIndex = NoIndexes]

\* RaftPersistentState: what a save writes.
Image(n) == [currentTerm |-> n.currentTerm, votedFor |-> n.votedFor, log |-> n.log,
             commitIndex |-> n.commitIndex, lastApplied |-> n.lastApplied]

\* validate_state of the codec: a save of any other state throws.
ValidState(s) ==
    /\ s.commitIndex <= Len(s.log)
    /\ s.lastApplied <= s.commitIndex
    /\ s.currentTerm = 0 => s.votedFor = NoNode
    /\ \A k \in 1..Len(s.log) : s.log[k].term \in 1..s.currentTerm
    /\ Len(s.log) <= MaxLog

\* persist_state_locked: ok is the outcome of the file system; the result is
\* healthy exactly when the function returns true.
Persist(n, ok) ==
    IF ~n.healthy THEN n
    ELSE IF ok /\ ValidState(Image(n)) THEN [n EXCEPT !.disk = Image(n)]
    ELSE MarkUnhealthy(n)

\* Mutant: the leader of the old term is not forgotten.
BecomeFollowerKeepsLeader(n, term, ok) ==
    Persist([n EXCEPT !.state = "follower", !.currentTerm = term, !.votedFor = NoNode,
                      !.votes = {}, !.nextIndex = NoIndexes, !.matchIndex = NoIndexes], ok)

BecomeFollower(n, term, ok) ==
    Persist([n EXCEPT !.state = "follower", !.currentTerm = term, !.votedFor = NoNode,
                      !.votes = {}, !.nextIndex = NoIndexes, !.matchIndex = NoIndexes,
                      !.leaderId = NoNode], ok)

BecomeLeader(n, i, ok) ==
    Persist([n EXCEPT !.state = "leader", !.leaderId = i,
                      !.nextIndex = [p \in Server |-> IF p = i THEN 0 ELSE Len(n.log) + 1],
                      !.matchIndex = NoIndexes], ok)

IsLogUpToDate(n, term, index) ==
    IF term # LastLogTerm(n.log) THEN term > LastLogTerm(n.log)
    ELSE index >= Len(n.log)

\* update_commit_index_locked: the candidate is the quorum-th largest of the
\* local log length and every value of match_index_, to which append_command
\* adds an entry for the node itself.
Replicated(n, k) ==
    Cardinality({p \in Server : n.matchIndex[p] >= k})
        + (IF Len(n.log) >= k THEN 1 ELSE 0)
UpdateCommitIndex(n) ==
    LET candidates == {k \in n.commitIndex + 1 .. Len(n.log) :
                           /\ Replicated(n, k) >= QuorumSize
                           /\ Replicated(n, k + 1) < QuorumSize
                           /\ n.log[k].term = n.currentTerm}
    IN  IF candidates = {} THEN n
        ELSE [n EXCEPT !.commitIndex = CHOOSE k \in candidates : TRUE]

\* What the environment of one critical section does: the outcome of its first
\* and second save, and of the delivery ("accepts" entries are applied and
\* saved, then the callback rejects the next one or its save fails).
Io(save1, save2, accepts, fate) ==
    [save1 |-> save1, save2 |-> save2, accepts |-> accepts, fate |-> fate]
IoOk == Io(TRUE, TRUE, 0, "ok")
IoFail == {Io(FALSE, TRUE, 0, "ok"), Io(TRUE, FALSE, 0, "ok")}
              \cup {Io(TRUE, TRUE, k, "reject") : k \in 0..(MaxLog - 1)}
              \cup {Io(TRUE, TRUE, k, "save") : k \in 0..(MaxLog - 1)}

\* drain_committed_entries_locked and deliver_applied_entries: the entries up
\* to the commit index reach the state machine in order, and last_applied_ is
\* saved after each.
Deliver(n, io) ==
    LET goal == MinOf(n.commitIndex, Len(n.log))
        stop == IF io.fate = "ok" THEN goal ELSE MinOf(goal, n.lastApplied + io.accepts)
        seen == IF io.fate = "save" THEN MinOf(goal, stop + 1) ELSE stop
        m == Persist([n EXCEPT !.lastApplied = stop,
                               !.applied = @ \o SubSeq(n.log, n.lastApplied + 1, seen)], TRUE)
    IN  IF goal <= n.lastApplied \/ ~n.healthy THEN n
        ELSE IF stop < goal THEN MarkUnhealthy(m) ELSE m
----------------------------------------------------------------------------
(***************************************************************************)
(* The RPC handlers.                                                       *)
(***************************************************************************)
\* The state a handler leaves and its reply; the match index of a vote and of a
\* refused request is not read.
Answer(r, yes) ==
    [node |-> r, reply |-> [term |-> r.currentTerm, ok |-> yes,
                            matchIndex |-> IF yes THEN Len(r.log) ELSE 0]]

IsValidRequestVote(a) ==
    /\ a.term # 0
    /\ a.lastLogTerm <= a.term
    /\ (a.lastLogIndex = 0) <=> (a.lastLogTerm = 0)

\* The early returns of handle_request_vote.
RefuseVote(n, a) == ~n.healthy \/ ~IsValidRequestVote(a) \/ a.term < n.currentTerm

HandleRequestVote(n, a, io) ==
    LET m == IF a.term > n.currentTerm THEN BecomeFollower(n, a.term, io.save1) ELSE n
        grant == /\ m.votedFor \in {NoNode, a.src}
                 /\ IsLogUpToDate(m, a.lastLogTerm, a.lastLogIndex)
        v == Persist([m EXCEPT !.votedFor = a.src], io.save2)
    IN  IF RefuseVote(n, a) THEN Answer(n, FALSE)
        ELSE IF ~m.healthy \/ ~grant THEN Answer(m, FALSE)
        ELSE Answer(v, v.healthy)

IsValidAppendEntries(a) ==
    /\ a.term # 0
    /\ (a.prevLogIndex = 0) <=> (a.prevLogTerm = 0)
    /\ a.prevLogTerm <= a.term
    /\ a.prevLogIndex + Len(a.entries) <= MaxLog
    /\ \A k \in 1..Len(a.entries) : a.entries[k].term \in 1..a.term

\* The loop over the entries: an entry that differs from the local one cuts the
\* log there, entries beyond the end are pushed, equal ones are kept.
MergeEntries(log, prev, entries) ==
    IF \E k \in 1..Len(entries) : prev + k > Len(log) \/ log[prev + k] # entries[k]
    THEN SubSeq(log, 1, prev) \o entries
    ELSE log

\* The branch that cuts the log before a previous entry of another term.
CutBefore(n, prev) ==
    LET commit == MinOf(n.commitIndex, prev - 1)
    IN  [n EXCEPT !.log = SubSeq(n.log, 1, prev - 1), !.commitIndex = commit,
                  !.lastApplied = MinOf(@, commit)]

\* Mutant: the accepted entries are not saved before the reply.
AcceptEntriesUnsaved(n, a, io) ==
    LET log == MergeEntries(n.log, a.prevLogIndex, a.entries)
        commit == IF a.leaderCommit > n.commitIndex
                  THEN MinOf(a.leaderCommit, Len(log)) ELSE n.commitIndex
    IN  Deliver([n EXCEPT !.log = log, !.commitIndex = commit], io)

\* Entries, commit index, save and delivery of an accepted request.
AcceptEntries(n, a, io) ==
    LET log == MergeEntries(n.log, a.prevLogIndex, a.entries)
        commit == IF a.leaderCommit > n.commitIndex
                  THEN MinOf(a.leaderCommit, Len(log)) ELSE n.commitIndex
    IN  Deliver(Persist([n EXCEPT !.log = log, !.commitIndex = commit], io.save2), io)

\* Mutant: the term of the previous entry is not compared.
PrevDiffersNever(n, a) == FALSE

\* The conditions of handle_append_entries: its early returns, its call of
\* become_follower, and the previous entry of another term.
RefuseAppend(n, a) == ~n.healthy \/ ~IsValidAppendEntries(a) \/ a.term < n.currentTerm
StepsDown(n, a) == a.term > n.currentTerm \/ n.state = "candidate"
PrevDiffers(n, a) == a.prevLogIndex > 0 /\ n.log[a.prevLogIndex].term # a.prevLogTerm

\* Mutant: a request of an old term is merged, and only its sender not believed.
HandleAppendEntriesAnyTerm(n, a, io) ==
    LET m == IF StepsDown(n, a) THEN BecomeFollower(n, a.term, io.save1) ELSE n
        l == IF a.term < n.currentTerm THEN m ELSE [m EXCEPT !.leaderId = a.src]
        prev == a.prevLogIndex
        accepted == AcceptEntries(l, a, io)
    IN  IF ~n.healthy \/ ~IsValidAppendEntries(a) THEN Answer(n, FALSE)
        ELSE IF ~m.healthy THEN Answer(m, FALSE)
        ELSE IF prev > Len(l.log) \/ PrevDiffers(l, a) THEN Answer(l, FALSE)
        ELSE Answer(accepted, accepted.healthy)

HandleAppendEntries(n, a, io) ==
    LET m == IF StepsDown(n, a) THEN BecomeFollower(n, a.term, io.save1) ELSE n
        l == [m EXCEPT !.leaderId = a.src]
        prev == a.prevLogIndex
        accepted == AcceptEntries(l, a, io)
    IN  IF RefuseAppend(n, a) THEN Answer(n, FALSE)
        ELSE IF ~m.healthy THEN Answer(m, FALSE)
        ELSE IF prev > Len(l.log) THEN Answer(l, FALSE)
        ELSE IF PrevDiffers(l, a)
        THEN Answer(Persist(CutBefore(l, prev), io.save2), FALSE)
        ELSE Answer(accepted, accepted.healthy)

\* The leader's bookkeeping for a positive and a negative reply.
Matched(n, c) == [n EXCEPT !.matchIndex[c.req.dst] = c.reply.matchIndex,
                           !.nextIndex[c.req.dst] = c.reply.matchIndex + 1]
Backed(n, c) == [n EXCEPT !.nextIndex[c.req.dst] = IF @ > 1 THEN @ - 1 ELSE 1]

\* make_append_entries_for: a next index beyond the log yields no previous
\* entry and no entries.
MakeAppendEntries(n, i, p) ==
    LET next == n.nextIndex[p]
        hasPrev == next > 1 /\ next - 1 <= Len(n.log)
    IN  [kind |-> "append", src |-> i, dst |-> p, term |-> n.currentTerm,
         prevLogIndex |-> IF hasPrev THEN next - 1 ELSE 0,
         prevLogTerm |-> IF hasPrev THEN n.log[next - 1].term ELSE 0,
         entries |-> IF next \in 1..Len(n.log) THEN SubSeq(n.log, next, Len(n.log))
                     ELSE << >>,
         leaderCommit |-> n.commitIndex]

MakeRequestVote(n, i, p) ==
    [kind |-> "vote", src |-> i, dst |-> p, term |-> n.currentTerm,
     lastLogIndex |-> Len(n.log), lastLogTerm |-> LastLogTerm(n.log)]
----------------------------------------------------------------------------
(***************************************************************************)
(* Threads.  op is the function the thread is in; at is its place in it:   *)
(* "next" before the critical section that prepares the next RPC, "sent"   *)
(* while it waits, "replied" when the reply is there (NoReply when none    *)
(* came), "last" before the last critical section of the function.  rest   *)
(* are the peers still to call, successes the local of append_command and  *)
(* entry the log entry it wrote, as a set (empty on the worker).           *)
(***************************************************************************)
NoReply == [term |-> 0, ok |-> FALSE, matchIndex |-> 0]
NoRequest == [kind |-> "none"]
Idle == [op |-> "idle", at |-> "next", rest |-> {}, req |-> NoRequest,
         reply |-> NoReply, successes |-> 0, entry |-> {}]
Busy(op, i) == [Idle EXCEPT !.op = op, !.rest = Peers(i)]

\* The thread waits for peer p; the thread goes on to the peers that are left.
Send(c, p, req) == [c EXCEPT !.at = "sent", !.rest = @ \ {p}, !.req = req]
Resume(c) == [c EXCEPT !.at = IF c.rest = {} THEN "last" ELSE "next",
                       !.req = NoRequest, !.reply = NoReply]

SetCall(i, th, c) == call' = [call EXCEPT ![i][th] = c]
SetNode(i, n) == node' = [node EXCEPT ![i] = n]
\* The thread leaves its function; leaving the heartbeats that end
\* append_command, the latter returns true.
Return(i, th, c) ==
    /\ SetCall(i, th, Idle)
    /\ acked' = IF c.op = "heartbeat" THEN acked \cup c.entry ELSE acked

IsLeader(n) == n.healthy /\ n.state = "leader"

\* The environment's choices for a critical section of node i; a failure is
\* charged, and only counts when it latched the node.
Outcome == IF faults < MaxFaults THEN {IoOk} \cup IoFail ELSE {IoOk}
Charge(i, io) ==
    /\ faults' = IF io = IoOk THEN faults ELSE faults + 1
    /\ io # IoOk => node[i].healthy /\ ~node'[i].healthy

EmptyDisk == [currentTerm |-> 0, votedFor |-> NoNode, log |-> << >>,
              commitIndex |-> 0, lastApplied |-> 0]

\* The constructor and load_persistent_state of a process that finds disk.
Loaded(disk) ==
    [up |-> TRUE, healthy |-> TRUE, state |-> "follower",
     currentTerm |-> disk.currentTerm, votedFor |-> disk.votedFor,
     votes |-> {}, leaderId |-> NoNode, log |-> disk.log,
     commitIndex |-> disk.commitIndex, lastApplied |-> disk.lastApplied,
     nextIndex |-> NoIndexes, matchIndex |-> NoIndexes,
     applied |-> << >>, disk |-> disk]

\* on_apply and start: entries up to last_applied are replayed, committed ones
\* beyond are delivered; a cluster of one elects itself.
Started(i, disk) ==
    LET ready == Deliver([Loaded(disk) EXCEPT
                              !.applied = SubSeq(disk.log, 1, disk.lastApplied)], IoOk)
    IN  IF Server = {i}
        THEN BecomeLeader([ready EXCEPT !.currentTerm = IF @ = 0 THEN 1 ELSE @], i, TRUE)
        ELSE Persist(ready, TRUE)

\* History: node i leads, in its current term.
Elected(i, n) == IF n.state = "leader" THEN {<<n.currentTerm, i>>} ELSE {}

Init ==
    /\ node = [i \in Server |-> Started(i, EmptyDisk)]
    /\ call = [i \in Server |-> [th \in Thread |-> Idle]]
    /\ late = {}
    /\ granted = {}
    /\ elected = UNION {Elected(i, node[i]) : i \in Server}
    /\ acked = {}
    /\ lost = 0
    /\ crashes = 0
    /\ faults = 0
----------------------------------------------------------------------------
(***************************************************************************)
(* start_election, on the worker thread.                                   *)
(***************************************************************************)
\* run: the election deadline passed.  start_election up to its first RPC.
StartElection(i) ==
    /\ i \in Electors /\ node[i].up /\ node[i].healthy /\ node[i].state # "leader"
    /\ call[i]["worker"] = Idle
    /\ node[i].currentTerm < MaxTerm
    /\ \E io \in Outcome, p \in First(Peers(i)) :
         LET n == Persist([node[i] EXCEPT !.currentTerm = @ + 1, !.votedFor = i,
                               !.votes = {i}, !.state = "candidate",
                               !.leaderId = NoNode], io.save1)
         IN  /\ SetNode(i, n)
             /\ Charge(i, io)
             /\ SetCall(i, "worker",
                    IF n.healthy
                    THEN Send(Busy("election", i), p, MakeRequestVote(n, i, p)) ELSE Idle)
    /\ UNCHANGED <<late, granted, elected, acked, lost, crashes>>

\* The critical section after an RPC: the election is off, a higher term is
\* adopted, or the vote is counted and the same request goes to the next peer.
ElectionReply(i) ==
    LET c == call[i]["worker"]
        n == node[i]
        on == n.healthy /\ n.state = "candidate" /\ n.currentTerm = c.req.term
    IN  /\ n.up /\ c.op = "election" /\ c.at = "replied"
        /\ \/ /\ ~on
              /\ SetCall(i, "worker", Idle)
              /\ UNCHANGED <<node, faults>>
           \/ /\ on /\ c.reply.term > n.currentTerm
              /\ \E io \in Outcome : /\ SetNode(i, BecomeFollower(n, c.reply.term, io.save1))
                                     /\ Charge(i, io)
              /\ SetCall(i, "worker", Idle)
           \/ /\ on /\ c.reply.term <= n.currentTerm
              /\ SetNode(i, IF c.reply.ok
                            THEN [n EXCEPT !.votes = @ \cup {c.req.dst}] ELSE n)
              /\ \/ c.rest = {} /\ SetCall(i, "worker", Resume(c))
                 \/ \E p \in First(c.rest) :
                      SetCall(i, "worker", Send(Resume(c), p, [c.req EXCEPT !.dst = p]))
              /\ UNCHANGED faults
        /\ UNCHANGED <<late, granted, elected, acked, lost, crashes>>

\* The last critical section.
ElectionTally(i) ==
    LET c == call[i]["worker"]
        n == node[i]
        won == n.state = "candidate" /\ Cardinality(n.votes) >= QuorumSize
    IN  /\ n.up /\ c.op = "election" /\ c.at = "last"
        /\ \E io \in Outcome :
             /\ SetNode(i, IF won THEN BecomeLeader(n, i, io.save1) ELSE n)
             /\ Charge(i, io)
        /\ elected' = elected \cup Elected(i, node'[i])
        /\ SetCall(i, "worker", Idle)
        /\ UNCHANGED <<late, granted, acked, lost, crashes>>
----------------------------------------------------------------------------
(***************************************************************************)
(* send_heartbeat, on the worker thread and at the end of append_command.  *)
(***************************************************************************)
\* run: a leader starts a round.
StartHeartbeat(i) ==
    /\ node[i].up /\ IsLeader(node[i]) /\ Peers(i) # {}
    /\ call[i]["worker"] = Idle
    /\ SetCall(i, "worker", Busy("heartbeat", i))
    /\ UNCHANGED <<node, late, granted, elected, acked, lost, crashes, faults>>

\* The critical section before an RPC of send_heartbeat or append_command; a
\* node that lost its leadership leaves the function.
SendAppend(i, th) ==
    LET c == call[i][th]
    IN  /\ node[i].up /\ c.op \in {"heartbeat", "append"} /\ c.at = "next"
        /\ \/ /\ IsLeader(node[i])
              /\ \E p \in First(c.rest) :
                   SetCall(i, th, Send(c, p, MakeAppendEntries(node[i], i, p)))
              /\ UNCHANGED acked
           \/ /\ ~IsLeader(node[i])
              /\ Return(i, th, c)
        /\ UNCHANGED <<node, late, granted, elected, lost, crashes, faults>>

\* The reply to a request of the round.
HeartbeatReply(i, th) ==
    LET c == call[i][th]
        n == node[i]
        on == IsLeader(n) /\ n.currentTerm = c.req.term
        GoOn == \/ c.rest = {} /\ Return(i, th, c)
                \/ c.rest # {} /\ SetCall(i, th, Resume(c)) /\ UNCHANGED acked
    IN  /\ n.up /\ c.op = "heartbeat" /\ c.at = "replied"
        /\ \/ c.reply = NoReply /\ GoOn /\ UNCHANGED <<node, faults>>
           \/ /\ c.reply # NoReply /\ ~on
              /\ Return(i, th, c)
              /\ UNCHANGED <<node, faults>>
           \/ /\ c.reply # NoReply /\ on /\ c.reply.term > n.currentTerm
              /\ \E io \in Outcome : /\ SetNode(i, BecomeFollower(n, c.reply.term, io.save1))
                                     /\ Charge(i, io)
              /\ Return(i, th, c)
           \/ /\ c.reply # NoReply /\ on /\ c.reply.term <= n.currentTerm /\ c.reply.ok
              /\ \E io \in Outcome :
                   /\ SetNode(i, Persist(UpdateCommitIndex(Matched(n, c)), io.save1))
                   /\ Charge(i, io)
              /\ IF node'[i].healthy THEN GoOn ELSE Return(i, th, c)
           \/ /\ c.reply # NoReply /\ on /\ c.reply.term <= n.currentTerm /\ ~c.reply.ok
              /\ SetNode(i, Backed(n, c))
              /\ GoOn
              /\ UNCHANGED faults
        /\ UNCHANGED <<late, granted, elected, lost, crashes>>
----------------------------------------------------------------------------
(***************************************************************************)
(* append_command, on a service thread that holds apply_pipeline_mutex_.   *)
(***************************************************************************)
\* The first critical section; a call on any other node returns false at once.
AppendCommand(i, cmd) ==
    /\ i \in Writers /\ node[i].up /\ IsLeader(node[i])
    /\ call[i]["client"] = Idle
    /\ Len(node[i].log) < MaxLog
    /\ \E io \in Outcome :
         LET e == [term |-> node[i].currentTerm, command |-> cmd]
             k == Len(node[i].log) + 1
             n == Persist([node[i] EXCEPT !.log = Append(@, e),
                               !.matchIndex[i] = k], io.save1)
         IN  /\ SetNode(i, n)
             /\ Charge(i, io)
             /\ SetCall(i, "client",
                    IF n.healthy
                    THEN [Resume(Busy("append", i)) EXCEPT !.successes = 1,
                              !.entry = {[index |-> k, entry |-> e]}]
                    ELSE Idle)
    /\ UNCHANGED <<late, granted, elected, acked, lost, crashes>>

\* The critical section after an RPC.
AppendReply(i) ==
    LET c == call[i]["client"]
        n == node[i]
        on == IsLeader(n) /\ n.currentTerm = c.req.term
    IN  /\ n.up /\ c.op = "append" /\ c.at = "replied"
        /\ \/ /\ ~on
              /\ Return(i, "client", c)
              /\ UNCHANGED <<node, faults>>
           \/ /\ on /\ c.reply.term > n.currentTerm
              /\ \E io \in Outcome : /\ SetNode(i, BecomeFollower(n, c.reply.term, io.save1))
                                     /\ Charge(i, io)
              /\ Return(i, "client", c)
           \/ /\ on /\ c.reply.term <= n.currentTerm /\ ~c.reply.ok
              /\ SetNode(i, Backed(n, c))
              /\ SetCall(i, "client", Resume(c))
              /\ UNCHANGED <<acked, faults>>
           \/ /\ on /\ c.reply.term <= n.currentTerm /\ c.reply.ok
              /\ SetNode(i, Matched(n, c))
              /\ SetCall(i, "client", [Resume(c) EXCEPT !.successes = @ + 1])
              /\ UNCHANGED <<acked, faults>>
        /\ UNCHANGED <<late, granted, elected, lost, crashes>>

\* The last critical section and the delivery; then the heartbeats.
AppendCommit(i) ==
    LET c == call[i]["client"]
        n == node[i]
        on == IsLeader(n) /\ c.successes >= QuorumSize
    IN  /\ n.up /\ c.op = "append" /\ c.at = "last"
        /\ \/ ~on /\ Return(i, "client", c) /\ UNCHANGED <<node, faults>>
           \/ /\ on
              /\ \E io \in Outcome :
                   /\ SetNode(i, Deliver(Persist(UpdateCommitIndex(n), io.save1), io))
                   /\ Charge(i, io)
              /\ LET tail == [Busy("heartbeat", i) EXCEPT !.entry = c.entry]
                 IN  IF ~node'[i].healthy THEN Return(i, "client", c)
                     ELSE IF tail.rest = {} THEN Return(i, "client", tail)
                     ELSE SetCall(i, "client", tail) /\ UNCHANGED acked
        /\ UNCHANGED <<late, granted, elected, lost, crashes>>
----------------------------------------------------------------------------
(***************************************************************************)
(* The RPC transport.                                                      *)
(***************************************************************************)
\* The handler of a request at its destination.
Handle(req, io) ==
    IF req.kind = "vote" THEN HandleRequestVote(node[req.dst], req, io)
    ELSE HandleAppendEntries(node[req.dst], req, io)

\* History: the vote a handler gave.
Granted(req, reply) ==
    IF req.kind = "vote" /\ reply.ok THEN {<<req.term, req.dst, req.src>>} ELSE {}

\* handle_append_entries takes apply_pipeline_mutex_ first.
CanHandle(req) ==
    /\ node[req.dst].up
    /\ req.kind = "append" => call[req.dst]["client"] = Idle

\* Mutant: the caller waits for a destination that cannot answer.
MayFailOnlyIfServed(req) == CanHandle(req) /\ lost < MaxLost

\* The read timeout passes, or the connection fails (bounded by MaxLost where
\* the destination could answer).
MayFail(req) == CanHandle(req) => lost < MaxLost

\* The destination executes the request; its reply arrives, or is lost.
RpcExecute(i, th) ==
    LET c == call[i][th]
    IN  /\ c.at = "sent" /\ CanHandle(c.req)
        /\ \E io \in Outcome :
             LET h == Handle(c.req, io)
             IN  /\ SetNode(c.req.dst, h.node)
                 /\ Charge(c.req.dst, io)
                 /\ granted' = granted \cup Granted(c.req, h.reply)
                 /\ \/ /\ SetCall(i, th, [c EXCEPT !.at = "replied", !.reply = h.reply])
                       /\ UNCHANGED lost
                    \/ /\ lost < MaxLost
                       /\ SetCall(i, th, [c EXCEPT !.at = "replied"])
                       /\ lost' = lost + 1
        /\ UNCHANGED <<late, elected, acked, crashes>>

\* The request does not reach its destination, or the read times out while it
\* is still on its way or waits for apply_pipeline_mutex_ there.
RpcFail(i, th) ==
    LET c == call[i][th]
    IN  /\ c.at = "sent"
        /\ MayFail(c.req)
        /\ lost' = IF CanHandle(c.req) THEN lost + 1 ELSE lost
        /\ SetCall(i, th, [c EXCEPT !.at = "replied"])
        /\ \/ late' = late
           \/ /\ Cardinality(late) < MaxLate
              /\ late' = late \cup {c.req}
        /\ UNCHANGED <<node, granted, elected, acked, crashes, faults>>

\* A request whose caller stopped waiting is executed.
LateExecute(req) ==
    /\ req \in late /\ CanHandle(req)
    /\ \E io \in Outcome :
         LET h == Handle(req, io)
         IN  /\ SetNode(req.dst, h.node)
             /\ Charge(req.dst, io)
             /\ granted' = granted \cup Granted(req, h.reply)
    /\ late' = late \ {req}
    /\ UNCHANGED <<call, elected, acked, lost, crashes>>
----------------------------------------------------------------------------
\* The process dies; its requests may still be on their way.
Crash(i) ==
    LET sent == {call[i][th].req : th \in {t \in Thread : call[i][t].at = "sent"}}
    IN  /\ crashes < MaxCrashes /\ node[i].up
        /\ SetNode(i, [Loaded(node[i].disk) EXCEPT !.up = FALSE])
        /\ call' = [call EXCEPT ![i] = [th \in Thread |-> Idle]]
        /\ late' \in {late} \cup
             (IF Cardinality(late \cup sent) <= MaxLate THEN {late \cup sent} ELSE {})
        /\ crashes' = crashes + 1
        /\ UNCHANGED <<granted, elected, acked, lost, faults>>

Restart(i) ==
    /\ ~node[i].up
    /\ SetNode(i, Started(i, node[i].disk))
    /\ elected' = elected \cup Elected(i, node'[i])
    /\ UNCHANGED <<call, late, granted, acked, lost, crashes, faults>>

Next ==
    \/ \E i \in Server :
         \/ StartElection(i) \/ ElectionReply(i) \/ ElectionTally(i)
         \/ StartHeartbeat(i)
         \/ \E cmd \in Command : AppendCommand(i, cmd)
         \/ AppendReply(i) \/ AppendCommit(i)
         \/ Crash(i) \/ Restart(i)
    \/ \E i \in Server, th \in Thread :
         \/ SendAppend(i, th) \/ HeartbeatReply(i, th)
         \/ RpcExecute(i, th) \/ RpcFail(i, th)
    \/ \E req \in late : LateExecute(req)

Spec == Init /\ [][Next]_vars

\* Weak fairness of the thread inside append_command, with its enabledness
\* spelled out: it is ready unless it waits for an RPC that can neither be
\* executed nor fail, and every step of it changes its call record.  The
\* operating system schedules the threads of a live process, and the read
\* timeout ends a wait; nothing is asked of elections, heartbeats or peers.
ClientReady(i) ==
    LET c == call[i]["client"]
    IN  c # Idle /\ (c.at = "sent" => CanHandle(c.req) \/ MayFail(c.req))
ClientMoves(i) == call'[i]["client"] # call[i]["client"]

FairSpec ==
    /\ Spec
    /\ \A i \in Writers : <>[]ClientReady(i) => []<><<ClientMoves(i)>>_vars
----------------------------------------------------------------------------
(***************************************************************************)
(* Types.                                                                  *)
(***************************************************************************)
Entries == [term : Nat, command : Command]
MaybeNode == Server \cup {NoNode}
Images == [currentTerm : Nat, votedFor : MaybeNode, log : Seq(Entries),
           commitIndex : Nat, lastApplied : Nat]
Nodes == [up : BOOLEAN, healthy : BOOLEAN, state : {"follower", "candidate", "leader"},
          currentTerm : Nat, votedFor : MaybeNode, votes : SUBSET Server,
          leaderId : MaybeNode, log : Seq(Entries), commitIndex : Nat,
          lastApplied : Nat, nextIndex : [Server -> Nat], matchIndex : [Server -> Nat],
          applied : Seq(Entries), disk : Images]
VoteRequests == [kind : {"vote"}, src : Server, dst : Server, term : Nat,
                 lastLogIndex : Nat, lastLogTerm : Nat]
AppendRequests == [kind : {"append"}, src : Server, dst : Server, term : Nat,
                   prevLogIndex : Nat, prevLogTerm : Nat, entries : Seq(Entries),
                   leaderCommit : Nat]
Requests == VoteRequests \cup AppendRequests
Replies == [term : Nat, ok : BOOLEAN, matchIndex : Nat]
Written == [index : Nat, entry : Entries]
Calls == [op : {"idle", "election", "heartbeat", "append"},
          at : {"next", "sent", "replied", "last"}, rest : SUBSET Server,
          req : Requests \cup {NoRequest}, reply : Replies, successes : Nat,
          entry : SUBSET Written]

\* Every variable has its type: the fields of RaftNode, the state file, the
\* locals of the two RPC threads and the messages.
TypeOK ==
    /\ node \in [Server -> Nodes]
    /\ call \in [Server -> [Thread -> Calls]]
    /\ late \in SUBSET Requests
    /\ granted \in SUBSET (Nat \X Server \X Server)
    /\ elected \in SUBSET (Nat \X Server)
    /\ acked \in SUBSET Written
    /\ lost \in Nat
    /\ crashes \in Nat
    /\ faults \in Nat
----------------------------------------------------------------------------
(***************************************************************************)
(* Safety.                                                                 *)
(***************************************************************************)
\* Two nodes never win an election of the same term (start_election counts
\* granted votes; become_follower forgets the vote of the term it is called
\* with, which handle_append_entries does in the node's own term).
ElectionSafety == \A e, f \in elected : e[1] = f[1] => e = f

\* leader_id() of a node names a node that won the election of the node's term:
\* what services redirect their clients to.
KnownLeaderWasElected ==
    \A i \in Server : node[i].leaderId # NoNode =>
        <<node[i].currentTerm, node[i].leaderId>> \in elected

\* Whenever mutex_ is free, a healthy node has on disk the term, the vote, the
\* log and the indexes it answers from: a crash at that point loses none of what
\* a peer or a client was told.
HealthyIsDurable ==
    \A i \in Server : node[i].healthy =>
        node[i].disk = Image(node[i]) /\ ValidState(node[i].disk)

\* Two logs that hold an entry of the same term at the same index agree up to
\* there (the previous-entry check of handle_append_entries).
LogMatching ==
    \A i, j \in Server : \A k \in 1..MinOf(Len(node[i].log), Len(node[j].log)) :
        node[i].log[k].term = node[j].log[k].term =>
            \A m \in 1..k : node[i].log[m] = node[j].log[m]

\* No step, a crash and a restart included, takes the term of a healthy node
\* back.
TermNeverDecreases ==
    [][\A i \in Server : node[i].healthy => node'[i].currentTerm >= node[i].currentTerm]_vars

\* The fail-stop latch: an unhealthy node changes nothing until its process
\* ends, whatever its threads were doing and whatever its peers send.
UnhealthyIsFrozen ==
    [][\A i \in Server : node[i].up /\ ~node[i].healthy /\ node'[i].up =>
           node'[i] = node[i]]_vars

\* A node that leads keeps what it has logged as long as it leads: no handler or
\* late request of the same term cuts or rewrites it.
LeaderAppendOnly ==
    [][\A i \in Server : node[i].state = "leader" /\ node'[i].state = "leader" =>
           /\ Len(node'[i].log) >= Len(node[i].log)
           /\ SubSeq(node'[i].log, 1, Len(node[i].log)) = node[i].log]_vars

\* What the replication documents promise of committed entries: two nodes never
\* hold different entries at an index both have committed.
CommittedEntriesAgree ==
    \A i, j \in Server :
        \A k \in 1..MinOf(node[i].commitIndex, node[j].commitIndex) :
            k <= Len(node[i].log) /\ k <= Len(node[j].log) => node[i].log[k] = node[j].log[k]

\* What append_command acknowledged is in the log of every later leader.
AckedEntriesSurvive ==
    \A a \in acked, i \in Server :
        node[i].state = "leader" /\ node[i].currentTerm >= a.entry.term =>
            /\ a.index <= Len(node[i].log)
            /\ node[i].log[a.index] = a.entry
----------------------------------------------------------------------------
(***************************************************************************)
(* Liveness.                                                               *)
(***************************************************************************)
\* Every append_command returns (or its process dies), although it holds
\* apply_pipeline_mutex_ while it waits for peers whose own handlers may be
\* waiting for theirs.
AppendReturns ==
    \A i \in Writers : (call[i]["client"] # Idle) ~> (call[i]["client"] = Idle)
=============================================================================
