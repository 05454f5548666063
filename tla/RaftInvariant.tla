--------------------------- MODULE RaftInvariant ---------------------------
(***************************************************************************)
(* The inductive invariant of Raft: why a quorum of durable votes stands   *)
(* behind every leader, whatever crashed, failed or arrived late since.    *)
(***************************************************************************)
EXTENDS Raft

\* The state file is valid and, unless the node is latched, the memory image;
\* a latched node is a follower that knows no leader.
Sound(n) ==
    /\ ValidState(n.disk)
    /\ n.healthy => n.disk = Image(n)
    /\ ~n.healthy => n.state = "follower" /\ n.leaderId = NoNode

\* Node n can no longer vote for another candidate than c in term t: its durable
\* term is past t, or its durable vote of t went to c and it does not campaign
\* (a candidate that steps down in its own term forgets the vote for itself).
Backs(n, c, t) ==
    \/ n.disk.currentTerm > t
    \/ n.disk.currentTerm = t /\ n.disk.votedFor = c /\ n.state # "candidate"

NodesSound ==
    \A i \in Server : /\ Sound(node[i])
                      /\ node[i].state = "candidate" => node[i].votedFor = i

\* A granted vote binds its voter, once and for all.
VotesBind ==
    /\ \A g \in granted : Backs(node[g[2]], g[3], g[1])
    /\ \A g, h \in granted : g[1] = h[1] /\ g[2] = h[2] => g = h

\* A candidate counts votes that were granted to it in its term, and gave none
\* to another node in that term.
CandidatesHonest ==
    \A i \in Server : node[i].state = "candidate" =>
        /\ \A g \in granted : ~(g[1] = node[i].currentTerm /\ g[2] = i)
        /\ \A v \in node[i].votes : v = i \/ <<node[i].currentTerm, v, i>> \in granted

\* A leader of more than itself got the votes of a quorum and gave its own to
\* nobody else.
QuorumBehind(t, c) ==
    /\ Backs(node[c], c, t)
    /\ \A g \in granted : ~(g[1] = t /\ g[2] = c)
    /\ \E Q \in SUBSET Server :
         /\ Cardinality(Q) >= QuorumSize
         /\ \A v \in Q : v = c \/ <<t, v, c>> \in granted

\* Any two quorums of peers_ share a node.
QuorumsMeet ==
    \A P, Q \in SUBSET Server :
        Cardinality(P) >= QuorumSize /\ Cardinality(Q) >= QuorumSize => \E v \in P : v \in Q

\* Behind every leader ever elected stands a quorum whose votes of that term are
\* durable and bind their voters: no crash, lost reply or step-down since lets
\* one of them vote again in that term.
LeadersBacked == \A e \in elected : Server = {e[2]} \/ QuorumBehind(e[1], e[2])

\* Who leads, and whom a node takes for its leader, was elected.
LeadersElected ==
    \A i \in Server :
        /\ node[i].state = "leader" => <<node[i].currentTerm, i>> \in elected
        /\ node[i].leaderId # NoNode => <<node[i].currentTerm, node[i].leaderId>> \in elected

VotesOK == NodesSound /\ VotesBind /\ CandidatesHonest /\ LeadersBacked /\ LeadersElected

\* A thread of node i waits for another node, with the request of the function it
\* is in; only elected leaders send AppendEntries; a positive reply to a request
\* for a vote stands for a granted vote.
GoodCall(i, c, grants, leaders) ==
    /\ c \in Calls
    /\ i \notin c.rest
    /\ c.at \in {"sent", "replied"} =>
         /\ c.req \in IF c.op = "election" THEN VoteRequests ELSE AppendRequests
         /\ c.req.src = i /\ c.req.dst # i
    /\ c.op # "election" /\ c.at = "sent" => <<c.req.term, i>> \in leaders
    /\ c.reply.ok => c.at = "replied"
    /\ c.op = "election" /\ c.reply.ok => <<c.req.term, c.req.dst, i>> \in grants
CallsOK == \A i \in Server, th \in Thread : GoodCall(i, call[i][th], granted, elected)

GoodRequest(r, leaders) ==
    /\ r \in Requests /\ r.src # r.dst
    /\ r.kind = "append" => <<r.term, r.src>> \in leaders
LateOK == \A r \in late : GoodRequest(r, elected)

\* The invariant: every variable has its type, the state file of a healthy node
\* is its memory, every granted vote binds its voter for the rest of the term
\* through crashes, failed saves and late requests, and every leader ever
\* elected has a quorum of such votes.
IInv == TypeOK /\ VotesOK /\ CallsOK /\ LateOK
=============================================================================
