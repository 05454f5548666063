----------------------------- MODULE BattleFlow -----------------------------
(***************************************************************************)
(* A battle from start to settlement across four processes: the gateway    *)
(* (Runtime and GatewayServiceBridge), the Room backend (the handlers of   *)
(* RoomBackend), the Battle backend and the Leaderboard backend.           *)
(*                                                                         *)
(* The gateway's Runtime is owned by one worker thread, which handles one  *)
(* client packet, closed session or completion at a time and blocks in     *)
(* every bridge call.  A bridge call sends its request at most twice: when *)
(* no reply comes the connection is closed and the request is sent again.  *)
(* A request without a reply may have been lost, or executed, or may still *)
(* be executed while the gateway goes on: it is in late until it arrives.  *)
(* Battle inputs are routed by other threads (battle_route_workers_) and   *)
(* their replies come back to the gateway's queue.                         *)
(*                                                                         *)
(* Left out: replies to clients and pushes; the local (bridge-less) mode;  *)
(* frames' contents, the rules that end a battle (ends is a choice at each *)
(* tick, forced at the frame limit) and plugin failures; restarts of the   *)
(* backends; the leaderboard's Raft mode (Raft.tla).                       *)
(***************************************************************************)
EXTENDS RoomBackend

CONSTANTS
    Worker,        \* the threads that route battle inputs
    NoRoom,        \* "in no room"
    MaxChurn,      \* bound: departures, hand-overs, expiries and queries
    MaxFrames,     \* battle_max_frames_ of the Room backend
    MaxInstances,  \* max_instances of the Battle backend's InstanceRuntime
    MaxBattles,    \* bound: battles the clients start
    MaxPending,    \* bound: completions of inputs in the gateway's queue
    MaxLost        \* bound: attempts without a reply and calls given up

ASSUME FlowAssumption ==
    /\ MaxChurn \in Nat /\ MaxInstances \in Nat \ {0}
    /\ MaxFrames \in Nat \ {0} /\ MaxBattles \in Nat /\ MaxPending \in Nat /\ MaxLost \in Nat

(* A late start request can start a battle nobody asked for any more. *)
Battle == 1..(MaxBattles + MaxLost)
Key    == Battle \X User    \* idempotency keys, battle_id:user_id

VARIABLES
    room,             \* the Room backend
    live,             \* the Battle backend: its instances, their players and frame
    board,            \* the Leaderboard backend: keys seen, times each was applied
    ended,            \* history: the battles whose instance was released, their players
    session_room,     \* lookup_: the room of each user's session
    room_to_battle,   \* room_to_battle_id_ and battles_by_room_id_
    completed,        \* completed_bridge_battle_ids_
    settled,          \* leaderboard_settlement_keys_
    call,             \* the bridge call the gateway worker waits for
    work,             \* the input each route worker waits for
    completions,      \* completions of inputs in the gateway's queue
    late,             \* requests without a reply that can still be executed
    lost,             \* number of losses so far
    churned           \* number of steps that MaxChurn bounds

backends == <<room, live, board, ended>>
gateway  == <<session_room, room_to_battle, completed, settled, call>>
inputs   == <<work, completions>>
network  == <<late, lost, churned>>
vars     == <<backends, gateway, inputs, network>>

Idle   == [at |-> "idle"]
NoTask == [at |-> "idle"]

-----------------------------------------------------------------------------
(* The Battle and Leaderboard handlers, and what a request does to the     *)
(* backends: o.ok is FALSE for an error reply; o.ends says whether the     *)
(* reply carries a battle_finished push, with the scores of o.scores.      *)

Backends == [room |-> room, live |-> live, board |-> board, ended |-> ended]

Reply(ok) == [ok |-> ok, ends |-> FALSE, battle |-> NoBattle, players |-> {}, scores |-> {}]

ByRoom(reply) ==
    [reply |-> [Reply(reply.ok) EXCEPT !.battle = reply.battle],
     be    |-> [Backends EXCEPT !.room = reply.svc]]

Released(b) ==
    [Backends EXCEPT !.live = [x \in DOMAIN @ \ {b} |-> @[x]],
                     !.ended = [x \in DOMAIN @ \cup {b} |->
                                   IF x = b THEN live[b].players ELSE @[x]]]

(* The InstanceRuntime takes no further instance. *)
Full == Cardinality(DOMAIN live) >= MaxInstances

(* Refused for an id that has an instance (battle_already_exists) and when *)
(* the runtime is full (battle_capacity_reached).                          *)
BattleCreate(q) ==
    IF q.battle \in DOMAIN live \/ Full
    THEN [reply |-> Reply(FALSE), be |-> Backends]
    ELSE [reply |-> [Reply(TRUE) EXCEPT !.battle = q.battle],
          be    |-> [Backends EXCEPT !.live =
                        [x \in DOMAIN @ \cup {q.battle} |->
                            IF x = q.battle THEN [players |-> q.players, frame |-> 0]
                            ELSE @[x]]]]

(* A tick of instance b; ends is the game's decision. *)
Ticked(b, ends) ==
    IF ends \/ live[b].frame + 1 >= MaxFrames
    THEN Released(b)
    ELSE [Backends EXCEPT !.live[b].frame = @ + 1]

BattleInput(q, ends) ==
    IF q.battle \in DOMAIN live /\ q.user \in live[q.battle].players
    THEN LET be == Ticked(q.battle, ends)
             fin == q.battle \notin DOMAIN be.live
         IN  [reply |-> [Reply(TRUE) EXCEPT
                            !.ends = fin,
                            !.scores = IF fin THEN live[q.battle].players ELSE {}],
              be |-> be]
    ELSE [reply |-> Reply(FALSE), be |-> Backends]

(* A query ticks the instance when its last tick is 50 ms ago (due).  When *)
(* that tick ends the battle the settlement is taken and archived, and the *)
(* reply says nothing of it.                                               *)
BattleState(q, due, ends) ==
    [reply |-> Reply(q.battle \in DOMAIN live),
     be    |-> IF q.battle \in DOMAIN live /\ due THEN Ticked(q.battle, ends) ELSE Backends]

(* Finishing a battle that has no instance succeeds, without scores. *)
BattleFinish(q) ==
    IF q.battle \in DOMAIN live
    THEN [reply |-> [Reply(TRUE) EXCEPT !.ends = TRUE, !.scores = live[q.battle].players],
          be    |-> Released(q.battle)]
    ELSE [reply |-> [Reply(TRUE) EXCEPT !.ends = TRUE], be |-> Backends]

(* Mutant: the idempotency key is not looked up. *)
LeaderboardSubmitAgain(q) ==
    LET k == <<q.battle, q.user>> IN
    [reply |-> Reply(TRUE),
     be    |-> [Backends EXCEPT !.board.keys = @ \cup {k}, !.board.applied[k] = @ + 1]]

(* A key seen before is answered with success and not applied again. *)
LeaderboardSubmit(q) ==
    LET k == <<q.battle, q.user>> IN
    [reply |-> Reply(TRUE),
     be    |-> IF k \in board.keys THEN Backends
               ELSE [Backends EXCEPT !.board.keys = @ \cup {k}, !.board.applied[k] = @ + 1]]

Outcome(q, due, ends) ==
    CASE q.op = "room_create"          -> ByRoom(RoomCreate(room, q.user, q.room, 0))
      [] q.op = "room_join"            -> ByRoom(RoomJoin(room, q.user, q.room))
      [] q.op = "room_ready"           -> ByRoom(RoomReady(room, q.user, q.room, q.ready))
      [] q.op = "room_leave"           -> ByRoom(RoomLeave(room, q.user, q.room))
      [] q.op = "room_kick"            -> ByRoom(RoomKick(room, q.user, q.room, q.target))
      [] q.op = "room_transfer_owner"  ->
            ByRoom(RoomTransferOwner(room, q.user, q.room, q.target))
      [] q.op = "room_start_battle"    ->
            LET o == ByRoom(RoomStartBattle(room, q.user, q.room))
            IN  IF o.reply.ok
                THEN [o EXCEPT !.reply.players = Members(room.rooms[q.room])]
                ELSE o
      [] q.op = "room_battle_finished" -> ByRoom(RoomBattleFinished(room, q.room, q.battle))
      [] q.op = "battle_create"        -> BattleCreate(q)
      [] q.op = "battle_input"         -> BattleInput(q, ends)
      [] q.op = "battle_state"         -> BattleState(q, due, ends)
      [] q.op = "battle_finish"        -> BattleFinish(q)
      [] q.op = "leaderboard_submit"   -> LeaderboardSubmit(q)

Become(be) ==
    /\ room' = be.room /\ live' = be.live /\ board' = be.board /\ ended' = be.ended

-----------------------------------------------------------------------------
(* The gateway worker between two bridge calls.  Ask starts the call for   *)
(* request q; at says what to do with the result.                          *)

Ask(at, q) == [at |-> at, q |-> q, try |-> 1, room |-> NoRoom, battle |-> NoBattle,
               scores |-> {}]

(* Mutant: the loop over the scores stops after the first. *)
SubmitFromFirst(r, b, scores, keys) ==
    LET todo == {u \in scores : <<b, u>> \notin keys} IN
    \/ /\ todo = {}
       /\ settled' = keys
       /\ call' = [Ask("free", [op |-> "room_battle_finished", room |-> r, battle |-> b])
                      EXCEPT !.room = r, !.battle = b]
    \/ \E u \in todo :
          /\ settled' = keys \cup {<<b, u>>}
          /\ call' = [Ask("submit", [op |-> "leaderboard_submit", user |-> u, battle |-> b])
                         EXCEPT !.room = r, !.battle = b]

(* submit_battle_settlement_to_leaderboard from the scores still to do,    *)
(* where keys are the keys held, and then the release of the room.         *)
SubmitFrom(r, b, scores, keys) ==
    LET todo == {u \in scores : <<b, u>> \notin keys} IN
    \/ /\ todo = {}
       /\ settled' = keys
       /\ call' = [Ask("free", [op |-> "room_battle_finished", room |-> r, battle |-> b])
                      EXCEPT !.room = r, !.battle = b]
    \/ \E u \in todo :
          /\ settled' = keys \cup {<<b, u>>}
          /\ call' = [Ask("submit", [op |-> "leaderboard_submit", user |-> u, battle |-> b])
                         EXCEPT !.room = r, !.battle = b, !.scores = todo \ {u}]

(* process_bridge_battle_finished_push, up to its first bridge call. *)
FinishedPush(r, b, scores) ==
    IF b \in completed
    THEN call' = Idle /\ UNCHANGED <<completed, settled>>
    ELSE completed' = completed \cup {b} /\ SubmitFrom(r, b, scores, settled)

Done == call' = Idle /\ UNCHANGED <<session_room, room_to_battle, completed, settled>>

AfterEnter(o) ==
    /\ call.at = "enter"
    /\ session_room' = IF o.ok THEN [session_room EXCEPT ![call.q.user] = call.q.room]
                       ELSE session_room
    /\ call' = Idle
    /\ UNCHANGED <<room_to_battle, completed, settled>>

AfterLeave(o) ==
    /\ call.at = "leave"
    /\ session_room' = IF o.ok THEN [session_room EXCEPT ![call.q.user] = NoRoom]
                       ELSE session_room
    /\ call' = Idle
    /\ UNCHANGED <<room_to_battle, completed, settled>>

(* A closed session is forgotten whatever the Room backend answered. *)
AfterClose(o) ==
    /\ call.at = "close"
    /\ session_room' = [session_room EXCEPT ![call.q.user] = NoRoom]
    /\ call' = Idle
    /\ UNCHANGED <<room_to_battle, completed, settled>>

AfterStart(o) ==
    /\ call.at = "start"
    /\ call' = IF o.ok
               THEN [Ask("create", [op |-> "battle_create", battle |-> o.battle,
                                    players |-> o.players]) EXCEPT !.room = call.q.room]
               ELSE Idle
    /\ UNCHANGED <<session_room, room_to_battle, completed, settled>>

(* Mutant: the battle is recorded before its creation is confirmed. *)
AfterCreateUnconfirmed(o) ==
    /\ call.at = "create"
    /\ room_to_battle' = [x \in DOMAIN room_to_battle \cup {call.room} |->
                             IF x = call.room THEN call.q.battle ELSE room_to_battle[x]]
    /\ call' = Idle
    /\ UNCHANGED <<session_room, completed, settled>>

(* Mutant: the battle is recorded only for a room that had one before. *)
AfterCreateReplaces(o) ==
    /\ call.at = "create"
    /\ room_to_battle' = [x \in DOMAIN room_to_battle |->
                             IF o.ok /\ x = call.room THEN o.battle ELSE room_to_battle[x]]
    /\ call' = Idle
    /\ UNCHANGED <<session_room, completed, settled>>

(* A battle that could not be created is reported; the room is not told. *)
AfterCreate(o) ==
    /\ call.at = "create"
    /\ room_to_battle' = IF o.ok
                         THEN [x \in DOMAIN room_to_battle \cup {call.room} |->
                                 IF x = call.room THEN o.battle ELSE room_to_battle[x]]
                         ELSE room_to_battle
    /\ call' = Idle
    /\ UNCHANGED <<session_room, completed, settled>>

AfterFinish(o) ==
    /\ call.at = "finish"
    /\ IF o.ok THEN FinishedPush(call.room, call.q.battle, o.scores)
       ELSE call' = Idle /\ UNCHANGED <<completed, settled>>
    /\ UNCHANGED <<session_room, room_to_battle>>

(* The key of a submission that failed is given back. *)
AfterSubmit(o) ==
    /\ call.at = "submit"
    /\ SubmitFrom(call.room, call.battle, call.scores,
                  IF o.ok THEN settled ELSE settled \ {<<call.battle, call.q.user>>})
    /\ UNCHANGED <<session_room, room_to_battle, completed>>

(* The gateway's own record is dropped whatever the Room backend answered. *)
AfterFree(o) ==
    /\ call.at = "free"
    /\ room_to_battle' =
          [x \in {y \in DOMAIN room_to_battle :
                     ~(y = call.room /\ room_to_battle[y] = call.battle)} |-> room_to_battle[x]]
    /\ call' = Idle
    /\ UNCHANGED <<session_room, completed, settled>>

After(o) ==
    \/ call.at = "plain" /\ Done
    \/ AfterEnter(o) \/ AfterLeave(o) \/ AfterClose(o) \/ AfterStart(o) \/ AfterCreate(o)
    \/ AfterFinish(o) \/ AfterSubmit(o) \/ AfterFree(o)

-----------------------------------------------------------------------------
(* GatewayServiceBridge::route, for the worker's call. *)

Answered ==
    /\ call # Idle
    /\ \E due, ends \in BOOLEAN :
          LET o == Outcome(call.q, due, ends) IN Become(o.be) /\ After(o.reply)
    /\ UNCHANGED <<inputs, network>>

(* No reply comes to the first attempt and the request is sent again.      *)
Unanswered ==
    /\ call # Idle /\ call.try = 1 /\ lost < MaxLost
    /\ lost' = lost + 1
    /\ late' = late \cup {[q |-> call.q, id |-> lost]}
    /\ call' = [call EXCEPT !.try = 2]
    /\ UNCHANGED <<session_room, room_to_battle, completed, settled>>
    /\ UNCHANGED <<backends, inputs, churned>>

(* The call fails for good: no attempt is answered, or the breaker is open *)
(* or there is no connection and nothing is sent.                          *)
GivenUp ==
    /\ call # Idle /\ lost < MaxLost
    /\ lost' = lost + 1
    /\ late' \in {late, late \cup {[q |-> call.q, id |-> lost]}}
    /\ After(Reply(FALSE))
    /\ UNCHANGED <<backends, inputs, churned>>

(* A request nobody waits for any more reaches its backend. *)
Arrive ==
    /\ \E l \in late, due, ends \in BOOLEAN :
          Become(Outcome(l.q, due, ends).be) /\ late' = late \ {l}
    /\ UNCHANGED <<gateway, inputs, lost, churned>>

-----------------------------------------------------------------------------
(* The client commands, each handled when the gateway worker is free. *)

Issue(c) ==
    /\ call = Idle
    /\ call' = c
    /\ UNCHANGED <<session_room, room_to_battle, completed, settled, backends, inputs>>

Command(c) == Issue(c) /\ UNCHANGED network

Churn ==
    /\ churned < MaxChurn
    /\ churned' = churned + 1
    /\ UNCHANGED <<late, lost>>

CreateRoom(u, r) == Command(Ask("enter", [op |-> "room_create", user |-> u, room |-> r]))

JoinRoom(u, r) == Command(Ask("enter", [op |-> "room_join", user |-> u, room |-> r]))

Ready(u, ready) ==
    /\ session_room[u] # NoRoom
    /\ Command(Ask("plain", [op |-> "room_ready", user |-> u, room |-> session_room[u],
                             ready |-> ready]))

LeaveRoom(u) ==
    /\ Churn
    /\ session_room[u] # NoRoom
    /\ Issue(Ask("leave", [op |-> "room_leave", user |-> u, room |-> session_room[u]]))

Kick(u, target) ==
    /\ Churn
    /\ session_room[u] # NoRoom
    /\ Issue(Ask("plain", [op |-> "room_kick", user |-> u, room |-> session_room[u],
                             target |-> target]))

TransferOwner(u, target) ==
    /\ Churn
    /\ session_room[u] # NoRoom
    /\ Issue(Ask("plain", [op |-> "room_transfer_owner", user |-> u,
                             room |-> session_room[u], target |-> target]))

(* on_session_closed; the user may log in again, in no room. *)
SessionClosed(u) ==
    /\ Churn
    /\ session_room[u] # NoRoom
    /\ Issue(Ask("close", [op |-> "room_leave", user |-> u, room |-> session_room[u]]))

StartBattle(u) ==
    /\ session_room[u] # NoRoom
    /\ room.next_battle_id <= MaxBattles
    /\ Command(Ask("start", [op |-> "room_start_battle", user |-> u,
                             room |-> session_room[u]]))

FinishBattle(u) ==
    /\ session_room[u] \in DOMAIN room_to_battle
    /\ Command([Ask("finish", [op |-> "battle_finish",
                               battle |-> room_to_battle[session_room[u]]])
                   EXCEPT !.room = session_room[u]])

(* The client may name the battle it asks about. *)
QueryBattle(b) ==
    /\ Churn
    /\ Issue(Ask("plain", [op |-> "battle_state", battle |-> b]))

(* An input is queued for the route workers and the gateway goes on. *)
SubmitInput(u, w) ==
    /\ call = Idle
    /\ work[w] = NoTask
    /\ Len(completions) < MaxPending
    /\ session_room[u] \in DOMAIN room_to_battle
    /\ work' = [work EXCEPT ![w] =
          [at |-> "route", try |-> 1, room |-> session_room[u],
           q |-> [op |-> "battle_input", user |-> u,
                  battle |-> room_to_battle[session_room[u]]]]]
    /\ UNCHANGED <<backends, gateway, completions, network>>

(* The worker's task ends: its completion goes to the gateway's queue. *)
Complete(w, o) ==
    /\ work' = [work EXCEPT ![w] = NoTask]
    /\ completions' = Append(completions,
          [room |-> work[w].room, battle |-> work[w].q.battle,
           ends |-> o.ends, scores |-> o.scores])

InputAnswered(w) ==
    /\ work[w] # NoTask
    /\ \E ends \in BOOLEAN :
          LET o == Outcome(work[w].q, FALSE, ends) IN Become(o.be) /\ Complete(w, o.reply)
    /\ UNCHANGED <<gateway, network>>

InputUnanswered(w) ==
    /\ work[w] # NoTask /\ work[w].try = 1 /\ lost < MaxLost
    /\ lost' = lost + 1
    /\ late' = late \cup {[q |-> work[w].q, id |-> lost]}
    /\ work' = [work EXCEPT ![w].try = 2]
    /\ UNCHANGED <<backends, gateway, completions, churned>>

InputGivenUp(w) ==
    /\ work[w] # NoTask /\ lost < MaxLost
    /\ lost' = lost + 1
    /\ late' \in {late, late \cup {[q |-> work[w].q, id |-> lost]}}
    /\ Complete(w, Reply(FALSE))
    /\ UNCHANGED <<backends, gateway, churned>>

(* complete_bridge_battle_input, on the gateway worker. *)
CompleteInput ==
    /\ call = Idle
    /\ completions # <<>>
    /\ LET c == Head(completions) IN
       IF c.ends THEN FinishedPush(c.room, c.battle, c.scores)
       ELSE UNCHANGED <<call, completed, settled>>
    /\ completions' = Tail(completions)
    /\ UNCHANGED <<backends, session_room, room_to_battle, work, network>>

ExpireRooms ==
    /\ Churn
    /\ Expirable(room) # {}
    /\ \E expired \in SUBSET Expirable(room) \ {{}} : room' = CleanupExpired(room, expired)
    /\ UNCHANGED <<live, board, ended, gateway, inputs>>

Init ==
    /\ room = EmptyService /\ live = <<>> /\ ended = <<>>
    /\ board = [keys |-> {}, applied |-> [k \in Key |-> 0]]
    /\ session_room = [u \in User |-> NoRoom]
    /\ room_to_battle = <<>> /\ completed = {} /\ settled = {} /\ call = Idle
    /\ work = [w \in Worker |-> NoTask] /\ completions = <<>>
    /\ late = {} /\ lost = 0 /\ churned = 0

Next ==
    \/ \E u \in User, r \in Room : CreateRoom(u, r) \/ JoinRoom(u, r)
    \/ \E u \in User, ready \in BOOLEAN : Ready(u, ready)
    \/ \E u, target \in User : Kick(u, target) \/ TransferOwner(u, target)
    \/ \E u \in User : LeaveRoom(u) \/ SessionClosed(u) \/ StartBattle(u) \/ FinishBattle(u)
    \/ \E b \in Battle : QueryBattle(b)
    \/ Answered \/ Unanswered \/ GivenUp \/ Arrive
    \/ \E w \in Worker :
          \/ \E u \in User : SubmitInput(u, w)
          \/ InputAnswered(w) \/ InputUnanswered(w) \/ InputGivenUp(w)
    \/ CompleteInput \/ ExpireRooms

Spec == Init /\ [][Next]_vars

-----------------------------------------------------------------------------
(* A map: a function on a part of D with values in S. *)
IsMap(f, D, S) ==
    /\ f = [x \in DOMAIN f |-> f[x]]
    /\ DOMAIN f \subseteq D
    /\ \A x \in DOMAIN f : f[x] \in S

(* What a room, a service, a request, a call, an input and its completion are. *)
RoomRecord ==
    [owner : User, members : Seq(User), ready : SUBSET User, battle : Nat,
     status : {Waiting, InInstance}, capacity : Nat]

IsService(svc) ==
    /\ svc = [rooms |-> svc.rooms, next_battle_id |-> svc.next_battle_id]
    /\ IsMap(svc.rooms, Room, RoomRecord)
    /\ svc.next_battle_id \in Nat \ {0}

Request ==
    [op : {"room_create", "room_join", "room_leave", "room_start_battle"},
     user : User, room : Room]
    \cup [op : {"room_ready"}, user : User, room : Room, ready : BOOLEAN]
    \cup [op : {"room_kick", "room_transfer_owner"}, user : User, room : Room, target : User]
    \cup [op : {"room_battle_finished"}, room : Room, battle : Nat]
    \cup [op : {"battle_create"}, battle : Nat, players : SUBSET User]
    \cup [op : {"battle_input", "leaderboard_submit"}, user : User, battle : Nat]
    \cup [op : {"battle_state", "battle_finish"}, battle : Nat]

Call ==
    [at : {"plain", "enter", "leave", "close", "start", "create", "finish", "submit", "free"},
     q : Request, try : {1, 2}, room : Room \cup {NoRoom}, battle : Nat,
     scores : SUBSET User]

Task == [at : {"route"}, try : {1, 2}, room : Room, q : Request]

Completion == [room : Room, battle : Nat, ends : BOOLEAN, scores : SUBSET User]

(* Every variable keeps its type. *)
TypeOK ==
    /\ IsService(room)
    /\ IsMap(live, Nat, [players : SUBSET User, frame : Nat])
    /\ IsMap(ended, Nat, SUBSET User)
    /\ board \in [keys : SUBSET (Nat \X User), applied : [Key -> Nat]]
    /\ session_room \in [User -> Room \cup {NoRoom}]
    /\ IsMap(room_to_battle, Room, Nat)
    /\ completed \subseteq Nat /\ settled \subseteq Nat \X User
    /\ call \in {Idle} \cup Call
    /\ work \in [Worker -> {NoTask} \cup Task]
    /\ completions \in Seq(Completion)
    /\ late \subseteq [q : Request, id : Nat]
    /\ lost \in Nat /\ churned \in Nat

(* A player's result in a battle is applied to the leaderboard at most     *)
(* once, although a battle can end twice, its end can be reported twice    *)
(* and every submission can be sent twice (the three sets of keys).        *)
SettledOnce == \A k \in Key : board.applied[k] <= 1

(* The gateway declares a battle over, and pays it out, only when the      *)
(* Battle backend has ended it: the id it passes to battle_finish is one   *)
(* whose creation was confirmed.                                           *)
CompletedHasEnded ==
    completed \subseteq DOMAIN ended /\ \A k \in board.keys : k[1] \in DOMAIN ended

(* While every call is answered: whenever the gateway is between commands, *)
(* the battle a room is playing is the one the gateway routes that room's  *)
(* inputs to, whatever players leave, kick or let expire in between; the   *)
(* one exception is a battle that never got an instance, because the       *)
(* Battle backend was full: the room is not told and plays on unrouted.    *)
RoomBattleIsRouted ==
    call = Idle /\ lost = 0 =>
        \A r \in DOMAIN room.rooms : LET b == room.rooms[r].battle IN b # NoBattle =>
            \/ r \in DOMAIN room_to_battle /\ room_to_battle[r] = b
            \/ b \notin DOMAIN live \cup DOMAIN ended

(* While every call is answered: whenever the gateway is between commands, *)
(* a battle it has declared over is on the leaderboard for all of its      *)
(* players or for none of them.                                            *)
SettledWhole ==
    call = Idle /\ lost = 0 => \A b \in completed : \A u, v \in ended[b] :
        board.applied[<<b, u>>] > 0 => board.applied[<<b, v>>] > 0

(* Whatever the order of joins, leaves, kicks, hand-overs and late         *)
(* requests, a room is owned by one of its members, no one is in it twice, *)
(* and nobody who left still counts as ready.                              *)
OwnedByAMember ==
    \A r \in DOMAIN room.rooms : LET rm == room.rooms[r] IN
        /\ rm.owner \in Members(rm)
        /\ \A i, j \in 1..Len(rm.members) : rm.members[i] = rm.members[j] => i = j
        /\ rm.ready \subseteq Members(rm)

(* The status the Room handlers test and the battle id agree: a room never *)
(* waits with a battle recorded, which would refuse every start, nor is it *)
(* in an instance with none, which no battle_finished would ever end.      *)
StatusTracksBattle ==
    \A r \in DOMAIN room.rooms :
        room.rooms[r].status = InInstance <=> room.rooms[r].battle # NoBattle

(* While a room plays a battle nobody enters it, only the end of that very *)
(* battle releases it, and it disappears only when its last member leaves: *)
(* neither the TTL cleanup nor a late or repeated room_battle_finished     *)
(* takes a room from a battle.                                             *)
BattleHoldsTheRoom ==
    [][\A r \in DOMAIN room.rooms : LET b == room.rooms[r].battle IN b # NoBattle =>
         IF r \in DOMAIN room'.rooms
         THEN /\ Members(room'.rooms[r]) \subseteq Members(room.rooms[r])
              /\ \/ room'.rooms[r].battle = b
                 \/ room'.rooms[r].battle = NoBattle /\ b \in DOMAIN ended
         ELSE Len(room.rooms[r].members) = 1]_vars

(* Whenever the gateway is between commands, every battle it has declared  *)
(* over is on the leaderboard, for every player of it: no client has to    *)
(* submit a result.                                                        *)
CompletedIsSettled ==
    call = Idle => \A b \in completed : \A u \in ended[b] : board.applied[<<b, u>>] > 0
=============================================================================
