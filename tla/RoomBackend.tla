---------------------------- MODULE RoomBackend ----------------------------
(***************************************************************************)
(* The Room backend: the rooms, their members and the battle each room is  *)
(* playing (src/v2/room/room_backend_service.cpp).  Every handler takes    *)
(* room_manager_.mutex_ for the whole of its work, so a handler is one     *)
(* step.  It is written as an operator from the service's state and the    *)
(* request to the reply and the new state, and BattleFlow has it answer    *)
(* the gateway's calls.                                                    *)
(*                                                                         *)
(* Left out: display names, visibility, metadata, and the version number,  *)
(* which only the replies show; malformed requests, which change nothing;  *)
(* kClosed, a status no handler ever assigns; list, detail and state_push, *)
(* which only read.  Time is the nondeterministic choice of when an idle   *)
(* room expires.                                                           *)
(***************************************************************************)
EXTENDS Integers, Sequences, FiniteSets

CONSTANTS
    Room,        \* room ids
    User,        \* user ids
    Capacity     \* the capacities a room can be created with; 0 is "no limit"

ASSUME RoomAssumption == Capacity \subseteq Nat

Waiting    == "waiting"
InInstance == "in_instance"
NoBattle   == 0

Members(room) == {room.members[i] : i \in 1..Len(room.members)}

(* remove_if and erase of a member u, who is in members only once.         *)
Without(members, u) ==
    LET at == CHOOSE i \in 1..Len(members) : members[i] = u
    IN  [i \in 1..(Len(members) - 1) |-> IF i < at THEN members[i] ELSE members[i + 1]]

all_members_ready(room) == Len(room.members) >= 2 /\ Members(room) \subseteq room.ready

EmptyService == [rooms |-> <<>>, next_battle_id |-> 1]

Put(svc, r, room) ==
    [svc EXCEPT !.rooms = [x \in DOMAIN @ \cup {r} |-> IF x = r THEN room ELSE @[x]]]

Erase(svc, r) ==
    [svc EXCEPT !.rooms = [x \in DOMAIN @ \ {r} |-> @[x]]]

(* A reply: whether it is an error, the state it leaves, and for           *)
(* room_start_battle the battle to create.                                 *)
Refuse(svc)    == [ok |-> FALSE, svc |-> svc, battle |-> NoBattle]
Accept(svc)    == [ok |-> TRUE,  svc |-> svc, battle |-> NoBattle]
AcceptIf(p, svc, changed) == IF p THEN Accept(changed) ELSE Refuse(svc)

----------------------------------------------------------------------------
(* The handlers. *)

RoomCreate(svc, u, r, c) ==
    AcceptIf(r \notin DOMAIN svc.rooms, svc,
             Put(svc, r, [owner |-> u, members |-> <<u>>, ready |-> {},
                          battle |-> NoBattle, status |-> Waiting, capacity |-> c]))

(* Joining a room one is a member of succeeds and changes nothing. *)
Joined(room, u) ==
    IF u \in Members(room) THEN room ELSE [room EXCEPT !.members = Append(@, u)]

HasPlace(room, u) ==
    \/ u \in Members(room)
    \/ room.capacity = 0
    \/ Len(room.members) < room.capacity

RoomJoin(svc, u, r) ==
    IF r \in DOMAIN svc.rooms
    THEN LET room == svc.rooms[r] IN
         AcceptIf(room.status # InInstance /\ HasPlace(room, u), svc,
                  Put(svc, r, Joined(room, u)))
    ELSE Refuse(svc)

(* The ready flag can be set whatever the status of the room. *)
RoomReady(svc, u, r, ready) ==
    IF r \in DOMAIN svc.rooms
    THEN LET room == svc.rooms[r] IN
         AcceptIf(u \in Members(room), svc,
                  Put(svc, r, [room EXCEPT !.ready = IF ready THEN @ \cup {u} ELSE @ \ {u}]))
    ELSE Refuse(svc)

CanStart(room, u) ==
    /\ u = room.owner
    /\ room.battle = NoBattle
    /\ all_members_ready(room)

RoomStartBattle(svc, u, r) ==
    IF r \in DOMAIN svc.rooms /\ CanStart(svc.rooms[r], u)
    THEN LET b == svc.next_battle_id
             started == [svc.rooms[r] EXCEPT !.battle = b, !.status = InInstance]
         IN  [Accept([Put(svc, r, started) EXCEPT !.next_battle_id = b + 1])
                 EXCEPT !.battle = b]
    ELSE Refuse(svc)

(* Mutant: an owner who leaves stays the owner. *)
LeftStillOwner(room, u) ==
    [room EXCEPT !.members = Without(@, u), !.ready = @ \ {u}]

Left(room, u) ==
    LET stay == Without(room.members, u)
    IN  [room EXCEPT !.members = stay, !.ready = @ \ {u},
                     !.owner = IF @ = u THEN Head(stay) ELSE @]

(* Leaving is possible during a battle too; the last one out erases the    *)
(* room, and with it the record of the battle it was playing.              *)
RoomLeave(svc, u, r) ==
    IF r \in DOMAIN svc.rooms /\ u \in Members(svc.rooms[r])
    THEN Accept(IF Len(svc.rooms[r].members) = 1 THEN Erase(svc, r)
                ELSE Put(svc, r, Left(svc.rooms[r], u)))
    ELSE Refuse(svc)

(* Mutant: the end of any battle releases the room. *)
RoomBattleFinishedAny(svc, r, b) ==
    IF r \in DOMAIN svc.rooms
    THEN Accept(Put(svc, r, [svc.rooms[r] EXCEPT !.battle = NoBattle, !.status = Waiting,
                                                 !.ready = {}]))
    ELSE Refuse(svc)

(* A room that plays no battle accepts the end of any battle. *)
RoomBattleFinished(svc, r, b) ==
    IF r \in DOMAIN svc.rooms
    THEN LET room == svc.rooms[r] IN
         AcceptIf(room.battle \in {NoBattle, b}, svc,
                  Put(svc, r, [room EXCEPT !.battle = NoBattle, !.status = Waiting,
                                           !.ready = {}]))
    ELSE Refuse(svc)

RoomKick(svc, u, r, target) ==
    IF r \in DOMAIN svc.rooms
    THEN LET room == svc.rooms[r] IN
         AcceptIf(u = room.owner /\ target # room.owner /\ target \in Members(room), svc,
                  Put(svc, r, [room EXCEPT !.members = Without(@, target),
                                           !.ready = @ \ {target}]))
    ELSE Refuse(svc)

RoomTransferOwner(svc, u, r, new) ==
    IF r \in DOMAIN svc.rooms
    THEN LET room == svc.rooms[r] IN
         AcceptIf(u = room.owner /\ new \in Members(room) /\ new # u, svc,
                  Put(svc, r, [room EXCEPT !.owner = new]))
    ELSE Refuse(svc)

(* cleanup_expired_rooms, for the set of waiting rooms idle for the TTL. *)
Expirable(svc) == {r \in DOMAIN svc.rooms : svc.rooms[r].status = Waiting}

CleanupExpired(svc, expired) ==
    [svc EXCEPT !.rooms = [x \in DOMAIN @ \ expired |-> @[x]]]
=============================================================================
