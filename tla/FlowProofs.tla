----------------------------- MODULE FlowProofs -----------------------------
(***************************************************************************)
(* The battle flow of BattleFlow for any number of users, rooms, battles,  *)
(* route workers and losses: what the backends and the gateway know of a   *)
(* battle fits together, and what follows for settlement and for rooms.    *)
(* The second half is about the flow while every call is answered: the     *)
(* gateway's routes follow the rooms, and a battle is settled for all of   *)
(* its players or for none.                                                *)
(***************************************************************************)
EXTENDS BattleFlow, TLAPS

\* Zenon is tried before the SMT solver, which is given more time than by default.
USE ZenonT(5), SMTT(30)

-----------------------------------------------------------------------------
(* The inductive invariant.                                                *)

\* A battle the Battle backend has had an instance of.
Created == DOMAIN live \cup DOMAIN ended

\* A request that says a battle is over is about one that is; a request to end one is
\* about one that was created.
Fits(q, created, over) ==
    /\ q.op \in {"leaderboard_submit", "room_battle_finished"} => q.battle \in over
    /\ q.op = "battle_finish" => q.battle \in created

RequestOK(q) == Fits(q, Created, DOMAIN ended)

\* The requests the gateway worker waits for at each place.
OpsOf(at) ==
    CASE at = "plain"  -> {"room_ready", "room_kick", "room_transfer_owner", "battle_state"}
      [] at = "enter"  -> {"room_create", "room_join"}
      [] at \in {"leave", "close"} -> {"room_leave"}
      [] at = "start"  -> {"room_start_battle"}
      [] at = "create" -> {"battle_create"}
      [] at = "finish" -> {"battle_finish"}
      [] at = "submit" -> {"leaderboard_submit"}
      [] at = "free"   -> {"room_battle_finished"}

CallFits(c, created, over) ==
    /\ Fits(c.q, created, over)
    /\ c.q.op \in OpsOf(c.at)
    /\ c.at \in {"create", "finish", "submit", "free"} => c.room \in Room
    /\ c.at \in {"submit", "free"} => c.battle \in over

\* The call the gateway worker is in, and the requests still under way.
CallsOK ==
    /\ call # Idle => CallFits(call, Created, DOMAIN ended)
    /\ \A l \in late : RequestOK(l.q)
    /\ \A w \in Worker : work[w] # NoTask => work[w].q.op = "battle_input"

\* What the gateway has on record: the battle of a room was created, and a completion that
\* carries a battle_finished push is about one that has ended.
GatewayOK ==
    /\ \A r \in DOMAIN room_to_battle : room_to_battle[r] \in Created
    /\ \A i \in 1..Len(completions) :
          completions[i].ends => completions[i].battle \in DOMAIN ended
    /\ completed \subseteq DOMAIN ended

\* A result is applied at most once and its key is kept; keys are of ended battles.
BoardOK ==
    /\ \A k \in Key : board.applied[k] <= 1 /\ (board.applied[k] > 0 => k \in board.keys)
    /\ \A k \in board.keys : k[1] \in DOMAIN ended

IInv == TypeOK /\ OwnedByAMember /\ StatusTracksBattle /\ CallsOK /\ GatewayOK /\ BoardOK

-----------------------------------------------------------------------------
(* The rooms.                                                              *)

\* A room that is well formed, and what a step may do to a room whose battle is on, where
\* over is the set of battles that have ended.
RoomOK(rm) ==
    /\ rm \in RoomRecord
    /\ rm.owner \in Members(rm)
    /\ \A i, j \in 1..Len(rm.members) : rm.members[i] = rm.members[j] => i = j
    /\ rm.ready \subseteq Members(rm)
    /\ rm.status = InInstance <=> rm.battle # NoBattle

ServiceOK(svc) == IsService(svc) /\ \A r \in DOMAIN svc.rooms : RoomOK(svc.rooms[r])

KeepsBattle(old, new, over) ==
    old.battle # NoBattle =>
        /\ Members(new) \subseteq Members(old)
        /\ new.battle = old.battle \/ (new.battle = NoBattle /\ old.battle \in over)

HoldsRooms(old, new, over) ==
    \A r \in DOMAIN old.rooms : old.rooms[r].battle # NoBattle =>
        IF r \in DOMAIN new.rooms THEN KeepsBattle(old.rooms[r], new.rooms[r], over)
        ELSE Len(old.rooms[r].members) = 1

\* A reply of the Room backend that leaves it well formed.
RoomReplyOK(svc, reply, over) ==
    /\ ServiceOK(reply.svc) /\ HoldsRooms(svc, reply.svc, over)
    /\ reply.ok \in BOOLEAN /\ reply.battle \in Nat

\* The fields of a room.
LEMMA RoomFields ==
    ASSUME NEW rm, RoomOK(rm)
    PROVE  /\ rm = [owner |-> rm.owner, members |-> rm.members, ready |-> rm.ready,
                    battle |-> rm.battle, status |-> rm.status, capacity |-> rm.capacity]
           /\ rm.owner \in User /\ rm.members \in Seq(User) /\ rm.ready \subseteq User
           /\ rm.battle \in Nat /\ rm.status \in {Waiting, InInstance} /\ rm.capacity \in Nat
           /\ Len(rm.members) \in Nat
           /\ \A i \in 1..Len(rm.members) : rm.members[i] \in User
           /\ rm.owner \in Members(rm) /\ rm.ready \subseteq Members(rm)
           /\ \A i, j \in 1..Len(rm.members) : rm.members[i] = rm.members[j] => i = j
           /\ rm.status = InInstance <=> rm.battle # NoBattle
  BY DEF RoomOK, RoomRecord

\* Assigning to the fields of a room.
LEMMA SetMembers ==
    ASSUME NEW rm \in RoomRecord, NEW members
    PROVE  [rm EXCEPT !.members = members] =
             [owner |-> rm.owner, members |-> members, ready |-> rm.ready,
              battle |-> rm.battle, status |-> rm.status, capacity |-> rm.capacity]
  BY DEF RoomRecord

(* room_ready changes the ready set and nothing else of the room. *)
LEMMA SetReady ==
    ASSUME NEW rm \in RoomRecord, NEW ready
    PROVE  [rm EXCEPT !.ready = ready] =
             [owner |-> rm.owner, members |-> rm.members, ready |-> ready,
              battle |-> rm.battle, status |-> rm.status, capacity |-> rm.capacity]
  BY DEF RoomRecord

(* A member who is kicked leaves the members and the ready set only. *)
LEMMA SetMembersReady ==
    ASSUME NEW rm \in RoomRecord, NEW members, NEW ready
    PROVE  [rm EXCEPT !.members = members, !.ready = ready] =
             [owner |-> rm.owner, members |-> members, ready |-> ready,
              battle |-> rm.battle, status |-> rm.status, capacity |-> rm.capacity]
<1>1. [rm EXCEPT !.members = members, !.ready = ready] = [[rm EXCEPT !.members = members] EXCEPT !.ready = ready]
  OBVIOUS
<1>2. [rm EXCEPT !.members = members]
      = [owner |-> rm.owner, members |-> members, ready |-> rm.ready,
         battle |-> rm.battle, status |-> rm.status, capacity |-> rm.capacity]
  BY DEF RoomRecord
<1>3. [[owner |-> rm.owner, members |-> members, ready |-> rm.ready,
        battle |-> rm.battle, status |-> rm.status, capacity |-> rm.capacity]
         EXCEPT !.ready = ready]
      = [owner |-> rm.owner, members |-> members, ready |-> ready,
         battle |-> rm.battle, status |-> rm.status, capacity |-> rm.capacity]
  OBVIOUS
<1> QED
  BY <1>1, <1>2, <1>3, ZenonT(30)

(* A member who leaves may also hand the room over. *)
LEMMA SetMembersReadyOwner ==
    ASSUME NEW rm \in RoomRecord, NEW members, NEW ready, NEW owner
    PROVE  [rm EXCEPT !.members = members, !.ready = ready, !.owner = owner] =
             [owner |-> owner, members |-> members, ready |-> ready,
              battle |-> rm.battle, status |-> rm.status, capacity |-> rm.capacity]
<1>1. [rm EXCEPT !.members = members, !.ready = ready, !.owner = owner] = [[[rm EXCEPT !.members = members] EXCEPT !.ready = ready] EXCEPT !.owner = owner]
  OBVIOUS
<1>2. [rm EXCEPT !.members = members]
      = [owner |-> rm.owner, members |-> members, ready |-> rm.ready,
         battle |-> rm.battle, status |-> rm.status, capacity |-> rm.capacity]
  BY DEF RoomRecord
<1>3. [[owner |-> rm.owner, members |-> members, ready |-> rm.ready,
        battle |-> rm.battle, status |-> rm.status, capacity |-> rm.capacity]
         EXCEPT !.ready = ready]
      = [owner |-> rm.owner, members |-> members, ready |-> ready,
         battle |-> rm.battle, status |-> rm.status, capacity |-> rm.capacity]
  OBVIOUS
<1>4. [[owner |-> rm.owner, members |-> members, ready |-> ready,
        battle |-> rm.battle, status |-> rm.status, capacity |-> rm.capacity]
         EXCEPT !.owner = owner]
      = [owner |-> owner, members |-> members, ready |-> ready,
         battle |-> rm.battle, status |-> rm.status, capacity |-> rm.capacity]
  OBVIOUS
<1> QED
  BY <1>1, <1>2, <1>3, <1>4, ZenonT(30)

(* room_start_battle sets the battle and the status. *)
LEMMA StartedRoom ==
    ASSUME NEW rm \in RoomRecord, NEW battle
    PROVE  [rm EXCEPT !.battle = battle, !.status = InInstance] =
             [owner |-> rm.owner, members |-> rm.members, ready |-> rm.ready,
              battle |-> battle, status |-> InInstance, capacity |-> rm.capacity]
<1>1. [rm EXCEPT !.battle = battle, !.status = InInstance] = [[rm EXCEPT !.battle = battle] EXCEPT !.status = InInstance]
  OBVIOUS
<1>2. [rm EXCEPT !.battle = battle]
      = [owner |-> rm.owner, members |-> rm.members, ready |-> rm.ready,
         battle |-> battle, status |-> rm.status, capacity |-> rm.capacity]
  BY DEF RoomRecord
<1>3. [[owner |-> rm.owner, members |-> rm.members, ready |-> rm.ready,
        battle |-> battle, status |-> rm.status, capacity |-> rm.capacity]
         EXCEPT !.status = InInstance]
      = [owner |-> rm.owner, members |-> rm.members, ready |-> rm.ready,
         battle |-> battle, status |-> InInstance, capacity |-> rm.capacity]
  OBVIOUS
<1> QED
  BY <1>1, <1>2, <1>3, ZenonT(30)

(* room_battle_finished clears the battle, the status and the ready set. *)
LEMMA FreedRoom ==
    ASSUME NEW rm \in RoomRecord
    PROVE  [rm EXCEPT !.battle = NoBattle, !.status = Waiting, !.ready = {}] =
             [owner |-> rm.owner, members |-> rm.members, ready |-> {},
              battle |-> NoBattle, status |-> Waiting, capacity |-> rm.capacity]
<1>1. [rm EXCEPT !.battle = NoBattle, !.status = Waiting, !.ready = {}] = [[[rm EXCEPT !.battle = NoBattle] EXCEPT !.status = Waiting] EXCEPT !.ready = {}]
  OBVIOUS
<1>2. [rm EXCEPT !.battle = NoBattle]
      = [owner |-> rm.owner, members |-> rm.members, ready |-> rm.ready,
         battle |-> NoBattle, status |-> rm.status, capacity |-> rm.capacity]
  BY DEF RoomRecord
<1>3. [[owner |-> rm.owner, members |-> rm.members, ready |-> rm.ready,
        battle |-> NoBattle, status |-> rm.status, capacity |-> rm.capacity]
         EXCEPT !.status = Waiting]
      = [owner |-> rm.owner, members |-> rm.members, ready |-> rm.ready,
         battle |-> NoBattle, status |-> Waiting, capacity |-> rm.capacity]
  OBVIOUS
<1>4. [[owner |-> rm.owner, members |-> rm.members, ready |-> rm.ready,
        battle |-> NoBattle, status |-> Waiting, capacity |-> rm.capacity]
         EXCEPT !.ready = {}]
      = [owner |-> rm.owner, members |-> rm.members, ready |-> {},
         battle |-> NoBattle, status |-> Waiting, capacity |-> rm.capacity]
  OBVIOUS
<1> QED
  BY <1>1, <1>2, <1>3, <1>4, ZenonT(30)

\* Every element of members is a member.
LEMMA MembersAre ==
    \A rm, u : u \in Members(rm) <=> \E i \in 1..Len(rm.members) : rm.members[i] = u
  BY DEF Members

\* Writing one room back.
LEMMA PutRoom ==
    ASSUME NEW svc, ServiceOK(svc), NEW r \in Room, NEW rm, RoomOK(rm), NEW over,
           r \in DOMAIN svc.rooms => KeepsBattle(svc.rooms[r], rm, over)
    PROVE  /\ ServiceOK(Put(svc, r, rm)) /\ HoldsRooms(svc, Put(svc, r, rm), over)
           /\ Put(svc, r, rm).next_battle_id = svc.next_battle_id
           /\ DOMAIN Put(svc, r, rm).rooms = DOMAIN svc.rooms \cup {r}
           /\ \A x \in DOMAIN svc.rooms \cup {r} :
                 Put(svc, r, rm).rooms[x] = IF x = r THEN rm ELSE svc.rooms[x]
<1> DEFINE new == [x \in DOMAIN svc.rooms \cup {r} |-> IF x = r THEN rm ELSE svc.rooms[x]]
<1>1. Put(svc, r, rm) = [rooms |-> new, next_battle_id |-> svc.next_battle_id]
  BY DEF Put, ServiceOK, IsService
<1>2. DOMAIN new = DOMAIN svc.rooms \cup {r} /\ new = [x \in DOMAIN new |-> new[x]]
  OBVIOUS
<1>3. \A x \in DOMAIN svc.rooms \cup {r} : new[x] = IF x = r THEN rm ELSE svc.rooms[x]
  OBVIOUS
<1> HIDE DEF new
<1>4. DOMAIN svc.rooms \subseteq Room /\ svc.next_battle_id \in Nat \ {0}
  BY DEF ServiceOK, IsService, IsMap
<1>5. \A x \in DOMAIN new : RoomOK(new[x])
  BY <1>2, <1>3 DEF ServiceOK
<1>6. IsMap(new, Room, RoomRecord)
  BY <1>2, <1>4, <1>5 DEF IsMap, RoomOK
<1>7. ServiceOK(Put(svc, r, rm))
  BY <1>1, <1>4, <1>5, <1>6 DEF ServiceOK, IsService
<1>9. Put(svc, r, rm).rooms = new
  BY <1>1
<1>8. HoldsRooms(svc, Put(svc, r, rm), over)
  <2> SUFFICES ASSUME NEW x \in DOMAIN svc.rooms, svc.rooms[x].battle # NoBattle
               PROVE  x \in DOMAIN new /\ KeepsBattle(svc.rooms[x], new[x], over)
    BY <1>9, ZenonT(30) DEF HoldsRooms
  <2>1. x \in DOMAIN new
    BY <1>2
  <2>2. CASE x = r
    BY <1>3, <2>1, <2>2
  <2>3. CASE x # r
    BY <1>3, <2>1, <2>3 DEF KeepsBattle
  <2> QED
    BY <2>1, <2>2, <2>3
<1> QED
  BY <1>1, <1>2, <1>3, <1>7, <1>8

\* Nothing changes.
LEMMA SameRooms ==
    ASSUME NEW svc, ServiceOK(svc), NEW over
    PROVE  HoldsRooms(svc, svc, over) /\ RoomReplyOK(svc, Refuse(svc), over)
<1>1. HoldsRooms(svc, svc, over)
  BY DEF HoldsRooms, KeepsBattle
<1> QED
  BY <1>1 DEF RoomReplyOK, Refuse, NoBattle

\* A handler that refuses, or writes one room back.
LEMMA AcceptOrRefuse ==
    ASSUME NEW svc, ServiceOK(svc), NEW r \in Room, NEW rm, NEW over, NEW p \in BOOLEAN,
           p => RoomOK(rm) /\ (r \in DOMAIN svc.rooms => KeepsBattle(svc.rooms[r], rm, over))
    PROVE  RoomReplyOK(svc, AcceptIf(p, svc, Put(svc, r, rm)), over)
<1>1. CASE p
  <2>1. ServiceOK(Put(svc, r, rm)) /\ HoldsRooms(svc, Put(svc, r, rm), over)
    BY <1>1, PutRoom
  <2>2. AcceptIf(p, svc, Put(svc, r, rm)) =
          [ok |-> TRUE, svc |-> Put(svc, r, rm), battle |-> NoBattle]
    BY <1>1 DEF AcceptIf, Accept
  <2> QED
    BY <2>1, <2>2 DEF RoomReplyOK, NoBattle
<1>2. CASE ~p
  BY <1>2, SameRooms DEF AcceptIf
<1> QED
  BY <1>1, <1>2

\* What leaving makes of the members: u is gone, the others stay, in order.
LEMMA WithoutOne ==
    ASSUME NEW rm, RoomOK(rm), NEW u \in Members(rm)
    PROVE  LET stay == Without(rm.members, u)
           IN  /\ stay \in Seq(User) /\ Len(stay) = Len(rm.members) - 1
               /\ \A i, j \in 1..Len(stay) : stay[i] = stay[j] => i = j
               /\ \A m : (\E i \in 1..Len(stay) : stay[i] = m) <=> m \in Members(rm) \ {u}
<1> DEFINE n == Len(rm.members)
           at == CHOOSE i \in 1..n : rm.members[i] = u
           stay == Without(rm.members, u)
<1>0. /\ rm.members \in Seq(User) /\ n \in Nat /\ \A i \in 1..n : rm.members[i] \in User
      /\ \A i, j \in 1..n : rm.members[i] = rm.members[j] => i = j
  BY RoomFields
<1>1. at \in 1..n /\ rm.members[at] = u
  BY MembersAre
<1>2. stay = [i \in 1..(n - 1) |-> IF i < at THEN rm.members[i] ELSE rm.members[i + 1]]
  BY DEF Without
<1>7. \A m : m \in Members(rm) <=> \E i \in 1..n : rm.members[i] = m
  BY MembersAre
<1> HIDE DEF n, at, stay
<1>3. n - 1 \in Nat /\ \A i \in 1..(n - 1) : i \in 1..n /\ i + 1 \in 1..n
  BY <1>0, <1>1
<1>4. stay \in Seq(User) /\ Len(stay) = n - 1
  <2>1. stay \in [1..(n - 1) -> User]
    BY <1>0, <1>2, <1>3
  <2> QED
    BY <1>3, <2>1
<1>5. \A i, j \in 1..Len(stay) : stay[i] = stay[j] => i = j
  <2> SUFFICES ASSUME NEW i \in 1..(n - 1), NEW j \in 1..(n - 1), stay[i] = stay[j]
               PROVE  i = j
    BY <1>4
  <2> DEFINE Place(k) == IF k < at THEN k ELSE k + 1
  <2>1. stay[i] = rm.members[Place(i)] /\ stay[j] = rm.members[Place(j)]
    BY <1>2
  <2>2. Place(i) \in 1..n /\ Place(j) \in 1..n
    BY <1>3
  <2>3. Place(i) = Place(j)
    BY <1>0, <2>1, <2>2, ZenonT(30)
  <2> QED
    BY <1>1, <2>3
<1>6. ASSUME NEW m PROVE (\E i \in 1..Len(stay) : stay[i] = m) <=> m \in Members(rm) \ {u}
  <2>1. ASSUME NEW i \in 1..(n - 1), stay[i] = m PROVE m \in Members(rm) \ {u}
    <3>1. CASE i < at
      BY <1>0, <1>1, <1>2, <1>3, <1>7, <2>1, <3>1
    <3>2. CASE ~(i < at)
      <4>1. stay[i] = rm.members[i + 1] /\ i + 1 \in 1..n /\ i + 1 # at
        BY <1>1, <1>2, <1>3, <3>2
      <4> QED
        BY <1>0, <1>1, <1>7, <2>1, <4>1
    <3> QED
      BY <3>1, <3>2
  <2>2. ASSUME m \in Members(rm) \ {u} PROVE \E i \in 1..(n - 1) : stay[i] = m
    <3>1. PICK k \in 1..n : rm.members[k] = m
      BY <1>7, <2>2
    <3>2. k # at
      BY <1>1, <2>2, <3>1
    <3>3. CASE k < at
      <4>1. k \in 1..(n - 1) /\ stay[k] = m
        BY <1>0, <1>1, <1>2, <3>1, <3>3
      <4> QED
        BY <4>1
    <3>4. CASE k > at
      <4>1. k - 1 \in 1..(n - 1) /\ ~(k - 1 < at) /\ (k - 1) + 1 = k
        BY <1>0, <1>1, <3>1, <3>4
      <4>2. stay[k - 1] = m
        BY <1>2, <3>1, <4>1
      <4> QED
        BY <4>1, <4>2
    <3> QED
      BY <1>0, <1>1, <3>1, <3>2, <3>3, <3>4
  <2> QED
    BY <1>4, <2>1, <2>2
<1> QED
  BY <1>4, <1>5, <1>6 DEF n, stay

\* The handlers leave the rooms well formed and hold a room that plays a battle.
LEMMA RoomHandlers ==
    ASSUME NEW svc, ServiceOK(svc), NEW over, NEW u \in User, NEW v \in User, NEW r \in Room
    PROVE  /\ RoomReplyOK(svc, RoomCreate(svc, u, r, 0), over)
           /\ RoomReplyOK(svc, RoomJoin(svc, u, r), over)
           /\ \A ready \in BOOLEAN : RoomReplyOK(svc, RoomReady(svc, u, r, ready), over)
           /\ RoomReplyOK(svc, RoomKick(svc, u, r, v), over)
           /\ RoomReplyOK(svc, RoomTransferOwner(svc, u, r, v), over)
<1>0. ServiceOK(svc) /\ (r \in DOMAIN svc.rooms => RoomOK(svc.rooms[r]))
  BY DEF ServiceOK
<1>1. RoomReplyOK(svc, RoomCreate(svc, u, r, 0), over)
  <2> DEFINE rm == [owner |-> u, members |-> <<u>>, ready |-> {}, battle |-> NoBattle,
                    status |-> Waiting, capacity |-> 0]
  <2>1. rm \in RoomRecord
    BY DEF RoomRecord, NoBattle
  <2>2. Len(rm.members) = 1 /\ rm.members[1] = u
    OBVIOUS
  <2>3. Members(rm) = {u}
    BY <2>2 DEF Members
  <2>4. RoomOK(rm)
    BY <2>1, <2>2, <2>3 DEF RoomOK, Waiting, InInstance
  <2> HIDE DEF rm
  <2>5. (r \notin DOMAIN svc.rooms) =>
           RoomOK(rm) /\ (r \in DOMAIN svc.rooms => KeepsBattle(svc.rooms[r], rm, over))
    BY <2>4
  <2>6. RoomReplyOK(svc, AcceptIf(r \notin DOMAIN svc.rooms, svc, Put(svc, r, rm)), over)
    BY <2>5, AcceptOrRefuse, ZenonT(30)
  <2> QED
    BY <2>6 DEF RoomCreate, rm
<1> SUFFICES ASSUME r \in DOMAIN svc.rooms
             PROVE  /\ RoomReplyOK(svc, RoomJoin(svc, u, r), over)
                    /\ \A ready \in BOOLEAN :
                          RoomReplyOK(svc, RoomReady(svc, u, r, ready), over)
                    /\ RoomReplyOK(svc, RoomKick(svc, u, r, v), over)
                    /\ RoomReplyOK(svc, RoomTransferOwner(svc, u, r, v), over)
  BY <1>1, SameRooms DEF RoomJoin, RoomReady, RoomKick, RoomTransferOwner
<1> DEFINE old == svc.rooms[r]
<1>2. RoomOK(old)
  BY <1>0
<1>3. RoomReplyOK(svc, RoomJoin(svc, u, r), over)
  <2> DEFINE p == old.status # InInstance /\ HasPlace(old, u)
             rm == Joined(old, u)
  <2>1. ASSUME p PROVE RoomOK(rm) /\ KeepsBattle(old, rm, over)
    <3>0. old.battle = NoBattle
      BY <1>2, <2>1, RoomFields
    <3>1. KeepsBattle(old, rm, over)
      BY <3>0 DEF KeepsBattle
    <3>2. CASE u \in Members(old)
      BY <1>2, <3>1, <3>2 DEF Joined
    <3>3. CASE u \notin Members(old)
      <4> DEFINE more == Append(old.members, u)
                 n == Len(old.members)
      <4>1. /\ rm = [owner |-> old.owner, members |-> more, ready |-> old.ready,
                     battle |-> old.battle, status |-> old.status, capacity |-> old.capacity]
        BY <1>2, <3>3, SetMembers DEF Joined, RoomOK
      <4>2. /\ n \in Nat /\ more \in Seq(User) /\ Len(more) = n + 1 /\ more[n + 1] = u
            /\ \A i \in 1..n : more[i] = old.members[i]
        BY <1>2, RoomFields
      <4>3. /\ \A i \in 1..n : old.members[i] # u
            /\ \A i, j \in 1..n : old.members[i] = old.members[j] => i = j
        BY <1>2, <3>3, RoomFields, MembersAre
      <4>10. \A m \in Members(old) : \E i \in 1..n : old.members[i] = m
        BY MembersAre
      <4> HIDE DEF more, n, rm
      <4>11. rm.members = more /\ rm.owner = old.owner /\ rm.ready = old.ready
             /\ rm.battle = old.battle /\ rm.status = old.status
        BY <4>1
      <4>4. \A i, j \in 1..Len(more) : more[i] = more[j] => i = j
        <5> SUFFICES ASSUME NEW i \in 1..(n + 1), NEW j \in 1..(n + 1), more[i] = more[j]
                     PROVE  i = j
          BY <4>2
        <5>1. /\ i \in 1..n \/ i = n + 1
              /\ j \in 1..n \/ j = n + 1
          BY <4>2
        <5> QED
          BY <4>2, <4>3, <5>1
      <4>5. Members(old) \subseteq Members(rm)
        <5> SUFFICES ASSUME NEW m \in Members(old) PROVE m \in Members(rm)
          OBVIOUS
        <5>1. PICK i \in 1..n : old.members[i] = m
          BY <4>10
        <5>2. i \in 1..Len(rm.members) /\ rm.members[i] = m
          BY <4>2, <4>11, <5>1
        <5> QED
          BY <5>2, MembersAre
      <4>6. rm \in RoomRecord
        BY <1>2, <4>1, <4>2, RoomFields DEF RoomRecord
      <4>7. RoomOK(rm)
        BY <1>2, <4>4, <4>5, <4>6, <4>11, RoomFields DEF RoomOK
      <4> QED
        BY <3>1, <4>7
    <3> QED
      BY <3>2, <3>3
  <2>2. p \in BOOLEAN
    BY DEF HasPlace
  <2> HIDE DEF p, rm
  <2>3. RoomReplyOK(svc, AcceptIf(p, svc, Put(svc, r, rm)), over)
    BY <2>1, <2>2, AcceptOrRefuse
  <2> QED
    BY <2>3 DEF RoomJoin, p, rm
<1>4. ASSUME NEW ready \in BOOLEAN PROVE RoomReplyOK(svc, RoomReady(svc, u, r, ready), over)
  <2> DEFINE p == u \in Members(old)
             set == IF ready THEN old.ready \cup {u} ELSE old.ready \ {u}
             rm == [old EXCEPT !.ready = set]
  <2>2. p \in BOOLEAN
    OBVIOUS
  <2>1. ASSUME p PROVE RoomOK(rm) /\ KeepsBattle(old, rm, over)
    <3>1. rm = [owner |-> old.owner, members |-> old.members, ready |-> set,
                battle |-> old.battle, status |-> old.status, capacity |-> old.capacity]
      BY <1>2, SetReady, ZenonT(30) DEF RoomOK
    <3>2. set \subseteq Members(old) /\ set \subseteq User
      BY <1>2, <2>1, RoomFields
    <3> HIDE DEF rm, set
    <3>5. rm.members = old.members /\ rm.owner = old.owner /\ rm.ready = set
          /\ rm.battle = old.battle /\ rm.status = old.status
      BY <3>1
    <3>3. Members(rm) = Members(old)
      BY <3>5 DEF Members
    <3>4. rm \in RoomRecord
      BY <1>2, <3>1, <3>2, RoomFields DEF RoomRecord
    <3> QED
      BY <1>2, <3>2, <3>3, <3>4, <3>5, RoomFields DEF RoomOK, KeepsBattle
  <2> HIDE DEF p, rm
  <2>3. RoomReplyOK(svc, AcceptIf(p, svc, Put(svc, r, rm)), over)
    BY <2>1, <2>2, AcceptOrRefuse
  <2> QED
    BY <2>3 DEF RoomReady, p, rm
<1>5. RoomReplyOK(svc, RoomKick(svc, u, r, v), over)
  <2> DEFINE p == u = old.owner /\ v # old.owner /\ v \in Members(old)
             stay == Without(old.members, v)
             rm == [old EXCEPT !.members = stay, !.ready = @ \ {v}]
  <2>1. ASSUME p PROVE RoomOK(rm) /\ KeepsBattle(old, rm, over)
    <3>1. rm = [owner |-> old.owner, members |-> stay, ready |-> old.ready \ {v},
                battle |-> old.battle, status |-> old.status, capacity |-> old.capacity]
      <4> HIDE DEF stay, old
      <4>1. old \in RoomRecord
        BY <1>2 DEF RoomOK
      <4>2. [old EXCEPT !.members = stay, !.ready = old.ready \ {v}] =
               [owner |-> old.owner, members |-> stay, ready |-> old.ready \ {v},
                battle |-> old.battle, status |-> old.status, capacity |-> old.capacity]
        BY <4>1, SetMembersReady, ZenonT(30)
      <4> QED
        BY <4>2
    <3>2. /\ stay \in Seq(User) /\ \A i, j \in 1..Len(stay) : stay[i] = stay[j] => i = j
          /\ \A m : (\E i \in 1..Len(stay) : stay[i] = m) <=> m \in Members(old) \ {v}
      BY <1>2, <2>1, WithoutOne, ZenonT(30)
    <3> HIDE DEF rm, stay
    <3>5. rm.members = stay /\ rm.owner = old.owner /\ rm.ready = old.ready \ {v}
          /\ rm.battle = old.battle /\ rm.status = old.status
      BY <3>1
    <3>3. Members(rm) = Members(old) \ {v}
      BY <3>2, <3>5, MembersAre
    <3>4. rm \in RoomRecord
      BY <1>2, <3>1, <3>2, RoomFields DEF RoomRecord
    <3> QED
      BY <1>2, <2>1, <3>2, <3>3, <3>4, <3>5, RoomFields DEF RoomOK, KeepsBattle
  <2> HIDE DEF rm
  <2>3. RoomReplyOK(svc, AcceptIf(p, svc, Put(svc, r, rm)), over)
    BY <2>1, AcceptOrRefuse, ZenonT(30)
  <2> QED
    BY <2>3 DEF RoomKick, rm
<1>6. RoomReplyOK(svc, RoomTransferOwner(svc, u, r, v), over)
  <2> DEFINE p == u = old.owner /\ v \in Members(old) /\ v # u
             rm == [old EXCEPT !.owner = v]
  <2>1. ASSUME p PROVE RoomOK(rm) /\ KeepsBattle(old, rm, over)
    <3>1. rm = [owner |-> v, members |-> old.members, ready |-> old.ready,
                battle |-> old.battle, status |-> old.status, capacity |-> old.capacity]
      BY <1>2, RoomFields
    <3> HIDE DEF rm
    <3>5. rm.members = old.members /\ rm.owner = v /\ rm.ready = old.ready
          /\ rm.battle = old.battle /\ rm.status = old.status
      BY <3>1
    <3>3. Members(rm) = Members(old)
      BY <3>5 DEF Members
    <3>4. rm \in RoomRecord
      BY <1>2, <3>1, RoomFields DEF RoomRecord
    <3> QED
      BY <1>2, <2>1, <3>3, <3>4, <3>5, RoomFields DEF RoomOK, KeepsBattle
  <2> HIDE DEF rm
  <2>3. RoomReplyOK(svc, AcceptIf(p, svc, Put(svc, r, rm)), over)
    BY <2>1, AcceptOrRefuse, ZenonT(30)
  <2> QED
    BY <2>3 DEF RoomTransferOwner, rm
<1> QED
  BY <1>3, <1>4, <1>5, <1>6

\* Taking rooms off the map.
LEMMA DropRooms ==
    ASSUME NEW svc, ServiceOK(svc), NEW gone, NEW over, NEW new, IsService(new),
           DOMAIN new.rooms = DOMAIN svc.rooms \ gone,
           \A x \in DOMAIN svc.rooms \ gone : new.rooms[x] = svc.rooms[x],
           \A r \in gone \cap DOMAIN svc.rooms :
              svc.rooms[r].battle = NoBattle \/ Len(svc.rooms[r].members) = 1
    PROVE  ServiceOK(new) /\ HoldsRooms(svc, new, over)
<1>1. ServiceOK(new)
  BY DEF ServiceOK
<1>2. HoldsRooms(svc, new, over)
  BY DEF HoldsRooms, KeepsBattle
<1> QED
  BY <1>1, <1>2

\* A service with rooms taken off its map is one still.
LEMMA RestIsService ==
    ASSUME NEW svc, IsService(svc), NEW gone
    PROVE  LET new == [svc EXCEPT !.rooms = [x \in DOMAIN svc.rooms \ gone |-> svc.rooms[x]]]
           IN  /\ IsService(new) /\ new.next_battle_id = svc.next_battle_id
               /\ DOMAIN new.rooms = DOMAIN svc.rooms \ gone
               /\ \A x \in DOMAIN svc.rooms \ gone : new.rooms[x] = svc.rooms[x]
<1> DEFINE rest == [x \in DOMAIN svc.rooms \ gone |-> svc.rooms[x]]
<1>1. [svc EXCEPT !.rooms = rest] = [rooms |-> rest, next_battle_id |-> svc.next_battle_id]
  BY DEF IsService
<1>2. DOMAIN rest = DOMAIN svc.rooms \ gone /\ rest = [x \in DOMAIN rest |-> rest[x]]
  OBVIOUS
<1>3. \A x \in DOMAIN svc.rooms \ gone : rest[x] = svc.rooms[x]
  OBVIOUS
<1> HIDE DEF rest
<1>4. IsMap(rest, Room, RoomRecord)
  BY <1>2, <1>3 DEF IsMap, IsService
<1>5. IsService([svc EXCEPT !.rooms = rest])
  BY <1>1, <1>4 DEF IsService
<1> QED
  BY <1>1, <1>2, <1>3, <1>5 DEF rest

\* cleanup_expired_rooms takes only rooms that play no battle.
LEMMA CleanupHolds ==
    ASSUME NEW svc, ServiceOK(svc), NEW expired \in SUBSET Expirable(svc), NEW over
    PROVE  /\ ServiceOK(CleanupExpired(svc, expired))
           /\ HoldsRooms(svc, CleanupExpired(svc, expired), over)
           /\ CleanupExpired(svc, expired).next_battle_id = svc.next_battle_id
           /\ DOMAIN CleanupExpired(svc, expired).rooms \subseteq DOMAIN svc.rooms
           /\ \A x \in DOMAIN CleanupExpired(svc, expired).rooms :
                 CleanupExpired(svc, expired).rooms[x] = svc.rooms[x]
<1>1. \A r \in expired \cap DOMAIN svc.rooms : svc.rooms[r].battle = NoBattle
  BY RoomFields DEF Expirable, ServiceOK, Waiting, InInstance
<1>2. /\ IsService(CleanupExpired(svc, expired))
      /\ CleanupExpired(svc, expired).next_battle_id = svc.next_battle_id
      /\ DOMAIN CleanupExpired(svc, expired).rooms = DOMAIN svc.rooms \ expired
      /\ \A x \in DOMAIN svc.rooms \ expired :
            CleanupExpired(svc, expired).rooms[x] = svc.rooms[x]
  BY RestIsService, ZenonT(30) DEF CleanupExpired, ServiceOK
<1>3. /\ ServiceOK(CleanupExpired(svc, expired))
      /\ HoldsRooms(svc, CleanupExpired(svc, expired), over)
  BY <1>1, <1>2, DropRooms
<1> QED
  BY <1>2, <1>3

\* A member leaves; the last one out takes the room along.
LEMMA LeaveHandler ==
    ASSUME NEW svc, ServiceOK(svc), NEW over, NEW u \in User, NEW r \in Room
    PROVE  RoomReplyOK(svc, RoomLeave(svc, u, r), over)
<1>0. ServiceOK(svc) /\ (r \in DOMAIN svc.rooms => RoomOK(svc.rooms[r]))
  BY DEF ServiceOK
<1> SUFFICES ASSUME r \in DOMAIN svc.rooms, u \in Members(svc.rooms[r])
             PROVE  RoomReplyOK(svc, RoomLeave(svc, u, r), over)
  BY SameRooms DEF RoomLeave
<1> DEFINE old == svc.rooms[r]
<1>1. RoomOK(old)
  BY <1>0
<1>2. CASE Len(old.members) = 1
  <2>1. RoomLeave(svc, u, r) = [ok |-> TRUE, svc |-> Erase(svc, r), battle |-> NoBattle]
    BY <1>2 DEF RoomLeave, Accept
  <2>2. /\ IsService(Erase(svc, r)) /\ DOMAIN Erase(svc, r).rooms = DOMAIN svc.rooms \ {r}
        /\ \A x \in DOMAIN svc.rooms \ {r} : Erase(svc, r).rooms[x] = svc.rooms[x]
    BY RestIsService, ZenonT(30) DEF Erase, ServiceOK
  <2>3. ServiceOK(Erase(svc, r)) /\ HoldsRooms(svc, Erase(svc, r), over)
    BY <1>2, <2>2, DropRooms, ZenonT(30)
  <2> QED
    BY <2>1, <2>3 DEF RoomReplyOK, NoBattle
<1>3. CASE Len(old.members) # 1
  <2> DEFINE stay == Without(old.members, u)
             owner == IF old.owner = u THEN Head(stay) ELSE old.owner
             rm == Left(old, u)
  <2>1. rm = [owner |-> owner, members |-> stay, ready |-> old.ready \ {u},
              battle |-> old.battle, status |-> old.status, capacity |-> old.capacity]
    <3>1. rm = [old EXCEPT !.members = stay, !.ready = old.ready \ {u}, !.owner = owner]
      BY DEF Left
    <3> HIDE DEF stay, old, owner, rm
    <3>2. old \in RoomRecord
      BY <1>1 DEF RoomOK
    <3>3. [old EXCEPT !.members = stay, !.ready = old.ready \ {u}, !.owner = owner]
            = [owner |-> owner, members |-> stay, ready |-> old.ready \ {u},
               battle |-> old.battle, status |-> old.status, capacity |-> old.capacity]
      BY <3>2, SetMembersReadyOwner, ZenonT(30)
    <3> QED
      BY <3>1, <3>3
  <2>2. /\ stay \in Seq(User) /\ Len(stay) = Len(old.members) - 1
        /\ \A i, j \in 1..Len(stay) : stay[i] = stay[j] => i = j
        /\ \A m : (\E i \in 1..Len(stay) : stay[i] = m) <=> m \in Members(old) \ {u}
    BY <1>1, WithoutOne, ZenonT(30)
  <2>3. RoomLeave(svc, u, r) = AcceptIf(TRUE, svc, Put(svc, r, rm))
    BY <1>3 DEF RoomLeave, AcceptIf
  <2>4. Len(old.members) \in Nat /\ \E i \in 1..Len(old.members) : old.members[i] = u
    BY <1>1, RoomFields, MembersAre
  <2> HIDE DEF stay, rm
  <2>5. rm.members = stay /\ rm.owner = owner /\ rm.ready = old.ready \ {u}
        /\ rm.battle = old.battle /\ rm.status = old.status
    BY <2>1
  <2>6. Members(rm) = Members(old) \ {u}
    BY <2>2, <2>5, MembersAre
  <2>7. 1 \in 1..Len(stay) /\ Head(stay) = stay[1]
    <3>1. Len(stay) \in Nat /\ Len(stay) # 0
      BY <1>3, <2>2, <2>4
    <3>2. stay \in Seq(User)
      BY <2>2
    <3> QED
      BY <3>1, <3>2
  <2>8. owner \in Members(old) \ {u}
    <3>1. CASE old.owner = u
      BY <2>2, <2>7, <3>1
    <3>2. CASE old.owner # u
      BY <1>1, <3>2, RoomFields
    <3> QED
      BY <3>1, <3>2
  <2>9. \A m \in Members(old) : m \in User
    BY <1>1, RoomFields, MembersAre
  <2> HIDE DEF owner
  <2>10. rm \in RoomRecord
    BY <1>1, <2>1, <2>2, <2>8, <2>9, RoomFields, ZenonT(30) DEF RoomRecord
  <2>11. RoomOK(rm) /\ KeepsBattle(old, rm, over)
    BY <1>1, <2>2, <2>5, <2>6, <2>8, <2>10, RoomFields, ZenonT(30) DEF RoomOK, KeepsBattle
  <2>12. RoomReplyOK(svc, AcceptIf(TRUE, svc, Put(svc, r, rm)), over)
    BY <2>11, AcceptOrRefuse, ZenonT(30)
  <2> QED
    BY <2>3, <2>12, ZenonT(30)
<1> QED
  BY <1>2, <1>3

\* The end of a battle releases the room that plays it.
LEMMA FinishedHandler ==
    ASSUME NEW svc, ServiceOK(svc), NEW over, NEW r \in Room, NEW b \in over
    PROVE  RoomReplyOK(svc, RoomBattleFinished(svc, r, b), over)
<1>0. ServiceOK(svc) /\ (r \in DOMAIN svc.rooms => RoomOK(svc.rooms[r]))
  BY DEF ServiceOK
<1> SUFFICES ASSUME r \in DOMAIN svc.rooms
             PROVE  RoomReplyOK(svc, RoomBattleFinished(svc, r, b), over)
  BY SameRooms DEF RoomBattleFinished
<1> DEFINE old == svc.rooms[r]
           p == old.battle \in {NoBattle, b}
           rm == [old EXCEPT !.battle = NoBattle, !.status = Waiting, !.ready = {}]
<1>1. RoomOK(old)
  BY <1>0
<1>2. p \in BOOLEAN
  OBVIOUS
<1>3. rm = [owner |-> old.owner, members |-> old.members, ready |-> {},
            battle |-> NoBattle, status |-> Waiting, capacity |-> old.capacity]
  <2> HIDE DEF old
  <2>1. old \in RoomRecord
    BY <1>1 DEF RoomOK
  <2> QED
    BY <2>1, FreedRoom, ZenonT(30)
<1>4. ASSUME p PROVE RoomOK(rm) /\ KeepsBattle(old, rm, over)
  <2> HIDE DEF rm
  <2>1. rm.members = old.members /\ rm.owner = old.owner /\ rm.ready = {}
        /\ rm.battle = NoBattle /\ rm.status = Waiting
    BY <1>3
  <2>2. Members(rm) = Members(old)
    BY <2>1 DEF Members
  <2>3. rm \in RoomRecord
    BY <1>1, <1>3, RoomFields DEF RoomRecord, NoBattle
  <2>4. RoomOK(rm)
    BY <1>1, <2>1, <2>2, <2>3, RoomFields, ZenonT(30) DEF RoomOK, Waiting, InInstance
  <2> QED
    BY <1>4, <2>1, <2>2, <2>4 DEF KeepsBattle
<1> HIDE DEF p, rm
<1>5. RoomReplyOK(svc, AcceptIf(p, svc, Put(svc, r, rm)), over)
  BY <1>2, <1>4, AcceptOrRefuse
<1> QED
  BY <1>5 DEF RoomBattleFinished, p, rm

\* A start gives the room the next battle id.
LEMMA StartHandler ==
    ASSUME NEW svc, ServiceOK(svc), NEW over, NEW u \in User, NEW r \in Room
    PROVE  RoomReplyOK(svc, RoomStartBattle(svc, u, r), over)
<1>0. ServiceOK(svc) /\ (r \in DOMAIN svc.rooms => RoomOK(svc.rooms[r]))
  BY DEF ServiceOK
<1> SUFFICES ASSUME r \in DOMAIN svc.rooms, CanStart(svc.rooms[r], u)
             PROVE  RoomReplyOK(svc, RoomStartBattle(svc, u, r), over)
  BY SameRooms DEF RoomStartBattle
<1> DEFINE old == svc.rooms[r]
           b == svc.next_battle_id
           rm == [old EXCEPT !.battle = b, !.status = InInstance]
           new == [Put(svc, r, rm) EXCEPT !.next_battle_id = b + 1]
<1>1. RoomOK(old) /\ old.battle = NoBattle /\ b \in Nat \ {0}
  BY <1>0 DEF CanStart, ServiceOK, IsService
<1>2. rm = [owner |-> old.owner, members |-> old.members, ready |-> old.ready,
            battle |-> b, status |-> InInstance, capacity |-> old.capacity]
  <2> HIDE DEF old, b
  <2>1. old \in RoomRecord
    BY <1>1 DEF RoomOK
  <2> QED
    BY <2>1, StartedRoom, ZenonT(30)
<1>3. RoomOK(rm) /\ KeepsBattle(old, rm, over)
  <2> HIDE DEF rm, b
  <2>1. rm.members = old.members /\ rm.owner = old.owner /\ rm.ready = old.ready
        /\ rm.battle = b /\ rm.status = InInstance
    BY <1>2, ZenonT(30)
  <2>2. Members(rm) = Members(old)
    BY <2>1, ZenonT(30) DEF Members
  <2>3. rm \in RoomRecord
    BY <1>1, <1>2, RoomFields, ZenonT(30) DEF RoomRecord
  <2>4. RoomOK(rm)
    BY <1>1, <2>1, <2>2, <2>3, RoomFields, SMTT(40) DEF RoomOK, NoBattle
  <2> QED
    BY <1>1, <2>4 DEF KeepsBattle
<1>4. RoomStartBattle(svc, u, r) = [ok |-> TRUE, svc |-> new, battle |-> b]
  BY ZenonT(30) DEF RoomStartBattle, Accept
<1> HIDE DEF rm
<1>5. ServiceOK(Put(svc, r, rm)) /\ HoldsRooms(svc, Put(svc, r, rm), over)
  BY <1>3, PutRoom
<1>6. new = [rooms |-> Put(svc, r, rm).rooms, next_battle_id |-> b + 1]
  BY <1>5 DEF ServiceOK, IsService
<1> HIDE DEF new, b
<1>7. new.rooms = Put(svc, r, rm).rooms /\ new.next_battle_id = b + 1
  BY <1>6
<1>8. ServiceOK(new)
  BY <1>1, <1>5, <1>6, <1>7 DEF ServiceOK, IsService
<1>9. HoldsRooms(svc, new, over)
  BY <1>5, <1>7, ZenonT(30) DEF HoldsRooms
<1> QED
  BY <1>1, <1>4, <1>8, <1>9, SMTT(40) DEF RoomReplyOK

-----------------------------------------------------------------------------
(* What a request does to the backends.                                    *)

\* The fields each request has.
LEMMA RequestFields ==
    ASSUME NEW q \in Request
    PROVE  /\ q.op \in {"room_create", "room_join", "room_leave", "room_start_battle",
                        "room_ready", "room_kick", "room_transfer_owner"}
                 => q.user \in User /\ q.room \in Room
           /\ q.op = "room_ready" => q.ready \in BOOLEAN
           /\ q.op \in {"room_kick", "room_transfer_owner"} => q.target \in User
           /\ q.op = "room_battle_finished" => q.room \in Room /\ q.battle \in Nat
           /\ q.op = "battle_create" => q.battle \in Nat /\ q.players \subseteq User
           /\ q.op \in {"battle_input", "leaderboard_submit"} =>
                 q.battle \in Nat /\ q.user \in User
           /\ q.op \in {"battle_state", "battle_finish"} => q.battle \in Nat
           /\ q.op \in {"room_create", "room_join", "room_leave", "room_start_battle",
                        "room_ready", "room_kick", "room_transfer_owner",
                        "room_battle_finished", "battle_create", "battle_input",
                        "leaderboard_submit", "battle_state", "battle_finish"}
  BY DEF Request

ReplyOK(o) ==
    /\ o.ok \in BOOLEAN /\ o.ends \in BOOLEAN /\ o.battle \in Nat
    /\ o.players \subseteq User /\ o.scores \subseteq User

\* What the backends hold after a step: battles are not forgotten, and the rooms that play
\* one are held.
BackendsOK(be) ==
    /\ ServiceOK(be.room) /\ HoldsRooms(room, be.room, DOMAIN ended)
    /\ IsMap(be.live, Nat, [players : SUBSET User, frame : Nat])
    /\ IsMap(be.ended, Nat, SUBSET User)
    /\ DOMAIN ended \subseteq DOMAIN be.ended
    /\ Created \subseteq DOMAIN be.live \cup DOMAIN be.ended
    /\ be.board \in [keys : SUBSET (Nat \X User), applied : [Key -> Nat]]
    /\ \A k \in Key : be.board.applied[k] <= 1
                      /\ (be.board.applied[k] > 0 => k \in be.board.keys)
    /\ \A k \in be.board.keys : k[1] \in DOMAIN be.ended

(* In a reachable state the three backends are well formed. *)
LEMMA UnchangedBackends ==
    ASSUME IInv
    PROVE  ServiceOK(room) /\ BackendsOK(Backends)
<1>1. ServiceOK(room)
  BY ZenonT(30) DEF IInv, TypeOK, OwnedByAMember, StatusTracksBattle, ServiceOK, RoomOK, IsService, IsMap
<1>2. HoldsRooms(room, room, DOMAIN ended)
  BY <1>1, SameRooms
<1>3. /\ Backends.room = room /\ Backends.live = live /\ Backends.board = board
      /\ Backends.ended = ended
  BY DEF Backends
<1> QED
  BY <1>1, <1>2, <1>3, ZenonT(30) DEF BackendsOK, IInv, TypeOK, BoardOK, Created

\* A reply of the Room backend, as the gateway sees it.
LEMMA ByRoomOK ==
    ASSUME IInv, NEW reply, RoomReplyOK(room, reply, DOMAIN ended)
    PROVE  /\ BackendsOK(ByRoom(reply).be) /\ ReplyOK(ByRoom(reply).reply)
           /\ ByRoom(reply).reply =
                 [ok |-> reply.ok, ends |-> FALSE, battle |-> reply.battle, players |-> {},
                  scores |-> {}]
           /\ ByRoom(reply).be =
                 [room |-> reply.svc, live |-> live, board |-> board, ended |-> ended]
           /\ ~ByRoom(reply).reply.ends
<1>1. ByRoom(reply).reply =
        [ok |-> reply.ok, ends |-> FALSE, battle |-> reply.battle, players |-> {},
         scores |-> {}]
  BY ZenonT(30) DEF ByRoom, Reply
<1>2. ByRoom(reply).be =
        [room |-> reply.svc, live |-> live, board |-> board, ended |-> ended]
  BY DEF ByRoom, Backends
<1>3. ReplyOK(ByRoom(reply).reply) /\ ~ByRoom(reply).reply.ends
  BY <1>1, SMTT(40) DEF ReplyOK, RoomReplyOK
<1>4. BackendsOK(ByRoom(reply).be)
  BY <1>2, SMTT(40) DEF BackendsOK, RoomReplyOK, IInv, TypeOK, BoardOK, Created
<1> QED
  BY <1>1, <1>2, <1>3, <1>4, ZenonT(30)

\* The requests to the Room backend.
LEMMA RoomRequests ==
    ASSUME IInv, NEW q \in Request, RequestOK(q), NEW due \in BOOLEAN, NEW ends \in BOOLEAN,
           q.op \in {"room_create", "room_join", "room_ready", "room_leave", "room_kick",
                     "room_transfer_owner", "room_start_battle", "room_battle_finished"}
    PROVE  LET o == Outcome(q, due, ends) IN
           BackendsOK(o.be) /\ ReplyOK(o.reply) /\ ~o.reply.ends
<1> DEFINE o == Outcome(q, due, ends)
           over == DOMAIN ended
<1>0. ServiceOK(room)
  BY UnchangedBackends
<1>1. CASE q.op = "room_create"
  <2>1. o = ByRoom(RoomCreate(room, q.user, q.room, 0))
    BY <1>1 DEF Outcome
  <2>2. RoomReplyOK(room, RoomCreate(room, q.user, q.room, 0), over)
    BY <1>0, <1>1, RequestFields, RoomHandlers, ZenonT(30)
  <2> QED
    BY <2>1, <2>2, ByRoomOK, ZenonT(30)
<1>2. CASE q.op = "room_join"
  <2>1. o = ByRoom(RoomJoin(room, q.user, q.room))
    BY <1>2 DEF Outcome
  <2>2. RoomReplyOK(room, RoomJoin(room, q.user, q.room), over)
    BY <1>0, <1>2, RequestFields, RoomHandlers, ZenonT(30)
  <2> QED
    BY <2>1, <2>2, ByRoomOK, ZenonT(30)
<1>3. CASE q.op = "room_ready"
  <2>1. o = ByRoom(RoomReady(room, q.user, q.room, q.ready))
    BY <1>3 DEF Outcome
  <2>2. RoomReplyOK(room, RoomReady(room, q.user, q.room, q.ready), over)
    BY <1>0, <1>3, RequestFields, RoomHandlers, ZenonT(30)
  <2> QED
    BY <2>1, <2>2, ByRoomOK, ZenonT(30)
<1>4. CASE q.op = "room_leave"
  <2>1. o = ByRoom(RoomLeave(room, q.user, q.room))
    BY <1>4 DEF Outcome
  <2>2. RoomReplyOK(room, RoomLeave(room, q.user, q.room), over)
    BY <1>0, <1>4, RequestFields, LeaveHandler, ZenonT(30)
  <2> QED
    BY <2>1, <2>2, ByRoomOK, ZenonT(30)
<1>5. CASE q.op = "room_kick"
  <2>1. o = ByRoom(RoomKick(room, q.user, q.room, q.target))
    BY <1>5 DEF Outcome
  <2>2. RoomReplyOK(room, RoomKick(room, q.user, q.room, q.target), over)
    BY <1>0, <1>5, RequestFields, RoomHandlers, ZenonT(30)
  <2> QED
    BY <2>1, <2>2, ByRoomOK, ZenonT(30)
<1>6. CASE q.op = "room_transfer_owner"
  <2>1. o = ByRoom(RoomTransferOwner(room, q.user, q.room, q.target))
    BY <1>6 DEF Outcome
  <2>2. RoomReplyOK(room, RoomTransferOwner(room, q.user, q.room, q.target), over)
    BY <1>0, <1>6, RequestFields, RoomHandlers, ZenonT(30)
  <2> QED
    BY <2>1, <2>2, ByRoomOK, ZenonT(30)
<1>7. CASE q.op = "room_start_battle"
  <2> DEFINE reply == RoomStartBattle(room, q.user, q.room)
             by == ByRoom(reply)
  <2>1. o = IF by.reply.ok THEN [by EXCEPT !.reply.players = Members(room.rooms[q.room])]
            ELSE by
    BY <1>7 DEF Outcome
  <2>2. RoomReplyOK(room, reply, over)
    BY <1>0, <1>7, RequestFields, StartHandler, ZenonT(30)
  <2>3. BackendsOK(by.be) /\ ReplyOK(by.reply) /\ ~by.reply.ends
    BY <2>2, ByRoomOK, ZenonT(30)
  <2>4. CASE ~by.reply.ok
    BY <2>1, <2>3, <2>4
  <2>5. CASE by.reply.ok
    <3>1. q.room \in DOMAIN room.rooms
      BY <2>5, ZenonT(30) DEF ByRoom, Reply, RoomStartBattle, Refuse
    <3>2. Members(room.rooms[q.room]) \subseteq User
      BY <1>0, <3>1, RoomFields, MembersAre DEF ServiceOK
    <3>3. o.be = by.be /\ o.reply = [by.reply EXCEPT !.players = Members(room.rooms[q.room])]
      BY <2>1, <2>5 DEF ByRoom
    <3>4. /\ by.reply = [ok |-> by.reply.ok, ends |-> by.reply.ends, battle |-> by.reply.battle,
                         players |-> by.reply.players, scores |-> by.reply.scores]
      BY ZenonT(30) DEF ByRoom, Reply
    <3> HIDE DEF by, o
    <3>5. ReplyOK(o.reply) /\ ~o.reply.ends
      BY <2>3, <3>2, <3>3, <3>4 DEF ReplyOK
    <3> QED
      BY <2>3, <3>3, <3>5 DEF o
  <2> QED
    BY <2>4, <2>5
<1>8. CASE q.op = "room_battle_finished"
  <2>1. o = ByRoom(RoomBattleFinished(room, q.room, q.battle))
    BY <1>8 DEF Outcome
  <2>2. RoomReplyOK(room, RoomBattleFinished(room, q.room, q.battle), over)
    BY <1>0, <1>8, RequestFields, FinishedHandler, ZenonT(30) DEF RequestOK, Fits
  <2> QED
    BY <2>1, <2>2, ByRoomOK, ZenonT(30)
<1> QED
  BY <1>1, <1>2, <1>3, <1>4, <1>5, <1>6, <1>7, <1>8, ZenonT(30)

\* The release of an instance keeps what was created, and the battle has ended.
LEMMA ReleasedOK ==
    ASSUME IInv, NEW b \in DOMAIN live
    PROVE  /\ BackendsOK(Released(b)) /\ b \in DOMAIN Released(b).ended
           /\ DOMAIN Released(b).live = DOMAIN live \ {b}
<1> DEFINE lv == [x \in DOMAIN live \ {b} |-> live[x]]
           en == [x \in DOMAIN ended \cup {b} |-> IF x = b THEN live[b].players ELSE ended[x]]
<1>1. Released(b) = [room |-> room, live |-> lv, board |-> board, ended |-> en]
  <2>1. Released(b) = [[Backends EXCEPT !.live = lv] EXCEPT !.ended = en]
    BY DEF Released, Backends
  <2>2. [Backends EXCEPT !.live = lv] = [room |-> room, live |-> lv, board |-> board,
                                         ended |-> ended]
    BY DEF Backends
  <2> HIDE DEF lv, en
  <2>3. [[room |-> room, live |-> lv, board |-> board, ended |-> ended] EXCEPT !.ended = en]
          = [room |-> room, live |-> lv, board |-> board, ended |-> en]
    OBVIOUS
  <2> QED
    BY <2>1, <2>2, <2>3, ZenonT(30)
<1>2. /\ DOMAIN lv = DOMAIN live \ {b} /\ lv = [x \in DOMAIN lv |-> lv[x]]
      /\ \A x \in DOMAIN lv : lv[x] = live[x]
  OBVIOUS
<1>3. /\ DOMAIN en = DOMAIN ended \cup {b} /\ en = [x \in DOMAIN en |-> en[x]]
      /\ \A x \in DOMAIN en : en[x] = IF x = b THEN live[b].players ELSE ended[x]
  BY ZenonT(30)
<1> HIDE DEF lv, en
<1>4. /\ IsMap(live, Nat, [players : SUBSET User, frame : Nat])
      /\ IsMap(ended, Nat, SUBSET User)
      /\ board \in [keys : SUBSET (Nat \X User), applied : [Key -> Nat]] /\ BoardOK
  BY DEF IInv, TypeOK
<1>5. IsMap(lv, Nat, [players : SUBSET User, frame : Nat])
  BY <1>2, <1>4 DEF IsMap
<1>6. IsMap(en, Nat, SUBSET User)
  BY <1>3, <1>4 DEF IsMap
<1>7. ServiceOK(room) /\ HoldsRooms(room, room, DOMAIN ended)
  BY UnchangedBackends, SameRooms
<1>8. /\ Released(b).room = room /\ Released(b).live = lv /\ Released(b).board = board
      /\ Released(b).ended = en
  BY <1>1
<1>9. Created \subseteq DOMAIN lv \cup DOMAIN en
  BY <1>2, <1>3 DEF Created
<1> QED
  BY <1>2, <1>3, <1>4, <1>5, <1>6, <1>7, <1>8, <1>9, ZenonT(30) DEF BackendsOK, BoardOK

\* A tick ends the battle or counts a frame.
LEMMA TickedOK ==
    ASSUME IInv, NEW b \in DOMAIN live, NEW ends \in BOOLEAN
    PROVE  /\ BackendsOK(Ticked(b, ends))
           /\ b \notin DOMAIN Ticked(b, ends).live => b \in DOMAIN Ticked(b, ends).ended
<1>1. CASE ends \/ live[b].frame + 1 >= MaxFrames
  BY <1>1, ReleasedOK DEF Ticked
<1>2. CASE ~(ends \/ live[b].frame + 1 >= MaxFrames)
  <2> DEFINE lv == [live EXCEPT ![b].frame = @ + 1]
  <2>1. Ticked(b, ends) = [room |-> room, live |-> lv, board |-> board, ended |-> ended]
    BY <1>2 DEF Ticked, Backends
  <2>2. /\ IsMap(live, Nat, [players : SUBSET User, frame : Nat])
        /\ IsMap(ended, Nat, SUBSET User)
        /\ board \in [keys : SUBSET (Nat \X User), applied : [Key -> Nat]] /\ BoardOK
    BY DEF IInv, TypeOK
  <2>3. live[b] \in [players : SUBSET User, frame : Nat]
    BY <2>2 DEF IsMap
  <2>4. [live[b] EXCEPT !.frame = @ + 1] \in [players : SUBSET User, frame : Nat]
    BY <2>3
  <2>5. /\ DOMAIN lv = DOMAIN live /\ lv = [x \in DOMAIN lv |-> lv[x]]
        /\ \A x \in DOMAIN lv : lv[x] = IF x = b THEN [live[b] EXCEPT !.frame = @ + 1]
                                        ELSE live[x]
    BY <2>2 DEF IsMap
  <2> HIDE DEF lv
  <2>6. IsMap(lv, Nat, [players : SUBSET User, frame : Nat])
    BY <2>2, <2>4, <2>5 DEF IsMap
  <2>7. ServiceOK(room) /\ HoldsRooms(room, room, DOMAIN ended)
    BY UnchangedBackends, SameRooms
  <2>8. /\ Ticked(b, ends).room = room /\ Ticked(b, ends).live = lv
        /\ Ticked(b, ends).board = board /\ Ticked(b, ends).ended = ended
    BY <2>1, SMTT(40)
  <2>9. Created \subseteq DOMAIN lv \cup DOMAIN ended
    BY <2>5 DEF Created
  <2> QED
    BY <2>2, <2>5, <2>6, <2>7, <2>8, <2>9 DEF BackendsOK, BoardOK
<1> QED
  BY <1>1, <1>2

\* Assigning to the fields of a reply.
LEMMA ReplyEnds ==
    ASSUME NEW ok, NEW fin
    PROVE  [Reply(ok) EXCEPT !.ends = fin] =
             [ok |-> ok, ends |-> fin, battle |-> NoBattle, players |-> {}, scores |-> {}]
  BY DEF Reply

(* The reply to a finished battle, field by field. *)
LEMMA ReplyScores ==
    ASSUME NEW ok, NEW fin, NEW scores
    PROVE  [Reply(ok) EXCEPT !.ends = fin, !.scores = scores] =
             [ok |-> ok, ends |-> fin, battle |-> NoBattle, players |-> {},
              scores |-> scores]
<1>1. [Reply(ok) EXCEPT !.ends = fin, !.scores = scores] =
        [[Reply(ok) EXCEPT !.ends = fin] EXCEPT !.scores = scores]
  OBVIOUS
<1>2. [[ok |-> ok, ends |-> fin, battle |-> NoBattle, players |-> {}, scores |-> {}]
          EXCEPT !.scores = scores] =
       [ok |-> ok, ends |-> fin, battle |-> NoBattle, players |-> {}, scores |-> scores]
  OBVIOUS
<1> QED
  BY <1>1, <1>2, ReplyEnds, ZenonT(30)

\* The replies of the Battle and the Leaderboard backend.
LEMMA PlainReply ==
    ASSUME NEW ok \in BOOLEAN
    PROVE  ReplyOK(Reply(ok)) /\ ~Reply(ok).ends /\ (Reply(ok).ok <=> ok)
  BY ZenonT(30) DEF Reply, ReplyOK, NoBattle

(* The reply that names a battle is well formed. *)
LEMMA BattleReply ==
    ASSUME NEW b \in Nat
    PROVE  LET o == [Reply(TRUE) EXCEPT !.battle = b] IN ReplyOK(o) /\ o.battle = b
  BY DEF Reply, ReplyOK

(* The reply that ends a battle with its scores is well formed. *)
LEMMA ScoresReply ==
    ASSUME NEW fin \in BOOLEAN, NEW scores \in SUBSET User
    PROVE  LET o == [Reply(TRUE) EXCEPT !.ends = fin, !.scores = scores]
           IN  ReplyOK(o) /\ (o.ends <=> fin) /\ o.scores = scores
<1> DEFINE o == [Reply(TRUE) EXCEPT !.ends = fin, !.scores = scores]
<1>1. o = [ok |-> TRUE, ends |-> fin, battle |-> NoBattle, players |-> {},
           scores |-> scores]
  BY ReplyScores, ZenonT(30)
<1> HIDE DEF o
<1>2. ReplyOK(o) /\ (o.ends <=> fin) /\ o.scores = scores
  BY <1>1, ZenonT(30) DEF ReplyOK, NoBattle
<1> QED
  BY <1>2 DEF o

(* The reply that ends a battle without scores is well formed. *)
LEMMA EndsReply == ReplyOK([Reply(TRUE) EXCEPT !.ends = TRUE])
  BY DEF Reply, ReplyOK, NoBattle

\* The requests to the Battle backend.
LEMMA BattleRequests ==
    ASSUME IInv, NEW q \in Request, RequestOK(q), NEW due \in BOOLEAN, NEW ends \in BOOLEAN,
           q.op \in {"battle_create", "battle_input", "battle_state", "battle_finish"}
    PROVE  LET o == Outcome(q, due, ends) IN
           /\ BackendsOK(o.be) /\ ReplyOK(o.reply)
           /\ q.op = "battle_create" /\ o.reply.ok => o.reply.battle \in DOMAIN o.be.live
           /\ q.op = "battle_finish" => q.battle \in DOMAIN o.be.ended
           /\ q.op = "battle_input" /\ o.reply.ends => q.battle \in DOMAIN o.be.ended
<1> DEFINE o == Outcome(q, due, ends)
           b == q.battle
<1>0. BackendsOK(Backends) /\ ServiceOK(room)
  BY UnchangedBackends
<1>9. /\ b \in DOMAIN live => live[b].players \in SUBSET User
      /\ b \in Nat
      /\ IsMap(live, Nat, [players : SUBSET User, frame : Nat])
  BY RequestFields, ZenonT(30) DEF IInv, TypeOK, IsMap
<1>1. CASE q.op = "battle_create"
  <2>1. o = BattleCreate(q)
    BY <1>1 DEF Outcome
  <2>2. CASE b \in DOMAIN live \/ Full
    <3>2. ReplyOK(Reply(FALSE)) /\ ~Reply(FALSE).ends /\ ~Reply(FALSE).ok
      BY PlainReply, ZenonT(30)
    <3>0. BattleCreate(q) = [reply |-> Reply(FALSE), be |-> Backends]
      BY <2>2, ZenonT(30) DEF BattleCreate
    <3>1. o.reply = Reply(FALSE) /\ o.be = Backends
      BY <2>1, <3>0
    <3> HIDE DEF o
    <3> QED
      BY <1>0, <1>1, <3>1, <3>2, ZenonT(30) DEF o
  <2>3. CASE ~(b \in DOMAIN live \/ Full)
    <3> DEFINE lv == [x \in DOMAIN live \cup {b} |->
                         IF x = b THEN [players |-> q.players, frame |-> 0] ELSE live[x]]
    <3>1. o.reply = [Reply(TRUE) EXCEPT !.battle = b]
          /\ o.be = [room |-> room, live |-> lv, board |-> board, ended |-> ended]
      BY <2>1, <2>3 DEF BattleCreate, Backends
    <3>2. /\ DOMAIN lv = DOMAIN live \cup {b} /\ lv = [x \in DOMAIN lv |-> lv[x]]
          /\ \A x \in DOMAIN lv :
                lv[x] = IF x = b THEN [players |-> q.players, frame |-> 0] ELSE live[x]
      BY ZenonT(30)
    <3> HIDE DEF lv, o
    <3>3. [players |-> q.players, frame |-> 0] \in [players : SUBSET User, frame : Nat]
      BY <1>1, RequestFields, ZenonT(30)
    <3>4. IsMap(lv, Nat, [players : SUBSET User, frame : Nat])
      BY <1>9, <3>2, <3>3, ZenonT(30) DEF IsMap
    <3>5. Created \subseteq DOMAIN lv \cup DOMAIN ended
      BY <3>2 DEF Created
    <3>6. o.be.room = room /\ o.be.live = lv /\ o.be.board = board /\ o.be.ended = ended
      BY <3>1
    <3>7. /\ Backends.room = room /\ Backends.live = live /\ Backends.board = board
          /\ Backends.ended = ended
      BY DEF Backends
    <3>8. BackendsOK(o.be)
      BY <1>0, <3>4, <3>5, <3>6, <3>7, ZenonT(30) DEF BackendsOK
    <3>9. ReplyOK(o.reply) /\ o.reply.battle = b
      BY <1>9, <3>1, BattleReply, ZenonT(30)
    <3> QED
      BY <1>1, <3>2, <3>6, <3>8, <3>9, ZenonT(30) DEF o
  <2> QED
    BY <2>2, <2>3, ZenonT(30)
<1>2. CASE q.op = "battle_input"
  <2>1. o = BattleInput(q, ends)
    BY <1>2 DEF Outcome
  <2>2. CASE ~(b \in DOMAIN live /\ q.user \in live[b].players)
    <3>2. ReplyOK(Reply(FALSE)) /\ ~Reply(FALSE).ends /\ ~Reply(FALSE).ok
      BY PlainReply, ZenonT(30)
    <3>1. o.reply = Reply(FALSE) /\ o.be = Backends
      <4>1. o = [reply |-> Reply(FALSE), be |-> Backends]
        BY <2>1, <2>2, ZenonT(30) DEF BattleInput
      <4> HIDE DEF o
      <4> QED
        BY <4>1
    <3> HIDE DEF o
    <3> QED
      BY <1>0, <1>2, <3>1, <3>2, ZenonT(30) DEF o
  <2>3. CASE b \in DOMAIN live /\ q.user \in live[b].players
    <3> DEFINE fin == b \notin DOMAIN Ticked(b, ends).live
               scores == IF fin THEN live[b].players ELSE {}
    <3>1. o.reply = [Reply(TRUE) EXCEPT !.ends = fin, !.scores = scores]
          /\ o.be = Ticked(b, ends)
      BY <2>1, <2>3 DEF BattleInput
    <3>2. fin \in BOOLEAN /\ scores \in SUBSET User
      BY <1>9, <2>3, ZenonT(30)
    <3>3. BackendsOK(Ticked(b, ends)) /\ (fin => b \in DOMAIN Ticked(b, ends).ended)
      BY <2>3, TickedOK, ZenonT(30)
    <3> HIDE DEF o, fin, scores
    <3>4. ReplyOK(o.reply) /\ (o.reply.ends <=> fin)
      <4> DEFINE reply == [Reply(TRUE) EXCEPT !.ends = fin, !.scores = scores]
      <4>1. ReplyOK(reply) /\ (reply.ends <=> fin)
        BY <3>2, ScoresReply, ZenonT(30)
      <4>2. o.reply = reply
        BY <3>1
      <4> HIDE DEF reply
      <4> QED
        BY <4>1, <4>2, ZenonT(30)
    <3> QED
      BY <1>2, <3>1, <3>3, <3>4 DEF o
  <2> QED
    BY <2>2, <2>3, ZenonT(30)
<1>3. CASE q.op = "battle_state"
  <2>1. o = BattleState(q, due, ends)
    BY <1>3 DEF Outcome
  <2>2. o.reply = Reply(b \in DOMAIN live)
    BY <2>1, SMTT(40) DEF BattleState
  <2>3. BackendsOK(o.be)
    <3>1. CASE b \in DOMAIN live /\ due
      BY <2>1, <3>1, TickedOK, SMTT(40) DEF BattleState
    <3>2. CASE ~(b \in DOMAIN live /\ due)
      BY <1>0, <2>1, <3>2, SMTT(40) DEF BattleState
    <3> QED
      BY <3>1, <3>2, ZenonT(30)
  <2>4. ReplyOK(Reply(b \in DOMAIN live))
    BY SMTT(40) DEF Reply, ReplyOK, NoBattle
  <2> HIDE DEF o
  <2>5. ReplyOK(o.reply)
    BY <2>2, <2>4, ZenonT(30)
  <2> QED
    BY <1>3, <2>3, <2>5, ZenonT(30) DEF o
<1>4. CASE q.op = "battle_finish"
  <2>1. o = BattleFinish(q)
    BY <1>4 DEF Outcome
  <2>2. CASE b \in DOMAIN live
    <3>1. o.reply = [Reply(TRUE) EXCEPT !.ends = TRUE, !.scores = live[b].players]
          /\ o.be = Released(b)
      BY <2>1, <2>2 DEF BattleFinish
    <3>2. BackendsOK(Released(b)) /\ b \in DOMAIN Released(b).ended
      BY <2>2, ReleasedOK
    <3> HIDE DEF o
    <3>3. ReplyOK(o.reply)
      <4>1. live[b].players \in SUBSET User
        BY <1>9, <2>2
      <4> QED
        BY <3>1, <4>1, ScoresReply, ZenonT(30)
    <3> QED
      BY <1>4, <3>1, <3>2, <3>3 DEF o
  <2>3. CASE b \notin DOMAIN live
    <3>1. o.reply = [Reply(TRUE) EXCEPT !.ends = TRUE] /\ o.be = Backends
      BY <2>1, <2>3 DEF BattleFinish
    <3>2. b \in DOMAIN Backends.ended
      BY <1>4, <2>3, ZenonT(30) DEF RequestOK, Fits, Created, Backends
    <3> HIDE DEF o
    <3>3. ReplyOK(o.reply)
      BY <3>1, EndsReply, ZenonT(30)
    <3> QED
      BY <1>0, <1>4, <3>1, <3>2, <3>3 DEF o
  <2> QED
    BY <2>2, <2>3, ZenonT(30)
<1> QED
  BY <1>1, <1>2, <1>3, <1>4, ZenonT(30)

\* The Leaderboard backend applies a key it has not seen.
LEMMA SubmitOK ==
    ASSUME IInv, NEW q \in Request, RequestOK(q), q.op = "leaderboard_submit"
    PROVE  BackendsOK(LeaderboardSubmit(q).be) /\ LeaderboardSubmit(q).reply = Reply(TRUE)
<1> DEFINE k == <<q.battle, q.user>>
           bd == [keys |-> board.keys \cup {k}, applied |-> [board.applied EXCEPT ![k] = @ + 1]]
<1>0. BackendsOK(Backends)
  BY UnchangedBackends
<1>1. LeaderboardSubmit(q).reply = Reply(TRUE)
  BY DEF LeaderboardSubmit
<1>2. CASE k \in board.keys
  BY <1>0, <1>1, <1>2 DEF LeaderboardSubmit
<1>3. CASE k \notin board.keys
  <2>0. /\ board \in [keys : SUBSET (Nat \X User), applied : [Key -> Nat]] /\ BoardOK
    BY ZenonT(30) DEF IInv, TypeOK
  <2>1. LeaderboardSubmit(q).be = [room |-> room, live |-> live, board |-> bd, ended |-> ended]
    <3>1. LeaderboardSubmit(q).be =
            [Backends EXCEPT !.board.keys = @ \cup {k}, !.board.applied[k] = @ + 1]
      BY <1>3 DEF LeaderboardSubmit
    <3>2. [Backends EXCEPT !.board.keys = @ \cup {k}, !.board.applied[k] = @ + 1] =
            [[Backends EXCEPT !.board.keys = @ \cup {k}] EXCEPT !.board.applied[k] = @ + 1]
      BY ZenonT(30)
    <3> DEFINE mid == [keys |-> board.keys \cup {k}, applied |-> board.applied]
    <3>3. [Backends EXCEPT !.board.keys = @ \cup {k}] =
            [room |-> room, live |-> live, board |-> mid, ended |-> ended]
      <4> HIDE DEF k
      <4>2. board = [keys |-> board.keys, applied |-> board.applied]
        BY <2>0
      <4>1. [board EXCEPT !.keys = @ \cup {k}] = mid
        BY <4>2
      <4> HIDE DEF mid
      <4> QED
        BY <4>1 DEF Backends
    <3>4. [mid EXCEPT !.applied[k] = @ + 1] = bd
      OBVIOUS
    <3> HIDE DEF mid, bd
    <3>5. [[room |-> room, live |-> live, board |-> mid, ended |-> ended]
              EXCEPT !.board.applied[k] = @ + 1] =
            [room |-> room, live |-> live, board |-> bd, ended |-> ended]
      BY <3>4
    <3> QED
      BY <3>1, <3>2, <3>3, <3>5, ZenonT(30)
  <2>2. k \in Nat \X User /\ q.battle \in DOMAIN ended
    BY RequestFields, ZenonT(30) DEF RequestOK, Fits
  <2>3. /\ bd.keys = board.keys \cup {k} /\ bd.applied = [board.applied EXCEPT ![k] = @ + 1]
    BY ZenonT(30)
  <2>4. bd.applied \in [Key -> Nat]
    <3> HIDE DEF k
    <3>1. board.applied \in [Key -> Nat]
      BY <2>0
    <3> DEFINE ap == [board.applied EXCEPT ![k] = @ + 1]
    <3>3. /\ DOMAIN ap = Key /\ ap = [x \in DOMAIN ap |-> ap[x]]
          /\ \A x \in Key : ap[x] = IF x = k THEN board.applied[x] + 1 ELSE board.applied[x]
      BY <3>1
    <3> HIDE DEF ap
    <3>4. \A x \in Key : ap[x] \in Nat
      BY <3>1, <3>3
    <3>2. ap \in [Key -> Nat]
      BY <3>3, <3>4
    <3> QED
      BY <2>3, <3>2, ZenonT(30) DEF ap
  <2>5. bd \in [keys : SUBSET (Nat \X User), applied : [Key -> Nat]]
    BY <2>0, <2>2, <2>4
  <2>6. ASSUME NEW x \in Key
        PROVE  bd.applied[x] <= 1 /\ (bd.applied[x] > 0 => x \in bd.keys)
    <3>1. board.applied[x] \in Nat /\ board.applied[x] <= 1
          /\ (board.applied[x] > 0 => x \in board.keys)
      BY <2>0 DEF BoardOK
    <3>2. bd.applied[x] = IF x = k THEN board.applied[x] + 1 ELSE board.applied[x]
      BY <2>0
    <3>3. CASE x = k
      BY <1>3, <3>1, <3>2, <3>3
    <3>4. CASE x # k
      BY <3>1, <3>2, <3>4
    <3> QED
      BY <3>3, <3>4
  <2> HIDE DEF bd
  <2>7. \A x \in bd.keys : x[1] \in DOMAIN ended
    BY <2>0, <2>2, <2>3 DEF BoardOK
  <2>8. /\ LeaderboardSubmit(q).be.room = room /\ LeaderboardSubmit(q).be.live = live
        /\ LeaderboardSubmit(q).be.board = bd /\ LeaderboardSubmit(q).be.ended = ended
    BY <2>1
  <2>9. /\ Backends.room = room /\ Backends.live = live /\ Backends.board = board
        /\ Backends.ended = ended
    BY DEF Backends
  <2> QED
    BY <1>0, <1>1, <2>5, <2>6, <2>7, <2>8, <2>9, ZenonT(30) DEF BackendsOK
<1> QED
  BY <1>2, <1>3, ZenonT(30)

\* Every request.
LEMMA Outcomes ==
    ASSUME IInv, NEW q \in Request, RequestOK(q), NEW due \in BOOLEAN, NEW ends \in BOOLEAN
    PROVE  LET o == Outcome(q, due, ends) IN
           /\ BackendsOK(o.be) /\ ReplyOK(o.reply)
           /\ q.op = "battle_create" /\ o.reply.ok => o.reply.battle \in DOMAIN o.be.live
           /\ q.op = "battle_finish" => q.battle \in DOMAIN o.be.ended
           /\ q.op = "battle_input" /\ o.reply.ends => q.battle \in DOMAIN o.be.ended
<1>1. CASE q.op \in {"room_create", "room_join", "room_ready", "room_leave", "room_kick",
                     "room_transfer_owner", "room_start_battle", "room_battle_finished"}
  BY <1>1, RoomRequests
<1>2. CASE q.op \in {"battle_create", "battle_input", "battle_state", "battle_finish"}
  BY <1>2, BattleRequests
<1>3. CASE q.op = "leaderboard_submit"
  <2>1. Outcome(q, due, ends) = LeaderboardSubmit(q)
    BY <1>3 DEF Outcome
  <2>2. ReplyOK(Reply(TRUE))
    BY DEF Reply, ReplyOK, NoBattle
  <2> QED
    BY <1>3, <2>1, <2>2, SubmitOK, ZenonT(30)
<1> QED
  BY <1>1, <1>2, <1>3, RequestFields

-----------------------------------------------------------------------------
(* A step, part by part: the backends, the gateway worker, the inputs and  *)
(* the network.                                                            *)

BackStep ==
    /\ ServiceOK(room') /\ HoldsRooms(room, room', DOMAIN ended)
    /\ IsMap(live', Nat, [players : SUBSET User, frame : Nat])
    /\ IsMap(ended', Nat, SUBSET User)
    /\ board' \in [keys : SUBSET (Nat \X User), applied : [Key -> Nat]] /\ BoardOK'
    /\ DOMAIN ended \subseteq DOMAIN ended' /\ Created \subseteq Created'

GateStep ==
    /\ session_room' \in [User -> Room \cup {NoRoom}]
    /\ IsMap(room_to_battle', Room, Nat)
    /\ completed' \subseteq Nat /\ settled' \subseteq Nat \X User
    /\ call' \in {Idle} \cup Call
    /\ call' # Idle => CallFits(call', Created', DOMAIN ended')
    /\ \A r \in DOMAIN room_to_battle' : room_to_battle'[r] \in Created'
    /\ completed' \subseteq DOMAIN ended'

InputStep ==
    /\ work' \in [Worker -> {NoTask} \cup Task]
    /\ completions' \in Seq(Completion)
    /\ \A w \in Worker : work'[w] # NoTask => work'[w].q.op = "battle_input"
    /\ \A i \in 1..Len(completions') :
          completions'[i].ends => completions'[i].battle \in DOMAIN ended'

NetStep ==
    /\ late' \subseteq [q : Request, id : Nat]
    /\ lost' \in Nat /\ churned' \in Nat
    /\ \A l \in late' : Fits(l.q, Created', DOMAIN ended')

(* The four parts of a step make up the invariant after it. *)
LEMMA Together ==
    ASSUME BackStep, GateStep, InputStep, NetStep
    PROVE  IInv'
<1>1. TypeOK'
  BY DEF BackStep, GateStep, InputStep, NetStep, TypeOK, ServiceOK
<1>2. OwnedByAMember' /\ StatusTracksBattle'
  BY DEF BackStep, ServiceOK, RoomOK, OwnedByAMember, StatusTracksBattle
<1>3. CallsOK'
  BY DEF GateStep, InputStep, NetStep, CallsOK, RequestOK
<1>4. GatewayOK'
  BY DEF GateStep, InputStep, GatewayOK
<1> QED
  BY <1>1, <1>2, <1>3, <1>4 DEF BackStep, IInv

\* What a request is about stays what it was.
LEMMA StillFits ==
    ASSUME NEW q, NEW created, NEW over, NEW created2, NEW over2, Fits(q, created, over),
           created \subseteq created2, over \subseteq over2
    PROVE  Fits(q, created2, over2)
  BY DEF Fits

(* A step to well-formed backends is a step of the backends. *)
LEMMA Becomes ==
    ASSUME IInv, NEW be, BackendsOK(be), Become(be)
    PROVE  BackStep
  BY DEF BackendsOK, Become, BackStep, BoardOK, Created

(* A step that leaves the backends alone is a step of the backends. *)
LEMMA SameBackends ==
    ASSUME IInv, UNCHANGED backends
    PROVE  BackStep
<1>1. ServiceOK(room) /\ HoldsRooms(room, room, DOMAIN ended)
  BY UnchangedBackends, SameRooms
<1>2. /\ IsMap(live, Nat, [players : SUBSET User, frame : Nat])
      /\ IsMap(ended, Nat, SUBSET User)
      /\ board \in [keys : SUBSET (Nat \X User), applied : [Key -> Nat]] /\ BoardOK
  BY DEF IInv, TypeOK
<1>3. room' = room /\ live' = live /\ board' = board /\ ended' = ended
  BY DEF backends
<1> QED
  BY <1>1, <1>2, <1>3 DEF BackStep, BoardOK, Created

(* What the gateway knows stays true while the backends move on. *)
LEMMA SameGateway ==
    ASSUME IInv, BackStep, UNCHANGED gateway
    PROVE  GateStep
<1>1. /\ session_room \in [User -> Room \cup {NoRoom}]
      /\ IsMap(room_to_battle, Room, Nat)
      /\ completed \subseteq Nat /\ settled \subseteq Nat \X User
      /\ call \in {Idle} \cup Call
      /\ call # Idle => CallFits(call, Created, DOMAIN ended)
      /\ \A r \in DOMAIN room_to_battle : room_to_battle[r] \in Created
      /\ completed \subseteq DOMAIN ended
  BY DEF IInv, TypeOK, CallsOK, GatewayOK
<1>2. /\ session_room' = session_room /\ room_to_battle' = room_to_battle
      /\ completed' = completed /\ settled' = settled /\ call' = call
  BY DEF gateway
<1>3. DOMAIN ended \subseteq DOMAIN ended' /\ Created \subseteq Created'
  BY DEF BackStep
<1>4. call # Idle => CallFits(call, Created', DOMAIN ended')
  BY <1>1, <1>3, StillFits DEF CallFits
<1> QED
  BY <1>1, <1>2, <1>3, <1>4 DEF GateStep

(* What the input workers know stays true while the backends move on. *)
LEMMA SameInputs ==
    ASSUME IInv, BackStep, UNCHANGED inputs
    PROVE  InputStep
<1>1. /\ work \in [Worker -> {NoTask} \cup Task]
      /\ completions \in Seq(Completion)
      /\ \A w \in Worker : work[w] # NoTask => work[w].q.op = "battle_input"
      /\ \A i \in 1..Len(completions) :
            completions[i].ends => completions[i].battle \in DOMAIN ended
  BY DEF IInv, TypeOK, CallsOK, GatewayOK
<1>2. work' = work /\ completions' = completions
  BY DEF inputs
<1> QED
  BY <1>1, <1>2 DEF InputStep, BackStep

\* The network loses nothing but requests; a new one fits.
LEMMA MoreLate ==
    ASSUME IInv, BackStep, NEW q \in Request, RequestOK(q),
           late' \subseteq late \cup {[q |-> q, id |-> lost]}, lost' \in Nat, churned' \in Nat
    PROVE  NetStep
<1>1. late \subseteq [q : Request, id : Nat] /\ lost \in Nat /\ \A l \in late : RequestOK(l.q)
  BY DEF IInv, TypeOK, CallsOK
<1>2. [q |-> q, id |-> lost] \in [q : Request, id : Nat]
  BY <1>1
<1>3. \A l \in late' : RequestOK(l.q)
  BY <1>1
<1>4. \A l \in late' : Fits(l.q, Created', DOMAIN ended')
  BY <1>3, StillFits DEF RequestOK, BackStep
<1> QED
  BY <1>1, <1>2, <1>4 DEF NetStep

(* The late requests stay true of the backends when some are delivered. *)
LEMMA FewerLate ==
    ASSUME IInv, BackStep, late' \subseteq late, lost' \in Nat, churned' \in Nat
    PROVE  NetStep
<1>1. late \subseteq [q : Request, id : Nat] /\ \A l \in late : RequestOK(l.q)
  BY DEF IInv, TypeOK, CallsOK
<1>4. \A l \in late' : Fits(l.q, Created', DOMAIN ended')
  BY <1>1, StillFits DEF RequestOK, BackStep
<1> QED
  BY <1>1, <1>4 DEF NetStep

-----------------------------------------------------------------------------
(* The calls the gateway worker starts.                                    *)

CallOf(at, q, r, b, scores) ==
    [at |-> at, q |-> q, try |-> 1, room |-> r, battle |-> b, scores |-> scores]

(* A call without arguments, field by field. *)
LEMMA AskIs ==
    ASSUME NEW at, NEW q
    PROVE  Ask(at, q) = CallOf(at, q, NoRoom, NoBattle, {})
  BY DEF Ask, CallOf

(* A call about a room, field by field. *)
LEMMA AskForRoom ==
    ASSUME NEW at, NEW q, NEW r
    PROVE  [Ask(at, q) EXCEPT !.room = r] = CallOf(at, q, r, NoBattle, {})
  BY DEF Ask, CallOf

(* A call about a battle, field by field. *)
LEMMA AskForBattle ==
    ASSUME NEW at, NEW q, NEW r, NEW b
    PROVE  [Ask(at, q) EXCEPT !.room = r, !.battle = b] = CallOf(at, q, r, b, {})
<1>1. [Ask(at, q) EXCEPT !.room = r, !.battle = b] =
        [[Ask(at, q) EXCEPT !.room = r] EXCEPT !.battle = b]
  OBVIOUS
<1>2. [CallOf(at, q, r, NoBattle, {}) EXCEPT !.battle = b] = CallOf(at, q, r, b, {})
  BY DEF CallOf
<1> QED
  BY <1>1, <1>2, AskForRoom, ZenonT(30)

(* A call that settles a battle, field by field. *)
LEMMA AskForScores ==
    ASSUME NEW at, NEW q, NEW r, NEW b, NEW scores
    PROVE  [Ask(at, q) EXCEPT !.room = r, !.battle = b, !.scores = scores] =
             CallOf(at, q, r, b, scores)
<1>1. [Ask(at, q) EXCEPT !.room = r, !.battle = b, !.scores = scores] =
        [[Ask(at, q) EXCEPT !.room = r, !.battle = b] EXCEPT !.scores = scores]
  OBVIOUS
<1>2. [CallOf(at, q, r, b, {}) EXCEPT !.scores = scores] = CallOf(at, q, r, b, scores)
  BY DEF CallOf
<1> QED
  BY <1>1, <1>2, AskForBattle, ZenonT(30)

\* A call that fits its place.
LEMMA NewCall ==
    ASSUME NEW at \in {"plain", "enter", "leave", "close", "start", "create", "finish",
                       "submit", "free"},
           NEW q \in Request, NEW r \in Room \cup {NoRoom}, NEW b \in Nat,
           NEW scores \in SUBSET User, NEW created, NEW over,
           Fits(q, created, over), q.op \in OpsOf(at),
           at \in {"create", "finish", "submit", "free"} => r \in Room,
           at \in {"submit", "free"} => b \in over
    PROVE  /\ CallOf(at, q, r, b, scores) \in Call
           /\ CallFits(CallOf(at, q, r, b, scores), created, over)
<1> DEFINE c == CallOf(at, q, r, b, scores)
<1>1. c.at = at /\ c.q = q /\ c.room = r /\ c.battle = b
  BY DEF CallOf
<1>2. c \in Call
  BY DEF CallOf, Call
<1> HIDE DEF c
<1>3. CallFits(c, created, over)
  BY <1>1 DEF CallFits
<1> QED
  BY <1>2, <1>3 DEF c

\* The settlement loop asks for a submission, or for the release of the room.
LEMMA SubmitFromOK ==
    ASSUME NEW r \in Room, NEW b \in Nat, NEW scores \in SUBSET User,
           NEW keys \in SUBSET (Nat \X User), NEW created, NEW over, b \in over,
           SubmitFrom(r, b, scores, keys)
    PROVE  /\ settled' \subseteq Nat \X User /\ call' \in Call
           /\ CallFits(call', created, over)
<1> DEFINE todo == {u \in scores : <<b, u>> \notin keys}
<1>1. CASE /\ todo = {} /\ settled' = keys
           /\ call' = [Ask("free", [op |-> "room_battle_finished", room |-> r, battle |-> b])
                          EXCEPT !.room = r, !.battle = b]
  <2> DEFINE q == [op |-> "room_battle_finished", room |-> r, battle |-> b]
  <2>1. q \in Request /\ q.op \in OpsOf("free") /\ Fits(q, created, over)
    BY DEF Request, OpsOf, Fits
  <2> HIDE DEF q
  <2>2. call' = CallOf("free", q, r, b, {})
    BY <1>1, AskForBattle, ZenonT(30) DEF q
  <2> QED
    BY <1>1, <2>1, <2>2, NewCall
<1>2. ASSUME NEW u \in todo, settled' = keys \cup {<<b, u>>},
             call' = [Ask("submit", [op |-> "leaderboard_submit", user |-> u, battle |-> b])
                         EXCEPT !.room = r, !.battle = b, !.scores = todo \ {u}]
      PROVE  /\ settled' \subseteq Nat \X User /\ call' \in Call
             /\ CallFits(call', created, over)
  <2> DEFINE q == [op |-> "leaderboard_submit", user |-> u, battle |-> b]
  <2>1. u \in User /\ todo \ {u} \in SUBSET User /\ settled' \subseteq Nat \X User
    BY <1>2
  <2>2. q \in Request /\ q.op \in OpsOf("submit") /\ Fits(q, created, over)
    BY <2>1 DEF Request, OpsOf, Fits
  <2> HIDE DEF q, todo
  <2>3. call' = CallOf("submit", q, r, b, todo \ {u})
    BY <1>2, AskForScores, ZenonT(30) DEF q
  <2> QED
    BY <2>1, <2>2, <2>3, NewCall
<1> QED
  BY <1>1, <1>2, ZenonT(30) DEF SubmitFrom

(* on_battle_finished_push starts a settlement of a battle that has ended. *)
LEMMA FinishedPushOK ==
    ASSUME IInv, BackStep, NEW r \in Room, NEW b \in Nat, NEW scores \in SUBSET User,
           b \in DOMAIN ended', FinishedPush(r, b, scores)
    PROVE  /\ settled' \subseteq Nat \X User /\ call' \in {Idle} \cup Call
           /\ call' # Idle => CallFits(call', Created', DOMAIN ended')
           /\ completed' \subseteq Nat /\ completed' \subseteq DOMAIN ended'
<1>0. /\ settled \subseteq Nat \X User /\ completed \subseteq Nat
      /\ completed \subseteq DOMAIN ended /\ DOMAIN ended \subseteq DOMAIN ended'
  BY DEF IInv, TypeOK, GatewayOK, BackStep
<1>1. CASE b \in completed
  BY <1>0, <1>1, ZenonT(30) DEF FinishedPush
<1>2. CASE b \notin completed
  <2>1. completed' = completed \cup {b} /\ SubmitFrom(r, b, scores, settled)
    BY <1>2 DEF FinishedPush
  <2>2. /\ settled' \subseteq Nat \X User /\ call' \in Call
        /\ CallFits(call', Created', DOMAIN ended')
    BY <1>0, <2>1, SubmitFromOK, ZenonT(30)
  <2> QED
    BY <1>0, <2>1, <2>2
<1> QED
  BY <1>1, <1>2

\* What the gateway worker does with the result of its call.
LEMMA AfterOK ==
    ASSUME IInv, BackStep, call # Idle, NEW o, ReplyOK(o), After(o),
           call.q.op = "battle_create" /\ o.ok => o.battle \in Created',
           call.q.op = "battle_finish" /\ o.ok => call.q.battle \in DOMAIN ended'
    PROVE  GateStep
<1>0. /\ session_room \in [User -> Room \cup {NoRoom}]
      /\ IsMap(room_to_battle, Room, Nat)
      /\ completed \subseteq Nat /\ settled \subseteq Nat \X User
      /\ call \in Call /\ CallFits(call, Created, DOMAIN ended)
      /\ \A r \in DOMAIN room_to_battle : room_to_battle[r] \in Created
      /\ completed \subseteq DOMAIN ended
  BY DEF IInv, TypeOK, CallsOK, GatewayOK
<1>1. DOMAIN ended \subseteq DOMAIN ended' /\ Created \subseteq Created'
  BY ZenonT(30) DEF BackStep
<1>2. /\ call.q \in Request /\ call.room \in Room \cup {NoRoom} /\ call.battle \in Nat
      /\ call.scores \in SUBSET User
  BY <1>0 DEF Call
<1>3. /\ call.at = "enter" => call.q.op \in {"room_create", "room_join"}
      /\ call.at \in {"leave", "close"} => call.q.op = "room_leave"
      /\ call.at = "start" => call.q.op = "room_start_battle"
      /\ call.at = "create" => call.q.op = "battle_create" /\ call.room \in Room
      /\ call.at = "finish" => call.q.op = "battle_finish" /\ call.room \in Room
      /\ call.at = "submit" => call.q.op = "leaderboard_submit" /\ call.room \in Room
                               /\ call.battle \in DOMAIN ended
  BY <1>0 DEF CallFits, OpsOf
<1>4. /\ call.at \in {"enter", "leave", "close", "start"} =>
            call.q.user \in User /\ call.q.room \in Room
      /\ call.at = "finish" => call.q.battle \in Nat
      /\ call.at = "submit" => call.q.battle \in Nat /\ call.q.user \in User
  BY <1>2, <1>3, RequestFields
<1>5. CASE call.at = "plain" /\ Done
  BY <1>0, <1>1, <1>5 DEF Done, GateStep
<1>6. CASE AfterEnter(o) \/ AfterLeave(o) \/ AfterClose(o)
  <2>1. /\ call' = Idle /\ room_to_battle' = room_to_battle /\ completed' = completed
        /\ settled' = settled
    BY <1>6 DEF AfterEnter, AfterLeave, AfterClose
  <2>2. session_room' \in [User -> Room \cup {NoRoom}]
    BY <1>0, <1>4, <1>6 DEF AfterEnter, AfterLeave, AfterClose
  <2> QED
    BY <1>0, <1>1, <2>1, <2>2 DEF GateStep
<1>7. CASE AfterStart(o)
  <2>0. /\ session_room' = session_room /\ room_to_battle' = room_to_battle
        /\ completed' = completed /\ settled' = settled /\ call.at = "start"
    BY <1>7 DEF AfterStart
  <2>1. CASE ~o.ok
    <3>1. call' = Idle
      BY <1>7, <2>1 DEF AfterStart
    <3> QED
      BY <1>0, <1>1, <2>0, <3>1 DEF GateStep
  <2>2. CASE o.ok
    <3> DEFINE q == [op |-> "battle_create", battle |-> o.battle, players |-> o.players]
    <3>1. q \in Request /\ q.op \in OpsOf("create") /\ Fits(q, Created', DOMAIN ended')
      BY DEF Request, OpsOf, Fits, ReplyOK
    <3> HIDE DEF q
    <3>2. call' = [Ask("create", q) EXCEPT !.room = call.q.room]
      BY <1>7, <2>2 DEF AfterStart, q
    <3>3. call' = CallOf("create", q, call.q.room, NoBattle, {})
      BY <3>2, AskForRoom, ZenonT(30)
    <3>4. call' \in Call /\ CallFits(call', Created', DOMAIN ended')
      BY <1>4, <2>0, <3>1, <3>3, NewCall DEF NoBattle
    <3> QED
      BY <1>0, <1>1, <2>0, <3>4 DEF GateStep
  <2> QED
    BY <2>1, <2>2
<1>8. CASE AfterCreate(o)
  <2>0. /\ session_room' = session_room /\ call' = Idle
        /\ completed' = completed /\ settled' = settled /\ call.at = "create"
    BY <1>8 DEF AfterCreate
  <2>1. CASE ~o.ok
    <3>1. room_to_battle' = room_to_battle
      BY <1>8, <2>1 DEF AfterCreate
    <3> QED
      BY <1>0, <1>1, <2>0, <3>1 DEF GateStep
  <2>2. CASE o.ok
    <3> DEFINE new == [x \in DOMAIN room_to_battle \cup {call.room} |->
                         IF x = call.room THEN o.battle ELSE room_to_battle[x]]
    <3>1. room_to_battle' = new
      BY <1>8, <2>2 DEF AfterCreate
    <3>2. /\ DOMAIN new = DOMAIN room_to_battle \cup {call.room}
          /\ new = [x \in DOMAIN new |-> new[x]]
          /\ \A x \in DOMAIN new : new[x] = IF x = call.room THEN o.battle
                                            ELSE room_to_battle[x]
      OBVIOUS
    <3> HIDE DEF new
    <3>3. call.room \in Room /\ o.battle \in Nat /\ o.battle \in Created'
      BY <1>3, <2>0, <2>2 DEF ReplyOK
    <3>4. IsMap(new, Room, Nat)
      BY <1>0, <3>2, <3>3 DEF IsMap
    <3>5. \A r \in DOMAIN new : new[r] \in Created'
      BY <1>0, <1>1, <3>2, <3>3
    <3> QED
      BY <1>0, <1>1, <2>0, <3>1, <3>4, <3>5 DEF GateStep
  <2> QED
    BY <2>1, <2>2
<1>9. CASE AfterFinish(o)
  <2>0. /\ session_room' = session_room /\ room_to_battle' = room_to_battle
        /\ call.at = "finish"
    BY <1>9 DEF AfterFinish
  <2>1. CASE ~o.ok
    <3>1. call' = Idle /\ completed' = completed /\ settled' = settled
      BY <1>9, <2>1 DEF AfterFinish
    <3> QED
      BY <1>0, <1>1, <2>0, <3>1 DEF GateStep
  <2>2. CASE o.ok
    <3>1. FinishedPush(call.room, call.q.battle, o.scores)
      BY <1>9, <2>2 DEF AfterFinish
    <3>2. /\ call.room \in Room /\ call.q.battle \in Nat /\ o.scores \in SUBSET User
          /\ call.q.battle \in DOMAIN ended'
      BY <1>3, <1>4, <2>0, <2>2 DEF ReplyOK
    <3>3. /\ settled' \subseteq Nat \X User /\ call' \in {Idle} \cup Call
          /\ call' # Idle => CallFits(call', Created', DOMAIN ended')
          /\ completed' \subseteq Nat /\ completed' \subseteq DOMAIN ended'
      BY <3>1, <3>2, FinishedPushOK
    <3> QED
      BY <1>0, <1>1, <2>0, <3>3 DEF GateStep
  <2> QED
    BY <2>1, <2>2
<1>10. CASE AfterSubmit(o)
  <2> DEFINE keys == IF o.ok THEN settled ELSE settled \ {<<call.battle, call.q.user>>}
  <2>0. /\ session_room' = session_room /\ room_to_battle' = room_to_battle
        /\ completed' = completed /\ call.at = "submit"
        /\ SubmitFrom(call.room, call.battle, call.scores, keys)
    BY <1>10 DEF AfterSubmit
  <2>1. keys \in SUBSET (Nat \X User)
    BY <1>0
  <2> HIDE DEF keys
  <2>2. call.room \in Room /\ call.battle \in DOMAIN ended'
    BY <1>1, <1>3, <2>0
  <2>3. /\ settled' \subseteq Nat \X User /\ call' \in Call
        /\ CallFits(call', Created', DOMAIN ended')
    BY <1>2, <2>0, <2>1, <2>2, SubmitFromOK
  <2> QED
    BY <1>0, <1>1, <2>0, <2>3 DEF GateStep
<1>11. CASE AfterFree(o)
  <2> DEFINE left == {y \in DOMAIN room_to_battle :
                         ~(y = call.room /\ room_to_battle[y] = call.battle)}
             new == [x \in left |-> room_to_battle[x]]
  <2>0. /\ session_room' = session_room /\ call' = Idle /\ room_to_battle' = new
        /\ completed' = completed /\ settled' = settled
    BY <1>11 DEF AfterFree
  <2>1. /\ DOMAIN new = left /\ new = [x \in DOMAIN new |-> new[x]]
        /\ \A x \in DOMAIN new : x \in DOMAIN room_to_battle /\ new[x] = room_to_battle[x]
    OBVIOUS
  <2> HIDE DEF new
  <2>2. IsMap(new, Room, Nat) /\ \A r \in DOMAIN new : new[r] \in Created'
    BY <1>0, <1>1, <2>1 DEF IsMap
  <2> QED
    BY <1>0, <1>1, <2>0, <2>2 DEF GateStep
<1> QED
  BY <1>5, <1>6, <1>7, <1>8, <1>9, <1>10, <1>11, ZenonT(30) DEF After

-----------------------------------------------------------------------------
(* The steps.                                                              *)

\* A command of a client starts a call.
LEMMA Issued ==
    ASSUME IInv, NEW at \in {"plain", "enter", "leave", "close", "start"},
           NEW q \in Request, q.op \in OpsOf(at), Issue(Ask(at, q)),
           UNCHANGED <<late, lost>>, churned' \in Nat
    PROVE  IInv' /\ BackStep
<1>1. /\ UNCHANGED backends /\ UNCHANGED inputs
      /\ session_room' = session_room /\ room_to_battle' = room_to_battle
      /\ completed' = completed /\ settled' = settled
  BY DEF Issue
<1>2. BackStep
  BY <1>1, SameBackends
<1>3. call' = CallOf(at, q, NoRoom, NoBattle, {})
  BY AskIs DEF Issue
<1>4. q.op \notin {"leaderboard_submit", "room_battle_finished", "battle_finish"}
  BY DEF OpsOf
<1>5. Fits(q, Created', DOMAIN ended')
  BY <1>4 DEF Fits
<1>6. call' \in Call /\ CallFits(call', Created', DOMAIN ended')
  BY <1>3, <1>5, NewCall DEF NoBattle
<1>7. GateStep
  BY <1>1, <1>2, <1>6, ZenonT(30) DEF GateStep, BackStep, IInv, TypeOK, GatewayOK
<1>8. InputStep
  BY <1>1, <1>2, SameInputs
<1>9. NetStep
  BY <1>2, FewerLate DEF IInv, TypeOK
<1> QED
  BY <1>2, <1>7, <1>8, <1>9, Together

(* room_create and room_join preserve the invariant. *)
LEMMA EnterStep ==
    ASSUME IInv, NEW u \in User, NEW r \in Room,
           CreateRoom(u, r) \/ JoinRoom(u, r)
    PROVE  IInv' /\ BackStep
<1>0. /\ churned \in Nat
  BY FlowAssumption DEF IInv, TypeOK, Battle
<1>1. CASE CreateRoom(u, r)
  <2> DEFINE q == [op |-> "room_create", user |-> u, room |-> r]
  <2>1. q \in Request /\ q.op \in OpsOf("enter")
    BY DEF Request, OpsOf
  <2>2. Issue(Ask("enter", q)) /\ UNCHANGED <<late, lost>> /\ churned' \in Nat
    BY <1>0, <1>1 DEF CreateRoom, Command, network
  <2> QED
    BY <2>1, <2>2, Issued
<1>2. CASE JoinRoom(u, r)
  <2> DEFINE q == [op |-> "room_join", user |-> u, room |-> r]
  <2>1. q \in Request /\ q.op \in OpsOf("enter")
    BY DEF Request, OpsOf
  <2>2. Issue(Ask("enter", q)) /\ UNCHANGED <<late, lost>> /\ churned' \in Nat
    BY <1>0, <1>2 DEF JoinRoom, Command, network
  <2> QED
    BY <2>1, <2>2, Issued
<1> QED
  BY <1>1, <1>2

(* room_ready preserves the invariant. *)
LEMMA ReadyStep ==
    ASSUME IInv, NEW u \in User, NEW ready \in BOOLEAN,
           Ready(u, ready)
    PROVE  IInv' /\ BackStep
<1>0. /\ session_room[u] # NoRoom => session_room[u] \in Room
      /\ churned \in Nat
  BY FlowAssumption DEF IInv, TypeOK, Battle
<1> DEFINE s == session_room[u]
<1>1. CASE Ready(u, ready)
  <2> DEFINE q == [op |-> "room_ready", user |-> u, room |-> s, ready |-> ready]
  <2>1. s \in Room
    BY <1>0, <1>1 DEF Ready
  <2>2. q \in Request /\ q.op \in OpsOf("plain")
    BY <2>1 DEF Request, OpsOf
  <2>3. Issue(Ask("plain", q)) /\ UNCHANGED <<late, lost>> /\ churned' \in Nat
    BY <1>0, <1>1 DEF Ready, Command, network
  <2> QED
    BY <2>2, <2>3, Issued
<1> QED
  BY <1>1

(* room_kick and room_transfer_owner preserve the invariant. *)
LEMMA OwnerStep ==
    ASSUME IInv, NEW u \in User, NEW target \in User,
           Kick(u, target) \/ TransferOwner(u, target)
    PROVE  IInv' /\ BackStep
<1>0. /\ session_room[u] # NoRoom => session_room[u] \in Room
      /\ churned \in Nat
  BY FlowAssumption DEF IInv, TypeOK, Battle
<1> DEFINE s == session_room[u]
<1>1. CASE Kick(u, target)
  <2> DEFINE q == [op |-> "room_kick", user |-> u, room |-> s, target |-> target]
  <2>1. s \in Room
    BY <1>0, <1>1 DEF Kick
  <2>2. q \in Request /\ q.op \in OpsOf("plain")
    BY <2>1 DEF Request, OpsOf
  <2>3. Issue(Ask("plain", q)) /\ UNCHANGED <<late, lost>> /\ churned' \in Nat
    BY <1>0, <1>1 DEF Kick, Churn
  <2> QED
    BY <2>2, <2>3, Issued
<1>2. CASE TransferOwner(u, target)
  <2> DEFINE q == [op |-> "room_transfer_owner", user |-> u, room |-> s, target |-> target]
  <2>1. s \in Room
    BY <1>0, <1>2 DEF TransferOwner
  <2>2. q \in Request /\ q.op \in OpsOf("plain")
    BY <2>1 DEF Request, OpsOf
  <2>3. Issue(Ask("plain", q)) /\ UNCHANGED <<late, lost>> /\ churned' \in Nat
    BY <1>0, <1>2 DEF TransferOwner, Churn
  <2> QED
    BY <2>2, <2>3, Issued
<1> QED
  BY <1>1, <1>2

(* room_leave, a closed session and room_start_battle preserve the invariant. *)
LEMMA UserStep ==
    ASSUME IInv, NEW u \in User,
           LeaveRoom(u) \/ SessionClosed(u) \/ StartBattle(u)
    PROVE  IInv' /\ BackStep
<1>0. /\ session_room[u] # NoRoom => session_room[u] \in Room
      /\ churned \in Nat
  BY FlowAssumption DEF IInv, TypeOK, Battle
<1> DEFINE s == session_room[u]
<1>1. CASE LeaveRoom(u)
  <2> DEFINE q == [op |-> "room_leave", user |-> u, room |-> s]
  <2>1. s \in Room
    BY <1>0, <1>1 DEF LeaveRoom
  <2>2. q \in Request /\ q.op \in OpsOf("leave")
    BY <2>1 DEF Request, OpsOf
  <2>3. Issue(Ask("leave", q)) /\ UNCHANGED <<late, lost>> /\ churned' \in Nat
    BY <1>0, <1>1 DEF LeaveRoom, Churn
  <2> QED
    BY <2>2, <2>3, Issued
<1>2. CASE SessionClosed(u)
  <2> DEFINE q == [op |-> "room_leave", user |-> u, room |-> s]
  <2>1. s \in Room
    BY <1>0, <1>2 DEF SessionClosed
  <2>2. q \in Request /\ q.op \in OpsOf("close")
    BY <2>1 DEF Request, OpsOf
  <2>3. Issue(Ask("close", q)) /\ UNCHANGED <<late, lost>> /\ churned' \in Nat
    BY <1>0, <1>2 DEF SessionClosed, Churn
  <2> QED
    BY <2>2, <2>3, Issued
<1>3. CASE StartBattle(u)
  <2> DEFINE q == [op |-> "room_start_battle", user |-> u, room |-> s]
  <2>1. s \in Room
    BY <1>0, <1>3 DEF StartBattle
  <2>2. q \in Request /\ q.op \in OpsOf("start")
    BY <2>1 DEF Request, OpsOf
  <2>3. Issue(Ask("start", q)) /\ UNCHANGED <<late, lost>> /\ churned' \in Nat
    BY <1>0, <1>3 DEF StartBattle, Command, network
  <2> QED
    BY <2>2, <2>3, Issued
<1> QED
  BY <1>1, <1>2, <1>3

(* A battle query preserves the invariant. *)
LEMMA QueryStep ==
    ASSUME IInv, NEW b \in Battle,
           QueryBattle(b)
    PROVE  IInv' /\ BackStep
<1>0. /\ churned \in Nat
      /\ b \in Nat
  BY FlowAssumption DEF IInv, TypeOK, Battle
<1>1. CASE QueryBattle(b)
  <2> DEFINE q == [op |-> "battle_state", battle |-> b]
  <2>1. q \in Request /\ q.op \in OpsOf("plain")
    BY <1>0 DEF Request, OpsOf
  <2>2. Issue(Ask("plain", q)) /\ UNCHANGED <<late, lost>> /\ churned' \in Nat
    BY <1>0, <1>1 DEF QueryBattle, Churn
  <2> QED
    BY <2>1, <2>2, Issued
<1> QED
  BY <1>1

(* The finish request of a player preserves the invariant. *)
LEMMA FinishBattleStep ==
    ASSUME IInv, NEW u \in User, FinishBattle(u)
    PROVE  IInv' /\ BackStep
<1> DEFINE s == session_room[u]
           q == [op |-> "battle_finish", battle |-> room_to_battle[s]]
<1>0. /\ s \in DOMAIN room_to_battle /\ Command([Ask("finish", q) EXCEPT !.room = s])
  BY DEF FinishBattle
<1>1. s \in Room /\ room_to_battle[s] \in Nat /\ room_to_battle[s] \in Created
  BY <1>0 DEF IInv, TypeOK, IsMap, GatewayOK
<1>2. /\ UNCHANGED backends /\ UNCHANGED inputs /\ UNCHANGED network
      /\ session_room' = session_room /\ room_to_battle' = room_to_battle
      /\ completed' = completed /\ settled' = settled
      /\ call' = [Ask("finish", q) EXCEPT !.room = s]
  BY <1>0 DEF Command, Issue
<1>3. BackStep
  BY <1>2, SameBackends
<1>4. q \in Request /\ q.op \in OpsOf("finish") /\ Fits(q, Created', DOMAIN ended')
  BY <1>1, <1>3 DEF Request, OpsOf, Fits, BackStep
<1> HIDE DEF q, s
<1>5. call' = CallOf("finish", q, s, NoBattle, {})
  BY <1>2, AskForRoom, ZenonT(30)
<1>6. call' \in Call /\ CallFits(call', Created', DOMAIN ended')
  BY <1>1, <1>4, <1>5, NewCall DEF NoBattle
<1>7. GateStep
  BY <1>2, <1>3, <1>6 DEF GateStep, BackStep, IInv, TypeOK, GatewayOK
<1>8. InputStep
  BY <1>2, <1>3, SameInputs
<1>9. NetStep
  BY <1>2, <1>3, FewerLate DEF IInv, TypeOK, network
<1> QED
  BY <1>3, <1>7, <1>8, <1>9, Together

(* The answer to the call in flight preserves the invariant. *)
LEMMA AnsweredStep ==
    ASSUME IInv, Answered
    PROVE  IInv' /\ BackStep
<1>1. PICK due \in BOOLEAN, ends \in BOOLEAN :
        Become(Outcome(call.q, due, ends).be) /\ After(Outcome(call.q, due, ends).reply)
  BY DEF Answered
<1> DEFINE o == Outcome(call.q, due, ends)
<1>2. call # Idle /\ call.q \in Request /\ RequestOK(call.q)
  BY ZenonT(30) DEF Answered, IInv, TypeOK, CallsOK, CallFits, Call, RequestOK
<1>3. /\ BackendsOK(o.be) /\ ReplyOK(o.reply)
      /\ call.q.op = "battle_create" /\ o.reply.ok => o.reply.battle \in DOMAIN o.be.live
      /\ call.q.op = "battle_finish" => call.q.battle \in DOMAIN o.be.ended
  BY <1>2, Outcomes, ZenonT(30)
<1> HIDE DEF o
<1>4. Become(o.be) /\ After(o.reply)
  BY <1>1 DEF o
<1>5. BackStep
  BY <1>3, <1>4, Becomes
<1>6. /\ call.q.op = "battle_create" /\ o.reply.ok => o.reply.battle \in Created'
      /\ call.q.op = "battle_finish" /\ o.reply.ok => call.q.battle \in DOMAIN ended'
  BY <1>3, <1>4 DEF Become, Created
<1>7. GateStep
  BY <1>2, <1>3, <1>4, <1>5, <1>6, AfterOK
<1>8. InputStep
  BY <1>5, SameInputs DEF Answered
<1>9. NetStep
  BY <1>5, FewerLate DEF Answered, network, IInv, TypeOK
<1> QED
  BY <1>5, <1>7, <1>8, <1>9, Together

(* A call whose answer is lost preserves the invariant. *)
LEMMA UnansweredStep ==
    ASSUME IInv, Unanswered
    PROVE  IInv' /\ BackStep
<1>1. /\ call # Idle /\ call \in Call /\ CallFits(call, Created, DOMAIN ended)
      /\ call.q \in Request /\ RequestOK(call.q)
  BY DEF Unanswered, IInv, TypeOK, CallsOK, CallFits, Call, RequestOK
<1>2. /\ UNCHANGED backends /\ UNCHANGED inputs /\ churned' = churned /\ lost' = lost + 1
      /\ late' = late \cup {[q |-> call.q, id |-> lost]}
      /\ session_room' = session_room /\ room_to_battle' = room_to_battle
      /\ completed' = completed /\ settled' = settled /\ call' = [call EXCEPT !.try = 2]
  BY DEF Unanswered
<1>3. BackStep
  BY <1>2, SameBackends
<1>4. /\ call' \in Call /\ call'.q = call.q /\ call'.at = call.at /\ call'.room = call.room
      /\ call'.battle = call.battle
  BY <1>1, <1>2 DEF Call
<1>5. CallFits(call', Created', DOMAIN ended')
  BY <1>1, <1>3, <1>4, StillFits DEF CallFits, BackStep
<1>6. GateStep
  BY <1>2, <1>3, <1>4, <1>5 DEF GateStep, BackStep, IInv, TypeOK, GatewayOK
<1>7. InputStep
  BY <1>2, <1>3, SameInputs
<1>8. lost' \in Nat /\ churned' \in Nat
  BY <1>2 DEF IInv, TypeOK
<1>9. NetStep
  BY <1>1, <1>2, <1>3, <1>8, MoreLate
<1> QED
  BY <1>3, <1>6, <1>7, <1>9, Together

(* A call given up after its retries preserves the invariant. *)
LEMMA GivenUpStep ==
    ASSUME IInv, GivenUp
    PROVE  IInv' /\ BackStep
<1>1. call # Idle /\ call.q \in Request /\ RequestOK(call.q)
  BY ZenonT(30) DEF GivenUp, IInv, TypeOK, CallsOK, CallFits, Call, RequestOK
<1>2. /\ UNCHANGED backends /\ UNCHANGED inputs /\ churned' = churned /\ lost' = lost + 1
      /\ late' \subseteq late \cup {[q |-> call.q, id |-> lost]} /\ After(Reply(FALSE))
  BY ZenonT(30) DEF GivenUp
<1>3. BackStep
  BY <1>2, SameBackends
<1>4. ReplyOK(Reply(FALSE)) /\ ~Reply(FALSE).ok
  BY PlainReply, ZenonT(30)
<1>5. GateStep
  BY <1>1, <1>2, <1>3, <1>4, AfterOK, ZenonT(30)
<1>6. InputStep
  BY <1>2, <1>3, SameInputs
<1>7. lost' \in Nat /\ churned' \in Nat
  <2>1. lost \in Nat /\ churned \in Nat
    BY ZenonT(30) DEF IInv, TypeOK
  <2> QED
    BY <1>2, <2>1
<1>8. NetStep
  BY <1>1, <1>2, <1>3, <1>7, MoreLate
<1> QED
  BY <1>3, <1>5, <1>6, <1>8, Together

(* The late arrival of a lost request preserves the invariant. *)
LEMMA ArriveStep ==
    ASSUME IInv, Arrive
    PROVE  IInv' /\ BackStep
<1>1. PICK l \in late, due \in BOOLEAN, ends \in BOOLEAN :
        Become(Outcome(l.q, due, ends).be) /\ late' = late \ {l}
  BY DEF Arrive
<1>2. l.q \in Request /\ RequestOK(l.q)
  BY DEF IInv, TypeOK, CallsOK
<1>3. BackendsOK(Outcome(l.q, due, ends).be)
  BY <1>2, Outcomes, ZenonT(30)
<1>4. BackStep
  BY <1>1, <1>3, Becomes
<1>5. GateStep
  BY <1>4, SameGateway DEF Arrive
<1>6. InputStep
  BY <1>4, SameInputs DEF Arrive
<1>7. NetStep
  BY <1>1, <1>4, FewerLate, ZenonT(30) DEF Arrive, IInv, TypeOK
<1> QED
  BY <1>4, <1>5, <1>6, <1>7, Together

(* Handing an input to a worker preserves the invariant. *)
LEMMA SubmitInputStep ==
    ASSUME IInv, NEW u \in User, NEW w \in Worker, SubmitInput(u, w)
    PROVE  IInv' /\ BackStep
<1> DEFINE s == session_room[u]
           q == [op |-> "battle_input", user |-> u, battle |-> room_to_battle[s]]
           task == [at |-> "route", try |-> 1, room |-> s, q |-> q]
<1>1. /\ UNCHANGED backends /\ UNCHANGED gateway /\ UNCHANGED network
      /\ completions' = completions /\ work' = [work EXCEPT ![w] = task]
      /\ s \in DOMAIN room_to_battle
  BY DEF SubmitInput
<1>2. s \in Room /\ room_to_battle[s] \in Nat
  BY <1>1 DEF IInv, TypeOK, IsMap
<1>3. q \in Request /\ q.op = "battle_input"
  BY <1>2 DEF Request
<1> HIDE DEF q
<1>4. task \in Task /\ task.q = q
  BY <1>2, <1>3 DEF Task
<1> HIDE DEF task
<1>5. BackStep
  BY <1>1, SameBackends
<1>6. /\ work \in [Worker -> {NoTask} \cup Task]
      /\ \A x \in Worker : work[x] # NoTask => work[x].q.op = "battle_input"
      /\ completions \in Seq(Completion)
      /\ \A i \in 1..Len(completions) :
            completions[i].ends => completions[i].battle \in DOMAIN ended
  BY ZenonT(30) DEF IInv, TypeOK, CallsOK, GatewayOK
<1>7. /\ work' \in [Worker -> {NoTask} \cup Task]
      /\ \A x \in Worker : work'[x] = IF x = w THEN task ELSE work[x]
  BY <1>1, <1>4, <1>6
<1>8. InputStep
  BY <1>1, <1>3, <1>4, <1>5, <1>6, <1>7 DEF InputStep, BackStep
<1>9. GateStep
  BY <1>1, <1>5, SameGateway
<1>10. NetStep
  BY <1>1, <1>5, FewerLate, ZenonT(30) DEF network, IInv, TypeOK
<1> QED
  BY <1>5, <1>8, <1>9, <1>10, Together

\* The end of an input's task queues a completion.
LEMMA Completes ==
    ASSUME IInv, BackStep, NEW w \in Worker, work[w] # NoTask, NEW o, ReplyOK(o),
           Complete(w, o), o.ends => work[w].q.battle \in DOMAIN ended'
    PROVE  InputStep
<1>1. /\ work \in [Worker -> {NoTask} \cup Task]
      /\ \A x \in Worker : work[x] # NoTask => work[x].q.op = "battle_input"
      /\ completions \in Seq(Completion)
      /\ \A i \in 1..Len(completions) :
            completions[i].ends => completions[i].battle \in DOMAIN ended
      /\ DOMAIN ended \subseteq DOMAIN ended'
  BY ZenonT(30) DEF IInv, TypeOK, CallsOK, GatewayOK, BackStep
<1>2. work[w] \in Task /\ work[w].room \in Room /\ work[w].q \in Request
  BY <1>1 DEF Task
<1>3. work[w].q.battle \in Nat
  BY <1>1, <1>2, RequestFields
<1> DEFINE c == [room |-> work[w].room, battle |-> work[w].q.battle,
                 ends |-> o.ends, scores |-> o.scores]
<1>4. c \in Completion /\ c.ends = o.ends /\ c.battle = work[w].q.battle
  BY <1>2, <1>3 DEF Completion, ReplyOK
<1>5. work' = [work EXCEPT ![w] = NoTask] /\ completions' = Append(completions, c)
  BY ZenonT(30) DEF Complete
<1> HIDE DEF c
<1>6. /\ work' \in [Worker -> {NoTask} \cup Task]
      /\ \A x \in Worker : work'[x] = IF x = w THEN NoTask ELSE work[x]
  BY <1>1, <1>5
<1> DEFINE n == Len(completions)
<1>7. /\ n \in Nat /\ completions' \in Seq(Completion) /\ Len(completions') = n + 1
      /\ completions'[n + 1] = c /\ \A i \in 1..n : completions'[i] = completions[i]
  <2> DEFINE S == Completion
  <2>1. completions \in Seq(S) /\ c \in S
    BY <1>1, <1>4
  <2> HIDE DEF S
  <2>2. Append(completions, c) \in Seq(S) /\ n \in Nat /\ Len(Append(completions, c)) = n + 1
    BY <2>1
  <2>3. /\ Append(completions, c)[n + 1] = c
        /\ \A i \in 1..n : Append(completions, c)[i] = completions[i]
    BY <2>1
  <2> QED
    BY <1>5, <2>2, <2>3 DEF S
<1> HIDE DEF n
<1>8. ASSUME NEW i \in 1..Len(completions'), completions'[i].ends
      PROVE  completions'[i].battle \in DOMAIN ended'
  <2>1. i \in 1..n \/ i = n + 1
    BY <1>7
  <2>2. CASE i \in 1..n
    <3>1. completions'[i] = completions[i]
      BY <1>7, <2>2
    <3> QED
      BY <1>1, <1>8, <2>2, <3>1 DEF n
  <2>3. CASE i = n + 1
    BY <1>4, <1>7, <1>8, <2>3
  <2> QED
    BY <2>1, <2>2, <2>3
<1> QED
  BY <1>1, <1>6, <1>7, <1>8 DEF InputStep

(* The calls of an input worker preserve the invariant. *)
LEMMA InputStepsOK ==
    ASSUME IInv, NEW w \in Worker, InputAnswered(w) \/ InputUnanswered(w) \/ InputGivenUp(w)
    PROVE  IInv' /\ BackStep
<1>0. /\ work \in [Worker -> {NoTask} \cup Task] /\ work[w] # NoTask
      /\ completions \in Seq(Completion)
      /\ \A x \in Worker : work[x] # NoTask => work[x].q.op = "battle_input"
      /\ \A i \in 1..Len(completions) :
            completions[i].ends => completions[i].battle \in DOMAIN ended
  BY ZenonT(30) DEF InputAnswered, InputUnanswered, InputGivenUp, IInv, TypeOK, CallsOK, GatewayOK
<1>1. work[w] \in Task /\ work[w].q \in Request /\ work[w].q.op = "battle_input"
  BY <1>0 DEF Task
<1>2. RequestOK(work[w].q)
  BY <1>1 DEF RequestOK, Fits
<1>3. CASE InputAnswered(w)
  <2>1. PICK ends \in BOOLEAN : LET o == Outcome(work[w].q, FALSE, ends) IN
                                Become(o.be) /\ Complete(w, o.reply)
    BY <1>3, ZenonT(30) DEF InputAnswered
  <2> DEFINE o == Outcome(work[w].q, FALSE, ends)
  <2>2. /\ BackendsOK(o.be) /\ ReplyOK(o.reply)
        /\ o.reply.ends => work[w].q.battle \in DOMAIN o.be.ended
    BY <1>1, <1>2, Outcomes, ZenonT(30)
  <2> HIDE DEF o
  <2>3. Become(o.be) /\ Complete(w, o.reply)
    BY <2>1, ZenonT(30) DEF o
  <2>4. BackStep
    BY <2>2, <2>3, Becomes
  <2>5. InputStep
    BY <1>0, <2>2, <2>3, <2>4, Completes, ZenonT(30) DEF Become
  <2>6. GateStep
    BY <1>3, <2>4, SameGateway DEF InputAnswered
  <2>7. NetStep
    BY <1>3, <2>4, FewerLate, ZenonT(30) DEF InputAnswered, network, IInv, TypeOK
  <2> QED
    BY <2>4, <2>5, <2>6, <2>7, Together
<1>4. CASE InputUnanswered(w)
  <2>1. /\ UNCHANGED backends /\ UNCHANGED gateway /\ churned' = churned /\ lost' = lost + 1
        /\ late' = late \cup {[q |-> work[w].q, id |-> lost]}
        /\ completions' = completions /\ work' = [work EXCEPT ![w].try = 2]
    BY <1>4 DEF InputUnanswered
  <2>2. BackStep
    BY <2>1, SameBackends
  <2> DEFINE task == [work[w] EXCEPT !.try = 2]
  <2>3. task \in Task /\ task.q = work[w].q
    BY <1>1 DEF Task
  <2>4. work' = [work EXCEPT ![w] = task]
    BY <2>1
  <2> HIDE DEF task
  <2>5. /\ work' \in [Worker -> {NoTask} \cup Task]
        /\ \A x \in Worker : work'[x] = IF x = w THEN task ELSE work[x]
    BY <1>0, <2>3, <2>4, ZenonT(30)
  <2>6. InputStep
    BY <1>0, <1>1, <2>1, <2>2, <2>3, <2>5 DEF InputStep, BackStep
  <2>7. GateStep
    BY <2>1, <2>2, SameGateway
  <2>8. lost' \in Nat /\ churned' \in Nat
    BY <2>1 DEF IInv, TypeOK
  <2>9. NetStep
    BY <1>1, <1>2, <2>1, <2>2, <2>8, MoreLate
  <2> QED
    BY <2>2, <2>6, <2>7, <2>9, Together
<1>5. CASE InputGivenUp(w)
  <2>1. /\ UNCHANGED backends /\ UNCHANGED gateway /\ churned' = churned /\ lost' = lost + 1
        /\ late' \subseteq late \cup {[q |-> work[w].q, id |-> lost]}
        /\ Complete(w, Reply(FALSE))
    BY <1>5, ZenonT(30) DEF InputGivenUp
  <2>2. BackStep
    BY <2>1, SameBackends
  <2>3. ReplyOK(Reply(FALSE)) /\ ~Reply(FALSE).ends
    BY PlainReply, ZenonT(30)
  <2>4. InputStep
    BY <1>0, <2>1, <2>2, <2>3, Completes, ZenonT(30)
  <2>5. GateStep
    BY <2>1, <2>2, SameGateway
  <2>6. lost' \in Nat /\ churned' \in Nat
    BY <2>1, SMTT(40) DEF IInv, TypeOK
  <2>7. NetStep
    BY <1>1, <1>2, <2>1, <2>2, <2>6, MoreLate, ZenonT(30)
  <2> QED
    BY <2>2, <2>4, <2>5, <2>7, Together
<1> QED
  BY <1>3, <1>4, <1>5

\* Taking the head off a queue.
LEMMA TailOf ==
    ASSUME NEW S, NEW s \in Seq(S), s # <<>>
    PROVE  /\ Head(s) \in S /\ Head(s) = s[1] /\ 1 \in 1..Len(s)
           /\ Tail(s) \in Seq(S) /\ Len(Tail(s)) = Len(s) - 1 /\ Len(s) \in Nat
           /\ \A i \in 1..Len(Tail(s)) : i + 1 \in 1..Len(s) /\ Tail(s)[i] = s[i + 1]
  OBVIOUS

(* The completion of an input on the gateway preserves the invariant. *)
LEMMA CompleteInputStep ==
    ASSUME IInv, CompleteInput
    PROVE  IInv' /\ BackStep
<1> DEFINE c == Head(completions)
<1>1. /\ UNCHANGED backends /\ UNCHANGED network /\ work' = work
      /\ session_room' = session_room /\ room_to_battle' = room_to_battle
      /\ completions' = Tail(completions) /\ completions # <<>> /\ call = Idle
      /\ IF c.ends THEN FinishedPush(c.room, c.battle, c.scores)
         ELSE UNCHANGED <<call, completed, settled>>
  BY ZenonT(30) DEF CompleteInput
<1>0. /\ work \in [Worker -> {NoTask} \cup Task]
      /\ \A x \in Worker : work[x] # NoTask => work[x].q.op = "battle_input"
      /\ completions \in Seq(Completion)
      /\ \A i \in 1..Len(completions) :
            completions[i].ends => completions[i].battle \in DOMAIN ended
  BY ZenonT(30) DEF IInv, TypeOK, CallsOK, GatewayOK
<1>2. /\ c \in Completion /\ c = completions[1] /\ 1 \in 1..Len(completions)
      /\ Tail(completions) \in Seq(Completion)
      /\ \A i \in 1..Len(Tail(completions)) :
            i + 1 \in 1..Len(completions) /\ Tail(completions)[i] = completions[i + 1]
  <2> DEFINE S == Completion
  <2>1. completions \in Seq(S) /\ completions # <<>>
    BY <1>0, <1>1
  <2> HIDE DEF S
  <2>2. /\ c \in S /\ c = completions[1] /\ 1 \in 1..Len(completions)
        /\ Tail(completions) \in Seq(S)
        /\ \A i \in 1..Len(Tail(completions)) :
              i + 1 \in 1..Len(completions) /\ Tail(completions)[i] = completions[i + 1]
    BY <2>1, TailOf
  <2> QED
    BY <2>2 DEF S
<1> HIDE DEF c
<1>3. BackStep
  BY <1>1, SameBackends
<1>4. InputStep
  BY <1>0, <1>1, <1>2, <1>3, ZenonT(30) DEF InputStep, BackStep
<1>5. NetStep
  BY <1>1, <1>3, FewerLate, ZenonT(30) DEF network, IInv, TypeOK
<1>6. /\ c.room \in Room /\ c.battle \in Nat /\ c.scores \in SUBSET User /\ c.ends \in BOOLEAN
      /\ c.ends => c.battle \in DOMAIN ended'
  BY <1>0, <1>2, <1>3, ZenonT(30) DEF Completion, BackStep
<1>7. GateStep
  <2>1. CASE ~c.ends
    BY <1>1, <1>3, <2>1, SameGateway DEF gateway
  <2>2. CASE c.ends
    <3>1. /\ settled' \subseteq Nat \X User /\ call' \in {Idle} \cup Call
          /\ call' # Idle => CallFits(call', Created', DOMAIN ended')
          /\ completed' \subseteq Nat /\ completed' \subseteq DOMAIN ended'
      BY <1>1, <1>3, <1>6, <2>2, FinishedPushOK, ZenonT(30)
    <3> QED
      BY <1>1, <1>3, <3>1, ZenonT(30) DEF GateStep, BackStep, IInv, TypeOK, GatewayOK
  <2> QED
    BY <1>6, <2>1, <2>2
<1> QED
  BY <1>3, <1>4, <1>5, <1>7, Together

(* cleanup_expired_rooms preserves the invariant. *)
LEMMA ExpireStep ==
    ASSUME IInv, ExpireRooms
    PROVE  IInv' /\ BackStep
<1>1. PICK expired \in SUBSET Expirable(room) : room' = CleanupExpired(room, expired)
  BY DEF ExpireRooms
<1>2. /\ live' = live /\ board' = board /\ ended' = ended
      /\ UNCHANGED gateway /\ UNCHANGED inputs
      /\ late' = late /\ lost' = lost /\ churned' = churned + 1
  BY DEF ExpireRooms, Churn
<1>3. ServiceOK(room') /\ HoldsRooms(room, room', DOMAIN ended)
  BY <1>1, UnchangedBackends, CleanupHolds
<1>4. /\ IsMap(live, Nat, [players : SUBSET User, frame : Nat])
      /\ IsMap(ended, Nat, SUBSET User)
      /\ board \in [keys : SUBSET (Nat \X User), applied : [Key -> Nat]] /\ BoardOK
  BY DEF IInv, TypeOK
<1>5. BackStep
  BY <1>2, <1>3, <1>4 DEF BackStep, BoardOK, Created
<1>6. GateStep
  BY <1>2, <1>5, SameGateway
<1>7. InputStep
  BY <1>2, <1>5, SameInputs
<1>8. lost' \in Nat /\ churned' \in Nat
  BY <1>2 DEF IInv, TypeOK
<1>9. NetStep
  BY <1>2, <1>5, <1>8, FewerLate
<1> QED
  BY <1>5, <1>6, <1>7, <1>9, Together

-----------------------------------------------------------------------------
(* The theorems.                                                           *)

(* The invariant holds when the services start. *)
LEMMA InitOK ==
    ASSUME Init
    PROVE  IInv
<1>1. /\ room.rooms = <<>> /\ room.next_battle_id = 1
      /\ room = [rooms |-> <<>>, next_battle_id |-> 1]
  BY DEF Init, EmptyService
<1>2. /\ live = <<>> /\ ended = <<>> /\ room_to_battle = <<>> /\ completions = <<>>
      /\ board = [keys |-> {}, applied |-> [k \in Key |-> 0]]
      /\ session_room = [u \in User |-> NoRoom] /\ completed = {} /\ settled = {}
      /\ call = Idle /\ work = [w \in Worker |-> NoTask]
      /\ late = {} /\ lost = 0 /\ churned = 0
  BY ZenonT(30) DEF Init
<1>3. DOMAIN <<>> = {} /\ \A D, S : IsMap(<<>>, D, S)
  BY DEF IsMap
<1>4. IsService(room)
  BY <1>1, <1>3 DEF IsService
<1>5. /\ board.keys = {} /\ board.applied = [k \in Key |-> 0]
      /\ board \in [keys : SUBSET (Nat \X User), applied : [Key -> Nat]]
  BY <1>2
<1>6. TypeOK
  BY <1>2, <1>3, <1>4, <1>5 DEF TypeOK
<1>7. OwnedByAMember /\ StatusTracksBattle
  BY <1>1, <1>3 DEF OwnedByAMember, StatusTracksBattle
<1>8. CallsOK
  BY <1>2 DEF CallsOK
<1>9. GatewayOK
  BY <1>2, <1>3 DEF GatewayOK
<1>10. BoardOK
  BY <1>5 DEF BoardOK
<1> QED
  BY <1>6, <1>7, <1>8, <1>9, <1>10 DEF IInv

(* Every step preserves the invariant. *)
LEMMA StepOK ==
    ASSUME IInv, [Next]_vars
    PROVE  IInv' /\ BackStep
<1>1. CASE UNCHANGED vars
  <2>1. UNCHANGED backends /\ UNCHANGED gateway /\ UNCHANGED inputs /\ UNCHANGED network
    BY <1>1 DEF vars
  <2>2. BackStep
    BY <2>1, SameBackends
  <2>3. GateStep /\ InputStep
    BY <2>1, <2>2, SameGateway, SameInputs
  <2>4. NetStep
    BY <2>1, <2>2, FewerLate, ZenonT(30) DEF network, IInv, TypeOK
  <2> QED
    BY <2>2, <2>3, <2>4, Together
<1>2. CASE \E u \in User, r \in Room : CreateRoom(u, r) \/ JoinRoom(u, r)
  <2>1. PICK u \in User, r \in Room : CreateRoom(u, r) \/ JoinRoom(u, r)
    BY <1>2
  <2> QED
    BY <2>1, EnterStep
<1>3. CASE \E u \in User, ready \in BOOLEAN : Ready(u, ready)
  BY <1>3, ReadyStep
<1>4. CASE \E u, target \in User : Kick(u, target) \/ TransferOwner(u, target)
  BY <1>4, OwnerStep
<1>5. CASE \E u \in User : LeaveRoom(u) \/ SessionClosed(u) \/ StartBattle(u)
                           \/ FinishBattle(u)
  BY <1>5, UserStep, FinishBattleStep
<1>6. CASE \E b \in Battle : QueryBattle(b)
  BY <1>6, QueryStep
<1>7. CASE Answered \/ Unanswered \/ GivenUp \/ Arrive
  BY <1>7, AnsweredStep, UnansweredStep, GivenUpStep, ArriveStep
<1>8. CASE \E w \in Worker :
              \/ \E u \in User : SubmitInput(u, w)
              \/ InputAnswered(w) \/ InputUnanswered(w) \/ InputGivenUp(w)
  BY <1>8, SubmitInputStep, InputStepsOK
<1>9. CASE CompleteInput \/ ExpireRooms
  BY <1>9, CompleteInputStep, ExpireStep
<1> QED
  BY <1>1, <1>2, <1>3, <1>4, <1>5, <1>6, <1>7, <1>8, <1>9 DEF Next

\* The invariant holds throughout, whatever is lost, repeated or delayed.
THEOREM Invariance == Spec => []IInv
<1>1. Init => IInv
  BY InitOK
<1>2. IInv /\ [Next]_vars => IInv'
  BY StepOK
<1> QED
  BY <1>1, <1>2, PTL DEF Spec

\* Every variable keeps its type.
THEOREM TypeCorrect == Spec => []TypeOK
<1>1. IInv => TypeOK
  BY DEF IInv
<1> QED
  BY <1>1, Invariance, PTL

\* The Leaderboard backend applies a player's result in a battle at most once, whatever is
\* lost, repeated or delayed and however often the battle is declared over.
THEOREM AppliedOnce == Spec => []SettledOnce
<1>1. IInv => SettledOnce
  BY DEF IInv, BoardOK, SettledOnce
<1> QED
  BY <1>1, Invariance, PTL

\* The gateway declares over, and the leaderboard is told of, only battles that the Battle
\* backend has ended.
THEOREM OverIsOver == Spec => []CompletedHasEnded
<1>1. IInv => CompletedHasEnded
  BY DEF IInv, GatewayOK, BoardOK, CompletedHasEnded
<1> QED
  BY <1>1, Invariance, PTL

\* Whatever joins, leaves, kicks, hand-overs, expiries and late requests there are, a room
\* is owned by one of its members, no one is in it twice and only members are ready.
THEOREM RoomsAreOwned == Spec => []OwnedByAMember
<1>1. IInv => OwnedByAMember
  BY DEF IInv
<1> QED
  BY <1>1, Invariance, PTL

\* The status of a room and the battle it has on record agree.
THEOREM StatusIsRight == Spec => []StatusTracksBattle
<1>1. IInv => StatusTracksBattle
  BY DEF IInv
<1> QED
  BY <1>1, Invariance, PTL

\* No step takes a room from its battle: nobody enters, only the end of that battle releases
\* the room, and only the last member to leave removes it.
THEOREM RoomIsHeld == Spec => BattleHoldsTheRoom
<1> DEFINE Held(old, new, over) ==
             \A r \in DOMAIN old.rooms : LET b == old.rooms[r].battle IN b # NoBattle =>
               IF r \in DOMAIN new.rooms
               THEN /\ Members(new.rooms[r]) \subseteq Members(old.rooms[r])
                    /\ \/ new.rooms[r].battle = b
                       \/ new.rooms[r].battle = NoBattle /\ b \in over
               ELSE Len(old.rooms[r].members) = 1
<1>1. IInv /\ [Next]_vars => [Held(room, room', DOMAIN ended)]_vars
  BY StepOK, ZenonT(30) DEF BackStep, HoldsRooms, KeepsBattle
<1> QED
  BY <1>1, Invariance, PTL DEF Spec, BattleHoldsTheRoom

-----------------------------------------------------------------------------
(* The invariant while every call is answered.                             *)

\* The battles are numbered by the Room backend: one is created only after its number was
\* given out, at most once, and the clients start no more than MaxBattles.
NamesOK ==
    /\ room.next_battle_id <= MaxBattles + 1
    /\ call.at = "start" => room.next_battle_id <= MaxBattles
    /\ Created \subseteq 1..(room.next_battle_id - 1)
    /\ DOMAIN live \cap DOMAIN ended = {}
    /\ call.at = "create" => /\ call.q.battle \in 1..(room.next_battle_id - 1)
                             /\ call.q.battle \notin Created

\* The gateway routes battle b of room r, or b never got an instance.
Routed(r, b) == (r \in DOMAIN room_to_battle /\ room_to_battle[r] = b) \/ b \notin Created

\* The battle a room plays has a number that was given out; it is the one the gateway is
\* about to create for that room, or another one, which is routed or has no instance.
RoutesOK ==
    /\ \A r \in DOMAIN room.rooms : LET b == room.rooms[r].battle IN b # NoBattle =>
          /\ b < room.next_battle_id
          /\ IF call.at = "create" /\ call.room = r
             THEN call.q.battle = b
             ELSE Routed(r, b) /\ (call.at = "create" => call.q.battle # b)
    /\ call.at = "free" => call.q.room = call.room /\ call.q.battle = call.battle

PaidAll(b)  == \A u \in ended[b] : <<b, u>> \in board.keys
PaidNone(b) == \A u \in ended[b] : <<b, u>> \notin board.keys

\* The keys the gateway holds are those the leaderboard has seen and the one under way; a
\* battle that is over is paid to all or to none, or its settlement is under way.
PayOK ==
    /\ \A k \in settled : k[1] \in completed
    /\ board.keys \subseteq settled
    /\ \A k \in settled :
          k \in board.keys \/ (call.at = "submit" /\ k = <<call.battle, call.q.user>>)
    /\ call.at = "submit" =>
          /\ call.q.battle = call.battle /\ call.battle \in completed
          /\ <<call.battle, call.q.user>> \in settled
          /\ \A u \in ended[call.battle] :
                u = call.q.user \/ u \in call.scores \/ <<call.battle, u>> \in board.keys
    /\ \A i \in 1..Len(completions) :
          completions[i].ends => completions[i].scores = ended[completions[i].battle]
    /\ \A b \in completed :
          PaidAll(b) \/ PaidNone(b) \/ (call.at = "submit" /\ call.battle = b)
    /\ \A k \in Key : k \in board.keys => board.applied[k] > 0

AnsweredInv == lost = 0 => late = {} /\ NamesOK /\ RoutesOK /\ PayOK

-----------------------------------------------------------------------------
(* The rooms that play a battle after a request.                           *)

\* No room plays a battle it did not play before.
NoNewBattle(old, new) ==
    /\ new.next_battle_id = old.next_battle_id
    /\ \A r \in DOMAIN new.rooms : new.rooms[r].battle # NoBattle =>
          r \in DOMAIN old.rooms /\ old.rooms[r].battle = new.rooms[r].battle

\* The rooms after Put.
LEMMA PutIs ==
    ASSUME NEW svc, IsService(svc), NEW r, NEW rm
    PROVE  /\ Put(svc, r, rm).next_battle_id = svc.next_battle_id
           /\ DOMAIN Put(svc, r, rm).rooms = DOMAIN svc.rooms \cup {r}
           /\ \A x \in DOMAIN svc.rooms \cup {r} :
                 Put(svc, r, rm).rooms[x] = IF x = r THEN rm ELSE svc.rooms[x]
           /\ Put(svc, r, rm) = [rooms |-> Put(svc, r, rm).rooms,
                                 next_battle_id |-> svc.next_battle_id]
<1> DEFINE new == [x \in DOMAIN svc.rooms \cup {r} |-> IF x = r THEN rm ELSE svc.rooms[x]]
<1>1. Put(svc, r, rm) = [rooms |-> new, next_battle_id |-> svc.next_battle_id]
  BY DEF Put, IsService
<1>2. /\ DOMAIN new = DOMAIN svc.rooms \cup {r}
      /\ \A x \in DOMAIN svc.rooms \cup {r} : new[x] = IF x = r THEN rm ELSE svc.rooms[x]
  BY ZenonT(30)
<1> HIDE DEF new
<1>3. Put(svc, r, rm).rooms = new /\ Put(svc, r, rm).next_battle_id = svc.next_battle_id
  BY <1>1
<1> QED
  BY <1>1, <1>2, <1>3, ZenonT(30)

\* A room put back with its battle, or with none.
LEMMA PutQuiet ==
    ASSUME NEW svc, IsService(svc), NEW r, NEW rm, NEW p \in BOOLEAN,
           p => rm.battle = NoBattle
                \/ (r \in DOMAIN svc.rooms /\ rm.battle = svc.rooms[r].battle)
    PROVE  NoNewBattle(svc, AcceptIf(p, svc, Put(svc, r, rm)).svc)
<1>1. CASE p
  <2>1. AcceptIf(p, svc, Put(svc, r, rm)).svc = Put(svc, r, rm)
    BY <1>1 DEF AcceptIf, Accept
  <2> DEFINE new == Put(svc, r, rm)
  <2>2. /\ new.next_battle_id = svc.next_battle_id
        /\ DOMAIN new.rooms = DOMAIN svc.rooms \cup {r}
        /\ \A x \in DOMAIN svc.rooms \cup {r} :
              new.rooms[x] = IF x = r THEN rm ELSE svc.rooms[x]
    BY PutIs
  <2> HIDE DEF new
  <2>3. NoNewBattle(svc, new)
    BY <1>1, <2>2 DEF NoNewBattle
  <2> QED
    BY <2>1, <2>3 DEF new
<1>2. CASE ~p
  BY <1>2 DEF AcceptIf, Refuse, NoNewBattle
<1> QED
  BY <1>1, <1>2

\* A refusal changes no room.
LEMMA RefuseQuiet ==
    ASSUME NEW svc
    PROVE  NoNewBattle(svc, Refuse(svc).svc)
  BY DEF Refuse, NoNewBattle

\* No handler but room_start_battle gives a room a battle.
LEMMA QuietHandlers ==
    ASSUME NEW svc, ServiceOK(svc), NEW u, NEW v, NEW r
    PROVE  /\ NoNewBattle(svc, RoomCreate(svc, u, r, 0).svc)
           /\ NoNewBattle(svc, RoomJoin(svc, u, r).svc)
           /\ \A ready \in BOOLEAN : NoNewBattle(svc, RoomReady(svc, u, r, ready).svc)
           /\ NoNewBattle(svc, RoomKick(svc, u, r, v).svc)
           /\ NoNewBattle(svc, RoomTransferOwner(svc, u, r, v).svc)
<1>0. IsService(svc) /\ (r \in DOMAIN svc.rooms => RoomOK(svc.rooms[r]))
  BY DEF ServiceOK
<1>1. NoNewBattle(svc, RoomCreate(svc, u, r, 0).svc)
  <2> DEFINE rm == [owner |-> u, members |-> <<u>>, ready |-> {}, battle |-> NoBattle,
                    status |-> Waiting, capacity |-> 0]
             p == r \notin DOMAIN svc.rooms
  <2>1. rm.battle = NoBattle /\ p \in BOOLEAN
    OBVIOUS
  <2> HIDE DEF rm, p
  <2>2. NoNewBattle(svc, AcceptIf(p, svc, Put(svc, r, rm)).svc)
    BY <1>0, <2>1, PutQuiet
  <2> QED
    BY <2>2 DEF RoomCreate, rm, p
<1> SUFFICES ASSUME r \in DOMAIN svc.rooms
             PROVE  /\ NoNewBattle(svc, RoomJoin(svc, u, r).svc)
                    /\ \A ready \in BOOLEAN : NoNewBattle(svc, RoomReady(svc, u, r, ready).svc)
                    /\ NoNewBattle(svc, RoomKick(svc, u, r, v).svc)
                    /\ NoNewBattle(svc, RoomTransferOwner(svc, u, r, v).svc)
  BY <1>1, RefuseQuiet DEF RoomJoin, RoomReady, RoomKick, RoomTransferOwner
<1> DEFINE old == svc.rooms[r]
<1>2. old \in RoomRecord
  BY <1>0 DEF RoomOK
<1>3. NoNewBattle(svc, RoomJoin(svc, u, r).svc)
  <2> DEFINE p == old.status # InInstance /\ HasPlace(old, u)
             rm == Joined(old, u)
  <2>1. rm.battle = old.battle
    <3>1. CASE u \in Members(old)
      BY <3>1 DEF Joined
    <3>2. CASE u \notin Members(old)
      BY <1>2, <3>2, SetMembers DEF Joined
    <3> QED
      BY <3>1, <3>2
  <2>2. p \in BOOLEAN
    BY DEF HasPlace
  <2> HIDE DEF p, rm
  <2>3. NoNewBattle(svc, AcceptIf(p, svc, Put(svc, r, rm)).svc)
    BY <1>0, <2>1, <2>2, PutQuiet
  <2> QED
    BY <2>3 DEF RoomJoin, p, rm
<1>4. ASSUME NEW ready \in BOOLEAN PROVE NoNewBattle(svc, RoomReady(svc, u, r, ready).svc)
  <2> DEFINE p == u \in Members(old)
             set == IF ready THEN old.ready \cup {u} ELSE old.ready \ {u}
             rm == [old EXCEPT !.ready = set]
  <2>1. rm.battle = old.battle /\ p \in BOOLEAN
    <3> HIDE DEF set, old
    <3> QED
      BY <1>2, SetReady
  <2> HIDE DEF p, rm
  <2>3. NoNewBattle(svc, AcceptIf(p, svc, Put(svc, r, rm)).svc)
    BY <1>0, <2>1, PutQuiet
  <2> QED
    BY <2>3 DEF RoomReady, p, rm
<1>5. NoNewBattle(svc, RoomKick(svc, u, r, v).svc)
  <2> DEFINE p == u = old.owner /\ v # old.owner /\ v \in Members(old)
             stay == Without(old.members, v)
             rest == old.ready \ {v}
             rm == [old EXCEPT !.members = stay, !.ready = rest]
  <2>1. rm.battle = old.battle /\ p \in BOOLEAN
    <3> HIDE DEF stay, rest, old
    <3>1. rm = [owner |-> old.owner, members |-> stay, ready |-> rest,
                battle |-> old.battle, status |-> old.status, capacity |-> old.capacity]
      BY <1>2, SetMembersReady, ZenonT(30)
    <3> HIDE DEF rm
    <3> QED
      BY <3>1
  <2>2. RoomKick(svc, u, r, v) = AcceptIf(p, svc, Put(svc, r, rm))
    BY DEF RoomKick
  <2> HIDE DEF p, rm
  <2>3. NoNewBattle(svc, AcceptIf(p, svc, Put(svc, r, rm)).svc)
    BY <1>0, <2>1, PutQuiet
  <2> QED
    BY <2>2, <2>3
<1>6. NoNewBattle(svc, RoomTransferOwner(svc, u, r, v).svc)
  <2> DEFINE p == u = old.owner /\ v \in Members(old) /\ v # u
             rm == [old EXCEPT !.owner = v]
  <2>1. rm.battle = old.battle /\ p \in BOOLEAN
    BY <1>2 DEF RoomRecord
  <2> HIDE DEF p, rm
  <2>3. NoNewBattle(svc, AcceptIf(p, svc, Put(svc, r, rm)).svc)
    BY <1>0, <2>1, PutQuiet
  <2> QED
    BY <2>3 DEF RoomTransferOwner, p, rm
<1> QED
  BY <1>3, <1>4, <1>5, <1>6

\* room_leave gives no room a battle.
LEMMA QuietLeave ==
    ASSUME NEW svc, ServiceOK(svc), NEW u, NEW r
    PROVE  NoNewBattle(svc, RoomLeave(svc, u, r).svc)
<1>0. IsService(svc) /\ (r \in DOMAIN svc.rooms => RoomOK(svc.rooms[r]))
  BY DEF ServiceOK
<1> SUFFICES ASSUME r \in DOMAIN svc.rooms, u \in Members(svc.rooms[r])
             PROVE  NoNewBattle(svc, RoomLeave(svc, u, r).svc)
  BY RefuseQuiet DEF RoomLeave
<1> DEFINE old == svc.rooms[r]
<1>1. old \in RoomRecord
  BY <1>0 DEF RoomOK
<1>2. CASE Len(old.members) = 1
  <2>1. RoomLeave(svc, u, r).svc = Erase(svc, r)
    BY <1>2 DEF RoomLeave, Accept
  <2>2. /\ Erase(svc, r).next_battle_id = svc.next_battle_id
        /\ DOMAIN Erase(svc, r).rooms = DOMAIN svc.rooms \ {r}
        /\ \A x \in DOMAIN svc.rooms \ {r} : Erase(svc, r).rooms[x] = svc.rooms[x]
    BY <1>0, RestIsService, ZenonT(30) DEF Erase
  <2>3. NoNewBattle(svc, Erase(svc, r))
    BY <2>2 DEF NoNewBattle
  <2> QED
    BY <2>1, <2>3
<1>3. CASE Len(old.members) # 1
  <2> DEFINE stay == Without(old.members, u)
             rest == old.ready \ {u}
             owner == IF old.owner = u THEN Head(stay) ELSE old.owner
             rm == Left(old, u)
  <2>1. rm.battle = old.battle
    <3>1. rm = [old EXCEPT !.members = stay, !.ready = rest, !.owner = owner]
      BY DEF Left
    <3> HIDE DEF stay, rest, old, owner, rm
    <3>2. [old EXCEPT !.members = stay, !.ready = rest, !.owner = owner]
            = [owner |-> owner, members |-> stay, ready |-> rest,
               battle |-> old.battle, status |-> old.status, capacity |-> old.capacity]
      BY <1>1, SetMembersReadyOwner, ZenonT(30)
    <3>3. rm = [owner |-> owner, members |-> stay, ready |-> rest,
                battle |-> old.battle, status |-> old.status, capacity |-> old.capacity]
      BY <3>1, <3>2, ZenonT(30)
    <3> QED
      BY <3>3
  <2>2. RoomLeave(svc, u, r) = AcceptIf(TRUE, svc, Put(svc, r, rm))
    BY <1>3 DEF RoomLeave, AcceptIf
  <2> HIDE DEF rm
  <2>3. NoNewBattle(svc, AcceptIf(TRUE, svc, Put(svc, r, rm)).svc)
    BY <1>0, <2>1, PutQuiet
  <2> QED
    BY <2>2, <2>3
<1> QED
  BY <1>2, <1>3

\* room_battle_finished gives no room a battle, and takes b from room r.
LEMMA QuietFinished ==
    ASSUME NEW svc, ServiceOK(svc), NEW r, NEW b
    PROVE  LET new == RoomBattleFinished(svc, r, b).svc IN
           /\ NoNewBattle(svc, new)
           /\ r \in DOMAIN new.rooms /\ new.rooms[r].battle # NoBattle =>
                 new.rooms[r].battle # b
<1>0. IsService(svc) /\ (r \in DOMAIN svc.rooms => RoomOK(svc.rooms[r]))
  BY DEF ServiceOK
<1> DEFINE new == RoomBattleFinished(svc, r, b).svc
<1>1. CASE r \notin DOMAIN svc.rooms
  <2>1. new = svc
    BY <1>1 DEF RoomBattleFinished, Refuse
  <2> QED
    BY <1>1, <2>1 DEF NoNewBattle
<1>2. CASE r \in DOMAIN svc.rooms
  <2> DEFINE old == svc.rooms[r]
             p == old.battle \in {NoBattle, b}
             rm == [old EXCEPT !.battle = NoBattle, !.status = Waiting, !.ready = {}]
  <2>1. old \in RoomRecord /\ p \in BOOLEAN
    BY <1>0, <1>2 DEF RoomOK
  <2>2. rm.battle = NoBattle
    <3> HIDE DEF old
    <3>1. rm = [owner |-> old.owner, members |-> old.members, ready |-> {},
                battle |-> NoBattle, status |-> Waiting, capacity |-> old.capacity]
      BY <2>1, FreedRoom, ZenonT(30)
    <3> HIDE DEF rm
    <3> QED
      BY <3>1
  <2>3. RoomBattleFinished(svc, r, b) = AcceptIf(p, svc, Put(svc, r, rm))
    BY <1>2 DEF RoomBattleFinished
  <2> HIDE DEF rm
  <2>4. NoNewBattle(svc, AcceptIf(p, svc, Put(svc, r, rm)).svc)
    BY <1>0, <2>1, <2>2, PutQuiet
  <2>5. CASE p
    <3>1. new = Put(svc, r, rm)
      BY <2>3, <2>5 DEF AcceptIf, Accept
    <3>2. Put(svc, r, rm).rooms[r] = rm
      BY <1>0, PutIs
    <3> QED
      BY <2>2, <2>3, <2>4, <3>1, <3>2
  <2>6. CASE ~p
    <3>1. new = svc
      BY <2>3, <2>6 DEF AcceptIf, Refuse
    <3> QED
      BY <2>3, <2>4, <2>6, <3>1
  <2> QED
    BY <2>5, <2>6
<1> QED
  BY <1>1, <1>2

\* Room r gets the next number, or nothing changes.
Starts(old, new, r, b, ok) ==
    IF ok
    THEN /\ b = old.next_battle_id /\ new.next_battle_id = b + 1
         /\ \A x \in DOMAIN new.rooms : new.rooms[x].battle # NoBattle =>
               IF x = r THEN new.rooms[x].battle = b
               ELSE x \in DOMAIN old.rooms /\ old.rooms[x].battle = new.rooms[x].battle
    ELSE new = old

\* What room_start_battle does to the rooms that play a battle.
LEMMA StartGives ==
    ASSUME NEW svc, ServiceOK(svc), NEW u, NEW r
    PROVE  LET reply == RoomStartBattle(svc, u, r) IN
           /\ Starts(svc, reply.svc, r, reply.battle, reply.ok)
           /\ reply.ok \in BOOLEAN
<1> DEFINE reply == RoomStartBattle(svc, u, r)
<1>1. CASE ~(r \in DOMAIN svc.rooms /\ CanStart(svc.rooms[r], u))
  <2>1. ~reply.ok /\ reply.svc = svc /\ reply.ok \in BOOLEAN
    BY <1>1 DEF RoomStartBattle, Refuse
  <2> QED
    BY <2>1 DEF Starts
<1>2. CASE r \in DOMAIN svc.rooms /\ CanStart(svc.rooms[r], u)
  <2> DEFINE old == svc.rooms[r]
             b == svc.next_battle_id
             rm == [old EXCEPT !.battle = b, !.status = InInstance]
             new == [Put(svc, r, rm) EXCEPT !.next_battle_id = b + 1]
  <2>1. IsService(svc) /\ old \in RoomRecord
    BY <1>2 DEF ServiceOK, RoomOK
  <2>2. rm = [owner |-> old.owner, members |-> old.members, ready |-> old.ready,
              battle |-> b, status |-> InInstance, capacity |-> old.capacity]
    <3> HIDE DEF old, b
    <3> QED
      BY <2>1, StartedRoom, ZenonT(30)
  <2>3. reply = [ok |-> TRUE, svc |-> new, battle |-> b]
    BY <1>2, ZenonT(30) DEF RoomStartBattle, Accept
  <2> HIDE DEF rm
  <2>4. rm.battle = b
    BY <2>2
  <2> DEFINE put == Put(svc, r, rm)
  <2>5. /\ DOMAIN put.rooms = DOMAIN svc.rooms \cup {r}
        /\ \A x \in DOMAIN svc.rooms \cup {r} :
              put.rooms[x] = IF x = r THEN rm ELSE svc.rooms[x]
        /\ put = [rooms |-> put.rooms, next_battle_id |-> b]
    BY <2>1, PutIs
  <2> HIDE DEF put
  <2>6. new.rooms = put.rooms /\ new.next_battle_id = b + 1
    BY <2>5 DEF put
  <2> HIDE DEF new, b, reply
  <2>7. reply.ok = TRUE /\ reply.svc = new /\ reply.battle = b
    BY <2>3
  <2>8. \A x \in DOMAIN new.rooms : new.rooms[x].battle # NoBattle =>
           IF x = r THEN new.rooms[x].battle = b
           ELSE x \in DOMAIN svc.rooms /\ svc.rooms[x].battle = new.rooms[x].battle
    BY <2>4, <2>5, <2>6
  <2> QED
    BY <2>6, <2>7, <2>8 DEF Starts, reply, b
<1> QED
  BY <1>1, <1>2

-----------------------------------------------------------------------------
(* What a request does to the backends while every call is answered.       *)

\* The requests that change the rooms only, and give none a battle.
QuietOps == {"room_create", "room_join", "room_ready", "room_leave", "room_kick",
             "room_transfer_owner", "room_battle_finished"}

RoomsOnly(be) ==
    /\ be.live = live /\ be.board = board /\ be.ended = ended
    /\ NoNewBattle(room, be.room)

\* Room r does not hold battle b.
Freed(svc, r, b) ==
    \/ r \notin DOMAIN svc.rooms
    \/ svc.rooms[r].battle = NoBattle
    \/ svc.rooms[r].battle # b

\* What such a request does; room_battle_finished frees the room of the battle.
LEMMA RoomEffect ==
    ASSUME IInv, NEW q \in Request, NEW due \in BOOLEAN, NEW ends \in BOOLEAN,
           q.op \in QuietOps
    PROVE  /\ RoomsOnly(Outcome(q, due, ends).be)
           /\ q.op = "room_battle_finished" =>
                Freed(Outcome(q, due, ends).be.room, q.room, q.battle)
<1> DEFINE o == Outcome(q, due, ends)
<1>0. ServiceOK(room)
  BY UnchangedBackends
<1>a. ASSUME NEW reply
      PROVE  /\ ByRoom(reply).be.room = reply.svc /\ ByRoom(reply).be.live = live
             /\ ByRoom(reply).be.board = board /\ ByRoom(reply).be.ended = ended
  BY DEF ByRoom, Backends
<1>1. CASE q.op = "room_create"
  <2>1. o = ByRoom(RoomCreate(room, q.user, q.room, 0))
    BY <1>1 DEF Outcome
  <2>2. NoNewBattle(room, RoomCreate(room, q.user, q.room, 0).svc)
    BY <1>0, QuietHandlers, ZenonT(30)
  <2> QED
    BY <1>1, <1>a, <2>1, <2>2, ZenonT(30) DEF RoomsOnly
<1>2. CASE q.op = "room_join"
  <2>1. o = ByRoom(RoomJoin(room, q.user, q.room))
    BY <1>2 DEF Outcome
  <2>2. NoNewBattle(room, RoomJoin(room, q.user, q.room).svc)
    BY <1>0, QuietHandlers, ZenonT(30)
  <2> QED
    BY <1>2, <1>a, <2>1, <2>2, ZenonT(30) DEF RoomsOnly
<1>3. CASE q.op = "room_ready"
  <2>1. o = ByRoom(RoomReady(room, q.user, q.room, q.ready))
    BY <1>3 DEF Outcome
  <2>2. NoNewBattle(room, RoomReady(room, q.user, q.room, q.ready).svc)
    BY <1>0, <1>3, RequestFields, QuietHandlers, ZenonT(30)
  <2> QED
    BY <1>3, <1>a, <2>1, <2>2, ZenonT(30) DEF RoomsOnly
<1>4. CASE q.op = "room_leave"
  <2>1. o = ByRoom(RoomLeave(room, q.user, q.room))
    BY <1>4 DEF Outcome
  <2>2. NoNewBattle(room, RoomLeave(room, q.user, q.room).svc)
    BY <1>0, QuietLeave, ZenonT(30)
  <2> QED
    BY <1>4, <1>a, <2>1, <2>2, ZenonT(30) DEF RoomsOnly
<1>5. CASE q.op = "room_kick"
  <2>1. o = ByRoom(RoomKick(room, q.user, q.room, q.target))
    BY <1>5 DEF Outcome
  <2>2. NoNewBattle(room, RoomKick(room, q.user, q.room, q.target).svc)
    BY <1>0, QuietHandlers, ZenonT(30)
  <2> QED
    BY <1>5, <1>a, <2>1, <2>2, ZenonT(30) DEF RoomsOnly
<1>6. CASE q.op = "room_transfer_owner"
  <2>1. o = ByRoom(RoomTransferOwner(room, q.user, q.room, q.target))
    BY <1>6 DEF Outcome
  <2>2. NoNewBattle(room, RoomTransferOwner(room, q.user, q.room, q.target).svc)
    BY <1>0, QuietHandlers, ZenonT(30)
  <2> QED
    BY <1>6, <1>a, <2>1, <2>2, ZenonT(30) DEF RoomsOnly
<1>7. CASE q.op = "room_battle_finished"
  <2> DEFINE new == RoomBattleFinished(room, q.room, q.battle).svc
  <2>1. o = ByRoom(RoomBattleFinished(room, q.room, q.battle))
    BY <1>7 DEF Outcome
  <2>2. /\ NoNewBattle(room, new)
        /\ q.room \in DOMAIN new.rooms /\ new.rooms[q.room].battle # NoBattle =>
              new.rooms[q.room].battle # q.battle
    BY <1>0, QuietFinished, ZenonT(30)
  <2>3. /\ o.be.room = new /\ o.be.live = live
        /\ o.be.board = board /\ o.be.ended = ended
    BY <1>a, <2>1, ZenonT(30)
  <2> HIDE DEF new, o
  <2> QED
    BY <2>2, <2>3 DEF o, RoomsOnly, Freed
<1> QED
  BY <1>1, <1>2, <1>3, <1>4, <1>5, <1>6, <1>7, ZenonT(30) DEF QuietOps

\* room_start_battle.
LEMMA StartEffect ==
    ASSUME IInv, NEW q \in Request, NEW due \in BOOLEAN, NEW ends \in BOOLEAN,
           q.op = "room_start_battle"
    PROVE  LET o == Outcome(q, due, ends) IN
           /\ o.be.live = live /\ o.be.board = board /\ o.be.ended = ended
           /\ Starts(room, o.be.room, q.room, o.reply.battle, o.reply.ok)
           /\ o.reply.ok \in BOOLEAN
<1> DEFINE o == Outcome(q, due, ends)
           reply == RoomStartBattle(room, q.user, q.room)
           by == ByRoom(reply)
<1>1. o = IF by.reply.ok THEN [by EXCEPT !.reply.players = Members(room.rooms[q.room])]
          ELSE by
  BY DEF Outcome
<1>2. Starts(room, reply.svc, q.room, reply.battle, reply.ok) /\ reply.ok \in BOOLEAN
  BY UnchangedBackends, StartGives, ZenonT(30)
<1> HIDE DEF reply
<1>3. /\ by.be.room = reply.svc /\ by.be.live = live /\ by.be.board = board
      /\ by.be.ended = ended /\ by.reply.ok = reply.ok /\ by.reply.battle = reply.battle
  BY DEF ByRoom, Backends, Reply
<1>4. by = [reply |-> by.reply, be |-> by.be]
      /\ by.reply = [ok |-> by.reply.ok, ends |-> by.reply.ends, battle |-> by.reply.battle,
                     players |-> by.reply.players, scores |-> by.reply.scores]
  BY ZenonT(30) DEF ByRoom, Reply
<1> HIDE DEF by, o
<1>5. o.be = by.be /\ o.reply.ok = by.reply.ok /\ o.reply.battle = by.reply.battle
  <2>1. CASE ~by.reply.ok
    BY <1>1, <2>1
  <2>2. CASE by.reply.ok
    BY <1>1, <1>4, <2>2
  <2> QED
    BY <2>1, <2>2
<1> QED
  BY <1>2, <1>3, <1>5, ZenonT(30) DEF o

\* A battle is as it was, or its instance is released and its players are on record.
Ticks(be, b) ==
    /\ be.room = room /\ be.board = board
    /\ \/ DOMAIN be.live = DOMAIN live /\ be.ended = ended
       \/ /\ b \in DOMAIN live /\ DOMAIN be.live = DOMAIN live \ {b}
          /\ DOMAIN be.ended = DOMAIN ended \cup {b}
          /\ be.ended[b] = live[b].players
          /\ \A x \in DOMAIN ended : x # b => be.ended[x] = ended[x]

\* The release of an instance.
LEMMA ReleasedTicks ==
    ASSUME NEW b \in DOMAIN live
    PROVE  /\ Ticks(Released(b), b) /\ b \in DOMAIN Released(b).ended
           /\ Released(b).ended[b] = live[b].players
           /\ DOMAIN Released(b).live = DOMAIN live \ {b}
<1> DEFINE lv == [x \in DOMAIN live \ {b} |-> live[x]]
           en == [x \in DOMAIN ended \cup {b} |-> IF x = b THEN live[b].players ELSE ended[x]]
<1>1. Released(b) = [room |-> room, live |-> lv, board |-> board, ended |-> en]
  <2>1. Released(b) = [[Backends EXCEPT !.live = lv] EXCEPT !.ended = en]
    BY DEF Released, Backends
  <2>2. [Backends EXCEPT !.live = lv] = [room |-> room, live |-> lv, board |-> board,
                                         ended |-> ended]
    BY DEF Backends
  <2> HIDE DEF lv, en
  <2>3. [[room |-> room, live |-> lv, board |-> board, ended |-> ended] EXCEPT !.ended = en]
          = [room |-> room, live |-> lv, board |-> board, ended |-> en]
    OBVIOUS
  <2> QED
    BY <2>1, <2>2, <2>3, ZenonT(30)
<1>2. /\ DOMAIN lv = DOMAIN live \ {b} /\ DOMAIN en = DOMAIN ended \cup {b}
      /\ en[b] = live[b].players /\ \A x \in DOMAIN ended : x # b => en[x] = ended[x]
  OBVIOUS
<1> HIDE DEF lv, en
<1>3. /\ Released(b).room = room /\ Released(b).live = lv /\ Released(b).board = board
      /\ Released(b).ended = en
  BY <1>1
<1> QED
  BY <1>2, <1>3, ZenonT(30) DEF Ticks

\* A tick.
LEMMA TickedTicks ==
    ASSUME IInv, NEW b \in DOMAIN live, NEW ends \in BOOLEAN
    PROVE  /\ Ticks(Ticked(b, ends), b)
           /\ b \notin DOMAIN Ticked(b, ends).live =>
                 /\ b \in DOMAIN Ticked(b, ends).ended
                 /\ Ticked(b, ends).ended[b] = live[b].players
<1>1. CASE ends \/ live[b].frame + 1 >= MaxFrames
  <2>1. Ticked(b, ends) = Released(b)
    BY <1>1 DEF Ticked
  <2> QED
    BY <2>1, ReleasedTicks, ZenonT(30)
<1>2. CASE ~(ends \/ live[b].frame + 1 >= MaxFrames)
  <2> DEFINE lv == [live EXCEPT ![b].frame = @ + 1]
  <2>1. Ticked(b, ends) = [room |-> room, live |-> lv, board |-> board, ended |-> ended]
    BY <1>2 DEF Ticked, Backends
  <2>2. DOMAIN lv = DOMAIN live
    OBVIOUS
  <2> HIDE DEF lv
  <2>3. /\ Ticked(b, ends).room = room /\ Ticked(b, ends).live = lv
        /\ Ticked(b, ends).board = board /\ Ticked(b, ends).ended = ended
    BY <2>1
  <2> QED
    BY <2>2, <2>3, ZenonT(30) DEF Ticks
<1> QED
  BY <1>1, <1>2

\* The reply to a creation.
LEMMA ReplyBattle ==
    ASSUME NEW b
    PROVE  LET o == [Reply(TRUE) EXCEPT !.battle = b] IN o.ok = TRUE /\ o.battle = b
  BY DEF Reply

\* battle_create makes an instance of a battle that has none, unless the runtime is full.
LEMMA CreateEffect ==
    ASSUME NEW q \in Request, NEW due \in BOOLEAN, NEW ends \in BOOLEAN,
           q.op = "battle_create", q.battle \notin DOMAIN live,
           ~Full
    PROVE  LET o == Outcome(q, due, ends) IN
           /\ o.be.room = room /\ o.be.board = board /\ o.be.ended = ended
           /\ DOMAIN o.be.live = DOMAIN live \cup {q.battle}
           /\ o.reply.ok /\ o.reply.battle = q.battle
<1> DEFINE o == Outcome(q, due, ends)
           b == q.battle
           lv == [x \in DOMAIN live \cup {b} |->
                     IF x = b THEN [players |-> q.players, frame |-> 0] ELSE live[x]]
<1>1. o = BattleCreate(q)
  BY DEF Outcome
<1>8. BattleCreate(q) = [reply |-> [Reply(TRUE) EXCEPT !.battle = b],
                         be |-> [Backends EXCEPT !.live = lv]]
  <2>1. Backends.live = live
    BY DEF Backends
  <2> QED
    BY <2>1, ZenonT(30) DEF BattleCreate
<1>2. o.reply = [Reply(TRUE) EXCEPT !.battle = b]
      /\ o.be = [room |-> room, live |-> lv, board |-> board, ended |-> ended]
  BY <1>1, <1>8 DEF Backends
<1>3. DOMAIN lv = DOMAIN live \cup {b}
  BY ZenonT(30)
<1>4. LET reply == [Reply(TRUE) EXCEPT !.battle = b] IN reply.ok = TRUE /\ reply.battle = b
  BY ReplyBattle, ZenonT(30)
<1> HIDE DEF lv, o
<1>5. o.be.room = room /\ o.be.live = lv /\ o.be.board = board /\ o.be.ended = ended
  BY <1>2
<1>7. o.reply.ok = TRUE /\ o.reply.battle = b
  BY <1>2, <1>4
<1> QED
  BY <1>3, <1>5, <1>7, ZenonT(30) DEF o

\* A battle_create that finds the runtime full changes nothing.
LEMMA RefusalEffect ==
    ASSUME NEW q \in Request, NEW due \in BOOLEAN, NEW ends \in BOOLEAN,
           q.op = "battle_create", Full
    PROVE  LET o == Outcome(q, due, ends) IN
           /\ o.be.room = room /\ o.be.board = board /\ o.be.ended = ended
           /\ o.be.live = live /\ ~o.reply.ok
<1> DEFINE o == Outcome(q, due, ends)
<1>1. o = BattleCreate(q)
  BY DEF Outcome
<1>2. o.reply = Reply(FALSE) /\ o.be = Backends
  BY <1>1 DEF BattleCreate
<1>3. ~Reply(FALSE).ok
  BY DEF Reply
<1> HIDE DEF o
<1>4. o.be.room = room /\ o.be.board = board /\ o.be.ended = ended /\ o.be.live = live
  BY <1>2 DEF Backends
<1> QED
  BY <1>2, <1>3, <1>4, ZenonT(30) DEF o

\* An input ticks the battle; the reply that ends it has the players' scores.
LEMMA InputEffect ==
    ASSUME IInv, NEW q \in Request, NEW due \in BOOLEAN, NEW ends \in BOOLEAN,
           q.op = "battle_input"
    PROVE  LET o == Outcome(q, due, ends) IN
           /\ Ticks(o.be, q.battle)
           /\ o.reply.ends => /\ q.battle \in DOMAIN o.be.ended
                              /\ o.reply.scores = o.be.ended[q.battle]
<1> DEFINE o == Outcome(q, due, ends)
           b == q.battle
<1>1. o = BattleInput(q, ends)
  BY DEF Outcome
<1>2. CASE ~(b \in DOMAIN live /\ q.user \in live[b].players)
  <2>1. o = [reply |-> Reply(FALSE), be |-> Backends]
    BY <1>1, <1>2, ZenonT(30) DEF BattleInput
  <2>2. ~Reply(FALSE).ends
    BY PlainReply, ZenonT(30)
  <2>3. Ticks(Backends, b)
    BY DEF Ticks, Backends
  <2> HIDE DEF o
  <2>4. o.reply = Reply(FALSE) /\ o.be = Backends
    BY <2>1
  <2> QED
    BY <2>2, <2>3, <2>4, ZenonT(30) DEF o
<1>3. CASE b \in DOMAIN live /\ q.user \in live[b].players
  <2> DEFINE fin == b \notin DOMAIN Ticked(b, ends).live
             scores == IF fin THEN live[b].players ELSE {}
             reply == [Reply(TRUE) EXCEPT !.ends = fin, !.scores = scores]
  <2>1. o.reply = reply /\ o.be = Ticked(b, ends)
    BY <1>1, <1>3 DEF BattleInput
  <2>2. live[b].players \in SUBSET User
    BY <1>3, ZenonT(30) DEF IInv, TypeOK, IsMap
  <2>3. fin \in BOOLEAN /\ scores \in SUBSET User
    BY <2>2, ZenonT(30)
  <2>4. fin => scores = live[b].players
    OBVIOUS
  <2>5. /\ Ticks(Ticked(b, ends), b)
        /\ fin => b \in DOMAIN Ticked(b, ends).ended
                  /\ Ticked(b, ends).ended[b] = live[b].players
    BY <1>3, TickedTicks, ZenonT(30)
  <2> HIDE DEF fin, scores
  <2>6. (reply.ends <=> fin) /\ reply.scores = scores
    BY <2>3, ScoresReply, ZenonT(30)
  <2> HIDE DEF reply, o
  <2> QED
    BY <2>1, <2>4, <2>5, <2>6, ZenonT(30) DEF o
<1> QED
  BY <1>2, <1>3

\* A query ticks the battle.
LEMMA StateEffect ==
    ASSUME IInv, NEW q \in Request, NEW due \in BOOLEAN, NEW ends \in BOOLEAN,
           q.op = "battle_state"
    PROVE  Ticks(Outcome(q, due, ends).be, q.battle)
<1> DEFINE b == q.battle
<1>1. Outcome(q, due, ends) = BattleState(q, due, ends)
  BY DEF Outcome
<1>2. Ticks(Backends, b)
  BY DEF Ticks, Backends
<1>3. CASE b \in DOMAIN live /\ due
  <2>1. Outcome(q, due, ends).be = Ticked(b, ends)
    BY <1>1, <1>3 DEF BattleState
  <2> QED
    BY <1>3, <2>1, TickedTicks, ZenonT(30)
<1>4. CASE ~(b \in DOMAIN live /\ due)
  <2>1. Outcome(q, due, ends).be = Backends
    BY <1>1, <1>4 DEF BattleState
  <2> QED
    BY <1>2, <2>1, ZenonT(30)
<1> QED
  BY <1>3, <1>4

\* battle_finish releases the instance and has the scores, or finds none and has none.
LEMMA FinishEffect ==
    ASSUME IInv, NEW q \in Request, NEW due \in BOOLEAN, NEW ends \in BOOLEAN,
           q.op = "battle_finish", q.battle \in Created
    PROVE  LET o == Outcome(q, due, ends) IN
           /\ Ticks(o.be, q.battle) /\ o.reply.ok /\ q.battle \in DOMAIN o.be.ended
           /\ o.reply.scores = o.be.ended[q.battle] \/ o.reply.scores = {}
<1> DEFINE o == Outcome(q, due, ends)
           b == q.battle
<1>1. o = BattleFinish(q)
  BY DEF Outcome
<1>2. CASE b \in DOMAIN live
  <2> DEFINE reply == [Reply(TRUE) EXCEPT !.ends = TRUE, !.scores = live[b].players]
  <2>1. o.reply = reply /\ o.be = Released(b)
    BY <1>1, <1>2 DEF BattleFinish
  <2>2. /\ Ticks(Released(b), b) /\ b \in DOMAIN Released(b).ended
        /\ Released(b).ended[b] = live[b].players
    BY <1>2, ReleasedTicks, ZenonT(30)
  <2>3. reply = [ok |-> TRUE, ends |-> TRUE, battle |-> NoBattle, players |-> {},
                 scores |-> live[b].players]
    <3> DEFINE scores == live[b].players
    <3> HIDE DEF scores
    <3>1. [Reply(TRUE) EXCEPT !.ends = TRUE, !.scores = scores] =
            [ok |-> TRUE, ends |-> TRUE, battle |-> NoBattle, players |-> {},
             scores |-> scores]
      BY ReplyScores, ZenonT(30)
    <3> QED
      BY <3>1 DEF scores
  <2> HIDE DEF reply, o
  <2>4. reply.ok /\ reply.scores = live[b].players
    BY <2>3, ZenonT(30)
  <2> QED
    BY <2>1, <2>2, <2>4, ZenonT(30) DEF o
<1>3. CASE b \notin DOMAIN live
  <2> DEFINE reply == [Reply(TRUE) EXCEPT !.ends = TRUE]
  <2>1. o.reply = reply /\ o.be = Backends
    BY <1>1, <1>3 DEF BattleFinish
  <2>2. Ticks(Backends, b)
    BY DEF Ticks, Backends
  <2>3. b \in DOMAIN Backends.ended
    BY <1>3 DEF Created, Backends
  <2>4. reply = [ok |-> TRUE, ends |-> TRUE, battle |-> NoBattle, players |-> {},
                 scores |-> {}]
    BY ReplyEnds, ZenonT(30)
  <2> HIDE DEF reply, o
  <2>5. reply.ok /\ reply.scores = {}
    BY <2>4, ZenonT(30)
  <2> QED
    BY <2>1, <2>2, <2>3, <2>5, ZenonT(30) DEF o
<1> QED
  BY <1>2, <1>3

\* The backends after leaderboard_submit of a key the leaderboard has not seen.
Submitted(k) == [Backends EXCEPT !.board.keys = @ \cup {k}, !.board.applied[k] = @ + 1]

\* A submission with a new key, field by field.
LEMMA SubmittedIs ==
    ASSUME NEW k, NEW keys, NEW applied, board = [keys |-> keys, applied |-> applied]
    PROVE  /\ Submitted(k).room = room /\ Submitted(k).live = live
           /\ Submitted(k).ended = ended /\ Submitted(k).board.keys = keys \cup {k}
           /\ Submitted(k).board.applied = [applied EXCEPT ![k] = @ + 1]
<1> DEFINE more == keys \cup {k}
           next == [applied EXCEPT ![k] = @ + 1]
<1>1. [Backends EXCEPT !.board.keys = @ \cup {k}, !.board.applied[k] = @ + 1] =
        [[Backends EXCEPT !.board.keys = @ \cup {k}] EXCEPT !.board.applied[k] = @ + 1]
  BY ZenonT(30)
<1>2. [Backends EXCEPT !.board.keys = @ \cup {k}] =
        [room |-> room, live |-> live, board |-> [keys |-> more, applied |-> applied],
         ended |-> ended]
  <2>1. [board EXCEPT !.keys = @ \cup {k}] = [keys |-> more, applied |-> applied]
    OBVIOUS
  <2> DEFINE mid == [keys |-> more, applied |-> applied]
  <2> HIDE DEF mid
  <2>2. [board EXCEPT !.keys = @ \cup {k}] = mid
    BY <2>1 DEF mid
  <2>3. [Backends EXCEPT !.board.keys = @ \cup {k}] =
          [room |-> room, live |-> live, board |-> mid, ended |-> ended]
    BY <2>2 DEF Backends
  <2> QED
    BY <2>3 DEF mid
<1>3. [[keys |-> more, applied |-> applied] EXCEPT !.applied[k] = @ + 1] =
        [keys |-> more, applied |-> next]
  OBVIOUS
<1> DEFINE mid == [keys |-> more, applied |-> applied]
           bd  == [keys |-> more, applied |-> next]
<1> HIDE DEF mid, bd
<1>4. [[room |-> room, live |-> live, board |-> mid, ended |-> ended]
          EXCEPT !.board.applied[k] = @ + 1] =
        [room |-> room, live |-> live, board |-> bd, ended |-> ended]
  BY <1>3 DEF mid, bd
<1>5. [Backends EXCEPT !.board.keys = @ \cup {k}, !.board.applied[k] = @ + 1] =
        [room |-> room, live |-> live, board |-> bd, ended |-> ended]
  BY <1>1, <1>2, <1>4, ZenonT(30) DEF mid
<1> HIDE DEF next
<1>6. bd.keys = more /\ bd.applied = next
  BY DEF bd
<1>7. Submitted(k) = [room |-> room, live |-> live, board |-> bd, ended |-> ended]
  BY <1>5 DEF Submitted
<1> QED
  BY <1>6, <1>7 DEF next

\* The leaderboard has seen the key of a submission, and has applied it.
LEMMA SubmitEffect ==
    ASSUME IInv, NEW q \in Request, NEW due \in BOOLEAN, NEW ends \in BOOLEAN,
           q.op = "leaderboard_submit",
           \A x \in Key : x \in board.keys => board.applied[x] > 0
    PROVE  LET o == Outcome(q, due, ends) IN
           /\ o.be.room = room /\ o.be.live = live /\ o.be.ended = ended
           /\ o.be.board.keys = board.keys \cup {<<q.battle, q.user>>}
           /\ \A x \in Key : x \in o.be.board.keys => o.be.board.applied[x] > 0
           /\ o.reply.ok
<1> DEFINE o == Outcome(q, due, ends)
           k == <<q.battle, q.user>>
<1>1. o = LeaderboardSubmit(q)
  BY DEF Outcome
<1>2. o.reply.ok
  <2>1. o.reply = Reply(TRUE)
    BY <1>1 DEF LeaderboardSubmit
  <2> QED
    BY <2>1, PlainReply, ZenonT(30)
<1>3. CASE k \in board.keys
  <2>1. o.be = Backends
    BY <1>1, <1>3 DEF LeaderboardSubmit
  <2>2. /\ Backends.room = room /\ Backends.live = live /\ Backends.board = board
        /\ Backends.ended = ended
    BY DEF Backends
  <2>3. board.keys = board.keys \cup {k}
    BY <1>3
  <2> HIDE DEF o
  <2> QED
    BY <1>2, <2>1, <2>2, <2>3, ZenonT(30) DEF o
<1>4. CASE k \notin board.keys
  <2>0. board \in [keys : SUBSET (Nat \X User), applied : [Key -> Nat]]
    BY ZenonT(30) DEF IInv, TypeOK
  <2>1. o.be = Submitted(k)
    BY <1>1, <1>4 DEF LeaderboardSubmit, Submitted
  <2>2. PICK keys, applied : board = [keys |-> keys, applied |-> applied]
    BY <2>0
  <2>3. board.keys = keys /\ board.applied = applied
    BY <2>2
  <2> HIDE DEF k
  <2>4. /\ Submitted(k).room = room /\ Submitted(k).live = live
        /\ Submitted(k).ended = ended /\ Submitted(k).board.keys = keys \cup {k}
        /\ Submitted(k).board.applied = [applied EXCEPT ![k] = @ + 1]
    BY <2>2, SubmittedIs
  <2> DEFINE bd == Submitted(k).board
  <2> HIDE DEF bd
  <2>5. bd.keys = board.keys \cup {k} /\ bd.applied = [board.applied EXCEPT ![k] = @ + 1]
    BY <2>3, <2>4, ZenonT(30) DEF bd
  <2>6. \A x \in Key : x \in bd.keys => bd.applied[x] > 0
    <3> SUFFICES ASSUME NEW x \in Key, x \in bd.keys PROVE bd.applied[x] > 0
      OBVIOUS
    <3>1. board.applied[x] \in Nat
      BY <2>0
    <3>2. bd.applied[x] = IF x = k THEN board.applied[x] + 1 ELSE board.applied[x]
      BY <2>0, <2>5
    <3>3. x # k => board.applied[x] > 0
      BY <2>5
    <3> QED
      BY <3>1, <3>2, <3>3
  <2> HIDE DEF o
  <2> QED
    BY <1>2, <2>1, <2>4, <2>5, <2>6, ZenonT(30) DEF o, bd, k
<1> QED
  BY <1>3, <1>4

-----------------------------------------------------------------------------
(* What a step leaves of the invariant.                                    *)

\* Where the gateway worker is.
LEMMA Places ==
    ASSUME IInv
    PROVE  /\ call = Idle => call.at = "idle"
           /\ call # Idle => /\ call.q \in Request /\ RequestOK(call.q)
                             /\ call.q.op \in OpsOf(call.at)
                             /\ call.at \in {"plain", "enter", "leave", "close", "start",
                                             "create", "finish", "submit", "free"}
<1>1. call = Idle => call.at = "idle"
  BY DEF Idle
<1>2. ASSUME call # Idle
      PROVE  /\ call.q \in Request /\ RequestOK(call.q) /\ call.q.op \in OpsOf(call.at)
             /\ call.at \in {"plain", "enter", "leave", "close", "start", "create",
                             "finish", "submit", "free"}
  <2>1. call \in Call /\ CallFits(call, Created, DOMAIN ended)
    BY <1>2, ZenonT(30) DEF IInv, TypeOK, CallsOK
  <2> QED
    BY <2>1 DEF Call, CallFits, RequestOK
<1> QED
  BY <1>1, <1>2

\* The completions whose push carries the scores of their battle.
PushesOK == \A i \in 1..Len(completions) :
    completions[i].ends => completions[i].scores = ended[completions[i].battle]

\* A battle that ended keeps its record.
KeepsEnded == \A x \in DOMAIN ended : x \in DOMAIN ended' /\ ended'[x] = ended[x]

(* A tick creates no battle and keeps the records of the others. *)
LEMMA TicksKeep ==
    ASSUME NamesOK, NEW be, NEW b, Ticks(be, b), Become(be)
    PROVE  /\ room' = room /\ board' = board /\ KeepsEnded
           /\ Created' \subseteq Created /\ DOMAIN live' \cap DOMAIN ended' = {}
<1>1. DOMAIN live \cap DOMAIN ended = {}
  BY DEF NamesOK
<1>2. CASE DOMAIN be.live = DOMAIN live /\ be.ended = ended
  BY <1>1, <1>2 DEF Ticks, Become, KeepsEnded, Created
<1>3. CASE /\ b \in DOMAIN live /\ DOMAIN be.live = DOMAIN live \ {b}
           /\ DOMAIN be.ended = DOMAIN ended \cup {b}
           /\ be.ended[b] = live[b].players
           /\ \A x \in DOMAIN ended : x # b => be.ended[x] = ended[x]
  BY <1>1, <1>3 DEF Ticks, Become, KeepsEnded, Created
<1> QED
  BY <1>2, <1>3 DEF Ticks

(* A step that gives out no number and creates no battle. *)
LEMMA SameNames ==
    ASSUME NamesOK, room'.next_battle_id = room.next_battle_id, Created' \subseteq Created,
           DOMAIN live' \cap DOMAIN ended' = {}, call'.at \notin {"start", "create"}
    PROVE  NamesOK'
  BY DEF NamesOK

(* A step that gives no room a battle and keeps the gateway's record. *)
LEMMA SameRoutes ==
    ASSUME RoutesOK, NoNewBattle(room, room'), room_to_battle' = room_to_battle,
           Created' \subseteq Created, call.at # "create", call'.at # "create",
           call'.at = "free" => call'.q.room = call'.room /\ call'.q.battle = call'.battle
    PROVE  RoutesOK'
  BY DEF RoutesOK, Routed, NoNewBattle

(* The completions of a step that keeps the records of ended battles. *)
LEMMA SamePushes ==
    ASSUME IInv, PushesOK, KeepsEnded, completions' = completions
    PROVE  PushesOK'
  BY DEF IInv, GatewayOK, PushesOK, KeepsEnded

(* A step that settles nothing. *)
LEMMA SamePay ==
    ASSUME IInv, PayOK, board' = board, settled' = settled, completed' = completed,
           KeepsEnded, PushesOK', call.at # "submit", call'.at # "submit"
    PROVE  PayOK'
<1>1. completed \subseteq DOMAIN ended
  BY DEF IInv, GatewayOK
<1>2. \A b \in completed : PaidAll(b)' \/ PaidNone(b)'
  <2> SUFFICES ASSUME NEW b \in completed PROVE PaidAll(b)' \/ PaidNone(b)'
    OBVIOUS
  <2>1. ended'[b] = ended[b]
    BY <1>1 DEF KeepsEnded
  <2>2. PaidAll(b) \/ PaidNone(b)
    BY DEF PayOK
  <2> QED
    BY <2>1, <2>2 DEF PaidAll, PaidNone
<1>3. /\ \A k \in settled : k[1] \in completed
      /\ board.keys = settled
      /\ \A k \in Key : k \in board.keys => board.applied[k] > 0
  BY DEF PayOK
<1> QED
  BY <1>2, <1>3 DEF PayOK, PushesOK

(* A step beside the gateway worker: an input, an expiry. *)
LEMMA Aside ==
    ASSUME IInv, NamesOK, RoutesOK, PayOK, call' = call, NoNewBattle(room, room'),
           Created' \subseteq Created, DOMAIN live' \cap DOMAIN ended' = {},
           board' = board, KeepsEnded, PushesOK', room_to_battle' = room_to_battle,
           settled' = settled, completed' = completed
    PROVE  NamesOK' /\ RoutesOK' /\ PayOK'
<1>1. NamesOK'
  BY DEF NamesOK, NoNewBattle
<1>2. RoutesOK'
  BY DEF RoutesOK, Routed, NoNewBattle
<1>3. \A b \in completed : ended'[b] = ended[b]
  BY DEF IInv, GatewayOK, KeepsEnded
<1>4. \A b \in completed : (PaidAll(b)' <=> PaidAll(b)) /\ (PaidNone(b)' <=> PaidNone(b))
  BY <1>3 DEF PaidAll, PaidNone
<1>5. call.at = "submit" => ended'[call.battle] = ended[call.battle]
  BY <1>3 DEF PayOK
<1>6. /\ \A k \in settled' : k[1] \in completed'
      /\ board'.keys \subseteq settled'
      /\ \A k \in settled' :
            k \in board'.keys \/ (call'.at = "submit" /\ k = <<call'.battle, call'.q.user>>)
      /\ \A k \in Key : k \in board'.keys => board'.applied[k] > 0
  BY DEF PayOK
<1>7. call'.at = "submit" =>
         /\ call'.q.battle = call'.battle /\ call'.battle \in completed'
         /\ <<call'.battle, call'.q.user>> \in settled'
         /\ \A u \in ended'[call'.battle] : u = call'.q.user \/ u \in call'.scores
                                            \/ <<call'.battle, u>> \in board'.keys
  BY <1>5 DEF PayOK
<1>8. \A b \in completed' :
         PaidAll(b)' \/ PaidNone(b)' \/ (call'.at = "submit" /\ call'.battle = b)
  BY <1>4 DEF PayOK
<1> QED
  BY <1>1, <1>2, <1>6, <1>7, <1>8 DEF PayOK, PushesOK

\* The leaderboard has all the keys held, and the scores are what is to be paid for b.
Owes(b, scores, keys) ==
    /\ keys = board'.keys /\ b \in completed'
    /\ \A k \in keys : k[1] \in completed'
    /\ \A c \in completed' : c # b => PaidAll(c)' \/ PaidNone(c)'
    /\ \/ PaidNone(b)' /\ scores = {}
       \/ \A u \in ended'[b] : u \in scores \/ <<b, u>> \in keys
    /\ PushesOK'
    /\ \A k \in Key : k \in board'.keys => board'.applied[k] > 0

(* The settlement loop pays what is owed. *)
LEMMA SubmitFromPays ==
    ASSUME NEW r, NEW b, NEW scores, NEW keys, SubmitFrom(r, b, scores, keys),
           Owes(b, scores, keys)
    PROVE  /\ PayOK' /\ call'.at \in {"submit", "free"}
           /\ call'.at = "free" => call'.q.room = call'.room /\ call'.q.battle = call'.battle
<1> DEFINE todo == {u \in scores : <<b, u>> \notin keys}
<1>0. /\ keys = board'.keys /\ b \in completed'
      /\ \A k \in keys : k[1] \in completed'
      /\ \A c \in completed' : c # b => PaidAll(c)' \/ PaidNone(c)'
      /\ \/ PaidNone(b)' /\ scores = {}
         \/ \A u \in ended'[b] : u \in scores \/ <<b, u>> \in keys
      /\ PushesOK'
      /\ \A k \in Key : k \in board'.keys => board'.applied[k] > 0
  BY DEF Owes
<1>1. CASE /\ todo = {} /\ settled' = keys
           /\ call' = [Ask("free", [op |-> "room_battle_finished", room |-> r, battle |-> b])
                          EXCEPT !.room = r, !.battle = b]
  <2> DEFINE q == [op |-> "room_battle_finished", room |-> r, battle |-> b]
  <2>1. q.room = r /\ q.battle = b
    OBVIOUS
  <2> HIDE DEF q
  <2>2. call' = CallOf("free", q, r, b, {})
    BY <1>1, AskForBattle, ZenonT(30) DEF q
  <2>3. call'.at = "free" /\ call'.q = q /\ call'.room = r /\ call'.battle = b
    BY <2>2 DEF CallOf
  <2>4. PaidAll(b)' \/ PaidNone(b)'
    <3>1. CASE \A u \in ended'[b] : u \in scores \/ <<b, u>> \in keys
      <4>1. \A u \in scores : <<b, u>> \in keys
        BY <1>1
      <4> QED
        BY <1>0, <3>1, <4>1 DEF PaidAll
    <3> QED
      BY <1>0, <3>1
  <2>5. \A c \in completed' : PaidAll(c)' \/ PaidNone(c)'
    BY <1>0, <2>4
  <2>6. PayOK'
    BY <1>0, <1>1, <2>3, <2>5 DEF PayOK, PushesOK
  <2> QED
    BY <2>1, <2>3, <2>6
<1>2. ASSUME NEW u \in todo, settled' = keys \cup {<<b, u>>},
             call' = [Ask("submit", [op |-> "leaderboard_submit", user |-> u, battle |-> b])
                         EXCEPT !.room = r, !.battle = b, !.scores = todo \ {u}]
      PROVE  PayOK' /\ call'.at = "submit"
  <2> DEFINE q == [op |-> "leaderboard_submit", user |-> u, battle |-> b]
             left == todo \ {u}
  <2>1. q.user = u /\ q.battle = b
    OBVIOUS
  <2> HIDE DEF q, left
  <2>2. call' = CallOf("submit", q, r, b, left)
    BY <1>2, AskForScores, ZenonT(30) DEF q, left
  <2>3. /\ call'.at = "submit" /\ call'.q = q /\ call'.room = r /\ call'.battle = b
        /\ call'.scores = left
    BY <2>2 DEF CallOf
  <2>4. scores # {}
    BY <1>2
  <2>5. ASSUME NEW v \in ended'[b] PROVE v = u \/ v \in left \/ <<b, v>> \in keys
    <3>1. v \in scores \/ <<b, v>> \in keys
      BY <1>0, <2>4
    <3> QED
      BY <3>1 DEF left
  <2>6. /\ \A k \in settled' : k[1] \in completed'
        /\ \A k \in settled' : k \in keys \/ k = <<b, u>>
        /\ keys \subseteq settled' /\ <<b, u>> \in settled'
    BY <1>0, <1>2
  <2>7. /\ call'.at = "submit" /\ call'.q.battle = b /\ call'.q.user = u
        /\ call'.battle = b /\ call'.scores = left
    BY <2>1, <2>3
  <2>8. PayOK'
    BY <1>0, <2>5, <2>6, <2>7 DEF PayOK, PushesOK
  <2> QED
    BY <2>7, <2>8
<1> QED
  BY <1>1, <1>2 DEF SubmitFrom

(* on_battle_finished_push for a battle with the scores of its record, or with none. *)
LEMMA FinishedPushPays ==
    ASSUME IInv, PayOK, board' = board, KeepsEnded, PushesOK', call.at # "submit",
           NEW r, NEW b, NEW scores, scores = ended'[b] \/ scores = {},
           FinishedPush(r, b, scores)
    PROVE  /\ PayOK' /\ call'.at \in {"idle", "submit", "free"}
           /\ call'.at = "free" => call'.q.room = call'.room /\ call'.q.battle = call'.battle
<1>1. CASE b \in completed
  <2>1. call' = Idle /\ completed' = completed /\ settled' = settled
    BY <1>1 DEF FinishedPush
  <2>2. call'.at = "idle"
    BY <2>1 DEF Idle
  <2>3. PayOK'
    BY <2>1, <2>2, SamePay
  <2> QED
    BY <2>2, <2>3
<1>2. CASE b \notin completed
  <2>1. completed' = completed \cup {b} /\ SubmitFrom(r, b, scores, settled)
    BY <1>2 DEF FinishedPush
  <2>2. /\ \A k \in settled : k[1] \in completed
        /\ board.keys = settled
        /\ \A k \in Key : k \in board.keys => board.applied[k] > 0
    BY DEF PayOK
  <2>3. \A u : <<b, u>> \notin settled
    BY <1>2, <2>2
  <2>4. PaidNone(b)'
    BY <2>2, <2>3 DEF PaidNone
  <2>5. \A c \in completed' : c # b => PaidAll(c)' \/ PaidNone(c)'
    <3> SUFFICES ASSUME NEW c \in completed PROVE PaidAll(c)' \/ PaidNone(c)'
      BY <2>1
    <3>1. c \in DOMAIN ended
      BY DEF IInv, GatewayOK
    <3>2. ended'[c] = ended[c]
      BY <3>1 DEF KeepsEnded
    <3>3. PaidAll(c) \/ PaidNone(c)
      BY DEF PayOK
    <3> QED
      BY <3>2, <3>3 DEF PaidAll, PaidNone
  <2>6. \/ PaidNone(b)' /\ scores = {}
        \/ \A u \in ended'[b] : u \in scores \/ <<b, u>> \in settled
    BY <2>4
  <2>7. /\ settled = board'.keys /\ \A k \in settled : k[1] \in completed'
        /\ b \in completed' /\ \A k \in Key : k \in board'.keys => board'.applied[k] > 0
    BY <2>1, <2>2
  <2>8. /\ PayOK' /\ call'.at \in {"submit", "free"}
        /\ call'.at = "free" => call'.q.room = call'.room /\ call'.q.battle = call'.battle
    <3>1. Owes(b, scores, settled)
      BY <2>5, <2>6, <2>7 DEF Owes
    <3> QED
      BY <2>1, <3>1, SubmitFromPays, ZenonT(30)
  <2> QED
    BY <2>8
<1> QED
  BY <1>1, <1>2

-----------------------------------------------------------------------------
(* The steps while every call is answered.                                 *)

\* What the invariant says of a state in which no call was lost.
Answers == NamesOK /\ RoutesOK /\ PayOK

(* A step that changes the rooms only, gives none a battle and ends in no call. *)
LEMMA QuietStep ==
    ASSUME IInv, Answers, NoNewBattle(room, room'),
           live' = live /\ board' = board /\ ended' = ended,
           completions' = completions, room_to_battle' = room_to_battle,
           settled' = settled, completed' = completed,
           call.at \notin {"create", "submit"},
           call'.at \notin {"start", "create", "submit", "free"}
    PROVE  Answers'
<1>1. KeepsEnded /\ PushesOK
  BY DEF KeepsEnded, Answers, PayOK, PushesOK
<1>2. PushesOK'
  BY <1>1, SamePushes
<1>3. NamesOK'
  BY SameNames, ZenonT(30) DEF Answers, NamesOK, NoNewBattle, Created
<1>4. RoutesOK'
  BY SameRoutes, ZenonT(30) DEF Answers, Created
<1>5. PayOK'
  BY <1>1, <1>2, SamePay, ZenonT(30) DEF Answers
<1> QED
  BY <1>3, <1>4, <1>5 DEF Answers

(* The rooms as they are give none a battle. *)
LEMMA SameQuiet == room' = room => NoNewBattle(room, room')
  BY DEF NoNewBattle

(* A tick in a step that ends in no call. *)
LEMMA TickStep ==
    ASSUME IInv, Answers, NEW be, NEW b, Ticks(be, b), Become(be),
           completions' = completions, room_to_battle' = room_to_battle,
           settled' = settled, completed' = completed,
           call.at \notin {"create", "submit"},
           call'.at \notin {"start", "create", "submit", "free"}
    PROVE  Answers'
<1>1. /\ room' = room /\ board' = board /\ KeepsEnded
      /\ Created' \subseteq Created /\ DOMAIN live' \cap DOMAIN ended' = {}
  BY TicksKeep, ZenonT(30) DEF Answers
<1>2. PushesOK'
  BY <1>1, SamePushes DEF Answers, PayOK, PushesOK
<1>3. NamesOK'
  BY <1>1, SameNames, ZenonT(30) DEF Answers
<1>4. RoutesOK'
  BY <1>1, SameRoutes, SameQuiet, ZenonT(30) DEF Answers
<1>5. PayOK'
  BY <1>1, <1>2, SamePay, ZenonT(30) DEF Answers
<1> QED
  BY <1>3, <1>4, <1>5 DEF Answers

(* The answer to room_start_battle. *)
LEMMA StartAnswered ==
    ASSUME IInv, Answers, call # Idle, call.at = "start", NEW o, Become(o.be),
           o.be.live = live /\ o.be.board = board /\ o.be.ended = ended,
           Starts(room, o.be.room, call.q.room, o.reply.battle, o.reply.ok),
           o.reply.ok \in BOOLEAN, AfterStart(o.reply), completions' = completions
    PROVE  Answers'
<1>0. /\ room' = o.be.room /\ live' = live /\ board' = board /\ ended' = ended
      /\ room_to_battle' = room_to_battle /\ completed' = completed /\ settled' = settled
  BY DEF Become, AfterStart
<1>1. CASE ~o.reply.ok
  <2>1. call' = Idle /\ room' = room
    BY <1>0, <1>1 DEF AfterStart, Starts
  <2>2. call'.at = "idle"
    BY <2>1 DEF Idle
  <2> QED
    BY <1>0, <2>1, <2>2, QuietStep, SameQuiet
<1>2. CASE o.reply.ok
  <2> DEFINE b == o.reply.battle
             q == [op |-> "battle_create", battle |-> b, players |-> o.reply.players]
  <2>1. /\ b = room.next_battle_id /\ room'.next_battle_id = b + 1
        /\ \A x \in DOMAIN room'.rooms : room'.rooms[x].battle # NoBattle =>
              IF x = call.q.room THEN room'.rooms[x].battle = b
              ELSE x \in DOMAIN room.rooms /\ room.rooms[x].battle = room'.rooms[x].battle
    BY <1>0, <1>2 DEF Starts
  <2>2. q.battle = b
    OBVIOUS
  <2>3. call' = [Ask("create", q) EXCEPT !.room = call.q.room]
    BY <1>2 DEF AfterStart
  <2> HIDE DEF q, b
  <2>4. call' = CallOf("create", q, call.q.room, NoBattle, {})
    BY <2>3, AskForRoom, ZenonT(30)
  <2>5. call'.at = "create" /\ call'.q.battle = b /\ call'.room = call.q.room
    BY <2>2, <2>4 DEF CallOf
  <2>6. KeepsEnded /\ PushesOK
    BY <1>0 DEF KeepsEnded, Answers, PayOK, PushesOK
  <2>7. PushesOK'
    BY <2>6, SamePushes
  <2>8. PayOK'
    BY <1>0, <2>5, <2>6, <2>7, SamePay, ZenonT(30) DEF Answers
  <2>9. NamesOK'
    <3>1. /\ room.next_battle_id \in Nat \ {0} /\ room.next_battle_id <= MaxBattles
          /\ Created \subseteq 1..(room.next_battle_id - 1)
          /\ DOMAIN live \cap DOMAIN ended = {}
      BY DEF Answers, NamesOK, IInv, TypeOK, IsService
    <3>2. Created' = Created
      BY <1>0 DEF Created
    <3>3. \A x \in Created : x \in 1..b /\ x # b
      BY <2>1, <3>1
    <3>4. MaxBattles \in Nat
      BY FlowAssumption
    <3>5. /\ room'.next_battle_id <= MaxBattles + 1 /\ room'.next_battle_id - 1 = b
          /\ b \in 1..b
      BY <2>1, <3>1, <3>4
    <3> QED
      BY <1>0, <2>5, <3>1, <3>2, <3>3, <3>5 DEF NamesOK
  <2>10. RoutesOK'
    <3>1. \A x \in DOMAIN room.rooms : room.rooms[x].battle # NoBattle =>
             room.rooms[x].battle < room.next_battle_id /\ Routed(x, room.rooms[x].battle)
      BY DEF Answers, RoutesOK
    <3>2. room.next_battle_id \in Nat /\ \A x \in DOMAIN room.rooms : room.rooms[x].battle \in Nat
      BY DEF IInv, TypeOK, IsService, IsMap, RoomRecord
    <3>3. Created' = Created
      BY <1>0 DEF Created
    <3>4. ASSUME NEW x \in DOMAIN room'.rooms, room'.rooms[x].battle # NoBattle
          PROVE  /\ room'.rooms[x].battle < room'.next_battle_id
                 /\ IF x = call.q.room THEN room'.rooms[x].battle = b
                    ELSE Routed(x, room.rooms[x].battle)' /\ room'.rooms[x].battle # b
      <4>1. CASE x = call.q.room
        BY <2>1, <3>2, <3>4, <4>1
      <4>2. CASE x # call.q.room
        BY <1>0, <2>1, <3>1, <3>2, <3>3, <3>4, <4>2 DEF Routed
      <4> QED
        BY <4>1, <4>2
    <3> QED
      BY <2>5, <3>4 DEF RoutesOK
  <2> QED
    BY <2>8, <2>9, <2>10 DEF Answers
<1> QED
  BY <1>1, <1>2

(* The answer to battle_create. *)
LEMMA CreateAnswered ==
    ASSUME IInv, Answers, call # Idle, call.at = "create", NEW o, Become(o.be),
           o.be.room = room /\ o.be.board = board /\ o.be.ended = ended,
           DOMAIN o.be.live = DOMAIN live \cup {call.q.battle},
           o.reply.ok, o.reply.battle = call.q.battle,
           AfterCreate(o.reply), completions' = completions
    PROVE  Answers'
<1> DEFINE new == [x \in DOMAIN room_to_battle \cup {call.room} |->
                     IF x = call.room THEN o.reply.battle ELSE room_to_battle[x]]
<1>0. /\ room' = room /\ board' = board /\ ended' = ended
      /\ DOMAIN live' = DOMAIN live \cup {call.q.battle}
      /\ room_to_battle' = new /\ completed' = completed /\ settled' = settled
      /\ call' = Idle
  BY DEF Become, AfterCreate
<1>1. /\ DOMAIN new = DOMAIN room_to_battle \cup {call.room}
      /\ \A x \in DOMAIN new : new[x] = IF x = call.room THEN call.q.battle
                                        ELSE room_to_battle[x]
  OBVIOUS
<1> HIDE DEF new
<1>2. call'.at = "idle"
  BY <1>0 DEF Idle
<1>3. KeepsEnded /\ PushesOK
  BY <1>0 DEF KeepsEnded, Answers, PayOK, PushesOK
<1>4. PushesOK'
  BY <1>3, SamePushes
<1>5. PayOK'
  BY <1>0, <1>2, <1>3, <1>4, SamePay, ZenonT(30) DEF Answers
<1>6. NamesOK'
  BY <1>0, <1>2 DEF Answers, NamesOK, Created
<1>7. RoutesOK'
  <2>1. \A x \in DOMAIN room.rooms : room.rooms[x].battle # NoBattle =>
           /\ room.rooms[x].battle < room.next_battle_id
           /\ IF x = call.room THEN call.q.battle = room.rooms[x].battle
              ELSE Routed(x, room.rooms[x].battle) /\ call.q.battle # room.rooms[x].battle
    BY DEF Answers, RoutesOK
  <2>2. Created' = Created \cup {call.q.battle}
    BY <1>0 DEF Created
  <2>3. \A x \in DOMAIN room.rooms : room.rooms[x].battle # NoBattle =>
           Routed(x, room.rooms[x].battle)'
    BY <1>0, <1>1, <2>1, <2>2 DEF Routed
  <2> QED
    BY <1>0, <1>2, <2>1, <2>3 DEF RoutesOK
<1> QED
  BY <1>5, <1>6, <1>7 DEF Answers

(* A battle_create that is refused: the room keeps a battle without an instance. *)
LEMMA CreateRefused ==
    ASSUME IInv, Answers, call # Idle, call.at = "create", NEW o, Become(o.be),
           o.be.room = room /\ o.be.board = board /\ o.be.ended = ended /\ o.be.live = live,
           ~o.reply.ok, AfterCreate(o.reply), completions' = completions
    PROVE  Answers'
<1>0. /\ room' = room /\ board' = board /\ ended' = ended /\ live' = live
      /\ room_to_battle' = room_to_battle /\ completed' = completed /\ settled' = settled
      /\ call' = Idle
  BY DEF Become, AfterCreate
<1>2. call'.at = "idle"
  BY <1>0 DEF Idle
<1>3. KeepsEnded /\ PushesOK
  BY <1>0 DEF KeepsEnded, Answers, PayOK, PushesOK
<1>4. PushesOK'
  BY <1>3, SamePushes
<1>5. PayOK'
  BY <1>0, <1>2, <1>3, <1>4, SamePay, ZenonT(30) DEF Answers
<1>6. NamesOK'
  BY <1>0, <1>2 DEF Answers, NamesOK, Created
<1>7. RoutesOK'
  <2>1. call.q.battle \notin Created
    BY DEF Answers, NamesOK
  <2>2. Created' = Created
    BY <1>0 DEF Created
  <2> QED
    BY <1>0, <1>2, <2>1, <2>2 DEF Answers, RoutesOK, Routed
<1> QED
  BY <1>5, <1>6, <1>7 DEF Answers

(* The answer to battle_finish. *)
LEMMA FinishAnswered ==
    ASSUME IInv, Answers, call.at = "finish", NEW o, Become(o.be),
           Ticks(o.be, call.q.battle), o.reply.ok,
           o.reply.scores = o.be.ended[call.q.battle] \/ o.reply.scores = {},
           AfterFinish(o.reply), completions' = completions
    PROVE  Answers'
<1>0. FinishedPush(call.room, call.q.battle, o.reply.scores)
      /\ room_to_battle' = room_to_battle
  BY DEF AfterFinish
<1>1. /\ room' = room /\ board' = board /\ KeepsEnded
      /\ Created' \subseteq Created /\ DOMAIN live' \cap DOMAIN ended' = {}
  BY TicksKeep, ZenonT(30) DEF Answers
<1>2. PushesOK'
  BY <1>1, SamePushes DEF Answers, PayOK, PushesOK
<1>3. o.reply.scores = ended'[call.q.battle] \/ o.reply.scores = {}
  BY DEF Become
<1>4. /\ PayOK' /\ call'.at \in {"idle", "submit", "free"}
      /\ call'.at = "free" => call'.q.room = call'.room /\ call'.q.battle = call'.battle
  BY <1>0, <1>1, <1>2, <1>3, FinishedPushPays DEF Answers
<1>5. NamesOK'
  BY <1>1, <1>4, SameNames DEF Answers
<1>6. RoutesOK'
  BY <1>0, <1>1, <1>4, SameRoutes, SameQuiet DEF Answers
<1> QED
  BY <1>4, <1>5, <1>6 DEF Answers

(* The answer to leaderboard_submit. *)
LEMMA SubmitAnswered ==
    ASSUME IInv, Answers, call.at = "submit", NEW o, Become(o.be),
           o.be.room = room /\ o.be.live = live /\ o.be.ended = ended,
           o.be.board.keys = board.keys \cup {<<call.q.battle, call.q.user>>},
           \A x \in Key : x \in o.be.board.keys => o.be.board.applied[x] > 0,
           o.reply.ok, AfterSubmit(o.reply), completions' = completions
    PROVE  Answers'
<1> DEFINE b == call.battle
           k == <<call.battle, call.q.user>>
<1>0. /\ room' = room /\ live' = live /\ ended' = ended
      /\ board'.keys = board.keys \cup {<<call.q.battle, call.q.user>>}
      /\ \A x \in Key : x \in board'.keys => board'.applied[x] > 0
  BY DEF Become
<1>1. /\ SubmitFrom(call.room, call.battle, call.scores, settled)
      /\ room_to_battle' = room_to_battle /\ completed' = completed
  BY DEF AfterSubmit
<1>2. /\ \A x \in settled : x[1] \in completed
      /\ board.keys \subseteq settled
      /\ \A x \in settled : x \in board.keys \/ x = k
      /\ call.q.battle = b /\ b \in completed /\ k \in settled
      /\ \A u \in ended[b] : u = call.q.user \/ u \in call.scores \/ <<b, u>> \in board.keys
      /\ \A c \in completed : PaidAll(c) \/ PaidNone(c) \/ b = c
      /\ PushesOK
  BY DEF Answers, PayOK, PushesOK
<1>3. settled = board'.keys
  BY <1>0, <1>2
<1>4. \A c \in completed' : c # b => PaidAll(c)' \/ PaidNone(c)'
  <2> SUFFICES ASSUME NEW c \in completed, c # b PROVE PaidAll(c)' \/ PaidNone(c)'
    BY <1>1
  <2>1. \A u : <<c, u>> \in board'.keys <=> <<c, u>> \in board.keys
    BY <1>0, <1>2
  <2> QED
    BY <1>0, <1>2, <2>1 DEF PaidAll, PaidNone
<1>5. \A u \in ended'[b] : u \in call.scores \/ <<b, u>> \in settled
  BY <1>0, <1>2
<1>6. PushesOK'
  BY <1>0, <1>2 DEF PushesOK
<1>7. /\ PayOK' /\ call'.at \in {"submit", "free"}
      /\ call'.at = "free" => call'.q.room = call'.room /\ call'.q.battle = call'.battle
  <2>1. \A x \in settled : x[1] \in completed'
    BY <1>1, <1>2
  <2>2. b \in completed'
    BY <1>1, <1>2
  <2> HIDE DEF b
  <2>3. SubmitFrom(call.room, b, call.scores, settled)
    BY <1>1 DEF b
  <2>4. \/ PaidNone(b)' /\ call.scores = {}
        \/ \A u \in ended'[b] : u \in call.scores \/ <<b, u>> \in settled
    BY <1>5
  <2>5. Owes(b, call.scores, settled)
    BY <1>0, <1>3, <1>4, <1>6, <2>1, <2>2, <2>4 DEF Owes
  <2> QED
    BY <2>3, <2>5, SubmitFromPays, ZenonT(30)
<1>8. NamesOK'
  BY <1>0, <1>7, SameNames DEF Answers, NamesOK, Created
<1>9. RoutesOK'
  BY <1>0, <1>1, <1>7, SameRoutes, SameQuiet DEF Answers, Created
<1> QED
  BY <1>7, <1>8, <1>9 DEF Answers

(* The answer to room_battle_finished: the room does not play that battle, and the gateway *)
(* drops its record of it. *)
LEMMA FreeAnswered ==
    ASSUME IInv, Answers, call.at = "free", NEW o, Become(o.be),
           o.be.live = live /\ o.be.board = board /\ o.be.ended = ended,
           NoNewBattle(room, o.be.room),
           \/ call.q.room \notin DOMAIN o.be.room.rooms
           \/ o.be.room.rooms[call.q.room].battle = NoBattle
           \/ o.be.room.rooms[call.q.room].battle # call.q.battle,
           AfterFree(o.reply), completions' = completions
    PROVE  Answers'
<1> DEFINE left == {y \in DOMAIN room_to_battle :
                       ~(y = call.room /\ room_to_battle[y] = call.battle)}
           new == [x \in left |-> room_to_battle[x]]
<1>0. /\ room' = o.be.room /\ live' = live /\ board' = board /\ ended' = ended
      /\ call' = Idle /\ room_to_battle' = new /\ completed' = completed
      /\ settled' = settled
  BY DEF Become, AfterFree
<1>1. DOMAIN new = left /\ \A x \in left : new[x] = room_to_battle[x]
  OBVIOUS
<1> HIDE DEF new
<1>2. call'.at = "idle"
  BY <1>0 DEF Idle
<1>3. KeepsEnded /\ PushesOK
  BY <1>0 DEF KeepsEnded, Answers, PayOK, PushesOK
<1>4. PushesOK'
  BY <1>3, SamePushes
<1>5. PayOK'
  BY <1>0, <1>2, <1>3, <1>4, SamePay, ZenonT(30) DEF Answers
<1>6. NamesOK'
  BY <1>0, <1>2, SameNames DEF Answers, NamesOK, NoNewBattle, Created
<1>7. RoutesOK'
  <2>1. call.q.room = call.room /\ call.q.battle = call.battle
    BY DEF Answers, RoutesOK
  <2>2. \A x \in DOMAIN room.rooms : room.rooms[x].battle # NoBattle =>
           room.rooms[x].battle < room.next_battle_id /\ Routed(x, room.rooms[x].battle)
    BY DEF Answers, RoutesOK
  <2>3. /\ room'.next_battle_id = room.next_battle_id
        /\ \A x \in DOMAIN room'.rooms : room'.rooms[x].battle # NoBattle =>
              x \in DOMAIN room.rooms /\ room.rooms[x].battle = room'.rooms[x].battle
    BY <1>0 DEF NoNewBattle
  <2>4. ASSUME NEW x \in DOMAIN room'.rooms, room'.rooms[x].battle # NoBattle
        PROVE  /\ room'.rooms[x].battle < room'.next_battle_id
               /\ Routed(x, room.rooms[x].battle)'
    <3>1. /\ room'.rooms[x].battle < room'.next_battle_id
          /\ Routed(x, room'.rooms[x].battle)
      BY <2>2, <2>3, <2>4
    <3>2. x = call.room => room'.rooms[x].battle # call.battle
      BY <1>0, <2>1, <2>4
    <3>3. Created' = Created
      BY <1>0 DEF Created
    <3> QED
      BY <1>0, <1>1, <3>1, <3>2, <3>3 DEF Routed
  <2> QED
    BY <1>0, <1>2, <2>4 DEF RoutesOK
<1> QED
  BY <1>5, <1>6, <1>7 DEF Answers

(* Every answer. *)
LEMMA AnsweredKeeps ==
    ASSUME IInv, Answers, Answered
    PROVE  Answers'
<1>1. PICK due \in BOOLEAN, ends \in BOOLEAN :
        Become(Outcome(call.q, due, ends).be) /\ After(Outcome(call.q, due, ends).reply)
  BY DEF Answered
<1> DEFINE o == Outcome(call.q, due, ends)
<1>2. call # Idle /\ completions' = completions
  BY DEF Answered, inputs
<1>3. /\ call.q \in Request /\ RequestOK(call.q) /\ call.q.op \in OpsOf(call.at)
      /\ call.at \in {"plain", "enter", "leave", "close", "start", "create", "finish",
                      "submit", "free"}
  BY <1>2, Places
<1>4. CASE call.at \in {"plain", "enter", "leave", "close"}
  <2>1. /\ call' = Idle /\ room_to_battle' = room_to_battle /\ completed' = completed
        /\ settled' = settled
    BY <1>1, <1>4 DEF After, Done, AfterEnter, AfterLeave, AfterClose, AfterStart,
       AfterCreate, AfterFinish, AfterSubmit, AfterFree
  <2>2. call'.at = "idle"
    BY <2>1 DEF Idle
  <2>3. call.q.op \in {"room_create", "room_join", "room_ready", "room_leave", "room_kick",
                       "room_transfer_owner", "battle_state"}
    BY <1>3, <1>4 DEF OpsOf
  <2>4. CASE call.q.op = "battle_state"
    <3>1. Ticks(o.be, call.q.battle)
      BY <1>3, <2>4, StateEffect, ZenonT(30)
    <3> HIDE DEF o
    <3> QED
      BY <1>1, <1>2, <1>4, <2>1, <2>2, <3>1, TickStep DEF o
  <2>5. CASE call.q.op # "battle_state"
    <3>0. call.q.op \in QuietOps
      BY <2>3, <2>5 DEF QuietOps
    <3>1. RoomsOnly(o.be)
      BY <1>3, <3>0, RoomEffect
    <3> HIDE DEF o
    <3>2. Become(o.be)
      BY <1>1 DEF o
    <3>3. live' = live /\ board' = board /\ ended' = ended /\ NoNewBattle(room, room')
      BY <3>1, <3>2, ZenonT(30) DEF Become, RoomsOnly
    <3> QED
      BY <1>2, <1>4, <2>1, <2>2, <3>3, QuietStep
  <2> QED
    BY <2>4, <2>5
<1>5. CASE call.at = "start"
  <2>1. AfterStart(o.reply)
    BY <1>1, <1>5 DEF After, AfterEnter, AfterLeave, AfterClose,
       AfterCreate, AfterFinish, AfterSubmit, AfterFree
  <2>2. call.q.op = "room_start_battle"
    BY <1>3, <1>5 DEF OpsOf
  <2>3. /\ o.be.live = live /\ o.be.board = board /\ o.be.ended = ended
        /\ Starts(room, o.be.room, call.q.room, o.reply.battle, o.reply.ok)
        /\ o.reply.ok \in BOOLEAN
    BY <1>3, <2>2, StartEffect, ZenonT(30)
  <2> HIDE DEF o
  <2>5. Become(o.be)
    BY <1>1 DEF o
  <2> QED
    BY <1>2, <1>5, <2>1, <2>3, <2>5, StartAnswered, ZenonT(30)
<1>6. CASE call.at = "create"
  <2>1. AfterCreate(o.reply)
    BY <1>1, <1>6 DEF After, AfterEnter, AfterLeave, AfterClose,
       AfterStart, AfterFinish, AfterSubmit, AfterFree
  <2>2. call.q.op = "battle_create" /\ call.q.battle \notin DOMAIN live
    BY <1>3, <1>6 DEF OpsOf, Answers, NamesOK, Created
  <2>3. CASE Full
    <3>1. /\ o.be.room = room /\ o.be.board = board /\ o.be.ended = ended
          /\ o.be.live = live /\ ~o.reply.ok
      BY <1>3, <2>2, <2>3, RefusalEffect, ZenonT(90)
    <3> HIDE DEF o
    <3>2. Become(o.be)
      BY <1>1 DEF o
    <3> QED
      BY <1>2, <1>6, <2>1, <3>1, <3>2, CreateRefused, ZenonT(30)
  <2>4. CASE ~Full
    <3>1. /\ o.be.room = room /\ o.be.board = board /\ o.be.ended = ended
          /\ DOMAIN o.be.live = DOMAIN live \cup {call.q.battle}
          /\ o.reply.ok /\ o.reply.battle = call.q.battle
      BY <1>3, <2>2, <2>4, CreateEffect, ZenonT(90)
    <3> HIDE DEF o
    <3>2. Become(o.be)
      BY <1>1 DEF o
    <3> QED
      BY <1>2, <1>6, <2>1, <3>1, <3>2, CreateAnswered, ZenonT(30)
  <2> QED
    BY <2>3, <2>4
<1>7. CASE call.at = "finish"
  <2>1. AfterFinish(o.reply)
    BY <1>1, <1>7 DEF After, AfterEnter, AfterLeave, AfterClose,
       AfterStart, AfterCreate, AfterSubmit, AfterFree
  <2>2. call.q.op = "battle_finish" /\ call.q.battle \in Created
    BY <1>3, <1>7 DEF OpsOf, RequestOK, Fits
  <2>3. /\ Ticks(o.be, call.q.battle) /\ o.reply.ok
        /\ o.reply.scores = o.be.ended[call.q.battle] \/ o.reply.scores = {}
    BY <1>3, <2>2, FinishEffect, ZenonT(30)
  <2> HIDE DEF o
  <2>5. Become(o.be)
    BY <1>1 DEF o
  <2> QED
    BY <1>2, <1>7, <2>1, <2>3, <2>5, FinishAnswered, ZenonT(30)
<1>8. CASE call.at = "submit"
  <2>1. AfterSubmit(o.reply)
    BY <1>1, <1>8 DEF After, AfterEnter, AfterLeave, AfterClose,
       AfterStart, AfterCreate, AfterFinish, AfterFree
  <2>2. call.q.op = "leaderboard_submit"
    BY <1>3, <1>8 DEF OpsOf
  <2>3. \A x \in Key : x \in board.keys => board.applied[x] > 0
    BY DEF Answers, PayOK
  <2>4. /\ o.be.room = room /\ o.be.live = live /\ o.be.ended = ended
        /\ o.be.board.keys = board.keys \cup {<<call.q.battle, call.q.user>>}
        /\ \A x \in Key : x \in o.be.board.keys => o.be.board.applied[x] > 0
        /\ o.reply.ok
    BY <1>3, <2>2, <2>3, SubmitEffect, ZenonT(30)
  <2> HIDE DEF o
  <2>5. Become(o.be)
    BY <1>1 DEF o
  <2> QED
    BY <1>2, <1>8, <2>1, <2>4, <2>5, SubmitAnswered, ZenonT(30)
<1>9. CASE call.at = "free"
  <2>1. AfterFree(o.reply)
    BY <1>1, <1>9 DEF After, AfterEnter, AfterLeave, AfterClose,
       AfterStart, AfterCreate, AfterFinish, AfterSubmit
  <2>2. call.q.op = "room_battle_finished"
    BY <1>3, <1>9 DEF OpsOf
  <2>3. RoomsOnly(o.be) /\ Freed(o.be.room, call.q.room, call.q.battle)
    <3>1. call.q.op \in QuietOps
      BY <2>2 DEF QuietOps
    <3> QED BY <1>3, <2>2, <3>1, RoomEffect
  <2> HIDE DEF o
  <2>4. Become(o.be)
    BY <1>1 DEF o
  <2>5. /\ o.be.live = live /\ o.be.board = board /\ o.be.ended = ended
        /\ NoNewBattle(room, o.be.room)
        /\ \/ call.q.room \notin DOMAIN o.be.room.rooms
           \/ o.be.room.rooms[call.q.room].battle = NoBattle
           \/ o.be.room.rooms[call.q.room].battle # call.q.battle
    BY <2>3, ZenonT(30) DEF RoomsOnly, Freed
  <2> QED
    BY <1>2, <1>9, <2>1, <2>4, <2>5, FreeAnswered, ZenonT(30)
<1> QED
  BY <1>3, <1>4, <1>5, <1>6, <1>7, <1>8, <1>9

(* A command of a client. *)
LEMMA IssueKeeps ==
    ASSUME IInv, Answers, NEW c, Issue(c),
           \/ c.at \in {"plain", "enter", "leave", "close", "finish"}
           \/ c.at = "start" /\ room.next_battle_id <= MaxBattles
    PROVE  Answers'
<1>1. /\ call = Idle /\ call' = c /\ completions' = completions
      /\ room' = room /\ live' = live /\ board' = board /\ ended' = ended
      /\ room_to_battle' = room_to_battle /\ completed' = completed /\ settled' = settled
  BY DEF Issue, backends, inputs
<1>2. call.at = "idle"
  BY <1>1, Places
<1>3. KeepsEnded /\ PushesOK
  BY <1>1 DEF KeepsEnded, Answers, PayOK, PushesOK
<1>4. PushesOK'
  BY <1>1, <1>3, SamePushes
<1>5. PayOK'
  BY <1>1, <1>2, <1>3, <1>4, SamePay DEF Answers
<1>6. NamesOK'
  BY <1>1 DEF Answers, NamesOK, Created
<1>7. RoutesOK'
  BY <1>1, <1>2, SameRoutes, SameQuiet DEF Answers, Created
<1> QED
  BY <1>5, <1>6, <1>7 DEF Answers

(* The commands of the clients. *)
LEMMA CommandsKeep ==
    ASSUME IInv, Answers,
           \/ \E u \in User, r \in Room : CreateRoom(u, r) \/ JoinRoom(u, r)
           \/ \E u \in User, ready \in BOOLEAN : Ready(u, ready)
           \/ \E u, target \in User : Kick(u, target) \/ TransferOwner(u, target)
           \/ \E u \in User : LeaveRoom(u) \/ SessionClosed(u) \/ StartBattle(u)
                              \/ FinishBattle(u)
           \/ \E b \in Battle : QueryBattle(b)
    PROVE  Answers' /\ late' = late
<1>a. ASSUME NEW at, NEW q PROVE Ask(at, q).at = at
  BY DEF Ask
<1>b. ASSUME NEW at, NEW q, NEW r PROVE [Ask(at, q) EXCEPT !.room = r].at = at
  <2>1. [Ask(at, q) EXCEPT !.room = r] = CallOf(at, q, r, NoBattle, {})
    BY AskForRoom, ZenonT(30)
  <2> QED
    BY <2>1 DEF CallOf
<1>1. CASE \E u \in User, r \in Room : CreateRoom(u, r) \/ JoinRoom(u, r)
  <2>1. PICK q : Command(Ask("enter", q))
    BY <1>1 DEF CreateRoom, JoinRoom
  <2> QED
    BY <1>a, <2>1, IssueKeeps DEF Command, network
<1>2. CASE \E u \in User, ready \in BOOLEAN : Ready(u, ready)
  <2>1. PICK q : Command(Ask("plain", q))
    BY <1>2 DEF Ready
  <2> QED
    BY <1>a, <2>1, IssueKeeps DEF Command, network
<1>3. CASE \E u, target \in User : Kick(u, target) \/ TransferOwner(u, target)
  <2>1. PICK q : Issue(Ask("plain", q)) /\ late' = late
    BY <1>3 DEF Kick, TransferOwner, Churn
  <2> QED
    BY <1>a, <2>1, IssueKeeps
<1>4. CASE \E u \in User : LeaveRoom(u) \/ SessionClosed(u)
  <2>1. PICK at \in {"leave", "close"}, q \in {call'.q} : Issue(Ask(at, q)) /\ late' = late
    <3>a. ASSUME NEW at, NEW q, Issue(Ask(at, q)) PROVE q = call'.q
      BY <3>a DEF Issue, Ask
    <3> QED
      BY <1>4, <3>a DEF LeaveRoom, SessionClosed, Churn
  <2> QED
    BY <1>a, <2>1, IssueKeeps
<1>5. CASE \E u \in User : StartBattle(u)
  <2>1. PICK q : Command(Ask("start", q)) /\ room.next_battle_id <= MaxBattles
    BY <1>5 DEF StartBattle
  <2> QED
    BY <1>a, <2>1, IssueKeeps DEF Command, network
<1>6. CASE \E u \in User : FinishBattle(u)
  <2>1. PICK u \in User : FinishBattle(u)
    BY <1>6
  <2> DEFINE q == [op |-> "battle_finish", battle |-> room_to_battle[session_room[u]]]
             r == session_room[u]
             c == [Ask("finish", q) EXCEPT !.room = r]
  <2>2. Command(c)
    BY <2>1 DEF FinishBattle
  <2>3. c.at = "finish"
    <3> HIDE DEF q, r
    <3> QED
      BY <1>b, ZenonT(30)
  <2> HIDE DEF c
  <2> QED
    BY <2>2, <2>3, IssueKeeps DEF Command, network
<1>7. CASE \E b \in Battle : QueryBattle(b)
  <2>1. PICK q : Issue(Ask("plain", q)) /\ late' = late
    BY <1>7 DEF QueryBattle, Churn
  <2> QED
    BY <1>a, <2>1, IssueKeeps
<1> QED
  BY <1>1, <1>2, <1>3, <1>4, <1>5, <1>6, <1>7

(* An input that is answered; its completion has the scores of the battle it ended. *)
LEMMA InputKeeps ==
    ASSUME IInv, Answers, NEW w \in Worker, InputAnswered(w)
    PROVE  Answers'
<1>1. PICK ends \in BOOLEAN : /\ Become(Outcome(work[w].q, FALSE, ends).be)
                              /\ Complete(w, Outcome(work[w].q, FALSE, ends).reply)
  BY DEF InputAnswered
<1> DEFINE q == work[w].q
           o == Outcome(q, FALSE, ends)
<1>2. q \in Request /\ q.op = "battle_input" /\ work[w] # NoTask
  <2>1. work[w] \in {NoTask} \cup Task /\ work[w] # NoTask
    BY DEF InputAnswered, IInv, TypeOK
  <2>2. work[w] \in Task
    BY <2>1
  <2> QED
    BY <2>1, <2>2 DEF Task, IInv, CallsOK
<1>3. /\ Ticks(o.be, q.battle)
      /\ o.reply.ends => /\ q.battle \in DOMAIN o.be.ended
                         /\ o.reply.scores = o.be.ended[q.battle]
  BY <1>2, InputEffect
<1>4. Become(o.be) /\ Complete(w, o.reply)
  BY <1>1
<1> DEFINE c == [room |-> work[w].room, battle |-> q.battle,
                 ends |-> o.reply.ends, scores |-> o.reply.scores]
<1>5. completions' = Append(completions, c)
  BY <1>4 DEF Complete
<1> HIDE DEF o
<1>6. c.ends = o.reply.ends /\ c.battle = q.battle /\ c.scores = o.reply.scores
  OBVIOUS
<1> HIDE DEF q, c
<1>7. /\ room' = room /\ board' = board /\ KeepsEnded
      /\ Created' \subseteq Created /\ DOMAIN live' \cap DOMAIN ended' = {}
  BY <1>3, <1>4, TicksKeep, ZenonT(30) DEF Answers
<1>8. c.ends => c.scores = ended'[c.battle]
  BY <1>3, <1>4, <1>6 DEF Become
<1>9. PushesOK'
  <2>0. PushesOK /\ completions \in Seq(Completion)
        /\ \A i \in 1..Len(completions) :
              completions[i].ends => completions[i].battle \in DOMAIN ended
    BY DEF Answers, PayOK, PushesOK, IInv, TypeOK, GatewayOK
  <2>1. /\ Len(completions) \in Nat /\ Len(completions') = Len(completions) + 1
        /\ \A i \in 1..Len(completions) : completions'[i] = completions[i]
        /\ completions'[Len(completions) + 1] = c
    BY <1>5, <2>0
  <2> SUFFICES ASSUME NEW i \in 1..Len(completions'), completions'[i].ends
               PROVE  completions'[i].scores = ended'[completions'[i].battle]
    BY DEF PushesOK
  <2>2. i \in 1..Len(completions) \/ i = Len(completions) + 1
    BY <2>1
  <2>3. CASE i \in 1..Len(completions)
    BY <1>7, <2>0, <2>1, <2>3 DEF PushesOK, KeepsEnded
  <2>4. CASE i = Len(completions) + 1
    BY <1>8, <2>1, <2>4
  <2> QED
    BY <2>2, <2>3, <2>4
<1>10. /\ call' = call /\ room_to_battle' = room_to_battle /\ completed' = completed
       /\ settled' = settled
  BY DEF InputAnswered, gateway
<1> QED
  BY <1>7, <1>9, <1>10, Aside, SameQuiet DEF Answers

(* A step of the client's side that touches neither backends nor the gateway's records. *)
LEMMA SubmitInputKeeps ==
    ASSUME IInv, Answers, NEW u \in User, NEW w \in Worker, SubmitInput(u, w)
    PROVE  Answers'
<1>1. /\ room' = room /\ live' = live /\ board' = board /\ ended' = ended
      /\ completions' = completions /\ call' = call /\ room_to_battle' = room_to_battle
      /\ completed' = completed /\ settled' = settled
  BY DEF SubmitInput, backends, gateway
<1>2. NamesOK' /\ RoutesOK'
  BY <1>1 DEF Answers, NamesOK, RoutesOK, Routed, Created
<1>3. PayOK'
  BY <1>1 DEF Answers, PayOK, PaidAll, PaidNone
<1> QED
  BY <1>2, <1>3 DEF Answers

(* The completion of an input is taken up by the gateway. *)
LEMMA CompletionKeeps ==
    ASSUME IInv, Answers, CompleteInput
    PROVE  Answers'
<1> DEFINE c == Head(completions)
<1>1. /\ call = Idle /\ completions # <<>> /\ completions' = Tail(completions)
      /\ IF c.ends THEN FinishedPush(c.room, c.battle, c.scores)
         ELSE UNCHANGED <<call, completed, settled>>
      /\ room' = room /\ live' = live /\ board' = board /\ ended' = ended
      /\ room_to_battle' = room_to_battle
  BY DEF CompleteInput, backends
<1>2. completions \in Seq(Completion) /\ PushesOK
  BY DEF IInv, TypeOK, Answers, PayOK, PushesOK
<1>3. c = completions[1] /\ 1 \in 1..Len(completions)
  BY <1>1, <1>2
<1>4. c.ends => c.scores = ended'[c.battle]
  BY <1>1, <1>2, <1>3 DEF PushesOK
<1>5. PushesOK'
  <2>1. /\ Len(completions) \in Nat /\ Len(completions') = Len(completions) - 1
        /\ \A i \in 1..(Len(completions) - 1) : completions'[i] = completions[i + 1]
    BY <1>1, <1>2
  <2>2. \A i \in 1..(Len(completions) - 1) : i + 1 \in 1..Len(completions)
    BY <2>1
  <2> QED
    BY <1>1, <1>2, <2>1, <2>2 DEF PushesOK
<1> HIDE DEF c
<1>6. call.at = "idle"
  BY <1>1, Places
<1>7. KeepsEnded
  BY <1>1 DEF KeepsEnded
<1>8. CASE c.ends
  <2>1. FinishedPush(c.room, c.battle, c.scores)
    BY <1>1, <1>8
  <2>2. /\ PayOK' /\ call'.at \in {"idle", "submit", "free"}
        /\ call'.at = "free" => call'.q.room = call'.room /\ call'.q.battle = call'.battle
    BY <1>1, <1>4, <1>5, <1>6, <1>7, <1>8, <2>1, FinishedPushPays DEF Answers
  <2>3. NamesOK'
    BY <1>1, <2>2 DEF Answers, NamesOK, Created
  <2>4. RoutesOK'
    BY <1>1, <1>6, <2>2, SameRoutes, SameQuiet DEF Answers, Created
  <2> QED
    BY <2>2, <2>3, <2>4 DEF Answers
<1>9. CASE ~c.ends
  <2>1. call' = call /\ completed' = completed /\ settled' = settled
    BY <1>1, <1>9
  <2>2. PayOK'
    BY <1>1, <1>5, <1>6, <1>7, <2>1, SamePay DEF Answers
  <2>3. NamesOK' /\ RoutesOK'
    BY <1>1, <2>1 DEF Answers, NamesOK, RoutesOK, Routed, Created
  <2> QED
    BY <2>2, <2>3 DEF Answers
<1> QED
  BY <1>8, <1>9

(* Rooms that expire play no battle. *)
LEMMA ExpiryKeeps ==
    ASSUME IInv, Answers, ExpireRooms
    PROVE  Answers'
<1>1. PICK expired \in SUBSET Expirable(room) : room' = CleanupExpired(room, expired)
  BY DEF ExpireRooms
<1>2. ServiceOK(room)
  BY UnchangedBackends
<1>3. /\ room'.next_battle_id = room.next_battle_id
      /\ DOMAIN room'.rooms \subseteq DOMAIN room.rooms
      /\ \A x \in DOMAIN room'.rooms : room'.rooms[x] = room.rooms[x]
  BY <1>1, <1>2, CleanupHolds
<1>4. NoNewBattle(room, room')
  BY <1>3 DEF NoNewBattle
<1>5. /\ live' = live /\ board' = board /\ ended' = ended /\ completions' = completions
      /\ call' = call /\ room_to_battle' = room_to_battle /\ completed' = completed
      /\ settled' = settled
  BY DEF ExpireRooms, gateway, inputs
<1>6. KeepsEnded /\ PushesOK /\ Created' \subseteq Created /\ DOMAIN live' \cap DOMAIN ended' = {}
  BY <1>5 DEF KeepsEnded, Answers, PayOK, PushesOK, NamesOK, Created
<1>7. PushesOK'
  BY <1>5, <1>6, SamePushes
<1> QED
  BY <1>4, <1>5, <1>6, <1>7, Aside DEF Answers

(* Every step, while no call has gone unanswered. *)
LEMMA AnsweredInvStep ==
    ASSUME IInv, AnsweredInv, [Next]_vars
    PROVE  AnsweredInv'
<1> SUFFICES ASSUME lost' = 0 PROVE late' = {} /\ Answers'
  BY DEF AnsweredInv, Answers
<1>n. lost \in Nat
  BY DEF IInv, TypeOK
<1>0. ASSUME lost = 0 PROVE late = {} /\ Answers
  BY <1>0 DEF AnsweredInv, Answers
<1>1. CASE \/ \E u \in User, r \in Room : CreateRoom(u, r) \/ JoinRoom(u, r)
           \/ \E u \in User, ready \in BOOLEAN : Ready(u, ready)
           \/ \E u, target \in User : Kick(u, target) \/ TransferOwner(u, target)
           \/ \E u \in User : LeaveRoom(u) \/ SessionClosed(u) \/ StartBattle(u)
                              \/ FinishBattle(u)
           \/ \E b \in Battle : QueryBattle(b)
  <2>1. lost' = lost
    BY <1>1 DEF CreateRoom, JoinRoom, Ready, Kick, TransferOwner, LeaveRoom, SessionClosed,
                StartBattle, FinishBattle, QueryBattle, Command, Churn, network
  <2> QED
    BY <1>0, <1>1, <2>1, CommandsKeep
<1>2. CASE Answered
  <2>1. lost' = lost /\ late' = late
    BY <1>2 DEF Answered, network
  <2> QED
    BY <1>0, <1>2, <2>1, AnsweredKeeps
<1>3. CASE Unanswered \/ GivenUp \/ \E w \in Worker : InputUnanswered(w) \/ InputGivenUp(w)
  <2>1. lost' = lost + 1
    BY <1>3, ZenonT(30) DEF Unanswered, GivenUp, InputUnanswered, InputGivenUp
  <2> QED
    BY <1>n, <2>1
<1>4. CASE Arrive
  <2>1. lost' = lost /\ late # {}
    BY <1>4 DEF Arrive
  <2> QED
    BY <1>0, <2>1
<1>5. CASE \E w \in Worker, u \in User : SubmitInput(u, w)
  <2>1. PICK w \in Worker, u \in User : SubmitInput(u, w)
    BY <1>5
  <2>2. lost' = lost /\ late' = late
    BY <2>1 DEF SubmitInput, network
  <2> QED
    BY <1>0, <2>1, <2>2, SubmitInputKeeps
<1>6. CASE \E w \in Worker : InputAnswered(w)
  <2>1. PICK w \in Worker : InputAnswered(w)
    BY <1>6
  <2>2. lost' = lost /\ late' = late
    BY <2>1 DEF InputAnswered, network
  <2> QED
    BY <1>0, <2>1, <2>2, InputKeeps
<1>7. CASE CompleteInput
  BY <1>0, <1>7, CompletionKeeps DEF CompleteInput, network
<1>8. CASE ExpireRooms
  BY <1>0, <1>8, ExpiryKeeps DEF ExpireRooms, Churn
<1>9. CASE UNCHANGED vars
  <2>1. /\ room' = room /\ live' = live /\ board' = board /\ ended' = ended
        /\ completions' = completions /\ call' = call /\ room_to_battle' = room_to_battle
        /\ completed' = completed /\ settled' = settled /\ late' = late /\ lost' = lost
    BY <1>9 DEF vars, backends, gateway, inputs, network
  <2>2. NamesOK' = NamesOK /\ RoutesOK' = RoutesOK
    BY <2>1 DEF NamesOK, RoutesOK, Routed, Created
  <2>3. PayOK' = PayOK
    BY <2>1 DEF PayOK, PaidAll, PaidNone
  <2> QED
    BY <1>0, <2>1, <2>2, <2>3 DEF Answers
<1> QED
  BY <1>1, <1>2, <1>3, <1>4, <1>5, <1>6, <1>7, <1>8, <1>9 DEF Next

(* While no call has gone unanswered, the battles created are numbers the Room backend has
   given out, the gateway's routes follow the rooms, and a battle that is over is paid to
   all of its players, to none, or is being paid. *)
THEOREM AnsweredThroughout == Spec => []AnsweredInv
<1>1. Init => AnsweredInv
  <2> SUFFICES ASSUME Init PROVE NamesOK /\ RoutesOK /\ PayOK /\ late = {}
    BY DEF AnsweredInv
  <2>1. /\ room.rooms = <<>> /\ room.next_battle_id = 1 /\ live = <<>> /\ ended = <<>>
        /\ board.keys = {} /\ completed = {} /\ settled = {} /\ completions = <<>>
        /\ call.at = "idle" /\ late = {}
    BY DEF Init, EmptyService, Idle
  <2>2. NamesOK
    BY <2>1, FlowAssumption DEF NamesOK, Created
  <2>3. RoutesOK
    BY <2>1 DEF RoutesOK
  <2>4. PayOK
    BY <2>1 DEF PayOK
  <2> QED
    BY <2>1, <2>2, <2>3, <2>4
<1>2. IInv /\ AnsweredInv /\ [Next]_vars => AnsweredInv'
  BY AnsweredInvStep
<1> QED
  BY <1>1, <1>2, Invariance, PTL DEF Spec

(* While no call has gone unanswered and the gateway is between commands, it routes the
   battle of every room that plays one which ever had an instance. *)
THEOREM BattlesAreRouted == Spec => []RoomBattleIsRouted
<1>1. IInv /\ AnsweredInv => RoomBattleIsRouted
  <2> SUFFICES ASSUME IInv, AnsweredInv, call = Idle, lost = 0,
                      NEW r \in DOMAIN room.rooms, room.rooms[r].battle # NoBattle
               PROVE  Routed(r, room.rooms[r].battle)
    BY DEF RoomBattleIsRouted, Routed, Created
  <2>1. call.at = "idle"
    BY Places
  <2> QED
    BY <2>1 DEF AnsweredInv, RoutesOK
<1> QED
  BY <1>1, Invariance, AnsweredThroughout, PTL

(* While no call has gone unanswered and the gateway is between commands, the leaderboard
   has applied a battle that is over for all of its players or for none. *)
THEOREM SettledWholly == Spec => []SettledWhole
<1>1. IInv /\ AnsweredInv => SettledWhole
  <2> SUFFICES ASSUME IInv, AnsweredInv, call = Idle, lost = 0,
                      NEW b \in completed, NEW u \in ended[b], NEW v \in ended[b],
                      board.applied[<<b, u>>] > 0
               PROVE  board.applied[<<b, v>>] > 0
    BY DEF SettledWhole
  <2>1. call.at = "idle"
    BY Places
  <2>2. PaidAll(b) \/ PaidNone(b)
    BY <2>1 DEF AnsweredInv, PayOK
  <2>3. b \in DOMAIN ended /\ ended[b] \subseteq User
    BY DEF IInv, GatewayOK, TypeOK, IsMap
  <2>4. b \in Battle
    BY <2>3, FlowAssumption DEF AnsweredInv, NamesOK, Created, Battle, IInv, TypeOK, IsService
  <2>5. <<b, u>> \in Key /\ <<b, v>> \in Key
    BY <2>3, <2>4 DEF Key
  <2>6. <<b, u>> \in board.keys
    BY <2>5 DEF IInv, BoardOK
  <2>7. <<b, v>> \in board.keys
    BY <2>2, <2>6 DEF PaidAll, PaidNone
  <2> QED
    BY <2>5, <2>7 DEF AnsweredInv, PayOK
<1> QED
  BY <1>1, Invariance, AnsweredThroughout, PTL
=============================================================================
