----------------------------- MODULE ShardRooms -----------------------------
(* Where the characters of the shard world are: Character.room_id, the      *)
(* occupants index beside it, and the dynamic rooms that party runs and     *)
(* proto adventures build and tear down under their visitors.  A party run  *)
(* builds its rooms by events that are all due at once, so the handler that *)
(* schedules the first one has handled the last when it returns: the run is *)
(* one step here.  Exits and their gates are data: a move may lead to any   *)
(* room that exists.                                                        *)
EXTENDS ShardParties

CONSTANTS StaticRooms,   \* the rooms compiled in
          StartRoom,     \* Rooms::start_room
          GateRoom,      \* ROOM_TOWN_GATE
          Graveyard,     \* graveyard_room_id()
          Proto,         \* the prefix of the proto adventure
          RunLengths     \* how many rooms an adventure may have

ASSUME StaticRoomsAreThere ==
    /\ {StartRoom, GateRoom, Graveyard} \subseteq StaticRooms
    /\ RunLengths \subseteq Nat \ {0}

VARIABLES
    room,       \* Character.room_id, NoOne when the character is not there
    occupants,  \* World::occupants
    dynRooms,   \* Rooms::dyn_rooms
    follow      \* Character.follow_leader

placeVars == <<room, occupants, dynRooms, follow>>
roomVars  == <<partyVars, placeVars>>

(* Instance rooms are named by the prefix of their instance and a number.   *)
Instances == PartyIds \cup {Proto}
Instance(prefix, n) == {prefix} \X (1..n)
AllRooms == StaticRooms \cup UNION {Instance(prefix, n) :
                                     prefix \in Instances, n \in RunLengths}
HasRoom(r) == r \in StaticRooms \cup dynRooms

RoomInit ==
    /\ PartyInit
    /\ room = [c \in CharIds |-> NoOne]
    /\ occupants = [r \in AllRooms |-> {}]
    /\ dynRooms = {}
    /\ follow = [c \in CharIds |-> FALSE]

-----------------------------------------------------------------------------
(* Everyone in the set goes to one room, index included.                    *)
MoveAll(who, to) ==
    /\ room' = [c \in CharIds |-> IF c \in who THEN to ELSE room[c]]
    /\ occupants' = [r \in AllRooms |->
                        IF r = to THEN occupants[r] \cup who
                        ELSE occupants[r] \ {c \in who : room[c] = r}]

(* World::restore_character and spawn_character: the saved room if it is    *)
(* there, the start room otherwise; detach_session for the character that   *)
(* the session had.                                                         *)
Arrive(gone, here) ==
    \E to \in StaticRooms \cup dynRooms :
       /\ room' = [c \in CharIds |-> IF c \in here THEN to
                                     ELSE IF c \in gone THEN NoOne
                                     ELSE room[c]]
       /\ occupants' = [r \in AllRooms |->
                           (occupants[r] \ {c \in gone : room[c] = r})
                           \cup (IF r = to THEN here ELSE {})]

AttachIn(s) ==
    /\ AttachSession(s)
    /\ Arrive({controls[s]} \ {NoOne}, {nextChar})
    /\ \E saved \in BOOLEAN :
          follow' = [c \in CharIds |-> IF c = nextChar THEN saved
                                      ELSE follow[c] /\ c # controls[s]]
    /\ UNCHANGED dynRooms

DetachOut(s) ==
    /\ DetachSession(s)
    /\ Arrive({controls[s]}, {})
    /\ follow' = [follow EXCEPT ![controls[s]] = FALSE]
    /\ UNCHANGED dynRooms

\* Fault: everyone in the room who follows, whomever.
FollowersOfAnyone(c) ==
    {m \in Online \ {c} : room[m] = room[c] /\ follow[m]}

(* try_move: the leader's party comes along, those who follow and stand in  *)
(* the room that was left.                                                  *)
Followers(c) ==
    IF ~Leads(c) THEN {}
    ELSE {m \in (members[partyOf[c]] \cap Online) \ {c} :
             room[m] = room[c] /\ follow[m]}

TryMove(c) ==
    /\ \E to \in (StaticRooms \cup dynRooms) \ {room[c]} :
          MoveAll({c} \cup Followers(c), to)
    /\ UNCHANGED <<partyVars, dynRooms, follow>>

SetFollow(c) ==
    /\ partyOf[c] # NoOne
    /\ \E on \in BOOLEAN : follow' = [follow EXCEPT ![c] = on]
    /\ UNCHANGED <<partyVars, room, occupants, dynRooms>>

(* teleport_to, for `warp` and `proto exit`; send_to_graveyard.             *)
TeleportTo(c) ==
    /\ \E to \in StaticRooms \cup dynRooms : MoveAll({c}, to)
    /\ UNCHANGED <<partyVars, dynRooms, follow>>

SendToGraveyard(c) ==
    /\ MoveAll({c}, Graveyard)
    /\ UNCHANGED <<partyVars, dynRooms, follow>>

(* World::evacuate_rooms_with_prefix, followed by the arrival of the        *)
(* visitors of the new instance: both tables after the two loops.           *)
Inside(prefix) == {c \in CharIds : \E r \in AllRooms \ StaticRooms :
                                      r[1] = prefix /\ c \in occupants[r]}

EvacuateThenEnter(prefix, visitors) ==
    LET out == Inside(prefix)
        to  == [c \in CharIds |-> IF c \in visitors THEN <<prefix, 1>>
                                  ELSE IF c \in out THEN GateRoom
                                  ELSE room[c]] IN
    /\ room' = to
    /\ occupants' = [r \in AllRooms |->
                        {c \in CharIds : IF c \in visitors \cup out
                                         THEN to[c] = r
                                         ELSE c \in occupants[r]}]

(* clear_dyn_rooms_with_prefix, then insert_room for each room of the plan. *)
Rebuild(prefix, n) ==
    dynRooms' = {r \in dynRooms : r[1] # prefix} \cup Instance(prefix, n)

(* `party run`: every PartyBuildNext event included.                        *)
PartyRun(c) ==
    /\ Leads(c)
    /\ \E n \in RunLengths : Rebuild(partyOf[c], n)
    /\ EvacuateThenEnter(partyOf[c], members[partyOf[c]] \cap Online)
    /\ UNCHANGED <<partyVars, follow>>

(* World::load_protoadventure, then teleport_to its first room.             *)
LoadProto(c) ==
    /\ \E n \in RunLengths : Rebuild(Proto, n)
    /\ EvacuateThenEnter(Proto, {c})
    /\ UNCHANGED <<partyVars, follow>>

PartyCommand(c) ==
    /\ \/ PartyCreate(c) \/ PartyDisband(c) \/ PartyKick(c) \/ PartyLead(c)
       \/ PartyInvite(c) \/ PartyAccept(c) \/ PartyLeave(c)
    /\ UNCHANGED placeVars

RoomNext ==
    \/ \E s \in WorldSessions : AttachIn(s) \/ DetachOut(s)
    \/ \E c \in Online :
          \/ PartyCommand(c) \/ TryMove(c) \/ SetFollow(c) \/ TeleportTo(c)
          \/ SendToGraveyard(c) \/ PartyRun(c) \/ LoadProto(c)
    \/ \E c \in CharIds : InviteExpires(c) /\ UNCHANGED placeVars

RoomSpec == RoomInit /\ [][RoomNext]_roomVars

-----------------------------------------------------------------------------
(* The occupants index lists exactly the characters that are online, each   *)
(* in the room it is in, and that room exists: no walk, run, reload, death  *)
(* or logout leaves a ghost behind or a player in a room that was cleared.  *)
OccupantsAreThere ==
    /\ \A r \in AllRooms : occupants[r] = {c \in Online : room[c] = r}
    /\ \A c \in Online : HasRoom(room[c])

(* When one step moves two characters, they are of one party, or one was    *)
(* evacuated to the gate, or somebody had accepted an invitation while in   *)
(* a party: then a run or a walk drags along a member of another one.       *)
OnlyPartiesMoveTogether ==
    [][\A c, d \in Online :
          \/ c = d \/ room'[c] = room[c] \/ room'[d] = room[d]
          \/ GateRoom \in {room'[c], room'[d]}
          \/ partyOf[c] # NoOne /\ partyOf[c] = partyOf[d]
          \/ joinedTwice]_roomVars

(* The party tables and the occupants index agree with each other and with  *)
(* who is online, whatever commands, runs, reloads and logouts interleave.  *)
RoomInv == PartyTypeOK /\ PartyTablesAgree /\ OnePartyEach /\ OccupantsAreThere

=============================================================================
