------------------------------- MODULE MCWorld ------------------------------
(* What happens in the shard world, side by side: each behaviour is one of  *)
(* a fight, of the players with their snapshots, of the parties with their  *)
(* rooms, of the quests, of the groups or of the character sheets, and the  *)
(* other parts stay as they start.                                          *)
EXTENDS ShardFights, ShardPlayers, ShardRooms, ShardQuests, ShardGroups, ShardSheet,
        TLC

CONSTANTS a, b

VARIABLE part

\* Commands that change role_caps give one capability.
MCGivenCaps == {{"group.member"}}

\* One principal finds a pouch, the other one finds nothing.
MCMaxLoot == (a :> 1) @@ (b :> 0)

worldVars == <<part, fightVars, playerVars, roomVars, questVars, groupVars, sheetVars>>

WorldInit ==
    /\ part \in {"fights", "players", "rooms", "quests", "groups", "sheets"}
    /\ FightInit /\ PlayerInit /\ RoomInit /\ QuestInit /\ GroupInit /\ SheetInit
    /\ part # "sheets" => \A h \in Heroes : sheet[h] = New(FALSE)

WorldNext ==
    /\ UNCHANGED part
    /\ \/ /\ part = "fights" /\ FightNext
          /\ UNCHANGED <<playerVars, roomVars, questVars, groupVars, sheetVars>>
       \/ /\ part = "players" /\ PlayerNext
          /\ UNCHANGED <<fightVars, roomVars, questVars, groupVars, sheetVars>>
       \/ /\ part = "rooms" /\ RoomNext
          /\ UNCHANGED <<fightVars, playerVars, questVars, groupVars, sheetVars>>
       \/ /\ part = "quests" /\ QuestNext
          /\ UNCHANGED <<fightVars, playerVars, roomVars, groupVars, sheetVars>>
       \/ /\ part = "groups" /\ GroupNext
          /\ UNCHANGED <<fightVars, playerVars, roomVars, questVars, sheetVars>>
       \/ /\ part = "sheets" /\ SheetNext
          /\ UNCHANGED <<fightVars, playerVars, roomVars, questVars, groupVars>>

WorldSpec == WorldInit /\ [][WorldNext]_worldVars

\* The parts share the names of their sessions and players.
Symmetry == Permutations(WorldSessions)

-----------------------------------------------------------------------------
(* A character's quests and sheet: counters count the switches thrown, no   *)
(* gate is passed unearned, and levels, points and rewards add up.          *)
CharacterInv == /\ QuestTypeOK /\ CountersCount /\ GatesAreEarned
                /\ SheetTypeOK /\ ExperienceAddsUp /\ BotsAgreed

(* What no step of the world does: hurt a player who is not willing, unless *)
(* a mob acts; forget a principal; move along somebody who was never in a   *)
(* party; undo what a quest reached; give powers that nobody could give.    *)
WorldSteps == /\ OnlyWillingDuels /\ PlayersStayKnown /\ OnlyPartiesMoveTogether
              /\ NothingIsUndone /\ PowersAreGranted

=============================================================================
