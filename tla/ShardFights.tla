---------------------------- MODULE ShardFights -----------------------------
(* Automatic combat in the shard world: `kill`, the CombatAct events that   *)
(* carry it on, party assistance, retaliation, stuns, player against player *)
(* and death.  The heap of events is kept as the number of CombatAct events *)
(* of each fighter by the time left until they are due; the loop of         *)
(* handle_broker handles what is due before it reads the next command or    *)
(* lets the clock go on.  All players are of one party.  A character that   *)
(* is gone never comes back under its identifier, so what still refers to   *)
(* it refers to Gone.  Times are in units of the attack interval.           *)
EXTENDS Naturals, FiniteSets, Functions

CONSTANTS Players, Mobs, Nobody, Gone,
          Hall, Arena, Grave,  \* an ordinary room, a pvp room, the graveyard
          MaxHp,
          StunTime,            \* skill_stun_ms
          MaxActs              \* bound: the events of one fighter

ASSUME FightBounds == /\ MaxHp \in Nat \ {0}
                      /\ StunTime \in Nat
                      /\ MaxActs \in Nat
ASSUME FightNames == /\ IsFiniteSet(Players)
                     /\ Nobody # Gone /\ {Nobody, Gone} \cap (Players \cup Mobs) = {}
                     /\ Grave \notin {Hall, Arena, Gone}

VARIABLES
    place,   \* Character.room_id, Gone when the character is not there
    hp,      \* Character.hp
    auto,    \* CombatState.autoattack
    target,  \* CombatState.target
    ready,   \* time left until CombatState.next_ready_ms
    stunned, \* time left until Character.stunned_until_ms
    pvp,     \* Character.pvp_enabled
    acts,    \* CombatAct events: how many are due in how long
    swings   \* history: automatic hits since the last tick or start_combat

fightVars == <<place, hp, auto, target, ready, stunned, pvp, acts, swings>>

Fighters == Players \cup Mobs
Delays   == 0..(IF StunTime > 1 THEN StunTime ELSE 1)
Here(c)  == place[c] # Gone
NoActs   == [d \in Delays |-> 0]
Pending(c) == \E d \in Delays : acts[c][d] > 0
NoneDue  == \A c \in Fighters : acts[c][0] = 0

FightInit ==
    /\ place = [c \in Fighters |-> Gone]
    /\ hp = [c \in Fighters |-> MaxHp]
    /\ auto = [c \in Fighters |-> FALSE]
    /\ target = [c \in Fighters |-> Nobody]
    /\ ready = [c \in Fighters |-> 0]
    /\ stunned = [c \in Fighters |-> 0]
    /\ pvp = [c \in Players |-> FALSE]
    /\ acts = [c \in Fighters |-> NoActs]
    /\ swings = [c \in Fighters |-> 0]

-----------------------------------------------------------------------------
(* World::schedule_at_ms of a CombatAct.                                    *)
Plus(c, d, n) == [acts[c] EXCEPT ![d] = @ + n]

(* World::can_pvp_ids; every player is built and alive.                     *)
CanPvp(a, t) == /\ a # t /\ {a, t} \subseteq Players
                /\ place[a] = Arena /\ place[t] = Arena
                /\ pvp[a] /\ pvp[t]

(* World::start_combat with the party_assist_attackers it calls: everyone   *)
(* of the party in the room who is not fighting joins, and each of them in  *)
(* turn provokes the target.                                                *)
Joiners(a, t) == {a} \cup {m \in Players \ {t} : place[m] = place[a]
                                                 /\ ~auto[m]}

StartCombat(a, t) ==
    LET joiners   == Joiners(a, t)
        provokers == {j \in joiners : t \in Mobs \/ CanPvp(j, t)} IN
    /\ auto' = [c \in Fighters |-> auto[c] \/ c \in joiners
                                   \/ (c = t /\ provokers # {})]
    /\ \E last \in IF provokers = {} THEN {target[t]} ELSE provokers :
          target' = [c \in Fighters |-> IF c \in joiners THEN t
                                        ELSE IF c = t THEN last
                                        ELSE target[c]]
    /\ ready' = [c \in Fighters |-> IF c \in joiners THEN 0
                                    ELSE IF c = t /\ provokers # {} THEN 0
                                    ELSE ready[c]]
    /\ acts' = [c \in Fighters |->
                  IF c \in joiners THEN Plus(c, 0, 1)
                  ELSE IF c = t THEN Plus(t, 0, Cardinality(provokers))
                  ELSE acts[c]]
    /\ \A c \in Fighters : FoldFunction(+, 0, acts'[c]) <= MaxActs
    /\ swings' = [c \in Fighters |-> IF c \in joiners THEN 0
                                     ELSE IF c = t /\ provokers # {} THEN 0
                                     ELSE swings[c]]
    /\ UNCHANGED <<place, hp, stunned, pvp>>

StopCombat(c) ==
    /\ auto' = [auto EXCEPT ![c] = FALSE]
    /\ target' = [target EXCEPT ![c] = Nobody]

(* The command `kill`, with or without a name: it toggles.                  *)
KillOff(p) ==
    /\ auto[p]
    /\ StopCombat(p)
    /\ UNCHANGED <<place, hp, ready, stunned, pvp, acts, swings>>

Kill(p) ==
    /\ stunned[p] = 0
    /\ \E t \in Fighters \ {p} :
          /\ place[t] = place[p]
          /\ t \in Mobs \/ CanPvp(p, t)
          /\ ~(auto[p] /\ target[p] = t)
          /\ StartCombat(p, t)

-----------------------------------------------------------------------------
(* apply_damage_to_mob and apply_damage_to_player with send_to_graveyard,   *)
(* and the caller's reaction to a kill; "left" are the attacker's events    *)
(* afterwards.                                                              *)
Dies(t) == hp[t] = 1
Removed(t) == IF Dies(t) /\ t \in Mobs THEN {t} ELSE {}

Hit(c, t, left) ==
    LET stopped == IF Dies(t) THEN {c, t} ELSE {} IN
    /\ hp' = [hp EXCEPT ![t] = IF Dies(t) THEN MaxHp ELSE @ - 1]
    /\ place' = IF Dies(t)
                THEN [place EXCEPT ![t] = IF t \in Mobs THEN Gone ELSE Grave]
                ELSE place
    /\ auto' = [x \in Fighters |-> auto[x] /\ x \notin stopped]
    /\ target' = [x \in Fighters |->
                    IF x \in stopped THEN Nobody
                    ELSE IF target[x] \in Removed(t) THEN Gone ELSE target[x]]
    /\ acts' = [x \in Fighters |-> IF x = c THEN left
                                   ELSE IF x \in Removed(t) THEN NoActs
                                   ELSE acts[x]]
    /\ UNCHANGED pvp

(* handle_event for a CombatAct of c: it is dropped, put off, ends the      *)
(* fight, or strikes and comes again.                                       *)
Popped(c) == Plus(c, 0, 0 - 1)
ComesAgain(c, d) == [Popped(c) EXCEPT ![d] = @ + 1]

Resting(c, d) ==
    /\ acts' = [acts EXCEPT ![c] = ComesAgain(c, d)]
    /\ UNCHANGED <<place, hp, auto, target, ready, stunned, pvp, swings>>

MayStrike(c, t) ==
    /\ t \in Fighters /\ place[t] = place[c]
    /\ ~(c \in Mobs /\ t \in Mobs)
    /\ (c \in Players /\ t \in Players) => CanPvp(c, t)

\* Fault: the blow does not set next_ready_ms.
StrikeAtOnce(c, t) ==
    /\ Hit(c, t, IF Dies(t) THEN Popped(c) ELSE ComesAgain(c, 1))
    /\ swings' = [swings EXCEPT ![c] = @ + 1]
    /\ UNCHANGED <<ready, stunned>>

Strike(c, t) ==
    /\ Hit(c, t, IF Dies(t) THEN Popped(c) ELSE ComesAgain(c, 1))
    /\ ready' = IF Dies(t) THEN ready ELSE [ready EXCEPT ![c] = 1]
    /\ swings' = [swings EXCEPT ![c] = @ + 1]
    /\ UNCHANGED stunned

CombatAct(c) ==
    /\ acts[c][0] > 0
    /\ \/ /\ ~auto[c] \/ target[c] = Nobody
          /\ acts' = [acts EXCEPT ![c] = Popped(c)]
          /\ UNCHANGED <<place, hp, auto, target, ready, stunned, pvp, swings>>
       \/ /\ auto[c] /\ target[c] # Nobody
          /\ \/ stunned[c] > 0 /\ Resting(c, stunned[c])
             \/ stunned[c] = 0 /\ ready[c] > 0 /\ Resting(c, ready[c])
             \/ /\ stunned[c] = 0 /\ ready[c] = 0
                /\ IF MayStrike(c, target[c])
                   THEN Strike(c, target[c])
                   ELSE /\ StopCombat(c)
                        /\ acts' = [acts EXCEPT ![c] = Popped(c)]
                        /\ UNCHANGED <<place, hp, ready, stunned, pvp,
                                       swings>>

(* `use` of a combat skill: it needs no pause between two blows, and may    *)
(* stun what it does not kill (World::apply_stun never shortens a stun).    *)
UseSkill(p) ==
    LET t == target[p] IN
    /\ stunned[p] = 0
    /\ MayStrike(p, t)
    /\ Hit(p, t, acts[p])
    /\ \E for \in {0, StunTime} :
          stunned' = IF Dies(t) \/ for <= stunned[t] THEN stunned
                     ELSE [stunned EXCEPT ![t] = for]
    /\ UNCHANGED <<ready, swings>>

-----------------------------------------------------------------------------
(* A character comes or goes: attach, World::spawn_mob; detach_session.     *)
Come(c) ==
    /\ ~Here(c)
    /\ \E r \in {Hall, Arena} : place' = [place EXCEPT ![c] = r]
    /\ ready' = [ready EXCEPT ![c] = 0]
    /\ stunned' = [stunned EXCEPT ![c] = 0]
    /\ swings' = [swings EXCEPT ![c] = 0]
    /\ UNCHANGED <<hp, auto, target, pvp, acts>>

Leave(p) ==
    /\ Here(p)
    /\ place' = [place EXCEPT ![p] = Gone]
    /\ hp' = [hp EXCEPT ![p] = MaxHp]
    /\ auto' = [auto EXCEPT ![p] = FALSE]
    /\ target' = [x \in Fighters |-> IF x = p THEN Nobody
                                     ELSE IF target[x] = p THEN Gone
                                     ELSE target[x]]
    /\ acts' = [acts EXCEPT ![p] = NoActs]
    /\ pvp' = [pvp EXCEPT ![p] = FALSE]
    /\ UNCHANGED <<ready, stunned, swings>>

Walk(p) ==
    /\ Here(p)
    /\ \E r \in {Hall, Arena} \ {place[p]} : place' = [place EXCEPT ![p] = r]
    /\ UNCHANGED <<hp, auto, target, ready, stunned, pvp, acts, swings>>

SetPvp(p) ==
    /\ Here(p)
    /\ \E on \in BOOLEAN : pvp' = [pvp EXCEPT ![p] = on]
    /\ UNCHANGED <<place, hp, auto, target, ready, stunned, acts, swings>>

(* The clock goes on by one attack interval.                                *)
Less(n) == IF n = 0 THEN 0 ELSE n - 1

Tick ==
    /\ ready' = [c \in Fighters |-> Less(ready[c])]
    /\ stunned' = [c \in Fighters |-> Less(stunned[c])]
    /\ acts' = [c \in Fighters |-> [d \in Delays |->
                    IF d + 1 \in Delays THEN acts[c][d + 1] ELSE 0]]
    /\ swings' = [c \in Fighters |-> 0]
    /\ UNCHANGED <<place, hp, auto, target, pvp>>

Command(p) ==
    \/ Here(p) /\ (KillOff(p) \/ Kill(p) \/ UseSkill(p))
    \/ Leave(p) \/ Walk(p) \/ SetPvp(p)

FightNext ==
    \/ \E c \in Fighters : CombatAct(c)
    \/ NoneDue /\ (\/ \E p \in Players : Command(p)
                   \/ \E c \in Fighters : Come(c)
                   \/ Tick)

FightSpec == FightInit /\ [][FightNext]_fightVars

-----------------------------------------------------------------------------
(* Types; nobody stays in the world without hit points.                     *)
FightTypeOK ==
    /\ place \in [Fighters -> {Hall, Arena, Grave, Gone}]
    /\ hp \in [Fighters -> 1..MaxHp]
    /\ auto \in [Fighters -> BOOLEAN]
    /\ target \in [Fighters -> Fighters \cup {Nobody, Gone}]
    /\ ready \in [Fighters -> 0..1]
    /\ stunned \in [Fighters -> 0..StunTime]
    /\ pvp \in [Players -> BOOLEAN]
    /\ acts \in [Fighters -> [Delays -> Nat]]
    /\ swings \in [Fighters -> Nat]

(* Whoever is set to attack has a CombatAct pending, through stuns, deaths, *)
(* assistance and commands: no fight stands still for good.                 *)
EngagedWillAct == \A c \in Fighters : auto[c] => Pending(c)

(* The events of a fighter multiply when it stops and starts again, but it  *)
(* still hits once per interval, unless it started to fight again.          *)
OneSwingPerInterval == \A c \in Fighters : swings[c] <= 1

(* A player is hurt while no mob acts only by the blow of another player,   *)
(* with both in the arena and both willing, also when a party joins in.     *)
HurtOf(p)  == hp'[p] < hp[p] \/ (place[p] # Grave /\ place'[p] = Grave)
MobsAsleep == \A m \in Mobs : acts'[m] = acts[m]

OnlyWillingDuels ==
    [][\A p \in Players : HurtOf(p) /\ MobsAsleep =>
          \E q \in Players : CanPvp(q, p)]_fightVars

(* The heap of CombatAct events through commands, stuns, deaths and returns:*)
(* whoever fights on has an event to come, and none strikes too often.      *)
FightInv == FightTypeOK /\ EngagedWillAct /\ OneSwingPerInterval

=============================================================================
