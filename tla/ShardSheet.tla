------------------------------ MODULE ShardSheet ----------------------------
(* The character sheets of the shard world: experience shared by a party,   *)
(* levels and skill points, training, skills with their mana and cooldown,  *)
(* the regeneration polled by the loop of handle_broker, and bot mode with  *)
(* its confirmation.  Attaching again keeps what the snapshot holds and     *)
(* forgets the rest.  Stamina is kept like mana and left out.  MaxSlain     *)
(* bounds the mobs that are killed.                                         *)
EXTENDS Integers, FiniteSets, FiniteSetsExt

CONSTANTS Heroes,
          XpPerMob, XpUnit,      \* 10 and 10
          ManaBase, ManaCost,
          ManaEvery,             \* MANA_REGEN_MS
          Cooldown, MaxPoll,     \* how long the loop may sleep
          MaxRank, MaxSlain

ASSUME SheetBounds ==
    /\ IsFiniteSet(Heroes)
    /\ {XpPerMob, ManaBase, Cooldown, MaxSlain} \subseteq Nat
    /\ {XpUnit, ManaCost, ManaEvery, MaxPoll, MaxRank} \subseteq Nat \ {0}

VARIABLES
    sheet,  \* what a snapshot keeps: level, xp, skill points, rank, mana,
            \* is_bot and bot_ever of each character
    regen,  \* now - last_mana_regen_ms
    wait,   \* time left until skill_cd_ms
    asked,  \* SessionState.pending_confirm
    slain,  \* history: mobs whose experience was awarded
    agreed  \* history: who said yes to the question or came as a bot

sheetVars == <<sheet, regen, wait, asked, slain, agreed>>

(* xp_needed_for_next, summed over the levels below; compute_max_mana.      *)
XpNeeded(level) == XpUnit * level
XpBelow(level)  == XpUnit * ((level * (level - 1)) \div 2)
MaxMana(level)  == ManaBase + level

New(bot) == [level |-> 1, xp |-> 0, points |-> 0, rank |-> 0,
             mana |-> MaxMana(1), isBot |-> bot, everBot |-> bot]

SheetInit ==
    /\ sheet \in [Heroes -> {New(bot) : bot \in BOOLEAN}]
    /\ regen = [h \in Heroes |-> 0]
    /\ wait = [h \in Heroes |-> 0]
    /\ asked = [h \in Heroes |-> FALSE]
    /\ slain = 0
    /\ agreed = {h \in Heroes : sheet[h].isBot}

-----------------------------------------------------------------------------
(* World::award_xp_one: as many levels as the experience is good for.       *)
Levelled(s, xp) ==
    LET all   == XpBelow(s.level) + s.xp + xp
        level == CHOOSE n \in s.level..(s.level + s.xp + xp) :
                    XpBelow(n) <= all /\ all < XpBelow(n + 1) IN
    [s EXCEPT !.level = level, !.xp = all - XpBelow(level),
              !.points = @ + level - s.level]

(* World::award_xp: the members of the killer's party that are with it      *)
(* share; the remainder goes to the one the member set yields first.        *)
AwardXp(killer, party) ==
    LET share == XpPerMob \div Cardinality(party)
        rest  == XpPerMob % Cardinality(party) IN
    \E first \in party :
       sheet' = [h \in Heroes |->
                   IF h \notin party THEN sheet[h]
                   ELSE Levelled(sheet[h],
                                 share + (IF h = first THEN rest ELSE 0))]

SlayMob(killer) ==
    /\ slain < MaxSlain
    /\ slain' = slain + 1
    /\ \E party \in SUBSET Heroes : killer \in party /\ AwardXp(killer, party)
    /\ UNCHANGED <<regen, wait, asked, agreed>>

(* `train <skill>`.                                                         *)
Train(h) ==
    /\ sheet[h].rank < MaxRank
    /\ sheet[h].points > 0
    /\ sheet' = [sheet EXCEPT ![h].points = @ - 1, ![h].rank = @ + 1]
    /\ UNCHANGED <<regen, wait, asked, slain, agreed>>

(* `use <skill>`: it costs even if there turns out to be nothing to hit.    *)
UseMana(h) ==
    /\ sheet[h].rank > 0
    /\ wait[h] = 0
    /\ sheet[h].mana >= ManaCost
    /\ wait' = [wait EXCEPT ![h] = Cooldown]
    /\ sheet' = [sheet EXCEPT ![h].mana = @ - ManaCost]
    /\ UNCHANGED <<regen, asked, slain, agreed>>

-----------------------------------------------------------------------------
(* The loop wakes up after d and calls World::regen_resources.              *)
Regain(s, elapsed) ==
    LET most == MaxMana(s.level) IN
    IF s.mana >= most THEN <<s.mana, 0>>
    ELSE IF elapsed \div ManaEvery = 0 THEN <<s.mana, elapsed>>
    ELSE <<Min({s.mana + elapsed \div ManaEvery, most}), 0>>

Poll(d) ==
    /\ sheet' = [h \in Heroes |->
                   [sheet[h] EXCEPT !.mana = Regain(sheet[h], regen[h] + d)[1]]]
    /\ regen' = [h \in Heroes |-> Regain(sheet[h], regen[h] + d)[2]]
    /\ wait' = [h \in Heroes |-> IF wait[h] > d THEN wait[h] - d ELSE 0]
    /\ UNCHANGED <<asked, slain, agreed>>

-----------------------------------------------------------------------------
(* `bot on`, the answer to its question, and `bot off`.                     *)
BotOn(h) ==
    /\ ~asked[h] /\ ~sheet[h].isBot
    /\ IF sheet[h].everBot
       THEN sheet' = [sheet EXCEPT ![h].isBot = TRUE] /\ UNCHANGED asked
       ELSE asked' = [asked EXCEPT ![h] = TRUE] /\ UNCHANGED sheet
    /\ UNCHANGED <<regen, wait, slain, agreed>>

Confirm(h) ==
    /\ asked[h]
    /\ asked' = [asked EXCEPT ![h] = FALSE]
    /\ \/ /\ sheet' = [sheet EXCEPT ![h].isBot = TRUE, ![h].everBot = TRUE]
          /\ agreed' = agreed \cup {h}
       \/ UNCHANGED <<sheet, agreed>>
    /\ UNCHANGED <<regen, wait, slain>>

BotOff(h) ==
    /\ ~asked[h] /\ sheet[h].isBot
    /\ sheet' = [sheet EXCEPT ![h].isBot = FALSE]
    /\ UNCHANGED <<regen, wait, asked, slain, agreed>>

(* Detach, and restore_character from the snapshot: the broker's is_bot is  *)
(* not looked at again, cooldowns and the question are gone.                *)
ComeBack(h) ==
    /\ regen' = [regen EXCEPT ![h] = 0]
    /\ wait' = [wait EXCEPT ![h] = 0]
    /\ asked' = [asked EXCEPT ![h] = FALSE]
    /\ UNCHANGED <<sheet, slain, agreed>>

SheetNext ==
    \/ \E h \in Heroes : \/ SlayMob(h) \/ Train(h) \/ UseMana(h)
                         \/ BotOn(h) \/ Confirm(h) \/ BotOff(h) \/ ComeBack(h)
    \/ \E d \in 1..MaxPoll : Poll(d)

Polled == \E d \in 1..MaxPoll : Poll(d)

SheetSpec == SheetInit /\ [][SheetNext]_sheetVars
SheetLiveSpec == SheetSpec /\ WF_sheetVars(Polled)

-----------------------------------------------------------------------------
(* Types and ranges.                                                        *)
SheetTypeOK ==
    /\ \A h \in Heroes :
          /\ sheet[h].level \in Nat \ {0}
          /\ sheet[h].xp \in 0..(XpNeeded(sheet[h].level) - 1)
          /\ sheet[h].mana \in 0..MaxMana(sheet[h].level)
          /\ sheet[h].rank \in 0..MaxRank
          /\ {sheet[h].isBot, sheet[h].everBot} \subseteq BOOLEAN
    /\ regen \in [Heroes -> 0..(ManaEvery - 1)]
    /\ wait \in [Heroes -> 0..Cooldown]
    /\ asked \in [Heroes -> BOOLEAN]

(* However a kill is shared and however many levels it is worth at once, no *)
(* experience is made or lost, and every level gave one skill point, kept   *)
(* or trained.                                                              *)
ExperienceAddsUp ==
    /\ MapThenSumSet(LAMBDA h : XpBelow(sheet[h].level) + sheet[h].xp, Heroes)
          = XpPerMob * slain
    /\ \A h \in Heroes : sheet[h].points + sheet[h].rank = sheet[h].level - 1

(* Nobody is a bot without having agreed to be marked as one for good.      *)
BotsAgreed ==
    \A h \in Heroes : /\ sheet[h].isBot => sheet[h].everBot
                      /\ sheet[h].everBot <=> h \in agreed

(* A character that stays online does not stay at the same low mana,        *)
(* although the loop polls more often than the regeneration interval.       *)
ManaReturns ==
    \A h \in Heroes :
        <>[][~ComeBack(h)]_sheetVars =>
            \A m \in 0..ManaBase : sheet[h].mana = m ~> sheet[h].mana # m
=============================================================================
