------------------------------ MODULE ShardBoss -----------------------------
(* The scripted boss of the shard world: spawn, the BossTelegraph event     *)
(* that announces a cast and comes again, the BossResolve event that ends   *)
(* it, the stun that interrupts it, and the boss's death.  The heap of      *)
(* events gives each event the time left until it is due, and the sequence  *)
(* number a BossResolve carries is reduced to whether it is still the       *)
(* boss's: the numbers only grow.  After the clock went on, everything due  *)
(* is handled, in the order of the due times, before a command is read.     *)
EXTENDS Integers, FiniteSets

CONSTANTS FirstCast, CastTime, Cadence,  \* 800, 2500 and 6500 ms
          MaxLate                        \* how far the clock may jump

ASSUME CastBeforeNext == /\ {FirstCast, CastTime, Cadence} \subseteq Nat \ {0}
                         /\ CastTime < Cadence /\ FirstCast <= Cadence
                         /\ MaxLate \in Nat \ {0}

VARIABLES
    bossAlive,  \* the boss is among World::chars
    known,      \* World::bosses has its BossState
    casting,    \* time left until casting_until_ms; 0 or less: not casting
    telegraphs, \* the BossTelegraph events, by the time left
    resolves,   \* the BossResolve events: [left, current]
    announced,  \* history: a cast was announced and not interrupted since
    crushes     \* history: flips when a cast hits the room

bossVars == <<bossAlive, known, casting, telegraphs, resolves, announced, crushes>>

BossInit ==
    /\ bossAlive = FALSE /\ known = FALSE
    /\ casting = 0
    /\ telegraphs = {} /\ resolves = {}
    /\ announced = FALSE /\ crushes = FALSE

DueTimes == telegraphs \cup {r.left : r \in resolves}
Due(d)   == d <= 0 /\ \A x \in DueTimes : d <= x
Quiet    == \A d \in DueTimes : d > 0

(* A new sequence number makes every pending BossResolve an old one.        *)
Outdated == {[r EXCEPT !.current = FALSE] : r \in resolves}

-----------------------------------------------------------------------------
(* World::spawn_named_mob, for a grease_king.  Bound: the next one waits    *)
(* until the events of the last one have found no character and ended.      *)
SpawnBoss ==
    /\ ~bossAlive
    /\ telegraphs = {} /\ resolves = {}
    /\ bossAlive' = TRUE /\ known' = TRUE
    /\ casting' = 0
    /\ telegraphs' = {FirstCast}
    /\ UNCHANGED <<resolves, announced, crushes>>

(* apply_damage_to_mob, when it dies.                                       *)
KillBoss ==
    /\ bossAlive
    /\ bossAlive' = FALSE /\ known' = FALSE
    /\ announced' = FALSE
    /\ UNCHANGED <<casting, telegraphs, resolves, crushes>>

(* World::apply_stun: a cast that has not ended yet is interrupted.         *)
StunBoss ==
    /\ bossAlive /\ known /\ casting > 0
    /\ casting' = 0
    /\ resolves' = Outdated
    /\ announced' = FALSE
    /\ UNCHANGED <<bossAlive, known, telegraphs, crushes>>

\* Fault: a telegraph that finds the boss casting does not come again.
BossTelegraphOnce ==
    \E d \in telegraphs :
        /\ Due(d)
        /\ UNCHANGED <<bossAlive, crushes>>
        /\ IF bossAlive /\ casting <= 0
           THEN /\ casting' = CastTime
                /\ resolves' = Outdated \cup
                               {[left |-> CastTime, current |-> TRUE]}
                /\ telegraphs' = telegraphs \ {d}
                /\ announced' = TRUE
                /\ UNCHANGED known
           ELSE /\ known' = bossAlive
                /\ telegraphs' = telegraphs \ {d}
                /\ UNCHANGED <<casting, resolves, announced>>

(* handle_event, EventKind::BossTelegraph.                                  *)
BossTelegraph ==
    \E d \in telegraphs :
        /\ Due(d)
        /\ UNCHANGED <<bossAlive, crushes>>
        /\ \/ /\ ~bossAlive
              /\ known' = FALSE
              /\ telegraphs' = telegraphs \ {d}
              /\ UNCHANGED <<casting, resolves, announced>>
           \/ /\ bossAlive /\ known /\ casting > 0
              /\ telegraphs' = (telegraphs \ {d}) \cup {casting}
              /\ UNCHANGED <<known, casting, resolves, announced>>
           \/ /\ bossAlive /\ known /\ casting <= 0
              /\ casting' = CastTime
              /\ resolves' = Outdated \cup
                             {[left |-> CastTime, current |-> TRUE]}
              /\ telegraphs' = (telegraphs \ {d}) \cup {Cadence}
              /\ announced' = TRUE
              /\ UNCHANGED known

(* handle_event, EventKind::BossResolve.                                    *)
BossResolve ==
    \E r \in resolves :
        /\ Due(r.left)
        /\ resolves' = resolves \ {r}
        /\ known' = (known /\ bossAlive)
        /\ IF bossAlive /\ known /\ r.current /\ casting <= 0
           THEN /\ crushes' = ~crushes
                /\ announced' = FALSE
                /\ casting' = 0
           ELSE UNCHANGED <<crushes, announced, casting>>
        /\ UNCHANGED <<bossAlive, telegraphs>>

(* The clock goes on, by more than one unit when the loop was kept busy.    *)
BossTick ==
    /\ Quiet
    /\ \E d \in 1..MaxLate :
          /\ telegraphs' = {x - d : x \in telegraphs}
          /\ resolves' = {[r EXCEPT !.left = @ - d] : r \in resolves}
          /\ casting' = IF casting > d THEN casting - d ELSE 0
    /\ UNCHANGED <<bossAlive, known, announced, crushes>>

BossNext ==
    \/ BossTelegraph \/ BossResolve \/ BossTick
    \/ Quiet /\ (SpawnBoss \/ KillBoss \/ StunBoss)

BossFair == /\ WF_bossVars(BossTelegraph)
            /\ WF_bossVars(BossResolve)
            /\ SF_bossVars(BossTick)

BossSpec == BossInit /\ [][BossNext]_bossVars
BossLiveSpec == BossSpec /\ BossFair

-----------------------------------------------------------------------------
(* Types; the table of bosses knows the boss while it lives.                *)
BossTypeOK ==
    /\ bossAlive \in BOOLEAN /\ announced \in BOOLEAN /\ crushes \in BOOLEAN
    /\ known = bossAlive
    /\ casting \in 0..CastTime
    /\ telegraphs \subseteq (1 - MaxLate)..Cadence
    /\ resolves \subseteq [left : (1 - MaxLate)..CastTime, current : BOOLEAN]
    /\ announced => bossAlive

(* The room is only hit by a cast that was announced and that nobody        *)
(* interrupted, also when the events of an interrupted cast are pending.    *)
OnlyAnnouncedCrushes == [][crushes' # crushes => announced]_bossVars

(* A living boss that is not casting announces the next cast, whatever was  *)
(* interrupted: its chain of events never breaks.                           *)
BossCastsAgain == (bossAlive /\ ~announced) ~> (announced \/ ~bossAlive)
=============================================================================
