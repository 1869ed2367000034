--------------------------- MODULE ProgressProofs ---------------------------
(***************************************************************************)
(* Proofs about the parts of the shard that run by themselves: the chains  *)
(* of events that keep the world populated (ShardSpawns), and the casts of *)
(* the scripted boss (ShardBoss), for any times and any bounds.            *)
(***************************************************************************)
EXTENDS MCProgress, DataInduction, FiniteSetTheorems, TLAPS

-----------------------------------------------------------------------------
(* Chains of events.  A table gives each time left the number of chains     *)
(* that are due then.                                                       *)

Table(events, every) == events \in [0..every -> Nat]
Pending(events)      == \E d \in DOMAIN events : events[d] > 0

(* The fold counts something exactly when a chain is pending.               *)
LEMMA ChainsCount ==
    ASSUME NEW every \in Nat, NEW e, Table(e, every)
    PROVE  Chains(e) \in Nat /\ (Chains(e) > 0 <=> Pending(e))
<1>1. IsFiniteSet(0..every) /\ DOMAIN e = 0..every /\ e \in [0..every -> Nat]
  <2>1. IsFiniteSet(0..every)
    BY FS_Interval
  <2> QED
    BY <2>1 DEF Table
<1>2. Chains(e) = SumOver(e, DOMAIN e)[DOMAIN e]
  BY DEF Chains, FoldFunction, FoldFunctionOnSet, MapThenFoldSet, SumOver
<1>3. /\ SumOver(e, 0..every)[0..every] \in Nat
      /\ SumOver(e, 0..every)[0..every] > 0 <=> \E x \in 0..every : e[x] > 0
  BY <1>1, SumOfNaturals
<1> QED
  BY <1>1, <1>2, <1>3 DEF Pending

(* A chain that is handled, and one that comes again, leaves one pending.   *)
LEMMA TablesMove ==
    ASSUME NEW every \in Nat, NEW e, Table(e, every)
    PROVE  /\ \A d \in 0..every : Table(Add(e, d), every) /\ Pending(Add(e, d))
           /\ \A d \in 0..every : e[0] > 0 => /\ Table(Again(e, d), every)
                                              /\ Pending(Again(e, d))
           /\ e[0] > 0 => Table([e EXCEPT ![0] = @ - 1], every)
           /\ Table(Later(e), every)
           /\ e[0] = 0 /\ Pending(e) => Pending(Later(e))
<1> USE DEF Table
<1>1. ASSUME NEW f, Table(f, every), NEW d \in 0..every
      PROVE  Table(Add(f, d), every) /\ Pending(Add(f, d))
  <2>1. Add(f, d) \in [0..every -> Nat] /\ Add(f, d)[d] = f[d] + 1 /\ DOMAIN Add(f, d) = 0..every
    BY <1>1 DEF Add
  <2>2. Add(f, d)[d] > 0
    BY <1>1, <2>1
  <2> QED
    BY <2>1, <2>2 DEF Pending
<1>2. e[0] > 0 => Table([e EXCEPT ![0] = @ - 1], every)
  BY 0 \in 0..every
<1>3. ASSUME NEW d \in 0..every, e[0] > 0
      PROVE  Table(Again(e, d), every) /\ Pending(Again(e, d))
  BY <1>1, <1>2, <1>3 DEF Again
<1>4. Table(Later(e), every)
  BY DEF Later
<1>5. ASSUME e[0] = 0, Pending(e) PROVE Pending(Later(e))
  <2>1. PICK d \in 0..every : e[d] > 0
    BY <1>5 DEF Pending
  <2>2. d - 1 \in 0..every /\ (d - 1) + 1 = d /\ d # 0
    BY <1>5, <2>1
  <2>3. Later(e)[d - 1] = e[d] /\ DOMAIN Later(e) = 0..every
    BY <2>1, <2>2 DEF Later
  <2> QED
    BY <2>1, <2>2, <2>3 DEF Pending
<1> QED
  BY <1>1, <1>2, <1>3, <1>4, <1>5

-----------------------------------------------------------------------------
(* The spawns.                                                              *)

\* The checks never end, and a bartender has an emote to come.
SpawnIInv ==
    /\ Table(wormChecks, WormEvery) /\ Table(tavernChecks, TavernEvery)
    /\ Table(emotes, EmoteEvery)
    /\ tenders = (IF tenderId = "here" THEN 1 ELSE 0)
    /\ tenderId = "here" => Pending(emotes)
    /\ Pending(wormChecks) /\ Pending(tavernChecks)

LEMMA SpawnIInvInit == SpawnInit => SpawnIInv
<1>1. \A every \in Nat : Table(NoEvents(every), every)
  BY DEF Table, NoEvents
<1>2. ASSUME NEW every \in Nat
      PROVE  Table(Add(NoEvents(every), 0), every) /\ Pending(Add(NoEvents(every), 0))
  <2>1. 0 \in 0..every /\ Table(NoEvents(every), every)
    BY <1>1
  <2> QED
    BY <2>1, TablesMove
<1> QED
  BY <1>1, <1>2, SpawnTimes DEF SpawnInit, SpawnIInv

LEMMA SpawnIInvStep == SpawnIInv /\ [SpawnNext]_spawnVars => SpawnIInv'
<1> SUFFICES ASSUME SpawnIInv, [SpawnNext]_spawnVars PROVE SpawnIInv'
  OBVIOUS
<1>1. /\ WormEvery \in Nat /\ TavernEvery \in Nat /\ EmoteEvery \in Nat
      /\ \A n \in Nat : 0 \in 0..n /\ n \in 0..n
  BY SpawnTimes
<1>2. /\ \A d \in 0..WormEvery : /\ Table(Add(wormChecks, d), WormEvery)
                                 /\ Pending(Add(wormChecks, d))
      /\ \A d \in 0..WormEvery :
            wormChecks[0] > 0 => /\ Table(Again(wormChecks, d), WormEvery)
                                 /\ Pending(Again(wormChecks, d))
      /\ Table(Later(wormChecks), WormEvery)
      /\ wormChecks[0] = 0 => Pending(Later(wormChecks))
  BY <1>1, TablesMove DEF SpawnIInv
<1>3. /\ \A d \in 0..TavernEvery : /\ Table(Add(tavernChecks, d), TavernEvery)
                                   /\ Pending(Add(tavernChecks, d))
      /\ \A d \in 0..TavernEvery :
            tavernChecks[0] > 0 => /\ Table(Again(tavernChecks, d), TavernEvery)
                                   /\ Pending(Again(tavernChecks, d))
      /\ Table(Later(tavernChecks), TavernEvery)
      /\ tavernChecks[0] = 0 => Pending(Later(tavernChecks))
  BY <1>1, TablesMove DEF SpawnIInv
<1>4. /\ \A d \in 0..EmoteEvery : /\ Table(Add(emotes, d), EmoteEvery)
                                  /\ Pending(Add(emotes, d))
      /\ \A d \in 0..EmoteEvery :
            emotes[0] > 0 => /\ Table(Again(emotes, d), EmoteEvery)
                             /\ Pending(Again(emotes, d))
      /\ emotes[0] > 0 => Table([emotes EXCEPT ![0] = @ - 1], EmoteEvery)
      /\ Table(Later(emotes), EmoteEvery)
      /\ emotes[0] = 0 /\ Pending(emotes) => Pending(Later(emotes))
  BY <1>1, TablesMove DEF SpawnIInv
<1> USE DEF SpawnIInv, wormVars, tavernVars
<1>5. CASE EnsureFirstFightWorm
  BY <1>1, <1>2, <1>5 DEF EnsureFirstFightWorm
<1>6. CASE EnsureTavernMob
  BY <1>1, <1>3, <1>4, <1>6 DEF EnsureTavernMob
<1>7. CASE BartenderEmote
  BY <1>1, <1>3, <1>4, <1>7 DEF BartenderEmote
<1>8. CASE TraineeMoves \/ SpawnWorm
  BY <1>8 DEF TraineeMoves, SpawnWorm
<1>9. CASE KillWorm
  BY <1>1, <1>2, <1>9 DEF KillWorm
<1>10. CASE KillBartender
  BY <1>10 DEF KillBartender
<1>11. CASE AskForBartender
  BY <1>1, <1>3, <1>11 DEF AskForBartender
<1>12. CASE NothingDue /\ SpawnTick
  BY <1>2, <1>3, <1>4, <1>12 DEF SpawnTick, NothingDue
<1>13. CASE UNCHANGED spawnVars
  BY <1>13 DEF spawnVars
<1> QED
  BY <1>5, <1>6, <1>7, <1>8, <1>9, <1>10, <1>11, <1>12, <1>13 DEF SpawnNext, Handling

LEMMA SpawnIInvImplies == SpawnIInv => OneBartender
  BY ChainsCount, SpawnTimes DEF SpawnIInv, OneBartender

-----------------------------------------------------------------------------
(* The boss.                                                                *)

\* One resolve at most is the boss's own, and while it is pending the cast is
\* one that was announced and not interrupted.
BossIInv ==
    /\ BossTypeOK
    /\ \A r, o \in resolves : r.current /\ o.current => r = o
    /\ \A r \in resolves : r.current /\ bossAlive => announced

\* Its parts: what is true or false, the clock, the telegraphs, the resolves.
BossFlags == /\ bossAlive \in BOOLEAN /\ announced \in BOOLEAN /\ crushes \in BOOLEAN
             /\ known = bossAlive
             /\ announced => bossAlive
BossClock == casting \in 0..CastTime
BossTelegraphs == telegraphs \subseteq (1 - MaxLate)..Cadence
BossResolves == resolves \subseteq [left : (1 - MaxLate)..CastTime, current : BOOLEAN]
OneIsCurrent == \A r, o \in resolves : r.current /\ o.current => r = o
CurrentIsAnnounced == \A r \in resolves : r.current /\ bossAlive => announced

LEMMA BossParts ==
    BossIInv <=> /\ BossFlags /\ BossClock /\ BossTelegraphs /\ BossResolves
                 /\ OneIsCurrent /\ CurrentIsAnnounced
  BY Zenon DEF BossIInv, BossTypeOK, BossFlags, BossClock, BossTelegraphs, BossResolves,
               OneIsCurrent, CurrentIsAnnounced

LEMMA BossPartsNext ==
    BossIInv' <=> /\ BossFlags' /\ BossClock' /\ BossTelegraphs' /\ BossResolves'
                  /\ OneIsCurrent' /\ CurrentIsAnnounced'
  BY Zenon DEF BossIInv, BossTypeOK, BossFlags, BossClock, BossTelegraphs, BossResolves,
               OneIsCurrent, CurrentIsAnnounced

LEMMA BossIInvInit == BossInit => BossIInv
<1> SUFFICES ASSUME BossInit PROVE BossIInv
  OBVIOUS
<1>1. /\ bossAlive = FALSE /\ known = FALSE /\ announced = FALSE /\ crushes = FALSE
      /\ casting = 0 /\ telegraphs = {} /\ resolves = {}
  BY DEF BossInit
<1>2. BossFlags
  BY <1>1 DEF BossFlags
<1>3. BossClock
  BY <1>1, CastBeforeNext DEF BossClock
<1>4. BossTelegraphs /\ BossResolves /\ OneIsCurrent /\ CurrentIsAnnounced
  BY <1>1 DEF BossTelegraphs, BossResolves, OneIsCurrent, CurrentIsAnnounced
<1> QED
  BY <1>2, <1>3, <1>4, BossParts

(* A resolve that is no longer the boss's is only that.                     *)
LEMMA OutdatedIs ==
    ASSUME BossResolves
    PROVE  /\ Outdated \subseteq [left : (1 - MaxLate)..CastTime, current : BOOLEAN]
           /\ \A r \in Outdated : ~r.current
  BY DEF BossResolves, Outdated

LEMMA BossIInvStep == BossIInv /\ [BossNext]_bossVars => BossIInv'
<1> SUFFICES ASSUME BossIInv, [BossNext]_bossVars PROVE BossIInv'
  OBVIOUS
<1>0. /\ BossFlags /\ BossClock /\ BossTelegraphs /\ BossResolves
      /\ OneIsCurrent /\ CurrentIsAnnounced
  BY BossParts
<1>1. /\ {FirstCast, CastTime, Cadence} \subseteq Nat \ {0}
      /\ CastTime < Cadence /\ FirstCast <= Cadence /\ MaxLate \in Nat \ {0}
  BY CastBeforeNext
<1>2. /\ Outdated \subseteq [left : (1 - MaxLate)..CastTime, current : BOOLEAN]
      /\ \A r \in Outdated : ~r.current
  BY <1>0, OutdatedIs
<1>3. SpawnBoss \/ KillBoss \/ StunBoss \/ BossTelegraph \/ BossResolve \/ BossTick
      \/ UNCHANGED bossVars
  BY DEF BossNext
<1>4. BossFlags'
  <2>1. bossAlive \in BOOLEAN /\ announced \in BOOLEAN /\ crushes \in BOOLEAN
        /\ known = bossAlive /\ (announced => bossAlive)
    BY <1>0, Zenon DEF BossFlags
  <2>2. \/ bossAlive' = TRUE /\ known' = TRUE /\ announced' = announced /\ crushes' = crushes
        \/ bossAlive' = FALSE /\ known' = FALSE /\ announced' = FALSE /\ crushes' = crushes
        \/ /\ bossAlive' = bossAlive /\ known' = known /\ announced' \in {FALSE, announced}
           /\ crushes' = crushes
        \/ /\ bossAlive' = bossAlive /\ known' = known /\ bossAlive /\ announced' = TRUE
           /\ crushes' = crushes
        \/ ~bossAlive /\ bossAlive' = bossAlive /\ known' = FALSE /\ announced' = announced
           /\ crushes' = crushes
        \/ /\ bossAlive' = bossAlive /\ known' = known
           /\ announced' \in {FALSE, announced} /\ crushes' \in {crushes, ~crushes}
    <3>1. CASE SpawnBoss
      BY <3>1 DEF SpawnBoss
    <3>2. CASE KillBoss
      BY <3>2 DEF KillBoss
    <3>3. CASE StunBoss
      BY <3>3 DEF StunBoss
    <3>4. CASE BossTelegraph
      BY <3>4 DEF BossTelegraph
    <3>5. CASE BossResolve
      <4>1. known' = (known /\ bossAlive)
        BY <3>5 DEF BossResolve
      <4>2. known' = known
        <5>1. CASE bossAlive = TRUE
          BY <2>1, <4>1, <5>1
        <5>2. CASE bossAlive = FALSE
          BY <2>1, <4>1, <5>2
        <5> QED
          BY <2>1, <5>1, <5>2
      <4> QED
        BY <3>5, <4>2 DEF BossResolve
    <3>6. CASE BossTick
      BY <3>6 DEF BossTick
    <3>7. CASE UNCHANGED bossVars
      BY <3>7 DEF bossVars
    <3> QED
      BY <1>3, <3>1, <3>2, <3>3, <3>4, <3>5, <3>6, <3>7, Zenon
  <2>3. bossAlive' \in BOOLEAN /\ announced' \in BOOLEAN /\ crushes' \in BOOLEAN
    BY <2>1, <2>2
  <2>4. known' = bossAlive'
    <3>1. CASE bossAlive = TRUE
      BY <2>1, <2>2, <3>1
    <3>2. CASE bossAlive = FALSE
      BY <2>1, <2>2, <3>2
    <3> QED
      BY <2>1, <3>1, <3>2
  <2>5. announced' => bossAlive'
    BY <2>1, <2>2
  <2> QED
    BY <2>3, <2>4, <2>5, Zenon DEF BossFlags
<1>5. BossClock'
  BY <1>0, <1>1, <1>3 DEF BossClock, SpawnBoss, KillBoss, StunBoss, BossTelegraph,
                          BossResolve, BossTick, bossVars
<1>6. BossTelegraphs' /\ BossResolves' /\ OneIsCurrent' /\ CurrentIsAnnounced'
  <2>1. CASE SpawnBoss
    <3>1. telegraphs' = {FirstCast} /\ resolves' = {}
      BY <2>1 DEF SpawnBoss
    <3>2. FirstCast \in (1 - MaxLate)..Cadence
      BY <1>1
    <3> QED
      BY <3>1, <3>2 DEF BossTelegraphs, BossResolves, OneIsCurrent, CurrentIsAnnounced
  <2>2. CASE KillBoss
    <3>1. telegraphs' = telegraphs /\ resolves' = resolves /\ bossAlive' = FALSE
      BY <2>2 DEF KillBoss
    <3> QED
      BY <1>0, <3>1 DEF BossTelegraphs, BossResolves, OneIsCurrent, CurrentIsAnnounced
  <2>3. CASE StunBoss
    <3>1. telegraphs' = telegraphs /\ resolves' = Outdated
      BY <2>3 DEF StunBoss
    <3> QED
      BY <1>0, <1>2, <3>1 DEF BossTelegraphs, BossResolves, OneIsCurrent, CurrentIsAnnounced
  <2>4. CASE BossTelegraph
    <3>1. PICK d \in telegraphs :
             /\ UNCHANGED <<bossAlive, crushes>>
             /\ \/ /\ ~bossAlive
                   /\ known' = FALSE
                   /\ telegraphs' = telegraphs \ {d}
                   /\ UNCHANGED <<casting, resolves, announced>>
                \/ /\ bossAlive /\ known /\ casting > 0
                   /\ telegraphs' = (telegraphs \ {d}) \cup {casting}
                   /\ UNCHANGED <<known, casting, resolves, announced>>
                \/ /\ bossAlive /\ known /\ casting <= 0
                   /\ casting' = CastTime
                   /\ resolves' = Outdated \cup {[left |-> CastTime, current |-> TRUE]}
                   /\ telegraphs' = (telegraphs \ {d}) \cup {Cadence}
                   /\ announced' = TRUE
                   /\ UNCHANGED known
      BY <2>4 DEF BossTelegraph
    <3>2. BossTelegraphs'
      <4>1. casting \in 0..CastTime /\ telegraphs \subseteq (1 - MaxLate)..Cadence
        BY <1>0 DEF BossClock, BossTelegraphs
      <4>2. casting \in (1 - MaxLate)..Cadence /\ Cadence \in (1 - MaxLate)..Cadence
        BY <1>1, <4>1
      <4> QED
        BY <3>1, <4>1, <4>2 DEF BossTelegraphs
    <3>3. CASE resolves' = resolves /\ announced' = announced /\ bossAlive' = bossAlive
      BY <1>0, <3>2, <3>3 DEF BossResolves, OneIsCurrent, CurrentIsAnnounced
    <3>4. CASE resolves' = Outdated \cup {[left |-> CastTime, current |-> TRUE]}
               /\ announced' = TRUE
      <4>1. [left |-> CastTime, current |-> TRUE]
              \in [left : (1 - MaxLate)..CastTime, current : BOOLEAN]
        BY <1>1
      <4>2. BossResolves'
        BY <1>2, <3>4, <4>1 DEF BossResolves
      <4>3. OneIsCurrent'
        BY <1>2, <3>4 DEF OneIsCurrent
      <4>4. CurrentIsAnnounced'
        BY <3>4 DEF CurrentIsAnnounced
      <4> QED
        BY <3>2, <4>2, <4>3, <4>4
    <3> QED
      BY <3>1, <3>3, <3>4
  <2>5. CASE BossResolve
    <3>1. PICK r \in resolves :
             /\ resolves' = resolves \ {r}
             /\ IF bossAlive /\ known /\ r.current /\ casting <= 0
                THEN announced' = FALSE
                ELSE announced' = announced
             /\ UNCHANGED <<bossAlive, telegraphs>>
      BY <2>5 DEF BossResolve
    <3>2. BossTelegraphs' /\ BossResolves' /\ OneIsCurrent'
      BY <1>0, <3>1 DEF BossTelegraphs, BossResolves, OneIsCurrent
    <3>3. CurrentIsAnnounced'
      BY <1>0, <3>1 DEF CurrentIsAnnounced, OneIsCurrent
    <3> QED
      BY <3>2, <3>3
  <2>6. CASE BossTick
    <3>1. PICK d \in 1..MaxLate :
             /\ telegraphs' = {x - d : x \in telegraphs}
             /\ resolves' = {[r EXCEPT !.left = @ - d] : r \in resolves}
      BY <2>6 DEF BossTick
    <3>2. UNCHANGED <<bossAlive, known, announced, crushes>>
          /\ (\A x \in telegraphs : x > 0) /\ (\A r \in resolves : r.left > 0)
      BY <2>6 DEF BossTick, Quiet, DueTimes
    <3>3. BossTelegraphs'
      BY <1>0, <1>1, <3>1, <3>2 DEF BossTelegraphs
    <3>4. \A r \in resolves : /\ r \in [left : (1 - MaxLate)..CastTime, current : BOOLEAN]
                              /\ r.left - d \in (1 - MaxLate)..CastTime
                              /\ [r EXCEPT !.left = @ - d]
                                   = [left |-> r.left - d, current |-> r.current]
      BY <1>0, <1>1, <3>1, <3>2 DEF BossResolves
    <3>5. resolves' = {[left |-> r.left - d, current |-> r.current] : r \in resolves}
      BY <3>1, <3>4
    <3>6. BossResolves'
      <4>1. \A r \in resolves : [left |-> r.left - d, current |-> r.current]
                                  \in [left : (1 - MaxLate)..CastTime, current : BOOLEAN]
        BY <3>4
      <4> QED
        BY <3>5, <4>1 DEF BossResolves
    <3>7. \A r \in resolves' : r.current => \E x \in resolves :
             x.current /\ r = [left |-> x.left - d, current |-> x.current]
      BY <3>5
    <3>8. OneIsCurrent'
      BY <1>0, <3>7 DEF OneIsCurrent
    <3>9. CurrentIsAnnounced'
      BY <1>0, <3>2, <3>7 DEF CurrentIsAnnounced
    <3> QED
      BY <3>3, <3>6, <3>8, <3>9
  <2>7. CASE UNCHANGED bossVars
    BY <1>0, <2>7 DEF bossVars, BossTelegraphs, BossResolves, OneIsCurrent, CurrentIsAnnounced
  <2> QED
    BY <1>3, <2>1, <2>2, <2>3, <2>4, <2>5, <2>6, <2>7
<1> QED
  BY <1>4, <1>5, <1>6, BossPartsNext

LEMMA CrushStep == BossIInv /\ [BossNext]_bossVars => [crushes' # crushes => announced]_bossVars
<1> SUFFICES ASSUME BossIInv, BossNext, crushes' # crushes PROVE announced
  OBVIOUS
<1>1. BossResolve
  BY DEF BossNext, SpawnBoss, KillBoss, StunBoss, BossTelegraph, BossTick
<1>2. PICK r \in resolves : bossAlive /\ r.current
  BY <1>1 DEF BossResolve
<1> QED
  BY <1>2 DEF BossIInv

-----------------------------------------------------------------------------
(* The theorems.                                                            *)

\* However many checks the commands and the deaths schedule, there is one
\* bartender at a time, and while there is one it has an emote to come
\* (handle_event, EnsureTavernMob and BartenderEmote).
THEOREM OneBartenderHolds == SpawnSpec => []OneBartender
  BY SpawnIInvInit, SpawnIInvStep, SpawnIInvImplies, PTL DEF SpawnSpec

\* The room is hit by a cast that was announced and that nobody interrupted
\* (handle_event, BossResolve, whose sequence number has to be the boss's).
THEOREM OnlyAnnouncedCrushesHolds == BossSpec => OnlyAnnouncedCrushes
  BY BossIInvInit, BossIInvStep, CrushStep, PTL DEF BossSpec, OnlyAnnouncedCrushes

\* The steps of the parts are steps of each part, or leave it alone.
LEMMA PartSteps ==
    [ProgressNext]_progressVars => [SpawnNext]_spawnVars /\ [BossNext]_bossVars
<1> SUFFICES ASSUME [ProgressNext]_progressVars
             PROVE  [SpawnNext]_spawnVars /\ [BossNext]_bossVars
  OBVIOUS
<1>1. CASE OnlySessions \/ OnlySheet \/ OnlyLog \/ OnlySockets \/ OnlyWeb
           \/ UNCHANGED progressVars
  BY <1>1 DEF OnlySessions, OnlySheet, OnlyLog, OnlySockets, OnlyWeb, shardVars, progressVars
<1>2. CASE OnlyBoss /\ BossNext
  BY <1>2 DEF OnlyBoss
<1>3. CASE OnlySpawns /\ SpawnNext
  BY <1>3 DEF OnlySpawns
<1> QED
  BY <1>1, <1>2, <1>3 DEF ProgressNext

\* Both, in the behaviours of the parts side by side.
THEOREM PopulationInvHolds == ProgressSpec => []PopulationInv
<1>1. ProgressInit => SpawnIInv /\ BossIInv
  BY SpawnIInvInit, BossIInvInit DEF ProgressInit
<1>2. SpawnIInv /\ BossIInv /\ [ProgressNext]_progressVars => (SpawnIInv /\ BossIInv)'
  BY PartSteps, SpawnIInvStep, BossIInvStep
<1>3. SpawnIInv /\ BossIInv => PopulationInv
  BY SpawnIInvImplies DEF PopulationInv, BossIInv
<1> QED
  BY <1>1, <1>2, <1>3, PTL DEF ProgressSpec
=============================================================================
