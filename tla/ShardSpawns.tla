----------------------------- MODULE ShardSpawns ----------------------------
(* The events that keep the shard world populated: EnsureFirstFightWorm,    *)
(* EnsureTavernMob and BartenderEmote, what they spawn, and the commands    *)
(* and deaths that schedule more of them.  Each kind of event is a number   *)
(* of chains by the time left until they are due.  MaxChains bounds the     *)
(* chains of a kind: the code does not, and every death of a worm or of the *)
(* bartender may leave one chain more.                                      *)
EXTENDS Naturals, FiniteSets, Functions

CONSTANTS WormEvery, TavernEvery, EmoteEvery,  \* 5 s, 60 s, bartender_emote_ms
          MaxChains, MaxWorms

ASSUME SpawnTimes == /\ {WormEvery, TavernEvery, EmoteEvery} \subseteq Nat \ {0}
                     /\ {MaxChains, MaxWorms} \subseteq Nat \ {0}

VARIABLES
    trainee,       \* a player stands in the room of the first fight
    worms,         \* the stenchworms in that room
    wormChecks,    \* EnsureFirstFightWorm events
    tenderId,      \* World::bartender_id: "none", or its character is "here"
                   \* or "dead"
    tenders,       \* the bartenders among World::chars
    tavernChecks,  \* EnsureTavernMob events
    emotes         \* BartenderEmote events

wormVars   == <<trainee, worms, wormChecks>>
tavernVars == <<tenderId, tenders, tavernChecks, emotes>>
spawnVars  == <<wormVars, tavernVars>>

Chains(events)    == FoldFunction(+, 0, events)
NoEvents(every)   == [d \in 0..every |-> 0]
Add(events, d)    == [events EXCEPT ![d] = @ + 1]
Again(events, d)  == Add([events EXCEPT ![0] = @ - 1], d)
Later(events) == [d \in DOMAIN events |->
                     IF d + 1 \in DOMAIN events THEN events[d + 1] ELSE 0]
NothingDue == wormChecks[0] = 0 /\ tavernChecks[0] = 0 /\ emotes[0] = 0

(* handle_broker schedules the first check of each kind.                    *)
SpawnInit ==
    /\ trainee = FALSE
    /\ worms = 0
    /\ wormChecks = Add(NoEvents(WormEvery), 0)
    /\ tenderId = "none"
    /\ tenders = 0
    /\ tavernChecks = Add(NoEvents(TavernEvery), 0)
    /\ emotes = NoEvents(EmoteEvery)

-----------------------------------------------------------------------------
(* handle_event, EventKind::EnsureFirstFightWorm.                           *)
EnsureFirstFightWorm ==
    /\ wormChecks[0] > 0
    /\ wormChecks' = Again(wormChecks, WormEvery)
    /\ worms' = IF trainee /\ worms = 0 THEN 1 ELSE worms
    /\ UNCHANGED <<trainee, tavernVars>>

\* Fault: nobody looks whether the bartender is there.
EnsureTavernMobAgain ==
    /\ tavernChecks[0] > 0
    /\ tavernChecks' = Again(tavernChecks, TavernEvery)
    /\ tenderId' = "here" /\ tenders' = tenders + 1
    /\ emotes' = Add(emotes, EmoteEvery)
    /\ UNCHANGED wormVars

(* handle_event, EventKind::EnsureTavernMob.                                *)
EnsureTavernMob ==
    /\ tavernChecks[0] > 0
    /\ tavernChecks' = Again(tavernChecks, TavernEvery)
    /\ IF tenderId = "here"
       THEN UNCHANGED <<tenderId, tenders, emotes>>
       ELSE /\ tenderId' = "here"
            /\ tenders' = tenders + 1
            /\ emotes' = Add(emotes, EmoteEvery)
    /\ UNCHANGED wormVars

(* handle_event, EventKind::BartenderEmote: without a bartender the chain   *)
(* ends in one more check.                                                  *)
BartenderEmote ==
    /\ emotes[0] > 0
    /\ IF tenderId = "here"
       THEN /\ emotes' = Again(emotes, EmoteEvery)
            /\ UNCHANGED <<tenderId, tavernChecks>>
       ELSE /\ emotes' = [emotes EXCEPT ![0] = @ - 1]
            /\ tenderId' = "none"
            /\ tavernChecks' = Add(tavernChecks, 0)
    /\ UNCHANGED <<wormVars, tenders>>

-----------------------------------------------------------------------------
(* Players: they walk in and out, spawn worms, and kill what is there       *)
(* (apply_damage_to_mob).                                                   *)
TraineeMoves ==
    /\ trainee' = ~trainee
    /\ UNCHANGED <<worms, wormChecks, tavernVars>>

SpawnWorm ==
    /\ worms < MaxWorms
    /\ worms' = worms + 1
    /\ UNCHANGED <<trainee, wormChecks, tavernVars>>

KillWorm ==
    /\ worms > 0 /\ trainee
    /\ Chains(wormChecks) < MaxChains
    /\ worms' = worms - 1
    /\ wormChecks' = Add(wormChecks, 0)
    /\ UNCHANGED <<trainee, tavernVars>>

KillBartender ==
    /\ tenderId = "here"
    /\ Chains(emotes) < MaxChains /\ Chains(tavernChecks) < MaxChains
    /\ tenderId' = "dead"
    /\ tenders' = tenders - 1
    /\ UNCHANGED <<tavernChecks, emotes, wormVars>>

(* `sell` and `order` ask for a check when there is no bartender_id.        *)
AskForBartender ==
    /\ tenderId = "none"
    /\ Chains(tavernChecks) < MaxChains
    /\ tavernChecks' = Add(tavernChecks, 0)
    /\ UNCHANGED <<tenderId, tenders, emotes, wormVars>>

SpawnTick ==
    /\ wormChecks' = Later(wormChecks)
    /\ tavernChecks' = Later(tavernChecks)
    /\ emotes' = Later(emotes)
    /\ UNCHANGED <<trainee, worms, tenderId, tenders>>

Handling == EnsureFirstFightWorm \/ EnsureTavernMob \/ BartenderEmote

SpawnNext ==
    \/ Handling
    \/ NothingDue /\ (\/ TraineeMoves \/ SpawnWorm \/ KillWorm
                      \/ KillBartender \/ AskForBartender \/ SpawnTick)

SpawnFair == WF_spawnVars(Handling) /\ SF_spawnVars(NothingDue /\ SpawnTick)

SpawnSpec == SpawnInit /\ [][SpawnNext]_spawnVars
SpawnLiveSpec == SpawnSpec /\ SpawnFair

-----------------------------------------------------------------------------
(* However many checks are pending, there is one bartender at a time, and   *)
(* while there is one it has an emote to come.                              *)
OneBartender ==
    /\ tenders = (IF tenderId = "here" THEN 1 ELSE 0)
    /\ tenderId = "here" => Chains(emotes) > 0
    /\ Chains(wormChecks) > 0 /\ Chains(tavernChecks) > 0

(* A bartender that was killed is replaced, although the stale bartender_id *)
(* is all that the commands look at.                                        *)
BartenderReturns == (tenderId # "here") ~> (tenderId = "here")
=============================================================================
