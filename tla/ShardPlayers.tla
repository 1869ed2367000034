---------------------------- MODULE ShardPlayers ----------------------------
(* What the shard world keeps of its players: the characters in play, the   *)
(* snapshots World::players by principal, and the file they are written to. *)
(* A character is created at the first attach of its principal and restored *)
(* from the snapshot at the later ones; the snapshot is taken at attach, at *)
(* detach and when the broker hangs up, and a write of the file may fail.   *)
(* A character's belongings are one issued kit item, worn or in the bag,    *)
(* and the small economy of the tavern: stench pouches looted and sold,     *)
(* gold, and drinks bought and drunk.                                       *)
EXTENDS Naturals, FiniteSets

CONSTANTS PlayerSessions, Principals, NoCharacter,
          MaxLoot   \* bound: the pouches each principal may find

ASSUME LootIsNat == MaxLoot \in [Principals -> Nat]

VARIABLES
    inPlay,    \* the character of each session, NoCharacter when detached
    snapshots, \* World::players
    disk,      \* the snapshot file
    ledger,    \* history: what each principal was given, found and drank
               \* (a spoiled one finds nothing more and is not followed)
    spoiled    \* history: principals played twice at once, or not saved

playerVars == <<inPlay, snapshots, disk, ledger, spoiled>>

Belongings == [gold : Nat, pouches : Nat, drinks : Nat, bag : Nat, worn : Nat]
Characters == [principal : Principals, own : Belongings]

ASSUME NoCharacterIsNone == NoCharacter \notin Belongings \cup Characters

(* World::spawn_character: a new character with its starter kit.            *)
Fresh == [gold |-> 0, pouches |-> 0, drinks |-> 0, bag |-> 1, worn |-> 0]

InPlayOf(p) == {s \in PlayerSessions : inPlay[s] # NoCharacter
                                       /\ inPlay[s].principal = p}

PlayerInit ==
    /\ inPlay = [s \in PlayerSessions |-> NoCharacter]
    /\ snapshots = [p \in Principals |-> NoCharacter]
    /\ disk = [p \in Principals |-> NoCharacter]
    /\ ledger = [p \in Principals |-> [issued |-> 0, found |-> 0, drunk |-> 0]]
    /\ spoiled = {}

-----------------------------------------------------------------------------
\* Fault: a snapshot that is there is kept.
RememberOnce(snaps, s) ==
    IF inPlay[s] = NoCharacter \/ snaps[inPlay[s].principal] # NoCharacter
    THEN snaps
    ELSE [snaps EXCEPT ![inPlay[s].principal] = inPlay[s].own]

(* World::remember_player: the snapshot of the character of a session, if   *)
(* it has one, replaces the one of its principal.                           *)
Remember(snaps, s) ==
    IF inPlay[s] = NoCharacter THEN snaps
    ELSE [snaps EXCEPT ![inPlay[s].principal] = inPlay[s].own]

(* World::persist_player_snapshots: a temporary file is renamed, so the     *)
(* file is either all of the snapshots or what it was.                      *)
Written(snaps, before) == {snaps, before}

(* ShardReq::Attach: the session's old character is saved and removed, the  *)
(* principal's character is restored or created, and saved again.           *)
AttachPlayer(s, p) ==
    LET saved == Remember(snapshots, s)
        new   == saved[p] = NoCharacter
        own   == IF new THEN Fresh ELSE saved[p] IN
    /\ inPlay' = [inPlay EXCEPT ![s] = [principal |-> p, own |-> own]]
    /\ snapshots' = [saved EXCEPT ![p] = own]
    /\ \E first \in Written(saved, disk) : disk' \in Written(snapshots', first)
    /\ ledger' = IF new /\ p \notin spoiled
                 THEN [ledger EXCEPT ![p].issued = @ + 1] ELSE ledger
    /\ spoiled' = IF InPlayOf(p) \subseteq {s} THEN spoiled
                  ELSE spoiled \cup {p}

(* World::detach_session.                                                   *)
DetachPlayer(s) ==
    /\ inPlay[s] # NoCharacter
    /\ snapshots' = Remember(snapshots, s)
    /\ disk' \in Written(snapshots', disk)
    /\ inPlay' = [inPlay EXCEPT ![s] = NoCharacter]
    /\ UNCHANGED <<ledger, spoiled>>

(* World::persist_live_players and the end of handle_broker, and the next   *)
(* World::new: the world starts again from the file.  Two characters of a   *)
(* principal are saved in either order.                                     *)
LastWord(p) == IF InPlayOf(p) = {} THEN {snapshots[p]}
               ELSE {inPlay[s].own : s \in InPlayOf(p)}

BrokerHangsUp ==
    /\ \E last \in [Principals -> UNION {LastWord(p) : p \in Principals}] :
          /\ \A p \in Principals : last[p] \in LastWord(p)
          /\ disk' \in Written(last, disk)
          /\ spoiled' = spoiled \cup {p \in Principals : disk'[p] # last[p]}
    /\ snapshots' = disk'
    /\ inPlay' = [s \in PlayerSessions |-> NoCharacter]
    /\ UNCHANGED ledger

(* A read or write error ends handle_broker before the last save; so does a *)
(* kill of the process.                                                     *)
WorldLost ==
    /\ snapshots' = disk
    /\ inPlay' = [s \in PlayerSessions |-> NoCharacter]
    /\ spoiled' = spoiled \cup {p \in Principals : disk[p] # snapshots[p]
                                                   \/ InPlayOf(p) # {}}
    /\ UNCHANGED <<disk, ledger>>

-----------------------------------------------------------------------------
(* What a character in play does with its belongings.                       *)
Plays(s) == inPlay[s] # NoCharacter
Owner(s) == inPlay[s].principal
Own(s)   == inPlay[s].own

Holds(s, own) ==
    /\ inPlay' = [inPlay EXCEPT ![s].own = own]
    /\ UNCHANGED <<snapshots, disk, spoiled>>

(* apply_damage_to_mob: the stenchworm drops a pouch (World::inv_add).      *)
Loot(s) ==
    /\ Plays(s)
    /\ ledger[Owner(s)].found < MaxLoot[Owner(s)] /\ Owner(s) \notin spoiled
    /\ Holds(s, [Own(s) EXCEPT !.pouches = @ + 1])
    /\ ledger' = [ledger EXCEPT ![Owner(s)].found = @ + 1]

(* `sell`: World::inv_take_n takes what there is, up to the quantity.       *)
Sell(s) ==
    /\ Plays(s)
    /\ \E taken \in 1..Own(s).pouches :
          Holds(s, [Own(s) EXCEPT !.pouches = @ - taken, !.gold = @ + taken])
    /\ UNCHANGED ledger

(* `order`: as many as were asked for or the gold lasts.                    *)
Order(s) ==
    /\ Plays(s)
    /\ \E served \in 1..Own(s).gold :
          Holds(s, [Own(s) EXCEPT !.gold = @ - served, !.drinks = @ + served])
    /\ UNCHANGED ledger

(* `quaff`: World::inv_take_one.                                            *)
Quaff(s) ==
    /\ Plays(s)
    /\ Own(s).drinks > 0
    /\ Holds(s, [Own(s) EXCEPT !.drinks = @ - 1])
    /\ ledger' = IF Owner(s) \in spoiled THEN ledger
                 ELSE [ledger EXCEPT ![Owner(s)].drunk = @ + 1]

(* `wear` and `wield`: refused when the slot is taken or the item is not in *)
(* the bag.                                                                 *)
Equip(s) ==
    /\ Plays(s)
    /\ Own(s).worn = 0
    /\ Own(s).bag > 0
    /\ Holds(s, [Own(s) EXCEPT !.bag = @ - 1, !.worn = 1])
    /\ UNCHANGED ledger

(* `remove` of a slot, of an item or of all.                                *)
TakeOff(s) ==
    /\ Plays(s)
    /\ Own(s).worn > 0
    /\ Holds(s, [Own(s) EXCEPT !.bag = @ + 1, !.worn = 0])
    /\ UNCHANGED ledger

PlayerNext ==
    \/ \E s \in PlayerSessions : \E p \in Principals : AttachPlayer(s, p)
    \/ \E s \in PlayerSessions :
          \/ DetachPlayer(s) \/ Loot(s) \/ Sell(s) \/ Order(s) \/ Quaff(s)
          \/ Equip(s) \/ TakeOff(s)
    \/ BrokerHangsUp
    \/ WorldLost

PlayerSpec == PlayerInit /\ [][PlayerNext]_playerVars

-----------------------------------------------------------------------------
(* Types.                                                                   *)
PlayerTypeOK ==
    /\ inPlay \in [PlayerSessions -> {NoCharacter} \cup Characters]
    /\ snapshots \in [Principals -> {NoCharacter} \cup Belongings]
    /\ disk \in [Principals -> {NoCharacter} \cup Belongings]
    /\ ledger \in [Principals -> [issued : Nat, found : Nat, drunk : Nat]]
    /\ spoiled \subseteq Principals

(* Nothing is made or lost by logging in and out, by a failed write that a  *)
(* later one makes good, or by a restart after a clean hang-up: what a      *)
(* principal has, in play or in its snapshot, is what it was issued and     *)
(* found less what it drank, unless it was played by two sessions at once   *)
(* or the world ended before it was saved.                                  *)
BelongingsAddUp ==
    \A p \in Principals \ spoiled :
        LET all == {inPlay[s].own : s \in InPlayOf(p)} \cup
                   (IF InPlayOf(p) = {} THEN {snapshots[p]} ELSE {}) IN
        \A own \in all \ {NoCharacter} :
            /\ own.bag + own.worn = ledger[p].issued
            /\ own.gold + own.pouches + own.drinks + ledger[p].drunk
                  = ledger[p].found
            /\ ledger[p].issued = 1

(* Once the file holds a principal it holds it for good, over failed writes *)
(* and lost worlds: nobody is taken for a newcomer twice.                   *)
PlayersStayKnown ==
    [][\A p \in Principals : disk[p] # NoCharacter => disk'[p] # NoCharacter
      ]_playerVars

(* A player's belongings add up over logins, logouts, failed writes and     *)
(* restarts, unless two sessions play one principal or the world is lost.   *)
PlayerInv == PlayerTypeOK /\ BelongingsAddUp

=============================================================================
