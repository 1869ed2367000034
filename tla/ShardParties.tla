---------------------------- MODULE ShardParties ----------------------------
(* The party tables of the shard world: which character each session        *)
(* controls, World::party_of, World::parties and World::party_invites, and  *)
(* every command or detach that changes them.  A name typed by a player     *)
(* resolves to any character that is played, or to nobody (unknown or       *)
(* ambiguous).  The clock only tells a fresh invitation from an expired     *)
(* one.  MaxChars and MaxParties bound the two identifier counters.         *)
EXTENDS Naturals, FiniteSets

CONSTANTS WorldSessions, MaxChars, MaxParties, NoOne

ASSUME PartyBounds == MaxChars \in Nat /\ MaxParties \in Nat
ASSUME NoOneIsNoId == NoOne \notin Nat

VARIABLES
    controls,    \* SessionState.active of each session, NoOne when detached
    nextChar,    \* World::next_char_id
    partyOf,     \* World::party_of
    leader,      \* Party.leader of each party that exists
    members,     \* Party.members; a party that does not exist has none
    nextParty,   \* World::next_party_id
    invites,     \* World::party_invites of each character
    joinedTwice  \* history: someone accepted an invitation while in a party

partyVars == <<controls, nextChar, partyOf, leader, members, nextParty,
               invites, joinedTwice>>

CharIds  == 1..MaxChars
PartyIds == 1..MaxParties
Online   == {controls[s] : s \in WorldSessions} \ {NoOne}

NoInvite == [party |-> NoOne, fresh |-> FALSE]
Exists(p) == p \in PartyIds /\ members[p] # {}

PartyInit ==
    /\ controls = [s \in WorldSessions |-> NoOne]
    /\ nextChar = 1
    /\ partyOf = [c \in CharIds |-> NoOne]
    /\ leader = [p \in PartyIds |-> NoOne]
    /\ members = [p \in PartyIds |-> {}]
    /\ nextParty = 1
    /\ invites = [c \in CharIds |-> NoInvite]
    /\ joinedTwice = FALSE

-----------------------------------------------------------------------------
(* World::party_create, with the caller's choice of who is asked to join.   *)
CreateParty(c) ==
    /\ nextParty <= MaxParties
    /\ nextParty' = nextParty + 1
    /\ partyOf' = [partyOf EXCEPT ![c] = nextParty]
    /\ leader' = [leader EXCEPT ![nextParty] = c]
    /\ members' = [members EXCEPT ![nextParty] = {c}]

\* Fault: the one who leaves stays leader.
PromoteNone(p, c) == leader' = [leader EXCEPT ![p] = @]

(* Parties are left by the table partyOf only: a character who is also a    *)
(* member of an older party stays in that one's member set.                 *)
PromoteAny(p, c) ==
    IF leader[p] # c THEN leader' = leader
    ELSE IF members[p] = {c} THEN leader' = [leader EXCEPT ![p] = NoOne]
    ELSE \E heir \in members[p] \ {c} : leader' = [leader EXCEPT ![p] = heir]

LeaveParty(c) ==
    IF partyOf[c] = NoOne
    THEN UNCHANGED <<partyOf, leader, members>>
    ELSE LET p == partyOf[c] IN
         /\ partyOf' = [partyOf EXCEPT ![c] = NoOne]
         /\ members' = [members EXCEPT ![p] = @ \ {c}]
         /\ PromoteAny(p, c)

(* World::detach_session for the one character a session controls.          *)
DropChar(c) ==
    /\ invites' = [invites EXCEPT ![c] = NoInvite]
    /\ LeaveParty(c)

AttachSession(s) ==
    /\ nextChar <= MaxChars
    /\ nextChar' = nextChar + 1
    /\ controls' = [controls EXCEPT ![s] = nextChar]
    /\ IF controls[s] = NoOne
       THEN UNCHANGED <<partyOf, leader, members, invites>>
       ELSE DropChar(controls[s])
    /\ UNCHANGED <<nextParty, joinedTwice>>

DetachSession(s) ==
    /\ controls[s] # NoOne
    /\ controls' = [controls EXCEPT ![s] = NoOne]
    /\ DropChar(controls[s])
    /\ UNCHANGED <<nextChar, nextParty, joinedTwice>>

-----------------------------------------------------------------------------
(* The commands, typed by the player of c.                                  *)
Leads(c) == partyOf[c] # NoOne /\ leader[partyOf[c]] = c

PartyCreate(c) ==
    /\ partyOf[c] = NoOne
    /\ CreateParty(c)
    /\ UNCHANGED <<controls, nextChar, invites, joinedTwice>>

PartyDisband(c) ==
    /\ Leads(c)
    /\ LET p == partyOf[c] IN
       /\ partyOf' = [m \in CharIds |-> IF m \in members[p] THEN NoOne
                                        ELSE partyOf[m]]
       /\ members' = [members EXCEPT ![p] = {}]
       /\ leader' = [leader EXCEPT ![p] = NoOne]
       /\ invites' = [m \in CharIds |-> IF invites[m].party = p THEN NoInvite
                                        ELSE invites[m]]
    /\ UNCHANGED <<controls, nextChar, nextParty, joinedTwice>>

PartyKick(c) ==
    /\ Leads(c)
    /\ \E target \in Online \ {c} :
          /\ partyOf[target] = partyOf[c]
          /\ LeaveParty(target)
    /\ UNCHANGED <<controls, nextChar, nextParty, invites, joinedTwice>>

PartyLead(c) ==
    /\ Leads(c)
    /\ \E target \in (members[partyOf[c]] \cap Online) \ {c} :
          leader' = [leader EXCEPT ![partyOf[c]] = target]
    /\ UNCHANGED <<controls, nextChar, partyOf, members, nextParty, invites,
                   joinedTwice>>

(* The party is created before the invited name is looked up.               *)
Invite(p, target) ==
    invites' = IF target = NoOne \/ partyOf'[target] # NoOne THEN invites
               ELSE [invites EXCEPT ![target] = [party |-> p, fresh |-> TRUE]]

PartyInvite(c) ==
    /\ \E target \in (Online \ {c}) \cup {NoOne} :
          \/ /\ partyOf[c] = NoOne
             /\ CreateParty(c)
             /\ Invite(nextParty, target)
          \/ /\ Leads(c)
             /\ UNCHANGED <<partyOf, leader, members, nextParty>>
             /\ Invite(partyOf[c], target)
    /\ UNCHANGED <<controls, nextChar, joinedTwice>>

(* Nothing asks whether the character is in a party already.                *)
PartyAccept(c) ==
    LET inv == invites[c] IN
    /\ inv # NoInvite
    /\ invites' = [invites EXCEPT ![c] = NoInvite]
    /\ IF inv.fresh /\ Exists(inv.party)
       THEN /\ members' = [members EXCEPT ![inv.party] = @ \cup {c}]
            /\ partyOf' = [partyOf EXCEPT ![c] = inv.party]
            /\ joinedTwice' = (joinedTwice \/ partyOf[c] # NoOne)
       ELSE UNCHANGED <<members, partyOf, joinedTwice>>
    /\ UNCHANGED <<controls, nextChar, leader, nextParty>>

PartyLeave(c) ==
    /\ partyOf[c] # NoOne
    /\ LeaveParty(c)
    /\ UNCHANGED <<controls, nextChar, nextParty, invites, joinedTwice>>

(* A minute passes for an invitation.                                       *)
InviteExpires(c) ==
    /\ invites[c].fresh
    /\ invites' = [invites EXCEPT ![c].fresh = FALSE]
    /\ UNCHANGED <<controls, nextChar, partyOf, leader, members, nextParty,
                   joinedTwice>>

PartyNext ==
    \/ \E s \in WorldSessions : AttachSession(s) \/ DetachSession(s)
    \/ \E c \in Online :
          \/ PartyCreate(c) \/ PartyDisband(c) \/ PartyKick(c)
          \/ PartyLead(c) \/ PartyInvite(c) \/ PartyAccept(c)
          \/ PartyLeave(c)
    \/ \E c \in CharIds : InviteExpires(c)

PartySpec == PartyInit /\ [][PartyNext]_partyVars

-----------------------------------------------------------------------------
(* Types of the tables.                                                     *)
PartyTypeOK ==
    /\ controls \in [WorldSessions -> CharIds \cup {NoOne}]
    /\ nextChar \in 1..(MaxChars + 1)
    /\ partyOf \in [CharIds -> PartyIds \cup {NoOne}]
    /\ leader \in [PartyIds -> CharIds \cup {NoOne}]
    /\ members \in [PartyIds -> SUBSET CharIds]
    /\ nextParty \in 1..(MaxParties + 1)
    /\ invites \in [CharIds -> [party : PartyIds \cup {NoOne},
                                fresh : BOOLEAN]]
    /\ joinedTwice \in BOOLEAN

(* A character whose entry in party_of names a party is a member of that    *)
(* party, so a command never meets a party that is gone ("internal error"   *)
(* and "party: stale" in handle_broker are unreachable), and every party    *)
(* has one of its members as leader, whatever the order in which members    *)
(* join, leave, are kicked, log out, or disband a party under each other.   *)
PartyTablesAgree ==
    /\ \A c \in CharIds : partyOf[c] # NoOne => c \in members[partyOf[c]]
    /\ \A p \in PartyIds : members[p] # {} => leader[p] \in members[p]

(* The two tables say the same, and a party is made of characters that are  *)
(* online, unless somebody accepted an invitation while being in a party.   *)
OnePartyEach ==
    joinedTwice \/ \A p \in PartyIds : \A c \in members[p] :
                      partyOf[c] = p /\ c \in Online
=============================================================================
