----------------------------- MODULE WorldProofs ----------------------------
(***************************************************************************)
(* Proofs about the shard world: the invariants of its parties with their   *)
(* rooms, of its fights, players, quests and groups, and what no step of    *)
(* any of them does, for any sets of sessions, characters, rooms, mobs,     *)
(* names, switches and heroes.  Each part has its own inductive invariant.  *)
(***************************************************************************)
EXTENDS MCWorld, DataInduction, FiniteSetTheorems, SequenceTheorems, TLAPS

-----------------------------------------------------------------------------
(* Parties and rooms.  A session's character is its own; one that has not   *)
(* been made yet is in no table, and one in a party is online.              *)

ControlsApart ==
    \A s, z \in WorldSessions : controls[s] = controls[z] /\ controls[s] # NoOne => s = z
MadeBefore   == \A s \in WorldSessions : controls[s] # NoOne => controls[s] < nextChar
UnmadeAreOut == \A c \in CharIds : c >= nextChar => \A p \in PartyIds : c \notin members[p]
EmptyUntilMade == \A p \in PartyIds : p >= nextParty => members[p] = {}
PartyIsOn    == \A c \in CharIds : partyOf[c] # NoOne => c \in Online

PartyIInv ==
    /\ PartyTypeOK /\ ControlsApart /\ MadeBefore /\ UnmadeAreOut /\ PartyIsOn
    /\ EmptyUntilMade /\ PartyTablesAgree /\ OnePartyEach

\* The tables of the parties, apart from who is online.
TablesOK ==
    /\ partyOf \in [CharIds -> PartyIds \cup {NoOne}]
    /\ leader \in [PartyIds -> CharIds \cup {NoOne}]
    /\ members \in [PartyIds -> SUBSET CharIds]

IdsOK ==
    /\ controls \in [WorldSessions -> CharIds \cup {NoOne}]
    /\ nextChar \in 1..(MaxChars + 1) /\ nextParty \in 1..(MaxParties + 1)
    /\ joinedTwice \in BOOLEAN

InvitesOK == invites \in [CharIds -> [party : PartyIds \cup {NoOne}, fresh : BOOLEAN]]

LEMMA PartyTypeParts == PartyTypeOK <=> TablesOK /\ IdsOK /\ InvitesOK
  BY DEF PartyTypeOK, TablesOK, IdsOK, InvitesOK

LEMMA PartyTypeAgain == TablesOK' /\ IdsOK' /\ InvitesOK' => PartyTypeOK'
  BY DEF PartyTypeOK, TablesOK, IdsOK, InvitesOK

LEMMA Identifiers ==
    /\ NoOne \notin CharIds /\ NoOne \notin PartyIds
    /\ CharIds \subseteq Nat /\ PartyIds \subseteq Nat
    /\ MaxChars \in Nat /\ MaxParties \in Nat
  BY PartyBounds, NoOneIsNoId DEF CharIds, PartyIds

LEMMA OnlineHasIds == ASSUME IdsOK PROVE Online \subseteq CharIds
  BY DEF IdsOK, Online

\* Leaving a party keeps the tables in step, for whoever leaves.
LEMMA LeaveKeeps ==
    ASSUME TablesOK, PartyTablesAgree, NEW c \in CharIds, LeaveParty(c)
    PROVE  /\ TablesOK' /\ PartyTablesAgree'
           /\ partyOf'[c] = NoOne
           /\ \A d \in CharIds \ {c} : partyOf'[d] = partyOf[d]
           /\ \A p \in PartyIds : members'[p] = IF p = partyOf[c] THEN members[p] \ {c} ELSE members[p]
<1>1. CASE partyOf[c] = NoOne
  <2>1. partyOf' = partyOf /\ leader' = leader /\ members' = members
    BY <1>1 DEF LeaveParty
  <2>2. \A p \in PartyIds : p # partyOf[c]
    BY <1>1, Identifiers
  <2> QED
    BY <1>1, <2>1, <2>2 DEF TablesOK, PartyTablesAgree
<1>2. CASE partyOf[c] # NoOne
  <2> DEFINE p == partyOf[c]
  <2>1. p \in PartyIds /\ c \in members[p]
    BY <1>2 DEF TablesOK, PartyTablesAgree
  <2>2. /\ partyOf' = [partyOf EXCEPT ![c] = NoOne]
        /\ members' = [members EXCEPT ![p] = @ \ {c}]
        /\ PromoteAny(p, c)
    BY <1>2 DEF LeaveParty
  <2> HIDE DEF p
  <2>3. members' \in [PartyIds -> SUBSET CharIds] /\ partyOf' \in [CharIds -> PartyIds \cup {NoOne}]
    BY <2>1, <2>2 DEF TablesOK
  <2>4. leader' \in [PartyIds -> CharIds \cup {NoOne}]
        /\ \A q \in PartyIds : members'[q] # {} => leader'[q] \in members'[q]
    <3>1. CASE leader[p] # c
      BY <2>1, <2>2, <3>1 DEF PromoteAny, TablesOK, PartyTablesAgree
    <3>2. CASE leader[p] = c /\ members[p] = {c}
      BY <2>1, <2>2, <3>2 DEF PromoteAny, TablesOK, PartyTablesAgree
    <3>3. CASE leader[p] = c /\ members[p] # {c}
      <4>1. PICK heir \in members[p] \ {c} : leader' = [leader EXCEPT ![p] = heir]
        BY <2>2, <3>3 DEF PromoteAny
      <4> QED
        BY <2>1, <2>2, <4>1 DEF TablesOK, PartyTablesAgree
    <3> QED
      BY <3>1, <3>2, <3>3
  <2>5. \A d \in CharIds : partyOf'[d] # NoOne => d \in members'[partyOf'[d]]
    BY <2>1, <2>2, <2>3 DEF TablesOK, PartyTablesAgree
  <2> QED
    BY <2>1, <2>2, <2>3, <2>4, <2>5, SMTT(30) DEF TablesOK, PartyTablesAgree, p
<1> QED
  BY <1>1, <1>2

\* What an attach and a detach do to the sessions.
LEMMA OnlineAfterAttach ==
    ASSUME PartyIInv, NEW s \in WorldSessions, AttachSession(s)
    PROVE  /\ IdsOK' /\ ControlsApart' /\ MadeBefore'
           /\ nextChar \in CharIds /\ nextChar \notin Online
           /\ Online' = (Online \ {controls[s]}) \cup {nextChar}
<1>1. /\ nextChar <= MaxChars /\ nextChar' = nextChar + 1
      /\ controls' = [controls EXCEPT ![s] = nextChar]
      /\ nextParty' = nextParty /\ joinedTwice' = joinedTwice
  BY DEF AttachSession
<1>2. IdsOK
  BY PartyTypeParts DEF PartyIInv
<1>3. nextChar \in CharIds /\ nextChar # NoOne
  BY <1>1, <1>2, Identifiers DEF IdsOK, CharIds
<1>4. \A z \in WorldSessions : controls[z] # nextChar
  BY <1>2, <1>3, Identifiers DEF PartyIInv, MadeBefore, IdsOK
<1>5. \A z \in WorldSessions : controls'[z] = IF z = s THEN nextChar ELSE controls[z]
  BY <1>1, <1>2 DEF IdsOK
<1>6. IdsOK'
  BY <1>1, <1>2, <1>3, Identifiers DEF IdsOK
<1>7. ControlsApart'
  BY <1>4, <1>5 DEF PartyIInv, ControlsApart
<1>8. MadeBefore'
  <2> SUFFICES ASSUME NEW z \in WorldSessions, controls'[z] # NoOne PROVE controls'[z] < nextChar'
    BY DEF MadeBefore
  <2>1. CASE z = s
    BY <1>1, <1>2, <1>5, <2>1 DEF IdsOK
  <2>2. CASE z # s
    <3>1. controls[z] \in Nat /\ controls[z] < nextChar
      BY <1>2, <1>5, <2>2, Identifiers DEF PartyIInv, MadeBefore, IdsOK
    <3> QED
      BY <1>1, <1>2, <1>5, <2>2, <3>1 DEF IdsOK
  <2> QED
    BY <2>1, <2>2
<1>9. nextChar \notin Online
  BY <1>4 DEF Online
<1>10. Online' = (Online \ {controls[s]}) \cup {nextChar}
  <2>1. \A z \in WorldSessions \ {s} : controls[z] # NoOne => controls[z] # controls[s]
    BY DEF PartyIInv, ControlsApart
  <2> QED
    BY <1>3, <1>5, <2>1 DEF Online
<1> QED
  BY <1>3, <1>6, <1>7, <1>8, <1>9, <1>10

LEMMA OnlineAfterDetach ==
    ASSUME PartyIInv, NEW s \in WorldSessions, DetachSession(s)
    PROVE  /\ IdsOK' /\ ControlsApart' /\ MadeBefore'
           /\ controls[s] \in Online
           /\ Online' = Online \ {controls[s]}
<1>1. /\ controls[s] # NoOne /\ controls' = [controls EXCEPT ![s] = NoOne]
      /\ nextChar' = nextChar /\ nextParty' = nextParty /\ joinedTwice' = joinedTwice
  BY DEF DetachSession
<1>2. IdsOK
  BY PartyTypeParts DEF PartyIInv
<1>3. \A z \in WorldSessions : controls'[z] = IF z = s THEN NoOne ELSE controls[z]
  BY <1>1, <1>2 DEF IdsOK
<1>4. IdsOK' /\ ControlsApart' /\ MadeBefore'
  BY <1>1, <1>2, <1>3 DEF IdsOK, PartyIInv, ControlsApart, MadeBefore
<1>5. Online' = Online \ {controls[s]}
  <2>1. \A z \in WorldSessions \ {s} : controls[z] # NoOne => controls[z] # controls[s]
    BY DEF PartyIInv, ControlsApart
  <2> QED
    BY <1>3, <2>1 DEF Online
<1> QED
  BY <1>1, <1>4, <1>5 DEF Online

\* A character that goes leaves no trace in the tables.
LEMMA DropKeeps ==
    ASSUME PartyIInv, NEW c \in CharIds, DropChar(c)
    PROVE  /\ TablesOK' /\ InvitesOK' /\ PartyTablesAgree'
           /\ partyOf'[c] = NoOne
           /\ \A d \in CharIds \ {c} : partyOf'[d] = partyOf[d]
           /\ \A p \in PartyIds : members'[p] = IF p = partyOf[c] THEN members[p] \ {c} ELSE members[p]
<1>1. TablesOK /\ InvitesOK /\ PartyTablesAgree
  BY PartyTypeParts DEF PartyIInv
<1>2. LeaveParty(c) /\ invites' = [invites EXCEPT ![c] = NoInvite]
  BY DEF DropChar
<1>3. InvitesOK'
  BY <1>1, <1>2 DEF InvitesOK, NoInvite
<1> QED
  BY <1>1, <1>2, <1>3, LeaveKeeps

LEMMA AttachKeeps ==
    ASSUME PartyIInv, NEW s \in WorldSessions, AttachSession(s)
    PROVE  PartyIInv'
<1>1. /\ TablesOK /\ InvitesOK /\ IdsOK /\ PartyTablesAgree /\ OnePartyEach /\ PartyIsOn
      /\ UnmadeAreOut /\ EmptyUntilMade
  BY PartyTypeParts DEF PartyIInv
<1>2. /\ IdsOK' /\ ControlsApart' /\ MadeBefore'
      /\ nextChar \in CharIds /\ nextChar \notin Online
      /\ Online' = (Online \ {controls[s]}) \cup {nextChar}
  BY OnlineAfterAttach
<1>3. nextChar' = nextChar + 1 /\ joinedTwice' = joinedTwice /\ nextChar \in Nat
      /\ nextParty' = nextParty
  BY <1>1 DEF AttachSession, IdsOK
<1>4. CASE controls[s] = NoOne
  <2>1. partyOf' = partyOf /\ leader' = leader /\ members' = members /\ invites' = invites
    BY <1>4 DEF AttachSession
  <2>2. Online \subseteq Online'
    BY <1>2, <1>4 DEF Online
  <2>3. TablesOK' /\ InvitesOK' /\ PartyTablesAgree'
    BY <1>1, <2>1 DEF TablesOK, InvitesOK, PartyTablesAgree
  <2>4. OnePartyEach' /\ PartyIsOn'
    BY <1>1, <1>3, <2>1, <2>2 DEF OnePartyEach, PartyIsOn
  <2>5. UnmadeAreOut'
    <3>1. ASSUME NEW d \in CharIds, d >= nextChar + 1, NEW p \in PartyIds PROVE d \notin members[p]
      BY <1>1, <1>3, <3>1, Identifiers DEF UnmadeAreOut
    <3> QED
      BY <1>3, <2>1, <3>1 DEF UnmadeAreOut
  <2>6. EmptyUntilMade'
    BY <1>1, <1>3, <2>1 DEF EmptyUntilMade
  <2> QED
    BY <1>2, <2>3, <2>4, <2>5, <2>6, PartyTypeAgain DEF PartyIInv
<1>5. CASE controls[s] # NoOne
  <2> DEFINE c == controls[s]
  <2>1. c \in CharIds /\ c \in Online
    BY <1>1, <1>5 DEF IdsOK, Online
  <2>2. DropChar(c)
    BY <1>5 DEF AttachSession
  <2> HIDE DEF c
  <2>3. /\ TablesOK' /\ InvitesOK' /\ PartyTablesAgree'
        /\ partyOf'[c] = NoOne
        /\ \A d \in CharIds \ {c} : partyOf'[d] = partyOf[d]
        /\ \A p \in PartyIds : members'[p] = IF p = partyOf[c] THEN members[p] \ {c} ELSE members[p]
    BY <2>1, <2>2, DropKeeps
  <2>4. Online' = (Online \ {c}) \cup {nextChar}
    BY <1>2 DEF c
  <2>5. PartyIsOn'
    BY <1>1, <2>3, <2>4 DEF PartyIsOn
  <2>6. UnmadeAreOut'
    <3> SUFFICES ASSUME NEW d \in CharIds, d >= nextChar', NEW p \in PartyIds
        PROVE d \notin members'[p]
      BY DEF UnmadeAreOut
    <3>1. d >= nextChar
      BY <1>3, Identifiers
    <3>2. d \notin members[p]
      BY <1>1, <3>1 DEF UnmadeAreOut
    <3> QED
      BY <2>3, <3>2
  <2>7. OnePartyEach'
    <3> SUFFICES ASSUME ~joinedTwice, NEW p \in PartyIds, NEW d \in members'[p]
        PROVE partyOf'[d] = p /\ d \in Online'
      BY <1>3 DEF OnePartyEach
    <3>1. d \in members[p] /\ d \in CharIds /\ partyOf[d] = p /\ d \in Online
      BY <1>1, <2>3 DEF OnePartyEach, TablesOK
    <3>2. d # c
      BY <2>3, <3>1
    <3> QED
      BY <2>3, <2>4, <3>1, <3>2
  <2>8. EmptyUntilMade'
    BY <1>1, <1>3, <2>3 DEF EmptyUntilMade
  <2> QED
    BY <1>2, <2>3, <2>5, <2>6, <2>7, <2>8, PartyTypeAgain DEF PartyIInv
<1> QED
  BY <1>4, <1>5

LEMMA DetachKeeps ==
    ASSUME PartyIInv, NEW s \in WorldSessions, DetachSession(s)
    PROVE  PartyIInv'
<1>1. /\ TablesOK /\ InvitesOK /\ IdsOK /\ PartyTablesAgree /\ OnePartyEach /\ PartyIsOn
      /\ UnmadeAreOut /\ EmptyUntilMade
  BY PartyTypeParts DEF PartyIInv
<1> DEFINE c == controls[s]
<1>2. IdsOK' /\ ControlsApart' /\ MadeBefore' /\ c \in Online /\ Online' = Online \ {c}
  BY OnlineAfterDetach
<1>3. nextChar' = nextChar /\ joinedTwice' = joinedTwice /\ nextParty' = nextParty /\ DropChar(c)
  BY DEF DetachSession
<1>4. c \in CharIds
  BY <1>1, <1>2, OnlineHasIds
<1> HIDE DEF c
<1>5. /\ TablesOK' /\ InvitesOK' /\ PartyTablesAgree'
      /\ partyOf'[c] = NoOne
      /\ \A d \in CharIds \ {c} : partyOf'[d] = partyOf[d]
      /\ \A p \in PartyIds : members'[p] = IF p = partyOf[c] THEN members[p] \ {c} ELSE members[p]
  BY <1>3, <1>4, DropKeeps
<1>6. PartyIsOn'
  BY <1>1, <1>2, <1>5 DEF PartyIsOn
<1>7. UnmadeAreOut' /\ EmptyUntilMade'
  BY <1>1, <1>3, <1>5 DEF UnmadeAreOut, EmptyUntilMade
<1>8. OnePartyEach'
  <2> SUFFICES ASSUME ~joinedTwice, NEW p \in PartyIds, NEW d \in members'[p]
      PROVE partyOf'[d] = p /\ d \in Online'
    BY <1>3 DEF OnePartyEach
  <2>1. d \in members[p] /\ d \in CharIds /\ partyOf[d] = p /\ d \in Online
    BY <1>1, <1>5 DEF OnePartyEach, TablesOK
  <2>2. d # c
    BY <1>5, <2>1
  <2> QED
    BY <1>2, <1>5, <2>1, <2>2
<1> QED
  BY <1>2, <1>5, <1>6, <1>7, <1>8, PartyTypeAgain DEF PartyIInv

-----------------------------------------------------------------------------
(* The commands leave the sessions alone, and so everybody online.          *)

LEMMA SessionsStay ==
    ASSUME PartyIInv, UNCHANGED <<controls, nextChar>>,
           nextParty' \in 1..(MaxParties + 1), joinedTwice' \in BOOLEAN
    PROVE  IdsOK' /\ ControlsApart' /\ MadeBefore' /\ Online' = Online
  BY PartyTypeParts DEF PartyIInv, IdsOK, ControlsApart, MadeBefore, Online

LEMMA OnlineIsMade ==
    ASSUME PartyIInv, NEW c \in Online
    PROVE  c \in CharIds /\ c < nextChar
  BY PartyTypeParts DEF PartyIInv, IdsOK, MadeBefore, Online

\* A new party has one member and a number that no party had.
LEMMA CreateKeeps ==
    ASSUME PartyIInv, NEW c \in Online, partyOf[c] = NoOne, CreateParty(c),
           UNCHANGED <<controls, nextChar, joinedTwice>>
    PROVE  /\ TablesOK' /\ IdsOK' /\ ControlsApart' /\ MadeBefore' /\ UnmadeAreOut'
           /\ PartyIsOn' /\ EmptyUntilMade' /\ PartyTablesAgree' /\ OnePartyEach'
           /\ nextParty \in PartyIds
<1>1. /\ TablesOK /\ InvitesOK /\ IdsOK /\ PartyTablesAgree /\ OnePartyEach /\ PartyIsOn
      /\ UnmadeAreOut /\ EmptyUntilMade
  BY PartyTypeParts DEF PartyIInv
<1>2. c \in CharIds /\ c < nextChar
  BY OnlineIsMade
<1>3. /\ nextParty <= MaxParties /\ nextParty' = nextParty + 1
      /\ partyOf' = [partyOf EXCEPT ![c] = nextParty]
      /\ leader' = [leader EXCEPT ![nextParty] = c]
      /\ members' = [members EXCEPT ![nextParty] = {c}]
  BY DEF CreateParty
<1>4. nextParty \in PartyIds /\ nextParty \in Nat /\ nextParty' \in 1..(MaxParties + 1)
  BY <1>1, <1>3, Identifiers DEF IdsOK, PartyIds
<1>5. members[nextParty] = {}
  BY <1>1, <1>4 DEF EmptyUntilMade
<1>6. IdsOK' /\ ControlsApart' /\ MadeBefore' /\ Online' = Online
  BY <1>1, <1>4, SessionsStay DEF IdsOK
<1>7. TablesOK'
  BY <1>1, <1>2, <1>3, <1>4 DEF TablesOK
<1>8. /\ \A p \in PartyIds : members'[p] = IF p = nextParty THEN {c} ELSE members[p]
      /\ \A p \in PartyIds : leader'[p] = IF p = nextParty THEN c ELSE leader[p]
      /\ \A d \in CharIds : partyOf'[d] = IF d = c THEN nextParty ELSE partyOf[d]
  BY <1>1, <1>3 DEF TablesOK
<1>9. UnmadeAreOut'
  BY <1>1, <1>2, <1>8, Identifiers DEF UnmadeAreOut, IdsOK
<1>10. PartyIsOn'
  BY <1>1, <1>6, <1>8 DEF PartyIsOn
<1>11. EmptyUntilMade'
  BY <1>1, <1>3, <1>4, <1>8, Identifiers DEF EmptyUntilMade
<1>12. PartyTablesAgree'
  <2>1. \A d \in CharIds : partyOf'[d] # NoOne => d \in members'[partyOf'[d]]
    <3> SUFFICES ASSUME NEW d \in CharIds, partyOf'[d] # NoOne PROVE d \in members'[partyOf'[d]]
      OBVIOUS
    <3>1. CASE d = c
      BY <1>4, <1>8, <3>1
    <3>2. CASE d # c
      <4>1. d \in members[partyOf[d]] /\ partyOf[d] \in PartyIds
        BY <1>1, <1>8, <3>2 DEF PartyTablesAgree, TablesOK
      <4>2. partyOf[d] # nextParty
        BY <1>5, <4>1
      <4> QED
        BY <1>8, <3>2, <4>1, <4>2
    <3> QED
      BY <3>1, <3>2
  <2>2. \A p \in PartyIds : members'[p] # {} => leader'[p] \in members'[p]
    BY <1>1, <1>8 DEF PartyTablesAgree
  <2> QED
    BY <2>1, <2>2 DEF PartyTablesAgree
<1>13. OnePartyEach'
  <2> SUFFICES ASSUME ~joinedTwice, NEW p \in PartyIds, NEW d \in members'[p]
      PROVE partyOf'[d] = p /\ d \in Online'
    BY DEF OnePartyEach
  <2>1. CASE p = nextParty
    BY <1>2, <1>6, <1>8, <2>1
  <2>2. CASE p # nextParty
    <3>1. d \in members[p] /\ d \in CharIds /\ partyOf[d] = p /\ d \in Online
      BY <1>1, <1>8, <2>2 DEF OnePartyEach, TablesOK
    <3>2. d # c
      BY <3>1, Identifiers
    <3> QED
      BY <1>6, <1>8, <3>1, <3>2
  <2> QED
    BY <2>1, <2>2
<1> QED
  BY <1>4, <1>6, <1>7, <1>9, <1>10, <1>11, <1>12, <1>13

LEMMA PartyCreateKeeps ==
    ASSUME PartyIInv, NEW c \in Online, PartyCreate(c)
    PROVE  PartyIInv'
<1>1. /\ partyOf[c] = NoOne /\ CreateParty(c) /\ UNCHANGED <<controls, nextChar, invites, joinedTwice>>
  BY DEF PartyCreate
<1>2. InvitesOK'
  BY <1>1, PartyTypeParts DEF PartyIInv, InvitesOK
<1> QED
  BY <1>1, <1>2, CreateKeeps, PartyTypeAgain DEF PartyIInv

LEMMA PartyDisbandKeeps ==
    ASSUME PartyIInv, NEW c \in Online, PartyDisband(c)
    PROVE  PartyIInv'
<1>1. /\ TablesOK /\ InvitesOK /\ IdsOK /\ PartyTablesAgree /\ OnePartyEach /\ PartyIsOn
      /\ UnmadeAreOut /\ EmptyUntilMade
  BY PartyTypeParts DEF PartyIInv
<1> DEFINE p == partyOf[c]
<1>2. /\ partyOf' = [m \in CharIds |-> IF m \in members[p] THEN NoOne ELSE partyOf[m]]
      /\ members' = [members EXCEPT ![p] = {}]
      /\ leader' = [leader EXCEPT ![p] = NoOne]
      /\ invites' = [m \in CharIds |-> IF invites[m].party = p THEN NoInvite ELSE invites[m]]
      /\ UNCHANGED <<controls, nextChar, nextParty, joinedTwice>>
  BY DEF PartyDisband
<1>3. c \in CharIds
  BY OnlineIsMade
<1>4. p \in PartyIds
  BY <1>1, <1>3 DEF PartyDisband, Leads, TablesOK
<1> HIDE DEF p
<1>5. IdsOK' /\ ControlsApart' /\ MadeBefore' /\ Online' = Online
  BY <1>1, <1>2, SessionsStay DEF IdsOK
<1>6. TablesOK'
  BY <1>1, <1>2, <1>4 DEF TablesOK
<1>7. InvitesOK'
  <2>1. NoInvite \in [party : PartyIds \cup {NoOne}, fresh : BOOLEAN]
    BY DEF NoInvite
  <2> QED
    BY <1>1, <1>2, <2>1 DEF InvitesOK
<1>8. /\ \A q \in PartyIds : members'[q] = IF q = p THEN {} ELSE members[q]
      /\ \A q \in PartyIds : leader'[q] = IF q = p THEN NoOne ELSE leader[q]
      /\ \A d \in CharIds : partyOf'[d] = IF d \in members[p] THEN NoOne ELSE partyOf[d]
  BY <1>1, <1>2 DEF TablesOK
<1>9. UnmadeAreOut' /\ EmptyUntilMade' /\ PartyIsOn'
  BY <1>1, <1>2, <1>5, <1>8 DEF UnmadeAreOut, EmptyUntilMade, PartyIsOn
<1>10. PartyTablesAgree'
  BY <1>1, <1>8 DEF PartyTablesAgree, TablesOK
<1>11. OnePartyEach'
  <2> SUFFICES ASSUME ~joinedTwice, NEW q \in PartyIds, NEW d \in members'[q]
      PROVE partyOf'[d] = q /\ d \in Online'
    BY <1>2 DEF OnePartyEach
  <2>1. q # p /\ d \in members[q] /\ d \in CharIds /\ partyOf[d] = q /\ d \in Online
    BY <1>1, <1>8 DEF OnePartyEach, TablesOK
  <2>2. d \notin members[p]
    BY <1>1, <1>4, <2>1 DEF OnePartyEach
  <2> QED
    BY <1>5, <1>8, <2>1, <2>2
<1> QED
  BY <1>5, <1>6, <1>7, <1>9, <1>10, <1>11, PartyTypeAgain DEF PartyIInv

\* Whoever leaves or is kicked.
LEMMA GoneKeeps ==
    ASSUME PartyIInv, NEW c \in Online, LeaveParty(c),
           UNCHANGED <<controls, nextChar, nextParty, invites, joinedTwice>>
    PROVE  PartyIInv'
<1>1. /\ TablesOK /\ InvitesOK /\ IdsOK /\ PartyTablesAgree /\ OnePartyEach /\ PartyIsOn
      /\ UnmadeAreOut /\ EmptyUntilMade
  BY PartyTypeParts DEF PartyIInv
<1>2. c \in CharIds
  BY OnlineIsMade
<1>3. /\ TablesOK' /\ PartyTablesAgree'
      /\ partyOf'[c] = NoOne
      /\ \A d \in CharIds \ {c} : partyOf'[d] = partyOf[d]
      /\ \A p \in PartyIds : members'[p] = IF p = partyOf[c] THEN members[p] \ {c} ELSE members[p]
  BY <1>1, <1>2, LeaveKeeps
<1>4. IdsOK' /\ ControlsApart' /\ MadeBefore' /\ Online' = Online
  BY <1>1, SessionsStay DEF IdsOK
<1>5. UnmadeAreOut' /\ EmptyUntilMade' /\ PartyIsOn' /\ InvitesOK'
  BY <1>1, <1>3, <1>4 DEF UnmadeAreOut, EmptyUntilMade, PartyIsOn, InvitesOK
<1>6. OnePartyEach'
  <2> SUFFICES ASSUME ~joinedTwice, NEW p \in PartyIds, NEW d \in members'[p]
      PROVE partyOf'[d] = p /\ d \in Online'
    BY DEF OnePartyEach
  <2>1. d \in members[p] /\ d \in CharIds /\ partyOf[d] = p /\ d \in Online
    BY <1>1, <1>3 DEF OnePartyEach, TablesOK
  <2>2. d # c
    BY <1>3, <2>1
  <2> QED
    BY <1>3, <1>4, <2>1, <2>2
<1> QED
  BY <1>3, <1>4, <1>5, <1>6, PartyTypeAgain DEF PartyIInv

LEMMA PartyLeadKeeps ==
    ASSUME PartyIInv, NEW c \in Online, PartyLead(c)
    PROVE  PartyIInv'
<1>1. /\ TablesOK /\ InvitesOK /\ IdsOK /\ PartyTablesAgree /\ OnePartyEach /\ PartyIsOn
      /\ UnmadeAreOut /\ EmptyUntilMade
  BY PartyTypeParts DEF PartyIInv
<1> DEFINE p == partyOf[c]
<1>2. PICK whom \in members[p] : leader' = [leader EXCEPT ![p] = whom]
  BY DEF PartyLead
<1>3. UNCHANGED <<controls, nextChar, partyOf, members, nextParty, invites, joinedTwice>>
  BY DEF PartyLead
<1>4. c \in CharIds
  BY OnlineIsMade
<1>5. p \in PartyIds
  BY <1>1, <1>4 DEF PartyLead, Leads, TablesOK
<1> HIDE DEF p
<1>6. IdsOK' /\ ControlsApart' /\ MadeBefore' /\ Online' = Online
  BY <1>1, <1>3, SessionsStay DEF IdsOK
<1>7. TablesOK' /\ InvitesOK'
  BY <1>1, <1>2, <1>3, <1>5 DEF TablesOK, InvitesOK
<1>8. UnmadeAreOut' /\ EmptyUntilMade' /\ PartyIsOn' /\ OnePartyEach'
  BY <1>1, <1>3, <1>6 DEF UnmadeAreOut, EmptyUntilMade, PartyIsOn, OnePartyEach
<1>9. PartyTablesAgree'
  BY <1>1, <1>2, <1>3, <1>5 DEF PartyTablesAgree, TablesOK
<1> QED
  BY <1>6, <1>7, <1>8, <1>9, PartyTypeAgain DEF PartyIInv

LEMMA InviteKeeps ==
    ASSUME InvitesOK, NEW p \in PartyIds, NEW whom \in CharIds \cup {NoOne}, Invite(p, whom)
    PROVE  InvitesOK'
<1>1. [party |-> p, fresh |-> TRUE] \in [party : PartyIds \cup {NoOne}, fresh : BOOLEAN]
  OBVIOUS
<1> QED
  BY <1>1 DEF InvitesOK, Invite

LEMMA PartyInviteKeeps ==
    ASSUME PartyIInv, NEW c \in Online, PartyInvite(c)
    PROVE  PartyIInv'
<1>1. /\ TablesOK /\ InvitesOK /\ IdsOK /\ PartyTablesAgree /\ OnePartyEach /\ PartyIsOn
      /\ UnmadeAreOut /\ EmptyUntilMade
  BY PartyTypeParts DEF PartyIInv
<1>2. c \in CharIds
  BY OnlineIsMade
<1>3. UNCHANGED <<controls, nextChar, joinedTwice>>
  BY DEF PartyInvite
<1>4. PICK whom \in (Online \ {c}) \cup {NoOne} :
          \/ /\ partyOf[c] = NoOne
             /\ CreateParty(c)
             /\ Invite(nextParty, whom)
          \/ /\ Leads(c)
             /\ UNCHANGED <<partyOf, leader, members, nextParty>>
             /\ Invite(partyOf[c], whom)
  BY DEF PartyInvite
<1>5. whom \in CharIds \cup {NoOne}
  BY <1>1, OnlineHasIds
<1>6. CASE partyOf[c] = NoOne /\ CreateParty(c) /\ Invite(nextParty, whom)
  <2>1. /\ TablesOK' /\ IdsOK' /\ ControlsApart' /\ MadeBefore' /\ UnmadeAreOut'
        /\ PartyIsOn' /\ EmptyUntilMade' /\ PartyTablesAgree' /\ OnePartyEach'
        /\ nextParty \in PartyIds
    BY <1>3, <1>6, CreateKeeps
  <2>2. InvitesOK'
    BY <1>1, <1>5, <1>6, <2>1, InviteKeeps
  <2> QED
    BY <2>1, <2>2, PartyTypeAgain DEF PartyIInv
<1>7. CASE Leads(c) /\ UNCHANGED <<partyOf, leader, members, nextParty>> /\ Invite(partyOf[c], whom)
  <2>1. partyOf[c] \in PartyIds
    BY <1>1, <1>2, <1>7 DEF Leads, TablesOK
  <2>2. InvitesOK'
    BY <1>1, <1>5, <1>7, <2>1, InviteKeeps
  <2>3. IdsOK' /\ ControlsApart' /\ MadeBefore' /\ Online' = Online
    BY <1>1, <1>3, <1>7, SessionsStay DEF IdsOK
  <2>4. TablesOK' /\ PartyTablesAgree' /\ OnePartyEach' /\ PartyIsOn' /\ UnmadeAreOut' /\ EmptyUntilMade'
    BY <1>1, <1>3, <1>7, <2>3
       DEF TablesOK, PartyTablesAgree, OnePartyEach, PartyIsOn, UnmadeAreOut, EmptyUntilMade
  <2> QED
    BY <2>2, <2>3, <2>4, PartyTypeAgain DEF PartyIInv
<1> QED
  BY <1>4, <1>6, <1>7

LEMMA PartyAcceptKeeps ==
    ASSUME PartyIInv, NEW c \in Online, PartyAccept(c)
    PROVE  PartyIInv'
<1>1. /\ TablesOK /\ InvitesOK /\ IdsOK /\ PartyTablesAgree /\ OnePartyEach /\ PartyIsOn
      /\ UnmadeAreOut /\ EmptyUntilMade
  BY PartyTypeParts DEF PartyIInv
<1>2. c \in CharIds /\ c < nextChar
  BY OnlineIsMade
<1> DEFINE q == invites[c].party
<1>3. invites' = [invites EXCEPT ![c] = NoInvite] /\ UNCHANGED <<controls, nextChar, leader, nextParty>>
  BY DEF PartyAccept
<1>4. InvitesOK'
  BY <1>1, <1>3 DEF InvitesOK, NoInvite
<1>5. CASE invites[c].fresh /\ Exists(q)
  <2>1. /\ members' = [members EXCEPT ![q] = @ \cup {c}]
        /\ partyOf' = [partyOf EXCEPT ![c] = q]
        /\ joinedTwice' = (joinedTwice \/ partyOf[c] # NoOne)
    BY <1>5 DEF PartyAccept
  <2>2. q \in PartyIds /\ members[q] # {}
    BY <1>5 DEF Exists
  <2> HIDE DEF q
  <2>3. IdsOK' /\ ControlsApart' /\ MadeBefore' /\ Online' = Online
    BY <1>1, <1>3, <2>1, SessionsStay DEF IdsOK
  <2>4. TablesOK'
    BY <1>1, <1>2, <1>3, <2>1, <2>2 DEF TablesOK
  <2>5. /\ \A p \in PartyIds : members'[p] = IF p = q THEN members[p] \cup {c} ELSE members[p]
        /\ \A d \in CharIds : partyOf'[d] = IF d = c THEN q ELSE partyOf[d]
    BY <1>1, <2>1 DEF TablesOK
  <2>6. UnmadeAreOut'
    <3> SUFFICES ASSUME NEW d \in CharIds, d >= nextChar', NEW p \in PartyIds
        PROVE d \notin members'[p]
      BY DEF UnmadeAreOut
    <3>1. d >= nextChar /\ d # c
      BY <1>1, <1>2, <1>3, Identifiers DEF IdsOK
    <3>2. d \notin members[p]
      BY <1>1, <3>1 DEF UnmadeAreOut
    <3> QED
      BY <2>5, <3>1, <3>2
  <2>7. EmptyUntilMade'
    BY <1>1, <1>3, <2>2, <2>5 DEF EmptyUntilMade
  <2>8. PartyIsOn'
    BY <1>1, <2>3, <2>5 DEF PartyIsOn
  <2>9. PartyTablesAgree'
    <3>1. \A p \in PartyIds : members'[p] # {} => leader'[p] \in members'[p]
      BY <1>1, <1>3, <2>2, <2>5 DEF PartyTablesAgree
    <3>2. \A d \in CharIds : partyOf'[d] # NoOne => d \in members'[partyOf'[d]]
      BY <1>1, <2>2, <2>5, ZenonT(60) DEF PartyTablesAgree, TablesOK
    <3> QED
      BY <3>1, <3>2 DEF PartyTablesAgree
  <2>10. OnePartyEach'
    <3> SUFFICES ASSUME ~joinedTwice', NEW p \in PartyIds, NEW d \in members'[p]
        PROVE partyOf'[d] = p /\ d \in Online'
      BY DEF OnePartyEach
    <3>1. ~joinedTwice /\ partyOf[c] = NoOne
      BY <2>1
    <3>2. CASE d = c
      <4>1. p = q
        BY <1>1, <2>5, <3>1, <3>2, Identifiers DEF OnePartyEach
      <4> QED
        BY <1>2, <2>3, <2>5, <3>2, <4>1
    <3>3. CASE d # c
      <4>1. d \in members[p] /\ d \in CharIds
        BY <1>1, <2>5, <3>3 DEF TablesOK
      <4> QED
        BY <1>1, <2>3, <2>5, <3>1, <3>3, <4>1 DEF OnePartyEach
    <3> QED
      BY <3>2, <3>3
  <2> QED
    BY <1>4, <2>3, <2>4, <2>6, <2>7, <2>8, <2>9, <2>10, PartyTypeAgain DEF PartyIInv
<1>6. CASE ~(invites[c].fresh /\ Exists(q))
  <2>1. UNCHANGED <<members, partyOf, joinedTwice>>
    BY <1>6 DEF PartyAccept
  <2>2. IdsOK' /\ ControlsApart' /\ MadeBefore' /\ Online' = Online
    BY <1>1, <1>3, <2>1, SessionsStay DEF IdsOK
  <2>3. TablesOK' /\ PartyTablesAgree' /\ OnePartyEach' /\ PartyIsOn' /\ UnmadeAreOut' /\ EmptyUntilMade'
    BY <1>1, <1>3, <2>1, <2>2
       DEF TablesOK, PartyTablesAgree, OnePartyEach, PartyIsOn, UnmadeAreOut, EmptyUntilMade
  <2> QED
    BY <1>4, <2>2, <2>3, PartyTypeAgain DEF PartyIInv
<1> QED
  BY <1>5, <1>6

LEMMA InviteExpiresKeeps ==
    ASSUME PartyIInv, NEW c \in CharIds, InviteExpires(c)
    PROVE  PartyIInv'
<1>1. /\ TablesOK /\ InvitesOK /\ IdsOK /\ PartyTablesAgree /\ OnePartyEach /\ PartyIsOn
      /\ UnmadeAreOut /\ EmptyUntilMade
  BY PartyTypeParts DEF PartyIInv
<1>2. /\ invites' = [invites EXCEPT ![c].fresh = FALSE]
      /\ UNCHANGED <<controls, nextChar, partyOf, leader, members, nextParty, joinedTwice>>
  BY DEF InviteExpires
<1>3. InvitesOK'
  BY <1>1, <1>2 DEF InvitesOK
<1>4. IdsOK' /\ ControlsApart' /\ MadeBefore' /\ Online' = Online
  BY <1>1, <1>2, SessionsStay DEF IdsOK
<1>5. TablesOK' /\ PartyTablesAgree' /\ OnePartyEach' /\ PartyIsOn' /\ UnmadeAreOut' /\ EmptyUntilMade'
  BY <1>1, <1>2, <1>4
     DEF TablesOK, PartyTablesAgree, OnePartyEach, PartyIsOn, UnmadeAreOut, EmptyUntilMade
<1> QED
  BY <1>3, <1>4, <1>5, PartyTypeAgain DEF PartyIInv

-----------------------------------------------------------------------------
(* Rooms: where everybody is, beside who is online.                         *)

RoomsTyped ==
    /\ room \in [CharIds -> AllRooms \cup {NoOne}]
    /\ occupants \in [AllRooms -> SUBSET CharIds]
    /\ dynRooms \subseteq AllRooms

RoomIInv == PartyIInv /\ RoomsTyped /\ OccupantsAreThere

LEMMA RoomsThereAre ==
    /\ StaticRooms \subseteq AllRooms
    /\ {GateRoom, Graveyard} \subseteq StaticRooms
    /\ \A prefix \in Instances, n \in RunLengths :
          /\ Instance(prefix, n) \subseteq AllRooms
          /\ <<prefix, 1>> \in Instance(prefix, n)
<1>1. StaticRooms \subseteq AllRooms
  BY DEF AllRooms
<1>2. {GateRoom, Graveyard} \subseteq StaticRooms
  BY StaticRoomsAreThere
<1>3. ASSUME NEW prefix \in Instances, NEW n \in RunLengths
      PROVE /\ Instance(prefix, n) \subseteq AllRooms
            /\ <<prefix, 1>> \in Instance(prefix, n)
  <2>1. Instance(prefix, n) \subseteq UNION {Instance(q, k) : q \in Instances, k \in RunLengths}
    OBVIOUS
  <2>2. n \in Nat /\ n # 0
    BY StaticRoomsAreThere
  <2>3. 1 \in 1..n
    BY <2>2
  <2> QED
    BY <2>1, <2>3 DEF AllRooms, Instance
<1> QED
  BY <1>1, <1>2, <1>3

LEMMA MoveKeeps ==
    ASSUME RoomsTyped, OccupantsAreThere, IdsOK, Online' = Online,
           NEW who, NEW to \in StaticRooms \cup dynRooms,
           who \subseteq Online, MoveAll(who, to), UNCHANGED dynRooms
    PROVE  RoomsTyped' /\ OccupantsAreThere'
<1>1. to \in AllRooms /\ who \subseteq CharIds
  BY RoomsThereAre, OnlineHasIds DEF RoomsTyped
<1>2. /\ room' = [c \in CharIds |-> IF c \in who THEN to ELSE room[c]]
      /\ occupants' = [r \in AllRooms |->
                          IF r = to THEN occupants[r] \cup who
                          ELSE occupants[r] \ {c \in who : room[c] = r}]
  BY DEF MoveAll
<1>3. RoomsTyped'
  BY <1>1, <1>2 DEF RoomsTyped
<1>4. \A c \in Online : c \in CharIds /\ room'[c] = IF c \in who THEN to ELSE room[c]
  BY <1>2, OnlineHasIds
<1>5. ASSUME NEW r \in AllRooms PROVE occupants'[r] = {c \in Online : room'[c] = r}
  <2>1. occupants[r] = {c \in Online : room[c] = r}
    BY DEF OccupantsAreThere
  <2>2. CASE r = to
    BY <1>2, <1>4, <2>1, <2>2
  <2>3. CASE r # to
    BY <1>2, <1>4, <2>1, <2>3
  <2> QED
    BY <2>2, <2>3
<1>6. \A c \in Online : room'[c] \in StaticRooms \cup dynRooms'
  BY <1>4 DEF OccupantsAreThere, HasRoom
<1> QED
  BY <1>3, <1>5, <1>6 DEF OccupantsAreThere, HasRoom

LEMMA ArriveKeeps ==
    ASSUME RoomsTyped, OccupantsAreThere, IdsOK, NEW gone, NEW here,
           gone \subseteq Online, here \subseteq CharIds \ Online,
           Online' = (Online \ gone) \cup here, Arrive(gone, here), UNCHANGED dynRooms
    PROVE  RoomsTyped' /\ OccupantsAreThere'
<1>1. PICK to \in StaticRooms \cup dynRooms :
         /\ room' = [c \in CharIds |-> IF c \in here THEN to
                                       ELSE IF c \in gone THEN NoOne ELSE room[c]]
         /\ occupants' = [r \in AllRooms |->
                             (occupants[r] \ {c \in gone : room[c] = r})
                             \cup (IF r = to THEN here ELSE {})]
  BY DEF Arrive
<1>2. to \in AllRooms
  BY RoomsThereAre DEF RoomsTyped
<1>3. RoomsTyped'
  BY <1>1, <1>2 DEF RoomsTyped
<1>4. \A c \in Online' : room'[c] = IF c \in here THEN to ELSE room[c]
  BY <1>1, OnlineHasIds
<1>5. ASSUME NEW r \in AllRooms PROVE occupants'[r] = {c \in Online' : room'[c] = r}
  <2>1. occupants[r] = {c \in Online : room[c] = r}
    BY DEF OccupantsAreThere
  <2>2. occupants'[r] = {c \in Online \ gone : room[c] = r} \cup (IF r = to THEN here ELSE {})
    BY <1>1, <2>1
  <2> QED
    BY <1>4, <2>2
<1>6. \A c \in Online' : room'[c] \in StaticRooms \cup dynRooms'
  BY <1>4 DEF OccupantsAreThere, HasRoom
<1> QED
  BY <1>3, <1>5, <1>6 DEF OccupantsAreThere, HasRoom

\* What a run or a reload does to the rooms with a prefix and to the others.
LEMMA RebuildKeeps ==
    ASSUME RoomsTyped, OccupantsAreThere, IdsOK, Online' = Online,
           NEW prefix \in Instances, NEW n \in RunLengths, NEW visitors,
           visitors \subseteq Online,
           Rebuild(prefix, n), EvacuateThenEnter(prefix, visitors)
    PROVE  /\ RoomsTyped' /\ OccupantsAreThere'
           /\ \A c \in Online : c \in visitors \/ room'[c] \in {room[c], GateRoom}
<1> DEFINE out == Inside(prefix)
           to  == [c \in CharIds |-> IF c \in visitors THEN <<prefix, 1>>
                                     ELSE IF c \in out THEN GateRoom ELSE room[c]]
<1>1. /\ room' = to
      /\ occupants' = [r \in AllRooms |->
                          {c \in CharIds : IF c \in visitors \cup out
                                           THEN to[c] = r ELSE c \in occupants[r]}]
  BY DEF EvacuateThenEnter
<1>2. /\ dynRooms' = {r \in dynRooms : r[1] # prefix} \cup Instance(prefix, n)
      /\ dynRooms' \subseteq AllRooms
  BY RoomsThereAre DEF Rebuild, RoomsTyped
<1>3. <<prefix, 1>> \in dynRooms' /\ GateRoom \in StaticRooms /\ GateRoom \in AllRooms
  BY <1>2, RoomsThereAre
<1>4. out \subseteq Online
  BY DEF Inside, OccupantsAreThere
<1>5. to \in [CharIds -> AllRooms \cup {NoOne}]
  BY <1>2, <1>3 DEF RoomsTyped
<1>6. RoomsTyped'
  BY <1>1, <1>2, <1>5 DEF RoomsTyped
<1>7. Online \subseteq CharIds
  BY OnlineHasIds
<1>8. \A c \in CharIds : to[c] = IF c \in visitors THEN <<prefix, 1>>
                                 ELSE IF c \in out THEN GateRoom ELSE room[c]
  OBVIOUS
<1>9. \A c \in Online \ (visitors \cup out) : room[c] \in StaticRooms \cup dynRooms'
  <2> SUFFICES ASSUME NEW c \in Online \ (visitors \cup out), room[c] \notin StaticRooms
      PROVE room[c] \in dynRooms'
    OBVIOUS
  <2>1. room[c] \in dynRooms /\ room[c] \in AllRooms
    BY DEF OccupantsAreThere, HasRoom, RoomsTyped
  <2>2. c \in occupants[room[c]]
    BY <2>1 DEF OccupantsAreThere
  <2>3. room[c][1] # prefix
    BY <1>7, <2>1, <2>2 DEF Inside
  <2> QED
    BY <1>2, <2>1, <2>3
<1> HIDE DEF out, to
<1>10. ASSUME NEW r \in AllRooms PROVE occupants'[r] = {c \in Online : room'[c] = r}
  <2>1. occupants[r] = {c \in Online : room[c] = r}
    BY DEF OccupantsAreThere
  <2>2. occupants'[r] = {c \in CharIds : IF c \in visitors \cup out
                                         THEN to[c] = r ELSE c \in occupants[r]}
    BY <1>1
  <2> QED
    BY <1>1, <1>4, <1>7, <1>8, <2>1, <2>2
<1>11. \A c \in Online : room'[c] \in StaticRooms \cup dynRooms'
  BY <1>1, <1>3, <1>7, <1>8, <1>9 DEF HasRoom
<1>12. \A c \in Online : c \in visitors \/ room'[c] \in {room[c], GateRoom}
  BY <1>1, <1>7, <1>8
<1> QED
  BY <1>6, <1>10, <1>11, <1>12 DEF OccupantsAreThere, HasRoom

(* When two characters move in one step: of one party, or to the gate.      *)
TogetherOnly ==
    \A c, d \in Online :
        \/ c = d \/ room'[c] = room[c] \/ room'[d] = room[d]
        \/ GateRoom \in {room'[c], room'[d]}
        \/ partyOf[c] # NoOne /\ partyOf[c] = partyOf[d]
        \/ joinedTwice

LEMMA ArrivesAlone ==
    ASSUME IdsOK, NEW gone, NEW here, here \cap Online = {},
           \A c, d \in gone : c = d, Arrive(gone, here)
    PROVE  TogetherOnly
<1>1. \A c \in Online : c \in gone \/ room'[c] = room[c]
  BY OnlineHasIds DEF Arrive
<1> QED
  BY <1>1 DEF TogetherOnly

\* The characters of one party.
LEMMA OfOneParty ==
    ASSUME PartyIInv, ~joinedTwice, NEW p \in PartyIds, NEW c \in members[p]
    PROVE  partyOf[c] = p /\ p # NoOne
  BY Identifiers DEF PartyIInv, OnePartyEach

LEMMA RoomStep ==
    ASSUME RoomIInv, [RoomNext]_roomVars
    PROVE  RoomIInv' /\ TogetherOnly
<1> USE DEF RoomIInv
<1>1. IdsOK /\ TablesOK
  BY PartyTypeParts DEF PartyIInv
<1>2. ASSUME NEW s \in WorldSessions, AttachIn(s) PROVE RoomIInv' /\ TogetherOnly
  <2> DEFINE gone == {controls[s]} \ {NoOne}
  <2>1. /\ AttachSession(s) /\ Arrive(gone, {nextChar}) /\ UNCHANGED dynRooms
    BY <1>2 DEF AttachIn
  <2>2. PartyIInv'
    BY <2>1, AttachKeeps
  <2>3. /\ nextChar \in CharIds /\ nextChar \notin Online
        /\ Online' = (Online \ {controls[s]}) \cup {nextChar}
    BY <2>1, OnlineAfterAttach
  <2>4. /\ gone \subseteq Online /\ {nextChar} \subseteq CharIds \ Online
        /\ Online' = (Online \ gone) \cup {nextChar}
        /\ \A c, d \in gone : c = d
    BY <2>3 DEF Online
  <2> HIDE DEF gone
  <2>5. RoomsTyped' /\ OccupantsAreThere'
    BY <1>1, <2>1, <2>4, ArriveKeeps
  <2>6. TogetherOnly
    BY <1>1, <2>1, <2>4, ArrivesAlone
  <2> QED
    BY <2>2, <2>5, <2>6
<1>3. ASSUME NEW s \in WorldSessions, DetachOut(s) PROVE RoomIInv' /\ TogetherOnly
  <2>1. /\ DetachSession(s) /\ Arrive({controls[s]}, {}) /\ UNCHANGED dynRooms
    BY <1>3 DEF DetachOut
  <2>2. PartyIInv'
    BY <2>1, DetachKeeps
  <2>3. controls[s] \in Online /\ Online' = Online \ {controls[s]}
    BY <2>1, OnlineAfterDetach
  <2>4. RoomsTyped' /\ OccupantsAreThere'
    BY <1>1, <2>1, <2>3, ArriveKeeps
  <2>5. TogetherOnly
    BY <1>1, <2>1, ArrivesAlone
  <2> QED
    BY <2>2, <2>4, <2>5
<1>4. ASSUME NEW c \in Online, PartyCommand(c) PROVE RoomIInv' /\ TogetherOnly
  <2>1. PartyIInv'
    <3>1. CASE PartyKick(c)
      <4>1. PICK whom \in Online \ {c} : LeaveParty(whom)
        BY <3>1 DEF PartyKick
      <4> QED
        BY <3>1, <4>1, GoneKeeps DEF PartyKick
    <3>2. CASE PartyLeave(c)
      BY <3>2, GoneKeeps DEF PartyLeave
    <3> QED
      BY <1>4, <3>1, <3>2, PartyCreateKeeps, PartyDisbandKeeps, PartyLeadKeeps,
         PartyInviteKeeps, PartyAcceptKeeps DEF PartyCommand
  <2>2. UNCHANGED <<room, occupants, dynRooms>> /\ controls' = controls
    BY <1>4 DEF PartyCommand, placeVars, PartyCreate, PartyDisband, PartyKick, PartyLead,
                PartyInvite, PartyAccept, PartyLeave
  <2>3. Online' = Online
    BY <2>2 DEF Online
  <2>4. RoomsTyped' /\ OccupantsAreThere'
    BY <2>2, <2>3 DEF RoomsTyped, OccupantsAreThere, HasRoom
  <2> QED
    BY <2>1, <2>2, <2>4 DEF TogetherOnly
<1>5. ASSUME UNCHANGED partyVars PROVE PartyIInv' /\ Online' = Online
  BY <1>5 DEF partyVars, PartyIInv, PartyTypeOK, ControlsApart, MadeBefore, UnmadeAreOut,
              EmptyUntilMade, PartyIsOn, PartyTablesAgree, OnePartyEach, Online
<1>6. ASSUME NEW c \in Online, TryMove(c) PROVE RoomIInv' /\ TogetherOnly
  <2>1. PICK to \in (StaticRooms \cup dynRooms) \ {room[c]} : MoveAll({c} \cup Followers(c), to)
    BY <1>6 DEF TryMove
  <2>2. UNCHANGED <<partyVars, dynRooms>> /\ {c} \cup Followers(c) \subseteq Online
    BY <1>6 DEF TryMove, Followers
  <2>3. PartyIInv' /\ RoomsTyped' /\ OccupantsAreThere'
    BY <1>1, <1>5, <2>1, <2>2, MoveKeeps
  <2>4. \A x \in Online : x \in {c} \cup Followers(c) \/ room'[x] = room[x]
    BY <1>1, <2>1, OnlineHasIds DEF MoveAll
  <2>5. TogetherOnly
    <3>1. CASE Leads(c)
      <4>1. c \in CharIds /\ partyOf[c] \in PartyIds
        BY <1>1, <3>1, OnlineIsMade DEF Leads, TablesOK
      <4>2. c \in members[partyOf[c]] /\ Followers(c) \subseteq members[partyOf[c]]
        BY <3>1, <4>1, Identifiers DEF PartyIInv, PartyTablesAgree, Followers
      <4>3. joinedTwice \/ \A x \in {c} \cup Followers(c) :
                               partyOf[x] = partyOf[c] /\ partyOf[c] # NoOne
        BY <4>1, <4>2, OfOneParty
      <4> QED
        BY <2>4, <4>3 DEF TogetherOnly
    <3>2. CASE ~Leads(c)
      BY <2>4, <3>2 DEF TogetherOnly, Followers
    <3> QED
      BY <3>1, <3>2
  <2> QED
    BY <2>3, <2>5
<1>7. ASSUME NEW c \in Online, SetFollow(c) PROVE RoomIInv' /\ TogetherOnly
  <2>1. UNCHANGED <<partyVars, room, occupants, dynRooms>>
    BY <1>7 DEF SetFollow
  <2>2. PartyIInv' /\ Online' = Online
    BY <1>5, <2>1
  <2> QED
    BY <2>1, <2>2 DEF RoomsTyped, OccupantsAreThere, HasRoom, TogetherOnly
<1>8. ASSUME NEW c \in Online, TeleportTo(c) \/ SendToGraveyard(c) PROVE RoomIInv' /\ TogetherOnly
  <2>1. PICK to \in StaticRooms \cup dynRooms : MoveAll({c}, to)
    BY <1>8, RoomsThereAre DEF TeleportTo, SendToGraveyard
  <2>2. UNCHANGED <<partyVars, dynRooms>>
    BY <1>8 DEF TeleportTo, SendToGraveyard
  <2>3. PartyIInv' /\ RoomsTyped' /\ OccupantsAreThere'
    BY <1>1, <1>5, <2>1, <2>2, MoveKeeps
  <2>4. \A x \in Online : x = c \/ room'[x] = room[x]
    BY <1>1, <2>1, OnlineHasIds DEF MoveAll
  <2> QED
    BY <2>3, <2>4 DEF TogetherOnly
<1>9. ASSUME NEW c \in Online, PartyRun(c) PROVE RoomIInv' /\ TogetherOnly
  <2> DEFINE p == partyOf[c]
  <2>1. /\ Leads(c) /\ EvacuateThenEnter(p, members[p] \cap Online) /\ UNCHANGED partyVars
    BY <1>9 DEF PartyRun
  <2>2. PICK n \in RunLengths : Rebuild(p, n)
    BY <1>9 DEF PartyRun
  <2>3. p \in PartyIds /\ p \in Instances
    BY <1>1, <2>1, OnlineIsMade DEF Leads, TablesOK, Instances
  <2> HIDE DEF p
  <2>4. PartyIInv' /\ Online' = Online
    BY <1>5, <2>1
  <2>5. /\ RoomsTyped' /\ OccupantsAreThere'
        /\ \A x \in Online : x \in members[p] \cap Online \/ room'[x] \in {room[x], GateRoom}
    BY <1>1, <2>1, <2>2, <2>3, <2>4, RebuildKeeps
  <2>6. joinedTwice \/ \A x \in members[p] : partyOf[x] = p /\ p # NoOne
    BY <2>3, OfOneParty
  <2>7. TogetherOnly
    BY <2>5, <2>6 DEF TogetherOnly
  <2> QED
    BY <2>4, <2>5, <2>7
<1>10. ASSUME NEW c \in Online, LoadProto(c) PROVE RoomIInv' /\ TogetherOnly
  <2>1. /\ EvacuateThenEnter(Proto, {c}) /\ UNCHANGED partyVars
    BY <1>10 DEF LoadProto
  <2>2. PICK n \in RunLengths : Rebuild(Proto, n)
    BY <1>10 DEF LoadProto
  <2>3. PartyIInv' /\ Online' = Online
    BY <1>5, <2>1
  <2>4. /\ RoomsTyped' /\ OccupantsAreThere'
        /\ \A x \in Online : x \in {c} \/ room'[x] \in {room[x], GateRoom}
    BY <1>1, <2>1, <2>2, <2>3, RebuildKeeps DEF Instances
  <2> QED
    BY <2>3, <2>4 DEF TogetherOnly
<1>11. ASSUME NEW c \in CharIds, InviteExpires(c) /\ UNCHANGED placeVars PROVE RoomIInv' /\ TogetherOnly
  <2>1. PartyIInv' /\ controls' = controls /\ UNCHANGED <<room, occupants, dynRooms>>
    BY <1>11, InviteExpiresKeeps DEF placeVars, InviteExpires
  <2>2. Online' = Online
    BY <2>1 DEF Online
  <2> QED
    BY <2>1, <2>2 DEF RoomsTyped, OccupantsAreThere, HasRoom, TogetherOnly
<1>12. ASSUME UNCHANGED roomVars PROVE RoomIInv' /\ TogetherOnly
  <2>1. UNCHANGED <<partyVars, room, occupants, dynRooms>>
    BY <1>12 DEF roomVars, placeVars
  <2>2. PartyIInv' /\ Online' = Online
    BY <1>5, <2>1
  <2> QED
    BY <2>1, <2>2 DEF RoomsTyped, OccupantsAreThere, HasRoom, TogetherOnly
<1> QED
  BY <1>2, <1>3, <1>4, <1>6, <1>7, <1>8, <1>9, <1>10, <1>11, <1>12 DEF RoomNext

LEMMA RoomStart == RoomInit => RoomIInv
<1> SUFFICES ASSUME RoomInit PROVE RoomIInv
  OBVIOUS
<1>1. PartyInit
  BY DEF RoomInit
<1>2. Online = {}
  BY <1>1 DEF PartyInit, Online
<1>3. PartyTypeOK
  <2>1. 1 \in 1..(MaxChars + 1) /\ 1 \in 1..(MaxParties + 1)
    BY Identifiers
  <2>2. NoInvite \in [party : PartyIds \cup {NoOne}, fresh : BOOLEAN]
    BY DEF NoInvite
  <2> QED
    BY <1>1, <2>1, <2>2 DEF PartyInit, PartyTypeOK
<1>4. PartyIInv
  BY <1>1, <1>3, Identifiers
     DEF PartyInit, PartyIInv, ControlsApart, MadeBefore, UnmadeAreOut, EmptyUntilMade,
         PartyIsOn, PartyTablesAgree, OnePartyEach
<1> QED
  BY <1>2, <1>4 DEF RoomInit, RoomIInv, RoomsTyped, OccupantsAreThere

(* RoomInv, for any number of sessions, characters, parties and rooms: the  *)
(* tables of the parties and the occupants index agree with each other and  *)
(* with who is online, whatever order things happen in.                     *)
THEOREM RoomInvHolds == RoomSpec => []RoomInv
<1>1. RoomIInv => RoomInv
  BY DEF RoomIInv, PartyIInv, RoomInv
<1>2. RoomIInv /\ [RoomNext]_roomVars => RoomIInv'
  BY RoomStep
<1> QED
  BY <1>1, <1>2, RoomStart, PTL DEF RoomSpec

(* OnlyPartiesMoveTogether: a step that moves two characters moves members  *)
(* of one party, or evacuates to the gate.                                  *)
THEOREM MovesTogetherHolds == RoomSpec => OnlyPartiesMoveTogether
<1>1. RoomIInv /\ [RoomNext]_roomVars => RoomIInv' /\ [TogetherOnly]_roomVars
  BY RoomStep
<1>2. [TogetherOnly]_roomVars =>
      [\A c, d \in Online :
          \/ c = d \/ room'[c] = room[c] \/ room'[d] = room[d]
          \/ GateRoom \in {room'[c], room'[d]}
          \/ partyOf[c] # NoOne /\ partyOf[c] = partyOf[d]
          \/ joinedTwice]_roomVars
  BY DEF TogetherOnly
<1> QED
  BY <1>1, <1>2, RoomStart, PTL DEF RoomSpec, OnlyPartiesMoveTogether

-----------------------------------------------------------------------------
(* Fights.  Who fights has a target and an event to come; who struck in this *)
(* interval waits for the next one or fights no more.                       *)

EngagedHaveTarget == \A c \in Fighters : auto[c] => target[c] # Nobody
StruckOnce == \A c \in Fighters :
                  swings[c] = 0 \/ (swings[c] = 1 /\ (ready[c] = 1 \/ ~auto[c]))

FightIInv == FightTypeOK /\ EngagedHaveTarget /\ EngagedWillAct /\ StruckOnce

\* The same, fighter by fighter.
FighterOK(c) ==
    /\ place[c] \in {Hall, Arena, Grave, Gone}
    /\ hp[c] \in 1..MaxHp
    /\ auto[c] \in BOOLEAN
    /\ target[c] \in Fighters \cup {Nobody, Gone}
    /\ ready[c] \in 0..1
    /\ stunned[c] \in 0..StunTime
    /\ acts[c] \in [Delays -> Nat]
    /\ swings[c] \in Nat
    /\ auto[c] => target[c] # Nobody
    /\ auto[c] => Pending(c)
    /\ swings[c] = 0 \/ (swings[c] = 1 /\ (ready[c] = 1 \/ ~auto[c]))

AreFunctions ==
    /\ place = [c \in Fighters |-> place[c]]
    /\ hp = [c \in Fighters |-> hp[c]]
    /\ auto = [c \in Fighters |-> auto[c]]
    /\ target = [c \in Fighters |-> target[c]]
    /\ ready = [c \in Fighters |-> ready[c]]
    /\ stunned = [c \in Fighters |-> stunned[c]]
    /\ acts = [c \in Fighters |-> acts[c]]
    /\ swings = [c \in Fighters |-> swings[c]]
    /\ pvp \in [Players -> BOOLEAN]

LEMMA FightByFighter == FightIInv => AreFunctions /\ \A c \in Fighters : FighterOK(c)
  BY DEF FightIInv, FightTypeOK, EngagedHaveTarget, EngagedWillAct, StruckOnce, FighterOK,
         AreFunctions

LEMMA FightersMakeIt ==
    AreFunctions' /\ (\A c \in Fighters : FighterOK(c)') => FightIInv'
<1> SUFFICES ASSUME AreFunctions', \A c \in Fighters : FighterOK(c)' PROVE FightIInv'
  OBVIOUS
<1>1. place' \in [Fighters -> {Hall, Arena, Grave, Gone}] /\ hp' \in [Fighters -> 1..MaxHp]
  BY DEF AreFunctions, FighterOK
<1>2. auto' \in [Fighters -> BOOLEAN] /\ target' \in [Fighters -> Fighters \cup {Nobody, Gone}]
  BY DEF AreFunctions, FighterOK
<1>3. ready' \in [Fighters -> 0..1] /\ stunned' \in [Fighters -> 0..StunTime]
  BY DEF AreFunctions, FighterOK
<1>4. acts' \in [Fighters -> [Delays -> Nat]] /\ swings' \in [Fighters -> Nat]
  BY DEF AreFunctions, FighterOK
<1>5. FightTypeOK'
  BY <1>1, <1>2, <1>3, <1>4 DEF FightTypeOK, AreFunctions
<1>6. EngagedHaveTarget' /\ EngagedWillAct' /\ StruckOnce'
  BY DEF FighterOK, EngagedHaveTarget, EngagedWillAct, StruckOnce
<1> QED
  BY <1>5, <1>6 DEF FightIInv

LEMMA DelaysAre ==
    /\ 0 \in Delays /\ 1 \in Delays /\ Delays \subseteq Nat
    /\ 0..StunTime \subseteq Delays /\ 0..1 \subseteq Delays
    /\ \A d \in Delays : d # 0 => d - 1 \in Delays /\ (d - 1) + 1 = d
  BY FightBounds DEF Delays

LEMMA NamesApart ==
    /\ \A c \in Fighters : c # Nobody /\ c # Gone
    /\ Nobody # Gone /\ IsFiniteSet(Players)
    /\ Grave # Hall /\ Grave # Arena /\ Grave # Gone
    /\ MaxHp \in Nat \ {0} /\ StunTime \in Nat
  BY FightNames, FightBounds DEF Fighters

\* Events of one fighter that come on top, are popped, or come again.
LEMMA PlusIs ==
    ASSUME NEW c, acts[c] \in [Delays -> Nat], NEW d \in Delays, NEW n \in Int,
           acts[c][d] + n >= 0
    PROVE  /\ Plus(c, d, n) \in [Delays -> Nat]
           /\ Plus(c, d, n)[d] = acts[c][d] + n
           /\ \A e \in Delays \ {d} : Plus(c, d, n)[e] = acts[c][e]
  BY DelaysAre DEF Plus

LEMMA PoppedIs ==
    ASSUME NEW c, acts[c] \in [Delays -> Nat], acts[c][0] > 0
    PROVE  Popped(c) \in [Delays -> Nat] /\ Popped(c)[0] = acts[c][0] - 1
<1>1. acts[c][0] \in Nat /\ 0 - 1 \in Int /\ acts[c][0] + (0 - 1) >= 0
  BY DelaysAre
<1>2. /\ Plus(c, 0, 0 - 1) \in [Delays -> Nat]
      /\ Plus(c, 0, 0 - 1)[0] = acts[c][0] + (0 - 1)
  BY <1>1, DelaysAre, PlusIs
<1> QED
  BY <1>1, <1>2 DEF Popped

LEMMA ComesAgainIs ==
    ASSUME NEW c, acts[c] \in [Delays -> Nat], acts[c][0] > 0, NEW d \in Delays, d # 0
    PROVE  /\ ComesAgain(c, d) \in [Delays -> Nat]
           /\ ComesAgain(c, d)[d] > 0
           /\ ComesAgain(c, d)[0] = acts[c][0] - 1
<1>1. Popped(c) \in [Delays -> Nat] /\ Popped(c)[0] = acts[c][0] - 1
  BY PoppedIs
<1> QED
  BY <1>1, DelaysAre DEF ComesAgain

\* A blow of c that t may be dealt, whatever events c has left.
LEMMA MayStrikeApart ==
    ASSUME NEW c \in Fighters, NEW t, MayStrike(c, t)
    PROVE  t \in Fighters /\ t # c
  BY DEF MayStrike, CanPvp, Fighters

HitDone(c, t, left) ==
    \A x \in Fighters :
        /\ place'[x] \in {Hall, Arena, Grave, Gone}
        /\ hp'[x] \in 1..MaxHp
        /\ auto'[x] \in BOOLEAN
        /\ target'[x] \in Fighters \cup {Nobody, Gone}
        /\ auto'[x] => auto[x] /\ target'[x] # Nobody /\ ~(Dies(t) /\ x \in {c, t})
        /\ acts'[x] = IF x = c THEN left ELSE IF x \in Removed(t) THEN NoActs ELSE acts[x]
        /\ x # t => hp'[x] = hp[x] /\ place'[x] = place[x]
        /\ auto'[x] => x \notin Removed(t)

LEMMA HitIs ==
    ASSUME FightIInv, NEW c \in Fighters, NEW t \in Fighters, t # c,
           NEW left, Hit(c, t, left)
    PROVE  /\ HitDone(c, t, left)
           /\ place' = [x \in Fighters |-> place'[x]] /\ hp' = [x \in Fighters |-> hp'[x]]
           /\ auto' = [x \in Fighters |-> auto'[x]] /\ target' = [x \in Fighters |-> target'[x]]
           /\ acts' = [x \in Fighters |-> acts'[x]] /\ pvp' = pvp
<1> DEFINE stopped == IF Dies(t) THEN {c, t} ELSE {}
<1>1. AreFunctions /\ \A x \in Fighters : FighterOK(x)
  BY FightByFighter
<1>2. /\ hp' = [hp EXCEPT ![t] = IF Dies(t) THEN MaxHp ELSE @ - 1]
      /\ place' = IF Dies(t)
                  THEN [place EXCEPT ![t] = IF t \in Mobs THEN Gone ELSE Grave]
                  ELSE place
      /\ auto' = [x \in Fighters |-> auto[x] /\ x \notin stopped]
      /\ target' = [x \in Fighters |->
                      IF x \in stopped THEN Nobody
                      ELSE IF target[x] \in Removed(t) THEN Gone ELSE target[x]]
      /\ acts' = [x \in Fighters |-> IF x = c THEN left
                                     ELSE IF x \in Removed(t) THEN NoActs
                                     ELSE acts[x]]
      /\ pvp' = pvp
  BY DEF Hit
<1>3. \A x \in Fighters : hp'[x] \in 1..MaxHp /\ (x # t => hp'[x] = hp[x])
  BY <1>1, <1>2, NamesApart DEF AreFunctions, FighterOK, Dies
<1>4. \A x \in Fighters : place'[x] \in {Hall, Arena, Grave, Gone} /\ (x # t => place'[x] = place[x])
  BY <1>1, <1>2 DEF AreFunctions, FighterOK
<1>5. \A x \in Fighters : auto'[x] = (auto[x] /\ x \notin stopped)
  BY <1>2
<1>6. \A x \in Fighters : /\ target'[x] \in Fighters \cup {Nobody, Gone}
                          /\ x \notin stopped /\ target[x] # Nobody => target'[x] # Nobody
  BY <1>1, <1>2, NamesApart DEF FighterOK
<1>7. Removed(t) \subseteq {t} /\ (~Dies(t) => Removed(t) = {})
  BY DEF Removed
<1>8. /\ place' = [x \in Fighters |-> place'[x]] /\ hp' = [x \in Fighters |-> hp'[x]]
      /\ auto' = [x \in Fighters |-> auto'[x]] /\ target' = [x \in Fighters |-> target'[x]]
      /\ acts' = [x \in Fighters |-> acts'[x]]
  BY <1>1, <1>2 DEF AreFunctions
<1>9. \A x \in Fighters : auto'[x] => auto[x] /\ target'[x] # Nobody /\ ~(Dies(t) /\ x \in {c, t})
                                      /\ x \notin Removed(t)
  BY <1>1, <1>5, <1>6, <1>7 DEF FighterOK
<1>10. \A x \in Fighters : acts'[x] = IF x = c THEN left
                                      ELSE IF x \in Removed(t) THEN NoActs ELSE acts[x]
  BY <1>2
<1>11. \A x \in Fighters : auto'[x] \in BOOLEAN
  BY <1>2
<1> QED
  BY <1>2, <1>3, <1>4, <1>6, <1>8, <1>9, <1>10, <1>11 DEF HitDone

LEMMA NoActsIs == NoActs \in [Delays -> Nat]
  BY DEF NoActs

LEMMA PendingIs ==
    \A c : Pending(c)' <=> \E d \in Delays : acts'[c][d] > 0
  BY DEF Pending

LEMMA HitKeeps ==
    ASSUME FightIInv, NEW c \in Fighters, NEW t, MayStrike(c, t), NEW left \in [Delays -> Nat],
           Hit(c, t, left),
           Dies(t) \/ ~auto[c] \/ \E d \in Delays : left[d] > 0,
           ready' = [x \in Fighters |-> ready'[x]], stunned' = [x \in Fighters |-> stunned'[x]],
           swings' = [x \in Fighters |-> swings'[x]],
           \A x \in Fighters : /\ ready'[x] \in 0..1 /\ stunned'[x] \in 0..StunTime
                               /\ swings'[x] \in Nat
                               /\ \/ swings'[x] = 0
                                  \/ swings'[x] = 1 /\ (ready'[x] = 1 \/ ~auto'[x])
    PROVE  FightIInv'
<1>1. AreFunctions /\ \A x \in Fighters : FighterOK(x)
  BY FightByFighter
<1>2. t \in Fighters /\ t # c
  BY MayStrikeApart
<1>3. /\ HitDone(c, t, left)
      /\ place' = [x \in Fighters |-> place'[x]] /\ hp' = [x \in Fighters |-> hp'[x]]
      /\ auto' = [x \in Fighters |-> auto'[x]] /\ target' = [x \in Fighters |-> target'[x]]
      /\ acts' = [x \in Fighters |-> acts'[x]] /\ pvp' = pvp
  BY <1>2, HitIs
<1>4. AreFunctions'
  BY <1>1, <1>3 DEF AreFunctions
<1>5. ASSUME NEW x \in Fighters PROVE FighterOK(x)'
  <2>1. acts'[x] \in [Delays -> Nat]
    BY <1>1, <1>3, NoActsIs DEF HitDone, FighterOK
  <2>2. auto'[x] => Pending(x)'
    <3> SUFFICES ASSUME auto'[x] PROVE \E d \in Delays : acts'[x][d] > 0
      BY PendingIs
    <3>1. CASE x = c
      BY <1>3, <3>1 DEF HitDone
    <3>2. CASE x # c
      BY <1>1, <1>3, <3>2 DEF HitDone, FighterOK, Pending
    <3> QED
      BY <3>1, <3>2
  <2>3. auto'[x] => target'[x] # Nobody
    BY <1>3 DEF HitDone
  <2> QED
    BY <1>3, <2>1, <2>2, <2>3 DEF HitDone, FighterOK
<1> QED
  BY <1>4, <1>5, FightersMakeIt

\* An event that changes nothing but the events of its fighter.
LEMMA OnlyActs ==
    ASSUME FightIInv, NEW c \in Fighters, NEW left \in [Delays -> Nat],
           ~auto[c] \/ \E d \in Delays : left[d] > 0,
           acts' = [acts EXCEPT ![c] = left],
           UNCHANGED <<place, hp, auto, target, ready, stunned, pvp, swings>>
    PROVE  FightIInv'
<1>1. AreFunctions /\ \A x \in Fighters : FighterOK(x)
  BY FightByFighter
<1>2. /\ acts' = [x \in Fighters |-> acts'[x]]
      /\ \A x \in Fighters : acts'[x] = IF x = c THEN left ELSE acts[x]
  BY <1>1 DEF AreFunctions
<1>3. AreFunctions'
  BY <1>1, <1>2 DEF AreFunctions
<1>4. ASSUME NEW x \in Fighters PROVE FighterOK(x)'
  <2>1. acts'[x] \in [Delays -> Nat]
    BY <1>1, <1>2 DEF FighterOK
  <2>2. auto'[x] => Pending(x)'
    BY <1>1, <1>2, PendingIs DEF FighterOK, Pending
  <2> QED
    BY <1>1, <2>1, <2>2 DEF FighterOK
<1> QED
  BY <1>3, <1>4, FightersMakeIt

\* A fighter that stops, whatever becomes of its events.
LEMMA StopKeeps ==
    ASSUME FightIInv, NEW c \in Fighters, NEW left \in [Delays -> Nat],
           StopCombat(c), acts' = [acts EXCEPT ![c] = left],
           UNCHANGED <<place, hp, ready, stunned, pvp, swings>>
    PROVE  FightIInv'
<1>1. AreFunctions /\ \A x \in Fighters : FighterOK(x)
  BY FightByFighter
<1>2. /\ acts' = [x \in Fighters |-> acts'[x]]
      /\ \A x \in Fighters : acts'[x] = IF x = c THEN left ELSE acts[x]
      /\ auto' = [x \in Fighters |-> auto'[x]]
      /\ \A x \in Fighters : auto'[x] = IF x = c THEN FALSE ELSE auto[x]
      /\ target' = [x \in Fighters |-> target'[x]]
      /\ \A x \in Fighters : target'[x] = IF x = c THEN Nobody ELSE target[x]
  BY <1>1 DEF AreFunctions, StopCombat
<1>3. AreFunctions'
  BY <1>1, <1>2 DEF AreFunctions
<1>4. ASSUME NEW x \in Fighters PROVE FighterOK(x)'
  <2>1. acts'[x] \in [Delays -> Nat]
    BY <1>1, <1>2 DEF FighterOK
  <2>2. auto'[x] => Pending(x)'
    BY <1>1, <1>2, PendingIs DEF FighterOK, Pending
  <2> QED
    BY <1>1, <1>2, <2>1, <2>2 DEF FighterOK
<1> QED
  BY <1>3, <1>4, FightersMakeIt

LEMMA StrikeKeeps ==
    ASSUME FightIInv, NEW c \in Fighters, auto[c], ready[c] = 0, acts[c][0] > 0,
           MayStrike(c, target[c]), Strike(c, target[c])
    PROVE  FightIInv'
<1> DEFINE t == target[c]
           left == IF Dies(t) THEN Popped(c) ELSE ComesAgain(c, 1)
<1>1. AreFunctions /\ FighterOK(c) /\ \A x \in Fighters : FighterOK(x)
  BY FightByFighter
<1>2. /\ Hit(c, t, left)
      /\ ready' = IF Dies(t) THEN ready ELSE [ready EXCEPT ![c] = 1]
      /\ swings' = [swings EXCEPT ![c] = @ + 1]
      /\ UNCHANGED stunned
  BY DEF Strike
<1>3. t \in Fighters /\ t # c
  BY MayStrikeApart
<1>4. left \in [Delays -> Nat] /\ (Dies(t) \/ \E d \in Delays : left[d] > 0)
  BY <1>1, DelaysAre, PoppedIs, ComesAgainIs DEF FighterOK
<1>5. swings[c] = 0
  BY <1>1 DEF FighterOK
<1>6. Dies(t) => ~auto'[c]
  BY <1>2 DEF Hit
<1> HIDE DEF left, t
<1>7. /\ ready' = [x \in Fighters |-> ready'[x]] /\ stunned' = [x \in Fighters |-> stunned'[x]]
      /\ swings' = [x \in Fighters |-> swings'[x]]
  BY <1>1, <1>2 DEF AreFunctions
<1>8. ASSUME NEW x \in Fighters
      PROVE /\ ready'[x] \in 0..1 /\ stunned'[x] \in 0..StunTime
            /\ swings'[x] \in Nat
            /\ \/ swings'[x] = 0
               \/ swings'[x] = 1 /\ (ready'[x] = 1 \/ ~auto'[x])
  <2>1. FighterOK(x)
    BY <1>1
  <2>2. CASE x = c
    BY <1>1, <1>2, <1>5, <1>6, <2>1, <2>2 DEF AreFunctions, FighterOK
  <2>3. CASE x # c
    <3>1. ready'[x] = ready[x] /\ stunned'[x] = stunned[x] /\ swings'[x] = swings[x]
      BY <1>1, <1>2, <2>3 DEF AreFunctions
    <3>2. auto'[x] => auto[x]
      BY <1>2 DEF Hit
    <3> QED
      BY <2>1, <3>1, <3>2 DEF FighterOK
  <2> QED
    BY <2>2, <2>3
<1>9. MayStrike(c, t)
  BY DEF t
<1> QED
  BY <1>2, <1>4, <1>7, <1>8, <1>9, HitKeeps

LEMMA CombatActKeeps ==
    ASSUME FightIInv, NEW c \in Fighters, CombatAct(c)
    PROVE  FightIInv'
<1>1. AreFunctions /\ FighterOK(c)
  BY FightByFighter
<1>2. acts[c][0] > 0 /\ acts[c] \in [Delays -> Nat]
  BY <1>1 DEF CombatAct, FighterOK
<1>3. Popped(c) \in [Delays -> Nat]
  BY <1>2, PoppedIs
<1>4. CASE /\ ~auto[c] \/ target[c] = Nobody
           /\ acts' = [acts EXCEPT ![c] = Popped(c)]
           /\ UNCHANGED <<place, hp, auto, target, ready, stunned, pvp, swings>>
  <2>1. ~auto[c]
    BY <1>1, <1>4 DEF FighterOK
  <2> QED
    BY <1>3, <1>4, <2>1, OnlyActs
<1>5. ASSUME NEW d \in Delays, d # 0, Resting(c, d) PROVE FightIInv'
  <2>1. ComesAgain(c, d) \in [Delays -> Nat] /\ ComesAgain(c, d)[d] > 0
    BY <1>2, <1>5, ComesAgainIs
  <2> QED
    BY <1>5, <2>1, OnlyActs DEF Resting
<1>6. CASE auto[c] /\ stunned[c] > 0 /\ Resting(c, stunned[c])
  <2>1. stunned[c] \in Delays /\ stunned[c] # 0
    BY <1>1, <1>6, DelaysAre DEF FighterOK
  <2> QED
    BY <1>5, <1>6, <2>1
<1>7. CASE auto[c] /\ ready[c] > 0 /\ Resting(c, ready[c])
  <2>1. ready[c] \in Delays /\ ready[c] # 0
    BY <1>1, <1>7, DelaysAre DEF FighterOK
  <2> QED
    BY <1>5, <1>7, <2>1
<1>8. CASE auto[c] /\ ready[c] = 0 /\ MayStrike(c, target[c]) /\ Strike(c, target[c])
  BY <1>2, <1>8, StrikeKeeps
<1>9. CASE /\ StopCombat(c)
           /\ acts' = [acts EXCEPT ![c] = Popped(c)]
           /\ UNCHANGED <<place, hp, ready, stunned, pvp, swings>>
  BY <1>3, <1>9, StopKeeps
<1> QED
  BY <1>4, <1>6, <1>7, <1>8, <1>9 DEF CombatAct

LEMMA UseSkillKeeps ==
    ASSUME FightIInv, NEW p \in Players, UseSkill(p)
    PROVE  FightIInv'
<1> DEFINE t == target[p]
<1>1. AreFunctions /\ p \in Fighters /\ FighterOK(p) /\ \A x \in Fighters : FighterOK(x)
  BY FightByFighter DEF Fighters
<1>2. MayStrike(p, t) /\ Hit(p, t, acts[p]) /\ UNCHANGED <<ready, swings>>
  BY DEF UseSkill
<1>3. PICK for \in {0, StunTime} :
         stunned' = IF Dies(t) \/ for <= stunned[t] THEN stunned ELSE [stunned EXCEPT ![t] = for]
  BY DEF UseSkill
<1>4. acts[p] \in [Delays -> Nat] /\ (~auto[p] \/ \E d \in Delays : acts[p][d] > 0)
  BY <1>1 DEF FighterOK, Pending
<1> HIDE DEF t
<1>5. for \in 0..StunTime
  BY NamesApart
<1>6. /\ ready' = [x \in Fighters |-> ready'[x]] /\ stunned' = [x \in Fighters |-> stunned'[x]]
      /\ swings' = [x \in Fighters |-> swings'[x]]
  BY <1>1, <1>2, <1>3 DEF AreFunctions
<1>7. \A x \in Fighters : stunned'[x] \in 0..StunTime
  BY <1>1, <1>3, <1>5 DEF AreFunctions, FighterOK
<1>8. ASSUME NEW x \in Fighters
      PROVE /\ ready'[x] \in 0..1 /\ swings'[x] \in Nat
            /\ \/ swings'[x] = 0
               \/ swings'[x] = 1 /\ (ready'[x] = 1 \/ ~auto'[x])
  <2>1. auto'[x] => auto[x]
    BY <1>2 DEF Hit
  <2> QED
    BY <1>1, <1>2, <2>1 DEF FighterOK
<1> QED
  BY <1>1, <1>2, <1>4, <1>6, <1>7, <1>8, HitKeeps

\* `kill` with everyone who joins in, and the target they provoke.
LEMMA StartCombatKeeps ==
    ASSUME FightIInv, NEW by \in Fighters, NEW t \in Fighters, t # by, StartCombat(by, t)
    PROVE  FightIInv'
<1> DEFINE joiners   == Joiners(by, t)
           provokers == {j \in joiners : t \in Mobs \/ CanPvp(j, t)}
<1>1. AreFunctions /\ \A x \in Fighters : FighterOK(x)
  BY FightByFighter
<1>2. joiners \subseteq Fighters /\ t \notin joiners /\ IsFiniteSet(joiners)
  <2>1. IsFiniteSet({by}) /\ IsFiniteSet({m \in Players \ {t} : place[m] = place[by] /\ ~auto[m]})
    BY NamesApart, FS_EmptySet, FS_AddElement, FS_Subset
  <2> QED
    BY <2>1, FS_Union DEF Joiners, Fighters
<1>3. /\ provokers \subseteq joiners /\ Cardinality(provokers) \in Nat
      /\ provokers # {} => Cardinality(provokers) > 0
  <2>1. provokers \subseteq joiners
    OBVIOUS
  <2> HIDE DEF provokers, joiners
  <2>2. IsFiniteSet(provokers)
    BY <1>2, <2>1, FS_Subset
  <2>3. Cardinality(provokers) \in Nat /\ (Cardinality(provokers) = 0 <=> provokers = {})
    BY <2>2, FS_EmptySet, FS_CardinalityType
  <2> QED
    BY <2>1, <2>3
<1>4. /\ auto' = [c \in Fighters |-> auto[c] \/ c \in joiners \/ (c = t /\ provokers # {})]
      /\ ready' = [c \in Fighters |-> IF c \in joiners THEN 0
                                      ELSE IF c = t /\ provokers # {} THEN 0
                                      ELSE ready[c]]
      /\ acts' = [c \in Fighters |->
                    IF c \in joiners THEN Plus(c, 0, 1)
                    ELSE IF c = t THEN Plus(t, 0, Cardinality(provokers))
                    ELSE acts[c]]
      /\ swings' = [c \in Fighters |-> IF c \in joiners THEN 0
                                       ELSE IF c = t /\ provokers # {} THEN 0
                                       ELSE swings[c]]
      /\ UNCHANGED <<place, hp, stunned, pvp>>
  BY DEF StartCombat
<1>5. PICK last \in IF provokers = {} THEN {target[t]} ELSE provokers :
         target' = [c \in Fighters |-> IF c \in joiners THEN t
                                       ELSE IF c = t THEN last
                                       ELSE target[c]]
  BY DEF StartCombat
<1> HIDE DEF provokers, joiners
<1>6. AreFunctions'
  BY <1>1, <1>4, <1>5 DEF AreFunctions
<1>7. ASSUME NEW x \in Fighters PROVE FighterOK(x)'
  <2>1. FighterOK(x)
    BY <1>1
  <2>2. acts[x] \in [Delays -> Nat]
    BY <2>1 DEF FighterOK
  <2>3. CASE x \in joiners
    <3>1. /\ Plus(x, 0, 1) \in [Delays -> Nat] /\ Plus(x, 0, 1)[0] > 0
      BY <2>2, DelaysAre, PlusIs
    <3>2. acts'[x] = Plus(x, 0, 1) /\ target'[x] = t /\ swings'[x] = 0 /\ ready'[x] = 0
      BY <1>4, <1>5, <2>3
    <3>3. acts'[x] \in [Delays -> Nat] /\ Pending(x)'
      BY <3>1, <3>2, PendingIs, DelaysAre
    <3>4. auto'[x] \in BOOLEAN
      BY <1>4
    <3> QED
      BY <1>4, <2>1, <3>2, <3>3, <3>4, NamesApart DEF FighterOK
  <2>4. CASE x = t /\ provokers # {}
    <3>1. /\ Plus(x, 0, Cardinality(provokers)) \in [Delays -> Nat]
          /\ Plus(x, 0, Cardinality(provokers))[0] > 0
      BY <1>3, <2>2, <2>4, DelaysAre, PlusIs
    <3>2. /\ acts'[x] = Plus(x, 0, Cardinality(provokers)) /\ target'[x] = last
          /\ swings'[x] = 0 /\ ready'[x] = 0
      BY <1>2, <1>4, <1>5, <2>4
    <3>3. acts'[x] \in [Delays -> Nat] /\ Pending(x)'
      BY <3>1, <3>2, PendingIs, DelaysAre
    <3>4. auto'[x] \in BOOLEAN /\ last \in Fighters
      BY <1>2, <1>3, <1>4, <1>5, <2>4
    <3> QED
      BY <1>4, <2>1, <3>2, <3>3, <3>4, NamesApart DEF FighterOK
  <2>5. CASE x = t /\ provokers = {}
    <3>1. Cardinality(provokers) = 0
      BY <2>5, FS_EmptySet
    <3>2. /\ Plus(x, 0, 0) \in [Delays -> Nat] /\ Plus(x, 0, 0)[0] = acts[x][0]
          /\ \A d \in Delays \ {0} : Plus(x, 0, 0)[d] = acts[x][d]
      <4>1. acts[x][0] \in Nat /\ acts[x][0] + 0 >= 0 /\ acts[x][0] + 0 = acts[x][0]
        BY <2>2, DelaysAre
      <4> QED
        BY <2>2, <4>1, DelaysAre, PlusIs
    <3>3. /\ acts'[x] = Plus(x, 0, 0) /\ target'[x] = target[x]
          /\ swings'[x] = swings[x] /\ ready'[x] = ready[x] /\ auto'[x] = auto[x]
      BY <1>1, <1>2, <1>4, <1>5, <2>5, <3>1 DEF FighterOK
    <3>4. acts'[x] \in [Delays -> Nat] /\ (auto'[x] => Pending(x)')
      BY <2>1, <3>2, <3>3, PendingIs, DelaysAre DEF FighterOK, Pending
    <3> QED
      BY <1>4, <2>1, <3>3, <3>4 DEF FighterOK
  <2>6. CASE x \notin joiners /\ x # t
    <3>1. /\ acts'[x] = acts[x] /\ target'[x] = target[x]
          /\ swings'[x] = swings[x] /\ ready'[x] = ready[x] /\ auto'[x] = auto[x]
      BY <1>4, <1>5, <2>1, <2>6 DEF FighterOK
    <3>2. auto'[x] => Pending(x)'
      BY <2>1, <3>1, PendingIs DEF FighterOK, Pending
    <3> QED
      BY <1>4, <2>1, <3>1, <3>2 DEF FighterOK
  <2> QED
    BY <2>3, <2>4, <2>5, <2>6
<1> QED
  BY <1>6, <1>7, FightersMakeIt

LEMMA CommandKeeps ==
    ASSUME FightIInv, NEW p \in Players, Command(p)
    PROVE  FightIInv'
<1>1. AreFunctions /\ p \in Fighters /\ \A x \in Fighters : FighterOK(x)
  BY FightByFighter DEF Fighters
<1>2. CASE KillOff(p)
  <2>1. acts' = [acts EXCEPT ![p] = acts[p]] /\ acts[p] \in [Delays -> Nat]
    BY <1>1, <1>2 DEF KillOff, AreFunctions, FighterOK
  <2> QED
    BY <1>1, <1>2, <2>1, StopKeeps DEF KillOff
<1>3. CASE Kill(p)
  <2>1. PICK t \in Fighters \ {p} : StartCombat(p, t)
    BY <1>3 DEF Kill
  <2> QED
    BY <1>1, <2>1, StartCombatKeeps
<1>4. CASE UseSkill(p)
  BY <1>4, UseSkillKeeps
<1>5. CASE Leave(p)
  <2>1. /\ place' = [place EXCEPT ![p] = Gone]
        /\ hp' = [hp EXCEPT ![p] = MaxHp]
        /\ auto' = [auto EXCEPT ![p] = FALSE]
        /\ target' = [x \in Fighters |-> IF x = p THEN Nobody
                                         ELSE IF target[x] = p THEN Gone
                                         ELSE target[x]]
        /\ acts' = [acts EXCEPT ![p] = NoActs]
        /\ pvp' = [pvp EXCEPT ![p] = FALSE]
        /\ UNCHANGED <<ready, stunned, swings>>
    BY <1>5 DEF Leave
  <2>2. AreFunctions'
    BY <1>1, <2>1 DEF AreFunctions
  <2>3. ASSUME NEW x \in Fighters PROVE FighterOK(x)'
    <3>1. FighterOK(x)
      BY <1>1
    <3>2. acts'[x] \in [Delays -> Nat]
      BY <1>1, <2>1, <3>1, NoActsIs DEF AreFunctions, FighterOK
    <3>3. x = p => ~auto'[x]
      BY <1>1, <2>1 DEF AreFunctions
    <3>4. x # p => acts'[x] = acts[x] /\ auto'[x] = auto[x]
      BY <1>1, <2>1 DEF AreFunctions
    <3>5. auto'[x] => Pending(x)'
      BY <3>1, <3>3, <3>4, PendingIs DEF FighterOK, Pending
    <3>6. auto'[x] => target'[x] # Nobody
      BY <2>1, <3>1, <3>3, <3>4, NamesApart DEF FighterOK
    <3>7. /\ auto'[x] \in BOOLEAN /\ target'[x] \in Fighters \cup {Nobody, Gone}
          /\ place'[x] \in {Hall, Arena, Grave, Gone} /\ hp'[x] \in 1..MaxHp
      <4>1. auto'[x] \in BOOLEAN
        <5>1. auto'[x] = IF x = p THEN FALSE ELSE auto[x]
          BY <1>1, <2>1 DEF AreFunctions
        <5>2. auto[x] \in BOOLEAN
          BY <3>1 DEF FighterOK
        <5> QED
          BY <5>1, <5>2
      <4>2. target'[x] \in Fighters \cup {Nobody, Gone}
        BY <2>1, <3>1 DEF FighterOK
      <4>3. place'[x] \in {place[x], Gone} /\ hp'[x] \in {hp[x], MaxHp}
        BY <1>1, <2>1 DEF AreFunctions
      <4> QED
        BY <3>1, <4>1, <4>2, <4>3, NamesApart DEF FighterOK
    <3>8. /\ swings'[x] \in Nat /\ ready'[x] \in 0..1 /\ stunned'[x] \in 0..StunTime
          /\ swings'[x] = 0 \/ (swings'[x] = 1 /\ (ready'[x] = 1 \/ ~auto'[x]))
      BY <2>1, <3>1, <3>3, <3>4 DEF FighterOK
    <3> QED
      BY <3>2, <3>5, <3>6, <3>7, <3>8 DEF FighterOK
  <2> QED
    BY <2>2, <2>3, FightersMakeIt
<1>6. CASE Walk(p)
  <2>1. PICK r \in {Hall, Arena} \ {place[p]} : place' = [place EXCEPT ![p] = r]
    BY <1>6 DEF Walk
  <2>2. UNCHANGED <<hp, auto, target, ready, stunned, pvp, acts, swings>>
    BY <1>6 DEF Walk
  <2> QED
    BY <2>1, <2>2 DEF FightIInv, FightTypeOK, EngagedHaveTarget, EngagedWillAct, StruckOnce, Pending
<1>7. CASE SetPvp(p)
  <2>1. PICK on \in BOOLEAN : pvp' = [pvp EXCEPT ![p] = on]
    BY <1>7 DEF SetPvp
  <2>2. UNCHANGED <<place, hp, auto, target, ready, stunned, acts, swings>>
    BY <1>7 DEF SetPvp
  <2> QED
    BY <2>1, <2>2 DEF FightIInv, FightTypeOK, EngagedHaveTarget, EngagedWillAct, StruckOnce, Pending
<1> QED
  BY <1>2, <1>3, <1>4, <1>5, <1>6, <1>7 DEF Command

LEMMA ComeKeeps ==
    ASSUME FightIInv, NEW c \in Fighters, Come(c)
    PROVE  FightIInv'
<1>1. /\ ready' = [ready EXCEPT ![c] = 0] /\ stunned' = [stunned EXCEPT ![c] = 0]
      /\ swings' = [swings EXCEPT ![c] = 0] /\ UNCHANGED <<hp, auto, target, pvp, acts>>
  BY DEF Come
<1>2. PICK r \in {Hall, Arena} : place' = [place EXCEPT ![c] = r]
  BY DEF Come
<1>3. FightTypeOK'
  BY <1>1, <1>2, NamesApart DEF FightIInv, FightTypeOK
<1>4. EngagedHaveTarget' /\ EngagedWillAct' /\ StruckOnce'
  BY <1>1 DEF FightIInv, FightTypeOK, EngagedHaveTarget, EngagedWillAct, StruckOnce, Pending
<1> QED
  BY <1>3, <1>4 DEF FightIInv

LEMMA TickKeeps ==
    ASSUME FightIInv, NoneDue, Tick
    PROVE  FightIInv'
<1>1. AreFunctions /\ \A x \in Fighters : FighterOK(x)
  BY FightByFighter
<1>2. /\ ready' = [c \in Fighters |-> Less(ready[c])]
      /\ stunned' = [c \in Fighters |-> Less(stunned[c])]
      /\ acts' = [c \in Fighters |-> [d \in Delays |->
                      IF d + 1 \in Delays THEN acts[c][d + 1] ELSE 0]]
      /\ swings' = [c \in Fighters |-> 0]
      /\ UNCHANGED <<place, hp, auto, target, pvp>>
  BY DEF Tick
<1>3. AreFunctions'
  BY <1>1, <1>2 DEF AreFunctions
<1>4. ASSUME NEW x \in Fighters PROVE FighterOK(x)'
  <2>1. FighterOK(x) /\ acts[x][0] = 0
    BY <1>1 DEF NoneDue
  <2>2. \A d \in Delays : acts'[x][d] = IF d + 1 \in Delays THEN acts[x][d + 1] ELSE 0
    BY <1>2
  <2>3. acts'[x] \in [Delays -> Nat]
    BY <1>2, <2>1 DEF FighterOK
  <2>4. auto'[x] => Pending(x)'
    <3> SUFFICES ASSUME auto[x] PROVE \E d \in Delays : acts'[x][d] > 0
      BY <1>2, PendingIs
    <3>1. PICK d \in Delays : acts[x][d] > 0
      BY <2>1 DEF FighterOK, Pending
    <3>2. d # 0
      BY <2>1, <3>1
    <3>3. d - 1 \in Delays /\ (d - 1) + 1 = d
      BY <3>2, DelaysAre
    <3> QED
      BY <2>2, <3>1, <3>3
  <2>5. ready'[x] \in 0..1 /\ stunned'[x] \in 0..StunTime
    BY <1>2, <2>1, NamesApart DEF FighterOK, Less
  <2> QED
    BY <1>2, <2>1, <2>3, <2>4, <2>5 DEF FighterOK
<1> QED
  BY <1>3, <1>4, FightersMakeIt

LEMMA FightStep ==
    ASSUME FightIInv, [FightNext]_fightVars
    PROVE  FightIInv'
<1>1. CASE UNCHANGED fightVars
  BY <1>1 DEF fightVars, FightIInv, FightTypeOK, EngagedHaveTarget, EngagedWillAct, StruckOnce,
              Pending
<1> QED
  BY <1>1, CombatActKeeps, CommandKeeps, ComeKeeps, TickKeeps DEF FightNext

LEMMA FightStart == FightInit => FightIInv
<1> SUFFICES ASSUME FightInit PROVE FightIInv
  OBVIOUS
<1>1. FightTypeOK
  BY NamesApart, NoActsIs DEF FightInit, FightTypeOK
<1> QED
  BY <1>1 DEF FightInit, FightIInv, EngagedHaveTarget, EngagedWillAct, StruckOnce

(* FightInv, for any players, mobs, hit points and stuns: whoever is set to *)
(* attack has an event to come, and no one strikes twice in an interval.    *)
THEOREM FightInvHolds == FightSpec => []FightInv
<1>1. FightIInv => FightInv
  <2>1. FightIInv => OneSwingPerInterval
    BY DEF FightIInv, StruckOnce, OneSwingPerInterval
  <2> QED
    BY <2>1 DEF FightIInv, FightInv
<1> QED
  BY <1>1, FightStart, FightStep, PTL DEF FightSpec

-----------------------------------------------------------------------------
(* Who is hurt while no mob acts.                                           *)

WillingOnly == \A p \in Players : HurtOf(p) /\ MobsAsleep => \E q \in Players : CanPvp(q, p)

LEMMA NotHurt ==
    ASSUME FightIInv, NEW p \in Players, hp'[p] \in {hp[p], MaxHp},
           place'[p] \in {place[p], Hall, Arena, Gone}
    PROVE  ~HurtOf(p)
<1>1. p \in Fighters /\ FighterOK(p)
  BY FightByFighter DEF Fighters
<1>2. hp[p] \in 1..MaxHp /\ MaxHp \in Nat
  BY <1>1, NamesApart DEF FighterOK
<1>3. ~(hp'[p] < hp[p])
  BY <1>2
<1> QED
  BY <1>3, NamesApart DEF HurtOf

LEMMA BlowsAreWilling ==
    ASSUME FightIInv, NEW c \in Fighters, NEW t, MayStrike(c, t), NEW left, Hit(c, t, left),
           c \in Players \/ acts'[c] # acts[c]
    PROVE  WillingOnly
<1> SUFFICES ASSUME NEW p \in Players, HurtOf(p), MobsAsleep PROVE \E q \in Players : CanPvp(q, p)
  BY DEF WillingOnly
<1>1. t \in Fighters /\ t # c
  BY MayStrikeApart
<1>2. p \in Fighters
  BY DEF Fighters
<1>3. HitDone(c, t, left)
  BY <1>1, HitIs
<1>4. p = t
  <2> SUFFICES ASSUME p # t PROVE FALSE
    OBVIOUS
  <2>1. hp'[p] = hp[p] /\ place'[p] = place[p]
    BY <1>2, <1>3 DEF HitDone
  <2> QED
    BY <2>1, NotHurt
<1>5. c \in Players
  BY DEF MobsAsleep, Fighters
<1> QED
  BY <1>4, <1>5 DEF MayStrike

LEMMA WillingStep ==
    ASSUME FightIInv, [FightNext]_fightVars
    PROVE  WillingOnly
<1>1. AreFunctions /\ \A x \in Fighters : FighterOK(x)
  BY FightByFighter
<1>2. ASSUME UNCHANGED <<hp, place>> PROVE WillingOnly
  BY <1>2, NotHurt DEF WillingOnly
<1>3. ASSUME NEW c \in Fighters, CombatAct(c) PROVE WillingOnly
  <2>1. CASE MayStrike(c, target[c]) /\ Strike(c, target[c])
    <3> DEFINE t == target[c]
               left == IF Dies(t) THEN Popped(c) ELSE ComesAgain(c, 1)
    <3>1. Hit(c, t, left)
      BY <2>1 DEF Strike
    <3>2. acts[c] \in [Delays -> Nat] /\ acts[c][0] > 0
      BY <1>1, <1>3 DEF FighterOK, CombatAct
    <3>3. left[0] = acts[c][0] - 1
      BY <3>2, DelaysAre, PoppedIs, ComesAgainIs
    <3>4. acts'[c] = left
      BY <3>1 DEF Hit
    <3>5. acts[c][0] \in Nat
      BY <3>2, DelaysAre
    <3>6. acts'[c] # acts[c]
      <4> SUFFICES ASSUME acts'[c] = acts[c] PROVE FALSE
        OBVIOUS
      <4>1. acts[c][0] = acts[c][0] - 1
        BY <3>3, <3>4
      <4> QED
        BY <3>5, <4>1
    <3> HIDE DEF t, left
    <3>7. MayStrike(c, t)
      BY <2>1 DEF t
    <3> QED
      BY <3>1, <3>6, <3>7, BlowsAreWilling
  <2>2. CASE UNCHANGED <<hp, place>>
    BY <1>2, <2>2
  <2> QED
    BY <1>3, <2>1, <2>2 DEF CombatAct, Resting
<1>4. ASSUME NEW p \in Players, Command(p) PROVE WillingOnly
  <2>1. CASE KillOff(p) \/ SetPvp(p)
    BY <1>2, <2>1 DEF KillOff, SetPvp
  <2>2. CASE Kill(p)
    <3>1. PICK t : StartCombat(p, t)
      BY <2>2 DEF Kill
    <3>2. UNCHANGED <<hp, place>>
      BY <3>1 DEF StartCombat
    <3> QED
      BY <1>2, <3>2
  <2>3. CASE UseSkill(p)
    <3>1. p \in Fighters /\ MayStrike(p, target[p]) /\ Hit(p, target[p], acts[p])
      BY <2>3 DEF UseSkill, Fighters
    <3> QED
      BY <3>1, BlowsAreWilling
  <2>4. CASE Leave(p)
    <3>1. \A x \in Players : hp'[x] \in {hp[x], MaxHp} /\ place'[x] \in {place[x], Gone}
      BY <1>1, <2>4 DEF Leave, AreFunctions, Fighters
    <3> QED
      BY <3>1, NotHurt DEF WillingOnly
  <2>5. CASE Walk(p)
    <3>1. \A x \in Players : hp'[x] = hp[x] /\ place'[x] \in {place[x], Hall, Arena}
      BY <1>1, <2>5 DEF Walk, AreFunctions, Fighters
    <3> QED
      BY <3>1, NotHurt DEF WillingOnly
  <2> QED
    BY <1>4, <2>1, <2>2, <2>3, <2>4, <2>5 DEF Command
<1>5. ASSUME NEW c \in Fighters, Come(c) PROVE WillingOnly
  <2>1. \A x \in Players : hp'[x] = hp[x] /\ place'[x] \in {place[x], Hall, Arena}
    BY <1>1, <1>5 DEF Come, AreFunctions, Fighters
  <2> QED
    BY <2>1, NotHurt DEF WillingOnly
<1>6. ASSUME Tick \/ UNCHANGED fightVars PROVE WillingOnly
  BY <1>2, <1>6 DEF Tick, fightVars
<1> QED
  BY <1>3, <1>4, <1>5, <1>6 DEF FightNext

(* OnlyWillingDuels: while no mob acts, a player is hurt only by another    *)
(* one, with both in the arena and both willing.                            *)
THEOREM DuelsAreWilling == FightSpec => OnlyWillingDuels
<1>1. FightIInv /\ [FightNext]_fightVars => FightIInv' /\ [WillingOnly]_fightVars
  BY FightStep, WillingStep
<1>2. [WillingOnly]_fightVars =>
      [\A p \in Players : HurtOf(p) /\ MobsAsleep => \E q \in Players : CanPvp(q, p)]_fightVars
  BY DEF WillingOnly
<1> QED
  BY <1>1, <1>2, FightStart, PTL DEF FightSpec, OnlyWillingDuels

-----------------------------------------------------------------------------
(* Players.  A principal that is not spoiled is played by one session at    *)
(* most, and what it holds - there, or in its snapshot - adds up.           *)

AddsUp(led, own) ==
    /\ own.bag + own.worn = led.issued
    /\ own.gold + own.pouches + own.drinks + led.drunk = led.found
    /\ led.issued = 1

NothingYet == [issued |-> 0, found |-> 0, drunk |-> 0]

Kept(p) ==
    /\ \A s, z \in InPlayOf(p) : s = z
    /\ \A s \in InPlayOf(p) : AddsUp(ledger[p], inPlay[s].own)
    /\ InPlayOf(p) = {} => IF snapshots[p] = NoCharacter THEN ledger[p] = NothingYet
                           ELSE AddsUp(ledger[p], snapshots[p])

\* What the file knows, the running world knows.
DiskIsBehind == \A p \in Principals : disk[p] # NoCharacter => snapshots[p] # NoCharacter

PlayerIInv == PlayerTypeOK /\ DiskIsBehind /\ \A p \in Principals \ spoiled : Kept(p)

Keeping == [Principals -> {NoCharacter} \cup Belongings]

\* Nothing that was known is forgotten.
Grows(old, new) == \A p \in Principals : old[p] # NoCharacter => new[p] # NoCharacter

LEMMA CharactersAre ==
    /\ NoCharacter \notin Belongings /\ NoCharacter \notin Characters
    /\ \A ch \in Characters : ch.principal \in Principals /\ ch.own \in Belongings
    /\ \A p \in Principals, own \in Belongings : [principal |-> p, own |-> own] \in Characters
    /\ Fresh \in Belongings
  BY NoCharacterIsNone DEF Characters, Belongings, Fresh

LEMMA InPlayIs ==
    ASSUME PlayerTypeOK, NEW s \in PlayerSessions, inPlay[s] # NoCharacter
    PROVE  /\ inPlay[s] \in Characters
           /\ inPlay[s].principal \in Principals /\ inPlay[s].own \in Belongings
           /\ inPlay[s].own # NoCharacter
  BY CharactersAre DEF PlayerTypeOK

\* The snapshots with the character of s put in.
LEMMA RememberIs ==
    ASSUME PlayerTypeOK, NEW s \in PlayerSessions
    PROVE  /\ Remember(snapshots, s) \in Keeping /\ Grows(snapshots, Remember(snapshots, s))
           /\ \A p \in Principals : Remember(snapshots, s)[p] =
                 IF s \in InPlayOf(p) THEN inPlay[s].own ELSE snapshots[p]
<1>1. snapshots \in Keeping
  BY DEF PlayerTypeOK, Keeping
<1>2. CASE inPlay[s] = NoCharacter
  BY <1>1, <1>2 DEF Remember, Grows, InPlayOf
<1>3. CASE inPlay[s] # NoCharacter
  <2>1. inPlay[s].principal \in Principals /\ inPlay[s].own \in Belongings
        /\ inPlay[s].own # NoCharacter
    BY <1>3, InPlayIs
  <2>2. Remember(snapshots, s) = [snapshots EXCEPT ![inPlay[s].principal] = inPlay[s].own]
    BY <1>3 DEF Remember
  <2> QED
    BY <1>1, <1>3, <2>1, <2>2 DEF Keeping, Grows, InPlayOf
<1> QED
  BY <1>2, <1>3

LEMMA AttachPlayerKeeps ==
    ASSUME PlayerIInv, NEW s \in PlayerSessions, NEW p \in Principals, AttachPlayer(s, p)
    PROVE  PlayerIInv' /\ Grows(disk, disk')
<1> DEFINE saved == Remember(snapshots, s)
           new   == saved[p] = NoCharacter
           own   == IF new THEN Fresh ELSE saved[p]
<1>1. /\ inPlay' = [inPlay EXCEPT ![s] = [principal |-> p, own |-> own]]
      /\ snapshots' = [saved EXCEPT ![p] = own]
      /\ \E first \in Written(saved, disk) : disk' \in Written(snapshots', first)
      /\ ledger' = IF new /\ p \notin spoiled
                   THEN [ledger EXCEPT ![p].issued = @ + 1] ELSE ledger
      /\ spoiled' = IF InPlayOf(p) \subseteq {s} THEN spoiled ELSE spoiled \cup {p}
  BY DEF AttachPlayer
<1>2. PlayerTypeOK /\ DiskIsBehind /\ \A q \in Principals \ spoiled : Kept(q)
  BY DEF PlayerIInv
<1>3. /\ saved \in Keeping /\ Grows(snapshots, saved)
      /\ \A q \in Principals : saved[q] = IF s \in InPlayOf(q) THEN inPlay[s].own ELSE snapshots[q]
  BY <1>2, RememberIs
<1>4. own \in Belongings /\ own # NoCharacter /\ (new => own = Fresh) /\ (~new => own = saved[p])
  BY <1>3, CharactersAre DEF Keeping
<1>5. spoiled \subseteq spoiled' /\ (p \notin spoiled' => InPlayOf(p) \subseteq {s})
  BY <1>1
<1> HIDE DEF saved, new, own
<1>6. snapshots' \in Keeping /\ Grows(saved, snapshots')
      /\ \A q \in Principals : snapshots'[q] = IF q = p THEN own ELSE saved[q]
  BY <1>1, <1>3, <1>4 DEF Keeping, Grows
<1>7. disk' \in {disk, saved, snapshots'}
  BY <1>1 DEF Written
<1>8. disk' \in Keeping /\ Grows(disk, disk') /\ DiskIsBehind'
  BY <1>2, <1>3, <1>6, <1>7 DEF PlayerTypeOK, Keeping, Grows, DiskIsBehind
<1>9. /\ ledger' \in [Principals -> [issued : Nat, found : Nat, drunk : Nat]]
      /\ \A q \in Principals \ {p} : ledger'[q] = ledger[q]
      /\ ~new => ledger' = ledger
      /\ new /\ p \notin spoiled => ledger'[p] = [ledger[p] EXCEPT !.issued = @ + 1]
  BY <1>1, <1>2 DEF PlayerTypeOK
<1>10. PlayerTypeOK'
  <2>1. inPlay' \in [PlayerSessions -> {NoCharacter} \cup Characters]
    BY <1>1, <1>2, <1>4, CharactersAre DEF PlayerTypeOK
  <2>2. spoiled' \subseteq Principals
    BY <1>1, <1>2 DEF PlayerTypeOK
  <2> QED
    BY <1>6, <1>8, <1>9, <2>1, <2>2 DEF PlayerTypeOK, Keeping
<1>11. \A z \in PlayerSessions : inPlay'[z] = IF z = s THEN [principal |-> p, own |-> own] ELSE inPlay[z]
  BY <1>1, <1>2 DEF PlayerTypeOK
<1>12. /\ InPlayOf(p)' = InPlayOf(p) \cup {s}
       /\ \A q \in Principals \ {p} : InPlayOf(q)' = InPlayOf(q) \ {s}
  <2>1. [principal |-> p, own |-> own] # NoCharacter
    BY <1>4, CharactersAre
  <2> QED
    BY <1>11, <2>1 DEF InPlayOf
<1>13. ASSUME p \notin spoiled' PROVE Kept(p)'
  <2>1. p \notin spoiled /\ InPlayOf(p) \subseteq {s} /\ Kept(p)
    BY <1>2, <1>5, <1>13
  <2>2. InPlayOf(p)' = {s} /\ inPlay'[s].own = own
    BY <1>11, <1>12, <2>1
  <2>3. AddsUp(ledger'[p], own)
    <3>1. CASE new
      <4>1. s \notin InPlayOf(p) /\ InPlayOf(p) = {} /\ snapshots[p] = NoCharacter
        BY <1>2, <1>3, <2>1, <3>1, CharactersAre, InPlayIs DEF new, InPlayOf
      <4>2. ledger[p] = NothingYet
        BY <2>1, <4>1 DEF Kept
      <4> QED
        BY <1>4, <1>9, <2>1, <3>1, <4>2 DEF AddsUp, NothingYet, Fresh
    <3>2. CASE ~new
      <4>1. own = saved[p] /\ ledger' = ledger /\ saved[p] # NoCharacter
        BY <1>4, <1>9, <3>2 DEF new
      <4>2. CASE s \in InPlayOf(p)
        BY <1>3, <2>1, <4>1, <4>2 DEF Kept
      <4>3. CASE s \notin InPlayOf(p)
        BY <1>3, <2>1, <4>1, <4>3 DEF Kept
      <4> QED
        BY <4>2, <4>3
    <3> QED
      BY <3>1, <3>2
  <2> QED
    BY <2>2, <2>3 DEF Kept
<1>14. ASSUME NEW q \in Principals \ {p}, q \notin spoiled' PROVE Kept(q)'
  <2>1. q \notin spoiled /\ Kept(q) /\ ledger'[q] = ledger[q] /\ snapshots'[q] = saved[q]
    BY <1>2, <1>5, <1>6, <1>9, <1>14
  <2>2. InPlayOf(q)' = InPlayOf(q) \ {s}
    BY <1>12
  <2>3. \A z \in InPlayOf(q)' : inPlay'[z] = inPlay[z]
    BY <1>11, <2>2 DEF InPlayOf
  <2>4. CASE s \in InPlayOf(q)
    <3>1. InPlayOf(q)' = {} /\ saved[q] = inPlay[s].own /\ saved[q] # NoCharacter
      BY <1>2, <1>3, <2>1, <2>2, <2>4, InPlayIs DEF Kept, InPlayOf
    <3> QED
      BY <2>1, <2>4, <3>1 DEF Kept
  <2>5. CASE s \notin InPlayOf(q)
    <3>1. InPlayOf(q)' = InPlayOf(q) /\ saved[q] = snapshots[q]
      BY <1>3, <2>2, <2>5
    <3> QED
      BY <2>1, <2>3, <3>1 DEF Kept
  <2> QED
    BY <2>4, <2>5
<1> QED
  BY <1>8, <1>10, <1>13, <1>14 DEF PlayerIInv

LEMMA DetachPlayerKeeps ==
    ASSUME PlayerIInv, NEW s \in PlayerSessions, DetachPlayer(s)
    PROVE  PlayerIInv' /\ Grows(disk, disk')
<1> DEFINE saved == Remember(snapshots, s)
<1>1. /\ snapshots' = saved
      /\ disk' \in Written(snapshots', disk)
      /\ inPlay' = [inPlay EXCEPT ![s] = NoCharacter]
      /\ UNCHANGED <<ledger, spoiled>>
  BY DEF DetachPlayer
<1>2. PlayerTypeOK /\ DiskIsBehind /\ \A q \in Principals \ spoiled : Kept(q)
  BY DEF PlayerIInv
<1>3. /\ saved \in Keeping /\ Grows(snapshots, saved)
      /\ \A q \in Principals : saved[q] = IF s \in InPlayOf(q) THEN inPlay[s].own ELSE snapshots[q]
  BY <1>2, RememberIs
<1> HIDE DEF saved
<1>4. disk' \in {disk, saved}
  BY <1>1 DEF Written
<1>5. disk' \in Keeping /\ Grows(disk, disk') /\ DiskIsBehind'
  BY <1>1, <1>2, <1>3, <1>4 DEF PlayerTypeOK, Keeping, Grows, DiskIsBehind
<1>6. PlayerTypeOK'
  BY <1>1, <1>2, <1>3, <1>5 DEF PlayerTypeOK, Keeping
<1>7. \A q \in Principals : InPlayOf(q)' = InPlayOf(q) \ {s}
  BY <1>1, <1>2 DEF PlayerTypeOK, InPlayOf
<1>8. ASSUME NEW q \in Principals \ spoiled PROVE Kept(q)'
  <2>1. Kept(q) /\ ledger'[q] = ledger[q] /\ InPlayOf(q)' = InPlayOf(q) \ {s}
    BY <1>1, <1>2, <1>7
  <2>2. \A z \in InPlayOf(q)' : inPlay'[z] = inPlay[z]
    BY <1>1, <1>2, <2>1 DEF InPlayOf, PlayerTypeOK
  <2>3. CASE s \in InPlayOf(q)
    <3>1. InPlayOf(q)' = {} /\ snapshots'[q] = inPlay[s].own /\ snapshots'[q] # NoCharacter
      BY <1>1, <1>2, <1>3, <2>1, <2>3, InPlayIs DEF Kept, InPlayOf
    <3> QED
      BY <2>1, <2>3, <3>1 DEF Kept
  <2>4. CASE s \notin InPlayOf(q)
    <3>1. InPlayOf(q)' = InPlayOf(q) /\ snapshots'[q] = snapshots[q]
      BY <1>1, <1>3, <2>1, <2>4
    <3> QED
      BY <2>1, <2>2, <3>1 DEF Kept
  <2> QED
    BY <2>3, <2>4
<1> QED
  BY <1>1, <1>5, <1>6, <1>8 DEF PlayerIInv

LEMMA BrokerHangsUpKeeps ==
    ASSUME PlayerIInv, BrokerHangsUp
    PROVE  PlayerIInv' /\ Grows(disk, disk')
<1>1. PlayerTypeOK /\ DiskIsBehind /\ \A q \in Principals \ spoiled : Kept(q)
  BY DEF PlayerIInv
<1>2. PICK last \in [Principals -> UNION {LastWord(p) : p \in Principals}] :
          /\ \A p \in Principals : last[p] \in LastWord(p)
          /\ disk' \in Written(last, disk)
          /\ spoiled' = spoiled \cup {p \in Principals : disk'[p] # last[p]}
  BY DEF BrokerHangsUp
<1>3. snapshots' = disk' /\ inPlay' = [s \in PlayerSessions |-> NoCharacter] /\ UNCHANGED ledger
  BY DEF BrokerHangsUp
<1>4. \A p \in Principals : /\ last[p] \in {NoCharacter} \cup Belongings
                            /\ snapshots[p] # NoCharacter => last[p] # NoCharacter
  <2> SUFFICES ASSUME NEW p \in Principals
      PROVE /\ last[p] \in {NoCharacter} \cup Belongings
            /\ snapshots[p] # NoCharacter => last[p] # NoCharacter
    OBVIOUS
  <2>1. CASE InPlayOf(p) = {}
    BY <1>1, <1>2, <2>1 DEF LastWord, PlayerTypeOK
  <2>2. CASE InPlayOf(p) # {}
    <3>1. PICK s \in InPlayOf(p) : last[p] = inPlay[s].own
      BY <1>2, <2>2 DEF LastWord
    <3> QED
      BY <1>1, <3>1, InPlayIs DEF InPlayOf
  <2> QED
    BY <2>1, <2>2
<1>5. last \in Keeping
  BY <1>2, <1>4 DEF Keeping
<1>6. disk' \in {last, disk}
  BY <1>2 DEF Written
<1>7. disk' \in Keeping /\ Grows(disk, disk') /\ DiskIsBehind'
  BY <1>1, <1>3, <1>4, <1>5, <1>6 DEF PlayerTypeOK, Keeping, Grows, DiskIsBehind
<1>8. PlayerTypeOK'
  BY <1>1, <1>2, <1>3, <1>7 DEF PlayerTypeOK, Keeping
<1>9. ASSUME NEW q \in Principals \ spoiled' PROVE Kept(q)'
  <2>1. Kept(q) /\ ledger'[q] = ledger[q] /\ snapshots'[q] = last[q]
    BY <1>1, <1>2, <1>3, <1>9
  <2>2. InPlayOf(q)' = {}
    BY <1>3 DEF InPlayOf
  <2>3. CASE InPlayOf(q) = {}
    <3>1. last[q] = snapshots[q]
      BY <1>2, <2>3 DEF LastWord
    <3> QED
      BY <2>1, <2>2, <2>3, <3>1 DEF Kept
  <2>4. CASE InPlayOf(q) # {}
    <3>1. PICK s \in InPlayOf(q) : last[q] = inPlay[s].own
      BY <1>2, <2>4 DEF LastWord
    <3>2. last[q] # NoCharacter
      BY <1>1, <3>1, InPlayIs DEF InPlayOf
    <3> QED
      BY <2>1, <2>2, <3>1, <3>2 DEF Kept
  <2> QED
    BY <2>3, <2>4
<1> QED
  BY <1>7, <1>8, <1>9 DEF PlayerIInv

LEMMA WorldLostKeeps ==
    ASSUME PlayerIInv, WorldLost
    PROVE  PlayerIInv' /\ Grows(disk, disk')
<1>1. PlayerTypeOK /\ DiskIsBehind /\ \A q \in Principals \ spoiled : Kept(q)
  BY DEF PlayerIInv
<1>2. /\ snapshots' = disk
      /\ inPlay' = [s \in PlayerSessions |-> NoCharacter]
      /\ spoiled' = spoiled \cup {p \in Principals : disk[p] # snapshots[p] \/ InPlayOf(p) # {}}
      /\ UNCHANGED <<disk, ledger>>
  BY DEF WorldLost
<1>3. PlayerTypeOK' /\ DiskIsBehind' /\ Grows(disk, disk')
  BY <1>1, <1>2 DEF PlayerTypeOK, DiskIsBehind, Grows
<1>4. ASSUME NEW q \in Principals \ spoiled' PROVE Kept(q)'
  <2>1. Kept(q) /\ InPlayOf(q) = {} /\ snapshots'[q] = snapshots[q] /\ ledger'[q] = ledger[q]
    BY <1>1, <1>2, <1>4
  <2>2. InPlayOf(q)' = {}
    BY <1>2 DEF InPlayOf
  <2> QED
    BY <2>1, <2>2 DEF Kept
<1> QED
  BY <1>3, <1>4 DEF PlayerIInv

\* Goods exchanged, and an item worn or taken off.
LEMMA Exchanged ==
    ASSUME NEW own \in Belongings, NEW x \in Nat, NEW y \in Nat
    PROVE  /\ [own EXCEPT !.pouches = x, !.gold = y] \in Belongings
           /\ [own EXCEPT !.gold = x, !.drinks = y] \in Belongings
           /\ [own EXCEPT !.bag = x, !.worn = y] \in Belongings
  BY DEF Belongings

\* What a character does with its belongings, as long as the sums still hold.
LEMMA HoldsKeeps ==
    ASSUME PlayerIInv, NEW s \in PlayerSessions, Plays(s), NEW own \in Belongings, Holds(s, own),
           ledger' \in [Principals -> [issued : Nat, found : Nat, drunk : Nat]],
           \A p \in Principals : p # Owner(s) => ledger'[p] = ledger[p],
           Owner(s) \notin spoiled /\ AddsUp(ledger[Owner(s)], Own(s))
              => AddsUp(ledger'[Owner(s)], own)
    PROVE  PlayerIInv' /\ Grows(disk, disk')
<1>1. PlayerTypeOK /\ DiskIsBehind /\ \A q \in Principals \ spoiled : Kept(q)
  BY DEF PlayerIInv
<1>2. inPlay' = [inPlay EXCEPT ![s].own = own] /\ UNCHANGED <<snapshots, disk, spoiled>>
  BY DEF Holds
<1>3. inPlay[s] # NoCharacter /\ inPlay[s] \in Characters
  BY <1>1, InPlayIs DEF Plays
<1>4. /\ inPlay'[s] = [inPlay[s] EXCEPT !.own = own]
      /\ \A z \in PlayerSessions \ {s} : inPlay'[z] = inPlay[z]
      /\ inPlay' = [z \in PlayerSessions |-> inPlay'[z]]
  BY <1>1, <1>2 DEF PlayerTypeOK
<1>5. /\ inPlay'[s].own = own /\ inPlay'[s].principal = Owner(s)
      /\ inPlay'[s] \in Characters /\ inPlay'[s] # NoCharacter
  <2>1. /\ inPlay'[s].own = own /\ inPlay'[s].principal = Owner(s) /\ inPlay'[s] \in Characters
    BY <1>3, <1>4 DEF Owner, Characters
  <2> QED
    BY <2>1, CharactersAre
<1>6. PlayerTypeOK'
  <2>1. inPlay' \in [PlayerSessions -> {NoCharacter} \cup Characters]
    BY <1>1, <1>4, <1>5 DEF PlayerTypeOK
  <2> QED
    BY <1>1, <1>2, <2>1 DEF PlayerTypeOK
<1>7. \A q \in Principals : InPlayOf(q)' = InPlayOf(q)
  <2>1. \A z \in PlayerSessions : /\ inPlay'[z] = NoCharacter <=> inPlay[z] = NoCharacter
                                  /\ inPlay'[z].principal = inPlay[z].principal
    BY <1>3, <1>4, <1>5 DEF Owner
  <2> QED
    BY <2>1 DEF InPlayOf
<1>8. ASSUME NEW q \in Principals \ spoiled PROVE Kept(q)'
  <2>1. Kept(q) /\ InPlayOf(q)' = InPlayOf(q) /\ snapshots'[q] = snapshots[q]
    BY <1>1, <1>2, <1>7
  <2>2. CASE q = Owner(s)
    <3>1. InPlayOf(q) = {s} /\ AddsUp(ledger[q], Own(s))
      BY <1>3, <2>1, <2>2 DEF Kept, InPlayOf, Owner, Own
    <3> QED
      BY <1>5, <2>1, <2>2, <3>1 DEF Kept
  <2>3. CASE q # Owner(s)
    <3>1. \A z \in InPlayOf(q) : inPlay'[z] = inPlay[z]
      BY <1>4, <2>3 DEF InPlayOf, Owner
    <3> QED
      BY <2>1, <2>3, <3>1 DEF Kept
  <2> QED
    BY <2>2, <2>3
<1>9. DiskIsBehind' /\ Grows(disk, disk')
  BY <1>1, <1>2 DEF DiskIsBehind, Grows
<1> QED
  BY <1>2, <1>6, <1>8, <1>9 DEF PlayerIInv

LEMMA BelongingsKeep ==
    ASSUME PlayerIInv, NEW s \in PlayerSessions,
           Loot(s) \/ Sell(s) \/ Order(s) \/ Quaff(s) \/ Equip(s) \/ TakeOff(s)
    PROVE  PlayerIInv' /\ Grows(disk, disk')
<1> DEFINE own == Own(s)
           led == ledger[Owner(s)]
<1>1. PlayerTypeOK /\ Plays(s)
  BY DEF PlayerIInv, Loot, Sell, Order, Quaff, Equip, TakeOff
<1>2. own \in Belongings /\ Owner(s) \in Principals
  BY <1>1, InPlayIs DEF Plays, Own, Owner
<1>3. /\ ledger \in [Principals -> [issued : Nat, found : Nat, drunk : Nat]]
      /\ led \in [issued : Nat, found : Nat, drunk : Nat]
  BY <1>1, <1>2 DEF PlayerTypeOK
<1>4. CASE Loot(s)
  <2> DEFINE after == [own EXCEPT !.pouches = @ + 1]
  <2>1. Holds(s, after) /\ ledger' = [ledger EXCEPT ![Owner(s)].found = @ + 1]
    BY <1>4 DEF Loot
  <2>2. /\ ledger' \in [Principals -> [issued : Nat, found : Nat, drunk : Nat]]
        /\ ledger'[Owner(s)] = [led EXCEPT !.found = @ + 1]
        /\ \A p \in Principals : p # Owner(s) => ledger'[p] = ledger[p]
    BY <1>2, <1>3, <2>1
  <2>3. after \in Belongings
    BY <1>2 DEF Belongings
  <2>4. AddsUp(led, own) => AddsUp(ledger'[Owner(s)], after)
    BY <1>2, <1>3, <2>2 DEF AddsUp, Belongings
  <2> HIDE DEF own, led, after
  <2> QED
    BY <1>1, <2>1, <2>2, <2>3, <2>4, HoldsKeeps DEF own, led
<1>5. CASE Sell(s)
  <2>1. PICK taken \in 1..own.pouches :
           Holds(s, [own EXCEPT !.pouches = @ - taken, !.gold = @ + taken])
    BY <1>5 DEF Sell
  <2> DEFINE after == [own EXCEPT !.pouches = @ - taken, !.gold = @ + taken]
  <2>2. ledger' = ledger
    BY <1>5 DEF Sell
  <2>3. after \in Belongings
    <3>1. own.pouches - taken \in Nat /\ own.gold + taken \in Nat
      BY <1>2 DEF Belongings
    <3> QED
      BY <1>2, <3>1, Exchanged
  <2>4. AddsUp(led, own) => AddsUp(led, after)
    BY <1>2, <1>3 DEF AddsUp, Belongings
  <2>5. Holds(s, after)
    BY <2>1
  <2> HIDE DEF own, led, after
  <2> QED
    BY <1>1, <1>3, <2>2, <2>3, <2>4, <2>5, HoldsKeeps DEF own, led
<1>6. CASE Order(s)
  <2>1. PICK served \in 1..own.gold :
           Holds(s, [own EXCEPT !.gold = @ - served, !.drinks = @ + served])
    BY <1>6 DEF Order
  <2> DEFINE after == [own EXCEPT !.gold = @ - served, !.drinks = @ + served]
  <2>2. ledger' = ledger
    BY <1>6 DEF Order
  <2>3. after \in Belongings
    <3>1. own.gold - served \in Nat /\ own.drinks + served \in Nat
      BY <1>2 DEF Belongings
    <3> QED
      BY <1>2, <3>1, Exchanged
  <2>4. AddsUp(led, own) => AddsUp(led, after)
    BY <1>2, <1>3 DEF AddsUp, Belongings
  <2>5. Holds(s, after)
    BY <2>1
  <2> HIDE DEF own, led, after
  <2> QED
    BY <1>1, <1>3, <2>2, <2>3, <2>4, <2>5, HoldsKeeps DEF own, led
<1>7. CASE Quaff(s)
  <2> DEFINE after == [own EXCEPT !.drinks = @ - 1]
  <2>1. /\ Holds(s, after) /\ own.drinks > 0
        /\ ledger' = IF Owner(s) \in spoiled THEN ledger
                     ELSE [ledger EXCEPT ![Owner(s)].drunk = @ + 1]
    BY <1>7 DEF Quaff
  <2>2. /\ ledger' \in [Principals -> [issued : Nat, found : Nat, drunk : Nat]]
        /\ Owner(s) \notin spoiled => ledger'[Owner(s)] = [led EXCEPT !.drunk = @ + 1]
        /\ \A p \in Principals : p # Owner(s) => ledger'[p] = ledger[p]
    BY <1>2, <1>3, <2>1
  <2>3. after \in Belongings
    BY <1>2, <2>1 DEF Belongings
  <2>4. AddsUp(led, own) /\ Owner(s) \notin spoiled => AddsUp(ledger'[Owner(s)], after)
    BY <1>2, <1>3, <2>2 DEF AddsUp, Belongings
  <2> HIDE DEF own, led, after
  <2> QED
    BY <1>1, <2>1, <2>2, <2>3, <2>4, HoldsKeeps DEF own, led
<1>8. CASE Equip(s)
  <2> DEFINE after == [own EXCEPT !.bag = @ - 1, !.worn = 1]
  <2>1. Holds(s, after) /\ own.bag > 0 /\ own.worn = 0 /\ ledger' = ledger
    BY <1>8 DEF Equip
  <2>2. after \in Belongings
    <3>1. own.bag - 1 \in Nat /\ 1 \in Nat
      BY <1>2, <2>1 DEF Belongings
    <3> QED
      BY <1>2, <3>1, Exchanged
  <2>3. AddsUp(led, own) => AddsUp(led, after)
    BY <1>2, <1>3, <2>1 DEF AddsUp, Belongings
  <2> HIDE DEF own, led, after
  <2> QED
    BY <1>1, <1>3, <2>1, <2>2, <2>3, HoldsKeeps DEF own, led
<1>9. CASE TakeOff(s)
  <2> DEFINE after == [own EXCEPT !.bag = @ + 1, !.worn = 0]
  <2>1. Holds(s, after) /\ own.worn > 0 /\ ledger' = ledger
    BY <1>9 DEF TakeOff
  <2>2. after \in Belongings
    <3>1. own.bag + 1 \in Nat /\ 0 \in Nat
      BY <1>2, <2>1 DEF Belongings
    <3> QED
      BY <1>2, <3>1, Exchanged
  <2>3. AddsUp(led, own) => AddsUp(led, after)
    BY <1>2, <1>3, <2>1 DEF AddsUp, Belongings
  <2> HIDE DEF own, led, after
  <2> QED
    BY <1>1, <1>3, <2>1, <2>2, <2>3, HoldsKeeps DEF own, led
<1> QED
  BY <1>4, <1>5, <1>6, <1>7, <1>8, <1>9

LEMMA PlayerStep ==
    ASSUME PlayerIInv, [PlayerNext]_playerVars
    PROVE  PlayerIInv' /\ Grows(disk, disk')
<1>1. CASE UNCHANGED playerVars
  BY <1>1 DEF playerVars, PlayerIInv, PlayerTypeOK, DiskIsBehind, Kept, InPlayOf, Grows
<1> QED
  BY <1>1, AttachPlayerKeeps, DetachPlayerKeeps, BelongingsKeep, BrokerHangsUpKeeps,
     WorldLostKeeps DEF PlayerNext

LEMMA PlayerStart == PlayerInit => PlayerIInv
<1> SUFFICES ASSUME PlayerInit PROVE PlayerIInv
  OBVIOUS
<1>1. PlayerTypeOK /\ DiskIsBehind
  BY DEF PlayerInit, PlayerTypeOK, DiskIsBehind
<1>2. \A p \in Principals : InPlayOf(p) = {}
  BY DEF PlayerInit, InPlayOf
<1> QED
  BY <1>1, <1>2 DEF PlayerInit, PlayerIInv, Kept, NothingYet

(* PlayerInv, for any sessions and principals: what a principal has is what *)
(* it was given and found less what it drank, unless two sessions played it *)
(* or the world was lost.                                                   *)
THEOREM PlayerInvHolds == PlayerSpec => []PlayerInv
<1>1. PlayerIInv => PlayerInv
  <2> SUFFICES ASSUME PlayerIInv PROVE PlayerInv
    OBVIOUS
  <2>1. PlayerTypeOK /\ \A p \in Principals \ spoiled : Kept(p)
    BY DEF PlayerIInv
  <2>2. BelongingsAddUp
    <3> SUFFICES ASSUME NEW p \in Principals \ spoiled,
                        NEW own \in {inPlay[s].own : s \in InPlayOf(p)} \cup
                                    (IF InPlayOf(p) = {} THEN {snapshots[p]} ELSE {}),
                        own # NoCharacter
        PROVE AddsUp(ledger[p], own)
      BY DEF BelongingsAddUp, AddsUp
    <3> QED
      BY <2>1 DEF Kept
  <2> QED
    BY <2>1, <2>2 DEF PlayerInv
<1>2. PlayerIInv /\ [PlayerNext]_playerVars => PlayerIInv'
  BY PlayerStep
<1> QED
  BY <1>1, <1>2, PlayerStart, PTL DEF PlayerSpec

(* PlayersStayKnown: once the file holds a principal it holds it for good.  *)
THEOREM PlayersStayKnownHolds == PlayerSpec => PlayersStayKnown
<1>1. PlayerIInv /\ [PlayerNext]_playerVars => PlayerIInv' /\ [Grows(disk, disk')]_playerVars
  BY PlayerStep
<1>2. [Grows(disk, disk')]_playerVars =>
      [\A p \in Principals : disk[p] # NoCharacter => disk'[p] # NoCharacter]_playerVars
  BY DEF Grows
<1> QED
  BY <1>1, <1>2, PlayerStart, PTL DEF PlayerSpec, PlayersStayKnown

-----------------------------------------------------------------------------
(* Quests.  What a flag is worth is what its text is worth.                 *)

QuestIInv == QuestTypeOK /\ CountersCount /\ GatesAreEarned

IsTrue(v) == IF Numeric(v) THEN v # "0" ELSE v = "yes"

LEMMA TextsAre ==
    /\ \A v : Numeric(v) <=> v \in {"0", "1", "2", "3"}
    /\ Num("0") = 0 /\ Num("1") = 1 /\ Num("2") = 2 /\ Num("3") = 3
    /\ \A v : v \notin {"0", "1", "2", "3"} => Num(v) = 0
<1>1. DOMAIN Digits = {"0", "1", "2", "3"}
  BY DEF Digits
<1>2. Digits["0"] = 0 /\ Digits["1"] = 1 /\ Digits["2"] = 2 /\ Digits["3"] = 3
  BY DEF Digits
<1> HIDE DEF Digits
<1> QED
  BY <1>1, <1>2 DEF Numeric, Num

LEMMA TextIs ==
    ASSUME NEW n \in 0..3
    PROVE  /\ Text(n) \in {"0", "1", "2", "3"} /\ Num(Text(n)) = n
           /\ n # 0 => Text(n) # "0"
<1>1. DOMAIN Digits = {"0", "1", "2", "3"}
  BY DEF Digits
<1>2. Digits["0"] = 0 /\ Digits["1"] = 1 /\ Digits["2"] = 2 /\ Digits["3"] = 3
  BY DEF Digits
<1>3. \E d \in DOMAIN Digits : Digits[d] = n
  <2>1. n = 0 \/ n = 1 \/ n = 2 \/ n = 3
    OBVIOUS
  <2> QED
    BY <1>1, <1>2, <2>1
<1>4. Text(n) \in DOMAIN Digits /\ Digits[Text(n)] = n
  BY <1>3 DEF Text
<1> QED
  BY <1>1, <1>2, <1>4 DEF Num, Numeric

LEMMA TruthyIs == \A k : (Truthy(k) <=> IsTrue(flags[k])) /\ (Truthy(k)' <=> IsTrue(flags'[k]))
  BY DEF Truthy, IsTrue

LEMMA MarkedIs ==
    \A k : /\ Marked(k) <=> flags[k] \notin {"unset", "0"}
           /\ Marked(k)' <=> flags'[k] \notin {"unset", "0"}
  BY DEF Marked

LEMMA TrueTexts ==
    /\ IsTrue("1") /\ IsTrue("2") /\ IsTrue("3") /\ IsTrue("yes")
    /\ ~IsTrue("unset") /\ ~IsTrue("0") /\ ~IsTrue("contract") /\ ~IsTrue("repeatables")
    /\ ~IsTrue("civic") /\ ~IsTrue("industrial") /\ ~IsTrue("green")
  BY TextsAre DEF IsTrue

LEMMA SetIs ==
    ASSUME NEW pairs, Set(pairs)
    PROVE  /\ DOMAIN flags' = Keys
           /\ \A k \in Keys : flags'[k] = IF k \in DOMAIN pairs THEN pairs[k] ELSE flags[k]
  BY DEF Set

\* The kinds of keys do not meet.
LEMMA KeysApart ==
    /\ \A k \in Contracts : k \in Keys /\ k \notin Valves /\ k \notin Levers /\ k \notin Named
    /\ \A k \in Valves : k \in Keys /\ k \notin Contracts /\ k \notin Levers /\ k \notin Named
    /\ \A k \in Levers : k \in Keys /\ k \notin Contracts /\ k \notin Valves /\ k \notin Named
    /\ Named \subseteq Keys
    /\ ClinicJob \in Contracts /\ Levers # {}
  BY QuestNames, QuestParts DEF Keys

-----------------------------------------------------------------------------
(* The counters count.                                                      *)

Done   == {c \in Contracts : Truthy(c)}
Opened == {v \in Valves : Marked(v)}

LEMMA HowMany ==
    /\ IsFiniteSet(Contracts) /\ Cardinality(Contracts) \in 1..3
    /\ IsFiniteSet(Valves) /\ Cardinality(Valves) \in 1..3
  BY QuestParts

LEMMA CountIs ==
    ASSUME NEW k, NEW most \in 1..3, Num(flags[k]) \in Nat
    PROVE  /\ NextCount(k, most) \in 1..3
           /\ Num(flags[k]) < most => NextCount(k, most) = Num(flags[k]) + 1
           /\ Num(flags[k]) <= most => Count(k, most) = Num(flags[k])
  BY DEF NextCount, Count, Least

LEMMA NumIsNat == \A v : Num(v) \in 0..3
  BY TextsAre

\* A part of a finite set that all but contains one more element.
LEMMA OneMore ==
    ASSUME NEW S, IsFiniteSet(S), NEW T \in SUBSET S, NEW x \in S \ T
    PROVE  /\ Cardinality(T) \in Nat /\ Cardinality(T) < Cardinality(S)
           /\ Cardinality(T \cup {x}) = Cardinality(T) + 1
<1>1. IsFiniteSet(T) /\ Cardinality(T) \in Nat /\ Cardinality(S) \in Nat
      /\ Cardinality(T) <= Cardinality(S) /\ (Cardinality(S) = Cardinality(T) => S = T)
  BY FS_Subset, FS_CardinalityType
<1>2. Cardinality(T \cup {x}) = Cardinality(T) + 1
  BY <1>1, FS_AddElement
<1>3. T # S
  OBVIOUS
<1> QED
  BY <1>1, <1>2, <1>3

LEMMA AllOfIt ==
    ASSUME NEW S, IsFiniteSet(S), NEW T \in SUBSET S, Cardinality(T) = Cardinality(S)
    PROVE  T = S
  BY FS_Subset

LEMMA NotMore ==
    ASSUME NEW S, IsFiniteSet(S), NEW T \in SUBSET S
    PROVE  Cardinality(T) <= Cardinality(S) /\ Cardinality(T) \in Nat /\ Cardinality(S) \in Nat
  BY FS_Subset, FS_CardinalityType

-----------------------------------------------------------------------------
(* What each action writes.                                                 *)

LEMMA ContractWrites ==
    ASSUME NEW c \in Contracts, CompleteContract(c)
    PROVE  /\ DOMAIN flags' = Keys /\ tampered' = tampered
           /\ flags'[c] = "1"
           /\ flags'["contracts_done"] = Text(NextCount("contracts_done", Cardinality(Contracts)))
           /\ flags'["board"] = IF flags["board"] \in {"unset", "contract"} THEN "contract"
                                ELSE flags["board"]
           /\ \A k \in Keys \ {c, "contracts_done", "board"} : flags'[k] = flags[k]
<1> DEFINE text  == Text(NextCount("contracts_done", Cardinality(Contracts)))
           one   == [k \in {c} |-> "1"]
           pairs == Also(one, "contracts_done", text)
<1>1. /\ tampered' = tampered
      /\ Set(IF flags["board"] \in {"unset", "contract"} THEN Also(pairs, "board", "contract")
             ELSE pairs)
  BY DEF CompleteContract
<1>2. c # "contracts_done" /\ c # "board" /\ {c, "contracts_done", "board"} \subseteq Keys
  BY KeysApart DEF Named
<1>3. DOMAIN one = {c} /\ one[c] = "1"
  OBVIOUS
<1> HIDE DEF one, text
<1>4. DOMAIN pairs = {c, "contracts_done"} /\ pairs[c] = "1" /\ pairs["contracts_done"] = text
  BY <1>2, <1>3 DEF Also
<1> HIDE DEF pairs
<1>5. CASE flags["board"] \in {"unset", "contract"}
  <2> DEFINE all == Also(pairs, "board", "contract")
  <2>1. /\ DOMAIN all = {c, "contracts_done", "board"} /\ all[c] = "1"
        /\ all["contracts_done"] = text /\ all["board"] = "contract"
    BY <1>2, <1>4 DEF Also
  <2>2. Set(all)
    BY <1>1, <1>5
  <2> HIDE DEF all
  <2>3. /\ DOMAIN flags' = Keys
        /\ \A k \in Keys : flags'[k] = IF k \in DOMAIN all THEN all[k] ELSE flags[k]
    BY <2>2, SetIs
  <2> QED
    BY <1>1, <1>2, <1>5, <2>1, <2>3 DEF text
<1>6. CASE flags["board"] \notin {"unset", "contract"}
  <2>1. Set(pairs)
    BY <1>1, <1>6
  <2>2. /\ DOMAIN flags' = Keys
        /\ \A k \in Keys : flags'[k] = IF k \in DOMAIN pairs THEN pairs[k] ELSE flags[k]
    BY <2>1, SetIs
  <2> QED
    BY <1>1, <1>2, <1>4, <1>6, <2>2 DEF text
<1> QED
  BY <1>5, <1>6

LEMMA ClinicWrites ==
    ASSUME VisitClinic
    PROVE  /\ DOMAIN flags' = Keys /\ tampered' = tampered /\ flags'["slip"] = "1"
           /\ \A k \in Keys \ {"slip"} : flags'[k] = flags[k]
<1>1. Set([k \in {"slip"} |-> "1"]) /\ tampered' = tampered
  BY DEF VisitClinic
<1> QED
  BY <1>1, SetIs, KeysApart DEF Named

LEMMA FactionWrites ==
    ASSUME NEW f \in {"civic", "industrial", "green"}, ChooseFaction(f)
    PROVE  /\ DOMAIN flags' = Keys /\ tampered' = tampered
           /\ flags'["faction"] = f /\ flags'["repeatables"] = "1" /\ flags'["board"] = "repeatables"
           /\ flags'["sewers"] = IF f \in {"civic", "industrial"} THEN "1" ELSE flags["sewers"]
           /\ flags'["quarry"] = IF f \in {"industrial", "green"} THEN "1" ELSE flags["quarry"]
           /\ \A k \in Keys \ {"faction", "repeatables", "board", "sewers", "quarry"} :
                 flags'[k] = flags[k]
<1> DEFINE one   == [k \in {"faction"} |-> f]
           two   == Also(one, "repeatables", "1")
           pairs == Also(two, "board", "repeatables")
           wet   == IF f \in {"civic", "industrial"} THEN Also(pairs, "sewers", "1") ELSE pairs
           all   == IF f \in {"industrial", "green"} THEN Also(wet, "quarry", "1") ELSE wet
<1>1. Set(all) /\ tampered' = tampered
  BY DEF ChooseFaction
<1>2. {"faction", "repeatables", "board", "sewers", "quarry"} \subseteq Keys
  BY KeysApart DEF Named
<1>3. DOMAIN one = {"faction"} /\ one["faction"] = f
  OBVIOUS
<1> HIDE DEF one
<1>4. DOMAIN two = {"faction", "repeatables"} /\ two["faction"] = f /\ two["repeatables"] = "1"
  BY <1>3 DEF Also
<1> HIDE DEF two
<1>5. /\ DOMAIN pairs = {"faction", "repeatables", "board"} /\ pairs["faction"] = f
      /\ pairs["repeatables"] = "1" /\ pairs["board"] = "repeatables"
  BY <1>4 DEF Also
<1> HIDE DEF pairs
<1>6. /\ DOMAIN wet = IF f \in {"civic", "industrial"}
                      THEN {"faction", "repeatables", "board", "sewers"}
                      ELSE {"faction", "repeatables", "board"}
      /\ wet["faction"] = f /\ wet["repeatables"] = "1" /\ wet["board"] = "repeatables"
      /\ f \in {"civic", "industrial"} => wet["sewers"] = "1"
  <2>1. CASE f \in {"civic", "industrial"}
    <3>1. wet = Also(pairs, "sewers", "1")
      BY <2>1
    <3> QED
      BY <1>5, <2>1, <3>1 DEF Also
  <2>2. CASE f \notin {"civic", "industrial"}
    <3>1. wet = pairs
      BY <2>2
    <3> QED
      BY <1>5, <2>2, <3>1
  <2> QED
    BY <2>1, <2>2
<1> HIDE DEF wet
<1>7. /\ DOMAIN all = DOMAIN wet \cup (IF f \in {"industrial", "green"} THEN {"quarry"} ELSE {})
      /\ \A k \in DOMAIN wet : all[k] = wet[k]
      /\ f \in {"industrial", "green"} => all["quarry"] = "1"
  <2>1. CASE f \in {"industrial", "green"}
    <3>1. all = Also(wet, "quarry", "1") /\ "quarry" \notin DOMAIN wet
      BY <1>6, <2>1
    <3> QED
      BY <2>1, <3>1 DEF Also
  <2>2. CASE f \notin {"industrial", "green"}
    <3>1. all = wet
      BY <2>2
    <3> QED
      BY <2>2, <3>1
  <2> QED
    BY <2>1, <2>2
<1> HIDE DEF all
<1>8. /\ DOMAIN flags' = Keys
      /\ \A k \in Keys : flags'[k] = IF k \in DOMAIN all THEN all[k] ELSE flags[k]
  BY <1>1, SetIs
<1> QED
  BY <1>1, <1>2, <1>6, <1>7, <1>8

LEMMA ValveWrites ==
    ASSUME NEW v \in Valves, TurnValve(v)
    PROVE  /\ DOMAIN flags' = Keys /\ tampered' = tampered
           /\ flags'[v] = "1"
           /\ flags'["valves_opened"] = Text(NextCount("valves_opened", Cardinality(Valves)))
           /\ \A k \in Keys \ {v, "valves_opened"} : flags'[k] = flags[k]
<1> DEFINE text  == Text(NextCount("valves_opened", Cardinality(Valves)))
           one   == [k \in {v} |-> "1"]
           pairs == Also(one, "valves_opened", text)
<1>1. tampered' = tampered /\ Set(pairs)
  BY DEF TurnValve
<1>2. v # "valves_opened" /\ {v, "valves_opened"} \subseteq Keys
  BY KeysApart DEF Named
<1>3. DOMAIN one = {v} /\ one[v] = "1"
  OBVIOUS
<1> HIDE DEF one, text
<1>4. DOMAIN pairs = {v, "valves_opened"} /\ pairs[v] = "1" /\ pairs["valves_opened"] = text
  BY <1>2, <1>3 DEF Also
<1> HIDE DEF pairs
<1>5. /\ DOMAIN flags' = Keys
      /\ \A k \in Keys : flags'[k] = IF k \in DOMAIN pairs THEN pairs[k] ELSE flags[k]
  BY <1>1, SetIs
<1> QED
  BY <1>1, <1>2, <1>4, <1>5 DEF text

LEMMA BypassWrites ==
    ASSUME PullBypass
    PROVE  /\ DOMAIN flags' = Keys /\ tampered' = tampered /\ flags'["bypass"] = "1"
           /\ \A k \in Keys \ {"bypass"} : flags'[k] = flags[k]
<1>1. Set([k \in {"bypass"} |-> "1"]) /\ tampered' = tampered
  BY DEF PullBypass
<1> QED
  BY <1>1, SetIs, KeysApart DEF Named

LEMMA SwitchWrites ==
    ASSUME NEW l \in Levers, PullSwitch(l)
    PROVE  /\ DOMAIN flags' = Keys /\ tampered' = tampered
           /\ flags'[l] = IF Truthy(l) THEN flags[l] ELSE "1"
           /\ flags'["pass"] = IF (\A x \in Levers \ {l} : Truthy(x)) /\ ~Truthy("pass") THEN "1"
                               ELSE flags["pass"]
           /\ \A k \in Keys \ {l, "pass"} : flags'[k] = flags[k]
<1> DEFINE text   == IF Truthy(l) THEN flags[l] ELSE "1"
           thrown == [k \in {l} |-> text]
           all    == \A x \in Levers \ {l} : Truthy(x)
           passes == Also(thrown, "pass", "1")
<1>1. /\ tampered' = tampered
      /\ Set(IF all /\ ~Truthy("pass") THEN passes ELSE thrown)
  BY DEF PullSwitch
<1>2. l # "pass" /\ {l, "pass"} \subseteq Keys
  BY KeysApart DEF Named
<1>3. DOMAIN thrown = {l} /\ thrown[l] = text
  OBVIOUS
<1> HIDE DEF thrown, text
<1>4. DOMAIN passes = {l, "pass"} /\ passes[l] = text /\ passes["pass"] = "1"
  BY <1>2, <1>3 DEF Also
<1> HIDE DEF passes, all
<1>5. CASE all /\ ~Truthy("pass")
  <2>1. Set(passes)
    BY <1>1, <1>5
  <2>2. /\ DOMAIN flags' = Keys
        /\ \A k \in Keys : flags'[k] = IF k \in DOMAIN passes THEN passes[k] ELSE flags[k]
    BY <2>1, SetIs
  <2> QED
    BY <1>1, <1>2, <1>4, <1>5, <2>2 DEF text, all
<1>6. CASE ~(all /\ ~Truthy("pass"))
  <2>1. Set(thrown)
    BY <1>1, <1>6
  <2>2. /\ DOMAIN flags' = Keys
        /\ \A k \in Keys : flags'[k] = IF k \in DOMAIN thrown THEN thrown[k] ELSE flags[k]
    BY <2>1, SetIs
  <2> QED
    BY <1>1, <1>2, <1>3, <1>6, <2>2 DEF text, all
<1> QED
  BY <1>5, <1>6

-----------------------------------------------------------------------------
(* The invariant, step by step.  With D and O for what is done and opened.  *)

CountsAre(D, O) ==
    Num(flags["contracts_done"]) = Cardinality(D) /\ Num(flags["valves_opened"]) = Cardinality(O)

\* The gates, in terms of what the flags are worth.
GatesAre ==
    /\ Truthy("bypass") => \A v \in Valves : Marked(v)
    /\ Truthy("pass") <=> \A l \in Levers : Truthy(l)
    /\ flags["faction"] # "unset" => \A c \in Contracts : Truthy(c)
    /\ Truthy("repeatables") <=> flags["faction"] # "unset"
    /\ flags["board"] = "repeatables" <=> Truthy("repeatables")
    /\ Truthy("sewers") <=> flags["faction"] \in {"civic", "industrial"}
    /\ Truthy("quarry") <=> flags["faction"] \in {"industrial", "green"}
    /\ Truthy(ClinicJob) => Truthy("slip")

LEMMA QuestParted ==
    /\ QuestIInv => QuestTypeOK /\ (~tampered => CountsAre(Done, Opened) /\ GatesAre)
    /\ QuestTypeOK' /\ (~tampered' => (CountsAre(Done, Opened) /\ GatesAre)') => QuestIInv'
  BY DEF QuestIInv, CountersCount, GatesAreEarned, CountsAre, GatesAre, Done, Opened

LEMMA TypeKept ==
    ASSUME QuestTypeOK, DOMAIN flags' = Keys, tampered' \in BOOLEAN,
           \A k \in Keys : flags'[k] \in Texts
    PROVE  QuestTypeOK'
  BY DEF QuestTypeOK

LEMMA TextsHave ==
    {"0", "1", "2", "3", "unset", "no", "yes", "civic", "industrial", "green", "contract",
     "repeatables"} \subseteq Texts
  BY DEF Texts, Digits

\* What no command takes back, apart from `quest`.
NotUndone ==
    flags' # flags /\ tampered' = tampered =>
        /\ \A k \in Keys \ {"board"} : Truthy(k) => Truthy(k)'
        /\ \A k \in {"contracts_done", "valves_opened"} :
              tampered \/ Num(flags[k]) <= Num(flags'[k])

LEMMA ContractKeeps ==
    ASSUME QuestIInv, NEW c \in Contracts, CompleteContract(c)
    PROVE  QuestIInv' /\ NotUndone
<1> DEFINE most == Cardinality(Contracts)
           n    == NextCount("contracts_done", most)
<1>1. QuestTypeOK /\ (~tampered => CountsAre(Done, Opened) /\ GatesAre)
  BY QuestParted
<1>2. /\ DOMAIN flags' = Keys /\ tampered' = tampered
      /\ flags'[c] = "1"
      /\ flags'["contracts_done"] = Text(n)
      /\ flags'["board"] = IF flags["board"] \in {"unset", "contract"} THEN "contract"
                           ELSE flags["board"]
      /\ \A k \in Keys \ {c, "contracts_done", "board"} : flags'[k] = flags[k]
  BY ContractWrites
<1>3. ~Truthy(c) /\ (c = ClinicJob => Truthy("slip"))
  BY DEF CompleteContract
<1>4. /\ n \in 1..3
      /\ Num(flags["contracts_done"]) < most => n = Num(flags["contracts_done"]) + 1
  BY HowMany, NumIsNat, CountIs
<1> HIDE DEF n, most
<1>5. Text(n) \in {"1", "2", "3"} /\ Num(Text(n)) = n
  <2>1. n \in 0..3 /\ n # 0
    BY <1>4
  <2> QED
    BY <2>1, TextIs
<1>6. QuestTypeOK'
  BY <1>1, <1>2, <1>5, TypeKept, TextsHave DEF QuestTypeOK
<1>7. ~tampered => /\ Num(flags["contracts_done"]) < most
                   /\ Cardinality(Done') = Cardinality(Done) + 1 /\ Opened' = Opened
  <2> SUFFICES ASSUME ~tampered
      PROVE /\ Num(flags["contracts_done"]) < most
            /\ Cardinality(Done') = Cardinality(Done) + 1 /\ Opened' = Opened
    OBVIOUS
  <2>1. Done \in SUBSET Contracts /\ c \in Contracts \ Done
    BY <1>3 DEF Done
  <2>2. Done' = Done \cup {c}
    <3>1. \A x \in Contracts : Truthy(x)' <=> Truthy(x) \/ x = c
      <4> SUFFICES ASSUME NEW x \in Contracts PROVE Truthy(x)' <=> Truthy(x) \/ x = c
        OBVIOUS
      <4>1. x \in Keys /\ x # "contracts_done" /\ x # "board"
        BY KeysApart DEF Named
      <4> QED
        BY <1>2, <4>1, TruthyIs, TrueTexts
    <3> QED
      BY <3>1 DEF Done
  <2>3. Opened' = Opened
    <3>1. \A x \in Valves : Marked(x)' <=> Marked(x)
      <4> SUFFICES ASSUME NEW x \in Valves PROVE Marked(x)' <=> Marked(x)
        OBVIOUS
      <4>1. x \in Keys /\ x # "contracts_done" /\ x # "board" /\ x # c
        BY KeysApart DEF Named
      <4> QED
        BY <1>2, <4>1, MarkedIs
    <3> QED
      BY <3>1 DEF Opened
  <2>4. Cardinality(Done) < most /\ Cardinality(Done \cup {c}) = Cardinality(Done) + 1
    BY <2>1, HowMany, OneMore DEF most
  <2> QED
    BY <1>1, <2>2, <2>3, <2>4 DEF CountsAre
<1>8. ~tampered => CountsAre(Done, Opened)'
  <2>1. "valves_opened" \in Keys /\ c # "valves_opened"
    BY KeysApart DEF Named
  <2> QED
    BY <1>1, <1>2, <1>4, <1>5, <1>7, <2>1 DEF CountsAre
<1>9. ~tampered => GatesAre'
  <2> SUFFICES ASSUME ~tampered PROVE GatesAre'
    OBVIOUS
  <2>1. /\ \A k \in Keys \ {"contracts_done", "board"} : Truthy(k)' <=> Truthy(k) \/ k = c
        /\ \A v \in Valves : Marked(v)' <=> Marked(v)
    <3>1. \A v \in Valves : v # "contracts_done" /\ v # "board" /\ v # c /\ v \in Keys
      BY KeysApart DEF Named
    <3> QED
      BY <1>2, <3>1, TruthyIs, MarkedIs, TrueTexts
  <2>2. /\ \A k \in {"bypass", "pass", "repeatables", "sewers", "quarry", "slip", "faction"} :
              k \in Keys \ {"contracts_done", "board"} /\ k # c
        /\ \A k \in Contracts \cup Levers : k \in Keys \ {"contracts_done", "board"}
        /\ \A l \in Levers : l # c
    BY KeysApart DEF Named
  <2>3. flags'["faction"] = flags["faction"]
    BY <1>2, <2>2
  <2>4. flags'["board"] = "repeatables" <=> flags["board"] = "repeatables"
    BY <1>2
  <2> QED
    BY <1>1, <1>3, <2>1, <2>2, <2>3, <2>4, KeysApart DEF GatesAre
<1>10. NotUndone
  <2>1. \A k \in Keys \ {"board"} : Truthy(k) => Truthy(k)'
    BY <1>2, <1>5, TruthyIs, TrueTexts
  <2>2. flags'["valves_opened"] = flags["valves_opened"]
    BY <1>2, KeysApart DEF Named
  <2>3. ~tampered => Num(flags["contracts_done"]) <= Num(flags'["contracts_done"])
    BY <1>2, <1>4, <1>5, <1>7, NumIsNat
  <2>4. Num(flags["valves_opened"]) <= Num(flags'["valves_opened"])
    BY <2>2, NumIsNat
  <2> QED
    BY <2>1, <2>3, <2>4 DEF NotUndone
<1> QED
  BY <1>2, <1>6, <1>8, <1>9, <1>10, QuestParted

LEMMA ValveKeeps ==
    ASSUME QuestIInv, NEW v \in Valves, TurnValve(v)
    PROVE  QuestIInv' /\ NotUndone
<1> DEFINE most == Cardinality(Valves)
           n    == NextCount("valves_opened", most)
<1>1. QuestTypeOK /\ (~tampered => CountsAre(Done, Opened) /\ GatesAre)
  BY QuestParted
<1>2. /\ DOMAIN flags' = Keys /\ tampered' = tampered
      /\ flags'[v] = "1"
      /\ flags'["valves_opened"] = Text(n)
      /\ \A k \in Keys \ {v, "valves_opened"} : flags'[k] = flags[k]
  BY ValveWrites
<1>3. ~Marked(v)
  BY DEF TurnValve
<1>4. /\ n \in 1..3
      /\ Num(flags["valves_opened"]) < most => n = Num(flags["valves_opened"]) + 1
  BY HowMany, NumIsNat, CountIs
<1> HIDE DEF n, most
<1>5. Text(n) \in {"1", "2", "3"} /\ Num(Text(n)) = n
  <2>1. n \in 0..3 /\ n # 0
    BY <1>4
  <2> QED
    BY <2>1, TextIs
<1>6. QuestTypeOK'
  BY <1>1, <1>2, <1>5, TypeKept, TextsHave DEF QuestTypeOK
<1>7. \A k \in Keys \ {"valves_opened"} :
         /\ k # v => flags'[k] = flags[k] /\ (Truthy(k)' <=> Truthy(k)) /\ (Marked(k)' <=> Marked(k))
         /\ k = v => Truthy(k)' /\ Marked(k)'
  BY <1>2, TruthyIs, MarkedIs, TrueTexts
<1>8. /\ \A k \in {"bypass", "pass", "repeatables", "sewers", "quarry", "slip", "faction", "board",
                   "contracts_done"} : k \in Keys \ {"valves_opened"} /\ k # v
      /\ \A k \in Contracts \cup Levers : k \in Keys \ {"valves_opened"} /\ k # v
      /\ \A k \in Valves : k \in Keys \ {"valves_opened"}
  BY KeysApart DEF Named
<1>9. ~tampered => /\ Num(flags["valves_opened"]) < most
                   /\ Cardinality(Opened') = Cardinality(Opened) + 1 /\ Done' = Done
  <2> SUFFICES ASSUME ~tampered
      PROVE /\ Num(flags["valves_opened"]) < most
            /\ Cardinality(Opened') = Cardinality(Opened) + 1 /\ Done' = Done
    OBVIOUS
  <2>1. Opened \in SUBSET Valves /\ v \in Valves \ Opened
    BY <1>3 DEF Opened
  <2>2. Opened' = Opened \cup {v} /\ Done' = Done
    BY <1>7, <1>8 DEF Opened, Done
  <2>3. Cardinality(Opened) < most /\ Cardinality(Opened \cup {v}) = Cardinality(Opened) + 1
    BY <2>1, HowMany, OneMore DEF most
  <2> QED
    BY <1>1, <2>2, <2>3 DEF CountsAre
<1>10. ~tampered => CountsAre(Done, Opened)'
  BY <1>1, <1>2, <1>4, <1>5, <1>7, <1>8, <1>9 DEF CountsAre
<1>11. ~tampered => GatesAre'
  <2> SUFFICES ASSUME ~tampered PROVE GatesAre'
    OBVIOUS
  <2>1. (\A x \in Valves : Marked(x)) => (\A x \in Valves : Marked(x)')
    BY <1>7, <1>8
  <2> QED
    BY <1>1, <1>7, <1>8, <2>1, KeysApart DEF GatesAre
<1>12. NotUndone
  <2>1. \A k \in Keys \ {"board"} : Truthy(k) => Truthy(k)'
    BY <1>2, <1>5, TruthyIs, TrueTexts
  <2>2. ~tampered => Num(flags["valves_opened"]) <= Num(flags'["valves_opened"])
    BY <1>2, <1>4, <1>5, <1>9, NumIsNat
  <2>3. Num(flags["contracts_done"]) <= Num(flags'["contracts_done"])
    BY <1>7, <1>8, NumIsNat
  <2> QED
    BY <2>1, <2>2, <2>3 DEF NotUndone
<1> QED
  BY <1>2, <1>6, <1>10, <1>11, <1>12, QuestParted

\* A step that leaves the counters and what they count alone.
LEMMA SameCounts ==
    ASSUME QuestIInv, tampered' = tampered,
           \A k \in Contracts \cup Valves \cup {"contracts_done", "valves_opened"} :
               flags'[k] = flags[k]
    PROVE  ~tampered => CountsAre(Done, Opened)'
<1>1. ~tampered => CountsAre(Done, Opened)
  BY QuestParted
<1>2. Done' = Done /\ Opened' = Opened
  BY TruthyIs, MarkedIs DEF Done, Opened
<1> QED
  BY <1>1, <1>2 DEF CountsAre

LEMMA ClinicKeeps ==
    ASSUME QuestIInv, VisitClinic
    PROVE  QuestIInv' /\ NotUndone
<1>1. QuestTypeOK /\ (~tampered => CountsAre(Done, Opened) /\ GatesAre)
  BY QuestParted
<1>2. /\ DOMAIN flags' = Keys /\ tampered' = tampered /\ flags'["slip"] = "1"
      /\ \A k \in Keys \ {"slip"} : flags'[k] = flags[k]
  BY ClinicWrites
<1>3. QuestTypeOK'
  BY <1>1, <1>2, TypeKept, TextsHave DEF QuestTypeOK
<1>4. /\ \A k \in {"bypass", "pass", "repeatables", "sewers", "quarry", "faction", "board",
                   "contracts_done", "valves_opened"} : k \in Keys \ {"slip"}
      /\ \A k \in Contracts \cup Levers \cup Valves : k \in Keys \ {"slip"}
  BY KeysApart DEF Named
<1>5. /\ \A k \in Keys \ {"slip"} : (Truthy(k)' <=> Truthy(k)) /\ (Marked(k)' <=> Marked(k))
      /\ Truthy("slip")'
  BY <1>2, TruthyIs, MarkedIs, TrueTexts
<1>6. ~tampered => CountsAre(Done, Opened)'
  BY <1>2, <1>4, SameCounts
<1>7. ~tampered => GatesAre'
  BY <1>1, <1>2, <1>4, <1>5, KeysApart DEF GatesAre
<1>8. NotUndone
  BY <1>2, <1>4, <1>5, NumIsNat DEF NotUndone
<1> QED
  BY <1>2, <1>3, <1>6, <1>7, <1>8, QuestParted

LEMMA BypassKeeps ==
    ASSUME QuestIInv, PullBypass
    PROVE  QuestIInv' /\ NotUndone
<1>1. QuestTypeOK /\ (~tampered => CountsAre(Done, Opened) /\ GatesAre)
  BY QuestParted
<1>2. /\ DOMAIN flags' = Keys /\ tampered' = tampered /\ flags'["bypass"] = "1"
      /\ \A k \in Keys \ {"bypass"} : flags'[k] = flags[k]
  BY BypassWrites
<1>3. QuestTypeOK'
  BY <1>1, <1>2, TypeKept, TextsHave DEF QuestTypeOK
<1>4. /\ \A k \in {"slip", "pass", "repeatables", "sewers", "quarry", "faction", "board",
                   "contracts_done", "valves_opened"} : k \in Keys \ {"bypass"}
      /\ \A k \in Contracts \cup Levers \cup Valves : k \in Keys \ {"bypass"}
  BY KeysApart DEF Named
<1>5. /\ \A k \in Keys \ {"bypass"} : (Truthy(k)' <=> Truthy(k)) /\ (Marked(k)' <=> Marked(k))
      /\ Truthy("bypass")'
  BY <1>2, TruthyIs, MarkedIs, TrueTexts
<1>6. ~tampered => CountsAre(Done, Opened)'
  BY <1>2, <1>4, SameCounts
<1>7. ~tampered => \A v \in Valves : Marked(v)
  <2> SUFFICES ASSUME ~tampered PROVE \A v \in Valves : Marked(v)
    OBVIOUS
  <2>1. Num(flags["valves_opened"]) = Cardinality(Opened)
    BY <1>1 DEF CountsAre
  <2>2. Opened \in SUBSET Valves
    BY DEF Opened
  <2>3. Cardinality(Opened) <= Cardinality(Valves)
    BY <2>2, HowMany, NotMore
  <2>4. Count("valves_opened", Cardinality(Valves)) = Num(flags["valves_opened"])
    BY <2>1, <2>3, HowMany, NumIsNat, CountIs
  <2>5. Cardinality(Opened) = Cardinality(Valves)
    BY <2>1, <2>4 DEF PullBypass
  <2> QED
    BY <2>2, <2>5, HowMany, AllOfIt DEF Opened
<1>8. ~tampered => GatesAre'
  BY <1>1, <1>2, <1>4, <1>5, <1>7, KeysApart DEF GatesAre
<1>9. NotUndone
  BY <1>2, <1>4, <1>5, NumIsNat DEF NotUndone
<1> QED
  BY <1>2, <1>3, <1>6, <1>8, <1>9, QuestParted

LEMMA FactionKeeps ==
    ASSUME QuestIInv, NEW f \in {"civic", "industrial", "green"}, ChooseFaction(f)
    PROVE  QuestIInv' /\ NotUndone
<1>1. QuestTypeOK /\ (~tampered => CountsAre(Done, Opened) /\ GatesAre)
  BY QuestParted
<1> DEFINE written == {"faction", "repeatables", "board", "sewers", "quarry"}
<1>2. /\ DOMAIN flags' = Keys /\ tampered' = tampered
      /\ flags'["faction"] = f /\ flags'["repeatables"] = "1" /\ flags'["board"] = "repeatables"
      /\ flags'["sewers"] = IF f \in {"civic", "industrial"} THEN "1" ELSE flags["sewers"]
      /\ flags'["quarry"] = IF f \in {"industrial", "green"} THEN "1" ELSE flags["quarry"]
      /\ \A k \in Keys \ written : flags'[k] = flags[k]
  BY FactionWrites
<1>3. flags["faction"] = "unset"
  BY DEF ChooseFaction
<1>4. /\ \A k \in {"slip", "pass", "bypass", "contracts_done", "valves_opened"} : k \in Keys \ written
      /\ \A k \in Contracts \cup Levers \cup Valves : k \in Keys \ written
      /\ written \subseteq Keys
  BY KeysApart DEF Named
<1>5. QuestTypeOK'
  BY <1>1, <1>2, <1>4, TypeKept, TextsHave DEF QuestTypeOK
<1>6. /\ \A k \in Keys \ written : (Truthy(k)' <=> Truthy(k)) /\ (Marked(k)' <=> Marked(k))
      /\ Truthy("repeatables")' /\ ~Truthy("faction")
      /\ Truthy("sewers")' <=> f \in {"civic", "industrial"} \/ Truthy("sewers")
      /\ Truthy("quarry")' <=> f \in {"industrial", "green"} \/ Truthy("quarry")
  BY <1>2, <1>3, TruthyIs, MarkedIs, TrueTexts
<1>7. ~tampered => CountsAre(Done, Opened)'
  BY <1>2, <1>4, SameCounts
<1>8. ~tampered => \A c \in Contracts : Truthy(c)
  <2> SUFFICES ASSUME ~tampered PROVE \A c \in Contracts : Truthy(c)
    OBVIOUS
  <2>1. Num(flags["contracts_done"]) = Cardinality(Done)
    BY <1>1 DEF CountsAre
  <2>2. Done \in SUBSET Contracts
    BY DEF Done
  <2>3. Cardinality(Done) <= Cardinality(Contracts)
    BY <2>2, HowMany, NotMore
  <2>4. Count("contracts_done", Cardinality(Contracts)) = Num(flags["contracts_done"])
    BY <2>1, <2>3, HowMany, NumIsNat, CountIs
  <2>5. Cardinality(Done) = Cardinality(Contracts)
    BY <2>1, <2>4 DEF ChooseFaction
  <2> QED
    BY <2>2, <2>5, HowMany, AllOfIt DEF Done
<1>9. ~tampered => GatesAre'
  <2> SUFFICES ASSUME ~tampered PROVE GatesAre'
    OBVIOUS
  <2>1. ~Truthy("sewers") /\ ~Truthy("quarry")
    BY <1>1, <1>3 DEF GatesAre
  <2>2. \A c \in Contracts : Truthy(c)'
    BY <1>4, <1>6, <1>8
  <2>3. Truthy("sewers")' <=> f \in {"civic", "industrial"}
    BY <1>6, <2>1
  <2>4. Truthy("quarry")' <=> f \in {"industrial", "green"}
    BY <1>6, <2>1
  <2> QED
    BY <1>1, <1>2, <1>4, <1>6, <2>2, <2>3, <2>4, KeysApart DEF GatesAre
<1>10. NotUndone
  <2>1. \A k \in Keys \ {"board"} : Truthy(k) => Truthy(k)'
    BY <1>6
  <2> QED
    BY <1>2, <1>4, <2>1, NumIsNat DEF NotUndone
<1> QED
  BY <1>2, <1>5, <1>7, <1>9, <1>10, QuestParted

LEMMA SwitchKeeps ==
    ASSUME QuestIInv, NEW l \in Levers, PullSwitch(l)
    PROVE  QuestIInv' /\ NotUndone
<1>1. QuestTypeOK /\ (~tampered => CountsAre(Done, Opened) /\ GatesAre)
  BY QuestParted
<1> DEFINE rest == \A x \in Levers \ {l} : Truthy(x)
<1>2. /\ DOMAIN flags' = Keys /\ tampered' = tampered
      /\ flags'[l] = IF Truthy(l) THEN flags[l] ELSE "1"
      /\ flags'["pass"] = IF rest /\ ~Truthy("pass") THEN "1" ELSE flags["pass"]
      /\ \A k \in Keys \ {l, "pass"} : flags'[k] = flags[k]
  BY SwitchWrites
<1>3. /\ \A k \in {"slip", "repeatables", "sewers", "quarry", "faction", "board", "bypass",
                   "contracts_done", "valves_opened"} : k \in Keys \ {l, "pass"}
      /\ \A k \in Contracts \cup Valves : k \in Keys \ {l, "pass"}
      /\ \A k \in Levers \ {l} : k \in Keys \ {l, "pass"}
      /\ l \in Keys /\ "pass" \in Keys
  BY KeysApart DEF Named
<1>4. QuestTypeOK'
  BY <1>1, <1>2, <1>3, TypeKept, TextsHave DEF QuestTypeOK
<1>5. /\ \A k \in Keys \ {l, "pass"} : (Truthy(k)' <=> Truthy(k)) /\ (Marked(k)' <=> Marked(k))
      /\ Truthy(l)'
      /\ Truthy("pass")' <=> Truthy("pass") \/ rest
  BY <1>2, TruthyIs, MarkedIs, TrueTexts
<1>6. ~tampered => CountsAre(Done, Opened)'
  BY <1>2, <1>3, SameCounts
<1>7. rest <=> \A x \in Levers : Truthy(x)'
  BY <1>3, <1>5
<1> HIDE DEF rest
<1>8. ~tampered => GatesAre'
  <2> SUFFICES ASSUME ~tampered PROVE GatesAre'
    OBVIOUS
  <2>1. Truthy("pass") => rest
    BY <1>1 DEF GatesAre, rest
  <2>2. Truthy("pass")' <=> \A x \in Levers : Truthy(x)'
    BY <1>5, <1>7, <2>1
  <2> QED
    BY <1>1, <1>2, <1>3, <1>5, <2>2, KeysApart DEF GatesAre
<1>9. NotUndone
  BY <1>2, <1>3, <1>5, NumIsNat DEF NotUndone
<1> QED
  BY <1>2, <1>4, <1>6, <1>8, <1>9, QuestParted

LEMMA TamperKeeps ==
    ASSUME QuestIInv, Tamper
    PROVE  QuestIInv' /\ NotUndone
<1>1. PICK k \in Keys, v \in {"unset", "no", "yes", "0", "3"} : Set([x \in {k} |-> v])
  BY DEF Tamper
<1>2. tampered' = TRUE /\ ~tampered
  BY DEF Tamper
<1>3. QuestTypeOK'
  <2>1. /\ DOMAIN flags' = Keys
        /\ \A x \in Keys : flags'[x] \in {v, flags[x]}
    BY <1>1 DEF Set
  <2>2. QuestTypeOK
    BY DEF QuestIInv
  <2> QED
    BY <1>2, <2>1, <2>2, TypeKept, TextsHave DEF QuestTypeOK
<1> QED
  BY <1>2, <1>3, QuestParted DEF NotUndone

LEMMA QuestStep ==
    ASSUME QuestIInv, [QuestNext]_questVars
    PROVE  QuestIInv' /\ NotUndone
<1>1. CASE UNCHANGED questVars
  BY <1>1 DEF questVars, QuestIInv, QuestTypeOK, CountersCount, GatesAreEarned, Truthy, Marked,
              NotUndone
<1> QED
  BY <1>1, ContractKeeps, ClinicKeeps, FactionKeeps, ValveKeeps, BypassKeeps, SwitchKeeps,
     TamperKeeps DEF QuestNext

LEMMA QuestStart == QuestInit => QuestIInv
<1> SUFFICES ASSUME QuestInit PROVE QuestIInv
  OBVIOUS
<1>1. DOMAIN flags = Keys /\ \A k \in Keys : flags[k] = "unset"
  BY DEF QuestInit
<1>2. QuestTypeOK
  BY <1>1, TextsHave DEF QuestInit, QuestTypeOK
<1>3. \A k \in Keys : ~Truthy(k) /\ ~Marked(k)
  BY <1>1, TruthyIs, MarkedIs, TrueTexts
<1>4. \A k \in Named \cup Contracts \cup Valves \cup Levers : k \in Keys
  BY DEF Keys
<1>5. /\ {c \in Contracts : Truthy(c)} = {} /\ {v \in Valves : Marked(v)} = {}
      /\ Cardinality({}) = 0
  BY <1>3, <1>4, FS_EmptySet
<1>6. \A k \in Named : ~Truthy(k) /\ flags[k] = "unset"
  BY <1>1, <1>3, <1>4
<1>7. CountersCount
  <2>1. Num(flags["contracts_done"]) = 0 /\ Num(flags["valves_opened"]) = 0
    BY <1>6, TextsAre DEF Named
  <2> QED
    BY <1>5, <2>1 DEF CountersCount
<1>8. GatesAreEarned
  <2>1. \A l \in Levers : ~Truthy(l)
    BY <1>3, <1>4
  <2>2. ~Truthy(ClinicJob)
    BY <1>3, <1>4, KeysApart
  <2> QED
    BY <1>6, <2>1, <2>2, KeysApart DEF GatesAreEarned, Named
<1> QED
  BY <1>2, <1>7, <1>8 DEF QuestIInv

(* The quest part of CharacterInv, for up to three contracts and valves and *)
(* any levers: counters count what was done, and every gate is earned.      *)
THEOREM QuestsHold == QuestSpec => [](QuestTypeOK /\ CountersCount /\ GatesAreEarned)
<1>1. QuestIInv => QuestTypeOK /\ CountersCount /\ GatesAreEarned
  BY DEF QuestIInv
<1>2. QuestIInv /\ [QuestNext]_questVars => QuestIInv'
  BY QuestStep
<1> QED
  BY <1>1, <1>2, QuestStart, PTL DEF QuestSpec

(* NothingIsUndone: no command or room but `quest` takes a flag back.       *)
THEOREM NothingIsUndoneHolds == QuestSpec => NothingIsUndone
<1>1. QuestIInv /\ [QuestNext]_questVars => QuestIInv' /\ [NotUndone]_questVars
  BY QuestStep
<1>2. [NotUndone]_questVars =>
      [flags' # flags /\ tampered' = tampered =>
         /\ \A k \in Keys \ {"board"} : Truthy(k) => Truthy(k)'
         /\ \A k \in {"contracts_done", "valves_opened"} :
               tampered \/ Num(flags[k]) <= Num(flags'[k])]_questVars
  BY DEF NotUndone
<1> QED
  BY <1>1, <1>2, QuestStart, PTL DEF QuestSpec, NothingIsUndone

-----------------------------------------------------------------------------
(* Groups.  What the store and the log hold, and what the entries of the    *)
(* log make of a store: replaying them in one go or in two is the same.     *)

Groups == [members : [MemberKeys -> Roles \cup {"none"}],
           policy : BOOLEAN, caps : [Roles -> SUBSET Caps]]
Stores == [Ids -> {NoGroup} \cup Groups]
Entries ==
    [t : {"create"}, id : Ids]
      \cup [t : {"member"}, id : Ids, key : MemberKeys, role : Roles \cup {"none"}]
      \cup [t : {"policy"}, id : Ids, on : BOOLEAN]
      \cup [t : {"caps"}, id : Ids, role : Roles, caps : SUBSET Caps]

LEMMA EmptyIsStore == EmptyStore \in Stores
  BY DEF EmptyStore, Stores

LEMMA NewIsGroup == ASSUME NEW id \in Ids PROVE NewGroup(id) \in Groups
  BY DEF NewGroup, Groups, DefaultCaps, Managing, Caps

\* An entry changes the group it names.
LEMMA ApplyType ==
    ASSUME NEW st \in Stores, NEW e \in Entries
    PROVE  /\ Apply(st, e) \in Stores
           /\ \A id \in Ids : id # e.id => Apply(st, e)[id] = st[id]
<1>0. e.id \in Ids /\ e.t \in {"create", "member", "policy", "caps"}
  BY DEF Entries
<1>1. CASE e.t = "create"
  <2>1. Apply(st, e) = [st EXCEPT ![e.id] = NewGroup(e.id)]
    BY <1>1 DEF Apply
  <2> QED
    BY <1>0, <2>1, NewIsGroup DEF Stores
<1>2. CASE e.t # "create" /\ ~Has(st, e.id)
  BY <1>2 DEF Apply
<1>3. CASE e.t = "member" /\ Has(st, e.id)
  <2>1. Apply(st, e) = [st EXCEPT ![e.id].members[e.key] = e.role]
    BY <1>3 DEF Apply
  <2>2. e.role \in Roles \cup {"none"} /\ e.key \in MemberKeys
    BY <1>3 DEF Entries
  <2>3. st[e.id] \in Groups
    BY <1>0, <1>3 DEF Stores, Has
  <2>4. [st[e.id] EXCEPT !.members[e.key] = e.role] \in Groups
    BY <2>2, <2>3 DEF Groups
  <2>5. Apply(st, e) = [st EXCEPT ![e.id] = [st[e.id] EXCEPT !.members[e.key] = e.role]]
    BY <2>1
  <2> QED
    BY <1>0, <2>4, <2>5 DEF Stores
<1>4. CASE e.t = "policy" /\ Has(st, e.id)
  <2>1. Apply(st, e) = [st EXCEPT ![e.id].policy = e.on]
    BY <1>4 DEF Apply
  <2>2. e.on \in BOOLEAN
    BY <1>4 DEF Entries
  <2>3. st[e.id] \in Groups
    BY <1>0, <1>4 DEF Stores, Has
  <2>4. [st[e.id] EXCEPT !.policy = e.on] \in Groups
    BY <2>2, <2>3 DEF Groups
  <2>5. Apply(st, e) = [st EXCEPT ![e.id] = [st[e.id] EXCEPT !.policy = e.on]]
    BY <2>1
  <2> QED
    BY <1>0, <2>4, <2>5 DEF Stores
<1>5. CASE e.t = "caps" /\ Has(st, e.id)
  <2>1. Apply(st, e) = [st EXCEPT ![e.id].caps[e.role] = e.caps]
    BY <1>5 DEF Apply
  <2>2. e.caps \in SUBSET Caps /\ e.role \in Roles
    BY <1>5 DEF Entries
  <2>3. st[e.id] \in Groups
    BY <1>0, <1>5 DEF Stores, Has
  <2>4. [st[e.id] EXCEPT !.caps[e.role] = e.caps] \in Groups
    BY <2>2, <2>3 DEF Groups
  <2>5. Apply(st, e) = [st EXCEPT ![e.id] = [st[e.id] EXCEPT !.caps[e.role] = e.caps]]
    BY <2>1
  <2> QED
    BY <1>0, <2>4, <2>5 DEF Stores
<1> QED
  BY <1>0, <1>1, <1>2, <1>3, <1>4, <1>5

\* The recursive function behind Applied exists and satisfies its equation.
LEMMA StoreAfterComputes ==
    ASSUME NEW st \in Stores, NEW s \in Seq(Entries)
    PROVE  /\ StoreAfter(st, s) \in [0..Len(s) -> Stores]
           /\ StoreAfter(st, s)[0] = st
           /\ \A i \in 1..Len(s) :
                StoreAfter(st, s)[i] = Apply(StoreAfter(st, s)[i - 1], s[i])
<1> DEFINE n == Len(s)
           step == [i \in 1..n |-> [v \in Stores |-> Apply(v, s[i])]]
<1>1. n \in Nat /\ \A i \in 1..n : s[i] \in Entries
  OBVIOUS
<1>3. /\ step \in [1..n -> [Stores -> Stores]]
      /\ \A i \in 1..n, v \in Stores : step[i][v] = Apply(v, s[i])
  BY <1>1, ApplyType
<1>4. StoreAfter(st, s) = CHOOSE f : f = [i \in 0..n |-> IF i = 0 THEN st ELSE Apply(f[i - 1], s[i])]
  BY DEF StoreAfter
<1> HIDE DEF step, n
<1>5. Steps(step, n, Stores)
  BY <1>3 DEF Steps
<1>6. PICK f : Iterates(f, step, n, Stores, st)
  BY <1>1, <1>5, IteratesExist
<1>7. f \in [0..n -> Stores] /\ f[0] = st /\ \A i \in 1..n : f[i] = Apply(f[i - 1], s[i])
  BY <1>1, <1>3, <1>6 DEF Iterates
<1>8. f = [i \in 0..n |-> IF i = 0 THEN st ELSE Apply(f[i - 1], s[i])]
  BY <1>1, <1>7
<1>9. StoreAfter(st, s) = [i \in 0..n |-> IF i = 0 THEN st ELSE Apply(StoreAfter(st, s)[i - 1], s[i])]
  BY <1>8, <1>4
<1> DEFINE g == StoreAfter(st, s)
<1>10. g[0] = st /\ \A i \in 1..n : g[i] = Apply(g[i - 1], s[i])
  BY <1>1, <1>9
<1> HIDE DEF g
<1>11. \A i \in 0..n : g[i] = f[i]
  <2>1. StayEqual(g, f, n)
    BY <1>7, <1>10 DEF StayEqual
  <2>2. g[0] = f[0]
    BY <1>7, <1>10
  <2> QED
    BY <1>1, <2>1, <2>2, IteratesAgree, Zenon
<1> QED
  BY <1>1, <1>7, <1>9, <1>10, <1>11 DEF g, n

LEMMA AppliedType ==
    ASSUME NEW st \in Stores, NEW s \in Seq(Entries)
    PROVE  Applied(st, s) \in Stores
<1>1. Len(s) \in 0..Len(s)
  OBVIOUS
<1> QED
  BY <1>1, StoreAfterComputes DEF Applied

\* Entries are applied one after the other, in one go or in two.
LEMMA AppliedConcat ==
    ASSUME NEW st \in Stores, NEW s \in Seq(Entries), NEW t \in Seq(Entries)
    PROVE  Applied(st, s \o t) = Applied(Applied(st, s), t)
<1> DEFINE st2 == Applied(st, s)
           r == s \o t
           m == Len(s)
           n == Len(t)
           whole == StoreAfter(st, r)
           f1 == StoreAfter(st, s)
           f2 == StoreAfter(st2, t)
           rest == [i \in 0..n |-> whole[m + i]]
<1>1. /\ m \in Nat /\ n \in Nat /\ r \in Seq(Entries) /\ Len(r) = m + n
      /\ \A i \in 1..m : r[i] = s[i]
      /\ \A i \in 1..n : r[m + i] = t[i]
  OBVIOUS
<1>2. st2 \in Stores
  BY AppliedType
<1> HIDE DEF st2, r
<1>3. whole[0] = st /\ \A i \in 1..m + n : whole[i] = Apply(whole[i - 1], r[i])
  <2>1. whole[0] = st /\ \A i \in 1..Len(r) : whole[i] = Apply(whole[i - 1], r[i])
    BY <1>1, StoreAfterComputes
  <2> HIDE DEF whole
  <2> QED
    BY <1>1, <2>1
<1>4. f1[0] = st /\ \A i \in 1..m : f1[i] = Apply(f1[i - 1], s[i])
  BY <1>1, StoreAfterComputes
<1>5. f2[0] = st2 /\ \A i \in 1..n : f2[i] = Apply(f2[i - 1], t[i])
  BY <1>1, <1>2, StoreAfterComputes
<1>6. st2 = f1[m] /\ Applied(st, r) = whole[m + n] /\ Applied(st2, t) = f2[n]
  BY <1>1 DEF Applied, st2
<1> HIDE DEF whole, f1, f2, m, n
<1>7. StayEqual(whole, f1, m)
  <2>1. \A i \in 1..m : i \in 1..m + n /\ r[i] = s[i]
    BY <1>1
  <2>2. \A i \in 1..m : whole[i] = Apply(whole[i - 1], r[i])
    BY <1>3, <2>1
  <2> QED
    BY <1>4, <2>1, <2>2 DEF StayEqual
<1>8. whole[0] = f1[0]
  BY <1>3, <1>4
<1> HIDE DEF rest
<1>9. \A i \in 0..m : whole[i] = f1[i]
  BY <1>1, <1>7, <1>8, IteratesAgree
<1>10. rest[0] = f2[0]
  BY <1>1, <1>5, <1>6, <1>9 DEF rest
<1>11. StayEqual(rest, f2, n)
  <2>1. ASSUME NEW i \in 1..n PROVE rest[i] = Apply(rest[i - 1], t[i])
    <3>1. m + i \in 1..m + n /\ r[m + i] = t[i] /\ (m + i) - 1 = m + (i - 1)
      <4>1. m \in Nat /\ n \in Nat /\ r[m + i] = t[i]
        BY <1>1
      <4> QED
        BY <4>1
    <3>2. whole[m + i] = Apply(whole[(m + i) - 1], r[m + i])
      BY <1>3, <3>1
    <3>3. rest[i] = whole[m + i] /\ rest[i - 1] = whole[m + (i - 1)]
      BY <1>1 DEF rest
    <3> QED
      BY <3>1, <3>2, <3>3
  <2> QED
    BY <1>5, <2>1 DEF StayEqual
<1>12. rest[n] = whole[m + n]
  BY <1>1 DEF rest
<1>13. \A i \in 0..n : rest[i] = f2[i]
  BY <1>1, <1>10, <1>11, IteratesAgree
<1>14. n \in 0..n
  BY <1>1
<1>15. Applied(st, r) = Applied(st2, t)
  BY <1>6, <1>12, <1>13, <1>14
<1> QED
  BY <1>15 DEF r, st2

\* Entries about one group leave the others as they are.
LEMMA OneApplied ==
    ASSUME NEW st \in Stores, NEW e \in Entries
    PROVE  /\ <<e>> \in Seq(Entries) /\ Len(<<e>>) = 1
           /\ Applied(st, <<e>>) = Apply(st, e)
<1> DEFINE s == <<e>>
<1>1. s \in Seq(Entries) /\ Len(s) = 1 /\ s[1] = e /\ 1 \in 1..Len(s) /\ 1 - 1 = 0
  OBVIOUS
<1> HIDE DEF s
<1>2. StoreAfter(st, s)[0] = st
  BY <1>1, StoreAfterComputes
<1>3. StoreAfter(st, s)[1] = Apply(StoreAfter(st, s)[1 - 1], s[1])
  BY <1>1, StoreAfterComputes
<1>4. StoreAfter(st, s)[1] = Apply(st, e)
  BY <1>1, <1>2, <1>3
<1> QED
  BY <1>1, <1>4 DEF Applied, s

LEMMA TwoApplied ==
    ASSUME NEW st \in Stores, NEW d \in Entries, NEW e \in Entries
    PROVE  /\ <<d, e>> \in Seq(Entries) /\ Len(<<d, e>>) = 2
           /\ Applied(st, <<d, e>>) = Apply(Apply(st, d), e)
<1> DEFINE s == <<d, e>>
<1>1. s \in Seq(Entries) /\ Len(s) = 2 /\ s[1] = d /\ s[2] = e
  OBVIOUS
<1> HIDE DEF s
<1>2. 1 \in 1..Len(s) /\ 2 \in 1..Len(s) /\ 1 - 1 = 0 /\ 2 - 1 = 1
  BY <1>1
<1>3. StoreAfter(st, s)[0] = st
  BY <1>1, StoreAfterComputes
<1>4. StoreAfter(st, s)[1] = Apply(StoreAfter(st, s)[1 - 1], s[1])
  BY <1>1, <1>2, StoreAfterComputes
<1>5. StoreAfter(st, s)[2] = Apply(StoreAfter(st, s)[2 - 1], s[2])
  BY <1>1, <1>2, StoreAfterComputes
<1>6. StoreAfter(st, s)[2] = Apply(Apply(st, d), e)
  BY <1>1, <1>2, <1>3, <1>4, <1>5
<1> QED
  BY <1>1, <1>6 DEF Applied, s

\* The entries a new world writes.
LEMMA GenesisEntries ==
    ASSUME NEW st \in Stores
    PROVE  Genesis(st) \in Seq(Entries)
<1> DEFINE admins == SetToSeq(Bootstrap)
           Missing(id) == IF Has(st, id) THEN <<>> ELSE <<Create(id)>>
           made == [i \in 1..Len(admins) |-> Member(Admins, Acct(admins[i]), "member")]
<1>1. admins \in [1..Cardinality(Bootstrap) -> Bootstrap] /\ Cardinality(Bootstrap) \in Nat
  <2>1. Cardinality(Bootstrap) \in Nat /\ ExistsBijection(1..Cardinality(Bootstrap), Bootstrap)
    BY GroupBounds, FS_CardinalityType
  <2>2. PICK g \in [1..Cardinality(Bootstrap) -> Bootstrap] : IsInjective(g)
    BY <2>1 DEF ExistsBijection, Bijection, Injection, Surjection, IsInjective
  <2>3. admins = CHOOSE h \in [1..Cardinality(Bootstrap) -> Bootstrap] : IsInjective(h)
    BY DEF SetToSeq
  <2> QED
    BY <2>1, <2>2, <2>3
<1>2. Len(admins) \in Nat /\ \A i \in 1..Len(admins) : admins[i] \in Bootstrap
  BY <1>1
<1>3. Admins \in Ids /\ Classes \in Ids
  BY DEF Ids
<1> HIDE DEF admins
<1>4. \A i \in 1..Len(admins) : Member(Admins, Acct(admins[i]), "member") \in Entries
  <2>1. \A i \in 1..Len(admins) : Acct(admins[i]) \in MemberKeys
    BY <1>2, GroupBounds DEF MemberKeys
  <2> QED
    BY <1>3, <2>1 DEF Entries, Member, Roles
<1>5. made \in Seq(Entries)
  BY <1>2, <1>4
<1>6. Missing(Admins) \in Seq(Entries) /\ Missing(Classes) \in Seq(Entries)
  <2>1. \A id \in Ids : Create(id) \in Entries
    BY DEF Create, Entries
  <2> QED
    BY <1>3, <2>1
<1>7. Genesis(st) = Missing(Admins) \o Missing(Classes) \o made
  BY DEF Genesis, admins
<1> HIDE DEF Missing, made
<1> QED
  BY <1>5, <1>6, <1>7

-----------------------------------------------------------------------------
(* The invariants.                                                          *)

\* While no write was cut short, the file ends with a newline and every line
\* is one entry.
LogIsWhole == ~cutShort => ~garbled /\ tail = "clean"

GroupTypes ==
    /\ running \in BOOLEAN /\ garbled \in BOOLEAN /\ cutShort \in BOOLEAN
    /\ store \in Stores
    /\ lines \in Seq(Entries)
    /\ tail \in {"clean", "open", "torn"}

GroupIInv == GroupTypes /\ StoreIsReplay /\ LogIsWhole

LEMMA CommitKeeps ==
    ASSUME GroupIInv, running, NEW entries \in Seq(Entries), Commit(entries)
    PROVE  GroupIInv'
<1> USE DEF Commit, Append2
<1>1. lines \o entries \in Seq(Entries) /\ Len(lines \o entries) = Len(lines) + Len(entries)
  BY DEF GroupIInv, GroupTypes
<1>2. store = Applied(EmptyStore, lines) /\ next = Len(lines) + 1
  BY DEF GroupIInv, StoreIsReplay, Replay
<1>3. store \in Stores /\ lines \in Seq(Entries)
  BY DEF GroupIInv, GroupTypes
<1>4. Applied(store, entries) = Replay(lines \o entries)
  BY <1>2, <1>3, EmptyIsStore, AppliedConcat DEF Replay
<1>5. GroupTypes'
  BY <1>1, <1>3, AppliedType DEF GroupIInv, GroupTypes
<1>6. StoreIsReplay'
  BY <1>1, <1>2, <1>3, <1>4 DEF StoreIsReplay
<1>7. LogIsWhole'
  BY DEF GroupIInv, LogIsWhole
<1> QED
  BY <1>5, <1>6, <1>7 DEF GroupIInv

\* What the commands write, and the group they write about.
LEMMA EntriesOf ==
    /\ \A id \in Ids, key \in MemberKeys, role \in Roles \cup {"none"} :
          Member(id, key, role) \in Entries /\ Member(id, key, role).id = id
    /\ \A id \in Ids : Create(id) \in Entries /\ Create(id).id = id
    /\ \A id \in Ids, on \in BOOLEAN : Policy(id, on) \in Entries /\ Policy(id, on).id = id
    /\ \A id \in Ids, role \in Roles, caps \in SUBSET Caps :
          RoleCaps(id, role, caps) \in Entries /\ RoleCaps(id, role, caps).id = id
  BY DEF Member, Create, Policy, RoleCaps, Entries

LEMMA KeysOf == \A n \in Names : Bare(n) \in MemberKeys /\ Acct(n) \in MemberKeys
  BY DEF MemberKeys

\* A command commits entries about one group, which somebody has a power over
\* or which does not exist yet.
CommitsAbout(entries, id) ==
    /\ entries \in Seq(Entries)
    /\ Commit(entries)
    /\ \A st \in Stores : \A other \in Ids \ {id} : Applied(st, entries)[other] = st[other]

Powered(id) == \E n \in Names : \E cap \in Managing : HasGroupCap(n, id, cap)

LEMMA OneEntry ==
    ASSUME NEW e \in Entries, NEW id, e.id = id, Commit(<<e>>)
    PROVE  CommitsAbout(<<e>>, id)
  BY OneApplied, ApplyType DEF CommitsAbout

LEMMA CommandCommits ==
    ASSUME NEW n \in Names,
           GroupCreate(n) \/ GroupAdd(n) \/ GroupRemove(n) \/ GroupPolicy(n) \/ GroupRoleCaps(n)
    PROVE  \E id \in Ids : \E entries :
              CommitsAbout(entries, id) /\ (Powered(id) \/ ~Has(store, id))
<1> USE EntriesOf, KeysOf, OneEntry
<1>p. {"group.member", "group.policy", "group.rolecaps"} \subseteq Managing
  BY DEF Managing, Caps
<1>1. CASE GroupCreate(n)
  <2>1. PICK id \in Ids : ~Has(store, id) /\ Commit(<<Create(id), Member(id, Bare(n), "owner")>>)
    BY <1>1, Zenon DEF GroupCreate
  <2> DEFINE d == Create(id)
             e == Member(id, Bare(n), "owner")
  <2>2. d \in Entries /\ e \in Entries /\ d.id = id /\ e.id = id
    BY DEF Roles
  <2> HIDE DEF d, e
  <2>3. ASSUME NEW st \in Stores, NEW other \in Ids \ {id}
        PROVE  Applied(st, <<d, e>>)[other] = st[other]
    <3>1. Applied(st, <<d, e>>) = Apply(Apply(st, d), e)
      BY <2>2, TwoApplied
    <3>2. Apply(st, d) \in Stores /\ Apply(st, d)[other] = st[other]
      BY <2>2, ApplyType, SMTT(30)
    <3>3. Apply(Apply(st, d), e)[other] = Apply(st, d)[other]
      BY <2>2, <3>2, ApplyType
    <3> QED
      BY <3>1, <3>2, <3>3
  <2>4. CommitsAbout(<<d, e>>, id)
    BY <2>1, <2>2, <2>3, TwoApplied DEF CommitsAbout, d, e
  <2> QED
    BY <2>1, <2>4
<1>2. CASE GroupAdd(n)
  <2>1. PICK id \in Ids, who \in Names, role \in GivenRoles :
           HasGroupCap(n, id, "group.member") /\ Commit(<<Member(id, Acct(who), role)>>)
    BY <1>2, Zenon DEF GroupAdd
  <2>2. CommitsAbout(<<Member(id, Acct(who), role)>>, id)
    BY <2>1, GroupBounds
  <2> QED
    BY <1>p, <2>1, <2>2 DEF Powered
<1>3. CASE GroupRemove(n)
  <2>1. PICK id \in Ids, who \in Names :
           HasGroupCap(n, id, "group.member") /\ Commit(<<Member(id, Acct(who), "none")>>)
    BY <1>3, Zenon DEF GroupRemove
  <2>2. CommitsAbout(<<Member(id, Acct(who), "none")>>, id)
    BY <2>1
  <2> QED
    BY <1>p, <2>1, <2>2 DEF Powered
<1>4. CASE GroupPolicy(n)
  <2>1. PICK id \in Ids, on \in BOOLEAN :
           HasGroupCap(n, id, "group.policy") /\ Commit(<<Policy(id, on)>>)
    BY <1>4, Zenon DEF GroupPolicy
  <2>2. CommitsAbout(<<Policy(id, on)>>, id)
    BY <2>1
  <2> QED
    BY <1>p, <2>1, <2>2 DEF Powered
<1>5. CASE GroupRoleCaps(n)
  <2>1. PICK id \in Ids, role \in GivenRoles, caps \in GivenCaps :
           HasGroupCap(n, id, "group.rolecaps") /\ Commit(<<RoleCaps(id, role, caps)>>)
    BY <1>5, Zenon DEF GroupRoleCaps
  <2>2. CommitsAbout(<<RoleCaps(id, role, caps)>>, id)
    BY <2>1, GroupBounds
  <2> QED
    BY <1>p, <2>1, <2>2 DEF Powered
<1> QED
  BY <1>1, <1>2, <1>3, <1>4, <1>5

LEMMA GroupStart == GroupInit => GroupIInv
<1> SUFFICES ASSUME GroupInit PROVE GroupIInv
  OBVIOUS
<1> USE DEF GroupInit
<1>1. GroupTypes
  <2>1. lines \in Seq(Entries)
    OBVIOUS
  <2> HIDE DEF Entries
  <2> QED
    BY <2>1, EmptyIsStore DEF GroupTypes
<1> QED
  BY <1>1 DEF GroupIInv, StoreIsReplay, LogIsWhole

LEMMA GroupStep ==
    ASSUME GroupIInv, GroupNext
    PROVE  GroupIInv'
<1>t. GroupTypes /\ StoreIsReplay /\ LogIsWhole
  BY DEF GroupIInv
<1>1. CASE \E n \in Names : GroupCommand(n)
  <2>1. PICK n \in Names : GroupCommand(n)
    BY <1>1
  <2>2. running
    BY <2>1 DEF GroupCommand
  <2>3. CASE WriteCutShort(n)
    <3>1. lines' \in Seq(Entries) /\ tail' \in {"clean", "open", "torn"}
      BY <1>t, <2>3, EntriesOf DEF WriteCutShort, GroupTypes
    <3>2. GroupTypes'
      BY <1>t, <2>3, <3>1 DEF WriteCutShort, GroupTypes
    <3> QED
      BY <2>3, <3>2 DEF WriteCutShort, GroupIInv, StoreIsReplay, LogIsWhole
  <2>4. CASE ~WriteCutShort(n)
    <3>1. PICK id \in Ids : \E entries : CommitsAbout(entries, id)
      BY <2>1, <2>4, CommandCommits, Zenon DEF GroupCommand
    <3>2. PICK entries : CommitsAbout(entries, id)
      BY <3>1
    <3> QED
      BY <2>2, <3>2, CommitKeeps DEF CommitsAbout
  <2> QED
    BY <2>3, <2>4
<1>2. CASE WorldEnds
  BY <1>t, <1>2 DEF WorldEnds, GroupIInv, GroupTypes, StoreIsReplay, LogIsWhole
<1>3. CASE WorldStarts
  <2> DEFINE replayed == Replay(lines)
             genesis == Genesis(replayed)
  <2>1. lines \in Seq(Entries) /\ replayed \in Stores
    BY <1>t, EmptyIsStore, AppliedType DEF GroupTypes, Replay
  <2> HIDE DEF replayed
  <2>2. genesis \in Seq(Entries)
    BY <2>1, GenesisEntries
  <2> HIDE DEF genesis
  <2>3. /\ running' = TRUE
        /\ lines' = lines \o genesis
        /\ garbled' = (genesis # <<>> /\ tail # "clean")
        /\ tail' = IF genesis = <<>> THEN tail ELSE "clean"
        /\ store' = Applied(replayed, genesis)
        /\ next' = Len(lines) + 1 + Len(genesis)
        /\ cutShort' = cutShort
    BY <1>3 DEF WorldStarts, replayed, genesis
  <2>4. lines \o genesis \in Seq(Entries) /\ Len(lines \o genesis) = Len(lines) + Len(genesis)
    BY <2>1, <2>2
  <2>5. Applied(replayed, genesis) = Replay(lines \o genesis)
    BY <2>1, <2>2, EmptyIsStore, AppliedConcat DEF Replay, replayed
  <2>6. GroupTypes'
    BY <1>t, <2>1, <2>2, <2>3, <2>4, AppliedType DEF GroupTypes
  <2>7. StoreIsReplay'
    BY <2>1, <2>2, <2>3, <2>4, <2>5 DEF StoreIsReplay
  <2>8. LogIsWhole'
    BY <1>t, <2>3 DEF LogIsWhole
  <2> QED
    BY <2>6, <2>7, <2>8 DEF GroupIInv
<1> QED
  BY <1>1, <1>2, <1>3 DEF GroupNext

\* The store of a running world is the replay of its log, with an index for
\* every line; the log can be read again unless a write was cut short.
THEOREM GroupInvHolds == GroupSpec => []GroupInv
<1>1. GroupIInv /\ [GroupNext]_groupVars => GroupIInv'
  <2>1. ASSUME GroupIInv, UNCHANGED groupVars PROVE GroupIInv'
    BY <2>1 DEF groupVars, GroupIInv, GroupTypes, StoreIsReplay, LogIsWhole
  <2> QED
    BY <2>1, GroupStep
<1>2. GroupIInv => GroupInv
  BY DEF GroupIInv, GroupInv, LogIsWhole, LogStaysReadable, Readable
<1> QED
  BY <1>1, <1>2, GroupStart, PTL DEF GroupSpec

\* Powers in a group grow only by a step of somebody with power over it, by
\* its creation, or by a new world.
THEOREM PowersAreGrantedHolds == GroupSpec => PowersAreGranted
<1> DEFINE Granted ==
      running /\ running' /\ store' # store =>
        \A id \in Ids : \A k \in MemberKeys :
            CapsIn(id, k)' \subseteq CapsIn(id, k)
            \/ ~Has(store, id)
            \/ \E n \in Names : \E cap \in Managing : HasGroupCap(n, id, cap)
<1>1. GroupIInv /\ [GroupNext]_groupVars => GroupIInv'
  <2>1. ASSUME GroupIInv, UNCHANGED groupVars PROVE GroupIInv'
    BY <2>1 DEF groupVars, GroupIInv, GroupTypes, StoreIsReplay, LogIsWhole
  <2> QED
    BY <2>1, GroupStep
<1>2. ASSUME GroupIInv, GroupNext PROVE Granted
  <2> SUFFICES ASSUME running, running', NEW id \in Ids, NEW k \in MemberKeys
               PROVE  CapsIn(id, k)' \subseteq CapsIn(id, k) \/ ~Has(store, id) \/ Powered(id)
    BY DEF Powered
  <2>1. PICK n \in Names : GroupCommand(n) /\ ~WriteCutShort(n)
    BY <1>2 DEF GroupNext, WorldEnds, WorldStarts, WriteCutShort
  <2>2. PICK about \in Ids : \E entries :
           CommitsAbout(entries, about) /\ (Powered(about) \/ ~Has(store, about))
    BY <2>1, CommandCommits, Zenon DEF GroupCommand
  <2>3. CASE about = id
    BY <2>2, <2>3
  <2>4. CASE about # id
    <3>1. PICK entries : CommitsAbout(entries, about)
      BY <2>2
    <3>2. store' = Applied(store, entries) /\ store \in Stores
      BY <1>2, <3>1 DEF CommitsAbout, Commit, Append2, GroupIInv, GroupTypes
    <3>3. store'[id] = store[id]
      BY <2>4, <3>1, <3>2 DEF CommitsAbout
    <3>4. CapsIn(id, k)' = CapsIn(id, k)
      BY <3>3 DEF CapsIn, RoleIn, Has
    <3> QED
      BY <3>4
  <2> QED
    BY <2>3, <2>4
<1>3. GroupIInv /\ [GroupNext]_groupVars => [Granted]_groupVars
  BY <1>2
<1> QED
  BY <1>1, <1>3, GroupStart, PTL DEF GroupSpec, PowersAreGranted

-----------------------------------------------------------------------------
(* Character sheets.  A level is worth one more point and so much more      *)
(* experience; some level is right for any experience.                      *)

Sheets == [level : Nat \ {0}, xp : Nat, points : Nat, rank : Nat, mana : Nat,
           isBot : BOOLEAN, everBot : BOOLEAN]

SheetOK(s) ==
    /\ s \in Sheets
    /\ s.xp < XpNeeded(s.level)
    /\ s.mana <= MaxMana(s.level)
    /\ s.rank <= MaxRank
    /\ s.points + s.rank = s.level - 1

LEMMA Amounts ==
    /\ XpPerMob \in Nat /\ ManaBase \in Nat /\ Cooldown \in Nat
    /\ XpUnit \in Nat /\ XpUnit > 0 /\ ManaCost \in Nat /\ ManaEvery \in Nat /\ ManaEvery > 0
    /\ MaxRank \in Nat
  BY SheetBounds

\* What the levels below take grows by what the level takes.
LEMMA XpBelowGrows ==
    ASSUME NEW n \in Nat
    PROVE  /\ XpBelow(n) \in Int
           /\ XpBelow(n + 1) = XpBelow(n) + XpNeeded(n)
<1> DEFINE k == n * (n - 1)
<1>1. k \in Int
  OBVIOUS
<1>2. (n + 1) * ((n + 1) - 1) = k + 2 * n
  OBVIOUS
<1> HIDE DEF k
<1>3. (k + 2 * n) \div 2 = (k \div 2) + n /\ k \div 2 \in Int
  BY <1>1
<1>4. XpUnit \in Int
  BY Amounts
<1>5. XpBelow(n) = XpUnit * (k \div 2) /\ XpBelow(n + 1) = XpUnit * ((k \div 2) + n)
  BY <1>2, <1>3 DEF XpBelow, k
<1> DEFINE q == k \div 2
<1> HIDE DEF q
<1>6. XpUnit * (q + n) = XpUnit * q + XpUnit * n /\ XpUnit * q \in Int
  BY <1>3, <1>4 DEF q
<1> QED
  BY <1>5, <1>6 DEF q, XpNeeded

\* Every level from the first takes at least one.
LEMMA XpBelowAtLeast ==
    ASSUME NEW l \in Nat \ {0}, NEW k \in Nat
    PROVE  XpBelow(l + k) >= XpBelow(l) + k
<1> DEFINE T == {i \in Nat : XpBelow(l + i) >= XpBelow(l) + i}
<1>1. 0 \in T
  <2>1. XpBelow(l) \in Int /\ l + 0 = l
    BY XpBelowGrows
  <2> QED
    BY <2>1
<1>2. ASSUME NEW i \in Nat, i \in T PROVE i + 1 \in T
  <2>1. l + i \in Nat /\ l + i > 0 /\ l + (i + 1) = (l + i) + 1
    OBVIOUS
  <2>2. /\ XpBelow(l + i) \in Int /\ XpBelow(l) \in Int
        /\ XpBelow((l + i) + 1) = XpBelow(l + i) + XpNeeded(l + i)
    BY <2>1, XpBelowGrows
  <2>3. XpNeeded(l + i) \in Nat /\ XpNeeded(l + i) >= 1
    <3> DEFINE m == l + i
    <3>1. m \in Nat /\ m >= 1
      BY <2>1
    <3> HIDE DEF m
    <3>2. XpUnit * m \in Nat /\ XpUnit * m >= 1
      BY <3>1, Amounts
    <3> QED
      BY <3>2 DEF XpNeeded, m
  <2>4. XpBelow(l + i) >= XpBelow(l) + i
    BY <1>2
  <2>5. XpBelow(l + (i + 1)) >= XpBelow(l) + (i + 1)
    BY <2>1, <2>2, <2>3, <2>4
  <2> QED
    BY <2>5
<1> HIDE DEF T
<1>3. k \in T
  BY <1>1, <1>2, Induction
<1> QED
  BY <1>3 DEF T

\* The level that award_xp_one arrives at.
LEMMA LevelIsReached ==
    ASSUME NEW l \in Nat \ {0}, NEW gain \in Nat
    PROVE  \E n \in l..(l + gain) :
              XpBelow(n) <= XpBelow(l) + gain /\ XpBelow(l) + gain < XpBelow(n + 1)
<1> DEFINE all == XpBelow(l) + gain
           T == {n \in Nat : n >= l /\ all < XpBelow(n + 1)}
<1>1. XpBelow(l) \in Int
  BY XpBelowGrows
<1>2. l + gain \in T
  <2>1. XpBelow(l + (gain + 1)) >= XpBelow(l) + (gain + 1)
    BY XpBelowAtLeast
  <2>2. (l + gain) + 1 = l + (gain + 1) /\ l + gain \in Nat /\ l + (gain + 1) \in Nat
    OBVIOUS
  <2>3. XpBelow(l + (gain + 1)) \in Int
    BY <2>2, XpBelowGrows
  <2> QED
    BY <1>1, <2>1, <2>2, <2>3
<1>3. PICK n \in T : \A y \in T : n <= y
  <2> HIDE DEF T
  <2>1. T \in SUBSET Nat
    BY DEF T
  <2> QED
    BY <1>2, <2>1, LeastNumber
<1>4. n \in l..(l + gain)
  <2>1. n <= l + gain
    BY <1>2, <1>3
  <2> QED
    BY <2>1
<1>5. XpBelow(n) <= all
  <2>1. CASE n = l
    BY <1>1, <2>1
  <2>2. CASE n # l
    <3>1. n - 1 \in Nat /\ n - 1 >= l /\ ~(n <= n - 1) /\ (n - 1) + 1 = n
      BY <1>4, <2>2
    <3>2. n - 1 \notin T
      BY <1>3, <3>1
    <3>3. ~(all < XpBelow(n))
      BY <3>1, <3>2
    <3>4. XpBelow(n) \in Int
      BY <3>1, XpBelowGrows
    <3> QED
      BY <1>1, <3>3, <3>4
  <2> QED
    BY <2>1, <2>2
<1> QED
  BY <1>3, <1>4, <1>5

Earned(s) == XpBelow(s.level) + s.xp

\* Experience raises the level it is good for, one point with each level.
LEMMA LevelledIs ==
    ASSUME NEW s, SheetOK(s), NEW gain \in Nat
    PROVE  /\ SheetOK(Levelled(s, gain))
           /\ Earned(Levelled(s, gain)) = Earned(s) + gain
           /\ Levelled(s, gain).isBot = s.isBot /\ Levelled(s, gain).everBot = s.everBot
<1> DEFINE all   == XpBelow(s.level) + s.xp + gain
           level == CHOOSE n \in s.level..(s.level + s.xp + gain) :
                       XpBelow(n) <= all /\ all < XpBelow(n + 1)
<1>1. s.level \in Nat \ {0} /\ s.xp \in Nat /\ s.points \in Nat /\ s.rank \in Nat /\ s.mana \in Nat
  BY DEF SheetOK, Sheets
<1>2. XpBelow(s.level) \in Int
  BY <1>1, XpBelowGrows
<1>3. \E n \in s.level..(s.level + (s.xp + gain)) :
         XpBelow(n) <= XpBelow(s.level) + (s.xp + gain) /\ XpBelow(s.level) + (s.xp + gain) < XpBelow(n + 1)
  <2>1. s.xp + gain \in Nat
    BY <1>1
  <2> QED
    BY <1>1, <2>1, LevelIsReached
<1>4. /\ level \in s.level..(s.level + s.xp + gain)
      /\ XpBelow(level) <= all /\ all < XpBelow(level + 1)
  <2>1. /\ s.level + (s.xp + gain) = s.level + s.xp + gain
        /\ XpBelow(s.level) + (s.xp + gain) = all
    BY <1>1, <1>2
  <2>2. \E n \in s.level..(s.level + s.xp + gain) : XpBelow(n) <= all /\ all < XpBelow(n + 1)
    BY <1>3, <2>1
  <2> HIDE DEF all
  <2> QED
    BY <2>2
<1>5. Levelled(s, gain) = [s EXCEPT !.level = level, !.xp = all - XpBelow(level),
                                    !.points = @ + level - s.level]
  BY DEF Levelled
<1>6. all \in Int
  BY <1>1, <1>2
<1> HIDE DEF level, all
<1>7. level \in Nat \ {0} /\ level >= s.level
  BY <1>1, <1>4
<1>8. XpBelow(level) \in Int /\ XpBelow(level + 1) = XpBelow(level) + XpNeeded(level)
  BY <1>7, XpBelowGrows
<1>9. XpNeeded(level) \in Int
  BY <1>7, Amounts DEF XpNeeded
<1>10. all - XpBelow(level) \in Nat /\ all - XpBelow(level) < XpNeeded(level)
  BY <1>4, <1>6, <1>8, <1>9
<1>11. s.points + level - s.level \in Nat
       /\ (s.points + level - s.level) + s.rank = level - 1
  BY <1>1, <1>7 DEF SheetOK
<1> DEFINE r == Levelled(s, gain)
<1>12. /\ r.level = level /\ r.xp = all - XpBelow(level) /\ r.points = s.points + level - s.level
       /\ r.rank = s.rank /\ r.mana = s.mana /\ r.isBot = s.isBot /\ r.everBot = s.everBot
       /\ r \in Sheets
  BY <1>5, <1>7, <1>10, <1>11 DEF SheetOK, Sheets
<1> HIDE DEF r
<1>13. s.mana <= MaxMana(level)
  BY <1>1, <1>7, Amounts DEF SheetOK, MaxMana
<1>14. SheetOK(r)
  BY <1>10, <1>11, <1>12, <1>13 DEF SheetOK
<1>15. Earned(r) = all
  BY <1>6, <1>8, <1>12 DEF Earned
<1>16. all = Earned(s) + gain
  BY <1>1, <1>2 DEF all, Earned
<1> QED
  BY <1>12, <1>14, <1>15, <1>16 DEF r

-----------------------------------------------------------------------------
(* What the characters have earned together.  The sum is a fold: a function *)
(* on the sets of characters, each worth one of its members and the rest.   *)

Sums(sh) ==
    LET it[s \in SUBSET Heroes] ==
            IF s = {} THEN 0
            ELSE LET x == CHOOSE x \in s : TRUE
                 IN  Earned(sh[x]) + it[s \ {x}]
    IN it

FirstOf(s) == CHOOSE x \in s : TRUE

\* The fold has its equation.
LEMMA SumsCompute ==
    ASSUME NEW sh, \A h \in Heroes : SheetOK(sh[h])
    PROVE  \A s \in SUBSET Heroes :
              Sums(sh)[s] = IF s = {} THEN 0
                            ELSE Earned(sh[FirstOf(s)]) + Sums(sh)[s \ {FirstOf(s)}]
<1> USE DEF FirstOf
<1> DEFINE g == [h \in Heroes |-> Earned(sh[h])]
           First(s) == CHOOSE x \in s : TRUE
           Eqn(it) == [s \in SUBSET Heroes |->
                         IF s = {} THEN 0 ELSE Earned(sh[First(s)]) + it[s \ {First(s)}]]
<1>1. g \in [Heroes -> Int]
  <2>1. \A h \in Heroes : Earned(sh[h]) \in Int
    BY XpBelowGrows DEF Earned, SheetOK, Sheets
  <2> QED
    BY <2>1
<1>2. PICK it \in [SUBSET Heroes -> Int] : it = [s \in SUBSET Heroes |-> SumFrom(g, it, s)]
  <2> HIDE DEF g
  <2> QED
    BY <1>1, SumExists, SheetBounds DEF IsSum
<1>3. \A s \in SUBSET Heroes : s # {} => First(s) \in Heroes /\ First(s) \in s
  OBVIOUS
<1>4. ASSUME NEW s \in SUBSET Heroes
      PROVE  SumFrom(g, it, s) = IF s = {} THEN 0 ELSE Earned(sh[First(s)]) + it[s \ {First(s)}]
  BY <1>3 DEF SumFrom
<1>5. it = Eqn(it)
  <2> HIDE DEF g
  <2> QED
    BY <1>2, <1>4
<1>6. Sums(sh) = CHOOSE f : f = Eqn(f)
  BY DEF Sums
<1> HIDE DEF Eqn
<1>7. Sums(sh) = Eqn(Sums(sh))
  BY <1>5, <1>6
<1> DEFINE f == Sums(sh)
<1>8. f = Eqn(f)
  BY <1>7
<1> HIDE DEF f
<1>9. \A s \in SUBSET Heroes : f[s] = IF s = {} THEN 0 ELSE Earned(sh[First(s)]) + f[s \ {First(s)}]
  BY <1>8 DEF Eqn
<1> QED
  BY <1>9 DEF f

\* From one sheet to the other, the members of a party earn a share, and one
\* of them the rest.
Shared(sh, th, party, first, share, rest) ==
    /\ \A h \in Heroes : SheetOK(sh[h]) /\ SheetOK(th[h])
    /\ \A h \in Heroes :
          Earned(th[h]) = Earned(sh[h]) + (IF h \notin party THEN 0
                            ELSE share + (IF h = first THEN rest ELSE 0))

\* The sum grows by the shares and the rest.
LEMMA SumsGrow ==
    ASSUME NEW sh, NEW th, NEW party \in SUBSET Heroes, NEW first \in party,
           NEW share \in Nat, NEW rest \in Nat, Shared(sh, th, party, first, share, rest)
    PROVE  /\ Sums(sh)[Heroes] \in Int
           /\ Sums(th)[Heroes] = Sums(sh)[Heroes] + share * Cardinality(party) + rest
<1>0. /\ \A h \in Heroes : SheetOK(sh[h])
      /\ \A h \in Heroes : SheetOK(th[h])
      /\ \A h \in Heroes :
            Earned(th[h]) = Earned(sh[h]) + (IF h \notin party THEN 0
                              ELSE share + (IF h = first THEN rest ELSE 0))
  BY DEF Shared
<1> DEFINE f == Sums(sh)
           g == Sums(th)
           card(s) == Cardinality(s \cap party)
           bonus(s) == IF first \in s THEN rest ELSE 0
           Grown(s) == f[s] \in Int /\ g[s] = f[s] + share * card(s) + bonus(s)
           T == {k \in Nat : \A s \in SUBSET Heroes : Cardinality(s) = k => Grown(s)}
<1>1. \A s \in SUBSET Heroes : /\ IsFiniteSet(s) /\ Cardinality(s) \in Nat
                               /\ IsFiniteSet(s \cap party) /\ card(s) \in Nat
  BY SheetBounds, FS_Subset, FS_CardinalityType
<1>2. \A s \in SUBSET Heroes :
         /\ f[s] = IF s = {} THEN 0 ELSE Earned(sh[FirstOf(s)]) + f[s \ {FirstOf(s)}]
         /\ g[s] = IF s = {} THEN 0 ELSE Earned(th[FirstOf(s)]) + g[s \ {FirstOf(s)}]
  BY <1>0, SumsCompute
<1> HIDE DEF f, g
<1>3. \A h \in Heroes : Earned(sh[h]) \in Int
  BY <1>0, XpBelowGrows DEF Earned, SheetOK, Sheets
<1>4. Grown({})
  <2>1. card({}) = 0 /\ {} \in SUBSET Heroes
    BY FS_EmptySet
  <2>2. f[{}] = 0 /\ g[{}] = 0
    BY <1>2
  <2> QED
    BY <2>1, <2>2
<1>5. ASSUME NEW s \in SUBSET Heroes, s # {}, Grown(s \ {FirstOf(s)}) PROVE Grown(s)
  <2> DEFINE x == FirstOf(s)
             r == s \ {x}
  <2>1. x \in s /\ x \in Heroes
    BY <1>5 DEF FirstOf
  <2> HIDE DEF x
  <2>2. f[s] = Earned(sh[x]) + f[r] /\ g[s] = Earned(th[x]) + g[r]
    BY <1>2, <1>5 DEF x
  <2>3. f[r] \in Int /\ g[r] = f[r] + share * card(r) + bonus(r)
    BY <1>5 DEF x
  <2>4. card(s) = IF x \in party THEN card(r) + 1 ELSE card(r)
    <3>1. r \cap party = (s \cap party) \ {x}
      OBVIOUS
    <3>2. x \in s \cap party <=> x \in party
      BY <2>1
    <3> DEFINE q == s \cap party
    <3>3. IsFiniteSet(q) /\ Cardinality(q) \in Nat
      BY <1>1
    <3> HIDE DEF q
    <3>4. Cardinality(q \ {x}) = IF x \in q THEN Cardinality(q) - 1 ELSE Cardinality(q)
      BY <3>3, FS_RemoveElement
    <3>5. card(s) = Cardinality(q) /\ card(r) = Cardinality(q \ {x})
      BY <3>1 DEF q
    <3> QED
      BY <3>2, <3>3, <3>4, <3>5 DEF q
  <2>5. card(r) \in Nat
    BY <1>1
  <2>6. share * (card(r) + 1) = share * card(r) + share /\ share * card(r) \in Int
    BY <2>5
  <2>7. bonus(s) = bonus(r) + (IF x = first THEN rest ELSE 0) /\ bonus(r) \in Nat
    BY <2>1
  <2>8. Earned(th[x]) = Earned(sh[x]) + (IF x \notin party THEN 0
                                         ELSE share + (IF x = first THEN rest ELSE 0))
    BY <1>0, <2>1
  <2>9. Earned(sh[x]) \in Int
    BY <1>3, <2>1
  <2> HIDE DEF r, card, bonus
  <2>10. CASE x \in party
    BY <2>2, <2>3, <2>4, <2>6, <2>7, <2>8, <2>9, <2>10
  <2>11. CASE x \notin party
    <3>1. x # first
      BY <2>11
    <3> QED
      BY <2>2, <2>3, <2>4, <2>6, <2>7, <2>8, <2>9, <2>11, <3>1
  <2> QED
    BY <2>10, <2>11
<1>6. 0 \in T
  <2>1. ASSUME NEW s \in SUBSET Heroes, Cardinality(s) = 0 PROVE s = {}
    BY <1>1, <2>1, FS_EmptySet
  <2> HIDE DEF Grown
  <2> QED
    BY <1>4, <2>1
<1>7. ASSUME NEW k \in Nat, k \in T PROVE k + 1 \in T
  <2> SUFFICES ASSUME NEW s \in SUBSET Heroes, Cardinality(s) = k + 1 PROVE Grown(s)
    OBVIOUS
  <2>1. s # {}
    BY FS_EmptySet
  <2>2. FirstOf(s) \in s
    BY <2>1 DEF FirstOf
  <2>3. Cardinality(s \ {FirstOf(s)}) = k /\ s \ {FirstOf(s)} \in SUBSET Heroes
    <3>1. IsFiniteSet(s)
      BY <1>1
    <3>2. Cardinality(s \ {FirstOf(s)}) = Cardinality(s) - 1
      BY <2>2, <3>1, FS_RemoveElement
    <3> QED
      BY <3>2
  <2> HIDE DEF Grown
  <2>4. Grown(s \ {FirstOf(s)})
    BY <1>7, <2>3
  <2> QED
    BY <1>5, <2>1, <2>4
<1> HIDE DEF T
<1>8. Cardinality(Heroes) \in T
  BY <1>1, <1>6, <1>7, Induction
<1>9. Grown(Heroes)
  <2> HIDE DEF Grown
  <2> QED
    BY <1>8 DEF T
<1>10. Heroes \cap party = party /\ first \in Heroes
  OBVIOUS
<1> QED
  BY <1>9, <1>10 DEF f, g

\* At the start nobody has earned anything.
LEMMA NothingEarned ==
    ASSUME NEW sh, \A h \in Heroes : SheetOK(sh[h]) /\ Earned(sh[h]) = 0
    PROVE  Sums(sh)[Heroes] = 0
<1> DEFINE f == Sums(sh)
           T == {k \in Nat : \A s \in SUBSET Heroes : Cardinality(s) = k => f[s] = 0}
<1>1. \A s \in SUBSET Heroes : IsFiniteSet(s) /\ Cardinality(s) \in Nat
  BY SheetBounds, FS_Subset, FS_CardinalityType
<1>2. \A s \in SUBSET Heroes :
         f[s] = IF s = {} THEN 0 ELSE Earned(sh[FirstOf(s)]) + f[s \ {FirstOf(s)}]
  BY SumsCompute
<1> HIDE DEF f
<1>3. 0 \in T
  <2>1. ASSUME NEW s \in SUBSET Heroes, Cardinality(s) = 0 PROVE f[s] = 0
    BY <1>1, <1>2, <2>1, FS_EmptySet
  <2> QED
    BY <2>1
<1>4. ASSUME NEW k \in Nat, k \in T PROVE k + 1 \in T
  <2> SUFFICES ASSUME NEW s \in SUBSET Heroes, Cardinality(s) = k + 1 PROVE f[s] = 0
    OBVIOUS
  <2>1. s # {}
    BY FS_EmptySet
  <2>2. FirstOf(s) \in s
    BY <2>1 DEF FirstOf
  <2>3. Cardinality(s \ {FirstOf(s)}) = Cardinality(s) - 1
    <3>1. IsFiniteSet(s)
      BY <1>1
    <3> QED
      BY <2>2, <3>1, FS_RemoveElement
  <2>4. f[s \ {FirstOf(s)}] = 0
    BY <1>4, <2>3
  <2>5. Earned(sh[FirstOf(s)]) = 0
    BY <2>2
  <2> QED
    BY <1>2, <2>1, <2>4, <2>5
<1> HIDE DEF T
<1>5. Cardinality(Heroes) \in T
  BY <1>1, <1>3, <1>4, Induction
<1> QED
  BY <1>5 DEF T, f

-----------------------------------------------------------------------------
(* The inductive invariant.                                                 *)

SheetsOK == sheet = [h \in Heroes |-> sheet[h]] /\ \A h \in Heroes : SheetOK(sheet[h])
TimersOK == /\ regen \in [Heroes -> 0..(ManaEvery - 1)]
            /\ wait \in [Heroes -> 0..Cooldown]
            /\ asked \in [Heroes -> BOOLEAN]
SumIs    == slain \in Nat /\ Sums(sheet)[Heroes] = XpPerMob * slain

SheetIInv == SheetsOK /\ TimersOK /\ SumIs /\ BotsAgreed

\* Nothing is earned by a step that leaves every character's experience alone.
LEMMA SumStays ==
    ASSUME SheetsOK, SheetsOK', \A h \in Heroes : Earned(sheet'[h]) = Earned(sheet[h])
    PROVE  Sums(sheet')[Heroes] = Sums(sheet)[Heroes]
<1> DEFINE sh == sheet
           th == sheet'
<1>1. /\ \A h \in Heroes : SheetOK(sh[h])
      /\ \A h \in Heroes : SheetOK(th[h])
      /\ \A h \in Heroes : Earned(th[h]) = Earned(sh[h])
  BY DEF SheetsOK
<1> HIDE DEF sh, th
<1>2. CASE Heroes = {}
  <2>1. Sums(sh)[Heroes] = 0 /\ Sums(th)[Heroes] = 0
    BY <1>1, <1>2, SumsCompute
  <2> QED
    BY <2>1 DEF sh, th
<1>3. CASE Heroes # {}
  <2>1. PICK first \in Heroes : TRUE
    BY <1>3
  <2> DEFINE party == {first}
             share == 0
             rest  == 0
  <2>2. party \in SUBSET Heroes /\ first \in party /\ share \in Nat /\ rest \in Nat
    BY <2>1
  <2>3. \A h \in Heroes : Earned(sh[h]) \in Int
    BY <1>1, XpBelowGrows DEF Earned, SheetOK, Sheets
  <2>4. Shared(sh, th, party, first, share, rest)
    BY <1>1, <2>3 DEF Shared
  <2>5. Cardinality(party) \in Nat
    BY FS_Singleton
  <2>6. share = 0 /\ rest = 0
    OBVIOUS
  <2> HIDE DEF party, share, rest
  <2>7. /\ Sums(sh)[Heroes] \in Int
        /\ Sums(th)[Heroes] = Sums(sh)[Heroes] + share * Cardinality(party) + rest
    BY <1>1, <2>2, <2>4, SumsGrow
  <2>8. Sums(th)[Heroes] = Sums(sh)[Heroes]
    BY <2>5, <2>6, <2>7
  <2> QED
    BY <2>8 DEF sh, th
<1> QED
  BY <1>2, <1>3

LEMMA SheetStart == SheetInit => SheetIInv
<1> SUFFICES ASSUME SheetInit PROVE SheetIInv
  OBVIOUS
<1> USE DEF SheetInit
<1>1. ASSUME NEW h \in Heroes
      PROVE  /\ SheetOK(sheet[h]) /\ Earned(sheet[h]) = 0
             /\ sheet[h].everBot = sheet[h].isBot
  <2>1. PICK bot \in BOOLEAN : sheet[h] = New(bot)
    OBVIOUS
  <2> DEFINE s == sheet[h]
  <2>2. /\ s.level = 1 /\ s.xp = 0 /\ s.points = 0 /\ s.rank = 0 /\ s.mana = ManaBase + 1
        /\ s.isBot = bot /\ s.everBot = bot /\ s \in Sheets
    BY <2>1, Amounts DEF New, MaxMana, Sheets
  <2> HIDE DEF s
  <2>3. XpNeeded(1) > 0 /\ XpBelow(1) = 0
    <3>1. (1 * (1 - 1)) \div 2 = 0
      OBVIOUS
    <3> QED
      BY <3>1, Amounts DEF XpNeeded, XpBelow
  <2>4. SheetOK(s) /\ Earned(s) = 0
    BY <2>2, <2>3, Amounts DEF SheetOK, Earned, MaxMana
  <2> QED
    BY <2>2, <2>4 DEF s
<1>2. SheetsOK
  BY <1>1 DEF SheetsOK
<1>3. TimersOK
  BY Amounts DEF TimersOK
<1>4. SumIs
  <2> DEFINE sh == sheet
  <2>1. \A h \in Heroes : SheetOK(sh[h]) /\ Earned(sh[h]) = 0
    BY <1>1
  <2>2. Sums(sh)[Heroes] = 0
    <3> HIDE DEF sh
    <3> QED
      BY <2>1, NothingEarned
  <2>3. XpPerMob * 0 = 0
    BY Amounts
  <2> QED
    BY <2>2, <2>3 DEF SumIs
<1>5. BotsAgreed
  BY <1>1 DEF BotsAgreed
<1> QED
  BY <1>2, <1>3, <1>4, <1>5 DEF SheetIInv

\* A change of one sheet.
LEMMA OneSheet ==
    ASSUME SheetsOK, NEW h \in Heroes, NEW s, SheetOK(s), Earned(s) = Earned(sheet[h]),
           sheet' = [sheet EXCEPT ![h] = s]
    PROVE  SheetsOK' /\ Sums(sheet')[Heroes] = Sums(sheet)[Heroes]
<1>1. sheet' = [x \in Heroes |-> IF x = h THEN s ELSE sheet[x]]
  BY DEF SheetsOK
<1>2. SheetsOK'
  BY <1>1 DEF SheetsOK
<1>3. \A x \in Heroes : Earned(sheet'[x]) = Earned(sheet[x])
  BY <1>1
<1> QED
  BY <1>2, <1>3, SumStays

LEMMA SlayMobKeeps ==
    ASSUME SheetIInv, NEW killer \in Heroes, SlayMob(killer)
    PROVE  SheetIInv'
<1>1. SheetsOK /\ TimersOK /\ SumIs /\ BotsAgreed
  BY DEF SheetIInv
<1>2. slain' = slain + 1 /\ regen' = regen /\ wait' = wait /\ asked' = asked /\ agreed' = agreed
  BY DEF SlayMob
<1>3. PICK party \in SUBSET Heroes : killer \in party /\ AwardXp(killer, party)
  BY DEF SlayMob
<1> DEFINE n     == Cardinality(party)
           share == XpPerMob \div n
           rest  == XpPerMob % n
<1>4. n \in Nat /\ n > 0
  <2>1. IsFiniteSet(party) /\ party # {}
    BY <1>3, SheetBounds, FS_Subset
  <2> QED
    BY <2>1, FS_EmptySet, FS_CardinalityType
<1>5. PICK first \in party :
         sheet' = [h \in Heroes |->
                     IF h \notin party THEN sheet[h]
                     ELSE Levelled(sheet[h], share + (IF h = first THEN rest ELSE 0))]
  BY <1>3 DEF AwardXp
<1> HIDE DEF n
<1>6. share \in Nat /\ rest \in Nat /\ share * n + rest = XpPerMob
  BY <1>4, Amounts
<1> HIDE DEF share, rest
<1> DEFINE sh == sheet
           th == sheet'
<1>7. ASSUME NEW h \in Heroes
      PROVE  /\ SheetOK(th[h])
             /\ Earned(th[h]) = Earned(sh[h]) + (IF h \notin party THEN 0
                                  ELSE share + (IF h = first THEN rest ELSE 0))
             /\ th[h].isBot = sh[h].isBot /\ th[h].everBot = sh[h].everBot
  <2>1. SheetOK(sh[h]) /\ Earned(sh[h]) \in Int
    BY <1>1, XpBelowGrows DEF SheetsOK, SheetOK, Sheets, Earned
  <2>2. CASE h \notin party
    <3>1. th[h] = sh[h]
      BY <1>5, <2>2
    <3> QED
      BY <2>1, <2>2, <3>1
  <2>3. CASE h \in party
    <3> DEFINE gain == share + (IF h = first THEN rest ELSE 0)
    <3>1. gain \in Nat /\ th[h] = Levelled(sh[h], gain)
      BY <1>5, <1>6, <2>3
    <3> HIDE DEF gain, sh, th
    <3>2. /\ SheetOK(th[h]) /\ Earned(th[h]) = Earned(sh[h]) + gain
          /\ th[h].isBot = sh[h].isBot /\ th[h].everBot = sh[h].everBot
      BY <2>1, <3>1, LevelledIs
    <3> QED
      BY <2>3, <3>2 DEF gain
  <2> QED
    BY <2>2, <2>3
<1>8. SheetsOK'
  BY <1>5, <1>7 DEF SheetsOK
<1>9. Shared(sh, th, party, first, share, rest)
  BY <1>1, <1>7 DEF Shared, SheetsOK
<1>10. Sums(th)[Heroes] = Sums(sh)[Heroes] + share * n + rest /\ Sums(sh)[Heroes] \in Int
  <2> HIDE DEF sh, th
  <2> QED
    BY <1>6, <1>9, SumsGrow DEF n
<1>11. SumIs'
  <2>1. Sums(sh)[Heroes] = XpPerMob * slain /\ slain \in Nat
    BY <1>1 DEF SumIs
  <2>2. share * n \in Int
    BY <1>4, <1>6
  <2> HIDE DEF sh, th
  <2>3. Sums(th)[Heroes] = XpPerMob * slain + XpPerMob
    BY <1>6, <1>10, <2>1, <2>2
  <2>4. XpPerMob * slain + XpPerMob = XpPerMob * (slain + 1)
    BY <2>1, Amounts
  <2> QED
    BY <1>2, <2>1, <2>3, <2>4 DEF SumIs, th
<1>12. BotsAgreed'
  BY <1>1, <1>2, <1>7 DEF BotsAgreed
<1>13. TimersOK'
  BY <1>1, <1>2 DEF TimersOK
<1> QED
  BY <1>8, <1>11, <1>12, <1>13 DEF SheetIInv

LEMMA TrainKeeps ==
    ASSUME SheetIInv, NEW h \in Heroes, Train(h)
    PROVE  SheetIInv'
<1>1. SheetsOK /\ TimersOK /\ SumIs /\ BotsAgreed
  BY DEF SheetIInv
<1> DEFINE s == sheet[h]
           r == [s EXCEPT !.points = s.points - 1, !.rank = s.rank + 1]
<1>2. /\ s.rank < MaxRank /\ s.points > 0 /\ SheetOK(s)
      /\ UNCHANGED <<regen, wait, asked, slain, agreed>>
  BY <1>1 DEF Train, SheetsOK
<1>3. sheet' = [sheet EXCEPT ![h] = r]
  BY <1>1 DEF Train, SheetsOK
<1> HIDE DEF s
<1>4. /\ r.level = s.level /\ r.xp = s.xp /\ r.points = s.points - 1 /\ r.rank = s.rank + 1
      /\ r.mana = s.mana /\ r.isBot = s.isBot /\ r.everBot = s.everBot /\ r \in Sheets
  <2>1. s \in Sheets /\ s.points - 1 \in Nat /\ s.rank + 1 \in Nat
    BY <1>2 DEF SheetOK, Sheets
  <2> QED
    BY <2>1 DEF Sheets
<1> HIDE DEF r
<1>5. SheetOK(r) /\ Earned(r) = Earned(s)
  BY <1>2, <1>4, Amounts DEF SheetOK, Sheets, Earned
<1>6. SheetsOK' /\ Sums(sheet')[Heroes] = Sums(sheet)[Heroes]
  BY <1>1, <1>3, <1>5, OneSheet DEF s
<1>7. BotsAgreed'
  <2>1. \A x \in Heroes : sheet'[x].isBot = sheet[x].isBot /\ sheet'[x].everBot = sheet[x].everBot
    BY <1>1, <1>3, <1>4 DEF SheetsOK, s
  <2> QED
    BY <1>1, <1>2, <2>1 DEF BotsAgreed
<1> QED
  BY <1>1, <1>2, <1>6, <1>7 DEF SheetIInv, TimersOK, SumIs

LEMMA UseManaKeeps ==
    ASSUME SheetIInv, NEW h \in Heroes, UseMana(h)
    PROVE  SheetIInv'
<1>1. SheetsOK /\ TimersOK /\ SumIs /\ BotsAgreed
  BY DEF SheetIInv
<1> DEFINE s == sheet[h]
           r == [s EXCEPT !.mana = s.mana - ManaCost]
<1>2. /\ s.mana >= ManaCost /\ SheetOK(s)
      /\ wait' = [wait EXCEPT ![h] = Cooldown]
      /\ UNCHANGED <<regen, asked, slain, agreed>>
  BY <1>1 DEF UseMana, SheetsOK
<1>3. sheet' = [sheet EXCEPT ![h] = r]
  BY <1>1 DEF UseMana, SheetsOK
<1> HIDE DEF s
<1>4. /\ r.level = s.level /\ r.xp = s.xp /\ r.points = s.points /\ r.rank = s.rank
      /\ r.mana = s.mana - ManaCost /\ r.isBot = s.isBot /\ r.everBot = s.everBot /\ r \in Sheets
  BY <1>2, Amounts DEF SheetOK, Sheets
<1> HIDE DEF r
<1>5. SheetOK(r) /\ Earned(r) = Earned(s)
  BY <1>2, <1>4, Amounts DEF SheetOK, Sheets, Earned, MaxMana
<1>6. SheetsOK' /\ Sums(sheet')[Heroes] = Sums(sheet)[Heroes]
  BY <1>1, <1>3, <1>5, OneSheet DEF s
<1>7. BotsAgreed'
  <2>1. \A x \in Heroes : sheet'[x].isBot = sheet[x].isBot /\ sheet'[x].everBot = sheet[x].everBot
    BY <1>1, <1>3, <1>4 DEF SheetsOK, s
  <2> QED
    BY <1>1, <1>2, <2>1 DEF BotsAgreed
<1>8. TimersOK'
  BY <1>1, <1>2, Amounts DEF TimersOK
<1> QED
  BY <1>1, <1>2, <1>6, <1>7, <1>8 DEF SheetIInv, SumIs

\* What a poll leaves a character with.
LEMMA RegainIs ==
    ASSUME NEW s, SheetOK(s), NEW elapsed \in Nat
    PROVE  /\ Regain(s, elapsed)[1] \in 0..MaxMana(s.level)
           /\ Regain(s, elapsed)[2] \in Nat
           /\ Regain(s, elapsed)[2] < ManaEvery
<1> DEFINE most == MaxMana(s.level)
           n    == elapsed \div ManaEvery
<1>1. s.mana \in Nat /\ s.mana <= most /\ most \in Nat /\ n \in Nat
  BY Amounts DEF SheetOK, Sheets, MaxMana
<1>2. n = 0 => elapsed < ManaEvery
  BY Amounts
<1>3. Min({s.mana + n, most}) \in 0..most
  <2> DEFINE more == s.mana + n
  <2>1. more \in Nat
    BY <1>1
  <2> HIDE DEF more, most
  <2>2. \E x \in {more, most} : \A y \in {more, most} : x <= y
    BY <1>1, <2>1
  <2>3. Min({more, most}) \in {more, most} /\ \A y \in {more, most} : Min({more, most}) <= y
    BY <2>2 DEF Min
  <2> QED
    BY <1>1, <2>1, <2>3 DEF more
<1> HIDE DEF most, n
<1>4. Regain(s, elapsed) = IF s.mana >= most THEN <<s.mana, 0>>
                           ELSE IF n = 0 THEN <<s.mana, elapsed>>
                           ELSE <<Min({s.mana + n, most}), 0>>
  BY DEF Regain, most, n
<1> QED
  BY <1>1, <1>2, <1>3, <1>4, Amounts DEF most

LEMMA PollKeeps ==
    ASSUME SheetIInv, NEW d \in 1..MaxPoll, Poll(d)
    PROVE  SheetIInv'
<1>1. SheetsOK /\ TimersOK /\ SumIs /\ BotsAgreed
  BY DEF SheetIInv
<1>2. /\ sheet' = [h \in Heroes |-> [sheet[h] EXCEPT !.mana = Regain(sheet[h], regen[h] + d)[1]]]
      /\ regen' = [h \in Heroes |-> Regain(sheet[h], regen[h] + d)[2]]
      /\ wait' = [h \in Heroes |-> IF wait[h] > d THEN wait[h] - d ELSE 0]
      /\ asked' = asked /\ slain' = slain /\ agreed' = agreed
  BY DEF Poll
<1>3. ASSUME NEW h \in Heroes
      PROVE  /\ SheetOK(sheet'[h]) /\ Earned(sheet'[h]) = Earned(sheet[h])
             /\ sheet'[h].isBot = sheet[h].isBot /\ sheet'[h].everBot = sheet[h].everBot
             /\ regen'[h] \in 0..(ManaEvery - 1)
             /\ wait'[h] \in 0..Cooldown
  <2> DEFINE s == sheet[h]
             e == regen[h] + d
             r == [s EXCEPT !.mana = Regain(s, e)[1]]
  <2>1. SheetOK(s) /\ e \in Nat
    <3>1. regen[h] \in 0..(ManaEvery - 1) /\ d \in Nat
      BY <1>1, SheetBounds DEF TimersOK
    <3> QED
      BY <1>1, <3>1, Amounts DEF SheetsOK
  <2>2. sheet'[h] = r /\ regen'[h] = Regain(s, e)[2]
    BY <1>2
  <2> HIDE DEF s, e
  <2>3. /\ Regain(s, e)[1] \in 0..MaxMana(s.level)
        /\ Regain(s, e)[2] \in Nat /\ Regain(s, e)[2] < ManaEvery
    BY <2>1, RegainIs
  <2>4. MaxMana(s.level) \in Nat
    BY <2>1, Amounts DEF SheetOK, Sheets, MaxMana
  <2>5. /\ r.level = s.level /\ r.xp = s.xp /\ r.points = s.points /\ r.rank = s.rank
        /\ r.mana = Regain(s, e)[1] /\ r.isBot = s.isBot /\ r.everBot = s.everBot /\ r \in Sheets
    BY <2>1, <2>3, <2>4 DEF SheetOK, Sheets
  <2> HIDE DEF r
  <2>6. SheetOK(r) /\ Earned(r) = Earned(s)
    BY <2>1, <2>3, <2>5 DEF SheetOK, Earned
  <2>7. wait'[h] \in 0..Cooldown
    <3>1. wait[h] \in 0..Cooldown /\ wait'[h] = IF wait[h] > d THEN wait[h] - d ELSE 0
      BY <1>1, <1>2 DEF TimersOK
    <3>2. d \in Nat
      BY SheetBounds
    <3> QED
      BY <3>1, <3>2, Amounts
  <2>8. regen'[h] \in 0..(ManaEvery - 1)
    BY <2>2, <2>3, Amounts
  <2> QED
    BY <2>2, <2>5, <2>6, <2>7, <2>8 DEF s
<1>4. SheetsOK'
  BY <1>2, <1>3 DEF SheetsOK
<1>5. Sums(sheet')[Heroes] = Sums(sheet)[Heroes]
  BY <1>1, <1>3, <1>4, SumStays
<1>6. TimersOK'
  BY <1>1, <1>2, <1>3 DEF TimersOK
<1>7. BotsAgreed'
  BY <1>1, <1>2, <1>3 DEF BotsAgreed
<1> QED
  BY <1>1, <1>2, <1>4, <1>5, <1>6, <1>7 DEF SheetIInv, SumIs

LEMMA BotModeKeeps ==
    ASSUME SheetIInv, NEW h \in Heroes, BotOn(h) \/ Confirm(h) \/ BotOff(h) \/ ComeBack(h)
    PROVE  SheetIInv'
<1>1. SheetsOK /\ TimersOK /\ SumIs /\ BotsAgreed
  BY DEF SheetIInv
<1> DEFINE s == sheet[h]
           r(is, ever) == [s EXCEPT !.isBot = is, !.everBot = ever]
<1>2. SheetOK(s) /\ s.isBot \in BOOLEAN /\ s.everBot \in BOOLEAN
  BY <1>1 DEF SheetsOK, SheetOK, Sheets
<1>3. slain' = slain
  BY DEF BotOn, Confirm, BotOff, ComeBack
<1>4. TimersOK'
  <2>1. regen' = regen \/ regen' = [regen EXCEPT ![h] = 0]
    BY DEF BotOn, Confirm, BotOff, ComeBack
  <2>2. wait' = wait \/ wait' = [wait EXCEPT ![h] = 0]
    BY DEF BotOn, Confirm, BotOff, ComeBack
  <2>3. asked' = asked \/ asked' = [asked EXCEPT ![h] = TRUE] \/ asked' = [asked EXCEPT ![h] = FALSE]
    BY DEF BotOn, Confirm, BotOff, ComeBack
  <2>4. regen' \in [Heroes -> 0..(ManaEvery - 1)]
    BY <1>1, <2>1, Amounts DEF TimersOK
  <2>5. wait' \in [Heroes -> 0..Cooldown]
    BY <1>1, <2>2, Amounts DEF TimersOK
  <2>6. asked' \in [Heroes -> BOOLEAN]
    BY <1>1, <2>3 DEF TimersOK
  <2> QED
    BY <2>4, <2>5, <2>6 DEF TimersOK
<1>5. CASE \E is, ever \in BOOLEAN :
              /\ sheet' = [sheet EXCEPT ![h] = r(is, ever)]
              /\ is => ever
              /\ agreed' = IF ever THEN agreed \cup {h} ELSE agreed
              /\ s.everBot => ever
  <2>1. PICK is \in BOOLEAN, ever \in BOOLEAN :
           /\ sheet' = [sheet EXCEPT ![h] = r(is, ever)]
           /\ is => ever
           /\ agreed' = IF ever THEN agreed \cup {h} ELSE agreed
           /\ s.everBot => ever
    BY <1>5
  <2> DEFINE q == r(is, ever)
  <2> HIDE DEF s
  <2>2. /\ q.level = s.level /\ q.xp = s.xp /\ q.points = s.points /\ q.rank = s.rank
        /\ q.mana = s.mana /\ q.isBot = is /\ q.everBot = ever /\ q \in Sheets
    BY <1>2 DEF SheetOK, Sheets
  <2>3. sheet' = [sheet EXCEPT ![h] = q]
    BY <2>1
  <2> HIDE DEF q, r
  <2>4. SheetOK(q) /\ Earned(q) = Earned(s)
    BY <1>2, <2>2 DEF SheetOK, Earned
  <2>5. SheetsOK' /\ Sums(sheet')[Heroes] = Sums(sheet)[Heroes]
    BY <1>1, <2>3, <2>4, OneSheet DEF s
  <2>6. BotsAgreed'
    <3>1. sheet'[h] = q /\ \A x \in Heroes \ {h} : sheet'[x] = sheet[x]
      BY <1>1, <2>3 DEF SheetsOK
    <3>2. s.everBot <=> h \in agreed
      BY <1>1 DEF BotsAgreed, s
    <3>3. ever <=> h \in agreed'
      BY <2>1, <3>2
    <3>4. \A x \in Heroes \ {h} : x \in agreed' <=> x \in agreed
      BY <2>1
    <3>5. ASSUME NEW x \in Heroes
          PROVE  (sheet'[x].isBot => sheet'[x].everBot) /\ (sheet'[x].everBot <=> x \in agreed')
      <4>1. CASE x = h
        BY <2>1, <2>2, <3>1, <3>3, <4>1
      <4>2. CASE x # h
        <5>1. (sheet[x].isBot => sheet[x].everBot) /\ (sheet[x].everBot <=> x \in agreed)
          BY <1>1 DEF BotsAgreed
        <5>2. sheet'[x] = sheet[x] /\ (x \in agreed' <=> x \in agreed)
          BY <3>1, <3>4, <4>2
        <5> QED
          BY <5>1, <5>2, Zenon
      <4> QED
        BY <4>1, <4>2
    <3> QED
      BY <3>5 DEF BotsAgreed
  <2> QED
    BY <1>1, <1>3, <1>4, <2>5, <2>6 DEF SheetIInv, SumIs
<1>6. CASE sheet' = sheet /\ agreed' = agreed
  BY <1>1, <1>3, <1>4, <1>6 DEF SheetIInv, SheetsOK, SumIs, BotsAgreed
<1>7. s.everBot <=> h \in agreed
  BY <1>1 DEF BotsAgreed
<1>8. sheet[h] \in Sheets
  BY <1>1 DEF SheetsOK, SheetOK
<1>9. ASSUME BotOn(h) PROVE SheetIInv'
  <2>1. CASE s.everBot
    <3>1. sheet' = [sheet EXCEPT ![h].isBot = TRUE] /\ agreed' = agreed
      BY <1>9, <2>1 DEF BotOn
    <3>2. [sheet[h] EXCEPT !.isBot = TRUE] = r(TRUE, TRUE)
      BY <1>8, <2>1 DEF Sheets
    <3>3. sheet' = [sheet EXCEPT ![h] = r(TRUE, TRUE)]
      BY <3>1, <3>2
    <3>4. agreed' = agreed \cup {h}
      BY <1>7, <2>1, <3>1
    <3> HIDE DEF r
    <3> QED
      BY <1>5, <3>3, <3>4
  <2>2. CASE ~s.everBot
    BY <1>6, <1>9, <2>2 DEF BotOn
  <2> QED
    BY <2>1, <2>2
<1>10. ASSUME Confirm(h) PROVE SheetIInv'
  <2>1. CASE /\ sheet' = [sheet EXCEPT ![h].isBot = TRUE, ![h].everBot = TRUE]
             /\ agreed' = agreed \cup {h}
    <3>1. sheet' = [sheet EXCEPT ![h] = r(TRUE, TRUE)]
      BY <1>1, <2>1 DEF SheetsOK
    <3> HIDE DEF r
    <3> QED
      BY <1>5, <2>1, <3>1
  <2> QED
    BY <1>6, <1>10, <2>1 DEF Confirm
<1>11. ASSUME BotOff(h) PROVE SheetIInv'
  <2>1. sheet' = [sheet EXCEPT ![h].isBot = FALSE] /\ agreed' = agreed /\ s.isBot
    BY <1>11 DEF BotOff
  <2>2. s.everBot /\ h \in agreed
    BY <1>1, <1>7, <2>1 DEF BotsAgreed
  <2>3. [sheet[h] EXCEPT !.isBot = FALSE] = r(FALSE, TRUE)
    BY <1>2, <1>8, <2>2 DEF Sheets
  <2>4. sheet' = [sheet EXCEPT ![h] = r(FALSE, TRUE)]
    BY <2>1, <2>3
  <2>5. agreed' = agreed \cup {h}
    BY <2>1, <2>2
  <2> HIDE DEF r
  <2> QED
    BY <1>5, <2>4, <2>5
<1>12. ASSUME ComeBack(h) PROVE SheetIInv'
  BY <1>6, <1>12 DEF ComeBack
<1> QED
  BY <1>9, <1>10, <1>11, <1>12

LEMMA SheetStep ==
    ASSUME SheetIInv, [SheetNext]_sheetVars
    PROVE  SheetIInv'
<1>1. CASE SheetNext
  BY <1>1, SlayMobKeeps, TrainKeeps, UseManaKeeps, PollKeeps, BotModeKeeps DEF SheetNext
<1>2. CASE UNCHANGED sheetVars
  <2>1. /\ sheet' = sheet /\ regen' = regen /\ wait' = wait /\ asked' = asked
        /\ slain' = slain /\ agreed' = agreed
    BY <1>2 DEF sheetVars
  <2> QED
    BY <2>1 DEF SheetIInv, SheetsOK, TimersOK, SumIs, BotsAgreed
<1> QED
  BY <1>1, <1>2

\* What the sheets promise follows.
LEMMA SheetsPromise == SheetIInv => SheetTypeOK /\ ExperienceAddsUp
<1> SUFFICES ASSUME SheetIInv PROVE SheetTypeOK /\ ExperienceAddsUp
  OBVIOUS
<1>1. SheetsOK /\ TimersOK /\ SumIs
  BY DEF SheetIInv
<1>2. ASSUME NEW h \in Heroes
      PROVE  /\ sheet[h].level \in Nat \ {0}
             /\ sheet[h].xp \in 0..(XpNeeded(sheet[h].level) - 1)
             /\ sheet[h].mana \in 0..MaxMana(sheet[h].level)
             /\ sheet[h].rank \in 0..MaxRank
             /\ {sheet[h].isBot, sheet[h].everBot} \subseteq BOOLEAN
             /\ sheet[h].points + sheet[h].rank = sheet[h].level - 1
  <2>1. SheetOK(sheet[h])
    BY <1>1 DEF SheetsOK
  <2>2. sheet[h].level \in Nat /\ XpNeeded(sheet[h].level) \in Int /\ MaxMana(sheet[h].level) \in Int
    BY <2>1, Amounts DEF SheetOK, Sheets, XpNeeded, MaxMana
  <2> QED
    BY <2>1, <2>2, Amounts DEF SheetOK, Sheets
<1>3. SheetTypeOK
  BY <1>1, <1>2 DEF SheetTypeOK, TimersOK
<1>4. MapThenSumSet(LAMBDA h : XpBelow(sheet[h].level) + sheet[h].xp, Heroes) = XpPerMob * slain
  BY <1>1 DEF SumIs, Sums, Earned, MapThenSumSet, MapThenFoldSet
<1> QED
  BY <1>2, <1>3, <1>4 DEF ExperienceAddsUp

\* However kills are shared and however many levels they are worth at once,
\* no experience is made or lost and every level gave one skill point; nobody
\* is a bot without having agreed to be marked as one.
THEOREM SheetsHold == SheetSpec => [](SheetTypeOK /\ ExperienceAddsUp /\ BotsAgreed)
<1>1. SheetIInv => SheetTypeOK /\ ExperienceAddsUp /\ BotsAgreed
  BY SheetsPromise DEF SheetIInv
<1> QED
  BY <1>1, SheetStart, SheetStep, PTL DEF SheetSpec

-----------------------------------------------------------------------------
(* The world.                                                               *)

\* The quests and sheets of the characters keep what CharacterInv says: flags
\* are counted and gates earned, experience adds up, bots have agreed.
THEOREM CharacterInvHolds == QuestSpec /\ SheetSpec => []CharacterInv
<1> QED
  BY QuestsHold, SheetsHold, PTL DEF CharacterInv

\* No step of the world hurts a player who is not willing unless a mob acts,
\* forgets a principal, moves along somebody who was never in a party, undoes
\* what a quest reached or gives powers nobody could give.
THEOREM WorldStepsHold ==
    FightSpec /\ PlayerSpec /\ RoomSpec /\ QuestSpec /\ GroupSpec => WorldSteps
<1> QED
  BY DuelsAreWilling, PlayersStayKnownHolds, MovesTogetherHolds, NothingIsUndoneHolds,
     PowersAreGrantedHolds DEF WorldSteps

\* A behaviour of the world is a behaviour of each of its parts.
LEMMA WorldParts ==
    WorldSpec => /\ FightSpec /\ PlayerSpec /\ RoomSpec
                 /\ QuestSpec /\ GroupSpec /\ SheetSpec
<1>1. WorldInit => /\ FightInit /\ PlayerInit /\ RoomInit
                   /\ QuestInit /\ GroupInit /\ SheetInit
  BY DEF WorldInit
<1>2. ASSUME [WorldNext]_worldVars
      PROVE  /\ [FightNext]_fightVars /\ [PlayerNext]_playerVars /\ [RoomNext]_roomVars
             /\ [QuestNext]_questVars /\ [GroupNext]_groupVars /\ [SheetNext]_sheetVars
  BY <1>2 DEF WorldNext, worldVars
<1> QED
  BY <1>1, <1>2, PTL DEF WorldSpec, FightSpec, PlayerSpec, RoomSpec, QuestSpec,
                         GroupSpec, SheetSpec

\* What the run of the world checks on its instance holds of the world for
\* every value of the constants.
THEOREM WorldHolds ==
    WorldSpec => /\ [](FightInv /\ PlayerInv /\ RoomInv /\ CharacterInv /\ GroupInv)
                 /\ WorldSteps
<1>1. WorldSpec => [](FightInv /\ PlayerInv /\ RoomInv)
  BY WorldParts, FightInvHolds, PlayerInvHolds, RoomInvHolds, PTL
<1>2. WorldSpec => [](CharacterInv /\ GroupInv)
  BY WorldParts, CharacterInvHolds, GroupInvHolds, PTL
<1>3. WorldSpec => WorldSteps
  BY WorldParts, WorldStepsHold
<1> QED
  BY <1>1, <1>2, <1>3, PTL
=============================================================================
