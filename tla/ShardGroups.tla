------------------------------ MODULE ShardGroups ---------------------------
(* The groups of the shard world and the raft log they are kept in: the     *)
(* commands that append an entry and apply it, the file with its possibly   *)
(* incomplete last line, and the start of a world, which replays the file   *)
(* and appends the genesis entries.  A key of a group's member map is the   *)
(* bare name of a character or its principal, "acct:" and the name: `group  *)
(* create` stores the one, the other commands the other.  Players are online*)
(* while a world runs.  MaxGroups and MaxLog bound the groups and the log.  *)
EXTENDS Naturals, Sequences, FiniteSets, SequencesExt

CONSTANTS Names, Bootstrap,
          GivenRoles, GivenCaps,  \* what commands name: roles, sets of caps
          MaxGroups, MaxLog

VARIABLES
    running,  \* a world serves the broker's connection
    store,    \* World::groups
    lines,    \* the entries of the log file, in order
    tail,     \* its end: "clean", "open" (no newline yet) or "torn"
    garbled,  \* some line of the file is not one entry
    next,     \* RaftLog::next_index
    cutShort  \* history: a write of the file was cut short

groupVars == <<running, store, lines, tail, garbled, next, cutShort>>

Admins == 1
Classes == 1000
Ids     == {Admins, Classes} \cup (2000..(1999 + MaxGroups))
\* "group.member" stands for adding and for removing; guests are left out.
Roles   == {"owner", "officer", "member"}
Caps    == {"admin.all", "group.create", "group.member", "group.role",
            "group.policy", "group.rolecaps"}
Managing == Caps \ {"admin.all", "group.create"}

ASSUME GroupBounds ==
    /\ Bootstrap \subseteq Names /\ IsFiniteSet(Bootstrap)
    /\ GivenRoles \subseteq Roles
    /\ GivenCaps \subseteq (SUBSET Caps) \ {{}}
    /\ {MaxGroups, MaxLog} \subseteq Nat

Bare(n) == <<"name", n>>   \* Character.name
Acct(n) == <<"acct", n>>   \* Character.principal, normalize_principal_token
MemberKeys == {Bare(n) : n \in Names} \cup {Acct(n) : n \in Names}

-----------------------------------------------------------------------------
(* Group::new with apply_default_role_caps.                                 *)
DefaultCaps(id) ==
    [r \in Roles |-> IF id = Admins THEN Caps
                     ELSE IF r = "member" THEN {} ELSE Managing]

NewGroup(id) == [members |-> [k \in MemberKeys |-> "none"],
                 policy |-> FALSE, caps |-> DefaultCaps(id)]
NoGroup == [members |-> <<>>, policy |-> FALSE, caps |-> <<>>]
Has(st, id) == st[id] # NoGroup
EmptyStore == [id \in Ids |-> NoGroup]

(* GroupStore::apply.                                                       *)
Apply(st, e) ==
    CASE e.t = "create" -> [st EXCEPT ![e.id] = NewGroup(e.id)]
      [] e.t # "create" /\ ~Has(st, e.id) -> st
      [] e.t = "member" /\ Has(st, e.id) ->
            [st EXCEPT ![e.id].members[e.key] = e.role]
      [] e.t = "policy" /\ Has(st, e.id) -> [st EXCEPT ![e.id].policy = e.on]
      [] e.t = "caps" /\ Has(st, e.id) ->
            [st EXCEPT ![e.id].caps[e.role] = e.caps]

(* The store after each of the entries.                                     *)
StoreAfter(st, entries) ==
    LET after[i \in 0..Len(entries)] ==
            IF i = 0 THEN st ELSE Apply(after[i - 1], entries[i])
    IN after

Applied(st, entries) == StoreAfter(st, entries)[Len(entries)]
Replay(entries)      == Applied(EmptyStore, entries)

Create(id)            == [t |-> "create", id |-> id]
Member(id, key, role) == [t |-> "member", id |-> id, key |-> key, role |-> role]
Policy(id, on)        == [t |-> "policy", id |-> id, on |-> on]
RoleCaps(id, role, caps) == [t |-> "caps", id |-> id, role |-> role,
                             caps |-> caps]

-----------------------------------------------------------------------------
(* World::effective_caps_for looks members up by principal, has_group_cap   *)
(* by name; a class group has every character for a member.                 *)
RoleIn(id, key) ==
    IF ~Has(store, id) THEN "none"
    ELSE IF store[id].members[key] # "none" THEN store[id].members[key]
    ELSE IF id = Classes THEN "member" ELSE "none"

CapsIn(id, key) == IF RoleIn(id, key) = "none" THEN {}
                   ELSE store[id].caps[RoleIn(id, key)]

EffectiveCaps(n) == UNION {CapsIn(id, Acct(n)) : id \in Ids}
IsAdmin(n)       == "admin.all" \in EffectiveCaps(n)
HasCap(n, cap)   == IsAdmin(n) \/ cap \in EffectiveCaps(n)
HasGroupCap(n, id, cap) == IsAdmin(n) \/ cap \in CapsIn(id, Bare(n))

-----------------------------------------------------------------------------
\* Fault: the newline is written before the entry, if at all.
AppendNoNewline(entries) ==
    /\ Len(lines) + Len(entries) <= MaxLog
    /\ lines' = lines \o entries
    /\ garbled' = (garbled \/ tail # "clean") /\ tail' = "open"
    /\ store' = Applied(store, entries)
    /\ next' = next + Len(entries)

(* RaftLog::append, for entries written one after the other, and apply.     *)
Append2(entries) ==
    /\ Len(lines) + Len(entries) <= MaxLog
    /\ lines' = lines \o entries
    /\ garbled' = (garbled \/ tail # "clean")
    /\ tail' = "clean"
    /\ store' = Applied(store, entries)
    /\ next' = next + Len(entries)

Commit(entries) == Append2(entries) /\ UNCHANGED <<running, cutShort>>

(* The commands of the player n.                                            *)
GroupCreate(n) ==
    /\ HasCap(n, "group.create")
    /\ \E id \in Ids \ {Admins, Classes} :
          /\ ~Has(store, id)
          /\ \A lower \in Ids : lower < id => Has(store, lower)
          /\ Commit(<<Create(id), Member(id, Bare(n), "owner")>>)

GroupAdd(n) ==
    \E id \in Ids : \E who \in Names : \E role \in GivenRoles :
        /\ HasGroupCap(n, id, "group.member")
        /\ Has(store, id)
        /\ Commit(<<Member(id, Acct(who), role)>>)

GroupRemove(n) ==
    \E id \in Ids : \E who \in Names :
        /\ HasGroupCap(n, id, "group.member")
        /\ Has(store, id)
        /\ Commit(<<Member(id, Acct(who), "none")>>)

GroupPolicy(n) ==
    \E id \in Ids : \E on \in BOOLEAN :
        /\ HasGroupCap(n, id, "group.policy")
        /\ Has(store, id)
        /\ Commit(<<Policy(id, on)>>)

GroupRoleCaps(n) ==
    \E id \in Ids : \E role \in GivenRoles : \E caps \in GivenCaps :
        /\ HasGroupCap(n, id, "group.rolecaps")
        /\ Has(store, id)
        /\ Commit(<<RoleCaps(id, role, caps)>>)

(* A write that is cut short, by an error or by the end of the process: the *)
(* world is gone; the line may be complete but for its newline.             *)
WriteCutShort(n) ==
    /\ Len(lines) < MaxLog
    /\ HasCap(n, "group.create")
    /\ \E id \in Ids \ {Admins, Classes} :
          /\ ~Has(store, id)
          /\ \/ lines' = Append(lines, Create(id)) /\ tail' = "open"
             \/ lines' = lines /\ tail' = "torn"
    /\ garbled' = (garbled \/ tail # "clean")
    /\ running' = FALSE
    /\ cutShort' = TRUE
    /\ UNCHANGED <<store, next>>

-----------------------------------------------------------------------------
(* The broker's connection ends; World::new for the next one: RaftLog::open *)
(* refuses a file with a line it cannot parse, ensure_genesis_groups        *)
(* appends what is missing, and the bootstrap admins every time.            *)
WorldEnds ==
    /\ running
    /\ running' = FALSE
    /\ UNCHANGED <<store, lines, tail, garbled, next, cutShort>>

Readable == ~garbled /\ tail # "torn"

Genesis(st) ==
    LET Missing(id) == IF Has(st, id) THEN <<>> ELSE <<Create(id)>>
        admins      == SetToSeq(Bootstrap) IN
    Missing(Admins) \o Missing(Classes)
        \o [i \in 1..Len(admins) |-> Member(Admins, Acct(admins[i]), "member")]

WorldStarts ==
    LET replayed == Replay(lines)
        genesis  == Genesis(replayed) IN
    /\ ~running
    /\ Readable
    /\ Len(lines) + Len(genesis) <= MaxLog
    /\ running' = TRUE
    /\ lines' = lines \o genesis
    /\ garbled' = (genesis # <<>> /\ tail # "clean")
    /\ tail' = IF genesis = <<>> THEN tail ELSE "clean"
    /\ store' = Applied(replayed, genesis)
    /\ next' = Len(lines) + 1 + Len(genesis)
    /\ UNCHANGED cutShort

GroupInit ==
    /\ running = FALSE
    /\ store = EmptyStore
    /\ lines = <<>> /\ tail = "clean" /\ garbled = FALSE
    /\ next = 1
    /\ cutShort = FALSE

GroupCommand(n) ==
    /\ running
    /\ \/ GroupCreate(n) \/ GroupAdd(n) \/ GroupRemove(n)
       \/ GroupPolicy(n) \/ GroupRoleCaps(n) \/ WriteCutShort(n)

GroupNext ==
    \/ \E n \in Names : GroupCommand(n)
    \/ WorldEnds
    \/ WorldStarts

GroupSpec == GroupInit /\ [][GroupNext]_groupVars

-----------------------------------------------------------------------------
(* What the running world knows is what the log says, with an index for     *)
(* every line, so the next world starts from the same groups.               *)
StoreIsReplay ==
    running => store = Replay(lines) /\ next = Len(lines) + 1

(* A log that no write was cut short of can be read by the next world.      *)
LogStaysReadable == ~cutShort => Readable

(* Nobody's powers in a group grow but by a step that somebody with power   *)
(* over that group could take, by its creation, or by a new world.          *)
PowersAreGranted ==
    [][running /\ running' /\ store' # store =>
        \A id \in Ids : \A k \in MemberKeys :
            CapsIn(id, k)' \subseteq CapsIn(id, k)
            \/ ~Has(store, id)
            \/ \E n \in Names : \E cap \in Managing : HasGroupCap(n, id, cap)
      ]_groupVars

(* groups.rs, apply_default_role_caps: "Owners/officers can manage          *)
(* membership/policies by default."                                         *)
OfficersManage ==
    running =>
        \A id \in Ids \ {Admins, Classes} : \A n \in Names :
            Has(store, id) =>
                LET role == RoleIn(id, Acct(n)) IN
                role \in {"owner", "officer"}
                  /\ store[id].caps = DefaultCaps(id)
                  => HasGroupCap(n, id, "group.member")

(* The group store is its log replayed, through restarts, and the log can   *)
(* be read again as long as no write was cut short.                         *)
GroupInv == StoreIsReplay /\ LogStaysReadable

=============================================================================
