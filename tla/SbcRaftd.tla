------------------------------ MODULE SbcRaftd ------------------------------
(***************************************************************************)
(* sbc_raftd (apps/sbc_raftd/src/main.rs), the daemon that owns the        *)
(* source-ban and legal-hold tables.  One mutex guards PersistedState; each *)
(* admin connection is a task that changes it under the lock and broadcasts *)
(* the event after unlocking; each events connection is a task that first  *)
(* writes a snapshot and then subscribes to the broadcast channel; a reaper *)
(* removes bans whose TTL has passed; a persister copies the state to disk. *)
(*                                                                         *)
(* Left out: created_by, reason and created_at_unix of an entry (no code    *)
(* reads them), the requests that answer without changing the state         *)
(* (GetState, an empty hold name, an unparsable CIDR).                      *)
(***************************************************************************)
EXTENDS Naturals, Sequences, FiniteSets, Functions

CONSTANTS Clients,       \* admin connections that may be open at once
          Subscribers,   \* events connections
          SnapshotSubs,  \* those that subscribe with SubscribeMode::Snapshot
          Keys,          \* canonical CIDR strings
          BanIds,        \* values rand_hex_16 may return
          Ttls,          \* ttl_s of an UpsertBan, 0 for "never expires"
          HoldNames,     \* trimmed lower-case names put on legal hold
          Statuses,      \* EnforcementStatus payloads
          Reports,       \* BanApplyResult payloads, [at : node/ban/op, result]
          ChannelCap,    \* broadcast::channel capacity (1024 in the code)
          MaxTime,       \* bound on the clock
          MaxIndex,      \* bound on the index an admin request may take
          None

Reaper == <<"reaper">>
Tasks  == Clients \cup {Reaper}
NodeOf(status) == status.node_id

ASSUME RaftdAssumption ==
    /\ SnapshotSubs \subseteq Subscribers
    /\ IsFiniteSet(BanIds)
    /\ None \notin BanIds
    /\ Reaper \notin Clients
    /\ Ttls \subseteq Nat
    /\ ChannelCap \in Nat \ {0}
    /\ MaxTime \in Nat
    /\ MaxIndex \in Nat

VARIABLES
    now,             \* now_unix(), seconds
    st,              \* Arc<Mutex<PersistedState>>
    usedIds,         \* ban ids generated so far: a random id never repeats
    outbox,          \* per task: events produced under the lock, not yet sent
    sub,             \* per events connection: how far handle_events_conn got
    rx,              \* per events connection: its broadcast receiver
    wire,            \* per events connection: lines written, not yet read
    disk,            \* contents of the state file
    writing,         \* the persister's clone on its way to disk, or None
    last_persisted   \* the persister's last_persisted index

raftdVars == <<now, st, usedIds, outbox, sub, rx, wire, disk, writing, last_persisted>>

-----------------------------------------------------------------------------
Ban      == [ban_id : BanIds, key : Keys, expires : Nat]
Event    == [type : {"ban_upserted"}, entry : Ban]
              \cup [type : {"ban_deleted"}, ban_id : BanIds]
              \cup [type : {"hold_upserted", "hold_deleted"}, name : HoldNames]
              \cup [type : {"status"}, status : Statuses]
              \cup [type : {"apply_result"}, report : Reports]
Snapshot == [type : {"snapshot"}, bans : SUBSET Ban, holds : SUBSET HoldNames]
Envelope == [index : Nat, event : Event]
Line     == Envelope \cup [index : Nat, event : Snapshot]

PersistedState ==
    [next_index : Nat \ {0}, bans : SUBSET Ban, ban_by_key : [Keys -> BanIds \cup {None}],
     holds : SUBSET HoldNames, last_status : SUBSET Statuses, last_apply : SUBSET Reports]

\* Fault: #[derive(Default)] would start the indexes at 0.
DefaultState ==
    [next_index |-> 0, bans |-> {}, ban_by_key |-> [k \in Keys |-> None],
     holds |-> {}, last_status |-> {}, last_apply |-> {}]

EmptyState ==
    [next_index |-> 1, bans |-> {}, ban_by_key |-> [k \in Keys |-> None],
     holds |-> {}, last_status |-> {}, last_apply |-> {}]

\* bans.insert(ban_id, entry) and bans.remove(&ban_id) on the ban_id -> entry map.
WithoutIds(bans, ids) == {b \in bans : b.ban_id \notin ids}
WithBan(bans, entry)  == WithoutIds(bans, {entry.ban_id}) \cup {entry}

\* Fault: the key index forgotten.
DropBansOnly(s, ids) == [s EXCEPT !.bans = WithoutIds(s.bans, ids)]

\* bans.remove of each id together with ban_by_key.remove of the entry's key.
DropBans(s, ids) ==
    [s EXCEPT !.bans = WithoutIds(s.bans, ids),
              !.ban_by_key = [k \in Keys |->
                  IF \E b \in s.bans : b.ban_id \in ids /\ b.key = k THEN None ELSE @[k]]]

ExpiryOf(ttl)  == IF ttl = 0 THEN 0 ELSE now + ttl
IsExpired(b)   == b.expires # 0 /\ b.expires <= now
Expired        == {b \in st.bans : IsExpired(b)}
Orders(S)      == UNION {Bijection(1..n, S) : n \in 0..Cardinality(BanIds)}

\* Where a subscriber's handler stands when it may call tx.subscribe().
ReadyToTail(n) == sub[n] = IF n \in SnapshotSubs THEN "snapshotted" ELSE "subscribed"

\* A full broadcast receiver loses its oldest event (RecvError::Lagged).
Push(q, e) == Append(IF Len(q) = ChannelCap THEN Tail(q) ELSE q, e)

-----------------------------------------------------------------------------
Init ==
    /\ now = 1
    /\ st = EmptyState
    /\ usedIds = {}
    /\ outbox = [t \in Tasks |-> <<>>]
    /\ sub = [n \in Subscribers |-> "closed"]
    /\ rx = [n \in Subscribers |-> <<>>]
    /\ wire = [n \in Subscribers |-> <<>>]
    /\ disk = EmptyState
    /\ writing = None
    /\ last_persisted = 0

-----------------------------------------------------------------------------
(* handle_admin_conn: one locked section per request, then the broadcast.   *)

\* Fault: the index taken but not bumped.
CommitWithoutBump(c, s, event) ==
    /\ st' = s
    /\ outbox' = [outbox EXCEPT ![c] = <<[index |-> s.next_index, event |-> event]>>]
    /\ UNCHANGED <<now, sub, rx, wire, disk, writing, last_persisted>>

\* The end of every mutating arm: take an index, bump it, leave the event to
\* be sent once the lock is released.
Commit(c, s, event) ==
    /\ st' = [s EXCEPT !.next_index = @ + 1]
    /\ outbox' = [outbox EXCEPT ![c] = <<[index |-> s.next_index, event |-> event]>>]
    /\ UNCHANGED <<now, sub, rx, wire, disk, writing, last_persisted>>

MayAsk(c) == outbox[c] = <<>> /\ st.next_index <= MaxIndex

UpsertBan(c, k, ttl) ==
    /\ MayAsk(c)
    /\ \E id \in IF st.ban_by_key[k] # None THEN {st.ban_by_key[k]} ELSE BanIds \ usedIds :
         LET entry == [ban_id |-> id, key |-> k, expires |-> ExpiryOf(ttl)] IN
         /\ usedIds' = usedIds \cup {id}
         /\ Commit(c, [st EXCEPT !.bans = WithBan(@, entry), !.ban_by_key[k] = id],
                   [type |-> "ban_upserted", entry |-> entry])

DeleteBan(c, id) ==
    /\ MayAsk(c)
    /\ Commit(c, DropBans(st, {id}), [type |-> "ban_deleted", ban_id |-> id])
    /\ UNCHANGED usedIds

UpsertLegalHold(c, name) ==
    /\ MayAsk(c)
    /\ Commit(c, [st EXCEPT !.holds = @ \cup {name}], [type |-> "hold_upserted", name |-> name])
    /\ UNCHANGED usedIds

DeleteLegalHold(c, name) ==
    /\ MayAsk(c)
    /\ Commit(c, [st EXCEPT !.holds = @ \ {name}], [type |-> "hold_deleted", name |-> name])
    /\ UNCHANGED usedIds

\* last_status_by_node and last_apply_by_node_ban keep one entry per node, and
\* per node, ban and op.
ReportEnforcementStatus(c, s) ==
    /\ MayAsk(c)
    /\ Commit(c, [st EXCEPT !.last_status = {x \in @ : NodeOf(x) # NodeOf(s)} \cup {s}],
              [type |-> "status", status |-> s])
    /\ UNCHANGED usedIds

ReportBanApplyResult(c, r) ==
    /\ MayAsk(c)
    /\ Commit(c, [st EXCEPT !.last_apply = {x \in @ : x.at # r.at} \cup {r}],
              [type |-> "apply_result", report |-> r])
    /\ UNCHANGED usedIds

\* Fault: one index for all the bans of a sweep.
ReapUnderOneIndex ==
    /\ outbox[Reaper] = <<>>
    /\ Expired # {}
    /\ \E order \in Orders(Expired) :
         /\ st' = [DropBans(st, {b.ban_id : b \in Expired}) EXCEPT !.next_index = @ + 1]
         /\ outbox' = [outbox EXCEPT ![Reaper] =
               [i \in DOMAIN order |-> [index |-> st.next_index,
                                        event |-> [type |-> "ban_deleted", ban_id |-> order[i].ban_id]]]]
    /\ UNCHANGED <<now, usedIds, sub, rx, wire, disk, writing, last_persisted>>

\* The TTL reaper: one locked section removes every expired ban and numbers
\* the BanDeleted events in the map's iteration order.
Reap ==
    /\ outbox[Reaper] = <<>>
    /\ Expired # {}
    /\ \E order \in Orders(Expired) :
         LET n == Len(order) IN
         /\ st' = [DropBans(st, {b.ban_id : b \in Expired}) EXCEPT !.next_index = @ + n]
         /\ outbox' = [outbox EXCEPT ![Reaper] =
               [i \in 1..n |-> [index |-> st.next_index + i - 1,
                                event |-> [type |-> "ban_deleted", ban_id |-> order[i].ban_id]]]]
    /\ UNCHANGED <<now, usedIds, sub, rx, wire, disk, writing, last_persisted>>

\* tx.send(ev), by whichever task holds the event.
Broadcast(t) ==
    /\ outbox[t] # <<>>
    /\ outbox' = [outbox EXCEPT ![t] = Tail(@)]
    /\ rx' = [n \in Subscribers |->
                IF sub[n] = "live" THEN Push(rx[n], Head(outbox[t])) ELSE rx[n]]
    /\ UNCHANGED <<now, st, usedIds, sub, wire, disk, writing, last_persisted>>

-----------------------------------------------------------------------------
(* handle_events_conn                                                       *)

Subscribe(n) ==
    /\ sub[n] = "closed" /\ wire[n] = <<>>
    /\ sub' = [sub EXCEPT ![n] = "subscribed"]
    /\ UNCHANGED <<now, st, usedIds, outbox, rx, wire, disk, writing, last_persisted>>

\* Fault: the snapshot taken from what the persister saved.
SendSavedSnapshot(n) ==
    /\ n \in SnapshotSubs /\ sub[n] = "subscribed"
    /\ sub' = [sub EXCEPT ![n] = "snapshotted"]
    /\ wire' = [wire EXCEPT ![n] = Append(@,
          [index |-> st.next_index - 1,
           event |-> [type |-> "snapshot", bans |-> disk.bans, holds |-> disk.holds]])]
    /\ UNCHANGED <<now, st, usedIds, outbox, rx, disk, writing, last_persisted>>

SendSnapshot(n) ==
    /\ n \in SnapshotSubs /\ sub[n] = "subscribed"
    /\ sub' = [sub EXCEPT ![n] = "snapshotted"]
    /\ wire' = [wire EXCEPT ![n] = Append(@,
          [index |-> st.next_index - 1,
           event |-> [type |-> "snapshot", bans |-> st.bans, holds |-> st.holds]])]
    /\ UNCHANGED <<now, st, usedIds, outbox, rx, disk, writing, last_persisted>>

StartTail(n) ==
    /\ ReadyToTail(n)
    /\ sub' = [sub EXCEPT ![n] = "live"]
    /\ UNCHANGED <<now, st, usedIds, outbox, rx, wire, disk, writing, last_persisted>>

Forward(n) ==
    /\ rx[n] # <<>>
    /\ rx' = [rx EXCEPT ![n] = Tail(@)]
    /\ wire' = [wire EXCEPT ![n] = Append(@, Head(rx[n]))]
    /\ UNCHANGED <<now, st, usedIds, outbox, sub, disk, writing, last_persisted>>

\* The subscriber reads a line (a component of its own where this module is
\* composed with one).
Deliver(n) ==
    /\ wire[n] # <<>>
    /\ wire' = [wire EXCEPT ![n] = Tail(@)]
    /\ UNCHANGED <<now, st, usedIds, outbox, sub, rx, disk, writing, last_persisted>>

-----------------------------------------------------------------------------
(* The persister, the clock, and a crash followed by a restart.             *)

\* Fault: the last mutation left for the next one to save.
StartLatePersist ==
    /\ writing = None
    /\ st.next_index > last_persisted + 1
    /\ writing' = st
    /\ UNCHANGED <<now, st, usedIds, outbox, sub, rx, wire, disk, last_persisted>>

StartPersist ==
    /\ writing = None
    /\ st.next_index # last_persisted
    /\ writing' = st
    /\ UNCHANGED <<now, st, usedIds, outbox, sub, rx, wire, disk, last_persisted>>

\* Fault: last_persisted read from the state when the write is over.
FinishPersistOfNow ==
    /\ writing # None
    /\ disk' = writing
    /\ last_persisted' = st.next_index
    /\ writing' = None
    /\ UNCHANGED <<now, st, usedIds, outbox, sub, rx, wire>>

\* atomic_write_json: temporary file and rename.
FinishPersist ==
    /\ writing # None
    /\ disk' = writing
    /\ last_persisted' = writing.next_index
    /\ writing' = None
    /\ UNCHANGED <<now, st, usedIds, outbox, sub, rx, wire>>

\* Fault: the file truncated in place before it is written.
PersistTears ==
    /\ writing # None
    /\ disk' = EmptyState
    /\ writing' = None
    /\ UNCHANGED <<now, st, usedIds, outbox, sub, rx, wire, last_persisted>>

PersistFails ==
    /\ writing # None
    /\ writing' = None
    /\ UNCHANGED <<now, st, usedIds, outbox, sub, rx, wire, disk, last_persisted>>

Tick ==
    /\ now < MaxTime
    /\ now' = now + 1
    /\ UNCHANGED <<st, usedIds, outbox, sub, rx, wire, disk, writing, last_persisted>>

\* PersistedState::load after a crash.  Lines already written stay readable
\* until the subscriber meets the end of the stream.
CrashRestart ==
    /\ st' = disk
    /\ outbox' = [t \in Tasks |-> <<>>]
    /\ sub' = [n \in Subscribers |-> "closed"]
    /\ rx' = [n \in Subscribers |-> <<>>]
    /\ writing' = None
    /\ last_persisted' = 0
    /\ UNCHANGED <<now, usedIds, wire, disk>>

-----------------------------------------------------------------------------
AdminRequest(c) ==
    \/ \E k \in Keys, ttl \in Ttls : UpsertBan(c, k, ttl)
    \/ \E id \in usedIds : DeleteBan(c, id)
    \/ \E name \in HoldNames : UpsertLegalHold(c, name)
    \/ \E name \in HoldNames : DeleteLegalHold(c, name)
    \/ \E s \in Statuses : ReportEnforcementStatus(c, s)
    \/ \E r \in Reports : ReportBanApplyResult(c, r)

Internal ==
    \/ Reap
    \/ \E t \in Tasks : Broadcast(t)
    \/ \E n \in Subscribers : SendSnapshot(n)
    \/ \E n \in Subscribers : StartTail(n)
    \/ \E n \in Subscribers : Forward(n)
    \/ StartPersist
    \/ FinishPersist

Environment ==
    \/ Tick
    \/ \E n \in Subscribers : Subscribe(n)
    \/ \E n \in Subscribers : Deliver(n)
    \/ PersistFails
    \/ CrashRestart

Next == (\E c \in Clients : AdminRequest(c)) \/ Internal \/ Environment

Spec == Init /\ [][Next]_raftdVars

\* Time passes, and tasks that have been spawned run: the persister and the
\* reaper are timer loops, the handlers only ever wait for the mutex or for
\* their own socket.  A disk that works infinitely often lets a write finish.
Fairness ==
    /\ WF_raftdVars(Tick)
    /\ WF_raftdVars(Reap)
    /\ \A t \in Tasks : WF_raftdVars(Broadcast(t))
    /\ WF_raftdVars(StartPersist)
    /\ SF_raftdVars(FinishPersist)

FairSpec == Spec /\ Fairness

-----------------------------------------------------------------------------
\* Type invariant.
TypeOK ==
    /\ now \in Nat
    /\ st \in PersistedState
    /\ usedIds \subseteq BanIds
    /\ outbox \in [Tasks -> Seq(Envelope)]
    /\ sub \in [Subscribers -> {"closed", "subscribed", "snapshotted", "live"}]
    /\ rx \in [Subscribers -> Seq(Envelope)]
    /\ wire \in [Subscribers -> Seq(Line)]
    /\ disk \in PersistedState
    /\ writing \in PersistedState \cup {None}
    /\ last_persisted \in Nat

\* The states PersistedState has in memory, on disk and on its way there.
Copies == {st, disk} \cup ({writing} \ {None})

Indexed(s) ==
    /\ \A b \in s.bans : s.ban_by_key[b.key] = b.ban_id
    /\ \A k \in Keys : s.ban_by_key[k] # None =>
           \E b \in s.bans : b.key = k /\ b.ban_id = s.ban_by_key[k]
    /\ \A b, c \in s.bans : b.ban_id = c.ban_id => b = c

\* bans and ban_by_key describe the same bans: every ban is found under its
\* prefix, and a prefix is only mapped to a ban that exists.  UpsertBan trusts
\* this when it reuses the id it finds, after any mix of upserts, deletes,
\* expiries, crashes and reloads.
KeyIndexed == \A s \in Copies : Indexed(s)

\* The persister compares only next_index with last_persisted to decide that
\* the file is up to date.  That is right because equal indexes mean equal
\* states, whatever was lost or reused across crashes.
IndexNamesState ==
    \A s \in Copies :
        /\ s.next_index <= st.next_index
        /\ s.next_index = st.next_index => s = st

\* The persister never believes more than the file holds: when its
\* last_persisted equals the current index, the file holds the current state.
CaughtUpMeansSaved == last_persisted = st.next_index => disk = st

\* Envelopes that tasks still hold or receivers have buffered.
InFlight == (UNION {Range(outbox[t]) : t \in Tasks}) \cup (UNION {Range(rx[n]) : n \in Subscribers})

\* An index numbers one event: two tasks that broadcast after unlocking never
\* hold different events with the same index.
IndexesUnique ==
    /\ \A e \in InFlight : e.index < st.next_index
    /\ \A e, f \in InFlight : e.index = f.index => e = f

\* What any handler changes reaches the disk, unless a crash undoes it first.
SavedOrUndone ==
    \A i \in 1..MaxIndex :
        (st.next_index > i) ~> (disk.next_index > i \/ st.next_index <= i)

\* A ban does not outlive its TTL for good: once expired, it leaves the table
\* or is renewed.
ExpiredReaped ==
    \A k \in Keys :
        (\E b \in st.bans : b.key = k /\ b.expires # 0 /\ b.expires <= now)
          ~> ~(\E b \in st.bans : b.key = k /\ b.expires # 0 /\ b.expires <= now)

\* Every mutation takes effect in the end, unless a crash undoes it: the
\* persister saves what the handlers change, the reaper removes what expired.
MutationsTakeEffect == SavedOrUndone /\ ExpiredReaped

=============================================================================
