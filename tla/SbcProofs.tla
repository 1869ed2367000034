------------------------------ MODULE SbcProofs ------------------------------
(***************************************************************************)
(* Proofs about sbc_raftd and about the source-ban control plane.           *)
(* SbcRaftd, for any sets of clients, subscribers, prefixes and holds: type *)
(* correctness and the invariants its run checks; then that every copy of   *)
(* the tables is the replay of the events below its index, and that the     *)
(* daemon implements a durable log.  The replay is a recursive function;    *)
(* what it computes is proved by the induction of DataInduction.            *)
(* SbcSystem: a node that missed nothing follows sbc_raftd.  What is under  *)
(* way to a node is read one ban id at a time: the last line about an id    *)
(* says what its entry is, and the lines before it do not matter.           *)
(***************************************************************************)
EXTENDS SbcSystem, SbcRaftdLog, DataInduction, FiniteSetTheorems, SequenceTheorems, TLAPS

-----------------------------------------------------------------------------
(* The tables of one PersistedState.                                        *)

LEMMA WithBanType ==
    ASSUME NEW bans \in SUBSET Ban, NEW entry \in Ban
    PROVE  WithBan(bans, entry) \in SUBSET Ban
BY DEF WithBan, WithoutIds

LEMMA DropBansType ==
    ASSUME NEW s \in PersistedState, NEW ids
    PROVE  /\ DropBans(s, ids) \in PersistedState
           /\ DropBans(s, ids).next_index = s.next_index
BY DEF DropBans, WithoutIds, PersistedState

LEMMA EmptyStateType == EmptyState \in PersistedState
BY DEF EmptyState, PersistedState

\* Expired bans can be listed, in sequences of at least one.
LEMMA OrdersAreLists ==
    ASSUME NEW S, NEW order \in Orders(S)
    PROVE  \E n \in Nat : /\ order \in [1..n -> S]
                          /\ S # {} => n # 0
                          /\ \A x \in S : \E i \in 1..n : order[i] = x
<1>1. Cardinality(BanIds) \in Nat
  BY RaftdAssumption, FS_CardinalityType
<1>2. PICK n \in 0..Cardinality(BanIds) : order \in Bijection(1..n, S)
  BY DEF Orders
<1>3. n \in Nat
  BY <1>1, <1>2
<1>4. /\ order \in [1..n -> S]
      /\ \A x \in S : \E i \in 1..n : order[i] = x
  BY <1>2 DEF Bijection, Injection, Surjection
<1>5. S # {} => n # 0
  BY <1>3, <1>4, SMT
<1> QED
  BY <1>3, <1>4, <1>5

-----------------------------------------------------------------------------
(* Type correctness.                                                        *)

LEMMA CommitType ==
    ASSUME TypeOK, NEW c \in Clients, NEW s \in PersistedState, NEW event \in Event,
           Commit(c, s, event), usedIds' \subseteq BanIds
    PROVE  TypeOK'
<1>1. st' \in PersistedState
  BY DEF Commit, PersistedState
<1>2. outbox' \in [Tasks -> Seq(Envelope)]
  <2>1. <<[index |-> s.next_index, event |-> event]>> \in Seq(Envelope)
    BY DEF PersistedState, Envelope
  <2> QED
    BY <2>1 DEF Commit, TypeOK, Tasks
<1> QED
  BY <1>1, <1>2 DEF Commit, TypeOK

LEMMA RequestType ==
    ASSUME TypeOK, NEW c \in Clients, AdminRequest(c)
    PROVE  TypeOK'
<1> st \in PersistedState /\ usedIds \subseteq BanIds /\ now \in Nat
  BY DEF TypeOK
<1>1. CASE \E k \in Keys, ttl \in Ttls : UpsertBan(c, k, ttl)
  <2> PICK k \in Keys, ttl \in Ttls : UpsertBan(c, k, ttl)
    BY <1>1
  <2>1. PICK id \in (IF st.ban_by_key[k] # None THEN {st.ban_by_key[k]} ELSE BanIds \ usedIds) :
          LET entry == [ban_id |-> id, key |-> k, expires |-> ExpiryOf(ttl)] IN
          /\ usedIds' = usedIds \cup {id}
          /\ Commit(c, [st EXCEPT !.bans = WithBan(@, entry), !.ban_by_key[k] = id],
                    [type |-> "ban_upserted", entry |-> entry])
    BY DEF UpsertBan
  <2> DEFINE entry == [ban_id |-> id, key |-> k, expires |-> ExpiryOf(ttl)]
             s == [st EXCEPT !.bans = WithBan(@, entry), !.ban_by_key[k] = id]
             event == [type |-> "ban_upserted", entry |-> entry]
  <2>2. id \in BanIds
    BY <2>1 DEF PersistedState
  <2>3. entry \in Ban
    BY <2>2, RaftdAssumption DEF ExpiryOf, Ban
  <2>4. WithBan(st.bans, entry) \in SUBSET Ban
    BY <2>3, WithBanType DEF PersistedState
  <2>5. s \in PersistedState
    BY <2>2, <2>4 DEF PersistedState
  <2>6. event \in Event
    BY <2>3 DEF Event
  <2>7. Commit(c, s, event) /\ usedIds' \subseteq BanIds
    BY <2>1, <2>2
  <2> HIDE DEF s, event
  <2> QED
    BY <2>5, <2>6, <2>7, CommitType
<1>2. CASE \E id \in usedIds : DeleteBan(c, id)
  <2> PICK id \in usedIds : DeleteBan(c, id)
    BY <1>2
  <2>1. [type |-> "ban_deleted", ban_id |-> id] \in Event
    BY DEF Event
  <2> QED
    BY <2>1, DropBansType, CommitType DEF DeleteBan
<1>3. CASE \E name \in HoldNames : UpsertLegalHold(c, name)
  <2> PICK name \in HoldNames : UpsertLegalHold(c, name)
    BY <1>3
  <2>1. [type |-> "hold_upserted", name |-> name] \in Event
    BY DEF Event
  <2>2. [st EXCEPT !.holds = @ \cup {name}] \in PersistedState
    BY DEF PersistedState
  <2> QED
    BY <2>1, <2>2, CommitType DEF UpsertLegalHold
<1>4. CASE \E name \in HoldNames : DeleteLegalHold(c, name)
  <2> PICK name \in HoldNames : DeleteLegalHold(c, name)
    BY <1>4
  <2>1. [type |-> "hold_deleted", name |-> name] \in Event
    BY DEF Event
  <2>2. [st EXCEPT !.holds = @ \ {name}] \in PersistedState
    BY DEF PersistedState
  <2> QED
    BY <2>1, <2>2, CommitType DEF DeleteLegalHold
<1>5. CASE \E s \in Statuses : ReportEnforcementStatus(c, s)
  <2> PICK s \in Statuses : ReportEnforcementStatus(c, s)
    BY <1>5
  <2>1. [type |-> "status", status |-> s] \in Event
    BY DEF Event
  <2>2. [st EXCEPT !.last_status = {x \in @ : NodeOf(x) # NodeOf(s)} \cup {s}] \in PersistedState
    BY DEF PersistedState
  <2> QED
    BY <2>1, <2>2, CommitType DEF ReportEnforcementStatus
<1>6. CASE \E r \in Reports : ReportBanApplyResult(c, r)
  <2> PICK r \in Reports : ReportBanApplyResult(c, r)
    BY <1>6
  <2>1. [type |-> "apply_result", report |-> r] \in Event
    BY DEF Event
  <2>2. [st EXCEPT !.last_apply = {x \in @ : x.at # r.at} \cup {r}] \in PersistedState
    BY DEF PersistedState
  <2> QED
    BY <2>1, <2>2, CommitType DEF ReportBanApplyResult
<1> QED
  BY <1>1, <1>2, <1>3, <1>4, <1>5, <1>6 DEF AdminRequest

LEMMA ReapType == TypeOK /\ Reap => TypeOK'
<1> SUFFICES ASSUME TypeOK, Reap PROVE TypeOK'
  OBVIOUS
<1>1. PICK order \in Orders(Expired) :
        LET n == Len(order) IN
        /\ st' = [DropBans(st, {b.ban_id : b \in Expired}) EXCEPT !.next_index = @ + n]
        /\ outbox' = [outbox EXCEPT ![Reaper] =
              [i \in 1..n |-> [index |-> st.next_index + i - 1,
                               event |-> [type |-> "ban_deleted", ban_id |-> order[i].ban_id]]]]
  BY DEF Reap
<1>2. PICK n \in Nat : order \in [1..n -> Expired]
  BY OrdersAreLists
<1>3. Len(order) = n
  BY <1>2
<1>4. Expired \subseteq Ban
  BY DEF Expired, TypeOK, PersistedState
<1>5. st' \in PersistedState
  <2> DEFINE rest == DropBans(st, {b.ban_id : b \in Expired})
  <2>1. rest \in PersistedState
    BY DropBansType DEF TypeOK
  <2>2. st' = [rest EXCEPT !.next_index = @ + n]
    BY <1>1, <1>3
  <2> HIDE DEF rest
  <2> QED
    BY <2>1, <2>2 DEF PersistedState
<1>6. outbox' \in [Tasks -> Seq(Envelope)]
  <2> DEFINE Sent(i) == [index |-> st.next_index + i - 1,
                         event |-> [type |-> "ban_deleted", ban_id |-> order[i].ban_id]]
  <2>1. \A i \in 1..n : Sent(i) \in Envelope
    <3> TAKE i \in 1..n
    <3>1. order[i].ban_id \in BanIds
      BY <1>2, <1>4 DEF Ban
    <3>2. [type |-> "ban_deleted", ban_id |-> order[i].ban_id] \in Event
      BY <3>1 DEF Event
    <3>3. st.next_index + i - 1 \in Nat
      BY DEF TypeOK, PersistedState
    <3> QED
      BY <3>2, <3>3 DEF Envelope
  <2>2. [i \in 1..n |-> Sent(i)] \in Seq(Envelope)
    <3> HIDE DEF Sent
    <3> QED
      BY <2>1
  <2> QED
    BY <1>1, <1>3, <2>2 DEF TypeOK, Tasks
<1> QED
  BY <1>5, <1>6 DEF Reap, TypeOK

LEMMA PushType ==
    ASSUME NEW S, NEW q \in Seq(S), NEW e \in S
    PROVE  Push(q, e) \in Seq(S)
<1>1. CASE Len(q) = ChannelCap
  <2>1. q # <<>>
    BY <1>1, RaftdAssumption
  <2> QED
    BY <1>1, <2>1 DEF Push
<1>2. CASE Len(q) # ChannelCap
  BY <1>2 DEF Push
<1> QED
  BY <1>1, <1>2

LEMMA BroadcastType ==
    ASSUME TypeOK, NEW t \in Tasks, Broadcast(t)
    PROVE  TypeOK'
<1>1. /\ outbox[t] \in Seq(Envelope) /\ outbox[t] # <<>>
      /\ Head(outbox[t]) \in Envelope /\ Tail(outbox[t]) \in Seq(Envelope)
  BY DEF TypeOK, Broadcast
<1>2. outbox' \in [Tasks -> Seq(Envelope)]
  BY <1>1 DEF TypeOK, Broadcast
<1>3. rx' \in [Subscribers -> Seq(Envelope)]
  BY <1>1, PushType DEF TypeOK, Broadcast
<1> QED
  BY <1>2, <1>3 DEF TypeOK, Broadcast

LEMMA EventsConnType ==
    ASSUME TypeOK, NEW n \in Subscribers,
           Subscribe(n) \/ SendSnapshot(n) \/ StartTail(n) \/ Forward(n) \/ Deliver(n)
    PROVE  TypeOK'
<1>1. CASE Subscribe(n)
  BY <1>1 DEF Subscribe, TypeOK
<1>2. CASE SendSnapshot(n)
  <2> DEFINE line == [index |-> st.next_index - 1,
                      event |-> [type |-> "snapshot", bans |-> st.bans, holds |-> st.holds]]
  <2>1. line \in Line
    BY DEF TypeOK, PersistedState, Snapshot, Line
  <2> QED
    BY <1>2, <2>1 DEF SendSnapshot, TypeOK
<1>3. CASE StartTail(n)
  BY <1>3 DEF StartTail, TypeOK
<1>4. CASE Forward(n)
  <2>1. Head(rx[n]) \in Line /\ Tail(rx[n]) \in Seq(Envelope)
    BY <1>4 DEF Forward, TypeOK, Line
  <2> QED
    BY <1>4, <2>1 DEF Forward, TypeOK
<1>5. CASE Deliver(n)
  BY <1>5 DEF Deliver, TypeOK
<1> QED
  BY <1>1, <1>2, <1>3, <1>4, <1>5

LEMMA InitType == Init => TypeOK
BY EmptyStateType DEF Init, TypeOK

LEMMA StepType == TypeOK /\ [Next]_raftdVars => TypeOK'
<1> SUFFICES ASSUME TypeOK, [Next]_raftdVars PROVE TypeOK'
  OBVIOUS
<1>1. CASE \E c \in Clients : AdminRequest(c)
  BY <1>1, RequestType
<1>2. CASE Reap
  BY <1>2, ReapType
<1>3. CASE \E t \in Tasks : Broadcast(t)
  BY <1>3, BroadcastType
<1>4. CASE \E n \in Subscribers : \/ Subscribe(n) \/ SendSnapshot(n) \/ StartTail(n)
                                  \/ Forward(n) \/ Deliver(n)
  BY <1>4, EventsConnType
<1>5. CASE StartPersist
  BY <1>5 DEF StartPersist, TypeOK
<1>6. CASE FinishPersist
  BY <1>6 DEF FinishPersist, TypeOK, PersistedState
<1>7. CASE PersistFails
  BY <1>7 DEF PersistFails, TypeOK
<1>8. CASE Tick
  BY <1>8 DEF Tick, TypeOK
<1>9. CASE CrashRestart
  BY <1>9 DEF CrashRestart, TypeOK
<1>10. CASE UNCHANGED raftdVars
  BY <1>10 DEF raftdVars, TypeOK
<1> QED
  BY <1>1, <1>2, <1>3, <1>4, <1>5, <1>6, <1>7, <1>8, <1>9, <1>10
     DEF Next, Internal, Environment

\* Type correctness: whatever the handlers, the reaper, the persister and
\* crashes do, every variable keeps its type.
THEOREM TypeCorrect == Spec => []TypeOK
BY InitType, StepType, PTL DEF Spec

-----------------------------------------------------------------------------
(* What an index stands for.                                                *)

\* A locked section that changes the tables takes at least one index and
\* leaves the file and the persister alone.
Mutation ==
    /\ st'.next_index > st.next_index
    /\ UNCHANGED <<disk, writing, last_persisted>>

LEMMA RequestMutates ==
    ASSUME TypeOK, NEW c \in Clients, AdminRequest(c)
    PROVE  Mutation
<1> USE DEF Commit, Mutation, TypeOK, PersistedState
<1>1. CASE \E k \in Keys, ttl \in Ttls : UpsertBan(c, k, ttl)
  BY <1>1 DEF UpsertBan
<1>2. CASE \E id \in usedIds : DeleteBan(c, id)
  <2> PICK id \in usedIds : DeleteBan(c, id)
    BY <1>2
  <2> DEFINE s == DropBans(st, {id})
  <2>1. s \in PersistedState /\ s.next_index = st.next_index
    BY DropBansType
  <2>2. Commit(c, s, [type |-> "ban_deleted", ban_id |-> id])
    BY DEF DeleteBan
  <2> HIDE DEF s
  <2> QED
    BY <2>1, <2>2
<1>3. CASE \E name \in HoldNames : UpsertLegalHold(c, name)
  BY <1>3 DEF UpsertLegalHold
<1>4. CASE \E name \in HoldNames : DeleteLegalHold(c, name)
  BY <1>4 DEF DeleteLegalHold
<1>5. CASE \E s \in Statuses : ReportEnforcementStatus(c, s)
  BY <1>5 DEF ReportEnforcementStatus
<1>6. CASE \E r \in Reports : ReportBanApplyResult(c, r)
  BY <1>6 DEF ReportBanApplyResult
<1> QED
  BY <1>1, <1>2, <1>3, <1>4, <1>5, <1>6 DEF AdminRequest

LEMMA ReapMutates == TypeOK /\ Reap => Mutation
<1> SUFFICES ASSUME TypeOK, Reap PROVE Mutation
  OBVIOUS
<1>1. PICK order \in Orders(Expired) :
        st' = [DropBans(st, {b.ban_id : b \in Expired}) EXCEPT !.next_index = @ + Len(order)]
  BY DEF Reap
<1>2. PICK n \in Nat : order \in [1..n -> Expired] /\ n # 0
  BY OrdersAreLists DEF Reap
<1> DEFINE rest == DropBans(st, {b.ban_id : b \in Expired})
<1>3. rest \in PersistedState /\ rest.next_index = st.next_index
  BY DropBansType DEF TypeOK
<1>4. st' = [rest EXCEPT !.next_index = @ + n]
  BY <1>1, <1>2
<1> HIDE DEF rest
<1>5. st'.next_index > st.next_index
  BY <1>2, <1>3, <1>4 DEF PersistedState
<1> QED
  BY <1>5 DEF Reap, Mutation

\* Every step either mutates the tables, or restarts from the file, or leaves
\* the tables as they are.
LEMMA StepKinds ==
    ASSUME TypeOK, [Next]_raftdVars
    PROVE  \/ Mutation
           \/ CrashRestart
           \/ StartPersist
           \/ FinishPersist
           \/ /\ UNCHANGED <<st, disk, last_persisted>>
              /\ writing' \in {writing, None}
<1>1. CASE \E c \in Clients : AdminRequest(c)
  BY <1>1, RequestMutates
<1>2. CASE Reap
  BY <1>2, ReapMutates
<1>3. CASE \E t \in Tasks : Broadcast(t)
  BY <1>3 DEF Broadcast
<1>4. CASE \E n \in Subscribers : \/ Subscribe(n) \/ SendSnapshot(n) \/ StartTail(n)
                                  \/ Forward(n) \/ Deliver(n)
  BY <1>4 DEF Subscribe, SendSnapshot, StartTail, Forward, Deliver
<1>5. CASE PersistFails \/ Tick \/ UNCHANGED raftdVars
  BY <1>5 DEF PersistFails, Tick, raftdVars
<1> QED
  BY <1>1, <1>2, <1>3, <1>4, <1>5 DEF Next, Internal, Environment

\* The inductive invariant: next to what the two properties say, the persister
\* has never seen an index greater than the present one.
IndexInv ==
    /\ TypeOK
    /\ IndexNamesState
    /\ CaughtUpMeansSaved
    /\ last_persisted <= st.next_index

LEMMA IndexInvInit == Init => IndexInv
BY InitType DEF Init, IndexInv, IndexNamesState, CaughtUpMeansSaved, Copies, EmptyState

LEMMA IndexInvStep == IndexInv /\ [Next]_raftdVars => IndexInv'
<1> SUFFICES ASSUME IndexInv, [Next]_raftdVars PROVE IndexInv'
  OBVIOUS
<1>1. TypeOK /\ TypeOK'
  BY StepType DEF IndexInv
<1> USE DEF IndexInv, IndexNamesState, CaughtUpMeansSaved, Copies
<1>2. CASE Mutation
  BY <1>1, <1>2 DEF Mutation, TypeOK, PersistedState
<1>3. CASE CrashRestart
  BY <1>1, <1>3 DEF CrashRestart, TypeOK, PersistedState
<1>4. CASE StartPersist
  BY <1>1, <1>4 DEF StartPersist, TypeOK, PersistedState
<1>5. CASE FinishPersist
  BY <1>1, <1>5 DEF FinishPersist, TypeOK, PersistedState
<1>6. CASE UNCHANGED <<st, disk, last_persisted>> /\ writing' \in {writing, None}
  BY <1>1, <1>6
<1> QED
  BY <1>1, <1>2, <1>3, <1>4, <1>5, <1>6, StepKinds

\* Equal indexes mean equal states, in memory, on disk and on the way there,
\* whatever was lost in crashes: the reason the persister may compare indexes.
THEOREM IndexNamesStateHolds == Spec => []IndexNamesState
<1>1. IndexInv => IndexNamesState
  BY DEF IndexInv
<1> QED
  BY <1>1, IndexInvInit, IndexInvStep, PTL DEF Spec

\* When the persister's last_persisted is the current index, the file holds the
\* current state, so skipping the write loses nothing.
THEOREM CaughtUpMeansSavedHolds == Spec => []CaughtUpMeansSaved
<1>1. IndexInv => CaughtUpMeansSaved
  BY DEF IndexInv
<1> QED
  BY <1>1, IndexInvInit, IndexInvStep, PTL DEF Spec

-----------------------------------------------------------------------------
(* bans and ban_by_key.                                                     *)

\* The strengthening that makes KeyIndexed inductive: an id drawn for a new ban
\* is not in use, because every id of a table was drawn before.
Known(s) == {b.ban_id : b \in s.bans} \subseteq usedIds
KeyInv   == TypeOK /\ KeyIndexed /\ \A s \in Copies : Known(s)

LEMMA UpsertIndexes ==
    ASSUME NEW s \in PersistedState, Indexed(s), Known(s), NEW k \in Keys, NEW ttl \in Nat,
           NEW id \in IF s.ban_by_key[k] # None THEN {s.ban_by_key[k]} ELSE BanIds \ usedIds,
           NEW entry \in Ban, entry.ban_id = id, entry.key = k,
           NEW t \in PersistedState, t.bans = WithBan(s.bans, entry),
           t.ban_by_key = [s.ban_by_key EXCEPT ![k] = id]
    PROVE  Indexed(t) /\ {b.ban_id : b \in t.bans} \subseteq usedIds \cup {id}
<1> USE DEF PersistedState
<1>1. id # None
  BY RaftdAssumption
<1>2. \A b \in s.bans : b.ban_id = id <=> b.key = k
  <2>1. CASE s.ban_by_key[k] # None
    BY <2>1 DEF Indexed, Ban
  <2>2. CASE s.ban_by_key[k] = None
    <3>1. \A b \in s.bans : b.ban_id # None /\ b.ban_id \in usedIds /\ b.key \in Keys
      BY RaftdAssumption DEF Known, Ban
    <3> QED
      BY <2>2, <3>1 DEF Indexed
  <2> QED
    BY <2>1, <2>2
<1>3. t.bans = {b \in s.bans : b.ban_id # id} \cup {entry}
  BY DEF WithBan, WithoutIds
<1>4. \A b \in t.bans : t.ban_by_key[b.key] = b.ban_id
  BY <1>2, <1>3 DEF Indexed, Ban
<1>5. ASSUME NEW j \in Keys, t.ban_by_key[j] # None
      PROVE  \E b \in t.bans : b.key = j /\ b.ban_id = t.ban_by_key[j]
  <2>1. CASE j = k
    BY <1>3, <2>1
  <2>2. CASE j # k
    BY <1>2, <1>3, <1>5, <2>2 DEF Indexed
  <2> QED
    BY <2>1, <2>2
<1>6. \A b, c \in t.bans : b.ban_id = c.ban_id => b = c
  BY <1>3 DEF Indexed
<1>7. {b.ban_id : b \in t.bans} \subseteq usedIds \cup {id}
  BY <1>3 DEF Known
<1> QED
  BY <1>4, <1>5, <1>6, <1>7 DEF Indexed

LEMMA DropIndexes ==
    ASSUME NEW s \in PersistedState, Indexed(s), Known(s), NEW ids
    PROVE  Indexed(DropBans(s, ids)) /\ Known(DropBans(s, ids))
<1> DEFINE t == DropBans(s, ids)
<1>1. /\ t.bans = {b \in s.bans : b.ban_id \notin ids}
      /\ t.ban_by_key = [k \in Keys |->
            IF \E b \in s.bans : b.ban_id \in ids /\ b.key = k THEN None ELSE s.ban_by_key[k]]
  BY DEF DropBans, WithoutIds, PersistedState
<1> HIDE DEF t
<1>2. \A b \in s.bans : b.key \in Keys
  BY DEF PersistedState, Ban
<1>3. \A b \in t.bans : t.ban_by_key[b.key] = b.ban_id
  <2> TAKE b \in t.bans
  <2>1. ~\E c \in s.bans : c.ban_id \in ids /\ c.key = b.key
    BY <1>1 DEF Indexed
  <2> QED
    BY <1>1, <1>2, <2>1 DEF Indexed
<1>4. ASSUME NEW k \in Keys, t.ban_by_key[k] # None
      PROVE  \E b \in t.bans : b.key = k /\ b.ban_id = t.ban_by_key[k]
  BY <1>1, <1>4 DEF Indexed
<1>5. \A b, c \in t.bans : b.ban_id = c.ban_id => b = c
  BY <1>1 DEF Indexed
<1>6. Known(t)
  BY <1>1 DEF Known
<1> QED
  BY <1>3, <1>4, <1>5, <1>6 DEF Indexed, t

\* The new copies of a step are old ones, or the state after it.
LEMMA CopiesStep ==
    ASSUME TypeOK, [Next]_raftdVars
    PROVE  Copies' \subseteq Copies \cup {st'}
BY StepKinds DEF Mutation, CrashRestart, StartPersist, FinishPersist, Copies

\* A request that leaves bans and ban_by_key alone leaves them indexed.
LEMMA SameBansIndexed ==
    ASSUME NEW s, NEW t, t.bans = s.bans, t.ban_by_key = s.ban_by_key
    PROVE  /\ Indexed(s) => Indexed(t)
           /\ Known(s) => Known(t)
BY DEF Indexed, Known

LEMMA RequestIndexes ==
    ASSUME KeyInv, NEW c \in Clients, AdminRequest(c)
    PROVE  Indexed(st') /\ Known(st)' /\ usedIds \subseteq usedIds'
<1> st \in PersistedState /\ Indexed(st) /\ Known(st) /\ now \in Nat
  BY DEF KeyInv, TypeOK, KeyIndexed, Copies
<1>0. st' \in PersistedState
  BY RequestType DEF KeyInv, TypeOK
<1>1. CASE \E k \in Keys, ttl \in Ttls : UpsertBan(c, k, ttl)
  <2> PICK k \in Keys, ttl \in Ttls : UpsertBan(c, k, ttl)
    BY <1>1
  <2>1. PICK id \in (IF st.ban_by_key[k] # None THEN {st.ban_by_key[k]} ELSE BanIds \ usedIds) :
          LET entry == [ban_id |-> id, key |-> k, expires |-> ExpiryOf(ttl)] IN
          /\ usedIds' = usedIds \cup {id}
          /\ Commit(c, [st EXCEPT !.bans = WithBan(@, entry), !.ban_by_key[k] = id],
                    [type |-> "ban_upserted", entry |-> entry])
    BY DEF UpsertBan
  <2> DEFINE entry == [ban_id |-> id, key |-> k, expires |-> ExpiryOf(ttl)]
  <2>2. id \in BanIds
    BY <2>1 DEF PersistedState
  <2>3. entry \in Ban /\ entry.ban_id = id /\ entry.key = k
    BY <2>2, RaftdAssumption DEF ExpiryOf, Ban
  <2>4. /\ st'.bans = WithBan(st.bans, entry)
        /\ st'.ban_by_key = [st.ban_by_key EXCEPT ![k] = id]
    BY <2>1 DEF Commit, PersistedState
  <2> HIDE DEF entry
  <2>5. Indexed(st') /\ {b.ban_id : b \in st'.bans} \subseteq usedIds \cup {id}
    BY <1>0, <2>1, <2>3, <2>4, UpsertIndexes, RaftdAssumption
  <2> QED
    BY <2>1, <2>5 DEF Known
<1>2. CASE \E id \in usedIds : DeleteBan(c, id)
  <2> PICK id \in usedIds : DeleteBan(c, id)
    BY <1>2
  <2> DEFINE rest == DropBans(st, {id})
  <2>1. rest \in PersistedState /\ Indexed(rest) /\ Known(rest)
    BY DropBansType, DropIndexes
  <2>2. st' = [rest EXCEPT !.next_index = @ + 1] /\ usedIds' = usedIds
    BY DEF DeleteBan, Commit
  <2> HIDE DEF rest
  <2>3. st'.bans = rest.bans /\ st'.ban_by_key = rest.ban_by_key
    BY <2>1, <2>2 DEF PersistedState
  <2>4. Indexed(st') /\ Known(st')
    BY <2>1, <2>3, SameBansIndexed
  <2> QED
    BY <2>2, <2>4 DEF Known
<1>3. CASE UNCHANGED usedIds /\ st'.bans = st.bans /\ st'.ban_by_key = st.ban_by_key
  <2>1. Indexed(st') /\ Known(st')
    BY <1>3, SameBansIndexed
  <2> QED
    BY <1>3, <2>1 DEF Known
<1>4. CASE \/ \E name \in HoldNames : UpsertLegalHold(c, name) \/ DeleteLegalHold(c, name)
           \/ \E s \in Statuses : ReportEnforcementStatus(c, s)
           \/ \E r \in Reports : ReportBanApplyResult(c, r)
  <2>1. UNCHANGED usedIds /\ st'.bans = st.bans /\ st'.ban_by_key = st.ban_by_key
    BY <1>4 DEF UpsertLegalHold, DeleteLegalHold, ReportEnforcementStatus,
                ReportBanApplyResult, Commit, PersistedState
  <2> QED
    BY <1>3, <2>1
<1> QED
  BY <1>1, <1>2, <1>4 DEF AdminRequest

LEMMA ReapIndexes ==
    ASSUME KeyInv, Reap
    PROVE  Indexed(st') /\ Known(st)' /\ UNCHANGED usedIds
<1>1. PICK order \in Orders(Expired) :
        st' = [DropBans(st, {b.ban_id : b \in Expired}) EXCEPT !.next_index = @ + Len(order)]
  BY DEF Reap
<1> DEFINE rest == DropBans(st, {b.ban_id : b \in Expired})
<1>2. rest \in PersistedState /\ Indexed(rest) /\ Known(rest)
  BY DropBansType, DropIndexes DEF KeyInv, TypeOK, KeyIndexed, Copies
<1> HIDE DEF rest
<1>3. st'.bans = rest.bans /\ st'.ban_by_key = rest.ban_by_key
  BY <1>1, <1>2 DEF PersistedState, rest
<1>4. Indexed(st') /\ Known(st')
  BY <1>2, <1>3, SameBansIndexed
<1> QED
  BY <1>4 DEF Reap, Known

LEMMA KeyInvStep == KeyInv /\ [Next]_raftdVars => KeyInv'
<1> SUFFICES ASSUME KeyInv, [Next]_raftdVars PROVE KeyInv'
  OBVIOUS
<1>1. TypeOK /\ TypeOK' /\ Copies' \subseteq Copies \cup {st'}
  BY StepType, CopiesStep DEF KeyInv
<1>2. Indexed(st') /\ Known(st)' /\ usedIds \subseteq usedIds'
  <2>1. CASE \E c \in Clients : AdminRequest(c)
    BY <2>1, RequestIndexes
  <2>2. CASE Reap
    BY <2>2, ReapIndexes
  <2>3. CASE st' \in {st, disk} /\ UNCHANGED usedIds
    BY <2>3 DEF KeyInv, KeyIndexed, Copies, Known
  <2>4. CASE \/ \E t \in Tasks : Broadcast(t)
             \/ \E n \in Subscribers : \/ Subscribe(n) \/ SendSnapshot(n) \/ StartTail(n)
                                      \/ Forward(n) \/ Deliver(n)
             \/ StartPersist \/ FinishPersist \/ PersistFails
             \/ Tick \/ CrashRestart \/ UNCHANGED raftdVars
    BY <2>3, <2>4 DEF Broadcast, Subscribe, SendSnapshot, StartTail, Forward, Deliver, StartPersist,
                      FinishPersist, PersistFails, Tick, CrashRestart, raftdVars
  <2> QED
    BY <2>1, <2>2, <2>4 DEF Next, Internal, Environment
<1>3. ASSUME NEW s \in Copies'
      PROVE  Indexed(s) /\ Known(s)'
  <2>1. CASE s \in Copies
    BY <1>2, <2>1 DEF KeyInv, KeyIndexed, Known
  <2>2. CASE s = st'
    BY <1>2, <2>2 DEF Known
  <2> QED
    BY <1>1, <2>1, <2>2
<1>4. KeyIndexed'
  BY <1>3 DEF KeyIndexed, Indexed
<1>5. (\A s \in Copies : Known(s))'
  BY <1>3
<1> QED
  BY <1>1, <1>4, <1>5 DEF KeyInv

\* bans and ban_by_key describe the same bans in every copy of the state, so
\* UpsertBan never gives a prefix a second ban and never reuses a stale id.
THEOREM KeyIndexedHolds == Spec => []KeyIndexed
<1>1. Init => KeyInv
  BY InitType DEF Init, KeyInv, KeyIndexed, Indexed, Known, Copies, EmptyState
<1>2. KeyInv => KeyIndexed
  BY DEF KeyInv
<1> QED
  BY <1>1, <1>2, KeyInvStep, PTL DEF Spec

-----------------------------------------------------------------------------
(* An index numbers one event.                                              *)

LEMMA InFlightType == TypeOK => InFlight \subseteq Envelope
<1> SUFFICES ASSUME TypeOK PROVE InFlight \subseteq Envelope
  OBVIOUS
<1>1. \A t \in Tasks : Range(outbox[t]) \subseteq Envelope
  BY DEF TypeOK, Range
<1>2. \A n \in Subscribers : Range(rx[n]) \subseteq Envelope
  BY DEF TypeOK, Range
<1> QED
  BY <1>1, <1>2 DEF InFlight

\* One task puts events in its outbox, numbered from the index it found up to
\* the one it leaves.
Numbered(events, first, next) ==
    /\ \A e \in events : e.index >= first /\ e.index < next
    /\ \A e, f \in events : e.index = f.index => e = f

LEMMA MutationUnique ==
    ASSUME TypeOK, IndexesUnique, NEW t \in Tasks, NEW events, UNCHANGED rx,
           outbox' = [outbox EXCEPT ![t] = events],
           Numbered(Range(events), st.next_index, st'.next_index),
           st'.next_index \in Nat, st'.next_index > st.next_index
    PROVE  IndexesUnique'
<1>1. InFlight' \subseteq InFlight \cup Range(events)
  BY DEF InFlight, TypeOK
<1>2. \A e \in InFlight : e.index \in Nat /\ e.index < st.next_index
  BY InFlightType DEF IndexesUnique, Envelope
<1>3. st.next_index \in Nat
  BY DEF TypeOK, PersistedState
<1>4. ASSUME NEW e \in InFlight' PROVE e.index < st'.next_index
  BY <1>1, <1>2, <1>3 DEF Numbered
<1>5. ASSUME NEW e \in InFlight', NEW f \in InFlight', e.index = f.index PROVE e = f
  <2>1. CASE e \in InFlight /\ f \in InFlight
    BY <1>5, <2>1 DEF IndexesUnique
  <2>2. CASE e \in Range(events) /\ f \in Range(events)
    BY <1>5, <2>2 DEF Numbered
  <2>3. CASE e \in InFlight /\ f \in Range(events)
    BY <1>2, <1>3, <1>5, <2>3 DEF Numbered
  <2>4. CASE f \in InFlight /\ e \in Range(events)
    BY <1>2, <1>3, <1>5, <2>4 DEF Numbered
  <2> QED
    BY <1>1, <2>1, <2>2, <2>3, <2>4
<1> QED
  BY <1>4, <1>5 DEF IndexesUnique

LEMMA CommitUnique ==
    ASSUME TypeOK, IndexesUnique, NEW c \in Clients, NEW s \in PersistedState, NEW event,
           s.next_index = st.next_index, Commit(c, s, event)
    PROVE  IndexesUnique'
<1> DEFINE events == <<[index |-> s.next_index, event |-> event]>>
<1>1. Range(events) = {[index |-> s.next_index, event |-> event]}
  BY DEF Range
<1>2. st'.next_index = st.next_index + 1 /\ st.next_index \in Nat
  BY DEF Commit, PersistedState
<1>3. Numbered(Range(events), st.next_index, st'.next_index)
  BY <1>1, <1>2 DEF Numbered
<1>4. outbox' = [outbox EXCEPT ![c] = events] /\ UNCHANGED rx /\ c \in Tasks
  BY DEF Commit, Tasks
<1>5. st'.next_index \in Nat /\ st'.next_index > st.next_index
  BY <1>2
<1> HIDE DEF events
<1> QED
  BY <1>3, <1>4, <1>5, MutationUnique

LEMMA RequestUnique ==
    ASSUME TypeOK, IndexesUnique, NEW c \in Clients, AdminRequest(c)
    PROVE  IndexesUnique'
<1> st \in PersistedState
  BY DEF TypeOK
<1>1. ASSUME NEW k \in Keys, NEW ttl \in Ttls, UpsertBan(c, k, ttl) PROVE IndexesUnique'
  <2>1. PICK id \in (IF st.ban_by_key[k] # None THEN {st.ban_by_key[k]} ELSE BanIds \ usedIds) :
          LET entry == [ban_id |-> id, key |-> k, expires |-> ExpiryOf(ttl)] IN
          Commit(c, [st EXCEPT !.bans = WithBan(@, entry), !.ban_by_key[k] = id],
                 [type |-> "ban_upserted", entry |-> entry])
    BY <1>1 DEF UpsertBan
  <2> DEFINE entry == [ban_id |-> id, key |-> k, expires |-> ExpiryOf(ttl)]
             s == [st EXCEPT !.bans = WithBan(@, entry), !.ban_by_key[k] = id]
  <2>2. id \in BanIds
    BY <2>1 DEF PersistedState
  <2>3. entry \in Ban
    BY <2>2, RaftdAssumption DEF ExpiryOf, Ban, TypeOK
  <2>4. WithBan(st.bans, entry) \in SUBSET Ban
    BY <2>3, WithBanType DEF PersistedState
  <2>5. s \in PersistedState /\ s.next_index = st.next_index
    BY <2>2, <2>4 DEF PersistedState
  <2>6. Commit(c, s, [type |-> "ban_upserted", entry |-> entry])
    BY <2>1
  <2> HIDE DEF s
  <2> QED
    BY <2>5, <2>6, CommitUnique
<1>2. ASSUME NEW id \in usedIds, DeleteBan(c, id) PROVE IndexesUnique'
  BY <1>2, DropBansType, CommitUnique DEF DeleteBan
<1>3. ASSUME NEW name \in HoldNames, UpsertLegalHold(c, name) PROVE IndexesUnique'
  <2> DEFINE s == [st EXCEPT !.holds = @ \cup {name}]
  <2>1. s \in PersistedState /\ s.next_index = st.next_index
    BY DEF PersistedState
  <2>2. Commit(c, s, [type |-> "hold_upserted", name |-> name])
    BY <1>3 DEF UpsertLegalHold
  <2> HIDE DEF s
  <2> QED
    BY <2>1, <2>2, CommitUnique
<1>4. ASSUME NEW name \in HoldNames, DeleteLegalHold(c, name) PROVE IndexesUnique'
  <2> DEFINE s == [st EXCEPT !.holds = @ \ {name}]
  <2>1. s \in PersistedState /\ s.next_index = st.next_index
    BY DEF PersistedState
  <2>2. Commit(c, s, [type |-> "hold_deleted", name |-> name])
    BY <1>4 DEF DeleteLegalHold
  <2> HIDE DEF s
  <2> QED
    BY <2>1, <2>2, CommitUnique
<1>5. ASSUME NEW s \in Statuses, ReportEnforcementStatus(c, s) PROVE IndexesUnique'
  <2> DEFINE t == [st EXCEPT !.last_status = {x \in @ : NodeOf(x) # NodeOf(s)} \cup {s}]
  <2>1. t \in PersistedState /\ t.next_index = st.next_index
    BY DEF PersistedState
  <2>2. Commit(c, t, [type |-> "status", status |-> s])
    BY <1>5 DEF ReportEnforcementStatus
  <2> HIDE DEF t
  <2> QED
    BY <2>1, <2>2, CommitUnique
<1>6. ASSUME NEW r \in Reports, ReportBanApplyResult(c, r) PROVE IndexesUnique'
  <2> DEFINE t == [st EXCEPT !.last_apply = {x \in @ : x.at # r.at} \cup {r}]
  <2>1. t \in PersistedState /\ t.next_index = st.next_index
    BY DEF PersistedState
  <2>2. Commit(c, t, [type |-> "apply_result", report |-> r])
    BY <1>6 DEF ReportBanApplyResult
  <2> HIDE DEF t
  <2> QED
    BY <2>1, <2>2, CommitUnique
<1> QED
  BY <1>1, <1>2, <1>3, <1>4, <1>5, <1>6 DEF AdminRequest

LEMMA ReapUnique ==
    ASSUME TypeOK, IndexesUnique, Reap
    PROVE  IndexesUnique'
<1>1. PICK order \in Orders(Expired) :
        /\ st' = [DropBans(st, {b.ban_id : b \in Expired}) EXCEPT !.next_index = @ + Len(order)]
        /\ outbox' = [outbox EXCEPT ![Reaper] =
              [i \in 1..Len(order) |->
                 [index |-> st.next_index + i - 1,
                  event |-> [type |-> "ban_deleted", ban_id |-> order[i].ban_id]]]]
  BY DEF Reap
<1>2. PICK n \in Nat : order \in [1..n -> Expired] /\ n # 0
  BY OrdersAreLists DEF Reap
<1> DEFINE rest == DropBans(st, {b.ban_id : b \in Expired})
           events == [i \in 1..n |-> [index |-> st.next_index + i - 1,
                                      event |-> [type |-> "ban_deleted", ban_id |-> order[i].ban_id]]]
<1>3. rest \in PersistedState /\ rest.next_index = st.next_index
  BY DropBansType DEF TypeOK
<1>4. st' = [rest EXCEPT !.next_index = @ + n] /\ outbox' = [outbox EXCEPT ![Reaper] = events]
  <2>1. Len(order) = n
    BY <1>2
  <2>2. st' = [rest EXCEPT !.next_index = @ + n]
    BY <1>1, <2>1
  <2>3. outbox' = [outbox EXCEPT ![Reaper] = events]
    BY <1>1, <2>1, Zenon
  <2> QED
    BY <2>2, <2>3
<1> HIDE DEF rest
<1>5. st'.next_index = st.next_index + n /\ st.next_index \in Nat
  BY <1>3, <1>4 DEF PersistedState
<1>6. \A e \in Range(events) : \E i \in 1..n : e = events[i] /\ e.index = st.next_index + i - 1
  BY DEF Range
<1> HIDE DEF events
<1>7. Numbered(Range(events), st.next_index, st'.next_index)
  <2>1. \A e \in Range(events) : e.index >= st.next_index /\ e.index < st'.next_index
    BY <1>5, <1>6
  <2>2. ASSUME NEW e \in Range(events), NEW f \in Range(events), e.index = f.index PROVE e = f
    <3>1. PICK i \in 1..n : e = events[i] /\ e.index = st.next_index + i - 1
      BY <1>6
    <3>2. PICK j \in 1..n : f = events[j] /\ f.index = st.next_index + j - 1
      BY <1>6
    <3>3. i = j
      BY <1>5, <2>2, <3>1, <3>2
    <3> QED
      BY <3>1, <3>2, <3>3
  <2> QED
    BY <2>1, <2>2 DEF Numbered
<1> QED
  <2>1. Reaper \in Tasks /\ UNCHANGED rx
    BY DEF Reap, Tasks
  <2>2. st'.next_index \in Nat /\ st'.next_index > st.next_index
    BY <1>2, <1>5
  <2> QED
    BY <1>4, <1>7, <2>1, <2>2, MutationUnique

\* Steps that only move or lose events.
LEMMA FewerInFlight ==
    ASSUME IndexesUnique, UNCHANGED st, InFlight' \subseteq InFlight
    PROVE  IndexesUnique'
BY DEF IndexesUnique

LEMMA PushRange ==
    ASSUME NEW S, NEW q \in Seq(S), NEW e \in S
    PROVE  Range(Push(q, e)) \subseteq Range(q) \cup {e}
<1> DEFINE kept == IF Len(q) = ChannelCap THEN Tail(q) ELSE q
<1>1. kept \in Seq(S) /\ Range(kept) \subseteq Range(q)
  <2>1. CASE Len(q) = ChannelCap
    <3>1. Tail(q) \in Seq(S) /\ Range(Tail(q)) \subseteq Range(q)
      BY <2>1, RaftdAssumption DEF Range
    <3> QED
      BY <2>1, <3>1
  <2>2. CASE Len(q) # ChannelCap
    BY <2>2
  <2> QED
    BY <2>1, <2>2
<1>2. Push(q, e) = Append(kept, e)
  BY DEF Push
<1> HIDE DEF kept
<1>3. Range(Append(kept, e)) \subseteq Range(kept) \cup {e}
  BY <1>1 DEF Range
<1> QED
  BY <1>1, <1>2, <1>3

LEMMA BroadcastUnique ==
    ASSUME TypeOK, IndexesUnique, NEW t \in Tasks, Broadcast(t)
    PROVE  IndexesUnique'
<1> DEFINE e == Head(outbox[t])
<1>1. outbox[t] \in Seq(Envelope) /\ outbox[t] # <<>>
  BY DEF TypeOK, Broadcast
<1>2. e \in Range(outbox[t]) /\ e \in Envelope /\ Range(Tail(outbox[t])) \subseteq Range(outbox[t])
  BY <1>1 DEF Range
<1>3. e \in InFlight
  BY <1>2 DEF InFlight
<1>4. \A u \in Tasks : Range(outbox'[u]) \subseteq InFlight
  BY <1>2 DEF InFlight, Broadcast, TypeOK
<1>5. \A n \in Subscribers : Range(rx'[n]) \subseteq InFlight
  <2> TAKE n \in Subscribers
  <2>1. Range(rx[n]) \subseteq InFlight /\ rx[n] \in Seq(Envelope)
    BY DEF InFlight, TypeOK
  <2>2. rx'[n] = IF sub[n] = "live" THEN Push(rx[n], e) ELSE rx[n]
    BY DEF Broadcast
  <2> QED
    BY <1>2, <1>3, <2>1, <2>2, PushRange
<1>6. InFlight' \subseteq InFlight
  BY <1>4, <1>5 DEF InFlight
<1> QED
  BY <1>6, FewerInFlight DEF Broadcast

LEMMA ForwardUnique ==
    ASSUME TypeOK, IndexesUnique, NEW n \in Subscribers, Forward(n)
    PROVE  IndexesUnique'
<1>1. Range(Tail(rx[n])) \subseteq Range(rx[n])
  BY DEF Forward, TypeOK, Range
<1>2. InFlight' \subseteq InFlight
  BY <1>1 DEF Forward, TypeOK, InFlight
<1> QED
  BY <1>2, FewerInFlight DEF Forward

LEMMA UniqueStep == TypeOK /\ IndexesUnique /\ [Next]_raftdVars => IndexesUnique'
<1> SUFFICES ASSUME TypeOK, IndexesUnique, [Next]_raftdVars PROVE IndexesUnique'
  OBVIOUS
<1>1. CASE \E c \in Clients : AdminRequest(c)
  BY <1>1, RequestUnique
<1>2. CASE Reap
  BY <1>2, ReapUnique
<1>3. CASE \E t \in Tasks : Broadcast(t)
  BY <1>3, BroadcastUnique
<1>4. CASE \E n \in Subscribers : Forward(n)
  BY <1>4, ForwardUnique
<1>5. CASE CrashRestart
  <2>1. InFlight' = {}
    BY <1>5 DEF CrashRestart, InFlight, Range
  <2> QED
    BY <2>1 DEF IndexesUnique
<1>6. CASE UNCHANGED <<st, outbox, rx>>
  BY <1>6 DEF IndexesUnique, InFlight
<1>7. CASE \/ \E n \in Subscribers : Subscribe(n) \/ SendSnapshot(n) \/ StartTail(n) \/ Deliver(n)
           \/ StartPersist \/ FinishPersist \/ PersistFails \/ Tick \/ UNCHANGED raftdVars
  BY <1>6, <1>7 DEF Subscribe, SendSnapshot, StartTail, Deliver, StartPersist,
                    FinishPersist, PersistFails, Tick, raftdVars
<1> QED
  BY <1>1, <1>2, <1>3, <1>4, <1>5, <1>7 DEF Next, Internal, Environment

\* No two events in flight carry one index, although they are sent after the
\* lock is released and indexes are reused after a crash.
THEOREM IndexesUniqueHolds == Spec => []IndexesUnique
<1>1. Init => IndexesUnique
  BY DEF Init, IndexesUnique, InFlight, Range
<1> QED
  BY <1>1, InitType, StepType, UniqueStep, PTL DEF Spec

-----------------------------------------------------------------------------
(* What After computes.                                                     *)

Tables == [bans : SUBSET Ban, holds : SUBSET HoldNames]

LEMMA ApplyType ==
    ASSUME NEW v \in Tables, NEW e \in Envelope
    PROVE  Apply(v, e) \in Tables
<1> e.event \in Event
  BY DEF Envelope
<1>1. CASE e.event.type = "ban_upserted"
  <2>1. e.event.entry \in Ban
    BY <1>1 DEF Event
  <2> QED
    BY <1>1, <2>1, WithBanType DEF Apply, Tables
<1>2. CASE e.event.type = "ban_deleted"
  BY <1>2 DEF Apply, Tables, WithoutIds
<1>3. CASE e.event.type = "hold_upserted"
  <2>1. e.event.name \in HoldNames
    BY <1>3 DEF Event
  <2> QED
    BY <1>3, <2>1 DEF Apply, Tables
<1>4. CASE e.event.type = "hold_deleted"
  BY <1>4 DEF Apply, Tables
<1>5. CASE e.event.type \notin {"ban_upserted", "ban_deleted", "hold_upserted", "hold_deleted"}
  BY <1>5 DEF Apply
<1> QED
  BY <1>1, <1>2, <1>3, <1>4, <1>5

\* The recursive function behind Replay exists and satisfies its equation.
LEMMA AfterComputes ==
    ASSUME NEW s \in Seq(Envelope)
    PROVE  /\ After(s) \in [0..Len(s) -> Tables]
           /\ After(s)[0] = NoTables
           /\ \A i \in 1..Len(s) : After(s)[i] = Apply(After(s)[i - 1], s[i])
<1> DEFINE n == Len(s)
           step == [i \in 1..n |-> [v \in Tables |-> Apply(v, s[i])]]
<1>1. n \in Nat /\ \A i \in 1..n : s[i] \in Envelope
  OBVIOUS
<1>2. NoTables \in Tables
  BY DEF NoTables, Tables
<1>3. /\ step \in [1..n -> [Tables -> Tables]]
      /\ \A i \in 1..n, v \in Tables : step[i][v] = Apply(v, s[i])
  BY <1>1, ApplyType
<1>4. After(s) = CHOOSE f : f = [i \in 0..n |-> IF i = 0 THEN NoTables ELSE Apply(f[i - 1], s[i])]
  BY DEF After
<1> HIDE DEF step, n
<1>5. Steps(step, n, Tables)
  BY <1>3 DEF Steps
<1>6. PICK f : Iterates(f, step, n, Tables, NoTables)
  BY <1>1, <1>2, <1>5, IteratesExist
<1>7. f \in [0..n -> Tables] /\ f[0] = NoTables /\ \A i \in 1..n : f[i] = Apply(f[i - 1], s[i])
  BY <1>1, <1>3, <1>6 DEF Iterates
<1>8. f = [i \in 0..n |-> IF i = 0 THEN NoTables ELSE Apply(f[i - 1], s[i])]
  BY <1>1, <1>7
<1>9. After(s) = [i \in 0..n |-> IF i = 0 THEN NoTables ELSE Apply(After(s)[i - 1], s[i])]
  BY <1>8, <1>4
<1> DEFINE g == After(s)
<1>10. g[0] = NoTables /\ \A i \in 1..n : g[i] = Apply(g[i - 1], s[i])
  BY <1>1, <1>9
<1> HIDE DEF g
<1>11. \A i \in 0..n : g[i] = f[i]
  <2>1. StayEqual(g, f, n)
    BY <1>7, <1>10 DEF StayEqual
  <2>2. g[0] = f[0]
    BY <1>7, <1>10
  <2> QED
    BY <1>1, <2>1, <2>2, IteratesAgree, Zenon
<1> QED
  BY <1>1, <1>7, <1>9, <1>10, <1>11 DEF g, n

\* The first tables of two logs are the same while their events are.
LEMMA AfterAgrees ==
    ASSUME NEW s \in Seq(Envelope), NEW t \in Seq(Envelope), NEW n \in Nat,
           n <= Len(s), n <= Len(t), \A i \in 1..n : s[i] = t[i]
    PROVE  \A i \in 0..n : After(s)[i] = After(t)[i]
<1> DEFINE f == After(s)
           g == After(t)
<1>1. Len(s) \in Nat /\ Len(t) \in Nat
  OBVIOUS
<1>2. /\ f[0] = g[0]
      /\ \A i \in 1..n : f[i] = Apply(f[i - 1], s[i]) /\ g[i] = Apply(g[i - 1], t[i])
  BY <1>1, AfterComputes
<1> HIDE DEF f, g
<1>3. StayEqual(f, g, n)
  BY <1>2 DEF StayEqual
<1>4. f[0] = g[0]
  BY <1>2
<1>5. \A i \in 0..n : f[i] = g[i]
  BY <1>3, <1>4, IteratesAgree, ZenonT(60)
<1> QED
  BY <1>5 DEF f, g

LEMMA ReplayIsAfter ==
    ASSUME NEW s \in Seq(Envelope), NEW n \in 0..Len(s)
    PROVE  Replay(SubSeq(s, 1, n)) = After(s)[n]
<1> DEFINE t == SubSeq(s, 1, n)
<1>1. t \in Seq(Envelope) /\ Len(t) = n /\ \A i \in 1..n : t[i] = s[i]
  OBVIOUS
<1> HIDE DEF t
<1>2. After(t)[n] = After(s)[n]
  BY <1>1, AfterAgrees
<1> QED
  BY <1>1, <1>2 DEF t, Replay

-----------------------------------------------------------------------------
(* What a step appends to the log.                                          *)

\* The one task whose empty outbox a step fills produced the events.
LEMMA ProducedByTask ==
    ASSUME TypeOK, NEW t \in Tasks, outbox[t] = <<>>, NEW events, events # <<>>,
           outbox' = [outbox EXCEPT ![t] = events]
    PROVE  Produced = events
<1>1. \A u \in Tasks : outbox'[u] = IF u = t THEN events ELSE outbox[u]
  BY DEF TypeOK
<1>2. {u \in Tasks : outbox[u] = <<>> /\ outbox'[u] # <<>>} = {t}
  BY <1>1
<1>3. (CHOOSE u \in {t} : TRUE) = t
  OBVIOUS
<1> QED
  BY <1>1, <1>2, <1>3, Zenon DEF Produced

LEMMA NothingProduced ==
    ASSUME \A t \in Tasks : outbox[t] = <<>> => outbox'[t] = <<>>
    PROVE  Produced = <<>>
<1>1. {t \in Tasks : outbox[t] = <<>> /\ outbox'[t] # <<>>} = {}
  OBVIOUS
<1> QED
  BY <1>1, Zenon DEF Produced

\* One event of the log: the request changes the tables as Apply says.
Committed(c, e) ==
    /\ e \in Envelope
    /\ outbox[c] = <<>>
    /\ outbox' = [outbox EXCEPT ![c] = <<e>>]
    /\ st'.next_index = st.next_index + 1
    /\ View(st') = Apply(View(st), e)
    /\ UNCHANGED <<sub, wire, disk, writing>>

LEMMA CommitCommits ==
    ASSUME TypeOK, NEW c \in Clients, MayAsk(c), NEW s \in PersistedState, NEW event \in Event,
           s.next_index = st.next_index, Commit(c, s, event),
           View(s) = Apply(View(st), [index |-> st.next_index, event |-> event])
    PROVE  Committed(c, [index |-> st.next_index, event |-> event])
<1>1. st'.next_index = st.next_index + 1 /\ View(st') = View(s)
  BY DEF Commit, View, PersistedState
<1>2. [index |-> st.next_index, event |-> event] \in Envelope
  BY DEF TypeOK, PersistedState, Envelope
<1> QED
  BY <1>1, <1>2 DEF Commit, Committed, MayAsk

LEMMA RequestCommits ==
    ASSUME TypeOK, NEW c \in Clients, AdminRequest(c)
    PROVE  \E e : Committed(c, e)
<1> DEFINE Goal == \E e : Committed(c, e)
<1> st \in PersistedState /\ usedIds \subseteq BanIds /\ now \in Nat
  BY DEF TypeOK
<1> USE DEF View, Apply
<1>1. ASSUME NEW k \in Keys, NEW ttl \in Ttls, UpsertBan(c, k, ttl) PROVE Goal
  <2>1. PICK id \in (IF st.ban_by_key[k] # None THEN {st.ban_by_key[k]} ELSE BanIds \ usedIds) :
          LET entry == [ban_id |-> id, key |-> k, expires |-> ExpiryOf(ttl)] IN
          Commit(c, [st EXCEPT !.bans = WithBan(@, entry), !.ban_by_key[k] = id],
                 [type |-> "ban_upserted", entry |-> entry])
    BY <1>1 DEF UpsertBan
  <2> DEFINE entry == [ban_id |-> id, key |-> k, expires |-> ExpiryOf(ttl)]
             s == [st EXCEPT !.bans = WithBan(@, entry), !.ban_by_key[k] = id]
             event == [type |-> "ban_upserted", entry |-> entry]
  <2>2. id \in BanIds
    BY DEF PersistedState
  <2>3. ExpiryOf(ttl) \in Nat
    BY RaftdAssumption DEF ExpiryOf
  <2>4. entry \in Ban
    BY <2>2, <2>3 DEF Ban
  <2> HIDE DEF entry
  <2>5. event \in Event
    BY <2>4 DEF Event
  <2>6. s \in PersistedState /\ s.next_index = st.next_index /\ s.bans = WithBan(st.bans, entry)
        /\ s.holds = st.holds
    BY <2>2, <2>4, WithBanType DEF PersistedState
  <2>7. View(s) = Apply(View(st), [index |-> st.next_index, event |-> event])
    BY <2>6
  <2>8. Commit(c, s, event)
    BY <2>1 DEF entry
  <2> HIDE DEF s, event
  <2> QED
    BY <1>1, <2>5, <2>6, <2>7, <2>8, CommitCommits DEF UpsertBan
<1>2. ASSUME NEW id \in usedIds, DeleteBan(c, id) PROVE Goal
  <2> DEFINE s == DropBans(st, {id})
             event == [type |-> "ban_deleted", ban_id |-> id]
  <2>1. event \in Event
    BY DEF Event
  <2>2. s \in PersistedState /\ s.next_index = st.next_index
    BY DropBansType
  <2>3. View(s) = Apply(View(st), [index |-> st.next_index, event |-> event])
    BY DEF DropBans, PersistedState
  <2>4. Commit(c, s, event)
    BY <1>2 DEF DeleteBan
  <2> HIDE DEF s, event
  <2> QED
    BY <1>2, <2>1, <2>2, <2>3, <2>4, CommitCommits DEF DeleteBan
<1>3. ASSUME NEW name \in HoldNames, UpsertLegalHold(c, name) PROVE Goal
  <2> DEFINE s == [st EXCEPT !.holds = @ \cup {name}]
             event == [type |-> "hold_upserted", name |-> name]
  <2>1. event \in Event
    BY DEF Event
  <2>2. s \in PersistedState /\ s.next_index = st.next_index
    BY DEF PersistedState
  <2>3. View(s) = Apply(View(st), [index |-> st.next_index, event |-> event])
    BY DEF PersistedState
  <2>4. Commit(c, s, event)
    BY <1>3 DEF UpsertLegalHold
  <2> HIDE DEF s, event
  <2> QED
    BY <1>3, <2>1, <2>2, <2>3, <2>4, CommitCommits DEF UpsertLegalHold
<1>4. ASSUME NEW name \in HoldNames, DeleteLegalHold(c, name) PROVE Goal
  <2> DEFINE s == [st EXCEPT !.holds = @ \ {name}]
             event == [type |-> "hold_deleted", name |-> name]
  <2>1. event \in Event
    BY DEF Event
  <2>2. s \in PersistedState /\ s.next_index = st.next_index
    BY DEF PersistedState
  <2>3. View(s) = Apply(View(st), [index |-> st.next_index, event |-> event])
    BY DEF PersistedState
  <2>4. Commit(c, s, event)
    BY <1>4 DEF DeleteLegalHold
  <2> HIDE DEF s, event
  <2> QED
    BY <1>4, <2>1, <2>2, <2>3, <2>4, CommitCommits DEF DeleteLegalHold
<1>5. ASSUME NEW x \in Statuses, ReportEnforcementStatus(c, x) PROVE Goal
  <2> DEFINE s == [st EXCEPT !.last_status = {y \in @ : NodeOf(y) # NodeOf(x)} \cup {x}]
             event == [type |-> "status", status |-> x]
  <2>1. event \in Event
    BY DEF Event
  <2>2. s \in PersistedState /\ s.next_index = st.next_index
    BY DEF PersistedState
  <2>3. View(s) = Apply(View(st), [index |-> st.next_index, event |-> event])
    BY DEF PersistedState
  <2>4. Commit(c, s, event)
    BY <1>5 DEF ReportEnforcementStatus
  <2> HIDE DEF s, event
  <2> QED
    BY <1>5, <2>1, <2>2, <2>3, <2>4, CommitCommits DEF ReportEnforcementStatus
<1>6. ASSUME NEW r \in Reports, ReportBanApplyResult(c, r) PROVE Goal
  <2> DEFINE s == [st EXCEPT !.last_apply = {x \in @ : x.at # r.at} \cup {r}]
             event == [type |-> "apply_result", report |-> r]
  <2>1. event \in Event
    BY DEF Event
  <2>2. s \in PersistedState /\ s.next_index = st.next_index
    BY DEF PersistedState
  <2>3. View(s) = Apply(View(st), [index |-> st.next_index, event |-> event])
    BY DEF PersistedState
  <2>4. Commit(c, s, event)
    BY <1>6 DEF ReportBanApplyResult
  <2> HIDE DEF s, event
  <2> QED
    BY <1>6, <2>1, <2>2, <2>3, <2>4, CommitCommits DEF ReportBanApplyResult
<1> QED
  BY <1>1, <1>2, <1>3, <1>4, <1>5, <1>6 DEF AdminRequest

\* The log is as long as the index says and replays to the tables in memory.
LogFits ==
    /\ log \in Seq(Envelope)
    /\ Len(log) = st.next_index - 1
    /\ After(log)[Len(log)] = View(st)

\* A locked section appends events whose replay gives the new tables.
Appends(events) ==
    /\ events \in Seq(Envelope) /\ Len(events) > 0
    /\ Produced = events
    /\ st'.next_index = st.next_index + Len(events)
    /\ After(log \o events)[Len(log) + Len(events)] = View(st')
    /\ UNCHANGED <<sub, wire, disk, writing>>

LEMMA RequestAppends ==
    ASSUME TypeOK, LogFits, NEW c \in Clients, AdminRequest(c)
    PROVE  \E events : Appends(events)
<1>1. PICK e : Committed(c, e)
  BY RequestCommits
<1> DEFINE events == <<e>>
           longer == log \o events
           n == Len(log)
<1>2. e \in Envelope /\ c \in Tasks
  BY <1>1 DEF Committed, Tasks
<1>3. events \in Seq(Envelope) /\ Len(events) = 1
  BY <1>2
<1>4. Produced = events
  <2>1. events # <<>>
    BY <1>3
  <2>2. outbox[c] = <<>> /\ outbox' = [outbox EXCEPT ![c] = events]
    BY <1>1 DEF Committed
  <2> HIDE DEF events
  <2> QED
    BY <1>2, <2>1, <2>2, ProducedByTask
<1>5. /\ n \in Nat /\ longer \in Seq(Envelope) /\ Len(longer) = n + 1
      /\ \A i \in 1..n : longer[i] = log[i]
      /\ longer[n + 1] = e
  BY <1>2 DEF LogFits
<1>6. After(longer)[n + 1] = Apply(After(longer)[n], e)
  <2> HIDE DEF longer, n
  <2>1. n + 1 \in 1..Len(longer)
    BY <1>5
  <2>2. After(longer)[n + 1] = Apply(After(longer)[(n + 1) - 1], longer[n + 1])
    BY <1>5, <2>1, AfterComputes
  <2> QED
    BY <1>5, <2>2
<1>7. After(longer)[n] = View(st)
  <2> HIDE DEF longer
  <2>1. After(longer)[n] = After(log)[n]
    BY <1>5, AfterAgrees DEF LogFits
  <2> QED
    BY <2>1 DEF LogFits
<1>8. After(longer)[n + 1] = View(st')
  BY <1>1, <1>6, <1>7 DEF Committed
<1>9. After(longer)[n + Len(events)] = View(st')
  BY <1>3, <1>8
<1> HIDE DEF events
<1>10. Appends(events)
  BY <1>1, <1>3, <1>4, <1>9 DEF Committed, Appends
<1> QED
  BY <1>10

\* The events of a sweep drop the expired bans one after the other; together
\* they drop what the locked section dropped.
LEMMA ReapAppends ==
    ASSUME TypeOK, LogFits, Reap
    PROVE  \E events : Appends(events)
<1>1. PICK order \in Orders(Expired) :
        /\ st' = [DropBans(st, {b.ban_id : b \in Expired}) EXCEPT !.next_index = @ + Len(order)]
        /\ outbox' = [outbox EXCEPT ![Reaper] =
              [i \in 1..Len(order) |->
                  [index |-> st.next_index + i - 1,
                   event |-> [type |-> "ban_deleted", ban_id |-> order[i].ban_id]]]]
  BY DEF Reap
<1>2. PICK k \in Nat : /\ order \in [1..k -> Expired]
                       /\ k # 0
                       /\ \A b \in Expired : \E i \in 1..k : order[i] = b
  <2>1. Expired # {}
    BY DEF Reap
  <2> QED
    BY <2>1, OrdersAreLists
<1>3. Len(order) = k
  BY <1>2
<1>4. Expired \subseteq Ban /\ st \in PersistedState
  BY DEF Expired, TypeOK, PersistedState
<1> DEFINE Sent(i) == [index |-> st.next_index + i - 1,
                       event |-> [type |-> "ban_deleted", ban_id |-> order[i].ban_id]]
           events == [i \in 1..k |-> Sent(i)]
           longer == log \o events
           n == Len(log)
           Gone(i) == {order[j].ban_id : j \in 1..i}
<1>5. \A i \in 1..k : Sent(i) \in Envelope
  <2> TAKE i \in 1..k
  <2>1. order[i].ban_id \in BanIds
    BY <1>2, <1>4 DEF Ban
  <2>2. [type |-> "ban_deleted", ban_id |-> order[i].ban_id] \in Event
    BY <2>1 DEF Event
  <2>3. st.next_index + i - 1 \in Nat
    BY <1>4 DEF PersistedState
  <2> QED
    BY <2>2, <2>3 DEF Envelope
<1>6. events \in Seq(Envelope) /\ Len(events) = k /\ k > 0
  <2> HIDE DEF Sent
  <2> QED
    BY <1>2, <1>5
<1>7. Produced = events
  <2>1. events # <<>>
    BY <1>6
  <2>2. outbox[Reaper] = <<>> /\ outbox' = [outbox EXCEPT ![Reaper] = events] /\ Reaper \in Tasks
    BY <1>1, <1>3 DEF Reap, Tasks
  <2> HIDE DEF events
  <2> QED
    BY <2>1, <2>2, ProducedByTask
<1>8. /\ n \in Nat /\ longer \in Seq(Envelope) /\ Len(longer) = n + k
      /\ \A i \in 1..n : longer[i] = log[i]
      /\ \A i \in 1..k : longer[n + i] = Sent(i)
  <2>1. \A i \in 1..k : events[i] = Sent(i)
    OBVIOUS
  <2> HIDE DEF events, Sent
  <2> QED
    BY <1>6, <2>1 DEF LogFits
<1>9. After(longer)[n] = View(st)
  <2>1. log \in Seq(Envelope) /\ n <= Len(log) /\ After(log)[n] = View(st)
    BY DEF LogFits
  <2> HIDE DEF longer, n
  <2>2. After(longer)[n] = After(log)[n]
    BY <1>6, <1>8, <2>1, AfterAgrees, SMTT(30)
  <2> QED
    BY <2>1, <2>2
<1> DEFINE Left(i) == [bans |-> WithoutIds(st.bans, Gone(i)), holds |-> st.holds]
<1>10. After(longer)[n + k] = Left(k)
  <2> DEFINE T == {i \in Nat : After(longer)[n + i] = Left(i)}
  <2>1. 0 \in T
    <3>1. Gone(0) = {}
      OBVIOUS
    <3>2. Left(0) = View(st)
      BY <1>4, <3>1 DEF View, WithoutIds, PersistedState
    <3> HIDE DEF longer, n, Left
    <3> QED
      BY <1>8, <1>9, <3>2
  <2>2. ASSUME NEW i \in 0..k - 1, i \in T PROVE i + 1 \in T
    <3>1. n + i + 1 \in 1..Len(longer) /\ i + 1 \in 1..k
      BY <1>6, <1>8, <2>2
    <3>2. After(longer)[n + i + 1] = Apply(After(longer)[n + i], longer[n + i + 1])
      <4> HIDE DEF longer, n
      <4>1. After(longer)[n + i + 1] = Apply(After(longer)[(n + i + 1) - 1], longer[n + i + 1])
        BY <1>8, <3>1, AfterComputes
      <4> QED
        BY <1>8, <4>1
    <3>3. longer[n + i + 1] = Sent(i + 1)
      <4> HIDE DEF longer, n, Sent
      <4> QED
        BY <1>8, <3>1
    <3>4. After(longer)[n + i] = Left(i)
      BY <2>2
    <3>5. Apply(Left(i), Sent(i + 1)) = Left(i + 1)
      <4>1. Gone(i + 1) = Gone(i) \cup {order[i + 1].ban_id}
        <5>1. 1..i + 1 = (1..i) \cup {i + 1}
          BY <2>2
        <5> QED
          BY <5>1
      <4> HIDE DEF Gone
      <4> QED
        BY <4>1 DEF Apply, WithoutIds
    <3> HIDE DEF longer, n, Sent, Left
    <3>6. After(longer)[n + (i + 1)] = Left(i + 1)
      BY <1>8, <2>2, <3>2, <3>3, <3>4, <3>5
    <3> QED
      BY <2>2, <3>6
  <2> HIDE DEF T
  <2>3. 0..k \subseteq T
    BY <2>1, <2>2, InductionUpTo
  <2>4. k \in T
    BY <2>3
  <2> HIDE DEF longer, n, Left
  <2> QED
    BY <2>4 DEF T
<1>11. Gone(k) = {b.ban_id : b \in Expired}
  BY <1>2
<1>12. View(st') = Left(k) /\ st'.next_index = st.next_index + k
  <2> HIDE DEF Gone
  <2> QED
    BY <1>1, <1>3, <1>4, <1>11 DEF View, DropBans, PersistedState
<1> HIDE DEF events, Left, Gone, Sent
<1> QED
  BY <1>6, <1>7, <1>10, <1>12 DEF Appends, Reap

-----------------------------------------------------------------------------
(* The inductive invariant.                                                 *)

\* A copy of the tables is the replay of the log g below its index.
CopyFits(s, g) == s.next_index - 1 <= Len(g) /\ View(s) = After(g)[s.next_index - 1]

\* A line that is a snapshot is the replay of the log g up to the index it carries.
LineFits(l, g) ==
    l.event.type = "snapshot" =>
        /\ l.index \in 0..Len(g)
        /\ [bans |-> l.event.bans, holds |-> l.event.holds] = After(g)[l.index]

WiresFit == \A n \in Subscribers : sub[n] # "closed" => \A i \in DOMAIN wire[n] : LineFits(wire[n][i], log)

\* The strengthening: the log is as long as the index in memory says, so that a
\* prefix of it is named by every index a copy or a snapshot can carry; and a
\* write on its way to the disk is never older than the file.
ReplayInv ==
    /\ IndexInv
    /\ log \in Seq(Envelope) /\ Len(log) = st.next_index - 1
    /\ \A s \in Copies : CopyFits(s, log)
    /\ WiresFit
    /\ writing # None => disk.next_index <= writing.next_index

LEMMA CopiesType == TypeOK => Copies \subseteq PersistedState
BY DEF TypeOK, Copies

LEMMA ReplayInvInit == LInit => ReplayInv
<1> SUFFICES ASSUME LInit PROVE ReplayInv
  OBVIOUS
<1>1. IndexInv
  BY IndexInvInit DEF LInit
<1>2. log \in Seq(Envelope) /\ Len(log) = 0 /\ st = EmptyState /\ disk = EmptyState /\ writing = None
  BY DEF LInit, Init
<1>3. View(EmptyState) = After(log)[0]
  <2>1. After(log)[0] = NoTables
    BY <1>2, AfterComputes
  <2> QED
    BY <2>1 DEF View, EmptyState, NoTables
<1>4. CopyFits(EmptyState, log)
  BY <1>2, <1>3 DEF CopyFits, EmptyState
<1>5. Copies = {EmptyState}
  BY <1>2 DEF Copies
<1>6. WiresFit
  BY DEF WiresFit, LInit, Init
<1> QED
  BY <1>1, <1>2, <1>4, <1>5, <1>6 DEF ReplayInv, EmptyState

\* What ReplayInv says of the log and the tables in memory.
LEMMA ReplayInvFits == ReplayInv => TypeOK /\ LogFits
BY DEF ReplayInv, IndexInv, LogFits, CopyFits, Copies, TypeOK, PersistedState

\* What fits g and is about its first n events fits h too.
FitsUpTo(g, h, n) ==
    /\ \A s \in PersistedState : CopyFits(s, g) /\ s.next_index - 1 <= n => CopyFits(s, h)
    /\ \A l : LineFits(l, g) /\ (l.event.type = "snapshot" => l.index <= n) => LineFits(l, h)

\* Two logs with a common prefix fit the same copies and lines of that prefix.
LEMMA PrefixFits ==
    ASSUME NEW g \in Seq(Envelope), NEW h \in Seq(Envelope), NEW n \in Nat,
           n <= Len(g), n <= Len(h), \A i \in 1..n : g[i] = h[i]
    PROVE  FitsUpTo(g, h, n)
<1>1. \A i \in 0..n : After(g)[i] = After(h)[i]
  BY AfterAgrees
<1>2. Len(g) \in Nat /\ Len(h) \in Nat
  OBVIOUS
<1> QED
  BY <1>1, <1>2 DEF CopyFits, LineFits, PersistedState, FitsUpTo

\* A longer log fits what the shorter one fits.
LEMMA LongerFits ==
    ASSUME NEW g \in Seq(Envelope), NEW events \in Seq(Envelope)
    PROVE  /\ g \o events \in Seq(Envelope) /\ Len(g \o events) = Len(g) + Len(events)
           /\ \A s \in PersistedState : CopyFits(s, g) => CopyFits(s, g \o events)
           /\ \A l : LineFits(l, g) => LineFits(l, g \o events)
<1> DEFINE h == g \o events
<1>1. /\ h \in Seq(Envelope) /\ Len(h) = Len(g) + Len(events)
      /\ Len(g) \in Nat /\ Len(events) \in Nat
      /\ \A i \in 1..Len(g) : g[i] = h[i]
  OBVIOUS
<1> HIDE DEF h
<1>2. Len(g) <= Len(h)
  BY <1>1
<1>3. /\ \A s \in PersistedState : CopyFits(s, g) /\ s.next_index - 1 <= Len(g) => CopyFits(s, h)
      /\ \A l : LineFits(l, g) /\ (l.event.type = "snapshot" => l.index <= Len(g)) => LineFits(l, h)
  <2>1. FitsUpTo(g, h, Len(g))
    <3> DEFINE n == Len(g)
    <3>1. n \in Nat /\ n <= Len(g) /\ n <= Len(h) /\ \A i \in 1..n : g[i] = h[i]
      BY <1>1, <1>2
    <3> HIDE DEF n
    <3>2. FitsUpTo(g, h, n)
      BY <1>1, <3>1, PrefixFits
    <3> QED
      BY <3>2 DEF n
  <2> QED
    BY <2>1 DEF FitsUpTo
<1>4. \A s \in PersistedState : CopyFits(s, g) => CopyFits(s, h)
  BY <1>3 DEF CopyFits
<1>5. \A l : LineFits(l, g) => LineFits(l, h)
  BY <1>1, <1>3 DEF LineFits
<1> QED
  BY <1>1, <1>4, <1>5 DEF h

LEMMA AppendKeepsReplay ==
    ASSUME ReplayInv, IndexInv', NEW events, Appends(events), log' = log \o events
    PROVE  ReplayInv'
<1>1. /\ TypeOK /\ TypeOK' /\ LogFits /\ log \in Seq(Envelope) /\ events \in Seq(Envelope)
      /\ Len(events) > 0 /\ st.next_index \in Nat
  BY ReplayInvFits DEF TypeOK, PersistedState, Appends, ReplayInv, IndexInv
<1>2. Len(log) \in Nat /\ Len(events) \in Nat
  BY <1>1
<1>3. log' \in Seq(Envelope) /\ Len(log') = Len(log) + Len(events)
  BY <1>1, LongerFits
<1>4. Len(log') = st'.next_index - 1
  BY <1>1, <1>2, <1>3 DEF LogFits, Appends
<1>5. \A s \in Copies' : CopyFits(s, log')
  <2> SUFFICES ASSUME NEW s \in Copies' PROVE CopyFits(s, log')
    OBVIOUS
  <2>1. CASE s = st'
    <3>1. View(st') = After(log')[st'.next_index - 1] /\ st'.next_index - 1 <= Len(log')
      BY <1>2, <1>3, <1>4 DEF Appends
    <3> QED
      BY <2>1, <3>1 DEF CopyFits
  <2>2. CASE s \in Copies
    <3>1. s \in PersistedState /\ CopyFits(s, log)
      BY <1>1, <2>2, CopiesType DEF ReplayInv
    <3> QED
      BY <1>1, <3>1, LongerFits
  <2>3. Copies' \subseteq Copies \cup {st'}
    BY DEF Copies, Appends
  <2> QED
    BY <2>1, <2>2, <2>3
<1>6. WiresFit'
  <2>1. \A l : LineFits(l, log) => LineFits(l, log')
    BY <1>1, LongerFits
  <2> QED
    BY <2>1 DEF WiresFit, ReplayInv, Appends
<1>7. writing' # None => disk'.next_index <= writing'.next_index
  BY DEF ReplayInv, Appends
<1> QED
  BY <1>3, <1>4, <1>5, <1>6, <1>7 DEF ReplayInv

\* A restart cuts the log back to the index of the file, which is the state it
\* starts from.
LEMMA RestartKeepsReplay ==
    ASSUME ReplayInv, IndexInv', CrashRestart, log' = SubSeq(log, 1, disk.next_index - 1)
    PROVE  ReplayInv'
<1>1. /\ disk \in PersistedState /\ disk.next_index \in Nat \ {0} /\ log \in Seq(Envelope)
      /\ CopyFits(disk, log)
  BY DEF ReplayInv, IndexInv, TypeOK, PersistedState, Copies
<1> DEFINE n == disk.next_index - 1
<1>2. n \in Nat /\ n <= Len(log)
  BY <1>1 DEF CopyFits
<1>3. log' \in Seq(Envelope) /\ Len(log') = n /\ n <= Len(log') /\ \A i \in 1..n : log[i] = log'[i]
  BY <1>1, <1>2
<1>4. CopyFits(disk, log')
  <2> HIDE DEF n
  <2>1. \A s \in PersistedState : CopyFits(s, log) /\ s.next_index - 1 <= n => CopyFits(s, log')
    <3>1. FitsUpTo(log, log', n)
      BY <1>1, <1>2, <1>3, PrefixFits
    <3> QED
      BY <3>1 DEF FitsUpTo
  <2> QED
    BY <1>1, <2>1 DEF n
<1>5. Copies' = {disk} /\ st' = disk /\ writing' = None
  BY DEF CrashRestart, Copies
<1>6. WiresFit'
  BY DEF WiresFit, CrashRestart
<1> QED
  BY <1>3, <1>4, <1>5, <1>6 DEF ReplayInv

LEMMA SameLogKeepsReplay ==
    ASSUME ReplayInv, IndexInv', UNCHANGED <<log, st>>, Copies' \subseteq Copies, WiresFit',
           writing' # None => disk'.next_index <= writing'.next_index
    PROVE  ReplayInv'
BY DEF ReplayInv

LEMMA InternalProducesNothing ==
    ASSUME TypeOK,
           \/ \E t \in Tasks : Broadcast(t)
           \/ \E n \in Subscribers : SendSnapshot(n) \/ StartTail(n) \/ Forward(n)
           \/ StartPersist \/ FinishPersist
    PROVE  Produced = <<>>
<1>1. ASSUME NEW t \in Tasks, Broadcast(t) PROVE \A u \in Tasks : outbox[u] = <<>> => outbox'[u] = <<>>
  BY <1>1 DEF Broadcast, TypeOK
<1>2. \A u \in Tasks : outbox[u] = <<>> => outbox'[u] = <<>>
  BY <1>1 DEF SendSnapshot, StartTail, Forward, StartPersist, FinishPersist
<1> QED
  BY <1>2, NothingProduced

\* Lines are only added by a handler that is not closed: the snapshot it reads,
\* and events, which are no snapshots.
LEMMA EventsConnKeepsWires ==
    ASSUME ReplayInv, UNCHANGED log, NEW n \in Subscribers,
           Subscribe(n) \/ SendSnapshot(n) \/ StartTail(n) \/ Forward(n) \/ Deliver(n)
    PROVE  WiresFit'
<1>1. TypeOK /\ LogFits /\ WiresFit /\ st.next_index \in Nat \ {0}
  BY ReplayInvFits DEF ReplayInv, TypeOK, PersistedState
<1>2. /\ wire \in [Subscribers -> Seq(Line)] /\ wire[n] \in Seq(Line) /\ rx[n] \in Seq(Envelope)
      /\ sub \in [Subscribers -> {"closed", "subscribed", "snapshotted", "live"}]
  BY <1>1 DEF TypeOK
<1>3. \A m \in Subscribers \ {n} : sub'[m] = sub[m] /\ wire'[m] = wire[m]
  BY <1>2 DEF Subscribe, SendSnapshot, StartTail, Forward, Deliver
<1> SUFFICES sub'[n] # "closed" => \A i \in DOMAIN wire'[n] : LineFits(wire'[n][i], log)
  BY <1>1, <1>3 DEF WiresFit
<1>4. CASE Subscribe(n)
  BY <1>2, <1>4 DEF Subscribe
<1>5. CASE SendSnapshot(n)
  <2> DEFINE l == [index |-> st.next_index - 1,
                   event |-> [type |-> "snapshot", bans |-> st.bans, holds |-> st.holds]]
  <2>1. wire'[n] = Append(wire[n], l) /\ sub[n] # "closed"
    BY <1>2, <1>5 DEF SendSnapshot
  <2>2. LineFits(l, log)
    BY <1>1 DEF LineFits, LogFits, View
  <2> HIDE DEF l
  <2> QED
    BY <1>1, <1>2, <2>1, <2>2 DEF WiresFit
<1>6. CASE StartTail(n)
  BY <1>1, <1>2, <1>6 DEF StartTail, ReadyToTail, WiresFit
<1>7. CASE Forward(n)
  <2> DEFINE l == Head(rx[n])
  <2>1. wire'[n] = Append(wire[n], l) /\ sub' = sub /\ l \in Envelope
    BY <1>2, <1>7 DEF Forward
  <2>2. l.event.type # "snapshot"
    BY <2>1 DEF Envelope, Event
  <2> HIDE DEF l
  <2> QED
    BY <1>1, <1>2, <2>1, <2>2 DEF WiresFit, LineFits
<1>8. CASE Deliver(n)
  <2>1. wire'[n] = Tail(wire[n]) /\ sub' = sub /\ wire[n] # <<>>
    BY <1>2, <1>8 DEF Deliver
  <2>2. \A i \in DOMAIN wire'[n] : i + 1 \in DOMAIN wire[n] /\ wire'[n][i] = wire[n][i + 1]
    BY <1>2, <2>1
  <2> QED
    BY <1>1, <2>1, <2>2 DEF WiresFit
<1> QED
  BY <1>4, <1>5, <1>6, <1>7, <1>8

LEMMA NextOfLog == LNext => Next
BY DEF LNext, Next, Environment

LEMMA ReplayInvStep == ReplayInv /\ [LNext]_logAndVars => ReplayInv'
<1> SUFFICES ASSUME ReplayInv, [LNext]_logAndVars PROVE ReplayInv'
  OBVIOUS
<1>1. TypeOK /\ LogFits /\ log \in Seq(Envelope)
  BY ReplayInvFits DEF ReplayInv
<1>2. IndexInv'
  <2>1. [Next]_raftdVars
    BY NextOfLog DEF logAndVars
  <2> QED
    BY <2>1, IndexInvStep DEF ReplayInv
<1>3. CASE CrashRestart /\ log' = SubSeq(log, 1, disk.next_index - 1)
  BY <1>2, <1>3, RestartKeepsReplay
<1>4. CASE log' = log \o Produced /\ (Reap \/ \E c \in Clients : AdminRequest(c))
  <2>1. PICK events : Appends(events)
    BY <1>1, <1>4, RequestAppends, ReapAppends
  <2>2. log' = log \o events
    BY <1>4, <2>1 DEF Appends
  <2> QED
    BY <1>2, <2>1, <2>2, AppendKeepsReplay
<1>5. CASE /\ log' = log \o Produced
           /\ \/ \E t \in Tasks : Broadcast(t)
              \/ \E n \in Subscribers : SendSnapshot(n) \/ StartTail(n) \/ Forward(n)
              \/ StartPersist \/ FinishPersist
  <2>1. log' = log
    <3>1. Produced = <<>>
      BY <1>1, <1>5, InternalProducesNothing
    <3> QED
      BY <1>1, <1>5, <3>1
  <2>2. CASE \E n \in Subscribers : SendSnapshot(n) \/ StartTail(n) \/ Forward(n)
    <3>1. WiresFit'
      BY <2>1, <2>2, EventsConnKeepsWires
    <3>2. UNCHANGED <<st, disk, writing>>
      BY <2>2 DEF SendSnapshot, StartTail, Forward
    <3> QED
      BY <1>2, <2>1, <3>1, <3>2, SameLogKeepsReplay DEF ReplayInv, Copies
  <2>3. CASE \E t \in Tasks : Broadcast(t)
    BY <1>2, <2>1, <2>3, SameLogKeepsReplay DEF Broadcast, ReplayInv, Copies, WiresFit
  <2>4. CASE StartPersist \/ FinishPersist
    <3>1. UNCHANGED <<st, sub, wire>> /\ Copies' \subseteq Copies
      BY <2>4 DEF StartPersist, FinishPersist, Copies
    <3>2. WiresFit'
      BY <2>1, <3>1 DEF WiresFit, ReplayInv
    <3>3. writing' # None => disk'.next_index <= writing'.next_index
      BY <2>4 DEF StartPersist, FinishPersist, ReplayInv, IndexInv, IndexNamesState, Copies
    <3> QED
      BY <1>2, <2>1, <3>1, <3>2, <3>3, SameLogKeepsReplay
  <2> QED
    BY <1>5, <2>2, <2>3, <2>4
<1>6. CASE log' = log /\ \E n \in Subscribers : Subscribe(n) \/ Deliver(n)
  <2>1. WiresFit'
    BY <1>6, EventsConnKeepsWires
  <2>2. UNCHANGED <<st, disk, writing>>
    BY <1>6 DEF Subscribe, Deliver
  <2> QED
    BY <1>2, <1>6, <2>1, <2>2, SameLogKeepsReplay DEF ReplayInv, Copies
<1>7. CASE log' = log /\ (Tick \/ PersistFails \/ UNCHANGED raftdVars)
  BY <1>2, <1>7, SameLogKeepsReplay DEF Tick, PersistFails, raftdVars, ReplayInv, Copies, WiresFit
<1> QED
  BY <1>3, <1>4, <1>5, <1>6, <1>7 DEF LNext, Internal, logAndVars

-----------------------------------------------------------------------------
(* The theorems.                                                            *)

LEMMA ReplayInvHolds == LSpec => []ReplayInv
BY ReplayInvInit, ReplayInvStep, PTL DEF LSpec

LEMMA FitsAreReplays == ReplayInv => CopiesAreReplays
<1> SUFFICES ASSUME ReplayInv PROVE CopiesAreReplays
  OBVIOUS
<1>1. TypeOK /\ log \in Seq(Envelope)
  BY ReplayInvFits DEF ReplayInv
<1>2. StateIsReplay
  <2> SUFFICES ASSUME NEW s \in Copies
               PROVE  View(s) = Replay(SubSeq(log, 1, s.next_index - 1))
    BY DEF StateIsReplay
  <2>1. s \in PersistedState /\ CopyFits(s, log)
    BY <1>1, CopiesType DEF ReplayInv
  <2>2. s.next_index - 1 \in 0..Len(log)
    BY <1>1, <2>1 DEF CopyFits, PersistedState
  <2> QED
    BY <1>1, <2>1, <2>2, ReplayIsAfter DEF CopyFits
<1>3. SnapshotIsReplay
  <2> SUFFICES ASSUME NEW n \in Subscribers, sub[n] # "closed", NEW i \in DOMAIN wire[n],
                      wire[n][i].event.type = "snapshot"
               PROVE  [bans |-> wire[n][i].event.bans, holds |-> wire[n][i].event.holds]
                        = Replay(SubSeq(log, 1, wire[n][i].index))
    BY DEF SnapshotIsReplay
  <2>1. LineFits(wire[n][i], log)
    BY DEF ReplayInv, WiresFit
  <2> QED
    BY <1>1, <2>1, ReplayIsAfter DEF LineFits
<1> QED
  BY <1>2, <1>3 DEF CopiesAreReplays

\* Whatever was lost, resent or reindexed over crashes, the tables in memory,
\* in the file, in the persister's hands and in a snapshot under way are what
\* the handlers' events up to their index make of empty tables.
THEOREM CopiesAreReplaysHolds == LSpec => []CopiesAreReplays
BY ReplayInvHolds, FitsAreReplays, PTL

\* A step of the daemon is a step of the durable log or leaves it as it is.
LEMMA LogStepImplements == ReplayInv /\ [LNext]_logAndVars => [DL!LogNext]_(DL!logVars)
<1> SUFFICES ASSUME ReplayInv, [LNext]_logAndVars,
                    ~ UNCHANGED <<log, disk.next_index - 1>>
             PROVE  DL!LogNext
  BY DEF DL!logVars
<1> USE DEF DL!LogNext, DL!Extend, DL!Save, DL!Recover
<1>1. TypeOK /\ LogFits /\ log \in Seq(Envelope)
  BY ReplayInvFits DEF ReplayInv
<1>2. CASE CrashRestart /\ log' = SubSeq(log, 1, disk.next_index - 1)
  BY <1>2 DEF CrashRestart
<1>3. CASE log' = log \o Produced /\ (Reap \/ \E c \in Clients : AdminRequest(c))
  <2>1. PICK events : Appends(events)
    BY <1>1, <1>3, RequestAppends, ReapAppends
  <2>2. log' = log \o events /\ events \in Seq(Envelope) /\ Len(events) > 0 /\ disk' = disk
    BY <1>3, <2>1 DEF Appends
  <2>3. Len(log') > Len(log) /\ SubSeq(log', 1, Len(log)) = log
    BY <1>1, <2>2
  <2> QED
    BY <2>2, <2>3
<1>4. CASE log' = log \o Produced /\ FinishPersist
  <2>1. log' = log
    <3>1. Produced = <<>>
      BY <1>1, <1>4, InternalProducesNothing
    <3> QED
      BY <1>1, <1>4, <3>1
  <2>2. /\ disk' = writing /\ writing \in PersistedState /\ disk \in PersistedState
        /\ disk.next_index <= writing.next_index /\ CopyFits(writing, log)
    BY <1>1, <1>4 DEF FinishPersist, ReplayInv, TypeOK, Copies
  <2>3. disk'.next_index - 1 \in (disk.next_index - 1) + 1..Len(log)
    BY <1>1, <2>1, <2>2 DEF CopyFits, PersistedState
  <2> QED
    BY <2>1, <2>3
<1>5. CASE /\ log' = log \o Produced
           /\ \/ \E t \in Tasks : Broadcast(t)
              \/ \E n \in Subscribers : SendSnapshot(n) \/ StartTail(n) \/ Forward(n)
              \/ StartPersist
  <2>1. Produced = <<>>
    BY <1>1, <1>5, InternalProducesNothing
  <2>2. log' = log
    BY <1>1, <1>5, <2>1
  <2>3. disk' = disk
    BY <1>5 DEF Broadcast, SendSnapshot, StartTail, Forward, StartPersist
  <2> QED
    BY <2>2, <2>3
<1>6. CASE log' = log /\ \E n \in Subscribers : Subscribe(n) \/ Deliver(n)
  BY <1>6 DEF Subscribe, Deliver
<1>7. CASE log' = log /\ (Tick \/ PersistFails \/ UNCHANGED raftdVars)
  BY <1>7 DEF Tick, PersistFails, raftdVars
<1> QED
  BY <1>2, <1>3, <1>4, <1>5, <1>6, <1>7 DEF LNext, Internal, logAndVars

\* The daemon's log of handled requests only grows at its end, its saved prefix
\* only grows, and a crash cuts it back to exactly the saved prefix.
THEOREM DurableLogImplemented == LSpec => ImplementsDurableLog
<1>1. LInit => DL!LogInit
  BY DEF LInit, Init, EmptyState, DL!LogInit
<1>2. ReplayInv /\ [LNext]_logAndVars => [DL!LogNext]_(DL!logVars)
  BY LogStepImplements
<1> QED
  BY <1>1, <1>2, ReplayInvHolds, PTL DEF LSpec, ImplementsDurableLog, DL!LogSpec

-----------------------------------------------------------------------------
(* Lines and what they say of one id.                                       *)

\* The lines that tell a node about an id: its own events, and snapshots.
About(l, id) ==
    \/ l.event.type = "snapshot"
    \/ l.event.type = "ban_upserted" /\ l.event.entry.ban_id = id
    \/ l.event.type = "ban_deleted" /\ l.event.ban_id = id

\* The entry of an id in a set of bans: a set with at most one element.
EntryOf(bans, id) == {b \in bans : b.ban_id = id}

\* What a line about an id says its entry is.
Effect(l, id) ==
    CASE l.event.type = "snapshot"     -> EntryOf(l.event.bans, id)
      [] l.event.type = "ban_upserted" -> {l.event.entry}
      [] OTHER -> {}

\* Events the tasks hold, by task and place: the lock was released, the
\* broadcast is still to come.
Unsent == UNION {Range(outbox[t]) : t \in Tasks}

-----------------------------------------------------------------------------
(* The locked sections.                                                     *)

\* A locked section of a task numbers its events from the present index on,
\* and the last thing they say of an id is what the table then has.
Section(t, events) ==
    /\ outbox[t] = <<>>
    /\ events \in Seq(Envelope)
    /\ outbox' = [outbox EXCEPT ![t] = events]
    /\ \A i \in 1..Len(events) : events[i].index = st.next_index + i - 1
    /\ st'.next_index = st.next_index + Len(events)
    /\ \A id \in BanIds :
          /\ \A i \in 1..Len(events) :
                About(events[i], id) => Effect(events[i], id) = EntryOf(st'.bans, id)
          /\ (\A i \in 1..Len(events) : ~About(events[i], id))
                => EntryOf(st'.bans, id) = EntryOf(st.bans, id)
    /\ UNCHANGED <<now, sub, rx, wire, disk, writing>>

LEMMA CommitIsSection ==
    ASSUME TypeOK, NEW c \in Clients, MayAsk(c), NEW s \in PersistedState, NEW event \in Event,
           s.next_index = st.next_index, Commit(c, s, event),
           \A id \in BanIds :
             LET e == [index |-> st.next_index, event |-> event] IN
             IF About(e, id) THEN Effect(e, id) = EntryOf(s.bans, id)
             ELSE EntryOf(s.bans, id) = EntryOf(st.bans, id)
    PROVE  \E events : Section(c, events)
<1> DEFINE e == [index |-> st.next_index, event |-> event]
           events == <<e>>
<1>1. e \in Envelope /\ st.next_index \in Nat
  BY DEF TypeOK, PersistedState, Envelope
<1>2. st'.next_index = st.next_index + 1 /\ st'.bans = s.bans
  BY DEF Commit, PersistedState
<1>3. e.index = st.next_index + 1 - 1
  BY <1>1
<1>4. \A id \in BanIds : IF About(e, id) THEN Effect(e, id) = EntryOf(st'.bans, id)
                         ELSE EntryOf(st'.bans, id) = EntryOf(st.bans, id)
  BY <1>2
<1>5. outbox[c] = <<>> /\ outbox' = [outbox EXCEPT ![c] = events]
      /\ UNCHANGED <<now, sub, rx, wire, disk, writing>>
  BY DEF Commit, MayAsk
<1> HIDE DEF e
<1>6. events \in Seq(Envelope) /\ Len(events) = 1 /\ events[1] = e
  BY <1>1
<1> HIDE DEF events
<1>7. Section(c, events)
  BY <1>2, <1>3, <1>4, <1>5, <1>6 DEF Section
<1> QED
  BY <1>7

LEMMA UpsertIsSection ==
    ASSUME TypeOK, NEW c \in Clients, NEW k \in Keys, NEW ttl \in Ttls, UpsertBan(c, k, ttl)
    PROVE  \E events : Section(c, events)
<1> st \in PersistedState /\ usedIds \subseteq BanIds /\ now \in Nat
  BY DEF TypeOK
<1>1. PICK id \in (IF st.ban_by_key[k] # None THEN {st.ban_by_key[k]} ELSE BanIds \ usedIds) :
        LET entry == [ban_id |-> id, key |-> k, expires |-> ExpiryOf(ttl)] IN
        Commit(c, [st EXCEPT !.bans = WithBan(@, entry), !.ban_by_key[k] = id],
               [type |-> "ban_upserted", entry |-> entry])
  BY DEF UpsertBan
<1> DEFINE entry == [ban_id |-> id, key |-> k, expires |-> ExpiryOf(ttl)]
           s == [st EXCEPT !.bans = WithBan(@, entry), !.ban_by_key[k] = id]
           event == [type |-> "ban_upserted", entry |-> entry]
<1>2. id \in BanIds
  BY DEF PersistedState
<1>3. entry \in Ban /\ entry.ban_id = id
  <2>1. ExpiryOf(ttl) \in Nat
    BY RaftdAssumption DEF ExpiryOf
  <2> QED
    BY <1>2, <2>1 DEF Ban
<1> HIDE DEF entry
<1>4. event \in Event
  BY <1>3 DEF Event
<1>5. s \in PersistedState /\ s.next_index = st.next_index /\ s.bans = WithBan(st.bans, entry)
  BY <1>2, <1>3, WithBanType DEF PersistedState
<1>6. ASSUME NEW i \in BanIds
      PROVE  LET e == [index |-> st.next_index, event |-> event] IN
             IF About(e, i) THEN Effect(e, i) = EntryOf(s.bans, i)
             ELSE EntryOf(s.bans, i) = EntryOf(st.bans, i)
  <2> DEFINE e == [index |-> st.next_index, event |-> event]
  <2>1. About(e, i) <=> i = id
    BY <1>3 DEF About
  <2>2. Effect(e, i) = {entry}
    BY DEF Effect
  <2>3. i = id => EntryOf(s.bans, i) = {entry}
    BY <1>3, <1>5 DEF EntryOf, WithBan, WithoutIds
  <2>4. i # id => EntryOf(s.bans, i) = EntryOf(st.bans, i)
    BY <1>3, <1>5 DEF EntryOf, WithBan, WithoutIds
  <2> QED
    BY <2>1, <2>2, <2>3, <2>4
<1>7. Commit(c, s, event) /\ MayAsk(c)
  BY <1>1 DEF entry, UpsertBan
<1> HIDE DEF s, event
<1> QED
  BY <1>4, <1>5, <1>6, <1>7, CommitIsSection

LEMMA DeleteIsSection ==
    ASSUME TypeOK, NEW c \in Clients, NEW id \in usedIds, DeleteBan(c, id)
    PROVE  \E events : Section(c, events)
<1> st \in PersistedState /\ usedIds \subseteq BanIds
  BY DEF TypeOK
<1> DEFINE s == DropBans(st, {id})
           event == [type |-> "ban_deleted", ban_id |-> id]
<1>1. event \in Event
  BY DEF Event
<1>2. s \in PersistedState /\ s.next_index = st.next_index
  BY DropBansType
<1>3. s.bans = {b \in st.bans : b.ban_id # id}
  BY DEF DropBans, WithoutIds, PersistedState
<1>4. ASSUME NEW i \in BanIds
      PROVE  LET e == [index |-> st.next_index, event |-> event] IN
             IF About(e, i) THEN Effect(e, i) = EntryOf(s.bans, i)
             ELSE EntryOf(s.bans, i) = EntryOf(st.bans, i)
  <2> DEFINE e == [index |-> st.next_index, event |-> event]
  <2>1. About(e, i) <=> i = id
    BY DEF About
  <2>2. Effect(e, i) = {}
    BY DEF Effect
  <2> HIDE DEF s
  <2>3. EntryOf(s.bans, i) = IF i = id THEN {} ELSE EntryOf(st.bans, i)
    BY <1>3 DEF EntryOf
  <2> QED
    BY <2>1, <2>2, <2>3
<1>5. Commit(c, s, event) /\ MayAsk(c)
  BY DEF DeleteBan
<1> HIDE DEF s, event
<1> QED
  BY <1>1, <1>2, <1>4, <1>5, CommitIsSection

LEMMA ReportIsSection ==
    ASSUME TypeOK, NEW c \in Clients, NEW r \in Reports, ReportBanApplyResult(c, r)
    PROVE  \E events : Section(c, events)
<1> st \in PersistedState
  BY DEF TypeOK
<1> DEFINE s == [st EXCEPT !.last_apply = {x \in @ : x.at # r.at} \cup {r}]
           event == [type |-> "apply_result", report |-> r]
<1>1. event \in Event
  BY DEF Event
<1>2. s \in PersistedState /\ s.next_index = st.next_index /\ s.bans = st.bans
  BY DEF PersistedState
<1>3. \A i \in BanIds : ~About([index |-> st.next_index, event |-> event], i)
  BY DEF About
<1>4. Commit(c, s, event) /\ MayAsk(c)
  BY DEF ReportBanApplyResult
<1> HIDE DEF s, event
<1> QED
  BY <1>1, <1>2, <1>3, <1>4, CommitIsSection

\* Every event of a sweep deletes an expired ban, and no other ban is deleted.
LEMMA ReapIsSection ==
    ASSUME TypeOK, Reap
    PROVE  \E events : Section(Reaper, events)
<1>1. PICK order \in Orders(Expired) :
        /\ st' = [DropBans(st, {b.ban_id : b \in Expired}) EXCEPT !.next_index = @ + Len(order)]
        /\ outbox' = [outbox EXCEPT ![Reaper] =
              [i \in 1..Len(order) |->
                  [index |-> st.next_index + i - 1,
                   event |-> [type |-> "ban_deleted", ban_id |-> order[i].ban_id]]]]
  BY DEF Reap
<1>2. PICK k \in Nat : order \in [1..k -> Expired] /\ \A b \in Expired : \E i \in 1..k : order[i] = b
  BY OrdersAreLists
<1>3. Len(order) = k
  BY <1>2
<1>4. Expired \subseteq Ban /\ st \in PersistedState
  BY DEF Expired, TypeOK, PersistedState
<1> DEFINE Sent(i) == [index |-> st.next_index + i - 1,
                       event |-> [type |-> "ban_deleted", ban_id |-> order[i].ban_id]]
           events == [i \in 1..k |-> Sent(i)]
           ids == {b.ban_id : b \in Expired}
<1>5. \A i \in 1..k : Sent(i) \in Envelope
  <2> TAKE i \in 1..k
  <2>1. order[i].ban_id \in BanIds
    BY <1>2, <1>4 DEF Ban
  <2>2. [type |-> "ban_deleted", ban_id |-> order[i].ban_id] \in Event
    BY <2>1 DEF Event
  <2>3. st.next_index + i - 1 \in Nat
    BY <1>4 DEF PersistedState
  <2> QED
    BY <2>2, <2>3 DEF Envelope
<1>6. \A i \in 1..k : /\ Sent(i).index = st.next_index + i - 1
                      /\ \A id \in BanIds : /\ About(Sent(i), id) <=> id = order[i].ban_id
                                            /\ Effect(Sent(i), id) = {}
  BY DEF About, Effect
<1>7. outbox[Reaper] = <<>> /\ outbox' = [outbox EXCEPT ![Reaper] = events]
      /\ UNCHANGED <<now, sub, rx, wire, disk, writing>>
  BY <1>1, <1>3 DEF Reap
<1> HIDE DEF Sent
<1>8. events \in Seq(Envelope) /\ Len(events) = k /\ \A i \in 1..k : events[i] = Sent(i)
  BY <1>5
<1>9. ids = {order[i].ban_id : i \in 1..k}
  BY <1>2
<1>10. /\ st'.next_index = st.next_index + k
       /\ st'.bans = {b \in st.bans : b.ban_id \notin ids}
  <2> HIDE DEF ids
  <2> QED
    BY <1>1, <1>3, <1>4 DEF DropBans, WithoutIds, PersistedState, ids
<1>11. ASSUME NEW id \in BanIds
       PROVE  /\ \A i \in 1..k : About(Sent(i), id) => Effect(Sent(i), id) = EntryOf(st'.bans, id)
              /\ (\A i \in 1..k : ~About(Sent(i), id)) => EntryOf(st'.bans, id) = EntryOf(st.bans, id)
  <2>1. CASE id \in ids
    <3>1. EntryOf(st'.bans, id) = {}
      BY <1>10, <2>1 DEF EntryOf
    <3>2. PICK i \in 1..k : id = order[i].ban_id
      <4> HIDE DEF ids
      <4> QED
        BY <1>9, <2>1
    <3>3. About(Sent(i), id)
      BY <1>6, <3>2
    <3> QED
      BY <1>6, <3>1, <3>3
  <2>2. CASE id \notin ids
    <3>1. EntryOf(st'.bans, id) = EntryOf(st.bans, id)
      BY <1>10, <2>2 DEF EntryOf
    <3>2. \A i \in 1..k : ~About(Sent(i), id)
      BY <1>6, <1>9, <2>2, ZenonT(60)
    <3> QED
      BY <3>1, <3>2
  <2> QED
    BY <2>1, <2>2
<1> HIDE DEF events, ids
<1>12. Section(Reaper, events)
  BY <1>3, <1>6, <1>7, <1>8, <1>10, <1>11 DEF Section
<1> QED
  BY <1>12

-----------------------------------------------------------------------------
(* The kinds of steps of the system.                                        *)

LEMMA EnforcersAreClients ==
    ASSUME NEW task \in {"dns", "events"}, NEW n \in Nodes
    PROVE  <<task, n>> \in Clients /\ n \in Subscribers
BY SystemAssumption DEF EnforcerTasks

\* A locked section: it touches nothing but sbc_raftd.
RaftdSection ==
    /\ \E t \in Tasks : \E events : Section(t, events)
    /\ UNCHANGED <<enforcerVars, ghosts>>

\* The stream from sbc_raftd stands still.
StreamStill == UNCHANGED <<st, usedIds, outbox, sub, rx, wire, ghosts>>

LEMMA SystemKinds ==
    ASSUME TypeOK, [SystemNext]_systemVars
    PROVE  \/ RaftdSection
           \/ \E t \in Tasks : SendEvent(t)
           \/ \E n \in Subscribers : Forward(n) /\ UNCHANGED <<enforcerVars, ghosts>>
           \/ StreamStill /\ UNCHANGED enforcerVars /\ (now' = now \/ Tick)
           \/ \E n \in Nodes : TakeSnapshotOf(n) \/ TailFrom(n) \/ Connect(n) \/ ReadLine(n)
           \/ StreamStill /\ UNCHANGED now /\ \E n \in Nodes :
                 \/ \E task \in {"dns", "events"} : Returned(task, n)
                 \/ E!EventsEof(n)
                 \/ \E enabled \in BOOLEAN : E!CheckDns(n, enabled)
           \/ RaftdCrash
           \/ \E n \in Nodes : EnforcerCrash(n)
<1>1. CASE \E c \in Operators : Operator(c)
  <2> PICK c \in Operators : Operator(c)
    BY <1>1
  <2>1. c \in Clients /\ c \in Tasks
    BY SystemAssumption DEF Tasks
  <2>2. \E events : Section(c, events)
    BY <2>1, UpsertIsSection, DeleteIsSection DEF Operator
  <2> QED
    BY <2>1, <2>2 DEF RaftdSection, Operator
<1>2. CASE RaftdAlone
  <2>1. CASE Reap
    BY <1>2, <2>1, ReapIsSection DEF RaftdAlone, RaftdSection, Tasks
  <2>2. CASE \E n \in Subscribers : Forward(n)
    BY <1>2, <2>2 DEF RaftdAlone
  <2>3. CASE StartPersist \/ FinishPersist \/ PersistFails \/ Tick
    BY <1>2, <2>3 DEF RaftdAlone, StartPersist, FinishPersist, PersistFails, Tick, StreamStill
  <2> QED
    BY <1>2, <2>1, <2>2, <2>3 DEF RaftdAlone
<1>3. ASSUME NEW n \in Nodes, NEW task \in {"dns", "events"}, Ask(task, n) PROVE RaftdSection
  <2>1. <<task, n>> \in Clients /\ <<task, n>> \in Tasks
    BY EnforcersAreClients DEF Tasks
  <2>2. \E events : Section(<<task, n>>, events)
    BY <1>3, <2>1, ReportIsSection DEF Ask
  <2> QED
    BY <1>3, <2>1, <2>2 DEF RaftdSection, Ask
<1>4. ASSUME NEW n \in Nodes, NEW task \in {"dns", "events"}, Answered(task, n) \/ RequestFails(task, n)
      PROVE  StreamStill /\ UNCHANGED now /\ Returned(task, n)
  BY <1>4 DEF Answered, RequestFails, StreamStill, raftdVars
<1>5. ASSUME NEW n \in Nodes, ReadEof(n) PROVE StreamStill /\ UNCHANGED now /\ E!EventsEof(n)
  BY <1>5 DEF ReadEof, StreamStill, raftdVars
<1>6. ASSUME NEW n \in Nodes, EnforcerAlone(n)
      PROVE  StreamStill /\ UNCHANGED now /\ \E enabled \in BOOLEAN : E!CheckDns(n, enabled)
  BY <1>6 DEF EnforcerAlone, StreamStill, raftdVars
<1>7. CASE UNCHANGED systemVars
  BY <1>7 DEF systemVars, raftdVars, StreamStill
<1> QED
  BY <1>1, <1>2, <1>3, <1>4, <1>5, <1>6, <1>7 DEF SystemNext

-----------------------------------------------------------------------------
(* Type correctness of the composition.                                     *)

\* Apart from a crash of an enforcer, the daemon's part of a step is a step of
\* the daemon.
LEMMA RaftdPart ==
    ASSUME [SystemNext]_systemVars
    PROVE  [Next]_raftdVars \/ \E n \in Nodes : EnforcerCrash(n)
<1> USE DEF Next, AdminRequest, Internal, Environment
<1>1. ASSUME NEW c \in Operators, Operator(c) PROVE Next
  BY <1>1, SystemAssumption DEF Operator
<1>2. CASE RaftdAlone
  BY <1>2 DEF RaftdAlone
<1>3. ASSUME NEW t \in Tasks, SendEvent(t) PROVE Next
  BY <1>3 DEF SendEvent
<1>4. ASSUME NEW n \in Nodes, NEW task \in {"dns", "events"}, Ask(task, n) PROVE Next
  BY <1>4, EnforcersAreClients DEF Ask
<1>5. ASSUME NEW n \in Nodes, TakeSnapshotOf(n) \/ TailFrom(n) \/ Connect(n) \/ ReadLine(n) PROVE Next
  BY <1>5, SystemAssumption DEF TakeSnapshotOf, TailFrom, Connect, ReadLine
<1>6. ASSUME NEW n \in Nodes, NEW task \in {"dns", "events"}, Answered(task, n) \/ RequestFails(task, n)
      PROVE  UNCHANGED raftdVars
  BY <1>6 DEF Answered, RequestFails
<1>7. ASSUME NEW n \in Nodes, ReadEof(n) \/ EnforcerAlone(n) PROVE UNCHANGED raftdVars
  BY <1>7 DEF ReadEof, EnforcerAlone
<1>8. CASE RaftdCrash
  BY <1>8 DEF RaftdCrash
<1>9. CASE UNCHANGED systemVars
  BY <1>9 DEF systemVars
<1> QED
  BY <1>1, <1>2, <1>3, <1>4, <1>5, <1>6, <1>7, <1>8, <1>9 DEF SystemNext

LEMMA EnforcerCrashType ==
    ASSUME TypeOK, NEW n \in Nodes, EnforcerCrash(n)
    PROVE  TypeOK'
BY SystemAssumption DEF EnforcerCrash, E!Restart, TypeOK

LEMMA RaftdTypeStep == TypeOK /\ [SystemNext]_systemVars => TypeOK'
BY RaftdPart, StepType, EnforcerCrashType

LEMMA SystemTypeInit == SystemInit => SystemTypeOK
BY InitType, SystemAssumption DEF SystemInit, SystemTypeOK

LEMMA SystemTypeStep == SystemTypeOK /\ [SystemNext]_systemVars => SystemTypeOK'
<1> SUFFICES ASSUME SystemTypeOK, [SystemNext]_systemVars PROVE SystemTypeOK'
  OBVIOUS
<1>1. TypeOK /\ TypeOK'
  BY RaftdTypeStep DEF SystemTypeOK
<1> USE DEF SystemTypeOK, ghosts
<1>2. CASE \E c \in Operators : Operator(c)
  BY <1>1, <1>2 DEF Operator
<1>3. CASE RaftdAlone
  BY <1>1, <1>3 DEF RaftdAlone
<1>4. ASSUME NEW t \in Tasks, SendEvent(t) PROVE SystemTypeOK'
  <2>1. outbox[t] \in Seq(Envelope) /\ outbox[t] # <<>>
    BY <1>1, <1>4 DEF SendEvent, Broadcast, TypeOK
  <2>2. Head(outbox[t]).index \in Nat
    <3>1. Head(outbox[t]) \in Envelope
      BY <2>1
    <3> QED
      BY <3>1 DEF Envelope
  <2>3. maxSent' \in Nat
    BY <1>4, <2>2 DEF SendEvent
  <2>4. missed' \in [Nodes -> BOOLEAN]
    BY <1>4 DEF SendEvent
  <2> QED
    BY <1>1, <1>4, <2>3, <2>4 DEF SendEvent
<1>5. ASSUME NEW n \in Nodes, NEW task \in {"dns", "events"},
             Ask(task, n) \/ Answered(task, n) \/ RequestFails(task, n)
      PROVE  SystemTypeOK'
  BY <1>1, <1>5 DEF Ask, Answered, RequestFails, EnforcerTasks
<1>6. ASSUME NEW n \in Nodes, TakeSnapshotOf(n) \/ TailFrom(n) \/ Connect(n) \/ ReadLine(n)
      PROVE  SystemTypeOK'
  <2>1. missed' \in [Nodes -> BOOLEAN]
    BY <1>6 DEF TakeSnapshotOf, TailFrom, Connect, ReadLine
  <2> QED
    BY <1>1, <1>6, <2>1 DEF TakeSnapshotOf, TailFrom, Connect, ReadLine
<1>7. ASSUME NEW n \in Nodes, ReadEof(n) \/ EnforcerAlone(n) PROVE SystemTypeOK'
  BY <1>1, <1>7 DEF ReadEof, EnforcerAlone
<1>8. ASSUME NEW n \in Nodes, EnforcerCrash(n) PROVE SystemTypeOK'
  <2>1. crashes' \in 0..MaxCrashes
    BY <1>8, SystemAssumption DEF EnforcerCrash
  <2> QED
    BY <1>1, <1>8, <2>1 DEF EnforcerCrash
<1>9. CASE RaftdCrash
  <2>1. crashes' \in 0..MaxCrashes
    BY <1>9, SystemAssumption DEF RaftdCrash
  <2> QED
    BY <1>1, <1>9, <2>1 DEF RaftdCrash
<1>10. CASE UNCHANGED systemVars
  BY <1>1, <1>10 DEF systemVars
<1> QED
  BY <1>2, <1>3, <1>4, <1>5, <1>6, <1>7, <1>8, <1>9, <1>10 DEF SystemNext

-----------------------------------------------------------------------------
(* The events still to be broadcast.                                        *)

\* Each unsent event has an index of its own, below the next one, and none has
\* the highest index broadcast since the last restart.
UnsentNumbered ==
    /\ maxSent < st.next_index
    /\ \A t \in Tasks : \A i \in DOMAIN outbox[t] :
          outbox[t][i].index < st.next_index /\ outbox[t][i].index # maxSent
    /\ \A t, u \in Tasks : \A i \in DOMAIN outbox[t], j \in DOMAIN outbox[u] :
          outbox[t][i].index = outbox[u][j].index => t = u /\ i = j

LEMMA OutboxType ==
    ASSUME TypeOK, NEW t \in Tasks
    PROVE  /\ outbox[t] \in Seq(Envelope) /\ Len(outbox[t]) \in Nat
           /\ DOMAIN outbox[t] = 1..Len(outbox[t])
           /\ \A i \in 1..Len(outbox[t]) : outbox[t][i] \in Envelope /\ outbox[t][i].index \in Nat
<1>1. outbox[t] \in Seq(Envelope)
  BY DEF TypeOK
<1>2. \A i \in 1..Len(outbox[t]) : outbox[t][i] \in Envelope
  BY <1>1
<1>3. \A e \in Envelope : e.index \in Nat
  BY DEF Envelope
<1> QED
  BY <1>1, <1>2, <1>3

LEMMA UnsentFacts ==
    ASSUME TypeOK, UnsentNumbered
    PROVE  /\ \A e \in Unsent : /\ e \in Envelope /\ e.index \in Nat
                                /\ e.index < st.next_index /\ e.index # maxSent
           /\ \A e, f \in Unsent : e.index = f.index => e = f
<1>1. \A e \in Unsent : \E t \in Tasks : \E i \in DOMAIN outbox[t] : e = outbox[t][i]
  BY DEF Unsent, Range
<1> QED
  BY <1>1, OutboxType DEF UnsentNumbered

LEMMA SectionUnsent ==
    ASSUME SystemTypeOK, UnsentNumbered, NEW t \in Tasks, NEW events, Section(t, events), UNCHANGED maxSent
    PROVE  /\ UnsentNumbered'
           /\ Unsent' = Unsent \cup Range(events)
           /\ \A e \in Range(events) : e.index >= st.next_index
           /\ \A e, f \in Range(events) : e.index = f.index => e = f
<1> TypeOK /\ maxSent \in Nat
  BY DEF SystemTypeOK
<1>1. /\ st.next_index \in Nat /\ events \in Seq(Envelope) /\ Len(events) \in Nat
      /\ DOMAIN events = 1..Len(events)
  BY DEF TypeOK, PersistedState, Section
<1>2. \A i \in 1..Len(events) : events[i].index = st.next_index + i - 1
  BY DEF Section
<1>3. \A u \in Tasks : outbox'[u] = IF u = t THEN events ELSE outbox[u]
  BY DEF Section, TypeOK
<1>4. outbox[t] = <<>> /\ st'.next_index = st.next_index + Len(events)
  BY DEF Section
<1>5. Unsent' = Unsent \cup Range(events)
  <2>1. Range(outbox[t]) = {}
    BY <1>4 DEF Range
  <2> QED
    BY <1>3, <2>1 DEF Unsent
<1>6. \A i \in 1..Len(events) : events[i].index >= st.next_index /\ events[i].index < st'.next_index
  BY <1>1, <1>2, <1>4
<1>7. \A i, j \in 1..Len(events) : events[i].index = events[j].index => i = j
  BY <1>1, <1>2
<1>8. \A u \in Tasks : \A i \in DOMAIN outbox[u] :
        outbox[u][i].index \in Nat /\ outbox[u][i].index < st.next_index /\ outbox[u][i].index # maxSent
  BY OutboxType DEF UnsentNumbered
<1>9. maxSent < st'.next_index /\ maxSent < st.next_index
  <2>1. CASE Len(events) = 0
    BY <1>1, <1>4, <2>1 DEF UnsentNumbered
  <2>2. CASE Len(events) > 0
    <3>1. 1 \in 1..Len(events)
      BY <1>1, <2>2
    <3>2. st.next_index < st'.next_index
      BY <1>1, <1>4, <2>2
    <3> QED
      BY <1>1, <1>4, <3>2 DEF UnsentNumbered
  <2> QED
    BY <1>1, <2>1, <2>2
<1>10. UnsentNumbered'
  <2>1. maxSent' < st'.next_index
    BY <1>9
  <2>2. ASSUME NEW u \in Tasks, NEW i \in DOMAIN outbox'[u]
        PROVE  outbox'[u][i].index < st'.next_index /\ outbox'[u][i].index # maxSent'
    <3>1. CASE u = t
      BY <1>1, <1>3, <1>6, <1>9, <3>1
    <3>2. CASE u # t
      BY <1>1, <1>3, <1>4, <1>8, <3>2
    <3> QED
      BY <3>1, <3>2
  <2>3. ASSUME NEW u \in Tasks, NEW v \in Tasks, NEW i \in DOMAIN outbox'[u], NEW j \in DOMAIN outbox'[v],
               outbox'[u][i].index = outbox'[v][j].index
        PROVE  u = v /\ i = j
    <3>1. CASE u = t /\ v = t
      BY <1>1, <1>3, <1>7, <2>3, <3>1
    <3>2. CASE u # t /\ v # t
      BY <1>3, <2>3, <3>2 DEF UnsentNumbered
    <3>3. CASE u = t /\ v # t
      BY <1>1, <1>3, <1>6, <1>8, <2>3, <3>3
    <3>4. CASE u # t /\ v = t
      BY <1>1, <1>3, <1>6, <1>8, <2>3, <3>4
    <3> QED
      BY <3>1, <3>2, <3>3, <3>4
  <2> QED
    BY <2>1, <2>2, <2>3 DEF UnsentNumbered
<1> QED
  BY <1>1, <1>5, <1>6, <1>7, <1>10 DEF Range

LEMMA SendUnsent ==
    ASSUME SystemTypeOK, UnsentNumbered, NEW t \in Tasks, SendEvent(t)
    PROVE  /\ UnsentNumbered'
           /\ Head(outbox[t]) \in Unsent
           /\ Unsent' = Unsent \ {Head(outbox[t])}
           /\ maxSent' >= Head(outbox[t]).index /\ maxSent' >= maxSent
<1> TypeOK /\ maxSent \in Nat /\ st.next_index \in Nat
  BY DEF SystemTypeOK, TypeOK, PersistedState
<1> DEFINE q == outbox[t]
           d == Head(outbox[t])
<1>1. /\ q \in Seq(Envelope) /\ q # <<>> /\ Len(q) \in Nat /\ Len(q) > 0
      /\ d = q[1] /\ DOMAIN q = 1..Len(q)
      /\ Len(Tail(q)) = Len(q) - 1 /\ DOMAIN Tail(q) = 1..(Len(q) - 1)
      /\ \A i \in 1..(Len(q) - 1) : Tail(q)[i] = q[i + 1]
  BY OutboxType DEF SendEvent, Broadcast
<1>2. \A u \in Tasks : outbox'[u] = IF u = t THEN Tail(q) ELSE outbox[u]
  BY DEF SendEvent, Broadcast, TypeOK
<1> HIDE DEF q
<1>3. d \in Envelope /\ d.index \in Nat /\ d.index < st.next_index /\ d.index # maxSent
  BY <1>1, OutboxType DEF UnsentNumbered, q
<1>4. /\ maxSent' = IF d.index > maxSent THEN d.index ELSE maxSent
      /\ st' = st
  BY DEF SendEvent, Broadcast
  \* Where an event of the new outboxes was before.
<1>5. ASSUME NEW u \in Tasks, NEW i \in DOMAIN outbox'[u]
      PROVE  /\ (IF u = t THEN i + 1 ELSE i) \in DOMAIN outbox[u]
             /\ outbox'[u][i] = outbox[u][IF u = t THEN i + 1 ELSE i]
             /\ u = t => i + 1 # 1
  <2>1. CASE u = t
    <3>1. i \in 1..(Len(q) - 1) /\ outbox'[u][i] = q[i + 1]
      BY <1>1, <1>2, <2>1
    <3>2. i + 1 \in 1..Len(q) /\ i + 1 # 1
      BY <1>1, <3>1
    <3> QED
      BY <1>1, <2>1, <3>1, <3>2 DEF q
  <2>2. CASE u # t
    BY <1>2, <2>2
  <2> QED
    BY <2>1, <2>2
<1>6. \A u \in Tasks : \A i \in DOMAIN outbox[u] :
        /\ outbox[u][i].index \in Nat /\ i \in Nat
        /\ outbox[u][i].index < st.next_index /\ outbox[u][i].index # maxSent
        /\ outbox[u][i].index = d.index => u = t /\ i = 1
  BY <1>1, OutboxType DEF UnsentNumbered, q
<1>7. UnsentNumbered'
  <2>1. maxSent' < st'.next_index
    BY <1>3, <1>4 DEF UnsentNumbered
  <2>2. ASSUME NEW u \in Tasks, NEW i \in DOMAIN outbox'[u]
        PROVE  outbox'[u][i].index < st'.next_index /\ outbox'[u][i].index # maxSent'
    BY <1>4, <1>5, <1>6
  <2>3. ASSUME NEW u \in Tasks, NEW v \in Tasks, NEW i \in DOMAIN outbox'[u], NEW j \in DOMAIN outbox'[v],
               outbox'[u][i].index = outbox'[v][j].index
        PROVE  u = v /\ i = j
    <3> DEFINE a == IF u = t THEN i + 1 ELSE i
               b == IF v = t THEN j + 1 ELSE j
    <3>1. a \in DOMAIN outbox[u] /\ b \in DOMAIN outbox[v] /\ outbox[u][a].index = outbox[v][b].index
      BY <1>5, <2>3
    <3>2. u = v /\ a = b
      BY <3>1 DEF UnsentNumbered
    <3>3. \A w \in Tasks : \A k \in DOMAIN outbox'[w] : k \in Nat
      <4> TAKE w \in Tasks
      <4>1. CASE w = t
        <5>1. DOMAIN outbox'[w] = 1..(Len(q) - 1) /\ Len(q) \in Nat
          BY <1>1, <1>2, <4>1
        <5> QED
          BY <5>1
      <4>2. CASE w # t
        BY <1>2, <4>2, OutboxType
      <4> QED
        BY <4>1, <4>2
    <3> QED
      BY <3>2, <3>3
  <2> QED
    BY <2>1, <2>2, <2>3 DEF UnsentNumbered
<1>8. d \in Unsent
  BY <1>1 DEF Unsent, Range, q
<1>9. Unsent' = Unsent \ {d}
  <2>1. ASSUME NEW e \in Unsent' PROVE e \in Unsent /\ e # d
    <3>0. PICK u \in Tasks : e \in Range(outbox'[u])
      BY DEF Unsent
    <3>1. PICK i \in DOMAIN outbox'[u] : e = outbox'[u][i]
      BY <3>0 DEF Range
    <3> DEFINE a == IF u = t THEN i + 1 ELSE i
    <3>2. a \in DOMAIN outbox[u] /\ e = outbox[u][a] /\ (u = t => a # 1)
      BY <1>5, <3>1
    <3> HIDE DEF a
    <3>3. e \in Unsent
      BY <3>2 DEF Unsent, Range
    <3>4. e # d
      BY <1>6, <3>2
    <3> QED
      BY <3>3, <3>4
  <2>2. ASSUME NEW e \in Unsent, e # d PROVE e \in Unsent'
    <3>0. PICK u \in Tasks : e \in Range(outbox[u])
      BY DEF Unsent
    <3>1. PICK i \in DOMAIN outbox[u] : e = outbox[u][i]
      BY <3>0 DEF Range
    <3>2. CASE u # t
      BY <1>2, <3>1, <3>2 DEF Unsent, Range
    <3>3. CASE u = t
      <4>1. i \in 1..Len(q) /\ i # 1
        BY <1>1, <2>2, <3>1, <3>3 DEF q
      <4>2. i - 1 \in 1..(Len(q) - 1) /\ Tail(q)[i - 1] = q[i]
        BY <1>1, <4>1
      <4>3. i - 1 \in DOMAIN outbox'[t] /\ outbox'[t][i - 1] = e
        BY <1>1, <1>2, <3>1, <3>3, <4>2 DEF q
      <4> QED
        BY <4>3 DEF Unsent, Range
    <3> QED
      BY <3>2, <3>3
  <2> QED
    BY <2>1, <2>2
<1> QED
  BY <1>3, <1>4, <1>7, <1>8, <1>9

\* The last unsent event about an id says what the table has, unless it was
\* overtaken by one already broadcast.
LastUnsentIsState ==
    \A e \in Unsent : \A id \in BanIds :
        About(e, id) /\ e.index > maxSent =>
            \/ Effect(e, id) = EntryOf(st.bans, id)
            \/ \E f \in Unsent : About(f, id) /\ f.index > e.index

UnsentInv == UnsentNumbered /\ LastUnsentIsState

LEMMA SectionUnsentInv ==
    ASSUME SystemTypeOK, UnsentInv, NEW t \in Tasks, NEW events, Section(t, events), UNCHANGED maxSent
    PROVE  UnsentInv'
<1> UnsentNumbered /\ LastUnsentIsState /\ TypeOK
  BY DEF UnsentInv, SystemTypeOK
<1>1. /\ UnsentNumbered'
      /\ Unsent' = Unsent \cup Range(events)
      /\ \A e \in Range(events) : e.index >= st.next_index
  BY SectionUnsent
<1>2. \A e \in Unsent : e.index \in Nat /\ e.index < st.next_index
  BY UnsentFacts
<1>3. \A id \in BanIds :
        /\ \A e \in Range(events) : About(e, id) => Effect(e, id) = EntryOf(st'.bans, id)
        /\ (\A e \in Range(events) : ~About(e, id)) => EntryOf(st'.bans, id) = EntryOf(st.bans, id)
  <2>1. DOMAIN events = 1..Len(events)
    BY DEF Section
  <2> QED
    BY <2>1 DEF Section, Range
<1>4. \A e \in Range(events) : e.index \in Nat
  <2>1. \A i \in 1..Len(events) : events[i] \in Envelope
    BY DEF Section
  <2>2. DOMAIN events = 1..Len(events)
    BY DEF Section
  <2> QED
    BY <2>1, <2>2 DEF Range, Envelope
<1>5. st.next_index \in Nat
  BY DEF TypeOK, PersistedState
<1>6. ASSUME NEW e \in Unsent', NEW id \in BanIds, About(e, id), e.index > maxSent'
      PROVE  \/ Effect(e, id) = EntryOf(st'.bans, id)
             \/ \E f \in Unsent' : About(f, id) /\ f.index > e.index
  <2>1. CASE e \in Range(events)
    BY <1>3, <1>6, <2>1
  <2>2. CASE e \in Unsent /\ \E f \in Range(events) : About(f, id)
    <3>1. PICK f \in Range(events) : About(f, id)
      BY <2>2
    <3>2. f.index > e.index
      BY <1>1, <1>2, <1>4, <1>5, <2>2
    <3> QED
      BY <1>1, <3>1, <3>2
  <2>3. CASE e \in Unsent /\ \A f \in Range(events) : ~About(f, id)
    <3>1. EntryOf(st'.bans, id) = EntryOf(st.bans, id)
      BY <1>3, <2>3
    <3>2. \/ Effect(e, id) = EntryOf(st.bans, id)
          \/ \E f \in Unsent : About(f, id) /\ f.index > e.index
      BY <1>6, <2>3 DEF LastUnsentIsState
    <3> QED
      BY <1>1, <3>1, <3>2
  <2> QED
    BY <1>1, <2>1, <2>2, <2>3
<1> QED
  BY <1>1, <1>6 DEF UnsentInv, LastUnsentIsState

LEMMA SendUnsentInv ==
    ASSUME SystemTypeOK, UnsentInv, NEW t \in Tasks, SendEvent(t)
    PROVE  UnsentInv'
<1> UnsentNumbered /\ LastUnsentIsState /\ TypeOK /\ maxSent \in Nat
  BY DEF UnsentInv, SystemTypeOK
<1> DEFINE d == Head(outbox[t])
<1>1. /\ UnsentNumbered'
      /\ d \in Unsent
      /\ Unsent' = Unsent \ {d}
      /\ maxSent' >= d.index /\ maxSent' >= maxSent
  BY SendUnsent
<1>2. \A e \in Unsent : e.index \in Nat
  BY UnsentFacts
<1>3. maxSent' \in Nat /\ st' = st
  BY <1>1, <1>2 DEF SendEvent, Broadcast
<1> HIDE DEF d
<1>4. ASSUME NEW e \in Unsent', NEW id \in BanIds, About(e, id), e.index > maxSent'
      PROVE  \/ Effect(e, id) = EntryOf(st'.bans, id)
             \/ \E f \in Unsent' : About(f, id) /\ f.index > e.index
  <2>1. e \in Unsent /\ e.index > maxSent
    BY <1>1, <1>2, <1>3, <1>4
  <2>2. CASE Effect(e, id) = EntryOf(st.bans, id)
    BY <1>3, <2>2
  <2>3. CASE \E f \in Unsent : About(f, id) /\ f.index > e.index
    <3>1. PICK f \in Unsent : About(f, id) /\ f.index > e.index
      BY <2>3
    <3>2. f # d
      BY <1>1, <1>2, <1>3, <1>4, <2>1, <3>1
    <3> QED
      BY <1>1, <3>1, <3>2
  <2> QED
    BY <1>4, <2>1, <2>2, <2>3 DEF LastUnsentIsState
<1> QED
  BY <1>1, <1>4 DEF UnsentInv, LastUnsentIsState

LEMMA UnsentStill ==
    ASSUME UnsentInv, UNCHANGED <<st, outbox, maxSent>>
    PROVE  UnsentInv' /\ Unsent' = Unsent
BY DEF UnsentInv, UnsentNumbered, LastUnsentIsState, Unsent, About, Effect, EntryOf

LEMMA UnsentCrash ==
    ASSUME TypeOK, RaftdCrash
    PROVE  UnsentInv'
<1>1. \A t \in Tasks : outbox'[t] = <<>>
  BY DEF RaftdCrash, CrashRestart
<1>2. maxSent' = 0 /\ st'.next_index \in Nat /\ st'.next_index > 0
  BY DEF RaftdCrash, CrashRestart, TypeOK, PersistedState
<1>3. Unsent' = {}
  BY <1>1 DEF Unsent, Range
<1>4. UnsentNumbered'
  BY <1>1, <1>2 DEF UnsentNumbered
<1> QED
  BY <1>3, <1>4 DEF UnsentInv, LastUnsentIsState

LEMMA UnsentInit == SystemInit => UnsentInv
<1> SUFFICES ASSUME SystemInit PROVE UnsentInv
  OBVIOUS
<1>1. \A t \in Tasks : outbox[t] = <<>>
  BY DEF SystemInit, Init
<1>2. maxSent = 0 /\ st.next_index = 1
  BY DEF SystemInit, Init, EmptyState
<1>3. Unsent = {}
  BY <1>1 DEF Unsent, Range
<1>4. UnsentNumbered
  BY <1>1, <1>2 DEF UnsentNumbered
<1> QED
  BY <1>3, <1>4 DEF UnsentInv, LastUnsentIsState

LEMMA UnsentStep == SystemTypeOK /\ UnsentInv /\ [SystemNext]_systemVars => UnsentInv'
<1> SUFFICES ASSUME SystemTypeOK, UnsentInv, [SystemNext]_systemVars PROVE UnsentInv'
  OBVIOUS
<1> TypeOK
  BY DEF SystemTypeOK
<1>1. CASE RaftdSection
  BY <1>1, SectionUnsentInv DEF RaftdSection, ghosts
<1>2. ASSUME NEW t \in Tasks, SendEvent(t) PROVE UnsentInv'
  BY <1>2, SendUnsentInv
<1>3. ASSUME NEW n \in Subscribers, Forward(n), UNCHANGED ghosts PROVE UnsentInv'
  BY <1>3, UnsentStill DEF Forward, ghosts
<1>4. CASE StreamStill
  BY <1>4, UnsentStill DEF StreamStill, ghosts
<1>5. ASSUME NEW n \in Nodes, TakeSnapshotOf(n) \/ TailFrom(n) \/ Connect(n) \/ ReadLine(n) PROVE UnsentInv'
  BY <1>5, UnsentStill DEF TakeSnapshotOf, TailFrom, Connect, ReadLine, SendSnapshot, StartTail, Subscribe,
     Deliver, ghosts
<1>6. CASE RaftdCrash
  BY <1>6, UnsentCrash
<1>7. ASSUME NEW n \in Nodes, EnforcerCrash(n) PROVE UnsentInv'
  BY <1>7, UnsentStill DEF EnforcerCrash
<1> QED
  BY <1>1, <1>2, <1>3, <1>4, <1>5, <1>6, <1>7, SystemKinds

-----------------------------------------------------------------------------
(* What lines under way say of an id.                                       *)

\* A node may hold v of an id's entry w in the table: less only when expired.
Fits(n, v, w) == v \subseteq w /\ (n \in SnapshotSubs => \A b \in w \ v : IsExpired(b))

\* Once the lines are read, a node that holds v of an id's entry fits w.
LastSays(n, lines, id, v, w) ==
    \/ /\ \A i \in 1..Len(lines) : ~About(lines[i], id)
       /\ Fits(n, v, w)
    \/ \E i \in 1..Len(lines) :
          /\ About(lines[i], id)
          /\ \A j \in 1..Len(lines) : j > i => ~About(lines[j], id)
          /\ Fits(n, Effect(lines[i], id), w)

LEMMA OtherLineSent ==
    ASSUME NEW n, NEW lines \in Seq(Line), NEW l \in Line, NEW id, NEW v, NEW w,
           LastSays(n, lines, id, v, w), ~About(l, id)
    PROVE  LastSays(n, Append(lines, l), id, v, w)
<1> DEFINE k == Len(lines)
           new == Append(lines, l)
<1>1. /\ k \in Nat /\ Len(new) = k + 1 /\ new[k + 1] = l
      /\ \A i \in 1..k : new[i] = lines[i]
  BY LenProperties
<1> HIDE DEF k, new
<1>2. \A i \in 1..(k + 1) : i \in 1..k \/ i = k + 1
  BY <1>1
<1>3. \A i \in 1..k : i \in 1..(k + 1)
  BY <1>1
<1>4. CASE (\A i \in 1..k : ~About(lines[i], id)) /\ Fits(n, v, w)
  <2>1. \A i \in 1..Len(new) : ~About(new[i], id)
    BY <1>1, <1>2, <1>4
  <2> QED
    BY <1>4, <2>1 DEF LastSays, new
<1>5. ASSUME NEW i \in 1..k, About(lines[i], id),
             \A j \in 1..k : j > i => ~About(lines[j], id),
             Fits(n, Effect(lines[i], id), w)
      PROVE  LastSays(n, new, id, v, w)
  <2>1. i \in 1..Len(new) /\ new[i] = lines[i]
    BY <1>1, <1>3
  <2>2. \A j \in 1..Len(new) : j > i => ~About(new[j], id)
    BY <1>1, <1>2, <1>5
  <2> QED
    BY <1>5, <2>1, <2>2 DEF LastSays
<1> QED
  BY <1>4, <1>5 DEF LastSays, k, new

LEMMA LineSent ==
    ASSUME NEW n, NEW lines \in Seq(Line), NEW l \in Line, NEW id, NEW v, NEW w,
           About(l, id), Fits(n, Effect(l, id), w)
    PROVE  LastSays(n, Append(lines, l), id, v, w)
<1> DEFINE k == Len(lines)
           new == Append(lines, l)
<1>1. k \in Nat /\ Len(new) = k + 1 /\ new[k + 1] = l
  BY LenProperties
<1> HIDE DEF k, new
<1>2. k + 1 \in 1..Len(new) /\ \A j \in 1..Len(new) : ~(j > k + 1)
  BY <1>1
<1>3. LastSays(n, new, id, v, w)
  BY <1>1, <1>2 DEF LastSays
<1> QED
  BY <1>3 DEF new

\* Reading the first line: x is what the node then holds of the id.
LEMMA LineRead ==
    ASSUME NEW n, NEW lines \in Seq(Line), lines # <<>>, NEW id, NEW v, NEW w, NEW x,
           LastSays(n, lines, id, v, w),
           About(Head(lines), id) /\ Fits(n, Effect(Head(lines), id), w) => Fits(n, x, w),
           ~About(Head(lines), id) => x = v
    PROVE  LastSays(n, Tail(lines), id, x, w)
<1> DEFINE k == Len(lines)
           rest == Tail(lines)
           h == Head(lines)
<1>1. /\ k \in Nat /\ k >= 1 /\ h = lines[1] /\ Len(rest) = k - 1
      /\ \A i \in 1..(k - 1) : rest[i] = lines[i + 1]
  BY LenProperties, HeadTailProperties
<1>2. /\ About(h, id) /\ Fits(n, Effect(h, id), w) => Fits(n, x, w)
      /\ ~About(h, id) => x = v
  OBVIOUS
<1>3. LastSays(n, lines, id, v, w)
  OBVIOUS
<1> HIDE DEF k, rest, h
<1>4. \A i \in 1..(k - 1) : i + 1 \in 1..k
  BY <1>1
<1>5. CASE (\A i \in 1..k : ~About(lines[i], id)) /\ Fits(n, v, w)
  <2>1. 1 \in 1..k
    BY <1>1
  <2>2. Fits(n, x, w)
    BY <1>1, <1>2, <1>5, <2>1
  <2>3. \A i \in 1..Len(rest) : ~About(rest[i], id)
    BY <1>1, <1>4, <1>5
  <2> QED
    BY <2>2, <2>3 DEF LastSays, rest
<1>6. ASSUME NEW i \in 1..k, About(lines[i], id),
             \A j \in 1..k : j > i => ~About(lines[j], id),
             Fits(n, Effect(lines[i], id), w)
      PROVE  LastSays(n, rest, id, x, w)
  <2>1. CASE i = 1
    <3>1. Fits(n, x, w)
      BY <1>1, <1>2, <1>6, <2>1
    <3>2. \A j \in 1..(k - 1) : j + 1 > i
      BY <1>1, <2>1
    <3>3. \A j \in 1..Len(rest) : ~About(rest[j], id)
      BY <1>1, <1>4, <1>6, <3>2
    <3> QED
      BY <3>1, <3>3 DEF LastSays
  <2>2. CASE i # 1
    <3>1. i - 1 \in 1..(k - 1) /\ (i - 1) + 1 = i
      BY <1>1, <2>2
    <3>2. rest[i - 1] = lines[i]
      BY <1>1, <3>1
    <3>3. \A j \in 1..(k - 1) : j > i - 1 => j + 1 > i
      BY <1>1
    <3>4. \A j \in 1..Len(rest) : j > i - 1 => ~About(rest[j], id)
      BY <1>1, <1>4, <1>6, <3>3
    <3> QED
      BY <1>1, <1>6, <3>1, <3>2, <3>4 DEF LastSays
  <2> QED
    BY <2>1, <2>2
<1> QED
  BY <1>3, <1>5, <1>6 DEF LastSays, k, rest

\* What passes through the receiver and the socket keeps its order.
LEMMA LinesMove ==
    ASSUME NEW a \in Seq(Line), NEW b \in Seq(Line)
    PROVE  /\ a \o b \in Seq(Line)
           /\ \A l \in Line : Append(a \o b, l) = a \o Append(b, l)
           /\ b # <<>> => Append(a, Head(b)) \o Tail(b) = a \o b
           /\ a # <<>> => /\ a \o b # <<>> /\ Head(a \o b) = Head(a)
                          /\ Tail(a \o b) = Tail(a) \o b
<1>1. a \o b \in Seq(Line) /\ Len(a) \in Nat /\ Len(b) \in Nat /\ Len(a \o b) = Len(a) + Len(b)
  BY ConcatProperties, LenProperties
<1>2. \A i \in 1..(Len(a) + Len(b)) : (a \o b)[i] = IF i <= Len(a) THEN a[i] ELSE b[i - Len(a)]
  BY ConcatProperties
<1>3. ASSUME NEW l \in Line PROVE Append(a \o b, l) = a \o Append(b, l)
  <2>1. <<l>> \in Seq(Line)
    BY <1>3
  <2>2. Append(a \o b, l) = (a \o b) \o <<l>> /\ Append(b, l) = b \o <<l>>
    BY <1>1, <1>3, AppendIsConcat
  <2>3. (a \o b) \o <<l>> = a \o (b \o <<l>>)
    BY <2>1, ConcatAssociative
  <2> QED
    BY <2>2, <2>3
<1>4. ASSUME b # <<>> PROVE Append(a, Head(b)) \o Tail(b) = a \o b
  BY <1>1, <1>2, <1>4, HeadTailProperties
<1>5. ASSUME a # <<>>
      PROVE  a \o b # <<>> /\ Head(a \o b) = Head(a) /\ Tail(a \o b) = Tail(a) \o b
  BY <1>1, <1>2, <1>5, HeadTailProperties
<1> QED
  BY <1>1, <1>3, <1>4, <1>5

-----------------------------------------------------------------------------
(* The stream from sbc_raftd to a node.                                     *)

\* A node that missed nothing: an id no unsent event is about, the lines under
\* way lead from the entry the node holds to the one in the table.
Follows(n) ==
    \A id \in BanIds : (\A e \in Unsent : ~About(e, id)) =>
        LastSays(n, wire[n] \o rx[n], id, EntryOf(desired[n], id), EntryOf(st.bans, id))

StreamOf(n) ==
    /\ sub[n] # "live" => rx[n] = <<>>
    /\ sub[n] = "subscribed" => missed[n] /\ wire[n] = <<>>
    /\ sub[n] = "snapshotted" => n \in SnapshotSubs
    /\ sub[n] \in {"snapshotted", "live"} /\ ~missed[n] => Follows(n)

StreamInv == \A n \in Nodes : StreamOf(n)

NodesType ==
    /\ desired \in [Nodes -> SUBSET Ban]
    /\ applied \in [Nodes -> SUBSET Ban]
    /\ attached \in [Nodes -> BOOLEAN]

LEMMA StreamType ==
    ASSUME TypeOK, NEW n \in Nodes
    PROVE  /\ n \in Subscribers
           /\ wire[n] \in Seq(Line) /\ rx[n] \in Seq(Line) /\ rx[n] \in Seq(Envelope)
           /\ sub[n] \in {"closed", "subscribed", "snapshotted", "live"}
<1>1. n \in Subscribers
  BY SystemAssumption
<1>2. rx[n] \in Seq(Envelope) /\ wire[n] \in Seq(Line)
  BY <1>1 DEF TypeOK
<1>3. Envelope \subseteq Line
  BY DEF Line
<1>4. rx[n] \in Seq(Line)
  BY <1>2, <1>3, SeqMonotonic
<1> QED
  BY <1>1, <1>2, <1>4 DEF TypeOK

LEMMA LineKinds ==
    ASSUME NEW l \in Line
    PROVE  \/ l.event.type = "snapshot" /\ l.event.bans \in SUBSET Ban
           \/ l.event.type = "ban_upserted" /\ l.event.entry \in Ban
           \/ l.event.type = "ban_deleted" /\ l.event.ban_id \in BanIds
           \/ l.event.type \notin {"snapshot", "ban_upserted", "ban_deleted"}
BY DEF Line, Envelope, Event, Snapshot

\* What a node does with a line is what the line says.
LEMMA ReadEffect ==
    ASSUME TypeOK, NodesType, NEW n \in Nodes, ReadLine(n), NEW h, h = Head(wire[n])
    PROVE  /\ h \in Line /\ wire[n] # <<>>
           /\ \A m \in Nodes \ {n} : desired'[m] = desired[m]
           /\ \A id \in BanIds :
                 /\ About(h, id) => /\ EntryOf(desired'[n], id) \subseteq Effect(h, id)
                                    /\ \A b \in Effect(h, id) \ EntryOf(desired'[n], id) : IsExpired(b)
                 /\ ~About(h, id) => EntryOf(desired'[n], id) = EntryOf(desired[n], id)
           /\ desired' \in [Nodes -> SUBSET Ban]
<1>1. wire[n] # <<>> /\ E!Receive(n, h.event)
  BY DEF ReadLine, Deliver
<1>2. h \in Line
  BY <1>1, StreamType, HeadTailProperties
<1>3. desired \in [Nodes -> SUBSET Ban]
  BY DEF NodesType
<1> USE DEF EntryOf, About, Effect, IsExpired, E!IsExpired, E!Unexpired, E!WithoutIds, E!WithBan
<1>4. CASE h.event.type = "snapshot" /\ E!OnSnapshot(n, h.event.bans)
  <2>1. h.event.bans \in SUBSET Ban
    BY <1>2, <1>4, LineKinds
  <2>2. desired' = [desired EXCEPT ![n] = E!Unexpired(h.event.bans)]
    BY <1>4 DEF E!OnSnapshot
  <2>3. desired'[n] = {b \in h.event.bans : ~IsExpired(b)} /\ \A m \in Nodes \ {n} : desired'[m] = desired[m]
    BY <1>3, <2>2
  <2> QED
    BY <1>1, <1>2, <1>3, <1>4, <2>1, <2>2, <2>3
<1>5. CASE h.event.type = "ban_upserted" /\ E!OnBanUpserted(n, h.event.entry)
  <2>1. h.event.entry \in Ban
    BY <1>2, <1>5, LineKinds
  <2>2. desired' = [desired EXCEPT ![n] = E!WithBan(@, h.event.entry)]
    BY <1>5 DEF E!OnBanUpserted
  <2>3. /\ desired'[n] = {b \in desired[n] : b.ban_id # h.event.entry.ban_id} \cup {h.event.entry}
        /\ \A m \in Nodes \ {n} : desired'[m] = desired[m]
    BY <1>3, <2>2
  <2> QED
    BY <1>1, <1>2, <1>3, <1>5, <2>1, <2>2, <2>3
<1>6. CASE h.event.type = "ban_deleted" /\ E!OnBanDeleted(n, h.event.ban_id)
  <2>1. desired' = [desired EXCEPT ![n] = E!WithoutIds(@, {h.event.ban_id})]
    BY <1>6 DEF E!OnBanDeleted
  <2>2. /\ desired'[n] = {b \in desired[n] : b.ban_id # h.event.ban_id}
        /\ \A m \in Nodes \ {n} : desired'[m] = desired[m]
    BY <1>3, <2>1
  <2> QED
    BY <1>1, <1>2, <1>3, <1>6, <2>1, <2>2
<1>7. CASE h.event.type \notin {"snapshot", "ban_upserted", "ban_deleted"} /\ desired' = desired
  BY <1>1, <1>2, <1>3, <1>7
<1> QED
  BY <1>1, <1>4, <1>5, <1>6, <1>7 DEF E!Receive

\* A step that leaves a node's stream, its bans, the table and the unsent
\* events alone keeps it on the table's track; time only expires more.
LEMMA FitsLater ==
    ASSUME TypeOK, now' = now \/ Tick, NEW n, NEW v, NEW w, w \subseteq Ban, Fits(n, v, w)
    PROVE  Fits(n, v, w)'
<1>1. now \in Nat /\ now' \in Nat /\ now' >= now
  BY DEF TypeOK, Tick
<1>2. \A b \in Ban : b.expires \in Nat
  BY DEF Ban
<1> QED
  BY <1>1, <1>2 DEF Fits, IsExpired

LEMMA LastSaysLater ==
    ASSUME TypeOK, now' = now \/ Tick, NEW n, NEW lines, NEW id, NEW v, NEW w, w \subseteq Ban,
           LastSays(n, lines, id, v, w)
    PROVE  LastSays(n, lines, id, v, w)'
<1>1. \A x : Fits(n, x, w) => Fits(n, x, w)'
  BY FitsLater
<1>2. CASE (\A i \in 1..Len(lines) : ~About(lines[i], id)) /\ Fits(n, v, w)
  BY <1>1, <1>2 DEF LastSays
<1>3. ASSUME NEW i \in 1..Len(lines), About(lines[i], id),
             \A j \in 1..Len(lines) : j > i => ~About(lines[j], id),
             Fits(n, Effect(lines[i], id), w)
      PROVE  LastSays(n, lines, id, v, w)'
  <2>1. Fits(n, Effect(lines[i], id), w)'
    BY <1>1, <1>3
  <2>2. Effect(lines[i], id)' = Effect(lines[i], id) /\ About(lines[i], id)' = About(lines[i], id)
    OBVIOUS
  <2> QED
    BY <1>3, <2>1 DEF LastSays
<1> QED
  BY <1>2, <1>3 DEF LastSays

LEMMA EntriesType ==
    ASSUME TypeOK, NEW id
    PROVE  EntryOf(st.bans, id) \subseteq Ban
BY DEF TypeOK, PersistedState, EntryOf

LEMMA StillFollows ==
    ASSUME TypeOK, NEW n \in Nodes, Follows(n), now' = now \/ Tick,
           wire'[n] \o rx'[n] = wire[n] \o rx[n], desired'[n] = desired[n],
           UNCHANGED <<st, outbox>>
    PROVE  Follows(n)'
<1>1. Unsent' = Unsent
  BY DEF Unsent
<1>2. ASSUME NEW id \in BanIds, \A e \in Unsent : ~About(e, id)
      PROVE  LastSays(n, wire[n] \o rx[n], id, EntryOf(desired[n], id), EntryOf(st.bans, id))'
  <2> DEFINE lines == wire[n] \o rx[n]
             v == EntryOf(desired[n], id)
             w == EntryOf(st.bans, id)
  <2>1. LastSays(n, lines, id, v, w)
    BY <1>2 DEF Follows
  <2>2. w \subseteq Ban
    BY EntriesType
  <2>3. lines' = lines /\ v' = v /\ w' = w
    BY DEF EntryOf
  <2> HIDE DEF lines, v, w
  <2>4. LastSays(n, lines, id, v, w)'
    BY <2>1, <2>2, <2>3, LastSaysLater
  <2> QED
    BY <2>4 DEF lines, v, w
<1> QED
  BY <1>1, <1>2 DEF Follows, About

LEMMA SectionStream ==
    ASSUME SystemTypeOK, UnsentInv, NEW t \in Tasks, NEW events, Section(t, events),
           UNCHANGED <<enforcerVars, ghosts>>, NEW n \in Nodes, StreamOf(n)
    PROVE  StreamOf(n)'
<1> TypeOK
  BY DEF SystemTypeOK
<1>1. UNCHANGED <<sub, rx, wire, missed, desired, now, maxSent>>
  BY DEF Section, enforcerVars, ghosts
<1>2. Unsent' = Unsent \cup Range(events)
  BY <1>1, SectionUnsent DEF UnsentInv
<1>3. \A id \in BanIds :
        (\A e \in Range(events) : ~About(e, id)) => EntryOf(st'.bans, id) = EntryOf(st.bans, id)
  <2>1. DOMAIN events = 1..Len(events)
    BY DEF Section
  <2> QED
    BY <2>1 DEF Section, Range
<1>4. ASSUME Follows(n) PROVE Follows(n)'
  <2> SUFFICES ASSUME NEW id \in BanIds, \A e \in Unsent' : ~About(e, id)
               PROVE  LastSays(n, wire[n] \o rx[n], id, EntryOf(desired[n], id), EntryOf(st.bans, id))'
    BY DEF Follows, About
  <2>1. LastSays(n, wire[n] \o rx[n], id, EntryOf(desired[n], id), EntryOf(st.bans, id))
    BY <1>2, <1>4 DEF Follows
  <2>2. EntryOf(st'.bans, id) = EntryOf(st.bans, id)
    BY <1>2, <1>3
  <2> DEFINE lines == wire[n] \o rx[n]
             v == EntryOf(desired[n], id)
             w == EntryOf(st.bans, id)
  <2>3. lines' = lines /\ v' = v /\ w' = w
    BY <1>1, <2>2 DEF EntryOf
  <2>4. w \subseteq Ban
    BY EntriesType
  <2> HIDE DEF lines, v, w
  <2>5. LastSays(n, lines, id, v, w)'
    BY <1>1, <2>1, <2>3, <2>4, LastSaysLater DEF lines, v, w
  <2> QED
    BY <2>5 DEF lines, v, w
<1> QED
  BY <1>1, <1>4 DEF StreamOf

\* A live node that misses nothing gets the event, in order: it is then the
\* last word about its id, and what the table has.
LEMMA SendStream ==
    ASSUME SystemTypeOK, UnsentInv, NEW t \in Tasks, SendEvent(t), NEW n \in Nodes, StreamOf(n)
    PROVE  StreamOf(n)'
<1> TypeOK /\ UnsentNumbered /\ LastUnsentIsState /\ maxSent \in Nat
  BY DEF UnsentInv, SystemTypeOK
<1> DEFINE d == Head(outbox[t])
<1>1. /\ UNCHANGED <<sub, wire, desired, now, st>>
      /\ rx'[n] = IF sub[n] = "live" THEN Push(rx[n], d) ELSE rx[n]
      /\ missed'[n] = \/ missed[n]
                      \/ sub[n] = "snapshotted"
                      \/ sub[n] = "live" /\ (Len(rx[n]) = ChannelCap \/ d.index < maxSent)
  BY StreamType DEF SendEvent, Broadcast, enforcerVars
<1>2. d \in Unsent /\ Unsent' = Unsent \ {d}
  BY SendUnsent
<1>3. d \in Line /\ d.index \in Nat /\ d.index # maxSent
  BY <1>2, UnsentFacts DEF Line
<1> HIDE DEF d
<1>4. ASSUME sub[n] \in {"snapshotted", "live"}, ~missed'[n] PROVE Follows(n)'
  <2> DEFINE lines == wire[n] \o rx[n]
  <2>1. sub[n] = "live" /\ ~missed[n] /\ Len(rx[n]) # ChannelCap /\ ~(d.index < maxSent)
    BY <1>1, <1>4
  <2>2. d.index > maxSent
    BY <1>3, <2>1
  <2>3. lines \in Seq(Line) /\ wire'[n] \o rx'[n] = Append(lines, d)
    <3> DEFINE a == wire[n]
               b == rx[n]
    <3>1. a \in Seq(Line) /\ b \in Seq(Line)
      BY StreamType
    <3>2. wire'[n] = a /\ rx'[n] = Append(b, d)
      BY <1>1, <2>1 DEF Push
    <3> HIDE DEF a, b
    <3>3. a \o b \in Seq(Line) /\ Append(a \o b, d) = a \o Append(b, d)
      BY <1>3, <3>1, LinesMove, SMTT(30)
    <3> QED
      BY <3>2, <3>3 DEF a, b
  <2>4. ASSUME NEW id \in BanIds, \A e \in Unsent' : ~About(e, id)
        PROVE  LastSays(n, Append(lines, d), id, EntryOf(desired[n], id), EntryOf(st.bans, id))
    <3>1. CASE About(d, id)
      <4>1. Effect(d, id) = EntryOf(st.bans, id)
        <5>1. \A f \in Unsent : About(f, id) => f = d
          BY <1>2, <2>4
        <5>2. ~(d.index > d.index)
          BY <1>3
        <5> QED
          BY <1>2, <2>2, <3>1, <5>1, <5>2 DEF LastUnsentIsState
      <4>2. Fits(n, Effect(d, id), EntryOf(st.bans, id))
        BY <4>1 DEF Fits
      <4> QED
        BY <1>3, <2>3, <3>1, <4>2, LineSent
    <3>2. CASE ~About(d, id)
      <4>1. \A e \in Unsent : ~About(e, id)
        BY <1>2, <2>4, <3>2
      <4>2. LastSays(n, lines, id, EntryOf(desired[n], id), EntryOf(st.bans, id))
        BY <2>1, <4>1 DEF StreamOf, Follows
      <4> HIDE DEF lines
      <4> QED
        BY <1>3, <2>3, <3>2, <4>2, OtherLineSent
    <3> QED
      BY <3>1, <3>2
  <2> HIDE DEF lines
  <2>5. ASSUME NEW id \in BanIds, \A e \in Unsent' : ~About(e, id)
        PROVE  LastSays(n, wire[n] \o rx[n], id, EntryOf(desired[n], id), EntryOf(st.bans, id))'
    <3> DEFINE sent == wire[n] \o rx[n]
               v == EntryOf(desired[n], id)
               w == EntryOf(st.bans, id)
    <3>1. sent' = Append(lines, d) /\ v' = v /\ w' = w
      BY <1>1, <2>3 DEF EntryOf
    <3>2. w \subseteq Ban
      BY EntriesType
    <3>3. LastSays(n, Append(lines, d), id, v, w)
      BY <2>4, <2>5
    <3> HIDE DEF sent, v, w
    <3>4. LastSays(n, sent, id, v, w)'
      BY <1>1, <3>1, <3>2, <3>3, LastSaysLater
    <3> QED
      BY <3>4 DEF sent, v, w
  <2> QED
    BY <2>5 DEF Follows, About
<1> QED
  BY <1>1, <1>4 DEF StreamOf

LEMMA ForwardStream ==
    ASSUME TypeOK, NEW m \in Subscribers, Forward(m), UNCHANGED <<enforcerVars, ghosts>>,
           NEW n \in Nodes, StreamOf(n)
    PROVE  StreamOf(n)'
<1>1. UNCHANGED <<sub, desired, now, st, outbox, missed>>
  BY DEF Forward, enforcerVars, ghosts
<1>2. /\ wire' = [wire EXCEPT ![m] = Append(@, Head(rx[m]))]
      /\ rx' = [rx EXCEPT ![m] = Tail(@)]
      /\ rx[m] # <<>>
  BY DEF Forward
<1>3. wire \in [Subscribers -> Seq(Line)] /\ rx \in [Subscribers -> Seq(Envelope)] /\ n \in Subscribers
  BY StreamType DEF TypeOK
<1>4. CASE n = m
  <2>1. wire'[n] = Append(wire[n], Head(rx[n])) /\ rx'[n] = Tail(rx[n]) /\ rx[n] # <<>>
    BY <1>2, <1>3, <1>4
  <2>2. wire'[n] \o rx'[n] = wire[n] \o rx[n]
    <3> DEFINE a == wire[n]
               b == rx[n]
    <3>1. a \in Seq(Line) /\ b \in Seq(Line)
      BY StreamType
    <3>2. wire'[n] = Append(a, Head(b)) /\ rx'[n] = Tail(b) /\ b # <<>>
      BY <2>1
    <3> HIDE DEF a, b
    <3>3. wire'[n] \o rx'[n] = a \o b
      BY <3>1, <3>2, LinesMove
    <3> QED
      BY <3>3 DEF a, b
  <2>3. sub[n] = "live"
    BY <2>1 DEF StreamOf
  <2>4. Follows(n) => Follows(n)'
    BY <1>1, <2>2, StillFollows
  <2> QED
    BY <1>1, <2>3, <2>4 DEF StreamOf
<1>5. CASE n # m
  <2>1. wire'[n] = wire[n] /\ rx'[n] = rx[n]
    BY <1>2, <1>3, <1>5
  <2>2. Follows(n) => Follows(n)'
    BY <1>1, <2>1, StillFollows
  <2> QED
    BY <1>1, <2>1, <2>2 DEF StreamOf
<1> QED
  BY <1>4, <1>5

\* A step elsewhere.
LEMMA OtherStream ==
    ASSUME TypeOK, NEW n \in Nodes, StreamOf(n), now' = now \/ Tick,
           sub'[n] = sub[n], wire'[n] = wire[n], rx'[n] = rx[n], missed'[n] = missed[n],
           desired'[n] = desired[n], UNCHANGED <<st, outbox>>
    PROVE  StreamOf(n)'
BY StillFollows DEF StreamOf

LEMMA SnapshotStream ==
    ASSUME TypeOK, NEW n \in Nodes, TakeSnapshotOf(n), StreamOf(n)
    PROVE  StreamOf(n)'
<1> DEFINE snap == [index |-> st.next_index - 1,
                    event |-> [type |-> "snapshot", bans |-> st.bans, holds |-> st.holds]]
<1>1. /\ n \in SnapshotSubs /\ sub[n] = "subscribed" /\ sub'[n] = "snapshotted"
      /\ wire'[n] = Append(wire[n], snap)
      /\ UNCHANGED <<rx, st, outbox, desired, now>>
  BY StreamType DEF TakeSnapshotOf, SendSnapshot, TypeOK, enforcerVars
<1>2. wire[n] = <<>> /\ rx[n] = <<>>
  BY <1>1 DEF StreamOf
<1>3. snap \in Line
  <2>1. st.next_index - 1 \in Nat
    BY DEF TypeOK, PersistedState
  <2>2. [type |-> "snapshot", bans |-> st.bans, holds |-> st.holds] \in Snapshot
    BY DEF TypeOK, PersistedState, Snapshot
  <2> QED
    BY <2>1, <2>2 DEF Line
<1>4. ASSUME NEW id \in BanIds
      PROVE  LastSays(n, wire[n] \o rx[n], id, EntryOf(desired[n], id), EntryOf(st.bans, id))'
  <2> DEFINE sent == wire[n] \o rx[n]
             v == EntryOf(desired[n], id)
             w == EntryOf(st.bans, id)
  <2>1. About(snap, id) /\ Effect(snap, id) = w
    BY DEF About, Effect
  <2>2. Fits(n, Effect(snap, id), w)
    BY <2>1 DEF Fits
  <2>3. sent' = Append(<<>>, snap) /\ v' = v /\ w' = w
    <3> HIDE DEF snap
    <3>1. <<>> \in Seq(Line) /\ Append(<<>>, snap) \in Seq(Line)
      BY <1>3
    <3>2. Append(<<>>, snap) \o <<>> = Append(<<>>, snap)
      BY <3>1, ConcatEmptySeq
    <3> QED
      BY <1>1, <1>2, <3>2 DEF EntryOf
  <2>4. w \subseteq Ban
    BY EntriesType
  <2> HIDE DEF snap, sent, v, w
  <2>5. LastSays(n, Append(<<>>, snap), id, v, w)
    <3>1. <<>> \in Seq(Line)
      OBVIOUS
    <3> QED
      BY <1>3, <2>1, <2>2, <3>1, LineSent
  <2>6. LastSays(n, sent, id, v, w)'
    BY <1>1, <2>3, <2>4, <2>5, LastSaysLater
  <2> QED
    BY <2>6 DEF sent, v, w
<1>5. Follows(n)'
  BY <1>4 DEF Follows, About
<1> QED
  BY <1>1, <1>5 DEF StreamOf

\* A tail-only node starts from nothing.
LEMMA TailStream ==
    ASSUME SystemTypeOK, NEW n \in Nodes, TailFrom(n), StreamOf(n)
    PROVE  StreamOf(n)'
<1> TypeOK
  BY DEF SystemTypeOK
<1>1. /\ sub[n] = (IF n \in SnapshotSubs THEN "snapshotted" ELSE "subscribed") /\ sub'[n] = "live"
      /\ UNCHANGED <<rx, wire, st, outbox, desired, now>>
      /\ missed' = [missed EXCEPT ![n] = @ /\ (n \in SnapshotSubs \/ desired[n] # {})]
  BY StreamType DEF TailFrom, StartTail, ReadyToTail, TypeOK, enforcerVars
<1>2. missed[n] \in BOOLEAN /\ missed'[n] = (missed[n] /\ (n \in SnapshotSubs \/ desired[n] # {}))
  BY <1>1 DEF SystemTypeOK
<1>5. IF n \in SnapshotSubs THEN missed'[n] = missed[n] ELSE missed'[n] = (missed[n] /\ desired[n] # {})
  BY <1>2
<1>3. CASE n \in SnapshotSubs /\ missed'[n] = missed[n]
  BY <1>1, <1>3, StillFollows DEF StreamOf
<1>4. CASE n \notin SnapshotSubs /\ missed'[n] = (missed[n] /\ desired[n] # {})
  <2>1. missed[n] /\ wire[n] = <<>> /\ rx[n] = <<>>
    BY <1>1, <1>4 DEF StreamOf
  <2>2. ASSUME desired[n] = {}, NEW id \in BanIds
        PROVE  LastSays(n, wire[n] \o rx[n], id, EntryOf(desired[n], id), EntryOf(st.bans, id))'
    <3> DEFINE sent == wire[n] \o rx[n]
               v == EntryOf(desired[n], id)
               w == EntryOf(st.bans, id)
    <3>1. v = {} /\ v' = v /\ w' = w /\ w \subseteq Ban
      BY <1>1, <2>2, EntriesType DEF EntryOf
    <3>2. sent' = <<>>
      BY <1>1, <2>1
    <3> HIDE DEF sent, v, w
    <3>3. LastSays(n, <<>>, id, v, w)
      BY <1>4, <3>1 DEF LastSays, Fits
    <3>4. LastSays(n, sent, id, v, w)'
      BY <1>1, <3>1, <3>2, <3>3, LastSaysLater
    <3> QED
      BY <3>4 DEF sent, v, w
  <2>3. ~missed'[n] => Follows(n)'
    BY <1>4, <2>1, <2>2 DEF Follows, About
  <2> QED
    BY <1>1, <2>3 DEF StreamOf
<1> QED
  BY <1>3, <1>4, <1>5

LEMMA ReadStream ==
    ASSUME TypeOK, NodesType, NEW n \in Nodes, ReadLine(n), StreamOf(n)
    PROVE  StreamOf(n)'
<1> DEFINE h == Head(wire[n])
<1>1. /\ UNCHANGED <<sub, rx, st, outbox, missed>> /\ now' = now
      /\ wire[n] # <<>> /\ wire'[n] = Tail(wire[n])
  BY StreamType DEF ReadLine, Deliver, TypeOK, ghosts
<1>2. \A id \in BanIds :
        /\ About(h, id) => /\ EntryOf(desired'[n], id) \subseteq Effect(h, id)
                           /\ \A b \in Effect(h, id) \ EntryOf(desired'[n], id) : IsExpired(b)
        /\ ~About(h, id) => EntryOf(desired'[n], id) = EntryOf(desired[n], id)
  BY ReadEffect
<1>3. /\ wire[n] \o rx[n] \in Seq(Line) /\ wire[n] \o rx[n] # <<>>
      /\ Head(wire[n] \o rx[n]) = h
      /\ wire'[n] \o rx'[n] = Tail(wire[n] \o rx[n])
  <2> DEFINE a == wire[n]
             b == rx[n]
  <2>1. a \in Seq(Line) /\ b \in Seq(Line)
    BY StreamType
  <2>2. wire'[n] = Tail(a) /\ rx'[n] = b /\ a # <<>> /\ h = Head(a)
    BY <1>1
  <2> HIDE DEF a, b, h
  <2>3. /\ a \o b \in Seq(Line) /\ a \o b # <<>> /\ Head(a \o b) = h
        /\ wire'[n] \o rx'[n] = Tail(a \o b)
    BY <2>1, <2>2, LinesMove
  <2> QED
    BY <2>3 DEF a, b
<1> HIDE DEF h
<1>4. ASSUME Follows(n) PROVE Follows(n)'
  <2> SUFFICES ASSUME NEW id \in BanIds, \A e \in Unsent' : ~About(e, id)
               PROVE  LastSays(n, wire[n] \o rx[n], id, EntryOf(desired[n], id), EntryOf(st.bans, id))'
    BY DEF Follows, About
  <2> DEFINE lines == wire[n] \o rx[n]
             v == EntryOf(desired[n], id)
             w == EntryOf(st.bans, id)
             x == EntryOf(desired'[n], id)
  <2>1. LastSays(n, lines, id, v, w)
    BY <1>1, <1>4 DEF Follows, Unsent
  <2>2. v' = x /\ w' = w /\ w \subseteq Ban /\ lines' = Tail(lines)
    BY <1>1, <1>3, EntriesType DEF EntryOf
  <2>3. lines \in Seq(Line) /\ lines # <<>> /\ Head(lines) = h
    BY <1>3
  <2>4. /\ About(h, id) => x \subseteq Effect(h, id) /\ \A b \in Effect(h, id) \ x : IsExpired(b)
        /\ ~About(h, id) => x = v
    BY <1>2
  <2> HIDE DEF lines, v, w, x
  <2>5. About(h, id) /\ Fits(n, Effect(h, id), w) => Fits(n, x, w)
    BY <2>4 DEF Fits
  <2>6. LastSays(n, Tail(lines), id, x, w)
    BY <2>1, <2>3, <2>4, <2>5, LineRead
  <2>7. LastSays(n, lines, id, v, w)'
    BY <1>1, <2>2, <2>6, LastSaysLater
  <2> QED
    BY <2>7 DEF lines, v, w
<1> QED
  BY <1>1, <1>4 DEF StreamOf

\* One node's stream and bans, as the step of another leaves them.
LEMMA StreamStep == SystemTypeOK /\ UnsentInv /\ NodesType /\ StreamInv /\ [SystemNext]_systemVars => StreamInv'
<1> SUFFICES ASSUME SystemTypeOK, UnsentInv, NodesType, StreamInv, [SystemNext]_systemVars,
                    NEW n \in Nodes
             PROVE  StreamOf(n)'
  BY DEF StreamInv
<1> StreamOf(n) /\ TypeOK
  BY DEF StreamInv, SystemTypeOK
<1>1. CASE RaftdSection
  BY <1>1, SectionStream DEF RaftdSection
<1>2. ASSUME NEW t \in Tasks, SendEvent(t) PROVE StreamOf(n)'
  BY <1>2, SendStream
<1>3. ASSUME NEW m \in Subscribers, Forward(m), UNCHANGED <<enforcerVars, ghosts>> PROVE StreamOf(n)'
  BY <1>3, ForwardStream
<1>4. CASE StreamStill /\ UNCHANGED enforcerVars /\ (now' = now \/ Tick)
  BY <1>4, OtherStream DEF StreamStill, enforcerVars, ghosts
<1>5. ASSUME NEW m \in Nodes, TakeSnapshotOf(m) \/ TailFrom(m) \/ Connect(m) \/ ReadLine(m)
      PROVE  StreamOf(n)'
  <2>1. /\ sub \in [Subscribers -> {"closed", "subscribed", "snapshotted", "live"}]
        /\ wire \in [Subscribers -> Seq(Line)] /\ m \in Subscribers
        /\ missed \in [Nodes -> BOOLEAN]
    BY StreamType DEF TypeOK, SystemTypeOK
  <2>2. CASE m # n
    <3>1. /\ sub'[n] = sub[n] /\ wire'[n] = wire[n] /\ missed'[n] = missed[n] /\ UNCHANGED <<st, outbox, rx, now>>
      BY <1>5, <2>1, <2>2, StreamType DEF TakeSnapshotOf, TailFrom, Connect, ReadLine, SendSnapshot, StartTail,
         Subscribe, Deliver, ghosts
    <3>2. desired'[n] = desired[n]
      BY <1>5, <2>2, ReadEffect DEF TakeSnapshotOf, TailFrom, Connect, enforcerVars, E!EventsConnected,
         E!sharedVars
    <3> QED
      BY <3>1, <3>2, OtherStream
  <2>3. CASE Connect(n)
    <3>1. sub[n] = "closed" /\ sub'[n] = "subscribed" /\ wire[n] = <<>> /\ missed'[n] /\ UNCHANGED <<rx, wire>>
      BY <2>1, <2>3, StreamType DEF Connect, Subscribe
    <3> QED
      BY <3>1 DEF StreamOf
  <2> QED
    BY <1>5, <2>2, <2>3, SnapshotStream, TailStream, ReadStream
<1>6. CASE StreamStill /\ UNCHANGED now /\ \E m \in Nodes :
              \/ \E task \in {"dns", "events"} : Returned(task, m)
              \/ E!EventsEof(m)
              \/ \E enabled \in BOOLEAN : E!CheckDns(m, enabled)
  <2>1. desired' = desired
    BY <1>6 DEF Returned, E!SyncReportSent, E!ApplyReportSent, E!EventsEof, E!CheckDns, E!sharedVars
  <2> QED
    BY <1>6, <2>1, OtherStream DEF StreamStill, ghosts
<1>7. CASE RaftdCrash
  <2>1. sub'[n] = "closed" /\ rx'[n] = <<>>
    BY <1>7, StreamType DEF RaftdCrash, CrashRestart
  <2> QED
    BY <2>1 DEF StreamOf
<1>8. ASSUME NEW m \in Nodes, EnforcerCrash(m) PROVE StreamOf(n)'
  <2>1. /\ sub' = [sub EXCEPT ![m] = "closed"]
        /\ rx' = [rx EXCEPT ![m] = <<>>]
        /\ wire' = [wire EXCEPT ![m] = <<>>]
        /\ desired' = [desired EXCEPT ![m] = {}]
        /\ UNCHANGED <<st, outbox, missed>> /\ now' = now
    BY <1>8 DEF EnforcerCrash, E!Restart
  <2>2. /\ sub \in [Subscribers -> {"closed", "subscribed", "snapshotted", "live"}]
        /\ wire \in [Subscribers -> Seq(Line)] /\ rx \in [Subscribers -> Seq(Envelope)]
        /\ n \in Subscribers /\ m \in Subscribers /\ desired \in [Nodes -> SUBSET Ban]
    BY StreamType DEF TypeOK, NodesType
  <2>3. CASE m = n
    <3>1. sub'[n] = "closed" /\ rx'[n] = <<>>
      BY <2>1, <2>2, <2>3
    <3> QED
      BY <3>1 DEF StreamOf
  <2>4. CASE m # n
    <3>1. sub'[n] = sub[n] /\ wire'[n] = wire[n] /\ rx'[n] = rx[n] /\ desired'[n] = desired[n]
      BY <2>1, <2>2, <2>4
    <3> QED
      BY <2>1, <3>1, OtherStream
  <2> QED
    BY <2>3, <2>4
<1> QED
  BY <1>1, <1>2, <1>3, <1>4, <1>5, <1>6, <1>7, <1>8, SystemKinds

-----------------------------------------------------------------------------
(* The bans in memory, under way and at the nodes: one prefix for each id.  *)

\* The bans a line carries.
BansIn(l) ==
    CASE l.event.type = "snapshot"     -> l.event.bans
      [] l.event.type = "ban_upserted" -> {l.event.entry}
      [] OTHER -> {}

\* The bans sbc_raftd holds, keeps on disk or has under way to subscribers.
LinesUnderWay ==
    (UNION {Range(outbox[t]) : t \in Tasks})
      \cup (UNION {Range(rx[n]) \cup Range(wire[n]) : n \in Subscribers})
RaftdBans == (UNION {s.bans : s \in Copies}) \cup (UNION {BansIn(l) : l \in LinesUnderWay})
AllBans   == RaftdBans \cup UNION {desired[n] \cup applied[n] : n \in Nodes}

\* An id, once generated, names one prefix for good.
OneKeyPerId ==
    /\ \A b \in AllBans : b.ban_id \in usedIds
    /\ \A b, c \in AllBans : b.ban_id = c.ban_id => b.key = c.key

\* The bans of the daemon after a step: those it had, and what was upserted.
LEMMA RequestLines ==
    ASSUME TypeOK, NEW c \in Clients, NEW s, NEW event, Commit(c, s, event)
    PROVE  LinesUnderWay' \subseteq LinesUnderWay \cup {[index |-> s.next_index, event |-> event]}
<1>1. \A t \in Tasks : outbox'[t] = IF t = c THEN <<[index |-> s.next_index, event |-> event]>> ELSE outbox[t]
  BY DEF Commit, TypeOK
<1>2. UNCHANGED <<rx, wire>>
  BY DEF Commit
<1> QED
  BY <1>1, <1>2 DEF LinesUnderWay, Range

LEMMA RangeOfQueue ==
    ASSUME NEW S, NEW q \in Seq(S)
    PROVE  /\ q # <<>> => Range(Tail(q)) \subseteq Range(q) /\ Head(q) \in Range(q)
           /\ \A e \in S : Range(Append(q, e)) \subseteq Range(q) \cup {e}
           /\ \A e \in S : Range(Push(q, e)) \subseteq Range(q) \cup {e}
<1>1. \A r \in Seq(S) : DOMAIN r = 1..Len(r) /\ Len(r) \in Nat
  OBVIOUS
<1>2. ASSUME NEW r \in Seq(S), r # <<>>
      PROVE  /\ Range(Tail(r)) \subseteq Range(r) /\ Head(r) \in Range(r) /\ Tail(r) \in Seq(S)
  <2>1. /\ Tail(r) \in Seq(S) /\ Len(Tail(r)) = Len(r) - 1 /\ Len(r) >= 1
        /\ \A i \in 1..Len(Tail(r)) : Tail(r)[i] = r[i + 1]
    BY <1>2, HeadTailProperties
  <2>2. \A i \in 1..Len(Tail(r)) : i + 1 \in 1..Len(r)
    BY <1>1, <2>1
  <2>3. Range(Tail(r)) \subseteq Range(r)
    BY <1>1, <2>1, <2>2 DEF Range
  <2>4. 1 \in 1..Len(r) /\ Head(r) = r[1]
    BY <1>1, <1>2, <2>1
  <2> QED
    BY <1>1, <2>1, <2>3, <2>4 DEF Range
<1>3. ASSUME NEW r \in Seq(S), NEW e \in S PROVE Range(Append(r, e)) \subseteq Range(r) \cup {e}
  <2> DEFINE a == Append(r, e)
  <2>1. /\ a \in Seq(S) /\ Len(a) = Len(r) + 1 /\ a[Len(r) + 1] = e
        /\ \A i \in 1..Len(r) : a[i] = r[i]
    BY AppendProperties
  <2> HIDE DEF a
  <2>2. \A i \in 1..Len(a) : i \in 1..Len(r) \/ i = Len(r) + 1
    BY <1>1, <2>1
  <2> QED
    BY <1>1, <2>1, <2>2 DEF Range, a
<1>4. ASSUME NEW e \in S PROVE Range(Push(q, e)) \subseteq Range(q) \cup {e}
  <2>1. Len(q) = ChannelCap => q # <<>>
    BY RaftdAssumption
  <2> QED
    BY <1>2, <1>3, <2>1 DEF Push
<1> QED
  BY <1>2, <1>3, <1>4

\* What is new under way after a step of the daemon that is no admin request.
LEMMA OtherLines ==
    ASSUME TypeOK, [Next]_raftdVars, ~\E c \in Clients : AdminRequest(c), NEW l \in LinesUnderWay'
    PROVE  \/ l \in LinesUnderWay
           \/ BansIn(l) = {}
           \/ BansIn(l) = st.bans
<1> DEFINE Kept == LinesUnderWay' \subseteq LinesUnderWay
<1>0. /\ outbox \in [Tasks -> Seq(Envelope)]
      /\ rx \in [Subscribers -> Seq(Envelope)] /\ wire \in [Subscribers -> Seq(Line)]
      /\ Envelope \subseteq Line
  BY DEF TypeOK, Line
<1>1. CASE Reap
  <2>1. PICK order \in Orders(Expired) :
        outbox' = [outbox EXCEPT ![Reaper] =
              [i \in 1..Len(order) |->
                  [index |-> st.next_index + i - 1,
                   event |-> [type |-> "ban_deleted", ban_id |-> order[i].ban_id]]]]
    BY <1>1 DEF Reap
  <2>2. UNCHANGED <<rx, wire>>
    BY <1>1 DEF Reap
  <2>3. \A t \in Tasks : outbox'[t] = IF t = Reaper
            THEN [i \in 1..Len(order) |->
                  [index |-> st.next_index + i - 1,
                   event |-> [type |-> "ban_deleted", ban_id |-> order[i].ban_id]]]
            ELSE outbox[t]
    BY <1>0, <2>1
  <2>4. \A x \in Range([i \in 1..Len(order) |->
                  [index |-> st.next_index + i - 1,
                   event |-> [type |-> "ban_deleted", ban_id |-> order[i].ban_id]]]) : BansIn(x) = {}
    BY DEF Range, BansIn
  <2> QED
    BY <2>2, <2>3, <2>4 DEF LinesUnderWay
<1>2. ASSUME NEW t \in Tasks, Broadcast(t) PROVE Kept
  <2>1. outbox[t] # <<>> /\ UNCHANGED wire
    BY <1>2 DEF Broadcast
  <2>2. Head(outbox[t]) \in Envelope /\ Head(outbox[t]) \in Range(outbox[t])
        /\ Range(Tail(outbox[t])) \subseteq Range(outbox[t])
    BY <1>0, <2>1, RangeOfQueue, HeadTailProperties
  <2>3. \A u \in Tasks : Range(outbox'[u]) \subseteq Range(outbox[u])
    BY <1>0, <1>2, <2>2 DEF Broadcast
  <2>4. \A n \in Subscribers : Range(rx'[n]) \subseteq Range(rx[n]) \cup {Head(outbox[t])}
    <3> TAKE n \in Subscribers
    <3>1. rx'[n] = rx[n] \/ rx'[n] = Push(rx[n], Head(outbox[t]))
      BY <1>2 DEF Broadcast
    <3> QED
      BY <1>0, <2>2, <3>1, RangeOfQueue
  <2>5. Head(outbox[t]) \in UNION {Range(outbox[u]) : u \in Tasks}
    BY <2>2
  <2>6. \A u \in Tasks : Range(outbox'[u]) \subseteq LinesUnderWay
    BY <2>3 DEF LinesUnderWay
  <2>7. \A n \in Subscribers : Range(rx'[n]) \cup Range(wire'[n]) \subseteq LinesUnderWay
    BY <2>1, <2>4, <2>5 DEF LinesUnderWay
  <2> HIDE DEF Kept
  <2>8. LinesUnderWay' \subseteq LinesUnderWay
    BY <2>6, <2>7 DEF LinesUnderWay
  <2> QED
    BY <2>8 DEF Kept
<1>3. ASSUME NEW n \in Subscribers, Forward(n) PROVE Kept
  <2>1. /\ rx[n] # <<>> /\ UNCHANGED outbox
        /\ \A m \in Subscribers : rx'[m] = IF m = n THEN Tail(rx[n]) ELSE rx[m]
        /\ \A m \in Subscribers : wire'[m] = IF m = n THEN Append(wire[n], Head(rx[n])) ELSE wire[m]
    BY <1>0, <1>3 DEF Forward
  <2>2. Head(rx[n]) \in Line /\ Head(rx[n]) \in Range(rx[n]) /\ Range(Tail(rx[n])) \subseteq Range(rx[n])
    BY <1>0, <2>1, RangeOfQueue, HeadTailProperties
  <2>3. Range(Append(wire[n], Head(rx[n]))) \subseteq Range(wire[n]) \cup {Head(rx[n])}
    BY <1>0, <2>2, RangeOfQueue
  <2> QED
    BY <2>1, <2>2, <2>3 DEF LinesUnderWay
<1>4. ASSUME NEW n \in Subscribers, Deliver(n) PROVE Kept
  <2>1. /\ wire[n] # <<>> /\ UNCHANGED <<outbox, rx>>
        /\ \A m \in Subscribers : wire'[m] = IF m = n THEN Tail(wire[n]) ELSE wire[m]
    BY <1>0, <1>4 DEF Deliver
  <2>2. Range(Tail(wire[n])) \subseteq Range(wire[n])
    BY <1>0, <2>1, RangeOfQueue
  <2> QED
    BY <2>1, <2>2 DEF LinesUnderWay
<1>5. ASSUME NEW n \in Subscribers, SendSnapshot(n)
      PROVE  l \in LinesUnderWay \/ BansIn(l) = st.bans
  <2> DEFINE snap == [index |-> st.next_index - 1,
                      event |-> [type |-> "snapshot", bans |-> st.bans, holds |-> st.holds]]
  <2>1. /\ UNCHANGED <<outbox, rx>>
        /\ \A m \in Subscribers : wire'[m] = IF m = n THEN Append(wire[n], snap) ELSE wire[m]
    BY <1>0, <1>5 DEF SendSnapshot
  <2>2. snap \in Line
    <3>1. st.next_index - 1 \in Nat
      BY DEF TypeOK, PersistedState
    <3>2. [type |-> "snapshot", bans |-> st.bans, holds |-> st.holds] \in Snapshot
      BY DEF TypeOK, PersistedState, Snapshot
    <3> QED
      BY <3>1, <3>2 DEF Line
  <2>3. BansIn(snap) = st.bans
    BY DEF BansIn
  <2> HIDE DEF snap
  <2>4. Range(Append(wire[n], snap)) \subseteq Range(wire[n]) \cup {snap}
    BY <1>0, <2>2, RangeOfQueue
  <2> QED
    BY <2>1, <2>3, <2>4 DEF LinesUnderWay
<1>6. CASE CrashRestart
  <2>1. /\ \A t \in Tasks : outbox'[t] = <<>>
        /\ \A n \in Subscribers : rx'[n] = <<>>
        /\ UNCHANGED wire
    BY <1>6 DEF CrashRestart
  <2>2. Range(<<>>) = {}
    BY DEF Range
  <2> QED
    BY <2>1, <2>2 DEF LinesUnderWay
<1>7. CASE UNCHANGED <<outbox, rx, wire>>
  BY <1>7 DEF LinesUnderWay
<1>8. CASE \/ \E n \in Subscribers : Subscribe(n) \/ StartTail(n)
           \/ StartPersist \/ FinishPersist \/ PersistFails \/ Tick \/ UNCHANGED raftdVars
  BY <1>7, <1>8 DEF Subscribe, StartTail, StartPersist, FinishPersist, PersistFails, Tick, raftdVars
<1> QED
  BY <1>1, <1>2, <1>3, <1>4, <1>5, <1>6, <1>8 DEF Next, Internal, Environment

LEMMA BansGrow ==
    ASSUME TypeOK, [Next]_raftdVars, NEW X, st'.bans \subseteq RaftdBans \cup X,
           \A l \in LinesUnderWay' : l \in LinesUnderWay \/ BansIn(l) \subseteq RaftdBans \cup X
    PROVE  RaftdBans' \subseteq RaftdBans \cup X
<1>1. \A s \in Copies' : s.bans \subseteq RaftdBans \cup X
  BY CopiesStep DEF RaftdBans
<1>2. \A l \in LinesUnderWay' : BansIn(l) \subseteq RaftdBans \cup X
  BY DEF RaftdBans
<1> QED
  BY <1>1, <1>2 DEF RaftdBans, BansIn

\* What a step of the daemon adds to its bans is an entry with the id its
\* prefix has in the table, or with an id never used.
LEMMA RaftdBansStep ==
    ASSUME KeyInv, [Next]_raftdVars
    PROVE  \/ RaftdBans' \subseteq RaftdBans /\ UNCHANGED usedIds
           \/ \E entry :
                 /\ RaftdBans' \subseteq RaftdBans \cup {entry}
                 /\ usedIds' = usedIds \cup {entry.ban_id}
                 /\ \/ entry.ban_id \notin usedIds
                    \/ \E b \in st.bans : b.ban_id = entry.ban_id /\ b.key = entry.key
<1>0. TypeOK /\ st \in PersistedState /\ Indexed(st) /\ st.bans \subseteq RaftdBans
  BY DEF KeyInv, KeyIndexed, Copies, TypeOK, RaftdBans
<1>1. ASSUME NEW c \in Clients, NEW k \in Keys, NEW ttl \in Ttls, UpsertBan(c, k, ttl)
      PROVE  \E entry :
                 /\ RaftdBans' \subseteq RaftdBans \cup {entry}
                 /\ usedIds' = usedIds \cup {entry.ban_id}
                 /\ \/ entry.ban_id \notin usedIds
                    \/ \E b \in st.bans : b.ban_id = entry.ban_id /\ b.key = entry.key
  <2>1. PICK id \in (IF st.ban_by_key[k] # None THEN {st.ban_by_key[k]} ELSE BanIds \ usedIds) :
          LET entry == [ban_id |-> id, key |-> k, expires |-> ExpiryOf(ttl)] IN
          /\ usedIds' = usedIds \cup {id}
          /\ Commit(c, [st EXCEPT !.bans = WithBan(@, entry), !.ban_by_key[k] = id],
                    [type |-> "ban_upserted", entry |-> entry])
    BY <1>1 DEF UpsertBan
  <2> DEFINE entry == [ban_id |-> id, key |-> k, expires |-> ExpiryOf(ttl)]
             s == [st EXCEPT !.bans = WithBan(@, entry), !.ban_by_key[k] = id]
             event == [type |-> "ban_upserted", entry |-> entry]
  <2>2. entry.ban_id = id /\ entry.key = k
    OBVIOUS
  <2> HIDE DEF entry
  <2>3. s.bans = WithBan(st.bans, entry)
    BY <1>0 DEF PersistedState
  <2>4. Commit(c, s, event) /\ usedIds' = usedIds \cup {id}
    BY <2>1 DEF entry
  <2>5. st'.bans = WithBan(st.bans, entry)
    <3>1. st' = [s EXCEPT !.next_index = @ + 1]
      BY <2>4 DEF Commit
    <3> QED
      BY <1>0, <3>1 DEF PersistedState
  <2>6. st'.bans \subseteq RaftdBans \cup {entry}
    BY <1>0, <2>5 DEF WithBan, WithoutIds
  <2> HIDE DEF s, event
  <2>7. ASSUME NEW l \in LinesUnderWay' PROVE l \in LinesUnderWay \/ BansIn(l) \subseteq RaftdBans \cup {entry}
    <3>1. l \in LinesUnderWay \/ l = [index |-> s.next_index, event |-> event]
      BY <1>0, <2>4, RequestLines
    <3>2. BansIn([index |-> s.next_index, event |-> event]) = {entry}
      BY DEF BansIn, event
    <3> QED
      BY <3>1, <3>2
  <2>8. RaftdBans' \subseteq RaftdBans \cup {entry}
    BY <1>0, <2>6, <2>7, BansGrow
  <2>9. \/ id \notin usedIds
        \/ \E b \in st.bans : b.ban_id = id /\ b.key = k
    BY <1>0, <2>1 DEF Indexed
  <2> QED
    BY <2>2, <2>4, <2>8, <2>9
<1>2. ASSUME NEW c \in Clients, NEW s \in PersistedState, NEW event \in Event,
             Commit(c, s, event), s.bans \subseteq st.bans, event.type # "ban_upserted", UNCHANGED usedIds
      PROVE  RaftdBans' \subseteq RaftdBans /\ UNCHANGED usedIds
  <2>1. st'.bans = s.bans
    BY <1>2 DEF Commit, PersistedState
  <2>2. event.type # "snapshot"
    BY <1>2 DEF Event
  <2>3. BansIn([index |-> s.next_index, event |-> event]) = {}
    BY <1>2, <2>2 DEF BansIn
  <2>4. RaftdBans' \subseteq RaftdBans \cup {}
    BY <1>0, <1>2, <2>1, <2>3, RequestLines, BansGrow
  <2> QED
    BY <1>2, <2>4
<1>3. ASSUME NEW c \in Clients, NEW id \in usedIds, DeleteBan(c, id)
      PROVE  RaftdBans' \subseteq RaftdBans /\ UNCHANGED usedIds
  <2>1. /\ DropBans(st, {id}) \in PersistedState
        /\ DropBans(st, {id}).bans \subseteq st.bans
    BY <1>0, DropBansType DEF DropBans, WithoutIds, PersistedState
  <2>2. [type |-> "ban_deleted", ban_id |-> id] \in Event
    BY <1>0 DEF Event, TypeOK
  <2> QED
    BY <1>2, <1>3, <2>1, <2>2 DEF DeleteBan
<1>4. ASSUME NEW c \in Clients, NEW name \in HoldNames, UpsertLegalHold(c, name) \/ DeleteLegalHold(c, name)
      PROVE  RaftdBans' \subseteq RaftdBans /\ UNCHANGED usedIds
  <2>1. /\ [st EXCEPT !.holds = @ \cup {name}] \in PersistedState
        /\ [st EXCEPT !.holds = @ \cup {name}].bans \subseteq st.bans
        /\ [st EXCEPT !.holds = @ \ {name}] \in PersistedState
        /\ [st EXCEPT !.holds = @ \ {name}].bans \subseteq st.bans
    BY <1>0 DEF PersistedState
  <2>2. /\ [type |-> "hold_upserted", name |-> name] \in Event
        /\ [type |-> "hold_deleted", name |-> name] \in Event
    BY DEF Event
  <2> QED
    BY <1>2, <1>4, <2>1, <2>2 DEF UpsertLegalHold, DeleteLegalHold
<1>5. ASSUME NEW c \in Clients, NEW s \in Statuses, ReportEnforcementStatus(c, s)
      PROVE  RaftdBans' \subseteq RaftdBans /\ UNCHANGED usedIds
  <2> DEFINE new == [st EXCEPT !.last_status = {x \in @ : NodeOf(x) # NodeOf(s)} \cup {s}]
  <2>1. new \in PersistedState /\ new.bans \subseteq st.bans /\ [type |-> "status", status |-> s] \in Event
    BY <1>0 DEF PersistedState, Event
  <2> QED
    BY <1>2, <1>5, <2>1 DEF ReportEnforcementStatus
<1>6. ASSUME NEW c \in Clients, NEW r \in Reports, ReportBanApplyResult(c, r)
      PROVE  RaftdBans' \subseteq RaftdBans /\ UNCHANGED usedIds
  <2> DEFINE new == [st EXCEPT !.last_apply = {x \in @ : x.at # r.at} \cup {r}]
  <2>1. new \in PersistedState /\ new.bans \subseteq st.bans /\ [type |-> "apply_result", report |-> r] \in Event
    BY <1>0 DEF PersistedState, Event
  <2> QED
    BY <1>2, <1>6, <2>1 DEF ReportBanApplyResult
<1>7. CASE ~\E c \in Clients : AdminRequest(c)
  <2>1. st'.bans \subseteq RaftdBans /\ UNCHANGED usedIds
    <3>1. CASE Reap
      <4>1. st'.bans = WithoutIds(st.bans, {b.ban_id : b \in Expired})
        BY <1>0, <3>1 DEF Reap, DropBans, PersistedState
      <4> QED
        BY <1>0, <3>1, <4>1 DEF Reap, WithoutIds
    <3>2. CASE st' \in {st, disk} /\ UNCHANGED usedIds
      BY <3>2 DEF RaftdBans, Copies
    <3> QED
      BY <1>7, <3>1, <3>2 DEF Next, Internal, Environment, Broadcast, Subscribe, SendSnapshot, StartTail, Forward,
         Deliver, StartPersist, FinishPersist, PersistFails, Tick, CrashRestart, raftdVars
  <2>2. \A l \in LinesUnderWay' : l \in LinesUnderWay \/ BansIn(l) \subseteq RaftdBans
    BY <1>0, <1>7, OtherLines
  <2>3. RaftdBans' \subseteq RaftdBans \cup {}
    BY <1>0, <2>1, <2>2, BansGrow
  <2> QED
    BY <2>1, <2>3
<1> QED
  BY <1>1, <1>3, <1>4, <1>5, <1>6, <1>7 DEF AdminRequest

-----------------------------------------------------------------------------
(* What a node holds and applies.                                           *)

\* One node's part of a step.
NodeStill(n) == desired'[n] = desired[n] /\ applied'[n] = applied[n] /\ attached'[n] = attached[n]

LEMMA NodeKinds ==
    ASSUME TypeOK, NodesType, [SystemNext]_systemVars, NEW n \in Nodes
    PROVE  \/ NodeStill(n) /\ (now' = now \/ Tick)
           \/ now' = now /\ \E enabled \in BOOLEAN : E!CheckDns(n, enabled)
           \/ now' = now /\ ReadLine(n)
           \/ now' = now /\ desired'[n] = {} /\ applied'[n] = {} /\ ~attached'[n]
<1> /\ desired \in [Nodes -> SUBSET Ban] /\ applied \in [Nodes -> SUBSET Ban]
    /\ attached \in [Nodes -> BOOLEAN]
  BY DEF NodesType
<1>1. CASE RaftdSection
  BY <1>1 DEF RaftdSection, Section, enforcerVars, NodeStill
<1>2. CASE \/ \E t \in Tasks : SendEvent(t)
           \/ \E m \in Subscribers : Forward(m) /\ UNCHANGED <<enforcerVars, ghosts>>
           \/ RaftdCrash
           \/ \E m \in Nodes : TakeSnapshotOf(m) \/ TailFrom(m)
  BY <1>2 DEF SendEvent, Broadcast, Forward, RaftdCrash, CrashRestart, TakeSnapshotOf, SendSnapshot, TailFrom,
     StartTail, enforcerVars, NodeStill
<1>3. CASE StreamStill /\ UNCHANGED enforcerVars /\ (now' = now \/ Tick)
  BY <1>3 DEF enforcerVars, NodeStill
<1>4. ASSUME NEW m \in Nodes, Connect(m) PROVE NodeStill(n) /\ now' = now
  BY <1>4 DEF Connect, Subscribe, E!EventsConnected, E!sharedVars, NodeStill
<1>5. ASSUME NEW m \in Nodes, ReadLine(m), m # n PROVE NodeStill(n) /\ now' = now
  BY <1>5 DEF ReadLine, Deliver, NodeStill, E!Receive, E!OnSnapshot, E!OnBanUpserted, E!OnBanDeleted
<1>6. ASSUME NEW m \in Nodes, ReadLine(m) PROVE now' = now
  BY <1>6 DEF ReadLine, Deliver
<1>7. ASSUME NEW m \in Nodes, NEW enabled \in BOOLEAN, E!CheckDns(m, enabled), m # n
      PROVE  NodeStill(n)
  BY <1>7 DEF E!CheckDns, NodeStill
<1>8. ASSUME NEW m \in Nodes, NEW task \in {"dns", "events"}, Returned(task, m) \/ E!EventsEof(m)
      PROVE  NodeStill(n)
  BY <1>8 DEF Returned, E!SyncReportSent, E!ApplyReportSent, E!EventsEof, E!sharedVars, NodeStill
<1>9. ASSUME NEW m \in Nodes, EnforcerCrash(m)
      PROVE  \/ NodeStill(n) /\ now' = now
             \/ now' = now /\ desired'[n] = {} /\ applied'[n] = {} /\ ~attached'[n]
  BY <1>9 DEF EnforcerCrash, E!Restart, NodeStill
<1> QED
  BY <1>1, <1>2, <1>3, <1>4, <1>5, <1>6, <1>7, <1>8, <1>9, SystemKinds

\* The bans a node holds or applies after a step were there before.
LEMMA ReadBans ==
    ASSUME TypeOK, NodesType, NEW n \in Nodes, ReadLine(n), NEW h, h = Head(wire[n])
    PROVE  /\ h \in LinesUnderWay
           /\ desired'[n] \subseteq desired[n] \cup BansIn(h)
           /\ applied'[n] \subseteq applied[n] \cup BansIn(h)
<1>1. wire[n] # <<>> /\ E!Receive(n, h.event)
  BY DEF ReadLine, Deliver
<1>2. h \in LinesUnderWay
  BY <1>1, StreamType, RangeOfQueue DEF LinesUnderWay
<1>3. desired \in [Nodes -> SUBSET Ban] /\ applied \in [Nodes -> SUBSET Ban]
  BY DEF NodesType
<1>4. CASE h.event.type = "snapshot" /\ E!OnSnapshot(n, h.event.bans)
  BY <1>2, <1>3, <1>4 DEF E!OnSnapshot, E!Unexpired, E!NotExempt, BansIn
<1>5. CASE h.event.type = "ban_upserted" /\ E!OnBanUpserted(n, h.event.entry)
  BY <1>2, <1>3, <1>5 DEF E!OnBanUpserted, E!WithBan, E!WithoutIds, BansIn
<1>6. CASE h.event.type = "ban_deleted" /\ E!OnBanDeleted(n, h.event.ban_id)
  BY <1>2, <1>3, <1>6 DEF E!OnBanDeleted, E!WithoutIds
<1>7. CASE UNCHANGED <<desired, applied>>
  BY <1>2, <1>7
<1> QED
  BY <1>1, <1>4, <1>5, <1>6, <1>7 DEF E!Receive

LEMMA NodeBansStep ==
    ASSUME TypeOK, NodesType, [SystemNext]_systemVars, NEW n \in Nodes
    PROVE  desired'[n] \cup applied'[n] \subseteq AllBans
<1>1. desired[n] \cup applied[n] \subseteq AllBans
  BY DEF AllBans
<1>2. CASE NodeStill(n) \/ (desired'[n] = {} /\ applied'[n] = {})
  BY <1>1, <1>2 DEF NodeStill
<1>3. ASSUME NEW enabled \in BOOLEAN, E!CheckDns(n, enabled) PROVE desired'[n] \cup applied'[n] \subseteq AllBans
  <2>1. desired' = desired
    BY <1>3 DEF E!CheckDns
  <2>2. applied'[n] \subseteq applied[n] \cup desired[n]
    BY <1>3 DEF NodesType, E!CheckDns, E!NotExempt, E!Unexpired
  <2> QED
    BY <1>1, <2>1, <2>2
<1>4. CASE ReadLine(n)
  <2> DEFINE h == Head(wire[n])
  <2>1. /\ h \in LinesUnderWay
        /\ desired'[n] \subseteq desired[n] \cup BansIn(h)
        /\ applied'[n] \subseteq applied[n] \cup BansIn(h)
    BY <1>4, ReadBans
  <2> HIDE DEF h
  <2>2. BansIn(h) \subseteq AllBans
    BY <2>1 DEF AllBans, RaftdBans
  <2> QED
    BY <1>1, <2>1, <2>2
<1> QED
  BY <1>2, <1>3, <1>4, NodeKinds

LEMMA KeyInvSystem == KeyInv /\ [SystemNext]_systemVars => KeyInv'
<1> SUFFICES ASSUME KeyInv, [SystemNext]_systemVars PROVE KeyInv'
  OBVIOUS
<1>1. CASE [Next]_raftdVars
  BY <1>1, KeyInvStep
<1>2. ASSUME NEW n \in Nodes, EnforcerCrash(n) PROVE KeyInv'
  <2>1. TypeOK'
    BY <1>2, EnforcerCrashType DEF KeyInv
  <2>2. UNCHANGED <<st, usedIds, disk, writing>>
    BY <1>2 DEF EnforcerCrash
  <2> QED
    BY <2>1, <2>2 DEF KeyInv, KeyIndexed, Indexed, Known, Copies
<1> QED
  BY <1>1, <1>2, RaftdPart

LEMMA OneKeyStep ==
    ASSUME KeyInv, NodesType, OneKeyPerId, [SystemNext]_systemVars
    PROVE  OneKeyPerId'
<1> TypeOK
  BY DEF KeyInv
<1>1. \A n \in Nodes : desired'[n] \cup applied'[n] \subseteq AllBans
  BY NodeBansStep
<1>2. RaftdBans \subseteq AllBans /\ AllBans' = RaftdBans' \cup UNION {desired'[n] \cup applied'[n] : n \in Nodes}
  BY DEF AllBans
<1>3. CASE RaftdBans' \subseteq RaftdBans /\ UNCHANGED usedIds
  <2>1. AllBans' \subseteq AllBans
    BY <1>1, <1>2, <1>3
  <2> QED
    BY <1>3, <2>1 DEF OneKeyPerId
<1>4. ASSUME NEW entry,
             RaftdBans' \subseteq RaftdBans \cup {entry},
             usedIds' = usedIds \cup {entry.ban_id},
             \/ entry.ban_id \notin usedIds
             \/ \E b \in st.bans : b.ban_id = entry.ban_id /\ b.key = entry.key
      PROVE  OneKeyPerId'
  <2>1. AllBans' \subseteq AllBans \cup {entry}
    BY <1>1, <1>2, <1>4
  <2>2. st.bans \subseteq AllBans
    BY DEF AllBans, RaftdBans, Copies
  <2>3. \A b \in AllBans : b.ban_id = entry.ban_id => b.key = entry.key
    BY <1>4, <2>2 DEF OneKeyPerId
  <2> QED
    BY <1>4, <2>1, <2>3 DEF OneKeyPerId
<1>5. ASSUME NEW n \in Nodes, EnforcerCrash(n)
      PROVE  RaftdBans' \subseteq RaftdBans /\ UNCHANGED usedIds
  <2>1. UNCHANGED <<st, usedIds, outbox, disk, writing>>
    BY <1>5 DEF EnforcerCrash
  <2>2. \A m \in Subscribers : rx'[m] \in {rx[m], <<>>} /\ wire'[m] \in {wire[m], <<>>}
    BY <1>5 DEF EnforcerCrash, TypeOK
  <2>3. Range(<<>>) = {}
    BY DEF Range
  <2>4. LinesUnderWay' \subseteq LinesUnderWay
    BY <2>1, <2>2, <2>3 DEF LinesUnderWay
  <2>5. UNION {s.bans : s \in Copies'} = UNION {s.bans : s \in Copies}
    BY <2>1 DEF Copies
  <2>6. UNION {BansIn(l) : l \in LinesUnderWay'} \subseteq UNION {BansIn(l) : l \in LinesUnderWay}
    BY <2>4
  <2> QED
    BY <2>1, <2>5, <2>6 DEF RaftdBans, BansIn
<1> QED
  BY <1>3, <1>4, <1>5, RaftdPart, RaftdBansStep

LEMMA NodesTypeStep ==
    ASSUME TypeOK, NodesType, [SystemNext]_systemVars
    PROVE  NodesType'
<1> /\ desired \in [Nodes -> SUBSET Ban] /\ applied \in [Nodes -> SUBSET Ban]
    /\ attached \in [Nodes -> BOOLEAN]
  BY DEF NodesType
<1>1. CASE UNCHANGED <<desired, applied, attached>>
  BY <1>1 DEF NodesType
<1>2. ASSUME NEW n \in Nodes, NEW enabled \in BOOLEAN, E!CheckDns(n, enabled) PROVE NodesType'
  BY <1>2 DEF E!CheckDns, E!NotExempt, E!Unexpired, NodesType
<1>3. ASSUME NEW n \in Nodes, ReadLine(n) PROVE NodesType'
  <2>1. E!Receive(n, Head(wire[n]).event) /\ Head(wire[n]) \in Line
    BY <1>3, ReadEffect DEF ReadLine
  <2> DEFINE h == Head(wire[n])
  <2>2. desired' \in [Nodes -> SUBSET Ban] /\ attached' = attached
    BY <1>3, <2>1, ReadEffect DEF E!Receive
  <2>3. applied' \in [Nodes -> SUBSET Ban]
    <3> HIDE DEF h
    <3>1. E!Receive(n, h.event) /\ h \in Line
      BY <2>1 DEF h
    <3> QED
      BY <3>1, LineKinds DEF E!Receive, E!OnSnapshot, E!OnBanUpserted, E!OnBanDeleted, E!NotExempt, E!Unexpired,
         E!WithBan, E!WithoutIds
  <2> QED
    BY <2>2, <2>3 DEF NodesType
<1>4. ASSUME NEW n \in Nodes, EnforcerCrash(n) PROVE NodesType'
  BY <1>4 DEF EnforcerCrash, E!Restart, NodesType
<1>5. ASSUME NEW n \in Nodes, Connect(n) PROVE NodesType'
  BY <1>1, <1>5 DEF Connect, E!EventsConnected, E!sharedVars
<1>6. ASSUME NEW n \in Nodes, NEW task \in {"dns", "events"}, Returned(task, n) \/ E!EventsEof(n)
      PROVE  NodesType'
  BY <1>1, <1>6 DEF Returned, E!SyncReportSent, E!ApplyReportSent, E!EventsEof, E!sharedVars
<1>7. CASE \/ RaftdSection \/ RaftdCrash
           \/ \E t \in Tasks : SendEvent(t)
           \/ \E n \in Subscribers : Forward(n) /\ UNCHANGED <<enforcerVars, ghosts>>
           \/ StreamStill /\ UNCHANGED enforcerVars /\ (now' = now \/ Tick)
           \/ \E n \in Nodes : TakeSnapshotOf(n) \/ TailFrom(n)
  BY <1>1, <1>7 DEF RaftdSection, RaftdCrash, SendEvent, TakeSnapshotOf, TailFrom, enforcerVars
<1> QED
  BY <1>2, <1>3, <1>4, <1>5, <1>6, <1>7, SystemKinds

\* While the backend is attached, what it applies is what the node holds, less
\* the exempt prefixes and some of what expired; detached, it applies nothing.
AppliedInv ==
    \A n \in Nodes :
        IF attached[n]
        THEN /\ applied[n] \subseteq {b \in desired[n] : b.key \notin Exempt}
             /\ \A b \in desired[n] : b.key \notin Exempt /\ ~IsExpired(b) => b \in applied[n]
        ELSE applied[n] = {}

LEMMA AppliedStep ==
    ASSUME TypeOK, NodesType, OneKeyPerId, AppliedInv, [SystemNext]_systemVars
    PROVE  AppliedInv'
<1> SUFFICES ASSUME NEW n \in Nodes
             PROVE  (IF attached[n]
                     THEN /\ applied[n] \subseteq {b \in desired[n] : b.key \notin Exempt}
                          /\ \A b \in desired[n] : b.key \notin Exempt /\ ~IsExpired(b) => b \in applied[n]
                     ELSE applied[n] = {})'
  BY DEF AppliedInv
<1>1. /\ desired \in [Nodes -> SUBSET Ban] /\ applied \in [Nodes -> SUBSET Ban]
      /\ attached \in [Nodes -> BOOLEAN]
  BY DEF NodesType
<1>2. IF attached[n]
      THEN /\ applied[n] \subseteq {b \in desired[n] : b.key \notin Exempt}
           /\ \A b \in desired[n] : b.key \notin Exempt /\ ~IsExpired(b) => b \in applied[n]
      ELSE applied[n] = {}
  BY DEF AppliedInv
<1>3. CASE NodeStill(n) /\ (now' = now \/ Tick)
  <2>1. now \in Nat /\ now' \in Nat /\ now' >= now
    BY <1>3 DEF TypeOK, Tick
  <2>2. \A b \in desired[n] : IsExpired(b) => IsExpired(b)'
    <3>1. \A b \in Ban : b.expires \in Nat
      BY DEF Ban
    <3> QED
      BY <1>1, <2>1, <3>1 DEF IsExpired
  <2> QED
    BY <1>2, <1>3, <2>2 DEF NodeStill
<1>4. ASSUME now' = now, NEW enabled \in BOOLEAN, E!CheckDns(n, enabled)
      PROVE  (IF attached[n]
              THEN /\ applied[n] \subseteq {b \in desired[n] : b.key \notin Exempt}
                   /\ \A b \in desired[n] : b.key \notin Exempt /\ ~IsExpired(b) => b \in applied[n]
              ELSE applied[n] = {})'
  BY <1>1, <1>2, <1>4 DEF E!CheckDns, E!NotExempt, E!Unexpired, E!IsExpired, IsExpired
<1>5. CASE now' = now /\ ReadLine(n)
  <2> DEFINE h == Head(wire[n])
  <2>1. h \in LinesUnderWay /\ h \in Line /\ E!Receive(n, h.event)
    BY <1>5, ReadBans, ReadEffect DEF ReadLine
  <2> HIDE DEF h
  <2>2. attached' = attached /\ now' = now
    BY <1>5, <2>1 DEF E!Receive
  <2>3. CASE h.event.type = "snapshot" /\ E!OnSnapshot(n, h.event.bans)
    BY <1>1, <1>2, <2>2, <2>3 DEF E!OnSnapshot, E!Enforcing, E!NotExempt, E!Unexpired, E!IsExpired, IsExpired
  <2>4. CASE h.event.type = "ban_upserted" /\ E!OnBanUpserted(n, h.event.entry)
    <3> DEFINE entry == h.event.entry
    <3>1. entry \in AllBans
      BY <2>1, <2>4 DEF AllBans, RaftdBans, BansIn
    <3>2. \A b \in desired[n] : b.ban_id = entry.ban_id => b.key = entry.key
      BY <3>1 DEF AllBans, OneKeyPerId
    <3>3. E!OnBanUpserted(n, entry)
      BY <2>4
    <3> HIDE DEF entry
    <3>4. /\ desired'[n] = {b \in desired[n] : b.ban_id # entry.ban_id} \cup {entry}
          /\ applied'[n] = IF attached[n] /\ entry.key \notin Exempt
                           THEN {b \in applied[n] : b.ban_id # entry.ban_id} \cup {entry}
                           ELSE applied[n]
      BY <1>1, <3>3 DEF E!OnBanUpserted, E!Enforcing, E!WithBan, E!WithoutIds
    <3> QED
      BY <1>2, <2>2, <3>2, <3>4 DEF IsExpired
  <2>5. CASE h.event.type = "ban_deleted" /\ E!OnBanDeleted(n, h.event.ban_id)
    BY <1>1, <1>2, <2>2, <2>5 DEF E!OnBanDeleted, E!Enforcing, E!WithoutIds, IsExpired
  <2>6. CASE UNCHANGED <<desired, applied>>
    BY <1>2, <2>2, <2>6 DEF IsExpired
  <2> QED
    BY <2>1, <2>3, <2>4, <2>5, <2>6 DEF E!Receive
<1>6. CASE now' = now /\ desired'[n] = {} /\ applied'[n] = {} /\ ~attached'[n]
  BY <1>6
<1> QED
  BY <1>3, <1>4, <1>5, <1>6, NodeKinds

-----------------------------------------------------------------------------
(* The theorem.                                                             *)

SystemInv ==
    /\ SystemTypeOK
    /\ KeyInv
    /\ NodesType
    /\ UnsentInv
    /\ StreamInv
    /\ OneKeyPerId
    /\ AppliedInv

LEMMA SystemInvInit == SystemInit => SystemInv
<1> SUFFICES ASSUME SystemInit PROVE SystemInv
  OBVIOUS
<1>1. SystemTypeOK /\ UnsentInv
  BY SystemTypeInit, UnsentInit
<1>2. KeyInv
  BY InitType DEF SystemInit, Init, KeyInv, KeyIndexed, Indexed, Known, Copies, EmptyState
<1>3. NodesType /\ AppliedInv
  BY DEF SystemInit, E!Init, NodesType, AppliedInv
<1>4. StreamInv
  BY SystemAssumption DEF SystemInit, Init, StreamInv, StreamOf
<1>5. OneKeyPerId
  <2>1. Range(<<>>) = {}
    BY DEF Range
  <2>2. LinesUnderWay = {}
    BY <2>1 DEF SystemInit, Init, LinesUnderWay
  <2>3. \A s \in Copies : s.bans = {}
    BY DEF SystemInit, Init, Copies, EmptyState
  <2>4. \A n \in Nodes : desired[n] = {} /\ applied[n] = {}
    BY DEF SystemInit, E!Init
  <2>5. AllBans = {}
    BY <2>2, <2>3, <2>4 DEF AllBans, RaftdBans
  <2> QED
    BY <2>5 DEF OneKeyPerId
<1> QED
  BY <1>1, <1>2, <1>3, <1>4, <1>5 DEF SystemInv

LEMMA SystemInvStep == SystemInv /\ [SystemNext]_systemVars => SystemInv'
<1> SUFFICES ASSUME SystemInv, [SystemNext]_systemVars PROVE SystemInv'
  OBVIOUS
<1>1. /\ SystemTypeOK /\ KeyInv /\ NodesType /\ UnsentInv /\ StreamInv /\ OneKeyPerId /\ AppliedInv
      /\ TypeOK
  BY DEF SystemInv, SystemTypeOK
<1>2. SystemTypeOK' /\ KeyInv' /\ UnsentInv' /\ StreamInv'
  BY <1>1, SystemTypeStep, KeyInvSystem, UnsentStep, StreamStep
<1>3. NodesType' /\ OneKeyPerId' /\ AppliedInv'
  BY <1>1, NodesTypeStep, OneKeyStep, AppliedStep
<1> QED
  BY <1>2, <1>3 DEF SystemInv

\* A drained node has no line to read and no event to wait for: what it holds
\* of each id fits what the table has.
LEMMA DrainedFits ==
    ASSUME SystemInv, NEW n \in Nodes, ~missed[n], Drained(n), NEW id \in BanIds
    PROVE  Fits(n, EntryOf(desired[n], id), EntryOf(st.bans, id))
<1>1. sub[n] = "live" /\ rx[n] = <<>> /\ wire[n] = <<>> /\ \A t \in Tasks : outbox[t] = <<>>
  BY DEF Drained
<1>2. Unsent = {}
  <2>1. \A t \in Tasks : Range(outbox[t]) = {}
    BY <1>1 DEF Range
  <2> QED
    BY <2>1 DEF Unsent
<1>3. Follows(n)
  BY <1>1 DEF SystemInv, StreamInv, StreamOf
<1>4. LastSays(n, <<>>, id, EntryOf(desired[n], id), EntryOf(st.bans, id))
  BY <1>1, <1>2, <1>3 DEF Follows
<1> QED
  BY <1>4 DEF LastSays

LEMMA DrainedAgrees ==
    ASSUME SystemInv, NEW n \in Nodes, ~missed[n], Drained(n)
    PROVE  SameBans(n)
<1>1. desired[n] \subseteq Ban /\ st.bans \subseteq Ban
  BY DEF SystemInv, NodesType, KeyInv, TypeOK, PersistedState
<1>2. ASSUME NEW b \in desired[n] PROVE b \in st.bans
  <2>1. b.ban_id \in BanIds
    BY <1>1 DEF Ban
  <2> QED
    BY <2>1, DrainedFits DEF Fits, EntryOf
<1>3. ASSUME n \in SnapshotSubs, NEW b \in st.bans \ desired[n] PROVE IsExpired(b)
  <2>1. b.ban_id \in BanIds
    BY <1>1 DEF Ban
  <2> QED
    BY <1>3, <2>1, DrainedFits DEF Fits, EntryOf
<1> QED
  BY <1>2, <1>3 DEF SameBans

\* A node that lost no event between its snapshot and now, by overflow, by the
\* gap before it subscribed or by a late broadcast, ends up with the table of
\* sbc_raftd and, attached, applies exactly its bans in force: whatever the
\* crashes of either side, the order of the broadcasts and the clock.
THEOREM NodesFollowRaftd == SystemSpec => []NodesFollow
<1>1. SystemInv => NodesFollow
  <2> SUFFICES ASSUME SystemInv PROVE NodesFollow
    OBVIOUS
  <2>1. UndisturbedNodeAgrees
    BY DrainedAgrees DEF UndisturbedNodeAgrees
  <2>2. UndisturbedNodeEnforces
    <3> SUFFICES ASSUME NEW n \in Nodes \cap SnapshotSubs, ~missed[n], Drained(n)
                 PROVE  LET inForce == {b \in st.bans : b.key \notin Exempt /\ ~IsExpired(b)} IN
                        IF attached[n]
                        THEN /\ inForce \subseteq applied[n]
                             /\ applied[n] \subseteq {b \in st.bans : b.key \notin Exempt}
                        ELSE applied[n] = {}
      BY DEF UndisturbedNodeEnforces
    <3>1. SameBans(n)
      BY DrainedAgrees
    <3> QED
      BY <3>1 DEF SameBans, SystemInv, AppliedInv
  <2> QED
    BY <2>1, <2>2 DEF NodesFollow, SystemInv
<1> QED
  BY <1>1, SystemInvInit, SystemInvStep, PTL DEF SystemSpec
=============================================================================
