----------------------------- MODULE SbcSystem ------------------------------
(***************************************************************************)
(* sbc_raftd composed with the sbc_enforcerd of each node: the lines an     *)
(* events connection writes are what the events task reads, and the tasks   *)
(* of an enforcer are admin clients like any operator.                      *)
(***************************************************************************)
EXTENDS SbcRaftd

CONSTANTS Nodes,       \* nodes that run sbc_enforcerd, each a subscriber
          Operators,   \* other admin clients (adminctl, sbc_deciderd)
          Exempt,
          MaxCrashes   \* bound on the crashes of a behaviour, of either kind

VARIABLES desired, applied, attached, connected, dns_reports, ev_report,
          call,        \* per enforcer task: its admin request's progress
          crashes,
          maxSent,     \* history: highest index broadcast since the last restart
          missed       \* history: since its snapshot, an event was lost to the
                       \* node or reached it after one with a higher index

E == INSTANCE SbcEnforcerd

EnforcerTasks == {"dns", "events"} \X Nodes
enforcerVars  == <<desired, applied, attached, connected, dns_reports, ev_report>>
ghosts        == <<crashes, maxSent, missed>>
systemVars    == <<raftdVars, enforcerVars, call, ghosts>>

ASSUME SystemAssumption ==
    /\ Nodes \subseteq Subscribers
    /\ Clients = Operators \cup EnforcerTasks
    /\ MaxCrashes \in Nat

SystemInit ==
    /\ Init
    /\ E!Init
    /\ call = [c \in EnforcerTasks |-> "none"]
    /\ crashes = 0
    /\ maxSent = 0
    /\ missed = [n \in Nodes |-> TRUE]

-----------------------------------------------------------------------------
(* send_admin_req of an enforcer task: connect, one locked section in       *)
(* sbc_raftd, the answer once the event was broadcast.                      *)

Idle(task, n) == call[<<task, n>>] = "none"

\* The requests a task is at.
ToSend(task, n) == IF task = "dns" THEN dns_reports[n] ELSE {ev_report[n]} \ {None}

\* The task goes on when send_admin_req returns, whatever it returned.
Returned(task, n) ==
    \/ task = "dns" /\ \E r \in dns_reports[n] : E!SyncReportSent(n, r)
    \/ task = "events" /\ E!ApplyReportSent(n)

Ask(task, n) ==
    /\ Idle(task, n)
    /\ \E r \in ToSend(task, n) \cap Reports : ReportBanApplyResult(<<task, n>>, r)
    /\ call' = [call EXCEPT ![<<task, n>>] = "asked"]
    /\ UNCHANGED <<enforcerVars, ghosts>>

Answered(task, n) ==
    /\ call[<<task, n>>] = "asked" /\ outbox[<<task, n>>] = <<>>
    /\ Returned(task, n)
    /\ call' = [call EXCEPT ![<<task, n>>] = "none"]
    /\ UNCHANGED <<raftdVars, ghosts>>

\* The connection failed, or sbc_raftd died before it answered.
RequestFails(task, n) ==
    /\ ToSend(task, n) # {} /\ call[<<task, n>>] # "asked"
    /\ Returned(task, n)
    /\ call' = [call EXCEPT ![<<task, n>>] = "none"]
    /\ UNCHANGED <<raftdVars, ghosts>>

-----------------------------------------------------------------------------
(* Steps of one component with what the other one sees of them.             *)

Operator(c) ==
    /\ \/ \E k \in Keys, ttl \in Ttls : UpsertBan(c, k, ttl)
       \/ \E id \in usedIds : DeleteBan(c, id)
    /\ UNCHANGED <<enforcerVars, call, ghosts>>

\* What reaches the disk only matters while a crash may follow.
RaftdAlone ==
    /\ \/ Reap
       \/ \E n \in Subscribers : Forward(n)
       \/ crashes < MaxCrashes /\ (StartPersist \/ FinishPersist \/ PersistFails)
       \/ Tick
    /\ UNCHANGED <<enforcerVars, call, ghosts>>

SendEvent(t) ==
    /\ Broadcast(t)
    /\ LET e == Head(outbox[t]) IN
       /\ maxSent' = IF e.index > maxSent THEN e.index ELSE maxSent
       /\ missed' = [n \in Nodes |-> \/ missed[n]
                                     \/ sub[n] = "snapshotted"
                                     \/ /\ sub[n] = "live"
                                        /\ Len(rx[n]) = ChannelCap \/ e.index < maxSent]
    /\ UNCHANGED <<enforcerVars, call, crashes>>

TakeSnapshotOf(n) ==
    /\ SendSnapshot(n)
    /\ missed' = [missed EXCEPT ![n] = FALSE]
    /\ UNCHANGED <<enforcerVars, call, crashes, maxSent>>

\* A tail-only node that holds nothing has missed nothing it could hold.
TailFrom(n) ==
    /\ StartTail(n)
    /\ missed' = [missed EXCEPT ![n] = @ /\ (n \in SnapshotSubs \/ desired[n] # {})]
    /\ UNCHANGED <<enforcerVars, call, crashes, maxSent>>

Connect(n) ==
    /\ Subscribe(n)
    /\ E!EventsConnected(n)
    /\ missed' = [missed EXCEPT ![n] = TRUE]
    /\ UNCHANGED <<call, crashes, maxSent>>

ReadLine(n) ==
    /\ Deliver(n)
    /\ E!Receive(n, Head(wire[n]).event)
    /\ UNCHANGED <<call, ghosts>>

ReadEof(n) ==
    /\ sub[n] = "closed" /\ wire[n] = <<>>
    /\ E!EventsEof(n)
    /\ UNCHANGED <<raftdVars, call, ghosts>>

EnforcerAlone(n) ==
    /\ \E enabled \in BOOLEAN : E!CheckDns(n, enabled)
    /\ UNCHANGED <<raftdVars, call, ghosts>>

RaftdCrash ==
    /\ crashes < MaxCrashes
    /\ crashes' = crashes + 1
    /\ CrashRestart
    /\ maxSent' = 0
    /\ call' = [c \in EnforcerTasks |-> IF call[c] = "asked" THEN "failed" ELSE call[c]]
    /\ UNCHANGED <<enforcerVars, missed>>

\* The enforcer's process restarts; sbc_raftd's handler for the old connection
\* ends when its next write fails, and nothing it wrote is read.
EnforcerCrash(n) ==
    /\ crashes < MaxCrashes
    /\ crashes' = crashes + 1
    /\ E!Restart(n)
    /\ sub' = [sub EXCEPT ![n] = "closed"]
    /\ rx' = [rx EXCEPT ![n] = <<>>]
    /\ wire' = [wire EXCEPT ![n] = <<>>]
    /\ call' = [c \in EnforcerTasks |-> IF c[2] = n THEN "none" ELSE call[c]]
    /\ UNCHANGED <<st, usedIds, outbox, disk, writing, last_persisted, maxSent, missed>>

SystemNext ==
    \/ \E c \in Operators : Operator(c)
    \/ RaftdAlone
    \/ \E t \in Tasks : SendEvent(t)
    \/ \E n \in Nodes :
          \/ \E task \in {"dns", "events"} :
                Ask(task, n) \/ Answered(task, n) \/ RequestFails(task, n)
          \/ TakeSnapshotOf(n)
          \/ TailFrom(n)
          \/ Connect(n)
          \/ ReadLine(n)
          \/ ReadEof(n)
          \/ EnforcerAlone(n)
          \/ EnforcerCrash(n)
    \/ RaftdCrash

SystemSpec == SystemInit /\ [][SystemNext]_systemVars

\* Every task runs (the sockets are local); requests may fail, but
\* send_admin_req always returns.
SystemFairness ==
    /\ \A t \in Tasks : WF_systemVars(SendEvent(t))
    /\ WF_systemVars(Reap /\ UNCHANGED <<enforcerVars, call, ghosts>>)
    /\ \A n \in Nodes :
          /\ \A task \in {"dns", "events"} :
                WF_systemVars(Answered(task, n) \/ RequestFails(task, n))
          /\ WF_systemVars(TakeSnapshotOf(n))
          /\ WF_systemVars(TailFrom(n))
          /\ WF_systemVars(Forward(n) /\ UNCHANGED <<enforcerVars, call, ghosts>>)
          /\ WF_systemVars(Connect(n))
          /\ WF_systemVars(ReadLine(n))
          /\ WF_systemVars(ReadEof(n))

FairSystemSpec == SystemSpec /\ SystemFairness

-----------------------------------------------------------------------------
\* Type invariant of the composition's own variables.
SystemTypeOK ==
    /\ TypeOK
    /\ call \in [EnforcerTasks -> {"none", "asked", "failed"}]
    /\ crashes \in 0..MaxCrashes
    /\ maxSent \in Nat
    /\ missed \in [Nodes -> BOOLEAN]

\* Nothing is on its way from sbc_raftd to the node.
Drained(n) ==
    /\ \A t \in Tasks : outbox[t] = <<>>
    /\ sub[n] = "live" /\ rx[n] = <<>> /\ wire[n] = <<>>

\* A tail-only node never hears of the bans made before it connected.
SameBans(n) ==
    /\ desired[n] \subseteq st.bans
    /\ n \in SnapshotSubs => \A b \in st.bans \ desired[n] : IsExpired(b)

\* The only ways for a node to end up with other bans than sbc_raftd are the
\* three that missed records: an event broadcast between its snapshot and its
\* subscription, one its receiver overflowed on, one overtaken by a later
\* event after the lock was released.  Otherwise, once everything sent was
\* read, the desired set is the table.
UndisturbedNodeAgrees == \A n \in Nodes : ~missed[n] /\ Drained(n) => SameBans(n)

\* The same, seen at the backend: an undisturbed node with enforcement on
\* applies exactly the table's bans that are neither exempt nor past their TTL.
UndisturbedNodeEnforces ==
    \A n \in Nodes \cap SnapshotSubs : ~missed[n] /\ Drained(n) =>
        LET inForce == {b \in st.bans : b.key \notin Exempt /\ ~IsExpired(b)} IN
        IF attached[n]
        THEN /\ inForce \subseteq applied[n]
             /\ applied[n] \subseteq {b \in st.bans : b.key \notin Exempt}
        ELSE applied[n] = {}

\* "Desired bans from raft (regardless of enforcement mode)": a node that
\* subscribes with a snapshot and has read everything holds raft's bans.
DesiredIsRaft == \A n \in Nodes \cap SnapshotSubs : Drained(n) => SameBans(n)

\* A permanent ban is enforced on every node, unless it is deleted, the node
\* fails open, lost its place in the stream, or exempts the prefix.
BanEnforcedOrExcused ==
    \A n \in Nodes \cap SnapshotSubs : \A id \in BanIds :
        (\E b \in st.bans : b.ban_id = id /\ b.expires = 0 /\ b.key \notin Exempt)
          ~> \/ \E b \in applied[n] : b.ban_id = id
             \/ ~\E b \in st.bans : b.ban_id = id /\ b.expires = 0
             \/ missed[n] /\ sub[n] = "live"
             \/ ~attached[n]

\* Through crashes, cuts and lagging receivers, a node that missed nothing
\* follows sbc_raftd, with its desired set and, enforcement on, its backend.
NodesFollow == SystemTypeOK /\ UndisturbedNodeAgrees /\ UndisturbedNodeEnforces

=============================================================================
