---------------------------- MODULE SbcRaftdLog -----------------------------
(***************************************************************************)
(* SbcRaftd with a history variable: the events that made the current       *)
(* state, in index order.  The daemon keeps no log; the variable lets us    *)
(* say what an index in an event, a snapshot or the state file stands for.  *)
(***************************************************************************)
EXTENDS SbcRaftd

VARIABLE log

logAndVars == <<raftdVars, log>>

\* The events a step took out of the locked section: those of the one task
\* whose empty outbox it filled.
Produced ==
    LET ts == {t \in Tasks : outbox[t] = <<>> /\ outbox'[t] # <<>>} IN
    IF ts = {} THEN <<>> ELSE outbox'[CHOOSE t \in ts : TRUE]

LInit == Init /\ log = <<>>

LNext ==
    \/ /\ CrashRestart
       /\ log' = SubSeq(log, 1, disk.next_index - 1)
    \/ /\ (\E c \in Clients : AdminRequest(c)) \/ Internal
       /\ log' = log \o Produced
    \/ /\ \/ Tick
          \/ \E n \in Subscribers : Subscribe(n) \/ Deliver(n)
          \/ PersistFails
       /\ UNCHANGED log

LSpec == LInit /\ [][LNext]_logAndVars

-----------------------------------------------------------------------------
\* What an event does to the tables, read on its own: the meaning a subscriber
\* gives it.
View(s) == [bans |-> s.bans, holds |-> s.holds]

Apply(v, e) ==
    CASE e.event.type = "ban_upserted"  -> [v EXCEPT !.bans = WithBan(@, e.event.entry)]
      [] e.event.type = "ban_deleted"   -> [v EXCEPT !.bans = WithoutIds(@, {e.event.ban_id})]
      [] e.event.type = "hold_upserted" -> [v EXCEPT !.holds = @ \cup {e.event.name}]
      [] e.event.type = "hold_deleted"  -> [v EXCEPT !.holds = @ \ {e.event.name}]
      [] OTHER -> v

NoTables == [bans |-> {}, holds |-> {}]

\* After(events)[i]: the tables after the first i events.
After(events) ==
    LET tables[i \in 0..Len(events)] ==
            IF i = 0 THEN NoTables ELSE Apply(tables[i - 1], events[i])
    IN tables

Replay(events) == After(events)[Len(events)]

\* Every copy of the state is what replaying the events below its index gives:
\* the events are complete and ordered by index, although they are sent out of
\* order after the lock is released and indexes are reused after a crash.
StateIsReplay ==
    \A s \in Copies : View(s) = Replay(SubSeq(log, 1, s.next_index - 1))

\* The lines a connected subscriber can still read start from a snapshot that
\* is the state at the index it carries, so a snapshot and a later event with
\* a greater index never overlap.
SnapshotIsReplay ==
    \A n \in Subscribers : sub[n] # "closed" =>
        \A i \in DOMAIN wire[n] :
            LET l == wire[n][i] IN l.event.type = "snapshot" =>
                [bans |-> l.event.bans, holds |-> l.event.holds] = Replay(SubSeq(log, 1, l.index))

\* The daemon implements a log with a saved prefix.
DL == INSTANCE DurableLog
        WITH Entries <- Envelope, log <- log, saved <- disk.next_index - 1
ImplementsDurableLog == DL!LogSpec

\* Every copy of the tables - in memory, on disk, on the way there, and in the
\* snapshots sent - is what the events up to its index say.
CopiesAreReplays == StateIsReplay /\ SnapshotIsReplay

=============================================================================
