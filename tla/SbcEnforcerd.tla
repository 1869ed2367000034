---------------------------- MODULE SbcEnforcerd ----------------------------
(***************************************************************************)
(* sbc_enforcerd (apps/sbc_enforcerd/src/main.rs) on a set of nodes: the    *)
(* DNS poller that switches enforcement on and off, and the events task     *)
(* that follows sbc_raftd.  Both change SharedState behind one mutex, which  *)
(* each takes once per step.                                                 *)
(*                                                                         *)
(* Left out: what only the /status page shows (events_last_index, the last  *)
(* errors, the resolved addresses); the status reports and what feeds them  *)
(* (enforcement_reason, dns_last_error) are in SbcReporter.                 *)
(***************************************************************************)
EXTENDS Naturals, FiniteSets

CONSTANTS Nodes, BanIds, Keys,
          Exempt,      \* the keys that exempt.contains_prefix accepts
          None

ASSUME EnforcerdAssumption ==
    /\ Exempt \subseteq Keys
    /\ None \notin [at : Nodes \X BanIds \X {"sync", "upsert", "delete"}, result : {"ok", "skipped"}]

VARIABLES
    now,         \* now_unix(), the hosts' clocks taken as one
    desired,     \* desired_bans
    applied,     \* applied_bans
    attached,    \* backend_attached, moved together with enforcement_mode
    connected,   \* events_connected
    dns_reports, \* sync reports the DNS poller still has to send
    ev_report    \* the report the events task is sending, or None

sharedVars == <<desired, applied, attached>>
taskVars   == <<connected, dns_reports, ev_report>>

-----------------------------------------------------------------------------
Report(n, id, op, result) == [at |-> <<n, id, op>>, result |-> result]
ReportSet == [at : Nodes \X BanIds \X {"sync", "upsert", "delete"}, result : {"ok", "skipped"}]

IsExpired(b)  == b.expires # 0 /\ b.expires <= now
Unexpired(bs) == {b \in bs : ~IsExpired(b)}
NotExempt(bs) == {b \in bs : b.key \notin Exempt}
WithoutIds(bs, ids) == {b \in bs : b.ban_id \notin ids}
WithBan(bs, entry)  == WithoutIds(bs, {entry.ban_id}) \cup {entry}

\* enforcement_mode = "enforcing"
Enforcing(n) == attached[n]

Init ==
    /\ desired = [n \in Nodes |-> {}]
    /\ applied = [n \in Nodes |-> {}]
    /\ attached = [n \in Nodes |-> FALSE]
    /\ connected = [n \in Nodes |-> FALSE]
    /\ dns_reports = [n \in Nodes |-> {}]
    /\ ev_report = [n \in Nodes |-> None]

-----------------------------------------------------------------------------
(* dns_task: resolve, then one locked section that moves the mode, attaches *)
(* or detaches the backend and rebuilds the applied set.                    *)

\* Fault: the backend detached, the applied set kept.
CheckDnsKeepingApplied(n, enabled) ==
    /\ dns_reports[n] = {}
    /\ attached' = [attached EXCEPT ![n] = enabled]
    /\ applied' = [applied EXCEPT ![n] = IF enabled THEN NotExempt(Unexpired(desired[n])) ELSE @]
    /\ UNCHANGED <<now, desired, connected, dns_reports, ev_report>>

\* Fault: exempt prefixes applied when the backend attaches.
CheckDnsIgnoringExempt(n, enabled) ==
    /\ dns_reports[n] = {}
    /\ attached' = [attached EXCEPT ![n] = enabled]
    /\ applied' = [applied EXCEPT ![n] = IF enabled THEN Unexpired(desired[n]) ELSE {}]
    /\ UNCHANGED <<now, desired, connected, dns_reports, ev_report>>

\* enabled: the name resolved, to SBC_ENABLE_DNS_IP if that is set.  An error
\* or another address disables.
CheckDns(n, enabled) ==
    LET live == Unexpired(desired[n]) IN
    /\ dns_reports[n] = {}
    /\ attached' = [attached EXCEPT ![n] = enabled]
    /\ \/ attached[n] = enabled /\ UNCHANGED <<applied, dns_reports>>
       \/ /\ attached[n] /\ ~enabled
          /\ applied' = [applied EXCEPT ![n] = {}]
          /\ UNCHANGED dns_reports
       \/ /\ ~attached[n] /\ enabled
          /\ applied' = [applied EXCEPT ![n] = NotExempt(live)]
          /\ dns_reports' = [dns_reports EXCEPT ![n] =
                {Report(n, b.ban_id, "sync", IF b.key \in Exempt THEN "skipped" ELSE "ok") : b \in live}]
    /\ UNCHANGED <<now, desired, connected, ev_report>>

\* send_admin_req for one sync report returned, with an answer or an error.
SyncReportSent(n, r) ==
    /\ r \in dns_reports[n]
    /\ dns_reports' = [dns_reports EXCEPT ![n] = @ \ {r}]
    /\ UNCHANGED <<now, sharedVars, connected, ev_report>>

-----------------------------------------------------------------------------
(* events_task                                                              *)

EventsConnected(n) ==
    /\ ~connected[n]
    /\ connected' = [connected EXCEPT ![n] = TRUE]
    /\ UNCHANGED <<now, sharedVars, dns_reports, ev_report>>

\* Fault: the end of the stream not noticed.
EventsEofMissed(n) ==
    /\ connected[n] /\ ev_report[n] = None
    /\ UNCHANGED <<now, connected, sharedVars, dns_reports, ev_report>>

EventsEof(n) ==
    /\ connected[n] /\ ev_report[n] = None
    /\ connected' = [connected EXCEPT ![n] = FALSE]
    /\ UNCHANGED <<now, sharedVars, dns_reports, ev_report>>

OnSnapshot(n, bans) ==
    /\ desired' = [desired EXCEPT ![n] = Unexpired(bans)]
    /\ applied' = [applied EXCEPT ![n] = IF Enforcing(n) THEN NotExempt(Unexpired(bans)) ELSE @]
    /\ UNCHANGED ev_report

OnBanUpserted(n, entry) ==
    LET apply == Enforcing(n) /\ entry.key \notin Exempt IN
    /\ desired' = [desired EXCEPT ![n] = WithBan(@, entry)]
    /\ applied' = [applied EXCEPT ![n] = IF apply THEN WithBan(@, entry) ELSE @]
    /\ ev_report' = [ev_report EXCEPT ![n] =
          Report(n, entry.ban_id, "upsert", IF apply THEN "ok" ELSE "skipped")]

\* Fault: the desired set only followed while enforcing.
OnBanDeletedIfEnforcing(n, id) ==
    /\ desired' = [desired EXCEPT ![n] = IF Enforcing(n) THEN WithoutIds(@, {id}) ELSE @]
    /\ applied' = [applied EXCEPT ![n] = IF Enforcing(n) THEN WithoutIds(@, {id}) ELSE @]
    /\ ev_report' = [ev_report EXCEPT ![n] = Report(n, id, "delete", "ok")]

OnBanDeleted(n, id) ==
    /\ desired' = [desired EXCEPT ![n] = WithoutIds(@, {id})]
    /\ applied' = [applied EXCEPT ![n] = IF Enforcing(n) THEN WithoutIds(@, {id}) ELSE @]
    /\ ev_report' = [ev_report EXCEPT ![n] =
          Report(n, id, "delete", IF Enforcing(n) THEN "ok" ELSE "skipped")]

\* One line of the events socket.  The task reads the next line only after its
\* report for this one was sent.
Receive(n, event) ==
    /\ connected[n] /\ ev_report[n] = None
    /\ \/ event.type = "snapshot"     /\ OnSnapshot(n, event.bans)
       \/ event.type = "ban_upserted" /\ OnBanUpserted(n, event.entry)
       \/ event.type = "ban_deleted"  /\ OnBanDeleted(n, event.ban_id)
       \/ /\ event.type \notin {"snapshot", "ban_upserted", "ban_deleted"}
          /\ UNCHANGED <<desired, applied, ev_report>>
    /\ UNCHANGED <<now, attached, connected, dns_reports>>

ApplyReportSent(n) ==
    /\ ev_report[n] # None
    /\ ev_report' = [ev_report EXCEPT ![n] = None]
    /\ UNCHANGED <<now, sharedVars, connected, dns_reports>>

\* The process stops and starts again: nothing of its state survives.
Restart(n) ==
    /\ desired' = [desired EXCEPT ![n] = {}]
    /\ applied' = [applied EXCEPT ![n] = {}]
    /\ attached' = [attached EXCEPT ![n] = FALSE]
    /\ connected' = [connected EXCEPT ![n] = FALSE]
    /\ dns_reports' = [dns_reports EXCEPT ![n] = {}]
    /\ ev_report' = [ev_report EXCEPT ![n] = None]
    /\ UNCHANGED now

=============================================================================
