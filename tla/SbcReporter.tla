---------------------------- MODULE SbcReporter -----------------------------
(***************************************************************************)
(* report_status_task of sbc_enforcerd (apps/sbc_enforcerd/src/main.rs) on  *)
(* one node, with the two tasks that kick it: the DNS poller, which also    *)
(* changes the status, and the events task.  sbc_raftd is the last status   *)
(* it recorded for the node.                                                *)
(***************************************************************************)
EXTENDS Naturals

CONSTANTS Errors,     \* texts of a failed DNS lookup
          KickCap,    \* capacity of the status channel (64 in the code)
          MaxFails,   \* bound on the requests that fail
          NoStatus

ASSUME ReporterAssumption ==
    /\ NoStatus \notin Errors
    /\ KickCap \in Nat \ {0}
    /\ MaxFails \in Nat

VARIABLES
    status,         \* the fields of SharedState that are compared and reported
    reason,         \* enforcement_reason
    dns_changed,    \* the DNS poller is about to kick
    kicks,          \* messages in the status channel
    phase,          \* report_status_task: waiting, between its two locks, sending
    snapshot,       \* what it compares with last_sent
    payload,        \* the status it sends
    last_sent,      \* its last_sent
    recorded,       \* sbc_raftd's last_status_by_node of this node
    fails           \* requests that failed so far

reporterVars == <<status, reason, dns_changed, kicks, phase, snapshot, payload, last_sent, recorded, fails>>

Status ==
    [dns_enabled : BOOLEAN, dns_last_error : Errors \cup {NoStatus},
     enforcement_mode : {"enforcing", "fail_open"}, backend_attached : BOOLEAN]

StartupStatus ==
    [dns_enabled |-> FALSE, dns_last_error |-> NoStatus,
     enforcement_mode |-> "fail_open", backend_attached |-> FALSE]

ReporterInit ==
    /\ status = StartupStatus
    /\ reason = "startup"
    /\ dns_changed = FALSE
    /\ kicks = 1                  \* main kicks an initial report
    /\ phase = "wait"
    /\ snapshot = NoStatus
    /\ payload = NoStatus
    /\ last_sent = NoStatus
    /\ recorded = NoStatus
    /\ fails = 0

-----------------------------------------------------------------------------
\* Fault: another error is not a change.
PollDnsIgnoringError(enabled, err) ==
    /\ ~dns_changed
    /\ enabled => err = NoStatus
    /\ status' = [dns_enabled |-> enabled, dns_last_error |-> err,
                  enforcement_mode |-> IF enabled THEN "enforcing" ELSE "fail_open",
                  backend_attached |-> enabled]
    /\ dns_changed' = (enabled # status.dns_enabled)
    /\ UNCHANGED <<reason, kicks, phase, snapshot, payload, last_sent, recorded, fails>>

\* dns_task, one locked section: every field moves together.
PollDns(enabled, err) ==
    LET new == [dns_enabled |-> enabled, dns_last_error |-> err,
                enforcement_mode |-> IF enabled THEN "enforcing" ELSE "fail_open",
                backend_attached |-> enabled]
        why == CASE enabled -> "dns_enabled"
                 [] ~enabled /\ err # NoStatus -> "dns_error"
                 [] OTHER -> "dns_disabled"
    IN
    /\ ~dns_changed
    /\ enabled => err = NoStatus
    /\ status' = new
    /\ reason' = why
    /\ dns_changed' = (new # status \/ why # reason)
    /\ UNCHANGED <<kicks, phase, snapshot, payload, last_sent, recorded, fails>>

\* Fault: the kick lost.
KickLost ==
    /\ dns_changed
    /\ dns_changed' = FALSE
    /\ UNCHANGED <<status, reason, kicks, phase, snapshot, payload, last_sent, recorded, fails>>

\* status_tx.send(()).await of the poller, which waits while the channel is full.
KickFromDns ==
    /\ dns_changed /\ kicks < KickCap
    /\ dns_changed' = FALSE
    /\ kicks' = kicks + 1
    /\ UNCHANGED <<status, reason, phase, snapshot, payload, last_sent, recorded, fails>>

\* The events task kicks after it connected and after the stream ended.
KickFromEvents ==
    /\ kicks < KickCap
    /\ kicks' = kicks + 1
    /\ UNCHANGED <<status, reason, dns_changed, phase, snapshot, payload, last_sent, recorded, fails>>

\* First lock: compare with what was sent last.
TakeSnapshot ==
    /\ phase = "wait" /\ kicks > 0
    /\ kicks' = kicks - 1
    /\ IF last_sent = status THEN UNCHANGED <<phase, snapshot>>
       ELSE phase' = "snapped" /\ snapshot' = status
    /\ UNCHANGED <<status, reason, dns_changed, payload, last_sent, recorded, fails>>

\* Second lock: build the status to send.
ReadStatus ==
    /\ phase = "snapped"
    /\ phase' = "sending"
    /\ payload' = status
    /\ UNCHANGED <<status, reason, dns_changed, kicks, snapshot, last_sent, recorded, fails>>

\* sbc_raftd stores it before it answers.
StatusSent ==
    /\ phase = "sending"
    /\ recorded' = payload
    /\ last_sent' = snapshot
    /\ phase' = "wait" /\ snapshot' = NoStatus /\ payload' = NoStatus
    /\ UNCHANGED <<status, reason, dns_changed, kicks, fails>>

\* Logged and forgotten; the request may or may not have been stored.
StatusSendFails ==
    /\ phase = "sending" /\ fails < MaxFails
    /\ fails' = fails + 1
    /\ recorded' \in {recorded, payload}
    /\ phase' = "wait" /\ snapshot' = NoStatus /\ payload' = NoStatus
    /\ UNCHANGED <<status, reason, dns_changed, kicks, last_sent>>

ReporterNext ==
    \/ \E enabled \in BOOLEAN, err \in Errors \cup {NoStatus} : PollDns(enabled, err)
    \/ KickFromDns
    \/ KickFromEvents
    \/ TakeSnapshot
    \/ ReadStatus
    \/ StatusSent
    \/ StatusSendFails

ReporterSpec == ReporterInit /\ [][ReporterNext]_reporterVars

ReporterFairness ==
    /\ WF_reporterVars(KickFromDns)
    /\ WF_reporterVars(TakeSnapshot)
    /\ WF_reporterVars(ReadStatus)
    /\ WF_reporterVars(StatusSent \/ StatusSendFails)

ReporterFairSpec == ReporterSpec /\ ReporterFairness

-----------------------------------------------------------------------------
\* Type invariant.
ReporterTypeOK ==
    /\ status \in Status
    /\ reason \in {"startup", "dns_enabled", "dns_error", "dns_disabled"}
    /\ dns_changed \in BOOLEAN
    /\ kicks \in 0..KickCap
    /\ phase \in {"wait", "snapped", "sending"}
    /\ {snapshot, payload, last_sent, recorded} \subseteq Status \cup {NoStatus}
    /\ fails \in 0..MaxFails

\* The mode, the flag and the attachment of a report agree with each other and
\* with the error, although the report is built outside the section that moved
\* them, after a lock of its own.
ReportsCoherent ==
    \A s \in {status, payload, recorded} \ {NoStatus} :
        /\ s.backend_attached = (s.enforcement_mode = "enforcing")
        /\ s.dns_enabled = s.backend_attached
        /\ s.dns_enabled => s.dns_last_error = NoStatus

NothingPending == kicks = 0 /\ ~dns_changed /\ phase = "wait"

\* A change the reporter has not handled leaves a trace: with nothing pending
\* and no failed request, the status it last compared equal to last_sent is
\* the present one.
ComparedIsCurrent == NothingPending /\ fails = 0 => last_sent = status

\* "Report enforcement status to raft on meaningful changes": with nothing
\* pending and no failed request, sbc_raftd holds the present status.
ReportedIsCurrent == NothingPending /\ fails = 0 => recorded = status

\* Liveness: a startup status or a change is followed by a report, or by a
\* request that failed, or by another change.
ReportFollowsChange ==
    \A s \in Status : (status = s /\ fails = 0) ~> (recorded = s \/ status # s \/ last_sent = s \/ fails > 0)

\* The reporter's kicks, its snapshot outside the lock and its comparison with
\* last_sent lose no change and report no mixture of two states.
ReporterInv == ReporterTypeOK /\ ReportsCoherent /\ ComparedIsCurrent

=============================================================================
