--------------------------- MODULE SbcPartsProofs ---------------------------
(***************************************************************************)
(* Proofs about the parts of the source-ban tools that run alone:           *)
(* sbc_enforcerd closed with any stream of events, any DNS answers and      *)
(* restarts, its status reporter, and the decider, for any sets of nodes,   *)
(* ids, prefixes, expiries and sources; and the arithmetic of the prefixes  *)
(* themselves, for addresses of any width.                                  *)
(***************************************************************************)
EXTENDS SbcEnforcerdAlone, SbcReporter, SbcDecider, IpPrefix, DataInduction, TLAPS

-----------------------------------------------------------------------------
(* The enforcer: type correctness.                                          *)

LEMMA BanTypes ==
    ASSUME NEW bs \in SUBSET Ban, NEW entry \in Ban, NEW id
    PROVE  /\ Unexpired(bs) \in SUBSET Ban
           /\ NotExempt(bs) \in SUBSET Ban
           /\ WithoutIds(bs, {id}) \in SUBSET Ban
           /\ WithBan(bs, entry) \in SUBSET Ban
BY DEF Unexpired, NotExempt, WithoutIds, WithBan

LEMMA ReportType ==
    ASSUME NEW n \in Nodes, NEW id \in BanIds, NEW op \in {"sync", "upsert", "delete"},
           NEW result \in {"ok", "skipped"}
    PROVE  Report(n, id, op, result) \in ReportSet
BY DEF Report, ReportSet

LEMMA ReceiveType ==
    ASSUME TypeOK, NEW n \in Nodes, NEW event \in Events, Receive(n, event)
    PROVE  TypeOK'
<1>1. CASE event.type = "snapshot" /\ OnSnapshot(n, event.bans)
  <2>1. event.bans \in SUBSET Ban
    BY <1>1 DEF Events
  <2>2. /\ Unexpired(event.bans) \in SUBSET Ban
        /\ NotExempt(Unexpired(event.bans)) \in SUBSET Ban
    BY <2>1 DEF Unexpired, NotExempt
  <2> QED
    BY <1>1, <2>2 DEF Receive, OnSnapshot, TypeOK
<1>2. CASE event.type = "ban_upserted" /\ OnBanUpserted(n, event.entry)
  <2>1. event.entry \in Ban
    BY <1>2 DEF Events
  <2>2. event.entry.ban_id \in BanIds
    BY <2>1 DEF Ban
  <2> DEFINE apply == Enforcing(n) /\ event.entry.key \notin Exempt
  <2>3. Report(n, event.entry.ban_id, "upsert", IF apply THEN "ok" ELSE "skipped") \in ReportSet
    BY <2>2, ReportType
  <2>4. /\ WithBan(desired[n], event.entry) \in SUBSET Ban
        /\ WithBan(applied[n], event.entry) \in SUBSET Ban
    BY <2>1, BanTypes DEF TypeOK
  <2> QED
    BY <1>2, <2>3, <2>4 DEF Receive, OnBanUpserted, TypeOK
<1>3. CASE event.type = "ban_deleted" /\ OnBanDeleted(n, event.ban_id)
  <2>1. event.ban_id \in BanIds
    BY <1>3 DEF Events
  <2>2. Report(n, event.ban_id, "delete", IF Enforcing(n) THEN "ok" ELSE "skipped") \in ReportSet
    BY <2>1, ReportType
  <2>3. /\ WithoutIds(desired[n], {event.ban_id}) \in SUBSET Ban
        /\ WithoutIds(applied[n], {event.ban_id}) \in SUBSET Ban
    BY DEF TypeOK, WithoutIds
  <2> QED
    BY <1>3, <2>2, <2>3 DEF Receive, OnBanDeleted, TypeOK
<1>4. CASE UNCHANGED <<desired, applied, ev_report>>
  BY <1>4 DEF Receive, TypeOK
<1> QED
  BY <1>1, <1>2, <1>3, <1>4 DEF Receive

LEMMA CheckDnsType ==
    ASSUME TypeOK, NEW n \in Nodes, NEW enabled \in BOOLEAN, CheckDns(n, enabled)
    PROVE  TypeOK'
<1> DEFINE live == Unexpired(desired[n])
           reports == {Report(n, b.ban_id, "sync", IF b.key \in Exempt THEN "skipped" ELSE "ok") : b \in live}
<1>1. live \in SUBSET Ban /\ NotExempt(live) \in SUBSET Ban
  BY DEF TypeOK, Unexpired, NotExempt
<1>2. reports \in SUBSET ReportSet
  BY <1>1, ReportType DEF Ban
<1>3. applied' \in [Nodes -> SUBSET Ban]
  BY <1>1 DEF CheckDns, TypeOK
<1>4. dns_reports' \in [Nodes -> SUBSET ReportSet]
  BY <1>2 DEF CheckDns, TypeOK
<1> QED
  BY <1>3, <1>4 DEF CheckDns, TypeOK

LEMMA InitType == AloneInit => TypeOK
BY DEF AloneInit, Init, TypeOK

LEMMA StepType == TypeOK /\ [AloneNext]_vars => TypeOK'
<1> SUFFICES ASSUME TypeOK, [AloneNext]_vars PROVE TypeOK'
  OBVIOUS
<1>1. CASE Tick
  BY <1>1 DEF Tick, TypeOK, sharedVars, taskVars
<1>2. CASE UNCHANGED vars
  BY <1>2 DEF vars, TypeOK, sharedVars, taskVars
<1>3. ASSUME NEW n \in Nodes, NodeStep(n) PROVE TypeOK'
  <2>1. CASE \E enabled \in BOOLEAN : CheckDns(n, enabled)
    BY <2>1, CheckDnsType
  <2>2. CASE \E event \in Events : Receive(n, event)
    BY <2>2, ReceiveType
  <2>3. CASE \E r \in dns_reports[n] : SyncReportSent(n, r)
    <3> PICK r \in dns_reports[n] : SyncReportSent(n, r)
      BY <2>3
    <3>1. dns_reports[n] \ {r} \in SUBSET ReportSet
      BY DEF TypeOK
    <3> QED
      BY <3>1 DEF SyncReportSent, TypeOK, sharedVars
  <2>4. CASE EventsConnected(n) \/ EventsEof(n) \/ ApplyReportSent(n)
    BY <2>4 DEF EventsConnected, EventsEof, ApplyReportSent, TypeOK, sharedVars
  <2>5. CASE Restart(n)
    BY <2>5 DEF Restart, TypeOK
  <2> QED
    BY <1>3, <2>1, <2>2, <2>3, <2>4, <2>5 DEF NodeStep
<1> QED
  BY <1>1, <1>2, <1>3 DEF AloneNext

\* Type correctness, whatever the event stream and the DNS say.
THEOREM TypeCorrect == AloneSpec => []TypeOK
BY InitType, StepType, PTL DEF AloneSpec

-----------------------------------------------------------------------------
(* The applied set follows the desired one.                                 *)

LEMMA FollowsStep ==
    ASSUME TypeOK, AppliedFollowsDesired, [AloneNext]_vars
    PROVE  AppliedFollowsDesired'
<1> USE DEF AppliedFollowsDesired
<1>1. CASE Tick
  <2>1. ASSUME NEW b \in Ban, IsExpired(b) PROVE IsExpired(b)'
    <3>1. b.expires \in Nat
      BY AloneAssumption DEF Ban
    <3>2. now \in Nat /\ now' = now + 1
      BY <1>1 DEF Tick, TypeOK
    <3>3. b.expires # 0 /\ b.expires <= now'
      BY <2>1, <3>1, <3>2 DEF IsExpired
    <3> QED
      BY <3>3 DEF IsExpired
  <2> QED
    BY <1>1, <2>1, AloneAssumption DEF Tick, TypeOK, sharedVars, Unexpired, NotExempt
<1>2. CASE UNCHANGED <<now, sharedVars>>
  BY <1>2 DEF sharedVars, Unexpired, NotExempt, IsExpired
<1>3. ASSUME NEW n \in Nodes, NodeStep(n) PROVE AppliedFollowsDesired'
  <2>1. CASE \E enabled \in BOOLEAN : CheckDns(n, enabled)
    BY <2>1 DEF CheckDns, TypeOK, Unexpired, NotExempt, IsExpired
  <2>2. ASSUME NEW event \in Events, Receive(n, event) PROVE AppliedFollowsDesired'
    <3>1. CASE event.type = "snapshot" /\ OnSnapshot(n, event.bans)
      BY <2>2, <3>1 DEF Receive, OnSnapshot, Enforcing, TypeOK, Unexpired, NotExempt, IsExpired
    <3>2. CASE event.type = "ban_upserted" /\ OnBanUpserted(n, event.entry)
      <4>1. event.entry \in Ban
        BY <3>2 DEF Events
      <4>2. \A b \in desired[n] \cup applied[n] :
               b.ban_id = event.entry.ban_id => b.key = event.entry.key
        BY <4>1 DEF TypeOK, Ban
      <4> QED
        BY <2>2, <3>2, <4>2 DEF Receive, OnBanUpserted, Enforcing, TypeOK, Unexpired,
                                NotExempt, IsExpired, WithBan, WithoutIds
    <3>3. CASE event.type = "ban_deleted" /\ OnBanDeleted(n, event.ban_id)
      BY <2>2, <3>3 DEF Receive, OnBanDeleted, Enforcing, TypeOK, Unexpired, NotExempt,
                        IsExpired, WithoutIds
    <3>4. CASE UNCHANGED <<desired, applied, ev_report>>
      BY <1>2, <2>2, <3>4 DEF Receive, sharedVars
    <3> QED
      BY <2>2, <3>1, <3>2, <3>3, <3>4 DEF Receive
  <2>3. CASE \E r \in dns_reports[n] : SyncReportSent(n, r)
    BY <1>2, <2>3 DEF SyncReportSent
  <2>4. CASE EventsConnected(n) \/ EventsEof(n) \/ ApplyReportSent(n)
    BY <1>2, <2>4 DEF EventsConnected, EventsEof, ApplyReportSent
  <2>5. CASE Restart(n)
    BY <2>5 DEF Restart, TypeOK, Unexpired, NotExempt, IsExpired
  <2> QED
    BY <1>3, <2>1, <2>2, <2>3, <2>4, <2>5 DEF NodeStep
<1> QED
  BY <1>1, <1>2, <1>3 DEF AloneNext, vars

\* The two tasks keep the backend in step with the desired bans, although each
\* changes both sets on its own and the events may say anything.
THEOREM AppliedFollowsDesiredHolds == AloneSpec => []AppliedFollowsDesired
<1>1. AloneInit => AppliedFollowsDesired
  BY DEF AloneInit, Init, AppliedFollowsDesired
<1> QED
  BY <1>1, InitType, StepType, FollowsStep, PTL DEF AloneSpec

-----------------------------------------------------------------------------
(* One entry per id.                                                        *)

LEMMA OnePerIdWith ==
    ASSUME NEW bs, OnePerId(bs), NEW entry
    PROVE  OnePerId(WithBan(bs, entry))
BY DEF OnePerId, WithBan, WithoutIds

LEMMA OnePerIdWithout ==
    ASSUME NEW bs, OnePerId(bs), NEW ids
    PROVE  OnePerId(WithoutIds(bs, ids))
BY DEF OnePerId, WithoutIds

LEMMA OnePerIdFiltered ==
    ASSUME NEW bs, OnePerId(bs)
    PROVE  OnePerId(Unexpired(bs)) /\ OnePerId(NotExempt(Unexpired(bs)))
BY DEF OnePerId, Unexpired, NotExempt

LEMMA OneEntryStep ==
    ASSUME TypeOK, OneEntryPerId, [AloneNext]_vars
    PROVE  OneEntryPerId'
<1>1. CASE UNCHANGED <<desired, applied>>
  BY <1>1 DEF OneEntryPerId, OnePerId
<1>2. ASSUME NEW n \in Nodes,
             desired' \in [Nodes -> SUBSET Ban], applied' \in [Nodes -> SUBSET Ban],
             \A m \in Nodes \ {n} : desired'[m] = desired[m] /\ applied'[m] = applied[m],
             OnePerId(desired'[n]), OnePerId(applied'[n])
      PROVE  OneEntryPerId'
  BY <1>2 DEF OneEntryPerId, OnePerId
<1>3. ASSUME NEW n \in Nodes, NodeStep(n) PROVE OneEntryPerId'
  <2>0. /\ desired' \in [Nodes -> SUBSET Ban] /\ applied' \in [Nodes -> SUBSET Ban]
        /\ OnePerId(desired[n]) /\ OnePerId(applied[n])
    BY StepType DEF TypeOK, OneEntryPerId
  <2>1. CASE \E enabled \in BOOLEAN : CheckDns(n, enabled)
    <3>1. /\ UNCHANGED desired
          /\ \A m \in Nodes \ {n} : applied'[m] = applied[m]
          /\ applied'[n] \in {applied[n], {}, NotExempt(Unexpired(desired[n]))}
      BY <2>1 DEF CheckDns, TypeOK
    <3>2. OnePerId({})
      BY DEF OnePerId
    <3> QED
      BY <1>2, <2>0, <3>1, <3>2, OnePerIdFiltered
  <2>2. ASSUME NEW event \in Events, Receive(n, event) PROVE OneEntryPerId'
    <3>1. CASE event.type = "snapshot" /\ OnSnapshot(n, event.bans)
      <4>1. OnePerId(event.bans)
        BY <3>1 DEF Events
      <4>2. /\ \A m \in Nodes \ {n} : desired'[m] = desired[m] /\ applied'[m] = applied[m]
            /\ desired'[n] = Unexpired(event.bans)
            /\ applied'[n] \in {applied[n], NotExempt(Unexpired(event.bans))}
        BY <3>1 DEF OnSnapshot, TypeOK
      <4>3. OnePerId(desired'[n]) /\ OnePerId(applied'[n])
        BY <2>0, <4>1, <4>2, OnePerIdFiltered
      <4> QED
        BY <1>2, <2>0, <4>2, <4>3
    <3>2. CASE event.type = "ban_upserted" /\ OnBanUpserted(n, event.entry)
      <4>1. /\ \A m \in Nodes \ {n} : desired'[m] = desired[m] /\ applied'[m] = applied[m]
            /\ desired'[n] = WithBan(desired[n], event.entry)
            /\ applied'[n] \in {applied[n], WithBan(applied[n], event.entry)}
        BY <3>2 DEF OnBanUpserted, TypeOK
      <4> QED
        BY <1>2, <2>0, <4>1, OnePerIdWith
    <3>3. CASE event.type = "ban_deleted" /\ OnBanDeleted(n, event.ban_id)
      <4>1. /\ \A m \in Nodes \ {n} : desired'[m] = desired[m] /\ applied'[m] = applied[m]
            /\ desired'[n] = WithoutIds(desired[n], {event.ban_id})
            /\ applied'[n] \in {applied[n], WithoutIds(applied[n], {event.ban_id})}
        BY <3>3 DEF OnBanDeleted, TypeOK
      <4> QED
        BY <1>2, <2>0, <4>1, OnePerIdWithout
    <3> QED
      BY <1>1, <2>2, <3>1, <3>2, <3>3 DEF Receive
  <2>3. CASE \/ \E r \in dns_reports[n] : SyncReportSent(n, r)
             \/ EventsConnected(n) \/ EventsEof(n) \/ ApplyReportSent(n)
    BY <1>1, <2>3 DEF SyncReportSent, EventsConnected, EventsEof, ApplyReportSent, sharedVars
  <2>4. CASE Restart(n)
    <3>1. /\ \A m \in Nodes \ {n} : desired'[m] = desired[m] /\ applied'[m] = applied[m]
          /\ desired'[n] = {} /\ applied'[n] = {}
      BY <2>4 DEF Restart, TypeOK
    <3> QED
      BY <1>2, <2>0, <3>1 DEF OnePerId
  <2> QED
    BY <1>3, <2>1, <2>2, <2>3, <2>4 DEF NodeStep
<1> QED
  BY <1>1, <1>3 DEF AloneNext, Tick, vars, sharedVars

\* The sets stand for maps keyed by ban_id: no step leaves two entries with
\* one id in the desired or the applied set.
THEOREM OneEntryPerIdHolds == AloneSpec => []OneEntryPerId
<1>1. AloneInit => OneEntryPerId
  BY DEF AloneInit, Init, OneEntryPerId, OnePerId
<1> QED
  BY <1>1, InitType, StepType, OneEntryStep, PTL DEF AloneSpec

\* All of it: under any event stream the enforcer's tasks keep their types, an
\* entry per id and the applied set in step with the desired one.
THEOREM EnforcerInvHolds == AloneSpec => []EnforcerInv
<1>1. TypeOK /\ OneEntryPerId /\ AppliedFollowsDesired => EnforcerInv
  BY DEF EnforcerInv
<1> QED
  BY <1>1, TypeCorrect, OneEntryPerIdHolds, AppliedFollowsDesiredHolds, PTL

-----------------------------------------------------------------------------
(* The status reporter.                                                     *)

\* A kick is in the channel, or the poller is about to send one.
KickToCome == kicks > 0 \/ dns_changed

Coherent(s) ==
    /\ s.backend_attached = (s.enforcement_mode = "enforcing")
    /\ s.dns_enabled = s.backend_attached
    /\ s.dns_enabled => s.dns_last_error = NoStatus

\* What the reporter compares or has compared is the present status, unless a
\* kick for the change is still to come: the strengthening that makes
\* ComparedIsCurrent inductive.
ChangeLeavesKick ==
    fails = 0 =>
        /\ phase = "wait" => last_sent = status \/ KickToCome
        /\ phase # "wait" => snapshot = status \/ KickToCome

ReporterIInv ==
    /\ ReporterTypeOK
    /\ \A s \in {status, payload, recorded} \ {NoStatus} : Coherent(s)
    /\ ChangeLeavesKick

LEMMA PolledCoherent ==
    ASSUME NEW enabled \in BOOLEAN, NEW err \in Errors \cup {NoStatus}, PollDns(enabled, err)
    PROVE  /\ status' \in Status
           /\ Coherent(status')
           /\ status' # status => dns_changed'
<1>1. status' = [dns_enabled |-> enabled, dns_last_error |-> err,
                 enforcement_mode |-> IF enabled THEN "enforcing" ELSE "fail_open",
                 backend_attached |-> enabled]
      /\ (enabled => err = NoStatus)
  BY DEF PollDns
<1>2. status' \in Status
  BY <1>1 DEF Status
<1>3. Coherent(status')
  BY <1>1 DEF Coherent
<1>4. status' # status => dns_changed'
  BY DEF PollDns
<1> QED
  BY <1>2, <1>3, <1>4

LEMMA ReporterTypeStep == ReporterTypeOK /\ [ReporterNext]_reporterVars => ReporterTypeOK'
<1> SUFFICES ASSUME ReporterTypeOK, [ReporterNext]_reporterVars PROVE ReporterTypeOK'
  OBVIOUS
<1>0. KickCap \in Nat /\ MaxFails \in Nat /\ kicks \in 0..KickCap /\ fails \in 0..MaxFails
  BY ReporterAssumption DEF ReporterTypeOK
<1> USE DEF ReporterTypeOK
<1>1. ASSUME NEW enabled \in BOOLEAN, NEW err \in Errors \cup {NoStatus}, PollDns(enabled, err)
      PROVE  ReporterTypeOK'
  <2>1. status' \in Status
    BY <1>1, PolledCoherent
  <2> QED
    BY <1>1, <2>1 DEF PollDns
<1>2. CASE KickFromDns \/ KickFromEvents
  <2>1. kicks' \in 0..KickCap
    BY <1>0, <1>2 DEF KickFromDns, KickFromEvents
  <2> QED
    BY <1>2, <2>1 DEF KickFromDns, KickFromEvents
<1>3. CASE TakeSnapshot
  <2>1. kicks' \in 0..KickCap
    BY <1>0, <1>3 DEF TakeSnapshot
  <2> QED
    BY <1>3, <2>1 DEF TakeSnapshot
<1>4. CASE ReadStatus
  BY <1>4 DEF ReadStatus
<1>5. CASE StatusSent
  BY <1>5 DEF StatusSent
<1>6. CASE StatusSendFails
  <2>1. fails' \in 0..MaxFails
    BY <1>0, <1>6 DEF StatusSendFails
  <2> QED
    BY <1>6, <2>1 DEF StatusSendFails
<1>7. CASE UNCHANGED reporterVars
  BY <1>7 DEF reporterVars
<1> QED
  BY <1>1, <1>2, <1>3, <1>4, <1>5, <1>6, <1>7 DEF ReporterNext

\* A report is built from one locked read, so it mixes no two states.
LEMMA CoherentStep ==
    ASSUME \A s \in {status, payload, recorded} \ {NoStatus} : Coherent(s), [ReporterNext]_reporterVars
    PROVE  \A s \in {status', payload', recorded'} \ {NoStatus} : Coherent(s)
<1>1. ASSUME NEW enabled \in BOOLEAN, NEW err \in Errors \cup {NoStatus}, PollDns(enabled, err)
      PROVE  Coherent(status') /\ UNCHANGED <<payload, recorded>>
  BY <1>1, PolledCoherent DEF PollDns
<1>2. CASE \/ KickFromDns \/ KickFromEvents \/ TakeSnapshot \/ ReadStatus \/ StatusSent \/ StatusSendFails
           \/ UNCHANGED reporterVars
  BY <1>2 DEF KickFromDns, KickFromEvents, TakeSnapshot, ReadStatus, StatusSent, StatusSendFails, reporterVars
<1> QED
  BY <1>1, <1>2 DEF ReporterNext

LEMMA KickStep ==
    ASSUME ReporterTypeOK, ChangeLeavesKick, [ReporterNext]_reporterVars
    PROVE  ChangeLeavesKick'
<1>0. kicks \in Nat /\ fails \in Nat
  BY DEF ReporterTypeOK
<1> USE DEF ChangeLeavesKick, KickToCome
<1>1. ASSUME NEW enabled \in BOOLEAN, NEW err \in Errors \cup {NoStatus}, PollDns(enabled, err)
      PROVE  ChangeLeavesKick'
  BY <1>1, PolledCoherent DEF PollDns
<1>2. CASE KickFromDns \/ KickFromEvents
  BY <1>0, <1>2 DEF KickFromDns, KickFromEvents
<1>3. CASE TakeSnapshot
  BY <1>3 DEF TakeSnapshot
<1>4. CASE ReadStatus \/ StatusSent
  BY <1>4 DEF ReadStatus, StatusSent
<1>5. CASE StatusSendFails
  BY <1>0, <1>5 DEF StatusSendFails
<1>6. CASE UNCHANGED reporterVars
  BY <1>6 DEF reporterVars
<1> QED
  BY <1>1, <1>2, <1>3, <1>4, <1>5, <1>6 DEF ReporterNext

LEMMA ReporterInvInit == ReporterInit => ReporterIInv
<1> SUFFICES ASSUME ReporterInit PROVE ReporterIInv
  OBVIOUS
<1>1. StartupStatus \in Status /\ Coherent(StartupStatus)
  BY DEF StartupStatus, Status, Coherent
<1>2. ReporterTypeOK
  <2>1. 1 \in 0..KickCap /\ 0 \in 0..MaxFails
    BY ReporterAssumption
  <2> QED
    BY <1>1, <2>1 DEF ReporterInit, ReporterTypeOK
<1> QED
  BY <1>1, <1>2 DEF ReporterInit, ReporterIInv, ChangeLeavesKick, KickToCome

LEMMA ReporterStep == ReporterIInv /\ [ReporterNext]_reporterVars => ReporterIInv'
<1> SUFFICES ASSUME ReporterIInv, [ReporterNext]_reporterVars PROVE ReporterIInv'
  OBVIOUS
<1>1. ReporterTypeOK' /\ ChangeLeavesKick'
  BY ReporterTypeStep, KickStep DEF ReporterIInv
<1>2. \A s \in {status', payload', recorded'} \ {NoStatus} : Coherent(s)
  BY CoherentStep DEF ReporterIInv
<1> QED
  BY <1>1, <1>2 DEF ReporterIInv, Coherent

\* The reporter compares under one lock and reads what it sends under another,
\* and its kicks go through a bounded channel: no change is lost and no report
\* mixes two states, for any number of changes, kicks and failed requests.
THEOREM ReporterInvHolds == ReporterSpec => []ReporterInv
<1>1. ReporterIInv => ReporterInv
  BY DEF ReporterIInv, ReporterInv, ReportsCoherent, Coherent, ComparedIsCurrent, NothingPending, ReporterTypeOK,
     ChangeLeavesKick, KickToCome
<1> QED
  BY <1>1, ReporterInvInit, ReporterStep, PTL DEF ReporterSpec

-----------------------------------------------------------------------------
(* The decider.                                                             *)

\* The strengthening: what was seen is finite, so a poll's answer is a list.
DeciderIInv == DeciderInv /\ IsFiniteSet(seen)

LEMMA PollList ==
    ASSUME DeciderIInv, NEW S \in SUBSET seen, NEW order \in SetToSeqs(S),
           NEW list, list = [i \in DOMAIN order |-> [key |-> order[i], value |-> bytes_in[order[i]]]],
           IsTop(list)
    PROVE  /\ list \in Seq(Item) /\ Len(list) <= TopN
           /\ \A i \in DOMAIN list : list[i].value <= bytes_in[list[i].key]
<1>1. IsFiniteSet(S) /\ seen \subseteq Sources
  BY FS_Subset DEF DeciderIInv, DeciderInv, DeciderTypeOK
<1>2. Cardinality(S) \in Nat
  BY <1>1, FS_CardinalityType
<1>3. DOMAIN order = 1..Cardinality(S) /\ \A i \in DOMAIN order : order[i] \in Sources
  BY <1>1 DEF SetToSeqs
<1>4. \A s \in Sources : bytes_in[s] \in 0..MaxCount
  BY DEF DeciderIInv, DeciderInv, DeciderTypeOK
<1>5. \A i \in 1..Cardinality(S) : [key |-> order[i], value |-> bytes_in[order[i]]] \in Item
  BY <1>3, <1>4 DEF Item
<1>6. list \in Seq(Item) /\ Len(list) = Cardinality(S)
  BY <1>2, <1>3, <1>5
<1>7. \A s \in Sources : bytes_in[s] <= bytes_in[s]
  BY <1>4, DeciderAssumption
<1>8. \A i \in DOMAIN list : list[i].value <= bytes_in[list[i].key]
  BY <1>3, <1>7
<1>9. Len(list) <= TopN
  <2>1. Cardinality(seen) \in Nat /\ TopN \in Nat
    BY FS_CardinalityType, DeciderAssumption DEF DeciderIInv
  <2> QED
    BY <2>1 DEF IsTop
<1> QED
  BY <1>6, <1>8, <1>9

\* The loop looks at the items of its answer one by one.
LEMMA ItemTaken ==
    ASSUME DeciderInv, todo # <<>>
    PROVE  /\ Head(todo) \in Item
           /\ Tail(todo) \in Seq(Item) /\ Len(Tail(todo)) <= TopN
           /\ Head(todo).value <= bytes_in[Head(todo).key]
           /\ \A i \in DOMAIN Tail(todo) : Tail(todo)[i].value <= bytes_in[Tail(todo)[i].key]
<1>1. todo \in Seq(Item) /\ Len(todo) <= TopN /\ TopN \in Nat
  BY DeciderAssumption DEF DeciderInv, DeciderTypeOK
<1>2. /\ Head(todo) = todo[1] /\ 1 \in DOMAIN todo
      /\ Tail(todo) \in Seq(Item) /\ Len(Tail(todo)) = Len(todo) - 1
      /\ \A i \in DOMAIN Tail(todo) : i + 1 \in DOMAIN todo /\ Tail(todo)[i] = todo[i + 1]
  BY <1>1
<1>3. todo[1] \in Item
  BY <1>1, <1>2
<1>4. Len(Tail(todo)) <= TopN
  BY <1>1, <1>2
<1>5. \A i \in DOMAIN todo : todo[i].value <= bytes_in[todo[i].key]
  BY DEF DeciderInv, BannedAreOver
<1> QED
  BY <1>2, <1>3, <1>4, <1>5

LEMMA CountStep ==
    ASSUME DeciderIInv, NEW s \in Sources, NEW val \in 0..2, Count(s, val)
    PROVE  DeciderIInv'
<1>1. MaxCount \in Nat /\ Threshold \in Nat /\ bytes_in \in [Sources -> 0..MaxCount]
  BY DeciderAssumption DEF DeciderIInv, DeciderInv, DeciderTypeOK
<1>2. /\ bytes_in' \in [Sources -> 0..MaxCount]
      /\ \A x \in Sources : bytes_in[x] <= bytes_in'[x]
  BY <1>1 DEF Count
<1>3. /\ UNCHANGED <<clock, todo, banned, expires, accepted>>
      /\ seen' = seen \cup {s} /\ IsFiniteSet(seen')
  BY FS_AddElement DEF Count, DeciderIInv
<1>4. DeciderTypeOK'
  BY <1>2, <1>3 DEF DeciderIInv, DeciderInv, DeciderTypeOK
<1>5. BannedAreOver'
  <2>1. ASSUME NEW i \in DOMAIN todo PROVE todo[i].value <= bytes_in'[todo[i].key]
    <3>1. todo[i] \in Item /\ todo[i].value <= bytes_in[todo[i].key]
      BY DEF DeciderIInv, DeciderInv, DeciderTypeOK, BannedAreOver
    <3>2. todo[i].key \in Sources /\ todo[i].value \in 0..MaxCount
      BY <3>1 DEF Item
    <3> QED
      BY <1>1, <1>2, <3>1, <3>2
  <2>2. ASSUME NEW x \in banned PROVE bytes_in'[x] >= Threshold /\ x \notin ExemptSources \cup NotIps
    <3>1. x \in Sources /\ bytes_in[x] >= Threshold /\ x \notin ExemptSources \cup NotIps
      BY DEF DeciderIInv, DeciderInv, DeciderTypeOK, BannedAreOver
    <3> QED
      BY <1>1, <1>2, <3>1
  <2> QED
    BY <1>3, <2>1, <2>2 DEF BannedAreOver
<1>6. BannedOnce'
  BY <1>3 DEF DeciderIInv, DeciderInv, BannedOnce
<1> QED
  BY <1>3, <1>4, <1>5, <1>6 DEF DeciderIInv, DeciderInv

LEMMA AcceptStep == DeciderIInv /\ BanAccepted => DeciderIInv'
<1> SUFFICES ASSUME DeciderIInv, BanAccepted PROVE DeciderIInv'
  OBVIOUS
<1> DEFINE s == Head(todo).key
<1>1. /\ Head(todo) \in Item /\ Head(todo).value <= bytes_in[s]
      /\ Tail(todo) \in Seq(Item) /\ Len(Tail(todo)) <= TopN
      /\ \A i \in DOMAIN Tail(todo) : Tail(todo)[i].value <= bytes_in[Tail(todo)[i].key]
  BY ItemTaken DEF BanAccepted, DeciderIInv
<1>2. s \in Sources /\ Head(todo).value \in Nat /\ ~(Head(todo).value < Threshold)
      /\ s \notin banned \cup NotIps \cup ExemptSources
  BY <1>1 DEF Item, BanAccepted, Ignored
<1>3. /\ banned' = banned \cup {s} /\ todo' = Tail(todo)
      /\ expires' = [expires EXCEPT ![s] = clock + Ttl]
      /\ accepted' = [accepted EXCEPT ![s] = @ + 1]
      /\ UNCHANGED <<clock, bytes_in, seen>>
  BY DEF BanAccepted
<1>4. /\ DeciderTypeOK /\ BannedAreOver /\ BannedOnce /\ IsFiniteSet(seen)
      /\ bytes_in[s] \in Nat /\ Threshold \in Nat /\ clock \in 1..MaxClock /\ Ttl \in Nat /\ MaxClock \in Nat
  BY <1>2, DeciderAssumption DEF DeciderIInv, DeciderInv, DeciderTypeOK
<1> HIDE DEF s
<1>5. DeciderTypeOK'
  <2>1. clock + Ttl \in 0..(MaxClock + Ttl)
    BY <1>4
  <2>2. expires' \in [Sources -> 0..(MaxClock + Ttl)]
    BY <1>3, <1>4, <2>1 DEF DeciderTypeOK
  <2>3. accepted' \in [Sources -> Nat]
    BY <1>2, <1>3, <1>4 DEF DeciderTypeOK
  <2> QED
    BY <1>1, <1>2, <1>3, <1>4, <2>2, <2>3 DEF DeciderTypeOK
<1>6. BannedAreOver'
  <2>1. bytes_in[s] >= Threshold
    BY <1>1, <1>2, <1>4
  <2> QED
    BY <1>1, <1>2, <1>3, <1>4, <2>1 DEF BannedAreOver
<1>7. BannedOnce'
  BY <1>2, <1>3, <1>4 DEF BannedOnce, DeciderTypeOK
<1> QED
  BY <1>3, <1>4, <1>5, <1>6, <1>7 DEF DeciderIInv, DeciderInv

LEMMA DeciderStep == DeciderIInv /\ [DeciderNext]_deciderVars => DeciderIInv'
<1> SUFFICES ASSUME DeciderIInv, [DeciderNext]_deciderVars PROVE DeciderIInv'
  OBVIOUS
<1>1. ASSUME NEW s \in Sources, NEW val \in 0..2, Count(s, val) PROVE DeciderIInv'
  BY <1>1, CountStep
<1>2. ASSUME todo' \in Seq(Item), Len(todo') <= TopN,
             \A i \in DOMAIN todo' : todo'[i].value <= bytes_in[todo'[i].key],
             UNCHANGED <<clock, bytes_in, seen, banned, expires, accepted>>
      PROVE  DeciderIInv'
  BY <1>2 DEF DeciderIInv, DeciderInv, DeciderTypeOK, BannedAreOver, BannedOnce
<1>3. CASE Poll
  BY <1>2, <1>3, PollList DEF Poll
<1>4. CASE Skip \/ BanFailed
  BY <1>2, <1>4, ItemTaken DEF Skip, BanFailed, DeciderIInv
<1>5. CASE BanAccepted
  BY <1>5, AcceptStep
<1>6. CASE ClockTicks
  <2>1. clock' \in 1..MaxClock
    BY <1>6, DeciderAssumption DEF ClockTicks, DeciderIInv, DeciderInv, DeciderTypeOK
  <2>2. expires' \in [Sources -> 0..(MaxClock + Ttl)] /\ \A s \in Sources : expires'[s] # 0 => expires[s] # 0
    BY <1>6, DeciderAssumption DEF ClockTicks, DeciderIInv, DeciderInv, DeciderTypeOK
  <2> QED
    BY <1>6, <2>1, <2>2 DEF ClockTicks, DeciderIInv, DeciderInv, DeciderTypeOK, BannedAreOver, BannedOnce
<1>7. CASE UNCHANGED deciderVars
  BY <1>7 DEF deciderVars, DeciderIInv, DeciderInv, DeciderTypeOK, BannedAreOver, BannedOnce
<1> QED
  BY <1>1, <1>3, <1>4, <1>5, <1>6, <1>7 DEF DeciderNext

\* The decider acts on an answer that is out of date when it acts: it bans only
\* sources that are over the threshold, and none twice in its life.
THEOREM DeciderInvHolds == DeciderSpec => []DeciderInv
<1>1. DeciderInit => DeciderIInv
  BY DeciderAssumption, FS_EmptySet DEF DeciderInit, DeciderIInv, DeciderInv, DeciderTypeOK, BannedAreOver, BannedOnce
<1>2. DeciderIInv => DeciderInv
  BY DEF DeciderIInv
<1> QED
  BY <1>1, <1>2, DeciderStep, PTL DEF DeciderSpec

-----------------------------------------------------------------------------
(* The prefixes.  An address is followed by its leading bits read as one    *)
(* number (Lead): bit by bit agreement is equality of these numbers         *)
(* (LeadOfBits, by induction on the length), and masking multiplies them    *)
(* back (MaskedIs).  A prefix shorter than its addresses has members that   *)
(* differ in the next bit (MembersSplit), so inclusion orders the lengths.  *)

\* The recursion has a solution, so TwoTo is what its definition says.
LEMMA TwoToDefined == TwoTo = [n \in Nat |-> IF n = 0 THEN 1 ELSE 2 * TwoTo[n - 1]]
<1> DEFINE Doubles(f, n) == f \in [0..n -> Nat] /\ f[0] = 1 /\ \A i \in 1..n : f[i] = 2 * f[i - 1]
           F == [n \in Nat |-> CHOOSE f : Doubles(f, n)]
           g == [n \in Nat |-> F[n][n]]
<1>1. ASSUME NEW n \in Nat PROVE Doubles(F[n], n)
  <2> DEFINE step == [i \in 1..n |-> [x \in Nat |-> 2 * x]]
  <2>1. Steps(step, n, Nat)
    BY DEF Steps
  <2>2. PICK f : Iterates(f, step, n, Nat, 1)
    <3> HIDE DEF step
    <3> QED BY <2>1, IteratesExist
  <2>3. f \in [0..n -> Nat] /\ f[0] = 1
    BY <2>2 DEF Iterates
  <2>4. ASSUME NEW i \in 1..n PROVE f[i] = 2 * f[i - 1]
    <3>1. f[i] = step[i][f[i - 1]]
      BY <2>2, Zenon DEF Iterates
    <3>2. f[i - 1] \in Nat
      BY <2>3
    <3> QED BY <3>1, <3>2
  <2>5. Doubles(f, n)
    BY <2>3, <2>4
  <2> HIDE DEF Doubles
  <2> QED BY <2>5
<1> HIDE DEF F
<1>2. ASSUME NEW n \in Nat PROVE F[n + 1][n] = F[n][n]
  <2> DEFINE a == F[n + 1]
             b == F[n]
  <2>1. Doubles(F[n + 1], n + 1) /\ Doubles(F[n], n)
    <3>1. n + 1 \in Nat
      OBVIOUS
    <3> HIDE DEF Doubles
    <3> QED BY <1>1, <3>1, Zenon
  <2>2. Doubles(a, n + 1) /\ Doubles(b, n)
    BY <2>1
  <2> HIDE DEF a, b
  <2>3. StayEqual(a, b, n) /\ a[0] = b[0]
    BY <2>2 DEF StayEqual
  <2>4. a[n] = b[n]
    BY <2>3, IteratesAgree
  <2> QED BY <2>4 DEF a, b
<1>3. ASSUME NEW n \in Nat PROVE g[n] = IF n = 0 THEN 1 ELSE 2 * g[n - 1]
  <2>1. CASE n = 0
    BY <2>1, <1>1
  <2>2. CASE n # 0
    <3>1. n - 1 \in Nat /\ (n - 1) + 1 = n /\ n \in 1..n
      BY <2>2
    <3>2. F[n][n] = 2 * F[n][n - 1]
      BY <1>1, <3>1
    <3>3. F[n][n - 1] = F[n - 1][n - 1]
      BY <1>2, <3>1
    <3> QED BY <2>2, <3>1, <3>2, <3>3
  <2> QED BY <2>1, <2>2
<1>4. g = [n \in Nat |-> g[n]]
  OBVIOUS
<1> HIDE DEF g
<1>5. g = [n \in Nat |-> IF n = 0 THEN 1 ELSE 2 * g[n - 1]]
  BY <1>3, <1>4, Zenon
<1> QED BY <1>5 DEF TwoTo

LEMMA TwoToStep ==
    /\ TwoTo[0] = 1
    /\ \A n \in Nat : TwoTo[n + 1] = 2 * TwoTo[n]
BY TwoToDefined

LEMMA TwoToPositive == \A n \in Nat : TwoTo[n] \in Nat \ {0}
<1> DEFINE T == {n \in Nat : TwoTo[n] \in Nat \ {0}}
<1>1. 0 \in T /\ \A n \in Nat : n \in T => n + 1 \in T
  BY TwoToStep
<1> HIDE DEF T
<1>2. Nat \subseteq T
  BY <1>1, Induction
<1> QED BY <1>2 DEF T

\* A shift by m + n is a shift by n of a shift by m.
LEMMA TwoToSum == \A m, n \in Nat : TwoTo[m + n] = TwoTo[m] * TwoTo[n]
<1> SUFFICES ASSUME NEW m \in Nat PROVE \A n \in Nat : TwoTo[m + n] = TwoTo[m] * TwoTo[n]
  OBVIOUS
<1> DEFINE T == {n \in Nat : TwoTo[m + n] = TwoTo[m] * TwoTo[n]}
<1>1. 0 \in T
  BY TwoToStep, TwoToPositive
<1>2. ASSUME NEW n \in Nat, n \in T PROVE n + 1 \in T
  <2>1. m + (n + 1) = (m + n) + 1 /\ m + n \in Nat
    OBVIOUS
  <2>2. TwoTo[m + (n + 1)] = 2 * TwoTo[m + n] /\ TwoTo[n + 1] = 2 * TwoTo[n]
    BY <2>1, TwoToStep
  <2>3. TwoTo[m] \in Nat /\ TwoTo[n] \in Nat /\ TwoTo[m + n] = TwoTo[m] * TwoTo[n]
    BY <1>2, TwoToPositive
  <2>4. \A x, y \in Nat : 2 * (x * y) = x * (2 * y)
    OBVIOUS
  <2>5. TwoTo[m + (n + 1)] = TwoTo[m] * TwoTo[n + 1]
    BY <2>2, <2>3, <2>4
  <2> QED BY <2>5
<1> HIDE DEF T
<1>3. Nat \subseteq T
  BY <1>1, <1>2, Induction
<1> QED BY <1>3 DEF T

\* Quotient and remainder; dividing a multiple of b plus less than b; halving a
\* quotient; a number from its half and its parity.
LEMMA Division ==
    ASSUME NEW a \in Nat, NEW b \in Nat \ {0}
    PROVE  /\ a \div b \in Nat
           /\ a % b \in 0..b - 1
           /\ a = b * (a \div b) + (a % b)
OBVIOUS

LEMMA Quotient ==
    ASSUME NEW x \in Nat, NEW b \in Nat \ {0}, NEW r \in 0..b - 1
    PROVE  (b * x + r) \div b = x
OBVIOUS

LEMMA HalfOfQuotient ==
    ASSUME NEW a \in Nat, NEW b \in Nat \ {0}
    PROVE  (a \div b) \div 2 = a \div (2 * b)
<1> DEFINE x == a \div b
           y == x \div 2
           r == a % b
           e == x % 2
<1>1. x \in Nat /\ r \in 0..b - 1 /\ a = b * x + r
  BY Division
<1>2. y \in Nat /\ e \in 0..1 /\ x = 2 * y + e
  BY <1>1
<1> HIDE DEF x, y, r, e
<1>3. b * x = b * (2 * y) + b * e
  BY <1>1, <1>2
<1>4. b * (2 * y) = (2 * b) * y
  BY <1>2
<1>5. b * e + r \in 0..2 * b - 1
  <2>1. b * e = 0 \/ b * e = b
    BY <1>2
  <2> QED BY <2>1, <1>1
<1>6. a = (2 * b) * y + (b * e + r)
  BY <1>1, <1>3, <1>4, <1>5, <1>2
<1>7. a \div (2 * b) = y
  <2> DEFINE c == 2 * b
             s == b * e + r
  <2>1. c \in Nat \ {0} /\ s \in 0..c - 1 /\ a = c * y + s
    BY <1>5, <1>6
  <2> HIDE DEF c, s
  <2>2. a \div c = y
    BY <2>1, <1>2, Quotient
  <2> QED BY <2>2 DEF c
<1> QED BY <1>7 DEF x, y

LEMMA HalvesAndParity ==
    ASSUME NEW x \in Nat, NEW y \in Nat
    PROVE  x = y <=> x \div 2 = y \div 2 /\ x % 2 = y % 2
OBVIOUS
-----------------------------------------------------------------------------
\* What New makes: the address masked to its length.
MadeByNew(x) ==
    /\ x = [addr |-> x.addr, prefix_len |-> x.prefix_len]
    /\ x.addr \in Addresses
    /\ x.prefix_len \in 0..Width[x.addr.family]
    /\ \E k \in Nat : /\ k < TwoTo[x.prefix_len]
                      /\ x.addr.bits = k * TwoTo[Width[x.addr.family] - x.prefix_len]

\* Two addresses have the same leading bits.
SameBits(a, b, n) == \A i \in 1..n : LeadingBit(a, i) = LeadingBit(b, i)

\* The leading n bits of an address, as a number.
Lead(a, n) == a.bits \div TwoTo[Width[a.family] - n]

\* The parts of an address, and an address from its parts.
LEMMA AddressShape ==
    \A a \in Addresses :
        /\ a = [family |-> a.family, bits |-> a.bits]
        /\ a.family \in Families
        /\ Width[a.family] \in Nat \ {0}
        /\ a.bits \in 0..TwoTo[Width[a.family]] - 1
BY WidthAssumption DEF Addresses, Families

LEMMA AddressMade ==
    \A f \in Families : \A b \in 0..TwoTo[Width[f]] - 1 :
        [family |-> f, bits |-> b] \in Addresses
BY DEF Addresses

\* The leading bits agree one by one when they agree as numbers.
LEMMA LeadOfBits ==
    ASSUME NEW a \in Addresses, NEW b \in Addresses, a.family = b.family,
           NEW n \in 0..Width[a.family]
    PROVE  SameBits(a, b, n) <=> Lead(a, n) = Lead(b, n)
<1> DEFINE w == Width[a.family]
           x == a.bits
           y == b.bits
<1>1. w \in Nat /\ x \in 0..TwoTo[w] - 1 /\ y \in 0..TwoTo[w] - 1
  BY AddressShape
<1>2. \A i \in 0..w : Lead(a, i) = x \div TwoTo[w - i] /\ Lead(b, i) = y \div TwoTo[w - i]
  BY DEF Lead
<1>3. \A i \in 1..w : LeadingBit(a, i) = Lead(a, i) % 2 /\ LeadingBit(b, i) = Lead(b, i) % 2
  BY DEF LeadingBit, Lead
<1> HIDE DEF w, x, y
<1> DEFINE T == {i \in 0..w : SameBits(a, b, i) <=> Lead(a, i) = Lead(b, i)}
<1>4. 0 \in T
  <2>1. Lead(a, 0) = 0 /\ Lead(b, 0) = 0
    <3>1. w - 0 = w /\ 0 \in 0..w
      BY <1>1
    <3>2. TwoTo[w] \in Nat \ {0}
      BY <1>1, TwoToPositive
    <3>3. \A m \in Nat \ {0} : \A r \in 0..m - 1 : r \div m = 0
      OBVIOUS
    <3>4. x \div TwoTo[w] = 0 /\ y \div TwoTo[w] = 0
      BY <1>1, <3>2, <3>3
    <3> QED BY <1>2, <3>1, <3>4
  <2>2. SameBits(a, b, 0)
    BY DEF SameBits
  <2>3. 0 \in 0..w
    BY <1>1
  <2> QED BY <2>1, <2>2, <2>3
<1>5. ASSUME NEW i \in 0..w - 1, i \in T PROVE i + 1 \in T
  <2>1. i \in 0..w /\ i + 1 \in 1..w /\ i + 1 \in 0..w /\ w - (i + 1) \in Nat /\ w - i = (w - (i + 1)) + 1
    BY <1>1
  <2> DEFINE c == TwoTo[w - (i + 1)]
             s == Lead(a, i + 1)
             t == Lead(b, i + 1)
  <2>2. c \in Nat \ {0} /\ TwoTo[w - i] = 2 * c
    BY <2>1, TwoToStep, TwoToPositive
  <2>3. s = x \div c /\ t = y \div c
    BY <1>2, <2>1
  <2>4. Lead(a, i) = x \div (2 * c) /\ Lead(b, i) = y \div (2 * c)
    BY <1>2, <2>1, <2>2
  <2>5. x \in Nat /\ y \in Nat
    <3>1. TwoTo[w] \in Nat
      BY <1>1, TwoToPositive
    <3> QED BY <1>1, <3>1
  <2>6. SameBits(a, b, i + 1) <=> SameBits(a, b, i) /\ LeadingBit(a, i + 1) = LeadingBit(b, i + 1)
    <3>1. 1..i + 1 = (1..i) \cup {i + 1}
      BY <2>1
    <3> QED BY <3>1, Zenon DEF SameBits
  <2>7. LeadingBit(a, i + 1) = s % 2 /\ LeadingBit(b, i + 1) = t % 2
    BY <1>3, <2>1
  <2> HIDE DEF c, s, t
  <2>8. s \in Nat /\ t \in Nat
    BY <2>2, <2>3, <2>5, Division
  <2>9. s \div 2 = Lead(a, i) /\ t \div 2 = Lead(b, i)
    BY <2>2, <2>3, <2>4, <2>5, HalfOfQuotient
  <2>10. s = t <=> Lead(a, i) = Lead(b, i) /\ s % 2 = t % 2
    BY <2>8, <2>9, HalvesAndParity
  <2>11. SameBits(a, b, i) <=> Lead(a, i) = Lead(b, i)
    BY <1>5
  <2>12. SameBits(a, b, i + 1) <=> s = t
    BY <2>6, <2>7, <2>10, <2>11
  <2> QED BY <2>1, <2>12 DEF s, t
<1> HIDE DEF T
<1>6. 0..w \subseteq T
  BY <1>1, <1>4, <1>5, InductionUpTo
<1> QED BY <1>6 DEF T, w

\* Masking keeps the leading bits and clears the others.
LEMMA MaskedIs ==
    ASSUME NEW a \in Addresses, NEW n \in 0..Width[a.family]
    PROVE  /\ Masked(a, n) = [family |-> a.family,
                              bits   |-> Lead(a, n) * TwoTo[Width[a.family] - n]]
           /\ Lead(a, n) \in Nat
           /\ Lead(a, n) < TwoTo[n]
           /\ Lead(a, n) * TwoTo[Width[a.family] - n] <= a.bits
<1> DEFINE w == Width[a.family]
           c == TwoTo[w - n]
           k == a.bits \div c
<1>1. w \in Nat /\ n \in Nat /\ w - n \in Nat /\ a.bits \in 0..TwoTo[w] - 1
  BY AddressShape
<1>2. c \in Nat \ {0} /\ TwoTo[n] \in Nat \ {0} /\ TwoTo[w] \in Nat \ {0}
  BY <1>1, TwoToPositive
<1>3. TwoTo[w] = TwoTo[n] * c
  <2>1. n + (w - n) = w
    BY <1>1
  <2> QED BY <1>1, <2>1, TwoToSum
<1>4. Lead(a, n) = k
  BY DEF Lead
<1>5. Masked(a, n) = [a EXCEPT !.bits = IF n = 0 THEN 0 ELSE (a.bits \div c) * c]
  BY DEF Masked
<1>6. a = [family |-> a.family, bits |-> a.bits]
  BY AddressShape
<1>7. a.bits \in Nat
  BY <1>1, <1>2
<1>8. n = 0 => w - n = w
  BY <1>1
<1>9. n = 0 => c = TwoTo[w]
  BY <1>8
<1>10. k \in Nat /\ a.bits % c \in 0..c - 1 /\ a.bits = c * k + (a.bits % c)
  <2> HIDE DEF c
  <2> QED BY <1>2, <1>7, Division
<1>11. n = 0 => k = 0
  <2>1. \A m \in Nat \ {0} : \A r \in 0..m - 1 : r \div m = 0
    OBVIOUS
  <2> HIDE DEF c
  <2> QED BY <1>1, <1>2, <1>9, <2>1
<1> HIDE DEF w, c, k
<1>12. c * k = k * c /\ k * c \in Nat
  BY <1>2, <1>10
<1>13. k * c <= a.bits
  BY <1>2, <1>7, <1>10, <1>12
<1>14. k < TwoTo[n]
  <2>1. SUFFICES ASSUME TwoTo[n] <= k PROVE FALSE
    BY <1>2, <1>10
  <2>2. PICK d \in Nat : k = TwoTo[n] + d
    <3>1. k - TwoTo[n] \in Nat /\ k = TwoTo[n] + (k - TwoTo[n])
      BY <1>2, <1>10, <2>1
    <3> QED BY <3>1
  <2>3. k * c = TwoTo[n] * c + d * c /\ d * c \in Nat
    BY <1>2, <2>2
  <2> QED BY <1>1, <1>2, <1>3, <1>13, <2>3
<1>15. Masked(a, n) = [family |-> a.family, bits |-> k * c]
  <2>1. (IF n = 0 THEN 0 ELSE (a.bits \div c) * c) = k * c
    <3>1. CASE n = 0
      <4>1. k * c = 0
        BY <1>2, <1>11, <3>1
      <4> QED BY <3>1, <4>1
    <3>2. CASE n # 0
      BY <3>2 DEF k
    <3> QED BY <3>1, <3>2
  <2>2. Masked(a, n) = [a EXCEPT !.bits = k * c]
    BY <1>5, <2>1
  <2> QED BY <1>6, <2>2
<1> QED BY <1>4, <1>10, <1>13, <1>14, <1>15 DEF w, c

\* The mask is what New stores, and masking it again changes nothing.
LEMMA NewIs ==
    ASSUME NEW a \in Addresses, NEW n \in Nat, New(a, n) # BadPrefix
    PROVE  /\ MadeByNew(New(a, n))
           /\ n \in 0..Width[a.family]
<1>1. n \in 0..Width[a.family] /\ New(a, n) = [addr |-> Masked(a, n), prefix_len |-> n]
  BY AddressShape DEF New
<1> DEFINE w == Width[a.family]
           c == TwoTo[w - n]
           k == Lead(a, n)
           m == Masked(a, n)
<1>2. m = [family |-> a.family, bits |-> k * c] /\ k \in Nat /\ k < TwoTo[n] /\ k * c <= a.bits
  BY <1>1, MaskedIs
<1>3. a.family \in Families /\ a.bits \in 0..TwoTo[w] - 1 /\ w \in Nat
  BY AddressShape
<1>4. c \in Nat /\ TwoTo[w] \in Nat
  BY <1>1, <1>3, TwoToPositive
<1> HIDE DEF w, c, k, m
<1>5. k * c \in Nat
  BY <1>2, <1>4
<1>6. k * c \in 0..TwoTo[w] - 1
  BY <1>2, <1>3, <1>4, <1>5
<1>7. m \in Addresses
  BY <1>2, <1>3, <1>6, AddressMade DEF w
<1>8. m.family = a.family /\ m.bits = k * c
  BY <1>2
<1>9. New(a, n) = [addr |-> m, prefix_len |-> n]
  BY <1>1 DEF m
<1> QED BY <1>1, <1>2, <1>7, <1>8, <1>9 DEF MadeByNew, w, c

\* The leading bits of a prefix, and those of its address at other lengths.
LEMMA LeadOfPrefix ==
    ASSUME NEW x, MadeByNew(x)
    PROVE  /\ x.addr \in Addresses
           /\ x.prefix_len \in 0..Width[x.addr.family]
           /\ x.addr.bits = Lead(x.addr, x.prefix_len) * TwoTo[Width[x.addr.family] - x.prefix_len]
<1> DEFINE w == Width[x.addr.family]
           n == x.prefix_len
           c == TwoTo[w - n]
<1>1. PICK k \in Nat : x.addr.bits = k * c
  BY DEF MadeByNew
<1>2. x.addr \in Addresses /\ n \in 0..w
  BY DEF MadeByNew
<1>3. c \in Nat \ {0}
  BY <1>2, AddressShape, TwoToPositive
<1>4. Lead(x.addr, n) = (k * c) \div c
  BY <1>1 DEF Lead
<1> HIDE DEF w, n, c
<1>5. (c * k + 0) \div c = k
  BY <1>3, Quotient
<1>6. c * k + 0 = k * c
  BY <1>3
<1>7. Lead(x.addr, n) = k
  BY <1>4, <1>5, <1>6
<1> QED BY <1>1, <1>2, <1>7 DEF w, n, c

\* contains_ip is membership.
LEMMA ContainsIpIsMembership ==
    ASSUME NEW x, MadeByNew(x), NEW a \in Addresses
    PROVE  ContainsIp(x, a) <=> a \in Members(x)
<1> DEFINE n == x.prefix_len
           b == x.addr
           w == Width[b.family]
           c == TwoTo[w - n]
<1>1. b \in Addresses /\ n \in 0..w
  BY LeadOfPrefix
<1>2. SUFFICES ASSUME a.family = b.family
               PROVE  Masked(b, n) = Masked(a, n) <=> a \in Members(x)
  BY DEF ContainsIp, Members
<1>3. a \in Members(x) <=> SameBits(a, b, n)
  BY <1>2 DEF Members, SameBits
<1>4. Width[a.family] = w
  BY <1>2
<1>5. SameBits(a, b, n) <=> Lead(a, n) = Lead(b, n)
  BY <1>1, <1>2, <1>4, LeadOfBits
<1>6. Masked(b, n) = [family |-> b.family, bits |-> Lead(b, n) * c] /\ Lead(b, n) \in Nat
  BY <1>1, MaskedIs
<1>7. Masked(a, n) = [family |-> a.family, bits |-> Lead(a, n) * c] /\ Lead(a, n) \in Nat
  BY <1>1, <1>4, MaskedIs
<1>8. c \in Nat \ {0}
  BY <1>1, AddressShape, TwoToPositive
<1> HIDE DEF n, b, w, c
<1> DEFINE i == Lead(a, n)
           j == Lead(b, n)
<1>9. i * c = j * c => i = j
  <2>1. i \in Nat /\ j \in Nat
    BY <1>6, <1>7
  <2> HIDE DEF i, j
  <2>2. (c * i + 0) \div c = i /\ (c * j + 0) \div c = j
    BY <1>8, <2>1, Quotient
  <2>3. c * i + 0 = i * c /\ c * j + 0 = j * c
    BY <1>8, <2>1
  <2> QED BY <2>2, <2>3
<1>10. Masked(b, n) = Masked(a, n) <=> i * c = j * c
  <2> HIDE DEF i, j
  <2>1. Masked(b, n) = [family |-> b.family, bits |-> j * c] /\ Masked(a, n) = [family |-> b.family, bits |-> i * c]
    BY <1>2, <1>6, <1>7 DEF i, j
  <2> QED BY <2>1
<1> HIDE DEF i, j
<1>11. Masked(b, n) = Masked(a, n) <=> i = j
  BY <1>9, <1>10
<1> QED BY <1>3, <1>5, <1>11 DEF i, j

\* The address of a prefix is one of its members.
LEMMA OwnMember == ASSUME NEW x, MadeByNew(x) PROVE x.addr \in Members(x)
BY DEF MadeByNew, Members

\* A prefix shorter than the addresses has two members that differ in the next bit.
LEMMA MembersSplit ==
    ASSUME NEW x, MadeByNew(x), x.prefix_len < Width[x.addr.family]
    PROVE  \E a \in Members(x) :
              LeadingBit(a, x.prefix_len + 1) # LeadingBit(x.addr, x.prefix_len + 1)
<1> DEFINE n == x.prefix_len
           b == x.addr
           f == b.family
           w == Width[f]
           h == TwoTo[w - (n + 1)]
           k == Lead(b, n)
           a == [family |-> f, bits |-> b.bits + h]
<1>1. b \in Addresses /\ n \in 0..w /\ n < w /\ w \in Nat /\ f \in Families
  BY LeadOfPrefix, AddressShape
<1>2. w - (n + 1) \in Nat /\ w - n = (w - (n + 1)) + 1 /\ w - n \in Nat /\ n + 1 \in 1..w /\ n + (w - n) = w
  BY <1>1
<1>3. h \in Nat \ {0} /\ TwoTo[w - n] = 2 * h /\ TwoTo[w] = TwoTo[n] * TwoTo[w - n]
  <2> HIDE DEF n, w
  <2>1. n \in Nat
    BY <1>1
  <2>2. TwoTo[w - (n + 1)] \in Nat \ {0} /\ TwoTo[w - n] = 2 * TwoTo[w - (n + 1)]
    BY <1>2, TwoToStep, TwoToPositive
  <2>3. TwoTo[w] = TwoTo[n] * TwoTo[w - n]
    BY <1>2, <2>1, TwoToSum
  <2> QED BY <2>2, <2>3
<1>4. b.bits = k * TwoTo[w - n] /\ k \in Nat /\ k < TwoTo[n] /\ TwoTo[n] \in Nat
  BY <1>1, LeadOfPrefix, MaskedIs, TwoToPositive
<1>5. b.bits = k * (2 * h) /\ TwoTo[w] = TwoTo[n] * (2 * h)
  BY <1>3, <1>4
<1> HIDE DEF n, b, f, w, h, k
<1>6. a.family = f /\ a.bits = k * (2 * h) + h
  BY <1>5
<1>7. k * (2 * h) \in Nat /\ k * (2 * h) + h < TwoTo[w] /\ TwoTo[w] \in Nat
  <2>1. PICK d \in Nat : TwoTo[n] = k + 1 + d
    <3>1. TwoTo[n] - (k + 1) \in Nat /\ TwoTo[n] = k + 1 + (TwoTo[n] - (k + 1))
      BY <1>4
    <3> QED BY <3>1
  <2>2. TwoTo[w] = k * (2 * h) + 2 * h + d * (2 * h) /\ d * (2 * h) \in Nat /\ k * (2 * h) \in Nat
    BY <1>3, <1>4, <1>5, <2>1
  <2> QED BY <1>3, <2>2
<1>8. a \in Addresses
  <2>1. k * (2 * h) + h \in 0..TwoTo[w] - 1
    BY <1>3, <1>7
  <2> QED BY <1>1, <1>5, <2>1, AddressMade DEF w
<1>9. Lead(a, n) = k
  <2>1. Lead(a, n) = (k * (2 * h) + h) \div (2 * h)
    BY <1>3, <1>6 DEF Lead, w
  <2> DEFINE c == 2 * h
  <2>2. c \in Nat \ {0} /\ h \in 0..c - 1 /\ Lead(a, n) = (k * c + h) \div c
    BY <1>3, <2>1
  <2> HIDE DEF c, a
  <2>3. (c * k + h) \div c = k /\ c * k = k * c
    BY <1>4, <2>2, Quotient
  <2> QED BY <2>2, <2>3
<1>10. LeadingBit(a, n + 1) = 1 /\ LeadingBit(b, n + 1) = 0
  <2>1. LeadingBit(a, n + 1) = ((k * (2 * h) + h) \div h) % 2 /\ LeadingBit(b, n + 1) = ((k * (2 * h)) \div h) % 2
    BY <1>5, <1>6 DEF LeadingBit, w, h, f
  <2>2. k * (2 * h) + h = h * (2 * k + 1) + 0 /\ k * (2 * h) = h * (2 * k) + 0
    BY <1>3, <1>4
  <2>3. (h * (2 * k + 1) + 0) \div h = 2 * k + 1 /\ (h * (2 * k) + 0) \div h = 2 * k
    <3>1. 2 * k + 1 \in Nat /\ 2 * k \in Nat /\ 0 \in 0..h - 1
      BY <1>3, <1>4
    <3> QED BY <1>3, <3>1, Quotient
  <2>4. (2 * k + 1) % 2 = 1 /\ (2 * k) % 2 = 0
    BY <1>4
  <2> QED BY <2>1, <2>2, <2>3, <2>4
<1>11. a \in Members(x)
  <2>1. SameBits(a, b, n)
    <3>1. n \in 0..Width[a.family] /\ a.family = b.family
      BY <1>1, <1>6 DEF w, f
    <3> HIDE DEF a
    <3> QED BY <1>1, <1>8, <1>9, <3>1, LeadOfBits DEF k
  <2> HIDE DEF a
  <2> QED BY <1>6, <1>8, <2>1 DEF Members, SameBits, n, b, f
<1> QED BY <1>10, <1>11 DEF n, b

\* contains_prefix is inclusion.
LEMMA ContainsPrefixIsInclusion ==
    ASSUME NEW x, MadeByNew(x), NEW y, MadeByNew(y)
    PROVE  ContainsPrefix(x, y) <=> Members(y) \subseteq Members(x)
<1>1. x.addr \in Addresses /\ x.prefix_len \in 0..Width[x.addr.family]
  BY LeadOfPrefix
<1>2. y.addr \in Addresses /\ y.prefix_len \in 0..Width[y.addr.family]
  BY LeadOfPrefix
<1>w. Width[x.addr.family] \in Nat /\ Width[y.addr.family] \in Nat
  BY <1>1, <1>2, AddressShape
<1>3. ContainsIp(x, y.addr) <=> y.addr \in Members(x)
  BY <1>2, ContainsIpIsMembership
<1>4. ASSUME ContainsPrefix(x, y) PROVE Members(y) \subseteq Members(x)
  <2>1. x.prefix_len <= y.prefix_len /\ y.addr \in Members(x)
    BY <1>3, <1>4 DEF ContainsPrefix
  <2> SUFFICES ASSUME NEW a \in Members(y) PROVE a \in Members(x)
    OBVIOUS
  <2>2. a \in Addresses /\ a.family = x.addr.family
    BY <2>1 DEF Members
  <2>3. ASSUME NEW i \in 1..x.prefix_len PROVE LeadingBit(a, i) = LeadingBit(x.addr, i)
    <3>1. i \in 1..y.prefix_len
      BY <1>1, <1>2, <1>w, <2>1
    <3>2. LeadingBit(a, i) = LeadingBit(y.addr, i)
      BY <3>1 DEF Members
    <3>3. LeadingBit(y.addr, i) = LeadingBit(x.addr, i)
      BY <2>1 DEF Members
    <3> QED BY <3>2, <3>3
  <2> QED BY <2>2, <2>3 DEF Members
<1>5. ASSUME Members(y) \subseteq Members(x) PROVE ContainsPrefix(x, y)
  <2>1. y.addr \in Members(x)
    BY <1>5, OwnMember
  <2>2. x.addr.family = y.addr.family
    BY <2>1 DEF Members
  <2>3. x.prefix_len <= y.prefix_len
    <3>1. SUFFICES ASSUME y.prefix_len < x.prefix_len PROVE FALSE
      BY <1>1, <1>2, <1>w
    <3>2. y.prefix_len < Width[y.addr.family] /\ y.prefix_len + 1 \in 1..x.prefix_len
      BY <1>1, <1>2, <1>w, <2>2, <3>1
    <3>3. PICK a \in Members(y) : LeadingBit(a, y.prefix_len + 1) # LeadingBit(y.addr, y.prefix_len + 1)
      BY <3>2, MembersSplit
    <3>4. a \in Members(x)
      BY <1>5
    <3> QED BY <2>1, <3>2, <3>3, <3>4 DEF Members
  <2> QED BY <1>3, <2>1, <2>2, <2>3 DEF ContainsPrefix
<1> QED BY <1>4, <1>5

\* The same members: the same prefix.
LEMMA SameMembersSamePrefix ==
    ASSUME NEW x, MadeByNew(x), NEW y, MadeByNew(y), Members(x) = Members(y)
    PROVE  x = y
<1>1. ContainsPrefix(x, y) /\ ContainsPrefix(y, x)
  BY ContainsPrefixIsInclusion
<1> DEFINE n == x.prefix_len
           w == Width[x.addr.family]
<1>2. x.addr.family = y.addr.family /\ y.prefix_len = n
  <2>1. x.prefix_len \in 0..Width[x.addr.family] /\ y.prefix_len \in 0..Width[y.addr.family]
    BY LeadOfPrefix
  <2>2. Width[x.addr.family] \in Nat /\ Width[y.addr.family] \in Nat
    BY LeadOfPrefix, AddressShape
  <2> QED BY <1>1, <2>1, <2>2 DEF ContainsPrefix
<1>3. Lead(x.addr, n) = Lead(y.addr, n)
  <2>1. x.addr \in Addresses /\ y.addr \in Addresses /\ n \in 0..w
    BY LeadOfPrefix
  <2>2. SameBits(x.addr, y.addr, n)
    <3>1. x.addr \in Members(y)
      BY OwnMember
    <3> QED BY <1>2, <3>1 DEF Members, SameBits
  <2> QED BY <1>2, <2>1, <2>2, LeadOfBits
<1>4. x.addr.bits = y.addr.bits
  <2>1. x.addr.bits = Lead(x.addr, n) * TwoTo[w - n] /\ y.addr.bits = Lead(y.addr, n) * TwoTo[w - n]
    BY <1>2, LeadOfPrefix
  <2> QED BY <1>3, <2>1
<1>5. x.addr = y.addr
  BY <1>2, <1>4, LeadOfPrefix, AddressShape
<1> QED BY <1>2, <1>5 DEF MadeByNew

\* What PrefixInit starts with, and no step changes.
PrefixIInv == MadeByNew(p) /\ MadeByNew(q) /\ raw \in Addresses

\* New makes p and q.
LEMMA PrefixStart == PrefixInit => PrefixIInv
<1> SUFFICES ASSUME PrefixInit PROVE PrefixIInv
  OBVIOUS
<1>1. Lengths \subseteq Nat
  BY WidthAssumption DEF Lengths, Families
<1>2. PICK a \in Addresses, n \in Lengths : p = New(a, n) /\ p # BadPrefix
  BY DEF PrefixInit
<1>3. PICK m \in Lengths : q = New(raw, m) /\ q # BadPrefix
  BY DEF PrefixInit
<1>4. raw \in Addresses /\ n \in Nat /\ m \in Nat
  BY <1>1 DEF PrefixInit
<1>5. MadeByNew(New(a, n)) /\ MadeByNew(New(raw, m))
  BY <1>2, <1>3, <1>4, NewIs
<1> QED BY <1>2, <1>3, <1>4, <1>5 DEF PrefixIInv

\* What New makes has the three properties.
LEMMA PrefixesThen == PrefixIInv => PrefixesAgree
<1> SUFFICES ASSUME PrefixIInv PROVE PrefixesAgree
  OBVIOUS
<1> USE DEF PrefixIInv
<1>1. ContainmentIsInclusion
  BY ContainsIpIsMembership, ContainsPrefixIsInclusion DEF ContainmentIsInclusion
<1>2. CanonicalKey
  BY SameMembersSamePrefix DEF CanonicalKey
<1>3. ExemptionCoversMembers
  <2> SUFFICES ASSUME ContainsPrefix(p, q), NEW a \in Members(q) PROVE ContainsIp(p, a)
    BY DEF ExemptionCoversMembers, ExemptContainsPrefix, ExemptContainsIp
  <2>1. a \in Members(p) /\ a \in Addresses
    BY ContainsPrefixIsInclusion DEF Members
  <2> QED BY <2>1, ContainsIpIsMembership
<1> QED BY <1>1, <1>2, <1>3 DEF PrefixesAgree

\* contains_ip, contains_prefix and is_exempt decide membership, inclusion and
\* exemption of the addresses a prefix stands for, and equal sets of addresses have
\* one prefix, whatever the width of an address.
THEOREM PrefixesAgreeHolds == PrefixSpec => []PrefixesAgree
<1>1. PrefixIInv /\ [PrefixNext]_<<p, q, raw>> => PrefixIInv'
  BY DEF PrefixNext, PrefixIInv, MadeByNew, Addresses
<1> QED BY <1>1, PrefixStart, PrefixesThen, PTL DEF PrefixSpec

=============================================================================
