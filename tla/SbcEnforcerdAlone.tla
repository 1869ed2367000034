------------------------- MODULE SbcEnforcerdAlone --------------------------
(***************************************************************************)
(* sbc_enforcerd closed with an environment: any DNS answers, any events in *)
(* any order (what an unreliable stream from sbc_raftd may look like),      *)
(* requests that succeed or fail, restarts.                                 *)
(***************************************************************************)
EXTENDS SbcEnforcerd

CONSTANTS KeyOf,      \* the prefix an id was drawn for; an id never changes prefix
          Expiries,   \* expires_at_unix values a ban may carry
          MaxTime     \* bound on the clock

ASSUME AloneAssumption ==
    /\ KeyOf \in [BanIds -> Keys]
    /\ Expiries \subseteq Nat
    /\ MaxTime \in Nat

vars == <<now, sharedVars, taskVars>>

Ban == {b \in [ban_id : BanIds, key : Keys, expires : Expiries] : b.key = KeyOf[b.ban_id]}

\* A HashMap holds one entry per id.
OnePerId(bs) == \A b, c \in bs : b.ban_id = c.ban_id => b = c

Events ==
    {[type |-> "snapshot", bans |-> bs] : bs \in {s \in SUBSET Ban : OnePerId(s)}}
      \cup [type : {"ban_upserted"}, entry : Ban]
      \cup [type : {"ban_deleted"}, ban_id : BanIds]
      \cup [type : {"status"}]

Tick ==
    /\ now < MaxTime
    /\ now' = now + 1
    /\ UNCHANGED <<sharedVars, taskVars>>

NodeStep(n) ==
    \/ \E enabled \in BOOLEAN : CheckDns(n, enabled)
    \/ \E r \in dns_reports[n] : SyncReportSent(n, r)
    \/ EventsConnected(n)
    \/ EventsEof(n)
    \/ \E event \in Events : Receive(n, event)
    \/ ApplyReportSent(n)
    \/ Restart(n)

AloneInit == Init /\ now = 1
AloneNext == Tick \/ \E n \in Nodes : NodeStep(n)
AloneSpec == AloneInit /\ [][AloneNext]_vars

-----------------------------------------------------------------------------
\* Type invariant.
TypeOK ==
    /\ now \in Nat
    /\ desired \in [Nodes -> SUBSET Ban]
    /\ applied \in [Nodes -> SUBSET Ban]
    /\ attached \in [Nodes -> BOOLEAN]
    /\ connected \in [Nodes -> BOOLEAN]
    /\ dns_reports \in [Nodes -> SUBSET ReportSet]
    /\ ev_report \in [Nodes -> ReportSet \cup {None}]

\* Two entries never share an id: the sets stand for the maps of the code.
OneEntryPerId == \A n \in Nodes : OnePerId(desired[n]) /\ OnePerId(applied[n])

\* Both tasks keep the applied set in step with the desired one: with the
\* backend detached nothing is applied, with it attached every applied ban is
\* a desired one whose prefix is not exempt, and every such ban is applied
\* unless its TTL passed before it could be.
AppliedFollowsDesired ==
    \A n \in Nodes :
        IF attached[n]
        THEN /\ applied[n] \subseteq NotExempt(desired[n])
             /\ Unexpired(NotExempt(desired[n])) \subseteq applied[n]
        ELSE applied[n] = {}

\* What the enforcer's two tasks preserve together, under any event stream: an
\* entry per id, and the applied set in step with the desired one.
EnforcerInv == TypeOK /\ OneEntryPerId /\ AppliedFollowsDesired

=============================================================================
