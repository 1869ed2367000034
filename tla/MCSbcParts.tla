----------------------------- MODULE MCSbcParts -----------------------------
(* The parts of the source-ban tools that run alone, side by side: each     *)
(* behaviour is one of the enforcer, of the status reporter, of the decider *)
(* or of a pair of prefixes, and the other parts stay as they start.        *)
EXTENDS SbcEnforcerdAlone, SbcReporter, SbcDecider, IpPrefix, TLC

CONSTANTS k1, k2, i1, i2

VARIABLE part

MCKeyOf == (i1 :> k1) @@ (i2 :> k2)

\* Two families of different widths, every prefix and every address.
MCWidth == [v4 |-> 3, v6 |-> 4]

prefixVars == <<p, q, raw>>
partsVars  == <<part, vars, reporterVars, deciderVars, prefixVars>>

OnePrefix == LET a == CHOOSE a \in Addresses : TRUE IN
             raw = a /\ p = New(a, 0) /\ q = New(a, 0)

PartsInit ==
    /\ part \in {"enforcer", "reporter", "decider", "prefixes"}
    /\ AloneInit /\ ReporterInit /\ DeciderInit
    /\ IF part = "prefixes" THEN PrefixInit ELSE OnePrefix

PartsNext ==
    /\ UNCHANGED part
    /\ \/ /\ part = "enforcer" /\ AloneNext
          /\ UNCHANGED <<reporterVars, deciderVars, prefixVars>>
       \/ /\ part = "reporter" /\ ReporterNext
          /\ UNCHANGED <<vars, deciderVars, prefixVars>>
       \/ /\ part = "decider" /\ DeciderNext
          /\ UNCHANGED <<vars, reporterVars, prefixVars>>
       \/ /\ part = "prefixes" /\ PrefixNext
          /\ UNCHANGED <<vars, reporterVars, deciderVars>>

\* ReporterFairness and DeciderFairness, each for its own behaviours.
PartsFairness ==
    /\ WF_reporterVars(part = "reporter" /\ KickFromDns)
    /\ WF_reporterVars(part = "reporter" /\ TakeSnapshot)
    /\ WF_reporterVars(part = "reporter" /\ ReadStatus)
    /\ WF_reporterVars(part = "reporter" /\ (StatusSent \/ StatusSendFails))
    /\ WF_deciderVars(part = "decider" /\ Poll)
    /\ WF_deciderVars(part = "decider" /\ Skip)
    /\ WF_deciderVars(part = "decider" /\ (BanAccepted \/ BanFailed))
    /\ \A s \in Sources :
          SF_deciderVars(part = "decider" /\ BanAccepted /\ Head(todo).key = s)

PartsSpec == PartsInit /\ [][PartsNext]_partsVars /\ PartsFairness

-----------------------------------------------------------------------------
\* ReportFollowsChange, of the behaviours in which the reporter runs: a startup
\* status or a change is followed by a report, a failed request or a change.
ChangeIsReported == part = "reporter" => ReportFollowsChange

\* The reporter and the decider get on: a change of the status is reported,
\* and a source that is over the threshold is banned.
PartsGoOn == ChangeIsReported /\ HeavySourceBanned

=============================================================================
