---------------------------- MODULE MCSbcSystem -----------------------------
(* Small instances of SbcSystem for TLC, with one enforcer at a time: each  *)
(* behaviour is that of one of the nodes - some subscribe with a snapshot,  *)
(* others to the tail of the events - and the other nodes never start.      *)
EXTENDS SbcSystem, TLC

CONSTANTS k1, k2, i1, i2

MCOperators == {<<"op", "a1">>}
MCClients   == MCOperators \cup ({"dns", "events"} \X Nodes)
MCReports   == E!ReportSet

VARIABLE node   \* the node that runs

oneNodeVars == <<node, systemVars>>

NotStarted(n) == sub[n] = "closed" /\ ~attached[n] /\ missed[n]

OneNodeInit == node \in Nodes /\ SystemInit
OneNodeNext ==
    /\ UNCHANGED node
    /\ SystemNext
    /\ \A n \in Nodes \ {node} : NotStarted(n)'

OneNodeSpec     == OneNodeInit /\ [][OneNodeNext]_oneNodeVars
FairOneNodeSpec == OneNodeSpec /\ SystemFairness
=============================================================================
