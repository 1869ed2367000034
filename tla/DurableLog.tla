----------------------------- MODULE DurableLog -----------------------------
(***************************************************************************)
(* What sbc_raftd promises its clients: a log of events, in the order of    *)
(* their indexes, of which a prefix is on disk.  The log grows at its end,  *)
(* the saved prefix only grows, and a crash cuts the log back to the saved  *)
(* prefix, never further and never to something that was not saved.         *)
(***************************************************************************)
EXTENDS Naturals, Sequences

CONSTANT Entries

VARIABLES log, saved

logVars == <<log, saved>>

LogInit == log = <<>> /\ saved = 0

Extend ==
    /\ Len(log') > Len(log)
    /\ SubSeq(log', 1, Len(log)) = log
    /\ saved' = saved

Save == log' = log /\ saved' \in (saved + 1)..Len(log)

Recover == log' = SubSeq(log, 1, saved) /\ saved' = saved

LogNext == Extend \/ Save \/ Recover

LogSpec == LogInit /\ [][LogNext]_logVars

=============================================================================
