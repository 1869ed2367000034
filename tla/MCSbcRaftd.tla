----------------------------- MODULE MCSbcRaftd -----------------------------
(* Small instances of SbcRaftd for TLC.                                     *)
EXTENDS SbcRaftd, TLC

CONSTANTS k1, k2, i1, i2

MCOneClient == {<<"op", "a1">>}
MCKeys      == {k1, k2}
MCTwoIds    == {i1, i2}
MCStatuses  == [node_id : {"n1"}, mode : {"enforcing", "fail_open"}]
MCReports   == [at : {"n1:upsert"}, result : {"ok", "skipped"}]
=============================================================================
