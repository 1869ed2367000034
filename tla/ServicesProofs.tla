--------------------------- MODULE ServicesProofs ---------------------------
(***************************************************************************)
(* Proofs about what the broker and the web server keep of their clients,  *)
(* component by component: for any sets of keys, requests, sessions,       *)
(* operators, loggers, flows, users and callbacks, and any bounds.         *)
(***************************************************************************)
EXTENDS MCServices, LinesProofs

-----------------------------------------------------------------------------
(* The compliance portal.  While no two requests had the key file at the    *)
(* same time, the one that has it has read what is in it.                   *)

AtFile(r)    == task[r].pc \in {"adding", "marking", "added", "marked"}
AddsKey(r, k)   == task[r].pc \in {"adding", "added"} /\ task[r].key = k
EntersWith(r, k) == task[r].pc = "entering" /\ task[r].key = k

TasksHaveKeys == \A r \in Requests : task[r].pc # "idle" => task[r].key \in issued
OneAtFile     == \A r, q \in Requests : AtFile(r) /\ AtFile(q) => r = q
ReadIsFile    == \A r \in Requests : AtFile(r) => task[r].read = keyFile
TmpIsContent  ==
    \A r \in Requests : /\ task[r].pc = "added" => tmp = <<task[r].read \cup {task[r].key}>>
                        /\ task[r].pc = "marked" => tmp = <<task[r].read \ {task[r].key}>>
UsedIsGone    ==
    \A k \in Keys : /\ logins[k] <= 1
                    /\ logins[k] = 1 => k \notin keyFile
EnteringOnce  ==
    \A k \in Keys, r \in Requests : EntersWith(r, k) =>
        /\ k \notin keyFile /\ logins[k] = 0
        /\ \A q \in Requests : EntersWith(q, k) => q = r
AddedOnce     ==
    \A k \in Keys, r \in Requests : AddsKey(r, k) =>
        /\ k \notin keyFile /\ logins[k] = 0
        /\ \A q \in Requests : ~EntersWith(q, k)
NoKeyIsLost   ==
    \A k \in issued : \/ k \in keyFile \/ logins[k] = 1
                      \/ \E r \in Requests : AddsKey(r, k) \/ EntersWith(r, k)

\* A confirmation that waits has not acted, and a number is given once.
WaitingBans   ==
    /\ \A k \in Keys, b \in 1 .. MaxPrepared : <<k, b>> \in toBan => banned[b] = 0
    /\ \A j, k \in Keys, b \in 1 .. MaxPrepared : <<k, b>> \in toBan /\ <<j, b>> \in toBan => j = k
    /\ \A b \in 1 .. MaxPrepared : b > prepared => banned[b] = 0
Counters      ==
    /\ logins \in [Keys -> Nat] /\ logged \in [Keys -> Nat]
    /\ banned \in [1 .. MaxPrepared -> Nat]
    /\ \A k \in Keys : logins[k] > 0 => k \in issued

FileInv == OneAtFile /\ ReadIsFile /\ TmpIsContent /\ UsedIsGone /\ EnteringOnce /\ AddedOnce

PortalIInv ==
    /\ PortalTypeOK /\ TasksHaveKeys /\ Counters /\ LogIsTrue /\ WaitingBans
    /\ ~overlaps => FileInv
    /\ ~overlaps /\ portalStops = 0 => NoKeyIsLost

LEMMA PortalTypeStep ==
    ASSUME PortalTypeOK, TasksHaveKeys, [PortalNext]_portalVars
    PROVE  PortalTypeOK' /\ TasksHaveKeys'
<1> USE DEF PortalTypeOK, TasksHaveKeys, fileVars, actionVars, complianceVars
<1>1. ASSUME NEW r \in Requests, NEW k \in Keys, RequestKey(r, k) PROVE PortalTypeOK' /\ TasksHaveKeys'
  BY <1>1 DEF RequestKey, Begin
<1>2. ASSUME NEW r \in Requests, NEW k \in Keys, ConfirmLogin(r, k) PROVE PortalTypeOK' /\ TasksHaveKeys'
  <2>1. k \in issued /\ toLogin' \subseteq toLogin /\ UNCHANGED <<keyFile, tmp, issued, expired, toBan, prepared, portal, portalStops>>
    BY <1>2 DEF ConfirmLogin
  <2>2. CASE UNCHANGED <<task, overlaps>>
    BY <2>1, <2>2
  <2>3. CASE Begin(r, k, "marking")
    BY <2>1, <2>3 DEF Begin
  <2> QED
    BY <1>2, <2>2, <2>3 DEF ConfirmLogin
<1>3. ASSUME NEW r \in Requests, WriteTmp(r) PROVE PortalTypeOK' /\ TasksHaveKeys'
  <2>1. Content(r) \subseteq issued
    BY <1>3 DEF WriteTmp, Content
  <2>2. tmp'[1] \subseteq issued'
    BY <1>3, <2>1 DEF WriteTmp
  <2> QED
    BY <1>3, <2>2 DEF WriteTmp, Goes
<1>4. ASSUME NEW r \in Requests, Rename(r) PROVE PortalTypeOK' /\ TasksHaveKeys'
  BY <1>4 DEF Rename, NoTask
<1>5. ASSUME NEW r \in Requests, Enter(r) PROVE PortalTypeOK' /\ TasksHaveKeys'
  BY <1>5 DEF Enter, NoTask
<1>6. ASSUME NEW k \in Keys, Expire(k) \/ PrepareLogin(k) \/ SessionExpires(k)
      PROVE  PortalTypeOK' /\ TasksHaveKeys'
  BY <1>6, PortalBounds DEF Expire, PrepareLogin, SessionExpires
<1>7. ASSUME NEW k \in Keys, PrepareBan(k) PROVE PortalTypeOK' /\ TasksHaveKeys'
  <2>1. prepared' \in 0 .. MaxPrepared /\ prepared' \in 1 .. prepared' /\ 1 .. prepared \subseteq 1 .. prepared'
    BY <1>7, PortalBounds DEF PrepareBan
  <2>2. <<k, prepared'>> \in issued \X (1 .. prepared')
    BY <1>7, <2>1 DEF PrepareBan
  <2>3. toBan' \subseteq issued' \X (1 .. prepared')
    BY <1>7, <2>1, <2>2 DEF PrepareBan
  <2> QED
    BY <1>7, <2>1, <2>3 DEF PrepareBan
<1>8. ASSUME NEW k \in Keys, NEW b \in 1 .. MaxPrepared, ConfirmBan(k, b)
      PROVE  PortalTypeOK' /\ TasksHaveKeys'
  BY <1>8 DEF ConfirmBan
<1>9. CASE Restart
  BY <1>9, PortalBounds DEF Restart, NoTask
<1>10. CASE UNCHANGED portalVars
  BY <1>10 DEF portalVars
<1> QED
  BY <1>1, <1>2, <1>3, <1>4, <1>5, <1>6, <1>7, <1>8, <1>9, <1>10 DEF PortalNext

\* The log of logins and the counts of bans.
LEMMA PortalCountsStep ==
    ASSUME PortalTypeOK, TasksHaveKeys, Counters, LogIsTrue, WaitingBans, [PortalNext]_portalVars
    PROVE  Counters' /\ LogIsTrue' /\ WaitingBans'
<1>1. ASSUME NEW r \in Requests, NEW k \in Keys, RequestKey(r, k) \/ ConfirmLogin(r, k)
      PROVE  Counters' /\ LogIsTrue' /\ WaitingBans'
  BY <1>1 DEF RequestKey, ConfirmLogin, PortalTypeOK, TasksHaveKeys, Counters, LogIsTrue, WaitingBans, actionVars, complianceVars
<1>2. ASSUME NEW r \in Requests, WriteTmp(r) \/ Rename(r) PROVE Counters' /\ LogIsTrue' /\ WaitingBans'
  BY <1>2 DEF WriteTmp, Rename, PortalTypeOK, TasksHaveKeys, Counters, LogIsTrue, WaitingBans, actionVars, complianceVars
<1>3. ASSUME NEW r \in Requests, Enter(r) PROVE Counters' /\ LogIsTrue' /\ WaitingBans'
  <2> DEFINE k == task[r].key
  <2>1. k \in Keys /\ k \in issued
    BY <1>3 DEF Enter, TasksHaveKeys, PortalTypeOK
  <2>2. /\ logins' = [logins EXCEPT ![k] = @ + 1]
        /\ logged' \in {logged, [logged EXCEPT ![k] = @ + 1]}
        /\ UNCHANGED <<issued, toBan, prepared, banned>>
    BY <1>3 DEF Enter, actionVars
  <2>0. /\ logins \in [Keys -> Nat] /\ logged \in [Keys -> Nat] /\ \A j \in Keys : logged[j] <= logins[j]
    BY DEF Counters, LogIsTrue
  <2> HIDE DEF k
  <2>3. /\ logged' \in [Keys -> Nat] /\ logins' \in [Keys -> Nat]
        /\ \A j \in Keys : logged'[j] <= logins'[j]
    <3>1. CASE logged' = logged
      BY <2>0, <2>1, <2>2, <3>1
    <3>2. CASE logged' = [logged EXCEPT ![k] = @ + 1]
      BY <2>0, <2>1, <2>2, <3>2
    <3> QED
      BY <2>2, <3>1, <3>2
  <2>4. \A j \in Keys : logins'[j] > 0 => j \in issued
    BY <2>0, <2>1, <2>2 DEF Counters
  <2> QED
    BY <2>2, <2>3, <2>4 DEF Counters, LogIsTrue, WaitingBans
<1>4. ASSUME NEW k \in Keys, Expire(k) \/ PrepareLogin(k) \/ SessionExpires(k)
      PROVE  Counters' /\ LogIsTrue' /\ WaitingBans'
  BY <1>4, PortalBounds DEF Expire, PrepareLogin, SessionExpires, PortalTypeOK, TasksHaveKeys, Counters, LogIsTrue, WaitingBans, actionVars, complianceVars
<1>5. ASSUME NEW k \in Keys, PrepareBan(k) PROVE Counters' /\ LogIsTrue' /\ WaitingBans'
  <2>1. \A j \in Keys : <<j, prepared'>> \notin toBan
    BY <1>5, PortalBounds DEF PrepareBan, PortalTypeOK
  <2>2. /\ UNCHANGED <<issued, logins, logged, banned>> /\ prepared' = prepared + 1
        /\ toBan' = toBan \cup {<<k, prepared'>>} /\ prepared \in 0 .. MaxPrepared
        /\ prepared' \in 1 .. MaxPrepared
    BY <1>5, PortalBounds DEF PrepareBan, PortalTypeOK, complianceVars
  <2>3. \A b \in 1 .. MaxPrepared : b > prepared' => banned'[b] = 0
    BY <2>2, PortalBounds DEF WaitingBans
  <2>4. prepared' \in Nat /\ prepared' > prepared
    BY <2>2
  <2>5. ASSUME NEW j \in Keys, NEW b \in 1 .. MaxPrepared, <<j, b>> \in toBan' PROVE banned'[b] = 0
    BY <2>2, <2>4, <2>5 DEF WaitingBans
  <2>6. ASSUME NEW i \in Keys, NEW j \in Keys, NEW b \in 1 .. MaxPrepared,
               <<i, b>> \in toBan', <<j, b>> \in toBan' PROVE i = j
    BY <2>1, <2>2, <2>6 DEF WaitingBans
  <2> QED
    BY <2>2, <2>3, <2>5, <2>6 DEF Counters, LogIsTrue, WaitingBans
<1>6. ASSUME NEW k \in Keys, NEW b \in 1 .. MaxPrepared, ConfirmBan(k, b)
      PROVE  Counters' /\ LogIsTrue' /\ WaitingBans'
  <2>1. /\ UNCHANGED <<issued, logins, logged, prepared>> /\ toBan' = toBan \ {<<k, b>>}
        /\ banned' \in {banned, [banned EXCEPT ![b] = @ + 1]} /\ banned[b] = 0
        /\ b <= prepared /\ prepared \in Nat /\ banned \in [1 .. MaxPrepared -> Nat]
        /\ \A c \in 1 .. MaxPrepared : banned[c] <= 1
    BY <1>6, PortalBounds DEF ConfirmBan, PortalTypeOK, WaitingBans, Counters, LogIsTrue
  <2>2. /\ banned' \in [1 .. MaxPrepared -> Nat] /\ banned'[b] <= 1
        /\ \A c \in 1 .. MaxPrepared : c # b => banned'[c] = banned[c]
    <3>1. CASE banned' = banned
      BY <2>1, <3>1
    <3>2. CASE banned' = [banned EXCEPT ![b] = @ + 1]
      BY <2>1, <3>2
    <3> QED
      BY <2>1, <3>1, <3>2
  <2>3. ASSUME NEW j \in Keys, NEW c \in 1 .. MaxPrepared, <<j, c>> \in toBan' PROVE banned'[c] = 0
    <3>1. <<j, c>> \in toBan /\ <<k, b>> \in toBan /\ (c = b => j # k)
      BY <1>6, <2>1, <2>3 DEF ConfirmBan
    <3> QED
      BY <2>2, <3>1 DEF WaitingBans
  <2>4. \A c \in 1 .. MaxPrepared : c > prepared => c # b
    BY <2>1
  <2>5. \A c \in 1 .. MaxPrepared : banned'[c] <= 1
    BY <2>1, <2>2
  <2>6. \A c \in 1 .. MaxPrepared : c > prepared' => banned'[c] = 0
    BY <2>1, <2>2, <2>4 DEF WaitingBans
  <2>7. WaitingBans'
    BY <2>1, <2>3, <2>6 DEF WaitingBans
  <2> QED
    BY <2>1, <2>2, <2>5, <2>7 DEF Counters, LogIsTrue
<1>7. CASE Restart
  BY <1>7 DEF Restart, PortalTypeOK, TasksHaveKeys, Counters, LogIsTrue, WaitingBans, actionVars, complianceVars
<1>8. CASE UNCHANGED portalVars
  BY <1>8 DEF portalVars, PortalTypeOK, TasksHaveKeys, Counters, LogIsTrue, WaitingBans, actionVars, complianceVars
<1> QED
  BY <1>1, <1>2, <1>3, <1>4, <1>5, <1>6, <1>7, <1>8 DEF PortalNext

\* A request takes the file up: no other one has it.
LEMMA BeginStep ==
    ASSUME PortalTypeOK, TasksHaveKeys, Counters, FileInv, ~overlaps', NEW r \in Requests, NEW k \in Keys,
           NEW to \in {"adding", "marking"}, task[r].pc = "idle", Begin(r, k, to),
           to = "adding" => k \notin issued, keyFile' = keyFile, logins' = logins
    PROVE  FileInv' /\ \A j \in Keys, q \in Requests : EntersWith(q, j) => EntersWith(q, j)'
<1>1. /\ ~overlaps /\ \A q \in Requests : ~AtFile(q)
      /\ task' = [task EXCEPT ![r] = [pc |-> to, key |-> k, read |-> keyFile]]
  BY DEF Begin, AtFile
<1>2. /\ \A q \in Requests : q # r => task'[q] = task[q]
      /\ task'[r].pc = to /\ task'[r].key = k /\ task'[r].read = keyFile
  BY <1>1 DEF PortalTypeOK
<1>3. \A j \in Keys, q \in Requests : EntersWith(q, j)' <=> EntersWith(q, j)
  BY <1>2 DEF EntersWith
<1>4. \A j \in Keys, q \in Requests : AddsKey(q, j)' => q = r /\ j = k /\ to = "adding"
  BY <1>1, <1>2 DEF AddsKey, AtFile
<1>5. OneAtFile' /\ ReadIsFile' /\ TmpIsContent'
  BY <1>1, <1>2 DEF OneAtFile, ReadIsFile, TmpIsContent, AtFile
<1>6. UsedIsGone' /\ EnteringOnce'
  BY <1>3 DEF FileInv, UsedIsGone, EnteringOnce
<1>7. AddedOnce'
  <2> SUFFICES ASSUME to = "adding" 
               PROVE  k \notin keyFile /\ logins[k] = 0 /\ \A q \in Requests : ~EntersWith(q, k)
    BY <1>3, <1>4 DEF AddedOnce
  <2>1. k \notin issued
    OBVIOUS
  <2> QED
    BY <2>1 DEF PortalTypeOK, Counters, TasksHaveKeys, EntersWith
<1> QED
  BY <1>3, <1>5, <1>6, <1>7 DEF FileInv

\* The file is renamed: its new content is that of the request that has it.
LEMMA RenameStep ==
    ASSUME PortalTypeOK, TasksHaveKeys, Counters, FileInv, NEW r \in Requests, Rename(r)
    PROVE  FileInv' /\ (NoKeyIsLost => NoKeyIsLost')
<1> DEFINE k == task[r].key
<1>1. /\ AtFile(r) /\ task[r].pc \in {"added", "marked"} /\ k \in issued /\ k \in Keys
      /\ task[r].read = keyFile
      /\ UNCHANGED <<logins, issued>>
  BY DEF Rename, AtFile, FileInv, ReadIsFile, TasksHaveKeys, PortalTypeOK, complianceVars
<1>2. /\ task[r].pc = "added" => tmp = <<keyFile \cup {k}>>
      /\ task[r].pc = "marked" => tmp = <<keyFile \ {k}>>
      /\ tmp # <<>>
  <2>1. \A c : <<c>> # <<>>
    OBVIOUS
  <2> QED
    BY <1>1, <2>1 DEF FileInv, TmpIsContent
<1>13. /\ keyFile' = tmp[1]
       /\ task' = [task EXCEPT ![r] = IF task[r].pc = "marked" /\ k \in keyFile
                                       THEN [task[r] EXCEPT !.pc = "entering"] ELSE NoTask]
  BY <1>1, <1>2 DEF Rename
<1>3. /\ \A q \in Requests : q # r => task'[q] = task[q] /\ ~AtFile(q)
      /\ task[r].pc = "marked" /\ k \in keyFile => task'[r].pc = "entering" /\ task'[r].key = k
      /\ ~(task[r].pc = "marked" /\ k \in keyFile) => task'[r].pc = "idle"
  <2>1. \A q \in Requests : q # r => ~AtFile(q)
    BY <1>1 DEF FileInv, OneAtFile
  <2> QED
    BY <2>1, <1>1, <1>13 DEF PortalTypeOK, NoTask
<1>4. /\ task[r].pc = "added" => keyFile' = keyFile \cup {k}
      /\ task[r].pc = "marked" => keyFile' = keyFile \ {k}
  BY <1>2, <1>13
<1>5. \A q \in Requests : ~AtFile(q)' /\ \A j \in Keys :
         /\ ~AddsKey(q, j)'
         /\ EntersWith(q, j)' => \/ EntersWith(q, j) /\ q # r
                                 \/ q = r /\ j = k /\ task[r].pc = "marked" /\ k \in keyFile
  BY <1>3 DEF AtFile, AddsKey, EntersWith
<1>6. \A q \in Requests : EntersWith(q, k) => k \notin keyFile
  BY <1>1 DEF FileInv, EnteringOnce
<1>7. task[r].pc = "added" => k \notin keyFile /\ logins[k] = 0 /\ \A q \in Requests : ~EntersWith(q, k)
  BY <1>1 DEF FileInv, AddedOnce, AddsKey
<1> HIDE DEF k
<1>8. OneAtFile' /\ ReadIsFile' /\ AddedOnce'
  BY <1>1, <1>5 DEF OneAtFile, ReadIsFile, AddedOnce
<1>9. TmpIsContent'
  BY <1>1, <1>5 DEF TmpIsContent, AtFile
<1>10. UsedIsGone'
  BY <1>1, <1>4, <1>7 DEF FileInv, UsedIsGone
<1>11. EnteringOnce'
  <2> SUFFICES ASSUME NEW j \in Keys, NEW q \in Requests, EntersWith(q, j)'
               PROVE  j \notin keyFile' /\ logins'[j] = 0 /\ \A p \in Requests : EntersWith(p, j)' => p = q
    BY DEF EnteringOnce
  <2>1. CASE EntersWith(q, j) /\ q # r
    <3>1. j \notin keyFile /\ logins[j] = 0 /\ \A p \in Requests : EntersWith(p, j) => p = q
      BY <2>1 DEF FileInv, EnteringOnce
    <3>2. j # k \/ k \notin keyFile
      BY <2>1, <1>6
    <3>3. task[r].pc = "added" => j # k
      BY <2>1, <1>7
    <3> QED
      BY <1>1, <1>4, <1>5, <3>1, <3>2, <3>3
  <2>2. CASE q = r /\ j = k /\ task[r].pc = "marked" /\ k \in keyFile
    <3>1. logins[k] = 0 /\ \A p \in Requests : ~EntersWith(p, k)
      BY <1>1, <2>2, <1>6 DEF FileInv, UsedIsGone, Counters
    <3> QED
      BY <2>2, <3>1, <1>1, <1>4, <1>5
  <2> QED
    BY <1>5, <2>1, <2>2
<1>12. ASSUME NoKeyIsLost PROVE NoKeyIsLost'
  <2> SUFFICES ASSUME NEW j \in issued
               PROVE  j \in keyFile' \/ logins'[j] = 1 \/ \E q \in Requests : EntersWith(q, j)'
    BY <1>1 DEF NoKeyIsLost
  <2>1. CASE j = k
    <3>1. CASE task[r].pc = "marked" /\ k \notin keyFile
      <4>1. \A q \in Requests : ~AddsKey(q, k)
        BY <1>3, <3>1 DEF AddsKey, AtFile
      <4>2. logins[k] = 1 \/ \E q \in Requests : EntersWith(q, k)
        BY <1>1, <1>12, <3>1, <4>1 DEF NoKeyIsLost
      <4>3. \A q \in Requests : EntersWith(q, j) => EntersWith(q, j)'
        BY <1>3, <3>1 DEF EntersWith
      <4>4. \A q \in Requests : EntersWith(q, k) => EntersWith(q, j)
        BY <2>1
      <4> QED
        BY <2>1, <1>1, <4>2, <4>3, <4>4
    <3>2. CASE task[r].pc = "marked" /\ k \in keyFile
      BY <2>1, <1>3, <3>2 DEF EntersWith
    <3> QED
      BY <2>1, <1>1, <1>4, <3>1, <3>2
  <2>2. CASE j # k
    BY <2>2, <1>1, <1>3, <1>4, <1>12 DEF NoKeyIsLost, EntersWith, AddsKey, AtFile, k
  <2> QED
    BY <2>1, <2>2
<1> QED
  BY <1>8, <1>9, <1>10, <1>11, <1>12 DEF FileInv

LEMMA PortalStep == PortalIInv /\ [PortalNext]_portalVars => PortalIInv'
<1> SUFFICES ASSUME PortalIInv, [PortalNext]_portalVars PROVE PortalIInv'
  OBVIOUS
<1>1. PortalTypeOK' /\ TasksHaveKeys' /\ Counters' /\ LogIsTrue' /\ WaitingBans'
  BY PortalTypeStep, PortalCountsStep DEF PortalIInv
<1> DEFINE Lost == portalStops = 0 => NoKeyIsLost
           Goal == (~overlaps' => FileInv') /\ (~overlaps' /\ portalStops' = 0 => NoKeyIsLost')
<1>2. (~overlaps => FileInv) /\ (~overlaps => Lost)
  BY DEF PortalIInv
<1>3. ASSUME NEW r \in Requests, NEW k \in Keys, NEW to \in {"adding", "marking"}, task[r].pc = "idle",
             Begin(r, k, to), to = "adding" => k \notin issued /\ issued' = issued \cup {k},
             to = "marking" => issued' = issued, UNCHANGED <<keyFile, logins, portalStops>>
      PROVE  Goal
  <2>1. overlaps => overlaps'
    BY <1>3 DEF Begin
  <2>2. ASSUME ~overlaps' PROVE FileInv' /\ \A j \in Keys, q \in Requests : EntersWith(q, j) => EntersWith(q, j)'
    BY <1>2, <1>3, <2>1, <2>2, BeginStep DEF PortalIInv
  <2>3. ASSUME ~overlaps', portalStops' = 0 PROVE NoKeyIsLost'
    <3>1. NoKeyIsLost /\ issued \subseteq Keys
      BY <1>2, <1>3, <2>1, <2>3 DEF PortalIInv, PortalTypeOK
    <3>2. /\ \A q \in Requests : ~AtFile(q)
          /\ task' = [task EXCEPT ![r] = [pc |-> to, key |-> k, read |-> keyFile]]
      BY <1>3, <2>3 DEF Begin, AtFile
    <3>3. to = "adding" => AddsKey(r, k)'
      BY <3>2 DEF AddsKey, PortalIInv, PortalTypeOK
    <3>4. \A j \in Keys, q \in Requests : ~AddsKey(q, j)
      BY <3>2 DEF AtFile, AddsKey
    <3>5. \A j \in issued : j \in keyFile' \/ logins'[j] = 1 \/ \E q \in Requests : EntersWith(q, j)'
      BY <1>3, <2>2, <2>3, <3>1, <3>4 DEF NoKeyIsLost
    <3> QED
      BY <1>3, <3>3, <3>5 DEF NoKeyIsLost
  <2> QED
    BY <2>2, <2>3
<1>4. ASSUME NEW r \in Requests, WriteTmp(r) PROVE Goal
  <2>1. /\ UNCHANGED <<keyFile, overlaps, issued, logins, portalStops>> /\ tmp' = <<Content(r)>>
        /\ task[r].pc \in {"adding", "marking"} /\ AtFile(r)
        /\ task' = [task EXCEPT ![r].pc = IF task[r].pc = "adding" THEN "added" ELSE "marked"]
    BY <1>4 DEF WriteTmp, Goes, complianceVars, AtFile
  <2>2. /\ \A q \in Requests : q # r => task'[q] = task[q]
        /\ task'[r].key = task[r].key /\ task'[r].read = task[r].read
        /\ task'[r].pc = IF task[r].pc = "adding" THEN "added" ELSE "marked"
    BY <2>1 DEF PortalIInv, PortalTypeOK
  <2>3. \A q \in Requests :
           /\ AtFile(q)' <=> AtFile(q)
           /\ \A j \in Keys : /\ AddsKey(q, j)' <=> AddsKey(q, j)
                              /\ EntersWith(q, j)' <=> EntersWith(q, j)
    BY <2>1, <2>2 DEF AtFile, AddsKey, EntersWith
  <2>4. ASSUME FileInv PROVE FileInv'
    <3>4. OneAtFile'
      BY <2>3, <2>4 DEF FileInv, OneAtFile
    <3>5. ReadIsFile'
      BY <2>1, <2>2, <2>3, <2>4 DEF FileInv, ReadIsFile
    <3>6. UsedIsGone' /\ EnteringOnce' /\ AddedOnce'
      BY <2>1, <2>3, <2>4 DEF FileInv, UsedIsGone, EnteringOnce, AddedOnce
    <3>1. OneAtFile' /\ ReadIsFile' /\ UsedIsGone' /\ EnteringOnce' /\ AddedOnce'
      BY <3>4, <3>5, <3>6
    <3>2. \A q \in Requests : q # r => task'[q].pc \notin {"added", "marked"}
      BY <2>1, <2>2, <2>4 DEF FileInv, OneAtFile, AtFile
    <3>3. TmpIsContent'
      BY <2>1, <2>2, <3>2 DEF TmpIsContent, Content
    <3> QED
      BY <3>1, <3>3 DEF FileInv
  <2>5. ASSUME NoKeyIsLost PROVE NoKeyIsLost'
    BY <2>1, <2>3, <2>5 DEF NoKeyIsLost, PortalIInv, PortalTypeOK
  <2> QED
    BY <1>2, <2>1, <2>4, <2>5
<1>5. ASSUME NEW r \in Requests, Rename(r) PROVE Goal
  <2>1. UNCHANGED <<overlaps, portalStops>>
    BY <1>5 DEF Rename
  <2> QED
    BY <1>2, <1>5, <2>1, RenameStep DEF PortalIInv
<1>6. ASSUME NEW r \in Requests, Enter(r) PROVE Goal
  <2> DEFINE k == task[r].key
  <2>1. /\ UNCHANGED <<keyFile, tmp, overlaps, issued, portalStops>>
        /\ EntersWith(r, k) /\ k \in Keys
        /\ logins' = [logins EXCEPT ![k] = @ + 1] /\ task' = [task EXCEPT ![r] = NoTask]
    BY <1>6 DEF Enter, EntersWith, PortalIInv, TasksHaveKeys, PortalTypeOK
  <2>2. /\ \A q \in Requests : q # r => task'[q] = task[q]
        /\ task'[r].pc = "idle"
    BY <2>1 DEF PortalIInv, PortalTypeOK, NoTask
  <2>3. \A q \in Requests :
           /\ AtFile(q)' => AtFile(q)
           /\ \A j \in Keys : /\ AddsKey(q, j)' <=> AddsKey(q, j)
                              /\ EntersWith(q, j)' => EntersWith(q, j) /\ q # r
                              /\ EntersWith(q, j) => EntersWith(q, j)' \/ (q = r /\ j = k)
    BY <2>1, <2>2 DEF AtFile, AddsKey, EntersWith
  <2>4. logins \in [Keys -> Nat]
    BY DEF PortalIInv, Counters
  <2> HIDE DEF k
  <2>5. /\ logins'[k] = logins[k] + 1 /\ \A j \in Keys : j # k => logins'[j] = logins[j]
    BY <2>1, <2>4
  <2>6. ASSUME FileInv PROVE FileInv' /\ logins'[k] = 1
    <3>1. /\ logins'[k] = 1 /\ k \notin keyFile /\ \A q \in Requests : EntersWith(q, k) => q = r
          /\ \A q \in Requests : ~AddsKey(q, k)
      BY <2>1, <2>5, <2>6 DEF FileInv, EnteringOnce, AddedOnce
    <3>5. OneAtFile'
      BY <2>3, <2>6 DEF FileInv, OneAtFile
    <3>6. ReadIsFile'
      BY <2>1, <2>2, <2>3, <2>6 DEF FileInv, ReadIsFile, AtFile
    <3>7. TmpIsContent'
      BY <2>1, <2>2, <2>6 DEF FileInv, TmpIsContent
    <3>2. OneAtFile' /\ ReadIsFile' /\ TmpIsContent'
      BY <3>5, <3>6, <3>7
    <3>3. UsedIsGone'
      BY <2>1, <2>5, <2>6, <3>1 DEF FileInv, UsedIsGone
    <3>4. EnteringOnce' /\ AddedOnce'
      BY <2>1, <2>3, <2>5, <2>6, <3>1 DEF FileInv, EnteringOnce, AddedOnce
    <3> QED
      BY <3>1, <3>2, <3>3, <3>4 DEF FileInv
  <2>7. ASSUME FileInv, NoKeyIsLost PROVE NoKeyIsLost'
    <3>1. ASSUME NEW j \in issued
          PROVE  j \in keyFile' \/ logins'[j] = 1 \/ \E q \in Requests : AddsKey(q, j)' \/ EntersWith(q, j)'
      <4>1. CASE j = k
        BY <2>6, <2>7, <4>1
      <4>2. CASE j # k
        BY <2>1, <2>3, <2>5, <2>7, <4>2 DEF NoKeyIsLost, PortalIInv, PortalTypeOK
      <4> QED
        BY <4>1, <4>2
    <3> QED
      BY <2>1, <3>1 DEF NoKeyIsLost
  <2> QED
    BY <1>2, <2>1, <2>6, <2>7
<1>7. ASSUME UNCHANGED <<keyFile, tmp, task, overlaps, issued, logins, portalStops>> PROVE Goal
  BY <1>2, <1>7 DEF FileInv, OneAtFile, ReadIsFile, TmpIsContent, UsedIsGone, EnteringOnce, AddedOnce,
                    NoKeyIsLost, AtFile, AddsKey, EntersWith
<1>8. ASSUME Restart PROVE Goal
  <2>1. /\ UNCHANGED <<keyFile, tmp, overlaps, issued, logins>> /\ portalStops' = portalStops + 1
        /\ \A q \in Requests : task'[q].pc = "idle" /\ task'[q].pc # "added" /\ task'[q].pc # "marked"
    BY <1>8 DEF Restart, complianceVars, NoTask
  <2>2. \A q \in Requests : ~AtFile(q)' /\ \A j \in Keys : ~AddsKey(q, j)' /\ ~EntersWith(q, j)'
    BY <2>1 DEF AtFile, AddsKey, EntersWith
  <2>3. portalStops' # 0
    BY <2>1 DEF PortalIInv, PortalTypeOK
  <2>4. ASSUME FileInv PROVE FileInv'
    <3>1. OneAtFile' /\ ReadIsFile' /\ EnteringOnce' /\ AddedOnce'
      BY <2>2 DEF OneAtFile, ReadIsFile, EnteringOnce, AddedOnce
    <3>2. TmpIsContent'
      BY <2>1 DEF TmpIsContent
    <3>3. UsedIsGone'
      BY <2>1, <2>4 DEF FileInv, UsedIsGone
    <3> QED
      BY <3>1, <3>2, <3>3 DEF FileInv
  <2> QED
    BY <1>2, <2>1, <2>3, <2>4
<1>9. Goal
  <2>1. ASSUME NEW r \in Requests, NEW k \in Keys, RequestKey(r, k) PROVE Goal
    <3>1. /\ task[r].pc = "idle" /\ Begin(r, k, "adding") /\ k \notin issued /\ issued' = issued \cup {k}
          /\ UNCHANGED <<keyFile, logins, portalStops>>
      BY <2>1 DEF RequestKey, complianceVars
    <3> HIDE DEF Goal
    <3> QED
      BY <1>3, <3>1
  <2>2. ASSUME NEW r \in Requests, NEW k \in Keys, ConfirmLogin(r, k) PROVE Goal
    <3>1. CASE UNCHANGED <<task, overlaps>>
      BY <1>7, <2>2, <3>1 DEF ConfirmLogin, complianceVars
    <3>2. CASE Begin(r, k, "marking")
      <4>1. task[r].pc = "idle" /\ UNCHANGED <<keyFile, logins, portalStops, issued>>
        BY <2>2 DEF ConfirmLogin, complianceVars
      <4> HIDE DEF Goal
      <4> QED
        BY <1>3, <3>2, <4>1
    <3> QED
      BY <2>2, <3>1, <3>2 DEF ConfirmLogin
  <2>3. ASSUME NEW k \in Keys, \/ Expire(k) \/ PrepareLogin(k) \/ PrepareBan(k) \/ SessionExpires(k)
                               \/ \E b \in 1 .. MaxPrepared : ConfirmBan(k, b)
        PROVE  Goal
    BY <1>7, <2>3 DEF Expire, PrepareLogin, PrepareBan, SessionExpires, ConfirmBan, fileVars, complianceVars
  <2>4. CASE UNCHANGED portalVars
    BY <1>7, <2>4 DEF portalVars, fileVars, complianceVars
  <2> HIDE DEF Goal
  <2> QED
    BY <1>4, <1>5, <1>6, <1>8, <2>1, <2>2, <2>3, <2>4 DEF PortalNext
<1> QED
  BY <1>1, <1>9 DEF PortalIInv

\* Whatever requests fail, overlap or are repeated: the log is true and no action
\* acts twice, and as long as no two requests have the key file at once, a key
\* opens the portal once and the file says which keys still do.
THEOREM PortalInvHolds == PortalSpec => []PortalInv
<1>1. PortalInit => PortalIInv
  <2> SUFFICES ASSUME PortalInit PROVE PortalIInv
    OBVIOUS
  <2> USE DEF PortalInit, NoTask
  <2>3. PortalTypeOK
    <3>1. prepared \in 0 .. MaxPrepared /\ portalStops \in 0 .. MaxPortalStops
      BY PortalBounds
    <3>2. NoTask \in [pc : {"idle", "adding", "added", "marking", "marked", "entering"},
                      key : Keys \cup {NoKey}, read : SUBSET issued]
      OBVIOUS
    <3> QED
      BY <3>1, <3>2 DEF PortalTypeOK
  <2>4. TasksHaveKeys /\ LogIsTrue
    BY DEF TasksHaveKeys, LogIsTrue
  <2>5. Counters /\ WaitingBans
    BY DEF Counters, WaitingBans
  <2>1. PortalTypeOK /\ TasksHaveKeys /\ Counters /\ LogIsTrue /\ WaitingBans
    BY <2>3, <2>4, <2>5
  <2>2. FileInv /\ NoKeyIsLost
    BY DEF FileInv, OneAtFile, ReadIsFile, TmpIsContent, UsedIsGone, EnteringOnce, AddedOnce,
           NoKeyIsLost, AtFile, AddsKey, EntersWith
  <2> QED
    BY <2>1, <2>2 DEF PortalIInv
<1>2. PortalIInv => PortalInv
  <2> SUFFICES ASSUME PortalIInv PROVE KeysOpenOnce /\ FileFollowsUse
    BY DEF PortalIInv, PortalInv
  <2>1. KeysOpenOnce
    BY DEF PortalIInv, KeysOpenOnce, FileInv, UsedIsGone
  <2>2. ASSUME ~overlaps, portalStops = 0, \A r \in Requests : task[r].pc = "idle", NEW k \in issued
        PROVE  k \in keyFile <=> logins[k] = 0
    <3>1. k \in Keys /\ logins[k] \in Nat /\ logins[k] <= 1 /\ (logins[k] = 1 => k \notin keyFile)
      BY <2>2 DEF PortalIInv, PortalTypeOK, Counters, FileInv, UsedIsGone
    <3>2. k \in keyFile \/ logins[k] = 1
      BY <2>2 DEF PortalIInv, NoKeyIsLost, AddsKey, EntersWith
    <3> QED
      BY <3>1, <3>2
  <2> QED
    BY <2>1, <2>2 DEF FileFollowsUse
<1> QED
  BY <1>1, <1>2, PortalStep, PTL DEF PortalSpec

-----------------------------------------------------------------------------
(* Legal holds.  The newest position is in the cache, or was, or is on its  *)
(* way; and who wrote the cache last has yet to write the flags, or the     *)
(* flags say what the cache says.                                           *)

PositionsKnown ==
    /\ feed \in Seq(Nat) /\ cached <= newest
    /\ watcher.pos <= Len(holdLog)
    /\ \A o \in Operators : command[o].pos <= Len(holdLog)

NewestIsComing ==
    link # "down" /\ ~missed =>
        newest = Len(holdLog) \/ \E i \in DOMAIN feed : feed[i] = Len(holdLog)

LastWriter ==
    IF lastBy = "watcher" THEN watcher ELSE command[lastBy]

FlagsOf(p) == \A s \in InMap \ crossed : marks[s].held = HeldAt(p)

LastWriterGoesOn ==
    IF LastWriter.at = "marking" THEN LastWriter.pos = cached ELSE FlagsOf(cached)

HoldIInv == HoldTypeOK /\ PositionsKnown /\ NewestIsComing /\ LastWriterGoesOn

WatcherSet == [at : {"reading", "marking"}, pos : Positions]
CommandSet == [at : {"idle", "answered", "marking"}, pos : Positions]
MarkSet    == [at : {"out", "entering", "in"}, held : BOOLEAN]

\* What the log holds at a position does not change as it grows.
LEMMA GrowingLog ==
    ASSUME HoldTypeOK, feed \in Seq(Nat), \E hold \in BOOLEAN : Append1(hold)
    PROVE  /\ Len(holdLog') = Len(holdLog) + 1 /\ holdLog' \in Seq(BOOLEAN) /\ Len(holdLog') \in Positions
           /\ \A i \in 0..Len(holdLog) : HeldAt(i)' = HeldAt(i)
           /\ feed' \in Seq(Nat) /\ \A i \in DOMAIN feed' : feed'[i] \in 0..Len(holdLog')
           /\ missed' \in BOOLEAN /\ (~missed' => ~missed /\ link # "joining")
           /\ link = "up" => \E i \in DOMAIN feed' : feed'[i] = Len(holdLog')
<1> DEFINE n == Len(holdLog)
<1>1. PICK hold \in BOOLEAN : Append1(hold)
  OBVIOUS
<1>2. /\ holdLog \in Seq(BOOLEAN) /\ n \in Nat /\ n < MaxChanges /\ holdLog' = Append(holdLog, hold)
      /\ \A i \in 1..Len(feed) : feed[i] \in 0..n + 1 /\ feed[i] \in 0..n
      /\ missed \in BOOLEAN /\ missed' = (missed \/ link = "joining")
  BY <1>1 DEF HoldTypeOK, Append1
<1>3. /\ Len(holdLog') = n + 1 /\ holdLog' \in Seq(BOOLEAN)
      /\ \A i \in 1..n : holdLog'[i] = holdLog[i]
  BY <1>2
<1> HIDE DEF n
<1>4. \A i \in 0..n : HeldAt(i)' = HeldAt(i)
  BY <1>2, <1>3 DEF HeldAt
<1>5. n + 1 \in Positions
  BY <1>2, HoldBounds DEF Positions
<1>6. /\ feed' \in Seq(Nat) /\ \A i \in DOMAIN feed' : feed'[i] \in 0..(n + 1)
      /\ link = "up" => \E i \in DOMAIN feed' : feed'[i] = n + 1
  <2>1. CASE link # "up" /\ feed' = feed
    BY <1>2, <2>1
  <2>2. CASE link = "up" /\ feed' = Append(feed, Len(holdLog'))
    <3>1. feed' = Append(feed, n + 1) /\ n + 1 \in Nat
      BY <1>2, <1>3, <2>2
    <3>2. /\ feed' \in Seq(Nat) /\ Len(feed') = Len(feed) + 1 /\ feed'[Len(feed) + 1] = n + 1
          /\ \A i \in 1..Len(feed) : feed'[i] = feed[i]
      BY <3>1
    <3>4. Len(feed) + 1 \in DOMAIN feed' /\ Len(feed) \in Nat /\ n + 1 \in 0..n + 1
      BY <1>2, <3>2
    <3>5. \A i \in DOMAIN feed' : i \in 1..Len(feed) \/ i = Len(feed) + 1
      BY <3>2, <3>4
    <3>6. \A i \in DOMAIN feed' : feed'[i] \in 0..n + 1
      BY <1>2, <3>2, <3>4, <3>5
    <3> QED
      BY <3>2, <3>4, <3>6
  <2>3. CASE /\ link = "up" /\ feed # <<>>
             /\ feed' = Front(feed) \o <<Len(holdLog'), Len(holdLog)>>
    <3> DEFINE f == Front(feed)
               t == <<n + 1, n>>
    <3>1. feed' = f \o t
      BY <1>3, <2>3 DEF n
    <3>2. f \in Seq(Nat) /\ Len(f) = Len(feed) - 1 /\ \A i \in 1..Len(f) : f[i] = feed[i]
      BY <2>3, FrontProperties
    <3>3. t \in Seq(Nat) /\ Len(t) = 2 /\ t[1] = n + 1 /\ t[2] = n
      BY <1>2
    <3> HIDE DEF f, t
    <3>4. /\ feed' \in Seq(Nat) /\ Len(feed') = Len(f) + 2
          /\ \A i \in 1..Len(f) : feed'[i] = f[i]
          /\ feed'[Len(f) + 1] = n + 1 /\ feed'[Len(f) + 2] = n
      <4>1. Len(f) \in Nat
        BY <3>2
      <4>2. /\ f \o t \in Seq(Nat) /\ Len(f \o t) = Len(f) + Len(t)
            /\ \A i \in 1..Len(f) + Len(t) : (f \o t)[i] = IF i <= Len(f) THEN f[i] ELSE t[i - Len(f)]
        BY <3>2, <3>3, ConcatProperties
      <4> QED
        BY <3>1, <3>3, <4>1, <4>2
    <3>5. \A i \in DOMAIN feed' : i \in 1..Len(f) \/ i = Len(f) + 1 \/ i = Len(f) + 2
      BY <3>2, <3>4
    <3>6. Len(feed) \in Nat /\ Len(f) \in Nat /\ \A i \in 1..Len(f) : i \in 1..Len(feed)
      BY <3>2
    <3>7. Len(f) + 1 \in DOMAIN feed'
      BY <3>4, <3>6
    <3>8. n \in 0..n + 1 /\ n + 1 \in 0..n + 1
      BY <1>2
    <3>9. \A i \in DOMAIN feed' : feed'[i] \in 0..n + 1
      BY <1>2, <3>2, <3>4, <3>5, <3>6, <3>8
    <3> QED
      BY <3>4, <3>7, <3>9
  <2> QED
    BY <1>1, <2>1, <2>2, <2>3 DEF Append1
<1> QED
  BY <1>2, <1>3, <1>4, <1>5, <1>6 DEF n

LEMMA HoldTypes ==
    /\ HoldTypeOK => /\ watcher \in WatcherSet /\ command \in [Operators -> CommandSet]
                     /\ marks \in [HoldSessions -> MarkSet]
    /\ \A i \in Positions : /\ \A a \in {"idle", "answered", "marking"} : [at |-> a, pos |-> i] \in CommandSet
                            /\ \A a \in {"reading", "marking"} : [at |-> a, pos |-> i] \in WatcherSet
    /\ \A c \in CommandSet : c.pos \in Positions /\ [c EXCEPT !.at = "marking"] = [at |-> "marking", pos |-> c.pos]
    /\ \A w \in WatcherSet : w.pos \in Positions /\ [w EXCEPT !.at = "reading"] = [at |-> "reading", pos |-> w.pos]
    /\ \A m \in MarkSet, h \in BOOLEAN : [m EXCEPT !.held = h] \in MarkSet
                                      /\ [m EXCEPT !.held = h].held = h /\ [m EXCEPT !.held = h].at = m.at
    /\ 0 \in Positions
BY HoldBounds DEF HoldTypeOK, WatcherSet, CommandSet, MarkSet, Positions

\* The cache takes the value of a position.
LEMMA ApplyStep ==
    ASSUME HoldTypeOK, PositionsKnown, NEW i \in 0..Len(holdLog), NEW who, Apply(i, who),
           who \in Operators \cup {"watcher"}, UNCHANGED <<holdLog, link, missed>>
    PROVE  /\ {cached', newest'} \subseteq 0..Len(holdLog') /\ lastBy' \in Operators \cup {"watcher"}
           /\ cached' <= newest' /\ newest' >= newest /\ (i = Len(holdLog) => newest' = Len(holdLog))
<1>1. Len(holdLog) \in Nat /\ newest \in 0..Len(holdLog) /\ cached \in 0..Len(holdLog)
  BY DEF HoldTypeOK
<1> QED
  BY <1>1 DEF Apply

\* The flags of the sessions of the name take the value of a position.
LEMMA MarkStep ==
    ASSUME HoldTypeOK, PositionsKnown, LastWriterGoesOn, NEW who, NEW i \in 0..Len(holdLog),
           Mark(HeldAt(i), who), UNCHANGED <<holdLog, cached>>, who = lastBy => i = cached
    PROVE  /\ marks' \in [HoldSessions -> MarkSet]
           /\ crossed' \subseteq HoldSessions
           /\ FlagsOf(cached)'
<1>1. HeldAt(i) \in BOOLEAN /\ (HeldAt(cached)' <=> HeldAt(cached))
  BY DEF HeldAt, HoldTypeOK
<1>2. /\ marks' = [s \in HoldSessions |-> IF s \in InMap THEN [marks[s] EXCEPT !.held = HeldAt(i)]
                                          ELSE marks[s]]
      /\ crossed' = IF lastBy = who THEN crossed \ InMap ELSE crossed \cup InMap
      /\ InMap \subseteq HoldSessions
  BY DEF Mark, InMap
<1>3. \A s \in HoldSessions : /\ marks[s] \in MarkSet
                              /\ marks'[s].at = marks[s].at
                              /\ s \in InMap => marks'[s].held = HeldAt(i)
                              /\ marks'[s] \in MarkSet
  <2>1. marks \in [HoldSessions -> MarkSet] /\ HeldAt(i) \in BOOLEAN
    BY <1>1, HoldTypes
  <2> QED
    BY <1>2, <2>1, HoldTypes
<1>4. marks' \in [HoldSessions -> MarkSet]
  BY <1>1, <1>2, <1>3
<1>5. InMap' = InMap
  BY <1>3 DEF InMap
<1>6. FlagsOf(cached)'
  <2>1. CASE lastBy = who
    <3>1. \A s \in InMap : marks'[s].held = HeldAt(cached)
      BY <1>2, <1>3, <2>1
    <3>2. \A s \in InMap' : marks'[s].held = HeldAt(cached)
      BY <1>5, <3>1
    <3> QED
      BY <3>2 DEF FlagsOf, HeldAt
  <2>2. CASE lastBy # who
    BY <1>2, <1>5, <2>2 DEF FlagsOf
  <2> QED
    BY <2>1, <2>2
<1> QED
  BY <1>2, <1>4, <1>6 DEF HoldTypeOK

\* Who writes the cache and the flags stays the same, with what they have written.
LEMMA WriterKept ==
    ASSUME HoldTypeOK, LastWriterGoesOn,
           UNCHANGED <<cached, lastBy, marks, crossed>>, HeldAt(cached)' = HeldAt(cached),
           LastWriter'.at = "marking" <=> LastWriter.at = "marking",
           LastWriter.at = "marking" => LastWriter'.pos = LastWriter.pos
    PROVE  LastWriterGoesOn'
BY DEF LastWriterGoesOn, FlagsOf, InMap

LEMMA WriterKnown ==
    ASSUME HoldTypeOK
    PROVE  /\ lastBy = "watcher" => LastWriter = watcher
           /\ lastBy \in Operators => LastWriter = command[lastBy]
           /\ lastBy # "watcher" => lastBy \in Operators
BY HoldBounds DEF LastWriter, HoldTypeOK

LEMMA HoldStep == HoldIInv /\ [HoldNext]_holdVars => HoldIInv'
<1> SUFFICES ASSUME HoldIInv, [HoldNext]_holdVars PROVE HoldIInv'
  OBVIOUS
<1>1. HoldTypeOK /\ PositionsKnown /\ NewestIsComing /\ LastWriterGoesOn
  BY DEF HoldIInv
<1>2. /\ Len(holdLog) \in Nat /\ cached \in 0..Len(holdLog) /\ newest \in 0..Len(holdLog)
      /\ watcher.pos \in 0..Len(holdLog) /\ \A o \in Operators : command[o].pos \in 0..Len(holdLog)
      /\ watcher.pos \in Positions /\ \A o \in Operators : command[o].pos \in Positions
      /\ 0..Len(holdLog) \subseteq Positions
  <2>1. /\ Len(holdLog) \in Positions /\ cached \in 0..Len(holdLog) /\ newest \in 0..Len(holdLog)
        /\ watcher.pos <= Len(holdLog) /\ \A o \in Operators : command[o].pos <= Len(holdLog)
    BY <1>1 DEF HoldTypeOK, PositionsKnown
  <2>2. watcher.pos \in Positions /\ \A o \in Operators : command[o].pos \in Positions
    BY <1>1, HoldTypes
  <2> QED
    BY <2>1, <2>2, HoldBounds DEF Positions
<1>3. ASSUME \E hold \in BOOLEAN : Append1(hold),
             UNCHANGED <<link, cuts, cached, watcher, marks, newest, lastBy, crossed>>,
             \/ UNCHANGED command
             \/ \E o \in Operators : /\ command[o].at = "idle"
                                     /\ command' = [command EXCEPT ![o] = [at |-> "answered", pos |-> Len(holdLog')]]
      PROVE  HoldIInv'
  <2>1. /\ Len(holdLog') = Len(holdLog) + 1 /\ holdLog' \in Seq(BOOLEAN) /\ Len(holdLog') \in Positions
        /\ \A i \in 0..Len(holdLog) : HeldAt(i)' = HeldAt(i)
        /\ feed' \in Seq(Nat) /\ \A i \in DOMAIN feed' : feed'[i] \in 0..Len(holdLog')
        /\ missed' \in BOOLEAN /\ (~missed' => ~missed /\ link # "joining")
        /\ link = "up" => \E i \in DOMAIN feed' : feed'[i] = Len(holdLog')
    BY <1>1, <1>3, GrowingLog DEF PositionsKnown
  <2>2. \A o \in Operators : \/ command'[o] = command[o]
                             \/ command'[o].at = "answered" /\ command[o].at = "idle" /\ command'[o].pos = Len(holdLog')
    BY <1>1, <1>3 DEF HoldTypeOK
  <2>3. command' \in [Operators -> CommandSet]
    BY <1>1, <1>3, <2>1, HoldTypes
  <2>4. HoldTypeOK'
    BY <1>1, <1>2, <1>3, <2>1, <2>3 DEF HoldTypeOK, CommandSet
  <2>5. PositionsKnown'
    BY <1>1, <1>2, <1>3, <2>1, <2>2, SMTT(30) DEF PositionsKnown
  <2>6. NewestIsComing'
    BY <1>1, <1>3, <2>1 DEF NewestIsComing, HoldTypeOK
  <2>7. /\ LastWriter'.at = "marking" <=> LastWriter.at = "marking"
        /\ LastWriter.at = "marking" => LastWriter'.pos = LastWriter.pos
    BY <1>1, <1>3, <2>2, WriterKnown DEF LastWriter
  <2>8. HeldAt(cached)' = HeldAt(cached)
    BY <1>2, <1>3, <2>1 DEF HeldAt
  <2> QED
    BY <1>1, <1>3, <2>4, <2>5, <2>6, <2>7, <2>8, WriterKept DEF HoldIInv

<1>4. ASSUME NEW i \in 0..Len(holdLog), NEW who \in Operators \cup {"watcher"}, Apply(i, who),
             UNCHANGED <<holdLog, link, cuts, marks, missed, crossed>>,
             \/ feed' = feed
             \/ feed # <<>> /\ i = Head(feed) /\ feed' = Tail(feed),
             \/ /\ who = "watcher" /\ watcher' = [at |-> "marking", pos |-> i] /\ command' = command
             \/ /\ who \in Operators /\ command[who].at = "answered" /\ command[who].pos = i
                /\ command' = [command EXCEPT ![who].at = "marking"] /\ watcher' = watcher
      PROVE  HoldIInv'
  <2>1. /\ {cached', newest'} \subseteq 0..Len(holdLog') /\ lastBy' = who
        /\ cached' <= newest' /\ newest' >= newest /\ (i = Len(holdLog) => newest' = Len(holdLog))
        /\ cached' = i
    BY <1>1, <1>4, ApplyStep DEF Apply
  <2>2. /\ watcher' \in WatcherSet /\ watcher'.pos \in 0..Len(holdLog')
        /\ command' \in [Operators -> CommandSet]
        /\ \A o \in Operators : command'[o].pos \in 0..Len(holdLog')
    <3>1. i \in Positions /\ 0..Len(holdLog') = 0..Len(holdLog)
      BY <1>2, <1>4
    <3>2. CASE who = "watcher" /\ watcher' = [at |-> "marking", pos |-> i] /\ command' = command
      BY <1>1, <1>2, <3>1, <3>2, HoldTypes
    <3>3. CASE who \in Operators /\ command[who].pos = i /\ command' = [command EXCEPT ![who].at = "marking"]
               /\ watcher' = watcher
      <4>1. command' = [command EXCEPT ![who] = [at |-> "marking", pos |-> i]]
        BY <1>1, <3>3, HoldTypes
      <4>2. [at |-> "marking", pos |-> i] \in CommandSet
        BY <3>1, HoldTypes
      <4>3. command \in [Operators -> CommandSet] /\ watcher \in WatcherSet
        BY <1>1, HoldTypes
      <4> QED
        BY <1>2, <3>1, <3>3, <4>1, <4>2, <4>3
    <3> QED
      BY <1>4, <3>2, <3>3
  <2>3. /\ feed' \in Seq(Nat) /\ \A j \in DOMAIN feed' : feed'[j] \in 0..Len(holdLog)
        /\ \A j \in DOMAIN feed : feed[j] = i \/ \E l \in DOMAIN feed' : feed'[l] = feed[j]
    <3>1. CASE feed' = feed
      BY <1>1, <3>1 DEF HoldTypeOK, PositionsKnown
    <3>2. CASE feed # <<>> /\ i = Head(feed) /\ feed' = Tail(feed)
      <4>1. /\ feed \in Seq(Nat) /\ feed' \in Seq(Nat) /\ Len(feed') = Len(feed) - 1 /\ Len(feed) \in Nat
            /\ \A j \in 1..Len(feed') : feed'[j] = feed[j + 1]
        BY <1>1, <3>2, HeadTailProperties DEF PositionsKnown
      <4>2. \A j \in DOMAIN feed : feed[j] \in 0..Len(holdLog)
        BY <1>1 DEF HoldTypeOK
      <4>3. DOMAIN feed = 1..Len(feed) /\ DOMAIN feed' = 1..Len(feed') /\ Len(feed) - 1 \in Nat
        BY <4>1, LenProperties, EmptySeq, <3>2
      <4>4. ASSUME NEW j \in DOMAIN feed PROVE feed[j] = i \/ \E l \in DOMAIN feed' : feed'[l] = feed[j]
        <5>1. CASE j = 1
          BY <3>2, <5>1, <4>1
        <5>2. CASE j # 1
          <6>1. j - 1 \in 1..Len(feed') /\ (j - 1) + 1 = j
            BY <4>1, <4>3, <5>2, SMTT(30)
          <6>2. j - 1 \in DOMAIN feed' /\ feed'[j - 1] = feed[j]
            BY <4>1, <4>3, <6>1
          <6> QED
            BY <6>2
        <5> QED
          BY <5>1, <5>2
      <4>5. ASSUME NEW j \in DOMAIN feed' PROVE feed'[j] \in 0..Len(holdLog)
        <5>1. j \in 1..Len(feed') /\ j + 1 \in DOMAIN feed
          BY <4>1, <4>3, SMTT(30)
        <5> QED
          BY <4>1, <4>2, <5>1
      <4> QED
        BY <4>1, <4>4, <4>5
    <3> QED
      BY <1>4, <3>1, <3>2
  <2>4. HoldTypeOK'
    BY <1>1, <1>4, <2>1, <2>2, <2>3 DEF HoldTypeOK, WatcherSet, CommandSet
  <2>5. PositionsKnown'
    BY <1>4, <2>1, <2>2, <2>3 DEF PositionsKnown
  <2>6. NewestIsComing'
    <3>1. newest' \in 0..Len(holdLog) /\ Len(holdLog) \in Nat /\ newest \in 0..Len(holdLog)
      BY <1>2, <1>4, <2>1
    <3>2. newest = Len(holdLog) => newest' = Len(holdLog)
      BY <2>1, <3>1
    <3> QED
      BY <1>1, <1>4, <2>1, <2>3, <3>2 DEF NewestIsComing
  <2>7. LastWriterGoesOn'
    <3>1. LastWriter'.at = "marking" /\ LastWriter'.pos = i
      BY <1>1, <1>4, <2>1, HoldBounds DEF LastWriter, HoldTypeOK
    <3> QED
      BY <2>1, <3>1 DEF LastWriterGoesOn
  <2> QED
    BY <2>4, <2>5, <2>6, <2>7 DEF HoldIInv
<1>5. ASSUME NEW who \in Operators \cup {"watcher"}, NEW i \in 0..Len(holdLog), Mark(HeldAt(i), who),
             UNCHANGED <<holdLog, feed, link, cuts, cached, newest, missed, lastBy>>,
             \/ /\ who = "watcher" /\ watcher.at = "marking" /\ watcher.pos = i
                /\ watcher' = [watcher EXCEPT !.at = "reading"] /\ command' = command
             \/ /\ who \in Operators /\ command[who].at = "marking" /\ command[who].pos = i
                /\ command' = [command EXCEPT ![who] = [at |-> "idle", pos |-> 0]] /\ watcher' = watcher
      PROVE  HoldIInv'
  <2>1. who = lastBy => LastWriter.at = "marking" /\ LastWriter.pos = i
    BY <1>1, <1>5, WriterKnown, HoldBounds
  <2>2. who = lastBy => i = cached
    BY <1>1, <2>1 DEF LastWriterGoesOn
  <2>3. /\ marks' \in [HoldSessions -> MarkSet]
        /\ crossed' \subseteq HoldSessions
        /\ FlagsOf(cached)'
    BY <1>1, <1>5, <2>2, MarkStep
  <2>4. /\ watcher' \in WatcherSet /\ watcher'.pos = watcher.pos
        /\ command' \in [Operators -> CommandSet]
        /\ \A o \in Operators : command'[o].pos \in 0..Len(holdLog)
    <3>1. CASE watcher' = [watcher EXCEPT !.at = "reading"] /\ command' = command
      <4>1. command \in [Operators -> CommandSet] /\ watcher \in WatcherSet
        BY <1>1, HoldTypes
      <4>2. watcher' = [at |-> "reading", pos |-> watcher.pos] /\ watcher.pos \in Positions
        BY <3>1, <4>1, HoldTypes
      <4> QED
        BY <1>2, <3>1, <4>1, <4>2 DEF WatcherSet
    <3>2. CASE who \in Operators /\ command' = [command EXCEPT ![who] = [at |-> "idle", pos |-> 0]] /\ watcher' = watcher
      <4>2. [at |-> "idle", pos |-> 0] \in CommandSet /\ 0 \in 0..Len(holdLog)
        BY <1>2, HoldTypes DEF CommandSet
      <4>3. command \in [Operators -> CommandSet] /\ watcher \in WatcherSet
        BY <1>1, HoldTypes
      <4> QED
        BY <1>2, <3>2, <4>2, <4>3
    <3> QED
      BY <1>5, <3>1, <3>2
  <2>5. HoldTypeOK'
    BY <1>1, <1>5, <2>3, <2>4 DEF HoldTypeOK, WatcherSet, CommandSet, MarkSet
  <2>6. PositionsKnown' /\ NewestIsComing'
    BY <1>1, <1>2, <1>5, <2>4 DEF PositionsKnown, NewestIsComing
  <2>7. LastWriterGoesOn'
    <3>1. who = lastBy => LastWriter'.at # "marking"
      BY <1>1, <1>5, HoldBounds DEF LastWriter, HoldTypeOK
    <3>2. who # lastBy => LastWriter' = LastWriter
      BY <1>1, <1>5, HoldBounds DEF LastWriter, HoldTypeOK
    <3>3. CASE LastWriter'.at = "marking"
      BY <1>1, <1>5, <3>1, <3>2, <3>3 DEF LastWriterGoesOn
    <3>4. CASE LastWriter'.at # "marking"
      BY <2>3, <3>4 DEF LastWriterGoesOn
    <3> QED
      BY <3>3, <3>4
  <2> QED
    BY <2>5, <2>6, <2>7 DEF HoldIInv
<1>6. CASE Subscribe \/ Join \/ Cut
  <2>1. UNCHANGED <<holdLog, cached, watcher, command, marks, newest, lastBy, crossed>>
    BY <1>6 DEF Subscribe, Join, Cut
  <2>2. /\ link' \in {"down", "joining", "up"} /\ cuts' \in 0..MaxCuts /\ missed' \in BOOLEAN
        /\ feed' \in Seq(Nat) /\ \A i \in DOMAIN feed' : feed'[i] \in 0..Len(holdLog)
    <3>1. /\ <<Len(holdLog)>> \in Seq(Nat) /\ <<>> \in Seq(Nat) /\ DOMAIN <<>> = {}
          /\ DOMAIN <<Len(holdLog)>> = {1} /\ <<Len(holdLog)>>[1] = Len(holdLog)
      BY <1>2
    <3>2. CASE Subscribe
      <4>1. link' = "joining" /\ cuts' = cuts /\ missed' = FALSE /\ feed' = <<Len(holdLog)>>
        BY <3>2 DEF Subscribe
      <4>2. \A i \in DOMAIN feed' : feed'[i] = Len(holdLog)
        BY <3>1, <4>1
      <4>3. cuts \in 0..MaxCuts /\ Len(holdLog) \in 0..Len(holdLog)
        BY <1>1, <1>2 DEF HoldTypeOK
      <4> QED
        BY <3>1, <4>1, <4>2, <4>3
    <3>3. CASE Join
      BY <1>1, <3>3 DEF Join, HoldTypeOK, PositionsKnown
    <3>4. CASE Cut
      <4>1. cuts' \in 0..MaxCuts
        BY <1>1, <3>4, HoldBounds DEF Cut, HoldTypeOK
      <4> QED
        BY <1>1, <3>1, <3>4, <4>1 DEF Cut, HoldTypeOK
    <3> QED
      BY <1>6, <3>2, <3>3, <3>4
  <2>3. HoldTypeOK' /\ PositionsKnown'
    BY <1>1, <2>1, <2>2 DEF HoldTypeOK, PositionsKnown
  <2>4. NewestIsComing'
    <3>1. CASE Subscribe
      <4>1. 1 \in DOMAIN feed' /\ feed'[1] = Len(holdLog')
        BY <2>1, <3>1 DEF Subscribe
      <4> QED
        BY <4>1 DEF NewestIsComing
    <3>2. CASE Join \/ Cut
      BY <1>1, <3>2 DEF Join, Cut, NewestIsComing
    <3> QED
      BY <1>6, <3>1, <3>2
  <2>5. LastWriterGoesOn'
    BY <1>1, <2>1 DEF LastWriterGoesOn, LastWriter, FlagsOf, InMap, HeldAt
  <2> QED
    BY <2>3, <2>4, <2>5 DEF HoldIInv
<1>7. ASSUME NEW o \in Operators, AnswerLost(o) PROVE HoldIInv'
  <2>1. /\ UNCHANGED <<holdLog, feed, link, cuts, cached, watcher, marks, newest, missed, lastBy, crossed>>
        /\ command' = [command EXCEPT ![o] = [at |-> "idle", pos |-> 0]] /\ command[o].at = "answered"
    BY <1>7 DEF AnswerLost
  <2>2. /\ command' \in [Operators -> CommandSet]
        /\ \A q \in Operators : \/ command'[q] = command[q]
                                \/ command'[q].at = "idle" /\ command[q].at = "answered" /\ command'[q].pos = 0
    BY <1>1, <1>2, <2>1, HoldTypes
  <2>3. HoldTypeOK' /\ PositionsKnown' /\ NewestIsComing'
    BY <1>1, <1>2, <2>1, <2>2 DEF CommandSet, HoldTypeOK, PositionsKnown, NewestIsComing
  <2>4. /\ LastWriter'.at = "marking" <=> LastWriter.at = "marking"
        /\ LastWriter.at = "marking" => LastWriter'.pos = LastWriter.pos
    BY <1>1, <2>1, <2>2, WriterKnown DEF LastWriter
  <2>5. HeldAt(cached)' = HeldAt(cached)
    BY <2>1 DEF HeldAt
  <2> QED
    BY <1>1, <2>1, <2>3, <2>4, <2>5, WriterKept DEF HoldIInv
<1>8. ASSUME NEW s \in HoldSessions, ReadHold(s) \/ EnterMap(s) \/ LeaveHeld(s) PROVE HoldIInv'
  <2>1. UNCHANGED <<holdLog, feed, link, cuts, cached, watcher, command, newest, missed, lastBy>>
    BY <1>8 DEF ReadHold, EnterMap, LeaveHeld
  <2>2. /\ marks' \in [HoldSessions -> MarkSet]
        /\ crossed' \subseteq HoldSessions
        /\ \A q \in HoldSessions : q # s => marks'[q] = marks[q]
        /\ crossed \subseteq crossed' \cup {s}
    <3>1. HeldAt(cached) \in BOOLEAN /\ marks \in [HoldSessions -> MarkSet] /\ crossed \subseteq HoldSessions
      BY <1>1 DEF HeldAt, HoldTypeOK, MarkSet
    <3>2. marks[s] \in MarkSet
      BY <3>1
    <3>3. \E m \in MarkSet : marks' = [marks EXCEPT ![s] = m]
      <4>1. CASE ReadHold(s)
        BY <3>1, <4>1 DEF ReadHold, MarkSet
      <4>2. CASE EnterMap(s)
        <5>1. [marks[s] EXCEPT !.at = "in"] \in MarkSet
          BY <3>2 DEF MarkSet
        <5> QED
          BY <3>1, <4>2, <5>1 DEF EnterMap
      <4>3. CASE LeaveHeld(s)
        BY <4>3 DEF LeaveHeld, MarkSet
      <4> QED
        BY <1>8, <4>1, <4>2, <4>3
    <3>4. crossed' \subseteq HoldSessions /\ crossed \subseteq crossed' \cup {s}
      BY <1>8, <3>1 DEF ReadHold, EnterMap, LeaveHeld
    <3> QED
      BY <3>1, <3>3, <3>4
  <2>3. s \in InMap' \ crossed' => marks'[s].held = HeldAt(cached)
    BY <1>1, <1>8 DEF ReadHold, EnterMap, LeaveHeld, InMap, HoldTypeOK
  <2>4. HoldTypeOK' /\ PositionsKnown' /\ NewestIsComing'
    BY <1>1, <2>1, <2>2 DEF HoldTypeOK, PositionsKnown, NewestIsComing, MarkSet
  <2>5. FlagsOf(cached) => FlagsOf(cached)'
    BY <2>1, <2>2, <2>3 DEF FlagsOf, InMap, HeldAt
  <2>6. LastWriterGoesOn'
    BY <1>1, <2>1, <2>5 DEF LastWriterGoesOn, LastWriter
  <2> QED
    BY <2>4, <2>6 DEF HoldIInv
<1>9. CASE UNCHANGED holdVars
  BY <1>1, <1>9 DEF holdVars, HoldIInv, HoldTypeOK, PositionsKnown, NewestIsComing, LastWriterGoesOn,
                    LastWriter, FlagsOf, InMap, HeldAt
<1>10. ASSUME ChangeElsewhere PROVE HoldIInv'
  BY <1>3, <1>10 DEF ChangeElsewhere
<1>11. ASSUME NEW o \in Operators, Ask(o) PROVE HoldIInv'
  BY <1>3, <1>11 DEF Ask
<1>12. CASE ReadEvent
  <2>1. Head(feed) \in 0..Len(holdLog) /\ feed # <<>>
    <3>1. feed \in Seq(Nat) /\ feed # <<>> /\ Len(feed) \in Nat \ {0}
      BY <1>1, <1>12, EmptySeq DEF ReadEvent, PositionsKnown
    <3>2. Head(feed) = feed[1] /\ 1 \in DOMAIN feed
      BY <3>1
    <3> QED
      BY <1>1, <3>1, <3>2 DEF HoldTypeOK
  <2> QED
    BY <1>4, <1>12, <2>1 DEF ReadEvent
<1>13. CASE MarkEvent
  BY <1>2, <1>5, <1>13 DEF MarkEvent
<1>14. ASSUME NEW o \in Operators, ApplyAnswer(o) PROVE HoldIInv'
  BY <1>2, <1>4, <1>14 DEF ApplyAnswer
<1>15. ASSUME NEW o \in Operators, MarkAnswer(o) PROVE HoldIInv'
  BY <1>2, <1>5, <1>15 DEF MarkAnswer
<1> QED
  BY <1>6, <1>7, <1>8, <1>9, <1>10, <1>11, <1>12, <1>13, <1>14, <1>15 DEF HoldNext

\* Legal holds follow raftd's log: the cache once the events are read, and the
\* flags of the sessions once nobody is between the two locks, but for writes
\* applied out of order and events between a snapshot and its subscription.
THEOREM HoldInvHolds == HoldSpec => []HoldInv
<1>1. HoldInit => HoldIInv
  <2> SUFFICES ASSUME HoldInit PROVE HoldIInv
    OBVIOUS
  <2>1. Len(holdLog) = 0 /\ holdLog \in Seq(BOOLEAN) /\ feed \in Seq(Nat) /\ DOMAIN feed = {} /\ 0 \in Positions
    BY HoldBounds DEF HoldInit, Positions
  <2>2. HoldTypeOK
    <3>1. /\ cuts \in 0..MaxCuts /\ {cached, newest} \subseteq 0..Len(holdLog) /\ Len(holdLog) \in Positions
          /\ \A i \in DOMAIN feed : feed[i] \in 0..Len(holdLog)
      BY <2>1, HoldBounds DEF HoldInit
    <3> QED
      BY <2>1, <3>1 DEF HoldInit, HoldTypeOK
  <2>3. PositionsKnown /\ NewestIsComing
    BY <2>1 DEF HoldInit, PositionsKnown, NewestIsComing
  <2>4. LastWriterGoesOn
    BY DEF HoldInit, LastWriterGoesOn, LastWriter, FlagsOf, InMap
  <2> QED
    BY <2>2, <2>3, <2>4 DEF HoldIInv
<1>2. HoldIInv => HoldInv
  <2> SUFFICES ASSUME HoldIInv PROVE CacheFollowsLog /\ FlagsFollowCache
    BY DEF HoldIInv, HoldInv
  <2>1. CacheFollowsLog
    <3> SUFFICES ASSUME CaughtUp, ~missed, ~(cached < newest) PROVE cached = Len(holdLog)
      BY DEF CacheFollowsLog, Truth
    <3>1. newest = Len(holdLog)
      BY DEF HoldIInv, NewestIsComing, CaughtUp
    <3> QED
      BY <3>1 DEF HoldIInv, HoldTypeOK, PositionsKnown
  <2>2. FlagsFollowCache
    BY WriterKnown DEF HoldIInv, FlagsFollowCache, LastWriterGoesOn, FlagsOf, HoldTypeOK
  <2> QED
    BY <2>1, <2>2
<1> QED
  BY <1>1, <1>2, HoldStep, PTL DEF HoldSpec

-----------------------------------------------------------------------------
(* The event log.  A day whose file goes to the upload is over, or already  *)
(* counted as late; its object has what its file had.                       *)

Handle == [buffer : SUBSET (1..MaxLogged), exists : BOOLEAN]
Over(d) == d < today \/ d \in late

OneDayOpen ==
    /\ \A d \in DOMAIN open : open[d] \in Handle
    /\ DOMAIN open \subseteq {logDate} /\ touched \subseteq {logDate} /\ logDate <= today
    /\ DOMAIN disk \subseteq 0..today /\ batches \in Seq(SUBSET Days)

LoggersDated ==
    \A w \in Loggers : logger[w] # NoLine =>
        /\ logger[w].line \in DOMAIN dated /\ logger[w].day = dated[logger[w].line]
        /\ logger[w].day <= today

UploadsAreOver ==
    /\ \A i \in DOMAIN batches : \A d \in batches[i] : Over(d)
    /\ \A d \in upload.rest : Over(d)
    /\ upload.at = "put" => Over(upload.day)
    /\ \A d \in DOMAIN bucket : Over(d)

HandlesHaveFiles == \A d \in DOMAIN open : (open[d].exists /\ d \in DOMAIN disk) \/ Over(d)

ObjectsInFiles == \A d \in DOMAIN bucket \cap DOMAIN disk : d \in late \/ bucket[d] \subseteq disk[d]

PutHasObject ==
    upload.at = "put" =>
        \/ upload.day \in late
        \/ /\ upload.day \in DOMAIN bucket
           /\ upload.day \in DOMAIN disk => disk[upload.day] \subseteq bucket[upload.day]

LogIInv ==
    /\ LogTypeOK /\ OneDayOpen /\ LoggersDated /\ UploadsAreOver /\ HandlesHaveFiles
    /\ ObjectsInFiles /\ PutHasObject /\ LinesAreKept

\* What a flush writes: every buffered line gets into its file, or its day is late.
LEMMA FlushFacts ==
    ASSUME LogIInv
    PROVE  /\ DOMAIN Flushed = DOMAIN disk /\ FlushedLate \subseteq DOMAIN open
           /\ \A d \in DOMAIN disk : /\ disk[d] \subseteq Flushed[d] /\ Flushed[d] \subseteq 1..MaxLogged
                                     /\ Over(d) => Flushed[d] = disk[d] \/ d \in late \cup FlushedLate
           /\ \A d \in DOMAIN open : \A i \in open[d].buffer :
                 (d \in DOMAIN disk /\ i \in Flushed[d]) \/ d \in late \cup FlushedLate
<1>1. /\ \A d \in DOMAIN open : open[d] \in Handle
      /\ \A d \in DOMAIN disk : disk[d] \subseteq 1..MaxLogged
      /\ today \in Int /\ HandlesHaveFiles
  BY DEF LogIInv, LogTypeOK, OneDayOpen, Days
<1>2. /\ DOMAIN Flushed = DOMAIN disk
      /\ \A d \in DOMAIN disk : Flushed[d] = IF d \in DOMAIN open /\ open[d].exists
                                             THEN disk[d] \cup open[d].buffer ELSE disk[d]
  BY DEF Flushed
<1>3. \A d \in DOMAIN open : open[d].buffer # {} /\ Over(d) => d \in late \cup FlushedLate
  BY <1>1 DEF FlushedLate, Over
<1>4. \A d \in DOMAIN disk : /\ disk[d] \subseteq Flushed[d] /\ Flushed[d] \subseteq 1..MaxLogged
                             /\ Over(d) => Flushed[d] = disk[d] \/ d \in late \cup FlushedLate
  BY <1>1, <1>2, <1>3 DEF Handle
<1>5. \A d \in DOMAIN open : \A i \in open[d].buffer :
         (d \in DOMAIN disk /\ i \in Flushed[d]) \/ d \in late \cup FlushedLate
  BY <1>1, <1>2, <1>3 DEF HandlesHaveFiles
<1> QED
  BY <1>2, <1>4, <1>5 DEF FlushedLate

LEMMA WriteLineStep ==
    ASSUME LogIInv, NEW w \in Loggers, WriteLine(w)
    PROVE  LogIInv'
<1> DEFINE n == logger[w].line
           d == logger[w].day
           turn == d # logDate
           kept == IF turn THEN << >> ELSE open
           onDisk == IF turn THEN Flushed ELSE disk
           handle == IF d \in DOMAIN kept THEN kept[d] ELSE [buffer |-> {}, exists |-> TRUE]
<1>1. /\ LogTypeOK /\ OneDayOpen /\ LoggersDated /\ UploadsAreOver /\ HandlesHaveFiles
      /\ ObjectsInFiles /\ PutHasObject /\ LinesAreKept
  BY DEF LogIInv
<1>2. /\ n \in DOMAIN dated /\ d = dated[n] /\ d \in Days /\ d <= today /\ n \in 1..MaxLogged
      /\ today \in Days /\ logDate \in Days
  BY <1>1 DEF WriteLine, LoggersDated, LogTypeOK
<1>3. /\ disk' = IF d \in DOMAIN kept \cup DOMAIN onDisk THEN onDisk ELSE With(onDisk, d, {})
      /\ open' = With(kept, d, [handle EXCEPT !.buffer = @ \cup {n}])
      /\ touched' = IF turn THEN {d} ELSE touched \cup {d}
      /\ batches' = IF turn /\ touched # {} THEN Append(batches, touched) ELSE batches
      /\ late' = late \cup (IF d < logDate THEN touched ELSE {})
                      \cup (IF d < today THEN {d} ELSE {})
                      \cup (IF turn THEN FlushedLate ELSE {})
      /\ logDate' = d
      /\ logger' = [logger EXCEPT ![w] = NoLine]
      /\ UNCHANGED <<today, dated, bucket, upload, stops, dropped>>
  BY DEF WriteLine
<1>4. DOMAIN kept \subseteq {d} /\ DOMAIN onDisk = DOMAIN disk /\ (turn => DOMAIN kept = {})
  BY <1>1, FlushFacts DEF OneDayOpen
<1>5. /\ \A x \in DOMAIN disk : /\ disk[x] \subseteq onDisk[x] /\ onDisk[x] \subseteq 1..MaxLogged
                                /\ Over(x) => onDisk[x] = disk[x] \/ x \in late'
  BY <1>1, <1>3, FlushFacts DEF LogTypeOK
<1>6. handle \in Handle /\ (d \in DOMAIN kept => d \in DOMAIN open /\ handle = open[d] /\ ~turn)
      /\ (d \notin DOMAIN kept => handle.exists /\ handle.buffer = {})
  BY <1>1, <1>4 DEF OneDayOpen, Handle
<1> HIDE DEF n, d, handle
<1>7. /\ DOMAIN open' = {d} /\ open'[d] = [handle EXCEPT !.buffer = @ \cup {n}]
  <2> DEFINE g == [handle EXCEPT !.buffer = @ \cup {n}]
  <2>1. open' = With(kept, d, g)
    BY <1>3
  <2> HIDE DEF g, kept
  <2>2. DOMAIN open' = DOMAIN kept \cup {d} /\ open'[d] = g
    BY <2>1 DEF With
  <2> QED
    BY <1>4, <2>2 DEF g
<1>8. /\ open'[d] \in Handle /\ open'[d].exists = handle.exists /\ n \in open'[d].buffer
      /\ open'[d].buffer = handle.buffer \cup {n}
  BY <1>2, <1>6, <1>7 DEF Handle
<1> HIDE DEF kept, onDisk
<1>9. /\ DOMAIN disk \subseteq DOMAIN disk' /\ DOMAIN disk' \subseteq DOMAIN disk \cup {d}
      /\ \A x \in DOMAIN disk : disk'[x] = onDisk[x]
      /\ d \notin DOMAIN disk /\ d \in DOMAIN disk' => disk'[d] = {}
      /\ d \notin DOMAIN kept => d \in DOMAIN disk'
  <2>1. CASE d \in DOMAIN kept \cup DOMAIN onDisk
    BY <1>3, <1>4, <2>1
  <2>2. CASE d \notin DOMAIN kept \cup DOMAIN onDisk
    <3>1. disk' = With(onDisk, d, {})
      BY <1>3, <2>2
    <3>2. /\ DOMAIN disk' = DOMAIN onDisk \cup {d} /\ disk'[d] = {}
          /\ \A x \in DOMAIN onDisk \ {d} : disk'[x] = onDisk[x]
      BY <3>1 DEF With
    <3> QED
      BY <1>4, <2>2, <3>2
  <2> QED
    BY <2>1, <2>2
<1>10. /\ late \subseteq late' /\ (d < today => d \in late') /\ late' \subseteq Days
       /\ (d < logDate => touched \subseteq late') /\ (turn => FlushedLate \subseteq late')
       /\ (Over(d) => d \in late')
  BY <1>1, <1>2, <1>3, FlushFacts DEF LogTypeOK, Over
<1>11. \A x : Over(x) => Over(x)'
  BY <1>3, <1>10 DEF Over
<1>12. /\ \A v \in Loggers : v # w => logger'[v] = logger[v]
       /\ logger'[w] = NoLine /\ logger' \in [Loggers -> [line : 0..MaxLogged, day : Days]]
  <2>1. NoLine \in [line : 0..MaxLogged, day : Days]
    BY LogBounds DEF NoLine, Days
  <2> QED
    BY <1>1, <1>3, <2>1 DEF LogTypeOK
<1>13. batches' \in Seq(SUBSET Days) /\ \A i \in DOMAIN batches' :
          batches'[i] \subseteq Days /\ \A x \in batches'[i] : Over(x)'
  <2>1. batches \in Seq(SUBSET Days) /\ touched \in SUBSET Days
    BY <1>1 DEF OneDayOpen, LogTypeOK
  <2>2. \A i \in DOMAIN batches : batches[i] \subseteq Days /\ \A x \in batches[i] : Over(x)'
    BY <1>1, <1>11 DEF UploadsAreOver, LogTypeOK
  <2>3. CASE turn /\ batches' = Append(batches, touched)
    <3>1. \A x \in touched : Over(x)'
      <4>1. CASE d < logDate
        BY <1>10, <4>1 DEF Over
      <4>2. CASE d > logDate
        <5>1. logDate < today' /\ touched \subseteq {logDate}
          BY <1>1, <1>2, <1>3, <4>2 DEF OneDayOpen, Days
        <5> QED
          BY <5>1 DEF Over
      <4>3. d < logDate \/ d > logDate
        BY <1>2, <2>3 DEF Days
      <4> QED
        BY <4>1, <4>2, <4>3
    <3>2. /\ batches' \in Seq(SUBSET Days) /\ Len(batches) \in Nat /\ Len(batches') = Len(batches) + 1
          /\ batches'[Len(batches) + 1] = touched /\ \A i \in 1..Len(batches) : batches'[i] = batches[i]
      BY <2>1, <2>3
    <3>3. \A i \in DOMAIN batches' : i \in DOMAIN batches \/ i = Len(batches) + 1
      BY <2>1, <3>2
    <3>4. \A i \in DOMAIN batches : batches'[i] = batches[i]
      BY <2>1, <3>2
    <3> QED
      BY <2>1, <2>2, <3>1, <3>2, <3>3, <3>4
  <2>4. CASE batches' = batches
    BY <2>1, <2>2, <2>4
  <2> QED
    BY <1>3, <2>3, <2>4
<1>14. LogTypeOK'
  <2>1. UNION {DOMAIN open', DOMAIN disk', DOMAIN bucket', touched', late'} \subseteq Days
    BY <1>1, <1>2, <1>3, <1>7, <1>9, <1>10 DEF LogTypeOK
  <2>2. /\ \A x \in DOMAIN open' : open'[x].buffer \subseteq 1..MaxLogged
        /\ \A x \in DOMAIN disk' : disk'[x] \subseteq 1..MaxLogged
    BY <1>5, <1>7, <1>8, <1>9 DEF Handle
  <2> QED
    BY <1>1, <1>2, <1>3, <1>12, <1>13, <2>1, <2>2 DEF LogTypeOK
<1>15. OneDayOpen'
  <2>1. DOMAIN disk' \subseteq 0..today'
    BY <1>1, <1>2, <1>3, <1>9 DEF OneDayOpen, Days
  <2>2. touched' \subseteq {d}
    BY <1>1, <1>3 DEF OneDayOpen
  <2> QED
    BY <1>2, <1>3, <1>7, <1>8, <1>13, <2>1, <2>2 DEF OneDayOpen
<1>16. LoggersDated'
  BY <1>1, <1>3, <1>12 DEF LoggersDated
<1>17. UploadsAreOver'
  BY <1>1, <1>3, <1>11, <1>13 DEF UploadsAreOver
<1>18. HandlesHaveFiles'
  <2>1. (open'[d].exists /\ d \in DOMAIN disk') \/ Over(d)
    BY <1>1, <1>6, <1>8, <1>9 DEF HandlesHaveFiles
  <2> QED
    BY <1>7, <1>11, <2>1 DEF HandlesHaveFiles
<1>19. ObjectsInFiles'
  <2>1. ASSUME NEW x \in DOMAIN bucket, x \in DOMAIN disk' PROVE x \in late' \/ bucket[x] \subseteq disk'[x]
    <3>1. CASE x \in DOMAIN disk
      BY <1>1, <1>5, <1>9, <1>10, <3>1 DEF ObjectsInFiles
    <3>2. CASE x = d /\ d \notin DOMAIN disk
      BY <1>1, <1>10, <3>2 DEF UploadsAreOver
    <3> QED
      BY <1>9, <2>1, <3>1, <3>2
  <2> QED
    BY <1>3, <2>1 DEF ObjectsInFiles
<1>20. PutHasObject'
  <2> SUFFICES ASSUME upload.at = "put", upload.day \notin late'
               PROVE  /\ upload.day \in DOMAIN bucket
                      /\ upload.day \in DOMAIN disk' => disk'[upload.day] \subseteq bucket[upload.day]
    BY <1>3 DEF PutHasObject
  <2>1. /\ upload.day \in DOMAIN bucket /\ Over(upload.day)
        /\ upload.day \in DOMAIN disk => disk[upload.day] \subseteq bucket[upload.day]
    BY <1>1, <1>10 DEF PutHasObject, UploadsAreOver
  <2>2. upload.day \in DOMAIN disk => disk'[upload.day] = disk[upload.day]
    BY <1>5, <1>9, <2>1
  <2>3. upload.day \in DOMAIN disk' \ DOMAIN disk => disk'[upload.day] = {}
    BY <1>9
  <2> QED
    BY <2>1, <2>2, <2>3
<1>21. LinesAreKept'
  <2> SUFFICES ASSUME NEW i \in DOMAIN dated
               PROVE  LET e == dated[i] IN
                      \/ \E v \in Loggers : logger'[v].line = i
                      \/ e \in DOMAIN open' /\ i \in open'[e].buffer
                      \/ e \in DOMAIN disk' /\ i \in disk'[e]
                      \/ e \in DOMAIN bucket /\ i \in bucket[e]
                      \/ i \in dropped \/ e \in late'
    BY <1>3 DEF LinesAreKept
  <2> DEFINE e == dated[i]
  <2>1. \/ \E v \in Loggers : logger[v].line = i
        \/ e \in DOMAIN open /\ i \in open[e].buffer
        \/ e \in DOMAIN disk /\ i \in disk[e]
        \/ e \in DOMAIN bucket /\ i \in bucket[e]
        \/ i \in dropped \/ e \in late
    BY <1>1 DEF LinesAreKept
  <2>2. ASSUME NEW v \in Loggers, logger[v].line = i
        PROVE  (\E u \in Loggers : logger'[u].line = i) \/ (e \in DOMAIN open' /\ i \in open'[e].buffer)
    BY <1>2, <1>7, <1>8, <1>12, <2>2 DEF n
  <2>3. ASSUME e \in DOMAIN open, i \in open[e].buffer
        PROVE  \/ e \in DOMAIN open' /\ i \in open'[e].buffer
               \/ e \in DOMAIN disk' /\ i \in disk'[e]
               \/ e \in late'
    <3>1. CASE turn
      BY <1>9, <1>10, <2>3, <3>1, FlushFacts DEF onDisk
    <3>2. CASE ~turn
      <4>1. e = d /\ d \in DOMAIN kept
        BY <1>1, <2>3, <3>2 DEF OneDayOpen, kept
      <4> QED
        BY <1>6, <1>7, <1>8, <2>3, <4>1
    <3> QED
      BY <3>1, <3>2
  <2>4. e \in DOMAIN disk /\ i \in disk[e] => e \in DOMAIN disk' /\ i \in disk'[e]
    BY <1>5, <1>9
  <2> HIDE DEF e
  <2>5. \/ \E v \in Loggers : logger'[v].line = i
        \/ e \in DOMAIN open' /\ i \in open'[e].buffer
        \/ e \in DOMAIN disk' /\ i \in disk'[e]
        \/ e \in DOMAIN bucket /\ i \in bucket[e]
        \/ i \in dropped \/ e \in late'
    BY <1>10, <2>1, <2>2, <2>3, <2>4
  <2> QED
    BY <2>5 DEF e
<1> QED
  BY <1>14, <1>15, <1>16, <1>17, <1>18, <1>19, <1>20, <1>21 DEF LogIInv

\* A flush, with nothing written beside it.
LEMMA FlushStep ==
    ASSUME LogIInv, FlushAll
    PROVE  LogIInv'
<1>1. /\ LogTypeOK /\ OneDayOpen /\ LoggersDated /\ UploadsAreOver /\ HandlesHaveFiles
      /\ ObjectsInFiles /\ PutHasObject /\ LinesAreKept
  BY DEF LogIInv
<1>2. /\ disk' = Flushed /\ open' = Emptied /\ late' = late \cup FlushedLate
      /\ UNCHANGED <<today, logger, logDate, touched, dated, bucket, batches, upload, stops, dropped>>
  BY DEF FlushAll
<1>3. /\ DOMAIN open' = DOMAIN open
      /\ \A d \in DOMAIN open : open'[d] \in Handle /\ open'[d].exists = open[d].exists /\ open'[d].buffer = {}
  BY <1>1, <1>2 DEF Emptied, OneDayOpen, Handle
<1>4. /\ DOMAIN disk' = DOMAIN disk /\ late \subseteq late' /\ late' \subseteq Days
      /\ \A d \in DOMAIN disk : /\ disk[d] \subseteq disk'[d] /\ disk'[d] \subseteq 1..MaxLogged
                                /\ Over(d) => disk'[d] = disk[d] \/ d \in late'
      /\ \A d \in DOMAIN open : \A i \in open[d].buffer : (d \in DOMAIN disk /\ i \in disk'[d]) \/ d \in late'
  BY <1>1, <1>2, FlushFacts DEF LogTypeOK
<1>5. \A d : Over(d) => Over(d)'
  BY <1>2, <1>4 DEF Over
<1>6. LogTypeOK'
  <2>1. UNION {DOMAIN open', DOMAIN disk', DOMAIN bucket', touched', late'} \subseteq Days
    BY <1>1, <1>2, <1>3, <1>4 DEF LogTypeOK
  <2>2. \A d \in DOMAIN open' : open'[d].buffer \subseteq 1..MaxLogged
    BY <1>3
  <2> QED
    BY <1>1, <1>2, <1>4, <2>1, <2>2 DEF LogTypeOK
<1>7. OneDayOpen' /\ LoggersDated'
  BY <1>1, <1>2, <1>3, <1>4 DEF OneDayOpen, LoggersDated
<1>8. UploadsAreOver' /\ HandlesHaveFiles'
  BY <1>1, <1>2, <1>3, <1>4, <1>5 DEF UploadsAreOver, HandlesHaveFiles
<1>9. ObjectsInFiles'
  BY <1>1, <1>2, <1>4 DEF ObjectsInFiles
<1>10. PutHasObject'
  BY <1>1, <1>2, <1>4 DEF PutHasObject, UploadsAreOver
<1>11. LinesAreKept'
  BY <1>1, <1>2, <1>3, <1>4 DEF LinesAreKept
<1> QED
  BY <1>6, <1>7, <1>8, <1>9, <1>10, <1>11 DEF LogIInv

\* The upload task puts a file into the bucket, or passes it over.
LEMMA NextFileStep ==
    ASSUME LogIInv, NEW put \in BOOLEAN, NextFile(put)
    PROVE  LogIInv'
<1>1. /\ LogTypeOK /\ OneDayOpen /\ LoggersDated /\ UploadsAreOver /\ HandlesHaveFiles
      /\ ObjectsInFiles /\ PutHasObject /\ LinesAreKept
  BY DEF LogIInv
<1>2. UNCHANGED <<today, logger, logDate, open, touched, dated, disk, batches, stops, late, dropped>>
  BY DEF NextFile
<1>3. OneDayOpen' /\ LoggersDated' /\ HandlesHaveFiles'
  BY <1>1, <1>2 DEF OneDayOpen, LoggersDated, HandlesHaveFiles, Over
<1>4. PICK d \in upload.rest :
          IF put /\ d \in DOMAIN disk
          THEN /\ bucket' = With(bucket, d, disk[d])
               /\ upload' = [at |-> "put", day |-> d, rest |-> upload.rest \ {d}]
          ELSE /\ bucket' = bucket
               /\ upload' = IF upload.rest = {d} THEN AtRest
                            ELSE [upload EXCEPT !.rest = @ \ {d}]
  BY DEF NextFile
<1>5. /\ d \in Days /\ Over(d) /\ upload.rest \subseteq Days /\ \A x \in upload.rest : Over(x) /\ upload.at = "next"
      /\ upload \in [at : {"idle", "next", "put"}, day : Days, rest : SUBSET Days]
      /\ 0 \in Days
  BY <1>1, LogBounds DEF LogTypeOK, UploadsAreOver, NextFile, Days
<1>6. CASE put /\ d \in DOMAIN disk
  <2>1. /\ bucket' = With(bucket, d, disk[d])
        /\ upload' = [at |-> "put", day |-> d, rest |-> upload.rest \ {d}]
    BY <1>4, <1>6
  <2>2. /\ DOMAIN bucket' = DOMAIN bucket \cup {d} /\ bucket'[d] = disk[d]
        /\ \A x \in DOMAIN bucket : x # d => bucket'[x] = bucket[x]
    BY <2>1 DEF With
  <2>3. upload'.at = "put" /\ upload'.day = d /\ upload'.rest \subseteq upload.rest
        /\ upload' \in [at : {"idle", "next", "put"}, day : Days, rest : SUBSET Days]
    BY <2>1, <1>5
  <2>4. UNION {DOMAIN open', DOMAIN disk', DOMAIN bucket', touched', late'} \subseteq Days
    BY <1>1, <1>2, <1>5, <2>2 DEF LogTypeOK
  <2>5. LogTypeOK'
    BY <1>1, <1>2, <2>3, <2>4 DEF LogTypeOK
  <2>6. UploadsAreOver'
    BY <1>1, <1>2, <1>5, <2>2, <2>3 DEF UploadsAreOver, Over
  <2>7. ObjectsInFiles' /\ PutHasObject'
    BY <1>1, <1>2, <2>2, <2>3 DEF ObjectsInFiles, PutHasObject
  <2>8. ASSUME NEW x \in DOMAIN bucket, NEW i \in bucket[x]
        PROVE  (x \in DOMAIN disk /\ i \in disk[x]) \/ (x \in DOMAIN bucket' /\ i \in bucket'[x]) \/ x \in late
    <3>1. CASE x = d
      BY <1>1, <1>6, <2>8, <3>1 DEF ObjectsInFiles
    <3>2. CASE x # d
      BY <2>2, <2>8, <3>2
    <3> QED
      BY <3>1, <3>2
  <2>9. LinesAreKept'
    BY <1>1, <1>2, <2>8 DEF LinesAreKept
  <2> QED
    BY <1>3, <2>5, <2>6, <2>7, <2>9 DEF LogIInv
<1>7. CASE ~(put /\ d \in DOMAIN disk)
  <2>1. /\ bucket' = bucket
        /\ upload' = IF upload.rest = {d} THEN AtRest ELSE [upload EXCEPT !.rest = @ \ {d}]
    BY <1>4, <1>7
  <2>2. /\ upload' \in [at : {"idle", "next", "put"}, day : Days, rest : SUBSET Days]
        /\ upload'.at # "put" /\ upload'.rest \subseteq upload.rest
    BY <1>5, <2>1 DEF AtRest
  <2>3. LogTypeOK' /\ UploadsAreOver' /\ ObjectsInFiles' /\ PutHasObject' /\ LinesAreKept'
    BY <1>1, <1>2, <2>1, <2>2 DEF LogTypeOK, UploadsAreOver, ObjectsInFiles, PutHasObject, LinesAreKept, Over
  <2> QED
    BY <1>3, <2>3 DEF LogIInv
<1> QED
  BY <1>6, <1>7

LEMMA DeleteFileStep ==
    ASSUME LogIInv, DeleteFile
    PROVE  LogIInv'
<1>1. /\ LogTypeOK /\ OneDayOpen /\ LoggersDated /\ UploadsAreOver /\ HandlesHaveFiles
      /\ ObjectsInFiles /\ PutHasObject /\ LinesAreKept
  BY DEF LogIInv
<1> DEFINE p == upload.day
<1>2. /\ upload.at = "put" /\ disk' = Drop(disk, p)
      /\ open' = [d \in DOMAIN open |-> IF d = p THEN [open[d] EXCEPT !.exists = FALSE] ELSE open[d]]
      /\ upload' = IF upload.rest = {} THEN AtRest ELSE [upload EXCEPT !.at = "next"]
      /\ UNCHANGED <<today, logger, logDate, touched, dated, bucket, batches, stops, late, dropped>>
  BY DEF DeleteFile
<1>3. /\ upload' \in [at : {"idle", "next", "put"}, day : Days, rest : SUBSET Days]
      /\ upload'.at # "put" /\ upload'.rest \subseteq upload.rest /\ p \in Days /\ Over(p)
  <2>1. upload \in [at : {"idle", "next", "put"}, day : Days, rest : SUBSET Days] /\ 0 \in Days
    BY <1>1, LogBounds DEF LogTypeOK, Days
  <2> QED
    BY <1>1, <1>2, <2>1 DEF AtRest, UploadsAreOver
<1> HIDE DEF p
<1>4. /\ DOMAIN disk' = DOMAIN disk \ {p} /\ \A d \in DOMAIN disk' : disk'[d] = disk[d]
      /\ DOMAIN open' = DOMAIN open
      /\ \A d \in DOMAIN open : /\ open'[d] \in Handle /\ open'[d].buffer = open[d].buffer
                                /\ d # p => open'[d] = open[d]
  BY <1>1, <1>2 DEF Drop, OneDayOpen, Handle
<1>5. LogTypeOK'
  <2>1. UNION {DOMAIN open', DOMAIN disk', DOMAIN bucket', touched', late'} \subseteq Days
    BY <1>1, <1>2, <1>4 DEF LogTypeOK
  <2> QED
    BY <1>1, <1>2, <1>3, <1>4, <2>1 DEF LogTypeOK
<1>6. OneDayOpen' /\ LoggersDated'
  BY <1>1, <1>2, <1>4 DEF OneDayOpen, LoggersDated
<1>7. UploadsAreOver' /\ HandlesHaveFiles'
  BY <1>1, <1>2, <1>3, <1>4 DEF UploadsAreOver, HandlesHaveFiles, Over
<1>8. ObjectsInFiles' /\ PutHasObject'
  BY <1>1, <1>2, <1>3, <1>4 DEF ObjectsInFiles, PutHasObject
<1>9. \A i : p \in DOMAIN disk /\ i \in disk[p] => p \in late \/ (p \in DOMAIN bucket /\ i \in bucket[p])
  BY <1>1, <1>2 DEF PutHasObject, p
<1>10. LinesAreKept'
  BY <1>1, <1>2, <1>4, <1>9 DEF LinesAreKept
<1> QED
  BY <1>5, <1>6, <1>7, <1>8, <1>10 DEF LogIInv

LEMMA LogStep == LogIInv /\ [LogNext]_logVars => LogIInv'
<1> SUFFICES ASSUME LogIInv, [LogNext]_logVars PROVE LogIInv'
  OBVIOUS
<1>1. /\ LogTypeOK /\ OneDayOpen /\ LoggersDated /\ UploadsAreOver /\ HandlesHaveFiles
      /\ ObjectsInFiles /\ PutHasObject /\ LinesAreKept
  BY DEF LogIInv
<1>2. ASSUME NEW w \in Loggers, TakeDate(w) PROVE LogIInv'
  <2>1. /\ logger[w] = NoLine /\ Len(dated) < MaxLogged
        /\ dated' = Append(dated, today) /\ logger' = [logger EXCEPT ![w] = [line |-> Len(dated'), day |-> today]]
        /\ UNCHANGED <<today, logDate, open, touched, disk, bucket, batches, upload, stops, late, dropped>>
    BY <1>2 DEF TakeDate
  <2>2. dated \in Seq(Days) /\ today \in Days /\ Len(dated) \in Nat /\ DOMAIN dated = 1..Len(dated) /\ today <= today
    BY <1>1 DEF LogTypeOK, Days
  <2>3. /\ dated' \in Seq(Days) /\ Len(dated') = Len(dated) + 1 /\ dated'[Len(dated) + 1] = today
        /\ \A i \in 1..Len(dated) : dated'[i] = dated[i]
    BY <2>1, <2>2
  <2>4. /\ DOMAIN dated' = 1..Len(dated') /\ Len(dated') \in 0..MaxLogged /\ Len(dated') \in DOMAIN dated'
        /\ \A i \in DOMAIN dated' : i \in DOMAIN dated \/ i = Len(dated')
        /\ \A i \in DOMAIN dated : i \in DOMAIN dated' /\ dated'[i] = dated[i]
        /\ dated'[Len(dated')] = today
    BY <2>1, <2>2, <2>3, LogBounds
  <2>5. /\ logger' \in [Loggers -> [line : 0..MaxLogged, day : Days]]
        /\ logger'[w].line = Len(dated') /\ logger'[w].day = today
        /\ \A v \in Loggers : v # w => logger'[v] = logger[v]
    BY <1>1, <2>1, <2>2, <2>4 DEF LogTypeOK
  <2>6. LogTypeOK'
    BY <1>1, <2>1, <2>3, <2>4, <2>5 DEF LogTypeOK
  <2>7. LoggersDated'
    BY <1>1, <2>1, <2>2, <2>4, <2>5 DEF LoggersDated
  <2>8. OneDayOpen' /\ UploadsAreOver' /\ HandlesHaveFiles' /\ ObjectsInFiles' /\ PutHasObject'
    BY <1>1, <2>1 DEF OneDayOpen, UploadsAreOver, HandlesHaveFiles, ObjectsInFiles, PutHasObject, Over
  <2>9. \A v \in Loggers, i \in DOMAIN dated : logger[v].line = i => v # w
    BY <2>1, <2>2 DEF NoLine
  <2>10. LinesAreKept'
    BY <1>1, <2>1, <2>4, <2>5, <2>9 DEF LinesAreKept
  <2> QED
    BY <2>6, <2>7, <2>8, <2>10 DEF LogIInv
<1>3. CASE Midnight
  <2>1. /\ today' = today + 1 /\ today' \in Days /\ today \in Days /\ today \in Nat
        /\ UNCHANGED <<logger, logDate, open, touched, dated, disk, bucket, batches, upload, stops, late, dropped>>
    BY <1>1, <1>3, LogBounds DEF Midnight, LogTypeOK, Days
  <2>2. \A d \in Days : Over(d) => Over(d)'
    BY <2>1 DEF Over, Days
  <2>3. LogTypeOK' /\ LoggersDated'
    BY <1>1, <2>1 DEF LogTypeOK, LoggersDated, Days
  <2>4. OneDayOpen'
    BY <1>1, <2>1 DEF OneDayOpen, LogTypeOK, Days
  <2>5. UploadsAreOver' /\ HandlesHaveFiles'
    BY <1>1, <2>1, <2>2 DEF UploadsAreOver, HandlesHaveFiles, LogTypeOK
  <2>6. ObjectsInFiles' /\ PutHasObject' /\ LinesAreKept'
    BY <1>1, <2>1 DEF ObjectsInFiles, PutHasObject, LinesAreKept
  <2> QED
    BY <2>3, <2>4, <2>5, <2>6 DEF LogIInv
<1>4. CASE Scan
  <2> DEFINE b == DOMAIN disk \ {today}
  <2>1. /\ batches' = <<b>>
        /\ UNCHANGED <<today, logger, logDate, open, touched, dated, disk, bucket, upload, stops, late, dropped>>
    BY <1>4 DEF Scan
  <2>2. b \in SUBSET Days /\ \A d \in b : Over(d)
    BY <1>1 DEF OneDayOpen, LogTypeOK, Over, Days
  <2> HIDE DEF b
  <2>3. batches' \in Seq(SUBSET Days) /\ \A i \in DOMAIN batches' : batches'[i] = b
    BY <2>1, <2>2
  <2>4. LogTypeOK'
    BY <1>1, <2>1, <2>2, <2>3 DEF LogTypeOK
  <2>5. OneDayOpen' /\ LoggersDated' /\ UploadsAreOver' /\ HandlesHaveFiles' /\ ObjectsInFiles' /\ PutHasObject' /\ LinesAreKept'
    BY <1>1, <2>1, <2>2, <2>3 DEF OneDayOpen, LoggersDated, UploadsAreOver, HandlesHaveFiles, ObjectsInFiles,
                                  PutHasObject, LinesAreKept, Over
  <2> QED
    BY <2>4, <2>5 DEF LogIInv
<1>5. CASE TakeBatch
  <2> DEFINE b == Head(batches)
  <2>1. /\ batches # <<>> /\ batches' = Tail(batches) /\ upload' = [AtRest EXCEPT !.at = "next", !.rest = b]
        /\ UNCHANGED <<today, logger, logDate, open, touched, dated, disk, bucket, stops, late, dropped>>
    BY <1>5 DEF TakeBatch
  <2>2. /\ batches \in Seq(SUBSET Days) /\ Len(batches) \in Nat \ {0} /\ b = batches[1] /\ 1 \in DOMAIN batches
        /\ batches' \in Seq(SUBSET Days) /\ Len(batches') = Len(batches) - 1
        /\ \A i \in 1..Len(batches') : batches'[i] = batches[i + 1]
    BY <1>1, <2>1, EmptySeq, HeadTailProperties DEF OneDayOpen
  <2>3. b \subseteq Days /\ (\A d \in b : Over(d)) /\ 0 \in Days
    <3>1. 0 \in Days /\ b \subseteq Days
      BY <1>1, <2>2, LogBounds DEF LogTypeOK, Days
    <3>2. \A d \in batches[1] : Over(d)
      BY <1>1, <2>2 DEF UploadsAreOver
    <3> QED
      BY <2>2, <3>1, <3>2
  <2>4. \A i \in DOMAIN batches' : i + 1 \in DOMAIN batches /\ batches'[i] = batches[i + 1]
    BY <2>2
  <2>5. \A i \in DOMAIN batches' : batches'[i] \subseteq Days /\ \A d \in batches'[i] : Over(d)
    BY <1>1, <2>4 DEF LogTypeOK, UploadsAreOver
  <2> HIDE DEF b
  <2>6. /\ upload' \in [at : {"idle", "next", "put"}, day : Days, rest : SUBSET Days]
        /\ upload'.at = "next" /\ upload'.rest = b
    BY <2>1, <2>3 DEF AtRest
  <2>7. LogTypeOK' /\ OneDayOpen'
    BY <1>1, <2>1, <2>2, <2>5, <2>6 DEF LogTypeOK, OneDayOpen
  <2>8. LoggersDated' /\ UploadsAreOver' /\ HandlesHaveFiles' /\ ObjectsInFiles' /\ PutHasObject' /\ LinesAreKept'
    BY <1>1, <2>1, <2>3, <2>5, <2>6 DEF LoggersDated, UploadsAreOver, HandlesHaveFiles, ObjectsInFiles,
                                  PutHasObject, LinesAreKept, Over
  <2> QED
    BY <2>7, <2>8 DEF LogIInv
<1>6. CASE StopLog
  <2>1. /\ stops' \in 0..MaxStops /\ logger' = [w \in Loggers |-> NoLine]
        /\ dropped' = dropped \cup (UNION {open[d].buffer : d \in DOMAIN open}) \cup {logger[w].line : w \in Loggers}
        /\ logDate' = today /\ open' = << >> /\ touched' = {} /\ batches' = <<>> /\ upload' = AtRest
        /\ UNCHANGED <<today, dated, disk, bucket, late>>
    BY <1>1, <1>6, LogBounds DEF StopLog, LogTypeOK
  <2>2. /\ NoLine \in [line : 0..MaxLogged, day : Days] /\ 0 \in Days /\ today \in Days /\ today <= today
        /\ AtRest \in [at : {"idle", "next", "put"}, day : Days, rest : SUBSET Days]
        /\ AtRest.rest = {} /\ AtRest.at # "put"
    BY <1>1, LogBounds DEF NoLine, AtRest, Days, LogTypeOK
  <2>3. DOMAIN open' = {} /\ DOMAIN batches' = {} /\ batches' \in Seq(SUBSET Days)
    BY <2>1
  <2>4. UNION {DOMAIN open', DOMAIN disk', DOMAIN bucket', touched', late'} \subseteq Days
    BY <1>1, <2>1, <2>3 DEF LogTypeOK
  <2>5. LogTypeOK'
    BY <1>1, <2>1, <2>2, <2>3, <2>4 DEF LogTypeOK
  <2>6. OneDayOpen' /\ LoggersDated'
    BY <1>1, <2>1, <2>2, <2>3 DEF OneDayOpen, LoggersDated
  <2>7. UploadsAreOver' /\ HandlesHaveFiles' /\ ObjectsInFiles' /\ PutHasObject'
    BY <1>1, <2>1, <2>2, <2>3 DEF UploadsAreOver, HandlesHaveFiles, ObjectsInFiles, PutHasObject, Over
  <2>8. LinesAreKept'
    <3>1. /\ dropped \subseteq dropped' /\ \A w \in Loggers : logger[w].line \in dropped'
          /\ \A d \in DOMAIN open : open[d].buffer \subseteq dropped'
      <4> DEFINE buffered == UNION {open[d].buffer : d \in DOMAIN open}
                 carried == {logger[w].line : w \in Loggers}
      <4>1. dropped' = dropped \cup buffered \cup carried
        BY <2>1
      <4>2. \A w \in Loggers : logger[w].line \in carried
        OBVIOUS
      <4>3. \A d \in DOMAIN open : open[d].buffer \subseteq buffered
        OBVIOUS
      <4> HIDE DEF buffered, carried
      <4> QED
        BY <4>1, <4>2, <4>3
    <3> QED
      BY <1>1, <2>1, <3>1 DEF LinesAreKept
  <2> QED
    BY <2>5, <2>6, <2>7, <2>8 DEF LogIInv
<1>7. CASE UNCHANGED logVars
  <2>1. LogTypeOK' /\ OneDayOpen' /\ LoggersDated'
    BY <1>1, <1>7 DEF logVars, LogTypeOK, OneDayOpen, LoggersDated
  <2>2. UploadsAreOver' /\ HandlesHaveFiles' /\ ObjectsInFiles' /\ PutHasObject' /\ LinesAreKept'
    BY <1>1, <1>7 DEF logVars, UploadsAreOver, HandlesHaveFiles, ObjectsInFiles, PutHasObject, LinesAreKept, Over
  <2> QED
    BY <2>1, <2>2 DEF LogIInv
<1>8. CASE PutDone \/ PutFails
  BY <1>8, NextFileStep DEF PutDone, PutFails
<1> QED
  BY <1>2, <1>3, <1>4, <1>5, <1>6, <1>7, <1>8, WriteLineStep, FlushStep, DeleteFileStep DEF LogNext

\* The event log keeps its lines through midnight, failed uploads, deletions under
\* an open file and restarts, but for the days that lines reached late.
THEOREM LogInvHolds == LogSpec => []LogInv
<1>1. LogInit => LogIInv
  <2> SUFFICES ASSUME LogInit PROVE LogIInv
    OBVIOUS
  <2>1. /\ 0 \in Days /\ 0 \in 0..MaxStops /\ 0 \in 0..MaxLogged /\ <<>> \in Seq(Days) /\ Len(<<>>) = 0 /\ DOMAIN <<>> = {}
        /\ <<>> \in Seq(SUBSET Days)
    BY LogBounds DEF Days
  <2>2. LogTypeOK
    <3>1. UNION {DOMAIN open, DOMAIN disk, DOMAIN bucket, touched, late} \subseteq Days
      BY <2>1 DEF LogInit
    <3>2. logger \in [Loggers -> [line : 0..MaxLogged, day : Days]] /\ Len(dated) <= MaxLogged
      BY <2>1, LogBounds DEF LogInit, NoLine
    <3> QED
      BY <2>1, <3>1, <3>2 DEF LogInit, LogTypeOK, AtRest
  <2>3. OneDayOpen /\ LoggersDated
    BY <2>1 DEF LogInit, OneDayOpen, LoggersDated
  <2>4. UploadsAreOver /\ HandlesHaveFiles /\ ObjectsInFiles /\ PutHasObject /\ LinesAreKept
    BY <2>1 DEF LogInit, UploadsAreOver, HandlesHaveFiles, ObjectsInFiles, PutHasObject, LinesAreKept, AtRest
  <2> QED
    BY <2>2, <2>3, <2>4 DEF LogIInv
<1>2. LogIInv => LogInv
  BY DEF LogIInv, LogInv
<1> QED
  BY <1>1, <1>2, LogStep, PTL DEF LogSpec

-----------------------------------------------------------------------------
(* Signing in.  A code belongs to its callback once it is exchanged, and    *)
(* whoever edits the user file under the lock has read what is in it.       *)

CodeSet == [flow : Flows \cup {NoUser}, user : Users \cup {NoUser}, fate : {"none", "issued", "used"}]
CbSet   == [pc : {"idle", "exchanging", "recording", "consuming"}, flow : Flows \cup {NoUser},
            code : 0 .. MaxCodes, user : Users \cup {NoUser}]

CodesOnce ==
    /\ signedIn \in [CodeIds -> Nat]
    /\ \A c \in CodeIds : /\ codes[c].fate # "used" => signedIn[c] = 0
                          /\ codes[c].fate # "none" => codes[c].flow \in Flows
                          /\ signedIn[c] <= 1

CallbacksHaveCodes ==
    \A k \in Callbacks : cb[k].pc # "idle" =>
        LET c == cb[k].code IN
        /\ c \in CodeIds /\ codes[c].fate # "none" /\ cb[k].flow = codes[c].flow
        /\ cb[k].pc = "recording" => /\ codes[c].fate = "used" /\ signedIn[c] = 0
                                     /\ cb[k].user = codes[c].user
        /\ cb[k].pc = "consuming" => signedIn[c] > 0

OneRecords ==
    \A j, k \in Callbacks :
        cb[j].pc = "recording" /\ cb[k].pc = "recording" /\ cb[j].code = cb[k].code => j = k

EditorHasRead ==
    editor # NoEditor => /\ editor.u \in Users /\ editor.flow \in Flows
                         /\ editor.read = users /\ users[editor.u] < MaxPasswords

SignIInv ==
    /\ SignTypeOK /\ CodesOnce /\ CallbacksHaveCodes /\ OneRecords /\ EditorHasRead
    /\ SignedInByOwnFlow /\ StartedCanFinish

LEMMA SignTypes ==
    /\ SignTypeOK => codes \in [CodeIds -> CodeSet] /\ cb \in [Callbacks -> CbSet]
    /\ \A c \in CodeSet, t \in {"none", "issued", "used"} :
          /\ [c EXCEPT !.fate = t] \in CodeSet /\ [c EXCEPT !.fate = t].fate = t
          /\ [c EXCEPT !.fate = t].flow = c.flow /\ [c EXCEPT !.fate = t].user = c.user
    /\ Idle \in CbSet /\ Idle.pc = "idle"
    /\ 0 \in 0 .. MaxCodes /\ CodeIds \subseteq 0 .. MaxCodes
BY SignInBounds DEF SignTypeOK, CodeSet, CbSet, Idle, CodeIds

LEMMA FateSet ==
    ASSUME NEW c \in CodeSet, NEW t \in {"none", "issued", "used"}, NEW e, e = [c EXCEPT !.fate = t]
    PROVE  e \in CodeSet /\ e.fate = t /\ e.flow = c.flow /\ e.user = c.user
BY DEF CodeSet

\* What a step that changes neither codes nor callbacks keeps.
LEMMA CodesKept ==
    ASSUME SignIInv, UNCHANGED <<codes, cb, signedIn>>
    PROVE  CodesOnce' /\ CallbacksHaveCodes' /\ OneRecords'
BY DEF SignIInv, CodesOnce, CallbacksHaveCodes, OneRecords

\* Codes keep what they are once they are issued, and are used up.
LEMMA CodesUsedUp ==
    ASSUME SignIInv, UNCHANGED <<cb, signedIn>>, codes' \in [CodeIds -> CodeSet],
           \A c \in CodeIds : /\ codes[c].fate # "none" => /\ codes'[c].flow = codes[c].flow
                                                           /\ codes'[c].user = codes[c].user
                                                           /\ codes'[c].fate # "none"
                              /\ codes[c].fate = "used" => codes'[c].fate = "used"
                              /\ codes'[c].fate # "none" => codes'[c].flow \in Flows
    PROVE  CodesOnce' /\ CallbacksHaveCodes' /\ OneRecords'
<1>1. CodesOnce /\ CallbacksHaveCodes /\ OneRecords
  BY DEF SignIInv
<1>2. CodesOnce'
  BY <1>1 DEF CodesOnce
<1>3. CallbacksHaveCodes'
  BY <1>1 DEF CallbacksHaveCodes
<1>4. OneRecords'
  BY <1>1 DEF OneRecords
<1> QED
  BY <1>2, <1>3, <1>4

\* Who is signed in, and what can be finished, follows from what the codes say.
LEMMA SignInsKept ==
    ASSUME SignIInv, codes' \in [CodeIds -> CodeSet],
           \A c \in CodeIds : codes[c].fate # "none" => /\ codes'[c].flow = codes[c].flow
                                                        /\ codes'[c].user = codes[c].user,
           \A c \in CodeIds : signedIn[c] > 0 => signedIn'[c] > 0
    PROVE  /\ (\A t \in Tokens : identities'[t] \in {identities[t], NoUser}) => SignedInByOwnFlow'
           /\ started' = started /\ old \subseteq old' /\ files \subseteq old' \cup files' => StartedCanFinish'
<1>1. CodesOnce /\ SignedInByOwnFlow /\ StartedCanFinish
  BY DEF SignIInv
<1>2. \A c \in CodeIds : signedIn[c] > 0 => /\ codes'[c].flow = codes[c].flow /\ codes'[c].user = codes[c].user
                                            /\ signedIn'[c] > 0
  BY <1>1 DEF CodesOnce
<1>3. ASSUME \A t \in Tokens : identities'[t] \in {identities[t], NoUser} PROVE SignedInByOwnFlow'
  BY <1>1, <1>2, <1>3 DEF SignedInByOwnFlow, Tokens
<1>4. ASSUME started' = started, old \subseteq old', files \subseteq old' \cup files' PROVE StartedCanFinish'
  BY <1>1, <1>2, <1>4 DEF StartedCanFinish
<1> QED
  BY <1>3, <1>4

\* The type of the parts that an action leaves alone.
SignParts ==
    /\ identities \in [Tokens -> Users \cup {NoUser}]
    /\ codes \in [CodeIds -> CodeSet] /\ cb \in [Callbacks -> CbSet]
    /\ users \in [Users -> 0 .. MaxPasswords]
    /\ editor \in [u : Users \cup {NoUser}, read : [Users -> 0 .. MaxPasswords],
                   flow : Flows \cup {NoUser}]
    /\ restarts \in 0 .. MaxRestarts
FlowParts ==
    /\ memory \cup files \cup old \cup atProvider \subseteq started
    /\ started \subseteq Flows

LEMMA SignTypeParts == SignTypeOK <=> SignParts /\ FlowParts
BY DEF SignTypeOK, SignParts, FlowParts, CodeSet, CbSet

LEMMA FlowSteps ==
    ASSUME SignIInv, NEW f \in Flows, Start(f) \/ ToProvider(f) \/ GrowOld(f)
    PROVE  SignIInv'
<1> DEFINE Same == UNCHANGED <<identities, codes, users, editor, cb, signedIn, restarts>>
<1>1. SignTypeOK /\ SignParts /\ FlowParts /\ EditorHasRead
  BY SignTypeParts DEF SignIInv
<1>2. Same
  BY DEF Start, ToProvider, GrowOld, providerVars
<1>3. FlowParts' /\ old \subseteq old' /\ files \subseteq old' \cup files'
  BY <1>1 DEF FlowParts, Start, ToProvider, GrowOld, Known
<1>4. StartedCanFinish'
  <2>1. CASE Start(f)
    BY <2>1 DEF Start, StartedCanFinish, SignIInv, providerVars
  <2>2. CASE ToProvider(f) \/ GrowOld(f)
    <3>1. started' = started
      BY <2>2 DEF ToProvider, GrowOld
    <3>2. codes' \in [CodeIds -> CodeSet]
      BY <1>1, <1>2 DEF SignParts
    <3> QED
      BY <1>2, <1>3, <3>1, <3>2, SignInsKept
  <2> QED
    BY <2>1, <2>2
<1>5. SignParts' /\ EditorHasRead' /\ SignedInByOwnFlow'
  BY <1>1, <1>2 DEF SignParts, EditorHasRead, SignedInByOwnFlow, SignIInv
<1>6. CodesOnce' /\ CallbacksHaveCodes' /\ OneRecords'
  BY <1>2, CodesKept
<1>7. SignTypeOK'
  BY <1>3, <1>5, SignTypeParts DEF SignTypeOK, SignParts, FlowParts, CodeSet, CbSet
<1> QED
  BY <1>4, <1>5, <1>6, <1>7 DEF SignIInv

LEMMA LogoutStep ==
    ASSUME SignIInv, NEW t \in Tokens, Logout(t)
    PROVE  SignIInv'
<1>1. SignTypeOK /\ SignParts /\ FlowParts /\ EditorHasRead
  BY SignTypeParts DEF SignIInv
<1>2. /\ UNCHANGED <<codes, users, editor, cb, signedIn, restarts>>
      /\ UNCHANGED <<started, memory, files, old, atProvider>>
      /\ identities' = [identities EXCEPT ![t] = NoUser]
  BY DEF Logout, providerVars, flowVars
<1>3. SignParts' /\ FlowParts' /\ EditorHasRead'
  BY <1>1, <1>2 DEF SignParts, FlowParts, EditorHasRead
<1>4. \A s \in Tokens : identities'[s] \in {identities[s], NoUser}
  BY <1>1, <1>2 DEF SignParts
<1>5. SignedInByOwnFlow' /\ StartedCanFinish'
  BY <1>1, <1>2, <1>4, SignInsKept DEF SignParts
<1>6. CodesOnce' /\ CallbacksHaveCodes' /\ OneRecords'
  BY <1>2, CodesKept
<1>7. SignTypeOK'
  BY <1>3 DEF SignTypeOK, SignParts, FlowParts, CodeSet, CbSet
<1> QED
  BY <1>3, <1>5, <1>6, <1>7 DEF SignIInv

LEMMA WebRestartsStep ==
    ASSUME SignIInv, WebRestarts
    PROVE  SignIInv'
<1>1. SignTypeOK /\ SignParts /\ FlowParts /\ EditorHasRead /\ CodesOnce
  BY SignTypeParts DEF SignIInv
<1>2. /\ UNCHANGED <<codes, users, editor, signedIn>> /\ restarts < MaxRestarts /\ restarts' = restarts + 1
      /\ UNCHANGED <<started, files, old, atProvider>> /\ memory' = {}
      /\ identities' = [t \in Tokens |-> NoUser] /\ cb' = [k \in Callbacks |-> Idle]
  BY DEF WebRestarts, providerVars
<1>3. restarts' \in 0 .. MaxRestarts
  BY <1>1, <1>2, SignInBounds DEF SignParts
<1>4. SignParts' /\ FlowParts' /\ EditorHasRead'
  BY <1>1, <1>2, <1>3, SignTypes DEF SignParts, FlowParts, EditorHasRead
<1>5. SignedInByOwnFlow' /\ StartedCanFinish'
  <2>1. \A s \in Tokens : identities'[s] \in {identities[s], NoUser}
    BY <1>2
  <2> QED
    BY <1>1, <1>2, <2>1, SignInsKept DEF SignParts
<1>6. CodesOnce' /\ CallbacksHaveCodes' /\ OneRecords'
  BY <1>1, <1>2, SignTypes DEF CodesOnce, CallbacksHaveCodes, OneRecords
<1>7. SignTypeOK'
  BY <1>4 DEF SignTypeOK, SignParts, FlowParts, CodeSet, CbSet
<1> QED
  BY <1>4, <1>5, <1>6, <1>7 DEF SignIInv

\* The provider: codes are issued and used up, the user file is rewritten.
LEMMA IssueStep ==
    ASSUME SignIInv, NEW f \in Flows, NEW u \in Users, Issue(f, u)
    PROVE  /\ codes' \in [CodeIds -> CodeSet]
           /\ \A c \in CodeIds : /\ codes[c].fate # "none" => codes'[c] = codes[c]
                                 /\ codes'[c].fate # "none" => codes'[c].flow \in Flows
<1>1. codes \in [CodeIds -> CodeSet] /\ CodesOnce
  BY SignTypes DEF SignIInv
<1> DEFINE new == [flow |-> f, user |-> u, fate |-> "issued"]
<1>2. PICK c \in CodeIds : codes[c].fate = "none" /\ codes' = [codes EXCEPT ![c] = new]
  BY DEF Issue
<1>3. new \in CodeSet /\ new.flow = f
  BY DEF CodeSet
<1> HIDE DEF new
<1> QED
  BY <1>1, <1>2, <1>3 DEF CodesOnce

LEMMA ProviderSteps ==
    ASSUME SignIInv, UNCHANGED <<flowVars, identities, cb, signedIn>>,
           restarts' \in 0 .. MaxRestarts, codes' \in [CodeIds -> CodeSet],
           \A c \in CodeIds : /\ codes[c].fate # "none" => /\ codes'[c].flow = codes[c].flow
                                                           /\ codes'[c].user = codes[c].user
                                                           /\ codes'[c].fate # "none"
                              /\ codes[c].fate = "used" => codes'[c].fate = "used"
                              /\ codes'[c].fate # "none" => codes'[c].flow \in Flows,
           users' \in [Users -> 0 .. MaxPasswords], EditorHasRead',
           editor' \in [u : Users \cup {NoUser}, read : [Users -> 0 .. MaxPasswords],
                        flow : Flows \cup {NoUser}]
    PROVE  SignIInv'
<1>1. SignTypeOK /\ SignParts /\ FlowParts
  BY SignTypeParts DEF SignIInv
<1>2. SignParts' /\ FlowParts'
  BY <1>1 DEF SignParts, FlowParts, flowVars
<1>3. SignTypeOK'
  BY <1>2 DEF SignTypeOK, SignParts, FlowParts, CodeSet, CbSet
<1>4. CodesOnce' /\ CallbacksHaveCodes' /\ OneRecords'
  BY CodesUsedUp
<1>5. SignedInByOwnFlow' /\ StartedCanFinish'
  BY SignInsKept DEF flowVars
<1> QED
  BY <1>3, <1>4, <1>5 DEF SignIInv

LEMMA CodeSteps ==
    ASSUME SignIInv,
           \/ \E f \in Flows, u \in Users : Authorize(f, u)
           \/ \E c \in CodeIds : CodeExpires(c)
           \/ ProviderRestarts
    PROVE  SignIInv'
<1>1. SignParts /\ FlowParts /\ EditorHasRead /\ CodesOnce
  BY SignTypeParts DEF SignIInv
<1>2. CASE \E f \in Flows, u \in Users : Authorize(f, u)
  <2>1. PICK f \in Flows, u \in Users : Authorize(f, u)
    BY <1>2
  <2>2. UNCHANGED <<flowVars, identities, users, editor, cb, signedIn, restarts>>
    BY <2>1 DEF Authorize
  <2>3. /\ codes' \in [CodeIds -> CodeSet]
        /\ \A c \in CodeIds : /\ codes[c].fate # "none" => codes'[c] = codes[c]
                              /\ codes'[c].fate # "none" => codes'[c].flow \in Flows
    BY <2>1, IssueStep DEF Authorize
  <2>4. EditorHasRead'
    BY <1>1, <2>2 DEF EditorHasRead
  <2> QED
    BY <1>1, <2>2, <2>3, <2>4, ProviderSteps DEF SignParts
<1>3. CASE \E c \in CodeIds : CodeExpires(c)
  <2>1. PICK c \in CodeIds : CodeExpires(c)
    BY <1>3
  <2>2. UNCHANGED <<flowVars, identities, users, editor, cb, signedIn, restarts>>
    BY <2>1 DEF CodeExpires
  <2>3. codes[c].fate = "issued" /\ codes' = [codes EXCEPT ![c] = [codes[c] EXCEPT !.fate = "used"]]
    BY <2>1 DEF CodeExpires
  <2>4. codes \in [CodeIds -> CodeSet]
    BY <1>1 DEF SignParts
  <2>5. codes' \in [CodeIds -> CodeSet]
    BY <2>3, <2>4, SignTypes
  <2>6. \A d \in CodeIds : /\ codes'[d].flow = codes[d].flow /\ codes'[d].user = codes[d].user
                           /\ codes'[d].fate = IF d = c THEN "used" ELSE codes[d].fate
    BY <2>3, <2>4, SignTypes
  <2>7. EditorHasRead'
    BY <1>1, <2>2 DEF EditorHasRead
  <2>8. \A d \in CodeIds : codes[d].fate # "none" => codes[d].flow \in Flows
    BY <1>1 DEF CodesOnce
  <2>9. \A d \in CodeIds : /\ codes[d].fate # "none" => codes'[d].fate # "none"
                           /\ codes[d].fate = "used" => codes'[d].fate = "used"
                           /\ codes'[d].fate # "none" => codes'[d].flow \in Flows
    BY <2>3, <2>6, <2>8
  <2> QED
    BY <1>1, <2>2, <2>5, <2>6, <2>7, <2>9, ProviderSteps DEF SignParts
<1>4. CASE ProviderRestarts
  <2> DEFINE Used(c) == IF codes[c].fate = "issued" THEN "used" ELSE codes[c].fate
  <2>1. /\ UNCHANGED <<flowVars, identities, users, cb, signedIn>> /\ editor' = NoEditor
        /\ restarts < MaxRestarts /\ restarts' = restarts + 1
    BY <1>4 DEF ProviderRestarts
  <2>2. codes' = [c \in CodeIds |-> [codes[c] EXCEPT !.fate = Used(c)]]
    BY <1>4 DEF ProviderRestarts
  <2>3. \A c \in CodeIds : codes[c] \in CodeSet /\ Used(c) \in {"none", "issued", "used"}
    BY <1>1 DEF SignParts, CodeSet
  <2>4. \A c \in CodeIds : /\ codes'[c] \in CodeSet /\ codes'[c].fate = Used(c)
                           /\ codes'[c].flow = codes[c].flow /\ codes'[c].user = codes[c].user
    <3> HIDE DEF Used
    <3>1. TAKE c \in CodeIds
    <3>2. codes'[c] = [codes[c] EXCEPT !.fate = Used(c)]
      BY <2>2
    <3> QED
      BY <2>3, <3>2, FateSet
  <2>5. codes' \in [CodeIds -> CodeSet]
    BY <2>2, <2>4
  <2>6. \A c \in CodeIds : /\ codes[c].fate # "none" => codes'[c].fate # "none"
                           /\ codes[c].fate = "used" => codes'[c].fate = "used"
                           /\ codes'[c].fate # "none" => codes'[c].flow \in Flows
    BY <1>1, <2>4 DEF CodesOnce
  <2>7. restarts' \in 0 .. MaxRestarts
    BY <1>1, <2>1, SignInBounds DEF SignParts
  <2>8. /\ EditorHasRead' /\ users' \in [Users -> 0 .. MaxPasswords]
        /\ editor' \in [u : Users \cup {NoUser}, read : [Users -> 0 .. MaxPasswords],
                        flow : Flows \cup {NoUser}]
    BY <1>1, <2>1, SignInBounds DEF EditorHasRead, SignParts, NoEditor
  <2> QED
    BY <2>1, <2>4, <2>5, <2>6, <2>7, <2>8, ProviderSteps
<1> QED
  BY <1>2, <1>3, <1>4

\* A user's password is only replaced by a later one.
LEMMA EditSteps ==
    ASSUME SignIInv,
           \/ \E f \in Flows, u \in Users : Edit(f, u)
           \/ Register \/ Reset \/ GiveUp
    PROVE  SignIInv' /\ \A u \in Users : users'[u] >= users[u]
<1>1. SignParts /\ FlowParts /\ EditorHasRead /\ CodesOnce
  BY SignTypeParts DEF SignIInv
<1>2. UNCHANGED <<flowVars, identities, cb, signedIn, restarts>>
  BY DEF Edit, Register, Reset, GiveUp
<1>3. NoEditor \in [u : Users \cup {NoUser}, read : [Users -> 0 .. MaxPasswords], flow : Flows \cup {NoUser}]
  BY SignInBounds DEF NoEditor
<1>4. \A u \in Users : users[u] \in Nat
  BY <1>1, SignInBounds DEF SignParts
<1>5. ASSUME UNCHANGED codes
      PROVE  /\ codes' \in [CodeIds -> CodeSet]
             /\ \A c \in CodeIds : /\ codes[c].fate # "none" => /\ codes'[c].flow = codes[c].flow
                                                                /\ codes'[c].user = codes[c].user
                                                                /\ codes'[c].fate # "none"
                                   /\ codes[c].fate = "used" => codes'[c].fate = "used"
                                   /\ codes'[c].fate # "none" => codes'[c].flow \in Flows
  BY <1>1, <1>5 DEF SignParts, CodesOnce
<1>6. CASE \E f \in Flows, u \in Users : Edit(f, u)
  <2>1. PICK f \in Flows, u \in Users : Edit(f, u)
    BY <1>6
  <2>2. /\ users[u] < MaxPasswords /\ UNCHANGED <<codes, users>>
        /\ editor' = [u |-> u, read |-> users, flow |-> f]
    BY <2>1 DEF Edit
  <2>3. EditorHasRead'
    BY <2>2 DEF EditorHasRead
  <2>4. editor' \in [u : Users \cup {NoUser}, read : [Users -> 0 .. MaxPasswords], flow : Flows \cup {NoUser}]
    BY <1>1, <2>2 DEF SignParts
  <2> QED
    BY <1>1, <1>2, <1>4, <1>5, <2>2, <2>3, <2>4, ProviderSteps DEF SignParts
<1>7. CASE GiveUp
  <2>1. editor' = NoEditor /\ UNCHANGED <<codes, users>> /\ EditorHasRead'
    BY <1>7 DEF GiveUp, EditorHasRead
  <2> QED
    BY <1>1, <1>2, <1>3, <1>4, <1>5, <2>1, ProviderSteps DEF SignParts
<1>8. CASE Register \/ Reset
  <2> DEFINE u == editor.u
  <2>1. /\ u \in Users /\ editor.flow \in Flows /\ editor.read = users /\ users[u] < MaxPasswords
        /\ editor' = NoEditor /\ EditorHasRead'
    BY <1>1, <1>8 DEF Register, Reset, EditorHasRead
  <2>2. users' = [users EXCEPT ![u] = users[u] + 1]
    BY <1>1, <1>8, <2>1 DEF Register, Reset, SignParts
  <2> HIDE DEF u
  <2>3. users' \in [Users -> 0 .. MaxPasswords] /\ \A v \in Users : users'[v] >= users[v]
    BY <1>1, <1>4, <2>1, <2>2, SignInBounds DEF SignParts
  <2>4. CASE Register
    <3>1. Issue(editor.flow, u)
      BY <2>4 DEF Register, u
    <3>2. /\ codes' \in [CodeIds -> CodeSet]
          /\ \A c \in CodeIds : /\ codes[c].fate # "none" => codes'[c] = codes[c]
                                /\ codes'[c].fate # "none" => codes'[c].flow \in Flows
      BY <2>1, <3>1, IssueStep
    <3> QED
      BY <1>1, <1>2, <1>3, <2>1, <2>3, <3>2, ProviderSteps DEF SignParts
  <2>5. CASE Reset
    BY <1>1, <1>2, <1>3, <1>5, <2>1, <2>3, <2>5, ProviderSteps DEF SignParts, Reset
  <2> QED
    BY <1>8, <2>4, <2>5
<1> QED
  BY <1>6, <1>7, <1>8

\* Callbacks: each exchanges its code, records who signs in and consumes the flow.
LEMMA CallbackTypes ==
    ASSUME SignIInv, codes' \in [CodeIds -> CodeSet], cb' \in [Callbacks -> CbSet],
           identities' \in [Tokens -> Users \cup {NoUser}],
           memory' \subseteq memory, files' \subseteq files,
           UNCHANGED <<started, old, atProvider, users, editor, restarts>>
    PROVE  SignTypeOK' /\ EditorHasRead'
<1>1. SignParts /\ FlowParts /\ EditorHasRead
  BY SignTypeParts DEF SignIInv
<1>2. SignParts' /\ FlowParts' /\ EditorHasRead'
  BY <1>1 DEF SignParts, FlowParts, EditorHasRead
<1> QED
  BY <1>2 DEF SignTypeOK, SignParts, FlowParts, CodeSet, CbSet

LEMMA CallBackStep ==
    ASSUME SignIInv, NEW k \in Callbacks, NEW c \in CodeIds, CallBack(k, c)
    PROVE  SignIInv'
<1> DEFINE new == [pc |-> "exchanging", flow |-> codes[c].flow, code |-> c, user |-> NoUser]
<1>1. SignParts /\ CodesOnce /\ CallbacksHaveCodes /\ OneRecords
  BY SignTypeParts DEF SignIInv
<1>2. /\ codes[c].fate # "none" /\ cb' = [cb EXCEPT ![k] = new]
      /\ UNCHANGED <<started, memory, files, old, atProvider, identities, codes, users, editor, signedIn, restarts>>
  BY DEF CallBack, flowVars, providerVars
<1>3. codes \in [CodeIds -> CodeSet] /\ cb \in [Callbacks -> CbSet] /\ codes[c].flow \in Flows
  BY <1>1, <1>2 DEF SignParts, CodesOnce
<1>4. new \in CbSet /\ new.pc = "exchanging" /\ new.code = c /\ new.flow = codes[c].flow
  BY <1>3, SignTypes DEF CbSet
<1> HIDE DEF new
<1>5. SignTypeOK' /\ EditorHasRead'
  BY <1>1, <1>2, <1>3, <1>4, CallbackTypes DEF SignParts
<1>6. \A j \in Callbacks : cb'[j] = IF j = k THEN new ELSE cb[j]
  BY <1>2, <1>3
<1>7. CodesOnce' /\ OneRecords'
  BY <1>1, <1>2, <1>4, <1>6 DEF CodesOnce, OneRecords
<1>8. CallbacksHaveCodes'
  BY <1>1, <1>2, <1>4, <1>6 DEF CallbacksHaveCodes
<1>9. SignedInByOwnFlow' /\ StartedCanFinish'
  BY <1>2, <1>3, SignInsKept
<1> QED
  BY <1>5, <1>7, <1>8, <1>9 DEF SignIInv

LEMMA ExchangeStep ==
    ASSUME SignIInv, NEW k \in Callbacks, Exchange(k)
    PROVE  SignIInv'
<1> DEFINE c == cb[k].code
           new == [cb[k] EXCEPT !.pc = "recording", !.user = codes[c].user]
<1>1. SignParts /\ CodesOnce /\ CallbacksHaveCodes /\ OneRecords
  BY SignTypeParts DEF SignIInv
<1>2. /\ cb[k].pc = "exchanging" /\ codes[c].fate = "issued"
      /\ codes' = [codes EXCEPT ![c] = [codes[c] EXCEPT !.fate = "used"]]
      /\ UNCHANGED <<started, memory, files, old, atProvider, identities, users, editor, signedIn, restarts>>
  BY DEF Exchange, flowVars
<1>3. codes \in [CodeIds -> CodeSet] /\ cb \in [Callbacks -> CbSet] /\ cb[k] \in CbSet
  BY <1>1 DEF SignParts
<1>4. cb' = [cb EXCEPT ![k] = new]
  BY <1>3 DEF Exchange
<1>5. c \in CodeIds /\ cb[k].flow = codes[c].flow /\ signedIn[c] = 0
  BY <1>1, <1>2 DEF CallbacksHaveCodes, CodesOnce
<1>6. /\ new \in CbSet /\ new.pc = "recording" /\ new.code = c
      /\ new.flow = codes[c].flow /\ new.user = codes[c].user
  BY <1>3, <1>5 DEF CbSet, CodeSet
<1>7. \A j \in Callbacks : cb[j].pc = "recording" => cb[j].code # c
  BY <1>1, <1>2 DEF CallbacksHaveCodes
<1> HIDE DEF c, new
<1>8. /\ codes' \in [CodeIds -> CodeSet]
      /\ \A d \in CodeIds : /\ codes'[d].flow = codes[d].flow /\ codes'[d].user = codes[d].user
                            /\ codes'[d].fate = IF d = c THEN "used" ELSE codes[d].fate
  <2> DEFINE e == [codes[c] EXCEPT !.fate = "used"]
  <2>1. codes[c] \in CodeSet /\ codes' = [codes EXCEPT ![c] = e]
    BY <1>2, <1>3, <1>5
  <2>2. e \in CodeSet /\ e.fate = "used" /\ e.flow = codes[c].flow /\ e.user = codes[c].user
    BY <2>1, FateSet
  <2> HIDE DEF e
  <2> QED
    BY <1>3, <1>5, <2>1, <2>2
<1>9. \A j \in Callbacks : cb'[j] = IF j = k THEN new ELSE cb[j]
  BY <1>3, <1>4
<1>10. SignTypeOK' /\ EditorHasRead'
  <2>1. cb' \in [Callbacks -> CbSet]
    BY <1>3, <1>4, <1>6
  <2> QED
    BY <1>1, <1>2, <1>8, <2>1, CallbackTypes DEF SignParts
<1>11. CodesOnce'
  BY <1>1, <1>2, <1>5, <1>8 DEF CodesOnce
<1>12. OneRecords'
  BY <1>1, <1>6, <1>7, <1>9 DEF OneRecords
<1>13. CallbacksHaveCodes'
  BY <1>1, <1>2, <1>5, <1>6, <1>7, <1>8, <1>9 DEF CallbacksHaveCodes
<1>14. SignedInByOwnFlow' /\ StartedCanFinish'
  BY <1>2, <1>8, SignInsKept
<1> QED
  BY <1>10, <1>11, <1>12, <1>13, <1>14 DEF SignIInv

LEMMA ExchangeFailsStep ==
    ASSUME SignIInv, NEW k \in Callbacks, ExchangeFails(k)
    PROVE  SignIInv'
<1> DEFINE c == cb[k].code
           fate == IF codes[c].fate = "issued" THEN "used" ELSE codes[c].fate
<1>1. SignParts /\ CodesOnce /\ CallbacksHaveCodes /\ OneRecords
  BY SignTypeParts DEF SignIInv
<1>2. /\ cb[k].pc \in {"exchanging", "recording"} /\ cb' = [cb EXCEPT ![k] = Idle]
      /\ UNCHANGED <<started, memory, files, old, atProvider, identities, users, editor, signedIn, restarts>>
  BY DEF ExchangeFails, flowVars
<1>3. codes \in [CodeIds -> CodeSet] /\ cb \in [Callbacks -> CbSet] /\ c \in CodeIds
  BY <1>1, <1>2 DEF SignParts, CallbacksHaveCodes
<1>4. codes' = [codes EXCEPT ![c] = [codes[c] EXCEPT !.fate = fate]]
  BY <1>3 DEF ExchangeFails
<1>5. codes[c] \in CodeSet /\ fate \in {"none", "issued", "used"}
  BY <1>3 DEF CodeSet
<1>6. fate # "issued" /\ (codes[c].fate # "none" => fate = "used") /\ (fate = "none" <=> codes[c].fate = "none")
  BY <1>5 DEF CodeSet
<1> HIDE DEF c, fate
<1>7. /\ codes' \in [CodeIds -> CodeSet]
      /\ \A d \in CodeIds : /\ codes'[d].flow = codes[d].flow /\ codes'[d].user = codes[d].user
                            /\ codes'[d].fate = IF d = c THEN fate ELSE codes[d].fate
  <2> DEFINE e == [codes[c] EXCEPT !.fate = fate]
  <2>1. codes' = [codes EXCEPT ![c] = e]
    BY <1>4
  <2>2. e \in CodeSet /\ e.fate = fate /\ e.flow = codes[c].flow /\ e.user = codes[c].user
    BY <1>5, FateSet
  <2> HIDE DEF e
  <2> QED
    BY <1>3, <2>1, <2>2
<1>8. \A j \in Callbacks : cb'[j] = IF j = k THEN Idle ELSE cb[j]
  BY <1>2, <1>3
<1>9. SignTypeOK' /\ EditorHasRead'
  <2>1. cb' \in [Callbacks -> CbSet]
    BY <1>2, <1>3, SignTypes
  <2> QED
    BY <1>1, <1>2, <1>7, <2>1, CallbackTypes DEF SignParts
<1>10. CodesOnce'
  BY <1>1, <1>2, <1>6, <1>7 DEF CodesOnce
<1>11. OneRecords'
  BY <1>1, <1>8, SignTypes DEF OneRecords
<1>12. CallbacksHaveCodes'
  BY <1>1, <1>2, <1>6, <1>7, <1>8, SignTypes DEF CallbacksHaveCodes
<1>13. SignedInByOwnFlow' /\ StartedCanFinish'
  BY <1>2, <1>7, SignInsKept
<1> QED
  BY <1>9, <1>10, <1>11, <1>12, <1>13 DEF SignIInv

LEMMA RecordStep ==
    ASSUME SignIInv, NEW k \in Callbacks, Record(k)
    PROVE  SignIInv'
<1> DEFINE c == cb[k].code
           token == TokenOf[cb[k].flow]
           new == [cb[k] EXCEPT !.pc = "consuming"]
<1>1. SignParts /\ CodesOnce /\ CallbacksHaveCodes /\ OneRecords /\ SignedInByOwnFlow
  BY SignTypeParts DEF SignIInv
<1>2. /\ cb[k].pc = "recording" /\ cb' = [cb EXCEPT ![k] = new]
      /\ identities' = [identities EXCEPT ![token] = cb[k].user]
      /\ signedIn' = [signedIn EXCEPT ![c] = signedIn[c] + 1]
      /\ UNCHANGED <<started, memory, files, old, atProvider, codes, users, editor, restarts>>
  <2>1. cb \in [Callbacks -> CbSet] /\ signedIn \in [CodeIds -> Nat]
    BY <1>1 DEF SignParts, CodesOnce
  <2>2. cb[k].code \in CodeIds
    BY <1>1 DEF Record, CallbacksHaveCodes
  <2> QED
    BY <2>1, <2>2 DEF Record, flowVars, providerVars
<1>3. /\ codes \in [CodeIds -> CodeSet] /\ cb \in [Callbacks -> CbSet] /\ cb[k] \in CbSet
      /\ signedIn \in [CodeIds -> Nat] /\ identities \in [Tokens -> Users \cup {NoUser}]
  BY <1>1 DEF SignParts, CodesOnce
<1>4. /\ c \in CodeIds /\ cb[k].flow = codes[c].flow /\ signedIn[c] = 0 /\ codes[c].fate = "used"
      /\ cb[k].user = codes[c].user /\ codes[c].flow \in Flows
  BY <1>1, <1>2 DEF CallbacksHaveCodes, CodesOnce
<1>5. /\ new \in CbSet /\ new.pc = "consuming" /\ new.code = c /\ new.flow = codes[c].flow
  BY <1>3, <1>4 DEF CbSet
<1>6. token \in Tokens /\ token = TokenOf[codes[c].flow] /\ cb[k].user \in Users \cup {NoUser}
  BY <1>3, <1>4 DEF Tokens, CbSet
<1>7. \A j \in Callbacks : j # k /\ cb[j].pc = "recording" => cb[j].code # c
  BY <1>1, <1>2 DEF OneRecords
<1> HIDE DEF c, token, new
<1>8. \A d \in CodeIds : signedIn'[d] = IF d = c THEN 1 ELSE signedIn[d]
  BY <1>2, <1>3, <1>4
<1>9. \A j \in Callbacks : cb'[j] = IF j = k THEN new ELSE cb[j]
  BY <1>2, <1>3
<1>10. SignTypeOK' /\ EditorHasRead'
  <2>1. cb' \in [Callbacks -> CbSet] /\ identities' \in [Tokens -> Users \cup {NoUser}]
    BY <1>2, <1>3, <1>5, <1>6
  <2> QED
    BY <1>1, <1>2, <1>3, <2>1, CallbackTypes
<1>11. CodesOnce'
  <2>1. signedIn' \in [CodeIds -> Nat]
    BY <1>2, <1>3, <1>4
  <2> QED
    BY <1>1, <1>2, <1>4, <1>8, <2>1 DEF CodesOnce
<1>12. OneRecords'
  BY <1>1, <1>5, <1>9 DEF OneRecords
<1>13. CallbacksHaveCodes'
  BY <1>1, <1>2, <1>3, <1>4, <1>5, <1>7, <1>8, <1>9 DEF CallbacksHaveCodes
<1>14. SignedInByOwnFlow'
  BY <1>1, <1>2, <1>3, <1>4, <1>6, <1>8 DEF SignedInByOwnFlow
<1>15. StartedCanFinish'
  BY <1>2, <1>3, <1>8, SignInsKept
<1> QED
  BY <1>10, <1>11, <1>12, <1>13, <1>14, <1>15 DEF SignIInv

LEMMA ConsumeStep ==
    ASSUME SignIInv, NEW k \in Callbacks, Consume(k)
    PROVE  SignIInv'
<1>1. SignParts /\ CodesOnce /\ CallbacksHaveCodes /\ OneRecords
  BY SignTypeParts DEF SignIInv
<1>2. /\ cb[k].pc = "consuming" /\ cb' = [cb EXCEPT ![k] = Idle]
      /\ memory' = memory \ {cb[k].flow} /\ files' = files \ {cb[k].flow}
      /\ UNCHANGED <<started, old, atProvider, identities, codes, users, editor, signedIn, restarts>>
  BY DEF Consume, providerVars
<1>3. codes \in [CodeIds -> CodeSet] /\ cb \in [Callbacks -> CbSet]
  BY <1>1 DEF SignParts
<1>4. \A j \in Callbacks : cb'[j] = IF j = k THEN Idle ELSE cb[j]
  BY <1>2, <1>3
<1>5. SignTypeOK' /\ EditorHasRead'
  <2>1. cb' \in [Callbacks -> CbSet]
    BY <1>2, <1>3, SignTypes
  <2> QED
    BY <1>1, <1>2, <1>3, <2>1, CallbackTypes DEF SignParts
<1>6. CodesOnce' /\ OneRecords' /\ CallbacksHaveCodes'
  BY <1>1, <1>2, <1>4, SignTypes DEF CodesOnce, OneRecords, CallbacksHaveCodes
<1>7. SignedInByOwnFlow'
  BY <1>2, <1>3, SignInsKept
<1>8. StartedCanFinish'
  <2>1. cb[k].code \in CodeIds /\ codes[cb[k].code].flow = cb[k].flow /\ signedIn[cb[k].code] > 0
    BY <1>1, <1>2 DEF CallbacksHaveCodes
  <2> QED
    BY <1>2, <2>1 DEF StartedCanFinish, SignIInv
<1> QED
  BY <1>5, <1>6, <1>7, <1>8 DEF SignIInv

LEMMA SignStep == SignIInv /\ [SignNext]_signVars => SignIInv'
<1> SUFFICES ASSUME SignIInv, [SignNext]_signVars PROVE SignIInv'
  OBVIOUS
<1>1. CASE \E f \in Flows : Start(f) \/ ToProvider(f) \/ GrowOld(f)
  BY <1>1, FlowSteps
<1>2. CASE \E f \in Flows, u \in Users : Authorize(f, u)
  BY <1>2, CodeSteps
<1>3. CASE \E f \in Flows, u \in Users : Edit(f, u)
  BY <1>3, EditSteps
<1>4. CASE \E k \in Callbacks : \E c \in CodeIds : CallBack(k, c)
  BY <1>4, CallBackStep
<1>5. CASE \E k \in Callbacks : Exchange(k) \/ ExchangeFails(k) \/ Record(k) \/ Consume(k)
  BY <1>5, ExchangeStep, ExchangeFailsStep, RecordStep, ConsumeStep
<1>6. CASE \E t \in Tokens : Logout(t)
  BY <1>6, LogoutStep
<1>7. CASE \E c \in CodeIds : CodeExpires(c)
  BY <1>7, CodeSteps
<1>8. CASE Register \/ Reset \/ GiveUp
  BY <1>8, EditSteps
<1>9. CASE ProviderRestarts
  BY <1>9, CodeSteps
<1>10. CASE WebRestarts
  BY <1>10, WebRestartsStep
<1>11. CASE UNCHANGED signVars
  <2>1. SignParts' /\ FlowParts' /\ EditorHasRead' /\ SignedInByOwnFlow' /\ StartedCanFinish'
    BY <1>11, SignTypeParts DEF SignIInv, SignParts, FlowParts, EditorHasRead, SignedInByOwnFlow,
         StartedCanFinish, signVars, flowVars, providerVars
  <2>2. CodesOnce' /\ CallbacksHaveCodes' /\ OneRecords'
    BY <1>11, CodesKept DEF signVars, providerVars
  <2>3. SignTypeOK'
    BY <2>1 DEF SignTypeOK, SignParts, FlowParts, CodeSet, CbSet
  <2> QED
    BY <2>1, <2>2, <2>3 DEF SignIInv
<1> QED
  BY <1>1, <1>2, <1>3, <1>4, <1>5, <1>6, <1>7, <1>8, <1>9, <1>10, <1>11 DEF SignNext

LEMMA SignStart == SignInit => SignIInv
<1> SUFFICES ASSUME SignInit PROVE SignIInv
  OBVIOUS
<1> USE DEF SignInit
<1>1. \A c \in CodeIds : codes[c] \in CodeSet /\ codes[c].fate = "none"
  BY DEF CodeSet
<1>2. SignParts
  BY <1>1, SignInBounds, SignTypes DEF SignParts, NoEditor
<1>3. FlowParts
  BY DEF FlowParts
<1>4. SignTypeOK
  BY <1>2, <1>3, SignTypeParts
<1>5. CodesOnce
  BY <1>1 DEF CodesOnce
<1>6. CallbacksHaveCodes /\ OneRecords
  BY SignTypes DEF CallbacksHaveCodes, OneRecords
<1>7. EditorHasRead /\ SignedInByOwnFlow /\ StartedCanFinish
  BY DEF EditorHasRead, SignedInByOwnFlow, StartedCanFinish
<1> QED
  BY <1>4, <1>5, <1>6, <1>7 DEF SignIInv

(* Whatever callbacks repeat, flows overlap and servers restart: a code      *)
(* signs in once, for the token whose flow asked for it, and an oidc flow   *)
(* that is neither old nor signed in can still be finished.                 *)
THEOREM SignInvHolds == SignSpec => []SignInv
<1>1. SignIInv => SignInv
  BY DEF SignIInv, SignInv, CodesOnce, OneSignInPerCode
<1> QED
  BY <1>1, SignStart, SignStep, PTL DEF SignSpec

(* register_post and reset_post write back the whole user file they read;    *)
(* no user and no later password is lost by it, because whoever holds the   *)
(* lock has read what the file still says.                                  *)
LEMMA UsersAreKeptHolds == SignSpec => UsersAreKept
<1>1. SignIInv /\ [SignNext]_signVars => [\A u \in Users : users'[u] >= users[u]]_signVars
  <2> SUFFICES ASSUME SignIInv, SignNext PROVE \A u \in Users : users'[u] >= users[u]
    OBVIOUS
  <2>1. \A u \in Users : users[u] \in Nat
    BY SignTypeParts, SignInBounds DEF SignIInv, SignParts
  <2>2. CASE \/ \E f \in Flows, u \in Users : Edit(f, u)
             \/ Register \/ Reset \/ GiveUp
    BY <2>2, EditSteps
  <2>3. CASE UNCHANGED users
    BY <2>1, <2>3
  <2> QED
    BY <2>2, <2>3 DEF SignNext, Start, ToProvider, GrowOld, Authorize, CallBack, Exchange, ExchangeFails,
         Record, Consume, Logout, CodeExpires, ProviderRestarts, WebRestarts, providerVars
<1> QED
  BY <1>1, SignStart, SignStep, PTL DEF SignSpec, UsersAreKept

-----------------------------------------------------------------------------
(* The table of web sessions.  An input that was not sent yet is nowhere,   *)
(* and one that waits is nowhere else.                                      *)

Distinct(q) == \A i, j \in 1 .. Len(q) : q[i] = q[j] => i = j

WithSession == {"checking", "dropping", "inserting", "taking", "passing", "found", "entering", "visiting"}
HoldsKnown  == \A w \in Visitors : at[w] \in WithSession => holds[w] \in 1 .. made

UnsentIsNowhere ==
    \A i \in Inputs : req[i] # "sent" =>
        /\ \A s \in SessionIds : i \notin inputs[s]
        /\ i \notin Waiting(pending)
        /\ \A w \in Visitors : i \notin Waiting(passing[w])

WaitsOnce ==
    /\ Distinct(pending)
    /\ \A w \in Visitors : /\ Distinct(passing[w])
                           /\ Waiting(pending) \cap Waiting(passing[w]) = {}
    /\ \A v, w \in Visitors : v # w => Waiting(passing[v]) \cap Waiting(passing[w]) = {}

WebIInv == WebTypeOK /\ HoldsKnown /\ NoneIsLost /\ InputsGoToOne /\ UnsentIsNowhere /\ WaitsOnce

\* Sequences that lose their head, or grow by something new.
LEMMA WaitingTail ==
    ASSUME NEW S, NEW q \in Seq(S), q # <<>>
    PROVE  /\ Head(q) \in Waiting(q) /\ Head(q) \in S
           /\ Tail(q) \in Seq(S) /\ Waiting(Tail(q)) \subseteq Waiting(q)
           /\ Waiting(q) = {Head(q)} \cup Waiting(Tail(q))
           /\ Distinct(q) => Distinct(Tail(q)) /\ Head(q) \notin Waiting(Tail(q))
<1>1. Len(q) \in Nat \ {0} /\ Tail(q) \in Seq(S) /\ Len(Tail(q)) = Len(q) - 1 /\ Head(q) = q[1]
  BY EmptySeq, HeadTailProperties
<1>2. \A i \in 1 .. Len(Tail(q)) : Tail(q)[i] = q[i + 1] /\ i + 1 \in 2 .. Len(q)
  BY <1>1, HeadTailProperties
<1>3. \A i \in 2 .. Len(q) : i - 1 \in 1 .. Len(Tail(q)) /\ q[i] = Tail(q)[i - 1]
  BY <1>1, <1>2
<1>4. 1 \in 1 .. Len(q) /\ q[1] \in S /\ \A i \in 1 .. Len(q) : i = 1 \/ i \in 2 .. Len(q)
  BY <1>1
<1>5. Waiting(q) = {Head(q)} \cup Waiting(Tail(q))
  <2>1. ASSUME NEW x \in Waiting(q) PROVE x = Head(q) \/ x \in Waiting(Tail(q))
    <3>1. PICK i \in 1 .. Len(q) : x = q[i]
      BY <2>1 DEF Waiting
    <3>2. CASE i = 1
      BY <1>1, <3>1, <3>2
    <3>3. CASE i \in 2 .. Len(q)
      BY <1>3, <3>1, <3>3 DEF Waiting
    <3> QED
      BY <1>4, <3>2, <3>3
  <2>2. Head(q) \in Waiting(q)
    BY <1>1, <1>4 DEF Waiting
  <2>3. ASSUME NEW x \in Waiting(Tail(q)) PROVE x \in Waiting(q)
    <3>1. PICK i \in 1 .. Len(Tail(q)) : x = Tail(q)[i]
      BY <2>3 DEF Waiting
    <3>2. x = q[i + 1] /\ i + 1 \in 1 .. Len(q)
      BY <1>1, <1>2, <3>1
    <3> QED
      BY <3>2 DEF Waiting
  <2> QED
    BY <2>1, <2>2, <2>3
<1>6. ASSUME Distinct(q) PROVE Distinct(Tail(q)) /\ Head(q) \notin Waiting(Tail(q))
  <2>1. ASSUME NEW i \in 1 .. Len(Tail(q)), NEW j \in 1 .. Len(Tail(q)), Tail(q)[i] = Tail(q)[j] PROVE i = j
    <3>1. i + 1 = j + 1
      BY <1>1, <1>2, <1>6, <2>1 DEF Distinct
    <3> QED
      BY <1>1, <3>1
  <2>2. \A i \in 1 .. Len(Tail(q)) : Tail(q)[i] # q[1]
    BY <1>1, <1>2, <1>4, <1>6 DEF Distinct
  <2> QED
    BY <1>1, <2>1, <2>2 DEF Distinct, Waiting
<1> QED
  BY <1>1, <1>4, <1>5, <1>6

LEMMA WaitingAppend ==
    ASSUME NEW S, NEW q \in Seq(S), NEW x \in S
    PROVE  /\ Append(q, x) \in Seq(S) /\ Waiting(Append(q, x)) = Waiting(q) \cup {x}
           /\ Distinct(q) /\ x \notin Waiting(q) => Distinct(Append(q, x))
<1>1. /\ Len(q) \in Nat /\ Len(Append(q, x)) = Len(q) + 1 /\ Append(q, x) \in Seq(S)
      /\ \A i \in 1 .. Len(q) : Append(q, x)[i] = q[i]
      /\ Append(q, x)[Len(q) + 1] = x
  OBVIOUS
<1>2. \A i \in 1 .. Len(q) + 1 : i \in 1 .. Len(q) \/ i = Len(q) + 1
  BY <1>1
<1>3. Len(q) + 1 \in 1 .. Len(q) + 1 /\ 1 .. Len(q) \subseteq 1 .. Len(q) + 1
  BY <1>1
<1> QED
  BY <1>1, <1>2, <1>3 DEF Waiting, Distinct

LEMMA WaitingEmpty == Waiting(<<>>) = {} /\ Distinct(<<>>)
BY DEF Waiting, Distinct

LEMMA ShutDownTypes ==
    ASSUME WebTypeOK, NEW s, ShutDownSession(s)
    PROVE  /\ lives' \in [SessionIds -> BOOLEAN] /\ ending' \in [SessionIds -> BOOLEAN]
           /\ visitor' \in [SessionIds -> Visitors \cup {NoVisitor}] /\ idle' \in [SessionIds -> BOOLEAN]
BY DEF WebTypeOK, ShutDownSession

\* The type of what the tasks keep, and of the rest.
TaskTypes ==
    /\ at \in [Visitors -> WithSession \cup {"start", "connecting", "done"}]
    /\ holds \in [Visitors -> 0 .. made] /\ passing \in [Visitors -> Seq(Inputs)]
    /\ \A w \in Visitors : passing[w] # <<>> <=> at[w] = "passing"
TableTypes ==
    /\ mapped \in 0 .. made /\ pending \in Seq(Inputs) /\ made \in 0 .. MaxConnects
    /\ req \in [Inputs -> {"new", "deferring", "sent"}] /\ sweeping \in 0 .. made
    /\ leaving \in BOOLEAN /\ logouts \in 0 .. MaxLogouts
SessionTypes ==
    /\ lives \in [SessionIds -> BOOLEAN] /\ ending \in [SessionIds -> BOOLEAN]
    /\ visitor \in [SessionIds -> Visitors \cup {NoVisitor}]
    /\ idle \in [SessionIds -> BOOLEAN] /\ inputs \in [SessionIds -> SUBSET Inputs]

LEMMA WebTypeParts == WebTypeOK <=> TaskTypes /\ TableTypes /\ SessionTypes
BY DEF WebTypeOK, TaskTypes, TableTypes, SessionTypes, WithSession

LEMMA WebTaskTypeStep ==
    ASSUME WebTypeOK, HoldsKnown, NEW w \in Visitors, VisitorTask(w) \/ Leave(w)
    PROVE  WebTypeOK' /\ HoldsKnown'
<1>1. TaskTypes /\ TableTypes /\ SessionTypes
  BY WebTypeParts
<1>2. made \in Nat /\ 0 \in 0 .. made /\ \A s \in 1 .. made : s \in 0 .. made /\ s \in SessionIds
  BY <1>1, WebBounds DEF TableTypes, SessionIds
<1>3. CASE Find(w) \/ CheckAlive(w) \/ MayVisit(w)
  <2>1. TableTypes' /\ SessionTypes'
    BY <1>1, <1>3 DEF TableTypes, SessionTypes, Find, CheckAlive, MayVisit, tableVars, deathVars, logoutVars
  <2>2. CASE Find(w)
    <3>1. mapped # NoSession => mapped \in 1 .. made
      BY <1>1, <1>2 DEF TableTypes, NoSession
    <3>2. TaskTypes'
      BY <1>1, <2>2 DEF TaskTypes, TableTypes, WithSession, Find, tableVars, GoTo
    <3>3. HoldsKnown'
      BY <1>1, <2>2, <3>1 DEF TaskTypes, HoldsKnown, WithSession, Find, tableVars, GoTo
    <3> QED
      BY <2>1, <3>2, <3>3 DEF WebTypeOK, TaskTypes, TableTypes, SessionTypes, WithSession
  <2>3. CASE CheckAlive(w) \/ MayVisit(w)
    <3>1. TaskTypes' /\ HoldsKnown'
      BY <1>1, <2>3 DEF TaskTypes, HoldsKnown, WithSession, CheckAlive, MayVisit, tableVars, GoTo
    <3> QED
      BY <2>1, <3>1 DEF WebTypeOK, TaskTypes, TableTypes, SessionTypes, WithSession
  <2> QED
    BY <1>3, <2>2, <2>3
<1>4. CASE Visit(w) \/ Leave(w)
  <2>1. TableTypes' /\ TaskTypes' /\ HoldsKnown'
    BY <1>1, <1>4 DEF TableTypes, TaskTypes, HoldsKnown, WithSession, Visit, Leave, tableVars, logoutVars, GoTo
  <2>2. SessionTypes'
    BY <1>1, <1>4 DEF SessionTypes, Visit, Leave
  <2> QED
    BY <2>1, <2>2 DEF WebTypeOK, TaskTypes, TableTypes, SessionTypes, WithSession
<1>5. CASE DropDead(w)
  <2>1. SessionTypes'
    BY <1>1, <1>5, ShutDownTypes DEF SessionTypes, DropDead
  <2>2. TableTypes' /\ TaskTypes' /\ HoldsKnown'
    BY <1>1, <1>2, <1>5 DEF TableTypes, TaskTypes, HoldsKnown, WithSession, DropDead, logoutVars, GoTo, NoSession
  <2> QED
    BY <2>1, <2>2 DEF WebTypeOK, TaskTypes, TableTypes, SessionTypes, WithSession
<1>6. CASE ConnectTcp(w)
  <2>1. made' = made \/ (made < MaxConnects /\ made' = made + 1)
    BY <1>6 DEF ConnectTcp
  <2>2. /\ made' \in 0 .. MaxConnects /\ 0 .. made \subseteq 0 .. made' /\ 1 .. made \subseteq 1 .. made'
        /\ made' # made => made' \in 1 .. made' /\ made' \in 0 .. made'
    BY <1>1, <1>2, <2>1, WebBounds DEF TableTypes
  <2>3. SessionTypes'
    BY <1>1, <1>6 DEF SessionTypes, ConnectTcp
  <2>4. TableTypes'
    BY <1>1, <1>6, <2>2 DEF TableTypes, ConnectTcp, logoutVars
  <2>5. CASE GoTo(w, "done") /\ UNCHANGED <<made, lives, holds>>
    <3>1. TaskTypes' /\ HoldsKnown'
      BY <1>1, <1>6, <2>5 DEF TaskTypes, HoldsKnown, WithSession, ConnectTcp, GoTo
    <3> QED
      BY <2>3, <2>4, <3>1 DEF WebTypeOK, TaskTypes, TableTypes, SessionTypes, WithSession
  <2>6. CASE made' = made + 1 /\ holds' = [holds EXCEPT ![w] = made'] /\ GoTo(w, "inserting")
    <3>1. made' # made
      BY <1>2, <2>6
    <3>2. TaskTypes' /\ HoldsKnown'
      BY <1>1, <1>6, <2>2, <2>6, <3>1 DEF TaskTypes, HoldsKnown, WithSession, ConnectTcp, GoTo
    <3> QED
      BY <2>3, <2>4, <3>2 DEF WebTypeOK, TaskTypes, TableTypes, SessionTypes, WithSession
  <2> QED
    BY <1>6, <2>5, <2>6 DEF ConnectTcp
<1>7. CASE Insert(w)
  <2>1. SessionTypes'
    BY <1>1, <1>7, ShutDownTypes DEF SessionTypes, Insert, deathVars
  <2>2. CASE /\ mapped # NoSession /\ UNCHANGED mapped
             /\ holds' = [holds EXCEPT ![w] = mapped] /\ GoTo(w, "found")
    <3>1. mapped \in 1 .. made /\ mapped \in 0 .. made
      BY <1>1, <1>2, <2>2 DEF TableTypes, NoSession
    <3>2. TableTypes' /\ TaskTypes' /\ HoldsKnown'
      BY <1>1, <1>7, <2>2, <3>1 DEF TableTypes, TaskTypes, HoldsKnown, WithSession, Insert, logoutVars, GoTo
    <3> QED
      BY <2>1, <3>2 DEF WebTypeOK, TaskTypes, TableTypes, SessionTypes, WithSession
  <2>3. CASE /\ mapped = NoSession /\ mapped' = holds[w] /\ GoTo(w, "taking")
             /\ UNCHANGED <<deathVars, holds>>
    <3>1. TableTypes' /\ TaskTypes' /\ HoldsKnown'
      BY <1>1, <1>7, <2>3 DEF TableTypes, TaskTypes, HoldsKnown, WithSession, Insert, logoutVars, GoTo
    <3> QED
      BY <2>1, <3>1 DEF WebTypeOK, TaskTypes, TableTypes, SessionTypes, WithSession
  <2> QED
    BY <1>7, <2>2, <2>3 DEF Insert
<1>8. CASE TakePending(w)
  <2>1. TableTypes' /\ SessionTypes'
    BY <1>1, <1>8 DEF TableTypes, SessionTypes, TakePending, deathVars, logoutVars
  <2>2. TaskTypes' /\ HoldsKnown'
    BY <1>1, <1>8 DEF TaskTypes, TableTypes, HoldsKnown, WithSession, TakePending, GoTo
  <2> QED
    BY <2>1, <2>2 DEF WebTypeOK, TaskTypes, TableTypes, SessionTypes, WithSession
<1>9. CASE PassInput(w)
  <2>1. /\ passing[w] \in Seq(Inputs) /\ passing[w] # <<>>
        /\ Head(passing[w]) \in Inputs /\ Tail(passing[w]) \in Seq(Inputs)
    BY <1>1, <1>9, WaitingTail DEF TaskTypes, PassInput
  <2>2. Len(passing[w]) # 1 <=> Tail(passing[w]) # <<>>
    <3>1. Len(passing[w]) \in Nat \ {0} /\ Len(Tail(passing[w])) = Len(passing[w]) - 1
      BY <2>1, EmptySeq, HeadTailProperties
    <3>2. Tail(passing[w]) = <<>> <=> Len(Tail(passing[w])) = 0
      BY <2>1, EmptySeq
    <3> QED
      BY <3>1, <3>2
  <2>3. TableTypes' /\ SessionTypes'
    BY <1>1, <1>9, <2>1 DEF TableTypes, SessionTypes, PassInput, tableVars, deathVars, logoutVars
  <2>4. passing' = [passing EXCEPT ![w] = Tail(passing[w])] /\ UNCHANGED <<made, holds>>
        /\ at' = [at EXCEPT ![w] = IF Len(passing[w]) = 1 THEN "found" ELSE "passing"]
    BY <1>1, <1>9 DEF PassInput, TaskTypes, tableVars, GoTo
  <2>5. TaskTypes' /\ HoldsKnown'
    BY <1>1, <1>9, <2>1, <2>2, <2>4 DEF TaskTypes, HoldsKnown, WithSession, PassInput
  <2> QED
    BY <2>3, <2>5 DEF WebTypeOK, TaskTypes, TableTypes, SessionTypes, WithSession
<1> QED
  BY <1>3, <1>4, <1>5, <1>6, <1>7, <1>8, <1>9 DEF VisitorTask

\* The other steps leave the tasks as they are.
WebOther ==
    \/ \E s \in SessionIds : Dies(s)
    \/ \E i \in Inputs : LookUp(i) \/ Defer(i)
    \/ LogoutPending \/ LogoutSession \/ GrowIdle \/ SweepLook \/ SweepRemove
    \/ UNCHANGED webVars

LEMMA WebOtherTypeStep ==
    ASSUME WebTypeOK, HoldsKnown, WebOther
    PROVE  WebTypeOK' /\ HoldsKnown' /\ UNCHANGED <<made, taskVars>>
<1>1. TaskTypes /\ TableTypes /\ SessionTypes
  BY WebTypeParts
<1>2. UNCHANGED <<made, taskVars>>
  BY DEF WebOther, Dies, LookUp, Defer, LogoutPending, LogoutSession, GrowIdle, SweepLook, SweepRemove,
         webVars, tableVars, taskVars
<1>3. TaskTypes' /\ HoldsKnown'
  BY <1>1, <1>2 DEF TaskTypes, HoldsKnown, WithSession, taskVars
<1>4. made \in Nat /\ 0 \in 0 .. made
  BY <1>1, WebBounds DEF TableTypes
<1>5. TableTypes'
  <2>1. CASE \E i \in Inputs : Defer(i)
    <3>1. PICK i \in Inputs : Defer(i)
      BY <2>1
    <3>2. pending' \in Seq(Inputs)
      BY <1>1, <3>1, WaitingAppend DEF Defer, TableTypes
    <3> QED
      BY <1>1, <3>1, <3>2 DEF Defer, TableTypes, logoutVars
  <2>2. CASE LogoutPending
    BY <1>1, <2>2, WebBounds DEF LogoutPending, TableTypes
  <2>3. CASE \E i \in Inputs : LookUp(i)
    BY <1>1, <2>3 DEF LookUp, TableTypes, tableVars, logoutVars
  <2>4. CASE LogoutSession \/ SweepLook \/ SweepRemove
    BY <1>1, <1>4, <2>4 DEF LogoutSession, SweepLook, SweepRemove, TableTypes, tableVars, logoutVars, NoSession
  <2>5. CASE \/ \E s \in SessionIds : Dies(s)
             \/ GrowIdle \/ UNCHANGED webVars
    BY <1>1, <2>5 DEF Dies, GrowIdle, TableTypes, webVars, tableVars, logoutVars
  <2> QED
    BY <2>1, <2>2, <2>3, <2>4, <2>5 DEF WebOther
<1>6. SessionTypes'
  <2>1. CASE \E i \in Inputs : LookUp(i)
    BY <1>1, <2>1 DEF LookUp, SessionTypes, deathVars
  <2>2. CASE \E s \in SessionIds : Dies(s)
    BY <1>1, <2>2 DEF Dies, SessionTypes
  <2>3. CASE LogoutSession \/ SweepRemove
    BY <1>1, <2>3, ShutDownTypes DEF LogoutSession, SweepRemove, SessionTypes, deathVars
  <2>4. CASE GrowIdle
    BY <1>1, <2>4 DEF GrowIdle, SessionTypes
  <2>5. CASE \/ \E i \in Inputs : Defer(i)
             \/ LogoutPending \/ SweepLook \/ UNCHANGED webVars
    BY <1>1, <2>5 DEF Defer, LogoutPending, SweepLook, SessionTypes, webVars, deathVars
  <2> QED
    BY <2>1, <2>2, <2>3, <2>4, <2>5 DEF WebOther
<1>7. WebTypeOK'
  BY <1>3, <1>5, <1>6 DEF WebTypeOK, TaskTypes, TableTypes, SessionTypes, WithSession
<1> QED
  BY <1>2, <1>3, <1>7

LEMMA NoneIsLostStep ==
    ASSUME WebTypeOK, HoldsKnown, NoneIsLost, [WebNext]_webVars
    PROVE  NoneIsLost'
<1> DEFINE Inserting(s) == \E w \in Visitors : at[w] = "inserting" /\ holds[w] = s
<1>1. TaskTypes /\ TableTypes /\ SessionTypes
  BY WebTypeParts
<1>2. \A s \in SessionIds : s # NoSession
  BY DEF SessionIds, NoSession
<1>3. ASSUME \A s \in SessionIds : Inserting(s) => Inserting(s)',
             UNCHANGED mapped, \A s \in SessionIds : lives'[s] => lives[s],
             \A s \in SessionIds : ending[s] => ending'[s]
      PROVE  NoneIsLost'
  BY <1>3 DEF NoneIsLost
<1>4. ASSUME NEW w \in Visitors, at[w] # "inserting",
             \A v \in Visitors \ {w} : at'[v] = at[v] /\ holds'[v] = holds[v]
      PROVE  \A s \in SessionIds : Inserting(s) => Inserting(s)'
  BY <1>4
<1>5. ASSUME NEW s, ShutDownSession(s)
      PROVE  /\ lives' = lives /\ \A x \in SessionIds : ending[x] => ending'[x]
             /\ s \in SessionIds => ending'[s]
  BY <1>1, <1>5 DEF ShutDownSession, SessionTypes
<1>6. CASE \E w \in Visitors : \/ Find(w) \/ CheckAlive(w) \/ TakePending(w)
                               \/ PassInput(w) \/ MayVisit(w) \/ Visit(w) \/ Leave(w)
  <2>1. PICK w \in Visitors : \/ Find(w) \/ CheckAlive(w) \/ TakePending(w)
                              \/ PassInput(w) \/ MayVisit(w) \/ Visit(w) \/ Leave(w)
    BY <1>6
  <2>2. at[w] # "inserting" /\ UNCHANGED <<mapped, lives, ending>>
    BY <2>1 DEF Find, CheckAlive, TakePending, PassInput, MayVisit, Visit, Leave, tableVars, deathVars
  <2>3. \A v \in Visitors \ {w} : at'[v] = at[v] /\ holds'[v] = holds[v]
    BY <1>1, <2>1 DEF TaskTypes, Find, CheckAlive, TakePending, PassInput, MayVisit, Visit, Leave, GoTo
  <2> HIDE DEF Inserting
  <2> QED
    BY <1>3, <1>4, <2>2, <2>3
<1>7. CASE \E w \in Visitors : DropDead(w)
  <2>1. PICK w \in Visitors : DropDead(w)
    BY <1>7
  <2>2. /\ at[w] = "dropping" /\ at' = [at EXCEPT ![w] = "connecting"] /\ UNCHANGED holds
        /\ mapped' = IF mapped = holds[w] THEN NoSession ELSE mapped
        /\ ShutDownSession(holds[w])
    BY <2>1 DEF DropDead, GoTo
  <2>3. \A s \in SessionIds : Inserting(s) => Inserting(s)'
    BY <1>1, <1>4, <2>2 DEF TaskTypes
  <2> HIDE DEF Inserting
  <2>4. \A s \in SessionIds : lives[s] /\ ~ending[s] => mapped = s \/ Inserting(s)
    BY DEF NoneIsLost, Inserting
  <2>5. \A s \in SessionIds : lives'[s] /\ ~ending'[s] => mapped' = s \/ Inserting(s)'
    BY <1>2, <1>5, <2>2, <2>3, <2>4
  <2> QED
    BY <2>5 DEF NoneIsLost, Inserting
<1>8. CASE \E w \in Visitors : ConnectTcp(w)
  <2>1. PICK w \in Visitors : ConnectTcp(w)
    BY <1>8
  <2>2. at[w] = "connecting" /\ UNCHANGED <<mapped, ending>>
    BY <2>1 DEF ConnectTcp
  <2>3. \A v \in Visitors \ {w} : at'[v] = at[v] /\ holds'[v] = holds[v]
    BY <1>1, <2>1 DEF ConnectTcp, GoTo, TaskTypes
  <2>4. \A s \in SessionIds : Inserting(s) => Inserting(s)'
    BY <1>4, <2>2, <2>3
  <2>5. CASE UNCHANGED lives
    <3> HIDE DEF Inserting
    <3> QED
      BY <1>3, <2>2, <2>4, <2>5
  <2>6. CASE /\ made' = made + 1 /\ lives' = [lives EXCEPT ![made'] = TRUE]
             /\ holds' = [holds EXCEPT ![w] = made'] /\ GoTo(w, "inserting")
    <3>1. \A s \in SessionIds : s = made' => Inserting(s)'
      BY <1>1, <2>6 DEF TaskTypes, GoTo
    <3> HIDE DEF Inserting
    <3>2. \A s \in SessionIds : lives'[s] => lives[s] \/ s = made'
      BY <1>1, <2>6 DEF SessionTypes
    <3>3. \A s \in SessionIds : lives[s] /\ ~ending[s] => mapped = s \/ Inserting(s)
      BY DEF NoneIsLost, Inserting
    <3>4. \A s \in SessionIds : lives'[s] /\ ~ending'[s] => mapped' = s \/ Inserting(s)'
      BY <2>2, <2>4, <3>1, <3>2, <3>3
    <3> QED
      BY <3>4 DEF NoneIsLost, Inserting
  <2> QED
    BY <2>1, <2>5, <2>6 DEF ConnectTcp
<1>9. CASE \E w \in Visitors : Insert(w)
  <2>1. PICK w \in Visitors : Insert(w)
    BY <1>9
  <2>2. at[w] = "inserting" /\ holds[w] \in SessionIds
    BY <1>1, <2>1, WebBounds DEF Insert, HoldsKnown, WithSession, TableTypes, SessionIds
  <2>3. \A v \in Visitors \ {w} : at'[v] = at[v] /\ holds'[v] = holds[v]
    BY <1>1, <2>1 DEF Insert, GoTo, TaskTypes
  <2>4. \A s \in SessionIds : Inserting(s) => Inserting(s)' \/ s = holds[w]
    BY <2>3
  <2> HIDE DEF Inserting
  <2>5. \A s \in SessionIds : lives[s] /\ ~ending[s] => mapped = s \/ Inserting(s)
    BY DEF NoneIsLost, Inserting
  <2>6. CASE ShutDownSession(holds[w]) /\ UNCHANGED mapped
    <3>1. \A s \in SessionIds : lives'[s] /\ ~ending'[s] => mapped' = s \/ Inserting(s)'
      BY <1>5, <2>2, <2>4, <2>5, <2>6
    <3> QED
      BY <3>1 DEF NoneIsLost, Inserting
  <2>7. CASE mapped = NoSession /\ mapped' = holds[w] /\ UNCHANGED deathVars
    <3>1. \A s \in SessionIds : lives'[s] /\ ~ending'[s] => mapped' = s \/ Inserting(s)'
      BY <1>2, <2>4, <2>5, <2>7 DEF deathVars
    <3> QED
      BY <3>1 DEF NoneIsLost, Inserting
  <2> QED
    BY <2>1, <2>6, <2>7 DEF Insert
<1>10. CASE WebOther
  <2>1. UNCHANGED taskVars
    BY <1>10, WebOtherTypeStep
  <2>2. \A s \in SessionIds : Inserting(s) => Inserting(s)'
    BY <2>1 DEF taskVars
  <2> HIDE DEF Inserting
  <2>3. \A s \in SessionIds : lives[s] /\ ~ending[s] => mapped = s \/ Inserting(s)
    BY DEF NoneIsLost, Inserting
  <2>4. CASE LogoutSession \/ SweepRemove
    <3>1. \/ UNCHANGED <<mapped, lives, ending>>
          \/ UNCHANGED <<lives, ending>> /\ mapped = NoSession
          \/ ShutDownSession(mapped)
      BY <2>4 DEF LogoutSession, SweepRemove, deathVars
    <3>2. \A s \in SessionIds : lives'[s] /\ ~ending'[s] => mapped' = s \/ Inserting(s)'
      <4>1. CASE UNCHANGED <<mapped, lives, ending>>
        BY <2>2, <2>3, <4>1
      <4>2. CASE UNCHANGED <<lives, ending>> /\ mapped = NoSession
        BY <1>2, <2>2, <2>3, <4>2
      <4>3. CASE ShutDownSession(mapped)
        BY <1>5, <2>2, <2>3, <4>3
      <4> QED
        BY <3>1, <4>1, <4>2, <4>3
    <3> QED
      BY <3>2 DEF NoneIsLost, Inserting
  <2>5. CASE \E s \in SessionIds : Dies(s)
    <3>1. UNCHANGED <<mapped, ending>> /\ \A s \in SessionIds : lives'[s] => lives[s]
      BY <1>1, <2>5 DEF Dies, SessionTypes, tableVars
    <3> QED
      BY <1>3, <2>2, <3>1
  <2>6. CASE \/ \E i \in Inputs : LookUp(i) \/ Defer(i)
             \/ LogoutPending \/ GrowIdle \/ SweepLook \/ UNCHANGED webVars
    <3>1. UNCHANGED <<mapped, lives, ending>>
      BY <2>6 DEF LookUp, Defer, LogoutPending, GrowIdle, SweepLook, webVars, tableVars, deathVars
    <3> QED
      BY <1>3, <2>2, <3>1
  <2> QED
    BY <1>10, <2>4, <2>5, <2>6 DEF WebOther
<1> QED
  BY <1>6, <1>7, <1>8, <1>9, <1>10 DEF WebNext, VisitorTask, WebOther

\* Where inputs are, step by step.
WebInputs == InputsGoToOne /\ UnsentIsNowhere /\ WaitsOnce

LEMMA InputsStep ==
    ASSUME WebTypeOK, HoldsKnown, WebInputs, [WebNext]_webVars
    PROVE  WebInputs'
<1>1. TaskTypes /\ TableTypes /\ SessionTypes
  BY WebTypeParts
<1>2. InputsGoToOne /\ UnsentIsNowhere /\ WaitsOnce
  BY DEF WebInputs
<1>3. ASSUME UNCHANGED <<inputs, passing, req>>, pending' \in {pending, <<>>} PROVE WebInputs'
  BY <1>2, <1>3, WaitingEmpty DEF WebInputs, InputsGoToOne, UnsentIsNowhere, WaitsOnce
<1>4. CASE \E w \in Visitors : TakePending(w)
  <2>1. PICK w \in Visitors : TakePending(w)
    BY <1>4
  <2>2. /\ passing[w] = <<>> /\ pending' = <<>> /\ UNCHANGED <<inputs, req>>
        /\ \A v \in Visitors : passing'[v] = IF v = w THEN pending ELSE passing[v]
    BY <1>1, <2>1 DEF TakePending, TaskTypes, deathVars
  <2>3. InputsGoToOne' /\ UnsentIsNowhere'
    BY <1>2, <2>2, WaitingEmpty DEF InputsGoToOne, UnsentIsNowhere
  <2>4. WaitsOnce'
    BY <1>2, <2>2, WaitingEmpty DEF WaitsOnce
  <2> QED
    BY <2>3, <2>4 DEF WebInputs
<1>5. CASE \E w \in Visitors : PassInput(w)
  <2>1. PICK w \in Visitors : PassInput(w)
    BY <1>5
  <2> DEFINE q == passing[w]
             s == holds[w]
  <2>2. /\ q \in Seq(Inputs) /\ q # <<>> /\ s \in SessionIds
        /\ UNCHANGED <<pending, req>>
        /\ \A t \in SessionIds : inputs'[t] = IF t = s THEN inputs[t] \cup {Head(q)} ELSE inputs[t]
        /\ \A v \in Visitors : passing'[v] = IF v = w THEN Tail(q) ELSE passing[v]
    <3>1. q \in Seq(Inputs) /\ q # <<>> /\ s \in SessionIds
      BY <1>1, <2>1, WebBounds DEF PassInput, HoldsKnown, WithSession, TaskTypes, TableTypes, SessionIds
    <3> QED
      BY <1>1, <2>1, <3>1 DEF PassInput, TaskTypes, SessionTypes, tableVars
  <2>3. /\ Head(q) \in Waiting(q) /\ Head(q) \in Inputs
        /\ Waiting(Tail(q)) \subseteq Waiting(q) /\ Distinct(Tail(q)) /\ Head(q) \notin Waiting(Tail(q))
    BY <1>2, <2>1, <2>2, WaitingTail DEF WaitsOnce
  <2>4. /\ \A t \in SessionIds : Head(q) \notin inputs[t]
        /\ Head(q) \notin Waiting(pending)
        /\ \A v \in Visitors \ {w} : Head(q) \notin Waiting(passing[v])
        /\ req[Head(q)] = "sent"
    <3>1. \A t \in SessionIds : Head(q) \notin inputs[t]
      BY <1>2, <2>1, <2>3 DEF InputsGoToOne
    <3>2. Waiting(pending) \cap Waiting(q) = {} /\ \A v \in Visitors \ {w} : Waiting(passing[v]) \cap Waiting(q) = {}
      BY <1>2, <2>1 DEF WaitsOnce
    <3>3. req[Head(q)] = "sent"
      BY <1>2, <2>1, <2>3 DEF UnsentIsNowhere
    <3> QED
      BY <2>3, <3>1, <3>2, <3>3
  <2> HIDE DEF q, s
  <2>5. WaitsOnce'
    <3>1. Waiting(pending) \cap Waiting(q) = {} /\ \A v \in Visitors \ {w} : Waiting(passing[v]) \cap Waiting(q) = {}
      BY <1>2, <2>1 DEF WaitsOnce, q
    <3> QED
      BY <1>2, <2>2, <2>3, <3>1 DEF WaitsOnce
  <2>6. UnsentIsNowhere'
    <3>1. \A i \in Inputs : i \in Waiting(Tail(q)) => i \in Waiting(passing[w])
      BY <2>3 DEF q
    <3> QED
      BY <1>2, <2>1, <2>2, <2>4, <3>1, ZenonT(60) DEF UnsentIsNowhere
  <2>7. InputsGoToOne'
    <3>1. \A i \in Inputs : i \in Waiting(Tail(q)) => i \in Waiting(passing[w])
      BY <2>3 DEF q
    <3>2. ASSUME NEW i \in Inputs, NEW t \in SessionIds, i \in inputs'[t]
          PROVE  /\ i \notin Waiting(pending') /\ \A v \in Visitors : i \notin Waiting(passing'[v])
                 /\ \A u \in SessionIds : i \in inputs'[u] => t = u
      <4>1. CASE i = Head(q)
        <5>1. t = s /\ \A u \in SessionIds : i \in inputs'[u] => u = s
          BY <2>2, <2>4, <3>2, <4>1
        <5>2. \A v \in Visitors : i \notin Waiting(passing'[v])
          BY <2>2, <2>3, <2>4, <4>1
        <5> QED
          BY <2>2, <2>4, <4>1, <5>1, <5>2
      <4>2. CASE i # Head(q)
        <5>1. i \in inputs[t] /\ \A u \in SessionIds : i \in inputs'[u] => i \in inputs[u]
          BY <2>2, <3>2, <4>2
        <5> QED
          BY <1>2, <2>1, <2>2, <3>1, <5>1 DEF InputsGoToOne
      <4> QED
        BY <4>1, <4>2
    <3> QED
      BY <3>2 DEF InputsGoToOne
  <2> QED
    BY <2>5, <2>6, <2>7 DEF WebInputs
<1>6. CASE \E i \in Inputs : LookUp(i)
  <2>1. PICK i \in Inputs : LookUp(i)
    BY <1>6
  <2>2. /\ UNCHANGED <<mapped, pending, passing>> /\ req[i] = "new"
        /\ \A s \in SessionIds : inputs'[s] = IF s = mapped THEN inputs[s] \cup {i} ELSE inputs[s]
        /\ \A j \in Inputs : req'[j] = IF j = i THEN IF mapped = NoSession THEN "deferring" ELSE "sent"
                                       ELSE req[j]
    BY <1>1, <2>1 DEF LookUp, TableTypes, SessionTypes, tableVars, taskVars
  <2>3. /\ \A s \in SessionIds : i \notin inputs[s]
        /\ i \notin Waiting(pending) /\ \A w \in Visitors : i \notin Waiting(passing[w])
    BY <1>2, <2>2 DEF UnsentIsNowhere
  <2>4. \A s \in SessionIds : s # NoSession
    BY DEF SessionIds, NoSession
  <2>5. UnsentIsNowhere' /\ WaitsOnce'
    BY <1>2, <2>2, <2>3, <2>4 DEF UnsentIsNowhere, WaitsOnce
  <2>6. InputsGoToOne'
    <3>1. ASSUME NEW j \in Inputs, NEW t \in SessionIds, j \in inputs'[t]
          PROVE  /\ j \notin Waiting(pending') /\ \A v \in Visitors : j \notin Waiting(passing'[v])
                 /\ \A u \in SessionIds : j \in inputs'[u] => t = u
      <4>1. CASE j = i
        BY <2>2, <2>3, <3>1, <4>1
      <4>2. CASE j # i
        BY <1>2, <2>2, <3>1, <4>2 DEF InputsGoToOne
      <4> QED
        BY <4>1, <4>2
    <3> QED
      BY <3>1 DEF InputsGoToOne
  <2> QED
    BY <2>5, <2>6 DEF WebInputs
<1>7. CASE \E i \in Inputs : Defer(i)
  <2>1. PICK i \in Inputs : Defer(i)
    BY <1>7
  <2>2. /\ UNCHANGED <<inputs, passing>> /\ req[i] = "deferring"
        /\ \A j \in Inputs : req'[j] = IF j = i THEN "sent" ELSE req[j]
        /\ pending' = Append(pending, i)
    BY <1>1, <2>1 DEF Defer, TableTypes, taskVars
  <2>3. /\ \A s \in SessionIds : i \notin inputs[s]
        /\ i \notin Waiting(pending) /\ \A w \in Visitors : i \notin Waiting(passing[w])
    BY <1>2, <2>2 DEF UnsentIsNowhere
  <2>4. Waiting(pending') = Waiting(pending) \cup {i} /\ Distinct(pending')
    BY <1>1, <1>2, <2>2, <2>3, WaitingAppend DEF TableTypes, WaitsOnce
  <2>5. UnsentIsNowhere' /\ InputsGoToOne' /\ WaitsOnce'
    BY <1>2, <2>2, <2>3, <2>4 DEF UnsentIsNowhere, InputsGoToOne, WaitsOnce
  <2> QED
    BY <2>5 DEF WebInputs
<1>8. CASE \/ \E w \in Visitors : \/ Find(w) \/ CheckAlive(w) \/ DropDead(w) \/ ConnectTcp(w)
                                  \/ Insert(w) \/ MayVisit(w) \/ Visit(w) \/ Leave(w)
           \/ \E s \in SessionIds : Dies(s)
           \/ LogoutPending \/ LogoutSession \/ GrowIdle \/ SweepLook \/ SweepRemove
           \/ UNCHANGED webVars
  <2>1. UNCHANGED <<inputs, passing, req>> /\ pending' \in {pending, <<>>}
    BY <1>8 DEF Find, CheckAlive, DropDead, ConnectTcp, Insert, MayVisit, Visit, Leave, Dies, LogoutPending,
         LogoutSession, GrowIdle, SweepLook, SweepRemove, webVars, tableVars, taskVars
  <2> QED
    BY <1>3, <2>1
<1> QED
  BY <1>4, <1>5, <1>6, <1>7, <1>8 DEF WebNext, VisitorTask

LEMMA WebStep == WebIInv /\ [WebNext]_webVars => WebIInv'
<1> SUFFICES ASSUME WebIInv, [WebNext]_webVars PROVE WebIInv'
  OBVIOUS
<1>1. WebTypeOK /\ HoldsKnown /\ NoneIsLost /\ WebInputs
  BY DEF WebIInv, WebInputs
<1>2. (\E w \in Visitors : VisitorTask(w) \/ Leave(w)) \/ WebOther
  BY DEF WebNext, WebOther
<1>3. WebTypeOK' /\ HoldsKnown'
  BY <1>1, <1>2, WebTaskTypeStep, WebOtherTypeStep
<1>4. NoneIsLost' /\ WebInputs'
  BY <1>1, NoneIsLostStep, InputsStep
<1> QED
  BY <1>3, <1>4 DEF WebIInv, WebInputs

LEMMA WebStart == WebInit => WebIInv
<1> SUFFICES ASSUME WebInit PROVE WebIInv
  OBVIOUS
<1> USE DEF WebInit
<1>1. TaskTypes /\ HoldsKnown
  BY DEF TaskTypes, HoldsKnown, WithSession, NoSession
<1>2. TableTypes /\ SessionTypes
  <2>1. 0 \in 0 .. made /\ made \in 0 .. MaxConnects /\ 0 \in 0 .. MaxLogouts /\ <<>> \in Seq(Inputs)
    BY WebBounds
  <2>2. TableTypes
    BY <2>1 DEF TableTypes, NoSession
  <2> QED
    BY <2>2 DEF SessionTypes
<1>3. NoneIsLost /\ WebInputs
  BY WaitingEmpty DEF NoneIsLost, WebInputs, InputsGoToOne, UnsentIsNowhere, WaitsOnce
<1> QED
  BY <1>1, <1>2, <1>3, WebTypeParts DEF WebIInv, WebInputs

-----------------------------------------------------------------------------
(* The sockets of one web session.  What reached the attached socket, what  *)
(* is queued for it, what is left of its copy of the buffer and what the    *)
(* TCP reader is sending it are chunks of their own, and hold the buffer.   *)

SeqTypes ==
    /\ buffer \in Seq(Nat) /\ got \in [Sockets -> Seq(Nat)]
    /\ wsQueue \in [Sockets -> Seq(Nat)] /\ copied \in [Sockets -> Seq(Nat)]

Fresh(w) == /\ got[w] = <<>> /\ wsQueue[w] = <<>> /\ copied[w] = <<>> /\ ~up[w]
            /\ tcpReader # w /\ closing # w /\ holder # w
NewAreFresh    == \A w \in Sockets : pc[w] \in {"found", "attaching"} => Fresh(w)
ClosingIsLate  == /\ tcpAlive => closing = NoSocket
                  /\ \A w \in Sockets : holder = w => closing # w
BufferIsRecent == /\ Distinct(buffer) /\ Waiting(buffer) \subseteq 1 .. chunks
                  /\ tcpReader \in Sockets => chunks > 0

Sending(w) == IF tcpReader = w THEN {chunks} ELSE {}
Apart(a, b, c, x) ==
    /\ Distinct(a) /\ Distinct(b) /\ Distinct(c)
    /\ Waiting(a) \cap Waiting(b) = {} /\ Waiting(a) \cap Waiting(c) = {}
    /\ Waiting(b) \cap Waiting(c) = {}
    /\ x \cap (Waiting(a) \cup Waiting(b) \cup Waiting(c)) = {}
HasBuffer(w) ==
    /\ Apart(got[w], wsQueue[w], copied[w], Sending(w))
    /\ Waiting(got[w]) \cup Waiting(wsQueue[w]) \cup Waiting(copied[w]) \subseteq 1 .. chunks
    /\ Waiting(buffer) \subseteq
         Waiting(got[w]) \cup Waiting(wsQueue[w]) \cup Waiting(copied[w]) \cup Sending(w)
HolderIsServed == \A w \in Sockets : holder = w /\ up[w] => HasBuffer(w)

SocketIInv ==
    /\ SocketTypeOK /\ SeqTypes /\ NewAreFresh /\ ClosingIsLate /\ BufferIsRecent
    /\ OneSocketEach /\ HolderIsServed

LEMMA PutStep ==
    ASSUME SocketTypeOK, SeqTypes, NEW w \in Sockets, NEW m \in Nat, Put(w, m)
    PROVE  /\ wsQueue' \in [Sockets -> Seq(Nat)] /\ \A v \in Sockets : Len(wsQueue'[v]) <= WsCap
           /\ \A v \in Sockets \ {w} : wsQueue'[v] = wsQueue[v]
           /\ up[w] => wsQueue'[w] = Append(wsQueue[w], m)
           /\ ~up[w] => wsQueue'[w] = wsQueue[w]
<1>1. \A v \in Sockets : wsQueue[v] \in Seq(Nat) /\ Len(wsQueue[v]) <= WsCap
  BY DEF SeqTypes, SocketTypeOK
<1>2. CASE up[w] /\ Len(wsQueue[w]) < WsCap /\ wsQueue' = [wsQueue EXCEPT ![w] = Append(@, m)]
  <2> DEFINE q == Append(wsQueue[w], m)
  <2>1. q \in Seq(Nat) /\ Len(q) <= WsCap
    BY <1>1, <1>2, SocketCaps
  <2>2. wsQueue' = [wsQueue EXCEPT ![w] = q] /\ wsQueue \in [Sockets -> Seq(Nat)]
    BY <1>2 DEF SeqTypes
  <2> HIDE DEF q
  <2>3. \A v \in Sockets : wsQueue'[v] = IF v = w THEN q ELSE wsQueue[v]
    BY <2>2
  <2> QED
    BY <1>1, <1>2, <2>1, <2>2, <2>3 DEF q
<1>3. CASE ~up[w] /\ UNCHANGED wsQueue
  BY <1>1, <1>3 DEF SeqTypes
<1> QED
  BY <1>2, <1>3 DEF Put

\* The parts of the type that an action disturbs one by one.
HolderTypes ==
    /\ tcpAlive \in BOOLEAN /\ tcpTold \in BOOLEAN
    /\ {holder, closing} \subseteq Sockets \cup {NoSocket}
    /\ tcpReader \in {"reading", "ended"} \cup Sockets
    /\ pc \in [Sockets -> {"found", "attaching", "attached", "done"}]
    /\ up \in [Sockets -> BOOLEAN] /\ cancel \in [Sockets -> BOOLEAN]
BufferTypes ==
    /\ buffer \in Seq(Nat) /\ Len(buffer) <= BufCap /\ chunks \in 0 .. MaxChunks
QueueTypes ==
    /\ got \in [Sockets -> Seq(Nat)]
    /\ wsQueue \in [Sockets -> Seq(Nat)] /\ copied \in [Sockets -> Seq(Nat)]
    /\ \A w \in Sockets : Len(wsQueue[w]) <= WsCap /\ Len(copied[w]) <= BufCap

LEMMA SocketTypeParts == SocketTypeOK /\ SeqTypes <=> HolderTypes /\ BufferTypes /\ QueueTypes
BY DEF SocketTypeOK, SeqTypes, HolderTypes, BufferTypes, QueueTypes

LEMMA HolderTypeStep ==
    ASSUME HolderTypes, [SocketNext]_socketVars
    PROVE  HolderTypes'
<1> USE DEF HolderTypes
<1>1. ASSUME NEW w, CutOff(w) PROVE cancel' \in [Sockets -> BOOLEAN]
  BY <1>1 DEF CutOff
<1>2. ASSUME NEW w \in Sockets, SocketTask(w) \/ ClientCloses(w) PROVE HolderTypes'
  BY <1>1, <1>2 DEF SocketTask, MayAttach, AttachSocket, FlushBuffered, DetachSocket, ClientCloses, SocketAt, tcpVars
<1>3. ASSUME NEW w \in Sockets, WriteSocket(w) \/ WriterEnds(w) PROVE HolderTypes'
  BY <1>3 DEF WriteSocket, WriterEnds, tcpVars
<1>4. CASE ReadOutput \/ SendOutput \/ TcpWriterEnds \/ TcpReaderEnds
  BY <1>4 DEF ReadOutput, SendOutput, TcpWriterEnds, TcpReaderEnds, MarkDead
<1>5. CASE Announce \/ ShutDownSocket
  BY <1>1, <1>5 DEF Announce, ShutDownSocket
<1>6. CASE UNCHANGED socketVars
  BY <1>6 DEF socketVars, tcpVars
<1> QED
  BY <1>2, <1>3, <1>4, <1>5, <1>6 DEF SocketNext

LEMMA BufferStep ==
    ASSUME HolderTypes, BufferTypes, BufferIsRecent, [SocketNext]_socketVars
    PROVE  /\ BufferTypes' /\ BufferIsRecent'
           /\ ReadOutput => /\ chunks' = chunks + 1
                            /\ Waiting(buffer') \subseteq Waiting(buffer) \cup {chunks'}
<1>0. chunks \in Nat /\ buffer \in Seq(Nat) /\ Len(buffer) \in Nat /\ Waiting(buffer) \subseteq 1 .. chunks /\ Distinct(buffer)
  BY SocketCaps DEF BufferTypes, BufferIsRecent
<1>1. CASE ReadOutput
  <2> DEFINE rest == IF Len(buffer) < BufCap THEN buffer ELSE Tail(buffer)
             new == chunks + 1
  <2>1. /\ chunks' = new /\ new \in 1 .. MaxChunks /\ new \in Nat
        /\ buffer' = Append(rest, new)
    BY <1>0, <1>1, SocketCaps DEF ReadOutput
  <2>2. rest \in Seq(Nat) /\ Waiting(rest) \subseteq Waiting(buffer) /\ Distinct(rest) /\ Len(rest) < BufCap
    <3>1. CASE Len(buffer) < BufCap
      BY <1>0, <3>1
    <3>2. CASE ~(Len(buffer) < BufCap)
      <4>1. Len(buffer) = BufCap /\ BufCap \in Nat \ {0}
        BY <1>0, <3>2, SocketCaps DEF BufferTypes
      <4>2. buffer # <<>>
        BY <1>0, <4>1, EmptySeq
      <4>3. Tail(buffer) \in Seq(Nat) /\ Waiting(Tail(buffer)) \subseteq Waiting(buffer) /\ Distinct(Tail(buffer))
        BY <1>0, <4>2, WaitingTail
      <4>4. Len(Tail(buffer)) = Len(buffer) - 1
        BY <1>0, <4>2, HeadTailProperties
      <4> QED
        BY <1>0, <3>2, <4>1, <4>3, <4>4
    <3> QED
      BY <3>1, <3>2
  <2> HIDE DEF rest
  <2>3. new \notin Waiting(rest)
    BY <1>0, <2>2
  <2> HIDE DEF new
  <2>4. buffer' \in Seq(Nat) /\ Waiting(buffer') = Waiting(rest) \cup {new} /\ Distinct(buffer')
    BY <2>1, <2>2, <2>3, WaitingAppend
  <2>5. Len(buffer') = Len(rest) + 1 /\ Len(rest) \in Nat
    BY <2>1, <2>2
  <2>6. BufferTypes'
    BY <2>1, <2>2, <2>4, <2>5, SocketCaps DEF BufferTypes
  <2>7. Waiting(buffer') \subseteq 1 .. chunks' /\ chunks' > 0
    BY <1>0, <2>1, <2>2, <2>4, SMTT(30) DEF new
  <2> QED
    BY <2>1, <2>2, <2>4, <2>6, <2>7 DEF BufferIsRecent, new
<1>2. CASE SendOutput
  <2>1. tcpReader' = "reading" /\ UNCHANGED <<buffer, chunks>>
    BY <1>2 DEF SendOutput
  <2> QED
    BY <2>1, SocketCaps DEF BufferTypes, BufferIsRecent, SendOutput, ReadOutput
<1>3. CASE ~ReadOutput /\ ~SendOutput
  <2>1. UNCHANGED <<buffer, chunks>> /\ tcpReader' \in {tcpReader, "ended"}
    BY <1>3 DEF SocketNext, SocketTask, MayAttach, AttachSocket, FlushBuffered, DetachSocket, ClientCloses, WriteSocket,
         WriterEnds, TcpWriterEnds, TcpReaderEnds, Announce, ShutDownSocket, socketVars, tcpVars
  <2>2. tcpReader' \in Sockets => tcpReader \in Sockets
    BY <2>1, SocketCaps
  <2> QED
    BY <1>3, <2>1, <2>2 DEF BufferTypes, BufferIsRecent
<1> QED
  BY <1>1, <1>2, <1>3

LEMMA QueueTypeStep ==
    ASSUME HolderTypes, BufferTypes, QueueTypes, [SocketNext]_socketVars
    PROVE  QueueTypes'
<1>0. <<>> \in Seq(Nat) /\ Len(<<>>) = 0 /\ BufCap \in Nat /\ WsCap \in Nat /\ SocketTypeOK /\ SeqTypes
  BY SocketCaps, SocketTypeParts
<1>1. ASSUME NEW w \in Sockets, AttachSocket(w) PROVE QueueTypes'
  BY <1>1 DEF AttachSocket, QueueTypes, BufferTypes
<1>2. ASSUME NEW w \in Sockets, FlushBuffered(w) PROVE QueueTypes'
  <2> DEFINE rest == IF up[w] THEN Tail(copied[w]) ELSE <<>>
  <2>1. copied[w] \in Seq(Nat) /\ copied[w] # <<>> /\ Len(copied[w]) <= BufCap
    BY <1>2 DEF FlushBuffered, QueueTypes
  <2>2. Head(copied[w]) \in Nat /\ Tail(copied[w]) \in Seq(Nat) /\ Len(Tail(copied[w])) <= BufCap
    BY <1>0, <2>1, WaitingTail, HeadTailProperties, EmptySeq
  <2>3. copied' = [copied EXCEPT ![w] = rest] /\ UNCHANGED got
    BY <1>2 DEF FlushBuffered
  <2>4. rest \in Seq(Nat) /\ Len(rest) <= BufCap
    BY <1>0, <2>2
  <2>5. /\ wsQueue' \in [Sockets -> Seq(Nat)] /\ \A v \in Sockets : Len(wsQueue'[v]) <= WsCap
    BY <1>0, <1>2, <2>2, PutStep DEF FlushBuffered
  <2> HIDE DEF rest
  <2> QED
    BY <2>3, <2>4, <2>5 DEF QueueTypes
<1>3. ASSUME NEW w \in Sockets, WriteSocket(w) PROVE QueueTypes'
  <2>1. wsQueue[w] \in Seq(Nat) /\ wsQueue[w] # <<>> /\ Len(wsQueue[w]) <= WsCap /\ got[w] \in Seq(Nat)
    BY <1>3 DEF WriteSocket, QueueTypes
  <2> DEFINE h == Head(wsQueue[w])
             rest == Tail(wsQueue[w])
             more == Append(got[w], h)
  <2>2. h \in Nat /\ rest \in Seq(Nat) /\ Len(rest) <= WsCap
    BY <1>0, <2>1, WaitingTail, HeadTailProperties, EmptySeq
  <2>3. more \in Seq(Nat)
    BY <2>1, <2>2
  <2>4. got' = [got EXCEPT ![w] = more] /\ wsQueue' = [wsQueue EXCEPT ![w] = rest] /\ UNCHANGED copied
    BY <1>3 DEF WriteSocket
  <2> HIDE DEF h, rest, more
  <2> QED
    BY <2>2, <2>3, <2>4 DEF QueueTypes
<1>4. ASSUME NEW w \in Sockets, WriterEnds(w) PROVE QueueTypes'
  BY <1>0, <1>4 DEF WriterEnds, QueueTypes
<1>5. CASE SendOutput \/ Announce
  <2>1. PICK w \in Sockets, m \in Nat : Put(w, m)
    BY <1>5, SocketCaps DEF SendOutput, Announce, HolderTypes, BufferTypes, Closed
  <2>2. UNCHANGED <<got, copied>>
    BY <1>5 DEF SendOutput, Announce
  <2> QED
    BY <1>0, <2>1, <2>2, PutStep DEF QueueTypes
<1>6. CASE UNCHANGED <<got, wsQueue, copied>>
  BY <1>6 DEF QueueTypes
<1> QED
  BY <1>1, <1>2, <1>3, <1>4, <1>5, <1>6 DEF SocketNext, SocketTask, MayAttach, DetachSocket, ClientCloses,
       ReadOutput, TcpWriterEnds, TcpReaderEnds, ShutDownSocket, socketVars, tcpVars

LEMMA NewAreFreshStep ==
    ASSUME HolderTypes, BufferTypes, QueueTypes, NewAreFresh, [SocketNext]_socketVars
    PROVE  NewAreFresh'
<1> SUFFICES ASSUME NEW w \in Sockets, pc'[w] \in {"found", "attaching"} PROVE Fresh(w)'
  BY DEF NewAreFresh
<1>0. SocketTypeOK /\ SeqTypes /\ w \notin {NoSocket, "reading", "ended"}
  BY SocketTypeParts, SocketCaps
<1>1. \A v \in Sockets : \A to : SocketAt(v, to) => pc'[w] = IF w = v THEN to ELSE pc[w]
  BY DEF SocketAt, HolderTypes
<1>2. CASE \E v \in Sockets : SocketTask(v)
  <2>1. PICK v \in Sockets : MayAttach(v) \/ AttachSocket(v) \/ FlushBuffered(v) \/ DetachSocket(v)
    BY <1>2 DEF SocketTask
  <2>2. CASE MayAttach(v)
    <3>1. pc[w] \in {"found", "attaching"}
      BY <1>1, <2>2 DEF MayAttach
    <3> QED
      BY <2>2, <3>1 DEF MayAttach, NewAreFresh, Fresh, tcpVars
  <2>3. CASE AttachSocket(v)
    <3>1. pc[w] \in {"found", "attaching"} /\ w # v
      BY <1>1, <2>3 DEF AttachSocket
    <3>2. holder' = v /\ copied'[w] = copied[w] /\ up'[w] = up[w] /\ UNCHANGED <<tcpVars, wsQueue, got>>
      BY <2>3, <3>1 DEF AttachSocket, HolderTypes, QueueTypes
    <3> QED
      BY <3>1, <3>2 DEF NewAreFresh, Fresh, tcpVars
  <2>4. CASE FlushBuffered(v)
    <3>1. pc[w] \in {"found", "attaching"} /\ w # v /\ copied[v] \in Seq(Nat) /\ copied[v] # <<>>
      BY <2>4 DEF FlushBuffered, QueueTypes
    <3>2. Head(copied[v]) \in Nat
      BY <3>1, WaitingTail
    <3>3. wsQueue'[w] = wsQueue[w]
      BY <1>0, <2>4, <3>1, <3>2, PutStep DEF FlushBuffered
    <3>4. copied'[w] = copied[w] /\ UNCHANGED <<tcpVars, holder, got, up>>
      BY <2>4, <3>1 DEF FlushBuffered, QueueTypes
    <3> QED
      BY <3>1, <3>3, <3>4 DEF NewAreFresh, Fresh, tcpVars
  <2>5. CASE DetachSocket(v)
    <3>1. pc[w] \in {"found", "attaching"}
      BY <1>1, <2>5 DEF DetachSocket
    <3> QED
      BY <1>0, <2>5, <3>1 DEF DetachSocket, NewAreFresh, Fresh, tcpVars
  <2> QED
    BY <2>1, <2>2, <2>3, <2>4, <2>5
<1>3. CASE ~\E v \in Sockets : SocketTask(v)
  <2>1. pc' = pc /\ UNCHANGED copied
    BY <1>3 DEF SocketNext, ClientCloses, WriteSocket, WriterEnds, ReadOutput, SendOutput, TcpWriterEnds, TcpReaderEnds,
         Announce, ShutDownSocket, socketVars
  <2>2. Fresh(w) /\ copied'[w] = <<>>
    BY <2>1 DEF NewAreFresh, Fresh
  <2>3. CASE \E v \in Sockets : WriteSocket(v) \/ WriterEnds(v) \/ ClientCloses(v)
    <3>1. PICK v \in Sockets : WriteSocket(v) \/ WriterEnds(v) \/ ClientCloses(v)
      BY <2>3
    <3>2. UNCHANGED <<tcpVars, holder>>
      BY <3>1 DEF WriteSocket, WriterEnds, ClientCloses
    <3>3. got'[w] = got[w] /\ wsQueue'[w] = wsQueue[w] /\ up'[w] = up[w]
      BY <2>2, <3>1 DEF WriteSocket, WriterEnds, ClientCloses, Fresh, HolderTypes, QueueTypes
    <3> QED
      BY <2>2, <3>2, <3>3 DEF Fresh, tcpVars
  <2>4. CASE SendOutput
    <3>1. tcpReader \in Sockets /\ tcpReader # w /\ chunks \in Nat
      BY <2>2, <2>4, SocketCaps DEF SendOutput, Fresh, BufferTypes
    <3>2. wsQueue'[w] = wsQueue[w]
      BY <1>0, <2>4, <3>1, PutStep DEF SendOutput
    <3> QED
      BY <1>0, <2>2, <2>4, <3>2 DEF Fresh, SendOutput
  <2>5. CASE Announce
    <3>1. closing \in Sockets /\ closing # w /\ Closed \in Nat
      BY <2>2, <2>5 DEF Announce, Fresh, HolderTypes, Closed
    <3>2. wsQueue'[w] = wsQueue[w]
      BY <1>0, <2>5, <3>1, PutStep DEF Announce
    <3> QED
      BY <1>0, <2>2, <2>5, <3>2 DEF Fresh, Announce
  <2>6. CASE \/ ReadOutput \/ TcpWriterEnds \/ TcpReaderEnds \/ ShutDownSocket \/ UNCHANGED socketVars
    BY <1>0, <2>2, <2>6 DEF Fresh, ReadOutput, TcpWriterEnds, TcpReaderEnds, ShutDownSocket, MarkDead, socketVars, tcpVars
  <2> QED
    BY <1>3, <2>3, <2>4, <2>5, <2>6 DEF SocketNext
<1> QED
  BY <1>2, <1>3

LEMMA OneSocketStep ==
    ASSUME HolderTypes, NewAreFresh, ClosingIsLate, OneSocketEach, [SocketNext]_socketVars
    PROVE  ClosingIsLate' /\ OneSocketEach'
<1>1. NoSocket \notin Sockets
  BY SocketCaps
<1>2. CASE \E v \in Sockets : AttachSocket(v)
  <2>1. PICK v \in Sockets : AttachSocket(v)
    BY <1>2
  <2>2. /\ pc[v] = "attaching" /\ holder' = v /\ UNCHANGED tcpVars
        /\ \A w \in Sockets : /\ pc'[w] = IF w = v THEN "attached" ELSE pc[w]
                              /\ up'[w] = IF w = v THEN TRUE ELSE up[w]
                              /\ cancel'[w] = (cancel[w] \/ w = holder)
    BY <2>1 DEF AttachSocket, SocketAt, CutOff, HolderTypes
  <2>3. closing # v
    BY <2>2 DEF NewAreFresh, Fresh
  <2> QED
    BY <2>2, <2>3 DEF ClosingIsLate, OneSocketEach, tcpVars
<1>3. CASE \E v \in Sockets : MayAttach(v) \/ DetachSocket(v)
  <2>1. PICK v \in Sockets : MayAttach(v) \/ DetachSocket(v)
    BY <1>3
  <2>2. /\ UNCHANGED <<tcpVars, up>> /\ holder' \in {holder, NoSocket}
        /\ pc'[v] # "attached" /\ \A w \in Sockets \ {v} : pc'[w] = pc[w] /\ (holder = w => holder' = w)
        /\ \A w \in Sockets : cancel[w] => cancel'[w]
    BY <2>1 DEF MayAttach, DetachSocket, SocketAt, CutOff, HolderTypes
  <2> QED
    BY <1>1, <2>2 DEF ClosingIsLate, OneSocketEach, tcpVars
<1>4. CASE \E v \in Sockets : FlushBuffered(v) \/ WriteSocket(v) \/ WriterEnds(v) \/ ClientCloses(v)
  <2>1. /\ UNCHANGED <<tcpVars, holder, pc>>
        /\ \A w \in Sockets : (cancel[w] => cancel'[w]) /\ (up'[w] => up[w])
    BY <1>4 DEF FlushBuffered, WriteSocket, WriterEnds, ClientCloses, CutOff, HolderTypes
  <2> QED
    BY <2>1 DEF ClosingIsLate, OneSocketEach, tcpVars
<1>5. CASE ReadOutput \/ SendOutput \/ UNCHANGED socketVars
  BY <1>5 DEF ReadOutput, SendOutput, ClosingIsLate, OneSocketEach, socketVars, tcpVars
<1>6. CASE TcpWriterEnds \/ TcpReaderEnds
  BY <1>1, <1>6 DEF TcpWriterEnds, TcpReaderEnds, MarkDead, ClosingIsLate, OneSocketEach
<1>7. CASE Announce \/ ShutDownSocket
  <2>1. \A w \in Sockets : cancel[w] => cancel'[w]
    BY <1>7 DEF Announce, ShutDownSocket, CutOff, HolderTypes
  <2>2. CASE Announce
    <3>1. \A w \in Sockets : w = closing => cancel'[w]
      BY <2>2 DEF Announce, CutOff
    <3> QED
      BY <1>1, <2>1, <2>2, <3>1 DEF Announce, ClosingIsLate, OneSocketEach
  <2>3. CASE ShutDownSocket
    <3>1. \A w \in Sockets : w = holder => holder' = holder \/ cancel'[w]
      BY <2>3 DEF ShutDownSocket, CutOff
    <3> QED
      BY <1>1, <2>1, <2>3, <3>1 DEF ShutDownSocket, ClosingIsLate, OneSocketEach
  <2> QED
    BY <1>7, <2>2, <2>3
<1> QED
  BY <1>2, <1>3, <1>4, <1>5, <1>6, <1>7 DEF SocketNext, SocketTask

\* What moves a chunk from one place to the next keeps it, and keeps it once.
LEMMA HasBufferKept ==
    ASSUME NEW w \in Sockets, HasBuffer(w), UNCHANGED <<buffer, chunks>>,
           got'[w] = got[w], wsQueue'[w] = wsQueue[w], copied'[w] = copied[w], Sending(w)' = Sending(w)
    PROVE  HasBuffer(w)'
BY DEF HasBuffer, Apart

LEMMA HolderIsServedStep ==
    ASSUME HolderTypes, BufferTypes, QueueTypes, NewAreFresh, ClosingIsLate, BufferIsRecent, HolderIsServed,
           [SocketNext]_socketVars
    PROVE  HolderIsServed'
<1> SUFFICES ASSUME NEW w \in Sockets, holder' = w, up'[w] PROVE HasBuffer(w)'
  BY DEF HolderIsServed
<1>0. /\ SocketTypeOK /\ SeqTypes /\ w \notin {NoSocket, "reading", "ended"}
      /\ got[w] \in Seq(Nat) /\ wsQueue[w] \in Seq(Nat) /\ copied[w] \in Seq(Nat)
      /\ chunks \in Nat /\ buffer \in Seq(Nat)
  BY SocketTypeParts, SocketCaps DEF QueueTypes, BufferTypes
<1>1. CASE AttachSocket(w)
  <2>1. /\ Fresh(w) /\ copied'[w] = buffer /\ got'[w] = <<>> /\ wsQueue'[w] = <<>> /\ tcpReader' # w
        /\ UNCHANGED <<buffer, chunks>>
    BY <1>1 DEF AttachSocket, NewAreFresh, Fresh, QueueTypes, tcpVars
  <2>2. Sending(w)' = {}
    BY <2>1 DEF Sending
  <2> QED
    BY <2>1, <2>2, WaitingEmpty DEF HasBuffer, Apart, BufferIsRecent
<1>2. CASE ~AttachSocket(w)
  <2>1. holder = w /\ up[w]
    BY <1>0, <1>2 DEF SocketNext, SocketTask, MayAttach, AttachSocket, FlushBuffered, DetachSocket, ClientCloses, WriteSocket,
         WriterEnds, ReadOutput, SendOutput, TcpWriterEnds, TcpReaderEnds, MarkDead, Announce, ShutDownSocket,
         socketVars, tcpVars, HolderTypes
  <2>2. HasBuffer(w) /\ closing # w
    BY <2>1 DEF HolderIsServed, ClosingIsLate
  <2>3. /\ Apart(got[w], wsQueue[w], copied[w], Sending(w))
        /\ Waiting(got[w]) \cup Waiting(wsQueue[w]) \cup Waiting(copied[w]) \subseteq 1 .. chunks
    BY <2>2 DEF HasBuffer
  <2>4. CASE FlushBuffered(w)
    <3> DEFINE h == Head(copied[w])
    <3>1. /\ copied[w] # <<>> /\ Put(w, h) /\ copied' = [copied EXCEPT ![w] = IF up[w] THEN Tail(copied[w]) ELSE <<>>]
          /\ UNCHANGED <<tcpVars, got>>
      BY <1>0, <2>4 DEF FlushBuffered, QueueTypes
    <3>2. /\ h \in Waiting(copied[w]) /\ h \in Nat /\ Waiting(copied[w]) = {h} \cup Waiting(Tail(copied[w]))
          /\ Distinct(Tail(copied[w])) /\ h \notin Waiting(Tail(copied[w]))
      BY <1>0, <2>3, <3>1, WaitingTail DEF Apart
    <3>3. wsQueue'[w] = Append(wsQueue[w], h) /\ copied'[w] = Tail(copied[w])
      BY <1>0, <2>1, <3>1, <3>2, PutStep DEF QueueTypes
    <3>4. Waiting(wsQueue'[w]) = Waiting(wsQueue[w]) \cup {h} /\ Distinct(wsQueue'[w])
      <4>1. h \notin Waiting(wsQueue[w]) /\ Distinct(wsQueue[w])
        BY <2>3, <3>2 DEF Apart
      <4> HIDE DEF h
      <4> QED
        BY <1>0, <3>2, <3>3, <4>1, WaitingAppend
    <3>5. Sending(w)' = Sending(w) /\ UNCHANGED <<buffer, chunks>> /\ got'[w] = got[w]
      BY <3>1 DEF Sending, tcpVars
    <3> HIDE DEF h
    <3>6. Waiting(copied'[w]) \cup {h} = Waiting(copied[w]) /\ Distinct(copied'[w]) /\ h \notin Waiting(copied'[w])
      BY <3>2, <3>3
    <3>7. Apart(got'[w], wsQueue'[w], copied'[w], Sending(w)')
      BY <2>3, <3>4, <3>5, <3>6 DEF Apart
    <3> QED
      BY <2>2, <3>4, <3>5, <3>6, <3>7 DEF HasBuffer
  <2>5. CASE WriteSocket(w)
    <3> DEFINE h == Head(wsQueue[w])
    <3>1. /\ wsQueue[w] # <<>> /\ got' = [got EXCEPT ![w] = Append(got[w], h)]
          /\ wsQueue' = [wsQueue EXCEPT ![w] = Tail(wsQueue[w])] /\ UNCHANGED <<tcpVars, copied>>
      BY <2>5 DEF WriteSocket
    <3>2. /\ h \in Waiting(wsQueue[w]) /\ h \in Nat /\ Waiting(wsQueue[w]) = {h} \cup Waiting(Tail(wsQueue[w]))
          /\ Distinct(Tail(wsQueue[w])) /\ h \notin Waiting(Tail(wsQueue[w]))
      BY <1>0, <2>3, <3>1, WaitingTail DEF Apart
    <3>3. got'[w] = Append(got[w], h) /\ wsQueue'[w] = Tail(wsQueue[w])
      BY <1>0, <3>1 DEF QueueTypes
    <3>4. Waiting(got'[w]) = Waiting(got[w]) \cup {h} /\ Distinct(got'[w])
      <4>1. h \notin Waiting(got[w]) /\ Distinct(got[w])
        BY <2>3, <3>2 DEF Apart
      <4> HIDE DEF h
      <4> QED
        BY <1>0, <3>2, <3>3, <4>1, WaitingAppend
    <3>5. Sending(w)' = Sending(w) /\ UNCHANGED <<buffer, chunks>> /\ copied'[w] = copied[w]
      BY <3>1 DEF Sending, tcpVars
    <3> HIDE DEF h
    <3>6. Waiting(wsQueue'[w]) \cup {h} = Waiting(wsQueue[w]) /\ Distinct(wsQueue'[w]) /\ h \notin Waiting(wsQueue'[w])
      BY <3>2, <3>3
    <3>7. Apart(got'[w], wsQueue'[w], copied'[w], Sending(w)')
      BY <2>3, <3>4, <3>5, <3>6 DEF Apart
    <3> QED
      BY <2>2, <3>4, <3>5, <3>6, <3>7 DEF HasBuffer
  <2>6. CASE SendOutput /\ tcpReader = w
    <3>1. Put(w, chunks) /\ tcpReader' = "reading" /\ UNCHANGED <<buffer, chunks, copied, got>>
      BY <2>6 DEF SendOutput
    <3>2. wsQueue'[w] = Append(wsQueue[w], chunks)
      BY <1>0, <2>1, <3>1, PutStep
    <3>3. Sending(w) = {chunks} /\ Sending(w)' = {}
      BY <1>0, <2>6, <3>1 DEF Sending
    <3>4. chunks \notin Waiting(wsQueue[w]) /\ Distinct(wsQueue[w])
      BY <2>3, <3>3 DEF Apart
    <3>5. Waiting(wsQueue'[w]) = Waiting(wsQueue[w]) \cup {chunks} /\ Distinct(wsQueue'[w])
      BY <1>0, <3>2, <3>4, WaitingAppend
    <3>6. chunks \in 1 .. chunks
      BY <1>0, <2>6 DEF BufferIsRecent
    <3>7. Apart(got'[w], wsQueue'[w], copied'[w], Sending(w)')
      BY <2>3, <3>1, <3>3, <3>5, <3>6 DEF Apart
    <3> QED
      BY <2>2, <3>1, <3>3, <3>5, <3>6, <3>7 DEF HasBuffer
  <2>7. CASE ReadOutput
    <3>1. /\ chunks' = chunks + 1 /\ Waiting(buffer') \subseteq Waiting(buffer) \cup {chunks'}
          /\ tcpReader = "reading" /\ tcpReader' = w /\ UNCHANGED <<copied, wsQueue, got>>
      BY <1>0, <2>1, <2>7, BufferStep DEF ReadOutput
    <3>2. Sending(w) = {} /\ Sending(w)' = {chunks'}
      BY <1>0, <3>1 DEF Sending
    <3>3. chunks' \notin 1 .. chunks /\ 1 .. chunks \subseteq 1 .. chunks'
      BY <1>0, <3>1
    <3>4. Apart(got[w], wsQueue[w], copied[w], Sending(w)')
      BY <2>3, <3>1, <3>2, <3>3 DEF Apart
    <3> QED
      BY <2>2, <3>1, <3>2, <3>3, <3>4 DEF HasBuffer
  <2>8. CASE \E v \in Sockets \ {w} : FlushBuffered(v)
    <3>1. PICK v \in Sockets \ {w} : FlushBuffered(v)
      BY <2>8
    <3>2. Head(copied[v]) \in Nat
      BY <3>1, WaitingTail DEF FlushBuffered, QueueTypes
    <3>3. wsQueue'[w] = wsQueue[w] /\ copied'[w] = copied[w]
      BY <1>0, <3>1, <3>2, PutStep DEF FlushBuffered, QueueTypes
    <3>4. UNCHANGED <<tcpVars, got>> /\ Sending(w)' = Sending(w)
      BY <3>1 DEF FlushBuffered, Sending, tcpVars
    <3> QED
      BY <2>2, <3>3, <3>4, HasBufferKept DEF tcpVars
  <2>9. CASE (SendOutput /\ tcpReader # w) \/ Announce
    <3>1. PICK v \in Sockets \ {w}, m \in Nat : Put(v, m)
      BY <1>0, <2>2, <2>9 DEF SendOutput, Announce, HolderTypes, Closed
    <3>2. wsQueue'[w] = wsQueue[w]
      BY <1>0, <3>1, PutStep
    <3>3. UNCHANGED <<buffer, chunks, copied, got>> /\ Sending(w)' = Sending(w)
      BY <1>0, <2>9 DEF SendOutput, Announce, Sending
    <3> QED
      BY <2>2, <3>2, <3>3, HasBufferKept
  <2>10. ASSUME /\ UNCHANGED <<buffer, chunks>>
                /\ got'[w] = got[w] /\ wsQueue'[w] = wsQueue[w] /\ copied'[w] = copied[w]
                /\ tcpReader' = tcpReader \/ (tcpReader = "reading" /\ tcpReader' = "ended")
         PROVE  HasBuffer(w)'
    <3>1. Sending(w)' = Sending(w)
      BY <1>0, <2>10 DEF Sending
    <3> QED
      BY <2>2, <2>10, <3>1, HasBufferKept
  <2>11. ASSUME NEW v \in Sockets \ {w}, SocketTask(v) \/ WriteSocket(v) \/ WriterEnds(v) \/ ClientCloses(v)
         PROVE  HasBuffer(w)'
    <3>1. CASE ~FlushBuffered(v)
      <4>1. /\ UNCHANGED <<buffer, chunks, tcpReader>>
            /\ got'[w] = got[w] /\ wsQueue'[w] = wsQueue[w] /\ copied'[w] = copied[w]
        BY <2>11, <3>1 DEF SocketTask, MayAttach, AttachSocket, DetachSocket, WriteSocket, WriterEnds, ClientCloses,
             tcpVars, QueueTypes
      <4> QED
        BY <2>10, <4>1
    <3> QED
      BY <2>8, <3>1
  <2>12. ASSUME MayAttach(w) \/ DetachSocket(w) \/ WriterEnds(w) \/ ClientCloses(w)
         PROVE  HasBuffer(w)'
    <3>1. /\ UNCHANGED <<buffer, chunks, tcpReader>>
          /\ got'[w] = got[w] /\ wsQueue'[w] = wsQueue[w] /\ copied'[w] = copied[w]
      BY <1>0, <2>12 DEF MayAttach, DetachSocket, WriterEnds, ClientCloses, tcpVars, HolderTypes
    <3> QED
      BY <2>10, <3>1
  <2>13. ASSUME TcpWriterEnds \/ TcpReaderEnds \/ ShutDownSocket \/ UNCHANGED socketVars
         PROVE  HasBuffer(w)'
    <3>1. UNCHANGED <<buffer, chunks, got, wsQueue, copied>>
      BY <2>13 DEF TcpWriterEnds, TcpReaderEnds, ShutDownSocket, socketVars, tcpVars
    <3>2. tcpReader' = tcpReader \/ (tcpReader = "reading" /\ tcpReader' = "ended")
      BY <2>13 DEF TcpWriterEnds, TcpReaderEnds, ShutDownSocket, socketVars, tcpVars
    <3> QED
      BY <2>10, <3>1, <3>2
  <2>14. CASE \E v \in Sockets : SocketTask(v) \/ WriteSocket(v) \/ WriterEnds(v) \/ ClientCloses(v)
    BY <1>2, <2>4, <2>5, <2>11, <2>12, <2>14 DEF SocketTask
  <2> QED
    BY <2>6, <2>7, <2>9, <2>13, <2>14 DEF SocketNext
<1> QED
  BY <1>1, <1>2

LEMMA SocketStep == SocketIInv /\ [SocketNext]_socketVars => SocketIInv'
<1> SUFFICES ASSUME SocketIInv, [SocketNext]_socketVars PROVE SocketIInv'
  OBVIOUS
<1>1. HolderTypes /\ BufferTypes /\ QueueTypes
  BY SocketTypeParts DEF SocketIInv
<1>2. NewAreFresh /\ ClosingIsLate /\ BufferIsRecent /\ OneSocketEach /\ HolderIsServed
  BY DEF SocketIInv
<1>3. HolderTypes' /\ BufferTypes' /\ QueueTypes' /\ BufferIsRecent'
  BY <1>1, <1>2, HolderTypeStep, BufferStep, QueueTypeStep
<1>4. NewAreFresh' /\ ClosingIsLate' /\ OneSocketEach' /\ HolderIsServed'
  BY <1>1, <1>2, NewAreFreshStep, OneSocketStep, HolderIsServedStep
<1>5. SocketTypeOK' /\ SeqTypes'
  BY <1>3 DEF SocketTypeOK, SeqTypes, HolderTypes, BufferTypes, QueueTypes
<1> QED
  BY <1>3, <1>4, <1>5 DEF SocketIInv

LEMMA SocketStart == SocketInit => SocketIInv
<1> SUFFICES ASSUME SocketInit PROVE SocketIInv
  OBVIOUS
<1>0. /\ 0 \in 0 .. MaxChunks /\ <<>> \in Seq(Nat) /\ Len(<<>>) = 0 /\ 0 <= BufCap /\ 0 <= WsCap
      /\ \A w \in Sockets : w \notin {NoSocket, "reading", "ended"}
  BY SocketCaps
<1>1. HolderTypes /\ BufferTypes /\ QueueTypes
  <2>1. HolderTypes
    BY DEF SocketInit, HolderTypes
  <2>2. BufferTypes /\ QueueTypes
    BY <1>0 DEF SocketInit, BufferTypes, QueueTypes
  <2> QED
    BY <2>1, <2>2
<1>2. NewAreFresh /\ ClosingIsLate /\ OneSocketEach
  BY <1>0 DEF SocketInit, NewAreFresh, Fresh, ClosingIsLate, OneSocketEach
<1>3. BufferIsRecent /\ HolderIsServed
  BY <1>0, WaitingEmpty, SocketCaps DEF SocketInit, BufferIsRecent, HolderIsServed
<1> QED
  BY <1>1, <1>2, <1>3, SocketTypeParts DEF SocketIInv

LEMMA WaitingConcat ==
    ASSUME NEW S, NEW p \in Seq(S), NEW q \in Seq(S)
    PROVE  /\ p \o q \in Seq(S) /\ Waiting(p \o q) = Waiting(p) \cup Waiting(q)
           /\ Distinct(p) /\ Distinct(q) /\ Waiting(p) \cap Waiting(q) = {} => Distinct(p \o q)
<1> DEFINE r == p \o q
<1>1. /\ Len(p) \in Nat /\ Len(q) \in Nat /\ r \in Seq(S) /\ Len(r) = Len(p) + Len(q)
      /\ \A i \in 1 .. Len(r) : r[i] = IF i <= Len(p) THEN p[i] ELSE q[i - Len(p)]
  BY ConcatProperties
<1> HIDE DEF r
<1>2. \A i \in 1 .. Len(r) : IF i <= Len(p) THEN i \in 1 .. Len(p) ELSE i - Len(p) \in 1 .. Len(q)
  BY <1>1
<1>3. \A i \in 1 .. Len(p) : i \in 1 .. Len(r) /\ r[i] = p[i]
  BY <1>1
<1>4. \A i \in 1 .. Len(q) : i + Len(p) \in 1 .. Len(r) /\ r[i + Len(p)] = q[i]
  BY <1>1, SMTT(30)
<1>5. Waiting(r) = Waiting(p) \cup Waiting(q)
  <2>1. ASSUME NEW x \in Waiting(r) PROVE x \in Waiting(p) \cup Waiting(q)
    <3>1. PICK i \in 1 .. Len(r) : x = r[i]
      BY <2>1 DEF Waiting
    <3> QED
      BY <1>1, <1>2, <3>1 DEF Waiting
  <2>2. ASSUME NEW x \in Waiting(p) \cup Waiting(q) PROVE x \in Waiting(r)
    BY <1>3, <1>4, <2>2 DEF Waiting
  <2> QED
    BY <2>1, <2>2
<1>6. ASSUME Distinct(p), Distinct(q), Waiting(p) \cap Waiting(q) = {} PROVE Distinct(r)
  <2>1. ASSUME NEW i \in 1 .. Len(r), NEW j \in 1 .. Len(r), r[i] = r[j] PROVE i = j
    <3>1. CASE i <= Len(p) /\ j <= Len(p)
      BY <1>1, <1>2, <1>6, <2>1, <3>1 DEF Distinct
    <3>2. CASE ~(i <= Len(p)) /\ ~(j <= Len(p))
      <4>1. i - Len(p) = j - Len(p)
        BY <1>1, <1>2, <1>6, <2>1, <3>2 DEF Distinct
      <4> QED
        BY <1>1, <4>1
    <3>3. CASE (i <= Len(p) /\ ~(j <= Len(p))) \/ (~(i <= Len(p)) /\ j <= Len(p))
      <4>1. \E k \in 1 .. Len(p), m \in 1 .. Len(q) : p[k] = q[m]
        BY <1>1, <1>2, <2>1, <3>3
      <4> QED
        BY <1>6, <4>1 DEF Waiting
    <3> QED
      BY <3>1, <3>2, <3>3
  <2> QED
    BY <2>1 DEF Distinct
<1> QED
  BY <1>1, <1>5, <1>6 DEF r

LEMMA ServedArrives ==
    ASSUME SocketIInv
    PROVE  ChunksArriveOnce
<1> SUFFICES ASSUME NEW w \in Sockets, holder = w, up[w], NEW i \in 1 .. Len(buffer)
             PROVE  \E j \in 1 .. Len(OnItsWay(w)) : \A k \in 1 .. Len(OnItsWay(w)) :
                        OnItsWay(w)[k] = buffer[i] <=> k = j
  BY DEF ChunksArriveOnce
<1>1. HasBuffer(w) /\ got[w] \in Seq(Nat) /\ wsQueue[w] \in Seq(Nat) /\ copied[w] \in Seq(Nat) /\ chunks \in Nat
  BY SocketTypeParts, SocketCaps DEF SocketIInv, HolderIsServed, QueueTypes, BufferTypes
<1> DEFINE a == got[w] \o wsQueue[w]
           b == a \o copied[w]
           c == IF tcpReader = w THEN <<chunks>> ELSE <<>>
           way == b \o c
<1>2. c \in Seq(Nat) /\ Waiting(c) = Sending(w) /\ Distinct(c)
  <2>1. CASE tcpReader = w
    <3>1. Len(<<chunks>>) = 1 /\ <<chunks>>[1] = chunks /\ <<chunks>> \in Seq(Nat) /\ 1 .. 1 = {1}
      BY <1>1
    <3> QED
      BY <2>1, <3>1 DEF Waiting, Sending, Distinct
  <2>2. CASE tcpReader # w
    BY <2>2, WaitingEmpty DEF Sending
  <2> QED
    BY <2>1, <2>2
<1> HIDE DEF c
<1>3. Apart(got[w], wsQueue[w], copied[w], Sending(w))
  BY <1>1 DEF HasBuffer
<1>4. a \in Seq(Nat) /\ Waiting(a) = Waiting(got[w]) \cup Waiting(wsQueue[w]) /\ Distinct(a)
  BY <1>1, <1>3, WaitingConcat DEF Apart
<1> HIDE DEF a
<1>5. b \in Seq(Nat) /\ Waiting(b) = Waiting(a) \cup Waiting(copied[w]) /\ Distinct(b)
  <2>1. Distinct(copied[w]) /\ Waiting(a) \cap Waiting(copied[w]) = {}
    BY <1>3, <1>4 DEF Apart
  <2>2. a \o copied[w] \in Seq(Nat) /\ Waiting(a \o copied[w]) = Waiting(a) \cup Waiting(copied[w])
    BY <1>1, <1>4, WaitingConcat
  <2>3. Distinct(a \o copied[w])
    BY <1>1, <1>4, <2>1, WaitingConcat
  <2> QED
    BY <2>2, <2>3
<1> HIDE DEF b
<1>6. way \in Seq(Nat) /\ Waiting(way) = Waiting(b) \cup Sending(w) /\ Distinct(way)
  <2>1. Waiting(b) \cap Waiting(c) = {}
    BY <1>2, <1>3, <1>4, <1>5 DEF Apart
  <2> QED
    BY <1>2, <1>5, <2>1, WaitingConcat
<1>7. way = OnItsWay(w)
  BY DEF OnItsWay, a, b, c
<1>8. buffer[i] \in Waiting(way)
  BY <1>1, <1>4, <1>5, <1>6 DEF HasBuffer, Waiting
<1> HIDE DEF way
<1>9. PICK j \in 1 .. Len(way) : way[j] = buffer[i]
  BY <1>8 DEF Waiting
<1>10. \A k \in 1 .. Len(way) : way[k] = buffer[i] <=> k = j
  BY <1>6, <1>9 DEF Distinct
<1> QED
  BY <1>7, <1>9, <1>10

(* A web player, whatever sockets, requests, sweeps, logouts and losses of   *)
(* the connection race: one socket is served at a time, each chunk of       *)
(* output that the session keeps reaches it once, no connection that lives  *)
(* is forgotten, and an input goes to one session, once.                    *)
THEOREM WebPlayersInvHolds == SocketSpec /\ WebSpec => []WebPlayersInv
<1>1. SocketSpec => []SocketIInv
  BY SocketStart, SocketStep, PTL DEF SocketSpec
<1>2. WebSpec => []WebIInv
  BY WebStart, WebStep, PTL DEF WebSpec
<1>3. SocketIInv /\ WebIInv => WebPlayersInv
  <2>1. SocketIInv => SocketTypeOK /\ OneSocketEach /\ ChunksArriveOnce
    BY ServedArrives DEF SocketIInv
  <2>2. WebIInv => WebTypeOK /\ NoneIsLost /\ InputsGoToOne
    BY DEF WebIInv
  <2> QED
    BY <2>1, <2>2 DEF WebPlayersInv
<1> QED
  BY <1>1, <1>2, <1>3, PTL

-----------------------------------------------------------------------------
(* Logins.  An account's methods were linked to it, the file has it as it   *)
(* is unless a save failed, and who looked at a free name that is taken     *)
(* since is known to be late.                                               *)

ConnSet == [at : Admitted \cup Looked \cup {"name", "looking", "method", "password", "google", "gone"},
            name : LoginNames \cup {Unnamed}, how : Methods \cup {"none"}]
Nameless == {"name", "gone"}

ConnsNamed   == \A c \in Clients : conns[c].at \notin Nameless =>
                    conns[c].name \in LoginNames /\ conns[c].how \in Methods \cup {"none"}
ConnsProve   == \A c \in Clients : conns[c].at \in {"inserting", "looking"} => conns[c].how \in Methods
LinkedIsKept ==
    /\ linked \in [LoginNames -> SUBSET (Methods \X Clients)]
    /\ \A n \in DOMAIN accounts, m \in Methods :
          accounts[n][m] # NoClient => <<m, accounts[n][m]>> \in linked[n]
    /\ \A n \in DOMAIN saved, m \in Methods :
          saved[n][m] # NoClient => <<m, saved[n][m]>> \in linked[n]
FileIsMap    ==
    \A n \in DOMAIN accounts : n \notin unsaved => n \in DOMAIN saved /\ saved[n] = accounts[n]
AdmittedHave == \A c \in Clients : conns[c].at \in Admitted => conns[c].name \in DOMAIN accounts
LateAreRaced ==
    \A c \in Clients : conns[c].at \in Looked /\ conns[c].name \in DOMAIN accounts => c \in raced

LoginIInv ==
    /\ LoginTypeOK /\ ConnsNamed /\ ConnsProve /\ LinkedIsKept /\ FileIsMap /\ AdmittedHave
    /\ LateAreRaced /\ LoginsAreLinked

RecordTypes ==
    /\ DOMAIN accounts \subseteq LoginNames /\ DOMAIN saved \subseteq LoginNames
    /\ \A n \in DOMAIN accounts : accounts[n] \in AccountRec
    /\ \A n \in DOMAIN saved : saved[n] \in AccountRec
    /\ unsaved \subseteq LoginNames /\ fails \in 0 .. MaxSaveFails
ConnTypes ==
    /\ conns \in [Clients -> ConnSet] /\ autoLogin \in [Clients -> Providers \cup {"none"}]
    /\ oauth \in [Clients -> {"none", "pending", "ok", "err"}]
    /\ players \subseteq LoginNames /\ raced \subseteq Clients

LEMMA LoginTypeParts == LoginTypeOK <=> RecordTypes /\ ConnTypes
BY DEF LoginTypeOK, RecordTypes, ConnTypes, ConnSet

\* A connection goes on while accounts and file stay as they are.
LEMMA MoveStep ==
    ASSUME LoginIInv, NEW c \in Clients, NEW new \in ConnSet, conns' = [conns EXCEPT ![c] = new],
           UNCHANGED <<accounts, saved, fails, linked, unsaved>>,
           autoLogin' \in [Clients -> Providers \cup {"none"}],
           oauth' \in [Clients -> {"none", "pending", "ok", "err"}], players' \subseteq LoginNames,
           new.at \notin Nameless => new.name \in LoginNames,
           new.at \in {"inserting", "looking"} => new.how \in Methods,
           new.at \in Admitted => new.name \in DOMAIN accounts /\ <<new.how, c>> \in linked[new.name],
           \/ raced' = raced /\ (new.at \in Looked => new.name \notin DOMAIN accounts)
           \/ raced' = raced \ {c} /\ new.at \notin Looked
    PROVE  LoginIInv'
<1>1. RecordTypes /\ ConnTypes
  BY LoginTypeParts DEF LoginIInv
<1>2. \A d \in Clients : conns'[d] = IF d = c THEN new ELSE conns[d]
  BY <1>1 DEF ConnTypes
<1>3. RecordTypes' /\ ConnTypes' /\ raced' \subseteq raced /\ \A d \in Clients \ {c} : d \in raced => d \in raced'
  BY <1>1 DEF RecordTypes, ConnTypes
<1>4. LoginTypeOK'
  BY <1>3 DEF LoginTypeOK, RecordTypes, ConnTypes, ConnSet
<1>5. ConnsNamed' /\ ConnsProve'
  <2>1. new.how \in Methods \cup {"none"}
    BY DEF ConnSet
  <2> QED
    BY <1>2, <2>1 DEF LoginIInv, ConnsNamed, ConnsProve
<1>6. LinkedIsKept' /\ FileIsMap'
  BY DEF LoginIInv, LinkedIsKept, FileIsMap
<1>7. AdmittedHave' /\ LoginsAreLinked'
  BY <1>2 DEF LoginIInv, AdmittedHave, LoginsAreLinked
<1>8. LateAreRaced'
  BY <1>2, <1>3 DEF LoginIInv, LateAreRaced
<1> QED
  BY <1>4, <1>5, <1>6, <1>7, <1>8 DEF LoginIInv

\* Who owns a record is linked to it.
LEMMA OwnersAreLinked ==
    ASSUME LoginIInv, NEW c \in Clients, NEW how \in Methods, NEW n, Owns(c, how, n)
    PROVE  n \in LoginNames /\ n \in DOMAIN accounts /\ <<how, c>> \in linked[n]
BY LoginBounds DEF LoginIInv, LinkedIsKept, Owns, Taken, LoginTypeOK

\* A record is written to the map and, unless that fails, to the file.
LEMMA RecordPut ==
    ASSUME LoginIInv, NEW n \in LoginNames, NEW rec \in AccountRec, PutRecord(n, rec),
           Saved \/ SaveFails(n)
    PROVE  /\ RecordTypes' /\ LinkedIsKept' /\ FileIsMap'
           /\ DOMAIN accounts' = DOMAIN accounts \cup {n}
           /\ \A x \in DOMAIN accounts : x # n => accounts'[x] = accounts[x]
           /\ accounts'[n] = rec
           /\ \A x \in LoginNames : linked[x] \subseteq linked'[x]
           /\ \A m \in Methods : rec[m] # NoClient => <<m, rec[m]>> \in linked'[n]
<1>1. RecordTypes /\ LinkedIsKept /\ FileIsMap
  BY LoginTypeParts DEF LoginIInv
<1> DEFINE new == {<<m, rec[m]>> : m \in {x \in Methods : rec[x] # NoClient}}
<1>2. /\ DOMAIN accounts' = DOMAIN accounts \cup {n}
      /\ \A x \in DOMAIN accounts : x # n => accounts'[x] = accounts[x]
      /\ accounts'[n] = rec
  BY DEF PutRecord
<1>3. linked' = [linked EXCEPT ![n] = linked[n] \cup new]
  BY DEF PutRecord
<1>4. new \subseteq Methods \X Clients /\ \A m \in Methods : rec[m] # NoClient => <<m, rec[m]>> \in new
  BY DEF AccountRec
<1> HIDE DEF new
<1>5. /\ linked' \in [LoginNames -> SUBSET (Methods \X Clients)]
      /\ \A x \in LoginNames : linked'[x] = IF x = n THEN linked[n] \cup new ELSE linked[x]
  BY <1>1, <1>3, <1>4 DEF LinkedIsKept
<1>6. \/ saved' = accounts' /\ unsaved' = {} /\ fails' = fails
      \/ saved' = saved /\ unsaved' = unsaved \cup {n} /\ fails < MaxSaveFails /\ fails' = fails + 1
  BY DEF Saved, SaveFails
<1>7. \A x \in DOMAIN accounts' : accounts'[x] \in AccountRec
  BY <1>1, <1>2 DEF RecordTypes
<1>8. RecordTypes'
  <2>1. fails' \in 0 .. MaxSaveFails
    BY <1>1, <1>6, LoginBounds DEF RecordTypes
  <2> QED
    BY <1>1, <1>2, <1>6, <1>7, <2>1 DEF RecordTypes
<1>9. FileIsMap'
  BY <1>1, <1>2, <1>6 DEF FileIsMap
<1>10. \A x \in DOMAIN accounts', m \in Methods : accounts'[x][m] # NoClient => <<m, accounts'[x][m]>> \in linked'[x]
  <2>1. TAKE x \in DOMAIN accounts', m \in Methods
  <2>2. CASE x = n
    BY <1>2, <1>4, <1>5, <2>2
  <2>3. CASE x # n
    BY <1>1, <1>2, <1>5, <2>3 DEF LinkedIsKept, RecordTypes
  <2> QED
    BY <2>2, <2>3
<1>11. LinkedIsKept'
  <2>1. \A x \in DOMAIN saved, m \in Methods : saved[x][m] # NoClient => <<m, saved[x][m]>> \in linked'[x]
    BY <1>1, <1>5 DEF LinkedIsKept, RecordTypes
  <2> QED
    BY <1>5, <1>6, <1>10, <2>1 DEF LinkedIsKept
<1> QED
  BY <1>2, <1>4, <1>5, <1>8, <1>9, <1>11

LEMMA CreateStep ==
    ASSUME LoginIInv, NEW c \in Clients, NEW n \in LoginNames, NEW how \in Methods, Create(c, n, how),
           UNCHANGED <<players, autoLogin>>, oauth' \in [Clients -> {"none", "pending", "ok", "err"}]
    PROVE  LoginIInv' /\ \A x \in DOMAIN accounts : x # n => x \in DOMAIN accounts' /\ accounts'[x] = accounts[x]
<1> DEFINE rec == NewAccount(how, c)
<1>1. RecordTypes /\ ConnTypes
  BY LoginTypeParts DEF LoginIInv
<1>2. rec \in AccountRec /\ rec[how] = c /\ c # NoClient
  BY LoginBounds DEF NewAccount, AccountRec
<1>3. PutRecord(n, rec) /\ (Saved \/ SaveFails(n)) /\ raced' = (raced \ {c}) \cup LateTo(n, c)
  BY DEF Create
<1>4. PICK a \in {"admitted", "gone"} : conns' = [conns EXCEPT ![c] = [at |-> a, name |-> n, how |-> how]]
  BY DEF Create, Move
<1> DEFINE new == [at |-> a, name |-> n, how |-> how]
<1>5. new \in ConnSet /\ new.at = a /\ new.name = n /\ new.how = how
  BY DEF ConnSet, Admitted
<1> HIDE DEF rec, new
<1>6. /\ RecordTypes' /\ LinkedIsKept' /\ FileIsMap'
      /\ DOMAIN accounts' = DOMAIN accounts \cup {n}
      /\ \A x \in DOMAIN accounts : x # n => accounts'[x] = accounts[x]
      /\ \A x \in LoginNames : linked[x] \subseteq linked'[x]
      /\ <<how, c>> \in linked'[n]
  BY <1>2, <1>3, RecordPut
<1>7. conns' = [conns EXCEPT ![c] = new] /\ \A d \in Clients : conns'[d] = IF d = c THEN new ELSE conns[d]
  BY <1>1, <1>4 DEF ConnTypes, new
<1>8. ConnTypes'
  BY <1>1, <1>3, <1>5, <1>7 DEF ConnTypes, LateTo
<1>9. LoginTypeOK'
  BY <1>6, <1>8 DEF LoginTypeOK, RecordTypes, ConnTypes, ConnSet
<1>10. ConnsNamed' /\ ConnsProve'
  BY <1>5, <1>7 DEF LoginIInv, ConnsNamed, ConnsProve
<1>11. AdmittedHave'
  BY <1>5, <1>6, <1>7 DEF LoginIInv, AdmittedHave
<1>12. LoginsAreLinked'
  <2>1. \A d \in Clients : conns[d].at \in Admitted => conns[d].name \in LoginNames
    BY <1>1 DEF LoginIInv, ConnsNamed, Nameless, Admitted, Prompts
  <2> QED
    BY <1>5, <1>6, <1>7, <2>1 DEF LoginIInv, LoginsAreLinked
<1>13. LateAreRaced'
  <2>1. a \notin Looked
    BY DEF Looked
  <2>2. \A d \in Clients : d # c /\ conns[d].at \in Looked /\ conns[d].name = n => d \in LateTo(n, c)
    BY DEF LateTo
  <2> QED
    BY <1>3, <1>5, <1>6, <1>7, <2>1, <2>2 DEF LoginIInv, LateAreRaced
<1> QED
  BY <1>6, <1>9, <1>10, <1>11, <1>12, <1>13 DEF LoginIInv

LEMMA AdminStep ==
    ASSUME LoginIInv, NEW c \in Clients, NEW n \in LoginNames, AdminCreate(c, n) \/ AdminSetPassword(c, n)
    PROVE  /\ LoginIInv'
           /\ \A x \in DOMAIN accounts :
                /\ x \in DOMAIN accounts' /\ \A how \in Providers : accounts'[x][how] = accounts[x][how]
                /\ accounts[x]["password"] # NoClient => accounts'[x]["password"] # NoClient
<1>1. RecordTypes /\ ConnTypes /\ "password" \in Methods /\ "password" \notin Providers /\ c # NoClient
  BY LoginTypeParts, LoginBounds DEF LoginIInv, Methods
<1>2. PICK rec : /\ rec \in AccountRec /\ PutRecord(n, rec)
                 /\ n \in DOMAIN accounts => rec["password"] = c /\ \A how \in Providers : rec[how] = accounts[n][how]
  <2>1. CASE AdminCreate(c, n)
    <3>1. NewAccount("password", c) \in AccountRec
      BY <1>1 DEF NewAccount, AccountRec
    <3> QED
      BY <2>1, <3>1 DEF AdminCreate, Taken
  <2>2. CASE AdminSetPassword(c, n)
    <3>1. accounts[n] \in AccountRec
      BY <1>1, <2>2 DEF AdminSetPassword, Taken, RecordTypes
    <3> DEFINE rec == [accounts[n] EXCEPT !["password"] = c]
    <3>2. rec \in AccountRec /\ rec["password"] = c /\ \A how \in Providers : rec[how] = accounts[n][how]
      BY <1>1, <3>1 DEF AccountRec, Methods
    <3> QED
      BY <2>2, <3>2 DEF AdminSetPassword
  <2> QED
    BY <2>1, <2>2
<1>3. (Saved \/ SaveFails(n)) /\ UNCHANGED <<players, conns, autoLogin, oauth>>
  BY DEF AdminCreate, AdminSetPassword
<1>4. /\ RecordTypes' /\ LinkedIsKept' /\ FileIsMap'
      /\ DOMAIN accounts' = DOMAIN accounts \cup {n}
      /\ \A x \in DOMAIN accounts : x # n => accounts'[x] = accounts[x]
      /\ accounts'[n] = rec
      /\ \A x \in LoginNames : linked[x] \subseteq linked'[x]
  BY <1>2, <1>3, RecordPut
<1>5. raced \subseteq raced' /\ raced' \subseteq Clients
  BY <1>1 DEF AdminCreate, AdminSetPassword, LateTo, ConnTypes
<1>6. LoginTypeOK'
  BY <1>1, <1>3, <1>4, <1>5 DEF LoginTypeOK, RecordTypes, ConnTypes, ConnSet
<1>7. ConnsNamed' /\ ConnsProve' /\ AdmittedHave'
  BY <1>3, <1>4 DEF LoginIInv, ConnsNamed, ConnsProve, AdmittedHave
<1>8. LoginsAreLinked'
  <2>1. \A d \in Clients : conns[d].at \in Admitted => conns[d].name \in LoginNames
    BY <1>1 DEF LoginIInv, ConnsNamed, Nameless, Admitted, Prompts
  <2> QED
    BY <1>3, <1>4, <2>1 DEF LoginIInv, LoginsAreLinked
<1>9. LateAreRaced'
  <2>1. \A d \in Clients : conns[d].at \in Looked /\ conns[d].name = n => n \in DOMAIN accounts \/ d \in raced'
    BY LoginBounds DEF AdminCreate, AdminSetPassword, LateTo, Taken
  <2> QED
    BY <1>3, <1>4, <1>5, <2>1 DEF LoginIInv, LateAreRaced
<1>10. \A x \in DOMAIN accounts :
         /\ x \in DOMAIN accounts' /\ \A how \in Providers : accounts'[x][how] = accounts[x][how]
         /\ accounts[x]["password"] # NoClient => accounts'[x]["password"] # NoClient
  BY <1>1, <1>2, <1>4
<1> QED
  BY <1>4, <1>6, <1>7, <1>8, <1>9, <1>10 DEF LoginIInv

\* The same for a step that only moves a connection.
LEMMA MoveTo ==
    ASSUME LoginIInv, NEW c \in Clients, NEW a, NEW n, NEW how, Move(c, a, n, how), Unchanged1,
           a \in Admitted \cup Looked \cup {"name", "looking", "method", "password", "google", "gone"},
           n \in LoginNames \/ (n = Unnamed /\ a \in Nameless), how \in Methods \cup {"none"},
           a \in {"inserting", "looking"} => how \in Methods,
           a \in Admitted => n \in DOMAIN accounts /\ <<how, c>> \in linked[n],
           a \in Looked => n \notin DOMAIN accounts,
           autoLogin' \in [Clients -> Providers \cup {"none"}],
           oauth' \in [Clients -> {"none", "pending", "ok", "err"}]
    PROVE  LoginIInv' /\ UNCHANGED accounts
<1> DEFINE new == [at |-> a, name |-> n, how |-> how]
<1>1. new \in ConnSet /\ new.at = a /\ new.name = n /\ new.how = how /\ conns' = [conns EXCEPT ![c] = new]
  BY DEF ConnSet, Move
<1>2. players' \subseteq LoginNames
  BY DEF Unchanged1, LoginIInv, LoginTypeOK
<1> HIDE DEF new
<1> QED
  BY <1>1, <1>2, MoveStep DEF Unchanged1

\* What the prompts keep: name and method of who has one.
LEMMA ConnKnown ==
    ASSUME LoginIInv, NEW c \in Clients
    PROVE  /\ conns[c].name \in LoginNames \cup {Unnamed} /\ conns[c].how \in Methods \cup {"none"}
           /\ conns[c].at \notin Nameless => conns[c].name \in LoginNames
           /\ conns[c].at \in {"inserting", "looking"} => conns[c].how \in Methods
           /\ conns[c].at \in Admitted =>
                /\ conns[c].name \in LoginNames /\ conns[c].name \in DOMAIN accounts
                /\ <<conns[c].how, c>> \in linked[conns[c].name]
           /\ autoLogin[c] \in Providers \cup {"none"}
           /\ autoLogin \in [Clients -> Providers \cup {"none"}]
           /\ oauth \in [Clients -> {"none", "pending", "ok", "err"}]
<1>1. ConnTypes
  BY LoginTypeParts DEF LoginIInv
<1>2. conns[c] \in ConnSet
  BY <1>1 DEF ConnTypes
<1>3. Admitted \cap Nameless = {}
  BY DEF Admitted, Nameless, Prompts
<1> QED
  BY <1>1, <1>2, <1>3 DEF LoginIInv, ConnTypes, ConnSet, ConnsNamed, ConnsProve, AdmittedHave, LoginsAreLinked

NamedStep(c) ==
    \E n \in LoginNames :
        \/ TypeName(c, n) \/ BindName(c, n)
        \/ \E how \in Methods : WebLogin(c, n, how) \/ WebCreate(c, n, how)
AutoStep(c) == (\E how \in Providers : WebAuto(c, how)) \/ LookAgain(c)
PromptStep(c) ==
    \/ ChoosePassword(c) \/ ChooseGoogle(c) \/ LoginPassword(c) \/ Browse(c) \/ DropGoogle(c)
    \/ GiveUpPlayer(c) \/ Answer(c) \/ AnswerOther(c)
GoneStep(c) == HangUp(c) \/ ConnectAgain(c)
EnterStep(c) == FindPlayer(c) \/ FinishPrompts(c)

LEMMA NamedSteps ==
    ASSUME LoginIInv, NEW c \in Clients, NamedStep(c)
    PROVE  LoginIInv' /\ UNCHANGED accounts
<1> USE DEF Admitted, Looked, Prompts, Nameless
<1>1. PICK n \in LoginNames :
        \/ TypeName(c, n) \/ BindName(c, n)
        \/ \E how \in Methods : WebLogin(c, n, how) \/ WebCreate(c, n, how)
  BY DEF NamedStep
<1>2. CASE TypeName(c, n)
  BY <1>2, MoveTo, ConnKnown DEF TypeName
<1>3. CASE BindName(c, n)
  <2>1. autoLogin[c] \in Methods /\ autoLogin' \in [Clients -> Providers \cup {"none"}]
    BY <1>3, ConnKnown DEF BindName, Methods
  <2>2. CASE ~Taken(n) /\ Move(c, "inserting", n, autoLogin[c])
    BY <1>3, <2>1, <2>2, MoveTo, ConnKnown DEF BindName, Taken
  <2>3. CASE Owns(c, autoLogin[c], n) /\ Move(c, "admitted", n, autoLogin[c])
    BY <1>3, <2>1, <2>3, MoveTo, ConnKnown, OwnersAreLinked DEF BindName
  <2> QED
    BY <1>3, <2>2, <2>3 DEF BindName
<1>4. CASE \E how \in Methods : WebLogin(c, n, how)
  BY <1>4, MoveTo, ConnKnown, OwnersAreLinked DEF WebLogin
<1>5. CASE \E how \in Methods : WebCreate(c, n, how)
  BY <1>5, MoveTo, ConnKnown DEF WebCreate, Taken
<1> QED
  BY <1>1, <1>2, <1>3, <1>4, <1>5

LEMMA AutoSteps ==
    ASSUME LoginIInv, NEW c \in Clients, AutoStep(c)
    PROVE  LoginIInv' /\ UNCHANGED accounts
<1> USE DEF Admitted, Looked, Prompts, Nameless
<1>1. ASSUME NEW how \in Providers, WebAuto(c, how) PROVE LoginIInv' /\ UNCHANGED accounts
  <2>1. how \in Methods /\ UNCHANGED oauth /\ Unchanged1 /\ (conns[c].name # Unnamed => conns[c].name \in LoginNames)
    BY <1>1, ConnKnown DEF WebAuto, Methods
  <2>2. CASE UNCHANGED autoLogin /\ \E n \in LinkedNames(c, how) : Move(c, "looking", n, how)
    <3>1. PICK n \in LinkedNames(c, how) : Move(c, "looking", n, how)
      BY <2>2
    <3>2. n \in LoginNames
      BY <3>1 DEF LinkedNames, LoginIInv, LoginTypeOK
    <3> QED
      BY <2>1, <2>2, <3>1, <3>2, MoveTo, ConnKnown
  <2>3. CASE autoLogin' = [autoLogin EXCEPT ![c] = how] /\ UNCHANGED conns
    <3>1. autoLogin' \in [Clients -> Providers \cup {"none"}]
      BY <2>3, ConnKnown
    <3>2. conns \in [Clients -> ConnSet] /\ conns[c] \in ConnSet
      BY LoginTypeParts DEF LoginIInv, ConnTypes
    <3> DEFINE new == conns[c]
    <3>3. conns' = [conns EXCEPT ![c] = new]
      BY <2>3, <3>2
    <3>4. raced' = raced /\ UNCHANGED <<accounts, saved, fails, linked, unsaved>> /\ players' \subseteq LoginNames
      BY <2>1 DEF Unchanged1, LoginIInv, LoginTypeOK
    <3>5. new.at \in {"name", "method"}
      BY <1>1 DEF WebAuto, Prompted
    <3>6. oauth' \in [Clients -> {"none", "pending", "ok", "err"}]
      BY <2>1, ConnKnown
    <3>7. new.at \notin Nameless => new.name \in LoginNames
      BY ConnKnown
    <3> HIDE DEF new
    <3> QED
      BY <3>1, <3>2, <3>3, <3>4, <3>5, <3>6, <3>7, MoveStep DEF new
  <2>4. CASE Move(c, "name", Unnamed, "none") /\ autoLogin' = [autoLogin EXCEPT ![c] = how]
    BY <2>1, <2>4, MoveTo, ConnKnown
  <2>5. CASE conns[c].name # Unnamed /\ ~Taken(conns[c].name) /\ Move(c, "inserting", conns[c].name, how) /\ UNCHANGED autoLogin
    BY <2>1, <2>5, MoveTo, ConnKnown DEF Taken
  <2> QED
    BY <1>1, <2>2, <2>3, <2>4, <2>5 DEF WebAuto
<1>2. CASE LookAgain(c)
  <2>1. conns[c].how \in Methods /\ UNCHANGED <<autoLogin, oauth>> /\ Unchanged1
    BY <1>2, ConnKnown DEF LookAgain
  <2>2. CASE Owns(c, conns[c].how, conns[c].name) /\ Move(c, "admitted", conns[c].name, conns[c].how)
    BY <2>1, <2>2, MoveTo, ConnKnown, OwnersAreLinked
  <2>3. CASE Move(c, "name", Unnamed, "none")
    BY <2>1, <2>3, MoveTo, ConnKnown
  <2> QED
    BY <1>2, <2>2, <2>3 DEF LookAgain
<1> QED
  BY <1>1, <1>2 DEF AutoStep

LEMMA PromptSteps ==
    ASSUME LoginIInv, NEW c \in Clients, PromptStep(c)
    PROVE  LoginIInv' /\ UNCHANGED accounts
<1> USE DEF Admitted, Looked, Prompts, Nameless
<1>0. "password" \in Methods /\ "google" \in Methods /\ "google" \in Providers
  BY LoginBounds DEF Methods
<1>1. CASE ChoosePassword(c)
  BY <1>0, <1>1, MoveTo, ConnKnown DEF ChoosePassword, Taken
<1>2. CASE ChooseGoogle(c)
  <2>1. oauth' \in [Clients -> {"none", "pending", "ok", "err"}]
    BY <1>2, ConnKnown DEF ChooseGoogle
  <2> QED
    BY <1>0, <1>2, <2>1, MoveTo, ConnKnown DEF ChooseGoogle
<1>3. CASE LoginPassword(c)
  <2>1. CASE Owns(c, "password", conns[c].name) /\ Move(c, "admitted", conns[c].name, "password")
    BY <1>0, <1>3, <2>1, MoveTo, ConnKnown, OwnersAreLinked DEF LoginPassword
  <2>2. CASE Move(c, "gone", conns[c].name, "password")
    BY <1>0, <1>3, <2>2, MoveTo, ConnKnown DEF LoginPassword
  <2> QED
    BY <1>3, <2>1, <2>2 DEF LoginPassword
<1>4. CASE Browse(c)
  <2>1. oauth' \in [Clients -> {"none", "pending", "ok", "err"}]
    BY <1>4, ConnKnown DEF Browse
  <2>2. UNCHANGED <<accounts, saved, players, conns, autoLogin, fails, linked, unsaved, raced>>
    BY <1>4 DEF Browse, Unchanged1
  <2>3. LoginTypeOK'
    BY <2>1, <2>2 DEF LoginIInv, LoginTypeOK
  <2> QED
    BY <2>2, <2>3 DEF LoginIInv, ConnsNamed, ConnsProve, LinkedIsKept, FileIsMap, AdmittedHave, LateAreRaced, LoginsAreLinked
<1>5. CASE DropGoogle(c)
  <2>1. oauth' \in [Clients -> {"none", "pending", "ok", "err"}]
    BY <1>5, ConnKnown DEF DropGoogle
  <2> QED
    BY <1>0, <1>5, <2>1, MoveTo, ConnKnown DEF DropGoogle
<1>6. CASE GiveUpPlayer(c)
  BY <1>6, MoveTo, ConnKnown DEF GiveUpPlayer
<1>7. CASE Answer(c)
  <2>1. conns[c].at \in Admitted /\ NextPrompt[conns[c].at] \in Prompts
    BY <1>7 DEF Answer, NextPrompt
  <2> QED
    BY <1>7, <2>1, MoveTo, ConnKnown, ZenonT(60) DEF Answer
<1>8. CASE AnswerOther(c)
  BY <1>8, MoveTo, ConnKnown DEF AnswerOther
<1> QED
  BY <1>1, <1>2, <1>3, <1>4, <1>5, <1>6, <1>7, <1>8 DEF PromptStep

LEMMA GoneSteps ==
    ASSUME LoginIInv, NEW c \in Clients, GoneStep(c)
    PROVE  LoginIInv' /\ UNCHANGED accounts
<1> DEFINE new == [at |-> IF HangUp(c) THEN "gone" ELSE "name", name |-> Unnamed, how |-> "none"]
<1>1. /\ conns' = [conns EXCEPT ![c] = new] /\ raced' = raced \ {c}
      /\ UNCHANGED <<accounts, saved, players, fails, linked, unsaved>>
  BY DEF GoneStep, HangUp, ConnectAgain, Move, FreshConn
<1>2. new \in ConnSet /\ new.at \in Nameless /\ new.at \notin Looked \cup Admitted \cup {"inserting", "looking"}
  BY DEF ConnSet, Nameless, Looked, Admitted, Prompts
<1>3. /\ autoLogin' \in [Clients -> Providers \cup {"none"}]
      /\ oauth' \in [Clients -> {"none", "pending", "ok", "err"}]
  BY ConnKnown DEF GoneStep, HangUp, ConnectAgain
<1>4. players' \subseteq LoginNames
  BY <1>1 DEF LoginIInv, LoginTypeOK
<1> HIDE DEF new
<1> QED
  BY <1>1, <1>2, <1>3, <1>4, MoveStep

LEMMA EnterSteps ==
    ASSUME LoginIInv, NEW c \in Clients, EnterStep(c)
    PROVE  LoginIInv' /\ UNCHANGED accounts
<1> DEFINE n == conns[c].name
           new == [at |-> "world", name |-> n, how |-> conns[c].how]
<1>1. conns[c].at \in Admitted
  BY DEF EnterStep, FindPlayer, FinishPrompts, Admitted, Prompts
<1>2. n \in LoginNames /\ n \in DOMAIN accounts /\ <<conns[c].how, c>> \in linked[n] /\ conns[c].how \in Methods \cup {"none"}
  BY <1>1, ConnKnown
<1>3. /\ conns' = [conns EXCEPT ![c] = new] /\ players' = players \cup {n}
      /\ UNCHANGED <<accounts, saved, autoLogin, oauth, fails, linked, unsaved, raced>>
  BY DEF EnterStep, FindPlayer, FinishPrompts, EnterWorld, Move
<1>4. /\ new \in ConnSet /\ new.at = "world" /\ new.name = n /\ new.how = conns[c].how
      /\ "world" \notin Looked \cup Nameless \cup {"inserting", "looking"}
  BY <1>2 DEF ConnSet, Admitted, Looked, Nameless
<1>5. /\ players' \subseteq LoginNames /\ autoLogin' \in [Clients -> Providers \cup {"none"}]
      /\ oauth' \in [Clients -> {"none", "pending", "ok", "err"}]
  BY <1>2, <1>3, ConnKnown DEF LoginIInv, LoginTypeOK
<1> HIDE DEF new, n
<1> QED
  BY <1>2, <1>3, <1>4, <1>5, MoveStep

LEMMA RestartBrokerStep ==
    ASSUME LoginIInv, RestartBroker
    PROVE  LoginIInv' /\ \A n \in DOMAIN accounts : n \notin unsaved => n \in DOMAIN accounts' /\ accounts'[n] = accounts[n]
<1> DEFINE new == [FreshConn EXCEPT !.at = "gone"]
<1>1. RecordTypes /\ ConnTypes /\ LinkedIsKept /\ FileIsMap
  BY LoginTypeParts DEF LoginIInv
<1>2. /\ accounts' = saved /\ conns' = [c \in Clients |-> new] /\ unsaved' = {} /\ raced' = {}
      /\ autoLogin' = [c \in Clients |-> "none"] /\ oauth' = [c \in Clients |-> "none"]
      /\ UNCHANGED <<saved, players, fails, linked>>
  BY DEF RestartBroker
<1>3. new \in ConnSet /\ new.at = "gone"
  BY DEF ConnSet, FreshConn
<1> HIDE DEF new
<1>4. RecordTypes' /\ ConnTypes'
  BY <1>1, <1>2, <1>3 DEF RecordTypes, ConnTypes
<1>5. LoginTypeOK'
  BY <1>4 DEF LoginTypeOK, RecordTypes, ConnTypes, ConnSet
<1>6. ConnsNamed' /\ ConnsProve' /\ AdmittedHave' /\ LateAreRaced' /\ LoginsAreLinked'
  BY <1>2, <1>3 DEF ConnsNamed, ConnsProve, AdmittedHave, LateAreRaced, LoginsAreLinked, Nameless, Admitted, Looked, Prompts
<1>7. LinkedIsKept' /\ FileIsMap'
  BY <1>1, <1>2 DEF LinkedIsKept, FileIsMap
<1>8. \A n \in DOMAIN accounts : n \notin unsaved => n \in DOMAIN accounts' /\ accounts'[n] = accounts[n]
  BY <1>1, <1>2 DEF FileIsMap
<1> QED
  BY <1>5, <1>6, <1>7, <1>8 DEF LoginIInv

\* The accounts that a step replaces are those of a name two looked at.
CreatesAt(c, n) == conns[c].at \in Looked /\ conns[c].name = n
KeepsAccount(n) ==
    /\ n \in DOMAIN accounts' /\ \A how \in Providers : accounts'[n][how] = accounts[n][how]
    /\ accounts[n]["password"] # NoClient => accounts'[n]["password"] # NoClient

LEMMA CreateSteps ==
    ASSUME LoginIInv, NEW c \in Clients, InsertFound(c) \/ CreatePassword(c) \/ CheckGoogle(c)
    PROVE  LoginIInv' /\ \A n \in DOMAIN accounts : KeepsAccount(n) \/ \E d \in raced : CreatesAt(d, n)
<1>0. "password" \in Methods /\ "google" \in Methods /\ (conns[c].at \in Looked => conns[c].at \notin Nameless)
  BY LoginBounds DEF Methods, Looked, Nameless
<1>1. CASE InsertFound(c) \/ CreatePassword(c)
  <2>1. conns[c].at \in Looked /\ conns[c].name \in LoginNames
    BY <1>0, <1>1, ConnKnown DEF InsertFound, CreatePassword, Looked
  <2>2. PICK how \in Methods : Create(c, conns[c].name, how)
    BY <1>0, <1>1, ConnKnown DEF InsertFound, CreatePassword
  <2>3. UNCHANGED <<players, autoLogin, oauth>>
    BY <1>1 DEF InsertFound, CreatePassword
  <2>4. LoginIInv' /\ \A x \in DOMAIN accounts : x # conns[c].name => x \in DOMAIN accounts' /\ accounts'[x] = accounts[x]
    BY <2>1, <2>2, <2>3, ConnKnown, CreateStep
  <2>5. conns[c].name \in DOMAIN accounts => c \in raced
    BY <2>1 DEF LoginIInv, LateAreRaced
  <2> QED
    BY <2>1, <2>4, <2>5 DEF KeepsAccount, CreatesAt
<1>2. CASE CheckGoogle(c)
  <2>1. conns[c].name \in LoginNames
    BY <1>2, ConnKnown DEF CheckGoogle, Nameless
  <2>2. autoLogin' = autoLogin /\ oauth' \in [Clients -> {"none", "pending", "ok", "err"}]
    BY <1>2, ConnKnown DEF CheckGoogle
  <2>3. CASE Owns(c, "google", conns[c].name) /\ Move(c, "admitted", conns[c].name, "google") /\ Unchanged1
    <3>1. LoginIInv' /\ UNCHANGED accounts
      BY <1>0, <2>1, <2>2, <2>3, MoveTo, ConnKnown, OwnersAreLinked DEF Admitted, Looked, Nameless
    <3> QED
      BY <3>1 DEF KeepsAccount
  <2>4. CASE Move(c, "gone", conns[c].name, "google") /\ Unchanged1
    <3>1. LoginIInv' /\ UNCHANGED accounts
      BY <1>0, <2>1, <2>2, <2>4, MoveTo, ConnKnown DEF Admitted, Looked, Nameless, Prompts
    <3> QED
      BY <3>1 DEF KeepsAccount
  <2>5. CASE ~Taken(conns[c].name) /\ Create(c, conns[c].name, "google") /\ UNCHANGED players
    <3>1. LoginIInv' /\ \A x \in DOMAIN accounts : x # conns[c].name => x \in DOMAIN accounts' /\ accounts'[x] = accounts[x]
      BY <1>0, <2>1, <2>2, <2>5, CreateStep
    <3> QED
      BY <2>5, <3>1 DEF KeepsAccount, Taken
  <2> QED
    BY <1>2, <2>3, <2>4, <2>5 DEF CheckGoogle
<1> QED
  BY <1>1, <1>2

LEMMA LoginStep ==
    ASSUME LoginIInv, [LoginNext]_loginVars
    PROVE  /\ LoginIInv'
           /\ \A n \in DOMAIN accounts : \/ KeepsAccount(n) \/ \E d \in raced : CreatesAt(d, n)
                                         \/ n \in unsaved
<1>1. CASE \E c \in Clients : NamedStep(c) \/ AutoStep(c) \/ PromptStep(c) \/ GoneStep(c) \/ EnterStep(c)
  <2>1. LoginIInv' /\ UNCHANGED accounts
    BY <1>1, NamedSteps, AutoSteps, PromptSteps, GoneSteps, EnterSteps
  <2> QED
    BY <2>1 DEF KeepsAccount
<1>2. CASE \E c \in Clients : InsertFound(c) \/ CreatePassword(c) \/ CheckGoogle(c)
  BY <1>2, CreateSteps
<1>3. CASE \E c \in Clients, n \in LoginNames : AdminCreate(c, n) \/ AdminSetPassword(c, n)
  BY <1>3, AdminStep DEF KeepsAccount
<1>4. CASE RestartBroker
  BY <1>4, RestartBrokerStep DEF KeepsAccount
<1>5. CASE UNCHANGED loginVars
  <2>1. LoginTypeOK'
    BY <1>5 DEF LoginIInv, LoginTypeOK, loginVars
  <2>2. LoginIInv'
    BY <1>5, <2>1 DEF LoginIInv, ConnsNamed, ConnsProve, LinkedIsKept, FileIsMap, AdmittedHave, LateAreRaced,
         LoginsAreLinked, loginVars
  <2> QED
    BY <1>5, <2>2 DEF KeepsAccount, loginVars
<1> QED
  BY <1>1, <1>2, <1>3, <1>4, <1>5 DEF LoginNext, NamedStep, AutoStep, PromptStep, GoneStep, EnterStep

LEMMA LoginStart == LoginInit => LoginIInv
<1> SUFFICES ASSUME LoginInit PROVE LoginIInv
  OBVIOUS
<1>1. FreshConn \in ConnSet /\ FreshConn.at = "name"
  BY DEF FreshConn, ConnSet
<1>2. accounts = << >> /\ DOMAIN << >> = {} /\ saved = << >> /\ 0 \in 0 .. MaxSaveFails
  BY LoginBounds DEF LoginInit
<1>3. RecordTypes
  BY <1>2 DEF LoginInit, RecordTypes
<1>4. ConnTypes
  BY <1>1 DEF LoginInit, ConnTypes
<1>5. ConnsNamed /\ ConnsProve /\ AdmittedHave /\ LateAreRaced /\ LoginsAreLinked
  BY <1>1 DEF LoginInit, ConnsNamed, ConnsProve, AdmittedHave, LateAreRaced, LoginsAreLinked, Nameless, Admitted, Looked, Prompts
<1>6. LinkedIsKept /\ FileIsMap
  BY <1>2 DEF LoginInit, LinkedIsKept, FileIsMap
<1> QED
  BY <1>3, <1>4, <1>5, <1>6, LoginTypeParts DEF LoginIInv

\* Who is past the login is linked to the account, and the account is saved
\* unless its save failed.
LEMMA LoginHolds == LoginSpec => [](LoginTypeOK /\ LoginsAreLinked /\ AdmittedIsSaved)
<1>1. LoginIInv => LoginTypeOK /\ LoginsAreLinked /\ AdmittedIsSaved
  BY DEF LoginIInv, FileIsMap, AdmittedHave, AdmittedIsSaved
<1>2. LoginIInv /\ [LoginNext]_loginVars => LoginIInv'
  BY LoginStep
<1> QED
  BY <1>1, <1>2, LoginStart, PTL DEF LoginSpec

\* An account changes hands only when two raced for its name, and is lost only
\* when its save failed.
LEMMA AccountsAreKeptHolds == LoginSpec => AccountsAreKept
<1> DEFINE Kept == \A n \in DOMAIN accounts :
          \/ n \in DOMAIN accounts'
             /\ (\A how \in Providers : accounts'[n][how] = accounts[n][how])
             /\ (accounts[n]["password"] # NoClient
                    => accounts'[n]["password"] # NoClient)
          \/ \E c \in raced : conns[c].name = n /\ conns[c].at \in Looked
          \/ n \in unsaved
<1>1. LoginIInv /\ [LoginNext]_loginVars => LoginIInv' /\ [Kept]_loginVars
  BY LoginStep DEF KeepsAccount, CreatesAt
<1> QED
  BY <1>1, LoginStart, PTL DEF LoginSpec, AccountsAreKept

-----------------------------------------------------------------------------
(* The throttle.  First the two recursive functions it counts with.         *)

\* The shift of backoff_delay exists, starts at one and doubles.
LEMMA DoubledComputes ==
    /\ Doubled \in [0 .. 16 -> Nat]
    /\ Doubled[0] = 1
    /\ \A pow \in 1 .. 16 : Doubled[pow] = 2 * Doubled[pow - 1]
<1> DEFINE step == [i \in 1 .. 16 |-> [x \in Nat |-> 2 * x]]
<1>1. step \in [1 .. 16 -> [Nat -> Nat]] /\ \A i \in 1 .. 16, x \in Nat : step[i][x] = 2 * x
  OBVIOUS
<1>2. Doubled = CHOOSE f : f = [pow \in 0 .. 16 |-> IF pow = 0 THEN 1 ELSE 2 * f[pow - 1]]
  BY DEF Doubled
<1> HIDE DEF step
<1>3. PICK f : Iterates(f, step, 16, Nat, 1)
  BY <1>1, IteratesExist DEF Steps
<1>4. f \in [0 .. 16 -> Nat] /\ f[0] = 1 /\ \A i \in 1 .. 16 : f[i] = 2 * f[i - 1]
  <2>1. f \in [0 .. 16 -> Nat] /\ f[0] = 1 /\ \A i \in 1 .. 16 : f[i] = step[i][f[i - 1]]
    BY <1>3 DEF Iterates
  <2>2. \A i \in 1 .. 16 : f[i - 1] \in Nat
    BY <2>1
  <2> QED
    BY <1>1, <2>1, <2>2
<1>5. f = [pow \in 0 .. 16 |-> IF pow = 0 THEN 1 ELSE 2 * f[pow - 1]]
  BY <1>4
<1>6. Doubled = [pow \in 0 .. 16 |-> IF pow = 0 THEN 1 ELSE 2 * Doubled[pow - 1]]
  BY <1>2, <1>5
<1>7. Doubled[0] = 1 /\ \A i \in 1 .. 16 : Doubled[i] = 2 * Doubled[i - 1]
  BY <1>6
<1>8. \A i \in 0 .. 16 : f[i] = Doubled[i]
  <2>1. StayEqual(f, Doubled, 16)
    BY <1>4, <1>7 DEF StayEqual
  <2> QED
    BY <1>4, <1>7, <2>1, IteratesAgree
<1>9. Doubled \in [0 .. 16 -> Nat]
  <2>1. DOMAIN Doubled = 0 .. 16 /\ Doubled = [i \in DOMAIN Doubled |-> Doubled[i]]
    BY <1>6
  <2> QED
    BY <1>4, <1>8, <2>1
<1> QED
  BY <1>7, <1>9

LEMMA DoubledGrows ==
    \A i, j \in 0 .. 16 : i <= j => 1 <= Doubled[i] /\ Doubled[i] <= Doubled[j]
<1> DEFINE T == {j \in 0 .. 16 : \A i \in 0 .. j : 1 <= Doubled[i] /\ Doubled[i] <= Doubled[j]}
<1>1. 0 \in T
  BY DoubledComputes
<1>2. \A j \in 0 .. 15 : j \in T => j + 1 \in T
  <2> TAKE j \in 0 .. 15
  <2> HAVE j \in T
  <2>1. Doubled[j + 1] = 2 * Doubled[j] /\ Doubled[j] \in Nat /\ 1 <= Doubled[j]
    BY DoubledComputes
  <2>2. \A i \in 0 .. j + 1 : i \in 0 .. j \/ i = j + 1
    OBVIOUS
  <2> QED
    BY <2>1, <2>2, DoubledComputes
<1> HIDE DEF T
<1>3. 0 .. 16 \subseteq T
  BY <1>1, <1>2, InductionUpTo
<1> QED
  BY <1>3 DEF T

\* The delay is at least a second, at most the maximum, and never shrinks.
LEMMA BackoffDelayGrows ==
    /\ \A n \in Nat \ {0} : BackoffDelay(n) \in 1 .. BackoffMax
    /\ \A m, n \in Nat \ {0} : m <= n => BackoffDelay(m) <= BackoffDelay(n)
<1>1. \A n \in Nat \ {0} : Least1(n - 1, 16) \in 0 .. 16
  BY DEF Least1
<1>2. \A m, n \in Nat \ {0} : m <= n => Least1(m - 1, 16) <= Least1(n - 1, 16)
  BY DEF Least1
<1>3. BackoffMax \in Nat /\ BackoffMax >= 1
  BY ThrottleBounds
<1>4. \A i \in 0 .. 16 : Doubled[i] \in Nat /\ Doubled[i] >= 1
  BY DoubledComputes, DoubledGrows
<1>5. \A a, b \in Nat : a >= 1 /\ b >= 1 => Least1(a, b) \in 1 .. b
  BY DEF Least1
<1>6. \A a, b, c \in Nat : a <= b => Least1(a, c) <= Least1(b, c)
  BY DEF Least1
<1>7. ASSUME NEW n \in Nat \ {0} PROVE BackoffDelay(n) \in 1 .. BackoffMax
  BY <1>1, <1>3, <1>4, <1>5 DEF BackoffDelay
<1>8. ASSUME NEW m \in Nat \ {0}, NEW n \in Nat \ {0}, m <= n PROVE BackoffDelay(m) <= BackoffDelay(n)
  <2>1. Doubled[Least1(m - 1, 16)] <= Doubled[Least1(n - 1, 16)]
    BY <1>1, <1>2, <1>8, DoubledGrows
  <2> QED
    BY <1>1, <1>3, <1>4, <1>6, <2>1 DEF BackoffDelay
<1> QED
  BY <1>7, <1>8

-----------------------------------------------------------------------------
\* f computes Earliest up to n.
PromptCount == Cardinality(Guessers)
Failing(f, j) == IF j - PromptCount <= 0 THEN 0 ELSE f[j - PromptCount] + BackoffDelay(j - PromptCount) - 1
UpTo(f, n)    == f \in [0 .. n -> Nat] /\ \A j \in 0 .. n : f[j] = Failing(f, j)

LEMMA SomePrompts == PromptCount \in Nat /\ PromptCount >= 1
<1>1. PromptCount \in Nat /\ PromptCount # 0
  BY ThrottleBounds, FS_CardinalityType, FS_EmptySet DEF PromptCount
<1> QED
  BY <1>1

LEMMA FailingType ==
    ASSUME NEW n \in Nat, NEW f \in [0 .. n -> Nat], NEW j \in 0 .. n + 1
    PROVE  Failing(f, j) \in Nat
<1>1. CASE j - PromptCount <= 0
  BY <1>1 DEF Failing
<1>2. CASE j - PromptCount > 0
  <2>1. j - PromptCount \in 0 .. n /\ j - PromptCount \in Nat \ {0}
    BY <1>2, SomePrompts
  <2>2. BackoffDelay(j - PromptCount) \in Nat /\ BackoffDelay(j - PromptCount) >= 1
    BY <2>1, BackoffDelayGrows, ThrottleBounds
  <2> QED
    BY <1>2, <2>1, <2>2 DEF Failing
<1> QED
  BY <1>1, <1>2, SomePrompts

LEMMA UpToExists == \A n \in Nat : \E f : UpTo(f, n)
<1> DEFINE T == {n \in Nat : \E f : UpTo(f, n)}
<1>1. 0 \in T
  <2> DEFINE f == [j \in 0 .. 0 |-> 0]
  <2>1. f \in [0 .. 0 -> Nat] /\ \A j \in 0 .. 0 : f[j] = 0 /\ j - PromptCount <= 0
    BY SomePrompts
  <2> HIDE DEF f
  <2>2. UpTo(f, 0)
    BY <2>1 DEF UpTo, Failing
  <2> QED
    BY <2>2
<1>2. \A n \in Nat : n \in T => n + 1 \in T
  <2> TAKE n \in Nat
  <2> HAVE n \in T
  <2>1. PICK f : UpTo(f, n)
    OBVIOUS
  <2> DEFINE g == [j \in 0 .. n + 1 |-> IF j = n + 1 THEN Failing(f, j) ELSE f[j]]
  <2>2. f \in [0 .. n -> Nat] /\ \A j \in 0 .. n : f[j] = Failing(f, j)
    BY <2>1 DEF UpTo
  <2>3. Failing(f, n + 1) \in Nat
    BY <2>2, FailingType
  <2>4. \A j \in 0 .. n + 1 : j \in 0 .. n \/ j = n + 1
    OBVIOUS
  <2>5. g \in [0 .. n + 1 -> Nat]
    BY <2>2, <2>3, <2>4
  <2>6. g[n + 1] = Failing(f, n + 1) /\ \A j \in 0 .. n : g[j] = f[j]
    OBVIOUS
  <2> HIDE DEF g
  <2>7. \A j \in 0 .. n + 1 : Failing(g, j) = Failing(f, j)
    <3> TAKE j \in 0 .. n + 1
    <3>1. CASE j - PromptCount <= 0
      BY <3>1 DEF Failing
    <3>2. CASE j - PromptCount > 0
      <4>1. j - PromptCount \in 0 .. n
        BY <3>2, SomePrompts
      <4> QED
        BY <2>6, <4>1 DEF Failing
    <3> QED
      BY <3>1, <3>2, SomePrompts
  <2>8. \A j \in 0 .. n + 1 : g[j] = Failing(g, j)
    BY <2>2, <2>4, <2>6, <2>7
  <2>9. UpTo(g, n + 1)
    BY <2>5, <2>8 DEF UpTo
  <2> QED
    BY <2>9
<1> HIDE DEF T
<1>3. Nat \subseteq T
  BY <1>1, <1>2, Induction
<1> QED
  BY <1>3 DEF T

LEMMA UpToAgree ==
    ASSUME NEW m \in Nat, NEW n \in Nat, NEW f, NEW g, UpTo(f, m), UpTo(g, n), m <= n
    PROVE  \A j \in 0 .. m : f[j] = g[j]
<1> DEFINE T == {k \in 0 .. m : \A j \in 0 .. k : f[j] = g[j]}
<1>0. \A j \in 0 .. m : f[j] = Failing(f, j) /\ g[j] = Failing(g, j)
  BY DEF UpTo
<1>1. 0 \in T
  <2>1. Failing(f, 0) = 0 /\ Failing(g, 0) = 0
    BY SomePrompts DEF Failing
  <2> QED
    BY <1>0, <2>1
<1>2. \A k \in 0 .. m - 1 : k \in T => k + 1 \in T
  <2> TAKE k \in 0 .. m - 1
  <2> HAVE k \in T
  <2>1. Failing(f, k + 1) = Failing(g, k + 1)
    <3>1. CASE k + 1 - PromptCount <= 0
      BY <3>1, SomePrompts DEF Failing
    <3>2. CASE k + 1 - PromptCount > 0
      <4>1. k + 1 - PromptCount \in 0 .. k
        BY <3>2, SomePrompts
      <4>2. f[k + 1 - PromptCount] = g[k + 1 - PromptCount]
        BY <4>1
      <4> QED
        BY <3>2, <4>2, SomePrompts DEF Failing
    <3> QED
      BY <3>1, <3>2, SomePrompts
  <2>2. \A j \in 0 .. k + 1 : j \in 0 .. k \/ j = k + 1
    OBVIOUS
  <2>3. k + 1 \in 0 .. m
    OBVIOUS
  <2>4. f[k + 1] = g[k + 1]
    BY <1>0, <2>1, <2>3
  <2> QED
    BY <2>2, <2>3, <2>4
<1> HIDE DEF T
<1>3. 0 .. m \subseteq T
  BY <1>1, <1>2, InductionUpTo
<1> QED
  BY <1>3 DEF T

\* Earliest exists and satisfies its equation.
LEMMA EarliestComputes ==
    Earliest \in [Nat -> Nat] /\ \A j \in Nat : Earliest[j] = Failing(Earliest, j)
<1> DEFINE F(n) == CHOOSE f : UpTo(f, n)
           E == [j \in Nat |-> F(j)[j]]
<1>1. \A n \in Nat : UpTo(F(n), n)
  BY UpToExists
<1> HIDE DEF F
<1>2. \A m, n \in Nat : m <= n => F(m)[m] = F(n)[m]
  <2> SUFFICES ASSUME NEW m \in Nat, NEW n \in Nat, m <= n PROVE F(m)[m] = F(n)[m]
    OBVIOUS
  <2>1. UpTo(F(m), m) /\ UpTo(F(n), n)
    BY <1>1
  <2>2. \A j \in 0 .. m : F(m)[j] = F(n)[j]
    BY <2>1, UpToAgree
  <2> QED
    BY <2>2
<1>3. \A j \in Nat : E[j] = F(j)[j] /\ E[j] \in Nat /\ F(j)[j] = Failing(F(j), j)
  BY <1>1 DEF UpTo
<1>4. E \in [Nat -> Nat]
  BY <1>3
<1> HIDE DEF E
<1>5. \A j \in Nat : Failing(F(j), j) = Failing(E, j)
  <2> TAKE j \in Nat
  <2>1. CASE j - PromptCount <= 0
    BY <2>1 DEF Failing
  <2>2. CASE j - PromptCount > 0
    <3>1. j - PromptCount \in Nat /\ j - PromptCount <= j
      BY <2>2, SomePrompts
    <3>2. F(j)[j - PromptCount] = E[j - PromptCount]
      BY <1>2, <1>3, <3>1
    <3> QED
      BY <3>2 DEF Failing
  <2> QED
    BY <2>1, <2>2, SomePrompts
<1>6. \A j \in Nat : E[j] = Failing(E, j)
  BY <1>3, <1>5
<1>7. E = [j \in Nat |-> Failing(E, j)]
  BY <1>4, <1>6
<1>8. Earliest = CHOOSE f : f = [j \in Nat |-> Failing(f, j)]
  BY DEF Earliest, Failing, PromptCount
<1>9. Earliest = [j \in Nat |-> Failing(Earliest, j)]
  BY <1>7, <1>8
<1>10. \A j \in Nat : Earliest[j] = Failing(Earliest, j)
  BY <1>9
<1>11. \A j \in Nat : Earliest[j] = E[j]
  <2> TAKE j \in Nat
  <2> DEFINE T == {k \in Nat : \A i \in 0 .. k : Earliest[i] = E[i]}
  <2>1. 0 \in T
    <3>1. Failing(Earliest, 0) = 0 /\ Failing(E, 0) = 0
      BY SomePrompts DEF Failing
    <3> QED
      BY <1>6, <1>10, <3>1
  <2>2. \A k \in Nat : k \in T => k + 1 \in T
    <3> TAKE k \in Nat
    <3> HAVE k \in T
    <3>1. Failing(Earliest, k + 1) = Failing(E, k + 1)
      <4>1. CASE k + 1 - PromptCount <= 0
        BY <4>1, SomePrompts DEF Failing
      <4>2. CASE k + 1 - PromptCount > 0
        <5>1. k + 1 - PromptCount \in 0 .. k
          BY <4>2, SomePrompts
        <5>2. Earliest[k + 1 - PromptCount] = E[k + 1 - PromptCount]
          BY <5>1
        <5> QED
          BY <4>2, <5>2, SomePrompts DEF Failing
      <4> QED
        BY <4>1, <4>2, SomePrompts
    <3>2. \A i \in 0 .. k + 1 : i \in 0 .. k \/ i = k + 1
      OBVIOUS
    <3>3. Earliest[k + 1] = E[k + 1]
      BY <1>6, <1>10, <3>1
    <3> QED
      BY <3>2, <3>3
  <2> HIDE DEF T
  <2>3. Nat \subseteq T
    BY <2>1, <2>2, Induction
  <2> QED
    BY <2>3 DEF T
<1>12. Earliest \in [Nat -> Nat]
  BY <1>4, <1>9, <1>11
<1> QED
  BY <1>10, <1>12

\* Later failures are not reported earlier.
LEMMA EarliestGrows == \A i, j \in Nat : i <= j => Earliest[i] <= Earliest[j]
<1> DEFINE T == {k \in Nat : \A i, j \in 0 .. k : i <= j => Earliest[i] <= Earliest[j]}
<1>0. \A j \in Nat : Earliest[j] \in Nat
  BY EarliestComputes
<1>1. 0 \in T
  BY <1>0
<1>2. \A k \in Nat : k \in T => k + 1 \in T
  <2> TAKE k \in Nat
  <2> HAVE k \in T
  <2>1. ASSUME NEW i \in 0 .. k PROVE Earliest[i] <= Earliest[k + 1]
    <3>0. Earliest[i] = Failing(Earliest, i) /\ Earliest[k + 1] = Failing(Earliest, k + 1)
      BY EarliestComputes
    <3>1. CASE i - PromptCount <= 0
      <4>1. Earliest[i] = 0
        BY <3>0, <3>1 DEF Failing
      <4> QED
        BY <1>0, <4>1
    <3>2. CASE i - PromptCount > 0
      <4> DEFINE a == i - PromptCount
                 b == k + 1 - PromptCount
      <4>1. a \in Nat \ {0} /\ b \in Nat \ {0} /\ a <= b /\ a \in 0 .. k /\ b \in 0 .. k
        BY <3>2, SomePrompts
      <4>2. Earliest[a] <= Earliest[b] /\ Earliest[a] \in Nat /\ Earliest[b] \in Nat
        BY <1>0, <4>1
      <4>3. /\ BackoffDelay(a) <= BackoffDelay(b)
            /\ BackoffDelay(a) \in 1 .. BackoffMax /\ BackoffDelay(b) \in 1 .. BackoffMax
        BY <4>1, BackoffDelayGrows
      <4>4. Earliest[i] = Earliest[a] + BackoffDelay(a) - 1 /\ Earliest[k + 1] = Earliest[b] + BackoffDelay(b) - 1
        BY <3>0, <4>1, SomePrompts DEF Failing
      <4> HIDE DEF a, b
      <4> QED
        BY <4>2, <4>3, <4>4, ThrottleBounds
    <3> QED
      BY <3>1, <3>2, SomePrompts
  <2>2. \A i \in 0 .. k + 1 : i \in 0 .. k \/ i = k + 1
    OBVIOUS
  <2> QED
    BY <1>0, <2>1, <2>2
<1> HIDE DEF T
<1>3. Nat \subseteq T
  BY <1>1, <1>2, Induction
<1> QED
  <2> SUFFICES ASSUME NEW i \in Nat, NEW j \in Nat, i <= j PROVE Earliest[i] <= Earliest[j]
    OBVIOUS
  <2>1. j \in T
    BY <1>3
  <2> QED
    BY <2>1 DEF T

\* What a guess that escaped the delay may find: with fewer prompts out than
\* there are, the next failure is as late as the delay of this one allows.
LEMMA EarliestNext ==
    ASSUME NEW n \in Nat \ {0}, NEW out \in Nat, out < PromptCount
    PROVE  Earliest[n + out + 1] <= Earliest[n] + BackoffDelay(n) - 1
<1> DEFINE known == n + out + 1 - PromptCount
<1>1. /\ Earliest[n + out + 1] = Failing(Earliest, n + out + 1)
      /\ Earliest[n] \in Nat
      /\ BackoffDelay(n) \in Nat /\ BackoffDelay(n) >= 1
  BY EarliestComputes, BackoffDelayGrows, ThrottleBounds
<1>2. CASE known <= 0
  <2>1. Earliest[n + out + 1] = 0
    BY <1>1, <1>2, SomePrompts DEF Failing
  <2> QED
    BY <1>1, <2>1
<1>3. CASE known > 0
  <2>1. known \in Nat \ {0} /\ known <= n
    BY <1>3, SomePrompts
  <2>2. Earliest[known] <= Earliest[n] /\ Earliest[known] \in Nat
    BY <2>1, EarliestGrows, EarliestComputes
  <2>3. BackoffDelay(known) <= BackoffDelay(n) /\ BackoffDelay(known) \in Nat
    BY <2>1, BackoffDelayGrows, ThrottleBounds
  <2>4. Earliest[n + out + 1] = Earliest[known] + BackoffDelay(known) - 1
    BY <1>1, <1>3, SomePrompts DEF Failing
  <2> HIDE DEF known
  <2> QED
    BY <1>1, <2>2, <2>3, <2>4
<1> QED
  BY <1>2, <1>3, SomePrompts

\* No failure is late while every prompt may still have its first guess out.
LEMMA EarliestStarts == \A j \in Nat : j <= PromptCount => Earliest[j] = 0
<1> TAKE j \in Nat
<1> HAVE j <= PromptCount
<1>1. Earliest[j] = Failing(Earliest, j) /\ j - PromptCount <= 0
  BY EarliestComputes, SomePrompts
<1> QED
  BY <1>1 DEF Failing

-----------------------------------------------------------------------------
(* One table of the throttle.  What it remembers of a key counts together   *)
(* with the guesses that are out for it: each of those passed the delay, or *)
(* was out before the last failure was reported.                            *)

Entry == [failures : Nat \ {0}, last : 0 .. MaxSeconds, next : Nat]

\* The prompts that verify a guess for key k.
GuessesFor(of, p, k) == {c \in Guessers : of[c] = k /\ p[c] # None1}

EntryFits(e, out, s, now) ==
    /\ e.next = e.last + BackoffDelay(e.failures)
    /\ e.last - s >= Earliest[e.failures] - 1
    /\ now - s >= Earliest[e.failures + out]

TableFits(table, of, p, s, now) ==
    /\ table \in [DOMAIN table -> Entry] /\ DOMAIN table \subseteq Keys1
    /\ \A k \in DOMAIN table :
           EntryFits(table[k], Cardinality(GuessesFor(of, p, k)), s[k], now)

\* The prompts and the history, at a time.
PromptsFit(p, s, now) ==
    /\ now \in 0 .. MaxSeconds
    /\ p \in [Guessers -> -1 .. MaxSeconds] /\ s \in [Keys1 -> 0 .. MaxSeconds]
    /\ \A c \in Guessers : p[c] \in {None1, now - 1, now}
    /\ \A k \in Keys1 : s[k] <= now

LEMMA GuessesCount ==
    ASSUME NEW of, NEW p, NEW k
    PROVE  /\ IsFiniteSet(GuessesFor(of, p, k))
           /\ Cardinality(GuessesFor(of, p, k)) \in Nat
           /\ Cardinality(GuessesFor(of, p, k)) <= PromptCount
<1>1. GuessesFor(of, p, k) \subseteq Guessers /\ IsFiniteSet(Guessers)
  BY ThrottleBounds DEF GuessesFor
<1> HIDE DEF GuessesFor
<1> QED
  BY <1>1, FS_Subset, FS_CardinalityType DEF PromptCount

\* The guess of c is out in p and not in q: one guess fewer for its key.
OutInFirst(p, q, c) ==
    /\ p[c] # None1 /\ q[c] = None1
    /\ \A d \in Guessers \ {c} : p[d] = q[d]

OneFewer(of, p, q, c) ==
    \A k : /\ of[c] = k => Cardinality(GuessesFor(of, p, k)) = Cardinality(GuessesFor(of, q, k)) + 1
           /\ of[c] # k => Cardinality(GuessesFor(of, p, k)) = Cardinality(GuessesFor(of, q, k))

LEMMA GuessesDiffer ==
    ASSUME NEW of, NEW p, NEW q, NEW c \in Guessers, OutInFirst(p, q, c)
    PROVE  OneFewer(of, p, q, c)
<1> SUFFICES ASSUME NEW k
    PROVE /\ of[c] = k => Cardinality(GuessesFor(of, p, k)) = Cardinality(GuessesFor(of, q, k)) + 1
          /\ of[c] # k => Cardinality(GuessesFor(of, p, k)) = Cardinality(GuessesFor(of, q, k))
  BY DEF OneFewer
<1>1. c \notin GuessesFor(of, q, k)
  BY DEF GuessesFor, OutInFirst
<1>2. CASE of[c] = k
  <2>1. GuessesFor(of, p, k) = GuessesFor(of, q, k) \cup {c}
    BY <1>2 DEF GuessesFor, OutInFirst
  <2>2. Cardinality(GuessesFor(of, q, k) \cup {c}) = Cardinality(GuessesFor(of, q, k)) + 1
    BY <1>1, GuessesCount, FS_AddElement, Zenon
  <2> QED
    BY <1>2, <2>1, <2>2
<1>3. CASE of[c] # k
  <2>1. GuessesFor(of, p, k) = GuessesFor(of, q, k)
    BY <1>3 DEF GuessesFor, OutInFirst
  <2> QED
    BY <1>3, <2>1
<1> QED
  BY <1>2, <1>3

\* Pruning keeps what it keeps.
LEMMA KeepFits ==
    ASSUME NEW table, NEW of, NEW p, NEW s, NEW now, NEW then,
           TableFits(table, of, p, s, now)
    PROVE  /\ TableFits(Keep(table, then), of, p, s, now)
           /\ DOMAIN Keep(table, then) \subseteq DOMAIN table
           /\ \A k \in DOMAIN Keep(table, then) : Keep(table, then)[k] = table[k]
<1> DEFINE kept == {k \in DOMAIN table : then - table[k].last <= ResetAfter}
<1>1. Keep(table, then) = << >> \/ Keep(table, then) = [k \in kept |-> table[k]]
  BY DEF Keep
<1>2. /\ DOMAIN Keep(table, then) \subseteq DOMAIN table
      /\ \A k \in DOMAIN Keep(table, then) : Keep(table, then)[k] = table[k]
      /\ Keep(table, then) = [k \in DOMAIN Keep(table, then) |-> Keep(table, then)[k]]
  <2>1. CASE Keep(table, then) = << >>
    <3>1. DOMAIN << >> = {} /\ << >> = [k \in {} |-> << >>[k]]
      OBVIOUS
    <3> QED
      BY <2>1, <3>1
  <2>2. CASE Keep(table, then) = [k \in kept |-> table[k]]
    BY <2>2
  <2> QED
    BY <1>1, <2>1, <2>2
<1>3. Keep(table, then) \in [DOMAIN Keep(table, then) -> Entry]
  BY <1>2 DEF TableFits
<1> QED
  BY <1>2, <1>3 DEF TableFits

\* A guess that no delay holds back.
LEMMA BeginFits ==
    ASSUME NEW table, NEW of, NEW p, NEW s, NEW now, NEW c \in Guessers,
           PromptsFit(p, s, now), TableFits(table, of, p, s, now),
           p[c] = None1, ~Waits(table, of[c], now)
    PROVE  TableFits(table, of, [p EXCEPT ![c] = now], s, now)
<1> DEFINE q == [p EXCEPT ![c] = now]
<1>1. /\ p \in [Guessers -> -1 .. MaxSeconds] /\ now \in 0 .. MaxSeconds
      /\ s \in [Keys1 -> 0 .. MaxSeconds]
  BY DEF PromptsFit
<1>2. SUFFICES ASSUME NEW k \in DOMAIN table
      PROVE EntryFits(table[k], Cardinality(GuessesFor(of, q, k)), s[k], now)
  BY DEF TableFits
<1>3. /\ EntryFits(table[k], Cardinality(GuessesFor(of, p, k)), s[k], now)
      /\ table[k] \in Entry /\ s[k] \in 0 .. MaxSeconds
  BY <1>1 DEF TableFits
<1>4. /\ of[c] = k => Cardinality(GuessesFor(of, q, k)) = Cardinality(GuessesFor(of, p, k)) + 1
      /\ of[c] # k => Cardinality(GuessesFor(of, q, k)) = Cardinality(GuessesFor(of, p, k))
  <2>1. OutInFirst(q, p, c)
    BY <1>1, ThrottleBounds DEF OutInFirst, None1
  <2> HIDE DEF q
  <2>2. OneFewer(of, q, p, c)
    BY <2>1, GuessesDiffer
  <2> QED
    BY <2>2 DEF OneFewer
<1> DEFINE e == table[k]
           out == Cardinality(GuessesFor(of, p, k))
<1>5. e.failures \in Nat \ {0} /\ e.last \in Nat /\ e.next \in Nat /\ out \in Nat
  BY <1>3, GuessesCount, ThrottleBounds DEF Entry
<1>6. CASE of[c] # k
  BY <1>3, <1>4, <1>5, <1>6
<1>7. CASE of[c] = k
  <2>1. now >= e.next
    BY <1>1, <1>5, <1>7, ThrottleBounds DEF Waits
  <2>2. Cardinality(GuessesFor(of, q, k)) = out + 1 /\ out < PromptCount
    BY <1>4, <1>5, <1>7, GuessesCount, SomePrompts
  <2>3. Earliest[e.failures + out + 1] <= Earliest[e.failures] + BackoffDelay(e.failures) - 1
    BY <1>5, <2>2, EarliestNext
  <2>4. /\ Earliest[e.failures + out + 1] \in Nat /\ Earliest[e.failures] \in Nat
        /\ BackoffDelay(e.failures) \in Nat
    <3>1. e.failures + out + 1 \in Nat /\ e.failures \in Nat \ {0}
      BY <1>5
    <3> HIDE DEF e, out
    <3>2. Earliest[e.failures + out + 1] \in Nat /\ Earliest[e.failures] \in Nat
      BY <3>1, EarliestComputes
    <3>3. BackoffDelay(e.failures) \in Nat
      BY <3>1, BackoffDelayGrows, ThrottleBounds
    <3> QED
      BY <3>2, <3>3
  <2>5. e.next = e.last + BackoffDelay(e.failures) /\ e.last - s[k] >= Earliest[e.failures] - 1
    BY <1>3 DEF EntryFits
  <2>6. now - s[k] >= Earliest[e.failures + out + 1]
    <3> HIDE DEF e, out
    <3> QED
      BY <1>1, <1>3, <1>5, <2>1, <2>3, <2>4, <2>5, ThrottleBounds
  <2>7. e.failures + (out + 1) = e.failures + out + 1
    BY <1>5
  <2> HIDE DEF out
  <2> QED
    BY <2>2, <2>5, <2>6, <2>7 DEF EntryFits
<1> QED
  BY <1>6, <1>7

\* A wrong guess: the entry counts one more, the prompts one less.
LEMMA FailFits ==
    ASSUME NEW table, NEW of, NEW p, NEW s, NEW now, NEW c \in Guessers, of[c] \in Keys1,
           PromptsFit(p, s, now), TableFits(table, of, p, s, now), p[c] # None1,
           NEW K, K \cap DOMAIN table = {},
           NEW z, z = [k \in Keys1 |-> IF k \in K THEN p[c] ELSE s[k]],
           NEW q, q = [p EXCEPT ![c] = None1]
    PROVE  TableFits(Punish(table, of[c], p[c]), of, q, z, now)
<1>1. PICK t : t = p[c]
  OBVIOUS
<1>2. /\ p \in [Guessers -> -1 .. MaxSeconds] /\ now \in 0 .. MaxSeconds
      /\ s \in [Keys1 -> 0 .. MaxSeconds] /\ t \in {now - 1, now}
      /\ \A k \in Keys1 : s[k] <= now
  BY <1>1 DEF PromptsFit
<1>3. t \in 0 .. MaxSeconds
  <2>1. t \in -1 .. MaxSeconds /\ t # -1
    BY <1>1, <1>2 DEF None1
  <2> QED
    BY <2>1, ThrottleBounds
<1>4. \A k \in Keys1 : z[k] = (IF k \in K THEN t ELSE s[k]) /\ z[k] \in 0 .. MaxSeconds
  BY <1>1, <1>2, <1>3
<1> DEFINE key == of[c]
           n == IF key \in DOMAIN table THEN table[key].failures + 1 ELSE 1
           e == [failures |-> n, last |-> t, next |-> t + BackoffDelay(n)]
           after == Punish(table, key, t)
<1>5. \A k \in DOMAIN table : table[k] \in Entry /\ k \in Keys1 /\ k \notin K
  BY DEF TableFits
<1>6. n \in Nat \ {0}
  <2>1. CASE key \in DOMAIN table
    <3>1. table[key].failures \in Nat \ {0}
      BY <1>5, <2>1 DEF Entry
    <3> QED
      BY <2>1, <3>1
  <2>2. CASE key \notin DOMAIN table
    BY <2>2
  <2> QED
    BY <2>1, <2>2
<1>7. BackoffDelay(n) \in Nat
  <2> HIDE DEF n
  <2> QED
    BY <1>6, BackoffDelayGrows, ThrottleBounds
<1>8. e \in Entry
  <2> HIDE DEF n
  <2> QED
    BY <1>3, <1>6, <1>7, ThrottleBounds DEF Entry
<1>9. /\ DOMAIN after = DOMAIN table \cup {key} /\ after[key] = e
      /\ \A k \in DOMAIN table : k # key => after[k] = table[k]
      /\ after = [k \in DOMAIN after |-> after[k]]
  BY DEF Punish
<1>0. OneFewer(of, p, q, c)
  <2>1. OutInFirst(p, q, c)
    BY <1>2 DEF OutInFirst
  <2> QED
    BY <2>1, GuessesDiffer
<1>10. Cardinality(GuessesFor(of, p, key)) = Cardinality(GuessesFor(of, q, key)) + 1
  BY <1>0 DEF OneFewer
<1> DEFINE out == Cardinality(GuessesFor(of, q, key))
<1>11. out \in Nat /\ out + 1 <= PromptCount
  <2>1. out \in Nat
    BY GuessesCount
  <2>2. Cardinality(GuessesFor(of, p, key)) <= PromptCount
    BY GuessesCount
  <2> QED
    BY <1>10, <2>1, <2>2
<1> HIDE DEF after
<1>12. EntryFits(e, out, z[key], now)
  <2> HIDE DEF out
  <2>0. e.failures = n /\ e.last = t /\ e.next = t + BackoffDelay(n)
    OBVIOUS
  <2>1. CASE key \in DOMAIN table
    <3> DEFINE m == table[key].failures
    <3>1. n = m + 1 /\ z[key] = s[key] /\ s[key] \in Nat
      BY <1>2, <1>4, <1>5, <2>1, ThrottleBounds
    <3>2. m \in Nat \ {0}
      BY <1>5, <2>1 DEF Entry
    <3>3. now - s[key] >= Earliest[m + Cardinality(GuessesFor(of, p, key))]
      BY <2>1 DEF TableFits, EntryFits
    <3> HIDE DEF m, n, e, key
    <3>4. m + Cardinality(GuessesFor(of, p, key)) = n + out
      BY <1>10, <1>11, <3>1, <3>2 DEF out
    <3>5. now - s[key] >= Earliest[n + out]
      BY <3>3, <3>4
    <3>6. Earliest[n] <= Earliest[n + out] /\ Earliest[n] \in Nat /\ Earliest[n + out] \in Nat
      BY <1>6, <1>11, EarliestGrows, EarliestComputes
    <3>7. t - s[key] >= Earliest[n] - 1
      BY <1>2, <3>1, <3>5, <3>6
    <3> QED
      BY <2>0, <3>1, <3>5, <3>7 DEF EntryFits
  <2>2. CASE key \notin DOMAIN table
    <3>1. n = 1
      BY <2>2
    <3>2. z[key] \in {t, s[key]} /\ s[key] <= now /\ s[key] \in Nat
      BY <1>2, <1>4, ThrottleBounds
    <3> HIDE DEF n, e, key
    <3>3. Earliest[n] = 0 /\ Earliest[n + out] = 0
      BY <1>11, <3>1, EarliestStarts, SomePrompts
    <3>4. now - z[key] >= 0 /\ t - z[key] >= -1
      BY <1>2, <3>2
    <3> QED
      BY <2>0, <3>3, <3>4 DEF EntryFits
  <2> QED
    BY <2>1, <2>2
<1>13. ASSUME NEW k \in DOMAIN table, k # key
       PROVE EntryFits(after[k], Cardinality(GuessesFor(of, q, k)), z[k], now)
  <2>1. EntryFits(table[k], Cardinality(GuessesFor(of, p, k)), s[k], now)
    BY DEF TableFits
  <2>2. after[k] = table[k] /\ z[k] = s[k]
    BY <1>4, <1>5, <1>9, <1>13
  <2>3. Cardinality(GuessesFor(of, q, k)) = Cardinality(GuessesFor(of, p, k))
    BY <1>0, <1>13 DEF OneFewer
  <2> QED
    BY <2>1, <2>2, <2>3
<1>14. after \in [DOMAIN after -> Entry] /\ DOMAIN after \subseteq Keys1
  <2> HIDE DEF e
  <2> QED
    BY <1>5, <1>8, <1>9
<1>15. TableFits(after, of, q, z, now)
  <2> HIDE DEF e, key
  <2> QED
    BY <1>9, <1>12, <1>13, <1>14 DEF TableFits, out
<1> QED
  BY <1>1, <1>15 DEF after

\* The right guess: the entry goes, and a prompt.
LEMMA RightFits ==
    ASSUME NEW table, NEW of, NEW p, NEW s, NEW now, NEW c \in Guessers,
           PromptsFit(p, s, now), TableFits(table, of, p, s, now), p[c] # None1,
           NEW q, q = [p EXCEPT ![c] = None1]
    PROVE  TableFits(Forgive(table, of[c]), of, q, s, now)
<1>0. OneFewer(of, p, q, c)
  <2>1. OutInFirst(p, q, c)
    BY DEF OutInFirst, PromptsFit
  <2> QED
    BY <2>1, GuessesDiffer
<1> DEFINE after == Forgive(table, of[c])
<1>2. /\ DOMAIN after = DOMAIN table \ {of[c]} /\ after = [k \in DOMAIN after |-> after[k]]
      /\ \A k \in DOMAIN after : after[k] = table[k]
  BY DEF Forgive
<1> HIDE DEF after
<1>3. \A k \in DOMAIN after :
          /\ after[k] \in Entry /\ k \in Keys1
          /\ EntryFits(after[k], Cardinality(GuessesFor(of, p, k)), s[k], now)
  BY <1>2 DEF TableFits
<1>4. ASSUME NEW k \in DOMAIN after
      PROVE EntryFits(after[k], Cardinality(GuessesFor(of, q, k)), s[k], now)
  <2>1. Cardinality(GuessesFor(of, q, k)) = Cardinality(GuessesFor(of, p, k))
    <3>1. of[c] # k
      BY <1>2
    <3> QED
      BY <1>0, <3>1 DEF OneFewer
  <2> QED
    BY <1>3, <2>1
<1>5. after \in [DOMAIN after -> Entry]
  BY <1>2, <1>3
<1>6. TableFits(after, of, q, s, now)
  BY <1>3, <1>4, <1>5 DEF TableFits
<1> QED
  BY <1>6 DEF after

\* A second more.
LEMMA SecondFits ==
    ASSUME NEW table, NEW of, NEW p, NEW s, NEW now,
           PromptsFit(p, s, now), TableFits(table, of, p, s, now)
    PROVE  TableFits(table, of, p, s, now + 1)
<1>1. SUFFICES ASSUME NEW k \in DOMAIN table
      PROVE EntryFits(table[k], Cardinality(GuessesFor(of, p, k)), s[k], now + 1)
  BY DEF TableFits
<1> DEFINE e == table[k]
           out == Cardinality(GuessesFor(of, p, k))
<1>2. EntryFits(e, out, s[k], now) /\ e \in Entry /\ k \in Keys1
  BY DEF TableFits
<1>3. s[k] \in 0 .. MaxSeconds /\ now \in 0 .. MaxSeconds
  BY <1>2 DEF PromptsFit
<1>4. out \in Nat /\ e.failures \in Nat
  BY <1>2, GuessesCount DEF Entry
<1> HIDE DEF e, out
<1>5. Earliest[e.failures + out] \in Nat
  BY <1>4, EarliestComputes
<1>6. now + 1 - s[k] >= Earliest[e.failures + out]
  BY <1>2, <1>3, <1>5, ThrottleBounds DEF EntryFits
<1>7. EntryFits(e, out, s[k], now + 1)
  BY <1>2, <1>3, <1>4, <1>5, <1>6 DEF EntryFits
<1> QED
  BY <1>7 DEF e, out

-----------------------------------------------------------------------------
\* Both tables fit.
ThrottleIInv ==
    /\ PromptsFit(prompt, since, second)
    /\ TableFits(byIp, IpOf, prompt, since, second)
    /\ TableFits(byName, NameOf, prompt, since, second)

LEMMA ThrottleStart == ThrottleInit => ThrottleIInv
<1> SUFFICES ASSUME ThrottleInit PROVE ThrottleIInv
  OBVIOUS
<1>1. PromptsFit(prompt, since, second)
  <2>1. -1 \in -1 .. MaxSeconds /\ 0 \in 0 .. MaxSeconds
    BY ThrottleBounds
  <2> QED
    BY <2>1 DEF ThrottleInit, PromptsFit, None1
<1>2. DOMAIN << >> = {} /\ << >> \in [{} -> Entry]
  OBVIOUS
<1> QED
  BY <1>1, <1>2 DEF ThrottleInit, ThrottleIInv, TableFits

LEMMA AttemptStep ==
    ASSUME ThrottleIInv, NEW c \in Guessers, BeginAttempt(c)
    PROVE  ThrottleIInv'
<1>1. /\ byIp' = Keep(byIp, second) /\ byName' = Keep(byName, second)
      /\ second' = second /\ since' = since /\ prompt[c] = None1
  BY DEF BeginAttempt
<1>2. /\ PromptsFit(prompt, since, second)
      /\ TableFits(byIp', IpOf, prompt, since, second)
      /\ TableFits(byName', NameOf, prompt, since, second)
  BY <1>1, KeepFits DEF ThrottleIInv
<1>3. CASE prompt' = prompt
  BY <1>1, <1>2, <1>3 DEF ThrottleIInv
<1>4. CASE prompt' # prompt
  <2>1. /\ prompt' = [prompt EXCEPT ![c] = second]
        /\ ~Waits(byIp', IpOf[c], second) /\ ~Waits(byName', NameOf[c], second)
    BY <1>4 DEF BeginAttempt
  <2>2. /\ TableFits(byIp', IpOf, prompt', since, second)
        /\ TableFits(byName', NameOf, prompt', since, second)
    BY <1>1, <1>2, <2>1, BeginFits
  <2>3. PromptsFit(prompt', since, second)
    <3>1. second \in -1 .. MaxSeconds
      BY <1>2, ThrottleBounds DEF PromptsFit
    <3> QED
      BY <1>2, <2>1, <3>1 DEF PromptsFit
  <2> QED
    BY <1>1, <2>2, <2>3 DEF ThrottleIInv
<1> QED
  BY <1>3, <1>4

LEMMA FailStep ==
    ASSUME ThrottleIInv, NEW c \in Guessers, GuessFails(c)
    PROVE  ThrottleIInv'
<1> DEFINE t == prompt[c]
           ips == Keep(byIp, t)
           names == Keep(byName, t)
           K == {IpOf[c], NameOf[c]} \ (DOMAIN ips \cup DOMAIN names)
<1>1. /\ t # None1 /\ prompt' = [prompt EXCEPT ![c] = None1] /\ second' = second
      /\ byIp' = Punish(ips, IpOf[c], t) /\ byName' = Punish(names, NameOf[c], t)
      /\ since' = [k \in Keys1 |-> IF k \in K THEN t ELSE since[k]]
  BY DEF GuessFails, NoteSince
<1>2. /\ PromptsFit(prompt, since, second)
      /\ TableFits(ips, IpOf, prompt, since, second)
      /\ TableFits(names, NameOf, prompt, since, second)
  BY KeepFits DEF ThrottleIInv
<1>3. IpOf[c] \in Keys1 /\ NameOf[c] \in Keys1
  BY DEF Keys1
<1>4. K \cap DOMAIN ips = {} /\ K \cap DOMAIN names = {}
  OBVIOUS
<1> HIDE DEF ips, names, K
<1>5. TableFits(byIp', IpOf, prompt', since', second)
  BY <1>1, <1>2, <1>3, <1>4, FailFits
<1>6. TableFits(byName', NameOf, prompt', since', second)
  BY <1>1, <1>2, <1>3, <1>4, FailFits
<1>7. PromptsFit(prompt', since', second)
  <2>1. /\ t \in -1 .. MaxSeconds /\ t # -1 /\ t \in {second - 1, second}
        /\ second \in Nat /\ -1 \in -1 .. MaxSeconds
    BY <1>1, <1>2, ThrottleBounds DEF PromptsFit, None1
  <2>2. t \in 0 .. MaxSeconds /\ t <= second
    BY <2>1, ThrottleBounds
  <2> HIDE DEF t
  <2>3. since' \in [Keys1 -> 0 .. MaxSeconds] /\ \A k \in Keys1 : since'[k] <= second
    BY <1>1, <1>2, <2>2 DEF PromptsFit
  <2>4. prompt' \in [Guessers -> -1 .. MaxSeconds]
        /\ \A d \in Guessers : prompt'[d] \in {None1, second - 1, second}
    BY <1>1, <1>2, <2>1 DEF PromptsFit, None1
  <2> QED
    BY <1>2, <2>3, <2>4 DEF PromptsFit
<1> QED
  BY <1>1, <1>5, <1>6, <1>7 DEF ThrottleIInv

LEMMA RightStep ==
    ASSUME ThrottleIInv, NEW c \in Guessers, GuessRight(c)
    PROVE  ThrottleIInv'
<1>1. /\ prompt[c] # None1 /\ prompt' = [prompt EXCEPT ![c] = None1]
      /\ second' = second /\ since' = since
      /\ byIp' = Forgive(byIp, IpOf[c]) /\ byName' = Forgive(byName, NameOf[c])
  BY DEF GuessRight
<1>2. /\ TableFits(byIp', IpOf, prompt', since, second)
      /\ TableFits(byName', NameOf, prompt', since, second)
  BY <1>1, RightFits DEF ThrottleIInv
<1>3. PromptsFit(prompt', since, second)
  <2>1. -1 \in -1 .. MaxSeconds
    BY ThrottleBounds
  <2> QED
    BY <1>1, <2>1 DEF ThrottleIInv, PromptsFit, None1
<1> QED
  BY <1>1, <1>2, <1>3 DEF ThrottleIInv

LEMMA SecondStep == ASSUME ThrottleIInv, Second PROVE ThrottleIInv'
<1>1. /\ second < MaxSeconds /\ second' = second + 1 /\ \A c \in Guessers : prompt[c] \in {None1, second}
      /\ byIp' = byIp /\ byName' = byName /\ prompt' = prompt /\ since' = since
  BY DEF Second
<1>2. PromptsFit(prompt, since, second)
  BY DEF ThrottleIInv
<1>3. TableFits(byIp, IpOf, prompt, since, second + 1) /\ TableFits(byName, NameOf, prompt, since, second + 1)
  BY <1>2, SecondFits DEF ThrottleIInv
<1>4. PromptsFit(prompt, since, second + 1)
  <2>1. second \in Nat /\ second + 1 \in 0 .. MaxSeconds /\ (second + 1) - 1 = second
    BY <1>1, <1>2, ThrottleBounds DEF PromptsFit
  <2>2. \A k \in Keys1 : since[k] <= second + 1
    <3> TAKE k \in Keys1
    <3>1. since[k] \in 0 .. MaxSeconds /\ since[k] <= second
      BY <1>2 DEF PromptsFit
    <3> QED
      BY <2>1, <3>1, ThrottleBounds
  <2> QED
    BY <1>1, <1>2, <2>1, <2>2 DEF PromptsFit
<1> QED
  BY <1>1, <1>3, <1>4 DEF ThrottleIInv

\* The invariant says what the throttle promises.
LEMMA ThrottleImplies == ThrottleIInv => ThrottleTypeOK /\ GuessesAreFew
<1> SUFFICES ASSUME ThrottleIInv PROVE ThrottleTypeOK /\ GuessesAreFew
  OBVIOUS
<1>1. PromptsFit(prompt, since, second)
  BY DEF ThrottleIInv
<1>2. ASSUME NEW table, NEW of, TableFits(table, of, prompt, since, second), NEW k \in DOMAIN table
      PROVE  /\ k \in Keys1 /\ table[k].failures >= 1
             /\ table[k].next - table[k].last \in 1 .. BackoffMax
             /\ second - since[k] >= Earliest[table[k].failures]
  <2> DEFINE e == table[k]
             out == Cardinality(GuessesFor(of, prompt, k))
  <2>1. EntryFits(e, out, since[k], second) /\ e \in Entry /\ k \in Keys1
    BY <1>2 DEF TableFits
  <2>2. /\ e.failures \in Nat \ {0} /\ e.last \in Nat /\ out \in Nat
        /\ second \in Nat /\ since[k] \in Nat
    BY <1>1, <2>1, GuessesCount, ThrottleBounds DEF Entry, PromptsFit
  <2> HIDE DEF e, out
  <2>3. BackoffDelay(e.failures) \in 1 .. BackoffMax
    BY <2>2, BackoffDelayGrows
  <2>4. e.next - e.last = BackoffDelay(e.failures)
    BY <2>1, <2>2, <2>3, ThrottleBounds DEF EntryFits
  <2>5. /\ Earliest[e.failures] <= Earliest[e.failures + out]
        /\ Earliest[e.failures] \in Nat /\ Earliest[e.failures + out] \in Nat
    BY <2>2, EarliestGrows, EarliestComputes
  <2>6. second - since[k] >= Earliest[e.failures]
    BY <2>1, <2>2, <2>5 DEF EntryFits
  <2> QED
    BY <2>1, <2>2, <2>3, <2>4, <2>6 DEF e
<1>3. \A k \in DOMAIN byIp : /\ k \in Keys1 /\ byIp[k].failures >= 1
                             /\ byIp[k].next - byIp[k].last \in 1 .. BackoffMax
                             /\ second - since[k] >= Earliest[byIp[k].failures]
  BY <1>2 DEF ThrottleIInv
<1>4. \A k \in DOMAIN byName : /\ k \in Keys1 /\ byName[k].failures >= 1
                               /\ byName[k].next - byName[k].last \in 1 .. BackoffMax
                               /\ second - since[k] >= Earliest[byName[k].failures]
  BY <1>2 DEF ThrottleIInv
<1> QED
  BY <1>1, <1>3, <1>4 DEF ThrottleTypeOK, GuessesAreFew, PromptsFit

\* The failures remembered of a name or of an address are few for the time they
\* took: the code behaviour is wait, note_failure and note_success of the
\* LoginThrottle, called by prompts that verify without holding it.
LEMMA ThrottleHolds == ThrottleSpec => [](ThrottleTypeOK /\ GuessesAreFew)
<1>1. ThrottleIInv /\ [ThrottleNext]_throttleVars => ThrottleIInv'
  <2> SUFFICES ASSUME ThrottleIInv, [ThrottleNext]_throttleVars PROVE ThrottleIInv'
    OBVIOUS
  <2>1. ASSUME NEW c \in Guessers, BeginAttempt(c) PROVE ThrottleIInv'
    BY <2>1, AttemptStep
  <2>2. ASSUME NEW c \in Guessers, GuessFails(c) PROVE ThrottleIInv'
    BY <2>2, FailStep
  <2>3. ASSUME NEW c \in Guessers, GuessRight(c) PROVE ThrottleIInv'
    BY <2>3, RightStep
  <2>4. CASE Second
    BY <2>4, SecondStep
  <2>5. CASE UNCHANGED throttleVars
    BY <2>5 DEF throttleVars, ThrottleIInv
  <2> QED
    BY <2>1, <2>2, <2>3, <2>4, <2>5 DEF ThrottleNext
<1> QED
  BY <1>1, ThrottleStart, ThrottleImplies, PTL DEF ThrottleSpec

-----------------------------------------------------------------------------
(* The services together.                                                   *)

\* Who is past the login proved who they are and has an account that is saved
\* unless its save failed (handle_conn, Accounts), and the guesses at a name or
\* from an address are few for the time they took (LoginThrottle).
THEOREM AccountsInvHolds == LoginSpec /\ ThrottleSpec => []AccountsInv
<1> QED
  BY LoginHolds, ThrottleHolds, PTL DEF AccountsInv

\* No step gives an account to somebody else or loses it, hands out a line id
\* below an older one or loses a user or a password, but for the exceptions the
\* three properties name (handle_conn, LineIdGen, the user file of the provider).
THEOREM ServicesStepsHold == LoginSpec /\ LineSpec /\ SignSpec => ServicesSteps
<1> QED
  BY AccountsAreKeptHolds, IdsIncreaseHolds, UsersAreKeptHolds DEF ServicesSteps

\* A behaviour of the services is a behaviour of each of them.
LEMMA BrokerParts ==
    ServicesSpec => HoldSpec /\ LoginSpec /\ ThrottleSpec /\ LineSpec /\ LogSpec
<1>1. ServicesInit => HoldInit /\ LoginInit /\ ThrottleInit /\ LineInit /\ LogInit
  BY DEF ServicesInit
<1>2. ASSUME [ServicesNext]_servicesVars
      PROVE  /\ [HoldNext]_holdVars /\ [LoginNext]_loginVars /\ [ThrottleNext]_throttleVars
             /\ [LineNext]_lineVars /\ [LogNext]_logVars
  <2>1. CASE UNCHANGED brokerVars
    BY <2>1 DEF brokerVars
  <2>2. CASE Broker
    BY <2>2 DEF Broker
  <2> QED
    BY <1>2, <2>1, <2>2 DEF ServicesNext, Web, servicesVars
<1> QED
  BY <1>1, <1>2, PTL DEF ServicesSpec, HoldSpec, LoginSpec, ThrottleSpec, LineSpec, LogSpec

LEMMA WebParts == ServicesSpec => SocketSpec /\ WebSpec /\ SignSpec /\ PortalSpec
<1>1. ServicesInit => SocketInit /\ WebInit /\ SignInit /\ PortalInit
  BY DEF ServicesInit
<1>2. ASSUME [ServicesNext]_servicesVars
      PROVE  /\ [SocketNext]_socketVars /\ [WebNext]_webVars
             /\ [SignNext]_signVars /\ [PortalNext]_portalVars
  <2>1. CASE UNCHANGED clientVars
    BY <2>1 DEF clientVars
  <2>2. CASE Web
    BY <2>2 DEF Web
  <2> QED
    BY <1>2, <2>1, <2>2 DEF ServicesNext, Broker, servicesVars
<1> QED
  BY <1>1, <1>2, PTL DEF ServicesSpec, SocketSpec, WebSpec, SignSpec, PortalSpec

\* What the run of the services checks on its instance holds of the services
\* for every value of the constants.
THEOREM ServicesHold ==
    ServicesSpec => /\ [](/\ HoldInv /\ AccountsInv /\ LineInv /\ LogInv
                          /\ WebPlayersInv /\ SignInv /\ PortalInv)
                    /\ ServicesSteps
<1>1. ServicesSpec => [](HoldInv /\ LineInv /\ LogInv /\ AccountsInv)
  BY BrokerParts, HoldInvHolds, LineInvHolds, LogInvHolds, AccountsInvHolds, PTL
<1>2. ServicesSpec => [](WebPlayersInv /\ SignInv /\ PortalInv)
  BY WebParts, WebPlayersInvHolds, SignInvHolds, PortalInvHolds, PTL
<1>3. ServicesSpec => ServicesSteps
  BY BrokerParts, WebParts, ServicesStepsHold
<1> QED
  BY <1>1, <1>2, <1>3, PTL
=============================================================================
