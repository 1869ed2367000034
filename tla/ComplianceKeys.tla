--------------------------- MODULE ComplianceKeys ---------------------------
(***************************************************************************)
(* The access keys of the compliance portal, slopmud_web's                 *)
(* compliance_portal.rs: the key file, which every request reads, changes  *)
(* and writes on its own without a lock and through one temporary file;    *)
(* the actions that wait for confirmation; the sessions and the log.       *)
(*                                                                         *)
(* A key stands for the e-mail address it was mailed to as well.  Links,   *)
(* pages, mail and the reasons of actions are data; of the actions a ban,  *)
(* which is a request to the broker's admin port, stands for the others.   *)
(* Keys are pruned an hour after they expired, which is left out: an       *)
(* expired key opens nothing whether it is in the file or not.             *)
(***************************************************************************)
EXTENDS Naturals

CONSTANTS Keys,         \* keys handed out
          NoKey,
          Requests,     \* requests served at the same time
          MaxPrepared,  \* bound: actions prepared
          MaxPortalStops \* bound: restarts

ASSUME PortalBounds == {MaxPrepared, MaxPortalStops} \subseteq Nat /\ NoKey \notin Keys

VARIABLES
    keyFile,   \* the key file: unused keys (a used one is pruned as it is stored)
    tmp,       \* its temporary file: <<content>>, or <<>> without
    task,      \* request -> what it does, for which key, and the file it read
    overlaps,  \* two requests were between reading and writing at one time
    issued,    \* keys requested so far
    expired,   \* keys that expired by now
    toLogin,   \* keys whose login waits for confirmation
    toBan,     \* bans that wait for it: <<key of the session, number>>
    prepared,  \* actions prepared so far
    portal,    \* sessions, by the key that opened them
    logins,    \* logins with each key
    logged,    \* their lines in the log
    banned,    \* bans carried out, and how often
    portalStops \* restarts so far

fileVars   == <<keyFile, tmp, task, overlaps>>
actionVars == <<toLogin, toBan, prepared>>
complianceVars    == <<logins, logged, banned>>
portalVars == <<fileVars, issued, expired, actionVars, portal, complianceVars, portalStops>>

NoTask == [pc |-> "idle", key |-> NoKey, read |-> {}]

PortalInit ==
    /\ keyFile = {} /\ tmp = <<>> /\ task = [r \in Requests |-> NoTask] /\ overlaps = FALSE
    /\ issued = {} /\ expired = {} /\ toLogin = {} /\ toBan = {} /\ prepared = 0
    /\ portal = {} /\ portalStops = 0
    /\ logins = [k \in Keys |-> 0] /\ logged = [k \in Keys |-> 0]
    /\ banned = [b \in 1 .. MaxPrepared |-> 0]

Goes(r, pc) == task' = [task EXCEPT ![r].pc = pc]

-----------------------------------------------------------------------------
(* The file: load_key_db at once, then upsert_key_rec or mark_key_used.     *)

Begin(r, k, pc) ==
    /\ task' = [task EXCEPT ![r] = [pc |-> pc, key |-> k, read |-> keyFile]]
    /\ overlaps' = (overlaps \/ \E q \in Requests : task[q].pc \in
                      {"adding", "marking", "added", "marked"})

\* Fault: the key is marked in the copy and written as it was.
ContentKept(r) == task[r].read \cup {task[r].key}

Content(r) == IF task[r].pc = "adding" THEN task[r].read \cup {task[r].key}
              ELSE task[r].read \ {task[r].key}

WriteTmp(r) ==
    /\ task[r].pc \in {"adding", "marking"}
    /\ tmp' = <<Content(r)>> /\ Goes(r, IF task[r].pc = "adding" THEN "added" ELSE "marked")
    /\ UNCHANGED <<keyFile, overlaps, issued, expired, actionVars, portal, complianceVars, portalStops>>

\* What is renamed may be what another request wrote; once that one has
\* renamed it, there is nothing and this request fails.  A request that did
\* not find its key has rewritten the file for nothing.
Rename(r) ==
    LET t == task[r] IN
    /\ t.pc \in {"added", "marked"}
    /\ keyFile' = IF tmp = <<>> THEN keyFile ELSE tmp[1]
    /\ tmp' = <<>>
    /\ task' = [task EXCEPT ![r] =
                  IF tmp # <<>> /\ t.pc = "marked" /\ t.key \in t.read
                    THEN [t EXCEPT !.pc = "entering"] ELSE NoTask]
    /\ UNCHANGED <<overlaps, issued, expired, actionVars, portal, complianceVars, portalStops>>

-----------------------------------------------------------------------------
(* The requests.                                                            *)

\* compliance_request_key: the key goes into the file, then into the mail.
RequestKey(r, k) ==
    /\ task[r].pc = "idle" /\ k \notin issued /\ issued' = issued \cup {k}
    /\ Begin(r, k, "adding")
    /\ UNCHANGED <<keyFile, tmp, expired, actionVars, portal, complianceVars, portalStops>>

Expire(k) ==
    /\ k \in issued \ expired /\ expired' = expired \cup {k}
    /\ UNCHANGED <<fileVars, issued, actionVars, portal, complianceVars, portalStops>>

\* compliance_login: a valid key's login waits for its confirmation.
PrepareLogin(k) ==
    /\ k \in keyFile \ expired /\ k \notin toLogin /\ toLogin' = toLogin \cup {k}
    /\ prepared < MaxPrepared /\ prepared' = prepared + 1
    /\ UNCHANGED <<fileVars, issued, expired, toBan, portal, complianceVars, portalStops>>

\* compliance_action_preview, with a session.
PrepareBan(k) ==
    /\ k \in portal /\ prepared < MaxPrepared /\ prepared' = prepared + 1
    /\ toBan' = toBan \cup {<<k, prepared'>>}
    /\ UNCHANGED <<fileVars, issued, expired, toLogin, portal, complianceVars, portalStops>>

\* compliance_action_confirm takes the action out first; a login then reads
\* the key file again, and ends there if the key has expired.
ConfirmLogin(r, k) ==
    /\ task[r].pc = "idle" /\ k \in toLogin /\ toLogin' = toLogin \ {k}
    /\ \/ k \in keyFile \cap expired /\ UNCHANGED <<task, overlaps>>
       \/ k \notin keyFile \cap expired /\ Begin(r, k, "marking")
    /\ UNCHANGED <<keyFile, tmp, issued, expired, toBan, prepared, portal, complianceVars, portalStops>>

\* The key was stored as used: the session is made and then logged, if the
\* log can be written.
Enter(r) ==
    LET k == task[r].key IN
    /\ task[r].pc = "entering" /\ task' = [task EXCEPT ![r] = NoTask]
    /\ portal' = portal \cup {k} /\ logins' = [logins EXCEPT ![k] = @ + 1]
    /\ logged' \in {logged, [logged EXCEPT ![k] = @ + 1]}
    /\ UNCHANGED <<keyFile, tmp, overlaps, issued, expired, actionVars, banned, portalStops>>

\* A ban is carried out if the session of its preparation still lives, and
\* the broker can be asked.
ConfirmBan(k, b) ==
    /\ <<k, b>> \in toBan /\ toBan' = toBan \ {<<k, b>>}
    /\ \/ k \in portal /\ banned' = [banned EXCEPT ![b] = @ + 1]
       \/ UNCHANGED banned
    /\ UNCHANGED <<fileVars, issued, expired, toLogin, prepared, portal, logins, logged,
                   portalStops>>

SessionExpires(k) ==
    /\ k \in portal /\ portal' = portal \ {k}
    /\ UNCHANGED <<fileVars, issued, expired, actionVars, complianceVars, portalStops>>

\* A restart between any two steps: the files and the log stay.
Restart ==
    /\ portalStops < MaxPortalStops /\ portalStops' = portalStops + 1
    /\ task' = [r \in Requests |-> NoTask] /\ toLogin' = {} /\ toBan' = {} /\ portal' = {}
    /\ UNCHANGED <<keyFile, tmp, overlaps, issued, expired, prepared, complianceVars>>

-----------------------------------------------------------------------------
PortalNext ==
    \/ \E r \in Requests :
         \/ \E k \in Keys : RequestKey(r, k) \/ ConfirmLogin(r, k)
         \/ WriteTmp(r) \/ Rename(r) \/ Enter(r)
    \/ \E k \in Keys :
         \/ Expire(k) \/ PrepareLogin(k) \/ PrepareBan(k) \/ SessionExpires(k)
         \/ \E b \in 1 .. MaxPrepared : ConfirmBan(k, b)
    \/ Restart

PortalSpec == PortalInit /\ [][PortalNext]_portalVars

-----------------------------------------------------------------------------
(* Types; only keys that were issued are kept or open anything.             *)
PortalTypeOK ==
    /\ keyFile \subseteq issued /\ (tmp = <<>> \/ tmp[1] \subseteq issued)
    /\ task \in [Requests -> [pc : {"idle", "adding", "added", "marking", "marked",
                                    "entering"},
                              key : Keys \cup {NoKey}, read : SUBSET issued]]
    /\ expired \subseteq issued /\ issued \subseteq Keys
    /\ toLogin \cup portal \subseteq issued
    /\ toBan \subseteq issued \X (1 .. prepared) /\ prepared \in 0 .. MaxPrepared
    /\ overlaps \in BOOLEAN /\ portalStops \in 0 .. MaxPortalStops

(* A key opens the portal once - as long as no two requests had the key     *)
(* file at the same time: then both may find the key, or the one that       *)
(* writes last bring a used key back.                                       *)
KeysOpenOnce == ~overlaps => \A k \in Keys : logins[k] <= 1

(* The log does not claim a login that did not happen, and no confirmation  *)
(* acts twice, whatever overlaps, fails, restarts or is repeated.           *)
LogIsTrue ==
    /\ \A k \in Keys : logged[k] <= logins[k]
    /\ \A b \in 1 .. MaxPrepared : banned[b] <= 1

(* While requests do not overlap, a key that was handed out and not used is *)
(* in the file, and one that was used is not.                               *)
FileFollowsUse ==
    ~overlaps /\ portalStops = 0 /\ (\A r \in Requests : task[r].pc = "idle") =>
        \A k \in issued : k \in keyFile <=> logins[k] = 0

(* The portal's keys and actions over failed writes and restarts: the log   *)
(* is true and no action is repeated, and as long as no two requests have   *)
(* the file at once, a key opens once and the file says which keys still do. *)
PortalInv == PortalTypeOK /\ KeysOpenOnce /\ LogIsTrue /\ FileFollowsUse

=============================================================================
