--------------------------- MODULE BrokerSessions ---------------------------
(***************************************************************************)
(* The life of the player sessions between the broker (crates/slopmud) and *)
(* the shard (apps/shard_01): one task per client connection, the task     *)
(* that owns the single link to the shard, the admin connection that bans  *)
(* and kicks, and the shard's own table of attached sessions.              *)
(*                                                                         *)
(* What a client is sent goes through the queue of its writer task; a full *)
(* queue makes the sending task wait.  Texts and queues are left out: the  *)
(* wait is the time before that task's next step.                          *)
(***************************************************************************)
EXTENDS Naturals, Sequences

CONSTANTS Sessions,     \* session ids; each connection draws a fresh one
          Names,        \* what a ban names: a character, or likewise a prefix
          NoName,       \* no name chosen yet
          ChanCap,      \* capacity of shard_tx, the channel to the link's task
          WireCap,      \* how much the link buffers in each direction
          MaxBreaks     \* bound: times the link to the shard is lost

ASSUME CapsAssumption == {ChanCap, WireCap} \subseteq Nat \ {0} /\ MaxBreaks \in Nat
ASSUME NoNameAssumption == NoName \notin Names

VARIABLES
    conn,      \* where each connection's task is
    name,      \* the character name it chose (or the prefix it comes from)
    disc,      \* disconnect_tx: it was told to end
    sessions,  \* keys of the broker's `sessions` map
    chan,      \* shard_tx: messages for the task that owns the link
    mgr,       \* where shard_manager_task is
    todo,      \* sessions of its snapshot it has still to attach again
    held,      \* the message whose write it is blocked on, if any
    link,      \* "none", "up", or "cut": the broker has not noticed yet
    shardUp,   \* the shard is listening
    breaks,    \* link losses so far
    wire,      \* requests on their way to the shard
    resp,      \* number of responses on their way to the broker
    attached,  \* keys of the shard's `sessions` map
    adm,       \* where the admin connection's task is
    banning,   \* the name its request bans
    targets,   \* sessions it has still to kick
    banned     \* names under a character ban

connVars == <<conn, name, disc>>
mgrVars  == <<mgr, todo, held>>
linkVars == <<link, shardUp, breaks, wire, resp, attached>>
admVars  == <<adm, banning, targets, banned>>
vars == <<connVars, sessions, chan, mgrVars, linkVars, admVars>>

Attach(s) == [t |-> "attach", s |-> s]
Detach(s) == [t |-> "detach", s |-> s]
Input(s)  == [t |-> "input",  s |-> s]
Requests  == [t : {"attach", "detach", "input"}, s : Sessions]

Init ==
    /\ conn = [s \in Sessions |-> "naming"]
    /\ name = [s \in Sessions |-> NoName]
    /\ disc = [s \in Sessions |-> FALSE]
    /\ sessions = {} /\ chan = <<>>
    /\ mgr = "connecting" /\ todo = {} /\ held = <<>>
    /\ link = "none" /\ shardUp \in BOOLEAN /\ breaks = 0
    /\ wire = <<>> /\ resp = 0 /\ attached = {}
    /\ adm = "idle" /\ banning = NoName /\ targets = {} /\ banned = {}

-----------------------------------------------------------------------------
(* The connection's task: handle_conn.                                     *)

Goto(s, pc) == conn' = [conn EXCEPT ![s] = pc]

\* A name is accepted unless it is under a ban at this moment; a banned one
\* ends the connection.
ChooseName(s, n) ==
    /\ conn[s] = "naming"
    /\ \/ n \in banned /\ Goto(s, "leaving") /\ UNCHANGED name
       \/ n \notin banned /\ Goto(s, "creating") /\ name' = [name EXCEPT ![s] = n]
    /\ UNCHANGED <<disc, sessions, chan, mgrVars, linkVars, admVars>>

\* A web login that finds the name unusable asks for one again.
AskAgain(s) ==
    /\ conn[s] = "creating" /\ Goto(s, "naming")
    /\ UNCHANGED <<name, disc, sessions, chan, mgrVars, linkVars, admVars>>

\* Authentication and character creation are over: the session first goes
\* into the map the tasks share, and only then is announced to the shard.
Enter(s) ==
    /\ conn[s] = "creating" /\ Goto(s, "entered")
    /\ sessions' = sessions \cup {s}
    /\ UNCHANGED <<name, disc, chan, mgrVars, linkVars, admVars>>

\* shard_tx.send(..).await: with a full channel the task waits and notices
\* nothing else meanwhile.
Send(s, from, m, to) ==
    /\ conn[s] = from /\ Len(chan) < ChanCap
    /\ Goto(s, to)
    /\ chan' = Append(chan, m)
    /\ UNCHANGED <<name, disc, sessions, mgrVars, linkVars, admVars>>

\* Fault: an ATTACH or a DETACH that finds the channel full is given up.
TrySend(s, from, m, to) ==
    /\ conn[s] = from /\ Goto(s, to)
    /\ chan' = IF Len(chan) < ChanCap THEN Append(chan, m) ELSE chan
    /\ UNCHANGED <<name, disc, sessions, mgrVars, linkVars, admVars>>
TrySendAttach(s) == TrySend(s, "entered", Attach(s), "world")
TrySendDetach(s) == TrySend(s, "removed", Detach(s), "closed")

SendAttach(s) == Send(s, "entered", Attach(s), "world")
SendLine(s)   == Send(s, "sending", Input(s), "world")
SendDetach(s) == Send(s, "removed", Detach(s), "closed")

ReadLine(s) ==
    /\ conn[s] = "world" /\ Goto(s, "sending")
    /\ UNCHANGED <<name, disc, sessions, chan, mgrVars, linkVars, admVars>>

Reading(s) == conn[s] \in {"naming", "creating", "world"}

\* The read loop ends: end of stream, `quit`, or the disconnect flag is seen.
LeaveLoop(s) ==
    /\ Reading(s) /\ Goto(s, "leaving")
    /\ UNCHANGED <<name, disc, sessions, chan, mgrVars, linkVars, admVars>>

\* `res?`: a read error returns from handle_conn at once, past the cleanup.
ReadError(s) ==
    /\ Reading(s) /\ Goto(s, "failed")
    /\ UNCHANGED <<name, disc, sessions, chan, mgrVars, linkVars, admVars>>

\* Fault: a kicked connection returns without the cleanup.
LeaveMapUnlessKicked(s) ==
    /\ conn[s] = "leaving"
    /\ Goto(s, IF s \in sessions /\ ~disc[s] THEN "removed" ELSE "closed")
    /\ sessions' = IF disc[s] THEN sessions ELSE sessions \ {s}
    /\ UNCHANGED <<name, disc, chan, mgrVars, linkVars, admVars>>

\* Disconnect cleanup: out of the map first, then a DETACH for the shard if
\* the session had been in it.
LeaveMap(s) ==
    /\ conn[s] = "leaving"
    /\ Goto(s, IF s \in sessions THEN "removed" ELSE "closed")
    /\ sessions' = sessions \ {s}
    /\ UNCHANGED <<name, disc, chan, mgrVars, linkVars, admVars>>

Connection(s) ==
    \/ \E n \in Names : ChooseName(s, n)
    \/ AskAgain(s) \/ Enter(s) \/ SendAttach(s) \/ ReadLine(s) \/ SendLine(s)
    \/ LeaveLoop(s) \/ ReadError(s) \/ LeaveMap(s) \/ SendDetach(s)

-----------------------------------------------------------------------------
(* The task that owns the link: shard_manager_task.                        *)

\* Fault: the reconnected link is served without attaching anybody again.
ConnectAfresh ==
    /\ mgr = "connecting" /\ shardUp
    /\ link' = "up" /\ mgr' = "serving"
    /\ UNCHANGED <<connVars, sessions, chan, todo, held, shardUp, breaks, wire, resp,
                   attached, admVars>>

\* Connected: the sessions to attach again are read from the map once.
Connect ==
    /\ mgr = "connecting" /\ shardUp
    /\ link' = "up" /\ mgr' = "reattach" /\ todo' = sessions
    /\ UNCHANGED <<connVars, sessions, chan, held, shardUp, breaks, wire, resp,
                   attached, admVars>>

\* write_req: lost, without notice, on a link that is already cut; a full
\* link makes the task wait.
WriteReq(m) ==
    \/ link = "cut" /\ UNCHANGED wire
    \/ link = "up" /\ Len(wire) < WireCap /\ wire' = Append(wire, m)

Reattach(s) ==
    /\ mgr = "reattach" /\ s \in todo /\ WriteReq(Attach(s))
    /\ todo' = todo \ {s}
    /\ UNCHANGED <<connVars, sessions, chan, mgr, held, link, shardUp, breaks,
                   resp, attached, admVars>>

ReattachDone ==
    /\ mgr = "reattach" /\ todo = {} /\ mgr' = "serving"
    /\ UNCHANGED <<connVars, sessions, chan, todo, held, linkVars, admVars>>

\* The select takes a message ...
Take ==
    /\ mgr = "serving" /\ chan # <<>>
    /\ mgr' = "writing" /\ held' = <<Head(chan)>> /\ chan' = Tail(chan)
    /\ UNCHANGED <<connVars, sessions, todo, linkVars, admVars>>

\* ... and reads nothing before it is written.
Forward ==
    /\ mgr = "writing" /\ WriteReq(Head(held))
    /\ mgr' = "serving" /\ held' = <<>>
    /\ UNCHANGED <<connVars, sessions, chan, todo, link, shardUp, breaks, resp,
                   attached, admVars>>

\* Fault: a response is taken for granted after each request.
RouteBlindly ==
    /\ mgr = "serving"
    /\ resp' = resp - 1
    /\ UNCHANGED <<connVars, sessions, chan, mgrVars, link, shardUp, breaks,
                   wire, attached, admVars>>

\* The select takes a response and passes it to its client (route_resp).
Route ==
    /\ mgr = "serving" /\ resp > 0
    /\ resp' = resp - 1
    /\ UNCHANGED <<connVars, sessions, chan, mgrVars, link, shardUp, breaks,
                   wire, attached, admVars>>

\* The select reads the end of the stream, after what had still arrived; the
\* clients are told and the task connects again.
SeeLinkCut ==
    /\ mgr = "serving" /\ link = "cut" /\ resp = 0
    /\ link' = "none" /\ mgr' = "connecting"
    /\ UNCHANGED <<connVars, sessions, chan, todo, held, shardUp, breaks, wire,
                   resp, attached, admVars>>

ConnectFails ==
    /\ mgr = "connecting" /\ ~shardUp /\ mgr' = "offline"
    /\ UNCHANGED <<connVars, sessions, chan, todo, held, linkVars, admVars>>

\* One turn of `while let Ok(msg) = rx.try_recv()`: whatever it is, the
\* message is dropped.
Drain ==
    /\ mgr = "offline" /\ chan # <<>>
    /\ chan' = Tail(chan)
    /\ UNCHANGED <<connVars, sessions, mgrVars, linkVars, admVars>>

Retry ==
    /\ mgr = "offline" /\ chan = <<>> /\ mgr' = "connecting"
    /\ UNCHANGED <<connVars, sessions, chan, todo, held, linkVars, admVars>>

Manager ==
    \/ Connect \/ (\E s \in Sessions : Reattach(s)) \/ ReattachDone
    \/ Take \/ Forward \/ Route \/ SeeLinkCut
    \/ ConnectFails \/ Drain \/ Retry

-----------------------------------------------------------------------------
(* The shard: handle_broker.  Every connection of the broker gets a world   *)
(* of its own, which ends with it.                                          *)

\* ATTACH replaces what the session controlled before and is answered with a
\* welcome; a line is answered too, if only with "not attached".
HandleRequest ==
    /\ link = "up" /\ wire # <<>>
    /\ LET m == Head(wire) IN
       \/ /\ m.t = "attach" /\ resp < WireCap
          /\ attached' = attached \cup {m.s} /\ resp' = resp + 1
       \/ /\ m.t = "detach"
          /\ attached' = attached \ {m.s} /\ UNCHANGED resp
       \/ /\ m.t = "input" /\ resp < WireCap
          /\ resp' = resp + 1 /\ UNCHANGED attached
    /\ wire' = Tail(wire)
    /\ UNCHANGED <<connVars, sessions, chan, mgrVars, link, shardUp, breaks, admVars>>

\* The link is lost, the shard with it or not: requests on the wire are gone,
\* some of the responses may still arrive.
Break ==
    /\ link = "up" /\ breaks < MaxBreaks
    /\ breaks' = breaks + 1
    /\ link' = "cut" /\ shardUp' \in BOOLEAN
    /\ wire' = <<>> /\ attached' = {} /\ resp' \in 0 .. resp
    /\ UNCHANGED <<connVars, sessions, chan, mgrVars, admVars>>

ShardStarts ==
    /\ ~shardUp /\ shardUp' = TRUE
    /\ UNCHANGED <<connVars, sessions, chan, mgrVars, link, breaks, wire, resp,
                   attached, admVars>>

-----------------------------------------------------------------------------
(* BanCharacter of handle_admin_conn: the ban is stored under the lock of   *)
(* the ban list, then the sessions to kick are read under that of the map.  *)

Ban(n) ==
    /\ adm = "idle" /\ n \notin banned    \* bound: one ban of a name
    /\ banned' = banned \cup {n} /\ banning' = n /\ adm' = "stored"
    /\ UNCHANGED <<connVars, sessions, chan, mgrVars, linkVars, targets>>

\* The file cannot be written: the ban stays in memory, and the error ends the
\* request before anybody is kicked.
BanUnsaved(n) ==
    /\ adm = "idle" /\ n \notin banned
    /\ banned' = banned \cup {n}
    /\ UNCHANGED <<connVars, sessions, chan, mgrVars, linkVars, adm, banning, targets>>

CollectTargets ==
    /\ adm = "stored" /\ adm' = "kicking"
    /\ targets' = {s \in sessions : name[s] = banning}
    /\ UNCHANGED <<connVars, sessions, chan, mgrVars, linkVars, banning, banned>>

Kick(s) ==
    /\ adm = "kicking" /\ s \in targets
    /\ disc' = [disc EXCEPT ![s] = TRUE] /\ targets' = targets \ {s}
    /\ UNCHANGED <<conn, name, sessions, chan, mgrVars, linkVars, adm, banning,
                   banned>>

KickDone ==
    /\ adm = "kicking" /\ targets = {}
    /\ adm' = "idle" /\ banning' = NoName
    /\ UNCHANGED <<connVars, sessions, chan, mgrVars, linkVars, targets, banned>>

Admin ==
    \/ \E n \in Names : Ban(n) \/ BanUnsaved(n)
    \/ CollectTargets \/ KickDone \/ \E s \in Sessions : Kick(s)

-----------------------------------------------------------------------------
Next ==
    \/ \E s \in Sessions : Connection(s)
    \/ Manager \/ Admin
    \/ HandleRequest \/ Break \/ ShardStarts

Spec == Init /\ [][Next]_vars

(* The executor runs every task that is ready, select! chooses at random,   *)
(* the channel serves waiting senders in turn, and the offline loop, which  *)
(* only discards, finds the channel empty at some point.  A client takes    *)
(* what it is sent, or its connection fails; none has to type or to leave.  *)
FairSpec ==
    /\ Spec
    /\ WF_vars(Manager) /\ WF_vars(HandleRequest) /\ WF_vars(ShardStarts)
    /\ SF_vars(Take) /\ SF_vars(Route) /\ SF_vars(SeeLinkCut) /\ SF_vars(Retry)
    /\ WF_vars(CollectTargets \/ KickDone \/ \E s \in Sessions : Kick(s))
    /\ \A s \in Sessions :
         /\ SF_vars(SendAttach(s) \/ SendLine(s) \/ SendDetach(s))
         /\ SF_vars(disc[s] /\ LeaveLoop(s)) /\ WF_vars(LeaveMap(s))

-----------------------------------------------------------------------------
TypeOK ==
    /\ conn \in [Sessions -> {"naming", "creating", "entered", "world", "sending",
                              "leaving", "removed", "closed", "failed"}]
    /\ name \in [Sessions -> Names \cup {NoName}] /\ disc \in [Sessions -> BOOLEAN]
    /\ sessions \subseteq Sessions /\ chan \in Seq(Requests)
    /\ mgr \in {"connecting", "reattach", "serving", "writing", "offline"}
    /\ todo \subseteq Sessions /\ held \in Seq(Requests)
    /\ link \in {"none", "up", "cut"} /\ shardUp \in BOOLEAN
    /\ breaks \in 0 .. MaxBreaks
    /\ wire \in Seq(Requests) /\ resp \in Nat /\ attached \subseteq Sessions
    /\ adm \in {"idle", "stored", "kicking"} /\ banning \in Names \cup {NoName}
    /\ targets \subseteq Sessions /\ banned \subseteq Names

\* What the shard holds of a session after a queue of requests, if it held it
\* before or not: an ATTACH with no DETACH behind it, or nothing to undo it.
LastSays(q, m, undo) ==
    \E i \in 1 .. Len(q) : q[i] = m /\ \A j \in i + 1 .. Len(q) : q[j] # undo
After(q, s, before) ==
    \/ LastSays(q, Attach(s), Detach(s))
    \/ before /\ ~LastSays(q, Detach(s), Attach(s))

\* What the shard will hold once everything under way to it has arrived: the
\* wire, the re-attachments still to write, the message held back, the
\* channel, and what the connection's task is about to send.
Queue == held \o chan
ShardWillHold(s) ==
    /\ conn[s] # "removed"
    /\ \/ conn[s] = "entered"
       \/ After(Queue, s, After(wire, s, s \in attached) \/ s \in todo)

(* While the link is up, everything under way to the shard adds up to the   *)
(* broker's map, whatever attached, left, was lost with an earlier link or  *)
(* dropped offline: no player stays in the world without a session, and no  *)
(* session without its player.                                              *)
ShardConverges ==
    link = "up" => \A s \in Sessions : ShardWillHold(s) <=> s \in sessions

(* The shard never answers "not attached" to a session the broker still     *)
(* has: its ATTACH, first or repeated, is ahead of its lines.               *)
LinesFindTheirSession ==
    \A s \in sessions : wire # <<>> /\ Head(wire) = Input(s) => s \in attached

(* A session outlives its connection in the map only by a read error: every *)
(* other way out of the read loop passes the cleanup.                       *)
OnlyErrorsLeaveGhosts ==
    \A s \in sessions : conn[s] \in {"entered", "world", "sending", "leaving", "failed"}

\* Both buffers of the link full, and each side waiting for the other to read.
Jammed ==
    /\ link = "up" /\ Len(wire) = WireCap /\ resp = WireCap
    /\ mgr \in {"writing", "reattach"}

(* A session that is in the map under a name when an admin bans it leaves   *)
(* the map, unless its read fails first or the link jams: no session is     *)
(* skipped, and none waits for ever where it cannot see that it was kicked. *)
BannedAreKicked ==
    \A s \in Sessions :
        adm = "stored" /\ s \in sessions /\ name[s] = banning
            ~> (s \notin sessions \/ conn[s] = "failed" \/ Jammed)

(* A session that left the map is in the end gone from the shard for good,  *)
(* unless the link jams.                                                    *)
LeaversAreDetached ==
    \A s \in Sessions :
        conn[s] = "removed" ~> (<>[](s \notin attached) \/ <>Jammed)
=============================================================================
