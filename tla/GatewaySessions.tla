--------------------------- MODULE GatewaySessions ---------------------------
(* The websocket gateway (apps/ws_gateway): one task per websocket, the map  *)
(* `clients` of the sessions to attach again, and the one task that owns the *)
(* link to the shard.  A JSON client is given a fresh session id at each     *)
(* attach; a FlatBuffers client names its own and, once attached, has its    *)
(* frames passed on as they are.  Nothing is dropped while the shard is      *)
(* down: the channel fills and the senders wait.  A FlatBuffers client names *)
(* its session in every frame, here always its own.                          *)
EXTENDS Naturals, Sequences

CONSTANTS JsonClients, FbsClients,
          ShardTxCap,     \* capacity of shard_tx
          GateWire,       \* how much the link buffers in each direction
          OutCap,         \* capacity of a client's tx
          MaxAttaches,    \* bound: attaches of a JSON client
          MaxGateBreaks   \* bound: times the link is lost

GateClients == JsonClients \cup FbsClients

ASSUME GateBounds ==
    /\ {ShardTxCap, GateWire, OutCap, MaxAttaches} \subseteq Nat \ {0}
    /\ MaxGateBreaks \in Nat /\ JsonClients \cap FbsClients = {}

VARIABLES
    wsAt,      \* where each websocket's task is
    session,   \* its session, 0 when detached
    uses,      \* session ids it has used
    outgoing,  \* the frame it is about to send to the shard
    tx,        \* messages waiting for the websocket's writer
    quit,      \* history: FlatBuffers clients that sent a DETACH of their own
    clients,   \* the map: sessions to attach again
    shardTx,   \* the channel to the task that owns the link
    owner,     \* where that task is
    again,     \* sessions of its snapshot it has still to attach
    holding,   \* the frame it is writing or routing
    gate,      \* the link: "none", "up", or "cut" and not yet noticed
    gateBreaks, toShard, fromShard,
    inWorld    \* the shard's sessions

wsClientVars == <<wsAt, session, uses, outgoing, tx, quit>>
ownerVars  == <<owner, again, holding>>
gateLinkVars == <<gate, gateBreaks, toShard, fromShard, inWorld>>
gatewayVars == <<wsClientVars, clients, shardTx, ownerVars, gateLinkVars>>

SidOf(k, n) == <<k, n>>
Sids == GateClients \X (1 .. MaxAttaches)
GateFrame(t, s) == [t |-> t, s |-> s]
GateFrames == [t : {"attach", "detach", "input", "output"}, s : Sids]

GatewayInit ==
    /\ wsAt = [k \in GateClients |-> "reading"]
    /\ session = [k \in GateClients |-> 0] /\ uses = [k \in GateClients |-> 0]
    /\ outgoing = [k \in GateClients |-> <<>>] /\ tx = [k \in GateClients |-> 0]
    /\ quit = {} /\ clients = {} /\ shardTx = <<>>
    /\ owner = "connecting" /\ again = {} /\ holding = <<>>
    /\ gate = "none" /\ gateBreaks = 0
    /\ toShard = <<>> /\ fromShard = <<>> /\ inWorld = {}

-----------------------------------------------------------------------------
(* The task of a websocket: handle_ws_conn.                                  *)

GateSid(k) == SidOf(k, session[k])

GateSays(k, t, s, to) ==
    /\ wsAt' = [wsAt EXCEPT ![k] = to]
    /\ outgoing' = [outgoing EXCEPT ![k] = <<GateFrame(t, s)>>]

\* The session goes into the map before the shard is told.
GateAttach(k) ==
    LET n == IF k \in FbsClients THEN 1 ELSE uses[k] + 1 IN
    /\ wsAt[k] = "reading" /\ session[k] = 0 /\ n <= MaxAttaches
    /\ session' = [session EXCEPT ![k] = n] /\ uses' = [uses EXCEPT ![k] = n]
    /\ clients' = clients \cup {SidOf(k, n)}
    /\ GateSays(k, "attach", SidOf(k, n), "sending")
    /\ UNCHANGED <<tx, quit, shardTx, ownerVars, gateLinkVars>>

GateInput(k) ==
    /\ wsAt[k] = "reading" /\ session[k] # 0
    /\ GateSays(k, "input", GateSid(k), "sending")
    /\ UNCHANGED <<session, uses, tx, quit, clients, shardTx, ownerVars,
                   gateLinkVars>>

\* A JSON client's detach is the gateway's own too.
GateDetach(k) ==
    /\ k \in JsonClients /\ wsAt[k] = "reading" /\ session[k] # 0
    /\ session' = [session EXCEPT ![k] = 0] /\ clients' = clients \ {GateSid(k)}
    /\ GateSays(k, "detach", GateSid(k), "sending")
    /\ UNCHANGED <<uses, tx, quit, shardTx, ownerVars, gateLinkVars>>

\* A FlatBuffers client's ATTACH and DETACH are passed on like its lines.
PassOn(k) ==
    /\ k \in FbsClients /\ wsAt[k] = "reading" /\ session[k] # 0
    /\ \E t \in {"attach", "detach"} :
          /\ GateSays(k, t, GateSid(k), "sending")
          /\ quit' = IF t = "detach" THEN quit \cup {k} ELSE quit
    /\ UNCHANGED <<session, uses, tx, clients, shardTx, ownerVars, gateLinkVars>>

\* shard_tx.send(..).await; a JSON attach is then answered.
CanSend(k) == wsAt[k] \in {"sending", "parting"} /\ Len(shardTx) < ShardTxCap

SendShard(k) ==
    /\ CanSend(k)
    /\ shardTx' = shardTx \o outgoing[k]
    /\ outgoing' = [outgoing EXCEPT ![k] = <<>>]
    /\ wsAt' = [wsAt EXCEPT ![k] =
                 IF @ = "parting" THEN "ended"
                 ELSE IF k \in JsonClients /\ outgoing[k][1].t = "attach"
                 THEN "answering" ELSE "reading"]
    /\ UNCHANGED <<session, uses, tx, quit, clients, ownerVars, gateLinkVars>>

\* A ping, and anything that is not a request.
GatePing(k) ==
    /\ k \in JsonClients /\ wsAt[k] = "reading"
    /\ wsAt' = [wsAt EXCEPT ![k] = "answering"]
    /\ UNCHANGED <<session, uses, outgoing, tx, quit, clients, shardTx,
                   ownerVars, gateLinkVars>>

\* tx.send(..).await: to the writer's queue, which a client that is gone never
\* fills.
LeftWs(k) == wsAt[k] \in {"parting", "ended"}
TxRoom(k) == LeftWs(k) \/ tx[k] < OutCap
TxPut(k)  == tx' = IF LeftWs(k) THEN tx ELSE [tx EXCEPT ![k] = @ + 1]

GateAnswer(k) ==
    /\ wsAt[k] = "answering" /\ TxRoom(k) /\ TxPut(k)
    /\ wsAt' = [wsAt EXCEPT ![k] = "reading"]
    /\ UNCHANGED <<session, uses, outgoing, quit, clients, shardTx, ownerVars,
                   gateLinkVars>>

\* The writer's task; when the client is gone, its messages go nowhere.
ClientTakes(k) ==
    /\ tx[k] > 0 /\ tx' = [tx EXCEPT ![k] = @ - 1]
    /\ UNCHANGED <<wsAt, session, uses, outgoing, quit, clients, shardTx,
                   ownerVars, gateLinkVars>>

\* Fault: the shard is told and the map is left as it is.
GateLeaveInMap(k) ==
    /\ wsAt[k] = "reading" /\ session[k] # 0
    /\ session' = [session EXCEPT ![k] = 0] /\ UNCHANGED clients
    /\ GateSays(k, "detach", GateSid(k), "parting")
    /\ UNCHANGED <<uses, tx, quit, shardTx, ownerVars, gateLinkVars>>

\* The cleanup, after a close as after a read error.
GateLeave(k) ==
    /\ wsAt[k] = "reading"
    /\ session' = [session EXCEPT ![k] = 0]
    /\ IF session[k] # 0
         THEN /\ clients' = clients \ {GateSid(k)}
              /\ GateSays(k, "detach", GateSid(k), "parting")
         ELSE wsAt' = [wsAt EXCEPT ![k] = "ended"] /\ UNCHANGED <<outgoing, clients>>
    /\ tx' = [tx EXCEPT ![k] = 0]
    /\ UNCHANGED <<uses, quit, shardTx, ownerVars, gateLinkVars>>

GateClient(k) ==
    \/ GateAttach(k) \/ GateInput(k) \/ GateDetach(k) \/ PassOn(k) \/ SendShard(k)
    \/ GatePing(k) \/ GateAnswer(k) \/ ClientTakes(k) \/ GateLeave(k)

-----------------------------------------------------------------------------
(* The task that owns the link: shard_manager_task.                          *)

\* The sessions to attach again are read from the map once; what waits in the
\* channel comes after them.  (A connect that fails is tried again.)
GateConnect ==
    /\ owner = "connecting"
    /\ gate' = "up" /\ owner' = "attaching" /\ again' = clients
    /\ UNCHANGED <<wsClientVars, clients, shardTx, holding, gateBreaks, toShard,
                   fromShard, inWorld>>

\* write_req: an error goes unnoticed.
CanWrite == gate = "cut" \/ (gate = "up" /\ Len(toShard) < GateWire)

GateWriteReq(m) ==
    /\ CanWrite
    /\ toShard' = IF gate = "up" THEN Append(toShard, m) ELSE toShard

AttachAgain(s) ==
    /\ owner = "attaching" /\ s \in again /\ GateWriteReq(GateFrame("attach", s))
    /\ again' = again \ {s} /\ owner' = IF again = {s} THEN "serving" ELSE owner
    /\ UNCHANGED <<wsClientVars, clients, shardTx, holding, gate, gateBreaks, fromShard,
                   inWorld>>

NobodyToAttach ==
    /\ owner = "attaching" /\ again = {} /\ owner' = "serving"
    /\ UNCHANGED <<wsClientVars, clients, shardTx, again, holding, gateLinkVars>>

GateTake ==
    /\ owner = "serving" /\ shardTx # <<>> /\ owner' = "writing"
    /\ holding' = <<Head(shardTx)>> /\ shardTx' = Tail(shardTx)
    /\ UNCHANGED <<wsClientVars, clients, again, gateLinkVars>>

GateForward ==
    /\ owner = "writing" /\ GateWriteReq(holding[1])
    /\ owner' = "serving" /\ holding' = <<>>
    /\ UNCHANGED <<wsClientVars, clients, shardTx, again, gate, gateBreaks, fromShard,
                   inWorld>>

\* route_resp: the session is looked up ...
GateRoute ==
    /\ owner = "serving" /\ fromShard # <<>> /\ fromShard' = Tail(fromShard)
    /\ IF Head(fromShard) \in clients
         THEN owner' = "routing" /\ holding' = <<GateFrame("output", Head(fromShard))>>
         ELSE UNCHANGED <<owner, holding>>
    /\ UNCHANGED <<wsClientVars, clients, shardTx, again, gate, gateBreaks, toShard,
                   inWorld>>

\* ... and the link waits for room in the queue of its client.
PassOutput ==
    LET k == holding[1].s[1] IN
    /\ owner = "routing" /\ TxRoom(k) /\ TxPut(k)
    /\ owner' = "serving" /\ holding' = <<>>
    /\ UNCHANGED <<wsAt, session, uses, outgoing, quit, clients, shardTx, again,
                   gateLinkVars>>

GateSeeCut ==
    /\ owner = "serving" /\ gate = "cut" /\ fromShard = <<>>
    /\ gate' = "none" /\ owner' = "connecting"
    /\ UNCHANGED <<wsClientVars, clients, shardTx, again, holding, gateBreaks, toShard,
                   fromShard, inWorld>>

LinkOwner ==
    \/ GateConnect \/ (\E s \in Sids : AttachAgain(s)) \/ NobodyToAttach
    \/ GateTake \/ GateForward \/ GateRoute \/ PassOutput \/ GateSeeCut

-----------------------------------------------------------------------------
(* The shard: handle_broker, which serves the gateway like a broker.  (Names *)
(* the shard refuses, which are the empty ones, are left out.)               *)
CanServe ==
    /\ gate = "up" /\ toShard # <<>>
    /\ Head(toShard).t # "detach" => Len(fromShard) < GateWire

GateServe ==
    LET m == Head(toShard) IN
    /\ CanServe /\ toShard' = Tail(toShard)
    /\ fromShard' = IF m.t = "detach" THEN fromShard ELSE Append(fromShard, m.s)
    /\ inWorld' = CASE m.t = "attach" -> inWorld \cup {m.s}
                    [] m.t = "detach" -> inWorld \ {m.s}
                    [] OTHER          -> inWorld
    /\ UNCHANGED <<wsClientVars, clients, shardTx, ownerVars, gate, gateBreaks>>

\* The shard ends, or ends the connection, as it does at a frame it cannot parse.
GateBreak ==
    /\ gate = "up" /\ gateBreaks < MaxGateBreaks /\ gateBreaks' = gateBreaks + 1
    /\ gate' = "cut" /\ toShard' = <<>> /\ inWorld' = {}
    /\ \E n \in 0 .. Len(fromShard) : fromShard' = SubSeq(fromShard, 1, n)
    /\ UNCHANGED <<wsClientVars, clients, shardTx, ownerVars>>

GatewayNext ==
    (\E k \in GateClients : GateClient(k)) \/ LinkOwner \/ GateServe \/ GateBreak

-----------------------------------------------------------------------------
GatewayTypeOK ==
    /\ wsAt \in [GateClients -> {"reading", "sending", "answering", "parting", "ended"}]
    /\ {session, uses} \subseteq [GateClients -> 0 .. MaxAttaches]
    /\ \A k \in GateClients : outgoing[k] \in Seq(GateFrames) /\ Len(outgoing[k]) <= 1
    /\ tx \in [GateClients -> 0 .. OutCap]
    /\ quit \subseteq FbsClients /\ clients \subseteq Sids
    /\ shardTx \in Seq(GateFrames) /\ Len(shardTx) <= ShardTxCap
    /\ owner \in {"connecting", "attaching", "serving", "writing", "routing"}
    /\ again \subseteq Sids /\ holding \in Seq(GateFrames) /\ Len(holding) <= 1
    /\ gate \in {"none", "up", "cut"} /\ gateBreaks \in 0 .. MaxGateBreaks
    /\ toShard \in Seq(GateFrames) /\ fromShard \in Seq(Sids) /\ inWorld \subseteq Sids

\* What has still to reach the shard about a session, in the order it will.
OnTheWay(k) == toShard \o (IF owner = "writing" THEN holding ELSE <<>>)
                       \o shardTx \o outgoing[k]
LastAbout(s, q) ==
    LET about == {i \in 1 .. Len(q) : q[i].s = s /\ q[i].t # "input"} IN
    IF about = {} THEN "nothing" ELSE q[CHOOSE i \in about : \A j \in about : j <= i].t

WillBeThere(s) ==
    LET last == LastAbout(s, OnTheWay(s[1])) IN
    last = "attach" \/ (last = "nothing" /\ s \in inWorld \cup again)

(* While the link is up, what is under way to the shard leaves there the     *)
(* sessions of the map, whatever was lost with earlier links: nobody plays   *)
(* on without a websocket and no websocket is left without its player.  A    *)
(* FlatBuffers client that sends a DETACH itself is out of step: the map     *)
(* keeps its session and every new link attaches it again.                   *)
GatewayConverges ==
    gate = "up" =>
        \A s \in Sids : s[1] \notin quit => (WillBeThere(s) <=> s \in clients)

(* The shard never refuses a line of a session the gateway still has: its    *)
(* attach, first or repeated, is ahead of its lines.                         *)
LinesFindTheirWorld ==
    toShard # <<>> /\ Head(toShard).t = "input" /\ Head(toShard).s \notin inWorld
        => Head(toShard).s \notin clients \/ Head(toShard).s[1] \in quit

\* Both buffers of the link full, and each side waiting for the other.
GateJammed == /\ gate = "up" /\ Len(toShard) = GateWire /\ Len(fromShard) = GateWire
              /\ owner \in {"writing", "attaching"}
\* The link waits for one client to read.
GateStalled == IF owner = "routing" THEN ~TxRoom(holding[1].s[1]) ELSE FALSE

\* The task of the link has something it can do now.
OwnerCanGoOn ==
    \/ owner = "connecting"
    \/ owner = "attaching" /\ (again = {} \/ CanWrite)
    \/ owner = "serving" /\ (shardTx # <<>> \/ fromShard # <<>> \/ gate = "cut")
    \/ owner = "writing" /\ CanWrite
    \/ IF owner = "routing" THEN TxRoom(holding[1].s[1]) ELSE FALSE

(* A client with something to say to the shard is not kept waiting by the    *)
(* gateway itself, whatever links were lost: somebody can go on, unless the  *)
(* link is jammed or waits for one client to read, and everybody with it.    *)
GatewayNeverStuck ==
    (\E k \in GateClients : wsAt[k] \in {"sending", "parting"}) =>
        \/ GateJammed \/ GateStalled
        \/ OwnerCanGoOn \/ CanServe \/ \E k \in GateClients : CanSend(k)

(* The gateway through cut links, full queues and clients that leave: map   *)
(* and shard come to agree, lines find their players, and nothing but a     *)
(* client that does not read, or a jammed link, holds anybody up.           *)
GatewayInv == /\ GatewayTypeOK /\ GatewayConverges /\ LinesFindTheirWorld
              /\ GatewayNeverStuck

=============================================================================
