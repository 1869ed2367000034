----------------------------- MODULE WebSockets -----------------------------
(***************************************************************************)
(* One session of apps/slopmud_web: the WebSession of a resume token, with *)
(* the tasks of its TCP connection to the broker and the web sockets that  *)
(* attach to it one after the other.  The table that finds the session is  *)
(* in WebSessions; here it may be shut down at any time.                   *)
(***************************************************************************)
EXTENDS Naturals, Sequences

CONSTANTS Sockets,     \* web sockets that found the session
          NoSocket,
          MaxChunks,   \* bound: chunks of output
          BufCap,      \* chunks its buffer keeps
          WsCap        \* capacity of the queue of a web socket's writer

ASSUME SocketCaps ==
    /\ {BufCap, WsCap} \subseteq Nat \ {0} /\ MaxChunks \in Nat
    /\ Sockets \cap {NoSocket, "reading", "ended"} = {}

Closed == 0    \* the message "ERROR: session closed", beside the chunks

VARIABLES
    tcpAlive,  \* tcp_alive
    tcpTold,   \* shutdown_tx was sent
    holder,    \* the web socket attached
    closing,   \* the one mark_tcp_dead has taken and is sending to
    buffer,    \* the last chunks of output
    chunks,    \* chunks read so far
    tcpReader, \* the TCP reader: "reading", "ended", or the socket it sends to
    pc,        \* where the task of each web socket is
    copied,    \* the copy of the buffer it has still to send
    wsQueue,   \* its ws_rx
    got,       \* what its client was sent
    up,        \* its writer runs
    cancel     \* its cancellation token

tcpVars    == <<tcpAlive, tcpTold, closing, buffer, chunks, tcpReader>>
socketVars == <<tcpVars, holder, pc, copied, wsQueue, got, up, cancel>>

SocketInit ==
    /\ tcpAlive = TRUE /\ tcpTold = FALSE /\ holder = NoSocket /\ closing = NoSocket
    /\ buffer = <<>> /\ chunks = 0 /\ tcpReader = "reading"
    /\ pc = [w \in Sockets |-> "found"] /\ copied = [w \in Sockets |-> <<>>]
    /\ wsQueue = [w \in Sockets |-> <<>>] /\ got = [w \in Sockets |-> <<>>]
    /\ up = [w \in Sockets |-> FALSE] /\ cancel = [w \in Sockets |-> FALSE]

SocketAt(w, to) == pc' = [pc EXCEPT ![w] = to]
CutOff(w)   == cancel' = [v \in Sockets |-> cancel[v] \/ v = w]

-----------------------------------------------------------------------------
(* WebSession::attach.                                                      *)

\* An expired session ends the socket.
MayAttach(w) ==
    /\ pc[w] = "found" /\ SocketAt(w, IF tcpAlive THEN "attaching" ELSE "done")
    /\ UNCHANGED <<tcpVars, holder, copied, wsQueue, got, up, cancel>>

\* Under the state's lock the socket takes the place of the one before and a
\* copy of the buffer; then the one before is cut off.
AttachSocket(w) ==
    /\ pc[w] = "attaching" /\ SocketAt(w, "attached")
    /\ holder' = w /\ CutOff(holder)
    /\ copied' = [copied EXCEPT ![w] = buffer] /\ up' = [up EXCEPT ![w] = TRUE]
    /\ UNCHANGED <<tcpVars, wsQueue, got>>

\* ws_tx.send(..).await: waits for room, fails once the writer has ended.
Put(w, m) ==
    \/ up[w] /\ Len(wsQueue[w]) < WsCap /\ wsQueue' = [wsQueue EXCEPT ![w] = Append(@, m)]
    \/ ~up[w] /\ UNCHANGED wsQueue

\* The copy of the buffer goes out, beside whatever the TCP reader sends.
FlushBuffered(w) ==
    /\ pc[w] = "attached" /\ copied[w] # <<>> /\ Put(w, Head(copied[w]))
    /\ copied' = [copied EXCEPT ![w] = IF up[w] THEN Tail(@) ELSE <<>>]
    /\ UNCHANGED <<tcpVars, holder, pc, got, up, cancel>>

WriteSocket(w) ==
    /\ up[w] /\ wsQueue[w] # <<>>
    /\ got' = [got EXCEPT ![w] = Append(@, Head(wsQueue[w]))]
    /\ wsQueue' = [wsQueue EXCEPT ![w] = Tail(@)]
    /\ UNCHANGED <<tcpVars, holder, pc, copied, up, cancel>>

\* The writer ends: cancelled, or the client is gone.
WriterEnds(w) ==
    /\ up[w] /\ up' = [up EXCEPT ![w] = FALSE] /\ wsQueue' = [wsQueue EXCEPT ![w] = <<>>]
    /\ UNCHANGED <<tcpVars, holder, pc, copied, got, cancel>>

\* The client closes: noticed once the copy of the buffer is out.
ClientCloses(w) ==
    /\ pc[w] = "attached" /\ copied[w] = <<>> /\ ~cancel[w] /\ CutOff(w)
    /\ UNCHANGED <<tcpVars, holder, pc, copied, wsQueue, got, up>>

\* Both halves have ended; detach_ws only undoes the socket's own attach.
DetachSocket(w) ==
    /\ pc[w] = "attached" /\ copied[w] = <<>> /\ ~up[w] /\ SocketAt(w, "done")
    /\ CutOff(w) /\ holder' = IF holder = w THEN NoSocket ELSE holder
    /\ UNCHANGED <<tcpVars, copied, wsQueue, got, up>>

-----------------------------------------------------------------------------
(* The tasks of the TCP connection, and WebSession::shutdown.               *)

\* deliver_output: buffered and addressed under one lock, sent after it.
ReadOutput ==
    /\ tcpReader = "reading" /\ chunks < MaxChunks /\ chunks' = chunks + 1
    /\ buffer' = IF Len(buffer) < BufCap THEN Append(buffer, chunks')
                 ELSE Append(Tail(buffer), chunks')
    /\ tcpReader' = IF holder = NoSocket THEN "reading" ELSE holder
    /\ UNCHANGED <<tcpAlive, tcpTold, holder, closing, pc, copied, wsQueue, got, up, cancel>>

SendOutput ==
    /\ tcpReader \in Sockets /\ Put(tcpReader, chunks) /\ tcpReader' = "reading"
    /\ UNCHANGED <<tcpAlive, tcpTold, holder, closing, buffer, chunks, pc, copied, got, up,
                   cancel>>

\* mark_tcp_dead, the locked part: only the first of the two tasks does it.
MarkDead ==
    /\ tcpAlive' = FALSE
    /\ IF tcpAlive THEN closing' = holder /\ holder' = NoSocket
       ELSE UNCHANGED <<closing, holder>>

\* The writer of the connection is told, or cannot write.
TcpWriterEnds ==
    /\ tcpAlive /\ MarkDead
    /\ UNCHANGED <<tcpTold, buffer, chunks, tcpReader, pc, copied, wsQueue, got, up, cancel>>

\* Its reader is told, or reads the end of the stream; it tells the writer.
TcpReaderEnds ==
    /\ tcpReader = "reading" /\ MarkDead /\ tcpReader' = "ended" /\ tcpTold' = TRUE
    /\ UNCHANGED <<buffer, chunks, pc, copied, wsQueue, got, up, cancel>>

\* The client is told that its session is closed, then it is cut off.
Announce ==
    /\ closing # NoSocket /\ Put(closing, Closed)
    /\ CutOff(closing) /\ closing' = NoSocket
    /\ UNCHANGED <<tcpAlive, tcpTold, holder, buffer, chunks, tcpReader, pc, copied, got, up>>

\* The tasks are told; the attached socket is cut off too, unless somebody
\* else has the state locked just then.
ShutDownSocket ==
    /\ ~tcpTold /\ tcpTold' = TRUE
    /\ \/ UNCHANGED <<holder, cancel>>
       \/ holder # NoSocket /\ holder' = NoSocket /\ CutOff(holder)
    /\ UNCHANGED <<tcpAlive, closing, buffer, chunks, tcpReader, pc, copied, wsQueue, got, up>>

-----------------------------------------------------------------------------
SocketTask(w) ==
    MayAttach(w) \/ AttachSocket(w) \/ FlushBuffered(w) \/ DetachSocket(w)

SocketNext ==
    \/ \E w \in Sockets :
         SocketTask(w) \/ WriteSocket(w) \/ WriterEnds(w) \/ ClientCloses(w)
    \/ ReadOutput \/ SendOutput \/ TcpWriterEnds \/ TcpReaderEnds \/ Announce
    \/ ShutDownSocket

SocketSpec == SocketInit /\ [][SocketNext]_socketVars

(* Tasks that can go on do, and those that were told to end do so; a client *)
(* takes what it is sent, or its connection fails.                          *)
SocketFairness ==
    /\ \A w \in Sockets :
         /\ WF_socketVars(SocketTask(w))
         /\ WF_socketVars(wsQueue[w] # <<>> /\ (WriteSocket(w) \/ WriterEnds(w)))
         /\ WF_socketVars(cancel[w] /\ WriterEnds(w))
    /\ WF_socketVars(SendOutput) /\ WF_socketVars(Announce)
    /\ WF_socketVars(tcpTold /\ TcpWriterEnds)

SocketLiveSpec == SocketSpec /\ SocketFairness

-----------------------------------------------------------------------------
(* Types; no queue and no buffer outgrows its bound.                        *)
SocketTypeOK ==
    /\ tcpAlive \in BOOLEAN /\ tcpTold \in BOOLEAN
    /\ {holder, closing} \subseteq Sockets \cup {NoSocket}
    /\ Len(buffer) <= BufCap /\ chunks \in 0 .. MaxChunks
    /\ tcpReader \in {"reading", "ended"} \cup Sockets
    /\ pc \in [Sockets -> {"found", "attaching", "attached", "done"}]
    /\ \A w \in Sockets : Len(wsQueue[w]) <= WsCap /\ Len(copied[w]) <= BufCap
    /\ up \in [Sockets -> BOOLEAN] /\ cancel \in [Sockets -> BOOLEAN]

(* A player is served through one socket: one that runs uncancelled is the  *)
(* one attached, or is about to be cut off.                                 *)
OneSocketEach ==
    \A w \in Sockets : pc[w] = "attached" /\ up[w] /\ ~cancel[w] =>
        holder = w \/ closing = w

\* All that reached the attached socket's client or is on the way to it.
OnItsWay(w) ==
    got[w] \o wsQueue[w] \o copied[w] \o IF tcpReader = w THEN <<chunks>> ELSE <<>>

(* Every chunk the session keeps reaches the attached socket, and once: it  *)
(* was in the copy taken when the socket attached, or came after it.  (The  *)
(* order is another matter: new output may overtake the copy.)              *)
ChunksArriveOnce ==
    \A w \in Sockets : holder = w /\ up[w] =>
        \A i \in 1 .. Len(buffer) : \E j \in 1 .. Len(OnItsWay(w)) :
            \A k \in 1 .. Len(OnItsWay(w)) : OnItsWay(w)[k] = buffer[i] <=> k = j

(* A socket attached to a session that is told to end is let go, even when  *)
(* the state was locked at that moment and its queue is full.               *)
ShutSessionsLetGo ==
    \A w \in Sockets : (tcpAlive /\ tcpTold /\ holder = w) ~> pc[w] = "done"
=============================================================================
