-------------------------- MODULE SessionsProofs --------------------------
(***************************************************************************)
(* Proofs about the sessions of the broker and of the websocket gateway,   *)
(* for any sets of sessions, names and websockets and any capacities.      *)
(* Both arguments follow the messages of one session.  At the broker its   *)
(* own task sends at most one ATTACH and, once out of the map, one DETACH; *)
(* the channel keeps their order; a reconnect starts from the map.  At the *)
(* gateway a session may be attached by its client again and again, so the *)
(* argument is about the last thing that is said of it.  Last, the bytes   *)
(* both are made of: that it does not matter where reads cut them.         *)
(***************************************************************************)
EXTENDS BrokerSessions, GatewaySessions, WireCodecs, DataInduction, SequenceTheorems, TLAPS

-----------------------------------------------------------------------------
(* Messages and queues.                                                    *)

Has(q, m) == \E i \in 1 .. Len(q) : q[i] = m

\* Behind a message d nothing comes that is d or a.
Final(q, d, a) ==
    \A i, j \in 1 .. Len(q) : q[i] = d /\ q[j] \in {a, d} => j <= i

\* Every m has an a ahead of it.
Led(q, m, a) ==
    \A i \in 1 .. Len(q) : q[i] = m => \E j \in 1 .. Len(q) : j < i /\ q[j] = a

(* The requests of sessions are different, and name their session.          *)
LEMMA Messages ==
    ASSUME NEW s \in Sessions, NEW r \in Sessions
    PROVE  /\ Attach(s) \in Requests /\ Detach(s) \in Requests /\ Input(s) \in Requests
           /\ Attach(s) # Detach(r) /\ Attach(s) # Input(r) /\ Detach(s) # Input(r)
           /\ Attach(s) = Attach(r) => s = r
           /\ Detach(s) = Detach(r) => s = r
           /\ Input(s) = Input(r) => s = r
  BY DEF Attach, Detach, Input, Requests

(* There are no other requests.                                             *)
LEMMA Kinds ==
    ASSUME NEW m \in Requests
    PROVE  /\ m.s \in Sessions
           /\ m.t \in {"attach", "detach", "input"}
           /\ m.t = "attach" => m = Attach(m.s)
           /\ m.t = "detach" => m = Detach(m.s)
           /\ m.t = "input" => m = Input(m.s)
  BY DEF Attach, Detach, Input, Requests

(* What taking the head of a queue does to its positions.                   *)
LEMMA Dequeue ==
    ASSUME NEW q \in Seq(Requests), q # <<>>
    PROVE  /\ Head(q) = q[1] /\ Head(q) \in Requests
           /\ Tail(q) \in Seq(Requests) /\ Len(Tail(q)) = Len(q) - 1 /\ Len(q) \in Nat \ {0}
           /\ \A i \in 1 .. Len(q) - 1 : Tail(q)[i] = q[i + 1]
  OBVIOUS

(* A queue of one message.                                                 *)
LEMMA Single ==
    ASSUME NEW q \in Seq(Requests), Len(q) = 1
    PROVE  /\ q # <<>> /\ Head(q) \in Requests /\ Head(q) = q[1]
  OBVIOUS

(* A queue is its head and its tail.                                        *)
LEMMA Rejoined ==
    ASSUME NEW q \in Seq(Requests), q # <<>>
    PROVE  q = <<Head(q)>> \o Tail(q)
<1>1. <<Head(q)>> \in Seq(Requests) /\ Tail(q) \in Seq(Requests) /\ Len(<<Head(q)>>) = 1
  BY Dequeue
<1> DEFINE r == <<Head(q)>> \o Tail(q)
<1>2. /\ r \in Seq(Requests) /\ Len(r) = 1 + Len(Tail(q))
      /\ \A i \in 1 .. 1 + Len(Tail(q)) :
           r[i] = IF i <= 1 THEN <<Head(q)>>[i] ELSE Tail(q)[i - 1]
  BY <1>1, ConcatProperties
<1> HIDE DEF r
<1>3. Len(r) = Len(q) /\ \A i \in 1 .. Len(q) : q[i] = r[i]
  BY <1>2, Dequeue
<1>4. q = r
  BY <1>2, <1>3, SeqEqual
<1> QED BY <1>4 DEF r

(* What adding a message does.                                              *)
LEMMA Enqueue ==
    ASSUME NEW q \in Seq(Requests), NEW m \in Requests
    PROVE  /\ Append(q, m) \in Seq(Requests) /\ Len(Append(q, m)) = Len(q) + 1
           /\ Len(q) \in Nat
           /\ Append(q, m)[Len(q) + 1] = m
           /\ \A i \in 1 .. Len(q) : Append(q, m)[i] = q[i]
  OBVIOUS

(* The predicates on queues, when a message is added.                       *)
LEMMA Appended ==
    ASSUME NEW q \in Seq(Requests), NEW x \in Requests, NEW m, NEW a
    PROVE  /\ Has(Append(q, x), m) <=> Has(q, m) \/ x = m
           /\ LastSays(q, m, a) /\ x # a => LastSays(Append(q, x), m, a)
           /\ x = m => LastSays(Append(q, x), m, a)
           /\ Final(q, m, a) /\ (x \in {a, m} => ~Has(q, m)) => Final(Append(q, x), m, a)
           /\ Led(q, m, a) /\ (x = m => Has(q, a)) => Led(Append(q, x), m, a)
<1> DEFINE p == Append(q, x)
<1>0. /\ Len(p) = Len(q) + 1 /\ Len(q) \in Nat /\ p[Len(q) + 1] = x
      /\ \A i \in 1 .. Len(q) : p[i] = q[i]
  BY Enqueue
<1> HIDE DEF p
<1>1. Has(p, m) <=> Has(q, m) \/ x = m
  BY <1>0 DEF Has
<1>2. LastSays(q, m, a) /\ x # a => LastSays(p, m, a)
  <2> SUFFICES ASSUME LastSays(q, m, a), x # a PROVE LastSays(p, m, a)
    OBVIOUS
  <2>1. PICK i \in 1 .. Len(q) : q[i] = m /\ \A j \in i + 1 .. Len(q) : q[j] # a
    BY DEF LastSays
  <2>2. i \in 1 .. Len(p) /\ p[i] = m /\ \A j \in i + 1 .. Len(p) : p[j] # a
    BY <1>0, <2>1
  <2> QED BY <2>2 DEF LastSays
<1>3. x = m => LastSays(p, m, a)
  <2>1. Len(p) \in 1 .. Len(p) /\ p[Len(p)] = x /\ \A j \in Len(p) + 1 .. Len(p) : p[j] # a
    BY <1>0
  <2> QED BY <2>1 DEF LastSays
<1>4. Final(q, m, a) /\ (x \in {a, m} => ~Has(q, m)) => Final(p, m, a)
  BY <1>0 DEF Final, Has
<1>5. Led(q, m, a) /\ (x = m => Has(q, a)) => Led(p, m, a)
  <2> SUFFICES ASSUME Led(q, m, a), x = m => Has(q, a), NEW i \in 1 .. Len(p), p[i] = m
               PROVE  \E j \in 1 .. Len(p) : j < i /\ p[j] = a
    BY DEF Led
  <2>1. CASE i \in 1 .. Len(q)
    <3>1. PICK j \in 1 .. Len(q) : j < i /\ q[j] = a
      BY <1>0, <2>1 DEF Led
    <3> QED BY <1>0, <3>1
  <2>2. CASE i = Len(q) + 1
    <3>1. PICK j \in 1 .. Len(q) : q[j] = a
      BY <1>0, <2>2 DEF Has
    <3> QED BY <1>0, <2>2, <3>1
  <2> QED BY <1>0, <2>1, <2>2
<1> QED BY <1>1, <1>2, <1>3, <1>4, <1>5 DEF p

(* The predicates on queues, when the head is taken.                        *)
LEMMA Taken ==
    ASSUME NEW q \in Seq(Requests), q # <<>>, NEW m, NEW a
    PROVE  /\ Has(q, m) <=> Head(q) = m \/ Has(Tail(q), m)
           /\ LastSays(q, m, a) => \/ LastSays(Tail(q), m, a)
                                   \/ Head(q) = m /\ ~Has(Tail(q), a)
           /\ Final(q, m, a) => Final(Tail(q), m, a)
           /\ Final(q, m, a) /\ Head(q) = m => ~Has(Tail(q), m) /\ ~Has(Tail(q), a)
           /\ Led(q, m, a) => Head(q) # m /\ (Head(q) = a \/ Led(Tail(q), m, a))
<1> DEFINE p == Tail(q)
<1>0. /\ Len(q) = Len(p) + 1 /\ Len(p) \in Nat /\ Len(q) \in Nat /\ Head(q) = q[1]
      /\ \A i \in 1 .. Len(p) : p[i] = q[i + 1]
      /\ \A i \in 2 .. Len(q) : i - 1 \in 1 .. Len(p) /\ q[i] = p[i - 1]
  BY Dequeue
<1> HIDE DEF p
<1>1. Has(q, m) <=> Head(q) = m \/ Has(p, m)
  <2>1. Has(q, m) => Head(q) = m \/ Has(p, m)
    BY <1>0 DEF Has
  <2>2. Head(q) = m => Has(q, m)
    BY <1>0 DEF Has
  <2>3. Has(p, m) => Has(q, m)
    <3> SUFFICES ASSUME NEW i \in 1 .. Len(p), p[i] = m PROVE \E j \in 1 .. Len(q) : q[j] = m
      BY DEF Has
    <3> QED BY <1>0, i + 1 \in 1 .. Len(q)
  <2> QED BY <2>1, <2>2, <2>3
<1>2. LastSays(q, m, a) => LastSays(p, m, a) \/ (Head(q) = m /\ ~Has(p, a))
  <2> SUFFICES ASSUME NEW i \in 1 .. Len(q), q[i] = m, \A j \in i + 1 .. Len(q) : q[j] # a
               PROVE  LastSays(p, m, a) \/ (Head(q) = m /\ ~Has(p, a))
    BY DEF LastSays
  <2>1. CASE i = 1
    <3>1. \A j \in 1 .. Len(p) : p[j] # a
      BY <1>0, <2>1
    <3> QED BY <1>0, <2>1, <3>1 DEF Has
  <2>2. CASE i \in 2 .. Len(q)
    <3>1. i - 1 \in 1 .. Len(p) /\ p[i - 1] = m
      BY <1>0, <2>2
    <3>2. \A j \in (i - 1) + 1 .. Len(p) : p[j] # a
      BY <1>0, <2>2
    <3>3. \E k \in 1 .. Len(p) : p[k] = m /\ \A j \in k + 1 .. Len(p) : p[j] # a
      BY <3>1, <3>2, Zenon
    <3> QED BY <3>3 DEF LastSays
  <2> QED BY <1>0, <2>1, <2>2
<1>3. Final(q, m, a) => Final(p, m, a)
  <2> SUFFICES ASSUME Final(q, m, a), NEW i \in 1 .. Len(p), NEW j \in 1 .. Len(p),
                      p[i] = m, p[j] \in {a, m}
               PROVE  j <= i
    BY DEF Final
  <2>1. i + 1 \in 1 .. Len(q) /\ j + 1 \in 1 .. Len(q) /\ q[i + 1] = m /\ q[j + 1] \in {a, m}
    BY <1>0
  <2>2. j + 1 <= i + 1
    BY <2>1 DEF Final
  <2> QED BY <1>0, <2>2
<1>4. Final(q, m, a) /\ Head(q) = m => ~Has(p, m) /\ ~Has(p, a)
  <2> SUFFICES ASSUME Final(q, m, a), Head(q) = m, NEW j \in 1 .. Len(p), p[j] \in {a, m}
               PROVE  FALSE
    BY DEF Has
  <2>1. j + 1 \in 1 .. Len(q) /\ 1 \in 1 .. Len(q) /\ q[j + 1] \in {a, m} /\ q[1] = m
    BY <1>0
  <2>2. j + 1 <= 1
    BY <2>1 DEF Final
  <2> QED BY <1>0, <2>2
<1>5. Led(q, m, a) => Head(q) # m /\ (Head(q) = a \/ Led(p, m, a))
  <2> SUFFICES ASSUME Led(q, m, a) PROVE Head(q) # m /\ (Head(q) = a \/ Led(p, m, a))
    OBVIOUS
  <2>1. Head(q) # m
    BY <1>0 DEF Led
  <2>2. ASSUME Head(q) # a, NEW i \in 1 .. Len(p), p[i] = m
        PROVE  \E j \in 1 .. Len(p) : j < i /\ p[j] = a
    <3>1. i + 1 \in 1 .. Len(q) /\ q[i + 1] = m
      BY <1>0, <2>2
    <3>2. PICK k \in 1 .. Len(q) : k < i + 1 /\ q[k] = a
      BY <3>1 DEF Led
    <3>3. k \in 2 .. Len(q)
      BY <1>0, <2>2, <3>2
    <3>4. k - 1 \in 1 .. Len(p) /\ k - 1 < i /\ p[k - 1] = a
      BY <1>0, <3>2, <3>3
    <3> QED BY <3>4
  <2> QED BY <2>1, <2>2 DEF Led
<1> QED BY <1>1, <1>2, <1>3, <1>4, <1>5 DEF p

-----------------------------------------------------------------------------
(* Types, and where the link's task is.                                    *)

\* The task of the link is in its connection loop exactly while there is a
\* link; without one nothing is under way and the shard has no world.
LinkInv ==
    /\ (link = "none") <=> (mgr \in {"connecting", "offline"})
    /\ link # "up" => wire = <<>> /\ attached = {}
    /\ mgr # "reattach" => todo = {}
    /\ mgr # "writing" => held = <<>>
    /\ mgr = "writing" => Len(held) = 1

Base == TypeOK /\ LinkInv

(* The initial state has the types.                                        *)
LEMMA BaseInit == Init => Base
  BY CapsAssumption DEF Init, Base, TypeOK, LinkInv

(* Every step of a connection's task keeps them.                           *)
LEMMA ConnectionBase ==
    ASSUME Base, NEW s \in Sessions, Connection(s)
    PROVE  Base'
<1> USE DEF Base, TypeOK, LinkInv, connVars, mgrVars, linkVars, admVars, Goto, Reading
<1>1. CASE \E n \in Names : ChooseName(s, n)
  BY <1>1 DEF ChooseName
<1>2. CASE AskAgain(s)
  BY <1>2 DEF AskAgain
<1>3. CASE Enter(s)
  BY <1>3 DEF Enter
<1>4. CASE SendAttach(s)
  BY <1>4, Messages DEF SendAttach, Send
<1>5. CASE ReadLine(s)
  BY <1>5 DEF ReadLine
<1>6. CASE SendLine(s)
  BY <1>6, Messages DEF SendLine, Send
<1>7. CASE LeaveLoop(s)
  BY <1>7 DEF LeaveLoop
<1>8. CASE ReadError(s)
  BY <1>8 DEF ReadError
<1>9. CASE LeaveMap(s)
  BY <1>9 DEF LeaveMap
<1>10. CASE SendDetach(s)
  BY <1>10, Messages DEF SendDetach, Send
<1> QED
  BY <1>1, <1>2, <1>3, <1>4, <1>5, <1>6, <1>7, <1>8, <1>9, <1>10 DEF Connection

(* Writing to the link adds the message, or loses it if the link is cut.    *)
LEMMA Written ==
    ASSUME NEW m \in Requests, wire \in Seq(Requests), WriteReq(m)
    PROVE  /\ wire' \in Seq(Requests)
           /\ link # "up" => wire' = wire
           /\ link = "up" => wire' = Append(wire, m)
<1>1. Append(wire, m) \in Seq(Requests)
  BY Enqueue
<1> QED BY <1>1 DEF WriteReq

(* Every step of the link's task keeps them.                               *)
LEMMA ManagerBase ==
    ASSUME Base, Manager
    PROVE  Base'
<1> USE DEF Base, TypeOK, LinkInv, connVars, mgrVars, linkVars, admVars
<1>1. CASE Connect
  BY <1>1 DEF Connect
<1>2. ASSUME NEW s \in Sessions, Reattach(s) PROVE Base'
  <2>1. Attach(s) \in Requests /\ WriteReq(Attach(s))
    BY <1>2, Messages DEF Reattach
  <2>2. /\ mgr = "reattach" /\ todo' = todo \ {s}
        /\ UNCHANGED <<connVars, sessions, chan, mgr, held, link, shardUp, breaks,
                       resp, attached, admVars>>
    BY <1>2 DEF Reattach
  <2>3. wire' \in Seq(Requests) /\ (link # "up" => wire' = wire)
    BY <2>1, Written
  <2> HIDE DEF Base
  <2> QED BY <2>2, <2>3 DEF Base
<1>3. CASE ReattachDone
  BY <1>3 DEF ReattachDone
<1>4. CASE Take
  <2>1. /\ Head(chan) \in Requests /\ Tail(chan) \in Seq(Requests)
    BY <1>4, Dequeue DEF Take
  <2>2. held' \in Seq(Requests) /\ Len(held') = 1
    BY <1>4, <2>1 DEF Take
  <2> QED BY <1>4, <2>1, <2>2 DEF Take
<1>5. CASE Forward
  <2>1. held \in Seq(Requests) /\ Len(held) = 1
    BY <1>5 DEF Forward
  <2>2. Head(held) \in Requests
    BY <2>1, Single
  <2>3. wire' \in Seq(Requests) /\ (link # "up" => wire' = wire)
    BY <1>5, <2>2, Written DEF Forward
  <2> QED BY <1>5, <2>3 DEF Forward
<1>6. CASE Route
  BY <1>6 DEF Route
<1>7. CASE SeeLinkCut
  BY <1>7 DEF SeeLinkCut
<1>8. CASE ConnectFails
  BY <1>8 DEF ConnectFails
<1>9. CASE Drain
  BY <1>9, Dequeue DEF Drain
<1>10. CASE Retry
  BY <1>10 DEF Retry
<1> QED
  BY <1>1, <1>2, <1>3, <1>4, <1>5, <1>6, <1>7, <1>8, <1>9, <1>10 DEF Manager

(* So does every other step.                                               *)
LEMMA OtherBase ==
    ASSUME Base, Admin \/ HandleRequest \/ Break \/ ShardStarts \/ UNCHANGED vars
    PROVE  Base'
<1> USE DEF Base, TypeOK, LinkInv, connVars, mgrVars, linkVars, admVars
<1>1. CASE \E n \in Names : Ban(n) \/ BanUnsaved(n)
  BY <1>1 DEF Ban, BanUnsaved
<1>2. CASE CollectTargets
  BY <1>2 DEF CollectTargets
<1>3. ASSUME NEW s \in Sessions, Kick(s) PROVE Base'
  BY <1>3 DEF Kick
<1>4. CASE KickDone
  BY <1>4 DEF KickDone
<1>5. CASE HandleRequest
  <2>1. Head(wire) \in Requests /\ Tail(wire) \in Seq(Requests)
    BY <1>5, Dequeue DEF HandleRequest
  <2>2. Head(wire).s \in Sessions
    BY <2>1, Kinds
  <2>3. attached' \subseteq Sessions /\ resp' \in Nat
    BY <1>5, <2>2 DEF HandleRequest
  <2> QED BY <1>5, <2>1, <2>3 DEF HandleRequest
<1>6. CASE Break
  <2>1. resp' \in Nat /\ breaks' \in 0 .. MaxBreaks
    BY <1>6, CapsAssumption DEF Break
  <2> QED BY <1>6, <2>1 DEF Break
<1>7. CASE ShardStarts
  BY <1>7 DEF ShardStarts
<1>8. CASE UNCHANGED vars
  BY <1>8 DEF vars
<1> QED
  BY <1>1, <1>2, <1>3, <1>4, <1>5, <1>6, <1>7, <1>8 DEF Admin

(* Base is inductive.                                                      *)
LEMMA BaseStep == Base /\ [Next]_vars => Base'
  BY ConnectionBase, ManagerBase, OtherBase DEF Next

-----------------------------------------------------------------------------
(* Queue, what the link's task has still to forward, under the steps.      *)

(* The message held back is the head of the queue.                         *)
LEMMA QueueIs ==
    ASSUME Base
    PROVE  /\ Queue \in Seq(Requests)
           /\ mgr # "writing" => Queue = chan
           /\ mgr = "writing" => /\ Queue # <<>> /\ Head(Queue) = Head(held)
                                 /\ Tail(Queue) = chan
<1> USE DEF Base, TypeOK, LinkInv, Queue
<1>1. held \in Seq(Requests) /\ chan \in Seq(Requests)
  OBVIOUS
<1>2. Queue \in Seq(Requests)
  BY <1>1, ConcatProperties
<1>3. mgr # "writing" => Queue = chan
  BY <1>1, ConcatEmptySeq
<1>4. ASSUME mgr = "writing"
      PROVE  Queue # <<>> /\ Head(Queue) = Head(held) /\ Tail(Queue) = chan
  <2>1. Len(held) = 1
    BY <1>4
  <2>2. Head(held) = held[1] /\ Len(chan) \in Nat
    BY <1>1, <2>1, Single
  <2>3. /\ Len(held \o chan) = 1 + Len(chan)
        /\ \A i \in 1 .. 1 + Len(chan) :
             (held \o chan)[i] = IF i <= 1 THEN held[i] ELSE chan[i - 1]
    <3> HIDE DEF Base, TypeOK, LinkInv, Queue
    <3>1. /\ Len(held \o chan) = Len(held) + Len(chan)
          /\ \A i \in 1 .. Len(held) + Len(chan) :
               (held \o chan)[i] = IF i <= Len(held) THEN held[i] ELSE chan[i - Len(held)]
      BY <1>1, ConcatProperties
    <3> QED BY <2>1, <3>1
  <2> DEFINE q == held \o chan
  <2>4. q \in Seq(Requests) /\ Len(q) = 1 + Len(chan) /\ q[1] = held[1]
        /\ \A i \in 1 .. Len(chan) : q[i + 1] = chan[i]
    BY <1>2, <2>2, <2>3
  <2> HIDE DEF q
  <2>5. q # <<>>
    BY <2>2, <2>4
  <2>6. Head(q) = q[1] /\ Tail(q) \in Seq(Requests) /\ Len(Tail(q)) = Len(q) - 1
        /\ \A i \in 1 .. Len(q) - 1 : Tail(q)[i] = q[i + 1]
    BY <2>4, <2>5, Dequeue
  <2>7. Tail(q) = chan
    <3>1. Len(Tail(q)) = Len(chan) /\ \A i \in 1 .. Len(Tail(q)) : Tail(q)[i] = chan[i]
      BY <2>2, <2>4, <2>6
    <3> QED BY <1>1, <2>6, <3>1, SeqEqual
  <2> QED BY <2>2, <2>4, <2>5, <2>6, <2>7 DEF q
<1> QED BY <1>2, <1>3, <1>4

(* A task that sends adds to its end.                                      *)
LEMMA QueueSent ==
    ASSUME Base, NEW m \in Requests, chan' = Append(chan, m), UNCHANGED held
    PROVE  Queue' = Append(Queue, m)
<1>1. held \in Seq(Requests) /\ chan \in Seq(Requests) /\ <<m>> \in Seq(Requests)
  BY DEF Base, TypeOK
<1>2. Append(chan, m) = chan \o <<m>> /\ Append(held \o chan, m) = (held \o chan) \o <<m>>
  BY <1>1, QueueIs, AppendIsConcat DEF Queue
<1>3. (held \o chan) \o <<m>> = held \o (chan \o <<m>>)
  BY <1>1, ConcatAssociative
<1> QED BY <1>2, <1>3 DEF Queue

(* Taking a message leaves it in the queue, forwarding or dropping takes    *)
(* the head.                                                                *)
LEMMA QueueTaken ==
    ASSUME Base, Base'
    PROVE  /\ Take => Queue' = Queue
           /\ Forward => Queue # <<>> /\ Head(Queue) = Head(held) /\ Queue' = Tail(Queue)
           /\ Drain => Queue # <<>> /\ Queue' = Tail(Queue)
           /\ UNCHANGED <<held, chan>> => Queue' = Queue
<1>1. ASSUME Take PROVE Queue' = Queue
  <2>1. mgr = "serving" /\ chan # <<>> /\ held' = <<Head(chan)>> /\ chan' = Tail(chan)
    BY <1>1 DEF Take
  <2>2. chan \in Seq(Requests)
    BY DEF Base, TypeOK
  <2>3. Queue = chan
    BY <2>1, QueueIs
  <2>4. chan = <<Head(chan)>> \o Tail(chan)
    BY <2>1, <2>2, Rejoined
  <2>5. Queue' = <<Head(chan)>> \o Tail(chan)
    BY <2>1 DEF Queue
  <2> QED BY <2>3, <2>4, <2>5
<1>2. ASSUME Forward
      PROVE  Queue # <<>> /\ Head(Queue) = Head(held) /\ Queue' = Tail(Queue)
  <2>1. mgr = "writing" /\ mgr' = "serving" /\ chan' = chan
    BY <1>2 DEF Forward
  <2>2. Queue # <<>> /\ Head(Queue) = Head(held) /\ Tail(Queue) = chan
    BY <2>1, QueueIs
  <2>3. held' = <<>> /\ chan' \in Seq(Requests)
    BY <1>2 DEF Forward, Base, TypeOK
  <2>4. Queue' = chan'
    BY <2>3, ConcatEmptySeq DEF Queue
  <2> QED BY <2>1, <2>2, <2>4
<1>3. ASSUME Drain PROVE Queue # <<>> /\ Queue' = Tail(Queue)
  <2>1. mgr = "offline" /\ held' = held /\ held = <<>> /\ chan # <<>> /\ chan' = Tail(chan)
    BY <1>3 DEF Drain, mgrVars, Base, LinkInv
  <2>2. Queue = chan /\ chan' \in Seq(Requests)
    BY <2>1, QueueIs DEF Base, TypeOK
  <2>3. Queue' = chan'
    BY <2>1, <2>2, ConcatEmptySeq DEF Queue
  <2> QED BY <2>1, <2>2, <2>3
<1>4. UNCHANGED <<held, chan>> => Queue' = Queue
  BY DEF Queue
<1> QED BY <1>1, <1>2, <1>3, <1>4

-----------------------------------------------------------------------------
(* The messages of one session, and where its task is.                     *)

\* Where a task can be while its session is in the map, and while it is not.
MapInv(s) ==
    /\ conn[s] \in {"entered", "world", "sending"} => s \in sessions
    /\ conn[s] \in {"naming", "creating", "removed", "closed"} => s \notin sessions

\* The one DETACH is the last message of its session.
DetachInv(s) ==
    /\ Has(Queue, Detach(s)) \/ Has(wire, Detach(s)) => conn[s] = "closed"
    /\ Final(Queue, Detach(s), Attach(s))

\* A session that is not in the map is unknown to the link and the shard,
\* until it has been in it; then an ATTACH under way has the DETACH behind it.
QuietInv(s) ==
    /\ s \notin sessions /\ conn[s] \notin {"removed", "closed"} =>
         /\ ~Has(Queue, Attach(s)) /\ ~Has(Queue, Input(s))
         /\ ~Has(wire, Attach(s)) /\ ~Has(wire, Input(s))
         /\ s \notin attached /\ s \notin todo
    /\ conn[s] = "closed" /\ Has(Queue, Attach(s)) => Has(Queue, Detach(s))

\* A session in the map is attached, or an ATTACH is still to come.
ComingInv(s) ==
    link = "up" /\ s \in sessions =>
      \/ conn[s] = "entered" \/ Has(Queue, Attach(s)) \/ s \in todo
      \/ Has(wire, Attach(s)) \/ s \in attached

\* A connection that is over and has no DETACH left to forward is not
\* attached and will not be.
GoingInv(s) ==
    link = "up" /\ conn[s] = "closed" /\ ~Has(Queue, Detach(s)) =>
      /\ s \notin todo
      /\ \/ s \notin attached /\ ~Has(wire, Attach(s))
         \/ LastSays(wire, Detach(s), Attach(s))

\* Lines follow an ATTACH, on the wire and in the queue.
LinesInv(s) ==
    link = "up" /\ s \in sessions =>
      /\ s \in attached \/ Led(wire, Input(s), Attach(s))
      /\ \/ s \in attached \/ s \in todo \/ Has(wire, Attach(s))
         \/ Led(Queue, Input(s), Attach(s))

Life(s) ==
    /\ MapInv(s) /\ DetachInv(s) /\ QuietInv(s)
    /\ ComingInv(s) /\ GoingInv(s) /\ LinesInv(s)

(* Nothing is in an empty queue, and nothing is led by nothing.             *)
LEMMA EmptyQueue ==
    ASSUME NEW m, NEW a
    PROVE  /\ ~Has(<<>>, m) /\ Final(<<>>, m, a) /\ Led(<<>>, m, a)
           /\ \A q : ~Has(q, m) => Led(q, m, a)
  BY DEF Has, Final, Led

(* A task's move changes its own place only.                               *)
LEMMA Moves ==
    ASSUME Base, NEW s \in Sessions, NEW r \in Sessions, NEW pc, Goto(r, pc)
    PROVE  conn'[s] = IF s = r THEN pc ELSE conn[s]
  BY DEF Base, TypeOK, Goto

(* A step that another task takes, elsewhere, leaves a session its life.    *)
LEMMA Elsewhere ==
    ASSUME NEW s \in Sessions, Life(s),
           conn'[s] = conn[s], s \in sessions' <=> s \in sessions,
           s \in todo' <=> s \in todo, s \in attached' <=> s \in attached,
           UNCHANGED <<Queue, wire, link>>
    PROVE  Life(s)'
  BY DEF Life, MapInv, DetachInv, QuietInv, ComingInv, GoingInv, LinesInv

(* So does the message of another session at the end of the queue.          *)
LEMMA OthersMessage ==
    ASSUME Base, NEW s \in Sessions, Life(s), NEW x \in Requests,
           x \notin {Attach(s), Detach(s), Input(s)},
           Queue' = Append(Queue, x), conn'[s] = conn[s],
           UNCHANGED <<sessions, todo, attached, wire, link>>
    PROVE  Life(s)'
<1> DEFINE A == Attach(s)
           D == Detach(s)
           I == Input(s)
<1>1. Queue \in Seq(Requests)
  BY QueueIs
<1>2. /\ Has(Queue', A) <=> Has(Queue, A)
      /\ Has(Queue', D) <=> Has(Queue, D)
      /\ Has(Queue', I) <=> Has(Queue, I)
      /\ Final(Queue, D, A) => Final(Queue', D, A)
      /\ Led(Queue, I, A) => Led(Queue', I, A)
  BY <1>1, Appended
<1> QED
  BY <1>2 DEF Life, MapInv, DetachInv, QuietInv, ComingInv, GoingInv, LinesInv

(* The steps of the session's own task.                                    *)
LEMMA OwnLife ==
    ASSUME Base, NEW s \in Sessions, Life(s), Connection(s)
    PROVE  Life(s)'
<1> DEFINE A == Attach(s)
           D == Detach(s)
           I == Input(s)
<1> USE DEF Life
<1>1. Queue \in Seq(Requests)
  BY QueueIs
<1>2. /\ A \in Requests /\ D \in Requests /\ I \in Requests
      /\ A # D /\ A # I /\ D # I
  BY Messages
<1>3. ASSUME \/ conn'[s] \in {"naming", "creating"} /\ conn[s] \in {"naming", "creating"}
             \/ conn'[s] = "sending" /\ conn[s] = "world"
             \/ /\ conn'[s] \in {"leaving", "failed"}
                /\ conn[s] \in {"naming", "creating", "world"},
             UNCHANGED <<sessions, chan, mgrVars, linkVars>>
      PROVE  Life(s)'
  <2>1. Queue' = Queue
    BY <1>3 DEF Queue, mgrVars
  <2> QED
    BY <1>3, <2>1 DEF mgrVars, linkVars, MapInv, DetachInv, QuietInv, ComingInv, GoingInv, LinesInv
<1>4. CASE \E n \in Names : ChooseName(s, n)
  BY <1>3, <1>4, Moves DEF ChooseName
<1>5. CASE AskAgain(s)
  BY <1>3, <1>5, Moves DEF AskAgain
<1>6. CASE Enter(s)
  <2>1. /\ conn[s] = "creating" /\ conn'[s] = "entered" /\ Queue' = Queue
        /\ sessions' = sessions \cup {s} /\ UNCHANGED <<todo, linkVars>>
    BY <1>6, Moves DEF Enter, Queue, mgrVars
  <2>2. Led(wire, I, A) /\ Led(Queue, I, A)
    BY <2>1, EmptyQueue DEF MapInv, QuietInv
  <2> QED
    BY <2>1, <2>2
    DEF linkVars, MapInv, DetachInv, QuietInv, ComingInv, GoingInv, LinesInv
<1>7. CASE SendAttach(s)
  <2>1. /\ conn[s] = "entered" /\ conn'[s] = "world" /\ Queue' = Append(Queue, A)
        /\ UNCHANGED <<sessions, todo, linkVars>>
    BY <1>2, <1>7, Moves, QueueSent DEF SendAttach, Send, mgrVars
  <2>2. /\ Has(Queue', A)
        /\ Has(Queue', D) <=> Has(Queue, D)
        /\ Final(Queue, D, A) /\ ~Has(Queue, D) => Final(Queue', D, A)
        /\ Led(Queue, I, A) => Led(Queue', I, A)
    BY <1>1, <1>2, <2>1, Appended
  <2> QED
    BY <2>1, <2>2
    DEF linkVars, MapInv, DetachInv, QuietInv, ComingInv, GoingInv, LinesInv
<1>8. CASE ReadLine(s)
  BY <1>3, <1>8, Moves DEF ReadLine
<1>9. CASE SendLine(s)
  <2>1. /\ conn[s] = "sending" /\ conn'[s] = "world" /\ Queue' = Append(Queue, I)
        /\ UNCHANGED <<sessions, todo, linkVars>>
    BY <1>2, <1>9, Moves, QueueSent DEF SendLine, Send, mgrVars
  <2>2. /\ Has(Queue', A) <=> Has(Queue, A)
        /\ Has(Queue', D) <=> Has(Queue, D)
        /\ Final(Queue, D, A) => Final(Queue', D, A)
        /\ Led(Queue, I, A) /\ Has(Queue, A) => Led(Queue', I, A)
    BY <1>1, <1>2, <2>1, Appended
  <2> QED
    BY <2>1, <2>2
    DEF linkVars, MapInv, DetachInv, QuietInv, ComingInv, GoingInv, LinesInv
<1>10. CASE LeaveLoop(s)
  BY <1>3, <1>10, Moves DEF LeaveLoop, Reading
<1>11. CASE ReadError(s)
  BY <1>3, <1>11, Moves DEF ReadError, Reading
<1>12. CASE LeaveMap(s)
  <2>1. /\ conn[s] = "leaving" /\ conn'[s] = (IF s \in sessions THEN "removed" ELSE "closed")
        /\ Queue' = Queue /\ sessions' = sessions \ {s} /\ UNCHANGED <<todo, linkVars>>
    BY <1>12, Moves DEF LeaveMap, Queue, mgrVars
  <2> QED
    BY <2>1 DEF linkVars, MapInv, DetachInv, QuietInv, ComingInv, GoingInv, LinesInv
<1>13. CASE SendDetach(s)
  <2>1. /\ conn[s] = "removed" /\ conn'[s] = "closed" /\ Queue' = Append(Queue, D)
        /\ UNCHANGED <<sessions, todo, linkVars>>
    BY <1>2, <1>13, Moves, QueueSent DEF SendDetach, Send, mgrVars
  <2>2. Has(Queue', D) /\ (Final(Queue, D, A) /\ ~Has(Queue, D) => Final(Queue', D, A))
    BY <1>1, <1>2, <2>1, Appended
  <2> QED
    BY <2>1, <2>2
    DEF linkVars, MapInv, DetachInv, QuietInv, ComingInv, GoingInv, LinesInv
<1> QED
  BY <1>4, <1>5, <1>6, <1>7, <1>8, <1>9, <1>10, <1>11, <1>12, <1>13 DEF Connection

(* The steps of another connection's task.                                 *)
LEMMA OtherLife ==
    ASSUME Base, NEW s \in Sessions, Life(s), NEW r \in Sessions, r # s, Connection(r)
    PROVE  Life(s)'
<1>1. ASSUME NEW pc, Goto(r, pc) PROVE conn'[s] = conn[s]
  BY <1>1, Moves
<1>2. conn'[s] = conn[s] /\ (s \in sessions' <=> s \in sessions)
      /\ UNCHANGED <<mgrVars, linkVars>>
  BY <1>1 DEF Connection, ChooseName, AskAgain, Enter, SendAttach, ReadLine, SendLine,
              LeaveLoop, ReadError, LeaveMap, SendDetach, Send
<1>3. CASE UNCHANGED chan
  <2>1. Queue' = Queue
    BY <1>2, <1>3 DEF Queue, mgrVars
  <2> QED BY <1>2, <2>1, Elsewhere DEF mgrVars, linkVars
<1>4. ASSUME NEW x \in {Attach(r), Detach(r), Input(r)}, chan' = Append(chan, x),
             UNCHANGED sessions
      PROVE  Life(s)'
  <2>1. x \in Requests /\ x \notin {Attach(s), Detach(s), Input(s)}
    BY Messages
  <2>2. Queue' = Append(Queue, x)
    BY <1>2, <1>4, <2>1, QueueSent DEF mgrVars
  <2> QED BY <1>2, <1>4, <2>1, <2>2, OthersMessage DEF mgrVars, linkVars
<1>5. CASE SendAttach(r) \/ SendLine(r) \/ SendDetach(r)
  BY <1>4, <1>5 DEF SendAttach, SendLine, SendDetach, Send
<1>6. UNCHANGED chan \/ SendAttach(r) \/ SendLine(r) \/ SendDetach(r)
  BY DEF Connection, ChooseName, AskAgain, Enter, ReadLine, LeaveLoop, ReadError, LeaveMap
<1> QED BY <1>3, <1>5, <1>6

(* The steps of the link's task.                                           *)
LEMMA ManagerLife ==
    ASSUME Base, Base', NEW s \in Sessions, Life(s), Manager
    PROVE  Life(s)'
<1> DEFINE A == Attach(s)
           D == Detach(s)
           I == Input(s)
<1>1. Queue \in Seq(Requests) /\ wire \in Seq(Requests)
  BY QueueIs DEF Base, TypeOK
<1>2. /\ A \in Requests /\ D \in Requests /\ I \in Requests
      /\ A # D /\ A # I /\ D # I
  BY Messages
<1>3. CASE Connect
  <2>1. /\ link = "none" /\ link' = "up" /\ todo' = sessions /\ Queue' = Queue
        /\ wire = <<>> /\ attached = {}
        /\ UNCHANGED <<conn, sessions, wire, attached>>
    BY <1>3 DEF Connect, connVars, Queue, Base, LinkInv
  <2>2. ~Has(wire', A) /\ Led(wire', I, A)
    BY <2>1, EmptyQueue
  <2> QED
    BY <2>1, <2>2
    DEF Life, MapInv, DetachInv, QuietInv, ComingInv, GoingInv, LinesInv
<1>4. ASSUME NEW r \in Sessions, Reattach(r) PROVE Life(s)'
  <2>1. /\ r \in todo /\ todo' = todo \ {r} /\ Queue' = Queue
        /\ UNCHANGED <<conn, sessions, attached, link>>
    BY <1>4 DEF Reattach, connVars, Queue
  <2>2. Attach(r) \in Requests /\ (r # s => Attach(r) \notin {A, D, I})
    BY Messages
  <2>3. /\ link # "up" => wire' = wire
        /\ link = "up" => wire' = Append(wire, Attach(r))
    BY <1>1, <1>4, <2>2, Written DEF Reattach
  <2>4. CASE link # "up"
    BY <2>1, <2>3, <2>4
    DEF Life, MapInv, DetachInv, QuietInv, ComingInv, GoingInv, LinesInv
  <2>5. CASE link = "up"
    <3>1. /\ Has(wire', A) <=> Has(wire, A) \/ r = s
          /\ Has(wire', D) <=> Has(wire, D)
          /\ Has(wire', I) <=> Has(wire, I)
          /\ LastSays(wire, D, A) /\ r # s => LastSays(wire', D, A)
          /\ Led(wire, I, A) => Led(wire', I, A)
      <4> DEFINE x == Attach(r)
      <4>1. wire' = Append(wire, x) /\ x \in Requests /\ (x = A <=> r = s) /\ x # D /\ x # I
        BY <2>2, <2>3, <2>5, Messages
      <4> HIDE DEF x, A, D, I
      <4> QED BY <1>1, <1>2, <4>1, Appended
    <3> QED
      BY <2>1, <3>1
      DEF Life, MapInv, DetachInv, QuietInv, ComingInv, GoingInv, LinesInv
  <2> QED BY <2>4, <2>5
<1>5. CASE Take
  <2>1. Queue' = Queue
    BY <1>5, QueueTaken
  <2> QED BY <1>5, <2>1, Elsewhere DEF Take, connVars, linkVars
<1>6. CASE Forward \/ Drain
  <2> DEFINE x == Head(Queue)
  <2>1. /\ Queue # <<>> /\ Queue' = Tail(Queue) /\ todo = {}
        /\ UNCHANGED <<conn, sessions, todo, attached, link>>
    BY <1>6, QueueTaken DEF Forward, Drain, connVars, linkVars, mgrVars, Base, LinkInv
  <2>2. x \in Requests
    BY <1>1, <2>1, Dequeue
  <2>3. /\ link # "up" => wire' = wire
        /\ link = "up" => wire' = Append(wire, x)
    <3>1. CASE Forward
      BY <1>1, <2>2, <3>1, QueueTaken, Written DEF Forward
    <3>2. CASE Drain
      BY <3>2 DEF Drain, linkVars, Base, LinkInv
    <3> QED BY <1>6, <3>1, <3>2
  <2>4. /\ Has(Queue, A) <=> x = A \/ Has(Queue', A)
        /\ Has(Queue, D) <=> x = D \/ Has(Queue', D)
        /\ Has(Queue, I) <=> x = I \/ Has(Queue', I)
        /\ Final(Queue, D, A) => Final(Queue', D, A)
        /\ Final(Queue, D, A) /\ x = D => ~Has(Queue', A)
        /\ Led(Queue, I, A) => x # I /\ (x = A \/ Led(Queue', I, A))
    BY <1>1, <2>1, Taken
  <2>5. CASE link # "up"
    BY <2>1, <2>3, <2>4, <2>5
    DEF Life, MapInv, DetachInv, QuietInv, ComingInv, GoingInv, LinesInv
  <2>6. CASE link = "up"
    <3>1. /\ Has(wire', A) <=> Has(wire, A) \/ x = A
          /\ Has(wire', D) <=> Has(wire, D) \/ x = D
          /\ Has(wire', I) <=> Has(wire, I) \/ x = I
          /\ LastSays(wire, D, A) /\ x # A => LastSays(wire', D, A)
          /\ x = D => LastSays(wire', D, A)
          /\ Led(wire, I, A) /\ (x = I => Has(wire, A)) => Led(wire', I, A)
      <4>1. wire' = Append(wire, x)
        BY <2>3, <2>6
      <4> HIDE DEF x, A, D, I
      <4> QED BY <1>1, <2>2, <4>1, Appended
    <3> HIDE DEF x
    <3>2. MapInv(s)' /\ DetachInv(s)' /\ QuietInv(s)'
      BY <1>2, <2>1, <2>4, <3>1 DEF Life, MapInv, DetachInv, QuietInv
    <3>3. ComingInv(s)' /\ GoingInv(s)' /\ LinesInv(s)'
      BY <1>2, <2>1, <2>4, <3>1 DEF Life, ComingInv, GoingInv, LinesInv, QuietInv
    <3> QED BY <3>2, <3>3 DEF Life
  <2> QED BY <2>5, <2>6
<1>7. CASE ReattachDone \/ Route \/ ConnectFails \/ Retry
  <2>1. Queue' = Queue /\ UNCHANGED <<conn, sessions, todo, attached, wire, link>>
    BY <1>7 DEF ReattachDone, Route, ConnectFails, Retry, connVars, linkVars, mgrVars, Queue
  <2> QED BY <2>1, Elsewhere
<1>8. CASE SeeLinkCut
  <2>1. /\ Queue' = Queue /\ UNCHANGED <<conn, sessions, todo, attached, wire>>
        /\ link' = "none"
    BY <1>8 DEF SeeLinkCut, connVars, Queue
  <2> QED
    BY <2>1 DEF Life, MapInv, DetachInv, QuietInv, ComingInv, GoingInv, LinesInv
<1> QED
  BY <1>3, <1>4, <1>5, <1>6, <1>7, <1>8 DEF Manager

(* The shard handles a request, or everything on the wire is lost.          *)
LEMMA ShardLife ==
    ASSUME Base, NEW s \in Sessions, Life(s), HandleRequest \/ Break \/ ShardStarts
    PROVE  Life(s)'
<1> DEFINE A == Attach(s)
           D == Detach(s)
           I == Input(s)
<1>1. wire \in Seq(Requests) /\ A # D /\ A # I /\ D # I
  BY Messages DEF Base, TypeOK
<1>2. CASE HandleRequest
  <2> DEFINE x == Head(wire)
  <2>1. /\ link = "up" /\ wire # <<>> /\ wire' = Tail(wire) /\ Queue' = Queue
        /\ UNCHANGED <<conn, sessions, todo, link>>
    BY <1>2 DEF HandleRequest, connVars, mgrVars, Queue
  <2>2. x \in Requests
    BY <1>1, <2>1, Dequeue
  <2>3. s \in attached' <=> x = A \/ (s \in attached /\ x # D)
    <3>1. CASE x.t = "attach"
      <4>1. x = Attach(x.s) /\ x # D /\ (x = A <=> x.s = s)
        BY <2>2, <3>1, Kinds, Messages
      <4> QED BY <1>2, <3>1, <4>1 DEF HandleRequest
    <3>2. CASE x.t = "detach"
      <4>1. x = Detach(x.s) /\ x # A /\ (x = D <=> x.s = s)
        BY <2>2, <3>2, Kinds, Messages
      <4> QED BY <1>2, <3>2, <4>1 DEF HandleRequest
    <3>3. CASE x.t = "input"
      <4>1. x = Input(x.s) /\ x # A /\ x # D
        BY <2>2, <3>3, Kinds, Messages
      <4> QED BY <1>2, <3>3, <4>1 DEF HandleRequest
    <3> QED BY <2>2, <3>1, <3>2, <3>3, Kinds
  <2>4. /\ Has(wire, A) <=> x = A \/ Has(wire', A)
        /\ Has(wire, D) <=> x = D \/ Has(wire', D)
        /\ Has(wire, I) <=> x = I \/ Has(wire', I)
        /\ LastSays(wire, D, A) => LastSays(wire', D, A) \/ (x = D /\ ~Has(wire', A))
        /\ Led(wire, I, A) => x = A \/ Led(wire', I, A)
    BY <1>1, <2>1, Taken
  <2> HIDE DEF x
  <2>5. MapInv(s)' /\ DetachInv(s)' /\ QuietInv(s)'
    BY <1>1, <2>1, <2>3, <2>4 DEF Life, MapInv, DetachInv, QuietInv
  <2>6. ComingInv(s)' /\ GoingInv(s)' /\ LinesInv(s)'
    BY <1>1, <2>1, <2>3, <2>4
    DEF Life, MapInv, DetachInv, ComingInv, GoingInv, LinesInv
  <2> QED BY <2>5, <2>6 DEF Life
<1>3. CASE Break
  <2>1. /\ link' = "cut" /\ wire' = <<>> /\ attached' = {} /\ Queue' = Queue
        /\ UNCHANGED <<conn, sessions, todo>>
    BY <1>3 DEF Break, connVars, mgrVars, Queue
  <2>2. ~Has(wire', A) /\ ~Has(wire', D) /\ ~Has(wire', I)
    BY <2>1, EmptyQueue
  <2> QED
    BY <2>1, <2>2
    DEF Life, MapInv, DetachInv, QuietInv, ComingInv, GoingInv, LinesInv
<1>4. CASE ShardStarts
  <2>1. Queue' = Queue /\ UNCHANGED <<conn, sessions, todo, attached, wire, link>>
    BY <1>4 DEF ShardStarts, connVars, mgrVars, Queue
  <2> QED BY <2>1, Elsewhere
<1> QED BY <1>2, <1>3, <1>4

(* What is true of every session in every state.                           *)
IInv == Base /\ \A s \in Sessions : Life(s)

(* It holds initially.                                                     *)
LEMMA IInvInit == Init => IInv
<1> SUFFICES ASSUME Init PROVE IInv
  OBVIOUS
<1>1. Base
  BY BaseInit
<1>2. Queue = <<>>
  BY <1>1, QueueIs DEF Init
<1>3. ASSUME NEW s \in Sessions PROVE Life(s)
  <2>1. /\ conn[s] = "naming" /\ s \notin sessions /\ link = "none" /\ wire = <<>>
        /\ s \notin attached /\ s \notin todo
    BY DEF Init
  <2> QED
    BY <1>2, <2>1, EmptyQueue
    DEF Life, MapInv, DetachInv, QuietInv, ComingInv, GoingInv, LinesInv
<1> QED BY <1>1, <1>3 DEF IInv

(* Every step keeps it.                                                    *)
LEMMA IInvStep == IInv /\ [Next]_vars => IInv'
<1> SUFFICES ASSUME IInv, [Next]_vars PROVE IInv'
  OBVIOUS
<1>1. Base /\ Base'
  BY BaseStep DEF IInv
<1>2. ASSUME NEW s \in Sessions PROVE Life(s)'
  <2>1. Life(s)
    BY DEF IInv
  <2>2. ASSUME NEW r \in Sessions, Connection(r) PROVE Life(s)'
    BY <1>1, <2>1, <2>2, OwnLife, OtherLife
  <2>3. CASE Manager
    BY <1>1, <2>1, <2>3, ManagerLife
  <2>4. CASE HandleRequest \/ Break \/ ShardStarts
    BY <1>1, <2>1, <2>4, ShardLife
  <2>5. CASE Admin \/ UNCHANGED vars
    <3>1. /\ conn' = conn
          /\ UNCHANGED <<sessions, chan, mgrVars, linkVars>>
      BY <2>5 DEF Admin, Ban, BanUnsaved, CollectTargets, Kick, KickDone, connVars, vars
    <3>2. Queue' = Queue /\ UNCHANGED <<todo, attached, wire, link>>
      BY <3>1 DEF Queue, mgrVars, linkVars
    <3> QED BY <2>1, <3>1, <3>2, Elsewhere
  <2> QED BY <2>2, <2>3, <2>4, <2>5 DEF Next
<1> QED BY <1>1, <1>2 DEF IInv

(* The inductive invariant holds in every behaviour.                       *)
LEMMA IInvHolds == Spec => []IInv
  BY IInvInit, IInvStep, PTL DEF Spec

-----------------------------------------------------------------------------
(* The invariants.                                                         *)

(* What a queue comes down to for the shard.                               *)
LEMMA Sums ==
    ASSUME NEW q \in Seq(Requests), NEW a, NEW d, a # d
    PROVE  /\ ~Has(q, d) => (LastSays(q, a, d) <=> Has(q, a)) /\ ~LastSays(q, d, a)
           /\ ~Has(q, a) => ~LastSays(q, a, d)
           /\ Has(q, d) /\ Final(q, d, a) => LastSays(q, d, a)
           /\ LastSays(q, d, a) => ~LastSays(q, a, d)
<1>0. Len(q) \in Nat
  OBVIOUS
<1>1. ASSUME ~Has(q, d) PROVE (LastSays(q, a, d) <=> Has(q, a)) /\ ~LastSays(q, d, a)
  BY <1>0, <1>1 DEF Has, LastSays
<1>2. ASSUME ~Has(q, a) PROVE ~LastSays(q, a, d)
  BY <1>2 DEF Has, LastSays
<1>3. ASSUME Has(q, d), Final(q, d, a) PROVE LastSays(q, d, a)
  <2>1. PICK i \in 1 .. Len(q) : q[i] = d
    BY <1>3 DEF Has
  <2>2. \A j \in i + 1 .. Len(q) : q[j] # a
    BY <1>0, <1>3, <2>1 DEF Final
  <2> QED BY <2>1, <2>2 DEF LastSays
<1>4. ASSUME LastSays(q, d, a), LastSays(q, a, d) PROVE FALSE
  <2>1. PICK i \in 1 .. Len(q) : q[i] = d /\ \A j \in i + 1 .. Len(q) : q[j] # a
    BY <1>4 DEF LastSays
  <2>2. PICK k \in 1 .. Len(q) : q[k] = a /\ \A j \in k + 1 .. Len(q) : q[j] # d
    BY <1>4 DEF LastSays
  <2> QED BY <1>0, <2>1, <2>2
<1> QED BY <1>1, <1>2, <1>3, <1>4

(* Every variable keeps its type.                                          *)
THEOREM TypeCorrect == Spec => []TypeOK
<1>1. IInv => TypeOK
  BY DEF IInv, Base
<1> QED BY <1>1, IInvHolds, PTL

(* A session outlives its connection in the map only after a read error:    *)
(* every other way out of handle_conn's read loop passes the cleanup.       *)
THEOREM OnlyErrorsLeaveGhostsHolds == Spec => []OnlyErrorsLeaveGhosts
<1>1. ASSUME IInv, NEW s \in sessions
      PROVE  conn[s] \in {"entered", "world", "sending", "leaving", "failed"}
  <2>1. s \in Sessions /\ conn[s] \in {"naming", "creating", "entered", "world", "sending",
                                       "leaving", "removed", "closed", "failed"}
    BY <1>1 DEF IInv, Base, TypeOK
  <2>2. MapInv(s)
    BY <1>1, <2>1 DEF IInv, Life
  <2> QED BY <1>1, <2>1, <2>2 DEF MapInv
<1>2. IInv => OnlyErrorsLeaveGhosts
  BY <1>1 DEF OnlyErrorsLeaveGhosts
<1> QED BY <1>2, IInvHolds, PTL

(* The shard never answers "not attached" to a session the broker has.      *)
THEOREM LinesFindTheirSessionHolds == Spec => []LinesFindTheirSession
<1>1. ASSUME IInv, NEW s \in sessions, wire # <<>>, Head(wire) = Input(s)
      PROVE  s \in attached
  <2>1. s \in Sessions /\ wire \in Seq(Requests) /\ link = "up"
    BY <1>1 DEF IInv, Base, TypeOK, LinkInv
  <2>2. s \in attached \/ Led(wire, Input(s), Attach(s))
    BY <1>1, <2>1 DEF IInv, Life, LinesInv
  <2>3. Led(wire, Input(s), Attach(s)) => Head(wire) # Input(s)
    BY <1>1, <2>1, Taken
  <2> QED BY <1>1, <2>2, <2>3
<1>2. IInv => LinesFindTheirSession
  BY <1>1 DEF LinesFindTheirSession
<1> QED BY <1>2, IInvHolds, PTL

(* While the link is up, what the shard holds and what is under way to it   *)
(* add up to the broker's map.                                             *)
THEOREM ShardConvergesHolds == Spec => []ShardConverges
<1>1. ASSUME IInv, link = "up", NEW s \in Sessions
      PROVE  ShardWillHold(s) <=> s \in sessions
  <2> DEFINE A == Attach(s)
             D == Detach(s)
             I == Input(s)
  <2>1. Queue \in Seq(Requests) /\ wire \in Seq(Requests) /\ A # D
    BY <1>1, QueueIs, Messages DEF IInv, Base, TypeOK
  <2>2. /\ MapInv(s) /\ DetachInv(s) /\ QuietInv(s)
        /\ ComingInv(s) /\ GoingInv(s) /\ LinesInv(s)
    BY <1>1 DEF IInv, Life
  <2>3. ASSUME NEW q \in Seq(Requests)
        PROVE  /\ ~Has(q, D) => (LastSays(q, A, D) <=> Has(q, A)) /\ ~LastSays(q, D, A)
               /\ ~Has(q, A) => ~LastSays(q, A, D)
               /\ Has(q, D) /\ Final(q, D, A) => LastSays(q, D, A)
               /\ LastSays(q, D, A) => ~LastSays(q, A, D)
    BY <2>1, Sums
  <2>4. ASSUME NEW q \in Seq(Requests), NEW b \in BOOLEAN
        PROVE  /\ ~Has(q, D) => (After(q, s, b) <=> Has(q, A) \/ b)
               /\ LastSays(q, D, A) => ~After(q, s, b)
    BY <2>3 DEF After
  <2>5. CASE s \in sessions
    <3>1. conn[s] # "removed" /\ conn[s] # "closed"
      BY <2>2, <2>5 DEF MapInv
    <3>2. ~Has(Queue, D) /\ ~Has(wire, D)
      BY <2>2, <3>1 DEF DetachInv
    <3>3. After(wire, s, s \in attached) <=> Has(wire, A) \/ s \in attached
      BY <2>1, <2>3, <3>2 DEF After
    <3>4. After(Queue, s, After(wire, s, s \in attached) \/ s \in todo)
            <=> Has(Queue, A) \/ Has(wire, A) \/ s \in attached \/ s \in todo
      BY <2>1, <2>4, <3>2, <3>3
    <3> QED BY <1>1, <2>2, <2>5, <3>1, <3>4 DEF ComingInv, ShardWillHold
  <2>6. CASE s \notin sessions
    <3>1. conn[s] # "entered"
      BY <2>2, <2>6 DEF MapInv
    <3>2. CASE conn[s] = "removed"
      BY <2>6, <3>2 DEF ShardWillHold
    <3>3. CASE Has(Queue, D)
      <4>1. LastSays(Queue, D, A)
        BY <2>1, <2>2, <2>3, <3>3 DEF DetachInv
      <4> QED BY <2>1, <2>4, <2>6, <3>1, <4>1 DEF ShardWillHold
    <3>4. CASE conn[s] # "removed" /\ ~Has(Queue, D)
      <4>1. ~Has(Queue, A) /\ s \notin todo
            /\ ((s \notin attached /\ ~Has(wire, A)) \/ LastSays(wire, D, A))
        BY <1>1, <2>2, <2>6, <3>4 DEF QuietInv, GoingInv
      <4>2. ~After(wire, s, s \in attached)
        BY <2>1, <2>3, <2>4, <4>1 DEF After
      <4>3. ~After(Queue, s, After(wire, s, s \in attached) \/ s \in todo)
        BY <2>1, <2>4, <3>4, <4>1, <4>2
      <4> QED BY <2>6, <3>1, <4>3 DEF ShardWillHold
    <3> QED BY <3>2, <3>3, <3>4
  <2> QED BY <2>5, <2>6
<1>2. IInv => ShardConverges
  BY <1>1 DEF ShardConverges
<1> QED BY <1>2, IInvHolds, PTL

-----------------------------------------------------------------------------
(* The gateway.  What is under way is a queue of several pieces; these are   *)
(* the predicates on queues for pieces that are joined.                      *)

(* What is in one of the pieces is in the whole.                             *)
LEMMA JoinedHas ==
    ASSUME NEW M, NEW q \in Seq(M), NEW r \in Seq(M), NEW m
    PROVE  Has(q \o r, m) <=> Has(q, m) \/ Has(r, m)
<1> DEFINE p == q \o r
<1>1. /\ Len(p) = Len(q) + Len(r) /\ Len(q) \in Nat /\ Len(r) \in Nat
      /\ \A i \in 1 .. Len(q) : p[i] = q[i]
      /\ \A i \in 1 .. Len(r) : p[Len(q) + i] = r[i]
  BY ConcatProperties
<1> HIDE DEF p
<1>2. ASSUME Has(q, m) PROVE Has(p, m)
  BY <1>1, <1>2 DEF Has
<1>3. ASSUME Has(r, m) PROVE Has(p, m)
  <2>1. PICK i \in 1 .. Len(r) : r[i] = m
    BY <1>3 DEF Has
  <2>2. Len(q) + i \in 1 .. Len(p) /\ p[Len(q) + i] = m
    BY <1>1, <2>1
  <2> QED
    BY <2>2 DEF Has
<1>4. ASSUME Has(p, m), ~Has(q, m) PROVE Has(r, m)
  <2>1. PICK i \in 1 .. Len(p) : p[i] = m
    BY <1>4 DEF Has
  <2>2. i \notin 1 .. Len(q)
    BY <1>1, <1>4, <2>1 DEF Has
  <2>3. i - Len(q) \in 1 .. Len(r) /\ Len(q) + (i - Len(q)) = i
    BY <1>1, <2>1, <2>2
  <2>4. r[i - Len(q)] = m
    BY <1>1, <2>1, <2>3
  <2> QED
    BY <2>3, <2>4 DEF Has
<1> QED
  BY <1>2, <1>3, <1>4 DEF p

(* The later piece has the last word.                                        *)
LEMMA JoinedLast ==
    ASSUME NEW M, NEW q \in Seq(M), NEW r \in Seq(M), NEW m, NEW a
    PROVE  LastSays(q \o r, m, a)
             <=> LastSays(r, m, a) \/ (LastSays(q, m, a) /\ ~Has(r, a))
<1> DEFINE p == q \o r
<1>1. /\ Len(p) = Len(q) + Len(r) /\ Len(q) \in Nat /\ Len(r) \in Nat
      /\ \A i \in 1 .. Len(q) : p[i] = q[i]
      /\ \A i \in 1 .. Len(r) : p[Len(q) + i] = r[i]
  BY ConcatProperties
<1> HIDE DEF p
<1>2. \A i \in 1 .. Len(p) : i \notin 1 .. Len(q) =>
         i - Len(q) \in 1 .. Len(r) /\ p[i] = r[i - Len(q)]
  <2> SUFFICES ASSUME NEW i \in 1 .. Len(p), i \notin 1 .. Len(q)
               PROVE  i - Len(q) \in 1 .. Len(r) /\ p[i] = r[i - Len(q)]
    OBVIOUS
  <2>1. i - Len(q) \in 1 .. Len(r) /\ Len(q) + (i - Len(q)) = i
    BY <1>1
  <2> QED
    BY <1>1, <2>1
<1>3. ASSUME LastSays(r, m, a) PROVE LastSays(p, m, a)
  <2>1. PICK i \in 1 .. Len(r) : r[i] = m /\ \A j \in i + 1 .. Len(r) : r[j] # a
    BY <1>3 DEF LastSays
  <2>2. Len(q) + i \in 1 .. Len(p) /\ p[Len(q) + i] = m
    BY <1>1, <2>1
  <2>3. ASSUME NEW j \in Len(q) + i + 1 .. Len(p) PROVE p[j] # a
    <3>1. j \in 1 .. Len(p) /\ j \notin 1 .. Len(q) /\ j - Len(q) \in i + 1 .. Len(r)
      BY <1>1, <2>1, <2>3
    <3> QED
      BY <1>2, <2>1, <3>1
  <2> QED
    BY <2>2, <2>3 DEF LastSays
<1>4. ASSUME LastSays(q, m, a), ~Has(r, a) PROVE LastSays(p, m, a)
  <2>1. PICK i \in 1 .. Len(q) : q[i] = m /\ \A j \in i + 1 .. Len(q) : q[j] # a
    BY <1>4 DEF LastSays
  <2>2. i \in 1 .. Len(p) /\ p[i] = m
    BY <1>1, <2>1
  <2>3. ASSUME NEW j \in i + 1 .. Len(p) PROVE p[j] # a
    <3>1. CASE j \in 1 .. Len(q)
      BY <1>1, <2>1, <2>3, <3>1
    <3>2. CASE j \notin 1 .. Len(q)
      <4>1. j \in 1 .. Len(p)
        BY <1>1, <2>1, <2>3
      <4> QED
        BY <1>2, <1>4, <3>2, <4>1 DEF Has
    <3> QED
      BY <3>1, <3>2
  <2> QED
    BY <2>2, <2>3 DEF LastSays
<1>5. ASSUME LastSays(p, m, a), ~LastSays(r, m, a) PROVE LastSays(q, m, a) /\ ~Has(r, a)
  <2>1. PICK i \in 1 .. Len(p) : p[i] = m /\ \A j \in i + 1 .. Len(p) : p[j] # a
    BY <1>5 DEF LastSays
  <2>2. i \in 1 .. Len(q)
    <3> SUFFICES ASSUME i \notin 1 .. Len(q) PROVE FALSE
      OBVIOUS
    <3>1. i - Len(q) \in 1 .. Len(r) /\ r[i - Len(q)] = m
      BY <1>2, <2>1
    <3>2. ASSUME NEW j \in (i - Len(q)) + 1 .. Len(r) PROVE r[j] # a
      <4>1. j \in 1 .. Len(r) /\ Len(q) + j \in i + 1 .. Len(p)
        BY <1>1, <3>1, <3>2
      <4> QED
        BY <1>1, <2>1, <4>1
    <3> QED
      BY <1>5, <3>1, <3>2 DEF LastSays
  <2>3. ASSUME NEW j \in i + 1 .. Len(q) PROVE q[j] # a
    <3>1. j \in 1 .. Len(q) /\ j \in i + 1 .. Len(p)
      BY <1>1, <2>2, <2>3
    <3> QED
      BY <1>1, <2>1, <3>1
  <2>4. ASSUME NEW j \in 1 .. Len(r) PROVE r[j] # a
    <3>1. Len(q) + j \in i + 1 .. Len(p)
      BY <1>1, <2>2
    <3> QED
      BY <1>1, <2>1, <3>1
  <2>5. q[i] = m
    BY <1>1, <2>1, <2>2
  <2> QED
    BY <2>2, <2>3, <2>4, <2>5 DEF LastSays, Has
<1> QED
  BY <1>3, <1>4, <1>5 DEF p

(* A message can be led by one of the earlier piece.                         *)
LEMMA JoinedLed ==
    ASSUME NEW M, NEW q \in Seq(M), NEW r \in Seq(M), NEW m, NEW a
    PROVE  Led(q \o r, m, a) <=> Led(q, m, a) /\ (Has(q, a) \/ Led(r, m, a))
<1> DEFINE p == q \o r
<1>1. /\ Len(p) = Len(q) + Len(r) /\ Len(q) \in Nat /\ Len(r) \in Nat
      /\ \A i \in 1 .. Len(q) : p[i] = q[i]
      /\ \A i \in 1 .. Len(r) : p[Len(q) + i] = r[i]
  BY ConcatProperties
<1> HIDE DEF p
<1>2. \A i \in 1 .. Len(p) : i \notin 1 .. Len(q) =>
         i - Len(q) \in 1 .. Len(r) /\ p[i] = r[i - Len(q)]
  <2> SUFFICES ASSUME NEW i \in 1 .. Len(p), i \notin 1 .. Len(q)
               PROVE  i - Len(q) \in 1 .. Len(r) /\ p[i] = r[i - Len(q)]
    OBVIOUS
  <2>1. i - Len(q) \in 1 .. Len(r) /\ Len(q) + (i - Len(q)) = i
    BY <1>1
  <2> QED
    BY <1>1, <2>1
<1>3. ASSUME Led(p, m, a) PROVE Led(q, m, a)
  <2> SUFFICES ASSUME NEW i \in 1 .. Len(q), q[i] = m
               PROVE  \E j \in 1 .. Len(q) : j < i /\ q[j] = a
    BY DEF Led
  <2>1. i \in 1 .. Len(p) /\ p[i] = m
    BY <1>1
  <2>2. PICK j \in 1 .. Len(p) : j < i /\ p[j] = a
    BY <1>3, <2>1 DEF Led
  <2>3. j \in 1 .. Len(q)
    BY <1>1, <2>2
  <2> QED
    BY <1>1, <2>2, <2>3
<1>4. ASSUME Led(p, m, a), ~Has(q, a) PROVE Led(r, m, a)
  <2> SUFFICES ASSUME NEW i \in 1 .. Len(r), r[i] = m
               PROVE  \E j \in 1 .. Len(r) : j < i /\ r[j] = a
    BY DEF Led
  <2>1. Len(q) + i \in 1 .. Len(p) /\ p[Len(q) + i] = m
    BY <1>1
  <2>2. PICK j \in 1 .. Len(p) : j < Len(q) + i /\ p[j] = a
    BY <1>4, <2>1 DEF Led
  <2>3. j \notin 1 .. Len(q)
    BY <1>1, <1>4, <2>2 DEF Has
  <2>4. j - Len(q) \in 1 .. Len(r) /\ r[j - Len(q)] = a /\ j - Len(q) < i
    BY <1>1, <1>2, <2>2, <2>3
  <2> QED
    BY <2>4
<1>5. ASSUME Led(q, m, a), Has(q, a) \/ Led(r, m, a) PROVE Led(p, m, a)
  <2> SUFFICES ASSUME NEW i \in 1 .. Len(p), p[i] = m
               PROVE  \E j \in 1 .. Len(p) : j < i /\ p[j] = a
    BY DEF Led
  <2>1. CASE i \in 1 .. Len(q)
    <3>1. PICK j \in 1 .. Len(q) : j < i /\ q[j] = a
      BY <1>1, <1>5, <2>1 DEF Led
    <3> QED
      BY <1>1, <3>1
  <2>2. CASE i \notin 1 .. Len(q)
    <3>1. i - Len(q) \in 1 .. Len(r) /\ r[i - Len(q)] = m
      BY <1>2, <2>2
    <3>2. CASE Has(q, a)
      <4>1. PICK j \in 1 .. Len(q) : q[j] = a
        BY <3>2 DEF Has
      <4>2. j \in 1 .. Len(p) /\ j < i /\ p[j] = a
        BY <1>1, <2>2, <4>1
      <4> QED
        BY <4>2
    <3>3. CASE Led(r, m, a)
      <4>1. PICK j \in 1 .. Len(r) : j < i - Len(q) /\ r[j] = a
        BY <3>1, <3>3 DEF Led
      <4>2. Len(q) + j \in 1 .. Len(p) /\ Len(q) + j < i /\ p[Len(q) + j] = a
        BY <1>1, <3>1, <4>1
      <4> QED
        BY <4>2
    <3> QED
      BY <1>5, <3>2, <3>3
  <2> QED
    BY <2>1, <2>2
<1> QED
  BY <1>3, <1>4, <1>5 DEF p

(* One message, and none.                                                   *)
LEMMA OneOrNone ==
    ASSUME NEW x, NEW m, NEW a
    PROVE  /\ Has(<<x>>, m) <=> x = m
           /\ LastSays(<<x>>, m, a) <=> x = m
           /\ Led(<<x>>, m, a) <=> x # m
           /\ ~Has(<<>>, m) /\ ~LastSays(<<>>, m, a) /\ Led(<<>>, m, a)
<1>1. Len(<<x>>) = 1 /\ <<x>>[1] = x /\ Len(<<>>) = 0
  OBVIOUS
<1>2. 1 .. 1 = {1} /\ 1 .. 0 = {} /\ 2 .. 1 = {}
  OBVIOUS
<1>3. Has(<<x>>, m) <=> x = m
  BY <1>1, <1>2 DEF Has
<1>4. LastSays(<<x>>, m, a) <=> x = m
  BY <1>1, <1>2 DEF LastSays
<1>5. Led(<<x>>, m, a) <=> x # m
  BY <1>1, <1>2 DEF Led
<1>6. ~Has(<<>>, m) /\ ~LastSays(<<>>, m, a) /\ Led(<<>>, m, a)
  BY <1>1, <1>2 DEF Has, LastSays, Led
<1> QED
  BY <1>3, <1>4, <1>5, <1>6

AttachOf(s) == GateFrame("attach", s)
DetachOf(s) == GateFrame("detach", s)
InputOf(s)  == GateFrame("input", s)

\* What goes towards the shard.
Toward == [t : {"attach", "detach", "input"}, s : Sids]

\* What has still to reach the link for the task of a websocket.
Held == IF owner = "writing" THEN holding ELSE <<>>
ToCome(k) == (Held \o shardTx) \o outgoing[k]

\* The types, as the steps need them.
GatePlaces ==
    /\ wsAt \in [GateClients -> {"reading", "sending", "answering", "parting", "ended"}]
    /\ session \in [GateClients -> 0 .. MaxAttaches] /\ uses \in [GateClients -> 0 .. MaxAttaches]
    /\ tx \in [GateClients -> 0 .. OutCap]
    /\ quit \subseteq FbsClients /\ clients \subseteq Sids
    /\ Len(shardTx) <= ShardTxCap
    /\ owner \in {"connecting", "attaching", "serving", "writing", "routing"}
    /\ again \subseteq Sids /\ holding \in Seq(GateFrames)
    /\ gate \in {"none", "up", "cut"} /\ gateBreaks \in 0 .. MaxGateBreaks
    /\ fromShard \in Seq(Sids) /\ inWorld \subseteq Sids

\* What the task of websocket k is about to send, and when.
TaskInv(k) ==
    /\ Len(outgoing[k]) = IF wsAt[k] \in {"sending", "parting"} THEN 1 ELSE 0
    /\ \A i \in 1 .. Len(outgoing[k]) : outgoing[k][i].s[1] = k
    /\ session[k] <= uses[k]
    /\ k \in FbsClients /\ uses[k] # 0 /\ session[k] = 0 => LeftWs(k)

\* Where the tasks are and what they hold there.
TasksInv ==
    /\ toShard \in Seq(Toward) /\ shardTx \in Seq(Toward) /\ Held \in Seq(Toward)
    /\ outgoing \in [GateClients -> Seq(Toward)]
    /\ \A k \in GateClients : TaskInv(k)
    /\ Len(holding) = IF owner \in {"writing", "routing"} THEN 1 ELSE 0
    /\ gate = "none" <=> owner = "connecting"
    /\ gate # "up" => toShard = <<>> /\ inWorld = {}
    /\ owner # "attaching" => again = {}
    /\ Len(toShard) <= GateWire /\ Len(fromShard) <= GateWire

\* The map is the sessions of the tasks.
MapHolds(s) == s \in clients <=> session[s[1]] = s[2]
\* Nothing is under way about a session that was never used.
FreshHolds(s) ==
    s[2] > uses[s[1]] =>
        /\ s \notin inWorld \cup again
        /\ ~Has(toShard, AttachOf(s)) /\ ~Has(ToCome(s[1]), AttachOf(s))
        /\ ~Has(toShard, DetachOf(s)) /\ ~Has(ToCome(s[1]), DetachOf(s))
        /\ ~Has(toShard, InputOf(s)) /\ ~Has(ToCome(s[1]), InputOf(s))
\* A DETACH is sent after the session left the map.
GoneHolds(s) ==
    s \in clients => ~Has(ToCome(s[1]), DetachOf(s)) /\ ~Has(toShard, DetachOf(s))
\* The shard has each session of the map, or an ATTACH will reach it.
ComingHolds(s) ==
    s \in clients /\ gate = "up" =>
        s \in inWorld \cup again \/ Has(ToCome(s[1]), AttachOf(s)) \/ Has(toShard, AttachOf(s))
\* What the shard has of the others ends with the last that is said of them.
GoingHolds(s) ==
    s \notin clients =>
        \/ LastSays(ToCome(s[1]), DetachOf(s), AttachOf(s))
        \/ /\ ~Has(ToCome(s[1]), AttachOf(s))
           /\ gate = "up" =>
                /\ s \notin again
                /\ \/ LastSays(toShard, DetachOf(s), AttachOf(s))
                   \/ ~Has(toShard, AttachOf(s)) /\ s \notin inWorld
\* Lines come after the ATTACH.
LinesHold(s) ==
    s \in clients /\ gate = "up" =>
        /\ s \in inWorld \/ Led(toShard, InputOf(s), AttachOf(s))
        /\ \/ s \in inWorld \cup again \/ Has(toShard, AttachOf(s))
           \/ Led(ToCome(s[1]), InputOf(s), AttachOf(s))

\* All that is said of one session; the last four until its client, one of
\* FlatBuffers, sends a DETACH of its own.
SidHolds(s) ==
    /\ MapHolds(s) /\ FreshHolds(s)
    /\ s[1] \notin quit => GoneHolds(s) /\ ComingHolds(s) /\ GoingHolds(s) /\ LinesHold(s)

\* The inductive invariant of the gateway.
GatewayIInv == GatePlaces /\ TasksInv /\ \A s \in Sids : SidHolds(s)

-----------------------------------------------------------------------------
\* What a step does to a queue, as far as session s can tell: nothing; x is
\* added behind; x is taken from its front.
Like(p, r, s) ==
    /\ Has(r, AttachOf(s)) <=> Has(p, AttachOf(s))
    /\ Has(r, DetachOf(s)) <=> Has(p, DetachOf(s))
    /\ Has(r, InputOf(s)) <=> Has(p, InputOf(s))
    /\ LastSays(r, DetachOf(s), AttachOf(s)) <=> LastSays(p, DetachOf(s), AttachOf(s))
    /\ Led(r, InputOf(s), AttachOf(s)) <=> Led(p, InputOf(s), AttachOf(s))
Put(p, x, r, s) ==
    /\ Has(r, AttachOf(s)) <=> Has(p, AttachOf(s)) \/ x = AttachOf(s)
    /\ Has(r, DetachOf(s)) <=> Has(p, DetachOf(s)) \/ x = DetachOf(s)
    /\ Has(r, InputOf(s)) <=> Has(p, InputOf(s)) \/ x = InputOf(s)
    /\ LastSays(r, DetachOf(s), AttachOf(s)) <=>
         x = DetachOf(s) \/ (LastSays(p, DetachOf(s), AttachOf(s)) /\ x # AttachOf(s))
    /\ Led(r, InputOf(s), AttachOf(s)) <=>
         Led(p, InputOf(s), AttachOf(s)) /\ (Has(p, AttachOf(s)) \/ x # InputOf(s))
Drop(p, x, r, s) ==
    /\ Has(p, AttachOf(s)) <=> Has(r, AttachOf(s)) \/ x = AttachOf(s)
    /\ Has(p, DetachOf(s)) <=> Has(r, DetachOf(s)) \/ x = DetachOf(s)
    /\ Has(p, InputOf(s)) <=> Has(r, InputOf(s)) \/ x = InputOf(s)
    /\ LastSays(p, DetachOf(s), AttachOf(s)) <=>
         LastSays(r, DetachOf(s), AttachOf(s)) \/ (x = DetachOf(s) /\ ~Has(r, AttachOf(s)))
    /\ Led(p, InputOf(s), AttachOf(s)) <=>
         x # InputOf(s) /\ (x = AttachOf(s) \/ Led(r, InputOf(s), AttachOf(s)))

(* The frames of a session are different and name it.                       *)
LEMMA GwFrames ==
    ASSUME NEW s \in Sids, NEW r \in Sids
    PROVE  /\ AttachOf(s) \in Toward /\ DetachOf(s) \in Toward /\ InputOf(s) \in Toward
           /\ AttachOf(s) # DetachOf(r) /\ AttachOf(s) # InputOf(r) /\ DetachOf(s) # InputOf(r)
           /\ AttachOf(s) = AttachOf(r) => s = r
           /\ DetachOf(s) = DetachOf(r) => s = r
           /\ InputOf(s) = InputOf(r) => s = r
           /\ AttachOf(s).s = s /\ DetachOf(s).s = s /\ InputOf(s).s = s
           /\ AttachOf(s).t = "attach" /\ DetachOf(s).t = "detach" /\ InputOf(s).t = "input"
  BY DEF AttachOf, DetachOf, InputOf, GateFrame, Toward

(* There are no other frames on the way.                                     *)
LEMMA GwKinds ==
    ASSUME NEW m \in Toward
    PROVE  /\ m.s \in Sids /\ m.s[1] \in GateClients /\ m.t \in {"attach", "detach", "input"}
           /\ m \in GateFrames
           /\ m.t = "attach" => m = AttachOf(m.s)
           /\ m.t = "detach" => m = DetachOf(m.s)
           /\ m.t = "input" => m = InputOf(m.s)
  BY DEF AttachOf, DetachOf, InputOf, GateFrame, Toward, Sids, GateFrames

(* A frame added behind ...                                                  *)
LEMMA PutLast ==
    ASSUME NEW q \in Seq(Toward), NEW x \in Toward, NEW s \in Sids
    PROVE  Put(q, x, Append(q, x), s) /\ Put(q, x, q \o <<x>>, s)
<1>1. <<x>> \in Seq(Toward) /\ Append(q, x) = q \o <<x>>
  OBVIOUS
<1> DEFINE r == q \o <<x>>
<1>2. /\ Has(r, AttachOf(s)) <=> Has(q, AttachOf(s)) \/ Has(<<x>>, AttachOf(s))
      /\ Has(r, DetachOf(s)) <=> Has(q, DetachOf(s)) \/ Has(<<x>>, DetachOf(s))
      /\ Has(r, InputOf(s)) <=> Has(q, InputOf(s)) \/ Has(<<x>>, InputOf(s))
  BY <1>1, JoinedHas
<1>3. LastSays(r, DetachOf(s), AttachOf(s)) <=>
        \/ LastSays(<<x>>, DetachOf(s), AttachOf(s))
        \/ LastSays(q, DetachOf(s), AttachOf(s)) /\ ~Has(<<x>>, AttachOf(s))
  BY <1>1, JoinedLast
<1>4. Led(r, InputOf(s), AttachOf(s)) <=>
        /\ Led(q, InputOf(s), AttachOf(s))
        /\ Has(q, AttachOf(s)) \/ Led(<<x>>, InputOf(s), AttachOf(s))
  BY <1>1, JoinedLed
<1>5. /\ Has(<<x>>, AttachOf(s)) <=> x = AttachOf(s)
      /\ Has(<<x>>, DetachOf(s)) <=> x = DetachOf(s)
      /\ Has(<<x>>, InputOf(s)) <=> x = InputOf(s)
      /\ LastSays(<<x>>, DetachOf(s), AttachOf(s)) <=> x = DetachOf(s)
      /\ Led(<<x>>, InputOf(s), AttachOf(s)) <=> x # InputOf(s)
  BY OneOrNone
<1> HIDE DEF r
<1>6. Put(q, x, r, s)
  BY <1>2, <1>3, <1>4, <1>5 DEF Put
<1> QED
  BY <1>1, <1>6 DEF r

(* ... and one taken from the front.                                         *)
LEMMA DropFirst ==
    ASSUME NEW q \in Seq(Toward), NEW x \in Toward, NEW s \in Sids
    PROVE  Drop(<<x>> \o q, x, q, s)
<1>1. <<x>> \in Seq(Toward)
  OBVIOUS
<1> DEFINE r == <<x>> \o q
<1>2. /\ Has(r, AttachOf(s)) <=> Has(<<x>>, AttachOf(s)) \/ Has(q, AttachOf(s))
      /\ Has(r, DetachOf(s)) <=> Has(<<x>>, DetachOf(s)) \/ Has(q, DetachOf(s))
      /\ Has(r, InputOf(s)) <=> Has(<<x>>, InputOf(s)) \/ Has(q, InputOf(s))
  BY <1>1, JoinedHas
<1>3. LastSays(r, DetachOf(s), AttachOf(s)) <=>
        \/ LastSays(q, DetachOf(s), AttachOf(s))
        \/ LastSays(<<x>>, DetachOf(s), AttachOf(s)) /\ ~Has(q, AttachOf(s))
  BY <1>1, JoinedLast
<1>4. Led(r, InputOf(s), AttachOf(s)) <=>
        /\ Led(<<x>>, InputOf(s), AttachOf(s))
        /\ Has(<<x>>, AttachOf(s)) \/ Led(q, InputOf(s), AttachOf(s))
  BY <1>1, JoinedLed
<1>5. /\ Has(<<x>>, AttachOf(s)) <=> x = AttachOf(s)
      /\ Has(<<x>>, DetachOf(s)) <=> x = DetachOf(s)
      /\ Has(<<x>>, InputOf(s)) <=> x = InputOf(s)
      /\ LastSays(<<x>>, DetachOf(s), AttachOf(s)) <=> x = DetachOf(s)
      /\ Led(<<x>>, InputOf(s), AttachOf(s)) <=> x # InputOf(s)
  BY OneOrNone
<1> HIDE DEF r
<1>6. Drop(r, x, q, s)
  BY <1>2, <1>3, <1>4, <1>5 DEF Drop
<1> QED
  BY <1>6 DEF r

(* A queue is its head and its tail.                                        *)
LEMMA HeadAndTail ==
    ASSUME NEW M, NEW q \in Seq(M), q # <<>>
    PROVE  /\ q = <<Head(q)>> \o Tail(q) /\ Head(q) \in M /\ Tail(q) \in Seq(M)
           /\ Len(Tail(q)) = Len(q) - 1 /\ Len(q) \in Nat \ {0}
<1>1. /\ Head(q) \in M /\ <<Head(q)>> \in Seq(M) /\ Tail(q) \in Seq(M)
      /\ Len(<<Head(q)>>) = 1 /\ Len(Tail(q)) = Len(q) - 1 /\ Len(q) \in Nat \ {0}
      /\ Head(q) = q[1] /\ \A i \in 1 .. Len(q) - 1 : Tail(q)[i] = q[i + 1]
      /\ <<Head(q)>>[1] = Head(q)
  OBVIOUS
<1> DEFINE r == <<Head(q)>> \o Tail(q)
<1>2. /\ r \in Seq(M) /\ Len(r) = 1 + Len(Tail(q))
      /\ \A i \in 1 .. 1 + Len(Tail(q)) :
           r[i] = IF i <= 1 THEN <<Head(q)>>[i] ELSE Tail(q)[i - 1]
  BY <1>1, ConcatProperties
<1> HIDE DEF r
<1>3. Len(r) = Len(q)
  BY <1>1, <1>2
<1>4. ASSUME NEW i \in 1 .. Len(q) PROVE q[i] = r[i]
  <2>1. CASE i = 1
    BY <1>1, <1>2, <2>1
  <2>2. CASE i # 1
    <3>1. i - 1 \in 1 .. Len(q) - 1 /\ (i - 1) + 1 = i /\ i \in 1 .. 1 + Len(Tail(q))
      BY <1>1, <2>2
    <3> QED BY <1>1, <1>2, <2>2, <3>1
  <2> QED BY <2>1, <2>2
<1>5. q = r
  BY <1>2, <1>3, <1>4, SeqEqual
<1> QED BY <1>1, <1>5 DEF r

(* A frame that is not about s changes nothing for s.                       *)
LEMMA OfAnother ==
    ASSUME NEW p, NEW r, NEW x \in Toward, NEW s \in Sids, x.s # s
    PROVE  /\ Put(p, x, r, s) => Like(p, r, s)
           /\ Drop(p, x, r, s) => Like(p, r, s)
<1>1. x # AttachOf(s) /\ x # DetachOf(s) /\ x # InputOf(s)
  BY GwFrames
<1> QED
  BY <1>1 DEF Put, Drop, Like

(* The pieces of what has still to come.                                    *)
LEMMA Pieces ==
    ASSUME NEW h \in Seq(Toward), NEW q \in Seq(Toward), NEW o \in Seq(Toward),
           NEW m, NEW a
    PROVE  /\ Has((h \o q) \o o, m) <=> Has(h, m) \/ Has(q, m) \/ Has(o, m)
           /\ LastSays((h \o q) \o o, m, a) <=>
                \/ LastSays(o, m, a)
                \/ LastSays(q, m, a) /\ ~Has(o, a)
                \/ LastSays(h, m, a) /\ ~Has(q, a) /\ ~Has(o, a)
           /\ Led((h \o q) \o o, m, a) <=>
                /\ Led(h, m, a)
                /\ Has(h, a) \/ Led(q, m, a)
                /\ Has(h, a) \/ Has(q, a) \/ Led(o, m, a)
<1>1. h \o q \in Seq(Toward)
  OBVIOUS
<1> DEFINE hq == h \o q
<1>2. Has(hq, m) <=> Has(h, m) \/ Has(q, m)
  BY JoinedHas
<1>3. Has(hq, a) <=> Has(h, a) \/ Has(q, a)
  BY JoinedHas
<1>4. LastSays(hq, m, a) <=> LastSays(q, m, a) \/ (LastSays(h, m, a) /\ ~Has(q, a))
  BY JoinedLast
<1>5. Led(hq, m, a) <=> Led(h, m, a) /\ (Has(h, a) \/ Led(q, m, a))
  BY JoinedLed
<1>6. hq \in Seq(Toward)
  BY <1>1
<1> HIDE DEF hq
<1>7. Has(hq \o o, m) <=> Has(hq, m) \/ Has(o, m)
  BY <1>6, JoinedHas
<1>8. LastSays(hq \o o, m, a) <=> LastSays(o, m, a) \/ (LastSays(hq, m, a) /\ ~Has(o, a))
  BY <1>6, JoinedLast
<1>9. Led(hq \o o, m, a) <=> Led(hq, m, a) /\ (Has(hq, a) \/ Led(o, m, a))
  BY <1>6, JoinedLed
<1>10. /\ Has(hq \o o, m) <=> Has(h, m) \/ Has(q, m) \/ Has(o, m)
       /\ LastSays(hq \o o, m, a) <=>
                \/ LastSays(o, m, a)
                \/ LastSays(q, m, a) /\ ~Has(o, a)
                \/ LastSays(h, m, a) /\ ~Has(q, a) /\ ~Has(o, a)
       /\ Led(hq \o o, m, a) <=>
                /\ Led(h, m, a)
                /\ Has(h, a) \/ Led(q, m, a)
                /\ Has(h, a) \/ Has(q, a) \/ Led(o, m, a)
  BY <1>2, <1>3, <1>4, <1>5, <1>7, <1>8, <1>9
<1> QED
  BY <1>10 DEF hq

(* A queue that another's frame joins in the middle.                        *)
LEMMA Inserted ==
    ASSUME NEW h \in Seq(Toward), NEW q \in Seq(Toward), NEW x \in Toward,
           NEW o \in Seq(Toward), NEW s \in Sids, x.s # s
    PROVE  Like((h \o q) \o o, (h \o (q \o <<x>>)) \o o, s)
<1>1. q \o <<x>> \in Seq(Toward)
  OBVIOUS
<1> DEFINE r == q \o <<x>>
<1>2. Like(q, r, s)
  BY PutLast, OfAnother
<1>3. r \in Seq(Toward)
  BY <1>1
<1> HIDE DEF r
<1>4. /\ Has((h \o q) \o o, AttachOf(s)) <=> Has((h \o r) \o o, AttachOf(s))
      /\ Has((h \o q) \o o, DetachOf(s)) <=> Has((h \o r) \o o, DetachOf(s))
      /\ Has((h \o q) \o o, InputOf(s)) <=> Has((h \o r) \o o, InputOf(s))
  <2>1. ASSUME NEW m PROVE /\ Has((h \o q) \o o, m) <=> Has(h, m) \/ Has(q, m) \/ Has(o, m)
                           /\ Has((h \o r) \o o, m) <=> Has(h, m) \/ Has(r, m) \/ Has(o, m)
    BY <1>3, Pieces
  <2> QED
    BY <1>2, <2>1, Zenon DEF Like
<1>5. LastSays((h \o q) \o o, DetachOf(s), AttachOf(s))
        <=> LastSays((h \o r) \o o, DetachOf(s), AttachOf(s))
  <2> DEFINE m == DetachOf(s)
             a == AttachOf(s)
  <2>1. LastSays((h \o q) \o o, m, a) <=>
                \/ LastSays(o, m, a)
                \/ LastSays(q, m, a) /\ ~Has(o, a)
                \/ LastSays(h, m, a) /\ ~Has(q, a) /\ ~Has(o, a)
    BY <1>3, Pieces
  <2>2. LastSays((h \o r) \o o, m, a) <=>
                \/ LastSays(o, m, a)
                \/ LastSays(r, m, a) /\ ~Has(o, a)
                \/ LastSays(h, m, a) /\ ~Has(r, a) /\ ~Has(o, a)
    BY <1>3, Pieces
  <2> QED
    BY <1>2, <2>1, <2>2, Zenon DEF Like
<1>6. Led((h \o q) \o o, InputOf(s), AttachOf(s))
        <=> Led((h \o r) \o o, InputOf(s), AttachOf(s))
  <2> DEFINE m == InputOf(s)
             a == AttachOf(s)
  <2>1. Led((h \o q) \o o, m, a) <=>
                /\ Led(h, m, a)
                /\ Has(h, a) \/ Led(q, m, a)
                /\ Has(h, a) \/ Has(q, a) \/ Led(o, m, a)
    BY <1>3, Pieces
  <2>2. Led((h \o r) \o o, m, a) <=>
                /\ Led(h, m, a)
                /\ Has(h, a) \/ Led(r, m, a)
                /\ Has(h, a) \/ Has(r, a) \/ Led(o, m, a)
    BY <1>3, Pieces
  <2> QED
    BY <1>2, <2>1, <2>2, Zenon DEF Like
<1>7. Like((h \o q) \o o, (h \o r) \o o, s)
  BY <1>4, <1>5, <1>6 DEF Like
<1> QED
  BY <1>7 DEF r

(* A queue with nothing in it can be left out.                              *)
LEMMA Emptied ==
    ASSUME NEW h \in Seq(Toward), NEW q \in Seq(Toward)
    PROVE  h \o <<>> = h /\ <<>> \o h = h /\ <<>> \in Seq(Toward)
           /\ (h \o q) \o <<>> = h \o q /\ h \o q \in Seq(Toward)
  OBVIOUS

(* Pieces may be joined in any order of joining.                             *)
LEMMA Regrouped ==
    ASSUME NEW M, NEW h \in Seq(M), NEW q \in Seq(M), NEW o \in Seq(M)
    PROVE  (h \o q) \o o = h \o (q \o o)
  BY ConcatAssociative

(* A sequence of one frame.                                                 *)
LEMMA OneFrame ==
    ASSUME NEW M, NEW q \in Seq(M), Len(q) = 1
    PROVE  q = <<q[1]>> /\ q[1] \in M /\ 1 \in 1 .. Len(q) /\ q # <<>>
<1>1. q[1] \in M /\ <<q[1]>> \in Seq(M) /\ Len(<<q[1]>>) = 1 /\ <<q[1]>>[1] = q[1]
  OBVIOUS
<1>2. \A i \in 1 .. Len(q) : q[i] = <<q[1]>>[i]
  BY <1>1
<1>3. q = <<q[1]>>
  BY <1>1, <1>2, SeqEqual
<1> QED
  BY <1>1, <1>3

-----------------------------------------------------------------------------
(* What each step does to what has still to come about a session.           *)

(* The pieces are sequences of frames.                                      *)
LEMMA TasksTypes ==
    ASSUME TasksInv, NEW k \in GateClients
    PROVE  /\ Held \in Seq(Toward) /\ shardTx \in Seq(Toward) /\ toShard \in Seq(Toward)
           /\ outgoing \in [GateClients -> Seq(Toward)] /\ outgoing[k] \in Seq(Toward)
           /\ Held \o shardTx \in Seq(Toward) /\ ToCome(k) \in Seq(Toward)
<1>1. /\ Held \in Seq(Toward) /\ shardTx \in Seq(Toward) /\ toShard \in Seq(Toward)
      /\ outgoing \in [GateClients -> Seq(Toward)] /\ outgoing[k] \in Seq(Toward)
  BY DEF TasksInv, TaskInv
<1> QED
  BY <1>1 DEF ToCome

(* The task of a websocket has a frame to send: it is the last to come.      *)
LEMMA SpokenToCome ==
    ASSUME TasksInv, NEW k \in GateClients, NEW x \in Toward, NEW s \in Sids,
           wsAt[k] = "reading", UNCHANGED <<owner, holding, shardTx>>, x.s[1] = k,
           outgoing' = [outgoing EXCEPT ![k] = <<x>>]
    PROVE  /\ s[1] = k => Put(ToCome(s[1]), x, ToCome(s[1])', s)
           /\ s[1] # k => Like(ToCome(s[1]), ToCome(s[1])', s)
<1>1. s[1] \in GateClients /\ Held' = Held /\ shardTx' = shardTx
  BY DEF Held, Sids
<1>2. /\ Held \o shardTx \in Seq(Toward) /\ outgoing \in [GateClients -> Seq(Toward)]
  BY TasksTypes
<1>3. CASE s[1] = k
  <2>1. Len(outgoing[k]) = 0 /\ outgoing[k] \in Seq(Toward)
    BY <1>2 DEF TasksInv, TaskInv
  <2>2. outgoing[k] = <<>> /\ outgoing'[k] = <<x>>
    BY <1>2, <2>1
  <2>3. ToCome(k) = Held \o shardTx
    BY <1>2, <2>2 DEF ToCome
  <2>4. ToCome(k)' = (Held \o shardTx) \o <<x>>
    BY <1>1, <2>2 DEF ToCome
  <2> QED
    BY <1>2, <1>3, <2>3, <2>4, PutLast
<1>4. CASE s[1] # k
  <2>1. outgoing'[s[1]] = outgoing[s[1]]
    BY <1>1, <1>2, <1>4
  <2>2. ToCome(s[1])' = ToCome(s[1])
    BY <1>1, <2>1 DEF ToCome
  <2> QED
    BY <1>4, <2>2 DEF Like
<1> QED
  BY <1>3, <1>4

(* Nothing is said, taken or written.                                        *)
LEMMA QuietToCome ==
    ASSUME NEW s \in Sids, UNCHANGED <<shardTx, outgoing>>,
           UNCHANGED <<owner, holding>> \/ (owner # "writing" /\ owner' # "writing")
    PROVE  Like(ToCome(s[1]), ToCome(s[1])', s)
<1>1. Held' = Held
  BY DEF Held
<1>2. ToCome(s[1])' = ToCome(s[1])
  BY <1>1 DEF ToCome
<1> QED
  BY <1>2 DEF Like

(* A frame goes into the channel, behind what was there: nothing changes for *)
(* its session, nor for the others.                                          *)
LEMMA SentToCome ==
    ASSUME TasksInv, NEW k \in GateClients, SendShard(k), NEW s \in Sids
    PROVE  Like(ToCome(s[1]), ToCome(s[1])', s)
<1>1. s[1] \in GateClients /\ Held' = Held /\ shardTx' = shardTx \o outgoing[k]
      /\ outgoing' = [outgoing EXCEPT ![k] = <<>>] /\ wsAt[k] \in {"sending", "parting"}
  BY DEF Held, Sids, SendShard, CanSend, ownerVars
<1>2. /\ Held \in Seq(Toward) /\ shardTx \in Seq(Toward) /\ outgoing[k] \in Seq(Toward)
      /\ outgoing \in [GateClients -> Seq(Toward)] /\ outgoing[s[1]] \in Seq(Toward)
  BY <1>1, TasksTypes
<1>3. CASE s[1] = k
  <2>1. outgoing'[k] = <<>>
    BY <1>1, <1>2
  <2>2. ToCome(k)' = (Held \o (shardTx \o outgoing[k])) \o <<>>
    BY <1>1, <2>1 DEF ToCome
  <2>3. (Held \o (shardTx \o outgoing[k])) \o <<>> = Held \o (shardTx \o outgoing[k])
    BY <1>2
  <2>4. ToCome(k) = Held \o (shardTx \o outgoing[k])
    BY <1>2, Regrouped, SMTT(30) DEF ToCome
  <2> QED
    BY <1>3, <2>2, <2>3, <2>4 DEF Like
<1>4. CASE s[1] # k
  <2>1. Len(outgoing[k]) = 1 /\ outgoing[k][1].s[1] = k
    BY <1>1 DEF TasksInv, TaskInv
  <2>2. PICK x \in Toward : outgoing[k] = <<x>> /\ x.s[1] = k
    BY <1>2, <2>1, OneFrame
  <2>3. x.s # s
    BY <1>4, <2>2
  <2>4. outgoing'[s[1]] = outgoing[s[1]]
    BY <1>1, <1>2, <1>4
  <2>5. ToCome(s[1])' = (Held \o (shardTx \o <<x>>)) \o outgoing[s[1]]
    BY <1>1, <2>2, <2>4 DEF ToCome
  <2>6. ToCome(s[1]) = (Held \o shardTx) \o outgoing[s[1]]
    BY DEF ToCome
  <2> QED
    BY <1>2, <2>3, <2>5, <2>6, Inserted
<1> QED
  BY <1>3, <1>4

(* The link's task takes a frame out of the channel and holds it.            *)
LEMMA TakenToCome ==
    ASSUME TasksInv, GateTake, NEW s \in Sids
    PROVE  Like(ToCome(s[1]), ToCome(s[1])', s)
<1>1. s[1] \in GateClients /\ Held = <<>> /\ Held' = <<Head(shardTx)>>
      /\ shardTx' = Tail(shardTx) /\ shardTx # <<>> /\ outgoing' = outgoing
  BY DEF Held, Sids, GateTake, wsClientVars
<1>2. shardTx \in Seq(Toward)
  BY <1>1, TasksTypes
<1>3. shardTx = <<Head(shardTx)>> \o Tail(shardTx) /\ <<>> \o shardTx = shardTx
  BY <1>1, <1>2, HeadAndTail
<1>4. ToCome(s[1])' = ToCome(s[1])
  BY <1>1, <1>3 DEF ToCome
<1> QED
  BY <1>4 DEF Like

(* The frame it held was the first to come.                                  *)
LEMMA ForwardedToCome ==
    ASSUME TasksInv, GateForward, NEW s \in Sids
    PROVE  /\ holding[1] \in Toward
           /\ Drop(ToCome(s[1]), holding[1], ToCome(s[1])', s)
<1>1. s[1] \in GateClients /\ Held = holding /\ Held' = <<>> /\ Len(holding) = 1
      /\ shardTx' = shardTx /\ outgoing' = outgoing
  BY DEF Held, Sids, GateForward, wsClientVars, TasksInv
<1>2. /\ Held \in Seq(Toward) /\ shardTx \in Seq(Toward) /\ outgoing[s[1]] \in Seq(Toward)
  BY <1>1, TasksTypes
<1>3. holding[1] \in Toward /\ holding = <<holding[1]>>
  BY <1>1, <1>2, OneFrame
<1> DEFINE q == shardTx \o outgoing[s[1]]
<1>4. q \in Seq(Toward) /\ <<>> \o shardTx = shardTx
  BY <1>2
<1>5. ToCome(s[1])' = q
  BY <1>1, <1>4 DEF ToCome
<1>6. <<holding[1]>> \in Seq(Toward)
  BY <1>3
<1>7. (<<holding[1]>> \o shardTx) \o outgoing[s[1]] = <<holding[1]>> \o q
  <2> DEFINE h == <<holding[1]>>
             o == outgoing[s[1]]
  <2>1. h \in Seq(Toward) /\ o \in Seq(Toward)
    BY <1>2, <1>6
  <2> HIDE DEF h, o
  <2>2. (h \o shardTx) \o o = h \o (shardTx \o o)
    BY <1>2, <2>1, Regrouped
  <2> QED
    BY <2>2 DEF h, o
<1>8. ToCome(s[1]) = <<holding[1]>> \o q
  BY <1>1, <1>3, <1>7 DEF ToCome
<1> QED
  BY <1>3, <1>4, <1>5, <1>8, DropFirst

-----------------------------------------------------------------------------
(* Types and places.                                                        *)

(* The frames, the sessions and their websockets belong together.            *)
LEMMA TowardFrames ==
    /\ Seq(Toward) \subseteq Seq(GateFrames)
    /\ \A s \in Sids, t \in {"attach", "detach", "input"} : GateFrame(t, s) \in Toward
    /\ \A s \in Sids : GateFrame("output", s) \in GateFrames
    /\ \A k \in GateClients, n \in 1 .. MaxAttaches : SidOf(k, n) \in Sids /\ SidOf(k, n)[1] = k
    /\ \A s \in Sids : s[1] \in GateClients /\ s[2] \in 1 .. MaxAttaches /\ s = <<s[1], s[2]>>
<1>1. Toward \subseteq GateFrames
  BY DEF Toward, GateFrames
<1>2. Seq(Toward) \subseteq Seq(GateFrames)
  BY <1>1
<1>3. \A s \in Sids, t \in {"attach", "detach", "input"} : GateFrame(t, s) \in Toward
  BY DEF Toward, GateFrame
<1>4. \A s \in Sids : GateFrame("output", s) \in GateFrames
  BY DEF GateFrame, GateFrames
<1>5. \A k \in GateClients, n \in 1 .. MaxAttaches : SidOf(k, n) \in Sids /\ SidOf(k, n)[1] = k
  BY DEF SidOf, Sids
<1>6. \A s \in Sids : s[1] \in GateClients /\ s[2] \in 1 .. MaxAttaches /\ s = <<s[1], s[2]>>
  BY DEF Sids
<1> QED
  BY <1>2, <1>3, <1>4, <1>5, <1>6

(* The types follow from what the steps keep.                               *)
LEMMA GatewayTypes == GatePlaces /\ TasksInv => GatewayTypeOK
<1> SUFFICES ASSUME GatePlaces, TasksInv PROVE GatewayTypeOK
  OBVIOUS
<1>1. shardTx \in Seq(GateFrames) /\ toShard \in Seq(GateFrames)
  BY TowardFrames DEF TasksInv
<1>2. ASSUME NEW k \in GateClients
      PROVE  outgoing[k] \in Seq(GateFrames) /\ Len(outgoing[k]) <= 1
  <2>1. outgoing[k] \in Seq(Toward)
    BY DEF TasksInv
  <2>2. outgoing[k] \in Seq(GateFrames)
    BY <2>1, TowardFrames, Zenon
  <2>3. TaskInv(k)
    BY Zenon DEF TasksInv
  <2>4. Len(outgoing[k]) <= 1
    BY <2>3 DEF TaskInv
  <2> QED
    BY <2>2, <2>4
<1>3. Len(holding) <= 1
  BY DEF TasksInv
<1> QED
  BY <1>1, <1>2, <1>3 DEF GatewayTypeOK, GatePlaces

(* A step of one websocket's task that leaves the others alone.             *)
LEMMA OthersTasks ==
    ASSUME TasksInv, NEW k \in GateClients, TaskInv(k)',
           outgoing' \in [GateClients -> Seq(Toward)],
           \A j \in GateClients : j # k =>
              /\ wsAt'[j] = wsAt[j] /\ outgoing'[j] = outgoing[j]
              /\ session'[j] = session[j] /\ uses'[j] = uses[j],
           UNCHANGED <<owner, again, holding, gate, toShard, fromShard, inWorld>>,
           shardTx' \in Seq(Toward)
    PROVE  TasksInv'
<1>1. ASSUME NEW j \in GateClients, j # k PROVE TaskInv(j)'
  <2>1. wsAt'[j] = wsAt[j] /\ outgoing'[j] = outgoing[j] /\ session'[j] = session[j] /\ uses'[j] = uses[j]
    BY <1>1
  <2>2. TaskInv(j)
    BY DEF TasksInv
  <2> QED
    BY <2>1, <2>2 DEF TaskInv, LeftWs
<1>2. \A j \in GateClients : TaskInv(j)'
  BY <1>1
<1>3. Held' = Held
  BY DEF Held
<1> QED
  BY <1>2, <1>3 DEF TasksInv

(* The types in a step of one websocket's task.                              *)
LEMMA TaskPlaces ==
    ASSUME GatePlaces,
           wsAt' \in [GateClients -> {"reading", "sending", "answering", "parting", "ended"}],
           session' \in [GateClients -> 0 .. MaxAttaches], uses' \in [GateClients -> 0 .. MaxAttaches],
           tx' \in [GateClients -> 0 .. OutCap], quit' \subseteq FbsClients, clients' \subseteq Sids,
           UNCHANGED <<shardTx, owner, again, holding, gate, gateBreaks, fromShard, inWorld>>
    PROVE  GatePlaces'
  BY DEF GatePlaces

(* A websocket's task is about to send a frame about a session of its own.   *)
LEMMA Says ==
    ASSUME GatePlaces, TasksInv, NEW k \in GateClients, NEW t \in {"attach", "detach", "input"},
           NEW s \in Sids, s[1] = k, NEW to \in {"sending", "parting"}, GateSays(k, t, s, to)
    PROVE  /\ outgoing' \in [GateClients -> Seq(Toward)]
           /\ outgoing' = [outgoing EXCEPT ![k] = <<GateFrame(t, s)>>]
           /\ GateFrame(t, s) \in Toward /\ GateFrame(t, s).s = s
           /\ Len(outgoing'[k]) = 1
           /\ \A i \in 1 .. Len(outgoing'[k]) : outgoing'[k][i].s[1] = k
           /\ wsAt' \in [GateClients -> {"reading", "sending", "answering", "parting", "ended"}]
           /\ wsAt'[k] = to
           /\ \A j \in GateClients : j # k => wsAt'[j] = wsAt[j] /\ outgoing'[j] = outgoing[j]
<1> DEFINE x == GateFrame(t, s)
<1>1. x \in Toward /\ x.s = s
  BY TowardFrames DEF GateFrame
<1> HIDE DEF x
<1>2. /\ outgoing' = [outgoing EXCEPT ![k] = <<x>>] /\ outgoing \in [GateClients -> Seq(Toward)]
      /\ wsAt' = [wsAt EXCEPT ![k] = to]
  BY DEF GateSays, TasksInv, x
<1>3. <<x>> \in Seq(Toward) /\ Len(<<x>>) = 1 /\ <<x>>[1] = x
  BY <1>1
<1>4. outgoing' \in [GateClients -> Seq(Toward)] /\ outgoing'[k] = <<x>>
  BY <1>2, <1>3
<1>5. \A i \in 1 .. Len(outgoing'[k]) : outgoing'[k][i].s[1] = k
  BY <1>1, <1>3, <1>4
<1>6. /\ wsAt' \in [GateClients -> {"reading", "sending", "answering", "parting", "ended"}]
      /\ wsAt'[k] = to
      /\ \A j \in GateClients : j # k => wsAt'[j] = wsAt[j]
  BY <1>2 DEF GatePlaces
<1>7. \A j \in GateClients : j # k => outgoing'[j] = outgoing[j]
  BY <1>2
<1> QED
  BY <1>1, <1>2, <1>3, <1>4, <1>5, <1>6, <1>7 DEF x

\* The session of a websocket that has one.
LEMMA OwnSid ==
    ASSUME GatePlaces, NEW k \in GateClients, session[k] # 0
    PROVE  GateSid(k) \in Sids /\ GateSid(k)[1] = k /\ GateSid(k)[2] = session[k]
  BY DEF GatePlaces, GateSid, SidOf, Sids

(* The steps in which a websocket's task has something to say.               *)
LEMMA TalkingBase ==
    ASSUME GatePlaces, TasksInv, NEW k \in GateClients,
           GateAttach(k) \/ GateInput(k) \/ GateDetach(k) \/ PassOn(k) \/ GateLeave(k)
    PROVE  GatePlaces' /\ TasksInv'
<1> USE DEF ownerVars, gateLinkVars
<1>0. /\ session \in [GateClients -> 0 .. MaxAttaches] /\ uses \in [GateClients -> 0 .. MaxAttaches]
      /\ tx \in [GateClients -> 0 .. OutCap] /\ session[k] \in Nat /\ uses[k] \in Nat
      /\ MaxAttaches \in Nat \ {0} /\ OutCap \in Nat \ {0} /\ 0 \in 0 .. MaxAttaches
      /\ quit \subseteq FbsClients /\ clients \subseteq Sids /\ 0 \in 0 .. OutCap
  BY GateBounds DEF GatePlaces
<1>a. wsAt[k] = "reading"
  BY DEF GateAttach, GateInput, GateDetach, PassOn, GateLeave
<1>b. session[k] <= uses[k] /\ (k \in FbsClients /\ uses[k] # 0 => session[k] # 0)
  <2>1. TaskInv(k)
    BY DEF TasksInv
  <2> QED
    BY <1>a, <2>1 DEF TaskInv, LeftWs
<1>c. shardTx \in Seq(Toward)
  BY DEF TasksInv
<1>1. CASE GateAttach(k)
  <2> DEFINE n == IF k \in FbsClients THEN 1 ELSE uses[k] + 1
  <2>1. /\ n \in 1 .. MaxAttaches /\ session' = [session EXCEPT ![k] = n]
        /\ uses' = [uses EXCEPT ![k] = n]
        /\ clients' = clients \cup {SidOf(k, n)} /\ GateSays(k, "attach", SidOf(k, n), "sending")
        /\ UNCHANGED <<tx, quit, shardTx, owner, again, holding, gate, gateBreaks, toShard, fromShard, inWorld>>
    BY <1>0, <1>1 DEF GateAttach
  <2> HIDE DEF n
  <2>2. SidOf(k, n) \in Sids /\ SidOf(k, n)[1] = k
    BY <2>1, TowardFrames
  <2>3. /\ outgoing' \in [GateClients -> Seq(Toward)] /\ Len(outgoing'[k]) = 1
        /\ \A i \in 1 .. Len(outgoing'[k]) : outgoing'[k][i].s[1] = k
        /\ wsAt' \in [GateClients -> {"reading", "sending", "answering", "parting", "ended"}]
        /\ wsAt'[k] = "sending"
        /\ \A j \in GateClients : j # k => wsAt'[j] = wsAt[j] /\ outgoing'[j] = outgoing[j]
    BY <2>1, <2>2, Says
  <2>4. /\ session' \in [GateClients -> 0 .. MaxAttaches] /\ uses' \in [GateClients -> 0 .. MaxAttaches]
        /\ clients' \subseteq Sids /\ session'[k] = n /\ uses'[k] = n /\ n # 0 /\ n <= n
        /\ \A j \in GateClients : j # k => session'[j] = session[j] /\ uses'[j] = uses[j]
    BY <1>0, <2>1, <2>2
  <2>5. GatePlaces'
    BY <1>0, <2>1, <2>3, <2>4, TaskPlaces
  <2>6. TaskInv(k)'
    BY <2>3, <2>4 DEF TaskInv
  <2>7. TasksInv'
    BY <1>c, <2>1, <2>3, <2>4, <2>6, OthersTasks
  <2> QED BY <2>5, <2>7
<1>2. CASE GateInput(k)
  <2>1. /\ session[k] # 0 /\ GateSays(k, "input", GateSid(k), "sending")
        /\ UNCHANGED <<session, uses, clients, tx, quit, shardTx, owner, again, holding, gate, gateBreaks, toShard, fromShard, inWorld>>
    BY <1>2 DEF GateInput
  <2>2. GateSid(k) \in Sids /\ GateSid(k)[1] = k
    BY <2>1, OwnSid
  <2>3. /\ outgoing' \in [GateClients -> Seq(Toward)] /\ Len(outgoing'[k]) = 1
        /\ \A i \in 1 .. Len(outgoing'[k]) : outgoing'[k][i].s[1] = k
        /\ wsAt' \in [GateClients -> {"reading", "sending", "answering", "parting", "ended"}]
        /\ wsAt'[k] = "sending"
        /\ \A j \in GateClients : j # k => wsAt'[j] = wsAt[j] /\ outgoing'[j] = outgoing[j]
    BY <2>1, <2>2, Says
  <2>4. GatePlaces'
    BY <1>0, <2>1, <2>3, TaskPlaces
  <2>5. TaskInv(k)'
    BY <1>b, <2>1, <2>3 DEF TaskInv
  <2>6. TasksInv'
    BY <1>c, <2>1, <2>3, <2>5, OthersTasks
  <2> QED BY <2>4, <2>6
<1>3. CASE GateDetach(k)
  <2>1. /\ session[k] # 0 /\ GateSays(k, "detach", GateSid(k), "sending") /\ k \in JsonClients
        /\ session' = [session EXCEPT ![k] = 0] /\ clients' = clients \ {GateSid(k)}
        /\ UNCHANGED <<uses, tx, quit, shardTx, owner, again, holding, gate, gateBreaks, toShard, fromShard, inWorld>>
    BY <1>3 DEF GateDetach
  <2>2. GateSid(k) \in Sids /\ GateSid(k)[1] = k
    BY <2>1, OwnSid
  <2>3. /\ outgoing' \in [GateClients -> Seq(Toward)] /\ Len(outgoing'[k]) = 1
        /\ \A i \in 1 .. Len(outgoing'[k]) : outgoing'[k][i].s[1] = k
        /\ wsAt' \in [GateClients -> {"reading", "sending", "answering", "parting", "ended"}]
        /\ wsAt'[k] = "sending"
        /\ \A j \in GateClients : j # k => wsAt'[j] = wsAt[j] /\ outgoing'[j] = outgoing[j]
    BY <2>1, <2>2, Says
  <2>4. /\ session' \in [GateClients -> 0 .. MaxAttaches] /\ session'[k] = 0 /\ 0 <= uses[k]
        /\ uses' = uses /\ clients' \subseteq Sids /\ k \notin FbsClients
        /\ \A j \in GateClients : j # k => session'[j] = session[j]
    BY <1>0, <2>1, GateBounds
  <2>5. GatePlaces'
    BY <1>0, <2>1, <2>3, <2>4, TaskPlaces
  <2>6. TaskInv(k)'
    BY <2>3, <2>4 DEF TaskInv
  <2>7. TasksInv'
    BY <1>c, <2>1, <2>3, <2>4, <2>6, OthersTasks
  <2> QED BY <2>5, <2>7
<1>4. CASE PassOn(k)
  <2>1. PICK t \in {"attach", "detach"} :
          /\ GateSays(k, t, GateSid(k), "sending")
          /\ quit' = IF t = "detach" THEN quit \cup {k} ELSE quit
    BY <1>4 DEF PassOn
  <2>2. /\ session[k] # 0 /\ k \in FbsClients
        /\ UNCHANGED <<session, uses, clients, tx, shardTx, owner, again, holding, gate, gateBreaks, toShard, fromShard, inWorld>>
    BY <1>4 DEF PassOn
  <2>3. GateSid(k) \in Sids /\ GateSid(k)[1] = k
    BY <2>2, OwnSid
  <2>4. /\ outgoing' \in [GateClients -> Seq(Toward)] /\ Len(outgoing'[k]) = 1
        /\ \A i \in 1 .. Len(outgoing'[k]) : outgoing'[k][i].s[1] = k
        /\ wsAt' \in [GateClients -> {"reading", "sending", "answering", "parting", "ended"}]
        /\ wsAt'[k] = "sending"
        /\ \A j \in GateClients : j # k => wsAt'[j] = wsAt[j] /\ outgoing'[j] = outgoing[j]
    BY <2>1, <2>3, Says
  <2>5. quit' \subseteq FbsClients
    BY <1>0, <2>1, <2>2
  <2>6. GatePlaces'
    BY <1>0, <2>2, <2>4, <2>5, TaskPlaces
  <2>7. TaskInv(k)'
    BY <1>b, <2>2, <2>4 DEF TaskInv
  <2>8. TasksInv'
    BY <1>c, <2>2, <2>4, <2>7, OthersTasks
  <2> QED BY <2>6, <2>8
<1>5. CASE GateLeave(k)
  <2>1. /\ session' = [session EXCEPT ![k] = 0] /\ tx' = [tx EXCEPT ![k] = 0]
        /\ UNCHANGED <<uses, quit, shardTx, owner, again, holding, gate, gateBreaks, toShard, fromShard, inWorld>>
    BY <1>5 DEF GateLeave
  <2>a. /\ session' \in [GateClients -> 0 .. MaxAttaches] /\ tx' \in [GateClients -> 0 .. OutCap]
        /\ session'[k] = 0 /\ 0 <= uses[k] /\ uses' = uses /\ quit' = quit
        /\ \A j \in GateClients : j # k => session'[j] = session[j]
    BY <1>0, <2>1
  <2>2. CASE session[k] # 0
    <3>1. clients' = clients \ {GateSid(k)} /\ GateSays(k, "detach", GateSid(k), "parting")
      BY <1>5, <2>2 DEF GateLeave
    <3>2. GateSid(k) \in Sids /\ GateSid(k)[1] = k
      BY <2>2, OwnSid
    <3>3. /\ outgoing' \in [GateClients -> Seq(Toward)] /\ Len(outgoing'[k]) = 1
          /\ \A i \in 1 .. Len(outgoing'[k]) : outgoing'[k][i].s[1] = k
          /\ wsAt' \in [GateClients -> {"reading", "sending", "answering", "parting", "ended"}]
          /\ wsAt'[k] = "parting"
          /\ \A j \in GateClients : j # k => wsAt'[j] = wsAt[j] /\ outgoing'[j] = outgoing[j]
      BY <3>1, <3>2, Says
    <3>4. clients' \subseteq Sids
      BY <1>0, <3>1
    <3>5. GatePlaces'
      BY <1>0, <2>1, <2>a, <3>3, <3>4, TaskPlaces
    <3>6. TaskInv(k)'
      BY <2>a, <3>3 DEF TaskInv, LeftWs
    <3>7. TasksInv'
      BY <1>c, <2>1, <2>a, <3>3, <3>6, OthersTasks
    <3> QED BY <3>5, <3>7
  <2>3. CASE session[k] = 0
    <3>1. wsAt' = [wsAt EXCEPT ![k] = "ended"] /\ UNCHANGED <<outgoing, clients>>
      BY <1>5, <2>3 DEF GateLeave
    <3>2. /\ wsAt' \in [GateClients -> {"reading", "sending", "answering", "parting", "ended"}]
          /\ wsAt'[k] = "ended" /\ outgoing' \in [GateClients -> Seq(Toward)]
          /\ \A j \in GateClients : j # k => wsAt'[j] = wsAt[j] /\ outgoing'[j] = outgoing[j]
      BY <3>1 DEF GatePlaces, TasksInv
    <3>3. GatePlaces'
      BY <1>0, <2>1, <2>a, <3>1, <3>2, TaskPlaces
    <3>a. Len(outgoing[k]) = 0 /\ outgoing' = outgoing
      BY <1>a, <3>1 DEF TasksInv, TaskInv
    <3>4. TaskInv(k)'
      BY <2>a, <3>a, <3>2 DEF TaskInv, LeftWs
    <3>5. TasksInv'
      BY <1>c, <2>1, <2>a, <3>2, <3>4, OthersTasks
    <3> QED BY <3>3, <3>5
  <2> QED BY <2>2, <2>3
<1> QED
  BY <1>1, <1>2, <1>3, <1>4, <1>5

(* One frame more.                                                           *)
LEMMA Longer ==
    ASSUME NEW M, NEW q \in Seq(M), NEW r \in Seq(M), Len(r) = 1
    PROVE  q \o r \in Seq(M) /\ Len(q \o r) = Len(q) + 1 /\ Len(q) \in Nat
<1>1. q \o r \in Seq(M) /\ Len(q \o r) = Len(q) + Len(r)
  BY ConcatProperties
<1>2. Len(q) \in Nat
  BY LenProperties
<1> QED
  BY <1>1, <1>2

(* ... sends it,                                                            *)
LEMMA SendingBase ==
    ASSUME GatePlaces, TasksInv, NEW k \in GateClients, SendShard(k)
    PROVE  GatePlaces' /\ TasksInv'
<1> USE DEF ownerVars, gateLinkVars
<1>1. /\ wsAt[k] \in {"sending", "parting"} /\ Len(shardTx) < ShardTxCap
      /\ shardTx' = shardTx \o outgoing[k] /\ outgoing' = [outgoing EXCEPT ![k] = <<>>]
      /\ UNCHANGED <<session, uses, tx, quit, clients, owner, again, holding, gate, gateBreaks,
                     toShard, fromShard, inWorld>>
  BY DEF SendShard, CanSend
<1>2. \E at \in {"reading", "answering", "ended"} :
        wsAt' = [wsAt EXCEPT ![k] = at] /\ (at = "ended" <=> wsAt[k] = "parting")
  <2>1. CASE wsAt[k] = "parting"
    <3>1. wsAt' = [wsAt EXCEPT ![k] = "ended"]
      BY <2>1 DEF SendShard
    <3> QED
      BY <2>1, <3>1
  <2>2. CASE wsAt[k] # "parting" /\ k \in JsonClients /\ outgoing[k][1].t = "attach"
    <3>1. wsAt' = [wsAt EXCEPT ![k] = "answering"]
      BY <2>2 DEF SendShard
    <3> QED
      BY <2>2, <3>1
  <2>3. CASE wsAt[k] # "parting" /\ ~(k \in JsonClients /\ outgoing[k][1].t = "attach")
    <3>1. wsAt' = [wsAt EXCEPT ![k] = "reading"]
      BY <2>3 DEF SendShard
    <3> QED
      BY <2>3, <3>1
  <2> QED
    BY <2>1, <2>2, <2>3
<1>3. PICK at \in {"reading", "answering", "ended"} :
        wsAt' = [wsAt EXCEPT ![k] = at] /\ (at = "ended" <=> wsAt[k] = "parting")
  BY <1>2
<1>4. /\ shardTx \in Seq(Toward) /\ outgoing[k] \in Seq(Toward) /\ Len(outgoing[k]) = 1
      /\ outgoing \in [GateClients -> Seq(Toward)] /\ TaskInv(k)
  BY <1>1 DEF TasksInv, TaskInv
<1>5. /\ shardTx' \in Seq(Toward) /\ Len(shardTx') = Len(shardTx) + 1 /\ Len(shardTx) \in Nat
      /\ Len(shardTx') <= ShardTxCap
  <2>1. shardTx' \in Seq(Toward) /\ Len(shardTx') = Len(shardTx) + 1 /\ Len(shardTx) \in Nat
    <3> DEFINE o == outgoing[k]
    <3>1. shardTx \in Seq(Toward) /\ o \in Seq(Toward) /\ Len(o) = 1
      BY <1>4
    <3> HIDE DEF o
    <3>2. shardTx \o o \in Seq(Toward) /\ Len(shardTx \o o) = Len(shardTx) + 1 /\ Len(shardTx) \in Nat
      BY <3>1, Longer
    <3> QED
      BY <1>1, <3>2 DEF o
  <2>2. ShardTxCap \in Nat /\ Len(shardTx) < ShardTxCap
    BY <1>1, GateBounds
  <2> QED
    BY <2>1, <2>2
<1>6. /\ outgoing' \in [GateClients -> Seq(Toward)] /\ Len(outgoing'[k]) = 0 
      /\ \A j \in GateClients : j # k => outgoing'[j] = outgoing[j]
  BY <1>1, <1>4
<1>7. /\ wsAt' \in [GateClients -> {"reading", "sending", "answering", "parting", "ended"}]
      /\ wsAt'[k] = at /\ \A j \in GateClients : j # k => wsAt'[j] = wsAt[j]
  BY <1>3 DEF GatePlaces
<1>8. GatePlaces'
  BY <1>1, <1>5, <1>7 DEF GatePlaces
<1>9. TaskInv(k)'
  BY <1>1, <1>3, <1>4, <1>6, <1>7 DEF TaskInv, LeftWs
<1>10. TasksInv'
  BY <1>1, <1>5, <1>6, <1>7, <1>9, OthersTasks
<1> QED
  BY <1>8, <1>10

(* ... and those between it and its client.                                  *)
LEMMA AnsweringBase ==
    ASSUME GatePlaces, TasksInv, NEW k \in GateClients,
           GatePing(k) \/ GateAnswer(k) \/ ClientTakes(k)
    PROVE  GatePlaces' /\ TasksInv'
<1> USE DEF ownerVars, gateLinkVars
<1>1. /\ UNCHANGED <<session, uses, outgoing, quit, clients, shardTx, owner, again, holding, gate,
                     gateBreaks, toShard, fromShard, inWorld>>
      /\ tx' \in [GateClients -> 0 .. OutCap]
  <2>1. tx \in [GateClients -> 0 .. OutCap] /\ OutCap \in Nat
    BY GateBounds DEF GatePlaces
  <2>2. CASE GatePing(k)
    BY <2>1, <2>2 DEF GatePing
  <2>3. CASE GateAnswer(k)
    <3>1. /\ UNCHANGED <<session, uses, outgoing, quit, clients, shardTx, owner, again, holding, gate,
                         gateBreaks, toShard, fromShard, inWorld>>
          /\ tx' = tx \/ (tx[k] < OutCap /\ tx' = [tx EXCEPT ![k] = tx[k] + 1])
      BY <2>3 DEF GateAnswer, TxRoom, TxPut
    <3> QED
      BY <2>1, <3>1
  <2>4. CASE ClientTakes(k)
    <3>1. /\ UNCHANGED <<session, uses, outgoing, quit, clients, shardTx, owner, again, holding, gate,
                         gateBreaks, toShard, fromShard, inWorld>>
          /\ tx[k] > 0 /\ tx' = [tx EXCEPT ![k] = tx[k] - 1]
      BY <2>4 DEF ClientTakes
    <3> QED
      BY <2>1, <3>1
  <2> QED
    BY <2>2, <2>3, <2>4
<1>2. \/ wsAt' = wsAt
      \/ wsAt[k] = "reading" /\ wsAt' = [wsAt EXCEPT ![k] = "answering"]
      \/ wsAt[k] = "answering" /\ wsAt' = [wsAt EXCEPT ![k] = "reading"]
  BY DEF GatePing, GateAnswer, ClientTakes
<1>3. /\ wsAt' \in [GateClients -> {"reading", "sending", "answering", "parting", "ended"}]
      /\ \A j \in GateClients : j # k => wsAt'[j] = wsAt[j]
      /\ wsAt'[k] = wsAt[k] \/ (wsAt[k] \in {"reading", "answering"} /\ wsAt'[k] \in {"reading", "answering"})
  BY <1>2 DEF GatePlaces
<1>4. GatePlaces'
  BY <1>1, <1>3, TaskPlaces DEF GatePlaces
<1>5. TaskInv(k)
  BY DEF TasksInv
<1>6. TaskInv(k)'
  BY <1>1, <1>3, <1>5 DEF TaskInv, LeftWs
<1>7. outgoing' \in [GateClients -> Seq(Toward)] /\ shardTx' \in Seq(Toward)
  BY <1>1 DEF TasksInv
<1>8. TasksInv'
  BY <1>1, <1>3, <1>6, <1>7, OthersTasks
<1> QED
  BY <1>4, <1>8

(* The steps of the link's task and of the shard leave the websockets' tasks. *)
LEMMA SameTasks ==
    ASSUME TasksInv, UNCHANGED <<wsAt, session, uses, outgoing>>
    PROVE  /\ outgoing' \in [GateClients -> Seq(Toward)]
           /\ \A k \in GateClients : TaskInv(k)'
  BY DEF TasksInv, TaskInv, LeftWs

(* The steps of the link's task.                                             *)
LEMMA OwnerBase ==
    ASSUME GatePlaces, TasksInv, LinkOwner
    PROVE  GatePlaces' /\ TasksInv'
<1> USE DEF ownerVars, gateLinkVars, wsClientVars
<1>0. /\ toShard \in Seq(Toward) /\ shardTx \in Seq(Toward) /\ Held \in Seq(Toward)
      /\ GateWire \in Nat \ {0}
  BY GateBounds DEF TasksInv
<1>1. CASE GateConnect
  <2>1. Held' = <<>> /\ Held' \in Seq(Toward) /\ UNCHANGED <<wsAt, session, uses, outgoing>>
    BY <1>1 DEF GateConnect, Held
  <2>2. GatePlaces'
    BY <1>1 DEF GateConnect, GatePlaces
  <2>3. TasksInv'
    BY <1>1, <2>1, SameTasks DEF GateConnect, TasksInv
  <2> QED BY <2>2, <2>3
<1>2. CASE \E s \in Sids : AttachAgain(s)
  <2>1. PICK s \in Sids : AttachAgain(s)
    BY <1>2
  <2>2. Held' = <<>> /\ Held' \in Seq(Toward) /\ UNCHANGED <<wsAt, session, uses, outgoing>>
    BY <2>1 DEF AttachAgain, Held
  <2>3. GatePlaces'
    BY <2>1 DEF AttachAgain, GatePlaces
  <2>4. GateFrame("attach", s) \in Toward
    BY TowardFrames
  <2>5. toShard' \in Seq(Toward) /\ Len(toShard') <= GateWire /\ (gate # "up" => toShard' = toShard)
    <3>1. CASE gate = "up"
      BY <1>0, <2>1, <2>4, <3>1 DEF AttachAgain, GateWriteReq, CanWrite
    <3>2. CASE gate # "up"
      BY <1>0, <2>1, <3>2 DEF AttachAgain, GateWriteReq, TasksInv
    <3> QED BY <3>1, <3>2
  <2>6. TasksInv'
    BY <2>1, <2>2, <2>5, SameTasks DEF AttachAgain, TasksInv
  <2> QED BY <2>3, <2>6
<1>3. CASE NobodyToAttach
  <2>1. Held' = <<>> /\ Held' \in Seq(Toward) /\ UNCHANGED <<wsAt, session, uses, outgoing>>
    BY <1>3 DEF NobodyToAttach, Held
  <2>2. GatePlaces'
    BY <1>3 DEF NobodyToAttach, GatePlaces
  <2>3. TasksInv'
    BY <1>3, <2>1, SameTasks DEF NobodyToAttach, TasksInv
  <2> QED BY <2>2, <2>3
<1>4. CASE GateTake
  <2>1. /\ Head(shardTx) \in Toward /\ Tail(shardTx) \in Seq(Toward)
        /\ Len(Tail(shardTx)) = Len(shardTx) - 1 /\ Len(shardTx) \in Nat
    BY <1>0, <1>4, HeadAndTail DEF GateTake
  <2>2. Held' = <<Head(shardTx)>> /\ UNCHANGED <<wsAt, session, uses, outgoing>>
        /\ Len(holding') = 1 /\ holding' \in Seq(Toward) /\ shardTx' = Tail(shardTx)
    BY <1>4, <2>1 DEF GateTake, Held
  <2>3. holding' \in Seq(GateFrames) /\ Len(shardTx') <= ShardTxCap
    BY <2>1, <2>2, TowardFrames, GateBounds DEF GatePlaces
  <2>4. GatePlaces'
    BY <1>4, <2>3 DEF GateTake, GatePlaces
  <2>5. TasksInv'
    BY <1>4, <2>1, <2>2, SameTasks DEF GateTake, TasksInv, Held
  <2> QED BY <2>4, <2>5
<1>5. CASE GateForward
  <2>1. Held' = <<>> /\ Held' \in Seq(Toward) /\ UNCHANGED <<wsAt, session, uses, outgoing>>
        /\ holding' = <<>> /\ holding' \in Seq(GateFrames) /\ Len(holding') = 0
    BY <1>5 DEF GateForward, Held
  <2>2. holding[1] \in Toward
    BY <1>0, <1>5, OneFrame DEF GateForward, Held, TasksInv
  <2>3. GatePlaces'
    BY <1>5, <2>1 DEF GateForward, GatePlaces
  <2>4. toShard' \in Seq(Toward) /\ Len(toShard') <= GateWire /\ (gate # "up" => toShard' = toShard)
    <3>1. CASE gate = "up"
      BY <1>0, <1>5, <2>2, <3>1 DEF GateForward, GateWriteReq, CanWrite
    <3>2. CASE gate # "up"
      BY <1>0, <1>5, <3>2 DEF GateForward, GateWriteReq, TasksInv
    <3> QED BY <3>1, <3>2
  <2>5. TasksInv'
    BY <1>5, <2>1, <2>4, SameTasks DEF GateForward, TasksInv
  <2> QED BY <2>3, <2>5
<1>6. CASE GateRoute
  <2>1. fromShard \in Seq(Sids) /\ fromShard # <<>> /\ fromShard' = Tail(fromShard)
    BY <1>6 DEF GateRoute, GatePlaces
  <2>2. fromShard' \in Seq(Sids) /\ Len(fromShard') <= GateWire /\ Head(fromShard) \in Sids
    BY <1>0, <2>1, HeadAndTail DEF TasksInv
  <2>3. CASE Head(fromShard) \in clients
    <3>1. owner' = "routing" /\ holding' = <<GateFrame("output", Head(fromShard))>>
      BY <1>6, <2>3 DEF GateRoute
    <3>2. holding' \in Seq(GateFrames) /\ Len(holding') = 1 /\ Held' = <<>>
      BY <2>2, <3>1, TowardFrames DEF Held
    <3>3. GatePlaces'
      BY <1>6, <2>2, <3>1, <3>2 DEF GateRoute, GatePlaces
    <3>4. Held' \in Seq(Toward) /\ UNCHANGED <<wsAt, session, uses, outgoing>>
      BY <1>6, <3>2 DEF GateRoute
    <3>5. TasksInv'
      BY <1>6, <2>2, <3>1, <3>2, <3>4, SameTasks DEF GateRoute, TasksInv
    <3> QED BY <3>3, <3>5
  <2>4. CASE Head(fromShard) \notin clients
    <3>1. owner' = owner /\ holding' = holding /\ Held' = Held
      BY <1>6, <2>4 DEF GateRoute, Held
    <3>2. GatePlaces'
      BY <1>6, <2>2, <3>1 DEF GateRoute, GatePlaces
    <3>3. UNCHANGED <<wsAt, session, uses, outgoing>>
      BY <1>6 DEF GateRoute
    <3>4. TasksInv'
      BY <1>6, <2>2, <3>1, <3>3, SameTasks DEF GateRoute, TasksInv
    <3> QED BY <3>2, <3>4
  <2> QED BY <2>3, <2>4
<1>7. CASE PassOutput
  <2>1. Held' = <<>> /\ Held' \in Seq(Toward) /\ UNCHANGED <<wsAt, session, uses, outgoing>>
        /\ holding' = <<>> /\ holding' \in Seq(GateFrames) /\ Len(holding') = 0
    BY <1>7 DEF PassOutput, Held
  <2> DEFINE k == holding[1].s[1]
  <2>2. k \in GateClients
    <3>1. holding \in Seq(GateFrames) /\ Len(holding) = 1
      BY <1>7 DEF PassOutput, GatePlaces, TasksInv
    <3>2. holding[1] \in GateFrames
      BY <3>1
    <3> QED
      BY <3>2 DEF GateFrames, Sids
  <2>3. tx' = tx \/ (tx[k] < OutCap /\ tx' = [tx EXCEPT ![k] = tx[k] + 1])
    BY <1>7 DEF PassOutput, TxRoom, TxPut
  <2> HIDE DEF k
  <2>4. tx' \in [GateClients -> 0 .. OutCap]
    <3>1. tx \in [GateClients -> 0 .. OutCap] /\ OutCap \in Nat
      BY GateBounds DEF GatePlaces
    <3> QED
      BY <2>2, <2>3, <3>1
  <2>5. GatePlaces'
    BY <1>7, <2>1, <2>4 DEF PassOutput, GatePlaces
  <2>6. TasksInv'
    BY <1>7, <2>1, SameTasks DEF PassOutput, TasksInv
  <2> QED BY <2>5, <2>6
<1>8. CASE GateSeeCut
  <2>1. Held' = <<>> /\ Held' \in Seq(Toward) /\ UNCHANGED <<wsAt, session, uses, outgoing>>
    BY <1>8 DEF GateSeeCut, Held
  <2>2. GatePlaces'
    BY <1>8 DEF GateSeeCut, GatePlaces
  <2>3. TasksInv'
    BY <1>8, <2>1, SameTasks DEF GateSeeCut, TasksInv
  <2> QED BY <2>2, <2>3
<1> QED
  BY <1>1, <1>2, <1>3, <1>4, <1>5, <1>6, <1>7, <1>8 DEF LinkOwner

(* The steps of the shard and a lost link.                                   *)
LEMMA ShardSideBase ==
    ASSUME GatePlaces, TasksInv, GateServe \/ GateBreak
    PROVE  GatePlaces' /\ TasksInv'
<1> USE DEF ownerVars, gateLinkVars, wsClientVars
<1>0. /\ toShard \in Seq(Toward) /\ shardTx \in Seq(Toward) /\ Held \in Seq(Toward)
      /\ GateWire \in Nat \ {0} /\ MaxGateBreaks \in Nat /\ fromShard \in Seq(Sids)
      /\ Len(toShard) <= GateWire /\ Len(fromShard) <= GateWire /\ Len(fromShard) \in Nat
  BY GateBounds DEF TasksInv, GatePlaces
<1>1. Held' = Held /\ Held' \in Seq(Toward) /\ UNCHANGED <<wsAt, session, uses, outgoing>>
  BY <1>0 DEF GateServe, GateBreak, Held
<1>2. CASE GateServe
  <2>1. /\ Head(toShard) \in Toward /\ Tail(toShard) \in Seq(Toward)
        /\ Len(Tail(toShard)) = Len(toShard) - 1 /\ Len(toShard) \in Nat
    BY <1>0, <1>2, HeadAndTail DEF GateServe, CanServe
  <2>2. Head(toShard).s \in Sids
    BY <2>1, GwKinds
  <2>3. toShard' \in Seq(Toward) /\ Len(toShard') <= GateWire
    BY <1>0, <1>2, <2>1 DEF GateServe
  <2>4. fromShard' \in Seq(Sids) /\ Len(fromShard') <= GateWire
    BY <1>0, <1>2, <2>2 DEF GateServe, CanServe
  <2>5. inWorld' \subseteq Sids
    BY <1>2, <2>2 DEF GateServe, GatePlaces
  <2>6. GatePlaces'
    BY <1>2, <2>4, <2>5 DEF GateServe, GatePlaces
  <2>7. TasksInv'
    BY <1>1, <1>2, <2>3, <2>4, SameTasks DEF GateServe, CanServe, TasksInv
  <2> QED BY <2>6, <2>7
<1>3. CASE GateBreak
  <2>1. PICK n \in 0 .. Len(fromShard) : fromShard' = SubSeq(fromShard, 1, n)
    BY <1>3 DEF GateBreak
  <2>2. fromShard' \in Seq(Sids) /\ Len(fromShard') <= GateWire
    <3>1. SubSeq(fromShard, 1, n) \in Seq(Sids) /\ Len(SubSeq(fromShard, 1, n)) <= Len(fromShard)
          /\ Len(SubSeq(fromShard, 1, n)) \in Nat
      BY <1>0
    <3> QED
      BY <1>0, <2>1, <3>1
  <2>3. toShard' = <<>> /\ toShard' \in Seq(Toward) /\ Len(toShard') = 0
    BY <1>3 DEF GateBreak
  <2>4. GatePlaces'
    BY <1>0, <1>3, <2>2 DEF GateBreak, GatePlaces
  <2>5. TasksInv'
    BY <1>0, <1>1, <1>3, <2>2, <2>3, SameTasks DEF GateBreak, TasksInv
  <2> QED BY <2>4, <2>5
<1> QED
  BY <1>2, <1>3

(* Every step keeps the types and the places of the tasks.                    *)
LEMMA GatewayBase ==
    ASSUME GatePlaces, TasksInv, [GatewayNext]_gatewayVars
    PROVE  GatePlaces' /\ TasksInv'
<1>1. ASSUME NEW k \in GateClients, GateClient(k) PROVE GatePlaces' /\ TasksInv'
  BY <1>1, TalkingBase, SendingBase, AnsweringBase DEF GateClient
<1>2. CASE LinkOwner
  BY <1>2, OwnerBase
<1>3. CASE GateServe \/ GateBreak
  BY <1>3, ShardSideBase
<1>4. CASE UNCHANGED gatewayVars
  BY <1>4 DEF gatewayVars, wsClientVars, ownerVars, gateLinkVars, GatePlaces, TasksInv, TaskInv, LeftWs, Held
<1> QED
  BY <1>1, <1>2, <1>3, <1>4 DEF GatewayNext

-----------------------------------------------------------------------------
(* The steps of the tasks, as a session sees them.                          *)

(* Nothing happens to s but that its client uses other sessions.            *)
LEMMA QuietLife ==
    ASSUME NEW s \in Sids, SidHolds(s), MapHolds(s)',
           Like(ToCome(s[1]), ToCome(s[1])', s), Like(toShard, toShard', s),
           s \in clients' <=> s \in clients, s \in inWorld' <=> s \in inWorld,
           s \in again' <=> s \in again, gate' = gate,
           s[2] > uses'[s[1]] => s[2] > uses[s[1]], s[1] \in quit => s[1] \in quit'
    PROVE  SidHolds(s)'
<1>1. FreshHolds(s)'
  BY DEF SidHolds, FreshHolds, Like
<1>2. CASE s[1] \in quit'
  BY <1>1, <1>2 DEF SidHolds
<1>3. CASE s[1] \notin quit'
  <2>1. GoneHolds(s) /\ ComingHolds(s) /\ GoingHolds(s) /\ LinesHold(s)
    BY <1>3 DEF SidHolds
  <2>2. GoneHolds(s)'
    BY <2>1 DEF GoneHolds, Like
  <2>3. ComingHolds(s)'
    BY <2>1 DEF ComingHolds, Like
  <2>4. GoingHolds(s)'
    BY <2>1 DEF GoingHolds, Like
  <2>5. LinesHold(s)'
    BY <2>1 DEF LinesHold, Like
  <2> QED
    BY <1>1, <2>2, <2>3, <2>4, <2>5 DEF SidHolds
<1> QED
  BY <1>2, <1>3

(* The session's own task says something about it.                          *)
LEMMA AttachLife ==
    ASSUME NEW s \in Sids, SidHolds(s), MapHolds(s)', s[2] > uses[s[1]],
           ~(s[2] > uses'[s[1]]), s \in clients',
           Put(ToCome(s[1]), AttachOf(s), ToCome(s[1])', s),
           UNCHANGED <<toShard, inWorld, again, gate>>
    PROVE  SidHolds(s)'
<1>1. /\ s \notin inWorld \cup again
      /\ ~Has(toShard, AttachOf(s)) /\ ~Has(ToCome(s[1]), AttachOf(s))
      /\ ~Has(toShard, DetachOf(s)) /\ ~Has(ToCome(s[1]), DetachOf(s))
      /\ ~Has(toShard, InputOf(s)) /\ ~Has(ToCome(s[1]), InputOf(s))
  BY DEF SidHolds, FreshHolds
<1>2. /\ Led(toShard, InputOf(s), AttachOf(s)) /\ Led(ToCome(s[1]), InputOf(s), AttachOf(s))
  BY <1>1 DEF Led, Has
<1>3. AttachOf(s) # DetachOf(s) /\ AttachOf(s) # InputOf(s)
  BY GwFrames
<1>4. GoneHolds(s)'
  BY <1>1, <1>3 DEF GoneHolds, Put
<1>5. ComingHolds(s)'
  BY DEF ComingHolds, Put
<1>6. GoingHolds(s)'
  BY DEF GoingHolds
<1>7. LinesHold(s)'
  BY <1>2, <1>3 DEF LinesHold, Put
<1>8. FreshHolds(s)'
  BY DEF FreshHolds
<1> QED
  BY <1>4, <1>5, <1>6, <1>7, <1>8 DEF SidHolds

(* ... once more, or a line of it,                                           *)
LEMMA SpeakLife ==
    ASSUME NEW s \in Sids, SidHolds(s), MapHolds(s)', ~(s[2] > uses'[s[1]]),
           NEW x \in {AttachOf(s), InputOf(s)}, s \in clients, s \in clients',
           Put(ToCome(s[1]), x, ToCome(s[1])', s),
           UNCHANGED <<toShard, inWorld, again, gate, quit>>
    PROVE  SidHolds(s)'
<1>1. AttachOf(s) # DetachOf(s) /\ AttachOf(s) # InputOf(s) /\ DetachOf(s) # InputOf(s)
  BY GwFrames
<1>2. FreshHolds(s)'
  BY DEF FreshHolds
<1>3. CASE s[1] \in quit
  BY <1>2, <1>3 DEF SidHolds
<1>4. CASE s[1] \notin quit
  <2>1. GoneHolds(s) /\ ComingHolds(s) /\ LinesHold(s)
    BY <1>4 DEF SidHolds
  <2>2. GoneHolds(s)'
    BY <1>1, <2>1 DEF GoneHolds, Put
  <2>3. ComingHolds(s)'
    BY <2>1 DEF ComingHolds, Put
  <2>4. GoingHolds(s)'
    BY DEF GoingHolds
  <2>5. LinesHold(s)'
    BY <1>1, <2>1 DEF LinesHold, ComingHolds, Put
  <2> QED
    BY <1>2, <2>2, <2>3, <2>4, <2>5 DEF SidHolds
<1> QED
  BY <1>3, <1>4

(* ... or that it is gone.                                                   *)
LEMMA LeaveLife ==
    ASSUME NEW s \in Sids, SidHolds(s), MapHolds(s)', ~(s[2] > uses'[s[1]]), s \notin clients',
           Put(ToCome(s[1]), DetachOf(s), ToCome(s[1])', s)
    PROVE  SidHolds(s)'
<1>1. GoneHolds(s)' /\ ComingHolds(s)' /\ LinesHold(s)'
  BY DEF GoneHolds, ComingHolds, LinesHold
<1>2. GoingHolds(s)'
  BY DEF GoingHolds, Put
<1>3. FreshHolds(s)'
  BY DEF FreshHolds
<1> QED
  BY <1>1, <1>2, <1>3 DEF SidHolds

(* A FlatBuffers client passes a DETACH on: from now on it is out of step.  *)
LEMMA QuitLife ==
    ASSUME NEW s \in Sids, MapHolds(s)', ~(s[2] > uses'[s[1]]), s[1] \in quit'
    PROVE  SidHolds(s)'
  BY DEF SidHolds, FreshHolds

(* The steps of a websocket's task.                                         *)
LEMMA ClientLife ==
    ASSUME GatePlaces, TasksInv, NEW k \in GateClients, GateClient(k), NEW s \in Sids, SidHolds(s)
    PROVE  SidHolds(s)'
<1> USE DEF ownerVars, gateLinkVars
<1>0. /\ session \in [GateClients -> 0 .. MaxAttaches] /\ uses \in [GateClients -> 0 .. MaxAttaches]
      /\ s[1] \in GateClients /\ s[2] \in Nat \ {0} /\ s = <<s[1], s[2]>>
      /\ session[k] \in Nat /\ uses[k] \in Nat
      /\ MapHolds(s) /\ (s \in clients <=> session[s[1]] = s[2])
      /\ session[k] <= uses[k]
  <2>1. session \in [GateClients -> 0 .. MaxAttaches] /\ uses \in [GateClients -> 0 .. MaxAttaches]
    BY DEF GatePlaces
  <2>2. s[1] \in GateClients /\ s[2] \in Nat \ {0} /\ s = <<s[1], s[2]>>
    BY TowardFrames
  <2>3. MapHolds(s) /\ (s \in clients <=> session[s[1]] = s[2])
    BY DEF SidHolds, MapHolds
  <2>4. TaskInv(k)
    BY DEF TasksInv
  <2> QED
    BY <2>1, <2>2, <2>3, <2>4 DEF TaskInv
<1>1. CASE GateAttach(k)
  <2> DEFINE n == IF k \in FbsClients THEN 1 ELSE uses[k] + 1
  <2>1. /\ n \in 1 .. MaxAttaches /\ session' = [session EXCEPT ![k] = n]
        /\ uses' = [uses EXCEPT ![k] = n] /\ session[k] = 0 /\ wsAt[k] = "reading"
        /\ clients' = clients \cup {<<k, n>>} /\ GateSays(k, "attach", <<k, n>>, "sending")
        /\ UNCHANGED <<tx, quit, shardTx, owner, again, holding, gate, gateBreaks, toShard, fromShard, inWorld>>
    BY <1>0, <1>1, GateBounds DEF GateAttach, SidOf
  <2>2. n > uses[k]
    <3>1. k \in FbsClients => uses[k] = 0
      BY <2>1 DEF TasksInv, TaskInv, LeftWs
    <3> QED BY <1>0, <3>1
  <2> HIDE DEF n
  <2>3. <<k, n>> \in Sids /\ session'[k] = n /\ uses'[k] = n
    BY <1>0, <2>1 DEF Sids
  <2>4. /\ AttachOf(<<k, n>>) \in Toward /\ AttachOf(<<k, n>>).s = <<k, n>>
        /\ outgoing' = [outgoing EXCEPT ![k] = <<AttachOf(<<k, n>>)>>]
    BY <2>1, <2>3, GwFrames DEF GateSays, AttachOf
  <2>5. /\ s[1] = k => Put(ToCome(s[1]), AttachOf(<<k, n>>), ToCome(s[1])', s)
        /\ s[1] # k => Like(ToCome(s[1]), ToCome(s[1])', s)
    <3> DEFINE x == AttachOf(<<k, n>>)
    <3>1. x \in Toward /\ x.s[1] = k /\ outgoing' = [outgoing EXCEPT ![k] = <<x>>]
      BY <2>4
    <3> HIDE DEF x
    <3>2. /\ s[1] = k => Put(ToCome(s[1]), x, ToCome(s[1])', s)
          /\ s[1] # k => Like(ToCome(s[1]), ToCome(s[1])', s)
      BY <2>1, <3>1, SpokenToCome
    <3> QED BY <3>2 DEF x
  <2>6. CASE s = <<k, n>>
    <3>1. MapHolds(s)' /\ s[2] > uses[s[1]] /\ ~(s[2] > uses'[s[1]]) /\ s \in clients'
      BY <1>0, <2>1, <2>2, <2>3, <2>6 DEF MapHolds
    <3> QED
      BY <2>1, <2>5, <2>6, <3>1, AttachLife
  <2>7. CASE s # <<k, n>>
    <3>1. Like(ToCome(s[1]), ToCome(s[1])', s)
      BY <2>4, <2>5, <2>7, OfAnother
    <3>2. MapHolds(s)' /\ (s \in clients' <=> s \in clients) /\ (s[2] > uses'[s[1]] => s[2] > uses[s[1]])
      <4>1. CASE s[1] = k
        BY <1>0, <2>1, <2>2, <2>3, <2>7, <4>1 DEF MapHolds
      <4>2. CASE s[1] # k
        BY <1>0, <2>1, <2>7, <4>2 DEF MapHolds
      <4> QED BY <4>1, <4>2
    <3> QED
      BY <2>1, <3>1, <3>2, QuietLife DEF Like
  <2> QED BY <2>6, <2>7
<1>2. CASE GateInput(k)
  <2>1. /\ session[k] # 0 /\ GateSays(k, "input", GateSid(k), "sending") /\ wsAt[k] = "reading"
        /\ UNCHANGED <<session, uses, clients, tx, quit, shardTx, owner, again, holding, gate, gateBreaks, toShard, fromShard, inWorld>>
    BY <1>2 DEF GateInput
  <2>2. GateSid(k) \in Sids /\ GateSid(k)[1] = k /\ GateSid(k)[2] = session[k]
    BY <2>1, OwnSid
  <2>3. /\ InputOf(GateSid(k)) \in Toward /\ InputOf(GateSid(k)).s = GateSid(k)
        /\ outgoing' = [outgoing EXCEPT ![k] = <<InputOf(GateSid(k))>>]
    BY <2>1, <2>2, GwFrames DEF GateSays, InputOf
  <2>4. /\ s[1] = k => Put(ToCome(s[1]), InputOf(GateSid(k)), ToCome(s[1])', s)
        /\ s[1] # k => Like(ToCome(s[1]), ToCome(s[1])', s)
    BY <2>1, <2>2, <2>3, SpokenToCome
  <2>5. MapHolds(s)'
    BY <1>0, <2>1 DEF MapHolds
  <2>6. CASE s = GateSid(k)
    <3>1. s \in clients /\ s \in clients' /\ ~(s[2] > uses'[s[1]])
      BY <1>0, <2>1, <2>2, <2>6
    <3> QED
      BY <2>1, <2>2, <2>4, <2>5, <2>6, <3>1, SpeakLife
  <2>7. CASE s # GateSid(k)
    <3>1. Like(ToCome(s[1]), ToCome(s[1])', s)
      BY <2>3, <2>4, <2>7, OfAnother
    <3> QED
      BY <2>1, <2>5, <3>1, QuietLife DEF Like
  <2> QED BY <2>6, <2>7
<1>3. CASE PassOn(k)
  <2>1. PICK t \in {"attach", "detach"} :
          /\ GateSays(k, t, GateSid(k), "sending")
          /\ quit' = IF t = "detach" THEN quit \cup {k} ELSE quit
    BY <1>3 DEF PassOn
  <2>2. /\ session[k] # 0 /\ wsAt[k] = "reading"
        /\ UNCHANGED <<session, uses, clients, tx, shardTx, owner, again, holding, gate, gateBreaks, toShard, fromShard, inWorld>>
    BY <1>3 DEF PassOn
  <2>3. GateSid(k) \in Sids /\ GateSid(k)[1] = k /\ GateSid(k)[2] = session[k]
    BY <2>2, OwnSid
  <2> DEFINE x == GateFrame(t, GateSid(k))
  <2>4. /\ x \in Toward /\ x.s = GateSid(k) /\ outgoing' = [outgoing EXCEPT ![k] = <<x>>]
        /\ (t = "attach" => x = AttachOf(GateSid(k)))
    <3>1. x \in Toward
      BY <2>3, TowardFrames
    <3> QED BY <2>1, <3>1 DEF GateSays, AttachOf, GateFrame
  <2> HIDE DEF x
  <2>5. /\ s[1] = k => Put(ToCome(s[1]), x, ToCome(s[1])', s)
        /\ s[1] # k => Like(ToCome(s[1]), ToCome(s[1])', s)
    BY <2>2, <2>3, <2>4, SpokenToCome
  <2>6. MapHolds(s)'
    BY <1>0, <2>2 DEF MapHolds
  <2>7. CASE s = GateSid(k)
    <3>1. s \in clients /\ s \in clients' /\ ~(s[2] > uses'[s[1]])
      BY <1>0, <2>2, <2>3, <2>7
    <3>2. CASE t = "attach"
      BY <2>1, <2>2, <2>3, <2>4, <2>5, <2>6, <2>7, <3>1, <3>2, SpeakLife
    <3>3. CASE t = "detach"
      BY <2>1, <2>3, <2>6, <2>7, <3>1, <3>3, QuitLife
    <3> QED BY <3>2, <3>3
  <2>8. CASE s # GateSid(k)
    <3>1. Like(ToCome(s[1]), ToCome(s[1])', s)
      BY <2>4, <2>5, <2>8, OfAnother
    <3>2. s[1] \in quit => s[1] \in quit'
      BY <2>1
    <3> QED
      BY <2>2, <2>6, <3>1, <3>2, QuietLife DEF Like
  <2> QED BY <2>7, <2>8
<1>4. CASE (GateDetach(k) \/ GateLeave(k)) /\ session[k] # 0
  <2>1. /\ \E to \in {"sending", "parting"} : GateSays(k, "detach", GateSid(k), to)
        /\ session' = [session EXCEPT ![k] = 0] /\ clients' = clients \ {GateSid(k)}
        /\ wsAt[k] = "reading"
        /\ UNCHANGED <<uses, quit, shardTx, owner, again, holding, gate, gateBreaks, toShard, fromShard, inWorld>>
    BY <1>4 DEF GateDetach, GateLeave
  <2>2. GateSid(k) \in Sids /\ GateSid(k)[1] = k /\ GateSid(k)[2] = session[k]
    BY <1>4, OwnSid
  <2>3. /\ DetachOf(GateSid(k)) \in Toward /\ DetachOf(GateSid(k)).s = GateSid(k)
        /\ outgoing' = [outgoing EXCEPT ![k] = <<DetachOf(GateSid(k))>>]
    BY <2>1, <2>2, GwFrames DEF GateSays, DetachOf
  <2>4. /\ s[1] = k => Put(ToCome(s[1]), DetachOf(GateSid(k)), ToCome(s[1])', s)
        /\ s[1] # k => Like(ToCome(s[1]), ToCome(s[1])', s)
    BY <2>1, <2>2, <2>3, SpokenToCome
  <2>5. MapHolds(s)' /\ (s # GateSid(k) => (s \in clients' <=> s \in clients))
    <3>1. CASE s[1] = k
      <4>1. session'[s[1]] = 0 /\ (s \in clients <=> s[2] = session[k])
        BY <1>0, <2>1, <3>1
      <4>2. s = GateSid(k) <=> s[2] = session[k]
        BY <1>0, <2>2, <3>1 DEF GateSid, SidOf
      <4> QED BY <1>0, <2>1, <4>1, <4>2 DEF MapHolds
    <3>2. CASE s[1] # k
      BY <1>0, <2>1, <2>2, <3>2 DEF MapHolds
    <3> QED BY <3>1, <3>2
  <2>6. CASE s = GateSid(k)
    <3>1. s \notin clients' /\ ~(s[2] > uses'[s[1]])
      BY <1>0, <2>1, <2>2, <2>6
    <3> QED
      BY <2>2, <2>4, <2>5, <2>6, <3>1, LeaveLife
  <2>7. CASE s # GateSid(k)
    <3>1. Like(ToCome(s[1]), ToCome(s[1])', s)
      BY <2>3, <2>4, <2>7, OfAnother
    <3> QED
      BY <2>1, <2>5, <2>7, <3>1, QuietLife DEF Like
  <2> QED BY <2>6, <2>7
<1>5. CASE SendShard(k)
  <2>1. Like(ToCome(s[1]), ToCome(s[1])', s)
    BY <1>5, SentToCome
  <2>2. UNCHANGED <<session, uses, quit, clients, toShard, inWorld, again, gate>>
    BY <1>5 DEF SendShard
  <2> QED
    BY <1>0, <2>1, <2>2, QuietLife DEF Like, MapHolds
<1>6. CASE GatePing(k) \/ GateAnswer(k) \/ ClientTakes(k) \/ (GateLeave(k) /\ session[k] = 0)
  <2>1. UNCHANGED <<uses, quit, clients, toShard, inWorld, again, gate, owner, holding, shardTx, outgoing>>
    BY <1>6 DEF GatePing, GateAnswer, ClientTakes, GateLeave
  <2>2. session' = session
    BY <1>0, <1>6 DEF GatePing, GateAnswer, ClientTakes, GateLeave
  <2>3. Like(ToCome(s[1]), ToCome(s[1])', s)
    BY <2>1, QuietToCome
  <2> QED
    BY <1>0, <2>1, <2>2, <2>3, QuietLife DEF Like, MapHolds
<1>7. GateDetach(k) => session[k] # 0
  BY DEF GateDetach
<1> QED
  BY <1>1, <1>2, <1>3, <1>4, <1>5, <1>6, <1>7 DEF GateClient

-----------------------------------------------------------------------------
(* The steps of the link's task and of the shard, as a session sees them.   *)

\* The map, the tasks' sessions and what they use stay as they are.
SameMap == UNCHANGED <<session, uses, quit, clients>>

(* On a link that is not up, only what is still to come counts.             *)
LEMMA AwayLife ==
    ASSUME NEW s \in Sids, SidHolds(s), SameMap, gate' # "up",
           toShard' = <<>>, inWorld' = {}, s \in again' => s \in again,
           Like(ToCome(s[1]), ToCome(s[1])', s)
             \/ \E x : Drop(ToCome(s[1]), x, ToCome(s[1])', s)
    PROVE  SidHolds(s)'
<1>1. MapHolds(s)'
  BY DEF SidHolds, MapHolds, SameMap
<1>2. /\ Has(ToCome(s[1])', AttachOf(s)) => Has(ToCome(s[1]), AttachOf(s))
      /\ Has(ToCome(s[1])', DetachOf(s)) => Has(ToCome(s[1]), DetachOf(s))
      /\ Has(ToCome(s[1])', InputOf(s)) => Has(ToCome(s[1]), InputOf(s))
      /\ LastSays(ToCome(s[1]), DetachOf(s), AttachOf(s)) =>
           LastSays(ToCome(s[1])', DetachOf(s), AttachOf(s)) \/ ~Has(ToCome(s[1])', AttachOf(s))
  BY DEF Like, Drop
<1>3. \A m : ~Has(toShard', m)
  BY DEF Has
<1>4. FreshHolds(s)'
  BY <1>2, <1>3 DEF SidHolds, FreshHolds, SameMap
<1>5. CASE s[1] \in quit
  BY <1>1, <1>4, <1>5 DEF SidHolds, SameMap
<1>6. CASE s[1] \notin quit
  <2>1. GoneHolds(s) /\ GoingHolds(s)
    BY <1>6 DEF SidHolds
  <2>2. GoneHolds(s)'
    BY <1>2, <1>3, <2>1 DEF GoneHolds, SameMap
  <2>3. ComingHolds(s)' /\ LinesHold(s)'
    BY DEF ComingHolds, LinesHold
  <2>4. GoingHolds(s)'
    BY <1>2, <2>1 DEF GoingHolds, SameMap
  <2> QED
    BY <1>1, <1>4, <2>2, <2>3, <2>4 DEF SidHolds
<1> QED
  BY <1>5, <1>6

(* A new link starts from the map.                                          *)
LEMMA ConnectLife ==
    ASSUME GatePlaces, TasksInv, GateConnect, NEW s \in Sids, SidHolds(s)
    PROVE  SidHolds(s)'
<1>1. /\ SameMap /\ gate = "none" /\ again' = clients
      /\ toShard = <<>> /\ inWorld = {} /\ toShard' = toShard /\ inWorld' = inWorld
  BY DEF GateConnect, TasksInv, SameMap, wsClientVars, gateLinkVars
<1>2. Like(ToCome(s[1]), ToCome(s[1])', s)
  BY QuietToCome DEF GateConnect, wsClientVars
<1>3. \A m : ~Has(toShard', m)
  BY <1>1 DEF Has
<1>4. Led(toShard', InputOf(s), AttachOf(s))
  BY <1>3 DEF Led, Has
<1>5. MapHolds(s)' /\ MapHolds(s)
  BY <1>1 DEF SidHolds, MapHolds, SameMap
<1>6. s[2] > uses[s[1]] => s \notin clients
  <2>1. TaskInv(s[1]) /\ s[1] \in GateClients /\ s[2] \in Nat
    BY TowardFrames DEF TasksInv
  <2>2. session[s[1]] \in Nat /\ uses[s[1]] \in Nat /\ session[s[1]] <= uses[s[1]]
    BY <2>1 DEF GatePlaces, TaskInv
  <2>3. s \in clients => session[s[1]] = s[2]
    BY <1>5 DEF MapHolds
  <2> QED
    BY <2>1, <2>2, <2>3
<1>7. FreshHolds(s)'
  BY <1>1, <1>2, <1>3, <1>6 DEF SidHolds, FreshHolds, SameMap, Like
<1>8. CASE s[1] \in quit
  BY <1>1, <1>5, <1>7, <1>8 DEF SidHolds, SameMap
<1>9. CASE s[1] \notin quit
  <2>1. GoneHolds(s) /\ GoingHolds(s)
    BY <1>9 DEF SidHolds
  <2>2. GoneHolds(s)'
    BY <1>1, <1>2, <1>3, <2>1 DEF GoneHolds, SameMap, Like
  <2>3. ComingHolds(s)'
    BY <1>1 DEF ComingHolds, SameMap
  <2>4. GoingHolds(s)'
    BY <1>1, <1>2, <1>3, <2>1 DEF GoingHolds, SameMap, Like
  <2>5. LinesHold(s)'
    BY <1>1, <1>4 DEF LinesHold, SameMap
  <2> QED
    BY <1>5, <1>7, <2>2, <2>3, <2>4, <2>5 DEF SidHolds
<1> QED
  BY <1>8, <1>9

(* The link's task attaches a session of its snapshot again.                *)
LEMMA AgainLife ==
    ASSUME GatePlaces, TasksInv, NEW r \in Sids, AttachAgain(r), NEW s \in Sids, SidHolds(s)
    PROVE  SidHolds(s)'
<1>1. /\ SameMap /\ r \in again /\ again' = again \ {r} /\ inWorld' = inWorld /\ gate' = gate
      /\ GateWriteReq(AttachOf(r)) /\ toShard \in Seq(Toward)
      /\ (gate # "up" => toShard = <<>> /\ inWorld = {})
  BY DEF AttachAgain, SameMap, wsClientVars, AttachOf, TasksInv
<1>2. Like(ToCome(s[1]), ToCome(s[1])', s)
  BY QuietToCome DEF AttachAgain, wsClientVars
<1>3. CASE gate # "up"
  <2>1. toShard' = <<>>
    BY <1>1, <1>3 DEF GateWriteReq
  <2> QED
    BY <1>1, <1>2, <1>3, <2>1, AwayLife
<1>4. CASE gate = "up"
  <2>1. AttachOf(r) \in Toward /\ AttachOf(r).s = r
    BY GwFrames
  <2>2. toShard' = Append(toShard, AttachOf(r))
    BY <1>1, <1>4 DEF GateWriteReq
  <2>3. Put(toShard, AttachOf(r), toShard', s)
    BY <1>1, <2>1, <2>2, PutLast
  <2>4. MapHolds(s)'
    BY <1>1 DEF SidHolds, MapHolds, SameMap
  <2>5. CASE s # r
    <3>1. Like(toShard, toShard', s)
      BY <2>1, <2>3, <2>5, OfAnother
    <3> QED
      BY <1>1, <1>2, <2>4, <2>5, <3>1, QuietLife DEF SameMap
  <2>6. CASE s = r
    <3>0. AttachOf(s) # DetachOf(s) /\ AttachOf(s) # InputOf(s)
      BY GwFrames
    <3>1. FreshHolds(s)'
      BY <1>1, <2>6 DEF SidHolds, FreshHolds, SameMap
    <3>2. CASE s[1] \in quit
      BY <1>1, <2>4, <3>1, <3>2 DEF SidHolds, SameMap
    <3>3. CASE s[1] \notin quit
      <4>1. GoneHolds(s) /\ GoingHolds(s) /\ LinesHold(s)
        BY <3>3 DEF SidHolds
      <4>2. GoneHolds(s)'
        BY <1>1, <1>2, <2>3, <2>6, <3>0, <4>1 DEF GoneHolds, SameMap, Like, Put
      <4>3. ComingHolds(s)'
        BY <2>3, <2>6 DEF ComingHolds, Put
      <4>4. GoingHolds(s)'
        BY <1>1, <1>2, <1>4, <2>6, <4>1 DEF GoingHolds, SameMap, Like
      <4>5. LinesHold(s)'
        BY <1>1, <1>2, <1>4, <2>3, <2>6, <3>0, <4>1 DEF LinesHold, SameMap, Like, Put
      <4> QED
        BY <2>4, <3>1, <4>2, <4>3, <4>4, <4>5 DEF SidHolds
    <3> QED BY <3>2, <3>3
  <2> QED BY <2>5, <2>6
<1> QED
  BY <1>3, <1>4

(* The frame held back is written.                                          *)
LEMMA ForwardLife ==
    ASSUME GatePlaces, TasksInv, GateForward, NEW s \in Sids, SidHolds(s)
    PROVE  SidHolds(s)'
<1> DEFINE x == holding[1]
<1>1. /\ SameMap /\ again = {} /\ again' = again /\ inWorld' = inWorld /\ gate' = gate
      /\ GateWriteReq(x) /\ toShard \in Seq(Toward)
      /\ (gate # "up" => toShard = <<>> /\ inWorld = {})
  BY DEF GateForward, SameMap, wsClientVars, TasksInv
<1>2. x \in Toward /\ Drop(ToCome(s[1]), x, ToCome(s[1])', s)
  BY ForwardedToCome
<1> HIDE DEF x
<1>3. CASE gate # "up"
  <2>1. toShard' = <<>>
    BY <1>1, <1>3 DEF GateWriteReq
  <2> QED
    BY <1>1, <1>2, <1>3, <2>1, AwayLife
<1>4. CASE gate = "up"
  <2>1. Put(toShard, x, toShard', s)
    BY <1>1, <1>2, <1>4, PutLast DEF GateWriteReq
  <2>2. MapHolds(s)'
    BY <1>1 DEF SidHolds, MapHolds, SameMap
  <2>3. AttachOf(s) # DetachOf(s) /\ AttachOf(s) # InputOf(s) /\ DetachOf(s) # InputOf(s)
    BY GwFrames
  <2>4. FreshHolds(s)'
    BY <1>1, <1>2, <2>1 DEF SidHolds, FreshHolds, SameMap, Put, Drop
  <2>5. CASE s[1] \in quit
    BY <1>1, <2>2, <2>4, <2>5 DEF SidHolds, SameMap
  <2>6. CASE s[1] \notin quit
    <3>1. GoneHolds(s) /\ ComingHolds(s) /\ GoingHolds(s) /\ LinesHold(s)
      BY <2>6 DEF SidHolds
    <3>2. GoneHolds(s)'
      BY <1>1, <1>2, <2>1, <3>1 DEF GoneHolds, SameMap, Put, Drop
    <3>3. ComingHolds(s)'
      BY <1>1, <1>2, <2>1, <3>1 DEF ComingHolds, SameMap, Put, Drop
    <3>4. GoingHolds(s)'
      BY <1>1, <1>2, <1>4, <2>1, <2>3, <3>1 DEF GoingHolds, SameMap, Put, Drop
    <3>5. LinesHold(s)'
      BY <1>1, <1>2, <1>4, <2>1, <2>3, <3>1 DEF LinesHold, SameMap, Put, Drop
    <3> QED
      BY <2>2, <2>4, <3>2, <3>3, <3>4, <3>5 DEF SidHolds
  <2> QED BY <2>5, <2>6
<1> QED
  BY <1>3, <1>4

(* The shard reads a frame.                                                 *)
LEMMA ServeLife ==
    ASSUME GatePlaces, TasksInv, GateServe, NEW s \in Sids, SidHolds(s)
    PROVE  SidHolds(s)'
<1> DEFINE x == Head(toShard)
<1>1. /\ SameMap /\ again' = again /\ gate' = gate /\ gate = "up"
      /\ toShard \in Seq(Toward) /\ toShard # <<>> /\ toShard' = Tail(toShard)
      /\ inWorld' = CASE x.t = "attach" -> inWorld \cup {x.s}
                      [] x.t = "detach" -> inWorld \ {x.s}
                      [] OTHER -> inWorld
  BY DEF GateServe, CanServe, SameMap, wsClientVars, ownerVars, TasksInv
<1>2. /\ x \in Toward /\ Tail(toShard) \in Seq(Toward) /\ toShard = <<x>> \o Tail(toShard)
  BY <1>1, HeadAndTail
<1>3. Drop(toShard, x, toShard', s)
  BY <1>1, <1>2, DropFirst
<1>4. /\ x.s \in Sids /\ x.t \in {"attach", "detach", "input"}
      /\ x.t = "attach" => x = AttachOf(x.s)
      /\ x.t = "detach" => x = DetachOf(x.s)
      /\ x.t = "input" => x = InputOf(x.s)
  BY <1>2, GwKinds
<1> HIDE DEF x
<1>5. Like(ToCome(s[1]), ToCome(s[1])', s)
  BY QuietToCome DEF GateServe, wsClientVars, ownerVars
<1>6. MapHolds(s)'
  BY <1>1 DEF SidHolds, MapHolds, SameMap
<1>7. CASE x.s # s
  <2>1. Like(toShard, toShard', s)
    BY <1>2, <1>3, <1>7, OfAnother
  <2>2. s \in inWorld' <=> s \in inWorld
    BY <1>1, <1>4, <1>7
  <2> QED
    BY <1>1, <1>5, <1>6, <2>1, <2>2, QuietLife DEF SameMap
<1>8. CASE x.s = s
  <2>1. AttachOf(s) # DetachOf(s) /\ AttachOf(s) # InputOf(s) /\ DetachOf(s) # InputOf(s)
    BY GwFrames
  <2>2. \/ x = AttachOf(s) /\ s \in inWorld'
        \/ x = DetachOf(s) /\ s \notin inWorld'
        \/ x = InputOf(s) /\ inWorld' = inWorld
    BY <1>1, <1>4, <1>8
  <2>3. FreshHolds(s)'
    BY <1>1, <1>3, <1>5, <2>2 DEF SidHolds, FreshHolds, SameMap, Like, Drop
  <2>4. CASE s[1] \in quit
    BY <1>1, <1>6, <2>3, <2>4 DEF SidHolds, SameMap
  <2>5. CASE s[1] \notin quit
    <3>1. GoneHolds(s) /\ ComingHolds(s) /\ GoingHolds(s) /\ LinesHold(s)
      BY <2>5 DEF SidHolds
    <3>2. GoneHolds(s)'
      BY <1>1, <1>3, <1>5, <3>1 DEF GoneHolds, SameMap, Like, Drop
    <3>3. ComingHolds(s)'
      BY <1>1, <1>3, <1>5, <2>1, <2>2, <3>1 DEF ComingHolds, GoneHolds, SameMap, Like, Drop
    <3>4. GoingHolds(s)'
      BY <1>1, <1>3, <1>5, <2>1, <2>2, <3>1 DEF GoingHolds, SameMap, Like, Drop
    <3>5. LinesHold(s)'
      BY <1>1, <1>3, <1>5, <2>1, <2>2, <3>1 DEF LinesHold, GoneHolds, SameMap, Like, Drop
    <3> QED
      BY <1>6, <2>3, <3>2, <3>3, <3>4, <3>5 DEF SidHolds
  <2> QED BY <2>4, <2>5
<1> QED
  BY <1>7, <1>8

(* Every step keeps the inductive invariant.                                *)
LEMMA GatewayIInvStep == GatewayIInv /\ [GatewayNext]_gatewayVars => GatewayIInv'
<1> SUFFICES ASSUME GatewayIInv, [GatewayNext]_gatewayVars PROVE GatewayIInv'
  OBVIOUS
<1>1. GatePlaces /\ TasksInv /\ GatePlaces' /\ TasksInv'
  BY GatewayBase DEF GatewayIInv
<1>2. ASSUME NEW s \in Sids PROVE SidHolds(s)'
  <2> USE DEF wsClientVars, ownerVars, gateLinkVars
  <2>0. SidHolds(s)
    BY DEF GatewayIInv
  <2>1. ASSUME NEW k \in GateClients, GateClient(k) PROVE SidHolds(s)'
    BY <1>1, <2>0, <2>1, ClientLife
  <2>2. CASE GateConnect
    BY <1>1, <2>0, <2>2, ConnectLife
  <2>3. CASE \E r \in Sids : AttachAgain(r)
    BY <1>1, <2>0, <2>3, AgainLife
  <2>4. CASE GateForward
    BY <1>1, <2>0, <2>4, ForwardLife
  <2>5. CASE GateServe
    BY <1>1, <2>0, <2>5, ServeLife
  <2>6. CASE GateBreak \/ GateSeeCut
    <3>1. SameMap /\ gate' # "up" /\ toShard' = <<>> /\ inWorld' = {} /\ again' = again
      BY <1>1, <2>6 DEF GateBreak, GateSeeCut, SameMap, TasksInv
    <3>2. UNCHANGED <<shardTx, outgoing>>
          /\ (UNCHANGED <<owner, holding>> \/ (owner # "writing" /\ owner' # "writing"))
      BY <2>6 DEF GateBreak, GateSeeCut
    <3>3. Like(ToCome(s[1]), ToCome(s[1])', s)
      BY <3>2, QuietToCome
    <3> QED
      BY <2>0, <3>1, <3>3, AwayLife
  <2>7. CASE GateTake
    <3>1. Like(ToCome(s[1]), ToCome(s[1])', s)
      BY <1>1, <2>7, TakenToCome
    <3>2. UNCHANGED <<session, uses, quit, clients, again, toShard, inWorld, gate>>
      BY <2>7 DEF GateTake
    <3>3. MapHolds(s)'
      BY <2>0, <3>2 DEF SidHolds, MapHolds
    <3> QED
      BY <2>0, <3>1, <3>2, <3>3, QuietLife DEF Like
  <2>8. CASE NobodyToAttach \/ GateRoute \/ PassOutput \/ UNCHANGED gatewayVars
    <3>1. UNCHANGED <<shardTx, outgoing>>
          /\ (UNCHANGED <<owner, holding>> \/ (owner # "writing" /\ owner' # "writing"))
      BY <2>8 DEF NobodyToAttach, GateRoute, PassOutput, gatewayVars
    <3>2. Like(ToCome(s[1]), ToCome(s[1])', s)
      BY <3>1, QuietToCome
    <3>3. UNCHANGED <<session, uses, quit, clients, again, toShard, inWorld, gate>>
      BY <2>8 DEF NobodyToAttach, GateRoute, PassOutput, gatewayVars
    <3>4. MapHolds(s)'
      BY <2>0, <3>3 DEF SidHolds, MapHolds
    <3> QED
      BY <2>0, <3>2, <3>3, <3>4, QuietLife DEF Like
  <2> QED
    BY <2>1, <2>2, <2>3, <2>4, <2>5, <2>6, <2>7, <2>8 DEF GatewayNext, LinkOwner
<1> QED
  BY <1>1, <1>2 DEF GatewayIInv

(* It holds at the start.                                                    *)
LEMMA GatewayIInvInit == GatewayInit => GatewayIInv
<1> SUFFICES ASSUME GatewayInit PROVE GatewayIInv
  OBVIOUS
<1>0. MaxAttaches \in Nat \ {0} /\ OutCap \in Nat /\ ShardTxCap \in Nat /\ GateWire \in Nat
      /\ MaxGateBreaks \in Nat /\ Len(<<>>) = 0
  BY GateBounds
<1>1. GatePlaces
  BY <1>0 DEF GatewayInit, GatePlaces
<1>2. Held = <<>> /\ Held \in Seq(Toward)
  BY DEF GatewayInit, Held
<1>3. outgoing \in [GateClients -> Seq(Toward)] /\ \A k \in GateClients : TaskInv(k)
  BY <1>0 DEF GatewayInit, TaskInv
<1>4. TasksInv
  BY <1>0, <1>2, <1>3 DEF GatewayInit, TasksInv
<1>5. ASSUME NEW s \in Sids PROVE SidHolds(s)
  <2>1. s[1] \in GateClients /\ s[2] \in Nat \ {0}
    BY TowardFrames
  <2>2. ToCome(s[1]) = <<>> /\ toShard = <<>>
    BY <1>2, <2>1 DEF ToCome, GatewayInit
  <2>3. /\ s \notin clients /\ inWorld = {} /\ again = {} /\ session[s[1]] = 0 /\ gate = "none"
    BY <2>1 DEF GatewayInit
  <2>4. \A m : ~Has(ToCome(s[1]), m) /\ ~Has(toShard, m)
    BY <2>2 DEF Has
  <2> QED
    BY <2>1, <2>3, <2>4 DEF SidHolds, MapHolds, FreshHolds, GoneHolds, ComingHolds, GoingHolds, LinesHold
<1> QED
  BY <1>1, <1>4, <1>5 DEF GatewayIInv

-----------------------------------------------------------------------------
(* What the gateway promises.                                               *)

(* The greatest of some positions.                                           *)
LEMMA GreatestNumber ==
    ASSUME NEW n \in Nat, NEW T \in SUBSET (1 .. n), T # {}
    PROVE  \E x \in T : \A y \in T : y <= x
<1> DEFINE U == {n - y : y \in T}
<1>1. U \in SUBSET Nat /\ U # {}
  <2>1. ASSUME NEW y \in T PROVE n - y \in Nat
    <3>1. y \in 1 .. n
      OBVIOUS
    <3> QED BY <3>1
  <2>2. U \subseteq Nat
    BY <2>1
  <2>3. U # {}
    OBVIOUS
  <2> QED BY <2>2, <2>3
<1>2. PICK u \in U : \A v \in U : u <= v
  <2> HIDE DEF U
  <2> QED BY <1>1, LeastNumber
<1>3. PICK x \in T : u = n - x
  BY <1>2
<1>4. ASSUME NEW y \in T PROVE y <= x
  <2>1. n - y \in U
    OBVIOUS
  <2>2. n - x <= n - y /\ x \in Int /\ y \in Int
    BY <1>2, <1>3, <2>1
  <2> QED
    BY <2>2
<1> QED
  BY <1>4

(* What LastAbout finds.                                                    *)
LEMMA LastIs ==
    ASSUME NEW q \in Seq(Toward), NEW s \in Sids
    PROVE  /\ LastSays(q, DetachOf(s), AttachOf(s)) => LastAbout(s, q) = "detach"
           /\ Has(q, AttachOf(s)) /\ ~Has(q, DetachOf(s)) => LastAbout(s, q) = "attach"
           /\ ~Has(q, AttachOf(s)) /\ ~Has(q, DetachOf(s)) => LastAbout(s, q) = "nothing"
           /\ ~Has(q, AttachOf(s)) => LastAbout(s, q) \in {"detach", "nothing"}
           /\ Has(q, DetachOf(s)) => LastAbout(s, q) # "nothing"
<1> DEFINE about == {i \in 1 .. Len(q) : q[i].s = s /\ q[i].t # "input"}
<1>1. LastAbout(s, q) =
        IF about = {} THEN "nothing" ELSE q[CHOOSE i \in about : \A j \in about : j <= i].t
  BY DEF LastAbout
<1>2. \A i \in 1 .. Len(q) :
        /\ i \in about <=> q[i] = AttachOf(s) \/ q[i] = DetachOf(s)
        /\ q[i] = AttachOf(s) => q[i].t = "attach"
        /\ q[i] = DetachOf(s) => q[i].t = "detach"
  <2> SUFFICES ASSUME NEW i \in 1 .. Len(q)
               PROVE  /\ i \in about <=> q[i] = AttachOf(s) \/ q[i] = DetachOf(s)
                      /\ q[i] = AttachOf(s) => q[i].t = "attach"
                      /\ q[i] = DetachOf(s) => q[i].t = "detach"
    OBVIOUS
  <2> DEFINE m == q[i]
  <2>1. m \in Toward
    OBVIOUS
  <2>2. i \in about <=> m.s = s /\ m.t # "input"
    OBVIOUS
  <2> HIDE DEF m, about
  <2>3. /\ m.t \in {"attach", "detach", "input"}
        /\ m.t = "attach" => m = AttachOf(m.s)
        /\ m.t = "detach" => m = DetachOf(m.s)
    BY <2>1, GwKinds
  <2>4. /\ AttachOf(s).s = s /\ DetachOf(s).s = s
        /\ AttachOf(s).t = "attach" /\ DetachOf(s).t = "detach"
    BY GwFrames
  <2>5. /\ i \in about <=> m = AttachOf(s) \/ m = DetachOf(s)
        /\ m = AttachOf(s) => m.t = "attach"
        /\ m = DetachOf(s) => m.t = "detach"
    BY <2>2, <2>3, <2>4
  <2> QED
    BY <2>5 DEF m
<1>3. about = {} <=> ~Has(q, AttachOf(s)) /\ ~Has(q, DetachOf(s))
  <2>1. about \subseteq 1 .. Len(q)
    OBVIOUS
  <2> HIDE DEF about
  <2> QED
    BY <1>2, <2>1 DEF Has
<1>4. ASSUME about # {}
      PROVE  \E i \in about : /\ \A j \in about : j <= i
                              /\ LastAbout(s, q) = q[i].t
  <2>1. Len(q) \in Nat /\ about \in SUBSET (1 .. Len(q))
    OBVIOUS
  <2> HIDE DEF about
  <2>2. \E i \in about : \A j \in about : j <= i
    BY <1>4, <2>1, GreatestNumber
  <2> DEFINE i == CHOOSE i \in about : \A j \in about : j <= i
  <2>3. i \in about /\ \A j \in about : j <= i
    BY <2>2
  <2>4. LastAbout(s, q) = q[i].t
    BY <1>1, <1>4
  <2> HIDE DEF i
  <2> QED
    BY <2>3, <2>4
<1>5. about \subseteq 1 .. Len(q)
  OBVIOUS
<1>6. LastAbout(s, q) = "nothing" <=> about = {}
  <2>1. CASE about = {}
    BY <1>1, <2>1
  <2>2. CASE about # {}
    <3>1. PICK i \in about : LastAbout(s, q) = q[i].t
      BY <1>4, <2>2
    <3>2. i \in 1 .. Len(q)
      BY <1>5
    <3>3. q[i].t \in {"attach", "detach"}
      <4> HIDE DEF about
      <4> QED BY <1>2, <3>2
    <3> QED BY <2>2, <3>1, <3>3
  <2> QED BY <2>1, <2>2
<1> HIDE DEF about
<1>7. ASSUME LastSays(q, DetachOf(s), AttachOf(s)) PROVE LastAbout(s, q) = "detach"
  <2>1. PICK i \in 1 .. Len(q) : q[i] = DetachOf(s) /\ \A j \in i + 1 .. Len(q) : q[j] # AttachOf(s)
    BY <1>7 DEF LastSays
  <2>2. i \in about
    BY <1>2, <2>1
  <2>3. PICK l \in about : (\A j \in about : j <= l) /\ LastAbout(s, q) = q[l].t
    BY <1>4, <2>2
  <2>4. l \in 1 .. Len(q) /\ i <= l
    BY <1>5, <2>2, <2>3
  <2>5. l = i \/ l \in i + 1 .. Len(q)
    BY <2>1, <2>4
  <2>6. q[l] = DetachOf(s)
    BY <1>2, <2>1, <2>3, <2>4, <2>5
  <2> QED
    BY <1>2, <2>3, <2>4, <2>6
<1>8. ASSUME Has(q, AttachOf(s)), ~Has(q, DetachOf(s)) PROVE LastAbout(s, q) = "attach"
  <2>1. about # {}
    BY <1>3, <1>8
  <2>2. PICK l \in about : LastAbout(s, q) = q[l].t
    BY <1>4, <2>1
  <2>3. l \in 1 .. Len(q) /\ q[l] # DetachOf(s)
    BY <1>5, <1>8 DEF Has
  <2> QED
    BY <1>2, <2>2, <2>3
<1>9. ASSUME ~Has(q, AttachOf(s)) PROVE LastAbout(s, q) \in {"detach", "nothing"}
  <2>1. CASE about = {}
    BY <1>6, <2>1
  <2>2. CASE about # {}
    <3>1. PICK l \in about : LastAbout(s, q) = q[l].t
      BY <1>4, <2>2
    <3>2. l \in 1 .. Len(q) /\ q[l] # AttachOf(s)
      BY <1>5, <1>9 DEF Has
    <3> QED
      BY <1>2, <3>1, <3>2
  <2> QED BY <2>1, <2>2
<1> QED
  BY <1>3, <1>6, <1>7, <1>8, <1>9

(* What is under way is what the link holds and what has still to come.     *)
LEMMA OnTheWayIs ==
    ASSUME TasksInv, NEW k \in GateClients
    PROVE  OnTheWay(k) = toShard \o ToCome(k)
<1>1. /\ Held \in Seq(Toward) /\ shardTx \in Seq(Toward) /\ toShard \in Seq(Toward)
      /\ outgoing[k] \in Seq(Toward) /\ Held \o shardTx \in Seq(Toward)
  BY TasksTypes
<1>2. OnTheWay(k) = ((toShard \o Held) \o shardTx) \o outgoing[k]
  BY DEF OnTheWay, Held
<1> DEFINE o == outgoing[k]
<1>3. o \in Seq(Toward)
  BY <1>1
<1> HIDE DEF o
<1>4. (toShard \o Held) \o shardTx = toShard \o (Held \o shardTx)
  BY <1>1, Regrouped
<1>5. (toShard \o (Held \o shardTx)) \o o = toShard \o ((Held \o shardTx) \o o)
  <2> DEFINE h == Held \o shardTx
  <2>1. h \in Seq(Toward)
    BY <1>1
  <2> HIDE DEF h
  <2>2. (toShard \o h) \o o = toShard \o (h \o o)
    BY <1>1, <1>3, <2>1, Regrouped, SMTT(30)
  <2> QED BY <2>2 DEF h
<1> QED
  BY <1>2, <1>4, <1>5 DEF ToCome, o

(* The invariant implies what the gateway promises: map and shard agree in    *)
(* the end,                                                                  *)
LEMMA Converges == GatewayIInv => GatewayConverges
<1> SUFFICES ASSUME GatewayIInv, gate = "up", NEW s \in Sids, s[1] \notin quit
             PROVE  WillBeThere(s) <=> s \in clients
  BY DEF GatewayConverges
<1>1. TasksInv /\ ComingHolds(s) /\ GoingHolds(s) /\ GoneHolds(s) /\ s[1] \in GateClients
  BY TowardFrames DEF GatewayIInv, SidHolds
<1> DEFINE q == ToCome(s[1])
           r == toShard
           w == r \o q
<1>2. q \in Seq(Toward) /\ r \in Seq(Toward) /\ OnTheWay(s[1]) = w /\ w \in Seq(Toward)
  <2>1. q \in Seq(Toward) /\ r \in Seq(Toward)
    BY <1>1, TasksTypes
  <2> QED
    BY <1>1, <2>1, OnTheWayIs
<1> HIDE DEF q, r
<1>3. /\ Has(w, AttachOf(s)) <=> Has(r, AttachOf(s)) \/ Has(q, AttachOf(s))
      /\ Has(w, DetachOf(s)) <=> Has(r, DetachOf(s)) \/ Has(q, DetachOf(s))
      /\ LastSays(w, DetachOf(s), AttachOf(s)) <=>
           \/ LastSays(q, DetachOf(s), AttachOf(s))
           \/ LastSays(r, DetachOf(s), AttachOf(s)) /\ ~Has(q, AttachOf(s))
  BY <1>2, JoinedHas, JoinedLast
<1> HIDE DEF w
<1>4. /\ LastSays(w, DetachOf(s), AttachOf(s)) => LastAbout(s, w) = "detach"
      /\ Has(w, AttachOf(s)) /\ ~Has(w, DetachOf(s)) => LastAbout(s, w) = "attach"
      /\ ~Has(w, AttachOf(s)) /\ ~Has(w, DetachOf(s)) => LastAbout(s, w) = "nothing"
      /\ ~Has(w, AttachOf(s)) => LastAbout(s, w) \in {"detach", "nothing"}
  BY <1>2, LastIs
<1>5. WillBeThere(s) <=> \/ LastAbout(s, w) = "attach"
                         \/ LastAbout(s, w) = "nothing" /\ s \in inWorld \cup again
  BY <1>2 DEF WillBeThere
<1>6. CASE s \in clients
  <2>1. ~Has(w, DetachOf(s))
    BY <1>1, <1>3, <1>6 DEF GoneHolds, q, r
  <2>2. s \in inWorld \cup again \/ Has(w, AttachOf(s))
    BY <1>1, <1>3, <1>6 DEF ComingHolds, q, r
  <2> QED
    BY <1>4, <1>5, <1>6, <2>1, <2>2
<1>7. CASE s \notin clients
  <2>1. \/ LastSays(w, DetachOf(s), AttachOf(s))
        \/ s \notin again /\ s \notin inWorld /\ ~Has(w, AttachOf(s))
    BY <1>1, <1>3, <1>7 DEF GoingHolds, q, r
  <2> QED
    BY <1>4, <1>5, <1>7, <2>1
<1> QED BY <1>6, <1>7

(* ... a line finds its session attached,                                    *)
LEMMA FindTheirWorld == GatewayIInv => LinesFindTheirWorld
<1> SUFFICES ASSUME GatewayIInv, toShard # <<>>, Head(toShard).t = "input",
                    Head(toShard).s \notin inWorld
             PROVE  Head(toShard).s \notin clients \/ Head(toShard).s[1] \in quit
  BY DEF LinesFindTheirWorld
<1> DEFINE m == Head(toShard)
<1>1. TasksInv /\ toShard \in Seq(Toward) /\ gate = "up"
  BY DEF GatewayIInv, TasksInv
<1>2. m \in Toward /\ toShard[1] = m /\ 1 \in 1 .. Len(toShard)
  BY <1>1
<1> HIDE DEF m
<1>3. m.t = "input" /\ m.s \notin inWorld
  BY DEF m
<1>4. m.s \in Sids /\ m = InputOf(m.s)
  BY <1>2, <1>3, GwKinds
<1> SUFFICES ASSUME m.s \in clients, m.s[1] \notin quit PROVE FALSE
  BY DEF m
<1>5. SidHolds(m.s)
  BY <1>4 DEF GatewayIInv
<1>6. Led(toShard, InputOf(m.s), AttachOf(m.s))
  BY <1>1, <1>3, <1>5 DEF SidHolds, LinesHold
<1>7. \E j \in 1 .. Len(toShard) : j < 1
  BY <1>2, <1>4, <1>6 DEF Led
<1> QED
  BY <1>7

(* ... and somebody can always go on.                                        *)
LEMMA NeverStuck == GatewayIInv => GatewayNeverStuck
<1> SUFFICES ASSUME GatewayIInv, NEW k \in GateClients, wsAt[k] \in {"sending", "parting"},
                    ~GateStalled, ~OwnerCanGoOn, ~CanServe,
                    \A j \in GateClients : ~CanSend(j)
             PROVE  GateJammed
  BY DEF GatewayNeverStuck
<1>1. GatePlaces /\ TasksInv /\ ShardTxCap \in Nat \ {0} /\ GateWire \in Nat \ {0}
  BY GateBounds DEF GatewayIInv
<1>2. Len(shardTx) \in Nat /\ Len(toShard) \in Nat /\ Len(fromShard) \in Nat
      /\ shardTx \in Seq(Toward)
  BY <1>1 DEF GatePlaces, TasksInv
<1>3. Len(shardTx) # 0
  BY <1>1, <1>2 DEF CanSend
<1>4. shardTx # <<>>
  BY <1>3
<1>5. owner \in {"attaching", "writing"} /\ ~CanWrite
  BY <1>1, <1>4 DEF OwnerCanGoOn, GateStalled, GatePlaces
<1>6. gate = "up" /\ Len(toShard) >= GateWire
  BY <1>1, <1>2, <1>5 DEF CanWrite, GatePlaces, TasksInv
<1>7. toShard # <<>>
  BY <1>1, <1>6
<1>8. Len(fromShard) >= GateWire
  BY <1>1, <1>2, <1>6, <1>7 DEF CanServe
<1> QED
  BY <1>1, <1>2, <1>5, <1>6, <1>8 DEF GateJammed, TasksInv

(* The gateway's invariant, for any websockets, capacities and number of lost *)
(* links: what handle_ws_conn and shard_manager_task have put on the way adds *)
(* up to the map, lines find their player in the world, and nobody waits for  *)
(* the gateway itself but behind one slow client or a jammed link.            *)
THEOREM GatewayInvHolds == GatewayInit /\ [][GatewayNext]_gatewayVars => []GatewayInv
<1>1. GatewayIInv => GatewayInv
  BY GatewayTypes, Converges, FindTheirWorld, NeverStuck DEF GatewayInv, GatewayIInv
<1> QED
  BY <1>1, GatewayIInvInit, GatewayIInvStep, PTL
-----------------------------------------------------------------------------
(* Folds over the bytes of a sequence, as recursive functions compute them. *)

Fold(step, st, q) ==
    LET walk[i \in 0 .. Len(q)] == IF i = 0 THEN st ELSE step[<<walk[i - 1], q[i]>>]
    IN  walk[Len(q)]

\* f is the way of a fold through q.
Walks(f, step, st, q) ==
    /\ f[0] = st
    /\ \A i \in 1 .. Len(q) : f[i] = step[<<f[i - 1], q[i]>>]

\* The step takes a state of D and an element of E to a state.
StepsOn(step, D, E) == step \in [D \X E -> D]

\* f is the way, within D, and the fold is where it ends.
WayOf(f, step, st, q, D) ==
    /\ f \in [0 .. Len(q) -> D]
    /\ Walks(f, step, st, q)
    /\ Fold(step, st, q) = f[Len(q)]

(* There is such a way ...                                                  *)
LEMMA WayExists ==
    ASSUME NEW D, NEW E, NEW step, StepsOn(step, D, E), NEW st \in D, NEW q \in Seq(E)
    PROVE  \E f \in [0 .. Len(q) -> D] : Walks(f, step, st, q)
<1> DEFINE n == Len(q)
           s == [i \in 1 .. n |-> [d \in D |-> step[<<d, q[i]>>]]]
<1>1. n \in Nat /\ \A i \in 1 .. n : q[i] \in E
  OBVIOUS
<1>2. Steps(s, n, D)
  BY <1>1 DEF Steps, StepsOn
<1>3. \A i \in 1 .. n, d \in D : s[i][d] = step[<<d, q[i]>>]
  OBVIOUS
<1> HIDE DEF s, n
<1>4. PICK f : Iterates(f, s, n, D, st)
  BY <1>1, <1>2, IteratesExist
<1>5. f \in [0 .. n -> D] /\ f[0] = st /\ \A i \in 1 .. n : f[i] = s[i][f[i - 1]]
  BY <1>4 DEF Iterates
<1>6. \A i \in 1 .. n : f[i - 1] \in D
  <2> TAKE i \in 1 .. n
  <2>1. i - 1 \in 0 .. n
    BY <1>1
  <2> QED
    BY <1>5, <2>1
<1>7. \A i \in 1 .. n : f[i] = step[<<f[i - 1], q[i]>>]
  BY <1>3, <1>5, <1>6
<1> QED
  BY <1>5, <1>7 DEF n, Walks

(* ... only one ...                                                         *)
LEMMA OneWay ==
    ASSUME NEW E, NEW q \in Seq(E), NEW step, NEW st, NEW f, NEW g,
           Walks(f, step, st, q), Walks(g, step, st, q)
    PROVE  f[Len(q)] = g[Len(q)]
<1>1. Len(q) \in Nat /\ f[0] = g[0]
  BY DEF Walks
<1>2. StayEqual(f, g, Len(q))
  BY DEF Walks, StayEqual
<1>3. \A i \in 0 .. Len(q) : f[i] = g[i]
  BY <1>1, <1>2, IteratesAgree
<1> QED
  BY <1>1, <1>3

(* ... and the fold is where it ends.                                       *)
LEMMA FoldEnds ==
    ASSUME NEW D, NEW E, NEW step, StepsOn(step, D, E), NEW st \in D, NEW q \in Seq(E),
           NEW f, Walks(f, step, st, q)
    PROVE  Fold(step, st, q) = f[Len(q)]
<1> DEFINE n == Len(q)
           Eq(h) == h = [i \in 0 .. n |-> IF i = 0 THEN st ELSE step[<<h[i - 1], q[i]>>]]
           g == CHOOSE h : Eq(h)
<1>1. PICK e \in [0 .. n -> D] : Walks(e, step, st, q)
  BY WayExists
<1>2. n \in Nat
  OBVIOUS
<1>3. \A i \in 0 .. n : e[i] = IF i = 0 THEN st ELSE step[<<e[i - 1], q[i]>>]
  BY <1>1, <1>2 DEF Walks
<1>4. Eq(e)
  BY <1>1, <1>3
<1>5. Eq(g)
  <2> HIDE DEF Eq
  <2> QED
    BY <1>4
<1>6. Fold(step, st, q) = g[Len(q)]
  BY DEF Fold
<1> HIDE DEF g
<1>7. Walks(g, step, st, q)
  BY <1>2, <1>5 DEF Walks
<1> HIDE DEF Eq
<1> QED
  BY <1>6, <1>7, OneWay

\* There is a way and the fold is where it ends.
LEMMA FoldWay ==
    ASSUME NEW D, NEW E, NEW step, StepsOn(step, D, E), NEW st \in D, NEW q \in Seq(E)
    PROVE  \E f : WayOf(f, step, st, q, D)
<1>1. PICK f \in [0 .. Len(q) -> D] : Walks(f, step, st, q)
  BY WayExists
<1>2. Fold(step, st, q) = f[Len(q)]
  BY <1>1, FoldEnds
<1> QED
  BY <1>1, <1>2 DEF WayOf

\* A fold ends within the states.
LEMMA FoldType ==
    ASSUME NEW D, NEW E, NEW step, StepsOn(step, D, E), NEW st \in D, NEW q \in Seq(E)
    PROVE  Fold(step, st, q) \in D
<1>1. PICK f : WayOf(f, step, st, q, D)
  BY FoldWay
<1>2. Len(q) \in 0 .. Len(q)
  OBVIOUS
<1> QED
  BY <1>1, <1>2 DEF WayOf

(* Nothing to fold.                                                         *)
LEMMA FoldNone ==
    ASSUME NEW D, NEW E, NEW step, StepsOn(step, D, E), NEW st \in D
    PROVE  Fold(step, st, <<>>) = st
<1>1. <<>> \in Seq(E) /\ Len(<<>>) = 0
  OBVIOUS
<1>2. PICK f : WayOf(f, step, st, <<>>, D)
  BY <1>1, FoldWay
<1> QED
  BY <1>1, <1>2 DEF WayOf, Walks

(* One part after the other.                                                *)
LEMMA FoldConcat ==
    ASSUME NEW D, NEW E, NEW step, StepsOn(step, D, E), NEW st \in D,
           NEW a \in Seq(E), NEW b \in Seq(E)
    PROVE  Fold(step, st, a \o b) = Fold(step, Fold(step, st, a), b)
<1> DEFINE m == Len(a)  n == Len(b)
<1>0. PICK f : WayOf(f, step, st, a, D)
  BY FoldWay
<1>1. f \in [0 .. m -> D] /\ Walks(f, step, st, a) /\ Fold(step, st, a) = f[m]
  BY <1>0 DEF WayOf
<1>2. m \in Nat /\ n \in Nat /\ f[m] \in D
  BY <1>1
<1> DEFINE mid == f[m]
<1> HIDE DEF mid
<1>31. mid \in D
  BY <1>2 DEF mid
<1>32. PICK g : WayOf(g, step, mid, b, D)
  BY <1>31, FoldWay
<1>3. g \in [0 .. n -> D] /\ Walks(g, step, f[m], b) /\ Fold(step, f[m], b) = g[n]
  BY <1>32 DEF WayOf, mid
<1> DEFINE h == [i \in 0 .. m + n |-> IF i <= m THEN f[i] ELSE g[i - m]]
<1>4. /\ a \o b \in Seq(E) /\ Len(a \o b) = m + n
      /\ \A i \in 1 .. m + n : (a \o b)[i] = IF i <= m THEN a[i] ELSE b[i - m]
  OBVIOUS
<1>5. /\ g[0] = f[m] /\ f[0] = st
      /\ \A i \in 1 .. m : f[i] = step[<<f[i - 1], a[i]>>]
      /\ \A i \in 1 .. n : g[i] = step[<<g[i - 1], b[i]>>]
  BY <1>1, <1>3 DEF Walks
<1> HIDE DEF m, n
<1>6. ASSUME NEW i \in 1 .. m + n PROVE h[i] = step[<<h[i - 1], (a \o b)[i]>>]
  <2>1. CASE i <= m
    <3>1. i \in 1 .. m /\ i - 1 \in 0 .. m + n /\ i - 1 <= m
      BY <1>2, <2>1
    <3>2. f[i] = step[<<f[i - 1], a[i]>>]
      BY <1>5, <3>1
    <3>3. h[i] = f[i] /\ h[i - 1] = f[i - 1] /\ (a \o b)[i] = a[i]
      BY <1>2, <1>4, <2>1, <3>1
    <3> QED
      BY <3>2, <3>3
  <2>2. CASE i = m + 1
    <3>1. /\ i - m = 1 /\ 1 \in 1 .. n /\ i - 1 = m /\ ~ i <= m /\ m \in 0 .. m + n
          /\ i \in 0 .. m + n /\ m <= m
      BY <1>2, <2>2
    <3>2. g[1] = step[<<g[1 - 1], b[1]>>] /\ 1 - 1 = 0
      BY <1>5, <3>1
    <3>3. h[i] = g[i - m] /\ h[i - 1] = f[m] /\ (a \o b)[i] = b[i - m]
      BY <1>4, <3>1
    <3> QED
      BY <1>5, <3>1, <3>2, <3>3
  <2>3. CASE i > m + 1
    <3>1. i - m \in 1 .. n /\ ~ i <= m /\ ~ i - 1 <= m /\ i - 1 \in 0 .. m + n
          /\ (i - 1) - m = (i - m) - 1
      BY <1>2, <2>3
    <3>2. g[i - m] = step[<<g[(i - m) - 1], b[i - m]>>]
      BY <1>5, <3>1
    <3>3. h[i] = g[i - m] /\ h[i - 1] = g[(i - m) - 1] /\ (a \o b)[i] = b[i - m]
      BY <1>2, <1>4, <3>1, SMTT(30)
    <3> QED
      BY <3>2, <3>3
  <2> QED
    <3>1. i <= m \/ i = m + 1 \/ i > m + 1
      BY <1>2
    <3> QED
      BY <3>1, <2>1, <2>2, <2>3
<1>7. h[0] = st
  BY <1>2, <1>5
<1>8. h[m + n] = g[n]
  <2>1. CASE n = 0
    BY <1>2, <1>5, <2>1
  <2>2. CASE n # 0
    BY <1>2, <2>2
  <2> QED
    BY <2>1, <2>2
<1> HIDE DEF h
<1>9. Walks(h, step, st, a \o b)
  BY <1>4, <1>6, <1>7 DEF Walks
<1> DEFINE c == a \o b
<1> HIDE DEF c
<1>10. c \in Seq(E) /\ Walks(h, step, st, c) /\ Len(c) = m + n
  BY <1>4, <1>9 DEF c
<1>11. Fold(step, st, c) = h[Len(c)]
  BY <1>10, FoldEnds
<1> QED
  BY <1>1, <1>3, <1>8, <1>10, <1>11 DEF c

(* One element.                                                             *)
LEMMA FoldOne ==
    ASSUME NEW D, NEW E, NEW step, StepsOn(step, D, E), NEW st \in D, NEW b \in E
    PROVE  Fold(step, st, <<b>>) = step[<<st, b>>]
<1>1. <<b>> \in Seq(E) /\ Len(<<b>>) = 1 /\ <<b>>[1] = b
  OBVIOUS
<1> DEFINE q == <<b>>
<1> HIDE DEF q
<1>2. PICK f : WayOf(f, step, st, q, D)
  BY <1>1, FoldWay DEF q
<1>4. Len(q) = 1 /\ q[1] = b /\ 1 \in 1 .. 1 /\ 1 - 1 = 0
  BY <1>1 DEF q
<1>5. Fold(step, st, q) = f[1]
  BY <1>2, <1>4 DEF WayOf
<1>3. f[1] = step[<<f[0], b>>] /\ f[0] = st
  BY <1>2, <1>4 DEF WayOf, Walks
<1> QED
  BY <1>3, <1>5 DEF q

\* One element more, one step more.
LEMMA FoldAppend ==
    ASSUME NEW D, NEW E, NEW step, StepsOn(step, D, E), NEW st \in D, NEW q \in Seq(E),
           NEW b \in E
    PROVE  Fold(step, st, Append(q, b)) = step[<<Fold(step, st, q), b>>]
<1>1. Append(q, b) = q \o <<b>> /\ <<b>> \in Seq(E)
  OBVIOUS
<1>2. Fold(step, st, q) \in D
  BY FoldType
<1> DEFINE p == <<b>>  mid == Fold(step, st, q)
<1> HIDE DEF p, mid
<1>2a. p \in Seq(E)
  BY <1>1 DEF p
<1>3. Fold(step, st, q \o p) = Fold(step, Fold(step, st, q), p)
  BY <1>2a, FoldConcat
<1>4. mid \in D
  BY <1>2 DEF mid
<1>5. Fold(step, mid, <<b>>) = step[<<mid, b>>]
  BY <1>4, FoldOne
<1> QED
  BY <1>1, <1>3, <1>5 DEF p, mid

-----------------------------------------------------------------------------
(* Telnet.  The parser as a fold.                                           *)

Byte == {"x", "SE", "IAC", "CR", "LF", "NUL", "DO", "DONT", "WILL", "WONT", "SB"}
Mode == {"data", "iac", "option", "sub", "subiac", "DO", "DONT", "WILL", "WONT"}
ParserStates == [mode : Mode, data : Seq(Byte), replies : Seq(Seq(Byte))]
ParseStep == [p \in ParserStates \X Byte |-> ParseByte(p[1], p[2])]

\* What is answered to a DO or a WILL is one reply or none.
LEMMA RefusalType ==
    ASSUME NEW cmd, NEW opt \in Byte
    PROVE  Refusal(cmd, opt) \in Seq(Seq(Byte))
<1>1. <<"WONT", opt>> \in Seq(Byte) /\ <<"DONT", opt>> \in Seq(Byte)
  BY DEF Byte
<1> DEFINE no == <<"WONT", opt>>  stop == <<"DONT", opt>>
<1>2. Refusal(cmd, opt) \in {<<no>>, <<stop>>, <<>>}
  BY DEF Refusal
<1> HIDE DEF no, stop
<1>3. no \in Seq(Byte) /\ stop \in Seq(Byte)
  BY <1>1 DEF no, stop
<1>4. <<no>> \in Seq(Seq(Byte)) /\ <<stop>> \in Seq(Seq(Byte)) /\ <<>> \in Seq(Seq(Byte))
  BY <1>3
<1> QED
  BY <1>2, <1>4

\* What a byte does to a state, part by part.
NextMode(m, b) ==
    CASE m = "data"   -> IF b = "IAC" THEN "iac" ELSE "data"
      [] m = "iac"    -> IF b \in {"DO", "DONT", "WILL", "WONT"} THEN b
                         ELSE IF b = "SB" THEN "option" ELSE "data"
      [] m = "option" -> "sub"
      [] m = "sub"    -> IF b = "IAC" THEN "subiac" ELSE "sub"
      [] m = "subiac" -> IF b = "SE" THEN "data" ELSE "sub"
      [] OTHER        -> "data"
IsDatum(m, b) == \/ m = "data" /\ b # "IAC"
                 \/ m = "iac" /\ b = "IAC"
Answer(m, b) == IF m \in {"DO", "DONT", "WILL", "WONT"} THEN Refusal(m, b) ELSE <<>>
State(m, d, r) == [mode |-> m, data |-> d, replies |-> r]

\* A byte moves the parser, adds a datum or a reply: part by part.
LEMMA ByteIs ==
    ASSUME NEW m \in Mode, NEW d \in Seq(Byte), NEW r \in Seq(Seq(Byte)), NEW b \in Byte
    PROVE  ParseByte(State(m, d, r), b)
             = State(NextMode(m, b), IF IsDatum(m, b) THEN Append(d, b) ELSE d,
                     r \o Answer(m, b))
<1> DEFINE st == State(m, d, r)
<1>1. st = [mode |-> m, data |-> d, replies |-> r] /\ r \o <<>> = r
  BY DEF State
<1> HIDE DEF st
<1>2. ASSUME NEW n PROVE To(st, n) = State(n, d, r)
  <2>1. To(st, n) = [st EXCEPT !.mode = n]
    BY DEF To
  <2> QED
    BY <1>1, <2>1 DEF State
<1>3. Datum(st, b) = State("data", Append(d, b), r)
  <2> DEFINE v == To(st, "data")  more == Append(v.data, b)
  <2>1. v = [mode |-> "data", data |-> d, replies |-> r]
    BY <1>2 DEF State
  <2>2. Datum(st, b) = [v EXCEPT !.data = more]
    BY DEF Datum
  <2> HIDE DEF v, more
  <2>3. Datum(st, b) = [mode |-> "data", data |-> more, replies |-> r]
    BY <2>1, <2>2
  <2>4. more = Append(d, b)
    BY <2>1 DEF more
  <2> QED
    BY <2>3, <2>4 DEF State
<1>4. ASSUME m \in {"DO", "DONT", "WILL", "WONT"}
      PROVE  ParseByte(st, b) = State("data", d, r \o Refusal(m, b))
  <2> DEFINE v == To(st, "data")  more == v.replies \o Refusal(m, b)
  <2>1. v = [mode |-> "data", data |-> d, replies |-> r]
    BY <1>2 DEF State
  <2>2. ParseByte(st, b) = [v EXCEPT !.replies = more]
    BY <1>1, <1>4 DEF ParseByte
  <2> HIDE DEF v, more
  <2>3. ParseByte(st, b) = [mode |-> "data", data |-> d, replies |-> more]
    BY <2>1, <2>2
  <2>4. more = r \o Refusal(m, b)
    BY <2>1 DEF more
  <2> QED
    BY <2>3, <2>4 DEF State
<1>5. CASE m \in {"DO", "DONT", "WILL", "WONT"}
  BY <1>4, <1>5 DEF NextMode, IsDatum, Answer, st
<1> DEFINE nx == NextMode(m, b)
<1>6. ASSUME m \notin {"DO", "DONT", "WILL", "WONT"}
      PROVE  ParseByte(st, b) = IF IsDatum(m, b) THEN Datum(st, b) ELSE To(st, nx)
  <2>0. st.mode = m
    BY <1>1
  <2>1. CASE m = "data"
    <3>1. CASE b = "IAC"
      BY <2>0, <2>1, <3>1 DEF ParseByte, NextMode, IsDatum
    <3>2. CASE b # "IAC"
      BY <2>0, <2>1, <3>2 DEF ParseByte, IsDatum
    <3> QED
      BY <3>1, <3>2
  <2>2. CASE m = "iac"
    <3>1. CASE b = "IAC"
      BY <2>0, <2>2, <3>1 DEF ParseByte, IsDatum
    <3>2. CASE b \in {"DO", "DONT", "WILL", "WONT"}
      BY <2>0, <2>2, <3>2 DEF ParseByte, NextMode, IsDatum
    <3>3. CASE b \notin {"IAC", "DO", "DONT", "WILL", "WONT"}
      BY <2>0, <2>2, <3>3 DEF ParseByte, NextMode, IsDatum
    <3> QED
      BY <3>1, <3>2, <3>3
  <2>3. CASE m = "option"
    BY <2>0, <2>3 DEF ParseByte, NextMode, IsDatum
  <2>4. CASE m = "sub"
    BY <2>0, <2>4 DEF ParseByte, NextMode, IsDatum
  <2>5. CASE m = "subiac"
    BY <2>0, <2>5 DEF ParseByte, NextMode, IsDatum
  <2> QED
    BY <1>6, <2>1, <2>2, <2>3, <2>4, <2>5 DEF Mode
<1>7. IsDatum(m, b) => nx = "data"
  BY DEF IsDatum, NextMode
<1>8. CASE m \notin {"DO", "DONT", "WILL", "WONT"}
  <2>1. Answer(m, b) = <<>>
    BY <1>8 DEF Answer
  <2>2. ParseByte(st, b) = IF IsDatum(m, b) THEN Datum(st, b) ELSE To(st, nx)
    BY <1>6, <1>8
  <2>3. ParseByte(st, b) = State(nx, IF IsDatum(m, b) THEN Append(d, b) ELSE d, r)
    <3> HIDE DEF nx
    <3> QED
      BY <1>2, <1>3, <1>7, <2>2
  <2> QED
    BY <1>1, <2>1, <2>3 DEF st
<1> QED
  BY <1>5, <1>8

\* States of the parser and their parts.
LEMMA StateType ==
    /\ \A st \in ParserStates :
          /\ st.mode \in Mode /\ st.data \in Seq(Byte) /\ st.replies \in Seq(Seq(Byte))
          /\ st = State(st.mode, st.data, st.replies)
    /\ \A m \in Mode, d \in Seq(Byte), r \in Seq(Seq(Byte)) :
          /\ State(m, d, r) \in ParserStates
          /\ State(m, d, r).mode = m /\ State(m, d, r).data = d
          /\ State(m, d, r).replies = r
  BY DEF State, ParserStates

\* A byte takes a state of the parser to a state.
LEMMA ByteType ==
    ASSUME NEW st \in ParserStates, NEW b \in Byte
    PROVE  ParseByte(st, b) \in ParserStates
<1> DEFINE m == st.mode  d == st.data  r == st.replies
<1>1. m \in Mode /\ d \in Seq(Byte) /\ r \in Seq(Seq(Byte)) /\ st = State(m, d, r)
  BY StateType
<1> HIDE DEF m, d, r
<1>2. NextMode(m, b) \in Mode
  BY <1>1 DEF NextMode, Mode
<1>3. Answer(m, b) \in Seq(Seq(Byte))
  BY RefusalType DEF Answer
<1>4. r \o Answer(m, b) \in Seq(Seq(Byte)) /\ Append(d, b) \in Seq(Byte)
  BY <1>1, <1>3
<1> DEFINE e == IF IsDatum(m, b) THEN Append(d, b) ELSE d
           s == r \o Answer(m, b)
           nx == NextMode(m, b)
<1>5. e \in Seq(Byte) /\ s \in Seq(Seq(Byte)) /\ nx \in Mode
  BY <1>1, <1>2, <1>4
<1>6. ParseByte(st, b) = State(nx, e, s)
  BY <1>1, ByteIs
<1> HIDE DEF e, s, nx
<1> QED
  BY <1>5, <1>6, StateType

\* ... so it is a step to fold with.
LEMMA ParseStepType == StepsOn(ParseStep, ParserStates, Byte)
<1>1. \A p \in ParserStates \X Byte : ParseByte(p[1], p[2]) \in ParserStates
  BY ByteType
<1> QED
  BY <1>1 DEF ParseStep, StepsOn

\* The step is what a byte does.
LEMMA ParseStepIs ==
    ASSUME NEW st \in ParserStates, NEW b \in Byte
    PROVE  ParseStep[<<st, b>>] = ParseByte(st, b)
  BY DEF ParseStep

(* IacParser::parse is the fold of its bytes.                               *)
LEMMA ParsesAsFold ==
    ASSUME NEW st \in ParserStates, NEW q \in Seq(Byte)
    PROVE  ParseBytes(st, q) = Fold(ParseStep, st, q)
<1> DEFINE n == Len(q)
           Eq(h) == h = [i \in 0 .. n |-> IF i = 0 THEN st ELSE ParseByte(h[i - 1], q[i])]
           g == CHOOSE h : Eq(h)
<1>1. PICK f : WayOf(f, ParseStep, st, q, ParserStates)
  BY ParseStepType, FoldWay
<1>2. n \in Nat /\ f \in [0 .. n -> ParserStates] /\ f[0] = st
      /\ \A i \in 1 .. n : f[i] = ParseStep[<<f[i - 1], q[i]>>]
  BY <1>1 DEF WayOf, Walks
<1>3. ASSUME NEW i \in 1 .. n PROVE f[i] = ParseByte(f[i - 1], q[i])
  <2>1. i - 1 \in 0 .. n /\ q[i] \in Byte
    BY <1>2
  <2>2. f[i - 1] \in ParserStates
    BY <1>2, <2>1
  <2> QED
    BY <1>2, <2>1, <2>2, ParseStepIs
<1>4. f = [i \in 0 .. n |-> IF i = 0 THEN st ELSE ParseByte(f[i - 1], q[i])]
  <2>1. \A i \in 0 .. n : f[i] = IF i = 0 THEN st ELSE ParseByte(f[i - 1], q[i])
    BY <1>2, <1>3
  <2> QED
    BY <1>2, <2>1
<1>5. Eq(g)
  <2>1. Eq(f)
    BY <1>4
  <2> HIDE DEF Eq
  <2> QED
    BY <2>1
<1>6. ParseBytes(st, q) = g[n]
  BY DEF ParseBytes
<1> HIDE DEF g, n
<1>7. g[0] = st /\ \A i \in 1 .. n : g[i] = ParseByte(g[i - 1], q[i])
  BY <1>2, <1>5
<1>8. StayEqual(g, f, n) /\ g[0] = f[0]
  BY <1>2, <1>3, <1>7 DEF StayEqual
<1>9. \A i \in 0 .. n : g[i] = f[i]
  BY <1>2, <1>8, IteratesAgree
<1> QED
  BY <1>1, <1>2, <1>6, <1>9 DEF WayOf, n

\* IacParser::parse takes a state to a state.
LEMMA ParseType ==
    ASSUME NEW st \in ParserStates, NEW q \in Seq(Byte)
    PROVE  ParseBytes(st, q) \in ParserStates
  BY ParsesAsFold, ParseStepType, FoldType

\* An empty read changes nothing.
LEMMA ParseNone ==
    ASSUME NEW st \in ParserStates
    PROVE  ParseBytes(st, <<>>) = st
<1>1. <<>> \in Seq(Byte)
  OBVIOUS
<1> QED
  BY <1>1, ParsesAsFold, ParseStepType, FoldNone

\* A read of one byte.
LEMMA ParseOne ==
    ASSUME NEW st \in ParserStates, NEW b \in Byte
    PROVE  ParseBytes(st, <<b>>) = ParseByte(st, b)
<1>1. <<b>> \in Seq(Byte)
  OBVIOUS
<1>2. Fold(ParseStep, st, <<b>>) = ParseStep[<<st, b>>]
  BY ParseStepType, FoldOne
<1> DEFINE q == <<b>>
<1> HIDE DEF q
<1>3. ParseBytes(st, q) = Fold(ParseStep, st, q)
  BY <1>1, ParsesAsFold DEF q
<1> QED
  BY <1>2, <1>3, ParseStepIs DEF q

\* Two reads are parsed as one: however the bytes are cut.
LEMMA ParseConcat ==
    ASSUME NEW st \in ParserStates, NEW a \in Seq(Byte), NEW b \in Seq(Byte)
    PROVE  ParseBytes(st, a \o b) = ParseBytes(ParseBytes(st, a), b)
<1> DEFINE c == a \o b  mid == ParseBytes(st, a)
<1>1. c \in Seq(Byte) /\ mid \in ParserStates
  BY ParseType
<1>2. Fold(ParseStep, st, c) = Fold(ParseStep, Fold(ParseStep, st, a), b)
  BY ParseStepType, FoldConcat
<1>3. mid = Fold(ParseStep, st, a)
  BY ParsesAsFold
<1> HIDE DEF c, mid
<1>4. ParseBytes(st, c) = Fold(ParseStep, st, c)
  BY <1>1, ParsesAsFold
<1>5. ParseBytes(mid, b) = Fold(ParseStep, mid, b)
  BY <1>1, ParsesAsFold
<1> QED
  BY <1>2, <1>3, <1>4, <1>5 DEF c, mid

\* The state with more data ahead of its own, and without any.
Behind(d, st) == [mode |-> st.mode, data |-> d \o st.data, replies |-> st.replies]
Bare(st) == [mode |-> st.mode, data |-> <<>>, replies |-> st.replies]

\* A state with data put in front is a state.
LEMMA BehindType ==
    ASSUME NEW st \in ParserStates, NEW d \in Seq(Byte)
    PROVE  /\ Behind(d, st) \in ParserStates /\ Bare(st) \in ParserStates
           /\ Behind(st.data, Bare(st)) = st /\ Behind(<<>>, st) = st
<1>1. /\ st.mode \in Mode /\ st.data \in Seq(Byte) /\ st.replies \in Seq(Seq(Byte))
      /\ st = [mode |-> st.mode, data |-> st.data, replies |-> st.replies]
  BY DEF ParserStates
<1>2. d \o st.data \in Seq(Byte) /\ <<>> \o st.data = st.data /\ st.data \o <<>> = st.data
      /\ <<>> \in Seq(Byte)
  BY <1>1
<1>3. Behind(d, st) \in ParserStates /\ Bare(st) \in ParserStates
  BY <1>1, <1>2 DEF Behind, Bare, ParserStates
<1>4. Behind(st.data, Bare(st)) = st /\ Behind(<<>>, st) = st
  BY <1>1, <1>2 DEF Behind, Bare
<1> QED
  BY <1>3, <1>4

\* What was read before does not change what is read.
LEMMA ByteBehind ==
    ASSUME NEW st \in ParserStates, NEW d \in Seq(Byte), NEW b \in Byte
    PROVE  ParseByte(Behind(d, st), b) = Behind(d, ParseByte(st, b))
<1> DEFINE m == st.mode  e == st.data  r == st.replies
<1>1. m \in Mode /\ e \in Seq(Byte) /\ r \in Seq(Seq(Byte)) /\ st = State(m, e, r)
  BY StateType
<1>2. Behind(d, st) = State(m, d \o e, r)
  BY DEF Behind, State
<1> HIDE DEF m, e, r
<1> DEFINE f == d \o e
<1>3. f \in Seq(Byte) /\ Append(f, b) = d \o Append(e, b)
  <2>1. f \in Seq(Byte) /\ <<b>> \in Seq(Byte)
    BY <1>1
  <2>2. Append(e, b) = e \o <<b>> /\ Append(f, b) = f \o <<b>>
    BY <1>1, <2>1, AppendIsConcat
  <2>3. (d \o e) \o <<b>> = d \o (e \o <<b>>)
    BY <1>1, <2>1, ConcatAssociative
  <2> QED
    BY <2>1, <2>2, <2>3
<1> HIDE DEF f
<1>4. ParseByte(State(m, f, r), b)
        = State(NextMode(m, b), IF IsDatum(m, b) THEN Append(f, b) ELSE f, r \o Answer(m, b))
  BY <1>1, <1>3, ByteIs
<1>5. ParseByte(State(m, e, r), b)
        = State(NextMode(m, b), IF IsDatum(m, b) THEN Append(e, b) ELSE e, r \o Answer(m, b))
  BY <1>1, ByteIs
<1>6. \A n, x, y : Behind(d, State(n, x, y)) = State(n, d \o x, y)
  BY DEF Behind, State
<1>7. d \o (IF IsDatum(m, b) THEN Append(e, b) ELSE e)
        = IF IsDatum(m, b) THEN Append(f, b) ELSE f
  BY <1>3 DEF f
<1>8. ParseByte(Behind(d, st), b)
        = State(NextMode(m, b), d \o (IF IsDatum(m, b) THEN Append(e, b) ELSE e),
                r \o Answer(m, b))
  BY <1>2, <1>4, <1>7 DEF f
<1> QED
  BY <1>1, <1>5, <1>6, <1>8

\* What was parsed before is not looked at again.
LEMMA ParseBehind ==
    ASSUME NEW st \in ParserStates, NEW d \in Seq(Byte), NEW q \in Seq(Byte)
    PROVE  ParseBytes(Behind(d, st), q) = Behind(d, ParseBytes(st, q))
<1> DEFINE n == Len(q)  u == Behind(d, st)
<1>1. PICK f : WayOf(f, ParseStep, st, q, ParserStates)
  BY ParseStepType, FoldWay
<1>2. n \in Nat /\ f \in [0 .. n -> ParserStates] /\ f[0] = st
      /\ \A i \in 1 .. n : f[i] = ParseStep[<<f[i - 1], q[i]>>]
  BY <1>1 DEF WayOf, Walks
<1> DEFINE g == [i \in 0 .. n |-> Behind(d, f[i])]
<1>3. ASSUME NEW i \in 1 .. n PROVE g[i] = ParseStep[<<g[i - 1], q[i]>>]
  <2>1. i - 1 \in 0 .. n /\ i \in 0 .. n /\ q[i] \in Byte
    BY <1>2
  <2> DEFINE e == f[i - 1]
  <2>2. e \in ParserStates
    BY <1>2, <2>1
  <2>3. f[i] = ParseStep[<<e, q[i]>>] /\ g[i] = Behind(d, f[i]) /\ g[i - 1] = Behind(d, e)
    BY <1>2, <2>1
  <2> HIDE DEF e, g
  <2>4. f[i] = ParseByte(e, q[i])
    BY <2>1, <2>2, <2>3, ParseStepIs
  <2>5. Behind(d, e) \in ParserStates
    BY <2>2, BehindType
  <2> DEFINE v == Behind(d, e)
  <2> HIDE DEF v
  <2>6. ParseStep[<<v, q[i]>>] = ParseByte(v, q[i])
    BY <2>1, <2>5, ParseStepIs DEF v
  <2>7. ParseByte(v, q[i]) = Behind(d, ParseByte(e, q[i]))
    BY <2>1, <2>2, ByteBehind DEF v
  <2> QED
    BY <2>3, <2>4, <2>6, <2>7 DEF v
<1>4. g[0] = u
  BY <1>2
<1>5. g[n] = Behind(d, f[n])
  BY <1>2
<1> HIDE DEF g, u
<1>6. Walks(g, ParseStep, u, q)
  BY <1>3, <1>4 DEF Walks
<1>7. u \in ParserStates
  BY BehindType DEF u
<1>8. Fold(ParseStep, u, q) = g[Len(q)]
  BY <1>6, <1>7, ParseStepType, FoldEnds
<1>9. ParseBytes(u, q) = Fold(ParseStep, u, q)
  BY <1>7, ParsesAsFold
<1>10. ParseBytes(st, q) = f[Len(q)]
  BY <1>1, ParsesAsFold DEF WayOf
<1> QED
  BY <1>5, <1>8, <1>9, <1>10 DEF u

(* Two reads.                                                               *)
LEMMA ParseTwoReads ==
    ASSUME NEW st \in ParserStates, NEW a \in Seq(Byte), NEW b \in Seq(Byte)
    PROVE  LET mid == ParseBytes(st, a)
           IN  ParseBytes(st, a \o b) = Behind(mid.data, ParseBytes(Bare(mid), b))
<1> DEFINE mid == ParseBytes(st, a)
<1>1. mid \in ParserStates
  BY ParseType
<1>2. ParseBytes(st, a \o b) = ParseBytes(mid, b)
  BY ParseConcat
<1> HIDE DEF mid
<1>3. mid.data \in Seq(Byte) /\ Bare(mid) \in ParserStates /\ Behind(mid.data, Bare(mid)) = mid
  BY <1>1, BehindType DEF ParserStates
<1>4. ParseBytes(Behind(mid.data, Bare(mid)), b) = Behind(mid.data, ParseBytes(Bare(mid), b))
  BY <1>3, ParseBehind
<1> QED
  BY <1>2, <1>3, <1>4 DEF mid

\* LinesAfter a CR comes the rest of the line's end.
CrsGoOn(q) == \A i \in 1 .. Len(q) - 1 : q[i] = "CR" => q[i + 1] \in {"LF", "NUL"}
EndsInCr(q) == q # <<>> /\ q[Len(q)] = "CR"

(* Data that ends in a CR was read up to that CR.                            *)
LEMMA CrAtEnd ==
    ASSUME NEW st \in ParserStates, st.data = <<>>, NEW c \in Seq(Byte), CrsGoOn(c),
           EndsInCr(ParseBytes(st, c).data)
    PROVE  EndsInCr(c) /\ ParseBytes(st, c).mode = "data"
<1> DEFINE n == Len(c)
           OK(s, i) == EndsInCr(s.data) => /\ i >= 1 /\ c[i] = "CR"
                                           /\ s.mode = "data"
<1>1. PICK f : WayOf(f, ParseStep, st, c, ParserStates)
  BY ParseStepType, FoldWay
<1>2. n \in Nat /\ f \in [0 .. n -> ParserStates] /\ f[0] = st
      /\ \A i \in 1 .. n : f[i] = ParseStep[<<f[i - 1], c[i]>>]
  BY <1>1 DEF WayOf, Walks
<1> DEFINE T == {i \in 0 .. n : OK(f[i], i)}
<1>3. 0 \in T
  BY <1>2 DEF EndsInCr
<1>4. ASSUME NEW i \in 0 .. n - 1, i \in T PROVE i + 1 \in T
  <2> DEFINE b == c[i + 1]
             m == f[i].mode
             d == f[i].data
             r == f[i].replies
  <2>1. i + 1 \in 1 .. n /\ (i + 1) - 1 = i /\ i \in 0 .. n
    BY <1>2
  <2>2. f[i] \in ParserStates /\ b \in Byte
    BY <1>2, <2>1
  <2>3. m \in Mode /\ d \in Seq(Byte) /\ r \in Seq(Seq(Byte)) /\ f[i] = State(m, d, r)
    BY <2>2, StateType
  <2>4. f[i + 1] = ParseByte(f[i], b)
    BY <1>2, <2>1, <2>2, ParseStepIs
  <2>5. OK(f[i], i)
    BY <1>4
  <2> HIDE DEF m, d, r, b
  <2> DEFINE e == IF IsDatum(m, b) THEN Append(d, b) ELSE d
             nx == NextMode(m, b)
  <2>6. f[i + 1] = State(nx, e, r \o Answer(m, b))
    BY <2>2, <2>3, <2>4, ByteIs
  <2>7. f[i + 1].mode = nx /\ f[i + 1].data = e
    BY <2>6 DEF State
  <2>8. CASE IsDatum(m, b)
    <3>1. e = Append(d, b) /\ e[Len(e)] = b
      BY <2>3, <2>8
    <3>2. b = "CR" => nx = "data"
      BY <2>8 DEF IsDatum, NextMode
    <3> HIDE DEF e, nx
    <3>3. OK(f[i + 1], i + 1)
      BY <2>1, <2>7, <3>1, <3>2 DEF EndsInCr, b
    <3> QED
      BY <2>1, <3>3
  <2>9. CASE ~ IsDatum(m, b)
    <3>1. e = d
      BY <2>9
    <3>2. EndsInCr(d) => i >= 1 /\ c[i] = "CR" /\ m = "data"
      BY <2>5 DEF d, m
    <3>3. ~ EndsInCr(d)
      <4> SUFFICES ASSUME EndsInCr(d) PROVE FALSE
        OBVIOUS
      <4>1. i \in 1 .. n - 1 /\ c[i] = "CR" /\ m = "data"
        BY <1>2, <3>2
      <4>2. b \in {"LF", "NUL"}
        BY <4>1 DEF CrsGoOn, b
      <4> QED
        BY <2>9, <4>1, <4>2 DEF IsDatum
    <3> HIDE DEF e
    <3>4. OK(f[i + 1], i + 1)
      BY <2>7, <3>1, <3>3
    <3> QED
      BY <2>1, <3>4
  <2> QED
    BY <2>8, <2>9
<1>5. 0 .. n \subseteq T
  <2> HIDE DEF T, n
  <2> QED
    BY <1>2, <1>3, <1>4, InductionUpTo
<1>6. OK(f[n], n)
  BY <1>2, <1>5
<1>7. ParseBytes(st, c) = f[n]
  BY <1>1, ParsesAsFold DEF WayOf
<1> QED
  BY <1>2, <1>6, <1>7 DEF EndsInCr

(* Where no command has begun, the first byte is the first datum.           *)
LEMMA FirstDatum ==
    ASSUME NEW st \in ParserStates, st.data = <<>>, st.mode = "data",
           NEW q \in Seq(Byte), q # <<>>, q[1] # "IAC"
    PROVE  /\ ParseBytes(st, q).data # <<>>
           /\ ParseBytes(st, q).data[1] = q[1]
<1> DEFINE a == <<q[1]>>  t == Tail(q)  mid == ParseBytes(st, a)  r == st.replies
<1>1. q[1] \in Byte /\ a \in Seq(Byte) /\ t \in Seq(Byte) /\ q = a \o t
  OBVIOUS
<1>2. st = State("data", <<>>, r) /\ "data" \in Mode /\ <<>> \in Seq(Byte)
      /\ r \in Seq(Seq(Byte))
  BY StateType DEF Mode
<1> DEFINE b == q[1]
<1> HIDE DEF r
<1>3. mid = ParseByte(st, b)
  BY <1>1, ParseOne
<1> HIDE DEF b
<1>4. b \in Byte /\ b # "IAC"
  BY <1>1 DEF b
<1>5. IsDatum("data", b) /\ Append(<<>>, b) = <<b>>
  BY <1>4 DEF IsDatum
<1>6. ParseByte(st, b) = State(NextMode("data", b), Append(<<>>, b), r \o Answer("data", b))
  BY <1>2, <1>4, <1>5, ByteIs
<1>7. mid.data = <<b>> /\ mid \in ParserStates
  <2>1. mid \in ParserStates
    BY <1>1, ParseType
  <2> HIDE DEF mid
  <2>2. mid = State(NextMode("data", b), <<b>>, r \o Answer("data", b))
    BY <1>3, <1>5, <1>6
  <2> QED
    BY <2>1, <2>2 DEF State
<1> HIDE DEF mid
<1>8. Bare(mid) \in ParserStates /\ <<b>> \in Seq(Byte)
  BY <1>4, <1>7, BehindType
<1> DEFINE z == ParseBytes(Bare(mid), t)
<1>9. z \in ParserStates
  BY <1>1, <1>8, ParseType
<1> HIDE DEF t, a
<1>10. ParseBytes(st, a \o t) = Behind(mid.data, z)
  BY <1>1, ParseTwoReads DEF mid
<1> HIDE DEF z
<1>11. z.data \in Seq(Byte)
  BY <1>9, StateType
<1>12. ParseBytes(st, q).data = <<b>> \o z.data
  BY <1>1, <1>7, <1>10 DEF Behind
<1> QED
  BY <1>4, <1>11, <1>12 DEF b

-----------------------------------------------------------------------------
(* Lines.  What the bytes of a line and of its end do to the line begun and  *)
(* to the lines read; a NUL belongs to the CR before it.                     *)

LineStates == [left : Seq(Byte), lines : Seq(Seq(Byte))]
Lines(l, ls) == [left |-> l, lines |-> ls]
Consume(st, b) ==
    CASE b \in {"CR", "LF"} -> Lines(<<>>, IF st.left = <<>> THEN st.lines
                                          ELSE Append(st.lines, st.left))
      [] b = "NUL" -> st
      [] OTHER     -> Lines(Append(st.left, b), st.lines)
ConsumeStep == [p \in LineStates \X Byte |-> Consume(p[1], p[2])]
LinesAfter(st, q) == Fold(ConsumeStep, st, q)

Plain(q) == \A i \in 1 .. Len(q) : q[i] \notin {"CR", "LF", "NUL"}
NulsFollow(q) == \A i \in 1 .. Len(q) : q[i] = "NUL" => i > 1 /\ q[i - 1] = "CR"

\* States of the reader of lines and their parts.
LEMMA LinesType ==
    /\ \A st \in LineStates :
          /\ st.left \in Seq(Byte) /\ st.lines \in Seq(Seq(Byte))
          /\ st = Lines(st.left, st.lines)
    /\ \A l \in Seq(Byte), ls \in Seq(Seq(Byte)) :
          /\ Lines(l, ls) \in LineStates
          /\ Lines(l, ls).left = l /\ Lines(l, ls).lines = ls
  BY DEF Lines, LineStates

\* A datum taken leaves such a state.
LEMMA ConsumeType ==
    ASSUME NEW st \in LineStates, NEW b \in Byte
    PROVE  Consume(st, b) \in LineStates
<1>1. st.left \in Seq(Byte) /\ st.lines \in Seq(Seq(Byte))
  BY LinesType
<1>2. /\ Append(st.left, b) \in Seq(Byte) /\ Append(st.lines, st.left) \in Seq(Seq(Byte))
      /\ <<>> \in Seq(Byte)
  BY <1>1
<1> DEFINE ls == IF st.left = <<>> THEN st.lines ELSE Append(st.lines, st.left)
<1>3. ls \in Seq(Seq(Byte))
  BY <1>1, <1>2
<1>4. Lines(<<>>, ls) \in LineStates /\ Lines(Append(st.left, b), st.lines) \in LineStates
  <2> HIDE DEF ls
  <2> QED
    BY <1>1, <1>2, <1>3, LinesType
<1> QED
  BY <1>4 DEF Consume

\* ... so it is a step to fold with.
LEMMA ConsumeStepType == StepsOn(ConsumeStep, LineStates, Byte)
<1>1. \A p \in LineStates \X Byte : Consume(p[1], p[2]) \in LineStates
  BY ConsumeType
<1> QED
  BY <1>1 DEF ConsumeStep, StepsOn

\* The step is a datum taken.
LEMMA ConsumeStepIs ==
    ASSUME NEW st \in LineStates, NEW b \in Byte
    PROVE  ConsumeStep[<<st, b>>] = Consume(st, b)
  BY DEF ConsumeStep

\* Data taken leave such a state.
LEMMA LinesAfterType ==
    ASSUME NEW st \in LineStates, NEW q \in Seq(Byte)
    PROVE  LinesAfter(st, q) \in LineStates
  BY ConsumeStepType, FoldType DEF LinesAfter

\* No data, no change.
LEMMA LinesAfterNone ==
    ASSUME NEW st \in LineStates
    PROVE  LinesAfter(st, <<>>) = st
  BY ConsumeStepType, FoldNone DEF LinesAfter

\* One datum.
LEMMA LinesAfterOne ==
    ASSUME NEW st \in LineStates, NEW b \in Byte
    PROVE  LinesAfter(st, <<b>>) = Consume(st, b)
<1>1. Fold(ConsumeStep, st, <<b>>) = ConsumeStep[<<st, b>>]
  BY ConsumeStepType, FoldOne
<1> QED
  BY <1>1, ConsumeStepIs DEF LinesAfter

\* Data taken in two parts.
LEMMA LinesAfterConcat ==
    ASSUME NEW st \in LineStates, NEW a \in Seq(Byte), NEW b \in Seq(Byte)
    PROVE  LinesAfter(st, a \o b) = LinesAfter(LinesAfter(st, a), b)
<1>1. Fold(ConsumeStep, st, a \o b) = Fold(ConsumeStep, Fold(ConsumeStep, st, a), b)
  BY ConsumeStepType, FoldConcat
<1> QED
  BY <1>1 DEF LinesAfter

\* A line without its end.
LEMMA AfterPlain ==
    ASSUME NEW l \in Seq(Byte), NEW ls \in Seq(Seq(Byte)), NEW a \in Seq(Byte), Plain(a)
    PROVE  LinesAfter(Lines(l, ls), a) = Lines(l \o a, ls)
<1> DEFINE n == Len(a)  st == Lines(l, ls)
           f == [i \in 0 .. n |-> Lines(l \o SubSeq(a, 1, i), ls)]
<1>1. n \in Nat /\ st \in LineStates
  BY LinesType
<1>2. \A i \in 0 .. n : SubSeq(a, 1, i) \in Seq(Byte)
  BY <1>1
<1>3. SubSeq(a, 1, 0) = <<>> /\ SubSeq(a, 1, n) = a /\ l \o <<>> = l
  BY <1>1
<1>4. f[0] = st /\ f[n] = Lines(l \o a, ls)
  <2>1. f[0] = Lines(l \o SubSeq(a, 1, 0), ls) /\ f[n] = Lines(l \o SubSeq(a, 1, n), ls)
    BY <1>1
  <2> QED
    BY <1>3, <2>1
<1>5. ASSUME NEW i \in 1 .. n PROVE f[i] = ConsumeStep[<<f[i - 1], a[i]>>]
  <2> DEFINE p == SubSeq(a, 1, i - 1)  s == SubSeq(a, 1, i)  b == a[i]  lp == l \o p
  <2>1. i - 1 \in 0 .. n /\ i \in 0 .. n /\ b \in Byte
    BY <1>1
  <2>2. p \in Seq(Byte) /\ s \in Seq(Byte) /\ lp \in Seq(Byte)
    BY <1>2, <2>1
  <2>3. s = Append(p, b)
    BY <1>1
  <2>4. l \o s = Append(lp, b)
    <3> DEFINE o == <<b>>
    <3>1. o \in Seq(Byte) /\ s = p \o o /\ Append(lp, b) = lp \o o
      <4> HIDE DEF p, s, b, lp
      <4> QED
        BY <2>1, <2>2, <2>3, AppendIsConcat
    <3> HIDE DEF p, s, o, b
    <3>2. (l \o p) \o o = l \o (p \o o)
      <4> HIDE DEF lp, f, st, n
      <4>1. p \in Seq(Byte) /\ o \in Seq(Byte)
        BY <2>2, <3>1
      <4> QED
        BY <4>1, ConcatAssociative, SMTT(30)
    <3> QED
      BY <3>1, <3>2
  <2>5. f[i] = Lines(l \o s, ls) /\ f[i - 1] = Lines(lp, ls)
    BY <2>1
  <2>6. b \notin {"CR", "LF", "NUL"}
    BY <1>1 DEF Plain
  <2> HIDE DEF p, s, b, lp, f
  <2> DEFINE u == Lines(lp, ls)
  <2>7. u \in LineStates /\ u.left = lp /\ u.lines = ls
    BY <2>2, LinesType
  <2> HIDE DEF u
  <2>8. ConsumeStep[<<u, b>>] = Consume(u, b)
    BY <2>1, <2>7, ConsumeStepIs
  <2>9. Consume(u, b) = Lines(Append(lp, b), ls)
    BY <2>6, <2>7 DEF Consume
  <2> QED
    BY <2>4, <2>5, <2>8, <2>9 DEF u, b
<1> HIDE DEF f, st
<1>6. Walks(f, ConsumeStep, st, a)
  BY <1>4, <1>5 DEF Walks
<1>7. Fold(ConsumeStep, st, a) = f[Len(a)]
  BY <1>1, <1>6, ConsumeStepType, FoldEnds
<1> QED
  BY <1>4, <1>7 DEF LinesAfter, st

\* The first datum, then the others.
LEMMA LinesAfterFirst ==
    ASSUME NEW st \in LineStates, NEW b \in Byte, NEW q \in Seq(Byte)
    PROVE  LinesAfter(st, <<b>> \o q) = LinesAfter(Consume(st, b), q)
<1> DEFINE a == <<b>>
<1>1. a \in Seq(Byte) /\ LinesAfter(st, a) = Consume(st, b)
  BY LinesAfterOne
<1> HIDE DEF a
<1>2. LinesAfter(st, a \o q) = LinesAfter(LinesAfter(st, a), q)
  BY <1>1, LinesAfterConcat
<1> QED
  BY <1>1, <1>2 DEF a

\* One line with its end.
LEMMA AfterLine ==
    ASSUME NEW ls \in Seq(Seq(Byte)), NEW a \in Seq(Byte), Plain(a),
           NEW e \in {"CR", "LF"}, NEW q \in Seq(Byte)
    PROVE  LinesAfter(Lines(<<>>, ls), a \o (<<e>> \o q))
             = LinesAfter(Lines(<<>>, IF a = <<>> THEN ls ELSE Append(ls, a)), q)
<1> DEFINE st == Lines(<<>>, ls)  mid == Lines(a, ls)  t == <<e>> \o q
<1>1. <<>> \in Seq(Byte) /\ e \in Byte /\ <<>> \o a = a
  BY DEF Byte
<1>2. st \in LineStates /\ mid \in LineStates /\ mid.left = a /\ mid.lines = ls
  BY <1>1, LinesType
<1>3. LinesAfter(st, a) = mid
  BY <1>1, AfterPlain, ZenonT(30)
<1>4. t \in Seq(Byte)
  BY <1>1
<1>5. LinesAfter(mid, t) = LinesAfter(Consume(mid, e), q)
  <2> HIDE DEF mid
  <2> QED
    BY <1>1, <1>2, LinesAfterFirst
<1> HIDE DEF st, mid, t
<1>6. LinesAfter(st, a \o t) = LinesAfter(LinesAfter(st, a), t)
  BY <1>2, <1>4, LinesAfterConcat
<1>7. Consume(mid, e) = Lines(<<>>, IF a = <<>> THEN ls ELSE Append(ls, a))
  BY <1>2 DEF Consume
<1> QED
  BY <1>3, <1>5, <1>6, <1>7 DEF st, t

\* The rest of a line's end changes nothing.
LEMMA AfterEnd ==
    ASSUME NEW ls \in Seq(Seq(Byte)), NEW e \in {"LF", "NUL"}, NEW q \in Seq(Byte)
    PROVE  LinesAfter(Lines(<<>>, ls), <<e>> \o q) = LinesAfter(Lines(<<>>, ls), q)
<1> DEFINE st == Lines(<<>>, ls)
<1>1. <<>> \in Seq(Byte) /\ e \in Byte
  BY DEF Byte
<1>2. st \in LineStates /\ st.left = <<>> /\ st.lines = ls
  BY <1>1, LinesType
<1> HIDE DEF st
<1>3. Consume(st, e) = Lines(<<>>, ls)
  <2>1. CASE e = "LF"
    BY <1>2, <2>1 DEF Consume
  <2>2. CASE e = "NUL"
    BY <1>2, <2>2 DEF Consume, st
  <2> QED
    BY <2>1, <2>2
<1> QED
  BY <1>1, <1>2, <1>3, LinesAfterFirst DEF st

\* A sequence around one of its places.
LEMMA Around ==
    ASSUME NEW S, NEW q \in Seq(S), NEW i \in 1 .. Len(q)
    PROVE  /\ SubSeq(q, 1, i - 1) \in Seq(S) /\ Len(SubSeq(q, 1, i - 1)) = i - 1
           /\ \A j \in 1 .. i - 1 : SubSeq(q, 1, i - 1)[j] = q[j]
           /\ SubSeq(q, i + 1, Len(q)) \in Seq(S)
           /\ Len(SubSeq(q, i + 1, Len(q))) = Len(q) - i
           /\ \A j \in 1 .. Len(q) - i : SubSeq(q, i + 1, Len(q))[j] = q[i + j]
           /\ q = SubSeq(q, 1, i - 1) \o (<<q[i]>> \o SubSeq(q, i + 1, Len(q)))
           /\ SubSeq(q, i, Len(q)) = <<q[i]>> \o SubSeq(q, i + 1, Len(q))
<1>1. Len(q) \in Nat /\ i \in 1 .. Len(q) /\ i - 1 \in Int /\ i + 1 \in Int
  OBVIOUS
<1>2. /\ SubSeq(q, 1, i - 1) \in Seq(S) /\ Len(SubSeq(q, 1, i - 1)) = i - 1
      /\ \A j \in 1 .. i - 1 : SubSeq(q, 1, i - 1)[j] = q[j]
  OBVIOUS
<1>3. /\ SubSeq(q, i + 1, Len(q)) \in Seq(S)
      /\ Len(SubSeq(q, i + 1, Len(q))) = Len(q) - i
      /\ \A j \in 1 .. Len(q) - i : SubSeq(q, i + 1, Len(q))[j] = q[i + j]
  OBVIOUS
<1>4. SubSeq(q, i, Len(q)) = <<q[i]>> \o SubSeq(q, i + 1, Len(q))
  <2>1. Len(q) \in i .. Len(q)
    BY <1>1
  <2> QED
    BY <2>1, SubSeqRecursiveFirst
<1>5. q = SubSeq(q, 1, i - 1) \o SubSeq(q, i, Len(q))
  <2> DEFINE k == i - 1
  <2>1. k \in 1 - 1 .. Len(q) /\ Len(q) \in k .. Len(q) /\ 1 \in 1 .. Len(q) + 1 /\ k + 1 = i
    BY <1>1
  <2> HIDE DEF k
  <2>2. SubSeq(q, 1, k) \o SubSeq(q, k + 1, Len(q)) = SubSeq(q, 1, Len(q))
    BY <2>1, ConcatAdjacentSubSeq
  <2> QED
    BY <2>1, <2>2, SubSeqFull DEF k
<1> QED
  BY <1>2, <1>3, <1>4, <1>5

\* There is a first end of a line, if there is any.
LEMMA FirstEol ==
    ASSUME NEW q \in Seq(Byte), Eols(q) # {}
    PROVE  LET i == CHOOSE i \in Eols(q) : \A j \in Eols(q) : i <= j
           IN  i \in Eols(q) /\ \A j \in Eols(q) : i <= j
<1>1. Eols(q) \in SUBSET Nat
  BY DEF Eols
<1>2. \E i \in Eols(q) : \A j \in Eols(q) : i <= j
  <2> DEFINE T == Eols(q)
  <2> HIDE DEF T
  <2> QED
    BY <1>1, LeastNumber DEF T
<1> QED
  BY <1>2

\* What one call of try_pop_line does.
PopsOn(st, nx) ==
    /\ nx \in LineStates /\ NulsFollow(nx.left) /\ Len(nx.left) < Len(st.left)
    /\ \A ls \in Seq(Seq(Byte)) :
          LinesAfter(Lines(<<>>, ls \o st.lines), st.left)
            = LinesAfter(Lines(<<>>, ls \o nx.lines), nx.left)

\* try_pop_line takes the data up to the first end of a line.
LEMMA PopOne ==
    ASSUME NEW st \in LineStates, NulsFollow(st.left), Eols(st.left) # {}
    PROVE  PopsOn(st, PopLine(st))
<1> DEFINE buf == st.left
           n == Len(buf)
           i == CHOOSE i \in Eols(buf) : \A j \in Eols(buf) : i <= j
           both == buf[i] = "CR" /\ i < n /\ buf[i + 1] \in {"LF", "NUL"}
           a == SubSeq(buf, 1, i - 1)
           e == buf[i]
           r == SubSeq(buf, i + 1, n)
           rest == SubSeq(buf, IF both THEN i + 2 ELSE i + 1, n)
           new == IF i = 1 THEN st.lines ELSE Append(st.lines, a)
           nx == PopLine(st)
<1>1. buf \in Seq(Byte) /\ st.lines \in Seq(Seq(Byte)) /\ n \in Nat /\ NulsFollow(buf)
  BY LinesType
<1>2. i \in Eols(buf) /\ \A j \in Eols(buf) : i <= j
  BY <1>1, FirstEol
<1>3. nx = Lines(rest, new)
  BY DEF PopLine, Lines
<1> HIDE DEF buf, i, nx
<1>4. i \in 1 .. n /\ e \in {"CR", "LF"} /\ \A j \in 1 .. i - 1 : buf[j] \notin {"CR", "LF"}
  <2>1. i \in 1 .. n /\ e \in {"CR", "LF"}
    BY <1>2 DEF Eols
  <2>2. ASSUME NEW j \in 1 .. i - 1 PROVE buf[j] \notin {"CR", "LF"}
    <3>1. j \in 1 .. n /\ ~ i <= j
      BY <1>1, <2>1
    <3>2. j \notin Eols(buf)
      BY <1>2, <3>1
    <3> QED
      BY <3>1, <3>2 DEF Eols
  <2> QED
    BY <2>1, <2>2
<1>5. /\ a \in Seq(Byte) /\ Len(a) = i - 1 /\ \A j \in 1 .. i - 1 : a[j] = buf[j]
      /\ r \in Seq(Byte) /\ Len(r) = n - i /\ \A j \in 1 .. n - i : r[j] = buf[i + j]
      /\ buf = a \o (<<e>> \o r)
  <2>1. i \in 1 .. Len(buf)
    BY <1>4
  <2> HIDE DEF n
  <2> QED
    BY <1>1, <2>1, Around, ZenonT(30) DEF n
<1>6. Plain(a)
  <2> SUFFICES ASSUME NEW j \in 1 .. i - 1 PROVE a[j] \notin {"CR", "LF", "NUL"}
    BY <1>5 DEF Plain
  <2> HIDE DEF a, r, e
  <2>1. a[j] = buf[j] /\ buf[j] \notin {"CR", "LF"} /\ j \in 1 .. n
    <3>1. j \in 1 .. n
      BY <1>1, <1>4
    <3> QED
      BY <3>1, <1>4, <1>5
  <2>2. buf[j] # "NUL"
    <3> SUFFICES ASSUME buf[j] = "NUL" PROVE FALSE
      OBVIOUS
    <3>1. j > 1 /\ buf[j - 1] = "CR"
      BY <1>1, <2>1 DEF NulsFollow
    <3>2. j - 1 \in 1 .. i - 1
      BY <1>4, <3>1
    <3> QED
      BY <1>4, <3>1, <3>2
  <2> QED
    BY <2>1, <2>2
<1>7. both => buf[i + 1] \in {"LF", "NUL"} /\ r = <<buf[i + 1]>> \o rest
  <2> SUFFICES ASSUME both PROVE r = <<buf[i + 1]>> \o rest
    OBVIOUS
  <2>1. i + 1 \in 1 .. n /\ rest = SubSeq(buf, (i + 1) + 1, n)
    BY <1>1, <1>4
  <2>2. SubSeq(buf, i + 1, n) = <<buf[i + 1]>> \o SubSeq(buf, (i + 1) + 1, n)
    <3> DEFINE k == i + 1
    <3> HIDE DEF k
    <3>1. k \in 1 .. Len(buf)
      BY <2>1 DEF k
    <3> QED
      BY <1>1, <3>1, Around DEF k
  <2> QED
    BY <2>1, <2>2
<1>8. ~both => rest = r
  OBVIOUS
<1>9. /\ rest \in Seq(Byte) /\ Len(rest) < n /\ NulsFollow(rest)
  <2> DEFINE o == IF both THEN i + 1 ELSE i
  <2>1. o \in 1 .. n /\ rest = SubSeq(buf, o + 1, n)
    BY <1>1, <1>4
  <2> HIDE DEF o, rest
  <2>2. /\ rest \in Seq(Byte) /\ Len(rest) = n - o
        /\ \A j \in 1 .. n - o : rest[j] = buf[o + j]
    BY <1>1, <2>1, Around
  <2>3. ASSUME NEW j \in 1 .. n - o, rest[j] = "NUL" PROVE j > 1 /\ rest[j - 1] = "CR"
    <3>1. buf[o + j] = "NUL" /\ o + j \in 1 .. n
      BY <1>1, <2>1, <2>2, <2>3
    <3>2. buf[(o + j) - 1] = "CR"
      BY <1>1, <3>1 DEF NulsFollow
    <3>3. j > 1
      <4> SUFFICES ASSUME j = 1 PROVE FALSE
        BY <1>1, <2>1
      <4>1. buf[o] = "CR" /\ buf[o + 1] = "NUL" /\ o < n
        BY <1>1, <2>1, <3>1, <3>2
      <4>2. CASE both
        BY <4>1, <4>2 DEF o
      <4>3. CASE ~both
        BY <4>1, <4>3 DEF o
      <4> QED
        BY <4>2, <4>3
    <3>4. j - 1 \in 1 .. n - o /\ o + (j - 1) = (o + j) - 1
      BY <1>1, <2>1, <3>3
    <3> QED
      BY <2>2, <3>2, <3>3, <3>4
  <2>4. NulsFollow(rest)
    BY <2>2, <2>3 DEF NulsFollow
  <2> QED
    BY <1>1, <2>1, <2>2, <2>4
<1>10. new \in Seq(Seq(Byte)) /\ (a = <<>> <=> i = 1)
  <2> HIDE DEF a
  <2>1. a = <<>> <=> i = 1
    BY <1>4, <1>5
  <2>2. Append(st.lines, a) \in Seq(Seq(Byte))
    BY <1>1, <1>5
  <2> QED
    BY <1>1, <2>1, <2>2
<1>11. nx \in LineStates /\ nx.left = rest /\ nx.lines = new
  <2> HIDE DEF rest, new
  <2> QED
    BY <1>3, <1>9, <1>10, LinesType
<1>12. ASSUME NEW ls \in Seq(Seq(Byte))
       PROVE  LinesAfter(Lines(<<>>, ls \o st.lines), buf) = LinesAfter(Lines(<<>>, ls \o new), rest)
  <2> DEFINE M == ls \o st.lines  N == IF a = <<>> THEN M ELSE Append(M, a)
  <2>1. M \in Seq(Seq(Byte)) /\ N \in Seq(Seq(Byte))
    BY <1>1, <1>5
  <2>2. N = ls \o new
    <3>1. CASE i = 1
      BY <1>10, <3>1
    <3>2. CASE i # 1
      <4> DEFINE o == <<a>>  old == st.lines
      <4> HIDE DEF a, old
      <4>1. o \in Seq(Seq(Byte)) /\ old \in Seq(Seq(Byte))
        BY <1>1, <1>5 DEF old
      <4>2. Append(old, a) = old \o o /\ Append(ls \o old, a) = (ls \o old) \o o
        BY <1>5, <4>1, AppendIsConcat, SMTT(30)
      <4> HIDE DEF o
      <4>3. (ls \o old) \o o = ls \o (old \o o)
        BY <4>1, ConcatAssociative
      <4> QED
        BY <1>10, <3>2, <4>2, <4>3 DEF old
    <3> QED
      BY <3>1, <3>2
  <2> HIDE DEF M, N, a, e, r, rest, new
  <2>3. LinesAfter(Lines(<<>>, M), a \o (<<e>> \o r)) = LinesAfter(Lines(<<>>, N), r)
    BY <1>4, <1>5, <1>6, <2>1, AfterLine, ZenonT(30) DEF N
  <2>4. LinesAfter(Lines(<<>>, N), r) = LinesAfter(Lines(<<>>, N), rest)
    <3>1. CASE both
      BY <1>7, <1>9, <2>1, <3>1, AfterEnd
    <3>2. CASE ~both
      BY <1>8, <3>2
    <3> QED
      BY <3>1, <3>2
  <2> QED
    BY <1>5, <2>2, <2>3, <2>4 DEF M
<1> QED
  BY <1>9, <1>11, <1>12 DEF PopsOn, buf, nx

\* try_pop_line leaves a rest and lines.
LEMMA PopType ==
    ASSUME NEW st \in LineStates
    PROVE  PopLine(st) \in LineStates
<1> DEFINE buf == st.left
           n == Len(buf)
           i == CHOOSE i \in Eols(buf) : \A j \in Eols(buf) : i <= j
           o == IF buf[i] = "CR" /\ i < n /\ buf[i + 1] \in {"LF", "NUL"} THEN i + 2 ELSE i + 1
           rest == SubSeq(buf, o, n)
           a == SubSeq(buf, 1, i - 1)
           new == IF i = 1 THEN st.lines ELSE Append(st.lines, a)
<1>1. buf \in Seq(Byte) /\ st.lines \in Seq(Seq(Byte)) /\ n \in Nat
  BY LinesType
<1>2. CASE Eols(buf) = {}
  BY <1>2 DEF PopLine
<1>3. CASE Eols(buf) # {}
  <2>1. i \in Eols(buf)
    BY <1>1, <1>3, FirstEol
  <2>2. PopLine(st) = Lines(rest, new)
    BY <1>3 DEF PopLine, Lines
  <2> HIDE DEF buf, i
  <2>3. i \in 1 .. n
    BY <2>1 DEF Eols
  <2>4. o \in 1 .. n + 2
    BY <1>1, <2>3
  <2> HIDE DEF o
  <2>5. rest \in Seq(Byte)
    BY <1>1, <2>4
  <2>6. a \in Seq(Byte)
    BY <1>1, <2>3
  <2> HIDE DEF rest, a
  <2>7. new \in Seq(Seq(Byte))
    BY <1>1, <2>6
  <2> HIDE DEF new
  <2> QED
    BY <2>2, <2>5, <2>7, LinesType
<1> QED
  BY <1>2, <1>3

PopStep == [p \in LineStates \X Byte |-> PopLine(p[1])]

\* ... so it is a step to fold with, whatever the element.
LEMMA PopStepType == StepsOn(PopStep, LineStates, Byte)
<1>1. \A p \in LineStates \X Byte : PopLine(p[1]) \in LineStates
  BY PopType
<1> QED
  BY <1>1 DEF PopStep, StepsOn

\* The step is a line popped.
LEMMA PopStepIs ==
    ASSUME NEW st \in LineStates, NEW b \in Byte
    PROVE  PopStep[<<st, b>>] = PopLine(st)
  BY DEF PopStep

\* The way of the calls of try_pop_line.
Pops(f, buf) ==
    /\ f \in [0 .. Len(buf) -> LineStates]
    /\ f[0] = Lines(buf, <<>>)
    /\ \A i \in 1 .. Len(buf) : f[i] = PopLine(f[i - 1])
    /\ PopLines(buf) = f[Len(buf)]

\* The loop over try_pop_line, as a function of the turns taken.
LEMMA PopsExist ==
    ASSUME NEW buf \in Seq(Byte)
    PROVE  \E f : Pops(f, buf)
<1> DEFINE n == Len(buf)
           st == [lines |-> <<>>, left |-> buf]
           Eq(h) == h = [i \in 0 .. n |-> IF i = 0 THEN st ELSE PopLine(h[i - 1])]
           g == CHOOSE h : Eq(h)
<1>1. st = Lines(buf, <<>>) /\ <<>> \in Seq(Seq(Byte))
  BY DEF Lines
<1>2. st \in LineStates
  BY <1>1, LinesType
<1> HIDE DEF st
<1>3. PICK f : WayOf(f, PopStep, st, buf, LineStates)
  BY <1>2, PopStepType, FoldWay
<1>4. n \in Nat /\ f \in [0 .. n -> LineStates] /\ f[0] = st
      /\ \A i \in 1 .. n : f[i] = PopStep[<<f[i - 1], buf[i]>>]
  <2>1. f \in [0 .. Len(buf) -> LineStates] /\ Walks(f, PopStep, st, buf)
    BY <1>3 DEF WayOf
  <2>2. f[0] = st /\ \A i \in 1 .. Len(buf) : f[i] = PopStep[<<f[i - 1], buf[i]>>]
    BY <2>1 DEF Walks
  <2>3. n \in Nat
    BY LenProperties
  <2> QED
    BY <2>1, <2>2, <2>3
<1>5. ASSUME NEW i \in 1 .. n PROVE f[i] = PopLine(f[i - 1])
  <2>1. i - 1 \in 0 .. n /\ buf[i] \in Byte
    BY <1>4
  <2>2. f[i - 1] \in LineStates
    BY <1>4, <2>1
  <2> QED
    BY <1>4, <2>1, <2>2, PopStepIs
<1>6. Eq(f)
  <2>1. \A i \in 0 .. n : f[i] = IF i = 0 THEN st ELSE PopLine(f[i - 1])
    BY <1>4, <1>5
  <2> QED
    BY <1>4, <2>1
<1>7. Eq(g)
  <2> HIDE DEF Eq
  <2> QED
    BY <1>6
<1>8. PopLines(buf) = g[n]
  BY DEF PopLines, st
<1> HIDE DEF g, n
<1>9. g[0] = st /\ \A i \in 1 .. n : g[i] = PopLine(g[i - 1])
  BY <1>4, <1>7
<1>10. StayEqual(g, f, n) /\ g[0] = f[0]
  BY <1>4, <1>5, <1>9 DEF StayEqual
<1>11. \A i \in 0 .. n : g[i] = f[i]
  BY <1>4, <1>10, IteratesAgree
<1>12. PopLines(buf) = f[n]
  BY <1>4, <1>8, <1>11
<1> QED
  BY <1>1, <1>4, <1>5, <1>12 DEF Pops, n

\* The loop leaves a rest and lines.
LEMMA PopLinesType ==
    ASSUME NEW buf \in Seq(Byte)
    PROVE  PopLines(buf) \in LineStates
<1>1. PICK f : Pops(f, buf)
  BY PopsExist
<1>2. Len(buf) \in 0 .. Len(buf)
  OBVIOUS
<1> QED
  BY <1>1, <1>2 DEF Pops

(* The calls of try_pop_line read the lines as their bytes say.             *)
LEMMA PopLinesRead ==
    ASSUME NEW buf \in Seq(Byte), NulsFollow(buf), NEW ls \in Seq(Seq(Byte))
    PROVE  LET pop == PopLines(buf)
           IN  /\ pop \in LineStates /\ Plain(pop.left)
               /\ LinesAfter(Lines(<<>>, ls), buf) = Lines(pop.left, ls \o pop.lines)
<1> DEFINE n == Len(buf)
           whole == LinesAfter(Lines(<<>>, ls), buf)
           OK(st, i) == /\ NulsFollow(st.left)
                        /\ Eols(st.left) = {} \/ Len(st.left) <= n - i
                        /\ LinesAfter(Lines(<<>>, ls \o st.lines), st.left) = whole
<1>1. PICK f : Pops(f, buf)
  BY PopsExist
<1>2. n \in Nat /\ f \in [0 .. n -> LineStates] /\ f[0] = Lines(buf, <<>>)
      /\ (\A i \in 1 .. n : f[i] = PopLine(f[i - 1])) /\ PopLines(buf) = f[n]
  BY <1>1 DEF Pops
<1> DEFINE T == {i \in 0 .. n : OK(f[i], i)}
<1>3. 0 \in T
  <2> DEFINE st == f[0]
  <2>1. st.left = buf /\ st.lines = <<>> /\ ls \o <<>> = ls
    BY <1>2 DEF Lines
  <2>2. 0 \in 0 .. n /\ Len(buf) <= n - 0
    BY <1>2
  <2> HIDE DEF st
  <2>3. LinesAfter(Lines(<<>>, ls \o st.lines), st.left) = whole
    BY <2>1
  <2>4. OK(st, 0)
    BY <2>1, <2>2, <2>3
  <2> QED
    BY <2>2, <2>4 DEF st
<1>4. ASSUME NEW i \in 0 .. n - 1, i \in T PROVE i + 1 \in T
  <2> DEFINE st == f[i]  nx == f[i + 1]
  <2>1. i + 1 \in 1 .. n /\ (i + 1) - 1 = i /\ i \in 0 .. n /\ i + 1 \in 0 .. n
    BY <1>2
  <2>2. st \in LineStates /\ nx = PopLine(st)
    BY <1>2, <2>1
  <2>3. OK(st, i)
    BY <1>4
  <2> HIDE DEF st, whole
  <2>4. CASE Eols(st.left) = {}
    <3>1. PopLine(st) = st
      BY <2>4 DEF PopLine
    <3>2. nx = st
      BY <2>2, <3>1
    <3> HIDE DEF nx
    <3>3. OK(nx, i + 1)
      BY <2>3, <2>4, <3>2
    <3> QED
      BY <2>1, <3>3 DEF nx
  <2>5. CASE Eols(st.left) # {}
    <3>1. PopsOn(st, PopLine(st))
      BY <2>2, <2>3, <2>5, PopOne
    <3>2. PopsOn(st, nx)
      BY <2>2, <3>1
    <3> HIDE DEF nx
    <3>3. st.left \in Seq(Byte) /\ nx.left \in Seq(Byte)
      BY <2>2, <3>2, LinesType DEF PopsOn
    <3>4. Len(st.left) \in Nat /\ Len(nx.left) \in Nat /\ Len(nx.left) < Len(st.left)
      BY <3>2, <3>3 DEF PopsOn
    <3>5. Len(nx.left) <= n - (i + 1)
      BY <1>2, <2>1, <2>3, <2>5, <3>4
    <3>6. NulsFollow(nx.left) /\ LinesAfter(Lines(<<>>, ls \o nx.lines), nx.left) = whole
      BY <2>3, <3>2 DEF PopsOn
    <3>7. OK(nx, i + 1)
      BY <3>5, <3>6
    <3> QED
      BY <2>1, <3>7 DEF nx
  <2> QED
    BY <2>4, <2>5
<1>5. 0 .. n \subseteq T
  <2> HIDE DEF T, n
  <2> QED
    BY <1>2, <1>3, <1>4, InductionUpTo
<1> DEFINE pop == f[n]
<1>6. OK(pop, n) /\ pop \in LineStates
  <2>1. n \in 0 .. n
    BY <1>2
  <2> QED
    BY <1>2, <1>5, <2>1
<1> HIDE DEF pop, T, whole
<1>7. pop.left \in Seq(Byte) /\ pop.lines \in Seq(Seq(Byte)) /\ Len(pop.left) \in Nat
  <2>1. pop.left \in Seq(Byte) /\ pop.lines \in Seq(Seq(Byte))
    BY <1>6, LinesType
  <2> QED
    BY <2>1
<1>8. Eols(pop.left) = {}
  <2>1. CASE Len(pop.left) <= n - n
    <3>1. Len(pop.left) = 0
      BY <1>2, <1>7, <2>1
    <3> QED
      BY <3>1 DEF Eols
  <2> QED
    BY <1>6, <2>1
<1>9. Plain(pop.left)
  <2> SUFFICES ASSUME NEW i \in 1 .. Len(pop.left)
               PROVE  pop.left[i] \notin {"CR", "LF", "NUL"}
    BY DEF Plain
  <2>1. pop.left[i] \notin {"CR", "LF"}
    BY <1>8 DEF Eols
  <2>2. pop.left[i] # "NUL"
    <3> SUFFICES ASSUME pop.left[i] = "NUL" PROVE FALSE
      OBVIOUS
    <3>1. i > 1 /\ pop.left[i - 1] = "CR"
      BY <1>6 DEF NulsFollow
    <3>2. i - 1 \in 1 .. Len(pop.left)
      BY <1>7, <3>1
    <3>3. i - 1 \in Eols(pop.left)
      BY <3>1, <3>2 DEF Eols
    <3> QED
      BY <1>8, <3>3
  <2> QED
    BY <2>1, <2>2
<1> DEFINE l == pop.left  m == ls \o pop.lines
<1>10. LinesAfter(Lines(<<>>, m), l) = Lines(l, m)
  <2>1. <<>> \in Seq(Byte) /\ m \in Seq(Seq(Byte)) /\ l \in Seq(Byte) /\ <<>> \o l = l
    BY <1>7
  <2> HIDE DEF l, m
  <2>2. Plain(l)
    BY <1>9 DEF l
  <2>3. LinesAfter(Lines(<<>>, m), l) = Lines(<<>> \o l, m)
    BY <2>1, <2>2, AfterPlain
  <2> QED
    BY <2>1, <2>3
<1>11. whole = Lines(l, m)
  BY <1>6, <1>10
<1>12. PopLines(buf) = pop
  BY <1>2 DEF pop
<1> QED
  BY <1>6, <1>9, <1>11, <1>12 DEF whole

-----------------------------------------------------------------------------
(* What a client sends, as the parser reads it.                             *)

DataOf(m) == CASE m.is = "char" -> <<m.b>>
               [] m.is = "end"  -> m.b
               [] OTHER         -> <<>>
AnswerTo(m) == IF m.is = "ask" THEN Refusal(m.b[1], m.b[2]) ELSE <<>>

\* What a client sends: kinds and bytes.
LEMMA SentKinds ==
    ASSUME NEW m \in Sent
    PROVE  /\ m.is \in {"char", "end", "ask", "sub", "nop"}
           /\ m.is = "char" => m.b \in {"x", "SE", "IAC"}
           /\ m.is = "end" => m.b \in {<<"CR", "LF">>, <<"CR", "NUL">>, <<"LF">>}
           /\ m.is = "ask" => m.b \in {<<"DO", "x">>, <<"WILL", "IAC">>, <<"WONT", "SB">>}
           /\ m.is = "sub" => m.b \in {<<"x", "SE">>, <<"IAC", "SE", "LF">>,
                                       <<"x", "IAC", "IAC">>}
  BY DEF Sent, Character, LineEnd, Command

\* Sequences of one and of two bytes.
LEMMA OneAndTwo ==
    ASSUME NEW b \in Byte, NEW c \in Byte
    PROVE  /\ <<b>> \in Seq(Byte)
           /\ <<b, c>> = <<b>> \o <<c>>
           /\ Append(<<b>>, c) = <<b, c>>
<1> DEFINE p == <<b>>  q == <<c>>  s == <<b, c>>  t == p \o q
<1>1. p \in Seq(Byte) /\ Len(p) = 1 /\ p[1] = b
  OBVIOUS
<1>2. q \in Seq(Byte) /\ Len(q) = 1 /\ q[1] = c
  OBVIOUS
<1>3. s \in Seq(Byte) /\ Len(s) = 2 /\ s[1] = b /\ s[2] = c
  OBVIOUS
<1> HIDE DEF p, q, s
<1>4. /\ t \in Seq(Byte) /\ Len(t) = 1 + 1
      /\ \A i \in 1 .. 1 + 1 : t[i] = IF i <= 1 THEN p[i] ELSE q[i - 1]
  BY <1>1, <1>2, ConcatProperties
<1> HIDE DEF t
<1>5. t[1] = b /\ t[2] = c
  BY <1>1, <1>2, <1>4
<1>6. \A i \in 1 .. Len(s) : s[i] = t[i]
  BY <1>3, <1>5
<1>7. s = t
  BY <1>3, <1>4, <1>6, SeqEqual
<1>8. Append(p, c) = p \o q
  BY <1>1, AppendIsConcat DEF q
<1> QED
  BY <1>1, <1>7, <1>8 DEF p, q, s, t

\* A read of two bytes.
LEMMA ParseTwo ==
    ASSUME NEW st \in ParserStates, NEW b \in Byte, NEW c \in Byte
    PROVE  ParseBytes(st, <<b, c>>) = ParseByte(ParseByte(st, b), c)
<1> DEFINE p == <<b>>  q == <<c>>  mid == ParseByte(st, b)
<1>0. p \in Seq(Byte) /\ q \in Seq(Byte) /\ <<b, c>> = p \o q
  BY OneAndTwo
<1>1. p \in Seq(Byte) /\ q \in Seq(Byte) /\ <<b, c>> = p \o q /\ mid \in ParserStates
  BY <1>0, ByteType
<1>2. ParseBytes(st, p) = mid
  BY ParseOne
<1> HIDE DEF mid
<1>3. ParseBytes(mid, q) = ParseByte(mid, c)
  BY <1>1, ParseOne
<1> HIDE DEF p, q
<1>4. ParseBytes(st, p \o q) = ParseBytes(ParseBytes(st, p), q)
  BY <1>1, ParseConcat
<1> QED
  BY <1>1, <1>2, <1>3, <1>4 DEF mid

\* A read of three bytes.
LEMMA ParseThree ==
    ASSUME NEW st \in ParserStates, NEW b \in Byte, NEW c \in Byte, NEW e \in Byte
    PROVE  ParseBytes(st, <<b, c, e>>) = ParseByte(ParseByte(ParseByte(st, b), c), e)
<1> DEFINE p == <<b, c>>  q == <<e>>  mid == ParseByte(ParseByte(st, b), c)
<1>1. p \in Seq(Byte) /\ q \in Seq(Byte) /\ <<b, c, e>> = p \o q
  OBVIOUS
<1>2. ParseBytes(st, p) = mid
  BY ParseTwo
<1>3. ParseByte(st, b) \in ParserStates
  BY ByteType
<1>4. mid \in ParserStates
  BY <1>3, ByteType
<1> HIDE DEF mid
<1>5. ParseBytes(mid, q) = ParseByte(mid, e)
  BY <1>4, ParseOne
<1> HIDE DEF p, q
<1>6. ParseBytes(st, p \o q) = ParseBytes(ParseBytes(st, p), q)
  BY <1>1, ParseConcat
<1> QED
  BY <1>1, <1>2, <1>5, <1>6 DEF mid

\* A byte that is part of a command.
LEMMA Quiet ==
    ASSUME NEW m \in {"data", "iac", "option", "sub", "subiac"}, NEW d \in Seq(Byte),
           NEW r \in Seq(Seq(Byte)), NEW b \in Byte, ~IsDatum(m, b)
    PROVE  ParseByte(State(m, d, r), b) = State(NextMode(m, b), d, r)
<1>1. m \in Mode /\ Answer(m, b) = <<>> /\ r \o <<>> = r
  BY DEF Mode, Answer
<1>2. ParseByte(State(m, d, r), b)
        = State(NextMode(m, b), IF IsDatum(m, b) THEN Append(d, b) ELSE d, r \o Answer(m, b))
  BY <1>1, ByteIs
<1> QED
  BY <1>1, <1>2

\* A byte of data.
LEMMA Kept ==
    ASSUME NEW m \in {"data", "iac"}, NEW d \in Seq(Byte),
           NEW r \in Seq(Seq(Byte)), NEW b \in Byte, IsDatum(m, b)
    PROVE  ParseByte(State(m, d, r), b) = State("data", Append(d, b), r)
<1>1. m \in Mode /\ Answer(m, b) = <<>> /\ r \o <<>> = r /\ NextMode(m, b) = "data"
  BY DEF Mode, Answer, NextMode, IsDatum
<1>2. ParseByte(State(m, d, r), b)
        = State(NextMode(m, b), IF IsDatum(m, b) THEN Append(d, b) ELSE d, r \o Answer(m, b))
  BY <1>1, ByteIs
<1> QED
  BY <1>1, <1>2

\* A character is one datum, an IAC among them doubled on the line.
LEMMA CharParsed ==
    ASSUME NEW m \in Sent, m.is = "char", NEW r \in Seq(Seq(Byte))
    PROVE  ParseBytes(State("data", <<>>, r), OnTheLine(m)) = State("data", <<m.b>>, r)
<1> DEFINE b == m.b  none == <<>>
           st == State("data", none, r)  mid == State("iac", none, r)
<1>1. b \in {"x", "SE", "IAC"} /\ b \in Byte /\ none \in Seq(Byte) /\ Append(none, b) = <<b>>
  BY SentKinds DEF Byte
<1>2. OnTheLine(m) = IF b = "IAC" THEN <<"IAC", "IAC">> ELSE <<b>>
  BY DEF OnTheLine
<1>3. st \in ParserStates
  BY <1>1, StateType DEF Mode
<1> HIDE DEF b, none
<1>4. CASE b = "IAC"
  <2> DEFINE data == "data"  command == "iac"
  <2>0. /\ ~IsDatum(data, b) /\ NextMode(data, b) = "iac" /\ IsDatum(command, b)
        /\ data \in {"data", "iac", "option", "sub", "subiac"} /\ command \in {"data", "iac"}
    BY <1>4 DEF IsDatum, NextMode
  <2>1. ParseByte(st, b) = mid
    <3> HIDE DEF data, command
    <3>1. ParseByte(State(data, none, r), b) = State(NextMode(data, b), none, r)
      BY <1>1, <2>0, Quiet
    <3> QED
      BY <2>0, <3>1 DEF data
  <2>2. ParseByte(mid, b) = State("data", <<b>>, r)
    <3> HIDE DEF data, command
    <3>1. ParseByte(State(command, none, r), b) = State("data", Append(none, b), r)
      BY <1>1, <2>0, Kept
    <3> QED
      BY <1>1, <3>1 DEF command
  <2> HIDE DEF st, mid
  <2>3. ParseBytes(st, <<b, b>>) = ParseByte(ParseByte(st, b), b)
    BY <1>1, <1>3, ParseTwo
  <2> QED
    BY <1>2, <1>4, <2>1, <2>2, <2>3 DEF b, st, none
<1>5. CASE b # "IAC"
  <2>1. ParseByte(st, b) = State("data", <<b>>, r)
    <3> DEFINE data == "data"
    <3>1. data \in {"data", "iac"} /\ IsDatum(data, b)
      BY <1>5 DEF IsDatum
    <3> HIDE DEF data
    <3>2. ParseByte(State(data, none, r), b) = State("data", Append(none, b), r)
      BY <1>1, <3>1, Kept
    <3> QED
      BY <1>1, <3>2 DEF data
  <2> HIDE DEF st
  <2>2. ParseBytes(st, <<b>>) = ParseByte(st, b)
    BY <1>1, <1>3, ParseOne
  <2> QED
    BY <1>2, <1>5, <2>1, <2>2 DEF b, st, none
<1> QED
  BY <1>4, <1>5

\* The end of a line is data like any other.
LEMMA EndParsed ==
    ASSUME NEW m \in Sent, m.is = "end", NEW r \in Seq(Seq(Byte))
    PROVE  ParseBytes(State("data", <<>>, r), OnTheLine(m)) = State("data", m.b, r)
<1> DEFINE data == "data"  none == <<>>  st == State(data, none, r)
<1>1. m.b \in {<<"CR", "LF">>, <<"CR", "NUL">>, <<"LF">>} /\ OnTheLine(m) = m.b
  BY SentKinds DEF OnTheLine
<1>2. none \in Seq(Byte) /\ "CR" \in Byte /\ "LF" \in Byte /\ "NUL" \in Byte
      /\ data \in {"data", "iac"} /\ data \in Mode
  BY DEF Byte, Mode
<1>3. \A b \in {"CR", "LF", "NUL"} : IsDatum(data, b) /\ Append(none, b) = <<b>>
  BY DEF IsDatum
<1> HIDE DEF data, none
<1>4. st \in ParserStates
  BY <1>2, StateType
<1>5. ASSUME NEW b \in {"CR", "LF", "NUL"} PROVE ParseByte(st, b) = State("data", <<b>>, r)
  <2>1. b \in Byte /\ Append(none, b) = <<b>> /\ IsDatum(data, b)
    BY <1>2, <1>3
  <2>2. ParseByte(State(data, none, r), b) = State("data", Append(none, b), r)
    BY <1>2, <2>1, Kept
  <2> QED
    BY <2>1, <2>2
<1> HIDE DEF st
<1>6. ASSUME NEW b \in {"CR", "LF", "NUL"}, NEW c \in {"CR", "LF", "NUL"}
      PROVE  ParseBytes(st, <<b, c>>) = State("data", <<b, c>>, r)
  <2> DEFINE d == <<b>>
  <2>1. b \in Byte /\ c \in Byte
    BY <1>2
  <2>2. d \in Seq(Byte) /\ Append(d, c) = <<b, c>>
    BY <2>1, OneAndTwo
  <2>3. ParseByte(st, b) = State(data, d, r)
    BY <1>5 DEF data
  <2>4. IsDatum(data, c)
    BY <1>3
  <2> HIDE DEF d
  <2>5. ParseByte(State(data, d, r), c) = State("data", Append(d, c), r)
    BY <1>2, <2>1, <2>2, <2>4, Kept
  <2>6. ParseBytes(st, <<b, c>>) = ParseByte(ParseByte(st, b), c)
    BY <1>4, <2>1, ParseTwo
  <2> QED
    BY <2>2, <2>3, <2>5, <2>6
<1>7. ParseBytes(st, <<"LF">>) = State("data", <<"LF">>, r)
  <2>1. ParseByte(st, "LF") = State("data", <<"LF">>, r)
    BY <1>5
  <2> QED
    BY <1>2, <1>4, <2>1, ParseOne
<1>8. ParseBytes(st, m.b) = State("data", m.b, r)
  <2>1. CASE m.b = <<"CR", "LF">>
    BY <1>6, <2>1
  <2>2. CASE m.b = <<"CR", "NUL">>
    BY <1>6, <2>2
  <2>3. CASE m.b = <<"LF">>
    BY <1>7, <2>3
  <2> QED
    BY <1>1, <2>1, <2>2, <2>3
<1> QED
  BY <1>1, <1>8 DEF st, data, none

\* No data yet.
Idle(m, r) == State(m, <<>>, r)
\* A byte of a command that only changes the mode.
Goes(m, b, n) == /\ m \in {"data", "iac", "option", "sub", "subiac"} /\ b \in Byte
                 /\ ~IsDatum(m, b) /\ NextMode(m, b) = n

\* A parser without data.
LEMMA IdleType ==
    ASSUME NEW m \in Mode, NEW r \in Seq(Seq(Byte))
    PROVE  Idle(m, r) \in ParserStates
<1>1. <<>> \in Seq(Byte)
  OBVIOUS
<1> QED
  BY <1>1, StateType DEF Idle

\* A byte that is no datum and asks for no answer moves the parser.
LEMMA GoesOn ==
    ASSUME NEW m, NEW b, NEW n, Goes(m, b, n), NEW r \in Seq(Seq(Byte))
    PROVE  ParseByte(Idle(m, r), b) = Idle(n, r)
<1> DEFINE none == <<>>
<1>1. none \in Seq(Byte)
  OBVIOUS
<1> HIDE DEF none
<1>2. ParseByte(State(m, none, r), b) = State(NextMode(m, b), none, r)
  BY <1>1, Quiet DEF Goes
<1> QED
  BY <1>2 DEF Goes, Idle, none

\* Two such bytes.
LEMMA GoesTwo ==
    ASSUME NEW m \in Mode, NEW b \in Byte, NEW n, Goes(m, b, n),
           NEW c \in Byte, NEW o, Goes(n, c, o), NEW r \in Seq(Seq(Byte))
    PROVE  ParseBytes(Idle(m, r), <<b, c>>) = Idle(o, r)
<1> DEFINE st == Idle(m, r)
<1>1. st \in ParserStates
  BY IdleType
<1>2. ParseByte(st, b) = Idle(n, r) /\ ParseByte(Idle(n, r), c) = Idle(o, r)
  BY GoesOn
<1> HIDE DEF st
<1>3. ParseBytes(st, <<b, c>>) = ParseByte(ParseByte(st, b), c)
  BY <1>1, ParseTwo
<1> QED
  BY <1>2, <1>3 DEF st

\* Three such bytes.
LEMMA GoesThree ==
    ASSUME NEW m \in Mode, NEW b \in Byte, NEW n, Goes(m, b, n),
           NEW c \in Byte, NEW o, Goes(n, c, o),
           NEW e \in Byte, NEW p, Goes(o, e, p), NEW r \in Seq(Seq(Byte))
    PROVE  ParseBytes(Idle(m, r), <<b, c, e>>) = Idle(p, r)
<1> DEFINE st == Idle(m, r)
<1>1. st \in ParserStates
  BY IdleType
<1>2. ParseByte(st, b) = Idle(n, r) /\ ParseByte(Idle(n, r), c) = Idle(o, r)
      /\ ParseByte(Idle(o, r), e) = Idle(p, r)
  BY GoesOn
<1> HIDE DEF st
<1>3. ParseBytes(st, <<b, c, e>>) = ParseByte(ParseByte(ParseByte(st, b), c), e)
  BY <1>1, ParseThree
<1> QED
  BY <1>2, <1>3 DEF st

\* The bytes of commands that move the parser.
LEMMA ParserMoves ==
    /\ "data" \in Mode /\ "iac" \in Mode /\ "option" \in Mode /\ "sub" \in Mode
    /\ "subiac" \in Mode
    /\ "IAC" \in Byte /\ "SB" \in Byte /\ "SE" \in Byte /\ "x" \in Byte /\ "LF" \in Byte
    /\ Goes("data", "IAC", "iac") /\ Goes("iac", "SB", "option") /\ Goes("iac", "x", "data")
    /\ (\A b \in Byte : Goes("option", b, "sub"))
    /\ Goes("sub", "IAC", "subiac") /\ Goes("sub", "x", "sub") /\ Goes("sub", "SE", "sub")
    /\ Goes("subiac", "SE", "data") /\ Goes("subiac", "IAC", "sub") /\ Goes("sub", "LF", "sub")
<1>1. /\ "data" \in Mode /\ "iac" \in Mode /\ "option" \in Mode /\ "sub" \in Mode
      /\ "subiac" \in Mode
  BY DEF Mode
<1>2. "IAC" \in Byte /\ "SB" \in Byte /\ "SE" \in Byte /\ "x" \in Byte /\ "LF" \in Byte
  BY DEF Byte
<1>3. Goes("data", "IAC", "iac") /\ Goes("iac", "SB", "option") /\ Goes("iac", "x", "data")
  BY <1>2 DEF Goes, IsDatum, NextMode
<1>4. \A b \in Byte : Goes("option", b, "sub")
  BY DEF Goes, IsDatum, NextMode
<1>5. Goes("sub", "IAC", "subiac") /\ Goes("sub", "x", "sub") /\ Goes("sub", "SE", "sub")
      /\ Goes("sub", "LF", "sub")
  BY <1>2 DEF Goes, IsDatum, NextMode
<1>6. Goes("subiac", "SE", "data") /\ Goes("subiac", "IAC", "sub")
  BY <1>2 DEF Goes, IsDatum, NextMode
<1> QED
  BY <1>1, <1>2, <1>3, <1>4, <1>5, <1>6

\* A command without an option leaves nothing behind.
LEMMA NopParsed ==
    ASSUME NEW m \in Sent, m.is = "nop", NEW r \in Seq(Seq(Byte))
    PROVE  ParseBytes(Idle("data", r), OnTheLine(m)) = Idle("data", r)
<1>1. OnTheLine(m) = <<"IAC", "x">>
  BY DEF OnTheLine
<1>2. ParseBytes(Idle("data", r), <<"IAC", "x">>) = Idle("data", r)
  BY ParserMoves, GoesTwo
<1> QED
  BY <1>1, <1>2

\* A negotiation is answered and leaves no data.
LEMMA AskParsed ==
    ASSUME NEW m \in Sent, m.is = "ask", NEW r \in Seq(Seq(Byte))
    PROVE  /\ OnTheLine(m) \in Seq(Byte)
           /\ ParseBytes(Idle("data", r), OnTheLine(m))
                = Idle("data", r \o Refusal(m.b[1], m.b[2]))
<1> DEFINE c == m.b[1]  o == m.b[2]  first == <<"IAC">>  st == Idle("data", r)
           mid == Idle("iac", r)  near == Idle(c, r)  q == <<c, o>>  none == <<>>
<1>1. c \in {"DO", "WILL", "WONT"} /\ o \in {"x", "IAC", "SB"} /\ m.b = <<c, o>>
  BY SentKinds
<1>2. c \in Byte /\ o \in Byte /\ c \in Mode /\ OnTheLine(m) = first \o m.b /\ none \in Seq(Byte)
  BY <1>1 DEF Byte, Mode, OnTheLine
<1>3. first \in Seq(Byte) /\ q \in Seq(Byte)
  BY <1>2, ParserMoves
<1>4. Goes("iac", c, c)
  BY <1>1, <1>2 DEF Goes, IsDatum, NextMode
<1>5. st \in ParserStates /\ mid \in ParserStates /\ near \in ParserStates
  BY <1>2, ParserMoves, IdleType
<1>6. ParseByte(st, "IAC") = mid /\ ParseByte(mid, c) = near
  BY <1>4, ParserMoves, GoesOn
<1>7. ParseByte(near, o) = Idle("data", r \o Refusal(c, o))
  <2>1. NextMode(c, o) = "data" /\ ~IsDatum(c, o) /\ Answer(c, o) = Refusal(c, o)
    BY <1>1 DEF NextMode, IsDatum, Answer
  <2> HIDE DEF c, o, none
  <2>2. ParseByte(State(c, none, r), o)
          = State(NextMode(c, o), IF IsDatum(c, o) THEN Append(none, o) ELSE none,
                  r \o Answer(c, o))
    BY <1>2, ByteIs
  <2> QED
    BY <2>1, <2>2 DEF Idle, none
<1> HIDE DEF c, o, st, mid, near, none
<1>8. ParseBytes(st, first) = mid
  <2>1. ParseBytes(st, <<"IAC">>) = ParseByte(st, "IAC")
    BY <1>5, ParserMoves, ParseOne
  <2> QED
    BY <1>6, <2>1
<1>9. ParseBytes(mid, q) = ParseByte(ParseByte(mid, c), o)
  BY <1>2, <1>5, ParseTwo
<1> HIDE DEF first, q
<1>10. ParseBytes(st, first \o q) = ParseBytes(ParseBytes(st, first), q)
  BY <1>3, <1>5, ParseConcat
<1>11. first \o q \in Seq(Byte) /\ OnTheLine(m) = first \o q
  <2>1. OnTheLine(m) = first \o q
    BY <1>1, <1>2 DEF q
  <2> QED
    BY <1>3, <2>1, ConcatProperties
<1> QED
  BY <1>6, <1>7, <1>8, <1>9, <1>10, <1>11 DEF st, c, o

\* A subnegotiation leaves nothing, whatever bytes it holds.
LEMMA SubParsed ==
    ASSUME NEW m \in Sent, m.is = "sub", NEW r \in Seq(Seq(Byte))
    PROVE  /\ OnTheLine(m) \in Seq(Byte)
           /\ ParseBytes(Idle("data", r), OnTheLine(m)) = Idle("data", r)
<1> DEFINE p == <<"IAC", "SB">>  q == <<"IAC", "SE">>  t == m.b  st == Idle("data", r)
           mid == Idle("option", r)  near == Idle("sub", r)
<1>1. t \in {<<"x", "SE">>, <<"IAC", "SE", "LF">>, <<"x", "IAC", "IAC">>}
  BY SentKinds
<1>2. OnTheLine(m) = p \o t \o q
  BY DEF OnTheLine
<1>3. p \in Seq(Byte) /\ q \in Seq(Byte)
  BY ParserMoves
<1>4. t \in Seq(Byte)
  <2>1. <<"x", "SE">> \in Seq(Byte)
    BY ParserMoves
  <2>2. <<"IAC", "SE", "LF">> \in Seq(Byte)
    BY ParserMoves
  <2>3. <<"x", "IAC", "IAC">> \in Seq(Byte)
    BY ParserMoves
  <2> QED
    BY <1>1, <2>1, <2>2, <2>3
<1>5. st \in ParserStates /\ mid \in ParserStates /\ near \in ParserStates
  BY ParserMoves, IdleType
<1>6. ParseBytes(st, p) = mid
  BY ParserMoves, GoesTwo
<1>7. ParseBytes(near, q) = st
  BY ParserMoves, GoesTwo
<1>8. ParseBytes(mid, t) = near
  <2>1. CASE t = <<"x", "SE">>
    <3>1. ParseBytes(mid, <<"x", "SE">>) = near
      BY ParserMoves, GoesTwo
    <3> QED
      BY <2>1, <3>1
  <2>2. CASE t = <<"IAC", "SE", "LF">>
    <3>1. ParseBytes(mid, <<"IAC", "SE", "LF">>) = near
      BY ParserMoves, GoesThree
    <3> QED
      BY <2>2, <3>1
  <2>3. CASE t = <<"x", "IAC", "IAC">>
    <3>1. ParseBytes(mid, <<"x", "IAC", "IAC">>) = near
      BY ParserMoves, GoesThree
    <3> QED
      BY <2>3, <3>1
  <2> QED
    BY <1>1, <2>1, <2>2, <2>3
<1> HIDE DEF p, q, t, st, mid, near
<1>9. p \o t \in Seq(Byte)
  BY <1>3, <1>4, ConcatProperties
<1>10. ParseBytes(st, p \o t) = ParseBytes(ParseBytes(st, p), t)
  BY <1>3, <1>4, <1>5, ParseConcat
<1> DEFINE u == p \o t
<1> HIDE DEF u
<1>11. u \in Seq(Byte) /\ ParseBytes(st, u) = near
  BY <1>6, <1>8, <1>9, <1>10 DEF u
<1>12. ParseBytes(st, u \o q) = ParseBytes(ParseBytes(st, u), q)
  BY <1>3, <1>5, <1>11, ParseConcat
<1>13. u \o q \in Seq(Byte)
  BY <1>3, <1>11, ConcatProperties
<1> QED
  BY <1>2, <1>7, <1>11, <1>12, <1>13 DEF u, st

CrsLead(q) == \A i \in 1 .. Len(q) : q[i] = "CR" => i < Len(q) /\ q[i + 1] \in {"LF", "NUL"}

\* What a client sends is bytes, and so is its meaning.
LEMMA SentBytes ==
    ASSUME NEW m \in Sent
    PROVE  OnTheLine(m) \in Seq(Byte) /\ DataOf(m) \in Seq(Byte)
<1>1. "CR" \in Byte /\ "LF" \in Byte /\ "NUL" \in Byte /\ "SE" \in Byte /\ "x" \in Byte
      /\ "IAC" \in Byte
  BY DEF Byte
<1>2. <<>> \in Seq(Byte) /\ <<"LF">> \in Seq(Byte)
  BY <1>1
<1>3. <<"CR", "LF">> \in Seq(Byte)
  BY <1>1
<1>4. <<"CR", "NUL">> \in Seq(Byte)
  BY <1>1
<1>5. <<"IAC", "IAC">> \in Seq(Byte)
  BY <1>1
<1>6. <<"IAC", "x">> \in Seq(Byte)
  BY <1>1
<1>7. CASE m.is = "char"
  <2>1. m.b \in Byte
    BY <1>1, <1>7, SentKinds
  <2>2. <<m.b>> \in Seq(Byte)
    BY <2>1, OneAndTwo
  <2> QED
    BY <1>5, <1>7, <2>2 DEF OnTheLine, DataOf
<1>8. CASE m.is = "end"
  <2>1. m.b \in Seq(Byte)
    BY <1>2, <1>3, <1>4, <1>8, SentKinds
  <2> QED
    BY <1>8, <2>1 DEF OnTheLine, DataOf
<1>9. CASE m.is \notin {"char", "end"}
  <2>1. DataOf(m) = <<>>
    BY <1>9 DEF DataOf
  <2>2. OnTheLine(m) \in Seq(Byte)
    <3>1. <<>> \in Seq(Seq(Byte))
      OBVIOUS
    <3>2. CASE m.is = "ask"
      BY <3>1, <3>2, AskParsed
    <3>3. CASE m.is = "sub"
      BY <3>1, <3>3, SubParsed
    <3>4. CASE m.is = "nop"
      BY <1>6, <3>4 DEF OnTheLine
    <3> QED
      BY <1>9, <3>2, <3>3, <3>4, SentKinds
  <2> QED
    BY <1>2, <2>1, <2>2
<1> QED
  BY <1>7, <1>8, <1>9

(* What is sent is read as it was meant.                                    *)
LEMMA SentParsed ==
    ASSUME NEW m \in Sent, NEW r \in Seq(Seq(Byte))
    PROVE  ParseBytes(Idle("data", r), OnTheLine(m))
             = State("data", DataOf(m), r \o AnswerTo(m))
<1>1. r \o <<>> = r
  OBVIOUS
<1>2. CASE m.is = "char"
  BY <1>1, <1>2, CharParsed DEF Idle, DataOf, AnswerTo
<1>3. CASE m.is = "end"
  BY <1>1, <1>3, EndParsed DEF Idle, DataOf, AnswerTo
<1>4. CASE m.is = "ask"
  BY <1>4, AskParsed DEF Idle, DataOf, AnswerTo
<1>5. CASE m.is = "sub"
  BY <1>1, <1>5, SubParsed DEF Idle, DataOf, AnswerTo
<1>6. CASE m.is = "nop"
  BY <1>1, <1>6, NopParsed DEF Idle, DataOf, AnswerTo
<1> QED
  BY <1>2, <1>3, <1>4, <1>5, <1>6, SentKinds

\* A CR that is never the last byte: of two parts, so of both joined.
LEMMA CrsConcat ==
    ASSUME NEW p \in Seq(Byte), NEW q \in Seq(Byte), CrsLead(p), CrsLead(q)
    PROVE  CrsLead(p \o q)
<1> DEFINE m == Len(p)  n == Len(q)  s == p \o q
<1>1. m \in Nat /\ n \in Nat
  OBVIOUS
<1>2. /\ s \in Seq(Byte) /\ Len(s) = m + n
      /\ \A i \in 1 .. m + n : s[i] = IF i <= m THEN p[i] ELSE q[i - m]
  BY ConcatProperties
<1> HIDE DEF s, m, n
<1>3. ASSUME NEW i \in 1 .. m + n, s[i] = "CR"
      PROVE  i < m + n /\ s[i + 1] \in {"LF", "NUL"}
  <2>1. CASE i <= m
    <3>1. p[i] = "CR" /\ i \in 1 .. m
      BY <1>1, <1>2, <1>3, <2>1
    <3>2. i < m /\ p[i + 1] \in {"LF", "NUL"}
      BY <3>1 DEF CrsLead, m
    <3>3. i + 1 \in 1 .. m + n /\ i + 1 <= m
      BY <1>1, <3>2
    <3> QED
      BY <1>1, <1>2, <3>2, <3>3
  <2>2. CASE ~ i <= m
    <3>1. q[i - m] = "CR" /\ i - m \in 1 .. n
      BY <1>1, <1>2, <1>3, <2>2
    <3>2. i - m < n /\ q[(i - m) + 1] \in {"LF", "NUL"}
      BY <3>1 DEF CrsLead, n
    <3>3. i + 1 \in 1 .. m + n /\ ~ i + 1 <= m /\ (i + 1) - m = (i - m) + 1
      BY <1>1, <2>2, <3>2
    <3>4. s[i + 1] = q[(i + 1) - m]
      BY <1>2, <3>3
    <3> QED
      BY <1>1, <3>2, <3>3, <3>4
  <2> QED
    BY <2>1, <2>2
<1> QED
  BY <1>2, <1>3 DEF CrsLead, s

\* Whatever a client sends, a CR in it has its LF or NUL behind it.
LEMMA SentCrs ==
    ASSUME NEW m \in Sent
    PROVE  CrsLead(OnTheLine(m))
<1>1. ASSUME NEW a \in Byte \ {"CR"}, NEW b \in Byte \ {"CR"}
      PROVE  CrsLead(<<a>>) /\ CrsLead(<<a, b>>)
  BY <1>1 DEF CrsLead
<1>2. ASSUME NEW a \in Byte \ {"CR"}, NEW b \in Byte \ {"CR"}, NEW c \in Byte \ {"CR"}
      PROVE  CrsLead(<<a, b, c>>)
  BY <1>2 DEF CrsLead
<1>3. {"IAC", "SB", "SE", "x", "LF", "DO", "WILL", "WONT"} \subseteq Byte \ {"CR"}
  BY DEF Byte
<1>4. CASE m.is = "char"
  <2>1. m.b \in Byte \ {"CR"} /\ "IAC" \in Byte \ {"CR"}
    BY <1>3, <1>4, SentKinds
  <2>2. CrsLead(<<m.b>>) /\ CrsLead(<<"IAC", "IAC">>)
    BY <1>1, <2>1
  <2> QED
    BY <1>4, <2>2 DEF OnTheLine
<1>5. CASE m.is = "end"
  <2>1. OnTheLine(m) \in {<<"CR", "LF">>, <<"CR", "NUL">>, <<"LF">>}
    BY <1>5, SentKinds DEF OnTheLine
  <2>2. CrsLead(<<"CR", "LF">>) /\ CrsLead(<<"CR", "NUL">>) /\ CrsLead(<<"LF">>)
    BY DEF CrsLead
  <2> QED
    BY <2>1, <2>2
<1>6. CASE m.is = "ask"
  <2>1. OnTheLine(m) = <<"IAC">> \o m.b
    BY <1>6 DEF OnTheLine
  <2>2. m.b \in {<<"DO", "x">>, <<"WILL", "IAC">>, <<"WONT", "SB">>}
    BY <1>6, SentKinds
  <2>3. CrsLead(m.b) /\ CrsLead(<<"IAC">>)
    BY <1>1, <1>3, <2>2
  <2>4. <<"IAC">> \in Seq(Byte) /\ m.b \in Seq(Byte)
    <3>1. <<"DO", "x">> \in Seq(Byte)
      BY DEF Byte
    <3>2. <<"WILL", "IAC">> \in Seq(Byte)
      BY DEF Byte
    <3>3. <<"WONT", "SB">> \in Seq(Byte)
      BY DEF Byte
    <3>4. <<"IAC">> \in Seq(Byte)
      BY DEF Byte
    <3> QED
      BY <2>2, <3>1, <3>2, <3>3, <3>4
  <2> QED
    BY <2>1, <2>3, <2>4, CrsConcat
<1>7. CASE m.is = "sub"
  <2> DEFINE p == <<"IAC", "SB">>  q == <<"IAC", "SE">>  t == m.b
  <2>1. OnTheLine(m) = p \o t \o q
    BY <1>7 DEF OnTheLine
  <2>2. t \in {<<"x", "SE">>, <<"IAC", "SE", "LF">>, <<"x", "IAC", "IAC">>}
    BY <1>7, SentKinds
  <2>3. CrsLead(p) /\ CrsLead(q)
    BY <1>1, <1>3
  <2>4. p \in Seq(Byte) /\ q \in Seq(Byte)
    BY ParserMoves
  <2>5. t \in Seq(Byte)
    <3>1. <<"x", "SE">> \in Seq(Byte)
      BY ParserMoves
    <3>2. <<"IAC", "SE", "LF">> \in Seq(Byte)
      BY ParserMoves
    <3>3. <<"x", "IAC", "IAC">> \in Seq(Byte)
      BY ParserMoves
    <3> QED
      BY <2>2, <3>1, <3>2, <3>3
  <2>6. CrsLead(t)
    BY <1>1, <1>2, <1>3, <2>2
  <2> HIDE DEF p, q, t
  <2>7. p \o t \in Seq(Byte) /\ CrsLead(p \o t)
    BY <2>3, <2>4, <2>5, <2>6, CrsConcat, ConcatProperties
  <2> DEFINE u == p \o t
  <2> HIDE DEF u
  <2>8. CrsLead(u \o q)
    BY <2>3, <2>4, <2>7, CrsConcat DEF u
  <2> QED
    BY <2>1, <2>8 DEF u
<1>8. CASE m.is = "nop"
  <2>1. OnTheLine(m) = <<"IAC", "x">>
    BY <1>8 DEF OnTheLine
  <2> QED
    BY <1>1, <1>3, <2>1
<1> QED
  BY <1>4, <1>5, <1>6, <1>7, <1>8, SentKinds

-----------------------------------------------------------------------------
(* What the client meant, thing by thing.                                   *)

MeantStates == [line : Seq(Byte), lines : Seq(Seq(Byte)), replies : Seq(Seq(Byte))]
Meaning(l, ls, r) == [line |-> l, lines |-> ls, replies |-> r]
MeantStep == [p \in MeantStates \X Sent |-> MeantBy(p[1], p[2])]
NothingMeant == Meaning(<<>>, <<>>, <<>>)

\* States of the meaning and their parts.
LEMMA MeaningType ==
    /\ \A st \in MeantStates :
          /\ st.line \in Seq(Byte) /\ st.lines \in Seq(Seq(Byte))
          /\ st.replies \in Seq(Seq(Byte)) /\ st = Meaning(st.line, st.lines, st.replies)
    /\ \A l \in Seq(Byte), ls \in Seq(Seq(Byte)), r \in Seq(Seq(Byte)) :
          /\ Meaning(l, ls, r) \in MeantStates
          /\ Meaning(l, ls, r).line = l /\ Meaning(l, ls, r).lines = ls
          /\ Meaning(l, ls, r).replies = r
  BY DEF Meaning, MeantStates

\* The answer to one thing sent is replies.
LEMMA AnswerToType ==
    ASSUME NEW m \in Sent
    PROVE  AnswerTo(m) \in Seq(Seq(Byte))
<1>1. m.is = "ask" => m.b[2] \in Byte
  BY SentKinds DEF Byte
<1> QED
  BY <1>1, RefusalType DEF AnswerTo

\* The data of a line end, whichever it is, end the line once.
LEMMA EndTaken ==
    ASSUME NEW l \in Seq(Byte), NEW ls \in Seq(Seq(Byte)),
           NEW q \in {<<"CR", "LF">>, <<"CR", "NUL">>, <<"LF">>}
    PROVE  LinesAfter(Lines(l, ls), q) = Lines(<<>>, IF l = <<>> THEN ls ELSE Append(ls, l))
<1> DEFINE st == Lines(l, ls)  ms == IF l = <<>> THEN ls ELSE Append(ls, l)
           u == Lines(<<>>, ms)
<1>1. st \in LineStates /\ st.left = l /\ st.lines = ls
  BY LinesType
<1>2. ms \in Seq(Seq(Byte)) /\ <<>> \in Seq(Byte)
  OBVIOUS
<1> HIDE DEF st, ms
<1>3. u \in LineStates /\ u.left = <<>> /\ u.lines = ms
  BY <1>2, LinesType
<1> HIDE DEF u
<1>4. Consume(st, "CR") = u /\ Consume(st, "LF") = u
  BY <1>1 DEF Consume, u, ms
<1>5. Consume(u, "LF") = u /\ Consume(u, "NUL") = u
  <2>1. Consume(u, "LF") = Lines(<<>>, ms)
    BY <1>3 DEF Consume
  <2> QED
    BY <2>1 DEF Consume, u
<1>6. "CR" \in Byte /\ "LF" \in Byte /\ "NUL" \in Byte
  BY DEF Byte
<1>7. CASE q = <<"LF">>
  BY <1>1, <1>4, <1>6, <1>7, LinesAfterOne DEF st, ms, u
<1>8. ASSUME NEW e \in {"LF", "NUL"}, q = <<"CR", e>> PROVE LinesAfter(st, q) = u
  <2>1. e \in Byte
    BY <1>6
  <2> DEFINE cr == <<"CR">>  o == <<e>>
  <2>2. cr \in Seq(Byte) /\ o \in Seq(Byte) /\ q = cr \o o
    BY <1>6, <1>8, <2>1, OneAndTwo
  <2>3. LinesAfter(st, cr) = u /\ LinesAfter(u, o) = u
    BY <1>1, <1>3, <1>4, <1>5, <1>6, <2>1, LinesAfterOne
  <2> HIDE DEF cr, o
  <2>4. LinesAfter(st, cr \o o) = LinesAfter(LinesAfter(st, cr), o)
    BY <1>1, <2>2, LinesAfterConcat
  <2> QED
    BY <2>2, <2>3, <2>4
<1>9. CASE q = <<"CR", "LF">> \/ q = <<"CR", "NUL">>
  BY <1>8, <1>9 DEF st, u, ms
<1> QED
  BY <1>7, <1>9

\* What was sent is meant as its data is taken.
LEMMA MeantByIs ==
    ASSUME NEW l \in Seq(Byte), NEW ls \in Seq(Seq(Byte)), NEW r \in Seq(Seq(Byte)),
           NEW m \in Sent
    PROVE  LET a == LinesAfter(Lines(l, ls), DataOf(m))
           IN  /\ a \in LineStates
               /\ MeantBy(Meaning(l, ls, r), m) = Meaning(a.left, a.lines, r \o AnswerTo(m))
<1> DEFINE st == Lines(l, ls)  a == LinesAfter(st, DataOf(m))  w == Meaning(l, ls, r)
           ans == AnswerTo(m)
<1>1. st \in LineStates /\ st.left = l /\ st.lines = ls
  BY LinesType
<1>2. DataOf(m) \in Seq(Byte)
  BY SentBytes
<1>3. a \in LineStates
  BY <1>1, <1>2, LinesAfterType
<1>4. w = [line |-> l, lines |-> ls, replies |-> r]
  BY DEF Meaning
<1>5. r \o <<>> = r
  OBVIOUS
<1> HIDE DEF w, a
<1>6. CASE m.is = "char"
  <2>1. m.b \in {"x", "SE", "IAC"}
    BY <1>6, SentKinds
  <2> DEFINE b == m.b
  <2>2. DataOf(m) = <<b>> /\ ans = <<>>
    BY <1>6 DEF DataOf, AnswerTo
  <2>3. b \in Byte /\ b \notin {"CR", "LF", "NUL"}
    BY <2>1 DEF Byte
  <2>4. MeantBy(w, m) = [w EXCEPT !.line = Append(@, b)]
    BY <1>6 DEF MeantBy
  <2> HIDE DEF b
  <2>5. MeantBy(w, m) = Meaning(Append(l, b), ls, r)
    BY <1>4, <2>4 DEF Meaning
  <2>6. a = Consume(st, b)
    <3> HIDE DEF st
    <3>1. LinesAfter(st, <<b>>) = Consume(st, b)
      BY <1>1, <2>3, LinesAfterOne
    <3> QED
      BY <2>2, <3>1 DEF a
  <2>7. Consume(st, b) = Lines(Append(l, b), ls)
    <3> HIDE DEF st
    <3> QED
      BY <1>1, <2>3 DEF Consume
  <2>8. a.left = Append(l, b) /\ a.lines = ls
    BY <2>6, <2>7 DEF Lines
  <2> HIDE DEF ans
  <2>9. r \o ans = r
    BY <1>5, <2>2
  <2>10. MeantBy(w, m) = Meaning(a.left, a.lines, r \o ans)
    BY <2>5, <2>8, <2>9
  <2> QED
    BY <1>3, <2>10 DEF a, w, ans
<1>7. CASE m.is = "end"
  <2>1. m.b \in {<<"CR", "LF">>, <<"CR", "NUL">>, <<"LF">>}
    BY <1>7, SentKinds
  <2> DEFINE ms == IF l = <<>> THEN ls ELSE Append(ls, l)
  <2>2. DataOf(m) = m.b /\ ans = <<>>
    BY <1>7 DEF DataOf, AnswerTo
  <2>3. a = Lines(<<>>, ms)
    BY <2>1, <2>2, EndTaken DEF a
  <2>4. MeantBy(w, m) = [w EXCEPT !.line = <<>>,
                                  !.lines = IF w.line = <<>> THEN @ ELSE Append(@, w.line)]
    BY <1>7 DEF MeantBy
  <2>5. w.line = l /\ w.lines = ls
    BY <1>4
  <2>6. MeantBy(w, m) = [w EXCEPT !.line = <<>>, !.lines = ms]
    BY <1>4, <2>4, <2>5
  <2> HIDE DEF ms
  <2>7. MeantBy(w, m) = Meaning(<<>>, ms, r)
    BY <1>4, <2>6 DEF Meaning
  <2>8. a.left = <<>> /\ a.lines = ms
    BY <2>3 DEF Lines
  <2> HIDE DEF ans
  <2>9. r \o ans = r
    BY <1>5, <2>2
  <2>10. MeantBy(w, m) = Meaning(a.left, a.lines, r \o ans)
    BY <2>7, <2>8, <2>9
  <2> QED
    BY <1>3, <2>10 DEF a, w, ans
<1>8. CASE m.is \in {"ask", "sub", "nop"}
  <2>1. DataOf(m) = <<>>
    BY <1>8 DEF DataOf
  <2>2. a = st
    <3> HIDE DEF st
    <3> QED
      BY <1>1, <2>1, LinesAfterNone DEF a
  <2>3. a.left = l /\ a.lines = ls
    BY <1>1, <2>2
  <2>4. MeantBy(w, m) = Meaning(l, ls, r \o ans)
    <3>1. CASE m.is = "ask"
      <4> DEFINE more == r \o ans
      <4>1. ans = Refusal(m.b[1], m.b[2])
        BY <3>1 DEF AnswerTo
      <4>2. MeantBy(w, m) = [w EXCEPT !.replies = @ \o ans]
        BY <3>1, <4>1 DEF MeantBy
      <4> HIDE DEF ans
      <4>3. w.replies = r
        BY <1>4
      <4>4. MeantBy(w, m) = [w EXCEPT !.replies = more]
        BY <4>2, <4>3, <1>4
      <4> HIDE DEF more
      <4> QED
        BY <1>4, <4>4 DEF Meaning, more
    <3>2. CASE m.is # "ask"
      <4>1. ans = <<>>
        BY <3>2 DEF AnswerTo
      <4>2. MeantBy(w, m) = w
        BY <1>8, <3>2 DEF MeantBy
      <4> HIDE DEF ans
      <4> QED
        BY <1>5, <4>1, <4>2 DEF w
    <3> QED
      BY <3>1, <3>2
  <2> HIDE DEF ans
  <2>5. MeantBy(w, m) = Meaning(a.left, a.lines, r \o ans)
    BY <2>3, <2>4
  <2> QED
    BY <1>3, <2>5 DEF a, w, ans
<1>9. m.is \in {"char", "end", "ask", "sub", "nop"}
  BY SentKinds
<1> QED
  BY <1>6, <1>7, <1>8, <1>9

\* What one thing sent means is a step to fold with.
LEMMA MeantStepType == StepsOn(MeantStep, MeantStates, Sent)
<1>1. ASSUME NEW st \in MeantStates, NEW m \in Sent PROVE MeantBy(st, m) \in MeantStates
  <2> DEFINE l == st.line  ls == st.lines  r == st.replies  s == r \o AnswerTo(m)
             a == LinesAfter(Lines(l, ls), DataOf(m))
  <2>1. /\ l \in Seq(Byte) /\ ls \in Seq(Seq(Byte)) /\ r \in Seq(Seq(Byte))
        /\ st = Meaning(l, ls, r)
    BY MeaningType
  <2>2. s \in Seq(Seq(Byte))
    BY <2>1, AnswerToType
  <2> HIDE DEF l, ls, r
  <2>3. a \in LineStates /\ MeantBy(st, m) = Meaning(a.left, a.lines, s)
    BY <2>1, MeantByIs
  <2> HIDE DEF a, s
  <2> QED
    BY <2>2, <2>3, MeaningType, LinesType
<1>2. \A p \in MeantStates \X Sent : MeantBy(p[1], p[2]) \in MeantStates
  BY <1>1
<1> QED
  BY <1>2 DEF MeantStep, StepsOn

\* The step is what is meant by one thing.
LEMMA MeantStepIs ==
    ASSUME NEW st \in MeantStates, NEW m \in Sent
    PROVE  MeantStep[<<st, m>>] = MeantBy(st, m)
  BY DEF MeantStep

\* Nothing sent yet.
LEMMA NothingMeantType == NothingMeant \in MeantStates
<1>1. <<>> \in Seq(Byte) /\ <<>> \in Seq(Seq(Byte))
  OBVIOUS
<1> QED
  BY <1>1, MeaningType DEF NothingMeant

\* What was meant is the fold of what was sent.
LEMMA MeantAsFold ==
    ASSUME NEW q \in Seq(Sent)
    PROVE  Meant(q) = Fold(MeantStep, NothingMeant, q)
<1> DEFINE n == Len(q)  st == NothingMeant
           Eq(h) == h = [i \in 0 .. n |-> IF i = 0 THEN st ELSE MeantBy(h[i - 1], q[i])]
           g == CHOOSE h : Eq(h)
<1>0. st \in MeantStates
  BY NothingMeantType
<1> HIDE DEF st
<1>1. PICK f : WayOf(f, MeantStep, st, q, MeantStates)
  BY <1>0, MeantStepType, FoldWay
<1>2. n \in Nat /\ f \in [0 .. n -> MeantStates] /\ f[0] = st
      /\ \A i \in 1 .. n : f[i] = MeantStep[<<f[i - 1], q[i]>>]
  BY <1>1 DEF WayOf, Walks
<1>3. ASSUME NEW i \in 1 .. n PROVE f[i] = MeantBy(f[i - 1], q[i])
  <2>1. i - 1 \in 0 .. n /\ q[i] \in Sent
    BY <1>2
  <2>2. f[i - 1] \in MeantStates
    BY <1>2, <2>1
  <2> QED
    BY <1>2, <2>1, <2>2, MeantStepIs
<1>4. f = [i \in 0 .. n |-> IF i = 0 THEN st ELSE MeantBy(f[i - 1], q[i])]
  <2>1. \A i \in 0 .. n : f[i] = IF i = 0 THEN st ELSE MeantBy(f[i - 1], q[i])
    BY <1>2, <1>3
  <2> QED
    BY <1>2, <2>1
<1>5. Eq(g)
  <2>1. Eq(f)
    BY <1>4
  <2> HIDE DEF Eq
  <2> QED
    BY <2>1
<1>6. Meant(q) = g[n]
  BY DEF Meant, st, NothingMeant, Meaning
<1> HIDE DEF g, n
<1>7. g[0] = st /\ \A i \in 1 .. n : g[i] = MeantBy(g[i - 1], q[i])
  BY <1>2, <1>5
<1>8. StayEqual(g, f, n) /\ g[0] = f[0]
  BY <1>2, <1>3, <1>7 DEF StayEqual
<1>9. \A i \in 0 .. n : g[i] = f[i]
  BY <1>2, <1>8, IteratesAgree
<1> QED
  BY <1>1, <1>2, <1>6, <1>9 DEF WayOf, n, st

\* Who sent nothing meant nothing.
LEMMA MeantNone == Meant(<<>>) = NothingMeant
<1>1. <<>> \in Seq(Sent)
  OBVIOUS
<1>2. Fold(MeantStep, NothingMeant, <<>>) = NothingMeant
  BY NothingMeantType, MeantStepType, FoldNone
<1> QED
  BY <1>1, <1>2, MeantAsFold

\* One thing more.
LEMMA MeantAppend ==
    ASSUME NEW q \in Seq(Sent), NEW m \in Sent
    PROVE  LET w == Meant(q)
               a == LinesAfter(Lines(w.line, w.lines), DataOf(m))
           IN  /\ w \in MeantStates
               /\ a \in LineStates
               /\ Meant(Append(q, m)) = Meaning(a.left, a.lines, w.replies \o AnswerTo(m))
<1> DEFINE w == Meant(q)  l == w.line  ls == w.lines  r == w.replies
           a == LinesAfter(Lines(l, ls), DataOf(m))  p == Append(q, m)
<1>1. p \in Seq(Sent)
  OBVIOUS
<1>2. w = Fold(MeantStep, NothingMeant, q)
  BY MeantAsFold
<1>3. Fold(MeantStep, NothingMeant, p) = MeantStep[<<Fold(MeantStep, NothingMeant, q), m>>]
  BY NothingMeantType, MeantStepType, FoldAppend
<1> HIDE DEF p
<1>4. Meant(p) = Fold(MeantStep, NothingMeant, p)
  BY <1>1, MeantAsFold
<1>5. w \in MeantStates
  <2> HIDE DEF w
  <2> QED
    BY <1>2, NothingMeantType, MeantStepType, FoldType
<1> HIDE DEF w
<1>6. Meant(p) = MeantBy(w, m)
  BY <1>2, <1>3, <1>4, <1>5, MeantStepIs
<1>7. /\ l \in Seq(Byte) /\ ls \in Seq(Seq(Byte)) /\ r \in Seq(Seq(Byte))
      /\ w = Meaning(l, ls, r)
  BY <1>5, MeaningType
<1> HIDE DEF l, ls, r
<1>8. a \in LineStates /\ MeantBy(w, m) = Meaning(a.left, a.lines, r \o AnswerTo(m))
  BY <1>7, MeantByIs
<1> QED
  BY <1>5, <1>6, <1>8 DEF w, l, ls, r, p

-----------------------------------------------------------------------------
(* The telnet side.  Ahead is the parser when it has read what is on its way. *)

Ahead == ParseBytes(Bare(iac), bytes)
TelnetTyped ==
    /\ typed \in Seq(Sent) /\ bytes \in Seq(Byte) /\ iac \in ParserStates
    /\ linebuf \in Seq(Byte) /\ popped \in Seq(Seq(Byte)) /\ strayNul \in BOOLEAN
LinesAhead ==
    /\ Plain(linebuf)
    /\ NulsFollow(Ahead.data)
    /\ LinesAfter(Lines(linebuf, popped), Ahead.data) = Lines(Meant(typed).line, Meant(typed).lines)
TelnetIInv ==
    /\ TelnetTyped
    /\ CrsLead(bytes)
    /\ Ahead.mode = "data" /\ Ahead.replies = Meant(typed).replies
    /\ ~strayNul => LinesAhead

\* A read that ends in a CR leaves its LF or NUL as the next byte.
LEMMA CrsSplit ==
    ASSUME NEW q \in Seq(Byte), CrsLead(q), NEW n \in 1 .. Len(q)
    PROVE  LET c == SubSeq(q, 1, n)  r == SubSeq(q, n + 1, Len(q))
           IN  /\ c \in Seq(Byte) /\ r \in Seq(Byte) /\ q = c \o r
               /\ CrsGoOn(c) /\ CrsLead(r)
               /\ EndsInCr(c) => /\ q[n] = "CR" /\ n < Len(q)
                                 /\ r # <<>> /\ r[1] = q[n + 1] /\ r[1] \in {"LF", "NUL"}
<1> DEFINE c == SubSeq(q, 1, n)  r == SubSeq(q, n + 1, Len(q))
<1>1. /\ n \in Nat /\ Len(q) \in Nat /\ n <= Len(q) /\ n >= 1
      /\ c \in Seq(Byte) /\ Len(c) = n /\ \A i \in 1 .. n : c[i] = q[i]
  OBVIOUS
<1>2. /\ r \in Seq(Byte) /\ Len(r) = Len(q) - n
      /\ \A i \in 1 .. Len(q) - n : r[i] = q[n + i]
  OBVIOUS
<1>3. q = c \o r
  <2>1. Len(c \o r) = Len(q)
    BY <1>1, <1>2
  <2>2. \A i \in 1 .. Len(q) : (c \o r)[i] = q[i]
    BY <1>1, <1>2
  <2>3. c \o r \in Seq(Byte)
    BY <1>1, <1>2
  <2> QED
    BY <2>1, <2>2, <2>3, SeqEqual
<1> HIDE DEF c, r
<1>4. CrsGoOn(c)
  <2> SUFFICES ASSUME NEW i \in 1 .. n - 1, c[i] = "CR" PROVE c[i + 1] \in {"LF", "NUL"}
    BY <1>1 DEF CrsGoOn
  <2>1. i \in 1 .. Len(q) /\ i \in 1 .. n /\ i + 1 \in 1 .. n
    BY <1>1
  <2> QED
    BY <1>1, <2>1 DEF CrsLead
<1>5. CrsLead(r)
  <2> SUFFICES ASSUME NEW i \in 1 .. Len(q) - n, r[i] = "CR"
               PROVE  i < Len(r) /\ r[i + 1] \in {"LF", "NUL"}
    BY <1>2 DEF CrsLead
  <2>1. n + i \in 1 .. Len(q) /\ q[n + i] = "CR"
    BY <1>1, <1>2
  <2>2. n + i < Len(q) /\ q[(n + i) + 1] \in {"LF", "NUL"}
    BY <2>1 DEF CrsLead
  <2>3. i + 1 \in 1 .. Len(q) - n /\ n + (i + 1) = (n + i) + 1
    BY <1>1, <2>2
  <2> QED
    BY <1>1, <1>2, <2>2, <2>3
<1>6. ASSUME EndsInCr(c)
      PROVE  /\ q[n] = "CR" /\ n < Len(q)
             /\ r # <<>> /\ r[1] = q[n + 1] /\ r[1] \in {"LF", "NUL"}
  <2>1. q[n] = "CR"
    BY <1>1, <1>6 DEF EndsInCr
  <2>2. n < Len(q) /\ q[n + 1] \in {"LF", "NUL"}
    BY <2>1 DEF CrsLead
  <2>3. 1 \in 1 .. Len(q) - n
    BY <1>1, <2>2
  <2> QED
    BY <1>2, <2>1, <2>2, <2>3
<1> QED
  BY <1>1, <1>2, <1>3, <1>4, <1>5, <1>6 DEF c, r

\* Two reads, of which neither strays a NUL.
LEMMA NulsSplit ==
    ASSUME NEW d \in Seq(Byte), NEW e \in Seq(Byte), NulsFollow(d \o e),
           EndsInCr(d) /\ e # <<>> => e[1] # "NUL"
    PROVE  NulsFollow(d) /\ NulsFollow(e)
<1> DEFINE q == d \o e  m == Len(d)  k == Len(e)
<1>1. /\ m \in Nat /\ k \in Nat /\ Len(q) = m + k
      /\ (\A i \in 1 .. m : q[i] = d[i]) /\ (\A i \in 1 .. k : q[m + i] = e[i])
  OBVIOUS
<1>2. \A i \in 1 .. m + k : q[i] = "NUL" => i > 1 /\ q[i - 1] = "CR"
  <2> HIDE DEF q, m, k
  <2> QED
    BY <1>1 DEF NulsFollow, q
<1> HIDE DEF q
<1>3. NulsFollow(d)
  <2> SUFFICES ASSUME NEW i \in 1 .. m, d[i] = "NUL" PROVE i > 1 /\ d[i - 1] = "CR"
    BY DEF NulsFollow
  <2> HIDE DEF m, k
  <2>1. i \in 1 .. m + k /\ q[i] = "NUL"
    BY <1>1
  <2>2. i > 1 /\ q[i - 1] = "CR"
    BY <1>2, <2>1
  <2> QED
    BY <1>1, <2>2
<1>4. NulsFollow(e)
  <2> SUFFICES ASSUME NEW i \in 1 .. k, e[i] = "NUL" PROVE i > 1 /\ e[i - 1] = "CR"
    BY DEF NulsFollow
  <2>1. m + i \in 1 .. m + k /\ q[m + i] = "NUL"
    BY <1>1
  <2>2. m + i > 1 /\ q[(m + i) - 1] = "CR"
    BY <1>2, <2>1
  <2>3. CASE i > 1
    <3>1. i - 1 \in 1 .. k /\ m + (i - 1) = (m + i) - 1
      BY <1>1, <2>3
    <3> QED
      BY <1>1, <2>2, <2>3, <3>1
  <2>4. CASE i = 1
    <3>1. m \in 1 .. m /\ (m + i) - 1 = m
      BY <1>1, <2>2, <2>4
    <3>2. d[m] = "CR" /\ d # <<>>
      BY <1>1, <2>2, <3>1
    <3>3. EndsInCr(d) /\ e # <<>> /\ e[1] = "NUL"
      BY <2>4, <3>2 DEF EndsInCr
    <3> QED
      BY <3>3
  <2>5. i = 1 \/ i > 1
    OBVIOUS
  <2> QED
    BY <2>3, <2>4, <2>5
<1> QED
  BY <1>3, <1>4

\* ... and the same of two that are joined.
LEMMA NulsJoin ==
    ASSUME NEW d \in Seq(Byte), NEW e \in Seq(Byte), NulsFollow(d), NulsFollow(e)
    PROVE  NulsFollow(d \o e)
<1> DEFINE q == d \o e  m == Len(d)  k == Len(e)
<1>1. /\ m \in Nat /\ k \in Nat /\ Len(q) = m + k
      /\ (\A i \in 1 .. m : q[i] = d[i])
      /\ (\A i \in 1 .. k : q[m + i] = e[i])
  OBVIOUS
<1> HIDE DEF q
<1> SUFFICES ASSUME NEW i \in 1 .. m + k, q[i] = "NUL" PROVE i > 1 /\ q[i - 1] = "CR"
  BY <1>1 DEF NulsFollow, q
<1>2. CASE i <= m
  <2>1. i \in 1 .. m
    BY <1>1, <1>2
  <2>2. i > 1 /\ d[i - 1] = "CR"
    BY <1>1, <2>1 DEF NulsFollow
  <2> QED
    BY <1>1, <2>1, <2>2
<1>3. CASE i > m
  <2> DEFINE j == i - m
  <2>1. j \in 1 .. k /\ m + j = i
    BY <1>1, <1>3
  <2>2. e[j] = "NUL"
    BY <1>1, <2>1
  <2>3. j > 1 /\ e[j - 1] = "CR"
    BY <2>1, <2>2 DEF NulsFollow
  <2>4. j - 1 \in 1 .. k /\ m + (j - 1) = i - 1 /\ i > 1
    BY <1>1, <2>1, <2>3
  <2> QED
    BY <1>1, <2>3, <2>4
<1> QED
  BY <1>1, <1>2, <1>3

\* In the data of one thing sent a NUL has its CR before it.
LEMMA SentNuls ==
    ASSUME NEW m \in Sent
    PROVE  NulsFollow(DataOf(m))
<1>1. CASE m.is = "char"
  <2>1. m.b # "NUL" /\ DataOf(m) = <<m.b>>
    BY <1>1, SentKinds DEF DataOf
  <2> DEFINE b == m.b
  <2> HIDE DEF b
  <2>2. b # "NUL" /\ DataOf(m) = <<b>>
    BY <2>1 DEF b
  <2> QED
    BY <2>2 DEF NulsFollow
<1>2. CASE m.is = "end"
  <2>1. DataOf(m) \in {<<"CR", "LF">>, <<"CR", "NUL">>, <<"LF">>}
    BY <1>2, SentKinds DEF DataOf
  <2>2. NulsFollow(<<"CR", "LF">>) /\ NulsFollow(<<"CR", "NUL">>) /\ NulsFollow(<<"LF">>)
    BY DEF NulsFollow
  <2> QED
    BY <2>1, <2>2
<1>3. CASE m.is \notin {"char", "end"}
  BY <1>3 DEF DataOf, NulsFollow
<1> QED
  BY <1>1, <1>2, <1>3

(* One read.                                                                *)
LEMMA ReadSomeAhead ==
    ASSUME TelnetIInv, NEW n, ReadSome(n)
    PROVE  TelnetIInv'
<1> DEFINE c == SubSeq(bytes, 1, n)  r == SubSeq(bytes, n + 1, Len(bytes))
           p0 == Bare(iac)  mid == ParseBytes(p0, c)  d == mid.data
           z == ParseBytes(Bare(mid), r)  e == z.data
           buf == linebuf \o d  pop == PopLines(buf)
<1>1. TelnetTyped /\ CrsLead(bytes) /\ n \in 1 .. Len(bytes)
  BY DEF TelnetIInv, ReadSome
<1>2. /\ bytes \in Seq(Byte) /\ iac \in ParserStates /\ linebuf \in Seq(Byte)
      /\ popped \in Seq(Seq(Byte))
  BY <1>1 DEF TelnetTyped
<1>3. /\ c \in Seq(Byte) /\ r \in Seq(Byte) /\ bytes = c \o r
      /\ CrsGoOn(c) /\ CrsLead(r)
      /\ EndsInCr(c) => /\ bytes[n] = "CR" /\ n < Len(bytes)
                        /\ r # <<>> /\ r[1] = bytes[n + 1] /\ r[1] \in {"LF", "NUL"}
  BY <1>1, <1>2, CrsSplit
<1>4. p0 = [iac EXCEPT !.data = <<>>] /\ p0 \in ParserStates /\ p0.data = <<>>
  <2>1. iac = [mode |-> iac.mode, data |-> iac.data, replies |-> iac.replies]
    BY <1>2 DEF ParserStates
  <2>2. p0 \in ParserStates
    BY <1>2, BehindType, <1>1 DEF TelnetTyped
  <2> QED
    BY <2>1, <2>2 DEF Bare
<1>5. bytes' = r /\ iac' = mid /\ linebuf' = pop.left /\ popped' = popped \o pop.lines
      /\ typed' = typed
  <2> HIDE DEF r, c, pop
  <2>1. bytes' = SubSeq(bytes, n + 1, Len(bytes)) /\ typed' = typed
    BY DEF ReadSome
  <2>2. iac' = ParseBytes([iac EXCEPT !.data = <<>>], SubSeq(bytes, 1, n))
    BY DEF ReadSome
  <2> DEFINE q == ParseBytes([iac EXCEPT !.data = <<>>], SubSeq(bytes, 1, n))
  <2>3. q = mid
    BY <1>4 DEF c
  <2>4. linebuf' = PopLines(linebuf \o q.data).left
        /\ popped' = popped \o PopLines(linebuf \o q.data).lines
    BY DEF ReadSome
  <2> HIDE DEF q, mid
  <2> QED
    BY <2>1, <2>2, <2>3, <2>4 DEF r, q, pop
<1>6. strayNul' = (strayNul \/ (n < Len(bytes) /\ bytes[n] = "CR" /\ bytes[n + 1] = "NUL"))
  BY DEF ReadSome
<1> HIDE DEF c, r, p0
<1>7. mid \in ParserStates
  BY <1>3, <1>4, ParseType
<1>8. Ahead = Behind(d, z)
  <2>1. ParseBytes(p0, c \o r) = Behind(mid.data, ParseBytes(Bare(mid), r))
    BY <1>3, <1>4, ParseTwoReads
  <2> QED
    BY <1>3, <2>1 DEF Ahead, p0
<1>9. Ahead' = z
  BY <1>5 DEF Ahead
<1> HIDE DEF mid, pop
<1>10. /\ d \in Seq(Byte) /\ Bare(mid) \in ParserStates /\ Bare(mid).data = <<>>
       /\ Bare(mid).mode = mid.mode
  BY <1>7, BehindType, StateType DEF Bare
<1>11. z \in ParserStates
  <2> DEFINE u == Bare(mid)
  <2>1. u \in ParserStates
    BY <1>10
  <2> HIDE DEF u
  <2>2. ParseBytes(u, r) \in ParserStates
    BY <1>3, <2>1, ParseType
  <2> QED
    BY <2>2 DEF u
<1> DEFINE T == ParseBytes(Bare(mid), r)
<1> HIDE DEF z, d
<1>12. e \in Seq(Byte) /\ Ahead.mode = z.mode /\ Ahead.replies = z.replies
       /\ Ahead.data = d \o e
  BY <1>8, <1>11, StateType DEF Behind
<1> HIDE DEF e
<1>13. buf \in Seq(Byte)
  BY <1>2, <1>10
<1> HIDE DEF buf
<1>14. pop \in LineStates
  BY <1>13, PopLinesType DEF pop
<1>15. TelnetTyped'
  <2>1. pop.left \in Seq(Byte) /\ pop.lines \in Seq(Seq(Byte))
    BY <1>14, LinesType
  <2>2. popped \o pop.lines \in Seq(Seq(Byte))
    BY <1>2, <2>1
  <2>3. strayNul' \in BOOLEAN /\ typed \in Seq(Sent)
    BY <1>1, <1>6 DEF TelnetTyped
  <2> QED
    BY <1>3, <1>5, <1>7, <2>1, <2>2, <2>3 DEF TelnetTyped
<1>16. ASSUME ~strayNul' PROVE LinesAhead'
  <2>1. ~strayNul /\ ~(n < Len(bytes) /\ bytes[n] = "CR" /\ bytes[n + 1] = "NUL")
    BY <1>6, <1>16
  <2>2. LinesAhead
    BY <2>1 DEF TelnetIInv
  <2>3. NulsFollow(d \o e) /\ Plain(linebuf)
    BY <1>12, <2>2 DEF LinesAhead
  <2>4. EndsInCr(d) /\ e # <<>> => e[1] # "NUL"
    <3> SUFFICES ASSUME EndsInCr(d) PROVE e[1] # "NUL"
      OBVIOUS
    <3>1. EndsInCr(c) /\ mid.mode = "data"
      BY <1>3, <1>4, CrAtEnd DEF d, mid
    <3>2. r # <<>> /\ r[1] = "LF"
      BY <1>3, <2>1, <3>1
    <3> DEFINE u == Bare(mid)
    <3>3. u \in ParserStates /\ u.data = <<>> /\ u.mode = "data"
      BY <1>10, <3>1
    <3> HIDE DEF u
    <3>4. ParseBytes(u, r).data # <<>> /\ ParseBytes(u, r).data[1] = r[1]
      BY <1>3, <3>2, <3>3, FirstDatum
    <3> QED
      BY <3>2, <3>4 DEF u, e, z
  <2>5. NulsFollow(d) /\ NulsFollow(e)
    BY <1>10, <1>12, <2>3, <2>4, NulsSplit
  <2>6. NulsFollow(linebuf)
    BY <2>3 DEF Plain, NulsFollow
  <2>7. NulsFollow(buf)
    BY <1>2, <1>10, <2>5, <2>6, NulsJoin DEF buf
  <2>8. Plain(pop.left) /\ LinesAfter(Lines(<<>>, popped), buf) = Lines(pop.left, popped \o pop.lines)
    BY <1>2, <1>13, <2>7, PopLinesRead DEF pop
  <2> DEFINE s0 == Lines(<<>>, popped)  s1 == Lines(linebuf, popped)
             s2 == Lines(pop.left, popped \o pop.lines)
  <2>9. s0 \in LineStates /\ s1 \in LineStates
    <3>1. <<>> \in Seq(Byte)
      OBVIOUS
    <3> QED
      BY <1>2, <3>1, LinesType
  <2>10. LinesAfter(s0, linebuf) = s1
    <3>1. LinesAfter(Lines(<<>>, popped), linebuf) = Lines(<<>> \o linebuf, popped)
      <4> DEFINE o == <<>>
      <4>1. o \in Seq(Byte)
        OBVIOUS
      <4> HIDE DEF o
      <4>2. LinesAfter(Lines(o, popped), linebuf) = Lines(o \o linebuf, popped)
        BY <1>2, <2>3, <4>1, AfterPlain
      <4> QED
        BY <4>2 DEF o
    <3>2. <<>> \o linebuf = linebuf
      BY <1>2
    <3> QED
      BY <3>1, <3>2
  <2> HIDE DEF s0, s1, s2
  <2>11. LinesAfter(s0, linebuf \o d) = LinesAfter(LinesAfter(s0, linebuf), d)
    BY <1>2, <1>10, <2>9, LinesAfterConcat
  <2>12. LinesAfter(s1, d \o e) = LinesAfter(LinesAfter(s1, d), e)
    BY <1>10, <1>12, <2>9, LinesAfterConcat
  <2>13. LinesAfter(s1, d) = s2
    BY <2>8, <2>10, <2>11 DEF buf, s0, s2
  <2>14. LinesAfter(s2, e) = Lines(Meant(typed).line, Meant(typed).lines)
    BY <1>12, <2>2, <2>12, <2>13 DEF LinesAhead, s1
  <2>15. Ahead'.data = e
    BY <1>9 DEF e
  <2> QED
    BY <1>5, <2>5, <2>8, <2>14, <2>15 DEF LinesAhead, s2
<1>17. Ahead'.mode = "data" /\ Ahead'.replies = Meant(typed)'.replies
  BY <1>5, <1>9, <1>12 DEF TelnetIInv
<1>18. CrsLead(bytes)'
  BY <1>3, <1>5
<1> QED
  BY <1>15, <1>16, <1>17, <1>18 DEF TelnetIInv

(* One thing typed.                                                         *)
LEMMA TypeInAhead ==
    ASSUME TelnetIInv, NEW m \in Sent, TypeIn(m)
    PROVE  TelnetIInv'
<1> DEFINE o == OnTheLine(m)  x == DataOf(m)  p0 == Bare(iac)  t == Append(typed, m)
           w == Meant(typed)  a == LinesAfter(Lines(w.line, w.lines), x)
           r == Ahead.replies  d == Ahead.data
<1>1. TelnetTyped /\ CrsLead(bytes) /\ Ahead.mode = "data" /\ r = w.replies
  BY DEF TelnetIInv
<1>2. /\ bytes \in Seq(Byte) /\ iac \in ParserStates /\ linebuf \in Seq(Byte)
      /\ popped \in Seq(Seq(Byte)) /\ typed \in Seq(Sent)
  BY <1>1 DEF TelnetTyped
<1>3. o \in Seq(Byte) /\ x \in Seq(Byte) /\ t \in Seq(Sent)
  BY <1>2, SentBytes
<1>4. typed' = t /\ bytes' = bytes \o o
      /\ iac' = iac /\ linebuf' = linebuf /\ popped' = popped /\ strayNul' = strayNul
  BY DEF TypeIn
<1>5. p0 \in ParserStates
  <2> DEFINE nil == <<>>
  <2>1. nil \in Seq(Byte)
    OBVIOUS
  <2> HIDE DEF nil
  <2> QED
    BY <1>2, <2>1, BehindType
<1>6. w \in MeantStates /\ a \in LineStates
      /\ Meant(t) = Meaning(a.left, a.lines, w.replies \o AnswerTo(m))
  BY <1>2, MeantAppend
<1> HIDE DEF o, x, p0, t, a
<1>7. Ahead = ParseBytes(p0, bytes)
  BY DEF Ahead, p0
<1>8. Ahead \in ParserStates
  BY <1>2, <1>5, <1>7, ParseType
<1>9. d \in Seq(Byte) /\ r \in Seq(Seq(Byte))
  BY <1>8, StateType
<1>10. Bare(Ahead) = Idle("data", r)
  BY <1>1 DEF Bare, Idle, State
<1> DEFINE ra == r \o AnswerTo(m)
<1>11. ParseBytes(Idle("data", r), o) = State("data", x, ra)
  BY <1>9, SentParsed DEF o, x
<1>12. Ahead' = ParseBytes(p0, bytes \o o)
  BY <1>4 DEF Ahead, p0
<1>13. ParseBytes(p0, bytes \o o) = Behind(d, State("data", x, ra))
  <2> HIDE DEF ra, d, r
  <2>1. ParseBytes(p0, bytes \o o) = Behind(ParseBytes(p0, bytes).data,
                                           ParseBytes(Bare(ParseBytes(p0, bytes)), o))
    BY <1>2, <1>3, <1>5, ParseTwoReads
  <2> QED
    BY <1>7, <1>10, <1>11, <2>1 DEF d
<1> DEFINE nx == Ahead'
<1>14. nx.mode = "data" /\ nx.data = d \o x /\ nx.replies = ra
  <2> HIDE DEF ra, d, r
  <2> QED
    BY <1>12, <1>13 DEF Behind, State
<1>15. Meant(typed)' = Meant(t)
  BY <1>4
<1> HIDE DEF w, d, r, nx
<1>16. Meant(t).replies = ra /\ Lines(Meant(t).line, Meant(t).lines) = a
  <2>1. Meant(t).replies = w.replies \o AnswerTo(m)
    BY <1>6 DEF Meaning
  <2>2. Meant(t).line = a.left /\ Meant(t).lines = a.lines
    BY <1>6 DEF Meaning
  <2>3. Lines(a.left, a.lines) = a
    BY <1>6, LinesType
  <2> QED
    BY <1>1, <2>1, <2>2, <2>3
<1> HIDE DEF ra
<1>17. TelnetTyped'
  <2>1. bytes \o o \in Seq(Byte)
    BY <1>2, <1>3
  <2> QED
    BY <1>1, <1>3, <1>4, <2>1 DEF TelnetTyped
<1>18. CrsLead(bytes)'
  <2>1. CrsLead(bytes \o o)
    BY <1>1, <1>2, <1>3, SentCrs, CrsConcat DEF o
  <2> QED
    BY <1>4, <2>1
<1>19. ASSUME ~strayNul' PROVE LinesAhead'
  <2>1. LinesAhead
    BY <1>4, <1>19 DEF TelnetIInv
  <2> DEFINE s1 == Lines(linebuf, popped)
  <2>2. s1 \in LineStates
    BY <1>2, LinesType
  <2>3. LinesAfter(s1, d) = Lines(w.line, w.lines) /\ NulsFollow(d) /\ Plain(linebuf)
    BY <2>1 DEF LinesAhead, d, w
  <2> HIDE DEF s1
  <2>4. LinesAfter(s1, d \o x) = LinesAfter(LinesAfter(s1, d), x)
    BY <1>3, <1>9, <2>2, LinesAfterConcat
  <2>5. LinesAfter(s1, d \o x) = a
    BY <2>3, <2>4 DEF a
  <2>6. NulsFollow(d \o x)
    BY <1>3, <1>9, <2>3, SentNuls, NulsJoin DEF x
  <2>7. LinesAfter(Lines(linebuf, popped)', nx.data) = Lines(Meant(t).line, Meant(t).lines)
    BY <1>4, <1>14, <1>16, <2>5 DEF s1
  <2>8. Plain(linebuf)' /\ NulsFollow(nx.data)
    BY <1>4, <1>14, <2>3, <2>6
  <2> QED
    BY <1>15, <2>7, <2>8 DEF LinesAhead, nx
<1>20. Ahead'.mode = "data" /\ Ahead'.replies = Meant(typed)'.replies
  BY <1>14, <1>15, <1>16 DEF nx
<1> QED
  BY <1>17, <1>18, <1>19, <1>20 DEF TelnetIInv

\* Nothing sent, nothing read.
LEMMA TelnetStarts == CodecInit => TelnetIInv
<1> SUFFICES ASSUME CodecInit PROVE TelnetIInv
  OBVIOUS
<1> DEFINE st == State("data", <<>>, <<>>)
<1>1. /\ typed = <<>> /\ bytes = <<>> /\ linebuf = <<>> /\ popped = <<>> /\ strayNul = FALSE
      /\ iac = st
  BY DEF CodecInit, State
<1>2. <<>> \in Seq(Byte) /\ <<>> \in Seq(Seq(Byte)) /\ <<>> \in Seq(Sent) /\ "data" \in Mode
  BY DEF Mode
<1>3. st \in ParserStates /\ Bare(st) = st
  <2>1. st \in ParserStates
    BY <1>2, StateType
  <2> QED
    BY <2>1 DEF State, Bare
<1>4. Ahead = st
  <2> HIDE DEF st
  <2> QED
    BY <1>1, <1>3, ParseNone DEF Ahead
<1>5. Ahead.mode = "data" /\ Ahead.data = <<>> /\ Ahead.replies = <<>>
  BY <1>4 DEF State
<1>6. Meant(typed).line = <<>> /\ Meant(typed).lines = <<>> /\ Meant(typed).replies = <<>>
  BY <1>1, MeantNone DEF NothingMeant, Meaning
<1>7. TelnetTyped
  <2> HIDE DEF st
  <2> QED
    BY <1>1, <1>2, <1>3 DEF TelnetTyped
<1>8. CrsLead(bytes)
  BY <1>1 DEF CrsLead
<1>9. LinesAhead
  <2> DEFINE s == Lines(<<>>, <<>>)
  <2>1. s \in LineStates
    BY <1>2, LinesType
  <2> HIDE DEF s
  <2>2. LinesAfter(s, <<>>) = s
    BY <2>1, LinesAfterNone
  <2>3. Plain(linebuf) /\ NulsFollow(Ahead.data)
    BY <1>1, <1>5 DEF Plain, NulsFollow
  <2> QED
    BY <1>1, <1>5, <1>6, <2>2, <2>3 DEF LinesAhead, s
<1> QED
  BY <1>5, <1>6, <1>7, <1>8, <1>9 DEF TelnetIInv

(* Once all is read, the lines are those that were typed.                   *)
LEMMA TelnetRead == TelnetIInv => LinesAreTyped
<1> SUFFICES ASSUME TelnetIInv, bytes = <<>>
             PROVE  /\ iac.mode = "data" /\ iac.replies = Meant(typed).replies
                    /\ ~strayNul => popped = Meant(typed).lines /\ linebuf = Meant(typed).line
  BY DEF LinesAreTyped
<1>1. TelnetTyped /\ Ahead.mode = "data" /\ Ahead.replies = Meant(typed).replies
  BY DEF TelnetIInv
<1>2. Ahead = Bare(iac)
  <2>1. Bare(iac) \in ParserStates
    <3> DEFINE nil == <<>>
    <3>1. nil \in Seq(Byte) /\ iac \in ParserStates
      BY <1>1 DEF TelnetTyped
    <3> HIDE DEF nil
    <3> QED
      BY <3>1, BehindType
  <2> DEFINE u == Bare(iac)
  <2> HIDE DEF u
  <2>2. ParseBytes(u, <<>>) = u
    BY <2>1, ParseNone DEF u
  <2> QED
    BY <2>2 DEF Ahead, u
<1>3. iac.mode = "data" /\ iac.replies = Meant(typed).replies /\ Ahead.data = <<>>
  BY <1>1, <1>2 DEF Bare
<1>4. ASSUME ~strayNul PROVE popped = Meant(typed).lines /\ linebuf = Meant(typed).line
  <2> DEFINE s == Lines(linebuf, popped)
  <2>1. s \in LineStates
    BY <1>1, LinesType DEF TelnetTyped
  <2> HIDE DEF s
  <2>2. LinesAfter(s, <<>>) = s
    BY <2>1, LinesAfterNone
  <2>3. s = Lines(Meant(typed).line, Meant(typed).lines)
    BY <1>3, <1>4, <2>2 DEF TelnetIInv, LinesAhead, s
  <2>4. s.left = linebuf /\ s.lines = popped
    BY DEF s, Lines
  <2>5. s.left = Meant(typed).line /\ s.lines = Meant(typed).lines
    BY <2>3 DEF Lines
  <2> QED
    BY <2>4, <2>5
<1> QED
  BY <1>3, <1>4

-----------------------------------------------------------------------------
(* The frames.                                                              *)

Short == {p \in Seq(Nat) : Len(p) <= 3}
FrameOf(p) == <<Len(p) \div 2, Len(p) % 2>> \o p

\* What is read from each frame on, if nothing is lost.
FromEach(rest, w) ==
    /\ rest \in [0 .. Len(w) -> Seq(Nat)] /\ rest[Len(w)] = <<>>
    /\ \A k \in 0 .. Len(w) - 1 : rest[k] = FrameOf(w[k + 1]) \o rest[k + 1]
\* What is still to be read of it, and what the end of the connection lost.
OnItsWay(rest, lost) ==
    /\ lost \in Seq(Nat) /\ rest[Len(frames)] = (frameBuf \o pipe) \o lost
    /\ pipeOpen => lost = <<>>
FrameTyped ==
    /\ written \in Seq(Short) /\ pipe \in Seq(Nat) /\ frameBuf \in Seq(Nat)
    /\ frames \in Seq(Seq(Nat)) /\ pipeOpen \in BOOLEAN
ReadInOrder ==
    /\ Len(frames) <= Len(written)
    /\ \A i \in 1 .. Len(frames) : frames[i] = written[i]
LimitHeld ==
    frameEnd = "too large" =>
        /\ Len(frames) < Len(written)
        /\ Len(written[Len(frames) + 1]) > FrameLimit
NothingMissing == \E rest : FromEach(rest, written) /\ \E lost : OnItsWay(rest, lost)
FrameIInv == FrameTyped /\ ReadInOrder /\ LimitHeld /\ NothingMissing

\* One sequence behind another.
IsJoint(c, a, b, S) ==
    /\ c \in Seq(S) /\ Len(a) \in Nat /\ Len(b) \in Nat
    /\ Len(c) = Len(a) + Len(b)
    /\ \A i \in 1 .. Len(a) : c[i] = a[i]
    /\ \A i \in 1 .. Len(b) : c[Len(a) + i] = b[i]

\* Two sequences joined, element by element.
LEMMA Joint ==
    ASSUME NEW S, NEW a \in Seq(S), NEW b \in Seq(S)
    PROVE  IsJoint(a \o b, a, b, S)
<1> DEFINE c == a \o b
<1>1. Len(a) \in Nat /\ Len(b) \in Nat
  BY LenProperties
<1>2. /\ c \in Seq(S) /\ Len(c) = Len(a) + Len(b)
      /\ \A i \in 1 .. Len(a) + Len(b) : c[i] = IF i <= Len(a) THEN a[i] ELSE b[i - Len(a)]
  BY ConcatProperties
<1> HIDE DEF c
<1> DEFINE m == Len(a)  n == Len(b)
<1> HIDE DEF m, n
<1>3. \A i \in 1 .. m : c[i] = a[i]
  BY <1>1, <1>2 DEF m, n
<1>4. ASSUME NEW i \in 1 .. n PROVE c[m + i] = b[i]
  <2> DEFINE j == m + i
  <2>1. j \in 1 .. m + n /\ ~ j <= m /\ j - m = i
    BY <1>1 DEF m, n
  <2> HIDE DEF j
  <2>2. c[j] = b[j - m]
    BY <1>2, <2>1 DEF m, n
  <2> QED
    BY <2>1, <2>2 DEF j
<1> QED
  BY <1>1, <1>2, <1>3, <1>4 DEF IsJoint, c, m, n

\* A frame is the two digits of its length and its payload.
LEMMA FrameOfIs ==
    ASSUME NEW p \in Short
    PROVE  /\ p \in Seq(Nat) /\ Len(p) \in 0 .. 3 /\ FrameOf(p) \in Seq(Nat)
           /\ Len(FrameOf(p)) = 2 + Len(p)
           /\ 2 * FrameOf(p)[1] + FrameOf(p)[2] = Len(p)
           /\ \A i \in 1 .. Len(p) : FrameOf(p)[i + 2] = p[i]
<1>0. p \in Seq(Nat) /\ Len(p) <= 3
  BY DEF Short
<1>1. p \in Seq(Nat) /\ Len(p) \in 0 .. 3
  <2>1. Len(p) \in Nat
    BY <1>0, LenProperties
  <2> DEFINE l == Len(p)
  <2> HIDE DEF l
  <2>2. l \in Nat /\ l <= 3
    BY <1>0, <2>1 DEF l
  <2>3. l \in 0 .. 3
    BY <2>2
  <2> QED
    BY <1>0, <2>3 DEF l
<1> DEFINE n == Len(p)  a == n \div 2  b == n % 2  h == <<a, b>>
<1>2. a \in Nat /\ b \in Nat /\ 2 * a + b = n
  <2>1. n = 0 \/ n = 1 \/ n = 2 \/ n = 3
    BY <1>1
  <2>2. 0 \div 2 = 0 /\ 1 \div 2 = 0 /\ 2 \div 2 = 1 /\ 3 \div 2 = 1
        /\ 0 % 2 = 0 /\ 1 % 2 = 1 /\ 2 % 2 = 0 /\ 3 % 2 = 1
    OBVIOUS
  <2> QED
    BY <2>1, <2>2
<1> HIDE DEF a, b
<1>3. h \in Seq(Nat) /\ Len(h) = 2 /\ h[1] = a /\ h[2] = b
  BY <1>2
<1> HIDE DEF h
<1>4. /\ h \o p \in Seq(Nat) /\ Len(h \o p) = 2 + n
      /\ (h \o p)[1] = a /\ (h \o p)[2] = b
      /\ \A i \in 1 .. n : (h \o p)[i + 2] = p[i]
  <2> DEFINE q == h \o p
  <2>1. /\ q \in Seq(Nat) /\ Len(q) = Len(h) + Len(p)
        /\ (\A i \in 1 .. Len(h) : q[i] = h[i])
        /\ (\A i \in 1 .. Len(p) : q[Len(h) + i] = p[i])
    <3>1. IsJoint(h \o p, h, p, Nat)
      BY <1>1, <1>3, Joint
    <3> QED
      BY <3>1 DEF IsJoint
  <2> HIDE DEF q
  <2>2. q[1] = h[1] /\ q[2] = h[2]
    BY <1>3, <2>1
  <2>3. \A i \in 1 .. n : 2 + i = i + 2
    BY <1>1
  <2> QED
    BY <1>3, <2>1, <2>2, <2>3 DEF q
<1>5. FrameOf(p) = h \o p
  BY DEF FrameOf, h, a, b
<1> QED
  BY <1>1, <1>2, <1>4, <1>5

\* What is whole at the head of a sequence is taken whole.
IsTaken(f, r, b, c) ==
    /\ \A i \in 1 .. Len(b) : i <= Len(f) => b[i] = f[i]
    /\ Len(f) <= Len(b) => SubSeq(b, Len(f) + 1, Len(b)) \o c = r

\* The longer of two beginnings of a sequence starts with the shorter.
LEMMA TakenWhole ==
    ASSUME NEW S, NEW f \in Seq(S), NEW r \in Seq(S), NEW b \in Seq(S), NEW c \in Seq(S),
           f \o r = b \o c
    PROVE  IsTaken(f, r, b, c)
<1> DEFINE q == f \o r  m == Len(f)  n == Len(b)  s == SubSeq(b, m + 1, n)
           k == Len(r)  l == Len(c)
<1>1. /\ m \in Nat /\ k \in Nat /\ Len(q) = m + k
      /\ (\A i \in 1 .. m : q[i] = f[i]) /\ (\A i \in 1 .. k : q[m + i] = r[i])
  <2>1. IsJoint(f \o r, f, r, S)
    BY Joint
  <2> HIDE DEF q
  <2> QED
    BY <2>1 DEF IsJoint, q
<1>2. /\ n \in Nat /\ l \in Nat /\ Len(q) = n + l
      /\ (\A i \in 1 .. n : q[i] = b[i]) /\ (\A i \in 1 .. l : q[n + i] = c[i])
  <2> DEFINE z == b \o c
  <2>1. /\ n \in Nat /\ l \in Nat /\ Len(z) = n + l
        /\ (\A i \in 1 .. n : z[i] = b[i]) /\ (\A i \in 1 .. l : z[n + i] = c[i])
    <3>1. IsJoint(b \o c, b, c, S)
      BY Joint
    <3> HIDE DEF z
    <3> QED
      BY <3>1 DEF IsJoint, z
  <2>2. q = z
    OBVIOUS
  <2> HIDE DEF z, q
  <2> QED
    BY <2>1, <2>2
<1> HIDE DEF q
<1>5. \A i \in 1 .. n : i <= m => b[i] = f[i]
  <2> HIDE DEF m, n, k, l
  <2> QED
    BY <1>1, <1>2
<1>6. ASSUME m <= n PROVE s \o c = r
  <2>1. /\ s \in Seq(S) /\ Len(s) = n - m
        /\ \A i \in 1 .. n - m : s[i] = b[m + i]
    BY <1>1, <1>2, <1>6
  <2> HIDE DEF s
  <2> DEFINE z == s \o c
  <2>2. /\ z \in Seq(S) /\ Len(z) = Len(s) + l
        /\ (\A i \in 1 .. Len(s) : z[i] = s[i])
        /\ (\A i \in 1 .. l : z[Len(s) + i] = c[i])
    <3>1. IsJoint(s \o c, s, c, S)
      BY <2>1, Joint
    <3> HIDE DEF z
    <3> QED
      BY <3>1 DEF IsJoint, z
  <2> HIDE DEF z
  <2>3. Len(z) = k
    BY <1>1, <1>2, <1>6, <2>1, <2>2
  <2>4. ASSUME NEW i \in 1 .. k PROVE z[i] = r[i]
    <3> HIDE DEF m, n, k, l
    <3>1. r[i] = q[m + i]
      BY <1>1
    <3>2. CASE i <= n - m
      <4>1. i \in 1 .. n - m /\ m + i \in 1 .. n
        BY <1>1, <1>2, <1>6, <3>2
      <4> QED
        BY <1>2, <2>1, <2>2, <3>1, <4>1
    <3>3. CASE i > n - m
      <4> DEFINE j == i - (n - m)
      <4>1. j \in 1 .. l /\ (n - m) + j = i /\ n + j = m + i
        BY <1>1, <1>2, <1>6, <3>3
      <4> HIDE DEF j
      <4>2. z[(n - m) + j] = c[j] /\ q[n + j] = c[j]
        BY <1>2, <2>1, <2>2, <4>1
      <4> QED
        BY <3>1, <4>1, <4>2
    <3>4. i <= n - m \/ i > n - m
      BY <1>1, <1>2
    <3> QED
      BY <3>2, <3>3, <3>4
  <2>5. z = r
    BY <2>2, <2>3, <2>4, SeqEqual
  <2> QED
    BY <2>5 DEF z
<1> QED
  BY <1>5, <1>6 DEF IsTaken

\* Three sequences behind one another.
IsChain(a, b, c) == (a \o b) \o c = a \o (b \o c)

\* Joining is associative.
LEMMA Chain ==
    ASSUME NEW S, NEW a \in Seq(S), NEW b \in Seq(S), NEW c \in Seq(S)
    PROVE  IsChain(a, b, c)
  BY ConcatAssociative DEF IsChain

\* A sequence cut in two is the two joined.
LEMMA Cut ==
    ASSUME NEW S, NEW a \in Seq(S), NEW n \in 0 .. Len(a)
    PROVE  LET p == SubSeq(a, 1, n)  q == SubSeq(a, n + 1, Len(a))
           IN  p \in Seq(S) /\ q \in Seq(S) /\ p \o q = a
<1> DEFINE p == SubSeq(a, 1, n)  q == SubSeq(a, n + 1, Len(a))  z == p \o q
<1>1. /\ n \in Nat /\ Len(a) \in Nat /\ n <= Len(a) /\ p \in Seq(S) /\ Len(p) = n
      /\ \A i \in 1 .. n : p[i] = a[i]
  OBVIOUS
<1>2. /\ q \in Seq(S) /\ Len(q) = Len(a) - n
      /\ \A i \in 1 .. Len(a) - n : q[i] = a[n + i]
  OBVIOUS
<1> HIDE DEF p, q
<1>3. /\ z \in Seq(S) /\ Len(z) = Len(p) + Len(q)
      /\ (\A i \in 1 .. Len(p) : z[i] = p[i])
      /\ (\A i \in 1 .. Len(q) : z[Len(p) + i] = q[i])
  <2>1. IsJoint(p \o q, p, q, S)
    BY <1>1, <1>2, Joint
  <2> HIDE DEF z
  <2> QED
    BY <2>1 DEF IsJoint, z
<1> HIDE DEF z
<1>4. ASSUME NEW i \in 1 .. Len(a) PROVE z[i] = a[i]
  <2>1. CASE i <= n
    <3>1. i \in 1 .. n
      BY <1>1, <2>1
    <3> QED
      BY <1>1, <1>3, <3>1
  <2>2. CASE i > n
    <3> DEFINE j == i - n
    <3>1. j \in 1 .. Len(a) - n /\ n + j = i
      BY <1>1, <2>2
    <3> HIDE DEF j
    <3>2. z[n + j] = q[j] /\ q[j] = a[n + j]
      BY <1>1, <1>2, <1>3, <3>1
    <3> QED
      BY <3>1, <3>2
  <2> QED
    BY <1>1, <2>1, <2>2
<1>5. Len(z) = Len(a)
  BY <1>1, <1>2, <1>3
<1>6. z = a
  BY <1>3, <1>4, <1>5, SeqEqual
<1> QED
  BY <1>1, <1>2, <1>6 DEF p, q, z

\* What the frames of a link are made of.
LEMMA FrameTypes ==
    FrameTyped =>
        /\ Len(written) \in Nat /\ Len(frames) \in Nat
        /\ \A i \in 1 .. Len(written) : written[i] \in Short
        /\ frameBuf \o pipe \in Seq(Nat)
<1> SUFFICES ASSUME FrameTyped
             PROVE  /\ Len(written) \in Nat /\ Len(frames) \in Nat
                    /\ \A i \in 1 .. Len(written) : written[i] \in Short
                    /\ frameBuf \o pipe \in Seq(Nat)
  OBVIOUS
<1>1. written \in Seq(Short) /\ frames \in Seq(Seq(Nat))
      /\ frameBuf \in Seq(Nat) /\ pipe \in Seq(Nat)
  BY DEF FrameTyped
<1>2. Len(written) \in Nat /\ Len(frames) \in Nat
  BY <1>1, LenProperties
<1>3. \A i \in 1 .. Len(written) : written[i] \in Short
  BY <1>1, ElementOfSeq
<1>4. frameBuf \o pipe \in Seq(Nat)
  BY <1>1, ConcatProperties
<1> QED
  BY <1>2, <1>3, <1>4

(* The header that was read is that of the next frame.                      *)
NextFrame(f, r) ==
    /\ Len(frames) < Len(written) /\ written[Len(frames) + 1] \in Short
    /\ f = FrameOf(written[Len(frames) + 1]) /\ r \in Seq(Nat)
    /\ FrameLen = Len(written[Len(frames) + 1])

\* A header at the front of the buffer is that of the next frame written.
LEMMA HeaderIsNext ==
    ASSUME FrameTyped, ReadInOrder, NEW rest, FromEach(rest, written),
           NEW lost, OnItsWay(rest, lost), HasHeader
    PROVE  LET f == FrameOf(written[Len(frames) + 1])  r == rest[Len(frames) + 1]
           IN  NextFrame(f, r) /\ f \o r = frameBuf \o (pipe \o lost)
<1> DEFINE j == Len(frames)  n == Len(written)  w == written[j + 1]
           f == FrameOf(w)  r == rest[j + 1]  c == pipe \o lost  ahead == frameBuf \o pipe
<1>1. /\ j \in Nat /\ n \in Nat /\ j <= n
      /\ \A i \in 1 .. n : written[i] \in Short
  BY FrameTypes DEF ReadInOrder
<1>2. frameBuf \in Seq(Nat) /\ pipe \in Seq(Nat) /\ lost \in Seq(Nat)
  BY DEF FrameTyped, OnItsWay
<1>3. rest[j] = frameBuf \o c /\ c \in Seq(Nat)
  <2>1. rest[j] = ahead \o lost
    BY DEF OnItsWay
  <2>2. (frameBuf \o pipe) \o lost = frameBuf \o (pipe \o lost)
    <3>1. IsChain(frameBuf, pipe, lost)
      BY <1>2, Chain
    <3> QED
      BY <3>1 DEF IsChain
  <2>3. pipe \o lost \in Seq(Nat)
    BY <1>2, ConcatProperties
  <2> QED
    BY <2>1, <2>2, <2>3
<1> HIDE DEF c
<1>4. IsJoint(frameBuf \o c, frameBuf, c, Nat)
  BY <1>2, <1>3, Joint
<1>5. Len(frameBuf) \in Nat /\ Len(frameBuf) >= 2
  <2>1. Len(frameBuf) \in Nat
    BY <1>4 DEF IsJoint
  <2> QED
    BY <2>1 DEF HasHeader
<1>6. j < n
  <2>1. CASE j = n
    <3>1. rest[j] = <<>>
      BY <2>1 DEF FromEach
    <3>2. Len(frameBuf \o c) = Len(frameBuf) + Len(c) /\ Len(c) \in Nat
      BY <1>4 DEF IsJoint
    <3>3. Len(frameBuf \o c) = 0
      BY <1>3, <3>1
    <3> QED
      BY <1>5, <3>2, <3>3
  <2> QED
    BY <1>1, <2>1
<1>7. w \in Short
  <2>1. j + 1 \in 1 .. n
    BY <1>1, <1>6
  <2> QED
    BY <1>1, <2>1
<1>8. rest[j] = f \o r /\ r \in Seq(Nat)
  <2>1. j \in 0 .. n - 1 /\ j + 1 \in 0 .. n
    BY <1>1, <1>6
  <2> QED
    BY <2>1 DEF FromEach
<1> HIDE DEF r, w, j, n
<1>9. /\ f \in Seq(Nat) /\ Len(w) \in 0 .. 3 /\ Len(f) = 2 + Len(w)
      /\ 2 * f[1] + f[2] = Len(w)
  BY <1>7, FrameOfIs
<1> HIDE DEF f
<1>10. f \o r = frameBuf \o c
  BY <1>3, <1>8
<1>11. \A i \in 1 .. Len(frameBuf) : i <= Len(f) => frameBuf[i] = f[i]
  <2>1. IsTaken(f, r, frameBuf, c)
    BY <1>2, <1>3, <1>8, <1>9, <1>10, TakenWhole
  <2> QED
    BY <2>1 DEF IsTaken
<1>12. 1 \in 1 .. Len(frameBuf) /\ 2 \in 1 .. Len(frameBuf) /\ 1 <= Len(f) /\ 2 <= Len(f)
  BY <1>5, <1>9
<1>13. frameBuf[1] = f[1] /\ frameBuf[2] = f[2]
  BY <1>11, <1>12
<1>14. FrameLen = Len(w)
  BY <1>9, <1>13 DEF FrameLen
<1> QED
  BY <1>6, <1>7, <1>8, <1>10, <1>14 DEF NextFrame, f, r, w, j, n, c

(* A frame that is whole is taken as it was written.                        *)
LEMMA TakeFrameInOrder ==
    ASSUME FrameIInv, TakeFrame
    PROVE  FrameIInv'
<1> DEFINE j == Len(frames)  w == written[j + 1]  f == FrameOf(w)
           b == SubSeq(frameBuf, 3 + FrameLen, Len(frameBuf))
           p == SubSeq(frameBuf, 3, 2 + FrameLen)
<1>1. FrameTyped /\ ReadInOrder /\ NothingMissing
  BY DEF FrameIInv
<1>2. PICK rest : FromEach(rest, written) /\ \E lost : OnItsWay(rest, lost)
  BY <1>1 DEF NothingMissing
<1>3. PICK lost : OnItsWay(rest, lost)
  BY <1>2
<1> DEFINE r == rest[j + 1]  c == pipe \o lost
<1>4. HasHeader /\ FrameLen <= FrameLimit /\ Len(frameBuf) >= 2 + FrameLen
  BY DEF TakeFrame, HasFrame
<1>5. NextFrame(f, r) /\ f \o r = frameBuf \o c
  BY <1>1, <1>2, <1>3, <1>4, HeaderIsNext
<1>6. /\ frames' = Append(frames, p) /\ frameBuf' = b
      /\ UNCHANGED <<written, pipe, pipeOpen, frameEnd>> /\ frameEnd = "no"
  BY DEF TakeFrame
<1>7. /\ j \in Nat /\ Len(written) \in Nat /\ j < Len(written) /\ w \in Short
      /\ FrameLen = Len(w) /\ r \in Seq(Nat)
  BY <1>1, <1>5, FrameTypes DEF NextFrame
<1>8. frameBuf \in Seq(Nat) /\ pipe \in Seq(Nat) /\ lost \in Seq(Nat) /\ frames \in Seq(Seq(Nat))
  BY <1>1, <1>3 DEF FrameTyped, OnItsWay
<1> HIDE DEF j, r
<1>9. /\ f \in Seq(Nat) /\ w \in Seq(Nat) /\ Len(w) \in 0 .. 3 /\ Len(f) = 2 + Len(w)
      /\ \A i \in 1 .. Len(w) : f[i + 2] = w[i]
  BY <1>7, FrameOfIs
<1> HIDE DEF w, f
<1>10. c \in Seq(Nat)
  BY <1>8, ConcatProperties
<1> HIDE DEF c
<1>11. /\ \A i \in 1 .. Len(frameBuf) : i <= Len(f) => frameBuf[i] = f[i]
       /\ Len(f) <= Len(frameBuf) => SubSeq(frameBuf, Len(f) + 1, Len(frameBuf)) \o c = r
  <2>1. f \o r = frameBuf \o c
    BY <1>5
  <2>2. IsTaken(f, r, frameBuf, c)
    BY <1>7, <1>8, <1>9, <1>10, <2>1, TakenWhole
  <2> QED
    BY <2>2 DEF IsTaken
<1> DEFINE l == Len(frameBuf)  m == Len(w)
<1>12. l \in Nat /\ m \in Nat /\ l >= 2 + m /\ Len(f) = 2 + m /\ FrameLen = m
  <2>1. l \in Nat
    BY <1>8, LenProperties
  <2> QED
    BY <1>4, <1>7, <1>9, <2>1
<1>13. b \o c = r
  <2>1. Len(f) <= l /\ Len(f) + 1 = 3 + m
    BY <1>12
  <2>2. SubSeq(frameBuf, Len(f) + 1, l) \o c = r
    BY <1>11, <2>1
  <2> QED
    BY <1>12, <2>1, <2>2
<1>14. b \in Seq(Nat)
  <2>1. \A i \in 3 + m .. l : i \in 1 .. l
    BY <1>12
  <2> HIDE DEF m
  <2>2. SubSeq(frameBuf, 3 + m, l) \in Seq(Nat)
    BY <1>8, <1>12, <2>1, SubSeqProperties DEF l
  <2> QED
    BY <1>12, <2>2
<1>15. p = w
  <2> DEFINE z == SubSeq(frameBuf, 3, 2 + m)
  <2>1. /\ z \in Seq(Nat) /\ Len(z) = m
        /\ \A i \in 1 .. m : z[i] = frameBuf[i + 2]
    <3> DEFINE s == frameBuf
    <3> HIDE DEF m
    <3>1. \A i \in 3 .. 2 + m : i \in 1 .. Len(s)
      BY <1>12
    <3>2. s \in Seq(Nat) /\ m \in Nat
      BY <1>8, <1>12
    <3> HIDE DEF s
    <3>3. /\ SubSeq(s, 3, 2 + m) \in Seq(Nat)
          /\ Len(SubSeq(s, 3, 2 + m)) = IF 3 <= 2 + m THEN (2 + m) - 3 + 1 ELSE 0
          /\ \A i \in 1 .. (2 + m) - 3 + 1 : SubSeq(s, 3, 2 + m)[i] = s[3 + i - 1]
      <4> DEFINE k == 2 + m
      <4>1. k \in Int /\ 3 \in Int /\ \A i \in 3 .. k : i \in 1 .. Len(s)
        BY <3>1, <3>2
      <4> HIDE DEF k
      <4> QED
        BY <3>2, <4>1, SubSeqProperties DEF k
    <3> DEFINE y == SubSeq(s, 3, 2 + m)
    <3>4. y = z
      BY DEF s
    <3> HIDE DEF y, z
    <3>5. \A i \in 1 .. m : i \in 1 .. (2 + m) - 3 + 1 /\ 3 + i - 1 = i + 2
      BY <3>2
    <3>6. Len(y) = m
      BY <3>2, <3>3 DEF y
    <3> QED
      BY <3>3, <3>4, <3>5, <3>6 DEF y, s
  <2>2. \A i \in 1 .. m : frameBuf[i + 2] = f[i + 2]
    <3> TAKE i \in 1 .. m
    <3>1. i + 2 \in 1 .. l /\ i + 2 <= Len(f)
      BY <1>12
    <3> QED
      BY <1>11, <3>1
  <2> HIDE DEF z
  <2>3. \A i \in 1 .. Len(w) : z[i] = w[i]
    BY <1>9, <2>1, <2>2
  <2>4. z = w
    BY <1>9, <2>1, <2>3, SeqEqual
  <2> QED
    BY <1>12, <2>4 DEF z
<1> HIDE DEF b, p, l, m
<1>16. /\ frames' \in Seq(Seq(Nat)) /\ Len(frames') = j + 1 /\ frames'[j + 1] = w
       /\ \A i \in 1 .. j : frames'[i] = frames[i]
  <2>1. frames' = Append(frames, w)
    BY <1>6, <1>15
  <2>2. frames \in Seq(Seq(Nat)) /\ w \in Seq(Nat)
    BY <1>8, <1>9
  <2> QED
    BY <2>1, <2>2, AppendProperties DEF j
<1>17. FrameTyped'
  BY <1>1, <1>6, <1>14, <1>16 DEF FrameTyped
<1>18. ReadInOrder'
  <2>1. ASSUME NEW i \in 1 .. j + 1 PROVE frames'[i] = written[i]
    <3>1. CASE i \in 1 .. j
      BY <1>1, <1>16, <3>1 DEF ReadInOrder, j
    <3>2. CASE i = j + 1
      BY <1>16, <3>2 DEF w
    <3> QED
      BY <1>7, <3>1, <3>2
  <2> QED
    BY <1>6, <1>7, <1>16, <2>1 DEF ReadInOrder
<1>19. LimitHeld'
  BY <1>6 DEF LimitHeld
<1>20. OnItsWay(rest, lost)'
  <2>1. (b \o pipe) \o lost = b \o (pipe \o lost)
    <3>1. IsChain(b, pipe, lost)
      BY <1>8, <1>14, Chain
    <3> QED
      BY <3>1 DEF IsChain
  <2>2. rest[Len(frames')] = (b \o pipe) \o lost
    BY <1>13, <1>16, <2>1 DEF r, c
  <2>3. lost \in Seq(Nat) /\ (pipeOpen => lost = <<>>)
    BY <1>3 DEF OnItsWay
  <2> QED
    BY <1>6, <2>2, <2>3 DEF OnItsWay
<1>21. NothingMissing'
  <2>1. FromEach(rest, written)'
    BY <1>2, <1>6
  <2> QED
    BY <1>20, <2>1 DEF NothingMissing
<1> QED
  BY <1>17, <1>18, <1>19, <1>21 DEF FrameIInv

\* One step further in a range.
LEMMA OneFurther == \A a, b \in Nat : a < b => a + 1 \in 1 .. b /\ a < b + 1
  OBVIOUS

(* A frame written comes after all that was.                                *)
LEMMA WriteFrameInOrder ==
    ASSUME FrameIInv, NEW n \in 0 .. 3, WriteFrame(n)
    PROVE  FrameIInv'
<1> DEFINE k == Len(written)  p == Payload(k + 1, n)  h == <<n \div 2, n % 2>>
           f == FrameOf(p)  j == Len(frames)
<1>1. FrameTyped /\ ReadInOrder /\ NothingMissing /\ LimitHeld
  BY DEF FrameIInv
<1>2. /\ pipeOpen /\ written' = Append(written, p) /\ pipe' = pipe \o h \o p
      /\ UNCHANGED <<pipeOpen, frameBuf, frames, frameEnd>>
  BY DEF WriteFrame
<1>3. k \in Nat /\ j \in Nat /\ j <= k
  BY <1>1, FrameTypes DEF ReadInOrder
<1>4. p \in Short /\ Len(p) = n
  <2>1. (k + 1) % 2 \in Nat
    BY <1>3
  <2>2. p = [i \in 1 .. n |-> (k + 1) % 2]
    BY DEF Payload
  <2> DEFINE e == (k + 1) % 2
  <2> HIDE DEF e, p
  <2>3. p \in Seq(Nat) /\ Len(p) = n
    BY <2>1, <2>2 DEF e
  <2> QED
    BY <2>3 DEF Short
<1>5. f = h \o p /\ h \in Seq(Nat)
  <2>1. n \div 2 \in Nat /\ n % 2 \in Nat
    OBVIOUS
  <2> HIDE DEF p
  <2>2. f = h \o p
    BY <1>4 DEF FrameOf
  <2> DEFINE a == n \div 2  b == n % 2
  <2> HIDE DEF a, b
  <2>3. <<a, b>> \in Seq(Nat)
    BY <2>1 DEF a, b
  <2> QED
    BY <2>2, <2>3 DEF a, b
<1> HIDE DEF p, h
<1>6. f \in Seq(Nat) /\ p \in Seq(Nat)
  BY <1>4, FrameOfIs
<1> HIDE DEF f
<1>7. PICK rest : FromEach(rest, written) /\ \E lost : OnItsWay(rest, lost)
  BY <1>1 DEF NothingMissing
<1>8. OnItsWay(rest, <<>>)
  <2>1. PICK lost : OnItsWay(rest, lost)
    BY <1>7
  <2>2. lost = <<>>
    BY <1>2, <2>1 DEF OnItsWay
  <2> QED
    BY <2>1, <2>2
<1> DEFINE more == [i \in 0 .. k + 1 |-> IF i = k + 1 THEN <<>> ELSE rest[i] \o f]
           w == Append(written, p)
<1>9. /\ w \in Seq(Short) /\ Len(w) = k + 1 /\ w[k + 1] = p
      /\ \A i \in 1 .. k : w[i] = written[i]
  <2>1. written \in Seq(Short)
    BY <1>1 DEF FrameTyped
  <2> QED
    BY <1>4, <2>1, AppendProperties
<1>10. /\ rest \in [0 .. k -> Seq(Nat)] /\ rest[k] = <<>>
       /\ \A i \in 0 .. k - 1 : rest[i] = FrameOf(written[i + 1]) \o rest[i + 1]
  BY <1>7 DEF FromEach
<1>11. /\ more[k + 1] = <<>> /\ k + 1 \in 0 .. k + 1
       /\ \A i \in 0 .. k : more[i] = rest[i] \o f /\ rest[i] \in Seq(Nat)
  BY <1>3, <1>10
<1>12. more \in [0 .. k + 1 -> Seq(Nat)]
  <2>1. ASSUME NEW i \in 0 .. k PROVE rest[i] \o f \in Seq(Nat)
    BY <1>6, <1>11, ConcatProperties
  <2>2. <<>> \in Seq(Nat)
    OBVIOUS
  <2>3. \A i \in 0 .. k + 1 : i = k + 1 \/ i \in 0 .. k
    BY <1>3
  <2>4. \A i \in 0 .. k + 1 : (IF i = k + 1 THEN <<>> ELSE rest[i] \o f) \in Seq(Nat)
    BY <2>1, <2>2, <2>3
  <2> QED
    BY <2>4
<1> HIDE DEF more, w, k
<1>13. ASSUME NEW i \in 0 .. k PROVE more[i] = FrameOf(w[i + 1]) \o more[i + 1]
  <2>1. CASE i = k
    <3>0. k \in 0 .. k
      BY <1>3
    <3>1. more[k] = rest[k] \o f /\ rest[k] = <<>>
      BY <3>0, <1>10, <1>11
    <3>2. <<>> \o f = f /\ f \o <<>> = f
      BY <1>6, ConcatEmptySeq
    <3>3. FrameOf(w[i + 1]) = f /\ more[i + 1] = <<>>
      BY <1>9, <1>11, <2>1 DEF f
    <3> QED
      BY <2>1, <3>1, <3>2, <3>3
  <2>2. CASE i # k
    <3>1. i \in 0 .. k - 1 /\ i + 1 \in 0 .. k /\ i + 1 \in 1 .. k
      BY <1>3, <2>2
    <3> DEFINE g == FrameOf(written[i + 1])  r == rest[i + 1]
    <3>2. r \in Seq(Nat) /\ rest[i] = g \o r /\ more[i] = rest[i] \o f
          /\ more[i + 1] = r \o f
      BY <1>10, <1>11, <3>1
    <3>3. g \in Seq(Nat)
      <4>1. written[i + 1] \in Short
        BY <1>1, <3>1, FrameTypes DEF k
      <4> QED
        BY <4>1, FrameOfIs
    <3>4. w[i + 1] = written[i + 1]
      BY <1>9, <3>1
    <3> HIDE DEF g, r
    <3>5. IsChain(g, r, f)
      BY <1>6, <3>2, <3>3, Chain
    <3> QED
      BY <3>2, <3>4, <3>5 DEF IsChain, g
  <2> QED
    BY <2>1, <2>2
<1>14. FromEach(more, w)
  <2>1. (k + 1) - 1 = k
    BY <1>3
  <2> QED
    BY <1>9, <1>11, <1>12, <1>13, <2>1 DEF FromEach
<1>15. pipe' = pipe \o f /\ pipe' \in Seq(Nat)
  <2>1. pipe \in Seq(Nat)
    BY <1>1 DEF FrameTyped
  <2>2. IsChain(pipe, h, p)
    BY <1>5, <1>6, <2>1, Chain
  <2>3. pipe' = pipe \o f
    BY <1>2, <1>5, <2>2 DEF IsChain
  <2>4. pipe \o f \in Seq(Nat)
    BY <1>6, <2>1, ConcatProperties
  <2> QED
    BY <2>3, <2>4
<1>16. more[j] = (frameBuf \o (pipe \o f)) \o <<>>
  <2> DEFINE ahead == frameBuf \o pipe  nil == <<>>
  <2>1. frameBuf \in Seq(Nat) /\ pipe \in Seq(Nat) /\ ahead \in Seq(Nat)
    BY <1>1, FrameTypes DEF FrameTyped
  <2>2. rest[j] = ahead \o <<>>
    BY <1>8 DEF OnItsWay, j
  <2>3. IsChain(frameBuf, pipe, f)
    BY <1>6, <2>1, Chain
  <2> DEFINE u == frameBuf \o (pipe \o f)
  <2>4. ahead \o f = u
    BY <2>3 DEF IsChain
  <2> HIDE DEF ahead
  <2>5. ahead \o <<>> = ahead /\ ahead \o f \in Seq(Nat)
    BY <1>6, <2>1, ConcatEmptySeq, ConcatProperties
  <2> HIDE DEF u
  <2>6. u \o <<>> = u
    BY <2>4, <2>5, ConcatEmptySeq
  <2>7. j \in 0 .. k
    BY <1>3
  <2>8. more[j] = u
    BY <1>11, <2>2, <2>4, <2>5, <2>7
  <2> QED
    BY <2>6, <2>8 DEF u
<1>17. PICK g : g = more
  OBVIOUS
<1>18. NothingMissing'
  <2> DEFINE nil == <<>>
  <2>1. nil \in Seq(Nat)
    OBVIOUS
  <2>2. g[Len(frames')] = (frameBuf' \o pipe') \o nil
    BY <1>2, <1>15, <1>16, <1>17 DEF j
  <2>3. OnItsWay(g, nil)'
    <3> HIDE DEF nil
    <3>1. nil' = nil
      BY DEF nil
    <3> QED
      BY <2>1, <2>2, <3>1 DEF OnItsWay, nil
  <2>4. FromEach(g, w) /\ written' = w
    BY <1>2, <1>14, <1>17 DEF w
  <2>5. FromEach(g, written)'
    BY <2>4
  <2> QED
    BY <2>3, <2>5 DEF NothingMissing
<1>19. FrameTyped'
  BY <1>1, <1>2, <1>9, <1>15 DEF FrameTyped, w
<1>20. ReadInOrder'
  <2>1. ASSUME NEW i \in 1 .. j PROVE frames[i] = w[i]
    <3>1. i \in 1 .. k
      BY <1>3
    <3> QED
      BY <1>1, <1>9, <3>1 DEF ReadInOrder, j
  <2>2. written' = w /\ frames' = frames /\ j <= k + 1
    BY <1>2, <1>3 DEF w
  <2> QED
    BY <1>9, <2>1, <2>2 DEF ReadInOrder, j
<1>21. LimitHeld'
  <2> SUFFICES ASSUME frameEnd = "too large"
               PROVE  j < k + 1 /\ Len(w[j + 1]) > FrameLimit
    BY <1>2, <1>9 DEF LimitHeld, w, j
  <2>1. j < k /\ Len(written[j + 1]) > FrameLimit
    BY <1>1 DEF LimitHeld, j, k
  <2>2. j < k
    BY <2>1
  <2>3. j + 1 \in 1 .. k /\ j < k + 1
    <3> HIDE DEF j
    <3> QED
      BY <1>3, <2>2, OneFurther
  <2>4. w[j + 1] = written[j + 1]
    BY <1>9, <2>3
  <2> QED
    BY <2>1, <2>3, <2>4
<1> QED
  BY <1>18, <1>19, <1>20, <1>21 DEF FrameIInv

(* The end of the connection loses what comes last.                         *)
LEMMA PipeCutInOrder ==
    ASSUME FrameIInv, PipeCut
    PROVE  FrameIInv'
<1>1. FrameTyped /\ ReadInOrder /\ NothingMissing /\ LimitHeld
  BY DEF FrameIInv
<1>2. /\ pipeOpen /\ pipeOpen' = FALSE
      /\ UNCHANGED <<written, frameBuf, frames, frameEnd>>
  BY DEF PipeCut
<1>3. PICK n \in 0 .. Len(pipe) : pipe' = SubSeq(pipe, 1, n)
  BY DEF PipeCut
<1> DEFINE p == SubSeq(pipe, 1, n)  lost == SubSeq(pipe, n + 1, Len(pipe))
<1>4. frameBuf \in Seq(Nat) /\ pipe \in Seq(Nat)
  BY <1>1 DEF FrameTyped
<1>5. p \in Seq(Nat) /\ lost \in Seq(Nat) /\ p \o lost = pipe
  BY <1>4, Cut
<1>6. PICK rest : FromEach(rest, written) /\ \E l : OnItsWay(rest, l)
  BY <1>1 DEF NothingMissing
<1> HIDE DEF p, lost
<1>7. rest[Len(frames)] = (frameBuf \o p) \o lost
  <2>1. PICK l : OnItsWay(rest, l)
    BY <1>6
  <2> DEFINE ahead == frameBuf \o pipe
  <2>2. rest[Len(frames)] = ahead \o <<>>
    BY <1>2, <2>1 DEF OnItsWay
  <2>3. IsChain(frameBuf, p, lost)
    BY <1>4, <1>5, Chain
  <2>4. ahead \in Seq(Nat)
    BY <1>1, FrameTypes
  <2>5. ahead = (frameBuf \o p) \o lost
    BY <1>5, <2>3 DEF IsChain
  <2> HIDE DEF ahead
  <2>6. ahead \o <<>> = ahead
    BY <2>4, ConcatEmptySeq
  <2> QED
    BY <2>2, <2>5, <2>6
<1>8. PICK l : l = lost
  OBVIOUS
<1>9. NothingMissing'
  <2>1. FromEach(rest, written)'
    BY <1>2, <1>6
  <2>2. rest[Len(frames')] = (frameBuf' \o pipe') \o l /\ l \in Seq(Nat) /\ ~pipeOpen'
    BY <1>2, <1>3, <1>5, <1>7, <1>8 DEF p
  <2>3. OnItsWay(rest, l)'
    BY <2>2 DEF OnItsWay
  <2> QED
    BY <2>1, <2>3 DEF NothingMissing
<1>10. FrameTyped'
  BY <1>1, <1>2, <1>3, <1>5 DEF FrameTyped, p
<1>11. ReadInOrder' /\ LimitHeld'
  BY <1>1, <1>2 DEF ReadInOrder, LimitHeld
<1> QED
  BY <1>9, <1>10, <1>11 DEF FrameIInv

(* What is refused is the next frame, and is beyond the limit.              *)
LEMMA RefuseFrameInOrder ==
    ASSUME FrameIInv, RefuseFrame
    PROVE  FrameIInv'
<1>1. FrameTyped /\ ReadInOrder /\ NothingMissing
  BY DEF FrameIInv
<1>2. /\ HasHeader /\ FrameLen > FrameLimit
      /\ UNCHANGED <<written, pipe, pipeOpen, frameBuf, frames>>
  BY DEF RefuseFrame
<1>3. PICK rest : FromEach(rest, written) /\ \E l : OnItsWay(rest, l)
  BY <1>1 DEF NothingMissing
<1>4. PICK lost : OnItsWay(rest, lost)
  BY <1>3
<1>5. NextFrame(FrameOf(written[Len(frames) + 1]), rest[Len(frames) + 1])
  BY <1>1, <1>2, <1>3, <1>4, HeaderIsNext
<1>6. LimitHeld'
  BY <1>2, <1>5 DEF NextFrame, LimitHeld
<1>7. FrameTyped' /\ ReadInOrder' /\ NothingMissing'
  BY <1>1, <1>2 DEF FrameTyped, ReadInOrder, NothingMissing, OnItsWay
<1> QED
  BY <1>6, <1>7 DEF FrameIInv

(* A read only moves bytes from the pipe to the buffer.                     *)
LEMMA ReadBufInOrder ==
    ASSUME FrameIInv, ReadBuf
    PROVE  FrameIInv'
<1>1. FrameTyped /\ ReadInOrder /\ NothingMissing
  BY DEF FrameIInv
<1>2. frameEnd = "no" /\ UNCHANGED <<written, pipeOpen, frames>>
  BY DEF ReadBuf
<1>3. frameEnd' # "too large"
  BY DEF ReadBuf
<1>4. ReadInOrder' /\ LimitHeld'
  BY <1>1, <1>2, <1>3 DEF ReadInOrder, LimitHeld
<1>5. pipe \in Seq(Nat) /\ frameBuf \in Seq(Nat)
  BY <1>1 DEF FrameTyped
<1>6. pipe' \in Seq(Nat) /\ frameBuf' \in Seq(Nat) /\ frameBuf' \o pipe' = frameBuf \o pipe
  <2>1. CASE \E n \in 1 .. Len(pipe) : /\ frameBuf' = frameBuf \o SubSeq(pipe, 1, n)
                                       /\ pipe' = SubSeq(pipe, n + 1, Len(pipe))
    <3>1. PICK n \in 1 .. Len(pipe) : /\ frameBuf' = frameBuf \o SubSeq(pipe, 1, n)
                                      /\ pipe' = SubSeq(pipe, n + 1, Len(pipe))
      BY <2>1
    <3> DEFINE p == SubSeq(pipe, 1, n)  q == SubSeq(pipe, n + 1, Len(pipe))
    <3>2. n \in 0 .. Len(pipe)
      OBVIOUS
    <3>3. p \in Seq(Nat) /\ q \in Seq(Nat) /\ p \o q = pipe
      BY <1>5, <3>2, Cut
    <3> HIDE DEF p, q
    <3>4. IsChain(frameBuf, p, q) /\ frameBuf \o p \in Seq(Nat)
      BY <1>5, <3>3, Chain, ConcatProperties
    <3> QED
      BY <3>1, <3>3, <3>4 DEF IsChain, p, q
  <2>2. CASE UNCHANGED <<pipe, frameBuf>>
    BY <1>5, <2>2
  <2> QED
    BY <2>1, <2>2 DEF ReadBuf
<1>7. FrameTyped'
  BY <1>1, <1>2, <1>6 DEF FrameTyped
<1>8. NothingMissing'
  BY <1>1, <1>2, <1>6 DEF NothingMissing, OnItsWay
<1> QED
  BY <1>4, <1>7, <1>8 DEF FrameIInv

\* Nothing written, nothing read.
LEMMA FramesStart == CodecInit => FrameIInv
<1> SUFFICES ASSUME CodecInit PROVE FrameIInv
  OBVIOUS
<1>1. /\ written = <<>> /\ pipe = <<>> /\ pipeOpen = TRUE /\ frameBuf = <<>>
      /\ frames = <<>> /\ frameEnd = "no"
  BY DEF CodecInit
<1>2. <<>> \in Seq(Short) /\ <<>> \in Seq(Nat) /\ <<>> \in Seq(Seq(Nat)) /\ Len(<<>>) = 0
  OBVIOUS
<1>3. FrameTyped /\ ReadInOrder /\ LimitHeld
  BY <1>1, <1>2 DEF FrameTyped, ReadInOrder, LimitHeld
<1> DEFINE nil == <<>>  rest == [i \in 0 .. 0 |-> nil]
<1>4. nil \in Seq(Nat) /\ nil \o nil = nil
  BY <1>2
<1> HIDE DEF nil
<1>5. rest \in [0 .. 0 -> Seq(Nat)] /\ rest[0] = nil
  BY <1>4
<1> HIDE DEF rest
<1>6. FromEach(rest, written)
  BY <1>1, <1>2, <1>5 DEF FromEach, nil
<1>7. OnItsWay(rest, nil)
  <2>1. (nil \o nil) \o nil = nil
    BY <1>4
  <2>2. frameBuf = nil /\ pipe = nil /\ Len(frames) = 0
    BY <1>1, <1>2 DEF nil
  <2>3. rest[Len(frames)] = (frameBuf \o pipe) \o nil
    BY <1>5, <2>1, <2>2
  <2> QED
    BY <1>4, <2>3 DEF OnItsWay, nil
<1> QED
  BY <1>3, <1>6, <1>7 DEF FrameIInv, NothingMissing

(* So frames are read whole and in order, and only a long one is refused.   *)
LEMMA FramesRead == FrameIInv => FramesArriveWhole
<1> SUFFICES ASSUME FrameIInv PROVE IsPrefix(frames, written)
  BY DEF FrameIInv, LimitHeld, FramesArriveWhole
<1>1. FrameTyped /\ ReadInOrder
  BY DEF FrameIInv
<1> DEFINE n == Len(frames)  p == SubSeq(written, 1, n)  q == SubSeq(frames, 1, n)
<1>2. n \in Nat /\ Len(written) \in Nat /\ n <= Len(written)
      /\ frames \in Seq(Seq(Nat)) /\ written \in Seq(Short)
  BY <1>1, FrameTypes DEF ReadInOrder, FrameTyped
<1>3. /\ p \in Seq(Short) /\ Len(p) = n /\ \A i \in 1 .. n : p[i] = written[i]
  BY <1>2
<1>4. q = frames
  BY <1>2
<1> HIDE DEF p, q
<1>5. \A i \in 1 .. n : p[i] = frames[i]
  BY <1>1, <1>3 DEF ReadInOrder
<1>6. p = frames
  <2>1. p = [i \in 1 .. n |-> p[i]] /\ frames = [i \in 1 .. n |-> frames[i]]
    BY <1>2, <1>3, LenProperties
  <2>2. [i \in 1 .. n |-> p[i]] = [i \in 1 .. n |-> frames[i]]
    BY <1>5
  <2> QED
    BY <2>1, <2>2
<1>7. SubSeq(frames, 1, n) = SubSeq(written, 1, n)
  BY <1>4, <1>6 DEF p, q
<1> QED
  BY <1>2, <1>7 DEF IsPrefix

-----------------------------------------------------------------------------
(* The body of an ATTACH.                                                   *)

Item == Nat \cup (BOOLEAN \X BOOLEAN)
Reader(e, at, parts) == [of |-> e, at |-> at, ok |-> TRUE, parts |-> parts]
\* The rest of the body from a place on.
Stands(e, at, rest) == \E a \in Seq(Item) : e = a \o rest /\ at = Len(a) + 1

\* A part with its length before it.
LEMMA CountedIs ==
    ASSUME NEW p \in Seq(Item)
    PROVE  /\ Counted(p) \in Seq(Item) /\ Len(p) \in Nat
           /\ Len(Counted(p)) = 1 + Len(p) /\ Counted(p)[1] = Len(p)
           /\ \A i \in 1 .. Len(p) : Counted(p)[1 + i] = p[i]
<1> DEFINE n == Len(p)  h == <<n>>
<1>1. n \in Nat
  BY LenProperties
<1>2. n \in Item
  BY <1>1 DEF Item
<1> HIDE DEF n
<1>3. h \in Seq(Item) /\ Len(h) = 1 /\ h[1] = n
  BY <1>2
<1>4. Counted(p) = h \o p
  BY DEF Counted, n
<1> HIDE DEF h
<1>5. IsJoint(h \o p, h, p, Item)
  BY <1>3, Joint
<1> DEFINE c == h \o p
<1>6. /\ c \in Seq(Item) /\ Len(c) = Len(h) + Len(p)
      /\ (\A i \in 1 .. Len(h) : c[i] = h[i])
      /\ (\A i \in 1 .. Len(p) : c[Len(h) + i] = p[i])
  <2> HIDE DEF c
  <2> QED
    BY <1>5 DEF IsJoint, c
<1> HIDE DEF c
<1>7. c[1] = h[1]
  BY <1>3, <1>6
<1> QED
  BY <1>1, <1>3, <1>4, <1>6, <1>7 DEF n, c

\* A part is read, and the rest stands behind it.
LEMMA PartRead ==
    ASSUME NEW e, NEW at, NEW p \in Seq(Item), NEW b \in Seq(Item),
           Stands(e, at, Counted(p) \o b), NEW parts
    PROVE  /\ NextPart(Reader(e, at, parts)) = Reader(e, at + 1 + Len(p), Append(parts, p))
           /\ Stands(e, at + 1 + Len(p), b)
<1> DEFINE c == Counted(p)  n == Len(p)  st == Reader(e, at, parts)  last == at + n
<1>1. PICK a \in Seq(Item) : e = a \o (c \o b) /\ at = Len(a) + 1
  BY DEF Stands
<1>2. /\ c \in Seq(Item) /\ n \in Nat /\ Len(c) = 1 + n /\ c[1] = n
      /\ \A i \in 1 .. n : c[1 + i] = p[i]
  BY CountedIs
<1> HIDE DEF c
<1> DEFINE z == a \o c
<1>3. IsJoint(z, a, c, Item)
  BY <1>2, Joint
<1>4. e = z \o b
  <2>1. IsChain(a, c, b)
    BY <1>2, Chain
  <2> QED
    BY <1>1, <2>1 DEF IsChain
<1> HIDE DEF z
<1>5. z \in Seq(Item)
  BY <1>3 DEF IsJoint
<1>6. IsJoint(e, z, b, Item)
  <2>1. IsJoint(z \o b, z, b, Item)
    BY <1>5, Joint
  <2> QED
    BY <1>4, <2>1
<1> DEFINE m == Len(a)
<1>7. /\ m \in Nat /\ Len(z) = m + 1 + n
      /\ z[m + 1] = n /\ \A i \in 1 .. n : z[m + 1 + i] = p[i]
  <2>1. m \in Nat /\ Len(z) = m + Len(c)
        /\ \A i \in 1 .. Len(c) : z[m + i] = c[i]
    BY <1>3 DEF IsJoint
  <2> HIDE DEF m, n
  <2>2. 1 \in 1 .. Len(c) /\ Len(z) = m + 1 + n
    BY <1>2, <2>1
  <2>3. ASSUME NEW i \in 1 .. n PROVE z[m + 1 + i] = p[i]
    <3>1. 1 + i \in 1 .. Len(c) /\ m + (1 + i) = m + 1 + i
      BY <1>2, <2>1
    <3> QED
      BY <1>2, <2>1, <3>1
  <2> QED
    BY <1>2, <2>1, <2>2, <2>3
<1>8. /\ Len(e) \in Nat /\ m + 1 + n <= Len(e) /\ Len(b) \in Nat
      /\ e[m + 1] = n /\ \A i \in 1 .. n : e[m + 1 + i] = p[i]
  <2>1. Len(e) = Len(z) + Len(b) /\ Len(b) \in Nat /\ \A i \in 1 .. Len(z) : e[i] = z[i]
    BY <1>6 DEF IsJoint
  <2> HIDE DEF m, n
  <2>2. m + 1 \in 1 .. Len(z) /\ \A i \in 1 .. n : m + 1 + i \in 1 .. Len(z)
    BY <1>2, <1>7
  <2> QED
    BY <1>2, <1>7, <2>1, <2>2
<1>9. at = m + 1 /\ e \in Seq(Item)
  BY <1>1, <1>6 DEF IsJoint
<1> HIDE DEF m, n
<1>10. SubSeq(e, at + 1, last) = p
  <2> DEFINE i0 == at + 1  s == SubSeq(e, i0, last)
  <2>1. i0 \in Int /\ last \in Int /\ last - i0 + 1 = n
    BY <1>2, <1>7, <1>9
  <2>2. \A i \in i0 .. last : i \in 1 .. Len(e)
    BY <1>2, <1>7, <1>8, <1>9
  <2>3. \A i \in i0 .. last : e[i] \in Item
    BY <1>9, <2>2, ElementOfSeq
  <2> HIDE DEF i0, last
  <2>4. /\ SubSeq(e, i0, last) \in Seq(Item)
        /\ Len(SubSeq(e, i0, last)) = IF i0 <= last THEN last - i0 + 1 ELSE 0
        /\ \A i \in 1 .. last - i0 + 1 : SubSeq(e, i0, last)[i] = e[i0 + i - 1]
    BY <2>1, <2>3, SubSeqProperties
  <2> HIDE DEF s
  <2>5. s \in Seq(Item) /\ Len(s) = n /\ \A i \in 1 .. n : s[i] = e[i0 + i - 1]
    <3>1. Len(s) = IF i0 <= last THEN n ELSE 0
      BY <2>1, <2>4 DEF s
    <3>2. i0 <= last \/ n = 0
      BY <1>2, <2>1
    <3> QED
      BY <2>1, <2>4, <3>1, <3>2 DEF s
  <2>6. ASSUME NEW i \in 1 .. n PROVE s[i] = p[i]
    <3>1. i0 + i - 1 = m + 1 + i
      BY <1>2, <1>7, <1>9 DEF i0
    <3> QED
      BY <1>8, <2>5, <3>1
  <2>7. s = p
    BY <2>5, <2>6, SeqEqual DEF n
  <2> QED
    BY <2>7 DEF s, i0
<1>11. NextPart(st) = Reader(e, last + 1, Append(parts, p))
  <2> DEFINE x == SubSeq(e, at + 1, last)  up == last + 1
  <2>1. st = [of |-> e, at |-> at, ok |-> TRUE, parts |-> parts]
    BY DEF Reader
  <2>2. ~(at > Len(e)) /\ ~(last > Len(e)) /\ e[at] = n
    BY <1>2, <1>7, <1>8, <1>9
  <2> HIDE DEF st
  <2>3. NextPart(st) = [st EXCEPT !.at = up, !.parts = Append(@, x)]
    BY <2>1, <2>2 DEF NextPart
  <2>4. Append(parts, x) = Append(parts, p)
    BY <1>10
  <2> DEFINE ps == Append(parts, x)
  <2> HIDE DEF x, up
  <2>5. NextPart(st) = [st EXCEPT !.at = up, !.parts = ps]
    BY <2>1, <2>3
  <2> HIDE DEF ps
  <2>6. NextPart(st) = [of |-> e, at |-> up, ok |-> TRUE, parts |-> ps]
    BY <2>1, <2>5
  <2>7. ps = Append(parts, p)
    BY <2>4 DEF ps
  <2> QED
    BY <2>6, <2>7 DEF Reader, up
<1>12. last + 1 = at + 1 + n /\ at + 1 + n = Len(z) + 1
  BY <1>2, <1>7, <1>9
<1>13. Stands(e, at + 1 + n, b)
  BY <1>4, <1>5, <1>12 DEF Stands
<1> QED
  BY <1>11, <1>12, <1>13 DEF n, st

\* What stands last is the rest of the body.
LEMMA RestRead ==
    ASSUME NEW e, NEW at, NEW b \in Seq(Item), Stands(e, at, b)
    PROVE  SubSeq(e, at, Len(e)) = b
<1>1. PICK a \in Seq(Item) : e = a \o b /\ at = Len(a) + 1
  BY DEF Stands
<1>2. IsJoint(a \o b, a, b, Item)
  BY Joint
<1>3. /\ e \in Seq(Item) /\ Len(a) \in Nat /\ Len(b) \in Nat /\ Len(e) = Len(a) + Len(b)
      /\ \A i \in 1 .. Len(b) : e[Len(a) + i] = b[i]
  BY <1>1, <1>2 DEF IsJoint
<1> DEFINE n == Len(e)  s == SubSeq(e, at, n)
<1>4. at \in Int /\ n \in Int /\ \A i \in at .. n : i \in 1 .. n
  BY <1>1, <1>3
<1>5. \A i \in at .. n : e[i] \in Item
  BY <1>3, <1>4, ElementOfSeq
<1> HIDE DEF n
<1>6. /\ SubSeq(e, at, n) \in Seq(Item)
      /\ Len(SubSeq(e, at, n)) = IF at <= n THEN n - at + 1 ELSE 0
      /\ \A i \in 1 .. n - at + 1 : SubSeq(e, at, n)[i] = e[at + i - 1]
  BY <1>4, <1>5, SubSeqProperties
<1>7. n - at + 1 = Len(b) /\ (at <= n \/ Len(b) = 0)
  BY <1>1, <1>3, <1>4 DEF n
<1> HIDE DEF s
<1>8. s \in Seq(Item) /\ Len(s) = Len(b)
  BY <1>6, <1>7 DEF s
<1>9. ASSUME NEW i \in 1 .. Len(b) PROVE s[i] = b[i]
  <2>1. at + i - 1 = Len(a) + i
    BY <1>1, <1>3
  <2> QED
    BY <1>3, <1>6, <1>7, <2>1 DEF s
<1>10. s = b
  BY <1>8, <1>9, SeqEqual
<1> QED
  BY <1>10 DEF s, n

\* n parts on from st there is u.
Leads(st, n, u) ==
    \E g : /\ g = [i \in 0 .. n |-> g[i]] /\ g[0] = st /\ g[n] = u
           /\ \A i \in 1 .. n : g[i] = NextPart(g[i - 1])

\* No part read.
LEMMA LeadsNowhere ==
    ASSUME NEW st
    PROVE  Leads(st, 0, st)
<1> DEFINE g == [i \in 0 .. 0 |-> st]
<1>1. g[0] = st /\ g = [i \in 0 .. 0 |-> g[i]]
  OBVIOUS
<1> HIDE DEF g
<1> QED
  BY <1>1 DEF Leads

\* One part more.
LEMMA LeadsOn ==
    ASSUME NEW st, NEW n \in Nat, NEW u, Leads(st, n, u)
    PROVE  Leads(st, n + 1, NextPart(u))
<1>1. PICK g : /\ g = [i \in 0 .. n |-> g[i]] /\ g[0] = st /\ g[n] = u
               /\ \A i \in 1 .. n : g[i] = NextPart(g[i - 1])
  BY DEF Leads
<1> DEFINE v == NextPart(u)  h == [i \in 0 .. n + 1 |-> IF i = n + 1 THEN v ELSE g[i]]
<1> HIDE DEF v
<1>2. h[n + 1] = v /\ h[0] = st /\ \A i \in 0 .. n : h[i] = g[i]
  BY <1>1
<1>3. h = [i \in 0 .. n + 1 |-> h[i]]
  OBVIOUS
<1> HIDE DEF h
<1>4. ASSUME NEW i \in 1 .. n + 1 PROVE h[i] = NextPart(h[i - 1])
  <2>1. CASE i = n + 1
    <3>1. i - 1 = n /\ n \in 0 .. n
      BY <2>1
    <3>2. h[i - 1] = u /\ h[i] = v
      BY <1>1, <1>2, <2>1, <3>1
    <3> QED
      BY <3>2 DEF v
  <2>2. CASE i # n + 1
    <3>1. i \in 1 .. n /\ i \in 0 .. n /\ i - 1 \in 0 .. n
      BY <2>2
    <3>2. h[i] = g[i] /\ h[i - 1] = g[i - 1]
      BY <1>2, <3>1
    <3> QED
      BY <1>1, <3>1, <3>2
  <2> QED
    BY <2>1, <2>2
<1>5. Leads(st, n + 1, v)
  BY <1>2, <1>3, <1>4 DEF Leads
<1> QED
  BY <1>5 DEF v

\* Reading n parts of a body ends where n single reads end.
LEMMA LeadsThere ==
    ASSUME NEW st, NEW n \in Nat, NEW u, Leads(st, n, u)
    PROVE  NextParts(st, n) = u
<1>1. PICK g : /\ g = [i \in 0 .. n |-> g[i]] /\ g[0] = st /\ g[n] = u
               /\ \A i \in 1 .. n : g[i] = NextPart(g[i - 1])
  BY DEF Leads
<1> DEFINE Eq(h) == h = [k \in 0 .. n |-> IF k = 0 THEN st ELSE NextPart(h[k - 1])]
           r == CHOOSE h : Eq(h)
<1>2. Eq(g)
  <2>1. \A i \in 0 .. n : i = 0 \/ i \in 1 .. n
    OBVIOUS
  <2>2. ASSUME NEW i \in 0 .. n
        PROVE  g[i] = IF i = 0 THEN st ELSE NextPart(g[i - 1])
    <3> HIDE DEF Eq, r
    <3>1. CASE i = 0
      BY <1>1, <3>1
    <3>2. CASE i # 0
      BY <1>1, <2>1, <3>2
    <3> QED
      BY <3>1, <3>2
  <2>3. [i \in 0 .. n |-> g[i]] = [k \in 0 .. n |-> IF k = 0 THEN st ELSE NextPart(g[k - 1])]
    BY <2>2
  <2> QED
    BY <1>1, <2>3
<1>3. Eq(r)
  <2> HIDE DEF Eq
  <2> QED
    BY <1>2
<1>4. NextParts(st, n) = r[n]
  BY DEF NextParts
<1> HIDE DEF r
<1>5. r[0] = st /\ \A i \in 1 .. n : r[i] = NextPart(r[i - 1])
  BY <1>3
<1>6. r[0] = g[0] /\ StayEqual(r, g, n)
  BY <1>1, <1>5 DEF StayEqual
<1>7. \A i \in 0 .. n : r[i] = g[i]
  BY <1>6, IteratesAgree
<1> QED
  BY <1>1, <1>4, <1>7

\* A part more.
LEMMA PartOn ==
    ASSUME NEW st, NEW n \in Nat, NEW e, NEW at, NEW p \in Seq(Item), NEW b \in Seq(Item),
           NEW parts, Leads(st, n, Reader(e, at, parts)), Stands(e, at, Counted(p) \o b)
    PROVE  \E to : /\ Leads(st, n + 1, Reader(e, to, Append(parts, p)))
                   /\ Stands(e, to, b)
<1>1. /\ NextPart(Reader(e, at, parts)) = Reader(e, at + 1 + Len(p), Append(parts, p))
      /\ Stands(e, at + 1 + Len(p), b)
  BY PartRead
<1> DEFINE u == Reader(e, at, parts)
<1> HIDE DEF u
<1>2. Leads(st, n + 1, NextPart(u))
  BY LeadsOn DEF u
<1> QED
  BY <1>1, <1>2 DEF u

\* Four parts more.
Four(p1, p2, p3, p4) == Counted(p1) \o Counted(p2) \o Counted(p3) \o Counted(p4)

FourThen(p1, p2, p3, p4, b) ==
    Four(p1, p2, p3, p4) \o b
      = Counted(p1) \o (Counted(p2) \o (Counted(p3) \o (Counted(p4) \o b)))

\* Four parts and what follows them, one behind the other.
LEMMA FourIs ==
    ASSUME NEW p1 \in Seq(Item), NEW p2 \in Seq(Item), NEW p3 \in Seq(Item),
           NEW p4 \in Seq(Item), NEW b \in Seq(Item)
    PROVE  /\ Four(p1, p2, p3, p4) \in Seq(Item)
           /\ FourThen(p1, p2, p3, p4, b)
<1> DEFINE c1 == Counted(p1)  c2 == Counted(p2)  c3 == Counted(p3)  c4 == Counted(p4)
           c12 == c1 \o c2  c123 == c12 \o c3  c4b == c4 \o b  c34b == c3 \o c4b
<1>1. c1 \in Seq(Item) /\ c2 \in Seq(Item) /\ c3 \in Seq(Item) /\ c4 \in Seq(Item)
  BY CountedIs
<1> HIDE DEF c1, c2, c3, c4
<1>2. c12 \in Seq(Item) /\ c4b \in Seq(Item)
  BY <1>1, ConcatProperties
<1> HIDE DEF c12, c4b
<1>3. c123 \in Seq(Item) /\ c34b \in Seq(Item)
  BY <1>1, <1>2, ConcatProperties
<1> HIDE DEF c123, c34b
<1>4. c123 \o c4 \in Seq(Item)
  BY <1>1, <1>3, ConcatProperties
<1>5. IsChain(c123, c4, b) /\ IsChain(c12, c3, c4b) /\ IsChain(c1, c2, c34b)
  BY <1>1, <1>2, <1>3, Chain
<1>6. (c123 \o c4) \o b = c1 \o (c2 \o c34b)
  <2>1. (c123 \o c4) \o b = c123 \o c4b
    BY <1>5 DEF IsChain, c4b
  <2>2. c123 \o c4b = c12 \o c34b
    BY <1>5 DEF IsChain, c123, c34b
  <2>3. c12 \o c34b = c1 \o (c2 \o c34b)
    BY <1>5 DEF IsChain, c12
  <2> QED
    BY <2>1, <2>2, <2>3
<1>7. Four(p1, p2, p3, p4) = c123 \o c4
  BY DEF Four, c1, c2, c3, c4, c12, c123
<1> QED
  BY <1>4, <1>6, <1>7 DEF FourThen, c1, c2, c3, c4, c34b, c4b

\* Four parts are read one after the other.
LEMMA FourOn ==
    ASSUME NEW st, NEW n \in Nat, NEW e, NEW at, NEW parts,
           NEW p1 \in Seq(Item), NEW p2 \in Seq(Item), NEW p3 \in Seq(Item),
           NEW p4 \in Seq(Item), NEW b \in Seq(Item),
           Leads(st, n, Reader(e, at, parts)), Stands(e, at, Four(p1, p2, p3, p4) \o b)
    PROVE  \E to : /\ Leads(st, n + 4, Reader(e, to,
                          Append(Append(Append(Append(parts, p1), p2), p3), p4)))
                   /\ Stands(e, to, b)
<1> DEFINE b3 == Counted(p4) \o b  b2 == Counted(p3) \o b3  b1 == Counted(p2) \o b2
           s1 == Append(parts, p1)  s2 == Append(s1, p2)  s3 == Append(s2, p3)
           s4 == Append(s3, p4)
<1>1. Stands(e, at, Counted(p1) \o b1)
  <2>1. FourThen(p1, p2, p3, p4, b)
    BY FourIs
  <2>2. Four(p1, p2, p3, p4) \o b = Counted(p1) \o b1
    BY <2>1 DEF FourThen
  <2> HIDE DEF b1
  <2> QED
    BY <2>2
<1>2. /\ Counted(p2) \in Seq(Item) /\ Counted(p3) \in Seq(Item) /\ Counted(p4) \in Seq(Item)
  BY CountedIs
<1>3. b3 \in Seq(Item)
  BY <1>2, ConcatProperties
<1> DEFINE k3 == b3
<1> HIDE DEF b3
<1>4. b2 \in Seq(Item)
  BY <1>2, <1>3, ConcatProperties
<1> HIDE DEF b2
<1>5. b1 \in Seq(Item)
  BY <1>2, <1>4, ConcatProperties
<1> HIDE DEF b1, s1, s2, s3, s4
<1>6. PICK t1 : Leads(st, n + 1, Reader(e, t1, s1)) /\ Stands(e, t1, b1)
  BY <1>1, <1>5, PartOn DEF s1
<1>7. PICK t2 : Leads(st, n + 2, Reader(e, t2, s2)) /\ Stands(e, t2, b2)
  <2>1. Stands(e, t1, Counted(p2) \o b2) /\ n + 1 \in Nat /\ (n + 1) + 1 = n + 2
    BY <1>6 DEF b1
  <2> DEFINE m == n + 1
  <2>2. m \in Nat /\ Leads(st, m, Reader(e, t1, s1))
    BY <1>6, <2>1
  <2> HIDE DEF m
  <2>3. \E to : Leads(st, m + 1, Reader(e, to, Append(s1, p2))) /\ Stands(e, to, b2)
    BY <1>4, <2>1, <2>2, PartOn
  <2> QED
    BY <2>1, <2>3 DEF s2, m
<1>8. PICK t3 : Leads(st, n + 3, Reader(e, t3, s3)) /\ Stands(e, t3, b3)
  <2>1. Stands(e, t2, Counted(p3) \o b3) /\ n + 2 \in Nat /\ (n + 2) + 1 = n + 3
    BY <1>7 DEF b2
  <2> DEFINE m == n + 2
  <2>2. m \in Nat /\ Leads(st, m, Reader(e, t2, s2))
    BY <1>7, <2>1
  <2> HIDE DEF m
  <2>3. \E to : Leads(st, m + 1, Reader(e, to, Append(s2, p3))) /\ Stands(e, to, b3)
    BY <1>3, <2>1, <2>2, PartOn
  <2> QED
    BY <2>1, <2>3 DEF s3, m
<1>9. PICK t4 : Leads(st, n + 4, Reader(e, t4, s4)) /\ Stands(e, t4, b)
  <2>1. Stands(e, t3, Counted(p4) \o b) /\ n + 3 \in Nat /\ (n + 3) + 1 = n + 4
    BY <1>8 DEF b3
  <2> DEFINE m == n + 3
  <2>2. m \in Nat /\ Leads(st, m, Reader(e, t3, s3))
    BY <1>8, <2>1
  <2> HIDE DEF m
  <2>3. \E to : Leads(st, m + 1, Reader(e, to, Append(s3, p4))) /\ Stands(e, to, b)
    BY <2>1, <2>2, PartOn
  <2> QED
    BY <2>1, <2>3 DEF s4, m
<1> QED
  BY <1>9 DEF s1, s2, s3, s4

\* A part is a sequence of bytes.
LEMMA RepeatType ==
    ASSUME NEW b \in Nat, NEW lens, lens \subseteq Nat, NEW p \in Repeat(b, lens)
    PROVE  p \in Seq(Item) /\ Len(p) \in Nat
<1>1. PICK n \in lens : p = [i \in 1 .. n |-> b]
  BY DEF Repeat
<1>2. n \in Nat /\ b \in Item
  BY DEF Item
<1>3. p \in Seq(Item)
  BY <1>1, <1>2
<1> QED
  BY <1>3, LenProperties

\* ... and so is one cut to a byte of length.
LEMMA Cut8Type ==
    ASSUME NEW p \in Seq(Item)
    PROVE  Cut8(p) \in Seq(Item)
<1>1. Len(p) \in Nat /\ Max8 \in Nat
  BY CodecBounds, LenProperties
<1> DEFINE n == IF Len(p) > Max8 THEN Max8 ELSE Len(p)
<1>2. n \in 0 .. Len(p)
  BY <1>1
<1> HIDE DEF n
<1>3. SubSeq(p, 1, n) \in Seq(Item)
  BY <1>2, Cut
<1> QED
  BY <1>3 DEF Cut8, n

\* What a body is made of.
LEMMA BodyParts ==
    ASSUME NEW x \in Bodies
    PROVE  /\ x.player \in Seq(Item)
           /\ x.auth = <<>> \/ \E t \in Seq(Item) : Len(t) \in Nat /\ x.auth = <<t>>
           /\ \/ x.build = <<>>
              \/ \E r, c, s, p \in Seq(Item) : x.build = <<r, c, s, p>>
<1>1. Max8 \in Nat /\ Max16 \in Nat
  BY CodecBounds
<1>2. /\ 0 .. Max8 + 1 \subseteq Nat /\ 0 .. Max8 \subseteq Nat /\ 0 .. 1 \subseteq Nat
      /\ 0 .. Max16 + 1 \subseteq Nat /\ 1 .. 2 \subseteq Nat
  BY <1>1
<1>3. /\ x.auth \in {<<>>} \cup {<<t>> : t \in Repeat(0, 0 .. Max16 + 1)}
      /\ x.build \in {<<>>} \cup Build /\ x.player \in Repeat(2, 1 .. 2)
  BY DEF Bodies
<1>4. x.player \in Seq(Item)
  BY <1>2, <1>3, RepeatType
<1>5. ASSUME x.auth # <<>>
      PROVE  \E t \in Seq(Item) : Len(t) \in Nat /\ x.auth = <<t>>
  <2>1. PICK t \in Repeat(0, 0 .. Max16 + 1) : x.auth = <<t>>
    BY <1>3, <1>5
  <2>2. t \in Seq(Item) /\ Len(t) \in Nat
    BY <1>2, RepeatType
  <2> QED
    BY <2>1, <2>2
<1>6. ASSUME x.build # <<>>
      PROVE  \E r, c, s, p \in Seq(Item) : x.build = <<r, c, s, p>>
  <2>1. x.build \in Build
    BY <1>3, <1>6
  <2>2. PICK r \in Repeat(1, 0 .. Max8 + 1), c \in Repeat(2, 0 .. Max8),
             s \in Repeat(0, 0 .. 1), p \in Repeat(1, 0 .. Max8 + 1) :
               x.build = <<r, c, s, p>>
    BY <2>1 DEF Build
  <2>3. r \in Seq(Item)
    BY <1>2, RepeatType
  <2>4. c \in Seq(Item)
    BY <1>2, RepeatType
  <2>5. s \in Seq(Item)
    BY <1>2, RepeatType
  <2>6. p \in Seq(Item)
    BY <1>2, RepeatType
  <2> QED
    BY <2>2, <2>3, <2>4, <2>5, <2>6
<1> QED
  BY <1>4, <1>5, <1>6

\* The token as it is sent, and the build.
TokenPart(x) == IF SendsToken(x) THEN Counted(x.auth[1]) ELSE <<>>
BuildPart(x) == IF x.build = <<>> THEN <<>>
                ELSE Four(Cut8(x.build[1]), Cut8(x.build[2]), Cut8(x.build[3]),
                          Cut8(x.build[4]))
FlagsPart(x) == << <<SendsToken(x), x.build # <<>> >> >>

\* How the body is laid out.
LEMMA BodyStands ==
    ASSUME NEW x \in Bodies
    PROVE  /\ TokenPart(x) \in Seq(Item) /\ BuildPart(x) \in Seq(Item)
           /\ Encoded(x)[1] = <<SendsToken(x), x.build # <<>> >>
           /\ Stands(Encoded(x), 2, TokenPart(x) \o (BuildPart(x) \o x.player))
<1> DEFINE f == FlagsPart(x)  t == TokenPart(x)  b == BuildPart(x)  p == x.player
           e == Encoded(x)  h == <<SendsToken(x), x.build # <<>> >>
<1>1. p \in Seq(Item)
  BY BodyParts
<1>2. t \in Seq(Item)
  <2>1. CASE SendsToken(x)
    <3>1. x.auth # <<>>
      BY <2>1 DEF SendsToken
    <3>2. PICK y \in Seq(Item) : x.auth = <<y>>
      BY <3>1, BodyParts
    <3>3. x.auth[1] = y /\ Counted(y) \in Seq(Item)
      BY <3>2, CountedIs
    <3> QED
      BY <2>1, <3>3 DEF TokenPart
  <2>2. CASE ~SendsToken(x)
    BY <2>2 DEF TokenPart
  <2> QED
    BY <2>1, <2>2
<1>3. b \in Seq(Item)
  <2>1. CASE x.build = <<>>
    BY <2>1 DEF BuildPart
  <2>2. CASE x.build # <<>>
    <3>1. PICK r, c, s, u \in Seq(Item) : x.build = <<r, c, s, u>>
      BY <2>2, BodyParts
    <3>2. b = Four(Cut8(r), Cut8(c), Cut8(s), Cut8(u))
      BY <2>2, <3>1 DEF BuildPart
    <3>3. /\ Cut8(r) \in Seq(Item) /\ Cut8(c) \in Seq(Item)
          /\ Cut8(s) \in Seq(Item) /\ Cut8(u) \in Seq(Item)
      BY Cut8Type
    <3>4. Four(Cut8(r), Cut8(c), Cut8(s), Cut8(u)) \in Seq(Item)
      BY <1>1, <3>3, FourIs
    <3> QED
      BY <3>2, <3>4
  <2> QED
    BY <2>1, <2>2
<1>4. h \in Item
  <2>1. SendsToken(x) \in BOOLEAN /\ (x.build # <<>>) \in BOOLEAN
    <3>1. (Len(x.auth[1]) <= Max16) \in BOOLEAN
      <4> DEFINE n == Len(x.auth[1])
      <4> HIDE DEF n
      <4> QED
        OBVIOUS
    <3>2. SendsToken(x) \in BOOLEAN
      BY <3>1, Zenon DEF SendsToken
    <3>3. (x.build # <<>>) \in BOOLEAN
      OBVIOUS
    <3> QED
      BY <3>2, <3>3
  <2> DEFINE y == SendsToken(x)  z == x.build # <<>>
  <2> HIDE DEF y, z
  <2>2. y \in BOOLEAN /\ z \in BOOLEAN
    BY <2>1 DEF y, z
  <2>3. <<y, z>> \in BOOLEAN \X BOOLEAN
    BY <2>2
  <2> QED
    BY <2>3 DEF Item, y, z
<1>5. f \in Seq(Item) /\ f = <<h>> /\ Len(f) = 1 /\ f[1] = h
  <2> HIDE DEF h
  <2>1. <<h>> \in Seq(Item) /\ Len(<<h>>) = 1 /\ <<h>>[1] = h
    BY <1>4
  <2>2. f = <<h>>
    BY DEF FlagsPart, h
  <2> QED
    BY <2>1, <2>2
<1>6. e = f \o t \o b \o p
  BY DEF Encoded, FlagsPart, TokenPart, BuildPart, Four
<1> HIDE DEF e, f, t, b, p, h
<1> DEFINE ft == f \o t  tb == t \o b  bp == b \o p  rest == t \o bp
<1>7. tb \in Seq(Item) /\ bp \in Seq(Item)
  BY <1>1, <1>2, <1>3, ConcatProperties
<1> HIDE DEF tb, bp
<1>8. rest \in Seq(Item)
  BY <1>2, <1>7, ConcatProperties
<1>9. e = f \o rest
  <2>1. IsChain(f, t, b) /\ IsChain(f, tb, p) /\ IsChain(t, b, p)
    BY <1>1, <1>2, <1>3, <1>5, <1>7, Chain
  <2>2. e = (f \o tb) \o p
    BY <1>6, <2>1 DEF IsChain, tb
  <2>3. (f \o tb) \o p = f \o (tb \o p)
    BY <2>1 DEF IsChain
  <2>4. tb \o p = t \o bp
    BY <2>1 DEF IsChain, tb, bp
  <2> QED
    BY <2>2, <2>3, <2>4
<1> HIDE DEF rest
<1>10. IsJoint(f \o rest, f, rest, Item)
  BY <1>5, <1>8, Joint
<1>11. e[1] = h
  <2>1. \A i \in 1 .. Len(f) : e[i] = f[i]
    BY <1>9, <1>10 DEF IsJoint
  <2>2. 1 \in 1 .. Len(f)
    BY <1>5
  <2> QED
    BY <1>5, <2>1, <2>2
<1>12. Stands(e, 2, rest)
  <2>1. 2 = Len(f) + 1
    BY <1>5
  <2> QED
    BY <1>5, <1>9, <2>1 DEF Stands
<1> QED
  BY <1>2, <1>3, <1>11, <1>12 DEF e, h, t, b, p, rest, bp

\* v is the four parts.
AreFour(v, a, b, c, d) ==
    Len(v) = 4 /\ v[1] = a /\ v[2] = b /\ v[3] = c /\ v[4] = d

\* q is tp, then v.
CutAt(q, tp, v) == SubSeq(q, 1, Len(tp)) = tp /\ SubSeq(q, Len(tp) + 1, Len(q)) = v

\* Four parts appended are found behind the others.
LEMMA FourAppended ==
    ASSUME NEW S, NEW tp \in Seq(S), NEW a \in S, NEW b \in S, NEW c \in S, NEW d \in S,
           NEW v \in Seq(S), AreFour(v, a, b, c, d),
           NEW q, q = Append(Append(Append(Append(tp, a), b), c), d)
    PROVE  CutAt(q, tp, v)
<1> DEFINE n == Len(tp)  q1 == Append(tp, a)  q2 == Append(q1, b)  q3 == Append(q2, c)
<1>1. n \in Nat
  BY LenProperties
<1>2. q1 \in Seq(S) /\ Len(q1) = n + 1 /\ q1[n + 1] = a /\ \A i \in 1 .. n : q1[i] = tp[i]
  BY AppendProperties
<1>3. q = Append(q3, d)
  OBVIOUS
<1> HIDE DEF q1, q2, q3, n
<1>4. /\ q2 \in Seq(S) /\ Len(q2) = Len(q1) + 1 /\ q2[Len(q1) + 1] = b
      /\ \A i \in 1 .. Len(q1) : q2[i] = q1[i]
  BY <1>2, AppendProperties DEF q2
<1>5. /\ q3 \in Seq(S) /\ Len(q3) = Len(q2) + 1 /\ q3[Len(q2) + 1] = c
      /\ \A i \in 1 .. Len(q2) : q3[i] = q2[i]
  BY <1>4, AppendProperties DEF q3
<1>6. /\ q \in Seq(S) /\ Len(q) = Len(q3) + 1 /\ q[Len(q3) + 1] = d
      /\ \A i \in 1 .. Len(q3) : q[i] = q3[i]
  BY <1>3, <1>5, AppendProperties
<1>7. Len(q1) = n + 1 /\ Len(q2) = n + 2 /\ Len(q3) = n + 3 /\ Len(q) = n + 4
  BY <1>1, <1>2, <1>4, <1>5, <1>6
<1>8. \A i \in 1 .. n : q[i] = tp[i]
  <2> TAKE i \in 1 .. n
  <2>1. i \in 1 .. Len(q1) /\ i \in 1 .. Len(q2) /\ i \in 1 .. Len(q3)
    BY <1>1, <1>7
  <2> QED
    BY <1>2, <1>4, <1>5, <1>6, <2>1
<1>9. q[n + 1] = a /\ q[n + 2] = b /\ q[n + 3] = c /\ q[n + 4] = d
  <2>1. /\ n + 1 \in 1 .. Len(q1) /\ n + 1 \in 1 .. Len(q2) /\ n + 1 \in 1 .. Len(q3)
        /\ n + 2 \in 1 .. Len(q2) /\ n + 2 \in 1 .. Len(q3) /\ n + 3 \in 1 .. Len(q3)
        /\ Len(q1) + 1 = n + 2 /\ Len(q2) + 1 = n + 3 /\ Len(q3) + 1 = n + 4
    BY <1>1, <1>7
  <2>2. q[n + 1] = a
    BY <1>2, <1>4, <1>5, <1>6, <2>1
  <2>3. q[n + 2] = b
    BY <1>4, <1>5, <1>6, <2>1
  <2>4. q[n + 3] = c /\ q[n + 4] = d
    BY <1>5, <1>6, <2>1
  <2> QED
    BY <2>2, <2>3, <2>4
<1>10. \A i \in 1 .. 4 : q[n + i] = v[i]
  <2>1. \A i \in 1 .. 4 : i = 1 \/ i = 2 \/ i = 3 \/ i = 4
    OBVIOUS
  <2> QED
    BY <1>9, <2>1 DEF AreFour
<1> DEFINE x == SubSeq(q, 1, n)  y == SubSeq(q, n + 1, Len(q))
<1>11. /\ x \in Seq(S) /\ Len(x) = n /\ \A i \in 1 .. n : x[i] = q[i]
  BY <1>1, <1>6, <1>7
<1>12. /\ y \in Seq(S) /\ Len(y) = 4 /\ \A i \in 1 .. 4 : y[i] = q[n + i]
  BY <1>1, <1>6, <1>7
<1> HIDE DEF x, y
<1>13. x = tp
  BY <1>8, <1>11, SeqEqual DEF n
<1>14. y = v
  <2>1. v \in Seq(S) /\ Len(v) = 4
    BY DEF AreFour
  <2>2. Len(y) = Len(v) /\ \A i \in 1 .. Len(y) : y[i] = v[i]
    BY <1>10, <1>12, <2>1
  <2> QED
    BY <1>12, <2>1, <2>2, SeqEqual
<1> QED
  BY <1>13, <1>14 DEF x, y, n, CutAt

(* A body is read as it was put in, cut to what a length can say.            *)
BodyRead(x) ==
    Parsed(Encoded(x)) =
        [ok     |-> TRUE,
         auth   |-> IF x.auth # <<>> /\ Len(x.auth[1]) > Max16 THEN <<>> ELSE x.auth,
         build  |-> [i \in 1 .. Len(x.build) |-> Cut8(x.build[i])],
         player |-> x.player]

\* parse_req reads from an ATTACH what attach_body put into it.
LEMMA BodiesRead ==
    ASSUME NEW x \in Bodies
    PROVE  BodyRead(x)
<1> DEFINE e == Encoded(x)  start == Reader(e, 2, <<>>)  P == x.player
           k == IF e[1][1] THEN 1 ELSE 0
           n == IF e[1][2] THEN k + 4 ELSE k
           tp == IF SendsToken(x) THEN <<x.auth[1]>> ELSE <<>>
           read == NextParts(start, n)
           built == [i \in 1 .. Len(x.build) |-> Cut8(x.build[i])]
           sent == IF x.auth # <<>> /\ Len(x.auth[1]) > Max16 THEN <<>> ELSE x.auth
           B == BuildPart(x)
<1>1. /\ P \in Seq(Item) /\ TokenPart(x) \in Seq(Item) /\ B \in Seq(Item)
      /\ e[1] = <<SendsToken(x), x.build # <<>> >>
      /\ Stands(e, 2, TokenPart(x) \o (B \o P))
  BY BodyParts, BodyStands
<1>2. e[1][1] = SendsToken(x) /\ e[1][2] = (x.build # <<>>)
  <2> DEFINE y == SendsToken(x)  z == x.build # <<>>
  <2>1. e[1] = <<y, z>>
    BY <1>1
  <2> HIDE DEF y, z, e
  <2>2. e[1][1] = y /\ e[1][2] = z
    BY <2>1
  <2> QED
    BY <2>2 DEF y, z
<1>3. Parsed(e) = [ok     |-> read.ok,
                   auth   |-> SubSeq(read.parts, 1, k),
                   build  |-> SubSeq(read.parts, k + 1, Len(read.parts)),
                   player |-> SubSeq(e, read.at, Len(e))]
  <2> HIDE DEF e
  <2> QED
    BY DEF Parsed, Reader
<1> HIDE DEF e, P, B
<1>4. B \o P \in Seq(Item)
  BY <1>1, ConcatProperties
<1>50. k = (IF SendsToken(x) THEN 1 ELSE 0)
  BY <1>2
<1>51. n = (IF x.build # <<>> THEN k + 4 ELSE k)
  <2> HIDE DEF k
  <2> QED
    BY <1>2
<1> HIDE DEF k, n
<1>5. k \in {0, 1} /\ (k = 1 <=> SendsToken(x)) /\ n = (IF x.build # <<>> THEN k + 4 ELSE k)
  BY <1>50, <1>51
<1>6. \E at : Leads(start, k, Reader(e, at, tp)) /\ Stands(e, at, B \o P)
  <2>0. Leads(start, 0, start)
    BY LeadsNowhere
  <2>1. CASE ~SendsToken(x)
    <3>1. k = 0 /\ tp = <<>> /\ TokenPart(x) = <<>>
      BY <1>5, <2>1 DEF TokenPart
    <3> DEFINE rest == B \o P
    <3> HIDE DEF rest
    <3>2. <<>> \o rest = rest
      BY <1>4, ConcatEmptySeq DEF rest
    <3>3. Stands(e, 2, rest)
      BY <1>1, <3>1, <3>2 DEF rest
    <3> QED
      BY <2>0, <3>1, <3>3 DEF rest
  <2>2. CASE SendsToken(x)
    <3>1. x.auth # <<>>
      BY <2>2 DEF SendsToken
    <3>2. PICK t \in Seq(Item) : x.auth = <<t>>
      BY <3>1, BodyParts
    <3>3. x.auth[1] = t
      BY <3>2
    <3>4. k = 1 /\ tp = <<t>> /\ TokenPart(x) = Counted(t)
      BY <1>5, <2>2, <3>3 DEF TokenPart
    <3> DEFINE rest == B \o P
    <3>5. rest \in Seq(Item) /\ Stands(e, 2, Counted(t) \o rest)
      BY <1>1, <1>4, <3>4
    <3> HIDE DEF rest, tp
    <3> DEFINE nil == <<>>
    <3>6. Leads(start, 0, Reader(e, 2, nil)) /\ 0 \in Nat
      BY <2>0
    <3> HIDE DEF nil, start
    <3>7. \E to : Leads(start, 0 + 1, Reader(e, to, Append(nil, t))) /\ Stands(e, to, rest)
      BY <3>5, <3>6, PartOn
    <3>8. Append(nil, t) = <<t>> /\ 0 + 1 = 1
      BY DEF nil
    <3> QED
      BY <3>4, <3>7, <3>8 DEF rest
  <2> QED
    BY <2>1, <2>2
<1> HIDE DEF start
<1>7. PICK at : Leads(start, k, Reader(e, at, tp)) /\ Stands(e, at, B \o P)
  BY <1>6
<1>8. tp = sent
  <2>1. CASE x.auth = <<>>
    BY <2>1 DEF SendsToken
  <2>2. CASE x.auth # <<>>
    <3>1. PICK t \in Seq(Item) : Len(t) \in Nat /\ x.auth = <<t>>
      BY <2>2, BodyParts
    <3>2. x.auth[1] = t /\ <<x.auth[1]>> = x.auth
      BY <3>1
    <3>3. Max16 \in Nat
      BY CodecBounds
    <3>4. Len(t) > Max16 <=> ~(Len(t) <= Max16)
      BY <3>1, <3>3
    <3> QED
      BY <2>2, <3>2, <3>4 DEF SendsToken
  <2> QED
    BY <2>1, <2>2
<1>9. k = Len(tp) /\ tp \in {<<>>, <<x.auth[1]>>} /\ (k = 0 => tp = <<>>)
      /\ (k = 1 => tp = <<x.auth[1]>>)
  BY <1>5
<1> HIDE DEF tp
<1>12. tp \in Seq(Seq(Item))
  <2>1. CASE ~SendsToken(x)
    <3>1. tp = <<>>
      BY <1>5, <1>9, <2>1
    <3> QED
      BY <3>1
  <2>2. CASE SendsToken(x)
    <3>1. x.auth # <<>>
      BY <2>2 DEF SendsToken
    <3>2. PICK t \in Seq(Item) : x.auth = <<t>>
      BY <3>1, BodyParts
    <3>3. x.auth[1] = t /\ tp = <<x.auth[1]>>
      BY <1>5, <1>9, <2>2, <3>2
    <3>4. <<t>> \in Seq(Seq(Item))
      OBVIOUS
    <3> QED
      BY <3>3, <3>4
  <2> QED
    BY <2>1, <2>2
<1>10. CASE x.build = <<>>
  <2>1. n = k /\ B = <<>> /\ built = <<>>
    BY <1>5, <1>10 DEF B, BuildPart
  <2>2. <<>> \o P = P
    BY <1>1, ConcatEmptySeq
  <2>3. Stands(e, at, P) /\ k \in Nat
    BY <1>5, <1>7, <2>1, <2>2
  <2>4. read = Reader(e, at, tp)
    BY <1>7, <2>1, <2>3, LeadsThere
  <2>5. SubSeq(e, at, Len(e)) = P
    BY <1>1, <2>3, RestRead
  <2>6. read.ok = TRUE /\ read.parts = tp /\ read.at = at
    BY <2>4 DEF Reader
  <2>7. SubSeq(tp, 1, k) = tp /\ SubSeq(tp, k + 1, Len(tp)) = <<>>
    <3>1. SubSeq(tp, 1, Len(tp)) = tp
      BY <1>12, SubSeqFull
    <3>2. Len(tp) \in Int /\ Len(tp) + 1 \in Int /\ Len(tp) < Len(tp) + 1
      BY <1>5, <1>9
    <3>3. SubSeq(tp, Len(tp) + 1, Len(tp)) = <<>>
      BY <3>2, SubSeqEmpty
    <3> QED
      BY <1>9, <3>1, <3>3
  <2> HIDE DEF read, built, sent
  <2> QED
    BY <1>3, <1>8, <2>1, <2>5, <2>6, <2>7 DEF BodyRead, e, built, sent, P
<1>11. CASE x.build # <<>>
  <2>1. PICK r, c, s, p \in Seq(Item) : x.build = <<r, c, s, p>>
    BY <1>11, BodyParts
  <2> DEFINE r8 == Cut8(r)  c8 == Cut8(c)  s8 == Cut8(s)  p8 == Cut8(p)
             parts == Append(Append(Append(Append(tp, r8), c8), s8), p8)
  <2>2. n = k + 4 /\ B = Four(r8, c8, s8, p8)
    BY <1>5, <1>11, <2>1 DEF B, BuildPart
  <2>3. built \in Seq(Seq(Item)) /\ AreFour(built, r8, c8, s8, p8)
    <3>1. Len(x.build) = 4 /\ x.build[1] = r /\ x.build[2] = c /\ x.build[3] = s
          /\ x.build[4] = p
      BY <2>1
    <3>2. built = [i \in 1 .. 4 |-> Cut8(x.build[i])]
      BY <3>1
    <3>3. Len(built) = 4 /\ built[1] = r8 /\ built[2] = c8 /\ built[3] = s8 /\ built[4] = p8
      BY <3>1, <3>2
    <3>4. \A i \in 1 .. 4 : Cut8(x.build[i]) \in Seq(Item)
      <4>1. \A i \in 1 .. 4 : x.build[i] \in Seq(Item)
        BY <3>1
      <4> QED
        BY <4>1, Cut8Type
    <3>5. built \in Seq(Seq(Item))
      <4> DEFINE S == Seq(Item)  el(i) == Cut8(x.build[i])
      <4>1. built = [i \in 1 .. 4 |-> el(i)] /\ \A i \in 1 .. 4 : el(i) \in S
        BY <3>2, <3>4
      <4> HIDE DEF r8, c8, s8, p8, built, S, el
      <4>2. [i \in 1 .. 4 |-> el(i)] \in Seq(S)
        BY <4>1
      <4>3. built \in Seq(S)
        BY <4>1, <4>2
      <4> QED
        BY <4>3 DEF S
    <3> QED
      BY <3>3, <3>5 DEF AreFour
  <2>4. r8 \in Seq(Item) /\ c8 \in Seq(Item) /\ s8 \in Seq(Item) /\ p8 \in Seq(Item)
    BY Cut8Type
  <2> HIDE DEF r8, c8, s8, p8
  <2>5. k \in Nat /\ k + 4 \in Nat
    BY <1>5
  <2>6. Stands(e, at, Four(r8, c8, s8, p8) \o P)
    BY <1>7, <2>2
  <2>7. PICK to : Leads(start, k + 4, Reader(e, to, parts)) /\ Stands(e, to, P)
    BY <1>1, <1>7, <2>4, <2>5, <2>6, FourOn
  <2> HIDE DEF parts
  <2>8. NextParts(start, k + 4) = Reader(e, to, parts)
    <3> DEFINE m == k + 4
    <3>1. m \in Nat /\ Leads(start, m, Reader(e, to, parts))
      BY <2>5, <2>7
    <3> HIDE DEF m
    <3>2. NextParts(start, m) = Reader(e, to, parts)
      BY <3>1, LeadsThere
    <3> QED
      BY <3>2 DEF m
  <2>9. SubSeq(e, to, Len(e)) = P
    BY <1>1, <2>7, RestRead
  <2>10. read.ok = TRUE /\ read.parts = parts /\ read.at = to
    BY <2>2, <2>8 DEF Reader
  <2>11. SubSeq(parts, 1, k) = tp /\ SubSeq(parts, k + 1, Len(parts)) = built
    <3>1. tp \in Seq(Seq(Item))
      BY <1>12
    <3> DEFINE S == Seq(Item)
    <3>2. /\ tp \in Seq(S) /\ built \in Seq(S)
          /\ r8 \in S /\ c8 \in S /\ s8 \in S /\ p8 \in S
      BY <2>3, <2>4, <3>1
    <3>3. AreFour(built, r8, c8, s8, p8)
      BY <2>3
    <3>4. parts = Append(Append(Append(Append(tp, r8), c8), s8), p8)
      BY DEF parts
    <3> HIDE DEF built, S
    <3>5. CutAt(parts, tp, built)
      BY <3>2, <3>3, <3>4, FourAppended
    <3> QED
      BY <1>9, <3>5 DEF CutAt
  <2> HIDE DEF read, built, sent
  <2> QED
    BY <1>3, <1>8, <2>9, <2>10, <2>11 DEF BodyRead, e, built, sent, P
<1> QED
  BY <1>10, <1>11

-----------------------------------------------------------------------------
CodecIInv == TelnetIInv /\ FrameIInv /\ body \in Bodies

(* Each side's steps leave the other two alone.                             *)
LEMMA CodecIInvStep == CodecIInv /\ [TelnetNext \/ FrameNext]_codecVars => CodecIInv'
<1> SUFFICES ASSUME CodecIInv, [TelnetNext \/ FrameNext]_codecVars PROVE CodecIInv'
  OBVIOUS
<1>1. TelnetIInv /\ FrameIInv /\ body \in Bodies
  BY DEF CodecIInv
<1>2. ASSUME UNCHANGED telnetVars PROVE TelnetIInv'
  BY <1>1, <1>2 DEF telnetVars, TelnetIInv, TelnetTyped, LinesAhead, Ahead
<1>3. ASSUME UNCHANGED frameVars PROVE FrameIInv'
  BY <1>1, <1>3 DEF frameVars, FrameIInv, FrameTyped, ReadInOrder, LimitHeld, NothingMissing,
                    OnItsWay
<1>4. ASSUME NEW m \in Sent, TypeIn(m) PROVE CodecIInv'
  <2>1. UNCHANGED frameVars /\ UNCHANGED body
    BY <1>4 DEF TypeIn
  <2> QED
    BY <1>1, <1>3, <1>4, <2>1, TypeInAhead DEF CodecIInv
<1>5. ASSUME NEW n \in 1 .. Len(bytes), ReadSome(n) PROVE CodecIInv'
  <2>1. UNCHANGED frameVars /\ UNCHANGED body
    BY <1>5 DEF ReadSome
  <2> QED
    BY <1>1, <1>3, <1>5, <2>1, ReadSomeAhead DEF CodecIInv
<1>6. ASSUME NEW n \in 0 .. 3, WriteFrame(n) PROVE CodecIInv'
  <2>1. UNCHANGED telnetVars /\ UNCHANGED body
    BY <1>6 DEF WriteFrame
  <2> QED
    BY <1>1, <1>2, <1>6, <2>1, WriteFrameInOrder DEF CodecIInv
<1>7. ASSUME PipeCut PROVE CodecIInv'
  <2>1. UNCHANGED telnetVars /\ UNCHANGED body
    BY <1>7 DEF PipeCut
  <2> QED
    BY <1>1, <1>2, <1>7, <2>1, PipeCutInOrder DEF CodecIInv
<1>8. ASSUME TakeFrame PROVE CodecIInv'
  <2>1. UNCHANGED telnetVars /\ UNCHANGED body
    BY <1>8 DEF TakeFrame
  <2> QED
    BY <1>1, <1>2, <1>8, <2>1, TakeFrameInOrder DEF CodecIInv
<1>9. ASSUME RefuseFrame PROVE CodecIInv'
  <2>1. UNCHANGED telnetVars /\ UNCHANGED body
    BY <1>9 DEF RefuseFrame
  <2> QED
    BY <1>1, <1>2, <1>9, <2>1, RefuseFrameInOrder DEF CodecIInv
<1>10. ASSUME ReadBuf PROVE CodecIInv'
  <2>1. UNCHANGED telnetVars /\ UNCHANGED body
    BY <1>10 DEF ReadBuf
  <2> QED
    BY <1>1, <1>2, <1>10, <2>1, ReadBufInOrder DEF CodecIInv
<1>11. ASSUME UNCHANGED codecVars PROVE CodecIInv'
  <2>1. UNCHANGED telnetVars /\ UNCHANGED frameVars /\ UNCHANGED body
    BY <1>11 DEF codecVars
  <2> QED
    BY <1>1, <1>2, <1>3, <2>1 DEF CodecIInv
<1> QED
  BY <1>4, <1>5, <1>6, <1>7, <1>8, <1>9, <1>10, <1>11 DEF TelnetNext, FrameNext

(* However the bytes of a client and the frames of a link are cut into reads, *)
(* the lines read are the lines typed, the frames read are the frames         *)
(* written, and an ATTACH is read as it was put together.                     *)
THEOREM CodecsAgreeHolds == CodecInit /\ [][TelnetNext \/ FrameNext]_codecVars => []CodecsAgree
<1>1. CodecInit => CodecIInv
  BY TelnetStarts, FramesStart DEF CodecInit, CodecIInv
<1>2. CodecIInv => CodecsAgree
  <2> SUFFICES ASSUME CodecIInv PROVE CodecsAgree
    OBVIOUS
  <2>1. LinesAreTyped /\ FramesArriveWhole
    BY TelnetRead, FramesRead DEF CodecIInv
  <2>2. BodyRead(body)
    BY BodiesRead DEF CodecIInv
  <2>3. AttachReadsBack
    BY <2>2 DEF BodyRead, AttachReadsBack
  <2> QED
    BY <2>1, <2>3 DEF CodecsAgree
<1> QED
  BY <1>1, <1>2, CodecIInvStep, PTL
=============================================================================
