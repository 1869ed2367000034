---------------------------- MODULE WebSessions ----------------------------
(***************************************************************************)
(* The table of resumable web sessions in apps/slopmud_web, the            *)
(* WebSessionManager, for one resume token (every map is keyed by it).  A  *)
(* session is one TCP connection to the broker that outlives the web       *)
(* sockets which attach to it; a request that signs the player in sends an *)
(* input to the session, or leaves it for the next one.  What happens in a *)
(* session is in WebSockets: here somebody is attached to it or not, and   *)
(* it dies when its connection ends or some time after it was told to.     *)
(***************************************************************************)
EXTENDS Naturals, Sequences

CONSTANTS Visitors,    \* web sockets opened with the token
          NoVisitor,
          Inputs,      \* requests that send an input
          MaxConnects, \* bound: TCP connections made
          MaxLogouts   \* bound: logouts

ASSUME WebBounds ==
    /\ MaxConnects \in Nat \ {0} /\ MaxLogouts \in Nat /\ NoVisitor \notin Visitors

SessionIds == 1 .. MaxConnects
NoSession  == 0

VARIABLES
    mapped,    \* sessions[token], or NoSession
    pending,   \* pending_tcp_inputs[token]
    made,      \* connections made so far
    lives,     \* tcp_alive of each session
    ending,    \* its shutdown_tx was sent
    visitor,   \* who is attached to it
    idle,      \* it was left for longer than idle_ttl
    inputs,    \* the inputs put into its tcp_tx
    at,        \* where the task of each web socket is
    holds,     \* the session it holds
    passing,   \* the deferred inputs it has still to pass on
    req,       \* where each request is
    sweeping,  \* the session the sweeper decided to remove
    leaving,   \* a logout has dropped the inputs and not yet the session
    logouts    \* logouts so far

tableVars  == <<mapped, pending, made>>
deathVars  == <<lives, ending, visitor, idle>>
taskVars   == <<at, holds, passing>>
logoutVars == <<leaving, logouts>>
webVars    == <<tableVars, deathVars, inputs, taskVars, req, sweeping, logoutVars>>

Waiting(q) == {q[i] : i \in 1 .. Len(q)}

WebInit ==
    /\ mapped = NoSession /\ pending = <<>> /\ made = 0
    /\ lives = [s \in SessionIds |-> FALSE] /\ ending = [s \in SessionIds |-> FALSE]
    /\ visitor = [s \in SessionIds |-> NoVisitor] /\ idle = [s \in SessionIds |-> FALSE]
    /\ inputs = [s \in SessionIds |-> {}]
    /\ at = [w \in Visitors |-> "start"] /\ holds = [w \in Visitors |-> NoSession]
    /\ passing = [w \in Visitors |-> <<>>]
    /\ req = [i \in Inputs |-> "new"] /\ sweeping = NoSession
    /\ leaving = FALSE /\ logouts = 0

GoTo(w, to) == at' = [at EXCEPT ![w] = to]

\* WebSession::shutdown: the tasks are told; who is attached is cut off too,
\* unless somebody else has the state locked just then.
ShutDownSession(s) ==
    /\ ending' = [ending EXCEPT ![s] = TRUE]
    /\ visitor' \in {visitor, [visitor EXCEPT ![s] = NoVisitor]}
    /\ UNCHANGED <<lives, idle>>

-----------------------------------------------------------------------------
(* get_or_create: every lock is taken for one step.                         *)

Find(w) ==
    /\ at[w] = "start" /\ holds' = [holds EXCEPT ![w] = mapped]
    /\ GoTo(w, IF mapped = NoSession THEN "connecting" ELSE "checking")
    /\ UNCHANGED <<tableVars, deathVars, inputs, passing, req, sweeping, logoutVars>>

CheckAlive(w) ==
    /\ at[w] = "checking"
    /\ GoTo(w, IF lives[holds[w]] THEN "found" ELSE "dropping")
    /\ UNCHANGED <<tableVars, deathVars, inputs, holds, passing, req, sweeping, logoutVars>>

DropDead(w) ==
    /\ at[w] = "dropping" /\ GoTo(w, "connecting")
    /\ mapped' = IF mapped = holds[w] THEN NoSession ELSE mapped
    /\ ShutDownSession(holds[w])
    /\ UNCHANGED <<pending, made, inputs, holds, passing, req, sweeping, logoutVars>>

\* WebSession::connect; its failure ends the socket.
ConnectTcp(w) ==
    /\ at[w] = "connecting"
    /\ \/ GoTo(w, "done") /\ UNCHANGED <<made, lives, holds>>
       \/ /\ made < MaxConnects /\ made' = made + 1
          /\ lives' = [lives EXCEPT ![made'] = TRUE]
          /\ holds' = [holds EXCEPT ![w] = made'] /\ GoTo(w, "inserting")
    /\ UNCHANGED <<mapped, pending, ending, visitor, idle, inputs, passing, req, sweeping,
                   logoutVars>>

\* Somebody else was faster: theirs is used, and the own connection given up.
Insert(w) ==
    /\ at[w] = "inserting"
    /\ \/ /\ mapped # NoSession /\ ShutDownSession(holds[w]) /\ UNCHANGED mapped
          /\ holds' = [holds EXCEPT ![w] = mapped] /\ GoTo(w, "found")
       \/ /\ mapped = NoSession /\ mapped' = holds[w] /\ GoTo(w, "taking")
          /\ UNCHANGED <<deathVars, holds>>
    /\ UNCHANGED <<pending, made, inputs, passing, req, sweeping, logoutVars>>

TakePending(w) ==
    /\ at[w] = "taking"
    /\ GoTo(w, IF pending = <<>> THEN "found" ELSE "passing")
    /\ passing' = [passing EXCEPT ![w] = pending] /\ pending' = <<>>
    /\ UNCHANGED <<mapped, made, deathVars, inputs, holds, req, sweeping, logoutVars>>

\* One of them goes into the session's channel, or is lost with its writer.
PassInput(w) ==
    /\ at[w] = "passing"
    /\ GoTo(w, IF Len(passing[w]) = 1 THEN "found" ELSE "passing")
    /\ passing' = [passing EXCEPT ![w] = Tail(@)]
    /\ inputs' = [inputs EXCEPT ![holds[w]] = @ \cup {Head(passing[w])}]
    /\ UNCHANGED <<tableVars, deathVars, holds, req, sweeping, logoutVars>>

\* WebSession::attach looks whether the session is alive ...
MayVisit(w) ==
    /\ at[w] = "found" /\ GoTo(w, IF lives[holds[w]] THEN "entering" ELSE "done")
    /\ UNCHANGED <<tableVars, deathVars, inputs, holds, passing, req, sweeping, logoutVars>>

\* ... and attaches, under a lock taken anew.
Visit(w) ==
    /\ at[w] = "entering" /\ GoTo(w, "visiting")
    /\ visitor' = [visitor EXCEPT ![holds[w]] = w]
    /\ UNCHANGED <<tableVars, lives, ending, idle, inputs, holds, passing, req, sweeping,
                   logoutVars>>

Leave(w) ==
    /\ at[w] = "visiting" /\ GoTo(w, "done")
    /\ IF visitor[holds[w]] = w
         THEN /\ visitor' = [visitor EXCEPT ![holds[w]] = NoVisitor]
              /\ idle' = [idle EXCEPT ![holds[w]] = FALSE]
         ELSE UNCHANGED <<visitor, idle>>
    /\ UNCHANGED <<tableVars, lives, ending, inputs, holds, passing, req, sweeping, logoutVars>>

-----------------------------------------------------------------------------
\* mark_tcp_dead: the connection ended, or its tasks were told.
Dies(s) ==
    /\ lives[s] /\ lives' = [lives EXCEPT ![s] = FALSE]
    /\ visitor' = [visitor EXCEPT ![s] = NoVisitor] /\ idle' = [idle EXCEPT ![s] = FALSE]
    /\ UNCHANGED <<tableVars, ending, inputs, taskVars, req, sweeping, logoutVars>>

\* send_or_defer looks for the session ...
LookUp(i) ==
    /\ req[i] = "new"
    /\ req' = [req EXCEPT ![i] = IF mapped = NoSession THEN "deferring" ELSE "sent"]
    /\ inputs' = [s \in SessionIds |-> inputs[s] \cup IF s = mapped THEN {i} ELSE {}]
    /\ UNCHANGED <<tableVars, deathVars, taskVars, sweeping, logoutVars>>

\* ... and leaves the input for the next one, even if it exists by now.
Defer(i) ==
    /\ req[i] = "deferring" /\ req' = [req EXCEPT ![i] = "sent"]
    /\ pending' = Append(pending, i)
    /\ UNCHANGED <<mapped, made, deathVars, inputs, taskVars, sweeping, logoutVars>>

\* logout: first the deferred inputs ...
LogoutPending ==
    /\ ~leaving /\ logouts < MaxLogouts
    /\ leaving' = TRUE /\ logouts' = logouts + 1 /\ pending' = <<>>
    /\ UNCHANGED <<mapped, made, deathVars, inputs, taskVars, req, sweeping>>

\* Fault: the session is forgotten and left running.
ForgetSession ==
    /\ leaving /\ leaving' = FALSE /\ mapped' = NoSession
    /\ UNCHANGED <<pending, made, deathVars, inputs, taskVars, req, sweeping, logouts>>

\* ... then the session.
LogoutSession ==
    /\ leaving /\ leaving' = FALSE /\ mapped' = NoSession
    /\ IF mapped = NoSession THEN UNCHANGED deathVars ELSE ShutDownSession(mapped)
    /\ UNCHANGED <<pending, made, inputs, taskVars, req, sweeping, logouts>>

GrowIdle ==
    /\ mapped # NoSession /\ visitor[mapped] = NoVisitor /\ ~idle[mapped]
    /\ idle' = [idle EXCEPT ![mapped] = TRUE]
    /\ UNCHANGED <<tableVars, lives, ending, visitor, inputs, taskVars, req, sweeping, logoutVars>>

\* Fault: sweep_once removes what has been idle, and leaves the dead alone.
SweepLookIdle ==
    /\ sweeping = NoSession /\ mapped # NoSession /\ visitor[mapped] = NoVisitor
    /\ idle[mapped] /\ lives[mapped]
    /\ sweeping' = mapped
    /\ UNCHANGED <<tableVars, deathVars, inputs, taskVars, req, logoutVars>>

\* sweep_once decides under the state's lock ...
SweepLook ==
    /\ sweeping = NoSession /\ mapped # NoSession /\ visitor[mapped] = NoVisitor
    /\ idle[mapped] \/ ~lives[mapped]
    /\ sweeping' = mapped
    /\ UNCHANGED <<tableVars, deathVars, inputs, taskVars, req, logoutVars>>

\* ... and removes under that of the map, if it is still the same session.
SweepRemove ==
    /\ sweeping # NoSession /\ sweeping' = NoSession
    /\ IF mapped = sweeping
         THEN mapped' = NoSession /\ ShutDownSession(sweeping)
         ELSE UNCHANGED <<mapped, deathVars>>
    /\ UNCHANGED <<pending, made, inputs, taskVars, req, logoutVars>>

-----------------------------------------------------------------------------
VisitorTask(w) ==
    \/ Find(w) \/ CheckAlive(w) \/ DropDead(w) \/ ConnectTcp(w) \/ Insert(w)
    \/ TakePending(w) \/ PassInput(w) \/ MayVisit(w) \/ Visit(w)

WebNext ==
    \/ \E w \in Visitors : VisitorTask(w) \/ Leave(w)
    \/ \E s \in SessionIds : Dies(s)
    \/ \E i \in Inputs : LookUp(i) \/ Defer(i)
    \/ LogoutPending \/ LogoutSession \/ GrowIdle \/ SweepLook \/ SweepRemove

WebSpec == WebInit /\ [][WebNext]_webVars

(* The sweeper runs for ever, a socket's task goes on until it is attached, *)
(* time passes for whoever left, and the tasks of a session end when told.  *)
WebFairness ==
    /\ WF_webVars(GrowIdle) /\ WF_webVars(SweepLook) /\ WF_webVars(SweepRemove)
    /\ \A w \in Visitors : WF_webVars(VisitorTask(w))
    /\ \A s \in SessionIds : WF_webVars(ending[s] /\ Dies(s))

WebLiveSpec == WebSpec /\ WebFairness

-----------------------------------------------------------------------------
(* Types; deferred inputs are in the hands of a task that passes them on.   *)
WebTypeOK ==
    /\ mapped \in 0 .. made /\ pending \in Seq(Inputs) /\ made \in 0 .. MaxConnects
    /\ lives \in [SessionIds -> BOOLEAN] /\ ending \in [SessionIds -> BOOLEAN]
    /\ visitor \in [SessionIds -> Visitors \cup {NoVisitor}]
    /\ idle \in [SessionIds -> BOOLEAN] /\ inputs \in [SessionIds -> SUBSET Inputs]
    /\ at \in [Visitors -> {"start", "checking", "dropping", "connecting", "inserting",
                            "taking", "passing", "found", "entering", "visiting", "done"}]
    /\ holds \in [Visitors -> 0 .. made] /\ passing \in [Visitors -> Seq(Inputs)]
    /\ req \in [Inputs -> {"new", "deferring", "sent"}] /\ sweeping \in 0 .. made
    /\ \A w \in Visitors : passing[w] # <<>> <=> at[w] = "passing"
    /\ leaving \in BOOLEAN /\ logouts \in 0 .. MaxLogouts

(* No connection to the broker is lost sight of: while one lives it is the  *)
(* token's session, or about to become it, or was told to end - whatever    *)
(* logouts, sweeps and sockets of the token race.                           *)
NoneIsLost ==
    \A s \in SessionIds : lives[s] /\ ~ending[s] =>
        mapped = s \/ \E w \in Visitors : at[w] = "inserting" /\ holds[w] = s

(* An input goes to one session, and once: it is in its channel, or waits,  *)
(* or is in the hands of the task that made the session.                    *)
InputsGoToOne ==
    \A i \in Inputs :
        /\ \A s, t \in SessionIds : i \in inputs[s] \cap inputs[t] => s = t
        /\ \A s \in SessionIds : i \in inputs[s] =>
             /\ i \notin Waiting(pending)
             /\ \A w \in Visitors : i \notin Waiting(passing[w])

(* A session that has died, or that was left for good, makes room: its token *)
(* can start afresh, unless a socket attached to it in spite of its death.   *)
DeadMakeRoom ==
    \A s \in SessionIds :
        (mapped = s /\ visitor[s] = NoVisitor) ~> (mapped # s \/ visitor[s] # NoVisitor)
=============================================================================
