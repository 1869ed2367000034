----------------------------- MODULE MCProgress -----------------------------
(* What must happen in the end, of the parts that run by themselves, side   *)
(* by side: each behaviour is one of the sessions with the link, of the     *)
(* caster, of the spawns, of a character's sheet, of the event log, of a    *)
(* web session's sockets or of the table of web sessions, and the other     *)
(* parts stay as they start.                                                *)
EXTENDS BrokerSessions, ShardBoss, ShardSpawns, ShardSheet, EventLog,
        WebSockets, WebSessions, TLC

VARIABLE part

shardVars    == <<bossVars, spawnVars, sheetVars>>
clientVars   == <<socketVars, webVars>>
progressVars == <<part, vars, shardVars, logVars, clientVars>>

OnlySessions == part = "sessions" /\ UNCHANGED <<part, shardVars, logVars, clientVars>>
OnlyBoss     == /\ part = "boss"
                /\ UNCHANGED <<part, vars, spawnVars, sheetVars, logVars, clientVars>>
OnlySpawns   == /\ part = "spawns"
                /\ UNCHANGED <<part, vars, bossVars, sheetVars, logVars, clientVars>>
OnlySheet    == /\ part = "sheet"
                /\ UNCHANGED <<part, vars, bossVars, spawnVars, logVars, clientVars>>
OnlyLog      == part = "log" /\ UNCHANGED <<part, vars, shardVars, clientVars>>
OnlySockets  == part = "sockets" /\ UNCHANGED <<part, vars, shardVars, logVars, webVars>>
OnlyWeb      == part = "web" /\ UNCHANGED <<part, vars, shardVars, logVars, socketVars>>

ProgressInit ==
    /\ part \in {"sessions", "boss", "spawns", "sheet", "log", "sockets", "web"}
    /\ Init /\ BossInit /\ SpawnInit /\ SheetInit /\ LogInit /\ SocketInit /\ WebInit
    /\ part # "sessions" => shardUp
    /\ part # "sheet" => \A h \in Heroes : sheet[h] = New(FALSE)

ProgressNext ==
    \/ OnlySessions /\ Next
    \/ OnlyBoss     /\ BossNext
    \/ OnlySpawns   /\ SpawnNext
    \/ OnlySheet    /\ SheetNext
    \/ OnlyLog      /\ LogNext
    \/ OnlySockets  /\ SocketNext
    \/ OnlyWeb      /\ WebNext

-----------------------------------------------------------------------------
(* The fairness of the parts' own specifications, each for its behaviours.  *)
SessionsFairness ==
    /\ WF_vars(part = "sessions" /\ Manager)
    /\ WF_vars(part = "sessions" /\ HandleRequest)
    /\ WF_vars(part = "sessions" /\ ShardStarts)
    /\ SF_vars(part = "sessions" /\ Route)
    /\ SF_vars(part = "sessions" /\ SeeLinkCut)
    /\ SF_vars(part = "sessions" /\ Retry)
    /\ WF_vars(part = "sessions" /\ (\/ CollectTargets \/ KickDone
                                     \/ \E s \in Sessions : Kick(s)))
    /\ \A s \in Sessions :
         /\ SF_vars(part = "sessions" /\ (SendAttach(s) \/ SendLine(s) \/ SendDetach(s)))
         /\ SF_vars(part = "sessions" /\ disc[s] /\ LeaveLoop(s))
         /\ WF_vars(part = "sessions" /\ LeaveMap(s))

ShardFairness ==
    /\ WF_bossVars(part = "boss" /\ BossTelegraph)
    /\ WF_bossVars(part = "boss" /\ BossResolve)
    /\ WF_spawnVars(part = "spawns" /\ Handling)
    /\ WF_sheetVars(part = "sheet" /\ Polled)

StorageFairness ==
    /\ WF_logVars(part = "log" /\ Scan) /\ WF_logVars(part = "log" /\ TakeBatch)
    /\ WF_logVars(part = "log" /\ DeleteFile)
    /\ WF_logVars(part = "log" /\ (PutDone \/ PutFails))

ClientFairness ==
    /\ \A w \in Sockets :
         /\ WF_socketVars(part = "sockets" /\ SocketTask(w))
         /\ WF_socketVars(/\ part = "sockets" /\ wsQueue[w] # <<>>
                          /\ (WriteSocket(w) \/ WriterEnds(w)))
         /\ WF_socketVars(part = "sockets" /\ cancel[w] /\ WriterEnds(w))
    /\ WF_socketVars(part = "sockets" /\ SendOutput)
    /\ WF_socketVars(part = "sockets" /\ Announce)
    /\ WF_socketVars(part = "sockets" /\ tcpTold /\ TcpWriterEnds)
    /\ WF_webVars(part = "web" /\ GrowIdle) /\ WF_webVars(part = "web" /\ SweepLook)
    /\ WF_webVars(part = "web" /\ SweepRemove)
    /\ \A w \in Visitors : WF_webVars(part = "web" /\ VisitorTask(w))
    /\ \A s \in SessionIds : WF_webVars(part = "web" /\ ending[s] /\ Dies(s))

\* A behaviour has one part: one conjunct states a strong fairness of each.
StrongFairness ==
    SF_progressVars(\/ OnlySessions /\ Take
                    \/ OnlyBoss /\ BossTick
                    \/ OnlySpawns /\ NothingDue /\ SpawnTick
                    \/ OnlyLog /\ PutDone)

ProgressSpec ==
    /\ ProgressInit /\ [][ProgressNext]_progressVars
    /\ SessionsFairness /\ ShardFairness /\ StorageFairness /\ ClientFairness
    /\ StrongFairness

-----------------------------------------------------------------------------
(* The liveness properties that the frozen state of a part would refute.    *)
\* ManaReturns, while the sheet runs.
ManaComesBack == part = "sheet" => ManaReturns
\* BartenderReturns, while the spawns run.
TavernIsTended == part = "spawns" => BartenderReturns

\* The spawns and the caster keep their pending events in order, however many
\* checks and casts are under way.
PopulationInv == BossTypeOK /\ OneBartender

\* Sessions settle: a banned player's sessions are kicked, and the shard is
\* told of everyone who left.
SessionsSettle == BannedAreKicked /\ LeaversAreDetached

\* The shard goes on: the caster crushes only what it announced and casts
\* again, the tavern is tended, and mana comes back.
ShardGoesOn == /\ OnlyAnnouncedCrushes /\ BossCastsAgain
               /\ TavernIsTended /\ ManaComesBack

\* The services go on: old days are uploaded, sockets of a session that ended
\* are let go, and dead sessions make room.
ServicesGoOn == OldDaysAreUploaded /\ ShutSessionsLetGo /\ DeadMakeRoom

=============================================================================
