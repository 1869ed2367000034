# A TLA+ model of slopmud

slopmud is a multi-user game: a broker that owns the players' connections, a
shard that runs the world, gateways and a web front end, and a source-ban
control plane (SBC) that decides which addresses are kept out and which accounts
are under legal hold.  The modules here are translated from the Rust sources;
`PROJECT.json` says for every definition which lines it stands for, which runs
check which properties, and which hazard of the code each property is for.

Run a check with `tlc -config X.cfg M` and a proof with `tlapm M.tla`.

## Inventory

| component | source | state it keeps | hard parts | what makes it right | status |
|---|---|---|---|---|---|
| sbc_raftd | `apps/sbc_raftd` | one locked `PersistedState` (bans, key index, holds, last reports, next index), broadcast channel, state file | events sent after unlocking, snapshot before subscription, crash between memory and disk, bounded receivers | indexes identify states and events; the file is a prefix of the log; the key index matches the bans | modelled, proved |
| sbc_enforcerd | `apps/sbc_enforcerd` | desired and applied bans, mode, connection, last report | two tasks on one state, reconnects, best-effort reports | the applied set follows the desired one; nothing is enforced while failing open | modelled, proved |
| sbc_deciderd, sbc_metricsd | `apps/sbc_deciderd`, `apps/sbc_metricsd` | counters, set of banned sources | stale lists, failing requests, saturation | only sources over the threshold, each once | modelled, proved |
| sbc_core | `crates/sbc_core` | none | zero and full-width masks | containment is inclusion | partly, proved |
| broker sessions | `crates/slopmud/src/main.rs` | sessions map, connection states, channel to the link | a task per connection, one link, messages lost or dropped, the map read once per reconnect | broker and shard agree on who is in the world | partly, proved |
| broker logins, accounts | `crates/slopmud/src/main.rs` | accounts and their file, prompts, login throttle | two connections on one name, failing writes, five ways in | nobody enters unproved; accounts stay; guesses are few | modelled, proved |
| broker holds | `crates/slopmud/src/hold.rs` | hold cache, a flag per session | events, answers and joining sessions out of order | cache and flags follow sbc_raftd | modelled, proved |
| scrollback, line ids, reports, near-line ring | `crates/slopmud/src/{main,nearline}.rs` | id generator, scrollback, ring of segment files | the clock set back, rotation during reads, torn lines | ids increase, the ring keeps the newest, a kept line is found | modelled |
| event log | `crates/slopmud/src/eventlog.rs` | a file per day, upload queue, bucket | midnight, upload that deletes, restart | no line is lost; old days are uploaded | modelled, proved |
| websocket gateway | `apps/ws_gateway` | a task per websocket, map of sessions, bounded channels, link | re-attachment, requests older than the link, slow clients | gateway and shard agree | modelled, proved |
| wire codecs | `crates/slopio`, `crates/mudproto` | parser state, read buffers | input cut anywhere, limits of lengths | what was typed, framed or attached is what is read | partly |
| shard rooms and parties | `apps/shard_01/src/main.rs`, `rooms.rs`, `protoadventure.rs` | party tables, occupants, dynamic rooms | tables updated separately, followers, rooms cleared under visitors | tables agree; everybody is where the index says | modelled, proved |
| shard players | `apps/shard_01/src/main.rs` | characters in play, snapshots, their file | two sessions of one principal, failed writes, hang-ups | belongings are neither lost nor doubled | modelled, proved |
| shard fights, boss, spawns | `apps/shard_01/src/main.rs` | event heap, opponents, stuns, scripted boss | chains of events, stale events, respawns | fights go on, one blow per interval, casts are announced, the tavern is tended | partly, proved |
| shard sheets and quests | `apps/shard_01/src/main.rs` | experience, mana, skills, quest flags | shared experience, flags the player may overwrite | experience adds up; gates are earned | partly, proved |
| shard groups, raft log | `apps/shard_01/src/{groups,raftlog}.rs` | append-only log, groups, capabilities | torn writes, replay, two kinds of member keys | replay gives the state; powers are granted | modelled, proved |
| web sessions | `apps/slopmud_web/src/main.rs` | resumable sessions, deferred inputs, one session's sockets | sockets attach while sessions die, sweeper | nothing is lost sight of; output arrives once | modelled, proved |
| web sign-in, OIDC provider | `apps/slopmud_web/src/main.rs`, `apps/internal_oidc` | flows and their file, codes, user file | restarts within a sign-in, repeated callbacks | one sign-in per code, by its own flow | modelled, proved |
| compliance portal | `apps/slopmud_web/src/compliance_portal.rs` | key file, pending actions, sessions, log | file rewritten without a lock | a key opens once; the log is true | modelled, proved |
| static web server, admin command line, test clients, fanzylog | `apps/static_web`, `apps/slopmud_adminctl`, ... | none whose order matters | - | - | not modelled |

How they interact: clients speak lines to the broker over TCP, directly or
through the web server's resumable sessions; the broker and the websocket gateway
forward them as framed requests over one TCP link each to a shard, which serves
one such link at a time and answers with framed responses; admin tools and the
compliance portal send one JSON request per connection to the broker's admin
port; sbc_raftd serves an admin socket (one request, one answer) and an events
socket (a snapshot, then a stream) to the enforcers and to the broker; the decider
polls sbc_metricsd over HTTP and asks sbc_raftd for bans.

## Modules

| module | extends or uses | what it is |
|---|---|---|
| `SbcRaftd` | - | the daemon: locked state, outboxes, receivers, wires, state file |
| `SbcRaftdLog` | `SbcRaftd`, `DurableLog` | the daemon with a history variable, and its refinement of a durable log |
| `DurableLog` | - | the abstract log: it grows, a prefix of it is saved, a crash cuts it back to that prefix |
| `SbcEnforcerd`, `SbcEnforcerdAlone` | - | the DNS poller and the events task of a set of nodes; the same under any events and DNS answers |
| `SbcReporter` | - | the status reporter with its kick channel and two readings of the status |
| `SbcSystem` | `SbcRaftd`, `SbcEnforcerd` | the daemon and its enforcers over their sockets, with crashes of both |
| `SbcDecider`, `IpPrefix` | - | counters and the decider's loop; prefixes as operators |
| `BrokerSessions` | - | connections, sessions map, link task, shard attach table, bans and kicks |
| `GatewaySessions` | - | the same question for `ws_gateway`: websockets, map, channel, link |
| `WireCodecs` | - | telnet bytes to lines, frames, the body of an ATTACH |
| `BrokerLogins`, `BrokerThrottle` | - | from the name prompt to a character; delays after failed passwords |
| `BrokerHolds` | - | raftd's log of one name, the cache, the flags of its sessions |
| `BrokerLines` | - | line ids, scrollback, the ring and its readers |
| `EventLog` | - | loggers, files by day, scan, upload, bucket |
| `ShardPlayers`, `ShardSheet`, `ShardQuests` | - | snapshots and belongings; experience, mana, bot mode; quest flags |
| `ShardRooms` | `ShardParties` | where the characters of parties are |
| `ShardFights`, `ShardBoss`, `ShardSpawns` | - | the event heap seen by fighters, by the boss and by the checks that populate the world |
| `ShardGroups` | - | the groups, their log and its replay |
| `WebSessions`, `WebSockets` | - | the table of sessions of one token; one session with its sockets |
| `WebSignIn`, `ComplianceKeys` | - | flows with the provider; keys of the portal |
| `DataInduction` | `TLAPS` and the library's theorems | induction over the naturals, and what it says of recursive functions and of folds |
| `SbcProofs`, `SbcPartsProofs`, `SessionsProofs`, `WorldProofs`, `LinesProofs`, `ServicesProofs`, `ProgressProofs` | their modules, `TLAPS` | theorems |
| `MC...` | their modules | values of the constants and symmetry for TLC |

Names are the code's where that is possible.  Modules that are extended together
cannot share names, so some carry a prefix (`Gate...`, `Hold...`, `Fight...`).
A definition commented `Fault` is a plausible mistake at the definition that
follows it; no specification uses it, and `PROJECT.json` says which property finds
it when it takes that definition's place.

A component's safety properties are conjuncts of one invariant, which its run
checks; when it fails, TLC prints the state, and the conjunct's comment says what
the code promised.  Each conjunct is a definition of its own, beside its comment:

| checked | in | conjuncts |
|---|---|---|
| `CopiesAreReplays` | `SbcRaftdLog` | `StateIsReplay`, `SnapshotIsReplay` |
| `MutationsTakeEffect` | `SbcRaftd` | `SavedOrUndone`, `ExpiredReaped` (liveness) |
| `NodesFollow` | `SbcSystem` | `SystemTypeOK`, `UndisturbedNodeAgrees`, `UndisturbedNodeEnforces` |
| `EnforcerInv` | `SbcEnforcerdAlone` | `TypeOK`, `OneEntryPerId`, `AppliedFollowsDesired` |
| `ReporterInv` | `SbcReporter` | `ReporterTypeOK`, `ReportsCoherent`, `ComparedIsCurrent` |
| `DeciderInv` | `SbcDecider` | `DeciderTypeOK`, `BannedAreOver`, `BannedOnce` |
| `PrefixesAgree` | `IpPrefix` | `ContainmentIsInclusion`, `CanonicalKey`, `ExemptionCoversMembers` |
| `PartsGoOn` | `MCSbcParts` | `ChangeIsReported`, `HeavySourceBanned` (liveness) |
| `GatewayInv` | `GatewaySessions` | `GatewayTypeOK`, `GatewayConverges`, `LinesFindTheirWorld`, `GatewayNeverStuck` |
| `CodecsAgree` | `WireCodecs` | `LinesAreTyped`, `FramesArriveWhole`, `AttachReadsBack` |
| `FightInv` | `ShardFights` | `FightTypeOK`, `EngagedWillAct`, `OneSwingPerInterval` |
| `PlayerInv` | `ShardPlayers` | `PlayerTypeOK`, `BelongingsAddUp` |
| `RoomInv` | `ShardRooms` | `PartyTypeOK`, `PartyTablesAgree`, `OnePartyEach`, `OccupantsAreThere` |
| `CharacterInv` | `MCWorld` | `QuestTypeOK`, `CountersCount`, `GatesAreEarned`, `SheetTypeOK`, `ExperienceAddsUp`, `BotsAgreed` |
| `GroupInv` | `ShardGroups` | `StoreIsReplay`, `LogStaysReadable` |
| `WorldSteps` | `MCWorld` | `OnlyWillingDuels`, `PlayersStayKnown`, `OnlyPartiesMoveTogether`, `NothingIsUndone`, `PowersAreGranted` (action properties) |
| `HoldInv` | `BrokerHolds` | `HoldTypeOK`, `CacheFollowsLog`, `FlagsFollowCache` |
| `AccountsInv` | `MCServices` | `LoginTypeOK`, `LoginsAreLinked`, `AdmittedIsSaved`, `ThrottleTypeOK`, `GuessesAreFew` |
| `LineInv` | `BrokerLines` | `LineTypeOK`, `RingEndsWithLatest`, `LastIsNewest`, `SubmitFinds` |
| `LogInv` | `EventLog` | `LogTypeOK`, `LinesAreKept` |
| `WebPlayersInv` | `MCServices` | `SocketTypeOK`, `OneSocketEach`, `ChunksArriveOnce`, `WebTypeOK`, `NoneIsLost`, `InputsGoToOne` |
| `SignInv` | `WebSignIn` | `SignTypeOK`, `OneSignInPerCode`, `SignedInByOwnFlow`, `StartedCanFinish` |
| `PortalInv` | `ComplianceKeys` | `PortalTypeOK`, `KeysOpenOnce`, `LogIsTrue`, `FileFollowsUse` |
| `ServicesSteps` | `MCServices` | `AccountsAreKept`, `IdsIncrease`, `UsersAreKept` (action properties) |
| `PopulationInv` | `MCProgress` | `BossTypeOK`, `OneBartender` |
| `SessionsSettle` | `MCProgress` | `BannedAreKicked`, `LeaversAreDetached` (liveness) |
| `ShardGoesOn` | `MCProgress` | `BossCastsAgain`, `TavernIsTended`, `ManaComesBack` (liveness), `OnlyAnnouncedCrushes` (an action property) |
| `ServicesGoOn` | `MCProgress` | `OldDaysAreUploaded`, `ShutSessionsLetGo`, `DeadMakeRoom` (liveness) |

The invariants of `SbcRaftd` and `BrokerSessions` are checked one by one, as are
`ImplementsDurableLog` and `BanEnforcedOrExcused`.

### sbc_raftd

`st` is the mutex-protected `PersistedState`; the HashMaps are the set `bans`,
the function `ban_by_key` and the set `holds`.  A handler's locked section is one
action; it leaves the events it made in the task's `outbox`, because the code
broadcasts after it unlocked, and `Broadcast` sends them one by one to the
receivers `rx`, which forget their oldest event at `ChannelCap`.  An events
connection goes through `Subscribe`, `SendSnapshot` (under the lock), `StartTail`
(`tx.subscribe()`, later) and `Forward`.  The persister clones the state in
`StartPersist` and writes it in `FinishPersist`, or fails in `PersistFails`;
`CrashRestart` reloads the file.  Entries keep id, prefix and expiry; who asked,
and why, is not read by any code.

### The enforcer

`SharedState` is split in `desired`, `applied` and `attached` (which the code
always moves together with the mode).  `CheckDns` is one whole locked section
of the DNS poller: with DNS in favour it attaches and applies what is neither
exempt nor expired, otherwise it drops everything.  `Receive` is one line of the
events task.  Both owe sbc_raftd apply results, which they send outside the lock:
`dns_reports` and `ev_report`.  `SbcReporter` keeps the third task, for a node
whose mode, errors and kicks matter and whose bans do not.

`SbcSystem` joins them: the lines an events connection writes are what the events
task reads, and an enforcer's request is a locked section of sbc_raftd whose
answer may be lost (`RequestFails`).  `missed` is a history variable: it becomes
true when an event is lost between snapshot and subscription, by overflow, or is
overtaken after the lock was released.

### The decider

`Count` is a line of the statsd task with its saturating counters (`MaxCount`
stands for the top of u64).  `Poll` reads the top list once; the items are handled
one by one, from a list that is old by then: `Skip`, `BanAccepted`, `BanFailed`.
sbc_raftd is present through the expiry of the bans it accepted.

### Prefixes

Addresses are numbers of `Width[f]` bits, a family `f` standing for IPv4 or
IPv6; the code's shifts and masks become divisions.  The properties compare
them with sets of addresses, over every prefix of two families of 3 and 4 bits,
which contain the lengths 0, 1 and full width.

### Broker sessions

Each session id is one connection.  `conn[s]` is where its task is: `naming`,
`creating` (authentication and the prompts of character creation), `entered`
(in the map, ATTACH not yet sent), `world`, `sending` (a line read, the channel
maybe full), `leaving`, `removed` (out of the map, DETACH not yet sent), `closed`;
a read error returns past the cleanup and ends in `failed`.  `sessions` is the
map, `chan` the bounded channel `shard_tx`.  `mgr` is where
`shard_manager_task` is: `connecting`, `reattach` (going through the snapshot
`todo` of the map), `serving`, `writing` (a message taken and not yet written)
and `offline` (emptying the channel).  The link is `up`, `cut` (lost, not
noticed: what is written now is gone) or `none`.  `wire` and `resp` are its two
directions, both bounded, so that a writer waits for its reader.  `attached` is
the shard's table, which lives and dies with the link.  The admin connection
stores a ban, collects the sessions of that name and sets their flags, in three
steps as in the code; a ban that cannot be written to its file stays in memory
and kicks nobody.

What a client is sent goes through the queue of its writer task; a full queue
makes the sending task wait, which the model has as the delay before that task's
next step.  A character ban and an address ban go the same way with another
key, so `Names` stands for either.

### The websocket gateway

`wsAt[k]` is where the task of a websocket is (reading, sending to `shardTx`,
answering, parting), `clients` the map of sessions to attach again, `tx` the
writer's bounded queue.  `owner` is where `shard_manager_task` is: `connecting`,
`attaching` (through the snapshot `again`), `serving`, `writing` or `routing`.
In contrast to the broker's link the channel is never emptied while the shard is
down, and write errors go unnoticed (`GateWriteReq`), so requests older than the
link reach the new one after the re-attachments; `GatewayConverges` says they
still leave the shard with the sessions of the map.  `GateBreak` includes the end
that a frame the shard cannot parse puts to the connection.  A client's mode is
fixed, and the frames of a FlatBuffers client name its own session; once it sends
a DETACH itself it is in `quit`, for the map keeps its session.  Liveness is not
checked for the gateway, only that it is never stuck by itself: `GatewayNeverStuck`
writes out the guards of the tasks' next steps (`CanSend`, `CanWrite`, `CanServe`),
so that a theorem can state it.

### The bytes

`WireCodecs` sends the bytes of a client, or of a frame writer, through reads of
every length.  `ParseByte` is `IacParser::parse` for one byte and `ParseBytes` for a
read, `PopLine` is `try_pop_line` and `PopLines` its loop, `TakeFrame`, `RefuseFrame` and `ReadBuf` are the
branches of `read_frame`, `Encoded` and `Parsed` an ATTACH at the broker and at
the shard.  Loops are recursive functions on the turns taken.
`LinesAreTyped` compares the lines and the replies with what was meant (`Meant`).  It excepts one
case, which the code has: if a read ends between the CR and the NUL of a line's
end, the NUL starts the next line, in spite of the comment in `try_pop_line`.

### Logins, holds, lines and the event log

`BrokerLogins` keeps for each connection where it is (`name`, `looking`, `method`,
a proof under way, creation, admitted or gone), the accounts in memory and in
their file, and which password or subject each account ever had (`linked`).  Two
tasks that both found a name free (`raced`) and a save that failed (`unsaved`) are
the exceptions the code has.  `BrokerThrottle` is the pair of tables that delay
password guesses; a guess that was typed before another one failed is not
delayed by it, so `GuessesAreFew` bounds the failures by the time they took, with
one guess per prompt to spare.

`BrokerHolds` takes raftd's log of one name as given.  The events task
and the `accounthold` commands each write the cache under one lock and the flags
under another; `CacheFollowsLog` and `FlagsFollowCache` hold apart from stale
answers (the index is not compared), events that fell between snapshot and
subscription, and sessions that enter across a change.  raftd's own restarts are
in `SbcRaftdLog`.

`BrokerLines` gives out line ids and keeps them in the scrollback and, through a
queue that may drop them, in the ring of segment files.  A rotation is two steps,
any of which may fail or be cut by a crash, and the readers run beside the writer;
`SubmitFinds` states the code's exception, that a line followed by fewer lines
than the context is not found in the ring.

`EventLog` dates a line before the lock, so that a logger can meet a writer of the
day after; the upload deletes a file after its upload, and the days that were
appended to late (`late`) are those that may lose lines.

### The world of the shard

The shard's loop handles what is due in its heap, then one request.  Each module
keeps of the heap the events its part is about.  `ShardFights` counts the
`CombatAct` events of each fighter by the time left, `ShardBoss` keeps the
announcements and resolutions of the boss, `ShardSpawns` the chains that keep the
tavern and the training room populated.  Commands, stuns, deaths, returns and
restarts of chains are actions; damage is one hit point.

`ShardParties` has the two membership tables with invitations; `ShardRooms` adds
rooms, occupants, followers, and the dynamic rooms of party runs and proto
adventures.  `ShardPlayers` keeps a ledger of what each principal was issued,
found and drank, against which `BelongingsAddUp` compares characters, snapshots
and file.  `ShardSheet` shares experience in a party; `ShardQuests` lets the player
overwrite flags, with what that is worth.  `ShardGroups` replays its log file,
whose last line may be open or torn, at the start of each world.

### The web server

`WebSessions` is the table of one resume token: sockets that start or resume a
session, logouts, the sweeper, and inputs that wait for a session.  `WebSockets` is
one session: the TCP reader and writer, the buffer, the client with its queue,
and sockets that replace each other.  `WebSignIn` joins the handlers of the web
server with the provider and lets each restart in the middle of a flow.
`ComplianceKeys` reads, changes and writes the key file in separate steps; its
first and third property hold as long as no two requests overlap (`overlaps`),
and TLC reaches the overlaps.

What the code does there and the properties leave room for: a socket that attaches
to a session which died a moment ago is never cut off; new output may overtake the
buffered copy; a replaced socket that does not read holds the TCP reader; and of a
session whose state was locked when it was shut down, the comment "the sweeper
will retry later" is not true, it is let go by the other branches.

## Runs

Several runs explore parts that do not interact, side by side: a variable `part`
chooses one at the start and the others stay as they start.  The state space is the
sum of the parts', and a property of a part is checked in all of its behaviours.

| run | question | instance and why it is enough |
|---|---|---|
| `raftd` | Do two admin clients, reaper, persister, subscriber and crashes keep state, file, index, events and snapshots consistent, and is the daemon a durable log? | 2 prefixes, as many ids as bans can be made, 2 indexes, clock to 2: two tasks can hold events at once, indexes are reused after a crash, a renewal meets an expiry, the receiver (capacity 1) overflows |
| `raftd_progress` | Do changes reach the disk and do expired bans go? | every kind of request with failing writes and crashes, one client |
| `reporter_stale` | Is the last report current? (it is not, see Findings) | one error, no failure |
| `system` | Is a disturbance that `missed` records the only reason for a node to disagree with sbc_raftd? | 1 node at a time, one with a snapshot and one that only tails (nodes share nothing but sbc_raftd), 1 prefix, 3 indexes: upsert, renewal, delete and expiry, one crash |
| `system_reports` | The same with apply results, an exempt prefix, and progress | reports stored and broadcast among the events |
| `system_gap` | Does a connected node hold sbc_raftd's bans? (it does not, see Findings) | two indexes suffice |
| `sbc_parts` | Enforcer, reporter, decider, prefixes | 2 prefixes, one exempt, bans with and without expiry; two DNS errors and the code's kick channel of 2 with a failing request; 3 sources, one exempt, the list long enough for all; all prefixes of families of 3 and 4 bits |
| `sessions` | Do broker and shard, and gateway and shard, agree on who is in the world; do bytes survive their reads? | 2 sessions, channel of 2, link of 1 in each direction, one ban, two losses: a connection enters or leaves at every point of a reconnect and the second loss meets the re-attachments of the first.  The gateway: a client of each mode, two attaches, all queues of 1, one lost link: an old session's DETACH is still in the channel when the next link and session come.  3 things typed and 3 frames of length 0 to 3 with the limit 2, cut everywhere |
| `world` | Fights, players, parties with rooms, quests, groups, sheets | 2 players and a mob with 2 hit points and stuns; 2 sessions of 2 principals, with failed writes and restarts; 3 characters in 2 parties, so that one moves from one to the other; 1 group beyond the two that exist at the start and a log of 6 entries, two of them commands' |
| `group_officers` | Can an officer manage the group? (not so, see Findings) | one group |
| `services` | Holds, logins, throttle, lines, event log, sockets, session table, sign-in, compliance keys | 2 changes of a hold with one cut, enough for two writes and two events to cross; 2 clients on one name with one failing save; 2 addresses for one name; 3 lines through a ring of 2 segments of 1 with one fault; 2 loggers, 3 lines, midnight, one restart; 2 sockets or visitors; 2 flows and 2 users with a restart; 2 keys and 2 requests: whatever overlaps does so in pairs |
| `progress` | What must happen in the end: banned sessions are kicked and those that left are detached, the boss casts again, the bartender returns, mana comes back, old days are uploaded, sockets are let go, dead sessions make room | 1 session, for sessions wait for each other only through the channel and the link; 2 sockets, 2 visitors; the others as in their safety runs |

Deadlock is checked except in the runs of players and clients, where all may
have ended and nothing is left to do.

Bounds in guards, each of which stops a counter and none a task halfway:
`MaxTime`, `MaxIndex`, `MaxCrashes`, `MaxFails`, `MaxCount`, `MaxClock` (SBC);
`MaxBreaks`, `MaxAttaches`, `MaxGateBreaks`, `MaxTyped`, `MaxFrames` and one ban per
name (sessions); `MaxChanges`, `MaxCuts`, `MaxSaveFails`, `MaxEntries`,
`MaxSeconds`, `MaxLines`, `MaxMillis`, `MaxFaults`, `MaxLogged`, `LastDay`,
`MaxStops` (broker); `MaxChars`, `MaxParties`, `MaxGroups`, `MaxLog`, `MaxPoll`,
`MaxRank`, `MaxSlain`, `MaxLoot`, `MaxHp`, `MaxActs`, `MaxLate`, `MaxChains`,
`MaxWorms` (shard); `MaxChunks`, `MaxConnects`, `MaxLogouts`, `MaxCodes`,
`MaxPasswords`, `MaxRestarts`, `MaxPrepared`, `MaxPortalStops` (web).

### Fairness

* sbc_raftd: timers fire and spawned tasks run (weak fairness of `Tick`, `Reap`,
  `Broadcast`, `StartPersist`); a write that fails again and again is excluded
  by strong fairness of `FinishPersist`, and nothing is assumed of clients.
* Reporter and system: tasks run, requests return with an answer or an error.
* Decider: the loop polls for ever; a ban asked again and again is accepted once.
* Sessions: every ready task is run; `select!` picks at random, so a branch that
  is ready again and again is taken (strong fairness of `Take`, `Route`,
  `SeeLinkCut`); a bounded tokio channel serves waiting senders in turn (strong
  fairness of a send); the offline loop, which only discards, finds the channel
  empty at some point (strong fairness of `Retry`).  A client need not type or
  leave, but takes what it is sent or its connection fails.
* Boss, spawns, sheet: what is due is handled (weak fairness), and the clock goes
  on whenever nothing is due (strong, for commands come in between).
* Event log: the scan, the upload's loop and its requests run; an upload tried
  again and again succeeds once (strong fairness of `PutDone`).
* Web: the tasks run, the clock and the sweeper's interval go on, a socket is read
  or fails, and a session told to end ends.  No socket need send anything.

### What the session properties say

`ShardConverges` is the centre: while the link is up, what the shard holds plus
everything under way to it (wire, re-attachments still to write, the message held
back, the channel, the ATTACH or DETACH about to be sent) adds up to the broker's
map.  So a player never stays in the world without a session, whatever was
lost with an earlier link or dropped offline.  It holds because a loss of the
link empties the shard's table, a reconnect starts from the map, and the
connection removes itself from the map before it sends its DETACH.
`LinesFindTheirSession` is the order: an ATTACH is ahead of the lines.
`OnlyErrorsLeaveGhosts` states the exception the code has: a read error
(`res?`) leaves the session in the map for good, and each reconnect attaches it
again.

Both progress properties exclude the state `Jammed`: the link task writes a
request without reading responses, the shard writes responses without reading
requests, and with both buffers full each waits for the other until the link
breaks.

## Proofs

A theorem is named after its property with `Holds` added, unless it says otherwise.  Its
hypotheses are the assumptions of the modules about their constants and nothing else: sets
of names are arbitrary (finite where something is summed or drawn from them), bounds are
naturals, capacities are positive, values that stand for "none" are no members.  TLC
evaluates each assumption on the constants of its runs.

Induction is available to the provers only as a theorem about sets.  `DataInduction`
derives it from the library's well-foundedness of `<` (`LeastNumber`, `Induction`,
`InductionUpTo`), and from it that the functions the models define by recursion exist
and satisfy their equations (`IteratesExist`, `IteratesAgree`), and that the folds of the
community modules sum (`SumOver`, `SumComputes`).  The proofs about replays, experience,
throttle delays, event tables, masks, and loops over bytes rest on it.

### Source bans

`SbcProofs`: `TypeOK` (`TypeCorrect`), `IndexNamesState`, `CaughtUpMeansSaved`,
`KeyIndexed` and `IndexesUnique`.  Only the types are inductive.  `IndexInv` adds that the
persister has never seen an index above the present one, and sorts every step into
mutations (the index grows), the persister's steps, a crash (the file becomes the state) and
the rest.  `KeyInv` adds that every id of a table has been drawn before (`usedIds`), without
which a fresh id could meet an old entry.  `CopiesAreReplays` says of each copy of the
tables - memory, file, the persister's clone, snapshots - that it is the replay of the events
below its index; the invariant carries the replay of the whole log along, and the induction
shows that a replay up to an index does not look beyond it.  `DurableLogImplemented` is the
refinement: every step of the daemon, crashes included, is a step of `DurableLog` or leaves
its variables alone.

`NodesFollowRaftd`, of `SbcSystem`: what is under way to a node - the snapshot not
yet read, the wire, its receiver, the outboxes - is read one ban id at a time: the last
line about an id says what raftd's entry is, and without a line the node's entry is it.
The parts of the invariant are the events still to be broadcast, the stream from sbc_raftd to a
node, one prefix per id wherever it is, and what the node applies of what it holds.

`SbcPartsProofs`: `EnforcerInv` of the enforcer under any events and DNS answers;
`ReporterInv`, by what the two readings can differ in; `DeciderInv`, where the list being worked on
may be old, so that what was counted when it was read has to be remembered.
`PrefixesAgree` is arithmetic, for addresses of any width: agreement bit by bit is equality of the
leading bits read as one number (`LeadOfBits`, by induction on the length), masking
multiplies that number back, and a prefix that leaves bits open has two members that differ in the
next one (`MembersSplit`), so inclusion orders the lengths.

### Sessions

`SessionsProofs`, for any number of sessions, any capacities and any number of link losses:
`TypeOK`, `ShardConverges`, `LinesFindTheirSession` and `OnlyErrorsLeaveGhosts` of the broker.
None is inductive but the types.  The invariant speaks of one session at a time
(`Life(s)`), beside the types and the places of the link's task (`Base`): where its
own task is while it is in the map and while it is not (`MapInv`); that its DETACH is the
last of its messages (`DetachInv`); that nothing of it is under way before it enters
(`QuietInv`); that an ATTACH is still to come for a session in the map that is not attached
(`ComingInv`), and none that has no DETACH behind it for a session that is gone
(`GoingInv`); that lines have an ATTACH ahead of them (`LinesInv`).

`GatewayInv` goes the same way with `GatewayIInv`.  The gateway never empties its channel, so
what has still to reach a link (`ToCome`) is one sequence: the message held back, then the channel;
re-attachments go in front of it.  `MapHolds`, `FreshHolds`, `GoneHolds`, `ComingHolds`,
`GoingHolds` and `LinesHold` say of a session what that sequence, the wire and the shard's
table have of it, and `Like`, `Put` and `Drop` how each step changes the sequence.
`GatewayNeverStuck` follows from the places of the tasks (`GatePlaces`, `TasksInv`).

`CodecsAgree` has `CodecIInv`, for any number of things typed and frames written and any
largest lengths.  A loop over bytes is a fold (`Fold`), of which two parts are one after the
other (`FoldConcat`): that is why it does not matter where bytes are cut.

* Telnet: the parser and the lines, run *ahead* over the bytes not yet read, end where what was
  typed does (`LinesAhead`).  Data already parsed are not looked at again (`ParseBehind`),
  each thing a client sends is parsed to its data and its answer (`CharParsed` to `SubParsed`),
  and lines popped at the end of each read are those that end with each byte (`PopsOn`),
  provided that no NUL is parted from its CR.
* Frames: buffer, pipe and what a cut took away are, joined, the frames that are left
  (`OnItsWay`); a header at the front is that of the next one, so a frame taken is whole and
  one refused is beyond the limit.
* ATTACH: a part read from a body that has it there leaves the rest of the body (`PartOn`), the
  token first, then four times; `Stands` says what is left from a place on.

### The world

`WorldProofs` has one inductive invariant per part, and joins them in `WorldHolds`, a theorem
about the specification that the run checks.

* `RoomInv`: a session's character is its own, one that has not been made is in no table, and
  one in a party is online (`PartyIInv`); the rooms follow.
* `FightInv`: who fights has a target, and who struck in this interval waits or fights no more.
* `PlayerInv`: a principal that is not spoiled is played by at most one session, and what it
  holds there or in its snapshot adds up; the file is behind the snapshots.
* `CharacterInv`: the counters count (for one to three contracts and valves, the texts
  of the flags being "0" to "3"); experience of all characters together is a fold, of which a
  step changes one member or shares out a sum.
* `GroupInv`: replaying entries in one go or in two is the same, so appending to log and
  store in one step keeps them equal; the log is whole unless a write was cut.
* `WorldSteps`: the five action properties, each from the invariant of its part.

`ProgressProofs`: there is one bartender at most, and one while the chain of checks runs
(`PopulationInv`, of the specification the run checks), and `OnlyAnnouncedCrushes`: one resolution
at most is the boss's own, and while it is pending the cast was announced and not
interrupted.  `CastBeforeNext` carries `FirstCast <= Cadence`, which the proof of the types asked
for (a pending announcement is at most `Cadence` away); the code's are 800 and 6500 ms.

### Services

`ServicesProofs`, joined in `ServicesHold`, a theorem about the specification the run checks:

* `HoldInv`: the newest position is in the cache, or was, or is on its way, and who wrote the
  cache last has yet to write the flags or the flags agree.
* `AccountsInv`: who looked at a free name that is taken since is known to be late (`raced`);
  what a table of the throttle remembers counts together with the guesses that are out, each of
  which passed the delay or was out before the last failure was told.
* `LineInv` (`LinesProofs`, `LineIInv`): the ring is the segments joined from the one after the writer's
  (`Ordered`), all full from the first with a record up to the writer's (`RingFull`), and between
  the two steps of a turn the writer's is empty (`RingShape`); so a write changes its end, a turn
  takes the oldest segment off, which `Guarded` records behind the end do not reach.  The ids of
  the character ascend from segment to segment, then in the queue, and the scrollback has
  all of them from its first on (`LinesSorted`); a report knows of the segments it has read
  that they are newer, or older, than the others (`ReaderHolds`), and counts what is left
  when the scrollback's lines are taken out.  All of it but the types is up to the first failed
  rotation, or clock set back over a restart.
* `LogInv`: a day whose file goes to the upload is over or already counted as late, and its
  object has what its file had.
* `WebPlayersInv`: a waiting input is nowhere else; what reached the socket, what is queued,
  what is left of its copy of the buffer and what the reader is sending are disjoint.
* `SignInv`: a code belongs to its callback once exchanged; who edits the user file has read
  what is in it.
* `PortalInv`: while no two requests had the key file at once, the one that has it has read it.
* `ServicesSteps`: accounts, ids and users, from these invariants.

### Only model-checked

* Liveness: `MutationsTakeEffect`, `BanEnforcedOrExcused`, `PartsGoOn`, `SessionsSettle`,
  `ServicesGoOn` and the three liveness conjuncts of `ShardGoesOn`; the prover has no rule for
  fairness and ENABLED.

## Findings

* `system_gap`: an event broadcast between a subscriber's snapshot and its
  subscription reaches no receiver, so a connected enforcer can keep bans that
  differ from sbc_raftd's (`apps/sbc_raftd/src/main.rs:388-406`).
* `reporter_stale`: a status that changes between the reporter's two readings
  and changes back is not reported again (`apps/sbc_enforcerd/src/main.rs:271-311`).
* `group_officers`: `group add` stores a member under its principal,
  capabilities are looked up by character name, so an officer or owner who was
  added has no capability in the group (`apps/shard_01/src/main.rs:2809-2818`).

## Not modelled, and why

* `SbcRaftd`: requests that change nothing; the clocks of different hosts are one.
  A subscriber that disconnects by itself is in `SbcSystem` only (`EnforcerCrash`).
* `BrokerSessions`: texts, the contents of the shard's answers, and its world behind
  the attach table; how a connection gets its name is in `BrokerLogins`, what it is
  shown in `BrokerLines`.  Commands that only show something have no action.
* `BrokerLogins`: a password or subject is who knows it.  Mail of reports is an
  effect outside, `report search` reads as `report last` does.
* `ShardFights`: mobs of the class halls and wandering mobs repeat the same chains.
  `ShardSheet`: stamina is kept like mana.  `ShardQuests`: pylons are lit as valves
  are turned.  The questions of character building, exits and room texts are data.
* `WebSessions`: sockets without a resume token, which share nothing.
  `WebSignIn`: signatures, forms and pages.  `ComplianceKeys`: actions other than a
  ban, which go the same way; downloads only read.
* `WireCodecs`: the other messages of `mudproto`, a tag, a session and bytes;
  `LineReader` and `chat.rs` are used by no program.
* The static web server pipes bytes and serves files; the admin command line sends
  one request; test clients and the logging set-up keep no state whose order matters.

## Plan

The components that keep state are modelled, and every safety invariant
and action property of the passing runs is a theorem.  What is left:

1. The refinement of an abstract ring, which keeps the newest records, by the
   segment files; `RingEnds` is its refinement mapping's main fact.
2. The other messages of `mudproto`, beside ATTACH.

Liveness stays with TLC.
