----------------------------- MODULE BrokerHolds ----------------------------
(* Legal holds in the broker: the log of sbc_raftd decides whether a name   *)
(* is held; the broker keeps a cache of the holds (hold.rs) and a flag in   *)
(* each session, and its events task and the `accounthold` commands write   *)
(* both, the cache and the flags under two locks taken one after the other. *)
(* Names are independent of each other: one name, whose sessions are        *)
(* HoldSessions.  HoldCache.last_index is written but never compared.       *)
EXTENDS Naturals, Sequences, SequencesExt

CONSTANTS HoldSessions,  \* the sessions of the name
          Operators,     \* the administrators who type `accounthold`
          MaxChanges,    \* bound: entries of raftd's log about the name
          MaxCuts        \* bound: losses of the events connection

ASSUME HoldBounds == MaxChanges \in Nat /\ MaxCuts \in Nat /\ "watcher" \notin Operators

VARIABLES
    holdLog,   \* raftd's log of the name: TRUE is a hold, FALSE its release
    feed,      \* events on their way to the broker: positions in the log
    link,      \* the events connection: "down", "joining" or "up"
    cuts,      \* bound: connections lost so far
    cached,    \* HoldCache: the position whose value it holds
    watcher,   \* sbc_holds_events_task: its step and the event it holds
    command,   \* per operator: its step and the position it was answered
    marks,     \* per session: where it is and its flag SessionInfo.held
    newest,    \* history: the newest position the cache ever took
    missed,    \* history: the log grew while the connection was joining
    lastBy,    \* history: who wrote the cache last
    crossed    \* history: the sessions whose flag an older write set last

holdVars == <<holdLog, feed, link, cuts, cached, watcher, command, marks,
              newest, missed, lastBy, crossed>>

Positions == 0..MaxChanges

\* Position 0 is the empty log: nothing is held.
HeldAt(i) == i > 0 /\ holdLog[i]
Truth     == HeldAt(Len(holdLog))

HoldInit ==
    /\ holdLog = <<>> /\ feed = <<>> /\ link = "down" /\ cuts = 0
    /\ cached = 0 /\ watcher = [at |-> "reading", pos |-> 0]
    /\ command = [o \in Operators |-> [at |-> "idle", pos |-> 0]]
    /\ marks = [s \in HoldSessions |-> [at |-> "out", held |-> FALSE]]
    /\ newest = 0 /\ missed = FALSE /\ lastBy = "watcher" /\ crossed = {}

-----------------------------------------------------------------------------
(* raftd appends a hold or a release; it publishes the event after it has   *)
(* unlocked its state, so two events may swap, and a subscriber that has    *)
(* its snapshot but not its subscription yet does not get it.               *)
Append1(hold) ==
    /\ Len(holdLog) < MaxChanges
    /\ holdLog' = Append(holdLog, hold)
    /\ \/ link # "up" /\ feed' = feed
       \/ link = "up" /\ feed' = Append(feed, Len(holdLog'))
       \/ /\ link = "up" /\ feed # <<>>
          /\ Last(feed) = Len(holdLog)   \* still to be published
          /\ feed' = Front(feed) \o <<Len(holdLog'), Len(holdLog)>>
    /\ missed' = (missed \/ link = "joining")

(* Another broker, or a tool, changes the hold.                             *)
ChangeElsewhere ==
    /\ \E hold \in BOOLEAN : Append1(hold)
    /\ UNCHANGED <<link, cuts, cached, watcher, command, marks, newest, lastBy,
                   crossed>>

-----------------------------------------------------------------------------
(* HoldCache.apply_snapshot, apply_upsert and apply_delete: the value of a   *)
(* log entry, whatever the cache held before.                               *)
ApplyHoldsOnly(i, who) ==   \* Fault: a release leaves the cache alone.
    /\ cached' = IF i > 0 /\ ~HeldAt(i) THEN cached ELSE i
    /\ newest' = IF cached' > newest THEN cached' ELSE newest
    /\ lastBy' = who

Apply(i, who) ==
    /\ cached' = i
    /\ newest' = IF i > newest THEN i ELSE newest
    /\ lastBy' = who

(* The flags of the sessions of the name that are in the map.               *)
InMap == {s \in HoldSessions : marks[s].at = "in"}

Mark(hold, who) ==
    /\ marks' = [s \in HoldSessions |->
                    IF s \in InMap THEN [marks[s] EXCEPT !.held = hold]
                    ELSE marks[s]]
    /\ crossed' = IF lastBy = who THEN crossed \ InMap ELSE crossed \cup InMap

-----------------------------------------------------------------------------
(* sbc_holds_events_task connects and subscribes with a snapshot: raftd     *)
(* reads the snapshot, then joins the subscriber to its events.             *)
Subscribe ==
    /\ link = "down" /\ watcher.at = "reading"
    /\ link' = "joining"
    /\ feed' = <<Len(holdLog)>>
    /\ missed' = FALSE
    /\ UNCHANGED <<holdLog, cuts, cached, watcher, command, marks, newest,
                   lastBy, crossed>>

Join ==
    /\ link = "joining"
    /\ link' = "up"
    /\ UNCHANGED <<holdLog, feed, cuts, cached, watcher, command, marks, newest,
                   missed, lastBy, crossed>>

(* The connection fails: what was on its way is lost.                       *)
Cut ==
    /\ link # "down" /\ cuts < MaxCuts
    /\ link' = "down" /\ feed' = <<>> /\ cuts' = cuts + 1
    /\ UNCHANGED <<holdLog, cached, watcher, command, marks, newest, missed,
                   lastBy, crossed>>

(* A snapshot or an event is applied to the cache, and then, under the      *)
(* other lock, to the sessions.                                             *)
ReadEvent ==
    /\ watcher.at = "reading" /\ feed # <<>>
    /\ Apply(Head(feed), "watcher")
    /\ feed' = Tail(feed)
    /\ watcher' = [at |-> "marking", pos |-> Head(feed)]
    /\ UNCHANGED <<holdLog, link, cuts, command, marks, missed, crossed>>

MarkEvent ==
    /\ watcher.at = "marking"
    /\ Mark(HeldAt(watcher.pos), "watcher")
    /\ watcher' = [watcher EXCEPT !.at = "reading"]
    /\ UNCHANGED <<holdLog, feed, link, cuts, cached, command, newest, missed,
                   lastBy>>

-----------------------------------------------------------------------------
(* `accounthold add` and `accounthold del`: raftd serves the request, its   *)
(* answer may be lost, and an answer that arrives is applied like an event. *)
Ask(o) ==
    /\ command[o].at = "idle"
    /\ \E hold \in BOOLEAN : Append1(hold)
    /\ command' = [command EXCEPT ![o] = [at |-> "answered",
                                          pos |-> Len(holdLog')]]
    /\ UNCHANGED <<link, cuts, cached, watcher, marks, newest, lastBy, crossed>>

AnswerLost(o) ==
    /\ command[o].at = "answered"
    /\ command' = [command EXCEPT ![o] = [at |-> "idle", pos |-> 0]]
    /\ UNCHANGED <<holdLog, feed, link, cuts, cached, watcher, marks, newest,
                   missed, lastBy, crossed>>

ApplyAnswer(o) ==
    /\ command[o].at = "answered"
    /\ Apply(command[o].pos, o)
    /\ command' = [command EXCEPT ![o].at = "marking"]
    /\ UNCHANGED <<holdLog, feed, link, cuts, watcher, marks, missed, crossed>>

MarkAnswer(o) ==
    /\ command[o].at = "marking"
    /\ Mark(HeldAt(command[o].pos), o)
    /\ command' = [command EXCEPT ![o] = [at |-> "idle", pos |-> 0]]
    /\ UNCHANGED <<holdLog, feed, link, cuts, cached, watcher, newest, missed,
                   lastBy>>

-----------------------------------------------------------------------------
(* A session reads the cache, and enters the map after that.                *)
ReadHold(s) ==
    /\ marks[s].at = "out"
    /\ marks' = [marks EXCEPT ![s] = [at |-> "entering",
                                      held |-> HeldAt(cached)]]
    /\ UNCHANGED <<holdLog, feed, link, cuts, cached, watcher, command, newest,
                   missed, lastBy, crossed>>

EnterMap(s) ==
    /\ marks[s].at = "entering"
    /\ marks' = [marks EXCEPT ![s].at = "in"]
    /\ crossed' = IF marks[s].held = HeldAt(cached) THEN crossed
                  ELSE crossed \cup {s}
    /\ UNCHANGED <<holdLog, feed, link, cuts, cached, watcher, command, newest,
                   missed, lastBy>>

LeaveHeld(s) ==
    /\ marks[s].at = "in"
    /\ marks' = [marks EXCEPT ![s] = [at |-> "out", held |-> FALSE]]
    /\ crossed' = crossed \ {s}
    /\ UNCHANGED <<holdLog, feed, link, cuts, cached, watcher, command, newest,
                   missed, lastBy>>

HoldNext ==
    \/ ChangeElsewhere
    \/ Subscribe
    \/ Join
    \/ Cut
    \/ ReadEvent
    \/ MarkEvent
    \/ \E o \in Operators : Ask(o) \/ AnswerLost(o) \/ ApplyAnswer(o)
                            \/ MarkAnswer(o)
    \/ \E s \in HoldSessions : ReadHold(s) \/ EnterMap(s) \/ LeaveHeld(s)

HoldSpec == HoldInit /\ [][HoldNext]_holdVars

-----------------------------------------------------------------------------
\* Every variable keeps its type: HoldCache, SessionInfo.held and the two
\* tasks that write them.
HoldTypeOK ==
    /\ holdLog \in Seq(BOOLEAN) /\ Len(holdLog) \in Positions
    /\ \A i \in DOMAIN feed : feed[i] \in 0..Len(holdLog)
    /\ link \in {"down", "joining", "up"} /\ cuts \in 0..MaxCuts
    /\ {cached, newest} \subseteq 0..Len(holdLog)
    /\ watcher \in [at : {"reading", "marking"}, pos : Positions]
    /\ command \in [Operators -> [at : {"idle", "answered", "marking"},
                                  pos : Positions]]
    /\ marks \in [HoldSessions -> [at : {"out", "entering", "in"},
                                   held : BOOLEAN]]
    /\ missed \in BOOLEAN /\ crossed \subseteq HoldSessions
    /\ lastBy \in Operators \cup {"watcher"}

CaughtUp == /\ link = "up" /\ feed = <<>> /\ watcher.at = "reading"
            /\ \A o \in Operators : command[o].at # "marking"

\* With the events read, the cache says what raftd's log says, unless an
\* older answer or event was applied after a newer one (the index is not
\* compared) or an event fell between the snapshot and the subscription.
CacheFollowsLog ==
    CaughtUp => HeldAt(cached) = Truth \/ cached < newest \/ missed

\* With no writer between its two locks, the flag of every session is that of
\* the cache, unless the session entered with a value read before the cache
\* changed or an older write reached the flags after a newer one.
FlagsFollowCache ==
    watcher.at = "reading" /\ (\A o \in Operators : command[o].at # "marking")
        => \A s \in InMap \ crossed : marks[s].held = HeldAt(cached)

\* The cache of holds and the sessions' flags follow raftd's log, but for what
\* was applied out of order or fell between snapshot and subscription.
HoldInv == HoldTypeOK /\ CacheFollowsLog /\ FlagsFollowCache

=============================================================================
