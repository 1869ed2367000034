----------------------------- MODULE SbcDecider -----------------------------
(***************************************************************************)
(* sbc_deciderd and sbc_metricsd (apps/sbc_deciderd/src/main.rs,            *)
(* apps/sbc_metricsd/src/main.rs): traffic counters per source that only    *)
(* grow, and a loop that polls the top sources and asks sbc_raftd to ban    *)
(* those over a threshold, each at most once.                               *)
(***************************************************************************)
EXTENDS Naturals, Sequences, FiniteSets, SequencesExt

CONSTANTS Sources,     \* the sources traffic comes from
          NotIps,      \* sources whose name does not parse as an address
          ExemptSources, \* sources in an exempt prefix
          TopN,        \* the n of the decider's query (20 in the code)
          Threshold,   \* threshold_bytes_in
          Ttl,         \* ttl_s of the bans it asks for
          MaxCount,    \* u64::MAX of the counters
          MaxClock     \* bound on the clock

ASSUME DeciderAssumption ==
    /\ NotIps \subseteq Sources /\ ExemptSources \subseteq Sources
    /\ TopN \in Nat \ {0} /\ Threshold \in Nat \ {0}
    /\ Ttl \in Nat \ {0} /\ MaxCount \in Nat /\ MaxClock \in Nat \ {0}

VARIABLES
    clock,       \* time
    bytes_in,    \* sbc_metricsd: bytes_in per source; 0 also for one not seen
    seen,        \* sbc_metricsd: sources it has an entry for
    todo,        \* sbc_deciderd: items of the answer not yet looked at
    banned,      \* sbc_deciderd: sources it has banned
    expires,     \* sbc_raftd: end of the source's ban, 0 if it has none
    accepted     \* history: bans sbc_raftd accepted, per source

deciderVars == <<clock, bytes_in, seen, todo, banned, expires, accepted>>

Item == [key : Sources, value : 0..MaxCount]

DeciderInit ==
    /\ clock = 1
    /\ bytes_in = [s \in Sources |-> 0]
    /\ seen = {}
    /\ todo = <<>>
    /\ banned = {}
    /\ expires = [s \in Sources |-> 0]
    /\ accepted = [s \in Sources |-> 0]

-----------------------------------------------------------------------------
\* statsd_task: an entry for the source, then a saturating add (a negative
\* value counts as 0, an unknown metric leaves a zero entry).
Count(s, val) ==
    /\ seen' = seen \cup {s}
    /\ bytes_in' = [bytes_in EXCEPT ![s] = IF @ + val > MaxCount THEN MaxCount ELSE @ + val]
    /\ UNCHANGED <<clock, todo, banned, expires, accepted>>

\* top_handler: every entry, greatest first, cut to n; ties in map order.
IsTop(list) ==
    LET keys == {list[i].key : i \in DOMAIN list} IN
    /\ Len(list) = IF Cardinality(seen) < TopN THEN Cardinality(seen) ELSE TopN
    /\ keys \subseteq seen /\ Cardinality(keys) = Len(list)
    /\ \A i \in DOMAIN list : list[i].value = bytes_in[list[i].key]
    /\ \A i \in 1..(Len(list) - 1) : list[i].value >= list[i + 1].value
    /\ \A s \in seen \ keys, i \in DOMAIN list : bytes_in[s] <= list[i].value

Poll ==
    /\ todo = <<>>
    /\ \E order \in UNION {SetToSeqs(S) : S \in SUBSET seen} :
         LET list == [i \in DOMAIN order |-> [key |-> order[i], value |-> bytes_in[order[i]]]] IN
         IsTop(list) /\ todo' = list
    /\ UNCHANGED <<clock, bytes_in, seen, banned, expires, accepted>>

\* Fault: what was banned before is not passed over.
IgnoredUnlessBanned(item) == item.value < Threshold \/ item.key \in NotIps \cup ExemptSources

\* The items the loop passes over.
Ignored(item) ==
    \/ item.value < Threshold
    \/ item.key \in banned \cup NotIps \cup ExemptSources

Skip ==
    /\ todo # <<>> /\ Ignored(Head(todo))
    /\ todo' = Tail(todo)
    /\ UNCHANGED <<clock, bytes_in, seen, banned, expires, accepted>>

\* send_admin_req(UpsertBan) answered OkBan.
BanAccepted ==
    /\ todo # <<>> /\ ~Ignored(Head(todo))
    /\ LET s == Head(todo).key IN
       /\ banned' = banned \cup {s}
       /\ expires' = [expires EXCEPT ![s] = clock + Ttl]
       /\ accepted' = [accepted EXCEPT ![s] = @ + 1]
    /\ todo' = Tail(todo)
    /\ UNCHANGED <<clock, bytes_in, seen>>

\* It was rejected or the request failed: the source stays eligible.
BanFailed ==
    /\ todo # <<>> /\ ~Ignored(Head(todo))
    /\ todo' = Tail(todo)
    /\ UNCHANGED <<clock, bytes_in, seen, banned, expires, accepted>>

\* Time passes; sbc_raftd's reaper drops the bans that ran out.
ClockTicks ==
    /\ clock < MaxClock
    /\ clock' = clock + 1
    /\ expires' = [s \in Sources |-> IF expires[s] <= clock + 1 THEN 0 ELSE expires[s]]
    /\ UNCHANGED <<bytes_in, seen, todo, banned, accepted>>

DeciderNext ==
    \/ \E s \in Sources, val \in 0..2 : Count(s, val)
    \/ Poll
    \/ Skip
    \/ BanAccepted
    \/ BanFailed
    \/ ClockTicks

DeciderSpec == DeciderInit /\ [][DeciderNext]_deciderVars

\* The loop polls for ever; sbc_raftd accepts again and again.
DeciderFairness == WF_deciderVars(Poll) /\ WF_deciderVars(Skip) /\ WF_deciderVars(BanAccepted \/ BanFailed)
            /\ \A s \in Sources : SF_deciderVars(BanAccepted /\ Head(todo).key = s)

DeciderFairSpec == DeciderSpec /\ DeciderFairness

-----------------------------------------------------------------------------
\* Type invariant.
DeciderTypeOK ==
    /\ clock \in 1..MaxClock
    /\ bytes_in \in [Sources -> 0..MaxCount]
    /\ seen \subseteq Sources
    /\ todo \in Seq(Item) /\ Len(todo) <= TopN
    /\ banned \subseteq Sources
    /\ expires \in [Sources -> 0..(MaxClock + Ttl)]
    /\ accepted \in [Sources -> Nat]

\* What the loop acts on is stale but never too high: counters only grow, so a
\* source is only banned while its counter is over the threshold.
BannedAreOver ==
    /\ \A i \in DOMAIN todo : todo[i].value <= bytes_in[todo[i].key]
    /\ \A s \in banned : bytes_in[s] >= Threshold /\ s \notin ExemptSources \cup NotIps

\* A source is banned once in the decider's life, so a ban that ran out is not
\* renewed however much the source goes on sending.
BannedOnce ==
    \A s \in Sources :
        /\ accepted[s] = IF s \in banned THEN 1 ELSE 0
        /\ expires[s] # 0 => s \in banned

\* As long as the list is long enough for every source, one that is over the
\* threshold ends up banned.
HeavySourceBanned ==
    \A s \in Sources \ (ExemptSources \cup NotIps) : (bytes_in[s] >= Threshold) ~> (s \in banned)

\* The decider acts on counters that have moved since it read them: it bans
\* only sources over the threshold, and each once in its life.
DeciderInv == DeciderTypeOK /\ BannedAreOver /\ BannedOnce

=============================================================================
