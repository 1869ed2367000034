----------------------------- MODULE ShardQuests ----------------------------
(* The quest flags of a character: Character.quest maps keys to texts,      *)
(* rooms and commands set flags and count them in other flags, exits and    *)
(* commands test them.  The player may overwrite any flag with `quest set`  *)
(* and `quest del`; what the texts are worth depends on who reads them.     *)
(* One chain of contracts, valves, levers and pylons is kept of each kind;  *)
(* pylons are lit exactly as valves are turned and left out.                *)
EXTENDS Naturals, FiniteSets

CONSTANTS Contracts,   \* the contracts of the job board
          ClinicJob,   \* the one that needs the clinic's slip
          Valves, Levers

ASSUME QuestParts == /\ ClinicJob \in Contracts
                     /\ IsFiniteSet(Contracts) /\ IsFiniteSet(Valves)
                     /\ Cardinality(Contracts) \in 1..3
                     /\ Cardinality(Valves) \in 1..3

VARIABLES
    flags,    \* Character.quest of one character
    tampered  \* history: `quest set` or `quest del` was used

questVars == <<flags, tampered>>

Named == {"slip", "contracts_done", "board", "faction", "repeatables",
          "sewers", "quarry", "valves_opened", "bypass", "pass"}
Keys  == Contracts \cup Valves \cup Levers \cup Named

ASSUME QuestNames ==
    /\ Levers # {}
    /\ Contracts \cap Valves = {} /\ (Contracts \cup Valves) \cap Levers = {}
    /\ (Contracts \cup Valves \cup Levers) \cap Named = {}

(* Flags are texts: a number, a word, or no entry at all.                   *)
Digits == [d \in {"0", "1", "2", "3"} |->
             CASE d = "0" -> 0 [] d = "1" -> 1 [] d = "2" -> 2 [] d = "3" -> 3]
Numeric(v) == v \in DOMAIN Digits
Num(v)     == IF Numeric(v) THEN Digits[v] ELSE 0
Text(n)    == CHOOSE d \in DOMAIN Digits : Digits[d] = n
Texts == DOMAIN Digits \cup {"unset", "no", "yes", "civic", "industrial",
                             "green", "contract", "repeatables"}

QuestInit ==
    /\ flags = [k \in Keys |-> "unset"]
    /\ tampered = FALSE

-----------------------------------------------------------------------------
(* eval_gate_expr without an operator: a number but 0, or a word for yes.   *)
Truthy(k) == IF Numeric(flags[k]) THEN flags[k] # "0" ELSE flags[k] = "yes"

(* What `turn` takes for done: anything but empty, 0 and "false".           *)
Marked(k) == flags[k] \notin {"unset", "0"}

(* The counters: unparsable is 0, and what is read is clamped.              *)
Least(a, b)       == IF a < b THEN a ELSE b
Count(k, most)    == Least(Num(flags[k]), most)
NextCount(k, most) == Least(Count(k, most) + 1, most)

Set(pairs) == flags' = [k \in Keys |-> IF k \in DOMAIN pairs THEN pairs[k]
                                       ELSE flags[k]]
Also(pairs, k, v) == [x \in DOMAIN pairs \cup {k} |->
                         IF x = k THEN v ELSE pairs[x]]

(* q2_room_enter, complete_contract and set_state_for_done: called for the  *)
(* one who walks, not for those who follow, are warped or are evacuated.    *)
CompleteContract(c) ==
    /\ ~Truthy(c)
    /\ c = ClinicJob => Truthy("slip")
    /\ LET done  == NextCount("contracts_done", Cardinality(Contracts))
           pairs == Also([k \in {c} |-> "1"], "contracts_done", Text(done)) IN
       Set(IF flags["board"] \in {"unset", "contract"}
           THEN Also(pairs, "board", "contract") ELSE pairs)
    /\ UNCHANGED tampered

VisitClinic ==
    /\ ~Truthy("slip")
    /\ Set([k \in {"slip"} |-> "1"])
    /\ UNCHANGED tampered

(* `faction <name>` at the job board.                                       *)
ChooseFaction(f) ==
    /\ Count("contracts_done", Cardinality(Contracts)) = Cardinality(Contracts)
    /\ flags["faction"] = "unset"
    /\ LET pairs == Also(Also([k \in {"faction"} |-> f], "repeatables", "1"),
                         "board", "repeatables")
           wet   == IF f \in {"civic", "industrial"}
                    THEN Also(pairs, "sewers", "1") ELSE pairs IN
       Set(IF f \in {"industrial", "green"} THEN Also(wet, "quarry", "1")
           ELSE wet)
    /\ UNCHANGED tampered

(* `turn valve`.                                                            *)
TurnValve(v) ==
    /\ ~Marked(v)
    /\ Set(Also([k \in {v} |-> "1"], "valves_opened",
                Text(NextCount("valves_opened", Cardinality(Valves)))))
    /\ UNCHANGED tampered

\* Fault: the valves are not counted.
PullBypassEarly ==
    /\ ~Truthy("bypass")
    /\ Set([k \in {"bypass"} |-> "1"])
    /\ UNCHANGED tampered

(* `pull lever`: the bypass in the sewers, the switches in the rail yard    *)
(* (the flag that names the last one is read by nobody and left out).       *)
PullBypass ==
    /\ Count("valves_opened", Cardinality(Valves)) = Cardinality(Valves)
    /\ ~Truthy("bypass")
    /\ Set([k \in {"bypass"} |-> "1"])
    /\ UNCHANGED tampered

PullSwitch(l) ==
    /\ LET thrown == [k \in {l} |-> IF Truthy(l) THEN flags[l] ELSE "1"]
           all    == \A x \in Levers \ {l} : Truthy(x) IN
       Set(IF all /\ ~Truthy("pass") THEN Also(thrown, "pass", "1") ELSE thrown)
    /\ UNCHANGED tampered

(* `quest set <key> <value>` and `quest del <key>`.  Bound: once.           *)
Tamper ==
    /\ ~tampered
    /\ \E k \in Keys : \E v \in {"unset", "no", "yes", "0", "3"} :
          Set([x \in {k} |-> v])
    /\ tampered' = TRUE

QuestNext ==
    \/ \E c \in Contracts : CompleteContract(c)
    \/ VisitClinic
    \/ \E f \in {"civic", "industrial", "green"} : ChooseFaction(f)
    \/ \E v \in Valves : TurnValve(v)
    \/ PullBypass
    \/ \E l \in Levers : PullSwitch(l)
    \/ Tamper

QuestSpec == QuestInit /\ [][QuestNext]_questVars

-----------------------------------------------------------------------------
(* Types.                                                                   *)
QuestTypeOK ==
    /\ DOMAIN flags = Keys
    /\ \A k \in Keys : flags[k] \in Texts
    /\ tampered \in BOOLEAN

(* Each counter says how many of its flags are set, in whatever order and   *)
(* however often rooms are entered and wheels are turned, unless the player *)
(* wrote into the flags.                                                    *)
CountersCount ==
    ~tampered =>
        /\ Num(flags["contracts_done"])
              = Cardinality({c \in Contracts : Truthy(c)})
        /\ Num(flags["valves_opened"])
              = Cardinality({v \in Valves : Marked(v)})

(* A gate is open only for who did all that leads to it, and then it stays  *)
(* open; the faction is chosen once.                                        *)
GatesAreEarned ==
    ~tampered =>
        /\ Truthy("bypass") => \A v \in Valves : Marked(v)
        /\ Truthy("pass") <=> \A l \in Levers : Truthy(l)
        /\ flags["faction"] # "unset" => \A c \in Contracts : Truthy(c)
        /\ Truthy("repeatables") <=> flags["faction"] # "unset"
        /\ flags["board"] = "repeatables" <=> Truthy("repeatables")
        /\ Truthy("sewers") <=> flags["faction"] \in {"civic", "industrial"}
        /\ Truthy("quarry") <=> flags["faction"] \in {"industrial", "green"}
        /\ Truthy(ClinicJob) => Truthy("slip")

(* What was done stays done, also for who overwrote a flag before: no       *)
(* command or room but `quest` takes a flag back or a counter down.         *)
NothingIsUndone ==
    [][flags' # flags /\ tampered' = tampered =>
         /\ \A k \in Keys \ {"board"} : Truthy(k) => Truthy(k)'
         /\ \A k \in {"contracts_done", "valves_opened"} :
               tampered \/ Num(flags[k]) <= Num(flags'[k])]_questVars
=============================================================================
