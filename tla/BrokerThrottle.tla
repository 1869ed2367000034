--------------------------- MODULE BrokerThrottle --------------------------
(* LoginThrottle of the broker: how long a password prompt refuses to look  *)
(* at a password after failures from one address or on one name.  A prompt  *)
(* asks the throttle, verifies without it, and reports back; both use the   *)
(* time read before the first.  Time is counted in seconds.                 *)
EXTENDS Integers, FiniteSets

CONSTANTS Guessers,     \* connections at a password prompt
          IpOf, NameOf, \* the address and the name of each
          BackoffMax,   \* LOGIN_BACKOFF_MAX
          ResetAfter,   \* LOGIN_BACKOFF_RESET_AFTER
          MaxEntries,   \* LOGIN_THROTTLE_MAX_NAMES and _IPS
          MaxSeconds    \* bound: how long the model runs

ASSUME ThrottleBounds ==
    /\ {BackoffMax, ResetAfter, MaxSeconds} \subseteq Nat /\ MaxEntries \in Nat
    /\ BackoffMax >= 1 /\ ResetAfter > BackoffMax
    /\ Guessers # {} /\ IsFiniteSet(Guessers)

VARIABLES
    second,    \* Instant::now
    byIp, byName,  \* key -> ThrottleEntry
    prompt,    \* per connection: the time of the guess it verifies, or none
    since      \* history: per key, when its first remembered guess was typed

throttleVars == <<second, byIp, byName, prompt, since>>

None1 == -1
Keys1 == {IpOf[c] : c \in Guessers} \cup {NameOf[c] : c \in Guessers}

ThrottleInit ==
    /\ second = 0 /\ byIp = << >> /\ byName = << >>
    /\ prompt = [c \in Guessers |-> None1]
    /\ since = [k \in Keys1 |-> 0]

-----------------------------------------------------------------------------
Least1(a, b) == IF a < b THEN a ELSE b
Most1(a, b)  == IF a > b THEN a ELSE b

(* backoff_delay: 1, 2, 4, ... seconds and no more than BackoffMax.         *)
Doubled[pow \in 0 .. 16] == IF pow = 0 THEN 1 ELSE 2 * Doubled[pow - 1]
BackoffDelay(failures) == Least1(Doubled[Least1(failures - 1, 16)], BackoffMax)

(* prune: entries of old failures go, and a full table is emptied.          *)
Keep(table, now) ==
    LET kept == {k \in DOMAIN table : now - table[k].last <= ResetAfter} IN
    IF Cardinality(kept) > MaxEntries THEN << >>
    ELSE [k \in kept |-> table[k]]

(* wait: the longer of the two delays.                                      *)
Waits(table, k, now) == k \in DOMAIN table /\ now < table[k].next

(* note_failure on one table; the entry counts from the time given.         *)
Punish(table, k, now) ==
    LET n == IF k \in DOMAIN table THEN table[k].failures + 1 ELSE 1 IN
    [x \in DOMAIN table \cup {k} |->
        IF x # k THEN table[x]
        ELSE [failures |-> n, last |-> now, next |-> now + BackoffDelay(n)]]

Forgive(table, k) == [x \in DOMAIN table \ {k} |-> table[x]]

\* A key without an entry begins its count with the guess that fails.
NoteSince(keys, now) ==
    since' = [k \in Keys1 |-> IF k \in keys THEN now ELSE since[k]]

-----------------------------------------------------------------------------
(* A password is typed: refused while a delay lasts, else verified.         *)
BeginAttempt(c) ==
    /\ prompt[c] = None1
    /\ byIp' = Keep(byIp, second) /\ byName' = Keep(byName, second)
    /\ IF Waits(byIp', IpOf[c], second) \/ Waits(byName', NameOf[c], second)
       THEN prompt' = prompt
       ELSE prompt' = [prompt EXCEPT ![c] = second]
    /\ UNCHANGED <<second, since>>

(* A wrong or a too short password.                                         *)
GuessFails(c) ==
    /\ prompt[c] # None1
    /\ LET ips == Keep(byIp, prompt[c])  names == Keep(byName, prompt[c]) IN
       /\ byIp' = Punish(ips, IpOf[c], prompt[c])
       /\ byName' = Punish(names, NameOf[c], prompt[c])
       /\ NoteSince({IpOf[c], NameOf[c]}
                    \ (DOMAIN ips \cup DOMAIN names), prompt[c])
    /\ prompt' = [prompt EXCEPT ![c] = None1]
    /\ UNCHANGED second

(* The right one: both entries go, whoever they were counted for.           *)
GuessRight(c) ==
    /\ prompt[c] # None1
    /\ byIp' = Forgive(byIp, IpOf[c])
    /\ byName' = Forgive(byName, NameOf[c])
    /\ prompt' = [prompt EXCEPT ![c] = None1]
    /\ UNCHANGED <<second, since>>

(* Verifying a password takes less than a second.                           *)
Second ==
    /\ second < MaxSeconds
    /\ \A c \in Guessers : prompt[c] # None1 => prompt[c] = second
    /\ second' = second + 1
    /\ UNCHANGED <<byIp, byName, prompt, since>>

ThrottleNext ==
    \/ \E c \in Guessers : BeginAttempt(c) \/ GuessFails(c) \/ GuessRight(c)
    \/ Second

ThrottleSpec == ThrottleInit /\ [][ThrottleNext]_throttleVars

-----------------------------------------------------------------------------
\* Every variable keeps its type: LoginThrottle and the prompts.
ThrottleTypeOK ==
    /\ second \in 0..MaxSeconds
    /\ DOMAIN byIp \subseteq Keys1 /\ DOMAIN byName \subseteq Keys1
    /\ \A k \in DOMAIN byIp : byIp[k].failures >= 1
                              /\ byIp[k].next - byIp[k].last \in 1..BackoffMax
    /\ \A k \in DOMAIN byName : byName[k].failures >= 1
                              /\ byName[k].next - byName[k].last \in 1..BackoffMax
    /\ prompt \in [Guessers -> -1..MaxSeconds]
    /\ since \in [Keys1 -> 0..MaxSeconds]

\* When the j-th failure can be reported, counted from the first: the guess
\* was typed with all but the prompts' own guesses reported, and waited for
\* the delay those had earned, from when the last of them was typed: a late
\* report takes a second of the delay back.
Earliest[j \in Nat] ==
    LET known == j - Cardinality(Guessers) IN
    IF known <= 0 THEN 0 ELSE Earliest[known] + BackoffDelay(known) - 1

\* The failures remembered of a name or of an address are few for the time
\* they took: each prompt has at most one guess that escapes the delay, however
\* the prompts, their verifications and their reports interleave.
GuessesAreFew ==
    \A table \in {byIp, byName} : \A k \in DOMAIN table :
        second - since[k] >= Earliest[table[k].failures]
=============================================================================
