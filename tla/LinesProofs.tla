---------------------------- MODULE LinesProofs ----------------------------
(***************************************************************************)
(* Proofs about the lines the broker keeps (BrokerLines): their ids, the   *)
(* nearline ring of segments and what a report reads of it, for any bounds *)
(* and any lengths of the ring and of its segments.                        *)
(***************************************************************************)
EXTENDS BrokerLines, DataInduction, FiniteSetTheorems, SequenceTheorems, TLAPS

-----------------------------------------------------------------------------
(* Line ids.  While the generator runs, the id given out last is the one it *)
(* stands at; after a restart it knows none.                                *)

GenFits ==
    /\ millis \in Nat \ {0} /\ last \in Nat
    /\ gen \in [ts : Nat, seq : 0 .. SeqMax - 1]
    /\ gen.ts > 0 => last = IdOf(gen)

\* The number after the last of a millisecond is zero.
LEMMA SeqWraps ==
    ASSUME NEW m \in Nat \ {0}, NEW q \in 0 .. m - 1
    PROVE  (q + 1) % m = IF q + 1 = m THEN 0 ELSE q + 1
<1>1. CASE q + 1 = m
  <2>1. m % m = 0
    OBVIOUS
  <2> QED
    BY <1>1, <2>1
<1>2. CASE q + 1 # m
  <2>1. q + 1 \in 0 .. m - 1
    BY <1>2
  <2>2. \A x \in 0 .. m - 1 : x % m = x
    OBVIOUS
  <2> QED
    BY <1>2, <2>1, <2>2
<1> QED
  BY <1>1, <1>2

\* A later millisecond has greater ids.
LEMMA LaterIsGreater ==
    ASSUME NEW s \in Nat, NEW t \in Nat, s < t, NEW q \in 0 .. SeqMax - 1, NEW r \in Nat
    PROVE  s * SeqMax + q < t * SeqMax + r
<1>1. SeqMax \in Nat /\ SeqMax > 0
  BY LineBounds
<1>2. (s + 1) * SeqMax <= t * SeqMax
  <2>1. \A a, b, c \in Nat : a <= b => a * c <= b * c
    OBVIOUS
  <2> QED
    BY <1>1, <2>1
<1>3. (s + 1) * SeqMax = s * SeqMax + SeqMax
  BY <1>1
<1>4. s * SeqMax \in Nat /\ t * SeqMax \in Nat
  BY <1>1
<1> QED
  BY <1>1, <1>2, <1>3, <1>4

LEMMA NextGenIncreases ==
    ASSUME GenFits
    PROVE  /\ NextGen(millis) \in [ts : Nat \ {0}, seq : 0 .. SeqMax - 1]
           /\ IdOf(NextGen(millis)) \in Nat
           /\ gen.ts > 0 => IdOf(NextGen(millis)) > last
           /\ gen.ts = 0 => IdOf(NextGen(millis)) = millis * SeqMax
<1> DEFINE g == NextGen(millis)
           ts == IF millis > gen.ts THEN millis ELSE gen.ts
           seq == IF ts = gen.ts THEN (gen.seq + 1) % SeqMax ELSE 0
<1>1. /\ SeqMax \in Nat \ {0} /\ gen.ts \in Nat /\ gen.seq \in 0 .. SeqMax - 1
      /\ millis \in Nat \ {0}
  BY LineBounds DEF GenFits
<1>2. (gen.seq + 1) % SeqMax = IF gen.seq + 1 = SeqMax THEN 0 ELSE gen.seq + 1
  <2> DEFINE q == gen.seq
  <2>1. q \in 0 .. SeqMax - 1
    BY <1>1
  <2> HIDE DEF q
  <2>2. (q + 1) % SeqMax = IF q + 1 = SeqMax THEN 0 ELSE q + 1
    BY <1>1, <2>1, SeqWraps
  <2> QED
    BY <2>2 DEF q
<1>3. g.ts = (IF ts = gen.ts /\ seq = 0 THEN ts + 1 ELSE ts) /\ g.seq = seq
      /\ g = [ts |-> IF ts = gen.ts /\ seq = 0 THEN ts + 1 ELSE ts, seq |-> seq]
  BY DEF NextGen
<1>4. CASE millis > gen.ts
  <2>1. g.ts = millis /\ g.seq = 0
    BY <1>1, <1>3, <1>4
  <2>2. IdOf(g) = millis * SeqMax
    BY <1>1, <2>1 DEF IdOf
  <2>3. gen.ts * SeqMax + gen.seq < millis * SeqMax + 0
    BY <1>1, <1>4, LaterIsGreater
  <2>4. millis * SeqMax \in Nat
    BY <1>1
  <2>5. gen.ts > 0 => last = gen.ts * SeqMax + gen.seq
    BY DEF GenFits, IdOf
  <2>6. g \in [ts : Nat \ {0}, seq : 0 .. SeqMax - 1]
    BY <1>1, <1>3, <2>1
  <2> HIDE DEF g
  <2>7. gen.ts > 0 => IdOf(g) > last
    BY <1>1, <2>2, <2>3, <2>4, <2>5
  <2> QED
    BY <2>2, <2>4, <2>6, <2>7 DEF g
<1>5. CASE ~(millis > gen.ts)
  <2>1. ts = gen.ts /\ seq = (gen.seq + 1) % SeqMax /\ gen.ts > 0
    BY <1>1, <1>5
  <2>2. last = gen.ts * SeqMax + gen.seq
    BY <2>1 DEF GenFits, IdOf
  <2>3. CASE gen.seq + 1 = SeqMax
    <3>1. g.ts = gen.ts + 1 /\ g.seq = 0
      BY <1>2, <1>3, <2>1, <2>3
    <3>2. IdOf(g) = (gen.ts + 1) * SeqMax
      BY <1>1, <3>1 DEF IdOf
    <3>3. gen.ts * SeqMax + gen.seq < (gen.ts + 1) * SeqMax + 0
      BY <1>1, LaterIsGreater
    <3>4. (gen.ts + 1) * SeqMax \in Nat
      BY <1>1
    <3>5. g \in [ts : Nat \ {0}, seq : 0 .. SeqMax - 1]
      BY <1>1, <1>3, <3>1
    <3> HIDE DEF g
    <3>6. IdOf(g) > last
      BY <1>1, <2>2, <3>2, <3>3, <3>4
    <3> QED
      BY <2>1, <3>2, <3>4, <3>5, <3>6, <1>1 DEF g
  <2>4. CASE gen.seq + 1 # SeqMax
    <3>1. g.ts = gen.ts /\ g.seq = gen.seq + 1
      BY <1>1, <1>2, <1>3, <2>1, <2>4
    <3>2. IdOf(g) = gen.ts * SeqMax + (gen.seq + 1)
      BY <3>1 DEF IdOf
    <3>3. gen.ts * SeqMax \in Nat
      BY <1>1
    <3>4. g \in [ts : Nat \ {0}, seq : 0 .. SeqMax - 1]
      BY <1>1, <1>3, <2>1, <2>4, <3>1
    <3> HIDE DEF g
    <3>5. IdOf(g) > last /\ IdOf(g) \in Nat
      BY <1>1, <2>2, <3>2, <3>3
    <3> QED
      BY <2>1, <3>4, <3>5, <1>1 DEF g
  <2> QED
    BY <2>3, <2>4
<1> QED
  BY <1>4, <1>5

\* An output takes the generator on; nothing else gives out an id.
LEMMA OutputStep ==
    ASSUME GenFits, NEW own \in BOOLEAN, Output(own)
    PROVE  GenFits' /\ (last' > last \/ setBack')
<1>1. /\ gen' = NextGen(millis) /\ last' = IdOf(gen') /\ millis' = millis
      /\ setBack' = (setBack \/ (gen.ts = 0 /\ millis * SeqMax <= last))
  BY DEF Output
<1>2. GenFits'
  BY <1>1, NextGenIncreases DEF GenFits, IdOf
<1>3. last' > last \/ setBack'
  <2>1. gen.ts \in Nat /\ last \in Nat
    BY DEF GenFits
  <2>2. CASE gen.ts > 0
    BY <1>1, <2>2, NextGenIncreases
  <2>3. CASE gen.ts = 0
    <3>1. last' = millis * SeqMax /\ last' \in Nat
      BY <1>1, <2>3, NextGenIncreases
    <3>2. CASE millis * SeqMax <= last
      BY <1>1, <2>3, <3>2
    <3>3. CASE ~(millis * SeqMax <= last)
      BY <2>1, <3>1, <3>3
    <3> QED
      BY <3>2, <3>3
  <2> QED
    BY <2>1, <2>2, <2>3
<1> QED
  BY <1>2, <1>3

LEMMA GenStep ==
    ASSUME GenFits, [LineNext]_lineVars
    PROVE  GenFits' /\ (last' # last => last' > last \/ setBack')
<1>1. CASE \E own \in BOOLEAN : Output(own)
  BY <1>1, OutputStep
<1>2. CASE Clock
  BY <1>2, LineBounds DEF Clock, GenFits, IdOf
<1>3. CASE CrashLines
  <2>1. gen' = [ts |-> 0, seq |-> 0] /\ last' = last /\ millis' = millis
    BY <1>3 DEF CrashLines
  <2> QED
    BY <2>1, LineBounds DEF GenFits
<1>4. CASE UNCHANGED <<gen, last, millis>>
  BY <1>4 DEF GenFits, IdOf
<1>5. CASE Rejoin \/ WriteRecord \/ Truncate \/ RotateFails \/ WriteMeta
  BY <1>4, <1>5 DEF Rejoin, WriteRecord, Truncate, RotateFails, WriteMeta
<1>6. CASE ReadOlder \/ TellLast \/ ReadNewer \/ TellSubmit \/ Served
  BY <1>4, <1>6 DEF ReadOlder, TellLast, ReadNewer, TellSubmit, Served
<1>7. ASSUME NEW n, ReportLast(n) \/ ReportSubmit(n)
      PROVE GenFits' /\ (last' # last => last' > last \/ setBack')
  BY <1>4, <1>7 DEF ReportLast, ReportSubmit
<1>8. CASE UNCHANGED lineVars
  BY <1>4, <1>8 DEF lineVars
<1> QED
  BY <1>1, <1>2, <1>3, <1>5, <1>6, <1>7, <1>8 DEF LineNext

\* Line ids are given out in increasing order: LineIdGen::next_id, over every
\* step of the clock, also back, and every use of the sequence, until a restart
\* with the clock set back.
LEMMA IdsIncreaseHolds == LineSpec => IdsIncrease
<1>1. LineInit => GenFits
  BY LineBounds DEF LineInit, GenFits
<1>2. GenFits /\ [LineNext]_lineVars => GenFits' /\ [last' # last => last' > last \/ setBack']_lineVars
  BY GenStep
<1> QED
  BY <1>1, <1>2, PTL DEF LineSpec, IdsIncrease

-----------------------------------------------------------------------------
(* Sequences of records: their members, the newest n, those in a set.       *)

\* All but the last element.
LEMMA FrontProperties ==
    ASSUME NEW S, NEW q \in Seq(S), q # <<>>
    PROVE  /\ Front(q) \in Seq(S) /\ Len(Front(q)) = Len(q) - 1
           /\ \A i \in 1..Len(q) - 1 : Front(q)[i] = q[i]
<1>1. Len(q) \in Nat \ {0}
  BY EmptySeq
<1>2. Front(q) = SubSeq(q, 1, Len(q) - 1)
  BY DEF Front
<1>3. \A i \in 1..Len(q) - 1 : q[i] \in S
  BY <1>1
<1> DEFINE m == Len(q) - 1
<1>4. m \in Int /\ m \in Nat
  BY <1>1
<1> HIDE DEF m
<1>5. /\ SubSeq(q, 1, m) \in Seq(S) /\ Len(SubSeq(q, 1, m)) = IF 1 <= m THEN m - 1 + 1 ELSE 0
      /\ \A i \in 1..m - 1 + 1 : SubSeq(q, 1, m)[i] = q[1 + i - 1]
  BY <1>3, <1>4, SubSeqProperties DEF m
<1>6. m - 1 + 1 = m /\ (~(1 <= m) => m = 0) /\ \A i \in 1..m : 1 + i - 1 = i
  BY <1>4
<1> QED
  BY <1>2, <1>5, <1>6 DEF m

Ascends(q) == \A i, j \in 1 .. Len(q) : i < j => q[i].id < q[j].id
AscendsIn(q, T) ==
    \A i, j \in 1 .. Len(q) : i < j /\ q[i] \in T /\ q[j] \in T => q[i].id < q[j].id

LEMMA InToSet ==
    ASSUME NEW S, NEW q \in Seq(S)
    PROVE  /\ \A r : r \in ToSet(q) <=> \E i \in 1 .. Len(q) : q[i] = r
           /\ ToSet(q) \subseteq S
<1>1. DOMAIN q = 1 .. Len(q) /\ \A i \in 1 .. Len(q) : q[i] \in S
  BY LenProperties
<1> QED
  BY <1>1 DEF ToSet

\* The last b of a elements, the first of them at m, are the newest n.
LastPlaces(a, n, m, b) ==
    /\ b = IF a > n THEN n ELSE a
    /\ \A i \in 1 .. b : /\ i \in 1 .. a - m + 1 /\ m + i - 1 = i + (a - b)
                       /\ i + (a - b) \in 1 .. a

LEMMA LatestPlaces ==
    ASSUME NEW a \in Nat, NEW n \in Nat, NEW m \in Int, NEW b \in Int,
           m = IF a > n THEN a - n + 1 ELSE 1,
           b = IF m <= a THEN a - m + 1 ELSE 0
    PROVE  LastPlaces(a, n, m, b)
  BY DEF LastPlaces

LEMMA LatestIs ==
    ASSUME NEW S, NEW q \in Seq(S), NEW n \in Nat
    PROVE  /\ Latest(q, n) \in Seq(S)
           /\ Len(Latest(q, n)) = IF Len(q) > n THEN n ELSE Len(q)
           /\ \A i \in 1 .. Len(Latest(q, n)) :
                 /\ i + (Len(q) - Len(Latest(q, n))) \in 1 .. Len(q)
                 /\ Latest(q, n)[i] = q[i + (Len(q) - Len(Latest(q, n)))]
<1> DEFINE a == Len(q)
           m == IF a > n THEN a - n + 1 ELSE 1
           L == SubSeq(q, m, a)
           b == Len(L)
<1>1. a \in Nat /\ \A i \in 1 .. a : q[i] \in S
  BY LenProperties
<1>2. Latest(q, n) = L
  BY DEF Latest
<1> HIDE DEF a
<1>3. m \in Int /\ \A i \in m .. a : q[i] \in S
  BY <1>1
<1>4. m = IF a > n THEN a - n + 1 ELSE 1
  OBVIOUS
<1> HIDE DEF m
<1>5. L \in Seq(S) /\ b = (IF m <= a THEN a - m + 1 ELSE 0)
      /\ \A i \in 1 .. a - m + 1 : L[i] = q[m + i - 1]
  BY <1>1, <1>3, SubSeqProperties
<1> HIDE DEF L, b
<1>6. b \in Int
  BY <1>1, <1>3, <1>5
<1>7. /\ b = IF a > n THEN n ELSE a
      /\ \A i \in 1 .. b : /\ i \in 1 .. a - m + 1 /\ m + i - 1 = i + (a - b)
                         /\ i + (a - b) \in 1 .. a
  <2>1. a \in Nat /\ m \in Int /\ b = IF m <= a THEN a - m + 1 ELSE 0
    BY <1>1, <1>3, <1>5
  <2>2. LastPlaces(a, n, m, b)
    BY <2>1, <1>4, <1>6, LatestPlaces
  <2> QED
    BY <2>2 DEF LastPlaces
<1>8. ASSUME NEW i \in 1 .. b PROVE i + (a - b) \in 1 .. a /\ L[i] = q[i + (a - b)]
  <2>1. i \in 1 .. a - m + 1 /\ m + i - 1 = i + (a - b) /\ i + (a - b) \in 1 .. a
    BY <1>7
  <2> QED BY <1>5, <2>1
<1> QED BY <1>2, <1>5, <1>7, <1>8 DEF a, b

\* The newest n of lines in ascending order: what is left out is older.
LEMMA LatestAscends ==
    ASSUME NEW q \in Seq(Records), NEW n \in Nat, Ascends(q)
    PROVE  /\ Ascends(Latest(q, n))
           /\ ToSet(Latest(q, n)) \subseteq ToSet(q)
           /\ \A r \in ToSet(q) \ ToSet(Latest(q, n)) :
                 /\ Len(Latest(q, n)) = n
                 /\ \A o \in ToSet(Latest(q, n)) : r.id < o.id
<1> DEFINE L == Latest(q, n)
           d == Len(q) - Len(L)
<1>1. L \in Seq(Records) /\ Len(L) = IF Len(q) > n THEN n ELSE Len(q)
  BY LatestIs
<1>2. \A i \in 1 .. Len(L) : i + d \in 1 .. Len(q) /\ L[i] = q[i + d]
  BY LatestIs
<1>3. Len(q) \in Nat /\ Len(L) \in Nat
  BY <1>1, LenProperties
<1> HIDE DEF L
<1>4. d \in Nat
  BY <1>1, <1>3
<1> HIDE DEF d
<1>5. Ascends(L)
  BY <1>2, <1>3, <1>4 DEF Ascends
<1>6. ToSet(L) \subseteq ToSet(q)
  BY <1>1, <1>2, InToSet
<1>7. ASSUME NEW r \in ToSet(q), r \notin ToSet(L)
      PROVE  Len(L) = n /\ \A o \in ToSet(L) : r.id < o.id
  <2>1. PICK j \in 1 .. Len(q) : q[j] = r
    BY InToSet
  <2>2. j <= d
    <3>1. SUFFICES ASSUME d < j PROVE FALSE
      BY <1>4
    <3>2. j - d \in 1 .. Len(L) /\ (j - d) + d = j
      BY <1>3, <1>4, <3>1 DEF d
    <3>3. L[j - d] = r
      BY <1>2, <2>1, <3>2
    <3> QED BY <1>1, <1>7, <3>2, <3>3, InToSet
  <2>3. Len(L) = n
    BY <1>1, <1>3, <2>2 DEF d
  <2>4. ASSUME NEW o \in ToSet(L) PROVE r.id < o.id
    <3>1. PICK i \in 1 .. Len(L) : L[i] = o
      BY <1>1, InToSet
    <3>2. i + d \in 1 .. Len(q) /\ o = q[i + d] /\ j < i + d
      BY <1>2, <1>3, <1>4, <2>2, <3>1
    <3> QED BY <2>1, <3>2 DEF Ascends
  <2> QED BY <2>3, <2>4
<1> QED BY <1>5, <1>6, <1>7 DEF L

LEMMA ConcatAscends ==
    ASSUME NEW p \in Seq(Records), NEW q \in Seq(Records), Ascends(p), Ascends(q),
           \A r \in ToSet(p), o \in ToSet(q) : r.id < o.id
    PROVE  /\ p \o q \in Seq(Records)
           /\ Ascends(p \o q)
           /\ ToSet(p \o q) = ToSet(p) \cup ToSet(q)
<1> DEFINE c == p \o q
<1>1. c \in Seq(Records) /\ Len(c) = Len(p) + Len(q) /\ Len(p) \in Nat /\ Len(q) \in Nat
  BY ConcatProperties, LenProperties
<1>2. \A i \in 1 .. Len(p) : c[i] = p[i] /\ i \in 1 .. Len(c)
  BY <1>1, ConcatProperties
<1>3. \A i \in 1 .. Len(c) : i > Len(p) => c[i] = q[i - Len(p)] /\ i - Len(p) \in 1 .. Len(q)
  BY <1>1, ConcatProperties
<1>4. \A i \in 1 .. Len(q) : c[Len(p) + i] = q[i] /\ Len(p) + i \in 1 .. Len(c)
  <2> SUFFICES ASSUME NEW i \in 1 .. Len(q) PROVE c[Len(p) + i] = q[i] /\ Len(p) + i \in 1 .. Len(c)
    OBVIOUS
  <2>1. Len(p) + i \in 1 .. Len(c) /\ Len(p) + i > Len(p) /\ (Len(p) + i) - Len(p) = i
    BY <1>1
  <2> HIDE DEF c
  <2> QED BY <1>3, <2>1
<1> HIDE DEF c
<1>5. ToSet(c) = ToSet(p) \cup ToSet(q)
  <2>1. ASSUME NEW r \in ToSet(c) PROVE r \in ToSet(p) \cup ToSet(q)
    <3>1. PICK i \in 1 .. Len(c) : c[i] = r
      BY <1>1, InToSet
    <3>2. CASE i <= Len(p)
      <4>1. i \in 1 .. Len(p)
        BY <1>1, <3>2
      <4> QED BY <1>2, <3>1, <4>1, InToSet
    <3>3. CASE i > Len(p)
      BY <1>3, <3>1, <3>3, InToSet
    <3> QED BY <1>1, <3>2, <3>3
  <2>2. ASSUME NEW r \in ToSet(p) \cup ToSet(q) PROVE r \in ToSet(c)
    <3>1. CASE r \in ToSet(p)
      BY <1>1, <1>2, <3>1, InToSet
    <3>2. CASE r \in ToSet(q)
      BY <1>1, <1>4, <3>2, InToSet
    <3> QED BY <2>2, <3>1, <3>2
  <2> QED BY <2>1, <2>2
<1>6. Ascends(c)
  <2> SUFFICES ASSUME NEW i \in 1 .. Len(c), NEW j \in 1 .. Len(c), i < j PROVE c[i].id < c[j].id
    BY DEF Ascends
  <2>1. CASE j <= Len(p)
    <3>1. i \in 1 .. Len(p) /\ j \in 1 .. Len(p)
      BY <1>1, <2>1
    <3> QED BY <1>2, <3>1 DEF Ascends
  <2>2. CASE i > Len(p)
    <3>1. c[i] = q[i - Len(p)] /\ c[j] = q[j - Len(p)] /\ i - Len(p) \in 1 .. Len(q) /\ j - Len(p) \in 1 .. Len(q)
      BY <1>1, <1>3, <2>2
    <3>2. i - Len(p) < j - Len(p)
      BY <1>1
    <3> QED BY <3>1, <3>2 DEF Ascends
  <2>3. CASE i <= Len(p) /\ j > Len(p)
    <3>1. i \in 1 .. Len(p)
      BY <1>1, <2>3
    <3>2. c[i] \in ToSet(p) /\ c[j] \in ToSet(q)
      BY <1>2, <1>3, <2>3, <3>1, InToSet
    <3> QED BY <3>2
  <2> QED BY <1>1, <2>1, <2>2, <2>3
<1> QED BY <1>1, <1>5, <1>6 DEF c

LEMMA AppendAscends ==
    ASSUME NEW q \in Seq(Records), NEW x \in Records
    PROVE  /\ ToSet(Append(q, x)) = ToSet(q) \cup {x}
           /\ \A T : AscendsIn(q, T) /\ (x \in T => \A r \in ToSet(q) \cap T : r.id < x.id)
                     => AscendsIn(Append(q, x), T)
           /\ Ascends(q) /\ (\A r \in ToSet(q) : r.id < x.id) => Ascends(Append(q, x))
<1> DEFINE a == Append(q, x)
<1>1. a \in Seq(Records) /\ Len(a) = Len(q) + 1 /\ Len(q) \in Nat
      /\ (\A i \in 1 .. Len(q) : a[i] = q[i]) /\ a[Len(q) + 1] = x
  BY AppendProperties, LenProperties
<1> HIDE DEF a
<1>2. \A i \in 1 .. Len(a) : (i \in 1 .. Len(q) /\ a[i] = q[i]) \/ (i = Len(q) + 1 /\ a[i] = x)
  BY <1>1
<1>3. \A i \in 1 .. Len(q) : i \in 1 .. Len(a)
  BY <1>1
<1>4. Len(q) + 1 \in 1 .. Len(a)
  BY <1>1
<1>5. ToSet(a) = ToSet(q) \cup {x}
  <2>1. \A r : r \in ToSet(a) <=> \E i \in 1 .. Len(a) : a[i] = r
    BY <1>1, InToSet
  <2>2. \A r : r \in ToSet(q) <=> \E i \in 1 .. Len(q) : q[i] = r
    BY InToSet
  <2> QED BY <1>1, <1>2, <1>3, <1>4, <2>1, <2>2
<1>6. ASSUME NEW T, AscendsIn(q, T), x \in T => \A r \in ToSet(q) \cap T : r.id < x.id
      PROVE  AscendsIn(a, T)
  <2> SUFFICES ASSUME NEW i \in 1 .. Len(a), NEW j \in 1 .. Len(a), i < j, a[i] \in T, a[j] \in T
               PROVE  a[i].id < a[j].id
    BY DEF AscendsIn
  <2>1. i \in 1 .. Len(q) /\ a[i] = q[i]
    BY <1>1, <1>2
  <2>2. CASE j \in 1 .. Len(q)
    BY <1>1, <1>6, <2>1, <2>2 DEF AscendsIn
  <2>3. CASE j = Len(q) + 1
    <3>1. q[i] \in ToSet(q) /\ a[j] = x
      BY <1>1, <2>1, <2>3, InToSet
    <3> QED BY <1>6, <2>1, <3>1
  <2> QED BY <1>2, <2>2, <2>3
<1>7. ASSUME Ascends(q), \A r \in ToSet(q) : r.id < x.id PROVE Ascends(a)
  <2>1. AscendsIn(q, Records)
    BY <1>7 DEF Ascends, AscendsIn
  <2>2. AscendsIn(a, Records)
    BY <1>6, <1>7, <2>1
  <2>3. \A i \in 1 .. Len(a) : a[i] \in Records
    BY <1>1, LenProperties
  <2> QED BY <2>2, <2>3 DEF Ascends, AscendsIn
<1> QED BY <1>5, <1>6, <1>7 DEF a

\* As many members as there are lines.
LEMMA AscendsCount ==
    ASSUME NEW q \in Seq(Records), Ascends(q)
    PROVE  IsFiniteSet(ToSet(q)) /\ Cardinality(ToSet(q)) = Len(q)
<1> DEFINE f == [i \in 1 .. Len(q) |-> q[i]]
<1>1. Len(q) \in Nat /\ \A i \in 1 .. Len(q) : q[i] \in Records /\ q[i] \in ToSet(q)
  BY LenProperties, InToSet
<1>2. f \in [1 .. Len(q) -> ToSet(q)]
  BY <1>1
<1>3. \A i, j \in 1 .. Len(q) : f[i] = f[j] => i = j
  <2> SUFFICES ASSUME NEW i \in 1 .. Len(q), NEW j \in 1 .. Len(q), q[i] = q[j], i < j PROVE FALSE
    BY <1>1
  <2>1. q[i].id < q[j].id
    BY DEF Ascends
  <2>2. q[i].id \in Nat
    BY <1>1 DEF Records
  <2> QED BY <2>1, <2>2
<1>4. \A r \in ToSet(q) : \E i \in 1 .. Len(q) : f[i] = r
  BY InToSet
<1> DEFINE I == 1 .. Len(q)
           R == ToSet(q)
<1> HIDE DEF f
<1>5. f \in Injection(I, R)
  <2>1. f \in [I -> R] /\ \A i, j \in I : f[i] = f[j] => i = j
    BY <1>2, <1>3
  <2> HIDE DEF I, R
  <2> QED BY <2>1, Zenon DEF Injection, IsInjective
<1>6. f \in Surjection(I, R)
  <2>1. f \in [I -> R] /\ \A r \in R : \E i \in I : f[i] = r
    BY <1>2, <1>4
  <2> HIDE DEF I, R
  <2> QED BY <2>1 DEF Surjection
<1>7. IsFiniteSet(I) /\ Cardinality(I) = Len(q)
  <2> DEFINE n == Len(q)
  <2>1. n \in Nat
    BY <1>1
  <2> HIDE DEF n
  <2>2. IsFiniteSet(1 .. n) /\ Cardinality(1 .. n) = n
    BY <2>1, FS_Interval
  <2> QED BY <2>2 DEF n
<1> HIDE DEF I, R
<1>8. IsFiniteSet(R) /\ (Cardinality(R) = Cardinality(I) <=> f \in Injection(I, R))
  BY <1>6, <1>7, FS_Surjection
<1> QED BY <1>5, <1>7, <1>8 DEF R

\* What Selected computes.
LEMMA SelectedIs ==
    ASSUME NEW q \in Seq(Records), NEW T
    PROVE  /\ Selected(q, T) \in Seq(Records)
           /\ ToSet(Selected(q, T)) = ToSet(q) \cap T
           /\ AscendsIn(q, T) => Ascends(Selected(q, T))
<1> DEFINE n == Len(q)
           step == [i \in 1 .. n |-> [k \in Seq(Records) |-> IF q[i] \in T THEN Append(k, q[i]) ELSE k]]
           body(f) == [i \in 0 .. n |-> IF i = 0 THEN <<>>
                                       ELSE IF q[i] \in T THEN Append(f[i - 1], q[i]) ELSE f[i - 1]]
           kept == CHOOSE f : f = body(f)
<1>1. Selected(q, T) = kept[n]
  BY DEF Selected
<1>2. n \in Nat /\ \A i \in 1 .. n : q[i] \in Records
  BY LenProperties
<1>3. Steps(step, n, Seq(Records)) /\ <<>> \in Seq(Records)
  <2>1. ASSUME NEW i \in 1 .. n, NEW k \in Seq(Records)
        PROVE  (IF q[i] \in T THEN Append(k, q[i]) ELSE k) \in Seq(Records)
    <3>1. Append(k, q[i]) \in Seq(Records)
      BY <1>2, AppendProperties
    <3> QED BY <3>1
  <2> QED BY <2>1 DEF Steps
<1>4. PICK g : Iterates(g, step, n, Seq(Records), <<>>)
  <2> HIDE DEF step, n
  <2> QED BY <1>2, <1>3, IteratesExist
<1>5. g = body(g)
  <2>1. g \in [0 .. n -> Seq(Records)] /\ g[0] = <<>> /\ \A i \in 1 .. n : g[i] = step[i][g[i - 1]]
    BY <1>4, Zenon DEF Iterates
  <2>2. ASSUME NEW i \in 1 .. n PROVE g[i] = IF q[i] \in T THEN Append(g[i - 1], q[i]) ELSE g[i - 1]
    <3>1. g[i - 1] \in Seq(Records)
      BY <1>2, <2>1, SMTT(30)
    <3>2. g[i] = step[i][g[i - 1]]
      BY <2>1
    <3> QED BY <3>1, <3>2
  <2>3. DOMAIN g = 0 .. n /\ DOMAIN body(g) = 0 .. n
    BY <2>1
  <2>4. g = [i \in 0 .. n |-> g[i]]
    BY <2>1
  <2>5. \A i \in 0 .. n : g[i] = IF i = 0 THEN <<>>
                                ELSE IF q[i] \in T THEN Append(g[i - 1], q[i]) ELSE g[i - 1]
    <3> SUFFICES ASSUME NEW i \in 0 .. n
                 PROVE  g[i] = IF i = 0 THEN <<>>
                               ELSE IF q[i] \in T THEN Append(g[i - 1], q[i]) ELSE g[i - 1]
      OBVIOUS
    <3>1. CASE i = 0
      BY <2>1, <3>1
    <3>2. CASE i # 0
      <4>1. i \in 1 .. n
        BY <1>2, <3>2
      <4> HIDE DEF step, n
      <4> QED BY <2>2, <3>2, <4>1
    <3> QED BY <3>1, <3>2
  <2> QED BY <2>4, <2>5, Zenon
<1>6. kept = body(kept)
  <2> HIDE DEF body
  <2> QED BY <1>5
<1> HIDE DEF kept
<1>7. kept[0] = <<>> /\ \A i \in 0 .. n - 1 : kept[i + 1] = IF q[i + 1] \in T THEN Append(kept[i], q[i + 1]) ELSE kept[i]
  <2>1. kept[0] = <<>>
    BY <1>2, <1>6
  <2>2. ASSUME NEW i \in 0 .. n - 1 PROVE kept[i + 1] = IF q[i + 1] \in T THEN Append(kept[i], q[i + 1]) ELSE kept[i]
    <3>1. i + 1 \in 0 .. n /\ i + 1 # 0 /\ (i + 1) - 1 = i
      BY <1>2
    <3> QED BY <1>6, <3>1
  <2> QED BY <2>1, <2>2
<1> HIDE DEF body, step, n
<1> DEFINE Upto(i) == {q[j] : j \in 1 .. i} \cap T
           Good(i) == /\ kept[i] \in Seq(Records)
                      /\ ToSet(kept[i]) = Upto(i)
                      /\ AscendsIn(q, T) => Ascends(kept[i])
           G == {i \in 0 .. n : Good(i)}
<1>8. 0 \in G
  <2>1. ToSet(<<>>) = {}
    BY DEF ToSet
  <2>2. Upto(0) = {}
    OBVIOUS
  <2>3. Ascends(<<>>)
    BY DEF Ascends
  <2>4. <<>> \in Seq(Records)
    OBVIOUS
  <2>5. 0 \in 0 .. n
    BY <1>2
  <2> QED BY <1>7, <2>1, <2>2, <2>3, <2>4, <2>5
<1>9. ASSUME NEW i \in 0 .. n - 1, i \in G PROVE i + 1 \in G
  <2>1. i + 1 \in 1 .. n /\ i + 1 \in 0 .. n
    BY <1>2
  <2>2. kept[i] \in Seq(Records) /\ ToSet(kept[i]) = Upto(i) /\ (AscendsIn(q, T) => Ascends(kept[i]))
    BY <1>9
  <2>3. {q[j] : j \in 1 .. i + 1} = {q[j] : j \in 1 .. i} \cup {q[i + 1]}
    <3>1. 1 .. i + 1 = (1 .. i) \cup {i + 1}
      BY <2>1
    <3> QED BY <3>1
  <2>4. CASE q[i + 1] \in T
    <3> DEFINE k == kept[i]
               x == q[i + 1]
    <3>1. kept[i + 1] = Append(k, x) /\ x \in Records
      BY <1>2, <1>7, <2>1, <2>4
    <3>2. Append(k, x) \in Seq(Records) /\ ToSet(Append(k, x)) = ToSet(k) \cup {x}
      BY <2>2, <3>1, AppendProperties, AppendAscends
    <3>3. ASSUME AscendsIn(q, T) PROVE Ascends(Append(k, x))
      <4>1. ASSUME NEW r \in ToSet(k) PROVE r.id < x.id
        <5>1. PICK j \in 1 .. i : r = q[j] /\ r \in T
          BY <2>2
        <5>2. j \in 1 .. n /\ j < i + 1 /\ i + 1 \in 1 .. n
          BY <1>2, <2>1
        <5> QED BY <2>4, <3>3, <5>1, <5>2 DEF AscendsIn, n
      <4> HIDE DEF k, x
      <4> QED BY <2>2, <3>1, <3>3, <4>1, AppendAscends DEF k
    <3>4. Upto(i + 1) = Upto(i) \cup {x}
      BY <2>3, <2>4
    <3> HIDE DEF k, x, Upto
    <3> QED BY <2>1, <2>2, <3>1, <3>2, <3>3, <3>4 DEF k
  <2>5. CASE q[i + 1] \notin T
    <3>1. kept[i + 1] = kept[i]
      BY <1>7, <2>5
    <3>2. Upto(i + 1) = Upto(i)
      BY <2>3, <2>5
    <3> HIDE DEF Upto
    <3> QED BY <2>1, <2>2, <3>1, <3>2
  <2> QED BY <2>4, <2>5
<1> HIDE DEF G
<1>10. 0 .. n \subseteq G
  BY <1>2, <1>8, <1>9, InductionUpTo
<1>11. n \in G
  BY <1>2, <1>10
<1>12. ToSet(q) = {q[j] : j \in 1 .. n}
  BY LenProperties DEF ToSet, n
<1> QED BY <1>1, <1>11, <1>12 DEF G, n

-----------------------------------------------------------------------------
(* Segments read one after the other.                                       *)

\* The sequence s is the end of t.
Ends(s, t) ==
    Len(s) <= Len(t) /\ \A i \in 1 .. Len(s) : s[i] = t[i + (Len(t) - Len(s))]

LEMMA SuffixIs ==
    ASSUME NEW S, NEW s \in Seq(S), NEW t \in Seq(S)
    PROVE  IsSuffix(s, t) <=> Ends(s, t)
<1> DEFINE m == Len(s)
           n == Len(t)
           rs == Reverse(s)
           rt == Reverse(t)
<1>1. m \in Nat /\ n \in Nat
      /\ (\A i \in 1 .. m : s[i] \in S) /\ (\A i \in 1 .. n : t[i] \in S)
  BY LenProperties
<1>2. rs = [i \in 1 .. m |-> s[(m - i) + 1]] /\ rt = [i \in 1 .. n |-> t[(n - i) + 1]]
  BY DEF Reverse
<1> HIDE DEF m, n, rs, rt
<1>3. \A i \in 1 .. m : (m - i) + 1 \in 1 .. m
  BY <1>1
<1>4. \A i \in 1 .. n : (n - i) + 1 \in 1 .. n
  BY <1>1
<1>5. rs \in Seq(S) /\ Len(rs) = m
  BY <1>1, <1>2, <1>3
<1>6. rt \in Seq(S) /\ Len(rt) = n
  BY <1>1, <1>2, <1>4
<1>7. (\A i \in 1 .. m : rs[i] = s[(m - i) + 1]) /\ (\A i \in 1 .. n : rt[i] = t[(n - i) + 1])
  BY <1>2
<1>8. IsSuffix(s, t) <=> m <= n /\ SubSeq(rs, 1, m) = SubSeq(rt, 1, m)
  BY <1>5, <1>6 DEF IsSuffix, IsPrefix, rs, rt
<1>9. ASSUME m <= n
      PROVE  SubSeq(rs, 1, m) = SubSeq(rt, 1, m) <=> \A i \in 1 .. m : rs[i] = rt[i]
  <2>1. ASSUME NEW i \in 1 .. m PROVE rs[i] \in S /\ rt[i] \in S
    <3>1. i \in 1 .. n
      BY <1>1, <1>9
    <3>2. rs[i] = s[(m - i) + 1] /\ rt[i] = t[(n - i) + 1]
      BY <1>7, <3>1
    <3>3. (m - i) + 1 \in 1 .. m /\ (n - i) + 1 \in 1 .. n
      BY <1>3, <1>4, <3>1
    <3> QED BY <1>1, <3>2, <3>3
  <2> DEFINE a == SubSeq(rs, 1, m)
             b == SubSeq(rt, 1, m)
  <2>2. /\ a \in Seq(S) /\ b \in Seq(S) /\ Len(a) = m /\ Len(b) = m
        /\ \A i \in 1 .. m : a[i] = rs[i]
        /\ \A i \in 1 .. m : b[i] = rt[i]
    <3>1. (IF 1 <= m THEN m - 1 + 1 ELSE 0) = m /\ m - 1 + 1 = m /\ m \in Int
          /\ \A i \in 1 .. m : 1 + i - 1 = i
      BY <1>1
    <3>2. a \in Seq(S) /\ Len(a) = m /\ \A i \in 1 .. m : a[i] = rs[i]
      BY <2>1, <3>1, SubSeqProperties
    <3>3. b \in Seq(S) /\ Len(b) = m /\ \A i \in 1 .. m : b[i] = rt[i]
      BY <2>1, <3>1, SubSeqProperties
    <3> QED BY <3>2, <3>3
  <2> HIDE DEF a, b
  <2>3. a = b <=> \A i \in 1 .. m : a[i] = b[i]
    BY <2>2, SeqEqual
  <2> QED BY <2>2, <2>3 DEF a, b
<1>10. ASSUME m <= n
       PROVE  (\A i \in 1 .. m : rs[i] = rt[i]) <=> \A i \in 1 .. m : s[i] = t[i + (n - m)]
  <2>1. \A i \in 1 .. m : (m - i) + 1 \in 1 .. m /\ (m - ((m - i) + 1)) + 1 = i
                          /\ (n - ((m - i) + 1)) + 1 = i + (n - m) /\ i \in 1 .. n
                          /\ (n - i) + 1 = ((m - i) + 1) + (n - m)
    BY <1>1, <1>10
  <2>2. \A i \in 1 .. m : rs[i] = s[(m - i) + 1] /\ rt[i] = t[((m - i) + 1) + (n - m)]
    BY <1>7, <2>1
  <2>3. \A i \in 1 .. m : rs[(m - i) + 1] = s[i] /\ rt[(m - i) + 1] = t[i + (n - m)]
    BY <1>7, <2>1, <2>2
  <2> QED BY <2>1, <2>2, <2>3
<1> QED BY <1>8, <1>9, <1>10 DEF Ends, m, n

\* The end of a longer sequence, and the newest of it.
LEMMA EndsAppend ==
    ASSUME NEW S, NEW s \in Seq(S), NEW t \in Seq(S), NEW x \in S, Ends(s, t)
    PROVE  Ends(Append(s, x), Append(t, x))
<1> DEFINE m == Len(s)
           n == Len(t)
           a == Append(s, x)
           b == Append(t, x)
<1>1. /\ m \in Nat /\ n \in Nat /\ Len(a) = m + 1 /\ Len(b) = n + 1
      /\ \A i \in 1 .. m : a[i] = s[i]
      /\ \A i \in 1 .. n : b[i] = t[i]
      /\ a[m + 1] = x /\ b[n + 1] = x
  BY LenProperties, AppendProperties
<1>2. m <= n /\ \A i \in 1 .. m : s[i] = t[i + (n - m)]
  BY DEF Ends
<1> HIDE DEF m, n, a, b
<1>3. ASSUME NEW i \in 1 .. m + 1 PROVE a[i] = b[i + ((n + 1) - (m + 1))]
  <2>1. CASE i = m + 1
    <3>1. i + ((n + 1) - (m + 1)) = n + 1
      BY <1>1, <2>1
    <3> QED BY <1>1, <2>1, <3>1
  <2>2. CASE i # m + 1
    <3>1. i \in 1 .. m /\ i + ((n + 1) - (m + 1)) = i + (n - m) /\ i + (n - m) \in 1 .. n
      BY <1>1, <1>2, <2>2
    <3> QED BY <1>1, <1>2, <3>1
  <2> QED BY <2>1, <2>2
<1>4. Len(a) <= Len(b) /\ 1 .. Len(a) = 1 .. m + 1
      /\ Len(b) - Len(a) = (n + 1) - (m + 1)
  BY <1>1, <1>2
<1>5. Ends(a, b)
  BY <1>3, <1>4 DEF Ends
<1> QED BY <1>5 DEF a, b

LEMMA EndsTransitive ==
    ASSUME NEW S, NEW s \in Seq(S), NEW t \in Seq(S), NEW u \in Seq(S), Ends(s, t), Ends(t, u)
    PROVE  Ends(s, u)
<1> DEFINE m == Len(s)
           n == Len(t)
           k == Len(u)
<1>1. m \in Nat /\ n \in Nat /\ k \in Nat
  BY LenProperties
<1>2. m <= n /\ n <= k /\ (\A i \in 1 .. m : s[i] = t[i + (n - m)])
      /\ (\A i \in 1 .. n : t[i] = u[i + (k - n)])
  BY DEF Ends
<1> HIDE DEF m, n, k
<1>3. \A i \in 1 .. m : i + (n - m) \in 1 .. n /\ (i + (n - m)) + (k - n) = i + (k - m)
  BY <1>1, <1>2
<1>4. \A i \in 1 .. m : s[i] = u[i + (k - m)]
  BY <1>2, <1>3
<1>5. m <= k
  BY <1>1, <1>2
<1> QED BY <1>4, <1>5 DEF Ends, m, k

LEMMA LatestEnds ==
    ASSUME NEW S, NEW q \in Seq(S), NEW n \in Nat
    PROVE  Ends(Latest(q, n), q)
<1>1. Len(q) \in Nat
  BY LenProperties
<1>2. Len(Latest(q, n)) <= Len(q)
  <2> DEFINE a == Len(q)
  <2> HIDE DEF a
  <2>1. Len(Latest(q, n)) = IF a > n THEN n ELSE a
    BY LatestIs DEF a
  <2> QED BY <1>1, <2>1 DEF a
<1> QED BY <1>2, LatestIs DEF Ends

\* What is not longer than the second part of a sequence it ends.
LEMMA EndsOfSecond ==
    ASSUME NEW S, NEW s \in Seq(S), NEW p \in Seq(S), NEW t \in Seq(S),
           Ends(s, p \o t), Len(s) <= Len(t)
    PROVE  Ends(s, t)
<1> DEFINE m == Len(s)
           n == Len(t)
           k == Len(p)
           c == p \o t
<1>1. m \in Nat /\ n \in Nat /\ k \in Nat /\ Len(c) = k + n /\ m <= n
      /\ \A i \in 1 .. k + n : c[i] = IF i <= k THEN p[i] ELSE t[i - k]
  BY LenProperties, ConcatProperties
<1>2. \A i \in 1 .. m : s[i] = c[i + (Len(c) - m)]
  BY DEF Ends
<1> HIDE DEF m, n, k, c
<1>3. ASSUME NEW i \in 1 .. m PROVE s[i] = t[i + (n - m)]
  <2>1. i + ((k + n) - m) \in 1 .. k + n /\ ~(i + ((k + n) - m) <= k)
        /\ (i + ((k + n) - m)) - k = i + (n - m)
    BY <1>1
  <2>2. s[i] = c[i + ((k + n) - m)]
    BY <1>1, <1>2
  <2> QED BY <1>1, <2>1, <2>2
<1> QED BY <1>1, <1>3 DEF Ends, m, n

\* The last line replaced, in a sequence and in the end of it.
LEMMA EndsTorn ==
    ASSUME NEW S, NEW s \in Seq(S), NEW t \in Seq(S), NEW x \in S, t # <<>>, Ends(s, t)
    PROVE  /\ Front(s) \in Seq(S) /\ Front(t) \in Seq(S)
           /\ Ends(Append(Front(s), x), Append(Front(t), x))
           /\ Len(Append(Front(t), x)) = Len(t)
<1> DEFINE m == Len(s)
           n == Len(t)
<1>1. m \in Nat /\ n \in Nat \ {0}
      /\ (\A i \in 1 .. m : s[i] \in S) /\ (\A i \in 1 .. n : t[i] \in S)
  BY LenProperties, EmptySeq
<1>2. m <= n /\ \A i \in 1 .. m : s[i] = t[i + (n - m)]
  BY DEF Ends
<1>3. Front(s) = SubSeq(s, 1, m - 1) /\ Front(t) = SubSeq(t, 1, n - 1)
  BY DEF Front
<1> HIDE DEF m, n
<1> DEFINE fs == Front(s)
           ft == Front(t)
<1>4. ft \in Seq(S) /\ Len(ft) = n - 1 /\ \A i \in 1 .. n - 1 : ft[i] = t[i]
  <2>1. \A i \in 1 .. n - 1 : t[i] \in S /\ 1 + i - 1 = i
    BY <1>1
  <2>2. (IF 1 <= n - 1 THEN (n - 1) - 1 + 1 ELSE 0) = n - 1 /\ (n - 1) - 1 + 1 = n - 1 /\ n - 1 \in Int
    BY <1>1
  <2> QED BY <1>3, <2>1, <2>2, SubSeqProperties
<1>5. fs \in Seq(S) /\ Len(fs) = (IF m = 0 THEN 0 ELSE m - 1) /\ \A i \in 1 .. m - 1 : fs[i] = s[i]
  <2>1. \A i \in 1 .. m - 1 : s[i] \in S /\ 1 + i - 1 = i
    BY <1>1
  <2>2. (IF 1 <= m - 1 THEN (m - 1) - 1 + 1 ELSE 0) = (IF m = 0 THEN 0 ELSE m - 1)
        /\ (m - 1) - 1 + 1 = m - 1 /\ m - 1 \in Int
    BY <1>1
  <2> QED BY <1>3, <2>1, <2>2, SubSeqProperties
<1> HIDE DEF fs, ft
<1>6. Ends(fs, ft)
  <2>1. CASE m = 0
    BY <1>1, <1>4, <1>5, <2>1 DEF Ends
  <2>2. CASE m # 0
    <3>1. Len(fs) = m - 1 /\ Len(fs) <= Len(ft)
      BY <1>1, <1>2, <1>4, <1>5, <2>2
    <3>2. ASSUME NEW i \in 1 .. m - 1 PROVE fs[i] = ft[i + ((n - 1) - (m - 1))]
      <4>1. i + ((n - 1) - (m - 1)) = i + (n - m) /\ i + (n - m) \in 1 .. n - 1 /\ i \in 1 .. m
        BY <1>1, <1>2
      <4> QED BY <1>2, <1>4, <1>5, <4>1
    <3> QED BY <1>4, <3>1, <3>2 DEF Ends
  <2> QED BY <2>1, <2>2
<1>7. Ends(Append(fs, x), Append(ft, x))
  BY <1>4, <1>5, <1>6, EndsAppend
<1>8. Len(Append(ft, x)) = n
  <2>1. Len(Append(ft, x)) = Len(ft) + 1
    BY <1>4, AppendProperties
  <2> QED BY <1>1, <1>4, <2>1
<1> QED BY <1>4, <1>5, <1>7, <1>8 DEF fs, ft, n

\* q is n segments of members of S; r starts like q; r is q without its first
\* segment and with another one at the end.
Pieces(q, n, S)      == q \in [1 .. n -> Seq(S)]
SameStart(q, r, k)  == \A i \in 1 .. k : q[i] = r[i]
Alike(q, r, n, S)   == Pieces(q, n, S) /\ Pieces(r, n, S) /\ SameStart(q, r, n - 1)
Shifted(q, r, n, S) == Pieces(q, n, S) /\ Pieces(r, n, S) /\ \A i \in 1 .. n - 1 : r[i] = q[i + 1]
EndDiffers(q, r, n, S) ==
    \E p \in Seq(S) : FlattenSeq(q) = p \o q[n] /\ FlattenSeq(r) = p \o r[n]
Turned(q, r, n) == q[1] \o FlattenSeq(r) = FlattenSeq(q) \o r[n]

\* The first i of the segments q read one after the other, for each i.
Joins(f, q, n, S) ==
    /\ f \in [0 .. n -> Seq(S)] /\ f[0] = <<>>
    /\ \A i \in 1 .. n : f[i] = f[i - 1] \o q[i]

LEMMA Regroup ==
    ASSUME NEW S, NEW a \in Seq(S), NEW b \in Seq(S), NEW c \in Seq(S)
    PROVE  (a \o b) \o c = a \o (b \o c)
  BY ConcatAssociative

LEMMA FlattenIs ==
    ASSUME NEW S, NEW n \in Nat \ {0}, NEW q, Pieces(q, n, S)
    PROVE  \E f : Joins(f, q, n, S) /\ FlattenSeq(q) = f[n]
<1> USE DEF Pieces
<1> DEFINE step == [i \in 1 .. n |-> [k \in Seq(S) |-> k \o q[i]]]
           body(f) == [i \in 1 .. n |-> IF i = 1 THEN q[i] ELSE f[i - 1] \o q[i]]
           flatten == CHOOSE f : f = body(f)
<1>1. Len(q) = n /\ n # 0
  OBVIOUS
<1>2. FlattenSeq(q) = flatten[n]
  BY <1>1 DEF FlattenSeq
<1>3. Steps(step, n, Seq(S)) /\ <<>> \in Seq(S)
  <2>1. ASSUME NEW i \in 1 .. n, NEW k \in Seq(S) PROVE k \o q[i] \in Seq(S)
    BY ConcatProperties
  <2> QED BY <2>1 DEF Steps
<1>4. PICK g : Iterates(g, step, n, Seq(S), <<>>)
  <2> HIDE DEF step
  <2> QED BY <1>3, IteratesExist
<1>5. g \in [0 .. n -> Seq(S)] /\ g[0] = <<>> /\ \A i \in 1 .. n : g[i] = step[i][g[i - 1]]
  BY <1>4, Zenon DEF Iterates
<1>6. ASSUME NEW i \in 1 .. n PROVE g[i - 1] \in Seq(S) /\ g[i] = g[i - 1] \o q[i]
  <2>1. g[i - 1] \in Seq(S)
    <3>1. i - 1 \in 0 .. n
      OBVIOUS
    <3> QED BY <1>5, <3>1
  <2>2. g[i] = step[i][g[i - 1]]
    BY <1>5
  <2> QED BY <2>1, <2>2
<1> HIDE DEF step
<1>7. g[1] = q[1]
  <2>1. 1 \in 1 .. n /\ 1 - 1 = 0
    OBVIOUS
  <2>2. g[1] = g[0] \o q[1] /\ q[1] \in Seq(S)
    BY <1>6, <2>1
  <2> QED BY <1>5, <2>2, ConcatEmptySeq
<1> DEFINE h == [i \in 1 .. n |-> g[i]]
<1>8. h = body(h)
  <2>1. ASSUME NEW i \in 1 .. n PROVE h[i] = IF i = 1 THEN q[i] ELSE h[i - 1] \o q[i]
    <3>1. CASE i = 1
      BY <1>7, <3>1
    <3>2. CASE i # 1
      <4>1. i - 1 \in 1 .. n
        BY <3>2
      <4>2. h[i] = g[i] /\ h[i - 1] = g[i - 1]
        BY <4>1
      <4> HIDE DEF h
      <4> QED BY <1>6, <3>2, <4>2
    <3> QED BY <3>1, <3>2
  <2>2. h = [i \in 1 .. n |-> h[i]]
    OBVIOUS
  <2> HIDE DEF h
  <2> QED BY <2>1, <2>2, Zenon
<1>9. flatten = body(flatten)
  <2> HIDE DEF body, h
  <2> QED BY <1>8
<1> HIDE DEF flatten, h
<1>10. \A i \in 1 .. n : flatten[i] = IF i = 1 THEN q[i] ELSE flatten[i - 1] \o q[i]
  BY <1>9
<1> HIDE DEF body
<1> DEFINE T == {i \in 0 .. n : i = 0 \/ flatten[i] = g[i]}
<1>11. 0 \in T
  OBVIOUS
<1>12. ASSUME NEW i \in 0 .. n - 1, i \in T PROVE i + 1 \in T
  <2>1. i + 1 \in 1 .. n /\ i + 1 \in 0 .. n /\ (i + 1) - 1 = i
    OBVIOUS
  <2>2. flatten[i + 1] = IF i + 1 = 1 THEN q[i + 1] ELSE flatten[i] \o q[i + 1]
    BY <1>10, <2>1
  <2>3. g[i + 1] = g[i] \o q[i + 1]
    BY <1>6, <2>1
  <2>4. CASE i = 0
    BY <1>7, <2>1, <2>2, <2>4
  <2>5. CASE i # 0
    <3>1. flatten[i] = g[i] /\ i + 1 # 1
      BY <1>12, <2>5
    <3> QED BY <2>1, <2>2, <2>3, <3>1
  <2> QED BY <2>4, <2>5
<1> HIDE DEF T
<1>13. 0 .. n \subseteq T
  BY <1>11, <1>12, InductionUpTo
<1>14. flatten[n] = g[n]
  BY <1>13 DEF T
<1>15. Joins(g, q, n, S)
  BY <1>5, <1>6 DEF Joins
<1> QED BY <1>2, <1>14, <1>15

\* The segments up to one that changes stay as they are.
LEMMA JoinsAgree ==
    ASSUME NEW S, NEW n \in Nat, NEW q, NEW r, NEW f, NEW g, Joins(f, q, n, S), Joins(g, r, n, S),
           NEW k \in 0 .. n, SameStart(q, r, k)
    PROVE  f[k] = g[k]
<1> DEFINE T == {i \in 0 .. k : f[i] = g[i]}
<1>1. 0 \in T
  BY DEF Joins
<1>2. ASSUME NEW i \in 0 .. k - 1, i \in T PROVE i + 1 \in T
  <2>1. i + 1 \in 1 .. n /\ i + 1 \in 1 .. k /\ i + 1 \in 0 .. k /\ (i + 1) - 1 = i
    OBVIOUS
  <2>2. f[i + 1] = f[i] \o q[i + 1] /\ g[i + 1] = g[i] \o r[i + 1]
    BY <2>1 DEF Joins
  <2>3. q[i + 1] = r[i + 1]
    BY <2>1 DEF SameStart
  <2> QED BY <1>2, <2>1, <2>2, <2>3
<1> HIDE DEF T
<1>3. 0 .. k \subseteq T
  BY <1>1, <1>2, InductionUpTo
<1> QED BY <1>3 DEF T

\* The last segment is the end of all of them.
LEMMA LastJoined ==
    ASSUME NEW S, NEW n \in Nat \ {0}, NEW q, NEW r, Alike(q, r, n, S)
    PROVE  EndDiffers(q, r, n, S)
<1> DEFINE k == n - 1
<1> HIDE DEF k
<1>0. k = n - 1
  BY DEF k
<1>1. PICK f : Joins(f, q, n, S) /\ FlattenSeq(q) = f[n]
  BY FlattenIs DEF Alike
<1>2. PICK g : Joins(g, r, n, S) /\ FlattenSeq(r) = g[n]
  BY FlattenIs DEF Alike
<1>3. n - 1 \in 0 .. n /\ n \in 1 .. n
  OBVIOUS
<1>4. f[n - 1] = g[n - 1]
  <2>1. k \in 0 .. n /\ SameStart(q, r, k) /\ Pieces(q, n, S) /\ Pieces(r, n, S)
    BY <1>0, <1>3 DEF Alike
  <2>2. f[k] = g[k]
    BY <1>1, <1>2, <2>1, JoinsAgree
  <2> QED BY <1>0, <2>2
<1>5. f[n - 1] \in Seq(S) /\ f[n] = f[n - 1] \o q[n]
  BY <1>1, <1>3 DEF Joins
<1>6. g[n] = g[n - 1] \o r[n]
  BY <1>2, <1>3 DEF Joins
<1>7. FlattenSeq(q) = f[n - 1] \o q[n] /\ FlattenSeq(r) = f[n - 1] \o r[n]
  BY <1>1, <1>2, <1>4, <1>5, <1>6
<1> QED BY <1>5, <1>7 DEF EndDiffers

\* The first segment taken away and another one put after the last.
LEMMA ShiftJoined ==
    ASSUME NEW S, NEW n \in Nat \ {0}, NEW q, NEW r, Shifted(q, r, n, S)
    PROVE  Turned(q, r, n)
<1>0. Pieces(q, n, S) /\ Pieces(r, n, S)
  BY DEF Shifted
<1>1. PICK f : Joins(f, q, n, S) /\ FlattenSeq(q) = f[n]
  BY <1>0, FlattenIs
<1>2. PICK g : Joins(g, r, n, S) /\ FlattenSeq(r) = g[n]
  BY <1>0, FlattenIs
<1>3. q[1] \in Seq(S) /\ r[n] \in Seq(S)
  BY <1>0 DEF Pieces
<1>4. (\A i \in 0 .. n : f[i] \in Seq(S)) /\ f[0] = <<>> /\ \A i \in 1 .. n : f[i] = f[i - 1] \o q[i]
  BY <1>1 DEF Joins
<1>5. (\A i \in 0 .. n : g[i] \in Seq(S)) /\ g[0] = <<>> /\ \A i \in 1 .. n : g[i] = g[i - 1] \o r[i]
  BY <1>2 DEF Joins
<1> DEFINE T == {i \in 0 .. n - 1 : q[1] \o g[i] = f[i + 1]}
<1>6. 0 \in T
  <2>1. f[1] = <<>> \o q[1]
    <3>1. 1 \in 1 .. n /\ 1 - 1 = 0
      OBVIOUS
    <3> QED BY <1>4, <3>1
  <2>2. f[1] = q[1] /\ q[1] \o <<>> = q[1]
    BY <1>3, <2>1, ConcatEmptySeq
  <2>3. 0 \in 0 .. n - 1 /\ 0 + 1 = 1
    OBVIOUS
  <2> QED BY <1>5, <2>2, <2>3
<1>7. ASSUME NEW i \in 0 .. (n - 1) - 1, i \in T PROVE i + 1 \in T
  <2>1. i + 1 \in 1 .. n - 1 /\ i + 1 \in 0 .. n - 1 /\ i + 1 \in 1 .. n /\ (i + 1) - 1 = i
        /\ (i + 1) + 1 \in 1 .. n /\ ((i + 1) + 1) - 1 = i + 1 /\ i \in 0 .. n
    OBVIOUS
  <2> DEFINE s == q[(i + 1) + 1]
  <2>2. g[i + 1] = g[i] \o s /\ s \in Seq(S)
    <3>1. s = r[i + 1]
      BY <2>1 DEF Shifted
    <3>2. s \in Seq(S)
      BY <1>0, <2>1 DEF Pieces
    <3> HIDE DEF s
    <3> QED BY <1>5, <2>1, <3>1, <3>2
  <2>3. f[(i + 1) + 1] = f[i + 1] \o s
    BY <1>4, <2>1
  <2>4. q[1] \o (g[i] \o s) = (q[1] \o g[i]) \o s
    <3> DEFINE a == q[1]
               b == g[i]
    <3>1. a \in Seq(S) /\ b \in Seq(S) /\ s \in Seq(S)
      BY <1>3, <1>5, <2>1, <2>2
    <3> HIDE DEF s, a, b
    <3>2. (a \o b) \o s = a \o (b \o s)
      BY <3>1, Regroup
    <3> QED BY <3>2 DEF a, b
  <2>5. q[1] \o g[i] = f[i + 1]
    BY <1>7
  <2> QED BY <2>1, <2>2, <2>3, <2>4, <2>5
<1> HIDE DEF T
<1>8. 0 .. n - 1 \subseteq T
  <2>1. n - 1 \in Nat
    OBVIOUS
  <2> QED BY <1>6, <1>7, <2>1, InductionUpTo
<1>9. n - 1 \in 0 .. n - 1 /\ (n - 1) + 1 = n /\ n \in 1 .. n /\ n - 1 \in 0 .. n
  OBVIOUS
<1>10. q[1] \o g[n - 1] = f[n]
  BY <1>8, <1>9 DEF T
<1>11. g[n] = g[n - 1] \o r[n]
  BY <1>5, <1>9
<1>12. g[n - 1] \in Seq(S)
  BY <1>5, <1>9
<1>13. q[1] \o (g[n - 1] \o r[n]) = (q[1] \o g[n - 1]) \o r[n]
  <2> DEFINE a == q[1]
             b == g[n - 1]
             c == r[n]
  <2>1. a \in Seq(S) /\ b \in Seq(S) /\ c \in Seq(S)
    BY <1>3, <1>12
  <2> HIDE DEF a, b, c
  <2>2. (a \o b) \o c = a \o (b \o c)
    BY <2>1, Regroup
  <2> QED BY <2>2 DEF a, b, c
<1>14. q[1] \o FlattenSeq(r) = FlattenSeq(q) \o r[n]
  BY <1>1, <1>2, <1>10, <1>11, <1>13
<1> QED BY <1>14 DEF Turned

\* Full segments together.
LEMMA FullJoined ==
    ASSUME NEW S, NEW n \in Nat \ {0}, NEW q, Pieces(q, n, S), NEW m \in Nat,
           \A i \in 1 .. n - 1 : Len(q[i]) = m
    PROVE  FlattenSeq(q) \in Seq(S) /\ Len(FlattenSeq(q)) >= (n - 1) * m
<1>1. PICK f : Joins(f, q, n, S) /\ FlattenSeq(q) = f[n]
  BY FlattenIs
<1>2. (\A i \in 0 .. n : f[i] \in Seq(S)) /\ f[0] = <<>> /\ \A i \in 1 .. n : f[i] = f[i - 1] \o q[i]
  BY <1>1 DEF Joins
<1>3. \A i \in 1 .. n : Len(f[i]) = Len(f[i - 1]) + Len(q[i])
  <2> TAKE i \in 1 .. n
  <2>1. f[i - 1] \in Seq(S) /\ q[i] \in Seq(S) /\ f[i] = f[i - 1] \o q[i]
    <3>1. i - 1 \in 0 .. n
      OBVIOUS
    <3> QED BY <1>2, <3>1 DEF Pieces
  <2> QED BY <2>1, ConcatProperties
<1> DEFINE T == {i \in 0 .. n - 1 : Len(f[i]) = i * m}
<1>4. 0 \in T
  BY <1>2
<1>5. ASSUME NEW i \in 0 .. (n - 1) - 1, i \in T PROVE i + 1 \in T
  <2>1. i + 1 \in 1 .. n - 1 /\ i + 1 \in 0 .. n - 1 /\ i + 1 \in 1 .. n /\ (i + 1) - 1 = i
    OBVIOUS
  <2>2. Len(f[i + 1]) = Len(f[i]) + m
    BY <1>3, <2>1
  <2>3. Len(f[i]) = i * m
    BY <1>5
  <2>4. i * m + m = (i + 1) * m
    OBVIOUS
  <2> QED BY <2>1, <2>2, <2>3, <2>4
<1> HIDE DEF T
<1>6. 0 .. n - 1 \subseteq T
  <2>1. n - 1 \in Nat
    OBVIOUS
  <2> QED BY <1>4, <1>5, <2>1, InductionUpTo
<1>7. n - 1 \in 0 .. n - 1 /\ n \in 1 .. n
  OBVIOUS
<1>8. Len(f[n - 1]) = (n - 1) * m
  BY <1>6, <1>7 DEF T
<1>9. Len(f[n]) = Len(f[n - 1]) + Len(q[n]) /\ Len(q[n]) \in Nat
  BY <1>3, <1>7, LenProperties DEF Pieces
<1>10. (n - 1) * m \in Nat
  OBVIOUS
<1> DEFINE p == (n - 1) * m
<1> HIDE DEF p
<1>11. Len(f[n]) >= p
  <2>1. Len(f[n - 1]) = p /\ p \in Nat
    BY <1>8, <1>10 DEF p
  <2> QED BY <1>9, <2>1
<1>12. n \in 0 .. n
  OBVIOUS
<1>13. f[n] \in Seq(S)
  BY <1>2, <1>12
<1>14. FlattenSeq(q) \in Seq(S) /\ Len(FlattenSeq(q)) >= p
  BY <1>1, <1>11, <1>13
<1> QED BY <1>14 DEF p

-----------------------------------------------------------------------------
(* The types of the lines.                                                  *)

ReaderSet == [at : {"idle", "last", "search", "told", "found", "unknown"}, n : Nat,
              hot : Seq(Records), todo : Seq(SegIds), out : Seq(Records),
              disturbed : BOOLEAN]

ClockTypes  == millis \in 1..MaxMillis /\ count \in 0..MaxLines /\ faults \in 0..MaxFaults
PendingTypes == queue \in Seq(Records) /\ Len(queue) <= QueueCap
ScrollTypes == scroll \in Seq(Records) /\ Len(scroll) <= ScrollCap
SegTypes    == segs \in [SegIds -> Seq(Records)] /\ \A s \in SegIds : Len(segs[s]) <= SegMax
RingTypes   ==
    /\ SegTypes /\ meta \in SegIds
    /\ writer \in [at : {"ready", "turned"}, seg : SegIds, file : SegIds]
    /\ latest \in Seq(Records) /\ Len(latest) <= Guarded
    /\ skipped \in BOOLEAN /\ setBack \in BOOLEAN
ReaderTypes == reader \in ReaderSet /\ (reader.at = "last" => Len(reader.hot) < reader.n)
LineTypes   == ClockTypes /\ GenFits /\ PendingTypes /\ ScrollTypes /\ RingTypes /\ ReaderTypes

LEMMA LineTypesImply == LineTypes => LineTypeOK
<1> SUFFICES ASSUME LineTypes PROVE LineTypeOK
  OBVIOUS
<1>1. \A i \in DOMAIN queue : queue[i] \in Records
  BY DEF LineTypes, PendingTypes
<1>2. reader.at \in {"idle", "last", "search", "told", "found", "unknown"}
  BY DEF LineTypes, ReaderTypes, ReaderSet
<1> QED
  BY <1>1, <1>2 DEF LineTypes, ClockTypes, GenFits, PendingTypes, ScrollTypes, RingTypes, SegTypes,
     LineTypeOK

\* Remainders by a number, up to twice the number.
LEMMA ModIs ==
    ASSUME NEW m \in Nat \ {0}, NEW x \in 0 .. 2 * m - 1
    PROVE  (x % m) = IF x < m THEN x ELSE x - m
<1>1. CASE x < m
  <2>1. \A y \in 0 .. m - 1 : y % m = y
    OBVIOUS
  <2> QED BY <1>1, <2>1
<1>2. CASE ~(x < m)
  <2>1. (x \div m) \in Int /\ (x % m) \in 0 .. m - 1 /\ x = m * (x \div m) + (x % m)
    OBVIOUS
  <2>2. (x \div m) = 1
    <3>1. ASSUME x \div m <= 0 PROVE FALSE
      <4>1. m * (x \div m) <= 0
        BY <2>1, <3>1
      <4> QED BY <1>2, <2>1, <4>1
    <3>2. ASSUME x \div m >= 2 PROVE FALSE
      <4>1. m * (x \div m) >= 2 * m
        BY <2>1, <3>2
      <4> QED BY <1>2, <2>1, <4>1
    <3> QED BY <2>1, <3>1, <3>2
  <2> QED BY <1>2, <2>1, <2>2
<1> QED BY <1>1, <1>2

LEMMA LineCaps ==
    /\ SeqMax \in Nat \ {0} /\ ScrollCap \in Nat \ {0} /\ QueueCap \in Nat \ {0}
    /\ Segments \in Nat \ {0} /\ SegMax \in Nat \ {0} /\ Context \in Nat \ {0}
    /\ MaxLines \in Nat /\ MaxFaults \in Nat /\ MaxMillis \in Nat \ {0} /\ Guarded \in Nat
<1>1. /\ SeqMax \in Nat \ {0} /\ ScrollCap \in Nat \ {0} /\ QueueCap \in Nat \ {0}
      /\ Segments \in Nat \ {0} /\ SegMax \in Nat \ {0} /\ Context \in Nat \ {0}
      /\ MaxLines \in Nat /\ MaxFaults \in Nat /\ MaxMillis \in Nat \ {0}
  BY LineBounds
<1>2. Segments - 1 \in Nat
  BY <1>1
<1>3. \A a, b \in Nat : a * b \in Nat
  OBVIOUS
<1> QED
  BY <1>1, <1>2, <1>3 DEF Guarded

\* Where a segment is in the order in which the ring is read.
Rank(w, s) == IF s > w THEN s - w ELSE s - w + Segments

LEMMA RankIs ==
    ASSUME NEW w \in SegIds
    PROVE  /\ \A s \in SegIds : Rank(w, s) \in 1 .. Segments
                                /\ ((w + Rank(w, s)) % Segments) = s
           /\ \A i \in 1 .. Segments : ((w + i) % Segments) \in SegIds
                                       /\ Rank(w, (w + i) % Segments) = i
           /\ \A s \in SegIds : Rank(w, s) = Segments <=> s = w
<1>1. Segments \in Nat \ {0} /\ w \in 0 .. Segments - 1
  BY LineCaps DEF SegIds
<1>2. ASSUME NEW i \in 1 .. Segments
      PROVE  ((w + i) % Segments) = IF w + i < Segments THEN w + i ELSE w + i - Segments
  <2> DEFINE x == w + i
  <2>1. x \in 0 .. 2 * Segments - 1
    BY <1>1
  <2> HIDE DEF x
  <2>2. (x % Segments) = IF x < Segments THEN x ELSE x - Segments
    BY <1>1, <2>1, ModIs
  <2> QED BY <1>1, <2>2 DEF x
<1>4. ASSUME NEW s \in 0 .. Segments - 1
      PROVE  Rank(w, s) \in 1 .. Segments /\ ((w + Rank(w, s)) % Segments) = s
             /\ (Rank(w, s) = Segments <=> s = w)
  <2> DEFINE i == Rank(w, s)
  <2>1. i \in 1 .. Segments /\ (i = Segments <=> s = w)
        /\ s = IF w + i < Segments THEN w + i ELSE w + i - Segments
    BY <1>1 DEF Rank
  <2> HIDE DEF i
  <2>2. ((w + i) % Segments) = IF w + i < Segments THEN w + i ELSE w + i - Segments
    BY <1>2, <2>1
  <2> QED
    BY <2>1, <2>2 DEF i
<1>5. ASSUME NEW i \in 1 .. Segments
      PROVE  ((w + i) % Segments) \in 0 .. Segments - 1 /\ Rank(w, (w + i) % Segments) = i
  <2> DEFINE x == (w + i) % Segments
  <2>1. x = IF w + i < Segments THEN w + i ELSE w + i - Segments
    BY <1>2
  <2> HIDE DEF x
  <2>2. x \in 0 .. Segments - 1 /\ Rank(w, x) = i
    BY <1>1, <2>1 DEF Rank
  <2> QED BY <2>2 DEF x
<1> QED
  BY <1>4, <1>5 DEF SegIds

LEMMA TurnIs ==
    ASSUME NEW w \in SegIds
    PROVE  /\ Turn(w) \in SegIds
           /\ \A s \in SegIds : Rank(Turn(w), s) = IF s = Turn(w) THEN Segments ELSE Rank(w, s) - 1
           /\ Rank(w, Turn(w)) = 1
           /\ \A i \in 1 .. Segments - 1 : ((Turn(w) + i) % Segments) = ((w + (i + 1)) % Segments)
<1>1. Segments \in Nat \ {0} /\ w \in 0 .. Segments - 1
  BY LineCaps DEF SegIds
<1>2. Turn(w) = IF w + 1 < Segments THEN w + 1 ELSE w + 1 - Segments
  <2> DEFINE x == w + 1
  <2>1. x \in 0 .. 2 * Segments - 1
    BY <1>1
  <2> HIDE DEF x
  <2>2. (x % Segments) = IF x < Segments THEN x ELSE x - Segments
    BY <1>1, <2>1, ModIs
  <2> QED BY <1>1, <2>2 DEF x, Turn
<1> DEFINE t == Turn(w)
<1> HIDE DEF t
<1>3. t = (IF w + 1 < Segments THEN w + 1 ELSE w + 1 - Segments) /\ t \in 0 .. Segments - 1
  BY <1>1, <1>2 DEF t
<1>4. \A s \in 0 .. Segments - 1 : Rank(t, s) = IF s = t THEN Segments ELSE Rank(w, s) - 1
  BY <1>1, <1>3 DEF Rank
<1>5. Rank(w, t) = 1
  BY <1>1, <1>3 DEF Rank
<1>6. ASSUME NEW i \in 1 .. Segments - 1 PROVE ((t + i) % Segments) = ((w + (i + 1)) % Segments)
  <2> DEFINE a == t + i
             b == w + (i + 1)
  <2>1. a \in 0 .. 2 * Segments - 1 /\ b \in 0 .. 2 * Segments - 1
        /\ (IF a < Segments THEN a ELSE a - Segments) = (IF b < Segments THEN b ELSE b - Segments)
    BY <1>1, <1>3
  <2> HIDE DEF a, b
  <2>2. (a % Segments) = (b % Segments)
    <3>1. (a % Segments) = IF a < Segments THEN a ELSE a - Segments
      BY <1>1, <2>1, ModIs
    <3>2. (b % Segments) = IF b < Segments THEN b ELSE b - Segments
      BY <1>1, <2>1, ModIs
    <3> QED BY <2>1, <3>1, <3>2
  <2> QED BY <2>2 DEF a, b
<1> QED
  BY <1>3, <1>4, <1>5, <1>6 DEF t, SegIds

LEMMA LatestShort ==
    ASSUME NEW S, NEW q \in Seq(S), NEW n \in Nat
    PROVE  Latest(q, n) \in Seq(S) /\ Len(Latest(q, n)) \in Nat /\ Len(Latest(q, n)) <= n
<1>1. Latest(q, n) \in Seq(S)
  BY LatestIs
<1> DEFINE a == Len(q)
           b == Len(Latest(q, n))
<1>2. b = IF a > n THEN n ELSE a
  BY LatestIs
<1>3. a \in Nat
  BY LenProperties
<1> HIDE DEF a, b
<1>4. b \in Nat /\ b <= n
  BY <1>2, <1>3
<1> QED BY <1>1, <1>4 DEF b

\* Reading a sequence of segment numbers, and lines around a place.
LEMMA OrdersAreSegs == ASSUME LineTypes PROVE NewestFirst \in Seq(SegIds) /\ OldestFirst \in Seq(SegIds)
<1>1. Segments \in Nat \ {0} /\ meta \in 0 .. Segments - 1
  BY LineCaps DEF LineTypes, RingTypes, SegIds
<1>2. \A x \in Nat : (x % Segments) \in 0 .. Segments - 1
  BY <1>1
<1>3. ASSUME NEW i \in 1 .. Segments
      PROVE  ((meta + Segments - (i - 1)) % Segments) \in SegIds /\ ((meta + i) % Segments) \in SegIds
  <2> DEFINE x == meta + Segments - (i - 1)
             y == meta + i
  <2>1. x \in Nat /\ y \in Nat
    BY <1>1
  <2> HIDE DEF x, y
  <2>2. (x % Segments) \in SegIds /\ (y % Segments) \in SegIds
    BY <1>2, <2>1 DEF SegIds
  <2> QED BY <2>2 DEF x, y
<1>4. NewestFirst \in [1 .. Segments -> SegIds] /\ OldestFirst \in [1 .. Segments -> SegIds]
  BY <1>3 DEF NewestFirst, OldestFirst
<1>5. ASSUME NEW f \in [1 .. Segments -> SegIds] PROVE f \in Seq(SegIds)
  <2> DEFINE D == SegIds
  <2> HIDE DEF D
  <2>1. f \in [1 .. Segments -> D]
    BY DEF D
  <2>2. f \in Seq(D)
    BY <1>1, <2>1
  <2> QED BY <2>2 DEF D
<1> QED
  BY <1>4, <1>5

LEMMA AroundIs ==
    ASSUME NEW q \in Seq(Records), NEW i \in 1 .. Len(q)
    PROVE  Around(q, i) \in Seq(Records)
<1> DEFINE n == Len(q)
           a == IF i > Context THEN i - Context ELSE 1
           b == IF i + Context > n THEN n ELSE i + Context
<1>1. n \in Nat /\ (\A j \in 1 .. n : q[j] \in Records) /\ i \in 1 .. n
  BY LenProperties
<1>2. Around(q, i) = SubSeq(q, a, b)
  BY DEF Around
<1> HIDE DEF n
<1>3. a \in Int /\ b \in Int /\ a \in 1 .. n /\ b <= n
  BY <1>1, LineCaps
<1> HIDE DEF a, b
<1>4. \A j \in a .. b : q[j] \in Records
  BY <1>1, <1>3
<1> QED
  BY <1>2, <1>3, <1>4, SubSeqProperties

\* Lines of the character, with those of a report left out.
LEMMA OwnAre ==
    ASSUME NEW q \in Seq(Records)
    PROVE  /\ OwnLines(q) \in Seq(Records) /\ ToSet(OwnLines(q)) = ToSet(q) \cap OwnRecords
           /\ ToSet(OwnLines(q)) = {r \in ToSet(q) : r.own}
           /\ AscendsIn(q, OwnRecords) => Ascends(OwnLines(q))
<1> DEFINE T == OwnRecords
<1>1. OwnLines(q) = Selected(q, T)
  BY DEF OwnLines
<1>2. \A r \in Records : r \in T <=> r.own
  BY DEF Records, OwnRecords
<1>3. ToSet(q) \subseteq Records
  BY InToSet
<1> HIDE DEF T
<1>4. Selected(q, T) \in Seq(Records) /\ ToSet(Selected(q, T)) = ToSet(q) \cap T
      /\ (AscendsIn(q, T) => Ascends(Selected(q, T)))
  BY SelectedIs
<1> QED
  BY <1>1, <1>2, <1>3, <1>4 DEF T

LEMMA WithoutIs ==
    ASSUME NEW q \in Seq(Records), NEW hot \in Seq(Records)
    PROVE  Without(q, hot) \in Seq(Records) /\ ToSet(Without(q, hot)) = ToSet(q) \ ToSet(hot)
           /\ (Ascends(q) => Ascends(Without(q, hot)))
<1> DEFINE T == Records \ ToSet(hot)
<1>1. Without(q, hot) = Selected(q, T)
  BY DEF Without
<1>3. ToSet(q) \subseteq Records
  BY InToSet
<1>4. Selected(q, T) \in Seq(Records) /\ ToSet(Selected(q, T)) = ToSet(q) \cap T
      /\ (AscendsIn(q, T) => Ascends(Selected(q, T)))
  <2> HIDE DEF T
  <2> QED BY SelectedIs
<1>5. Ascends(q) => AscendsIn(q, T)
  BY DEF Ascends, AscendsIn
<1> QED
  BY <1>1, <1>3, <1>4, <1>5

\* A report under way is disturbed, or nothing is.
LEMMA DisturbedIs ==
    ASSUME ReaderTypes
    PROVE  /\ Disturbed \in ReaderSet /\ (Disturbed.at = "last" => Len(Disturbed.hot) < Disturbed.n)
           /\ Disturbed.at = reader.at
           /\ Disturbed.at = "idle" \/ Disturbed.disturbed
<1>1. reader \in ReaderSet
  BY DEF ReaderTypes
<1>2. CASE reader.at = "idle"
  BY <1>2 DEF ReaderTypes, Disturbed
<1>3. CASE reader.at # "idle"
  <2>1. Disturbed = [reader EXCEPT !.disturbed = TRUE]
    BY <1>3 DEF Disturbed
  <2>2. Disturbed \in ReaderSet /\ Disturbed.at = reader.at /\ Disturbed.disturbed
        /\ Disturbed.hot = reader.hot /\ Disturbed.n = reader.n
    BY <1>1, <2>1 DEF ReaderSet
  <2> QED BY <2>2 DEF ReaderTypes
<1> QED BY <1>2, <1>3

LEMMA LineStart == LineInit => LineTypes
<1> SUFFICES ASSUME LineInit PROVE LineTypes
  OBVIOUS
<1>1. <<>> \in Seq(Records) /\ <<>> \in Seq(SegIds) /\ Len(<<>>) = 0
  OBVIOUS
<1>2. ClockTypes
  BY LineCaps DEF LineInit, ClockTypes
<1>3. GenFits
  BY LineBounds DEF LineInit, GenFits
<1>4. PendingTypes /\ ScrollTypes
  BY <1>1, LineCaps DEF LineInit, PendingTypes, ScrollTypes
<1>5. SegTypes
  BY <1>1, LineCaps DEF LineInit, SegTypes
<1>6. RingTypes
  <2>1. 0 \in SegIds
    BY LineCaps DEF SegIds
  <2>2. latest \in Seq(Records) /\ Len(latest) <= Guarded
    BY <1>1, LineCaps DEF LineInit
  <2> QED BY <1>5, <2>1, <2>2 DEF LineInit, RingTypes
<1>7. ReaderTypes
  BY <1>1 DEF LineInit, ReaderTypes, ReaderSet, IdleReader
<1> QED BY <1>2, <1>3, <1>4, <1>6, <1>7 DEF LineTypes

LEMMA OutputTypes ==
    ASSUME LineTypes, NEW own \in BOOLEAN, Output(own)
    PROVE  /\ LineTypes' /\ [id |-> last', own |-> own] \in Records
           /\ Len(Append(scroll, [id |-> last', own |-> own])) \in Nat
<1> DEFINE line == [id |-> last', own |-> own]
<1>1. GenFits' /\ setBack' \in BOOLEAN
  BY OutputStep DEF LineTypes, RingTypes, Output
<1>2. line \in Records
  BY <1>1 DEF GenFits, Records
<1>3. /\ count' = count + 1 /\ count < MaxLines
      /\ scroll' = (IF own THEN Latest(Append(scroll, line), ScrollCap) ELSE scroll)
      /\ queue' = (IF Len(queue) < QueueCap THEN Append(queue, line) ELSE queue)
      /\ UNCHANGED <<millis, segs, meta, writer, reader, faults, skipped, latest>>
  BY DEF Output
<1> HIDE DEF line
<1>4. ClockTypes'
  BY <1>3, LineCaps DEF LineTypes, ClockTypes
<1>5. PendingTypes'
  <2>1. queue \in Seq(Records) /\ Len(queue) <= QueueCap /\ Len(queue) \in Nat
    BY LenProperties DEF LineTypes, PendingTypes
  <2>2. CASE Len(queue) < QueueCap
    <3>1. queue' = Append(queue, line)
      BY <1>3, <2>2
    <3>2. queue' \in Seq(Records) /\ Len(queue') = Len(queue) + 1
      BY <1>2, <2>1, <3>1, AppendProperties
    <3>3. Len(queue') <= QueueCap
      BY <2>1, <2>2, <3>2, LineCaps
    <3> QED BY <3>2, <3>3 DEF PendingTypes
  <2>3. CASE ~(Len(queue) < QueueCap)
    BY <1>3, <2>1, <2>3 DEF PendingTypes
  <2> QED BY <2>2, <2>3
<1>6. Append(scroll, line) \in Seq(Records) /\ Len(Append(scroll, line)) \in Nat
  BY <1>2, AppendProperties, LenProperties DEF LineTypes, ScrollTypes
<1>7. ScrollTypes'
  <2>1. CASE own
    <3> DEFINE a == Append(scroll, line)
    <3>1. scroll' = Latest(a, ScrollCap) /\ a \in Seq(Records)
      BY <1>3, <1>6, <2>1
    <3> HIDE DEF a
    <3> QED BY <3>1, LatestShort, LineCaps DEF ScrollTypes
  <2>2. CASE ~own
    BY <1>3, <2>2 DEF LineTypes, ScrollTypes
  <2> QED BY <2>1, <2>2
<1>8. RingTypes' /\ ReaderTypes'
  <2>1. SegTypes'
    BY <1>3 DEF LineTypes, RingTypes, SegTypes
  <2> QED BY <1>1, <1>3, <2>1 DEF LineTypes, RingTypes, ReaderTypes
<1> QED
  BY <1>1, <1>2, <1>4, <1>5, <1>6, <1>7, <1>8 DEF LineTypes, line

LEMMA QueueHead ==
    ASSUME LineTypes, queue # <<>>
    PROVE  /\ Head(queue) \in Records /\ Head(queue) = queue[1] /\ Len(queue) \in Nat \ {0}
           /\ Tail(queue) \in Seq(Records) /\ Len(Tail(queue)) = Len(queue) - 1
           /\ \A i \in 1 .. Len(queue) - 1 : Tail(queue)[i] = queue[i + 1]
<1>1. queue \in Seq(Records)
  BY DEF LineTypes, PendingTypes
<1>2. Len(queue) \in Nat \ {0}
  BY <1>1, EmptySeq
<1>3. Head(queue) = queue[1]
  BY <1>1
<1> QED
  BY <1>1, <1>2, <1>3, HeadTailProperties

\* A segment that changes.
LEMMA SegTypesKept ==
    ASSUME SegTypes, NEW s \in SegIds, NEW q \in Seq(Records), Len(q) <= SegMax,
           segs' = [segs EXCEPT ![s] = q]
    PROVE  SegTypes' /\ segs'[s] = q /\ \A t \in SegIds : t # s => segs'[t] = segs[t]
  BY DEF SegTypes

LEMMA WriteTypes ==
    ASSUME LineTypes, WriteRecord
    PROVE  /\ LineTypes' /\ writer.file \in SegIds
           /\ Append(segs[writer.file], queue[1]) \in Seq(Records)
           /\ segs'[writer.file] = Append(segs[writer.file], queue[1])
           /\ \A t \in SegIds : t # writer.file => segs'[t] = segs[t]
           /\ latest' = Latest(Append(latest, queue[1]), Guarded)
<1> DEFINE s == writer.file
           q == Append(segs[s], Head(queue))
           l == Append(latest, Head(queue))
<1>1. /\ queue # <<>> /\ Len(segs[s]) < SegMax
      /\ segs' = [segs EXCEPT ![s] = q] /\ queue' = Tail(queue)
      /\ latest' = Latest(l, Guarded) /\ reader' = Disturbed
      /\ UNCHANGED <<millis, gen, count, last, scroll, meta, writer, faults, skipped, setBack>>
  BY DEF WriteRecord, Fits
<1>2. Head(queue) \in Records /\ Head(queue) = queue[1]
  BY <1>1, QueueHead
<1>3. SegTypes /\ s \in SegIds /\ segs[s] \in Seq(Records) /\ latest \in Seq(Records)
  BY DEF LineTypes, RingTypes, SegTypes
<1>4. q \in Seq(Records) /\ Len(q) = Len(segs[s]) + 1 /\ l \in Seq(Records)
  BY <1>2, <1>3, AppendProperties
<1>5. Len(q) <= SegMax
  <2>1. Len(segs[s]) \in Nat
    BY <1>3, LenProperties
  <2> QED BY <1>1, <1>4, <2>1, LineCaps
<1>6. latest' \in Seq(Records) /\ Len(latest') <= Guarded
  <2> HIDE DEF l
  <2> QED BY <1>1, <1>4, LatestShort, LineCaps
<1> HIDE DEF q, s
<1>7. SegTypes' /\ segs'[s] = q /\ \A t \in SegIds : t # s => segs'[t] = segs[t]
  BY <1>1, <1>3, <1>4, <1>5, SegTypesKept
<1>8. PendingTypes'
  <2>1. Len(queue) \in Nat /\ Len(queue) <= QueueCap /\ Len(queue') = Len(queue) - 1 /\ queue' \in Seq(Records)
    BY <1>1, QueueHead DEF LineTypes, PendingTypes
  <2> QED BY <2>1, LineCaps DEF PendingTypes
<1>9. RingTypes'
  BY <1>1, <1>6, <1>7 DEF LineTypes, RingTypes
<1>10. ReaderTypes'
  BY <1>1, DisturbedIs DEF LineTypes, ReaderTypes
<1>11. ClockTypes' /\ GenFits' /\ ScrollTypes'
  BY <1>1 DEF LineTypes, ClockTypes, GenFits, IdOf, ScrollTypes
<1> QED
  BY <1>1, <1>2, <1>3, <1>4, <1>7, <1>8, <1>9, <1>10, <1>11 DEF LineTypes, q, s

LEMMA TruncateTypes ==
    ASSUME LineTypes, Truncate
    PROVE  /\ LineTypes' /\ Turn(writer.seg) \in SegIds /\ segs'[Turn(writer.seg)] = <<>>
           /\ \A t \in SegIds : t # Turn(writer.seg) => segs'[t] = segs[t]
<1> DEFINE s == Turn(writer.seg)
<1>1. /\ writer' = [at |-> "turned", seg |-> s, file |-> s]
      /\ segs' = [segs EXCEPT ![s] = <<>>] /\ reader' = Disturbed
      /\ UNCHANGED <<millis, gen, count, last, scroll, queue, meta, faults, skipped, setBack, latest>>
  BY DEF Truncate
<1>2. SegTypes /\ s \in SegIds
  BY TurnIs DEF LineTypes, RingTypes
<1> HIDE DEF s
<1>3. SegTypes' /\ segs'[s] = <<>> /\ \A t \in SegIds : t # s => segs'[t] = segs[t]
  <2>1. <<>> \in Seq(Records) /\ Len(<<>>) <= SegMax
    BY LineCaps
  <2> QED BY <1>1, <1>2, <2>1, SegTypesKept
<1>4. RingTypes'
  BY <1>1, <1>2, <1>3 DEF LineTypes, RingTypes
<1>5. ReaderTypes'
  BY <1>1, DisturbedIs DEF LineTypes, ReaderTypes
<1>6. ClockTypes' /\ GenFits' /\ ScrollTypes' /\ PendingTypes'
  BY <1>1 DEF LineTypes, ClockTypes, GenFits, IdOf, ScrollTypes, PendingTypes
<1> QED BY <1>2, <1>3, <1>4, <1>5, <1>6 DEF LineTypes, s

LEMMA RotateFailsTypes ==
    ASSUME LineTypes, RotateFails
    PROVE  LineTypes' /\ skipped'
<1>1. /\ queue # <<>> /\ faults < MaxFaults
      /\ writer' = [writer EXCEPT !.seg = Turn(@)] /\ queue' = Tail(queue)
      /\ faults' = faults + 1 /\ skipped' = TRUE
      /\ UNCHANGED <<millis, gen, count, last, scroll, segs, meta, reader, setBack, latest>>
  BY DEF RotateFails
<1>2. RingTypes'
  <2>1. Turn(writer.seg) \in SegIds
    BY TurnIs DEF LineTypes, RingTypes
  <2>2. SegTypes'
    BY <1>1 DEF LineTypes, RingTypes, SegTypes
  <2> QED BY <1>1, <2>1, <2>2 DEF LineTypes, RingTypes
<1>3. PendingTypes'
  <2>1. Len(queue) \in Nat /\ Len(queue) <= QueueCap /\ Len(queue') = Len(queue) - 1 /\ queue' \in Seq(Records)
    BY <1>1, QueueHead DEF LineTypes, PendingTypes
  <2> QED BY <2>1, LineCaps DEF PendingTypes
<1>4. ClockTypes' /\ GenFits' /\ ScrollTypes' /\ ReaderTypes'
  <2>1. ClockTypes'
    BY <1>1, LineCaps DEF LineTypes, ClockTypes
  <2>2. GenFits' /\ ScrollTypes' /\ ReaderTypes'
    BY <1>1 DEF LineTypes, GenFits, IdOf, ScrollTypes, ReaderTypes
  <2> QED BY <2>1, <2>2
<1> QED BY <1>1, <1>2, <1>3, <1>4 DEF LineTypes

LEMMA WriteMetaTypes ==
    ASSUME LineTypes, WriteMeta
    PROVE  LineTypes'
<1>1. /\ meta' = writer.seg /\ writer' = [writer EXCEPT !.at = "ready"]
      /\ UNCHANGED <<millis, gen, count, last, scroll, queue, segs, reader, faults,
                     skipped, setBack, latest>>
  BY DEF WriteMeta
<1>2. RingTypes'
  <2>2. SegTypes'
    BY <1>1 DEF LineTypes, RingTypes, SegTypes
  <2> QED BY <1>1, <2>2 DEF LineTypes, RingTypes
<1>4. ClockTypes' /\ GenFits' /\ ScrollTypes' /\ PendingTypes' /\ ReaderTypes'
  BY <1>1 DEF LineTypes, ClockTypes, GenFits, IdOf, ScrollTypes, PendingTypes, ReaderTypes
<1> QED BY <1>2, <1>4 DEF LineTypes

LEMMA CrashTypes ==
    ASSUME LineTypes, CrashLines
    PROVE  LineTypes'
<1>1. /\ faults < MaxFaults /\ faults' = faults + 1 /\ gen' = [ts |-> 0, seq |-> 0]
      /\ scroll' = <<>> /\ queue' = <<>> /\ reader' = IdleReader
      /\ writer' = [at |-> "ready", seg |-> meta, file |-> meta]
      /\ UNCHANGED <<millis, count, last, meta, skipped, setBack>>
  BY DEF CrashLines
<1>2. <<>> \in Seq(Records) /\ <<>> \in Seq(SegIds) /\ Len(<<>>) = 0
  OBVIOUS
<1>3. SegTypes' /\ latest' \in Seq(Records) /\ Len(latest') <= Guarded
  <2>1. CASE segs' = segs /\ latest' = latest
    BY <2>1 DEF LineTypes, RingTypes, SegTypes
  <2>2. CASE /\ segs[writer.file] # <<>>
             /\ segs' = [segs EXCEPT ![writer.file] = Append(Front(@), Torn)]
             /\ latest' = Latest(Append(Front(latest), Torn), Guarded)
    <3> DEFINE s == writer.file
               q == Append(Front(segs[s]), Torn)
               l == Append(Front(latest), Torn)
    <3>1. SegTypes /\ s \in SegIds /\ segs[s] \in Seq(Records) /\ latest \in Seq(Records)
      BY DEF LineTypes, RingTypes, SegTypes
    <3>2. Torn \in Records
      BY DEF Torn, Records
    <3>3. Ends(segs[s], segs[s]) /\ segs[s] # <<>>
      BY <2>2, <3>1, LenProperties DEF Ends
    <3>4. q \in Seq(Records) /\ Len(q) = Len(segs[s])
      <4> DEFINE x == segs[s]
      <4>1. x \in Seq(Records) /\ x # <<>> /\ Ends(x, x)
        BY <3>1, <3>3
      <4> HIDE DEF x
      <4>2. Front(x) \in Seq(Records) /\ Len(Append(Front(x), Torn)) = Len(x)
        BY <3>2, <4>1, EndsTorn
      <4> QED BY <3>2, <4>2, AppendProperties DEF x
    <3>5. Front(latest) \in Seq(Records)
      <4>1. CASE latest = <<>>
        BY <4>1 DEF Front
      <4>2. CASE latest # <<>>
        BY <3>1, <4>2, FrontProperties
      <4> QED BY <4>1, <4>2
    <3>6. l \in Seq(Records)
      BY <3>2, <3>5, AppendProperties
    <3>7. latest' \in Seq(Records) /\ Len(latest') <= Guarded
      <4> HIDE DEF l
      <4>1. latest' = Latest(l, Guarded)
        BY <2>2 DEF l
      <4> QED BY <3>6, <4>1, LatestShort, LineCaps
    <3>8. SegTypes'
      <4>1. Len(q) <= SegMax /\ segs' = [segs EXCEPT ![s] = q]
        BY <2>2, <3>1, <3>4 DEF SegTypes
      <4> HIDE DEF q, s
      <4> QED BY <3>1, <3>4, <4>1, SegTypesKept
    <3> QED BY <3>7, <3>8
  <2> QED BY <2>1, <2>2 DEF CrashLines
<1>4. RingTypes'
  BY <1>1, <1>3 DEF LineTypes, RingTypes
<1>5. ReaderTypes'
  BY <1>1, <1>2 DEF ReaderTypes, ReaderSet, IdleReader
<1>6. PendingTypes' /\ ScrollTypes'
  BY <1>1, <1>2, LineCaps DEF PendingTypes, ScrollTypes
<1>7. ClockTypes'
  BY <1>1, LineCaps DEF LineTypes, ClockTypes
<1>8. GenFits'
  BY <1>1, LineCaps DEF LineTypes, GenFits
<1> QED BY <1>4, <1>5, <1>6, <1>7, <1>8 DEF LineTypes

\* What the steps of a report leave alone.
ReportKeeps == UNCHANGED <<millis, gen, count, last, scroll, queue, segs, meta, writer, faults,
                    skipped, setBack, latest>>

LEMMA KeptTypes ==
    ASSUME LineTypes, ReportKeeps, ReaderTypes'
    PROVE  LineTypes'
<1>1. ClockTypes' /\ GenFits' /\ ScrollTypes' /\ PendingTypes'
  BY DEF ReportKeeps, LineTypes, ClockTypes, GenFits, IdOf, ScrollTypes, PendingTypes
<1>2. RingTypes'
  BY DEF ReportKeeps, LineTypes, RingTypes, SegTypes
<1> QED BY <1>1, <1>2 DEF LineTypes

LEMMA ReaderParts ==
    ASSUME LineTypes
    PROVE  /\ reader.at \in {"idle", "last", "search", "told", "found", "unknown"} /\ reader.n \in Nat
           /\ reader.hot \in Seq(Records) /\ reader.out \in Seq(Records)
           /\ reader.todo \in Seq(SegIds) /\ reader.disturbed \in BOOLEAN
           /\ reader.todo # <<>> => /\ Head(reader.todo) \in SegIds /\ Tail(reader.todo) \in Seq(SegIds)
                                    /\ segs[Head(reader.todo)] \in Seq(Records)
           /\ scroll \in Seq(Records)
<1>1. reader \in ReaderSet /\ scroll \in Seq(Records)
  BY DEF LineTypes, ReaderTypes, ScrollTypes
<1>2. reader.todo \in Seq(SegIds)
  BY <1>1 DEF ReaderSet
<1>3. ASSUME reader.todo # <<>>
      PROVE  Head(reader.todo) \in SegIds /\ Tail(reader.todo) \in Seq(SegIds)
  <2> DEFINE q == reader.todo
  <2>1. q \in Seq(SegIds) /\ q # <<>>
    BY <1>2, <1>3
  <2> HIDE DEF q
  <2>2. Head(q) \in SegIds /\ Tail(q) \in Seq(SegIds)
    BY <2>1, HeadTailProperties
  <2> QED BY <2>2 DEF q
<1>4. segs \in [SegIds -> Seq(Records)]
  BY DEF LineTypes, RingTypes, SegTypes
<1> QED
  BY <1>1, <1>3, <1>4 DEF ReaderSet

\* The report that is told when the scrollback has enough lines, and the other.
ToldAtOnce(n) == [at |-> "told", n |-> n, hot |-> scroll, todo |-> <<>>, out |-> Latest(scroll, n),
                  disturbed |-> FALSE]
ReadsRing(stage, n, todo) == [at |-> stage, n |-> n, hot |-> scroll, todo |-> todo, out |-> <<>>,
                           disturbed |-> FALSE]

FoundIn(n, i) == [at |-> "found", n |-> n, hot |-> scroll, todo |-> <<>>,
                  out |-> Around(scroll, i), disturbed |-> FALSE]

LEMMA ReportLastIs ==
    ASSUME NEW n, ReportLast(n)
    PROVE  /\ reader.at = "idle" /\ ReportKeeps
           /\ \/ Len(scroll) >= n /\ reader' = ToldAtOnce(n)
              \/ ~(Len(scroll) >= n) /\ reader' = ReadsRing("last", n, NewestFirst)
<1>1. reader.at = "idle" /\ ReportKeeps
  BY DEF ReportLast, ReportKeeps
<1>2. CASE Len(scroll) >= n
  BY <1>1, <1>2 DEF ReportLast, ToldAtOnce, IdleReader
<1>3. CASE ~(Len(scroll) >= n)
  BY <1>1, <1>3 DEF ReportLast, ReadsRing, IdleReader
<1> QED BY <1>1, <1>2, <1>3

LEMMA ReportSubmitIs ==
    ASSUME NEW n, ReportSubmit(n)
    PROVE  /\ reader.at = "idle" /\ ReportKeeps
           /\ \/ At(scroll, n) # {} /\ \E i \in At(scroll, n) :
                    reader' = FoundIn(n, i)
              \/ At(scroll, n) = {} /\ reader' = ReadsRing("search", n, OldestFirst)
<1>1. reader.at = "idle" /\ ReportKeeps
  BY DEF ReportSubmit, ReportKeeps
<1>2. CASE At(scroll, n) # {}
  <2> DEFINE i == CHOOSE i \in At(scroll, n) : TRUE
  <2>1. i \in At(scroll, n)
    BY <1>2
  <2>2. reader' = [IdleReader EXCEPT !.at = "found", !.n = n, !.hot = scroll, !.out = Around(scroll, i)]
    BY <1>2 DEF ReportSubmit
  <2> HIDE DEF i
  <2>3. reader' = FoundIn(n, i)
    <3> DEFINE a == Around(scroll, i)
    <3> HIDE DEF a
    <3>1. reader' = [IdleReader EXCEPT !.at = "found", !.n = n, !.hot = scroll, !.out = a]
      BY <2>2 DEF a
    <3>2. reader' = [at |-> "found", n |-> n, hot |-> scroll, todo |-> <<>>, out |-> a,
                     disturbed |-> FALSE]
      BY <3>1 DEF IdleReader
    <3> QED BY <3>2 DEF a, FoundIn
  <2> QED BY <1>1, <1>2, <2>1, <2>3
<1>3. CASE At(scroll, n) = {}
  BY <1>1, <1>3 DEF ReportSubmit, ReadsRing, IdleReader
<1> QED BY <1>1, <1>2, <1>3

\* The line with an id, in a sequence.
LEMMA AtIs ==
    ASSUME NEW q \in Seq(Records), NEW n
    PROVE  At(q, n) = {i \in 1 .. Len(q) : q[i].id = n}
  BY LenProperties DEF At

LEMMA FirstAt ==
    ASSUME NEW q \in Seq(Records), NEW n, At(q, n) # {}
    PROVE  Min(At(q, n)) \in 1 .. Len(q)
<1>1. At(q, n) \subseteq 1 .. Len(q) /\ Len(q) \in Nat
  BY AtIs, LenProperties
<1>2. At(q, n) \in SUBSET Nat
  BY <1>1
<1>3. \E x \in At(q, n) : \A y \in At(q, n) : x <= y
  BY <1>2, LeastNumber
<1>4. Min(At(q, n)) \in At(q, n)
  BY <1>3 DEF Min
<1> QED BY <1>1, <1>4

LEMMA ReportTypes ==
    ASSUME LineTypes,
           \/ \E n \in 1 .. MaxLines : ReportLast(n)
           \/ ReadOlder
           \/ TellLast
           \/ \E n \in KeptIds \cup {r.id : r \in ToSet(scroll)} : ReportSubmit(n)
           \/ ReadNewer
           \/ TellSubmit
           \/ Served
    PROVE  LineTypes' /\ ReportKeeps
<1>1. <<>> \in Seq(Records) /\ <<>> \in Seq(SegIds) /\ Len(<<>>) = 0
  OBVIOUS
<1>2. NewestFirst \in Seq(SegIds) /\ OldestFirst \in Seq(SegIds)
  BY OrdersAreSegs
<1>3. scroll \in Seq(Records) /\ Len(scroll) \in Nat
  BY ReaderParts, LenProperties
<1> SUFFICES ReaderTypes' /\ ReportKeeps
  BY KeptTypes
<1>4. CASE \E n \in 1 .. MaxLines : ReportLast(n)
  <2>1. PICK n \in 1 .. MaxLines : ReportLast(n)
    BY <1>4
  <2>2. n \in Nat
    OBVIOUS
  <2>3. CASE reader' = ToldAtOnce(n)
    <3>1. Latest(scroll, n) \in Seq(Records)
      BY <1>3, <2>2, LatestShort
    <3>2. ToldAtOnce(n) \in ReaderSet /\ ToldAtOnce(n).at = "told"
      BY <1>1, <1>3, <2>2, <3>1 DEF ToldAtOnce, ReaderSet
    <3> QED BY <2>1, <2>3, <3>2, ReportLastIs DEF ReaderTypes
  <2>4. CASE ~(Len(scroll) >= n) /\ reader' = ReadsRing("last", n, NewestFirst)
    <3>1. reader' \in ReaderSet /\ reader'.hot = scroll /\ reader'.n = n
      BY <1>1, <1>2, <1>3, <2>2, <2>4 DEF ReadsRing, ReaderSet
    <3> QED BY <1>3, <2>1, <2>2, <2>4, <3>1, ReportLastIs DEF ReaderTypes
  <2> QED BY <2>1, <2>3, <2>4, ReportLastIs
<1>5. CASE ReadOlder
  <2> DEFINE l == Latest(OwnLines(segs[Head(reader.todo)]) \o reader.out, reader.n)
             t == Tail(reader.todo)
  <2>1. reader.todo # <<>> /\ ReportKeeps /\ reader' = [reader EXCEPT !.todo = t, !.out = l]
    BY <1>5 DEF ReadOlder, ReportKeeps
  <2>2. t \in Seq(SegIds) /\ segs[Head(reader.todo)] \in Seq(Records)
    BY <2>1, ReaderParts
  <2>3. OwnLines(segs[Head(reader.todo)]) \in Seq(Records)
    BY <2>2, OwnAre
  <2>4. l \in Seq(Records)
    <3> DEFINE a == OwnLines(segs[Head(reader.todo)])
               b == reader.out
               n == reader.n
    <3>1. a \in Seq(Records) /\ b \in Seq(Records) /\ n \in Nat
      BY <2>3, ReaderParts
    <3> HIDE DEF a, b, n
    <3>2. a \o b \in Seq(Records)
      BY <3>1, ConcatProperties
    <3> DEFINE c == a \o b
    <3> HIDE DEF c
    <3>3. Latest(c, n) \in Seq(Records)
      BY <3>1, <3>2, LatestShort DEF c
    <3> QED BY <3>3 DEF a, b, c, n
  <2> HIDE DEF l, t
  <2>5. reader' \in ReaderSet /\ reader'.at = reader.at /\ reader'.hot = reader.hot /\ reader'.n = reader.n
    BY <2>1, <2>2, <2>4 DEF LineTypes, ReaderTypes, ReaderSet
  <2> QED BY <2>1, <2>5 DEF LineTypes, ReaderTypes
<1>6. CASE TellLast
  <2> DEFINE n == reader.n - Len(reader.hot)
             w == Without(reader.out, reader.hot)
             l == Latest(w, n) \o reader.hot
  <2>1. reader.at = "last" /\ ReportKeeps /\ reader' = [reader EXCEPT !.at = "told", !.todo = <<>>, !.out = l]
    BY <1>6 DEF TellLast, HaveLast, ReportKeeps
  <2>2. n \in Nat
    <3>1. Len(reader.hot) \in Nat /\ reader.n \in Nat /\ Len(reader.hot) < reader.n
      BY <2>1, ReaderParts, LenProperties DEF LineTypes, ReaderTypes
    <3> QED BY <3>1
  <2>3. w \in Seq(Records) /\ reader.hot \in Seq(Records)
    BY ReaderParts, WithoutIs
  <2>4. l \in Seq(Records)
    <3> HIDE DEF w, n
    <3>1. Latest(w, n) \in Seq(Records)
      BY <2>2, <2>3, LatestShort
    <3> QED BY <2>3, <3>1, ConcatProperties
  <2> HIDE DEF l
  <2>5. reader' \in ReaderSet /\ reader'.at = "told"
    BY <1>1, <2>1, <2>4 DEF LineTypes, ReaderTypes, ReaderSet
  <2> QED BY <2>1, <2>5 DEF ReaderTypes
<1>7. CASE \E n \in KeptIds \cup {r.id : r \in ToSet(scroll)} : ReportSubmit(n)
  <2>1. PICK n \in KeptIds \cup {r.id : r \in ToSet(scroll)} : ReportSubmit(n)
    BY <1>7
  <2>2. n \in Nat
    <3>1. ToSet(scroll) \subseteq Records /\ ToSet(reader.hot) \subseteq Records
      BY <1>3, ReaderParts, InToSet
    <3>2. \A s \in SegIds : ToSet(segs[s]) \subseteq Records
      BY InToSet DEF LineTypes, RingTypes, SegTypes
    <3>3. \A r \in Records : r.id \in Nat
      BY DEF Records
    <3> QED BY <3>1, <3>2, <3>3 DEF KeptIds, RingIds
  <2>3. ASSUME NEW i \in At(scroll, n),
               reader' = FoundIn(n, i)
        PROVE  ReaderTypes'
    <3>1. Around(scroll, i) \in Seq(Records)
      BY <1>3, AtIs, AroundIs
    <3>2. reader' \in ReaderSet /\ reader'.at = "found"
      BY <1>1, <1>3, <2>2, <2>3, <3>1 DEF FoundIn, ReaderSet
    <3> QED BY <3>2 DEF ReaderTypes
  <2>4. CASE reader' = ReadsRing("search", n, OldestFirst)
    <3>1. reader' \in ReaderSet /\ reader'.at = "search"
      BY <1>1, <1>2, <1>3, <2>2, <2>4 DEF ReadsRing, ReaderSet
    <3> QED BY <2>1, <3>1, ReportSubmitIs DEF ReaderTypes
  <2> QED BY <2>1, <2>3, <2>4, ReportSubmitIs
<1>8. CASE ReadNewer
  <2> DEFINE a == OwnLines(segs[Head(reader.todo)])
             l == reader.out \o a
             t == Tail(reader.todo)
  <2>1. reader.at = "search" /\ reader.todo # <<>> /\ ReportKeeps
        /\ reader' = [reader EXCEPT !.todo = t, !.out = l]
    BY <1>8 DEF ReadNewer, ReportKeeps
  <2>2. t \in Seq(SegIds) /\ segs[Head(reader.todo)] \in Seq(Records) /\ reader.out \in Seq(Records)
    BY <2>1, ReaderParts
  <2>3. a \in Seq(Records)
    BY <2>2, OwnAre
  <2> HIDE DEF a, t
  <2>4. l \in Seq(Records)
    BY <2>2, <2>3, ConcatProperties
  <2> HIDE DEF l
  <2>5. reader' \in ReaderSet /\ reader'.at = "search"
    BY <2>1, <2>2, <2>4 DEF LineTypes, ReaderTypes, ReaderSet
  <2> QED BY <2>1, <2>5 DEF ReaderTypes
<1>9. CASE TellSubmit
  <2>1. ReportKeeps
    BY <1>9 DEF TellSubmit, ReportKeeps
  <2>2. CASE Complete(reader.out, reader.n)
    <3> DEFINE l == Around(reader.out, Min(At(reader.out, reader.n)))
    <3>1. reader' = [reader EXCEPT !.at = "found", !.todo = <<>>, !.out = l]
      BY <1>9, <2>2 DEF TellSubmit
    <3>2. At(reader.out, reader.n) # {} /\ reader.out \in Seq(Records)
      BY <2>2, ReaderParts DEF Complete
    <3>3. l \in Seq(Records)
      BY <3>2, FirstAt, AroundIs
    <3> HIDE DEF l
    <3>4. reader' \in ReaderSet /\ reader'.at = "found"
      BY <1>1, <3>1, <3>3 DEF LineTypes, ReaderTypes, ReaderSet
    <3> QED BY <2>1, <3>4 DEF ReaderTypes
  <2>3. CASE ~Complete(reader.out, reader.n)
    <3>1. reader' = [reader EXCEPT !.at = "unknown", !.todo = <<>>, !.out = <<>>]
      BY <1>9, <2>3 DEF TellSubmit
    <3>2. reader' \in ReaderSet /\ reader'.at = "unknown"
      BY <1>1, <3>1 DEF LineTypes, ReaderTypes, ReaderSet
    <3> QED BY <2>1, <3>2 DEF ReaderTypes
  <2> QED BY <2>2, <2>3
<1>10. CASE Served
  <2>1. ReportKeeps /\ reader' = IdleReader
    BY <1>10 DEF Served, ReportKeeps
  <2> QED BY <1>1, <2>1 DEF ReaderTypes, ReaderSet, IdleReader
<1> QED BY <1>4, <1>5, <1>6, <1>7, <1>8, <1>9, <1>10

LEMMA LineTypeStep ==
    ASSUME LineTypes, [LineNext]_lineVars
    PROVE  LineTypes'
<1>1. CASE UNCHANGED lineVars
  <2>1. ReportKeeps /\ reader' = reader
    BY <1>1 DEF lineVars, ReportKeeps
  <2> QED BY <2>1, KeptTypes DEF LineTypes, ReaderTypes
<1>2. CASE Clock
  <2>1. /\ millis' \in 1 .. MaxMillis
        /\ UNCHANGED <<gen, count, last, scroll, queue, segs, meta, writer, reader, faults,
                       skipped, setBack, latest>>
    BY <1>2, LineCaps DEF Clock, LineTypes, ClockTypes
  <2>2. ClockTypes' /\ GenFits'
    BY <2>1, LineCaps DEF LineTypes, ClockTypes, GenFits, IdOf
  <2>3. ScrollTypes' /\ PendingTypes' /\ ReaderTypes'
    BY <2>1 DEF LineTypes, ScrollTypes, PendingTypes, ReaderTypes
  <2>4. RingTypes'
    BY <2>1 DEF LineTypes, RingTypes, SegTypes
  <2> QED BY <2>2, <2>3, <2>4 DEF LineTypes
<1>3. CASE Rejoin
  <2>1. /\ scroll' = <<>>
        /\ UNCHANGED <<millis, gen, count, last, queue, segs, meta, writer, reader, faults,
                       skipped, setBack, latest>>
    BY <1>3 DEF Rejoin
  <2>2. ClockTypes' /\ GenFits'
    BY <2>1 DEF LineTypes, ClockTypes, GenFits, IdOf
  <2>3. PendingTypes' /\ ReaderTypes'
    BY <2>1 DEF LineTypes, PendingTypes, ReaderTypes
  <2>4. RingTypes'
    BY <2>1 DEF LineTypes, RingTypes, SegTypes
  <2>5. ScrollTypes'
    BY <2>1, LineCaps DEF ScrollTypes
  <2> QED BY <2>2, <2>3, <2>4, <2>5 DEF LineTypes
<1> QED
  BY <1>1, <1>2, <1>3, OutputTypes, WriteTypes, TruncateTypes, RotateFailsTypes, WriteMetaTypes,
     CrashTypes, ReportTypes DEF LineNext

-----------------------------------------------------------------------------
(* The ring and what was written last.  The writer stands at its segment,   *)
(* which the meta file names once the turn is over; the segments after one  *)
(* that holds records are full, up to the writer's.                         *)

RingShape ==
    /\ writer.file = writer.seg
    /\ writer.at = "ready" => meta = writer.seg
    /\ writer.at = "turned" => writer.seg = Turn(meta) /\ segs[writer.seg] = <<>>
RingFull ==
    \A s, t \in SegIds :
        Rank(writer.seg, s) < Rank(writer.seg, t) /\ t # writer.seg /\ segs[s] # <<>>
        => Len(segs[t]) = SegMax

\* The segments in the order they were written, from the one after w.
Ordered(ss, w) == [i \in 1 .. Segments |-> ss[(w + i) % Segments]]
RingEnds == Ends(latest, FlattenSeq(Ordered(segs, writer.seg)))
RingKeeps == ~skipped => RingShape /\ RingFull /\ RingEnds

IsRing(ss)         == ss \in [SegIds -> Seq(Records)]
SameBut(ss, tt, v) == \A s \in SegIds : s # v => ss[s] = tt[s]

ChangesEnd(ss, tt, w) ==
    \E p \in Seq(Records) : /\ FlattenSeq(Ordered(ss, w)) = p \o ss[w]
                            /\ FlattenSeq(Ordered(tt, w)) = p \o tt[w]

LEMMA OrderedIs ==
    ASSUME NEW ss, IsRing(ss), NEW w \in SegIds
    PROVE  /\ Pieces(Ordered(ss, w), Segments, Records)
           /\ FlattenSeq(Ordered(ss, w)) \in Seq(Records)
           /\ Ordered(ss, w)[Segments] = ss[w]
           /\ \A i \in 1 .. Segments : Ordered(ss, w)[i] = ss[(w + i) % Segments]
<1>1. Segments \in Nat \ {0}
  BY LineCaps
<1>2. \A i \in 1 .. Segments : ((w + i) % Segments) \in SegIds
  BY RankIs
<1>3. \A i \in 1 .. Segments : Ordered(ss, w)[i] = ss[(w + i) % Segments]
  BY DEF Ordered
<1>4. Pieces(Ordered(ss, w), Segments, Records)
  <2>1. \A i \in 1 .. Segments : ss[(w + i) % Segments] \in Seq(Records)
    BY <1>2 DEF IsRing
  <2> QED BY <2>1 DEF Pieces, Ordered
<1>5. Ordered(ss, w)[Segments] = ss[w]
  <2>1. Segments \in 1 .. Segments
    BY <1>1
  <2>2. ((w + Segments) % Segments) = w
    BY <2>1, RankIs
  <2> QED BY <1>3, <2>1, <2>2
<1>6. FlattenSeq(Ordered(ss, w)) \in Seq(Records)
  <2> DEFINE q == Ordered(ss, w)
  <2> HIDE DEF q
  <2>1. PICK f : Joins(f, q, Segments, Records) /\ FlattenSeq(q) = f[Segments]
    BY <1>1, <1>4, FlattenIs DEF q
  <2>2. Segments \in 0 .. Segments
    BY <1>1
  <2> QED BY <2>1, <2>2 DEF Joins, q
<1> QED BY <1>3, <1>4, <1>5, <1>6

\* A change of the writer's segment changes the end of the ring.
LEMMA OrderedChange ==
    ASSUME NEW ss, NEW tt, IsRing(ss), IsRing(tt), NEW w \in SegIds, SameBut(ss, tt, w)
    PROVE  ChangesEnd(ss, tt, w)
<1>1. Segments \in Nat \ {0}
  BY LineCaps
<1> DEFINE q == Ordered(ss, w)
           r == Ordered(tt, w)
<1>2. SameStart(q, r, Segments - 1)
  <2> SUFFICES ASSUME NEW i \in 1 .. Segments - 1 PROVE q[i] = r[i]
    BY DEF SameStart
  <2> DEFINE x == (w + i) % Segments
  <2>1. i \in 1 .. Segments /\ i # Segments
    BY <1>1
  <2>2. x \in SegIds /\ Rank(w, x) = i
    BY <2>1, RankIs
  <2>3. x # w
    <3> HIDE DEF x
    <3> QED BY <2>1, <2>2, RankIs
  <2>4. q[i] = ss[x] /\ r[i] = tt[x]
    BY <2>1, OrderedIs
  <2> QED BY <2>2, <2>3, <2>4 DEF SameBut
<1>3. Pieces(q, Segments, Records) /\ Pieces(r, Segments, Records)
      /\ q[Segments] = ss[w] /\ r[Segments] = tt[w]
  BY OrderedIs
<1> HIDE DEF q, r
<1>4. \E p \in Seq(Records) : FlattenSeq(q) = p \o q[Segments] /\ FlattenSeq(r) = p \o r[Segments]
  <2>1. Alike(q, r, Segments, Records)
    BY <1>2, <1>3 DEF Alike
  <2>2. EndDiffers(q, r, Segments, Records)
    BY <1>1, <2>1, LastJoined
  <2> QED BY <2>2 DEF EndDiffers
<1> QED BY <1>3, <1>4 DEF q, r, ChangesEnd

\* The turn of the ring.
LEMMA OrderedTurn ==
    ASSUME NEW ss, NEW tt, IsRing(ss), IsRing(tt), NEW w \in SegIds,
           SameBut(ss, tt, Turn(w))
    PROVE  ss[Turn(w)] \o FlattenSeq(Ordered(tt, Turn(w)))
           = FlattenSeq(Ordered(ss, w)) \o tt[Turn(w)]
<1>1. Segments \in Nat \ {0}
  BY LineCaps
<1> DEFINE v == Turn(w)
           q == Ordered(ss, w)
           r == Ordered(tt, v)
<1>2. v \in SegIds /\ Rank(w, v) = 1 /\ \A i \in 1 .. Segments - 1 : ((v + i) % Segments) = ((w + (i + 1)) % Segments)
  BY TurnIs
<1> HIDE DEF v
<1>3. \A i \in 1 .. Segments - 1 : r[i] = q[i + 1]
  <2> SUFFICES ASSUME NEW i \in 1 .. Segments - 1 PROVE r[i] = q[i + 1]
    OBVIOUS
  <2> DEFINE x == (v + i) % Segments
  <2>1. i \in 1 .. Segments /\ i # Segments /\ i + 1 \in 1 .. Segments
    BY <1>1
  <2>2. x \in SegIds /\ Rank(v, x) = i
    BY <1>2, <2>1, RankIs
  <2>3. x # v
    <3> HIDE DEF x
    <3> QED BY <1>2, <2>1, <2>2, RankIs
  <2>4. r[i] = tt[x]
    BY <1>2, <2>1, OrderedIs
  <2>5. q[i + 1] = ss[(w + (i + 1)) % Segments]
    BY <2>1, OrderedIs
  <2>6. x = ((w + (i + 1)) % Segments)
    BY <1>2
  <2> HIDE DEF x, q, r
  <2>7. ss[x] = tt[x]
    BY <2>2, <2>3 DEF v, SameBut
  <2> QED BY <2>4, <2>5, <2>6, <2>7
<1>4. Pieces(q, Segments, Records) /\ Pieces(r, Segments, Records) /\ r[Segments] = tt[v]
  BY <1>2, OrderedIs
<1>5. q[1] = ss[v]
  <2>1. 1 \in 1 .. Segments
    BY <1>1
  <2>2. ((w + 1) % Segments) = v
    BY <1>2, RankIs
  <2>3. q[1] = ss[(w + 1) % Segments]
    BY <2>1, OrderedIs
  <2> QED BY <2>2, <2>3
<1> HIDE DEF q, r
<1>6. q[1] \o FlattenSeq(r) = FlattenSeq(q) \o r[Segments]
  <2>1. Shifted(q, r, Segments, Records)
    BY <1>3, <1>4 DEF Shifted
  <2>2. Turned(q, r, Segments)
    BY <1>1, <2>1, ShiftJoined
  <2> QED BY <2>2 DEF Turned
<1> QED BY <1>4, <1>5, <1>6 DEF q, r, v

LEMMA ConcatAppend ==
    ASSUME NEW S, NEW p \in Seq(S), NEW a \in Seq(S), NEW x \in S
    PROVE  p \o Append(a, x) = Append(p \o a, x)
<1>1. Append(a, x) = a \o <<x>> /\ <<x>> \in Seq(S)
  BY AppendIsConcat
<1>2. p \o a \in Seq(S)
  BY ConcatProperties
<1>3. Append(p \o a, x) = (p \o a) \o <<x>>
  <2> DEFINE b == p \o a
  <2> HIDE DEF b
  <2>1. Append(b, x) = b \o <<x>>
    BY <1>2, AppendIsConcat DEF b
  <2> QED BY <2>1 DEF b
<1>4. (p \o a) \o <<x>> = p \o (a \o <<x>>)
  <2> DEFINE c == <<x>>
  <2>1. c \in Seq(S)
    BY <1>1
  <2> HIDE DEF c
  <2>2. (p \o a) \o c = p \o (a \o c)
    BY <2>1, Regroup
  <2> QED BY <2>2 DEF c
<1> QED BY <1>1, <1>3, <1>4

LEMMA FrontAppend ==
    ASSUME NEW S, NEW b \in Seq(S), NEW x \in S
    PROVE  Front(Append(b, x)) = b
<1> DEFINE a == Append(b, x)
           f == Front(a)
<1>1. a \in Seq(S) /\ a # <<>> /\ Len(a) = Len(b) + 1 /\ (\A i \in 1 .. Len(b) : a[i] = b[i])
  BY AppendProperties
<1>2. Len(b) \in Nat
  BY LenProperties
<1> HIDE DEF a
<1>3. f \in Seq(S) /\ Len(f) = Len(a) - 1 /\ \A i \in 1 .. Len(a) - 1 : f[i] = a[i]
  BY <1>1, FrontProperties
<1> HIDE DEF f
<1>4. Len(f) = Len(b) /\ \A i \in 1 .. Len(f) : f[i] = b[i]
  BY <1>1, <1>2, <1>3
<1>5. f = b
  BY <1>3, <1>4, SeqEqual
<1> QED BY <1>5 DEF f, a

\* The last line of the last part.
LEMMA FrontConcat ==
    ASSUME NEW S, NEW p \in Seq(S), NEW a \in Seq(S), a # <<>>
    PROVE  Front(p \o a) = p \o Front(a) /\ p \o a # <<>> /\ Front(a) \in Seq(S)
<1>1. PICK b \in Seq(S), x \in S : a = Append(b, x)
  BY SequenceEmptyOrAppend
<1>2. p \o a = Append(p \o b, x)
  BY <1>1, ConcatAppend
<1>3. p \o b \in Seq(S)
  BY ConcatProperties
<1>4. Front(a) = b
  BY <1>1, FrontAppend
<1>5. Front(p \o a) = p \o b /\ p \o a # <<>>
  <2> DEFINE c == p \o b
  <2> HIDE DEF c
  <2>1. Front(Append(c, x)) = c /\ Append(c, x) # <<>>
    BY <1>3, FrontAppend, AppendProperties, ZenonT(30) DEF c
  <2> QED BY <1>2, <2>1 DEF c
<1> QED BY <1>1, <1>4, <1>5

LEMMA RingTypesAre ==
    ASSUME LineTypes
    PROVE  /\ IsRing(segs) /\ writer.seg \in SegIds /\ writer.file \in SegIds /\ meta \in SegIds
           /\ writer.at \in {"ready", "turned"} /\ latest \in Seq(Records) /\ Len(latest) <= Guarded
           /\ SegTypes /\ \A s \in SegIds : segs[s] \in Seq(Records)
  BY DEF LineTypes, RingTypes, SegTypes, IsRing

LEMMA RingWrites ==
    ASSUME LineTypes, RingKeeps, WriteRecord, ~skipped'
    PROVE  RingShape' /\ RingFull' /\ RingEnds'
<1> DEFINE w == writer.seg
           x == queue[1]
<1>1. /\ writer.at = "ready" /\ queue # <<>> /\ UNCHANGED <<writer, meta, skipped>>
  BY DEF WriteRecord
<1>2. RingShape /\ RingFull /\ RingEnds /\ writer.file = w /\ w \in SegIds
  BY <1>1, RingTypesAre DEF RingKeeps, RingShape
<1>3. /\ LineTypes' /\ Append(segs[w], x) \in Seq(Records) /\ segs'[w] = Append(segs[w], x)
      /\ (\A t \in SegIds : t # w => segs'[t] = segs[t])
      /\ latest' = Latest(Append(latest, x), Guarded)
  BY <1>2, WriteTypes
<1>4. x \in Records
  BY <1>1, QueueHead
<1>5. RingShape'
  BY <1>1, <1>2 DEF RingShape
<1>6. RingFull'
  <2> SUFFICES ASSUME NEW s \in SegIds, NEW t \in SegIds,
                      Rank(w, s) < Rank(w, t), t # w, segs'[s] # <<>>
               PROVE  Len(segs'[t]) = SegMax
    BY <1>1 DEF RingFull
  <2>1. s # w
    <3>1. Rank(w, w) = Segments /\ Rank(w, t) \in 1 .. Segments /\ Segments \in Nat
      BY <1>2, RankIs, LineCaps
    <3> QED BY <3>1
  <2> QED BY <1>2, <1>3, <2>1 DEF RingFull
<1>7. RingEnds'
  <2>1. IsRing(segs) /\ IsRing(segs') /\ SameBut(segs, segs', w)
    BY <1>3, RingTypesAre DEF SameBut, LineTypes, RingTypes, SegTypes, IsRing
  <2>2. PICK p \in Seq(Records) : /\ FlattenSeq(Ordered(segs, w)) = p \o segs[w]
                                  /\ FlattenSeq(Ordered(segs', w)) = p \o segs'[w]
    <3>1. ChangesEnd(segs, segs', w)
      <4> HIDE DEF w
      <4> QED BY <1>2, <2>1, OrderedChange
    <3> QED BY <3>1 DEF ChangesEnd
  <2> DEFINE a == FlattenSeq(Ordered(segs, w))
             b == FlattenSeq(Ordered(segs', w))
             l == Append(latest, x)
  <2>3. b = Append(a, x)
    <3> DEFINE c == segs[w]
    <3>1. c \in Seq(Records)
      BY <1>2, RingTypesAre
    <3> HIDE DEF c
    <3>2. p \o Append(c, x) = Append(p \o c, x)
      BY <1>4, <3>1, ConcatAppend
    <3> QED BY <1>3, <2>2, <3>2 DEF c
  <2>4. a \in Seq(Records) /\ b \in Seq(Records)
    BY <1>2, <2>1, OrderedIs
  <2>5. latest \in Seq(Records) /\ Ends(latest, a)
    BY <1>2, RingTypesAre DEF RingEnds
  <2> HIDE DEF a, b
  <2>6. l \in Seq(Records) /\ Ends(l, b)
    BY <1>4, <2>3, <2>4, <2>5, EndsAppend, AppendProperties
  <2> HIDE DEF l
  <2>7. Ends(Latest(l, Guarded), l) /\ Latest(l, Guarded) \in Seq(Records)
    BY <2>6, LatestEnds, LatestIs, LineCaps
  <2>8. Ends(latest', b)
    <3> DEFINE m == Latest(l, Guarded)
    <3>1. m = latest'
      BY <1>3 DEF l
    <3> HIDE DEF m
    <3>2. Ends(m, b)
      BY <2>4, <2>6, <2>7, EndsTransitive DEF m
    <3> QED BY <3>1, <3>2
  <2> QED BY <1>1, <2>8 DEF RingEnds, b
<1> QED BY <1>5, <1>6, <1>7

LEMMA RingTruncates ==
    ASSUME LineTypes, RingKeeps, Truncate, ~skipped'
    PROVE  RingShape' /\ RingFull' /\ RingEnds'
<1> DEFINE w == writer.seg
           v == Turn(w)
<1>1. /\ writer.at = "ready" /\ UNCHANGED <<meta, skipped, latest>> /\ ~(Len(segs[writer.file]) < SegMax)
      /\ writer' = [at |-> "turned", seg |-> v, file |-> v]
  BY DEF Truncate, Fits
<1>2. /\ RingShape /\ RingFull /\ RingEnds /\ writer.file = w /\ w \in SegIds /\ meta = w
      /\ Len(segs[w]) = SegMax
  <2>1. RingShape /\ RingFull /\ RingEnds /\ writer.file = w /\ meta = w
    BY <1>1 DEF RingKeeps, RingShape
  <2>2. w \in SegIds /\ Len(segs[w]) \in Nat /\ Len(segs[w]) <= SegMax
    BY RingTypesAre, LenProperties DEF SegTypes
  <2> QED BY <1>1, <2>1, <2>2, LineCaps
<1>3. LineTypes' /\ v \in SegIds /\ segs'[v] = <<>> /\ \A t \in SegIds : t # v => segs'[t] = segs[t]
  BY TruncateTypes
<1>4. RingShape'
  BY <1>1, <1>2, <1>3 DEF RingShape
<1>5. \A s \in SegIds : Rank(v, s) = IF s = v THEN Segments ELSE Rank(w, s) - 1
  BY <1>2, TurnIs
<1>6. \A s \in SegIds : Rank(w, s) \in 1 .. Segments /\ (Rank(w, s) = Segments <=> s = w)
  BY <1>2, RankIs
<1>7. RingFull'
  <2> SUFFICES ASSUME NEW s \in SegIds, NEW t \in SegIds,
                      Rank(v, s) < Rank(v, t), t # v, segs'[s] # <<>>
               PROVE  Len(segs'[t]) = SegMax
    BY <1>1 DEF RingFull
  <2>1. s # v /\ segs'[s] = segs[s] /\ segs'[t] = segs[t]
    BY <1>3
  <2>2. Rank(w, s) < Rank(w, t)
    <3> DEFINE a == Rank(w, s)
               b == Rank(w, t)
    <3>1. a - 1 < b - 1 /\ a \in 1 .. Segments /\ b \in 1 .. Segments
      BY <1>5, <1>6, <2>1
    <3> HIDE DEF a, b
    <3>2. a < b
      BY <3>1, LineCaps
    <3> QED BY <3>2 DEF a, b
  <2>3. CASE t = w
    BY <1>2, <2>1, <2>3
  <2>4. CASE t # w
    BY <1>2, <2>1, <2>2, <2>4 DEF RingFull
  <2> QED BY <2>3, <2>4
<1>8. RingEnds'
  <2>1. IsRing(segs) /\ IsRing(segs') /\ SameBut(segs, segs', v)
    BY <1>3, RingTypesAre DEF SameBut, LineTypes, RingTypes, SegTypes, IsRing
  <2> DEFINE a == FlattenSeq(Ordered(segs, w))
             b == FlattenSeq(Ordered(segs', v))
             c == segs[v]
  <2>2. a \in Seq(Records) /\ b \in Seq(Records) /\ c \in Seq(Records)
    BY <1>2, <1>3, <2>1, OrderedIs, RingTypesAre
  <2>3. c \o b = a
    <3>1. c \o b = a \o segs'[v]
      BY <1>2, <2>1, OrderedTurn
    <3> HIDE DEF a, b, c
    <3> QED BY <1>3, <2>2, <3>1, ConcatEmptySeq
  <2>4. latest \in Seq(Records) /\ Ends(latest, a) /\ Len(latest) <= Guarded
    BY <1>2, RingTypesAre DEF RingEnds
  <2>5. CASE c = <<>>
    <3> HIDE DEF a, b, c
    <3>1. a = b
      BY <2>2, <2>3, <2>5, ConcatEmptySeq
    <3> QED BY <1>1, <2>4, <3>1 DEF RingEnds, b
  <2>6. CASE c # <<>>
    <3>1. ASSUME NEW i \in 1 .. Segments - 1 PROVE Len(Ordered(segs', v)[i]) = SegMax
      <4> DEFINE t == (v + i) % Segments
      <4>1. i \in 1 .. Segments /\ i # Segments
        BY LineCaps
      <4>2. t \in SegIds /\ Rank(v, t) = i /\ Ordered(segs', v)[i] = segs'[t]
        BY <1>3, <2>1, <4>1, RankIs, OrderedIs
      <4>3. t # v
        BY <1>5, <4>1, <4>2
      <4> HIDE DEF t
      <4>4. segs'[t] = segs[t] /\ Rank(w, t) = i + 1 /\ Rank(w, v) = 1
        <5>1. Rank(w, t) - 1 = i /\ Rank(w, t) \in Nat
          BY <1>5, <1>6, <4>2, <4>3
        <5> QED BY <1>2, <1>3, <4>2, <4>3, <5>1, TurnIs
      <4>5. CASE t = w
        BY <1>2, <4>2, <4>4, <4>5
      <4>6. CASE t # w
        <5>1. Rank(w, v) < Rank(w, t)
          BY <4>4
        <5>2. Len(segs[t]) = SegMax
          BY <1>2, <1>3, <2>6, <4>2, <4>6, <5>1 DEF RingFull
        <5> QED BY <4>2, <4>4, <5>2
      <4> QED BY <4>5, <4>6
    <3>2. Pieces(Ordered(segs', v), Segments, Records)
      BY <1>3, <2>1, OrderedIs
    <3>3. Len(b) >= Guarded
      <4> DEFINE q == Ordered(segs', v)
      <4>1. \A i \in 1 .. Segments - 1 : Len(q[i]) = SegMax
        BY <3>1
      <4> HIDE DEF q
      <4>2. Len(FlattenSeq(q)) >= (Segments - 1) * SegMax
        BY <3>2, <4>1, FullJoined, LineCaps DEF q
      <4> QED BY <4>2 DEF Guarded, q
    <3>4. Len(latest) <= Len(b)
      <4>1. Len(latest) \in Nat /\ Len(b) \in Nat
        BY <2>2, <2>4, LenProperties
      <4> HIDE DEF b
      <4> QED BY <2>4, <3>3, <4>1, LineCaps
    <3>5. Ends(latest, b)
      <4> HIDE DEF a, b, c
      <4>1. Ends(latest, c \o b)
        BY <2>3, <2>4
      <4> QED BY <2>2, <2>4, <3>4, <4>1, EndsOfSecond
    <3> QED BY <1>1, <3>5 DEF RingEnds
  <2> QED BY <2>5, <2>6
<1> QED BY <1>4, <1>7, <1>8

LEMMA RingMetas ==
    ASSUME LineTypes, RingKeeps, WriteMeta, ~skipped'
    PROVE  RingShape' /\ RingFull' /\ RingEnds'
<1>1. /\ writer.at = "turned" /\ meta' = writer.seg /\ writer' = [writer EXCEPT !.at = "ready"]
      /\ UNCHANGED <<segs, skipped, latest>>
  BY DEF WriteMeta
<1>2. writer'.seg = writer.seg /\ writer'.file = writer.file /\ writer'.at = "ready"
  BY <1>1 DEF LineTypes, RingTypes
<1>3. RingShape /\ RingFull /\ RingEnds
  BY <1>1 DEF RingKeeps
<1>4. RingShape'
  BY <1>1, <1>2, <1>3 DEF RingShape
<1>5. RingFull'
  BY <1>1, <1>2, <1>3 DEF RingFull
<1>6. RingEnds'
  BY <1>1, <1>2, <1>3 DEF RingEnds
<1> QED BY <1>4, <1>5, <1>6

LEMMA RingCrashes ==
    ASSUME LineTypes, RingKeeps, CrashLines, ~skipped'
    PROVE  RingShape' /\ RingFull' /\ RingEnds'
<1> DEFINE w == writer.seg
<1>1. /\ writer' = [at |-> "ready", seg |-> meta, file |-> meta] /\ UNCHANGED <<meta, skipped>>
      /\ \/ segs' = segs /\ latest' = latest
         \/ /\ segs[writer.file] # <<>>
            /\ segs' = [segs EXCEPT ![writer.file] = Append(Front(@), Torn)]
            /\ latest' = Latest(Append(Front(latest), Torn), Guarded)
  BY DEF CrashLines
<1>2. /\ RingShape /\ RingFull /\ RingEnds /\ writer.file = w /\ w \in SegIds /\ meta \in SegIds
      /\ IsRing(segs) /\ latest \in Seq(Records) /\ segs[w] \in Seq(Records)
  BY <1>1, RingTypesAre DEF RingKeeps, RingShape
<1>3. LineTypes' /\ IsRing(segs')
  <2>1. LineTypes'
    BY CrashTypes
  <2> QED BY <2>1 DEF LineTypes, RingTypes, SegTypes, IsRing
<1>4. RingShape'
  BY <1>1 DEF RingShape
<1>5. CASE writer.at = "turned"
  <2>1. w = Turn(meta) /\ segs[w] = <<>> /\ segs' = segs /\ latest' = latest
    BY <1>1, <1>2, <1>5 DEF RingShape
  <2>2. \A s \in SegIds : Rank(w, s) = IF s = w THEN Segments ELSE Rank(meta, s) - 1
    BY <1>2, <2>1, TurnIs
  <2>3. \A s \in SegIds : Rank(meta, s) \in 1 .. Segments
    BY <1>2, RankIs
  <2>4. RingFull'
    <3> SUFFICES ASSUME NEW s \in SegIds, NEW t \in SegIds,
                        Rank(meta, s) < Rank(meta, t), t # meta, segs[s] # <<>>
                 PROVE  Len(segs[t]) = SegMax
      BY <1>1, <2>1 DEF RingFull
    <3>1. s # w
      BY <2>1
    <3>2. t # w
      <4>1. Rank(meta, w) = 1
        BY <1>2, <2>1, TurnIs
      <4>2. Rank(meta, s) \in Nat \ {0}
        BY <2>3
      <4> QED BY <4>1, <4>2
    <3>3. Rank(w, s) < Rank(w, t)
      <4> DEFINE a == Rank(meta, s)
                 b == Rank(meta, t)
      <4>1. a < b /\ a \in Int /\ b \in Int
        BY <2>3
      <4>2. Rank(w, s) = a - 1 /\ Rank(w, t) = b - 1
        BY <2>2, <3>1, <3>2
      <4> HIDE DEF a, b
      <4> QED BY <4>1, <4>2
    <3> QED BY <1>2, <3>2, <3>3 DEF RingFull
  <2>5. RingEnds'
    <3> DEFINE a == FlattenSeq(Ordered(segs, meta))
               b == FlattenSeq(Ordered(segs, w))
    <3>1. SameBut(segs, segs, w)
      BY DEF SameBut
    <3>2. segs[w] \o b = a \o segs[w]
      BY <1>2, <2>1, <3>1, OrderedTurn
    <3>3. a \in Seq(Records) /\ b \in Seq(Records)
      BY <1>2, OrderedIs
    <3> HIDE DEF a, b
    <3>4. a = b
      BY <2>1, <3>2, <3>3, ConcatEmptySeq
    <3>5. Ends(latest, b)
      BY <1>2 DEF RingEnds, b
    <3> QED BY <1>1, <2>1, <3>4, <3>5 DEF RingEnds, a
  <2> QED BY <1>4, <2>4, <2>5
<1>6. CASE writer.at = "ready"
  <2>1. meta = w /\ writer'.seg = w
    BY <1>1, <1>2, <1>6 DEF RingShape
  <2>2. CASE segs' = segs /\ latest' = latest
    <3>1. RingFull'
      BY <1>2, <2>1, <2>2 DEF RingFull
    <3>2. RingEnds'
      BY <1>2, <2>1, <2>2 DEF RingEnds
    <3> QED BY <1>4, <3>1, <3>2
  <2>3. CASE /\ segs[writer.file] # <<>>
             /\ segs' = [segs EXCEPT ![writer.file] = Append(Front(@), Torn)]
             /\ latest' = Latest(Append(Front(latest), Torn), Guarded)
    <3> DEFINE c == segs[w]
               d == Append(Front(c), Torn)
    <3>1. /\ c # <<>> /\ c \in Seq(Records) /\ segs'[w] = d
          /\ \A t \in SegIds : t # w => segs'[t] = segs[t]
      BY <1>2, <2>3 DEF IsRing
    <3>2. Torn \in Records
      BY DEF Torn, Records
    <3>3. RingFull'
      <4> SUFFICES ASSUME NEW s \in SegIds, NEW t \in SegIds,
                          Rank(w, s) < Rank(w, t), t # w, segs'[s] # <<>>
                   PROVE  Len(segs'[t]) = SegMax
        BY <2>1 DEF RingFull
      <4>1. s # w
        <5>1. Rank(w, w) = Segments /\ Rank(w, t) \in 1 .. Segments /\ Segments \in Nat
          BY <1>2, RankIs, LineCaps
        <5> QED BY <5>1
      <4> QED BY <1>2, <3>1, <4>1 DEF RingFull
    <3>4. SameBut(segs, segs', w)
      BY <3>1 DEF SameBut
    <3>5. ChangesEnd(segs, segs', w)
      <4> HIDE DEF w
      <4> QED BY <1>2, <1>3, <3>4, OrderedChange
    <3>6. PICK p \in Seq(Records) : /\ FlattenSeq(Ordered(segs, w)) = p \o segs[w]
                                    /\ FlattenSeq(Ordered(segs', w)) = p \o segs'[w]
      BY <3>5 DEF ChangesEnd
    <3> DEFINE a == FlattenSeq(Ordered(segs, w))
               b == FlattenSeq(Ordered(segs', w))
               l == Append(Front(latest), Torn)
    <3>7. a \in Seq(Records) /\ b \in Seq(Records) /\ Ends(latest, a)
      BY <1>2, <1>3, OrderedIs DEF RingEnds
    <3>8. a = p \o c /\ b = p \o d
      BY <3>1, <3>6
    <3> HIDE DEF a, b, c
    <3>9. Front(a) = p \o Front(c) /\ a # <<>> /\ Front(c) \in Seq(Records)
      BY <3>1, <3>8, FrontConcat
    <3>10. b = Append(Front(a), Torn)
      <4> DEFINE f == Front(c)
      <4>1. f \in Seq(Records)
        BY <3>9
      <4> HIDE DEF f
      <4>2. p \o Append(f, Torn) = Append(p \o f, Torn)
        BY <3>2, <4>1, ConcatAppend
      <4> QED BY <3>8, <3>9, <4>2 DEF f
    <3>11. Front(latest) \in Seq(Records) /\ Ends(l, b)
      BY <1>2, <3>2, <3>7, <3>9, <3>10, EndsTorn
    <3>12. l \in Seq(Records)
      BY <3>2, <3>11, AppendProperties
    <3> DEFINE m == Latest(l, Guarded)
    <3>13. m = latest'
      BY <2>3
    <3> HIDE DEF l
    <3>14. Ends(m, l) /\ m \in Seq(Records)
      BY <3>12, LatestEnds, LatestIs, LineCaps
    <3> HIDE DEF m
    <3>15. Ends(m, b)
      BY <3>7, <3>11, <3>12, <3>14, EndsTransitive
    <3>16. RingEnds'
      BY <2>1, <3>13, <3>15 DEF RingEnds, b
    <3> QED BY <1>4, <3>3, <3>16
  <2> QED BY <1>1, <2>2, <2>3
<1> QED BY <1>5, <1>6, RingTypesAre

\* The ring keeps the records written last over every step.
LEMMA RingStep ==
    ASSUME LineTypes, RingKeeps, [LineNext]_lineVars
    PROVE  RingKeeps'
<1>1. CASE UNCHANGED <<segs, meta, writer, latest, skipped>>
  BY <1>1 DEF RingKeeps, RingShape, RingFull, RingEnds
<1>2. CASE RotateFails
  BY <1>2 DEF RotateFails, RingKeeps
<1>3. CASE WriteRecord \/ Truncate \/ WriteMeta \/ CrashLines
  BY <1>3, RingWrites, RingTruncates, RingMetas, RingCrashes DEF RingKeeps
<1>4. CASE (\E own \in BOOLEAN : Output(own)) \/ Clock \/ Rejoin
  BY <1>1, <1>4 DEF Output, Clock, Rejoin
<1>5. CASE UNCHANGED lineVars
  BY <1>1, <1>5 DEF lineVars
<1>6. CASE \/ \E n \in 1 .. MaxLines : ReportLast(n)
           \/ ReadOlder
           \/ TellLast
           \/ \E n \in KeptIds \cup {r.id : r \in ToSet(scroll)} : ReportSubmit(n)
           \/ ReadNewer
           \/ TellSubmit
           \/ Served
  <2>1. ReportKeeps
    BY <1>6, ReportTypes
  <2> QED BY <1>1, <2>1 DEF ReportKeeps
<1> QED
  BY <1>2, <1>3, <1>4, <1>5, <1>6 DEF LineNext

LEMMA RingStart == LineInit => RingKeeps
<1> SUFFICES ASSUME LineInit PROVE RingShape /\ RingFull /\ RingEnds
  BY DEF RingKeeps
<1>1. segs \in [SegIds -> Seq(Records)] /\ writer.seg = 0 /\ writer.file = 0 /\ writer.at = "ready"
      /\ meta = 0 /\ latest = <<>> /\ \A s \in SegIds : segs[s] = <<>>
  <2>1. <<>> \in Seq(Records)
    OBVIOUS
  <2> QED BY <2>1 DEF LineInit
<1>2. RingShape
  BY <1>1 DEF RingShape
<1>3. RingFull
  BY <1>1 DEF RingFull
<1>4. RingEnds
  <2> DEFINE a == FlattenSeq(Ordered(segs, writer.seg))
  <2>1. 0 \in SegIds
    BY LineCaps DEF SegIds
  <2>2. a \in Seq(Records)
    BY <1>1, <2>1, OrderedIs DEF IsRing
  <2> HIDE DEF a
  <2>3. Ends(<<>>, a)
    <3>1. Len(a) \in Nat
      BY <2>2, LenProperties
    <3> QED BY <3>1 DEF Ends
  <2> QED BY <1>1, <2>3 DEF RingEnds, a
<1> QED BY <1>2, <1>3, <1>4

LEMMA RingEndsImply ==
    ASSUME LineTypes, RingKeeps
    PROVE  RingEndsWithLatest
<1> DEFINE a == FlattenSeq(Ordered(segs, writer.seg))
<1>1. a \in Seq(Records) /\ latest \in Seq(Records)
  BY RingTypesAre, OrderedIs
<1>2. RingEndsWithLatest <=> skipped \/ IsSuffix(latest, a)
  BY DEF RingEndsWithLatest, Ordered
<1> HIDE DEF a
<1>3. IsSuffix(latest, a) <=> Ends(latest, a)
  BY <1>1, SuffixIs
<1> QED BY <1>2, <1>3 DEF RingKeeps, RingEnds, a

-----------------------------------------------------------------------------
(* The lines of the character are in ascending order wherever they are kept:*)
(* in the ring, then in the queue; the scrollback holds all of them from its*)
(* first on.                                                                *)

OwnIn(s)       == ToSet(segs[s]) \cap OwnRecords
SegBelow(s, t) == \A r \in OwnIn(s), o \in OwnIn(t) : r.id < o.id
OrderedBy(w)   == \A s, t \in SegIds : Rank(w, s) < Rank(w, t) => SegBelow(s, t)
QueuedOwn          == ToSet(queue) \cap OwnRecords
InRing         == UNION {OwnIn(s) : s \in SegIds}
Covers(hot, S) == hot # <<>> => \A r \in S : r.id >= hot[1].id => r \in ToSet(hot)

KnownOwn ==
    /\ \A r \in InRing \cup QueuedOwn \cup ToSet(scroll) : r.id <= last
    /\ ToSet(scroll) \subseteq OwnRecords
RingSorted   == (\A s \in SegIds : AscendsIn(segs[s], OwnRecords)) /\ OrderedBy(writer.seg)
QueueSorted  == AscendsIn(queue, OwnRecords) /\ \A r \in InRing, o \in QueuedOwn : r.id < o.id
ScrollSorted == Ascends(scroll) /\ Covers(scroll, InRing \cup QueuedOwn)
Sound        == ~skipped /\ ~setBack
LinesSorted  == Sound => KnownOwn /\ RingSorted /\ QueueSorted /\ ScrollSorted

LEMMA OwnAreNat == \A r \in OwnRecords : r.id \in Nat /\ r \in Records /\ r.own
  BY DEF OwnRecords, Records

\* In an ascending sequence the first line is the oldest.
LEMMA FirstIsOldest ==
    ASSUME NEW q \in Seq(Records), Ascends(q), q # <<>>
    PROVE  q[1] \in ToSet(q) /\ q[1].id \in Nat /\ \A r \in ToSet(q) : r.id \in Nat /\ q[1].id <= r.id
<1>1. Len(q) \in Nat \ {0} /\ \A i \in 1 .. Len(q) : q[i] \in Records
  BY EmptySeq, LenProperties
<1>2. 1 \in 1 .. Len(q)
  BY <1>1
<1>3. \A i \in 1 .. Len(q) : q[i].id \in Nat
  BY <1>1 DEF Records
<1>4. q[1] \in ToSet(q)
  BY <1>2, InToSet
<1>5. ASSUME NEW r \in ToSet(q) PROVE r.id \in Nat /\ q[1].id <= r.id
  <2>1. PICK i \in 1 .. Len(q) : q[i] = r
    BY InToSet
  <2>2. CASE i = 1
    BY <1>3, <2>1, <2>2
  <2>3. CASE i # 1
    <3>1. 1 < i
      BY <1>1, <2>3
    <3>2. q[1].id < q[i].id
      BY <1>2, <3>1 DEF Ascends
    <3> QED BY <1>2, <1>3, <2>1, <3>2
  <2> QED BY <2>2, <2>3
<1> QED BY <1>2, <1>3, <1>4, <1>5

\* The newest lines still cover what they did, and with one line more too.
LEMMA CoversLatest ==
    ASSUME NEW q \in Seq(Records), NEW n \in Nat, NEW S, S \subseteq OwnRecords, Ascends(q), Covers(q, S)
    PROVE  Covers(Latest(q, n), S)
<1> DEFINE L == Latest(q, n)
<1>1. L \in Seq(Records) /\ Ascends(L) /\ ToSet(L) \subseteq ToSet(q)
      /\ \A r \in ToSet(q) \ ToSet(L) : \A o \in ToSet(L) : r.id < o.id
  BY LatestAscends, LatestIs
<1> HIDE DEF L
<1> SUFFICES ASSUME L # <<>>, NEW r \in S, r.id >= L[1].id PROVE r \in ToSet(L)
  BY DEF Covers, L
<1>2. L[1] \in ToSet(L) /\ L[1].id \in Nat
  BY <1>1, FirstIsOldest
<1>3. q # <<>>
  <2>1. ToSet(q) # {}
    BY <1>1, <1>2
  <2> QED BY <2>1 DEF ToSet
<1>4. q[1].id \in Nat /\ q[1].id <= L[1].id
  BY <1>1, <1>2, <1>3, FirstIsOldest
<1>5. r.id \in Nat
  BY OwnAreNat
<1>6. r \in ToSet(q)
  <2>1. r.id >= q[1].id
    BY <1>2, <1>4, <1>5
  <2> QED BY <1>3, <2>1 DEF Covers
<1>7. ASSUME r \notin ToSet(L) PROVE FALSE
  <2>1. r.id < L[1].id
    BY <1>1, <1>2, <1>6, <1>7
  <2> QED BY <1>2, <1>5, <2>1
<1> QED BY <1>7

LEMMA CoversAppend ==
    ASSUME NEW q \in Seq(Records), NEW S, S \subseteq OwnRecords, Ascends(q), Covers(q, S),
           NEW x \in OwnRecords, \A r \in S \cup ToSet(q) : r.id < x.id
    PROVE  Covers(Append(q, x), S \cup {x}) /\ Append(q, x) \in Seq(Records) /\ Ascends(Append(q, x))
<1> DEFINE a == Append(q, x)
<1>1. x \in Records
  BY OwnAreNat
<1>2. a \in Seq(Records) /\ a # <<>> /\ ToSet(a) = ToSet(q) \cup {x} /\ Ascends(a)
  BY <1>1, AppendProperties, AppendAscends
<1>3. q # <<>> => a[1] = q[1]
  <2>1. ASSUME q # <<>> PROVE a[1] = q[1]
    <3>1. 1 \in 1 .. Len(q)
      BY <2>1, EmptySeq
    <3> QED BY <1>1, <3>1, AppendProperties
  <2> QED BY <2>1
<1>4. q = <<>> => a[1] = x
  <2>1. ASSUME q = <<>> PROVE a[1] = x
    <3>1. Len(q) + 1 = 1
      BY <2>1
    <3>2. Append(q, x)[Len(q) + 1] = x
      BY <1>1, AppendProperties
    <3> QED BY <3>1, <3>2
  <2> QED BY <2>1
<1> HIDE DEF a
<1>5. ASSUME NEW r \in S \cup {x}, r.id >= a[1].id PROVE r \in ToSet(a)
  <2>1. CASE r = x
    BY <1>2, <2>1
  <2>2. CASE r # x
    <3>1. r \in S /\ r.id < x.id /\ r.id \in Nat /\ x.id \in Nat
      BY <2>2, <1>5, OwnAreNat
    <3>2. q # <<>>
      BY <1>4, <1>5, <3>1
    <3> QED BY <1>2, <1>3, <1>5, <3>1, <3>2 DEF Covers
  <2> QED BY <2>1, <2>2
<1>6. Covers(a, S \cup {x})
  BY <1>5 DEF Covers
<1> QED BY <1>2, <1>6 DEF a

LEMMA CoversLess ==
    ASSUME NEW q, NEW S, NEW T, T \subseteq S, Covers(q, S) PROVE Covers(q, T)
  BY DEF Covers

\* What the ring and the queue hold.
LEMMA KeptAreOwn ==
    ASSUME LineTypes
    PROVE  /\ InRing \subseteq OwnRecords /\ QueuedOwn \subseteq OwnRecords
           /\ \A s \in SegIds : OwnIn(s) \subseteq InRing
  BY DEF InRing, OwnIn, QueuedOwn

LEMMA SortedStart == LineInit => LinesSorted
<1> SUFFICES ASSUME LineInit PROVE KnownOwn /\ RingSorted /\ QueueSorted /\ ScrollSorted
  BY DEF LinesSorted
<1>1. ToSet(<<>>) = {} /\ Len(<<>>) = 0
  BY DEF ToSet
<1>2. scroll = <<>> /\ queue = <<>> /\ \A s \in SegIds : segs[s] = <<>>
  BY DEF LineInit
<1>3. (\A s \in SegIds : OwnIn(s) = {}) /\ InRing = {} /\ QueuedOwn = {}
  BY <1>1, <1>2 DEF OwnIn, InRing, QueuedOwn
<1>4. AscendsIn(<<>>, OwnRecords) /\ Ascends(<<>>)
  BY <1>1 DEF AscendsIn, Ascends
<1>5. KnownOwn
  BY <1>1, <1>2, <1>3 DEF KnownOwn
<1>6. RingSorted
  BY <1>2, <1>3, <1>4 DEF RingSorted, OrderedBy, SegBelow
<1>7. QueueSorted
  BY <1>2, <1>3, <1>4 DEF QueueSorted
<1>8. ScrollSorted
  BY <1>2, <1>3, <1>4 DEF ScrollSorted, Covers
<1> QED BY <1>5, <1>6, <1>7, <1>8

LEMMA OutputSorts ==
    ASSUME LineTypes, LinesSorted, NEW own \in BOOLEAN, Output(own), Sound'
    PROVE  KnownOwn' /\ RingSorted' /\ QueueSorted' /\ ScrollSorted'
<1> DEFINE x == [id |-> last', own |-> own]
           a == Append(scroll, x)
<1>1. /\ UNCHANGED <<segs, writer, skipped>> /\ (setBack => setBack')
      /\ scroll' = (IF own THEN Latest(a, ScrollCap) ELSE scroll)
      /\ queue' = (IF Len(queue) < QueueCap THEN Append(queue, x) ELSE queue)
  BY DEF Output
<1>2. KnownOwn /\ RingSorted /\ QueueSorted /\ ScrollSorted
  BY <1>1 DEF Sound, LinesSorted
<1>3. x \in Records /\ last' > last /\ last \in Nat /\ last' \in Nat
  BY OutputTypes, OutputStep DEF Sound, LineTypes, GenFits
<1>4. x.id = last' /\ (x \in OwnRecords <=> own) /\ x.own = own
  BY <1>3 DEF OwnRecords, Records
<1>5. queue \in Seq(Records) /\ scroll \in Seq(Records)
  BY DEF LineTypes, PendingTypes, ScrollTypes
<1>6. InRing' = InRing /\ RingSorted'
  BY <1>1, <1>2 DEF InRing, OwnIn, RingSorted, OrderedBy, SegBelow
<1> HIDE DEF x, a
<1>7. ToSet(queue') \subseteq ToSet(queue) \cup {x}
      /\ (AscendsIn(queue', OwnRecords))
  <2>1. CASE Len(queue) < QueueCap
    <3>1. queue' = Append(queue, x)
      BY <1>1, <2>1
    <3>2. ToSet(queue') = ToSet(queue) \cup {x}
      BY <1>3, <1>5, <3>1, AppendAscends
    <3>3. \A r \in ToSet(queue) \cap OwnRecords : r.id < x.id
      <4>1. \A r \in ToSet(queue) \cap OwnRecords : r.id <= last /\ r.id \in Nat
        BY <1>2, OwnAreNat DEF KnownOwn, QueuedOwn
      <4> QED BY <1>3, <1>4, <4>1
    <3>4. AscendsIn(queue, OwnRecords)
      BY <1>2 DEF QueueSorted
    <3>5. AscendsIn(queue', OwnRecords)
      BY <1>3, <1>5, <3>1, <3>3, <3>4, AppendAscends
    <3> QED BY <3>2, <3>5
  <2>2. CASE ~(Len(queue) < QueueCap)
    BY <1>1, <1>2, <2>2 DEF QueueSorted
  <2> QED BY <2>1, <2>2
<1>8. QueuedOwn' \subseteq QueuedOwn \cup ({x} \cap OwnRecords)
  BY <1>7 DEF QueuedOwn
<1>9. \A r \in InRing \cup QueuedOwn \cup ToSet(scroll) : r.id <= last /\ r.id \in Nat /\ r.id < x.id /\ r.id <= last'
  <2>1. \A r \in InRing \cup QueuedOwn \cup ToSet(scroll) : r.id <= last /\ r.id \in Nat
    BY <1>2, KeptAreOwn, OwnAreNat DEF KnownOwn
  <2> QED BY <1>3, <1>4, <2>1
<1>10. QueueSorted'
  <2>1. ASSUME NEW r \in InRing, NEW o \in QueuedOwn' PROVE r.id < o.id
    <3>1. CASE o = x
      BY <1>9, <3>1
    <3>2. CASE o # x
      BY <1>2, <1>8, <3>2 DEF QueueSorted
    <3> QED BY <3>1, <3>2
  <2> QED BY <1>6, <1>7, <2>1 DEF QueueSorted
<1>11. CASE own
  <2>1. x \in OwnRecords /\ scroll' = Latest(a, ScrollCap)
    BY <1>1, <1>4, <1>11
  <2>2. InRing \cup QueuedOwn \subseteq OwnRecords /\ Ascends(scroll) /\ Covers(scroll, InRing \cup QueuedOwn)
    BY <1>2, KeptAreOwn DEF ScrollSorted
  <2> DEFINE S == InRing \cup QueuedOwn
  <2>3. S \subseteq OwnRecords /\ Covers(scroll, S) /\ \A r \in S \cup ToSet(scroll) : r.id < x.id
    BY <1>9, <2>2
  <2> HIDE DEF S
  <2>4. Covers(a, S \cup {x}) /\ a \in Seq(Records) /\ Ascends(a)
    BY <1>5, <2>1, <2>2, <2>3, CoversAppend DEF a
  <2> DEFINE U == S \cup {x}
  <2>5. U \subseteq OwnRecords
    BY <2>1, <2>3
  <2> HIDE DEF U
  <2>6. Covers(scroll', U)
    BY <2>1, <2>4, <2>5, CoversLatest, LineCaps DEF U
  <2>7. Ascends(scroll') /\ ToSet(scroll') \subseteq ToSet(a)
    BY <2>1, <2>4, LatestAscends, LineCaps
  <2>8. (InRing \cup QueuedOwn)' \subseteq U
    BY <1>6, <1>8 DEF U, S
  <2>9. ScrollSorted'
    BY <2>6, <2>7, <2>8, CoversLess DEF ScrollSorted
  <2>10. ToSet(a) = ToSet(scroll) \cup {x}
    BY <1>3, <1>5, AppendAscends DEF a
  <2>11. KnownOwn'
    <3>1. ASSUME NEW r \in (InRing \cup QueuedOwn \cup ToSet(scroll))' PROVE r.id <= last'
      <4>1. CASE r = x
        BY <1>3, <1>4, <4>1
      <4>2. CASE r # x
        BY <1>6, <1>8, <1>9, <2>7, <2>10, <4>2
      <4> QED BY <4>1, <4>2
    <3>2. ToSet(scroll') \subseteq OwnRecords
      BY <1>2, <2>1, <2>7, <2>10 DEF KnownOwn
    <3> QED BY <3>1, <3>2 DEF KnownOwn
  <2> QED BY <1>6, <1>10, <2>9, <2>11
<1>12. CASE ~own
  <2>1. scroll' = scroll /\ QueuedOwn' \subseteq QueuedOwn
    BY <1>1, <1>4, <1>8, <1>12
  <2>2. KnownOwn'
    BY <1>2, <1>6, <1>9, <2>1 DEF KnownOwn
  <2>3. ScrollSorted'
    BY <1>2, <1>6, <2>1, CoversLess DEF ScrollSorted
  <2> QED BY <1>6, <1>10, <2>2, <2>3
<1> QED BY <1>11, <1>12

\* The line that leaves the queue is older than those that stay.
LEMMA QueueTail ==
    ASSUME LineTypes, queue # <<>>, AscendsIn(queue, OwnRecords)
    PROVE  /\ AscendsIn(Tail(queue), OwnRecords) /\ ToSet(Tail(queue)) \subseteq ToSet(queue)
           /\ queue[1] \in ToSet(queue) /\ queue[1] \in Records
           /\ queue[1] \in OwnRecords => \A o \in ToSet(Tail(queue)) \cap OwnRecords : queue[1].id < o.id
<1> DEFINE t == Tail(queue)
           n == Len(queue)
<1>1. /\ queue[1] \in Records /\ n \in Nat \ {0} /\ t \in Seq(Records) /\ Len(t) = n - 1
      /\ \A i \in 1 .. n - 1 : t[i] = queue[i + 1]
  BY QueueHead
<1>2. queue \in Seq(Records)
  BY DEF LineTypes, PendingTypes
<1> HIDE DEF t
<1>3. \A i \in 1 .. Len(t) : i + 1 \in 1 .. n /\ t[i] = queue[i + 1]
  BY <1>1
<1>4. AscendsIn(t, OwnRecords)
  <2> SUFFICES ASSUME NEW i \in 1 .. Len(t), NEW j \in 1 .. Len(t), i < j,
                      t[i] \in OwnRecords, t[j] \in OwnRecords
               PROVE  t[i].id < t[j].id
    BY DEF AscendsIn
  <2>1. i + 1 \in 1 .. n /\ j + 1 \in 1 .. n /\ i + 1 < j + 1
    BY <1>3
  <2> QED BY <1>3, <2>1 DEF AscendsIn
<1>5. ASSUME NEW r \in ToSet(t) PROVE \E i \in 1 .. n : i > 1 /\ queue[i] = r
  <2>1. PICK i \in 1 .. Len(t) : t[i] = r
    BY <1>1, InToSet
  <2>2. i + 1 \in 1 .. n /\ i + 1 > 1 /\ queue[i + 1] = r
    BY <1>3, <2>1
  <2> QED BY <2>2
<1>6. ToSet(t) \subseteq ToSet(queue)
  BY <1>2, <1>5, InToSet
<1>7. 1 \in 1 .. n
  BY <1>1
<1>8. queue[1] \in ToSet(queue)
  BY <1>2, <1>7, InToSet
<1>9. ASSUME queue[1] \in OwnRecords, NEW o \in ToSet(t) \cap OwnRecords PROVE queue[1].id < o.id
  <2>1. PICK i \in 1 .. n : i > 1 /\ queue[i] = o
    BY <1>5
  <2> QED BY <1>7, <1>9, <2>1 DEF AscendsIn
<1> QED BY <1>1, <1>4, <1>6, <1>8, <1>9 DEF t

LEMMA WriteSorts ==
    ASSUME LineTypes, RingKeeps, LinesSorted, WriteRecord, Sound'
    PROVE  KnownOwn' /\ RingSorted' /\ QueueSorted' /\ ScrollSorted'
<1> DEFINE x == queue[1]
           w == writer.seg
<1>1. /\ queue # <<>> /\ queue' = Tail(queue)
      /\ UNCHANGED <<last, scroll, writer, skipped, setBack>>
  BY DEF WriteRecord
<1>2. KnownOwn /\ RingSorted /\ QueueSorted /\ ScrollSorted /\ writer.file = w
  BY <1>1 DEF Sound, LinesSorted, RingKeeps, RingShape
<1>3. w \in SegIds /\ \A s \in SegIds : segs[s] \in Seq(Records)
  BY RingTypesAre
<1>4. segs'[w] = Append(segs[w], x) /\ \A t \in SegIds : t # w => segs'[t] = segs[t]
  BY <1>2, WriteTypes
<1>5. /\ AscendsIn(queue', OwnRecords) /\ ToSet(queue') \subseteq ToSet(queue)
      /\ x \in ToSet(queue) /\ x \in Records
      /\ x \in OwnRecords => \A o \in ToSet(queue') \cap OwnRecords : x.id < o.id
  BY <1>1, <1>2, QueueTail DEF QueueSorted
<1> HIDE DEF x, w
<1>6. QueuedOwn' \subseteq QueuedOwn /\ (x \in OwnRecords => x \in QueuedOwn /\ \A o \in QueuedOwn' : x.id < o.id)
  BY <1>5 DEF QueuedOwn
<1>7. ToSet(segs'[w]) = ToSet(segs[w]) \cup {x}
  BY <1>3, <1>4, <1>5, AppendAscends
<1>8. OwnIn(w) \subseteq InRing /\ \A r \in InRing, o \in QueuedOwn : r.id < o.id
  BY <1>2, <1>3 DEF QueueSorted, InRing
<1>9. AscendsIn(segs'[w], OwnRecords)
  <2>1. x \in OwnRecords => \A r \in ToSet(segs[w]) \cap OwnRecords : r.id < x.id
    BY <1>6, <1>8 DEF OwnIn
  <2>2. AscendsIn(segs[w], OwnRecords)
    BY <1>2, <1>3 DEF RingSorted
  <2> QED BY <1>3, <1>4, <1>5, <2>1, <2>2, AppendAscends
<1>10. ASSUME NEW s \in SegIds
       PROVE  OwnIn(s)' = IF s = w THEN OwnIn(s) \cup ({x} \cap OwnRecords) ELSE OwnIn(s)
  <2>1. CASE s = w
    BY <1>7, <2>1 DEF OwnIn
  <2>2. CASE s # w
    BY <1>4, <2>2 DEF OwnIn
  <2> QED BY <2>1, <2>2
<1>11. InRing' \subseteq InRing \cup ({x} \cap OwnRecords)
  BY <1>10 DEF InRing
<1>12. OrderedBy(w)'
  <2> SUFFICES ASSUME NEW s \in SegIds, NEW t \in SegIds, Rank(w, s) < Rank(w, t),
                      NEW r \in OwnIn(s)', NEW o \in OwnIn(t)'
               PROVE  r.id < o.id
    BY <1>1 DEF OrderedBy, SegBelow, Rank, w
  <2>1. s # w
    <3>1. Rank(w, s) \in 1 .. Segments /\ Rank(w, t) \in 1 .. Segments
      BY <1>3, RankIs
    <3>2. Segments \in Nat
      BY LineCaps
    <3>3. Rank(w, s) # Segments
      BY <3>1, <3>2
    <3> QED BY <1>3, <3>3, RankIs
  <2>2. r \in OwnIn(s) /\ OwnIn(s) \subseteq InRing
    BY <1>10, <2>1 DEF InRing
  <2>3. CASE o \in OwnIn(t)
    <3>1. SegBelow(s, t)
      BY <1>2 DEF RingSorted, OrderedBy, w
    <3> QED BY <2>2, <2>3, <3>1 DEF SegBelow
  <2>4. CASE o \notin OwnIn(t)
    <3>1. o = x /\ x \in OwnRecords
      BY <1>10, <2>4
    <3> QED BY <1>6, <1>8, <2>2, <3>1
  <2> QED BY <2>3, <2>4
<1>13. RingSorted'
  <2>1. \A s \in SegIds : AscendsIn(segs'[s], OwnRecords)
    <3> SUFFICES ASSUME NEW s \in SegIds PROVE AscendsIn(segs'[s], OwnRecords)
      OBVIOUS
    <3>1. CASE s = w
      BY <1>9, <3>1
    <3>2. CASE s # w
      <4>1. AscendsIn(segs[s], OwnRecords)
        BY <1>2 DEF RingSorted
      <4> QED BY <1>4, <3>2, <4>1
    <3> QED BY <3>1, <3>2
  <2> QED BY <1>12, <2>1 DEF RingSorted, w
<1>14. (InRing \cup QueuedOwn \cup ToSet(scroll))' \subseteq InRing \cup QueuedOwn \cup ToSet(scroll)
       /\ (InRing \cup QueuedOwn)' \subseteq InRing \cup QueuedOwn
  BY <1>1, <1>6, <1>11
<1>15. KnownOwn'
  BY <1>1, <1>2, <1>14 DEF KnownOwn
<1>16. QueueSorted'
  <2>1. ASSUME NEW r \in InRing', NEW o \in QueuedOwn' PROVE r.id < o.id
    BY <1>6, <1>8, <1>11
  <2> QED BY <1>5, <2>1 DEF QueueSorted
<1>17. ScrollSorted'
  BY <1>1, <1>2, <1>14, CoversLess DEF ScrollSorted
<1> QED BY <1>13, <1>15, <1>16, <1>17

\* What shrinks stays in order.
LEMMA LessSorted ==
    ASSUME KnownOwn, QueueSorted, ScrollSorted, last' = last,
           \A s \in SegIds : OwnIn(s)' \subseteq OwnIn(s),
           \/ queue' = queue
           \/ queue' = <<>>,
           \/ scroll' = scroll
           \/ scroll' = <<>>
    PROVE  KnownOwn' /\ QueueSorted' /\ ScrollSorted'
<1>1. InRing' \subseteq InRing
  BY DEF InRing
<1>2. ToSet(<<>>) = {} /\ Len(<<>>) = 0
  BY DEF ToSet
<1>3. QueuedOwn' \subseteq QueuedOwn /\ AscendsIn(queue', OwnRecords)
  BY <1>2 DEF QueuedOwn, QueueSorted, AscendsIn
<1>4. ToSet(scroll') \subseteq ToSet(scroll) /\ Ascends(scroll') /\ Covers(scroll', InRing \cup QueuedOwn)
  BY <1>2 DEF ScrollSorted, Ascends, Covers
<1>5. KnownOwn'
  BY <1>1, <1>3, <1>4 DEF KnownOwn
<1>6. QueueSorted'
  BY <1>1, <1>3 DEF QueueSorted
<1>7. ScrollSorted'
  <2>1. (InRing \cup QueuedOwn)' \subseteq InRing \cup QueuedOwn
    BY <1>1, <1>3
  <2> QED BY <1>4, <2>1, CoversLess DEF ScrollSorted
<1> QED BY <1>5, <1>6, <1>7

LEMMA LessOrdered ==
    ASSUME NEW w, OrderedBy(w), \A s \in SegIds : OwnIn(s)' \subseteq OwnIn(s)
    PROVE  \A s, t \in SegIds : Rank(w, s) < Rank(w, t) => SegBelow(s, t)'
  BY DEF OrderedBy, SegBelow

LEMMA NothingAscends == AscendsIn(<<>>, OwnRecords) /\ ToSet(<<>>) = {}
  BY DEF AscendsIn, ToSet

LEMMA TruncateSorts ==
    ASSUME LineTypes, RingKeeps, LinesSorted, Truncate, Sound'
    PROVE  KnownOwn' /\ RingSorted' /\ QueueSorted' /\ ScrollSorted'
<1> DEFINE w == writer.seg
           v == Turn(writer.seg)
<1>1. UNCHANGED <<last, scroll, queue, skipped, setBack>> /\ writer'.seg = v
  BY DEF Truncate
<1>2. KnownOwn /\ RingSorted /\ QueueSorted /\ ScrollSorted
  BY <1>1 DEF Sound, LinesSorted
<1>3. w \in SegIds
  BY RingTypesAre
<1>4. segs'[v] = <<>> /\ \A t \in SegIds : t # v => segs'[t] = segs[t]
  BY TruncateTypes
<1>5. \A s \in SegIds : Rank(v, s) = IF s = v THEN Segments ELSE Rank(w, s) - 1
  BY <1>3, TurnIs
<1>6. v \in SegIds /\ \A s \in SegIds : Rank(w, s) \in 1 .. Segments
  BY <1>3, TurnIs, RankIs
<1> HIDE DEF w, v
<1>7. ASSUME NEW s \in SegIds
      PROVE  /\ OwnIn(s)' \subseteq OwnIn(s) /\ (s = v => OwnIn(s)' = {})
             /\ AscendsIn(segs'[s], OwnRecords)
  <2>1. CASE s = v
    BY <1>4, <2>1, NothingAscends DEF OwnIn
  <2>2. CASE s # v
    BY <1>2, <1>4, <2>2 DEF OwnIn, RingSorted
  <2> QED BY <2>1, <2>2
<1>8. KnownOwn' /\ QueueSorted' /\ ScrollSorted'
  BY <1>1, <1>2, <1>7, LessSorted
<1>9. \A s, t \in SegIds : Rank(w, s) < Rank(w, t) => SegBelow(s, t)'
  BY <1>2, <1>7, LessOrdered DEF RingSorted, w
<1>10. ASSUME NEW s \in SegIds, NEW t \in SegIds, Rank(v, s) < Rank(v, t) PROVE SegBelow(s, t)'
  <2>1. CASE s = v \/ t = v
    BY <1>7, <2>1 DEF SegBelow
  <2>2. CASE s # v /\ t # v
    <3>1. Rank(w, s) < Rank(w, t)
      BY <1>5, <1>6, <1>10, <2>2
    <3> QED BY <1>9, <3>1
  <2> QED BY <2>1, <2>2
<1>11. RingSorted'
  BY <1>1, <1>7, <1>10 DEF RingSorted, OrderedBy, Rank
<1> QED BY <1>8, <1>11

\* Between the two steps of a turn the segment the writer stands at is empty.
LEMMA MetaSorted ==
    ASSUME LineTypes, RingShape, OrderedBy(writer.seg)
    PROVE  OrderedBy(meta)
<1>1. meta \in SegIds /\ writer.seg \in SegIds /\ writer.at \in {"ready", "turned"}
  BY RingTypesAre
<1>2. CASE writer.at = "ready"
  BY <1>2 DEF RingShape
<1>3. CASE writer.at = "turned"
  <2> DEFINE v == writer.seg
  <2>1. v = Turn(meta) /\ OwnIn(v) = {}
    BY <1>3, NothingAscends DEF RingShape, OwnIn
  <2>2. \A s \in SegIds : Rank(v, s) = IF s = v THEN Segments ELSE Rank(meta, s) - 1
    BY <1>1, <2>1, TurnIs
  <2>3. \A s \in SegIds : Rank(meta, s) \in 1 .. Segments
    BY <1>1, RankIs
  <2> HIDE DEF v
  <2> SUFFICES ASSUME NEW s \in SegIds, NEW t \in SegIds, Rank(meta, s) < Rank(meta, t)
               PROVE  SegBelow(s, t)
    BY DEF OrderedBy
  <2>4. CASE s = v \/ t = v
    BY <2>1, <2>4 DEF SegBelow
  <2>5. CASE s # v /\ t # v
    <3>1. Rank(v, s) < Rank(v, t)
      BY <2>2, <2>3, <2>5
    <3> QED BY <3>1 DEF OrderedBy, v
  <2> QED BY <2>4, <2>5
<1> QED BY <1>1, <1>2, <1>3

\* A torn line is nobody's.
LEMMA TornAscends ==
    ASSUME NEW q \in Seq(Records), q # <<>>, AscendsIn(q, OwnRecords)
    PROVE  LET t == Append(Front(q), Torn) IN
           AscendsIn(t, OwnRecords) /\ ToSet(t) \cap OwnRecords \subseteq ToSet(q) \cap OwnRecords
<1> DEFINE f == Front(q)
<1>1. f \in Seq(Records) /\ Torn \in Records /\ Torn \notin OwnRecords
  <2>1. f \in Seq(Records)
    BY FrontProperties
  <2> QED BY <2>1 DEF Torn, Records, OwnRecords
<1>2. Len(f) = Len(q) - 1 /\ \A i \in 1 .. Len(f) : f[i] = q[i]
  BY FrontProperties
<1>3. Len(q) \in Nat
  BY LenProperties
<1> HIDE DEF f
<1>4. \A i \in 1 .. Len(f) : i \in 1 .. Len(q) /\ f[i] = q[i]
  BY <1>2, <1>3
<1>5. AscendsIn(f, OwnRecords)
  BY <1>4 DEF AscendsIn
<1>6. ToSet(f) \subseteq ToSet(q)
  <2> SUFFICES ASSUME NEW r \in ToSet(f) PROVE r \in ToSet(q)
    OBVIOUS
  <2>1. PICK i \in 1 .. Len(f) : f[i] = r
    BY <1>1, InToSet
  <2> QED BY <1>4, <2>1, InToSet
<1>7. ToSet(Append(f, Torn)) = ToSet(f) \cup {Torn} /\ AscendsIn(Append(f, Torn), OwnRecords)
  BY <1>1, <1>5, AppendAscends
<1> QED BY <1>1, <1>6, <1>7 DEF f

LEMMA CrashSorts ==
    ASSUME LineTypes, RingKeeps, LinesSorted, CrashLines, Sound'
    PROVE  KnownOwn' /\ RingSorted' /\ QueueSorted' /\ ScrollSorted'
<1>1. /\ UNCHANGED <<last, skipped, setBack>> /\ writer'.seg = meta
      /\ queue' = <<>> /\ scroll' = <<>>
  BY DEF CrashLines
<1>2. KnownOwn /\ RingSorted /\ QueueSorted /\ ScrollSorted /\ RingShape
  BY <1>1 DEF Sound, LinesSorted, RingKeeps
<1>3. ASSUME NEW s \in SegIds
      PROVE  OwnIn(s)' \subseteq OwnIn(s) /\ AscendsIn(segs'[s], OwnRecords)
  <2>1. segs[s] \in Seq(Records) /\ AscendsIn(segs[s], OwnRecords)
    BY <1>2, RingTypesAre DEF RingSorted
  <2>2. CASE segs'[s] = segs[s]
    BY <2>1, <2>2 DEF OwnIn
  <2>3. CASE segs'[s] # segs[s]
    <3>1. segs[s] # <<>> /\ segs'[s] = Append(Front(segs[s]), Torn)
      BY <2>3, RingTypesAre DEF CrashLines, SegTypes
    <3> QED BY <2>1, <3>1, TornAscends DEF OwnIn
  <2> QED BY <2>2, <2>3
<1>4. KnownOwn' /\ QueueSorted' /\ ScrollSorted'
  BY <1>1, <1>2, <1>3, LessSorted
<1>5. OrderedBy(meta)
  BY <1>2, MetaSorted DEF RingSorted
<1>6. \A s, t \in SegIds : Rank(meta, s) < Rank(meta, t) => SegBelow(s, t)'
  BY <1>3, <1>5, LessOrdered
<1>7. RingSorted'
  BY <1>1, <1>3, <1>6 DEF RingSorted, OrderedBy, Rank
<1> QED BY <1>4, <1>7

LEMMA SortedStep ==
    ASSUME LineTypes, RingKeeps, LinesSorted, [LineNext]_lineVars
    PROVE  LinesSorted'
<1> SUFFICES ASSUME Sound' PROVE KnownOwn' /\ RingSorted' /\ QueueSorted' /\ ScrollSorted'
  BY DEF LinesSorted
<1>1. CASE \E own \in BOOLEAN : Output(own)
  BY <1>1, OutputSorts
<1>2. CASE WriteRecord
  BY <1>2, WriteSorts
<1>3. CASE Truncate
  BY <1>3, TruncateSorts
<1>4. CASE RotateFails
  BY <1>4 DEF RotateFails, Sound
<1>5. CASE CrashLines
  BY <1>5, CrashSorts
<1>6. ASSUME UNCHANGED <<last, queue, segs, skipped, setBack>>, writer'.seg = writer.seg,
             \/ scroll' = scroll
             \/ scroll' = <<>>
      PROVE  KnownOwn' /\ RingSorted' /\ QueueSorted' /\ ScrollSorted'
  <2>1. KnownOwn /\ RingSorted /\ QueueSorted /\ ScrollSorted
    BY <1>6 DEF Sound, LinesSorted
  <2>2. \A s \in SegIds : OwnIn(s)' \subseteq OwnIn(s)
    BY <1>6 DEF OwnIn
  <2>3. KnownOwn' /\ QueueSorted' /\ ScrollSorted'
    BY <1>6, <2>1, <2>2, LessSorted
  <2>4. RingSorted'
    BY <1>6, <2>1 DEF RingSorted, OrderedBy, Rank, SegBelow, OwnIn
  <2> QED BY <2>3, <2>4
<1>7. CASE WriteMeta
  <2>1. writer'.seg = writer.seg
    BY <1>7 DEF WriteMeta, LineTypes, RingTypes
  <2> QED BY <1>6, <1>7, <2>1 DEF WriteMeta
<1>8. CASE Clock \/ Rejoin \/ UNCHANGED lineVars
  BY <1>6, <1>8 DEF Clock, Rejoin, lineVars
<1>9. CASE \/ \E n \in 1 .. MaxLines : ReportLast(n)
           \/ ReadOlder
           \/ TellLast
           \/ \E n \in KeptIds \cup {r.id : r \in ToSet(scroll)} : ReportSubmit(n)
           \/ ReadNewer
           \/ TellSubmit
           \/ Served
  <2>1. ReportKeeps
    BY <1>9, ReportTypes
  <2> QED BY <1>6, <2>1 DEF ReportKeeps
<1> QED
  BY <1>1, <1>2, <1>3, <1>4, <1>5, <1>7, <1>8, <1>9 DEF LineNext

-----------------------------------------------------------------------------
(* What a report knows while it reads the ring: it reads the segments one   *)
(* after the other, from the newest to the oldest or the other way.         *)

OnceEach(todo)    == \A i, j \in 1 .. Len(todo) : i < j => todo[i] # todo[j]
NewestOnTop(todo) == \A i, j \in 1 .. Len(todo) : i < j => SegBelow(todo[j], todo[i])
OldestOnTop(todo) == \A i, j \in 1 .. Len(todo) : i < j => SegBelow(todo[i], todo[j])
Done(todo)        == SegIds \ ToSet(todo)
DoneOwn(todo)     == UNION {OwnIn(s) : s \in Done(todo)}

LastReads(todo, out, n) ==
    /\ OnceEach(todo) /\ NewestOnTop(todo)
    /\ \A s \in ToSet(todo), t \in Done(todo) : SegBelow(s, t)
    /\ Ascends(out) /\ Len(out) <= n /\ ToSet(out) \subseteq DoneOwn(todo)
    /\ \A r \in DoneOwn(todo) \ ToSet(out) :
          Len(out) = n /\ \A o \in ToSet(out) : r.id < o.id
SearchReads(todo, out) ==
    /\ OnceEach(todo) /\ OldestOnTop(todo)
    /\ \A s \in ToSet(todo), t \in Done(todo) : SegBelow(t, s)
    /\ Ascends(out) /\ ToSet(out) = DoneOwn(todo)

HotCovers(hot) == Ascends(hot) /\ ToSet(hot) \subseteq OwnRecords /\ Covers(hot, InRing)
NewestOf(hot, out, n) ==
    /\ Ascends(out) /\ ToSet(out) \subseteq InRing \cup ToSet(hot)
    /\ \A r \in (InRing \cup ToSet(hot)) \ ToSet(out) :
          Len(out) >= n /\ \A o \in ToSet(out) : r.id < o.id

ReaderHolds ==
    Undisturbed =>
      /\ reader.at # "idle" => HotCovers(reader.hot)
      /\ reader.at = "last" => LastReads(reader.todo, reader.out, reader.n)
      /\ reader.at = "search" => /\ SearchReads(reader.todo, reader.out)
                                 /\ \A r \in ToSet(reader.hot) : r.id # reader.n
      /\ reader.at = "told" => NewestOf(reader.hot, reader.out, reader.n)

\* The segment that is read next.
LEMMA NextSegment ==
    ASSUME NEW todo \in Seq(SegIds), todo # <<>>, OnceEach(todo)
    PROVE  LET h == Head(todo)
               t == Tail(todo) IN
           /\ h \in ToSet(todo) /\ h \in SegIds /\ ToSet(t) = ToSet(todo) \ {h} /\ OnceEach(t)
           /\ DoneOwn(t) = DoneOwn(todo) \cup OwnIn(h) /\ Done(t) = Done(todo) \cup {h}
           /\ NewestOnTop(todo) => NewestOnTop(t) /\ \A s \in ToSet(t) : SegBelow(s, h)
           /\ OldestOnTop(todo) => OldestOnTop(t) /\ \A s \in ToSet(t) : SegBelow(h, s)
<1> DEFINE h == Head(todo)
           t == Tail(todo)
           n == Len(todo)
<1>1. /\ n \in Nat \ {0} /\ h = todo[1] /\ h \in SegIds
      /\ t \in Seq(SegIds) /\ Len(t) = n - 1 /\ \A i \in 1 .. Len(t) : t[i] = todo[i + 1]
  <2>1. n \in Nat \ {0}
    BY EmptySeq, LenProperties
  <2> QED BY <2>1, HeadTailProperties
<1> HIDE DEF h, t
<1>2. \A i \in 1 .. Len(t) : i + 1 \in 1 .. n /\ i + 1 > 1 /\ t[i] = todo[i + 1]
  BY <1>1
<1>3. 1 \in 1 .. n
  BY <1>1
<1>4. h \in ToSet(todo)
  BY <1>1, <1>3, InToSet
<1>5. ASSUME NEW s \in ToSet(t) PROVE \E i \in 1 .. n : i > 1 /\ todo[i] = s
  <2>1. PICK i \in 1 .. Len(t) : t[i] = s
    BY <1>1, InToSet
  <2> QED BY <1>2, <2>1
<1>6. ToSet(t) = ToSet(todo) \ {h}
  <2>1. ASSUME NEW s \in ToSet(t) PROVE s \in ToSet(todo) /\ s # h
    <3>1. PICK i \in 1 .. n : i > 1 /\ todo[i] = s
      BY <1>5
    <3>2. s # h
      BY <1>1, <1>3, <3>1 DEF OnceEach
    <3> QED BY <3>1, <3>2, InToSet
  <2>2. ASSUME NEW s \in ToSet(todo), s # h PROVE s \in ToSet(t)
    <3>1. PICK i \in 1 .. n : todo[i] = s
      BY InToSet
    <3>2. i # 1
      BY <1>1, <2>2, <3>1
    <3> DEFINE j == i - 1
    <3>3. j \in 1 .. Len(t) /\ j + 1 = i
      BY <1>1, <3>1, <3>2
    <3>4. t[j] = todo[j + 1]
      BY <1>1, <3>3
    <3> QED BY <1>1, <3>1, <3>3, <3>4, InToSet
  <2> QED BY <2>1, <2>2
<1>7. OnceEach(t)
  <2> SUFFICES ASSUME NEW i \in 1 .. Len(t), NEW j \in 1 .. Len(t), i < j PROVE t[i] # t[j]
    BY DEF OnceEach
  <2>1. i + 1 \in 1 .. n /\ j + 1 \in 1 .. n /\ i + 1 < j + 1
    BY <1>2
  <2> QED BY <1>2, <2>1 DEF OnceEach
<1>8. Done(t) = Done(todo) \cup {h}
  BY <1>1, <1>6 DEF Done
<1>9. DoneOwn(t) = DoneOwn(todo) \cup OwnIn(h)
  BY <1>8 DEF DoneOwn
<1>10. ASSUME NewestOnTop(todo) PROVE NewestOnTop(t) /\ \A s \in ToSet(t) : SegBelow(s, h)
  <2>1. ASSUME NEW i \in 1 .. Len(t), NEW j \in 1 .. Len(t), i < j PROVE SegBelow(t[j], t[i])
    <3>1. i + 1 \in 1 .. n /\ j + 1 \in 1 .. n /\ i + 1 < j + 1
      BY <1>2, <2>1
    <3>2. SegBelow(todo[j + 1], todo[i + 1])
      BY <1>10, <3>1 DEF NewestOnTop
    <3> QED BY <1>2, <3>2
  <2>2. ASSUME NEW s \in ToSet(t) PROVE SegBelow(s, h)
    <3>1. PICK i \in 1 .. n : i > 1 /\ todo[i] = s
      BY <1>5
    <3>2. SegBelow(todo[i], todo[1])
      BY <1>3, <1>10, <3>1 DEF NewestOnTop
    <3> QED BY <1>1, <3>1, <3>2
  <2> QED BY <2>1, <2>2 DEF NewestOnTop
<1>11. ASSUME OldestOnTop(todo) PROVE OldestOnTop(t) /\ \A s \in ToSet(t) : SegBelow(h, s)
  <2>1. ASSUME NEW i \in 1 .. Len(t), NEW j \in 1 .. Len(t), i < j PROVE SegBelow(t[i], t[j])
    <3>1. i + 1 \in 1 .. n /\ j + 1 \in 1 .. n /\ i + 1 < j + 1
      BY <1>2, <2>1
    <3>2. SegBelow(todo[i + 1], todo[j + 1])
      BY <1>11, <3>1 DEF OldestOnTop
    <3> QED BY <1>2, <3>2
  <2>2. ASSUME NEW s \in ToSet(t) PROVE SegBelow(h, s)
    <3>1. PICK i \in 1 .. n : i > 1 /\ todo[i] = s
      BY <1>5
    <3>2. SegBelow(todo[1], todo[i])
      BY <1>3, <1>11, <3>1 DEF OldestOnTop
    <3> QED BY <1>1, <3>1, <3>2
  <2> QED BY <2>1, <2>2 DEF OldestOnTop
<1> QED BY <1>1, <1>4, <1>6, <1>7, <1>8, <1>9, <1>10, <1>11 DEF h, t

\* Before anything is read: the ring from the segment after the one meta names.
LEMMA OrdersAre ==
    ASSUME LineTypes
    PROVE  /\ Len(NewestFirst) = Segments /\ Len(OldestFirst) = Segments
           /\ \A i \in 1 .. Segments : /\ OldestFirst[i] \in SegIds /\ Rank(meta, OldestFirst[i]) = i
                                       /\ NewestFirst[i] \in SegIds /\ Rank(meta, NewestFirst[i]) = Segments + 1 - i
           /\ ToSet(NewestFirst) = SegIds /\ ToSet(OldestFirst) = SegIds
<1>1. Segments \in Nat \ {0} /\ meta \in SegIds /\ meta \in Nat
  BY LineCaps, RingTypesAre DEF SegIds
<1>2. ASSUME NEW i \in 1 .. Segments
      PROVE  OldestFirst[i] = ((meta + i) % Segments)
             /\ NewestFirst[i] = ((meta + (Segments + 1 - i)) % Segments)
  <2>1. meta + Segments - (i - 1) = meta + (Segments + 1 - i)
    BY <1>1
  <2>2. NewestFirst[i] = ((meta + Segments - (i - 1)) % Segments)
    BY DEF NewestFirst
  <2> QED BY <2>1, <2>2 DEF OldestFirst
<1>3. ASSUME NEW i \in 1 .. Segments
      PROVE  /\ OldestFirst[i] \in SegIds /\ Rank(meta, OldestFirst[i]) = i
             /\ NewestFirst[i] \in SegIds /\ Rank(meta, NewestFirst[i]) = Segments + 1 - i
  <2> DEFINE k == Segments + 1 - i
  <2>1. k \in 1 .. Segments
    BY <1>1
  <2> HIDE DEF k
  <2>2. OldestFirst[i] = ((meta + i) % Segments) /\ NewestFirst[i] = ((meta + k) % Segments)
    BY <1>2 DEF k
  <2>3. /\ ((meta + k) % Segments) \in SegIds /\ Rank(meta, (meta + k) % Segments) = k
        /\ ((meta + i) % Segments) \in SegIds /\ Rank(meta, (meta + i) % Segments) = i
    BY <1>1, <2>1, RankIs
  <2> QED BY <2>2, <2>3 DEF k
<1>4. Len(NewestFirst) = Segments /\ Len(OldestFirst) = Segments
      /\ NewestFirst \in Seq(SegIds) /\ OldestFirst \in Seq(SegIds)
  BY <1>1, OrdersAreSegs DEF NewestFirst, OldestFirst
<1>5. ASSUME NEW s \in SegIds
      PROVE  (\E i \in 1 .. Segments : OldestFirst[i] = s) /\ (\E i \in 1 .. Segments : NewestFirst[i] = s)
  <2> DEFINE k == Rank(meta, s)
             j == Segments + 1 - k
  <2>1. k \in 1 .. Segments /\ ((meta + k) % Segments) = s
    BY <1>1, RankIs
  <2> HIDE DEF k
  <2>2. j \in 1 .. Segments /\ Segments + 1 - j = k
    BY <1>1, <2>1
  <2> HIDE DEF j
  <2>3. OldestFirst[k] = s
    BY <1>2, <2>1
  <2>4. NewestFirst[j] = s
    <3>1. NewestFirst[j] = ((meta + (Segments + 1 - j)) % Segments)
      BY <1>2, <2>2
    <3> QED BY <2>1, <2>2, <3>1
  <2> QED BY <2>1, <2>2, <2>3, <2>4
<1>6. ToSet(NewestFirst) = SegIds /\ ToSet(OldestFirst) = SegIds
  <2>1. ToSet(NewestFirst) \subseteq SegIds /\ ToSet(OldestFirst) \subseteq SegIds
    BY <1>4, InToSet
  <2>2. ASSUME NEW s \in SegIds PROVE s \in ToSet(NewestFirst) /\ s \in ToSet(OldestFirst)
    <3>1. PICK i \in 1 .. Segments : OldestFirst[i] = s
      BY <1>5
    <3>2. PICK j \in 1 .. Segments : NewestFirst[j] = s
      BY <1>5
    <3> QED BY <1>4, <3>1, <3>2, InToSet
  <2> QED BY <2>1, <2>2
<1> QED BY <1>3, <1>4, <1>6

LEMMA OrdersStart ==
    ASSUME LineTypes, OrderedBy(meta), NEW n \in Nat
    PROVE  LastReads(NewestFirst, <<>>, n) /\ SearchReads(OldestFirst, <<>>)
<1>1. Segments \in Nat \ {0}
  BY LineCaps
<1>2. /\ Len(NewestFirst) = Segments /\ Len(OldestFirst) = Segments
      /\ \A i \in 1 .. Segments : /\ OldestFirst[i] \in SegIds /\ Rank(meta, OldestFirst[i]) = i
                                  /\ NewestFirst[i] \in SegIds /\ Rank(meta, NewestFirst[i]) = Segments + 1 - i
      /\ ToSet(NewestFirst) = SegIds /\ ToSet(OldestFirst) = SegIds
  BY OrdersAre
<1>3. ASSUME NEW i \in 1 .. Segments, NEW j \in 1 .. Segments, i < j
      PROVE  /\ OldestFirst[i] # OldestFirst[j] /\ SegBelow(OldestFirst[i], OldestFirst[j])
             /\ NewestFirst[i] # NewestFirst[j] /\ SegBelow(NewestFirst[j], NewestFirst[i])
  <2>1. Rank(meta, OldestFirst[i]) < Rank(meta, OldestFirst[j])
        /\ Rank(meta, NewestFirst[j]) < Rank(meta, NewestFirst[i])
    BY <1>1, <1>2, <1>3
  <2>2. OldestFirst[i] # OldestFirst[j] /\ NewestFirst[i] # NewestFirst[j]
    BY <1>1, <1>2, <1>3
  <2> QED BY <1>2, <2>1, <2>2 DEF OrderedBy
<1>4. OnceEach(NewestFirst) /\ OnceEach(OldestFirst) /\ NewestOnTop(NewestFirst) /\ OldestOnTop(OldestFirst)
  BY <1>2, <1>3 DEF OnceEach, NewestOnTop, OldestOnTop
<1>5. Done(NewestFirst) = {} /\ Done(OldestFirst) = {} /\ DoneOwn(NewestFirst) = {} /\ DoneOwn(OldestFirst) = {}
  BY <1>2 DEF Done, DoneOwn
<1>6. Ascends(<<>>) /\ ToSet(<<>>) = {} /\ Len(<<>>) = 0
  BY DEF Ascends, ToSet
<1>7. LastReads(NewestFirst, <<>>, n)
  BY <1>4, <1>5, <1>6 DEF LastReads
<1>8. SearchReads(OldestFirst, <<>>)
  BY <1>4, <1>5, <1>6 DEF SearchReads
<1> QED BY <1>7, <1>8

\* The newest lines, when older ones come before them.
LEMMA NewestLines ==
    ASSUME NEW p \in Seq(Records), NEW q \in Seq(Records), Ascends(p), Ascends(q), NEW n \in Nat,
           \A r \in ToSet(p), o \in ToSet(q) : r.id < o.id
    PROVE  LET l == Latest(p \o q, n) IN
           /\ l \in Seq(Records) /\ Ascends(l) /\ Len(l) <= n /\ ToSet(l) \subseteq ToSet(p) \cup ToSet(q)
           /\ \A r \in (ToSet(p) \cup ToSet(q)) \ ToSet(l) :
                 Len(l) = n /\ \A o \in ToSet(l) : r.id < o.id
<1> DEFINE c == p \o q
<1>1. c \in Seq(Records) /\ Ascends(c) /\ ToSet(c) = ToSet(p) \cup ToSet(q)
  BY ConcatAscends
<1> HIDE DEF c
<1>2. /\ Latest(c, n) \in Seq(Records) /\ Ascends(Latest(c, n)) /\ ToSet(Latest(c, n)) \subseteq ToSet(c)
      /\ \A r \in ToSet(c) \ ToSet(Latest(c, n)) :
            Len(Latest(c, n)) = n /\ \A o \in ToSet(Latest(c, n)) : r.id < o.id
  BY <1>1, LatestAscends, LatestIs
<1>3. Len(Latest(c, n)) <= n
  BY <1>1, LatestShort
<1> QED BY <1>1, <1>2, <1>3 DEF c

LEMMA OlderRead ==
    ASSUME LineTypes, \A s \in SegIds : AscendsIn(segs[s], OwnRecords),
           NEW todo \in Seq(SegIds), todo # <<>>, NEW out \in Seq(Records), NEW n \in Nat,
           Len(out) < n, LastReads(todo, out, n)
    PROVE  LastReads(Tail(todo), Latest(OwnLines(segs[Head(todo)]) \o out, n), n)
<1> DEFINE h == Head(todo)
           t == Tail(todo)
           p == OwnLines(segs[h])
           l == Latest(p \o out, n)
<1>1. /\ OnceEach(todo) /\ NewestOnTop(todo) /\ Ascends(out) /\ ToSet(out) \subseteq DoneOwn(todo)
      /\ \A s \in ToSet(todo), u \in Done(todo) : SegBelow(s, u)
      /\ \A r \in DoneOwn(todo) : r \in ToSet(out)
  BY DEF LastReads
<1>2. /\ h \in ToSet(todo) /\ h \in SegIds /\ ToSet(t) = ToSet(todo) \ {h} /\ OnceEach(t)
      /\ DoneOwn(t) = DoneOwn(todo) \cup OwnIn(h) /\ Done(t) = Done(todo) \cup {h}
      /\ NewestOnTop(t) /\ \A s \in ToSet(t) : SegBelow(s, h)
  BY <1>1, NextSegment
<1>3. segs[h] \in Seq(Records)
  BY <1>2, RingTypesAre
<1>4. p \in Seq(Records) /\ Ascends(p) /\ ToSet(p) = OwnIn(h)
  BY <1>2, <1>3, OwnAre DEF OwnIn
<1> HIDE DEF h, t, p
<1>5. ASSUME NEW r \in ToSet(p), NEW o \in ToSet(out) PROVE r.id < o.id
  <2>1. PICK u \in Done(todo) : o \in OwnIn(u)
    BY <1>1 DEF DoneOwn
  <2> QED BY <1>1, <1>2, <1>4, <2>1 DEF SegBelow
<1>6. /\ l \in Seq(Records) /\ Ascends(l) /\ Len(l) <= n /\ ToSet(l) \subseteq ToSet(p) \cup ToSet(out)
      /\ \A r \in (ToSet(p) \cup ToSet(out)) \ ToSet(l) :
            Len(l) = n /\ \A o \in ToSet(l) : r.id < o.id
  BY <1>1, <1>4, <1>5, NewestLines
<1> HIDE DEF l
<1>7. DoneOwn(t) = ToSet(p) \cup ToSet(out)
  BY <1>1, <1>2, <1>4
<1>8. \A s \in ToSet(t), u \in Done(t) : SegBelow(s, u)
  BY <1>1, <1>2
<1>9. LastReads(t, l, n)
  BY <1>2, <1>6, <1>7, <1>8 DEF LastReads
<1> QED BY <1>9 DEF h, t, p, l

LEMMA NewerRead ==
    ASSUME LineTypes, \A s \in SegIds : AscendsIn(segs[s], OwnRecords),
           NEW todo \in Seq(SegIds), todo # <<>>, NEW out \in Seq(Records), SearchReads(todo, out)
    PROVE  SearchReads(Tail(todo), out \o OwnLines(segs[Head(todo)]))
<1> DEFINE h == Head(todo)
           t == Tail(todo)
           p == OwnLines(segs[h])
<1>1. /\ OnceEach(todo) /\ OldestOnTop(todo) /\ Ascends(out) /\ ToSet(out) = DoneOwn(todo)
      /\ \A s \in ToSet(todo), u \in Done(todo) : SegBelow(u, s)
  BY DEF SearchReads
<1>2. /\ h \in ToSet(todo) /\ h \in SegIds /\ ToSet(t) = ToSet(todo) \ {h} /\ OnceEach(t)
      /\ DoneOwn(t) = DoneOwn(todo) \cup OwnIn(h) /\ Done(t) = Done(todo) \cup {h}
      /\ OldestOnTop(t) /\ \A s \in ToSet(t) : SegBelow(h, s)
  BY <1>1, NextSegment
<1>3. segs[h] \in Seq(Records)
  BY <1>2, RingTypesAre
<1>4. p \in Seq(Records) /\ Ascends(p) /\ ToSet(p) = OwnIn(h)
  BY <1>2, <1>3, OwnAre DEF OwnIn
<1> HIDE DEF h, t, p
<1>5. ASSUME NEW o \in ToSet(out), NEW r \in ToSet(p) PROVE o.id < r.id
  <2>1. PICK u \in Done(todo) : o \in OwnIn(u)
    BY <1>1 DEF DoneOwn
  <2> QED BY <1>1, <1>2, <1>4, <2>1 DEF SegBelow
<1>6. Ascends(out \o p) /\ ToSet(out \o p) = ToSet(out) \cup ToSet(p)
  BY <1>1, <1>4, <1>5, ConcatAscends
<1>7. \A s \in ToSet(t), u \in Done(t) : SegBelow(u, s)
  BY <1>1, <1>2
<1>8. SearchReads(t, out \o p)
  BY <1>1, <1>2, <1>4, <1>6, <1>7 DEF SearchReads
<1> QED BY <1>8 DEF h, t, p

\* What the scrollback lacks is older than its first line.
LEMMA OlderThanHot ==
    ASSUME NEW hot \in Seq(Records), HotCovers(hot), InRing \subseteq OwnRecords
    PROVE  \A r \in InRing \ ToSet(hot), o \in ToSet(hot) : r.id < o.id
<1> SUFFICES ASSUME NEW r \in InRing \ ToSet(hot), NEW o \in ToSet(hot) PROVE r.id < o.id
  OBVIOUS
<1>1. hot # <<>>
  BY DEF ToSet
<1>2. hot[1].id \in Nat /\ o.id \in Nat /\ hot[1].id <= o.id
  BY <1>1, FirstIsOldest DEF HotCovers
<1>3. r.id \in Nat
  BY OwnAreNat
<1>4. ~(r.id >= hot[1].id)
  BY <1>1 DEF HotCovers, Covers
<1> QED BY <1>2, <1>3, <1>4

\* The answer that the scrollback gives alone.
LEMMA ToldFromHot ==
    ASSUME NEW hot \in Seq(Records), HotCovers(hot), InRing \subseteq OwnRecords,
           NEW n \in Nat, n > 0, Len(hot) >= n
    PROVE  NewestOf(hot, Latest(hot, n), n)
<1> DEFINE l == Latest(hot, n)
<1>1. /\ l \in Seq(Records) /\ Ascends(l) /\ ToSet(l) \subseteq ToSet(hot)
      /\ \A r \in ToSet(hot) \ ToSet(l) : \A o \in ToSet(l) : r.id < o.id
  BY LatestAscends, LatestIs DEF HotCovers
<1>2. Len(l) >= n
  <2> DEFINE a == Len(hot)
             b == Len(l)
  <2>1. a \in Nat /\ a >= n /\ b = IF a > n THEN n ELSE a
    BY LatestIs, LenProperties
  <2> HIDE DEF a, b
  <2>2. b >= n
    BY <2>1
  <2> QED BY <2>2 DEF b
<1> HIDE DEF l
<1>3. ASSUME NEW r \in (InRing \cup ToSet(hot)) \ ToSet(l), NEW o \in ToSet(l) PROVE r.id < o.id
  <2>1. CASE r \in ToSet(hot)
    BY <1>1, <2>1
  <2>2. CASE r \notin ToSet(hot)
    BY <1>1, <2>2, OlderThanHot
  <2> QED BY <2>1, <2>2
<1>4. NewestOf(hot, l, n)
  BY <1>1, <1>2, <1>3 DEF NewestOf
<1> QED BY <1>4 DEF l

\* The lines left when some are taken out of an ascending sequence.
LEMMA WithoutCount ==
    ASSUME NEW out \in Seq(Records), NEW hot \in Seq(Records), Ascends(out), Ascends(hot)
    PROVE  Len(Without(out, hot)) >= Len(out) - Len(hot)
<1> DEFINE w == Without(out, hot)
           O == ToSet(out)
           H == ToSet(hot)
<1>1. w \in Seq(Records) /\ ToSet(w) = O \ H /\ Ascends(w)
  BY WithoutIs
<1>2. /\ IsFiniteSet(O) /\ Cardinality(O) = Len(out)
      /\ IsFiniteSet(H) /\ Cardinality(H) = Len(hot)
      /\ Cardinality(O \ H) = Len(w)
  BY <1>1, AscendsCount
<1>3. Len(out) \in Nat /\ Len(hot) \in Nat /\ Len(w) \in Nat
  BY <1>1, LenProperties
<1> HIDE DEF w, O, H
<1>4. Cardinality(O \ H) = Cardinality(O) - Cardinality(O \cap H)
  BY <1>2, FS_Difference
<1>5. Cardinality(O \cap H) <= Cardinality(H)
  BY <1>2, FS_Intersection
<1>6. Cardinality(O \cap H) \in Nat
  BY <1>2, FS_Intersection, FS_CardinalityType
<1>7. Len(w) >= Len(out) - Len(hot)
  BY <1>2, <1>3, <1>4, <1>5, <1>6
<1> QED BY <1>7 DEF w

\* The answer that the ring completes.
LEMMA ToldFromRing ==
    ASSUME NEW hot \in Seq(Records), HotCovers(hot), InRing \subseteq OwnRecords,
           NEW n \in Nat, Len(hot) < n, NEW todo \in Seq(SegIds), NEW out \in Seq(Records),
           LastReads(todo, out, n), todo = <<>> \/ Len(out) = n
    PROVE  NewestOf(hot, Latest(Without(out, hot), n - Len(hot)) \o hot, n)
<1> DEFINE w == Without(out, hot)
           m == n - Len(hot)
           l == Latest(w, m)
<1>1. Len(hot) \in Nat /\ Len(out) \in Nat /\ m \in Nat /\ m = n - Len(hot)
  <2>1. Len(hot) \in Nat /\ Len(out) \in Nat
    BY LenProperties
  <2> QED BY <2>1
<1>2. Ascends(out) /\ ToSet(out) \subseteq DoneOwn(todo) /\ Ascends(hot)
  BY DEF LastReads, HotCovers
<1>3. w \in Seq(Records) /\ ToSet(w) = ToSet(out) \ ToSet(hot) /\ Ascends(w)
  BY <1>2, WithoutIs
<1>4. Len(w) >= Len(out) - Len(hot) /\ Len(w) \in Nat
  BY <1>2, <1>3, WithoutCount, LenProperties
<1> HIDE DEF w, m
<1>5. /\ l \in Seq(Records) /\ Ascends(l) /\ ToSet(l) \subseteq ToSet(w)
      /\ \A r \in ToSet(w) \ ToSet(l) : Len(l) = m /\ \A o \in ToSet(l) : r.id < o.id
      /\ Len(l) = IF Len(w) > m THEN m ELSE Len(w)
  BY <1>1, <1>3, LatestAscends, LatestIs
<1> HIDE DEF l
<1>6. DoneOwn(todo) \subseteq InRing
  BY DEF DoneOwn, Done, InRing
<1>7. ASSUME NEW r \in ToSet(l), NEW o \in ToSet(hot) PROVE r.id < o.id
  BY <1>2, <1>3, <1>5, <1>6, OlderThanHot
<1>8. /\ Ascends(l \o hot) /\ ToSet(l \o hot) = ToSet(l) \cup ToSet(hot)
  BY <1>2, <1>5, <1>7, ConcatAscends
<1>9. Len(l \o hot) = Len(l) + Len(hot)
  BY <1>5, ConcatProperties
<1>10. ASSUME NEW r \in (InRing \cup ToSet(hot)) \ ToSet(l \o hot)
       PROVE  Len(l) = m /\ \A o \in ToSet(l \o hot) : r.id < o.id
  <2>1. r \in InRing \ ToSet(hot) /\ r \notin ToSet(l)
    BY <1>8
  <2>2. \A o \in ToSet(hot) : r.id < o.id
    BY <2>1, OlderThanHot
  <2>3. CASE r \in ToSet(out)
    <3>1. r \in ToSet(w) \ ToSet(l)
      BY <1>3, <2>1, <2>3
    <3> QED BY <1>5, <1>8, <2>2, <3>1
  <2>4. CASE r \notin ToSet(out)
    <3>1. Len(out) = n /\ \A o \in ToSet(out) : r.id < o.id
      <4>1. CASE r \in DoneOwn(todo)
        BY <2>4, <4>1 DEF LastReads
      <4>2. CASE r \notin DoneOwn(todo)
        <5>1. PICK s \in SegIds : r \in OwnIn(s)
          BY <2>1 DEF InRing
        <5>2. s \in ToSet(todo)
          BY <4>2, <5>1 DEF DoneOwn, Done
        <5>3. Len(out) = n
          BY <5>2 DEF ToSet
        <5>4. ASSUME NEW o \in ToSet(out) PROVE r.id < o.id
          <6>1. PICK u \in Done(todo) : o \in OwnIn(u)
            BY <1>2 DEF DoneOwn
          <6>2. SegBelow(s, u)
            BY <5>2, <6>1 DEF LastReads
          <6> QED BY <5>1, <6>1, <6>2 DEF SegBelow
        <5> QED BY <5>3, <5>4
      <4> QED BY <4>1, <4>2
    <3>2. Len(l) = m
      <4>1. Len(w) >= m
        BY <1>1, <1>4, <3>1
      <4> QED BY <1>1, <1>4, <1>5, <4>1, SMTT(30)
    <3> QED BY <1>3, <1>5, <1>8, <2>2, <3>1, <3>2
  <2> QED BY <2>3, <2>4
<1>11. Len(l) = m => Len(l \o hot) >= n
  BY <1>1, <1>9
<1>12. ToSet(l \o hot) \subseteq InRing \cup ToSet(hot)
  BY <1>2, <1>3, <1>5, <1>6, <1>8
<1>13. NewestOf(hot, l \o hot, n)
  BY <1>8, <1>10, <1>11, <1>12 DEF NewestOf
<1> QED BY <1>13 DEF l, m, w

\* The ids of the character in the ring.
LEMMA RingIdsAre ==
    ASSUME LineTypes PROVE RingIds = {r.id : r \in InRing}
<1>1. \A s \in SegIds : ToSet(segs[s]) \subseteq Records
  BY RingTypesAre, InToSet
<1>2. {x \in UNION {ToSet(segs[s]) : s \in SegIds} : x.own} = InRing
  <2>1. ASSUME NEW x, x \in UNION {ToSet(segs[s]) : s \in SegIds}, x.own PROVE x \in InRing
    <3>1. PICK s \in SegIds : x \in ToSet(segs[s])
      BY <2>1
    <3>2. x \in OwnRecords
      BY <1>1, <2>1, <3>1 DEF Records, OwnRecords
    <3> QED BY <3>1, <3>2 DEF InRing, OwnIn
  <2>2. ASSUME NEW x \in InRing PROVE x \in UNION {ToSet(segs[s]) : s \in SegIds} /\ x.own
    <3>1. PICK s \in SegIds : x \in OwnIn(s)
      BY DEF InRing
    <3> QED BY <3>1, OwnAreNat DEF OwnIn
  <2> QED BY <2>1, <2>2
<1> QED BY <1>2 DEF RingIds

\* Lines after a place of an ascending sequence.
LEMMA LaterCount ==
    ASSUME NEW out \in Seq(Records), Ascends(out), NEW i \in 1 .. Len(out)
    PROVE  LET later == {r.id : r \in {x \in ToSet(out) : x.id > out[i].id}} IN
           IsFiniteSet(later) /\ Cardinality(later) <= Len(out) - i
<1> DEFINE n == Len(out)
           J == (i + 1) .. n
           T == {r.id : r \in {x \in ToSet(out) : x.id > out[i].id}}
           f == [j \in J |-> out[j].id]
<1>1. n \in Nat /\ i \in 1 .. n /\ \A j \in 1 .. n : out[j] \in Records /\ out[j].id \in Nat
  <2>1. n \in Nat /\ \A j \in 1 .. n : out[j] \in Records
    BY LenProperties
  <2>2. \A r \in Records : r.id \in Nat
    BY DEF Records
  <2> QED BY <2>1, <2>2
<1>2. ASSUME NEW j \in J PROVE f[j] \in T
  <2>1. j \in 1 .. n /\ i < j
    BY <1>1
  <2>2. out[i].id < out[j].id /\ out[j] \in ToSet(out)
    BY <2>1, InToSet DEF Ascends
  <2>3. out[j].id > out[i].id
    BY <1>1, <2>1, <2>2
  <2> QED BY <2>2, <2>3
<1>3. ASSUME NEW y \in T PROVE \E j \in J : f[j] = y
  <2>1. PICK r \in ToSet(out) : r.id > out[i].id /\ y = r.id
    OBVIOUS
  <2>2. PICK j \in 1 .. n : out[j] = r
    BY InToSet
  <2>3. ~(j < i) /\ j # i
    <3>1. j < i => out[j].id < out[i].id
      BY <2>2 DEF Ascends
    <3> QED BY <1>1, <2>1, <2>2, <3>1
  <2>4. j \in J
    BY <1>1, <2>2, <2>3
  <2> QED BY <2>1, <2>2, <2>4
<1>4. f \in [J -> T]
  BY <1>2
<1>5. IsFiniteSet(J) /\ Cardinality(J) = n - i
  <2>1. i + 1 \in Int /\ n \in Int
    BY <1>1
  <2> DEFINE a == i + 1
  <2> HIDE DEF a, n
  <2>2. IsFiniteSet(a .. n) /\ Cardinality(a .. n) = IF a > n THEN 0 ELSE n - a + 1
    BY <2>1, FS_Interval DEF a
  <2> QED BY <1>1, <2>2 DEF a
<1> HIDE DEF J, T, f
<1>6. f \in Surjection(J, T)
  BY <1>3, <1>4 DEF Surjection
<1>7. IsFiniteSet(T) /\ Cardinality(T) <= Cardinality(J)
  BY <1>5, <1>6, FS_Surjection
<1> QED BY <1>5, <1>7 DEF T

\* A line whose context is not complete.
LEMMA UnknownIsShort ==
    ASSUME LineTypes, SearchReads(<<>>, reader.out), \A r \in ToSet(reader.hot) : r.id # reader.n,
           ~Complete(reader.out, reader.n)
    PROVE  \/ reader.n \notin KeptIds
           \/ Cardinality({x \in RingIds : x > reader.n}) < Context
<1> DEFINE out == reader.out
           n == reader.n
<1> SUFFICES ASSUME n \in KeptIds PROVE Cardinality({x \in RingIds : x > n}) < Context
  OBVIOUS
<1>1. out \in Seq(Records) /\ n \in Nat
  BY ReaderParts
<1>2. ToSet(out) = InRing /\ Ascends(out)
  <2>1. ToSet(<<>>) = {}
    BY DEF ToSet
  <2>2. DoneOwn(<<>>) = InRing
    BY <2>1 DEF DoneOwn, Done, InRing
  <2> QED BY <2>2 DEF SearchReads
<1>3. RingIds = {r.id : r \in ToSet(out)}
  BY <1>2, RingIdsAre
<1>4. n \in RingIds
  BY DEF KeptIds
<1> HIDE DEF out, n
<1>5. PICK i \in 1 .. Len(out) : out[i].id = n
  BY <1>1, <1>3, <1>4, InToSet
<1>6. ~(Len(out) - i >= Context)
  <2>1. i \in At(out, n)
    BY <1>1, <1>5, AtIs
  <2> QED BY <2>1 DEF Complete, out, n
<1> DEFINE later == {r.id : r \in {x \in ToSet(out) : x.id > out[i].id}}
<1>7. IsFiniteSet(later) /\ Cardinality(later) <= Len(out) - i
  BY <1>1, <1>2, LaterCount
<1>8. {x \in RingIds : x > n} = later
  BY <1>3, <1>5
<1> HIDE DEF later
<1>9. Cardinality(later) \in Nat /\ Context \in Nat /\ Len(out) \in Nat /\ i \in Nat
  BY <1>1, <1>5, <1>7, FS_CardinalityType, LineCaps, LenProperties
<1>10. Cardinality(later) < Context
  BY <1>6, <1>7, <1>9
<1> QED BY <1>8, <1>10 DEF n

\* An answer of the newest lines, told by its ids.
LEMMA NewestIsTold ==
    ASSUME LineTypes, ReaderHolds
    PROVE  LastIsNewest
<1> DEFINE out == reader.out
           ids == [i \in DOMAIN out |-> out[i].id]
           hot == reader.hot
<1> SUFFICES ASSUME reader.at = "told", Undisturbed
             PROVE  /\ \A i \in 2 .. Len(ids) : ids[i - 1] < ids[i]
                    /\ ToSet(ids) \subseteq KeptIds
                    /\ \A x \in KeptIds \ ToSet(ids) :
                          Len(ids) >= reader.n /\ \A y \in ToSet(ids) : x < y
  BY Zenon DEF LastIsNewest
<1>1. NewestOf(hot, out, reader.n)
  BY DEF ReaderHolds
<1>2. out \in Seq(Records) /\ Len(out) \in Nat /\ DOMAIN out = 1 .. Len(out)
      /\ \A i \in 1 .. Len(out) : out[i] \in Records
  BY ReaderParts, LenProperties
<1>3. KeptIds = {r.id : r \in InRing \cup ToSet(hot)}
  BY RingIdsAre DEF KeptIds
<1> HIDE DEF out, hot
<1>4. ids \in Seq(Nat) /\ Len(ids) = Len(out) /\ \A i \in 1 .. Len(out) : ids[i] = out[i].id
  BY <1>2 DEF Records
<1> HIDE DEF ids
<1>5. ToSet(ids) = {r.id : r \in ToSet(out)}
  <2>1. ASSUME NEW x \in ToSet(ids) PROVE x \in {r.id : r \in ToSet(out)}
    <3>1. PICK i \in 1 .. Len(ids) : ids[i] = x
      BY <1>4, InToSet
    <3>2. out[i] \in ToSet(out)
      BY <1>2, <1>4, <3>1, InToSet
    <3> QED BY <1>4, <3>1, <3>2
  <2>2. ASSUME NEW r \in ToSet(out) PROVE r.id \in ToSet(ids)
    <3>1. PICK i \in 1 .. Len(out) : out[i] = r
      BY <1>2, InToSet
    <3> QED BY <1>4, <3>1, InToSet
  <2> QED BY <2>1, <2>2
<1>6. ASSUME NEW i \in 2 .. Len(ids) PROVE ids[i - 1] < ids[i]
  <2> DEFINE j == i - 1
  <2>1. j \in 1 .. Len(out) /\ i \in 1 .. Len(out) /\ j < i
    BY <1>2, <1>4
  <2> HIDE DEF j
  <2>2. out[j].id < out[i].id
    BY <1>1, <2>1 DEF NewestOf, Ascends
  <2>3. ids[j] < ids[i]
    BY <1>4, <2>1, <2>2
  <2> QED BY <2>3 DEF j
<1>7. ToSet(ids) \subseteq KeptIds
  BY <1>1, <1>3, <1>5 DEF NewestOf
<1>8. ASSUME NEW x \in KeptIds \ ToSet(ids)
      PROVE  Len(ids) >= reader.n /\ \A y \in ToSet(ids) : x < y
  <2>1. PICK r \in InRing \cup ToSet(hot) : x = r.id
    BY <1>3
  <2>2. r \notin ToSet(out)
    BY <1>5, <2>1
  <2> QED BY <1>1, <1>4, <1>5, <2>1, <2>2 DEF NewestOf
<1> QED BY <1>6, <1>7, <1>8

LEMMA ReaderStays ==
    ASSUME ReaderHolds, SubmitFinds, segs' = segs, reader' = reader, Undisturbed' => Undisturbed
    PROVE  ReaderHolds' /\ SubmitFinds'
<1>1. \A s : OwnIn(s)' = OwnIn(s)
  BY DEF OwnIn
<1>2. InRing' = InRing
  BY DEF InRing, OwnIn
<1>3. \A s, t : SegBelow(s, t)' = SegBelow(s, t)
  BY DEF SegBelow, OwnIn
<1>4. \A q : DoneOwn(q)' = DoneOwn(q)
  BY DEF DoneOwn, Done, OwnIn
<1>5. ReaderHolds'
  <2> SUFFICES ASSUME Undisturbed'
               PROVE  /\ reader.at # "idle" => HotCovers(reader.hot)'
                      /\ reader.at = "last" => LastReads(reader.todo, reader.out, reader.n)'
                      /\ reader.at = "search" => /\ SearchReads(reader.todo, reader.out)'
                                                 /\ \A r \in ToSet(reader.hot) : r.id # reader.n
                      /\ reader.at = "told" => NewestOf(reader.hot, reader.out, reader.n)'
    BY DEF ReaderHolds
  <2>1. reader.at # "idle" => HotCovers(reader.hot)'
    BY <1>2 DEF ReaderHolds, HotCovers
  <2>2. reader.at = "last" => LastReads(reader.todo, reader.out, reader.n)'
    BY DEF ReaderHolds, LastReads, OnceEach, NewestOnTop, SegBelow, OwnIn, Done, DoneOwn
  <2>3. reader.at = "search" => SearchReads(reader.todo, reader.out)'
    BY DEF ReaderHolds, SearchReads, OnceEach, OldestOnTop, SegBelow, OwnIn, Done, DoneOwn
  <2>4. reader.at = "told" => NewestOf(reader.hot, reader.out, reader.n)'
    BY <1>2 DEF ReaderHolds, NewestOf
  <2>5. reader.at = "search" => \A r \in ToSet(reader.hot) : r.id # reader.n
    BY DEF ReaderHolds
  <2> QED BY <2>1, <2>2, <2>3, <2>4, <2>5
<1>6. SubmitFinds'
  BY DEF SubmitFinds, KeptIds, RingIds
<1> QED BY <1>5, <1>6

\* A step of the writer disturbs the report, a crash ends it.
LEMMA ReaderDisturbed ==
    ASSUME reader'.at = "idle" \/ reader'.disturbed
    PROVE  ReaderHolds' /\ SubmitFinds'
  BY DEF ReaderHolds, SubmitFinds, Undisturbed

\* The step of a report that leaves everything else.
LEMMA ReportHolds ==
    ASSUME LineTypes, LineTypes', RingKeeps, LinesSorted, ReaderHolds, SubmitFinds, ReportKeeps,
           \/ \E n \in 1 .. MaxLines : ReportLast(n)
           \/ ReadOlder
           \/ TellLast
           \/ \E n \in KeptIds \cup {r.id : r \in ToSet(scroll)} : ReportSubmit(n)
           \/ ReadNewer
           \/ TellSubmit
           \/ Served
    PROVE  ReaderHolds' /\ SubmitFinds'
<1>1. segs' = segs /\ (Undisturbed' <=> ~reader'.disturbed /\ Sound)
  BY DEF ReportKeeps, Undisturbed, Sound
<1> SUFFICES ASSUME ~reader'.disturbed, Sound PROVE ReaderHolds' /\ SubmitFinds'
  BY <1>1 DEF ReaderHolds, SubmitFinds
<1>2. InRing' = InRing
  BY <1>1 DEF InRing, OwnIn
<1>3. /\ KnownOwn /\ RingSorted /\ QueueSorted /\ ScrollSorted /\ RingShape
      /\ OrderedBy(meta) /\ \A s \in SegIds : AscendsIn(segs[s], OwnRecords)
  <2>1. KnownOwn /\ RingSorted /\ QueueSorted /\ ScrollSorted /\ RingShape
    BY DEF LinesSorted, RingKeeps, Sound
  <2> QED BY <2>1, MetaSorted DEF RingSorted
<1>4. /\ reader.n \in Nat /\ reader.hot \in Seq(Records) /\ reader.out \in Seq(Records)
      /\ reader.todo \in Seq(SegIds) /\ scroll \in Seq(Records) /\ InRing \subseteq OwnRecords
  BY ReaderParts, KeptAreOwn
<1>5. HotCovers(scroll)
  <2>1. Covers(scroll, InRing)
    BY <1>3, CoversLess DEF ScrollSorted
  <2> QED BY <1>3, <2>1 DEF HotCovers, KnownOwn, ScrollSorted
\* What is to be shown of the state of a report that is not disturbed.
<1>6. ASSUME reader'.at \in {"last"}, HotCovers(reader'.hot),
             LastReads(reader'.todo, reader'.out, reader'.n)
      PROVE  ReaderHolds' /\ SubmitFinds'
  <2>1. HotCovers(reader.hot)'
    BY <1>2, <1>6 DEF HotCovers
  <2>2. LastReads(reader.todo, reader.out, reader.n)'
    BY <1>1, <1>6 DEF LastReads, OnceEach, NewestOnTop, SegBelow, OwnIn, Done, DoneOwn
  <2> QED BY <1>6, <2>1, <2>2 DEF ReaderHolds, SubmitFinds
<1>7. ASSUME reader'.at = "search", HotCovers(reader'.hot),
             SearchReads(reader'.todo, reader'.out), \A r \in ToSet(reader'.hot) : r.id # reader'.n
      PROVE  ReaderHolds' /\ SubmitFinds'
  <2>1. HotCovers(reader.hot)'
    BY <1>2, <1>7 DEF HotCovers
  <2>2. SearchReads(reader.todo, reader.out)'
    BY <1>1, <1>7 DEF SearchReads, OnceEach, OldestOnTop, SegBelow, OwnIn, Done, DoneOwn
  <2> QED BY <1>7, <2>1, <2>2 DEF ReaderHolds, SubmitFinds
<1>8. ASSUME reader'.at = "told", HotCovers(reader'.hot), NewestOf(reader'.hot, reader'.out, reader'.n)
      PROVE  ReaderHolds' /\ SubmitFinds'
  <2>1. HotCovers(reader.hot)'
    BY <1>2, <1>8 DEF HotCovers
  <2>2. NewestOf(reader.hot, reader.out, reader.n)'
    BY <1>2, <1>8 DEF NewestOf
  <2> QED BY <1>8, <2>1, <2>2 DEF ReaderHolds, SubmitFinds
<1>9. ASSUME reader'.at = "found", HotCovers(reader'.hot)
      PROVE  ReaderHolds' /\ SubmitFinds'
  <2>1. HotCovers(reader.hot)'
    BY <1>2, <1>9 DEF HotCovers
  <2> QED BY <1>9, <2>1 DEF ReaderHolds, SubmitFinds
<1>10. CASE \E n \in 1 .. MaxLines : ReportLast(n)
  <2>1. PICK n \in 1 .. MaxLines : ReportLast(n)
    BY <1>10
  <2>2. n \in Nat /\ n > 0
    BY <2>1
  <2>3. CASE Len(scroll) >= n /\ reader' = ToldAtOnce(n)
    <3>1. reader'.at = "told" /\ reader'.hot = scroll /\ reader'.out = Latest(scroll, n) /\ reader'.n = n
      BY <2>3 DEF ToldAtOnce
    <3>2. NewestOf(scroll, Latest(scroll, n), n)
      BY <1>4, <1>5, <2>2, <2>3, ToldFromHot
    <3> QED BY <1>5, <1>8, <3>1, <3>2
  <2>4. CASE ~(Len(scroll) >= n) /\ reader' = ReadsRing("last", n, NewestFirst)
    <3>1. reader'.at = "last" /\ reader'.hot = scroll /\ reader'.out = <<>> /\ reader'.n = n
          /\ reader'.todo = NewestFirst
      BY <2>4 DEF ReadsRing
    <3>2. LastReads(NewestFirst, <<>>, n)
      BY <1>3, <2>2, OrdersStart
    <3> QED BY <1>5, <1>6, <3>1, <3>2
  <2> QED BY <2>1, <2>3, <2>4, ReportLastIs
<1>11. CASE \E n \in KeptIds \cup {r.id : r \in ToSet(scroll)} : ReportSubmit(n)
  <2>1. PICK n : ReportSubmit(n)
    BY <1>11
  <2>2. ASSUME NEW i, reader' = FoundIn(n, i) PROVE ReaderHolds' /\ SubmitFinds'
    <3>1. reader'.at = "found" /\ reader'.hot = scroll
      BY <2>2 DEF FoundIn
    <3> QED BY <1>5, <1>9, <3>1
  <2>3. CASE At(scroll, n) = {} /\ reader' = ReadsRing("search", n, OldestFirst)
    <3>1. reader'.at = "search" /\ reader'.hot = scroll /\ reader'.out = <<>> /\ reader'.n = n
          /\ reader'.todo = OldestFirst
      BY <2>3 DEF ReadsRing
    <3>2. SearchReads(OldestFirst, <<>>)
      BY <1>3, <1>4, OrdersStart
    <3>3. ASSUME NEW r \in ToSet(scroll) PROVE r.id # n
      <4>1. PICK i \in 1 .. Len(scroll) : scroll[i] = r
        BY <1>4, InToSet
      <4>2. r.id = n => i \in At(scroll, n)
        BY <1>4, <4>1, AtIs
      <4> QED BY <2>3, <4>2
    <3> QED BY <1>5, <1>7, <3>1, <3>2, <3>3
  <2> QED BY <2>1, <2>2, <2>3, ReportSubmitIs
<1>12. ASSUME reader.at # "idle", reader'.disturbed = reader.disturbed, reader'.hot = reader.hot
       PROVE  Undisturbed /\ HotCovers(reader.hot) /\ HotCovers(reader'.hot)
  BY <1>1, <1>12 DEF Undisturbed, Sound, ReaderHolds
<1>13. CASE ReadOlder
  <2> DEFINE l == Latest(OwnLines(segs[Head(reader.todo)]) \o reader.out, reader.n)
             t == Tail(reader.todo)
  <2>1. /\ reader.at = "last" /\ reader.todo # <<>> /\ Len(reader.out) < reader.n
        /\ reader' = [reader EXCEPT !.todo = t, !.out = l]
    BY <1>13 DEF ReadOlder
  <2> HIDE DEF l, t
  <2>2. /\ reader'.at = "last" /\ reader'.hot = reader.hot /\ reader'.n = reader.n
        /\ reader'.todo = t /\ reader'.out = l /\ reader'.disturbed = reader.disturbed
    BY <2>1 DEF LineTypes, ReaderTypes, ReaderSet
  <2>3. Undisturbed /\ HotCovers(reader'.hot)
    BY <1>12, <2>1, <2>2
  <2>4. LastReads(reader.todo, reader.out, reader.n)
    BY <2>1, <2>3 DEF ReaderHolds
  <2>5. LastReads(t, l, reader.n)
    BY <1>3, <1>4, <2>1, <2>4, OlderRead DEF l, t
  <2> QED BY <1>6, <2>2, <2>3, <2>5
<1>14. CASE TellLast
  <2> DEFINE l == Latest(Without(reader.out, reader.hot), reader.n - Len(reader.hot)) \o reader.hot
  <2>1. /\ reader.at = "last" /\ (reader.todo = <<>> \/ Len(reader.out) = reader.n)
        /\ reader' = [reader EXCEPT !.at = "told", !.todo = <<>>, !.out = l]
    BY <1>14 DEF TellLast, HaveLast
  <2> HIDE DEF l
  <2>2. /\ reader'.at = "told" /\ reader'.hot = reader.hot /\ reader'.n = reader.n
        /\ reader'.out = l /\ reader'.disturbed = reader.disturbed
    BY <2>1 DEF LineTypes, ReaderTypes, ReaderSet
  <2>3. Undisturbed /\ HotCovers(reader.hot) /\ HotCovers(reader'.hot)
    BY <1>12, <2>1, <2>2
  <2>4. LastReads(reader.todo, reader.out, reader.n)
    BY <2>1, <2>3 DEF ReaderHolds
  <2>5. Len(reader.hot) < reader.n
    BY <2>1 DEF LineTypes, ReaderTypes
  <2>6. NewestOf(reader.hot, l, reader.n)
    BY <1>4, <2>1, <2>3, <2>4, <2>5, ToldFromRing DEF l
  <2> QED BY <1>8, <2>2, <2>3, <2>6
<1>15. CASE ReadNewer
  <2> DEFINE l == reader.out \o OwnLines(segs[Head(reader.todo)])
             t == Tail(reader.todo)
  <2>1. /\ reader.at = "search" /\ reader.todo # <<>>
        /\ reader' = [reader EXCEPT !.todo = t, !.out = l]
    BY <1>15 DEF ReadNewer
  <2> HIDE DEF l, t
  <2>2. /\ reader'.at = "search" /\ reader'.hot = reader.hot /\ reader'.n = reader.n
        /\ reader'.todo = t /\ reader'.out = l /\ reader'.disturbed = reader.disturbed
    BY <2>1 DEF LineTypes, ReaderTypes, ReaderSet
  <2>3. Undisturbed /\ HotCovers(reader'.hot)
    BY <1>12, <2>1, <2>2
  <2>4. SearchReads(reader.todo, reader.out) /\ \A r \in ToSet(reader.hot) : r.id # reader.n
    BY <2>1, <2>3 DEF ReaderHolds
  <2>5. SearchReads(t, l)
    BY <1>3, <1>4, <2>1, <2>4, NewerRead DEF l, t
  <2> QED BY <1>7, <2>2, <2>3, <2>4, <2>5
<1>16. CASE TellSubmit
  <2>1. CASE Complete(reader.out, reader.n)
    <3> DEFINE l == Around(reader.out, Min(At(reader.out, reader.n)))
    <3>1. reader.at = "search" /\ reader' = [reader EXCEPT !.at = "found", !.todo = <<>>, !.out = l]
      BY <1>16, <2>1 DEF TellSubmit
    <3> HIDE DEF l
    <3>2. reader'.at = "found" /\ reader'.hot = reader.hot /\ reader'.disturbed = reader.disturbed
      BY <3>1 DEF LineTypes, ReaderTypes, ReaderSet
    <3>3. HotCovers(reader'.hot)
      BY <1>12, <3>1, <3>2
    <3> QED BY <1>9, <3>2, <3>3
  <2>2. CASE ~Complete(reader.out, reader.n)
    <3>1. /\ reader.at = "search" /\ reader.todo = <<>>
          /\ reader' = [reader EXCEPT !.at = "unknown", !.todo = <<>>, !.out = <<>>]
      BY <1>16, <2>2 DEF TellSubmit
    <3>2. /\ reader'.at = "unknown" /\ reader'.hot = reader.hot /\ reader'.n = reader.n
          /\ reader'.disturbed = reader.disturbed
      BY <3>1 DEF LineTypes, ReaderTypes, ReaderSet
    <3>3. Undisturbed /\ HotCovers(reader'.hot)
      BY <1>12, <3>1, <3>2
    <3>4. SearchReads(<<>>, reader.out) /\ \A r \in ToSet(reader.hot) : r.id # reader.n
      BY <3>1, <3>3 DEF ReaderHolds
    <3>5. \/ reader.n \notin KeptIds
          \/ Cardinality({x \in RingIds : x > reader.n}) < Context
      BY <2>2, <3>4, UnknownIsShort
    <3>6. RingIds' = RingIds /\ KeptIds' = KeptIds
      BY <1>1, <3>2 DEF RingIds, KeptIds
    <3>7. SubmitFinds'
      BY <3>2, <3>5, <3>6 DEF SubmitFinds
    <3>8. HotCovers(reader.hot)'
      BY <1>2, <3>3 DEF HotCovers
    <3> QED BY <3>2, <3>7, <3>8 DEF ReaderHolds
  <2> QED BY <2>1, <2>2
<1>17. CASE Served
  <2>1. reader'.at = "idle"
    BY <1>17 DEF Served, IdleReader
  <2> QED BY <2>1, ReaderDisturbed
<1> QED BY <1>10, <1>11, <1>13, <1>14, <1>15, <1>16, <1>17

LEMMA ReaderStep ==
    ASSUME LineTypes, LineTypes', RingKeeps, LinesSorted, ReaderHolds, SubmitFinds,
           [LineNext]_lineVars
    PROVE  ReaderHolds' /\ SubmitFinds'
<1>1. ASSUME segs' = segs, reader' = reader, skipped => skipped', setBack => setBack'
      PROVE  ReaderHolds' /\ SubmitFinds'
  BY <1>1, ReaderStays DEF Undisturbed
<1>2. CASE \E own \in BOOLEAN : Output(own)
  <2>1. segs' = segs /\ reader' = reader /\ skipped' = skipped /\ (setBack => setBack')
    BY <1>2 DEF Output
  <2> QED BY <1>1, <2>1
<1>3. CASE Clock \/ Rejoin \/ UNCHANGED lineVars
  BY <1>1, <1>3 DEF Clock, Rejoin, lineVars
<1>4. CASE RotateFails \/ WriteMeta
  BY <1>1, <1>4 DEF RotateFails, WriteMeta
<1>5. CASE WriteRecord \/ Truncate
  <2>1. reader' = Disturbed
    BY <1>5 DEF WriteRecord, Truncate
  <2>2. reader'.at = "idle" \/ reader'.disturbed
    BY <2>1, DisturbedIs DEF LineTypes
  <2> QED BY <2>2, ReaderDisturbed
<1>6. CASE CrashLines
  <2>1. reader'.at = "idle"
    BY <1>6 DEF CrashLines, IdleReader
  <2> QED BY <2>1, ReaderDisturbed
<1>7. CASE \/ \E n \in 1 .. MaxLines : ReportLast(n)
           \/ ReadOlder
           \/ TellLast
           \/ \E n \in KeptIds \cup {r.id : r \in ToSet(scroll)} : ReportSubmit(n)
           \/ ReadNewer
           \/ TellSubmit
           \/ Served
  <2>1. ReportKeeps
    BY <1>7, ReportTypes
  <2> QED BY <1>7, <2>1, ReportHolds
<1> QED
  BY <1>2, <1>3, <1>4, <1>5, <1>6, <1>7 DEF LineNext

LineIInv == LineTypes /\ RingKeeps /\ LinesSorted /\ ReaderHolds /\ SubmitFinds

(* Whatever turns, crashes, restarts and failed rotations the nearline ring  *)
(* goes through (writer_task), it ends with the records written last, and a  *)
(* `report` that the writer did not disturb tells the newest lines kept      *)
(* anywhere, and finds the line it is asked for.                             *)
THEOREM LineInvHolds == LineSpec => []LineInv
<1>1. LineInit => LineIInv
  <2> SUFFICES ASSUME LineInit PROVE LineIInv
    OBVIOUS
  <2>1. ReaderHolds /\ SubmitFinds
    BY DEF LineInit, IdleReader, ReaderHolds, SubmitFinds
  <2> QED BY <2>1, LineStart, RingStart, SortedStart DEF LineIInv
<1>2. LineIInv /\ [LineNext]_lineVars => LineIInv'
  <2> SUFFICES ASSUME LineIInv, [LineNext]_lineVars PROVE LineIInv'
    OBVIOUS
  <2>1. LineTypes /\ RingKeeps /\ LinesSorted /\ ReaderHolds /\ SubmitFinds
    BY DEF LineIInv
  <2>2. LineTypes'
    BY <2>1, LineTypeStep
  <2>3. RingKeeps'
    BY <2>1, RingStep
  <2>4. LinesSorted'
    BY <2>1, SortedStep
  <2>5. ReaderHolds' /\ SubmitFinds'
    BY <2>1, <2>2, ReaderStep
  <2> QED BY <2>2, <2>3, <2>4, <2>5 DEF LineIInv
<1>3. LineIInv => LineInv
  BY LineTypesImply, RingEndsImply, NewestIsTold DEF LineIInv, LineInv
<1> QED BY <1>1, <1>2, <1>3, PTL DEF LineSpec
=============================================================================
