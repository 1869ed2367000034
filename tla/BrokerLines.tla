---------------------------- MODULE BrokerLines ----------------------------
(* The lines of output the broker keeps: each gets an id (LineIdGen), goes  *)
(* to the scrollback of its session and, through a queue that may drop it,  *)
(* to the nearline ring of segment files, whose writer runs beside the      *)
(* `report` commands that read it.  One character reports; lines of others  *)
(* share the ring.  A line is its id and whether it is the character's;     *)
(* the bits of the node are the same in every id and left out.              *)
EXTENDS Integers, Sequences, SequencesExt, FiniteSets

CONSTANTS SeqMax,      \* ids of one millisecond: 4096
          ScrollCap,   \* SCROLLBACK_MAX_LINES
          QueueCap,    \* the ring's channel_capacity
          Segments,    \* max_segments
          SegMax,      \* records that fit in segment_max_bytes
          Context,     \* REPORT_CONTEXT_LINES
          MaxLines,    \* bound: lines of output
          MaxMillis,   \* bound: the clock
          MaxFaults    \* bound: crashes and failed rotations

ASSUME LineBounds ==
    /\ {SeqMax, ScrollCap, QueueCap, Segments, SegMax, Context} \subseteq Nat \ {0}
    /\ {MaxLines, MaxFaults} \subseteq Nat /\ MaxMillis \in Nat \ {0}

VARIABLES
    millis,   \* the system's clock; it may be set back
    gen,      \* LineIdGen: last_ts_ms and seq
    count,    \* bound: lines of output so far
    last,     \* history: the id given out last, 0 before the first
    scroll,   \* the scrollback of the character's session
    queue,    \* records on their way to the writer
    segs,     \* the segment files: records, 0 for a line torn by a crash
    meta,     \* cur_seg of the meta file
    writer,   \* writer_task: its step, its segment and whether it has a file
    reader,   \* the `report` command that is being served
    faults,   \* bound: crashes and failed rotations so far
    skipped,  \* history: a rotation failed
    setBack,  \* history: the clock was behind when a restarted broker gave its
              \* first line an id
    latest    \* history: the records written last, as many as must be kept

lineVars == <<millis, gen, count, last, scroll, queue, segs, meta, writer, reader,
              faults, skipped, setBack, latest>>

SegIds     == 0..Segments - 1
Records    == [id : Nat, own : BOOLEAN]
Torn       == [id |-> 0, own |-> FALSE]
OwnRecords == [id : Nat, own : {TRUE}]

IdleReader == [at |-> "idle", n |-> 0, hot |-> <<>>, todo |-> <<>>, out |-> <<>>,
               disturbed |-> FALSE]
Disturbed  == IF reader.at = "idle" THEN reader
              ELSE [reader EXCEPT !.disturbed = TRUE]

LineInit ==
    /\ millis = 1 /\ gen = [ts |-> 0, seq |-> 0] /\ count = 0 /\ last = 0
    /\ scroll = <<>> /\ queue = <<>>
    /\ segs = [s \in SegIds |-> <<>>] /\ meta = 0
    /\ writer = [at |-> "ready", seg |-> 0, file |-> 0]
    /\ reader = IdleReader
    /\ faults = 0 /\ skipped = FALSE /\ setBack = FALSE /\ latest = <<>>

-----------------------------------------------------------------------------
(* LineIdGen.next_id: never back in time; when the numbers of a millisecond *)
(* run out, the next millisecond is used ahead of time.                     *)
NextGen(now) ==
    LET ts  == IF now > gen.ts THEN now ELSE gen.ts
        seq == IF ts = gen.ts THEN (gen.seq + 1) % SeqMax ELSE 0 IN
    [ts |-> IF ts = gen.ts /\ seq = 0 THEN ts + 1 ELSE ts, seq |-> seq]

IdOf(g) == g.ts * SeqMax + g.seq

\* Scrollback.push_line and last_n.
Latest(seq, n) == SubSeq(seq, IF Len(seq) > n THEN Len(seq) - n + 1 ELSE 1, Len(seq))

(* route_resp: a line of output, of the character or of another one.        *)
Output(own) ==
    /\ count < MaxLines /\ count' = count + 1
    /\ gen' = NextGen(millis)
    /\ LET line == [id |-> IdOf(gen'), own |-> own] IN
       /\ last' = line.id
       /\ scroll' = IF own THEN Latest(Append(scroll, line), ScrollCap) ELSE scroll
       /\ queue' = IF Len(queue) < QueueCap THEN Append(queue, line) ELSE queue
    /\ setBack' = (setBack \/ (gen.ts = 0 /\ millis * SeqMax <= last))
    /\ UNCHANGED <<millis, segs, meta, writer, reader, faults, skipped, latest>>

Clock ==
    /\ \/ millis < MaxMillis /\ millis' = millis + 1
       \/ millis > 1 /\ millis' = 1
    /\ UNCHANGED <<gen, count, last, scroll, queue, segs, meta, writer, reader, faults,
                   skipped, setBack, latest>>

\* The character leaves and comes back: a new session, a new scrollback.
Rejoin ==
    /\ scroll # <<>> /\ reader.at = "idle"
    /\ scroll' = <<>>
    /\ UNCHANGED <<millis, gen, count, last, queue, segs, meta, writer, reader, faults,
                   skipped, setBack, latest>>

-----------------------------------------------------------------------------
(* writer_task.  A record that does not fit turns the ring: the next        *)
(* segment is truncated, then the meta file names it.                       *)
Fits == Len(segs[writer.file]) < SegMax

Guarded == (Segments - 1) * SegMax   \* records no turn of the ring may lose

WriteRecord ==
    /\ writer.at = "ready" /\ queue # <<>> /\ Fits
    /\ segs' = [segs EXCEPT ![writer.file] = Append(@, Head(queue))]
    /\ queue' = Tail(queue)
    /\ latest' = Latest(Append(latest, Head(queue)), Guarded)
    /\ reader' = Disturbed
    /\ UNCHANGED <<millis, gen, count, last, scroll, meta, writer, faults, skipped,
                   setBack>>

Turn(seg) == (seg + 1) % Segments

Truncate ==
    /\ writer.at = "ready" /\ queue # <<>> /\ ~Fits
    /\ writer' = [at |-> "turned", seg |-> Turn(writer.seg), file |-> Turn(writer.seg)]
    /\ segs' = [segs EXCEPT ![Turn(writer.seg)] = <<>>]
    /\ reader' = Disturbed
    /\ UNCHANGED <<millis, gen, count, last, scroll, queue, meta, faults, skipped, setBack, latest>>

(* The segment cannot be opened: the record is dropped, the position stays  *)
(* advanced while the file is still the old one.                            *)
RotateFails ==
    /\ writer.at = "ready" /\ queue # <<>> /\ ~Fits /\ faults < MaxFaults
    /\ writer' = [writer EXCEPT !.seg = Turn(@)]
    /\ queue' = Tail(queue)
    /\ faults' = faults + 1 /\ skipped' = TRUE
    /\ UNCHANGED <<millis, gen, count, last, scroll, segs, meta, reader, setBack, latest>>

WriteMetaLate ==   \* Fault: the meta file keeps the segment before.
    /\ writer.at = "turned"
    /\ meta' = meta
    /\ writer' = [writer EXCEPT !.at = "ready"]
    /\ UNCHANGED <<millis, gen, count, last, scroll, queue, segs, reader, faults,
                   skipped, setBack, latest>>

WriteMeta ==
    /\ writer.at = "turned"
    /\ meta' = writer.seg
    /\ writer' = [writer EXCEPT !.at = "ready"]
    /\ UNCHANGED <<millis, gen, count, last, scroll, queue, segs, reader, faults,
                   skipped, setBack, latest>>

(* The broker stops and starts: queue, scrollback and ids are gone, the     *)
(* line written last may be torn, and the writer goes on where meta says.   *)
CrashLines ==
    /\ faults < MaxFaults /\ faults' = faults + 1
    /\ gen' = [ts |-> 0, seq |-> 0] /\ scroll' = <<>> /\ queue' = <<>>
    /\ reader' = IdleReader
    /\ \/ segs' = segs /\ latest' = latest
       \/ /\ segs[writer.file] # <<>>
          /\ segs' = [segs EXCEPT ![writer.file] = Append(Front(@), Torn)]
          /\ latest' = Latest(Append(Front(latest), Torn), Guarded)
    /\ writer' = [at |-> "ready", seg |-> meta, file |-> meta]
    /\ UNCHANGED <<millis, count, last, meta, skipped, setBack>>

-----------------------------------------------------------------------------
(* `report last n` reads the scrollback and, when that is not enough, the   *)
(* ring from its newest segment to its oldest; `report submit id` looks for *)
(* the id in the scrollback and then from the oldest to the newest.         *)
NewestFirst == [i \in 1..Segments |-> (meta + Segments - (i - 1)) % Segments]
OldestFirst == [i \in 1..Segments |-> (meta + i) % Segments]

\* The lines that are in S, in their order.
Selected(lines, S) ==
    LET kept[i \in 0..Len(lines)] ==
            IF i = 0 THEN <<>>
            ELSE IF lines[i] \in S THEN Append(kept[i - 1], lines[i]) ELSE kept[i - 1]
    IN kept[Len(lines)]

OwnLines(lines)     == Selected(lines, OwnRecords)
Without(lines, hot) == Selected(lines, Records \ ToSet(hot))

ReportLast(n) ==
    /\ reader.at = "idle"
    /\ reader' = IF Len(scroll) >= n
                 THEN [IdleReader EXCEPT !.at = "told", !.n = n, !.hot = scroll,
                                         !.out = Latest(scroll, n)]
                 ELSE [IdleReader EXCEPT !.at = "last", !.n = n, !.hot = scroll,
                                         !.todo = NewestFirst]
    /\ UNCHANGED <<millis, gen, count, last, scroll, queue, segs, meta, writer, faults,
                   skipped, setBack, latest>>

\* NearlineRing.last_n stops as soon as it has n lines.
ReadOlder ==
    /\ reader.at = "last" /\ reader.todo # <<>> /\ Len(reader.out) < reader.n
    /\ reader' = [reader EXCEPT
            !.todo = Tail(@),
            !.out = Latest(OwnLines(segs[Head(reader.todo)]) \o @, reader.n)]
    /\ UNCHANGED <<millis, gen, count, last, scroll, queue, segs, meta, writer, faults,
                   skipped, setBack, latest>>

HaveLast == reader.at = "last"
            /\ (reader.todo = <<>> \/ Len(reader.out) = reader.n)

TellLast ==
    /\ HaveLast
    /\ reader' = [reader EXCEPT !.at = "told", !.todo = <<>>,
                    !.out = Latest(Without(@, reader.hot),
                                   reader.n - Len(reader.hot)) \o reader.hot]
    /\ UNCHANGED <<millis, gen, count, last, scroll, queue, segs, meta, writer, faults,
                   skipped, setBack, latest>>

(* `report submit` of line n; the context of a line of the scrollback is    *)
(* cut at its ends, that of a line of the ring has to be complete.          *)
At(lines, n) == {i \in DOMAIN lines : lines[i].id = n}
Around(lines, i) == SubSeq(lines, IF i > Context THEN i - Context ELSE 1,
                           IF i + Context > Len(lines) THEN Len(lines)
                           ELSE i + Context)

\* The character's ids in the ring and in the scrollback the report took.
RingIds == {r.id : r \in {x \in UNION {ToSet(segs[s]) : s \in SegIds} : x.own}}
KeptIds == RingIds \cup {r.id : r \in ToSet(reader.hot)}

ReportSubmit(n) ==
    /\ reader.at = "idle"
    /\ reader' = IF At(scroll, n) # {}
                 THEN [IdleReader EXCEPT !.at = "found", !.n = n, !.hot = scroll,
                        !.out = Around(scroll, CHOOSE i \in At(scroll, n) : TRUE)]
                 ELSE [IdleReader EXCEPT !.at = "search", !.n = n, !.hot = scroll,
                        !.todo = OldestFirst]
    /\ UNCHANGED <<millis, gen, count, last, scroll, queue, segs, meta, writer, faults,
                   skipped, setBack, latest>>

\* NearlineRing.find_with_context returns once Context lines follow the line.
Complete(lines, n) == \E i \in At(lines, n) : Len(lines) - i >= Context

ReadNewer ==
    /\ reader.at = "search" /\ reader.todo # <<>> /\ ~Complete(reader.out, reader.n)
    /\ reader' = [reader EXCEPT !.todo = Tail(@),
                                !.out = @ \o OwnLines(segs[Head(reader.todo)])]
    /\ UNCHANGED <<millis, gen, count, last, scroll, queue, segs, meta, writer, faults,
                   skipped, setBack, latest>>

TellSubmit ==
    /\ reader.at = "search"
    /\ reader.todo = <<>> \/ Complete(reader.out, reader.n)
    /\ reader' = IF Complete(reader.out, reader.n)
                 THEN [reader EXCEPT !.at = "found", !.todo = <<>>, !.out =
                        Around(reader.out, Min(At(reader.out, reader.n)))]
                 ELSE [reader EXCEPT !.at = "unknown", !.todo = <<>>, !.out = <<>>]
    /\ UNCHANGED <<millis, gen, count, last, scroll, queue, segs, meta, writer, faults,
                   skipped, setBack, latest>>

Served ==
    /\ reader.at \in {"told", "found", "unknown"}
    /\ reader' = IdleReader
    /\ UNCHANGED <<millis, gen, count, last, scroll, queue, segs, meta, writer, faults,
                   skipped, setBack, latest>>

LineNext ==
    \/ \E own \in BOOLEAN : Output(own)
    \/ Clock \/ Rejoin
    \/ WriteRecord \/ Truncate \/ RotateFails \/ WriteMeta
    \/ CrashLines
    \/ \E n \in 1..MaxLines : ReportLast(n)
    \/ ReadOlder \/ TellLast
    \/ \E n \in KeptIds \cup {r.id : r \in ToSet(scroll)} : ReportSubmit(n)
    \/ ReadNewer \/ TellSubmit \/ Served

LineSpec == LineInit /\ [][LineNext]_lineVars

-----------------------------------------------------------------------------
\* Every variable keeps its type: LineIdGen, Scrollback, the segment files,
\* the writer task and the report command.
LineTypeOK ==
    /\ millis \in 1..MaxMillis /\ faults \in 0..MaxFaults
    /\ gen \in [ts : Nat, seq : 0..SeqMax - 1]
    /\ count \in 0..MaxLines /\ last \in Nat
    /\ \A i \in DOMAIN queue : queue[i] \in Records
    /\ Len(scroll) <= ScrollCap /\ Len(queue) <= QueueCap
    /\ \A s \in SegIds : Len(segs[s]) <= SegMax
    /\ meta \in SegIds
    /\ writer \in [at : {"ready", "turned"}, seg : SegIds, file : SegIds]
    /\ reader.at \in {"idle", "last", "search", "told", "found", "unknown"}
    /\ {skipped, setBack} \subseteq BOOLEAN

\* Line ids are given out in increasing order, over every step of the clock
\* and every use of the sequence, until a restart with the clock set back.
IdsIncrease == [][last' # last => last' > last \/ setBack']_lineVars

\* The segments, read from the one after the writer's, end with the records
\* written last, in the order they were written: no turn of the ring, no crash
\* between its two steps and no restart loses or reorders them, except that a
\* failed rotation leaves the writer's position ahead of its file.
RingEndsWithLatest ==
    LET flat == FlattenSeq([i \in 1..Segments |-> segs[(writer.seg + i) % Segments]])
    IN skipped \/ IsSuffix(latest, flat)

Undisturbed == ~reader.disturbed /\ ~skipped /\ ~setBack

\* Unless the writer moved while it was read, `report last` tells the newest
\* lines of the character that are kept anywhere, each once, oldest first.
LastIsNewest ==
    reader.at = "told" /\ Undisturbed =>
        LET ids == [i \in DOMAIN reader.out |-> reader.out[i].id] IN
        /\ \A i \in 2..Len(ids) : ids[i - 1] < ids[i]
        /\ ToSet(ids) \subseteq KeptIds
        /\ \A x \in KeptIds \ ToSet(ids) :
              Len(ids) >= reader.n /\ \A y \in ToSet(ids) : x < y

\* `report submit` finds every line of the character that is in the scrollback
\* or in the ring, but a line of the ring that fewer than Context lines of the
\* character follow there is unknown to it.
SubmitFinds ==
    reader.at = "unknown" /\ Undisturbed =>
        \/ reader.n \notin KeptIds
        \/ Cardinality({x \in RingIds : x > reader.n}) < Context

\* The ring on disk and the reports read from it: no turn, crash or restart
\* loses or reorders lines, and a report the writer did not disturb finds what
\* is kept.
LineInv == LineTypeOK /\ RingEndsWithLatest /\ LastIsNewest /\ SubmitFinds

=============================================================================
