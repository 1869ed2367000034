------------------------------ MODULE EventLog -----------------------------
(* The event log of the broker (eventlog.rs): LocalWriter appends lines to  *)
(* the file of their day, midnight closes the files of the day before and   *)
(* hands them to the upload, which puts each into the bucket and deletes    *)
(* it; a scan hands over what is left of older days.  Streams are alike: a  *)
(* file is its day.                                                         *)
EXTENDS Naturals, Sequences, FiniteSets

CONSTANTS Loggers,    \* tasks that log lines
          MaxLogged,  \* bound: lines
          LastDay,    \* bound: days
          MaxStops    \* bound: crashes of the broker

ASSUME LogBounds == {MaxLogged, LastDay, MaxStops} \subseteq Nat

VARIABLES
    today,     \* the date of Utc::now
    logger,    \* per task: the line it logs and the date log_line took
    logDate,   \* LocalWriter.date
    open,      \* LocalWriter.open: day -> buffer and whether its file exists
    touched,   \* LocalWriter.touched
    dated,     \* history: the date each line was given; lines are numbers
    disk,      \* the files: day -> the lines in it
    bucket,    \* the objects: day -> the lines in it
    batches,   \* the channel to the upload task
    upload,    \* the upload task: its step, its file and the rest of its batch
    stops,     \* bound: crashes so far
    late,      \* history: days that got a line after they were over, or that
               \* were closed by a line of an earlier day
    dropped    \* history: lines that were in no file when the broker stopped

logVars == <<today, logger, logDate, open, touched, dated, disk, bucket,
             batches, upload, stops, late, dropped>>

Days    == 0..LastDay
NoLine  == [line |-> 0, day |-> 0]
AtRest  == [at |-> "idle", day |-> 0, rest |-> {}]

LogInit ==
    /\ today = 0 /\ logger = [w \in Loggers |-> NoLine]
    /\ logDate = 0 /\ open = << >> /\ touched = {} /\ dated = <<>>
    /\ disk = << >> /\ bucket = << >> /\ batches = <<>> /\ upload = AtRest
    /\ stops = 0 /\ late = {} /\ dropped = {}

-----------------------------------------------------------------------------
Drop(f, d)   == [x \in DOMAIN f \ {d} |-> f[x]]
With(f, d, v) == [x \in DOMAIN f \cup {d} |-> IF x = d THEN v ELSE f[x]]

(* flush_all: buffers go to their files; the file of a handle that was      *)
(* deleted is written all the same, and gone with the handle.               *)
Flushed == [d \in DOMAIN disk |->
               IF d \in DOMAIN open /\ open[d].exists THEN disk[d] \cup open[d].buffer
               ELSE disk[d]]
Emptied == [d \in DOMAIN open |-> [open[d] EXCEPT !.buffer = {}]]
FlushedLate == {d \in DOMAIN open : open[d].buffer # {} /\ d # today}

\* log_line takes the date, and waits for the lock.
TakeDate(w) ==
    /\ logger[w] = NoLine /\ Len(dated) < MaxLogged
    /\ dated' = Append(dated, today)
    /\ logger' = [logger EXCEPT ![w] = [line |-> Len(dated'), day |-> today]]
    /\ UNCHANGED <<today, logDate, open, touched, disk, bucket, batches, upload,
                   stops, late, dropped>>

(* write_line: a date other than the writer's, also an earlier one, flushes *)
(* and closes everything and hands what was touched to the upload; then the *)
(* line goes to the buffer of its file, which is created when it is gone.   *)
WriteLine(w) ==
    /\ logger[w] # NoLine
    /\ LET d      == logger[w].day
           turn   == d # logDate
           kept   == IF turn THEN << >> ELSE open
           files  == IF turn THEN Flushed ELSE disk
           handle == IF d \in DOMAIN kept THEN kept[d]
                     ELSE [buffer |-> {}, exists |-> TRUE] IN
       /\ disk' = IF d \in DOMAIN kept \cup DOMAIN files THEN files
                  ELSE With(files, d, {})
       /\ open' = With(kept, d, [handle EXCEPT !.buffer = @ \cup {logger[w].line}])
       /\ touched' = IF turn THEN {d} ELSE touched \cup {d}
       /\ batches' = IF turn /\ touched # {} THEN Append(batches, touched) ELSE batches
       /\ late' = late \cup (IF d < logDate THEN touched ELSE {})
                       \cup (IF d < today THEN {d} ELSE {})
                       \cup (IF turn THEN FlushedLate ELSE {})
       /\ logDate' = d
    /\ logger' = [logger EXCEPT ![w] = NoLine]
    /\ UNCHANGED <<today, dated, bucket, upload, stops, dropped>>

\* Every flush_interval, by the background task or on the way of a line.
FlushAll ==
    /\ \E d \in DOMAIN open : open[d].buffer # {}
    /\ disk' = Flushed /\ open' = Emptied
    /\ late' = late \cup FlushedLate
    /\ UNCHANGED <<today, logger, logDate, touched, dated, bucket, batches,
                   upload, stops, dropped>>

Midnight ==
    /\ today < LastDay
    /\ today' = today + 1
    /\ UNCHANGED <<logger, logDate, open, touched, dated, disk, bucket, batches,
                   upload, stops, late, dropped>>

-----------------------------------------------------------------------------
(* scan_and_enqueue_backlog: every file on disk but those of today.  Bound: *)
(* it waits until the batches before it are taken.                          *)
ScanEverything ==   \* Fault: today's files are not left alone.
    /\ DOMAIN disk # {} /\ batches = <<>>
    /\ batches' = <<DOMAIN disk>>
    /\ UNCHANGED <<today, logger, logDate, open, touched, dated, disk, bucket,
                   upload, stops, late, dropped>>

Scan ==
    /\ DOMAIN disk \ {today} # {} /\ batches = <<>>
    /\ batches' = <<DOMAIN disk \ {today}>>
    /\ UNCHANGED <<today, logger, logDate, open, touched, dated, disk, bucket,
                   upload, stops, late, dropped>>

(* upload_worker_task and upload_one: a file that is there is read and put, *)
(* replacing the object, and then deleted; a put that fails leaves it.      *)
TakeBatch ==
    /\ upload.at = "idle" /\ batches # <<>>
    /\ upload' = [AtRest EXCEPT !.at = "next", !.rest = Head(batches)]
    /\ batches' = Tail(batches)
    /\ UNCHANGED <<today, logger, logDate, open, touched, dated, disk, bucket,
                   stops, late, dropped>>

NextFile(put) ==
    /\ upload.at = "next"
    /\ \E d \in upload.rest :
          IF put /\ d \in DOMAIN disk
          THEN /\ bucket' = With(bucket, d, disk[d])
               /\ upload' = [at |-> "put", day |-> d, rest |-> upload.rest \ {d}]
          ELSE /\ bucket' = bucket
               /\ upload' = IF upload.rest = {d} THEN AtRest
                            ELSE [upload EXCEPT !.rest = @ \ {d}]
    /\ UNCHANGED <<today, logger, logDate, open, touched, dated, disk, batches,
                   stops, late, dropped>>

PutDone   == NextFile(TRUE)
PutFails  == NextFile(FALSE)

DeleteFile ==
    /\ upload.at = "put"
    /\ disk' = Drop(disk, upload.day)
    /\ open' = [d \in DOMAIN open |->
                   IF d = upload.day THEN [open[d] EXCEPT !.exists = FALSE]
                   ELSE open[d]]
    /\ upload' = IF upload.rest = {} THEN AtRest
                 ELSE [upload EXCEPT !.at = "next"]
    /\ UNCHANGED <<today, logger, logDate, touched, dated, bucket, batches,
                   stops, late, dropped>>

(* The broker stops and starts: buffers and the channel are gone.           *)
StopLog ==
    /\ stops < MaxStops /\ stops' = stops + 1
    /\ dropped' = dropped \cup (UNION {open[d].buffer : d \in DOMAIN open})
                          \cup {logger[w].line : w \in Loggers}
    /\ logger' = [w \in Loggers |-> NoLine]
    /\ logDate' = today /\ open' = << >> /\ touched' = {}
    /\ batches' = <<>> /\ upload' = AtRest
    /\ UNCHANGED <<today, dated, disk, bucket, late>>

LogNext ==
    \/ \E w \in Loggers : TakeDate(w) \/ WriteLine(w)
    \/ FlushAll \/ Midnight
    \/ Scan \/ TakeBatch \/ PutDone \/ PutFails \/ DeleteFile
    \/ StopLog

\* The scan repeats, the upload task runs, and the bucket does not refuse
\* every put for good.
LogFairness ==
    /\ WF_logVars(Scan) /\ WF_logVars(TakeBatch) /\ WF_logVars(DeleteFile)
    /\ WF_logVars(PutDone \/ PutFails) /\ SF_logVars(PutDone)

LogSpec     == LogInit /\ [][LogNext]_logVars
LogLiveSpec == LogSpec /\ LogFairness

-----------------------------------------------------------------------------
\* Every variable keeps its type: LocalWriter, the files, the objects and the
\* upload task.
LogTypeOK ==
    /\ today \in Days /\ logDate \in Days /\ stops \in 0..MaxStops
    /\ dated \in Seq(Days) /\ Len(dated) <= MaxLogged
    /\ logger \in [Loggers -> [line : 0..MaxLogged, day : Days]]
    /\ UNION {DOMAIN open, DOMAIN disk, DOMAIN bucket, touched, late} \subseteq Days
    /\ \A d \in DOMAIN open : open[d].buffer \subseteq 1..MaxLogged
    /\ \A d \in DOMAIN disk : disk[d] \subseteq 1..MaxLogged
    /\ \A i \in DOMAIN batches : batches[i] \subseteq Days
    /\ upload \in [at : {"idle", "next", "put"}, day : Days, rest : SUBSET Days]

\* A line is waiting, in the buffer or in the file of its day, or in the bucket,
\* until the broker stops with it in no file, whatever the upload, its failures
\* and midnight do; the days that got a line when they were over, or that were
\* closed by a line of the day before, may lose lines.
LinesAreKept ==
    \A i \in DOMAIN dated :
        LET d == dated[i] IN
        \/ \E w \in Loggers : logger[w].line = i
        \/ d \in DOMAIN open /\ i \in open[d].buffer
        \/ d \in DOMAIN disk /\ i \in disk[d]
        \/ d \in DOMAIN bucket /\ i \in bucket[d]
        \/ i \in dropped \/ d \in late

\* The files of a day that is over do not stay on the local disk.
OldDaysAreUploaded ==
    \A d \in Days : (d < today /\ d \in DOMAIN disk) ~> d \notin DOMAIN disk

\* The event log keeps its lines through rotation, failed uploads and restarts,
\* but for the days that lines reached late.
LogInv == LogTypeOK /\ LinesAreKept

=============================================================================
