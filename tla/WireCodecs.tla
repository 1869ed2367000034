----------------------------- MODULE WireCodecs -----------------------------
(* What lies between the bytes of a connection and what the program reads:  *)
(* the telnet bytes of a client, stripped of their commands (IacParser) and *)
(* cut into lines (try_pop_line); the frames of the shard link (FrameReader *)
(* and FrameWriter); and the body of an ATTACH (attach_body, parse_req).    *)
(* Bytes arrive in reads of any length.  Numbers have one binary digit in a *)
(* byte of a frame's header, and a length byte its own small maximum.       *)
EXTENDS Naturals, Sequences, SequencesExt

CONSTANTS MaxTyped,    \* bound: things the client sends
          MaxFrames,   \* bound: frames the writer writes
          FrameLimit,  \* max_frame_len, below 4
          Max8, Max16  \* the largest length a u8 and a u16 hold

ASSUME CodecBounds ==
    /\ {MaxTyped, MaxFrames, Max8, Max16} \subseteq Nat /\ FrameLimit \in 1 .. 2

VARIABLES
    typed,    \* history: what the client sent
    bytes,    \* bytes not yet read
    iac,      \* the parser: its state, data and replies
    linebuf, popped,
    strayNul, \* history: a read ended between the CR and the NUL of a line's end
    written,  \* history: payloads written
    pipe,     \* bytes of frames on their way
    pipeOpen, frameBuf,
    frames,   \* payloads read
    frameEnd, \* how reading ended, "no" while it goes on
    body      \* an ATTACH to encode

telnetVars == <<typed, bytes, iac, linebuf, popped, strayNul>>
frameVars  == <<written, pipe, pipeOpen, frameBuf, frames, frameEnd>>
codecVars  == <<telnetVars, frameVars, body>>

-----------------------------------------------------------------------------
(* Telnet.  Anything that is no command byte is the letter "x".             *)

\* What a client sends: characters, the ends of lines, and commands, whose
\* option and payload may look like commands.
Character == [is : {"char"}, b : {"x", "SE", "IAC"}]
LineEnd   == [is : {"end"}, b : {<<"CR", "LF">>, <<"CR", "NUL">>, <<"LF">>}]
Command   == [is : {"ask"}, b : {<<"DO", "x">>, <<"WILL", "IAC">>, <<"WONT", "SB">>}]
             \cup [is : {"sub"}, b : {<<"x", "SE">>, <<"IAC", "SE", "LF">>,
                             <<"x", "IAC", "IAC">>}]
             \cup [is : {"nop"}, b : {<<>>}]
Sent      == Character \cup LineEnd \cup Command

OnTheLine(m) ==
    CASE m.is = "char" -> IF m.b = "IAC" THEN <<"IAC", "IAC">> ELSE <<m.b>>
      [] m.is = "end"  -> m.b
      [] m.is = "ask"  -> <<"IAC">> \o m.b
      [] m.is = "sub"  -> <<"IAC", "SB">> \o m.b \o <<"IAC", "SE">>
      [] m.is = "nop"  -> <<"IAC", "x">>

Refusal(cmd, opt) == CASE cmd = "DO"   -> << <<"WONT", opt>> >>
                       [] cmd = "WILL" -> << <<"DONT", opt>> >>
                       [] OTHER        -> <<>>

To(st, mode)   == [st EXCEPT !.mode = mode]
Datum(st, b)   == [To(st, "data") EXCEPT !.data = Append(@, b)]

\* Fault: the option of a subnegotiation is taken for its payload.
ParseByteNoOption(st, b) ==
    CASE st.mode = "data"   -> IF b = "IAC" THEN To(st, "iac") ELSE Datum(st, b)
      [] st.mode = "iac"    -> CASE b = "IAC" -> Datum(st, b)
                                 [] b \in {"DO", "DONT", "WILL", "WONT"} -> To(st, b)
                                 [] b = "SB"  -> To(st, "sub")
                                 [] OTHER     -> To(st, "data")
      [] st.mode = "sub"    -> To(st, IF b = "IAC" THEN "subiac" ELSE "sub")
      [] st.mode = "subiac" -> To(st, IF b = "SE" THEN "data" ELSE "sub")
      [] OTHER -> [To(st, "data") EXCEPT !.replies = @ \o Refusal(st.mode, b)]

\* One byte of IacParser::parse.
ParseByte(st, b) ==
    CASE st.mode = "data"   -> IF b = "IAC" THEN To(st, "iac") ELSE Datum(st, b)
      [] st.mode = "iac"    -> CASE b = "IAC" -> Datum(st, b)
                                 [] b \in {"DO", "DONT", "WILL", "WONT"} -> To(st, b)
                                 [] b = "SB"  -> To(st, "option")
                                 [] OTHER     -> To(st, "data")
      [] st.mode = "option" -> To(st, "sub")
      [] st.mode = "sub"    -> To(st, IF b = "IAC" THEN "subiac" ELSE "sub")
      [] st.mode = "subiac" -> To(st, IF b = "SE" THEN "data" ELSE "sub")
      [] OTHER -> [To(st, "data") EXCEPT !.replies = @ \o Refusal(st.mode, b)]

\* IacParser::parse: all the bytes of a read.
ParseBytes(st, q) ==
    LET parsed[i \in 0 .. Len(q)] ==
            IF i = 0 THEN st ELSE ParseByte(parsed[i - 1], q[i])
    IN  parsed[Len(q)]

\* try_pop_line: a line goes with its end, the second byte of it if it is
\* there, and is passed on if it is not empty.
Eols(buf) == {i \in 1 .. Len(buf) : buf[i] \in {"CR", "LF"}}
PopLine(st) ==
    LET buf  == st.left
        i    == CHOOSE i \in Eols(buf) : \A j \in Eols(buf) : i <= j
        both == buf[i] = "CR" /\ i < Len(buf) /\ buf[i + 1] \in {"LF", "NUL"} IN
    IF Eols(buf) = {} THEN st
    ELSE [lines |-> IF i = 1 THEN st.lines ELSE Append(st.lines, SubSeq(buf, 1, i - 1)),
          left  |-> SubSeq(buf, IF both THEN i + 2 ELSE i + 1, Len(buf))]

\* Over and over: a buffer has no more lines than bytes.
PopLines(buf) ==
    LET pops[k \in 0 .. Len(buf)] ==
            IF k = 0 THEN [lines |-> <<>>, left |-> buf] ELSE PopLine(pops[k - 1])
    IN  pops[Len(buf)]

TypeIn(m) ==
    /\ Len(typed) < MaxTyped
    /\ typed' = Append(typed, m) /\ bytes' = bytes \o OnTheLine(m)
    /\ UNCHANGED <<iac, linebuf, popped, strayNul, frameVars, body>>

\* One read of the connection's loop.
ReadSome(n) ==
    LET parsed == ParseBytes([iac EXCEPT !.data = <<>>], SubSeq(bytes, 1, n))
        pop    == PopLines(linebuf \o parsed.data) IN
    /\ n \in 1 .. Len(bytes) /\ bytes' = SubSeq(bytes, n + 1, Len(bytes))
    /\ iac' = parsed /\ linebuf' = pop.left /\ popped' = popped \o pop.lines
    /\ strayNul' = (\/ strayNul
                    \/ n < Len(bytes) /\ bytes[n] = "CR" /\ bytes[n + 1] = "NUL")
    /\ UNCHANGED <<typed, frameVars, body>>

-----------------------------------------------------------------------------
(* Frames.  The payload of the k-th frame repeats one byte.                 *)
Payload(k, n) == [i \in 1 .. n |-> k % 2]

WriteFrame(n) ==
    LET p == Payload(Len(written) + 1, n) IN
    /\ pipeOpen /\ Len(written) < MaxFrames
    /\ written' = Append(written, p) /\ pipe' = pipe \o <<n \div 2, n % 2>> \o p
    /\ UNCHANGED <<telnetVars, pipeOpen, frameBuf, frames, frameEnd, body>>

\* The connection ends; of what was on its way some is still delivered.
PipeCut ==
    /\ pipeOpen /\ pipeOpen' = FALSE
    /\ \E n \in 0 .. Len(pipe) : pipe' = SubSeq(pipe, 1, n)
    /\ UNCHANGED <<telnetVars, written, frameBuf, frames, frameEnd, body>>

FrameLen == 2 * frameBuf[1] + frameBuf[2]
HasHeader == Len(frameBuf) >= 2
HasFrame == HasHeader /\ FrameLen <= FrameLimit /\ Len(frameBuf) >= 2 + FrameLen

\* read_frame, which may be dropped at its await: what it read stays.
TakeFrame ==
    /\ frameEnd = "no" /\ HasFrame
    /\ frames' = Append(frames, SubSeq(frameBuf, 3, 2 + FrameLen))
    /\ frameBuf' = SubSeq(frameBuf, 3 + FrameLen, Len(frameBuf))
    /\ UNCHANGED <<telnetVars, written, pipe, pipeOpen, frameEnd, body>>

RefuseFrame ==
    /\ frameEnd = "no" /\ HasHeader /\ FrameLen > FrameLimit /\ frameEnd' = "too large"
    /\ UNCHANGED <<telnetVars, written, pipe, pipeOpen, frameBuf, frames, body>>

ReadBuf ==
    /\ frameEnd = "no" /\ ~HasFrame /\ ~(HasHeader /\ FrameLen > FrameLimit)
    /\ \/ \E n \in 1 .. Len(pipe) :
             /\ frameBuf' = frameBuf \o SubSeq(pipe, 1, n)
             /\ pipe' = SubSeq(pipe, n + 1, Len(pipe)) /\ UNCHANGED frameEnd
       \/ /\ pipe = <<>> /\ ~pipeOpen /\ UNCHANGED <<pipe, frameBuf>>
          /\ frameEnd' = IF frameBuf = <<>> THEN "clean" ELSE "torn"
    /\ UNCHANGED <<telnetVars, written, pipeOpen, frames, body>>

-----------------------------------------------------------------------------
(* The body of an ATTACH: flags, then each part behind its length, the name *)
(* last.  A part is a sequence of one repeated byte; a body has at most one *)
(* token and one build.                                                     *)
Repeat(b, lens) == {[i \in 1 .. n |-> b] : n \in lens}
Build  == {<<r, c, s, p>> : r \in Repeat(1, 0 .. Max8 + 1), c \in Repeat(2, 0 .. Max8),
                            s \in Repeat(0, 0 .. 1), p \in Repeat(1, 0 .. Max8 + 1)}
Bodies == [auth   : {<<>>} \cup {<<t>> : t \in Repeat(0, 0 .. Max16 + 1)},
           build  : {<<>>} \cup Build,
           player : Repeat(2, 1 .. 2)]

Cut8(f)    == SubSeq(f, 1, IF Len(f) > Max8 THEN Max8 ELSE Len(f))
Counted(f) == <<Len(f)>> \o f

\* A token too long for its length is left out, and its flag with it.
SendsToken(x) == IF x.auth = <<>> THEN FALSE ELSE Len(x.auth[1]) <= Max16

\* The flags say which parts follow.
Encoded(x) ==
    << <<SendsToken(x), x.build # <<>> >> >>
    \o (IF SendsToken(x) THEN Counted(x.auth[1]) ELSE <<>>)
    \o (IF x.build = <<>> THEN <<>>
        ELSE Counted(Cut8(x.build[1])) \o Counted(Cut8(x.build[2]))
             \o Counted(Cut8(x.build[3])) \o Counted(Cut8(x.build[4])))
    \o x.player

\* parse_req reads part after part; one that ends beyond the body is an error.
NextPart(st) ==
    IF ~st.ok \/ st.at > Len(st.of) THEN [st EXCEPT !.ok = FALSE]
    ELSE LET last == st.at + st.of[st.at] IN
         IF last > Len(st.of) THEN [st EXCEPT !.ok = FALSE]
         ELSE [st EXCEPT !.at = last + 1,
                         !.parts = Append(@, SubSeq(st.of, st.at + 1, last))]

NextParts(st, n) ==
    LET read[k \in 0 .. n] == IF k = 0 THEN st ELSE NextPart(read[k - 1])
    IN  read[n]

Parsed(e) ==
    LET start == [of |-> e, at |-> 2, ok |-> TRUE, parts |-> <<>>]
        k     == IF e[1][1] THEN 1 ELSE 0
        read  == NextParts(start, IF e[1][2] THEN k + 4 ELSE k)
    IN  [ok     |-> read.ok,
         auth   |-> SubSeq(read.parts, 1, k),
         build  |-> SubSeq(read.parts, k + 1, Len(read.parts)),
         player |-> SubSeq(e, read.at, Len(e))]

-----------------------------------------------------------------------------
CodecInit ==
    /\ typed = <<>> /\ bytes = <<>> /\ linebuf = <<>> /\ popped = <<>> /\ strayNul = FALSE
    /\ iac = [mode |-> "data", data |-> <<>>, replies |-> <<>>]
    /\ written = <<>> /\ pipe = <<>> /\ pipeOpen = TRUE /\ frameBuf = <<>>
    /\ frames = <<>> /\ frameEnd = "no" /\ body \in Bodies

TelnetNext ==
    (\E m \in Sent : TypeIn(m)) \/ (\E n \in 1 .. Len(bytes) : ReadSome(n))
FrameNext ==
    (\E n \in 0 .. 3 : WriteFrame(n)) \/ PipeCut \/ TakeFrame \/ RefuseFrame \/ ReadBuf

-----------------------------------------------------------------------------
\* What the client meant: the lines, without the empty ones, the one begun
\* last, and what its requests are answered.
MeantBy(st, m) ==
    CASE m.is = "char" -> [st EXCEPT !.line = Append(@, m.b)]
      [] m.is = "end"  -> [st EXCEPT !.line = <<>>,
                               !.lines = IF st.line = <<>> THEN @ ELSE Append(@, st.line)]
      [] m.is = "ask"  -> [st EXCEPT !.replies = @ \o Refusal(m.b[1], m.b[2])]
      [] OTHER -> st
Meant(sent) ==
    LET meant[i \in 0 .. Len(sent)] ==
            IF i = 0 THEN [line |-> <<>>, lines |-> <<>>, replies |-> <<>>]
            ELSE MeantBy(meant[i - 1], sent[i])
    IN  meant[Len(sent)]

(* However the bytes are cut into reads, what is read is the lines the       *)
(* client typed, with every command taken out and every request refused.     *)
(* The exception is the code's: a NUL read after the CR it belongs to starts *)
(* the next line.                                                            *)
LinesAreTyped ==
    bytes = <<>> =>
        /\ iac.mode = "data" /\ iac.replies = Meant(typed).replies
        /\ ~strayNul => popped = Meant(typed).lines /\ linebuf = Meant(typed).line

(* A frame is read whole or not at all, in order, wherever the reads and the *)
(* end of the connection fall; only a frame beyond the limit is refused.     *)
FramesArriveWhole ==
    /\ IsPrefix(frames, written)
    /\ frameEnd = "too large" => Len(written[Len(frames) + 1]) > FrameLimit

(* The shard reads of an ATTACH what the broker put in, cut to what a length *)
(* can say, and without a token that is longer than that.                    *)
AttachReadsBack ==
    Parsed(Encoded(body)) =
        [ok     |-> TRUE,
         auth   |-> IF body.auth # <<>> /\ Len(body.auth[1]) > Max16 THEN <<>>
                    ELSE body.auth,
         build  |-> [i \in 1 .. Len(body.build) |-> Cut8(body.build[i])],
         player |-> body.player]

(* However a stream is cut into reads, what is read is what was written:    *)
(* telnet lines, frames, and the body of an ATTACH.                         *)
CodecsAgree == LinesAreTyped /\ FramesArriveWhole /\ AttachReadsBack

=============================================================================
