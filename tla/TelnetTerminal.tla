--------------------------- MODULE TelnetTerminal ---------------------------
(* The telnet terminal of one call: bytes arrive from the caller's client in
   pieces of any size, a session reads a line or a key from them, and every
   read is raced against a signal from another task and against the idle
   deadline.  A signal drops the codec in the middle of what it was doing and
   the read starts again from what is kept outside it: the line so far and the
   byte that was looked at and not used.

   A definition called a mistake is a near copy of the one after it that the
   properties are tried against; the model uses the second of the two.

   A byte is one of a few representatives: what the codec tells apart.  A
   character is the sequence of the bytes it is stored as.                  *)
EXTENDS Naturals, SequencesExt, FiniteSetsExt

CONSTANTS Clients,    \* bound: the bytes clients send, and how many of them
                      \* may be on record at once
          MaxLine,    \* MAX_TERMINAL_LINE_BYTES, 4096
          CsiLimit    \* bytes of a control sequence taken with its ESC, 8

VARIABLES queue,      \* bytes that have arrived and nobody has read
          closed,     \* has the client hung up
          pushback,   \* at most one byte, looked at and put back
          line_buf,   \* the characters of the line so far
          read,       \* the read in progress
          result,     \* what the last read returned
          typed       \* history: the bytes from the first one of this read on
vars == <<queue, closed, pushback, line_buf, read, result, typed>>

CR == "CR"    LF == "LF"    NUL == "NUL"   BS == "BS"    DEL == "DEL"
ESC == "ESC"  ETX == "ETX"  IAC == "IAC"   SB == "SB"    SE == "SE"
WILL == "WILL"                              \* and WONT, DO, DONT
Printable == {"[", "1", "a"}                \* a bracket, a digit, a letter
Finals == {"[", "a"}                        \* what ends a control sequence
Lead2 == "LEAD2"  Lead3 == "LEAD3"  Cont == "CONT"
Width == [b \in {Lead2, Lead3, SE} |->      \* SE is also a lead byte of four
            IF b = Lead2 THEN 2 ELSE IF b = Lead3 THEN 3 ELSE 4]
Leads == DOMAIN Width
High == Leads \cup {Cont, WILL, SB}
AllBytes == Printable \cup High \cup {CR, LF, NUL, BS, DEL, ESC, ETX, IAC}

Latin1(b) == <<"latin1", b>>
\* The bytes of a line.
Size(chars) == FoldLeft(LAMBDA n, c : n + Len(c), 0, chars)

NoResult == [kind |-> "none"]
Idle == [mode |-> "none"]
Fresh(mode) == [mode |-> mode, stage |-> "text", pending |-> <<>>, byte |-> "none",
                then |-> "text", left |-> "none", clipped |-> FALSE, expired |-> FALSE]

Init == /\ queue = <<>> /\ closed = FALSE /\ pushback = <<>> /\ line_buf = <<>>
        /\ read = Idle /\ result = NoResult /\ typed = <<>>

Reading(mode) == read.mode = mode
\* The text of another task is being written; or the read races.
Delivering == ~ Reading("none") /\ read.stage = "delivery"
Races == ~ Reading("none") /\ ~ Delivering
Over == result.kind \in {"Eof", "IdleTimedOut", "Error"}
Unread == pushback \o queue

----------------------------------------------------------------------------
(* The client, and the session between two reads.                           *)

Arrive(b) == /\ ~ closed /\ ~ Over
             /\ \E c \in Clients : Len(typed) < c.most /\ Range(Append(typed, b)) \subseteq c.bytes
             /\ queue' = Append(queue, b) /\ typed' = Append(typed, b)
             /\ UNCHANGED <<closed, pushback, line_buf, read, result>>

HangUp == /\ ~ closed /\ closed' = TRUE
          /\ UNCHANGED <<queue, pushback, line_buf, read, result, typed>>

\* A session reads again until it was told that nothing more will come.
Begin(mode) == /\ Reading("none") /\ ~ Over
               /\ read' = Fresh(mode) /\ result' = NoResult
               /\ typed' = Unread
               /\ UNCHANGED <<queue, closed, pushback, line_buf>>

\* The byte the next read would begin with, if it is there.
FirstOf(bytes) == IF bytes = <<>> THEN "none" ELSE Head(bytes)

\* The read is over; what it consumed is all that is left neither in the
\* socket nor in the slot.
Return(kind, value) ==
    LET left == pushback' \o queue' IN
    /\ read' = Idle
    /\ result' = [kind |-> kind, value |-> value, clipped |-> read.clipped,
                  consumed |-> SubSeq(typed, 1, Len(typed) - Len(left)),
                  left |-> IF read.then = "line" THEN read.left ELSE FirstOf(left)]
    /\ UNCHANGED <<closed, typed>>

Ends(kind) == UNCHANGED <<queue, pushback, line_buf>> /\ Return(kind, <<>>)

----------------------------------------------------------------------------
(* What every read of a byte does.                                          *)

\* read_one: the slot first, then the socket.  Afterwards the slot is empty.
ReadOne == pushback' = <<>> /\ queue' = Tail(Unread)

AtByte(stage, b) == read.mode # "none" /\ read.stage = stage /\ Unread # <<>> /\ b = Head(Unread)

Stays(next) == /\ read' = next
               /\ UNCHANGED <<closed, line_buf, result, typed>>

\* try_consume_cr_trailer: nobody waits for the byte after a CR.
TakeTrailer(rest) ==
    \/ rest = <<>> /\ queue' = rest /\ pushback' = <<>>
    \/ rest # <<>> /\ Head(rest) \in {LF, NUL} /\ queue' = Tail(rest) /\ pushback' = <<>>
    \/ rest # <<>> /\ Head(rest) \notin {LF, NUL}
         /\ queue' = Tail(rest) /\ pushback' = <<Head(rest)>>

\* swallow_buffered_csi: how many of the bytes that are there follow the ESC.
CsiBody(rest) ==
    LET body == Tail(rest)
        finals == {i \in DOMAIN body : body[i] \in Finals}
    IN Min(finals \cup {Len(body), CsiLimit})

TakeSequence(rest) ==
    \/ rest = <<>> /\ queue' = rest /\ pushback' = <<>>
    \/ rest # <<>> /\ Head(rest) = "["
         /\ queue' = SubSeq(rest, CsiBody(rest) + 2, Len(rest)) /\ pushback' = <<>>
    \/ rest # <<>> /\ Head(rest) # "["
         /\ queue' = Tail(rest) /\ pushback' = <<Head(rest)>>

\* skip_iac: the bytes of a telnet command are read and dropped.
SkipStep(stage, b) ==
    CASE stage = "command" -> IF b = WILL THEN "option" ELSE IF b = SB THEN "sub" ELSE "text"
      [] stage = "option"  -> "text"
      [] stage = "sub"     -> IF b = IAC THEN "subiac" ELSE "sub"
      [] stage = "subiac"  -> IF b = SE THEN "text" ELSE "sub"

SkipIac == \E stage \in {"command", "option", "sub", "subiac"}, b \in AllBytes :
             /\ AtByte(stage, b) /\ ReadOne
             /\ Stays([read EXCEPT !.stage = SkipStep(stage, b)])

----------------------------------------------------------------------------
(* read_telnet_line.  Each echo is awaited: a step that echoes leaves the
   codec there, and Echoed takes it on.                                     *)

\* commit_accepted: the line grows, or the read fails and with it the call.
Commit(char, next) ==
    \/ /\ Size(line_buf) + Len(char) <= MaxLine
       /\ line_buf' = Append(line_buf, char)
       /\ read' = next
       /\ UNCHANGED <<closed, result, typed>>
    \/ /\ Size(line_buf) + Len(char) > MaxLine
       /\ Return("Error", <<>>) /\ UNCHANGED line_buf

Echoing(then) == [read EXCEPT !.stage = "echo", !.then = then, !.byte = "none"]

EndOfLine(left) == [Echoing("line") EXCEPT !.left = FirstOf(left)]

\* A byte that is not part of a character begun before it; rest is what the
\* codec has not read.
LineByte(b, rest) ==
    \/ b = CR /\ TakeTrailer(rest) /\ Stays(EndOfLine(pushback' \o queue'))
    \/ b = LF /\ queue' = rest /\ pushback' = <<>> /\ Stays(EndOfLine(rest))
    \/ /\ b # CR /\ b # LF /\ queue' = rest /\ pushback' = <<>>
       /\ \/ b = IAC /\ Stays([read EXCEPT !.stage = "command", !.byte = "none"])
          \/ /\ b \in {BS, DEL} /\ line_buf # <<>>
             /\ line_buf' = Front(line_buf) /\ read' = Echoing("text")
             /\ UNCHANGED <<closed, result, typed>>
          \/ /\ b \in Printable \/ (b = DEL /\ line_buf = <<>>)
             /\ Commit(<<b>>, Echoing("text"))
          \/ b \in Leads /\ Stays([read EXCEPT !.stage = "text", !.pending = <<b>>, !.byte = "none"])
          \/ b \in High \ Leads /\ Commit(Latin1(b), Echoing("text"))
          \/ /\ b \in {NUL, ESC, ETX} \/ (b = BS /\ line_buf = <<>>)
             /\ Stays([read EXCEPT !.stage = "text", !.byte = "none"])

\* The next byte of a character that has been begun.
ContinueChar(b) ==
    LET char == Append(read.pending, b) IN
    /\ ReadOne
    /\ IF Len(char) = Width[Head(char)]
         THEN Commit(char, [Echoing("text") EXCEPT !.pending = <<>>])
         ELSE Stays([read EXCEPT !.pending = char])

ReadLineByte ==
    \E b \in AllBytes :
      /\ Reading("line") /\ AtByte("text", b)
      /\ \/ read.pending = <<>> /\ LineByte(b, Tail(Unread))
         \/ read.pending # <<>> /\ b = Cont /\ ContinueChar(b)
         \/ /\ read.pending # <<>> /\ b # Cont
            /\ ReadOne /\ Stays([read EXCEPT !.stage = "flush", !.byte = b])

\* flush_pending_latin1, one byte and its echo at a time, and then the byte
\* that cut the character short.
Flush ==
    /\ Reading("line") /\ read.stage = "flush"
    /\ \/ /\ read.pending # <<>>
          /\ UNCHANGED <<queue, pushback>>
          /\ Commit(Latin1(Head(read.pending)),
                    [read EXCEPT !.stage = "echo", !.then = "flush", !.pending = Tail(@)])
       \/ read.pending = <<>> /\ LineByte(read.byte, Unread)

Echoed ==
    /\ Reading("line") /\ read.stage = "echo"
    /\ \/ /\ read.then # "line"
          /\ Stays([read EXCEPT !.stage = read.then]) /\ UNCHANGED <<queue, pushback>>
       \/ /\ read.then = "line"
          /\ UNCHANGED <<queue, pushback>>
          /\ line_buf' = <<>> /\ Return("Line", line_buf)

\* The echo to a client that has gone fails, and with it the call.
EchoFails == Reading("line") /\ read.stage = "echo" /\ closed /\ Ends("Error")

\* The end of the stream.  A line without an end is returned as a line; a
\* telnet command without one ends the call.
LineEof ==
    /\ Reading("line") /\ closed /\ Unread = <<>>
    /\ \/ /\ read.stage \in {"text", "option"}
          /\ UNCHANGED <<queue, pushback>>
          /\ line_buf' = <<>>
          /\ LET line == line_buf \o [i \in DOMAIN read.pending |-> Latin1(read.pending[i])]
             IN IF line = <<>> THEN Return("Eof", <<>>) ELSE Return("Line", line)
       \/ read.stage \in {"command", "sub", "subiac"} /\ Ends("Eof")

----------------------------------------------------------------------------
(* read_telnet_key, which echoes nothing.                                   *)

KeyOf(b) == CASE b = CR         -> "Enter"
              [] b \in {BS, DEL} -> "Backspace"
              [] b = ETX        -> "CtrlC"
              [] b \in Printable -> b
              [] OTHER          -> "Other"

ReadKeyByte ==
    \E b \in AllBytes :
      /\ Reading("key") /\ AtByte("text", b)
      /\ \/ b = IAC /\ ReadOne /\ Stays([read EXCEPT !.stage = "command"])
         \/ b = LF /\ ReadOne /\ Stays(read)
         \/ b \notin {IAC, LF} /\ UNCHANGED line_buf
              /\ \/ b = CR /\ TakeTrailer(Tail(Unread))
                 \/ b = ESC /\ TakeSequence(Tail(Unread))
                 \/ b \notin {CR, ESC} /\ ReadOne
              /\ Return("Key", KeyOf(b))

KeyEof == Reading("key") /\ Races /\ closed /\ Unread = <<>> /\ Ends("Eof")

----------------------------------------------------------------------------
(* The races of read_line and read_key.                                     *)

\* What is lost with the codec: a character or a command begun, a byte read
\* but not used, an Enter whose echo was not written.
Loses == \/ read.pending # <<>>
         \/ read.stage \in {"command", "option", "sub", "subiac", "flush"}
         \/ read.stage = "echo" /\ read.then # "text"

\* A signal drops the codec and is written to the client; until that write
\* comes back nothing else is polled.
Interrupted == [Fresh(read.mode) EXCEPT !.stage = "delivery", !.expired = read.expired,
                                        !.clipped = read.clipped \/ Loses]

\* Mistake: the line is dropped with the codec.
DeliverAndForget == /\ Races /\ line_buf' = <<>> /\ read' = Interrupted
                    /\ UNCHANGED <<queue, closed, pushback, result, typed>>
Deliver == /\ Races
           /\ Stays(Interrupted) /\ UNCHANGED <<queue, pushback>>

\* Mistake: every signal gives the caller the whole time again.
DeliveredRearmed == /\ Delivering
                    /\ Stays([read EXCEPT !.stage = "text", !.expired = FALSE])
                    /\ UNCHANGED <<queue, pushback>>
Delivered == /\ Delivering
             /\ Stays([read EXCEPT !.stage = "text"]) /\ UNCHANGED <<queue, pushback>>

\* The write to a client that has gone fails, and with it the read.
DeliveryFails == Delivering /\ closed /\ Ends("Error")

\* The deadline is set once, when the read begins.
Expire == /\ ~ Reading("none") /\ ~ read.expired
          /\ Stays([read EXCEPT !.expired = TRUE]) /\ UNCHANGED <<queue, pushback>>

TimeOut == /\ Races /\ read.expired
           /\ UNCHANGED <<queue, pushback>>
           /\ line_buf' = IF Reading("line") THEN <<>> ELSE line_buf
           /\ Return("IdleTimedOut", <<>>)

Next == \/ \E b \in AllBytes : Arrive(b)
        \/ HangUp
        \/ \E mode \in {"line", "key"} : Begin(mode)
        \/ SkipIac \/ ReadLineByte \/ Flush \/ Echoed \/ EchoFails \/ LineEof
        \/ ReadKeyByte \/ KeyEof
        \/ Deliver \/ Delivered \/ DeliveryFails \/ Expire \/ TimeOut

\* Time passes, and select!, which draws among the branches that are ready,
\* cannot pass over an expired deadline for ever.
Spec == Init /\ [][Next]_vars /\ WF_vars(Expire) /\ SF_vars(TimeOut)

----------------------------------------------------------------------------
(* What a client that types these bytes may expect: telnet commands are cut
   out first, then characters are formed, and then the line is edited.      *)

Gap == <<"gap">>      \* where a telnet command was
Cut == <<"cut">>      \* where one was begun

\* Where the subnegotiation that runs at i ends; IAC IAC is a byte of it.
RECURSIVE SubEnd(_, _)
SubEnd(s, i) == IF i >= Len(s) THEN Len(s) + 1
                ELSE IF s[i] # IAC THEN SubEnd(s, i + 1)
                ELSE IF s[i + 1] = SE THEN i + 1 ELSE SubEnd(s, i + 2)

CommandEnd(s) == IF Len(s) < 2 THEN 2
                 ELSE IF s[2] = WILL THEN 3
                 ELSE IF s[2] = SB THEN SubEnd(s, 3) ELSE 2

RECURSIVE Tokens(_)
Tokens(s) ==
    IF s = <<>> THEN <<>>
    ELSE IF Head(s) = IAC
      THEN IF CommandEnd(s) > Len(s) THEN <<Cut>>
           ELSE <<Gap>> \o Tokens(SubSeq(s, CommandEnd(s) + 1, Len(s)))
    ELSE IF Head(s) \in Leads /\ Width[Head(s)] <= Len(s)
              /\ \A i \in 2 .. Width[Head(s)] : s[i] = Cont
      THEN <<SubSeq(s, 1, Width[Head(s)])>> \o Tokens(SubSeq(s, Width[Head(s)] + 1, Len(s)))
    ELSE IF Head(s) \in High THEN <<Latin1(Head(s))>> \o Tokens(Tail(s))
    ELSE <<<<Head(s)>>>> \o Tokens(Tail(s))

\* The line after a token.  A DEL that finds nothing to delete is typed.
Edited(line, token) ==
    CASE token \in {Gap, <<NUL>>, <<ESC>>, <<ETX>>} -> line
      [] token \in {<<BS>>, <<DEL>>} /\ line # <<>> -> Front(line)
      [] token = <<BS>> /\ line = <<>>              -> line
      [] OTHER                                      -> Append(line, token)

LineEnds == {<<<<CR>>>>, <<<<CR>>, <<LF>>>>, <<<<CR>>, <<NUL>>>>, <<<<LF>>>>}

IsLine(bytes, line) ==
    LET tokens == Tokens(bytes)
        Text(n) == SubSeq(tokens, 1, n)
        End(n) == SubSeq(tokens, n + 1, Len(tokens))
    IN \E n \in 0 .. Len(tokens) :
         /\ \A i \in 1 .. n : tokens[i] \notin {<<CR>>, <<LF>>}
         /\ End(n) \in LineEnds \/ (closed /\ End(n) \in {<<>>, <<Cut>>})
         /\ line = FoldLeft(Edited, <<>>, Text(n))

\* A key is one byte, an Enter with its trailer, or an ESC with its sequence,
\* after any telnet commands and line feeds.
IsKey(bytes, key) ==
    \E n \in 0 .. Len(bytes) :
      LET before == Range(Tokens(SubSeq(bytes, 1, n)))
          press == SubSeq(bytes, n + 1, Len(bytes))
          sequence == SubSeq(press, 3, Len(press))
      IN /\ before \subseteq {Gap, <<LF>>}
         /\ press # <<>> /\ Head(press) \notin {IAC, LF}
         /\ key = KeyOf(Head(press))
         /\ \/ Len(press) = 1
            \/ Head(press) = CR /\ Len(press) = 2 /\ press[2] \in {LF, NUL}
            \/ /\ Head(press) = ESC /\ press[2] = "[" /\ Len(sequence) <= CsiLimit
               /\ \A i \in 1 .. Len(sequence) - 1 : sequence[i] \notin Finals

----------------------------------------------------------------------------
(* Properties.                                                              *)

\* What a read returns is what the bytes it consumed mean, to the byte: none
\* is lost, read twice or left in the line from an earlier read, wherever
\* signals interrupted the codec, as long as none cut through a character, a
\* telnet command or an Enter; and no line outgrows its limit (read_line,
\* read_telnet_line, read_telnet_key, push_utf8_char).  One press of Enter or of
\* an arrow is one event: what had arrived with the CR or the ESC is not left to
\* be a line or a key of its own (try_consume_cr_trailer, swallow_buffered_csi).
DecodedAsTyped ==
    /\ result.kind = "Line" /\ ~ result.clipped => IsLine(result.consumed, result.value)
    /\ result.kind = "Key" /\ ~ result.clipped => IsKey(result.consumed, result.value)
    /\ Size(line_buf) <= MaxLine
    /\ result.kind = "Line" \/ (result.kind = "Key" /\ result.value = "Enter") =>
         (Last(result.consumed) = CR => result.left \notin {LF, NUL})
    /\ result.kind = "Key" /\ ESC \notin Range(Front(result.consumed)) =>
         (Last(result.consumed) = ESC => result.left # "[")

\* Every read ends, if only by its deadline: signals that keep coming do not
\* put it off (the pinned sleep of read_line and read_key).  What can is a
\* signal whose own write never comes back, for that write is not raced.
ReadsEnd == []<>(~ Delivering) => (~ Reading("none") ~> Reading("none"))
=============================================================================
