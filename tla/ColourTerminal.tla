--------------------------- MODULE ColourTerminal ---------------------------
(* The terminal the session holds: the telnet terminal behind a filter that
   takes colour sequences out of what is written while colour is off.  Reads
   go through untouched.  The menu's M command turns the flag.              *)
EXTENDS TelnetTerminal

CONSTANT Outputs      \* bound: what the session writes

VARIABLES ansi_colour, \* the live flag
          shown        \* the last write, until it is flushed
colourVars == <<vars, ansi_colour, shown>>

Params == {"0", "1", ";"}
NoWrite == [sent |-> <<>>, wire |-> <<>>]

\* strip_ansi_sgr: the first byte from i on that is not a parameter, and
\* whether a colour sequence starts at i.
AfterParams(s, i) == Min({j \in i .. Len(s) : s[j] \notin Params} \cup {Len(s) + 1})
\* Mistake: every control sequence with parameters only counts as colour.
StartsCsi(s, i) == /\ s[i] = ESC /\ i < Len(s) /\ s[i + 1] = "[" /\ AfterParams(s, i + 2) <= Len(s)
StartsSgr(s, i) == /\ s[i] = ESC /\ i < Len(s) /\ s[i + 1] = "["
                   /\ AfterParams(s, i + 2) <= Len(s) /\ s[AfterParams(s, i + 2)] = "m"

Strip(s) ==
    LET From[i \in 1 .. Len(s) + 1] ==
          IF i > Len(s) THEN <<>>
          ELSE IF StartsSgr(s, i) THEN From[AfterParams(s, i + 2) + 1]
          ELSE <<s[i]>> \o From[i + 1]
    IN From[1]

\* Nothing is written while a read is in progress; a write is flushed before
\* the session reads.
Write == /\ shown = NoWrite /\ Reading("none") /\ typed = <<>> /\ ~ closed
         /\ \E bytes \in Outputs :
              shown' = [sent |-> bytes, wire |-> IF ansi_colour THEN bytes ELSE Strip(bytes)]
         /\ UNCHANGED <<vars, ansi_colour>>

Flushed == shown # NoWrite /\ shown' = NoWrite /\ UNCHANGED <<vars, ansi_colour>>

SetAnsiColour == /\ Reading("none") /\ shown = NoWrite /\ typed = <<>> /\ ~ closed
                 /\ ansi_colour' = ~ ansi_colour
                 /\ UNCHANGED <<vars, shown>>

ColourInit == Init /\ ansi_colour = TRUE /\ shown = NoWrite

\* Bound: reads, which do not look at the flag, are tried with colour on.
Reads == /\ shown = NoWrite /\ ansi_colour /\ UNCHANGED <<ansi_colour, shown>>
         /\ Next

ColourNext == Write \/ Flushed \/ SetAnsiColour \/ Reads

ColourSpec == ColourInit /\ [][ColourNext]_colourVars /\ WF_vars(Expire) /\ SF_vars(TimeOut)

\* With colour off the client gets every byte of what was written but those of
\* the colour sequences, in order; with colour on it gets everything
\* (ColourTerminal::write).
OnlyColourIsTaken ==
    LET s == shown.sent
        InSgr(k) == \E i \in 1 .. k : \E j \in k .. Len(s) :
                      /\ s[i] = ESC /\ j >= i + 2 /\ s[i + 1] = "[" /\ s[j] = "m"
                      /\ \A p \in i + 2 .. j - 1 : s[p] \in Params
        kept == SetToSortSeq({k \in DOMAIN s : ~ InSgr(k)}, <)
    IN shown.wire = IF ansi_colour THEN s ELSE [k \in DOMAIN kept |-> s[kept[k]]]
=============================================================================
