----------------------------- MODULE MCCallers ------------------------------
(* Conferences, MailDesk and the terminal for TLC: where callers are, what
   they write, and what becomes of their keys.  The three share no state
   here: a behaviour is about one of them, and the others rest.            *)
EXTENDS Conferences, MailDesk, TLC

CONSTANTS c1, c2

VARIABLES about,
          queue, closed, pushback, line_buf, read, result, typed, ansi_colour, shown
readvars == <<queue, closed, pushback, line_buf, read, result, typed>>
terminalvars == <<readvars, ansi_colour, shown>>

\* Conference 3 is missing from the catalogue; conference 4 has no base 2.
SparseCatalogue == (1 :> <<1, 2>>) @@ (2 :> <<1>>) @@ (4 :> <<3, 1>>)
NameTypes == (1 :> "Handle") @@ (2 :> "RealName") @@ (4 :> "Handle")
\* One who joins by number, one who walks and reads, one who scans and reads
\* while mail is posted and deleted, and two calls that edit flags.
Program(first, second, others) == (c1 :> first) @@ (c2 :> second) @@ (None :> others)
VisitsAndEdits == {Program({"join"}, {}, {}),
                   Program({"walk", "read"}, {}, {"post"}),
                   Program({"scan", "read"}, {}, {"post"}),
                   Program({"flags"}, {"flags", "scan"}, {})}
GrantSets == {{}, {1, 4}}
Nobody == Program({}, {}, {})
VisitsEditsAndNobody == VisitsAndEdits \cup {Nobody}
OnlyNobody == {Nobody}

----------------------------------------------------------------------------
Person(slot, level, newcomer, censored, member) ==
    [slot |-> slot, level |-> level, new_user |-> newcomer,
     censored |-> censored, member |-> member]
Callers == ("sysop" :> Person(1, 255, FALSE, FALSE, TRUE))
         @@ ("alice" :> Person(2, 30, FALSE, FALSE, TRUE))
         @@ ("bob"   :> Person(3, 30, FALSE, FALSE, FALSE))
         @@ ("carol" :> Person(4, 30, FALSE, TRUE, TRUE))
         @@ ("dave"  :> Person(5, 210, TRUE, FALSE, TRUE))

\* A plain line, one that takes twice its room in a file, a blank one; and
\* subjects within, at and above their limit.
WordSize == ("plain" :> 3) @@ ("quoted" :> 3) @@ ("" :> 1) @@ ("From:" :> 1) @@ ("--" :> 1)
       @@ ("short" :> 1) @@ ("full" :> 2) @@ ("long" :> 3) @@ ("Re:" :> 1) @@ ("Fwd:" :> 1)
WordSizeInFile == [WordSize EXCEPT !["quoted"] = 6, ![""] = 2]

Errand(callers, commands, addressing, names, subjects, words, lines, messages, restarts) ==
    [callers |-> callers, commands |-> commands, addressing |-> addressing, names |-> names,
     subjects |-> subjects, words |-> words, lines |-> lines, messages |-> messages,
     restarts |-> restarts]
\* Writing, under each rule of addressing; answering and forwarding what was
\* written; readdressing and deleting it.
DeskErrands == {Errand({"alice", "carol"}, {"E", "C"}, rule, {"", "EALL", "bob", "sysop"},
                   {"full", "long"}, {"plain", "quoted"}, 3, 1, 1) :
               rule \in {"IndividualOnly", "IndividualOrAll", "IndividualOrEall"}}
        \cup {Errand({"carol", "sysop"}, {"C", "FW"}, "Any", {"alice", "bob", "nobody"},
                      {"short"}, {"plain", ""}, 2, 2, 0),
               Errand({"alice", "carol", "dave"}, {"E", "RP"}, "Any", {"ALL", "alice"},
                      {"short", "full"}, {"plain", ""}, 2, 2, 0),
               Errand({"alice", "sysop"}, {"E", "R", "EH", "K", "FW"}, "Any", {"", "sysop", "nobody"},
                      {"short"}, {"plain"}, 1, 2, 0)}
NoErrand == Errand({}, {}, "Any", {}, {}, {}, 0, 0, 0)
ErrandsAndNone == DeskErrands \cup {NoErrand}
Sizing == {Errand({"sysop"}, {"E", "EH"}, "Any", {""}, {"short", "full"}, {"quoted"}, 2, 1, 1)}

----------------------------------------------------------------------------
\* A plain typist who corrects a line or ends it with CR LF or CR NUL, a
\* full-screen client, one that writes accents, one that negotiates, one that
\* describes its terminal.
Clients ==
    {[bytes |-> {"CR", "DEL", "a"}, most |-> 4], [bytes |-> {"CR", "LF", "NUL"}, most |-> 4],
     [bytes |-> {"ESC", "[", "1"}, most |-> 5], [bytes |-> {"CR", "ESC", "["}, most |-> 4],
     [bytes |-> {"CR", "BS", "LEAD3", "CONT"}, most |-> 4],
     [bytes |-> {"CR", "IAC", "WILL"}, most |-> 4], [bytes |-> {"IAC", "SB", "SE"}, most |-> 5],
     [bytes |-> {"CR", "IAC", "LEAD2"}, most |-> 4]}

\* Text with colour sequences, whole, cut and nested.
Outputs == BoundedSeq({"ESC", "[", "1", "m"}, 5)

MaxLine == 3
CsiLimit == 2
Terminal == INSTANCE ColourTerminal

----------------------------------------------------------------------------
CallersInit ==
    /\ Init /\ DeskInit /\ Terminal!ColourInit
    /\ about \in {"places", "words", "keys"}
    /\ asked = Nobody <=> about # "places"
    /\ about # "places" => granted = {}
    /\ errand.work = NoErrand <=> about # "words"
CallersNext ==
    /\ UNCHANGED about
    /\ \/ about = "places" /\ Next /\ UNCHANGED <<deskvars, terminalvars>>
       \/ about = "words" /\ DeskNext /\ UNCHANGED <<vars, terminalvars>>
       \/ about = "keys" /\ Terminal!ColourNext /\ UNCHANGED <<vars, deskvars>>
CallersSpec ==
    /\ CallersInit /\ [][CallersNext]_<<vars, deskvars, terminalvars, about>>
    /\ \A c \in Calls : WF_vars(about = "places" /\ Runs(c))
                       /\ WF_vars(about = "places" /\ IdleTimedOut(c))
    /\ WF_readvars(about = "keys" /\ Terminal!Expire)
    /\ SF_readvars(about = "keys" /\ Terminal!TimeOut)

DecodedAsTyped == Terminal!DecodedAsTyped
OnlyColourIsTaken == Terminal!OnlyColourIsTaken
ReadsEnd == Terminal!ReadsEnd
=============================================================================
