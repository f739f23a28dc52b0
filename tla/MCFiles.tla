------------------------------ MODULE MCFiles ------------------------------
(* An instance of MessageList for TLC.                                     *)
EXTENDS MessageList

CONSTANTS c1, c2, f, g, h, k

File(dir, name, day, held, framed, lines) ==
    [dir |-> dir, name |-> name, day |-> day, held |-> held, framed |-> framed, rows |-> lines]
\* Two directories, not numbered densely, and a file name both of them have.
SmallCatalogue == <<File(1, f, 2, FALSE, TRUE, 2), File(1, g, 1, FALSE, TRUE, 1),
                    File(1, h, 2, FALSE, FALSE, 1), File(3, f, 2, FALSE, TRUE, 1),
                    File(3, g, 1, TRUE, TRUE, 1)>>
SparseAreas == <<1, 3>>

WordsOfDigits == [w \in {"1", "2", "9", "01-31"} |->
                    CASE w = "2" -> 2 [] w = "9" -> 9 [] OTHER -> 1]
WordsOfDays == [w \in {"-1"} |-> 1]
WordsOfCounts == [w \in {"!1"} |-> 1]
WordsOfDates == [w \in {"01-31", "02-31"} |-> IF w = "01-31" THEN 1 ELSE 0]

CommandLines == {<<"F">>, <<"F", "9">>, <<"F", "2">>, <<"F", "R", "H">>, <<"FR", "1", "Q">>,
                 <<"F", "U", "NS">>, <<"F", "?">>, <<"N">>, <<"N", "!1", "A">>,
                 <<"N", "T", "A", "Q", "NS">>, <<"N", "1">>, <<"Z">>, <<"Z", "q", "A">>}
Words == {"A", "H", "02-31", "R", "-1", "1"}
FlagPrograms ==
    {[commands |-> {"alter"}, names |-> {f, k}, calls |-> Calls, logons |-> 3],
     [commands |-> {"list"}, names |-> {f, k}, calls |-> {c1}, logons |-> 1],
     [commands |-> {"mail"}, names |-> {}, calls |-> {c1}, logons |-> 1]}
=============================================================================
