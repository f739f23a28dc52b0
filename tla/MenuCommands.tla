---------------------------- MODULE MenuCommands ----------------------------
(* The grammar of the commands that list files: F, FR and N with their
   arguments, and Z.  A command line is its words in capitals; what the code
   finds out by reading the characters of a word is given as a function.     *)
EXTENDS Naturals, Sequences, SequencesExt

CONSTANTS NumberOf,  \* the words that begin with a digit, and their val_prefix
          DaysOf,    \* the words -n
          NewestOf,  \* the words !n
          DayOf,     \* the words of the shape mm-dd or mm-dd-yy, and the day meant
          NoDay,     \* what such a word means that is no date of the calendar
          Today,
          LastCall   \* the day of the last call, or NoDay of one who never called

ASSUME WordsAssumption ==
    /\ {NoDay, Today, LastCall} \subseteq Nat
    /\ \A read \in {NumberOf, DaysOf, NewestOf, DayOf} : \A word \in DOMAIN read : read[word] \in Nat

NoSpan == [kind |-> "none", dir |-> 0]
\* parse_span_token
SpanOf(word) ==
    CASE word = "A" -> [kind |-> "all", dir |-> 0]
      [] word = "U" -> [kind |-> "upload", dir |-> 0]
      [] word = "H" -> [kind |-> "hold", dir |-> 0]
      [] word \in DOMAIN NumberOf -> [kind |-> "dir", dir |-> NumberOf[word]]
      [] OTHER -> NoSpan

\* What a scan shows of a directory (ScanKind) and how (ScanMode).
Full(reversed) == [show |-> "full", reversed |-> reversed, from |-> 0, count |-> 0]
Since(day) == [show |-> "since", reversed |-> FALSE, from |-> day, count |-> 0]
Newest(n) == [show |-> "newest", reversed |-> FALSE, from |-> 0, count |-> n]
NoKind == [show |-> "none", reversed |-> FALSE, from |-> 0, count |-> 0]

Other(form) == [form |-> form, span |-> NoSpan, kind |-> NoKind, quick |-> FALSE, nonStop |-> FALSE]
Help == Other("help")
Invalid == Other("invalid")

\* The words that may follow a span: Q before NS.
Switches == {<<>>, <<"Q">>, <<"NS">>, <<"Q", "NS">>}
Scan(span, kind, switches) ==
    IF span = NoSpan \/ kind = NoKind \/ switches \notin Switches
      THEN Invalid
      ELSE [form |-> "scan", span |-> span, kind |-> kind, quick |-> "Q" \in Range(switches),
            nonStop |-> "NS" \in Range(switches)]

\* parse_file_list_command
FileList(words) ==
    LET args == Tail(words)
        spaced == words[1] = "F" /\ args # <<>> /\ args[1] = "R"
        rest == IF spaced THEN Tail(args) ELSE args
        kind == Full(words[1] = "FR" \/ spaced)
    IN CASE args # <<>> /\ args[1] = "?" -> IF Len(args) = 1 THEN Help ELSE Invalid
         [] rest = <<>> -> [Other("dirs") EXCEPT !.kind = kind]
         [] OTHER -> Scan(SpanOf(rest[1]), kind, Tail(rest))

\* resolve_request, of the words both the command and the date prompt take.
RequestOf(word) ==
    CASE word = "S" -> Since(IF LastCall = NoDay THEN Today ELSE LastCall)
      [] word = "T" -> Since(Today)
      [] word = "R" -> Full(TRUE)
      [] word \in DOMAIN DaysOf -> Since(Today - DaysOf[word])
      [] word \in DOMAIN NewestOf -> Newest(NewestOf[word])
      [] word \in DOMAIN DayOf -> IF DayOf[word] = NoDay THEN NoKind ELSE Since(DayOf[word])
      [] OTHER -> NoKind

\* parse_new_files_command: a number in the place of the request is a directory.
NewFiles(words) ==
    LET args == Tail(words)
        bare == args # <<>> /\ args[1] \in DOMAIN NumberOf \ DOMAIN DayOf
        kind == CASE bare -> RequestOf("S")
                  [] args # <<>> /\ args[1] = "Y" -> Since(Today - 1)
                  [] OTHER -> RequestOf(args[1])
        rest == Tail(args)
        named == ~ bare /\ rest # <<>> /\ rest[1] \notin {"Q", "NS"}
        span == CASE bare -> SpanOf(args[1])
                  [] named -> SpanOf(rest[1])
                  [] OTHER -> SpanOf("U")
    IN CASE args = <<>> -> Other("date")
         [] args[1] = "?" -> IF Len(args) = 1 THEN Help ELSE Invalid
         [] OTHER -> Scan(span, kind, IF named THEN Tail(rest) ELSE rest)

\* parse_date_answer: a blank line stands for S, and Y is no answer here.
DateAnswer(word) == IF word = "" THEN RequestOf("S") ELSE RequestOf(word)

\* parse_zippy_command: Z, Z query, Z query dirs.
Zippy(words) ==
    CASE Len(words) = 1 -> Other("query")
      [] Len(words) = 2 -> Other("zippy dirs")
      [] OTHER -> [Other("search") EXCEPT !.span = SpanOf(words[3])]

\* parse_menu_command, of these commands.
Parsed(words) == CASE words[1] \in {"F", "FR"} -> FileList(words)
                   [] words[1] = "N" -> NewFiles(words)
                   [] words[1] = "Z" -> Zippy(words)
=============================================================================
