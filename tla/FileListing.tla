---------------------------- MODULE FileListing ----------------------------
(* The F, N and Z commands: the listing of file directories line by line, its
   More? prompts with their keys, and the flagging of files from them.  The
   listing is the session's own, so one call is enough to list
   (OneListsAtATime of MessageList); the catalogue is loaded when the board
   starts and never changes.

   A line is what a reader can tell it by: the file it lists, the number it is
   shown under, and whether it carries the [X] of a flagged file.            *)
EXTENDS FlaggedFiles, MenuCommands, FiniteSetsExt

CONSTANTS Catalogue,  \* all files, in the order of the catalogue
          Areas,      \* the numbers of the conference's directories, ascending
          PageLines,  \* PAGE_LINES, 29 in the code
          Separator,  \* lines of the frame above the first file of a date
          Commands,   \* bound: command lines typed
          Answers,    \* bound: words typed at the prompts for a date or directories
          Numbers,    \* bound: numbers typed at the flag prompt
          NoFile,
          MaxTurns    \* bound: listings opened and prompts answered without moving on

VARIABLES scan,    \* the listing: ScanState, and where walk_span is
          screen,  \* the last lines on the caller's screen
          unread,  \* history: listing lines written since the last pause
          turns
listVars == <<scan, screen, unread, turns>>
fileVars == <<flagVars, listVars>>

Highest == IF Areas = <<>> THEN 0 ELSE Last(Areas)
Hold == Highest + 1    \* stands for the files held for review, of all areas
Raw == [file |-> NoFile, number |-> 0, marked |-> FALSE]
NoScan == [mode |-> Invalid, ansi |-> FALSE, dirs |-> <<>>, part |-> "banner", todo |-> <<>>,
           emitted |-> 0, nonStop |-> FALSE, page |-> <<>>, displayed |-> <<>>]

ASSUME ListingBounds ==
    /\ {PageLines, Separator, MaxTurns} \subseteq Nat /\ PageLines > 1
    /\ Areas \in Seq(Nat \ {0})
    /\ Catalogue \in Seq(Range(Catalogue))
    /\ \A f \in Range(Catalogue) : f.name \in Files /\ f.rows \in Nat \ {0} /\ f.day \in Nat
    /\ \A words \in Commands : words[1] \in {"F", "FR", "N", "Z"}

ListingPhases == {"writing", "more", "held", "confirm", "names", "numbers", "dirs", "date",
                  "query", "zippy dirs", "search"}
Listing(c) == at[c] \in ListingPhases
Awaiting == ListingPhases \ {"writing", "search"}

----------------------------------------------------------------------------
(* The catalogue (FileRepository): visible files oldest first.              *)

Older(i, k) == \/ Catalogue[i].day < Catalogue[k].day
               \/ Catalogue[i].day = Catalogue[k].day /\ i < k
NthOldest(chosen, n) == CHOOSE i \in chosen : Cardinality({k \in chosen : Older(k, i)}) = n - 1
OldestFirst(chosen) ==
    [n \in 1 .. Cardinality(chosen) |-> Catalogue[NthOldest(chosen, n)]]
FilesIn(d, kind) ==
    OldestFirst({i \in DOMAIN Catalogue :
        /\ IF d = Hold THEN Catalogue[i].held ELSE Catalogue[i].dir = d /\ ~ Catalogue[i].held
        /\ kind.show = "since" => Catalogue[i].day >= kind.from})

\* dir_rows and hold_rows: a reversed listing reverses no held files.
Rows(d, kind) ==
    LET all == FilesIn(d, kind)
    IN CASE kind.reversed /\ d # Hold -> Reverse(all)
         [] kind.show = "newest" -> SubSeq(all, Len(all) - Min({Len(all), kind.count}) + 1, Len(all))
         [] OTHER -> all

OutOfRange(span) == span.kind = "dir" /\ (span.dir < 1 \/ span.dir > Highest)
DirsOf(span, kind) ==
    CASE span.kind = "dir" -> <<span.dir>>
      [] span.kind = "all" -> IF kind.reversed THEN Reverse(Areas) ELSE Areas
      [] span.kind = "upload" -> <<Highest>>
      [] span.kind = "hold" -> <<Hold>>

\* assemble_dir_lines: files with short names are numbered, and a frame stands
\* above the first of a date; they are in the order of their dates.
FileLines(files, i, flags, quick) ==
    LET file == files[i]
        numbered == {k \in 1 .. i : files[k].framed}
        begins == file.framed /\ \A k \in numbered \ {i} : files[k].day # file.day
        row == [file |-> file.name, number |-> IF file.framed THEN Cardinality(numbered) ELSE 0,
                marked |-> file.name \in flags]
        above == (IF begins THEN Separator ELSE 0) + (IF file.framed THEN 1 ELSE 0)
        below == IF quick THEN 0 ELSE file.rows - 1
    IN [n \in 1 .. above + 1 + below |-> IF n = above + 1 THEN row ELSE Raw]
Assembled(files, flags, quick) ==
    Append(FlattenSeq([i \in DOMAIN files |-> FileLines(files, i, flags, quick)]), Raw)

----------------------------------------------------------------------------
(* The pager.                                                               *)

Recent(lines) == IF Len(lines) <= PageLines + 1 THEN lines
                 ELSE SubSeq(lines, Len(lines) - PageLines, Len(lines))

\* DisplayedSelectionIndex::record; the code asserts that numbers are dense.
Shown(keys, line) == IF line.number = 0 THEN keys ELSE Append(keys, line.file)
\* record_line: the page of the last pause is dropped by the first line after it.
Recorded(s, line) ==
    IF s.nonStop THEN s
    ELSE [s EXCEPT !.page = IF s.emitted = 0 THEN <<line>> ELSE Append(@, line), !.emitted = @ + 1]
PageOverfull(s) == ~ s.nonStop /\ s.emitted > PageLines     \* a mistake
PageFull(s) == ~ s.nonStop /\ s.emitted >= PageLines

\* begin_directory, and the line that names the directory.
BegunOnTop(s) == [s EXCEPT !.part = "header", !.todo = <<Raw>>]     \* a mistake
Begun(s) == [s EXCEPT !.displayed = <<>>, !.part = "header", !.todo = <<Raw>>]

\* begin_reloaded_page counts the form feed; end_page does not undo that.
Reloaded(s) == [s EXCEPT !.page = <<>>, !.emitted = 1]
PageEnded(s) == [s EXCEPT !.emitted = 0]

Writes(c, s, lines) == GoesTo(c, "writing") /\ scan' = s /\ screen' = lines
Finish(c) == GoesTo(c, "menu") /\ scan' = NoScan /\ screen' = <<>>

\* On to the next directory, past an empty line unless this one had no files.
Leave(c, s, lines) ==
    IF Len(s.dirs) = 1 THEN Finish(c)
    ELSE Writes(c, Begun([s EXCEPT !.dirs = Tail(@)]), lines)

\* What a More? decides (ScanFlow), by the part of the listing it stood in.
Spaced(s, lines) == IF Len(s.dirs) > 1 THEN Recent(Append(lines, Raw)) ELSE lines
After(flow) == CASE flow = "reload" -> Reloaded(scan)
                 [] flow = "nonstop" -> PageEnded([scan EXCEPT !.nonStop = TRUE])
                 [] OTHER -> PageEnded(scan)
InDirectory == scan.part # "banner"
Resume(c, flow, lines) ==
    /\ unread' = IF flow = "reload" THEN 1 ELSE 0
    /\ CASE flow = "quit" -> Finish(c)
         [] InDirectory /\ flow = "reload" -> Writes(c, Begun(After(flow)), lines)
         [] InDirectory /\ flow \notin {"quit", "reload"} /\ (flow = "skip" \/ scan.part = "end") ->
              Leave(c, After(flow), Spaced(scan, lines))
         [] OTHER -> Writes(c, After(flow), lines)

----------------------------------------------------------------------------
(* The commands.                                                            *)

Keeps == UNCHANGED <<saved, basis, logons, asked>>
MayTurn == turns < MaxTurns /\ turns' = turns + 1

\* resolve_zippy_span: all means every number up to the highest; an area that
\* is missing holds no files.
Searches(c, span) ==
    IF span = NoSpan \/ OutOfRange(span)
      THEN GoesTo(c, "menu") /\ scan' = NoScan /\ UNCHANGED screen
      ELSE /\ GoesTo(c, "search")
           /\ scan' = [NoScan EXCEPT !.dirs = IF span.kind = "all" THEN [d \in 1 .. Highest |-> d]
                                             ELSE DirsOf(span, Full(FALSE))]
           /\ UNCHANGED screen

\* begin_listing writes three lines; the N prompt writes its own, uncounted.
Opened(arg, ansi, lines) ==
    [NoScan EXCEPT !.mode = arg, !.ansi = ansi, !.nonStop = arg.nonStop,
                   !.todo = [i \in 1 .. lines |-> Raw]]

\* handle_file_list, handle_new_files, handle_zippy_search; a help screen and
\* an argument error go back to the menu.  The caller may have ANSI off.
OpenListing(c) ==
    /\ at[c] = "menu" /\ "list" \in asked.commands /\ MayTurn
    /\ \E words \in Commands, ansi \in BOOLEAN :
         LET arg == Parsed(words)
         IN CASE arg.form \in {"scan", "dirs"} -> Writes(c, Opened(arg, ansi, 3), <<>>)
              [] arg.form \in {"date", "query", "zippy dirs"} ->
                   GoesTo(c, arg.form) /\ scan' = Opened(arg, ansi, 0) /\ UNCHANGED screen
              [] arg.form = "search" -> Searches(c, arg.span)
              [] OTHER -> UNCHANGED <<at, scan, screen>>
    /\ unread' = 0
    /\ Keeps /\ UNCHANGED flagged

\* prompt_line at the prompts before a listing: a blank line, or a word that
\* says nothing, goes back to the menu.
Answer == Answers \cup {""}
QueryAnswered(c) ==
    /\ at[c] = "query"
    /\ \/ GoesTo(c, "zippy dirs") /\ UNCHANGED <<scan, screen>>
       \/ GoesTo(c, "menu") /\ scan' = NoScan /\ UNCHANGED screen
    /\ Keeps /\ UNCHANGED <<flagged, unread, turns>>
ZippyDirsAnswered(c) ==
    /\ at[c] = "zippy dirs"
    /\ \E word \in Answer : Searches(c, SpanOf(word))
    /\ Keeps /\ UNCHANGED <<flagged, unread, turns>>
DateAnswered(c) ==
    /\ at[c] = "date"
    /\ \E word \in Answer :
         LET kind == DateAnswer(word)
         IN IF kind = NoKind THEN GoesTo(c, "menu") /\ scan' = NoScan
                             ELSE GoesTo(c, "dirs") /\ scan' = [scan EXCEPT !.mode.kind = kind]
    /\ Keeps /\ UNCHANGED <<flagged, screen, unread, turns>>
DirsAnswered(c) ==
    /\ at[c] = "dirs"
    /\ \E word \in Answer :
         LET span == SpanOf(word)
             asksDate == scan.mode.form = "date"
         IN IF span = NoSpan THEN Finish(c)
            ELSE Writes(c, [scan EXCEPT !.mode.span = span,
                                        !.todo = IF asksDate THEN <<Raw>> ELSE <<>>],
                        Recent(screen \o <<Raw, Raw>>))
    /\ Keeps /\ UNCHANGED <<flagged, unread, turns>>

\* handle_zippy_search prints the matches of one directory after the other.
SearchDirectory(c) ==
    /\ at[c] = "search"
    /\ IF Len(scan.dirs) <= 1 THEN GoesTo(c, "menu") /\ scan' = NoScan
                             ELSE scan' = [scan EXCEPT !.dirs = Tail(@)] /\ UNCHANGED at
    /\ Keeps /\ UNCHANGED <<flagged, screen, unread, turns>>

----------------------------------------------------------------------------
(* The listing: emit_scan_line, and walk_span between the lines.            *)

EmitLine(c) ==
    /\ at[c] = "writing" /\ scan.todo # <<>>
    /\ LET line == Head(scan.todo)
           s == Recorded([scan EXCEPT !.todo = Tail(@), !.displayed = Shown(@, line)], line)
       IN /\ scan' = s
          /\ GoesTo(c, IF PageFull(s) THEN "more" ELSE "writing")
          /\ screen' = Recent(Append(screen, line))
          /\ unread' = IF s.nonStop THEN 0 ELSE unread + 1
    /\ Keeps /\ UNCHANGED <<flagged, turns>>

Written(c, part) == at[c] = "writing" /\ scan.todo = <<>> /\ scan.part = part
NoEffects == Keeps /\ UNCHANGED <<flagged, turns>>

BannerWritten(c) ==
    /\ Written(c, "banner")
    /\ LET span == scan.mode.span
           dirs == DirsOf(span, scan.mode.kind)
       IN CASE span = NoSpan -> GoesTo(c, "dirs") /\ UNCHANGED <<scan, screen, unread>>
            [] span # NoSpan /\ (OutOfRange(span) \/ dirs = <<>>) -> Finish(c)
            [] OTHER -> Writes(c, Begun([scan EXCEPT !.dirs = dirs]), screen)
    /\ UNCHANGED unread /\ NoEffects

RowsHere == Rows(Head(scan.dirs), scan.mode.kind)
HeaderWritten(c) ==
    /\ Written(c, "header")
    /\ IF RowsHere = <<>>
         THEN Leave(c, scan, screen)
         ELSE Writes(c, [scan EXCEPT !.part = "blank", !.todo = <<Raw>>], screen)
    /\ UNCHANGED unread /\ NoEffects

\* The blank line is out, and the body is made (stream_dir_body).  The marks
\* are set here, for the whole directory.
StreamDirBody(c) ==
    /\ Written(c, "blank")
    /\ \E files \in {RowsHere} :
         Writes(c, [scan EXCEPT !.part = "body",
                                !.todo = Assembled(files, flagged[c], scan.mode.quick)], screen)
    /\ UNCHANGED unread /\ NoEffects

\* The body is out; the next page begins after a pause (post_end_pause).
PostEndPause(c) ==
    /\ Written(c, "body")
    /\ IF scan.nonStop
         THEN Leave(c, scan, Spaced(scan, screen))
         ELSE GoesTo(c, "more") /\ scan' = [scan EXCEPT !.part = "end"] /\ UNCHANGED screen
    /\ UNCHANGED unread /\ NoEffects

----------------------------------------------------------------------------
(* The keys of More? (scan_more_prompt).                                    *)

Prompting(c) == at[c] \in {"more", "held"}

\* C clears the screen, any other key the prompt; L clears it and counts a line.
GoOn(c) == Prompting(c) /\ (Resume(c, "go", screen) \/ Resume(c, "go", <<>>)) /\ NoEffects
SkipDir(c) == Prompting(c) /\ Resume(c, "skip", screen) /\ NoEffects
ReloadDir(c) == Prompting(c) /\ MayTurn /\ Resume(c, "reload", <<Raw>>) /\ Keeps /\ UNCHANGED flagged
\* Q, Ctrl-C, or N and Enter.
Quit(c) == Prompting(c) /\ Resume(c, "quit", screen) /\ NoEffects

\* N waits for the key after it: S asks for the rest without a pause, and a key
\* of another meaning has that meaning.
HoldN(c) == at[c] = "more" /\ GoesTo(c, "held") /\ UNCHANGED <<flagged, listVars>> /\ Keeps
AskNonStop(c) == at[c] = "held" /\ GoesTo(c, "confirm") /\ UNCHANGED <<flagged, listVars>> /\ Keeps
NonStopAnswered(c) ==
    /\ at[c] = "confirm"
    /\ \/ Resume(c, "nonstop", screen) /\ UNCHANGED turns
       \/ MayTurn /\ GoesTo(c, "more") /\ UNCHANGED <<scan, screen, unread>>
    /\ Keeps /\ UNCHANGED flagged

\* The help clears the screen, and writes the page again as it was assembled.
PauseHelp(c) ==
    /\ Prompting(c) /\ MayTurn /\ GoesTo(c, "more")
    /\ screen' = <<Raw>> \o scan.page
    /\ Keeps /\ UNCHANGED <<flagged, scan, unread>>

\* F and R: run_flag_prompt.
AskFlags(c) ==
    /\ Prompting(c) /\ MayTurn
    /\ GoesTo(c, "names") \/ GoesTo(c, "numbers")
    /\ Keeps /\ UNCHANGED <<flagged, scan, screen, unread>>

\* plan_flags: any one name, on a list or not; numbers by what they stand for.
Planned(c) ==
    IF at[c] = "names"
      THEN {{}} \cup {{f} \ flagged[c] : f \in asked.names}
      ELSE {{scan.displayed[n] : n \in typed \cap DOMAIN scan.displayed} \ flagged[c] :
              typed \in SUBSET Numbers}

\* repaint_flagged_rows: the cursor goes up from the prompt by the lines of the
\* page from the row on, or to the top of the screen.  The code knows neither
\* the width nor the height of the client's screen: a row is taken to fill one
\* line there, and the page and its prompt to fit.
RowOnScreen(j) == Max({1, Len(screen) - Len(scan.page) + j})
Repainted(names) ==
    LET rows == {RowOnScreen(j) : j \in {i \in DOMAIN scan.page : scan.page[i].file \in names}}
    IN [i \in DOMAIN screen |-> IF scan.ansi /\ i \in rows THEN [screen[i] EXCEPT !.marked = TRUE]
                                                         ELSE screen[i]]
FlagsEntered(c) ==
    /\ at[c] \in {"names", "numbers"} /\ GoesTo(c, "more")
    /\ \E names \in Planned(c) : Flag(c, names) /\ screen' = Repainted(names)
    /\ Keeps /\ UNCHANGED <<scan, unread, turns>>

----------------------------------------------------------------------------
(* The end of a call, and the specification.                                *)

\* What a lost call was listing is lost with it.
CallLost(c) == Lost(c) /\ IF Listing(c) THEN scan' = NoScan /\ screen' = <<>> /\ UNCHANGED <<unread, turns>>
                                        ELSE UNCHANGED listVars
Dropped(c) == at[c] \in MenuPhases \cup ListingPhases /\ CallLost(c)
\* The input timeout, where a key or a line is awaited.
IdleTimedOut(c) == at[c] \in Awaiting /\ CallLost(c)

ListInit == scan = NoScan /\ screen = <<>> /\ unread = 0 /\ turns = 0

Streams(c) == \/ EmitLine(c) \/ BannerWritten(c) \/ HeaderWritten(c) \/ StreamDirBody(c)
              \/ PostEndPause(c) \/ SearchDirectory(c)
Typed(c) == \/ QueryAnswered(c) \/ ZippyDirsAnswered(c) \/ DateAnswered(c) \/ DirsAnswered(c)
            \/ GoOn(c) \/ SkipDir(c) \/ ReloadDir(c) \/ Quit(c) \/ HoldN(c) \/ AskNonStop(c)
            \/ NonStopAnswered(c) \/ PauseHelp(c) \/ AskFlags(c) \/ FlagsEntered(c)
ListNext == \E c \in Calls : OpenListing(c) \/ Streams(c) \/ Typed(c) \/ Dropped(c) \/ IdleTimedOut(c)
=============================================================================
