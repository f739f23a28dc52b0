---------------------------- MODULE MessageList ----------------------------
(* The L command of the read prompt, its pager, and the calls of one account
   as a whole: listings of files, listings of mail, flags and logoffs.

   The mail of the base is read under its lock in one step; what others do to
   the base while the rows are shown does not change them.                   *)
EXTENDS FileListing

CONSTANTS Letters,        \* the messages addressed to the account or to all
          Lowest,         \* the lowest message that is not deleted
          Starts,         \* bound: numbers typed for the first message
          LineLengths,    \* lines on the screen the account may have set
          DefaultLength   \* those taken for 0, 22 in the code

VARIABLES pager,  \* Pager
          rows    \* messages still to be shown
vars == <<fileVars, pager, rows>>

ASSUME OneListsAtATime ==
    \A p \in Programs : p.commands \cap {"list", "mail"} # {} => \E c \in Calls : p.calls = {c}
ASSUME PagerBounds == {Lowest, DefaultLength} \cup Letters \cup Starts \cup LineLengths \subseteq Nat

\* Pager::new, add_lines, count_line
NewPager(length) == [lines |-> 0, nonStop |-> FALSE,
                     length |-> IF length = 0 THEN DefaultLength ELSE length]
AddLines(p, n) == IF p.nonStop THEN p ELSE [p EXCEPT !.lines = @ + n]
Fills(p) == ~ p.nonStop /\ p.lines + 1 >= p.length
CountLine(p) == IF Fills(p) THEN [p EXCEPT !.lines = 0] ELSE AddLines(p, 1)

HeaderLines == 4
MailPhases == {"start", "rows", "pause"}
Idle == NewPager(0)
Back(c) == GoesTo(c, "menu") /\ rows' = <<>> /\ pager' = Idle
FlagsStay == UNCHANGED <<flagged, scan, screen, turns>> /\ Keeps

ListMessages(c) == /\ at[c] = "menu" /\ "mail" \in asked.commands /\ turns < MaxTurns /\ turns' = turns + 1
                   /\ GoesTo(c, "start") /\ unread' = 0
                   /\ UNCHANGED <<flagged, scan, screen, pager, rows>> /\ Keeps

\* read_list_start: a blank line is the lowest message, no number ends the command.
StartAnswered(c) ==
    /\ at[c] = "start"
    /\ \/ \E start \in Starts \cup {Lowest}, length \in LineLengths :
            LET wanted == {n \in Letters : n >= start}
            IN IF wanted = {} THEN Back(c) /\ UNCHANGED unread
               ELSE /\ GoesTo(c, "rows") /\ rows' = SetToSortSeq(wanted, <)
                    /\ pager' = AddLines(NewPager(length), HeaderLines) /\ unread' = HeaderLines
       \/ Back(c) /\ UNCHANGED unread
    /\ FlagsStay

\* handle_list_messages, page_break
ShowRow(c) ==
    /\ at[c] = "rows"
    /\ IF rows = <<>> THEN Back(c) /\ unread' = 0
       ELSE /\ rows' = Tail(rows) /\ pager' = CountLine(pager)
            /\ GoesTo(c, IF Fills(pager) THEN "pause" ELSE "rows")
            /\ unread' = IF pager.nonStop THEN 0 ELSE unread + 1
    /\ FlagsStay
PauseAnswered(c) ==
    /\ at[c] = "pause" /\ unread' = 0
    /\ \/ Back(c)
       \/ GoesTo(c, "rows") /\ UNCHANGED rows /\ pager' \in {pager, [pager EXCEPT !.nonStop = TRUE]}
    /\ FlagsStay

MailLost(c) == Lost(c) /\ rows' = <<>> /\ pager' = Idle /\ UNCHANGED listVars
MailDropped(c) == at[c] \in MailPhases /\ MailLost(c)
\* Mistake: the question for the first message is read without the deadline.
MailWaits(c) == at[c] = "pause" /\ MailLost(c)
MailTimedOut(c) == at[c] \in MailPhases \ {"rows"} /\ MailLost(c)

Init == FlagInit /\ ListInit /\ pager = Idle /\ rows = <<>>
Next == \/ FlagNext /\ UNCHANGED <<listVars, pager, rows>>
        \/ ListNext /\ UNCHANGED <<pager, rows>>
        \/ \E c \in Calls : \/ ListMessages(c) \/ StartAnswered(c) \/ ShowRow(c)
                             \/ PauseAnswered(c) \/ MailDropped(c) \/ MailTimedOut(c)
Spec == Init /\ [][Next]_vars

\* The board's own steps are taken, and where it waits for a key or a line the
\* input timeout ends the wait.
BoardWrites(c) == (Streams(c) /\ UNCHANGED <<pager, rows>>) \/ ShowRow(c)
WaitEnds(c) == (IdleTimedOut(c) /\ UNCHANGED <<pager, rows>>) \/ MailTimedOut(c)
FairSpec == Spec /\ \A c \in Calls : WF_vars(BoardWrites(c)) /\ WF_vars(WaitEnds(c))

----------------------------------------------------------------------------
(* Properties.                                                              *)

\* What stands beside a file on the screen is about that file.  While a listing
\* waits, a number on its page stands for the file shown under it: the page
\* never mixes the rows of two directories, and L begins both anew
\* (DisplayedSelectionIndex).  The mark of a flagged file stands beside no other,
\* nor beside the lines between them, however the page was left, cleared, written
\* again or begun anew before the cursor went up to paint it.
RowsAreTrue ==
    \A c \in Calls :
        /\ at[c] \in {"more", "held", "confirm", "numbers"} =>
             \A line \in Range(scan.page) : line.number > 0 =>
                 /\ line.number \in DOMAIN scan.displayed
                 /\ scan.displayed[line.number] = line.file
        /\ Listing(c) => \A line \in Range(screen) : line.marked => line.file \in flagged[c]

\* No more lines than the page has go by without a pause, a form feed counting
\* as one, and the header of a mail listing going with its first row; and who
\* asked for no pauses is given none.
PausesWhenFull ==
    \A c \in Calls :
        /\ Listing(c) => unread <= PageLines
        /\ at[c] \in MailPhases => unread <= Max({pager.length, HeaderLines + 1})
        /\ at[c] = "more" => ~ scan.nonStop
        /\ at[c] = "pause" => ~ pager.nonStop

\* A listing comes to its end, or its call does.
ListingsEnd ==
    \A c \in Calls : at[c] \in ListingPhases \cup MailPhases ~> at[c] \notin ListingPhases \cup MailPhases
=============================================================================
