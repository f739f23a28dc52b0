---------------------------- MODULE FlaggedFiles ----------------------------
(* The files the calls of one account have flagged: restored when a call
   reaches the menu, altered at the A prompts (and by FileListing), saved as a
   whole by the G command only.  A name of a file stands for its FlaggedKey,
   the name in capitals and its conference; all calls are in one conference. *)
EXTENDS Naturals, FiniteSets

CONSTANTS Calls,
          Files,     \* names that can be flagged, listed or not
          Programs   \* bound: the commands of a behaviour, the names typed in it, by whom
                     \* and in how many calls

VARIABLES at,       \* what each call waits for or does
          flagged,  \* the set of each session
          saved,    \* the set the store holds for the account
          basis,    \* history: the stored set a call began with, and whether
                    \* its own set still builds on it
          logons,   \* calls still to be made
          asked     \* the program of this behaviour
flagVars == <<at, flagged, saved, basis, logons, asked>>

ASSUME FlagBounds == \A p \in Programs : p.calls \subseteq Calls /\ p.names \subseteq Files /\ p.logons \in Nat

MenuPhases == {"menu", "alter", "clear", "leave"}
GoesTo(c, phase) == at' = [at EXCEPT ![c] = phase]

FlagInit == /\ at = [c \in Calls |-> "away"]
            /\ flagged = [c \in Calls |-> {}]
            /\ asked \in Programs
            /\ saved \in {{}} \cup {{f} : f \in asked.names}
            /\ basis = [c \in Calls |-> [stored |-> {}, kept |-> FALSE]]
            /\ logons = asked.logons

\* FlaggedFiles::flag
Flag(c, names) == flagged' = [flagged EXCEPT ![c] = @ \cup names]

\* restore_flags_and_announce: an unreadable set is logged and taken for none.
RestoredNothing(c, readable) == flagged' = flagged     \* a mistake
Restored(c, readable) == flagged' = [flagged EXCEPT ![c] = IF readable THEN saved ELSE @]
LogOn(c) ==
    /\ at[c] = "away" /\ c \in asked.calls /\ logons > 0
    /\ \E readable \in BOOLEAN :
         /\ Restored(c, readable)
         /\ basis' = [basis EXCEPT ![c] = [stored |-> saved, kept |-> readable]]
    /\ logons' = logons - 1
    /\ GoesTo(c, "menu")
    /\ UNCHANGED <<saved, asked>>

\* A: handle_alter_flags, flag_files_once
AlterFlags(c) == /\ at[c] = "menu" /\ "alter" \in asked.commands
                 /\ GoesTo(c, "alter") /\ UNCHANGED <<flagged, saved, basis, logons, asked>>

Cleared(c) == /\ flagged' = [flagged EXCEPT ![c] = {}]
              /\ basis' = [basis EXCEPT ![c].kept = FALSE]

\* A name is flagged, new or not, and ends the command as a blank line does;
\* C * clears and asks again; C and another word only asks again.
AlterAnswered(c) ==
    /\ at[c] = "alter"
    /\ \/ /\ \E names \in {{}} \cup {{f} : f \in asked.names} : Flag(c, names)
          /\ GoesTo(c, "menu") /\ UNCHANGED basis
       \/ Cleared(c) /\ UNCHANGED at
       \/ GoesTo(c, "clear") /\ UNCHANGED <<flagged, basis>>
    /\ UNCHANGED <<saved, logons, asked>>

\* The prompt of a bare C: a blank line ends the command.
ClearAnswered(c) ==
    /\ at[c] = "clear"
    /\ \/ GoesTo(c, "menu") /\ UNCHANGED <<flagged, basis>>
       \/ GoesTo(c, "alter") /\ (Cleared(c) \/ UNCHANGED <<flagged, basis>>)
    /\ UNCHANGED <<saved, logons, asked>>

\* The session is gone and its set with it.
Ends(c) == GoesTo(c, "away") /\ flagged' = [flagged EXCEPT ![c] = {}]

\* FlaggedStore::save replaces the set in one transaction, or fails and is logged.
Stored(c) == {flagged[c], saved}
SavesAndLeaves(c) == /\ saved' \in Stored(c)
                     /\ Ends(c) /\ UNCHANGED <<basis, logons, asked>>

\* G asks when anything is flagged (handle_logoff, confirm_leave_flagged); G Y does not.
LogOff(c) ==
    /\ at[c] = "menu"
    /\ \/ SavesAndLeaves(c)
       \/ flagged[c] # {} /\ GoesTo(c, "leave") /\ UNCHANGED <<flagged, saved, basis, logons, asked>>
LeaveAnswered(c) ==
    /\ at[c] = "leave"
    /\ \/ SavesAndLeaves(c)
       \/ GoesTo(c, "menu") /\ UNCHANGED <<flagged, saved, basis, logons, asked>>

\* Carrier lost, idle too long, or out of time: MenuExit other than by G.
Lost(c) == at[c] # "away" /\ Ends(c) /\ UNCHANGED <<saved, basis, logons, asked>>

FlagNext == \E c \in Calls : \/ LogOn(c) \/ AlterFlags(c) \/ AlterAnswered(c) \/ ClearAnswered(c)
                             \/ LogOff(c) \/ LeaveAnswered(c)

\* A logoff loses no flag of the stored set but what the caller cleared, what a
\* failed restore never gave the call, and what another call saved meanwhile:
\* dropped calls, failed saves and listings cost the account nothing.
NoFlagLost ==
    [][\A c \in Calls : /\ saved' # saved /\ at[c] # "away" /\ at'[c] = "away"
                        /\ basis[c].kept /\ basis[c].stored = saved
                        => saved \subseteq saved']_flagVars
=============================================================================
