------------------------------- MODULE Board --------------------------------
(* The pool of nodes and the callers' work in the message bases together.

   The task of a connection runs its session inside release_node_after, and
   everything a session does in the bases it does in that task.  What a session
   does comes from MessageBases, what its task does with its node from
   NodePool; the one step of both is the panic, which unwinds the session and
   its task at once.  The process goes on: a panic ends the task it is in. *)
EXTENDS NodePool, Sequences

CONSTANTS Bases, MaxNumber, Users, Sysop, Nobody, NewUsers, Editors, Censored,
          Workloads, UserOf, Seeds  \* as in MessageBases; a session is a connection

VARIABLES files, highest, owner, task, up, faults, asked
Mail == INSTANCE MessageBases WITH Sessions <- Connections
mailvars == <<files, highest, owner, task, up, faults, asked>>
boardvars == <<vars, mailvars>>

\* A connection without a session is counted as at the menu it will come to.
BoardInit == Init /\ Mail!Init

InSession(c) == At(c, "Live")

\* Accepting, claiming, attaching and releasing leave the bases alone; a caller
\* leaves from the menu, from a prompt by way of it.
HandleConnection(c) ==
    /\ \/ Accept(c) \/ Runs(c)
       \/ EndSession(c) /\ task[c].stage = "Menu"
    /\ UNCHANGED mailvars

DriverRuns(c) ==
    /\ InSession(c)
    /\ Mail!Answers(c) \/ Mail!Locks(c) \/ Mail!WriteFile(c) \/ Mail!WriteFails(c)
    /\ UNCHANGED <<vars, asked>>

\* The guards of the stores are dropped on the way out; release is not called,
\* and nobody looks at how the task ended.
DriverPanics(c) ==
    /\ InSession(c)
    /\ Mail!Panics(c)
    /\ GoesTo(c, "Gone")
    /\ UNCHANGED <<status, signals, asked>>

BoardNext == \E c \in Connections : HandleConnection(c) \/ DriverRuns(c) \/ DriverPanics(c)

BoardSpec == BoardInit /\ [][BoardNext]_boardvars

----------------------------------------------------------------------------
(* What the repository's documents say and the code does not do.            *)

\* core.allium, entity Node: "A node is in use whenever a session is bound to
\* it; otherwise it is idle."
InUseOrIdle ==
    \A n \in Nodes : IsIdle(n) <=> \A c \in Connections : Holding(c) => conn[c].node # n
=============================================================================
