------------------------------ MODULE NodePool ------------------------------
(* The pool of nodes and the tasks of the telnet listener that share it.

   A connection is one spawned task: it asks for a node, installs the sender
   of its signal lane in the pool, runs its session, and gives the node back.
   The pool has two locks, one for the nodes and one for the senders; every
   step below is what a task does under one of them, and the other tasks run
   between any two steps.

   A definition that is followed by a near copy of itself is a mistake the
   properties are tried against; the model uses the second of the two.       *)
EXTENDS Integers

CONSTANTS MaxNodes,       \* the size of the pool
          Connections     \* bound: connections ever accepted

ASSUME MaxNodesAssumption == MaxNodes \in Nat

VARIABLES status,     \* the status of each node
          signals,    \* whose sender is in the slot of each node
          conn        \* each connection's task
vars == <<status, signals, conn>>

Nodes == 1 .. MaxNodes
NoNode == 0
NoSender == [sender |-> FALSE]
SenderOf(c) == [sender |-> TRUE, of |-> c]

NodeStatus == {"Idle", "Connecting", "LoggedOn", "LoggingOff"}
IsTransitionAllowed(from, to) ==
    <<from, to>> \in {<<"Idle", "Connecting">>, <<"Connecting", "Idle">>,
                      <<"LoggingOff", "Idle">>, <<"Connecting", "LoggedOn">>,
                      <<"LoggedOn", "LoggingOff">>}

\* Accepted: spawned; Allocated: has a node; Live: can be signalled, session
\* runs; Ended: the session is over; Cleared: its sender is out of the pool;
\* Gone: the task is done; Refused: it got the busy line.
Stages == {"Away", "Accepted", "Allocated", "Live", "Ended", "Cleared", "Gone",
           "Refused"}
Connection == [stage : Stages, node : Nodes \cup {NoNode}]

Init == /\ status = [n \in Nodes |-> "Idle"]
        /\ signals = [n \in Nodes |-> NoSender]
        /\ conn = [c \in Connections |-> [stage |-> "Away", node |-> NoNode]]

At(c, stage) == conn[c].stage = stage
GoesTo(c, stage) == conn' = [conn EXCEPT ![c].stage = stage]

Accept(c) == /\ At(c, "Away")
             /\ GoesTo(c, "Accepted")
             /\ UNCHANGED <<status, signals>>

\* The first node found, in the order of the numbers.
NotLoggedOn(n) == status[n] # "LoggedOn"
IsIdle(n) == status[n] = "Idle"

FirstIdle(n) == IsIdle(n) /\ \A m \in Nodes : m < n => ~ IsIdle(m)

Allocate(c) ==
    /\ At(c, "Accepted")
    /\ \E n \in Nodes :
         /\ FirstIdle(n)
         /\ IsTransitionAllowed(status[n], "Connecting")
         /\ status' = [status EXCEPT ![n] = "Connecting"]
         /\ conn' = [conn EXCEPT ![c] = [stage |-> "Allocated", node |-> n]]
    /\ UNCHANGED signals

\* None is idle, or the one found may not be claimed: the caller gets the
\* busy line.
Refuse(c) ==
    /\ At(c, "Accepted")
    /\ \A n \in Nodes : FirstIdle(n) => ~ IsTransitionAllowed(status[n], "Connecting")
    /\ GoesTo(c, "Refused")
    /\ UNCHANGED <<status, signals>>

AttachSignalSender(c) ==
    /\ At(c, "Allocated")
    /\ signals' = [signals EXCEPT ![conn[c].node] = SenderOf(c)]
    /\ GoesTo(c, "Live")
    /\ UNCHANGED status

\* The session driver returns, with or without an I/O error.
FreeTheNodeAtOnce(c) ==
    /\ At(c, "Live")
    /\ GoesTo(c, "Ended")
    /\ status' = [status EXCEPT ![conn[c].node] = "Idle"]
    /\ UNCHANGED signals
EndSession(c) ==
    /\ At(c, "Live")
    /\ GoesTo(c, "Ended")
    /\ UNCHANGED <<status, signals>>

\* release, under the lock of the senders.
LeaveTheSender(c) ==
    /\ At(c, "Ended")
    /\ GoesTo(c, "Cleared")
    /\ UNCHANGED <<status, signals>>
ClearSignalSender(c) ==
    /\ At(c, "Ended")
    /\ signals' = [signals EXCEPT ![conn[c].node] = NoSender]
    /\ GoesTo(c, "Cleared")
    /\ UNCHANGED status

\* release, under the lock of the nodes; its error is dropped by the caller.
FreeWhenLoggingOff(c) ==
    /\ At(c, "Cleared")
    /\ status' = [status EXCEPT ![conn[c].node] =
                    IF @ = "LoggingOff" THEN "Idle" ELSE @]
    /\ GoesTo(c, "Gone")
    /\ UNCHANGED signals
FreeNode(c) ==
    /\ At(c, "Cleared")
    /\ status' = [status EXCEPT ![conn[c].node] =
                    IF IsTransitionAllowed(@, "Idle") THEN "Idle" ELSE @]
    /\ GoesTo(c, "Gone")
    /\ UNCHANGED signals

\* What the task does by itself; the session's end is up to the caller.
Runs(c) == Allocate(c) \/ Refuse(c) \/ AttachSignalSender(c)
             \/ ClearSignalSender(c) \/ FreeNode(c)

Next == \E c \in Connections : Accept(c) \/ Runs(c) \/ EndSession(c)

Spec == Init /\ [][Next]_vars

\* The runtime polls every task that is ready, and both locks are fair.
FairSpec == Spec /\ \A c \in Connections : WF_vars(Runs(c))

----------------------------------------------------------------------------
(* Properties.                                                             *)

\* The tasks that have claimed a node and not given it back.
Holding(c) == conn[c].stage \in {"Allocated", "Live", "Ended", "Cleared"}

\* Who holds a node knows a number of the pool.
TypeOK == /\ status \in [Nodes -> NodeStatus]
          /\ signals \in [Nodes -> {NoSender} \cup {SenderOf(c) : c \in Connections}]
          /\ conn \in [Connections -> Connection]
          /\ \A c \in Connections : Holding(c) => conn[c].node \in Nodes

\* No two tasks hold a node, and a node is idle exactly when no task holds it:
\* allocate claims it under one lock, release gives it back once, last of all.
NodesHeldOnce ==
    /\ \A c, d \in Connections :
         Holding(c) /\ Holding(d) /\ c # d => conn[c].node # conn[d].node
    /\ \A n \in Nodes :
         IsIdle(n) <=> ~ \E c \in Connections : Holding(c) /\ conn[c].node = n

\* A live session can be signalled through its node's slot until it ends, and
\* no slot ever leads to a session other than the one that holds the node: a
\* message meant for a node is not put in the lane of the caller before, and
\* the caller before does not take the sender of the caller after along.
SlotsLeadToTheHolder ==
    /\ \A c \in Connections :
         At(c, "Live") => signals[conn[c].node] = SenderOf(c)
    /\ \A n \in Nodes, c \in Connections :
         signals[n] = SenderOf(c) => Holding(c) /\ conn[c].node = n

\* A caller is turned away only while other callers hold every single node;
\* a node whose session is over counts until it is given back.
OnlyAFullPoolRefuses ==
    [][\A c \in Connections :
         ~ At(c, "Refused") /\ At(c, "Refused")' =>
            \A n \in Nodes : \E d \in Connections \ {c} :
                Holding(d) /\ conn[d].node = n]_vars

\* Every caller is answered, with a session or with the busy line, and the
\* node of every session that is over is idle again or already with a caller
\* that asked later.
CallersAnswered ==
    \A c \in Connections :
        /\ At(c, "Accepted") ~> conn[c].stage \in {"Live", "Refused"}
        /\ At(c, "Ended") ~> \/ At(c, "Gone") /\ IsIdle(conn[c].node)
                             \/ \E d \in Connections \ {c} :
                                  Holding(d) /\ conn[d].node = conn[c].node
=============================================================================
