--------------------------- MODULE NodePoolProofs ---------------------------
(* Theorems about NodePool, for every size of the pool and any set of
   connections.                                                            *)
EXTENDS NodePool, TLAPS, WellFoundedInduction

\* A sender is in the pool from the moment it is attached to the moment its
\* own task takes it out, and it is in the slot of the task's node.
SlotSound(c) ==
    /\ At(c, "Live") => signals[conn[c].node] = SenderOf(c)
    /\ \A n \in Nodes :
         signals[n] = SenderOf(c) => (At(c, "Live") \/ At(c, "Ended")) /\ conn[c].node = n

\* The node of a task is connecting as long as the task holds it: nothing in
\* the program moves it on.
NodeSound(c) ==
    Holding(c) => status[conn[c].node] = "Connecting"

Unshared(c, d) ==
    Holding(c) /\ Holding(d) /\ c # d => conn[c].node # conn[d].node

BusyIsHeld(n) ==
    ~ IsIdle(n) => \E c \in Connections : Holding(c) /\ conn[c].node = n

IInv == /\ TypeOK
        /\ \A c \in Connections : SlotSound(c) /\ NodeSound(c)
        /\ \A c, d \in Connections : Unshared(c, d)
        /\ \A n \in Nodes : BusyIsHeld(n)

----------------------------------------------------------------------------

\* Senders of different connections differ, and each from the empty slot.
LEMMA Senders ==
    ASSUME NEW c, NEW d
    PROVE  /\ SenderOf(c) # NoSender
           /\ SenderOf(c) = SenderOf(d) => c = d
BY DEF SenderOf, NoSender

\* A task that goes to a stage takes no other task along.
LEMMA StageOnly ==
    ASSUME NEW c \in Connections, NEW d \in Connections, NEW stage,
           conn \in [Connections -> Connection],
           conn' = [conn EXCEPT ![d].stage = stage],
           conn'[c].stage # conn[c].stage
    PROVE  c = d /\ conn'[c].stage = stage
BY DEF Connection

\* The scan for the first idle node finds one when there is one.
LEMMA IdleIsFound ==
    ASSUME NEW m \in Nodes, IsIdle(m)
    PROVE  \E n \in Nodes : FirstIdle(n)
<1> DEFINE idle == {n \in Nodes : IsIdle(n)}
<1>1. idle \subseteq Nat /\ idle # {}
  BY MaxNodesAssumption DEF Nodes
<1>2. PICK n \in idle : \A k \in idle : ~ (<<k, n>> \in OpToRel(<, Nat))
  BY <1>1, NatLessThanWellFounded, WFMin
<1>3. \A k \in Nodes : k < n => ~ IsIdle(k)
  <2> SUFFICES ASSUME NEW k \in Nodes, k < n, IsIdle(k)
               PROVE  FALSE
    OBVIOUS
  <2>1. <<k, n>> \in Nat \X Nat /\ k \in idle
    BY <1>1
  <2> QED
    BY <1>2, <2>1 DEF OpToRel
<1> QED
  BY <1>2, <1>3 DEF FirstIdle

LEMMA Initially == Init => IInv
BY Senders DEF Init, IInv, TypeOK, Connection, Stages, NodeStatus, SlotSound, NodeSound,
               Unshared, BusyIsHeld, Holding, At, IsIdle

----------------------------------------------------------------------------
(* One lemma per step that changes what a task holds; the others move a task
   between stages that hold the same.                                      *)

LEMMA AllocateKeeps ==
    ASSUME IInv, NEW c \in Connections, Allocate(c)
    PROVE  IInv'
<1>1. PICK n \in Nodes :
        /\ IsIdle(n)
        /\ status' = [status EXCEPT ![n] = "Connecting"]
        /\ conn' = [conn EXCEPT ![c] = [stage |-> "Allocated", node |-> n]]
  BY DEF Allocate, FirstIdle
<1>2. signals' = signals /\ At(c, "Accepted")
  BY DEF Allocate
<1>3. /\ conn'[c] = [stage |-> "Allocated", node |-> n]
      /\ \A d \in Connections \ {c} : conn'[d] = conn[d]
      /\ status'[n] = "Connecting" /\ status[n] = "Idle"
      /\ \A m \in Nodes \ {n} : status'[m] = status[m]
  BY <1>1 DEF IInv, TypeOK, IsIdle
<1>4. \A d \in Connections : Holding(d) => conn[d].node # n
  BY <1>3 DEF IInv, NodeSound
<1>5. TypeOK'
  BY <1>1, <1>2, <1>3 DEF IInv, TypeOK, Connection, Stages, NodeStatus, Holding
<1>6. ASSUME NEW d \in Connections
      PROVE  SlotSound(d)' /\ NodeSound(d)'
  BY <1>2, <1>3, <1>4 DEF IInv, TypeOK, SlotSound, NodeSound, Holding, At
<1>7. ASSUME NEW d \in Connections, NEW e \in Connections
      PROVE  Unshared(d, e)'
  BY <1>3, <1>4 DEF IInv, Unshared, Holding
<1>8. ASSUME NEW m \in Nodes
      PROVE  BusyIsHeld(m)'
  <2>1. CASE m = n
    BY <1>3, <2>1 DEF BusyIsHeld, Holding
  <2>2. CASE m # n
    <3> SUFFICES ASSUME ~ IsIdle(m)
                 PROVE  \E d \in Connections : Holding(d)' /\ conn'[d].node = m
      BY <1>3, <2>2 DEF BusyIsHeld, IsIdle
    <3>1. PICK d \in Connections : Holding(d) /\ conn[d].node = m
      BY DEF IInv, BusyIsHeld
    <3>2. d # c
      BY <1>2, <3>1 DEF At, Holding
    <3> QED
      BY <1>3, <3>1, <3>2 DEF Holding
  <2> QED
    BY <2>1, <2>2
<1> QED
  BY <1>5, <1>6, <1>7, <1>8 DEF IInv

LEMMA AttachKeeps ==
    ASSUME IInv, NEW c \in Connections, AttachSignalSender(c)
    PROVE  IInv'
<1> DEFINE mine == conn[c].node
<1>1. /\ At(c, "Allocated") /\ mine \in Nodes /\ status' = status
      /\ signals' = [signals EXCEPT ![mine] = SenderOf(c)]
      /\ conn' = [conn EXCEPT ![c].stage = "Live"]
  BY DEF AttachSignalSender, GoesTo, IInv, TypeOK, Holding, At
<1>2. /\ conn'[c].stage = "Live" /\ conn'[c].node = mine
      /\ \A d \in Connections \ {c} : conn'[d] = conn[d]
      /\ \A d \in Connections : conn'[d].node = conn[d].node
      /\ signals'[mine] = SenderOf(c)
      /\ \A m \in Nodes \ {mine} : signals'[m] = signals[m]
  BY <1>1 DEF IInv, TypeOK, Connection
<1>3. \A d \in Connections : Holding(d)' <=> Holding(d)
  BY <1>1, <1>2 DEF Holding, At
<1>4. TypeOK'
  BY <1>1, <1>2, <1>3 DEF IInv, TypeOK, Connection, Stages
<1>5. ASSUME NEW d \in Connections
      PROVE  SlotSound(d)' /\ NodeSound(d)'
  <2>1. NodeSound(d)'
    BY <1>1, <1>2, <1>3 DEF IInv, NodeSound
  <2>2. SlotSound(d)'
    <3>1. CASE d = c
      <4>1. \A n \in Nodes : signals[n] # SenderOf(c)
        BY <1>1 DEF IInv, SlotSound, At
      <4> QED
        BY <1>2, <3>1, <4>1 DEF SlotSound, At
    <3>2. CASE d # c
      <4>1. SenderOf(c) # SenderOf(d)
        BY <3>2, Senders
      <4>2. At(d, "Live") => conn[d].node # mine
        BY <1>1, <3>2 DEF IInv, Unshared, Holding, At
      <4>3. At(d, "Live") => conn[d].node \in Nodes
        BY DEF IInv, TypeOK, Holding, At
      <4> QED
        BY <1>2, <3>2, <4>1, <4>2, <4>3 DEF IInv, SlotSound, At
    <3> QED
      BY <3>1, <3>2
  <2> QED
    BY <2>1, <2>2
<1>6. ASSUME NEW d \in Connections, NEW e \in Connections
      PROVE  Unshared(d, e)'
  BY <1>2, <1>3 DEF IInv, Unshared
<1>7. ASSUME NEW m \in Nodes
      PROVE  BusyIsHeld(m)'
  BY <1>1, <1>2, <1>3 DEF IInv, BusyIsHeld, IsIdle
<1> QED
  BY <1>4, <1>5, <1>6, <1>7 DEF IInv

LEMMA EndKeeps ==
    ASSUME IInv, NEW c \in Connections, EndSession(c)
    PROVE  IInv'
<1>1. /\ At(c, "Live") /\ status' = status /\ signals' = signals
      /\ conn' = [conn EXCEPT ![c].stage = "Ended"]
  BY DEF EndSession, GoesTo
<1>2. /\ conn'[c].stage = "Ended"
      /\ \A d \in Connections \ {c} : conn'[d] = conn[d]
      /\ \A d \in Connections : conn'[d].node = conn[d].node
  BY <1>1 DEF IInv, TypeOK, Connection
<1>3. \A d \in Connections : Holding(d)' <=> Holding(d)
  BY <1>1, <1>2 DEF Holding, At
<1>4. TypeOK'
  BY <1>1, <1>2, <1>3 DEF IInv, TypeOK, Connection, Stages
<1>5. ASSUME NEW d \in Connections
      PROVE  SlotSound(d)' /\ NodeSound(d)'
  BY <1>1, <1>2, <1>3 DEF IInv, NodeSound, SlotSound, At
<1>6. ASSUME NEW d \in Connections, NEW e \in Connections
      PROVE  Unshared(d, e)'
  BY <1>2, <1>3 DEF IInv, Unshared
<1>7. ASSUME NEW m \in Nodes
      PROVE  BusyIsHeld(m)'
  BY <1>1, <1>2, <1>3 DEF IInv, BusyIsHeld, IsIdle
<1> QED
  BY <1>4, <1>5, <1>6, <1>7 DEF IInv

LEMMA ClearKeeps ==
    ASSUME IInv, NEW c \in Connections, ClearSignalSender(c)
    PROVE  IInv'
<1> DEFINE mine == conn[c].node
<1>1. /\ At(c, "Ended") /\ mine \in Nodes /\ status' = status
      /\ signals' = [signals EXCEPT ![mine] = NoSender]
      /\ conn' = [conn EXCEPT ![c].stage = "Cleared"]
  BY DEF ClearSignalSender, GoesTo, IInv, TypeOK, Holding, At
<1>2. /\ conn'[c].stage = "Cleared"
      /\ \A d \in Connections \ {c} : conn'[d] = conn[d]
      /\ \A d \in Connections : conn'[d].node = conn[d].node
      /\ signals'[mine] = NoSender
      /\ \A m \in Nodes \ {mine} : signals'[m] = signals[m]
  BY <1>1 DEF IInv, TypeOK, Connection
<1>3. \A d \in Connections : Holding(d)' <=> Holding(d)
  BY <1>1, <1>2 DEF Holding, At
<1>4. TypeOK'
  BY <1>1, <1>2, <1>3 DEF IInv, TypeOK, Connection, Stages
<1>5. ASSUME NEW d \in Connections
      PROVE  SlotSound(d)' /\ NodeSound(d)'
  <2>1. NodeSound(d)'
    BY <1>1, <1>2, <1>3 DEF IInv, NodeSound
  <2>2. SlotSound(d)'
    <3>1. SenderOf(d) # NoSender
      BY Senders
    <3>2. CASE d = c
      BY <1>1, <1>2, <3>1, <3>2 DEF IInv, SlotSound, At
    <3>3. CASE d # c
      <4>1. At(d, "Live") => conn[d].node # mine /\ conn[d].node \in Nodes
        BY <1>1, <3>3 DEF IInv, TypeOK, Unshared, Holding, At
      <4> QED
        BY <1>2, <3>1, <3>3, <4>1 DEF IInv, SlotSound, At
    <3> QED
      BY <3>2, <3>3
  <2> QED
    BY <2>1, <2>2
<1>6. ASSUME NEW d \in Connections, NEW e \in Connections
      PROVE  Unshared(d, e)'
  BY <1>2, <1>3 DEF IInv, Unshared
<1>7. ASSUME NEW m \in Nodes
      PROVE  BusyIsHeld(m)'
  BY <1>1, <1>2, <1>3 DEF IInv, BusyIsHeld, IsIdle
<1> QED
  BY <1>4, <1>5, <1>6, <1>7 DEF IInv

LEMMA FreeKeeps ==
    ASSUME IInv, NEW c \in Connections, FreeNode(c)
    PROVE  IInv'
<1> DEFINE mine == conn[c].node
<1>1. /\ At(c, "Cleared") /\ mine \in Nodes /\ signals' = signals
      /\ status[mine] = "Connecting"
      /\ conn' = [conn EXCEPT ![c].stage = "Gone"]
  BY DEF FreeNode, GoesTo, IInv, TypeOK, NodeSound, Holding, At
<1>2. status' = [status EXCEPT ![mine] = "Idle"]
  BY <1>1 DEF FreeNode, IsTransitionAllowed, IInv, TypeOK
<1>3. /\ conn'[c].stage = "Gone"
      /\ \A d \in Connections \ {c} : conn'[d] = conn[d]
      /\ \A d \in Connections : conn'[d].node = conn[d].node
      /\ status'[mine] = "Idle"
      /\ \A m \in Nodes \ {mine} : status'[m] = status[m]
  BY <1>1, <1>2 DEF IInv, TypeOK, Connection
<1>4. \A d \in Connections : Holding(d)' <=> Holding(d) /\ d # c
  BY <1>1, <1>3 DEF Holding, At
<1>5. TypeOK'
  BY <1>1, <1>2, <1>3, <1>4 DEF IInv, TypeOK, Connection, Stages, NodeStatus
<1>6. ASSUME NEW d \in Connections
      PROVE  SlotSound(d)' /\ NodeSound(d)'
  <2>1. d # c /\ Holding(d) => conn[d].node # mine /\ conn[d].node \in Nodes
    BY <1>1 DEF IInv, TypeOK, Unshared, Holding, At
  <2>2. NodeSound(d)'
    BY <1>3, <1>4, <2>1 DEF IInv, NodeSound
  <2>3. SlotSound(d)'
    BY <1>1, <1>3 DEF IInv, SlotSound, At
  <2> QED
    BY <2>2, <2>3
<1>7. ASSUME NEW d \in Connections, NEW e \in Connections
      PROVE  Unshared(d, e)'
  BY <1>3, <1>4 DEF IInv, Unshared
<1>8. ASSUME NEW m \in Nodes
      PROVE  BusyIsHeld(m)'
  BY <1>3, <1>4 DEF IInv, BusyIsHeld, IsIdle
<1> QED
  BY <1>5, <1>6, <1>7, <1>8 DEF IInv

\* A task that is accepted or refused has nothing, before and after.
LEMMA WithoutNodeKeeps ==
    ASSUME IInv, NEW c \in Connections, Accept(c) \/ Refuse(c)
    PROVE  IInv'
<1>1. /\ ~ Holding(c) /\ status' = status /\ signals' = signals
      /\ \E stage \in {"Accepted", "Refused"} :
           conn' = [conn EXCEPT ![c].stage = stage]
  BY DEF Accept, Refuse, GoesTo, At, Holding
<1>2. /\ conn'[c].stage \in {"Accepted", "Refused"}
      /\ \A d \in Connections \ {c} : conn'[d] = conn[d]
      /\ \A d \in Connections : conn'[d].node = conn[d].node
  BY <1>1 DEF IInv, TypeOK, Connection
<1>3. \A d \in Connections : Holding(d)' <=> Holding(d)
  BY <1>1, <1>2 DEF Holding
<1>4. TypeOK'
  BY <1>1, <1>2, <1>3 DEF IInv, TypeOK, Connection, Stages
<1>5. ASSUME NEW d \in Connections
      PROVE  SlotSound(d)' /\ NodeSound(d)'
  BY <1>1, <1>2, <1>3 DEF IInv, NodeSound, SlotSound, At, Holding
<1>6. ASSUME NEW d \in Connections, NEW e \in Connections
      PROVE  Unshared(d, e)'
  BY <1>2, <1>3 DEF IInv, Unshared
<1>7. ASSUME NEW m \in Nodes
      PROVE  BusyIsHeld(m)'
  BY <1>1, <1>2, <1>3 DEF IInv, BusyIsHeld, IsIdle
<1> QED
  BY <1>4, <1>5, <1>6, <1>7 DEF IInv

LEMMA StutterKeeps == IInv /\ UNCHANGED vars => IInv'
BY DEF IInv, TypeOK, vars, SlotSound, NodeSound, Unshared, BusyIsHeld, Holding, At, IsIdle

LEMMA InvariantHolds == Spec => []IInv
<1>1. IInv /\ [Next]_vars => IInv'
  <2> SUFFICES ASSUME IInv, [Next]_vars
               PROVE  IInv'
    OBVIOUS
  <2>1. CASE UNCHANGED vars
    BY <2>1, StutterKeeps
  <2>2. ASSUME NEW c \in Connections, Accept(c) \/ Runs(c) \/ EndSession(c)
        PROVE  IInv'
    BY <2>2, AllocateKeeps, AttachKeeps, EndKeeps, ClearKeeps, FreeKeeps,
       WithoutNodeKeeps DEF Runs
  <2> QED
    BY <2>1, <2>2 DEF Next
<1> QED
  BY <1>1, Initially, PTL DEF Spec

----------------------------------------------------------------------------

\* Node numbers, statuses and senders stay what they are, and a task that
\* holds a node knows its number.
THEOREM TypeCorrect == Spec => []TypeOK
<1>1. IInv => TypeOK
  BY DEF IInv
<1> QED
  BY <1>1, InvariantHolds, PTL

\* No node is given to two callers, whatever the size of the pool and however
\* the tasks interleave, and a node is idle exactly when nobody has it.
THEOREM NodesAreHeldOnce == Spec => []NodesHeldOnce
<1>1. IInv => NodesHeldOnce
  BY DEF IInv, NodesHeldOnce, Unshared, BusyIsHeld, NodeSound, IsIdle
<1> QED
  BY <1>1, InvariantHolds, PTL

\* The slot of a live session's node has its sender, and no slot has that of
\* a task which no longer holds the node.
THEOREM SlotsAlwaysLeadToTheHolder == Spec => []SlotsLeadToTheHolder
<1>1. IInv => SlotsLeadToTheHolder
  BY DEF IInv, SlotsLeadToTheHolder, SlotSound, Holding, At
<1> QED
  BY <1>1, InvariantHolds, PTL

\* A caller is turned away only while others hold every node.
THEOREM RefusalsAreDue == Spec => OnlyAFullPoolRefuses
<1>1. ASSUME IInv, [Next]_vars, NEW c \in Connections,
             ~ At(c, "Refused"), At(c, "Refused")', NEW n \in Nodes
      PROVE  \E d \in Connections \ {c} : Holding(d) /\ conn[d].node = n
  <2>1. Refuse(c)
    <3>1. PICK d \in Connections : Accept(d) \/ Runs(d) \/ EndSession(d)
      BY <1>1 DEF Next, vars, At
    <3>2. conn'[c].stage = "Refused" /\ conn[c].stage # "Refused"
      BY <1>1 DEF At
    <3>3. conn \in [Connections -> Connection]
      BY <1>1 DEF IInv, TypeOK
    <3>4. CASE Accept(d)
      BY <3>2, <3>3, <3>4, StageOnly DEF Accept, GoesTo
    <3>5. CASE Allocate(d)
      BY <3>2, <3>3, <3>5 DEF Allocate
    <3>6. CASE AttachSignalSender(d)
      BY <3>2, <3>3, <3>6, StageOnly DEF AttachSignalSender, GoesTo
    <3>7. CASE EndSession(d)
      BY <3>2, <3>3, <3>7, StageOnly DEF EndSession, GoesTo
    <3>8. CASE ClearSignalSender(d)
      BY <3>2, <3>3, <3>8, StageOnly DEF ClearSignalSender, GoesTo
    <3>9. CASE FreeNode(d)
      BY <3>2, <3>3, <3>9, StageOnly DEF FreeNode, GoesTo
    <3>10. CASE Refuse(d)
      BY <3>2, <3>3, <3>10, StageOnly DEF Refuse, GoesTo
    <3> QED
      BY <3>1, <3>4, <3>5, <3>6, <3>7, <3>8, <3>9, <3>10 DEF Runs
  <2>2. ~ IsIdle(n)
    <3> SUFFICES ASSUME IsIdle(n)
                 PROVE  FALSE
      OBVIOUS
    <3>1. PICK m \in Nodes : FirstIdle(m)
      BY IdleIsFound
    <3> QED
      BY <2>1, <3>1 DEF Refuse, FirstIdle, IsIdle, IsTransitionAllowed
  <2>3. PICK d \in Connections : Holding(d) /\ conn[d].node = n
    BY <1>1, <2>2 DEF IInv, BusyIsHeld
  <2>4. d # c
    BY <2>1, <2>3 DEF Refuse, At, Holding
  <2> QED
    BY <2>3, <2>4
<1>2. IInv /\ [Next]_vars =>
        [\A c \in Connections :
           ~ At(c, "Refused") /\ At(c, "Refused")' =>
              \A n \in Nodes : \E d \in Connections \ {c} :
                  Holding(d) /\ conn[d].node = n]_vars
  BY <1>1
<1> QED
  BY <1>2, InvariantHolds, PTL DEF Spec, OnlyAFullPoolRefuses
=============================================================================
