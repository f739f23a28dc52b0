---------------------------- MODULE MessageBases ----------------------------
(* The message bases and the sessions that read, post, answer, delete,
   readdress and move messages in them.

   Every base has one store behind one lock.  A session waits for the lock
   of its current base, for two of them to move a message, and runs its rule
   under it: it loads a message, decides, and writes the files the rule
   changes, one after the other.  Nothing is awaited under a lock except the
   second lock of a move, so a session that is stopped there is stopped by a
   crash of the process.  A write of a file is not atomic: when it fails or
   is cut by a crash the file may be left unreadable.

   A message is its author, its addressee, who may read it, whether the
   addressee has received it, and its body, which stands for everything that
   never changes; a body is known by the place it was posted to, so that a
   message can be followed from base to base.  Every user here is a member of every
   conference.  Attachments and the subject follow the body.

   A definition that is followed by a near copy of itself is a mistake the
   properties are tried against; the model uses the second of the two.      *)
EXTENDS Naturals, Sequences, FiniteSetsExt

CONSTANTS Bases,        \* message bases; their order is that of the numbers
          MaxNumber,    \* bound: messages in a base
          Sessions,     \* calls at the menu
          Users, Sysop,
          Nobody,       \* the addressee of a message to all
          NewUsers,     \* may read and write to the sysop, nothing else
          Editors,      \* access level 210 or more
          Censored,
          Workloads,    \* bound: the bases callers are in, what they ask for and whom they
                        \* write to (Nobody for all), the messages the disk has room for,
                        \* and the failed writes and crashes of a behaviour
          UserOf,       \* the account each session is logged on to
          Seeds         \* the possible contents of the bases at start

VARIABLES files,      \* the file of each number of each base
          highest,    \* the high-water mark the store of each base keeps
          owner,      \* who holds the lock of each base
          task,       \* what each session is doing
          up,         \* does the board run
          faults,     \* failed writes and crashes so far
          asked       \* the workload of this behaviour
vars == <<files, highest, owner, task, up, faults, asked>>

Numbers == 1 .. MaxNumber
\* A body is known by the place its message was first posted to.
Bodies == Bases \X Numbers
NoBase == 0
Free == [held |-> FALSE]
HeldBy(s) == [held |-> TRUE, by |-> s]

Visibilities == {"Public", "Private", "PrivateToSysop"}
Mail == [state : {"mail"}, author : Users, addressee : Users \cup {Nobody},
         visibility : Visibilities \cup {"Deleted"}, received : BOOLEAN, body : Bodies]
NoFile == [state |-> "none"]
Torn == [state |-> "torn"]
IsMail(file) == file.state = "mail"
IsDeleted(mail) == mail.visibility = "Deleted"
IsLive(file) == IsMail(file) /\ ~ IsDeleted(file)

ASSUME BasesAssumption == Bases \subseteq Nat \ {NoBase}
ASSUME NumbersAssumption == MaxNumber \in Nat
ASSUME WorkloadsAssumption ==
    \A w \in Workloads : /\ w.bases \subseteq Bases /\ w.recipients \subseteq Users \cup {Nobody}
                         /\ {w.room, w.faults} \subseteq Nat
ASSUME UsersAssumption ==
    /\ Sysop \in Users /\ Nobody \notin Users
    /\ NewUsers \cup Editors \cup Censored \subseteq Users
    /\ UserOf \in [Sessions -> Users]
ASSUME SeedsAssumption ==
    \A seed \in Seeds :
        /\ seed \in [Bases -> [Numbers -> Mail \cup {NoFile}]]
        /\ \A b \in Bases, n, k \in Numbers : k < n /\ IsMail(seed[b][n]) => IsMail(seed[b][k])
        /\ \A b \in Bases, n \in Numbers :
             IsMail(seed[b][n]) /\ IsDeleted(seed[b][n]) => ~ seed[b][n].received
        /\ \A b \in Bases, n \in Numbers :
             IsMail(seed[b][n]) =>
               LET first == seed[b][n].body IN IsMail(seed[first[1]][first[2]])
        /\ \A b, c \in Bases, n, k \in Numbers :
             IsLive(seed[b][n]) /\ IsLive(seed[c][k]) /\ seed[b][n].body = seed[c][k].body
                => b = c /\ n = k

----------------------------------------------------------------------------
(* What a session is doing.  next is the message the read sub-prompt would
   show next, loaded the one its options act on; 0 while there is none.     *)

\* Menu and Prompt: at the terminal; Showing: about to read a message; Waiting:
\* for the locks of a move; Writing: under the locks, writes still to come.
\* Advancing: the next message is being looked for; Dead: the task panicked.
Reads == {"read", "advance", "again"}

Write(b, n, mail) == [base |-> b, number |-> n, mail |-> mail]
\* The step of a rule at which an expect fails.
Panic == [base |-> NoBase]

AtMenu(b) == [stage |-> "Menu", base |-> b, next |-> 0, loaded |-> 0,
              op |-> "none", target |-> NoBase, writes |-> <<>>]

\* The highest number with a file, as opening a base finds it.
ScannedHighest(file) == Max({n \in Numbers : IsMail(file[n])} \cup {0})

Init == /\ files \in Seeds
        /\ highest = [b \in Bases |-> ScannedHighest(files[b])]
        /\ owner = [b \in Bases |-> Free]
        /\ asked \in Workloads
        /\ task \in [Sessions -> {AtMenu(b) : b \in asked.bases}]
        /\ up = TRUE
        /\ faults = 0

At(s, stage) == task[s].stage = stage
\* The session goes on and nothing else changes.
GoesOn(s, next) == /\ task' = [task EXCEPT ![s] = next]
                   /\ UNCHANGED <<files, highest, owner, up, faults>>

----------------------------------------------------------------------------
(* Who may do what, and the rules: the sequences of writes an operation may
   make, none when it is refused.                                           *)

CanRead(u, mail) ==
    CASE IsDeleted(mail) -> FALSE
      [] ~ IsDeleted(mail) /\ u = Sysop -> TRUE
      [] OTHER -> \/ mail.visibility = "Public"
                  \/ mail.author = u
                  \/ mail.visibility = "Private" /\ mail.addressee = u
CanDelete(u, mail) == u \in Editors \cup {Sysop, mail.author, mail.addressee}
CanEditHeader(u) == u \in Editors \cup {Sysop}
CanMove(u) == u = Sysop \/ u \notin NewUsers
CanPost(u) == u \notin NewUsers

Number(session) ==
    IF session.op \in {"read", "advance"} THEN session.next ELSE session.loaded

\* The message the operation is about, if its file can be read.
Loaded(session) ==
    {file \in {files[session.base][n] : n \in {Number(session)} \cap Numbers} : IsMail(file)}
Saved(session, mail) == <<Write(session.base, Number(session), mail)>>

\* The next number of the base, while the disk has room for a file.
Room == Cardinality({p \in Bases \X Numbers : IsMail(files[p[1]][p[2]])}) < asked.room
NextNumber(b) == {n \in {highest[b] + 1} \cap Numbers : Room}
Inserted(b, mail) == {<<Write(b, n, mail)>> : n \in NextNumber(b)}

RecordReadBy(u, mail) ==
    [mail EXCEPT !.received = @ \/ (mail.addressee = u /\ ~ IsDeleted(mail))]
SoftDeleted(mail) == [mail EXCEPT !.visibility = "Deleted", !.received = FALSE]

\* Whatever the reader changed, a message that was read is saved.
ReadMail(session, u) ==
    {Saved(session, RecordReadBy(u, mail)) :
       mail \in {m \in Loaded(session) : CanRead(u, m)}}

\* A message to all boards is public, a censored author writes to the sysop.
VisibilityOf(u, private, echo) ==
    CASE echo -> "Public"
      [] ~ echo /\ u \in Censored -> "PrivateToSysop"
      [] OTHER -> IF private THEN "Private" ELSE "Public"

ApplyPostMail(session, u, to, private, echo) ==
    UNION {Inserted(session.base,
             [state |-> "mail", author |-> u, addressee |-> to,
              visibility |-> VisibilityOf(u, private, echo), received |-> FALSE,
              body |-> <<session.base, n>>]) :
           n \in NextNumber(session.base)}

\* E to a user, to all or to all boards, C to the sysop.
PostMail(session, u) ==
    ApplyPostMail(session, u, Sysop, TRUE, FALSE)
    \cup UNION {ApplyPostMail(session, u, to, TRUE, FALSE)
                  \cup ApplyPostMail(session, u, to, FALSE, FALSE)
                  \cup ApplyPostMail(session, u, Nobody, FALSE, TRUE) :
                  to \in {v \in asked.recipients : CanPost(u)}}

ReplyToMail(session, u) ==
    UNION {ApplyPostMail(session, u, mail.author, FALSE, FALSE) :
             mail \in {m \in Loaded(session) : CanRead(u, m) /\ CanPost(u)}}

ForwardMail(session, u) ==
    UNION {UNION {ApplyPostMail(session, u, to, mail.visibility # "Public", FALSE) :
                    to \in asked.recipients \cap Users} :
             mail \in {m \in Loaded(session) : CanRead(u, m) /\ CanPost(u)}}

DeleteMail(session, u) ==
    {Saved(session, SoftDeleted(mail)) :
       mail \in {m \in Loaded(session) : ~ IsDeleted(m) /\ CanDelete(u, m)}}

\* The subject, or the subject and the addressee.
EditMailHeader(session, u) ==
    UNION {{Saved(session, mail)}
             \cup {Saved(session, [mail EXCEPT !.addressee = to]) : to \in asked.recipients \cap Users} :
             mail \in {m \in Loaded(session) : CanEditHeader(u)}}

\* A fresh copy first, with its receipt in a second write; then the source
\* is deleted, which a source that is deleted already does not survive.
DeleteThenCopy(insert, receipt, delete) == <<delete>> \o insert \o <<receipt>>
MoveSteps(insert, receipt, delete) == insert \o <<receipt, delete>>

MoveMail(session, u) ==
    UNION {{MoveSteps(insert,
              Write(session.target, insert[1].number, mail),
              IF IsDeleted(mail) THEN Panic ELSE Saved(session, SoftDeleted(mail))[1]) :
              insert \in Inserted(session.target, [mail EXCEPT !.received = FALSE])} :
           mail \in {m \in Loaded(session) : CanMove(u)}}

WritesOf(session, u) ==
    CASE session.op \in Reads -> ReadMail(session, u)
      [] session.op = "post" -> PostMail(session, u)
      [] session.op = "reply" -> ReplyToMail(session, u)
      [] session.op = "forward" -> ForwardMail(session, u)
      [] session.op = "kill" -> DeleteMail(session, u)
      [] session.op = "edit" -> EditMailHeader(session, u)
      [] session.op = "move" -> MoveMail(session, u)

----------------------------------------------------------------------------
(* The locks.  An operation asked for at a prompt begins when it gets the
   lock of its base; what other sessions do before that, they do while this
   one is still at the prompt.                                              *)

\* Where the session goes from an operation that went well or not.
After(session, ok) ==
    LET done == [session EXCEPT !.stage = "Prompt", !.op = "none",
                                !.target = NoBase, !.writes = <<>>]
        shown == [done EXCEPT !.loaded = session.next, !.next = session.next + 1]
        moves == [done EXCEPT !.stage = "Advancing"]
    IN  CASE session.op = "advance" -> shown
          [] session.op = "read" -> IF ok THEN shown ELSE AtMenu(session.base)
          [] session.op \in {"again", "forward"} -> done
          [] session.op = "edit" -> [done EXCEPT !.stage = "Showing", !.op = "again"]
          [] session.op \in {"reply", "kill"} -> moves
          [] session.op = "move" -> IF ok THEN moves ELSE done
          [] session.op = "post" -> AtMenu(session.base)

Held(s) == {b \in Bases : owner[b] = HeldBy(s)}
Released(s) == [b \in Bases |-> IF owner[b] = HeldBy(s) THEN Free ELSE owner[b]]

Ends(s, session, ok) == /\ task' = [task EXCEPT ![s] = After(session, ok)]
                        /\ owner' = Released(s)

\* The last lock session needs is b; with it the rule runs at once.
Unlocked(b) == TRUE
IsFree(b) == owner[b] = Free

Begins(s, session, b) ==
    /\ IsFree(b)
    /\ \/ \E writes \in WritesOf(session, UserOf[s]) :
            /\ task' = [task EXCEPT ![s] = [session EXCEPT !.stage = "Writing",
                                                           !.writes = writes]]
            /\ owner' = [owner EXCEPT ![b] = HeldBy(s)]
       \/ /\ WritesOf(session, UserOf[s]) = {}
          /\ Ends(s, session, FALSE)
    /\ UNCHANGED <<files, highest, up, faults>>

\* lock_pair takes both locks in the order of the bases, whichever is the
\* source's.
SourceFirst(session) == session.base
FirstLock(session) == Min({session.base, session.target})

TakeFirstLock(s) ==
    LET b == FirstLock(task[s]) IN
    /\ At(s, "Waiting") /\ Held(s) = {}
    /\ IsFree(b)
    /\ owner' = [owner EXCEPT ![b] = HeldBy(s)]
    /\ UNCHANGED <<files, highest, task, up, faults>>

BeginMove(s) ==
    /\ At(s, "Waiting")
    /\ \E b \in {task[s].base, task[s].target} :
         /\ Held(s) = {task[s].base, task[s].target} \ {b}
         /\ Begins(s, task[s], b)

----------------------------------------------------------------------------
(* The menu and the read sub-prompt.                                        *)

Join(s, b) == At(s, "Menu") /\ GoesOn(s, AtMenu(b))

BeginRead(s, n) ==
    /\ At(s, "Menu")
    /\ Begins(s, [task[s] EXCEPT !.op = "read", !.next = n], task[s].base)

BeginPost(s) ==
    /\ At(s, "Menu") /\ "post" \in asked.operations
    /\ Begins(s, [task[s] EXCEPT !.op = "post"], task[s].base)

\* The walk over 1 .. highest stops at the first live message and gives up
\* at a file it cannot read.
Lowest(b) == Min({n \in 1 .. highest[b] : IsLive(files[b][n])} \cup {highest[b] + 1})
BoundsKnown(b) == \A n \in 1 .. Lowest(b) - 1 : files[b][n] # Torn

\* The read pointer of the account decides where, at or above the lowest.
OpenAtPointer(s) ==
    /\ At(s, "Menu")
    /\ IsFree(task[s].base)
    /\ BoundsKnown(task[s].base)
    /\ \E n \in Lowest(task[s].base) .. highest[task[s].base] + 1 :
         GoesOn(s, [task[s] EXCEPT !.stage = "Prompt", !.next = n])

\* What stands under next becomes the loaded message, shown or not; by then it
\* may have changed.
Advance(s) ==
    LET b == task[s].base IN
    /\ task[s].stage \in {"Prompt", "Advancing"}
    /\ IsFree(b)
    /\ GoesOn(s, IF BoundsKnown(b) /\ task[s].next \in Lowest(b) .. highest[b]
                   THEN [task[s] EXCEPT !.stage = "Showing", !.op = "advance"]
                   ELSE AtMenu(b))

Show(s) == At(s, "Showing") /\ Begins(s, task[s], task[s].base)

\* The options on the loaded message.
BeginOption(s, op) ==
    /\ At(s, "Prompt") /\ task[s].loaded # 0
    /\ \/ op \in {"again", "reply", "forward"}
       \/ op = "kill" /\ \E mail \in Loaded(task[s]) : CanDelete(UserOf[s], mail)
       \/ op = "edit" /\ CanEditHeader(UserOf[s])
    /\ Begins(s, [task[s] EXCEPT !.op = op], task[s].base)

AskToMove(s, target) ==
    /\ At(s, "Prompt") /\ task[s].loaded # 0
    /\ CanMove(UserOf[s])
    /\ target # task[s].base
    /\ GoesOn(s, [task[s] EXCEPT !.stage = "Waiting", !.op = "move", !.target = target])

\* Q, or the end of the call.
Leave(s) == /\ task[s].stage \in {"Prompt", "Advancing"}
            /\ GoesOn(s, AtMenu(task[s].base))

----------------------------------------------------------------------------
(* The writes.                                                              *)

\* Stopped before a write, which is not the failing expect.
Writes(s) == At(s, "Writing") /\ Head(task[s].writes) # Panic

WriteFile(s) ==
    LET write == Head(task[s].writes) IN
    /\ Writes(s)
    /\ files' = [files EXCEPT ![write.base][write.number] = write.mail]
    /\ highest' = [highest EXCEPT ![write.base] = Max({@, write.number})]
    /\ IF Len(task[s].writes) = 1
         THEN Ends(s, task[s], TRUE)
         ELSE /\ task' = [task EXCEPT ![s].writes = Tail(@)]
              /\ UNCHANGED owner
    /\ UNCHANGED <<up, faults>>

\* The error of a write ends the rule where it stands.
CountFirst(s) ==
    LET write == Head(task[s].writes) IN
    /\ Writes(s)
    /\ faults < asked.faults
    /\ faults' = faults + 1
    /\ files' \in {files, [files EXCEPT ![write.base][write.number] = Torn]}
    /\ highest' = [highest EXCEPT ![write.base] = Max({@, write.number})]
    /\ Ends(s, task[s], FALSE)
    /\ UNCHANGED up
WriteFails(s) ==
    LET write == Head(task[s].writes) IN
    /\ Writes(s)
    /\ faults < asked.faults
    /\ faults' = faults + 1
    /\ files' \in {files, [files EXCEPT ![write.base][write.number] = Torn]}
    /\ Ends(s, task[s], FALSE)
    /\ UNCHANGED <<highest, up>>

\* The task unwinds: its locks are free again, its node is not.
Panics(s) ==
    /\ At(s, "Writing") /\ Head(task[s].writes) = Panic
    /\ task' = [task EXCEPT ![s] = [AtMenu(@.base) EXCEPT !.stage = "Dead"]]
    /\ owner' = Released(s)
    /\ UNCHANGED <<files, highest, up, faults>>

\* The process dies, in the middle of the writes of cut, and is started again.
\* Opening a base reads every file of it; one that cannot be read, and the
\* board does not start.
Crash ==
    /\ faults < asked.faults
    /\ faults' = faults + 1
    /\ \E cut \in SUBSET {s \in Sessions : Writes(s)} :
         LET torn == {Head(task[s].writes) : s \in cut} IN
         files' = [b \in Bases |-> [n \in Numbers |->
                     IF \E write \in torn : write.base = b /\ write.number = n
                       THEN Torn ELSE files[b][n]]]
    /\ up' = \A b \in Bases, n \in Numbers : files'[b][n] # Torn
    /\ highest' = IF up' THEN [b \in Bases |-> ScannedHighest(files'[b])] ELSE highest
    /\ owner' = [b \in Bases |-> Free]
    /\ task' = [s \in Sessions |-> AtMenu(task[s].base)]

----------------------------------------------------------------------------
Answers(s) ==
    \/ \E b \in asked.bases : Join(s, b) \/ AskToMove(s, b)
    \/ \E n \in Numbers : BeginRead(s, n)
    \/ BeginPost(s)
    \/ OpenAtPointer(s)
    \/ \E op \in asked.operations : BeginOption(s, op)
    \/ Leave(s)

Locks(s) == Advance(s) \/ Show(s) \/ TakeFirstLock(s) \/ BeginMove(s)
Runs(s) == WriteFile(s) \/ WriteFails(s) \/ Panics(s)

Next == /\ up /\ UNCHANGED asked
        /\ \/ \E s \in Sessions : Answers(s) \/ Locks(s) \/ Runs(s)
           \/ Crash

Spec == Init /\ [][Next]_vars

\* A lock goes to whoever has waited for it longest, so who waits gets it in
\* the end; what is done under it is not interrupted.
FairSpec ==
    /\ Spec
    /\ \A s \in Sessions :
         /\ WF_vars(up /\ Runs(s) /\ UNCHANGED asked)
         /\ SF_vars(up /\ ~ At(s, "Prompt") /\ Locks(s) /\ UNCHANGED asked)

----------------------------------------------------------------------------
(* Properties.                                                              *)

\* Every number up to the mark of a base has a file and no number above it
\* has a message, whatever failed in between: at most the remains of the one
\* insert that failed last (messaging.allium HighestMessageMatchesMaxNumber).
HighestMessageMatchesMaxNumber ==
    \A b \in Bases, n \in Numbers :
        /\ n <= highest[b] => files[b][n] # NoFile
        /\ n > highest[b] => ~ IsMail(files[b][n])
        /\ n > highest[b] + 1 => files[b][n] = NoFile

\* Each base is a log, whatever sessions, failures and crashes do to it: no
\* number is given twice, no deletion undone, no receipt lost, no author or
\* text exchanged (the rules each load a message and save all of it).
Log == INSTANCE MailLog WITH
         log <- [b \in Bases |-> [n \in Numbers |->
                   IF files[b][n] # Torn THEN files[b][n]
                   ELSE IF n <= highest[b] THEN [state |-> "lost"] ELSE NoFile]]
BasesKeepTheLog == Log!Spec

LiveSomewhere(body) ==
    \E b \in Bases, n \in Numbers : IsLive(files[b][n]) /\ files[b][n].body = body

\* A message that can be read can be read until somebody who may deletes it
\* or a write to its own file is cut: at no point of a move is it nowhere, so
\* no error and no crash in a move loses it (move_mail copies, then deletes).
KeptUntilKilled ==
    [][\A body \in Bodies : LiveSomewhere(body) /\ ~ LiveSomewhere(body)' =>
         \/ \E s \in Sessions :
              /\ At(s, "Writing") /\ task[s].op = "kill"
              /\ \E mail \in Loaded(task[s]) : mail.body = body /\ CanDelete(UserOf[s], mail)
         \/ \E b \in Bases, n \in Numbers :
              IsMail(files[b][n]) /\ files[b][n].body = body /\ files'[b][n] = Torn]_vars

\* While no write failed, a message is in two places only inside the move
\* that holds the locks of both: no two moves copy it apart (lock_pair).
InOnePlace ==
    faults = 0 =>
        \A b, c \in Bases, n, k \in Numbers :
            /\ IsLive(files[b][n]) /\ IsLive(files[c][k])
            /\ files[b][n].body = files[c][k].body
            /\ <<b, n>> # <<c, k>>
            => \E s \in Sessions : At(s, "Writing") /\ {b, c} = Held(s)

\* Every operation that asked for a lock gets it and comes to its end, two
\* moves in opposite directions included.
OperationsEnd ==
    \A s \in Sessions :
        task[s].stage \in {"Advancing", "Showing", "Waiting", "Writing"}
            ~> task[s].stage \in {"Menu", "Prompt", "Dead"}

----------------------------------------------------------------------------
(* What the repository's documents say and the code does not do.            *)

\* move_mail, On error no state is mutated on either store.
FailedMoveMutatesNothing ==
    [][\A s \in Sessions :
         /\ At(s, "Writing") /\ task[s].op = "move"
         /\ (At(s, "Prompt"))' /\ up'
         => Len(task[s].writes) = 3]_vars
=============================================================================
