# NextExpress in TLA+

NextExpress is a bulletin board in the manner of AmiExpress, written in Rust
(`src/rust/src`). Callers connect over telnet; every connection is a tokio task
that signs its caller in, runs a menu and leaves, and all of them share a pool
of nodes, a table of users and a set of message bases. This directory holds
TLA+ models of that program, the TLC configurations that check them, and proofs
checked by TLAPS.

The specifications under `src/specs/*.allium` and the legacy sources under
`src/AmiExpress` describe what the program should do; the modules here are
written from what the Rust code does. Where the two part, a run shows it (see
"Where documents and code differ").

## The system

| Part | State | Operations | What is hard about it |
|---|---|---|---|
| User records (`domain/user`) | the account: credentials, lock, strikes, counters, memberships with scan flags and pointers, last conference | three write commands: authentication outcome, password change, sparse patch | several calls of one account write from stale copies |
| Sessions (`domain/session`, `app/session_driver.rs`, `app/*_flow.rs`) | phase, retry counters, a copy of the account and the baseline it was last persisted at, time budget, reason of the end | identify, verify, register, reset, rejoin, enter menu, tick, leave, finalise | several routes to the menu, failing stores and terminals, calls that drop anywhere |
| User repositories (`adapters/*_user_repository.rs`) | the table, or three SQLite tables | one critical section per method; SQLite: several statements, a mutex, a busy timeout | check-then-act between two of them, transactions that read before they write, a second connection |
| Node pool (`app/node_pool.rs`, `adapters/telnet_listener`) | the status of every node, a signal lane per node | allocate, attach, release | two locks; release is two critical sections; a full pool |
| Message bases (`domain/messaging`, `adapters/*mail_store*.rs`) | a file per message, a high-water mark, a lock per base | post, read, reply, forward, delete, edit header, move | read-modify-write, two locks for a move, writes that fail or are torn, restarts |
| Editors and composition (`app/menu_flow/post_mail.rs`, `reply_forward.rs`, `domain/messaging`) | a message under way | prompts, line editor, addressing, quoting, size limits | rules of addressing and privacy that meet in one message |
| Mail scan, conferences and visits | the open visit, granted conferences, read and scan pointers, scan flags | rejoin, join, previous, next, scan with a detour to read, edit flags | pointers and flags of two calls merged; mail that comes and goes during a scan |
| Flagged files | a set per session, a stored set per account | flag, clear, restore, save | a failed load followed by a save |
| File areas and listing | the page, its pause state, the numbers on screen | list, zippy, new files, flag by number | paging states, numbers that go stale |
| Pager | lines, page length, non-stop | count, add, answer | off by one, a block over the edge |
| Telnet codec and terminal, colour filter | partial line, one byte pushed back, signal lane | read line, read key, write | bytes in any pieces, cancelled reads |
| Screens (`adapters/file_screen_repository.rs`) | a cache per kind of screen | look up, fall through, store | two sessions fill one entry, files change under the walk |
| Start (`bootstrap.rs`, `adapters/file_conference_repository.rs`, `app/seed.rs`) | the conference directories, the database, the directories of the bases | load, seed, open, listen | a start makes what the next one reads, and may be cut short anywhere |
| Menu dispatcher, caller log, presenters, configuration file, hasher | none, or append only | | parsing and output |

The parts meet in four places. A listener task asks the pool for a node, runs
a session and gives the node back. A session reads a row once, when the name is
typed, and from then on works on its own copy; it speaks to the table only in
write commands, which merge its changes into whatever the row has become. At
the menu it takes the lock of a message base for each operation. Posting,
reading and scanning also change the session's copy, which is persisted when the
call ends.

## Modules

`<-` points from a module to those that extend it.

    UserRecords  <- AccountSessions <- MCAccountSessions      (INSTANCE AccountLedger)
    AccountSessions <- AccountSessionsProofs
    UserAggregate <- UserStore
    UserAggregate <- UserRows                            (INSTANCE UserStore)
    UserAggregate <- CallRecord
    UserRows     <- UserRowsProofs
    CallRecord   <- CallRecordProofs
    NodePool, CallRecord <- MCCalls
    NodePool     <- NodePoolProofs
    MessageBases <- MCMessageBases                       (INSTANCE MailLog)
    MessageBases <- MessageBasesProofs
    TelnetTerminal <- ColourTerminal
    Conferences, MailDesk <- MCCallers                   (INSTANCE ColourTerminal)
    Conferences, MailDesk <- CallersProofs
    MenuCommands, FlaggedFiles <- FileListing <- MessageList <- MCFiles
    MessageList  <- FilesProofs
    NodePool     <- Board <- MCBoard                     (INSTANCE MessageBases)
    Startup, UserRows, Screens <- MCDisk
    Startup, Screens <- DiskProofs

**UserRecords** holds the account and the merge rules of `domain/user/commands.rs`
as pure operators, as far as two sessions can disturb one another: what an
authentication outcome, a password change and a patch do to a row
(`ApplyAuthOutcome`, `ApplyPasswordChange`, `ApplyPatch`), and what a session
does to its copy. A password stands for its hash. One field stands for every
family of fields that merges alike: `times_called_today` for the daily counters,
`last_joined` for the last-writer-wins fields, one message base per conference
for all of its bases.

**AccountSessions** has the table (`store`), the sessions (`call`), the highest
message of each conference, the clock and the number of connections accepted.
An action is what one call does between two points at which another can
interleave. That is at most one repository call, which is atomic in both
adapters, with the changes of the session's own state around it. `call[s].user`
is `Session::user`, `call[s].base` the `persisted` baseline, `strikes` the
counter of the prompt the call is at (the code keeps one in each phase).
`StoreFails` and `Crash` are the failures; `Ended` sessions keep nothing.

**AccountLedger** is what the table promises whoever reads it: posts, logons and
strikes are only ever added, one by one or as a whole at the end of a call; a
lost call takes only its own entry along; pointers and times never go back.

**UserAggregate** is the account whole: every field group of the `User`
aggregate that something decides on, the changes a session makes to its copy,
and `UserPatch::between` with `apply_to` down to single memberships and pointers.

**UserStore** is the promise of the `UserRepository` trait and what the in-memory
adapter does: one step per method.

**UserRows** is the SQLite adapter one statement at a time. `disk` is what is
committed, `work` what the open transaction sees, `writer` the connection that
holds the write lock, `lock` the adapter's mutex; `at[c]` is the next statement of
a caller's command. The flagged-file store has a second connection, which the
adapter may find busy (`behind`): a transaction that has read can then no longer
write. A board may stop between any two statements, and open and seed itself
again. `UserRows` implements `UserStore`: what is committed is the store's
accounts.

**CallRecord** follows a call from the accepted connection to its last line: its
phase, copy and baseline, the reason it ends for, the clock it is charged by,
and the lines of the caller log. Every prompt and every write may find the
connection lost, every read may time out. Its `UserAggregate` account is stored
and patched as in the code, over a repository that may fail.

**NodePool** has the nodes' status, the signal lanes and one task per
connection. `ClearSignalSender` and `FreeNode` are the two critical sections of
`release`.

**MessageBases** has the file of every number of every base, the mark the store
of the base keeps in memory, the owner of each base's lock, and what each
session is doing. The rules (`ReadMail`, `MoveMail`, ...) are operators: from what the
session finds under the lock they give the sequences of file writes it may make,
none when the operation is refused. `Begins` takes the last lock and runs the rule, `WriteFile`
makes one write, `WriteFails` ends the rule at a failed one, `Crash` stops the
process between or in the middle of writes and opens the bases again.
`move_mail` is three writes; its `expect` is a write of its own (`Panic`).

**MailLog** is what the bases promise whoever keeps a message number: each base
is a log. A number is given once and in order, author and text never change, a
receipt is set once, a deletion is final.

**MailDesk** takes the words instead of the locks: the prompts of E, C, R, RP, FW
and EH in their order, the two editors, who may be addressed and what becomes
public, what an answer and a forwarded message are made of, and the file a
message is written to and loaded from, by the next command or the next board.
`said` and `meant` remember beside each file what its author typed and to whom,
by name and by account.

**Conferences** has the visits: J, JM, the walks to the neighbouring conference
and base, the scan of one base on arrival, MS and the logon scan over all of
them with the detour that reads what was found, and the flag editor. `call` is
the session with its copy of the account, `stored` the row; `mail` is what
others post and delete meanwhile. What a scan has still to visit is a set
(`todo`): the code builds its list from sorted numbers, so the next place is
always the first of those left (`NextToScan`). `found` has the bases with
something to tell of, in the order they were scanned.

**TelnetTerminal** is the codec with the two races of `read_line` and
`read_key`: `queue` holds the bytes that arrived, `pushback` the one looked at
and not used, `line_buf` the line so far, and `typed` all bytes ever consumed.
A signal drops the codec wherever it waits, and is written before the read goes on; that
write may fail, and the read with it. **ColourTerminal** puts the filter
of colour sequences around it.

**MenuCommands** is the grammar of F, FR, N and Z. **FlaggedFiles** is the set of
a session and the stored one, with the A prompts, the question at logoff and the
save; **FileListing** adds the walk through the directories of a span, the page,
every key of its pause, flagging by number and the repaint; **MessageList** adds
the listing of mail with the pager, and makes one specification of the three.

**Board** composes `NodePool` with `MessageBases`: a connection with a live
session does in the bases what `MessageBases` lets a session do, and its task
does with its node what `NodePool` lets it do. The one step of both is the
panic, which ends session and task at once and skips the release.

**Screens** has the files, the caches and what each session is looking up:
`Ask` looks into the cache, `Read` reads the next file of the walk, `Store`
takes the lock again and shows what is kept. `Walk` is the order of the places
of each kind of screen.

**Startup** is `run` of `bootstrap.rs` from the conferences to the port, over a
disk that outlives it. `dirs` is what the sysop and the board itself have made of
the conference directories; the seeding is one step here (`UserRows` has its
statements), and opening a base makes its directory (`MessageBases` has its
files).

In every component module some definitions are followed by a near copy of
themselves: the first is a plausible mistake, kept to show that the properties
would notice it; the model uses the second.

`MCCalls`, `MCCallers` and `MCDisk` put components into one run that
share no state: every behaviour is about one of them (the node or the record of
the call; where callers are, what they write, or what becomes of their keys;
the start of a board, its account tables or its screens), and the others rest. The runs compose them in name only, and nothing is
concluded from it about their interplay.

## Runs

| Run | Shows | Bounds |
|---|---|---|
| `account_two_calls` | two calls of one account, side by side: no write undoes another's (`LedgerRefined`), pointers stay in order, the strikes of two guessing calls stay within what stale counts allow, and the last strike locks (`GuessesBounded`) | 2 sessions, 3 connections, 1 conference, 2 messages, 2 ticks with a day of 2, lock at 2 strikes |
| `account_sign_in` | every prompt and its retries, registration and reset: `HandlesUnique`, `MenuOnlyAfterAdmission`, every call reaches the menu or ends (`SignInEnds`), and what a session takes as saved is in its row, but for a join that a reset forgets (`WhatIsSavedIsStored`) | 2 sessions, 2 connections, 3 slots, 2 handles, 3 passwords, 2 messages, every limit 2, five kinds of account |
| `account_locked_at_menu` | violation of `LockedAccountsCannotEnterMenu` | 2 sessions |
| `account_padded_password` | violation of `RightPasswordExists` | 1 account, a padded password |
| `calls` | one holder per node (`NodesHeldOnce`), its lane leads to it (`SlotsLeadToTheHolder`), only a full pool refuses (`OnlyAFullPoolRefuses`), every caller is answered (`CallersAnswered`); a goodbye is logged once, last, and for the first reason (`EndToldOnce`), a logon is counted before it is logged (`CountedBeforeLogged`), whole minutes are charged and a call runs out of time past its limit, not at it (`TimeCharged`), a call that logs off is gone unless its last write never comes back (`CallsEnd`) | nodes: 2 nodes, 4 connections; record: 2 calls of one account with a failing write, or one call with a clock to 6 or 7, a minute of 2, a day of 4, set back once |
| `message_bases` | every operation in one base, and moves in both directions between two, with a failed write or a crash: each base stays a log (`BasesKeepTheLog`) numbered without gaps (`HighestMessageMatchesMaxNumber`), nothing lost (`KeptUntilKilled`) or copied apart (`InOnePlace`), nobody waits forever (`OperationsEnd`) | 2 sessions, numbers to 3, room for 2 messages in one base and 3 in two, 1 fault |
| `move_failing` | violation of `FailedMoveMutatesNothing` | 1 fault |
| `callers` | the one open visit is in a granted conference and recorded (`VisitIsLegal`), a message is announced once and none is passed over (`AnnouncedOnce`), edits of flags survive the other call's logoff (`FlagEditsSurvive`), a scan comes back to where it began and ends (`ScanLeavesPlaceAlone`, `ScansEnd`); words arrive as typed, at the addressee and in private (`PostedAsTyped`); keys and lines mean their bytes (`DecodedAsTyped`), a read ends by its deadline unless a write of a signal never comes back (`ReadsEnd`), and only colour is filtered (`OnlyColourIsTaken`) | see below |
| `unloadable_mail` | violation of `AcceptedMailLoads` | 1 message of 2 lines, 1 restart |
| `disk` | a start cut short anywhere is made up for by the next one (`ComesUpAgain`) and serves every base in a directory of its own and the conferences in order (`CatalogueServed`), its sysop may join them all and keeps his password (`SysopSeededOnce`); the SQL statements do what whole commands do (`StoreImplemented`), each is answered (`CommandsAnswered`); a screen is the same for everybody while the board runs, also the one of a level that conferences without a menu share (`EveryoneSeesTheSame`), and is made of the best file there was (`BestScreenKept`) | starts: 3 directories, on one board a `Conf1` without a `Conf01`, 2 edits, 2 faults, with and without a database; accounts: 2 callers, 2 spellings of one handle, up to 4 commands, 2 edits, 1 save of flags, 2 stops; screens: 2 sessions, five boards with up to 7 files, 2 changes, 1 failed read, levels 4, 7, 9 and 12 |
| `panicked_session` | violation of `InUseOrIdle` | 3 connections, 2 nodes, 2 bases of 1 message, no fault |
| `files` | numbers and marks on the page stand for the file beside them (`RowsAreTrue`), a full page pauses and non-stop never does (`PausesWhenFull`), listings end (`ListingsEnd`), no logoff loses a flag (`NoFlagLost`) | see below |

Bounds of `callers`. Places: conferences 1, 2 and 4 of which 4 has bases 3 and
1 in that order, so a number can be missing, a walk can meet a conference
that is not granted, and the catalogue's order differs from that of the numbers; 2
messages per base and 2 posts, so that one is announced and one comes during
the scan; four pairs of programs, of which one has two calls. Words: six
errands with the callers that differ in what they may do (sysop, member, not a
member, censored, new user), at most 3 lines, 2 messages and 1 restart; a
subject of 2, a body of 8 and a file of 10 with lines of 3 that take 3 or 6,
so that each limit is met and passed. Keys: eight kinds of client of which each
uses up to four representatives of bytes in up to 5 bytes, enough for one
event and the beginning of the next; lines of 3, an escape sequence of 2 before
the codec gives up; outputs of up to 5 bytes, the length of a colour sequence
with a byte before or after it.

Bounds of `files`. A page of 6 lines and separators of 4, so that a header does
and does not fit the rest of a page; five files in areas 1 and 3, two names in
both, one held, one without frame; three letters on screens of 0, 2 and 6 lines
with a default of 3; three answers to the prompts of one listing; up to three calls, two at
once.

Bounds of `disk` and `panicked_session`. Three files with two changes let a file be
replaced between the lookups of two conferences that fall through to it, and
between two walks for one screen; the levels lie between, on and below the
multiples of five. Two faults cut a start short twice, two edits take a
conference away and bring another, in a second directory of the same number or with a
wrong file. One message is all a panic in a move takes, the third caller is
refused or gets the node of one that left.

Why the other bounds are enough. Every conflict over an account is between two
copies of one row, so two calls show it, and a third connection lets a call
start from what the other two left. Two strikes make a guess before the last
possible. A day of two ticks puts the change of day between two calls; the
record needs a minute that is not a tick, a limit between two minutes and a
clock that crosses its day. Between SQL statements two callers suffice because
there is one mutex, and the second connection is a third party. In the
pool a third caller meets two full nodes, the fourth a release in progress. A move can block and be blocked with two bases; a message moved
there and back needs two numbers per base. The bounds are in the guards and
initial states, each named in its module; the runs disable the deadlock
check because the bounded inputs run out, and because a board whose file is
torn does not start again.

## Fairness

Safety is checked and proved of `Spec`, without fairness. Liveness uses
`FairSpec`:

- *AccountSessions*, *CallRecord*: weak fairness of what a call does outside the
  menu. A read at the terminal ends by a line, the end of the carrier or the idle
  timeout, and the program then runs to the next read. What the caller types is
  not constrained, so a caller may spend every retry. Prompts that the code repeats
  without a limit and that change no state (the password confirmation
  of registration, a line over its length) are not steps, so `SignInEnds` does
  not claim that a caller who fails them for ever is put out. The write of the
  goodbye in *CallRecord* has no fairness, and `CallsEnd` names it: either the call
  is gone or it is in that write for ever.
- *UserRows*: weak fairness of each caller's next statement and of the flag
  store's commit; a busy timeout answers with an error, so no more is needed.
  Nothing makes the board stop or start.
- *NodePool*: weak fairness of the task's own steps, since tokio polls ready
  tasks. A caller may stay for ever.
- *MessageBases*: weak fairness of the writes; strong fairness of the steps that
  take a lock, since `tokio::sync::Mutex` hands the lock to whoever has waited
  longest. No fairness of what is typed at the read sub-prompt or the menu.
- *Conferences*, *MessageList*: weak fairness of the program between two reads
  and of the end of a wait, by an answer or by the idle timeout.
- *TelnetTerminal*: weak fairness of `Expire`, as a timer runs down whatever else
  happens, and strong fairness of `TimeOut`: `select!` draws at random among the
  branches that are ready, so an expired deadline that is offered again and again, at
  every turn of the loop, is taken in the end. No byte and no signal is ever assumed
  to come, and signals may come for ever. The write of a signal that was delivered
  has no fairness: `ReadsEnd` is about terminals that are not stuck in one
  (`[]<>(~ Delivering)`).

No write to the terminal has a timeout (`adapters/telnet_listener/mod.rs:199`), so a peer
that stops reading while its connection stays up can hold any of them for as long as TCP
does, and the idle deadline runs only in reads. `CallsEnd` and `ReadsEnd` say so in the
formula. `SignInEnds`, `CallersAnswered`, `ScansEnd` and `ListingsEnd` do not model their
prompts and pages as writes that may block: they are statements about terminals whose
writes finish or fail.

## Proofs

All hold for any number of sessions, accounts, conferences, nodes, callers,
files and directories, under the `ASSUME`s of the modules alone, which TLC
evaluates on every run.

*AccountSessionsProofs*: `TypeCorrect`, `HandlesStayUnique`,
`PointersStayInOrder`, `RetriesStayBounded`, `MenuAfterAdmission` and
`SavesAreStored`. None of the properties is inductive alone. The
invariant `IInv` adds to them what ties a session's copy to its baseline and
both to the table: pointers in order in every copy (`ReadInOrder`); the live
copy is ahead of its baseline in every field a patch carries as a difference
(`Ahead`) - without it `Excess`, which saturates, would drop a
change; a call before authentication has done nothing its patch would carry
(`NothingDone`); retries below the limit of the phase and admission facts per
phase (`SessionSound`); and the row of a bound call exists (`InUse`), which is what keeps a
new registration from taking the slot of a live one. Lemmas about the merge
operators come first (that they keep records in type, pointers in order, and that a patch
reproduces the live copy), then one lemma per action.

`SavesAreStored` compares a session with its row and not with its baseline: whenever a
baseline moves, and when a call is finalised, what changed since the baseline before is
in the row (`Stored`). The row may have
been written by other calls since it was read, which is why pointers and the last call
are asked to be at least as high, and counters to have grown by as much. Beside `IInv`
it needs `SavedInv`: the credentials, the lock and the strikes of a copy never wait for
a patch, the copy of a caller at the password prompt is the one that was read, and the
count of the day does not wait when a call is held back for a reset. What may wait
then, and is lost when the reset takes the whole copy as saved, is the last conference of the auto-rejoin:
the exception `WhatIsSavedIsStored` names (see below).

`SessionsKeepTheLedger` is the refinement
`Spec => Ledger!Spec`. Each action is mapped to one ledger action or a stutter, using `IInv`
for the facts the mapping needs, above all that a patch's differences are
exactly what the entry holds.

`GuessesStayBounded`: every wrong password is counted against the
caller's own copy, so the calls of one account may each start from a count the
others have left behind, and no bound on one call bounds the row. The invariant counts
what cannot happen any more. `Spent(u)` has a pair for each call and each number it
can no longer write down as the count of a wrong password; it is a finite set of at
most `MaxFailures - 1` pairs per session, and the strikes of a row that is not locked are at
most as many as its spent pairs (`GuessesInv`). A guess adds its own pair, and a call
that reads the row afresh gives none back. A call's retries are at most its copy's
count, so the session never ends by its last retry before the row is locked. Sessions must be
finitely many, and the accounts a board starts from must keep the bound.

*NodePoolProofs*: `TypeCorrect`, `NodesAreHeldOnce`,
`SlotsAlwaysLeadToTheHolder`, `RefusalsAreDue`. `IInv` says of each task at
each stage what its node's status and lane are (`NodeSound`, `SlotSound`), that
two holders hold different nodes (`Unshared`), and that a node that is not idle
is held (`BusyIsHeld`); `MaxNodes` may be 0.

*MessageBasesProofs*: `TypeCorrect`, `Invariance` and `NumbersStayWithoutGaps`.
`HighestMessageMatchesMaxNumber` is not inductive: a write may be under way
in any base, and what it does depends on what its session found under the lock. `IInv`
says for each session that the writes it has still to make are those of its
rule, from the point it has come to and on the bases as they are (`Owes`, with one
form for a changed message, a new one and a move), that whoever writes holds the
locks of the bases it writes to and no other, that whoever waits for a second lock holds
only one of them (`LocksSound`), and that no deleted message has a receipt.

`BasesAreLogs` is the refinement `Spec => Log!Spec`. Each write is
a new entry of the log, a change the log allows, or a stutter.

`MovesInvariant`, `NeverCopiedApart` and `NeverNowhere`:
`InOnePlace` says nothing of how a copy came about. The invariant adds that a body
names a place that was posted to already (`PostedBelow`), so that no new message
can be taken for an old one, and that, while nothing has failed, two live files of
one body are source and copy of one move which still owes the deletion
(`TwinsAreMoved`).

*CallersProofs*, the conferences: `Invariance`, `VisitsAreLegal`, `MailIsAnnouncedOnce`,
`EditsSurvive` and `ScansComeHome`. `IInv` speaks of one session at a time. It
says where the caller is, also during a detour (`Placed`, without which the way
back from one could lead anywhere); that what is still to be scanned and what
was found lies in granted conferences, below the scan pointer and in one listing
each (`Listed`); that no pointer is ahead of the mail (`Within`); that what a
scan found has not been told yet (`Untold`), and that everything unread behind
the pointer was told, passed by a read, or is about to be told (`Covered`), which
are the two halves of `AnnouncedOnce` at every point inside a scan; and that
whoever set the flags of a conference last has ended, so that the copy he wrote
stays as it is (`Edits`). Most actions give a call a session that has
scanned nothing, and one lemma serves them all.

*CallersProofs*, the mail desk: `WordsAreKept` and `WordsArriveAsTyped`. `DeskInv`
says that what is composed has the lines that were typed (`Typed`), and of every
file what its author meant it to say (`Says`). An answer and a forwarded message
are made from a file, not from what was meant for it, so each step of theirs rests on what the invariant
says of the source, which must be one that is not deleted; that privacy is inherited
rests on `meant` having it from the first message on. `MailOfDraft` is the one
place where visibility is decided, for all commands. Nothing is assumed of names:
accounts may be called ALL, EALL or Sysop. The sizes of words may be anything, as no limit matters to
what a stored message says.

*CallRecordProofs*: `Invariance`, `GoodbyeToldOnce`, `LogonsAreCounted` and
`TimeIsCharged`. The account, its copies in the calls, the log and the line that is
about to be written must fit at every point between two writes. `IInv` says of each
call in which phase it does what it does, and that it has no reason and no budget too
early (`Staged`); that the line it holds is the one its log is missing, and that
nothing follows a goodbye (`Told`); that its copy is no newer than the stored
account, and its goodbye neither (`Known`, which is what a clock that was set back
could break); that some whole number of minutes accounts for the clock of the call,
what is left to it and what its account is to be charged (`Timed`); and of all calls
together that the account has counted at least those whose logon is written *or about
to be* (`CountedOf`): the count of the written lines alone is not inductive, as the
line follows the write. A patch is followed down to its fields (`PatchKeeps`), and
`StepKeeps` takes the other calls past a step of one. Clocks may stop or be set back,
and an account may be at any level, locked, or yet to be made.

*UserRowsProofs*: `RowsAreConsistent` and `RowsImplementStore`, the
refinement `Spec => StoreImplemented`. What is committed is the store's
accounts (`Accounted`), so most statements are stutters and the answer to a command is
its one step; the proof is that the tables allow it. `Consistent` says that at most
one caller is between two statements, and holds the mutex (`OneAtATime`); that what it has read is still
so in the tables as they are (`Knows`), as nobody else can have written; and that an open transaction
is the committed tables with its command applied up to its statement: of a patch
the user's row is written, and the memberships left to do lead from the
transaction's tables where the whole patch leads from the committed ones
(`Patching`); of a registration the new account stands beside the others, which
are untouched (`Registering`). While the board seeds, the
committed tables are empty (`BootOK`). Two thirds of the lemmas are about the mapping
between rows and accounts: that reading a row back gives the account it was written from, that
`UPDATE ... SET` of a patch is the aggregate's `apply_to`, also membership by
membership in any order, and that slots and folded names stay unique.

*DiskProofs*, the screens: `LookupsAreConsistent`, `OneTextForAll` and
`BestIsKept`. What is shown was kept, and a kept screen is never replaced (`Told`), which
gives the first; the second needs to know why the first file of a walk is the
best. `Walk` is a concatenation of ranges of levels and directories, and
the lemmas about it say that it has every file that suits a screen, each before
those it is better than. `Left` says of a lookup that it has a tail of the walk
before it and that, while nobody touches the files and no read failed, nothing was there in
what it passed; `Leads` that a lookup for a conference's menu goes on to the
menu of the level only when the conference has none; `MayKeep` what may
be in a slot of the cache or about to be put there.

*DiskProofs*, the start: `StartsStayConsistent`, `CatalogueIsServed`,
`BoardComesUpAgain` and `SysopIsSeededOnce`. `Serving` says that the conferences are in
ascending order and follows the two loops of `open_mail_stores`: every base before the place they have
come to has its store and its directory, so that a start that listens
has them all (`AllOpened`), and one that is cut short leaves directories only of bases that
exist. `Seeding` ties what the sysop was granted to the directories that
were there; `Loading` says that what was loaded once, and not edited since,
can be loaded again, or has a second directory of one number that a start made
(`Doubled`, the exception `ComesUpAgain` names; see below). Nothing is assumed of the
directories' names: the only directories a start makes are `MailDir`s of conferences
it loaded (`MadeBeside`), so whatever fails to load without an edit fails for that.

*FilesProofs*: `Invariance`, `RowsStayTrue`, `PausesAreDue` and
`FlagsSurvive`. `Consistent` says of the call that lists that the lines since the last pause are counted and
fit the page (`Counted`, and `Told` for the listing of mail); that the lines to come go on with the numbers of
those shown, and that before the first row there is nothing to choose from
(`Numbered`); that the page remembered for the repaint is what stands at the foot of the screen and
that its numbers stand for the files beside them, unless the page is done with
(`PageTrue`, `AtFoot`, `Stale`); and that a line with a mark, on the screen or to come, is one of a flagged
file (`Marked`). `FlagsSurvive` rests on `Building`: a set that was restored and
never cleared still holds what was restored. A page must have
more than one line (`ListingBounds`), and one call at a time lists
(`OneListsAtATime`), which is a bound of the model.

Beyond the kinds of the constants the proofs rest on `SeedsAssumption` (the files
a board starts from are numbered without gaps, no live body is there twice, and
no deleted message has a receipt, as `mail.rs` leaves them), on `SeedAssumption`
(the accounts a board starts from are as calls leave them), on `WritersHaveAccounts` and `WordSizes`
(whoever sits down at the desk has an account, and every word a size), on a minute being at
least one tick, on `None` being no session, account or reason, and on
`PlansAssumption` (the files of a board are named as lookups name them; a file
of another name is never read).

Model-checked, and not proved:

- liveness, which the prover cannot do under fairness: `SignInEnds`,
  `CallersAnswered`, `CallsEnd`, `OperationsEnd`, `ScansEnd`, `ReadsEnd`,
  `ListingsEnd`, `CommandsAnswered`;
- `DecodedAsTyped`, which compares the terminal with a reference decoder that is
  recursive over the bytes typed, and `OnlyColourIsTaken`, where the filter itself
  is a recursive function of the bytes written: what either computes for every
  input is an induction over data.

`RetriesStayBounded` and the `TypeCorrect` are stronger than what
the runs check of them: no run repeats `RetriesBounded` or the type invariants.

## Where documents and code differ

Shown by a run:

1. `LockedAccountsCannotEnterMenu` (`specs/session.allium:821`): admission reads
   the session's copy of the lock (`domain/session/lifecycle.rs:342`), so a call
   that read the account before another call's last strike still enters.
2. The right password (`specs/session.allium:400`): the login prompt trims
   (`app/login_flow.rs:280`), registration and reset do not. A password with a
   blank at either end can never be typed again.
3. "On error no state is mutated on either store" (`move_mail.rs:62`): the copy
   stays when a later write fails.
4. "Larger than MAX_MAIL_BODY_BYTES to allow headers, timestamps, escaping
   overhead" (`domain/messaging/limits.rs:15`): escaping is not bounded by the
   difference, so a message within the limits may make a file the board refuses
   to load, and the next start fails (`AcceptedMailLoads`).
5. "A node is in use whenever a session is bound to it; otherwise it is idle"
   (`specs/core.allium:333`): the panic of a move whose source was
   deleted meanwhile unwinds past `release_node_after`
   (`adapters/telnet_listener/mod.rs:163`), and the node stays taken until the
   board is restarted (`InUseOrIdle`).

Noted while reading, without a run. Accounts and calls:

- `specs/core.allium:193` says a locked account has no invalid attempts; the row
  is stored with the attempt that locked it (`domain/user/commands.rs:193`).
- Finalising stamps `last_call` on every bound user, signed in or not
  (`domain/session/lifecycle.rs:174`), so a failed sign-in today hides the new day
  from the next call (`domain/session/budget.rs:31`, `specs/core.allium:145`). The new day
  is decided on the session's copy and may be taken from a stale one (`budget.rs:40`).
- The time between the last turn of the menu and the logoff is charged to nobody
  (`specs/session.allium:681` charges on leaving).
- The rule TimeExpired (`specs/session.allium:614`) ends a call at
  `time_remaining <= 0`. The code ends it only when more than the limit was used
  (`domain/session/call.rs:191`, as the legacy program with `timeLimit < 0`), so a call
  that has used exactly its limit goes on until a further minute is charged, and it looks
  only at the top of the menu loop. `TimeCharged` is stated as the code has it.
- A completed password reset writes the credentials alone and then takes the whole copy
  as its baseline (`app/session_flow.rs:777`), although a patch is to carry "only
  not-yet-persisted changes" (`domain/session/mod.rs:437`): the last conference that the
  auto-rejoin recorded just before is in no patch at all, until another join
  records one. `WhatIsSavedIsStored` exempts exactly this.
- A call that uses up its name attempts, or whose last write fails, has no logoff
  line; the caller log lives in memory only.
- A patch with pointers of a membership that is not stored rolls back as a whole in
  SQLite and loses only that part in memory (`domain/user/commands.rs:106`); no
  session makes such a patch.

Messages:

- "Deleted sources are filtered upstream" (`domain/messaging/move_mail.rs:64`): no
  lock is held while a move's prompts are open, another session may delete the
  message, and the move panics after inserting its copy. Run `panicked_session`
  ends in that panic.
- `specs/messaging.allium:545` says the last read message is not a deleted one,
  which a deletion after the read makes false; `specs/messaging.allium:323` has
  moves as one step.
- An answer to a private message may be posted in public and carries its subject.
- A subject above its limit is refused only after the body has been typed.
- An abandoned, empty or over-long note to a forwarded message drops the note and
  forwards all the same (`app/menu_flow/reply_forward.rs:332` says so of the blank
  line only).
- E checks that its addressee is a member of the conference; FW, RP and EH do not.
  EH finds no user for ALL, a case its rule expects (`domain/messaging/edit_mail_header.rs:38`),
  and leaves the broadcast mark and the receipt as they were.
- The read prompt counts a message as the last displayed even when it was not shown
  (`app/menu_flow/read_subprompt.rs:251`).

Starting:

- "Two conferences share the same number"
  (`adapters/file_conference_repository.rs:115`), and both `Conf3` and `Conf03`
  mean 3 (its test, line 363): the bases of conference 3 are always put under
  `Conf03` (`bootstrap.rs:243`), which the first start creates beside `Conf3`,
  and the next start refuses to load the two. One of the boards of `disk` has such a
  directory: `ComesUpAgain` says that this (`Doubled`) is the only way, but for an edit of
  the sysop's, in which a board that came up does not come up again.
- "Sessions will hit no_conference_access at logon until at least one
  conference is configured" (`bootstrap.rs:99`): memberships are granted only
  when an empty database is seeded (`bootstrap.rs:168`). A database made
  before the first conference has a sysop who never gets in.

Terminal and listings:

- A byte for delete on an empty line is taken as a character
  (`adapters/telnet_line.rs:140`; its doc at line 27 says it deletes), and an
  end of input after a half-typed line returns that line (line 67 says end of input).
- A signal in the middle of a character, of a telnet command or between CR and LF
  loses what the codec held (line 50 says nothing is lost); a LF that arrives
  apart from its CR is an empty line of its own; the look-ahead of an escape
  sequence swallows a CR inside an unfinished one. `DecodedAsTyped` says
  what holds outside these cases.
- Taking a colour sequence out of a nested one leaves another behind; what a signal
  writes goes past the filter.
- The repaint of marks moves the cursor up by counted lines and knows neither the width nor the height
  of the client's screen (`app/menu_flow/file_list/scan.rs:671`). `RowsAreTrue` takes a row to
  fill one line there, and the page and its prompt to fit (`RowOnScreen`).
- Repainting after `?` writes the stored bytes again, without the marks made
  since, and only one directory's rows are marked
  (`app/menu_flow/file_list/scan.rs:647`, `designs/2026-06-12-utf8-hotkeys-flagmark-design.md:165`).
- Z with A walks the numbers from 1 to the highest area, also those that are missing.

## Not modelled

- Attachments: nothing in the program calls `attach_file_to_mail`.
- `start_conference_scan` and `step_conference_scan`, which only tests call;
  `quick_logon`, which nothing sets; statistics of visits; the listing of CF.
- Transfers, ratios and bytes of the usage accounts: no command changes them.
- Presenters, colours of the menus, wording, layout; parsing of the
  configuration files, which runs once before anything else.
- The password hasher, a pure function: a hash is identified with its password,
  and its failure is an outcome of `AccountSessions`.
- A mutex of the standard library that is poisoned by a panic under it: no statement of the
  repositories is modelled as panicking.
- What is echoed to the caller; UTF-8 beyond the length of a character (over-long
  forms and surrogates); counters at 2^32; times below a second.
- The legacy program and the material to compare with it.

A panic in a session skips the release of its node. `NodePool` alone has no step
for it, so `CallersAnswered` is a statement about sessions that return; `Board`
has it. `Startup` makes the directories on the way to a base in one step. In `CallRecord` a command of the menu
takes time and nothing else, and the board does not crash; an expired password
is left to `AccountSessions`. `MessageBases` has all its users in every
conference; who may be addressed is in `MailDesk`. The rows that a prompt and
its answer take, and the spacer lines, are outside the pager's count as they are
in the code. `PROJECT.json` lists every component with its status.

## Plan

Done, in this order: the accounts with their ledger, the node pool, the message
bases with their log, and the proofs of the first two; the SQLite adapter against
the store, the record of calls, the conferences, the mail desk, the terminal,
the listings with the flagged files, the screens, the start, and the pool
composed with the bases; the proofs for the message bases, the conferences, the
record of calls, the SQLite adapter, the screens, the start, the listings and the
mail desk, and the bound on guesses side by side. Every safety property a run checks
is now a theorem, but for the two about the terminal.

Left: a composition of posting with the author's counters, which are written to
another store and only at the end of the call.
