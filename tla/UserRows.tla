------------------------------ MODULE UserRows ------------------------------
(* The SQLite adapter of the user repository, statement by statement: three
   tables in one file, one connection behind a mutex, transactions that read
   before they write, and a second connection of the flagged-file store that
   writes to the same file.  The board may end between any two statements;
   then the open transaction is gone and what was committed stays.

   The callers are sessions: they look an account up or register one, change
   their own copy, and hand over the difference.

   SQLite itself is external and modelled by what the adapter relies on: a
   statement outside a transaction commits at once; a transaction keeps its
   snapshot and is seen by others when it commits; there is one writer at a
   time, waited for up to the busy timeout; a transaction that has read may
   not write once another connection has committed (SQLITE_BUSY_SNAPSHOT).

   A definition followed by a near copy of itself is a mistake the
   properties are tried against; the model uses the second of the two.     *)
EXTENDS UserAggregate

CONSTANTS Callers, None,
          Handles,          \* what is typed as a name
          Folded,           \* a handle, to its handle_folded column
          Catalogues,       \* the sets of conferences the board is set up with
          Outcomes,         \* the authentication outcomes tried
          Flags,            \* preference flags a registration may set
          Workloads         \* what is asked of the repository in one behaviour:
                            \* the commands, and bounds on how many of them, on
                            \* the changes sessions make, the clock, the flag
                            \* sets saved and the times the board ends

\* Conferences are numbered from one; nobody is called as the two connections are.
ASSUME NoneAssumption == None \notin Callers \cup {"users", "flags"}
ASSUME CataloguesAssumption ==
    /\ \A conferences \in Catalogues : conferences \subseteq Nat \ {0}
    /\ \A w \in Workloads : w.catalogues \subseteq Catalogues
ASSUME OutcomesAssumption ==
    Outcomes \subseteq
        [kind : {"Matched"}, daily : STRING, force_password_reset : BOOLEAN]
        \cup [kind : {"Mismatched"}, lock_account : BOOLEAN]

VARIABLES
    disk,       \* the committed tables
    work,       \* the tables as the open transaction sees them, or None
    boot,       \* how far the board is from serving
    catalogue,  \* the conferences it was set up with
    lock,       \* the caller that holds the connection
    at,         \* the statement each caller is at
    local,      \* what it has read so far
    writer,     \* who holds the write lock of the file
    behind,     \* a commit of the other connection came after the snapshot
    asked,      \* the command of each caller not yet answered
    answer,     \* what each caller was last answered
    live,       \* the caller's own copy of its account
    baseline,   \* that copy as last handed over
    workload, now, edits_made, made, saves, stops
tables == <<disk, work>>
adapter == <<lock, at, local, writer, behind>>
sessions == <<live, baseline, edits_made>>
bounds == <<workload, now, made, saves, stops>>
vars == <<tables, boot, catalogue, adapter, asked, answer, sessions, bounds>>

Idle == [op |-> "idle"]
Nothing == [kind |-> "nothing"]
Refused(kind) == [kind |-> kind]
Done == [kind |-> "done"]
Found(user) == [kind |-> "found", user |-> user]

----------------------------------------------------------------------------
(* The tables and the conversions between a row and an account.            *)

Schema == [users |-> <<>>, memberships |-> <<>>, pointers |-> <<>>]

RowOf(user) ==
    [handle |-> user.handle,
     handle_folded |-> Folded[user.handle],
     password_hash |-> user.credentials.hash,
     password_last_updated |-> user.credentials.last_updated,
     force_password_reset |-> IF user.credentials.reset THEN 1 ELSE 0,
     access_level |-> user.account.access_level,
     invalid_attempts |-> user.account.invalid_attempts,
     account_locked |-> IF user.account.account_locked THEN 1 ELSE 0,
     is_new_user |-> IF user.account.new_user THEN 1 ELSE 0,
     times_called |-> user.usage.times_called,
     times_called_today |-> user.usage.times_called_today,
     last_call |-> IF user.usage.last_call = Never THEN {} ELSE {user.usage.last_call},
     time_limit_per_call |-> user.usage.time_limit_per_call,
     time_limit_per_day |-> user.usage.time_limit_per_day,
     time_used_today |-> user.usage.time_used_today,
     expert_mode |-> IF user.profile.expert_mode THEN 1 ELSE 0,
     account_created |-> user.profile.account_created,
     flags |-> user.profile.flags,
     messages_posted |-> user.conferences.messages_posted,
     last_joined_conference |-> user.conferences.last_joined[1],
     last_joined_msgbase |-> user.conferences.last_joined[2]]

FromPersisted(slot, row, memberships) ==
    [slot_number |-> slot, handle |-> row.handle,
     credentials |-> [hash |-> row.password_hash,
                      last_updated |-> row.password_last_updated,
                      reset |-> row.force_password_reset # 0],
     account |-> [access_level |-> row.access_level,
                  invalid_attempts |-> row.invalid_attempts,
                  account_locked |-> row.account_locked # 0,
                  new_user |-> row.is_new_user # 0],
     usage |-> [times_called |-> row.times_called,
                times_called_today |-> row.times_called_today,
                last_call |-> IF row.last_call = {} THEN Never
                              ELSE CHOOSE t \in row.last_call : TRUE,
                time_limit_per_call |-> row.time_limit_per_call,
                time_limit_per_day |-> row.time_limit_per_day,
                time_used_today |-> row.time_used_today],
     profile |-> [expert_mode |-> row.expert_mode # 0,
                  account_created |-> row.account_created, flags |-> row.flags],
     conferences |-> [memberships |-> memberships,
                      last_joined |-> <<row.last_joined_conference, row.last_joined_msgbase>>,
                      messages_posted |-> row.messages_posted]]

Flag(column) == IF column THEN 1 ELSE 0
MembershipColumns(granted, posted, flags) ==
    [granted |-> granted, messages_posted |-> posted,
     mail_scan |-> Flag("MailScan" \in flags), mailscan_all |-> Flag("MailScanAll" \in flags),
     file_scan |-> Flag("FileScan" \in flags), zoom_scan |-> Flag("Zoom" \in flags)]
FlagsOf(row) ==
    {f \in ScanFlags : \/ f = "MailScan" /\ row.mail_scan # 0
                       \/ f = "MailScanAll" /\ row.mailscan_all # 0
                       \/ f = "FileScan" /\ row.file_scan # 0
                       \/ f = "Zoom" /\ row.zoom_scan # 0}
MembershipRow(membership) ==
    MembershipColumns(Flag(membership.granted), membership.messages_posted,
                      membership.scan_flags)

\* The rows of one slot, back in the shape of an account.
LoadPointers(t, slot, c) ==
    LET own == {key \in DOMAIN t.pointers : key[1] = slot /\ key[2] = c} IN
    [b \in {key[3] : key \in own} |-> t.pointers[<<slot, c, b>>]]
LoadMemberships(t, slot) ==
    LET own == {key \in DOMAIN t.memberships : key[1] = slot} IN
    [c \in {key[2] : key \in own} |->
        LET row == t.memberships[<<slot, c>>] IN
        [granted |-> row.granted # 0, messages_posted |-> row.messages_posted,
         scan_flags |-> FlagsOf(row), pointers |-> LoadPointers(t, slot, c)]]

----------------------------------------------------------------------------
(* The statements.                                                         *)

SelectSlot(t, handle) ==
    {slot \in DOMAIN t.users : t.users[slot].handle_folded = Folded[handle]}

InsertUser(t, user) == [t EXCEPT !.users = Put(@, user.slot_number, RowOf(user))]

\* Memberships are written from scratch; their pointers go with them.
DeleteMemberships(t, slot) ==
    [t EXCEPT
       !.memberships = Restrict(@, {key \in DOMAIN @ : key[1] # slot}),
       !.pointers = Restrict(@, {key \in DOMAIN @ : key[1] # slot})]
InsertMembership(t, slot, c, membership) ==
    [t EXCEPT
       !.memberships = Put(@, <<slot, c>>, MembershipRow(membership)),
       !.pointers =
          [key \in DOMAIN @ \cup {<<slot, c, base>> : base \in DOMAIN membership.pointers} |->
             IF key \in DOMAIN @ THEN @[key] ELSE membership.pointers[key[3]]]]

UpdateAuth(row, outcome) ==
    IF outcome.kind = "Matched"
      THEN [(CASE outcome.daily = "NewDay" ->
                    [row EXCEPT !.times_called_today = 0, !.time_used_today = 0]
               [] outcome.daily = "SameDay" -> [row EXCEPT !.times_called_today = @ + 1]
               [] OTHER -> row)
            EXCEPT !.invalid_attempts = 0,
                   !.force_password_reset = Later(@, Flag(outcome.force_password_reset))]
      ELSE [row EXCEPT !.invalid_attempts = @ + 1,
                       !.account_locked = Later(@, Flag(outcome.lock_account))]

UpdatePassword(row, change) ==
    [row EXCEPT !.password_hash = change.hash,
                !.password_last_updated = change.changed_at,
                !.force_password_reset = 0]

OverwrittenBy(column, value) == IF value = {} THEN column ELSE value
\* CASE WHEN ?6 IS NULL THEN last_call WHEN last_call IS NULL THEN ?6 ELSE MAX
LatestOf(column, value) ==
    IF column = {} \/ value = {} THEN column \cup value ELSE {Max(column \cup value)}
Coalesce(value, column) == IF value = {} THEN column ELSE CHOOSE v \in value : TRUE
FlagValue(value) == {Flag(v) : v \in value}

UpdateUser(row, patch) ==
    [row EXCEPT !.times_called = @ + patch.times_called_delta,
                !.times_called_today = @ + patch.times_called_today_delta,
                !.time_used_today = @ + patch.time_used_today_delta,
                !.messages_posted = @ + patch.messages_posted_delta,
                !.last_call = LatestOf(@, patch.last_call),
                !.expert_mode = Coalesce(FlagValue(patch.expert_mode), @),
                !.flags = Coalesce(patch.flags, @),
                !.last_joined_conference = Coalesce({ref[1] : ref \in patch.last_joined}, @),
                !.last_joined_msgbase = Coalesce({ref[2] : ref \in patch.last_joined}, @)]

UpdateMembership(row, patch) ==
    MembershipColumns(Coalesce(FlagValue(patch.granted), row.granted),
                      row.messages_posted + patch.messages_posted_delta,
                      Coalesce(patch.scan_flags, FlagsOf(row)))

\* The row an INSERT of the patch makes, the columns it does not set at
\* their defaults.
BornMembership(patch) ==
    UpdateMembership(MembershipColumns(1, 0, {"MailScan", "FileScan"}), patch)

MergedPointer(row, patch) ==
    [row EXCEPT !.last_read = Later(@, patch.last_read),
                !.last_scanned = Later(@, patch.last_scanned)]
\* One statement for every base of the patch; each has a row of its own.
UpsertPointer(t, key, patches) ==
    [t EXCEPT !.pointers =
       [k \in DOMAIN @ \cup {<<key[1], key[2], base>> : base \in DOMAIN patches} |->
          IF <<k[1], k[2]>> # key \/ k[3] \notin DOMAIN patches THEN @[k]
          ELSE IF k \in DOMAIN @ THEN MergedPointer(@[k], patches[k[3]])
          ELSE patches[k[3]]]]

\* The three statements of one membership patch.
PatchMembership(t, slot, patch) ==
    LET key == <<slot, patch.conference_number>>
        patched ==
          IF key \in DOMAIN t.memberships
            THEN [t EXCEPT !.memberships[key] = UpdateMembership(@, patch)]
          ELSE IF patch.create_if_missing
            THEN [t EXCEPT !.memberships = Put(@, key, BornMembership(patch))]
          ELSE t
    IN  UpsertPointer(patched, key, patch.pointers)

\* What the database refuses: a pointer without its membership, and one that
\* has read more than it has scanned.
ConstraintsHold(t) ==
    /\ \A key \in DOMAIN t.memberships : key[1] \in DOMAIN t.users
    /\ \A key \in DOMAIN t.pointers :
         /\ <<key[1], key[2]>> \in DOMAIN t.memberships
         /\ t.pointers[key].last_read <= t.pointers[key].last_scanned

----------------------------------------------------------------------------
(* Booting: the file is opened, its tables created when missing, and a board
   without users gets its sysop in one transaction.                        *)

Init ==
    /\ disk = Schema /\ work = None
    /\ boot = "down" /\ catalogue = {}
    /\ lock = None /\ writer = None /\ behind = FALSE
    /\ at = [c \in Callers |-> "idle"]
    /\ local = [c \in Callers |-> None]
    /\ asked = [c \in Callers |-> Idle]
    /\ answer = [c \in Callers |-> Nothing]
    /\ live = [c \in Callers |-> None] /\ baseline = live
    /\ workload \in Workloads /\ now = 1 /\ edits_made = 0 /\ made = 0 /\ saves = 0 /\ stops = 0

Booting == UNCHANGED <<adapter, asked, answer, sessions, bounds>>

Open ==
    /\ boot = "down"
    /\ boot' = "opened"
    /\ catalogue' \in workload.catalogues
    /\ Booting /\ UNCHANGED tables

IsEmpty ==
    /\ boot = "opened"
    /\ boot' = IF DOMAIN disk.users = {} THEN "seeding" ELSE "serving"
    /\ Booting /\ UNCHANGED <<tables, catalogue>>

DefaultSysop(hash) ==
    [UserNew(1, "sysop", hash, Never, 255) EXCEPT !.usage = WithTimeLimits(@, 30, 60)]

SeedUser ==
    /\ boot = "seeding"
    /\ work' = DeleteMemberships(InsertUser(disk, DefaultSysop("sysop")), 1)
    /\ boot' = "granting"
    /\ Booting /\ UNCHANGED <<disk, catalogue>>

Ungranted == {c \in catalogue : <<1, c>> \notin DOMAIN work.memberships}
SeedMembership ==
    /\ boot = "granting" /\ Ungranted # {}
    /\ work' = InsertMembership(work, 1, Min(Ungranted), NewMembership(TRUE))
    /\ Booting /\ UNCHANGED <<disk, boot, catalogue>>

CommitSeed ==
    /\ boot = "granting" /\ Ungranted = {}
    /\ disk' = work /\ work' = None
    /\ boot' = "serving"
    /\ Booting /\ UNCHANGED catalogue

\* The board ends: calls, locks and the open transaction are gone.
Stop ==
    /\ boot # "down" /\ stops < workload.stops
    /\ boot' = "down" /\ stops' = stops + 1
    /\ work' = None /\ lock' = None /\ writer' = None /\ behind' = FALSE
    /\ at' = [c \in Callers |-> "idle"] /\ local' = [c \in Callers |-> None]
    /\ asked' = [c \in Callers |-> Idle] /\ answer' = [c \in Callers |-> Nothing]
    /\ live' = [c \in Callers |-> None] /\ baseline' = live'
    /\ UNCHANGED <<disk, catalogue, edits_made, workload, now, made, saves>>

----------------------------------------------------------------------------
(* The sessions.                                                           *)

Ask(c, command) ==
    /\ boot = "serving" /\ asked[c] = Idle
    /\ command.op \in workload.commands /\ made < workload.made
    /\ made' = made + 1
    /\ asked' = [asked EXCEPT ![c] = command]
    /\ answer' = [answer EXCEPT ![c] = Nothing]
    /\ UNCHANGED <<tables, boot, catalogue, adapter, baseline, edits_made,
                   workload, now, saves, stops>>

LookUp(c) ==
    /\ live[c] = None
    /\ UNCHANGED live
    /\ \/ \E handle \in Handles : Ask(c, [op |-> "find_by_handle", handle |-> handle])
       \/ Ask(c, [op |-> "find_sysop"])

Register(c) ==
    /\ live[c] = None
    /\ UNCHANGED live
    /\ \E handle \in Handles :
         Ask(c, [op |-> "create_user",
                 draft |-> [handle |-> handle, hash |-> "chosen", now |-> now, flags |-> Flags]])

Command(op, user, change) == [op |-> op, slot |-> user.slot_number, change |-> change]

\* The session judges on its own copy; locking it clears the failures there.
OwnCopyAfter(outcome, user) ==
    LET judged == ApplyAuthOutcome(outcome, user) IN
    IF outcome.kind = "Mismatched" /\ outcome.lock_account
      THEN LockAccount(judged) ELSE judged
Judge(c) ==
    /\ live[c] # None
    /\ \E outcome \in Outcomes :
         /\ Ask(c, Command("record_auth_outcome", live[c], outcome))
         /\ live' = [live EXCEPT ![c] = OwnCopyAfter(outcome, @)]

ChangeOwnPassword(c) ==
    /\ live[c] # None
    /\ LET change == [hash |-> "changed", changed_at |-> now] IN
       /\ Ask(c, Command("record_password_change", live[c], change))
       /\ live' = [live EXCEPT ![c] = ApplyPasswordChange(change, @)]

Conferences == UNION Catalogues
EditsOf(user) ==
    {RecordMessagePosted(user, c) : c \in Conferences}
    \cup {AdvanceLastRead(user, <<c, 1>>, 2, now) : c \in Conferences}
    \cup {AdvanceLastScanned(user, <<c, 1>>, 1, now) : c \in Conferences}
    \cup {AdvanceLastScanned(user, <<c, 1>>, 3, now) : c \in Conferences}
    \cup {RecordJoin(user, c, 1) : c \in Conferences}
    \cup {ToggleScanFlagFor(user, c, "MailScan") : c \in Joined(user)}
    \cup {UpsertMembership(user, c, NewMembership(TRUE)) : c \in Conferences \ Joined(user)}
    \cup {SetExpertMode(user, ~user.profile.expert_mode), BumpTimesCalled(user),
          AddTimeUsedToday(user, 1), RecordLastCall(user, now)}

EditCopy(c) ==
    /\ live[c] # None /\ asked[c] = Idle /\ edits_made < workload.edits
    /\ \E user \in EditsOf(live[c]) : live' = [live EXCEPT ![c] = user]
    /\ edits_made' = edits_made + 1
    /\ UNCHANGED <<tables, boot, catalogue, adapter, asked, answer, baseline, bounds>>

Save(c) ==
    /\ live[c] # None
    /\ Ask(c, Command("apply_user_patch", live[c], Between(baseline[c], live[c])))
    /\ UNCHANGED live

Tick ==
    /\ now < workload.time
    /\ now' = now + 1
    /\ UNCHANGED <<tables, boot, catalogue, adapter, asked, answer, sessions, workload,
                   made, saves, stops>>

----------------------------------------------------------------------------
(* The adapter.                                                            *)

FirstStatement ==
    [find_by_handle |-> "select slot", find_sysop |-> "select user",
     record_auth_outcome |-> "update", record_password_change |-> "update",
     apply_user_patch |-> "patch user", create_user |-> "select handle"]

Statement == UNCHANGED <<boot, catalogue, edits_made, bounds>>
Proceed(c, statement, value) ==
    /\ at' = [at EXCEPT ![c] = statement]
    /\ local' = [local EXCEPT ![c] = value]
    /\ UNCHANGED <<lock, asked, answer, live, baseline>>
    /\ Statement

ConnectionFree(c) == lock = None

Lock(c) ==
    /\ boot = "serving" /\ asked[c] # Idle /\ at[c] = "idle"
    /\ ConnectionFree(c)
    /\ lock' = c
    /\ at' = [at EXCEPT ![c] = FirstStatement[asked[c].op]]
    /\ local' = [local EXCEPT ![c] = [slot |-> 1]]
    /\ UNCHANGED <<tables, writer, behind, asked, answer, live, baseline>>
    /\ Statement

ReleaseWhenDone(result) == lock' = IF result.kind \in {"done", "found"} THEN None ELSE lock
Release(result) == lock' = None

\* The answer reaches the caller and the connection is free.  A session that
\* got what it asked for takes its copy as handed over; an error ends it.
Return(c, result) ==
    /\ Release(result)
    /\ at' = [at EXCEPT ![c] = "idle"]
    /\ local' = [local EXCEPT ![c] = None]
    /\ asked' = [asked EXCEPT ![c] = Idle]
    /\ answer' = [answer EXCEPT ![c] = result]
    /\ live' = [live EXCEPT ![c] = CASE result.kind = "found" -> result.user
                                     [] result.kind = "done" -> @
                                     [] OTHER -> None]
    /\ baseline' = [baseline EXCEPT ![c] = live'[c]]
    /\ Statement

Rollback == work' = None /\ writer' = None /\ UNCHANGED <<disk, behind>>
ReadOnly == UNCHANGED <<tables, writer, behind>>

FindSlot(c) ==
    /\ at[c] = "select slot"
    /\ ReadOnly
    /\ LET slots == SelectSlot(disk, asked[c].handle) IN
       IF slots = {} THEN Return(c, Refused("NotFound"))
       ELSE Proceed(c, "select user", [slot |-> Min(slots)])

LoadUser(c) ==
    /\ at[c] = "select user"
    /\ ReadOnly
    /\ IF local[c].slot \notin DOMAIN disk.users THEN Return(c, Refused("NotFound"))
       ELSE Proceed(c, "select memberships",
                    [slot |-> local[c].slot, row |-> disk.users[local[c].slot]])

LoadRest(c) ==
    /\ at[c] = "select memberships"
    /\ ReadOnly
    /\ Return(c, Found(FromPersisted(local[c].slot, local[c].row,
                                     LoadMemberships(disk, local[c].slot))))

Update(c, op, row) ==
    /\ at[c] = "update" /\ asked[c].op = op
    /\ writer = None
    /\ LET slot == asked[c].slot IN
       IF slot \notin DOMAIN disk.users
         THEN ReadOnly /\ Return(c, Refused("UserNotFound"))
         ELSE /\ disk' = [disk EXCEPT !.users[slot] = row]
              /\ UNCHANGED <<work, writer, behind>>
              /\ Return(c, Done)
RecordAuthOutcome(c) ==
    Update(c, "record_auth_outcome",
           UpdateAuth(disk.users[asked[c].slot], asked[c].change))
RecordPasswordChange(c) ==
    Update(c, "record_password_change",
           UpdatePassword(disk.users[asked[c].slot], asked[c].change))

\* The first statement of a patch writes, so it takes the write lock and the
\* snapshot together.
PatchUser(c) ==
    /\ at[c] = "patch user" /\ writer = None
    /\ LET slot == asked[c].slot patch == asked[c].change IN
       IF slot \notin DOMAIN disk.users
         THEN Rollback /\ Return(c, Refused("UserNotFound"))
         ELSE /\ writer' = "users"
              /\ work' = [disk EXCEPT !.users[slot] = UpdateUser(@, patch)]
              /\ UNCHANGED <<disk, behind>>
              /\ Proceed(c, "patch memberships",
                         [slot |-> slot, left |-> patch.memberships, result |-> Done])

PatchNextMembership(c) ==
    /\ at[c] = "patch memberships" /\ local[c].left # {}
    /\ LET patch == CHOOSE p \in local[c].left : TRUE
           patched == PatchMembership(work, local[c].slot, patch)
       IN  IF ~ConstraintsHold(patched) THEN Rollback /\ Return(c, Refused("Storage"))
           ELSE /\ work' = patched
                /\ UNCHANGED <<disk, writer, behind>>
                /\ Proceed(c, at[c], [local[c] EXCEPT !.left = @ \ {patch}])

Commit(c) ==
    /\ at[c] = "patch memberships" /\ local[c].left = {}
    /\ disk' = work /\ work' = None /\ writer' = None
    /\ UNCHANGED behind
    /\ Return(c, local[c].result)

\* A registration reads first, so its snapshot is older than its write.
CheckHandle(c) ==
    /\ at[c] = "select handle"
    /\ behind' = FALSE
    /\ UNCHANGED <<tables, writer>>
    /\ IF SelectSlot(disk, asked[c].draft.handle) # {}
         THEN Return(c, Refused("DuplicateUser"))
         ELSE Proceed(c, "select next slot", None)

AllocateSlot(c) ==
    /\ at[c] = "select next slot"
    /\ ReadOnly
    /\ Proceed(c, "insert user", [slot |-> Max(DOMAIN disk.users \cup {0}) + 1])

InsertNewUser(c) ==
    /\ at[c] = "insert user" /\ writer = None
    /\ IF behind THEN Rollback /\ Return(c, Refused("Storage"))
       ELSE LET user == RegisterNew(local[c].slot, asked[c].draft) IN
            /\ writer' = "users"
            /\ work' = DeleteMemberships(InsertUser(disk, user), user.slot_number)
            /\ UNCHANGED <<disk, behind>>
            /\ Proceed(c, "patch memberships",
                       [slot |-> user.slot_number, left |-> {}, result |-> Found(user)])

\* The write lock of the other connection outlasted the busy timeout, which
\* rusqlite gives every connection it opens; the statement's error is returned.
TimedOut(c) ==
    /\ at[c] \in {"update", "patch user", "insert user"} /\ writer = "flags"
    /\ UNCHANGED <<tables, writer, behind>>
    /\ Return(c, Refused("Storage"))

\* The flagged-file store replaces a flag set over its own connection.
SaveFlags ==
    /\ boot = "serving" /\ writer = None /\ saves < workload.saves
    /\ writer' = "flags" /\ saves' = saves + 1
    /\ UNCHANGED <<tables, boot, catalogue, lock, at, local, behind, asked, answer,
                   sessions, workload, now, made, stops>>
FlagsSaved ==
    /\ writer = "flags"
    /\ writer' = None
    /\ behind' = (lock # None)
    /\ UNCHANGED <<tables, boot, catalogue, lock, at, local, asked, answer, sessions, bounds>>

----------------------------------------------------------------------------
Answering(c) ==
    \/ FindSlot(c) \/ LoadUser(c) \/ LoadRest(c)
    \/ RecordAuthOutcome(c) \/ RecordPasswordChange(c)
    \/ PatchUser(c) \/ PatchNextMembership(c) \/ Commit(c)
    \/ CheckHandle(c) \/ AllocateSlot(c) \/ InsertNewUser(c) \/ TimedOut(c)

Next ==
    \/ Open \/ IsEmpty \/ SeedUser \/ SeedMembership \/ CommitSeed \/ Stop
    \/ Tick \/ SaveFlags \/ FlagsSaved
    \/ \E c \in Callers :
         \/ LookUp(c) \/ Register(c) \/ Judge(c) \/ ChangeOwnPassword(c)
         \/ EditCopy(c) \/ Save(c) \/ Lock(c) \/ Answering(c)

Spec == Init /\ [][Next]_vars

\* A statement that can run does, the other connection finishes its save, and
\* a caller that waits for a connection which stays free gets it.
Fairness == /\ WF_vars(FlagsSaved)
            /\ \A c \in Callers : WF_vars(Lock(c) \/ Answering(c))
FairSpec == Spec /\ Fairness

----------------------------------------------------------------------------
AccountOf(slot) == FromPersisted(slot, disk.users[slot], LoadMemberships(disk, slot))
accounts == [slot \in DOMAIN disk.users |-> AccountOf(slot)]

\* The tables and the statements keep the promise of the repository: what
\* callers see, and what a restart finds, is what whole commands made of whole
\* accounts, by the merge rules of the domain.
Store == INSTANCE UserStore
StoreImplemented == Store!Spec

\* Nobody who asks the repository waits for ever, behind another caller or
\* behind the flag store, unless the board ends.
CommandsAnswered == \A c \in Callers : asked[c] # Idle ~> asked[c] = Idle
=============================================================================
