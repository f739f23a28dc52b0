-------------------------- MODULE AccountSessions --------------------------
(* Callers signing in, using the board and leaving, each call with its own
   copy of the account, several calls of one account at a time.

   A step is what one call does between two points where another call can
   interleave: it holds at most one call of the user repository (each is
   atomic, under the in-memory mutex or an SQLite transaction) and the
   changes of the session's own state that go with it.  Every such call may
   fail, and the process may crash; both lose the session.

   A definition that is followed by a near copy of itself is a mistake the
   properties are tried against; the model uses the second of the two.     *)
EXTENDS UserRecords, FiniteSets

CONSTANTS Slots,              \* slot numbers, one per account
          Sessions,           \* calls the board can carry at a time
          Trim(_),            \* a line without its surrounding white space
          Weak,               \* passwords below the configured strength
          AllowNewUsers,      \* core/config.allow_new_users
          GateRequired,       \* is core/config.new_user_password set
          SeededStores,       \* the possible contents of the store at start
          MaxNameRetries,     \* MAX_NAME_RETRIES
          MaxFailures,        \* core/config.max_password_failures
          MaxGateAttempts,    \* core/config.max_new_user_password_attempts
          MaxHandleAttempts,  \* core/config.max_registration_handle_attempts
          MaxResetAttempts,   \* MAX_PASSWORD_RESET_ATTEMPTS
          PasswordExpiry,     \* in ticks; 0 when passwords do not expire
          MaxClock,           \* bound: ticks of the clock
          MaxConnections,     \* bound: connections ever accepted
          MaxMail             \* bound: messages in a conference

VARIABLES store,        \* the user table: one row per slot
          call,         \* the session of each call
          highest,      \* highest message number of each conference
          clock,        \* the time
          connections   \* connections accepted so far
vars == <<store, call, highest, clock, connections>>

Blank == [RegisterNew(NoHandle, CHOOSE p \in Passwords : TRUE, 0)
            EXCEPT !.access_level = 0]

NoSlot == 0
IsFree(row) == row.handle = NoHandle

\* A row the program can find in its table when it starts.
SeededRow(row) ==
    /\ row \in UserRecord
    /\ row.last_call = Never /\ row.password_last_updated = 0
    /\ \A c \in Conferences : row.last_read[c] <= row.last_scanned[c]
    /\ ~ row.account_locked => row.invalid_attempts <= Cardinality(Sessions) * (MaxFailures - 1)
    /\ IsFree(row) => row = Blank

ASSUME SessionsAssumption == IsFiniteSet(Sessions)
ASSUME SlotsAssumption == Slots \subseteq Nat \ {NoSlot}
ASSUME PasswordsAssumption ==
    Passwords # {} /\ (\A p \in Passwords : Trim(p) \in Passwords) /\ Weak \subseteq Passwords
ASSUME LimitsAssumption ==
    /\ {MaxNameRetries, MaxFailures, MaxGateAttempts, MaxHandleAttempts,
        MaxResetAttempts} \subseteq Nat \ {0}
    /\ PasswordExpiry \in Nat
    /\ AllowNewUsers \in BOOLEAN /\ GateRequired \in BOOLEAN
ASSUME BoundsAssumption == {MaxClock, MaxConnections, MaxMail} \subseteq Nat
ASSUME SeedAssumption ==
    \A seeded \in SeededStores :
        /\ seeded \in [Slots -> UserRecord]
        /\ \A u \in Slots : SeededRow(seeded[u])
        /\ \A u, v \in Slots :
             u # v /\ ~ IsFree(seeded[u]) => seeded[u].handle # seeded[v].handle

----------------------------------------------------------------------------
(* The session.  strikes counts the failures of the prompt the call stands
   at: unknown names, bad passwords, gate attempts, refused handles, refused
   new passwords; every counter starts with its prompt.                    *)

Phases == {"Connecting", "Identifying", "Authenticating", "NewUserRegistering",
           "Onboarded", "Menu", "LoggingOff", "Ended"}

Session == [phase : Phases,
            slot : Slots \cup {NoSlot},      \* the bound account
            user : UserRecord,               \* the session's copy of it
            base : UserRecord,               \* its state as last persisted
            strikes : Nat,
            gate_verified : BOOLEAN,
            typed_handle : Handles \cup {NoHandle},
            rejoined : BOOLEAN]              \* a conference visit is open

NoCall == [phase |-> "Ended", slot |-> NoSlot, user |-> Blank, base |-> Blank,
           strikes |-> 0, gate_verified |-> FALSE, typed_handle |-> NoHandle,
           rejoined |-> FALSE]

Bound(s) == call[s].slot # NoSlot

Init == /\ store \in SeededStores
        /\ call = [s \in Sessions |-> NoCall]
        /\ highest = [c \in Conferences |-> 0]
        /\ clock = 1
        /\ connections = 0

\* The call moves to session state next and nothing else changes.
Becomes(s, next) ==
    /\ call' = [call EXCEPT ![s] = next]
    /\ UNCHANGED <<store, highest, clock, connections>>

\* The row of the bound account becomes row; the session takes its own copy
\* user, which is from then on its baseline (rebaseline_persisted).
Persist(s, u, row, next, user) ==
    /\ store' = [store EXCEPT ![u] = row]
    /\ call' = [call EXCEPT ![s] = [next EXCEPT !.slot = u,
                                                !.user = user, !.base = user]]
    /\ UNCHANGED <<highest, clock, connections>>

PendingPatch(s, user) == PatchBetween(call[s].base, user)

\* Teardown keeps whatever account the call was bound to (CallSalvage).
LoggingOff(session) ==
    [session EXCEPT !.phase = "LoggingOff", !.strikes = 0, !.gate_verified = FALSE,
                    !.typed_handle = NoHandle, !.rejoined = FALSE]

Connect(s) ==
    /\ call[s].phase = "Ended"
    /\ connections < MaxConnections
    /\ connections' = connections + 1
    /\ call' = [call EXCEPT ![s].phase = "Connecting"]
    /\ UNCHANGED <<store, highest, clock>>

PromptForName(s) ==
    /\ call[s].phase = "Connecting"
    /\ Becomes(s, [call[s] EXCEPT !.phase = "Identifying"])

----------------------------------------------------------------------------
(* The name prompt.                                                        *)

\* The freshly loaded row is the session's copy and its baseline.
RecordIdentifiedUser(s, u) ==
    /\ call[s].phase = "Identifying"
    /\ ~ IsFree(store[u])
    /\ Becomes(s, [call[s] EXCEPT !.phase = "Authenticating", !.slot = u,
                                  !.user = store[u], !.base = store[u],
                                  !.strikes = 0])

\* The last strike ends the session at once: nothing is finalised.
RecordUnknownName(s) ==
    /\ call[s].phase = "Identifying"
    /\ Becomes(s, IF call[s].strikes + 1 >= MaxNameRetries
                    THEN NoCall
                    ELSE [call[s] EXCEPT !.strikes = @ + 1])

RecordNewUserRequest(s) ==
    /\ call[s].phase = "Identifying"
    /\ Becomes(s, IF AllowNewUsers
                    THEN [call[s] EXCEPT !.phase = "NewUserRegistering",
                                         !.strikes = 0,
                                         !.gate_verified = ~ GateRequired]
                    ELSE LoggingOff(call[s]))

----------------------------------------------------------------------------
(* The password prompt.                                                    *)

DecideLate(invalid_attempts, strikes) ==
    CASE invalid_attempts > MaxFailures -> "LockAccount"
      [] invalid_attempts <= MaxFailures /\ strikes >= MaxFailures -> "EndSession"
      [] OTHER -> "Continue"
PasswordFailureDecision(invalid_attempts, strikes) ==
    CASE invalid_attempts >= MaxFailures -> "LockAccount"
      [] invalid_attempts < MaxFailures /\ strikes >= MaxFailures -> "EndSession"
      [] OTHER -> "Continue"

AdmitEveryMatch(s, u) ==
    LET daily == DailyBudgetOutcome(call[s].user.last_call, clock)
        admitted == FlagResetIfExpired(
                      BeginDailyBudget([call[s].user EXCEPT !.invalid_attempts = 0], daily),
                      PasswordExpiry, clock)
    IN  Persist(s, u,
                ApplyAuthOutcome(AuthMatched(daily, admitted.force_password_reset), store[u]),
                [call[s] EXCEPT !.phase = "Onboarded", !.strikes = 0], admitted)
ApplyPasswordMatch(s, u) ==
    LET cleared == [call[s].user EXCEPT !.invalid_attempts = 0]
        daily == DailyBudgetOutcome(cleared.last_call, clock)
        admitted == FlagResetIfExpired(BeginDailyBudget(cleared, daily),
                                       PasswordExpiry, clock)
    IN  IF IsLockedOut(cleared)
          THEN Persist(s, u,
                       ApplyAuthOutcome(AuthMatched("None", cleared.force_password_reset),
                                        store[u]),
                       LoggingOff(call[s]), cleared)
          ELSE Persist(s, u,
                       ApplyAuthOutcome(AuthMatched(daily, admitted.force_password_reset),
                                        store[u]),
                       [call[s] EXCEPT !.phase = "Onboarded", !.strikes = 0],
                       admitted)

ApplyPasswordMismatch(s, u) ==
    LET bumped == [call[s].user EXCEPT !.invalid_attempts = @ + 1]
        strikes == call[s].strikes + 1
        decision == PasswordFailureDecision(bumped.invalid_attempts, strikes)
        \* lock_account also clears the counter of the session's copy
        locked == [bumped EXCEPT !.account_locked = TRUE, !.invalid_attempts = 0]
    IN  Persist(s, u,
                ApplyAuthOutcome(AuthMismatched(decision = "LockAccount"), store[u]),
                IF decision = "Continue"
                  THEN [call[s] EXCEPT !.strikes = strikes]
                  ELSE LoggingOff(call[s]),
                IF decision = "LockAccount" THEN locked ELSE bumped)

\* The line typed at the prompt is trimmed before it is verified.
VerifyPassword(s, line) ==
    \E u \in Slots :
        /\ call[s].phase = "Authenticating"
        /\ call[s].slot = u
        /\ IF Trim(line) = call[s].user.password_hash
             THEN ApplyPasswordMatch(s, u)
             ELSE ApplyPasswordMismatch(s, u)

----------------------------------------------------------------------------
(* Registration.                                                           *)

ApplyNewUserPasswordAttempt(s, matches) ==
    /\ call[s].phase = "NewUserRegistering"
    /\ ~ call[s].gate_verified
    /\ Becomes(s,
         CASE matches -> [call[s] EXCEPT !.gate_verified = TRUE, !.strikes = 0]
           [] ~ matches /\ call[s].strikes + 1 >= MaxGateAttempts -> LoggingOff(call[s])
           [] OTHER -> [call[s] EXCEPT !.strikes = @ + 1])

\* The flow is past the gate and asks for the profile.
AtProfile(s) == call[s].phase = "NewUserRegistering" /\ call[s].gate_verified

HandleTaken(handle) == \E u \in Slots : store[u].handle = handle

ReadHandle(s, handle) ==
    /\ AtProfile(s)
    /\ call[s].typed_handle = NoHandle
    /\ ~ HandleTaken(handle)
    /\ Becomes(s, [call[s] EXCEPT !.typed_handle = handle, !.strikes = 0])

\* An empty line, the word NEW or a handle in use.
RefuseHandle(s) ==
    /\ AtProfile(s)
    /\ call[s].typed_handle = NoHandle
    /\ Becomes(s, IF call[s].strikes + 1 >= MaxHandleAttempts
                    THEN LoggingOff(call[s])
                    ELSE [call[s] EXCEPT !.strikes = @ + 1])

\* Slots are handed out in order: one more than the highest in use.
NextSlot(u) == \A v \in Slots : IsFree(store[v]) <=> v >= u

\* create_user looks again, under its lock: the handle was free when it was
\* typed, several prompts ago.
TrustTheFirstLook(handle) == FALSE
DuplicateUser(handle) == HandleTaken(handle)

\* The password is stored as it was typed.  The daily budget then moves the
\* session's copy only: the row stays as created until the next patch.
CreateUser(s, u, password) ==
    LET created == RegisterNew(call[s].typed_handle, password, clock)
    IN  /\ AtProfile(s)
        /\ call[s].typed_handle # NoHandle
        /\ ~ DuplicateUser(call[s].typed_handle)
        /\ NextSlot(u)
        /\ store' = [store EXCEPT ![u] = created]
        /\ call' = [call EXCEPT ![s] =
                      [@ EXCEPT !.phase = "Onboarded", !.slot = u, !.base = created,
                                !.user = FlagResetIfExpired(
                                   BeginDailyBudget(created,
                                      DailyBudgetOutcome(created.last_call, clock)),
                                   PasswordExpiry, clock),
                                !.strikes = 0, !.gate_verified = FALSE,
                                !.typed_handle = NoHandle]]
        /\ UNCHANGED <<highest, clock, connections>>

\* The handle went to another call meanwhile, or the hash or the store failed.
RegistrationFails(s) ==
    /\ AtProfile(s)
    /\ call[s].typed_handle # NoHandle
    /\ Becomes(s, LoggingOff(call[s]))

----------------------------------------------------------------------------
(* From sign-in to the menu.                                               *)

FirstAccessible(granted) == CHOOSE c \in granted : \A d \in granted : c <= d

\* The conference of the last call when it is still granted, else the first.
ResolveAutoRejoin(user) ==
    IF user.last_joined \in user.granted THEN user.last_joined
                                         ELSE FirstAccessible(user.granted)

\* The logon is counted, and the patch carries it with everything since the
\* last baseline.
EnterMenuAs(s, u, user) ==
    LET counted == [user EXCEPT !.times_called = @ + 1] IN
    Persist(s, u, ApplyPatch(PendingPatch(s, counted), store[u]),
            [call[s] EXCEPT !.phase = "Menu", !.strikes = 0, !.rejoined = TRUE],
            counted)

\* No conference, no call; a pending password reset holds the call back.
AutoRejoin(s) ==
    \E u \in Slots :
        /\ call[s].phase = "Onboarded" /\ ~ call[s].rejoined
        /\ call[s].slot = u
        /\ LET joined == [call[s].user EXCEPT
                            !.last_joined = ResolveAutoRejoin(call[s].user)]
           IN  CASE call[s].user.granted = {} -> Becomes(s, LoggingOff(call[s]))
                 [] call[s].user.granted # {} /\ joined.force_password_reset ->
                      Becomes(s, [call[s] EXCEPT !.user = joined, !.rejoined = TRUE])
                 [] OTHER -> EnterMenuAs(s, u, joined)

ResetPending(s) ==
    /\ call[s].phase = "Onboarded" /\ call[s].rejoined
    /\ call[s].user.force_password_reset

\* The row gets the new credentials only, but the baseline is the whole copy:
\* that the rejoin set last_joined is forgotten, and no later patch tells.
CompletePasswordReset(s, password) ==
    \E u \in Slots :
        /\ ResetPending(s)
        /\ call[s].slot = u
        /\ password \notin Weak
        /\ password # call[s].user.password_hash
        /\ Persist(s, u, ApplyPasswordChange(password, clock, store[u]), call[s],
                   ApplyPasswordChange(password, clock, call[s].user))

\* The confirmation differs, or the password is weak or the old one.
RejectPasswordReset(s) ==
    /\ ResetPending(s)
    /\ Becomes(s, IF call[s].strikes + 1 >= MaxResetAttempts
                    THEN LoggingOff(call[s])
                    ELSE [call[s] EXCEPT !.strikes = @ + 1])

EnterMenuAfterReset(s) ==
    \E u \in Slots :
        /\ call[s].phase = "Onboarded" /\ call[s].rejoined
        /\ ~ call[s].user.force_password_reset
        /\ call[s].slot = u
        /\ EnterMenuAs(s, u, call[s].user)

----------------------------------------------------------------------------
(* At the menu: all of it stays in the session's copy until the call ends. *)

\* The logon scan offers the messages of every granted conference, so reading
\* and replying are not tied to the open visit.
MenuIn(s, c) == call[s].phase = "Menu" /\ c \in call[s].user.granted

\* The message is stored first; then the counters of the author move.
PostMail(s, c) ==
    /\ MenuIn(s, c)
    /\ highest[c] < MaxMail
    /\ highest' = [highest EXCEPT ![c] = @ + 1]
    /\ call' = [call EXCEPT ![s].user.messages_posted = @ + 1]
    /\ UNCHANGED <<store, clock, connections>>

ReadMail(s, c, number) ==
    /\ MenuIn(s, c)
    /\ number \in 1 .. highest[c]
    /\ Becomes(s, [call[s] EXCEPT !.user = AdvanceLastRead(@, c, number)])

ScanMail(s, c) ==
    /\ MenuIn(s, c)
    /\ Becomes(s, [call[s] EXCEPT !.user = AdvanceLastScanned(@, c, highest[c])])

ExplicitJoin(s, c) ==
    /\ MenuIn(s, c)
    /\ Becomes(s, [call[s] EXCEPT !.user.last_joined = c])

----------------------------------------------------------------------------
(* Leaving.                                                                *)

\* Carrier loss, idle timeout, the G command, an exhausted time budget, and
\* the terminal error of a write.  Nothing is awaited between a completed
\* reset and the menu.
LeaveCall(s) ==
    /\ call[s].phase \notin {"LoggingOff", "Ended"}
    /\ call[s].phase = "Onboarded" /\ call[s].rejoined => ResetPending(s)
    /\ Becomes(s, LoggingOff(call[s]))

\* Any bound account is stamped, authenticated or not.
FinaliseLogoff(s) ==
    /\ call[s].phase = "LoggingOff"
    /\ \/ /\ ~ Bound(s)
          /\ Becomes(s, NoCall)
       \/ \E u \in Slots :
            /\ call[s].slot = u
            /\ LET stamped == [call[s].user EXCEPT !.last_call = clock] IN
               store' = [store EXCEPT ![u] = ApplyPatch(PendingPatch(s, stamped), @)]
            /\ call' = [call EXCEPT ![s] = NoCall]
            /\ UNCHANGED <<highest, clock, connections>>

\* A repository call of the step at hand fails: the session is dropped, at
\* the name or password prompt, in the reset, on entering the menu (Aborted)
\* or in finalise, where the error is only logged.
StoreFails(s) ==
    /\ call[s].phase \in {"Identifying", "Authenticating", "Onboarded", "LoggingOff"}
    /\ Becomes(s, NoCall)

\* The process dies and starts again; the store is all that survives.
Crash ==
    /\ \E s \in Sessions : call[s] # NoCall
    /\ call' = [s \in Sessions |-> NoCall]
    /\ UNCHANGED <<store, highest, clock, connections>>

Tick == /\ clock < MaxClock
        /\ clock' = clock + 1
        /\ UNCHANGED <<store, call, highest, connections>>

----------------------------------------------------------------------------
\* What the program does with a call before and after the menu.
SignIn(s) ==
    \/ PromptForName(s)
    \/ \E u \in Slots : RecordIdentifiedUser(s, u)
    \/ RecordUnknownName(s)
    \/ RecordNewUserRequest(s)
    \/ \E line \in Passwords : VerifyPassword(s, line)
    \/ \E matches \in BOOLEAN : ApplyNewUserPasswordAttempt(s, matches)
    \/ \E handle \in Handles : ReadHandle(s, handle)
    \/ RefuseHandle(s)
    \/ \E u \in Slots, password \in Passwords : CreateUser(s, u, password)
    \/ RegistrationFails(s)
    \/ AutoRejoin(s)
    \/ \E password \in Passwords : CompletePasswordReset(s, password)
    \/ RejectPasswordReset(s)
    \/ EnterMenuAfterReset(s)
SignOff(s) == LeaveCall(s) \/ FinaliseLogoff(s)

AtMenu(s) ==
    \E c \in Conferences :
        \/ PostMail(s, c)
        \/ \E number \in 1 .. MaxMail : ReadMail(s, c, number)
        \/ ScanMail(s, c)
        \/ ExplicitJoin(s, c)

Next ==
    \/ \E s \in Sessions : Connect(s) \/ SignIn(s) \/ AtMenu(s) \/ SignOff(s)
                             \/ StoreFails(s)
    \/ Crash
    \/ Tick

Spec == Init /\ [][Next]_vars

\* A read at the terminal returns: a line, the end of the carrier or the idle
\* timeout; what the program does with it then runs to the next read.  At the
\* menu a caller may go on for ever.
LeavesPrompt(s) == call[s].phase # "Menu" /\ (SignIn(s) \/ SignOff(s))
FairSpec == Spec /\ \A s \in Sessions : WF_vars(LeavesPrompt(s))

----------------------------------------------------------------------------
(* The user table as a ledger: the account fields AccountLedger speaks of,
   and of each call what it has not committed yet.                         *)

LedgerAccount(row) ==
    [times_called |-> row.times_called, messages_posted |-> row.messages_posted,
     invalid_attempts |-> row.invalid_attempts, account_locked |-> row.account_locked,
     last_call |-> row.last_call,
     last_read |-> row.last_read, last_scanned |-> row.last_scanned]

LedgerStage(session) ==
    CASE session.slot = NoSlot -> "out"
      [] session.slot # NoSlot /\ session.phase = "Menu" -> "online"
      [] session.slot # NoSlot /\ session.phase = "LoggingOff" -> "leaving"
      [] OTHER -> "bound"

LedgerEntry(session) ==
    [slot |-> session.slot, stage |-> LedgerStage(session),
     posted |-> session.user.messages_posted - session.base.messages_posted]

Ledger == INSTANCE AccountLedger WITH
            account <- [u \in Slots |-> LedgerAccount(store[u])],
            entry <- [s \in Sessions |-> LedgerEntry(call[s])]

----------------------------------------------------------------------------
(* Properties.                                                             *)

\* Every row and every session has the shape the code gives it.
TypeOK ==
    /\ store \in [Slots -> UserRecord]
    /\ call \in [Sessions -> Session]
    /\ highest \in [Conferences -> Nat]
    /\ clock \in Nat \ {0}
    /\ connections \in Nat

\* The delta and patch writes of any number of calls of one account never
\* lose or repeat a logon, a post or a failed password, and never move a time
\* or a pointer back (the promise of the user repository's write commands).
LedgerRefined == Ledger!Spec

\* How many failures the prompt a call stands at lets it survive.
StrikeLimit(session) ==
    CASE session.phase = "Identifying" -> MaxNameRetries
      [] session.phase = "Authenticating" -> MaxFailures
      [] session.phase = "NewUserRegistering" ->
           IF session.gate_verified THEN MaxHandleAttempts ELSE MaxGateAttempts
      [] session.phase = "Onboarded" -> MaxResetAttempts
      [] OTHER -> 1

\* No prompt lets a call fail its limit and go on, and no prompt inherits the
\* failures of the one before it (session.allium SessionRetriesBounded).
RetriesBounded == \A s \in Sessions : call[s].strikes < StrikeLimit(call[s])

\* No two rows carry the same handle, although a handle is checked when it is
\* typed and used only when the whole profile has been asked for
\* (is_handle_available_for_registration, create_user).
HandlesUnique ==
    \A u, v \in Slots :
        u # v /\ ~ IsFree(store[u]) => store[u].handle # store[v].handle

\* However many calls of an account guess side by side, an account that is
\* not locked has taken fewer than MaxFailures bad passwords from each since
\* its last good one.  Each call judges by its own stale count
\* (apply_password_mismatch); this is the price of it, and all of it: a bad
\* password that ends a call locks the account, for the retries of the session
\* never run out first (record_password_failure moves both counters together).
GuessesBounded ==
    /\ [](\A u \in Slots : ~ store[u].account_locked =>
            store[u].invalid_attempts <= Cardinality(Sessions) * (MaxFailures - 1))
    /\ [][\A s \in Sessions, u \in Slots :
            /\ call[s].phase = "Authenticating" /\ call[s].slot = u
            /\ call'[s].phase = "LoggingOff"
            /\ store'[u].invalid_attempts > store[u].invalid_attempts
            => store'[u].account_locked]_vars

\* last_read never passes last_scanned, in the table and in every session's
\* copy: core.allium ReadDoesNotExceedScanned, across the pairwise maximum
\* of rows two sessions advanced apart.
ReadDoesNotExceedScanned ==
    \A c \in Conferences :
        /\ \A u \in Slots : store[u].last_read[c] <= store[u].last_scanned[c]
        /\ \A s \in Sessions : call[s].user.last_read[c] <= call[s].user.last_scanned[c]

\* The row shows what a session made of its copy between base and saved:
\* before the write it was row, now it is stored.
Stored(base, saved, row, stored) ==
    /\ stored.times_called - row.times_called = saved.times_called - base.times_called
    /\ stored.messages_posted - row.messages_posted
         = saved.messages_posted - base.messages_posted
    /\ saved.times_called_today > base.times_called_today =>
         stored.times_called_today - row.times_called_today
           = saved.times_called_today - base.times_called_today
    /\ saved.last_call # base.last_call => stored.last_call >= saved.last_call
    /\ saved.last_joined # base.last_joined /\ saved.password_hash = base.password_hash
         => stored.last_joined = saved.last_joined
    /\ \A c \in Conferences :
         /\ saved.last_read[c] > base.last_read[c] =>
              stored.last_read[c] >= saved.last_read[c]
         /\ saved.last_scanned[c] > base.last_scanned[c] =>
              stored.last_scanned[c] >= saved.last_scanned[c]
    /\ saved.invalid_attempts > base.invalid_attempts =>
         stored.invalid_attempts > row.invalid_attempts
    /\ saved.account_locked /\ ~ base.account_locked => stored.account_locked
    /\ saved.force_password_reset /\ ~ base.force_password_reset =>
         stored.force_password_reset
    /\ saved.password_hash # base.password_hash =>
         stored.password_hash = saved.password_hash /\ ~ stored.force_password_reset

\* What a session no longer owes the table, the table has: when its baseline
\* moves (rebaseline_persisted: the next patch carries not-yet-persisted
\* changes only) and when it is finalised, every change since the baseline
\* before is in the row, whatever other calls wrote there meanwhile.  One
\* change is known to be missing, and exempted: a completed reset takes the
\* whole copy as its baseline and writes the credentials alone, so the
\* last_joined of the rejoin before it is in no patch at all.
WhatIsSavedIsStored ==
    [][\A s \in Sessions, u \in Slots : call[s].slot = u =>
         /\ call'[s].slot = u /\ call'[s].base # call[s].base =>
              Stored(call[s].base, call'[s].base, store[u], store'[u])
         /\ FinaliseLogoff(s) =>
              Stored(call[s].base, [call[s].user EXCEPT !.last_call = clock],
                     store[u], store'[u])]_vars

\* Whoever is at the menu was let in: not locked out and no reset pending
\* when the call was authenticated, and at a conference granted to them.
MenuOnlyAfterAdmission ==
    \A s \in Sessions : call[s].phase = "Menu" =>
        /\ ~ IsLockedOut(call[s].user)
        /\ ~ call[s].user.force_password_reset
        /\ call[s].user.last_joined \in call[s].user.granted

\* Every call that is being signed in reaches the menu or ends, and every
\* call that leaves is finalised.
SignInEnds ==
    \A s \in Sessions : call[s].phase \notin {"Menu", "Ended"}
                            ~> call[s].phase \in {"Menu", "Ended"}

----------------------------------------------------------------------------
(* What the repository's documents say and the code does not do.           *)

\* session.allium, LockedAccountsCannotEnterMenu: no call reaches the menu on
\* an account that is locked at that moment.
LockedAccountsCannotEnterMenu ==
    [][\A s \in Sessions, u \in Slots :
         /\ call[s].phase # "Menu" /\ call'[s].phase = "Menu" /\ call'[s].slot = u
         => ~ store[u].account_locked]_vars

\* session.allium, VerifyPassword: the user either provides the right password
\* or they do not.  So for every account there is a line to type that is the
\* right one.
RightPasswordExists ==
    \A u \in Slots : ~ IsFree(store[u]) =>
        \E line \in Passwords : Trim(line) = store[u].password_hash
=============================================================================
