---------------------------- MODULE UserRecords ----------------------------
(* The stored account and the merge rules of the three write commands of
   the user repository: what one session hands over (an authentication
   outcome, a password change, the patch of its own changes) and how the
   row on disk absorbs it while other sessions of the same account hold
   older copies.

   The rules are those of domain/user/commands.rs, the reference both
   repository adapters are pinned to.  A password is identified with its
   hash.  Of the patch families that merge alike one stands for all:
   times_called_today for the two daily counters, last_joined for the
   last-writer-wins fields (expert mode, flags, scan flags), one message
   base for every conference, messages_posted for it and the tally kept on
   the membership row.  The counters saturate at 2^32 - 1 in the code, far
   from what a board counts; here they do not end.

   A definition that is followed by a near copy of itself is a mistake the
   properties are tried against; the model uses the second of the two.     *)
EXTENDS Integers

CONSTANTS Conferences,     \* conference numbers
          Handles,         \* the handles callers use
          NoHandle,        \* the handle of a row that does not exist
          Passwords,       \* lines a caller may type at a password prompt
          DayLength        \* clock ticks in an accounting day

ASSUME ConferencesAssumption == Conferences \subseteq Nat \ {0}
ASSUME HandlesAssumption == NoHandle \notin Handles
ASSUME DayLengthAssumption == DayLength \in Nat \ {0}

Never == 0          \* last_call of an account that has never called
NoConference == 0   \* last_joined of an account that has never joined

UserRecord ==
    [handle : Handles \cup {NoHandle},
     password_hash : Passwords,
     password_last_updated : Nat,
     force_password_reset : BOOLEAN,
     invalid_attempts : Nat,
     account_locked : BOOLEAN,
     access_level : Nat,
     granted : SUBSET Conferences,
     times_called : Nat,
     times_called_today : Nat,
     last_call : Nat,
     last_joined : Conferences \cup {NoConference},
     messages_posted : Nat,
     last_read : [Conferences -> Nat],
     last_scanned : [Conferences -> Nat]]

Larger(a, b) == IF a >= b THEN a ELSE b

\* Mistake: the count itself for the change.
AbsoluteCount(a, b) == a
\* saturating_sub
Excess(a, b) == IF a >= b THEN a - b ELSE 0

----------------------------------------------------------------------------
(* What a session does to its own copy of the account.                     *)

IsLockedOut(user) == user.access_level <= 1 \/ user.account_locked

RegisterNew(handle, password, now) ==
    [handle |-> handle,
     password_hash |-> password,
     password_last_updated |-> now,
     force_password_reset |-> FALSE,
     invalid_attempts |-> 0,
     account_locked |-> FALSE,
     access_level |-> 2,
     granted |-> {},
     times_called |-> 0,
     times_called_today |-> 0,
     last_call |-> now,
     last_joined |-> NoConference,
     messages_posted |-> 0,
     last_read |-> [c \in Conferences |-> 0],
     last_scanned |-> [c \in Conferences |-> 0]]

Day(t) == t \div DayLength

DailyBudgetOutcome(last_call, now) ==
    IF last_call # Never /\ Day(last_call) = Day(now) THEN "SameDay" ELSE "NewDay"

BeginDailyBudget(user, daily) ==
    [user EXCEPT !.times_called_today = IF daily = "NewDay" THEN 0 ELSE @ + 1]

\* Strictly more than expiry ticks since the last change; 0 turns expiry off.
FlagResetIfExpired(user, expiry, now) ==
    [user EXCEPT !.force_password_reset =
        @ \/ (expiry > 0 /\ now - user.password_last_updated > expiry)]

\* Reading a message lifts last_scanned along with last_read.
AdvanceReadAlone(user, c, to) ==
    [user EXCEPT !.last_read[c] = Larger(@, to)]
AdvanceLastRead(user, c, to) ==
    LET read == Larger(user.last_read[c], to) IN
    [user EXCEPT !.last_read[c] = read,
                 !.last_scanned[c] = Larger(@, read)]

AdvanceLastScanned(user, c, to) ==
    [user EXCEPT !.last_scanned[c] = Larger(@, to)]

----------------------------------------------------------------------------
(* The write commands and what the stored row makes of them.               *)

AuthMatched(daily, force) ==
    [kind |-> "Matched", daily |-> daily, force_password_reset |-> force]
AuthMismatched(lock) == [kind |-> "Mismatched", lock_account |-> lock]

ApplyAuthOutcome(outcome, row) ==
    IF outcome.kind = "Matched"
      THEN [row EXCEPT
              !.invalid_attempts = 0,
              !.force_password_reset = @ \/ outcome.force_password_reset,
              !.times_called_today = CASE outcome.daily = "NewDay" -> 0
                                       [] outcome.daily = "SameDay" -> @ + 1
                                       [] OTHER -> @]
      ELSE [row EXCEPT !.invalid_attempts = @ + 1,
                       !.account_locked = @ \/ outcome.lock_account]

\* The session's own copy and the stored row take a change the same way.
ChangePasswordOnly(password, now, row) ==
    [row EXCEPT !.password_hash = password, !.password_last_updated = now]
ApplyPasswordChange(password, now, row) ==
    [row EXCEPT !.password_hash = password,
                !.password_last_updated = now,
                !.force_password_reset = FALSE]

\* The pointer rows a patch carries.
ReadRowsOnly(baseline, current) ==
    {c \in Conferences : current.last_read[c] > baseline.last_read[c]}
AdvancedPointers(baseline, current) ==
    {c \in Conferences : \/ current.last_read[c] > baseline.last_read[c]
                         \/ current.last_scanned[c] > baseline.last_scanned[c]}

\* The not-yet-persisted changes of one session: additive counters as
\* deltas, last-writer-wins fields only when they changed, pointer rows only
\* when they advanced.
PatchBetween(baseline, current) ==
    [times_called_delta |-> Excess(current.times_called, baseline.times_called),
     times_called_today_delta |->
        Excess(current.times_called_today, baseline.times_called_today),
     messages_posted_delta |->
        Excess(current.messages_posted, baseline.messages_posted),
     last_call |-> IF current.last_call # baseline.last_call
                     THEN current.last_call ELSE Never,
     last_joined |-> IF current.last_joined # baseline.last_joined
                       THEN current.last_joined ELSE NoConference,
     pointers |-> AdvancedPointers(baseline, current),
     last_read |-> current.last_read,
     last_scanned |-> current.last_scanned]

ApplyPatch(patch, row) ==
    LET read(c) == IF c \in patch.pointers
                     THEN Larger(row.last_read[c], patch.last_read[c])
                     ELSE row.last_read[c]
    IN  [row EXCEPT
           !.times_called = @ + patch.times_called_delta,
           !.times_called_today = @ + patch.times_called_today_delta,
           !.messages_posted = @ + patch.messages_posted_delta,
           !.last_call = Larger(@, patch.last_call),
           !.last_joined = IF patch.last_joined = NoConference
                             THEN @ ELSE patch.last_joined,
           !.last_read = [c \in Conferences |-> read(c)],
           !.last_scanned =
              [c \in Conferences |->
                 IF c \in patch.pointers
                   THEN Larger(Larger(row.last_scanned[c], read(c)),
                               patch.last_scanned[c])
                   ELSE row.last_scanned[c]]]
=============================================================================
