----------------------------- MODULE CallRecord -----------------------------
(* What a call leaves behind: the reason it ended for, its lines in the
   caller log, what it adds to the account, and the minutes it is charged.

   A call is followed from the accepted connection to its last line.  Every
   place where it waits for the caller or writes to the terminal is a place
   where the connection may be lost or the caller fall silent, the goodbyes
   included.  The account is a stored one and the call's own copy of it, with
   the rules of UserAggregate; a write may fail.  What the menu's commands do
   is the matter of other modules; here they only take time.

   Two calls of one account may be under way at once.  A log line is appended
   after the account was written, in a step of its own.

   A definition followed by a near copy of itself is a mistake the
   properties are tried against; the model uses the second of the two.     *)
EXTENDS UserAggregate, Sequences, SequencesExt, TLC

CONSTANTS
    CallIds, None,
    Minute, DayLength, DailyResetOffset,    \* in ticks of the clock
    MaxNameRetries,         \* 5 in the code
    MaxPasswordFailures,    \* max_password_failures of the policy
    MaxGateAttempts,        \* max_new_user_password_attempts
    MaxResetAttempts,       \* 3 in the code
    CallWorkloads           \* what one behaviour is about: the account to begin
                            \* with, the settings, who calls, and bounds on the
                            \* clock, its setbacks and the failing writes

\* No session of the record changes a membership, and none invents a name.
Given == {p.account : p \in {q \in CallWorkloads : q.account # None}}
Memberships == {<<>>} \cup {account.conferences.memberships : account \in Given}
Names == {"new"} \cup {account.handle : account \in Given}
Hashes == {"hash", "changed"} \cup {account.credentials.hash : account \in Given}
Accounts ==
    [slot_number : Nat, handle : Names,
     credentials : [hash : Hashes, last_updated : Int, reset : BOOLEAN],
     account : [access_level : Nat, invalid_attempts : Nat,
                account_locked : BOOLEAN, new_user : BOOLEAN],
     usage : [times_called : Nat, times_called_today : Nat, last_call : Int,
              time_limit_per_call : Nat, time_limit_per_day : Nat, time_used_today : Nat],
     profile : [expert_mode : BOOLEAN, account_created : Int, flags : SUBSET STRING],
     conferences : [memberships : Memberships, last_joined : Nat \X Nat,
                    messages_posted : Nat]]
Reasons == {"CarrierLoss", "InputTimeout", "NewUserRejected", "LockedAccount",
            "ExcessivePasswordFails", "NoConferenceAccess", "OutOfTime", "NormalLogoff"}

ASSUME MinuteAssumption == Minute \in Nat \ {0}
ASSUME NoneAssumption == None \notin Accounts \cup Reasons
ASSUME WorkloadsAssumption ==
    \A p \in CallWorkloads :
        /\ p.account \in Accounts \cup {None}
        /\ p.calls \subseteq CallIds /\ p.from \in Int
ASSUME MembershipsAssumption ==
    \A m \in Memberships : m = [conference \in DOMAIN m |-> m[conference]]

VARIABLES
    stored,     \* the account as the repository has it, or None
    call,       \* each call
    caller_log, \* the lines of each call, oldest first
    clock, setbacks, failures, plan
callvars == <<stored, call, caller_log, clock, setbacks, failures, plan>>

Unused ==
    [phase |-> "None", doing |-> "nothing", reason |-> None, retries |-> 0,
     user |-> None, baseline |-> None, authenticated_at |-> Never,
     last_tick_at |-> Never, time_remaining |-> 0, entry |-> None]

CallInit ==
    /\ plan \in CallWorkloads
    /\ stored = plan.account
    /\ call = [c \in CallIds |-> Unused]
    /\ caller_log = [c \in CallIds |-> <<>>]
    /\ clock = plan.from /\ setbacks = 0 /\ failures = 0

----------------------------------------------------------------------------
(* The phases of a call.                                                   *)

Active == {"Identifying", "Authenticating", "NewUserRegistering", "Onboarded", "Menu"}

MoveToLoggingOff(s, reason, doing) ==
    [s EXCEPT !.phase = "LoggingOff", !.reason = reason, !.doing = doing]
ApplyCarrierLoss(s) == MoveToLoggingOff(s, "CarrierLoss", "finalise")
ApplyIdleTimeout(s) ==
    MoveToLoggingOff(s, IF plan.treat_timeout_as_logoff THEN "InputTimeout"
                        ELSE "CarrierLoss", "goodbye")

AlwaysCarrierLoss(s) ==
    IF s.phase = "Ended" THEN [s EXCEPT !.doing = "gone"] ELSE ApplyCarrierLoss(s)
\* What is made of the phase a failing terminal leaves behind.
IntoLoggingOff(s) ==
    IF s.phase \in Active \cup {"Connecting"} THEN ApplyCarrierLoss(s)
    ELSE IF s.phase = "LoggingOff" THEN [s EXCEPT !.doing = "finalise"]
    ELSE [s EXCEPT !.doing = "gone"]

Becomes(c, s) == call' = [call EXCEPT ![c] = s]
InMemory == UNCHANGED <<stored, caller_log, clock, setbacks, failures, plan>>
Line(kind, reason) == [kind |-> kind, reason |-> reason, at |-> clock]
With(s, line) == [s EXCEPT !.entry = line]

\* A call does one thing after another: nothing before its line is written.
Does(c, doing) == call[c].doing = doing /\ call[c].entry = None

AppendLine(c) ==
    /\ call[c].entry # None
    /\ caller_log' = [caller_log EXCEPT ![c] = Append(@, call[c].entry)]
    /\ call' = [call EXCEPT ![c].entry = None]
    /\ UNCHANGED <<stored, clock, setbacks, failures, plan>>

----------------------------------------------------------------------------
(* Writing the account: what is written becomes the baseline; a failing
   write ends the call without another word.                               *)

Aborted(s) == [s EXCEPT !.doing = "gone", !.entry = None]
Rebaselined(s) == [s EXCEPT !.baseline = s.user]
PendingUserPatch(s) == Between(s.baseline, s.user)

Written(c, account, s) ==
    \/ /\ stored' = account
       /\ Becomes(c, Rebaselined(s))
       /\ UNCHANGED failures
    \/ /\ failures < plan.failures
       /\ failures' = failures + 1
       /\ Becomes(c, Aborted(s))
       /\ UNCHANGED stored
WriteOnly == UNCHANGED <<caller_log, clock, setbacks, plan>>

----------------------------------------------------------------------------
(* The name.                                                               *)

AcceptConnection(c) ==
    /\ call[c].phase = "None" /\ c \in plan.calls
    /\ Becomes(c, [Unused EXCEPT !.phase = "Connecting", !.doing = "greeting"])
    /\ InMemory

PromptForName(c) ==
    /\ Does(c, "greeting")
    /\ Becomes(c, [call[c] EXCEPT !.phase = "Identifying", !.doing = "name"])
    /\ InMemory

RecordIdentifiedUser(c) ==
    /\ Does(c, "name") /\ stored # None
    /\ Becomes(c, [call[c] EXCEPT !.phase = "Authenticating", !.doing = "password",
                                  !.retries = 0, !.user = stored, !.baseline = stored])
    /\ InMemory

\* The last unknown name ends the call on the spot, with no line of its own.
RecordUnknownName(c) ==
    /\ Does(c, "name")
    /\ LET retries == call[c].retries + 1 IN
       Becomes(c, IF retries >= MaxNameRetries
                    THEN [call[c] EXCEPT !.phase = "Ended", !.reason = "NewUserRejected",
                                         !.doing = "goodbye"]
                    ELSE [call[c] EXCEPT !.retries = retries])
    /\ InMemory

NameLookupFails(c) ==
    /\ Does(c, "name") /\ failures < plan.failures
    /\ failures' = failures + 1
    /\ Becomes(c, Aborted(call[c]))
    /\ UNCHANGED stored /\ WriteOnly

RecordNewUserRequest(c) ==
    /\ Does(c, "name")
    /\ Becomes(c, IF plan.allow_new_users
                    THEN [call[c] EXCEPT !.phase = "NewUserRegistering", !.retries = 0,
                                         !.doing = IF plan.gate THEN "gate" ELSE "profile"]
                    ELSE MoveToLoggingOff(call[c], "NewUserRejected", "goodbye"))
    /\ InMemory

----------------------------------------------------------------------------
(* Being let in.                                                           *)

IsLockedOut(user) == user.account.access_level <= 1 \/ user.account.account_locked

DayOf(at) == (at - DailyResetOffset) \div DayLength
DailyBudgetOutcome(last_call) ==
    IF last_call = Never \/ DayOf(last_call) # DayOf(clock) THEN "NewDay" ELSE "SameDay"

BeginDailyBudget(s, daily) ==
    LET user == ApplyAuthOutcome([kind |-> "Matched", daily |-> daily,
                                  force_password_reset |-> FALSE], s.user)
    IN  [s EXCEPT !.user = user, !.last_tick_at = clock,
                  !.time_remaining = user.usage.time_limit_per_call]

\* The caller named or made an account: it is refused, or its budget begins.
OnEnterOnboarded(s) ==
    LET entering == [s EXCEPT !.phase = "Onboarded", !.doing = "onboarded",
                              !.authenticated_at = clock, !.last_tick_at = clock]
    IN  IF IsLockedOut(s.user)
          THEN With(MoveToLoggingOff(entering,
                      IF s.user.account.account_locked THEN "LockedAccount"
                      ELSE "NewUserRejected", "goodbye"),
                    Line("rejected", None))
          ELSE BeginDailyBudget(entering, DailyBudgetOutcome(s.user.usage.last_call))

ApplyPasswordMatch(c) ==
    /\ Does(c, "password")
    /\ LET cleared == [call[c] EXCEPT !.user.account.invalid_attempts = 0]
           entered == OnEnterOnboarded(cleared)
           outcome == [kind |-> "Matched",
                       daily |-> IF entered.phase = "Onboarded"
                                   THEN DailyBudgetOutcome(cleared.user.usage.last_call)
                                   ELSE "none",
                       force_password_reset |-> entered.user.credentials.reset]
       IN  Written(c, ApplyAuthOutcome(outcome, stored), entered)
    /\ WriteOnly

ApplyPasswordMismatch(c) ==
    /\ Does(c, "password")
    /\ LET user == [call[c].user EXCEPT !.account.invalid_attempts = @ + 1]
           retries == call[c].retries + 1
           locks == user.account.invalid_attempts >= MaxPasswordFailures
           failed == [call[c] EXCEPT !.retries = retries,
                                     !.user = IF locks THEN LockAccount(user) ELSE user]
           ended == IF locks THEN MoveToLoggingOff(failed, "LockedAccount", "goodbye")
                    ELSE IF retries >= MaxPasswordFailures
                      THEN MoveToLoggingOff(failed, "ExcessivePasswordFails", "goodbye")
                    ELSE failed
       IN  Written(c, ApplyAuthOutcome([kind |-> "Mismatched", lock_account |-> locks], stored),
                   With(ended, Line("password failure", None)))
    /\ WriteOnly

\* The board's own password for newcomers.
NewUserPasswordAttempt(c) ==
    /\ Does(c, "gate")
    /\ LET attempts == call[c].retries + 1
           missed == [call[c] EXCEPT !.retries = attempts]
       IN  \/ Becomes(c, [call[c] EXCEPT !.doing = "profile"])
           \/ Becomes(c, With(IF attempts >= MaxGateAttempts
                                THEN MoveToLoggingOff(missed, "NewUserRejected", "goodbye")
                                ELSE missed,
                              Line("password failure", None)))
    /\ InMemory

\* A newcomer's account is the baseline as it was created: what its first
\* budget does to it is written with the menu entry.
CompleteNewUserRegistration(c) ==
    /\ Does(c, "profile")
    /\ LET user == RegisterNew(2, [handle |-> "new", hash |-> "hash",
                                   now |-> clock, flags |-> {}])
           bound == [call[c] EXCEPT !.user = user, !.baseline = user]
       IN  \/ /\ stored = None
              /\ stored' = user
              /\ Becomes(c, OnEnterOnboarded(bound))
              /\ UNCHANGED failures
           \/ /\ stored # None \/ failures < plan.failures
              /\ failures' = IF stored = None THEN failures + 1 ELSE failures
              /\ Becomes(c, ApplyCarrierLoss(call[c]))
              /\ UNCHANGED stored
    /\ WriteOnly

----------------------------------------------------------------------------
(* The menu.                                                               *)

AutoRejoinConference(c) ==
    /\ Does(c, "onboarded")
    /\ Becomes(c, IF Joined(call[c].user) = {}
                    THEN MoveToLoggingOff(call[c], "NoConferenceAccess", "goodbye")
                    ELSE [call[c] EXCEPT !.user = RecordJoin(@, 1, 1),
                            !.doing = IF call[c].user.credentials.reset THEN "reset"
                                      ELSE "entering",
                            !.retries = 0])
    /\ InMemory

CompletePasswordReset(c) ==
    /\ Does(c, "reset")
    /\ LET change == [hash |-> "changed", changed_at |-> clock]
           changed == [call[c] EXCEPT !.user = ApplyPasswordChange(change, @),
                                      !.doing = "entering"]
       IN  Written(c, ApplyPasswordChange(change, stored), changed)
    /\ WriteOnly

RefusePasswordReset(c) ==
    /\ Does(c, "reset")
    /\ LET attempts == call[c].retries + 1 IN
       Becomes(c, IF attempts >= MaxResetAttempts THEN ApplyCarrierLoss(call[c])
                  ELSE [call[c] EXCEPT !.retries = attempts])
    /\ InMemory

EnterMenuUnsaved(c) ==
    /\ Does(c, "entering")
    /\ LET entered == [call[c] EXCEPT !.user = BumpTimesCalled(@), !.phase = "Menu",
                                      !.doing = "menu"]
       IN  Becomes(c, With(entered, Line("logon", None)))
    /\ InMemory
EnterMenu(c) ==
    /\ Does(c, "entering")
    /\ LET entered == [call[c] EXCEPT !.user = BumpTimesCalled(@), !.phase = "Menu",
                                      !.doing = "menu"]
       IN  Written(c, ApplyUserPatch(PendingUserPatch(entered), stored),
                   With(entered, Line("logon", None)))
    /\ WriteOnly

\* Whole minutes are charged and the clock of the call moves by those, so
\* that what is left of a minute is charged another time; a clock that was
\* set back charges nothing.
AccrueElapsedAtOnce(s) ==
    LET elapsed == SaturatingSub(clock, s.last_tick_at)
        consumed == elapsed \div Minute
    IN  [s EXCEPT !.user = AddTimeUsedToday(@, consumed),
                  !.time_remaining = SaturatingSub(@, consumed),
                  !.last_tick_at = clock]
AccrueElapsed(s) ==
    LET elapsed == SaturatingSub(clock, s.last_tick_at)
        consumed == elapsed \div Minute
    IN  [s EXCEPT !.user = AddTimeUsedToday(@, consumed),
                  !.time_remaining = SaturatingSub(@, consumed),
                  !.last_tick_at = @ + consumed * Minute]
Exhausted(s) == SaturatingSub(clock, s.last_tick_at) \div Minute > s.time_remaining
OverridesTimeLimit(user) == user.slot_number = 1 /\ ~user.account.new_user

\* The top of the menu loop.
AccrueTime(c) ==
    /\ Does(c, "menu")
    /\ LET accrued == AccrueElapsed(call[c]) IN
       Becomes(c, IF Exhausted(call[c]) /\ ~OverridesTimeLimit(accrued.user)
                    THEN MoveToLoggingOff(accrued, "OutOfTime", "goodbye")
                    ELSE [accrued EXCEPT !.doing = "prompt"])
    /\ InMemory

Command(c) ==
    /\ Does(c, "prompt")
    /\ Becomes(c, [call[c] EXCEPT !.doing = "menu"])
    /\ InMemory

UserRequestsLogoff(c) ==
    /\ Does(c, "prompt")
    /\ Becomes(c, MoveToLoggingOff(call[c], "NormalLogoff", "goodbye"))
    /\ InMemory

----------------------------------------------------------------------------
(* The end.                                                                *)

\* The caller hung up, or a write to the terminal failed.
ConnectionLost(c) ==
    /\ \/ \E doing \in {"greeting", "name", "password", "gate", "profile", "onboarded",
                        "reset", "menu", "prompt", "goodbye"} : Does(c, doing)
    /\ Becomes(c, IntoLoggingOff(call[c]))
    /\ InMemory

IdleTimedOut(c) ==
    /\ \E doing \in {"name", "password", "gate", "profile", "reset", "menu", "prompt"} :
         Does(c, doing)
    /\ Becomes(c, ApplyIdleTimeout(call[c]))
    /\ InMemory

\* The write comes back; nothing makes it (write_all has no timeout).
GoodbyeWritten(c) ==
    /\ Does(c, "goodbye")
    /\ Becomes(c, [call[c] EXCEPT !.doing =
                     IF call[c].phase = "LoggingOff" THEN "finalise" ELSE "gone"])
    /\ InMemory

FinaliseNamedCalls(c) ==
    /\ Does(c, "finalise") /\ call[c].phase = "LoggingOff" /\ call[c].user # None
    /\ LET ended == With([call[c] EXCEPT !.phase = "Ended", !.doing = "gone",
                                         !.user = RecordLastCall(@, clock)],
                         Line("logoff", call[c].reason))
       IN  Written(c, ApplyUserPatch(PendingUserPatch(ended), stored), ended)
    /\ WriteOnly
\* The call of somebody with a name marks the account; every finalised call
\* has its line, unless that mark could not be written.
FinaliseLogoff(c) ==
    /\ Does(c, "finalise") /\ call[c].phase = "LoggingOff"
    /\ LET ended == With([call[c] EXCEPT !.phase = "Ended", !.doing = "gone"],
                         Line("logoff", call[c].reason))
           stamped == [ended EXCEPT !.user = RecordLastCall(@, clock)]
       IN  IF call[c].user = None
             THEN Becomes(c, ended) /\ UNCHANGED <<stored, failures>>
             ELSE Written(c, ApplyUserPatch(PendingUserPatch(stamped), stored), stamped)
    /\ WriteOnly

Passes ==
    /\ clock < plan.until
    /\ clock' = clock + 1
    /\ UNCHANGED <<stored, call, caller_log, setbacks, failures, plan>>
SetBack ==
    /\ setbacks < plan.setbacks
    /\ setbacks' = setbacks + 1
    /\ clock' = clock - Minute
    /\ UNCHANGED <<stored, call, caller_log, failures, plan>>

----------------------------------------------------------------------------
OwnStep(c) ==
    \/ AppendLine(c) \/ AutoRejoinConference(c) \/ EnterMenu(c) \/ AccrueTime(c)
    \/ FinaliseLogoff(c)

CallNext ==
    \/ Passes \/ SetBack
    \/ \E c \in CallIds :
         \/ AcceptConnection(c) \/ PromptForName(c) \/ RecordIdentifiedUser(c)
         \/ RecordUnknownName(c) \/ NameLookupFails(c) \/ RecordNewUserRequest(c)
         \/ ApplyPasswordMatch(c) \/ ApplyPasswordMismatch(c)
         \/ NewUserPasswordAttempt(c) \/ CompleteNewUserRegistration(c)
         \/ CompletePasswordReset(c) \/ RefusePasswordReset(c)
         \/ Command(c) \/ UserRequestsLogoff(c) \/ ConnectionLost(c) \/ IdleTimedOut(c)
         \/ GoodbyeWritten(c) \/ OwnStep(c)

CallSpec == CallInit /\ [][CallNext]_callvars

\* What the board does without the terminal it does, however the caller
\* behaves.  A peer that stops reading can keep a write for ever, so the
\* goodbye is not promised to be written.
CallFairness == \A c \in CallIds : WF_callvars(OwnStep(c))

----------------------------------------------------------------------------
\* The reason a call ends for is chosen once: a connection that is lost while
\* the goodbye is written does not make it a lost carrier.  The goodbye line
\* is the last line of the call, says that reason, and is written once.
EndToldOnce ==
    [][\A c \in CallIds :
         /\ call[c].reason # None => call'[c].reason = call[c].reason
         /\ caller_log'[c] # caller_log[c] =>
              /\ \A i \in DOMAIN caller_log[c] : caller_log[c][i].kind # "logoff"
              /\ Last(caller_log'[c]).kind = "logoff" =>
                   call[c].phase = "Ended" /\ Last(caller_log'[c]).reason = call[c].reason]_callvars

LoggedOn(c) == \E i \in DOMAIN caller_log[c] : caller_log[c][i].kind = "logon"

\* What the log tells of an account, the account knows: every logon line was
\* counted, a call has one at most, and the last call is no older than any
\* goodbye of its callers (a clock set back between two calls apart: the
\* latest time stays).
CountedBeforeLogged ==
    \A c \in CallIds :
      caller_log[c] # <<>> /\ call[c].user # None =>
        /\ stored.usage.times_called >= Cardinality({d \in CallIds : LoggedOn(d)})
        /\ \A i, j \in DOMAIN caller_log[c] :
             caller_log[c][i].kind = "logon" /\ caller_log[c][j].kind = "logon" => i = j
        /\ \A i \in DOMAIN caller_log[c] :
             caller_log[c][i].kind = "logoff" =>
               stored.usage.last_call >= caller_log[c][i].at

Charged(s) == (s.last_tick_at - s.authenticated_at) \div Minute
LimitOf(s) == s.user.usage.time_limit_per_call

\* A call is charged the whole minutes since it was let in, neither rounded
\* up nor cut short at each command, and whatever the clock does; it runs out
\* of time at the first menu after it is charged more than its limit, and is
\* let go on when it is charged the limit exactly (accrue_elapsed; there the
\* rule TimeExpired of session.allium, time_remaining <= 0, would end it).
TimeCharged ==
    /\ [](\A c \in CallIds : call[c].authenticated_at # Never =>
            LET s == call[c] IN
            /\ s.last_tick_at = s.authenticated_at + Charged(s) * Minute
            /\ s.time_remaining = (IF s.reason \in {"LockedAccount", "NewUserRejected"} THEN 0
                                   ELSE SaturatingSub(LimitOf(s), Charged(s)))
            /\ s.phase = "Menu" => Charged(s) = s.user.usage.time_used_today
                                                  - s.baseline.usage.time_used_today
            /\ s.reason = "OutOfTime" => Charged(s) > LimitOf(s)
            /\ Does(c, "prompt") /\ ~OverridesTimeLimit(s.user) => Charged(s) <= LimitOf(s))
    /\ [][\A c \in CallIds :
            Does(c, "menu") /\ call'[c].doing = "prompt" =>
              clock - call'[c].last_tick_at < Minute]_callvars

\* A call that is logging off is gone in the end, whatever the repository
\* does: only a goodbye whose write never comes back can keep it.
CallsEnd ==
    \A c \in CallIds : call[c].phase = "LoggingOff"
                         ~> (Does(c, "gone") \/ [](Does(c, "goodbye")))
=============================================================================
