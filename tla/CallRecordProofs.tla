-------------------------- MODULE CallRecordProofs --------------------------
(* Proofs about CallRecord: the goodbye is written once and says why, what
   the log tells was counted before, and whole minutes are charged against an
   exact limit, for any calls of the account, any failing writes and any
   clock.                                                                  *)
EXTENDS CallRecord, FiniteSetTheorems, SequenceTheorems, TLAPS

----------------------------------------------------------------------------
(* The invariant.                                                          *)

Phases == Active \cup {"None", "Connecting", "LoggingOff", "Ended"}
Doings == {"nothing", "greeting", "name", "password", "gate", "profile", "onboarded", "reset",
           "entering", "menu", "prompt", "goodbye", "finalise", "gone"}
Entries == [kind : {"password failure", "rejected", "logon", "logoff"},
            reason : Reasons \cup {None}, at : Int]
Records == [phase : Phases, doing : Doings, reason : Reasons \cup {None}, retries : Nat,
            user : Accounts \cup {None}, baseline : Accounts \cup {None},
            authenticated_at : Int, last_tick_at : Int, time_remaining : Nat,
            entry : Entries \cup {None}]

TypeOK ==
    /\ stored \in Accounts \cup {None}
    /\ call \in [CallIds -> Records]
    /\ caller_log \in [CallIds -> Seq(Entries)]
    /\ clock \in Int /\ setbacks \in Nat /\ failures \in Nat
    /\ plan \in CallWorkloads

\* The phases in which a call does what it does.
Fits(phase, doing) ==
    /\ doing = "nothing" <=> phase = "None"
    /\ doing = "greeting" => phase = "Connecting"
    /\ doing = "name" => phase = "Identifying"
    /\ doing = "password" => phase = "Authenticating"
    /\ doing \in {"gate", "profile"} => phase = "NewUserRegistering"
    /\ doing \in {"onboarded", "reset", "entering"} => phase = "Onboarded"
    /\ doing \in {"menu", "prompt"} => phase = "Menu"
    /\ doing = "goodbye" => phase \in {"LoggingOff", "Ended"}
    /\ doing = "finalise" => phase = "LoggingOff"

\* A call has no reason to end before it ends, an account from the name on,
\* and no budget before it is let in.
Staged(s) ==
    /\ Fits(s.phase, s.doing)
    /\ s.phase = "None" => s.entry = None
    /\ s.phase \in Active \cup {"None", "Connecting"} => s.reason = None
    /\ s.phase \in {"Authenticating", "Onboarded", "Menu"} => s.user # None
    /\ s.phase \in {"None", "Connecting", "Identifying", "NewUserRegistering"} => s.user = None
    /\ s.user = None => s.baseline = None
    /\ s.phase \in {"None", "Connecting", "Identifying", "NewUserRegistering", "Authenticating"}
         => s.authenticated_at = Never /\ s.last_tick_at = Never /\ s.time_remaining = 0

HasLine(log, kind) == \E i \in 1 .. Len(log) : log[i].kind = kind
Pending(s, kind) == s.entry # None /\ s.entry.kind = kind

\* The goodbye is the last thing a call does, and the logon comes once.
Told(s, log) ==
    /\ HasLine(log, "logoff") => s.doing = "gone" /\ s.entry = None
    /\ Pending(s, "logoff") => s.phase = "Ended" /\ s.doing = "gone" /\ s.entry.reason = s.reason
    /\ \A i, j \in 1 .. Len(log) : log[i].kind = "logon" /\ log[j].kind = "logon" => i = j
    /\ Pending(s, "logon") => ~ HasLine(log, "logon")
    /\ Pending(s, "logon") \/ HasLine(log, "logon") =>
         s.user # None /\ s.phase \in {"Menu", "LoggingOff", "Ended"}

\* What a call knows of the account is no newer than the account, and its
\* goodbye neither.
Known(s, log, account) ==
    s.user # None =>
        /\ account # None /\ s.baseline # None
        /\ s.user.conferences.memberships = account.conferences.memberships
        /\ s.baseline.conferences.memberships = account.conferences.memberships
        /\ s.user.usage.times_called >= s.baseline.usage.times_called
        /\ s.doing # "gone" => /\ account.usage.last_call >= s.user.usage.last_call
                               /\ account.usage.last_call >= s.baseline.usage.last_call
        /\ Pending(s, "logoff") => account.usage.last_call >= s.entry.at
        /\ \A i \in 1 .. Len(log) : log[i].kind = "logoff" => account.usage.last_call >= log[i].at

\* n minutes were charged, against the limit the account has.
Charges(s, n) ==
    /\ s.last_tick_at = s.authenticated_at + n * Minute
    /\ s.time_remaining = (IF s.reason \in {"LockedAccount", "NewUserRejected"} THEN 0
                           ELSE SaturatingSub(LimitOf(s), n))
    /\ s.phase = "Onboarded" => n = 0
    /\ s.phase = "Menu" => n = s.user.usage.time_used_today - s.baseline.usage.time_used_today
    /\ s.reason = "OutOfTime" => n > LimitOf(s)
    /\ s.doing \in {"menu", "prompt"} /\ ~ OverridesTimeLimit(s.user) => n <= LimitOf(s)
Timed(s) ==
    /\ s.phase = "Onboarded" /\ s.doing # "gone" =>
         s.user.usage.time_used_today = s.baseline.usage.time_used_today
    /\ s.authenticated_at # Never => s.user # None /\ \E n \in Nat : Charges(s, n)

\* The calls whose logon the account has counted.
Counted == {c \in CallIds : Pending(call[c], "logon") \/ HasLine(caller_log[c], "logon")}
CountedOf(account) ==
    /\ IsFiniteSet(Counted)
    /\ account # None => Cardinality(Counted) <= account.usage.times_called

Sound(s, log, account) == Staged(s) /\ Told(s, log) /\ Known(s, log, account) /\ Timed(s)

IInv ==
    /\ TypeOK
    /\ \A c \in CallIds : Sound(call[c], caller_log[c], stored)
    /\ CountedOf(stored)
----------------------------------------------------------------------------
(* What a session does to its copy of the account, and what is kept of it.  *)

\* What the clock and the limit go by.
SameLimits(old, new) ==
    /\ new.usage.time_limit_per_call = old.usage.time_limit_per_call
    /\ OverridesTimeLimit(new) = OverridesTimeLimit(old)
SameMemberships(old, new) == new.conferences.memberships = old.conferences.memberships
SameCalls(old, new) == /\ new.usage.times_called = old.usage.times_called
                       /\ new.usage.last_call = old.usage.last_call
Same(old, new) ==
    new \in Accounts /\ SameLimits(old, new) /\ SameMemberships(old, new) /\ SameCalls(old, new)

Statuses == [access_level : Nat, invalid_attempts : Nat,
             account_locked : BOOLEAN, new_user : BOOLEAN]
Usages == [times_called : Nat, times_called_today : Nat, last_call : Int,
           time_limit_per_call : Nat, time_limit_per_day : Nat, time_used_today : Nat]
Secrets == [hash : Hashes, last_updated : Int, reset : BOOLEAN]

LEMMA GroupsOf ==
    ASSUME NEW user \in Accounts
    PROVE  user.account \in Statuses /\ user.usage \in Usages /\ user.credentials \in Secrets
BY DEF Accounts, Statuses, Usages, Secrets

\* New groups for old ones.
LEMMA GroupsKeep ==
    ASSUME NEW user \in Accounts, NEW account \in Statuses, NEW usage \in Usages,
           NEW credentials \in Secrets, account.new_user = user.account.new_user,
           SameCalls(user, [usage |-> usage]),
           usage.time_limit_per_call = user.usage.time_limit_per_call
    PROVE  LET new == [user EXCEPT !.account = account, !.credentials = credentials,
                                   !.usage = usage]
           IN  Same(user, new) /\ new.usage = usage
BY DEF Accounts, Statuses, Usages, Secrets, Same, SameLimits, SameMemberships, SameCalls,
       OverridesTimeLimit

LEMMA SetsReset ==
    ASSUME NEW old \in Secrets, NEW reset \in BOOLEAN
    PROVE  [old EXCEPT !.reset = reset] \in Secrets
BY DEF Secrets

LEMMA SetsLock ==
    ASSUME NEW old \in Statuses, NEW locked \in BOOLEAN, NEW n \in Nat
    PROVE  LET new == [old EXCEPT !.invalid_attempts = n, !.account_locked = locked] IN
           new \in Statuses /\ new.new_user = old.new_user
BY DEF Statuses

LEMMA SetsAttempts ==
    ASSUME NEW old \in Statuses, NEW n \in Nat
    PROVE  LET new == [old EXCEPT !.invalid_attempts = n] IN
           new \in Statuses /\ new.new_user = old.new_user
BY DEF Statuses

LEMMA ApplyAuthOutcomeKeeps ==
    ASSUME NEW user \in Accounts, NEW outcome,
           \/ outcome.kind = "Matched" /\ outcome.force_password_reset \in BOOLEAN
           \/ outcome.kind = "Mismatched" /\ outcome.lock_account \in BOOLEAN
    PROVE  Same(user, ApplyAuthOutcome(outcome, user))
<1> DEFINE new == ApplyAuthOutcome(outcome, user)
           usage == CountDaily(user.usage, outcome.daily)
           credentials == [user.credentials EXCEPT !.reset = @ \/ outcome.force_password_reset]
           cleared == [user.account EXCEPT !.invalid_attempts = 0]
           struck == [user.account EXCEPT !.invalid_attempts = @ + 1,
                                          !.account_locked = @ \/ outcome.lock_account]
<1>1. user.account \in Statuses /\ user.usage \in Usages /\ user.credentials \in Secrets
  BY GroupsOf
<1>2. /\ usage \in Usages /\ SameCalls(user, [usage |-> usage])
      /\ usage.time_limit_per_call = user.usage.time_limit_per_call
  <2>1. CASE outcome.daily = "NewDay"
    BY <1>1, <2>1 DEF Usages, SameCalls, CountDaily
  <2>2. CASE outcome.daily = "SameDay"
    BY <1>1, <2>2 DEF Usages, SameCalls, CountDaily
  <2>3. CASE outcome.daily \notin {"NewDay", "SameDay"}
    BY <1>1, <2>3 DEF SameCalls, CountDaily
  <2> QED
    BY <2>1, <2>2, <2>3
<1>3. CASE outcome.kind = "Matched" /\ outcome.force_password_reset \in BOOLEAN
  <2>1. credentials \in Secrets
    <3>1. (user.credentials.reset \/ outcome.force_password_reset) \in BOOLEAN
      OBVIOUS
    <3> QED
      BY <1>1, <3>1, SetsReset
  <2>2. cleared \in Statuses /\ cleared.new_user = user.account.new_user
    BY <1>1, SetsAttempts
  <2>3. new = [user EXCEPT !.account = cleared, !.credentials = credentials, !.usage = usage]
    BY <1>3 DEF ApplyAuthOutcome
  <2> HIDE DEF usage, cleared, credentials
  <2>4. LET changed == [user EXCEPT !.account = cleared, !.credentials = credentials,
                                    !.usage = usage]
        IN  Same(user, changed)
    BY <1>2, <2>1, <2>2, GroupsKeep
  <2> QED
    BY <2>3, <2>4, Zenon
<1>4. CASE outcome.kind = "Mismatched" /\ outcome.lock_account \in BOOLEAN
  <2>1. new = [user EXCEPT !.account = struck, !.credentials = user.credentials,
                           !.usage = user.usage]
    BY <1>4, <1>1 DEF ApplyAuthOutcome, Accounts
  <2>2. struck \in Statuses /\ struck.new_user = user.account.new_user
    <3>1. (user.account.account_locked \/ outcome.lock_account) \in BOOLEAN
      OBVIOUS
    <3>2. user.account.invalid_attempts + 1 \in Nat
      BY <1>1 DEF Statuses
    <3> QED
      BY <1>1, <3>1, <3>2, SetsLock
  <2>3. SameCalls(user, [usage |-> user.usage])
    BY DEF SameCalls
  <2> HIDE DEF struck
  <2>4. LET changed == [user EXCEPT !.account = struck, !.credentials = user.credentials,
                                    !.usage = user.usage]
        IN  Same(user, changed)
    BY <1>1, <2>2, <2>3, GroupsKeep
  <2> QED
    BY <2>1, <2>4, Zenon
<1> QED
  BY <1>3, <1>4

LEMMA BumpTimesCalledKeeps ==
    ASSUME NEW user \in Accounts
    PROVE  LET new == BumpTimesCalled(user) IN
           /\ new \in Accounts /\ SameLimits(user, new) /\ SameMemberships(user, new)
           /\ new.usage = [user.usage EXCEPT !.times_called = @ + 1]
BY DEF SameLimits, SameMemberships, BumpTimesCalled, Accounts, OverridesTimeLimit

LEMMA ApplyPasswordChangeKeeps ==
    ASSUME NEW user \in Accounts, NEW change, change.hash \in Hashes, change.changed_at \in Int
    PROVE  LET new == ApplyPasswordChange(change, user) IN
           Same(user, new) /\ new.usage = user.usage
BY DEF Same, SameLimits, SameMemberships, SameCalls, ApplyPasswordChange, NewCredentials, Accounts,
       OverridesTimeLimit

LEMMA RecordJoinKeeps ==
    ASSUME NEW user \in Accounts
    PROVE  LET new == RecordJoin(user, 1, 1) IN
           Same(user, new) /\ new.usage = user.usage
BY DEF Same, SameLimits, SameMemberships, SameCalls, RecordJoin, Accounts, OverridesTimeLimit

LEMMA AddTimeUsedTodayKeeps ==
    ASSUME NEW user \in Accounts, NEW n \in Nat
    PROVE  LET new == AddTimeUsedToday(user, n) IN
           /\ Same(user, new)
           /\ new.usage.time_used_today = user.usage.time_used_today + n
BY DEF Same, SameLimits, SameMemberships, SameCalls, AddTimeUsedToday, Accounts, OverridesTimeLimit

LEMMA RecordLastCallKeeps ==
    ASSUME NEW user \in Accounts, NEW now \in Int
    PROVE  LET new == RecordLastCall(user, now) IN
           /\ new \in Accounts /\ SameLimits(user, new) /\ SameMemberships(user, new)
           /\ new.usage = [user.usage EXCEPT !.last_call = now]
BY DEF SameLimits, SameMemberships, RecordLastCall, Accounts, OverridesTimeLimit

LEMMA AttemptsKept ==
    ASSUME NEW user \in Accounts, NEW n \in Nat
    PROVE  /\ Same(user, [user EXCEPT !.account.invalid_attempts = n])
           /\ [user EXCEPT !.account.invalid_attempts = n].usage = user.usage
BY DEF Same, SameLimits, SameMemberships, SameCalls, Accounts, OverridesTimeLimit

LEMMA LockAccountKeeps ==
    ASSUME NEW user \in Accounts
    PROVE  Same(user, LockAccount(user))
BY DEF Same, SameLimits, SameMemberships, SameCalls, LockAccount, Accounts, OverridesTimeLimit

LEMMA RegisterNewIsAccount ==
    ASSUME NEW now \in Int
    PROVE  LET user == RegisterNew(2, [handle |-> "new", hash |-> "hash", now |-> now, flags |-> {}])
           IN
           user \in Accounts /\ user.conferences.memberships = <<>> /\ user.usage.last_call = now
           /\ user.usage.times_called = 0
<1> DEFINE user == RegisterNew(2, [handle |-> "new", hash |-> "hash", now |-> now, flags |-> {}])
<1>1. ForFreshRegistration(now).last_call = now /\ ForFreshRegistration(now).times_called = 0
  BY DEF ForFreshRegistration, NoUsage
<1>3. NoConferences.memberships \in Memberships
  BY DEF NoConferences, Memberships
<1>4. Nowhere \in Nat \X Nat
  BY DEF Nowhere
<1>5. ForFreshRegistration(now) \in Usages
  BY DEF ForFreshRegistration, NoUsage, Never, Usages
<1>6. AwaitingValidation \in Statuses
  BY DEF AwaitingValidation, AccountExisting, Statuses
<1>7. NoConferences \in [memberships : Memberships, last_joined : Nat \X Nat, messages_posted : Nat]
  BY <1>3, <1>4 DEF NoConferences
<1>8. NewCredentials("hash", now) \in Secrets
  <2>1. \A hash \in Hashes : NewCredentials(hash, now) \in Secrets
    BY DEF NewCredentials, Secrets
  <2>2. "hash" \in Hashes
    BY DEF Hashes
  <2> QED
    BY <2>1, <2>2
<1>9. NewProfile(now, {}) \in [expert_mode : BOOLEAN, account_created : Int, flags : SUBSET STRING]
  BY DEF NewProfile
<1>10. user = [slot_number |-> 2, handle |-> "new", credentials |-> NewCredentials("hash", now),
               account |-> AwaitingValidation, usage |-> ForFreshRegistration(now),
               profile |-> NewProfile(now, {}), conferences |-> NoConferences]
  BY DEF RegisterNew
<1>11. user \in Accounts
  <2>1. 2 \in Nat /\ "new" \in Names
    BY DEF Names
  <2> HIDE DEF user
  <2> QED
    BY <2>1, <1>5, <1>6, <1>7, <1>8, <1>9, <1>10 DEF Accounts, Usages, Statuses, Secrets
<1>12. user.conferences.memberships = <<>> /\ user.usage.last_call = now
       /\ user.usage.times_called = 0
  BY <1>1, <1>10 DEF NoConferences
<1> QED
  BY <1>11, <1>12 DEF user

----------------------------------------------------------------------------
(* A patch between two copies of the account.                              *)

LEMMA OrElseChanged ==
    ASSUME NEW before, NEW after, NEW default
    PROVE  /\ OrElse(Changed(before, after), default) \in {default, after}
           /\ after # before => OrElse(Changed(before, after), default) = after
<1>1. CASE after = before
  BY <1>1 DEF OrElse, Changed
<1>2. CASE after # before
  <2>1. Changed(before, after) = {after}
    BY <1>2 DEF Changed, Set
  <2>2. OrElse({after}, default) = after
    BY DEF OrElse
  <2> QED
    BY <2>1, <2>2
<1> QED
  BY <1>1, <1>2

LEMMA NothingToPatch ==
    ASSUME NEW base, NEW user,
           SameMemberships(base, user)
    PROVE  MembershipPatches(base, user) = {}
<1> DEFINE m == base.conferences.memberships
<1>1. user.conferences.memberships = m
  BY DEF SameMemberships
<1> HIDE DEF m
<1>2. DOMAIN m \ DOMAIN m = {} /\ {d \in DOMAIN m \cap DOMAIN m : m[d] # m[d]} = {}
  OBVIOUS
<1>3. {MembershipPatchOfNew(c, m[c]) : c \in {}} = {}
  OBVIOUS
<1>4. {MembershipPatchBetween(c, m[c], m[c]) : c \in {}} = {}
  OBVIOUS
<1>5. MembershipPatches(base, user) =
        {MembershipPatchOfNew(c, m[c]) : c \in DOMAIN m \ DOMAIN m}
        \cup {MembershipPatchBetween(c, m[c], m[c]) :
                c \in {d \in DOMAIN m \cap DOMAIN m : m[d] # m[d]}}
  BY <1>1, Zenon DEF MembershipPatches, m
<1> QED
  BY <1>2, <1>3, <1>4, <1>5

LEMMA MembershipsStay ==
    ASSUME NEW memberships \in Memberships
    PROVE  ApplyMembershipPatches({}, memberships) = memberships
<1>1. /\ {patch.conference_number : patch \in {q \in {} : q.create_if_missing}} = {}
      /\ {patch.conference_number : patch \in {}} = {}
  OBVIOUS
<1>2. ApplyMembershipPatches({}, memberships) = [c \in DOMAIN memberships |-> memberships[c]]
  BY <1>1 DEF ApplyMembershipPatches
<1> QED
  BY <1>2, MembershipsAssumption

LEMMA SetsConferences ==
    ASSUME NEW S, NEW old \in [memberships : S, last_joined : Nat \X Nat, messages_posted : Nat],
           NEW n \in Nat, NEW joined \in Nat \X Nat, NEW m \in S
    PROVE  LET new == [old EXCEPT !.messages_posted = n, !.last_joined = joined,
                                  !.memberships = m]
           IN  /\ new \in [memberships : S, last_joined : Nat \X Nat, messages_posted : Nat]
               /\ new.memberships = m
OBVIOUS

\* The account with a patch of a session that changed no membership.
LEMMA PatchKeeps ==
    ASSUME NEW base \in Accounts, NEW user \in Accounts, NEW account \in Accounts,
           SameMemberships(account, base), SameMemberships(account, user)
    PROVE  LET new == ApplyUserPatch(Between(base, user), account) IN
           /\ new \in Accounts /\ SameMemberships(account, new)
           /\ new.usage.times_called = account.usage.times_called
                + SaturatingSub(user.usage.times_called, base.usage.times_called)
           /\ new.usage.last_call >= account.usage.last_call
           /\ \/ user.usage.last_call = base.usage.last_call
              \/ new.usage.last_call >= user.usage.last_call
<1> DEFINE patch == Between(base, user)
           new == ApplyUserPatch(patch, account)
           usage == PatchedUsage(account.usage, patch)
           profile == PatchedProfile(account.profile, patch)
           conferences == PatchedConferences(account.conferences, patch)
<1>1. /\ patch.times_called_delta
           = SaturatingSub(user.usage.times_called, base.usage.times_called)
      /\ patch.times_called_delta \in Nat /\ patch.times_called_today_delta \in Nat
      /\ patch.time_used_today_delta \in Nat /\ patch.messages_posted_delta \in Nat
  BY DEF Between, SaturatingSub, Accounts
<1>2. /\ patch.last_call = Changed(base.usage.last_call, user.usage.last_call)
      /\ patch.expert_mode = Changed(base.profile.expert_mode, user.profile.expert_mode)
      /\ patch.flags = Changed(base.profile.flags, user.profile.flags)
      /\ patch.last_joined = Changed(base.conferences.last_joined, user.conferences.last_joined)
      /\ patch.memberships = MembershipPatches(base, user)
  BY DEF Between
<1>3. patch.memberships = {}
  BY <1>2, NothingToPatch DEF SameMemberships
<1> HIDE DEF patch
<1>4. /\ usage \in Usages
      /\ usage.times_called = account.usage.times_called
           + SaturatingSub(user.usage.times_called, base.usage.times_called)
      /\ usage.last_call >= account.usage.last_call
      /\ \/ user.usage.last_call = base.usage.last_call
         \/ usage.last_call >= user.usage.last_call
  <2>1. PICK at : at = OrElse(patch.last_call, Never)
    OBVIOUS
  <2>2. /\ at \in {Never, user.usage.last_call}
        /\ user.usage.last_call # base.usage.last_call => at = user.usage.last_call
    BY <1>2, <2>1, OrElseChanged
  <2>3. at \in Int
    BY <2>2 DEF Never, Accounts
  <2>4. PICK last : last = Later(account.usage.last_call, at)
    OBVIOUS
  <2>5. last \in Int /\ last >= account.usage.last_call /\ last >= at
    BY <2>3, <2>4 DEF Later, Accounts
  <2>6. usage = [account.usage EXCEPT
                   !.times_called = @ + patch.times_called_delta,
                   !.times_called_today = @ + patch.times_called_today_delta,
                   !.time_used_today = @ + patch.time_used_today_delta,
                   !.last_call = last]
    BY <2>1, <2>4 DEF PatchedUsage
  <2> HIDE DEF usage
  <2>7. account.usage \in Usages
    BY GroupsOf
  <2>8. usage \in Usages /\ usage.last_call = last
        /\ usage.times_called = account.usage.times_called + patch.times_called_delta
    <3>1. PICK m \in Nat : m = account.usage.times_called + patch.times_called_delta
      BY <1>1, <2>7 DEF Usages
    <3>2. PICK n \in Nat : n = account.usage.times_called_today + patch.times_called_today_delta
      BY <1>1, <2>7 DEF Usages
    <3>3. PICK k \in Nat : k = account.usage.time_used_today + patch.time_used_today_delta
      BY <1>1, <2>7 DEF Usages
    <3>4. usage = [account.usage EXCEPT !.times_called = m, !.times_called_today = n,
                                        !.time_used_today = k, !.last_call = last]
      BY <2>6, <3>1, <3>2, <3>3
    <3>5. usage \in Usages /\ usage.last_call = last /\ usage.times_called = m
      BY <2>5, <2>7, <3>4 DEF Usages
    <3> QED
      BY <3>1, <3>5
  <2> QED
    BY <1>1, <2>2, <2>5, <2>8
<1>5. profile \in [expert_mode : BOOLEAN, account_created : Int, flags : SUBSET STRING]
  <2>1. PICK mode : mode = OrElse(patch.expert_mode, account.profile.expert_mode)
    OBVIOUS
  <2>2. PICK flags : flags = OrElse(patch.flags, account.profile.flags)
    OBVIOUS
  <2>3. mode \in {account.profile.expert_mode, user.profile.expert_mode}
        /\ flags \in {account.profile.flags, user.profile.flags}
    BY <1>2, <2>1, <2>2, OrElseChanged
  <2>4. mode \in BOOLEAN /\ flags \in SUBSET STRING
    BY <2>3 DEF Accounts
  <2>5. profile = [account.profile EXCEPT !.expert_mode = mode, !.flags = flags]
    BY <2>1, <2>2 DEF PatchedProfile
  <2> QED
    BY <2>4, <2>5 DEF Accounts
<1>6. /\ conferences \in [memberships : Memberships, last_joined : Nat \X Nat,
                          messages_posted : Nat]
      /\ conferences.memberships = account.conferences.memberships
  <2>1. PICK joined : joined = OrElse(patch.last_joined, account.conferences.last_joined)
    OBVIOUS
  <2>2. joined \in {account.conferences.last_joined, user.conferences.last_joined}
    BY <1>2, <2>1, OrElseChanged
  <2>3. joined \in Nat \X Nat
    BY <2>2 DEF Accounts
  <2>4. account.conferences.memberships \in Memberships
    BY DEF Accounts
  <2>5. ApplyMembershipPatches(patch.memberships, account.conferences.memberships)
          = account.conferences.memberships
    BY <1>3, <2>4, MembershipsStay
  <2>6. conferences = [account.conferences EXCEPT
                         !.messages_posted = @ + patch.messages_posted_delta,
                         !.last_joined = joined,
                         !.memberships = account.conferences.memberships]
    BY <2>1, <2>5 DEF PatchedConferences
  <2> HIDE DEF conferences
  <2>7. account.conferences \in
          [memberships : Memberships, last_joined : Nat \X Nat, messages_posted : Nat]
    BY DEF Accounts
  <2>8. account.conferences.messages_posted + patch.messages_posted_delta \in Nat
    BY <1>1, <2>7
  <2> QED
    BY <2>3, <2>4, <2>6, <2>7, <2>8, SetsConferences
<1>7. new = [account EXCEPT !.usage = usage, !.profile = profile,
                            !.conferences = conferences]
  BY Zenon DEF ApplyUserPatch
<1> HIDE DEF usage, profile, conferences, new
<1>8. new \in Accounts /\ new.usage = usage /\ new.conferences = conferences
  BY <1>4, <1>5, <1>6, <1>7 DEF Accounts, Usages
<1> QED
  BY <1>4, <1>6, <1>8 DEF SameMemberships, new, patch

----------------------------------------------------------------------------
(* One call at a time: what a step does to the call that takes it, and what
   it leaves of the others.                                                *)

\* The account a step leaves behind: the same, a new one, or one that grew.
Grows(old, new) ==
    \/ new = old
    \/ old = None /\ new \in Accounts
    \/ /\ old \in Accounts /\ new \in Accounts /\ SameMemberships(old, new)
       /\ new.usage.times_called >= old.usage.times_called
       /\ new.usage.last_call >= old.usage.last_call

LEMMA UsageIs ==
    ASSUME NEW user \in Accounts
    PROVE  /\ user.usage.times_called \in Nat /\ user.usage.last_call \in Int
           /\ user.usage.time_used_today \in Nat /\ user.usage.time_limit_per_call \in Nat
BY DEF Accounts

LEMMA KnownStays ==
    ASSUME NEW s \in Records, NEW log \in Seq(Entries),
           NEW old \in Accounts \cup {None}, NEW new \in Accounts \cup {None},
           Grows(old, new), Known(s, log, old)
    PROVE  Known(s, log, new)
<1>1. CASE s.user = None \/ new = old
  BY <1>1 DEF Known
<1>2. CASE s.user # None /\ new # old
  <2>1. /\ old \in Accounts /\ new \in Accounts /\ SameMemberships(old, new)
        /\ new.usage.last_call >= old.usage.last_call
    BY <1>2 DEF Known, Grows
  <2>2. s.user \in Accounts /\ (s.entry # None => s.entry.at \in Int)
        /\ \A i \in 1 .. Len(log) : log[i].at \in Int
    <3>1. \A i \in 1 .. Len(log) : log[i] \in Entries
      OBVIOUS
    <3>2. \A entry \in Entries : entry.at \in Int
      BY DEF Entries
    <3>3. s.user \in Accounts /\ (s.entry # None => s.entry \in Entries)
      BY <1>2 DEF Records
    <3> QED
      BY <3>1, <3>2, <3>3
  <2>3. old.usage.last_call \in Int /\ new.usage.last_call \in Int /\ s.user.usage.last_call \in Int
    BY <2>1, <2>2, UsageIs
  <2>4. new # None
    BY <2>1, NoneAssumption
  <2>5. \A at \in Int : old.usage.last_call >= at => new.usage.last_call >= at
    BY <2>1, <2>3
  <2>6. new.conferences.memberships = old.conferences.memberships
    BY <2>1 DEF SameMemberships
  <2>7. s.baseline \in Accounts
    BY <1>2 DEF Records, Known
  <2>8. s.baseline.usage.last_call \in Int
    BY <2>7, UsageIs
  <2>9. Pending(s, "logoff") => new.usage.last_call >= s.entry.at
    BY <1>2, <2>2, <2>5 DEF Known, Pending
  <2>10. \A i \in 1 .. Len(log) : log[i].kind = "logoff" => new.usage.last_call >= log[i].at
    BY <1>2, <2>2, <2>5 DEF Known
  <2>11. s.doing # "gone" => /\ new.usage.last_call >= s.user.usage.last_call
                             /\ new.usage.last_call >= s.baseline.usage.last_call
    BY <1>2, <2>3, <2>5, <2>8 DEF Known
  <2> QED
    BY <1>2, <2>4, <2>6, <2>9, <2>10, <2>11 DEF Known
<1> QED
  BY <1>1, <1>2

\* Who has a logon that counts has an account.
LEMMA CountedHaveAccounts ==
    ASSUME \A c \in CallIds : Sound(call[c], caller_log[c], stored), Counted # {}
    PROVE  stored # None
BY DEF Sound, Told, Known, Counted

LEMMA CountGrows ==
    ASSUME NEW S, NEW T, NEW n \in Nat, IsFiniteSet(S), T \subseteq S, Cardinality(S) <= n
    PROVE  IsFiniteSet(T) /\ Cardinality(T) <= n
<1>1. Cardinality(S) \in Nat
  BY FS_CardinalityType
<1>2. IsFiniteSet(T) /\ Cardinality(T) \in Nat /\ Cardinality(T) <= Cardinality(S)
  BY FS_Subset, FS_CardinalityType
<1> QED
  BY <1>1, <1>2

LEMMA OneMore ==
    ASSUME NEW S, NEW c, IsFiniteSet(S)
    PROVE  /\ IsFiniteSet(S \cup {c}) /\ Cardinality(S) \in Nat
           /\ Cardinality(S \cup {c}) <= Cardinality(S) + 1
BY FS_CardinalityType, FS_AddElement

LEMMA StepKeeps ==
    ASSUME IInv, NEW c \in CallIds, NEW s \in Records, NEW account \in Accounts \cup {None},
           stored' = account, call' = [call EXCEPT ![c] = s],
           caller_log' = caller_log, clock' = clock, setbacks' = setbacks, plan' = plan,
           failures' \in Nat,
           Grows(stored, account), Sound(s, caller_log[c], account),
           \/ Pending(s, "logon") => Pending(call[c], "logon")
           \/ /\ stored \in Accounts /\ account \in Accounts
              /\ account.usage.times_called >= stored.usage.times_called + 1
    PROVE  IInv'
<1>1. TypeOK /\ CountedOf(stored)
      /\ \A d \in CallIds : Sound(call[d], caller_log[d], stored)
  BY DEF IInv
<1>2. /\ call \in [CallIds -> Records] /\ caller_log \in [CallIds -> Seq(Entries)]
      /\ stored \in Accounts \cup {None}
  BY <1>1 DEF TypeOK
<1>3. TypeOK'
  BY <1>1, <1>2 DEF TypeOK
<1>4. call'[c] = s /\ \A d \in CallIds : d # c => call'[d] = call[d]
  BY <1>2
<1>5. \A d \in CallIds : Sound(call[d]', caller_log[d]', stored')
  <2> TAKE d \in CallIds
  <2>1. CASE d = c
    BY <1>4, <2>1
  <2>2. CASE d # c
    <3>1. /\ call[d] \in Records /\ caller_log[d] \in Seq(Entries)
          /\ Known(call[d], caller_log[d], stored)
      BY <1>1, <1>2 DEF Sound
    <3>2. Known(call[d], caller_log[d], account)
      BY <1>2, <3>1, KnownStays
    <3> QED
      BY <1>1, <1>4, <2>2, <3>2 DEF Sound
  <2> QED
    BY <2>1, <2>2
<1>6. CountedOf(stored)'
  <2>1. IsFiniteSet(Counted)
    BY <1>1 DEF CountedOf
  <2>2. Counted' \subseteq Counted \cup {c}
    <3>1. \A d \in CallIds : d # c => (d \in Counted' <=> d \in Counted)
      BY <1>4 DEF Counted
    <3>2. Counted' \subseteq CallIds
      BY DEF Counted
    <3> QED
      BY <3>1, <3>2
  <2>3. /\ IsFiniteSet(Counted') /\ Cardinality(Counted) \in Nat
        /\ Cardinality(Counted') <= Cardinality(Counted) + 1
    <3>1. /\ IsFiniteSet(Counted \cup {c}) /\ Cardinality(Counted) \in Nat
          /\ Cardinality(Counted \cup {c}) <= Cardinality(Counted) + 1
      BY <2>1, OneMore
    <3> QED
      BY <2>2, <3>1, CountGrows
  <2>4. CASE Pending(s, "logon") => Pending(call[c], "logon")
    <3>1. Counted' \subseteq Counted
      <4>1. c \in Counted' => c \in Counted
        BY <1>4, <2>4 DEF Counted
      <4> QED
        BY <2>2, <4>1
    <3>2. ASSUME stored \in Accounts PROVE Cardinality(Counted) <= stored.usage.times_called
      BY <1>1, <3>2, NoneAssumption DEF CountedOf
    <3>3. CASE account = stored
      BY <1>1, <2>1, <3>1, <3>3, CountGrows, UsageIs, <1>2, <2>3, <3>2 DEF CountedOf
    <3>4. CASE stored = None /\ account \in Accounts
      <4>1. Counted = {}
        BY <1>1, <3>4, CountedHaveAccounts
      <4>2. Counted' = {} /\ Cardinality({}) = 0 /\ account.usage.times_called \in Nat
        BY <3>1, <3>4, <4>1, FS_EmptySet, UsageIs
      <4>3. Cardinality(Counted') <= account.usage.times_called
        BY <4>2
      <4> QED
        BY <2>3, <4>3 DEF CountedOf
    <3>5. CASE /\ stored \in Accounts /\ account \in Accounts
               /\ account.usage.times_called >= stored.usage.times_called
      <4>1. /\ account.usage.times_called \in Nat /\ stored.usage.times_called \in Nat
            /\ Cardinality(Counted) <= account.usage.times_called
        BY <2>3, <3>2, <3>5, UsageIs
      <4>2. Cardinality(Counted') <= account.usage.times_called
        BY <2>1, <3>1, <4>1, CountGrows
      <4> QED
        BY <2>3, <4>2 DEF CountedOf
    <3> QED
      BY <3>3, <3>4, <3>5 DEF Grows
  <2>5. CASE /\ stored \in Accounts /\ account \in Accounts
             /\ account.usage.times_called >= stored.usage.times_called + 1
    <3>1. Cardinality(Counted) <= stored.usage.times_called
      BY <1>1, <2>5, NoneAssumption DEF CountedOf
    <3>2. account.usage.times_called \in Nat /\ stored.usage.times_called \in Nat
      BY <2>5, UsageIs
    <3>3. Cardinality(Counted') \in Nat
      BY <2>3, FS_CardinalityType
    <3>4. Cardinality(Counted') <= account.usage.times_called
      BY <2>3, <2>5, <3>1, <3>2, <3>3
    <3> QED
      BY <2>3, <3>4 DEF CountedOf
  <2> QED
    BY <2>4, <2>5
<1> QED
  BY <1>3, <1>5, <1>6 DEF IInv

\* A step of a call that is not let in by it, charged, or told goodbye: it may
\* change phase, reason and retries, and the parts of its account that are
\* neither counted nor charged.
SameAccount(s, t) ==
    \/ t.user = s.user /\ t.baseline = s.baseline
    \/ /\ s.user \in Accounts /\ t.user \in Accounts /\ Same(s.user, t.user)
       /\ t.user.usage = s.user.usage
       /\ t.baseline = s.baseline \/ (t.baseline = t.user /\ t.phase # "Menu")
Late == {"Menu", "LoggingOff", "Ended"}
Verdicts == {"LockedAccount", "NewUserRejected", "OutOfTime"}
Follows(s, t) ==
    /\ t.authenticated_at = s.authenticated_at /\ t.last_tick_at = s.last_tick_at
    /\ t.time_remaining = s.time_remaining
    /\ SameAccount(s, t)
    /\ ~ Pending(t, "logon") /\ ~ Pending(t, "logoff")
    /\ t.phase \in {"Onboarded", "Menu"} => t.phase = s.phase
    /\ s.phase \in Late => t.phase \in Late
    /\ t.doing \in {"menu", "prompt"} => s.doing \in {"menu", "prompt"}
    /\ \/ t.reason = s.reason \/ s.authenticated_at = Never
       \/ s.reason = None /\ t.reason \notin Verdicts

LEMMA FollowsIsSound ==
    ASSUME NEW s \in Records, NEW t \in Records, NEW log \in Seq(Entries),
           NEW account \in Accounts \cup {None},
           Sound(s, log, account), s.entry = None, s.doing # "gone", Staged(t), Follows(s, t)
    PROVE  Sound(t, log, account)
<1>1. /\ Staged(s) /\ Told(s, log) /\ Known(s, log, account) /\ Timed(s)
      /\ ~ Pending(s, "logon") /\ ~ Pending(s, "logoff")
  BY DEF Sound, Pending
<1>2. s.user = None => t.user = None
  <2>1. s.user = None => s.user \notin Accounts
    BY NoneAssumption
  <2> QED
    BY <2>1 DEF Follows, SameAccount
<1>3. s.user # None => t.user # None
  <2>1. \A x \in Accounts : x # None
    BY NoneAssumption
  <2> QED
    BY <2>1 DEF Follows, SameAccount
<1>4. Told(t, log)
  <2>1. ~ HasLine(log, "logoff")
    BY <1>1 DEF Told
  <2>2. HasLine(log, "logon") => t.user # None /\ t.phase \in Late
    BY <1>1, <1>3 DEF Told, Follows, Late
  <2> QED
    BY <1>1, <2>1, <2>2 DEF Told, Follows, Late
<1>5. Known(t, log, account)
  <2> SUFFICES ASSUME t.user # None PROVE Known(t, log, account)
    BY DEF Known
  <2>1. /\ s.user # None /\ account # None /\ s.baseline # None
        /\ s.user \in Accounts /\ s.baseline \in Accounts
    BY <1>1, <1>2 DEF Known, Records
  <2>2. ~ HasLine(log, "logoff")
    BY <1>1 DEF Told
  <2>3. CASE t.user = s.user /\ t.baseline = s.baseline
    BY <1>1, <2>1, <2>2, <2>3 DEF Known, Follows, HasLine
  <2>4. CASE Same(s.user, t.user) /\ t.user.usage = s.user.usage
             /\ (t.baseline = s.baseline \/ t.baseline = t.user)
    <3>1. t.user.conferences.memberships = s.user.conferences.memberships
      BY <2>4 DEF Same, SameMemberships
    <3>2. t.user.usage.times_called \in Int
      BY <2>1, <2>4, UsageIs
    <3>3. t.baseline # None
      BY <1>3, <2>1, <2>4
    <3> QED
      BY <1>1, <2>1, <2>2, <2>4, <3>1, <3>2, <3>3 DEF Known, Follows, HasLine
  <2> QED
    BY <2>3, <2>4 DEF Follows, SameAccount
<1>6. Timed(t)
  <2>1. t.phase = "Onboarded" /\ t.doing # "gone" =>
          t.user.usage.time_used_today = t.baseline.usage.time_used_today
    BY <1>1 DEF Timed, Follows, SameAccount
  <2>2. ASSUME s.authenticated_at # Never, NEW n \in Nat, Charges(s, n) PROVE Charges(t, n)
    <3>1. s.user # None /\ s.user \in Accounts
      BY <1>1, <2>2 DEF Timed, Records
    <3>2. LimitOf(t) = LimitOf(s) /\ (OverridesTimeLimit(t.user) <=> OverridesTimeLimit(s.user))
      BY DEF Follows, SameAccount, Same, SameLimits, LimitOf
    <3>3. t.phase = "Menu" => /\ t.user.usage = s.user.usage
                              /\ t.baseline = s.baseline /\ s.phase = "Menu"
      BY DEF Follows, SameAccount
    <3>4. t.reason = s.reason \/ (s.reason = None /\ t.reason \notin Verdicts)
      BY <2>2 DEF Follows
    <3>5. t.time_remaining = (IF t.reason \in {"LockedAccount", "NewUserRejected"} THEN 0
                              ELSE SaturatingSub(LimitOf(t), n))
      <4>1. None \notin {"LockedAccount", "NewUserRejected"}
        BY NoneAssumption DEF Reasons
      <4> QED
        BY <2>2, <3>2, <3>4, <4>1 DEF Charges, Follows, Verdicts
    <3>6. t.reason = "OutOfTime" => n > LimitOf(t)
      BY <2>2, <3>2, <3>4 DEF Charges, Verdicts
    <3>7. t.phase = "Onboarded" => n = 0
      BY <2>2 DEF Charges, Follows
    <3>8. t.doing \in {"menu", "prompt"} /\ ~ OverridesTimeLimit(t.user) => n <= LimitOf(t)
      BY <2>2, <3>2 DEF Charges, Follows
    <3>9. t.last_tick_at = t.authenticated_at + n * Minute
      BY <2>2 DEF Charges, Follows
    <3>10. t.phase = "Menu" => n = t.user.usage.time_used_today - t.baseline.usage.time_used_today
      BY <2>2, <3>3 DEF Charges
    <3> QED
      BY <3>5, <3>6, <3>7, <3>8, <3>9, <3>10 DEF Charges
  <2>3. t.authenticated_at # Never => t.user # None /\ \E n \in Nat : Charges(t, n)
    BY <1>1, <1>3, <2>2 DEF Timed, Follows
  <2> QED
    BY <2>1, <2>3 DEF Timed
<1> QED
  BY <1>4, <1>5, <1>6 DEF Sound

----------------------------------------------------------------------------
(* The steps that relabel a call.                                          *)

LEMMA OfACall ==
    ASSUME IInv, NEW c \in CallIds
    PROVE  /\ call[c] \in Records /\ caller_log[c] \in Seq(Entries)
           /\ stored \in Accounts \cup {None} /\ clock \in Int /\ failures \in Nat
           /\ Sound(call[c], caller_log[c], stored) /\ Staged(call[c])
BY DEF IInv, TypeOK, Sound

LEMMA FollowsKeeps ==
    ASSUME IInv, NEW c \in CallIds, NEW t \in Records, NEW account \in Accounts \cup {None},
           stored' = account, Becomes(c, t), caller_log' = caller_log, clock' = clock,
           setbacks' = setbacks, plan' = plan, failures' \in Nat, Grows(stored, account),
           call[c].entry = None, call[c].doing # "gone", Staged(t), Follows(call[c], t)
    PROVE  IInv'
<1>1. /\ call[c] \in Records /\ caller_log[c] \in Seq(Entries)
      /\ stored \in Accounts \cup {None} /\ Sound(call[c], caller_log[c], stored)
  BY OfACall
<1>2. Sound(t, caller_log[c], stored)
  BY <1>1, FollowsIsSound
<1>3. Known(t, caller_log[c], account)
  BY <1>1, <1>2, KnownStays DEF Sound
<1>4. Sound(t, caller_log[c], account)
  BY <1>2, <1>3 DEF Sound
<1>5. ~ Pending(t, "logon")
  BY DEF Follows
<1> QED
  BY <1>4, <1>5, StepKeeps DEF Becomes

LEMMA MovesInMemory ==
    ASSUME IInv, NEW c \in CallIds, NEW t \in Records, Becomes(c, t), InMemory,
           call[c].entry = None, call[c].doing # "gone", Staged(t), Follows(call[c], t)
    PROVE  IInv'
<1>1. stored \in Accounts \cup {None} /\ failures \in Nat
  BY OfACall
<1>2. Grows(stored, stored)
  BY DEF Grows
<1>3. /\ stored' = stored /\ caller_log' = caller_log /\ clock' = clock /\ setbacks' = setbacks
      /\ plan' = plan /\ failures' = failures
  BY DEF InMemory
<1> QED
  BY <1>1, <1>2, <1>3, FollowsKeeps

\* Where a call is between two sentences it has no reason yet.
LEMMA NoneIs == None \notin Accounts /\ None \notin Reasons
BY NoneAssumption

LEMMA UnusedIsRecord == Unused \in Records
BY DEF Unused, Records, Phases, Doings, Never

LEMMA AcceptConnectionKeeps ==
    ASSUME IInv, NEW c \in CallIds, AcceptConnection(c)
    PROVE  IInv'
<1> DEFINE t == [Unused EXCEPT !.phase = "Connecting", !.doing = "greeting"]
<1>1. call[c] \in Records /\ Staged(call[c])
  BY OfACall
<1>2. t \in Records
  <2>1. Unused \in Records
    BY UnusedIsRecord
  <2>2. "Connecting" \in Phases /\ "greeting" \in Doings
    BY DEF Phases, Doings
  <2> QED
    BY <2>1, <2>2 DEF Records
<1>3. call[c].entry = None /\ call[c].doing = "nothing" /\ call[c].user = None
  BY <1>1 DEF AcceptConnection, Staged, Fits
<1>4. call[c].baseline = None
  BY <1>1, <1>3 DEF Staged
<1>5. Staged(t)
  BY DEF Staged, Fits, Unused, Active
<1>6. Follows(call[c], t)
  BY <1>1, <1>3, <1>4 DEF Follows, Staged, SameAccount, Pending, Unused, AcceptConnection, Late
<1> QED
  BY <1>2, <1>3, <1>5, <1>6, MovesInMemory DEF AcceptConnection

\* What the labels of a call may be.
LEMMA Relabelled ==
    ASSUME NEW s \in Records, NEW phase \in Phases, NEW doing \in Doings,
           NEW reason \in Reasons \cup {None}, NEW retries \in Nat,
           NEW entry \in Entries \cup {None}
    PROVE  /\ [s EXCEPT !.retries = retries] \in Records
           /\ [s EXCEPT !.doing = doing] \in Records
           /\ [s EXCEPT !.phase = phase, !.doing = doing] \in Records
           /\ [s EXCEPT !.phase = phase, !.retries = retries, !.doing = doing] \in Records
           /\ [s EXCEPT !.phase = phase, !.reason = reason, !.doing = doing] \in Records
           /\ [s EXCEPT !.doing = doing, !.entry = entry] \in Records
BY DEF Records

LEMMA LabelsAre ==
    /\ {"NewUserRegistering", "LoggingOff", "Ended"} \subseteq Phases
    /\ {"profile", "gate", "reset", "entering", "goodbye", "finalise", "gone"} \subseteq Doings
    /\ Reasons \subseteq Reasons \cup {None}
    /\ {"CarrierLoss", "InputTimeout", "NewUserRejected", "LockedAccount", "OutOfTime",
        "ExcessivePasswordFails", "NoConferenceAccess", "NormalLogoff"} \subseteq Reasons
BY DEF Phases, Doings, Reasons, Active

LEMMA MovesToLoggingOff ==
    ASSUME NEW s \in Records, NEW doing \in {"goodbye", "finalise"}, NEW reason \in Reasons
    PROVE  MoveToLoggingOff(s, reason, doing) \in Records
BY LabelsAre, Relabelled DEF MoveToLoggingOff

LEMMA PromptForNameKeeps ==
    ASSUME IInv, NEW c \in CallIds, PromptForName(c)
    PROVE  IInv'
<1> DEFINE t == [call[c] EXCEPT !.phase = "Identifying", !.doing = "name"]
<1>1. /\ call[c] \in Records /\ Staged(call[c])
      /\ call[c].entry = None /\ call[c].doing = "greeting" /\ call[c].phase = "Connecting"
  BY OfACall DEF PromptForName, Does, Staged, Fits
<1>2. t \in Records
  BY <1>1 DEF Records, Phases, Doings, Active
<1>3. Staged(t)
  BY <1>1 DEF Staged, Fits, Active, Records
<1>4. Follows(call[c], t)
  BY <1>1 DEF Follows, SameAccount, Pending, Late, Records
<1> QED
  BY <1>1, <1>2, <1>3, <1>4, MovesInMemory DEF PromptForName

LEMMA RecordUnknownNameKeeps ==
    ASSUME IInv, NEW c \in CallIds, RecordUnknownName(c)
    PROVE  IInv'
<1> DEFINE last == [call[c] EXCEPT !.phase = "Ended", !.reason = "NewUserRejected",
                                   !.doing = "goodbye"]
           more == [call[c] EXCEPT !.retries = call[c].retries + 1]
<1>1. /\ call[c] \in Records /\ Staged(call[c])
      /\ call[c].entry = None /\ call[c].doing = "name" /\ call[c].phase = "Identifying"
      /\ call[c].authenticated_at = Never
  BY OfACall DEF RecordUnknownName, Does, Staged, Fits
<1>2. last \in Records /\ more \in Records
  <2>1. last \in Records
    BY <1>1, LabelsAre, Relabelled
  <2>2. call[c].retries + 1 \in Nat
    BY <1>1 DEF Records
  <2>3. more \in Records
    BY <1>1, <2>2 DEF Records
  <2> QED
    BY <2>1, <2>3
<1>3. Staged(last) /\ Staged(more)
  BY <1>1 DEF Staged, Fits, Active, Records
<1>4. Follows(call[c], last) /\ Follows(call[c], more)
  BY <1>1 DEF Follows, SameAccount, Pending, Late, Records
<1>5. InMemory /\ (Becomes(c, last) \/ Becomes(c, more))
  BY DEF RecordUnknownName
<1> HIDE DEF last, more
<1> QED
  BY <1>1, <1>2, <1>3, <1>4, <1>5, MovesInMemory

LEMMA NameLookupFailsKeeps ==
    ASSUME IInv, NEW c \in CallIds, NameLookupFails(c)
    PROVE  IInv'
<1> DEFINE t == Aborted(call[c])
<1>1. /\ call[c] \in Records /\ Staged(call[c]) /\ stored \in Accounts \cup {None}
      /\ call[c].entry = None /\ call[c].doing = "name" /\ call[c].phase = "Identifying"
  BY OfACall DEF NameLookupFails, Does, Staged, Fits
<1>2. t \in Records
  BY <1>1 DEF Records, Doings, Aborted
<1>3. Staged(t)
  BY <1>1 DEF Staged, Fits, Active, Records, Aborted
<1>4. Follows(call[c], t)
  BY <1>1 DEF Follows, SameAccount, Pending, Late, Records, Aborted
<1>5. /\ stored' = stored /\ caller_log' = caller_log /\ clock' = clock
      /\ setbacks' = setbacks /\ plan' = plan /\ failures' \in Nat /\ Becomes(c, t)
  BY OfACall DEF NameLookupFails, WriteOnly
<1>6. Grows(stored, stored)
  BY DEF Grows
<1> HIDE DEF t
<1> QED
  BY <1>1, <1>2, <1>3, <1>4, <1>5, <1>6, FollowsKeeps

LEMMA RecordNewUserRequestKeeps ==
    ASSUME IInv, NEW c \in CallIds, RecordNewUserRequest(c)
    PROVE  IInv'
<1> DEFINE Goes(doing) == [call[c] EXCEPT !.phase = "NewUserRegistering", !.retries = 0,
                                          !.doing = doing]
           closed == MoveToLoggingOff(call[c], "NewUserRejected", "goodbye")
<1>1. /\ call[c] \in Records /\ Staged(call[c])
      /\ call[c].entry = None /\ call[c].doing = "name" /\ call[c].phase = "Identifying"
      /\ call[c].authenticated_at = Never
  BY OfACall DEF RecordNewUserRequest, Does, Staged, Fits
<1>2. PICK doing \in {"gate", "profile"} : Becomes(c, Goes(doing)) \/ Becomes(c, closed)
  BY DEF RecordNewUserRequest
<1>3. Goes(doing) \in Records /\ closed \in Records
  BY <1>1, LabelsAre, Relabelled, MovesToLoggingOff
<1>4. Staged(Goes(doing)) /\ Staged(closed)
  BY <1>1 DEF Staged, Fits, Active, Records, MoveToLoggingOff
<1>5. Follows(call[c], Goes(doing)) /\ Follows(call[c], closed)
  BY <1>1 DEF Follows, SameAccount, Pending, Late, Records, MoveToLoggingOff
<1>6. InMemory
  BY DEF RecordNewUserRequest
<1> HIDE DEF Goes, closed
<1> QED
  BY <1>1, <1>2, <1>3, <1>4, <1>5, <1>6, MovesInMemory

LEMMA NewUserPasswordAttemptKeeps ==
    ASSUME IInv, NEW c \in CallIds, NewUserPasswordAttempt(c)
    PROVE  IInv'
<1> DEFINE passed == [call[c] EXCEPT !.doing = "profile"]
           missed == [call[c] EXCEPT !.retries = call[c].retries + 1]
           line == Line("password failure", None)
           again == With(missed, line)
           last == With(MoveToLoggingOff(missed, "NewUserRejected", "goodbye"), line)
<1>1. /\ call[c] \in Records /\ Staged(call[c])
      /\ call[c].entry = None /\ call[c].doing = "gate" /\ call[c].phase = "NewUserRegistering"
      /\ call[c].authenticated_at = Never
  BY OfACall DEF NewUserPasswordAttempt, Does, Staged, Fits
<1>2. line \in Entries /\ line.kind = "password failure"
  BY OfACall DEF Line, Entries
<1>3. InMemory /\ (Becomes(c, passed) \/ Becomes(c, again) \/ Becomes(c, last))
  BY DEF NewUserPasswordAttempt
<1> HIDE DEF line
<1>4. passed \in Records /\ again \in Records /\ last \in Records
  <2>1. passed \in Records
    BY <1>1, LabelsAre, Relabelled
  <2>2. call[c].retries + 1 \in Nat
    BY <1>1 DEF Records
  <2>3. missed \in Records
    BY <1>1, <2>2 DEF Records
  <2>4. MoveToLoggingOff(missed, "NewUserRejected", "goodbye") \in Records
    BY <2>3, LabelsAre, MovesToLoggingOff
  <2>5. line \in Entries \cup {None}
    BY <1>2
  <2> HIDE DEF missed
  <2>6. \A s \in Records, entry \in Entries \cup {None} : With(s, entry) \in Records
    BY DEF With, Records
  <2> QED
    BY <2>1, <2>3, <2>4, <2>5, <2>6
<1>5. Staged(passed) /\ Staged(again) /\ Staged(last)
  BY <1>1 DEF Staged, Fits, Active, Records, MoveToLoggingOff, With
<1>6. Follows(call[c], passed) /\ Follows(call[c], again) /\ Follows(call[c], last)
  BY <1>1, <1>2 DEF Follows, SameAccount, Pending, Late, Records, MoveToLoggingOff, With
<1> HIDE DEF passed, again, last
<1> QED
  BY <1>1, <1>3, <1>4, <1>5, <1>6, MovesInMemory

LEMMA RefusePasswordResetKeeps ==
    ASSUME IInv, NEW c \in CallIds, RefusePasswordReset(c)
    PROVE  IInv'
<1> DEFINE dropped == ApplyCarrierLoss(call[c])
           again == [call[c] EXCEPT !.retries = call[c].retries + 1]
<1>1. /\ call[c] \in Records /\ Staged(call[c])
      /\ call[c].entry = None /\ call[c].doing = "reset" /\ call[c].phase = "Onboarded"
      /\ call[c].reason = None /\ call[c].user # None
  BY OfACall DEF RefusePasswordReset, Does, Staged, Fits, Active
<1>2. InMemory /\ (Becomes(c, dropped) \/ Becomes(c, again))
  BY DEF RefusePasswordReset
<1>3. dropped \in Records
  BY <1>1, LabelsAre, MovesToLoggingOff DEF ApplyCarrierLoss
<1>4. again \in Records
  BY <1>1 DEF Records
<1>5. Staged(dropped) /\ Staged(again)
  BY <1>1 DEF Staged, Fits, Active, Records, MoveToLoggingOff, ApplyCarrierLoss
<1>6. Follows(call[c], dropped) /\ Follows(call[c], again)
  BY <1>1 DEF Follows, SameAccount, Pending, Late, Records, MoveToLoggingOff, ApplyCarrierLoss,
              Verdicts
<1> HIDE DEF dropped, again
<1> QED
  BY <1>1, <1>2, <1>3, <1>4, <1>5, <1>6, MovesInMemory

LEMMA CommandKeeps ==
    ASSUME IInv, NEW c \in CallIds, Command(c)
    PROVE  IInv'
<1> DEFINE t == [call[c] EXCEPT !.doing = "menu"]
<1>1. /\ call[c] \in Records /\ Staged(call[c])
      /\ call[c].entry = None /\ call[c].doing = "prompt" /\ call[c].phase = "Menu"
  BY OfACall DEF Command, Does, Staged, Fits
<1>2. t \in Records
  BY <1>1 DEF Records, Doings
<1>3. Staged(t)
  BY <1>1 DEF Staged, Fits, Active, Records
<1>4. Follows(call[c], t)
  BY <1>1 DEF Follows, SameAccount, Pending, Late, Records
<1> QED
  BY <1>1, <1>2, <1>3, <1>4, MovesInMemory DEF Command

LEMMA UserRequestsLogoffKeeps ==
    ASSUME IInv, NEW c \in CallIds, UserRequestsLogoff(c)
    PROVE  IInv'
<1> DEFINE t == MoveToLoggingOff(call[c], "NormalLogoff", "goodbye")
<1>1. /\ call[c] \in Records /\ Staged(call[c])
      /\ call[c].entry = None /\ call[c].doing = "prompt" /\ call[c].phase = "Menu"
      /\ call[c].reason = None
  BY OfACall DEF UserRequestsLogoff, Does, Staged, Fits, Active
<1>2. t \in Records
  BY <1>1, LabelsAre, MovesToLoggingOff
<1>3. Staged(t)
  BY <1>1 DEF Staged, Fits, Active, Records, MoveToLoggingOff
<1>4. Follows(call[c], t)
  BY <1>1 DEF Follows, SameAccount, Pending, Late, Records, MoveToLoggingOff, Verdicts
<1> QED
  BY <1>1, <1>2, <1>3, <1>4, MovesInMemory DEF UserRequestsLogoff

LEMMA ConnectionLostKeeps ==
    ASSUME IInv, NEW c \in CallIds, ConnectionLost(c)
    PROVE  IInv'
<1> DEFINE dropped == ApplyCarrierLoss(call[c])
           quiet == [call[c] EXCEPT !.doing = "finalise"]
           gone == [call[c] EXCEPT !.doing = "gone"]
<1>1. /\ call[c] \in Records /\ Staged(call[c])
      /\ call[c].entry = None /\ call[c].doing \notin {"nothing", "gone"}
      /\ call[c].phase # "None"
  BY OfACall DEF ConnectionLost, Does, Staged, Fits
<1>2. /\ InMemory
      /\ \/ call[c].phase \in Active \cup {"Connecting"} /\ Becomes(c, dropped)
         \/ call[c].phase = "LoggingOff" /\ Becomes(c, quiet)
         \/ call[c].phase \notin Active \cup {"Connecting"} /\ Becomes(c, gone)
  BY DEF ConnectionLost, IntoLoggingOff
<1>3. dropped \in Records /\ quiet \in Records /\ gone \in Records
  BY <1>1, LabelsAre, MovesToLoggingOff, Relabelled DEF ApplyCarrierLoss
<1>4. CASE call[c].phase \in Active \cup {"Connecting"} /\ Becomes(c, dropped)
  <2>1. Staged(dropped)
    BY <1>1, <1>4 DEF Staged, Fits, Active, Records, MoveToLoggingOff, ApplyCarrierLoss
  <2>2. Follows(call[c], dropped)
    BY <1>1, <1>4 DEF Follows, SameAccount, Pending, Late, Records, MoveToLoggingOff,
                      ApplyCarrierLoss, Verdicts, Staged
  <2> HIDE DEF dropped
  <2> QED
    BY <1>1, <1>2, <1>3, <1>4, <2>1, <2>2, MovesInMemory
<1>5. CASE call[c].phase = "LoggingOff" /\ Becomes(c, quiet)
  <2>1. Staged(quiet)
    BY <1>1, <1>5 DEF Staged, Fits, Active, Records
  <2>2. Follows(call[c], quiet)
    BY <1>1, <1>5 DEF Follows, SameAccount, Pending, Late, Records
  <2> HIDE DEF quiet
  <2> QED
    BY <1>1, <1>2, <1>3, <1>5, <2>1, <2>2, MovesInMemory
<1>6. CASE call[c].phase \notin Active \cup {"Connecting"} /\ Becomes(c, gone)
  <2>1. Staged(gone)
    BY <1>1, <1>6 DEF Staged, Fits, Active, Records
  <2>2. Follows(call[c], gone)
    BY <1>1, <1>6 DEF Follows, SameAccount, Pending, Late, Records
  <2> HIDE DEF gone
  <2> QED
    BY <1>1, <1>2, <1>3, <1>6, <2>1, <2>2, MovesInMemory
<1> QED
  BY <1>2, <1>4, <1>5, <1>6

LEMMA IdleTimedOutKeeps ==
    ASSUME IInv, NEW c \in CallIds, IdleTimedOut(c)
    PROVE  IInv'
<1>1. /\ call[c] \in Records /\ Staged(call[c]) /\ call[c].entry = None
      /\ call[c].doing # "gone" /\ call[c].reason = None
      /\ call[c].phase \in Active
  BY OfACall DEF IdleTimedOut, Does, Staged, Fits, Active
<1>2. PICK reason \in {"InputTimeout", "CarrierLoss"} :
        InMemory /\ Becomes(c, MoveToLoggingOff(call[c], reason, "goodbye"))
  BY DEF IdleTimedOut, ApplyIdleTimeout
<1> DEFINE t == MoveToLoggingOff(call[c], reason, "goodbye")
<1>3. t \in Records
  BY <1>1, LabelsAre, MovesToLoggingOff
<1>4. Staged(t)
  BY <1>1 DEF Staged, Fits, Active, Records, MoveToLoggingOff
<1>5. Follows(call[c], t)
  BY <1>1 DEF Follows, SameAccount, Pending, Late, Records, MoveToLoggingOff, Verdicts
<1> HIDE DEF t
<1> QED
  BY <1>1, <1>2, <1>3, <1>4, <1>5, MovesInMemory DEF t

LEMMA GoodbyeWrittenKeeps ==
    ASSUME IInv, NEW c \in CallIds, GoodbyeWritten(c)
    PROVE  IInv'
<1>1. /\ call[c] \in Records /\ Staged(call[c])
      /\ call[c].entry = None /\ call[c].doing = "goodbye"
  BY OfACall DEF GoodbyeWritten, Does
<1>2. PICK doing \in {"finalise", "gone"} :
        /\ doing = "finalise" => call[c].phase = "LoggingOff"
        /\ InMemory /\ Becomes(c, [call[c] EXCEPT !.doing = doing])
  BY DEF GoodbyeWritten
<1> DEFINE t == [call[c] EXCEPT !.doing = doing]
<1>3. t \in Records
  BY <1>1, LabelsAre, Relabelled
<1>4. Staged(t)
  BY <1>1, <1>2 DEF Staged, Fits, Active, Records
<1>5. Follows(call[c], t)
  BY <1>1 DEF Follows, SameAccount, Pending, Late, Records
<1> HIDE DEF t
<1> QED
  BY <1>1, <1>2, <1>3, <1>4, <1>5, MovesInMemory DEF t

----------------------------------------------------------------------------
(* The steps that write what the call knows no newer than before.          *)

LEMMA WrittenIs ==
    ASSUME NEW s \in Records, Staged(s), s.phase # "None"
    PROVE  /\ Rebaselined(s) \in Records /\ Staged(Rebaselined(s))
           /\ Aborted(s) \in Records /\ Staged(Aborted(s))
<1>1. Rebaselined(s) \in Records
  BY DEF Rebaselined, Records
<1>2. Aborted(s) \in Records
  BY DEF Aborted, Records, Doings
<1>3. Staged(Rebaselined(s))
  BY DEF Rebaselined, Records, Staged
<1>4. Staged(Aborted(s))
  BY DEF Aborted, Records, Staged, Fits, Active
<1> QED
  BY <1>1, <1>2, <1>3, <1>4

LEMMA FollowsWritten ==
    ASSUME IInv, NEW c \in CallIds, NEW s \in Records, NEW account \in Accounts \cup {None},
           Written(c, account, s), WriteOnly, Grows(stored, account),
           call[c].entry = None, call[c].doing # "gone", Staged(s), s.phase # "None",
           Follows(call[c], Rebaselined(s)), Follows(call[c], Aborted(s))
    PROVE  IInv'
<1>1. /\ Rebaselined(s) \in Records /\ Staged(Rebaselined(s))
      /\ Aborted(s) \in Records /\ Staged(Aborted(s))
  BY WrittenIs
<1>2. /\ caller_log' = caller_log /\ clock' = clock /\ setbacks' = setbacks /\ plan' = plan
      /\ failures' \in Nat /\ stored \in Accounts \cup {None}
  BY OfACall DEF WriteOnly, Written
<1>3. CASE stored' = account /\ Becomes(c, Rebaselined(s))
  BY <1>1, <1>2, <1>3, FollowsKeeps
<1>4. CASE stored' = stored /\ Becomes(c, Aborted(s))
  <2>1. Grows(stored, stored)
    BY DEF Grows
  <2> QED
    BY <1>1, <1>2, <1>4, <2>1, FollowsKeeps
<1> QED
  BY <1>3, <1>4 DEF Written

\* A call that has an account knows one that is stored.
LEMMA StoredIs ==
    ASSUME IInv, NEW c \in CallIds, call[c].user # None
    PROVE  call[c].user \in Accounts /\ call[c].baseline \in Accounts /\ stored \in Accounts
BY OfACall DEF Sound, Known, Records

LEMMA SameGrows ==
    ASSUME NEW old \in Accounts, NEW new, Same(old, new)
    PROVE  new \in Accounts /\ Grows(old, new)
BY UsageIs DEF Same, SameCalls, Grows

LEMMA ApplyPasswordMismatchKeeps ==
    ASSUME IInv, NEW c \in CallIds, ApplyPasswordMismatch(c)
    PROVE  IInv'
<1>1. /\ call[c] \in Records /\ Staged(call[c])
      /\ call[c].entry = None /\ call[c].doing = "password" /\ call[c].phase = "Authenticating"
      /\ call[c].authenticated_at = Never /\ call[c].user # None /\ call[c].reason = None
  BY OfACall DEF ApplyPasswordMismatch, Does, Staged, Fits, Active
<1>2. call[c].user \in Accounts /\ stored \in Accounts
  BY <1>1, StoredIs
<1> DEFINE struck == [call[c].user EXCEPT !.account.invalid_attempts = @ + 1]
           retries == call[c].retries + 1
           locks == struck.account.invalid_attempts >= MaxPasswordFailures
           outcome == [kind |-> "Mismatched", lock_account |-> locks]
           account == ApplyAuthOutcome(outcome, stored)
           line == Line("password failure", None)
           user == IF locks THEN LockAccount(struck) ELSE struck
           failed == [call[c] EXCEPT !.retries = retries, !.user = user]
           ended == IF locks THEN MoveToLoggingOff(failed, "LockedAccount", "goodbye")
                    ELSE IF retries >= MaxPasswordFailures
                      THEN MoveToLoggingOff(failed, "ExcessivePasswordFails", "goodbye")
                    ELSE failed
<1>3. Written(c, account, With(ended, line)) /\ WriteOnly
  BY DEF ApplyPasswordMismatch
<1>4. account \in Accounts /\ Grows(stored, account)
  <2>1. locks \in BOOLEAN
    OBVIOUS
  <2>2. Same(stored, account)
    BY <1>2, <2>1, ApplyAuthOutcomeKeeps
  <2> QED
    BY <1>2, <2>2, SameGrows
<1>5. user \in Accounts /\ Same(call[c].user, user) /\ user.usage = call[c].user.usage
  <2>1. PICK n \in Nat : n = call[c].user.account.invalid_attempts + 1
    BY <1>2, GroupsOf DEF Statuses
  <2>2. struck = [call[c].user EXCEPT !.account.invalid_attempts = n]
    BY <2>1
  <2>3. Same(call[c].user, struck) /\ struck.usage = call[c].user.usage
    BY <1>2, <2>2, AttemptsKept
  <2> HIDE DEF struck
  <2>4. struck \in Accounts
    BY <2>3 DEF Same
  <2>5. Same(struck, LockAccount(struck)) /\ LockAccount(struck).usage = struck.usage
    BY <2>4, LockAccountKeeps DEF LockAccount, Accounts
  <2>6. Same(call[c].user, LockAccount(struck))
    BY <2>3, <2>5 DEF Same, SameLimits, SameMemberships, SameCalls
  <2> QED
    BY <2>3, <2>5, <2>6 DEF Same
<1>6. line \in Entries /\ line.kind = "password failure"
  BY OfACall DEF Line, Entries
<1> HIDE DEF user, account, line, outcome
<1>7. failed \in Records
  <2>1. retries \in Nat
    BY <1>1 DEF Records
  <2>2. user \in Accounts \cup {None}
    BY <1>5
  <2> HIDE DEF retries
  <2> QED
    BY <1>1, <2>1, <2>2 DEF Records
<1>8. ended \in Records
  BY <1>7, LabelsAre, MovesToLoggingOff
<1>9. PICK t : t = With(ended, line)
  OBVIOUS
<1>10. t \in Records
  <2> HIDE DEF ended
  <2> QED
    BY <1>6, <1>8, <1>9 DEF With, Records
<1>11. /\ t.user = user /\ t.baseline = call[c].baseline /\ t.entry = line
       /\ t.authenticated_at = call[c].authenticated_at /\ t.last_tick_at = call[c].last_tick_at
       /\ t.time_remaining = call[c].time_remaining
       /\ \/ t.phase = "Authenticating" /\ t.doing = "password" /\ t.reason = None
          \/ t.phase = "LoggingOff" /\ t.doing = "goodbye"
  BY <1>1, <1>9 DEF With, MoveToLoggingOff, Records
<1> HIDE DEF ended, locks, failed, retries
<1>12. user # None
  BY <1>5, NoneAssumption
<1>13. Staged(t)
  BY <1>1, <1>11, <1>12 DEF Staged, Fits, Active
<1>14. Follows(call[c], Rebaselined(t))
  BY <1>1, <1>2, <1>5, <1>6, <1>10, <1>11
     DEF Follows, SameAccount, Pending, Late, Rebaselined, Records
<1>15. Follows(call[c], Aborted(t))
  BY <1>1, <1>2, <1>5, <1>6, <1>10, <1>11
     DEF Follows, SameAccount, Pending, Late, Aborted, Records
<1>16. t.phase # "None" /\ account \in Accounts \cup {None}
  BY <1>4, <1>11
<1> QED
  BY <1>1, <1>3, <1>4, <1>9, <1>10, <1>13, <1>14, <1>15, <1>16, FollowsWritten

LEMMA CompletePasswordResetKeeps ==
    ASSUME IInv, NEW c \in CallIds, CompletePasswordReset(c)
    PROVE  IInv'
<1> DEFINE change == [hash |-> "changed", changed_at |-> clock]
           user == ApplyPasswordChange(change, call[c].user)
           account == ApplyPasswordChange(change, stored)
           t == [call[c] EXCEPT !.user = user, !.doing = "entering"]
<1>1. /\ call[c] \in Records /\ Staged(call[c])
      /\ call[c].entry = None /\ call[c].doing = "reset" /\ call[c].phase = "Onboarded"
      /\ call[c].user # None /\ call[c].reason = None
  BY OfACall DEF CompletePasswordReset, Does, Staged, Fits, Active
<1>2. call[c].user \in Accounts /\ stored \in Accounts
  BY <1>1, StoredIs
<1>3. change.hash \in Hashes /\ change.changed_at \in Int
  BY OfACall DEF Hashes
<1>4. Written(c, account, t) /\ WriteOnly
  BY DEF CompletePasswordReset
<1> HIDE DEF change
<1>5. account \in Accounts /\ Grows(stored, account)
  BY <1>2, <1>3, ApplyPasswordChangeKeeps, SameGrows
<1>6. user \in Accounts /\ Same(call[c].user, user) /\ user.usage = call[c].user.usage
  BY <1>2, <1>3, ApplyPasswordChangeKeeps DEF Same
<1> HIDE DEF user, account
<1>7. t \in Records
  <2>1. user \in Accounts \cup {None}
    BY <1>6
  <2> QED
    BY <1>1, <2>1, LabelsAre DEF Records
<1>8. user # None
  BY <1>6, NoneAssumption
<1>9. Staged(t)
  BY <1>1, <1>8 DEF Staged, Fits, Active, Records
<1>10. Follows(call[c], Rebaselined(t))
  BY <1>1, <1>2, <1>6 DEF Follows, SameAccount, Pending, Late, Rebaselined, Records
<1>11. Follows(call[c], Aborted(t))
  BY <1>1, <1>2, <1>6 DEF Follows, SameAccount, Pending, Late, Aborted, Records
<1>12. t.phase # "None" /\ account \in Accounts \cup {None}
  BY <1>1, <1>5 DEF Records
<1> HIDE DEF t
<1> QED
  BY <1>1, <1>4, <1>5, <1>7, <1>9, <1>10, <1>11, <1>12, FollowsWritten

LEMMA AutoRejoinConferenceKeeps ==
    ASSUME IInv, NEW c \in CallIds, AutoRejoinConference(c)
    PROVE  IInv'
<1> DEFINE closed == MoveToLoggingOff(call[c], "NoConferenceAccess", "goodbye")
           user == RecordJoin(call[c].user, 1, 1)
           Goes(doing) == [call[c] EXCEPT !.user = user, !.doing = doing, !.retries = 0]
<1>1. /\ call[c] \in Records /\ Staged(call[c])
      /\ call[c].entry = None /\ call[c].doing = "onboarded" /\ call[c].phase = "Onboarded"
      /\ call[c].user # None /\ call[c].reason = None
  BY OfACall DEF AutoRejoinConference, Does, Staged, Fits, Active
<1>2. call[c].user \in Accounts
  BY <1>1, StoredIs
<1>3. PICK doing \in {"reset", "entering"} :
        InMemory /\ (Becomes(c, closed) \/ Becomes(c, Goes(doing)))
  BY DEF AutoRejoinConference
<1>4. user \in Accounts /\ Same(call[c].user, user) /\ user.usage = call[c].user.usage
  BY <1>2, RecordJoinKeeps DEF Same
<1> HIDE DEF user
<1>5. closed \in Records
  BY <1>1, LabelsAre, MovesToLoggingOff
<1>6. Goes(doing) \in Records
  <2>1. user \in Accounts \cup {None}
    BY <1>4
  <2> QED
    BY <1>1, <2>1, LabelsAre DEF Records
<1>7. user # None
  BY <1>4, NoneAssumption
<1>8. Staged(closed) /\ Staged(Goes(doing))
  BY <1>1, <1>7 DEF Staged, Fits, Active, Records, MoveToLoggingOff
<1>9. Follows(call[c], closed) /\ Follows(call[c], Goes(doing))
  BY <1>1, <1>2, <1>4
     DEF Follows, SameAccount, Pending, Late, Records, MoveToLoggingOff, Verdicts
<1> HIDE DEF closed, Goes
<1> QED
  BY <1>1, <1>3, <1>5, <1>6, <1>8, <1>9, MovesInMemory

----------------------------------------------------------------------------
(* The steps that give a call its account.                                 *)

\* The steps below change what a call is charged, or what it has to tell.
LEMMA MemoryKeeps ==
    ASSUME IInv, NEW c \in CallIds, NEW t \in Records, Becomes(c, t), InMemory,
           Sound(t, caller_log[c], stored), ~ Pending(t, "logon")
    PROVE  IInv'
<1>1. stored \in Accounts \cup {None} /\ failures \in Nat
  BY OfACall
<1>2. Grows(stored, stored)
  BY DEF Grows
<1>3. /\ stored' = stored /\ caller_log' = caller_log /\ clock' = clock /\ setbacks' = setbacks
      /\ plan' = plan /\ failures' = failures /\ call' = [call EXCEPT ![c] = t]
  BY DEF InMemory, Becomes
<1> QED
  BY <1>1, <1>2, <1>3, StepKeeps

LEMMA RecordIdentifiedUserKeeps ==
    ASSUME IInv, NEW c \in CallIds, RecordIdentifiedUser(c)
    PROVE  IInv'
<1> DEFINE t == [call[c] EXCEPT !.phase = "Authenticating", !.doing = "password",
                                !.retries = 0, !.user = stored, !.baseline = stored]
<1>1. /\ call[c] \in Records /\ Staged(call[c]) /\ Told(call[c], caller_log[c])
      /\ call[c].entry = None /\ call[c].doing = "name" /\ call[c].phase = "Identifying"
      /\ call[c].authenticated_at = Never /\ call[c].last_tick_at = Never
      /\ call[c].time_remaining = 0 /\ call[c].reason = None
  BY OfACall DEF RecordIdentifiedUser, Does, Staged, Fits, Sound, Active
<1>2. stored \in Accounts /\ stored # None
  BY OfACall DEF RecordIdentifiedUser
<1>3. t \in Records
  <2>1. "Authenticating" \in Phases /\ "password" \in Doings
    BY DEF Phases, Doings, Active
  <2> QED
    BY <1>1, <1>2, <2>1 DEF Records
<1>4. Staged(t)
  BY <1>1, <1>2 DEF Staged, Fits, Active, Records
<1>5. /\ t.user = stored /\ t.baseline = stored /\ t.entry = None /\ t.doing = "password"
      /\ t.phase = "Authenticating" /\ t.authenticated_at = Never
  BY <1>1 DEF Records
<1> HIDE DEF t
<1>6. ~ HasLine(caller_log[c], "logoff") /\ ~ HasLine(caller_log[c], "logon")
  BY <1>1 DEF Told
<1>7. Told(t, caller_log[c])
  BY <1>1, <1>5, <1>6 DEF Told, Pending
<1>8. Known(t, caller_log[c], stored)
  BY <1>2, <1>5, <1>6, UsageIs DEF Known, Pending, HasLine
<1>9. Timed(t)
  BY <1>5 DEF Timed
<1>10. Sound(t, caller_log[c], stored) /\ ~ Pending(t, "logon")
  BY <1>4, <1>5, <1>7, <1>8, <1>9 DEF Sound, Pending
<1> QED
  BY <1>3, <1>10, MemoryKeeps DEF RecordIdentifiedUser, t

\* A caller that is let in is refused with a line, or has the whole limit.
LetIn(s, t) ==
    /\ t \in Records /\ Same(s.user, t.user) /\ t.baseline = s.baseline
    /\ t.user.usage.time_used_today \in {0, s.user.usage.time_used_today}
    /\ t.authenticated_at = clock /\ t.last_tick_at = clock
    /\ \/ /\ t.phase = "Onboarded" /\ t.doing = "onboarded" /\ t.reason = None /\ t.entry = None
          /\ t.time_remaining = LimitOf(t)
       \/ /\ t.phase = "LoggingOff" /\ t.doing = "goodbye" /\ t.time_remaining = 0
          /\ t.reason \in {"LockedAccount", "NewUserRejected"} /\ t.entry.kind = "rejected"

LEMMA CountsDaily ==
    ASSUME NEW usage \in Usages, NEW daily
    PROVE  CountDaily(usage, daily).time_used_today \in {0, usage.time_used_today}
<1>1. CASE daily = "NewDay"
  BY <1>1 DEF CountDaily, Usages
<1>2. CASE daily = "SameDay"
  BY <1>2 DEF CountDaily, Usages
<1>3. CASE daily \notin {"NewDay", "SameDay"}
  BY <1>3 DEF CountDaily
<1> QED
  BY <1>1, <1>2, <1>3

LEMMA OnEnterOnboardedLetsIn ==
    ASSUME NEW s \in Records, s.user \in Accounts, s.entry = None, s.reason = None,
           s.time_remaining = 0, clock \in Int
    PROVE  LetIn(s, OnEnterOnboarded(s))
<1> DEFINE entering == [s EXCEPT !.phase = "Onboarded", !.doing = "onboarded",
                                 !.authenticated_at = clock, !.last_tick_at = clock]
           reason == IF s.user.account.account_locked THEN "LockedAccount" ELSE "NewUserRejected"
           refused == With(MoveToLoggingOff(entering, reason, "goodbye"), Line("rejected", None))
           daily == DailyBudgetOutcome(s.user.usage.last_call)
           begun == BeginDailyBudget(entering, daily)
<1>1. OnEnterOnboarded(s) = IF IsLockedOut(s.user) THEN refused ELSE begun
  BY DEF OnEnterOnboarded
<1>2. entering \in Records /\ entering.user = s.user
  <2>1. "Onboarded" \in Phases /\ "onboarded" \in Doings
    BY DEF Phases, Doings, Active
  <2> QED
    BY <2>1 DEF Records
<1>3. LetIn(s, refused)
  <2>1. reason \in {"LockedAccount", "NewUserRejected"}
    OBVIOUS
  <2>2. PICK line : line = Line("rejected", None)
    OBVIOUS
  <2>3. line \in Entries /\ line.kind = "rejected"
    BY <2>2 DEF Line, Entries
  <2> HIDE DEF reason
  <2>4. PICK moved : moved = MoveToLoggingOff(entering, reason, "goodbye")
    OBVIOUS
  <2>5. moved \in Records
    BY <1>2, <2>1, <2>4, LabelsAre, MovesToLoggingOff
  <2>6. /\ moved.user = s.user /\ moved.baseline = s.baseline /\ moved.phase = "LoggingOff"
        /\ moved.doing = "goodbye" /\ moved.reason = reason /\ moved.time_remaining = 0
        /\ moved.authenticated_at = clock /\ moved.last_tick_at = clock
    BY <2>4 DEF MoveToLoggingOff, Records
  <2>7. refused = [moved EXCEPT !.entry = line]
    BY <2>2, <2>4 DEF With
  <2>8. refused \in Records
    BY <2>3, <2>5, <2>7 DEF Records
  <2>9. Same(s.user, s.user)
    BY DEF Same, SameLimits, SameMemberships, SameCalls
  <2> QED
    BY <2>1, <2>3, <2>5, <2>6, <2>7, <2>8, <2>9 DEF LetIn, Records
<1>4. LetIn(s, begun)
  <2> DEFINE outcome == [kind |-> "Matched", daily |-> daily, force_password_reset |-> FALSE]
             user == ApplyAuthOutcome(outcome, s.user)
  <2>1. Same(s.user, user)
    <3>1. outcome.kind = "Matched" /\ outcome.force_password_reset \in BOOLEAN
      OBVIOUS
    <3> HIDE DEF outcome
    <3> QED
      BY <3>1, ApplyAuthOutcomeKeeps
  <2>2. user.usage = CountDaily(s.user.usage, daily)
    BY DEF ApplyAuthOutcome, Accounts
  <2>3. user.usage.time_used_today \in {0, s.user.usage.time_used_today}
    BY <2>2, CountsDaily, GroupsOf
  <2>4. begun = [entering EXCEPT !.user = user, !.last_tick_at = clock,
                                 !.time_remaining = user.usage.time_limit_per_call]
    BY <1>2 DEF BeginDailyBudget
  <2> HIDE DEF user
  <2>5. user \in Accounts /\ user.usage.time_limit_per_call \in Nat
    BY <2>1, UsageIs DEF Same
  <2>6. begun \in Records
    <3>1. user \in Accounts \cup {None}
      BY <2>5
    <3> HIDE DEF entering
    <3> QED
      BY <1>2, <2>4, <2>5, <3>1 DEF Records
  <2>7. /\ begun.user = user /\ begun.baseline = s.baseline /\ begun.phase = "Onboarded"
        /\ begun.doing = "onboarded" /\ begun.reason = None /\ begun.entry = None
        /\ begun.authenticated_at = clock /\ begun.last_tick_at = clock
        /\ begun.time_remaining = user.usage.time_limit_per_call
    BY <2>4 DEF Records
  <2> QED
    BY <2>1, <2>3, <2>6, <2>7 DEF LetIn, LimitOf
<1> QED
  BY <1>1, <1>3, <1>4

LEMMA LetInIsSound ==
    ASSUME NEW s \in Records, NEW e, NEW t \in Records, NEW log \in Seq(Entries),
           NEW account \in Accounts, LetIn(s, e), s.user \in Accounts, s.baseline \in Accounts,
           SameMemberships(account, s.user), SameMemberships(account, s.baseline),
           s.user.usage.times_called >= s.baseline.usage.times_called,
           account.usage.last_call >= s.user.usage.last_call,
           account.usage.last_call >= s.baseline.usage.last_call,
           ~ HasLine(log, "logon"), ~ HasLine(log, "logoff"),
           \/ t = Rebaselined(e) \/ t = Aborted(e)
           \/ /\ t = e
              /\ s.user.usage.time_used_today = 0 /\ s.baseline.usage.time_used_today = 0
    PROVE  Sound(t, log, account) /\ ~ Pending(t, "logon")
<1>1. /\ e \in Records /\ e.user \in Accounts /\ e.baseline = s.baseline /\ Same(s.user, e.user)
      /\ e.authenticated_at = clock /\ e.last_tick_at = clock
      /\ e.user.usage.time_used_today \in {0, s.user.usage.time_used_today}
  BY DEF LetIn, Same
<1>2. /\ t.user = e.user /\ t.baseline \in {s.baseline, e.user} /\ t.phase = e.phase
      /\ t.doing \in {e.doing, "gone"} /\ t.reason = e.reason
      /\ t.time_remaining = e.time_remaining
      /\ t.authenticated_at = clock /\ t.last_tick_at = clock
      /\ t.entry \in {e.entry, None}
  BY <1>1 DEF Rebaselined, Aborted, Records
<1>3. /\ t.phase = "Onboarded" /\ t.doing # "gone" =>
           t.user.usage.time_used_today = t.baseline.usage.time_used_today
  BY <1>1, <1>2 DEF Rebaselined, Aborted, Records
<1>4. /\ \/ /\ t.phase = "Onboarded" /\ t.doing \in {"onboarded", "gone"} /\ t.reason = None
            /\ t.entry = None /\ t.time_remaining = LimitOf(t)
         \/ /\ t.phase = "LoggingOff" /\ t.doing \in {"goodbye", "gone"} /\ t.time_remaining = 0
            /\ t.reason \in {"LockedAccount", "NewUserRejected"}
      /\ ~ Pending(t, "logon") /\ ~ Pending(t, "logoff")
  BY <1>2 DEF LetIn, Pending, LimitOf
<1>5. t.user \in Accounts /\ t.baseline \in Accounts /\ t.user # None /\ t.baseline # None
      /\ account # None
  BY <1>1, <1>2, NoneAssumption
<1>6. Staged(t)
  BY <1>4, <1>5 DEF Staged, Fits, Active
<1>7. Told(t, log)
  <2>1. \A i \in 1 .. Len(log) : log[i].kind # "logon"
    BY DEF HasLine
  <2> QED
    BY <1>4, <2>1 DEF Told
<1>8. Known(t, log, account)
  <2>1. /\ t.user.conferences.memberships = account.conferences.memberships
        /\ t.baseline.conferences.memberships = account.conferences.memberships
    BY <1>1, <1>2 DEF Same, SameMemberships
  <2>2. t.user.usage.times_called >= t.baseline.usage.times_called
    BY <1>1, <1>2, UsageIs DEF Same, SameCalls
  <2>3. /\ account.usage.last_call >= t.user.usage.last_call
        /\ account.usage.last_call >= t.baseline.usage.last_call
    BY <1>1, <1>2 DEF Same, SameCalls
  <2> QED
    BY <1>4, <1>5, <2>1, <2>2, <2>3 DEF Known, HasLine
<1>9. Charges(t, 0)
  <2>1. LimitOf(t) \in Nat
    BY <1>5, UsageIs DEF LimitOf
  <2>2. t.last_tick_at = t.authenticated_at + 0 * Minute
    BY <1>1, <1>2, MinuteAssumption DEF Records
  <2>3. None \notin {"LockedAccount", "NewUserRejected", "OutOfTime"}
    BY NoneAssumption DEF Reasons
  <2>4. SaturatingSub(LimitOf(t), 0) = LimitOf(t)
    BY <2>1 DEF SaturatingSub
  <2> QED
    BY <1>4, <2>2, <2>3, <2>4 DEF Charges
<1>10. Timed(t)
  BY <1>3, <1>5, <1>9 DEF Timed
<1> QED
  BY <1>4, <1>6, <1>7, <1>8, <1>10 DEF Sound

LEMMA ApplyPasswordMatchKeeps ==
    ASSUME IInv, NEW c \in CallIds, ApplyPasswordMatch(c)
    PROVE  IInv'
<1>1. /\ call[c] \in Records /\ Staged(call[c])
      /\ call[c].entry = None /\ call[c].doing = "password" /\ call[c].phase = "Authenticating"
      /\ call[c].authenticated_at = Never /\ call[c].user # None /\ call[c].reason = None
      /\ call[c].time_remaining = 0
  BY OfACall DEF ApplyPasswordMatch, Does, Staged, Fits, Active
<1>2. /\ call[c].user \in Accounts /\ call[c].baseline \in Accounts /\ stored \in Accounts
  BY <1>1, StoredIs
<1> DEFINE log == caller_log[c]
           user == [call[c].user EXCEPT !.account.invalid_attempts = 0]
           cleared == [call[c] EXCEPT !.user.account.invalid_attempts = 0]
           entered == OnEnterOnboarded(cleared)
           outcome == [kind |-> "Matched",
                       daily |-> IF entered.phase = "Onboarded"
                                   THEN DailyBudgetOutcome(cleared.user.usage.last_call)
                                   ELSE "none",
                       force_password_reset |-> entered.user.credentials.reset]
           account == ApplyAuthOutcome(outcome, stored)
<1>3. Written(c, account, entered) /\ WriteOnly
  BY DEF ApplyPasswordMatch
<1>4. /\ cleared \in Records /\ cleared.user = user /\ cleared.baseline = call[c].baseline
      /\ cleared.entry = None /\ cleared.reason = None /\ cleared.time_remaining = 0
      /\ Same(call[c].user, user) /\ user.usage = call[c].user.usage /\ user \in Accounts
  <2>1. Same(call[c].user, user) /\ user.usage = call[c].user.usage
    BY <1>2, AttemptsKept
  <2>2. user \in Accounts
    BY <2>1 DEF Same
  <2>3. cleared = [call[c] EXCEPT !.user = user]
    BY <1>1 DEF Records
  <2>4. user \in Accounts \cup {None}
    BY <2>2
  <2> HIDE DEF user, cleared
  <2> QED
    BY <1>1, <2>1, <2>2, <2>3, <2>4 DEF Records
<1> HIDE DEF cleared, user
<1>5. LetIn(cleared, entered)
  BY <1>4, OfACall, OnEnterOnboardedLetsIn
<1>6. Same(stored, account)
  <2>1. entered.user \in Accounts
    BY <1>5 DEF LetIn, Same
  <2>2. outcome.kind = "Matched" /\ outcome.force_password_reset \in BOOLEAN
    BY <2>1, GroupsOf DEF Secrets
  <2> HIDE DEF outcome
  <2> QED
    BY <1>2, <2>2, ApplyAuthOutcomeKeeps
<1>7. account \in Accounts /\ Grows(stored, account)
  BY <1>2, <1>6, SameGrows
<1> HIDE DEF entered, account
<1>8. ~ HasLine(log, "logon") /\ ~ HasLine(log, "logoff")
  BY <1>1, OfACall DEF Sound, Told
<1>9. /\ SameMemberships(stored, user) /\ SameMemberships(stored, cleared.baseline)
      /\ user.usage.times_called >= cleared.baseline.usage.times_called
      /\ stored.usage.last_call >= user.usage.last_call
      /\ stored.usage.last_call >= cleared.baseline.usage.last_call
  BY <1>1, <1>4, OfACall DEF Sound, Known, Same, SameMemberships
<1>10. ASSUME NEW t \in Records, t = Rebaselined(entered) \/ t = Aborted(entered)
       PROVE  Sound(t, log, stored) /\ ~ Pending(t, "logon")
  BY <1>2, <1>4, <1>5, <1>8, <1>9, <1>10, OfACall, LetInIsSound
<1>11. /\ caller_log' = caller_log /\ clock' = clock /\ setbacks' = setbacks /\ plan' = plan
       /\ failures' \in Nat
  BY <1>3, OfACall DEF WriteOnly, Written
<1>12. entered \in Records
  BY <1>5 DEF LetIn
<1>13. CASE stored' = account /\ Becomes(c, Rebaselined(entered))
  <2>1. PICK t : t = Rebaselined(entered)
    OBVIOUS
  <2>2. t \in Records
    BY <1>12, <2>1 DEF Rebaselined, Records
  <2>3. Sound(t, log, stored) /\ ~ Pending(t, "logon")
    BY <1>10, <2>1, <2>2
  <2>4. Sound(t, log, account)
    BY <1>2, <1>7, <2>2, <2>3, OfACall, KnownStays DEF Sound
  <2> QED
    BY <1>7, <1>11, <1>13, <2>1, <2>2, <2>3, <2>4, StepKeeps DEF Becomes
<1>14. CASE stored' = stored /\ Becomes(c, Aborted(entered))
  <2>1. PICK t : t = Aborted(entered)
    OBVIOUS
  <2>2. t \in Records
    BY <1>12, <2>1 DEF Aborted, Records, Doings
  <2>3. Sound(t, log, stored) /\ ~ Pending(t, "logon")
    BY <1>10, <2>1, <2>2
  <2>4. Grows(stored, stored) /\ stored \in Accounts \cup {None}
    BY <1>2 DEF Grows
  <2> QED
    BY <1>11, <1>14, <2>1, <2>2, <2>3, <2>4, StepKeeps DEF Becomes
<1> QED
  BY <1>3, <1>13, <1>14 DEF Written

LEMMA CompleteNewUserRegistrationKeeps ==
    ASSUME IInv, NEW c \in CallIds, CompleteNewUserRegistration(c)
    PROVE  IInv'
<1>1. /\ call[c] \in Records /\ Staged(call[c])
      /\ call[c].entry = None /\ call[c].doing = "profile"
      /\ call[c].phase = "NewUserRegistering" /\ call[c].authenticated_at = Never
      /\ call[c].user = None /\ call[c].reason = None /\ call[c].time_remaining = 0
  BY OfACall DEF CompleteNewUserRegistration, Does, Staged, Fits, Active
<1> DEFINE log == caller_log[c]
           user == RegisterNew(2, [handle |-> "new", hash |-> "hash",
                                   now |-> clock, flags |-> {}])
           bound == [call[c] EXCEPT !.user = user, !.baseline = user]
           entered == OnEnterOnboarded(bound)
           dropped == ApplyCarrierLoss(call[c])
<1>2. /\ caller_log' = caller_log /\ clock' = clock /\ setbacks' = setbacks /\ plan' = plan
      /\ failures' \in Nat
      /\ \/ stored = None /\ stored' = user /\ Becomes(c, entered)
         \/ stored' = stored /\ Becomes(c, dropped)
  BY OfACall DEF CompleteNewUserRegistration, WriteOnly
<1>3. user \in Accounts /\ user.usage.time_used_today = 0
  <2>1. user \in Accounts
    BY OfACall, RegisterNewIsAccount
  <2>2. user.usage.time_used_today = 0
    BY DEF RegisterNew, ForFreshRegistration, NoUsage
  <2> QED
    BY <2>1, <2>2
<1> HIDE DEF user
<1>4. CASE stored = None /\ stored' = user /\ Becomes(c, entered)
  <2>1. /\ bound \in Records /\ bound.user = user /\ bound.baseline = user
        /\ bound.entry = None /\ bound.reason = None /\ bound.time_remaining = 0
    <3>1. user \in Accounts \cup {None}
      BY <1>3
    <3> QED
      BY <1>1, <3>1 DEF Records
  <2> HIDE DEF bound
  <2>2. LetIn(bound, entered)
    BY <1>3, <2>1, OfACall, OnEnterOnboardedLetsIn
  <2> HIDE DEF entered
  <2>3. ~ HasLine(log, "logon") /\ ~ HasLine(log, "logoff")
    BY <1>1, OfACall DEF Sound, Told
  <2>4. entered \in Records
    BY <2>2 DEF LetIn
  <2>5. /\ SameMemberships(user, user) /\ user.usage.times_called >= user.usage.times_called
        /\ user.usage.last_call >= user.usage.last_call
    BY <1>3, UsageIs DEF SameMemberships
  <2>6. Sound(entered, log, user) /\ ~ Pending(entered, "logon")
    BY <1>3, <2>1, <2>2, <2>3, <2>4, <2>5, OfACall, LetInIsSound
  <2>7. Grows(stored, user) /\ user \in Accounts \cup {None}
    BY <1>3, <1>4 DEF Grows
  <2> QED
    BY <1>2, <1>4, <2>4, <2>6, <2>7, StepKeeps DEF Becomes
<1>5. CASE stored' = stored /\ Becomes(c, dropped)
  <2>1. dropped \in Records
    BY <1>1, LabelsAre, MovesToLoggingOff DEF ApplyCarrierLoss
  <2>2. Staged(dropped)
    BY <1>1 DEF Staged, Fits, Active, Records, MoveToLoggingOff, ApplyCarrierLoss
  <2>3. Follows(call[c], dropped)
    BY <1>1 DEF Follows, SameAccount, Pending, Late, Records, MoveToLoggingOff,
                ApplyCarrierLoss, Verdicts
  <2>4. Grows(stored, stored) /\ stored \in Accounts \cup {None}
    BY OfACall DEF Grows
  <2> HIDE DEF dropped
  <2> QED
    BY <1>1, <1>2, <1>5, <2>1, <2>2, <2>3, <2>4, FollowsKeeps
<1> QED
  BY <1>2, <1>4, <1>5

----------------------------------------------------------------------------
(* The menu entry, which counts the logon it writes.                       *)

LEMMA EnterMenuKeeps ==
    ASSUME IInv, NEW c \in CallIds, EnterMenu(c)
    PROVE  IInv'
<1> DEFINE s == call[c]
           log == caller_log[c]
           user == BumpTimesCalled(s.user)
           line == Line("logon", None)
           moved == [s EXCEPT !.user = BumpTimesCalled(@), !.phase = "Menu", !.doing = "menu"]
           entered == With(moved, line)
           account == ApplyUserPatch(PendingUserPatch(moved), stored)
<1>1. /\ s \in Records /\ Staged(s) /\ Told(s, log) /\ Known(s, log, stored) /\ Timed(s)
      /\ s.entry = None /\ s.doing = "entering" /\ s.phase = "Onboarded"
      /\ s.user # None /\ s.reason = None
  BY OfACall DEF EnterMenu, Does, Staged, Fits, Active, Sound
<1>2. s.user \in Accounts /\ s.baseline \in Accounts /\ stored \in Accounts
  BY <1>1, StoredIs
<1>3. Written(c, account, entered) /\ WriteOnly
  BY DEF EnterMenu
<1>4. /\ user \in Accounts /\ SameLimits(s.user, user) /\ SameMemberships(s.user, user)
      /\ user.usage = [s.user.usage EXCEPT !.times_called = @ + 1]
  BY <1>2, BumpTimesCalledKeeps
<1>5. line \in Entries /\ line.kind = "logon"
  BY OfACall DEF Line, Entries
<1>6. /\ entered \in Records /\ entered.user = user /\ entered.baseline = s.baseline
      /\ entered.phase = "Menu" /\ entered.doing = "menu" /\ entered.reason = None
      /\ entered.entry = line /\ entered.time_remaining = s.time_remaining
      /\ entered.authenticated_at = s.authenticated_at /\ entered.last_tick_at = s.last_tick_at
      /\ moved.user = user /\ moved.baseline = s.baseline
  <2>1. user \in Accounts \cup {None} /\ line \in Entries \cup {None}
    BY <1>4, <1>5
  <2>2. "Menu" \in Phases /\ "menu" \in Doings
    BY DEF Phases, Doings, Active
  <2>3. moved = [s EXCEPT !.user = user, !.phase = "Menu", !.doing = "menu"]
    BY <1>1 DEF Records
  <2>4. entered = [moved EXCEPT !.entry = line]
    BY DEF With
  <2> HIDE DEF user, line, entered, moved
  <2>5. /\ moved \in Records /\ moved.user = user /\ moved.baseline = s.baseline
        /\ moved.phase = "Menu" /\ moved.doing = "menu" /\ moved.reason = None
        /\ moved.time_remaining = s.time_remaining
        /\ moved.authenticated_at = s.authenticated_at /\ moved.last_tick_at = s.last_tick_at
    BY <1>1, <2>1, <2>2, <2>3 DEF Records
  <2> QED
    BY <2>1, <2>4, <2>5 DEF Records
<1> HIDE DEF user, line, entered, moved
<1>7. /\ user.usage.times_called = s.user.usage.times_called + 1
      /\ user.usage.last_call = s.user.usage.last_call
      /\ user.usage.time_used_today = s.user.usage.time_used_today
      /\ user.usage.time_limit_per_call = s.user.usage.time_limit_per_call
  BY <1>2, <1>4 DEF Accounts
<1>8. /\ account \in Accounts /\ SameMemberships(stored, account)
      /\ account.usage.times_called = stored.usage.times_called
           + SaturatingSub(user.usage.times_called, s.baseline.usage.times_called)
      /\ account.usage.last_call >= stored.usage.last_call
  <2>1. SameMemberships(stored, s.baseline) /\ SameMemberships(stored, user)
    BY <1>1, <1>4 DEF Known, SameMemberships
  <2>2. account = ApplyUserPatch(Between(s.baseline, user), stored)
    BY <1>6 DEF PendingUserPatch
  <2> HIDE DEF account
  <2> QED
    BY <1>2, <1>4, <2>1, <2>2, PatchKeeps
<1> HIDE DEF account
<1>9. account.usage.times_called >= stored.usage.times_called + 1
  <2>1. user.usage.times_called >= s.baseline.usage.times_called + 1
    <3>1. s.user.usage.times_called >= s.baseline.usage.times_called
      BY <1>1 DEF Known
    <3>2. s.user.usage.times_called \in Nat /\ s.baseline.usage.times_called \in Nat
      BY <1>2, UsageIs
    <3> QED
      BY <1>7, <3>1, <3>2
  <2> QED
    BY <1>2, <1>4, <1>8, <2>1, UsageIs DEF SaturatingSub
<1>10. Grows(stored, account)
  BY <1>2, <1>8, <1>9, UsageIs DEF Grows
<1>11. user # None /\ ~ HasLine(log, "logon") /\ ~ HasLine(log, "logoff")
  BY <1>1, <1>4, NoneAssumption DEF Told
<1>12. /\ caller_log' = caller_log /\ clock' = clock /\ setbacks' = setbacks /\ plan' = plan
       /\ failures' \in Nat
  BY <1>3, OfACall DEF WriteOnly, Written
\* What was charged on the way to the menu is nothing.
<1>13. ASSUME NEW t \in Records, t.user = user, t.phase = "Menu", t.reason = None,
              t.time_remaining = s.time_remaining, t.doing \in {"menu", "gone"},
              t.authenticated_at = s.authenticated_at, t.last_tick_at = s.last_tick_at,
              t.baseline \in {user, s.baseline}
       PROVE  Timed(t)
  <2>1. s.user.usage.time_used_today = s.baseline.usage.time_used_today
    BY <1>1 DEF Timed
  <2>2. 0 = t.user.usage.time_used_today - t.baseline.usage.time_used_today
    BY <1>2, <1>7, <1>13, <2>1, UsageIs
  <2>3. LimitOf(t) = LimitOf(s) /\ LimitOf(t) \in Nat
    BY <1>2, <1>7, <1>13, UsageIs DEF LimitOf
  <2>4. ASSUME NEW n \in Nat, Charges(s, n) PROVE Charges(t, 0)
    <3>1. n = 0
      BY <1>1, <2>4 DEF Charges
    <3>2. None \notin {"LockedAccount", "NewUserRejected", "OutOfTime"}
      BY NoneAssumption DEF Reasons
    <3> QED
      BY <1>1, <1>13, <2>2, <2>3, <2>4, <3>1, <3>2 DEF Charges
  <2> QED
    BY <1>1, <1>11, <1>13, <2>4 DEF Timed
<1>14. CASE stored' = account /\ Becomes(c, Rebaselined(entered))
  <2>1. PICK t : t = Rebaselined(entered)
    OBVIOUS
  <2>2. /\ t \in Records /\ t.user = user /\ t.baseline = user /\ t.phase = "Menu"
        /\ t.doing = "menu" /\ t.reason = None /\ t.entry = line
        /\ t.time_remaining = s.time_remaining
        /\ t.authenticated_at = s.authenticated_at /\ t.last_tick_at = s.last_tick_at
    BY <1>6, <2>1 DEF Rebaselined, Records
  <2>3. Staged(t)
    BY <1>11, <2>2 DEF Staged, Fits, Active
  <2>4. Told(t, log)
    <3>1. \A i \in 1 .. Len(log) : log[i].kind # "logon"
      BY <1>11 DEF HasLine
    <3> QED
      BY <1>5, <1>11, <2>2, <3>1 DEF Told, Pending
  <2>5. Known(t, log, account)
    <3>1. account # None /\ account.usage.last_call >= user.usage.last_call
      BY <1>1, <1>2, <1>4, <1>7, <1>8, UsageIs, NoneAssumption DEF Known
    <3>2. user.conferences.memberships = account.conferences.memberships
      BY <1>1, <1>4, <1>8 DEF SameMemberships, Known
    <3>3. user.usage.times_called \in Nat
      BY <1>4, UsageIs
    <3> QED
      BY <1>5, <1>11, <2>2, <3>1, <3>2, <3>3 DEF Known, Pending, HasLine
  <2>6. Timed(t)
    BY <1>13, <2>2
  <2>7. Sound(t, log, account)
    BY <2>3, <2>4, <2>5, <2>6 DEF Sound
  <2>8. account \in Accounts \cup {None}
    BY <1>8
  <2> QED
    BY <1>2, <1>8, <1>9, <1>10, <1>12, <1>14, <2>1, <2>2, <2>7, <2>8, StepKeeps DEF Becomes
<1>15. CASE stored' = stored /\ Becomes(c, Aborted(entered))
  <2>1. PICK t : t = Aborted(entered)
    OBVIOUS
  <2>2. /\ t \in Records /\ t.user = user /\ t.baseline = s.baseline /\ t.phase = "Menu"
        /\ t.doing = "gone" /\ t.reason = None /\ t.entry = None
        /\ t.time_remaining = s.time_remaining
        /\ t.authenticated_at = s.authenticated_at /\ t.last_tick_at = s.last_tick_at
    BY <1>6, <2>1 DEF Aborted, Records, Doings
  <2>3. Staged(t)
    BY <1>1, <1>11, <2>2 DEF Staged, Fits, Active
  <2>4. Told(t, log)
    <3>1. \A i \in 1 .. Len(log) : log[i].kind # "logon"
      BY <1>11 DEF HasLine
    <3> QED
      BY <1>11, <2>2, <3>1 DEF Told, Pending
  <2>5. Known(t, log, stored)
    <3>1. stored # None /\ s.baseline # None
      BY <1>2, NoneAssumption
    <3>2. /\ user.conferences.memberships = stored.conferences.memberships
          /\ s.baseline.conferences.memberships = stored.conferences.memberships
      BY <1>1, <1>4 DEF SameMemberships, Known
    <3>3. user.usage.times_called >= s.baseline.usage.times_called
      BY <1>1, <1>2, <1>7, UsageIs DEF Known
    <3> QED
      BY <1>11, <2>2, <3>1, <3>2, <3>3 DEF Known, Pending, HasLine
  <2>6. Timed(t)
    BY <1>13, <2>2
  <2>7. Sound(t, log, stored) /\ ~ Pending(t, "logon")
    BY <2>2, <2>3, <2>4, <2>5, <2>6 DEF Sound, Pending
  <2>8. Grows(stored, stored) /\ stored \in Accounts \cup {None}
    BY <1>2 DEF Grows
  <2> QED
    BY <1>12, <1>15, <2>1, <2>2, <2>7, <2>8, StepKeeps DEF Becomes
<1> QED
  BY <1>3, <1>14, <1>15 DEF Written

----------------------------------------------------------------------------
(* The minutes.                                                            *)

LEMMA MinutesAdd ==
    ASSUME NEW m \in Int, NEW n \in Int, NEW k \in Int
    PROVE  n * m + k * m = (n + k) * m
OBVIOUS

LEMMA WholeMinutes ==
    ASSUME NEW elapsed \in Nat
    PROVE  /\ elapsed \div Minute \in Nat /\ (elapsed \div Minute) * Minute \in Nat
           /\ (elapsed \div Minute) * Minute <= elapsed
           /\ elapsed < (elapsed \div Minute) * Minute + Minute
<1>1. Minute \in Nat /\ Minute > 0
  BY MinuteAssumption
<1> QED
  BY <1>1

LEMMA SaturatingSubAdds ==
    ASSUME NEW l \in Nat, NEW n \in Nat, NEW k \in Nat
    PROVE  /\ SaturatingSub(SaturatingSub(l, n), k) = SaturatingSub(l, n + k)
           /\ SaturatingSub(l, n) \in Nat
           /\ k > SaturatingSub(l, n) => n + k > l
           /\ ~ (k > SaturatingSub(l, n)) /\ n <= l => n + k <= l
BY DEF SaturatingSub

LEMMA AccrueTimeKeeps ==
    ASSUME IInv, NEW c \in CallIds, AccrueTime(c)
    PROVE  IInv'
<1> DEFINE s == call[c]
           log == caller_log[c]
           elapsed == SaturatingSub(clock, s.last_tick_at)
           k == elapsed \div Minute
           user == AddTimeUsedToday(s.user, k)
           accrued == AccrueElapsed(s)
           out == MoveToLoggingOff(accrued, "OutOfTime", "goodbye")
           on == [accrued EXCEPT !.doing = "prompt"]
<1>1. /\ s \in Records /\ Staged(s) /\ Told(s, log) /\ Known(s, log, stored) /\ Timed(s)
      /\ s.entry = None /\ s.doing = "menu" /\ s.phase = "Menu"
      /\ s.user # None /\ s.reason = None
  BY OfACall DEF AccrueTime, Does, Staged, Fits, Active, Sound
<1>2. s.user \in Accounts /\ s.baseline \in Accounts /\ stored \in Accounts
  BY <1>1, StoredIs
<1>3. elapsed \in Nat /\ k \in Nat
  <2>1. elapsed \in Nat
    BY <1>1, OfACall DEF SaturatingSub, Records
  <2> HIDE DEF elapsed
  <2> QED
    BY <2>1, WholeMinutes
<1>4. /\ user \in Accounts /\ Same(s.user, user)
      /\ user.usage.time_used_today = s.user.usage.time_used_today + k
  BY <1>2, <1>3, AddTimeUsedTodayKeeps DEF Same
<1>5. Exhausted(s) <=> k > s.time_remaining
  BY DEF Exhausted
<1>6. accrued = [s EXCEPT !.user = user, !.time_remaining = SaturatingSub(s.time_remaining, k),
                          !.last_tick_at = s.last_tick_at + k * Minute]
  BY <1>1 DEF AccrueElapsed, Records
<1>7. OverridesTimeLimit(accrued.user) = OverridesTimeLimit(s.user)
  BY <1>1, <1>4, <1>6 DEF Same, SameLimits, Records
<1>8. /\ InMemory
      /\ \/ Becomes(c, out) /\ k > s.time_remaining
         \/ Becomes(c, on) /\ (OverridesTimeLimit(s.user) \/ ~ (k > s.time_remaining))
  BY <1>5, <1>7 DEF AccrueTime
<1> HIDE DEF user, k, elapsed, accrued
<1>9. PICK tick \in Int : tick = s.last_tick_at + k * Minute
  BY <1>1, <1>3, MinuteAssumption DEF Records
<1>10. PICK left \in Nat : left = SaturatingSub(s.time_remaining, k)
  BY <1>1, <1>3 DEF SaturatingSub, Records
<1>11. accrued = [s EXCEPT !.user = user, !.time_remaining = left, !.last_tick_at = tick]
  BY <1>6, <1>9, <1>10
<1>12. accrued \in Records
  <2>1. user \in Accounts \cup {None}
    BY <1>4
  <2> QED
    BY <1>1, <1>11, <2>1 DEF Records
<1>13. out \in Records /\ on \in Records
  <2>1. "prompt" \in Doings
    BY DEF Doings
  <2> QED
    BY <1>12, <2>1, LabelsAre, MovesToLoggingOff, Relabelled
<1>14. PICK t \in Records :
         /\ Becomes(c, t) /\ t.user = user /\ t.baseline = s.baseline /\ t.entry = None
         /\ t.authenticated_at = s.authenticated_at /\ t.last_tick_at = tick
         /\ t.time_remaining = left
         /\ \/ /\ t.phase = "LoggingOff" /\ t.doing = "goodbye" /\ t.reason = "OutOfTime"
               /\ k > s.time_remaining
            \/ /\ t.phase = "Menu" /\ t.doing = "prompt" /\ t.reason = None
               /\ OverridesTimeLimit(s.user) \/ ~ (k > s.time_remaining)
  <2>1. /\ accrued.user = user /\ accrued.baseline = s.baseline /\ accrued.entry = None
        /\ accrued.authenticated_at = s.authenticated_at /\ accrued.last_tick_at = tick
        /\ accrued.time_remaining = left /\ accrued.phase = "Menu" /\ accrued.reason = None
    BY <1>1, <1>11 DEF Records
  <2>2. /\ out.user = user /\ out.baseline = s.baseline /\ out.entry = None
        /\ out.authenticated_at = s.authenticated_at /\ out.last_tick_at = tick
        /\ out.time_remaining = left /\ out.phase = "LoggingOff" /\ out.doing = "goodbye"
        /\ out.reason = "OutOfTime"
    BY <1>12, <2>1 DEF MoveToLoggingOff, Records
  <2>3. /\ on.user = user /\ on.baseline = s.baseline /\ on.entry = None
        /\ on.authenticated_at = s.authenticated_at /\ on.last_tick_at = tick
        /\ on.time_remaining = left /\ on.phase = "Menu" /\ on.doing = "prompt"
        /\ on.reason = None
    BY <1>12, <2>1 DEF Records
  <2> HIDE DEF out, on
  <2>4. CASE Becomes(c, out) /\ k > s.time_remaining
    BY <1>13, <2>2, <2>4
  <2>5. CASE Becomes(c, on) /\ (OverridesTimeLimit(s.user) \/ ~ (k > s.time_remaining))
    BY <1>13, <2>3, <2>5
  <2> QED
    BY <1>8, <2>4, <2>5
<1> HIDE DEF out, on
<1>15. user # None
  BY <1>4, NoneAssumption
<1>16. Staged(t)
  BY <1>14, <1>15 DEF Staged, Fits, Active
<1>17. Told(t, log)
  <2>1. ~ HasLine(log, "logoff")
    BY <1>1 DEF Told
  <2> QED
    BY <1>1, <1>14, <1>15, <2>1 DEF Told, Pending
<1>18. Known(t, log, stored)
  <2>1. ~ HasLine(log, "logoff")
    BY <1>1 DEF Told
  <2>2. /\ user.conferences.memberships = s.user.conferences.memberships
        /\ user.usage.times_called = s.user.usage.times_called
        /\ user.usage.last_call = s.user.usage.last_call
    BY <1>4 DEF Same, SameMemberships, SameCalls
  <2> QED
    BY <1>1, <1>14, <2>1, <2>2 DEF Known, Pending, HasLine
<1>19. ASSUME NEW n \in Nat, Charges(s, n) PROVE Charges(t, n + k)
  <2>1. LimitOf(t) = LimitOf(s) /\ LimitOf(s) \in Nat
    BY <1>2, <1>4, <1>14, UsageIs DEF LimitOf, Same, SameLimits
  <2>2. None \notin {"LockedAccount", "NewUserRejected", "OutOfTime"}
    BY NoneAssumption DEF Reasons
  <2>3. s.time_remaining = SaturatingSub(LimitOf(s), n)
    BY <1>1, <1>19, <2>2 DEF Charges
  <2>4. tick = t.authenticated_at + (n + k) * Minute
    <3>1. s.last_tick_at = s.authenticated_at + n * Minute
      BY <1>19 DEF Charges
    <3>2. n * Minute + k * Minute = (n + k) * Minute
      BY <1>3, MinutesAdd, MinuteAssumption
    <3>3. PICK a \in Int, b \in Int, d \in Int :
            a = n * Minute /\ b = k * Minute /\ d = (n + k) * Minute
      BY <1>3, MinuteAssumption
    <3>4. s.authenticated_at \in Int
      BY <1>1 DEF Records
    <3> QED
      BY <1>9, <1>14, <3>1, <3>2, <3>3, <3>4
  <2>5. /\ left = SaturatingSub(LimitOf(s), n + k)
        /\ k > s.time_remaining => n + k > LimitOf(s)
        /\ ~ (k > s.time_remaining) /\ n <= LimitOf(s) => n + k <= LimitOf(s)
    BY <1>3, <1>10, <2>1, <2>3, SaturatingSubAdds
  <2>6. t.time_remaining = (IF t.reason \in {"LockedAccount", "NewUserRejected"} THEN 0
                            ELSE SaturatingSub(LimitOf(t), n + k))
    BY <1>14, <2>1, <2>2, <2>5
  <2>7. t.phase = "Menu" =>
          n + k = t.user.usage.time_used_today - t.baseline.usage.time_used_today
    BY <1>1, <1>2, <1>3, <1>4, <1>14, <1>19, UsageIs DEF Charges
  <2>8. t.reason = "OutOfTime" => n + k > LimitOf(t)
    BY <1>14, <2>1, <2>2, <2>5
  <2>9. t.doing \in {"menu", "prompt"} /\ ~ OverridesTimeLimit(t.user) => n + k <= LimitOf(t)
    <3>1. OverridesTimeLimit(t.user) = OverridesTimeLimit(s.user)
      BY <1>4, <1>14 DEF Same, SameLimits
    <3> QED
      BY <1>1, <1>14, <1>19, <2>1, <2>5, <3>1 DEF Charges
  <2> QED
    BY <1>14, <2>4, <2>6, <2>7, <2>8, <2>9 DEF Charges
<1>20. Timed(t)
  <2>1. ASSUME t.authenticated_at # Never PROVE \E n \in Nat : Charges(t, n)
    <3>1. PICK n \in Nat : Charges(s, n)
      BY <1>1, <1>14, <2>1 DEF Timed
    <3>2. n + k \in Nat /\ Charges(t, n + k)
      BY <1>3, <1>19, <3>1
    <3> QED
      BY <3>2
  <2> QED
    BY <1>14, <1>15, <2>1 DEF Timed
<1>21. Sound(t, log, stored) /\ ~ Pending(t, "logon")
  BY <1>14, <1>16, <1>17, <1>18, <1>20 DEF Sound, Pending
<1> QED
  BY <1>8, <1>14, <1>21, MemoryKeeps

----------------------------------------------------------------------------
(* The last line.                                                          *)

LEMMA ChargesStay ==
    ASSUME NEW s, NEW t, s.user \in Accounts, t.user \in Accounts, SameLimits(s.user, t.user),
           t.phase = "Ended", t.doing = "gone", t.reason = s.reason,
           t.time_remaining = s.time_remaining, t.authenticated_at = s.authenticated_at,
           t.last_tick_at = s.last_tick_at, Timed(s)
    PROVE  Timed(t)
<1>1. LimitOf(t) = LimitOf(s)
  BY DEF SameLimits, LimitOf
<1>2. ASSUME NEW n \in Nat, Charges(s, n) PROVE Charges(t, n)
  BY <1>1, <1>2 DEF Charges
<1>3. t.user # None
  BY NoneAssumption
<1> QED
  BY <1>2, <1>3 DEF Timed

LEMMA FinaliseLogoffKeeps ==
    ASSUME IInv, NEW c \in CallIds, FinaliseLogoff(c)
    PROVE  IInv'
<1> DEFINE s == call[c]
           log == caller_log[c]
           line == Line("logoff", s.reason)
           ended == With([s EXCEPT !.phase = "Ended", !.doing = "gone"], line)
           user == RecordLastCall(s.user, clock)
           stamped == [ended EXCEPT !.user = RecordLastCall(@, clock)]
           account == ApplyUserPatch(PendingUserPatch(stamped), stored)
<1>1. /\ s \in Records /\ Staged(s) /\ Told(s, log) /\ Known(s, log, stored) /\ Timed(s)
      /\ s.entry = None /\ s.doing = "finalise" /\ s.phase = "LoggingOff"
  BY OfACall DEF FinaliseLogoff, Does, Sound
<1>2. /\ \/ s.user = None /\ Becomes(c, ended) /\ stored' = stored /\ failures' = failures
         \/ s.user # None /\ Written(c, account, stamped)
      /\ caller_log' = caller_log /\ clock' = clock /\ setbacks' = setbacks /\ plan' = plan
  BY DEF FinaliseLogoff, WriteOnly
<1>3. line \in Entries /\ line.kind = "logoff" /\ line.reason = s.reason /\ line.at = clock
  BY <1>1, OfACall DEF Line, Entries, Records
<1> HIDE DEF line
<1>4. /\ ended \in Records /\ ended.user = s.user /\ ended.baseline = s.baseline
      /\ ended.phase = "Ended" /\ ended.doing = "gone" /\ ended.reason = s.reason
      /\ ended.entry = line /\ ended.time_remaining = s.time_remaining
      /\ ended.authenticated_at = s.authenticated_at /\ ended.last_tick_at = s.last_tick_at
  <2>1. PICK moved : moved = [s EXCEPT !.phase = "Ended", !.doing = "gone"]
    OBVIOUS
  <2>2. ended = [moved EXCEPT !.entry = line]
    BY <2>1 DEF With
  <2>3. line \in Entries \cup {None}
    BY <1>3
  <2>4. "Ended" \in Phases /\ "gone" \in Doings
    BY DEF Phases, Doings
  <2> HIDE DEF ended
  <2>5. /\ moved \in Records /\ moved.user = s.user /\ moved.baseline = s.baseline
        /\ moved.phase = "Ended" /\ moved.doing = "gone" /\ moved.reason = s.reason
        /\ moved.time_remaining = s.time_remaining
        /\ moved.authenticated_at = s.authenticated_at /\ moved.last_tick_at = s.last_tick_at
    BY <1>1, <2>1, <2>4 DEF Records
  <2> QED
    BY <2>2, <2>3, <2>5 DEF Records
<1>5. \A i \in 1 .. Len(log) : log[i].kind # "logoff"
  BY <1>1 DEF Told, HasLine
\* A call that has ended and is to tell so, or not any more.
<1>6. ASSUME NEW t \in Records, t.phase = "Ended", t.doing = "gone", t.reason = s.reason,
              t.entry \in {line, None}, t.user = None <=> s.user = None,
              t.user = None => t.baseline = None,
              t.user = None => /\ t.authenticated_at = s.authenticated_at
                               /\ t.last_tick_at = s.last_tick_at
                               /\ t.time_remaining = s.time_remaining
       PROVE  Staged(t) /\ Told(t, log) /\ ~ Pending(t, "logon")
  <2>1. Staged(t)
    BY <1>1, <1>6 DEF Staged, Fits, Active
  <2>2. Told(t, log)
    BY <1>1, <1>3, <1>5, <1>6 DEF Told, Pending, HasLine
  <2>3. ~ Pending(t, "logon")
    BY <1>3, <1>6 DEF Pending
  <2> QED
    BY <2>1, <2>2, <2>3
<1> HIDE DEF ended
<1>7. CASE s.user = None /\ Becomes(c, ended) /\ stored' = stored /\ failures' = failures
  <2>1. Staged(ended) /\ Told(ended, log) /\ ~ Pending(ended, "logon")
    BY <1>1, <1>4, <1>6, <1>7 DEF Staged
  <2>2. Known(ended, log, stored) /\ Timed(ended)
    BY <1>1, <1>4, <1>7 DEF Known, Timed
  <2>3. InMemory /\ Sound(ended, log, stored)
    BY <1>2, <1>7, <2>1, <2>2 DEF InMemory, Sound
  <2> QED
    BY <1>4, <1>7, <2>1, <2>3, MemoryKeeps
<1>8. CASE s.user # None /\ Written(c, account, stamped)
  <2>1. s.user \in Accounts /\ s.baseline \in Accounts /\ stored \in Accounts
    BY <1>8, StoredIs
  <2>2. /\ user \in Accounts /\ SameLimits(s.user, user) /\ SameMemberships(s.user, user)
        /\ user.usage = [s.user.usage EXCEPT !.last_call = clock]
    BY <2>1, OfACall, RecordLastCallKeeps
  <2>3. stamped = [ended EXCEPT !.user = user]
    BY <1>4 DEF Records
  <2> HIDE DEF user, stamped
  <2>4. /\ stamped \in Records /\ stamped.user = user /\ stamped.baseline = s.baseline
        /\ stamped.phase = "Ended" /\ stamped.doing = "gone" /\ stamped.reason = s.reason
        /\ stamped.entry = line /\ stamped.time_remaining = s.time_remaining
        /\ stamped.authenticated_at = s.authenticated_at
        /\ stamped.last_tick_at = s.last_tick_at
    <3>1. user \in Accounts \cup {None}
      BY <2>2
    <3> QED
      BY <1>4, <2>3, <3>1 DEF Records
  <2>5. /\ user.usage.times_called = s.user.usage.times_called /\ user.usage.last_call = clock
        /\ clock \in Int
    BY <2>1, <2>2, OfACall DEF Accounts
  <2>6. /\ account \in Accounts /\ SameMemberships(stored, account)
        /\ account.usage.times_called = stored.usage.times_called
             + SaturatingSub(user.usage.times_called, s.baseline.usage.times_called)
        /\ account.usage.last_call >= stored.usage.last_call
        /\ \/ user.usage.last_call = s.baseline.usage.last_call
           \/ account.usage.last_call >= user.usage.last_call
    <3>1. SameMemberships(stored, s.baseline) /\ SameMemberships(stored, user)
      BY <1>1, <1>8, <2>2 DEF Known, SameMemberships
    <3>2. account = ApplyUserPatch(Between(s.baseline, user), stored)
      BY <2>4 DEF PendingUserPatch
    <3> HIDE DEF account
    <3> QED
      BY <2>1, <2>2, <3>1, <3>2, PatchKeeps
  <2> HIDE DEF account
  <2>7. account.usage.last_call >= clock
    <3>1. stored.usage.last_call >= s.baseline.usage.last_call
      BY <1>1, <1>8 DEF Known
    <3>2. /\ stored.usage.last_call \in Int /\ s.baseline.usage.last_call \in Int
          /\ account.usage.last_call \in Int
      BY <2>1, <2>6, UsageIs
    <3> QED
      BY <2>5, <2>6, <3>1, <3>2
  <2>8. Grows(stored, account)
    <3>1. SaturatingSub(user.usage.times_called, s.baseline.usage.times_called) \in Nat
      BY <2>1, <2>2, UsageIs DEF SaturatingSub
    <3>2. account.usage.times_called >= stored.usage.times_called
      BY <2>1, <2>6, <3>1, UsageIs
    <3> QED
      BY <2>1, <2>6, <3>2 DEF Grows
  <2>9. user # None /\ s.baseline # None /\ account # None /\ stored # None
    BY <2>1, <2>2, <2>6, NoneAssumption
  <2>10. failures' \in Nat
    BY <1>8, OfACall DEF Written
  <2>11. /\ user.conferences.memberships = stored.conferences.memberships
         /\ s.baseline.conferences.memberships = stored.conferences.memberships
         /\ account.conferences.memberships = stored.conferences.memberships
    BY <1>1, <1>8, <2>2, <2>6 DEF Known, SameMemberships
  <2>12. user.usage.times_called >= s.baseline.usage.times_called
    BY <1>1, <1>8, <2>5 DEF Known
  <2>13. CASE stored' = account /\ Becomes(c, Rebaselined(stamped))
    <3>1. PICK t : t = Rebaselined(stamped)
      OBVIOUS
    <3>2. /\ t \in Records /\ t.user = user /\ t.baseline = user /\ t.phase = "Ended"
          /\ t.doing = "gone" /\ t.reason = s.reason /\ t.entry = line
          /\ t.time_remaining = s.time_remaining
          /\ t.authenticated_at = s.authenticated_at /\ t.last_tick_at = s.last_tick_at
      BY <2>4, <3>1 DEF Rebaselined, Records
    <3>3. Staged(t) /\ Told(t, log) /\ ~ Pending(t, "logon")
      BY <1>6, <1>8, <2>9, <3>2
    <3>4. user.usage.times_called \in Nat
      BY <2>2, UsageIs
    <3>5. Known(t, log, account)
      BY <1>3, <1>5, <2>7, <2>9, <2>11, <3>2, <3>4 DEF Known, Pending
    <3>6. Timed(t)
      BY <1>1, <2>1, <2>2, <3>2, ChargesStay
    <3>7. Sound(t, log, account) /\ account \in Accounts \cup {None}
      BY <2>6, <3>3, <3>5, <3>6 DEF Sound
    <3> QED
      BY <1>2, <2>8, <2>10, <2>13, <3>1, <3>2, <3>3, <3>7, StepKeeps DEF Becomes
  <2>14. CASE stored' = stored /\ Becomes(c, Aborted(stamped))
    <3>1. PICK t : t = Aborted(stamped)
      OBVIOUS
    <3>2. /\ t \in Records /\ t.user = user /\ t.baseline = s.baseline /\ t.phase = "Ended"
          /\ t.doing = "gone" /\ t.reason = s.reason /\ t.entry = None
          /\ t.time_remaining = s.time_remaining
          /\ t.authenticated_at = s.authenticated_at /\ t.last_tick_at = s.last_tick_at
      BY <2>4, <3>1 DEF Aborted, Records
    <3>3. Staged(t) /\ Told(t, log) /\ ~ Pending(t, "logon")
      BY <1>6, <1>8, <2>9, <3>2
    <3>4. Known(t, log, stored)
      BY <1>5, <2>9, <2>11, <2>12, <3>2 DEF Known, Pending
    <3>5. Timed(t)
      BY <1>1, <2>1, <2>2, <3>2, ChargesStay
    <3>6. Sound(t, log, stored) /\ Grows(stored, stored) /\ stored \in Accounts \cup {None}
      BY <2>1, <3>3, <3>4, <3>5 DEF Sound, Grows
    <3> QED
      BY <1>2, <2>10, <2>14, <3>1, <3>2, <3>3, <3>6, StepKeeps DEF Becomes
  <2> QED
    BY <1>8, <2>13, <2>14 DEF Written
<1> QED
  BY <1>2, <1>7, <1>8

----------------------------------------------------------------------------
(* The line reaches the log.                                               *)

LEMMA LogGrows ==
    ASSUME NEW log \in Seq(Entries), NEW entry \in Entries
    PROVE  LET longer == Append(log, entry) IN
           /\ longer \in Seq(Entries) /\ Len(log) \in Nat /\ Len(longer) = Len(log) + 1
           /\ \A i \in 1 .. Len(log) : longer[i] = log[i]
           /\ longer[Len(log) + 1] = entry
           /\ \A kind : HasLine(longer, kind) <=> HasLine(log, kind) \/ entry.kind = kind
<1> DEFINE longer == Append(log, entry)
<1>1. /\ longer \in Seq(Entries) /\ Len(log) \in Nat /\ Len(longer) = Len(log) + 1
      /\ \A i \in 1 .. Len(log) : longer[i] = log[i]
      /\ longer[Len(log) + 1] = entry
  OBVIOUS
<1> HIDE DEF longer
<1>2. ASSUME NEW kind PROVE HasLine(longer, kind) <=> HasLine(log, kind) \/ entry.kind = kind
  <2>1. ASSUME NEW i \in 1 .. Len(longer), longer[i].kind = kind
        PROVE  HasLine(log, kind) \/ entry.kind = kind
    <3>1. CASE i \in 1 .. Len(log)
      BY <1>1, <2>1, <3>1 DEF HasLine
    <3>2. CASE i = Len(log) + 1
      BY <1>1, <2>1, <3>2
    <3> QED
      BY <1>1, <3>1, <3>2
  <2>2. ASSUME NEW i \in 1 .. Len(log), log[i].kind = kind PROVE HasLine(longer, kind)
    <3>1. i \in 1 .. Len(longer) /\ longer[i].kind = kind
      BY <1>1, <2>2
    <3> QED
      BY <3>1 DEF HasLine
  <2>3. ASSUME entry.kind = kind PROVE HasLine(longer, kind)
    <3>1. Len(log) + 1 \in 1 .. Len(longer) /\ longer[Len(log) + 1].kind = kind
      BY <1>1, <2>3
    <3> QED
      BY <3>1 DEF HasLine
  <2> QED
    BY <2>1, <2>2, <2>3 DEF HasLine
<1> QED
  BY <1>1, <1>2 DEF longer

LEMMA AppendedIsSound ==
    ASSUME NEW s \in Records, NEW log \in Seq(Entries), NEW account \in Accounts \cup {None},
           s.entry \in Entries, s.entry # None, Sound(s, log, account)
    PROVE  Sound([s EXCEPT !.entry = None], Append(log, s.entry), account)
<1> DEFINE longer == Append(log, s.entry)
           t == [s EXCEPT !.entry = None]
<1>1. Staged(s) /\ Told(s, log) /\ Known(s, log, account) /\ Timed(s)
  BY DEF Sound
<1>2. /\ Len(log) \in Nat /\ Len(longer) = Len(log) + 1
      /\ \A i \in 1 .. Len(log) : longer[i] = log[i]
      /\ longer[Len(log) + 1] = s.entry
      /\ \A kind : HasLine(longer, kind) <=> HasLine(log, kind) \/ s.entry.kind = kind
  BY LogGrows
<1> HIDE DEF longer
<1>3. /\ t.phase = s.phase /\ t.doing = s.doing /\ t.reason = s.reason /\ t.user = s.user
      /\ t.baseline = s.baseline /\ t.authenticated_at = s.authenticated_at
      /\ t.last_tick_at = s.last_tick_at /\ t.time_remaining = s.time_remaining
      /\ t.entry = None
  BY DEF Records
<1> HIDE DEF t
<1>4. Staged(t)
  BY <1>1, <1>3 DEF Staged
<1>5. ~ HasLine(log, "logoff")
  BY <1>1 DEF Told
<1>6. Told(t, longer)
  <2>1. HasLine(longer, "logoff") => t.doing = "gone" /\ t.entry = None
    BY <1>1, <1>2, <1>3, <1>5 DEF Told, Pending
  <2>2. HasLine(longer, "logon") => t.user # None /\ t.phase \in {"Menu", "LoggingOff", "Ended"}
    BY <1>1, <1>2, <1>3 DEF Told, Pending
  <2>3. ASSUME NEW i \in 1 .. Len(longer), NEW j \in 1 .. Len(longer),
               longer[i].kind = "logon", longer[j].kind = "logon"
        PROVE  i = j
    <3>1. CASE s.entry.kind = "logon"
      <4>1. \A m \in 1 .. Len(log) : log[m].kind # "logon"
        BY <1>1, <3>1 DEF Told, Pending, HasLine
      <4> QED
        BY <1>2, <2>3, <4>1
    <3>2. CASE s.entry.kind # "logon"
      <4>1. i \in 1 .. Len(log) /\ j \in 1 .. Len(log)
        BY <1>2, <2>3, <3>2
      <4> QED
        BY <1>1, <1>2, <2>3, <4>1 DEF Told
    <3> QED
      BY <3>1, <3>2
  <2> QED
    BY <1>3, <2>1, <2>2, <2>3 DEF Told, Pending
<1>7. Known(t, longer, account)
  <2>1. ASSUME s.user # None, NEW i \in 1 .. Len(longer), longer[i].kind = "logoff"
        PROVE  account.usage.last_call >= longer[i].at
    <3>1. i = Len(log) + 1
      <4>1. i \notin 1 .. Len(log)
        BY <1>2, <1>5, <2>1 DEF HasLine
      <4> QED
        BY <1>2, <2>1, <4>1
    <3> QED
      BY <1>1, <1>2, <2>1, <3>1 DEF Known, Pending
  <2> QED
    BY <1>1, <1>3, <2>1 DEF Known, Pending
<1>8. Timed(t)
  <2>1. ASSUME NEW n \in Nat, Charges(s, n) PROVE Charges(t, n)
    BY <1>3, <2>1 DEF Charges, LimitOf
  <2> QED
    BY <1>1, <1>3, <2>1 DEF Timed
<1> QED
  BY <1>4, <1>6, <1>7, <1>8 DEF Sound, t, longer

LEMMA AppendLineKeeps ==
    ASSUME IInv, NEW c \in CallIds, AppendLine(c)
    PROVE  IInv'
<1>1. /\ call[c] \in Records /\ caller_log[c] \in Seq(Entries)
      /\ stored \in Accounts \cup {None} /\ Sound(call[c], caller_log[c], stored)
      /\ call[c].entry # None
  BY OfACall DEF AppendLine
<1> DEFINE s == call[c]
           log == caller_log[c]
           longer == Append(log, s.entry)
           t == [s EXCEPT !.entry = None]
<1>2. s.entry \in Entries
  BY <1>1 DEF Records
<1>3. TypeOK /\ CountedOf(stored) /\ \A d \in CallIds : Sound(call[d], caller_log[d], stored)
  BY DEF IInv
<1>4. /\ call \in [CallIds -> Records] /\ caller_log \in [CallIds -> Seq(Entries)]
  BY <1>3 DEF TypeOK
<1>5. /\ call' = [call EXCEPT ![c] = t] /\ caller_log' = [caller_log EXCEPT ![c] = longer]
      /\ stored' = stored /\ clock' = clock /\ setbacks' = setbacks /\ failures' = failures
      /\ plan' = plan
  BY <1>4 DEF AppendLine
<1>6. longer \in Seq(Entries) /\ \A kind : HasLine(longer, kind) <=> HasLine(log, kind)
                                                                     \/ s.entry.kind = kind
  BY <1>1, <1>2, LogGrows
<1>7. t \in Records /\ t.entry = None
  BY <1>1 DEF Records
<1>8. Sound(t, longer, stored)
  BY <1>1, <1>2, AppendedIsSound
<1> HIDE DEF t, longer
<1>9. /\ call'[c] = t /\ caller_log'[c] = longer
      /\ \A d \in CallIds : d # c => call'[d] = call[d] /\ caller_log'[d] = caller_log[d]
  BY <1>4, <1>5
<1>10. TypeOK'
  BY <1>3, <1>4, <1>5, <1>6, <1>7 DEF TypeOK
<1>11. \A d \in CallIds : Sound(call[d]', caller_log[d]', stored')
  BY <1>3, <1>5, <1>8, <1>9
<1>12. CountedOf(stored)'
  <2>1. Counted' = Counted
    <3>1. \A d \in CallIds : d # c => (d \in Counted' <=> d \in Counted)
      BY <1>9 DEF Counted
    <3>2. c \in Counted' <=> c \in Counted
      BY <1>1, <1>6, <1>7, <1>9 DEF Counted, Pending
    <3>3. Counted' \subseteq CallIds /\ Counted \subseteq CallIds
      BY DEF Counted
    <3> QED
      BY <3>1, <3>2, <3>3
  <2> QED
    BY <1>3, <1>5, <2>1 DEF CountedOf
<1> QED
  BY <1>10, <1>11, <1>12 DEF IInv

----------------------------------------------------------------------------
(* The invariant holds.                                                    *)

Acts(c) ==
    \/ AcceptConnection(c) \/ PromptForName(c) \/ RecordIdentifiedUser(c)
    \/ RecordUnknownName(c) \/ NameLookupFails(c) \/ RecordNewUserRequest(c)
    \/ ApplyPasswordMatch(c) \/ ApplyPasswordMismatch(c)
    \/ NewUserPasswordAttempt(c) \/ CompleteNewUserRegistration(c)
    \/ CompletePasswordReset(c) \/ RefusePasswordReset(c)
    \/ Command(c) \/ UserRequestsLogoff(c) \/ ConnectionLost(c) \/ IdleTimedOut(c)
    \/ GoodbyeWritten(c) \/ OwnStep(c)

LEMMA NextIs == CallNext <=> Passes \/ SetBack \/ \E c \in CallIds : Acts(c)
BY DEF CallNext, Acts

LEMMA InitialCalls == CallInit => IInv
<1> SUFFICES ASSUME CallInit PROVE IInv
  OBVIOUS
<1>1. Unused \in Records
  BY UnusedIsRecord
<1>2. /\ call = [c \in CallIds |-> Unused] /\ caller_log = [c \in CallIds |-> << >>]
      /\ stored = plan.account /\ plan \in CallWorkloads /\ clock = plan.from
      /\ setbacks = 0 /\ failures = 0
  BY DEF CallInit
<1>3. TypeOK
  <2>1. stored \in Accounts \cup {None} /\ clock \in Int
    BY <1>2, WorkloadsAssumption
  <2>2. << >> \in Seq(Entries)
    OBVIOUS
  <2> QED
    BY <1>1, <1>2, <2>1, <2>2 DEF TypeOK
<1>4. \A kind : ~ HasLine(<< >>, kind)
  BY DEF HasLine
<1>5. /\ Unused.entry = None /\ Unused.phase = "None" /\ Unused.doing = "nothing"
      /\ Unused.user = None /\ Unused.reason = None /\ Unused.authenticated_at = Never
      /\ Unused.last_tick_at = Never /\ Unused.time_remaining = 0 /\ Unused.baseline = None
  BY DEF Unused
<1>6. Sound(Unused, << >>, stored)
  <2>1. Staged(Unused)
    BY <1>5 DEF Staged, Fits
  <2>2. Told(Unused, << >>)
    BY <1>4, <1>5 DEF Told, Pending
  <2>3. Known(Unused, << >>, stored) /\ Timed(Unused)
    BY <1>5 DEF Known, Timed
  <2> QED
    BY <2>1, <2>2, <2>3 DEF Sound
<1>7. Counted = {}
  BY <1>2, <1>4, <1>5 DEF Counted, Pending
<1>8. CountedOf(stored)
  <2>1. stored # None => stored \in Accounts
    BY <1>3 DEF TypeOK
  <2>2. stored # None => stored.usage.times_called \in Nat
    BY <2>1, UsageIs
  <2> QED
    BY <1>7, <2>2, FS_EmptySet DEF CountedOf
<1> QED
  BY <1>2, <1>3, <1>6, <1>8 DEF IInv

LEMMA ClockKeeps ==
    ASSUME IInv, UNCHANGED <<stored, call, caller_log, failures, plan>>,
           clock' \in Int, setbacks' \in Nat
    PROVE  IInv'
<1>1. Counted' = Counted
  BY DEF Counted
<1> QED
  BY <1>1 DEF IInv, TypeOK, CountedOf

LEMMA ActsKeeps ==
    ASSUME IInv, NEW c \in CallIds, Acts(c)
    PROVE  IInv'
<1>1. CASE \/ AcceptConnection(c) \/ PromptForName(c) \/ RecordIdentifiedUser(c)
           \/ RecordUnknownName(c) \/ NameLookupFails(c) \/ RecordNewUserRequest(c)
  BY <1>1, AcceptConnectionKeeps, PromptForNameKeeps, RecordIdentifiedUserKeeps,
     RecordUnknownNameKeeps, NameLookupFailsKeeps, RecordNewUserRequestKeeps
<1>2. CASE \/ ApplyPasswordMatch(c) \/ ApplyPasswordMismatch(c)
           \/ NewUserPasswordAttempt(c) \/ CompleteNewUserRegistration(c)
           \/ CompletePasswordReset(c) \/ RefusePasswordReset(c)
  BY <1>2, ApplyPasswordMatchKeeps, ApplyPasswordMismatchKeeps, NewUserPasswordAttemptKeeps,
     CompleteNewUserRegistrationKeeps, CompletePasswordResetKeeps, RefusePasswordResetKeeps
<1>3. CASE \/ Command(c) \/ UserRequestsLogoff(c) \/ ConnectionLost(c) \/ IdleTimedOut(c)
  BY <1>3, CommandKeeps, UserRequestsLogoffKeeps, ConnectionLostKeeps, IdleTimedOutKeeps
<1>4. CASE GoodbyeWritten(c) \/ OwnStep(c)
  BY <1>4, AppendLineKeeps, AutoRejoinConferenceKeeps, EnterMenuKeeps, AccrueTimeKeeps,
     GoodbyeWrittenKeeps, FinaliseLogoffKeeps DEF OwnStep
<1> QED
  BY <1>1, <1>2, <1>3, <1>4 DEF Acts

LEMMA NextKeeps == IInv /\ [CallNext]_callvars => IInv'
<1> SUFFICES ASSUME IInv, [CallNext]_callvars PROVE IInv'
  OBVIOUS
<1>1. clock \in Int /\ setbacks \in Nat /\ Minute \in Nat
  BY MinuteAssumption DEF IInv, TypeOK
<1>2. CASE Passes
  BY <1>1, <1>2, ClockKeeps DEF Passes
<1>3. CASE SetBack
  BY <1>1, <1>3, ClockKeeps DEF SetBack
<1>4. CASE \E c \in CallIds : Acts(c)
  BY <1>4, ActsKeeps
<1>5. CASE UNCHANGED callvars
  BY <1>1, <1>5, ClockKeeps DEF callvars
<1> QED
  BY <1>2, <1>3, <1>4, <1>5, NextIs

\* In every state of every run a call is in step with its line, its account
\* and its minutes, and the account has counted every logon that is written
\* or about to be.
THEOREM Invariance == CallSpec => []IInv
BY InitialCalls, NextKeeps, PTL DEF CallSpec

----------------------------------------------------------------------------
(* What was counted, told and charged.                                     *)

LEMMA CountedEnough == IInv => CountedBeforeLogged
<1> SUFFICES ASSUME IInv, NEW c \in CallIds, caller_log[c] # << >>, call[c].user # None
             PROVE  /\ stored.usage.times_called >= Cardinality({d \in CallIds : LoggedOn(d)})
                    /\ \A i, j \in DOMAIN caller_log[c] :
                         caller_log[c][i].kind = "logon" /\ caller_log[c][j].kind = "logon"
                           => i = j
                    /\ \A i \in DOMAIN caller_log[c] :
                         caller_log[c][i].kind = "logoff" =>
                           stored.usage.last_call >= caller_log[c][i].at
  BY DEF CountedBeforeLogged
<1>1. \A d \in CallIds : DOMAIN caller_log[d] = 1 .. Len(caller_log[d])
  BY OfACall
<1>2. /\ Told(call[c], caller_log[c]) /\ Known(call[c], caller_log[c], stored)
      /\ CountedOf(stored)
  BY DEF IInv, Sound
<1>3. stored \in Accounts /\ stored # None
  BY StoredIs, NoneAssumption
<1>4. stored.usage.times_called >= Cardinality({d \in CallIds : LoggedOn(d)})
  <2> DEFINE told == {d \in CallIds : LoggedOn(d)}
  <2>1. told \subseteq Counted
    BY <1>1 DEF LoggedOn, Counted, HasLine
  <2>2. stored.usage.times_called \in Nat
    BY <1>3, UsageIs
  <2>3. IsFiniteSet(told) /\ Cardinality(told) <= stored.usage.times_called
    BY <1>2, <1>3, <2>1, <2>2, CountGrows DEF CountedOf
  <2>4. Cardinality(told) \in Nat
    BY <2>3, FS_CardinalityType
  <2> QED
    BY <2>2, <2>3, <2>4
<1> QED
  BY <1>1, <1>2, <1>4 DEF Told, Known

\* Whoever reads in the log that a call logged on finds it counted in the
\* account, and whoever reads that it ended finds a last call at least as
\* late, although the account is written before the line and a write may fail.
THEOREM LogonsAreCounted == CallSpec => []CountedBeforeLogged
BY Invariance, CountedEnough, PTL

\* An act touches one call, and only AppendLine the log.
LEMMA OneCallActs ==
    ASSUME IInv, NEW c \in CallIds, Acts(c)
    PROVE  /\ \E t : call' = [call EXCEPT ![c] = t]
           /\ caller_log' = caller_log \/ AppendLine(c)
           /\ clock' = clock
<1>1. ASSUME NEW account, NEW s, Written(c, account, s), WriteOnly
      PROVE  /\ \E t : call' = [call EXCEPT ![c] = t]
             /\ caller_log' = caller_log /\ clock' = clock
  BY <1>1 DEF Written, WriteOnly, Becomes
<1>2. ASSUME NEW s, Becomes(c, s), InMemory
      PROVE  /\ \E t : call' = [call EXCEPT ![c] = t]
             /\ caller_log' = caller_log /\ clock' = clock
  BY <1>2 DEF InMemory, Becomes
<1>3. CASE \/ AcceptConnection(c) \/ PromptForName(c) \/ RecordIdentifiedUser(c)
           \/ RecordUnknownName(c) \/ RecordNewUserRequest(c)
  BY <1>2, <1>3, Zenon
     DEF AcceptConnection, PromptForName, RecordIdentifiedUser, RecordUnknownName,
         RecordNewUserRequest
<1>4. CASE \/ Command(c) \/ UserRequestsLogoff(c) \/ ConnectionLost(c) \/ IdleTimedOut(c)
           \/ RefusePasswordReset(c)
  BY <1>2, <1>4, Zenon
     DEF Command, UserRequestsLogoff, ConnectionLost, IdleTimedOut, RefusePasswordReset
<1>5. CASE \/ AutoRejoinConference(c) \/ AccrueTime(c) \/ GoodbyeWritten(c)
           \/ NewUserPasswordAttempt(c)
  BY <1>2, <1>5, Zenon
     DEF AutoRejoinConference, AccrueTime, GoodbyeWritten, NewUserPasswordAttempt
<1>6. CASE ApplyPasswordMatch(c) \/ ApplyPasswordMismatch(c)
  BY <1>1, <1>6, Zenon DEF ApplyPasswordMatch, ApplyPasswordMismatch
<1>7. CASE CompletePasswordReset(c) \/ EnterMenu(c)
  BY <1>1, <1>7, Zenon DEF CompletePasswordReset, EnterMenu
<1>8. CASE NameLookupFails(c) \/ CompleteNewUserRegistration(c)
  BY <1>8 DEF NameLookupFails, CompleteNewUserRegistration, WriteOnly, Becomes
<1>9. CASE FinaliseLogoff(c)
  BY <1>1, <1>9 DEF FinaliseLogoff, WriteOnly, Becomes
<1>10. CASE AppendLine(c)
  BY <1>10 DEF AppendLine
<1> QED
  BY <1>3, <1>4, <1>5, <1>6, <1>7, <1>8, <1>9, <1>10 DEF Acts, OwnStep

\* A call that has a reason is logging off or has ended.
LEMMA ReasonsComeLast ==
    ASSUME IInv, NEW c \in CallIds, call[c].reason # None
    PROVE  call[c].phase \in {"LoggingOff", "Ended"}
BY OfACall DEF Staged, Records, Phases

LEMMA ReasonKept ==
    ASSUME IInv, NEW c \in CallIds, Acts(c), call[c].reason # None
    PROVE  call'[c].reason = call[c].reason
<1>1. /\ call \in [CallIds -> Records] /\ call[c] \in Records /\ Staged(call[c])
      /\ call[c].phase \in {"LoggingOff", "Ended"}
  BY OfACall, ReasonsComeLast DEF IInv, TypeOK
<1>2. /\ call[c].doing \in {"goodbye", "finalise", "gone"}
      /\ call[c].phase # "None"
  BY <1>1 DEF Staged, Fits, Records, Doings
<1>3. /\ ~ Does(c, "greeting") /\ ~ Does(c, "name") /\ ~ Does(c, "password")
      /\ ~ Does(c, "gate") /\ ~ Does(c, "profile") /\ ~ Does(c, "onboarded")
      /\ ~ Does(c, "reset") /\ ~ Does(c, "entering") /\ ~ Does(c, "menu")
      /\ ~ Does(c, "prompt")
  BY <1>2 DEF Does
<1>4. /\ ~ AcceptConnection(c) /\ ~ PromptForName(c) /\ ~ RecordIdentifiedUser(c)
      /\ ~ RecordUnknownName(c) /\ ~ NameLookupFails(c) /\ ~ RecordNewUserRequest(c)
  BY <1>2, <1>3, Zenon
     DEF AcceptConnection, PromptForName, RecordIdentifiedUser, RecordUnknownName,
         NameLookupFails, RecordNewUserRequest
<1>5. /\ ~ ApplyPasswordMatch(c) /\ ~ ApplyPasswordMismatch(c)
      /\ ~ NewUserPasswordAttempt(c) /\ ~ CompleteNewUserRegistration(c)
      /\ ~ CompletePasswordReset(c) /\ ~ RefusePasswordReset(c) /\ ~ Command(c)
      /\ ~ UserRequestsLogoff(c) /\ ~ AutoRejoinConference(c)
      /\ ~ EnterMenu(c) /\ ~ AccrueTime(c)
  BY <1>3, Zenon
     DEF ApplyPasswordMatch, ApplyPasswordMismatch, NewUserPasswordAttempt,
         CompleteNewUserRegistration, CompletePasswordReset, RefusePasswordReset, Command,
         UserRequestsLogoff, AutoRejoinConference, EnterMenu, AccrueTime
<1>6. ~ IdleTimedOut(c)
  BY <1>3 DEF IdleTimedOut
<1>7. CASE AppendLine(c) \/ GoodbyeWritten(c)
  BY <1>1, <1>7 DEF AppendLine, GoodbyeWritten, Becomes, Records
<1>8. CASE ConnectionLost(c)
  BY <1>1, <1>8 DEF ConnectionLost, IntoLoggingOff, Active, Becomes, Records
<1>9. CASE FinaliseLogoff(c)
  <2> DEFINE ended == With([call[c] EXCEPT !.phase = "Ended", !.doing = "gone"],
                           Line("logoff", call[c].reason))
             stamped == [ended EXCEPT !.user = RecordLastCall(@, clock)]
  <2>1. ended.reason = call[c].reason /\ stamped.reason = call[c].reason
    BY <1>1 DEF With, Records
  <2>2. /\ Rebaselined(stamped).reason = call[c].reason
        /\ Aborted(stamped).reason = call[c].reason
    BY <1>1, <2>1 DEF Rebaselined, Aborted, With, Records
  <2>3. \/ Becomes(c, ended) \/ Becomes(c, Rebaselined(stamped)) \/ Becomes(c, Aborted(stamped))
    BY <1>9, Zenon DEF FinaliseLogoff, Written
  <2> HIDE DEF ended, stamped
  <2> QED
    BY <1>1, <2>1, <2>2, <2>3 DEF Becomes
<1> QED
  BY <1>4, <1>5, <1>7, <1>8, <1>9, <1>6 DEF Acts, OwnStep

LEMMA LineIsLast ==
    ASSUME IInv, NEW c \in CallIds, AppendLine(c)
    PROVE  /\ \A i \in DOMAIN caller_log[c] : caller_log[c][i].kind # "logoff"
           /\ Last(caller_log'[c]).kind = "logoff" =>
                call[c].phase = "Ended" /\ Last(caller_log'[c]).reason = call[c].reason
<1>1. /\ call[c] \in Records /\ caller_log[c] \in Seq(Entries)
      /\ Told(call[c], caller_log[c]) /\ caller_log \in [CallIds -> Seq(Entries)]
  BY OfACall DEF Sound, IInv, TypeOK
<1> DEFINE log == caller_log[c]
           longer == Append(log, call[c].entry)
<1>2. call[c].entry # None /\ caller_log'[c] = longer
  BY <1>1 DEF AppendLine
<1>3. call[c].entry \in Entries
  BY <1>1, <1>2 DEF Records
<1>4. /\ Len(log) \in Nat /\ Len(longer) = Len(log) + 1
      /\ longer[Len(log) + 1] = call[c].entry
  BY <1>1, <1>3, LogGrows
<1>5. Last(longer) = call[c].entry
  BY <1>4 DEF Last
<1>6. \A i \in DOMAIN log : log[i].kind # "logoff"
  BY <1>1, <1>2 DEF Told, HasLine
<1> QED
  BY <1>1, <1>2, <1>5, <1>6 DEF Told, Pending

\* Whatever happens to the connection while it is said, a goodbye is written
\* after everything else, once, and with the reason the call ended for.
THEOREM GoodbyeToldOnce == CallSpec => EndToldOnce
<1> DEFINE Tells == \A c \in CallIds :
             /\ call[c].reason # None => call'[c].reason = call[c].reason
             /\ caller_log'[c] # caller_log[c] =>
                  /\ \A i \in DOMAIN caller_log[c] : caller_log[c][i].kind # "logoff"
                  /\ Last(caller_log'[c]).kind = "logoff" =>
                       call[c].phase = "Ended" /\ Last(caller_log'[c]).reason = call[c].reason
<1>1. IInv /\ [CallNext]_callvars => [Tells]_callvars
  <2> SUFFICES ASSUME IInv, CallNext PROVE Tells
    BY DEF callvars
  <2>1. CASE Passes \/ SetBack
    BY <2>1 DEF Passes, SetBack
  <2>2. ASSUME NEW d \in CallIds, Acts(d) PROVE Tells
    <3> SUFFICES ASSUME NEW c \in CallIds
                 PROVE  /\ call[c].reason # None => call'[c].reason = call[c].reason
                        /\ caller_log'[c] # caller_log[c] =>
                             /\ \A i \in DOMAIN caller_log[c] : caller_log[c][i].kind # "logoff"
                             /\ Last(caller_log'[c]).kind = "logoff" =>
                                  /\ call[c].phase = "Ended"
                                  /\ Last(caller_log'[c]).reason = call[c].reason
      OBVIOUS
    <3>1. caller_log' = caller_log \/ AppendLine(d)
      BY <2>2, OneCallActs
    <3>2. CASE c = d
      BY <2>2, <3>1, <3>2, ReasonKept, LineIsLast
    <3>3. CASE c # d
      <4>1. call'[c] = call[c]
        BY <2>2, <3>3, OneCallActs DEF IInv, TypeOK
      <4>2. caller_log'[c] = caller_log[c]
        BY <3>1, <3>3 DEF AppendLine, IInv, TypeOK
      <4> QED
        BY <4>1, <4>2
    <3> QED
      BY <3>2, <3>3
  <2> QED
    BY <2>1, <2>2, NextIs
<1> QED
  BY <1>1, Invariance, PTL DEF CallSpec, EndToldOnce

LEMMA MinutesDivide ==
    ASSUME NEW n \in Nat
    PROVE  (n * Minute) \div Minute = n
<1>1. PICK m \in Nat \ {0} : m = Minute
  BY MinuteAssumption
<1>2. PICK q \in Int : q = (n * m) \div m
  BY <1>1
<1>3. q * m <= n * m /\ n * m < q * m + m
  BY <1>1, <1>2
<1>4. \A a, b \in Int : a <= b => a * m <= b * m
  BY <1>1
<1>5. q * m + m = (q + 1) * m /\ n * m + m = (n + 1) * m
  BY <1>1, <1>2
<1>6. PICK x \in Int, y \in Int : x = n * m /\ y = q * m
  BY <1>1, <1>2
<1>7. ~ (n + 1 <= q)
  <2> SUFFICES ASSUME n + 1 <= q PROVE FALSE
    OBVIOUS
  <2>1. (n + 1) * m <= q * m
    BY <1>2, <1>4
  <2> QED
    BY <1>1, <1>3, <1>5, <1>6, <2>1
<1>8. ~ (q + 1 <= n)
  <2> SUFFICES ASSUME q + 1 <= n PROVE FALSE
    OBVIOUS
  <2>1. (q + 1) * m <= n * m
    BY <1>2, <1>4
  <2> QED
    BY <1>1, <1>3, <1>5, <1>6, <2>1
<1> QED
  BY <1>1, <1>2, <1>7, <1>8

\* At the prompt less than a minute is not charged yet.
LEMMA ChargedAtPrompt ==
    ASSUME IInv, NEW c \in CallIds, Acts(c), Does(c, "menu"), call'[c].doing = "prompt"
    PROVE  clock - call'[c].last_tick_at < Minute
<1>1. /\ call \in [CallIds -> Records] /\ call[c] \in Records /\ Staged(call[c])
      /\ call[c].phase = "Menu" /\ call[c].doing = "menu" /\ call[c].entry = None
      /\ clock \in Int
  BY OfACall DEF IInv, TypeOK, Does, Staged, Fits
<1>2. /\ ~ Does(c, "greeting") /\ ~ Does(c, "name") /\ ~ Does(c, "password")
      /\ ~ Does(c, "gate") /\ ~ Does(c, "profile") /\ ~ Does(c, "onboarded")
      /\ ~ Does(c, "reset") /\ ~ Does(c, "entering") /\ ~ Does(c, "finalise")
      /\ ~ Does(c, "prompt") /\ ~ Does(c, "goodbye")
  BY <1>1 DEF Does
<1>3. /\ ~ AcceptConnection(c) /\ ~ PromptForName(c) /\ ~ RecordIdentifiedUser(c)
      /\ ~ RecordUnknownName(c) /\ ~ NameLookupFails(c) /\ ~ RecordNewUserRequest(c)
  BY <1>1, <1>2, Zenon
     DEF AcceptConnection, PromptForName, RecordIdentifiedUser, RecordUnknownName,
         NameLookupFails, RecordNewUserRequest
<1>4. /\ ~ ApplyPasswordMatch(c) /\ ~ ApplyPasswordMismatch(c)
      /\ ~ NewUserPasswordAttempt(c) /\ ~ CompleteNewUserRegistration(c)
      /\ ~ CompletePasswordReset(c) /\ ~ RefusePasswordReset(c) /\ ~ Command(c)
      /\ ~ UserRequestsLogoff(c) /\ ~ AutoRejoinConference(c)
      /\ ~ EnterMenu(c) /\ ~ GoodbyeWritten(c) /\ ~ FinaliseLogoff(c) /\ ~ AppendLine(c)
  BY <1>1, <1>2, Zenon
     DEF ApplyPasswordMatch, ApplyPasswordMismatch, NewUserPasswordAttempt,
         CompleteNewUserRegistration, CompletePasswordReset, RefusePasswordReset, Command,
         UserRequestsLogoff, AutoRejoinConference, EnterMenu, GoodbyeWritten, FinaliseLogoff,
         AppendLine
<1>5. ~ ConnectionLost(c) /\ ~ IdleTimedOut(c)
  <2>1. \A reason, doing : MoveToLoggingOff(call[c], reason, doing).doing = doing
    BY <1>1 DEF MoveToLoggingOff, Records
  <2>2. /\ IntoLoggingOff(call[c]).doing = "finalise"
        /\ ApplyIdleTimeout(call[c]).doing = "goodbye"
    BY <1>1, <2>1 DEF IntoLoggingOff, ApplyIdleTimeout, ApplyCarrierLoss, Active
  <2>3. \A t : Becomes(c, t) => call'[c] = t
    BY <1>1 DEF Becomes
  <2> QED
    BY <2>2, <2>3 DEF ConnectionLost, IdleTimedOut
<1>6. AccrueTime(c)
  BY <1>3, <1>4, <1>5 DEF Acts, OwnStep
<1> DEFINE elapsed == SaturatingSub(clock, call[c].last_tick_at)
           k == elapsed \div Minute
           accrued == AccrueElapsed(call[c])
<1>7. call'[c] = [accrued EXCEPT !.doing = "prompt"]
  <2>1. \/ call'[c] = MoveToLoggingOff(accrued, "OutOfTime", "goodbye")
        \/ call'[c] = [accrued EXCEPT !.doing = "prompt"]
    BY <1>1, <1>6 DEF AccrueTime, Becomes
  <2>2. MoveToLoggingOff(accrued, "OutOfTime", "goodbye").doing = "goodbye"
    BY <1>1 DEF MoveToLoggingOff, AccrueElapsed, Records
  <2> QED
    BY <2>1, <2>2
<1>8. call'[c].last_tick_at = call[c].last_tick_at + k * Minute
  BY <1>1, <1>7 DEF AccrueElapsed, Records
<1>9. elapsed \in Nat /\ call[c].last_tick_at \in Int /\ clock - call[c].last_tick_at <= elapsed
  BY <1>1 DEF SaturatingSub, Records
<1>10. k * Minute \in Nat /\ elapsed < k * Minute + Minute
  BY <1>9, WholeMinutes
<1> HIDE DEF elapsed, k
<1> QED
  BY <1>1, <1>8, <1>9, <1>10, MinuteAssumption

\* Every minute of a call is charged, none twice: what a caller has left is
\* the limit less the whole minutes since the call was let in, at every
\* command and under any clock, and the time is up exactly when more was used.
THEOREM TimeIsCharged == CallSpec => TimeCharged
<1> DEFINE InMinutes == \A c \in CallIds : call[c].authenticated_at # Never =>
             LET s == call[c] IN
             /\ s.last_tick_at = s.authenticated_at + Charged(s) * Minute
             /\ s.time_remaining = (IF s.reason \in {"LockedAccount", "NewUserRejected"} THEN 0
                                    ELSE SaturatingSub(LimitOf(s), Charged(s)))
             /\ s.phase = "Menu" => Charged(s) = s.user.usage.time_used_today
                                                   - s.baseline.usage.time_used_today
             /\ s.reason = "OutOfTime" => Charged(s) > LimitOf(s)
             /\ Does(c, "prompt") /\ ~OverridesTimeLimit(s.user) => Charged(s) <= LimitOf(s)
           AtPrompt == \A c \in CallIds :
             Does(c, "menu") /\ call'[c].doing = "prompt" =>
               clock - call'[c].last_tick_at < Minute
<1>1. IInv => InMinutes
  <2> SUFFICES ASSUME IInv, NEW c \in CallIds, call[c].authenticated_at # Never
               PROVE  LET s == call[c] IN
                      /\ s.last_tick_at = s.authenticated_at + Charged(s) * Minute
                      /\ s.time_remaining =
                           (IF s.reason \in {"LockedAccount", "NewUserRejected"} THEN 0
                            ELSE SaturatingSub(LimitOf(s), Charged(s)))
                      /\ s.phase = "Menu" => Charged(s) = s.user.usage.time_used_today
                                                            - s.baseline.usage.time_used_today
                      /\ s.reason = "OutOfTime" => Charged(s) > LimitOf(s)
                      /\ Does(c, "prompt") /\ ~OverridesTimeLimit(s.user) =>
                           Charged(s) <= LimitOf(s)
    OBVIOUS
  <2>1. PICK n \in Nat : Charges(call[c], n)
    BY OfACall DEF Sound, Timed
  <2>2. Charged(call[c]) = n
    <3>1. call[c].last_tick_at - call[c].authenticated_at = n * Minute
      <4>1. PICK m \in Int : m = n * Minute
        BY MinuteAssumption
      <4>2. call[c].authenticated_at \in Int /\ call[c].last_tick_at \in Int
        BY OfACall DEF Records
      <4> QED
        BY <2>1, <4>1, <4>2 DEF Charges
    <3> QED
      BY <3>1, MinutesDivide DEF Charged
  <2> QED
    BY <2>1, <2>2 DEF Charges, Does
<1>2. IInv /\ [CallNext]_callvars => [AtPrompt]_callvars
  <2> SUFFICES ASSUME IInv, CallNext PROVE AtPrompt
    BY DEF callvars
  <2> SUFFICES ASSUME NEW c \in CallIds, Does(c, "menu"), call'[c].doing = "prompt"
               PROVE  clock - call'[c].last_tick_at < Minute
    OBVIOUS
  <2>1. call'[c] # call[c]
    BY DEF Does
  <2>2. CASE Passes \/ SetBack
    BY <2>1, <2>2 DEF Passes, SetBack
  <2>3. ASSUME NEW d \in CallIds, Acts(d) PROVE c = d
    BY <2>1, <2>3, OneCallActs DEF IInv, TypeOK
  <2> QED
    BY <2>2, <2>3, NextIs, ChargedAtPrompt
<1> QED
  BY <1>1, <1>2, Invariance, PTL DEF CallSpec, TimeCharged
=============================================================================
