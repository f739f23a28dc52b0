--------------------------- MODULE UserAggregate ---------------------------
(* The account as the sessions hold it: credentials, account status, usage
   counters, profile and conference access, the changes a session makes to
   its own copy, the commands it hands to the user repository, and what each
   command makes of a stored account.

   UserRecords keeps of an account what the sign-in needs; here it is whole,
   apart from fields nothing in the board changes after registration and
   that take no part in any decision (postal details, line length, ANSI
   preference, ratio policy, censorship).  Every hash is of the one kind the
   board knows and has its salt, so hash, salt and kind are one value.
   Times are whole seconds, as the columns are.

   A definition followed by a near copy of itself is a mistake the
   properties are tried against; the model uses the second of the two.     *)
EXTENDS Integers, FiniteSets, Functions, FiniteSetsExt

Never == 0                          \* the time of a call that never was
Nowhere == <<0, 0>>                 \* a user who has joined no conference
ScanFlags == {"MailScan", "MailScanAll", "FileScan", "Zoom"}

Later(a, b) == IF a >= b THEN a ELSE b
SaturatingSub(a, b) == IF a >= b THEN a - b ELSE 0

\* A patch field is a set: of the new value, or empty when it is not set.
Set(value) == {value}
Changed(before, after) == IF after = before THEN {} ELSE Set(after)
OrElse(field, default) == IF field = {} THEN default ELSE CHOOSE v \in field : TRUE

\* One entry of a table or a list that has keys, replaced or added.
Put(entries, key, value) ==
    [k \in DOMAIN entries \cup {key} |-> IF k = key THEN value ELSE entries[k]]

----------------------------------------------------------------------------
(* One base of a membership: how far the user has read and has scanned.    *)

FreshPointers(now) == [last_read |-> 0, last_scanned |-> 0, new_since |-> now]

PointersAdvanceLastRead(row, to) ==
    LET read == Later(row.last_read, to) IN
    [row EXCEPT !.last_read = read, !.last_scanned = Later(@, read)]
PointersAdvanceLastScanned(row, to) ==
    [row EXCEPT !.last_scanned = Later(@, to)]

----------------------------------------------------------------------------
(* A membership row: a user's standing in one conference.                  *)

NewMembership(granted) ==
    [granted |-> granted, messages_posted |-> 0,
     scan_flags |-> {"MailScan", "FileScan"}, pointers |-> <<>>]

ToggleScanFlag(membership, flag) ==
    [membership EXCEPT !.scan_flags =
        IF flag \in @ THEN @ \ {flag} ELSE @ \cup {flag}]

UpsertPointers(membership, base, row) ==
    [membership EXCEPT !.pointers = Put(@, base, row)]

\* The row a rule is about to move, created when the user has none.
PointersOrFresh(membership, base, now) ==
    IF base \in DOMAIN membership.pointers
      THEN membership.pointers[base] ELSE FreshPointers(now)

----------------------------------------------------------------------------
(* The five groups of an account.                                          *)

NewCredentials(hash, now) == [hash |-> hash, last_updated |-> now, reset |-> FALSE]

AccountExisting(level) ==
    [access_level |-> level, invalid_attempts |-> 0,
     account_locked |-> FALSE, new_user |-> FALSE]
AwaitingValidation == [AccountExisting(2) EXCEPT !.new_user = TRUE]

NoUsage ==
    [times_called |-> 0, times_called_today |-> 0, last_call |-> Never,
     time_limit_per_call |-> 0, time_limit_per_day |-> 0, time_used_today |-> 0]
ForFreshRegistration(now) ==
    [NoUsage EXCEPT !.last_call = now, !.time_limit_per_call = 30,
                    !.time_limit_per_day = 60]
WithTimeLimits(usage, per_call, per_day) ==
    [usage EXCEPT !.time_limit_per_call = per_call, !.time_limit_per_day = per_day]

NewProfile(now, flags) ==
    [expert_mode |-> FALSE, account_created |-> now, flags |-> flags]

NoConferences == [memberships |-> <<>>, last_joined |-> Nowhere, messages_posted |-> 0]

UserNew(slot, handle, hash, now, level) ==
    [slot_number |-> slot, handle |-> handle,
     credentials |-> NewCredentials(hash, now),
     account |-> AccountExisting(level), usage |-> NoUsage,
     profile |-> NewProfile(now, {}), conferences |-> NoConferences]

RegisterNew(slot, draft) ==
    [slot_number |-> slot, handle |-> draft.handle,
     credentials |-> NewCredentials(draft.hash, draft.now),
     account |-> AwaitingValidation, usage |-> ForFreshRegistration(draft.now),
     profile |-> NewProfile(draft.now, draft.flags),
     conferences |-> NoConferences]

----------------------------------------------------------------------------
(* What a session does to its own copy.                                    *)

LockAccount(user) ==
    [user EXCEPT !.account.account_locked = TRUE, !.account.invalid_attempts = 0]
BumpTimesCalled(user) == [user EXCEPT !.usage.times_called = @ + 1]
RecordLastCall(user, now) == [user EXCEPT !.usage.last_call = now]
AddTimeUsedToday(user, elapsed) == [user EXCEPT !.usage.time_used_today = @ + elapsed]
SetExpertMode(user, value) == [user EXCEPT !.profile.expert_mode = value]
RecordJoin(user, conference, base) ==
    [user EXCEPT !.conferences.last_joined = <<conference, base>>]

\* Replaces the row of the conference, or adds one.
UpsertMembership(user, conference, membership) ==
    [user EXCEPT !.conferences.memberships = Put(@, conference, membership)]

Joined(user) == DOMAIN user.conferences.memberships

ToggleScanFlagFor(user, conference, flag) ==
    UpsertMembership(user, conference,
        ToggleScanFlag(user.conferences.memberships[conference], flag))

\* Nothing moves for a conference the user has no row in.
MembershipAt(user, ref) == user.conferences.memberships[ref[1]]
AdvancePointers(user, ref, row) ==
    IF ref[1] \notin Joined(user) THEN user
    ELSE UpsertMembership(user, ref[1], UpsertPointers(MembershipAt(user, ref), ref[2], row))
AdvanceLastRead(user, ref, to, now) ==
    AdvancePointers(user, ref,
        PointersAdvanceLastRead(PointersOrFresh(MembershipAt(user, ref), ref[2], now), to))
AdvanceLastScanned(user, ref, to, now) ==
    AdvancePointers(user, ref,
        PointersAdvanceLastScanned(PointersOrFresh(MembershipAt(user, ref), ref[2], now), to))

\* The total moves with or without a membership row, the tally with one.
RecordMessagePosted(user, conference) ==
    LET counted == [user EXCEPT !.conferences.messages_posted = @ + 1] IN
    IF conference \notin Joined(user) THEN counted
    ELSE [counted EXCEPT !.conferences.memberships[conference].messages_posted = @ + 1]

----------------------------------------------------------------------------
(* What a session hands to the repository ...                              *)

PointerPatch(row) == row

MembershipPatchOfNew(conference, cur) ==
    [conference_number |-> conference, create_if_missing |-> TRUE,
     granted |-> Set(cur.granted), messages_posted_delta |-> cur.messages_posted,
     scan_flags |-> Set(cur.scan_flags),
     pointers |-> [b \in DOMAIN cur.pointers |-> PointerPatch(cur.pointers[b])]]

AdvancedSince(base, cur) ==
    {b \in DOMAIN cur.pointers :
       \/ b \notin DOMAIN base.pointers
       \/ cur.pointers[b].last_read > base.pointers[b].last_read
       \/ cur.pointers[b].last_scanned > base.pointers[b].last_scanned}

MembershipPatchBetween(conference, base, cur) ==
    [conference_number |-> conference, create_if_missing |-> FALSE,
     granted |-> Changed(base.granted, cur.granted),
     messages_posted_delta |-> SaturatingSub(cur.messages_posted, base.messages_posted),
     scan_flags |-> Changed(base.scan_flags, cur.scan_flags),
     pointers |-> [b \in AdvancedSince(base, cur) |-> PointerPatch(cur.pointers[b])]]

\* The memberships the session added or changed.
MembershipPatches(baseline, current) ==
    LET base == baseline.conferences.memberships
        cur == current.conferences.memberships
    IN  {MembershipPatchOfNew(c, cur[c]) : c \in DOMAIN cur \ DOMAIN base}
        \cup {MembershipPatchBetween(c, base[c], cur[c]) :
                c \in {d \in DOMAIN cur \cap DOMAIN base : cur[d] # base[d]}}

Between(baseline, current) ==
    [times_called_delta |->
        SaturatingSub(current.usage.times_called, baseline.usage.times_called),
     times_called_today_delta |->
        SaturatingSub(current.usage.times_called_today, baseline.usage.times_called_today),
     time_used_today_delta |->
        SaturatingSub(current.usage.time_used_today, baseline.usage.time_used_today),
     messages_posted_delta |->
        SaturatingSub(current.conferences.messages_posted,
                      baseline.conferences.messages_posted),
     last_call |-> Changed(baseline.usage.last_call, current.usage.last_call),
     expert_mode |-> Changed(baseline.profile.expert_mode, current.profile.expert_mode),
     flags |-> Changed(baseline.profile.flags, current.profile.flags),
     last_joined |-> Changed(baseline.conferences.last_joined,
                             current.conferences.last_joined),
     memberships |-> MembershipPatches(baseline, current)]

\* ... and what a stored account makes of it.
CountDaily(usage, daily) ==
    CASE daily = "NewDay" -> [usage EXCEPT !.times_called_today = 0, !.time_used_today = 0]
      [] daily = "SameDay" -> [usage EXCEPT !.times_called_today = @ + 1]
      [] OTHER -> usage
ApplyAuthOutcome(outcome, user) ==
    IF outcome.kind = "Matched"
      THEN [user EXCEPT
              !.account.invalid_attempts = 0,
              !.credentials.reset = @ \/ outcome.force_password_reset,
              !.usage = CountDaily(@, outcome.daily)]
      ELSE [user EXCEPT !.account.invalid_attempts = @ + 1,
                        !.account.account_locked = @ \/ outcome.lock_account]

ApplyPasswordChange(change, user) ==
    [user EXCEPT !.credentials = NewCredentials(change.hash, change.changed_at)]

AddMessagesPosted(membership, n) == [membership EXCEPT !.messages_posted = @ + n]

AbsorbPointers(row, patch) ==
    PointersAdvanceLastScanned(PointersAdvanceLastRead(row, patch.last_read),
                               patch.last_scanned)

PatchedMembership(membership, patch) ==
    [AddMessagesPosted(membership, patch.messages_posted_delta) EXCEPT
        !.granted = OrElse(patch.granted, @),
        !.scan_flags = OrElse(patch.scan_flags, @),
        !.pointers =
            [b \in DOMAIN @ \cup DOMAIN patch.pointers |->
               IF b \notin DOMAIN patch.pointers THEN @[b]
               ELSE AbsorbPointers(
                      PointersOrFresh(membership, b, patch.pointers[b].new_since),
                      patch.pointers[b])]]

\* A conference is in one patch at most.  A patch for a conference without a
\* row is skipped unless it brings one.
ApplyMembershipPatches(patches, memberships) ==
    LET Conferences(some) == {patch.conference_number : patch \in some}
        PatchOf(c) == CHOOSE patch \in patches : patch.conference_number = c
        RowOf(c) == IF c \in DOMAIN memberships THEN memberships[c]
                    ELSE NewMembership(OrElse(PatchOf(c).granted, TRUE))
    IN  [c \in DOMAIN memberships
               \cup Conferences({patch \in patches : patch.create_if_missing}) |->
            IF c \in Conferences(patches) THEN PatchedMembership(RowOf(c), PatchOf(c))
            ELSE memberships[c]]

PatchedUsage(usage, patch) ==
    [usage EXCEPT !.times_called = @ + patch.times_called_delta,
                  !.times_called_today = @ + patch.times_called_today_delta,
                  !.time_used_today = @ + patch.time_used_today_delta,
                  !.last_call = Later(@, OrElse(patch.last_call, Never))]
PatchedProfile(profile, patch) ==
    [profile EXCEPT !.expert_mode = OrElse(patch.expert_mode, @),
                    !.flags = OrElse(patch.flags, @)]
PatchedConferences(conferences, patch) ==
    [conferences EXCEPT !.messages_posted = @ + patch.messages_posted_delta,
                        !.last_joined = OrElse(patch.last_joined, @),
                        !.memberships = ApplyMembershipPatches(patch.memberships, @)]
ApplyUserPatch(patch, user) ==
    [user EXCEPT !.usage = PatchedUsage(@, patch), !.profile = PatchedProfile(@, patch),
                 !.conferences = PatchedConferences(@, patch)]
=============================================================================
