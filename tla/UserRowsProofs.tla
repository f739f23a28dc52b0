--------------------------- MODULE UserRowsProofs ---------------------------
(* UserRows implements UserStore: the tables and the statements keep the
   promise of the repository, for any sessions, names, catalogues and
   outcomes, any saves of the flag store and any end of the board.          *)
EXTENDS UserRows, WellFoundedInduction, TLAPS

----------------------------------------------------------------------------
(* Types: of accounts, of what sessions ask, and of the tables.             *)

Names == Handles \cup {"sysop"}
Hashes == {"sysop", "chosen", "changed"}
Pointers == [last_read : Nat, last_scanned : Nat, new_since : Nat]
PointerMaps == UNION {[bases -> Pointers] : bases \in SUBSET Nat}
Memberships ==
    [granted : BOOLEAN, messages_posted : Nat, scan_flags : SUBSET ScanFlags,
     pointers : PointerMaps]
MembershipMaps == UNION {[numbers -> Memberships] : numbers \in SUBSET Nat}

Credentials == [hash : Hashes, last_updated : Nat, reset : BOOLEAN]
Standing ==
    [access_level : Nat, invalid_attempts : Nat, account_locked : BOOLEAN, new_user : BOOLEAN]
Usages ==
    [times_called : Nat, times_called_today : Nat, last_call : Nat,
     time_limit_per_call : Nat, time_limit_per_day : Nat, time_used_today : Nat]
FlagSets == {{}, Flags}
Profiles == [expert_mode : BOOLEAN, account_created : Nat, flags : FlagSets]
Access == [memberships : MembershipMaps, last_joined : Nat \X Nat, messages_posted : Nat]
Accounts ==
    [slot_number : Nat, handle : Names, credentials : Credentials, account : Standing,
     usage : Usages, profile : Profiles, conferences : Access]

MembershipPatch ==
    [conference_number : Nat, create_if_missing : BOOLEAN, granted : SUBSET BOOLEAN,
     messages_posted_delta : Nat, scan_flags : SUBSET SUBSET ScanFlags, pointers : PointerMaps]
\* A set of one value, or none.
Optional(S) == {{}} \cup {{v} : v \in S}
UserPatches ==
    {p \in [times_called_delta : Nat, times_called_today_delta : Nat,
            time_used_today_delta : Nat, messages_posted_delta : Nat,
            last_call : Optional(Nat), expert_mode : Optional(BOOLEAN),
            flags : Optional(FlagSets), last_joined : Optional(Nat \X Nat),
            memberships : SUBSET MembershipPatch] :
       /\ \A m \in p.memberships : /\ m.granted \in Optional(BOOLEAN)
                                   /\ m.scan_flags \in Optional(SUBSET ScanFlags)
       /\ \A m, k \in p.memberships : m.conference_number = k.conference_number => m = k}

Columns == {0, 1}
UserRow ==
    [handle : Names, handle_folded : {Folded[name] : name \in Names}, password_hash : Hashes,
     password_last_updated : Nat, force_password_reset : Columns, access_level : Nat,
     invalid_attempts : Nat, account_locked : Columns, is_new_user : Columns,
     times_called : Nat, times_called_today : Nat, last_call : Optional(Nat),
     time_limit_per_call : Nat, time_limit_per_day : Nat, time_used_today : Nat,
     expert_mode : Columns, account_created : Nat, flags : FlagSets, messages_posted : Nat,
     last_joined_conference : Nat, last_joined_msgbase : Nat]
UserRowOK(row) == row \in UserRow /\ row.handle_folded = Folded[row.handle]
MembershipRows ==
    [granted : Columns, messages_posted : Nat, mail_scan : Columns, mailscan_all : Columns,
     file_scan : Columns, zoom_scan : Columns]

UserTable == UNION {[1 .. n -> UserRow] : n \in Nat}
MembershipTable == UNION {[keys -> MembershipRows] : keys \in SUBSET (Nat \X Nat)}
PointerTable == UNION {[keys -> Pointers] : keys \in SUBSET (Nat \X Nat \X Nat)}
Tables ==
    {t \in [users : UserTable, memberships : MembershipTable, pointers : PointerTable] :
       /\ \A slot \in DOMAIN t.users : UserRowOK(t.users[slot])
       /\ ConstraintsHold(t)}

----------------------------------------------------------------------------
(* A row and the account it stands for.                                     *)

\* What is loaded from the row of an account is the account.
LEMMA RowRoundTrip ==
    ASSUME NEW user \in Accounts
    PROVE  /\ RowOf(user) \in UserRow /\ UserRowOK(RowOf(user))
           /\ FromPersisted(user.slot_number, RowOf(user), user.conferences.memberships) = user
<1>1. /\ user.credentials \in Credentials /\ user.account \in Standing /\ user.usage \in Usages
      /\ user.profile \in Profiles /\ user.conferences \in Access /\ user.handle \in Names
  BY DEF Accounts
<1>2. user.conferences.last_joined = <<user.conferences.last_joined[1], user.conferences.last_joined[2]>>
  BY <1>1 DEF Access
<1>3. RowOf(user) \in UserRow
  BY <1>1, <1>2 DEF RowOf, UserRow, Credentials, Standing, Usages, Profiles, Access, Columns, Optional, Never
<1>4. UserRowOK(RowOf(user))
  BY <1>3 DEF RowOf, UserRowOK
<1> DEFINE back == FromPersisted(user.slot_number, RowOf(user), user.conferences.memberships)
<1>5. back.credentials = user.credentials
  BY <1>1 DEF FromPersisted, RowOf, Credentials
<1>6. back.account = user.account
  BY <1>1 DEF FromPersisted, RowOf, Standing
<1>7. back.usage = user.usage
  BY <1>1 DEF FromPersisted, RowOf, Usages, Never
<1>8. back.profile = user.profile
  BY <1>1 DEF FromPersisted, RowOf, Profiles
<1>9. back.conferences = user.conferences
  BY <1>1, <1>2 DEF FromPersisted, RowOf, Access
<1>10. back = user
  <2>1. back = [slot_number |-> user.slot_number, handle |-> user.handle,
                credentials |-> back.credentials, account |-> back.account, usage |-> back.usage,
                profile |-> back.profile, conferences |-> back.conferences]
    BY DEF FromPersisted, RowOf
  <2> HIDE DEF back
  <2> QED
    BY <2>1, <1>5, <1>6, <1>7, <1>8, <1>9 DEF Accounts
<1> QED
  BY <1>3, <1>4, <1>10

\* The groups of columns an account is put together from.
CredentialsIn(row) == [hash |-> row.password_hash, last_updated |-> row.password_last_updated,
                       reset |-> row.force_password_reset # 0]
StandingIn(row) == [access_level |-> row.access_level, invalid_attempts |-> row.invalid_attempts,
                    account_locked |-> row.account_locked # 0, new_user |-> row.is_new_user # 0]
LastCall(column) == IF column = {} THEN Never ELSE CHOOSE t \in column : TRUE
LastCallIn(row) == LastCall(row.last_call)
UsageIn(row) == [times_called |-> row.times_called, times_called_today |-> row.times_called_today,
                 last_call |-> LastCallIn(row), time_limit_per_call |-> row.time_limit_per_call,
                 time_limit_per_day |-> row.time_limit_per_day, time_used_today |-> row.time_used_today]
ProfileIn(row) == [expert_mode |-> row.expert_mode # 0, account_created |-> row.account_created,
                   flags |-> row.flags]
AccessIn(row, memberships) ==
    [memberships |-> memberships,
     last_joined |-> <<row.last_joined_conference, row.last_joined_msgbase>>,
     messages_posted |-> row.messages_posted]
Whole(slot, handle, credentials, account, usage, profile, conferences) ==
    [slot_number |-> slot, handle |-> handle, credentials |-> credentials, account |-> account,
     usage |-> usage, profile |-> profile, conferences |-> conferences]

LEMMA LoadedParts ==
    ASSUME NEW slot, NEW row, NEW memberships
    PROVE  FromPersisted(slot, row, memberships)
           = Whole(slot, row.handle, CredentialsIn(row), StandingIn(row), UsageIn(row),
                   ProfileIn(row), AccessIn(row, memberships))
BY DEF FromPersisted, Whole, CredentialsIn, StandingIn, UsageIn, LastCallIn, LastCall, ProfileIn, AccessIn

\* The account of a typed row is typed.
LEMMA PartsTyped ==
    ASSUME NEW row \in UserRow, NEW memberships \in MembershipMaps
    PROVE  /\ row.handle \in Names
           /\ CredentialsIn(row) \in Credentials /\ StandingIn(row) \in Standing
           /\ UsageIn(row) \in Usages /\ ProfileIn(row) \in Profiles
           /\ AccessIn(row, memberships) \in Access
<1>1. CredentialsIn(row) \in Credentials /\ row.handle \in Names
  BY DEF CredentialsIn, UserRow, Credentials
<1>2. StandingIn(row) \in Standing
  BY DEF StandingIn, UserRow, Standing
<1>3. UsageIn(row) \in Usages
  <2>1. LastCallIn(row) \in Nat
    BY DEF LastCallIn, LastCall, UserRow, Optional, Never
  <2> QED
    BY <2>1 DEF UsageIn, UserRow, Usages
<1>4. ProfileIn(row) \in Profiles
  BY DEF ProfileIn, UserRow, Profiles
<1>5. AccessIn(row, memberships) \in Access
  BY DEF AccessIn, UserRow, Access
<1> QED
  BY <1>1, <1>2, <1>3, <1>4, <1>5

LEMMA LoadedAccount ==
    ASSUME NEW slot \in Nat, NEW row \in UserRow, NEW memberships \in MembershipMaps
    PROVE  FromPersisted(slot, row, memberships) \in Accounts
BY PartsTyped, LoadedParts DEF Whole, Accounts

WithForgiven(row, a, b) ==
    [row EXCEPT !.invalid_attempts = a, !.force_password_reset = b]
\* What a statement sets, and what it leaves: a right password,
LEMMA RowsForgiven ==
    ASSUME NEW row \in UserRow, UserRowOK(row), NEW memberships,
           NEW a \in Nat, NEW b \in Columns, NEW new,
           new = WithForgiven(row, a, b)
    PROVE  /\ new \in UserRow /\ UserRowOK(new) /\ new.handle = row.handle
           /\ CredentialsIn(new) = [hash |-> row.password_hash,
                                    last_updated |-> row.password_last_updated,
                                    reset |-> b # 0]
           /\ StandingIn(new) = [access_level |-> row.access_level, invalid_attempts |-> a,
                                 account_locked |-> row.account_locked # 0,
                                 new_user |-> row.is_new_user # 0]
           /\ UsageIn(new) = UsageIn(row)
           /\ ProfileIn(new) = ProfileIn(row)
           /\ AccessIn(new, memberships) = AccessIn(row, memberships)
<1>1. new \in UserRow
  BY DEF WithForgiven, UserRow
<1>2. /\ new.invalid_attempts = a /\ new.force_password_reset = b /\ new.handle = row.handle
      /\ new.handle_folded = row.handle_folded /\ new.password_hash = row.password_hash
      /\ new.password_last_updated = row.password_last_updated
      /\ new.access_level = row.access_level /\ new.account_locked = row.account_locked
      /\ new.is_new_user = row.is_new_user /\ new.times_called = row.times_called
      /\ new.times_called_today = row.times_called_today /\ new.last_call = row.last_call
      /\ new.time_limit_per_call = row.time_limit_per_call
      /\ new.time_limit_per_day = row.time_limit_per_day
      /\ new.time_used_today = row.time_used_today /\ new.expert_mode = row.expert_mode
      /\ new.account_created = row.account_created /\ new.flags = row.flags
      /\ new.messages_posted = row.messages_posted
      /\ new.last_joined_conference = row.last_joined_conference
      /\ new.last_joined_msgbase = row.last_joined_msgbase
  BY DEF WithForgiven, UserRow
<1>3. UserRowOK(new)
  BY <1>1, <1>2 DEF UserRowOK
<1>4. CredentialsIn(new) = [hash |-> row.password_hash,
                                last_updated |-> row.password_last_updated,
                                reset |-> b # 0]
  BY <1>2 DEF CredentialsIn
<1>5. StandingIn(new) = [access_level |-> row.access_level, invalid_attempts |-> a,
                             account_locked |-> row.account_locked # 0,
                             new_user |-> row.is_new_user # 0]
  BY <1>2 DEF StandingIn
<1>6. UsageIn(new) = UsageIn(row)
  BY <1>2 DEF UsageIn, LastCallIn
<1>7. ProfileIn(new) = ProfileIn(row)
  BY <1>2 DEF ProfileIn
<1>8. AccessIn(new, memberships) = AccessIn(row, memberships)
  BY <1>2 DEF AccessIn
<1> QED
  BY <1>1, <1>2, <1>3, <1>4, <1>5, <1>6, <1>7, <1>8

WithStruck(row, a, b) ==
    [row EXCEPT !.invalid_attempts = a, !.account_locked = b]
\* a wrong one,
LEMMA RowsStruck ==
    ASSUME NEW row \in UserRow, UserRowOK(row), NEW memberships,
           NEW a \in Nat, NEW b \in Columns, NEW new,
           new = WithStruck(row, a, b)
    PROVE  /\ new \in UserRow /\ UserRowOK(new) /\ new.handle = row.handle
           /\ CredentialsIn(new) = CredentialsIn(row)
           /\ StandingIn(new) = [access_level |-> row.access_level, invalid_attempts |-> a,
                                 account_locked |-> b # 0,
                                 new_user |-> row.is_new_user # 0]
           /\ UsageIn(new) = UsageIn(row)
           /\ ProfileIn(new) = ProfileIn(row)
           /\ AccessIn(new, memberships) = AccessIn(row, memberships)
<1>1. new \in UserRow
  BY DEF WithStruck, UserRow
<1>2. /\ new.invalid_attempts = a /\ new.account_locked = b /\ new.handle = row.handle
      /\ new.handle_folded = row.handle_folded /\ new.password_hash = row.password_hash
      /\ new.password_last_updated = row.password_last_updated
      /\ new.force_password_reset = row.force_password_reset
      /\ new.access_level = row.access_level /\ new.is_new_user = row.is_new_user
      /\ new.times_called = row.times_called /\ new.times_called_today = row.times_called_today
      /\ new.last_call = row.last_call /\ new.time_limit_per_call = row.time_limit_per_call
      /\ new.time_limit_per_day = row.time_limit_per_day
      /\ new.time_used_today = row.time_used_today /\ new.expert_mode = row.expert_mode
      /\ new.account_created = row.account_created /\ new.flags = row.flags
      /\ new.messages_posted = row.messages_posted
      /\ new.last_joined_conference = row.last_joined_conference
      /\ new.last_joined_msgbase = row.last_joined_msgbase
  BY DEF WithStruck, UserRow
<1>3. UserRowOK(new)
  BY <1>1, <1>2 DEF UserRowOK
<1>4. CredentialsIn(new) = CredentialsIn(row)
  BY <1>2 DEF CredentialsIn
<1>5. StandingIn(new) = [access_level |-> row.access_level, invalid_attempts |-> a,
                             account_locked |-> b # 0,
                             new_user |-> row.is_new_user # 0]
  BY <1>2 DEF StandingIn
<1>6. UsageIn(new) = UsageIn(row)
  BY <1>2 DEF UsageIn, LastCallIn
<1>7. ProfileIn(new) = ProfileIn(row)
  BY <1>2 DEF ProfileIn
<1>8. AccessIn(new, memberships) = AccessIn(row, memberships)
  BY <1>2 DEF AccessIn
<1> QED
  BY <1>1, <1>2, <1>3, <1>4, <1>5, <1>6, <1>7, <1>8

WithNewDay(row, a, b) ==
    [row EXCEPT !.times_called_today = a, !.time_used_today = b]
\* the first call of a day,
LEMMA RowsOfNewDay ==
    ASSUME NEW row \in UserRow, UserRowOK(row), NEW memberships,
           NEW a \in Nat, NEW b \in Nat, NEW new,
           new = WithNewDay(row, a, b)
    PROVE  /\ new \in UserRow /\ UserRowOK(new) /\ new.handle = row.handle
           /\ CredentialsIn(new) = CredentialsIn(row)
           /\ StandingIn(new) = StandingIn(row)
           /\ UsageIn(new) = [times_called |-> row.times_called, times_called_today |-> a,
                              last_call |-> LastCall(row.last_call),
                              time_limit_per_call |-> row.time_limit_per_call,
                              time_limit_per_day |-> row.time_limit_per_day,
                              time_used_today |-> b]
           /\ ProfileIn(new) = ProfileIn(row)
           /\ AccessIn(new, memberships) = AccessIn(row, memberships)
<1>1. new \in UserRow
  BY DEF WithNewDay, UserRow
<1>2. /\ new.times_called_today = a /\ new.time_used_today = b /\ new.handle = row.handle
      /\ new.handle_folded = row.handle_folded /\ new.password_hash = row.password_hash
      /\ new.password_last_updated = row.password_last_updated
      /\ new.force_password_reset = row.force_password_reset
      /\ new.access_level = row.access_level /\ new.invalid_attempts = row.invalid_attempts
      /\ new.account_locked = row.account_locked /\ new.is_new_user = row.is_new_user
      /\ new.times_called = row.times_called /\ new.last_call = row.last_call
      /\ new.time_limit_per_call = row.time_limit_per_call
      /\ new.time_limit_per_day = row.time_limit_per_day /\ new.expert_mode = row.expert_mode
      /\ new.account_created = row.account_created /\ new.flags = row.flags
      /\ new.messages_posted = row.messages_posted
      /\ new.last_joined_conference = row.last_joined_conference
      /\ new.last_joined_msgbase = row.last_joined_msgbase
  BY DEF WithNewDay, UserRow
<1>3. UserRowOK(new)
  BY <1>1, <1>2 DEF UserRowOK
<1>4. CredentialsIn(new) = CredentialsIn(row)
  BY <1>2 DEF CredentialsIn
<1>5. StandingIn(new) = StandingIn(row)
  BY <1>2 DEF StandingIn
<1>6. UsageIn(new) = [times_called |-> row.times_called, times_called_today |-> a,
                          last_call |-> LastCall(row.last_call),
                          time_limit_per_call |-> row.time_limit_per_call,
                          time_limit_per_day |-> row.time_limit_per_day,
                          time_used_today |-> b]
  BY <1>2 DEF UsageIn, LastCallIn
<1>7. ProfileIn(new) = ProfileIn(row)
  BY <1>2 DEF ProfileIn
<1>8. AccessIn(new, memberships) = AccessIn(row, memberships)
  BY <1>2 DEF AccessIn
<1> QED
  BY <1>1, <1>2, <1>3, <1>4, <1>5, <1>6, <1>7, <1>8

WithSameDay(row, a) ==
    [row EXCEPT !.times_called_today = a]
\* another call of it,
LEMMA RowsOfSameDay ==
    ASSUME NEW row \in UserRow, UserRowOK(row), NEW memberships,
           NEW a \in Nat, NEW new,
           new = WithSameDay(row, a)
    PROVE  /\ new \in UserRow /\ UserRowOK(new) /\ new.handle = row.handle
           /\ CredentialsIn(new) = CredentialsIn(row)
           /\ StandingIn(new) = StandingIn(row)
           /\ UsageIn(new) = [times_called |-> row.times_called, times_called_today |-> a,
                              last_call |-> LastCall(row.last_call),
                              time_limit_per_call |-> row.time_limit_per_call,
                              time_limit_per_day |-> row.time_limit_per_day,
                              time_used_today |-> row.time_used_today]
           /\ ProfileIn(new) = ProfileIn(row)
           /\ AccessIn(new, memberships) = AccessIn(row, memberships)
<1>1. new \in UserRow
  BY DEF WithSameDay, UserRow
<1>2. /\ new.times_called_today = a /\ new.handle = row.handle
      /\ new.handle_folded = row.handle_folded /\ new.password_hash = row.password_hash
      /\ new.password_last_updated = row.password_last_updated
      /\ new.force_password_reset = row.force_password_reset
      /\ new.access_level = row.access_level /\ new.invalid_attempts = row.invalid_attempts
      /\ new.account_locked = row.account_locked /\ new.is_new_user = row.is_new_user
      /\ new.times_called = row.times_called /\ new.last_call = row.last_call
      /\ new.time_limit_per_call = row.time_limit_per_call
      /\ new.time_limit_per_day = row.time_limit_per_day
      /\ new.time_used_today = row.time_used_today /\ new.expert_mode = row.expert_mode
      /\ new.account_created = row.account_created /\ new.flags = row.flags
      /\ new.messages_posted = row.messages_posted
      /\ new.last_joined_conference = row.last_joined_conference
      /\ new.last_joined_msgbase = row.last_joined_msgbase
  BY DEF WithSameDay, UserRow
<1>3. UserRowOK(new)
  BY <1>1, <1>2 DEF UserRowOK
<1>4. CredentialsIn(new) = CredentialsIn(row)
  BY <1>2 DEF CredentialsIn
<1>5. StandingIn(new) = StandingIn(row)
  BY <1>2 DEF StandingIn
<1>6. UsageIn(new) = [times_called |-> row.times_called, times_called_today |-> a,
                          last_call |-> LastCall(row.last_call),
                          time_limit_per_call |-> row.time_limit_per_call,
                          time_limit_per_day |-> row.time_limit_per_day,
                          time_used_today |-> row.time_used_today]
  BY <1>2 DEF UsageIn, LastCallIn
<1>7. ProfileIn(new) = ProfileIn(row)
  BY <1>2 DEF ProfileIn
<1>8. AccessIn(new, memberships) = AccessIn(row, memberships)
  BY <1>2 DEF AccessIn
<1> QED
  BY <1>1, <1>2, <1>3, <1>4, <1>5, <1>6, <1>7, <1>8

WithNewPassword(row, a, b, c) ==
    [row EXCEPT !.password_hash = a, !.password_last_updated = b, !.force_password_reset = c]
\* a new password,
LEMMA RowsRepassworded ==
    ASSUME NEW row \in UserRow, UserRowOK(row), NEW memberships,
           NEW a \in Hashes, NEW b \in Nat, NEW c \in Columns, NEW new,
           new = WithNewPassword(row, a, b, c)
    PROVE  /\ new \in UserRow /\ UserRowOK(new) /\ new.handle = row.handle
           /\ CredentialsIn(new) = [hash |-> a, last_updated |-> b, reset |-> c # 0]
           /\ StandingIn(new) = StandingIn(row)
           /\ UsageIn(new) = UsageIn(row)
           /\ ProfileIn(new) = ProfileIn(row)
           /\ AccessIn(new, memberships) = AccessIn(row, memberships)
<1>1. new \in UserRow
  BY DEF WithNewPassword, UserRow
<1>2. /\ new.password_hash = a /\ new.password_last_updated = b /\ new.force_password_reset = c
      /\ new.handle = row.handle /\ new.handle_folded = row.handle_folded
      /\ new.access_level = row.access_level /\ new.invalid_attempts = row.invalid_attempts
      /\ new.account_locked = row.account_locked /\ new.is_new_user = row.is_new_user
      /\ new.times_called = row.times_called /\ new.times_called_today = row.times_called_today
      /\ new.last_call = row.last_call /\ new.time_limit_per_call = row.time_limit_per_call
      /\ new.time_limit_per_day = row.time_limit_per_day
      /\ new.time_used_today = row.time_used_today /\ new.expert_mode = row.expert_mode
      /\ new.account_created = row.account_created /\ new.flags = row.flags
      /\ new.messages_posted = row.messages_posted
      /\ new.last_joined_conference = row.last_joined_conference
      /\ new.last_joined_msgbase = row.last_joined_msgbase
  BY DEF WithNewPassword, UserRow
<1>3. UserRowOK(new)
  BY <1>1, <1>2 DEF UserRowOK
<1>4. CredentialsIn(new) = [hash |-> a, last_updated |-> b, reset |-> c # 0]
  BY <1>2 DEF CredentialsIn
<1>5. StandingIn(new) = StandingIn(row)
  BY <1>2 DEF StandingIn
<1>6. UsageIn(new) = UsageIn(row)
  BY <1>2 DEF UsageIn, LastCallIn
<1>7. ProfileIn(new) = ProfileIn(row)
  BY <1>2 DEF ProfileIn
<1>8. AccessIn(new, memberships) = AccessIn(row, memberships)
  BY <1>2 DEF AccessIn
<1> QED
  BY <1>1, <1>2, <1>3, <1>4, <1>5, <1>6, <1>7, <1>8

WithPatched(row, a, b, c, d, e, f, g, h, i) ==
    [row EXCEPT !.times_called = a, !.times_called_today = b, !.time_used_today = c,
                !.messages_posted = d, !.last_call = e, !.expert_mode = f,
                !.flags = g, !.last_joined_conference = h,
                !.last_joined_msgbase = i]
\* What a patch may write to a row,
Patchable(row, a, b, c, d, e, f, g, h, i) ==
    /\ row \in UserRow /\ UserRowOK(row)
    /\ a \in Nat /\ b \in Nat /\ c \in Nat /\ d \in Nat /\ h \in Nat /\ i \in Nat
    /\ e \in Optional(Nat) /\ f \in Columns /\ g \in FlagSets
\* and a patch.
LEMMA RowsPatched ==
    ASSUME NEW row, NEW memberships, NEW a, NEW b, NEW c, NEW d, NEW e, NEW f, NEW g, NEW h, NEW i,
           Patchable(row, a, b, c, d, e, f, g, h, i),
           NEW new, new = WithPatched(row, a, b, c, d, e, f, g, h, i)
    PROVE  /\ new \in UserRow /\ UserRowOK(new) /\ new.handle = row.handle
           /\ CredentialsIn(new) = CredentialsIn(row)
           /\ StandingIn(new) = StandingIn(row)
           /\ UsageIn(new) = [times_called |-> a, times_called_today |-> b,
                              last_call |-> LastCall(e),
                              time_limit_per_call |-> row.time_limit_per_call,
                              time_limit_per_day |-> row.time_limit_per_day,
                              time_used_today |-> c]
           /\ ProfileIn(new) = [expert_mode |-> f # 0, account_created |-> row.account_created,
                                flags |-> g]
           /\ AccessIn(new, memberships) = [memberships |-> memberships,
                                            last_joined |-> <<h, i>>,
                                            messages_posted |-> d]
<1> USE DEF Patchable
<1>1. new \in UserRow
  BY DEF WithPatched, UserRow
<1>2. /\ new.times_called = a /\ new.times_called_today = b /\ new.time_used_today = c
      /\ new.messages_posted = d /\ new.last_call = e /\ new.expert_mode = f /\ new.flags = g
      /\ new.last_joined_conference = h /\ new.last_joined_msgbase = i
      /\ new.handle = row.handle /\ new.handle_folded = row.handle_folded
      /\ new.password_hash = row.password_hash
      /\ new.password_last_updated = row.password_last_updated
      /\ new.force_password_reset = row.force_password_reset
      /\ new.access_level = row.access_level /\ new.invalid_attempts = row.invalid_attempts
      /\ new.account_locked = row.account_locked /\ new.is_new_user = row.is_new_user
      /\ new.time_limit_per_call = row.time_limit_per_call
      /\ new.time_limit_per_day = row.time_limit_per_day
      /\ new.account_created = row.account_created
  BY DEF WithPatched, UserRow
<1>3. UserRowOK(new)
  BY <1>1, <1>2 DEF UserRowOK
<1>4. CredentialsIn(new) = CredentialsIn(row)
  BY <1>2 DEF CredentialsIn
<1>5. StandingIn(new) = StandingIn(row)
  BY <1>2 DEF StandingIn
<1>6. UsageIn(new) = [times_called |-> a, times_called_today |-> b,
                          last_call |-> LastCall(e),
                          time_limit_per_call |-> row.time_limit_per_call,
                          time_limit_per_day |-> row.time_limit_per_day,
                          time_used_today |-> c]
  BY <1>2 DEF UsageIn, LastCallIn
<1>7. ProfileIn(new) = [expert_mode |-> f # 0, account_created |-> row.account_created,
                            flags |-> g]
  BY <1>2 DEF ProfileIn
<1>8. AccessIn(new, memberships) = [memberships |-> memberships,
                                        last_joined |-> <<h, i>>,
                                        messages_posted |-> d]
  BY <1>2 DEF AccessIn
<1> QED
  BY <1>1, <1>2, <1>3, <1>4, <1>5, <1>6, <1>7, <1>8

\* An UPDATE of an outcome does to the row what the domain does to the account.
LEMMA MatchCommutes ==
    ASSUME NEW slot, NEW row \in UserRow, UserRowOK(row), NEW memberships \in MembershipMaps,
           NEW outcome \in [kind : {"Matched"}, daily : STRING, force_password_reset : BOOLEAN]
    PROVE  /\ UpdateAuth(row, outcome) \in UserRow /\ UserRowOK(UpdateAuth(row, outcome))
           /\ FromPersisted(slot, UpdateAuth(row, outcome), memberships)
              = ApplyAuthOutcome(outcome, FromPersisted(slot, row, memberships))
<1> DEFINE counted == CASE outcome.daily = "NewDay" ->
                             [row EXCEPT !.times_called_today = 0, !.time_used_today = 0]
                        [] outcome.daily = "SameDay" -> [row EXCEPT !.times_called_today = @ + 1]
                        [] OTHER -> row
           flag == Later(counted.force_password_reset, Flag(outcome.force_password_reset))
           new == [counted EXCEPT !.invalid_attempts = 0, !.force_password_reset = flag]
<1>1. outcome.kind = "Matched" /\ outcome.force_password_reset \in BOOLEAN
  OBVIOUS
<1>2. /\ counted \in UserRow /\ UserRowOK(counted) /\ counted.handle = row.handle
      /\ CredentialsIn(counted) = CredentialsIn(row) /\ StandingIn(counted) = StandingIn(row)
      /\ UsageIn(counted) = CountDaily(UsageIn(row), outcome.daily)
      /\ ProfileIn(counted) = ProfileIn(row)
      /\ AccessIn(counted, memberships) = AccessIn(row, memberships)
  <2>1. CASE outcome.daily = "NewDay"
    <3>1. counted = WithNewDay(row, 0, 0)
      BY <2>1 DEF WithNewDay
    <3>2. 0 \in Nat
      OBVIOUS
    <3> HIDE DEF counted
    <3>3. /\ counted \in UserRow /\ UserRowOK(counted) /\ counted.handle = row.handle
          /\ CredentialsIn(counted) = CredentialsIn(row) /\ StandingIn(counted) = StandingIn(row)
          /\ UsageIn(counted) = [times_called |-> row.times_called, times_called_today |-> 0,
                                 last_call |-> LastCall(row.last_call),
                                 time_limit_per_call |-> row.time_limit_per_call,
                                 time_limit_per_day |-> row.time_limit_per_day,
                                 time_used_today |-> 0]
          /\ ProfileIn(counted) = ProfileIn(row)
          /\ AccessIn(counted, memberships) = AccessIn(row, memberships)
      BY <3>1, <3>2, RowsOfNewDay
    <3>4. UsageIn(counted) = CountDaily(UsageIn(row), outcome.daily)
      BY <3>3, <2>1 DEF CountDaily, UsageIn, LastCallIn
    <3> QED
      BY <3>3, <3>4
  <2>2. CASE outcome.daily = "SameDay"
    <3> DEFINE count == row.times_called_today + 1
    <3>1. counted = WithSameDay(row, count)
      BY <2>2 DEF WithSameDay
    <3>2. count \in Nat
      BY DEF UserRow
    <3> HIDE DEF counted, count
    <3>3. /\ counted \in UserRow /\ UserRowOK(counted) /\ counted.handle = row.handle
          /\ CredentialsIn(counted) = CredentialsIn(row) /\ StandingIn(counted) = StandingIn(row)
          /\ UsageIn(counted) = [times_called |-> row.times_called, times_called_today |-> count,
                                 last_call |-> LastCall(row.last_call),
                                 time_limit_per_call |-> row.time_limit_per_call,
                                 time_limit_per_day |-> row.time_limit_per_day,
                                 time_used_today |-> row.time_used_today]
          /\ ProfileIn(counted) = ProfileIn(row)
          /\ AccessIn(counted, memberships) = AccessIn(row, memberships)
      BY <3>1, <3>2, RowsOfSameDay
    <3>4. UsageIn(counted) = CountDaily(UsageIn(row), outcome.daily)
      BY <3>3, <2>2 DEF CountDaily, UsageIn, LastCallIn, count
    <3> QED
      BY <3>3, <3>4
  <2>3. CASE outcome.daily \notin {"NewDay", "SameDay"}
    <3>1. counted = row
      BY <2>3
    <3>2. CountDaily(UsageIn(row), outcome.daily) = UsageIn(row)
      BY <2>3 DEF CountDaily
    <3> HIDE DEF counted
    <3> QED
      BY <3>1, <3>2
  <2> QED
    BY <2>1, <2>2, <2>3
<1>3. UpdateAuth(row, outcome) = new
  BY <1>1 DEF UpdateAuth
<1> HIDE DEF counted
<1>4. /\ flag \in Columns
      /\ flag # 0 <=> counted.force_password_reset # 0 \/ outcome.force_password_reset
  <2>1. counted.force_password_reset \in Columns
    BY <1>2 DEF UserRow
  <2> QED
    BY <2>1, <1>1 DEF Later, Flag, Columns
<1> HIDE DEF flag
<1>5. /\ new \in UserRow /\ UserRowOK(new) /\ new.handle = row.handle
      /\ CredentialsIn(new) = [hash |-> counted.password_hash,
                               last_updated |-> counted.password_last_updated,
                               reset |-> flag # 0]
      /\ StandingIn(new) = [access_level |-> counted.access_level, invalid_attempts |-> 0,
                            account_locked |-> counted.account_locked # 0,
                            new_user |-> counted.is_new_user # 0]
      /\ UsageIn(new) = CountDaily(UsageIn(row), outcome.daily)
      /\ ProfileIn(new) = ProfileIn(row)
      /\ AccessIn(new, memberships) = AccessIn(row, memberships)
  <2>1. 0 \in Nat
    OBVIOUS
  <2>2. new = WithForgiven(counted, 0, flag)
    BY DEF WithForgiven
  <2> HIDE DEF new
  <2> QED
    BY <2>1, <2>2, <1>2, <1>4, RowsForgiven
<1> HIDE DEF new
<1>6. CredentialsIn(new)
      = [CredentialsIn(row) EXCEPT !.reset = @ \/ outcome.force_password_reset]
  <2>1. CredentialsIn(new) = [CredentialsIn(counted) EXCEPT !.reset = flag # 0]
    BY <1>5 DEF CredentialsIn
  <2>2. CredentialsIn(counted).reset = (counted.force_password_reset # 0)
    BY DEF CredentialsIn
  <2>3. (flag # 0) = (CredentialsIn(row).reset \/ outcome.force_password_reset)
    BY <2>2, <1>2, <1>4
  <2> QED
    BY <2>1, <2>3, <1>2
<1>7. StandingIn(new) = [StandingIn(row) EXCEPT !.invalid_attempts = 0]
  <2>1. StandingIn(new) = [StandingIn(counted) EXCEPT !.invalid_attempts = 0]
    BY <1>5 DEF StandingIn
  <2> QED
    BY <2>1, <1>2
<1>8. ApplyAuthOutcome(outcome, FromPersisted(slot, row, memberships))
      = Whole(slot, row.handle,
              [CredentialsIn(row) EXCEPT !.reset = @ \/ outcome.force_password_reset],
              [StandingIn(row) EXCEPT !.invalid_attempts = 0],
              CountDaily(UsageIn(row), outcome.daily), ProfileIn(row), AccessIn(row, memberships))
  BY <1>1, LoadedParts DEF ApplyAuthOutcome, Whole
<1>9. FromPersisted(slot, new, memberships)
      = ApplyAuthOutcome(outcome, FromPersisted(slot, row, memberships))
  BY <1>5, <1>6, <1>7, <1>8, LoadedParts
<1> QED
  BY <1>3, <1>5, <1>9

LEMMA MismatchCommutes ==
    ASSUME NEW slot, NEW row \in UserRow, UserRowOK(row), NEW memberships \in MembershipMaps,
           NEW outcome \in [kind : {"Mismatched"}, lock_account : BOOLEAN]
    PROVE  /\ UpdateAuth(row, outcome) \in UserRow /\ UserRowOK(UpdateAuth(row, outcome))
           /\ FromPersisted(slot, UpdateAuth(row, outcome), memberships)
              = ApplyAuthOutcome(outcome, FromPersisted(slot, row, memberships))
<1>1. outcome.kind = "Mismatched" /\ outcome.lock_account \in BOOLEAN
  OBVIOUS
<1> DEFINE column == Later(row.account_locked, Flag(outcome.lock_account))
           count == row.invalid_attempts + 1
           new == [row EXCEPT !.invalid_attempts = count, !.account_locked = column]
<1>2. /\ column \in Columns /\ count \in Nat
      /\ column # 0 <=> row.account_locked # 0 \/ outcome.lock_account
  BY <1>1 DEF UserRow, Columns, Later, Flag
<1>3. UpdateAuth(row, outcome) = new
  BY <1>1 DEF UpdateAuth
<1>4. /\ new \in UserRow /\ UserRowOK(new) /\ new.handle = row.handle
      /\ CredentialsIn(new) = CredentialsIn(row)
      /\ StandingIn(new) = [access_level |-> row.access_level, invalid_attempts |-> count,
                            account_locked |-> column # 0, new_user |-> row.is_new_user # 0]
      /\ UsageIn(new) = UsageIn(row)
      /\ ProfileIn(new) = ProfileIn(row)
      /\ AccessIn(new, memberships) = AccessIn(row, memberships)
  <2> HIDE DEF column, count
  <2>1. new = WithStruck(row, count, column)
    BY DEF WithStruck
  <2> HIDE DEF new
  <2> QED
    BY <2>1, <1>2, RowsStruck
<1>5. ApplyAuthOutcome(outcome, FromPersisted(slot, row, memberships))
      = Whole(slot, row.handle, CredentialsIn(row),
              [StandingIn(row) EXCEPT !.invalid_attempts = @ + 1,
                                      !.account_locked = @ \/ outcome.lock_account],
              UsageIn(row), ProfileIn(row), AccessIn(row, memberships))
  BY <1>1, LoadedParts DEF ApplyAuthOutcome, Whole
<1> HIDE DEF new
<1>6. StandingIn(new) = [StandingIn(row) EXCEPT !.invalid_attempts = @ + 1,
                                                !.account_locked = @ \/ outcome.lock_account]
  <2>1. (column # 0) = (StandingIn(row).account_locked \/ outcome.lock_account)
    BY <1>2 DEF StandingIn
  <2>2. count = StandingIn(row).invalid_attempts + 1
    BY DEF StandingIn
  <2> HIDE DEF column, count
  <2>3. StandingIn(new) = [StandingIn(row) EXCEPT !.invalid_attempts = count,
                                                  !.account_locked = column # 0]
    <3> DEFINE standing == StandingIn(new)
               locked == column # 0
    <3>1. standing = [access_level |-> row.access_level, invalid_attempts |-> count,
                      account_locked |-> locked, new_user |-> row.is_new_user # 0]
      BY <1>4
    <3> HIDE DEF standing, locked
    <3>2. standing = [StandingIn(row) EXCEPT !.invalid_attempts = count, !.account_locked = locked]
      <4> DEFINE old == StandingIn(row)
      <4>1. standing = [access_level |-> old.access_level, invalid_attempts |-> count,
                        account_locked |-> locked, new_user |-> old.new_user]
        BY <3>1 DEF StandingIn
      <4>2. old \in Standing
        BY PartsTyped
      <4> HIDE DEF old
      <4> DEFINE set == [old EXCEPT !.invalid_attempts = count, !.account_locked = locked]
      <4>3. set = [old EXCEPT !.invalid_attempts = count, !.account_locked = locked]
        OBVIOUS
      <4> HIDE DEF set
      <4>4. set = [access_level |-> old.access_level, invalid_attempts |-> count,
                   account_locked |-> locked, new_user |-> old.new_user]
        BY <4>2, <4>3 DEF Standing
      <4> QED
        BY <4>1, <4>4 DEF old, set
    <3> QED
      BY <3>2 DEF standing, locked
  <2> QED
    BY <2>1, <2>2, <2>3
<1>7. FromPersisted(slot, new, memberships)
      = ApplyAuthOutcome(outcome, FromPersisted(slot, row, memberships))
  BY <1>4, <1>5, <1>6, LoadedParts
<1> QED
  BY <1>3, <1>4, <1>7

LEMMA AuthCommutes ==
    ASSUME NEW slot, NEW row \in UserRow, UserRowOK(row), NEW memberships \in MembershipMaps, NEW outcome \in Outcomes
    PROVE  /\ UpdateAuth(row, outcome) \in UserRow /\ UserRowOK(UpdateAuth(row, outcome))
           /\ FromPersisted(slot, UpdateAuth(row, outcome), memberships)
              = ApplyAuthOutcome(outcome, FromPersisted(slot, row, memberships))
<1>1. \/ outcome \in [kind : {"Matched"}, daily : STRING, force_password_reset : BOOLEAN]
      \/ outcome \in [kind : {"Mismatched"}, lock_account : BOOLEAN]
  BY OutcomesAssumption
<1> QED
  BY <1>1, MatchCommutes, MismatchCommutes

LEMMA PasswordCommutes ==
    ASSUME NEW slot, NEW row \in UserRow, UserRowOK(row), NEW memberships \in MembershipMaps,
           NEW change \in [hash : Hashes, changed_at : Nat]
    PROVE  /\ UpdatePassword(row, change) \in UserRow /\ UserRowOK(UpdatePassword(row, change))
           /\ FromPersisted(slot, UpdatePassword(row, change), memberships)
              = ApplyPasswordChange(change, FromPersisted(slot, row, memberships))
<1> DEFINE hash == change.hash
           time == change.changed_at
           none == 0
           new == UpdatePassword(row, change)
<1>1. hash \in Hashes /\ time \in Nat /\ none \in Columns
  BY DEF Columns
<1>2. new = WithNewPassword(row, hash, time, none)
  BY DEF UpdatePassword, WithNewPassword
<1>3. ApplyPasswordChange(change, FromPersisted(slot, row, memberships))
      = Whole(slot, row.handle, NewCredentials(hash, time), StandingIn(row),
              UsageIn(row), ProfileIn(row), AccessIn(row, memberships))
  BY LoadedParts DEF ApplyPasswordChange, Whole
<1> HIDE DEF new, hash, time, none
<1>4. /\ new \in UserRow /\ UserRowOK(new) /\ new.handle = row.handle
      /\ CredentialsIn(new) = [hash |-> hash, last_updated |-> time, reset |-> none # 0]
      /\ StandingIn(new) = StandingIn(row) /\ UsageIn(new) = UsageIn(row)
      /\ ProfileIn(new) = ProfileIn(row)
      /\ AccessIn(new, memberships) = AccessIn(row, memberships)
  BY <1>1, <1>2, RowsRepassworded
<1>5. CredentialsIn(new) = NewCredentials(hash, time)
  BY <1>4 DEF NewCredentials, none
<1>6. FromPersisted(slot, new, memberships)
      = ApplyPasswordChange(change, FromPersisted(slot, row, memberships))
  BY <1>3, <1>4, <1>5, LoadedParts
<1> QED
  BY <1>4, <1>6 DEF new

\* What a patch does to the columns and what it does to the parts.
LEMMA FlagBack ==
    ASSUME NEW value \in BOOLEAN
    PROVE  Flag(value) \in Columns /\ (Flag(value) # 0) = value
BY DEF Flag, Columns

LEMMA PairMax ==
    ASSUME NEW a \in Nat, NEW b \in Nat
    PROVE  Max({a} \cup {b}) = Later(a, b)
<1> DEFINE top(x) == x \in {a} \cup {b} /\ \A y \in {a} \cup {b} : x >= y
<1>1. top(Later(a, b)) /\ \A x : top(x) => x = Later(a, b)
  BY DEF Later
<1>2. Max({a} \cup {b}) = CHOOSE x \in {a} \cup {b} : \A y \in {a} \cup {b} : x >= y
  BY DEF Max
<1>3. top(CHOOSE x : top(x))
  BY <1>1
<1> QED
  BY <1>1, <1>2, <1>3

LEMMA LastCallPatched ==
    ASSUME NEW column \in Optional(Nat), NEW value \in Optional(Nat)
    PROVE  /\ LatestOf(column, value) \in Optional(Nat)
           /\ LastCall(LatestOf(column, value)) = Later(LastCall(column), OrElse(value, Never))
<1>1. CASE column = {} \/ value = {}
  BY <1>1 DEF LatestOf, LastCall, Later, OrElse, Never, Optional
<1>2. CASE column # {} /\ value # {}
  <2>1. PICK a \in Nat, b \in Nat : column = {a} /\ value = {b}
    BY <1>2 DEF Optional
  <2>2. LatestOf(column, value) = {Later(a, b)}
    BY <1>2, <2>1, PairMax DEF LatestOf
  <2>3. Later(a, b) \in Nat
    BY DEF Later
  <2> QED
    BY <2>1, <2>2, <2>3 DEF LastCall, OrElse, Optional
<1> QED
  BY <1>1, <1>2

\* UPDATE of the columns a patch sets does to the row what the domain does to
\* the account; the memberships are other tables' matter.
LEMMA PatchCommutes ==
    ASSUME NEW slot, NEW row \in UserRow, UserRowOK(row), NEW memberships \in MembershipMaps, NEW patch \in UserPatches
    PROVE  /\ UpdateUser(row, patch) \in UserRow /\ UserRowOK(UpdateUser(row, patch))
           /\ FromPersisted(slot, UpdateUser(row, patch),
                            ApplyMembershipPatches(patch.memberships, memberships))
              = ApplyUserPatch(patch, FromPersisted(slot, row, memberships))
<1> DEFINE a == row.times_called + patch.times_called_delta
           b == row.times_called_today + patch.times_called_today_delta
           c == row.time_used_today + patch.time_used_today_delta
           d == row.messages_posted + patch.messages_posted_delta
           e == LatestOf(row.last_call, patch.last_call)
           f == Coalesce(FlagValue(patch.expert_mode), row.expert_mode)
           g == Coalesce(patch.flags, row.flags)
           h == Coalesce({ref[1] : ref \in patch.last_joined}, row.last_joined_conference)
           i == Coalesce({ref[2] : ref \in patch.last_joined}, row.last_joined_msgbase)
           new == UpdateUser(row, patch)
           patched == ApplyMembershipPatches(patch.memberships, memberships)
<1>1. a \in Nat /\ b \in Nat /\ c \in Nat /\ d \in Nat
  BY DEF UserRow, UserPatches
<1>2. e \in Optional(Nat) /\ LastCall(e) = Later(LastCall(row.last_call), OrElse(patch.last_call, Never))
  BY LastCallPatched DEF UserRow, UserPatches
<1>3. f \in Columns /\ (f # 0) = OrElse(patch.expert_mode, row.expert_mode # 0)
  <2>1. patch.expert_mode \in Optional(BOOLEAN) /\ row.expert_mode \in Columns
    BY DEF UserPatches, UserRow
  <2>2. CASE patch.expert_mode = {}
    <3>1. FlagValue(patch.expert_mode) = {}
      BY <2>2 DEF FlagValue
    <3> QED
      BY <2>1, <2>2, <3>1 DEF Coalesce, OrElse
  <2>3. CASE patch.expert_mode # {}
    <3>1. PICK v \in BOOLEAN : patch.expert_mode = {v}
      BY <2>1, <2>3 DEF Optional
    <3>2. FlagValue(patch.expert_mode) = {Flag(v)}
      BY <3>1 DEF FlagValue
    <3>3. f = Flag(v)
      BY <3>2 DEF Coalesce
    <3>4. OrElse(patch.expert_mode, row.expert_mode # 0) = v
      BY <3>1 DEF OrElse
    <3> QED
      BY <3>3, <3>4, FlagBack
  <2> QED
    BY <2>2, <2>3
<1>4. g \in FlagSets /\ g = OrElse(patch.flags, row.flags)
  BY DEF UserPatches, UserRow, Optional, Coalesce, OrElse
<1>5. /\ h \in Nat /\ i \in Nat
      /\ <<h, i>> = OrElse(patch.last_joined, <<row.last_joined_conference, row.last_joined_msgbase>>)
  <2>1. /\ patch.last_joined \in Optional(Nat \X Nat)
        /\ row.last_joined_conference \in Nat /\ row.last_joined_msgbase \in Nat
    BY DEF UserPatches, UserRow
  <2>2. CASE patch.last_joined = {}
    <3>1. /\ {ref[1] : ref \in patch.last_joined} = {}
          /\ {ref[2] : ref \in patch.last_joined} = {}
      BY <2>2
    <3> QED
      BY <2>1, <2>2, <3>1 DEF Coalesce, OrElse
  <2>3. CASE patch.last_joined # {}
    <3>1. PICK ref \in Nat \X Nat : patch.last_joined = {ref}
      BY <2>1, <2>3 DEF Optional
    <3>2. /\ {r[1] : r \in patch.last_joined} = {ref[1]}
          /\ {r[2] : r \in patch.last_joined} = {ref[2]}
      BY <3>1
    <3>3. h = ref[1] /\ i = ref[2]
      BY <3>2 DEF Coalesce
    <3>4. OrElse(patch.last_joined, <<row.last_joined_conference, row.last_joined_msgbase>>) = ref
      BY <3>1 DEF OrElse
    <3> QED
      BY <3>3, <3>4
  <2> QED
    BY <2>2, <2>3
<1>6. new = WithPatched(row, a, b, c, d, e, f, g, h, i)
  BY DEF UpdateUser, WithPatched
<1>7. a = UsageIn(row).times_called + patch.times_called_delta
  BY DEF UsageIn
<1>8. b = UsageIn(row).times_called_today + patch.times_called_today_delta
  BY DEF UsageIn
<1>9. c = UsageIn(row).time_used_today + patch.time_used_today_delta
  BY DEF UsageIn
<1>10. LastCall(e) = Later(UsageIn(row).last_call, OrElse(patch.last_call, Never))
  BY <1>2 DEF UsageIn, LastCallIn
<1>11. (f # 0) = OrElse(patch.expert_mode, ProfileIn(row).expert_mode)
  BY <1>3 DEF ProfileIn
<1>12. g = OrElse(patch.flags, ProfileIn(row).flags)
  BY <1>4 DEF ProfileIn
<1>13. d = AccessIn(row, memberships).messages_posted + patch.messages_posted_delta
  BY DEF AccessIn
<1>14. <<h, i>> = OrElse(patch.last_joined, AccessIn(row, memberships).last_joined)
  BY <1>5 DEF AccessIn
<1>15. patched = ApplyMembershipPatches(patch.memberships, AccessIn(row, memberships).memberships)
  BY DEF AccessIn
<1> HIDE DEF a, b, c, d, e, f, g, h, i, new, patched
<1>16. /\ new \in UserRow /\ UserRowOK(new) /\ new.handle = row.handle
       /\ CredentialsIn(new) = CredentialsIn(row) /\ StandingIn(new) = StandingIn(row)
       /\ UsageIn(new) = [times_called |-> a, times_called_today |-> b,
                          last_call |-> LastCall(e),
                          time_limit_per_call |-> row.time_limit_per_call,
                          time_limit_per_day |-> row.time_limit_per_day, time_used_today |-> c]
       /\ ProfileIn(new) = [expert_mode |-> f # 0, account_created |-> row.account_created,
                            flags |-> g]
       /\ AccessIn(new, patched) = [memberships |-> patched, last_joined |-> <<h, i>>,
                                    messages_posted |-> d]
  <2>1. Patchable(row, a, b, c, d, e, f, g, h, i)
    BY <1>1, <1>2, <1>3, <1>4, <1>5 DEF Patchable
  <2> QED
    BY <2>1, <1>6, RowsPatched
<1>17. UsageIn(new) = PatchedUsage(UsageIn(row), patch)
  <2> DEFINE last == LastCall(e)
             usage == UsageIn(new)
  <2>1. usage = [times_called |-> a, times_called_today |-> b, last_call |-> last,
                 time_limit_per_call |-> row.time_limit_per_call,
                 time_limit_per_day |-> row.time_limit_per_day, time_used_today |-> c]
    BY <1>16
  <2>2. last = Later(UsageIn(row).last_call, OrElse(patch.last_call, Never))
    BY <1>10
  <2> HIDE DEF last, usage
  <2>3. usage = [UsageIn(row) EXCEPT !.times_called = a, !.times_called_today = b,
                                     !.time_used_today = c, !.last_call = last]
    <3> DEFINE old == UsageIn(row)
    <3>1. usage = [times_called |-> a, times_called_today |-> b, last_call |-> last,
                   time_limit_per_call |-> old.time_limit_per_call,
                   time_limit_per_day |-> old.time_limit_per_day, time_used_today |-> c]
      BY <2>1 DEF UsageIn
    <3>2. old \in Usages
      BY PartsTyped
    <3> HIDE DEF old
    <3> DEFINE set == [old EXCEPT !.times_called = a, !.times_called_today = b,
                                  !.time_used_today = c, !.last_call = last]
    <3>3. set = [old EXCEPT !.times_called = a, !.times_called_today = b,
                            !.time_used_today = c, !.last_call = last]
      OBVIOUS
    <3> HIDE DEF set
    <3>4. set = [times_called |-> a, times_called_today |-> b, last_call |-> last,
                 time_limit_per_call |-> old.time_limit_per_call,
                 time_limit_per_day |-> old.time_limit_per_day, time_used_today |-> c]
      BY <3>2, <3>3 DEF Usages
    <3> QED
      BY <3>1, <3>4 DEF old, set
  <2>4. usage = PatchedUsage(UsageIn(row), patch)
    BY <2>2, <2>3, <1>7, <1>8, <1>9 DEF PatchedUsage
  <2> QED
    BY <2>4 DEF usage
<1>18. ProfileIn(new) = PatchedProfile(ProfileIn(row), patch)
  <2> DEFINE expert == f # 0
             profile == ProfileIn(new)
  <2>1. profile = [expert_mode |-> expert, account_created |-> row.account_created, flags |-> g]
    BY <1>16
  <2>2. expert = OrElse(patch.expert_mode, ProfileIn(row).expert_mode)
    BY <1>11
  <2> HIDE DEF expert, profile
  <2>3. profile = [ProfileIn(row) EXCEPT !.expert_mode = expert, !.flags = g]
    <3> DEFINE old == ProfileIn(row)
    <3>1. profile = [expert_mode |-> expert, account_created |-> old.account_created, flags |-> g]
      BY <2>1 DEF ProfileIn
    <3>2. old \in Profiles
      BY PartsTyped
    <3> HIDE DEF old
    <3> DEFINE set == [old EXCEPT !.expert_mode = expert, !.flags = g]
    <3>3. set = [old EXCEPT !.expert_mode = expert, !.flags = g]
      OBVIOUS
    <3> HIDE DEF set
    <3>4. set = [expert_mode |-> expert, account_created |-> old.account_created, flags |-> g]
      BY <3>2, <3>3 DEF Profiles
    <3> QED
      BY <3>1, <3>4 DEF old, set
  <2>4. profile = PatchedProfile(ProfileIn(row), patch)
    BY <2>2, <2>3, <1>12 DEF PatchedProfile
  <2> QED
    BY <2>4 DEF profile
<1>19. AccessIn(new, patched) = PatchedConferences(AccessIn(row, memberships), patch)
  <2> DEFINE access == AccessIn(new, patched)
             joined == <<h, i>>
  <2>1. access = [memberships |-> patched, last_joined |-> joined, messages_posted |-> d]
    BY <1>16
  <2>2. joined = OrElse(patch.last_joined, AccessIn(row, memberships).last_joined)
    BY <1>14
  <2> HIDE DEF access, joined
  <2>3. access = [AccessIn(row, memberships) EXCEPT !.messages_posted = d,
                                                    !.last_joined = joined,
                                                    !.memberships = patched]
    <3> DEFINE old == AccessIn(row, memberships)
    <3>1. old \in Access
      BY PartsTyped
    <3> HIDE DEF old
    <3> DEFINE set == [old EXCEPT !.messages_posted = d, !.last_joined = joined,
                                  !.memberships = patched]
    <3>2. set = [old EXCEPT !.messages_posted = d, !.last_joined = joined,
                            !.memberships = patched]
      OBVIOUS
    <3> HIDE DEF set
    <3>3. set = [memberships |-> patched, last_joined |-> joined, messages_posted |-> d]
      BY <3>1, <3>2 DEF Access
    <3> QED
      BY <2>1, <3>3 DEF old, set
  <2>4. access = PatchedConferences(AccessIn(row, memberships), patch)
    BY <2>2, <2>3, <1>13, <1>15 DEF PatchedConferences
  <2> QED
    BY <2>4 DEF access
<1>20. ApplyUserPatch(patch, FromPersisted(slot, row, memberships))
       = Whole(slot, row.handle, CredentialsIn(row), StandingIn(row),
               PatchedUsage(UsageIn(row), patch), PatchedProfile(ProfileIn(row), patch),
               PatchedConferences(AccessIn(row, memberships), patch))
  <2> DEFINE old == FromPersisted(slot, row, memberships)
  <2>1. /\ old \in [slot_number : {slot}, handle : Names, credentials : Credentials,
                    account : Standing, usage : Usages, profile : Profiles, conferences : Access]
        /\ old.slot_number = slot /\ old.handle = row.handle
        /\ old.credentials = CredentialsIn(row) /\ old.account = StandingIn(row)
        /\ old.usage = UsageIn(row) /\ old.profile = ProfileIn(row)
        /\ old.conferences = AccessIn(row, memberships)
    BY PartsTyped, LoadedParts DEF Whole
  <2> HIDE DEF old
  <2> DEFINE u == PatchedUsage(UsageIn(row), patch)
             p == PatchedProfile(ProfileIn(row), patch)
             k == PatchedConferences(AccessIn(row, memberships), patch)
             set == ApplyUserPatch(patch, old)
  <2>2. set = [old EXCEPT !.usage = u, !.profile = p, !.conferences = k]
    BY <2>1 DEF ApplyUserPatch
  <2> HIDE DEF set, u, p, k
  <2>3. set = [slot_number |-> slot, handle |-> row.handle, credentials |-> CredentialsIn(row),
               account |-> StandingIn(row), usage |-> u, profile |-> p, conferences |-> k]
    BY <2>1, <2>2
  <2> QED
    BY <2>3 DEF old, set, u, p, k, Whole
<1>21. FromPersisted(slot, new, patched) = ApplyUserPatch(patch, FromPersisted(slot, row, memberships))
  BY <1>16, <1>17, <1>18, <1>19, <1>20, LoadedParts
<1> QED
  BY <1>16, <1>21 DEF new, patched

----------------------------------------------------------------------------
(* The memberships of a slot.                                               *)

MembershipIn(row, pointers) ==
    [granted |-> row.granted # 0, messages_posted |-> row.messages_posted,
     scan_flags |-> FlagsOf(row), pointers |-> pointers]

\* The bases and the conferences a slot has rows for, and what they say.
Bases(t, slot, c) == {b \in Nat : <<slot, c, b>> \in DOMAIN t.pointers}
Numbers(t, slot) == {c \in Nat : <<slot, c>> \in DOMAIN t.memberships}
PointersOf(t, slot, c) == [b \in Bases(t, slot, c) |-> t.pointers[<<slot, c, b>>]]
MembershipsOf(t, slot) ==
    [c \in Numbers(t, slot) |->
        MembershipIn(t.memberships[<<slot, c>>], PointersOf(t, slot, c))]

LEMMA TablesTyped ==
    ASSUME NEW t \in Tables
    PROVE  /\ t.users \in UserTable /\ t.memberships \in MembershipTable /\ t.pointers \in PointerTable
           /\ \A slot \in DOMAIN t.users : /\ slot \in Nat /\ t.users[slot] \in UserRow
                                           /\ UserRowOK(t.users[slot])
           /\ \A key \in DOMAIN t.memberships :
                /\ key = <<key[1], key[2]>> /\ key[1] \in DOMAIN t.users /\ key[2] \in Nat
                /\ t.memberships[key] \in MembershipRows
           /\ \A key \in DOMAIN t.pointers :
                /\ key = <<key[1], key[2], key[3]>> /\ key[1] \in Nat /\ key[2] \in Nat /\ key[3] \in Nat
                /\ <<key[1], key[2]>> \in DOMAIN t.memberships
                /\ t.pointers[key] \in Pointers
                /\ t.pointers[key].last_read <= t.pointers[key].last_scanned
<1>1. /\ t.users \in UserTable /\ t.memberships \in MembershipTable /\ t.pointers \in PointerTable
      /\ \A slot \in DOMAIN t.users : UserRowOK(t.users[slot])
      /\ ConstraintsHold(t)
  BY DEF Tables
<1>2. \A slot \in DOMAIN t.users : slot \in Nat /\ t.users[slot] \in UserRow
  BY <1>1 DEF UserTable
<1>3. \A key \in DOMAIN t.memberships :
         key = <<key[1], key[2]>> /\ key[2] \in Nat /\ t.memberships[key] \in MembershipRows
  BY <1>1 DEF MembershipTable
<1>4. \A key \in DOMAIN t.pointers :
        /\ key = <<key[1], key[2], key[3]>> /\ key[1] \in Nat /\ key[2] \in Nat /\ key[3] \in Nat
        /\ t.pointers[key] \in Pointers
  BY <1>1 DEF PointerTable
<1> QED
  BY <1>1, <1>2, <1>3, <1>4 DEF ConstraintsHold

\* The pointer rows of a membership,
LEMMA PointersLoaded ==
    ASSUME NEW t \in Tables, NEW slot, NEW c
    PROVE  /\ LoadPointers(t, slot, c) \in PointerMaps
           /\ LoadPointers(t, slot, c) = PointersOf(t, slot, c)
<1> DEFINE own == {key \in DOMAIN t.pointers : key[1] = slot /\ key[2] = c}
           bases == {key[3] : key \in own}
<1>1. bases = Bases(t, slot, c)
  <2>1. ASSUME NEW b \in bases PROVE b \in Nat /\ <<slot, c, b>> \in DOMAIN t.pointers
    BY TablesTyped
  <2>2. ASSUME NEW b \in Nat, <<slot, c, b>> \in DOMAIN t.pointers PROVE b \in bases
    <3>1. <<slot, c, b>> \in own
      BY <2>2
    <3> QED
      BY <3>1
  <2> QED
    BY <2>1, <2>2 DEF Bases
<1>2. LoadPointers(t, slot, c) = [b \in bases |-> t.pointers[<<slot, c, b>>]]
  BY DEF LoadPointers
<1>3. [b \in bases |-> t.pointers[<<slot, c, b>>]] \in [bases -> Pointers]
  BY <1>1, TablesTyped DEF Bases
<1>4. bases \in SUBSET Nat
  BY <1>1 DEF Bases
<1> HIDE DEF bases
<1>5. LoadPointers(t, slot, c) \in PointerMaps
  BY <1>2, <1>3, <1>4 DEF PointerMaps
<1> QED
  BY <1>1, <1>2, <1>5 DEF PointersOf

\* its flags, there and back,
LEMMA FlagsBack ==
    ASSUME NEW flags \in SUBSET ScanFlags, NEW granted \in Columns, NEW posted \in Nat
    PROVE  /\ MembershipColumns(granted, posted, flags) \in MembershipRows
           /\ MembershipColumns(granted, posted, flags).granted = granted
           /\ MembershipColumns(granted, posted, flags).messages_posted = posted
           /\ FlagsOf(MembershipColumns(granted, posted, flags)) = flags
<1> DEFINE row == MembershipColumns(granted, posted, flags)
<1>0. row \in MembershipRows /\ row.granted = granted /\ row.messages_posted = posted
  BY DEF MembershipColumns, MembershipRows, Flag, Columns
<1>1. /\ (row.mail_scan # 0) = ("MailScan" \in flags)
      /\ (row.mailscan_all # 0) = ("MailScanAll" \in flags)
      /\ (row.file_scan # 0) = ("FileScan" \in flags)
      /\ (row.zoom_scan # 0) = ("Zoom" \in flags)
  BY DEF MembershipColumns, Flag
<1> HIDE DEF row
<1>2. \A f \in ScanFlags : f \in FlagsOf(row) <=> f \in flags
  BY <1>1 DEF FlagsOf, ScanFlags
<1>3. FlagsOf(row) \subseteq ScanFlags
  BY DEF FlagsOf
<1> QED
  BY <1>0, <1>2, <1>3 DEF row

LEMMA FlagsTyped == \A row : FlagsOf(row) \in SUBSET ScanFlags
BY DEF FlagsOf

\* and the memberships of an account.
LEMMA MembershipsLoaded ==
    ASSUME NEW t \in Tables, NEW slot
    PROVE  /\ LoadMemberships(t, slot) \in MembershipMaps
           /\ LoadMemberships(t, slot) = MembershipsOf(t, slot)
<1> DEFINE own == {key \in DOMAIN t.memberships : key[1] = slot}
           numbers == {key[2] : key \in own}
           row(c) == MembershipIn(t.memberships[<<slot, c>>], PointersOf(t, slot, c))
<1>1. numbers = Numbers(t, slot)
  <2>1. ASSUME NEW c \in numbers PROVE c \in Nat /\ <<slot, c>> \in DOMAIN t.memberships
    BY TablesTyped
  <2>2. ASSUME NEW c \in Nat, <<slot, c>> \in DOMAIN t.memberships PROVE c \in numbers
    <3>1. <<slot, c>> \in own
      BY <2>2
    <3> QED
      BY <3>1
  <2> QED
    BY <2>1, <2>2 DEF Numbers
<1>2. LoadMemberships(t, slot)
      = [c \in numbers |-> MembershipIn(t.memberships[<<slot, c>>], LoadPointers(t, slot, c))]
  BY DEF LoadMemberships, MembershipIn
<1>3. \A c \in numbers : LoadPointers(t, slot, c) = PointersOf(t, slot, c)
  BY PointersLoaded
<1>4. ASSUME NEW c \in numbers PROVE row(c) \in Memberships
  <2>1. t.memberships[<<slot, c>>] \in MembershipRows
    BY <1>1, TablesTyped DEF Numbers
  <2>2. PointersOf(t, slot, c) \in PointerMaps
    BY <1>3, PointersLoaded
  <2> QED
    BY <2>1, <2>2, FlagsTyped DEF MembershipIn, MembershipRows, Memberships
<1>5. numbers \in SUBSET Nat
  BY <1>1 DEF Numbers
<1> HIDE DEF numbers
<1>6. LoadMemberships(t, slot) = [c \in numbers |-> row(c)]
  BY <1>2, <1>3
<1> HIDE DEF row
<1>7. LoadMemberships(t, slot) \in [numbers -> Memberships]
  BY <1>4, <1>6
<1>8. LoadMemberships(t, slot) \in MembershipMaps
  BY <1>5, <1>7 DEF MembershipMaps
<1> QED
  BY <1>1, <1>6, <1>8 DEF MembershipsOf, row

\* Two sets of tables with the same rows for a slot load the same.
LEMMA SameRowsSameLoad ==
    ASSUME NEW t \in Tables, NEW s \in Tables, NEW slot,
           Numbers(s, slot) = Numbers(t, slot),
           \A c \in Numbers(t, slot) : s.memberships[<<slot, c>>] = t.memberships[<<slot, c>>],
           \A c \in Numbers(t, slot) : Bases(s, slot, c) = Bases(t, slot, c),
           \A c \in Numbers(t, slot) : \A b \in Bases(t, slot, c) :
               s.pointers[<<slot, c, b>>] = t.pointers[<<slot, c, b>>]
    PROVE  LoadMemberships(s, slot) = LoadMemberships(t, slot)
<1>1. ASSUME NEW c \in Numbers(t, slot) PROVE PointersOf(s, slot, c) = PointersOf(t, slot, c)
  BY DEF PointersOf
<1>2. MembershipsOf(s, slot) = MembershipsOf(t, slot)
  BY <1>1 DEF MembershipsOf
<1> QED
  BY <1>2, MembershipsLoaded

----------------------------------------------------------------------------
(* The patch of one membership.                                             *)

PatchOK(patch) ==
    /\ patch \in MembershipPatch
    /\ patch.granted \in Optional(BOOLEAN) /\ patch.scan_flags \in Optional(SUBSET ScanFlags)

\* The row as the statement leaves it, read back.
LEMMA RowPatched ==
    ASSUME NEW row \in MembershipRows, NEW patch, PatchOK(patch)
    PROVE  /\ UpdateMembership(row, patch) \in MembershipRows
           /\ (UpdateMembership(row, patch).granted # 0) = OrElse(patch.granted, row.granted # 0)
           /\ UpdateMembership(row, patch).messages_posted
              = row.messages_posted + patch.messages_posted_delta
           /\ FlagsOf(UpdateMembership(row, patch)) = OrElse(patch.scan_flags, FlagsOf(row))
<1> DEFINE flags == OrElse(patch.scan_flags, FlagsOf(row))
           grant == Coalesce(FlagValue(patch.granted), row.granted)
           count == row.messages_posted + patch.messages_posted_delta
           new == UpdateMembership(row, patch)
<1>1. /\ patch.granted \in Optional(BOOLEAN) /\ patch.scan_flags \in Optional(SUBSET ScanFlags)
      /\ patch.messages_posted_delta \in Nat
  BY DEF PatchOK, MembershipPatch
<1>2. flags \in SUBSET ScanFlags
  BY <1>1, FlagsTyped DEF OrElse, Optional
<1>3. grant \in Columns /\ (grant # 0) = OrElse(patch.granted, row.granted # 0)
  <2>1. row.granted \in Columns
    BY DEF MembershipRows
  <2>2. CASE patch.granted = {}
    <3>1. FlagValue(patch.granted) = {}
      BY <2>2 DEF FlagValue
    <3> QED
      BY <2>1, <2>2, <3>1 DEF Coalesce, OrElse
  <2>3. CASE patch.granted # {}
    <3>1. PICK v \in BOOLEAN : patch.granted = {v}
      BY <1>1, <2>3 DEF Optional
    <3>2. FlagValue(patch.granted) = {Flag(v)}
      BY <3>1 DEF FlagValue
    <3>3. grant = Flag(v) /\ OrElse(patch.granted, row.granted # 0) = v
      BY <3>1, <3>2 DEF Coalesce, OrElse
    <3> QED
      BY <3>3, FlagBack
  <2> QED
    BY <2>2, <2>3
<1>4. count \in Nat
  BY <1>1 DEF MembershipRows
<1>5. new = MembershipColumns(grant, count, flags)
  BY DEF UpdateMembership, Coalesce, OrElse
<1> HIDE DEF flags, grant, count, new
<1> QED
  BY <1>2, <1>3, <1>4, <1>5, FlagsBack DEF flags, count, new

\* What one patch makes of the memberships of an account.
AfterPatch(patch, memberships) ==
    [c \in DOMAIN memberships
           \cup (IF patch.create_if_missing THEN {patch.conference_number} ELSE {}) |->
        IF c = patch.conference_number
          THEN PatchedMembership(IF c \in DOMAIN memberships THEN memberships[c]
                                 ELSE NewMembership(OrElse(patch.granted, TRUE)), patch)
          ELSE memberships[c]]

\* The patches of a command, with their lookups named.
Patched(patches) == {patch.conference_number : patch \in patches}
Creating(patches) == Patched({patch \in patches : patch.create_if_missing})
PatchFor(patches, c) == CHOOSE patch \in patches : patch.conference_number = c
RowFor(patches, memberships, c) ==
    IF c \in DOMAIN memberships THEN memberships[c]
    ELSE NewMembership(OrElse(PatchFor(patches, c).granted, TRUE))
AfterPatches(patches, memberships, c) ==
    IF c \in Patched(patches)
      THEN PatchedMembership(RowFor(patches, memberships, c), PatchFor(patches, c))
      ELSE memberships[c]

LEMMA PatchesApplied ==
    ASSUME NEW patches, NEW memberships
    PROVE  ApplyMembershipPatches(patches, memberships)
           = [c \in DOMAIN memberships \cup Creating(patches) |-> AfterPatches(patches, memberships, c)]
BY DEF ApplyMembershipPatches, AfterPatches, Creating, Patched, PatchFor, RowFor

\* Nothing to do leaves the memberships as they are,
LEMMA NoPatch ==
    ASSUME NEW memberships, memberships = [c \in DOMAIN memberships |-> memberships[c]]
    PROVE  ApplyMembershipPatches({}, memberships) = memberships
<1>1. Creating({}) = {} /\ Patched({}) = {}
  BY DEF Creating, Patched
<1>2. [c \in DOMAIN memberships \cup {} |-> AfterPatches({}, memberships, c)]
      = [c \in DOMAIN memberships |-> memberships[c]]
  BY <1>1 DEF AfterPatches
<1> QED
  BY <1>1, <1>2, PatchesApplied

\* and one of the patches may be done first.
LEMMA PatchesInTurn ==
    ASSUME NEW patches, NEW memberships, NEW patch \in patches,
           \A p, q \in patches : p.conference_number = q.conference_number => p = q,
           \A p \in patches : p.create_if_missing \in BOOLEAN
    PROVE  ApplyMembershipPatches(patches, memberships)
           = ApplyMembershipPatches(patches \ {patch}, AfterPatch(patch, memberships))
<1> DEFINE rest == patches \ {patch}
           after == AfterPatch(patch, memberships)
           own == patch.conference_number
<1>1. Patched(patches) = Patched(rest) \cup {own} /\ own \notin Patched(rest)
  BY DEF Patched
<1>2. DOMAIN after = DOMAIN memberships \cup (IF patch.create_if_missing THEN {own} ELSE {})
  BY DEF AfterPatch
<1>3. DOMAIN memberships \cup Creating(patches) = DOMAIN after \cup Creating(rest)
  <2>1. Creating(patches) = Creating(rest) \cup (IF patch.create_if_missing THEN {own} ELSE {})
    BY DEF Creating, Patched
  <2> QED
    BY <2>1, <1>2
<1>4. ASSUME NEW c \in DOMAIN memberships \cup Creating(patches)
      PROVE  AfterPatches(patches, memberships, c) = AfterPatches(rest, after, c)
  <2>1. CASE c = own
    <3>1. PatchFor(patches, own) = patch
      BY DEF PatchFor
    <3>2. c \in DOMAIN after
      <4>1. CASE c \in DOMAIN memberships
        BY <4>1, <1>2
      <4>2. CASE c \in Creating(patches)
        BY <4>2, <2>1, <1>2 DEF Creating, Patched
      <4> QED
        BY <4>1, <4>2
    <3>3. after[c] = PatchedMembership(RowFor(patches, memberships, c), patch)
      BY <2>1, <3>1, <3>2, <1>2 DEF AfterPatch, RowFor
    <3>4. AfterPatches(rest, after, c) = after[c]
      BY <2>1, <1>1 DEF AfterPatches
    <3> QED
      BY <2>1, <1>1, <3>1, <3>3, <3>4 DEF AfterPatches
  <2>2. CASE c # own
    <3>1. PatchFor(patches, c) = PatchFor(rest, c)
      <4>1. \A p : p \in patches /\ p.conference_number = c <=> p \in rest /\ p.conference_number = c
        BY <2>2
      <4>2. PatchFor(patches, c) = CHOOSE p : p \in patches /\ p.conference_number = c
        BY DEF PatchFor
      <4>3. PatchFor(rest, c) = CHOOSE p : p \in rest /\ p.conference_number = c
        BY DEF PatchFor
      <4>4. (CHOOSE p : p \in patches /\ p.conference_number = c)
            = CHOOSE p : p \in rest /\ p.conference_number = c
        BY <4>1
      <4> QED
        BY <4>2, <4>3, <4>4
    <3>2. c \in DOMAIN after <=> c \in DOMAIN memberships
      BY <2>2, <1>2
    <3>3. c \in DOMAIN memberships => after[c] = memberships[c]
      BY <2>2, <1>2 DEF AfterPatch
    <3>4. RowFor(patches, memberships, c) = RowFor(rest, after, c)
      BY <3>1, <3>2, <3>3 DEF RowFor
    <3>5. c \in Patched(patches) <=> c \in Patched(rest)
      BY <1>1, <2>2
    <3>6. c \notin Patched(rest) => c \in DOMAIN memberships
      BY <3>5 DEF Creating, Patched
    <3> QED
      BY <3>1, <3>3, <3>4, <3>5, <3>6 DEF AfterPatches
  <2> QED
    BY <2>1, <2>2
<1> HIDE DEF rest, after
<1>5. [c \in DOMAIN memberships \cup Creating(patches) |-> AfterPatches(patches, memberships, c)]
      = [c \in DOMAIN after \cup Creating(rest) |-> AfterPatches(rest, after, c)]
  BY <1>3, <1>4
<1>6. ApplyMembershipPatches(rest, after)
      = [c \in DOMAIN after \cup Creating(rest) |-> AfterPatches(rest, after, c)]
  BY PatchesApplied
<1>7. ApplyMembershipPatches(patches, memberships)
      = [c \in DOMAIN memberships \cup Creating(patches) |-> AfterPatches(patches, memberships, c)]
  BY PatchesApplied
<1> QED
  BY <1>5, <1>6, <1>7 DEF rest, after

\* The rows after the three statements of a patch.
RowAfter(t, key, patch) ==
    IF key \in DOMAIN t.memberships THEN UpdateMembership(t.memberships[key], patch)
    ELSE BornMembership(patch)
PointerAfter(t, k, patch) ==
    IF k \in DOMAIN t.pointers THEN MergedPointer(t.pointers[k], patch.pointers[k[3]])
    ELSE patch.pointers[k[3]]

LEMMA RowsAfterPatch ==
    ASSUME NEW t \in Tables, NEW slot \in DOMAIN t.users, NEW patch, PatchOK(patch),
           NEW key, key = <<slot, patch.conference_number>>,
           NEW new, new = PatchMembership(t, slot, patch)
    PROVE  /\ new = [users |-> new.users, memberships |-> new.memberships, pointers |-> new.pointers]
           /\ new.users = t.users
           /\ new.memberships \in MembershipTable /\ new.pointers \in PointerTable
           /\ DOMAIN new.memberships
              = DOMAIN t.memberships \cup (IF patch.create_if_missing THEN {key} ELSE {})
           /\ \A k \in DOMAIN new.memberships :
                new.memberships[k] = IF k = key THEN RowAfter(t, key, patch) ELSE t.memberships[k]
           /\ DOMAIN new.pointers
              = DOMAIN t.pointers \cup {<<key[1], key[2], base>> : base \in DOMAIN patch.pointers}
           /\ \A k \in DOMAIN new.pointers :
                new.pointers[k] = IF <<k[1], k[2]>> # key \/ k[3] \notin DOMAIN patch.pointers
                                    THEN t.pointers[k] ELSE PointerAfter(t, k, patch)
<1> DEFINE patched ==
             IF key \in DOMAIN t.memberships
               THEN [t EXCEPT !.memberships[key] = UpdateMembership(@, patch)]
             ELSE IF patch.create_if_missing
               THEN [t EXCEPT !.memberships = Put(@, key, BornMembership(patch))]
             ELSE t
<1>1. new = UpsertPointer(patched, key, patch.pointers)
  BY DEF PatchMembership
<1>2. /\ t \in [users : UserTable, memberships : MembershipTable, pointers : PointerTable]
      /\ slot \in Nat
  BY TablesTyped DEF Tables
<1>3. /\ patch.conference_number \in Nat /\ patch.create_if_missing \in BOOLEAN
      /\ patch.pointers \in PointerMaps
  BY DEF PatchOK, MembershipPatch
<1>4. key \in DOMAIN t.memberships => UpdateMembership(t.memberships[key], patch) \in MembershipRows
  BY RowPatched, TablesTyped
<1>5. BornMembership(patch) \in MembershipRows
  <2>1. MembershipColumns(1, 0, {"MailScan", "FileScan"}) \in MembershipRows
    BY FlagsBack DEF ScanFlags, Columns
  <2> QED
    BY <2>1, RowPatched DEF BornMembership
<1>6. key \in Nat \X Nat
  BY <1>2, <1>3
<1>7. PICK keys \in SUBSET (Nat \X Nat) : t.memberships \in [keys -> MembershipRows]
  BY <1>2 DEF MembershipTable
<1>8. /\ patched \in [users : UserTable, memberships : MembershipTable, pointers : PointerTable]
      /\ patched.users = t.users /\ patched.pointers = t.pointers
      /\ DOMAIN patched.memberships
         = DOMAIN t.memberships \cup (IF patch.create_if_missing THEN {key} ELSE {})
      /\ \A k \in DOMAIN patched.memberships :
           patched.memberships[k] = IF k = key THEN RowAfter(t, key, patch) ELSE t.memberships[k]
  <2>1. CASE key \in DOMAIN t.memberships
    <3> DEFINE ms == [t.memberships EXCEPT ![key] = UpdateMembership(t.memberships[key], patch)]
    <3>1. patched = [t EXCEPT !.memberships = ms]
      BY <2>1, <1>2
    <3>2. ms \in [keys -> MembershipRows]
      BY <1>7, <1>4, <2>1
    <3>3. /\ DOMAIN ms = DOMAIN t.memberships
          /\ \A k \in DOMAIN ms : ms[k] = IF k = key THEN RowAfter(t, key, patch) ELSE t.memberships[k]
      BY <1>7, <2>1 DEF RowAfter
    <3> HIDE DEF patched, ms
    <3>4. ms \in MembershipTable
      BY <3>2 DEF MembershipTable
    <3>5. /\ patched \in [users : UserTable, memberships : MembershipTable, pointers : PointerTable]
          /\ patched.users = t.users /\ patched.pointers = t.pointers /\ patched.memberships = ms
      BY <3>1, <3>4, <1>2
    <3> QED
      BY <3>3, <3>5, <2>1
  <2>2. CASE key \notin DOMAIN t.memberships /\ patch.create_if_missing
    <3> DEFINE ms == Put(t.memberships, key, BornMembership(patch))
    <3>1. patched = [t EXCEPT !.memberships = ms]
      BY <2>2, <1>2
    <3>2. /\ DOMAIN ms = DOMAIN t.memberships \cup {key}
          /\ \A k \in DOMAIN ms : ms[k] = IF k = key THEN RowAfter(t, key, patch) ELSE t.memberships[k]
      BY <2>2 DEF RowAfter, Put
    <3>3. ms \in [keys \cup {key} -> MembershipRows]
      BY <1>7, <1>5 DEF Put
    <3>4. keys \cup {key} \in SUBSET (Nat \X Nat)
      BY <1>6
    <3> HIDE DEF patched, ms
    <3>5. ms \in MembershipTable
      BY <3>3, <3>4 DEF MembershipTable
    <3>6. /\ patched \in [users : UserTable, memberships : MembershipTable, pointers : PointerTable]
          /\ patched.users = t.users /\ patched.pointers = t.pointers /\ patched.memberships = ms
      BY <3>1, <3>5, <1>2
    <3> QED
      BY <3>2, <3>6, <2>2
  <2>3. CASE key \notin DOMAIN t.memberships /\ ~patch.create_if_missing
    <3>1. patched = t
      BY <2>3
    <3> HIDE DEF patched
    <3> QED
      BY <3>1, <2>3, <1>2
  <2> QED
    BY <2>1, <2>2, <2>3
<1> HIDE DEF patched
<1> DEFINE added == {<<key[1], key[2], base>> : base \in DOMAIN patch.pointers}
           ps == [k \in DOMAIN t.pointers \cup added |->
                    IF <<k[1], k[2]>> # key \/ k[3] \notin DOMAIN patch.pointers THEN t.pointers[k]
                    ELSE PointerAfter(t, k, patch)]
<1>9. new = [patched EXCEPT !.pointers = ps]
  BY <1>1, <1>8 DEF UpsertPointer, PointerAfter
<1>10. ps \in PointerTable
  <2>1. added \in SUBSET (Nat \X Nat \X Nat)
    <3>1. DOMAIN patch.pointers \in SUBSET Nat
      BY <1>3 DEF PointerMaps
    <3>2. key[1] \in Nat /\ key[2] \in Nat
      BY <1>6
    <3> QED
      BY <3>1, <3>2
  <2>2. ASSUME NEW k \in DOMAIN t.pointers \cup added PROVE ps[k] \in Pointers
    <3>1. CASE <<k[1], k[2]>> # key \/ k[3] \notin DOMAIN patch.pointers
      <4>1. k \in DOMAIN t.pointers
        BY <3>1, <1>6
      <4> QED
        BY <3>1, <4>1, TablesTyped
    <3>2. CASE <<k[1], k[2]>> = key /\ k[3] \in DOMAIN patch.pointers
      <4>1. patch.pointers[k[3]] \in Pointers
        BY <3>2, <1>3 DEF PointerMaps
      <4>2. k \in DOMAIN t.pointers => t.pointers[k] \in Pointers
        BY TablesTyped
      <4>3. PointerAfter(t, k, patch) \in Pointers
        BY <4>1, <4>2 DEF PointerAfter, MergedPointer, Pointers, Later
      <4> QED
        BY <3>2, <4>3
    <3> QED
      BY <3>1, <3>2
  <2>3. DOMAIN t.pointers \cup added \in SUBSET (Nat \X Nat \X Nat)
    BY <2>1, <1>2 DEF PointerTable
  <2>4. ps \in [DOMAIN t.pointers \cup added -> Pointers]
    BY <2>2
  <2> QED
    BY <2>3, <2>4 DEF PointerTable
<1>11. /\ DOMAIN ps = DOMAIN t.pointers \cup added
       /\ \A k \in DOMAIN ps :
            ps[k] = IF <<k[1], k[2]>> # key \/ k[3] \notin DOMAIN patch.pointers
                      THEN t.pointers[k] ELSE PointerAfter(t, k, patch)
  OBVIOUS
<1> HIDE DEF ps
<1>12. /\ new = [users |-> new.users, memberships |-> new.memberships, pointers |-> new.pointers]
       /\ new.users = patched.users /\ new.memberships = patched.memberships /\ new.pointers = ps
  BY <1>8, <1>9
<1> QED
  BY <1>8, <1>10, <1>11, <1>12

\* The steps of a pointer, column by column.
LEMMA PointerMoves ==
    ASSUME NEW row \in Pointers, NEW to \in Nat
    PROVE  /\ PointersAdvanceLastRead(row, to)
              = [last_read |-> Later(row.last_read, to),
                 last_scanned |-> Later(row.last_scanned, Later(row.last_read, to)),
                 new_since |-> row.new_since]
           /\ PointersAdvanceLastScanned(row, to)
              = [last_read |-> row.last_read, last_scanned |-> Later(row.last_scanned, to),
                 new_since |-> row.new_since]
           /\ PointersAdvanceLastRead(row, to) \in Pointers
           /\ PointersAdvanceLastScanned(row, to) \in Pointers
<1> DEFINE read == Later(row.last_read, to)
           scanned == Later(row.last_scanned, read)
           reading == PointersAdvanceLastRead(row, to)
           scanning == PointersAdvanceLastScanned(row, to)
<1>1. read \in Nat /\ scanned \in Nat /\ Later(row.last_scanned, to) \in Nat
  BY DEF Later, Pointers
<1>2. reading = [row EXCEPT !.last_read = read, !.last_scanned = scanned]
  BY DEF PointersAdvanceLastRead
<1>3. scanning = [row EXCEPT !.last_scanned = Later(row.last_scanned, to)]
  BY DEF PointersAdvanceLastScanned
<1> HIDE DEF read, scanned, reading, scanning
<1>4. reading = [last_read |-> read, last_scanned |-> scanned, new_since |-> row.new_since]
  BY <1>2 DEF Pointers
<1>5. scanning = [last_read |-> row.last_read, last_scanned |-> Later(row.last_scanned, to),
                  new_since |-> row.new_since]
  BY <1>3 DEF Pointers
<1>6. reading \in Pointers /\ scanning \in Pointers
  BY <1>1, <1>4, <1>5 DEF Pointers
<1> QED
  BY <1>4, <1>5, <1>6 DEF reading, scanning, read, scanned

LEMMA PointerAbsorbed ==
    ASSUME NEW row \in Pointers, NEW patch \in Pointers
    PROVE  AbsorbPointers(row, patch)
           = [last_read |-> Later(row.last_read, patch.last_read),
              last_scanned |-> Later(Later(row.last_scanned, Later(row.last_read, patch.last_read)),
                                     patch.last_scanned),
              new_since |-> row.new_since]
<1> DEFINE middle == PointersAdvanceLastRead(row, patch.last_read)
<1>1. patch.last_read \in Nat /\ patch.last_scanned \in Nat
  BY DEF Pointers
<1>2. /\ middle \in Pointers
      /\ middle.last_read = Later(row.last_read, patch.last_read)
      /\ middle.last_scanned = Later(row.last_scanned, Later(row.last_read, patch.last_read))
      /\ middle.new_since = row.new_since
  <2>1. /\ middle = [last_read |-> Later(row.last_read, patch.last_read),
                     last_scanned |-> Later(row.last_scanned, Later(row.last_read, patch.last_read)),
                     new_since |-> row.new_since]
        /\ middle \in Pointers
    BY <1>1, PointerMoves
  <2> HIDE DEF middle
  <2> QED
    BY <2>1
<1>3. AbsorbPointers(row, patch) = PointersAdvanceLastScanned(middle, patch.last_scanned)
  BY DEF AbsorbPointers
<1> HIDE DEF middle
<1>4. PointersAdvanceLastScanned(middle, patch.last_scanned)
      = [last_read |-> middle.last_read,
         last_scanned |-> Later(middle.last_scanned, patch.last_scanned),
         new_since |-> middle.new_since]
  BY <1>1, <1>2, PointerMoves
<1> QED
  BY <1>2, <1>3, <1>4

\* A pointer the constraint lets pass is the pointer the domain makes.
LEMMA PointerMerged ==
    ASSUME NEW row \in Pointers, NEW patch \in Pointers,
           MergedPointer(row, patch).last_read <= MergedPointer(row, patch).last_scanned
    PROVE  MergedPointer(row, patch) = AbsorbPointers(row, patch)
<1> DEFINE read == Later(row.last_read, patch.last_read)
           scanned == Later(row.last_scanned, patch.last_scanned)
           merged == MergedPointer(row, patch)
<1>1. read \in Nat /\ scanned \in Nat
  BY DEF Later, Pointers
<1>2. merged = [row EXCEPT !.last_read = read, !.last_scanned = scanned]
  BY DEF MergedPointer
<1>3. merged.last_read <= merged.last_scanned
  OBVIOUS
<1> HIDE DEF read, scanned, merged
<1>4. merged = [last_read |-> read, last_scanned |-> scanned, new_since |-> row.new_since]
  BY <1>2 DEF Pointers
<1>5. read <= scanned
  BY <1>3, <1>4
<1>6. scanned = Later(Later(row.last_scanned, read), patch.last_scanned)
  <2>1. row.last_scanned \in Nat /\ patch.last_scanned \in Nat
    BY DEF Pointers
  <2> QED
    BY <1>1, <1>5, <2>1 DEF Later, scanned
<1>7. AbsorbPointers(row, patch)
      = [last_read |-> read, last_scanned |-> Later(Later(row.last_scanned, read), patch.last_scanned),
         new_since |-> row.new_since]
  BY PointerAbsorbed DEF read
<1> QED
  BY <1>4, <1>6, <1>7 DEF merged

LEMMA PointerBorn ==
    ASSUME NEW patch \in Pointers, patch.last_read <= patch.last_scanned
    PROVE  /\ FreshPointers(patch.new_since) \in Pointers
           /\ patch = AbsorbPointers(FreshPointers(patch.new_since), patch)
<1> DEFINE fresh == FreshPointers(patch.new_since)
<1>1. fresh \in Pointers /\ fresh.last_read = 0 /\ fresh.last_scanned = 0 /\ fresh.new_since = patch.new_since
  BY DEF FreshPointers, Pointers
<1> HIDE DEF fresh
<1>2. AbsorbPointers(fresh, patch)
      = [last_read |-> Later(0, patch.last_read),
         last_scanned |-> Later(Later(0, Later(0, patch.last_read)), patch.last_scanned),
         new_since |-> patch.new_since]
  BY <1>1, PointerAbsorbed
<1>3. patch = [last_read |-> patch.last_read, last_scanned |-> patch.last_scanned,
               new_since |-> patch.new_since]
  BY DEF Pointers
<1>4. patch.last_read \in Nat /\ patch.last_scanned \in Nat
  BY DEF Pointers
<1>5. /\ Later(0, patch.last_read) = patch.last_read
      /\ Later(Later(0, Later(0, patch.last_read)), patch.last_scanned) = patch.last_scanned
  BY <1>4 DEF Later
<1> QED
  BY <1>1, <1>2, <1>3, <1>5 DEF fresh

\* The constraints the database checks are all a patch has to keep.
LEMMA PatchKeepsTables ==
    ASSUME NEW t \in Tables, NEW slot \in DOMAIN t.users, NEW patch, PatchOK(patch),
           ConstraintsHold(PatchMembership(t, slot, patch))
    PROVE  /\ PatchMembership(t, slot, patch) \in Tables
           /\ PatchMembership(t, slot, patch).users = t.users
<1> DEFINE new == PatchMembership(t, slot, patch)
           key == <<slot, patch.conference_number>>
<1>1. ConstraintsHold(new) /\ new = PatchMembership(t, slot, patch)
      /\ key = <<slot, patch.conference_number>>
  OBVIOUS
<1> HIDE DEF new, key
<1>2. /\ new = [users |-> new.users, memberships |-> new.memberships, pointers |-> new.pointers]
      /\ new.users = t.users
      /\ new.memberships \in MembershipTable /\ new.pointers \in PointerTable
  BY <1>1, RowsAfterPatch
<1>3. t.users \in UserTable /\ \A s \in DOMAIN t.users : UserRowOK(t.users[s])
  BY TablesTyped
<1>4. new \in Tables
  BY <1>1, <1>2, <1>3 DEF Tables
<1> QED
  BY <1>2, <1>4 DEF new

\* Slots are patched one at a time,
LEMMA PatchLeavesOthers ==
    ASSUME NEW t \in Tables, NEW slot \in DOMAIN t.users, NEW patch, PatchOK(patch),
           NEW new, new = PatchMembership(t, slot, patch), new \in Tables,
           NEW other, other # slot
    PROVE  LoadMemberships(new, other) = LoadMemberships(t, other)
<1> DEFINE key == <<slot, patch.conference_number>>
<1>1. key = <<slot, patch.conference_number>>
  OBVIOUS
<1> HIDE DEF key
<1>2. /\ DOMAIN new.memberships
         = DOMAIN t.memberships \cup (IF patch.create_if_missing THEN {key} ELSE {})
      /\ \A k \in DOMAIN new.memberships :
           new.memberships[k] = IF k = key THEN RowAfter(t, key, patch) ELSE t.memberships[k]
      /\ DOMAIN new.pointers
         = DOMAIN t.pointers \cup {<<key[1], key[2], base>> : base \in DOMAIN patch.pointers}
      /\ \A k \in DOMAIN new.pointers :
           new.pointers[k] = IF <<k[1], k[2]>> # key \/ k[3] \notin DOMAIN patch.pointers
                               THEN t.pointers[k] ELSE PointerAfter(t, k, patch)
  BY <1>1, RowsAfterPatch
<1>3. key[1] = slot
  BY <1>1
<1>4. ASSUME NEW c
      PROVE  /\ <<other, c>> # key
             /\ <<other, c>> \in DOMAIN new.memberships <=> <<other, c>> \in DOMAIN t.memberships
  BY <1>1, <1>2
<1>5. Numbers(new, other) = Numbers(t, other)
  BY <1>4 DEF Numbers
<1>6. \A c \in Numbers(t, other) : new.memberships[<<other, c>>] = t.memberships[<<other, c>>]
  BY <1>2, <1>4 DEF Numbers
<1>7. ASSUME NEW c PROVE Bases(new, other, c) = Bases(t, other, c)
  BY <1>2, <1>3 DEF Bases
<1>8. ASSUME NEW c, NEW b \in Bases(t, other, c)
      PROVE  new.pointers[<<other, c, b>>] = t.pointers[<<other, c, b>>]
  <2>1. <<other, c, b>> \in DOMAIN new.pointers
    BY <1>2 DEF Bases
  <2> DEFINE k == <<other, c, b>>
  <2>2. <<k[1], k[2]>> # key
    BY <1>4
  <2> QED
    BY <1>2, <2>1, <2>2
<1> QED
  BY <1>5, <1>6, <1>7, <1>8, SameRowsSameLoad

\* and the memberships of the slot read back as the domain patches them.
LEMMA PatchLoads ==
    ASSUME NEW t \in Tables, NEW slot \in DOMAIN t.users, NEW patch, PatchOK(patch),
           NEW new, new = PatchMembership(t, slot, patch), new \in Tables
    PROVE  LoadMemberships(new, slot) = AfterPatch(patch, LoadMemberships(t, slot))
<1> DEFINE own == patch.conference_number
           key == <<slot, own>>
           old == LoadMemberships(t, slot)
<1>1. key = <<slot, patch.conference_number>> /\ key[1] = slot /\ key[2] = own
  OBVIOUS
<1> HIDE DEF key
<1>2. /\ DOMAIN new.memberships
         = DOMAIN t.memberships \cup (IF patch.create_if_missing THEN {key} ELSE {})
      /\ \A k \in DOMAIN new.memberships :
           new.memberships[k] = IF k = key THEN RowAfter(t, key, patch) ELSE t.memberships[k]
      /\ DOMAIN new.pointers
         = DOMAIN t.pointers \cup {<<key[1], key[2], base>> : base \in DOMAIN patch.pointers}
      /\ \A k \in DOMAIN new.pointers :
           new.pointers[k] = IF <<k[1], k[2]>> # key \/ k[3] \notin DOMAIN patch.pointers
                               THEN t.pointers[k] ELSE PointerAfter(t, k, patch)
  BY <1>1, RowsAfterPatch
<1>3. /\ own \in Nat /\ patch.create_if_missing \in BOOLEAN /\ patch.pointers \in PointerMaps
      /\ patch.messages_posted_delta \in Nat
      /\ patch.granted \in Optional(BOOLEAN) /\ patch.scan_flags \in Optional(SUBSET ScanFlags)
  BY DEF PatchOK, MembershipPatch
<1>4. /\ LoadMemberships(new, slot) = MembershipsOf(new, slot)
      /\ old = MembershipsOf(t, slot)
  BY MembershipsLoaded
<1>5. Numbers(new, slot) = Numbers(t, slot) \cup (IF patch.create_if_missing THEN {own} ELSE {})
  BY <1>1, <1>2, <1>3 DEF Numbers
<1>6. DOMAIN old = Numbers(t, slot)
  BY <1>4 DEF MembershipsOf
<1>7. ASSUME NEW c \in Numbers(new, slot), c # own
      PROVE  MembershipIn(new.memberships[<<slot, c>>], PointersOf(new, slot, c)) = old[c]
  <2>1. c \in Numbers(t, slot)
    BY <1>5, <1>7
  <2>2. <<slot, c>> # key
    BY <1>1, <1>7
  <2>3. new.memberships[<<slot, c>>] = t.memberships[<<slot, c>>]
    BY <1>2, <1>7, <2>2 DEF Numbers
  <2>4. Bases(new, slot, c) = Bases(t, slot, c)
    BY <1>1, <1>2, <1>7 DEF Bases
  <2>5. ASSUME NEW b \in Bases(t, slot, c)
        PROVE  new.pointers[<<slot, c, b>>] = t.pointers[<<slot, c, b>>]
    <3> DEFINE k == <<slot, c, b>>
    <3>1. k \in DOMAIN new.pointers
      BY <1>2 DEF Bases
    <3>2. <<k[1], k[2]>> # key
      BY <2>2
    <3> QED
      BY <1>2, <3>1, <3>2
  <2>6. PointersOf(new, slot, c) = PointersOf(t, slot, c)
    BY <2>4, <2>5 DEF PointersOf
  <2> QED
    BY <2>1, <2>3, <2>6, <1>4 DEF MembershipsOf
<1>8. ASSUME own \in Numbers(new, slot)
      PROVE  MembershipIn(new.memberships[key], PointersOf(new, slot, own))
             = PatchedMembership(IF own \in DOMAIN old THEN old[own]
                                 ELSE NewMembership(OrElse(patch.granted, TRUE)), patch)
  <2> DEFINE before == IF own \in DOMAIN old THEN old[own]
                       ELSE NewMembership(OrElse(patch.granted, TRUE))
             row == new.memberships[key]
             ps == PointersOf(new, slot, own)
  <2>1. /\ before \in Memberships
        /\ (row.granted # 0) = OrElse(patch.granted, before.granted)
        /\ row.messages_posted = before.messages_posted + patch.messages_posted_delta
        /\ FlagsOf(row) = OrElse(patch.scan_flags, before.scan_flags)
        /\ DOMAIN before.pointers = Bases(t, slot, own)
        /\ \A b \in Bases(t, slot, own) : before.pointers[b] = t.pointers[<<slot, own, b>>]
    <3>1. key \in DOMAIN new.memberships /\ row = RowAfter(t, key, patch)
      BY <1>1, <1>2, <1>8 DEF Numbers
    <3>2. CASE own \in Numbers(t, slot)
      <4>1. key \in DOMAIN t.memberships /\ t.memberships[key] \in MembershipRows
        BY <3>2, <1>1, TablesTyped DEF Numbers
      <4>2. row = UpdateMembership(t.memberships[key], patch)
        BY <3>1, <4>1 DEF RowAfter
      <4>3. before = MembershipIn(t.memberships[key], PointersOf(t, slot, own))
        BY <3>2, <1>1, <1>4, <1>6 DEF MembershipsOf
      <4>4. before \in Memberships
        <5>1. old \in MembershipMaps /\ own \in DOMAIN old
          BY MembershipsLoaded, <3>2, <1>6
        <5> QED
          BY <5>1 DEF MembershipMaps
      <4> HIDE DEF before, row
      <4>5. /\ before.granted = (t.memberships[key].granted # 0)
            /\ before.messages_posted = t.memberships[key].messages_posted
            /\ before.scan_flags = FlagsOf(t.memberships[key])
            /\ before.pointers = PointersOf(t, slot, own)
        BY <4>3 DEF MembershipIn
      <4>6. /\ (row.granted # 0) = OrElse(patch.granted, t.memberships[key].granted # 0)
            /\ row.messages_posted = t.memberships[key].messages_posted + patch.messages_posted_delta
            /\ FlagsOf(row) = OrElse(patch.scan_flags, FlagsOf(t.memberships[key]))
        BY <4>1, <4>2, RowPatched
      <4> QED
        BY <4>4, <4>5, <4>6 DEF PointersOf
    <3>3. CASE own \notin Numbers(t, slot)
      <4>1. key \notin DOMAIN t.memberships
        BY <3>3, <1>1, <1>3 DEF Numbers
      <4> DEFINE birth == MembershipColumns(1, 0, {"MailScan", "FileScan"})
      <4>2. /\ birth \in MembershipRows /\ birth.granted = 1 /\ birth.messages_posted = 0
            /\ FlagsOf(birth) = {"MailScan", "FileScan"}
        BY FlagsBack DEF ScanFlags, Columns
      <4>3. row = UpdateMembership(birth, patch)
        BY <3>1, <4>1 DEF RowAfter, BornMembership
      <4>4. before = NewMembership(OrElse(patch.granted, TRUE))
        BY <3>3, <1>6
      <4>5. OrElse(patch.granted, TRUE) \in BOOLEAN
        BY <1>3 DEF OrElse, Optional
      <4>6. Bases(t, slot, own) = {}
        <5>1. ASSUME NEW b \in Bases(t, slot, own) PROVE FALSE
          <6> DEFINE k == <<slot, own, b>>
          <6>1. k \in DOMAIN t.pointers
            BY DEF Bases
          <6>2. <<k[1], k[2]>> \in DOMAIN t.memberships
            BY <6>1, TablesTyped
          <6> QED
            BY <6>2, <4>1, <1>1
        <5> QED
          BY <5>1
      <4> HIDE DEF before, row, birth
      <4>7. /\ before.granted = OrElse(patch.granted, TRUE) /\ before.messages_posted = 0
            /\ before.scan_flags = {"MailScan", "FileScan"} /\ before.pointers = <<>>
        BY <4>4 DEF NewMembership
      <4>8. before \in Memberships
        <5>1. <<>> \in PointerMaps
          <6>1. <<>> \in [{} -> Pointers]
            OBVIOUS
          <6> QED
            BY <6>1 DEF PointerMaps
        <5> QED
          BY <4>4, <4>5, <5>1 DEF NewMembership, Memberships, ScanFlags
      <4>9. /\ (row.granted # 0) = OrElse(patch.granted, TRUE)
            /\ row.messages_posted = 0 + patch.messages_posted_delta
            /\ FlagsOf(row) = OrElse(patch.scan_flags, {"MailScan", "FileScan"})
        <5>1. /\ (row.granted # 0) = OrElse(patch.granted, birth.granted # 0)
              /\ row.messages_posted = birth.messages_posted + patch.messages_posted_delta
              /\ FlagsOf(row) = OrElse(patch.scan_flags, FlagsOf(birth))
          BY <4>2, <4>3, RowPatched
        <5>2. (birth.granted # 0) = TRUE
          BY <4>2
        <5> QED
          BY <4>2, <5>1, <5>2
      <4>10. OrElse(patch.granted, TRUE) = OrElse(patch.granted, before.granted)
        BY <4>7, <1>3 DEF OrElse
      <4>11. (row.granted # 0) = OrElse(patch.granted, before.granted)
        BY <4>9, <4>10, Zenon
      <4>12. /\ row.messages_posted = before.messages_posted + patch.messages_posted_delta
             /\ FlagsOf(row) = OrElse(patch.scan_flags, before.scan_flags)
        BY <4>7, <4>9
      <4>13. DOMAIN before.pointers = Bases(t, slot, own)
        BY <4>6, <4>7
      <4> QED
        BY <4>6, <4>8, <4>11, <4>12, <4>13
    <3> QED
      BY <3>2, <3>3
  <2> HIDE DEF before, row
  <2>2. Bases(new, slot, own) = Bases(t, slot, own) \cup DOMAIN patch.pointers
    <3>1. DOMAIN patch.pointers \in SUBSET Nat
      BY <1>3 DEF PointerMaps
    <3> QED
      BY <1>1, <1>2, <3>1 DEF Bases
  <2>3. ASSUME NEW b \in Bases(new, slot, own)
        PROVE  ps[b] = IF b \notin DOMAIN patch.pointers THEN before.pointers[b]
                       ELSE AbsorbPointers(PointersOrFresh(before, b, patch.pointers[b].new_since),
                                           patch.pointers[b])
    <3> DEFINE k == <<slot, own, b>>
    <3>1. /\ k \in DOMAIN new.pointers /\ <<k[1], k[2]>> = key /\ k[3] = b
          /\ ps[b] = new.pointers[k]
      BY <1>1 DEF Bases, PointersOf
    <3>2. CASE b \notin DOMAIN patch.pointers
      <4>1. b \in Bases(t, slot, own)
        BY <2>2, <3>2
      <4>2. new.pointers[k] = t.pointers[k]
        BY <1>2, <3>1, <3>2
      <4> QED
        BY <2>1, <3>1, <3>2, <4>1, <4>2
    <3>3. CASE b \in DOMAIN patch.pointers
      <4> DEFINE wanted == patch.pointers[b]
      <4>1. wanted \in Pointers
        BY <3>3, <1>3 DEF PointerMaps
      <4>2. new.pointers[k] = PointerAfter(t, k, patch)
        BY <1>2, <3>1, <3>3
      <4>3. new.pointers[k].last_read <= new.pointers[k].last_scanned
        BY <3>1, TablesTyped
      <4>4. CASE k \in DOMAIN t.pointers
        <5>1. b \in Bases(t, slot, own)
          BY <4>4, <2>2 DEF Bases
        <5>2. PointersOrFresh(before, b, wanted.new_since) = t.pointers[k]
          BY <5>1, <2>1 DEF PointersOrFresh
        <5>3. t.pointers[k] \in Pointers
          BY <4>4, TablesTyped
        <5>4. new.pointers[k] = MergedPointer(t.pointers[k], wanted)
          BY <4>2, <4>4, <3>1 DEF PointerAfter
        <5> HIDE DEF wanted, k
        <5>5. new.pointers[k] = AbsorbPointers(t.pointers[k], wanted)
          BY <5>3, <5>4, <4>1, <4>3, PointerMerged
        <5> QED
          BY <3>1, <3>3, <5>2, <5>5 DEF wanted
      <4>5. CASE k \notin DOMAIN t.pointers
        <5>1. b \notin Bases(t, slot, own)
          BY <4>5 DEF Bases
        <5>2. PointersOrFresh(before, b, wanted.new_since) = FreshPointers(wanted.new_since)
          BY <5>1, <2>1 DEF PointersOrFresh
        <5>3. new.pointers[k] = wanted
          BY <4>2, <4>5, <3>1 DEF PointerAfter
        <5> HIDE DEF wanted, k
        <5>4. new.pointers[k] = AbsorbPointers(FreshPointers(wanted.new_since), wanted)
          BY <5>3, <4>1, <4>3, PointerBorn
        <5> QED
          BY <3>1, <3>3, <5>2, <5>4 DEF wanted
      <4> QED
        BY <4>4, <4>5
    <3> QED
      BY <3>2, <3>3
  <2> DEFINE absorbed ==
               [b \in DOMAIN before.pointers \cup DOMAIN patch.pointers |->
                  IF b \notin DOMAIN patch.pointers THEN before.pointers[b]
                  ELSE AbsorbPointers(PointersOrFresh(before, b, patch.pointers[b].new_since),
                                      patch.pointers[b])]
  <2>4. ps = absorbed
    BY <2>1, <2>2, <2>3 DEF PointersOf
  <2> DEFINE set == PatchedMembership(before, patch)
  <2>5. set = [[before EXCEPT !.messages_posted = @ + patch.messages_posted_delta] EXCEPT
                 !.granted = OrElse(patch.granted, @),
                 !.scan_flags = OrElse(patch.scan_flags, @), !.pointers = absorbed]
    BY DEF PatchedMembership, AddMessagesPosted
  <2> HIDE DEF ps, absorbed, set
  <2>6. set = [granted |-> OrElse(patch.granted, before.granted),
               messages_posted |-> before.messages_posted + patch.messages_posted_delta,
               scan_flags |-> OrElse(patch.scan_flags, before.scan_flags), pointers |-> absorbed]
    BY <2>1, <2>5 DEF Memberships
  <2>7. MembershipIn(row, ps) = set
    BY <2>1, <2>4, <2>6 DEF MembershipIn
  <2> QED
    BY <2>7 DEF set, row, ps, before
<1> DEFINE after == AfterPatch(patch, old)
<1>9. after = [c \in Numbers(new, slot) |->
                 IF c = own
                   THEN PatchedMembership(IF c \in DOMAIN old THEN old[c]
                                          ELSE NewMembership(OrElse(patch.granted, TRUE)), patch)
                   ELSE old[c]]
  BY <1>5, <1>6 DEF AfterPatch
<1>10. ASSUME NEW c \in Numbers(new, slot)
       PROVE  MembershipIn(new.memberships[<<slot, c>>], PointersOf(new, slot, c))
              = IF c = own
                  THEN PatchedMembership(IF c \in DOMAIN old THEN old[c]
                                         ELSE NewMembership(OrElse(patch.granted, TRUE)), patch)
                  ELSE old[c]
  BY <1>1, <1>7, <1>8
<1> HIDE DEF old, after
<1>11. MembershipsOf(new, slot) = after
  BY <1>9, <1>10 DEF MembershipsOf
<1> QED
  BY <1>4, <1>11 DEF after, old

----------------------------------------------------------------------------
(* What sessions make of their copies, and what they hand over.             *)

LEMMA PutTyped ==
    ASSUME NEW S, NEW T, NEW entries \in UNION {[keys -> T] : keys \in SUBSET S},
           NEW key \in S, NEW value \in T
    PROVE  Put(entries, key, value) \in UNION {[keys -> T] : keys \in SUBSET S}
<1>1. PICK keys \in SUBSET S : entries \in [keys -> T]
  OBVIOUS
<1>2. Put(entries, key, value) \in [keys \cup {key} -> T]
  BY <1>1 DEF Put
<1>3. keys \cup {key} \in SUBSET S
  BY <1>1
<1> QED
  BY <1>2, <1>3

LEMMA MembershipPut ==
    ASSUME NEW user \in Accounts, NEW c \in Nat, NEW membership \in Memberships
    PROVE  UpsertMembership(user, c, membership) \in Accounts
<1> DEFINE ms == Put(user.conferences.memberships, c, membership)
<1>1. user.conferences \in Access /\ user.conferences.memberships \in MembershipMaps
  BY DEF Accounts, Access
<1>2. ms \in MembershipMaps
  BY <1>1, PutTyped DEF MembershipMaps
<1>3. UpsertMembership(user, c, membership) = [user EXCEPT !.conferences.memberships = ms]
  BY DEF UpsertMembership
<1> HIDE DEF ms
<1>4. [user.conferences EXCEPT !.memberships = ms] \in Access
  BY <1>1, <1>2 DEF Access
<1>5. [user EXCEPT !.conferences = [user.conferences EXCEPT !.memberships = ms]] \in Accounts
  BY <1>4 DEF Accounts
<1>6. [user EXCEPT !.conferences.memberships = ms]
      = [user EXCEPT !.conferences = [user.conferences EXCEPT !.memberships = ms]]
  BY DEF Accounts
<1> QED
  BY <1>3, <1>5, <1>6

LEMMA OwnMembership ==
    ASSUME NEW user \in Accounts, NEW c \in Joined(user)
    PROVE  c \in Nat /\ user.conferences.memberships[c] \in Memberships
<1>1. user.conferences.memberships \in MembershipMaps
  BY DEF Accounts, Access
<1> QED
  BY <1>1 DEF Joined, MembershipMaps

LEMMA PointersPut ==
    ASSUME NEW membership \in Memberships, NEW base \in Nat, NEW row \in Pointers
    PROVE  UpsertPointers(membership, base, row) \in Memberships
<1> DEFINE ps == Put(membership.pointers, base, row)
<1>1. membership.pointers \in PointerMaps
  BY DEF Memberships
<1>2. ps \in PointerMaps
  BY <1>1, PutTyped DEF PointerMaps
<1>3. UpsertPointers(membership, base, row) = [membership EXCEPT !.pointers = ps]
  BY DEF UpsertPointers
<1> HIDE DEF ps
<1> QED
  BY <1>2, <1>3 DEF Memberships

LEMMA PointersFound ==
    ASSUME NEW membership \in Memberships, NEW base \in Nat, NEW time \in Nat
    PROVE  PointersOrFresh(membership, base, time) \in Pointers
<1>1. membership.pointers \in PointerMaps
  BY DEF Memberships
<1>2. base \in DOMAIN membership.pointers => membership.pointers[base] \in Pointers
  BY <1>1 DEF PointerMaps
<1>3. FreshPointers(time) \in Pointers
  BY DEF FreshPointers, Pointers
<1> QED
  BY <1>2, <1>3 DEF PointersOrFresh

LEMMA EditsTyped ==
    ASSUME NEW user \in Accounts, now \in Nat
    PROVE  EditsOf(user) \subseteq Accounts
<1>1. Conferences \subseteq Nat
  BY CataloguesAssumption DEF Conferences
<1>2. /\ user.conferences \in Access /\ user.usage \in Usages /\ user.profile \in Profiles
  BY DEF Accounts
<1>3. ASSUME NEW c \in Conferences PROVE RecordMessagePosted(user, c) \in Accounts
  <2> DEFINE counted == [user EXCEPT !.conferences.messages_posted = @ + 1]
  <2>1. counted \in Accounts
    <3>1. [user.conferences EXCEPT !.messages_posted = @ + 1] \in Access
      BY <1>2 DEF Access
    <3> QED
      BY <3>1 DEF Accounts
  <2>2. CASE c \notin Joined(user)
    BY <2>1, <2>2 DEF RecordMessagePosted
  <2>3. CASE c \in Joined(user)
    <3> DEFINE new == [counted EXCEPT !.conferences.memberships[c].messages_posted = @ + 1]
               ms == [counted.conferences.memberships EXCEPT ![c].messages_posted = @ + 1]
    <3>1. Joined(counted) = Joined(user)
      BY DEF Joined, Accounts, Access
    <3>2. RecordMessagePosted(user, c) = new
      BY <2>3 DEF RecordMessagePosted
    <3> HIDE DEF counted
    <3>3. PICK numbers \in SUBSET Nat : counted.conferences.memberships \in [numbers -> Memberships]
      BY <2>1 DEF Accounts, Access, MembershipMaps
    <3>4. c \in numbers
      BY <2>3, <3>1, <3>3 DEF Joined
    <3>5. [counted.conferences.memberships[c] EXCEPT !.messages_posted = @ + 1] \in Memberships
      BY <3>3, <3>4 DEF Memberships
    <3>6. ms \in [numbers -> Memberships]
      BY <3>3, <3>4, <3>5
    <3>7. new = [counted EXCEPT !.conferences.memberships = ms]
      BY <2>1 DEF Accounts, Access
    <3> HIDE DEF ms, new
    <3>8. ms \in MembershipMaps
      BY <3>6 DEF MembershipMaps
    <3>9. [counted.conferences EXCEPT !.memberships = ms] \in Access
      BY <2>1, <3>8 DEF Accounts, Access
    <3>10. new \in Accounts
      BY <2>1, <3>7, <3>9 DEF Accounts
    <3> QED
      BY <3>2, <3>10
  <2> QED
    BY <2>2, <2>3
<1>4. ASSUME NEW c \in Conferences, NEW row, c \in Joined(user) => row \in Pointers
      PROVE  AdvancePointers(user, <<c, 1>>, row) \in Accounts
  <2>1. CASE c \notin Joined(user)
    BY <2>1 DEF AdvancePointers
  <2>2. CASE c \in Joined(user)
    <3>1. /\ c \in Nat /\ row \in Pointers
          /\ user.conferences.memberships[c] \in Memberships
      BY <2>2, <1>4, OwnMembership
    <3>2. UpsertPointers(user.conferences.memberships[c], 1, row) \in Memberships
      BY <3>1, PointersPut
    <3> QED
      BY <2>2, <3>1, <3>2, MembershipPut DEF AdvancePointers, MembershipAt
  <2> QED
    BY <2>1, <2>2
<1>5. ASSUME NEW c \in Conferences
      PROVE  /\ AdvanceLastRead(user, <<c, 1>>, 2, now) \in Accounts
             /\ AdvanceLastScanned(user, <<c, 1>>, 1, now) \in Accounts
             /\ AdvanceLastScanned(user, <<c, 1>>, 3, now) \in Accounts
  <2> DEFINE row == PointersOrFresh(MembershipAt(user, <<c, 1>>), 1, now)
  <2>1. c \in Joined(user) => row \in Pointers
    BY OwnMembership, PointersFound DEF MembershipAt
  <2>2. c \in Joined(user) => /\ PointersAdvanceLastRead(row, 2) \in Pointers
                              /\ PointersAdvanceLastScanned(row, 1) \in Pointers
                              /\ PointersAdvanceLastScanned(row, 3) \in Pointers
    BY <2>1, PointerMoves
  <2>3. /\ AdvanceLastRead(user, <<c, 1>>, 2, now)
           = AdvancePointers(user, <<c, 1>>, PointersAdvanceLastRead(row, 2))
        /\ AdvanceLastScanned(user, <<c, 1>>, 1, now)
           = AdvancePointers(user, <<c, 1>>, PointersAdvanceLastScanned(row, 1))
        /\ AdvanceLastScanned(user, <<c, 1>>, 3, now)
           = AdvancePointers(user, <<c, 1>>, PointersAdvanceLastScanned(row, 3))
    BY DEF AdvanceLastRead, AdvanceLastScanned
  <2> HIDE DEF row
  <2> QED
    BY <1>4, <2>2, <2>3
<1>6. ASSUME NEW c \in Conferences PROVE RecordJoin(user, c, 1) \in Accounts
  <2>1. [user.conferences EXCEPT !.last_joined = <<c, 1>>] \in Access
    BY <1>1, <1>2 DEF Access
  <2> QED
    BY <2>1 DEF RecordJoin, Accounts
<1>7. ASSUME NEW c \in Joined(user) PROVE ToggleScanFlagFor(user, c, "MailScan") \in Accounts
  <2> DEFINE own == user.conferences.memberships[c]
  <2>1. c \in Nat /\ own \in Memberships
    BY OwnMembership
  <2> HIDE DEF own
  <2>2. ToggleScanFlag(own, "MailScan") \in Memberships
    BY <2>1 DEF ToggleScanFlag, Memberships, ScanFlags
  <2> QED
    BY <2>1, <2>2, MembershipPut DEF ToggleScanFlagFor, own
<1>8. ASSUME NEW c \in Conferences PROVE UpsertMembership(user, c, NewMembership(TRUE)) \in Accounts
  <2>1. <<>> \in [{} -> Pointers] /\ {} \in SUBSET Nat
    OBVIOUS
  <2>2. NewMembership(TRUE) \in Memberships
    BY <2>1 DEF NewMembership, Memberships, PointerMaps, ScanFlags
  <2> QED
    BY <1>1, <2>2, MembershipPut
<1>9. SetExpertMode(user, ~user.profile.expert_mode) \in Accounts
  <2>1. [user.profile EXCEPT !.expert_mode = ~user.profile.expert_mode] \in Profiles
    BY <1>2 DEF Profiles
  <2> QED
    BY <2>1 DEF SetExpertMode, Accounts
<1>10. BumpTimesCalled(user) \in Accounts
  <2>1. [user.usage EXCEPT !.times_called = @ + 1] \in Usages
    BY <1>2 DEF Usages
  <2> QED
    BY <2>1 DEF BumpTimesCalled, Accounts
<1>11. AddTimeUsedToday(user, 1) \in Accounts
  <2>1. [user.usage EXCEPT !.time_used_today = @ + 1] \in Usages
    BY <1>2 DEF Usages
  <2> QED
    BY <2>1 DEF AddTimeUsedToday, Accounts
<1>12. RecordLastCall(user, now) \in Accounts
  <2>1. [user.usage EXCEPT !.last_call = now] \in Usages
    BY <1>2 DEF Usages
  <2> QED
    BY <2>1 DEF RecordLastCall, Accounts
<1> DEFINE posts == {RecordMessagePosted(user, c) : c \in Conferences}
           reads == {AdvanceLastRead(user, <<c, 1>>, 2, now) : c \in Conferences}
           scans == {AdvanceLastScanned(user, <<c, 1>>, 1, now) : c \in Conferences}
                    \cup {AdvanceLastScanned(user, <<c, 1>>, 3, now) : c \in Conferences}
           joins == {RecordJoin(user, c, 1) : c \in Conferences}
           toggles == {ToggleScanFlagFor(user, c, "MailScan") : c \in Joined(user)}
           grants == {UpsertMembership(user, c, NewMembership(TRUE)) : c \in Conferences \ Joined(user)}
           others == {SetExpertMode(user, ~user.profile.expert_mode), BumpTimesCalled(user),
                      AddTimeUsedToday(user, 1), RecordLastCall(user, now)}
<1>13. EditsOf(user) = posts \cup reads \cup scans \cup joins \cup toggles \cup grants \cup others
  BY DEF EditsOf
<1>14. posts \subseteq Accounts
  BY <1>3
<1>15. reads \subseteq Accounts
  BY <1>5
<1>16. scans \subseteq Accounts
  BY <1>5
<1>17. joins \subseteq Accounts
  BY <1>6
<1>18. toggles \subseteq Accounts
  BY <1>7
<1>19. grants \subseteq Accounts
  BY <1>8
<1>20. others \subseteq Accounts
  BY <1>9, <1>10, <1>11, <1>12
<1> HIDE DEF posts, reads, scans, joins, toggles, grants, others
<1> QED
  BY <1>13, <1>14, <1>15, <1>16, <1>17, <1>18, <1>19, <1>20

\* A session's judgement and its new password.
LEMMA JudgedTyped ==
    ASSUME NEW user \in Accounts, NEW outcome \in Outcomes
    PROVE  OwnCopyAfter(outcome, user) \in Accounts
<1>1. user.account \in Standing /\ user.credentials \in Credentials /\ user.usage \in Usages
  BY DEF Accounts
<1>2. CASE outcome \in [kind : {"Matched"}, daily : STRING, force_password_reset : BOOLEAN]
  <2> DEFINE standing == [user.account EXCEPT !.invalid_attempts = 0]
             credentials == [user.credentials EXCEPT !.reset = @ \/ outcome.force_password_reset]
             usage == CountDaily(user.usage, outcome.daily)
  <2>1. outcome.kind = "Matched" /\ outcome.force_password_reset \in BOOLEAN
    BY <1>2
  <2>2. standing \in Standing
    BY <1>1 DEF Standing
  <2>3. credentials \in Credentials
    BY <1>1, <2>1 DEF Credentials
  <2>4. usage \in Usages
    <3>1. CASE outcome.daily = "NewDay"
      <4> DEFINE cleared == [user.usage EXCEPT !.times_called_today = 0, !.time_used_today = 0]
      <4>1. usage = cleared
        BY <3>1 DEF CountDaily
      <4>2. cleared \in Usages
        BY <1>1 DEF Usages
      <4> QED
        BY <4>1, <4>2
    <3>2. CASE outcome.daily = "SameDay"
      <4>1. usage = [user.usage EXCEPT !.times_called_today = @ + 1]
        BY <3>2 DEF CountDaily
      <4> QED
        BY <1>1, <4>1 DEF Usages
    <3>3. CASE outcome.daily \notin {"NewDay", "SameDay"}
      BY <1>1, <3>3 DEF CountDaily
    <3> QED
      BY <3>1, <3>2, <3>3
  <2>5. OwnCopyAfter(outcome, user) = ApplyAuthOutcome(outcome, user)
    BY <2>1 DEF OwnCopyAfter
  <2>6. ApplyAuthOutcome(outcome, user)
        = [user EXCEPT !.account = standing, !.credentials = credentials, !.usage = usage]
    BY <2>1 DEF ApplyAuthOutcome, Accounts
  <2> HIDE DEF standing, credentials, usage
  <2> QED
    BY <2>2, <2>3, <2>4, <2>5, <2>6 DEF Accounts
<1>3. CASE outcome \in [kind : {"Mismatched"}, lock_account : BOOLEAN]
  <2> DEFINE count == user.account.invalid_attempts + 1
             locked == user.account.account_locked \/ outcome.lock_account
             judged == ApplyAuthOutcome(outcome, user)
             standing == [user.account EXCEPT !.invalid_attempts = count, !.account_locked = locked]
  <2>1. outcome.kind = "Mismatched" /\ outcome.lock_account \in BOOLEAN
    BY <1>3
  <2>2. count \in Nat /\ locked \in BOOLEAN
    BY <1>1, <2>1 DEF Standing
  <2>3. judged = [user EXCEPT !.account = standing]
    BY <2>1 DEF ApplyAuthOutcome, Accounts
  <2> HIDE DEF count, locked
  <2>4. standing \in Standing
    BY <1>1, <2>2 DEF Standing
  <2> HIDE DEF standing, judged
  <2>5. judged \in Accounts
    BY <2>3, <2>4 DEF Accounts
  <2>6. LockAccount(judged) \in Accounts
    <3>1. [judged.account EXCEPT !.account_locked = TRUE, !.invalid_attempts = 0] \in Standing
      BY <2>5 DEF Accounts, Standing
    <3>2. LockAccount(judged)
          = [judged EXCEPT !.account = [judged.account EXCEPT !.account_locked = TRUE,
                                                              !.invalid_attempts = 0]]
      BY <2>5 DEF LockAccount, Accounts
    <3> QED
      BY <2>5, <3>1, <3>2 DEF Accounts
  <2> QED
    BY <2>5, <2>6 DEF OwnCopyAfter, judged
<1> QED
  BY <1>2, <1>3, OutcomesAssumption

LEMMA PasswordTyped ==
    ASSUME NEW user \in Accounts, NEW change \in [hash : Hashes, changed_at : Nat]
    PROVE  ApplyPasswordChange(change, user) \in Accounts
BY DEF ApplyPasswordChange, NewCredentials, Accounts, Credentials

\* A patch says what changed, once for every conference.
LEMMA BetweenTyped ==
    ASSUME NEW before \in Accounts, NEW after \in Accounts
    PROVE  Between(before, after) \in UserPatches
<1> DEFINE base == before.conferences.memberships
           cur == after.conferences.memberships
           ms == MembershipPatches(before, after)
           created == {MembershipPatchOfNew(c, cur[c]) : c \in DOMAIN cur \ DOMAIN base}
           both == {d \in DOMAIN cur \cap DOMAIN base : cur[d] # base[d]}
           changed == {MembershipPatchBetween(c, base[c], cur[c]) : c \in both}
<1>1. /\ before.usage \in Usages /\ before.profile \in Profiles /\ before.conferences \in Access
      /\ after.usage \in Usages /\ after.profile \in Profiles /\ after.conferences \in Access
  BY DEF Accounts
<1>2. base \in MembershipMaps /\ cur \in MembershipMaps
  BY <1>1 DEF Access
<1>3. /\ \A c \in DOMAIN base : c \in Nat /\ base[c] \in Memberships
      /\ \A c \in DOMAIN cur : c \in Nat /\ cur[c] \in Memberships
  BY <1>2 DEF MembershipMaps
<1>4. ms = created \cup changed
  BY DEF MembershipPatches
<1> HIDE DEF base, cur, ms
<1>5. ASSUME NEW c \in DOMAIN cur \ DOMAIN base
      PROVE  /\ PatchOK(MembershipPatchOfNew(c, cur[c]))
             /\ MembershipPatchOfNew(c, cur[c]).conference_number = c
  <2> DEFINE own == cur[c]
             ps == [b \in DOMAIN own.pointers |-> PointerPatch(own.pointers[b])]
             patch == MembershipPatchOfNew(c, own)
  <2>1. c \in Nat /\ own \in Memberships
    BY <1>3
  <2>2. ps \in PointerMaps
    <3>1. own.pointers \in PointerMaps
      BY <2>1 DEF Memberships
    <3> HIDE DEF own
    <3> QED
      BY <3>1 DEF PointerPatch, PointerMaps
  <2>3. patch = [conference_number |-> c, create_if_missing |-> TRUE, granted |-> {own.granted},
                 messages_posted_delta |-> own.messages_posted, scan_flags |-> {own.scan_flags},
                 pointers |-> ps]
    BY DEF MembershipPatchOfNew, Set
  <2> HIDE DEF own, ps, patch
  <2>4. PatchOK(patch) /\ patch.conference_number = c
    BY <2>1, <2>2, <2>3 DEF PatchOK, MembershipPatch, Memberships, Optional
  <2> QED
    BY <2>4 DEF patch, own
<1>6. ASSUME NEW c \in both
      PROVE  /\ PatchOK(MembershipPatchBetween(c, base[c], cur[c]))
             /\ MembershipPatchBetween(c, base[c], cur[c]).conference_number = c
  <2> DEFINE own == cur[c]
             old == base[c]
             ps == [b \in AdvancedSince(old, own) |-> PointerPatch(own.pointers[b])]
             patch == MembershipPatchBetween(c, old, own)
             grant == Changed(old.granted, own.granted)
             flags == Changed(old.scan_flags, own.scan_flags)
             posted == SaturatingSub(own.messages_posted, old.messages_posted)
  <2>1. c \in Nat /\ own \in Memberships /\ old \in Memberships
    BY <1>3
  <2> HIDE DEF own, old
  <2>2. ps \in PointerMaps
    <3>1. PICK bases \in SUBSET Nat : own.pointers \in [bases -> Pointers]
      BY <2>1 DEF Memberships, PointerMaps
    <3>2. AdvancedSince(old, own) \subseteq bases
      BY <3>1 DEF AdvancedSince
    <3>3. ps \in [AdvancedSince(old, own) -> Pointers]
      BY <3>1, <3>2 DEF PointerPatch
    <3>4. AdvancedSince(old, own) \in SUBSET Nat
      BY <3>1, <3>2
    <3> HIDE DEF ps
    <3> QED
      BY <3>3, <3>4 DEF PointerMaps
  <2>3. /\ grant \in Optional(BOOLEAN) /\ flags \in Optional(SUBSET ScanFlags) /\ posted \in Nat
    BY <2>1 DEF Changed, Set, Optional, Memberships, SaturatingSub
  <2>4. patch = [conference_number |-> c, create_if_missing |-> FALSE, granted |-> grant,
                 messages_posted_delta |-> posted, scan_flags |-> flags, pointers |-> ps]
    BY DEF MembershipPatchBetween
  <2> HIDE DEF ps, patch, grant, flags, posted
  <2>5. grant \in SUBSET BOOLEAN /\ flags \in SUBSET SUBSET ScanFlags
    BY <2>3 DEF Optional
  <2>6. PatchOK(patch) /\ patch.conference_number = c
    BY <2>1, <2>2, <2>3, <2>4, <2>5 DEF PatchOK, MembershipPatch
  <2> QED
    BY <2>6 DEF patch, own, old
<1>7. \A m \in ms : PatchOK(m)
  BY <1>4, <1>5, <1>6
<1>8. \A m, k \in ms : m.conference_number = k.conference_number => m = k
  <2>1. ASSUME NEW m \in ms
        PROVE  LET c == m.conference_number IN
               IF c \in DOMAIN base THEN m = MembershipPatchBetween(c, base[c], cur[c])
               ELSE m = MembershipPatchOfNew(c, cur[c])
    BY <1>4, <1>5, <1>6
  <2> QED
    BY <2>1
<1> DEFINE patch == Between(before, after)
           a == SaturatingSub(after.usage.times_called, before.usage.times_called)
           b == SaturatingSub(after.usage.times_called_today, before.usage.times_called_today)
           c == SaturatingSub(after.usage.time_used_today, before.usage.time_used_today)
           d == SaturatingSub(after.conferences.messages_posted, before.conferences.messages_posted)
           e == Changed(before.usage.last_call, after.usage.last_call)
           f == Changed(before.profile.expert_mode, after.profile.expert_mode)
           g == Changed(before.profile.flags, after.profile.flags)
           h == Changed(before.conferences.last_joined, after.conferences.last_joined)
<1>9. a \in Nat /\ b \in Nat /\ c \in Nat /\ d \in Nat
  BY <1>1 DEF SaturatingSub, Usages, Access
<1>10. /\ e \in Optional(Nat) /\ f \in Optional(BOOLEAN) /\ g \in Optional(FlagSets)
       /\ h \in Optional(Nat \X Nat)
  BY <1>1 DEF Changed, Set, Optional, Usages, Profiles, Access
<1>11. patch = [times_called_delta |-> a, times_called_today_delta |-> b,
                time_used_today_delta |-> c, messages_posted_delta |-> d, last_call |-> e,
                expert_mode |-> f, flags |-> g, last_joined |-> h, memberships |-> ms]
  BY DEF Between, ms
<1>12. ms \subseteq MembershipPatch
  BY <1>7 DEF PatchOK
<1> HIDE DEF a, b, c, d, e, f, g, h, patch
<1>13. patch \in UserPatches
  BY <1>7, <1>8, <1>9, <1>10, <1>11, <1>12 DEF UserPatches, PatchOK
<1> QED
  BY <1>13 DEF patch

----------------------------------------------------------------------------
(* What a set of tables says, as the promise has it: slots and accounts.    *)

Accounted(t) ==
    [slot \in DOMAIN t.users |-> FromPersisted(slot, t.users[slot], LoadMemberships(t, slot))]

LEMMA AccountedTyped ==
    ASSUME NEW t \in Tables, NEW slot \in DOMAIN t.users
    PROVE  /\ slot \in Nat /\ Accounted(t)[slot] \in Accounts
           /\ Accounted(t)[slot] = FromPersisted(slot, t.users[slot], LoadMemberships(t, slot))
<1>1. slot \in Nat /\ t.users[slot] \in UserRow
  BY TablesTyped
<1>2. LoadMemberships(t, slot) \in MembershipMaps
  BY MembershipsLoaded
<1> QED
  BY <1>1, <1>2, LoadedAccount DEF Accounted

\* The index on folded handles finds the slots of a name.
LEMMA NamedSlots ==
    ASSUME NEW t \in Tables, NEW handle
    PROVE  SelectSlot(t, handle)
           = {slot \in DOMAIN Accounted(t) : Folded[Accounted(t)[slot].handle] = Folded[handle]}
<1>1. DOMAIN Accounted(t) = DOMAIN t.users
  BY DEF Accounted
<1>2. ASSUME NEW slot \in DOMAIN t.users
      PROVE  Folded[Accounted(t)[slot].handle] = t.users[slot].handle_folded
  <2>1. UserRowOK(t.users[slot])
    BY TablesTyped
  <2>2. Accounted(t)[slot].handle = t.users[slot].handle
    BY DEF Accounted, FromPersisted
  <2> QED
    BY <2>1, <2>2 DEF UserRowOK
<1> QED
  BY <1>1, <1>2 DEF SelectSlot

\* One row written over is one account changed.
Overwritten(t, slot, row) == [t EXCEPT !.users[slot] = row]
Replaced(entries, key, value) == [entries EXCEPT ![key] = value]
LEMMA RowWritten ==
    ASSUME NEW t \in Tables, NEW slot \in DOMAIN t.users, NEW row \in UserRow, UserRowOK(row),
           NEW new, new = Overwritten(t, slot, row)
    PROVE  /\ new \in Tables /\ new.users = [t.users EXCEPT ![slot] = row]
           /\ \A s : LoadMemberships(new, s) = LoadMemberships(t, s)
           /\ Accounted(new)
              = Replaced(Accounted(t), slot, FromPersisted(slot, row, LoadMemberships(t, slot)))
<1> DEFINE us == [t.users EXCEPT ![slot] = row]
<1>1. t \in [users : UserTable, memberships : MembershipTable, pointers : PointerTable]
  BY DEF Tables
<1>2. /\ new = [users |-> us, memberships |-> t.memberships, pointers |-> t.pointers]
      /\ DOMAIN us = DOMAIN t.users
      /\ \A s \in DOMAIN us : us[s] = IF s = slot THEN row ELSE t.users[s]
  BY <1>1 DEF Overwritten, UserTable
<1>3. us \in UserTable
  BY <1>1 DEF Overwritten, UserTable
<1>4. new.users = us /\ new.memberships = t.memberships /\ new.pointers = t.pointers
  BY <1>1 DEF Overwritten, UserTable
<1> HIDE DEF us
<1>5. ConstraintsHold(new)
  BY <1>2, <1>4, TablesTyped DEF ConstraintsHold, Tables
<1>6. \A s \in DOMAIN new.users : UserRowOK(new.users[s])
  BY <1>2, <1>4, TablesTyped
<1>7. new \in Tables
  BY <1>1, <1>2, <1>3, <1>4, <1>5, <1>6 DEF Tables
<1>8. ASSUME NEW s PROVE LoadMemberships(new, s) = LoadMemberships(t, s)
  BY <1>4, <1>7, SameRowsSameLoad DEF Numbers, Bases
<1>9. Accounted(new)
      = [s \in DOMAIN t.users |->
           IF s = slot THEN FromPersisted(slot, row, LoadMemberships(t, slot)) ELSE Accounted(t)[s]]
  BY <1>2, <1>4, <1>8 DEF Accounted
<1>10. Replaced(Accounted(t), slot, FromPersisted(slot, row, LoadMemberships(t, slot)))
       = [s \in DOMAIN t.users |->
           IF s = slot THEN FromPersisted(slot, row, LoadMemberships(t, slot)) ELSE Accounted(t)[s]]
  BY DEF Accounted, Replaced
<1> QED
  BY <1>4, <1>7, <1>8, <1>9, <1>10 DEF us

LEMMA AccountWritten ==
    ASSUME NEW t \in Tables, NEW slot \in DOMAIN t.users, NEW row \in UserRow, UserRowOK(row),
           NEW account, account = FromPersisted(slot, row, LoadMemberships(t, slot))
    PROVE  /\ Overwritten(t, slot, row) \in Tables
           /\ Accounted(Overwritten(t, slot, row)) = Replaced(Accounted(t), slot, account)
BY RowWritten

\* So is one row with its memberships.
LEMMA SlotPatched ==
    ASSUME NEW t \in Tables, NEW w \in Tables, NEW slot \in DOMAIN t.users,
           NEW patch \in UserPatches,
           w.users = [t.users EXCEPT ![slot] = UpdateUser(t.users[slot], patch)],
           LoadMemberships(w, slot)
           = ApplyMembershipPatches(patch.memberships, LoadMemberships(t, slot)),
           \A s \in DOMAIN t.users \ {slot} : LoadMemberships(w, s) = LoadMemberships(t, s)
    PROVE  Accounted(w) = [Accounted(t) EXCEPT ![slot] = ApplyUserPatch(patch, Accounted(t)[slot])]
<1> DEFINE row == UpdateUser(t.users[slot], patch)
           account == ApplyUserPatch(patch, Accounted(t)[slot])
<1>1. /\ t.users[slot] \in UserRow /\ UserRowOK(t.users[slot])
      /\ LoadMemberships(t, slot) \in MembershipMaps
  BY TablesTyped, MembershipsLoaded
<1>2. FromPersisted(slot, row, LoadMemberships(w, slot)) = account
  BY <1>1, PatchCommutes DEF Accounted
<1>3. /\ DOMAIN w.users = DOMAIN t.users
      /\ \A s \in DOMAIN t.users : w.users[s] = IF s = slot THEN row ELSE t.users[s]
  BY TablesTyped DEF UserTable
<1> HIDE DEF row, account
<1>4. Accounted(w) = [s \in DOMAIN t.users |-> IF s = slot THEN account ELSE Accounted(t)[s]]
  BY <1>2, <1>3 DEF Accounted
<1>5. [Accounted(t) EXCEPT ![slot] = account]
      = [s \in DOMAIN t.users |-> IF s = slot THEN account ELSE Accounted(t)[s]]
  BY DEF Accounted
<1> QED
  BY <1>4, <1>5 DEF account

\* The next slot is the one after the last,
LEMMA LastSlot ==
    ASSUME NEW t \in Tables
    PROVE  /\ Max(DOMAIN t.users \cup {0}) \in Nat
           /\ DOMAIN t.users = 1 .. Max(DOMAIN t.users \cup {0})
<1>1. PICK n \in Nat : DOMAIN t.users = 1 .. n
  BY TablesTyped DEF UserTable
<1> DEFINE S == 1 .. n \cup {0}
           top(x) == x \in S /\ \A y \in S : x >= y
<1>2. top(n) /\ \A x : top(x) => x = n
  OBVIOUS
<1>3. Max(S) = CHOOSE x : top(x)
  BY DEF Max
<1>4. Max(S) = n
  BY <1>2, <1>3
<1> QED
  BY <1>1, <1>4

\* and what is put there is one account more.
LEMMA SlotAdded ==
    ASSUME NEW t \in Tables, NEW w \in Tables, NEW slot, slot \notin DOMAIN t.users,
           NEW user \in Accounts, user.slot_number = slot,
           w.users = Put(t.users, slot, RowOf(user)),
           LoadMemberships(w, slot) = user.conferences.memberships,
           \A s \in DOMAIN t.users : LoadMemberships(w, s) = LoadMemberships(t, s)
    PROVE  Accounted(w) = Put(Accounted(t), slot, user)
<1>1. FromPersisted(slot, RowOf(user), LoadMemberships(w, slot)) = user
  BY RowRoundTrip
<1>2. /\ DOMAIN w.users = DOMAIN t.users \cup {slot}
      /\ \A s \in DOMAIN w.users : w.users[s] = IF s = slot THEN RowOf(user) ELSE t.users[s]
  BY DEF Put
<1>3. DOMAIN Accounted(t) = DOMAIN t.users
  BY DEF Accounted
<1>4. Accounted(w)
      = [s \in DOMAIN t.users \cup {slot} |-> IF s = slot THEN user ELSE Accounted(t)[s]]
  BY <1>1, <1>2 DEF Accounted
<1> QED
  BY <1>3, <1>4 DEF Put

\* A new row alone: what the statements of a registration leave.
LEMMA RowInserted ==
    ASSUME NEW t \in Tables, NEW user \in Accounts, NEW slot,
           slot = Max(DOMAIN t.users \cup {0}) + 1, user.slot_number = slot,
           NEW new, new = DeleteMemberships(InsertUser(t, user), slot)
    PROVE  /\ new \in Tables /\ slot \in Nat /\ slot \notin DOMAIN t.users
           /\ new.users = Put(t.users, slot, RowOf(user))
           /\ Numbers(new, slot) = {}
           /\ LoadMemberships(new, slot) = <<>>
           /\ \A s \in DOMAIN t.users : LoadMemberships(new, s) = LoadMemberships(t, s)
           /\ new.memberships = t.memberships /\ new.pointers = t.pointers
<1> DEFINE n == Max(DOMAIN t.users \cup {0})
           us == Put(t.users, slot, RowOf(user))
           ms == Restrict(t.memberships, {key \in DOMAIN t.memberships : key[1] # slot})
           ps == Restrict(t.pointers, {key \in DOMAIN t.pointers : key[1] # slot})
<1>1. n \in Nat /\ DOMAIN t.users = 1 .. n /\ slot = n + 1
  BY LastSlot
<1>2. slot \in Nat /\ slot \notin DOMAIN t.users
  BY <1>1
<1>3. t \in [users : UserTable, memberships : MembershipTable, pointers : PointerTable]
  BY DEF Tables
<1>4. new = [users |-> us, memberships |-> ms, pointers |-> ps]
  BY <1>3 DEF DeleteMemberships, InsertUser
<1>5. ms = t.memberships
  <2>1. {key \in DOMAIN t.memberships : key[1] # slot} = DOMAIN t.memberships
    BY <1>2, TablesTyped
  <2>2. t.memberships = [k \in DOMAIN t.memberships |-> t.memberships[k]]
    BY <1>3 DEF MembershipTable
  <2> QED
    BY <2>1, <2>2 DEF Restrict
<1>6. ps = t.pointers
  <2>1. ASSUME NEW key \in DOMAIN t.pointers PROVE key[1] # slot
    <3> DEFINE above == <<key[1], key[2]>>
    <3>1. above \in DOMAIN t.memberships
      BY TablesTyped
    <3>2. above[1] \in DOMAIN t.users
      BY <3>1, TablesTyped
    <3> QED
      BY <1>2, <3>2
  <2>2. {key \in DOMAIN t.pointers : key[1] # slot} = DOMAIN t.pointers
    BY <2>1
  <2>3. t.pointers = [k \in DOMAIN t.pointers |-> t.pointers[k]]
    BY <1>3 DEF PointerTable
  <2> QED
    BY <2>2, <2>3 DEF Restrict
<1>7. /\ DOMAIN us = 1 .. n + 1
      /\ \A s \in DOMAIN us : us[s] = IF s = slot THEN RowOf(user) ELSE t.users[s]
  BY <1>1 DEF Put
<1>8. ASSUME NEW s \in DOMAIN us PROVE us[s] \in UserRow /\ UserRowOK(us[s])
  <2>1. us[s] = IF s = slot THEN RowOf(user) ELSE t.users[s]
    BY <1>7
  <2>2. RowOf(user) \in UserRow /\ UserRowOK(RowOf(user))
    BY RowRoundTrip
  <2>3. s = slot \/ s \in DOMAIN t.users
    BY <1>1, <1>7
  <2>4. \A o \in DOMAIN t.users : t.users[o] \in UserRow /\ UserRowOK(t.users[o])
    BY TablesTyped
  <2> HIDE DEF us, n
  <2> QED
    BY <2>1, <2>2, <2>3, <2>4
<1>9. us \in UserTable
  <2>1. us = [s \in 1 .. n + 1 |-> us[s]]
    BY <1>7 DEF Put
  <2>2. n + 1 \in Nat
    BY <1>1
  <2> HIDE DEF us, n
  <2>3. us \in [1 .. n + 1 -> UserRow]
    BY <1>7, <1>8, <2>1
  <2> QED
    BY <2>2, <2>3 DEF UserTable
<1>10. new.users = us /\ new.memberships = t.memberships /\ new.pointers = t.pointers
  BY <1>4, <1>5, <1>6
<1>11. ConstraintsHold(new)
  <2>1. ConstraintsHold(t)
    BY DEF Tables
  <2>2. DOMAIN t.users \subseteq DOMAIN us
    BY <1>1, <1>7
  <2> QED
    BY <1>10, <2>1, <2>2 DEF ConstraintsHold
<1> HIDE DEF us, ms, ps, n
<1>12. new \in Tables
  BY <1>3, <1>4, <1>5, <1>6, <1>8, <1>9, <1>10, <1>11 DEF Tables
<1>13. Numbers(new, slot) = {}
  <2>1. \A c : <<slot, c>> \notin DOMAIN t.memberships
    <3> SUFFICES ASSUME NEW c, <<slot, c>> \in DOMAIN t.memberships PROVE FALSE
      OBVIOUS
    <3> DEFINE k == <<slot, c>>
    <3>1. k[1] \in DOMAIN t.users
      BY TablesTyped
    <3> QED
      BY <1>2, <3>1
  <2> QED
    BY <1>10, <2>1 DEF Numbers
<1>14. LoadMemberships(new, slot) = <<>>
  <2>1. LoadMemberships(new, slot) = MembershipsOf(new, slot)
    BY <1>12, MembershipsLoaded
  <2>2. MembershipsOf(new, slot)
        = [c \in {} |-> MembershipIn(new.memberships[<<slot, c>>], PointersOf(new, slot, c))]
    BY <1>13 DEF MembershipsOf
  <2> QED
    BY <2>1, <2>2
<1>15. ASSUME NEW s PROVE LoadMemberships(new, s) = LoadMemberships(t, s)
  BY <1>10, <1>12, SameRowsSameLoad DEF Numbers, Bases
<1> QED
  BY <1>2, <1>10, <1>12, <1>13, <1>14, <1>15 DEF us

\* What a registration and the seed put there are accounts.
LEMMA FreshTyped ==
    /\ <<>> \in MembershipMaps
    /\ NoConferences \in Access /\ NoUsage \in Usages
    /\ \A level \in Nat : AccountExisting(level) \in Standing
<1>1. <<>> \in [{} -> Memberships] /\ {} \in SUBSET Nat
  OBVIOUS
<1>2. <<>> \in MembershipMaps
  BY <1>1 DEF MembershipMaps
<1> QED
  BY <1>2 DEF NoConferences, Access, Nowhere, NoUsage, Usages, Never, AccountExisting, Standing

LEMMA RegisteredTyped ==
    ASSUME NEW slot \in Nat,
           NEW draft \in [handle : Handles, hash : Hashes, now : Nat, flags : {Flags}]
    PROVE  /\ RegisterNew(slot, draft) \in Accounts
           /\ RegisterNew(slot, draft).slot_number = slot
           /\ RegisterNew(slot, draft).handle = draft.handle
           /\ RegisterNew(slot, draft).conferences.memberships = <<>>
<1> DEFINE new == RegisterNew(slot, draft)
           usage == ForFreshRegistration(draft.now)
           standing == AwaitingValidation
           profile == NewProfile(draft.now, draft.flags)
           credentials == NewCredentials(draft.hash, draft.now)
<1>1. draft.handle \in Names /\ draft.hash \in Hashes /\ draft.now \in Nat /\ draft.flags \in FlagSets
  BY DEF Names, FlagSets
<1>2. standing \in Standing
  <2>1. AccountExisting(2) \in Standing
    BY FreshTyped
  <2> QED
    BY <2>1 DEF AwaitingValidation, Standing
<1>3. usage \in Usages
  <2>1. NoUsage \in Usages
    BY FreshTyped
  <2> DEFINE time == draft.now
             set == [NoUsage EXCEPT !.last_call = time, !.time_limit_per_call = 30, !.time_limit_per_day = 60]
  <2>2. usage = set
    BY DEF ForFreshRegistration
  <2>3. time \in Nat
    BY <1>1
  <2> HIDE DEF time
  <2>4. set \in Usages
    BY <2>1, <2>3 DEF Usages
  <2> QED
    BY <2>2, <2>4
<1>4. profile \in Profiles
  BY <1>1 DEF NewProfile, Profiles
<1>5. credentials \in Credentials
  BY <1>1 DEF NewCredentials, Credentials
<1>6. new = [slot_number |-> slot, handle |-> draft.handle, credentials |-> credentials,
             account |-> standing, usage |-> usage, profile |-> profile, conferences |-> NoConferences]
  BY DEF RegisterNew
<1> HIDE DEF new, usage, standing, profile, credentials
<1>7. new \in Accounts
  BY <1>1, <1>2, <1>3, <1>4, <1>5, <1>6, FreshTyped DEF Accounts
<1>8. new.slot_number = slot /\ new.handle = draft.handle /\ new.conferences.memberships = <<>>
  BY <1>6 DEF NoConferences
<1> QED
  BY <1>7, <1>8 DEF new

LEMMA SysopTyped ==
    /\ DefaultSysop("sysop") \in Accounts /\ DefaultSysop("sysop").slot_number = 1
    /\ DefaultSysop("sysop").conferences = NoConferences
<1> DEFINE base == UserNew(1, "sysop", "sysop", Never, 255)
           usage == WithTimeLimits(base.usage, 30, 60)
           sysop == DefaultSysop("sysop")
<1>1. NewCredentials("sysop", Never) \in Credentials /\ NewProfile(Never, {}) \in Profiles
  <2>1. /\ Never \in Nat
        /\ "sysop" \in Hashes
        /\ {} \in FlagSets
    <3>1. Never \in Nat
      BY DEF Never
    <3>2. "sysop" \in Hashes
      BY DEF Hashes
    <3>3. {} \in FlagSets
      BY DEF FlagSets
    <3> QED
      BY <3>1, <3>2, <3>3
  <2>2. NewCredentials("sysop", Never) \in Credentials
    BY <2>1 DEF NewCredentials, Credentials
  <2>3. NewProfile(Never, {}) \in Profiles
    BY <2>1 DEF NewProfile, Profiles
  <2> QED
    BY <2>2, <2>3
<1>2. base = [slot_number |-> 1, handle |-> "sysop", credentials |-> NewCredentials("sysop", Never),
              account |-> AccountExisting(255), usage |-> NoUsage,
              profile |-> NewProfile(Never, {}), conferences |-> NoConferences]
  BY DEF UserNew
<1>3. sysop = [base EXCEPT !.usage = usage]
  BY DEF DefaultSysop
<1> HIDE DEF base
<1>4. base \in Accounts
  BY <1>1, <1>2, FreshTyped DEF Accounts, Names
<1>5. usage \in Usages
  <2>1. base.usage \in Usages
    BY <1>4 DEF Accounts
  <2> DEFINE old == base.usage
             set == [old EXCEPT !.time_limit_per_call = 30, !.time_limit_per_day = 60]
  <2>2. usage = set
    BY DEF WithTimeLimits
  <2>3. old \in Usages
    BY <2>1
  <2> HIDE DEF old
  <2>4. set \in Usages
    BY <2>3 DEF Usages
  <2> QED
    BY <2>2, <2>4
<1> HIDE DEF usage, sysop
<1>6. sysop \in Accounts /\ sysop.slot_number = base.slot_number /\ sysop.conferences = base.conferences
  BY <1>3, <1>4, <1>5 DEF Accounts
<1> QED
  BY <1>2, <1>6 DEF sysop

----------------------------------------------------------------------------
(* Seeding: the sysop and its memberships, one row at a time.               *)

LEMMA MinFound ==
    ASSUME NEW S \in SUBSET Nat, S # {}
    PROVE  Min(S) \in S
<1>1. PICK c \in S : \A d \in S : ~ (<<d, c>> \in OpToRel(<, Nat))
  BY NatLessThanWellFounded, WFMin
<1>2. \A d \in S : c <= d
  <2> TAKE d \in S
  <2>1. <<d, c>> \in Nat \X Nat /\ c \in Nat /\ d \in Nat
    OBVIOUS
  <2>2. ~ (d < c)
    BY <1>1, <2>1 DEF OpToRel
  <2> QED
    BY <2>1, <2>2
<1> QED
  BY <1>2 DEF Min

Sysop == DefaultSysop("sysop")
Fresh == NewMembership(TRUE)
Granted == MembershipRow(Fresh)

\* The tables of the transaction that seeds an empty board.
Seeded(w, numbers) ==
    /\ w \in Tables /\ numbers \subseteq Nat
    /\ w.users = Put(<<>>, 1, RowOf(Sysop))
    /\ DOMAIN w.memberships = {<<1, c>> : c \in numbers}
    /\ \A key \in DOMAIN w.memberships : w.memberships[key] = Granted
    /\ DOMAIN w.pointers = {}

LEMMA EmptyTables ==
    ASSUME NEW t \in Tables, DOMAIN t.users = {}
    PROVE  /\ t.users = <<>> /\ DOMAIN t.memberships = {} /\ DOMAIN t.pointers = {}
           /\ Accounted(t) = <<>>
<1>1. t.users = <<>>
  BY TablesTyped DEF UserTable
<1>2. DOMAIN t.memberships = {}
  BY TablesTyped
<1>3. DOMAIN t.pointers = {}
  BY <1>2, TablesTyped
<1>4. Accounted(t) = [slot \in {} |-> FromPersisted(slot, t.users[slot], LoadMemberships(t, slot))]
  BY DEF Accounted
<1> QED
  BY <1>1, <1>2, <1>3, <1>4

LEMMA SeedBegins ==
    ASSUME NEW t \in Tables, DOMAIN t.users = {},
           NEW w, w = DeleteMemberships(InsertUser(t, Sysop), 1)
    PROVE  Seeded(w, {})
<1>1. t.users = <<>> /\ DOMAIN t.memberships = {} /\ DOMAIN t.pointers = {}
  BY EmptyTables
<1>2. Sysop \in Accounts /\ Sysop.slot_number = 1
  BY SysopTyped DEF Sysop
<1>3. Max(DOMAIN t.users \cup {0}) + 1 = 1
  <2>1. PICK n \in Nat : n = Max(DOMAIN t.users \cup {0}) /\ DOMAIN t.users = 1 .. n
    BY LastSlot
  <2>2. n = 0
    <3>1. 1 \notin 1 .. n
      BY <2>1
    <3> QED
      BY <3>1
  <2> QED
    BY <2>1, <2>2
<1>4. /\ w \in Tables /\ w.users = Put(t.users, 1, RowOf(Sysop))
      /\ w.memberships = t.memberships /\ w.pointers = t.pointers
  BY <1>2, <1>3, RowInserted
<1> QED
  BY <1>1, <1>4 DEF Seeded

LEMMA FreshMembership ==
    /\ Fresh \in Memberships
    /\ Granted \in MembershipRows
    /\ MembershipIn(Granted, <<>>) = Fresh
<1>1. Flag(Fresh.granted) = 1 /\ Fresh.messages_posted = 0
  BY DEF Flag, Fresh, NewMembership
<1>2. {"MailScan", "FileScan"} \in SUBSET ScanFlags
  BY DEF ScanFlags
<1>3. Granted = MembershipColumns(1, 0, {"MailScan", "FileScan"})
  BY <1>1 DEF Granted, MembershipRow, Fresh, NewMembership
<1>4. /\ Granted \in MembershipRows /\ Granted.granted = 1 /\ Granted.messages_posted = 0
      /\ FlagsOf(Granted) = {"MailScan", "FileScan"}
  <2>1. 1 \in Columns /\ 0 \in Nat
    BY DEF Columns
  <2> QED
    BY <2>1, <1>2, <1>3, FlagsBack
<1>5. MembershipIn(Granted, <<>>) = Fresh
  <2>1. (Granted.granted # 0) = TRUE
    BY <1>4
  <2>2. MembershipIn(Granted, <<>>)
        = [granted |-> TRUE, messages_posted |-> 0, scan_flags |-> {"MailScan", "FileScan"},
           pointers |-> <<>>]
    BY <1>4, <2>1, Zenon DEF MembershipIn
  <2> QED
    BY <2>2 DEF Fresh, NewMembership
<1>6. <<>> \in PointerMaps
  <2>1. <<>> \in [{} -> Pointers] /\ {} \in SUBSET Nat
    OBVIOUS
  <2> QED
    BY <2>1 DEF PointerMaps
<1>7. Fresh \in Memberships
  BY <1>2, <1>6 DEF Fresh, NewMembership, Memberships
<1> QED
  BY <1>4, <1>5, <1>7

LEMMA SeedGoesOn ==
    ASSUME NEW w, NEW numbers, Seeded(w, numbers), NEW c \in Nat,
           NEW new, new = InsertMembership(w, 1, c, Fresh)
    PROVE  Seeded(new, numbers \cup {c})
<1> DEFINE ms == Put(w.memberships, <<1, c>>, Granted)
           ps == [key \in DOMAIN w.pointers
                    \cup {<<1, c, base>> : base \in DOMAIN Fresh.pointers} |->
                    IF key \in DOMAIN w.pointers THEN w.pointers[key]
                    ELSE Fresh.pointers[key[3]]]
<1>1. w \in Tables /\ DOMAIN w.pointers = {} /\ DOMAIN w.memberships = {<<1, n>> : n \in numbers}
      /\ w.users = Put(<<>>, 1, RowOf(Sysop)) /\ numbers \subseteq Nat
      /\ \A key \in DOMAIN w.memberships : w.memberships[key] = Granted
  BY DEF Seeded
<1>2. w \in [users : UserTable, memberships : MembershipTable, pointers : PointerTable]
  BY <1>1 DEF Tables
<1>3. new = [users |-> w.users, memberships |-> ms, pointers |-> ps]
  BY <1>2 DEF InsertMembership, Granted
<1>4. ps = w.pointers
  <2>1. Fresh.pointers = <<>>
    BY DEF Fresh, NewMembership
  <2>2. {<<1, c, base>> : base \in DOMAIN <<>>} = {}
    OBVIOUS
  <2>3. w.pointers = [key \in DOMAIN w.pointers |-> w.pointers[key]]
    BY <1>2 DEF PointerTable
  <2> QED
    BY <1>1, <2>1, <2>2, <2>3
<1>5. /\ DOMAIN ms = {<<1, n>> : n \in numbers \cup {c}}
      /\ \A key \in DOMAIN ms : ms[key] = Granted
  BY <1>1 DEF Put
<1>6. ms \in MembershipTable
  <2>1. ms = [key \in DOMAIN ms |-> ms[key]]
    BY DEF Put
  <2>2. DOMAIN ms \in SUBSET (Nat \X Nat)
    BY <1>1, <1>5
  <2> HIDE DEF ms
  <2>3. ms \in [DOMAIN ms -> MembershipRows]
    BY <1>5, <2>1, FreshMembership
  <2> QED
    BY <2>2, <2>3 DEF MembershipTable
<1> HIDE DEF ms, ps
<1>7. new.users = w.users /\ new.memberships = ms /\ new.pointers = w.pointers
  BY <1>3, <1>4
<1>8. 1 \in DOMAIN w.users
  BY <1>1 DEF Put
<1>9. ConstraintsHold(new)
  <2>1. \A key \in DOMAIN new.memberships : key[1] \in DOMAIN new.users
    <3> SUFFICES ASSUME NEW key \in DOMAIN ms PROVE key[1] = 1
      BY <1>7, <1>8
    <3> QED
      BY <1>5
  <2>2. DOMAIN new.pointers = {}
    BY <1>1, <1>7
  <2> QED
    BY <2>1, <2>2 DEF ConstraintsHold
<1>10. new \in Tables
  BY <1>1, <1>2, <1>3, <1>4, <1>6, <1>7, <1>9 DEF Tables
<1> QED
  BY <1>1, <1>5, <1>7, <1>10 DEF Seeded

LEMMA SeedEnds ==
    ASSUME NEW t \in Tables, DOMAIN t.users = {}, NEW w, NEW numbers, Seeded(w, numbers)
    PROVE  Accounted(w)
           = Put(Accounted(t), 1,
                 [Sysop EXCEPT !.conferences.memberships = [c \in numbers |-> Fresh]])
<1> DEFINE all == [c \in numbers |-> Fresh]
           user == [Sysop EXCEPT !.conferences.memberships = all]
<1>1. w \in Tables /\ w.users = Put(<<>>, 1, RowOf(Sysop)) /\ numbers \subseteq Nat
  BY DEF Seeded
<1>2. Sysop \in Accounts /\ Sysop.slot_number = 1 /\ Sysop.conferences \in Access
  BY SysopTyped DEF Sysop, Accounts
<1>3. all \in MembershipMaps
  <2>1. all \in [numbers -> Memberships]
    BY FreshMembership
  <2> QED
    BY <1>1, <2>1 DEF MembershipMaps
<1>4. LoadMemberships(w, 1) = all
  <2>1. Numbers(w, 1) = numbers
    BY DEF Seeded, Numbers
  <2>2. ASSUME NEW c \in numbers
        PROVE  MembershipIn(w.memberships[<<1, c>>], PointersOf(w, 1, c)) = Fresh
    <3>1. Bases(w, 1, c) = {}
      BY DEF Seeded, Bases
    <3>2. PointersOf(w, 1, c) = [b \in {} |-> w.pointers[<<1, c, b>>]]
      BY <3>1 DEF PointersOf
    <3>3. PointersOf(w, 1, c) = <<>>
      BY <3>2
    <3>4. w.memberships[<<1, c>>] = Granted
      BY DEF Seeded
    <3> QED
      BY <3>3, <3>4, FreshMembership
  <2>3. LoadMemberships(w, 1) = MembershipsOf(w, 1)
    BY <1>1, MembershipsLoaded
  <2> QED
    BY <2>1, <2>2, <2>3 DEF MembershipsOf
<1> HIDE DEF all
<1>5. user \in Accounts /\ user.slot_number = 1 /\ user.conferences.memberships = all
  <2> DEFINE access == [Sysop.conferences EXCEPT !.memberships = all]
  <2>1. user = [Sysop EXCEPT !.conferences = access]
    BY <1>2 DEF Accounts
  <2>2. access \in Access /\ access.memberships = all
    BY <1>2, <1>3 DEF Access
  <2> HIDE DEF access
  <2> QED
    BY <1>2, <2>1, <2>2 DEF Accounts
<1>6. RowOf(user) = RowOf(Sysop)
  <2> DEFINE other == Sysop
  <2>1. other \in Accounts /\ other.conferences \in Access
    BY <1>2
  <2> HIDE DEF other
  <2>2. RowOf([other EXCEPT !.conferences.memberships = all]) = RowOf(other)
    BY <2>1 DEF RowOf, Accounts, Access
  <2> QED
    BY <2>2 DEF other
<1>7. t.users = <<>> /\ DOMAIN t.users = {}
  BY EmptyTables
<1> HIDE DEF user
<1>8. /\ 1 \notin DOMAIN t.users /\ w.users = Put(t.users, 1, RowOf(user))
      /\ LoadMemberships(w, 1) = user.conferences.memberships
      /\ \A s \in DOMAIN t.users : LoadMemberships(w, s) = LoadMemberships(t, s)
  BY <1>1, <1>4, <1>5, <1>6, <1>7
<1>9. Accounted(w) = Put(Accounted(t), 1, user)
  BY <1>1, <1>5, <1>8, SlotAdded
<1> QED
  BY <1>9 DEF all, user

----------------------------------------------------------------------------
(* The promise is written with the same rules of the aggregate.             *)

LEMMA SameRules ==
    /\ \A entries, key, value : Store!Put(entries, key, value) = Put(entries, key, value)
    /\ \A S : Store!Max(S) = Max(S)
    /\ \A outcome, user : Store!ApplyAuthOutcome(outcome, user) = ApplyAuthOutcome(outcome, user)
    /\ \A change, user : Store!ApplyPasswordChange(change, user) = ApplyPasswordChange(change, user)
    /\ \A slot, draft : Store!RegisterNew(slot, draft) = RegisterNew(slot, draft)
    /\ Store!DefaultSysop("sysop") = Sysop
    /\ Store!NewMembership(TRUE) = Fresh
<1>1. \A entries, key, value : Store!Put(entries, key, value) = Put(entries, key, value)
  BY DEF Store!Put, Put
<1>2. \A S : Store!Max(S) = Max(S)
  BY DEF Store!Max, Max
<1>3. \A outcome, user : Store!ApplyAuthOutcome(outcome, user) = ApplyAuthOutcome(outcome, user)
  BY Zenon DEF Store!ApplyAuthOutcome, ApplyAuthOutcome, Store!CountDaily, CountDaily
<1>4. \A change, user : Store!ApplyPasswordChange(change, user) = ApplyPasswordChange(change, user)
  BY Zenon DEF Store!ApplyPasswordChange, ApplyPasswordChange, Store!NewCredentials, NewCredentials
<1>5. \A slot, draft : Store!RegisterNew(slot, draft) = RegisterNew(slot, draft)
  BY Zenon DEF Store!RegisterNew, RegisterNew, Store!NewCredentials, NewCredentials,
       Store!AwaitingValidation, AwaitingValidation, Store!AccountExisting, AccountExisting,
       Store!ForFreshRegistration, ForFreshRegistration, Store!NoUsage, NoUsage,
       Store!NewProfile, NewProfile, Store!NoConferences, NoConferences, Store!Nowhere, Nowhere,
       Store!Never, Never
<1>6. Store!DefaultSysop("sysop") = Sysop
  BY Zenon DEF Store!DefaultSysop, Sysop, DefaultSysop, Store!UserNew, UserNew,
       Store!NewCredentials, NewCredentials, Store!AccountExisting, AccountExisting,
       Store!NoUsage, NoUsage, Store!NewProfile, NewProfile, Store!NoConferences, NoConferences,
       Store!Nowhere, Nowhere, Store!Never, Never, Store!WithTimeLimits, WithTimeLimits
<1>7. Store!NewMembership(TRUE) = Fresh
  BY Zenon DEF Store!NewMembership, Fresh, NewMembership
<1> QED
  BY <1>1, <1>2, <1>3, <1>4, <1>5, <1>6, <1>7

LEMMA SamePatch ==
    \A patch, user : Store!ApplyUserPatch(patch, user) = ApplyUserPatch(patch, user)
<1>1. \A field, default : Store!OrElse(field, default) = OrElse(field, default)
  BY Zenon DEF Store!OrElse, OrElse
<1>2. \A a, b : Store!Later(a, b) = Later(a, b)
  BY Zenon DEF Store!Later, Later
<1>3. \A usage, patch : Store!PatchedUsage(usage, patch) = PatchedUsage(usage, patch)
  BY <1>1, <1>2, Zenon DEF Store!PatchedUsage, PatchedUsage, Store!Never, Never
<1>4. \A profile, patch : Store!PatchedProfile(profile, patch) = PatchedProfile(profile, patch)
  BY <1>1, Zenon DEF Store!PatchedProfile, PatchedProfile
<1>5. \A patches, ms : Store!ApplyMembershipPatches(patches, ms) = ApplyMembershipPatches(patches, ms)
  <2>1. \A row, patch : Store!AbsorbPointers(row, patch) = AbsorbPointers(row, patch)
    BY Zenon DEF Store!AbsorbPointers, AbsorbPointers,
         Store!PointersAdvanceLastRead, PointersAdvanceLastRead,
         Store!PointersAdvanceLastScanned, PointersAdvanceLastScanned, Store!Later, Later
  <2>2. \A membership, b, time : Store!PointersOrFresh(membership, b, time)
                                = PointersOrFresh(membership, b, time)
    BY Zenon DEF Store!PointersOrFresh, PointersOrFresh, Store!FreshPointers, FreshPointers
  <2>3. \A membership, n : Store!AddMessagesPosted(membership, n) = AddMessagesPosted(membership, n)
    BY Zenon DEF Store!AddMessagesPosted, AddMessagesPosted
  <2>4. \A membership, patch : Store!PatchedMembership(membership, patch)
                              = PatchedMembership(membership, patch)
    BY <1>1, <2>1, <2>2, <2>3 DEF Store!PatchedMembership, PatchedMembership
  <2>5. \A granted : Store!NewMembership(granted) = NewMembership(granted)
    BY Zenon DEF Store!NewMembership, NewMembership
  <2> SUFFICES ASSUME NEW patches, NEW ms
               PROVE  Store!ApplyMembershipPatches(patches, ms) = ApplyMembershipPatches(patches, ms)
    OBVIOUS
  <2> DEFINE row(c) == IF c \in DOMAIN ms THEN ms[c]
                       ELSE Store!NewMembership(Store!OrElse(PatchFor(patches, c).granted, TRUE))
             after(c) == IF c \in Patched(patches)
                           THEN Store!PatchedMembership(row(c), PatchFor(patches, c)) ELSE ms[c]
  <2>6. Store!ApplyMembershipPatches(patches, ms)
        = [c \in DOMAIN ms \cup Creating(patches) |-> after(c)]
    BY DEF Store!ApplyMembershipPatches, Creating, Patched, PatchFor
  <2>7. ASSUME NEW c PROVE after(c) = AfterPatches(patches, ms, c)
    <3>1. row(c) = RowFor(patches, ms, c)
      BY <1>1, <2>5, Zenon DEF RowFor
    <3> QED
      BY <2>4, <3>1 DEF AfterPatches
  <2> HIDE DEF after
  <2>8. [c \in DOMAIN ms \cup Creating(patches) |-> after(c)]
        = [c \in DOMAIN ms \cup Creating(patches) |-> AfterPatches(patches, ms, c)]
    BY <2>7
  <2> QED
    BY <2>6, <2>8, PatchesApplied
<1>6. \A access, patch : Store!PatchedConferences(access, patch) = PatchedConferences(access, patch)
  BY <1>1, <1>5, Zenon DEF Store!PatchedConferences, PatchedConferences
<1> QED
  BY <1>3, <1>4, <1>6, Zenon DEF Store!ApplyUserPatch, ApplyUserPatch

----------------------------------------------------------------------------
(* The inductive invariant: whoever is between two statements holds the
   connection, and what it has read or written is still true of the tables.  *)

Drafts == [handle : Handles, hash : Hashes, now : Nat, flags : {Flags}]
CommandOK(command) ==
    /\ command.op = "idle" => command = Idle
    /\ command.op = "create_user" => command.draft \in Drafts
    /\ command.op = "record_auth_outcome" => command.slot \in Nat /\ command.change \in Outcomes
    /\ command.op = "record_password_change" =>
         command.slot \in Nat /\ command.change \in [hash : Hashes, changed_at : Nat]
    /\ command.op = "apply_user_patch" => command.slot \in Nat /\ command.change \in UserPatches
    /\ command.op \in DOMAIN FirstStatement \cup {"idle"}

\* The slot a lookup has come to.
Named(command, slot, t) ==
    \/ command.op = "find_sysop" /\ slot = 1
    \/ command.op = "find_by_handle" /\ slot \in SelectSlot(t, command.handle)

NextSlot(t) == Max(DOMAIN t.users \cup {0}) + 1
Unnamed(command, t) == command.op = "create_user" /\ SelectSlot(t, command.draft.handle) = {}

\* The transaction of a patch: the row is written, and what is left to do to
\* the memberships leads where the whole patch leads from the committed ones.
Patching(command, known, t, w) ==
    /\ known = [slot |-> known.slot, left |-> known.left, result |-> known.result]
    /\ command.op = "apply_user_patch" /\ known.slot = command.slot /\ known.result = Done
    /\ command.slot \in DOMAIN t.users /\ w \in Tables
    /\ known.left \subseteq command.change.memberships
    /\ w.users = [t.users EXCEPT ![command.slot] = UpdateUser(t.users[command.slot], command.change)]
    /\ ApplyMembershipPatches(known.left, LoadMemberships(w, command.slot))
       = ApplyMembershipPatches(command.change.memberships, LoadMemberships(t, command.slot))
    /\ \A slot \in DOMAIN t.users \ {command.slot} :
         LoadMemberships(w, slot) = LoadMemberships(t, slot)

\* The transaction of a registration: one account more.
Registering(command, known, t, w) ==
    /\ Unnamed(command, t) /\ known.left = {} /\ w \in Tables
    /\ known.result = Found(RegisterNew(NextSlot(t), command.draft))
    /\ Accounted(w) = Put(Accounted(t), NextSlot(t), RegisterNew(NextSlot(t), command.draft))

Knows(command, statement, known, t, w) ==
    /\ command # Idle
    /\ statement = "select slot" => command.op = "find_by_handle"
    /\ statement = "select user" => Named(command, known.slot, t)
    /\ statement = "select memberships" =>
         /\ Named(command, known.slot, t)
         /\ known.slot \in DOMAIN t.users /\ known.row = t.users[known.slot]
    /\ statement = "patch user" => command.op = "apply_user_patch"
    /\ statement = "select handle" => command.op = "create_user"
    /\ statement = "select next slot" => Unnamed(command, t)
    /\ statement = "insert user" => Unnamed(command, t) /\ known.slot = NextSlot(t)
    /\ statement = "patch memberships" =>
         Patching(command, known, t, w) \/ Registering(command, known, t, w)

Shape ==
    /\ DOMAIN asked = Callers /\ DOMAIN answer = Callers /\ DOMAIN at = Callers
    /\ DOMAIN local = Callers /\ DOMAIN live = Callers /\ DOMAIN baseline = Callers
BootOK ==
    /\ boot \in {"down", "opened", "seeding", "granting", "serving"}
    /\ boot # "down" => catalogue \in workload.catalogues
    /\ boot \in {"seeding", "granting"} => DOMAIN disk.users = {}
    /\ boot = "granting" =>
         Seeded(work, {n \in catalogue : <<1, n>> \in DOMAIN work.memberships})
    /\ boot # "serving" => lock = None /\ \A c \in Callers : asked[c] = Idle
CopiesOK ==
    \A c \in Callers : live[c] # None => live[c] \in Accounts /\ baseline[c] \in Accounts
StatementsOK ==
    \A c \in Callers : at[c] # "idle" =>
        lock = c /\ Knows(asked[c], at[c], local[c], disk, work)
Consistent ==
    /\ disk \in Tables /\ workload \in Workloads /\ now \in Nat
    /\ Shape /\ BootOK /\ CopiesOK /\ StatementsOK
    /\ \A c \in Callers : CommandOK(asked[c])

\* One caller at a time is between two statements, and only while serving.
LEMMA OneAtATime ==
    ASSUME Consistent, NEW c \in Callers, at[c] # "idle"
    PROVE  /\ lock = c /\ boot = "serving" /\ Knows(asked[c], at[c], local[c], disk, work)
           /\ \A r \in Callers \ {c} : at[r] = "idle"
<1>1. lock = c /\ Knows(asked[c], at[c], local[c], disk, work)
  BY DEF Consistent, StatementsOK
<1>2. c # None
  BY NoneAssumption
<1> QED
  BY <1>1, <1>2 DEF Consistent, StatementsOK, BootOK

LEMMA AccountsAre == accounts = Accounted(disk) /\ accounts' = Accounted(disk')
BY DEF accounts, AccountOf, Accounted

\* A step that goes on to the next statement keeps the promise of the caller.
LEMMA ProceedKeeps ==
    ASSUME Consistent, NEW c \in Callers, at[c] # "idle", NEW statement, NEW known,
           Proceed(c, statement, known), UNCHANGED disk,
           Knows(asked[c], statement, known, disk, work')
    PROVE  Consistent' /\ UNCHANGED Store!vars
<1>1. /\ lock = c /\ boot = "serving"
      /\ \A r \in Callers \ {c} : at[r] = "idle"
  BY OneAtATime
<1>2. /\ at' = [at EXCEPT ![c] = statement] /\ local' = [local EXCEPT ![c] = known]
      /\ UNCHANGED <<lock, asked, answer, live, baseline, boot, catalogue, workload, now>>
  BY DEF Proceed, Statement, bounds
<1>3. Shape' /\ at'[c] = statement /\ local'[c] = known /\ \A r \in Callers \ {c} : at'[r] = "idle"
  BY <1>1, <1>2 DEF Consistent, Shape
<1>4. BootOK'
  BY <1>1, <1>2 DEF Consistent, BootOK
<1>5. CopiesOK'
  BY <1>2 DEF Consistent, CopiesOK
<1>6. StatementsOK'
  BY <1>1, <1>2, <1>3 DEF StatementsOK
<1>7. Consistent'
  BY <1>2, <1>3, <1>4, <1>5, <1>6 DEF Consistent
<1>8. UNCHANGED Store!vars
  BY <1>2, AccountsAre DEF Store!vars
<1> QED
  BY <1>7, <1>8

\* So does one that answers it.
LEMMA ReturnKeeps ==
    ASSUME Consistent, NEW c \in Callers, at[c] # "idle", NEW result, Return(c, result),
           disk' \in Tables, result.kind = "found" => result.user \in Accounts
    PROVE  Consistent' /\ Store!Answer(c, result) /\ asked[c] # Store!Idle
<1>1. /\ lock = c /\ boot = "serving" /\ asked[c] # Idle
      /\ \A r \in Callers \ {c} : at[r] = "idle"
  BY OneAtATime DEF Knows
<1>2. /\ at' = [at EXCEPT ![c] = "idle"] /\ local' = [local EXCEPT ![c] = None]
      /\ asked' = [asked EXCEPT ![c] = Idle] /\ answer' = [answer EXCEPT ![c] = result]
      /\ live' = [live EXCEPT ![c] = CASE result.kind = "found" -> result.user
                                       [] result.kind = "done" -> live[c]
                                       [] OTHER -> None]
      /\ baseline' = [baseline EXCEPT ![c] = live'[c]]
      /\ UNCHANGED <<boot, catalogue, workload, now>>
  BY DEF Return, Statement, bounds
<1>3. /\ Shape' /\ asked'[c] = Idle /\ baseline'[c] = live'[c]
      /\ \A r \in Callers : at'[r] = "idle"
      /\ \A r \in Callers \ {c} : /\ asked'[r] = asked[r] /\ live'[r] = live[r]
                                  /\ baseline'[r] = baseline[r]
  BY <1>1, <1>2 DEF Consistent, Shape
<1>4. live'[c] \in {None} \cup Accounts
  <2>1. live'[c] = CASE result.kind = "found" -> result.user
                     [] result.kind = "done" -> live[c]
                     [] OTHER -> None
    BY <1>2 DEF Consistent, Shape
  <2> QED
    BY <2>1 DEF Consistent, CopiesOK
<1>5. CopiesOK'
  BY <1>3, <1>4 DEF Consistent, CopiesOK
<1>6. BootOK'
  BY <1>1, <1>2 DEF Consistent, BootOK
<1>7. StatementsOK'
  BY <1>3 DEF StatementsOK
<1>8. \A r \in Callers : CommandOK(asked'[r])
  BY <1>3 DEF Consistent, CommandOK, Idle
<1>9. Consistent'
  BY <1>2, <1>3, <1>5, <1>6, <1>7, <1>8 DEF Consistent
<1>10. Store!Answer(c, result) /\ asked[c] # Store!Idle
  BY <1>1, <1>2 DEF Store!Answer, Store!Idle, Idle
<1> QED
  BY <1>9, <1>10

----------------------------------------------------------------------------
(* The statements, one by one.                                              *)

Promised == Store!Next \/ UNCHANGED Store!vars

LEMMA SlotsAreNamed ==
    ASSUME disk \in Tables, NEW handle
    PROVE  Store!SlotsNamed(handle) = SelectSlot(disk, handle)
BY NamedSlots, AccountsAre DEF Store!SlotsNamed

LEMMA FindSlotStep ==
    ASSUME Consistent, NEW c \in Callers, FindSlot(c)
    PROVE  Consistent' /\ Promised
<1>1. at[c] = "select slot" /\ at[c] # "idle" /\ UNCHANGED <<disk, work>>
  BY DEF FindSlot, ReadOnly, tables
<1>2. disk \in Tables /\ disk' \in Tables
  BY <1>1 DEF Consistent
<1>3. asked[c] # Idle /\ asked[c].op = "find_by_handle"
  BY <1>1, OneAtATime DEF Knows
<1> DEFINE slots == SelectSlot(disk, asked[c].handle)
<1>4. CASE slots = {}
  <2>1. Return(c, Refused("NotFound"))
    BY <1>4 DEF FindSlot
  <2>2. Consistent' /\ Store!Answer(c, Refused("NotFound"))
    BY <1>1, <1>2, <2>1, ReturnKeeps DEF Refused
  <2>3. Store!FindByHandle(c)
    <3>1. Store!SlotsNamed(asked[c].handle) = {}
      BY <1>2, <1>4, SlotsAreNamed
    <3>2. accounts' = accounts
      BY <1>1, AccountsAre
    <3> QED
      BY <1>3, <2>2, <3>1, <3>2 DEF Store!FindByHandle, Store!Refused, Refused
  <2> QED
    BY <2>2, <2>3 DEF Promised, Store!Next
<1>5. CASE slots # {}
  <2> DEFINE slot == Min(slots)
             known == [slot |-> slot]
  <2>1. Proceed(c, "select user", known)
    BY <1>5 DEF FindSlot
  <2>2. slot \in slots
    <3>1. slots \in SUBSET Nat
      BY <1>2, TablesTyped DEF SelectSlot
    <3> HIDE DEF slots
    <3> QED
      BY <1>5, <3>1, MinFound
  <2>3. known.slot = slot
    OBVIOUS
  <2>4. Knows(asked[c], "select user", known, disk, work')
    <3>1. Named(asked[c], slot, disk)
      BY <1>3, <2>2 DEF Named
    <3> HIDE DEF known, slot
    <3> QED
      BY <1>3, <2>3, <3>1 DEF Knows
  <2> QED
    BY <1>1, <2>1, <2>4, ProceedKeeps DEF Promised
<1> QED
  BY <1>4, <1>5

\* A lookup that has come to a slot: who asked for what.
LEMMA LookupAnswered ==
    ASSUME Consistent, NEW c \in Callers, NEW slot, Named(asked[c], slot, disk), UNCHANGED disk,
           NEW result, Store!Answer(c, result),
           result = IF slot \in DOMAIN disk.users THEN Found(Accounted(disk)[slot])
                    ELSE Refused("NotFound")
    PROVE  Promised
<1>1. disk \in Tables /\ accounts' = accounts /\ accounts = Accounted(disk)
  BY AccountsAre DEF Consistent
<1>2. DOMAIN Accounted(disk) = DOMAIN disk.users
  BY DEF Accounted
<1>3. CASE asked[c].op = "find_sysop" /\ slot = 1
  <2>1. Store!FindSysop(c)
    BY <1>1, <1>2, <1>3 DEF Store!FindSysop, Store!Found, Found, Store!Refused, Refused
  <2> QED
    BY <2>1 DEF Promised, Store!Next
<1>4. CASE asked[c].op = "find_by_handle" /\ slot \in SelectSlot(disk, asked[c].handle)
  <2>1. slot \in DOMAIN disk.users
    BY <1>4 DEF SelectSlot
  <2>2. slot \in Store!SlotsNamed(asked[c].handle)
    BY <1>1, <1>4, SlotsAreNamed
  <2>3. Store!FindByHandle(c)
    BY <1>1, <1>2, <1>4, <2>1, <2>2 DEF Store!FindByHandle, Store!Found, Found
  <2> QED
    BY <2>3 DEF Promised, Store!Next
<1> QED
  BY <1>3, <1>4 DEF Named

LEMMA LoadUserStep ==
    ASSUME Consistent, NEW c \in Callers, LoadUser(c)
    PROVE  Consistent' /\ Promised
<1>1. at[c] = "select user" /\ at[c] # "idle" /\ UNCHANGED <<disk, work>>
  BY DEF LoadUser, ReadOnly, tables
<1>2. disk \in Tables /\ disk' \in Tables
  BY <1>1 DEF Consistent
<1> DEFINE slot == local[c].slot
<1>3. asked[c] # Idle /\ Named(asked[c], slot, disk)
  BY <1>1, OneAtATime DEF Knows
<1>4. CASE slot \notin DOMAIN disk.users
  <2>1. Return(c, Refused("NotFound"))
    BY <1>4 DEF LoadUser
  <2>2. Consistent' /\ Store!Answer(c, Refused("NotFound"))
    BY <1>1, <1>2, <2>1, ReturnKeeps DEF Refused
  <2> QED
    BY <1>1, <1>3, <1>4, <2>2, LookupAnswered
<1>5. CASE slot \in DOMAIN disk.users
  <2> DEFINE row == disk.users[slot]
             known == [slot |-> slot, row |-> row]
  <2>1. Proceed(c, "select memberships", known)
    BY <1>5 DEF LoadUser
  <2>2. known.slot = slot /\ known.row = disk.users[slot]
    OBVIOUS
  <2>3. Knows(asked[c], "select memberships", known, disk, work')
    <3> HIDE DEF known, slot
    <3> QED
      BY <1>3, <1>5, <2>2 DEF Knows
  <2> QED
    BY <1>1, <2>1, <2>3, ProceedKeeps DEF Promised
<1> QED
  BY <1>4, <1>5

LEMMA LoadRestStep ==
    ASSUME Consistent, NEW c \in Callers, LoadRest(c)
    PROVE  Consistent' /\ Promised
<1>1. at[c] = "select memberships" /\ at[c] # "idle" /\ UNCHANGED <<disk, work>>
  BY DEF LoadRest, ReadOnly, tables
<1>2. disk \in Tables /\ disk' \in Tables
  BY <1>1 DEF Consistent
<1> DEFINE slot == local[c].slot
           user == FromPersisted(slot, local[c].row, LoadMemberships(disk, slot))
<1>3. Named(asked[c], slot, disk) /\ slot \in DOMAIN disk.users /\ local[c].row = disk.users[slot]
  BY <1>1, OneAtATime DEF Knows
<1>4. user = Accounted(disk)[slot] /\ user \in Accounts
  BY <1>2, <1>3, AccountedTyped
<1>5. Return(c, Found(user))
  BY DEF LoadRest
<1> HIDE DEF user, slot
<1>6. Consistent' /\ Store!Answer(c, Found(user))
  BY <1>1, <1>2, <1>4, <1>5, ReturnKeeps DEF Found
<1> QED
  BY <1>1, <1>3, <1>4, <1>6, LookupAnswered

\* The writes outside a transaction.
LEMMA UpdateStep ==
    ASSUME Consistent, NEW c \in Callers, NEW op, NEW row, Update(c, op, row),
           NEW account,
           asked[c].slot \in DOMAIN disk.users =>
             /\ row \in UserRow /\ UserRowOK(row)
             /\ FromPersisted(asked[c].slot, row, LoadMemberships(disk, asked[c].slot)) = account
    PROVE  Consistent' /\ Store!ApplyCommand(c, op, account)
<1>1. at[c] = "update" /\ at[c] # "idle" /\ asked[c].op = op
  BY DEF Update
<1>2. disk \in Tables /\ accounts = Accounted(disk) /\ accounts' = Accounted(disk')
      /\ DOMAIN Accounted(disk) = DOMAIN disk.users
  BY AccountsAre DEF Consistent, Accounted
<1> DEFINE slot == asked[c].slot
<1>3. CASE slot \notin DOMAIN disk.users
  <2>1. UNCHANGED disk /\ Return(c, Refused("UserNotFound"))
    BY <1>3 DEF Update, ReadOnly, tables
  <2>2. Consistent' /\ Store!Answer(c, Refused("UserNotFound"))
    BY <1>1, <1>2, <2>1, ReturnKeeps DEF Refused
  <2> QED
    BY <1>1, <1>2, <1>3, <2>1, <2>2 DEF Store!ApplyCommand, Store!Refused, Refused
<1>4. CASE slot \in DOMAIN disk.users
  <2>1. disk' = [disk EXCEPT !.users[slot] = row] /\ Return(c, Done)
    BY <1>4 DEF Update
  <2>2. disk' \in Tables /\ Accounted(disk') = [Accounted(disk) EXCEPT ![slot] = account]
    <3>1. row \in UserRow /\ UserRowOK(row)
      BY <1>4
    <3>2. FromPersisted(slot, row, LoadMemberships(disk, slot)) = account
      BY <1>4
    <3>4. disk \in Tables /\ slot \in DOMAIN disk.users
      BY <1>2, <1>4
    <3> HIDE DEF slot
    <3>3. disk' = Overwritten(disk, slot, row)
      BY <2>1 DEF Overwritten
    <3>5. /\ Overwritten(disk, slot, row) \in Tables
          /\ Accounted(Overwritten(disk, slot, row)) = Replaced(Accounted(disk), slot, account)
      BY <3>1, <3>2, <3>4, AccountWritten
    <3> QED
      BY <3>3, <3>5 DEF Replaced
  <2>3. Consistent' /\ Store!Answer(c, Done)
    BY <1>1, <2>1, <2>2, ReturnKeeps DEF Done
  <2> QED
    BY <1>1, <1>2, <1>4, <2>2, <2>3 DEF Store!ApplyCommand, Store!Done, Done
<1> QED
  BY <1>3, <1>4

LEMMA RecordAuthStep ==
    ASSUME Consistent, NEW c \in Callers, RecordAuthOutcome(c)
    PROVE  Consistent' /\ Promised
<1> DEFINE slot == asked[c].slot
           row == UpdateAuth(disk.users[slot], asked[c].change)
           account == ApplyAuthOutcome(asked[c].change, Accounted(disk)[slot])
<1>1. Update(c, "record_auth_outcome", row) /\ asked[c].op = "record_auth_outcome"
  BY DEF RecordAuthOutcome, Update
<1>2. asked[c].change \in Outcomes /\ disk \in Tables
  BY <1>1 DEF Consistent, CommandOK
<1>3. ASSUME slot \in DOMAIN disk.users
      PROVE  /\ row \in UserRow /\ UserRowOK(row)
             /\ FromPersisted(slot, row, LoadMemberships(disk, slot)) = account
  <2>1. disk.users[slot] \in UserRow /\ UserRowOK(disk.users[slot])
        /\ LoadMemberships(disk, slot) \in MembershipMaps
    BY <1>2, <1>3, TablesTyped, MembershipsLoaded
  <2>2. Accounted(disk)[slot] = FromPersisted(slot, disk.users[slot], LoadMemberships(disk, slot))
    BY <1>3 DEF Accounted
  <2> QED
    BY <1>2, <2>1, <2>2, AuthCommutes
<1> HIDE DEF row, account
<1>4. Consistent' /\ Store!ApplyCommand(c, "record_auth_outcome", account)
  BY <1>1, <1>3, UpdateStep
<1>5. Store!RecordAuthOutcome(c)
  BY <1>4, AccountsAre, SameRules DEF Store!RecordAuthOutcome, Store!Addressed, account
<1> QED
  BY <1>4, <1>5 DEF Promised, Store!Next

LEMMA RecordPasswordStep ==
    ASSUME Consistent, NEW c \in Callers, RecordPasswordChange(c)
    PROVE  Consistent' /\ Promised
<1> DEFINE slot == asked[c].slot
           row == UpdatePassword(disk.users[slot], asked[c].change)
           account == ApplyPasswordChange(asked[c].change, Accounted(disk)[slot])
<1>1. Update(c, "record_password_change", row) /\ asked[c].op = "record_password_change"
  BY DEF RecordPasswordChange, Update
<1>2. asked[c].change \in [hash : Hashes, changed_at : Nat] /\ disk \in Tables
  BY <1>1 DEF Consistent, CommandOK
<1>3. ASSUME slot \in DOMAIN disk.users
      PROVE  /\ row \in UserRow /\ UserRowOK(row)
             /\ FromPersisted(slot, row, LoadMemberships(disk, slot)) = account
  <2>1. disk.users[slot] \in UserRow /\ UserRowOK(disk.users[slot])
        /\ LoadMemberships(disk, slot) \in MembershipMaps
    BY <1>2, <1>3, TablesTyped, MembershipsLoaded
  <2>2. Accounted(disk)[slot] = FromPersisted(slot, disk.users[slot], LoadMemberships(disk, slot))
    BY <1>3 DEF Accounted
  <2> QED
    BY <1>2, <2>1, <2>2, PasswordCommutes
<1> HIDE DEF row, account
<1>4. Consistent' /\ Store!ApplyCommand(c, "record_password_change", account)
  BY <1>1, <1>3, UpdateStep
<1>5. Store!RecordPasswordChange(c)
  BY <1>4, AccountsAre, SameRules DEF Store!RecordPasswordChange, Store!Addressed, account
<1> QED
  BY <1>4, <1>5 DEF Promised, Store!Next

\* The transaction of a patch.
LEMMA PatchUserStep ==
    ASSUME Consistent, NEW c \in Callers, PatchUser(c)
    PROVE  Consistent' /\ Promised
<1> DEFINE slot == asked[c].slot
           patch == asked[c].change
<1>1. at[c] = "patch user" /\ at[c] # "idle"
  BY DEF PatchUser
<1>2. disk \in Tables /\ accounts = Accounted(disk) /\ accounts' = Accounted(disk')
      /\ DOMAIN Accounted(disk) = DOMAIN disk.users
  BY AccountsAre DEF Consistent, Accounted
<1>3. asked[c] # Idle /\ asked[c].op = "apply_user_patch"
  BY <1>1, OneAtATime DEF Knows
<1>4. patch \in UserPatches
  BY <1>3 DEF Consistent, CommandOK
<1>5. CASE slot \notin DOMAIN disk.users
  <2>1. UNCHANGED disk /\ Return(c, Refused("UserNotFound"))
    BY <1>5 DEF PatchUser, Rollback
  <2>2. Consistent' /\ Store!Answer(c, Refused("UserNotFound"))
    BY <1>1, <1>2, <2>1, ReturnKeeps DEF Refused
  <2>3. Store!Patch(c)
    BY <1>2, <1>3, <1>5, <2>1, <2>2 DEF Store!Patch, Store!ApplyCommand, Store!Refused, Refused
  <2> QED
    BY <2>2, <2>3 DEF Promised, Store!Next
<1>6. CASE slot \in DOMAIN disk.users
  <2> DEFINE row == UpdateUser(disk.users[slot], patch)
             known == [slot |-> slot, left |-> patch.memberships, result |-> Done]
  <2>1. /\ work' = [disk EXCEPT !.users[slot] = row] /\ UNCHANGED disk
        /\ Proceed(c, "patch memberships", known)
    BY <1>6 DEF PatchUser
  <2>2. row \in UserRow /\ UserRowOK(row)
    <3>1. disk.users[slot] \in UserRow /\ UserRowOK(disk.users[slot])
          /\ LoadMemberships(disk, slot) \in MembershipMaps
      BY <1>2, <1>6, TablesTyped, MembershipsLoaded
    <3> QED
      BY <1>4, <3>1, PatchCommutes
  <2>3. /\ known.slot = slot /\ known.left = patch.memberships /\ known.result = Done
        /\ known = [slot |-> known.slot, left |-> known.left, result |-> known.result]
    OBVIOUS
  <2> HIDE DEF known, slot, patch, row
  <2>4. /\ work' \in Tables /\ work'.users = [disk.users EXCEPT ![slot] = row]
        /\ \A s : LoadMemberships(work', s) = LoadMemberships(disk, s)
    <3>1. \A new : new = Overwritten(disk, slot, row) =>
            /\ new \in Tables /\ new.users = [disk.users EXCEPT ![slot] = row]
            /\ \A s : LoadMemberships(new, s) = LoadMemberships(disk, s)
      BY <1>2, <1>6, <2>2, RowWritten
    <3> QED
      BY <2>1, <3>1 DEF Overwritten
  <2>5. Patching(asked[c], known, disk, work')
    <3>1. work'.users = [disk.users EXCEPT ![asked[c].slot]
                           = UpdateUser(disk.users[asked[c].slot], asked[c].change)]
      BY <2>4 DEF slot, patch, row
    <3> QED
      BY <1>3, <1>6, <2>3, <2>4, <3>1 DEF Patching, slot, patch
  <2>6. Knows(asked[c], "patch memberships", known, disk, work')
    BY <1>3, <2>5 DEF Knows
  <2> QED
    BY <1>1, <2>1, <2>6, ProceedKeeps DEF Promised
<1> QED
  BY <1>5, <1>6

LEMMA StorageFails ==
    ASSUME Consistent, NEW c \in Callers, at[c] # "idle", UNCHANGED disk,
           Return(c, Refused("Storage"))
    PROVE  Consistent' /\ Promised
<1>1. Consistent' /\ Store!Answer(c, Refused("Storage")) /\ asked[c] # Store!Idle
  <2>1. disk' \in Tables
    BY DEF Consistent
  <2> QED
    BY <2>1, ReturnKeeps DEF Refused
<1>2. Store!Storage(c)
  BY <1>1, AccountsAre DEF Store!Storage, Store!Refused, Refused
<1> QED
  BY <1>1, <1>2 DEF Promised, Store!Next

LEMMA PatchMembershipStep ==
    ASSUME Consistent, NEW c \in Callers, PatchNextMembership(c)
    PROVE  Consistent' /\ Promised
<1> DEFINE patch == CHOOSE p \in local[c].left : TRUE
           patched == PatchMembership(work, local[c].slot, patch)
<1>1. at[c] = "patch memberships" /\ at[c] # "idle" /\ local[c].left # {}
  BY DEF PatchNextMembership
<1>2. CASE ~ConstraintsHold(patched)
  <2>1. UNCHANGED disk /\ Return(c, Refused("Storage"))
    BY <1>2 DEF PatchNextMembership, Rollback
  <2> QED
    BY <1>1, <2>1, StorageFails
<1>3. CASE ConstraintsHold(patched)
  <2> DEFINE slot == asked[c].slot
             all == asked[c].change.memberships
             left == local[c].left
             rest == left \ {patch}
             known == [local[c] EXCEPT !.left = rest]
  <2>1. work' = patched /\ UNCHANGED disk /\ Proceed(c, "patch memberships", known)
    BY <1>1, <1>3 DEF PatchNextMembership
  <2>2. asked[c] # Idle /\ Patching(asked[c], local[c], disk, work)
    BY <1>1, OneAtATime DEF Knows, Registering
  <2>3. patch \in left
    BY <1>1
  <2>4. /\ left \subseteq all /\ work \in Tables /\ local[c].slot = slot /\ slot \in DOMAIN disk.users
        /\ DOMAIN work.users = DOMAIN disk.users
    BY <2>2 DEF Patching
  <2>5. asked[c].change \in UserPatches
    BY <2>2 DEF Patching, Consistent, CommandOK
  <2>6. /\ \A p \in left : PatchOK(p)
        /\ \A p, q \in left : p.conference_number = q.conference_number => p = q
    BY <2>4, <2>5 DEF UserPatches, PatchOK
  <2>7. \A p \in left : p.create_if_missing \in BOOLEAN
    BY <2>6 DEF PatchOK, MembershipPatch
  <2> HIDE DEF slot, all, patch, left, rest, known
  <2>8. patched = PatchMembership(work, slot, patch)
    BY <2>4
  <2>9. slot \in DOMAIN work.users /\ PatchOK(patch)
    BY <2>3, <2>4, <2>6
  <2> HIDE DEF patched
  <2>10. work' \in Tables /\ work'.users = work.users
    BY <1>3, <2>1, <2>4, <2>8, <2>9, PatchKeepsTables
  <2>11. LoadMemberships(work', slot) = AfterPatch(patch, LoadMemberships(work, slot))
    <3>1. \A new : new = PatchMembership(work, slot, patch) /\ new \in Tables =>
             LoadMemberships(new, slot) = AfterPatch(patch, LoadMemberships(work, slot))
      BY <2>4, <2>9, PatchLoads
    <3> QED
      BY <2>1, <2>8, <2>10, <3>1
  <2>12. \A s : s # slot => LoadMemberships(work', s) = LoadMemberships(work, s)
    <3>1. \A new : new = PatchMembership(work, slot, patch) /\ new \in Tables =>
             \A s : s # slot => LoadMemberships(new, s) = LoadMemberships(work, s)
      BY <2>4, <2>9, PatchLeavesOthers
    <3> QED
      BY <2>1, <2>8, <2>10, <3>1
  <2>13. ApplyMembershipPatches(left, LoadMemberships(work, slot))
         = ApplyMembershipPatches(rest, LoadMemberships(work', slot))
    BY <2>3, <2>6, <2>7, <2>11, PatchesInTurn DEF rest
  <2>14. known.slot = local[c].slot /\ known.result = local[c].result /\ known.left = rest
         /\ rest \subseteq left
         /\ known = [slot |-> known.slot, left |-> known.left, result |-> known.result]
    <3>1. local[c] = [slot |-> local[c].slot, left |-> left, result |-> local[c].result]
      BY <2>2 DEF Patching, left
    <3>2. known = [slot |-> local[c].slot, left |-> rest, result |-> local[c].result]
      BY <3>1 DEF known
    <3>3. rest \subseteq left
      BY DEF rest
    <3> QED
      BY <3>2, <3>3
  <2>15. Patching(asked[c], known, disk, work')
    BY <2>2, <2>10, <2>12, <2>13, <2>14 DEF Patching, slot, left
  <2>16. Knows(asked[c], "patch memberships", known, disk, work')
    BY <2>2, <2>15 DEF Knows
  <2> QED
    BY <1>1, <2>1, <2>16, ProceedKeeps DEF Promised
<1> QED
  BY <1>2, <1>3

LEMMA CommitStep ==
    ASSUME Consistent, NEW c \in Callers, Commit(c)
    PROVE  Consistent' /\ Promised
<1>1. at[c] = "patch memberships" /\ at[c] # "idle" /\ local[c].left = {} /\ disk' = work
      /\ Return(c, local[c].result)
  BY DEF Commit
<1>2. disk \in Tables /\ accounts = Accounted(disk) /\ accounts' = Accounted(work)
      /\ DOMAIN Accounted(disk) = DOMAIN disk.users
  BY <1>1, AccountsAre DEF Consistent, Accounted
<1>3. CASE Patching(asked[c], local[c], disk, work)
  <2> DEFINE slot == asked[c].slot
             patch == asked[c].change
  <2>1. /\ asked[c].op = "apply_user_patch" /\ local[c].result = Done
        /\ slot \in DOMAIN disk.users /\ work \in Tables
        /\ work.users = [disk.users EXCEPT ![slot] = UpdateUser(disk.users[slot], patch)]
        /\ ApplyMembershipPatches({}, LoadMemberships(work, slot))
           = ApplyMembershipPatches(patch.memberships, LoadMemberships(disk, slot))
        /\ \A s \in DOMAIN disk.users \ {slot} : LoadMemberships(work, s) = LoadMemberships(disk, s)
    BY <1>1, <1>3 DEF Patching
  <2>2. patch \in UserPatches
    BY <2>1 DEF Consistent, CommandOK
  <2>3. ApplyMembershipPatches({}, LoadMemberships(work, slot)) = LoadMemberships(work, slot)
    <3> DEFINE ms == LoadMemberships(work, slot)
    <3>1. ms \in MembershipMaps
      BY <2>1, MembershipsLoaded
    <3> HIDE DEF ms
    <3>2. ms = [k \in DOMAIN ms |-> ms[k]]
      BY <3>1 DEF MembershipMaps
    <3>3. ApplyMembershipPatches({}, ms) = ms
      BY <3>2, NoPatch
    <3> QED
      BY <3>3 DEF ms
  <2>4. Consistent' /\ Store!Answer(c, Done)
    BY <1>1, <2>1, ReturnKeeps DEF Done
  <2> HIDE DEF slot, patch
  <2>5. Accounted(work) = [Accounted(disk) EXCEPT ![slot] = ApplyUserPatch(patch, Accounted(disk)[slot])]
    <3>1. LoadMemberships(work, slot)
          = ApplyMembershipPatches(patch.memberships, LoadMemberships(disk, slot))
      BY <2>1, <2>3
    <3> QED
      BY <1>2, <2>1, <2>2, <3>1, SlotPatched
  <2>6. Store!Patch(c)
    BY <1>2, <2>1, <2>4, <2>5, SamePatch
       DEF Store!Patch, Store!ApplyCommand, Store!Addressed, Store!Done, Done, slot, patch
  <2> QED
    BY <2>4, <2>6 DEF Promised, Store!Next
<1>4. CASE Registering(asked[c], local[c], disk, work)
  <2> DEFINE draft == asked[c].draft
             slot == NextSlot(disk)
             user == RegisterNew(slot, draft)
  <2>1. /\ asked[c].op = "create_user" /\ SelectSlot(disk, draft.handle) = {} /\ work \in Tables
        /\ local[c].result = Found(user) /\ Accounted(work) = Put(Accounted(disk), slot, user)
    BY <1>4 DEF Registering, Unnamed
  <2>2. draft \in Drafts
    BY <2>1 DEF Consistent, CommandOK
  <2>3. slot \in Nat
    BY <1>2, LastSlot DEF NextSlot
  <2>4. user \in Accounts
    <3> HIDE DEF draft, slot
    <3> QED
      BY <2>2, <2>3, RegisteredTyped DEF Drafts
  <2>5. Consistent' /\ Store!Answer(c, Found(user))
    <3> HIDE DEF user
    <3> QED
      BY <1>1, <2>1, <2>4, ReturnKeeps DEF Found
  <2>6. Store!Max(DOMAIN accounts \cup {0}) + 1 = slot
    BY <1>2, SameRules DEF NextSlot
  <2>7. Store!SlotsNamed(draft.handle) = {}
    BY <1>2, <2>1, SlotsAreNamed
  <2>8. accounts' = Store!Put(accounts, slot, user)
    BY <1>2, <2>1, SameRules
  <2>9. Store!RegisterNew(slot, draft) = user
    BY SameRules
  <2> HIDE DEF user, slot
  <2>10. Store!CreateUser(c)
    BY <2>1, <2>5, <2>6, <2>7, <2>8, <2>9 DEF Store!CreateUser, Store!Found, Found
  <2> QED
    BY <2>5, <2>10 DEF Promised, Store!Next
<1> QED
  BY <1>1, <1>3, <1>4, OneAtATime DEF Knows

\* The transaction of a registration.
LEMMA CheckHandleStep ==
    ASSUME Consistent, NEW c \in Callers, CheckHandle(c)
    PROVE  Consistent' /\ Promised
<1>1. at[c] = "select handle" /\ at[c] # "idle" /\ UNCHANGED disk
  BY DEF CheckHandle, tables
<1>2. disk \in Tables /\ disk' \in Tables
  BY <1>1 DEF Consistent
<1>3. asked[c] # Idle /\ asked[c].op = "create_user"
  BY <1>1, OneAtATime DEF Knows
<1> DEFINE slots == SelectSlot(disk, asked[c].draft.handle)
<1>4. CASE slots # {}
  <2>1. Return(c, Refused("DuplicateUser"))
    BY <1>4 DEF CheckHandle
  <2>2. Consistent' /\ Store!Answer(c, Refused("DuplicateUser"))
    BY <1>1, <1>2, <2>1, ReturnKeeps DEF Refused
  <2>3. Store!SlotsNamed(asked[c].draft.handle) # {} /\ accounts' = accounts
    BY <1>1, <1>2, <1>4, SlotsAreNamed, AccountsAre
  <2>4. Store!CreateUser(c)
    BY <1>3, <2>2, <2>3 DEF Store!CreateUser, Store!Refused, Refused
  <2> QED
    BY <2>2, <2>4 DEF Promised, Store!Next
<1>5. CASE slots = {}
  <2>1. Proceed(c, "select next slot", None)
    BY <1>5 DEF CheckHandle
  <2>2. Knows(asked[c], "select next slot", None, disk, work')
    BY <1>3, <1>5 DEF Knows, Unnamed
  <2> QED
    BY <1>1, <2>1, <2>2, ProceedKeeps DEF Promised
<1> QED
  BY <1>4, <1>5

LEMMA AllocateSlotStep ==
    ASSUME Consistent, NEW c \in Callers, AllocateSlot(c)
    PROVE  Consistent' /\ Promised
<1> DEFINE known == [slot |-> NextSlot(disk)]
<1>1. at[c] = "select next slot" /\ at[c] # "idle" /\ UNCHANGED <<disk, work>>
  BY DEF AllocateSlot, ReadOnly, tables
<1>2. asked[c] # Idle /\ Unnamed(asked[c], disk)
  BY <1>1, OneAtATime DEF Knows
<1>3. Proceed(c, "insert user", known)
  BY DEF AllocateSlot, NextSlot
<1>4. known.slot = NextSlot(disk)
  OBVIOUS
<1> HIDE DEF known
<1>5. Knows(asked[c], "insert user", known, disk, work')
  BY <1>2, <1>4 DEF Knows
<1> QED
  BY <1>1, <1>3, <1>5, ProceedKeeps DEF Promised

LEMMA InsertUserStep ==
    ASSUME Consistent, NEW c \in Callers, InsertNewUser(c)
    PROVE  Consistent' /\ Promised
<1> DEFINE draft == asked[c].draft
           slot == local[c].slot
           user == RegisterNew(slot, draft)
           new == DeleteMemberships(InsertUser(disk, user), slot)
           known == [slot |-> slot, left |-> {}, result |-> Found(user)]
<1>1. at[c] = "insert user" /\ at[c] # "idle"
  BY DEF InsertNewUser
<1>2. asked[c] # Idle /\ Unnamed(asked[c], disk) /\ slot = NextSlot(disk)
  BY <1>1, OneAtATime DEF Knows
<1>3. CASE behind
  <2>1. UNCHANGED disk /\ Return(c, Refused("Storage"))
    BY <1>3 DEF InsertNewUser, Rollback
  <2> QED
    BY <1>1, <2>1, StorageFails
<1>4. CASE ~behind
  <2>1. disk \in Tables /\ draft \in Drafts /\ slot \in Nat
    BY <1>2, LastSlot DEF Consistent, CommandOK, Unnamed, NextSlot
  <2>2. user \in Accounts /\ user.slot_number = slot /\ user.conferences.memberships = <<>>
    <3> HIDE DEF draft, slot
    <3> QED
      BY <2>1, RegisteredTyped DEF Drafts
  <2>3. /\ work' = new /\ UNCHANGED disk /\ Proceed(c, "patch memberships", known)
    BY <1>4, <2>2 DEF InsertNewUser
  <2> HIDE DEF user, draft
  <2>4. slot = Max(DOMAIN disk.users \cup {0}) + 1
    BY <1>2 DEF NextSlot
  <2>5. /\ new \in Tables /\ slot \notin DOMAIN disk.users
        /\ new.users = Put(disk.users, slot, RowOf(user))
        /\ LoadMemberships(new, slot) = <<>>
        /\ \A s \in DOMAIN disk.users : LoadMemberships(new, s) = LoadMemberships(disk, s)
    <3> HIDE DEF slot, new
    <3>1. new = DeleteMemberships(InsertUser(disk, user), slot)
      BY DEF new
    <3> QED
      BY <2>1, <2>2, <2>4, <3>1, RowInserted
  <2> HIDE DEF new
  <2>6. Accounted(new) = Put(Accounted(disk), slot, user)
    <3> HIDE DEF slot
    <3> QED
      BY <2>1, <2>2, <2>5, SlotAdded
  <2>7. known.left = {} /\ known.result = Found(user)
    OBVIOUS
  <2> HIDE DEF known
  <2>8. Registering(asked[c], known, disk, new)
    BY <1>2, <2>5, <2>6, <2>7 DEF Registering, user, draft
  <2>9. Knows(asked[c], "patch memberships", known, disk, work')
    BY <1>2, <2>3, <2>8 DEF Knows
  <2> QED
    BY <1>1, <2>3, <2>9, ProceedKeeps DEF Promised
<1> QED
  BY <1>3, <1>4

LEMMA TimedOutStep ==
    ASSUME Consistent, NEW c \in Callers, TimedOut(c)
    PROVE  Consistent' /\ Promised
<1>1. at[c] # "idle" /\ UNCHANGED disk /\ Return(c, Refused("Storage"))
  BY DEF TimedOut, tables
<1> QED
  BY <1>1, StorageFails

----------------------------------------------------------------------------
(* The sessions, the connection, and the board that comes up and ends.      *)

\* A command is asked by a caller that is not between two statements.
LEMMA AskKeeps ==
    ASSUME Consistent, NEW c \in Callers, NEW command, Ask(c, command),
           command.op # "idle", CommandOK(command),
           DOMAIN live' = Callers,
           \A r \in Callers : live'[r] # None => live[r] # None /\ live'[r] \in Accounts
    PROVE  Consistent' /\ Promised
<1>1. /\ boot = "serving" /\ asked[c] = Idle /\ asked' = [asked EXCEPT ![c] = command]
      /\ answer' = [answer EXCEPT ![c] = Nothing]
      /\ UNCHANGED <<disk, work, boot, catalogue, lock, at, local, baseline, workload, now>>
  BY DEF Ask, tables, adapter
<1>2. /\ Shape' /\ asked'[c] = command
      /\ \A r \in Callers \ {c} : asked'[r] = asked[r]
  BY <1>1 DEF Consistent, Shape
<1>3. BootOK'
  BY <1>1 DEF Consistent, BootOK
<1>4. CopiesOK'
  BY <1>1 DEF Consistent, CopiesOK
<1>5. at[c] = "idle"
  BY <1>1, OneAtATime DEF Knows
<1>6. StatementsOK'
  BY <1>1, <1>2, <1>5 DEF Consistent, StatementsOK
<1>7. Consistent'
  BY <1>1, <1>2, <1>3, <1>4, <1>6 DEF Consistent
<1>8. command # Idle
  BY DEF Idle
<1>9. accounts' = accounts
  BY <1>1, AccountsAre
<1>10. asked' = [asked EXCEPT ![c] = asked'[c]]
  BY <1>1, <1>2
<1>11. Store!Ask(c)
  BY <1>1, <1>2, <1>8, <1>9, <1>10 DEF Store!Ask, Store!Idle, Idle, Store!Nothing, Nothing
<1> QED
  BY <1>7, <1>11 DEF Promised, Store!Next

LEMMA LookUpStep ==
    ASSUME Consistent, NEW c \in Callers, LookUp(c)
    PROVE  Consistent' /\ Promised
<1>1. DOMAIN live' = Callers /\ \A r \in Callers : live'[r] = live[r]
  BY DEF LookUp, Consistent, Shape
<1>2. \A r \in Callers : live'[r] # None => live[r] # None /\ live'[r] \in Accounts
  BY <1>1 DEF Consistent, CopiesOK
<1>3. CASE \E handle \in Handles : Ask(c, [op |-> "find_by_handle", handle |-> handle])
  <2> PICK handle \in Handles : Ask(c, [op |-> "find_by_handle", handle |-> handle])
    BY <1>3
  <2> DEFINE command == [op |-> "find_by_handle", handle |-> handle]
  <2>1. command.op = "find_by_handle" /\ Ask(c, command)
    OBVIOUS
  <2> HIDE DEF command
  <2>2. CommandOK(command)
    BY <2>1 DEF CommandOK, FirstStatement
  <2> QED
    BY <1>1, <1>2, <2>1, <2>2, AskKeeps
<1>4. CASE Ask(c, [op |-> "find_sysop"])
  <2> DEFINE command == [op |-> "find_sysop"]
  <2>1. command.op = "find_sysop" /\ Ask(c, command)
    BY <1>4
  <2> HIDE DEF command
  <2>2. CommandOK(command)
    BY <2>1 DEF CommandOK, FirstStatement
  <2> QED
    BY <1>1, <1>2, <2>1, <2>2, AskKeeps
<1> QED
  BY <1>3, <1>4 DEF LookUp

LEMMA RegisterStep ==
    ASSUME Consistent, NEW c \in Callers, Register(c)
    PROVE  Consistent' /\ Promised
<1>1. DOMAIN live' = Callers /\ \A r \in Callers : live'[r] = live[r]
  BY DEF Register, Consistent, Shape
<1>2. \A r \in Callers : live'[r] # None => live[r] # None /\ live'[r] \in Accounts
  BY <1>1 DEF Consistent, CopiesOK
<1> DEFINE draft(handle) == [handle |-> handle, hash |-> "chosen", now |-> now, flags |-> Flags]
           asks(handle) == [op |-> "create_user", draft |-> draft(handle)]
<1>3. PICK handle \in Handles : Ask(c, asks(handle))
  BY DEF Register
<1> DEFINE command == asks(handle)
<1>4. draft(handle) \in Drafts
  BY DEF Consistent, Drafts, Hashes
<1>5. command.op = "create_user" /\ command.draft \in Drafts /\ Ask(c, command)
  BY <1>3, <1>4
<1> HIDE DEF command
<1>6. CommandOK(command)
  BY <1>5 DEF CommandOK, FirstStatement
<1> QED
  BY <1>1, <1>2, <1>5, <1>6, AskKeeps

\* What a session does with its own copy as it asks.
LEMMA CopyReplaced ==
    ASSUME Consistent, NEW c \in Callers, live[c] # None, NEW user \in Accounts,
           live' = [live EXCEPT ![c] = user]
    PROVE  /\ DOMAIN live' = Callers /\ live'[c] = user
           /\ \A r \in Callers : live'[r] # None => live[r] # None /\ live'[r] \in Accounts
BY DEF Consistent, Shape, CopiesOK

LEMMA JudgeStep ==
    ASSUME Consistent, NEW c \in Callers, Judge(c)
    PROVE  Consistent' /\ Promised
<1>1. live[c] # None /\ live[c] \in Accounts
  BY DEF Judge, Consistent, CopiesOK
<1>2. PICK outcome \in Outcomes :
        /\ Ask(c, Command("record_auth_outcome", live[c], outcome))
        /\ live' = [live EXCEPT ![c] = OwnCopyAfter(outcome, live[c])]
  BY DEF Judge
<1> DEFINE command == Command("record_auth_outcome", live[c], outcome)
           user == OwnCopyAfter(outcome, live[c])
<1>3. user \in Accounts
  BY <1>1, JudgedTyped
<1>4. command.op = "record_auth_outcome" /\ command.slot \in Nat /\ command.change \in Outcomes
  BY <1>1 DEF Command, Accounts
<1> HIDE DEF command, user
<1>5. CommandOK(command)
  BY <1>4 DEF CommandOK, FirstStatement
<1>6. live' = [live EXCEPT ![c] = user] /\ Ask(c, command)
  BY <1>2 DEF user, command
<1>7. /\ DOMAIN live' = Callers
      /\ \A r \in Callers : live'[r] # None => live[r] # None /\ live'[r] \in Accounts
  BY <1>1, <1>3, <1>6, CopyReplaced
<1> QED
  BY <1>4, <1>5, <1>6, <1>7, AskKeeps

LEMMA ChangeOwnPasswordStep ==
    ASSUME Consistent, NEW c \in Callers, ChangeOwnPassword(c)
    PROVE  Consistent' /\ Promised
<1>1. live[c] # None /\ live[c] \in Accounts
  BY DEF ChangeOwnPassword, Consistent, CopiesOK
<1> DEFINE change == [hash |-> "changed", changed_at |-> now]
           command == Command("record_password_change", live[c], change)
           user == ApplyPasswordChange(change, live[c])
<1>2. Ask(c, command) /\ live' = [live EXCEPT ![c] = user]
  BY DEF ChangeOwnPassword
<1>3. change \in [hash : Hashes, changed_at : Nat]
  BY DEF Consistent, Hashes
<1>4. command.op = "record_password_change" /\ command.slot \in Nat /\ command.change = change
  BY <1>1 DEF Command, Accounts
<1> HIDE DEF command, change
<1>5. user \in Accounts
  BY <1>1, <1>3, PasswordTyped
<1> HIDE DEF user
<1>6. CommandOK(command)
  BY <1>3, <1>4 DEF CommandOK, FirstStatement
<1>7. /\ DOMAIN live' = Callers
      /\ \A r \in Callers : live'[r] # None => live[r] # None /\ live'[r] \in Accounts
  BY <1>1, <1>2, <1>5, CopyReplaced
<1> QED
  BY <1>2, <1>4, <1>6, <1>7, AskKeeps

LEMMA SaveStep ==
    ASSUME Consistent, NEW c \in Callers, Save(c)
    PROVE  Consistent' /\ Promised
<1>1. live[c] # None /\ live[c] \in Accounts /\ baseline[c] \in Accounts
  BY DEF Save, Consistent, CopiesOK
<1> DEFINE patch == Between(baseline[c], live[c])
           command == Command("apply_user_patch", live[c], patch)
<1>2. Ask(c, command) /\ live' = live
  BY DEF Save
<1>3. patch \in UserPatches
  BY <1>1, BetweenTyped
<1> HIDE DEF patch
<1>4. command.op = "apply_user_patch" /\ command.slot \in Nat /\ command.change = patch
  BY <1>1 DEF Command, Accounts
<1> HIDE DEF command
<1>5. CommandOK(command)
  BY <1>3, <1>4 DEF CommandOK, FirstStatement
<1>6. /\ DOMAIN live' = Callers
      /\ \A r \in Callers : live'[r] # None => live[r] # None /\ live'[r] \in Accounts
  BY <1>2 DEF Consistent, Shape, CopiesOK
<1> QED
  BY <1>2, <1>4, <1>5, <1>6, AskKeeps

LEMMA EditCopyStep ==
    ASSUME Consistent, NEW c \in Callers, EditCopy(c)
    PROVE  Consistent' /\ Promised
<1>1. live[c] # None /\ live[c] \in Accounts
  BY DEF EditCopy, Consistent, CopiesOK
<1>2. PICK user \in EditsOf(live[c]) : live' = [live EXCEPT ![c] = user]
  BY DEF EditCopy
<1>3. UNCHANGED <<disk, work, boot, catalogue, lock, at, local, asked, answer, baseline, workload, now>>
  BY DEF EditCopy, tables, adapter, bounds
<1>4. user \in Accounts
  BY <1>1, EditsTyped DEF Consistent
<1>5. /\ DOMAIN live' = Callers
      /\ \A r \in Callers : live'[r] # None => live[r] # None /\ live'[r] \in Accounts
  BY <1>1, <1>2, <1>4, CopyReplaced
<1>6. Shape' /\ CopiesOK'
  BY <1>3, <1>5 DEF Consistent, Shape, CopiesOK
<1>7. BootOK' /\ StatementsOK'
  BY <1>3 DEF Consistent, BootOK, StatementsOK
<1>8. Consistent'
  BY <1>3, <1>6, <1>7 DEF Consistent
<1> QED
  BY <1>3, <1>8, AccountsAre DEF Promised, Store!vars

LEMMA LockStep ==
    ASSUME Consistent, NEW c \in Callers, Lock(c)
    PROVE  Consistent' /\ Promised
<1> DEFINE statement == FirstStatement[asked[c].op]
           known == [slot |-> 1]
<1>1. /\ boot = "serving" /\ asked[c] # Idle /\ at[c] = "idle" /\ lock = None /\ lock' = c
      /\ at' = [at EXCEPT ![c] = statement] /\ local' = [local EXCEPT ![c] = known]
      /\ UNCHANGED <<disk, work, boot, catalogue, asked, answer, live, baseline, workload, now>>
  BY DEF Lock, ConnectionFree, Statement, tables, bounds
<1>2. \A r \in Callers : at[r] = "idle"
  BY <1>1, NoneAssumption DEF Consistent, StatementsOK
<1>3. asked[c].op \in DOMAIN FirstStatement
  BY <1>1 DEF Consistent, CommandOK
<1>4. Knows(asked[c], statement, known, disk, work)
  <2>1. known.slot = 1
    OBVIOUS
  <2>2. \/ asked[c].op = "find_by_handle" /\ statement = "select slot"
        \/ asked[c].op = "find_sysop" /\ statement = "select user"
        \/ asked[c].op \in {"record_auth_outcome", "record_password_change"} /\ statement = "update"
        \/ asked[c].op = "apply_user_patch" /\ statement = "patch user"
        \/ asked[c].op = "create_user" /\ statement = "select handle"
    <3> DEFINE op == asked[c].op
    <3>1. op \in {"find_by_handle", "find_sysop", "record_auth_outcome", "record_password_change",
                  "apply_user_patch", "create_user"}
      BY <1>3 DEF FirstStatement
    <3>2. /\ FirstStatement["find_by_handle"] = "select slot"
          /\ FirstStatement["find_sysop"] = "select user"
          /\ FirstStatement["record_auth_outcome"] = "update"
          /\ FirstStatement["record_password_change"] = "update"
          /\ FirstStatement["apply_user_patch"] = "patch user"
          /\ FirstStatement["create_user"] = "select handle"
      BY DEF FirstStatement
    <3>3. statement = FirstStatement[op]
      OBVIOUS
    <3> HIDE DEF op, statement
    <3> QED
      BY <3>1, <3>2, <3>3 DEF op
  <2> HIDE DEF known, statement
  <2> QED
    BY <1>1, <2>1, <2>2 DEF Knows, Named
<1> HIDE DEF known, statement
<1>5. /\ Shape' /\ at'[c] = statement /\ local'[c] = known
      /\ \A r \in Callers \ {c} : at'[r] = "idle"
  BY <1>1, <1>2 DEF Consistent, Shape
<1>6. BootOK' /\ CopiesOK'
  BY <1>1 DEF Consistent, BootOK, CopiesOK
<1>7. StatementsOK'
  BY <1>1, <1>4, <1>5 DEF StatementsOK
<1>8. Consistent'
  BY <1>1, <1>5, <1>6, <1>7 DEF Consistent
<1> QED
  BY <1>1, <1>8, AccountsAre DEF Promised, Store!vars

\* The board comes up; a board without users is given its sysop.
LEMMA InitKeeps == Init => Consistent /\ Store!Init
<1> SUFFICES ASSUME Init PROVE Consistent /\ Store!Init
  OBVIOUS
<1>1. Schema \in Tables /\ DOMAIN Schema.users = {}
  <2>1. Schema.users = <<>> /\ Schema.memberships = <<>> /\ Schema.pointers = <<>>
        /\ Schema \in [users : {<<>>}, memberships : {<<>>}, pointers : {<<>>}]
    BY DEF Schema
  <2>2. <<>> \in UserTable
    <3>1. <<>> \in [1 .. 0 -> UserRow] /\ 0 \in Nat
      OBVIOUS
    <3> QED
      BY <3>1 DEF UserTable
  <2>3. <<>> \in MembershipTable
    <3>1. <<>> \in [{} -> MembershipRows] /\ {} \in SUBSET (Nat \X Nat)
      OBVIOUS
    <3> QED
      BY <3>1 DEF MembershipTable
  <2>4. <<>> \in PointerTable
    <3>1. <<>> \in [{} -> Pointers] /\ {} \in SUBSET (Nat \X Nat \X Nat)
      OBVIOUS
    <3> QED
      BY <3>1 DEF PointerTable
  <2>5. Schema \in [users : UserTable, memberships : MembershipTable, pointers : PointerTable]
    BY <2>1, <2>2, <2>3, <2>4
  <2>6. DOMAIN <<>> = {}
    OBVIOUS
  <2> QED
    BY <2>1, <2>5, <2>6 DEF Tables, ConstraintsHold
<1>2. disk \in Tables /\ workload \in Workloads /\ now \in Nat
  BY <1>1 DEF Init
<1>3. Shape /\ CopiesOK /\ BootOK /\ StatementsOK
  BY DEF Init, Shape, CopiesOK, BootOK, StatementsOK
<1>4. \A c \in Callers : CommandOK(asked[c])
  BY DEF Init, CommandOK, Idle
<1>5. Accounted(disk) = <<>>
  BY <1>1, EmptyTables DEF Init
<1> QED
  BY <1>2, <1>3, <1>4, <1>5, AccountsAre
     DEF Consistent, Store!Init, Init, Store!Idle, Idle, Store!Nothing, Nothing

\* Nobody asks before the board serves, so a step of the boot concerns the
\* tables and the boot alone.
LEMMA BootKeeps ==
    ASSUME Consistent, Booting, boot # "serving", disk' \in Tables, BootOK'
    PROVE  /\ Consistent' /\ UNCHANGED <<asked, answer>>
           /\ disk' = disk => UNCHANGED Store!vars
<1>1. UNCHANGED <<lock, at, local, asked, answer, live, baseline, workload, now>>
  BY DEF Booting, adapter, sessions, bounds
<1>2. \A c \in Callers : at[c] = "idle"
  BY OneAtATime
<1>3. Shape' /\ CopiesOK' /\ StatementsOK'
  BY <1>1, <1>2 DEF Consistent, Shape, CopiesOK, StatementsOK
<1>4. Consistent'
  BY <1>1, <1>3 DEF Consistent
<1> QED
  BY <1>1, <1>4, AccountsAre DEF Store!vars

LEMMA OpenStep ==
    ASSUME Consistent, Open
    PROVE  Consistent' /\ Promised
<1>1. /\ boot = "down" /\ boot' = "opened" /\ catalogue' \in workload.catalogues /\ Booting
      /\ disk' = disk /\ UNCHANGED <<lock, asked, workload>>
  BY DEF Open, Booting, tables, adapter, bounds
<1>2. BootOK' /\ disk' \in Tables
  BY <1>1 DEF Consistent, BootOK
<1> QED
  BY <1>1, <1>2, BootKeeps DEF Promised

LEMMA IsEmptyStep ==
    ASSUME Consistent, IsEmpty
    PROVE  Consistent' /\ Promised
<1>1. /\ boot = "opened" /\ boot' = IF DOMAIN disk.users = {} THEN "seeding" ELSE "serving"
      /\ Booting /\ disk' = disk /\ UNCHANGED <<catalogue, lock, asked, workload>>
  BY DEF IsEmpty, Booting, tables, adapter, bounds
<1>2. BootOK' /\ disk' \in Tables
  BY <1>1 DEF Consistent, BootOK
<1> QED
  BY <1>1, <1>2, BootKeeps DEF Promised

LEMMA SeedUserStep ==
    ASSUME Consistent, SeedUser
    PROVE  Consistent' /\ Promised
<1>1. /\ boot = "seeding" /\ boot' = "granting" /\ Booting
      /\ work' = DeleteMemberships(InsertUser(disk, Sysop), 1)
      /\ UNCHANGED <<disk, catalogue, lock, asked, workload>>
  BY DEF SeedUser, Sysop, Booting, adapter, bounds
<1>2. DOMAIN disk.users = {} /\ disk \in Tables
  BY <1>1 DEF Consistent, BootOK
<1>3. Seeded(work', {})
  BY <1>1, <1>2, SeedBegins
<1>4. {n \in catalogue : <<1, n>> \in DOMAIN work'.memberships} = {}
  BY <1>3 DEF Seeded
<1>5. BootOK' /\ disk' \in Tables
  BY <1>1, <1>2, <1>3, <1>4 DEF Consistent, BootOK
<1> QED
  BY <1>1, <1>5, BootKeeps DEF Promised

LEMMA SeedMembershipStep ==
    ASSUME Consistent, SeedMembership
    PROVE  Consistent' /\ Promised
<1> DEFINE done(w) == {n \in catalogue : <<1, n>> \in DOMAIN w.memberships}
           c == Min(Ungranted)
<1>1. /\ boot = "granting" /\ boot' = "granting" /\ Booting /\ Ungranted # {}
      /\ work' = InsertMembership(work, 1, c, Fresh)
      /\ UNCHANGED <<disk, catalogue, lock, asked, workload>>
  BY DEF SeedMembership, Fresh, Booting, adapter, bounds
<1>2. /\ DOMAIN disk.users = {} /\ disk \in Tables /\ Seeded(work, done(work))
      /\ catalogue \in workload.catalogues
  BY <1>1 DEF Consistent, BootOK
<1>3. catalogue \subseteq Nat
  BY <1>2, CataloguesAssumption DEF Consistent
<1>4. c \in Ungranted
  <2>1. Ungranted \in SUBSET Nat
    BY <1>3 DEF Ungranted
  <2> QED
    BY <1>1, <2>1, MinFound
<1>5. c \in catalogue /\ c \in Nat
  BY <1>3, <1>4 DEF Ungranted
<1> HIDE DEF c
<1>6. Seeded(work', done(work) \cup {c})
  <2> HIDE DEF done
  <2>1. \A new : new = InsertMembership(work, 1, c, Fresh) => Seeded(new, done(work) \cup {c})
    BY <1>2, <1>5, SeedGoesOn
  <2> QED
    BY <1>1, <2>1
<1>7. done(work') = done(work) \cup {c}
  <2>1. DOMAIN work'.memberships = {<<1, n>> : n \in done(work) \cup {c}}
    BY <1>6 DEF Seeded
  <2> QED
    BY <1>5, <2>1
<1>8. Seeded(work', done(work'))
  BY <1>6, <1>7
<1>9. BootOK' /\ disk' \in Tables
  BY <1>1, <1>2, <1>8 DEF Consistent, BootOK
<1> QED
  BY <1>1, <1>9, BootKeeps DEF Promised

LEMMA CommitSeedStep ==
    ASSUME Consistent, CommitSeed
    PROVE  Consistent' /\ Promised
<1> DEFINE done == {n \in catalogue : <<1, n>> \in DOMAIN work.memberships}
           all == [n \in catalogue |-> Fresh]
           user == [Sysop EXCEPT !.conferences.memberships = all]
<1>1. /\ boot = "granting" /\ boot' = "serving" /\ Booting /\ Ungranted = {} /\ disk' = work
      /\ UNCHANGED <<catalogue, lock, asked, workload>>
  BY DEF CommitSeed, Booting, adapter, bounds
<1>2. /\ DOMAIN disk.users = {} /\ disk \in Tables /\ Seeded(work, done)
      /\ catalogue \in workload.catalogues
  BY <1>1 DEF Consistent, BootOK
<1>3. done = catalogue
  BY <1>1 DEF Ungranted
<1>4. catalogue \in Catalogues
  BY <1>2, CataloguesAssumption DEF Consistent
<1>5. work \in Tables
  BY <1>2 DEF Seeded
<1>6. BootOK' /\ disk' \in Tables
  BY <1>1, <1>2, <1>5 DEF Consistent, BootOK
<1>7. Consistent' /\ UNCHANGED <<asked, answer>>
  BY <1>1, <1>6, BootKeeps
<1>8. Accounted(work) = Put(Accounted(disk), 1, user)
  BY <1>2, <1>3, SeedEnds
<1>9. Store!GrantAllMemberships(Store!DefaultSysop("sysop"), catalogue) = user
  BY SameRules DEF Store!GrantAllMemberships
<1> HIDE DEF user, done
<1>10. accounts = <<>> /\ accounts' = Store!Put(accounts, 1, user)
  BY <1>1, <1>2, <1>8, EmptyTables, AccountsAre, SameRules
<1>11. Store!Seed
  BY <1>4, <1>7, <1>9, <1>10 DEF Store!Seed
<1> QED
  BY <1>7, <1>11 DEF Promised, Store!Next

LEMMA StopStep ==
    ASSUME Consistent, Stop
    PROVE  Consistent' /\ Promised
<1>1. /\ boot' = "down" /\ lock' = None
      /\ at' = [c \in Callers |-> "idle"] /\ local' = [c \in Callers |-> None]
      /\ asked' = [c \in Callers |-> Idle] /\ answer' = [c \in Callers |-> Nothing]
      /\ live' = [c \in Callers |-> None] /\ baseline' = live'
      /\ UNCHANGED <<disk, workload, now>>
  BY DEF Stop
<1>2. Shape' /\ BootOK' /\ CopiesOK' /\ StatementsOK'
  BY <1>1 DEF Shape, BootOK, CopiesOK, StatementsOK
<1>3. \A c \in Callers : CommandOK(asked'[c])
  BY <1>1 DEF CommandOK, Idle
<1>4. Consistent'
  BY <1>1, <1>2, <1>3 DEF Consistent
<1>5. Store!Stop
  BY <1>1, AccountsAre DEF Store!Stop, Store!Idle, Idle, Store!Nothing, Nothing
<1> QED
  BY <1>4, <1>5 DEF Promised, Store!Next

\* The clock and the other connection change no table of the repository.
LEMMA OtherStep ==
    ASSUME Consistent, Tick \/ SaveFlags \/ FlagsSaved \/ UNCHANGED vars
    PROVE  Consistent' /\ Promised
<1>1. /\ UNCHANGED <<disk, work, boot, catalogue, lock, at, local, asked, answer, live, baseline, workload>>
      /\ now' \in Nat
  <2>1. now + 1 \in Nat /\ now \in Nat
    BY DEF Consistent
  <2>2. CASE Tick
    BY <2>1, <2>2 DEF Tick, tables, adapter, sessions
  <2>3. CASE SaveFlags
    BY <2>1, <2>3 DEF SaveFlags, tables, sessions
  <2>4. CASE FlagsSaved
    BY <2>1, <2>4 DEF FlagsSaved, tables, sessions, bounds
  <2>5. CASE UNCHANGED vars
    BY <2>1, <2>5 DEF vars, tables, adapter, sessions, bounds
  <2> QED
    BY <2>2, <2>3, <2>4, <2>5
<1>2. Consistent'
  BY <1>1 DEF Consistent, Shape, BootOK, CopiesOK, StatementsOK
<1> QED
  BY <1>1, <1>2, AccountsAre DEF Promised, Store!vars

LEMMA StepKeeps ==
    ASSUME Consistent, [Next]_vars
    PROVE  Consistent' /\ Promised
<1>1. CASE Open \/ IsEmpty \/ SeedUser \/ SeedMembership \/ CommitSeed \/ Stop
  BY <1>1, OpenStep, IsEmptyStep, SeedUserStep, SeedMembershipStep, CommitSeedStep, StopStep
<1>2. CASE Tick \/ SaveFlags \/ FlagsSaved \/ UNCHANGED vars
  BY <1>2, OtherStep
<1>3. ASSUME NEW c \in Callers,
             LookUp(c) \/ Register(c) \/ Judge(c) \/ ChangeOwnPassword(c) \/ EditCopy(c)
             \/ Save(c) \/ Lock(c)
      PROVE  Consistent' /\ Promised
  BY <1>3, LookUpStep, RegisterStep, JudgeStep, ChangeOwnPasswordStep, EditCopyStep, SaveStep, LockStep
<1>4. ASSUME NEW c \in Callers, Answering(c)
      PROVE  Consistent' /\ Promised
  BY <1>4, FindSlotStep, LoadUserStep, LoadRestStep, RecordAuthStep, RecordPasswordStep,
     PatchUserStep, PatchMembershipStep, CommitStep, CheckHandleStep, AllocateSlotStep,
     InsertUserStep, TimedOutStep DEF Answering
<1> QED
  BY <1>1, <1>2, <1>3, <1>4 DEF Next

\* In every state the committed tables are typed and meet the constraints of
\* the database, a caller between two statements holds the connection, and
\* what it has read or written so far is still what the tables say.
THEOREM RowsAreConsistent == Spec => []Consistent
<1>1. Init => Consistent
  BY InitKeeps
<1>2. Consistent /\ [Next]_vars => Consistent'
  BY StepKeeps
<1> QED
  BY <1>1, <1>2, PTL DEF Spec

\* The SQLite adapter keeps the promise of the repository: every behaviour of
\* the tables, the statements and the boots is one in which whole commands
\* change whole accounts by the rules of the domain, or fail and change nothing.
THEOREM RowsImplementStore == Spec => StoreImplemented
<1>1. Init => Store!Init
  BY InitKeeps
<1>2. Consistent /\ [Next]_vars => [Store!Next]_Store!vars
  BY StepKeeps DEF Promised
<1> QED
  BY <1>1, <1>2, RowsAreConsistent, PTL DEF Spec, StoreImplemented, Store!Spec
=============================================================================
