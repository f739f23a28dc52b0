----------------------- MODULE AccountSessionsProofs -----------------------
(* Theorems about AccountSessions, for every number of accounts, calls and
   conferences and every setting of the limits.                            *)
EXTENDS AccountSessions, TLAPS, WellFoundedInduction, FiniteSetTheorems

----------------------------------------------------------------------------
(* The operators of UserRecords keep the shape of a record.                *)

USE DEF Never, NoConference

LEMMA LargerNat == ASSUME NEW a \in Nat, NEW b \in Nat
                   PROVE  /\ Larger(a, b) \in Nat
                          /\ Larger(a, b) >= a /\ Larger(a, b) >= b
                          /\ Larger(a, b) \in {a, b}
BY DEF Larger

LEMMA ExcessNat == ASSUME NEW a \in Nat, NEW b \in Nat
                   PROVE  /\ Excess(a, b) \in Nat
                          /\ a >= b => b + Excess(a, b) = a
BY DEF Excess

LEMMA RegisterType ==
    ASSUME NEW handle \in Handles \cup {NoHandle}, NEW password \in Passwords,
           NEW now \in Nat
    PROVE  RegisterNew(handle, password, now) \in UserRecord
BY DEF RegisterNew, UserRecord

LEMMA BlankType == Blank \in UserRecord
<1> DEFINE some == CHOOSE p \in Passwords : TRUE
<1>1. some \in Passwords
  BY PasswordsAssumption
<1>2. RegisterNew(NoHandle, some, 0) \in UserRecord
  BY <1>1, RegisterType
<1> QED
  BY <1>2 DEF Blank, UserRecord

LEMMA DailyType ==
    ASSUME NEW user \in UserRecord, NEW daily \in {"NewDay", "SameDay"}
    PROVE  BeginDailyBudget(user, daily) \in UserRecord
BY DEF BeginDailyBudget, UserRecord

LEMMA OutcomeType ==
    ASSUME NEW last_call, NEW now
    PROVE  DailyBudgetOutcome(last_call, now) \in {"NewDay", "SameDay"}
BY DEF DailyBudgetOutcome

LEMMA FlagType ==
    ASSUME NEW user \in UserRecord, NEW expiry, NEW now
    PROVE  FlagResetIfExpired(user, expiry, now) \in UserRecord
BY DEF FlagResetIfExpired, UserRecord

LEMMA AdvanceType ==
    ASSUME NEW user \in UserRecord, NEW c \in Conferences, NEW to \in Nat
    PROVE  /\ AdvanceLastRead(user, c, to) \in UserRecord
           /\ AdvanceLastScanned(user, c, to) \in UserRecord
BY LargerNat DEF AdvanceLastRead, AdvanceLastScanned, UserRecord, Larger

LEMMA MatchedType ==
    ASSUME NEW row \in UserRecord, NEW daily \in {"NewDay", "SameDay", "None"},
           NEW force \in BOOLEAN
    PROVE  ApplyAuthOutcome(AuthMatched(daily, force), row) \in UserRecord
<1> DEFINE today == CASE daily = "NewDay" -> 0
                      [] daily = "SameDay" -> row.times_called_today + 1
                      [] OTHER -> row.times_called_today
           reset == row.force_password_reset \/ force
<1>1. row.times_called_today \in Nat /\ row.force_password_reset \in BOOLEAN
  BY DEF UserRecord
<1>2. today \in Nat
  BY <1>1
<1>3. reset \in BOOLEAN
  BY <1>1
<1>4. ApplyAuthOutcome(AuthMatched(daily, force), row)
        = [row EXCEPT !.invalid_attempts = 0, !.force_password_reset = reset,
                      !.times_called_today = today]
  BY Zenon DEF ApplyAuthOutcome, AuthMatched
<1>5. ASSUME NEW n \in Nat, NEW f \in BOOLEAN
      PROVE  [row EXCEPT !.invalid_attempts = 0, !.force_password_reset = f,
                         !.times_called_today = n] \in UserRecord
  BY DEF UserRecord
<1> HIDE DEF today, reset
<1> QED
  BY <1>2, <1>3, <1>4, <1>5, Zenon

LEMMA MismatchedType ==
    ASSUME NEW row \in UserRecord, NEW lock \in BOOLEAN
    PROVE  ApplyAuthOutcome(AuthMismatched(lock), row) \in UserRecord
<1>1. ApplyAuthOutcome(AuthMismatched(lock), row)
        = [row EXCEPT !.invalid_attempts = row.invalid_attempts + 1,
                      !.account_locked = row.account_locked \/ lock]
  BY DEF ApplyAuthOutcome, AuthMismatched
<1>2. row.invalid_attempts + 1 \in Nat /\ (row.account_locked \/ lock) \in BOOLEAN
  BY DEF UserRecord
<1>3. ASSUME NEW n \in Nat, NEW l \in BOOLEAN
      PROVE  [row EXCEPT !.invalid_attempts = n, !.account_locked = l] \in UserRecord
  BY DEF UserRecord
<1> QED
  BY <1>1, <1>2, <1>3, Zenon

LEMMA PasswordChangeType ==
    ASSUME NEW row \in UserRecord, NEW password \in Passwords, NEW now \in Nat
    PROVE  ApplyPasswordChange(password, now, row) \in UserRecord
BY DEF ApplyPasswordChange, UserRecord

\* A conference that is granted is found, and it is the lowest of them.
LEMMA FirstAccessibleGranted ==
    ASSUME NEW granted \in SUBSET Conferences, granted # {}
    PROVE  FirstAccessible(granted) \in granted
<1>1. granted \subseteq Nat
  BY ConferencesAssumption
<1>2. PICK c \in granted : \A d \in granted : ~ (<<d, c>> \in OpToRel(<, Nat))
  BY <1>1, NatLessThanWellFounded, WFMin
<1>3. \A d \in granted : c <= d
  <2> TAKE d \in granted
  <2>1. <<d, c>> \in Nat \X Nat /\ c \in Nat /\ d \in Nat
    BY <1>1
  <2>2. ~ (d < c)
    BY <1>2, <2>1 DEF OpToRel
  <2> QED
    BY <2>1, <2>2
<1> QED
  BY <1>3 DEF FirstAccessible

\* What a patch is made of.
LEMMA PatchShape ==
    ASSUME NEW base \in UserRecord, NEW user \in UserRecord
    PROVE  LET patch == PatchBetween(base, user) IN
           /\ patch.times_called_delta = Excess(user.times_called, base.times_called)
           /\ patch.times_called_today_delta
                = Excess(user.times_called_today, base.times_called_today)
           /\ patch.messages_posted_delta
                = Excess(user.messages_posted, base.messages_posted)
           /\ patch.times_called_delta \in Nat
           /\ patch.times_called_today_delta \in Nat
           /\ patch.messages_posted_delta \in Nat
           /\ patch.last_call \in Nat
           /\ user.last_call = base.last_call => patch.last_call = 0
           /\ user.last_call # base.last_call => patch.last_call = user.last_call
           /\ patch.last_joined \in Conferences \cup {NoConference}
           /\ user.last_joined = base.last_joined => patch.last_joined = 0
           /\ user.last_joined # base.last_joined => patch.last_joined = user.last_joined
           /\ patch.pointers = AdvancedPointers(base, user)
           /\ patch.pointers \subseteq Conferences
           /\ patch.last_read = user.last_read
           /\ patch.last_scanned = user.last_scanned
<1>1. /\ user.times_called \in Nat /\ base.times_called \in Nat
      /\ user.times_called_today \in Nat /\ base.times_called_today \in Nat
      /\ user.messages_posted \in Nat /\ base.messages_posted \in Nat
      /\ user.last_call \in Nat
      /\ user.last_joined \in Conferences \cup {NoConference}
  BY DEF UserRecord
<1> QED
  BY <1>1, ExcessNat DEF PatchBetween, AdvancedPointers

\* What the stored row becomes when it absorbs the patch of a session.
LEMMA PatchMerge ==
    ASSUME NEW base \in UserRecord, NEW user \in UserRecord, NEW row \in UserRecord
    PROVE  LET merged == ApplyPatch(PatchBetween(base, user), row) IN
           /\ merged \in UserRecord
           /\ merged.handle = row.handle
           /\ merged.invalid_attempts = row.invalid_attempts
           /\ merged.account_locked = row.account_locked
           /\ merged.times_called
                = row.times_called + Excess(user.times_called, base.times_called)
           /\ merged.times_called_today
                = row.times_called_today
                    + Excess(user.times_called_today, base.times_called_today)
           /\ merged.messages_posted
                = row.messages_posted
                    + Excess(user.messages_posted, base.messages_posted)
           /\ user.last_call = base.last_call => merged.last_call = row.last_call
           /\ user.last_call # base.last_call =>
                merged.last_call = Larger(row.last_call, user.last_call)
           /\ user.last_joined = base.last_joined =>
                merged.last_joined = row.last_joined
           /\ user.last_joined # base.last_joined =>
                merged.last_joined = IF user.last_joined = NoConference
                                       THEN row.last_joined ELSE user.last_joined
           /\ \A c \in Conferences :
                IF c \in AdvancedPointers(base, user)
                  THEN /\ merged.last_read[c]
                            = Larger(row.last_read[c], user.last_read[c])
                       /\ merged.last_scanned[c]
                            = Larger(Larger(row.last_scanned[c], merged.last_read[c]),
                                     user.last_scanned[c])
                  ELSE /\ merged.last_read[c] = row.last_read[c]
                       /\ merged.last_scanned[c] = row.last_scanned[c]
<1> DEFINE patch == PatchBetween(base, user)
           merged == ApplyPatch(patch, row)
           read == [c \in Conferences |->
                      IF c \in patch.pointers
                        THEN Larger(row.last_read[c], patch.last_read[c])
                        ELSE row.last_read[c]]
           scanned == [c \in Conferences |->
                         IF c \in patch.pointers
                           THEN Larger(Larger(row.last_scanned[c], read[c]),
                                       patch.last_scanned[c])
                           ELSE row.last_scanned[c]]
           joined == IF patch.last_joined = NoConference
                       THEN row.last_joined ELSE patch.last_joined
           called == row.times_called + patch.times_called_delta
           today == row.times_called_today + patch.times_called_today_delta
           posted == row.messages_posted + patch.messages_posted_delta
           last == Larger(row.last_call, patch.last_call)
<1>1. /\ row.times_called \in Nat /\ row.times_called_today \in Nat
      /\ row.messages_posted \in Nat /\ row.last_call \in Nat
      /\ row.last_joined \in Conferences \cup {NoConference}
      /\ row.last_read \in [Conferences -> Nat]
      /\ row.last_scanned \in [Conferences -> Nat]
      /\ user.last_read \in [Conferences -> Nat]
      /\ user.last_scanned \in [Conferences -> Nat]
      /\ user.last_call \in Nat
  BY DEF UserRecord
<1>2. /\ patch.times_called_delta = Excess(user.times_called, base.times_called)
      /\ patch.times_called_today_delta
           = Excess(user.times_called_today, base.times_called_today)
      /\ patch.messages_posted_delta
           = Excess(user.messages_posted, base.messages_posted)
      /\ patch.times_called_delta \in Nat
      /\ patch.times_called_today_delta \in Nat
      /\ patch.messages_posted_delta \in Nat
      /\ patch.last_call \in Nat
      /\ user.last_call = base.last_call => patch.last_call = 0
      /\ user.last_call # base.last_call => patch.last_call = user.last_call
      /\ patch.last_joined \in Conferences \cup {NoConference}
      /\ user.last_joined = base.last_joined => patch.last_joined = 0
      /\ user.last_joined # base.last_joined => patch.last_joined = user.last_joined
      /\ patch.pointers = AdvancedPointers(base, user)
      /\ patch.pointers \subseteq Conferences
      /\ patch.last_read = user.last_read
      /\ patch.last_scanned = user.last_scanned
  BY PatchShape
<1>3. merged = [row EXCEPT !.times_called = called, !.times_called_today = today,
                           !.messages_posted = posted, !.last_call = last,
                           !.last_joined = joined, !.last_read = read,
                           !.last_scanned = scanned]
  <2> HIDE DEF patch
  <2>1. \A c \in Conferences :
          read[c] = IF c \in patch.pointers
                      THEN Larger(row.last_read[c], patch.last_read[c])
                      ELSE row.last_read[c]
    OBVIOUS
  <2> QED
    BY <2>1 DEF ApplyPatch
<1> HIDE DEF patch, merged
<1>4. /\ called \in Nat /\ today \in Nat /\ posted \in Nat
      /\ joined \in Conferences \cup {NoConference}
  BY <1>1, <1>2
<1>5. last \in Nat
  BY <1>1, <1>2, LargerNat
<1>6. read \in [Conferences -> Nat]
  BY <1>1, <1>2, LargerNat
<1>7. scanned \in [Conferences -> Nat]
  <2> HIDE DEF read
  <2> QED
    BY <1>1, <1>2, <1>6, LargerNat
<1>8. last = row.last_call \/ last = Larger(row.last_call, user.last_call)
  BY <1>1, <1>2 DEF Larger
<1>9. user.last_call = base.last_call => last = row.last_call
  BY <1>1, <1>2 DEF Larger
<1>10. user.last_call # base.last_call => last = Larger(row.last_call, user.last_call)
  BY <1>2
<1>11. ASSUME NEW c \in Conferences
       PROVE  IF c \in AdvancedPointers(base, user)
                THEN /\ read[c] = Larger(row.last_read[c], user.last_read[c])
                     /\ scanned[c] = Larger(Larger(row.last_scanned[c], read[c]),
                                            user.last_scanned[c])
                ELSE read[c] = row.last_read[c] /\ scanned[c] = row.last_scanned[c]
  BY <1>2
<1>12. /\ user.last_joined = base.last_joined => joined = row.last_joined
       /\ user.last_joined # base.last_joined =>
            joined = IF user.last_joined = NoConference
                       THEN row.last_joined ELSE user.last_joined
  BY <1>2
<1>13. called = row.times_called + Excess(user.times_called, base.times_called)
  BY <1>2
<1>14. today = row.times_called_today
                 + Excess(user.times_called_today, base.times_called_today)
  BY <1>2
<1>15. posted = row.messages_posted
                  + Excess(user.messages_posted, base.messages_posted)
  BY <1>2
<1> HIDE DEF read, scanned, joined, called, today, posted, last
<1>16. merged \in UserRecord
  BY <1>3, <1>4, <1>5, <1>6, <1>7 DEF UserRecord
<1>17. /\ merged.handle = row.handle
       /\ merged.invalid_attempts = row.invalid_attempts
       /\ merged.account_locked = row.account_locked
       /\ merged.times_called = called /\ merged.times_called_today = today
       /\ merged.messages_posted = posted /\ merged.last_call = last
       /\ merged.last_joined = joined
       /\ merged.last_read = read /\ merged.last_scanned = scanned
  BY <1>3 DEF UserRecord
<1> QED
  BY <1>9, <1>10, <1>11, <1>12, <1>13, <1>14, <1>15, <1>16, <1>17 DEF patch, merged

----------------------------------------------------------------------------
(* The inductive invariant.  The properties are not inductive alone: that a
   patch reproduces the live copy needs every counter and pointer of a
   session to be ahead of its baseline; that a call at the menu was admitted
   needs it of the call still waiting for a reset; and the uniqueness of
   handles, that a bound row is in use and never becomes free.             *)

ReadInOrder(row) == \A c \in Conferences : row.last_read[c] <= row.last_scanned[c]

RowSound(row) == ReadInOrder(row) /\ (IsFree(row) => row = Blank)

\* user is what a session made of its baseline base since it was persisted.
Ahead(base, user) ==
    /\ user.times_called = base.times_called
    /\ user.times_called_today >= base.times_called_today
    /\ user.messages_posted >= base.messages_posted
    /\ user.last_call = base.last_call
    /\ user.last_joined = NoConference => base.last_joined = NoConference
    /\ \A c \in Conferences : /\ user.last_read[c] >= base.last_read[c]
                              /\ user.last_scanned[c] >= base.last_scanned[c]

\* Before the menu nothing has been posted or read.
NothingDone(base, user) ==
    /\ user.messages_posted = base.messages_posted
    /\ user.last_read = base.last_read
    /\ user.last_scanned = base.last_scanned

SessionSound(session) ==
    /\ session.phase \in {"Connecting", "Identifying", "NewUserRegistering", "Ended"}
         => session.slot = NoSlot
    /\ session.phase \in {"Authenticating", "Onboarded", "Menu"}
         => session.slot # NoSlot
    /\ session.slot = NoSlot => session.user = session.base
    /\ session.phase \in {"Authenticating", "Onboarded"}
         => NothingDone(session.base, session.user)
    /\ Ahead(session.base, session.user)
    /\ ReadInOrder(session.user)
    /\ session.phase \in {"Onboarded", "Menu"} => ~ IsLockedOut(session.user)
    /\ session.rejoined => session.phase \in {"Onboarded", "Menu"}
    /\ session.phase = "Onboarded" /\ session.rejoined
         => session.user.last_joined \in session.user.granted
    /\ session.phase = "Menu" =>
         /\ ~ session.user.force_password_reset
         /\ session.user.last_joined \in session.user.granted
    /\ session.strikes < StrikeLimit(session)

InUse(u) == u # NoSlot => ~ IsFree(store[u])

IInv == /\ TypeOK
        /\ HandlesUnique
        /\ \A u \in Slots : RowSound(store[u])
        /\ \A s \in Sessions : SessionSound(call[s]) /\ InUse(call[s].slot)

\* A step of one session that leaves the table alone.
LEMMA MoveKeeps ==
    ASSUME IInv, NEW s \in Sessions, NEW next \in Session,
           SessionSound(next), InUse(next.slot),
           call' = [call EXCEPT ![s] = next], store' = store,
           highest' \in [Conferences -> Nat], clock' \in Nat \ {0},
           connections' \in Nat
    PROVE  IInv'
<1>1. TypeOK'
  BY DEF IInv, TypeOK
<1>2. HandlesUnique' /\ (\A u \in Slots : RowSound(store[u]))'
  BY DEF IInv, HandlesUnique
<1>3. ASSUME NEW r \in Sessions
      PROVE  SessionSound(call[r])' /\ InUse(call[r].slot)'
  <2>1. call'[r] = IF r = s THEN next ELSE call[r]
    BY DEF IInv, TypeOK
  <2>2. CASE r = s
    BY <2>1, <2>2 DEF SessionSound, InUse, StrikeLimit
  <2>3. CASE r # s
    <3>1. SessionSound(call[r]) /\ InUse(call[r].slot)
      BY DEF IInv
    <3> QED
      BY <2>1, <2>3, <3>1 DEF SessionSound, InUse, StrikeLimit
  <2> QED
    BY <2>2, <2>3
<1> QED
  BY <1>1, <1>2, <1>3 DEF IInv

\* A step that writes the row of an account in use and leaves its handle.
LEMMA WriteKeeps ==
    ASSUME IInv, NEW s \in Sessions, NEW u \in Slots, ~ IsFree(store[u]),
           NEW row \in UserRecord, ReadInOrder(row), row.handle = store[u].handle,
           NEW next \in Session, SessionSound(next), next.slot \in {u, NoSlot},
           store' = [store EXCEPT ![u] = row],
           call' = [call EXCEPT ![s] = next],
           UNCHANGED <<highest, clock, connections>>
    PROVE  IInv'
<1>1. TypeOK'
  BY DEF IInv, TypeOK
<1>2. \A v \in Slots : store'[v] = IF v = u THEN row ELSE store[v]
  BY DEF IInv, TypeOK
<1>3. \A v \in Slots : IsFree(store[v])' <=> IsFree(store[v])
  BY <1>2 DEF IsFree
<1>4. HandlesUnique'
  BY <1>2, <1>3 DEF IInv, HandlesUnique
<1>5. ASSUME NEW v \in Slots
      PROVE  RowSound(store[v])'
  BY <1>2, <1>3 DEF IInv, RowSound, ReadInOrder
<1>6. \A r \in Sessions : call'[r] = IF r = s THEN next ELSE call[r]
  BY DEF IInv, TypeOK
<1>7. \A r \in Sessions : SessionSound(call[r])'
  BY <1>6 DEF IInv, SessionSound, StrikeLimit
<1>8. \A r \in Sessions : call'[r].slot = NoSlot \/ call'[r].slot \in Slots
  BY <1>1 DEF TypeOK, Session
<1>9. \A r \in Sessions : InUse(call[r].slot)'
  BY <1>2, <1>3, <1>6, <1>8 DEF IInv, InUse
<1> QED
  BY <1>1, <1>4, <1>5, <1>7, <1>9 DEF IInv

\* Becomes and Persist are such steps.
LEMMA BecomesKeeps ==
    ASSUME IInv, NEW s \in Sessions, NEW next \in Session,
           SessionSound(next), InUse(next.slot), Becomes(s, next)
    PROVE  IInv'
<1>1. /\ highest' \in [Conferences -> Nat] /\ clock' \in Nat \ {0}
      /\ connections' \in Nat /\ store' = store
      /\ call' = [call EXCEPT ![s] = next]
  BY DEF Becomes, IInv, TypeOK
<1> QED
  BY <1>1, MoveKeeps

LEMMA PersistKeeps ==
    ASSUME IInv, NEW s \in Sessions, NEW u \in Slots, ~ IsFree(store[u]),
           NEW row \in UserRecord, ReadInOrder(row), row.handle = store[u].handle,
           NEW next \in Session, NEW user \in UserRecord,
           SessionSound([next EXCEPT !.slot = u, !.user = user, !.base = user]),
           Persist(s, u, row, next, user)
    PROVE  IInv'
<1> DEFINE moved == [next EXCEPT !.slot = u, !.user = user, !.base = user]
<1>1. moved \in Session /\ moved.slot = u
  BY DEF Session
<1>2. /\ store' = [store EXCEPT ![u] = row]
      /\ call' = [call EXCEPT ![s] = moved]
      /\ UNCHANGED <<highest, clock, connections>>
  BY DEF Persist
<1> HIDE DEF moved
<1> QED
  BY <1>1, <1>2, WriteKeeps DEF moved

\* The facts of the invariant a step of session s starts from.
LEMMA Current ==
    ASSUME IInv, NEW s \in Sessions
    PROVE  /\ call[s] \in Session /\ SessionSound(call[s]) /\ InUse(call[s].slot)
           /\ \A u \in Slots : store[u] \in UserRecord /\ RowSound(store[u])
           /\ clock \in Nat
BY DEF IInv, TypeOK

LEMMA AheadOfItself ==
    ASSUME NEW user \in UserRecord
    PROVE  Ahead(user, user) /\ NothingDone(user, user)
<1>1. /\ user.times_called_today \in Nat /\ user.messages_posted \in Nat
      /\ user.last_read \in [Conferences -> Nat]
      /\ user.last_scanned \in [Conferences -> Nat]
  BY DEF UserRecord
<1> QED
  BY <1>1 DEF Ahead, NothingDone

LEMMA NoCallSound == NoCall \in Session /\ SessionSound(NoCall) /\ NoCall.slot = NoSlot
<1>1. NoCall \in Session
  BY BlankType DEF NoCall, Session, Phases
<1>2. ReadInOrder(Blank)
  BY DEF ReadInOrder, Blank, RegisterNew
<1>3. Ahead(Blank, Blank)
  BY BlankType, AheadOfItself
<1>4. /\ NoCall.phase = "Ended" /\ NoCall.slot = NoSlot /\ NoCall.strikes = 0
      /\ NoCall.user = Blank /\ NoCall.base = Blank /\ ~ NoCall.rejoined
  BY DEF NoCall
<1> QED
  BY <1>1, <1>2, <1>3, <1>4 DEF SessionSound, StrikeLimit

LEMMA LoggingOffSound ==
    ASSUME NEW session \in Session, SessionSound(session)
    PROVE  /\ LoggingOff(session) \in Session
           /\ SessionSound(LoggingOff(session))
           /\ LoggingOff(session).slot = session.slot
<1>1. LoggingOff(session) \in Session
  BY DEF LoggingOff, Session, Phases
<1>2. /\ LoggingOff(session).phase = "LoggingOff"
      /\ LoggingOff(session).strikes = 0
      /\ LoggingOff(session).slot = session.slot
      /\ LoggingOff(session).user = session.user
      /\ LoggingOff(session).base = session.base
      /\ ~ LoggingOff(session).rejoined
  BY DEF LoggingOff, Session
<1> QED
  BY <1>1, <1>2 DEF SessionSound, StrikeLimit

----------------------------------------------------------------------------
(* Every step keeps the invariant: first the prompts.                      *)

LEMMA ConnectKeeps == ASSUME IInv, NEW s \in Sessions, Connect(s) PROVE IInv'
<1> DEFINE next == [call[s] EXCEPT !.phase = "Connecting"]
<1>1. /\ next \in Session /\ next.slot = call[s].slot
      /\ next.phase = "Connecting" /\ next.strikes = call[s].strikes
      /\ next.user = call[s].user /\ next.base = call[s].base
      /\ next.rejoined = call[s].rejoined
  BY Current DEF Session, Phases
<1>2. SessionSound(next)
  BY <1>1, Current DEF Connect, SessionSound, StrikeLimit
<1>3. /\ call' = [call EXCEPT ![s] = next] /\ store' = store
      /\ highest' \in [Conferences -> Nat] /\ clock' \in Nat \ {0}
      /\ connections' \in Nat
  BY DEF Connect, IInv, TypeOK
<1> HIDE DEF next
<1> QED
  BY <1>1, <1>2, <1>3, Current, MoveKeeps

LEMMA PromptForNameKeeps ==
    ASSUME IInv, NEW s \in Sessions, PromptForName(s) PROVE IInv'
<1> DEFINE next == [call[s] EXCEPT !.phase = "Identifying"]
<1>1. /\ next \in Session /\ next.slot = call[s].slot
      /\ next.phase = "Identifying" /\ next.strikes = call[s].strikes
      /\ next.user = call[s].user /\ next.base = call[s].base
      /\ next.rejoined = call[s].rejoined
  BY Current DEF Session, Phases
<1>2. SessionSound(next)
  BY <1>1, Current, LimitsAssumption
     DEF PromptForName, SessionSound, StrikeLimit, Session
<1>3. Becomes(s, next)
  BY DEF PromptForName
<1> HIDE DEF next
<1> QED
  BY <1>1, <1>2, <1>3, Current, BecomesKeeps

LEMMA RecordIdentifiedUserKeeps ==
    ASSUME IInv, NEW s \in Sessions, NEW u \in Slots, RecordIdentifiedUser(s, u)
    PROVE  IInv'
<1> DEFINE next == [call[s] EXCEPT !.phase = "Authenticating", !.slot = u,
                                   !.user = store[u], !.base = store[u],
                                   !.strikes = 0]
<1>1. store[u] \in UserRecord /\ RowSound(store[u])
  BY Current
<1>2. /\ next \in Session /\ next.slot = u /\ u # NoSlot
      /\ next.phase = "Authenticating" /\ next.strikes = 0
      /\ next.user = store[u] /\ next.base = store[u]
      /\ next.rejoined = call[s].rejoined
  BY <1>1, Current, SlotsAssumption DEF Session, Phases
<1>3. SessionSound(next)
  BY <1>1, <1>2, Current, AheadOfItself, LimitsAssumption
     DEF RecordIdentifiedUser, SessionSound, StrikeLimit, RowSound
<1>4. Becomes(s, next) /\ InUse(u)
  BY DEF RecordIdentifiedUser, InUse
<1> HIDE DEF next
<1> QED
  BY <1>2, <1>3, <1>4, BecomesKeeps

\* One more failure at a prompt, below its limit.
LEMMA StrikeKeeps ==
    ASSUME IInv, NEW s \in Sessions,
           call[s].strikes + 1 < StrikeLimit(call[s]),
           Becomes(s, [call[s] EXCEPT !.strikes = @ + 1])
    PROVE  IInv'
<1> DEFINE next == [call[s] EXCEPT !.strikes = @ + 1]
<1>1. /\ next \in Session /\ next.slot = call[s].slot /\ next.phase = call[s].phase
      /\ next.strikes = call[s].strikes + 1
      /\ next.gate_verified = call[s].gate_verified
      /\ next.user = call[s].user /\ next.base = call[s].base
      /\ next.rejoined = call[s].rejoined
  BY Current DEF Session
<1>2. SessionSound(next)
  BY <1>1, Current DEF SessionSound, StrikeLimit
<1> HIDE DEF next
<1> QED
  BY <1>1, <1>2, Current, BecomesKeeps DEF next

\* A call that is being torn down, or is dropped.
LEMMA LeavingKeeps ==
    ASSUME IInv, NEW s \in Sessions,
           Becomes(s, LoggingOff(call[s])) \/ Becomes(s, NoCall)
    PROVE  IInv'
<1>1. CASE Becomes(s, LoggingOff(call[s]))
  BY <1>1, Current, LoggingOffSound, BecomesKeeps
<1>2. CASE Becomes(s, NoCall)
  BY <1>2, NoCallSound, BecomesKeeps DEF InUse
<1> QED
  BY <1>1, <1>2

LEMMA RecordUnknownNameKeeps ==
    ASSUME IInv, NEW s \in Sessions, RecordUnknownName(s) PROVE IInv'
<1>1. CASE call[s].strikes + 1 >= MaxNameRetries
  BY <1>1, LeavingKeeps DEF RecordUnknownName
<1>2. CASE ~ (call[s].strikes + 1 >= MaxNameRetries)
  <2>1. call[s].strikes + 1 < StrikeLimit(call[s])
    BY <1>2, Current, LimitsAssumption DEF RecordUnknownName, StrikeLimit, Session
  <2> QED
    BY <1>2, <2>1, StrikeKeeps DEF RecordUnknownName
<1> QED
  BY <1>1, <1>2

LEMMA RecordNewUserRequestKeeps ==
    ASSUME IInv, NEW s \in Sessions, RecordNewUserRequest(s) PROVE IInv'
<1> DEFINE next == [call[s] EXCEPT !.phase = "NewUserRegistering", !.strikes = 0,
                                   !.gate_verified = ~ GateRequired]
<1>1. CASE AllowNewUsers
  <2>1. /\ next \in Session /\ next.slot = call[s].slot
        /\ next.phase = "NewUserRegistering" /\ next.strikes = 0
        /\ next.user = call[s].user /\ next.base = call[s].base
        /\ next.rejoined = call[s].rejoined
    BY Current DEF Session, Phases
  <2>2. SessionSound(next)
    BY <2>1, Current, LimitsAssumption
       DEF RecordNewUserRequest, SessionSound, StrikeLimit
  <2>3. Becomes(s, next)
    BY <1>1 DEF RecordNewUserRequest
  <2> HIDE DEF next
  <2> QED
    BY <2>1, <2>2, <2>3, Current, BecomesKeeps
<1>2. CASE ~ AllowNewUsers
  BY <1>2, LeavingKeeps DEF RecordNewUserRequest
<1> QED
  BY <1>1, <1>2

\* What an outcome leaves of the row it is applied to.
LEMMA OutcomeKeeps ==
    ASSUME NEW row \in UserRecord, ReadInOrder(row), NEW force, NEW lock,
           NEW daily
    PROVE  /\ ReadInOrder(ApplyAuthOutcome(AuthMatched(daily, force), row))
           /\ ApplyAuthOutcome(AuthMatched(daily, force), row).handle = row.handle
           /\ ReadInOrder(ApplyAuthOutcome(AuthMismatched(lock), row))
           /\ ApplyAuthOutcome(AuthMismatched(lock), row).handle = row.handle
BY DEF ApplyAuthOutcome, AuthMatched, AuthMismatched, ReadInOrder, UserRecord

\* The copy of a caller whose password matched and who is not locked out.
LEMMA AdmittedSound ==
    ASSUME NEW user \in UserRecord, ReadInOrder(user), ~ IsLockedOut(user),
           NEW daily \in {"NewDay", "SameDay"}, NEW expiry, NEW now
    PROVE  LET admitted == FlagResetIfExpired(BeginDailyBudget(user, daily),
                                              expiry, now) IN
           /\ admitted \in UserRecord /\ ReadInOrder(admitted)
           /\ ~ IsLockedOut(admitted)
           /\ admitted.force_password_reset \in BOOLEAN
           /\ NothingDone(user, admitted)
           /\ admitted.times_called = user.times_called
           /\ admitted.last_call = user.last_call
           /\ admitted.last_joined = user.last_joined
           /\ admitted.handle = user.handle
<1> DEFINE begun == BeginDailyBudget(user, daily)
           admitted == FlagResetIfExpired(begun, expiry, now)
<1>1. begun \in UserRecord
  BY DailyType
<1>2. admitted \in UserRecord
  BY <1>1, FlagType
<1>3. /\ begun.last_read = user.last_read /\ begun.last_scanned = user.last_scanned
      /\ begun.access_level = user.access_level
      /\ begun.account_locked = user.account_locked
      /\ begun.messages_posted = user.messages_posted
      /\ begun.times_called = user.times_called /\ begun.last_call = user.last_call
      /\ begun.last_joined = user.last_joined /\ begun.handle = user.handle
  BY DEF BeginDailyBudget, UserRecord
<1> HIDE DEF begun
<1>4. /\ admitted.last_read = begun.last_read
      /\ admitted.last_scanned = begun.last_scanned
      /\ admitted.access_level = begun.access_level
      /\ admitted.account_locked = begun.account_locked
      /\ admitted.messages_posted = begun.messages_posted
      /\ admitted.times_called = begun.times_called
      /\ admitted.last_call = begun.last_call
      /\ admitted.last_joined = begun.last_joined /\ admitted.handle = begun.handle
  BY <1>1 DEF FlagResetIfExpired, UserRecord
<1> HIDE DEF admitted
<1>5. ReadInOrder(admitted) /\ ~ IsLockedOut(admitted) /\ NothingDone(user, admitted)
  BY <1>3, <1>4 DEF ReadInOrder, IsLockedOut, NothingDone
<1>6. admitted.force_password_reset \in BOOLEAN
  BY <1>2 DEF UserRecord
<1> QED
  BY <1>2, <1>3, <1>4, <1>5, <1>6 DEF admitted, begun

LEMMA MatchKeeps ==
    ASSUME IInv, NEW s \in Sessions, NEW u \in Slots,
           call[s].phase = "Authenticating", call[s].slot = u,
           ApplyPasswordMatch(s, u)
    PROVE  IInv'
<1> DEFINE cleared == [call[s].user EXCEPT !.invalid_attempts = 0]
           daily == DailyBudgetOutcome(cleared.last_call, clock)
           admitted == FlagResetIfExpired(BeginDailyBudget(cleared, daily),
                                          PasswordExpiry, clock)
           turned == ApplyAuthOutcome(AuthMatched("None", cleared.force_password_reset),
                                      store[u])
           row == ApplyAuthOutcome(AuthMatched(daily, admitted.force_password_reset),
                                   store[u])
           onboarded == [call[s] EXCEPT !.phase = "Onboarded", !.strikes = 0]
<1>1. /\ store[u] \in UserRecord /\ ReadInOrder(store[u]) /\ ~ IsFree(store[u])
      /\ call[s] \in Session /\ call[s].user \in UserRecord
      /\ ReadInOrder(call[s].user) /\ u # NoSlot
  BY Current, SlotsAssumption DEF Session, SessionSound, InUse, RowSound
<1>2. /\ cleared \in UserRecord /\ ReadInOrder(cleared)
      /\ cleared.force_password_reset \in BOOLEAN
  BY <1>1 DEF UserRecord, ReadInOrder
<1>3. daily \in {"NewDay", "SameDay"}
  BY OutcomeType
<1> HIDE DEF cleared, daily
<1>4. CASE IsLockedOut(cleared)
  <2>1. Persist(s, u, turned, LoggingOff(call[s]), cleared)
    BY <1>4 DEF ApplyPasswordMatch, cleared
  <2>2. turned \in UserRecord
    BY <1>1, <1>2, MatchedType
  <2>3. ReadInOrder(turned) /\ turned.handle = store[u].handle
    BY <1>1, OutcomeKeeps
  <2> DEFINE next == [LoggingOff(call[s]) EXCEPT !.slot = u, !.user = cleared,
                                                 !.base = cleared]
  <2>4. LoggingOff(call[s]) \in Session
    BY Current, LoggingOffSound
  <2>5. /\ next.phase = "LoggingOff" /\ next.strikes = 0 /\ next.slot = u
        /\ next.user = cleared /\ next.base = cleared
        /\ ~ next.rejoined
    BY <1>1 DEF LoggingOff, Session
  <2> HIDE DEF turned
  <2>6. SessionSound(next)
    <3> HIDE DEF next
    <3> QED
      BY <1>1, <1>2, <2>5, AheadOfItself DEF SessionSound, StrikeLimit
  <2> QED
    BY <1>1, <1>2, <2>1, <2>2, <2>3, <2>4, <2>6, PersistKeeps
<1>5. CASE ~ IsLockedOut(cleared)
  <2>1. Persist(s, u, row, onboarded, admitted)
    BY <1>5 DEF ApplyPasswordMatch, cleared, daily
  <2>2. /\ admitted \in UserRecord /\ ReadInOrder(admitted) /\ ~ IsLockedOut(admitted)
        /\ admitted.force_password_reset \in BOOLEAN
    BY <1>2, <1>3, <1>5, AdmittedSound
  <2> HIDE DEF admitted
  <2>3. row \in UserRecord
    BY <1>1, <1>3, <2>2, MatchedType
  <2>4. ReadInOrder(row) /\ row.handle = store[u].handle
    BY <1>1, OutcomeKeeps
  <2> DEFINE next == [onboarded EXCEPT !.slot = u, !.user = admitted, !.base = admitted]
  <2>5. /\ onboarded \in Session
        /\ next.phase = "Onboarded" /\ next.strikes = 0 /\ next.slot = u
        /\ next.user = admitted /\ next.base = admitted
        /\ next.rejoined = call[s].rejoined
    BY <1>1 DEF Session, Phases
  <2>6. ~ call[s].rejoined
    BY Current DEF SessionSound
  <2> HIDE DEF row, onboarded
  <2>7. SessionSound(next)
    <3> HIDE DEF next
    <3> QED
      BY <1>1, <2>2, <2>5, <2>6, AheadOfItself, LimitsAssumption
         DEF SessionSound, StrikeLimit
  <2> QED
    BY <1>1, <2>1, <2>2, <2>3, <2>4, <2>5, <2>7, PersistKeeps
<1> QED
  BY <1>4, <1>5

LEMMA MismatchKeeps ==
    ASSUME IInv, NEW s \in Sessions, NEW u \in Slots,
           call[s].phase = "Authenticating", call[s].slot = u,
           ApplyPasswordMismatch(s, u)
    PROVE  IInv'
<1> DEFINE bumped == [call[s].user EXCEPT !.invalid_attempts = @ + 1]
           strikes == call[s].strikes + 1
           decision == PasswordFailureDecision(bumped.invalid_attempts, strikes)
           locked == [bumped EXCEPT !.account_locked = TRUE, !.invalid_attempts = 0]
           lock == decision = "LockAccount"
           row == ApplyAuthOutcome(AuthMismatched(lock), store[u])
           stays == [call[s] EXCEPT !.strikes = strikes]
           next == IF decision = "Continue" THEN stays ELSE LoggingOff(call[s])
           user == IF decision = "LockAccount" THEN locked ELSE bumped
           moved == [next EXCEPT !.slot = u, !.user = user, !.base = user]
<1>1. /\ store[u] \in UserRecord /\ ReadInOrder(store[u]) /\ ~ IsFree(store[u])
      /\ call[s] \in Session /\ call[s].user \in UserRecord
      /\ ReadInOrder(call[s].user) /\ u # NoSlot
  BY Current, SlotsAssumption DEF Session, SessionSound, InUse, RowSound
<1>2. Persist(s, u, row, next, user)
  BY DEF ApplyPasswordMismatch
<1>3. /\ row \in UserRecord /\ ReadInOrder(row) /\ row.handle = store[u].handle
  <2>1. lock \in BOOLEAN
    OBVIOUS
  <2> QED
    BY <1>1, <2>1, MismatchedType, OutcomeKeeps
<1>4. bumped \in UserRecord /\ ReadInOrder(bumped)
  BY <1>1 DEF UserRecord, ReadInOrder
<1>5. locked \in UserRecord /\ ReadInOrder(locked)
  <2> HIDE DEF bumped
  <2> QED
    BY <1>4 DEF UserRecord, ReadInOrder
<1>6. user \in UserRecord /\ ReadInOrder(user)
  BY <1>4, <1>5
<1>7. strikes \in Nat
  BY <1>1 DEF Session
<1>8. decision = "Continue" => strikes < MaxFailures
  <2>1. strikes < MaxFailures \/ strikes >= MaxFailures
    BY <1>7, LimitsAssumption
  <2>2. decision = "Continue" => ~ (strikes >= MaxFailures)
    <3>1. bumped.invalid_attempts \in Nat
      BY <1>4 DEF UserRecord
    <3> HIDE DEF bumped, strikes
    <3> QED
      BY <1>7, <3>1, LimitsAssumption DEF PasswordFailureDecision
  <2> QED
    BY <2>1, <2>2
<1> HIDE DEF bumped, decision, locked, user, row, lock
<1>9. next \in Session
  BY <1>1, <1>7, Current, LoggingOffSound DEF Session
<1>10. /\ moved.slot = u /\ moved.user = user /\ moved.base = user
       /\ moved.phase = next.phase /\ moved.strikes = next.strikes
       /\ moved.rejoined = next.rejoined
  <2> HIDE DEF next
  <2> QED
    BY <1>9 DEF Session
<1>11. CASE decision = "Continue"
  <2>1. /\ next.phase = "Authenticating" /\ next.strikes = strikes
        /\ ~ next.rejoined
    BY <1>1, <1>11, Current DEF Session, SessionSound
  <2> HIDE DEF next, moved, strikes
  <2>2. SessionSound(moved)
    BY <1>1, <1>6, <1>8, <1>10, <1>11, <2>1, AheadOfItself, LimitsAssumption
       DEF SessionSound, StrikeLimit
  <2> QED
    BY <1>1, <1>2, <1>3, <1>6, <1>9, <2>2, PersistKeeps DEF moved
<1>12. CASE decision # "Continue"
  <2>1. next.phase = "LoggingOff" /\ next.strikes = 0 /\ ~ next.rejoined
    BY <1>1, <1>12 DEF LoggingOff, Session
  <2> HIDE DEF next, moved, strikes
  <2>2. SessionSound(moved)
    BY <1>1, <1>6, <1>10, <2>1, AheadOfItself DEF SessionSound, StrikeLimit
  <2> QED
    BY <1>1, <1>2, <1>3, <1>6, <1>9, <2>2, PersistKeeps DEF moved
<1> QED
  BY <1>11, <1>12

LEMMA VerifyPasswordKeeps ==
    ASSUME IInv, NEW s \in Sessions, NEW line, VerifyPassword(s, line)
    PROVE  IInv'
<1>1. PICK u \in Slots :
        /\ call[s].phase = "Authenticating" /\ call[s].slot = u
        /\ ApplyPasswordMatch(s, u) \/ ApplyPasswordMismatch(s, u)
  BY DEF VerifyPassword
<1> QED
  BY <1>1, MatchKeeps, MismatchKeeps

----------------------------------------------------------------------------
(* Registration.                                                           *)

\* A step of the registration flow that stays in it with fewer failures.
LEMMA RegisteringKeeps ==
    ASSUME IInv, NEW s \in Sessions, call[s].phase = "NewUserRegistering",
           NEW next \in Session, Becomes(s, next), next.phase = call[s].phase,
           next.slot = call[s].slot, next.user = call[s].user,
           next.base = call[s].base, next.rejoined = call[s].rejoined,
           next.strikes < StrikeLimit(next)
    PROVE  IInv'
<1>1. SessionSound(next)
  BY Current DEF SessionSound
<1> QED
  BY <1>1, Current, BecomesKeeps

LEMMA ApplyNewUserPasswordAttemptKeeps ==
    ASSUME IInv, NEW s \in Sessions, NEW matches \in BOOLEAN,
           ApplyNewUserPasswordAttempt(s, matches)
    PROVE  IInv'
<1> DEFINE strikes == call[s].strikes
           next == [call[s] EXCEPT !.gate_verified = TRUE, !.strikes = 0]
<1>1. call[s] \in Session /\ strikes \in Nat
  BY Current DEF Session
<1>2. CASE matches
  <2>1. Becomes(s, next)
    BY <1>2 DEF ApplyNewUserPasswordAttempt
  <2>2. /\ next \in Session /\ next.phase = call[s].phase
        /\ next.slot = call[s].slot /\ next.rejoined = call[s].rejoined
        /\ next.user = call[s].user /\ next.base = call[s].base
        /\ next.gate_verified /\ next.strikes = 0
    BY <1>1 DEF Session
  <2>3. next.strikes < StrikeLimit(next)
    BY <2>2, LimitsAssumption DEF StrikeLimit, ApplyNewUserPasswordAttempt
  <2> HIDE DEF next
  <2> QED
    BY <2>1, <2>2, <2>3, RegisteringKeeps DEF ApplyNewUserPasswordAttempt
<1>3. CASE ~ matches /\ strikes + 1 >= MaxGateAttempts
  BY <1>3, LeavingKeeps DEF ApplyNewUserPasswordAttempt
<1>4. CASE ~ matches /\ ~ (strikes + 1 >= MaxGateAttempts)
  <2>1. Becomes(s, [call[s] EXCEPT !.strikes = @ + 1])
    BY <1>4 DEF ApplyNewUserPasswordAttempt
  <2>2. strikes + 1 < StrikeLimit(call[s])
    BY <1>1, <1>4, LimitsAssumption DEF StrikeLimit, ApplyNewUserPasswordAttempt
  <2> QED
    BY <2>1, <2>2, StrikeKeeps
<1> QED
  BY <1>2, <1>3, <1>4

LEMMA ReadHandleKeeps ==
    ASSUME IInv, NEW s \in Sessions, NEW handle \in Handles, ReadHandle(s, handle)
    PROVE  IInv'
<1> DEFINE next == [call[s] EXCEPT !.typed_handle = handle, !.strikes = 0]
<1>1. /\ next \in Session /\ next.phase = call[s].phase
      /\ next.slot = call[s].slot /\ next.rejoined = call[s].rejoined
      /\ next.user = call[s].user /\ next.base = call[s].base
      /\ next.gate_verified = call[s].gate_verified /\ next.strikes = 0
  BY Current DEF Session
<1>2. next.strikes < StrikeLimit(next)
  BY <1>1, LimitsAssumption DEF StrikeLimit, ReadHandle, AtProfile
<1>3. Becomes(s, next) /\ call[s].phase = "NewUserRegistering"
  BY DEF ReadHandle, AtProfile
<1> HIDE DEF next
<1> QED
  BY <1>1, <1>2, <1>3, RegisteringKeeps

LEMMA RefuseHandleKeeps ==
    ASSUME IInv, NEW s \in Sessions, RefuseHandle(s) PROVE IInv'
<1>1. CASE call[s].strikes + 1 >= MaxHandleAttempts
  BY <1>1, LeavingKeeps DEF RefuseHandle
<1>2. CASE ~ (call[s].strikes + 1 >= MaxHandleAttempts)
  <2>1. call[s].strikes + 1 < StrikeLimit(call[s])
    BY <1>2, Current, LimitsAssumption
       DEF RefuseHandle, AtProfile, StrikeLimit, Session
  <2> QED
    BY <1>2, <2>1, StrikeKeeps DEF RefuseHandle
<1> QED
  BY <1>1, <1>2

LEMMA CreateUserKeeps ==
    ASSUME IInv, NEW s \in Sessions, NEW u \in Slots, NEW password \in Passwords,
           CreateUser(s, u, password)
    PROVE  IInv'
<1> DEFINE created == RegisterNew(call[s].typed_handle, password, clock)
           daily == DailyBudgetOutcome(created.last_call, clock)
           admitted == FlagResetIfExpired(BeginDailyBudget(created, daily),
                                          PasswordExpiry, clock)
           next == [call[s] EXCEPT !.phase = "Onboarded", !.slot = u,
                                   !.base = created, !.user = admitted,
                                   !.strikes = 0, !.gate_verified = FALSE,
                                   !.typed_handle = NoHandle]
<1>1. /\ call[s] \in Session /\ u # NoSlot /\ clock \in Nat
      /\ call[s].typed_handle \in Handles \cup {NoHandle}
  BY Current, SlotsAssumption DEF Session
<1>2. created \in UserRecord
  BY <1>1, RegisterType
<1>3. /\ created.handle = call[s].typed_handle /\ ReadInOrder(created)
      /\ ~ IsLockedOut(created) /\ created.times_called_today = 0
      /\ ~ IsFree(created)
  BY DEF RegisterNew, ReadInOrder, IsLockedOut, IsFree, CreateUser
<1>4. daily \in {"NewDay", "SameDay"}
  BY OutcomeType
<1>5. /\ store' = [store EXCEPT ![u] = created]
      /\ call' = [call EXCEPT ![s] = next]
      /\ UNCHANGED <<highest, clock, connections>>
      /\ \A v \in Slots : store[v].handle # created.handle
      /\ AtProfile(s)
  BY <1>3 DEF CreateUser, DuplicateUser, HandleTaken
<1> HIDE DEF created, daily
<1>6. /\ admitted \in UserRecord /\ ReadInOrder(admitted) /\ ~ IsLockedOut(admitted)
      /\ NothingDone(created, admitted)
      /\ admitted.times_called = created.times_called
      /\ admitted.last_call = created.last_call
      /\ admitted.last_joined = created.last_joined
  BY <1>2, <1>3, <1>4, AdmittedSound
<1> HIDE DEF admitted
<1>7. /\ next \in Session /\ next.phase = "Onboarded" /\ next.slot = u
      /\ next.base = created /\ next.user = admitted /\ next.strikes = 0
      /\ next.rejoined = call[s].rejoined
  BY <1>1, <1>2, <1>6 DEF Session, Phases
<1> HIDE DEF next
<1>8. Ahead(created, admitted)
  <2>1. /\ admitted.times_called_today \in Nat /\ created.messages_posted \in Nat
        /\ created.last_read \in [Conferences -> Nat]
        /\ created.last_scanned \in [Conferences -> Nat]
    BY <1>2, <1>6 DEF UserRecord
  <2> QED
    BY <1>3, <1>6, <2>1 DEF Ahead, NothingDone
<1>9. SessionSound(next)
  <2>1. ~ next.rejoined
    BY <1>5, <1>7, Current DEF AtProfile, SessionSound
  <2> QED
    BY <1>1, <1>6, <1>7, <1>8, <2>1, LimitsAssumption DEF SessionSound, StrikeLimit
<1>10. \A v \in Slots : store'[v] = IF v = u THEN created ELSE store[v]
  BY <1>5 DEF IInv, TypeOK
<1>11. \A r \in Sessions : call'[r] = IF r = s THEN next ELSE call[r]
  BY <1>5 DEF IInv, TypeOK
<1>12. TypeOK'
  BY <1>2, <1>5, <1>7 DEF IInv, TypeOK
<1>13. HandlesUnique'
  <2> SUFFICES ASSUME NEW v \in Slots, NEW w \in Slots, v # w, ~ IsFree(store'[v])
               PROVE  store'[v].handle # store'[w].handle
    BY DEF HandlesUnique, IsFree
  <2>1. CASE v # u /\ w # u
    BY <1>10, <2>1 DEF IInv, HandlesUnique
  <2>2. CASE v = u \/ w = u
    BY <1>5, <1>10, <2>2
  <2> QED
    BY <2>1, <2>2
<1>14. ASSUME NEW v \in Slots
       PROVE  RowSound(store[v])'
  BY <1>3, <1>10 DEF IInv, RowSound, ReadInOrder, IsFree
<1>15. ASSUME NEW r \in Sessions
       PROVE  SessionSound(call[r])' /\ InUse(call[r].slot)'
  <2>1. SessionSound(call[r])'
    BY <1>9, <1>11 DEF IInv, SessionSound, StrikeLimit
  <2>2. call[r].slot \in Slots \cup {NoSlot}
    BY DEF IInv, TypeOK, Session
  <2>3. InUse(call[r].slot)'
    BY <1>3, <1>7, <1>10, <1>11, <2>2 DEF IInv, InUse, IsFree
  <2> QED
    BY <2>1, <2>3
<1> QED
  BY <1>12, <1>13, <1>14, <1>15 DEF IInv

LEMMA RegistrationFailsKeeps ==
    ASSUME IInv, NEW s \in Sessions, RegistrationFails(s) PROVE IInv'
BY LeavingKeeps DEF RegistrationFails

----------------------------------------------------------------------------
(* From sign-in to the menu.                                               *)

\* The patch of one session can be given to a row another session wrote to.
LEMMA PatchKeepsRow ==
    ASSUME NEW base \in UserRecord, NEW user \in UserRecord, NEW row \in UserRecord,
           ReadInOrder(row)
    PROVE  LET merged == ApplyPatch(PatchBetween(base, user), row) IN
           merged \in UserRecord /\ ReadInOrder(merged) /\ merged.handle = row.handle
<1> DEFINE merged == ApplyPatch(PatchBetween(base, user), row)
<1>1. /\ merged \in UserRecord /\ merged.handle = row.handle
      /\ \A c \in Conferences :
           IF c \in AdvancedPointers(base, user)
             THEN /\ merged.last_read[c]
                       = Larger(row.last_read[c], user.last_read[c])
                  /\ merged.last_scanned[c]
                       = Larger(Larger(row.last_scanned[c], merged.last_read[c]),
                                user.last_scanned[c])
             ELSE /\ merged.last_read[c] = row.last_read[c]
                  /\ merged.last_scanned[c] = row.last_scanned[c]
  BY PatchMerge
<1> HIDE DEF merged
<1>2. ASSUME NEW c \in Conferences
      PROVE  merged.last_read[c] <= merged.last_scanned[c]
  <2>1. /\ merged.last_read[c] \in Nat /\ merged.last_scanned[c] \in Nat
        /\ row.last_scanned[c] \in Nat /\ user.last_scanned[c] \in Nat
    BY <1>1 DEF UserRecord
  <2>2. Larger(row.last_scanned[c], merged.last_read[c]) \in Nat
    BY <2>1, LargerNat
  <2>3. CASE c \in AdvancedPointers(base, user)
    <3> DEFINE lifted == Larger(row.last_scanned[c], merged.last_read[c])
    <3>1. lifted >= merged.last_read[c]
      BY <2>1, LargerNat
    <3>2. merged.last_scanned[c] = Larger(lifted, user.last_scanned[c])
      BY <1>1, <2>3
    <3> HIDE DEF lifted
    <3>3. lifted \in Nat
      BY <2>2 DEF lifted
    <3>4. merged.last_scanned[c] >= lifted
      BY <2>1, <3>2, <3>3, LargerNat
    <3> QED
      BY <2>1, <3>1, <3>3, <3>4
  <2>4. CASE c \notin AdvancedPointers(base, user)
    BY <1>1, <2>4 DEF ReadInOrder
  <2> QED
    BY <2>3, <2>4
<1> QED
  BY <1>1, <1>2 DEF ReadInOrder, merged

LEMMA EnterMenuKeeps ==
    ASSUME IInv, NEW s \in Sessions, NEW u \in Slots,
           call[s].phase = "Onboarded", call[s].slot = u,
           NEW user \in UserRecord, ReadInOrder(user), ~ IsLockedOut(user),
           ~ user.force_password_reset, user.last_joined \in user.granted,
           EnterMenuAs(s, u, user)
    PROVE  IInv'
<1> DEFINE counted == [user EXCEPT !.times_called = @ + 1]
           row == ApplyPatch(PendingPatch(s, counted), store[u])
           next == [call[s] EXCEPT !.phase = "Menu", !.strikes = 0, !.rejoined = TRUE]
           moved == [next EXCEPT !.slot = u, !.user = counted, !.base = counted]
<1>1. /\ store[u] \in UserRecord /\ ReadInOrder(store[u]) /\ ~ IsFree(store[u])
      /\ call[s] \in Session /\ call[s].base \in UserRecord /\ u # NoSlot
  BY Current, SlotsAssumption DEF Session, InUse, RowSound
<1>2. Persist(s, u, row, next, counted)
  BY DEF EnterMenuAs
<1>3. /\ counted \in UserRecord /\ ReadInOrder(counted) /\ ~ IsLockedOut(counted)
      /\ ~ counted.force_password_reset /\ counted.last_joined \in counted.granted
  BY DEF UserRecord, ReadInOrder, IsLockedOut
<1> HIDE DEF counted
<1>4. row \in UserRecord /\ ReadInOrder(row) /\ row.handle = store[u].handle
  BY <1>1, <1>3, PatchKeepsRow DEF PendingPatch
<1>5. /\ next \in Session
      /\ moved.phase = "Menu" /\ moved.strikes = 0 /\ moved.slot = u
      /\ moved.user = counted /\ moved.base = counted
  BY <1>1 DEF Session, Phases
<1> HIDE DEF row, next, moved
<1>6. SessionSound(moved)
  BY <1>1, <1>3, <1>5, AheadOfItself DEF SessionSound, StrikeLimit
<1> QED
  BY <1>1, <1>2, <1>3, <1>4, <1>5, <1>6, PersistKeeps DEF moved

LEMMA AutoRejoinKeeps == ASSUME IInv, NEW s \in Sessions, AutoRejoin(s) PROVE IInv'
<1> DEFINE user == call[s].user
           joined == [user EXCEPT !.last_joined = ResolveAutoRejoin(user)]
           next == [call[s] EXCEPT !.user = joined, !.rejoined = TRUE]
<1>1. PICK u \in Slots :
        /\ call[s].phase = "Onboarded" /\ ~ call[s].rejoined /\ call[s].slot = u
        /\ CASE user.granted = {} -> Becomes(s, LoggingOff(call[s]))
             [] user.granted # {} /\ joined.force_password_reset -> Becomes(s, next)
             [] OTHER -> EnterMenuAs(s, u, joined)
  BY DEF AutoRejoin
<1>2. /\ user \in UserRecord /\ call[s].base \in UserRecord /\ ReadInOrder(user)
      /\ ~ IsLockedOut(user) /\ user.granted \in SUBSET Conferences
  BY <1>1, Current DEF Session, SessionSound, UserRecord
<1>3. CASE user.granted = {}
  BY <1>1, <1>3, LeavingKeeps
<1>4. CASE user.granted # {}
  <2>1. ResolveAutoRejoin(user) \in user.granted
    BY <1>2, <1>4, FirstAccessibleGranted DEF ResolveAutoRejoin
  <2>2. /\ joined \in UserRecord /\ ReadInOrder(joined) /\ ~ IsLockedOut(joined)
        /\ joined.last_joined \in joined.granted /\ joined.last_joined # NoConference
        /\ joined.times_called = user.times_called
        /\ joined.times_called_today = user.times_called_today
        /\ joined.messages_posted = user.messages_posted
        /\ joined.last_call = user.last_call
        /\ joined.last_read = user.last_read
        /\ joined.last_scanned = user.last_scanned
    BY <1>2, <2>1, ConferencesAssumption DEF UserRecord, ReadInOrder, IsLockedOut
  <2> HIDE DEF joined
  <2>3. CASE joined.force_password_reset
    <3>1. Becomes(s, next)
      BY <1>1, <1>4, <2>3
    <3>2. /\ next \in Session /\ next.phase = "Onboarded" /\ next.slot = call[s].slot
          /\ next.base = call[s].base /\ next.user = joined
          /\ next.strikes = call[s].strikes
      BY <1>1, <2>2, Current DEF Session
    <3> HIDE DEF next
    <3>3. NothingDone(next.base, next.user) /\ Ahead(next.base, next.user)
      BY <1>1, <2>2, <3>2, Current DEF SessionSound, NothingDone, Ahead
    <3>4. next.strikes < StrikeLimit(next)
      BY <1>1, <3>2, Current DEF SessionSound, StrikeLimit
    <3>5. SessionSound(next)
      BY <1>1, <2>2, <3>2, <3>3, <3>4, Current DEF SessionSound
    <3> QED
      BY <3>1, <3>2, <3>5, Current, BecomesKeeps
  <2>4. CASE ~ joined.force_password_reset
    <3>1. EnterMenuAs(s, u, joined)
      BY <1>1, <1>4, <2>4
    <3> QED
      BY <1>1, <2>2, <2>4, <3>1, EnterMenuKeeps
  <2> QED
    BY <2>3, <2>4
<1> QED
  BY <1>3, <1>4

LEMMA CompletePasswordResetKeeps ==
    ASSUME IInv, NEW s \in Sessions, NEW password \in Passwords,
           CompletePasswordReset(s, password)
    PROVE  IInv'
<1>1. PICK u \in Slots :
        /\ ResetPending(s) /\ call[s].slot = u
        /\ Persist(s, u, ApplyPasswordChange(password, clock, store[u]), call[s],
                   ApplyPasswordChange(password, clock, call[s].user))
  BY DEF CompletePasswordReset
<1> DEFINE user == call[s].user
           row == ApplyPasswordChange(password, clock, store[u])
           changed == ApplyPasswordChange(password, clock, user)
           moved == [call[s] EXCEPT !.slot = u, !.user = changed, !.base = changed]
<1>2. /\ store[u] \in UserRecord /\ ReadInOrder(store[u]) /\ ~ IsFree(store[u])
      /\ call[s] \in Session /\ user \in UserRecord /\ ReadInOrder(user)
      /\ ~ IsLockedOut(user) /\ user.last_joined \in user.granted
      /\ u # NoSlot /\ clock \in Nat
  BY <1>1, Current, SlotsAssumption
     DEF ResetPending, Session, SessionSound, InUse, RowSound
<1>3. row \in UserRecord /\ changed \in UserRecord
  BY <1>2, PasswordChangeType
<1>4. /\ ReadInOrder(row) /\ row.handle = store[u].handle
      /\ ReadInOrder(changed) /\ ~ IsLockedOut(changed)
      /\ changed.last_joined \in changed.granted
  BY <1>2 DEF ApplyPasswordChange, ReadInOrder, IsLockedOut, UserRecord
<1> HIDE DEF row, changed
<1>5. /\ moved.phase = "Onboarded" /\ moved.slot = u /\ moved.user = changed
      /\ moved.base = changed /\ moved.strikes = call[s].strikes
  BY <1>1, <1>2 DEF ResetPending, Session
<1>6. moved.strikes < StrikeLimit(moved)
  BY <1>1, <1>5, Current DEF ResetPending, SessionSound, StrikeLimit
<1> HIDE DEF moved
<1>7. SessionSound(moved)
  BY <1>2, <1>3, <1>4, <1>5, <1>6, AheadOfItself DEF SessionSound
<1> QED
  BY <1>1, <1>2, <1>3, <1>4, <1>7, PersistKeeps DEF row, changed, moved

LEMMA RejectPasswordResetKeeps ==
    ASSUME IInv, NEW s \in Sessions, RejectPasswordReset(s) PROVE IInv'
<1>1. CASE call[s].strikes + 1 >= MaxResetAttempts
  BY <1>1, LeavingKeeps DEF RejectPasswordReset
<1>2. CASE ~ (call[s].strikes + 1 >= MaxResetAttempts)
  <2>1. call[s].strikes + 1 < StrikeLimit(call[s])
    BY <1>2, Current, LimitsAssumption
       DEF RejectPasswordReset, ResetPending, StrikeLimit, Session
  <2> QED
    BY <1>2, <2>1, StrikeKeeps DEF RejectPasswordReset
<1> QED
  BY <1>1, <1>2

LEMMA EnterMenuAfterResetKeeps ==
    ASSUME IInv, NEW s \in Sessions, EnterMenuAfterReset(s) PROVE IInv'
<1>1. PICK u \in Slots :
        /\ call[s].phase = "Onboarded" /\ call[s].rejoined
        /\ ~ call[s].user.force_password_reset /\ call[s].slot = u
        /\ EnterMenuAs(s, u, call[s].user)
  BY DEF EnterMenuAfterReset
<1>2. /\ call[s].user \in UserRecord /\ ReadInOrder(call[s].user)
      /\ ~ IsLockedOut(call[s].user)
      /\ call[s].user.last_joined \in call[s].user.granted
  BY <1>1, Current DEF Session, SessionSound
<1> QED
  BY <1>1, <1>2, EnterMenuKeeps

----------------------------------------------------------------------------
(* At the menu and after it.                                               *)

\* The session's copy moves forward from its baseline.
LEMMA WorkKeeps ==
    ASSUME IInv, NEW s \in Sessions, call[s].phase = "Menu",
           NEW user \in UserRecord, ReadInOrder(user), Ahead(call[s].base, user),
           user.access_level = call[s].user.access_level,
           user.account_locked = call[s].user.account_locked,
           user.force_password_reset = call[s].user.force_password_reset,
           user.last_joined \in user.granted,
           call' = [call EXCEPT ![s] = [call[s] EXCEPT !.user = user]],
           UNCHANGED <<store, clock, connections>>,
           highest' \in [Conferences -> Nat]
    PROVE  IInv'
<1> DEFINE next == [call[s] EXCEPT !.user = user]
<1>1. /\ next \in Session /\ next.phase = "Menu" /\ next.slot = call[s].slot
      /\ next.user = user /\ next.base = call[s].base
      /\ next.strikes = call[s].strikes
  BY Current DEF Session
<1> HIDE DEF next
<1>2. ~ IsLockedOut(user) /\ ~ user.force_password_reset
  BY Current DEF SessionSound, IsLockedOut
<1>3. SessionSound(next)
  BY <1>1, <1>2, Current DEF SessionSound, StrikeLimit
<1>4. clock' \in Nat \ {0} /\ connections' \in Nat /\ store' = store
  BY DEF IInv, TypeOK
<1>5. call' = [call EXCEPT ![s] = next]
  BY DEF next
<1> QED
  BY <1>1, <1>3, <1>4, <1>5, Current, MoveKeeps

LEMMA PostMailKeeps ==
    ASSUME IInv, NEW s \in Sessions, NEW c \in Conferences, PostMail(s, c)
    PROVE  IInv'
<1> DEFINE user == call[s].user
           next == [user EXCEPT !.messages_posted = @ + 1]
<1>1. /\ call[s] \in Session /\ call[s].phase = "Menu" /\ user \in UserRecord
      /\ call[s].base \in UserRecord /\ ReadInOrder(user)
      /\ Ahead(call[s].base, user) /\ user.last_joined \in user.granted
  BY Current DEF PostMail, MenuIn, Session, SessionSound
<1>2. /\ next \in UserRecord /\ ReadInOrder(next)
      /\ next.access_level = user.access_level
      /\ next.account_locked = user.account_locked
      /\ next.force_password_reset = user.force_password_reset
      /\ next.last_joined \in next.granted
  BY <1>1 DEF UserRecord, ReadInOrder
<1>3. Ahead(call[s].base, next)
  BY <1>1 DEF Ahead, UserRecord
<1>4. call' = [call EXCEPT ![s] = [call[s] EXCEPT !.user = next]]
  BY <1>1 DEF PostMail, Session
<1>5. highest' \in [Conferences -> Nat] /\ UNCHANGED <<store, clock, connections>>
  BY DEF PostMail, IInv, TypeOK
<1> HIDE DEF next
<1> QED
  BY <1>1, <1>2, <1>3, <1>4, <1>5, WorkKeeps

\* Reading and scanning move pointers forward and keep them in order.
LEMMA AdvanceForward ==
    ASSUME NEW base \in UserRecord, NEW user \in UserRecord, Ahead(base, user),
           ReadInOrder(user), NEW c \in Conferences, NEW to \in Nat,
           NEW next \in {AdvanceLastRead(user, c, to), AdvanceLastScanned(user, c, to)}
    PROVE  /\ next \in UserRecord /\ ReadInOrder(next) /\ Ahead(base, next)
           /\ next.access_level = user.access_level
           /\ next.account_locked = user.account_locked
           /\ next.force_password_reset = user.force_password_reset
           /\ next.last_joined = user.last_joined /\ next.granted = user.granted
           /\ next.messages_posted = user.messages_posted
<1>1. next \in UserRecord
  BY AdvanceType
<1>2. /\ next.access_level = user.access_level
      /\ next.account_locked = user.account_locked
      /\ next.force_password_reset = user.force_password_reset
      /\ next.last_joined = user.last_joined /\ next.granted = user.granted
      /\ next.messages_posted = user.messages_posted
      /\ next.times_called = user.times_called /\ next.last_call = user.last_call
      /\ next.times_called_today = user.times_called_today
  BY DEF AdvanceLastRead, AdvanceLastScanned, UserRecord
<1>3. ASSUME NEW d \in Conferences
      PROVE  /\ next.last_read[d] <= next.last_scanned[d]
             /\ next.last_read[d] >= base.last_read[d]
             /\ next.last_scanned[d] >= base.last_scanned[d]
  <2>1. /\ user.last_read[d] \in Nat /\ user.last_scanned[d] \in Nat
        /\ base.last_read[d] \in Nat /\ base.last_scanned[d] \in Nat
        /\ user.last_read[d] <= user.last_scanned[d]
        /\ user.last_read[d] >= base.last_read[d]
        /\ user.last_scanned[d] >= base.last_scanned[d]
    BY DEF UserRecord, Ahead, ReadInOrder
  <2>2. CASE next = AdvanceLastRead(user, c, to)
    BY <2>1, <2>2 DEF AdvanceLastRead, Larger, UserRecord
  <2>3. CASE next = AdvanceLastScanned(user, c, to)
    BY <2>1, <2>3 DEF AdvanceLastScanned, Larger, UserRecord
  <2> QED
    BY <2>2, <2>3
<1> QED
  BY <1>1, <1>2, <1>3 DEF Ahead, ReadInOrder

LEMMA AdvanceKeeps ==
    ASSUME IInv, NEW s \in Sessions, NEW c \in Conferences, NEW to \in Nat,
           call[s].phase = "Menu",
           NEW next \in {AdvanceLastRead(call[s].user, c, to),
                         AdvanceLastScanned(call[s].user, c, to)},
           Becomes(s, [call[s] EXCEPT !.user = next])
    PROVE  IInv'
<1>1. /\ call[s].user \in UserRecord /\ call[s].base \in UserRecord
      /\ ReadInOrder(call[s].user) /\ Ahead(call[s].base, call[s].user)
      /\ call[s].user.last_joined \in call[s].user.granted
  BY Current DEF Session, SessionSound
<1>2. /\ call' = [call EXCEPT ![s] = [call[s] EXCEPT !.user = next]]
      /\ UNCHANGED <<store, clock, connections>>
      /\ highest' \in [Conferences -> Nat]
  BY DEF Becomes, IInv, TypeOK
<1>3. /\ next \in UserRecord /\ ReadInOrder(next) /\ Ahead(call[s].base, next)
      /\ next.access_level = call[s].user.access_level
      /\ next.account_locked = call[s].user.account_locked
      /\ next.force_password_reset = call[s].user.force_password_reset
      /\ next.last_joined \in next.granted
  BY <1>1, AdvanceForward
<1> QED
  BY <1>1, <1>2, <1>3, WorkKeeps

LEMMA ReadMailKeeps ==
    ASSUME IInv, NEW s \in Sessions, NEW c \in Conferences, NEW number,
           ReadMail(s, c, number)
    PROVE  IInv'
<1>1. number \in Nat /\ call[s].phase = "Menu"
  BY DEF ReadMail, MenuIn, IInv, TypeOK
<1>2. Becomes(s, [call[s] EXCEPT !.user = AdvanceLastRead(call[s].user, c, number)])
  BY DEF ReadMail
<1> QED
  BY <1>1, <1>2, AdvanceKeeps

LEMMA ScanMailKeeps ==
    ASSUME IInv, NEW s \in Sessions, NEW c \in Conferences, ScanMail(s, c)
    PROVE  IInv'
<1>1. highest[c] \in Nat /\ call[s].phase = "Menu"
  BY DEF ScanMail, MenuIn, IInv, TypeOK
<1>2. Becomes(s, [call[s] EXCEPT
                    !.user = AdvanceLastScanned(call[s].user, c, highest[c])])
  BY DEF ScanMail
<1> QED
  BY <1>1, <1>2, AdvanceKeeps

LEMMA ExplicitJoinKeeps ==
    ASSUME IInv, NEW s \in Sessions, NEW c \in Conferences, ExplicitJoin(s, c)
    PROVE  IInv'
<1> DEFINE user == call[s].user
           next == [user EXCEPT !.last_joined = c]
<1>1. /\ call[s] \in Session /\ call[s].phase = "Menu" /\ user \in UserRecord
      /\ ReadInOrder(user) /\ Ahead(call[s].base, user) /\ c \in user.granted
      /\ c # NoConference
  BY Current, ConferencesAssumption
     DEF ExplicitJoin, MenuIn, Session, SessionSound
<1>2. /\ next \in UserRecord /\ ReadInOrder(next) /\ Ahead(call[s].base, next)
      /\ next.access_level = user.access_level
      /\ next.account_locked = user.account_locked
      /\ next.force_password_reset = user.force_password_reset
      /\ next.last_joined \in next.granted
  BY <1>1 DEF UserRecord, ReadInOrder, Ahead
<1>3. /\ call' = [call EXCEPT ![s] = [call[s] EXCEPT !.user = next]]
      /\ UNCHANGED <<store, clock, connections>>
      /\ highest' \in [Conferences -> Nat]
  BY <1>1 DEF ExplicitJoin, Becomes, Session, IInv, TypeOK
<1> HIDE DEF next
<1> QED
  BY <1>1, <1>2, <1>3, WorkKeeps

LEMMA FinaliseLogoffKeeps ==
    ASSUME IInv, NEW s \in Sessions, FinaliseLogoff(s) PROVE IInv'
<1>1. CASE Becomes(s, NoCall)
  BY <1>1, LeavingKeeps
<1>2. CASE ~ Becomes(s, NoCall)
  <2> DEFINE stamped == [call[s].user EXCEPT !.last_call = clock]
  <2>1. PICK u \in Slots :
          /\ call[s].slot = u
          /\ store' = [store EXCEPT ![u] = ApplyPatch(PendingPatch(s, stamped), store[u])]
          /\ call' = [call EXCEPT ![s] = NoCall]
          /\ UNCHANGED <<highest, clock, connections>>
    BY <1>2 DEF FinaliseLogoff
  <2>2. /\ store[u] \in UserRecord /\ ReadInOrder(store[u]) /\ ~ IsFree(store[u])
        /\ call[s].user \in UserRecord /\ call[s].base \in UserRecord
        /\ clock \in Nat
    BY <2>1, Current, SlotsAssumption DEF Session, InUse, RowSound
  <2>3. stamped \in UserRecord
    BY <2>2 DEF UserRecord
  <2> DEFINE row == ApplyPatch(PendingPatch(s, stamped), store[u])
  <2>4. row \in UserRecord /\ ReadInOrder(row) /\ row.handle = store[u].handle
    BY <2>2, <2>3, PatchKeepsRow DEF PendingPatch
  <2> HIDE DEF row
  <2> QED
    BY <2>1, <2>2, <2>4, NoCallSound, WriteKeeps DEF row
<1> QED
  BY <1>1, <1>2

LEMMA CrashKeeps == ASSUME IInv, Crash PROVE IInv'
<1>1. \A r \in Sessions : call'[r] = NoCall
  BY DEF Crash
<1>2. TypeOK'
  BY NoCallSound DEF Crash, IInv, TypeOK
<1>3. \A r \in Sessions : SessionSound(call[r])' /\ InUse(call[r].slot)'
  BY <1>1, NoCallSound DEF SessionSound, StrikeLimit, InUse
<1>4. HandlesUnique' /\ \A u \in Slots : RowSound(store[u])'
  BY DEF Crash, IInv, HandlesUnique
<1> QED
  BY <1>2, <1>3, <1>4 DEF IInv

\* The clock, and steps that change nothing.
LEMMA IdleKeeps == ASSUME IInv, Tick \/ UNCHANGED vars PROVE IInv'
<1>1. store' = store /\ call' = call /\ highest' = highest /\ connections' = connections
  BY DEF Tick, vars
<1>2. clock' \in Nat \ {0}
  BY DEF Tick, vars, IInv, TypeOK
<1>3. TypeOK' /\ HandlesUnique'
  BY <1>1, <1>2 DEF IInv, TypeOK, HandlesUnique
<1> QED
  BY <1>1, <1>3 DEF IInv, InUse

----------------------------------------------------------------------------
(* The invariant and what follows from it.                                 *)

LEMMA InitSound == Init => IInv
<1> SUFFICES ASSUME Init PROVE IInv
  OBVIOUS
<1>1. /\ store \in [Slots -> UserRecord]
      /\ \A u \in Slots : SeededRow(store[u])
  BY SeedAssumption DEF Init
<1>2. TypeOK
  BY <1>1, NoCallSound DEF Init, TypeOK
<1>3. \A u \in Slots : RowSound(store[u])
  BY <1>1 DEF SeededRow, RowSound, ReadInOrder
<1>4. \A s \in Sessions : SessionSound(call[s]) /\ InUse(call[s].slot)
  BY NoCallSound DEF Init, InUse
<1>5. HandlesUnique
  BY SeedAssumption DEF Init, HandlesUnique
<1> QED
  BY <1>2, <1>3, <1>4, <1>5 DEF IInv

LEMMA NextKeeps == IInv /\ [Next]_vars => IInv'
<1> SUFFICES ASSUME IInv, [Next]_vars PROVE IInv'
  OBVIOUS
<1>1. ASSUME NEW s \in Sessions, SignIn(s) PROVE IInv'
  BY <1>1, PromptForNameKeeps, RecordIdentifiedUserKeeps, RecordUnknownNameKeeps,
     RecordNewUserRequestKeeps, VerifyPasswordKeeps,
     ApplyNewUserPasswordAttemptKeeps, ReadHandleKeeps, RefuseHandleKeeps,
     CreateUserKeeps, RegistrationFailsKeeps, AutoRejoinKeeps,
     CompletePasswordResetKeeps, RejectPasswordResetKeeps, EnterMenuAfterResetKeeps
     DEF SignIn
<1>2. ASSUME NEW s \in Sessions, AtMenu(s) PROVE IInv'
  BY <1>2, PostMailKeeps, ReadMailKeeps, ScanMailKeeps, ExplicitJoinKeeps DEF AtMenu
<1>3. ASSUME NEW s \in Sessions, SignOff(s) PROVE IInv'
  <2>1. CASE LeaveCall(s)
    BY <2>1, LeavingKeeps DEF LeaveCall
  <2>2. CASE FinaliseLogoff(s)
    BY <2>2, FinaliseLogoffKeeps
  <2> QED
    BY <1>3, <2>1, <2>2 DEF SignOff
<1>4. ASSUME NEW s \in Sessions, StoreFails(s) PROVE IInv'
  BY <1>4, LeavingKeeps DEF StoreFails
<1>5. CASE Crash
  BY <1>5, CrashKeeps
<1>6. CASE Tick \/ UNCHANGED vars
  BY <1>6, IdleKeeps
<1> QED
  BY <1>1, <1>2, <1>3, <1>4, <1>5, <1>6, ConnectKeeps DEF Next

LEMMA InvariantHolds == Spec => []IInv
BY InitSound, NextKeeps, PTL DEF Spec

\* Every row and every session keeps the shape the code gives it.
THEOREM TypeCorrect == Spec => []TypeOK
<1>1. IInv => TypeOK
  BY DEF IInv
<1> QED
  BY <1>1, InvariantHolds, PTL

\* No two accounts ever share a handle (create_user).
THEOREM HandlesStayUnique == Spec => []HandlesUnique
<1>1. IInv => HandlesUnique
  BY DEF IInv
<1> QED
  BY <1>1, InvariantHolds, PTL

\* last_read stays at or below last_scanned in every row and every copy,
\* through every merge of two sessions' patches.
THEOREM PointersStayInOrder == Spec => []ReadDoesNotExceedScanned
<1>1. IInv => ReadDoesNotExceedScanned
  BY DEF IInv, RowSound, SessionSound, ReadInOrder, ReadDoesNotExceedScanned
<1> QED
  BY <1>1, InvariantHolds, PTL

\* No prompt lets a call past its limit of failures.
THEOREM RetriesStayBounded == Spec => []RetriesBounded
<1>1. IInv => RetriesBounded
  BY DEF IInv, SessionSound, RetriesBounded
<1> QED
  BY <1>1, InvariantHolds, PTL

\* Nobody is at the menu who was not let in.
THEOREM MenuAfterAdmission == Spec => []MenuOnlyAfterAdmission
<1>1. IInv => MenuOnlyAfterAdmission
  BY DEF IInv, SessionSound, MenuOnlyAfterAdmission
<1> QED
  BY <1>1, InvariantHolds, PTL

----------------------------------------------------------------------------
(* What a session saves is stored.  Beside IInv the argument needs that the
   credentials of a copy never wait for a patch, that nothing has happened to
   the copy of a caller still at the password prompt, and that the count of
   the day is not waiting either when a call is held back for a reset.     *)

CredentialsSaved(session) ==
    /\ session.user.password_hash = session.base.password_hash
    /\ session.user.force_password_reset = session.base.force_password_reset
    /\ session.user.account_locked = session.base.account_locked
    /\ session.user.invalid_attempts = session.base.invalid_attempts
    /\ session.phase = "Authenticating" => session.user = session.base
    /\ session.phase = "Onboarded" /\ session.user.force_password_reset
         => session.user.times_called_today = session.base.times_called_today
SavedInv == \A s \in Sessions : CredentialsSaved(call[s])

\* A baseline that moves leaves its change in the row.
RebaseStored ==
    \A s \in Sessions, u \in Slots :
        call[s].slot = u /\ call'[s].slot = u /\ call'[s].base # call[s].base =>
          Stored(call[s].base, call'[s].base, store[u], store'[u])

\* The session moves on and owes what it owed before.
SameDebt(session, next) ==
    /\ next.base = session.base
    /\ next.user.password_hash = session.user.password_hash
    /\ next.user.force_password_reset = session.user.force_password_reset
    /\ next.user.account_locked = session.user.account_locked
    /\ next.user.invalid_attempts = session.user.invalid_attempts
    /\ next.user.times_called_today = session.user.times_called_today
    /\ next.phase # "Authenticating"
    /\ next.phase = "Onboarded" => session.phase = "Onboarded"

\* No baseline of a call that goes on moves in this step.
SavesNone ==
    \A s \in Sessions :
        \/ call'[s] = call[s]
        \/ SameDebt(call[s], call'[s])
        \/ call'[s] = NoCall
        \/ call[s].slot = NoSlot /\ CredentialsSaved(call'[s])

LEMMA SavesNoneKeeps ==
    ASSUME IInv, SavedInv, SavesNone
    PROVE  SavedInv' /\ RebaseStored
<1>1. ASSUME NEW s \in Sessions PROVE CredentialsSaved(call[s])'
  <2>1. CredentialsSaved(call[s])
    BY DEF SavedInv
  <2>2. CASE call'[s] = call[s]
    BY <2>1, <2>2 DEF CredentialsSaved
  <2>3. CASE SameDebt(call[s], call'[s])
    BY <2>1, <2>3 DEF CredentialsSaved, SameDebt
  <2>4. CASE call'[s] = NoCall
    BY <2>4 DEF CredentialsSaved, NoCall
  <2> QED
    BY <2>2, <2>3, <2>4 DEF SavesNone, CredentialsSaved
<1>2. RebaseStored
  <2> SUFFICES ASSUME NEW s \in Sessions, NEW u \in Slots, call[s].slot = u,
                      call'[s].slot = u, call'[s].base # call[s].base
               PROVE  FALSE
    BY DEF RebaseStored
  <2>1. u # NoSlot /\ NoCall.slot = NoSlot
    BY SlotsAssumption, NoCallSound
  <2> QED
    BY <2>1 DEF SavesNone, SameDebt
<1> QED
  BY <1>1, <1>2 DEF SavedInv

LEMMA BecomesSavesNone ==
    ASSUME IInv, NEW s \in Sessions, NEW next, Becomes(s, next),
           \/ SameDebt(call[s], next)
           \/ next = NoCall
           \/ call[s].slot = NoSlot /\ CredentialsSaved(next)
    PROVE  SavesNone
<1>1. \A t \in Sessions : call'[t] = IF t = s THEN next ELSE call[t]
  BY DEF Becomes, IInv, TypeOK
<1> QED
  BY <1>1 DEF SavesNone

LEMMA LeavingOwes ==
    ASSUME NEW session \in Session PROVE SameDebt(session, LoggingOff(session))
<1>1. /\ LoggingOff(session).base = session.base
      /\ LoggingOff(session).user = session.user
      /\ LoggingOff(session).phase = "LoggingOff"
  BY DEF LoggingOff, Session
<1> QED
  BY <1>1 DEF SameDebt

\* A step that writes the row a session is bound to, and says so to it.
LEMMA PersistSaves ==
    ASSUME IInv, SavedInv, NEW s \in Sessions, NEW u \in Slots, call[s].slot = u,
           NEW row, NEW next \in Session, NEW user, Persist(s, u, row, next, user),
           Stored(call[s].base, user, store[u], row)
    PROVE  SavedInv' /\ RebaseStored
<1> DEFINE moved == [next EXCEPT !.slot = u, !.user = user, !.base = user]
<1>1. moved.user = user /\ moved.base = user
  BY DEF Session
<1>2. store' = [store EXCEPT ![u] = row] /\ call' = [call EXCEPT ![s] = moved]
  BY DEF Persist
<1> HIDE DEF moved
<1>3. /\ store'[u] = row
      /\ \A t \in Sessions : call'[t] = IF t = s THEN moved ELSE call[t]
  BY <1>2 DEF IInv, TypeOK
<1>4. CredentialsSaved(moved)
  BY <1>1 DEF CredentialsSaved
<1>5. ASSUME NEW t \in Sessions PROVE CredentialsSaved(call[t])'
  <2>1. CredentialsSaved(call[t])
    BY DEF SavedInv
  <2>2. CASE t = s
    BY <1>3, <1>4, <2>2 DEF CredentialsSaved
  <2>3. CASE t # s
    BY <1>3, <2>1, <2>3 DEF CredentialsSaved
  <2> QED
    BY <2>2, <2>3
<1>6. RebaseStored
  <2> SUFFICES ASSUME NEW t \in Sessions, NEW v \in Slots, call[t].slot = v,
                      call'[t].base # call[t].base
               PROVE  Stored(call[t].base, call'[t].base, store[v], store'[v])
    BY DEF RebaseStored
  <2>1. t = s
    BY <1>3
  <2> QED
    BY <1>1, <1>3, <2>1
<1> QED
  BY <1>5, <1>6 DEF SavedInv

----------------------------------------------------------------------------
(* The four writes.                                                        *)

\* The patch of a session, given to whatever the row has become.
LEMMA PatchStores ==
    ASSUME NEW base \in UserRecord, NEW user \in UserRecord, NEW row \in UserRecord,
           user.times_called >= base.times_called,
           user.times_called_today >= base.times_called_today,
           user.messages_posted >= base.messages_posted,
           user.last_joined = NoConference => base.last_joined = NoConference,
           user.password_hash = base.password_hash,
           user.account_locked = base.account_locked,
           user.invalid_attempts = base.invalid_attempts,
           user.force_password_reset => base.force_password_reset
    PROVE  Stored(base, user, row, ApplyPatch(PatchBetween(base, user), row))
<1> DEFINE stored == ApplyPatch(PatchBetween(base, user), row)
<1>1. /\ stored \in UserRecord
      /\ stored.times_called
           = row.times_called + Excess(user.times_called, base.times_called)
      /\ stored.times_called_today
           = row.times_called_today
               + Excess(user.times_called_today, base.times_called_today)
      /\ stored.messages_posted
           = row.messages_posted + Excess(user.messages_posted, base.messages_posted)
      /\ user.last_call # base.last_call =>
           stored.last_call = Larger(row.last_call, user.last_call)
      /\ user.last_joined # base.last_joined =>
           stored.last_joined = IF user.last_joined = NoConference
                                  THEN row.last_joined ELSE user.last_joined
      /\ \A c \in Conferences :
           c \in AdvancedPointers(base, user) =>
             /\ stored.last_read[c] = Larger(row.last_read[c], user.last_read[c])
             /\ stored.last_scanned[c]
                  = Larger(Larger(row.last_scanned[c], stored.last_read[c]),
                           user.last_scanned[c])
  BY PatchMerge
<1> HIDE DEF stored
<1>2. /\ user.times_called \in Nat /\ base.times_called \in Nat
      /\ row.times_called \in Nat /\ row.times_called_today \in Nat
      /\ row.messages_posted \in Nat
      /\ user.times_called_today \in Nat /\ base.times_called_today \in Nat
      /\ user.messages_posted \in Nat /\ base.messages_posted \in Nat
      /\ row.last_call \in Nat /\ user.last_call \in Nat
      /\ user.invalid_attempts \in Nat
  BY DEF UserRecord
<1>3. /\ stored.times_called - row.times_called = user.times_called - base.times_called
      /\ stored.messages_posted - row.messages_posted
           = user.messages_posted - base.messages_posted
      /\ stored.times_called_today - row.times_called_today
           = user.times_called_today - base.times_called_today
  <2>1. ASSUME NEW a \in Nat, NEW b \in Nat, a >= b, NEW c \in Nat
        PROVE  (c + Excess(a, b)) - c = a - b
    BY <2>1 DEF Excess
  <2>2. stored.times_called - row.times_called = user.times_called - base.times_called
    BY <1>1, <1>2, <2>1
  <2>3. stored.messages_posted - row.messages_posted
          = user.messages_posted - base.messages_posted
    BY <1>1, <1>2, <2>1
  <2>4. stored.times_called_today - row.times_called_today
          = user.times_called_today - base.times_called_today
    BY <1>1, <1>2, <2>1
  <2> QED
    BY <2>2, <2>3, <2>4
<1>4. /\ user.last_call # base.last_call => stored.last_call >= user.last_call
      /\ user.last_joined # base.last_joined => stored.last_joined = user.last_joined
  <2>1. Larger(row.last_call, user.last_call) >= user.last_call
    BY <1>2, LargerNat
  <2>2. user.last_call # base.last_call => stored.last_call >= user.last_call
    BY <1>1, <2>1
  <2>3. user.last_joined # base.last_joined => stored.last_joined = user.last_joined
    BY <1>1
  <2> QED
    BY <2>2, <2>3
<1>5. ASSUME NEW c \in Conferences
      PROVE  /\ user.last_read[c] > base.last_read[c] =>
                  stored.last_read[c] >= user.last_read[c]
             /\ user.last_scanned[c] > base.last_scanned[c] =>
                  stored.last_scanned[c] >= user.last_scanned[c]
  <2>1. /\ user.last_read[c] \in Nat /\ user.last_scanned[c] \in Nat
        /\ row.last_read[c] \in Nat /\ row.last_scanned[c] \in Nat
        /\ stored.last_read[c] \in Nat
    BY <1>1 DEF UserRecord
  <2>2. Larger(row.last_scanned[c], stored.last_read[c]) \in Nat
    BY <2>1, LargerNat
  <2> DEFINE lifted == Larger(row.last_scanned[c], stored.last_read[c])
  <2>3. CASE c \in AdvancedPointers(base, user)
    <3>1. /\ stored.last_read[c] = Larger(row.last_read[c], user.last_read[c])
          /\ stored.last_scanned[c] = Larger(lifted, user.last_scanned[c])
      BY <1>1, <2>3
    <3> HIDE DEF lifted
    <3>2. lifted \in Nat
      BY <2>2 DEF lifted
    <3>3. stored.last_read[c] >= user.last_read[c]
      <4>1. Larger(row.last_read[c], user.last_read[c]) >= user.last_read[c]
        BY <2>1, LargerNat
      <4> QED
        BY <3>1, <4>1
    <3>4. stored.last_scanned[c] >= user.last_scanned[c]
      <4>1. Larger(lifted, user.last_scanned[c]) >= user.last_scanned[c]
        BY <2>1, <3>2, LargerNat
      <4> QED
        BY <3>1, <4>1
    <3> QED
      BY <3>3, <3>4
  <2>4. CASE c \notin AdvancedPointers(base, user)
    BY <2>4 DEF AdvancedPointers
  <2> QED
    BY <2>3, <2>4
<1>6. ~ (user.invalid_attempts > base.invalid_attempts)
  BY <1>2
<1> QED
  BY <1>3, <1>4, <1>5, <1>6 DEF Stored, stored

\* A good password: the strikes are cleared, the day and the expiry judged.
LEMMA MatchStores ==
    ASSUME IInv, SavedInv, NEW s \in Sessions, NEW u \in Slots,
           call[s].phase = "Authenticating", call[s].slot = u,
           ApplyPasswordMatch(s, u)
    PROVE  SavedInv' /\ RebaseStored
<1> DEFINE base == call[s].base
           cleared == [call[s].user EXCEPT !.invalid_attempts = 0]
           daily == DailyBudgetOutcome(cleared.last_call, clock)
           begun == BeginDailyBudget(cleared, daily)
           admitted == FlagResetIfExpired(begun, PasswordExpiry, clock)
           turned == ApplyAuthOutcome(AuthMatched("None", cleared.force_password_reset),
                                      store[u])
           row == ApplyAuthOutcome(AuthMatched(daily, admitted.force_password_reset),
                                   store[u])
           onboarded == [call[s] EXCEPT !.phase = "Onboarded", !.strikes = 0]
<1>1. /\ store[u] \in UserRecord /\ call[s] \in Session
      /\ base \in UserRecord /\ call[s].user = base
  BY Current DEF Session, SavedInv, CredentialsSaved
<1>2. cleared = [base EXCEPT !.invalid_attempts = 0] /\ cleared \in UserRecord
  BY <1>1 DEF UserRecord
<1>3. daily \in {"NewDay", "SameDay"}
  BY OutcomeType
<1> HIDE DEF base, cleared, daily
<1>4. /\ base.times_called \in Nat /\ base.times_called_today \in Nat
      /\ base.messages_posted \in Nat /\ base.invalid_attempts \in Nat
      /\ store[u].times_called \in Nat /\ store[u].times_called_today \in Nat
      /\ store[u].messages_posted \in Nat
      /\ base.last_read \in [Conferences -> Nat]
      /\ base.last_scanned \in [Conferences -> Nat]
  BY <1>1 DEF UserRecord
<1>5. CASE IsLockedOut(cleared)
  <2>1. Persist(s, u, turned, LoggingOff(call[s]), cleared)
    BY <1>5 DEF ApplyPasswordMatch, cleared
  <2>2. LoggingOff(call[s]) \in Session
    BY Current, LoggingOffSound
  <2>3. /\ turned.times_called = store[u].times_called
        /\ turned.messages_posted = store[u].messages_posted
    BY <1>1 DEF ApplyAuthOutcome, AuthMatched, UserRecord
  <2>4. /\ cleared.times_called = base.times_called
        /\ cleared.messages_posted = base.messages_posted
        /\ cleared.times_called_today = base.times_called_today
        /\ cleared.last_call = base.last_call
        /\ cleared.last_joined = base.last_joined
        /\ cleared.last_read = base.last_read
        /\ cleared.last_scanned = base.last_scanned
        /\ cleared.invalid_attempts = 0
        /\ cleared.account_locked = base.account_locked
        /\ cleared.force_password_reset = base.force_password_reset
        /\ cleared.password_hash = base.password_hash
    BY <1>1, <1>2 DEF UserRecord
  <2> HIDE DEF turned
  <2>5. Stored(base, cleared, store[u], turned)
    BY <1>4, <2>3, <2>4 DEF Stored
  <2> QED
    BY <2>1, <2>2, <2>5, PersistSaves DEF base
<1>6. CASE ~ IsLockedOut(cleared)
  <2>1. Persist(s, u, row, onboarded, admitted)
    BY <1>6 DEF ApplyPasswordMatch, cleared, daily
  <2>2. onboarded \in Session
    BY <1>1 DEF Session, Phases
  <2>3. /\ begun.times_called = base.times_called
        /\ begun.messages_posted = base.messages_posted
        /\ begun.times_called_today
             = IF daily = "NewDay" THEN 0 ELSE base.times_called_today + 1
        /\ begun.last_call = base.last_call
        /\ begun.last_joined = base.last_joined
        /\ begun.last_read = base.last_read
        /\ begun.last_scanned = base.last_scanned
        /\ begun.invalid_attempts = 0
        /\ begun.account_locked = base.account_locked
        /\ begun.password_hash = base.password_hash
    BY <1>1, <1>2 DEF BeginDailyBudget, UserRecord
  <2>4. begun \in UserRecord
    BY <1>2, <1>3, DailyType
  <2> HIDE DEF begun
  <2>5. /\ admitted.times_called = begun.times_called
        /\ admitted.messages_posted = begun.messages_posted
        /\ admitted.times_called_today = begun.times_called_today
        /\ admitted.last_call = begun.last_call
        /\ admitted.last_joined = begun.last_joined
        /\ admitted.last_read = begun.last_read
        /\ admitted.last_scanned = begun.last_scanned
        /\ admitted.invalid_attempts = begun.invalid_attempts
        /\ admitted.account_locked = begun.account_locked
        /\ admitted.password_hash = begun.password_hash
    BY <2>4 DEF FlagResetIfExpired, UserRecord
  <2> HIDE DEF admitted
  <2>6. /\ row.times_called = store[u].times_called
        /\ row.messages_posted = store[u].messages_posted
        /\ daily = "SameDay" => row.times_called_today = store[u].times_called_today + 1
        /\ admitted.force_password_reset => row.force_password_reset
    BY <1>1, <1>3 DEF ApplyAuthOutcome, AuthMatched, UserRecord
  <2> HIDE DEF row
  <2>7. /\ admitted.times_called_today > base.times_called_today =>
             row.times_called_today - store[u].times_called_today
               = admitted.times_called_today - base.times_called_today
        /\ ~ (admitted.invalid_attempts > base.invalid_attempts)
    BY <1>3, <1>4, <2>3, <2>5, <2>6
  <2>8. /\ row.times_called - store[u].times_called
             = admitted.times_called - base.times_called
        /\ row.messages_posted - store[u].messages_posted
             = admitted.messages_posted - base.messages_posted
    BY <1>4, <2>3, <2>5, <2>6
  <2>9. \A c \in Conferences : /\ ~ (admitted.last_read[c] > base.last_read[c])
                               /\ ~ (admitted.last_scanned[c] > base.last_scanned[c])
    BY <1>4, <2>3, <2>5
  <2>10. Stored(base, admitted, store[u], row)
    BY <2>3, <2>5, <2>6, <2>7, <2>8, <2>9 DEF Stored
  <2> HIDE DEF onboarded
  <2> QED
    BY <2>1, <2>2, <2>10, PersistSaves DEF base
<1> QED
  BY <1>5, <1>6

\* A bad one: the row counts it, and is locked when the copy judges so.
LEMMA MismatchStores ==
    ASSUME IInv, SavedInv, NEW s \in Sessions, NEW u \in Slots,
           call[s].phase = "Authenticating", call[s].slot = u,
           ApplyPasswordMismatch(s, u)
    PROVE  SavedInv' /\ RebaseStored
<1> DEFINE base == call[s].base
           bumped == [call[s].user EXCEPT !.invalid_attempts = @ + 1]
           strikes == call[s].strikes + 1
           decision == PasswordFailureDecision(bumped.invalid_attempts, strikes)
           locked == [bumped EXCEPT !.account_locked = TRUE, !.invalid_attempts = 0]
           lock == decision = "LockAccount"
           row == ApplyAuthOutcome(AuthMismatched(lock), store[u])
           stays == [call[s] EXCEPT !.strikes = strikes]
           next == IF decision = "Continue" THEN stays ELSE LoggingOff(call[s])
           user == IF decision = "LockAccount" THEN locked ELSE bumped
<1>1. /\ store[u] \in UserRecord /\ call[s] \in Session
      /\ base \in UserRecord /\ call[s].user = base
  BY Current DEF Session, SavedInv, CredentialsSaved
<1>2. Persist(s, u, row, next, user)
  BY DEF ApplyPasswordMismatch
<1>3. next \in Session
  BY <1>1, Current, LoggingOffSound DEF Session
<1>4. /\ row.times_called = store[u].times_called
      /\ row.messages_posted = store[u].messages_posted
      /\ row.invalid_attempts = store[u].invalid_attempts + 1
      /\ lock => row.account_locked
  BY <1>1 DEF ApplyAuthOutcome, AuthMismatched, UserRecord
<1>5. /\ user.times_called = base.times_called
      /\ user.messages_posted = base.messages_posted
      /\ user.times_called_today = base.times_called_today
      /\ user.last_call = base.last_call
      /\ user.last_joined = base.last_joined
      /\ user.last_read = base.last_read
      /\ user.last_scanned = base.last_scanned
      /\ user.force_password_reset = base.force_password_reset
      /\ user.password_hash = base.password_hash
      /\ ~ lock => user.account_locked = base.account_locked
  <2>1. /\ bumped.times_called = base.times_called
        /\ bumped.messages_posted = base.messages_posted
        /\ bumped.times_called_today = base.times_called_today
        /\ bumped.last_call = base.last_call
        /\ bumped.last_joined = base.last_joined
        /\ bumped.last_read = base.last_read
        /\ bumped.last_scanned = base.last_scanned
        /\ bumped.force_password_reset = base.force_password_reset
        /\ bumped.password_hash = base.password_hash
        /\ bumped.account_locked = base.account_locked
        /\ bumped \in UserRecord
    BY <1>1 DEF UserRecord
  <2> HIDE DEF bumped, decision
  <2> QED
    BY <2>1 DEF UserRecord
<1>6. /\ base.times_called \in Nat /\ base.times_called_today \in Nat
      /\ base.messages_posted \in Nat
      /\ store[u].times_called \in Nat /\ store[u].messages_posted \in Nat
      /\ store[u].invalid_attempts \in Nat
      /\ base.last_read \in [Conferences -> Nat]
      /\ base.last_scanned \in [Conferences -> Nat]
  BY <1>1 DEF UserRecord
<1> HIDE DEF row, user, next, base, lock
<1>7. Stored(base, user, store[u], row)
  BY <1>4, <1>5, <1>6 DEF Stored
<1> QED
  BY <1>2, <1>3, <1>7, PersistSaves DEF base

LEMMA EnterMenuStores ==
    ASSUME IInv, SavedInv, NEW s \in Sessions, NEW u \in Slots, call[s].slot = u,
           NEW user \in UserRecord, EnterMenuAs(s, u, user),
           ~ user.force_password_reset,
           user.times_called = call[s].user.times_called,
           user.times_called_today = call[s].user.times_called_today,
           user.messages_posted = call[s].user.messages_posted,
           user.last_joined # NoConference,
           user.password_hash = call[s].user.password_hash,
           user.account_locked = call[s].user.account_locked,
           user.invalid_attempts = call[s].user.invalid_attempts
    PROVE  SavedInv' /\ RebaseStored
<1> DEFINE base == call[s].base
           counted == [user EXCEPT !.times_called = @ + 1]
           row == ApplyPatch(PatchBetween(base, counted), store[u])
           next == [call[s] EXCEPT !.phase = "Menu", !.strikes = 0, !.rejoined = TRUE]
<1>1. /\ store[u] \in UserRecord /\ call[s] \in Session /\ base \in UserRecord
      /\ Ahead(base, call[s].user) /\ CredentialsSaved(call[s])
  BY Current DEF Session, SessionSound, SavedInv
<1>2. Persist(s, u, row, next, counted)
  BY DEF EnterMenuAs, PendingPatch
<1>3. next \in Session
  BY <1>1 DEF Session, Phases
<1>4. /\ counted \in UserRecord
      /\ counted.times_called = user.times_called + 1
      /\ counted.times_called_today = user.times_called_today
      /\ counted.messages_posted = user.messages_posted
      /\ counted.last_joined = user.last_joined
      /\ counted.password_hash = user.password_hash
      /\ counted.account_locked = user.account_locked
      /\ counted.invalid_attempts = user.invalid_attempts
      /\ counted.force_password_reset = user.force_password_reset
  BY DEF UserRecord
<1>5. base.times_called \in Nat
  BY <1>1 DEF UserRecord
<1> HIDE DEF counted, base
<1>6. /\ counted.times_called >= base.times_called
      /\ counted.times_called_today >= base.times_called_today
      /\ counted.messages_posted >= base.messages_posted
      /\ counted.last_joined # NoConference
      /\ counted.password_hash = base.password_hash
      /\ counted.account_locked = base.account_locked
      /\ counted.invalid_attempts = base.invalid_attempts
      /\ ~ counted.force_password_reset
  BY <1>1, <1>4, <1>5 DEF Ahead, CredentialsSaved, base
<1>7. Stored(base, counted, store[u], row)
  BY <1>1, <1>4, <1>6, PatchStores
<1> HIDE DEF next, row
<1> QED
  BY <1>2, <1>3, <1>7, PersistSaves DEF base

\* The write that leaves last_joined behind, and nothing else.
LEMMA ResetStores ==
    ASSUME IInv, SavedInv, NEW s \in Sessions, NEW password \in Passwords,
           CompletePasswordReset(s, password)
    PROVE  SavedInv' /\ RebaseStored
<1> DEFINE base == call[s].base
           user == call[s].user
           changed == ApplyPasswordChange(password, clock, user)
<1>1. PICK u \in Slots :
        /\ ResetPending(s) /\ call[s].slot = u /\ password # user.password_hash
        /\ Persist(s, u, ApplyPasswordChange(password, clock, store[u]), call[s], changed)
  BY DEF CompletePasswordReset
<1> DEFINE row == ApplyPasswordChange(password, clock, store[u])
<1>2. /\ store[u] \in UserRecord /\ call[s] \in Session
      /\ base \in UserRecord /\ user \in UserRecord
      /\ Ahead(base, user) /\ NothingDone(base, user) /\ CredentialsSaved(call[s])
      /\ call[s].phase = "Onboarded" /\ user.force_password_reset
  BY <1>1, Current DEF ResetPending, Session, SessionSound, SavedInv
<1>3. /\ row.times_called = store[u].times_called
      /\ row.messages_posted = store[u].messages_posted
      /\ row.password_hash = password /\ ~ row.force_password_reset
  BY <1>2 DEF ApplyPasswordChange, UserRecord
<1>4. /\ changed.times_called = base.times_called
      /\ changed.messages_posted = base.messages_posted
      /\ changed.times_called_today = base.times_called_today
      /\ changed.last_call = base.last_call
      /\ changed.last_read = base.last_read
      /\ changed.last_scanned = base.last_scanned
      /\ changed.invalid_attempts = base.invalid_attempts
      /\ changed.account_locked = base.account_locked
      /\ changed.password_hash = password /\ password # base.password_hash
      /\ ~ changed.force_password_reset
  <2>1. /\ user.times_called = base.times_called
        /\ user.messages_posted = base.messages_posted
        /\ user.times_called_today = base.times_called_today
        /\ user.last_call = base.last_call
        /\ user.last_read = base.last_read
        /\ user.last_scanned = base.last_scanned
        /\ user.invalid_attempts = base.invalid_attempts
        /\ user.account_locked = base.account_locked
        /\ password # base.password_hash
    BY <1>1, <1>2 DEF Ahead, NothingDone, CredentialsSaved
  <2> QED
    BY <1>2, <2>1 DEF ApplyPasswordChange, UserRecord
<1>5. /\ base.times_called \in Nat /\ base.times_called_today \in Nat
      /\ base.messages_posted \in Nat /\ base.invalid_attempts \in Nat
      /\ store[u].times_called \in Nat /\ store[u].messages_posted \in Nat
      /\ base.last_read \in [Conferences -> Nat]
      /\ base.last_scanned \in [Conferences -> Nat]
  BY <1>2 DEF UserRecord
<1>6. Persist(s, u, row, call[s], changed)
  BY <1>1
<1> HIDE DEF row, changed, base
<1>7. Stored(base, changed, store[u], row)
  BY <1>3, <1>4, <1>5 DEF Stored
<1> QED
  BY <1>1, <1>2, <1>6, <1>7, PersistSaves DEF base

LEMMA FinaliseStores ==
    ASSUME IInv, SavedInv, NEW s \in Sessions, NEW u \in Slots, call[s].slot = u,
           FinaliseLogoff(s)
    PROVE  Stored(call[s].base, [call[s].user EXCEPT !.last_call = clock],
                  store[u], store'[u])
<1> DEFINE base == call[s].base
           user == call[s].user
           stamped == [user EXCEPT !.last_call = clock]
<1>1. /\ store[u] \in UserRecord /\ base \in UserRecord /\ user \in UserRecord
      /\ Ahead(base, user) /\ CredentialsSaved(call[s]) /\ clock \in Nat
  BY Current DEF Session, SessionSound, SavedInv
<1>2. store'[u] = ApplyPatch(PatchBetween(base, stamped), store[u])
  <2>1. Bound(s)
    BY SlotsAssumption DEF Bound
  <2> QED
    BY <2>1 DEF FinaliseLogoff, PendingPatch, IInv, TypeOK
<1>3. /\ stamped \in UserRecord
      /\ stamped.times_called = user.times_called
      /\ stamped.times_called_today = user.times_called_today
      /\ stamped.messages_posted = user.messages_posted
      /\ stamped.last_joined = user.last_joined
      /\ stamped.password_hash = user.password_hash
      /\ stamped.account_locked = user.account_locked
      /\ stamped.invalid_attempts = user.invalid_attempts
      /\ stamped.force_password_reset = user.force_password_reset
  BY <1>1 DEF UserRecord
<1>4. base.times_called \in Nat
  BY <1>1 DEF UserRecord
<1> HIDE DEF stamped
<1>5. /\ stamped.times_called >= base.times_called
      /\ stamped.times_called_today >= base.times_called_today
      /\ stamped.messages_posted >= base.messages_posted
      /\ stamped.last_joined = NoConference => base.last_joined = NoConference
      /\ stamped.password_hash = base.password_hash
      /\ stamped.account_locked = base.account_locked
      /\ stamped.invalid_attempts = base.invalid_attempts
      /\ stamped.force_password_reset => base.force_password_reset
  BY <1>1, <1>3, <1>4 DEF Ahead, CredentialsSaved
<1> HIDE DEF base
<1>6. Stored(base, stamped, store[u], store'[u])
  BY <1>1, <1>2, <1>3, <1>5, PatchStores
<1> QED
  BY <1>6 DEF base, stamped

----------------------------------------------------------------------------
(* All other steps save nothing.                                           *)

LEMMA UnboundPhases ==
    ASSUME IInv, NEW s \in Sessions,
           call[s].phase \in {"Connecting", "Identifying", "NewUserRegistering", "Ended"}
    PROVE  call[s].slot = NoSlot /\ call[s].user = call[s].base
BY Current DEF SessionSound

LEMMA PromptsSaveNone ==
    ASSUME IInv, SavedInv, NEW s \in Sessions,
           \/ PromptForName(s) \/ RecordUnknownName(s) \/ RecordNewUserRequest(s)
           \/ \E matches \in BOOLEAN : ApplyNewUserPasswordAttempt(s, matches)
           \/ \E handle \in Handles : ReadHandle(s, handle)
           \/ RefuseHandle(s) \/ RegistrationFails(s) \/ RejectPasswordReset(s)
           \/ LeaveCall(s) \/ StoreFails(s)
    PROVE  SavesNone
<1>1. call[s] \in Session /\ SameDebt(call[s], LoggingOff(call[s]))
  BY Current, LeavingOwes
<1>2. CASE PromptForName(s)
  <2>1. SameDebt(call[s], [call[s] EXCEPT !.phase = "Identifying"])
    BY <1>1 DEF SameDebt, Session
  <2> QED
    BY <1>2, <2>1, BecomesSavesNone DEF PromptForName
<1>3. CASE RecordUnknownName(s)
  <2>1. SameDebt(call[s], [call[s] EXCEPT !.strikes = @ + 1])
    BY <1>1, <1>3 DEF RecordUnknownName, SameDebt, Session
  <2> QED
    BY <1>3, <2>1, BecomesSavesNone DEF RecordUnknownName
<1>4. CASE RecordNewUserRequest(s)
  <2>1. SameDebt(call[s], [call[s] EXCEPT !.phase = "NewUserRegistering", !.strikes = 0,
                                          !.gate_verified = ~ GateRequired])
    BY <1>1 DEF SameDebt, Session
  <2> QED
    BY <1>1, <1>4, <2>1, BecomesSavesNone DEF RecordNewUserRequest
<1>5. ASSUME NEW matches \in BOOLEAN, ApplyNewUserPasswordAttempt(s, matches) PROVE SavesNone
  <2>1. /\ SameDebt(call[s], [call[s] EXCEPT !.gate_verified = TRUE, !.strikes = 0])
        /\ SameDebt(call[s], [call[s] EXCEPT !.strikes = @ + 1])
    BY <1>1, <1>5 DEF ApplyNewUserPasswordAttempt, SameDebt, Session
  <2>2. PICK next : Becomes(s, next) /\ SameDebt(call[s], next)
    BY <1>1, <1>5, <2>1 DEF ApplyNewUserPasswordAttempt
  <2> QED
    BY <2>2, BecomesSavesNone
<1>6. ASSUME NEW handle \in Handles, ReadHandle(s, handle) PROVE SavesNone
  <2>1. SameDebt(call[s], [call[s] EXCEPT !.typed_handle = handle, !.strikes = 0])
    BY <1>1, <1>6 DEF ReadHandle, AtProfile, SameDebt, Session
  <2> QED
    BY <1>6, <2>1, BecomesSavesNone DEF ReadHandle
<1>7. CASE RefuseHandle(s)
  <2>1. SameDebt(call[s], [call[s] EXCEPT !.strikes = @ + 1])
    BY <1>1, <1>7 DEF RefuseHandle, AtProfile, SameDebt, Session
  <2> QED
    BY <1>1, <1>7, <2>1, BecomesSavesNone DEF RefuseHandle
<1>8. CASE RejectPasswordReset(s)
  <2>1. SameDebt(call[s], [call[s] EXCEPT !.strikes = @ + 1])
    BY <1>1, <1>8 DEF RejectPasswordReset, ResetPending, SameDebt, Session
  <2> QED
    BY <1>1, <1>8, <2>1, BecomesSavesNone DEF RejectPasswordReset
<1>9. CASE RegistrationFails(s) \/ LeaveCall(s) \/ StoreFails(s)
  BY <1>1, <1>9, BecomesSavesNone DEF RegistrationFails, LeaveCall, StoreFails
<1> QED
  BY <1>2, <1>3, <1>4, <1>5, <1>6, <1>7, <1>8, <1>9

LEMMA BindingSavesNone ==
    ASSUME IInv, SavedInv, NEW s \in Sessions, NEW u \in Slots,
           \/ RecordIdentifiedUser(s, u)
           \/ \E password \in Passwords : CreateUser(s, u, password)
    PROVE  SavesNone
<1>1. call[s] \in Session
  BY Current
<1>2. CASE RecordIdentifiedUser(s, u)
  <2> DEFINE next == [call[s] EXCEPT !.phase = "Authenticating", !.slot = u,
                                     !.user = store[u], !.base = store[u],
                                     !.strikes = 0]
  <2>1. Becomes(s, next) /\ call[s].slot = NoSlot
    BY <1>2, UnboundPhases DEF RecordIdentifiedUser
  <2>2. next.user = store[u] /\ next.base = store[u]
    BY <1>1 DEF Session
  <2> HIDE DEF next
  <2>3. CredentialsSaved(next)
    BY <2>2 DEF CredentialsSaved
  <2> QED
    BY <2>1, <2>3, BecomesSavesNone
<1>3. ASSUME NEW password \in Passwords, CreateUser(s, u, password) PROVE SavesNone
  <2> DEFINE created == RegisterNew(call[s].typed_handle, password, clock)
             begun == BeginDailyBudget(created, DailyBudgetOutcome(created.last_call, clock))
             onboarded == FlagResetIfExpired(begun, PasswordExpiry, clock)
  <2>1. /\ call[s].slot = NoSlot
        /\ call'[s].base = created /\ call'[s].user = onboarded
        /\ call'[s].phase = "Onboarded"
        /\ \A t \in Sessions : t # s => call'[t] = call[t]
    BY <1>1, <1>3, UnboundPhases DEF CreateUser, AtProfile, IInv, TypeOK, Session
  <2>2. /\ clock \in Nat /\ PasswordExpiry \in Nat
    BY LimitsAssumption, Current
  <2>3. /\ created.password_last_updated = clock /\ ~ created.force_password_reset
        /\ created.force_password_reset = FALSE
    BY DEF RegisterNew
  <2>4. /\ begun.password_hash = created.password_hash
        /\ begun.force_password_reset = created.force_password_reset
        /\ begun.account_locked = created.account_locked
        /\ begun.invalid_attempts = created.invalid_attempts
        /\ begun.password_last_updated = created.password_last_updated
    BY DEF BeginDailyBudget, RegisterNew
  <2>5. onboarded = [begun EXCEPT !.force_password_reset = FALSE]
    <3>1. ~ (PasswordExpiry > 0 /\ clock - begun.password_last_updated > PasswordExpiry)
      BY <2>2, <2>3, <2>4
    <3>2. begun.force_password_reset = FALSE
      BY <2>3, <2>4
    <3>3. (begun.force_password_reset
             \/ (PasswordExpiry > 0
                   /\ clock - begun.password_last_updated > PasswordExpiry)) = FALSE
      BY <3>1, <3>2
    <3>4. onboarded = [begun EXCEPT !.force_password_reset =
                         begun.force_password_reset
                           \/ (PasswordExpiry > 0
                                 /\ clock - begun.password_last_updated > PasswordExpiry)]
      BY DEF FlagResetIfExpired
    <3> HIDE DEF begun, onboarded
    <3> QED
      BY <3>3, <3>4
  <2>6. /\ onboarded.password_hash = created.password_hash
        /\ onboarded.account_locked = created.account_locked
        /\ onboarded.invalid_attempts = created.invalid_attempts
        /\ onboarded.force_password_reset = FALSE
    <3>1. "force_password_reset" \in DOMAIN begun
      BY DEF BeginDailyBudget, RegisterNew
    <3> HIDE DEF created, begun, onboarded
    <3>2. /\ onboarded.password_hash = begun.password_hash
          /\ onboarded.account_locked = begun.account_locked
          /\ onboarded.invalid_attempts = begun.invalid_attempts
          /\ onboarded.force_password_reset = FALSE
      BY <2>5, <3>1
    <3> QED
      BY <2>4, <3>2
  <2> HIDE DEF onboarded, created
  <2>7. CredentialsSaved(call'[s])
    BY <2>1, <2>3, <2>6 DEF CredentialsSaved
  <2> QED
    BY <2>1, <2>7 DEF SavesNone
<1> QED
  BY <1>2, <1>3

LEMMA MenuSavesNone ==
    ASSUME IInv, SavedInv, NEW s \in Sessions, AtMenu(s)
    PROVE  SavesNone
<1> DEFINE user == call[s].user
<1>1. call[s] \in Session /\ user \in UserRecord /\ call[s].phase = "Menu"
  BY Current DEF Session, AtMenu, PostMail, ReadMail, ScanMail, ExplicitJoin, MenuIn
<1>2. ASSUME NEW edited, call' = [call EXCEPT ![s] = [call[s] EXCEPT !.user = edited]],
             edited.password_hash = user.password_hash,
             edited.force_password_reset = user.force_password_reset,
             edited.account_locked = user.account_locked,
             edited.invalid_attempts = user.invalid_attempts,
             edited.times_called_today = user.times_called_today
      PROVE  SavesNone
  <2> DEFINE next == [call[s] EXCEPT !.user = edited]
  <2>1. next.base = call[s].base /\ next.user = edited /\ next.phase = "Menu"
    BY <1>1 DEF Session
  <2> HIDE DEF next
  <2>2. SameDebt(call[s], next)
    BY <1>2, <2>1 DEF SameDebt
  <2>3. \A t \in Sessions : call'[t] = IF t = s THEN next ELSE call[t]
    BY <1>2 DEF IInv, TypeOK, next
  <2> QED
    BY <2>2, <2>3 DEF SavesNone
<1>3. PICK c \in Conferences :
        \/ PostMail(s, c) \/ ScanMail(s, c) \/ ExplicitJoin(s, c)
        \/ \E number \in 1 .. MaxMail : ReadMail(s, c, number)
  BY DEF AtMenu
<1>4. CASE PostMail(s, c)
  <2> DEFINE edited == [user EXCEPT !.messages_posted = @ + 1]
  <2>1. call' = [call EXCEPT ![s] = [call[s] EXCEPT !.user = edited]]
    BY <1>1, <1>4 DEF PostMail, IInv, TypeOK
  <2> QED
    BY <1>1, <1>2, <2>1 DEF UserRecord
<1>5. ASSUME NEW number, ReadMail(s, c, number) PROVE SavesNone
  <2> DEFINE edited == AdvanceLastRead(user, c, number)
  <2>1. call' = [call EXCEPT ![s] = [call[s] EXCEPT !.user = edited]]
    BY <1>5 DEF ReadMail, Becomes
  <2>2. /\ edited.password_hash = user.password_hash
        /\ edited.force_password_reset = user.force_password_reset
        /\ edited.account_locked = user.account_locked
        /\ edited.invalid_attempts = user.invalid_attempts
        /\ edited.times_called_today = user.times_called_today
    BY <1>1 DEF AdvanceLastRead, UserRecord
  <2> HIDE DEF edited
  <2> QED
    BY <1>2, <2>1, <2>2
<1>6. CASE ScanMail(s, c)
  <2> DEFINE edited == AdvanceLastScanned(user, c, highest[c])
  <2>1. call' = [call EXCEPT ![s] = [call[s] EXCEPT !.user = edited]]
    BY <1>6 DEF ScanMail, Becomes
  <2>2. /\ edited.password_hash = user.password_hash
        /\ edited.force_password_reset = user.force_password_reset
        /\ edited.account_locked = user.account_locked
        /\ edited.invalid_attempts = user.invalid_attempts
        /\ edited.times_called_today = user.times_called_today
    BY <1>1 DEF AdvanceLastScanned, UserRecord
  <2> HIDE DEF edited
  <2> QED
    BY <1>2, <2>1, <2>2
<1>7. CASE ExplicitJoin(s, c)
  <2> DEFINE edited == [user EXCEPT !.last_joined = c]
  <2>1. call' = [call EXCEPT ![s] = [call[s] EXCEPT !.user = edited]]
    BY <1>1, <1>7 DEF ExplicitJoin, Becomes
  <2> QED
    BY <1>1, <1>2, <2>1 DEF UserRecord
<1> QED
  BY <1>3, <1>4, <1>5, <1>6, <1>7

LEMMA AutoRejoinStores ==
    ASSUME IInv, SavedInv, NEW s \in Sessions, AutoRejoin(s)
    PROVE  SavedInv' /\ RebaseStored
<1> DEFINE user == call[s].user
           joined == [user EXCEPT !.last_joined = ResolveAutoRejoin(user)]
           held == [call[s] EXCEPT !.user = joined, !.rejoined = TRUE]
<1>1. PICK u \in Slots :
        /\ call[s].phase = "Onboarded" /\ call[s].slot = u
        /\ CASE user.granted = {} -> Becomes(s, LoggingOff(call[s]))
             [] user.granted # {} /\ joined.force_password_reset -> Becomes(s, held)
             [] OTHER -> EnterMenuAs(s, u, joined)
  BY DEF AutoRejoin
<1>2. call[s] \in Session /\ user \in UserRecord /\ user.granted \in SUBSET Conferences
  BY Current DEF Session, UserRecord
<1>3. CASE user.granted = {}
  BY <1>1, <1>2, <1>3, LeavingOwes, BecomesSavesNone, SavesNoneKeeps
<1>4. CASE user.granted # {}
  <2>1. ResolveAutoRejoin(user) \in user.granted
    BY <1>2, <1>4, FirstAccessibleGranted DEF ResolveAutoRejoin
  <2>2. /\ joined \in UserRecord /\ joined.last_joined # NoConference
        /\ joined.times_called = user.times_called
        /\ joined.times_called_today = user.times_called_today
        /\ joined.messages_posted = user.messages_posted
        /\ joined.password_hash = user.password_hash
        /\ joined.force_password_reset = user.force_password_reset
        /\ joined.account_locked = user.account_locked
        /\ joined.invalid_attempts = user.invalid_attempts
    BY <1>2, <2>1, ConferencesAssumption DEF UserRecord
  <2> HIDE DEF joined
  <2>3. CASE joined.force_password_reset
    <3>1. Becomes(s, held)
      BY <1>1, <1>4, <2>3
    <3>2. held.base = call[s].base /\ held.user = joined /\ held.phase = "Onboarded"
      BY <1>1, <1>2 DEF Session
    <3> HIDE DEF held
    <3>3. SameDebt(call[s], held)
      BY <1>1, <2>2, <3>2 DEF SameDebt
    <3> QED
      BY <3>1, <3>3, BecomesSavesNone, SavesNoneKeeps
  <2>4. CASE ~ joined.force_password_reset
    <3>1. EnterMenuAs(s, u, joined)
      BY <1>1, <1>4, <2>4
    <3> QED
      BY <1>1, <2>2, <2>4, <3>1, EnterMenuStores
  <2> QED
    BY <2>3, <2>4
<1> QED
  BY <1>3, <1>4

LEMMA EnterMenuAfterResetStores ==
    ASSUME IInv, SavedInv, NEW s \in Sessions, EnterMenuAfterReset(s)
    PROVE  SavedInv' /\ RebaseStored
<1>1. PICK u \in Slots :
        /\ call[s].phase = "Onboarded" /\ call[s].rejoined
        /\ ~ call[s].user.force_password_reset /\ call[s].slot = u
        /\ EnterMenuAs(s, u, call[s].user)
  BY DEF EnterMenuAfterReset
<1>2. /\ call[s].user \in UserRecord
      /\ call[s].user.last_joined \in call[s].user.granted
  BY <1>1, Current DEF Session, SessionSound
<1>3. call[s].user.last_joined # NoConference
  BY <1>2, ConferencesAssumption DEF UserRecord
<1> QED
  BY <1>1, <1>2, <1>3, EnterMenuStores

LEMMA NextStores == IInv /\ SavedInv /\ [Next]_vars => SavedInv' /\ RebaseStored
<1> SUFFICES ASSUME IInv, SavedInv, [Next]_vars PROVE SavedInv' /\ RebaseStored
  OBVIOUS
<1>1. ASSUME NEW s \in Sessions, SignIn(s) PROVE SavedInv' /\ RebaseStored
  <2>1. ASSUME NEW line, VerifyPassword(s, line) PROVE SavedInv' /\ RebaseStored
    <3>1. PICK u \in Slots :
            /\ call[s].phase = "Authenticating" /\ call[s].slot = u
            /\ ApplyPasswordMatch(s, u) \/ ApplyPasswordMismatch(s, u)
      BY <2>1 DEF VerifyPassword
    <3> QED
      BY <3>1, MatchStores, MismatchStores
  <2>2. \/ \E line \in Passwords : VerifyPassword(s, line)
        \/ AutoRejoin(s) \/ EnterMenuAfterReset(s)
        \/ \E password \in Passwords : CompletePasswordReset(s, password)
        \/ SavesNone
    BY <1>1, PromptsSaveNone, BindingSavesNone DEF SignIn
  <2> QED
    BY <2>1, <2>2, AutoRejoinStores, EnterMenuAfterResetStores, ResetStores,
       SavesNoneKeeps
<1>2. ASSUME NEW s \in Sessions, AtMenu(s) \/ LeaveCall(s) \/ StoreFails(s)
      PROVE  SavedInv' /\ RebaseStored
  BY <1>2, MenuSavesNone, PromptsSaveNone, SavesNoneKeeps
<1>3. ASSUME NEW s \in Sessions, FinaliseLogoff(s) PROVE SavedInv' /\ RebaseStored
  <2>1. \A t \in Sessions : call'[t] = IF t = s THEN NoCall ELSE call[t]
    BY <1>3 DEF FinaliseLogoff, Becomes, IInv, TypeOK
  <2> QED
    BY <2>1, SavesNoneKeeps DEF SavesNone
<1>4. ASSUME NEW s \in Sessions, Connect(s) PROVE SavedInv' /\ RebaseStored
  <2> DEFINE next == [call[s] EXCEPT !.phase = "Connecting"]
  <2>1. \A t \in Sessions : call'[t] = IF t = s THEN next ELSE call[t]
    BY <1>4 DEF Connect, IInv, TypeOK
  <2>2. SameDebt(call[s], next)
    BY Current DEF SameDebt, Session
  <2> QED
    BY <2>1, <2>2, SavesNoneKeeps DEF SavesNone
<1>5. CASE Crash
  BY <1>5, SavesNoneKeeps DEF Crash, SavesNone
<1>6. CASE Tick \/ UNCHANGED vars
  BY <1>6, SavesNoneKeeps DEF Tick, vars, SavesNone
<1> QED
  BY <1>1, <1>2, <1>3, <1>4, <1>5, <1>6 DEF Next, SignOff

LEMMA SavedInit == Init => SavedInv
BY DEF Init, SavedInv, CredentialsSaved, NoCall

\* Whatever a session drops from its debt to the table, the table has, under
\* every interleaving with the writes of other calls of the account; the one
\* change the code forgets, the last_joined of a call that completes a reset,
\* is exempted in the statement.
THEOREM SavesAreStored == Spec => WhatIsSavedIsStored
<1> DEFINE Stores ==
      \A s \in Sessions, u \in Slots : call[s].slot = u =>
        /\ call'[s].slot = u /\ call'[s].base # call[s].base =>
             Stored(call[s].base, call'[s].base, store[u], store'[u])
        /\ FinaliseLogoff(s) =>
             Stored(call[s].base, [call[s].user EXCEPT !.last_call = clock],
                    store[u], store'[u])
<1>1. IInv /\ SavedInv /\ [Next]_vars => IInv' /\ SavedInv' /\ Stores
  <2> SUFFICES ASSUME IInv, SavedInv, [Next]_vars PROVE IInv' /\ SavedInv' /\ Stores
    OBVIOUS
  <2>1. IInv' /\ SavedInv' /\ RebaseStored
    BY NextKeeps, NextStores
  <2> QED
    BY <2>1, FinaliseStores DEF RebaseStored
<1>2. IInv /\ SavedInv /\ [Next]_vars => [Stores]_vars
  BY <1>1
<1>3. Spec => [][Stores]_vars
  <2> HIDE DEF Stores
  <2> QED
    BY <1>1, <1>2, InitSound, SavedInit, PTL DEF Spec
<1> QED
  BY <1>3 DEF WhatIsSavedIsStored

----------------------------------------------------------------------------
(* AccountSessions implements AccountLedger: every step of a session is a
   step of the ledger or leaves the ledger alone, for every number of calls,
   accounts and conferences.                                               *)

----------------------------------------------------------------------------
(* The mapping.                                                            *)

accounts == [u \in Slots |-> LedgerAccount(store[u])]
entries == [s \in Sessions |-> LedgerEntry(call[s])]

LEMMA LedgerInit == Init => Ledger!Init
<1> SUFFICES ASSUME Init PROVE Ledger!Init
  OBVIOUS
<1>1. \A u \in Slots : store[u] \in UserRecord
  BY SeedAssumption DEF Init
<1>2. ASSUME NEW row \in UserRecord
      PROVE  LedgerAccount(row) \in Ledger!Account
  BY DEF LedgerAccount, Ledger!Account, UserRecord
<1>3. LedgerEntry(NoCall) = Ledger!Out
  <2>1. /\ NoCall.slot = NoSlot /\ NoCall.user = Blank /\ NoCall.base = Blank
        /\ Blank.messages_posted \in Nat
    BY BlankType DEF NoCall, UserRecord
  <2> QED
    BY <2>1 DEF LedgerEntry, LedgerStage, Ledger!Out
<1>4. accounts \in [Slots -> Ledger!Account]
  BY <1>1, <1>2 DEF accounts
<1>5. entries = [s \in Sessions |-> Ledger!Out]
  BY <1>3 DEF entries, Init
<1> QED
  BY <1>4, <1>5 DEF Ledger!Init, accounts, entries

LEMMA EntryMoves ==
    ASSUME IInv, NEW s \in Sessions, NEW next, call' = [call EXCEPT ![s] = next]
    PROVE  /\ entries' = [entries EXCEPT ![s] = LedgerEntry(next)]
           /\ entries[s] = LedgerEntry(call[s])
<1>1. call \in [Sessions -> Session]
  BY DEF IInv, TypeOK
<1> QED
  BY <1>1 DEF entries

LEMMA AccountMoves ==
    ASSUME IInv, NEW u \in Slots, NEW row, store' = [store EXCEPT ![u] = row]
    PROVE  /\ accounts' = [accounts EXCEPT ![u] = LedgerAccount(row)]
           /\ accounts[u] = LedgerAccount(store[u])
<1>1. store \in [Slots -> UserRecord]
  BY DEF IInv, TypeOK
<1> QED
  BY <1>1 DEF accounts

LEMMA AccountOf ==
    ASSUME NEW row \in UserRecord
    PROVE  /\ LedgerAccount(row) \in Ledger!Account
           /\ LedgerAccount(row).times_called = row.times_called
           /\ LedgerAccount(row).messages_posted = row.messages_posted
           /\ LedgerAccount(row).invalid_attempts = row.invalid_attempts
           /\ LedgerAccount(row).account_locked = row.account_locked
           /\ LedgerAccount(row).last_call = row.last_call
           /\ LedgerAccount(row).last_read = row.last_read
           /\ LedgerAccount(row).last_scanned = row.last_scanned
BY DEF LedgerAccount, Ledger!Account, UserRecord

\* What the invariant says of the entry of a call.
LEMMA EntryOf ==
    ASSUME IInv, NEW s \in Sessions
    PROVE  /\ entries[s] = LedgerEntry(call[s])
           /\ entries[s].slot = call[s].slot
           /\ entries[s].posted \in Nat
           /\ entries[s].posted
                = call[s].user.messages_posted - call[s].base.messages_posted
           /\ call[s].phase \in {"Authenticating", "Onboarded"} =>
                entries[s] = [slot |-> call[s].slot, stage |-> "bound", posted |-> 0]
           /\ call[s].phase = "Menu" => entries[s].stage = "online"
           /\ call[s].slot = NoSlot =>
                entries[s] = Ledger!Out /\ entries[s].stage = "out"
           /\ call[s].slot # NoSlot /\ call[s].phase = "LoggingOff"
                => entries[s].stage = "leaving"
           /\ call[s].slot # NoSlot /\ call[s].phase # "LoggingOff"
                => entries[s].stage \in {"bound", "online"}
<1>1. entries[s] = LedgerEntry(call[s])
  BY DEF entries
<1>2. /\ call[s].user.messages_posted \in Nat /\ call[s].base.messages_posted \in Nat
      /\ call[s].user.messages_posted >= call[s].base.messages_posted
      /\ call[s].slot = NoSlot => call[s].user = call[s].base
      /\ call[s].phase \in {"Authenticating", "Onboarded"} =>
           /\ call[s].user.messages_posted = call[s].base.messages_posted
           /\ call[s].slot # NoSlot
      /\ call[s].phase = "Menu" => call[s].slot # NoSlot
  BY Current DEF Session, UserRecord, SessionSound, Ahead, NothingDone
<1> QED
  BY <1>1, <1>2 DEF LedgerEntry, LedgerStage, Ledger!Out

----------------------------------------------------------------------------
(* Steps the ledger does not see, and those that only touch an entry.      *)

Silent == UNCHANGED <<accounts, entries>>

\* A session that keeps its account, its stage and its posts.
LEMMA SilentMove ==
    ASSUME IInv, NEW s \in Sessions, NEW next \in Session,
           call' = [call EXCEPT ![s] = next], UNCHANGED store,
           LedgerEntry(next) = LedgerEntry(call[s])
    PROVE  Silent
<1>1. entries' = entries
  BY EntryMoves DEF entries
<1>2. accounts' = accounts
  BY DEF accounts
<1> QED
  BY <1>1, <1>2 DEF Silent

\* In particular a call that is bound to no account.
LEMMA SilentOut ==
    ASSUME IInv, NEW s \in Sessions, NEW next \in Session, SessionSound(next),
           call' = [call EXCEPT ![s] = next], UNCHANGED store,
           call[s].slot = NoSlot, next.slot = NoSlot
    PROVE  Silent
<1>1. /\ next.user = next.base /\ next.user \in UserRecord
      /\ call[s].user = call[s].base /\ call[s].user \in UserRecord
  BY Current DEF SessionSound, Session
<1>2. LedgerEntry(next) = LedgerEntry(call[s])
  BY <1>1 DEF LedgerEntry, LedgerStage, UserRecord
<1> QED
  BY <1>2, SilentMove

LEMMA LosesEntry ==
    ASSUME IInv, NEW s \in Sessions, call' = [call EXCEPT ![s] = NoCall],
           UNCHANGED store
    PROVE  Ledger!Lose({s})
<1>1. LedgerEntry(NoCall) = Ledger!Out
  <2>1. NoCall.user = Blank /\ NoCall.base = Blank /\ NoCall.slot = NoSlot
        /\ Blank.messages_posted \in Nat
    BY BlankType DEF NoCall, UserRecord
  <2> QED
    BY <2>1 DEF LedgerEntry, LedgerStage, Ledger!Out
<1>2. entries' = [entries EXCEPT ![s] = Ledger!Out]
  BY <1>1, EntryMoves
<1>3. entries' = [r \in Sessions |-> IF r \in {s} THEN Ledger!Out ELSE entries[r]]
  BY <1>2 DEF entries
<1>4. accounts' = accounts
  BY DEF accounts
<1> QED
  BY <1>3, <1>4 DEF Ledger!Lose, accounts, entries

\* A call that turns to logging off leaves; without an account it is silent.
LEMMA LeavesEntry ==
    ASSUME IInv, NEW s \in Sessions, call[s].phase # "LoggingOff",
           Becomes(s, LoggingOff(call[s]))
    PROVE  Silent \/ Ledger!Leave(s)
<1> DEFINE next == LoggingOff(call[s])
<1>1. /\ next \in Session /\ SessionSound(next) /\ next.slot = call[s].slot
      /\ call' = [call EXCEPT ![s] = next] /\ UNCHANGED store
  BY Current, LoggingOffSound DEF Becomes
<1>2. /\ next.phase = "LoggingOff" /\ next.user = call[s].user
      /\ next.base = call[s].base
  BY Current DEF LoggingOff, Session
<1> HIDE DEF next
<1>3. CASE call[s].slot = NoSlot
  BY <1>1, <1>3, SilentOut
<1>4. CASE call[s].slot # NoSlot
  <2>1. LedgerEntry(next) = [entries[s] EXCEPT !.stage = "leaving"]
    <3> DEFINE posted == call[s].user.messages_posted - call[s].base.messages_posted
               stage == LedgerStage(call[s])
    <3>1. LedgerStage(next) = "leaving"
      BY <1>1, <1>2, <1>4 DEF LedgerStage
    <3>2. LedgerEntry(next)
            = [slot |-> call[s].slot, stage |-> "leaving", posted |-> posted]
      BY <1>1, <1>2, <3>1 DEF LedgerEntry
    <3>3. entries[s] = [slot |-> call[s].slot, stage |-> stage, posted |-> posted]
      BY EntryOf DEF LedgerEntry
    <3> HIDE DEF posted, stage
    <3> QED
      BY <3>2, <3>3
  <2>2. entries[s].stage \in {"bound", "online"}
    BY <1>4, EntryOf
  <2>3. entries' = [entries EXCEPT ![s].stage = "leaving"]
    BY <1>1, <2>1, EntryMoves
  <2>4. accounts' = accounts
    BY <1>1 DEF accounts
  <2> QED
    BY <2>2, <2>3, <2>4 DEF Ledger!Leave, accounts, entries
<1> QED
  BY <1>3, <1>4

----------------------------------------------------------------------------
(* The steps of a call, one by one.                                        *)

LStep == Silent \/ Ledger!Next

LEMMA LeavesLedger ==
    ASSUME IInv, NEW s \in Sessions,
           \/ call[s].phase # "LoggingOff" /\ Becomes(s, LoggingOff(call[s]))
           \/ Becomes(s, NoCall)
    PROVE  LStep
<1>1. CASE call[s].phase # "LoggingOff" /\ Becomes(s, LoggingOff(call[s]))
  BY <1>1, LeavesEntry DEF LStep, Ledger!Next
<1>2. CASE Becomes(s, NoCall)
  <2>1. Ledger!Lose({s})
    BY <1>2, LosesEntry DEF Becomes
  <2> QED
    BY <2>1 DEF LStep, Ledger!Next
<1> QED
  BY <1>1, <1>2

\* A failure more at a prompt.
LEMMA StrikeLedger ==
    ASSUME IInv, NEW s \in Sessions, Becomes(s, [call[s] EXCEPT !.strikes = @ + 1])
    PROVE  LStep
<1> DEFINE next == [call[s] EXCEPT !.strikes = @ + 1]
<1>1. /\ next \in Session /\ next.slot = call[s].slot /\ next.phase = call[s].phase
      /\ next.user = call[s].user /\ next.base = call[s].base
  BY Current DEF Session
<1>2. call' = [call EXCEPT ![s] = next] /\ UNCHANGED store
  BY DEF Becomes
<1> HIDE DEF next
<1>3. LedgerEntry(next) = LedgerEntry(call[s])
  BY <1>1 DEF LedgerEntry, LedgerStage
<1> QED
  BY <1>1, <1>2, <1>3, SilentMove DEF LStep

\* Steps of a call without an account, before and after which it has none.
LEMMA UnboundLedger ==
    ASSUME IInv, IInv', NEW s \in Sessions, call[s].slot = NoSlot,
           NEW next, next.slot = NoSlot,
           call' = [call EXCEPT ![s] = next], UNCHANGED store
    PROVE  LStep
<1>1. call'[s] = next
  BY DEF IInv, TypeOK
<1>2. next \in Session
  BY <1>1 DEF IInv, TypeOK
<1>3. SessionSound(next)
  BY <1>1 DEF IInv, SessionSound, StrikeLimit
<1> QED
  BY <1>2, <1>3, SilentOut DEF LStep

LEMMA PromptLedger ==
    ASSUME IInv, IInv', NEW s \in Sessions,
           \/ Connect(s) \/ PromptForName(s) \/ RecordUnknownName(s)
           \/ RecordNewUserRequest(s) \/ RefuseHandle(s) \/ RegistrationFails(s)
           \/ \E matches \in BOOLEAN : ApplyNewUserPasswordAttempt(s, matches)
           \/ \E handle \in Handles : ReadHandle(s, handle)
    PROVE  LStep
<1>1. call[s].slot = NoSlot
  BY Current DEF SessionSound, Connect, PromptForName, RecordUnknownName,
     RecordNewUserRequest, RefuseHandle, RegistrationFails, AtProfile,
     ApplyNewUserPasswordAttempt, ReadHandle
<1>2. /\ call[s] \in Session /\ NoCall.slot = NoSlot
      /\ LoggingOff(call[s]).slot = NoSlot
  BY <1>1, Current, LoggingOffSound, NoCallSound
<1>3. UNCHANGED store
  BY DEF Connect, PromptForName, RecordUnknownName, RecordNewUserRequest,
     RefuseHandle, RegistrationFails, ApplyNewUserPasswordAttempt, ReadHandle, Becomes
<1>4. \E next : next.slot = NoSlot /\ call' = [call EXCEPT ![s] = next]
  <2>1. CASE Connect(s)
    BY <1>1, <1>2, <2>1 DEF Connect, Session
  <2>2. CASE PromptForName(s)
    BY <1>1, <1>2, <2>2 DEF PromptForName, Becomes, Session
  <2>3. CASE RecordUnknownName(s)
    BY <1>1, <1>2, <2>3 DEF RecordUnknownName, Becomes, Session
  <2>4. CASE RecordNewUserRequest(s)
    BY <1>1, <1>2, <2>4 DEF RecordNewUserRequest, Becomes, Session
  <2>5. CASE RefuseHandle(s)
    BY <1>1, <1>2, <2>5 DEF RefuseHandle, Becomes, Session
  <2>6. CASE RegistrationFails(s)
    BY <1>1, <1>2, <2>6 DEF RegistrationFails, Becomes
  <2>7. ASSUME NEW matches \in BOOLEAN, ApplyNewUserPasswordAttempt(s, matches)
        PROVE  \E next : next.slot = NoSlot /\ call' = [call EXCEPT ![s] = next]
    <3>1. CASE matches
      BY <1>1, <1>2, <2>7, <3>1 DEF ApplyNewUserPasswordAttempt, Becomes, Session
    <3>2. CASE ~ matches
      <4>1. \/ Becomes(s, LoggingOff(call[s]))
            \/ Becomes(s, [call[s] EXCEPT !.strikes = @ + 1])
        BY <2>7, <3>2 DEF ApplyNewUserPasswordAttempt
      <4> QED
        BY <1>1, <1>2, <4>1 DEF Becomes, Session
    <3> QED
      BY <3>1, <3>2
  <2>8. ASSUME NEW handle \in Handles, ReadHandle(s, handle)
        PROVE  \E next : next.slot = NoSlot /\ call' = [call EXCEPT ![s] = next]
    BY <1>1, <1>2, <2>8 DEF ReadHandle, Becomes, Session
  <2> QED
    BY <2>1, <2>2, <2>3, <2>4, <2>5, <2>6, <2>7, <2>8
<1> QED
  BY <1>1, <1>3, <1>4, UnboundLedger

\* A call at a fresh baseline of account u has a bound, empty entry.
LEMMA BoundEntry ==
    ASSUME NEW next, NEW u \in Slots, next.slot = u,
           next.phase \notin {"Menu", "LoggingOff"},
           next.user.messages_posted = next.base.messages_posted,
           next.user.messages_posted \in Nat
    PROVE  LedgerEntry(next) = [slot |-> u, stage |-> "bound", posted |-> 0]
<1>1. u # NoSlot
  BY SlotsAssumption
<1>2. LedgerStage(next) = "bound"
  BY <1>1 DEF LedgerStage
<1> QED
  BY <1>2 DEF LedgerEntry

LEMMA RecordIdentifiedUserLedger ==
    ASSUME IInv, NEW s \in Sessions, NEW u \in Slots, RecordIdentifiedUser(s, u)
    PROVE  LStep
<1> DEFINE next == [call[s] EXCEPT !.phase = "Authenticating", !.slot = u,
                                   !.user = store[u], !.base = store[u],
                                   !.strikes = 0]
<1>1. /\ next.phase = "Authenticating" /\ next.slot = u
      /\ next.user = store[u] /\ next.base = store[u]
      /\ store[u].messages_posted \in Nat
  BY Current DEF Session, UserRecord
<1>2. call' = [call EXCEPT ![s] = next] /\ store' = store
      /\ call[s].slot = NoSlot
  BY Current DEF RecordIdentifiedUser, Becomes, SessionSound
<1> HIDE DEF next
<1>3. LedgerEntry(next) = [slot |-> u, stage |-> "bound", posted |-> 0]
  BY <1>1, BoundEntry
<1>4. entries' = [entries EXCEPT ![s] = [slot |-> u, stage |-> "bound", posted |-> 0]]
  BY <1>2, <1>3, EntryMoves
<1>5. entries[s].stage = "out"
  BY <1>2, EntryOf
<1>6. accounts' = [accounts EXCEPT ![u].last_call = accounts'[u].last_call]
  BY <1>2 DEF accounts, LedgerAccount
<1>7. Ledger!Open(s, u)
  BY <1>4, <1>5, <1>6 DEF Ledger!Open, accounts, entries
<1> QED
  BY <1>7 DEF LStep, Ledger!Next

LEMMA CreateUserLedger ==
    ASSUME IInv, NEW s \in Sessions, NEW u \in Slots, NEW password \in Passwords,
           CreateUser(s, u, password)
    PROVE  LStep
<1> DEFINE created == RegisterNew(call[s].typed_handle, password, clock)
           daily == DailyBudgetOutcome(created.last_call, clock)
           admitted == FlagResetIfExpired(BeginDailyBudget(created, daily),
                                          PasswordExpiry, clock)
           next == [call[s] EXCEPT !.phase = "Onboarded", !.slot = u,
                                   !.base = created, !.user = admitted,
                                   !.strikes = 0, !.gate_verified = FALSE,
                                   !.typed_handle = NoHandle]
<1>1. /\ call[s] \in Session /\ call[s].slot = NoSlot /\ clock \in Nat
      /\ call[s].typed_handle \in Handles \cup {NoHandle}
  BY Current DEF CreateUser, AtProfile, SessionSound, Session
<1>2. /\ store' = [store EXCEPT ![u] = created]
      /\ call' = [call EXCEPT ![s] = next]
      /\ IsFree(store[u])
  BY ONLY SlotsAssumption, u \in Slots, CreateUser(s, u, password)
     DEF CreateUser, NextSlot
<1>3. /\ created \in UserRecord /\ ReadInOrder(created) /\ ~ IsLockedOut(created)
      /\ created.messages_posted = 0
  <2>1. created \in UserRecord
    BY <1>1, RegisterType
  <2> QED
    BY <2>1 DEF RegisterNew, ReadInOrder, IsLockedOut
<1>4. daily \in {"NewDay", "SameDay"}
  BY OutcomeType
<1>5. LedgerAccount(created) = [LedgerAccount(store[u]) EXCEPT !.last_call = clock]
  <2>1. store[u] = Blank
    BY <1>2, Current DEF RowSound
  <2>2. /\ created.times_called = Blank.times_called
        /\ created.messages_posted = Blank.messages_posted
        /\ created.invalid_attempts = Blank.invalid_attempts
        /\ created.account_locked = Blank.account_locked
        /\ created.last_call = clock
        /\ created.last_read = Blank.last_read
        /\ created.last_scanned = Blank.last_scanned
    BY DEF Blank, RegisterNew
  <2> DEFINE after == LedgerAccount(created)
             before == LedgerAccount(Blank)
  <2>3. /\ after \in Ledger!Account /\ before \in Ledger!Account
        /\ after.times_called = before.times_called
        /\ after.messages_posted = before.messages_posted
        /\ after.invalid_attempts = before.invalid_attempts
        /\ after.account_locked = before.account_locked
        /\ after.last_call = clock
        /\ after.last_read = before.last_read
        /\ after.last_scanned = before.last_scanned
    <3> HIDE DEF created
    <3> QED
      BY <1>3, <2>2, BlankType, AccountOf
  <2> HIDE DEF after, before
  <2>4. after = [before EXCEPT !.last_call = clock]
    BY <1>1, <2>3 DEF Ledger!Account
  <2> QED
    BY <2>1, <2>4 DEF after, before
<1> HIDE DEF created, daily
<1>6. NothingDone(created, admitted) /\ admitted \in UserRecord
  BY <1>3, <1>4, AdmittedSound
<1>7. /\ next.phase = "Onboarded" /\ next.slot = u
      /\ next.base = created /\ next.user = admitted
  BY <1>1 DEF Session
<1> HIDE DEF admitted, next
<1>8. LedgerEntry(next) = [slot |-> u, stage |-> "bound", posted |-> 0]
  BY <1>3, <1>6, <1>7, BoundEntry DEF NothingDone
<1>9. entries' = [entries EXCEPT ![s] = [slot |-> u, stage |-> "bound", posted |-> 0]]
  BY <1>2, <1>8, EntryMoves
<1>10. entries[s].stage = "out"
  BY <1>1, EntryOf
<1>11. accounts' = [accounts EXCEPT ![u].last_call = clock]
  BY <1>2, <1>5, AccountMoves
<1>12. accounts' = [accounts EXCEPT ![u].last_call = accounts'[u].last_call]
  <2>1. accounts'[u].last_call = clock
    BY <1>11 DEF accounts, LedgerAccount
  <2> QED
    BY <1>11, <2>1
<1>13. Ledger!Open(s, u)
  BY <1>9, <1>10, <1>12 DEF Ledger!Open, accounts, entries
<1> QED
  BY <1>13 DEF LStep, Ledger!Next

\* An outcome moves the counter of failures and the lock, nothing else.
LEMMA OutcomeLedger ==
    ASSUME NEW row \in UserRecord, NEW daily \in {"NewDay", "SameDay", "None"},
           NEW force \in BOOLEAN, NEW lock \in BOOLEAN
    PROVE  /\ LedgerAccount(ApplyAuthOutcome(AuthMatched(daily, force), row))
                = [LedgerAccount(row) EXCEPT !.invalid_attempts = 0]
           /\ LedgerAccount(ApplyAuthOutcome(AuthMismatched(lock), row))
                = [LedgerAccount(row) EXCEPT !.invalid_attempts = @ + 1,
                                             !.account_locked = @ \/ lock]
<1> DEFINE matched == ApplyAuthOutcome(AuthMatched(daily, force), row)
           mismatched == ApplyAuthOutcome(AuthMismatched(lock), row)
<1>1. /\ matched.times_called = row.times_called
      /\ matched.messages_posted = row.messages_posted
      /\ matched.invalid_attempts = 0
      /\ matched.account_locked = row.account_locked
      /\ matched.last_call = row.last_call
      /\ matched.last_read = row.last_read
      /\ matched.last_scanned = row.last_scanned
  BY DEF ApplyAuthOutcome, AuthMatched, UserRecord
<1>2. /\ mismatched.times_called = row.times_called
      /\ mismatched.messages_posted = row.messages_posted
      /\ mismatched.invalid_attempts = row.invalid_attempts + 1
      /\ mismatched.last_call = row.last_call
      /\ mismatched.last_read = row.last_read
      /\ mismatched.last_scanned = row.last_scanned
  BY DEF ApplyAuthOutcome, AuthMismatched, UserRecord
<1> DEFINE locked == row.account_locked \/ lock
           before == LedgerAccount(row)
           good == LedgerAccount(matched)
           bad == LedgerAccount(mismatched)
<1>3. mismatched.account_locked = locked
  BY DEF ApplyAuthOutcome, AuthMismatched, UserRecord
<1>4. matched \in UserRecord /\ mismatched \in UserRecord
  BY MatchedType, MismatchedType
<1>5. before.account_locked = row.account_locked
  BY AccountOf
<1>6. locked \in BOOLEAN
  OBVIOUS
<1> HIDE DEF matched, mismatched, locked
<1>7. /\ before \in Ledger!Account /\ good \in Ledger!Account
      /\ good.times_called = before.times_called
      /\ good.messages_posted = before.messages_posted
      /\ good.invalid_attempts = 0
      /\ good.account_locked = before.account_locked
      /\ good.last_call = before.last_call
      /\ good.last_read = before.last_read
      /\ good.last_scanned = before.last_scanned
  BY <1>1, <1>4, AccountOf
<1>8. /\ bad \in Ledger!Account
      /\ bad.times_called = before.times_called
      /\ bad.messages_posted = before.messages_posted
      /\ bad.invalid_attempts = before.invalid_attempts + 1
      /\ bad.account_locked = locked
      /\ bad.last_call = before.last_call
      /\ bad.last_read = before.last_read
      /\ bad.last_scanned = before.last_scanned
  BY <1>2, <1>3, <1>4, AccountOf
<1> HIDE DEF before, good, bad
<1>9. good = [before EXCEPT !.invalid_attempts = 0]
  BY <1>7 DEF Ledger!Account
<1>10. bad = [before EXCEPT !.invalid_attempts = before.invalid_attempts + 1,
                            !.account_locked = locked]
  <2> SUFFICES ASSUME NEW flag \in BOOLEAN, bad.account_locked = flag
               PROVE  bad = [before EXCEPT
                               !.invalid_attempts = before.invalid_attempts + 1,
                               !.account_locked = flag]
    BY <1>6, <1>8
  <2> QED
    BY <1>7, <1>8 DEF Ledger!Account
<1> QED
  BY <1>5, <1>9, <1>10, Zenon DEF matched, mismatched, locked, before, good, bad

\* What a judged password does to the account.
Judged(before, after) ==
    \/ after = [before EXCEPT !.invalid_attempts = 0]
    \/ \E lock \in BOOLEAN :
         after = [before EXCEPT !.invalid_attempts = @ + 1,
                                !.account_locked = @ \/ lock]

\* A judged password: the row takes one of the two changes of the ledger and
\* the session starts from it with nothing pending.
LEMMA JudgeStep ==
    ASSUME IInv, NEW s \in Sessions, NEW u \in Slots,
           call[s].phase = "Authenticating", call[s].slot = u,
           NEW moved, moved.slot = u, moved.user \in UserRecord,
           moved.base = moved.user, moved.phase \notin {"Menu"},
           NEW row, Judged(LedgerAccount(store[u]), LedgerAccount(row)),
           store' = [store EXCEPT ![u] = row],
           call' = [call EXCEPT ![s] = moved]
    PROVE  Ledger!Judge(s, u)
<1>1. PICK stage \in {"bound", "leaving"} :
        LedgerEntry(moved) = [slot |-> u, stage |-> stage, posted |-> 0]
  <2>1. moved.user.messages_posted - moved.base.messages_posted = 0
    <3>1. ASSUME NEW user \in UserRecord
          PROVE  user.messages_posted - user.messages_posted = 0
      BY DEF UserRecord
    <3> QED
      BY <3>1, Zenon
  <2>2. LedgerStage(moved) \in {"bound", "leaving"}
    BY SlotsAssumption DEF LedgerStage
  <2> QED
    BY <2>1, <2>2 DEF LedgerEntry
<1>2. entries[s] = [slot |-> u, stage |-> "bound", posted |-> 0]
  BY EntryOf
<1>3. [entries[s] EXCEPT !.stage = stage] = [slot |-> u, stage |-> stage, posted |-> 0]
  BY <1>2
<1>4. entries' = [entries EXCEPT ![s].stage = stage]
  <2>1. entries' = [entries EXCEPT ![s] = LedgerEntry(moved)]
    BY EntryMoves
  <2> QED
    BY <1>1, <1>3, <2>1, Zenon
<1>5. /\ accounts' = [accounts EXCEPT ![u] = LedgerAccount(row)]
      /\ accounts[u] = LedgerAccount(store[u])
  BY AccountMoves
<1>6. \/ accounts' = [accounts EXCEPT ![u].invalid_attempts = 0]
      \/ \E lock \in BOOLEAN :
           accounts' = [accounts EXCEPT ![u].invalid_attempts = @ + 1,
                                        ![u].account_locked = @ \/ lock]
  BY <1>5, Zenon DEF Judged
<1>7. entries[s].slot = u /\ entries[s].stage = "bound"
  BY <1>2
<1> QED
  BY <1>4, <1>6, <1>7, Zenon DEF Ledger!Judge, accounts, entries

LEMMA MatchLedger ==
    ASSUME IInv, NEW s \in Sessions, NEW u \in Slots,
           call[s].phase = "Authenticating", call[s].slot = u,
           ApplyPasswordMatch(s, u)
    PROVE  Ledger!Judge(s, u)
<1> DEFINE cleared == [call[s].user EXCEPT !.invalid_attempts = 0]
           daily == DailyBudgetOutcome(cleared.last_call, clock)
           admitted == FlagResetIfExpired(BeginDailyBudget(cleared, daily),
                                          PasswordExpiry, clock)
           onboarded == [call[s] EXCEPT !.phase = "Onboarded", !.strikes = 0]
<1>1. store[u] \in UserRecord /\ call[s] \in Session /\ call[s].user \in UserRecord
  BY Current DEF Session
<1>2. cleared \in UserRecord
  BY <1>1 DEF UserRecord
<1>3. admitted \in UserRecord /\ daily \in {"NewDay", "SameDay", "None"}
  <2>1. daily \in {"NewDay", "SameDay"}
    BY OutcomeType
  <2>2. BeginDailyBudget(cleared, daily) \in UserRecord
    BY <1>2, <2>1, DailyType
  <2> QED
    BY <2>1, <2>2, FlagType
<1>4. PICK kind \in {"NewDay", "SameDay", "None"}, force \in BOOLEAN,
           next \in {LoggingOff(call[s]), onboarded}, user \in UserRecord :
        Persist(s, u, ApplyAuthOutcome(AuthMatched(kind, force), store[u]), next, user)
  <2>1. /\ cleared.force_password_reset \in BOOLEAN
        /\ admitted.force_password_reset \in BOOLEAN
    BY <1>2, <1>3 DEF UserRecord
  <2>2. CASE IsLockedOut(cleared)
    <3>1. Persist(s, u, ApplyAuthOutcome(
                    AuthMatched("None", cleared.force_password_reset), store[u]),
                  LoggingOff(call[s]), cleared)
      BY <2>2, Zenon DEF ApplyPasswordMatch
    <3> HIDE DEF cleared
    <3> QED
      BY <1>2, <2>1, <3>1
  <2>3. CASE ~ IsLockedOut(cleared)
    <3>1. Persist(s, u, ApplyAuthOutcome(
                    AuthMatched(daily, admitted.force_password_reset), store[u]),
                  onboarded, admitted)
      BY <2>3, Zenon DEF ApplyPasswordMatch
    <3> HIDE DEF admitted, daily, onboarded
    <3> QED
      BY <1>3, <2>1, <3>1
  <2> QED
    BY <2>2, <2>3
<1> DEFINE moved == [next EXCEPT !.slot = u, !.user = user, !.base = user]
           row == ApplyAuthOutcome(AuthMatched(kind, force), store[u])
<1>5. /\ moved.slot = u /\ moved.user = user /\ moved.base = user
      /\ moved.phase \in {"LoggingOff", "Onboarded"}
  BY <1>1 DEF LoggingOff, Session
<1>6. /\ store' = [store EXCEPT ![u] = row]
      /\ call' = [call EXCEPT ![s] = moved]
  BY <1>4 DEF Persist
<1>7. LedgerAccount(row) = [LedgerAccount(store[u]) EXCEPT !.invalid_attempts = 0]
  BY <1>1, OutcomeLedger
<1> HIDE DEF moved, row
<1> QED
  <2>1. Judged(LedgerAccount(store[u]), LedgerAccount(row))
    BY <1>7, Zenon DEF Judged
  <2> QED
    BY <1>4, <1>5, <1>6, <2>1, JudgeStep

LEMMA MismatchLedger ==
    ASSUME IInv, NEW s \in Sessions, NEW u \in Slots,
           call[s].phase = "Authenticating", call[s].slot = u,
           ApplyPasswordMismatch(s, u)
    PROVE  Ledger!Judge(s, u)
<1> DEFINE bumped == [call[s].user EXCEPT !.invalid_attempts = @ + 1]
           strikes == call[s].strikes + 1
           decision == PasswordFailureDecision(bumped.invalid_attempts, strikes)
           locked == [bumped EXCEPT !.account_locked = TRUE, !.invalid_attempts = 0]
           lock == decision = "LockAccount"
           row == ApplyAuthOutcome(AuthMismatched(lock), store[u])
           next == IF decision = "Continue"
                     THEN [call[s] EXCEPT !.strikes = strikes]
                     ELSE LoggingOff(call[s])
           user == IF decision = "LockAccount" THEN locked ELSE bumped
           moved == [next EXCEPT !.slot = u, !.user = user, !.base = user]
<1>1. store[u] \in UserRecord /\ call[s] \in Session /\ call[s].user \in UserRecord
  BY Current DEF Session
<1>2. Persist(s, u, row, next, user)
  BY DEF ApplyPasswordMismatch
<1>3. user \in UserRecord
  <2>1. bumped \in UserRecord
    BY <1>1 DEF UserRecord
  <2>2. locked \in UserRecord
    <3> HIDE DEF bumped
    <3> QED
      BY <2>1 DEF UserRecord
  <2> QED
    BY <2>1, <2>2
<1>4. /\ next \in Session /\ next.phase \in {"Authenticating", "LoggingOff"}
  <2>1. strikes \in Nat
    BY <1>1 DEF Session
  <2> HIDE DEF decision, strikes
  <2>2. CASE decision = "Continue"
    BY <1>1, <2>1, <2>2 DEF Session
  <2>3. CASE decision # "Continue"
    BY <1>1, <2>3, Current, LoggingOffSound DEF LoggingOff, Session
  <2> QED
    BY <2>2, <2>3
<1>5. lock \in BOOLEAN
  OBVIOUS
<1>6. Judged(LedgerAccount(store[u]), LedgerAccount(row))
  <2> HIDE DEF lock
  <2>1. LedgerAccount(row)
          = [LedgerAccount(store[u]) EXCEPT !.invalid_attempts = @ + 1,
                                            !.account_locked = @ \/ lock]
    BY <1>1, <1>5, OutcomeLedger
  <2> QED
    BY <1>5, <2>1, Zenon DEF Judged
<1> HIDE DEF lock, next, user, row
<1>7. /\ moved.slot = u /\ moved.user = user /\ moved.base = user
      /\ moved.phase # "Menu"
  BY <1>4 DEF Session
<1>8. /\ store' = [store EXCEPT ![u] = row]
      /\ call' = [call EXCEPT ![s] = moved]
  BY <1>2 DEF Persist
<1> HIDE DEF moved
<1> QED
  BY <1>3, <1>6, <1>7, <1>8, JudgeStep

LEMMA VerifyPasswordLedger ==
    ASSUME IInv, NEW s \in Sessions, NEW line, VerifyPassword(s, line)
    PROVE  LStep
<1>1. PICK u \in Slots :
        /\ call[s].phase = "Authenticating" /\ call[s].slot = u
        /\ ApplyPasswordMatch(s, u) \/ ApplyPasswordMismatch(s, u)
  BY DEF VerifyPassword
<1>2. Ledger!Judge(s, u)
  BY <1>1, MatchLedger, MismatchLedger
<1> QED
  BY <1>2 DEF LStep, Ledger!Next

\* The patch on entering the menu is one logon: nothing was posted or read
\* yet, and last_call is still the baseline's.
LEMMA EnterMenuLedger ==
    ASSUME IInv, NEW s \in Sessions, NEW u \in Slots,
           call[s].phase = "Onboarded", call[s].slot = u,
           NEW user \in UserRecord, NothingDone(call[s].base, user),
           user.times_called = call[s].base.times_called,
           user.last_call = call[s].base.last_call,
           EnterMenuAs(s, u, user)
    PROVE  LStep
<1> DEFINE base == call[s].base
           counted == [user EXCEPT !.times_called = @ + 1]
           row == ApplyPatch(PatchBetween(base, counted), store[u])
           next == [call[s] EXCEPT !.phase = "Menu", !.strikes = 0, !.rejoined = TRUE]
           moved == [next EXCEPT !.slot = u, !.user = counted, !.base = counted]
           before == LedgerAccount(store[u])
           after == LedgerAccount(row)
<1>1. /\ store[u] \in UserRecord /\ call[s] \in Session /\ base \in UserRecord
      /\ u # NoSlot
  BY Current, SlotsAssumption DEF Session
<1>2. /\ counted \in UserRecord
      /\ counted.times_called = base.times_called + 1
      /\ counted.messages_posted = base.messages_posted
      /\ counted.last_call = base.last_call
      /\ counted.last_read = base.last_read
      /\ counted.last_scanned = base.last_scanned
  BY DEF UserRecord, NothingDone
<1>3. /\ store' = [store EXCEPT ![u] = row]
      /\ call' = [call EXCEPT ![s] = moved]
  BY DEF EnterMenuAs, Persist, PendingPatch
<1> HIDE DEF counted
<1>4. /\ row \in UserRecord
      /\ row.invalid_attempts = store[u].invalid_attempts
      /\ row.account_locked = store[u].account_locked
      /\ row.times_called
           = store[u].times_called + Excess(counted.times_called, base.times_called)
      /\ row.messages_posted
           = store[u].messages_posted
               + Excess(counted.messages_posted, base.messages_posted)
      /\ row.last_call = store[u].last_call
      /\ \A c \in Conferences :
           c \notin AdvancedPointers(base, counted) =>
             /\ row.last_read[c] = store[u].last_read[c]
             /\ row.last_scanned[c] = store[u].last_scanned[c]
  BY <1>1, <1>2, PatchMerge
<1> HIDE DEF row
<1>5. /\ row.times_called = store[u].times_called + 1
      /\ row.messages_posted = store[u].messages_posted
  <2>1. base.times_called \in Nat /\ base.messages_posted \in Nat
        /\ store[u].messages_posted \in Nat
    BY <1>1 DEF UserRecord
  <2>2. /\ Excess(counted.times_called, base.times_called) = 1
        /\ Excess(counted.messages_posted, base.messages_posted) = 0
    BY <1>2, <2>1 DEF Excess
  <2> QED
    BY <1>4, <2>1, <2>2
<1>6. row.last_read = store[u].last_read /\ row.last_scanned = store[u].last_scanned
  <2>1. AdvancedPointers(base, counted) = {}
    BY <1>1, <1>2 DEF AdvancedPointers, UserRecord
  <2>2. /\ row.last_read \in [Conferences -> Nat]
        /\ store[u].last_read \in [Conferences -> Nat]
        /\ row.last_scanned \in [Conferences -> Nat]
        /\ store[u].last_scanned \in [Conferences -> Nat]
    BY <1>1, <1>4 DEF UserRecord
  <2> QED
    BY <1>4, <2>1, <2>2
<1>7. /\ before \in Ledger!Account /\ after \in Ledger!Account
      /\ after.times_called = before.times_called + 1
      /\ after.messages_posted = before.messages_posted
      /\ after.invalid_attempts = before.invalid_attempts
      /\ after.account_locked = before.account_locked
      /\ after.last_call = before.last_call
      /\ after.last_read = before.last_read
      /\ after.last_scanned = before.last_scanned
  BY <1>1, <1>4, <1>5, <1>6, AccountOf
<1> HIDE DEF before, after
<1>8. after = [before EXCEPT !.times_called = @ + 1]
  BY <1>7 DEF Ledger!Account
<1>9. /\ moved.slot = u /\ moved.phase = "Menu"
      /\ moved.user = counted /\ moved.base = counted
  BY <1>1 DEF Session
<1> HIDE DEF moved
<1>10. LedgerEntry(moved) = [slot |-> u, stage |-> "online", posted |-> 0]
  <2>1. LedgerStage(moved) = "online"
    BY <1>1, <1>9 DEF LedgerStage
  <2>2. counted.messages_posted - counted.messages_posted = 0
    BY <1>2 DEF UserRecord
  <2> QED
    BY <1>9, <2>1, <2>2 DEF LedgerEntry
<1>11. entries[s] = [slot |-> u, stage |-> "bound", posted |-> 0]
  BY EntryOf
<1>12. entries' = [entries EXCEPT ![s].stage = "online"]
  <2>1. entries' = [entries EXCEPT ![s] = LedgerEntry(moved)]
    BY <1>3, EntryMoves
  <2>2. [entries[s] EXCEPT !.stage = "online"]
          = [slot |-> u, stage |-> "online", posted |-> 0]
    BY <1>11
  <2> QED
    BY <1>10, <2>1, <2>2, Zenon
<1>13. accounts' = [accounts EXCEPT ![u].times_called = @ + 1]
  <2>1. /\ accounts' = [accounts EXCEPT ![u] = after]
        /\ accounts[u] = before
    BY <1>3, AccountMoves DEF after, before
  <2> QED
    BY <1>8, <2>1, Zenon
<1>14. entries[s].slot = u /\ entries[s].stage = "bound"
  BY <1>11
<1>15. Ledger!LogOn(s, u)
  BY <1>12, <1>13, <1>14, Zenon DEF Ledger!LogOn, accounts, entries
<1> QED
  BY <1>15 DEF LStep, Ledger!Next

\* A session keeps its phase, its account and what it posted.
LEMMA SameEntryLedger ==
    ASSUME IInv, NEW s \in Sessions, NEW user \in UserRecord,
           user.messages_posted = call[s].user.messages_posted,
           NEW next \in Session, next.user = user, next.base = call[s].base,
           next.slot = call[s].slot, next.phase = call[s].phase,
           call' = [call EXCEPT ![s] = next], UNCHANGED store
    PROVE  LStep
<1>1. LedgerEntry(next) = LedgerEntry(call[s])
  BY DEF LedgerEntry, LedgerStage
<1> QED
  BY <1>1, SilentMove DEF LStep

LEMMA AutoRejoinLedger == ASSUME IInv, NEW s \in Sessions, AutoRejoin(s) PROVE LStep
<1> DEFINE user == call[s].user
           joined == [user EXCEPT !.last_joined = ResolveAutoRejoin(user)]
           next == [call[s] EXCEPT !.user = joined, !.rejoined = TRUE]
<1>1. PICK u \in Slots :
        /\ call[s].phase = "Onboarded" /\ ~ call[s].rejoined /\ call[s].slot = u
        /\ CASE user.granted = {} -> Becomes(s, LoggingOff(call[s]))
             [] user.granted # {} /\ joined.force_password_reset -> Becomes(s, next)
             [] OTHER -> EnterMenuAs(s, u, joined)
  BY DEF AutoRejoin
<1>2. /\ call[s] \in Session /\ user \in UserRecord /\ call[s].base \in UserRecord
      /\ user.granted \in SUBSET Conferences
      /\ NothingDone(call[s].base, user) /\ Ahead(call[s].base, user)
  BY <1>1, Current DEF Session, SessionSound, UserRecord
<1>3. CASE user.granted = {}
  BY <1>1, <1>3, LeavesLedger
<1>4. CASE user.granted # {}
  <2>1. ResolveAutoRejoin(user) \in user.granted
    BY <1>2, <1>4, FirstAccessibleGranted DEF ResolveAutoRejoin
  <2>2. /\ joined \in UserRecord
        /\ joined.messages_posted = user.messages_posted
        /\ joined.times_called = user.times_called
        /\ joined.last_call = user.last_call
        /\ joined.last_read = user.last_read
        /\ joined.last_scanned = user.last_scanned
    BY <1>2, <2>1 DEF UserRecord
  <2> HIDE DEF joined
  <2>3. CASE joined.force_password_reset
    <3>1. call' = [call EXCEPT ![s] = next] /\ UNCHANGED store
      BY <1>1, <1>4, <2>3 DEF Becomes
    <3>2. /\ next \in Session /\ next.user = joined /\ next.base = call[s].base
          /\ next.slot = call[s].slot /\ next.phase = call[s].phase
      BY <1>2, <2>2 DEF Session
    <3> HIDE DEF next
    <3> QED
      BY <2>2, <3>1, <3>2, SameEntryLedger
  <2>4. CASE ~ joined.force_password_reset
    <3>1. EnterMenuAs(s, u, joined)
      BY <1>1, <1>4, <2>4
    <3>2. /\ NothingDone(call[s].base, joined)
          /\ joined.times_called = call[s].base.times_called
          /\ joined.last_call = call[s].base.last_call
      BY <1>2, <2>2 DEF NothingDone, Ahead
    <3> QED
      BY <1>1, <2>2, <3>1, <3>2, EnterMenuLedger
  <2> QED
    BY <2>3, <2>4
<1> QED
  BY <1>3, <1>4

LEMMA EnterMenuAfterResetLedger ==
    ASSUME IInv, NEW s \in Sessions, EnterMenuAfterReset(s) PROVE LStep
<1>1. PICK u \in Slots :
        /\ call[s].phase = "Onboarded" /\ call[s].slot = u
        /\ EnterMenuAs(s, u, call[s].user)
  BY DEF EnterMenuAfterReset
<1>2. /\ call[s].user \in UserRecord
      /\ NothingDone(call[s].base, call[s].user)
      /\ call[s].user.times_called = call[s].base.times_called
      /\ call[s].user.last_call = call[s].base.last_call
  BY <1>1, Current DEF Session, SessionSound, Ahead
<1> QED
  BY <1>1, <1>2, EnterMenuLedger

LEMMA CompletePasswordResetLedger ==
    ASSUME IInv, NEW s \in Sessions, NEW password \in Passwords,
           CompletePasswordReset(s, password)
    PROVE  LStep
<1> DEFINE user == call[s].user
           changed == ApplyPasswordChange(password, clock, user)
           next == [call[s] EXCEPT !.slot = call[s].slot, !.user = changed,
                                   !.base = changed]
<1>1. PICK u \in Slots :
        /\ ResetPending(s) /\ call[s].slot = u
        /\ Persist(s, u, ApplyPasswordChange(password, clock, store[u]), call[s],
                   changed)
  BY DEF CompletePasswordReset
<1> DEFINE row == ApplyPasswordChange(password, clock, store[u])
<1>2. /\ call[s] \in Session /\ user \in UserRecord /\ store[u] \in UserRecord
      /\ clock \in Nat /\ call[s].phase = "Onboarded"
  BY <1>1, Current DEF Session, ResetPending
<1>3. /\ row.times_called = store[u].times_called
      /\ row.messages_posted = store[u].messages_posted
      /\ row.invalid_attempts = store[u].invalid_attempts
      /\ row.account_locked = store[u].account_locked
      /\ row.last_call = store[u].last_call
      /\ row.last_read = store[u].last_read
      /\ row.last_scanned = store[u].last_scanned
  BY <1>2 DEF ApplyPasswordChange, UserRecord
<1>4. changed \in UserRecord
  BY <1>2, PasswordChangeType
<1>5. /\ store' = [store EXCEPT ![u] = row]
      /\ call' = [call EXCEPT ![s] = next]
  BY <1>1 DEF Persist
<1> HIDE DEF row, changed
<1>6. /\ next.slot = u /\ next.user = changed /\ next.base = changed
      /\ next.phase = "Onboarded"
  BY <1>1, <1>2 DEF Session
<1> HIDE DEF next
<1>7. LedgerEntry(next) = [slot |-> u, stage |-> "bound", posted |-> 0]
  BY <1>4, <1>6, BoundEntry DEF UserRecord
<1>8. entries' = entries
  <2>1. entries' = [entries EXCEPT ![s] = LedgerEntry(next)]
    BY <1>5, EntryMoves
  <2>2. entries[s] = LedgerEntry(next)
    BY <1>1, <1>2, <1>7, EntryOf
  <2> QED
    BY <2>1, <2>2 DEF entries
<1>9. accounts' = accounts
  <2>1. LedgerAccount(row) = LedgerAccount(store[u])
    BY <1>3 DEF LedgerAccount
  <2>2. /\ accounts' = [accounts EXCEPT ![u] = LedgerAccount(row)]
        /\ accounts[u] = LedgerAccount(store[u])
    BY <1>5, AccountMoves
  <2> QED
    BY <2>1, <2>2 DEF accounts
<1> QED
  BY <1>8, <1>9 DEF LStep, Silent

LEMMA PostMailLedger ==
    ASSUME IInv, NEW s \in Sessions, NEW c \in Conferences, PostMail(s, c)
    PROVE  LStep
<1> DEFINE user == call[s].user
           posted == user.messages_posted - call[s].base.messages_posted
           changed == [user EXCEPT !.messages_posted = @ + 1]
           next == [call[s] EXCEPT !.user = changed]
<1>1. /\ call[s] \in Session /\ user \in UserRecord /\ call[s].base \in UserRecord
      /\ call[s].phase = "Menu" /\ call[s].slot # NoSlot
  BY Current DEF PostMail, MenuIn, Session, SessionSound
<1>2. call' = [call EXCEPT ![s] = next] /\ UNCHANGED store
  BY <1>1 DEF PostMail, Session
<1>3. /\ next.slot = call[s].slot /\ next.phase = "Menu" /\ next.user = changed
      /\ next.base = call[s].base
      /\ changed.messages_posted = user.messages_posted + 1
  BY <1>1 DEF Session, UserRecord
<1> HIDE DEF next, changed
<1>4. LedgerEntry(next) = [slot |-> call[s].slot, stage |-> "online",
                           posted |-> posted + 1]
  <2>1. LedgerStage(next) = "online"
    BY <1>1, <1>3 DEF LedgerStage
  <2>2. changed.messages_posted - call[s].base.messages_posted = posted + 1
    BY <1>1, <1>3 DEF UserRecord
  <2> QED
    BY <1>3, <2>1, <2>2 DEF LedgerEntry
<1>5. entries[s] = [slot |-> call[s].slot, stage |-> "online", posted |-> posted]
  <2>1. LedgerStage(call[s]) = "online"
    BY <1>1 DEF LedgerStage
  <2> QED
    BY <2>1, EntryOf DEF LedgerEntry
<1> HIDE DEF posted
<1>6. LedgerEntry(next) = [entries[s] EXCEPT !.posted = @ + 1]
  BY <1>4, <1>5
<1>7. entries' = [entries EXCEPT ![s].posted = @ + 1]
  <2>1. entries' = [entries EXCEPT ![s] = LedgerEntry(next)]
    BY <1>2, EntryMoves
  <2> QED
    BY <1>6, <2>1, Zenon
<1>8. accounts' = accounts
  BY <1>2 DEF accounts
<1>9. entries[s].stage = "online"
  BY <1>5
<1>10. Ledger!Post(s)
  BY <1>7, <1>8, <1>9, Zenon DEF Ledger!Post, accounts, entries
<1> QED
  BY <1>10 DEF LStep, Ledger!Next

LEMMA AtMenuLedger == ASSUME IInv, NEW s \in Sessions, AtMenu(s) PROVE LStep
<1>1. PICK c \in Conferences :
        \/ PostMail(s, c)
        \/ \E number \in 1 .. MaxMail : ReadMail(s, c, number)
        \/ ScanMail(s, c)
        \/ ExplicitJoin(s, c)
  BY DEF AtMenu
<1>2. /\ call[s] \in Session /\ call[s].user \in UserRecord
      /\ call[s].base \in UserRecord /\ highest[c] \in Nat
      /\ Ahead(call[s].base, call[s].user) /\ ReadInOrder(call[s].user)
  BY Current DEF Session, SessionSound, IInv, TypeOK
<1>3. ASSUME NEW user \in UserRecord,
             user.messages_posted = call[s].user.messages_posted,
             Becomes(s, [call[s] EXCEPT !.user = user])
      PROVE  LStep
  <2> DEFINE next == [call[s] EXCEPT !.user = user]
  <2>1. /\ next \in Session /\ next.user = user /\ next.base = call[s].base
        /\ next.slot = call[s].slot /\ next.phase = call[s].phase
    BY <1>2 DEF Session
  <2>2. call' = [call EXCEPT ![s] = next] /\ UNCHANGED store
    BY <1>3 DEF Becomes
  <2> HIDE DEF next
  <2> QED
    BY <1>3, <2>1, <2>2, SameEntryLedger
<1>4. CASE PostMail(s, c)
  BY <1>4, PostMailLedger
<1>5. ASSUME NEW number \in 1 .. MaxMail, ReadMail(s, c, number) PROVE LStep
  <2> DEFINE user == AdvanceLastRead(call[s].user, c, number)
  <2>1. number \in Nat
    BY <1>5, <1>2 DEF ReadMail
  <2>2. user \in UserRecord /\ user.messages_posted = call[s].user.messages_posted
    BY <1>2, <2>1, AdvanceForward
  <2>3. Becomes(s, [call[s] EXCEPT !.user = user])
    BY <1>5 DEF ReadMail
  <2> HIDE DEF user
  <2> QED
    BY <1>3, <2>2, <2>3
<1>6. CASE ScanMail(s, c)
  <2> DEFINE user == AdvanceLastScanned(call[s].user, c, highest[c])
  <2>1. user \in UserRecord /\ user.messages_posted = call[s].user.messages_posted
    BY <1>2, AdvanceForward
  <2>2. Becomes(s, [call[s] EXCEPT !.user = user])
    BY <1>6 DEF ScanMail
  <2> HIDE DEF user
  <2> QED
    BY <1>3, <2>1, <2>2
<1>7. CASE ExplicitJoin(s, c)
  <2> DEFINE user == [call[s].user EXCEPT !.last_joined = c]
  <2>1. user \in UserRecord /\ user.messages_posted = call[s].user.messages_posted
    BY <1>2 DEF UserRecord
  <2>2. Becomes(s, [call[s] EXCEPT !.user = user])
    BY <1>2, <1>7 DEF ExplicitJoin, Session
  <2> HIDE DEF user
  <2> QED
    BY <1>3, <2>1, <2>2
<1> QED
  BY <1>1, <1>4, <1>5, <1>6, <1>7

----------------------------------------------------------------------------
(* Closing the entry.                                                      *)

\* Times and pointers of a row only move forward under a patch.
LEMMA PatchMovesForward ==
    ASSUME NEW base \in UserRecord, NEW user \in UserRecord, NEW row \in UserRecord
    PROVE  LET merged == ApplyPatch(PatchBetween(base, user), row) IN
           /\ merged.last_call >= row.last_call
           /\ \A c \in Conferences : /\ merged.last_read[c] >= row.last_read[c]
                                     /\ merged.last_scanned[c] >= row.last_scanned[c]
<1> DEFINE merged == ApplyPatch(PatchBetween(base, user), row)
<1>1. /\ merged \in UserRecord
      /\ user.last_call = base.last_call => merged.last_call = row.last_call
      /\ user.last_call # base.last_call =>
           merged.last_call = Larger(row.last_call, user.last_call)
      /\ \A c \in Conferences :
           IF c \in AdvancedPointers(base, user)
             THEN /\ merged.last_read[c]
                       = Larger(row.last_read[c], user.last_read[c])
                  /\ merged.last_scanned[c]
                       = Larger(Larger(row.last_scanned[c], merged.last_read[c]),
                                user.last_scanned[c])
             ELSE /\ merged.last_read[c] = row.last_read[c]
                  /\ merged.last_scanned[c] = row.last_scanned[c]
  BY PatchMerge
<1> HIDE DEF merged
<1>2. row.last_call \in Nat /\ user.last_call \in Nat
  BY DEF UserRecord
<1>3. merged.last_call >= row.last_call
  BY <1>1, <1>2 DEF Larger
<1>4. ASSUME NEW c \in Conferences
      PROVE  /\ merged.last_read[c] >= row.last_read[c]
             /\ merged.last_scanned[c] >= row.last_scanned[c]
  <2>1. /\ merged.last_read[c] \in Nat /\ merged.last_scanned[c] \in Nat
        /\ row.last_read[c] \in Nat /\ user.last_read[c] \in Nat
        /\ row.last_scanned[c] \in Nat /\ user.last_scanned[c] \in Nat
    BY <1>1 DEF UserRecord
  <2>2. CASE c \in AdvancedPointers(base, user)
    BY <1>1, <2>1, <2>2 DEF Larger
  <2>3. CASE c \notin AdvancedPointers(base, user)
    BY <1>1, <2>1, <2>3
  <2> QED
    BY <2>2, <2>3
<1> QED
  BY <1>3, <1>4 DEF merged

LEMMA ClosesEntry ==
    ASSUME IInv, NEW s \in Sessions, NEW u \in Slots,
           call[s].phase = "LoggingOff", call[s].slot = u,
           store' = [store EXCEPT
                       ![u] = ApplyPatch(PendingPatch(s,
                                 [call[s].user EXCEPT !.last_call = clock]), @)],
           call' = [call EXCEPT ![s] = NoCall]
    PROVE  Ledger!Close(s, u)
<1> DEFINE base == call[s].base
           user == call[s].user
           stamped == [user EXCEPT !.last_call = clock]
           row == ApplyPatch(PatchBetween(base, stamped), store[u])
           posted == user.messages_posted - base.messages_posted
           before == LedgerAccount(store[u])
           after == LedgerAccount(row)
<1>1. /\ store[u] \in UserRecord /\ call[s] \in Session /\ base \in UserRecord
      /\ user \in UserRecord /\ Ahead(base, user) /\ u # NoSlot /\ clock \in Nat
  BY Current, SlotsAssumption DEF Session, SessionSound
<1>2. /\ stamped \in UserRecord
      /\ stamped.times_called = user.times_called
      /\ stamped.messages_posted = user.messages_posted
  BY <1>1 DEF UserRecord
<1>3. store' = [store EXCEPT ![u] = row]
  BY DEF PendingPatch
<1> HIDE DEF stamped
<1>4. /\ row \in UserRecord
      /\ row.invalid_attempts = store[u].invalid_attempts
      /\ row.account_locked = store[u].account_locked
      /\ row.times_called
           = store[u].times_called + Excess(stamped.times_called, base.times_called)
      /\ row.messages_posted
           = store[u].messages_posted
               + Excess(stamped.messages_posted, base.messages_posted)
      /\ row.last_call >= store[u].last_call
      /\ \A c \in Conferences : /\ row.last_read[c] >= store[u].last_read[c]
                                /\ row.last_scanned[c] >= store[u].last_scanned[c]
  <2>1. /\ row.last_call >= store[u].last_call
        /\ \A c \in Conferences : /\ row.last_read[c] >= store[u].last_read[c]
                                  /\ row.last_scanned[c] >= store[u].last_scanned[c]
    BY <1>1, <1>2, PatchMovesForward
  <2>2. /\ row \in UserRecord
        /\ row.invalid_attempts = store[u].invalid_attempts
        /\ row.account_locked = store[u].account_locked
        /\ row.times_called
             = store[u].times_called + Excess(stamped.times_called, base.times_called)
        /\ row.messages_posted
             = store[u].messages_posted
                 + Excess(stamped.messages_posted, base.messages_posted)
    BY <1>1, <1>2, PatchMerge
  <2> QED
    BY <2>1, <2>2
<1> HIDE DEF row
<1>5. /\ row.times_called = store[u].times_called
      /\ row.messages_posted = store[u].messages_posted + posted
  <2>1. /\ user.times_called \in Nat /\ user.messages_posted \in Nat
        /\ base.times_called \in Nat /\ base.messages_posted \in Nat
        /\ store[u].times_called \in Nat /\ store[u].messages_posted \in Nat
    BY <1>1 DEF UserRecord
  <2>2. /\ Excess(stamped.times_called, base.times_called) = 0
        /\ Excess(stamped.messages_posted, base.messages_posted) = posted
    BY <1>1, <1>2, <2>1 DEF Excess, Ahead
  <2> HIDE DEF posted
  <2> QED
    BY <1>4, <2>1, <2>2
<1>6. entries[s].posted = posted /\ entries[s].slot = u /\ entries[s].stage = "leaving"
  <2>1. entries[s].slot = u /\ entries[s].stage = "leaving"
    BY <1>1, EntryOf
  <2>2. entries[s].posted = posted
    BY EntryOf
  <2> QED
    BY <2>1, <2>2
<1>7. posted \in Nat
  BY <1>6, EntryOf
<1> HIDE DEF posted
<1>8. /\ before \in Ledger!Account /\ after \in Ledger!Account
      /\ after.times_called = before.times_called
      /\ after.messages_posted = before.messages_posted + posted
      /\ after.invalid_attempts = before.invalid_attempts
      /\ after.account_locked = before.account_locked
      /\ after.last_call >= before.last_call
      /\ \A c \in Conferences : /\ after.last_read[c] >= before.last_read[c]
                                /\ after.last_scanned[c] >= before.last_scanned[c]
  BY <1>1, <1>4, <1>5, AccountOf
<1>9. /\ accounts' = [accounts EXCEPT ![u] = after]
      /\ accounts[u] = before
  BY <1>3, AccountMoves DEF after, before
<1> HIDE DEF before, after
<1>10. after = [before EXCEPT !.messages_posted = @ + posted,
                              !.last_call = after.last_call,
                              !.last_read = after.last_read,
                              !.last_scanned = after.last_scanned]
  BY <1>7, <1>8 DEF Ledger!Account
<1>11. accounts'[u] = after
  BY <1>9 DEF accounts
<1>12. accounts' = [accounts EXCEPT ![u].messages_posted = @ + entries[s].posted,
                                    ![u].last_call = accounts'[u].last_call,
                                    ![u].last_read = accounts'[u].last_read,
                                    ![u].last_scanned = accounts'[u].last_scanned]
  BY <1>6, <1>9, <1>10, <1>11, Zenon
<1>13. entries' = [entries EXCEPT ![s] = Ledger!Out]
  <2>1. /\ NoCall.user = Blank /\ NoCall.base = Blank /\ NoCall.slot = NoSlot
        /\ Blank.messages_posted \in Nat
    BY BlankType DEF NoCall, UserRecord
  <2>2. LedgerEntry(NoCall) = Ledger!Out
    BY <2>1 DEF LedgerEntry, LedgerStage, Ledger!Out
  <2> QED
    BY <2>2, EntryMoves
<1>14. /\ accounts'[u].last_call >= accounts[u].last_call
       /\ \A c \in Conferences :
            /\ accounts'[u].last_read[c] >= accounts[u].last_read[c]
            /\ accounts'[u].last_scanned[c] >= accounts[u].last_scanned[c]
  BY <1>8, <1>9, <1>11
<1>15. entries[s].slot = u /\ entries[s].stage = "leaving"
  BY <1>6
<1> QED
  BY <1>12, <1>13, <1>14, <1>15, Zenon DEF Ledger!Close, accounts, entries

LEMMA FinaliseLogoffLedger ==
    ASSUME IInv, NEW s \in Sessions, FinaliseLogoff(s) PROVE LStep
<1>1. CASE Becomes(s, NoCall)
  BY <1>1, LeavesLedger
<1>2. CASE ~ Becomes(s, NoCall)
  <2>1. PICK u \in Slots : Ledger!Close(s, u)
    BY <1>2, ClosesEntry DEF FinaliseLogoff
  <2> QED
    BY <2>1 DEF LStep, Ledger!Next
<1> QED
  BY <1>1, <1>2

LEMMA CrashLedger == ASSUME IInv, Crash PROVE LStep
<1>1. LedgerEntry(NoCall) = Ledger!Out
  <2>1. /\ NoCall.user = Blank /\ NoCall.base = Blank /\ NoCall.slot = NoSlot
        /\ Blank.messages_posted \in Nat
    BY BlankType DEF NoCall, UserRecord
  <2> QED
    BY <2>1 DEF LedgerEntry, LedgerStage, Ledger!Out
<1>2. entries' = [r \in Sessions |-> IF r \in Sessions THEN Ledger!Out ELSE entries[r]]
  BY <1>1 DEF entries, Crash
<1>3. accounts' = accounts
  BY DEF accounts, Crash
<1>4. Ledger!Lose(Sessions)
  BY <1>2, <1>3 DEF Ledger!Lose, accounts, entries
<1> QED
  BY <1>4 DEF LStep, Ledger!Next

LEMMA IdleLedger == ASSUME Tick \/ UNCHANGED vars PROVE LStep
BY DEF Tick, vars, LStep, Silent, accounts, entries

----------------------------------------------------------------------------

LEMMA LedgerNext == IInv /\ IInv' /\ [Next]_vars => [Ledger!Next]_(Ledger!vars)
<1> SUFFICES ASSUME IInv, IInv', [Next]_vars PROVE LStep
  BY DEF LStep, Silent, Ledger!vars, accounts, entries
<1>1. ASSUME NEW s \in Sessions, SignIn(s) PROVE LStep
  BY <1>1, PromptLedger, RecordIdentifiedUserLedger, VerifyPasswordLedger,
     CreateUserLedger, AutoRejoinLedger, CompletePasswordResetLedger,
     EnterMenuAfterResetLedger, StrikeLedger, LeavesLedger
     DEF SignIn, RejectPasswordReset, ResetPending
<1>2. ASSUME NEW s \in Sessions, SignOff(s) PROVE LStep
  BY <1>2, LeavesLedger, FinaliseLogoffLedger DEF SignOff, LeaveCall
<1>3. ASSUME NEW s \in Sessions, StoreFails(s) PROVE LStep
  BY <1>3, LeavesLedger DEF StoreFails
<1> QED
  BY <1>1, <1>2, <1>3, PromptLedger, AtMenuLedger, CrashLedger, IdleLedger DEF Next

\* The patches and outcomes of any number of calls of one account never lose
\* or repeat a logon, a post or a failed password, and never move a time or
\* a pointer back (the write commands of the user repository).
THEOREM SessionsKeepTheLedger == Spec => LedgerRefined
BY LedgerInit, LedgerNext, InvariantHolds, PTL DEF Spec, LedgerRefined, Ledger!Spec
----------------------------------------------------------------------------
(* Guesses.  A call at the password prompt has so many left as its own copy
   of the count allows; all it may no longer take, of however many calls, is
   at least what the row has counted.                                      *)

Guesses == Sessions \X (1 .. MaxFailures - 1)
Guessing(s, u) == call[s].phase = "Authenticating" /\ call[s].slot = u
Spent(u) == {g \in Guesses : Guessing(g[1], u) => g[2] <= call[g[1]].user.invalid_attempts}

\* The retries of a call move with its copy of the count.
GuessesInv ==
    /\ \A u \in Slots : ~ store[u].account_locked =>
         store[u].invalid_attempts <= Cardinality(Spent(u))
    /\ \A s \in Sessions : call[s].phase = "Authenticating" =>
         call[s].strikes <= call[s].user.invalid_attempts

\* A step that counts no guess: nobody comes to the prompt or moves at it, and a
\* row that has counted one is locked.
Uncounted(row, next) ==
    \/ next.account_locked
    \/ next.invalid_attempts = 0
    \/ next.invalid_attempts = row.invalid_attempts /\ next.account_locked = row.account_locked
CountsNoGuess ==
    /\ \A s \in Sessions : call'[s].phase = "Authenticating" => call'[s] = call[s]
    /\ \A u \in Slots : Uncounted(store[u], store'[u])

LEMMA GuessesFinite ==
    /\ IsFiniteSet(Guesses)
    /\ Cardinality(Guesses) = Cardinality(Sessions) * (MaxFailures - 1)
    /\ \A S \in SUBSET Guesses : IsFiniteSet(S) /\ Cardinality(S) \in Nat
                                 /\ Cardinality(S) <= Cardinality(Guesses)
<1>1. MaxFailures - 1 \in Nat
  BY LimitsAssumption
<1>2. IsFiniteSet(1 .. MaxFailures - 1) /\ Cardinality(1 .. MaxFailures - 1) = MaxFailures - 1
  BY <1>1, FS_Interval
<1>3. /\ IsFiniteSet(Guesses)
      /\ Cardinality(Guesses) = Cardinality(Sessions) * Cardinality(1 .. MaxFailures - 1)
  BY <1>2, SessionsAssumption, FS_Product DEF Guesses
<1>4. ASSUME NEW S \in SUBSET Guesses
      PROVE  IsFiniteSet(S) /\ Cardinality(S) \in Nat /\ Cardinality(S) <= Cardinality(Guesses)
  BY <1>3, FS_Subset, FS_CardinalityType
<1> QED
  BY <1>2, <1>3, <1>4

LEMMA SpentBounded ==
    ASSUME NEW u \in Slots
    PROVE  /\ Spent(u) \subseteq Guesses /\ IsFiniteSet(Spent(u)) /\ Cardinality(Spent(u)) \in Nat
           /\ Spent(u)' \subseteq Guesses /\ IsFiniteSet(Spent(u)') /\ Cardinality(Spent(u)') \in Nat
<1>1. Spent(u) \subseteq Guesses /\ Spent(u)' \subseteq Guesses
  BY DEF Spent
<1> QED
  BY <1>1, GuessesFinite

LEMMA GuessTyped ==
    ASSUME NEW g \in Guesses
    PROVE  g = <<g[1], g[2]>> /\ g[1] \in Sessions /\ g[2] \in 1 .. MaxFailures - 1
BY DEF Guesses

LEMMA NoGuessKeeps == ASSUME IInv, GuessesInv, CountsNoGuess, IInv' PROVE GuessesInv'
<1>1. ASSUME NEW u \in Slots, ~ store'[u].account_locked
      PROVE  store'[u].invalid_attempts <= Cardinality(Spent(u)')
  <2>1. /\ IsFiniteSet(Spent(u)') /\ Cardinality(Spent(u)) \in Nat /\ Cardinality(Spent(u)') \in Nat
    BY SpentBounded
  <2>2. CASE store'[u].invalid_attempts = 0
    BY <2>1, <2>2
  <2>3. CASE store'[u].invalid_attempts # 0
    <3>1. /\ store'[u].invalid_attempts = store[u].invalid_attempts
          /\ ~ store[u].account_locked
      BY <1>1, <2>3 DEF CountsNoGuess, Uncounted
    <3>2. store[u].invalid_attempts <= Cardinality(Spent(u)) /\ store[u].invalid_attempts \in Nat
      BY <3>1 DEF GuessesInv, IInv, TypeOK, UserRecord
    <3>3. Spent(u) \subseteq Spent(u)'
      <4> SUFFICES ASSUME NEW g \in Guesses, Guessing(g[1], u) => g[2] <= call[g[1]].user.invalid_attempts,
                          Guessing(g[1], u)'
                   PROVE  g[2] <= call'[g[1]].user.invalid_attempts
        BY DEF Spent
      <4>1. g[1] \in Sessions
        BY GuessTyped
      <4>2. call'[g[1]] = call[g[1]]
        BY <4>1 DEF CountsNoGuess, Guessing
      <4> QED
        BY <4>2 DEF Guessing
    <3>4. Cardinality(Spent(u)) <= Cardinality(Spent(u)')
      BY <2>1, <3>3, FS_Subset
    <3> QED
      BY <2>1, <3>1, <3>2, <3>4
  <2> QED
    BY <2>2, <2>3
<1>2. ASSUME NEW s \in Sessions, call'[s].phase = "Authenticating"
      PROVE  call'[s].strikes <= call'[s].user.invalid_attempts
  BY <1>2 DEF CountsNoGuess, GuessesInv
<1> QED
  BY <1>1, <1>2 DEF GuessesInv

\* Who comes to the prompt has spent what the row counts, and no more.
LEMMA IdentifyKeepsGuesses ==
    ASSUME IInv, GuessesInv, NEW s \in Sessions, NEW u \in Slots, RecordIdentifiedUser(s, u)
    PROVE  GuessesInv'
<1> DEFINE next == [call[s] EXCEPT !.phase = "Authenticating", !.slot = u, !.user = store[u],
                                   !.base = store[u], !.strikes = 0]
<1>1. call[s] \in Session /\ store[u] \in UserRecord /\ call[s].phase = "Identifying"
  BY Current DEF RecordIdentifiedUser
<1>2. /\ next.phase = "Authenticating" /\ next.slot = u /\ next.strikes = 0
      /\ next.user.invalid_attempts = store[u].invalid_attempts
      /\ store[u].invalid_attempts \in Nat
  BY <1>1 DEF Session, UserRecord
<1>3. store' = store /\ \A t \in Sessions : call'[t] = IF t = s THEN next ELSE call[t]
  BY DEF RecordIdentifiedUser, Becomes, IInv, TypeOK
<1> HIDE DEF next
<1>4. ASSUME NEW v \in Slots, ~ store'[v].account_locked
      PROVE  store'[v].invalid_attempts <= Cardinality(Spent(v)')
  <2>1. /\ IsFiniteSet(Spent(v)') /\ Cardinality(Spent(v)) \in Nat /\ Cardinality(Spent(v)') \in Nat
    BY SpentBounded
  <2>2. store[v].invalid_attempts <= Cardinality(Spent(v)) /\ store[v].invalid_attempts \in Nat
    BY <1>3, <1>4 DEF GuessesInv, IInv, TypeOK, UserRecord
  <2>3. CASE v # u \/ store[u].invalid_attempts > MaxFailures - 1
    <3>1. Spent(v) \subseteq Spent(v)'
      <4> SUFFICES ASSUME NEW g \in Guesses, Guessing(g[1], v) => g[2] <= call[g[1]].user.invalid_attempts,
                          Guessing(g[1], v)'
                   PROVE  g[2] <= call'[g[1]].user.invalid_attempts
        BY DEF Spent
      <4>1. g[1] \in Sessions /\ g[2] \in 1 .. MaxFailures - 1
        BY GuessTyped
      <4>2. CASE g[1] = s
        <5>1. call'[g[1]] = next
          BY <1>3, <4>1, <4>2
        <5>2. v = u
          BY <1>2, <5>1 DEF Guessing
        <5> QED
          BY <1>2, <2>3, <4>1, <5>1, <5>2, LimitsAssumption
      <4>3. CASE g[1] # s
        <5>1. call'[g[1]] = call[g[1]]
          BY <1>3, <4>1, <4>3
        <5> QED
          BY <5>1 DEF Guessing
      <4> QED
        BY <4>2, <4>3
    <3>2. Cardinality(Spent(v)) <= Cardinality(Spent(v)')
      BY <2>1, <3>1, FS_Subset
    <3> QED
      BY <1>3, <2>1, <2>2, <3>2
  <2>4. CASE v = u /\ store[u].invalid_attempts <= MaxFailures - 1
    <3> DEFINE n == store[u].invalid_attempts   own == {s} \X (1 .. n)
    <3>1. n \in Nat /\ n <= MaxFailures - 1
      BY <1>2, <2>4
    <3>2. own \subseteq Spent(u)'
      <4> SUFFICES ASSUME NEW k \in 1 .. n
                   PROVE  <<s, k>> \in Guesses /\ (Guessing(s, u)' => k <= call'[s].user.invalid_attempts)
        BY DEF Spent
      <4>1. k \in 1 .. MaxFailures - 1
        BY <3>1, LimitsAssumption
      <4>2. call'[s].user.invalid_attempts = n
        BY <1>2, <1>3
      <4> HIDE DEF n
      <4> QED
        BY <4>1, <4>2, <3>1 DEF Guesses
    <3> HIDE DEF n
    <3>3. Cardinality(own) = n
      <4>1. IsFiniteSet({s}) /\ Cardinality({s}) = 1
        BY FS_Singleton
      <4>2. IsFiniteSet(1 .. n) /\ Cardinality(1 .. n) = n
        BY <3>1, FS_Interval
      <4>3. \A S, T : IsFiniteSet(S) /\ IsFiniteSet(T) =>
                        Cardinality(S \X T) = Cardinality(S) * Cardinality(T)
        BY FS_Product
      <4>4. Cardinality(own) = Cardinality({s}) * Cardinality(1 .. n)
        BY <4>1, <4>2, <4>3
      <4> HIDE DEF own
      <4> QED
        BY <4>1, <4>2, <4>4, <3>1
    <3> HIDE DEF own
    <3>4. n <= Cardinality(Spent(u)')
      BY <2>1, <2>4, <3>2, <3>3, FS_Subset
    <3> QED
      BY <1>3, <2>4, <3>4 DEF n
  <2> QED
    BY <1>2, <2>3, <2>4, LimitsAssumption
<1>5. ASSUME NEW t \in Sessions, call'[t].phase = "Authenticating"
      PROVE  call'[t].strikes <= call'[t].user.invalid_attempts
  BY <1>2, <1>3, <1>5 DEF GuessesInv
<1> QED
  BY <1>4, <1>5 DEF GuessesInv

\* A bad password that does not end the call spends one guess of it.
LEMMA GuessKeeps ==
    ASSUME IInv, GuessesInv, NEW s \in Sessions, NEW u \in Slots, Guessing(s, u),
           NEW row, row.invalid_attempts = store[u].invalid_attempts + 1,
           row.account_locked = store[u].account_locked,
           NEW next, next.phase = "Authenticating", next.slot = u,
           next.strikes = call[s].strikes + 1,
           next.user.invalid_attempts = call[s].user.invalid_attempts + 1,
           call[s].user.invalid_attempts + 1 <= MaxFailures - 1,
           store' = [store EXCEPT ![u] = row], call' = [call EXCEPT ![s] = next]
    PROVE  GuessesInv'
<1>1. \A v \in Slots : store'[v] = IF v = u THEN row ELSE store[v]
  BY DEF IInv, TypeOK
<1>2. \A t \in Sessions : call'[t] = IF t = s THEN next ELSE call[t]
  BY DEF IInv, TypeOK
<1>3. call[s].user.invalid_attempts \in Nat /\ call[s].strikes \in Nat
  BY Current DEF Session, UserRecord
<1>4. ASSUME NEW v \in Slots
      PROVE  Spent(v) \subseteq Spent(v)'
  <2> SUFFICES ASSUME NEW g \in Guesses, Guessing(g[1], v) => g[2] <= call[g[1]].user.invalid_attempts,
                      Guessing(g[1], v)'
               PROVE  g[2] <= call'[g[1]].user.invalid_attempts
    BY DEF Spent
  <2>1. g[1] \in Sessions /\ g[2] \in 1 .. MaxFailures - 1
    BY GuessTyped
  <2>2. CASE g[1] = s
    <3>1. call'[g[1]] = next
      BY <1>2, <2>1, <2>2
    <3>2. v = u
      BY <3>1 DEF Guessing
    <3>3. g[2] <= call[s].user.invalid_attempts
      BY <2>2, <3>2
    <3> QED
      BY <1>3, <2>1, <3>1, <3>3, LimitsAssumption
  <2>3. CASE g[1] # s
    <3>1. call'[g[1]] = call[g[1]]
      BY <1>2, <2>1, <2>3
    <3> QED
      BY <3>1 DEF Guessing
  <2> QED
    BY <2>2, <2>3
<1>5. ASSUME NEW v \in Slots, ~ store'[v].account_locked
      PROVE  store'[v].invalid_attempts <= Cardinality(Spent(v)')
  <2>1. /\ IsFiniteSet(Spent(v)) /\ IsFiniteSet(Spent(v)')
        /\ Cardinality(Spent(v)) \in Nat /\ Cardinality(Spent(v)') \in Nat
    BY SpentBounded
  <2>2. store[v].invalid_attempts <= Cardinality(Spent(v)) /\ store[v].invalid_attempts \in Nat
    BY <1>1, <1>5 DEF GuessesInv, IInv, TypeOK, UserRecord
  <2>3. CASE v # u
    <3>1. Cardinality(Spent(v)) <= Cardinality(Spent(v)')
      BY <1>4, <2>1, FS_Subset
    <3> QED
      BY <1>1, <2>1, <2>2, <2>3, <3>1
  <2>4. CASE v = u
    <3> DEFINE k == call[s].user.invalid_attempts + 1   more == Spent(u) \cup {<<s, k>>}
    <3>1. k \in 1 .. MaxFailures - 1 /\ ~ (k <= call[s].user.invalid_attempts)
      BY <1>3, LimitsAssumption
    <3>2. <<s, k>> \notin Spent(u)
      BY <3>1 DEF Spent
    <3>3. <<s, k>> \in Spent(u)'
      <4>1. <<s, k>> \in Guesses
        BY <3>1 DEF Guesses
      <4>2. k <= call'[s].user.invalid_attempts
        BY <1>2, <1>3
      <4> HIDE DEF k
      <4> QED
        BY <4>1, <4>2 DEF Spent
    <3> HIDE DEF k
    <3>4. Cardinality(more) = Cardinality(Spent(u)) + 1
      BY <2>1, <2>4, <3>2, FS_AddElement
    <3>5. more \subseteq Spent(u)'
      BY <1>4, <3>3
    <3> HIDE DEF more
    <3>6. Cardinality(more) <= Cardinality(Spent(u)')
      BY <2>1, <2>4, <3>5, FS_Subset
    <3> QED
      BY <1>1, <2>1, <2>2, <2>4, <3>4, <3>6
  <2> QED
    BY <2>3, <2>4
<1>6. ASSUME NEW t \in Sessions, call'[t].phase = "Authenticating"
      PROVE  call'[t].strikes <= call'[t].user.invalid_attempts
  BY <1>2, <1>3, <1>6 DEF GuessesInv, Guessing
<1> QED
  BY <1>5, <1>6 DEF GuessesInv

LEMMA MismatchCounts ==
    ASSUME IInv, GuessesInv, IInv', NEW s \in Sessions, NEW u \in Slots,
           call[s].phase = "Authenticating", call[s].slot = u,
           ApplyPasswordMismatch(s, u)
    PROVE  /\ GuessesInv'
           /\ call'[s].phase = "LoggingOff" => store'[u].account_locked
<1> DEFINE bumped == [call[s].user EXCEPT !.invalid_attempts = @ + 1]
           strikes == call[s].strikes + 1
           decision == PasswordFailureDecision(bumped.invalid_attempts, strikes)
           locked == [bumped EXCEPT !.account_locked = TRUE, !.invalid_attempts = 0]
           row == ApplyAuthOutcome(AuthMismatched(decision = "LockAccount"), store[u])
           next == IF decision = "Continue" THEN [call[s] EXCEPT !.strikes = strikes]
                                            ELSE LoggingOff(call[s])
           user == IF decision = "LockAccount" THEN locked ELSE bumped
           moved == [next EXCEPT !.slot = u, !.user = user, !.base = user]
           k == call[s].user.invalid_attempts + 1
<1>1. /\ store[u] \in UserRecord /\ call[s] \in Session /\ call[s].user \in UserRecord
      /\ call[s].strikes \in Nat /\ call[s].user.invalid_attempts \in Nat
  BY Current DEF Session, UserRecord
<1>2. store' = [store EXCEPT ![u] = row] /\ call' = [call EXCEPT ![s] = moved]
  BY DEF ApplyPasswordMismatch, Persist
<1>3. bumped.invalid_attempts = k /\ bumped \in UserRecord
  BY <1>1 DEF UserRecord
<1>4. strikes <= k
  BY <1>1 DEF GuessesInv
<1>5. decision = IF k >= MaxFailures THEN "LockAccount" ELSE "Continue"
  <2>1. k \in Nat /\ strikes \in Nat /\ MaxFailures \in Nat
    BY <1>1, LimitsAssumption
  <2> HIDE DEF bumped, strikes, k
  <2> QED
    BY <1>3, <1>4, <2>1 DEF PasswordFailureDecision
<1>6. /\ row.invalid_attempts = store[u].invalid_attempts + 1
      /\ row.account_locked = (store[u].account_locked \/ decision = "LockAccount")
  <2> HIDE DEF decision
  <2> QED
    BY <1>1, Zenon DEF ApplyAuthOutcome, AuthMismatched, UserRecord
<1>7. CASE k >= MaxFailures
  <2>1. decision = "LockAccount"
    BY <1>5, <1>7
  <2> HIDE DEF bumped, decision, locked, k
  <2>2. moved.phase = "LoggingOff"
    BY <1>1, <2>1 DEF LoggingOff, Session
  <2> HIDE DEF row, next, user, moved
  <2>3. /\ \A v \in Slots : store'[v] = IF v = u THEN row ELSE store[v]
        /\ \A t \in Sessions : call'[t] = IF t = s THEN moved ELSE call[t]
    BY <1>2 DEF IInv, TypeOK
  <2>4. CountsNoGuess
    BY <1>6, <2>1, <2>2, <2>3 DEF CountsNoGuess, Uncounted
  <2> QED
    BY <1>6, <2>1, <2>3, <2>4, NoGuessKeeps
<1>8. CASE ~ (k >= MaxFailures)
  <2>1. decision = "Continue" /\ k <= MaxFailures - 1
    BY <1>1, <1>5, <1>8, LimitsAssumption
  <2> HIDE DEF decision
  <2>2. /\ moved.phase = "Authenticating" /\ moved.slot = u /\ moved.strikes = strikes
        /\ moved.user = bumped
    BY <1>1, <2>1 DEF Session
  <2> HIDE DEF bumped, locked, row, next, user, moved
  <2>3. row.account_locked = store[u].account_locked
    BY <1>1, <1>6, <2>1 DEF UserRecord
  <2>4. GuessesInv'
    BY <1>2, <1>3, <1>6, <2>1, <2>2, <2>3, GuessKeeps DEF Guessing
  <2>5. call'[s] = moved
    BY <1>2 DEF IInv, TypeOK
  <2> QED
    BY <2>2, <2>4, <2>5
<1> QED
  BY <1>7, <1>8

\* All other steps count none.
LEMMA BecomesCountsNone ==
    ASSUME IInv, NEW s \in Sessions, NEW next, Becomes(s, next), next.phase # "Authenticating"
    PROVE  CountsNoGuess
<1>1. store' = store /\ \A t \in Sessions : call'[t] = IF t = s THEN next ELSE call[t]
  BY DEF Becomes, IInv, TypeOK
<1> QED
  BY <1>1 DEF CountsNoGuess, Uncounted

LEMMA PersistCountsNone ==
    ASSUME IInv, NEW s \in Sessions, NEW u \in Slots, NEW row, NEW next \in Session, NEW user,
           Persist(s, u, row, next, user), Uncounted(store[u], row), next.phase # "Authenticating"
    PROVE  CountsNoGuess
<1> DEFINE moved == [next EXCEPT !.slot = u, !.user = user, !.base = user]
<1>1. moved.phase # "Authenticating"
  BY DEF Session
<1>2. store' = [store EXCEPT ![u] = row] /\ call' = [call EXCEPT ![s] = moved]
  BY DEF Persist
<1> HIDE DEF moved
<1>3. /\ \A v \in Slots : store'[v] = IF v = u THEN row ELSE store[v]
      /\ \A t \in Sessions : call'[t] = IF t = s THEN moved ELSE call[t]
  BY <1>2 DEF IInv, TypeOK
<1> QED
  BY <1>1, <1>3 DEF CountsNoGuess, Uncounted

LEMMA LoggingOffPhase ==
    ASSUME NEW session \in Session PROVE LoggingOff(session).phase = "LoggingOff"
BY DEF LoggingOff, Session

LEMMA MergesCountNone ==
    ASSUME NEW row \in UserRecord
    PROVE  /\ \A patch : Uncounted(row, ApplyPatch(patch, row))
           /\ \A password, now : Uncounted(row, ApplyPasswordChange(password, now, row))
           /\ \A daily, force : Uncounted(row, ApplyAuthOutcome(AuthMatched(daily, force), row))
<1>1. \A patch : Uncounted(row, ApplyPatch(patch, row))
  BY DEF ApplyPatch, UserRecord, Uncounted
<1>2. \A password, now : Uncounted(row, ApplyPasswordChange(password, now, row))
  BY DEF ApplyPasswordChange, UserRecord, Uncounted
<1>3. \A daily, force : Uncounted(row, ApplyAuthOutcome(AuthMatched(daily, force), row))
  BY DEF ApplyAuthOutcome, AuthMatched, UserRecord, Uncounted
<1> QED
  BY <1>1, <1>2, <1>3

LEMMA MatchCountsNone ==
    ASSUME IInv, NEW s \in Sessions, NEW u \in Slots,
           call[s].phase = "Authenticating", call[s].slot = u, ApplyPasswordMatch(s, u)
    PROVE  CountsNoGuess
<1> DEFINE on == [call[s] EXCEPT !.phase = "Onboarded", !.strikes = 0]
           off == LoggingOff(call[s])
<1>1. PICK next, daily, force, user : next \in {on, off} /\
        Persist(s, u, ApplyAuthOutcome(AuthMatched(daily, force), store[u]), next, user)
  BY DEF ApplyPasswordMatch
<1>2. store[u] \in UserRecord /\ call[s] \in Session
  BY Current
<1>3. on \in Session /\ on.phase = "Onboarded" /\ off \in Session /\ off.phase = "LoggingOff"
  BY <1>2, Current, LoggingOffSound, LoggingOffPhase DEF Session, Phases
<1> HIDE DEF on, off
<1>4. Uncounted(store[u], ApplyAuthOutcome(AuthMatched(daily, force), store[u]))
  BY <1>2, MergesCountNone
<1> QED
  BY <1>1, <1>3, <1>4, PersistCountsNone

LEMMA PromptsCountNone ==
    ASSUME IInv, NEW s \in Sessions,
           \/ PromptForName(s) \/ RecordUnknownName(s) \/ RecordNewUserRequest(s)
           \/ \E matches \in BOOLEAN : ApplyNewUserPasswordAttempt(s, matches)
           \/ \E handle \in Handles : ReadHandle(s, handle)
           \/ RefuseHandle(s) \/ RegistrationFails(s) \/ RejectPasswordReset(s)
           \/ LeaveCall(s) \/ StoreFails(s)
    PROVE  CountsNoGuess
<1>1. call[s] \in Session
  BY Current
<1>2. LoggingOff(call[s]).phase = "LoggingOff" /\ NoCall.phase = "Ended"
  BY <1>1, LoggingOffPhase DEF NoCall
<1>3. CASE PromptForName(s)
  <2>1. [call[s] EXCEPT !.phase = "Identifying"].phase = "Identifying"
    BY <1>1 DEF Session
  <2> QED
    BY <1>3, <2>1, BecomesCountsNone DEF PromptForName
<1>4. CASE RecordUnknownName(s)
  <2>1. [call[s] EXCEPT !.strikes = @ + 1].phase = "Identifying"
    BY <1>1, <1>4 DEF RecordUnknownName, Session
  <2> QED
    BY <1>2, <1>4, <2>1, BecomesCountsNone DEF RecordUnknownName
<1>5. CASE RecordNewUserRequest(s)
  <2>1. [call[s] EXCEPT !.phase = "NewUserRegistering", !.strikes = 0,
                        !.gate_verified = ~ GateRequired].phase = "NewUserRegistering"
    BY <1>1 DEF Session
  <2> QED
    BY <1>2, <1>5, <2>1, BecomesCountsNone DEF RecordNewUserRequest
<1>6. ASSUME NEW matches \in BOOLEAN, ApplyNewUserPasswordAttempt(s, matches) PROVE CountsNoGuess
  <2>1. /\ [call[s] EXCEPT !.gate_verified = TRUE, !.strikes = 0].phase = "NewUserRegistering"
        /\ [call[s] EXCEPT !.strikes = @ + 1].phase = "NewUserRegistering"
    BY <1>1, <1>6 DEF ApplyNewUserPasswordAttempt, Session
  <2>2. PICK next : Becomes(s, next) /\ next.phase # "Authenticating"
    BY <1>2, <1>6, <2>1 DEF ApplyNewUserPasswordAttempt
  <2> QED
    BY <2>2, BecomesCountsNone
<1>7. ASSUME NEW handle \in Handles, ReadHandle(s, handle) PROVE CountsNoGuess
  <2>1. [call[s] EXCEPT !.typed_handle = handle, !.strikes = 0].phase = "NewUserRegistering"
    BY <1>1, <1>7 DEF ReadHandle, AtProfile, Session
  <2> QED
    BY <1>7, <2>1, BecomesCountsNone DEF ReadHandle
<1>8. CASE RefuseHandle(s)
  <2>1. [call[s] EXCEPT !.strikes = @ + 1].phase = "NewUserRegistering"
    BY <1>1, <1>8 DEF RefuseHandle, AtProfile, Session
  <2> QED
    BY <1>2, <1>8, <2>1, BecomesCountsNone DEF RefuseHandle
<1>9. CASE RejectPasswordReset(s)
  <2>1. [call[s] EXCEPT !.strikes = @ + 1].phase = "Onboarded"
    BY <1>1, <1>9 DEF RejectPasswordReset, ResetPending, Session
  <2> QED
    BY <1>2, <1>9, <2>1, BecomesCountsNone DEF RejectPasswordReset
<1>10. CASE RegistrationFails(s) \/ LeaveCall(s) \/ StoreFails(s)
  BY <1>2, <1>10, BecomesCountsNone DEF RegistrationFails, LeaveCall, StoreFails
<1> QED
  BY <1>3, <1>4, <1>5, <1>6, <1>7, <1>8, <1>9, <1>10

LEMMA CreateUserCountsNone ==
    ASSUME IInv, NEW s \in Sessions, NEW u \in Slots, NEW password \in Passwords,
           CreateUser(s, u, password)
    PROVE  CountsNoGuess
<1> DEFINE created == RegisterNew(call[s].typed_handle, password, clock)
<1>1. created.invalid_attempts = 0
  BY DEF RegisterNew
<1>2. \A v \in Slots : store'[v] = IF v = u THEN created ELSE store[v]
  BY DEF CreateUser, IInv, TypeOK
<1> HIDE DEF created
<1>3. call'[s].phase = "Onboarded" /\ \A t \in Sessions : t # s => call'[t] = call[t]
  BY DEF CreateUser, IInv, TypeOK, Session
<1> QED
  BY <1>1, <1>2, <1>3 DEF CountsNoGuess, Uncounted

LEMMA EnterMenuCountsNone ==
    ASSUME IInv, NEW s \in Sessions, NEW u \in Slots, NEW user, EnterMenuAs(s, u, user)
    PROVE  CountsNoGuess
<1> DEFINE counted == [user EXCEPT !.times_called = @ + 1]
           row == ApplyPatch(PendingPatch(s, counted), store[u])
           next == [call[s] EXCEPT !.phase = "Menu", !.strikes = 0, !.rejoined = TRUE]
<1>1. store[u] \in UserRecord /\ call[s] \in Session
  BY Current
<1>2. Persist(s, u, row, next, counted)
  BY DEF EnterMenuAs
<1>3. Uncounted(store[u], row)
  BY <1>1, MergesCountNone
<1>4. next \in Session /\ next.phase = "Menu"
  BY <1>1 DEF Session, Phases
<1> HIDE DEF counted, row, next
<1> QED
  BY <1>2, <1>3, <1>4, PersistCountsNone

LEMMA OnboardedCountsNone ==
    ASSUME IInv, NEW s \in Sessions,
           \/ AutoRejoin(s) \/ EnterMenuAfterReset(s)
           \/ \E password \in Passwords : CompletePasswordReset(s, password)
    PROVE  CountsNoGuess
<1>1. call[s] \in Session
  BY Current
<1>2. CASE AutoRejoin(s)
  <2> DEFINE joined == [call[s].user EXCEPT !.last_joined = ResolveAutoRejoin(call[s].user)]
             held == [call[s] EXCEPT !.user = joined, !.rejoined = TRUE]
  <2>1. PICK u \in Slots :
          /\ call[s].phase = "Onboarded"
          /\ Becomes(s, LoggingOff(call[s])) \/ Becomes(s, held) \/ EnterMenuAs(s, u, joined)
    BY <1>2 DEF AutoRejoin
  <2>2. LoggingOff(call[s]).phase = "LoggingOff"
    BY <1>1, LoggingOffPhase
  <2> HIDE DEF joined
  <2>3. held.phase = "Onboarded"
    BY <1>1, <2>1 DEF Session
  <2> HIDE DEF held
  <2> QED
    BY <2>1, <2>2, <2>3, BecomesCountsNone, EnterMenuCountsNone
<1>3. CASE EnterMenuAfterReset(s)
  BY <1>3, EnterMenuCountsNone DEF EnterMenuAfterReset
<1>4. ASSUME NEW password \in Passwords, CompletePasswordReset(s, password) PROVE CountsNoGuess
  <2>a. PICK u \in Slots :
          /\ call[s].phase = "Onboarded"
          /\ Persist(s, u, ApplyPasswordChange(password, clock, store[u]), call[s],
                     ApplyPasswordChange(password, clock, call[s].user))
    BY <1>4 DEF CompletePasswordReset, ResetPending
  <2>1. PICK user : Persist(s, u, ApplyPasswordChange(password, clock, store[u]), call[s], user)
    BY <2>a
  <2>2. Uncounted(store[u], ApplyPasswordChange(password, clock, store[u]))
    BY Current, MergesCountNone
  <2> QED
    BY <1>1, <2>a, <2>1, <2>2, PersistCountsNone
<1> QED
  BY <1>2, <1>3, <1>4

LEMMA OnlineCountsNone ==
    ASSUME IInv, NEW s \in Sessions, AtMenu(s) \/ FinaliseLogoff(s) \/ Connect(s)
    PROVE  CountsNoGuess
<1>1. call[s] \in Session
  BY Current
<1>2. CASE AtMenu(s)
  <2>1. store' = store /\ call[s].phase = "Menu"
    BY <1>2 DEF AtMenu, PostMail, ReadMail, ScanMail, ExplicitJoin, MenuIn, Becomes
  <2>2. PICK user : call' = [call EXCEPT ![s] = [call[s] EXCEPT !.user = user]]
    <3>1. PICK c \in Conferences :
            \/ PostMail(s, c) \/ ScanMail(s, c) \/ ExplicitJoin(s, c)
            \/ \E number \in 1 .. MaxMail : ReadMail(s, c, number)
      BY <1>2 DEF AtMenu
    <3>2. CASE PostMail(s, c)
      BY <3>2 DEF PostMail
    <3>3. CASE ScanMail(s, c) \/ \E number \in 1 .. MaxMail : ReadMail(s, c, number)
      BY <3>3 DEF ScanMail, ReadMail, Becomes
    <3>4. CASE ExplicitJoin(s, c)
      BY <3>4 DEF ExplicitJoin, Becomes
    <3> QED
      BY <3>1, <3>2, <3>3, <3>4
  <2> DEFINE next == [call[s] EXCEPT !.user = user]
  <2>3. next.phase = "Menu"
    BY <1>1, <2>1 DEF Session
  <2> HIDE DEF next
  <2>4. \A t \in Sessions : call'[t] = IF t = s THEN next ELSE call[t]
    BY <2>2 DEF IInv, TypeOK, next
  <2> QED
    BY <2>1, <2>3, <2>4 DEF CountsNoGuess, Uncounted
<1>3. CASE FinaliseLogoff(s)
  <2>1. NoCall.phase = "Ended"
    BY DEF NoCall
  <2>2. CASE Becomes(s, NoCall)
    BY <2>1, <2>2, BecomesCountsNone
  <2>3. CASE ~ Becomes(s, NoCall)
    <3>a. PICK u \in Slots :
            /\ store' = [store EXCEPT
                 ![u] = ApplyPatch(PendingPatch(s, [call[s].user EXCEPT !.last_call = clock]), @)]
            /\ call' = [call EXCEPT ![s] = NoCall]
      BY <1>3, <2>3 DEF FinaliseLogoff
    <3>1. PICK patch : /\ store' = [store EXCEPT ![u] = ApplyPatch(patch, @)]
                       /\ call' = [call EXCEPT ![s] = NoCall]
      BY <3>a
    <3>2. Uncounted(store[u], ApplyPatch(patch, store[u]))
      BY Current, MergesCountNone
    <3>3. /\ \A v \in Slots : store'[v] = IF v = u THEN ApplyPatch(patch, store[u]) ELSE store[v]
          /\ \A t \in Sessions : call'[t] = IF t = s THEN NoCall ELSE call[t]
      BY <3>1 DEF IInv, TypeOK
    <3> QED
      BY <2>1, <3>2, <3>3 DEF CountsNoGuess, Uncounted
  <2> QED
    BY <2>2, <2>3
<1>4. CASE Connect(s)
  <2>1. store' = store /\ call'[s].phase = "Connecting" /\ \A t \in Sessions : t # s => call'[t] = call[t]
    BY <1>1, <1>4 DEF Connect, IInv, TypeOK, Session
  <2> QED
    BY <2>1 DEF CountsNoGuess, Uncounted
<1> QED
  BY <1>2, <1>3, <1>4

\* A step keeps the account of the guesses, and a guess that ends its call locks.
GuessLocks ==
    \A s \in Sessions, u \in Slots :
        /\ call[s].phase = "Authenticating" /\ call[s].slot = u
        /\ call'[s].phase = "LoggingOff"
        /\ store'[u].invalid_attempts > store[u].invalid_attempts
        => store'[u].account_locked

LEMMA NoGuessLocks == ASSUME IInv, CountsNoGuess PROVE GuessLocks
<1> SUFFICES ASSUME NEW u \in Slots, store'[u].invalid_attempts > store[u].invalid_attempts
             PROVE  store'[u].account_locked
  BY DEF GuessLocks
<1>1. store[u].invalid_attempts \in Nat
  BY DEF IInv, TypeOK, UserRecord
<1>2. store'[u].invalid_attempts # 0 /\ store'[u].invalid_attempts # store[u].invalid_attempts
  BY <1>1
<1> QED
  BY <1>2 DEF CountsNoGuess, Uncounted

LEMMA GuessStep == IInv /\ IInv' /\ GuessesInv /\ [Next]_vars => GuessesInv' /\ GuessLocks
<1> SUFFICES ASSUME IInv, IInv', GuessesInv, [Next]_vars PROVE GuessesInv' /\ GuessLocks
  OBVIOUS
<1>1. ASSUME CountsNoGuess PROVE GuessesInv' /\ GuessLocks
  BY <1>1, NoGuessKeeps, NoGuessLocks
<1>2. ASSUME NEW s \in Sessions, NEW u \in Slots, RecordIdentifiedUser(s, u)
      PROVE  GuessesInv' /\ GuessLocks
  <2>1. store' = store
    BY <1>2 DEF RecordIdentifiedUser, Becomes
  <2>2. GuessLocks
    <3> SUFFICES ASSUME NEW v \in Slots, store'[v].invalid_attempts > store[v].invalid_attempts
                 PROVE  FALSE
      BY DEF GuessLocks
    <3>1. store[v].invalid_attempts \in Nat
      BY DEF IInv, TypeOK, UserRecord
    <3> QED
      BY <2>1, <3>1
  <2> QED
    BY <1>2, <2>2, IdentifyKeepsGuesses
<1>3. ASSUME NEW s \in Sessions, NEW u \in Slots, call[s].phase = "Authenticating", call[s].slot = u,
             ApplyPasswordMismatch(s, u)
      PROVE  GuessesInv' /\ GuessLocks
  <2>1. \A t \in Sessions : t # s => call'[t] = call[t]
    BY <1>3 DEF ApplyPasswordMismatch, Persist, IInv, TypeOK
  <2>2. GuessesInv' /\ (call'[s].phase = "LoggingOff" => store'[u].account_locked)
    BY <1>3, MismatchCounts
  <2> QED
    BY <1>3, <2>1, <2>2 DEF GuessLocks
<1>4. ASSUME NEW s \in Sessions, SignIn(s) PROVE GuessesInv' /\ GuessLocks
  <2>1. ASSUME NEW line, VerifyPassword(s, line) PROVE GuessesInv' /\ GuessLocks
    <3>1. PICK u \in Slots :
            /\ call[s].phase = "Authenticating" /\ call[s].slot = u
            /\ ApplyPasswordMatch(s, u) \/ ApplyPasswordMismatch(s, u)
      BY <2>1 DEF VerifyPassword
    <3> QED
      BY <1>1, <1>3, <3>1, MatchCountsNone
  <2>2. \/ \E u \in Slots : RecordIdentifiedUser(s, u)
        \/ \E line \in Passwords : VerifyPassword(s, line)
        \/ CountsNoGuess
    BY <1>4, PromptsCountNone, CreateUserCountsNone, OnboardedCountsNone DEF SignIn
  <2> QED
    BY <1>1, <1>2, <2>1, <2>2
<1>5. ASSUME NEW s \in Sessions, Connect(s) \/ AtMenu(s) \/ SignOff(s) \/ StoreFails(s)
      PROVE  GuessesInv' /\ GuessLocks
  BY <1>1, <1>5, OnlineCountsNone, PromptsCountNone DEF SignOff
<1>6. CASE Crash
  <2>1. store' = store /\ \A t \in Sessions : call'[t].phase = "Ended"
    BY <1>6 DEF Crash, NoCall
  <2> QED
    BY <1>1, <2>1 DEF CountsNoGuess, Uncounted
<1>7. CASE Tick \/ UNCHANGED vars
  <2>1. store' = store /\ call' = call
    BY <1>7 DEF Tick, vars
  <2> QED
    BY <1>1, <2>1 DEF CountsNoGuess, Uncounted
<1> QED
  BY <1>4, <1>5, <1>6, <1>7 DEF Next

LEMMA GuessesInit == Init => GuessesInv
<1> SUFFICES ASSUME Init PROVE GuessesInv
  OBVIOUS
<1>1. \A s \in Sessions : call[s].phase = "Ended"
  BY DEF Init, NoCall
<1>2. ASSUME NEW u \in Slots, ~ store[u].account_locked
      PROVE  store[u].invalid_attempts <= Cardinality(Spent(u))
  <2>1. Spent(u) = Guesses
    BY <1>1, GuessTyped DEF Spent, Guessing
  <2>2. store[u].invalid_attempts <= Cardinality(Sessions) * (MaxFailures - 1)
    BY <1>2, SeedAssumption DEF Init, SeededRow
  <2> QED
    BY <2>1, <2>2, GuessesFinite
<1> QED
  BY <1>1, <1>2 DEF GuessesInv

\* Any number of calls that guess side by side, each judged by its own stale
\* count, take fewer than MaxFailures bad passwords each before the account is
\* locked, and a bad password that ends its call always locks it
\* (apply_password_mismatch, record_password_failure).
THEOREM GuessesStayBounded == Spec => GuessesBounded
<1> DEFINE Limited == \A u \in Slots : ~ store[u].account_locked =>
                      store[u].invalid_attempts <= Cardinality(Sessions) * (MaxFailures - 1)
<1>1. IInv /\ GuessesInv => Limited
  <2> SUFFICES ASSUME IInv, GuessesInv, NEW u \in Slots, ~ store[u].account_locked
               PROVE  store[u].invalid_attempts <= Cardinality(Sessions) * (MaxFailures - 1)
    OBVIOUS
  <2>1. Spent(u) \subseteq Guesses
    BY DEF Spent
  <2>2. /\ Cardinality(Spent(u)) \in Nat /\ Cardinality(Spent(u)) <= Cardinality(Guesses)
        /\ Cardinality(Guesses) \in Nat
    BY <2>1, GuessesFinite
  <2>3. store[u].invalid_attempts <= Cardinality(Spent(u)) /\ store[u].invalid_attempts \in Nat
    BY DEF GuessesInv, IInv, TypeOK, UserRecord
  <2> HIDE DEF Limited
  <2>4. store[u].invalid_attempts <= Cardinality(Guesses)
    BY <2>2, <2>3
  <2> QED
    BY <2>4, GuessesFinite
<1>2. Spec => [](IInv /\ GuessesInv)
  <2>1. IInv /\ GuessesInv /\ [Next]_vars => (IInv /\ GuessesInv)'
    BY NextKeeps, GuessStep
  <2> QED
    BY <2>1, InitSound, GuessesInit, PTL DEF Spec
<1>3. IInv /\ GuessesInv /\ [Next]_vars => [GuessLocks]_vars
  BY NextKeeps, GuessStep
<1>4. Spec => []Limited
  <2> HIDE DEF Limited
  <2> QED BY <1>1, <1>2, PTL
<1>5. Spec => [][GuessLocks]_vars
  BY <1>2, <1>3, PTL DEF Spec
<1> QED
  BY <1>4, <1>5 DEF GuessesBounded, GuessLocks
=============================================================================
