----------------------------- MODULE UserStore -----------------------------
(* What the user repository promises its callers, and what the in-memory
   adapter does under its mutex: a command asked takes effect at once and
   whole, or not at all and is answered with an error; a lookup answers with
   one account as it stood at one moment; slots and handles are given once;
   and an empty store is seeded with a sysop who is a member of every
   conference of the catalogue, or stays empty.                            *)
EXTENDS UserAggregate

CONSTANTS Callers,          \* sessions that use the repository
          Folded,           \* a handle, to the form handles are compared in
          Catalogues        \* the sets of conferences the board is set up with

VARIABLES accounts,         \* slot -> account, for the slots in use
          asked,            \* the command of each caller not yet answered
          answer            \* what each caller was last answered
vars == <<accounts, asked, answer>>

Idle == [op |-> "idle"]
Nothing == [kind |-> "nothing"]
Refused(kind) == [kind |-> kind]
Done == [kind |-> "done"]
Found(user) == [kind |-> "found", user |-> user]

Init == /\ accounts = <<>>
        /\ asked = [c \in Callers |-> Idle]
        /\ answer = [c \in Callers |-> Nothing]

DefaultSysop(hash) ==
    [UserNew(1, "sysop", hash, Never, 255) EXCEPT !.usage = WithTimeLimits(@, 30, 60)]
GrantAllMemberships(user, conferences) ==
    [user EXCEPT !.conferences.memberships =
        [c \in conferences |-> NewMembership(TRUE)]]

Seed == /\ accounts = <<>>
        /\ \E conferences \in Catalogues :
             accounts' = Put(accounts, 1, GrantAllMemberships(DefaultSysop("sysop"), conferences))
        /\ UNCHANGED <<asked, answer>>

Ask(c) == /\ asked[c] = Idle
          /\ asked' = [asked EXCEPT ![c] = asked'[c]]
          /\ asked'[c] # Idle
          /\ answer' = [answer EXCEPT ![c] = Nothing]
          /\ UNCHANGED accounts

Answer(c, result) == /\ asked' = [asked EXCEPT ![c] = Idle]
                     /\ answer' = [answer EXCEPT ![c] = result]

SlotsNamed(handle) ==
    {slot \in DOMAIN accounts : Folded[accounts[slot].handle] = Folded[handle]}

FindByHandle(c) ==
    /\ asked[c].op = "find_by_handle"
    /\ \/ /\ SlotsNamed(asked[c].handle) = {}
          /\ Answer(c, Refused("NotFound"))
       \/ \E slot \in SlotsNamed(asked[c].handle) : Answer(c, Found(accounts[slot]))
    /\ UNCHANGED accounts

FindSysop(c) ==
    /\ asked[c].op = "find_sysop"
    /\ Answer(c, IF 1 \in DOMAIN accounts THEN Found(accounts[1]) ELSE Refused("NotFound"))
    /\ UNCHANGED accounts

\* A write command replaces the account of its slot by what its rule makes
\* of it; a slot that is not there is an error.
Addressed(c) == accounts[asked[c].slot]
ApplyCommand(c, op, account) ==
    /\ asked[c].op = op
    /\ IF asked[c].slot \in DOMAIN accounts
         THEN /\ accounts' = [accounts EXCEPT ![asked[c].slot] = account]
              /\ Answer(c, Done)
         ELSE /\ Answer(c, Refused("UserNotFound"))
              /\ UNCHANGED accounts
RecordAuthOutcome(c) ==
    ApplyCommand(c, "record_auth_outcome", ApplyAuthOutcome(asked[c].change, Addressed(c)))
RecordPasswordChange(c) ==
    ApplyCommand(c, "record_password_change", ApplyPasswordChange(asked[c].change, Addressed(c)))
Patch(c) ==
    ApplyCommand(c, "apply_user_patch", ApplyUserPatch(asked[c].change, Addressed(c)))

CreateUser(c) ==
    /\ asked[c].op = "create_user"
    /\ IF SlotsNamed(asked[c].draft.handle) # {}
         THEN Answer(c, Refused("DuplicateUser")) /\ UNCHANGED accounts
         ELSE LET slot == Max(DOMAIN accounts \cup {0}) + 1
                  user == RegisterNew(slot, asked[c].draft)
              IN  accounts' = Put(accounts, slot, user) /\ Answer(c, Found(user))

\* An adapter that cannot reach its storage says so and changes nothing.
Storage(c) == /\ asked[c] # Idle
              /\ Answer(c, Refused("Storage"))
              /\ UNCHANGED accounts

\* A board that ends takes its callers along and keeps what was committed.
Stop == /\ asked' = [c \in Callers |-> Idle]
        /\ answer' = [c \in Callers |-> Nothing]
        /\ UNCHANGED accounts

Next == \/ Seed \/ Stop
        \/ \E c \in Callers :
             \/ Ask(c) \/ FindByHandle(c) \/ FindSysop(c) \/ RecordAuthOutcome(c)
             \/ RecordPasswordChange(c) \/ Patch(c) \/ CreateUser(c) \/ Storage(c)

Spec == Init /\ [][Next]_vars
=============================================================================
