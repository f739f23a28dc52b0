------------------------------ MODULE MCCalls -------------------------------
(* The nodes and the record of calls, for TLC: twice as many callers as
   nodes, or one or two calls followed to their last line.  The two keep
   different parts of the same call, and share no state here: a behaviour is
   about one of them, and in the other nobody calls.                        *)
EXTENDS NodePool, CallRecord

CONSTANTS c1, c2, c3, c4

Member(user) == UpsertMembership(user, 1, NewMembership(TRUE))
Timed(user) == [user EXCEPT !.usage = WithTimeLimits(@, 1, 2)]
Caller == Member(Timed(UserNew(2, "alice", "hash", 1, 100)))
Sysop == [Caller EXCEPT !.slot_number = 1]
NoCalls == [account |-> None, treat_timeout_as_logoff |-> FALSE, allow_new_users |-> FALSE,
            gate |-> FALSE, calls |-> {}, from |-> 2, until |-> 2, setbacks |-> 0,
            failures |-> 0]

\* Two calls of one account of which a write may fail; one long call, with a
\* clock that is set back, and the sysop's; newcomers; accounts that are
\* refused or must choose a new password.
PlansTried ==
    {NoCalls,
     [NoCalls EXCEPT !.account = Caller, !.calls = {c1, c2}, !.failures = 1,
                     !.allow_new_users = TRUE],
     [NoCalls EXCEPT !.account = Caller, !.calls = {c1}, !.until = 6, !.setbacks = 1],
     [NoCalls EXCEPT !.account = Sysop, !.calls = {c1}, !.until = 7]}
    \cup {[NoCalls EXCEPT !.calls = {c1}, !.failures = 1, !.allow_new_users = n,
                          !.gate = g, !.treat_timeout_as_logoff = t] :
            n \in BOOLEAN, g \in BOOLEAN, t \in BOOLEAN}
    \cup {[NoCalls EXCEPT !.account = u, !.calls = {c1}, !.failures = 1, !.until = 3,
                          !.treat_timeout_as_logoff = TRUE] :
            u \in {[Caller EXCEPT !.account.account_locked = TRUE],
                   [Caller EXCEPT !.account.access_level = 1],
                   [Caller EXCEPT !.conferences = NoConferences],
                   [Caller EXCEPT !.credentials.reset = TRUE]}}

\* Nobody asks for a node while a plan is followed: all have been
\* served, one after the other.
CallsInit ==
    /\ CallInit
    /\ IF plan = NoCalls THEN Init
       ELSE /\ status = [n \in Nodes |-> "Idle"]
            /\ signals = [n \in Nodes |-> NoSender]
            /\ conn = [c \in Connections |-> [stage |-> "Gone", node |-> 1]]
CallsNext ==
    \/ Next /\ UNCHANGED callvars
    \/ CallNext /\ UNCHANGED vars
CallsSpec ==
    /\ CallsInit /\ [][CallsNext]_<<vars, callvars>>
    /\ \A c \in Connections : WF_vars(Runs(c))
    /\ CallFairness
=============================================================================
