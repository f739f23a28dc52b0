--------------------------- MODULE AccountLedger ---------------------------
(* What the user table promises to a call, whatever other calls of the same
   account do: it is a ledger.  A call has its own entry of uncommitted
   posts; closing it adds exactly that entry to the account, a call that is
   lost takes its entry along and nothing else, one logon is counted for
   every call that reaches the menu, and no value another call wrote is
   moved back.                                                             *)
EXTENDS Integers

CONSTANTS Slots,        \* accounts
          Sessions,     \* calls
          Conferences,
          NoSlot        \* what a call without an account is bound to

VARIABLES account,      \* the stored account of each slot
          entry         \* the entry of each call
vars == <<account, entry>>

Account == [times_called : Nat, messages_posted : Nat, invalid_attempts : Nat,
            account_locked : BOOLEAN, last_call : Nat,
            last_read : [Conferences -> Nat], last_scanned : [Conferences -> Nat]]

Entry == [slot : Slots \cup {NoSlot},
          stage : {"out", "bound", "online", "leaving"},
          posted : Nat]
Out == [slot |-> NoSlot, stage |-> "out", posted |-> 0]

Init == account \in [Slots -> Account] /\ entry = [s \in Sessions |-> Out]

\* A call is bound to an account; a registration also stamps the new account.
Open(s, u) ==
    /\ entry[s].stage = "out"
    /\ entry' = [entry EXCEPT ![s] = [slot |-> u, stage |-> "bound", posted |-> 0]]
    /\ account' = [account EXCEPT ![u].last_call = account'[u].last_call]

\* A password is judged: the failures are counted one by one or cleared, and
\* a lock comes with a failure and never goes.
Judge(s, u) ==
    /\ entry[s].slot = u /\ entry[s].stage = "bound"
    /\ \E next \in {"bound", "leaving"} : entry' = [entry EXCEPT ![s].stage = next]
    /\ \/ account' = [account EXCEPT ![u].invalid_attempts = 0]
       \/ \E lock \in BOOLEAN :
            account' = [account EXCEPT ![u].invalid_attempts = @ + 1,
                                       ![u].account_locked = @ \/ lock]

\* Reaching the menu counts one logon.
LogOn(s, u) ==
    /\ entry[s].slot = u /\ entry[s].stage = "bound"
    /\ entry' = [entry EXCEPT ![s].stage = "online"]
    /\ account' = [account EXCEPT ![u].times_called = @ + 1]

Post(s) ==
    /\ entry[s].stage = "online"
    /\ entry' = [entry EXCEPT ![s].posted = @ + 1]
    /\ UNCHANGED account

Leave(s) ==
    /\ entry[s].stage \in {"bound", "online"}
    /\ entry' = [entry EXCEPT ![s].stage = "leaving"]
    /\ UNCHANGED account

\* The entry is added to the account; times and pointers only move forward.
Close(s, u) ==
    /\ entry[s].slot = u /\ entry[s].stage = "leaving"
    /\ entry' = [entry EXCEPT ![s] = Out]
    /\ account' = [account EXCEPT ![u].messages_posted = @ + entry[s].posted,
                                  ![u].last_call = account'[u].last_call,
                                  ![u].last_read = account'[u].last_read,
                                  ![u].last_scanned = account'[u].last_scanned]
    /\ account'[u].last_call >= account[u].last_call
    /\ \A c \in Conferences :
         /\ account'[u].last_read[c] >= account[u].last_read[c]
         /\ account'[u].last_scanned[c] >= account[u].last_scanned[c]

\* Calls are lost with what they had not committed.
Lose(lost) ==
    /\ entry' = [s \in Sessions |-> IF s \in lost THEN Out ELSE entry[s]]
    /\ UNCHANGED account

Next ==
    \/ \E s \in Sessions, u \in Slots :
         Open(s, u) \/ Judge(s, u) \/ LogOn(s, u) \/ Close(s, u)
    \/ \E s \in Sessions : Post(s) \/ Leave(s)
    \/ \E lost \in SUBSET Sessions : Lose(lost)

Spec == Init /\ [][Next]_vars
=============================================================================
