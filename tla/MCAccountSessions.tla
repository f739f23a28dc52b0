-------------------------- MODULE MCAccountSessions ------------------------
(* Instances of AccountSessions for TLC.                                   *)
EXTENDS AccountSessions, TLC

CONSTANTS s1, s2, alice, bob, secret, padded, other, guess

\* padded is secret typed with white space around it.
MCTrim(line) == IF line = padded THEN secret ELSE line

\* alice is an old account with both conferences; the other slots are free.
Alice == [RegisterNew(alice, secret, 0) EXCEPT !.access_level = 100,
                                               !.granted = Conferences]
Seed(row) == {[u \in Slots |-> IF u = 1 THEN row ELSE Blank]}

SeedAlice == Seed(Alice)
SeedReset == Seed([Alice EXCEPT !.force_password_reset = TRUE])
\* as it is, due for a reset, rejected, locked, without a conference
SeedAny == SeedAlice \cup SeedReset
             \cup Seed([Alice EXCEPT !.access_level = 1])
             \cup Seed([Alice EXCEPT !.account_locked = TRUE])
             \cup Seed([Alice EXCEPT !.granted = {}])

SessionSymmetry == Permutations({s1, s2})
=============================================================================
