\* Two callers sign in, register, reset passwords and read mail, at two
\* accounts or at one; every prompt with its retries.
SPECIFICATION FairSpec
CONSTANTS
  s1 = s1
  s2 = s2
  alice = alice
  bob = bob
  secret = secret
  padded = padded
  other = other
  guess = guess
  Conferences = {1}
  Handles = {alice, bob}
  NoHandle = NoHandle
  Passwords = {secret, guess, other}
  DayLength = 2
  Slots = {1, 2, 3}
  Sessions = {s1, s2}
  Trim <- MCTrim
  Weak = {guess}
  AllowNewUsers = TRUE
  GateRequired = TRUE
  SeededStores <- SeedAny
  MaxNameRetries = 2
  MaxFailures = 2
  MaxGateAttempts = 2
  MaxHandleAttempts = 2
  MaxResetAttempts = 2
  PasswordExpiry = 1
  MaxClock = 2
  MaxConnections = 2
  MaxMail = 2
INVARIANTS HandlesUnique MenuOnlyAfterAdmission
PROPERTIES SignInEnds WhatIsSavedIsStored
\* the run ends when the bounds on connections and on time are used up
CHECK_DEADLOCK FALSE
