\* Two calls of one account side by side, three connections in all.
SPECIFICATION Spec
CONSTANTS
  s1 = s1
  s2 = s2
  alice = alice
  bob = bob
  secret = secret
  padded = padded
  other = other
  guess = guess
  Conferences = {1}
  Handles = {alice}
  NoHandle = NoHandle
  Passwords = {secret, guess}
  DayLength = 2
  Slots = {1}
  Sessions = {s1, s2}
  Trim <- MCTrim
  Weak = {}
  AllowNewUsers = FALSE
  GateRequired = FALSE
  SeededStores <- SeedAlice
  MaxNameRetries = 1
  MaxFailures = 2
  MaxGateAttempts = 1
  MaxHandleAttempts = 1
  MaxResetAttempts = 1
  PasswordExpiry = 0
  MaxClock = 2
  MaxConnections = 3
  MaxMail = 2
SYMMETRY SessionSymmetry
INVARIANTS ReadDoesNotExceedScanned
PROPERTIES LedgerRefined GuessesBounded
\* the run ends when the bound on connections is used up
CHECK_DEADLOCK FALSE
