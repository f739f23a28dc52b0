\* A caller registers with a password that ends in a blank.
SPECIFICATION Spec
CONSTANTS
  s1 = s1
  s2 = s2
  alice = alice
  bob = bob
  secret = secret
  padded = padded
  other = other
  guess = guess
  Conferences = {1}
  Handles = {alice, bob}
  NoHandle = NoHandle
  Passwords = {secret, padded}
  DayLength = 2
  Slots = {1, 2}
  Sessions = {s1}
  Trim <- MCTrim
  Weak = {}
  AllowNewUsers = TRUE
  GateRequired = FALSE
  SeededStores <- SeedAlice
  MaxNameRetries = 1
  MaxFailures = 2
  MaxGateAttempts = 1
  MaxHandleAttempts = 1
  MaxResetAttempts = 1
  PasswordExpiry = 0
  MaxClock = 2
  MaxConnections = 1
  MaxMail = 0
INVARIANTS RightPasswordExists
CHECK_DEADLOCK FALSE
