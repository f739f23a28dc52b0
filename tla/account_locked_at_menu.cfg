\* One call locks the account another is signing in to.
SPECIFICATION Spec
CONSTANTS
  s1 = s1
  s2 = s2
  alice = alice
  bob = bob
  secret = secret
  padded = padded
  other = other
  guess = guess
  Conferences = {1}
  Handles = {alice}
  NoHandle = NoHandle
  Passwords = {secret, guess}
  DayLength = 2
  Slots = {1}
  Sessions = {s1, s2}
  Trim <- MCTrim
  Weak = {}
  AllowNewUsers = FALSE
  GateRequired = FALSE
  SeededStores <- SeedAlice
  MaxNameRetries = 1
  MaxFailures = 2
  MaxGateAttempts = 1
  MaxHandleAttempts = 1
  MaxResetAttempts = 1
  PasswordExpiry = 0
  MaxClock = 2
  MaxConnections = 2
  MaxMail = 0
PROPERTIES LockedAccountsCannotEnterMenu
CHECK_DEADLOCK FALSE
