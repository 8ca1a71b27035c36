CONSTANTS
  Keys <- MCKeys
  Passwords <- MCPasswords
  Secrets <- MCSecrets
  TokenOf <- MCTokenOf
  MaxCmds = 2
  MaxRequests = 2
SPECIFICATION Spec
CHECK_DEADLOCK FALSE
INVARIANTS
  CredentialRequired
  RepliesMatchCommands
