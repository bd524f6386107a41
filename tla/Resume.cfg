SPECIFICATION FairSpec
CONSTANTS
  a=a
  Clients={a}
  MaxCalls=2
  MaxRetries=1
  MaxCrashes=1
  Nil=Nil
INVARIANTS TypeOK IdentityHasOneHolder AnswerIsOwn CredentialsAgree EndedIsFinal
PROPERTIES RequestReturns AuthorityEndsWithConnection
CHECK_DEADLOCK FALSE
