SPECIFICATION Spec
CONSTANTS
  Null = Null
  NumBuckets = 2
  Bucket <- MCBucket
  AfterLiteral <- MCAfterLiteral
  Stanzas <- MCStanzas
  Outputs <- MCOutputs
  Codes <- MCCodes
  Slots = {0, 1}
  MaxSent = 2
  MaxOutputs = 1
INVARIANTS CommandsAreUnderstood AnswersAreUnderstood ShortRequestsAreAnswered
PROPERTIES KnownStanzasGoThrough
CHECK_DEADLOCK FALSE
