\* Screening: policies built by any calls in any order, on every letter.
CONSTANTS
  Sender = {"me", "friend", "stranger"}
  Me = "me"
  Amount = {0, 1, 2}
SPECIFICATION ScreeningSpec
INVARIANTS
  ScreeningTypeOK
  BlockOutranksAll
PROPERTY HardeningNeverAdmits
