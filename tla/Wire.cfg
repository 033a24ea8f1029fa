SPECIFICATION Spec
CONSTANTS
  Samples = {0, 1, 61, 254}
  Characters = {0, 31, 64, 65}
  Words = {"from:", "to:", " ", "<", ">", "a"}
  Codes = {220, 250}
  MaxLen <- Lengths
INVARIANTS
  TypeOK
  EndAgreed
  BodyArrives
  EncodedAsDefined
  DecodedAsDefined
  CredentialsArrive
  CommandHandedOn
  RepliesInStep
CHECK_DEADLOCK FALSE
