SPECIFICATION Spec
CONSTANTS
  Credential = {"c1", "c2"}
  ListId = {1}
  ListOf <- MCListOf
  IndexOf <- MCIndexOf
  ListLength = 4
  WordSize = 2
  Pushable = {"c2"}
  Revocation = {r1, r2}
  CredentialOf <- MCCredentialOf
  MaxFaults = 1
  PresentationId = {"p1", "p2"}
  Contains <- MCContains
  s1 = s1
  s2 = s2
  s3 = s3
  Submission <- MCSubmission
  SubmittedBy <- MCSubmittedBy
  Endpoints = {"RECEIVE_UNCHECKED_CREDENTIALS", "RECEIVE_CHECKED_CREDENTIALS", "ISSUING_IDENTIFICATION"}
  NoId = "none"
  AutoIdentityCheck = TRUE
SYMMETRY Symmetry
INVARIANTS TypeOK RevokedIsExact HoldersAreTold RevocationsAreSeen RepeatsAreApart SubmissionsLeaveAnEnd
