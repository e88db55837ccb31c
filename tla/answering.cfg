\* Access control, the answer pipeline, feedback, the quota and sign-in, each by itself.
CONSTANTS
  Subject = {s1}
  GroupKey = {k1}
  DepartmentKey <- MCDepartmentKey
  LowerCase <- MCLowerCase
  AccessDocument = {d1}
  Reader = {r1}
  RoleSet <- MCRoleSet
  MaxEntries = 1
  MaxReplacements = 2
  Query = {q1, q2}
  MaxRetries = 1
  MaxConfigChanges = 1
  Submission = {f1, f2, f3}
  Comment = {"x", "y"}
  QuotaCall = {c1, c2, c3}
  Asker = {a1, a2}
  DailyQuota = 1
  LastDay = 1
  Browser = {b1, b2}
  SigningKey = {x1, x2}
  RoleClaim = {"old", "new"}
  FlowLife = 1
  JwksLife = 1
  TokenLife = 2
  SessionLife = 1
  LastTick = 4
  MaxFlows = 2
  MaxChanges = 1
SYMMETRY MCSymmetry
SPECIFICATION AnsweringSpec
CHECK_DEADLOCK FALSE
INVARIANTS
  AnsweringTypeOK
  OrganisationIsConnected
  LedgerIsComplete
  AnswersAreAccounted
  FeedbackIsOneSubmission
  QuotaHolds
  RolesAreRecent
PROPERTIES
  AudienceChangesAreAudited
  
  RefusedOnlyAtTheQuota
  KeyVerdictsAreSound
