SPECIFICATION Spec
CONSTANTS
  d1 = d1
  a1 = a1
  a2 = a2
  a3 = a3
  s1 = s1
  Document = {d1}
  Version = {a1, a2, a3}
  Subject = {s1}
  DocumentOf <- MCDocumentOf
  NoOne = NoOne
  NoVersion = NoVersion
  GovernanceMode = "review"
  RequireSeparation = TRUE
  AllowOverride = TRUE
  MaxReviews = 6
INVARIANTS TypeOK AtMostOneIndexed SupersededChainsEnd PublicationIsAccountable
PROPERTY ImplementsPublication
SYMMETRY Symmetry
