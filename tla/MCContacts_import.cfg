\* An import of two batches beside requests that bring the same addresses.
SPECIFICATION Spec
CONSTANTS
  j1 = j1  p1 = p1  a1 = a1  q1 = q1  q2 = q2  r1 = r1
  x1 = x1  x2 = x2  x3 = x3  x4 = x4  x5 = x5  x6 = x6  x7 = x7
  c1 = c1  s1 = s1  s2 = s2  k1 = k1
  tel1 = tel1  tel2 = tel2  mail1 = mail1  mail2 = mail2  firm1 = firm1  firm2 = firm2
  Nothing = Nothing
  Txn <- MCTxn
  Importer = {j1}  Poster = {p1}  Adder = {a1}  Patcher = {q1}  Reviser = {r1}
  Entry = {x1, x2, x3, x4, x5, x6, x7}
  Old = {c1}  Audience = {s1, s2}  New = {s2}  Campaign = {k1}
  Registered = {firm1, firm2}
  Batches <- MCBatches  Fields <- MCFields  Columns <- MCColumns
  OwnerOf <- MCOwnerOf  OldPhone <- MCOldPhone  PatchOf <- MCPatchOf
  AudienceOf <- MCAudienceOf  Revises <- MCRevises  NameOf <- MCNameOf
  Picks <- MCPicks  MaxParties = 3
INVARIANTS SummaryIsTrue ConsentHasEvidence
CHECK_DEADLOCK FALSE
