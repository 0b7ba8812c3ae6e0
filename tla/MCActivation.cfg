\* Three executors of a transaction, or three at a fence, or two
\* qualifications of one store.
CONSTANTS
  Runners = {r1, r2, r3}
  Kinds = {"orchestrated", "http", "adapter", "draft", "drafthttp"}
  Ids = {i1, i2}
  Plans = {p1, p2}
  Files = {f1, f2}
  MaxMain = 1
  Executors = {e1, e2, e3}
  Authorizations = {a1, a2}
  Fugle = {e1}
  MaxLost = 2
  MaxRuns = 2
  Tokens = {t1, t2}
  MaxFaults = 3
  None = None
SPECIFICATION EitherSpec
SYMMETRY Symmetric
INVARIANTS
  MarkerFences
  TransactionSound
  QualificationClean
CHECK_DEADLOCK FALSE
