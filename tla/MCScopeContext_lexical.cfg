SPECIFICATION Spec
CONSTANTS
  A = A
  B = B
  g1 = g1
  g2 = g2
  g3 = g3
  s1 = s1
  s2 = s2
  s3 = s3
  Null = Null
  Thread = {t1, t2}
  Guards = {g1, g2, g3}
  Scopes = {s1, s2, s3}
  Requests = {s2, s3}
  Schema = {A, B}
  SchemaOf <- MixedSchemas
  Discipline = "lexical"
INVARIANTS
  TypeOK
  CurrentIsInnermostGuard
  CurrentIsLive
  HooksMirrorNesting
  LinesReachInnermostSchema
SYMMETRY Alike
CHECK_DEADLOCK FALSE
