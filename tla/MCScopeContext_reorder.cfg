SPECIFICATION Spec
CONSTANTS
  A = A
  B = B
  g1 = g1
  g2 = g2
  g3 = g3
  s1 = s1
  s2 = s2
  s3 = s3
  Null = Null
  Thread = {t1}
  Guards = {g1, g2}
  Scopes = {s1}
  Requests = {}
  Schema = {A}
  SchemaOf <- OneSchema
  Discipline = "same thread"
INVARIANTS
  PointersAreLive
