SPECIFICATION Spec
CONSTANTS
  t1 = t1
  t2 = t2
  t3 = t3
  t4 = t4
  f = f
  g = g
  r1 = r1
  r2 = r2
  Tools = {t1, t2, t3, t4}
  Keys = {f, g}
  Runs = {r1, r2}
  KeyOf <- MCKeyOf
  RunOf <- MCRunOf
  Edits = {t1, t2}
INVARIANTS MutualExclusion
CHECK_DEADLOCK FALSE
