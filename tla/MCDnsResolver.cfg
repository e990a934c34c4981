SPECIFICATION Spec
CONSTANTS
  k1 = k1
  k2 = k2
  w1 = w1
  w2 = w2
  Keys = {k1, k2}
  Records = {"r1"}
  Workers = {w1, w2}
  Ttls = {0, 1, 3}
  MaxTtl = 2
  NegativeTtl = 1
INVARIANT
  CacheTypeOK
PROPERTIES
  ServedWithinTtl
  ChangesAreSeen
