CONSTANTS
  Threads = {t1, t2, t3}
  References = {r1, r2, r3, r4}
  RefModulus = 5
  Nobody = Nobody
SPECIFICATION LiveSpec
INVARIANTS
  TypeOK
  HeldIsLive
  FreedOnce
  SingleIsExclusive
PROPERTIES
  NoLeak
