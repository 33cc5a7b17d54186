SPECIFICATION ResetFairSpec
CONSTANTS
  t1 = t1  t2 = t2  t3 = t3  r1 = r1  r2 = r2  r3 = r3
  Tokens = {t1, t2, t3}
  Requests = {r1, r2, r3}
  NoToken = NoToken  Free = Free
CHECK_DEADLOCK FALSE
INVARIANTS ResetInv OlderTokensDie
PROPERTIES ResetsFinish
