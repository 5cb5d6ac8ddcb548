SPECIFICATION Spec
CONSTANTS
  t1 = t1
  t2 = t2
  t3 = t3
  Threads = {t1}
  MaxAttempts = 3
  MaxAudit = 50
INVARIANTS JobRecorded
