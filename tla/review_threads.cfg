SPECIFICATION Spec
CONSTANTS
  t1 = t1
  t2 = t2
  t3 = t3
  Threads = {t1, t2, t3}
  MaxAttempts = 3
  MaxAudit = 8
SYMMETRY AnyThread
INVARIANTS TypeOK OneJob MailBudget OwnsEffect LoopSuffices JobRecordedUnlessFull
