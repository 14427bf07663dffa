SPECIFICATION Spec
CONSTANTS
  Threads = {t1, t2}
  Files = {f1}
  Questions = {q1}
  Mutations = {m1}
  Nothing = Nothing
CHECK_DEADLOCK FALSE
INVARIANTS
  ProcessedOnce
PROPERTY
  OverlapOnlyWhenStale
  ClicksAreCarriedOut
  SelectionIsProcessed
  NoticeIsShown
