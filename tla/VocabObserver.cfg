SPECIFICATION FairSpec
CONSTANTS
  Threads = {t1, t2}
  Free = free
  Fingerprints = {f1, f2, f3}
  MaxFingerprints = 2
  MaxFindings = 2
  MaxCalls = 2
INVARIANTS ObserverInv
PROPERTIES RefinesLog RememberedIsLogged
CHECK_DEADLOCK FALSE
