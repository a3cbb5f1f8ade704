\* Two harts contend for the lock and may both panic; two turns of the CAS loop
\* stand for 32.
CONSTANTS
  NHarts = 2
  Retries = 2
SPECIFICATION SyncSpec
INVARIANTS MutualExclusion OneDump
PROPERTIES PanicHalts LockLiveUnlessPanic
CHECK_DEADLOCK FALSE
