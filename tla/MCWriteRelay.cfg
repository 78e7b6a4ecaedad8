\* Concurrent broadcasts in every deployment mode, with bans, purges and a
\* window rollover; the purge may take a counter before its window is over, the
\* quota gate fails open, the blacklist gate closed.
SPECIFICATION Spec
CONSTANTS
  c1 = c1
  c2 = c2
  s1 = s1
  None = None
  Signers = {s1}
  Calls = {c1, c2}
  Modes = {"keyless", "scoped", "any"}
  Rate = 1
  Window = 3
  QuotaRetention = 1
  BanRetention = 1
  QuotaFailOpen = TRUE
  BlacklistFailOpen = FALSE
  MaxNow = 3
  MaxArrivals = 3
SYMMETRY CallSymmetry
INVARIANTS QuotaBound BanBound AuditTrail CountedOnce
\* Once the arrivals and the clock are spent, nothing more happens.
CHECK_DEADLOCK FALSE
