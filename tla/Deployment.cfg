\* Two terminals; after the deployment V3, back to V2, and V3 again, or two scripts
\* at once beside one before or after them.
SPECIFICATION Spec
CONSTANTS
  t1 = t1
  t2 = t2
  Terminals = {t1, t2}
  Decimals = {6}
  MaxContracts = 7
  MaxRuns = 4
SYMMETRY Symmetry
INVARIANTS MarketSound ReportHolds
PROPERTIES InitializedOnce
CHECK_DEADLOCK FALSE
