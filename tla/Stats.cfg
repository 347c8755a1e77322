\* Three counts and a save, between which auctions open, get bids, end and are
\* cancelled, and a pass that fails.
SPECIFICATION FairSpec
CONSTANTS
  Auctions = {a, b}
  Starts = {1}
  Ends = {2}
  MaxTime = 2
  MaxFailures = 1
INVARIANTS StatusesAgree NoneMissed CountedAsShown
PROPERTIES EventuallyFresh
