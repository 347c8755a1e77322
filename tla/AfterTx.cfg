\* A transaction of the detail page, and the query that is fetched again before the
\* indexer has its event.
SPECIFICATION DetailSpec
CONSTANTS
  MaxEvents = 2
PROPERTIES ShownAfterTx
CHECK_DEADLOCK FALSE
