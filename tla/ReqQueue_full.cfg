\* More requests than slots: the ring wraps, fills up and overflows.
CONSTANTS
  N = 3
  Requests = {r1, r2, r3, r4}
  Blank = blank
SPECIFICATION Spec
INVARIANTS TypeOK IndicesAgree UnusedAreBlank NoDuplicates
PROPERTY ImplementsFifo
\* The firmware stops for good in error_panic.
CHECK_DEADLOCK FALSE
