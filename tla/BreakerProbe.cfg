SPECIFICATION Spec
CONSTANTS
  Calls = {c1, c2}
  Threshold = 2
  Window = 1
  Open = 2
  Timeout = 1
  MaxLag = 1
  StoreFails = FALSE
INVARIANT SingleProbe
