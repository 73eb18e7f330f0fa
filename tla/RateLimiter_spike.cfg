\* One agent: five requests in a first window, then room for the seventeen of
\* a later one that make the last check see more than three times five.
SPECIFICATION Spec
CONSTANTS
  Agents = {a1}
  Burst = 18
  Window = 1
  MaxTime = 3
INVARIANT SpikeDetected
CHECK_DEADLOCK FALSE
