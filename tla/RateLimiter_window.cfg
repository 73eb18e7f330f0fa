\* One agent: time for the window to fill to the cap, to empty in several steps
\* and to fill again; the bound of the window is met exactly.
SPECIFICATION Spec
CONSTANTS
  Agents = {a1}
  Burst = 9
  Window = 2
  MaxTime = 5
INVARIANT BurstBound
PROPERTY ImplementsSlidingWindow
CHECK_DEADLOCK FALSE
