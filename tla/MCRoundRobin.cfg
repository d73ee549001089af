\* Three servers: two requests retry while servers fail and are reweighed at
\* any time, or nothing changes under any weights up to five.
SPECIFICATION Spec
CONSTANTS
  N = 3
  CalmWeight = 5
  MaxWeight = 1
  Requests = {r1, r2}
  Wrap = 6
SYMMETRY Interchangeable
INVARIANTS TypeOK Bounded NoStarvation ExactShare Smooth
