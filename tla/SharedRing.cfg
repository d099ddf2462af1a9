\* Two monitors, one after the other or side by side.
CONSTANTS
  m1 = m1
  m2 = m2
  Library = {"hook.so"}
  DefaultLibrary = "hook.so"
  Session = {m1, m2}
  CommandLines <- Lines
  MaxEvents = 2
  MaxTaken = 2
SYMMETRY Symmetry
SPECIFICATION Spec
INVARIANTS TypeOK OwnEvents RunFindsRing NoLeftover
\* Everybody may end.
CHECK_DEADLOCK FALSE
