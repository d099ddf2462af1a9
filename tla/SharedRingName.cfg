\* One run, under a name given without its slash.
CONSTANTS
  m1 = m1
  Library = {"hook.so"}
  DefaultLibrary = "hook.so"
  Session = {m1}
  CommandLines <- SlashlessLines
  MaxEvents = 1
  MaxTaken = 1
SPECIFICATION Spec
INVARIANT AnyNameFindsRing
CHECK_DEADLOCK FALSE
