SPECIFICATION Spec
CONSTANTS
  Entry = {e1, e2, e3}
  NIL = NIL
  OneResult = {"STOP", "KEEP", "IGNORE"}
INVARIANT LastEndsList
