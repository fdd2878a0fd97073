SPECIFICATION Spec
CONSTANTS
  Handlers = {h1, h2}
  Fields = {f1, f2}
  Values = {v0, v1}
  Default = v0
  None = None
  Absent = Absent
  Damaged = Damaged
  MaxPosts = 1
  MaxCrashes = 0
CHECK_DEADLOCK FALSE
PROPERTIES
  RefusedChangesNothing
