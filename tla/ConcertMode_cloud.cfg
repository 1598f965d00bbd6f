SPECIFICATION Spec
CONSTANTS
  a = a b = b
  Stand = {a, b}
  Leaders = {a}
  Followers = {b}
  Previewers = {}
  Items = 2
  Pages <- SongAndBreak
  Wide = {}
  Near = {}
  Stream = {c1, c2}
  Room = 1
  None = None
 Turners = {a}
SYMMETRY Streams
INVARIANTS InStep Flows
CHECK_DEADLOCK FALSE
