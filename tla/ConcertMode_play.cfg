SPECIFICATION Spec
CONSTANTS
  a = a b = b
  Stand = {a, b}
  Leaders = {a}
  Followers = {b}
  Previewers = {a}
  Items = 2
  Pages <- SpreadAndBreak
  Wide = {a}
  Near <- OneNear
  Stream = {c1}
  Room = 1
  None = None
  Turners = {a, b}
INVARIANTS PagesExist InStep
PROPERTIES PreviewStaysLocal
CHECK_DEADLOCK FALSE
