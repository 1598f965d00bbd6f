SPECIFICATION Spec
CONSTANTS
  d1 = d1 p1 = p1 p2 = p2 h1 = h1 h2 = h2 t1 = t1 t2 = t2
  Device = {d1}
  Pass = {p1, p2}
  DeviceOf <- SharedDevice
  Score = {s1}
  Valid = {s1}
  Receivable = {s1}
  Title = {t1, t2}
  Handler = {h1}
  Nobody = Nobody
  NoTitle = NoTitle
  NoScore = NoScore
SYMMETRY PassesAndTitles
INVARIANTS SyncedTitleWasServed
