SPECIFICATION CalmSpec
CONSTANTS
  d1 = d1 d2 = d2 p1 = p1 p2 = p2 t1 = t1
  Device = {d1, d2}
  Pass = {p1, p2}
  DeviceOf <- PassPerDevice
  Score = {s1}
  Valid = {s1}
  Receivable = {s1}
  Title = {t1}
  Handler = {h1}
  Nobody = Nobody
  NoTitle = NoTitle
  NoScore = NoScore
SYMMETRY Devices
INVARIANT CalmPassAgrees
PROPERTY KeepsCustody
