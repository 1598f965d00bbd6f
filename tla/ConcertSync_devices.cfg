SPECIFICATION CalmSpec
CONSTANTS
  d1 = d1 d2 = d2 p1 = p1 p2 = p2 h1 = h1 v1 = v1
  Device = {d1, d2}
  Pass = {p1, p2}
  DeviceOf <- PassPerDevice
  Concert = {c1}
  Version = {v1}
  Length <- OneVersion
  MaxCopies = 1
  Handler = {h1}
  Nobody = Nobody
  NoName = NoName
  NoConcert = NoConcert
SYMMETRY Devices
INVARIANTS PulledItemsAreCurrent CalmPassAgrees
PROPERTY KeepsCustody
