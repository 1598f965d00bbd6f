SPECIFICATION Spec
CONSTANTS
  d1 = d1 p1 = p1 h1 = h1 v1 = v1 v2 = v2
  Device = {d1}
  Pass = {p1}
  DeviceOf <- SinglePass
  Concert = {c1}
  Version = {v1, v2}
  Length <- OneItem
  MaxCopies = 2
  Handler = {h1}
  Nobody = Nobody
  NoName = NoName
  NoConcert = NoConcert
PROPERTIES SavedEditIsSent
