SPECIFICATION FairSpec
CONSTANTS
  d1 = d1 p1 = p1 p2 = p2 h1 = h1 h2 = h2 t1 = t1 t2 = t2
  Device = {d1}
  Pass = {p1}
  DeviceOf <- SinglePass
  Score = {s1, s2}
  Valid = {s1, s2}
  Receivable = {s1}
  Title = {t1}
  Handler = {h1, h2}
  Nobody = Nobody
  NoTitle = NoTitle
  NoScore = NoScore
INVARIANTS NeverUploadedIsKept
PROPERTIES NewScoreIsUploaded StoredScoreArrives DeletionArrives
