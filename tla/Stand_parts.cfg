SPECIFICATION StandSpec
CONSTANTS
  MaxStarts = 2 MaxConcerts = 2 MaxPairs = 2 MaxCommands = 1 QueueCap = 1 ScorePages = 2
  Browser = {b1, b2} Code = {c1, c2} MaxRequests = 3 MaxSessions = 2
  Song = {s1, s2} MaxSeconds = 2 MaxTakes = 1 MaxLength = 2
  MaxProcesses = 3 MaxViewers = 2 MaxCalibrations = 1
  Pages = 3 MaxDrift = 2
  Address = {a1, a2} MaxBus = 2 MaxStrip = 1 MaxLevel = 1
  ShortPin = {short} LongPin = {long} WordPin = {word} MaxProfiles = 2
  Invitation = {i1, i2}
  Piece = {p1} Title = {t1} Break = pause NoTitle = none MaxItems = 2
  MaxMeasure = 2 MaxElapsed = 2 MaxFlying = 2
INVARIANTS ActsOnItsConcert PairedByConsent StoredAfterConfirm DictaphoneIsSound TrackerStops PageAtRest ProfilesAreKept AnswersCount SetlistIsGenuine EditorKeepsItems OneTapStops
PROPERTY OnlyHandsMoveFaders
CHECK_DEADLOCK FALSE
