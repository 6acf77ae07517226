CONSTANTS
  Lower <- MCLower
  Place <- MCPlace
  Clean <- MCClean
  SynonymLines <- MCSynonymLines
  StopLines <- MCStopLines
  Years <- MCYears
  Songs <- MCSongs
  NoSong = NoSong
  ArtistAsked <- MCArtistAsked
  Recordings <- MCRecordings
  Artists <- MCArtists
  RetryAfters <- MCRetryAfters
  TaggedLimit = 4
  PlainLimit = 2
  MinScore = 90
  MaxMerged = 2
  RecordingWeight = 2
  MinRecordingTags = 3
  LowDataTags = 3
  Second = 4
  Word = 34
  DefaultRetryAfter = 4
  MaxRetryAfter = 8
SPECIFICATION Spec
INVARIANTS
  ThinBeatsNone
