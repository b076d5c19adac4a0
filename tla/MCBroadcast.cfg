CONSTANTS
  Station = {"DCF77", "WWVB", "JJY40", "JJY60", "MSF", "BPC"}
  ZoneOf <- MCZoneOf
  Listened <- MCListened
  ZoneOffset <- MCZoneOffset
  Age = {0, 1}
SPECIFICATION Spec
INVARIANTS
  ClockShowsTheTime
  MarkIsUnambiguous
  PatternsFit
  PageAnnouncesTheTime
  DriftIsNearest
  DividerIsBest
CHECK_DEADLOCK FALSE
