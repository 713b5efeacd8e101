\* Three edits of a config file and two profiles, and a manual reload; agents
\* read what they are sent.
CONSTANTS
  Config = Config
  Profiles = {"p", "q"}
  InPlace = {Config}
  MaxEdits = 3
  MaxManual = 1
SPECIFICATION ReadingSpec
CHECK_DEADLOCK FALSE
INVARIANTS
  QuietMeansCurrent
PROPERTIES
  NeverBackwards
  EditsTakeEffect
