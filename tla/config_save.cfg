\* The settings window saves a file that says what it does not show.
CONSTANTS
  Agents = {}
  MaxSaves = 1
  MaxKills = 1
  Versions = {0, 1}

SPECIFICATION ConfigSpec

INVARIANT SavedIsShown

\* The bounds end every behaviour.
CHECK_DEADLOCK FALSE
