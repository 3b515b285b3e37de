CONSTANTS
  AppUids = {a, b}
  Given <- MCGiven
  FirstFiles <- MCFirstFiles
  MaxChanges = 2
  MaxBoots = 2
  None = None
SPECIFICATION FileFairSpec
INVARIANTS
  SavedWhenQuiet
  SurvivesReboot
  NothingInvented
PROPERTIES
  EventuallySaved
CHECK_DEADLOCK FALSE
