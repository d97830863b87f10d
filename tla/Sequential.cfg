SPECIFICATION Spec
CONSTANTS
  VGA_SCREEN_LINES = 2
  VGA_SCREEN_COLUMNS = 16
  Letters = {"a", "b"}
  Texts <- MCTexts
  MaxTexts = 5
  Width = 4
  Formats <- MCFormats
  Sizes = {0, 1, 3, 5, 20}
  Values = {0, 1, 2, 3, 4, 12}
  InitialMod = 1
  Slack = 4
  TASK_FIFO_LEN = 2
  Boots <- MCBoots
  SEARCH_ZONE_LEN = 96
  PHYSICAL_MEMORY = 500
  Files <- MCFiles
  AnyTag <- MCAnyTag
  AnyLength = {0, 40}
INVARIANTS
  BoundedPrint
  ConversionsReadBack
  NoElementLost
  AppendFits
  TasksFound
  LoadedInPlace
PROPERTIES
  PrintsOnPaper
CHECK_DEADLOCK FALSE
