SPECIFICATION FairSpec
CONSTANTS
  A = A
  B = B
  Config = Config
  Absent = Absent
  Units <- MCUnits
  Texts = {"def", "use"}
  Configs = {"bad"}
  Findings <- MCFindings
  ParseFindings <- MCParseFindings
  ContextFindings <- MCContextFindings
  ModelFindings <- MCModelFindings
  LintFindings <- MCLintFindings
  ConfigFindings <- MCConfigFindings
  DiskTexts = {"def"}
  Prompt = FALSE
  MaxEdits = 2
  MaxOutside = 0
  MaxPanics = 1
PROPERTIES Settles WorkerEnds
CHECK_DEADLOCK FALSE
