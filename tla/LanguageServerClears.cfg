SPECIFICATION Spec
CONSTANTS
  A = A
  B = B
  Config = Config
  Absent = Absent
  Units <- MCUnits
  Texts = {"def"}
  Configs <- MCConfigs
  Findings <- MCFindings
  ParseFindings <- MCParseFindings
  ContextFindings <- MCContextFindings
  ModelFindings <- MCModelFindings
  LintFindings <- MCLintFindings
  ConfigFindings <- MCConfigFindings
  DiskTexts = {"def"}
  Prompt = TRUE
  MaxEdits = 2
  MaxOutside = 1
  MaxPanics = 0
SYMMETRY Symmetry
INVARIANT ClearsVanished
CHECK_DEADLOCK FALSE
