SPECIFICATION Spec
CONSTANTS
  A = A
  B = B
  Config = Config
  Absent = Absent
  Units <- MCUnits
  Texts <- MCTexts
  Configs <- MCConfigs
  Findings <- MCFindings
  ParseFindings <- MCParseFindings
  ContextFindings <- MCContextFindings
  ModelFindings <- MCModelFindings
  LintFindings <- MCLintFindings
  ConfigFindings <- MCConfigFindings
  DiskTexts <- MCDiskTexts
  Prompt = TRUE
  MaxEdits = 2
  MaxOutside = 1
  MaxPanics = 1
SYMMETRY Symmetry
INVARIANTS TypeOK LatestSnapshot ViewIsCurrent NoSilentLoss ToldOnce
CHECK_DEADLOCK FALSE
