\* The preferences dialog over three configurations, with up to four changes.
CONSTANTS
  Dirs <- MCDirs
  DefaultDir = "private"
  Choices <- MCChoices
  Configs <- MCConfigs
  MaxClicks = 4

SPECIFICATION Spec

INVARIANT TypeOK
INVARIANT UsableAsChosen

PROPERTY OKKeepsTheRest
