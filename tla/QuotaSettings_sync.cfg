CONSTANTS
  Values = {0, 1}
  Default = 0
  None = None
  Configurations <- MCConfigurations
  MaxUpsets = 2
  MaxSaves = 2
SPECIFICATION Spec
INVARIANTS TypeOK MenuMatchesConfig
PROPERTIES NoSilentRevert SettingsConverge
CHECK_DEADLOCK FALSE
