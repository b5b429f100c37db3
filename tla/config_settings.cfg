CONSTANTS
    Profiles = {p}
    Values = {none, a}
    NoValue = none
    Managers = {m, n}
    Requests = {}
    Walks = {w}
    Edits = {e}
    Commands = {}
    MaxTokens = 4
    MaxFaults = 0
    Final = {"overlap", "torn"}
SPECIFICATION Spec
INVARIANTS
  SettingsKeepCredentials
CHECK_DEADLOCK FALSE
