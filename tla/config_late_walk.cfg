CONSTANTS
    Profiles = {p}
    Values = {none, a}
    NoValue = none
    Managers = {m, n}
    Requests = {r}
    Walks = {w}
    Edits = {e, f}
    Commands = {}
    MaxTokens = 4
    MaxFaults = 0
    Final = {"overlap", "torn", "masked"}
SPECIFICATION Spec
INVARIANTS
  EditsSurviveWalks
CHECK_DEADLOCK FALSE
