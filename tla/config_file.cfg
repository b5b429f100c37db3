CONSTANTS
    Profiles = {p}
    Values = {none, a}
    NoValue = none
    Managers = {m, n}
    Requests = {r}
    Walks = {w}
    Edits = {e, f}
    Commands = {c}
    MaxTokens = 4
    MaxFaults = 1
    Final = {"overlap", "late", "torn", "masked"}
SPECIFICATION Spec
INVARIANTS
  TypeOK
  SavedChangesStay
  TokensStayUsable
  RequestsPresentFreshTokens
SYMMETRY Symmetry
CHECK_DEADLOCK FALSE
