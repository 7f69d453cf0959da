SPECIFICATION TSpec
CONSTANTS
  NULL = NULL
  Paths = {plain, git, config, oracle, link, gitignore, hidden}
  Contents = {x, y}
  Authority = {git}
  Controls = {config}
  Unlisted = {oracle}
  Links = {link}
  IgnoreFile = gitignore
  IgnoreText = x
  Concealed = {hidden}
  Shared = {plain}
  MaxCalls = 4
  MaxOutside = 1
CHECK_DEADLOCK FALSE
INVARIANTS
  UntouchableKept
  OutcomeIsTrue
PROPERTIES
  NoBlindWrite
