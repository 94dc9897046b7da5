SPECIFICATION Spec
CONSTANTS
    MAX_PLAYERS = 2
    ALLOWED_ED_CMDS = 1
    MaxNumCmds <- Limits
    Asks <- Prompts
    Habits = {}
    MaxLines <- Lines
    MaxHandlers <- Room
INVARIANT PasswordsHidden
