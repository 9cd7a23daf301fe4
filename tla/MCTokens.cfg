SPECIFICATION FairSpec
CONSTANTS
    e1 = e1
    g1 = g1
    r1 = r1
    r2 = r2
    Emails = {e1}
    Googles = {g1}
    GoogleEmail <- OneGoogleEmail
    Requests = {r1, r2}
    Routes = {"register", "resend-verification", "verify-email"}
    TimePasses = TRUE
    Hour = 3
    ResetLife = 2
    Cooldown = 1
    Limit = 3
    MaxTokens = 4
    MaxPasswords = 2
    MaxSessions = 0
    Nothing = Nothing
CHECK_DEADLOCK FALSE

PROPERTIES CooldownKept ResendReopens
