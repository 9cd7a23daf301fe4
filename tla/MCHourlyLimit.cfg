SPECIFICATION Spec
CONSTANTS
    e1 = e1
    g1 = g1
    r1 = r1
    r2 = r2
    Emails = {e1}
    Googles = {g1}
    GoogleEmail <- OneGoogleEmail
    Requests = {r1}
    Routes = {"register", "resend-verification"}
    TimePasses = TRUE
    Hour = 7
    ResetLife = 2
    Cooldown = 1
    Limit = 2
    MaxTokens = 3
    MaxPasswords = 1
    MaxSessions = 0
    Nothing = Nothing
CHECK_DEADLOCK FALSE
INVARIANT HourlyLimit
