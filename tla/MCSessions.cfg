SPECIFICATION Spec
CONSTANTS
    e1 = e1
    g1 = g1
    r1 = r1
    r2 = r2
    Emails = {e1}
    Googles = {g1}
    GoogleEmail <- OneGoogleEmail
    Requests = {r1, r2}
    Routes = {"register", "forgot-password", "reset-password", "login", "logout", "become-organizer", "google"}
    TimePasses = FALSE
    Hour = 3
    ResetLife = 2
    Cooldown = 1
    Limit = 2
    MaxTokens = 3
    MaxPasswords = 3
    MaxSessions = 1
    Nothing = Nothing
CHECK_DEADLOCK FALSE
SYMMETRY RequestSymmetry
INVARIANTS TypeOK ResetSignsOut LinkedIsVerified
PROPERTIES NoLostUpdate
