------------------------------ MODULE Accounts ------------------------------
(***************************************************************************)
(* Accounts, their mailed tokens, their sessions and their Google links,   *)
(* as cmd/server/auth.go, users.go and middleware.go keep them in the      *)
(* tables users, verifications, sessions and oauth_accounts.               *)
(*                                                                         *)
(* No handler opens a transaction: each statement commits on its own, and  *)
(* a request is the sequence of its statements.  `req' holds what a        *)
(* request has read and acts on later.  Die ends a request at any of its   *)
(* steps; it stands for an error that the handler answers with 500, the 5s *)
(* timeout of a query and a stop of the process.  An error that the        *)
(* handler logs and ignores is a disjunct of the step.                     *)
(*                                                                         *)
(* A password is the number of the write that stored its hash, and users   *)
(* know their password.  A token is its place in the order of creation;    *)
(* whoever is mailed it may use it whenever they like or, when the mail is *)
(* lost, never, so that enqueueing and mailing it change nothing here.     *)
(* Sessions end after 30 days, long after anything this module looks at.   *)
(***************************************************************************)
EXTENDS Naturals, Sequences, FiniteSets

CONSTANTS
    Emails,       \* lower-cased addresses
    Googles,      \* Google accounts
    GoogleEmail,  \* the address of each Google account
    Requests,     \* requests under way at a time
    Routes,       \* the routes that the clients of an instance call
    TimePasses,   \* FALSE in an instance that takes less than a tick
    Hour,         \* window of the limit and life of a verification, in ticks
    ResetLife,    \* life of a password reset
    Cooldown,     \* pause between two tokens
    Limit,        \* tokens counted within an hour
    MaxTokens, MaxPasswords, MaxSessions,   \* bounds on the rows written
    Nothing

Kinds == {"verify", "reset"}
\* hash 0 is NULL: an account that has no password.
User == [hash : Nat, verified : BOOLEAN, organizer : BOOLEAN]

ASSUME TimesAssumption ==
    /\ {Cooldown, ResetLife, Hour, Limit} \subseteq Nat \ {0}
    /\ Cooldown < ResetLife
    /\ ResetLife < Hour
ASSUME RoutesAssumption ==
    Routes \subseteq {"register", "resend-verification", "forgot-password", "verify-email",
                      "reset-password", "login", "logout", "become-organizer", "google"}
ASSUME GoogleAssumption == GoogleEmail \in [Googles -> Emails]
ASSUME NothingAssumption == Nothing \notin Emails \cup Googles \cup Kinds \cup User
ASSUME BoundsAssumption == {MaxTokens, MaxPasswords, MaxSessions} \subseteq Nat

VARIABLES
    users,      \* the row of each address, or Nothing
    tokens,     \* every row of verifications ever stored, in order
    sessions,   \* rows of sessions
    links,      \* oauth_accounts: the address a Google account is linked to
    passwords,  \* password hashes written so far
    req,        \* what each request is about to do, and what it has read
    spared,     \* history: a reset changed the password, and the statement
                \* that ends the sessions failed
    unmarked    \* history: marking the address as verified failed, and the
                \* callback went on

vars == <<users, tokens, sessions, links, passwords, req, spared, unmarked>>

\* A row is "stored"; "replaced" once a request that had seen it has deleted
\* all rows of its identifier; "gone" once deleted in any other way.
Token == [kind : Kinds, email : Emails, age : 0..Hour, row : {"stored", "replaced", "gone"}]
Session == [id : Nat, email : Emails, by : Nat, late : BOOLEAN]
Steps == {"idle", "latest", "count", "clear", "store", "mark", "password", "delete", "signout",
          "session", "logout", "organize", "find", "create", "vouch", "link"}
Idle == [step |-> "idle", kind |-> Nothing, email |-> Nothing, google |-> Nothing,
         user |-> Nothing, id |-> 0, seen |-> 0]

Init ==
    /\ users = [e \in Emails |-> Nothing]
    /\ tokens = <<>>
    /\ sessions = {}
    /\ links = [g \in Googles |-> Nothing]
    /\ passwords = 0
    /\ req = [r \in Requests |-> Idle]
    /\ spared = {}
    /\ unmarked = {}

At(r, step) == req[r].step = step
Goto(r, step) == req' = [req EXCEPT ![r].step = step]
Return(r) == req' = [req EXCEPT ![r] = Idle]

-----------------------------------------------------------------------------
(* The tables.                                                             *)

SetUser(e, row) == users' = [users EXCEPT ![e] = row]

\* The rows that carry the identifier "<kind>:<email>".
RowsOf(kind, email) ==
    {t \in DOMAIN tokens :
        /\ tokens[t].kind = kind
        /\ tokens[t].email = email
        /\ tokens[t].row = "stored"}

Latest_oldest(rows) ==     \* ORDER BY created_at ASC
    IF rows = {} THEN 0 ELSE CHOOSE t \in rows : \A u \in rows : t <= u

\* ORDER BY created_at DESC LIMIT 1; 0 when there is none.
Latest(rows) == IF rows = {} THEN 0 ELSE CHOOSE t \in rows : \A u \in rows : u <= t

Expired(t) == tokens[t].age >= (IF tokens[t].kind = "verify" THEN Hour ELSE ResetLife)

\* without AND created_at > $2
CountSince_ever(kind, email) == Cardinality(RowsOf(kind, email))

CountSince(kind, email) == Cardinality({t \in RowsOf(kind, email) : tokens[t].age < Hour})

Allowed(latest, count) == latest = 0 \/ (count < Limit /\ tokens[latest].age > Cooldown)

\* Ids that no row has and no request is about to delete.
FreeIds == (1..MaxSessions) \ ({s.id : s \in sessions} \cup {req[r].id : r \in {q \in Requests : At(q, "logout")}})

-----------------------------------------------------------------------------
(* registerUser; of two requests for an address the second meets the       *)
(* unique index and writes nothing.                                        *)

Register(r, e) ==
    /\ At(r, "idle")
    /\ users[e] = Nothing
    /\ passwords < MaxPasswords
    /\ SetUser(e, [hash |-> passwords + 1, verified |-> FALSE, organizer |-> FALSE])
    /\ passwords' = passwords + 1
    /\ req' = [req EXCEPT ![r] = [Idle EXCEPT !.step = "store", !.kind = "verify", !.email = e]]
    /\ UNCHANGED <<tokens, sessions, links, spared, unmarked>>

-----------------------------------------------------------------------------
(* resendVerificationEmail (kind "verify") and forgotPassword ("reset").   *)

Ask(r, kind, e) ==
    /\ At(r, "idle")
    /\ users[e] # Nothing
    /\ kind = "verify" => ~users[e].verified
    /\ req' = [req EXCEPT ![r] = [Idle EXCEPT !.step = "latest", !.kind = kind, !.email = e]]
    /\ UNCHANGED <<users, tokens, sessions, links, passwords, spared, unmarked>>

GetLatest(r) ==
    /\ At(r, "latest")
    /\ req' = [req EXCEPT ![r].step = "count",
                          ![r].id = Latest(RowsOf(req[r].kind, req[r].email)),
                          ![r].seen = Len(tokens)]
    /\ UNCHANGED <<users, tokens, sessions, links, passwords, spared, unmarked>>

Decide(r) ==
    /\ At(r, "count")
    /\ IF Allowed(req[r].id, CountSince(req[r].kind, req[r].email))
       THEN Goto(r, "clear")
       ELSE Return(r)
    /\ UNCHANGED <<users, tokens, sessions, links, passwords, spared, unmarked>>

DeleteByIdentifier(r) ==
    /\ At(r, "clear")
    /\ \/ tokens' = [t \in DOMAIN tokens |->
                        IF t \in RowsOf(req[r].kind, req[r].email)
                        THEN [tokens[t] EXCEPT !.row = IF t <= req[r].seen THEN "replaced" ELSE "gone"]
                        ELSE tokens[t]]
       \/ UNCHANGED tokens
    /\ Goto(r, "store")
    /\ UNCHANGED <<users, sessions, links, passwords, spared, unmarked>>

\* Shared with registerUser.
StoreToken(r) ==
    /\ At(r, "store")
    /\ Len(tokens) < MaxTokens
    /\ tokens' = Append(tokens, [kind |-> req[r].kind, email |-> req[r].email,
                                 age |-> 0, row |-> "stored"])
    /\ Return(r)
    /\ UNCHANGED <<users, sessions, links, passwords, spared, unmarked>>

-----------------------------------------------------------------------------
(* verifyEmail and resetPassword.                                          *)

\* Get, the test of expires_at and of the identifier's prefix; a token of the
\* other kind is an error that changes nothing.  Addresses never change, so
\* that resetPassword's user is the token's.
Redeem(r, t, kind, step) ==
    /\ At(r, "idle")
    /\ tokens[t].row = "stored"
    /\ ~Expired(t)
    /\ tokens[t].kind = kind
    /\ req' = [req EXCEPT ![r] = [Idle EXCEPT !.step = step, !.kind = kind,
                                              !.email = tokens[t].email, !.id = t]]
    /\ UNCHANGED <<users, tokens, sessions, links, passwords, spared, unmarked>>

VerifyEmail(r, t) == Redeem(r, t, "verify", "mark")
BeginReset(r, t) == Redeem(r, t, "reset", "password")

\* Either handler deletes an expired token, of whatever kind, and refuses.
RefuseExpired(r, t) ==
    /\ At(r, "idle")
    /\ tokens[t].row = "stored"
    /\ Expired(t)
    /\ req' = [req EXCEPT ![r] = [Idle EXCEPT !.step = "delete", !.id = t]]
    /\ UNCHANGED <<users, tokens, sessions, links, passwords, spared, unmarked>>

MarkVerified(r) ==
    /\ At(r, "mark")
    /\ SetUser(req[r].email, [users[req[r].email] EXCEPT !.verified = TRUE])
    /\ Goto(r, "delete")
    /\ UNCHANGED <<tokens, sessions, links, passwords, spared, unmarked>>

ResetPassword(r) ==
    /\ At(r, "password")
    /\ passwords < MaxPasswords
    /\ SetUser(req[r].email, [users[req[r].email] EXCEPT !.hash = passwords + 1])
    /\ passwords' = passwords + 1
    /\ Goto(r, "delete")
    /\ UNCHANGED <<tokens, sessions, links, spared, unmarked>>

DeleteToken_returns(r) ==     \* returns when the deletion fails
    /\ At(r, "delete")
    /\ \/ /\ tokens[req[r].id].row = "stored"
          /\ tokens' = [tokens EXCEPT ![req[r].id].row = "gone"]
          /\ IF req[r].kind = "reset" THEN Goto(r, "signout") ELSE Return(r)
       \/ UNCHANGED tokens /\ Return(r)
    /\ UNCHANGED <<users, sessions, links, passwords, spared, unmarked>>

DeleteToken(r) ==
    /\ At(r, "delete")
    /\ \/ /\ tokens[req[r].id].row = "stored"
          /\ tokens' = [tokens EXCEPT ![req[r].id].row = "gone"]
       \/ UNCHANGED tokens
    /\ IF req[r].kind = "reset" THEN Goto(r, "signout") ELSE Return(r)
    /\ UNCHANGED <<users, sessions, links, passwords, spared, unmarked>>

DeleteAllSessions(r) ==
    /\ At(r, "signout")
    /\ \/ /\ sessions' = {s \in sessions : s.email # req[r].email}
          /\ spared' = spared \ {req[r].email}
       \/ /\ UNCHANGED sessions
          /\ spared' = spared \cup {req[r].email}
    /\ Return(r)
    /\ UNCHANGED <<users, tokens, links, passwords, unmarked>>

-----------------------------------------------------------------------------
(* Sessions: loginUser, logoutUser, becomeOrganizer.                       *)

\* GetByEmail, and the password matches the hash that was read.
Login(r, e) ==
    /\ At(r, "idle")
    /\ users[e] # Nothing
    /\ users[e].hash # 0
    /\ req' = [req EXCEPT ![r] = [Idle EXCEPT !.step = "session", !.email = e, !.user = users[e]]]
    /\ UNCHANGED <<users, tokens, sessions, links, passwords, spared, unmarked>>

\* `by' is the password that opened the session, 0 when Google vouched for
\* the user.  `late' records that the password had changed since it was read.
CreateSession(r) ==
    LET by == IF req[r].google = Nothing THEN req[r].user.hash ELSE 0
    IN  /\ At(r, "session")
        /\ \E i \in FreeIds :
              sessions' = sessions \cup
                 {[id |-> i, email |-> req[r].email, by |-> by,
                   late |-> by \notin {0, users[req[r].email].hash}]}
        /\ Return(r)
        /\ UNCHANGED <<users, tokens, links, passwords, spared, unmarked>>

\* requireAuth reads the session and its user.
Authenticate(r, s, step) ==
    /\ At(r, "idle")
    /\ req' = [req EXCEPT ![r] = [Idle EXCEPT !.step = step, !.email = s.email,
                                              !.user = users[s.email], !.id = s.id]]
    /\ UNCHANGED <<users, tokens, sessions, links, passwords, spared, unmarked>>

Logout(r) ==
    /\ At(r, "logout")
    /\ sessions' = {s \in sessions : s.id # req[r].id}
    /\ Return(r)
    /\ UNCHANGED <<users, tokens, links, passwords, spared, unmarked>>

BecomeOrganizer_row(r) ==     \* writes back the row it has read
    /\ At(r, "organize")
    /\ SetUser(req[r].email, [req[r].user EXCEPT !.organizer = TRUE])
    /\ Return(r)
    /\ UNCHANGED <<tokens, sessions, links, passwords, spared, unmarked>>

BecomeOrganizer(r) ==
    /\ At(r, "organize")
    /\ IF req[r].user.organizer
       THEN UNCHANGED users
       ELSE SetUser(req[r].email, [users[req[r].email] EXCEPT !.organizer = TRUE])
    /\ Return(r)
    /\ UNCHANGED <<tokens, sessions, links, passwords, spared, unmarked>>

-----------------------------------------------------------------------------
(* googleCallback, after Google has answered who the user is.              *)

\* GetByProviderAndAccountID
GoogleBegin(r, g) ==
    /\ At(r, "idle")
    /\ req' = [req EXCEPT ![r] =
                 IF links[g] # Nothing
                 THEN [Idle EXCEPT !.step = "session", !.google = g, !.email = links[g]]
                 ELSE [Idle EXCEPT !.step = "find", !.google = g, !.email = GoogleEmail[g]]]
    /\ UNCHANGED <<users, tokens, sessions, links, passwords, spared, unmarked>>

GoogleFind_trusts(r) ==     \* a found account is linked as it is
    /\ At(r, "find")
    /\ Goto(r, IF users[req[r].email] = Nothing THEN "create" ELSE "link")
    /\ UNCHANGED <<users, tokens, sessions, links, passwords, spared, unmarked>>

GoogleFind_missing(r) ==     \* goes on without a user
    /\ At(r, "find")
    /\ Goto(r, IF users[req[r].email] = Nothing \/ users[req[r].email].verified
               THEN "link" ELSE "vouch")
    /\ UNCHANGED <<users, tokens, sessions, links, passwords, spared, unmarked>>

\* GetByEmail
GoogleFind(r) ==
    LET row == users[req[r].email]
    IN  /\ At(r, "find")
        /\ Goto(r, IF row = Nothing THEN "create" ELSE IF row.verified THEN "link" ELSE "vouch")
        /\ UNCHANGED <<users, tokens, sessions, links, passwords, spared, unmarked>>

GoogleCreate(r) ==
    /\ At(r, "create")
    /\ IF users[req[r].email] = Nothing
       THEN /\ SetUser(req[r].email, [hash |-> 0, verified |-> TRUE, organizer |-> FALSE])
            /\ Goto(r, "link")
       ELSE UNCHANGED users /\ Return(r)
    /\ UNCHANGED <<tokens, sessions, links, passwords, spared, unmarked>>

GoogleVouch(r) ==
    /\ At(r, "vouch")
    /\ \/ /\ SetUser(req[r].email, [users[req[r].email] EXCEPT !.verified = TRUE])
          /\ UNCHANGED unmarked
       \/ /\ UNCHANGED users
          /\ unmarked' = unmarked \cup {req[r].email}
    /\ Goto(r, "link")
    /\ UNCHANGED <<tokens, sessions, links, passwords, spared>>

GoogleLink(r) ==
    /\ At(r, "link")
    /\ IF links[req[r].google] = Nothing
       THEN /\ links' = [links EXCEPT ![req[r].google] = req[r].email]
            /\ Goto(r, "session")
       ELSE UNCHANGED links /\ Return(r)
    /\ UNCHANGED <<users, tokens, sessions, passwords, spared, unmarked>>

-----------------------------------------------------------------------------
\* The password is changed and the sessions are still there.
Resetting(r) == req[r].kind = "reset" /\ req[r].step \in {"delete", "signout"}

Die(r) ==
    /\ ~At(r, "idle")
    /\ spared' = IF Resetting(r) THEN spared \cup {req[r].email} ELSE spared
    /\ Return(r)
    /\ UNCHANGED <<users, tokens, sessions, links, passwords, unmarked>>

\* Ages stop at an hour, after which nothing depends on them.
Tick ==
    /\ TimePasses
    /\ \E t \in DOMAIN tokens : tokens[t].age < Hour
    /\ tokens' = [t \in DOMAIN tokens |->
                    [tokens[t] EXCEPT !.age = IF @ < Hour THEN @ + 1 ELSE @]]
    /\ UNCHANGED <<users, sessions, links, passwords, req, spared, unmarked>>

\* The first statement of a request, by route.
Call(r) ==
    \/ \E e \in Emails :
          \/ "register" \in Routes /\ Register(r, e)
          \/ "login" \in Routes /\ Login(r, e)
          \/ "resend-verification" \in Routes /\ Ask(r, "verify", e)
          \/ "forgot-password" \in Routes /\ Ask(r, "reset", e)
    \/ \E t \in DOMAIN tokens :
          \/ "verify-email" \in Routes /\ VerifyEmail(r, t)
          \/ "reset-password" \in Routes /\ BeginReset(r, t)
          \/ {"verify-email", "reset-password"} \cap Routes # {} /\ RefuseExpired(r, t)
    \/ \E s \in sessions :
          \/ "logout" \in Routes /\ Authenticate(r, s, "logout")
          \/ "become-organizer" \in Routes /\ Authenticate(r, s, "organize")
    \/ \E g \in Googles : "google" \in Routes /\ GoogleBegin(r, g)

Next ==
    \/ \E r \in Requests :
          \/ Call(r)
          \/ GetLatest(r) \/ Decide(r) \/ DeleteByIdentifier(r) \/ StoreToken(r)
          \/ MarkVerified(r) \/ ResetPassword(r) \/ DeleteToken(r) \/ DeleteAllSessions(r)
          \/ CreateSession(r) \/ Logout(r) \/ BecomeOrganizer(r)
          \/ GoogleFind(r) \/ GoogleCreate(r) \/ GoogleVouch(r) \/ GoogleLink(r)
          \/ Die(r)
    \/ Tick

Spec == Init /\ [][Next]_vars

\* Time passes.  Nobody has to send a request, and none has to succeed.
FairSpec == Spec /\ WF_vars(Tick)

-----------------------------------------------------------------------------
(* Properties.                                                             *)

Request == [step : Steps, kind : Kinds \cup {Nothing}, email : Emails \cup {Nothing},
            google : Googles \cup {Nothing}, user : User \cup {Nothing}, id : Nat, seen : Nat]

HasAccount(e) == e \in Emails /\ users[e] # Nothing

\* What a request has read is what its step works on.
RequestOK(q) ==
    /\ q.seen <= Len(tokens)
    /\ q.step \in {"latest", "count", "clear", "store"} => q.kind \in Kinds
    /\ q.step \in {"mark", "password", "delete"} => q.id \in DOMAIN tokens
    /\ q.step \in {"password", "signout"} => q.kind = "reset"
    /\ q.step \in {"latest", "count", "clear", "store", "mark", "password", "signout",
                   "session", "logout", "organize", "vouch", "link"} => HasAccount(q.email)
    /\ q.step = "delete" /\ q.kind = "reset" => HasAccount(q.email)
    /\ q.step \in {"find", "create"} => q.email \in Emails
    /\ q.step \in {"find", "create", "vouch", "link"} => q.google \in Googles
    /\ q.step = "session" /\ q.google = Nothing => q.user \in User
    /\ q.step = "organize" => q.user \in User

\* Every variable keeps its type; whatever statements of other requests come
\* between two of its own, a request works on an account and a token there are.
TypeOK ==
    /\ users \in [Emails -> User \cup {Nothing}]
    /\ tokens \in Seq(Token)
    /\ Len(tokens) <= MaxTokens
    /\ \A t \in DOMAIN tokens : users[tokens[t].email] # Nothing
    /\ sessions \subseteq Session
    /\ \A s \in sessions : users[s.email] # Nothing /\ s.id \in 1..MaxSessions
    /\ \A s, t \in sessions : s.id = t.id => s = t
    /\ links \in [Googles -> Emails \cup {Nothing}]
    /\ \A g \in Googles : links[g] # Nothing => users[links[g]] # Nothing
    /\ passwords \in 0..MaxPasswords
    /\ spared \subseteq Emails /\ unmarked \subseteq Emails
    /\ req \in [Requests -> Request]
    /\ \A r \in Requests : RequestOK(req[r])

IsOf(t, q) == tokens[t].kind = q.kind /\ tokens[t].email = q.email

\* The cooldown of resendVerificationEmail and forgotPassword (lines 410 and
\* 528), as far as it can go without a lock: when a request stores a token,
\* every other token of the identifier that was there when the request looked
\* is older than the cooldown, whether it is still stored or was replaced by
\* an overlapping request.  A token that was used, or that a request deleted
\* without having seen it, no longer holds anybody back.
CooldownKept ==
    [][\A r \in Requests :
          (At(r, "store") /\ Len(tokens') > Len(tokens) /\ req'[r] # req[r]) =>
             \A t \in 1..req[r].seen :
                IsOf(t, req[r]) /\ tokens[t].row # "gone" => tokens[t].age > Cooldown]_vars

\* resetPassword ends the sessions of the account (line 666): a session that
\* an earlier password opened is left only while the reset is under way, when
\* ending the sessions failed, or when its login had read the old hash and
\* stored the session after the new one was written.
ResetSignsOut ==
    \A s \in sessions :
        s.by \in {0, users[s.email].hash}
        \/ s.late
        \/ s.email \in spared
        \/ \E r \in Requests : Resetting(r) /\ req[r].email = s.email

\* Requests that hold a copy of the user's row write single columns: none
\* undoes a verification, a role, a link or a password that another request
\* has stored meanwhile.
NoLostUpdate ==
    [][/\ \A e \in Emails : users[e] # Nothing =>
            /\ users'[e] # Nothing
            /\ users[e].verified => users'[e].verified
            /\ users[e].organizer => users'[e].organizer
            /\ users'[e].hash # users[e].hash =>
                  \E r \in Requests : At(r, "password") /\ req[r].email = e /\ req'[r] # req[r]
       /\ \A g \in Googles : links[g] # Nothing => links'[g] = links[g]]_vars

\* googleCallback takes Google's word for the address: whatever interleaves
\* and wherever it stops, an account is linked only once it is verified,
\* unless marking it failed and was logged (line 835).
LinkedIsVerified ==
    \A g \in Googles : links[g] # Nothing =>
        users[links[g]].verified \/ links[g] \in unmarked

\* googleCallback reaches the INSERT of a link for a verified account only.
LinkOK(q) == q.step = "link" => users[q.email].verified \/ q.email \in unmarked

\* A request that has looked knows the latest token; one that was allowed to
\* go on has seen no other than old ones.
CooldownOK(q) ==
    /\ q.step = "count" =>
          /\ q.id \in 0..Len(tokens)
          /\ \A t \in 1..q.seen : IsOf(t, q) /\ tokens[t].row = "stored" => t <= q.id
    /\ q.step \in {"clear", "store"} =>
          \A t \in 1..q.seen : IsOf(t, q) /\ tokens[t].row # "gone" => tokens[t].age > Cooldown

\* A token is as old as every later one, and none is replaced while it is young.
TokensAge ==
    /\ \A t \in DOMAIN tokens, u \in DOMAIN tokens : t <= u => tokens[t].age >= tokens[u].age
    /\ \A t \in DOMAIN tokens : tokens[t].row = "replaced" => tokens[t].age > Cooldown

\* Inductive: CooldownKept and NoLostUpdate follow from it as well.
IInv ==
    /\ TypeOK
    /\ ResetSignsOut
    /\ LinkedIsVerified
    /\ TokensAge
    /\ \A r \in Requests : LinkOK(req[r]) /\ CooldownOK(req[r])

\* Whatever tokens failed deletes and overlapping requests leave behind, an
\* unverified user who waits will be sent a new token.
ResendReopens ==
    \A e \in Emails :
        []<>(\/ users[e] = Nothing
             \/ users[e].verified
             \/ Allowed(Latest(RowsOf("verify", e)), CountSince("verify", e)))

-----------------------------------------------------------------------------
(* What comments say or a reader expects, and the code does not keep.      *)

\* "only allow resend if there are less than 5 verification tokens created in
\* an hour and none created in the last 1 minute" (auth.go:408).  The code
\* deletes the rows it counts, so that the limit never takes effect.
HourlyLimit ==
    \A e \in Emails, kind \in Kinds :
        Cardinality({t \in DOMAIN tokens :
            /\ tokens[t].kind = kind /\ tokens[t].email = e
            /\ tokens[t].age < Hour}) <= Limit

\* A token sets one password: who redeems it finds it still stored.  It is
\* read, and deleted after the write, by statements of their own (line 613).
TokenWorksOnce ==
    [][\A r \in Requests : (At(r, "password") /\ passwords' > passwords /\ req'[r] # req[r]) =>
          tokens[req[r].id].row = "stored"]_vars

\* "delete all user's sessions" (auth.go:666): no session that a replaced
\* password opens is created behind it.
NoLateSession == \A s \in sessions : ~s.late
=============================================================================
