--------------------------- MODULE Accounts_proofs ---------------------------
(***************************************************************************)
(* IInv is an inductive invariant of Accounts, and what follows from it.   *)
(* A statement that writes no table is covered by ReadStep, which asks     *)
(* only about the request that took it; every other statement has a lemma  *)
(* of its own, with a step per conjunct of IInv.                           *)
(***************************************************************************)
EXTENDS Accounts, InductionLemmas, SequenceTheorems

tables == <<users, tokens, sessions, links, passwords>>

(* What IInv says of a request, by the record that it keeps.               *)
RequestInv(q) == RequestOK(q) /\ LinkOK(q) /\ CooldownOK(q)

(* The account has a new password and the request ends its sessions next.  *)
Ending(q) == q.kind = "reset" /\ q.step \in {"delete", "signout"}

(* A set of places in a sequence that is not empty has a last one: the     *)
(* query ORDER BY created_at DESC LIMIT 1 finds it.                        *)
LEMMA LatestIsLast ==
  ASSUME NEW n \in Nat, NEW rows \in SUBSET (1..n), rows # {}
  PROVE  Latest(rows) \in rows /\ \A t \in rows : t <= Latest(rows)
<1> DEFINE D == {i \in Nat : n - i \in rows}
<1>1. ASSUME NEW t \in rows PROVE n - t \in D
  BY SMT
<1>2. D \in SUBSET Nat /\ D # {}
  BY <1>1
<1>3. PICK d \in D : \A i \in D : d <= i
  <2> HIDE DEF D
  <2> QED BY <1>2, LeastOf
<1>4. ASSUME NEW t \in rows PROVE t <= n - d
  <2>1. n - t \in D /\ d \in Nat /\ t \in 1..n
    BY <1>1
  <2>2. d <= n - t
    BY <2>1, <1>3
  <2> HIDE DEF D
  <2> QED BY <2>1, <2>2
<1>5. \E t \in rows : \A u \in rows : u <= t
  BY <1>3, <1>4
<1> QED BY <1>5 DEF Latest

(* The table verifications is a sequence of rows.                          *)
LEMMA TokensTyped ==
  ASSUME TypeOK
  PROVE  /\ Len(tokens) \in Nat /\ DOMAIN tokens = 1..Len(tokens)
         /\ \A t \in DOMAIN tokens : tokens[t] \in Token /\ tokens[t].email \in Emails
<1>1. tokens \in Seq(Token)
  BY DEF TypeOK
<1>2. tokens \in [1..Len(tokens) -> Token] /\ Len(tokens) \in Nat
  BY <1>1, LenProperties
<1> QED BY <1>2 DEF Token

(* An idle request holds nothing that could go wrong.                      *)
LEMMA IdleIsRequest ==
  ASSUME IInv
  PROVE  Idle \in Request /\ RequestInv(Idle) /\ ~Ending(Idle)
BY TokensTyped DEF IInv, Idle, Request, Steps, RequestInv, RequestOK, LinkOK, CooldownOK, Ending

(* A statement that writes neither tokens nor sessions nor links keeps     *)
(* IInv when no account loses its row or its verification, a new hash is   *)
(* the work of a reset that still has sessions to end, and the request     *)
(* goes on with what it has read.                                          *)
LEMMA UserStep ==
  ASSUME IInv, NEW r \in Requests, NEW q \in Request, req' = [req EXCEPT ![r] = q],
         UNCHANGED <<tokens, sessions, links>>,
         users' \in [Emails -> User \cup {Nothing}], passwords' \in 0..MaxPasswords,
         spared \subseteq spared', spared' \subseteq Emails,
         unmarked \subseteq unmarked', unmarked' \subseteq Emails,
         \A e \in Emails : users[e] # Nothing =>
            /\ users'[e] # Nothing
            /\ users[e].verified => users'[e].verified
            /\ users'[e].hash # users[e].hash => Ending(q) /\ q.email = e,
         Ending(req[r]) => (Ending(q) /\ q.email = req[r].email) \/ req[r].email \in spared',
         RequestInv(q)'
  PROVE  IInv'
<1> USE DEF IInv, RequestInv
<1>1. /\ req' \in [Requests -> Request]
      /\ req'[r] = q
      /\ \A p \in Requests : p # r => req'[p] = req[p]
  BY DEF TypeOK
<1>2. \A t \in DOMAIN tokens : tokens[t].email \in Emails
  BY TokensTyped
<1>3. TypeOK'
  <2>1. ASSUME NEW p \in Requests PROVE RequestOK(req[p])'
    <3>1. CASE p = r
      BY <3>1, <1>1
    <3>2. CASE p # r
      BY <3>2, <1>1 DEF TypeOK, RequestOK, HasAccount
    <3> QED BY <3>1, <3>2
  <2> QED BY <2>1, <1>1, <1>2 DEF TypeOK, Session
<1>4. ResetSignsOut'
  <2>1. ASSUME NEW s \in sessions,
               s.by \in {0, users[s.email].hash} \/ s.late \/ s.email \in spared
                  \/ \E p \in Requests : Resetting(p) /\ req[p].email = s.email
        PROVE  s.by \in {0, users'[s.email].hash} \/ s.late \/ s.email \in spared'
                  \/ \E p \in Requests : Resetting(p)' /\ req'[p].email = s.email
    <3>1. s.email \in Emails /\ users[s.email] # Nothing
      BY DEF TypeOK, Session
    <3> QED BY <2>1, <3>1, <1>1 DEF Resetting, Ending
  <2> QED BY <2>1 DEF ResetSignsOut
<1>5. LinkedIsVerified'
  BY DEF LinkedIsVerified, TypeOK
<1>6. TokensAge'
  BY DEF TokensAge
<1>7. ASSUME NEW p \in Requests PROVE LinkOK(req[p])' /\ CooldownOK(req[p])'
  <2>1. CASE p = r
    BY <2>1, <1>1
  <2>2. CASE p # r
    <3>1. RequestOK(req[p]) /\ LinkOK(req[p]) /\ CooldownOK(req[p])
      BY DEF TypeOK
    <3>2. LinkOK(req[p])'
      BY <2>2, <3>1, <1>1 DEF LinkOK, RequestOK, HasAccount
    <3>3. CooldownOK(req[p])'
      BY <2>2, <3>1, <1>1 DEF CooldownOK, IsOf
    <3> QED BY <3>2, <3>3
  <2> QED BY <2>1, <2>2
<1> QED BY <1>3, <1>4, <1>5, <1>6, <1>7

(* A statement that writes no table.                                       *)
LEMMA ReadStep ==
  ASSUME IInv, NEW r \in Requests, NEW q \in Request, req' = [req EXCEPT ![r] = q],
         UNCHANGED <<tables, spared, unmarked>>, ~Ending(req[r]), RequestInv(q)
  PROVE  IInv'
<1>1. RequestInv(q)'
  BY DEF RequestInv, RequestOK, HasAccount, LinkOK, CooldownOK, IsOf, tables
<1> QED BY <1>1, UserStep DEF IInv, TypeOK, tables

(* The statements that a request begins with are reads.                    *)
LEMMA BeginStep ==
  ASSUME IInv, NEW r \in Requests, NEW q \in Request, At(r, "idle"), req' = [req EXCEPT ![r] = q],
         UNCHANGED <<users, tokens, sessions, links, passwords, spared, unmarked>>, RequestInv(q)
  PROVE  IInv'
BY ReadStep DEF At, Ending, tables

(* resendVerificationEmail and forgotPassword find an account.             *)
LEMMA AskStep ==
  ASSUME IInv, NEW r \in Requests, NEW kind \in Kinds, NEW e \in Emails, Ask(r, kind, e)
  PROVE  IInv'
<1> DEFINE q == [Idle EXCEPT !.step = "latest", !.kind = kind, !.email = e]
<1>1. q \in Request
  BY DEF Request, Idle, Steps
<1>2. RequestInv(q)
  BY TokensTyped DEF IInv, RequestInv, RequestOK, HasAccount, LinkOK, CooldownOK, Ask, Idle
<1> QED BY <1>1, <1>2, BeginStep DEF Ask

(* GetLatest: the request knows the last token stored for the identifier.  *)
LEMMA GetLatestStep ==
  ASSUME IInv, NEW r \in Requests, GetLatest(r)
  PROVE  IInv'
<1> DEFINE rows == RowsOf(req[r].kind, req[r].email)
           q == [req[r] EXCEPT !.step = "count", !.id = Latest(rows), !.seen = Len(tokens)]
<1>1. rows \in SUBSET (1..Len(tokens)) /\ Len(tokens) \in Nat
  BY TokensTyped DEF IInv, RowsOf
<1>2. Latest(rows) \in 0..Len(tokens) /\ \A t \in rows : t <= Latest(rows)
  <2>1. CASE rows = {}
    BY <1>1, <2>1 DEF Latest
  <2>2. CASE rows # {}
    <3>1. Latest(rows) \in rows /\ \A t \in rows : t <= Latest(rows)
      <4> HIDE DEF rows
      <4> QED BY <1>1, <2>2, LatestIsLast, Zenon
    <3> QED BY <1>1, <3>1
  <2> QED BY <2>1, <2>2
<1>3. \A t \in 1..Len(tokens) : IsOf(t, req[r]) /\ tokens[t].row = "stored" => t \in rows
  BY TokensTyped DEF IInv, RowsOf, IsOf
<1>4. req[r] \in Request /\ req \in [Requests -> Request] /\ RequestOK(req[r]) /\ At(r, "latest")
  BY DEF IInv, TypeOK, GetLatest
<1>5. req' = [req EXCEPT ![r].step = "count", ![r].id = Latest(rows), ![r].seen = Len(tokens)]
  BY DEF GetLatest
<1> HIDE DEF rows
<1>6. q \in Request
  <2>1. Latest(rows) \in Nat
    BY <1>1, <1>2
  <2> QED BY <1>1, <1>4, <2>1 DEF Request, Steps
<1>7. req' = [req EXCEPT ![r] = q]
  BY <1>4, <1>5
<1>8. RequestInv(q)
  BY <1>1, <1>2, <1>3, <1>4 DEF RequestInv, RequestOK, LinkOK, CooldownOK, IsOf, At, Request
<1> HIDE DEF q
<1> QED BY <1>6, <1>7, <1>8, ReadStep DEF GetLatest, At, Ending, tables

(* The limits of the cooldown: who goes on has seen only old tokens,       *)
(* because the latest is old and the others are older.                     *)
LEMMA DecideStep ==
  ASSUME IInv, NEW r \in Requests, Decide(r)
  PROVE  IInv'
<1>1. req[r] \in Request /\ req \in [Requests -> Request] /\ RequestOK(req[r]) /\ At(r, "count")
  BY DEF IInv, TypeOK, Decide
<1>2. CASE Allowed(req[r].id, CountSince(req[r].kind, req[r].email))
  <2> DEFINE q == [req[r] EXCEPT !.step = "clear"]
  <2>1. req' = [req EXCEPT ![r].step = "clear"]
    BY <1>2 DEF Decide, Goto
  <2>2. q \in Request /\ req' = [req EXCEPT ![r] = q]
    BY <1>1, <2>1 DEF Request, Steps
  <2>3. ASSUME NEW t \in 1..req[r].seen, IsOf(t, req[r]), tokens[t].row # "gone"
        PROVE  tokens[t].age > Cooldown
    <3>1. t \in DOMAIN tokens /\ tokens[t] \in Token
      BY <1>1, TokensTyped DEF IInv, Request, RequestOK
    <3>2. CASE tokens[t].row = "replaced"
      BY <3>1, <3>2 DEF IInv, TokensAge
    <3>3. CASE tokens[t].row = "stored"
      <4>1. req[r].id \in DOMAIN tokens /\ t <= req[r].id
        BY <1>1, <2>3, <3>1, <3>3, TokensTyped DEF IInv, CooldownOK, At
      <4>2. tokens[req[r].id].age > Cooldown
        BY <1>2, <4>1, TokensTyped DEF Allowed, IInv
      <4>3. tokens[t].age >= tokens[req[r].id].age
        BY <3>1, <4>1 DEF IInv, TokensAge
      <4> QED BY <3>1, <4>1, <4>2, <4>3, TokensTyped, TimesAssumption DEF IInv, Token
    <3> QED BY <2>3, <3>1, <3>2, <3>3 DEF Token
  <2>4. RequestInv(q)
    BY <1>1, <2>3 DEF RequestInv, RequestOK, LinkOK, CooldownOK, At, IsOf, Request
  <2> HIDE DEF q
  <2> QED BY <1>1, <2>2, <2>4, ReadStep DEF Decide, At, Ending, tables
<1>3. CASE ~Allowed(req[r].id, CountSince(req[r].kind, req[r].email))
  BY <1>1, <1>3, IdleIsRequest, ReadStep DEF Decide, Return, At, Ending, tables
<1> QED BY <1>2, <1>3

(* verifyEmail and resetPassword find a stored token, hence its account.   *)
LEMMA RedeemStep ==
  ASSUME IInv, NEW r \in Requests, NEW t \in DOMAIN tokens,
         VerifyEmail(r, t) \/ BeginReset(r, t) \/ RefuseExpired(r, t)
  PROVE  IInv'
<1>1. t \in Nat /\ tokens[t] \in Token /\ HasAccount(tokens[t].email)
  BY TokensTyped DEF IInv, TypeOK, HasAccount
<1>2. ASSUME NEW kind, NEW step, <<kind, step>> \in {<<"verify", "mark">>, <<"reset", "password">>},
             Redeem(r, t, kind, step)
      PROVE  IInv'
  <2> DEFINE q == [Idle EXCEPT !.step = step, !.kind = kind, !.email = tokens[t].email, !.id = t]
  <2>1. q \in Request
    BY <1>1, <1>2 DEF Request, Idle, Steps, Kinds, HasAccount
  <2>2. RequestInv(q)
    BY <1>1, <1>2, TokensTyped DEF IInv, RequestInv, RequestOK, LinkOK, CooldownOK, Idle
  <2> QED BY <1>2, <2>1, <2>2, BeginStep DEF Redeem
<1>3. CASE RefuseExpired(r, t)
  <2> DEFINE q == [Idle EXCEPT !.step = "delete", !.id = t]
  <2>1. q \in Request
    BY <1>1 DEF Request, Idle, Steps
  <2>2. RequestInv(q)
    BY <1>1, TokensTyped, NothingAssumption
    DEF IInv, RequestInv, RequestOK, LinkOK, CooldownOK, Idle, Kinds
  <2> QED BY <1>3, <2>1, <2>2, BeginStep DEF RefuseExpired
<1> QED BY <1>2, <1>3 DEF VerifyEmail, BeginReset

(* loginUser keeps the row that it has read.                               *)
LEMMA LoginStep ==
  ASSUME IInv, NEW r \in Requests, NEW e \in Emails, Login(r, e)
  PROVE  IInv'
<1> DEFINE q == [Idle EXCEPT !.step = "session", !.email = e, !.user = users[e]]
<1>1. users[e] \in User /\ HasAccount(e)
  BY DEF IInv, TypeOK, Login, HasAccount
<1>2. q \in Request
  BY <1>1 DEF Request, Idle, Steps
<1>3. RequestInv(q)
  BY <1>1, TokensTyped DEF IInv, RequestInv, RequestOK, LinkOK, CooldownOK, Idle
<1> QED BY <1>2, <1>3, BeginStep DEF Login

(* requireAuth: a session belongs to an account.                           *)
LEMMA AuthenticateStep ==
  ASSUME IInv, NEW r \in Requests, NEW s \in sessions, NEW step \in {"logout", "organize"},
         Authenticate(r, s, step)
  PROVE  IInv'
<1> DEFINE q == [Idle EXCEPT !.step = step, !.email = s.email, !.user = users[s.email], !.id = s.id]
<1>1. users[s.email] \in User /\ HasAccount(s.email) /\ s.id \in Nat
  BY DEF IInv, TypeOK, HasAccount, Session
<1>2. q \in Request
  BY <1>1 DEF Request, Idle, Steps, HasAccount
<1>3. RequestInv(q)
  BY <1>1, TokensTyped DEF IInv, RequestInv, RequestOK, LinkOK, CooldownOK, Idle
<1> QED BY <1>2, <1>3, BeginStep DEF Authenticate

(* googleCallback: a link leads to an account, anything else to a search.  *)
LEMMA GoogleBeginStep ==
  ASSUME IInv, NEW r \in Requests, NEW g \in Googles, GoogleBegin(r, g)
  PROVE  IInv'
<1>1. CASE links[g] # Nothing
  <2> DEFINE q == [Idle EXCEPT !.step = "session", !.google = g, !.email = links[g]]
  <2>1. HasAccount(links[g]) /\ g # Nothing
    BY <1>1, NothingAssumption DEF IInv, TypeOK, HasAccount
  <2>2. q \in Request
    BY <2>1 DEF Request, Idle, Steps, HasAccount
  <2>3. RequestInv(q)
    BY <2>1, TokensTyped DEF IInv, RequestInv, RequestOK, LinkOK, CooldownOK, Idle
  <2> QED BY <1>1, <2>2, <2>3, BeginStep DEF GoogleBegin
<1>2. CASE links[g] = Nothing
  <2> DEFINE q == [Idle EXCEPT !.step = "find", !.google = g, !.email = GoogleEmail[g]]
  <2>1. GoogleEmail[g] \in Emails
    BY GoogleAssumption
  <2>2. q \in Request
    BY <2>1 DEF Request, Idle, Steps
  <2>3. RequestInv(q)
    BY <2>1, TokensTyped DEF IInv, RequestInv, RequestOK, LinkOK, CooldownOK, Idle
  <2> QED BY <1>2, <2>2, <2>3, BeginStep DEF GoogleBegin
<1> QED BY <1>1, <1>2

(* GetByEmail: only a verified account is linked as it is.                 *)
LEMMA GoogleFindStep ==
  ASSUME IInv, NEW r \in Requests, GoogleFind(r)
  PROVE  IInv'
<1> DEFINE row == users[req[r].email]
           step == IF row = Nothing THEN "create" ELSE IF row.verified THEN "link" ELSE "vouch"
           q == [req[r] EXCEPT !.step = step]
<1>1. req[r] \in Request /\ req \in [Requests -> Request] /\ RequestOK(req[r]) /\ At(r, "find")
  BY DEF IInv, TypeOK, GoogleFind
<1>2. q \in Request /\ req' = [req EXCEPT ![r] = q]
  BY <1>1 DEF GoogleFind, Goto, Request, Steps
<1>3. RequestInv(q)
  BY <1>1 DEF RequestInv, RequestOK, HasAccount, LinkOK, CooldownOK, At, Request
<1> HIDE DEF q
<1> QED BY <1>1, <1>2, <1>3, ReadStep DEF GoogleFind, At, Ending, tables

(* registerUser: the unique index gives the address one account.           *)
LEMMA RegisterStep ==
  ASSUME IInv, NEW r \in Requests, NEW e \in Emails, Register(r, e)
  PROVE  IInv'
<1> DEFINE q == [Idle EXCEPT !.step = "store", !.kind = "verify", !.email = e]
<1>1. q \in Request /\ ~Ending(req[r])
  BY DEF Request, Idle, Steps, Kinds, Register, At, Ending
<1>2. passwords \in 0..MaxPasswords /\ passwords' \in 0..MaxPasswords
  BY BoundsAssumption DEF IInv, TypeOK, Register
<1>3. [hash |-> passwords + 1, verified |-> FALSE, organizer |-> FALSE] \in User
  BY <1>2 DEF User
<1>4. /\ users' \in [Emails -> User \cup {Nothing}]
      /\ users'[e] # Nothing
      /\ \A f \in Emails : users[f] # Nothing => users'[f] = users[f]
  BY <1>3, NothingAssumption DEF IInv, TypeOK, Register, SetUser
<1>5. RequestInv(q)'
  <2>1. Len(tokens') \in Nat
    BY TokensTyped DEF IInv, Register
  <2> QED BY <1>4, <2>1 DEF RequestInv, RequestOK, HasAccount, LinkOK, CooldownOK, Idle, Kinds
<1> HIDE DEF q
<1>6. /\ UNCHANGED <<tokens, sessions, links, spared, unmarked>>
      /\ spared \subseteq Emails /\ unmarked \subseteq Emails
  BY DEF Register, IInv, TypeOK
<1>7. req' = [req EXCEPT ![r] = q]
  BY DEF Register, q
<1> QED BY <1>1, <1>2, <1>4, <1>5, <1>6, <1>7, UserStep

Follows(q, p, step) ==
    /\ q.step = step /\ q.kind = p.kind /\ q.email = p.email /\ q.google = p.google
    /\ q.user = p.user /\ q.id = p.id /\ q.seen = p.seen

(* A request that goes on to its next statement keeps what it has read.    *)
LEMMA GotoFollows ==
  ASSUME IInv, NEW r \in Requests, NEW step \in Steps, Goto(r, step)
  PROVE  \E q \in Request : Follows(q, req[r], step) /\ req' = [req EXCEPT ![r] = q]
<1> DEFINE q == [req[r] EXCEPT !.step = step]
<1>1. req[r] \in Request /\ req \in [Requests -> Request]
  BY DEF IInv, TypeOK
<1>2. q \in Request /\ Follows(q, req[r], step)
  BY <1>1 DEF Request, Follows
<1>3. req' = [req EXCEPT ![r] = q]
  BY <1>1 DEF Goto
<1> QED BY <1>2, <1>3

(* A request that has found its account may write columns of its row.      *)
LEMMA RowTyped ==
  ASSUME IInv, NEW r \in Requests,
         req[r].step \in {"mark", "password", "organize", "vouch"}
  PROVE  /\ req[r] \in Request /\ req \in [Requests -> Request] /\ RequestOK(req[r])
         /\ req[r].email \in Emails /\ users[req[r].email] \in User
         /\ users \in [Emails -> User \cup {Nothing}]
BY DEF IInv, TypeOK, RequestOK, HasAccount

(* verifyEmail writes one column.                                          *)
LEMMA MarkVerifiedStep ==
  ASSUME IInv, NEW r \in Requests, MarkVerified(r)
  PROVE  IInv'
<1> DEFINE row == [users[req[r].email] EXCEPT !.verified = TRUE]
<1>1. /\ req[r] \in Request /\ req \in [Requests -> Request] /\ RequestOK(req[r])
      /\ req[r].email \in Emails /\ users[req[r].email] \in User
      /\ users \in [Emails -> User \cup {Nothing}]
  BY RowTyped DEF MarkVerified, At
<1>2. PICK q \in Request : Follows(q, req[r], "delete") /\ req' = [req EXCEPT ![r] = q]
  BY GotoFollows DEF MarkVerified, Steps
<1> USE DEF Follows
<1>3. row \in User /\ row.verified /\ row.hash = users[req[r].email].hash
  BY <1>1 DEF User
<1>4. /\ users' \in [Emails -> User \cup {Nothing}]
      /\ \A e \in Emails : users[e] # Nothing =>
            /\ users'[e] # Nothing
            /\ users[e].verified => users'[e].verified
            /\ users'[e].hash = users[e].hash
  <2>1. users' = [users EXCEPT ![req[r].email] = row]
    BY DEF MarkVerified, SetUser
  <2> HIDE DEF row
  <2> QED BY <1>1, <1>3, <2>1, NothingAssumption
<1>5. /\ UNCHANGED <<tokens, sessions, links, passwords, spared, unmarked>>
      /\ spared \subseteq Emails /\ unmarked \subseteq Emails /\ passwords \in 0..MaxPasswords
  BY DEF MarkVerified, IInv, TypeOK
<1>6. RequestInv(q)'
  <2>1. req[r].id \in DOMAIN tokens /\ req[r].seen <= Len(tokens) /\ HasAccount(q.email)
    BY <1>1, <1>2 DEF RequestOK, MarkVerified, At
  <2> QED BY <1>2, <1>4, <1>5, <2>1 DEF RequestInv, RequestOK, HasAccount, LinkOK, CooldownOK
<1> QED BY <1>1, <1>2, <1>4, <1>5, <1>6, UserStep DEF MarkVerified, At, Ending

(* resetPassword: from the new hash on, the request has sessions to end.   *)
LEMMA ResetPasswordStep ==
  ASSUME IInv, NEW r \in Requests, ResetPassword(r)
  PROVE  IInv'
<1> DEFINE row == [users[req[r].email] EXCEPT !.hash = passwords + 1]
<1>1. /\ req[r] \in Request /\ req \in [Requests -> Request] /\ RequestOK(req[r])
      /\ req[r].email \in Emails /\ users[req[r].email] \in User
      /\ users \in [Emails -> User \cup {Nothing}]
  BY RowTyped DEF ResetPassword, At
<1>2. PICK q \in Request : Follows(q, req[r], "delete") /\ req' = [req EXCEPT ![r] = q]
  BY GotoFollows DEF ResetPassword, Steps
<1> USE DEF Follows
<1>3. passwords \in 0..MaxPasswords /\ passwords' \in 0..MaxPasswords
  BY BoundsAssumption DEF IInv, TypeOK, ResetPassword
<1>4. row \in User /\ row.verified = users[req[r].email].verified
  BY <1>1, <1>3 DEF User
<1>5. Ending(q)
  BY <1>1, <1>2 DEF Ending, RequestOK, ResetPassword, At
<1>6. /\ users' \in [Emails -> User \cup {Nothing}]
      /\ \A e \in Emails : users[e] # Nothing =>
            /\ users'[e] # Nothing
            /\ users[e].verified => users'[e].verified
            /\ users'[e].hash # users[e].hash => e = req[r].email
  <2>1. users' = [users EXCEPT ![req[r].email] = row]
    BY DEF ResetPassword, SetUser
  <2> HIDE DEF row
  <2> QED BY <1>1, <1>4, <2>1, NothingAssumption
<1>7. /\ UNCHANGED <<tokens, sessions, links, spared, unmarked>>
      /\ spared \subseteq Emails /\ unmarked \subseteq Emails
  BY DEF ResetPassword, IInv, TypeOK
<1>8. RequestInv(q)'
  <2>1. req[r].id \in DOMAIN tokens /\ req[r].seen <= Len(tokens) /\ HasAccount(q.email)
    BY <1>1, <1>2 DEF RequestOK, ResetPassword, At
  <2> QED BY <1>2, <1>6, <1>7, <2>1 DEF RequestInv, RequestOK, HasAccount, LinkOK, CooldownOK
<1> QED BY <1>1, <1>2, <1>3, <1>5, <1>6, <1>7, <1>8, UserStep DEF ResetPassword, At, Ending

(* becomeOrganizer writes one column, whatever row it holds.               *)
LEMMA BecomeOrganizerStep ==
  ASSUME IInv, NEW r \in Requests, BecomeOrganizer(r)
  PROVE  IInv'
<1> DEFINE row == [users[req[r].email] EXCEPT !.organizer = TRUE]
<1>1. /\ req[r] \in Request /\ req \in [Requests -> Request] /\ RequestOK(req[r])
      /\ req[r].email \in Emails /\ users[req[r].email] \in User
      /\ users \in [Emails -> User \cup {Nothing}]
  BY RowTyped DEF BecomeOrganizer, At
<1>2. row \in User /\ row.verified = users[req[r].email].verified /\ row.hash = users[req[r].email].hash
  BY <1>1 DEF User
<1>3. /\ users' \in [Emails -> User \cup {Nothing}]
      /\ \A e \in Emails : users[e] # Nothing =>
            /\ users'[e] # Nothing
            /\ users[e].verified => users'[e].verified
            /\ users'[e].hash = users[e].hash
  <2>1. users' = users \/ users' = [users EXCEPT ![req[r].email] = row]
    BY DEF BecomeOrganizer, SetUser
  <2> HIDE DEF row
  <2> QED BY <1>1, <1>2, <2>1, NothingAssumption
<1>4. RequestInv(Idle)'
  BY TokensTyped DEF IInv, Idle, RequestInv, RequestOK, LinkOK, CooldownOK, BecomeOrganizer
<1>5. Idle \in Request /\ ~Ending(req[r])
  BY IdleIsRequest DEF BecomeOrganizer, At, Ending
<1> QED BY <1>1, <1>3, <1>4, <1>5, UserStep DEF BecomeOrganizer, Return, IInv, TypeOK

(* googleCallback creates an account that is verified, or stops.           *)
LEMMA GoogleCreateStep ==
  ASSUME IInv, NEW r \in Requests, GoogleCreate(r)
  PROVE  IInv'
<1>1. /\ req[r] \in Request /\ req \in [Requests -> Request] /\ RequestOK(req[r]) /\ At(r, "create")
      /\ users \in [Emails -> User \cup {Nothing}] /\ req[r].email \in Emails
  BY DEF IInv, TypeOK, GoogleCreate, RequestOK, At
<1>2. /\ UNCHANGED <<tokens, sessions, links, passwords, spared, unmarked>>
      /\ spared \subseteq Emails /\ unmarked \subseteq Emails /\ passwords \in 0..MaxPasswords
      /\ ~Ending(req[r])
  BY <1>1 DEF GoogleCreate, IInv, TypeOK, At, Ending
<1>3. CASE users[req[r].email] = Nothing
  <2> DEFINE row == [hash |-> 0, verified |-> TRUE, organizer |-> FALSE]
  <2>1. PICK q \in Request : Follows(q, req[r], "link") /\ req' = [req EXCEPT ![r] = q]
    BY <1>3, GotoFollows DEF GoogleCreate, Steps
  <2>2. row \in User /\ row.verified /\ users' = [users EXCEPT ![req[r].email] = row]
    BY <1>3 DEF User, GoogleCreate, SetUser
  <2>3. /\ users' \in [Emails -> User \cup {Nothing}]
        /\ users'[req[r].email] # Nothing /\ users'[req[r].email].verified
        /\ \A e \in Emails : users[e] # Nothing => users'[e] = users[e]
    <3> HIDE DEF row
    <3> QED BY <1>1, <1>3, <2>2, NothingAssumption
  <2>4. RequestInv(q)'
    BY <1>1, <1>2, <2>1, <2>3 DEF RequestInv, RequestOK, HasAccount, LinkOK, CooldownOK, Follows, At
  <2> QED BY <1>1, <1>2, <2>1, <2>3, <2>4, UserStep
<1>4. CASE users[req[r].email] # Nothing
  <2>1. req' = [req EXCEPT ![r] = Idle] /\ users' = users
    BY <1>4 DEF GoogleCreate, Return
  <2> QED BY <1>1, <1>2, <2>1, IdleIsRequest, ReadStep DEF tables
<1> QED BY <1>3, <1>4

(* Google vouches for the address, or marking it fails and is logged.      *)
LEMMA GoogleVouchStep ==
  ASSUME IInv, NEW r \in Requests, GoogleVouch(r)
  PROVE  IInv'
<1> DEFINE row == [users[req[r].email] EXCEPT !.verified = TRUE]
<1>1. /\ req[r] \in Request /\ req \in [Requests -> Request] /\ RequestOK(req[r])
      /\ req[r].email \in Emails /\ users[req[r].email] \in User
      /\ users \in [Emails -> User \cup {Nothing}]
  BY RowTyped DEF GoogleVouch, At
<1>2. PICK q \in Request : Follows(q, req[r], "link") /\ req' = [req EXCEPT ![r] = q]
  BY GotoFollows DEF GoogleVouch, Steps
<1>3. row \in User /\ row.verified /\ row.hash = users[req[r].email].hash
  BY <1>1 DEF User
<1>4. \/ users' = [users EXCEPT ![req[r].email] = row] /\ unmarked' = unmarked
      \/ users' = users /\ unmarked' = unmarked \cup {req[r].email}
  BY DEF GoogleVouch, SetUser
<1> HIDE DEF row
<1>5. /\ users' \in [Emails -> User \cup {Nothing}]
      /\ \A e \in Emails : users[e] # Nothing =>
            /\ users'[e] # Nothing
            /\ users[e].verified => users'[e].verified
            /\ users'[e].hash = users[e].hash
  BY <1>1, <1>3, <1>4, NothingAssumption
<1>6. users'[req[r].email].verified \/ req[r].email \in unmarked'
  BY <1>1, <1>3, <1>4
<1>7. /\ UNCHANGED <<tokens, sessions, links, passwords, spared>>
      /\ spared \subseteq Emails /\ passwords \in 0..MaxPasswords
      /\ unmarked \subseteq unmarked' /\ unmarked' \subseteq Emails
  BY <1>1 DEF GoogleVouch, IInv, TypeOK
<1>8. RequestInv(q)'
  BY <1>1, <1>2, <1>5, <1>6, <1>7
  DEF GoogleVouch, RequestInv, RequestOK, HasAccount, LinkOK, CooldownOK, Follows, At
<1> QED BY <1>1, <1>2, <1>5, <1>7, <1>8, UserStep DEF GoogleVouch, At, Ending

(* A request that ends early is over; one that had changed a password is   *)
(* remembered in `spared'.                                                 *)
LEMMA DieStep ==
  ASSUME IInv, NEW r \in Requests, Die(r)
  PROVE  IInv'
<1>1. Ending(req[r]) => req[r].email \in Emails
  BY DEF IInv, TypeOK, RequestOK, HasAccount, Ending
<1>2. /\ spared \subseteq spared' /\ spared' \subseteq Emails
      /\ Ending(req[r]) => req[r].email \in spared'
  BY <1>1 DEF Die, IInv, TypeOK, Resetting, Ending
<1>3. UNCHANGED <<users, tokens, sessions, links, passwords, unmarked>>
  BY DEF Die
<1>4. RequestInv(Idle)' /\ Idle \in Request
  BY <1>3, IdleIsRequest DEF RequestInv, RequestOK, LinkOK, CooldownOK, IsOf, HasAccount
<1> QED BY <1>2, <1>3, <1>4, UserStep DEF Die, Return, IInv, TypeOK

(* Only the INSERT of a link writes links, after LinkOK.                   *)
LEMMA GoogleLinkStep ==
  ASSUME IInv, NEW r \in Requests, GoogleLink(r)
  PROVE  IInv'
<1>1. /\ req[r] \in Request /\ req \in [Requests -> Request] /\ RequestOK(req[r]) /\ At(r, "link")
      /\ LinkOK(req[r]) /\ ~Ending(req[r]) /\ HasAccount(req[r].email) /\ req[r].google \in Googles
      /\ links \in [Googles -> Emails \cup {Nothing}]
  BY DEF IInv, TypeOK, GoogleLink, RequestOK, At, Ending
<1>2. UNCHANGED <<users, tokens, sessions, passwords, spared, unmarked>>
  BY DEF GoogleLink
<1>3. CASE links[req[r].google] = Nothing
  <2>1. PICK q \in Request : Follows(q, req[r], "session") /\ req' = [req EXCEPT ![r] = q]
    BY <1>3, GotoFollows DEF GoogleLink, Steps
  <2>2. /\ req' \in [Requests -> Request] /\ req'[r] = q
        /\ \A p \in Requests : p # r => req'[p] = req[p]
    BY <1>1, <2>1
  <2>3. links' = [links EXCEPT ![req[r].google] = req[r].email]
    BY <1>3 DEF GoogleLink
  <2>4. RequestInv(q)'
    BY <1>1, <1>2, <2>1, NothingAssumption
    DEF RequestInv, RequestOK, HasAccount, LinkOK, CooldownOK, Follows, At
  <2>5. ASSUME NEW p \in Requests PROVE RequestInv(req[p])'
    <3>1. CASE p = r
      BY <2>2, <2>4, <3>1
    <3>2. CASE p # r
      <4>1. RequestInv(req[p]) /\ req'[p] = req[p]
        BY <2>2, <3>2 DEF IInv, TypeOK, RequestInv
      <4> QED BY <1>2, <4>1 DEF RequestInv, RequestOK, HasAccount, LinkOK, CooldownOK, IsOf
    <3> QED BY <3>1, <3>2
  <2>6. TypeOK'
    BY <1>1, <1>2, <2>2, <2>3, <2>5 DEF IInv, TypeOK, HasAccount, RequestInv
  <2>7. ResetSignsOut'
    BY <1>1, <1>2, <2>2 DEF IInv, ResetSignsOut, Resetting, Ending
  <2>8. LinkedIsVerified'
    BY <1>1, <1>2, <2>3 DEF IInv, LinkedIsVerified, LinkOK, At
  <2>9. TokensAge'
    BY <1>2 DEF IInv, TokensAge
  <2> QED BY <2>5, <2>6, <2>7, <2>8, <2>9 DEF IInv, RequestInv
<1>4. CASE links[req[r].google] # Nothing
  BY <1>1, <1>2, <1>4, IdleIsRequest, ReadStep DEF GoogleLink, Return, tables
<1> QED BY <1>3, <1>4

(* A statement that writes tokens only keeps IInv when every row keeps its *)
(* identifier, gets no younger and is not stored again, and the request    *)
(* that took it goes on with what it has read.                             *)
LEMMA TokenStep ==
  ASSUME IInv, UNCHANGED <<users, sessions, links, passwords, spared, unmarked>>,
         tokens' \in Seq(Token), Len(tokens') >= Len(tokens), Len(tokens') <= MaxTokens,
         \A t \in DOMAIN tokens' : users[tokens'[t].email] # Nothing,
         \A t \in DOMAIN tokens :
            /\ tokens'[t].kind = tokens[t].kind /\ tokens'[t].email = tokens[t].email
            /\ tokens'[t].age >= tokens[t].age
            /\ tokens'[t].row = "stored" => tokens[t].row = "stored"
            /\ tokens[t].row = "gone" => tokens'[t].row = "gone",
         TokensAge',
         req' \in [Requests -> Request],
         \A p \in Requests :
            \/ req'[p] = req[p]
            \/ RequestInv(req[p])' /\ (Ending(req[p]) => Ending(req[p])' /\ req'[p].email = req[p].email)
  PROVE  IInv'
<1>1. /\ Len(tokens) \in Nat /\ Len(tokens') \in Nat
      /\ DOMAIN tokens = 1..Len(tokens) /\ DOMAIN tokens' = 1..Len(tokens')
      /\ \A t \in DOMAIN tokens : tokens[t] \in Token
  BY TokensTyped, LenProperties DEF IInv
<1>2. \A t \in DOMAIN tokens : tokens'[t] \in Token
  <2>1. tokens' \in [1..Len(tokens') -> Token]
    BY LenProperties
  <2> QED BY <1>1, <2>1
<1>3. ASSUME NEW p \in Requests PROVE RequestInv(req[p])'
  <2>1. CASE req'[p] = req[p]
    <3>1. RequestInv(req[p]) /\ req[p] \in Request
      BY DEF IInv, TypeOK, RequestInv
    <3>2. RequestOK(req[p])'
      BY <1>1, <2>1, <3>1 DEF RequestInv, RequestOK, HasAccount, Request
    <3>3. LinkOK(req[p])'
      BY <2>1, <3>1 DEF RequestInv, LinkOK
    <3>4. CooldownOK(req[p])'
      <4>1. ASSUME NEW t \in 1..req[p].seen
            PROVE  t \in DOMAIN tokens /\ tokens[t] \in Token /\ tokens'[t] \in Token
        BY <1>1, <1>2, <3>1 DEF RequestInv, RequestOK, Request
      <4>2. ASSUME NEW t \in 1..req[p].seen, tokens[t].age > Cooldown PROVE tokens'[t].age > Cooldown
        BY <4>1, <4>2, TimesAssumption DEF Token
      <4> QED BY <1>1, <2>1, <3>1, <4>1, <4>2 DEF RequestInv, CooldownOK, IsOf
    <3> QED BY <3>2, <3>3, <3>4 DEF RequestInv
  <2> QED BY <2>1
<1>4. TypeOK'
  BY <1>3 DEF IInv, TypeOK, RequestInv
<1>5. ResetSignsOut'
  <2>1. \A p \in Requests : Resetting(p) => Resetting(p)' /\ req'[p].email = req[p].email
    BY DEF Resetting, Ending
  <2> QED BY <2>1 DEF IInv, ResetSignsOut
<1>6. LinkedIsVerified'
  BY DEF IInv, LinkedIsVerified
<1> QED BY <1>3, <1>4, <1>5, <1>6 DEF IInv, RequestInv

(* DeleteByIdentifier deletes rows that the request has seen to be old,    *)
(* and rows that it has not seen; or it fails and is logged.               *)
LEMMA DeleteByIdentifierStep ==
  ASSUME IInv, NEW r \in Requests, DeleteByIdentifier(r)
  PROVE  IInv'
<1>1. /\ req[r] \in Request /\ req \in [Requests -> Request] /\ At(r, "clear")
      /\ RequestOK(req[r]) /\ CooldownOK(req[r]) /\ ~Ending(req[r])
  BY DEF IInv, TypeOK, DeleteByIdentifier, At, Ending
<1>2. PICK q \in Request : Follows(q, req[r], "store") /\ req' = [req EXCEPT ![r] = q]
  BY GotoFollows DEF DeleteByIdentifier, Steps
<1>3. /\ UNCHANGED <<users, sessions, links, passwords, spared, unmarked>>
      /\ req' \in [Requests -> Request] /\ req'[r] = q
      /\ \A p \in Requests : p # r => req'[p] = req[p]
  BY <1>1, <1>2 DEF DeleteByIdentifier
<1>4. /\ tokens \in Seq(Token) /\ Len(tokens) \in Nat /\ DOMAIN tokens = 1..Len(tokens)
      /\ \A t \in DOMAIN tokens : tokens[t] \in Token
  BY TokensTyped DEF IInv, TypeOK
<1>5. CASE UNCHANGED tokens
  <2>1. RequestInv(q)
    BY <1>1, <1>2 DEF RequestInv, RequestOK, LinkOK, CooldownOK, Follows, At, IsOf
  <2> QED BY <1>1, <1>2, <1>3, <1>5, <2>1, ReadStep DEF tables
<1>6. CASE tokens' = [t \in DOMAIN tokens |->
                        IF t \in RowsOf(req[r].kind, req[r].email)
                        THEN [tokens[t] EXCEPT !.row = IF t <= req[r].seen THEN "replaced" ELSE "gone"]
                        ELSE tokens[t]]
  <2>1. ASSUME NEW t \in DOMAIN tokens
        PROVE  /\ tokens'[t] \in Token
               /\ tokens'[t].kind = tokens[t].kind /\ tokens'[t].email = tokens[t].email
               /\ tokens'[t].age = tokens[t].age
               /\ tokens'[t].row = "stored" => tokens[t].row = "stored"
               /\ tokens[t].row = "gone" => tokens'[t].row = "gone"
    BY <1>4, <1>6 DEF Token, RowsOf
  <2>2. ASSUME NEW t \in DOMAIN tokens, tokens'[t].row = "replaced"
        PROVE  tokens[t].age > Cooldown
    <3>1. CASE tokens[t].row = "replaced"
      BY <3>1 DEF IInv, TokensAge
    <3>2. CASE tokens[t].row # "replaced"
      <4>1. t \in 1..req[r].seen /\ IsOf(t, req[r]) /\ tokens[t].row = "stored"
        BY <1>1, <1>4, <1>6, <2>2, <3>2 DEF RowsOf, IsOf, Token, Request
      <4> QED BY <1>1, <4>1 DEF CooldownOK, At
    <3> QED BY <3>1, <3>2
  <2>3. tokens' \in Seq(Token) /\ Len(tokens') = Len(tokens) /\ DOMAIN tokens' = DOMAIN tokens
    <3>1. tokens' \in [1..Len(tokens) -> Token]
      BY <1>4, <1>6, <2>1
    <3> QED BY <1>4, <3>1
  <2>4. TokensAge'
    BY <2>1, <2>2, <2>3 DEF IInv, TokensAge
  <2>5. RequestInv(q)'
    <3>1. ASSUME NEW t \in 1..req[r].seen PROVE t \in DOMAIN tokens
      BY <1>1, <1>4 DEF RequestOK, Request
    <3>2. RequestOK(q)'
      BY <1>1, <1>2, <1>3, <2>3 DEF RequestOK, HasAccount, Follows, At
    <3>3. CooldownOK(q)'
      BY <1>1, <1>2, <2>1, <3>1 DEF CooldownOK, IsOf, Follows, At
    <3> QED BY <1>2, <3>2, <3>3 DEF RequestInv, LinkOK, Follows
  <2>6. \A t \in DOMAIN tokens' : users[tokens'[t].email] # Nothing
    BY <2>1, <2>3 DEF IInv, TypeOK
  <2>7. \A t \in DOMAIN tokens : tokens'[t].age >= tokens[t].age
    BY <1>4, <2>1 DEF Token
  <2>8. \A p \in Requests : req'[p] = req[p] \/ (RequestInv(req[p])' /\ ~Ending(req[p]))
    BY <1>1, <1>3, <2>5
  <2>9. Len(tokens') >= Len(tokens) /\ Len(tokens') <= MaxTokens
    BY <1>4, <2>3 DEF IInv, TypeOK
  <2> QED BY <1>3, <2>1, <2>3, <2>4, <2>6, <2>7, <2>8, <2>9, TokenStep
<1> QED BY <1>5, <1>6 DEF DeleteByIdentifier

(* A new token is the youngest.                                            *)
LEMMA StoreTokenStep ==
  ASSUME IInv, NEW r \in Requests, StoreToken(r)
  PROVE  IInv'
<1> DEFINE row == [kind |-> req[r].kind, email |-> req[r].email, age |-> 0, row |-> "stored"]
<1>1. /\ req[r] \in Request /\ req \in [Requests -> Request] /\ At(r, "store")
      /\ req[r].kind \in Kinds /\ HasAccount(req[r].email) /\ ~Ending(req[r])
  BY DEF IInv, TypeOK, StoreToken, RequestOK, At, Ending
<1>2. /\ req' \in [Requests -> Request] /\ req'[r] = Idle
      /\ \A p \in Requests : p # r => req'[p] = req[p]
  BY <1>1, IdleIsRequest DEF StoreToken, Return
<1>3. /\ tokens \in Seq(Token) /\ Len(tokens) \in Nat /\ DOMAIN tokens = 1..Len(tokens)
      /\ \A t \in DOMAIN tokens : tokens[t] \in Token
  BY TokensTyped DEF IInv, TypeOK
<1>4. row \in Token /\ row.age = 0 /\ row.row = "stored" /\ row.email = req[r].email
  BY <1>1, TimesAssumption DEF Token, HasAccount
<1>5. tokens' = Append(tokens, row) /\ Len(tokens) < MaxTokens
  BY DEF StoreToken
<1> HIDE DEF row
<1>6. /\ tokens' \in Seq(Token) /\ Len(tokens') = Len(tokens) + 1
      /\ \A t \in DOMAIN tokens : tokens'[t] = tokens[t]
      /\ tokens'[Len(tokens) + 1] = row
  BY <1>3, <1>4, <1>5
<1>7. DOMAIN tokens' = 1..(Len(tokens) + 1)
  BY <1>3, <1>6, LenProperties
<1>8. \A t \in DOMAIN tokens' : t \in DOMAIN tokens \/ t = Len(tokens) + 1
  BY <1>3, <1>7
<1>9. UNCHANGED <<users, sessions, links, passwords, spared, unmarked>>
  BY DEF StoreToken
<1>10. TokensAge'
  <2>1. \A t \in DOMAIN tokens' : tokens'[t].age \in Nat /\ tokens'[t].age >= 0
    BY <1>3, <1>4, <1>6, <1>8, TimesAssumption DEF Token
  <2> QED BY <1>3, <1>4, <1>6, <1>8, <2>1 DEF IInv, TokensAge
<1>11. \A t \in DOMAIN tokens' : users[tokens'[t].email] # Nothing
  BY <1>1, <1>4, <1>6, <1>8 DEF IInv, TypeOK, HasAccount
<1>12. RequestInv(Idle)'
  BY <1>3, <1>6 DEF Idle, RequestInv, RequestOK, LinkOK, CooldownOK
<1>13. Len(tokens') >= Len(tokens) /\ Len(tokens') <= MaxTokens
  BY <1>3, <1>5, <1>6, BoundsAssumption
<1>14. \A t \in DOMAIN tokens : tokens'[t].age >= tokens[t].age
  BY <1>3, <1>6, TimesAssumption DEF Token
<1>15. \A p \in Requests : req'[p] = req[p] \/ (RequestInv(req[p])' /\ ~Ending(req[p]))
  BY <1>1, <1>2, <1>12
<1> QED BY <1>2, <1>6, <1>9, <1>10, <1>11, <1>13, <1>14, <1>15, TokenStep

(* The row of a token that was used or has expired goes, or its deletion   *)
(* fails; resetPassword goes on to the sessions in either case.            *)
LEMMA DeleteTokenStep ==
  ASSUME IInv, NEW r \in Requests, DeleteToken(r)
  PROVE  IInv'
<1>1. /\ req[r] \in Request /\ req \in [Requests -> Request] /\ At(r, "delete")
      /\ RequestOK(req[r]) /\ req[r].id \in DOMAIN tokens
      /\ UNCHANGED <<users, sessions, links, passwords, spared, unmarked>>
  BY DEF IInv, TypeOK, DeleteToken, RequestOK, At
<1>2. PICK q \in Request :
         /\ req' = [req EXCEPT ![r] = q] /\ RequestInv(q)
         /\ Ending(req[r]) => Ending(q) /\ q.email = req[r].email
  <2>1. CASE req[r].kind = "reset"
    <3>1. PICK q \in Request : Follows(q, req[r], "signout") /\ req' = [req EXCEPT ![r] = q]
      BY <2>1, GotoFollows DEF DeleteToken, Steps
    <3>2. RequestInv(q)
      BY <1>1, <2>1, <3>1 DEF RequestInv, RequestOK, LinkOK, CooldownOK, Follows, At
    <3> QED BY <2>1, <3>1, <3>2 DEF Follows, Ending
  <2>2. CASE req[r].kind # "reset"
    BY <2>2, IdleIsRequest DEF DeleteToken, Return, Ending
  <2> QED BY <2>1, <2>2
<1>3. /\ req' \in [Requests -> Request] /\ req'[r] = q
      /\ \A p \in Requests : p # r => req'[p] = req[p]
  BY <1>1, <1>2
<1>4. /\ tokens \in Seq(Token) /\ Len(tokens) \in Nat /\ DOMAIN tokens = 1..Len(tokens)
      /\ \A t \in DOMAIN tokens : tokens[t] \in Token
  BY TokensTyped DEF IInv, TypeOK
<1>5. /\ tokens' \in Seq(Token) /\ Len(tokens') = Len(tokens) /\ DOMAIN tokens' = DOMAIN tokens
      /\ \A t \in DOMAIN tokens :
            /\ tokens'[t].kind = tokens[t].kind /\ tokens'[t].email = tokens[t].email
            /\ tokens'[t].age = tokens[t].age
            /\ tokens'[t].row = "stored" => tokens[t].row = "stored"
            /\ tokens[t].row = "gone" => tokens'[t].row = "gone"
            /\ tokens'[t].row = "replaced" => tokens[t].row = "replaced"
  <2>1. CASE UNCHANGED tokens
    BY <1>4, <2>1
  <2>2. CASE tokens[req[r].id].row = "stored" /\ tokens' = [tokens EXCEPT ![req[r].id].row = "gone"]
    <3> DEFINE row == [tokens[req[r].id] EXCEPT !.row = "gone"]
    <3>1. /\ row \in Token /\ row.row = "gone" /\ row.kind = tokens[req[r].id].kind
          /\ row.email = tokens[req[r].id].email /\ row.age = tokens[req[r].id].age
      BY <1>1, <1>4 DEF Token
    <3>2. tokens' = [tokens EXCEPT ![req[r].id] = row]
      BY <1>1, <1>4, <2>2
    <3> HIDE DEF row
    <3>3. /\ tokens' \in Seq(Token) /\ Len(tokens') = Len(tokens)
          /\ \A t \in 1..Len(tokens) : tokens'[t] = IF t = req[r].id THEN row ELSE tokens[t]
      BY <1>1, <1>4, <3>1, <3>2, ExceptSeq
    <3> QED BY <1>4, <2>2, <3>1, <3>3
  <2> QED BY <2>1, <2>2 DEF DeleteToken
<1>6. TokensAge'
  BY <1>5 DEF IInv, TokensAge
<1>7. RequestInv(q)'
  <2>1. ASSUME NEW t \in 1..q.seen PROVE t \in DOMAIN tokens
    BY <1>2, <1>4 DEF RequestInv, RequestOK, Request
  <2>2. RequestOK(q)' /\ LinkOK(q)'
    BY <1>1, <1>2, <1>5 DEF RequestInv, RequestOK, HasAccount, LinkOK
  <2>3. CooldownOK(q)'
    BY <1>2, <1>5, <2>1 DEF RequestInv, CooldownOK, IsOf
  <2> QED BY <2>2, <2>3 DEF RequestInv
<1>8. \A t \in DOMAIN tokens' : users[tokens'[t].email] # Nothing
  BY <1>5 DEF IInv, TypeOK
<1>9. \A t \in DOMAIN tokens : tokens'[t].age >= tokens[t].age
  BY <1>4, <1>5, TimesAssumption DEF Token
<1>10. \A p \in Requests :
          \/ req'[p] = req[p]
          \/ RequestInv(req[p])' /\ (Ending(req[p]) => Ending(req[p])' /\ req'[p].email = req[p].email)
  BY <1>2, <1>3, <1>7 DEF Ending
<1>11. Len(tokens') >= Len(tokens) /\ Len(tokens') <= MaxTokens
  BY <1>4, <1>5 DEF IInv, TypeOK
<1> QED BY <1>1, <1>3, <1>5, <1>6, <1>8, <1>9, <1>10, <1>11, TokenStep

(* Time makes every token older.                                           *)
LEMMA TickStep ==
  ASSUME IInv, Tick
  PROVE  IInv'
<1>1. /\ tokens \in Seq(Token) /\ Len(tokens) \in Nat /\ DOMAIN tokens = 1..Len(tokens)
      /\ \A t \in DOMAIN tokens : tokens[t] \in Token
  BY TokensTyped DEF IInv, TypeOK
<1>2. Hour \in Nat /\ Cooldown \in Nat /\ Cooldown < Hour
  BY TimesAssumption
<1>3. ASSUME NEW t \in DOMAIN tokens
      PROVE  /\ tokens'[t] \in Token
             /\ tokens'[t].kind = tokens[t].kind /\ tokens'[t].email = tokens[t].email
             /\ tokens'[t].row = tokens[t].row
             /\ tokens'[t].age = IF tokens[t].age < Hour THEN tokens[t].age + 1 ELSE tokens[t].age
  BY <1>1, <1>2 DEF Tick, Token
<1>4. tokens' \in Seq(Token) /\ Len(tokens') = Len(tokens) /\ DOMAIN tokens' = DOMAIN tokens
  <2>1. tokens' \in [1..Len(tokens) -> Token]
    BY <1>1, <1>3 DEF Tick
  <2> QED BY <1>1, <2>1
<1>5. \A t \in DOMAIN tokens : tokens[t].age \in 0..Hour
  BY <1>1 DEF Token
<1>6. TokensAge'
  BY <1>2, <1>3, <1>4, <1>5 DEF IInv, TokensAge
<1>7. \A t \in DOMAIN tokens' : users[tokens'[t].email] # Nothing
  BY <1>3, <1>4 DEF IInv, TypeOK
<1>8. \A t \in DOMAIN tokens : tokens'[t].age >= tokens[t].age
  BY <1>2, <1>3, <1>5
<1>9. /\ UNCHANGED <<users, sessions, links, passwords, req, spared, unmarked>>
      /\ req' \in [Requests -> Request]
      /\ Len(tokens') >= Len(tokens) /\ Len(tokens') <= MaxTokens
  BY <1>1, <1>4 DEF Tick, IInv, TypeOK
<1> QED BY <1>3, <1>4, <1>6, <1>7, <1>8, <1>9, TokenStep

(* A last statement that writes sessions, or which sessions were spared:   *)
(* the request is over.                                                    *)
LEMMA SessionStep ==
  ASSUME IInv, NEW r \in Requests, Return(r), UNCHANGED <<users, tokens, links, passwords, unmarked>>,
         sessions' \subseteq Session, spared' \subseteq Emails,
         \A s \in sessions' : users[s.email] # Nothing /\ s.id \in 1..MaxSessions,
         \A s, t \in sessions' : s.id = t.id => s = t,
         ResetSignsOut'
  PROVE  IInv'
<1>1. /\ req' \in [Requests -> Request] /\ req'[r] = Idle
      /\ \A p \in Requests : p # r => req'[p] = req[p]
  BY IdleIsRequest DEF IInv, TypeOK, Return
<1>2. ASSUME NEW p \in Requests PROVE RequestInv(req[p])'
  <2>1. RequestInv(req'[p])
    BY <1>1, IdleIsRequest DEF IInv, TypeOK, RequestInv
  <2> QED BY <2>1 DEF RequestInv, RequestOK, HasAccount, LinkOK, CooldownOK, IsOf
<1>3. TypeOK'
  BY <1>1, <1>2 DEF IInv, TypeOK, RequestInv
<1>4. LinkedIsVerified'
  BY DEF IInv, LinkedIsVerified
<1>5. TokensAge'
  BY DEF IInv, TokensAge
<1> QED BY <1>2, <1>3, <1>4, <1>5 DEF IInv, RequestInv

(* resetPassword ends the sessions of the account, or the failure to do so *)
(* is remembered in `spared'.                                              *)
LEMMA DeleteAllSessionsStep ==
  ASSUME IInv, NEW r \in Requests, DeleteAllSessions(r)
  PROVE  IInv'
<1>1. HasAccount(req[r].email) /\ req[r].email \in Emails
  BY DEF IInv, TypeOK, RequestOK, DeleteAllSessions, At, HasAccount
<1>2. /\ sessions' \subseteq sessions /\ spared' \subseteq Emails
      /\ \A s \in sessions' : s.email = req[r].email => s.email \in spared'
      /\ \A e \in spared : e # req[r].email => e \in spared'
  BY <1>1 DEF DeleteAllSessions, IInv, TypeOK
<1>3. Return(r) /\ UNCHANGED <<users, tokens, links, passwords, unmarked>>
  BY DEF DeleteAllSessions
<1>4. \A p \in Requests : p # r => req'[p] = req[p]
  BY <1>3 DEF Return, IInv, TypeOK
<1>5. ResetSignsOut'
  <2>1. ASSUME NEW s \in sessions', ~(s.by \in {0, users[s.email].hash} \/ s.late \/ s.email \in spared')
        PROVE  \E p \in Requests : Resetting(p)' /\ req'[p].email = s.email
    <3>1. s.email # req[r].email /\ s.email \notin spared /\ s \in sessions
      BY <1>2, <2>1
    <3>2. PICK p \in Requests : Resetting(p) /\ req[p].email = s.email
      BY <2>1, <3>1 DEF IInv, ResetSignsOut
    <3> QED BY <1>4, <3>1, <3>2 DEF Resetting
  <2> QED BY <1>3, <2>1 DEF ResetSignsOut
<1>6. /\ sessions' \subseteq Session
      /\ \A s \in sessions' : users[s.email] # Nothing /\ s.id \in 1..MaxSessions
      /\ \A s, t \in sessions' : s.id = t.id => s = t
  BY <1>2 DEF IInv, TypeOK
<1> QED BY <1>2, <1>3, <1>5, <1>6, SessionStep

(* A session opened with a hash that is no longer the account's is marked  *)
(* as late.                                                                *)
LEMMA CreateSessionStep ==
  ASSUME IInv, NEW r \in Requests, CreateSession(r)
  PROVE  IInv'
<1> DEFINE by == IF req[r].google = Nothing THEN req[r].user.hash ELSE 0
           new(i) == [id |-> i, email |-> req[r].email, by |-> by,
                      late |-> by \notin {0, users[req[r].email].hash}]
<1>1. HasAccount(req[r].email) /\ by \in Nat /\ ~Ending(req[r])
  BY DEF IInv, TypeOK, RequestOK, CreateSession, At, Ending, User
<1>2. /\ Return(r)
      /\ UNCHANGED <<users, tokens, links, passwords, spared, unmarked>>
  BY DEF CreateSession
<1>3. PICK i \in FreeIds : sessions' = sessions \cup {new(i)}
  BY DEF CreateSession
<1>4. i \in 1..MaxSessions /\ \A s \in sessions : s.id # i
  BY <1>3 DEF FreeIds
<1>5. new(i) \in Session /\ new(i).id = i /\ new(i).email = req[r].email
  BY <1>1, <1>4, BoundsAssumption DEF Session, HasAccount
<1>6. new(i).by \in {0, users[new(i).email].hash} \/ new(i).late
  OBVIOUS
<1> HIDE DEF new
<1>7. \A p \in Requests : Resetting(p) => Resetting(p)' /\ req'[p] = req[p]
  BY <1>1, <1>2 DEF Return, Resetting, Ending, IInv, TypeOK
<1>8. ResetSignsOut'
  BY <1>2, <1>3, <1>6, <1>7 DEF IInv, ResetSignsOut
<1>9. /\ sessions' \subseteq Session
      /\ \A s \in sessions' : users[s.email] # Nothing /\ s.id \in 1..MaxSessions
      /\ \A s, t \in sessions' : s.id = t.id => s = t
  BY <1>1, <1>3, <1>4, <1>5 DEF IInv, TypeOK, HasAccount
<1> QED BY <1>2, <1>8, <1>9, SessionStep DEF IInv, TypeOK

(* logoutUser takes one session away.                                      *)
LEMMA LogoutStep ==
  ASSUME IInv, NEW r \in Requests, Logout(r)
  PROVE  IInv'
<1>1. /\ Return(r) /\ sessions' \subseteq sessions
      /\ UNCHANGED <<users, tokens, links, passwords, spared, unmarked>>
  BY DEF Logout
<1>2. \A p \in Requests : Resetting(p) => Resetting(p)' /\ req'[p] = req[p]
  BY <1>1 DEF Return, Resetting, Logout, At, IInv, TypeOK
<1>3. ResetSignsOut'
  BY <1>1, <1>2 DEF IInv, ResetSignsOut
<1>4. /\ sessions' \subseteq Session
      /\ \A s \in sessions' : users[s.email] # Nothing /\ s.id \in 1..MaxSessions
      /\ \A s, t \in sessions' : s.id = t.id => s = t
  BY <1>1 DEF IInv, TypeOK
<1> QED BY <1>1, <1>3, <1>4, SessionStep DEF IInv, TypeOK

-----------------------------------------------------------------------------

(* The tables are empty and no request is under way.                       *)
LEMMA InitInv == Init => IInv
<1> SUFFICES ASSUME Init PROVE IInv
  OBVIOUS
<1>1. Len(tokens) = 0 /\ tokens \in Seq(Token) /\ DOMAIN tokens = {}
  BY DEF Init
<1>2. Idle \in Request
  BY DEF Idle, Request, Steps
<1>3. TypeOK
  BY <1>1, <1>2, BoundsAssumption DEF Init, TypeOK, RequestOK, Idle
<1>4. ResetSignsOut /\ LinkedIsVerified /\ TokensAge
  BY <1>1 DEF Init, ResetSignsOut, LinkedIsVerified, TokensAge
<1>5. \A r \in Requests : LinkOK(req[r]) /\ CooldownOK(req[r])
  BY DEF Init, Idle, LinkOK, CooldownOK
<1> QED BY <1>3, <1>4, <1>5 DEF IInv

(* Whatever a client calls keeps IInv.                                     *)
LEMMA CallStep ==
  ASSUME IInv, NEW r \in Requests, Call(r)
  PROVE  IInv'
<1>1. ASSUME NEW e \in Emails, Register(r, e) \/ Login(r, e) \/ Ask(r, "verify", e) \/ Ask(r, "reset", e)
      PROVE  IInv'
  BY <1>1, RegisterStep, LoginStep, AskStep DEF Kinds
<1>2. ASSUME NEW t \in DOMAIN tokens, VerifyEmail(r, t) \/ BeginReset(r, t) \/ RefuseExpired(r, t)
      PROVE  IInv'
  BY <1>2, RedeemStep
<1>3. ASSUME NEW s \in sessions, Authenticate(r, s, "logout") \/ Authenticate(r, s, "organize")
      PROVE  IInv'
  BY <1>3, AuthenticateStep
<1>4. ASSUME NEW g \in Googles, GoogleBegin(r, g) PROVE IInv'
  BY <1>4, GoogleBeginStep
<1> QED BY <1>1, <1>2, <1>3, <1>4 DEF Call

(* Every statement of every handler keeps IInv.                            *)
LEMMA NextInv == IInv /\ [Next]_vars => IInv'
<1> SUFFICES ASSUME IInv, [Next]_vars PROVE IInv'
  OBVIOUS
<1>1. ASSUME NEW r \in Requests, Call(r) PROVE IInv'
  BY <1>1, CallStep
<1>2. ASSUME NEW r \in Requests,
             GetLatest(r) \/ Decide(r) \/ DeleteByIdentifier(r) \/ StoreToken(r)
      PROVE  IInv'
  BY <1>2, GetLatestStep, DecideStep, DeleteByIdentifierStep, StoreTokenStep
<1>3. ASSUME NEW r \in Requests,
             MarkVerified(r) \/ ResetPassword(r) \/ DeleteToken(r) \/ DeleteAllSessions(r)
      PROVE  IInv'
  BY <1>3, MarkVerifiedStep, ResetPasswordStep, DeleteTokenStep, DeleteAllSessionsStep
<1>4. ASSUME NEW r \in Requests, CreateSession(r) \/ Logout(r) \/ BecomeOrganizer(r)
      PROVE  IInv'
  BY <1>4, CreateSessionStep, LogoutStep, BecomeOrganizerStep
<1>5. ASSUME NEW r \in Requests,
             GoogleFind(r) \/ GoogleCreate(r) \/ GoogleVouch(r) \/ GoogleLink(r) \/ Die(r)
      PROVE  IInv'
  BY <1>5, GoogleFindStep, GoogleCreateStep, GoogleVouchStep, GoogleLinkStep, DieStep
<1>6. CASE Tick
  BY <1>6, TickStep
<1>7. CASE UNCHANGED vars
  BY <1>7 DEF vars, IInv, TypeOK, RequestOK, HasAccount, ResetSignsOut, Resetting, LinkedIsVerified,
              TokensAge, LinkOK, CooldownOK, IsOf
<1> QED BY <1>1, <1>2, <1>3, <1>4, <1>5, <1>6, <1>7 DEF Next

(* IInv holds in every state: what a request has read stays what its step  *)
(* works on, whatever the statements of other requests, failures, crashes  *)
(* and time do in between.                                                 *)
THEOREM InductiveInvariant == Spec => []IInv
<1> QED BY InitInv, NextInv, PTL DEF Spec

(* Every column keeps its type, and a request works on an account and a    *)
(* token there are.                                                        *)
THEOREM TypeCorrect == Spec => []TypeOK
<1>1. IInv => TypeOK
  BY DEF IInv
<1> QED BY <1>1, InductiveInvariant, PTL

(* resetPassword: a session that an earlier password opened is left only   *)
(* while the reset is under way, when ending the sessions failed, or when  *)
(* its login had read the old hash and stored it after the new one.        *)
THEOREM ResetEndsSessions == Spec => []ResetSignsOut
<1>1. IInv => ResetSignsOut
  BY DEF IInv
<1> QED BY <1>1, InductiveInvariant, PTL

(* googleCallback: an account is linked only once it is verified, unless   *)
(* marking it failed and was logged.                                       *)
THEOREM LinksAreVouchedFor == Spec => []LinkedIsVerified
<1>1. IInv => LinkedIsVerified
  BY DEF IInv
<1> QED BY <1>1, InductiveInvariant, PTL

(* Handlers that hold a copy of a user's row undo nothing that another one *)
(* has stored: only resetPassword changes a hash, and no flag, account or  *)
(* link is taken back.                                                     *)
THEOREM NoUpdateIsLost == Spec => NoLostUpdate
<1>1. ASSUME IInv, [Next]_vars, NEW e \in Emails, users[e] # Nothing
      PROVE  /\ users'[e] # Nothing
             /\ users[e].verified => users'[e].verified
             /\ users[e].organizer => users'[e].organizer
             /\ users'[e].hash # users[e].hash =>
                   \E r \in Requests : At(r, "password") /\ req[r].email = e /\ req'[r] # req[r]
  <2> DEFINE Kept == /\ users'[e] # Nothing
                     /\ users[e].verified => users'[e].verified
                     /\ users[e].organizer => users'[e].organizer
                     /\ users'[e].hash = users[e].hash
  <2>1. users \in [Emails -> User \cup {Nothing}] /\ users[e] \in User
    BY <1>1 DEF IInv, TypeOK
  <2>2. ASSUME users' = users PROVE Kept
    BY <1>1, <2>2
  <2>3. ASSUME NEW r \in Requests, NEW f \in Emails, Register(r, f) PROVE Kept
    BY <1>1, <2>1, <2>3 DEF Register, SetUser
  <2>4. ASSUME NEW r \in Requests, GoogleCreate(r) PROVE Kept
    BY <1>1, <2>1, <2>4 DEF GoogleCreate, SetUser
  <2>5. ASSUME NEW r \in Requests, MarkVerified(r) \/ GoogleVouch(r) \/ BecomeOrganizer(r) PROVE Kept
    <3>1. req[r].email \in Emails /\ users[req[r].email] \in User
      BY <1>1, <2>5, RowTyped DEF MarkVerified, GoogleVouch, BecomeOrganizer, At
    <3>2. PICK row \in User :
             /\ row.verified \/ ~users[req[r].email].verified
             /\ row.organizer \/ ~users[req[r].email].organizer
             /\ row.hash = users[req[r].email].hash
             /\ users' = [users EXCEPT ![req[r].email] = row]
      <4>1. CASE users' = users
        BY <2>1, <3>1, <4>1 DEF User
      <4>2. CASE users' = [users EXCEPT ![req[r].email] = [users[req[r].email] EXCEPT !.verified = TRUE]]
        BY <3>1, <4>2 DEF User
      <4>3. CASE users' = [users EXCEPT ![req[r].email] = [users[req[r].email] EXCEPT !.organizer = TRUE]]
        BY <3>1, <4>3 DEF User
      <4> QED BY <2>5, <4>1, <4>2, <4>3 DEF MarkVerified, GoogleVouch, BecomeOrganizer, SetUser
    <3> QED BY <1>1, <2>1, <3>1, <3>2, NothingAssumption
  <2>6. ASSUME NEW r \in Requests, ResetPassword(r)
        PROVE  /\ users'[e] # Nothing
               /\ users[e].verified => users'[e].verified
               /\ users[e].organizer => users'[e].organizer
               /\ users'[e].hash # users[e].hash =>
                     At(r, "password") /\ req[r].email = e /\ req'[r] # req[r]
    <3>1. req[r] \in Request /\ req \in [Requests -> Request] /\ req[r].email \in Emails
          /\ users[req[r].email] \in User /\ passwords + 1 \in Nat
      BY <1>1, <2>6, RowTyped, BoundsAssumption DEF ResetPassword, At, IInv, TypeOK
    <3>2. At(r, "password") /\ req'[r].step = "delete"
      BY <2>6, <3>1 DEF ResetPassword, Goto
    <3>3. users' = [users EXCEPT ![req[r].email] = [users[req[r].email] EXCEPT !.hash = passwords + 1]]
      BY <2>6 DEF ResetPassword, SetUser
    <3>4. [users[req[r].email] EXCEPT !.hash = passwords + 1] \in User
      BY <3>1 DEF User
    <3> QED BY <1>1, <2>1, <3>1, <3>2, <3>3, <3>4, NothingAssumption DEF At, User
  <2> HIDE DEF Kept
  <2>7. Kept \/ \E r \in Requests : ResetPassword(r)
    BY <1>1, <2>2, <2>3, <2>4, <2>5
    DEF Next, Call, Login, Ask, VerifyEmail, BeginReset, Redeem, RefuseExpired, Authenticate, GoogleBegin,
        GetLatest, Decide, DeleteByIdentifier, StoreToken, DeleteToken, DeleteAllSessions, CreateSession,
        Logout, GoogleFind, GoogleLink, Die, Tick, vars
  <2> QED BY <2>6, <2>7 DEF Kept
<1>2. ASSUME IInv, [Next]_vars, NEW g \in Googles, links[g] # Nothing PROVE links'[g] = links[g]
  <2>1. ASSUME NEW r \in Requests, GoogleLink(r) PROVE links'[g] = links[g]
    BY <1>2, <2>1 DEF GoogleLink, IInv, TypeOK
  <2> QED BY <1>2, <2>1
      DEF Next, Call, Register, Login, Ask, VerifyEmail, BeginReset, Redeem, RefuseExpired, Authenticate,
          GoogleBegin, GetLatest, Decide, DeleteByIdentifier, StoreToken, MarkVerified, ResetPassword,
          DeleteToken, DeleteAllSessions, CreateSession, Logout, BecomeOrganizer, GoogleFind, GoogleCreate,
          GoogleVouch, Die, Tick, vars
<1>3. IInv /\ [Next]_vars =>
          /\ \A e \in Emails : users[e] # Nothing =>
                /\ users'[e] # Nothing
                /\ users[e].verified => users'[e].verified
                /\ users[e].organizer => users'[e].organizer
                /\ users'[e].hash # users[e].hash =>
                      \E r \in Requests : At(r, "password") /\ req[r].email = e /\ req'[r] # req[r]
          /\ \A g \in Googles : links[g] # Nothing => links'[g] = links[g]
  BY <1>1, <1>2
<1> QED BY <1>3, InductiveInvariant, PTL DEF Spec, NoLostUpdate

(* A token that a request stores comes at least the cooldown after every   *)
(* token of its identifier that was there when the request looked, unless  *)
(* that token was used or deleted unseen.                                  *)
THEOREM CooldownIsKept == Spec => CooldownKept
<1>1. ASSUME IInv
      PROVE  \A r \in Requests :
                (At(r, "store") /\ Len(tokens') > Len(tokens) /\ req'[r] # req[r]) =>
                   \A t \in 1..req[r].seen :
                      IsOf(t, req[r]) /\ tokens[t].row # "gone" => tokens[t].age > Cooldown
  BY <1>1 DEF IInv, CooldownOK, At
<1> QED BY <1>1, InductiveInvariant, PTL DEF Spec, CooldownKept
=============================================================================
