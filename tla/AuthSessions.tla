---------------------------- MODULE AuthSessions ----------------------------
(***************************************************************************)
(* Refresh tokens, passwords and second factors of the auth service        *)
(* (services/auth_service.py, repositories/token_repo.py, routers/auth.py).*)
(*                                                                         *)
(* A request first reads (Begin), then runs the statements that write      *)
(* (Write), which wait for rows that another request has written and not   *)
(* yet committed, and then commits.  Between the three, other requests go  *)
(* on.  Two facts about the service's surroundings are parameters, because *)
(* the deployed ones stop most of AuthService from ever being used:        *)
(* see StoreLogin and HandOut.                                             *)
(***************************************************************************)
EXTENDS Integers, FiniteSets, UnitOfWork

CONSTANTS
    Users, Sessions, Passwords,
    TokenIds,    \* refresh tokens that may be issued
    ResetIds,    \* password-reset tokens that may be issued
    Secrets,     \* TOTP secrets generate_secret may draw
    None,
    StoreLogin,  \* what login flushes is kept: FALSE with a session per request
                 \* (database.py), TRUE with the one session of tests/conftest.py
    HandOut      \* a reset token reaches its user: FALSE with routers/auth.py, TRUE
                 \* for a caller that does something with what forgot_password returns

ASSUME FlagsAssumption == StoreLogin \in BOOLEAN /\ HandOut \in BOOLEAN
ASSUME SessionsAssumption == IsFiniteSet(Sessions)
ASSUME NoneAssumption == None \notin Passwords \cup TokenIds \cup ResetIds \cup Secrets

UserRow == [pw : Passwords, active : BOOLEAN, mfa : Secrets \cup {None}]

\* family is the token that login issued, parent (auxiliary) the one that was rotated.
TokenRow == [user : Users, family : TokenIds, parent : TokenIds \cup {None}, revoked : BOOLEAN]

\* used counts the commits that set used_at.
ResetRow == [user : Users, used : Nat, expired : BOOLEAN]
Unused == [unused |-> TRUE]

Ops == {"login", "refresh", "reuse", "logout", "logout_all", "change", "reset",
        "mfa_enable", "mfa_verify", "mfa_disable"}

Txn == [op : Ops, user : Users, key : TokenIds \cup ResetIds \cup {None}, pw : Passwords \cup {None},
        secret : Secrets \cup {None}, revoke : SUBSET TokenIds, issue : TokenIds \cup {None},
        written : BOOLEAN]
Idle == [op |-> "idle"]

VARIABLES
    users, tokens, resets,  \* the tables users, refresh_tokens, password_reset_tokens
    held,                   \* raw refresh tokens and reset tokens that clients were given
    txn                     \* the request each session serves

vars == <<users, tokens, resets, held, txn>>

TypeOK ==
    /\ users \in [Users -> UserRow]
    /\ tokens \in [TokenIds -> TokenRow \cup {Unused}]
    /\ resets \in [ResetIds -> ResetRow \cup {Unused}]
    /\ held \subseteq TokenIds \cup ResetIds
    /\ txn \in [Sessions -> Txn \cup {Idle}]

Init ==
    /\ \E p \in Passwords :
        users = [u \in Users |-> [pw |-> p, active |-> TRUE, mfa |-> None]]
    /\ tokens = [k \in TokenIds |-> Unused]
    /\ resets = [r \in ResetIds |-> Unused]
    /\ held = {}
    /\ txn = [s \in Sessions |-> Idle]

-----------------------------------------------------------------------------
(* The token repository *)

Live(k) == tokens[k] # Unused /\ ~tokens[k].revoked

\* What the bulk UPDATE of revoke_family finds ...
RevokeFamily(family) == {k \in TokenIds : Live(k) /\ tokens[k].family = family}

\* ... and that of revoke_all_for_user.
RevokeAllForUser(u) == {k \in TokenIds : Live(k) /\ tokens[k].user = u}

\* PasswordResetTokenRepository.get_by_hash
UsableReset(r) == resets[r] # Unused /\ resets[r].used = 0 /\ ~resets[r].expired

\* Keys of tokens that nobody has drawn yet (uuid4, token_urlsafe).
Fresh(k) == /\ tokens[k] = Unused /\ k \notin held
            /\ \A s \in Sessions : txn[s] # Idle => txn[s].issue # k

-----------------------------------------------------------------------------
(* What requests read *)

Begin(s, op, u, key, pw, secret) ==
    /\ txn[s] = Idle
    /\ txn' = [txn EXCEPT ![s] = [op |-> op, user |-> u, key |-> key, pw |-> pw, secret |-> secret,
                                  revoke |-> {}, issue |-> None, written |-> FALSE]]
    /\ UNCHANGED <<users, tokens, resets, held>>

\* POST /auth/login.  No second factor is asked for.
Login(s, u, pw) ==
    users[u].active /\ users[u].pw = pw /\ Begin(s, "login", u, None, None, None)

\* Plausible slip: a revoked token is rotated like any other.
Refresh_NoReuseCheck(s, k) ==
    k \in held /\ tokens[k] # Unused /\ Begin(s, "refresh", tokens[k].user, k, None, None)

\* POST /auth/refresh.  A revoked token is taken for a replay.
Refresh(s, k) ==
    /\ k \in held
    /\ tokens[k] # Unused
    /\ Begin(s, IF tokens[k].revoked THEN "reuse" ELSE "refresh", tokens[k].user, k, None, None)

\* POST /auth/logout
Logout(s, k) == k \in held /\ Live(k) /\ Begin(s, "logout", tokens[k].user, k, None, None)

\* get_current_user of the handlers below.
CurrentUser(u) == users[u].active

\* POST /auth/logout-all
LogoutAll(s, u) == CurrentUser(u) /\ Begin(s, "logout_all", u, None, None, None)

\* POST /auth/change-password
ChangePassword(s, u, current, new) ==
    CurrentUser(u) /\ users[u].pw = current /\ Begin(s, "change", u, None, new, None)

\* Plausible slip: the lookup forgets used_at.
ResetPassword_Reusable(s, r, new) ==
    /\ r \in held /\ resets[r] # Unused /\ ~resets[r].expired
    /\ Begin(s, "reset", resets[r].user, r, new, None)

\* POST /auth/reset-password, for inactive users too.
ResetPassword(s, r, new) ==
    r \in held /\ UsableReset(r) /\ Begin(s, "reset", resets[r].user, r, new, None)

\* POST /auth/mfa/enable, whatever there was before.
MfaEnable(s, u, secret) == CurrentUser(u) /\ Begin(s, "mfa_enable", u, None, None, secret)

\* POST /auth/mfa/verify and /mfa/disable, with a code of the secret that is stored.
\* Verifying commits and changes nothing.
MfaVerify(s, u) ==
    /\ CurrentUser(u) /\ users[u].mfa # None
    /\ Begin(s, "mfa_verify", u, None, None, None)
MfaDisable(s, u) ==
    /\ CurrentUser(u) /\ users[u].mfa # None
    /\ Begin(s, "mfa_disable", u, None, None, None)

-----------------------------------------------------------------------------
(* What requests write *)

\* Rows of users and refresh_tokens that a session has written and not committed.
Locks(s) ==
    IF txn[s] = Idle \/ ~txn[s].written THEN {}
    ELSE txn[s].revoke \cup
         (IF txn[s].op \in {"login", "change", "reset"} THEN {txn[s].user} ELSE {})

\* UPDATEs of these rows, and the INSERT of a token, after which the request may commit.
Write(s, revoke, rows, issue) ==
    /\ ~txn[s].written
    /\ \A r \in Sessions \ {s} : Locks(r) \cap (revoke \cup rows) = {}
    /\ txn' = [txn EXCEPT ![s].written = TRUE, ![s].revoke = revoke, ![s].issue = issue]
    /\ UNCHANGED <<users, tokens, resets, held>>

\* update_last_login and _issue_token_pair with a new family
WriteLogin(s, k) ==
    txn[s].op = "login" /\ Fresh(k) /\ Write(s, {}, {txn[s].user}, k)

\* Plausible slip: the rotated token stays valid.
WriteRefresh_KeepsOld(s, k) ==
    /\ txn[s].op = "refresh" /\ users[txn[s].user].active /\ Fresh(k)
    /\ Write(s, {}, {}, k)

\* revoke(stored); the user must still be active; _issue_token_pair in the same family
WriteRefresh(s, k) ==
    /\ txn[s].op = "refresh" /\ users[txn[s].user].active /\ Fresh(k)
    /\ Write(s, {txn[s].key}, {}, k)

\* revoke_family(stored.family), when stored was found revoked
WriteReuse(s) ==
    txn[s].op = "reuse" /\ Write(s, RevokeFamily(tokens[txn[s].key].family), {}, None)

WriteLogout(s) == txn[s].op = "logout" /\ Write(s, {txn[s].key}, {}, None)

WriteLogoutAll(s) ==
    txn[s].op = "logout_all" /\ Write(s, RevokeAllForUser(txn[s].user), {}, None)

\* The new hash is flushed before the tokens are revoked.
WritePassword(s) ==
    /\ txn[s].op \in {"change", "reset"}
    /\ Write(s, RevokeAllForUser(txn[s].user), {txn[s].user}, None)

\* The three MFA handlers only assign; what they assign goes out with the commit.
WriteMfa(s) ==
    /\ txn[s].op \in {"mfa_enable", "mfa_verify", "mfa_disable"}
    /\ Write(s, {}, {txn[s].user}, None)

-----------------------------------------------------------------------------
(* The end of a request *)

\* The row that _issue_token_pair adds, in the family of the token that was presented.
IssuedRow(t) ==
    [user |-> t.user, parent |-> t.key, revoked |-> FALSE,
     family |-> IF t.key = None THEN t.issue ELSE tokens[t.key].family]

\* Plausible slip: a request without a password clears it.
UserAfter_Null(t, row) == [row EXCEPT !.pw = t.pw]

\* The user's columns that this request assigns.
UserAfter(t, row) ==
    [row EXCEPT !.pw = IF t.pw = None THEN @ ELSE t.pw,
                !.mfa = IF t.op \in {"mfa_enable", "mfa_disable"} THEN t.secret ELSE @]

\* session.commit() and the response.  login has no commit: with a session per request
\* the client gets its token and the row is rolled back.
Commit(s) ==
    LET t == txn[s]
        stored == t.op = "login" => StoreLogin
    IN  /\ t # Idle /\ t.written
        /\ tokens' = [k \in TokenIds |->
                         IF k = t.issue /\ stored THEN IssuedRow(t)
                         ELSE IF k \in t.revoke THEN [tokens[k] EXCEPT !.revoked = TRUE]
                         ELSE tokens[k]]
        /\ users' = [users EXCEPT ![t.user] = UserAfter(t, @)]
        /\ resets' = IF t.op = "reset" THEN [resets EXCEPT ![t.key].used = @ + 1] ELSE resets
        /\ held' = held \cup ({t.issue} \ {None})
        /\ txn' = [txn EXCEPT ![s] = Idle]

\* The request fails or is cancelled; a refresh of an inactive user ends here.
Rollback(s) ==
    /\ txn[s] # Idle
    /\ txn' = [txn EXCEPT ![s] = Idle]
    /\ UNCHANGED <<users, tokens, resets, held>>

\* POST /auth/forgot-password commits a new row; the router drops the raw token.
ForgotPassword(u, r) ==
    /\ resets[r] = Unused
    /\ resets' = [resets EXCEPT ![r] = [user |-> u, used |-> 0, expired |-> FALSE]]
    /\ held' = IF HandOut THEN held \cup {r} ELSE held
    /\ UNCHANGED <<users, tokens, txn>>

\* An hour passes.
ExpireReset(r) ==
    /\ resets[r] # Unused
    /\ resets' = [resets EXCEPT ![r].expired = TRUE]
    /\ UNCHANGED <<users, tokens, held, txn>>

\* DELETE /users/{id}: tokens are left alone.
DeactivateUser(u) ==
    /\ users' = [users EXCEPT ![u].active = FALSE]
    /\ UNCHANGED <<tokens, resets, held, txn>>

Next ==
    \/ \E s \in Sessions :
        \/ \E u \in Users :
            \/ \E p \in Passwords : Login(s, u, p)
            \/ \E p, q \in Passwords : ChangePassword(s, u, p, q)
            \/ \E c \in Secrets : MfaEnable(s, u, c)
            \/ LogoutAll(s, u) \/ MfaVerify(s, u) \/ MfaDisable(s, u)
        \/ \E k \in TokenIds : Refresh(s, k) \/ Logout(s, k)
        \/ \E r \in ResetIds, p \in Passwords : ResetPassword(s, r, p)
        \/ /\ txn[s] # Idle
           /\ \/ \E k \in TokenIds : WriteLogin(s, k) \/ WriteRefresh(s, k)
              \/ WriteReuse(s) \/ WriteLogout(s) \/ WriteLogoutAll(s)
              \/ WritePassword(s) \/ WriteMfa(s)
        \/ Commit(s) \/ Rollback(s)
    \/ \E u \in Users : DeactivateUser(u) \/ \E r \in ResetIds : ForgotPassword(u, r)
    \/ \E r \in ResetIds : ExpireReset(r)

Spec == Init /\ [][Next]_vars

-----------------------------------------------------------------------------
(* Properties *)

\* "refresh tokens (30 day TTL, hashed with SHA-256, stored in DB)" (README): every
\* refresh token that login or refresh has handed to a client is in the table.
IssuedTokensAreStored == \A k \in held \cap TokenIds : tokens[k] # Unused

\* Rotation is atomic: however requests overlap, fail or roll back, a token from
\* which refresh has issued a successor is revoked.
SpentTokensStayDead ==
    \A k, c \in TokenIds : (tokens[c] # Unused /\ tokens[c].parent = k) => ~Live(k)

-----------------------------------------------------------------------------
(* Properties of requests that do not overlap *)

\* "every refresh issues a new token and revokes the old one" (README): a login has
\* at most one valid refresh token at any time.
OneLiveTokenPerFamily ==
    \A f \in TokenIds : Cardinality(RevokeFamily(f)) <= 1

\* "the entire family is invalidated immediately" (README), and so do logout, logout-all
\* and a new password: a family without a valid token never has one again.
DeadFamilyStaysDead ==
    \A f \in TokenIds : (tokens[f] # Unused /\ RevokeFamily(f) = {}) => RevokeFamily(f)' = {}

\* What is kept of "time-limited, single-use tokens" (README): of n requests that may overlap
\* all can find a reset token unused, but once one of them has committed no further one does.
UsesAreBounded(n) == \A r \in ResetIds : resets[r] # Unused => resets[r].used <= n

=============================================================================
