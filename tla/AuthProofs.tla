----------------------------- MODULE AuthProofs -----------------------------
(***************************************************************************)
(* Proofs about the auth service, for every set of users, tokens and       *)
(* sessions, whether or not what login flushes is kept (StoreLogin) and    *)
(* reset tokens reach anybody (HandOut).                                   *)
(***************************************************************************)
EXTENDS MCAuth, FiniteSetTheorems, TLAPS

\* What an open request may rely on: the token it was called with is in its table, so are
\* the tokens it has revoked, and the one it has issued is nobody else's.
RequestInv(t) ==
    /\ t.op \in {"refresh", "reuse", "logout"} => t.key \in TokenIds /\ tokens[t.key] # Unused
    /\ t.op = "login" => t.key = None
    /\ t.op = "reset" => t.key \in ResetIds /\ resets[t.key] # Unused
    /\ t.op \in {"change", "reset"} => t.pw \in Passwords
    /\ \A k \in t.revoke : tokens[k] # Unused
    /\ t.issue # None => t.op \in {"login", "refresh"} /\ tokens[t.issue] = Unused
    /\ t.issue # None /\ t.op = "refresh" => t.revoke = {t.key}

RequestsInv ==
    /\ \A s \in Sessions : txn[s] # Idle => RequestInv(txn[s])
    /\ \A r, s \in Sessions :
          r # s /\ txn[r] # Idle /\ txn[s] # Idle /\ txn[r].issue # None =>
              txn[r].issue # txn[s].issue

\* A token's family was founded by a token of the table, and the token that it replaced is
\* in the table, revoked.
LineageInv ==
    \A k \in TokenIds : tokens[k] # Unused =>
        /\ tokens[tokens[k].family] # Unused
        /\ tokens[k].parent # None => tokens[tokens[k].parent] # Unused /\ tokens[tokens[k].parent].revoked

AuthInv == TypeOK /\ RequestsInv /\ LineageInv

-----------------------------------------------------------------------------
\* The placeholder is no row.
LEMMA UnusedIsNoRow == Unused \notin TokenRow /\ Unused \notin ResetRow
BY DEF Unused, TokenRow, ResetRow

\* The placeholder is no request.
LEMMA IdleIsNoRequest == Idle \notin Txn
BY DEF Idle, Txn

\* No token exists when the service starts, and no request is open.
LEMMA AuthInitInv == Init => AuthInv
<1> SUFFICES ASSUME Init PROVE AuthInv
  OBVIOUS
<1>1. TypeOK
  BY DEF Init, TypeOK, UserRow
<1>2. RequestsInv /\ LineageInv
  BY DEF Init, RequestsInv, LineageInv
<1> QED BY <1>1, <1>2 DEF AuthInv

\* A handler reads, and leaves the tables alone.
LEMMA BeginInv ==
    ASSUME AuthInv, NEW s \in Sessions, NEW op \in Ops, NEW u \in Users,
           NEW key \in TokenIds \cup ResetIds \cup {None}, NEW pw \in Passwords \cup {None},
           NEW secret \in Secrets \cup {None},
           Begin(s, op, u, key, pw, secret),
           op \in {"refresh", "reuse", "logout"} => key \in TokenIds /\ tokens[key] # Unused,
           op = "login" => key = None,
           op = "reset" => key \in ResetIds /\ resets[key] # Unused,
           op \in {"change", "reset"} => pw \in Passwords
    PROVE  AuthInv'
<1> DEFINE t == [op |-> op, user |-> u, key |-> key, pw |-> pw, secret |-> secret,
                 revoke |-> {}, issue |-> None, written |-> FALSE]
<1>1. txn' = [txn EXCEPT ![s] = t] /\ UNCHANGED <<users, tokens, resets, held>>
  BY DEF Begin
<1>2. t \in Txn
  BY DEF Txn
<1>3. TypeOK'
  BY <1>1, <1>2 DEF AuthInv, TypeOK
<1>4. RequestInv(t)
  BY DEF RequestInv
<1>5. t.issue = None
  OBVIOUS
<1> HIDE DEF t
<1>6. \A r \in Sessions : txn'[r] # Idle => RequestInv(txn'[r])
  BY <1>1, <1>4 DEF AuthInv, TypeOK, RequestsInv
<1>7. \A r \in Sessions : txn'[r] # Idle => RequestInv(txn[r])'
  BY <1>1, <1>6 DEF RequestInv
<1>8. RequestsInv'
  BY <1>1, <1>5, <1>7 DEF AuthInv, TypeOK, RequestsInv
<1>9. LineageInv'
  BY <1>1 DEF AuthInv, LineageInv
<1> QED BY <1>3, <1>8, <1>9 DEF AuthInv

\* The statements of a request: they wait in its transaction.
LEMMA WriteInv ==
    ASSUME AuthInv, NEW s \in Sessions, txn[s] # Idle, NEW revoke \in SUBSET TokenIds, NEW rows,
           NEW issue \in TokenIds \cup {None}, Write(s, revoke, rows, issue),
           \A k \in revoke : tokens[k] # Unused,
           issue # None => Fresh(issue) /\ txn[s].op \in {"login", "refresh"},
           txn[s].op = "refresh" => revoke = {txn[s].key}
    PROVE  AuthInv'
<1> DEFINE t == [txn[s] EXCEPT !.written = TRUE, !.revoke = revoke, !.issue = issue]
<1>1. txn[s] \in Txn
  BY DEF AuthInv, TypeOK
<1>2. txn' = [txn EXCEPT ![s] = t] /\ UNCHANGED <<users, tokens, resets, held>>
  BY <1>1 DEF Write, AuthInv, TypeOK, Txn
<1>3. t \in Txn
  BY <1>1 DEF Txn
<1>4. /\ t.op = txn[s].op /\ t.key = txn[s].key /\ t.pw = txn[s].pw
      /\ t.revoke = revoke /\ t.issue = issue
  BY <1>1 DEF Txn
<1> HIDE DEF t
<1>5. TypeOK'
  BY <1>2, <1>3 DEF AuthInv, TypeOK
<1>6. RequestInv(t)
  <2>1. RequestInv(txn[s])
    BY DEF AuthInv, RequestsInv
  <2> QED BY <1>4, <2>1 DEF RequestInv, Fresh
<1>7. \A r \in Sessions : txn'[r] # Idle => RequestInv(txn'[r])
  BY <1>2, <1>6 DEF AuthInv, TypeOK, RequestsInv
<1>8. \A r \in Sessions : txn'[r] # Idle => RequestInv(txn[r])'
  BY <1>2, <1>7 DEF RequestInv
<1>9. RequestsInv'
  BY <1>2, <1>4, <1>8 DEF AuthInv, TypeOK, RequestsInv, Fresh
<1>10. LineageInv'
  BY <1>2 DEF AuthInv, LineageInv
<1> QED BY <1>5, <1>9, <1>10 DEF AuthInv

\* What a commit does to the token table: revoked tokens are found revoked, the issued one
\* is new, in the family of the token it replaces, and the others stay as they are.
LEMMA CommitTokens ==
    ASSUME AuthInv, NEW s \in Sessions, Commit(s)
    PROVE  /\ tokens' \in [TokenIds -> TokenRow \cup {Unused}]
           /\ \A k \in TokenIds :
                \/ tokens'[k] = tokens[k] /\ k \notin txn[s].revoke
                \/ /\ k \in txn[s].revoke /\ tokens[k] # Unused
                   /\ tokens'[k] = [tokens[k] EXCEPT !.revoked = TRUE]
                \/ /\ k = txn[s].issue /\ tokens[k] = Unused /\ tokens'[k] # Unused
                   /\ ~tokens'[k].revoked
                   /\ tokens'[k].parent = txn[s].key
                   /\ \/ txn[s].op = "login" /\ txn[s].key = None /\ tokens'[k].family = k
                      \/ /\ txn[s].op = "refresh" /\ txn[s].revoke = {txn[s].key}
                         /\ txn[s].key \in TokenIds /\ tokens[txn[s].key] # Unused
                         /\ tokens'[k].family = tokens[txn[s].key].family
<1> DEFINE t == txn[s]
<1>1. t \in Txn /\ RequestInv(t)
  BY DEF Commit, AuthInv, TypeOK, RequestsInv
<1>2. tokens' = [k \in TokenIds |->
                     IF k = t.issue /\ (t.op = "login" => StoreLogin) THEN IssuedRow(t)
                     ELSE IF k \in t.revoke THEN [tokens[k] EXCEPT !.revoked = TRUE]
                     ELSE tokens[k]]
  BY DEF Commit
<1>3. ASSUME NEW k \in TokenIds, k = t.issue
      PROVE  /\ IssuedRow(t) \in TokenRow /\ tokens[k] = Unused
             /\ ~IssuedRow(t).revoked /\ IssuedRow(t).parent = t.key
             /\ \/ t.op = "login" /\ t.key = None /\ IssuedRow(t).family = k
                \/ /\ t.op = "refresh" /\ t.revoke = {t.key}
                   /\ t.key \in TokenIds /\ tokens[t.key] # Unused
                   /\ IssuedRow(t).family = tokens[t.key].family
  <2>1. k # None
    BY NoneAssumption
  <2>2. t.op \in {"login", "refresh"} /\ tokens[k] = Unused
    BY <1>1, <1>3, <2>1 DEF RequestInv
  <2>3. CASE t.op = "login"
    BY <1>1, <1>3, <2>2, <2>3 DEF RequestInv, IssuedRow, TokenRow, Txn
  <2>4. CASE t.op = "refresh"
    <3>1. t.key \in TokenIds /\ tokens[t.key] \in TokenRow /\ t.key # None /\ t.revoke = {t.key}
      BY <1>1, <1>3, <2>1, <2>4, NoneAssumption DEF RequestInv, AuthInv, TypeOK
    <3>2. IssuedRow(t) = [user |-> t.user, parent |-> t.key, revoked |-> FALSE,
                          family |-> tokens[t.key].family]
      BY <3>1 DEF IssuedRow
    <3>3. t.user \in Users /\ tokens[t.key].family \in TokenIds /\ tokens[t.key] # Unused
      BY <1>1, <3>1, UnusedIsNoRow DEF Txn, TokenRow
    <3> QED BY <2>2, <2>4, <3>1, <3>2, <3>3 DEF TokenRow
  <2> QED BY <2>2, <2>3, <2>4
<1>4. ASSUME NEW k \in TokenIds, k \in t.revoke
      PROVE  tokens[k] # Unused /\ [tokens[k] EXCEPT !.revoked = TRUE] \in TokenRow
  <2>1. tokens[k] # Unused /\ tokens[k] \in TokenRow
    BY <1>1, <1>4 DEF RequestInv, AuthInv, TypeOK
  <2> QED BY <2>1 DEF TokenRow
<1>5. \A k \in TokenIds : k = t.issue => k \notin t.revoke
  BY <1>3, <1>4
<1> HIDE DEF t
<1>6. tokens' \in [TokenIds -> TokenRow \cup {Unused}]
  BY <1>2, <1>3, <1>4 DEF AuthInv, TypeOK
<1>7. ASSUME NEW k \in TokenIds
      PROVE  \/ tokens'[k] = tokens[k] /\ k \notin t.revoke
             \/ /\ k \in t.revoke /\ tokens[k] # Unused
                /\ tokens'[k] = [tokens[k] EXCEPT !.revoked = TRUE]
             \/ /\ k = t.issue /\ tokens[k] = Unused /\ tokens'[k] # Unused
                /\ tokens'[k] = IssuedRow(t)
  BY <1>2, <1>3, <1>4, <1>5, UnusedIsNoRow
<1>8. ASSUME NEW k \in TokenIds
      PROVE  \/ tokens'[k] = tokens[k] /\ k \notin t.revoke
             \/ /\ k \in t.revoke /\ tokens[k] # Unused
                /\ tokens'[k] = [tokens[k] EXCEPT !.revoked = TRUE]
             \/ /\ k = t.issue /\ tokens[k] = Unused /\ tokens'[k] # Unused
                /\ ~tokens'[k].revoked
                /\ tokens'[k].parent = t.key
                /\ \/ t.op = "login" /\ t.key = None /\ tokens'[k].family = k
                   \/ /\ t.op = "refresh" /\ t.revoke = {t.key}
                      /\ t.key \in TokenIds /\ tokens[t.key] # Unused
                      /\ tokens'[k].family = tokens[t.key].family
  BY <1>3, <1>7
<1> QED BY <1>6, <1>8 DEF t

\* Tokens stay in the table, and what is revoked stays revoked.
LEMMA CommitKeepsTokens ==
    ASSUME AuthInv, NEW s \in Sessions, Commit(s), NEW k \in TokenIds, tokens[k] # Unused
    PROVE  /\ tokens'[k] # Unused
           /\ tokens'[k].user = tokens[k].user
           /\ tokens'[k].family = tokens[k].family
           /\ tokens'[k].parent = tokens[k].parent
           /\ tokens[k].revoked \/ k \in txn[s].revoke => tokens'[k].revoked
<1>1. tokens[k] \in TokenRow
  BY DEF AuthInv, TypeOK
<1>2. \/ tokens'[k] = tokens[k] /\ k \notin txn[s].revoke
      \/ tokens'[k] = [tokens[k] EXCEPT !.revoked = TRUE]
  BY CommitTokens
<1>3. CASE tokens'[k] = [tokens[k] EXCEPT !.revoked = TRUE]
  <2>1. tokens'[k] \in TokenRow
    BY <1>1, <1>3 DEF TokenRow
  <2> QED BY <1>1, <1>3, <2>1, UnusedIsNoRow DEF TokenRow
<1> QED BY <1>2, <1>3

\* Rotation: the commit that adds a successor revokes the token it replaces.
LEMMA CommitLineage ==
    ASSUME AuthInv, NEW s \in Sessions, Commit(s)
    PROVE  LineageInv'
<1> SUFFICES ASSUME NEW k \in TokenIds, tokens'[k] # Unused
             PROVE  /\ tokens'[tokens'[k].family] # Unused
                    /\ tokens'[k].parent # None =>
                          tokens'[tokens'[k].parent] # Unused /\ tokens'[tokens'[k].parent].revoked
  BY DEF LineageInv
<1>1. tokens'[k] \in TokenRow
  BY CommitTokens
<1>2. CASE tokens[k] # Unused
  <2>1. tokens'[k].family = tokens[k].family /\ tokens'[k].parent = tokens[k].parent
    BY <1>2, CommitKeepsTokens
  <2>2. /\ tokens[tokens[k].family] # Unused
        /\ tokens[k].parent # None => tokens[tokens[k].parent] # Unused /\ tokens[tokens[k].parent].revoked
    BY <1>2 DEF AuthInv, LineageInv
  <2>3. tokens[k].family \in TokenIds /\ tokens[k].parent \in TokenIds \cup {None}
    BY <1>1, <2>1 DEF TokenRow
  <2> QED BY <2>1, <2>2, <2>3, CommitKeepsTokens
<1>3. CASE tokens[k] = Unused
  <2>1. /\ k = txn[s].issue /\ tokens'[k].parent = txn[s].key
        /\ \/ txn[s].op = "login" /\ txn[s].key = None /\ tokens'[k].family = k
           \/ /\ txn[s].op = "refresh" /\ txn[s].revoke = {txn[s].key}
              /\ txn[s].key \in TokenIds /\ tokens[txn[s].key] # Unused
              /\ tokens'[k].family = tokens[txn[s].key].family
    BY <1>3, CommitTokens
  <2>2. CASE txn[s].op = "login"
    BY <2>1, <2>2
  <2>3. CASE txn[s].op = "refresh"
    <3>1. txn[s].key \in TokenIds /\ tokens[txn[s].key] # Unused /\ txn[s].revoke = {txn[s].key}
          /\ tokens'[k].family = tokens[txn[s].key].family
      BY <2>1, <2>3
    <3>2. tokens'[txn[s].key] # Unused /\ tokens'[txn[s].key].revoked
      BY <3>1, CommitKeepsTokens
    <3>3. /\ tokens[txn[s].key].family \in TokenIds
          /\ tokens[tokens[txn[s].key].family] # Unused
      BY <3>1 DEF AuthInv, TypeOK, TokenRow, LineageInv
    <3> QED BY <2>1, <3>1, <3>2, <3>3, CommitKeepsTokens
  <2> QED BY <2>1, <2>2, <2>3
<1> QED BY <1>2, <1>3

\* What a commit writes keeps types, requests and lineage as the invariant wants them.
LEMMA CommitInv ==
    ASSUME AuthInv, NEW s \in Sessions, Commit(s)
    PROVE  AuthInv'
<1> DEFINE t == txn[s]
<1>1. t \in Txn /\ RequestInv(t) /\ txn' = [txn EXCEPT ![s] = Idle]
  BY DEF Commit, AuthInv, TypeOK, RequestsInv
<1>2. users' \in [Users -> UserRow]
  <2>1. t.user \in Users /\ users[t.user] \in UserRow
    BY <1>1 DEF Txn, AuthInv, TypeOK
  <2>2. UserAfter(t, users[t.user]) \in UserRow
    BY <1>1, <2>1 DEF UserAfter, UserRow, Txn
  <2>3. users' = [users EXCEPT ![t.user] = UserAfter(t, users[t.user])]
    BY DEF Commit
  <2> QED BY <2>1, <2>2, <2>3 DEF AuthInv, TypeOK
<1>3. /\ resets' \in [ResetIds -> ResetRow \cup {Unused}]
      /\ \A r \in ResetIds : resets[r] # Unused => resets'[r] # Unused
  <2>1. CASE t.op = "reset"
    <3>1. t.key \in ResetIds /\ resets[t.key] \in ResetRow
      BY <1>1, <2>1 DEF RequestInv, AuthInv, TypeOK
    <3>2. resets' = [resets EXCEPT ![t.key] = [resets[t.key] EXCEPT !.used = @ + 1]]
      BY <2>1, <3>1 DEF Commit, AuthInv, TypeOK
    <3>3. [resets[t.key] EXCEPT !.used = @ + 1] \in ResetRow
      BY <3>1 DEF ResetRow
    <3> QED BY <3>1, <3>2, <3>3, UnusedIsNoRow DEF AuthInv, TypeOK
  <2>2. CASE t.op # "reset"
    BY <2>2 DEF Commit, AuthInv, TypeOK
  <2> QED BY <2>1, <2>2
<1>4. held' \subseteq TokenIds \cup ResetIds
  BY <1>1 DEF Commit, AuthInv, TypeOK, Txn
<1>5. TypeOK'
  BY <1>1, <1>2, <1>3, <1>4, CommitTokens DEF AuthInv, TypeOK
<1>6. ASSUME NEW r \in Sessions, txn'[r] # Idle
      PROVE  r # s /\ txn'[r] = txn[r] /\ txn[r] # Idle
  BY <1>1, <1>6 DEF AuthInv, TypeOK
<1>7. ASSUME NEW r \in Sessions, txn'[r] # Idle
      PROVE  RequestInv(txn[r])'
  <2>1. r # s /\ txn'[r] = txn[r] /\ txn[r] # Idle /\ t # Idle
    BY <1>6, <1>7 DEF Commit
  <2>2. RequestInv(txn[r]) /\ txn[r] \in Txn
    BY <2>1 DEF AuthInv, TypeOK, RequestsInv
  <2>3. txn[r].issue # None => tokens'[txn[r].issue] = Unused
    <3>1. txn[r].issue # None => txn[r].issue # t.issue /\ tokens[txn[r].issue] = Unused
      BY <2>1, <2>2 DEF AuthInv, RequestsInv, RequestInv
    <3>2. txn[r].issue # None => txn[r].issue \in TokenIds
      BY <2>2 DEF Txn
    <3> QED BY <3>1, <3>2, CommitTokens
  <2>4. \A k \in txn[r].revoke : tokens'[k] # Unused
    BY <2>2, CommitKeepsTokens DEF RequestInv, Txn
  <2>5. txn[r].op \in {"refresh", "reuse", "logout"} =>
            txn[r].key \in TokenIds /\ tokens'[txn[r].key] # Unused
    BY <2>2, CommitKeepsTokens DEF RequestInv
  <2> QED BY <1>3, <2>1, <2>2, <2>3, <2>4, <2>5 DEF RequestInv
<1>8. RequestsInv'
  BY <1>6, <1>7 DEF RequestsInv, AuthInv
<1> QED BY <1>5, <1>8, CommitLineage DEF AuthInv

\* Init and every step of a request, an administrator or the clock keep the invariant.
LEMMA AuthNextInv == AuthInv /\ [Next]_vars => AuthInv'
<1> SUFFICES ASSUME AuthInv, [Next]_vars PROVE AuthInv'
  OBVIOUS
<1> USE DEF Ops
<1>1. ASSUME NEW s \in Sessions, NEW u \in Users,
             \/ \E p \in Passwords : Login(s, u, p)
             \/ \E p, q \in Passwords : ChangePassword(s, u, p, q)
             \/ \E c \in Secrets : MfaEnable(s, u, c)
             \/ LogoutAll(s, u) \/ MfaVerify(s, u) \/ MfaDisable(s, u)
      PROVE  AuthInv'
  BY <1>1, BeginInv DEF Login, ChangePassword, MfaEnable, LogoutAll, MfaVerify, MfaDisable
<1>2. ASSUME NEW s \in Sessions, NEW k \in TokenIds, Refresh(s, k) \/ Logout(s, k)
      PROVE  AuthInv'
  <2>1. tokens[k] # Unused /\ tokens[k].user \in Users
    BY <1>2 DEF Refresh, Logout, Live, AuthInv, TypeOK, TokenRow
  <2> QED BY <1>2, <2>1, BeginInv DEF Refresh, Logout
<1>3. ASSUME NEW s \in Sessions, NEW r \in ResetIds, NEW p \in Passwords, ResetPassword(s, r, p)
      PROVE  AuthInv'
  <2>1. resets[r] # Unused /\ resets[r].user \in Users
    BY <1>3 DEF ResetPassword, UsableReset, AuthInv, TypeOK, ResetRow
  <2> QED BY <1>3, <2>1, BeginInv DEF ResetPassword
<1>4. ASSUME NEW s \in Sessions, txn[s] # Idle,
             \/ \E k \in TokenIds : WriteLogin(s, k) \/ WriteRefresh(s, k)
             \/ WriteReuse(s) \/ WriteLogout(s) \/ WriteLogoutAll(s)
             \/ WritePassword(s) \/ WriteMfa(s)
      PROVE  AuthInv'
  <2>1. RequestInv(txn[s])
    BY <1>4 DEF AuthInv, RequestsInv
  <2>2. ASSUME NEW k \in TokenIds, WriteLogin(s, k) \/ WriteRefresh(s, k)
        PROVE  AuthInv'
    BY <1>4, <2>1, <2>2, WriteInv DEF WriteLogin, WriteRefresh, RequestInv
  <2>3. CASE WriteLogout(s)
    BY <1>4, <2>1, <2>3, WriteInv DEF WriteLogout, RequestInv
  <2>4. CASE WriteReuse(s)
    <3>1. \A f : RevokeFamily(f) \in SUBSET TokenIds /\ \A k \in RevokeFamily(f) : tokens[k] # Unused
      BY DEF RevokeFamily, Live
    <3> QED BY <1>4, <2>4, <3>1, WriteInv DEF WriteReuse
  <2>5. CASE WriteLogoutAll(s) \/ WritePassword(s)
    <3>1. \A u : RevokeAllForUser(u) \in SUBSET TokenIds /\ \A k \in RevokeAllForUser(u) : tokens[k] # Unused
      BY DEF RevokeAllForUser, Live
    <3> QED BY <1>4, <2>5, <3>1, WriteInv DEF WriteLogoutAll, WritePassword
  <2>6. CASE WriteMfa(s)
    BY <1>4, <2>6, WriteInv DEF WriteMfa
  <2> QED BY <1>4, <2>2, <2>3, <2>4, <2>5, <2>6
<1>5. ASSUME NEW s \in Sessions, Commit(s)
      PROVE  AuthInv'
  BY <1>5, CommitInv
<1>6. ASSUME NEW s \in Sessions, Rollback(s)
      PROVE  AuthInv'
  BY <1>6 DEF Rollback, AuthInv, TypeOK, RequestsInv, RequestInv, LineageInv
<1>7. ASSUME NEW u \in Users, DeactivateUser(u)
      PROVE  AuthInv'
  <2>1. users' \in [Users -> UserRow] /\ UNCHANGED <<tokens, resets, held, txn>>
    BY <1>7 DEF DeactivateUser, AuthInv, TypeOK, UserRow
  <2> QED BY <2>1 DEF AuthInv, TypeOK, RequestsInv, RequestInv, LineageInv
<1>8. ASSUME NEW r \in ResetIds, ExpireReset(r) \/ \E u \in Users : ForgotPassword(u, r)
      PROVE  AuthInv'
  <2>1. /\ resets' \in [ResetIds -> ResetRow \cup {Unused}]
        /\ \A q \in ResetIds : resets[q] # Unused => resets'[q] # Unused
    <3>1. CASE ExpireReset(r)
      <4>1. resets[r] \in ResetRow
        BY <3>1 DEF ExpireReset, AuthInv, TypeOK
      <4>2. [resets[r] EXCEPT !.expired = TRUE] \in ResetRow
        BY <4>1 DEF ResetRow
      <4>3. resets' = [resets EXCEPT ![r] = [resets[r] EXCEPT !.expired = TRUE]]
        BY <3>1 DEF ExpireReset
      <4> QED BY <4>2, <4>3, UnusedIsNoRow DEF AuthInv, TypeOK
    <3>2. ASSUME NEW u \in Users, ForgotPassword(u, r)
          PROVE  <2>1
      <4>1. [user |-> u, used |-> 0, expired |-> FALSE] \in ResetRow
        BY DEF ResetRow
      <4> QED BY <3>2, <4>1, UnusedIsNoRow DEF ForgotPassword, AuthInv, TypeOK
    <3> QED BY <1>8, <3>1, <3>2
  <2>2. UNCHANGED <<users, tokens, txn>> /\ held' \subseteq TokenIds \cup ResetIds
    BY <1>8 DEF ExpireReset, ForgotPassword, AuthInv, TypeOK
  <2> QED BY <2>1, <2>2 DEF AuthInv, TypeOK, RequestsInv, RequestInv, LineageInv
<1>9. CASE UNCHANGED vars
  BY <1>9 DEF vars, AuthInv, TypeOK, RequestsInv, RequestInv, LineageInv
<1> QED
  BY <1>1, <1>2, <1>3, <1>4, <1>5, <1>6, <1>7, <1>8, <1>9 DEF Next

\* The inductive invariant of tokens: types, what open requests hold, and lineage.
LEMMA AuthInvAlways == Spec => []AuthInv
BY AuthInitInv, AuthNextInv, PTL DEF Spec

\* Whatever overlaps, fails or rolls back, a token that refresh has replaced is revoked.
THEOREM SpentTokensStayDeadAlways == Spec => []SpentTokensStayDead
<1>1. AuthInv => SpentTokensStayDead
  BY NoneAssumption DEF AuthInv, LineageInv, SpentTokensStayDead, Live
<1> QED BY <1>1, AuthInvAlways, PTL

-----------------------------------------------------------------------------
(* How often a reset token is used, and families under requests that do not overlap *)

Requests == {s \in Sessions : txn[s] # Idle}
Resetting(r) == {s \in Requests : txn[s].op = "reset" /\ txn[s].key = r}

\* The service as AuthSessions specifies it, without the bounds of MCAuth; only where a
\* behaviour is about requests that do not overlap, they do not.
OneAtATime == part = "serial" => Cardinality(Requests) <= 1
TokensSpec == Spec /\ [][part' = part]_part /\ []OneAtATime

\* The behaviours that TLC explores are among those of TokensSpec.
LEMMA RunsAreTokens == MCSpec => TokensSpec
<1>1. MCInit => Init /\ OneAtATime
  <2> SUFFICES ASSUME MCInit PROVE Init /\ OneAtATime
    OBVIOUS
  <2>1. Requests = {}
    BY DEF MCInit, Init, Requests
  <2> QED BY <2>1, FS_EmptySet DEF MCInit, OneAtATime
<1>2. [MCNext]_mcVars => [Next]_vars
  BY DEF MCNext, mcVars
<1>3. [MCNext]_mcVars => [part' = part]_part
  BY DEF MCNext, mcVars
<1>4. OneAtATime /\ [MCNext]_mcVars => OneAtATime'
  <2> SUFFICES ASSUME OneAtATime, [MCNext]_mcVars PROVE OneAtATime'
    OBVIOUS
  <2>1. CASE UNCHANGED vars /\ part' = part
    BY <2>1 DEF vars, OneAtATime, Requests
  <2>2. CASE Fits' /\ part' = part
    BY <2>2 DEF Fits, OneAtATime, Requests
  <2> QED BY <2>1, <2>2 DEF MCNext, mcVars
<1> QED BY <1>1, <1>2, <1>3, <1>4, PTL DEF MCSpec, TokensSpec, Spec

\* A set with one element at most.
LEMMA AtMostOne ==
    ASSUME NEW S, IsFiniteSet(S)
    PROVE  Cardinality(S) <= 1 <=> \A x, y \in S : x = y
<1>1. Cardinality(S) \in Nat
  BY FS_CardinalityType
<1>2. Cardinality(S) <= 1 => S = {} \/ \E x : S = {x}
  <2>1. Cardinality(S) <= 1 => Cardinality(S) = 0 \/ Cardinality(S) = 1
    BY <1>1
  <2> QED BY <2>1, FS_EmptySet, FS_Singleton
<1>3. ASSUME \A x, y \in S : x = y
      PROVE  Cardinality(S) <= 1
  <2>1. CASE S = {}
    BY <2>1, FS_EmptySet
  <2>2. CASE S # {}
    <3>1. PICK x \in S : S = {x}
      BY <1>3, <2>2
    <3>2. Cardinality({x}) = 1
      BY FS_Singleton
    <3> QED BY <3>1, <3>2
  <2> QED BY <2>1, <2>2
<1> QED BY <1>2, <1>3

\* The open requests are finitely many, and one of them at a time if they do not overlap.
Bound == IF part = "serial" THEN 1 ELSE Cardinality(Sessions)

\* Requests of one kind, among those that are open, are finitely many and at most Bound.
LEMMA RequestsAreBounded ==
    ASSUME NEW R \in SUBSET Sessions, part = "serial" => Cardinality(R) <= 1, NEW T \in SUBSET R
    PROVE  IsFiniteSet(T) /\ Cardinality(T) \in Nat /\ Bound \in Nat /\ Cardinality(T) <= Bound
<1>1. /\ IsFiniteSet(R) /\ Cardinality(R) <= Cardinality(Sessions)
      /\ Cardinality(Sessions) \in Nat /\ Cardinality(R) \in Nat
  BY SessionsAssumption, FS_Subset, FS_CardinalityType
<1>2. Cardinality(R) <= Bound /\ Bound \in Nat
  BY <1>1 DEF Bound
<1>3. IsFiniteSet(T) /\ Cardinality(T) <= Cardinality(R) /\ Cardinality(T) \in Nat
  BY <1>1, FS_Subset, FS_CardinalityType
<1> QED BY <1>1, <1>2, <1>3

\* A step leaves a reset token unused, or counts a use by one of the requests that had found
\* it unused; and once it is used no further request finds it so.
LEMMA ResetStep ==
    ASSUME AuthInv, [Next]_vars, NEW r \in ResetIds, resets'[r] # Unused
    PROVE  \/ resets'[r].used = 0
           \/ /\ resets[r] # Unused /\ resets'[r].used = resets[r].used
              /\ Resetting(r)' \subseteq Resetting(r)
           \/ /\ resets[r] # Unused /\ resets'[r].used = resets[r].used + 1
              /\ \E s \in Resetting(r) : Resetting(r)' = Resetting(r) \ {s}
<1> DEFINE Goal == \/ resets'[r].used = 0
                   \/ /\ resets[r] # Unused /\ resets'[r].used = resets[r].used
                      /\ Resetting(r)' \subseteq Resetting(r)
                   \/ /\ resets[r] # Unused /\ resets'[r].used = resets[r].used + 1
                      /\ \E s \in Resetting(r) : Resetting(r)' = Resetting(r) \ {s}
<1>1. ASSUME NEW s \in Sessions, NEW op, NEW u, NEW key, NEW pw, NEW secret,
             Begin(s, op, u, key, pw, secret), op = "reset" => key \in ResetIds /\ UsableReset(key)
      PROVE  Goal
  <2>1. CASE op = "reset" /\ key = r
    BY <1>1, <2>1 DEF Begin, UsableReset
  <2>2. CASE ~(op = "reset" /\ key = r)
    BY <1>1, <2>2 DEF Begin, Resetting, Requests, AuthInv, TypeOK
  <2> QED BY <2>1, <2>2
<1>2. ASSUME NEW s \in Sessions, NEW revoke, NEW rows, NEW issue,
             txn[s] # Idle, Write(s, revoke, rows, issue)
      PROVE  Goal
  <2>1. txn[s] \in Txn
    BY <1>2 DEF AuthInv, TypeOK
  <2>2. /\ txn' = [txn EXCEPT ![s] = [txn[s] EXCEPT !.written = TRUE, !.revoke = revoke, !.issue = issue]]
        /\ resets' = resets
    BY <1>2, <2>1 DEF Write, AuthInv, TypeOK, Txn
  <2>3. txn'[s].op = txn[s].op /\ txn'[s].key = txn[s].key
    BY <2>1, <2>2 DEF AuthInv, TypeOK, Txn
  <2>4. \A x \in Sessions \ {s} : txn'[x] = txn[x]
    BY <2>2 DEF AuthInv, TypeOK
  <2>5. Resetting(r)' \subseteq Resetting(r)
    BY <1>2, <2>3, <2>4 DEF Resetting, Requests
  <2> QED BY <2>2, <2>5
<1>3. ASSUME NEW s \in Sessions, Commit(s)
      PROVE  Goal
  <2>1. txn' = [txn EXCEPT ![s] = Idle] /\ txn[s] # Idle
    BY <1>3 DEF Commit
  <2>2. Resetting(r)' = Resetting(r) \ {s}
    BY <2>1 DEF Resetting, Requests, AuthInv, TypeOK
  <2>3. CASE txn[s].op = "reset" /\ txn[s].key = r
    <3>1. s \in Resetting(r)
      BY <2>1, <2>3 DEF Resetting, Requests
    <3>2. resets[r] # Unused /\ resets[r] \in ResetRow
      BY <2>1, <2>3 DEF AuthInv, RequestsInv, RequestInv, TypeOK
    <3>3. resets'[r] = [resets[r] EXCEPT !.used = @ + 1]
      BY <1>3, <2>3, <3>2 DEF Commit, AuthInv, TypeOK
    <3>4. resets'[r].used = resets[r].used + 1
      BY <3>2, <3>3 DEF ResetRow
    <3> QED BY <2>2, <3>1, <3>2, <3>4
  <2>4. CASE ~(txn[s].op = "reset" /\ txn[s].key = r)
    <3>1. resets'[r] = resets[r]
      BY <1>3, <2>4 DEF Commit, AuthInv, TypeOK
    <3> QED BY <2>2, <3>1
  <2> QED BY <2>3, <2>4
<1>4. ASSUME NEW s \in Sessions, Rollback(s)
      PROVE  Goal
  BY <1>4 DEF Rollback, Resetting, Requests, AuthInv, TypeOK
<1>5. ASSUME NEW q \in ResetIds, ExpireReset(q) \/ \E u \in Users : ForgotPassword(u, q)
      PROVE  Goal
  <2>1. txn' = txn
    BY <1>5 DEF ExpireReset, ForgotPassword
  <2>2. Resetting(r)' = Resetting(r)
    BY <2>1 DEF Resetting, Requests
  <2>3. CASE ExpireReset(q)
    <3>1. resets[r] # Unused /\ resets[r] \in ResetRow
      BY <2>3, UnusedIsNoRow DEF ExpireReset, AuthInv, TypeOK
    <3>2. resets'[r].used = resets[r].used
      BY <2>3, <3>1 DEF ExpireReset, AuthInv, TypeOK, ResetRow
    <3> QED BY <2>2, <3>1, <3>2
  <2>4. ASSUME NEW u \in Users, ForgotPassword(u, q)
        PROVE  Goal
    BY <2>2, <2>4 DEF ForgotPassword, AuthInv, TypeOK
  <2> QED BY <1>5, <2>3, <2>4
<1>6. ASSUME txn' = txn, resets' = resets
      PROVE  Goal
  BY <1>6 DEF Resetting, Requests
<1> HIDE DEF Goal
<1>7. ASSUME NEW s \in Sessions, txn[s] # Idle,
             \/ \E k \in TokenIds : WriteLogin(s, k) \/ WriteRefresh(s, k)
             \/ WriteReuse(s) \/ WriteLogout(s) \/ WriteLogoutAll(s)
             \/ WritePassword(s) \/ WriteMfa(s)
      PROVE  Goal
  BY <1>2, <1>7
  DEF WriteLogin, WriteRefresh, WriteReuse, WriteLogout, WriteLogoutAll, WritePassword, WriteMfa
<1>8. ASSUME NEW s \in Sessions, NEW u \in Users,
             \/ \E p \in Passwords : Login(s, u, p)
             \/ \E p, q \in Passwords : ChangePassword(s, u, p, q)
             \/ \E c \in Secrets : MfaEnable(s, u, c)
             \/ LogoutAll(s, u) \/ MfaVerify(s, u) \/ MfaDisable(s, u)
      PROVE  Goal
  BY <1>1, <1>8 DEF Login, ChangePassword, MfaEnable, LogoutAll, MfaVerify, MfaDisable
<1>9. ASSUME NEW s \in Sessions, \/ \E k \in TokenIds : Refresh(s, k) \/ Logout(s, k)
                                 \/ \E q \in ResetIds, p \in Passwords : ResetPassword(s, q, p)
      PROVE  Goal
  BY <1>1, <1>9 DEF Refresh, Logout, ResetPassword
<1>10. (\E u \in Users : DeactivateUser(u)) \/ UNCHANGED vars => Goal
  BY <1>6 DEF DeactivateUser, vars
<1>11. Goal
  BY <1>3, <1>4, <1>5, <1>7, <1>8, <1>9, <1>10 DEF Next
<1> QED BY <1>11 DEF Goal

\* Uses that were counted, and requests that may still count one, are within the bound.
ResetBoundInv ==
    \A r \in ResetIds : resets[r] # Unused => resets[r].used + Cardinality(Resetting(r)) <= Bound

\* A step uses a reset token at most once for each request that read it as unused.
LEMMA ResetBoundStep ==
    ASSUME AuthInv, AuthInv', OneAtATime, OneAtATime', ResetBoundInv, [Next]_vars, [part' = part]_part
    PROVE  ResetBoundInv'
<1> SUFFICES ASSUME NEW r \in ResetIds, resets'[r] # Unused
             PROVE  resets'[r].used + Cardinality(Resetting(r)') <= Bound
  BY DEF ResetBoundInv, Bound
<1>1. /\ Bound \in Nat
      /\ IsFiniteSet(Resetting(r)) /\ Cardinality(Resetting(r)) \in Nat
  BY RequestsAreBounded DEF Resetting, Requests, OneAtATime
<1>2. /\ Cardinality(Resetting(r)') <= Bound
      /\ IsFiniteSet(Resetting(r)') /\ Cardinality(Resetting(r)') \in Nat
  BY RequestsAreBounded DEF Resetting, Requests, OneAtATime
<1>3. resets[r] # Unused => /\ resets[r].used \in Nat
                            /\ resets[r].used + Cardinality(Resetting(r)) <= Bound
  BY DEF AuthInv, TypeOK, ResetRow, ResetBoundInv
<1>4. CASE resets'[r].used = 0
  BY <1>1, <1>2, <1>4
<1>5. CASE /\ resets[r] # Unused /\ resets'[r].used = resets[r].used
           /\ Resetting(r)' \subseteq Resetting(r)
  <2>1. Cardinality(Resetting(r)') <= Cardinality(Resetting(r))
    BY <1>1, <1>5, FS_Subset
  <2> QED BY <1>1, <1>2, <1>3, <1>5, <2>1
<1>6. CASE /\ resets[r] # Unused /\ resets'[r].used = resets[r].used + 1
           /\ \E s \in Resetting(r) : Resetting(r)' = Resetting(r) \ {s}
  <2>1. Cardinality(Resetting(r)') = Cardinality(Resetting(r)) - 1
    BY <1>1, <1>6, FS_RemoveElement
  <2> QED BY <1>1, <1>2, <1>3, <1>6, <2>1
<1> QED BY <1>4, <1>5, <1>6, ResetStep

\* reset_password accepts a reset token once if requests do not overlap, and otherwise once
\* for each request that is open at a time: the check and the mark are two steps of a request,
\* but no request that starts after a commit finds the token unused.
THEOREM ResetUsesAreBoundedAlways == TokensSpec => []ResetUsesAreBounded
<1>1. Init => ResetBoundInv
  BY DEF Init, ResetBoundInv
<1>2. AuthInv /\ OneAtATime /\ ResetBoundInv => ResetUsesAreBounded
  <2> SUFFICES ASSUME AuthInv, OneAtATime, ResetBoundInv, NEW r \in ResetIds, resets[r] # Unused
               PROVE  resets[r].used <= Bound
    BY DEF ResetUsesAreBounded, UsesAreBounded, Bound
  <2>1. Bound \in Nat /\ Cardinality(Resetting(r)) \in Nat
    BY RequestsAreBounded DEF Resetting, Requests, OneAtATime
  <2>2. resets[r].used \in Nat /\ resets[r].used + Cardinality(Resetting(r)) <= Bound
    BY DEF AuthInv, TypeOK, ResetRow, ResetBoundInv
  <2> QED BY <2>1, <2>2
<1> QED BY <1>1, <1>2, AuthInvAlways, ResetBoundStep, PTL DEF TokensSpec, Spec

\* When requests do not overlap, a token being refreshed is live, and no family has two.
SerialInv == part = "serial" =>
    /\ \A s \in Requests : txn[s].op = "refresh" => Live(txn[s].key)
    /\ \A k, c \in TokenIds : Live(k) /\ Live(c) /\ tokens[k].family = tokens[c].family => k = c

\* A step changes the tokens only in a commit.
LEMMA OnlyCommitChangesTokens ==
    ASSUME [Next]_vars, tokens' # tokens
    PROVE  \E s \in Sessions : Commit(s)
<1>1. ASSUME NEW s \in Sessions, NEW k \in TokenIds, WriteLogin(s, k) \/ WriteRefresh(s, k)
      PROVE  tokens' = tokens
  BY <1>1 DEF WriteLogin, WriteRefresh, Write
<1>2. ASSUME NEW s \in Sessions,
             WriteReuse(s) \/ WriteLogout(s) \/ WriteLogoutAll(s) \/ WritePassword(s) \/ WriteMfa(s)
      PROVE  tokens' = tokens
  BY <1>2 DEF WriteReuse, WriteLogout, WriteLogoutAll, WritePassword, WriteMfa, Write
<1>3. ASSUME NEW s \in Sessions, Rollback(s) PROVE tokens' = tokens
  BY <1>3 DEF Rollback
<1>4. ASSUME NEW s \in Sessions, NEW k \in TokenIds, Refresh(s, k) \/ Logout(s, k)
      PROVE  tokens' = tokens
  BY <1>4 DEF Refresh, Logout, Begin
<1>5. ASSUME NEW s \in Sessions, NEW u \in Users,
             \/ \E p \in Passwords : Login(s, u, p)
             \/ \E p, q \in Passwords : ChangePassword(s, u, p, q)
             \/ \E c \in Secrets : MfaEnable(s, u, c)
             \/ LogoutAll(s, u) \/ MfaVerify(s, u) \/ MfaDisable(s, u)
      PROVE  tokens' = tokens
  BY <1>5 DEF Login, ChangePassword, MfaEnable, LogoutAll, MfaVerify, MfaDisable, Begin
<1>6. ASSUME NEW s \in Sessions, NEW r \in ResetIds, NEW p \in Passwords, ResetPassword(s, r, p)
      PROVE  tokens' = tokens
  BY <1>6 DEF ResetPassword, Begin
<1>7. ASSUME \/ \E u \in Users : DeactivateUser(u) \/ \E r \in ResetIds : ForgotPassword(u, r)
             \/ \E r \in ResetIds : ExpireReset(r)
      PROVE  tokens' = tokens
  BY <1>7 DEF DeactivateUser, ForgotPassword, ExpireReset
<1>8. CASE UNCHANGED vars
  BY <1>8 DEF vars
<1> QED BY <1>1, <1>2, <1>3, <1>4, <1>5, <1>6, <1>7, <1>8, Zenon DEF Next

\* A request keeps its kind and its key; a refresh starts from a token that is not revoked.
LEMMA RefreshStep ==
    ASSUME AuthInv, [Next]_vars, NEW s \in Sessions, txn'[s] # Idle, txn'[s].op = "refresh"
    PROVE  \/ txn[s] # Idle /\ txn[s].op = "refresh" /\ txn'[s].key = txn[s].key
           \/ Live(txn'[s].key) /\ tokens' = tokens
<1> DEFINE Goal == \/ txn[s] # Idle /\ txn[s].op = "refresh" /\ txn'[s].key = txn[s].key
                   \/ Live(txn'[s].key) /\ tokens' = tokens
<1>1. ASSUME txn'[s] = txn[s]
      PROVE  Goal
  BY <1>1
<1>2. ASSUME NEW r \in Sessions, txn' = [txn EXCEPT ![r] = Idle]
      PROVE  Goal
  BY <1>2 DEF AuthInv, TypeOK
<1>3. ASSUME NEW r \in Sessions, NEW revoke, NEW rows, NEW issue,
             txn[r] # Idle, Write(r, revoke, rows, issue)
      PROVE  Goal
  <2>1. txn[r] \in Txn
    BY <1>3 DEF AuthInv, TypeOK
  <2>2. txn' = [txn EXCEPT ![r] = [txn[r] EXCEPT !.written = TRUE, !.revoke = revoke, !.issue = issue]]
    BY <1>3, <2>1 DEF Write, AuthInv, TypeOK, Txn
  <2>3. txn'[r].op = txn[r].op /\ txn'[r].key = txn[r].key
    BY <2>1, <2>2 DEF AuthInv, TypeOK, Txn
  <2>4. s # r => txn'[s] = txn[s]
    BY <2>2 DEF AuthInv, TypeOK
  <2> QED BY <1>3, <2>3, <2>4
<1>4. ASSUME NEW r \in Sessions, NEW op, NEW u, NEW key, NEW pw, NEW secret,
             Begin(r, op, u, key, pw, secret), op = "refresh" => Live(key)
      PROVE  Goal
  BY <1>4 DEF Begin, AuthInv, TypeOK
<1> HIDE DEF Goal
<1>5. ASSUME NEW r \in Sessions, txn[r] # Idle,
             \/ \E k \in TokenIds : WriteLogin(r, k) \/ WriteRefresh(r, k)
             \/ WriteReuse(r) \/ WriteLogout(r) \/ WriteLogoutAll(r)
             \/ WritePassword(r) \/ WriteMfa(r)
      PROVE  Goal
  BY <1>3, <1>5
  DEF WriteLogin, WriteRefresh, WriteReuse, WriteLogout, WriteLogoutAll, WritePassword, WriteMfa
<1>6. ASSUME NEW r \in Sessions, NEW u \in Users,
             \/ \E p \in Passwords : Login(r, u, p)
             \/ \E p, q \in Passwords : ChangePassword(r, u, p, q)
             \/ \E c \in Secrets : MfaEnable(r, u, c)
             \/ LogoutAll(r, u) \/ MfaVerify(r, u) \/ MfaDisable(r, u)
      PROVE  Goal
  BY <1>4, <1>6 DEF Login, ChangePassword, MfaEnable, LogoutAll, MfaVerify, MfaDisable
<1>7. ASSUME NEW r \in Sessions, \/ \E k \in TokenIds : Refresh(r, k) \/ Logout(r, k)
                                 \/ \E q \in ResetIds, p \in Passwords : ResetPassword(r, q, p)
      PROVE  Goal
  BY <1>4, <1>7 DEF Refresh, Logout, ResetPassword, Live
<1>8. ASSUME NEW r \in Sessions, Commit(r) \/ Rollback(r)
      PROVE  Goal
  BY <1>2, <1>8 DEF Commit, Rollback
<1>9. UNCHANGED vars \/ (\E u \in Users : DeactivateUser(u)) => Goal
  BY <1>1 DEF DeactivateUser, vars
<1>10. (\E q \in ResetIds : ExpireReset(q) \/ \E u \in Users : ForgotPassword(u, q)) => Goal
  BY <1>1 DEF ExpireReset, ForgotPassword
<1>11. Goal
  BY <1>5, <1>6, <1>7, <1>8, <1>9, <1>10 DEF Next
<1> QED BY <1>11 DEF Goal

\* With no other request around, a commit revives no token and adds one to a family only in
\* the place of its one live token.
LEMMA SerialCommit ==
    ASSUME AuthInv, part = "serial", OneAtATime, SerialInv, NEW s \in Sessions, Commit(s),
           NEW k \in TokenIds, Live(k)'
    PROVE  \/ Live(k) /\ k \notin txn[s].revoke /\ tokens'[k].family = tokens[k].family
           \/ tokens[k] = Unused /\ k = txn[s].issue /\ tokens'[k].family = k
           \/ /\ tokens[k] = Unused /\ k = txn[s].issue
              /\ txn[s].revoke = {txn[s].key} /\ txn[s].key \in TokenIds /\ Live(txn[s].key)
              /\ tokens'[k].family = tokens[txn[s].key].family
<1>1. tokens'[k] # Unused /\ ~tokens'[k].revoked
  BY DEF Live
<1>2. s \in Requests /\ (txn[s].op = "refresh" => Live(txn[s].key))
  BY DEF Commit, Requests, SerialInv
<1>3. CASE tokens'[k] = tokens[k] /\ k \notin txn[s].revoke
  BY <1>1, <1>3 DEF Live
<1>4. CASE tokens[k] # Unused /\ tokens'[k] = [tokens[k] EXCEPT !.revoked = TRUE]
  BY <1>1, <1>4 DEF AuthInv, TypeOK, TokenRow
<1> QED BY <1>2, <1>3, <1>4, CommitTokens

\* The step of both serial properties: no commit revives a family, none adds a second token.
LEMMA SerialStep ==
    ASSUME AuthInv, OneAtATime, OneAtATime', SerialInv, [Next]_vars, [part' = part]_part
    PROVE  SerialInv' /\ (part = "serial" => DeadFamilyStaysDead)
<1> SUFFICES ASSUME part = "serial", part' = "serial"
             PROVE  /\ \A s \in Requests' : txn'[s].op = "refresh" => Live(txn[s].key)'
                    /\ \A k, c \in TokenIds :
                          Live(k)' /\ Live(c)' /\ tokens'[k].family = tokens'[c].family => k = c
                    /\ \A f \in TokenIds :
                          tokens[f] # Unused /\ RevokeFamily(f) = {} => RevokeFamily(f)' = {}
  BY DEF SerialInv, DeadFamilyStaysDead
<1>1. CASE tokens' = tokens
  <2>1. \A k : Live(k)' = Live(k)
    BY <1>1 DEF Live
  <2>2. \A f \in TokenIds : RevokeFamily(f)' = RevokeFamily(f)
    BY <1>1, <2>1 DEF RevokeFamily
  <2>3. ASSUME NEW s \in Requests', txn'[s].op = "refresh"
        PROVE  Live(txn'[s].key)
    BY <2>3, RefreshStep DEF Requests, SerialInv
  <2>4. \A s : Live(txn[s].key)' = Live(txn'[s].key)
    BY <1>1 DEF Live
  <2> QED BY <1>1, <2>1, <2>2, <2>3, <2>4 DEF SerialInv
<1>2. CASE tokens' # tokens
  <2>1. PICK s \in Sessions : Commit(s)
    BY <1>2, OnlyCommitChangesTokens
  <2>2. Requests' = {}
    <3>1. \A x, y \in Requests : x = y
      BY SessionsAssumption, FS_Subset, AtMostOne DEF OneAtATime, Requests
    <3>2. s \in Requests /\ txn' = [txn EXCEPT ![s] = Idle]
      BY <2>1 DEF Commit, Requests
    <3> QED BY <3>1, <3>2 DEF Requests, AuthInv, TypeOK
  <2>3. ASSUME NEW k \in TokenIds, NEW c \in TokenIds, Live(k)', Live(c)',
               tokens'[k].family = tokens'[c].family
        PROVE  k = c
    <3>1. \A x \in TokenIds : Live(x) => tokens[x] # Unused /\ tokens[tokens[x].family] # Unused
      BY DEF Live, AuthInv, LineageInv
    <3>2. \A x, y \in TokenIds : Live(x) /\ Live(y) /\ tokens[x].family = tokens[y].family => x = y
      BY DEF SerialInv
    <3> QED BY <2>1, <2>3, <3>1, <3>2, SerialCommit
  <2>4. ASSUME NEW f \in TokenIds, tokens[f] # Unused, RevokeFamily(f) = {},
               NEW k \in TokenIds, Live(k)', tokens'[k].family = f
        PROVE  FALSE
    BY <2>1, <2>4, SerialCommit DEF RevokeFamily
  <2>5. \A f \in TokenIds : tokens[f] # Unused /\ RevokeFamily(f) = {} => RevokeFamily(f)' = {}
    BY <2>4 DEF RevokeFamily
  <2> QED BY <2>2, <2>3, <2>5
<1> QED BY <1>1, <1>2

\* The invariant of requests that do not overlap.
LEMMA SerialInvAlways == TokensSpec => []SerialInv
<1>1. Init => SerialInv
  BY DEF Init, SerialInv, Requests, Live
<1> QED BY <1>1, AuthInvAlways, SerialStep, PTL DEF TokensSpec, Spec

\* Without overlap, a login has one valid refresh token at most: refresh, replay, logout and
\* new passwords taken together.
THEOREM SerialOneLiveTokenPerFamilyAlways == TokensSpec => []SerialOneLiveTokenPerFamily
<1>1. SerialInv => SerialOneLiveTokenPerFamily
  <2> SUFFICES ASSUME SerialInv, part = "serial", NEW f \in TokenIds
               PROVE  Cardinality(RevokeFamily(f)) <= 1
    BY DEF SerialOneLiveTokenPerFamily, OneLiveTokenPerFamily
  <2>1. \A k, c \in RevokeFamily(f) : k = c
    BY DEF SerialInv, RevokeFamily
  <2>2. RevokeFamily(f) = {} \/ \E k : RevokeFamily(f) = {k}
    BY <2>1
  <2>3. Cardinality(RevokeFamily(f)) \in {0, 1}
    BY <2>2, FS_EmptySet, FS_Singleton
  <2> QED BY <2>3
<1> QED BY <1>1, SerialInvAlways, PTL

\* Without overlap, a family without a valid token never has one again.
THEOREM SerialDeadFamiliesStayDeadAlways == TokensSpec => SerialDeadFamiliesStayDead
<1>1. AuthInv /\ OneAtATime /\ OneAtATime' /\ SerialInv /\ [Next]_vars /\ [part' = part]_part =>
          [part = "serial" => DeadFamilyStaysDead]_mcVars
  BY SerialStep
<1> QED
  BY <1>1, AuthInvAlways, SerialInvAlways, PTL DEF TokensSpec, Spec, SerialDeadFamiliesStayDead

-----------------------------------------------------------------------------
(* The directory *)

\* The role r is or was one that a tenant made for itself.
CustomRole(r) == roles[r] # Dir!Unused /\ (roles[r] # Dir!Gone => ~roles[r].system)

\* What an open request of the directory is about to write: keys of rows that are or were
\* there, and values of the columns' types.
DirRequestInv(x) ==
    /\ x.op = "register" => x.slug \in Slugs /\ x.email \in Emails
    /\ x.op = "user" => /\ x.tenant \in TenantIds /\ tenants[x.tenant] # Dir!Unused
                        /\ x.email \in Emails /\ x.grant \subseteq RoleIds
    /\ x.op = "deactivate" => x.user \in UserIds /\ accounts[x.user] # Dir!Unused
    /\ x.op = "assign" => x.user \in UserIds /\ x.role \in RoleIds
    /\ x.op = "role" => x.tenant \in TenantIds /\ x.name \in Dir!RoleNames /\ x.perms \in Permissions
    /\ x.op = "perms" => x.perms \in Permissions
    /\ x.op \in {"perms", "drop"} => x.role \in RoleIds /\ CustomRole(x.role)
    /\ x.op = "close" => x.tenant \in TenantIds /\ tenants[x.tenant] # Dir!Unused

DirRequestsInv ==
    /\ dirTxn = [s \in Sessions |-> dirTxn[s]]
    /\ \A s \in Sessions : DirRequestInv(dirTxn[s])

\* Every user has its tenant, deleted or not.
MembershipInv ==
    \A u \in UserIds : accounts[u] # Dir!Unused => tenants[accounts[u].tenant] # Dir!Unused

DirInv == Dir!TypeOK /\ DirRequestsInv /\ MembershipInv /\ SystemRolesStay

\* Rows are neither of the placeholders.
LEMMA PlaceholdersAreNoRows ==
    /\ Dir!Unused \notin Dir!Tenant \cup Dir!User \cup Dir!Role
    /\ Dir!Gone \notin Dir!Tenant \cup Dir!User \cup Dir!Role
    /\ Dir!Unused # Dir!Gone
BY DEF Dir!Unused, Dir!Gone, Dir!Tenant, Dir!User, Dir!Role

\* The tables of the directory start empty.
LEMMA DirInitInv == Dir!Init => DirInv
<1> SUFFICES ASSUME Dir!Init PROVE DirInv
  OBVIOUS
<1>1. Dir!TypeOK
  BY DEF Dir!Init, Dir!TypeOK
<1>2. DirRequestsInv
  BY DEF Dir!Init, DirRequestsInv, DirRequestInv, Dir!Idle
<1>3. MembershipInv /\ SystemRolesStay
  BY DEF Dir!Init, MembershipInv, SystemRolesStay, Dir!SystemRolesStay, Dir!Live
<1> QED BY <1>1, <1>2, <1>3 DEF DirInv

\* A request of the directory reads and leaves the tables alone.
LEMMA DirBeginInv ==
    ASSUME DirInv, NEW s \in Sessions, NEW t, Dir!Begin(s, t), DirRequestInv(t)
    PROVE  DirInv'
<1>1. dirTxn' = [dirTxn EXCEPT ![s] = t] /\ UNCHANGED <<tenants, accounts, roles, userRoles>>
  BY DEF Dir!Begin, Dir!tables
<1>2. Dir!TypeOK' /\ MembershipInv' /\ SystemRolesStay'
  BY <1>1 DEF DirInv, Dir!TypeOK, MembershipInv, SystemRolesStay, Dir!SystemRolesStay, Dir!Live
<1>3. dirTxn' = [x \in Sessions |-> dirTxn'[x]] /\ \A x \in Sessions : DirRequestInv(dirTxn'[x])
  BY <1>1 DEF DirInv, DirRequestsInv
<1>4. \A x \in Sessions : DirRequestInv(dirTxn'[x]) => DirRequestInv(dirTxn[x])'
  BY <1>1 DEF DirRequestInv, CustomRole
<1>5. DirRequestsInv'
  BY <1>3, <1>4 DEF DirRequestsInv
<1> QED BY <1>2, <1>5 DEF DirInv

\* What the statements of a request leave in the tables, whatever the constraints then say of it:
\* rows, and every key that was used before.
LEMMA DirWrites ==
    ASSUME DirInv, NEW s \in Sessions, Dir!Write(dirTxn[s])
    PROVE  /\ Dir!TypeOK'
           /\ MembershipInv'
           /\ \A t \in TenantIds : tenants[t] # Dir!Unused => tenants'[t] # Dir!Unused
           /\ \A u \in UserIds : accounts[u] # Dir!Unused => accounts'[u] # Dir!Unused
<1> DEFINE x == dirTxn[s]
<1>0. DirRequestInv(x) /\ Dir!TypeOK /\ MembershipInv
  BY DEF DirInv, DirRequestsInv
<1> HIDE DEF x
<1> USE PlaceholdersAreNoRows
<1>1. CASE x.op = "register" /\ Dir!Write(x)
  <2>1. x.slug \in Slugs /\ x.email \in Emails
    BY <1>0, <1>1 DEF DirRequestInv
  <2>2. PICK t \in Dir!Free(tenants), u \in Dir!Free(accounts),
             seed \in [Dir!SystemRoles -> Dir!Free(roles)] : Dir!WriteTenant(x, t, u, seed)
    BY <1>1 DEF Dir!Write
  <2>3. t \in TenantIds /\ u \in UserIds /\ Dir!Free(roles) \subseteq RoleIds
    BY <1>0 DEF Dir!Free, Dir!TypeOK
  <2>4. [slug |-> x.slug, deleted |-> FALSE] \in Dir!Tenant
    BY <2>1 DEF Dir!Tenant
  <2>5. Dir!NewUser(t, x.email) \in Dir!User /\ Dir!NewUser(t, x.email).tenant = t
    BY <2>1, <2>3 DEF Dir!NewUser, Dir!User
  <2>6. ASSUME NEW n \in Dir!SystemRoles
        PROVE  Dir!SystemRole(t, n) \in Dir!Role
    BY <2>3, PermissionsAssumption DEF Dir!SystemRole, Dir!NewRole, Dir!Role, Dir!RoleNames
  <2>7. roles' \in [RoleIds -> Dir!Role \cup {Dir!Unused, Dir!Gone}]
    BY <1>0, <2>2, <2>6 DEF Dir!WriteTenant, Dir!TypeOK
  <2>8. userRoles' \subseteq UserIds \X RoleIds
    BY <1>0, <2>2, <2>3 DEF Dir!WriteTenant, Dir!TypeOK, Dir!SystemRoles
  <2>9. /\ tenants' = [tenants EXCEPT ![t] = [slug |-> x.slug, deleted |-> FALSE]]
        /\ accounts' = [accounts EXCEPT ![u] = Dir!NewUser(t, x.email)]
    BY <2>2 DEF Dir!WriteTenant
  <2>10. /\ \A v \in TenantIds : tenants[v] # Dir!Unused => tenants'[v] # Dir!Unused
         /\ \A v \in UserIds : accounts[v] # Dir!Unused => accounts'[v] # Dir!Unused
    BY <1>0, <2>3, <2>4, <2>5, <2>9 DEF Dir!TypeOK
  <2>11. MembershipInv'
    BY <1>0, <2>3, <2>4, <2>5, <2>9, <2>10 DEF Dir!TypeOK, Dir!User, MembershipInv
  <2> QED BY <1>0, <2>3, <2>4, <2>5, <2>7, <2>8, <2>9, <2>10, <2>11 DEF Dir!TypeOK
<1>2. CASE x.op = "user" /\ Dir!Write(x)
  <2>1. /\ x.tenant \in TenantIds /\ tenants[x.tenant] # Dir!Unused
        /\ x.email \in Emails /\ x.grant \subseteq RoleIds
    BY <1>0, <1>2 DEF DirRequestInv
  <2>2. PICK u \in Dir!Free(accounts) :
            /\ accounts' = [accounts EXCEPT ![u] = Dir!NewUser(x.tenant, x.email)]
            /\ userRoles' = userRoles \cup ({u} \X x.grant)
    BY <1>2 DEF Dir!Write
  <2>3. tenants' = tenants /\ roles' = roles
    BY <1>2 DEF Dir!Write
  <2>4. u \in UserIds
    BY <1>0 DEF Dir!Free, Dir!TypeOK
  <2>5. Dir!NewUser(x.tenant, x.email) \in Dir!User /\ Dir!NewUser(x.tenant, x.email).tenant = x.tenant
    BY <2>1 DEF Dir!NewUser, Dir!User
  <2>6. MembershipInv'
    BY <1>0, <2>1, <2>2, <2>3, <2>4, <2>5 DEF Dir!TypeOK, MembershipInv
  <2> QED BY <1>0, <2>1, <2>2, <2>3, <2>4, <2>5, <2>6 DEF Dir!TypeOK
<1>3. CASE x.op = "deactivate" /\ Dir!Write(x)
  <2>1. x.user \in UserIds /\ accounts[x.user] \in Dir!User
    BY <1>0, <1>3 DEF DirRequestInv, Dir!TypeOK
  <2> DEFINE row == [accounts[x.user] EXCEPT !.active = FALSE, !.deleted = TRUE]
  <2>2. /\ accounts' = [accounts EXCEPT ![x.user].active = FALSE, ![x.user].deleted = TRUE]
        /\ UNCHANGED <<tenants, roles, userRoles>>
    BY <1>3 DEF Dir!Write
  <2>5. accounts' = [accounts EXCEPT ![x.user] = row]
    BY <1>0, <2>1, <2>2 DEF Dir!TypeOK
  <2>3. row \in Dir!User /\ row.tenant = accounts[x.user].tenant
    BY <2>1 DEF Dir!User
  <2> HIDE DEF row
  <2>4. MembershipInv'
    BY <1>0, <2>1, <2>2, <2>3, <2>5 DEF Dir!TypeOK, MembershipInv
  <2> QED BY <1>0, <2>1, <2>2, <2>3, <2>4, <2>5 DEF Dir!TypeOK
<1>4. CASE x.op \in {"assign", "remove"} /\ Dir!Write(x)
  <2>1. UNCHANGED <<tenants, accounts, roles>>
    BY <1>4 DEF Dir!Write
  <2>2. userRoles' \subseteq UserIds \X RoleIds
    <3>1. CASE x.op = "assign"
      BY <1>0, <1>4, <3>1 DEF Dir!Write, DirRequestInv, Dir!TypeOK
    <3>2. CASE x.op = "remove"
      <4>1. userRoles' \subseteq userRoles
        BY <1>4, <3>2 DEF Dir!Write
      <4> QED BY <1>0, <4>1 DEF Dir!TypeOK
    <3> QED BY <1>4, <3>1, <3>2
  <2> QED BY <1>0, <2>1, <2>2 DEF Dir!TypeOK, MembershipInv
<1>5. CASE x.op \in {"role", "perms", "drop"} /\ Dir!Write(x)
  <2>1. UNCHANGED <<tenants, accounts, userRoles>>
    BY <1>5 DEF Dir!Write
  <2>2. roles' \in [RoleIds -> Dir!Role \cup {Dir!Unused, Dir!Gone}]
    <3>1. CASE x.op = "role"
      <4>1. PICK r \in Dir!Free(roles) :
                roles' = [roles EXCEPT ![r] = Dir!NewRole(x.tenant, x.name, FALSE, x.perms)]
        BY <1>5, <3>1 DEF Dir!Write
      <4>2. Dir!NewRole(x.tenant, x.name, FALSE, x.perms) \in Dir!Role
        BY <1>0, <3>1 DEF DirRequestInv, Dir!NewRole, Dir!Role
      <4> QED BY <1>0, <4>1, <4>2 DEF Dir!TypeOK
    <3>2. CASE x.op = "perms"
      <4>1. x.role \in RoleIds /\ x.perms \in Permissions /\ roles[x.role] \in Dir!Role
        BY <1>0, <1>5, <3>2 DEF DirRequestInv, Dir!Write, Dir!Live, Dir!TypeOK
      <4>2. [roles[x.role] EXCEPT !.perms = x.perms] \in Dir!Role
        BY <4>1 DEF Dir!Role
      <4>3. roles' = [roles EXCEPT ![x.role] = [roles[x.role] EXCEPT !.perms = x.perms]]
        BY <1>5, <3>2 DEF Dir!Write
      <4> QED BY <1>0, <4>2, <4>3 DEF Dir!TypeOK
    <3>3. CASE x.op = "drop"
      BY <1>0, <1>5, <3>3 DEF Dir!Write, Dir!TypeOK
    <3> QED BY <1>5, <3>1, <3>2, <3>3
  <2> QED BY <1>0, <2>1, <2>2 DEF Dir!TypeOK, MembershipInv
<1>6. CASE x.op = "close" /\ Dir!Write(x)
  <2>1. x.tenant \in TenantIds /\ tenants[x.tenant] \in Dir!Tenant
    BY <1>0, <1>6 DEF DirRequestInv, Dir!TypeOK
  <2>2. /\ tenants' = [tenants EXCEPT ![x.tenant] = [tenants[x.tenant] EXCEPT !.deleted = TRUE]]
        /\ UNCHANGED <<accounts, roles, userRoles>>
    BY <1>6 DEF Dir!Write
  <2>3. [tenants[x.tenant] EXCEPT !.deleted = TRUE] \in Dir!Tenant
    BY <2>1 DEF Dir!Tenant
  <2>4. MembershipInv'
    BY <1>0, <2>1, <2>2, <2>3 DEF Dir!TypeOK, Dir!User, MembershipInv
  <2> QED BY <1>0, <2>1, <2>2, <2>3, <2>4 DEF Dir!TypeOK
<1>7. Dir!Write(x)
  BY DEF x
<1>9. x.op \in {"register", "user", "deactivate", "assign", "remove", "role", "perms", "drop", "close"}
  BY <1>7 DEF Dir!Write
<1> QED BY <1>1, <1>2, <1>3, <1>4, <1>5, <1>6, <1>7, <1>9

\* The statements of a request leave a role that a tenant made what it is, and every tenant
\* its system roles, those of a tenant just registered included.
LEMMA DirRoles ==
    ASSUME DirInv, NEW s \in Sessions, Dir!Write(dirTxn[s])
    PROVE  SystemRolesStay' /\ \A r \in RoleIds : CustomRole(r) => CustomRole(r)'
<1> DEFINE x == dirTxn[s]
<1>0. DirRequestInv(x) /\ Dir!TypeOK /\ SystemRolesStay /\ Dir!Write(x)
  BY DEF DirInv, DirRequestsInv
<1> HIDE DEF x
<1> USE PlaceholdersAreNoRows
<1>1. \A t, n : /\ Dir!SystemRole(t, n) # Dir!Unused
               /\ Dir!SystemRole(t, n) # Dir!Gone
               /\ Dir!SystemRole(t, n).system = TRUE
  BY DEF Dir!SystemRole, Dir!NewRole, Dir!Unused, Dir!Gone
<1>2. \A r : roles'[r] = roles[r] => (CustomRole(r) => CustomRole(r)')
  BY DEF CustomRole
<1>3. ASSUME \A t \in Dir!Live(tenants)' : t \in Dir!Live(tenants),
             \A r \in RoleIds : ~CustomRole(r) /\ roles[r] # Dir!Unused => roles'[r] = roles[r]
      PROVE  SystemRolesStay'
  BY <1>0, <1>1, <1>3 DEF SystemRolesStay, Dir!SystemRolesStay, CustomRole
<1>4. CASE x.op = "register"
  <2>1. PICK t \in Dir!Free(tenants), u \in Dir!Free(accounts),
             seed \in [Dir!SystemRoles -> Dir!Free(roles)] :
                 /\ \A m, n \in Dir!SystemRoles : seed[m] = seed[n] => m = n
                 /\ Dir!WriteTenant(x, t, u, seed)
    BY <1>0, <1>4 DEF Dir!Write
  <2>2. \A r \in RoleIds : roles[r] # Dir!Unused => roles'[r] = roles[r]
    BY <2>1 DEF Dir!WriteTenant, Dir!Free
  <2>3. \A n \in Dir!SystemRoles : seed[n] \in RoleIds /\ roles'[seed[n]] = Dir!SystemRole(t, n)
    BY <1>0, <2>1 DEF Dir!WriteTenant, Dir!Free, Dir!TypeOK
  <2>4. \A v \in Dir!Live(tenants)' : v = t \/ v \in Dir!Live(tenants)
    BY <1>0, <2>1 DEF Dir!WriteTenant, Dir!Live, Dir!TypeOK
  <2>5. ASSUME NEW v \in Dir!Live(tenants)', NEW n \in Dir!SystemRoles
        PROVE  \E r \in RoleIds : roles'[r] = Dir!SystemRole(v, n)
    <3>1. CASE v = t
      BY <2>3, <3>1
    <3>2. CASE v \in Dir!Live(tenants)
      BY <1>0, <1>1, <2>2, <3>2 DEF SystemRolesStay, Dir!SystemRolesStay
    <3> QED BY <2>4, <3>1, <3>2
  <2>6. SystemRolesStay'
    BY <2>5 DEF SystemRolesStay, Dir!SystemRolesStay
  <2> QED BY <1>2, <2>2, <2>6 DEF CustomRole
<1>5. CASE x.op = "role"
  <2>1. PICK r \in Dir!Free(roles) :
            roles' = [roles EXCEPT ![r] = Dir!NewRole(x.tenant, x.name, FALSE, x.perms)]
    BY <1>0, <1>5 DEF Dir!Write
  <2>2. \A q \in RoleIds : roles[q] # Dir!Unused => roles'[q] = roles[q]
    BY <1>0, <2>1 DEF Dir!Free, Dir!TypeOK
  <2>3. tenants' = tenants
    BY <1>0, <1>5 DEF Dir!Write
  <2> QED BY <1>2, <1>3, <2>2, <2>3 DEF CustomRole, Dir!Live
<1>6. CASE x.op \in {"perms", "drop"}
  <2>0. PICK q : q = x.role
    OBVIOUS
  <2>1. q \in RoleIds /\ CustomRole(q) /\ roles[q] \in Dir!Role
    BY <1>0, <1>6, <2>0 DEF DirRequestInv, Dir!Write, Dir!Live, Dir!TypeOK
  <2>2. tenants' = tenants /\ \A r \in RoleIds : r # q => roles'[r] = roles[r]
    BY <1>0, <1>6, <2>0 DEF Dir!Write, Dir!TypeOK
  <2>3. CustomRole(q)'
    <3>1. CASE x.op = "drop"
      <4>1. roles'[q] = Dir!Gone
        BY <1>0, <2>0, <2>1, <3>1 DEF Dir!Write, Dir!TypeOK
      <4> QED BY <4>1 DEF CustomRole
    <3>2. CASE x.op = "perms"
      <4>1. roles'[q] = [roles[q] EXCEPT !.perms = x.perms]
        BY <1>0, <2>0, <2>1, <3>2 DEF Dir!Write, Dir!TypeOK
      <4>2. roles'[q].system = roles[q].system /\ "system" \in DOMAIN roles'[q]
        BY <2>1, <4>1 DEF Dir!Role
      <4>3. roles'[q] # Dir!Unused
        BY <4>2 DEF Dir!Unused
      <4> QED BY <2>1, <4>2, <4>3 DEF CustomRole
    <3> QED BY <1>6, <3>1, <3>2
  <2>4. \A r \in RoleIds : CustomRole(r) => CustomRole(r)'
    BY <1>2, <2>2, <2>3
  <2>5. SystemRolesStay'
    BY <1>3, <2>1, <2>2 DEF Dir!Live
  <2> QED BY <2>4, <2>5
<1>7. CASE x.op \in {"user", "deactivate", "assign", "remove", "close"}
  <2>1. roles' = roles
    BY <1>0, <1>7 DEF Dir!Write
  <2>2. \A t \in Dir!Live(tenants)' : t \in Dir!Live(tenants)
    <3>1. CASE x.op # "close"
      BY <1>0, <1>7, <3>1 DEF Dir!Write, Dir!Live
    <3>2. CASE x.op = "close"
      BY <1>0, <3>2 DEF Dir!Write, Dir!Live, Dir!TypeOK, DirRequestInv
    <3> QED BY <3>1, <3>2
  <2> QED BY <1>2, <1>3, <2>1, <2>2
<1>8. x.op \in {"register", "user", "deactivate", "assign", "remove", "role", "perms", "drop", "close"}
  BY <1>0 DEF Dir!Write
<1> QED BY <1>4, <1>5, <1>6, <1>7, <1>8

\* A commit keeps what the statements left.
LEMMA DirCommitInv == ASSUME DirInv, NEW s \in Sessions, Dir!Commit(s) PROVE DirInv'
<1>1. Dir!Write(dirTxn[s]) /\ Dir!Constraints' /\ dirTxn' = [dirTxn EXCEPT ![s] = Dir!Idle]
  BY DEF Dir!Commit
<1>2. /\ Dir!TypeOK' /\ MembershipInv'
      /\ \A t \in TenantIds : tenants[t] # Dir!Unused => tenants'[t] # Dir!Unused
      /\ \A u \in UserIds : accounts[u] # Dir!Unused => accounts'[u] # Dir!Unused
  BY <1>1, DirWrites
<1>3. SystemRolesStay' /\ \A r \in RoleIds : CustomRole(r) => CustomRole(r)'
  BY <1>1, DirRoles
<1>4. dirTxn' = [x \in Sessions |-> dirTxn'[x]]
  BY <1>1 DEF DirInv, DirRequestsInv
<1>5. ASSUME NEW x \in Sessions PROVE DirRequestInv(dirTxn[x])' 
  <2>1. CASE x = s
    BY <1>1, <2>1 DEF DirInv, DirRequestsInv, DirRequestInv, Dir!Idle
  <2>2. CASE x # s
    BY <1>1, <1>2, <1>3, <2>2 DEF DirInv, DirRequestsInv, DirRequestInv
  <2> QED BY <2>1, <2>2
<1> QED BY <1>2, <1>3, <1>4, <1>5 DEF DirInv, DirRequestsInv

\* A rollback drops a request and keeps the tables.
LEMMA DirRollbackInv == ASSUME DirInv, NEW s \in Sessions, Dir!Rollback(s) PROVE DirInv'
<1>1. dirTxn' = [dirTxn EXCEPT ![s] = Dir!Idle] /\ UNCHANGED <<tenants, accounts, roles, userRoles>>
  BY DEF Dir!Rollback, Dir!tables
<1>2. Dir!TypeOK' /\ MembershipInv' /\ SystemRolesStay'
  BY <1>1 DEF DirInv, Dir!TypeOK, MembershipInv, SystemRolesStay, Dir!SystemRolesStay, Dir!Live
<1>3. DirRequestsInv'
  BY <1>1 DEF DirInv, DirRequestsInv, DirRequestInv, CustomRole, Dir!Idle
<1> QED BY <1>2, <1>3 DEF DirInv

\* What an administrator asks for is within the tables: its own tenant is one of them.
LEMMA DirAdminRequestInv ==
    ASSUME DirInv, NEW s \in Sessions, NEW a \in UserIds, Dir!AdminRequest(s, a)
    PROVE  DirInv'
<1> DEFINE Goal == DirInv'
<1>1. Dir!TypeOK /\ MembershipInv
  BY DEF DirInv
<1>2. Dir!TenantAdmin(a) => /\ accounts[a].tenant \in TenantIds
                            /\ tenants[accounts[a].tenant] # Dir!Unused
  BY <1>1 DEF Dir!TenantAdmin, Dir!CurrentUser, Dir!Live, Dir!TypeOK, Dir!User, MembershipInv
<1>3. ASSUME Dir!DeleteTenant(s, a) PROVE Goal
  <2>1. DirRequestInv([op |-> "close", tenant |-> accounts[a].tenant])
    BY <1>2, <1>3 DEF Dir!DeleteTenant, DirRequestInv
  <2> QED BY <1>3, <2>1, DirBeginInv DEF Dir!DeleteTenant
<1>4. ASSUME NEW u \in UserIds, Dir!DeactivateUser(s, a, u) PROVE Goal
  <2>1. DirRequestInv([op |-> "deactivate", user |-> u])
    BY <1>4 DEF Dir!DeactivateUser, Dir!Live, DirRequestInv
  <2> QED BY <1>4, <2>1, DirBeginInv DEF Dir!DeactivateUser
<1>5. ASSUME NEW u \in UserIds, NEW r \in RoleIds, Dir!AssignRole(s, a, u, r) PROVE Goal
  <2>1. DirRequestInv([op |-> "assign", user |-> u, role |-> r])
    BY DEF DirRequestInv
  <2> QED BY <1>5, <2>1, DirBeginInv DEF Dir!AssignRole
<1>6. ASSUME NEW u \in UserIds, NEW r \in RoleIds, Dir!RemoveRole(s, a, u, r) PROVE Goal
  <2>1. DirRequestInv([op |-> "remove", user |-> u, role |-> r])
    BY DEF DirRequestInv
  <2> QED BY <1>6, <2>1, DirBeginInv DEF Dir!RemoveRole
<1>7. ASSUME NEW n \in Dir!RoleNames, NEW p \in Permissions, Dir!CreateRole(s, a, n, p) PROVE Goal
  <2>1. DirRequestInv([op |-> "role", tenant |-> accounts[a].tenant, name |-> n, perms |-> p])
    BY <1>2, <1>7 DEF Dir!CreateRole, DirRequestInv
  <2> QED BY <1>7, <2>1, DirBeginInv DEF Dir!CreateRole
<1>8. ASSUME NEW r \in RoleIds, NEW p \in Permissions, Dir!UpdateRole(s, a, r, p) PROVE Goal
  <2>1. DirRequestInv([op |-> "perms", role |-> r, perms |-> p])
    BY <1>8, PlaceholdersAreNoRows DEF Dir!UpdateRole, Dir!GetRole, Dir!Live, DirRequestInv, CustomRole
  <2> QED BY <1>8, <2>1, DirBeginInv DEF Dir!UpdateRole
<1>9. ASSUME NEW r \in RoleIds, Dir!DeleteRole(s, a, r) PROVE Goal
  <2>1. DirRequestInv([op |-> "drop", role |-> r])
    BY <1>9, PlaceholdersAreNoRows DEF Dir!DeleteRole, Dir!GetRole, Dir!Live, DirRequestInv, CustomRole
  <2> QED BY <1>9, <2>1, DirBeginInv DEF Dir!DeleteRole
<1> HIDE DEF Goal
<1>10. Goal
  BY <1>3, <1>4, <1>5, <1>6, <1>7, <1>8, <1>9 DEF Dir!AdminRequest
<1> QED BY <1>10 DEF Goal

\* So is what anyone else asks for.
LEMMA DirAnyRequestInv ==
    ASSUME DirInv, NEW s \in Sessions, Dir!Request(s)
    PROVE  DirInv'
<1> DEFINE Goal == DirInv'
<1>1. ASSUME NEW g \in Slugs, NEW e \in Emails, Dir!RegisterTenant(s, g, e) PROVE Goal
  <2>1. DirRequestInv([op |-> "register", slug |-> g, email |-> e])
    BY DEF DirRequestInv
  <2> QED BY <1>1, <2>1, DirBeginInv DEF Dir!RegisterTenant
<1>2. ASSUME NEW t \in TenantIds, NEW e \in Emails, NEW ns \in SUBSET Dir!RoleNames,
             Dir!CreateUser(s, t, e, ns)
      PROVE  Goal
  <2> DEFINE x == [op |-> "user", tenant |-> t, email |-> e,
                   grant |-> {r \in Dir!Live(roles) : roles[r].tenant = t /\ roles[r].name \in ns}]
  <2>1. Dir!Begin(s, x) /\ t \in Dir!Live(tenants)
    BY <1>2 DEF Dir!CreateUser
  <2>2. Dir!Live(roles) \subseteq RoleIds /\ tenants[t] # Dir!Unused
    BY <2>1 DEF Dir!Live, DirInv, Dir!TypeOK
  <2>3. DirRequestInv(x)
    BY <2>2 DEF DirRequestInv
  <2> QED BY <2>1, <2>3, DirBeginInv
<1>3. ASSUME NEW a \in UserIds, NEW u \in UserIds, Dir!UpdateUser(s, a, u) PROVE Goal
  <2>1. DirRequestInv([op |-> "patch"])
    BY DEF DirRequestInv
  <2> QED BY <1>3, <2>1, DirBeginInv DEF Dir!UpdateUser
<1>4. ASSUME NEW a \in UserIds, Dir!AdminRequest(s, a) PROVE Goal
  BY <1>4, DirAdminRequestInv
<1> HIDE DEF Goal
<1>5. Goal
  BY <1>1, <1>2, <1>3, <1>4 DEF Dir!Request
<1> QED BY <1>5 DEF Goal

\* Every step of the directory keeps its invariant.
LEMMA DirNextInv == DirInv /\ [Dir!Next]_(Dir!vars) => DirInv'
<1> SUFFICES ASSUME DirInv, [Dir!Next]_(Dir!vars) PROVE DirInv'
  OBVIOUS
<1>1. CASE UNCHANGED Dir!vars
  <2>1. UNCHANGED <<tenants, accounts, roles, userRoles, dirTxn>>
    BY <1>1 DEF Dir!vars
  <2> QED BY <2>1 DEF DirInv, Dir!TypeOK, DirRequestsInv, DirRequestInv, MembershipInv,
                      CustomRole, SystemRolesStay, Dir!SystemRolesStay, Dir!Live
<1>2. CASE Dir!Next
  <2>1. PICK s \in Sessions : Dir!Request(s) \/ Dir!Commit(s) \/ Dir!Rollback(s)
    BY <1>2 DEF Dir!Next
  <2> QED BY <2>1, DirAnyRequestInv, DirCommitInv, DirRollbackInv
<1> QED BY <1>1, <1>2

\* The inductive invariant of tenants, users and roles.
LEMMA DirInvAlways == Dir!Spec => []DirInv
BY DirInitInv, DirNextInv, PTL DEF Dir!Spec

\* create_tenant seeds the system roles in one transaction, and from then on nothing that
\* administrators of any tenant have in flight at the same time takes one away or alters it:
\* an open PATCH or DELETE of a role is of a role that is no system role, and stays so.
THEOREM SystemRolesStayAlways == Dir!Spec => []SystemRolesStay
<1>1. DirInv => SystemRolesStay
  BY DEF DirInv
<1> QED BY <1>1, DirInvAlways, PTL

\* The columns of both halves of the auth service keep their types.
THEOREM AuthTypeOKAlways == Spec /\ Dir!Spec => []AuthTypeOK
<1>1. AuthInv /\ DirInv => AuthTypeOK
  BY DEF AuthInv, DirInv, AuthTypeOK
<1> QED BY <1>1, AuthInvAlways, DirInvAlways, PTL

=============================================================================
