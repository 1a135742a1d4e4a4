------------------------------- MODULE MCAuth -------------------------------
(* The two halves of the auth service on small instances.  They meet in the  *)
(* column is_active only, which AuthSessions lets change at any time, so     *)
(* they are explored side by side and not in each other's states: `part`     *)
(* says which half a behaviour is about, and for tokens whether requests     *)
(* overlap.                                                                  *)
EXTENDS AuthSessions, TLC

CONSTANTS TenantIds, UserIds, RoleIds, Slugs, Emails, Permissions, OtherRoles, CustomRoles

ASSUME PermissionsAssumption == Permissions # {}

VARIABLES part, tenants, accounts, roles, userRoles, dirTxn

Dir == INSTANCE Directory WITH users <- accounts, txn <- dirTxn

dirVars == <<tenants, accounts, roles, userRoles, dirTxn>>
mcVars == <<vars, dirVars, part>>

MCSymmetry == Permutations(Sessions)

MCInit == Init /\ Dir!Init /\ part \in {"serial", "overlap", "directory"}

\* Keys are numbers that stand for random ones, so a new one may as well be the next.
NextToken ==
    \A s \in Sessions : (txn[s] = Idle \/ txn[s].issue = None) /\ txn'[s] # Idle =>
        \A k \in TokenIds : (txn'[s].issue # None /\ k < txn'[s].issue) => ~Fresh(k)
InOrder(table) == \A k \in DOMAIN table : k - 1 \in DOMAIN table /\ table[k] # Unused => table[k - 1] # Unused

\* Bounds.  When requests overlap: three tokens, no second factor, no new password.
Fits ==
    IF part = "serial" THEN Cardinality({s \in Sessions : txn[s] # Idle}) <= 1
    ELSE /\ Cardinality({k \in TokenIds : ~Fresh(k)}) <= 3
         /\ \A s \in Sessions : txn[s] # Idle =>
                txn[s].pw \in {None, users[txn[s].user].pw} /\ txn[s].op # "mfa_enable"

MCNext ==
    /\ UNCHANGED part
    /\ \/ part # "directory" /\ Next /\ NextToken /\ Fits' /\ UNCHANGED dirVars
       \/ part = "directory" /\ Dir!Next /\ UNCHANGED vars
          /\ InOrder(tenants') /\ InOrder(accounts') /\ InOrder(roles')

MCSpec == MCInit /\ [][MCNext]_mcVars

-----------------------------------------------------------------------------
(* Properties of tokens *)

\* The columns of users, tokens and reset tokens, and of the tables of the directory.
AuthTypeOK == TypeOK /\ Dir!TypeOK

\* reset_password accepts a reset token once, or, when requests overlap, once for each of them.
ResetUsesAreBounded == UsesAreBounded(IF part = "serial" THEN 1 ELSE Cardinality(Sessions))

\* One after the other, refresh leaves a login with one valid token at most.
SerialOneLiveTokenPerFamily == part = "serial" => OneLiveTokenPerFamily

\* One after the other, replay, logout and new passwords end a family for good.
SerialDeadFamiliesStayDead == [][part = "serial" => DeadFamilyStaysDead]_mcVars

-----------------------------------------------------------------------------
(* Properties of Directory *)

\* No interleaving of registrations and of administrators' changes to roles takes a system role
\* from a tenant, or alters it.
SystemRolesStay == Dir!SystemRolesStay

=============================================================================
