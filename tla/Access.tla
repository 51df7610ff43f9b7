------------------------------- MODULE Access --------------------------------
(***************************************************************************)
(* Who may come in: people with a token, edge nodes with a secret, and the *)
(* API itself with its database role.  The three are kept by tools of      *)
(* their own, side by side in one database.                                *)
(***************************************************************************)
EXTENDS IdentityAccess, EdgeCredentials, RuntimeRole

accessVars == <<identityVars, credentialVars, roleVars>>

AccessInit == IdentityInit /\ CredentialInit /\ RoleInit

AccessNext ==
    \/ IdentityStep /\ UNCHANGED <<credentialVars, roleVars>>
    \/ CredentialStep /\ UNCHANGED <<identityVars, roleVars>>
    \/ RoleStep /\ UNCHANGED <<identityVars, credentialVars>>

AccessSpec == AccessInit /\ [][AccessNext]_accessVars

-----------------------------------------------------------------------------
\* People sign in by the book, nodes are recognised, and the role is no more than it should be.
AccessInv == IdentityInv /\ CredentialInv /\ RuntimeRoleInv
=============================================================================
