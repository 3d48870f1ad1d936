----------------------------- MODULE MCOrganization -----------------------------
(***************************************************************************)
(* Instances of Sessions, Credentials, Permissions, Registry and           *)
(* WorkOrdersTx for TLC: what an organization is, beside its contracts and *)
(* its money.  In the code they share no key and write no table of one     *)
(* another, so that a behaviour of them all is one behaviour of each: one  *)
(* runs at a time, and they share model values, which keeps the group of   *)
(* symmetries small.                                                       *)
(***************************************************************************)
EXTENDS Sessions, Credentials, Permissions, Registry, WorkOrdersTx, TLC

CONSTANTS u1, u2, r1, r2, l1, l2, rt1, n1, n2, p1, a1, c1, o1, north, south

VARIABLE part   \* the component that runs

\* Sessions: three invitations and no session; two people with one session;
\* one with two, or with one of three tokens.
MCSizes ==
    {s \in (0..3) \X (0..3) \X (0..2) :
        \/ s[2] = 0
        \/ s[1] <= 2 /\ s[2] <= 1
        \/ s[1] <= 1 /\ (s[2] <= 2 \/ s[3] <= 1)}

\* Registry: a property that may change landlord; neighborhoods renamed and
\* deleted around one property; what hangs from a property; a charge, whose
\* second period is in the future.
MCScopes ==
    {{l1, l2, n1, p1}, {l1, n1, n2, p1}, {l1, n1, p1, rt1, a1}, {l1, n1, p1, c1, <<c1, 1>>, <<c1, 2>>}, {}}

\* WorkOrdersTx: two quotes of one order.
MCQuoteOrder == [q \in Quotes |-> o1]

MCSymmetry ==
    Permutations({u1, u2}) \cup Permutations({r1, r2}) \cup Permutations({north, south})

OrganizationInit ==
    /\ part \in {"sessions", "credentials", "permissions", "registry", "orders"}
    /\ Init /\ CredentialsInit /\ PermissionsInit /\ RegistryInit /\ OrderTxInit
    /\ (part = "registry") <=> (scope # {})
    /\ overlaps => part = "registry"
    /\ serial \/ part = "orders"

OrganizationNext ==
    /\ UNCHANGED part
    /\ \/ /\ part = "sessions" /\ Next
          /\ UNCHANGED <<credentialVars, permissionVars, registryVars, orderTxVars>>
       \/ /\ part = "credentials" /\ CredentialsNext
          /\ UNCHANGED <<vars, permissionVars, registryVars, orderTxVars>>
       \/ /\ part = "permissions" /\ PermissionsNext
          /\ UNCHANGED <<vars, credentialVars, registryVars, orderTxVars>>
       \/ /\ part = "registry" /\ RegistryNext
          /\ UNCHANGED <<vars, credentialVars, permissionVars, orderTxVars>>
       \/ /\ part = "orders" /\ OrderTxNext
          /\ UNCHANGED <<vars, credentialVars, permissionVars, registryVars>>

OrganizationSpec ==
    OrganizationInit
    /\ [][OrganizationNext]_<<part, vars, credentialVars, permissionVars, registryVars,
                              orderTxVars>>

=============================================================================
