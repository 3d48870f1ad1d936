------------------------------ MODULE Memberships ------------------------------
(***************************************************************************)
(* One organization: its status (modules/superadmin), its members and      *)
(* their roles, and the invitations by which they come                     *)
(* (modules/administracion, and accept_invitation in modules/auth).  A     *)
(* handler reads, decides and writes in one transaction; reads lock        *)
(* nothing, but for the rows of the owners and of the owner's pending      *)
(* invitation.  Sessions adds what its commits do to refresh tokens.       *)
(***************************************************************************)
EXTENDS Naturals, Sequences, FiniteSets

CONSTANTS Users,     \* people, by email
          Requests,  \* places for requests in progress
          None       \* no membership

VARIABLES org,      \* organizations.status
          member,   \* organization_members: UNIQUE (organization_id, user_id)
          invites,  \* organization_invitations, in order of creation
          req       \* what each request has read and is about to write

orgVars == <<org, member, invites>>

\* maintenance is to these handlers as admin is; no request of the
\* organization's own makes an owner.
Roles == {"owner", "admin"}

Member == [role: Roles, status: {"active", "inactive"}]

ASSUME MembershipConstants == IsFiniteSet(Users) /\ None \notin Member

Invite == [to: Users, role: Roles, status: {"pending", "accepted", "revoked"}]

Idle == [at |-> "idle"]

OrgRequests ==
    {Idle} \cup [at: {"invite"}, invite: Invite]
           \cup [at: {"resend", "revoke", "accept"}, id: Nat]
           \cup [at: {"role", "deactivate"}, user: Users, was: Roles]

Pending == {i \in DOMAIN invites : invites[i].status = "pending"}

Active(u) == member[u] # None /\ member[u].status = "active"

Owners == {u \in Users : Active(u) /\ member[u].role = "owner"}

\* The permission is in the access token, which nothing revokes: who was
\* an owner may still be acting as one, and the first member was.
OwnerToken == \E u \in Users : member[u] # None

InitOrg ==   \* OrganizationService.create
    /\ org = "pending_owner"
    /\ member = [u \in Users |-> None]
    /\ invites = <<>>
    /\ req = [r \in Requests |-> Idle]

Reads(r, read) ==
    /\ req[r] = Idle
    /\ req' = [req EXCEPT ![r] = read]

Ends(r) == req' = [req EXCEPT ![r] = Idle]

-----------------------------------------------------------------------------
(* Status of the organization.  The update does not look at the status     *)
(* read before, which comes to the same: it either finds one that would    *)
(* have passed the check, or changes nothing.                              *)

Disable ==
    /\ org # "disabled"
    /\ org' = "disabled"
    /\ UNCHANGED <<member, invites, req>>

Enable ==
    /\ org = "disabled"
    /\ org' = "active"
    /\ UNCHANGED <<member, invites, req>>

-----------------------------------------------------------------------------
(* Invitations.  An expired one is one that nobody accepts any more.       *)

InviteOwner(r, u) ==
    /\ org = "pending_owner"
    /\ ~ \E i \in Pending : invites[i].role = "owner"
    /\ Reads(r, [at |-> "invite", invite |-> [to |-> u, role |-> "owner", status |-> "pending"]])
    /\ UNCHANGED orgVars

InviteUser(r, u) ==
    /\ OwnerToken
    /\ member[u] = None
    /\ ~ \E i \in Pending : invites[i].to = u
    /\ Reads(r, [at |-> "invite", invite |-> [to |-> u, role |-> "admin", status |-> "pending"]])
    /\ UNCHANGED orgVars

AddInvite(r) ==
    /\ req[r].at = "invite"
    /\ invites' = Append(invites, req[r].invite)
    /\ Ends(r)
    /\ UNCHANGED <<org, member>>

Reissued(i) == Append([invites EXCEPT ![i].status = "revoked"], [invites[i] EXCEPT !.status = "pending"])

\* The owner's pending invitation is locked from its read to the commit.
ResendOwner(i) ==
    /\ i \in Pending
    /\ invites[i].role = "owner"
    /\ invites' = Reissued(i)
    /\ UNCHANGED <<org, member, req>>

\* The members' ones are not: what was pending may be so no longer.
BeginOnInvite(r, i, act) ==
    /\ OwnerToken
    /\ i \in Pending
    /\ Reads(r, [at |-> act, id |-> i])
    /\ UNCHANGED orgVars

BeginResend(r, i) == BeginOnInvite(r, i, "resend")

BeginRevoke(r, i) == BeginOnInvite(r, i, "revoke")

Resend(r) ==
    /\ req[r].at = "resend"
    /\ invites' = Reissued(req[r].id)
    /\ Ends(r)
    /\ UNCHANGED <<org, member>>

Revoke(r) ==
    /\ req[r].at = "revoke"
    /\ invites' = [invites EXCEPT ![req[r].id].status = "revoked"]
    /\ Ends(r)
    /\ UNCHANGED <<org, member>>

BeginAccept(r, i) ==
    /\ i \in Pending
    /\ member[invites[i].to] = None
    /\ Reads(r, [at |-> "accept", id |-> i])
    /\ UNCHANGED orgVars

\* MUTANT: the membership is written over the one that is there.
AcceptAnyway(r) ==
    /\ req[r].at = "accept"
    /\ LET i == req[r].id IN
         /\ member' = [member EXCEPT ![invites[i].to] = [role |-> invites[i].role, status |-> "active"]]
         /\ invites' = [invites EXCEPT ![i].status = "accepted"]
    /\ org' = "active"

\* The membership is inserted (a second one is refused by its key), the
\* invitation accepted and the organization activated, whatever each was;
\* the request goes on to open a session.
Accept(r) ==
    /\ req[r].at = "accept"
    /\ LET i == req[r].id IN
         /\ member[invites[i].to] = None
         /\ member' = [member EXCEPT ![invites[i].to] = [role |-> invites[i].role, status |-> "active"]]
         /\ invites' = [invites EXCEPT ![i].status = "accepted"]
    /\ org' = "active"

-----------------------------------------------------------------------------
(* Members.                                                                *)

BeginOnMember(r, u, act) ==
    /\ OwnerToken
    /\ member[u] # None
    /\ Reads(r, [at |-> act, user |-> u, was |-> member[u].role])
    /\ UNCHANGED orgVars

BeginChange(r, u) == BeginOnMember(r, u, "role")

BeginDeactivate(r, u) == BeginOnMember(r, u, "deactivate")

\* MUTANT: off by one.
EnoughOwners == Cardinality(Owners) >= 1

\* count_active_owners_locked: the owners' rows are locked until the
\* commit, and read again once another transaction has let them go.
AnotherOwner == Cardinality(Owners) > 1

ChangeRole(r) ==
    /\ req[r].at = "role"
    /\ req[r].was = "owner" => AnotherOwner
    /\ member' = [member EXCEPT ![req[r].user].role = "admin"]
    /\ Ends(r)
    /\ UNCHANGED <<org, invites>>

\* The request goes on to revoke the member's sessions.
Deactivate(r) ==
    /\ req[r].at = "deactivate"
    /\ req[r].was = "owner" => AnotherOwner
    /\ member' = [member EXCEPT ![req[r].user].status = "inactive"]
    /\ UNCHANGED <<org, invites>>

=============================================================================
