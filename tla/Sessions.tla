-------------------------------- MODULE Sessions --------------------------------
(***************************************************************************)
(* Refresh tokens (shared/auth/refresh_store.py) and the requests of       *)
(* modules/auth that issue, rotate and revoke them, over the members of    *)
(* Memberships.  Redis runs one command, or one MULTI, at a time; what a   *)
(* handler does takes several, and no database transaction covers them.    *)
(* A family is named after its first token.  Passwords, lockout and the    *)
(* super administrators' sessions are left out.                            *)
(***************************************************************************)
EXTENDS Memberships

CONSTANT Sizes   \* bound: how many invitations, tokens and families there may be

ASSUME SessionConstants == Sizes \subseteq Nat \X Nat \X Nat

VARIABLES tokens,        \* auth:refresh:token:<hash>, in order of issue
          familyKey,     \* auth:refresh:family:<family>, in the place of its first token
          userFamilies,  \* auth:refresh:user_families:<user>
          forked,        \* history: families with a token rotated twice
          unlisted       \* history: families a revocation may not find

store == <<tokens, familyKey, userFamilies>>
sessionVars == <<store, forked, unlisted>>
vars == <<orgVars, req, sessionVars>>

Families == {t \in DOMAIN tokens : tokens[t].family = t}

Token == [user: Users, family: Nat, state: {"unused", "used", "gone"}]

Live(f) == {t \in DOMAIN tokens : tokens[t].family = f /\ tokens[t].state = "unused"}

FamiliesOf(u) == {tokens[t].family : t \in {s \in DOMAIN tokens : tokens[s].user = u}}

\* get_active_memberships holds this organization.
HasAccess(u) == Active(u) /\ org = "active"

\* The requests about the sessions of u.
About(u) == {r \in Requests : "session" \in DOMAIN req[r] /\ req[r].session = u}

Phase(u, at, t) == [session |-> u, at |-> at, token |-> t]

\* revoke_family for each of fs; the list of families too when all.
Sweep(u, at, fs, all, alone) ==
    [session |-> u, at |-> at, todo |-> fs, family |-> 0, found |-> {}, all |-> all, alone |-> alone]

\* A request about the sessions of u begins: those in progress that revoke
\* them are not alone any more.
Enters(r, u, phase) ==
    req' = [q \in Requests |->
              CASE q = r -> phase
                [] q \in About(u) \ {r} /\ "alone" \in DOMAIN req[q] -> [req[q] EXCEPT !.alone = FALSE]
                [] OTHER -> req[q]]

RevokesAll(r, u) == Enters(r, u, Sweep(u, "list", {}, TRUE, About(u) \ {r} = {}))

RevokesFamily(r, t) ==
    Enters(r, tokens[t].user, Sweep(tokens[t].user, "members", {tokens[t].family}, FALSE, FALSE))

GoesTo(r, phase) == req' = [req EXCEPT ![r] = phase]

\* The next of the families fs, or the end.
Onward(r, fs) ==
    CASE fs # {} -> GoesTo(r, [req[r] EXCEPT !.at = "members", !.todo = fs, !.family = 0])
      [] fs = {} /\ req[r].all -> GoesTo(r, [req[r] EXCEPT !.at = "forget", !.todo = {}, !.family = 0])
      [] OTHER -> Ends(r)

Init ==
    /\ InitOrg
    /\ tokens = <<>>
    /\ familyKey = <<>>
    /\ userFamilies = [u \in Users |-> {}]
    /\ forked = {}
    /\ unlisted = {}

Fits(i, t, f) == <<Len(invites) + i, Len(tokens) + t, Cardinality(Families) + f>> \in Sizes

\* _issue_token: the token and its place in the family, in one MULTI.
Issued(u, f) ==
    LET t == Len(tokens) + 1 IN
    /\ Fits(0, 1, IF f = t THEN 1 ELSE 0)
    /\ tokens' = Append(tokens, [user |-> u, family |-> f, state |-> "unused"])
    /\ familyKey' = [g \in 1..t |-> (IF g = t THEN {} ELSE familyKey[g]) \cup (IF g = f THEN {t} ELSE {})]

-----------------------------------------------------------------------------
(* issue_family, by login and by the acceptance of an invitation.          *)

Login(r, u) ==
    /\ req[r] = Idle
    /\ HasAccess(u)
    /\ Enters(r, u, Phase(u, "issue", 0))
    /\ UNCHANGED <<orgVars, sessionVars>>

Accepted(r) ==
    /\ Accept(r)
    /\ LET u == invites[req[r].id].to IN Enters(r, u, Phase(u, "issue", 0))
    /\ UNCHANGED sessionVars

IssueFamily(r) ==
    /\ req[r].at = "issue"
    /\ LET f == Len(tokens) + 1 IN
         /\ Issued(req[r].session, f)
         /\ GoesTo(r, Phase(req[r].session, "index", f))
    /\ UNCHANGED <<orgVars, userFamilies, forked, unlisted>>

\* MUTANT: the family is not added to the user's.
ForgetToIndex(r) ==
    /\ req[r].at = "index"
    /\ Ends(r)
    /\ UNCHANGED <<orgVars, sessionVars>>

Index(r) ==
    /\ req[r].at = "index"
    /\ userFamilies' = [userFamilies EXCEPT ![req[r].session] = @ \cup {req[r].token}]
    /\ Ends(r)
    /\ UNCHANGED <<orgVars, tokens, familyKey, forked, unlisted>>

-----------------------------------------------------------------------------
(* refresh.                                                                *)

Rotating(t) == {r \in Requests : req[r].at = "mark" /\ req[r].token = t}

\* MUTANT: a token already used is taken as any other.
TakeAnyToken(r, t) ==
    /\ req[r] = Idle
    /\ tokens[t].state # "gone"
    /\ Enters(r, tokens[t].user, Phase(tokens[t].user, "mark", t))
    /\ forked' = IF Rotating(t) = {} THEN forked ELSE forked \cup {tokens[t].family}
    /\ UNCHANGED <<orgVars, store, unlisted>>

\* rotate reads the record: one that is not there is refused.
TakeToken(r, t) ==
    /\ req[r] = Idle
    /\ tokens[t].state = "unused"
    /\ Enters(r, tokens[t].user, Phase(tokens[t].user, "mark", t))
    /\ forked' = IF Rotating(t) = {} THEN forked ELSE forked \cup {tokens[t].family}
    /\ UNCHANGED <<orgVars, store, unlisted>>

\* One used before: the family is revoked.
Replay(r, t) ==
    /\ req[r] = Idle
    /\ tokens[t].state = "used"
    /\ RevokesFamily(r, t)
    /\ UNCHANGED <<orgVars, sessionVars>>

\* MUTANT: the record is written back as it was read.
WriteBack(r) ==
    /\ req[r].at = "mark"
    /\ tokens' = [tokens EXCEPT ![req[r].token].state = "unused"]
    /\ GoesTo(r, [req[r] EXCEPT !.at = "rotate"])
    /\ UNCHANGED <<orgVars, familyKey, userFamilies, forked, unlisted>>

\* The record is written, there or not.
Mark(r) ==
    /\ req[r].at = "mark"
    /\ tokens' = [tokens EXCEPT ![req[r].token].state = "used"]
    /\ GoesTo(r, [req[r] EXCEPT !.at = "rotate"])
    /\ UNCHANGED <<orgVars, familyKey, userFamilies, forked, unlisted>>

Rotate(r) ==
    /\ req[r].at = "rotate"
    /\ Issued(req[r].session, tokens[req[r].token].family)
    /\ GoesTo(r, [req[r] EXCEPT !.at = "check"])
    /\ UNCHANGED <<orgVars, userFamilies, forked, unlisted>>

\* The membership is looked at after the rotation.
Check(r) ==
    /\ req[r].at = "check"
    /\ IF HasAccess(req[r].session) THEN Ends(r) ELSE RevokesFamily(r, req[r].token)
    /\ UNCHANGED <<orgVars, sessionVars>>

-----------------------------------------------------------------------------
(* Revocation: of one family, by logout or as above; of all, by a          *)
(* deactivation or a reset password once committed.                        *)

Logout(r, t) ==
    /\ req[r] = Idle
    /\ tokens[t].state # "gone"
    /\ RevokesFamily(r, t)
    /\ UNCHANGED <<orgVars, sessionVars>>

ResetPassword(r, u) ==
    /\ req[r] = Idle
    /\ member[u] # None
    /\ RevokesAll(r, u)
    /\ UNCHANGED <<orgVars, sessionVars>>

Deactivated(r) ==
    /\ Deactivate(r)
    /\ RevokesAll(r, req[r].user)
    /\ UNCHANGED sessionVars

ListFamilies(r) ==
    /\ req[r].at = "list"
    /\ Onward(r, userFamilies[req[r].session])
    /\ UNCHANGED <<orgVars, sessionVars>>

ReadMembers(r) ==
    /\ req[r].at = "members"
    /\ \E f \in req[r].todo :
         GoesTo(r, [req[r] EXCEPT !.at = "delete", !.family = f, !.found = familyKey[f]])
    /\ UNCHANGED <<orgVars, sessionVars>>

DeleteTokens(r) ==
    /\ req[r].at = "delete"
    /\ tokens' = [t \in DOMAIN tokens |->
                    IF t \in req[r].found THEN [tokens[t] EXCEPT !.state = "gone"] ELSE tokens[t]]
    /\ GoesTo(r, [req[r] EXCEPT !.at = "unlist", !.found = {}])
    /\ UNCHANGED <<orgVars, familyKey, userFamilies, forked, unlisted>>

DeleteFamily(r) ==
    /\ req[r].at = "unlist"
    /\ LET f == req[r].family IN
         /\ familyKey' = [familyKey EXCEPT ![f] = {}]
         /\ unlisted' = IF Live(f) = {} THEN unlisted ELSE unlisted \cup {f}
         /\ Onward(r, req[r].todo \ {f})
    /\ UNCHANGED <<orgVars, tokens, userFamilies, forked>>

ForgetFamilies(r) ==
    /\ req[r].at = "forget"
    /\ LET u == req[r].session IN
         /\ userFamilies' = [userFamilies EXCEPT ![u] = {}]
         /\ unlisted' = IF req[r].alone THEN unlisted ELSE unlisted \cup FamiliesOf(u)
    /\ Ends(r)
    /\ UNCHANGED <<orgVars, tokens, familyKey, forked>>

-----------------------------------------------------------------------------
(* Time and failure.                                                       *)

\* Tokens are issued with one TTL, and marking one keeps what is left of it.
TokenExpires(t) ==
    /\ tokens[t].state # "gone"
    /\ \A s \in 1..(t - 1) : tokens[s].state # "unused"
    /\ tokens' = [tokens EXCEPT ![t].state = "gone"]
    /\ UNCHANGED <<orgVars, req, familyKey, userFamilies, forked, unlisted>>

\* The list of families has the TTL of the last login: rotation extends the
\* tokens and the family, never the list.
ListExpires(u) ==
    /\ userFamilies[u] # {}
    /\ \A f \in userFamilies[u] : tokens[f].state = "gone"
    /\ userFamilies' = [userFamilies EXCEPT ![u] = {}]
    /\ unlisted' = unlisted \cup userFamilies[u]
    /\ UNCHANGED <<orgVars, req, tokens, familyKey, forked>>

\* Any request may fail, be refused or die where it is.
Leave(r) ==
    /\ req[r] # Idle
    /\ Ends(r)
    /\ unlisted' = IF req[r].at = "index" THEN unlisted \cup {req[r].token} ELSE unlisted
    /\ UNCHANGED <<orgVars, store, forked>>

-----------------------------------------------------------------------------
Invitations ==
    \/ \E r \in Requests, u \in Users : InviteOwner(r, u) /\ UNCHANGED sessionVars
    \/ \E r \in Requests, u \in Users : InviteUser(r, u) /\ UNCHANGED sessionVars
    \/ \E r \in Requests : AddInvite(r) /\ Fits(1, 0, 0) /\ UNCHANGED sessionVars
    \/ \E i \in DOMAIN invites : ResendOwner(i) /\ Fits(1, 0, 0) /\ UNCHANGED sessionVars
    \/ \E r \in Requests, i \in DOMAIN invites : BeginResend(r, i) /\ UNCHANGED sessionVars
    \/ \E r \in Requests : Resend(r) /\ Fits(1, 0, 0) /\ UNCHANGED sessionVars
    \/ \E r \in Requests, i \in DOMAIN invites : BeginRevoke(r, i) /\ UNCHANGED sessionVars
    \/ \E r \in Requests : Revoke(r) /\ UNCHANGED sessionVars
    \/ \E r \in Requests, i \in DOMAIN invites : BeginAccept(r, i) /\ UNCHANGED sessionVars
    \/ \E r \in Requests : Accepted(r)

Members ==
    \/ Disable /\ UNCHANGED sessionVars
    \/ Enable /\ UNCHANGED sessionVars
    \/ \E r \in Requests, u \in Users : BeginChange(r, u) /\ UNCHANGED sessionVars
    \/ \E r \in Requests : ChangeRole(r) /\ UNCHANGED sessionVars
    \/ \E r \in Requests, u \in Users : BeginDeactivate(r, u) /\ UNCHANGED sessionVars
    \/ \E r \in Requests : Deactivated(r)

Tokens ==
    \/ \E r \in Requests, u \in Users : Login(r, u) \/ ResetPassword(r, u)
    \/ \E r \in Requests, t \in DOMAIN tokens : TakeToken(r, t) \/ Replay(r, t) \/ Logout(r, t)
    \/ \E r \in Requests : IssueFamily(r) \/ Index(r) \/ Mark(r) \/ Rotate(r) \/ Check(r)
    \/ \E r \in Requests : ListFamilies(r) \/ ReadMembers(r) \/ DeleteTokens(r)
    \/ \E r \in Requests : DeleteFamily(r) \/ ForgetFamilies(r)
    \/ \E t \in DOMAIN tokens : TokenExpires(t)
    \/ \E u \in Users : ListExpires(u)

Next == Invitations \/ Members \/ Tokens \/ \E r \in Requests : Leave(r)

Spec == Init /\ [][Next]_vars

-----------------------------------------------------------------------------
(* Properties.                                                             *)

Ids == DOMAIN tokens

Phases ==
    [session: Users, at: {"issue", "index", "mark", "rotate", "check"}, token: {0} \cup Ids]

Sweeps ==
    [session: Users, at: {"list", "members", "delete", "unlist", "forget"}, todo: SUBSET Ids,
     family: {0} \cup Ids, found: SUBSET Ids, all: BOOLEAN, alone: BOOLEAN]

\* Every variable has its type; a request holds what its phase needs.
TypeOK ==
    /\ org \in {"pending_owner", "active", "disabled"}
    /\ member \in [Users -> Member \cup {None}]
    /\ invites \in Seq(Invite)
    /\ req \in [Requests -> OrgRequests \cup Phases \cup Sweeps]
    /\ tokens \in Seq(Token)
    /\ familyKey \in [Ids -> SUBSET Ids]
    /\ userFamilies \in [Users -> SUBSET Ids]
    /\ forked \subseteq Ids
    /\ unlisted \subseteq Ids

\* RN-A03: an organization that has an active owner is never left without
\* one, although the role is read before the owners are counted and two
\* requests may be taking the role from two owners at once.
OwnerRemains == [][Owners # {} => Owners' # {}]_vars

\* Whatever invitations were open and whoever accepted them at once, a
\* person joins once, and by an invitation accepted as such.
JoinsOnce ==
    \A u \in Users :
        LET used == {i \in DOMAIN invites : invites[i].to = u /\ invites[i].status = "accepted"} IN
        Cardinality(used) <= 1 /\ (member[u] = None => used = {})

\* A refresh token once used, revoked or expired is never good again,
\* although marking it writes a record that may have been deleted.
NoTokenRevives ==
    [][\A t \in DOMAIN tokens : tokens[t].state # "unused" => tokens'[t].state # "unused"]_vars

\* A family has one good token, unless two refreshes of one overlapped:
\* what detecting the use of an old one rests on.
OneGoodToken == \A f \in DOMAIN tokens \ forked : Cardinality(Live(f)) <= 1

\* When a deactivation or a reset has revoked all the user's families and no
\* other request about them overlapped it, no token is left, but for those
\* of a family dropped from the lists by a death, an expiry or an overlap.
RevocationReachesAll ==
    \A r \in Requests :
        req[r].at = "forget" /\ req[r].alone
            => \A f \in FamiliesOf(req[r].session) \ unlisted : Live(f) = {}

\* An active organization has had an owner: refuted by disabling one that is
\* waiting for its owner and enabling it.
ActiveHasMember == org = "active" => \E u \in Users : member[u] # None

\* One pending invitation per email: refuted by two invitations at once.
OnePendingEach == \A i, j \in Pending : invites[i].to = invites[j].to => i = j

\* A disabled organization stays so until it is enabled: refuted by the
\* acceptance of an invitation.
DisabledUntilEnabled == [][org = "disabled" /\ org' # org => req' = req]_vars

\* A reset of the password ends every session: refuted with no overlap by
\* one kept alive for longer than the list of families lives.
RevocationComplete ==
    \A r \in Requests : req[r].at = "forget" => \A f \in FamiliesOf(req[r].session) : Live(f) = {}

=============================================================================
