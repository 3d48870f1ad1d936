---------------------------- MODULE Sessions_proofs ----------------------------
(***************************************************************************)
(* For any number of people, requests, invitations, tokens and families:   *)
(* the last owner remains, a person joins once, a refresh token never      *)
(* revives, a family whose tokens are rotated one at a time has one good   *)
(* token, and a revocation of everything that nothing overlapped leaves    *)
(* none.  The induction, SessionsInv, says what each request holds between *)
(* its reads and its writes, and what the keys of Redis owe to each other. *)
(***************************************************************************)
EXTENDS Sessions, FiniteSetTheorems, SequenceTheorems, TLAPS

\* What a request about the organization read is still so: an invitation is
\* never removed, nor a member, and nobody becomes an owner again.
ReadOK(q) ==
    /\ q.at = "invite" => q.invite.status = "pending"
    /\ q.at \in {"resend", "revoke", "accept"} => q.id \in DOMAIN invites
    /\ q.at \in {"role", "deactivate"} =>
         /\ member[q.user] # None
         /\ member[q.user].role = "owner" => q.was = "owner"

\* A family is that of its first token, and of one user.
FamiliesKnown ==
    /\ \A t \in Ids : LET f == tokens[t].family IN
          f \in 1..t /\ tokens[f].family = f /\ tokens[f].user = tokens[t].user
    /\ \A u \in Users : userFamilies[u] \subseteq FamiliesOf(u)

\* A request holds a token of the user it is about; one that revokes, families.
PhaseOK(q) ==
    /\ q.at \in {"index", "mark", "rotate", "check"} =>
         /\ q.token \in Ids /\ tokens[q.token].user = q.session
         /\ q.at = "index" => tokens[q.token].family = q.token
    /\ "alone" \in DOMAIN q =>
         /\ q.todo \subseteq FamiliesOf(q.session)
         /\ q.at \in {"delete", "unlist"} => q.family \in q.todo
         /\ q.at = "members" => q.todo # {}
         /\ q.at = "forget" => q.todo = {}

RequestsKnown == \A r \in Requests : ReadOK(req[r]) /\ PhaseOK(req[r])

\* The requests that rotate a token of a family.
Rotates(q, f) == q.at \in {"mark", "rotate"} /\ tokens[q.token].family = f
Rotators(f) == {r \in Requests : Rotates(req[r], f)}

\* At most one, and the token it takes is the good one until it is marked.
RotatesAlone ==
    \A f \in Ids \ forked :
        /\ \A s, t \in Live(f) : s = t
        /\ \A q, r \in Rotators(f) : q = r
        /\ \A r \in Rotators(f) : \A t \in Live(f) : req[r].at = "mark" /\ t = req[r].token

\* A family that has a good token, or is about to have one, is among those of
\* its user or about to be, and its good tokens are in its key.
ListedOK(f) ==
    \/ f \in userFamilies[tokens[f].user]
    \/ \E r \in Requests : req[r].at = "index" /\ req[r].token = f

FamiliesListed ==
    \A f \in Ids \ unlisted :
        /\ Live(f) \subseteq familyKey[f]
        /\ tokens[f].family = f /\ (Live(f) # {} \/ Rotators(f) # {}) => ListedOK(f)

\* A revocation that is alone has in its list all that it has still to do.
RevokingAlone(q) == "alone" \in DOMAIN q /\ q.alone

SweepOK(r, q) ==
    RevokingAlone(q) =>
        /\ About(q.session) \subseteq {r} /\ q.all
        /\ q.at # "list" => \A f \in FamiliesOf(q.session) \ unlisted : Live(f) # {} => f \in q.todo
        /\ q.at = "delete" /\ q.family \notin unlisted => Live(q.family) \subseteq q.found
        /\ q.at = "unlist" /\ q.family \notin unlisted => Live(q.family) = {}

SweepsAll == \A r \in Requests : SweepOK(r, req[r])

\* The invitations by which someone joined: one, and none for who is no member.
UsedBy(u) == {i \in DOMAIN invites : invites[i].to = u /\ invites[i].status = "accepted"}

JoinedOnce ==
    \A u \in Users :
        /\ \A i, j \in UsedBy(u) : i = j
        /\ member[u] = None => UsedBy(u) = {}

\* The induction.
StoreInv == RequestsKnown /\ FamiliesKnown /\ RotatesAlone /\ FamiliesListed /\ SweepsAll

SessionsInv == TypeOK /\ StoreInv /\ JoinedOnce

-----------------------------------------------------------------------------
(* Requests, of three kinds.                                               *)

OrgAt == {"idle", "invite", "resend", "revoke", "accept", "role", "deactivate"}
PhaseAt == {"issue", "index", "mark", "rotate", "check"}
SweepAt == {"list", "members", "delete", "unlist", "forget"}

LEMMA OrgKind ==
    ASSUME NEW q \in OrgRequests
    PROVE  q.at \in OrgAt /\ "session" \notin DOMAIN q /\ "alone" \notin DOMAIN q
BY DEF OrgRequests, Idle, OrgAt

LEMMA PhaseKind ==
    ASSUME NEW q \in Phases
    PROVE  /\ q.at \in PhaseAt /\ "session" \in DOMAIN q /\ "alone" \notin DOMAIN q
           /\ q.session \in Users /\ q.token \in {0} \cup Ids
           /\ q = Phase(q.session, q.at, q.token)
BY DEF Phases, PhaseAt, Phase

LEMMA SweepKind ==
    ASSUME NEW q \in Sweeps
    PROVE  /\ q.at \in SweepAt /\ "session" \in DOMAIN q /\ "alone" \in DOMAIN q
           /\ q.session \in Users /\ q.todo \subseteq Ids /\ q.family \in {0} \cup Ids
           /\ q.found \subseteq Ids /\ q.all \in BOOLEAN /\ q.alone \in BOOLEAN
BY DEF Sweeps, SweepAt

LEMMA Kinds ==
    ASSUME TypeOK, NEW r \in Requests
    PROVE  /\ req[r] \in OrgRequests \/ req[r] \in Phases \/ req[r] \in Sweeps
           /\ req[r].at \in OrgAt => req[r] \in OrgRequests
           /\ req[r].at \in PhaseAt => req[r] \in Phases
           /\ req[r].at \in SweepAt => req[r] \in Sweeps
           /\ "session" \in DOMAIN req[r] => req[r] \in Phases \cup Sweeps
           /\ "alone" \in DOMAIN req[r] => req[r] \in Sweeps
<1>1. req[r] \in OrgRequests \/ req[r] \in Phases \/ req[r] \in Sweeps
  BY DEF TypeOK
<1>2. OrgAt \cap PhaseAt = {} /\ OrgAt \cap SweepAt = {} /\ PhaseAt \cap SweepAt = {}
  BY DEF OrgAt, PhaseAt, SweepAt
<1> QED BY <1>1, <1>2, OrgKind, PhaseKind, SweepKind


AnyRequest == OrgRequests \cup Phases \cup Sweeps

LEMMA IdsAre ==
    ASSUME TypeOK
    PROVE  /\ Ids = 1..Len(tokens) /\ Len(tokens) \in Nat
           /\ \A t \in Ids : tokens[t] \in Token /\ tokens[t].user \in Users /\ tokens[t].family \in Nat
<1>1. tokens \in Seq(Token)
  BY DEF TypeOK
<1>2. Ids = 1..Len(tokens) /\ Len(tokens) \in Nat
  BY <1>1 DEF Ids
<1>3. \A t \in Ids : tokens[t] \in Token
  BY <1>1, <1>2
<1> QED BY <1>2, <1>3 DEF Token

LEMMA InFamilies ==
    ASSUME TypeOK, FamiliesKnown, NEW u, NEW f
    PROVE  f \in FamiliesOf(u) <=> f \in Ids /\ tokens[f].family = f /\ tokens[f].user = u
<1>1. f \in FamiliesOf(u) <=> \E t \in Ids : tokens[t].user = u /\ tokens[t].family = f
  BY DEF FamiliesOf, Ids
<1>2. \A t \in Ids : tokens[t].family \in Ids
  <2> TAKE t \in Ids
  <2>1. tokens[t].family \in 1..t
    BY DEF FamiliesKnown
  <2> QED BY <2>1, IdsAre
<1> QED BY <1>1, <1>2 DEF FamiliesKnown

LEMMA FamilyIs ==
    ASSUME TypeOK, FamiliesKnown, NEW t \in Ids
    PROVE  tokens[t].family \in Ids
<1>1. tokens[t].family \in FamiliesOf(tokens[t].user)
  BY DEF FamiliesOf, Ids
<1> QED BY <1>1, InFamilies

\* Steps: what the tokens, the members and the requests keep.
TokensKept ==
    /\ Ids \subseteq Ids'
    /\ \A t \in Ids : /\ tokens'[t].user = tokens[t].user /\ tokens'[t].family = tokens[t].family
                      /\ tokens'[t].state = "unused" => tokens[t].state = "unused"

MembersKept ==
    /\ DOMAIN invites \subseteq DOMAIN invites'
    /\ \A u \in Users : member[u] # None =>
          member'[u] # None /\ (member'[u].role = "owner" => member[u].role = "owner")

\* A request that does not move: only another that enters demotes it.
Stays(q) ==
    \/ req'[q] = req[q]
    \/ "alone" \in DOMAIN req[q] /\ req'[q] = [req[q] EXCEPT !.alone = FALSE]

OnlyMoves(r) ==
    /\ req' = [q \in Requests |-> req'[q]]
    /\ \A q \in Requests \ {r} : Stays(q)

\* r was about its user already, or demotes those that were.
ComesIn(r) ==
    "session" \in DOMAIN req'[r] =>
        \/ "session" \in DOMAIN req[r] /\ req[r].session = req'[r].session
        \/ \A q \in About(req'[r].session) \ {r} : ~RevokingAlone(req'[q])

LEMMA Goes ==
    ASSUME TypeOK, NEW r \in Requests, NEW p, req' = [req EXCEPT ![r] = p]
    PROVE  req'[r] = p /\ OnlyMoves(r)
BY DEF TypeOK, OnlyMoves, Stays

LEMMA Entered ==
    ASSUME TypeOK, NEW r \in Requests, NEW u, NEW p, Enters(r, u, p), p.session = u
    PROVE  req'[r] = p /\ OnlyMoves(r) /\ ComesIn(r)
<1>1. req'[r] = p
  BY DEF Enters
<1>2. \A q \in Requests \ {r} :
         req'[q] = IF q \in About(u) /\ "alone" \in DOMAIN req[q]
                   THEN [req[q] EXCEPT !.alone = FALSE] ELSE req[q]
  BY DEF Enters
<1>3. \A q \in About(u) \ {r} : ~RevokingAlone(req'[q])
  <2> TAKE q \in About(u) \ {r}
  <2>1. q \in Requests
    BY DEF About
  <2>2. CASE "alone" \in DOMAIN req[q]
    <3>1. req[q] \in Sweeps
      BY <2>1, <2>2, Kinds
    <3>2. req'[q] = [req[q] EXCEPT !.alone = FALSE]
      BY <1>2, <2>1, <2>2
    <3>3. req'[q].alone = FALSE
      BY <3>1, <3>2, SweepKind DEF Sweeps
    <3> QED BY <3>3 DEF RevokingAlone
  <2>3. CASE "alone" \notin DOMAIN req[q]
    BY <1>2, <2>1, <2>3 DEF RevokingAlone
  <2> QED BY <2>2, <2>3
<1>4. OnlyMoves(r)
  <2>1. req' = [q \in Requests |-> req'[q]]
    BY DEF Enters
  <2> QED BY <1>2, <2>1 DEF OnlyMoves, Stays
<1> QED BY <1>1, <1>3, <1>4 DEF ComesIn

LEMMA EndsMoves ==
    ASSUME TypeOK, NEW r \in Requests, Ends(r)
    PROVE  req'[r] = Idle /\ OnlyMoves(r) /\ ComesIn(r)
<1>1. req'[r] = Idle /\ OnlyMoves(r)
  BY Goes DEF Ends
<1>2. "session" \notin DOMAIN Idle
  BY DEF Idle
<1> QED BY <1>1, <1>2 DEF ComesIn

\* One that does not move is about what it was about, where it was.
LEMMA Staying ==
    ASSUME TypeOK, NEW q \in Requests, Stays(q)
    PROVE  /\ req'[q].at = req[q].at
           /\ DOMAIN req'[q] = DOMAIN req[q]
           /\ "session" \in DOMAIN req[q] => req'[q].session = req[q].session
           /\ "alone" \notin DOMAIN req[q] => req'[q] = req[q]
           /\ RevokingAlone(req'[q]) => req'[q] = req[q]
           /\ "alone" \in DOMAIN req[q] =>
                /\ req'[q].todo = req[q].todo /\ req'[q].family = req[q].family
                /\ req'[q] \in Sweeps
<1>1. CASE req'[q] = req[q]
  <2>1. "alone" \in DOMAIN req[q] => req[q] \in Sweeps
    BY Kinds
  <2> QED BY <1>1, <2>1
<1>2. CASE "alone" \in DOMAIN req[q] /\ req'[q] = [req[q] EXCEPT !.alone = FALSE]
  <2>1. req[q] \in Sweeps
    BY <1>2, Kinds
  <2> DEFINE s == req[q]
             d == req'[q]
  <2>2. d = [s EXCEPT !.alone = FALSE] /\ s \in Sweeps
    BY <1>2, <2>1
  <2> HIDE DEF s, d
  <2>3. /\ d \in Sweeps /\ d.at = s.at /\ DOMAIN d = DOMAIN s /\ d.session = s.session
        /\ d.todo = s.todo /\ d.family = s.family /\ d.alone = FALSE /\ "alone" \in DOMAIN s
    BY <2>2 DEF Sweeps
  <2> QED BY <2>3 DEF s, d, RevokingAlone
<1> QED BY <1>1, <1>2 DEF Stays

LEMMA RequestsTyped ==
    ASSUME TypeOK, Ids \subseteq Ids', NEW r, OnlyMoves(r), r \in Requests => req'[r] \in AnyRequest'
    PROVE  req' \in [Requests -> AnyRequest']
<1>1. AnyRequest \subseteq AnyRequest'
  BY DEF AnyRequest, OrgRequests, Phases, Sweeps
<1>2. \A q \in Requests : req[q] \in AnyRequest
  BY DEF TypeOK, AnyRequest
<1>3. ASSUME NEW q \in Requests, q # r
      PROVE  req'[q] \in AnyRequest'
  <2>1. req'[q] = req[q] \/ req'[q] \in Sweeps
    BY <1>3, Staying DEF OnlyMoves
  <2> QED BY <2>1, <1>1, <1>2 DEF AnyRequest
<1> QED BY <1>3 DEF OnlyMoves

LEMMA FamiliesKept ==
    ASSUME TokensKept, NEW u
    PROVE  FamiliesOf(u) \subseteq FamiliesOf(u)'
BY DEF TokensKept, FamiliesOf, Ids

\* The tokens are the same, but for those that end.
LEMMA LiveKept ==
    ASSUME TokensKept, Ids' = Ids
    PROVE  /\ \A f : Live(f)' \subseteq Live(f)
           /\ \A u : FamiliesOf(u)' = FamiliesOf(u)
<1>1. \A f : Live(f)' \subseteq Live(f)
  BY DEF TokensKept, Live, Ids
<1>2. ASSUME NEW u
      PROVE  FamiliesOf(u)' = FamiliesOf(u)
  <2>1. \A f : f \in FamiliesOf(u)' <=> \E t \in Ids : tokens'[t].user = u /\ tokens'[t].family = f
    BY DEF FamiliesOf, Ids
  <2>2. \A f : f \in FamiliesOf(u) <=> \E t \in Ids : tokens[t].user = u /\ tokens[t].family = f
    BY DEF FamiliesOf, Ids
  <2> QED BY <2>1, <2>2 DEF TokensKept
<1> QED BY <1>1, <1>2

\* What a request read stays so.
LEMMA KnownStays ==
    ASSUME TypeOK, RequestsKnown, TokensKept, MembersKept, NEW r, OnlyMoves(r),
           r \in Requests => ReadOK(req[r])' /\ PhaseOK(req[r])'
    PROVE  RequestsKnown'
<1>1. SUFFICES ASSUME NEW q \in Requests, q # r
               PROVE  ReadOK(req[q])' /\ PhaseOK(req[q])'
  BY DEF RequestsKnown
<1>2. Stays(q) /\ ReadOK(req[q]) /\ PhaseOK(req[q])
  BY <1>1 DEF OnlyMoves, RequestsKnown
<1>3. req'[q].at = req[q].at /\ DOMAIN req'[q] = DOMAIN req[q]
  BY <1>2, Staying
<1>4. ReadOK(req[q])'
  <2>1. CASE req[q].at \in {"invite", "resend", "revoke", "accept", "role", "deactivate"}
    <3>1. req[q] \in OrgRequests
      BY <2>1, Kinds DEF OrgAt
    <3>2. req'[q] = req[q]
      BY <3>1, <1>2, Staying, OrgKind
    <3>3. req[q].at \in {"role", "deactivate"} => req[q].user \in Users
      BY <3>1 DEF OrgRequests, Idle
    <3> QED BY <3>2, <3>3, <1>2 DEF ReadOK, MembersKept
  <2>2. CASE req[q].at \notin {"invite", "resend", "revoke", "accept", "role", "deactivate"}
    BY <2>2, <1>3 DEF ReadOK
  <2> QED BY <2>1, <2>2
<1>5. PhaseOK(req[q])'
  <2>1. CASE "alone" \in DOMAIN req[q]
    <3>1. req[q] \in Sweeps
      BY <2>1, Kinds
    <3>2. req[q].session = req'[q].session /\ req[q].todo = req'[q].todo /\ req[q].family = req'[q].family
      BY <2>1, <3>1, <1>2, Staying, SweepKind
    <3>3. req[q].at \notin {"index", "mark", "rotate", "check"}
      BY <3>1, SweepKind DEF SweepAt
    <3>4. FamiliesOf(req[q].session) \subseteq FamiliesOf(req[q].session)'
      <4>1. \A u : FamiliesOf(u) \subseteq FamiliesOf(u)'
        BY FamiliesKept
      <4> DEFINE s == req[q].session
                 z == req'[q].session
      <4>2. s = z
        BY <3>2
      <4>3. FamiliesOf(req[q].session)' = {tokens'[t].family : t \in {x \in DOMAIN tokens' : tokens'[x].user = req'[q].session}}
        BY DEF FamiliesOf
      <4> QED BY <4>1, <4>3, <3>2 DEF FamiliesOf
    <3>5. req[q].todo \subseteq FamiliesOf(req[q].session)
      BY <1>2, <2>1 DEF PhaseOK
    <3> QED BY <1>2, <1>3, <2>1, <3>2, <3>3, <3>4, <3>5 DEF PhaseOK
  <2>2. CASE "alone" \notin DOMAIN req[q]
    <3>1. req'[q] = req[q]
      BY <2>2, <1>2, Staying
    <3> QED BY <2>2, <3>1, <1>2 DEF PhaseOK, TokensKept
  <2> QED BY <2>1, <2>2
<1> QED BY <1>4, <1>5

LEMMA FamiliesStay ==
    ASSUME TypeOK, TypeOK', FamiliesKnown, TokensKept, Ids' = Ids,
           \A u \in Users : userFamilies'[u] \subseteq FamiliesOf(u)
    PROVE  FamiliesKnown'
<1>1. \A u : FamiliesOf(u)' = FamiliesOf(u)
  BY LiveKept
<1>2. \A t \in Ids : tokens[t].family \in Ids
  BY InFamilies, IdsAre DEF FamiliesKnown
<1> QED BY <1>1, <1>2 DEF FamiliesKnown, TokensKept

LEMMA JoinsStay ==
    ASSUME JoinedOnce, \A u \in Users : UsedBy(u)' \subseteq UsedBy(u),
           \A u \in Users : member[u] # None => member'[u] # None
    PROVE  JoinedOnce'
BY DEF JoinedOnce

\* Requests rotate the tokens they rotated, and as far.
SameRotations ==
    \A r \in Requests : req'[r].at \in {"mark", "rotate"} =>
        req[r].at = req'[r].at /\ req[r].token = req'[r].token

LEMMA RotationsStay ==
    ASSUME TypeOK, NEW r, OnlyMoves(r),
           r \in Requests => (req'[r].at \in {"mark", "rotate"} =>
                                req[r].at = req'[r].at /\ req[r].token = req'[r].token)
    PROVE  SameRotations
<1>1. SUFFICES ASSUME NEW q \in Requests, q # r, req'[q].at \in {"mark", "rotate"}
               PROVE  req[q].at = req'[q].at /\ req[q].token = req'[q].token
  BY DEF SameRotations
<1>2. Stays(q)
  BY <1>1 DEF OnlyMoves
<1>3. req'[q].at = req[q].at
  BY <1>2, Staying
<1>4. "alone" \notin DOMAIN req[q]
  BY <1>1, <1>3, Kinds, PhaseKind DEF PhaseAt
<1> QED BY <1>2, <1>3, <1>4, Staying

LEMMA RotatorsKept ==
    ASSUME TypeOK, RequestsKnown, TokensKept, SameRotations, NEW f
    PROVE  Rotators(f)' \subseteq Rotators(f)
<1>1. SUFFICES ASSUME NEW q \in Requests, req'[q].at \in {"mark", "rotate"},
                      tokens'[req'[q].token].family = f
               PROVE  Rotates(req[q], f)
  BY DEF Rotators, Rotates
<1>2. req[q].at = req'[q].at /\ req[q].token = req'[q].token
  BY <1>1 DEF SameRotations
<1>3. req[q].token \in Ids
  BY <1>1, <1>2 DEF RequestsKnown, PhaseOK
<1> QED BY <1>1, <1>2, <1>3 DEF TokensKept, Rotates

LEMMA RotatesStay ==
    ASSUME TypeOK, RequestsKnown, RotatesAlone, TokensKept, Ids' = Ids, forked \subseteq forked', SameRotations
    PROVE  RotatesAlone'
<1>1. SUFFICES ASSUME NEW f \in Ids \ forked
               PROVE  /\ \A s, t \in Live(f)' : s = t
                      /\ \A q, r \in Rotators(f)' : q = r
                      /\ \A r \in Rotators(f)' : \A t \in Live(f)' : req'[r].at = "mark" /\ t = req'[r].token
  BY DEF RotatesAlone
<1>2. Live(f)' \subseteq Live(f) /\ Rotators(f)' \subseteq Rotators(f)
  BY LiveKept, RotatorsKept
<1>3. \A r \in Rotators(f)' : r \in Requests /\ req'[r].at \in {"mark", "rotate"}
  BY DEF Rotators, Rotates
<1> QED BY <1>2, <1>3 DEF RotatesAlone, SameRotations

\* A request that is adding a family to the list has added it, goes on, or died.
Indexes ==
    \A r \in Requests : req[r].at = "index" =>
        \/ req'[r].at = "index" /\ req'[r].token = req[r].token
        \/ req[r].token \in userFamilies'[req[r].session]
        \/ req[r].token \in unlisted'

LEMMA IndexesStay ==
    ASSUME TypeOK, NEW r, OnlyMoves(r),
           r \in Requests => \/ req[r].at # "index"
                             \/ req[r].token \in userFamilies'[req[r].session]
                             \/ req[r].token \in unlisted'
                             \/ req'[r] = req[r]
    PROVE  Indexes
<1>1. ASSUME NEW q \in Requests, q # r, req[q].at = "index"
      PROVE  req'[q] = req[q]
  <2>1. Stays(q)
    BY <1>1 DEF OnlyMoves
  <2>2. "alone" \notin DOMAIN req[q]
    BY <1>1, Kinds, PhaseKind DEF PhaseAt
  <2> QED BY <2>1, <2>2, Staying
<1> QED BY <1>1 DEF Indexes

LEMMA ListedStays ==
    ASSUME TypeOK, TypeOK', RequestsKnown, FamiliesKnown, FamiliesListed, TokensKept, Ids' = Ids,
           unlisted \subseteq unlisted', Indexes,
           \A f \in Ids : Rotators(f)' # {} => Rotators(f) # {} \/ Live(f) # {},
           \A f \in Ids \ unlisted' : Live(f)' # {} => familyKey[f] \subseteq familyKey'[f],
           \A f \in Ids \ unlisted' : f \in userFamilies[tokens[f].user] =>
              f \in userFamilies'[tokens[f].user] \/ (Live(f)' = {} /\ Rotators(f)' = {})
    PROVE  FamiliesListed'
<1>1. SUFFICES ASSUME NEW f \in Ids \ unlisted'
               PROVE  /\ Live(f)' \subseteq familyKey'[f]
                      /\ tokens'[f].family = f /\ (Live(f)' # {} \/ Rotators(f)' # {}) => ListedOK(f)'
  BY DEF FamiliesListed
<1>2. Live(f)' \subseteq Live(f) /\ (Rotators(f)' # {} => Rotators(f) # {} \/ Live(f) # {})
  BY LiveKept
<1>3. Live(f) \subseteq familyKey[f]
  BY <1>1 DEF FamiliesListed
<1>4. Live(f)' \subseteq familyKey'[f]
  BY <1>1, <1>2, <1>3
<1>5. ASSUME tokens'[f].family = f, Live(f)' # {} \/ Rotators(f)' # {}
      PROVE  ListedOK(f)'
  <2>1. tokens[f].family = f /\ tokens'[f].user = tokens[f].user
    BY <1>1, <1>5 DEF TokensKept
  <2>2. ListedOK(f)
    BY <1>1, <1>2, <1>5, <2>1 DEF FamiliesListed
  <2>3. CASE f \in userFamilies[tokens[f].user]
    BY <1>1, <1>5, <2>1, <2>3 DEF ListedOK
  <2>4. ASSUME NEW q \in Requests, req[q].at = "index", req[q].token = f
        PROVE  ListedOK(f)'
    <3>1. tokens[f].user = req[q].session
      BY <2>4 DEF RequestsKnown, PhaseOK
    <3> QED BY <1>1, <2>1, <2>4, <3>1 DEF Indexes, ListedOK
  <2> QED BY <2>2, <2>3, <2>4 DEF ListedOK
<1> QED BY <1>4, <1>5

\* Nobody comes in on a revocation that is still alone.
LEMMA StaysAlone ==
    ASSUME TypeOK, SweepsAll, NEW r, OnlyMoves(r), r \in Requests => ComesIn(r),
           NEW q \in Requests, q # r, RevokingAlone(req'[q])
    PROVE  /\ req'[q] = req[q] /\ RevokingAlone(req[q]) /\ req[q] \in Sweeps
           /\ About(req[q].session)' \subseteq {q}
           /\ r \in Requests /\ "session" \in DOMAIN req[r] => req[r].session # req[q].session
<1>1. req'[q] = req[q] /\ RevokingAlone(req[q]) /\ req[q] \in Sweeps
  <2>1. req'[q] = req[q]
    BY Staying DEF OnlyMoves
  <2> QED BY <2>1, Kinds DEF RevokingAlone
<1> DEFINE u == req[q].session
<1>2. \A s \in Requests : "session" \in DOMAIN req[s] /\ req[s].session = u => s = q
  BY <1>1 DEF SweepsAll, SweepOK, About
<1>3. ASSUME NEW s \in Requests, "session" \in DOMAIN req'[s], req'[s].session = u
      PROVE  s = q
  <2>1. CASE s = r
    <3>1. "session" \in DOMAIN req[q]
      BY <1>1, SweepKind
    <3>2. q \in About(req'[r].session)
      BY <1>1, <1>3, <2>1, <3>1 DEF About
    <3>3. "session" \in DOMAIN req[r] /\ req[r].session = req'[r].session
      BY <1>3, <2>1, <3>2 DEF ComesIn
    <3> QED BY <3>3, <1>2, <1>3, <2>1
  <2>2. CASE s # r
    <3>1. "session" \in DOMAIN req[s] /\ req[s].session = u
      BY <2>2, <1>3, Staying DEF OnlyMoves
    <3> QED BY <3>1, <1>2
  <2> QED BY <2>1, <2>2
<1>4. About(req[q].session)' = {s \in Requests : "session" \in DOMAIN req'[s] /\ req'[s].session = req'[q].session}
  BY DEF About
<1> QED BY <1>1, <1>2, <1>3, <1>4

\* The families of a user are those they were, and no token of them is new.
Spares(u) ==
    /\ FamiliesOf(u)' \subseteq FamiliesOf(u)
    /\ \A f \in FamiliesOf(u) : Live(f)' \subseteq Live(f)

LEMMA SweepsStay ==
    ASSUME TypeOK, RequestsKnown, SweepsAll, NEW r, OnlyMoves(r), r \in Requests => ComesIn(r),
           unlisted \subseteq unlisted',
           \A u : Spares(u) \/ (r \in Requests /\ "session" \in DOMAIN req[r] /\ req[r].session = u),
           r \in Requests => SweepOK(r, req[r])'
    PROVE  SweepsAll'
<1>1. SUFFICES ASSUME NEW q \in Requests, q # r, RevokingAlone(req'[q])
               PROVE  SweepOK(q, req[q])'
  BY DEF SweepsAll, SweepOK, RevokingAlone
<1>2. /\ req'[q] = req[q] /\ RevokingAlone(req[q]) /\ req[q] \in Sweeps
      /\ About(req[q].session)' \subseteq {q}
      /\ r \in Requests /\ "session" \in DOMAIN req[r] => req[r].session # req[q].session
  BY <1>1, StaysAlone
<1>4. SweepOK(q, req[q])
  BY DEF SweepsAll
<1>5. PICK s \in Sweeps : s = req[q]
  BY <1>2
<1>3. Spares(s.session)
  BY <1>2, <1>5
<1>6. s = req'[q]
  BY <1>2, <1>5
<1>7. /\ \A f \in FamiliesOf(s.session)' : f \in FamiliesOf(s.session)
      /\ \A f \in FamiliesOf(s.session) : Live(f)' \subseteq Live(f)
  BY <1>3 DEF Spares
<1>8. s.at \in {"delete", "unlist"} => s.family \in FamiliesOf(s.session)
  BY <1>2, <1>5 DEF RequestsKnown, PhaseOK, RevokingAlone
<1>9. About(s.session)' \subseteq {q}
  <2>1. About(s.session)' = {z \in Requests : "session" \in DOMAIN req'[z] /\ req'[z].session = s.session}
    BY DEF About
  <2>2. About(req[q].session)' = {z \in Requests : "session" \in DOMAIN req'[z] /\ req'[z].session = req'[q].session}
    BY DEF About
  <2> QED BY <1>2, <1>6, <2>1, <2>2
<1>10. SweepOK(q, s)
  BY <1>4, <1>5
<1>11. SweepOK(q, s)'
  <2>1. RevokingAlone(s)
    BY <1>2, <1>5
  <2>2. /\ s.all
        /\ s.at # "list" => \A f \in FamiliesOf(s.session) \ unlisted : Live(f) # {} => f \in s.todo
        /\ s.at = "delete" /\ s.family \notin unlisted => Live(s.family) \subseteq s.found
        /\ s.at = "unlist" /\ s.family \notin unlisted => Live(s.family) = {}
    BY <1>10, <2>1 DEF SweepOK
  <2>3. s.at # "list" => \A f \in FamiliesOf(s.session)' \ unlisted' : Live(f)' # {} => f \in s.todo
    BY <1>7, <2>2
  <2>4. s.at = "delete" /\ s.family \notin unlisted' => Live(s.family)' \subseteq s.found
    BY <1>7, <1>8, <2>2
  <2>5. s.at = "unlist" /\ s.family \notin unlisted' => Live(s.family)' = {}
    BY <1>7, <1>8, <2>2
  <2> QED BY <1>9, <2>2, <2>3, <2>4, <2>5 DEF SweepOK
<1>12. SweepOK(q, req[q])' <=> SweepOK(q, s)'
  BY <1>6 DEF SweepOK, About, FamiliesOf, Live, RevokingAlone
<1> QED BY <1>11, <1>12

\* A step that issues no token, takes none and drops no family from the lists.
MoverOK(r) ==
    /\ ComesIn(r)
    /\ ReadOK(req[r])' /\ PhaseOK(req[r])' /\ SweepOK(r, req[r])'
    /\ req'[r].at \in {"mark", "rotate"} => req[r].at = req'[r].at /\ req[r].token = req'[r].token
    /\ \/ req[r].at # "index"
       \/ req[r].token \in userFamilies'[req[r].session]
       \/ req[r].token \in unlisted'

LEMMA FewerStep ==
    ASSUME TypeOK, StoreInv, TypeOK', NEW r, OnlyMoves(r), r \in Requests => MoverOK(r),
           TokensKept, MembersKept, Ids' = Ids, forked \subseteq forked', unlisted \subseteq unlisted',
           \A f \in Ids \ unlisted' : Live(f)' # {} => familyKey[f] \subseteq familyKey'[f],
           \A f \in Ids \ unlisted' : f \in userFamilies[tokens[f].user] =>
              f \in userFamilies'[tokens[f].user] \/ (Live(f)' = {} /\ Rotators(f)' = {}),
           \A u \in Users : userFamilies'[u] \subseteq FamiliesOf(u)
    PROVE  StoreInv'
<1>1. RequestsKnown'
  BY KnownStays DEF StoreInv, MoverOK
<1>2. FamiliesKnown'
  BY FamiliesStay DEF StoreInv
<1>3. SameRotations
  BY RotationsStay DEF MoverOK
<1>4. RotatesAlone'
  BY <1>3, RotatesStay DEF StoreInv
<1>5. Indexes
  BY IndexesStay DEF MoverOK
<1>6. FamiliesListed'
  <2>1. \A f : Rotators(f)' \subseteq Rotators(f)
    BY <1>3, RotatorsKept DEF StoreInv
  <2> QED BY <1>5, <2>1, ListedStays DEF StoreInv
<1>7. SweepsAll'
  <2>1. \A u : Spares(u)
    BY LiveKept DEF Spares
  <2> QED BY <2>1, SweepsStay DEF StoreInv, MoverOK
<1> QED BY <1>1, <1>2, <1>4, <1>6, <1>7 DEF StoreInv

LEMMA QuietStep ==
    ASSUME TypeOK, StoreInv, TypeOK', NEW r, OnlyMoves(r), r \in Requests => MoverOK(r),
           TokensKept, MembersKept, Ids' = Ids, forked \subseteq forked', unlisted \subseteq unlisted',
           familyKey' = familyKey,
           \A u \in Users : userFamilies[u] \subseteq userFamilies'[u] /\ userFamilies'[u] \subseteq FamiliesOf(u)
    PROVE  StoreInv'
<1>1. \A f \in Ids : tokens[f].user \in Users
  BY IdsAre
<1> QED BY <1>1, FewerStep

\* The requests of an organization, which hold no token.
LEMMA OrgMoverOK ==
    ASSUME TypeOK, NEW r \in Requests, req[r] \in OrgRequests, NEW p \in OrgRequests,
           req' = [req EXCEPT ![r] = p], ReadOK(p)'
    PROVE  OnlyMoves(r) /\ MoverOK(r) /\ req'[r] = p
<1>1. req'[r] = p /\ OnlyMoves(r)
  BY Goes
<1>2. p.at \in OrgAt /\ "session" \notin DOMAIN p /\ "alone" \notin DOMAIN p
  BY OrgKind
<1>3. req[r].at # "index"
  BY OrgKind DEF OrgAt
<1>4. ComesIn(r)
  BY <1>1, <1>2 DEF ComesIn
<1>5. ReadOK(req[r])'
  BY <1>1 DEF ReadOK
<1>6. PhaseOK(req[r])' /\ SweepOK(r, req[r])'
  BY <1>1, <1>2 DEF PhaseOK, SweepOK, RevokingAlone, OrgAt
<1> QED BY <1>1, <1>2, <1>3, <1>4, <1>5, <1>6 DEF MoverOK, OrgAt

\* Steps about the organization, that leave the sessions as they are.
LEMMA OrgTyped ==
    ASSUME TypeOK, UNCHANGED sessionVars, org' \in {"pending_owner", "active", "disabled"},
           member' \in [Users -> Member \cup {None}], invites' \in Seq(Invite),
           req' \in [Requests -> AnyRequest']
    PROVE  TypeOK'
<1>1. Ids' = Ids
  BY DEF Ids, sessionVars, store
<1>2. /\ tokens' \in Seq(Token) /\ familyKey' \in [Ids -> SUBSET Ids]
      /\ userFamilies' \in [Users -> SUBSET Ids] /\ forked' \subseteq Ids /\ unlisted' \subseteq Ids
  BY DEF TypeOK, sessionVars, store
<1> QED BY <1>1, <1>2 DEF TypeOK, AnyRequest

LEMMA OrgStep ==
    ASSUME TypeOK, StoreInv, JoinedOnce, NEW r, OnlyMoves(r), r \in Requests => MoverOK(r) /\ req'[r] \in AnyRequest',
           UNCHANGED sessionVars, org' \in {"pending_owner", "active", "disabled"},
           member' \in [Users -> Member \cup {None}], invites' \in Seq(Invite), MembersKept
    PROVE  TypeOK' /\ StoreInv'
<1>1. Ids' = Ids /\ tokens' = tokens /\ familyKey' = familyKey /\ userFamilies' = userFamilies
      /\ forked' = forked /\ unlisted' = unlisted
  BY DEF Ids, sessionVars, store
<1>2. req' \in [Requests -> AnyRequest']
  BY <1>1, RequestsTyped
<1>3. TypeOK'
  BY <1>2, OrgTyped
<1>4. TokensKept
  BY <1>1 DEF TokensKept
<1>5. \A u \in Users : userFamilies'[u] \subseteq FamiliesOf(u)
  BY <1>1 DEF StoreInv, FamiliesKnown
<1> QED BY <1>1, <1>3, <1>4, <1>5, QuietStep

-----------------------------------------------------------------------------
(* The organization, its invitations and its members.                      *)

LEMMA OrgNeverGrows == OrgRequests \subseteq AnyRequest'
BY DEF AnyRequest, OrgRequests

LEMMA MembersSame ==
    ASSUME UNCHANGED <<member, invites>>
    PROVE  MembersKept /\ \A u \in Users : UsedBy(u)' \subseteq UsedBy(u)
BY DEF MembersKept, UsedBy

\* A request reads, and changes nothing.
LEMMA Reading ==
    ASSUME TypeOK, StoreInv, JoinedOnce, NEW r \in Requests, NEW p \in OrgRequests, Reads(r, p), ReadOK(p),
           UNCHANGED orgVars, UNCHANGED sessionVars
    PROVE  TypeOK' /\ StoreInv' /\ JoinedOnce'
<1>1. req[r] \in OrgRequests
  BY DEF Reads, OrgRequests
<1>2. org' = org /\ member' = member /\ invites' = invites
  BY DEF orgVars
<1>3. ReadOK(p)'
  BY <1>2 DEF ReadOK
<1>4. OnlyMoves(r) /\ MoverOK(r) /\ req'[r] = p
  BY <1>1, <1>3, OrgMoverOK DEF Reads
<1>5. req'[r] \in AnyRequest'
  BY <1>4, OrgNeverGrows
<1>6. MembersKept /\ \A u \in Users : UsedBy(u)' \subseteq UsedBy(u)
  BY <1>2, MembersSame
<1>7. JoinedOnce'
  BY <1>2, <1>6, JoinsStay
<1>8. org' \in {"pending_owner", "active", "disabled"} /\ member' \in [Users -> Member \cup {None}]
      /\ invites' \in Seq(Invite)
  BY <1>2 DEF TypeOK
<1> QED BY <1>4, <1>5, <1>6, <1>7, <1>8, OrgStep

LEMMA InviteStep ==
    ASSUME TypeOK, StoreInv, JoinedOnce, NEW r \in Requests, NEW u \in Users, UNCHANGED sessionVars,
           InviteOwner(r, u) \/ InviteUser(r, u)
    PROVE  TypeOK' /\ StoreInv' /\ JoinedOnce'
<1>1. PICK role \in Roles :
         Reads(r, [at |-> "invite", invite |-> [to |-> u, role |-> role, status |-> "pending"]])
  BY DEF InviteOwner, InviteUser, Roles
<1> DEFINE p == [at |-> "invite", invite |-> [to |-> u, role |-> role, status |-> "pending"]]
<1>2. p \in OrgRequests /\ ReadOK(p)
  BY DEF OrgRequests, Invite, ReadOK
<1>3. UNCHANGED orgVars
  BY DEF InviteOwner, InviteUser
<1> QED BY <1>1, <1>2, <1>3, Reading

LEMMA OnInviteStep ==
    ASSUME TypeOK, StoreInv, JoinedOnce, NEW r \in Requests, NEW i \in DOMAIN invites, UNCHANGED sessionVars,
           BeginResend(r, i) \/ BeginRevoke(r, i) \/ BeginAccept(r, i)
    PROVE  TypeOK' /\ StoreInv' /\ JoinedOnce'
<1>1. PICK act \in {"resend", "revoke", "accept"} : Reads(r, [at |-> act, id |-> i])
  BY DEF BeginResend, BeginRevoke, BeginOnInvite, BeginAccept
<1> DEFINE p == [at |-> act, id |-> i]
<1>2. i \in Nat
  BY DEF TypeOK
<1>3. p \in OrgRequests /\ ReadOK(p)
  BY <1>2 DEF OrgRequests, ReadOK
<1>4. UNCHANGED orgVars
  BY DEF BeginResend, BeginRevoke, BeginOnInvite, BeginAccept
<1> QED BY <1>1, <1>3, <1>4, Reading

LEMMA MemberIs ==
    ASSUME TypeOK, NEW u \in Users, member[u] # None
    PROVE  member[u] \in Member /\ member[u].role \in Roles
BY DEF TypeOK, Member

LEMMA OnMemberStep ==
    ASSUME TypeOK, StoreInv, JoinedOnce, NEW r \in Requests, NEW u \in Users, UNCHANGED sessionVars,
           BeginChange(r, u) \/ BeginDeactivate(r, u)
    PROVE  TypeOK' /\ StoreInv' /\ JoinedOnce'
<1>1. PICK act \in {"role", "deactivate"} : Reads(r, [at |-> act, user |-> u, was |-> member[u].role])
  BY DEF BeginChange, BeginDeactivate, BeginOnMember
<1>2. member[u] # None /\ UNCHANGED orgVars
  BY DEF BeginChange, BeginDeactivate, BeginOnMember
<1>3. PICK role \in Roles : role = member[u].role
  BY <1>2, MemberIs
<1> DEFINE p == [at |-> act, user |-> u, was |-> role]
<1>4. p \in OrgRequests
  BY DEF OrgRequests
<1>5. ReadOK(p)
  BY <1>2, <1>3 DEF ReadOK
<1> QED BY <1>1, <1>2, <1>3, <1>4, <1>5, Reading

\* A step of nobody is one of something that is no request.
LEMMA Nobody == \E r : r \notin Requests
<1> DEFINE r == {x \in Requests : x \notin x}
<1>1. r \notin Requests
  OBVIOUS
<1> QED BY <1>1

\* Nobody moves when the status of the organization changes.
LEMMA StatusStep ==
    ASSUME TypeOK, StoreInv, JoinedOnce, UNCHANGED sessionVars, Disable \/ Enable
    PROVE  TypeOK' /\ StoreInv' /\ JoinedOnce'
<1>1. UNCHANGED <<member, invites>> /\ req' = req /\ org' \in {"pending_owner", "active", "disabled"}
  BY DEF Disable, Enable
<1>2. PICK r : r \notin Requests
  BY Nobody
<1>3. OnlyMoves(r)
  BY <1>1 DEF OnlyMoves, Stays, TypeOK
<1>4. MembersKept /\ \A u \in Users : UsedBy(u)' \subseteq UsedBy(u)
  BY <1>1, MembersSame
<1>5. JoinedOnce'
  BY <1>1, <1>4, JoinsStay
<1>6. member' \in [Users -> Member \cup {None}] /\ invites' \in Seq(Invite)
  BY <1>1 DEF TypeOK
<1> QED BY <1>1, <1>2, <1>3, <1>4, <1>5, <1>6, OrgStep

LEMMA InvitesAre ==
    ASSUME TypeOK
    PROVE  /\ invites \in Seq(Invite) /\ DOMAIN invites = 1..Len(invites) /\ Len(invites) \in Nat
           /\ \A i \in DOMAIN invites : invites[i] \in Invite
BY DEF TypeOK

\* An invitation added is one that nobody has accepted.
LEMMA Inviting ==
    ASSUME TypeOK, NEW s \in Seq(Invite), Len(s) = Len(invites), NEW i \in Invite, i.status = "pending",
           \A j \in DOMAIN invites : s[j].to = invites[j].to /\ (s[j].status = "accepted" => invites[j].status = "accepted"),
           invites' = Append(s, i)
    PROVE  /\ invites' \in Seq(Invite) /\ DOMAIN invites \subseteq DOMAIN invites'
           /\ \A u \in Users : UsedBy(u)' \subseteq UsedBy(u)
<1>1. DOMAIN invites = 1..Len(invites) /\ Len(invites) \in Nat
  BY InvitesAre
<1>2. /\ invites' \in Seq(Invite) /\ DOMAIN invites' = 1..(Len(invites) + 1)
      /\ \A j \in DOMAIN invites : invites'[j] = s[j]
      /\ invites'[Len(invites) + 1] = i
  BY <1>1
<1>3. ASSUME NEW u \in Users, NEW j \in DOMAIN invites', invites'[j].to = u, invites'[j].status = "accepted"
      PROVE  j \in UsedBy(u)
  <2>1. j \in DOMAIN invites
    BY <1>1, <1>2, <1>3
  <2> QED BY <1>2, <1>3, <2>1 DEF UsedBy
<1> QED BY <1>1, <1>2, <1>3 DEF UsedBy

LEMMA Reissuing ==
    ASSUME TypeOK, NEW i \in DOMAIN invites, invites' = Reissued(i)
    PROVE  /\ invites' \in Seq(Invite) /\ DOMAIN invites \subseteq DOMAIN invites'
           /\ \A u \in Users : UsedBy(u)' \subseteq UsedBy(u)
<1> DEFINE s == [invites EXCEPT ![i].status = "revoked"]
           n == [invites[i] EXCEPT !.status = "pending"]
<1>1. /\ invites \in Seq(Invite) /\ DOMAIN invites = 1..Len(invites) /\ Len(invites) \in Nat
      /\ \A j \in DOMAIN invites : invites[j] \in Invite
  BY InvitesAre
<1>2. n \in Invite /\ n.status = "pending"
  BY <1>1 DEF Invite
<1>3. [invites[i] EXCEPT !.status = "revoked"] \in Invite
      /\ [invites[i] EXCEPT !.status = "revoked"].to = invites[i].to
      /\ [invites[i] EXCEPT !.status = "revoked"].status = "revoked"
  BY <1>1 DEF Invite
<1>4. s \in Seq(Invite) /\ Len(s) = Len(invites)
  BY <1>1, <1>3
<1>5. \A j \in DOMAIN invites : s[j] = IF j = i THEN [invites[i] EXCEPT !.status = "revoked"] ELSE invites[j]
  BY <1>1
<1>6. \A j \in DOMAIN invites : s[j].to = invites[j].to /\ (s[j].status = "accepted" => invites[j].status = "accepted")
  BY <1>3, <1>5
<1>7. invites' = Append(s, n)
  BY DEF Reissued
<1> HIDE DEF s, n
<1> QED BY <1>2, <1>4, <1>6, <1>7, Inviting

\* One that is revoked or accepted stays where it is.
LEMMA Settling ==
    ASSUME TypeOK, NEW i \in DOMAIN invites, NEW st \in {"revoked", "accepted"},
           invites' = [invites EXCEPT ![i].status = st]
    PROVE  /\ invites' \in Seq(Invite) /\ DOMAIN invites' = DOMAIN invites
           /\ \A u \in Users : UsedBy(u)' \subseteq
                UsedBy(u) \cup (IF st = "accepted" /\ u = invites[i].to THEN {i} ELSE {})
<1> DEFINE n == [invites[i] EXCEPT !.status = st]
<1>1. /\ invites \in Seq(Invite) /\ DOMAIN invites = 1..Len(invites) /\ Len(invites) \in Nat
      /\ \A j \in DOMAIN invites : invites[j] \in Invite
  BY InvitesAre
<1>2. n \in Invite /\ n.to = invites[i].to /\ n.status = st
  BY <1>1 DEF Invite
<1>3. invites' = [invites EXCEPT ![i] = n]
  OBVIOUS
<1> HIDE DEF n
<1>4. invites' \in Seq(Invite) /\ DOMAIN invites' = DOMAIN invites
  BY <1>1, <1>2, <1>3
<1>5. \A j \in DOMAIN invites : invites'[j] = IF j = i THEN n ELSE invites[j]
  BY <1>1, <1>3
<1> QED BY <1>2, <1>4, <1>5 DEF UsedBy

\* A request writes, and ends.
LEMMA Writing ==
    ASSUME TypeOK, StoreInv, JoinedOnce, NEW r \in Requests, req[r] \in OrgRequests, Ends(r), UNCHANGED sessionVars,
           org' = org, invites' \in Seq(Invite), DOMAIN invites \subseteq DOMAIN invites',
           \A u \in Users : UsedBy(u)' \subseteq UsedBy(u),
           member' \in [Users -> Member \cup {None}],
           \A u \in Users : member[u] # None =>
              member'[u] # None /\ (member'[u].role = "owner" => member[u].role = "owner")
    PROVE  TypeOK' /\ StoreInv' /\ JoinedOnce'
<1>1. Idle \in OrgRequests /\ ReadOK(Idle)'
  BY DEF OrgRequests, Idle, ReadOK
<1>2. OnlyMoves(r) /\ MoverOK(r) /\ req'[r] = Idle
  BY <1>1, OrgMoverOK DEF Ends
<1>3. req'[r] \in AnyRequest'
  BY <1>1, <1>2, OrgNeverGrows
<1>4. JoinedOnce'
  BY JoinsStay
<1>5. MembersKept
  BY DEF MembersKept
<1>6. org' \in {"pending_owner", "active", "disabled"}
  BY DEF TypeOK
<1> QED BY <1>2, <1>3, <1>4, <1>5, <1>6, OrgStep

LEMMA SameMembers ==
    ASSUME TypeOK, member' = member
    PROVE  /\ member' \in [Users -> Member \cup {None}]
           /\ \A u \in Users : member[u] # None =>
                member'[u] # None /\ (member'[u].role = "owner" => member[u].role = "owner")
BY DEF TypeOK

LEMMA AddStep ==
    ASSUME TypeOK, StoreInv, JoinedOnce, NEW r \in Requests, AddInvite(r), UNCHANGED sessionVars
    PROVE  TypeOK' /\ StoreInv' /\ JoinedOnce'
<1>1. req[r] \in OrgRequests /\ req[r].at = "invite" /\ Ends(r) /\ org' = org /\ member' = member
      /\ invites' = Append(invites, req[r].invite)
  BY Kinds DEF AddInvite, OrgAt
<1>2. req[r].invite \in Invite
  BY <1>1 DEF OrgRequests, Idle
<1>3. req[r].invite.status = "pending"
  BY <1>1 DEF StoreInv, RequestsKnown, ReadOK
<1>4. PICK i \in Invite : i = req[r].invite
  BY <1>2
<1>5. /\ invites' \in Seq(Invite) /\ DOMAIN invites \subseteq DOMAIN invites'
      /\ \A u \in Users : UsedBy(u)' \subseteq UsedBy(u)
  BY <1>1, <1>3, <1>4, Inviting, InvitesAre
<1> QED BY <1>1, <1>5, SameMembers, Writing

LEMMA ResendStep ==
    ASSUME TypeOK, StoreInv, JoinedOnce, NEW r \in Requests, Resend(r), UNCHANGED sessionVars
    PROVE  TypeOK' /\ StoreInv' /\ JoinedOnce'
<1>1. req[r] \in OrgRequests /\ req[r].at = "resend" /\ Ends(r) /\ org' = org /\ member' = member
      /\ invites' = Reissued(req[r].id)
  BY Kinds DEF Resend, OrgAt
<1>2. PICK i \in DOMAIN invites : i = req[r].id
  BY <1>1 DEF StoreInv, RequestsKnown, ReadOK
<1>3. /\ invites' \in Seq(Invite) /\ DOMAIN invites \subseteq DOMAIN invites'
      /\ \A u \in Users : UsedBy(u)' \subseteq UsedBy(u)
  BY <1>1, <1>2, Reissuing
<1> QED BY <1>1, <1>3, SameMembers, Writing

LEMMA RevokeStep ==
    ASSUME TypeOK, StoreInv, JoinedOnce, NEW r \in Requests, Revoke(r), UNCHANGED sessionVars
    PROVE  TypeOK' /\ StoreInv' /\ JoinedOnce'
<1>1. req[r] \in OrgRequests /\ req[r].at = "revoke" /\ Ends(r) /\ org' = org /\ member' = member
      /\ invites' = [invites EXCEPT ![req[r].id].status = "revoked"]
  BY Kinds DEF Revoke, OrgAt
<1>2. PICK i \in DOMAIN invites : i = req[r].id
  BY <1>1 DEF StoreInv, RequestsKnown, ReadOK
<1>3. invites' = [invites EXCEPT ![i].status = "revoked"]
  BY <1>1, <1>2
<1>4. /\ invites' \in Seq(Invite) /\ DOMAIN invites' = DOMAIN invites
      /\ \A u \in Users : UsedBy(u)' \subseteq UsedBy(u)
  BY <1>3, Settling
<1> QED BY <1>1, <1>4, SameMembers, Writing

\* The owner's invitation is sent again in one step.
LEMMA ResendOwnerStep ==
    ASSUME TypeOK, StoreInv, JoinedOnce, NEW i \in DOMAIN invites, ResendOwner(i), UNCHANGED sessionVars
    PROVE  TypeOK' /\ StoreInv' /\ JoinedOnce'
<1>1. /\ invites' \in Seq(Invite) /\ DOMAIN invites \subseteq DOMAIN invites'
      /\ \A u \in Users : UsedBy(u)' \subseteq UsedBy(u)
  BY Reissuing DEF ResendOwner
<1>2. org' = org /\ member' = member /\ req' = req
  BY DEF ResendOwner
<1>3. PICK r : r \notin Requests
  BY Nobody
<1>4. OnlyMoves(r)
  BY <1>2 DEF OnlyMoves, Stays, TypeOK
<1>5. JoinedOnce'
  BY <1>1, <1>2, JoinsStay
<1>6. MembersKept /\ org' \in {"pending_owner", "active", "disabled"} /\ member' \in [Users -> Member \cup {None}]
  BY <1>1, <1>2 DEF MembersKept, TypeOK
<1> QED BY <1>1, <1>3, <1>4, <1>5, <1>6, OrgStep

LEMMA RoleStep ==
    ASSUME TypeOK, StoreInv, JoinedOnce, NEW r \in Requests, ChangeRole(r), UNCHANGED sessionVars
    PROVE  TypeOK' /\ StoreInv' /\ JoinedOnce'
<1>1. req[r] \in OrgRequests /\ req[r].at = "role" /\ Ends(r) /\ org' = org /\ invites' = invites
      /\ member' = [member EXCEPT ![req[r].user].role = "admin"]
  BY Kinds DEF ChangeRole, OrgAt
<1>2. req[r].user \in Users /\ member[req[r].user] # None
  BY <1>1 DEF OrgRequests, Idle, StoreInv, RequestsKnown, ReadOK
<1>3. PICK u \in Users : u = req[r].user /\ member[u] # None
  BY <1>2
<1> DEFINE m == [member[u] EXCEPT !.role = "admin"]
<1>4. m \in Member /\ m.role = "admin"
  BY <1>3, MemberIs DEF Member, Roles
<1>5. member' = [member EXCEPT ![u] = m]
  BY <1>1, <1>3
<1> HIDE DEF m
<1>6. m # None
  BY <1>4, MembershipConstants
<1>7. /\ member' \in [Users -> Member \cup {None}]
      /\ \A v \in Users : member[v] # None =>
            member'[v] # None /\ (member'[v].role = "owner" => member[v].role = "owner")
  BY <1>4, <1>5, <1>6 DEF TypeOK
<1>8. invites' \in Seq(Invite) /\ DOMAIN invites \subseteq DOMAIN invites'
      /\ \A v \in Users : UsedBy(v)' \subseteq UsedBy(v)
  BY <1>1 DEF TypeOK, UsedBy
<1> QED BY <1>1, <1>7, <1>8, Writing

\* A request about the sessions of a user begins.
LEMMA Entering ==
    ASSUME TypeOK, NEW r \in Requests, req[r].at # "index", NEW p \in Phases \cup Sweeps,
           Enters(r, p.session, p), p.at \notin {"mark", "rotate"}, PhaseOK(p)', SweepOK(r, p)'
    PROVE  OnlyMoves(r) /\ MoverOK(r) /\ req'[r] = p
<1>1. "session" \in DOMAIN p
  BY PhaseKind, SweepKind
<1>2. req'[r] = p /\ OnlyMoves(r) /\ ComesIn(r)
  BY <1>1, Entered
<1>3. ReadOK(req[r])'
  BY <1>2, PhaseKind, SweepKind DEF ReadOK, PhaseAt, SweepAt
<1>4. PhaseOK(req[r])'
  BY <1>2 DEF PhaseOK, FamiliesOf
<1>5. SweepOK(r, req[r])'
  BY <1>2 DEF SweepOK, RevokingAlone, About, FamiliesOf, Live
<1> QED BY <1>2, <1>3, <1>4, <1>5 DEF MoverOK

LEMMA EntersIssue ==
    ASSUME TypeOK, NEW r \in Requests, req[r].at # "index", NEW u \in Users, Enters(r, u, Phase(u, "issue", 0))
    PROVE  OnlyMoves(r) /\ MoverOK(r) /\ req'[r] \in AnyRequest'
<1> DEFINE p == Phase(u, "issue", 0)
<1>1. p \in Phases /\ p.session = u /\ p.at = "issue" /\ "alone" \notin DOMAIN p
  BY DEF Phase, Phases
<1>2. p \in Phases'
  BY DEF Phase, Phases
<1>3. Enters(r, p.session, p)
  BY <1>1
<1> HIDE DEF p
<1>4. PhaseOK(p)' /\ SweepOK(r, p)'
  BY <1>1 DEF PhaseOK, SweepOK, RevokingAlone
<1>5. OnlyMoves(r) /\ MoverOK(r) /\ req'[r] = p
  BY <1>1, <1>3, <1>4, Entering
<1> QED BY <1>2, <1>5 DEF AnyRequest

LEMMA EntersSweep ==
    ASSUME TypeOK, NEW r \in Requests, req[r].at # "index", NEW u \in Users, RevokesAll(r, u)
    PROVE  OnlyMoves(r) /\ MoverOK(r) /\ req'[r] \in AnyRequest'
<1>1. PICK b \in BOOLEAN : b <=> About(u) \ {r} = {}
  <2>1. TRUE \in BOOLEAN /\ FALSE \in BOOLEAN
    OBVIOUS
  <2>2. CASE About(u) \ {r} = {}
    BY <2>1, <2>2
  <2>3. CASE ~(About(u) \ {r} = {})
    BY <2>1, <2>3
  <2> QED BY <2>2, <2>3
<1> DEFINE p == Sweep(u, "list", {}, TRUE, b)
<1>2. b = (About(u) \ {r} = {})
  BY <1>1
<1>3. Enters(r, u, p)
  BY <1>2 DEF RevokesAll
<1>4. /\ p \in Sweeps /\ p.session = u /\ p.at = "list" /\ "alone" \in DOMAIN p /\ p.alone = b
      /\ p.all = TRUE /\ p.todo = {} /\ "session" \in DOMAIN p
  BY DEF Sweep, Sweeps
<1>5. p \in Sweeps'
  BY DEF Sweep, Sweeps
<1>6. Enters(r, p.session, p)
  BY <1>3, <1>4
<1> HIDE DEF p
<1>7. PhaseOK(p)'
  BY <1>4 DEF PhaseOK
<1>8. req'[r] = p /\ OnlyMoves(r)
  BY <1>3, <1>4, Entered
<1>9. b => About(u)' \subseteq {r}
  <2> SUFFICES ASSUME b, NEW s \in Requests, s # r, "session" \in DOMAIN req'[s], req'[s].session = u
               PROVE  FALSE
    BY DEF About
  <2>1. "session" \in DOMAIN req[s] /\ req[s].session = u
    BY <1>8, Staying DEF OnlyMoves
  <2> QED BY <1>1, <2>1 DEF About
<1>10. SweepOK(r, p)'
  BY <1>4, <1>9 DEF SweepOK, RevokingAlone, About
<1>11. OnlyMoves(r) /\ MoverOK(r) /\ req'[r] = p
  BY <1>4, <1>6, <1>7, <1>10, Entering
<1> QED BY <1>5, <1>11 DEF AnyRequest

LEMMA EntersFamily ==
    ASSUME TypeOK, StoreInv, NEW r \in Requests, req[r].at # "index", NEW t \in Ids, RevokesFamily(r, t),
           tokens' = tokens
    PROVE  OnlyMoves(r) /\ MoverOK(r) /\ req'[r] \in AnyRequest'
<1>1. PICK u \in Users, f \in Ids : u = tokens[t].user /\ f = tokens[t].family /\ f \in FamiliesOf(u)
  <2>1. tokens[t].user \in Users
    BY IdsAre
  <2>2. tokens[t].family \in FamiliesOf(tokens[t].user)
    BY DEF FamiliesOf, Ids
  <2>3. tokens[t].family \in Ids
    BY <2>2, InFamilies DEF StoreInv
  <2> QED BY <2>1, <2>2, <2>3
<1> DEFINE p == Sweep(u, "members", {f}, FALSE, FALSE)
<1>2. /\ p \in Sweeps /\ p.session = u /\ p.at = "members" /\ p.alone = FALSE /\ p.todo = {f}
  BY <1>1 DEF Sweep, Sweeps
<1>3. p \in Sweeps'
  BY <1>2 DEF Sweeps, Ids
<1>4. Enters(r, p.session, p)
  BY <1>1, <1>2 DEF RevokesFamily
<1> HIDE DEF p
<1>5. f \in FamiliesOf(u)'
  BY <1>1 DEF FamiliesOf
<1>6. PhaseOK(p)'
  BY <1>2, <1>5 DEF PhaseOK
<1>7. SweepOK(r, p)'
  BY <1>2 DEF SweepOK, RevokingAlone
<1>8. OnlyMoves(r) /\ MoverOK(r) /\ req'[r] = p
  BY <1>2, <1>4, <1>6, <1>7, Entering
<1> QED BY <1>3, <1>8 DEF AnyRequest

\* An invitation is accepted by somebody who is no member yet.
LEMMA AcceptedStep ==
    ASSUME TypeOK, StoreInv, JoinedOnce, NEW r \in Requests, Accepted(r)
    PROVE  TypeOK' /\ StoreInv' /\ JoinedOnce'
<1>1. req[r] \in OrgRequests /\ req[r].at = "accept" /\ UNCHANGED sessionVars /\ org' = "active"
  BY Kinds DEF Accepted, Accept, OrgAt
<1>2. PICK i \in DOMAIN invites : i = req[r].id
  BY <1>1 DEF StoreInv, RequestsKnown, ReadOK
<1>3. PICK u \in Users : u = invites[i].to
  BY <1>2, InvitesAre DEF Invite
<1>4. member[u] = None
      /\ member' = [member EXCEPT ![u] = [role |-> invites[i].role, status |-> "active"]]
      /\ invites' = [invites EXCEPT ![i].status = "accepted"]
  BY <1>2, <1>3 DEF Accepted, Accept
<1>5. Enters(r, u, Phase(u, "issue", 0))
  BY <1>2, <1>3 DEF Accepted
<1>6. OnlyMoves(r) /\ MoverOK(r) /\ req'[r] \in AnyRequest'
  BY <1>1, <1>5, EntersIssue
<1>7. [role |-> invites[i].role, status |-> "active"] \in Member
  BY InvitesAre DEF Invite, Member
<1>8. PICK m \in Member : m = [role |-> invites[i].role, status |-> "active"] /\ m # None
  BY <1>7, MembershipConstants
<1>9. member' = [member EXCEPT ![u] = m]
  BY <1>4, <1>8
<1>10. member' \in [Users -> Member \cup {None}] /\ member'[u] # None
       /\ \A v \in Users : v # u => member'[v] = member[v]
  BY <1>8, <1>9 DEF TypeOK
<1>11. /\ invites' \in Seq(Invite) /\ DOMAIN invites' = DOMAIN invites
       /\ \A v \in Users : UsedBy(v)' \subseteq UsedBy(v) \cup (IF v = u THEN {i} ELSE {})
  BY <1>3, <1>4, Settling
<1>12. JoinedOnce'
  BY <1>4, <1>10, <1>11 DEF JoinedOnce
<1>13. MembersKept
  BY <1>4, <1>10, <1>11 DEF MembersKept
<1> QED BY <1>1, <1>6, <1>10, <1>11, <1>12, <1>13, OrgStep

\* A member is made inactive, and the sessions of the member are revoked.
LEMMA DeactivatedStep ==
    ASSUME TypeOK, StoreInv, JoinedOnce, NEW r \in Requests, Deactivated(r)
    PROVE  TypeOK' /\ StoreInv' /\ JoinedOnce'
<1>1. req[r] \in OrgRequests /\ req[r].at = "deactivate" /\ UNCHANGED sessionVars /\ org' = org
      /\ invites' = invites /\ member' = [member EXCEPT ![req[r].user].status = "inactive"]
  BY Kinds DEF Deactivated, Deactivate, OrgAt
<1>2. req[r].user \in Users /\ member[req[r].user] # None
  BY <1>1 DEF OrgRequests, Idle, StoreInv, RequestsKnown, ReadOK
<1>3. PICK u \in Users : u = req[r].user /\ member[u] # None
  BY <1>2
<1>4. RevokesAll(r, u)
  BY <1>3 DEF Deactivated
<1>5. OnlyMoves(r) /\ MoverOK(r) /\ req'[r] \in AnyRequest'
  BY <1>1, <1>4, EntersSweep
<1> DEFINE m == [member[u] EXCEPT !.status = "inactive"]
<1>6. m \in Member /\ m.role = member[u].role
  BY <1>3, MemberIs DEF Member
<1>7. member' = [member EXCEPT ![u] = m]
  BY <1>1, <1>3
<1> HIDE DEF m
<1>8. m # None
  BY <1>6, MembershipConstants
<1>9. /\ member' \in [Users -> Member \cup {None}]
      /\ \A v \in Users : member[v] # None =>
            member'[v] # None /\ (member'[v].role = "owner" => member[v].role = "owner")
  BY <1>6, <1>7, <1>8 DEF TypeOK
<1>10. MembersKept /\ JoinedOnce'
  <2>1. \A v \in Users : UsedBy(v)' \subseteq UsedBy(v)
    BY <1>1 DEF UsedBy
  <2> QED BY <1>1, <1>9, <2>1, JoinsStay DEF MembersKept
<1>11. org' \in {"pending_owner", "active", "disabled"} /\ invites' \in Seq(Invite)
  BY <1>1 DEF TypeOK
<1> QED BY <1>1, <1>5, <1>9, <1>10, <1>11, OrgStep

-----------------------------------------------------------------------------
(* Sessions.                                                               *)

LEMMA OrgSame ==
    ASSUME TypeOK, JoinedOnce, UNCHANGED orgVars
    PROVE  /\ JoinedOnce' /\ MembersKept /\ org' \in {"pending_owner", "active", "disabled"}
           /\ member' \in [Users -> Member \cup {None}] /\ invites' \in Seq(Invite)
<1>1. org' = org /\ member' = member /\ invites' = invites
  BY DEF orgVars
<1> QED BY <1>1, MembersSame, JoinsStay DEF TypeOK

LEMMA EnteringStep ==
    ASSUME TypeOK, StoreInv, JoinedOnce, NEW r \in Requests, UNCHANGED orgVars, UNCHANGED sessionVars,
           OnlyMoves(r), MoverOK(r), req'[r] \in AnyRequest'
    PROVE  TypeOK' /\ StoreInv' /\ JoinedOnce'
BY OrgSame, OrgStep

LEMMA LoginStep ==
    ASSUME TypeOK, StoreInv, JoinedOnce, NEW r \in Requests, NEW u \in Users, Login(r, u) \/ ResetPassword(r, u)
    PROVE  TypeOK' /\ StoreInv' /\ JoinedOnce'
<1>1. req[r].at # "index" /\ UNCHANGED orgVars /\ UNCHANGED sessionVars
  BY DEF Login, ResetPassword, Idle
<1>2. Enters(r, u, Phase(u, "issue", 0)) \/ RevokesAll(r, u)
  BY DEF Login, ResetPassword
<1>3. OnlyMoves(r) /\ MoverOK(r) /\ req'[r] \in AnyRequest'
  BY <1>1, <1>2, EntersIssue, EntersSweep
<1> QED BY <1>1, <1>3, EnteringStep

LEMMA RevokesStep ==
    ASSUME TypeOK, StoreInv, JoinedOnce, NEW r \in Requests, NEW t \in Ids, Replay(r, t) \/ Logout(r, t)
    PROVE  TypeOK' /\ StoreInv' /\ JoinedOnce'
<1>1. req[r].at # "index" /\ UNCHANGED orgVars /\ UNCHANGED sessionVars /\ RevokesFamily(r, t)
  BY DEF Replay, Logout, Idle
<1>2. OnlyMoves(r) /\ MoverOK(r) /\ req'[r] \in AnyRequest'
  BY <1>1, EntersFamily DEF sessionVars, store
<1> QED BY <1>1, <1>2, EnteringStep

LEMMA Ending ==
    ASSUME TypeOK, NEW r \in Requests, Ends(r),
           \/ req[r].at # "index"
           \/ req[r].token \in userFamilies'[req[r].session]
           \/ req[r].token \in unlisted'
    PROVE  OnlyMoves(r) /\ MoverOK(r) /\ req'[r] \in AnyRequest'
<1>1. req'[r] = Idle /\ OnlyMoves(r) /\ ComesIn(r)
  BY EndsMoves
<1>2. ReadOK(req[r])' /\ PhaseOK(req[r])' /\ SweepOK(r, req[r])'
  BY <1>1 DEF Idle, ReadOK, PhaseOK, SweepOK, RevokingAlone
<1>3. req'[r] \in AnyRequest'
  BY <1>1 DEF AnyRequest, OrgRequests
<1> QED BY <1>1, <1>2, <1>3 DEF MoverOK, Idle

LEMMA CheckStep ==
    ASSUME TypeOK, StoreInv, JoinedOnce, NEW r \in Requests, Check(r)
    PROVE  TypeOK' /\ StoreInv' /\ JoinedOnce'
<1>1. req[r].at = "check" /\ UNCHANGED orgVars /\ UNCHANGED sessionVars
  BY DEF Check
<1>2. CASE Ends(r)
  BY <1>1, <1>2, Ending, EnteringStep
<1>3. CASE RevokesFamily(r, req[r].token)
  <2>1. PICK t \in Ids : t = req[r].token
    BY <1>1 DEF StoreInv, RequestsKnown, PhaseOK
  <2>2. OnlyMoves(r) /\ MoverOK(r) /\ req'[r] \in AnyRequest'
    BY <1>1, <1>3, <2>1, EntersFamily DEF sessionVars, store
  <2> QED BY <1>1, <2>2, EnteringStep
<1> QED BY <1>2, <1>3 DEF Check

\* A step of the store that issues no token.
LEMMA StoreTyped ==
    ASSUME TypeOK, JoinedOnce, UNCHANGED orgVars, Ids' = Ids,
           NEW r, OnlyMoves(r), r \in Requests => req'[r] \in AnyRequest',
           tokens' \in Seq(Token), familyKey' \in [Ids -> SUBSET Ids], userFamilies' \in [Users -> SUBSET Ids],
           forked' \subseteq Ids, unlisted' \subseteq Ids
    PROVE  TypeOK' /\ JoinedOnce' /\ MembersKept
<1>1. req' \in [Requests -> AnyRequest']
  BY RequestsTyped
<1> QED BY <1>1, OrgSame DEF TypeOK, AnyRequest

LEMMA StoreSame ==
    ASSUME TypeOK, StoreInv
    PROVE  /\ tokens \in Seq(Token) /\ familyKey \in [Ids -> SUBSET Ids] /\ userFamilies \in [Users -> SUBSET Ids]
           /\ forked \subseteq Ids /\ unlisted \subseteq Ids
           /\ \A u \in Users : userFamilies[u] \subseteq FamiliesOf(u)
BY DEF TypeOK, StoreInv, FamiliesKnown

LEMMA TokensSame ==
    ASSUME tokens' = tokens
    PROVE  /\ Ids' = Ids /\ TokensKept /\ (\A f : Live(f)' = Live(f)) /\ (\A u : FamiliesOf(u)' = FamiliesOf(u))
BY DEF Ids, TokensKept, Live, FamiliesOf

LEMMA IndexStep ==
    ASSUME TypeOK, StoreInv, JoinedOnce, NEW r \in Requests, Index(r)
    PROVE  TypeOK' /\ StoreInv' /\ JoinedOnce'
<1>1. /\ req[r].at = "index" /\ Ends(r) /\ UNCHANGED orgVars /\ tokens' = tokens /\ familyKey' = familyKey
      /\ forked' = forked /\ unlisted' = unlisted
      /\ userFamilies' = [userFamilies EXCEPT ![req[r].session] = @ \cup {req[r].token}]
  BY DEF Index
<1>2. req[r] \in Phases /\ req[r].session \in Users
  BY <1>1, Kinds, PhaseKind DEF PhaseAt
<1>3. PICK u \in Users, t \in Ids :
         u = req[r].session /\ t = req[r].token /\ tokens[t].user = u /\ tokens[t].family = t
  BY <1>1, <1>2 DEF StoreInv, RequestsKnown, PhaseOK
<1>4. t \in FamiliesOf(u)
  BY <1>3, InFamilies DEF StoreInv
<1>5. userFamilies' = [userFamilies EXCEPT ![u] = userFamilies[u] \cup {t}]
  BY <1>1, <1>3
<1>6. /\ userFamilies' \in [Users -> SUBSET Ids] /\ t \in userFamilies'[u]
      /\ \A v \in Users : userFamilies[v] \subseteq userFamilies'[v] /\ userFamilies'[v] \subseteq FamiliesOf(v)
  BY <1>3, <1>4, <1>5, StoreSame
<1>7. OnlyMoves(r) /\ MoverOK(r) /\ req'[r] \in AnyRequest'
  BY <1>1, <1>3, <1>6, Ending
<1>8. TypeOK' /\ JoinedOnce' /\ MembersKept
  BY <1>1, <1>6, <1>7, StoreTyped, StoreSame, TokensSame
<1> QED BY <1>1, <1>6, <1>7, <1>8, QuietStep, TokensSame

\* Whatever a request was about to do, it may not.
LEMMA LeaveStep ==
    ASSUME TypeOK, StoreInv, JoinedOnce, NEW r \in Requests, Leave(r)
    PROVE  TypeOK' /\ StoreInv' /\ JoinedOnce'
<1>1. /\ Ends(r) /\ UNCHANGED orgVars /\ tokens' = tokens /\ familyKey' = familyKey
      /\ forked' = forked /\ userFamilies' = userFamilies
      /\ unlisted' = IF req[r].at = "index" THEN unlisted \cup {req[r].token} ELSE unlisted
  BY DEF Leave, store
<1>2. req[r].at = "index" => req[r].token \in Ids
  BY DEF StoreInv, RequestsKnown, PhaseOK
<1>3. unlisted \subseteq unlisted' /\ unlisted' \subseteq Ids
  BY <1>1, <1>2, StoreSame
<1>4. OnlyMoves(r) /\ MoverOK(r) /\ req'[r] \in AnyRequest'
  BY <1>1, Ending
<1>5. TypeOK' /\ JoinedOnce' /\ MembersKept
  BY <1>1, <1>3, <1>4, StoreTyped, StoreSame, TokensSame
<1> QED BY <1>1, <1>3, <1>4, <1>5, QuietStep, StoreSame, TokensSame

\* A revocation goes on with what it has still to do.
LEMMA Sweeping ==
    ASSUME TypeOK, NEW r \in Requests, req[r] \in Sweeps, NEW p \in Sweeps, req' = [req EXCEPT ![r] = p],
           p.session = req[r].session, PhaseOK(p)', SweepOK(r, p)', Ids' = Ids
    PROVE  OnlyMoves(r) /\ MoverOK(r) /\ req'[r] \in AnyRequest'
<1>1. req'[r] = p /\ OnlyMoves(r)
  BY Goes
<1>2. "session" \in DOMAIN req[r] /\ req[r].at \in SweepAt /\ p.at \in SweepAt
  BY SweepKind
<1>3. ComesIn(r)
  BY <1>1, <1>2 DEF ComesIn
<1>4. ReadOK(req[r])'
  BY <1>1, <1>2 DEF ReadOK, SweepAt
<1>5. PhaseOK(req[r])'
  BY <1>1 DEF PhaseOK, FamiliesOf
<1>6. SweepOK(r, req[r])'
  BY <1>1 DEF SweepOK, RevokingAlone, About, FamiliesOf, Live
<1>7. p \in AnyRequest'
  BY DEF AnyRequest, Sweeps
<1> QED BY <1>1, <1>2, <1>3, <1>4, <1>5, <1>6, <1>7 DEF MoverOK, SweepAt

\* It is still alone after its own step if it was.
LEMMA SweepsAlone ==
    ASSUME TypeOK, StoreInv, NEW r \in Requests, req[r] \in Sweeps, req[r].alone, NEW u, u = req[r].session,
           NEW p \in Sweeps, req' = [req EXCEPT ![r] = p]
    PROVE  /\ About(u)' \subseteq {r} /\ req[r].all
           /\ req[r].at # "list" => \A f \in FamiliesOf(u) \ unlisted : Live(f) # {} => f \in req[r].todo
           /\ req[r].at = "delete" /\ req[r].family \notin unlisted => Live(req[r].family) \subseteq req[r].found
           /\ req[r].at = "unlist" /\ req[r].family \notin unlisted => Live(req[r].family) = {}
<1>1. SweepOK(r, req[r]) /\ RevokingAlone(req[r])
  BY SweepKind DEF StoreInv, SweepsAll, RevokingAlone
<1>2. About(u) \subseteq {r}
  BY <1>1 DEF SweepOK
<1>3. About(u)' \subseteq {r}
  BY <1>2 DEF About, TypeOK
<1> QED BY <1>1, <1>3 DEF SweepOK

LEMMA GoingOnward ==
    ASSUME TypeOK, StoreInv, NEW r \in Requests, req[r] \in Sweeps, NEW u \in Users, u = req[r].session,
           NEW fs \in SUBSET FamiliesOf(u), Onward(r, fs), tokens' = tokens,
           req[r].alone => \A f \in FamiliesOf(u) \ unlisted' : Live(f) # {} => f \in fs
    PROVE  OnlyMoves(r) /\ MoverOK(r) /\ req'[r] \in AnyRequest'
<1>1. req[r].at # "index"
  BY SweepKind DEF SweepAt
<1>2. CASE Ends(r)
  BY <1>1, <1>2, Ending
<1>3. ASSUME NEW at \in {"members", "forget"}, at = "members" <=> fs # {},
             GoesTo(r, [req[r] EXCEPT !.at = at, !.todo = fs, !.family = 0])
      PROVE  OnlyMoves(r) /\ MoverOK(r) /\ req'[r] \in AnyRequest'
  <2>1. fs \subseteq Ids
    BY InFamilies DEF StoreInv
  <2> DEFINE p == [req[r] EXCEPT !.at = at, !.todo = fs, !.family = 0]
  <2>2. PICK s \in Sweeps : s = req[r]
    OBVIOUS
  <2>3. p = [s EXCEPT !.at = at, !.todo = fs, !.family = 0]
    BY <2>2
  <2>4. /\ p \in Sweeps /\ p.at = at /\ p.todo = fs /\ p.session = s.session /\ p.alone = s.alone
        /\ p.all = s.all /\ "alone" \in DOMAIN p
    BY <2>1, <2>3 DEF Sweeps
  <2>5. PICK q \in Sweeps : q = p
    BY <2>4
  <2>6. req' = [req EXCEPT ![r] = q]
    BY <1>3, <2>5 DEF GoesTo
  <2> HIDE DEF p
  <2>7. /\ q.at = at /\ q.todo = fs /\ q.session = u /\ q.alone = req[r].alone
        /\ q.all = req[r].all /\ "alone" \in DOMAIN q
    BY <2>2, <2>4, <2>5
  <2>8. FamiliesOf(u)' = FamiliesOf(u) /\ Ids' = Ids /\ \A f : Live(f)' = Live(f)
    BY TokensSame
  <2>9. PhaseOK(q)'
    <3>1. FamiliesOf(q.session)' = FamiliesOf(u)
      BY <2>7, <2>8 DEF FamiliesOf
    <3> QED BY <1>3, <2>7, <3>1 DEF PhaseOK
  <2>10. SweepOK(r, q)'
    <3> SUFFICES ASSUME q.alone
                 PROVE  /\ About(q.session)' \subseteq {r} /\ q.all
                        /\ \A f \in FamiliesOf(q.session)' \ unlisted' : Live(f)' # {} => f \in q.todo
      BY <1>3, <2>7 DEF SweepOK, RevokingAlone
    <3>1. About(u)' \subseteq {r} /\ req[r].all
      BY <2>6, <2>7, SweepsAlone
    <3>2. About(q.session)' = About(u)' /\ FamiliesOf(q.session)' = FamiliesOf(u)'
      BY <2>7 DEF About, FamiliesOf
    <3> QED BY <2>7, <2>8, <3>1, <3>2
  <2> QED BY <2>6, <2>7, <2>8, <2>9, <2>10, Sweeping
<1>4. \/ fs # {} /\ GoesTo(r, [req[r] EXCEPT !.at = "members", !.todo = fs, !.family = 0])
      \/ fs = {} /\ GoesTo(r, [req[r] EXCEPT !.at = "forget", !.todo = fs, !.family = 0])
      \/ Ends(r)
  BY DEF Onward
<1> QED BY <1>2, <1>3, <1>4

\* What a revocation that is alone lists is all there is.
LEMMA ListStep ==
    ASSUME TypeOK, StoreInv, JoinedOnce, NEW r \in Requests, ListFamilies(r)
    PROVE  TypeOK' /\ StoreInv' /\ JoinedOnce'
<1>1. /\ req[r].at = "list" /\ UNCHANGED orgVars /\ tokens' = tokens /\ familyKey' = familyKey
      /\ forked' = forked /\ userFamilies' = userFamilies /\ unlisted' = unlisted
      /\ Onward(r, userFamilies[req[r].session])
  BY DEF ListFamilies, sessionVars, store
<1>2. req[r] \in Sweeps
  BY <1>1, Kinds DEF SweepAt
<1>3. PICK u \in Users : u = req[r].session
  BY <1>2, SweepKind
<1>4. userFamilies[u] \in SUBSET FamiliesOf(u)
  BY StoreSame
<1>5. ASSUME req[r].alone, NEW f \in FamiliesOf(u) \ unlisted, Live(f) # {}
      PROVE  f \in userFamilies[u]
  <2>1. About(u) \subseteq {r}
    BY <1>2, <1>3, <1>5, SweepKind DEF StoreInv, SweepsAll, SweepOK, RevokingAlone
  <2>2. f \in Ids /\ tokens[f].family = f /\ tokens[f].user = u
    BY <1>5, InFamilies DEF StoreInv
  <2>3. ListedOK(f)
    BY <1>5, <2>2 DEF StoreInv, FamiliesListed
  <2>4. ASSUME NEW q \in Requests, req[q].at = "index", req[q].token = f
        PROVE  FALSE
    <3>1. req[q].session = u /\ "session" \in DOMAIN req[q]
      BY <2>2, <2>4, Kinds, PhaseKind DEF StoreInv, RequestsKnown, PhaseOK, PhaseAt
    <3>2. q \in About(u)
      BY <3>1 DEF About
    <3> QED BY <1>1, <2>1, <2>4, <3>2
  <2> QED BY <2>2, <2>3, <2>4 DEF ListedOK
<1>6. OnlyMoves(r) /\ MoverOK(r) /\ req'[r] \in AnyRequest'
  BY <1>1, <1>2, <1>3, <1>4, <1>5, GoingOnward
<1> QED BY <1>1, <1>6, EnteringStep DEF sessionVars, store

LEMMA MembersStep ==
    ASSUME TypeOK, StoreInv, JoinedOnce, NEW r \in Requests, ReadMembers(r)
    PROVE  TypeOK' /\ StoreInv' /\ JoinedOnce'
<1>1. /\ req[r].at = "members" /\ UNCHANGED orgVars /\ UNCHANGED sessionVars /\ tokens' = tokens
      /\ unlisted' = unlisted
  BY DEF ReadMembers, sessionVars, store
<1>2. PICK f \in req[r].todo : GoesTo(r, [req[r] EXCEPT !.at = "delete", !.family = f, !.found = familyKey[f]])
  BY DEF ReadMembers
<1>3. req[r] \in Sweeps
  BY <1>1, Kinds DEF SweepAt
<1>4. PICK s \in Sweeps : s = req[r]
  BY <1>3
<1>5. s.session \in Users /\ "alone" \in DOMAIN s /\ s.todo \subseteq FamiliesOf(s.session)
  BY <1>4, SweepKind DEF StoreInv, RequestsKnown, PhaseOK
<1>6. f \in Ids /\ f \in s.todo
  BY <1>2, <1>4, <1>5, InFamilies DEF StoreInv
<1> DEFINE p == [s EXCEPT !.at = "delete", !.family = f, !.found = familyKey[f]]
<1>7. familyKey[f] \subseteq Ids
  BY <1>6, StoreSame
<1>8. /\ p \in Sweeps /\ p.at = "delete" /\ p.todo = s.todo /\ p.session = s.session /\ p.alone = s.alone
      /\ p.all = s.all /\ "alone" \in DOMAIN p /\ p.family = f /\ p.found = familyKey[f]
  BY <1>6, <1>7 DEF Sweeps
<1>9. PICK q \in Sweeps : q = p
  BY <1>8
<1>10. req' = [req EXCEPT ![r] = q]
  BY <1>2, <1>4, <1>9 DEF GoesTo
<1> HIDE DEF p
<1>11. /\ q.at = "delete" /\ q.todo = s.todo /\ q.session = s.session /\ q.alone = s.alone
       /\ q.all = s.all /\ "alone" \in DOMAIN q /\ q.family = f /\ q.found = familyKey[f]
  BY <1>8, <1>9
<1>12. (\A u : FamiliesOf(u)' = FamiliesOf(u)) /\ Ids' = Ids /\ \A g : Live(g)' = Live(g)
  BY <1>1, TokensSame
<1>13. FamiliesOf(q.session)' = FamiliesOf(s.session)
  BY <1>11, <1>12 DEF FamiliesOf
<1>14. PhaseOK(q)'
  BY <1>5, <1>6, <1>11, <1>13 DEF PhaseOK
<1>15. SweepOK(r, q)'
  <2> SUFFICES ASSUME q.alone
               PROVE  /\ About(q.session)' \subseteq {r} /\ q.all
                      /\ \A g \in FamiliesOf(q.session)' \ unlisted' : Live(g)' # {} => g \in q.todo
                      /\ q.family \notin unlisted' => Live(q.family)' \subseteq q.found
    BY <1>11 DEF SweepOK, RevokingAlone
  <2>1. About(s.session)' \subseteq {r} /\ s.all
        /\ \A g \in FamiliesOf(s.session) \ unlisted : Live(g) # {} => g \in s.todo
    BY <1>1, <1>4, <1>5, <1>10, <1>11, SweepsAlone
  <2>2. About(q.session)' = About(s.session)'
    BY <1>11 DEF About
  <2>3. f \notin unlisted => Live(f) \subseteq familyKey[f]
    BY <1>6 DEF StoreInv, FamiliesListed
  <2>4. Live(q.family)' = Live(f)
    BY <1>11, <1>12 DEF Live
  <2> QED BY <1>1, <1>11, <1>12, <1>13, <2>1, <2>2, <2>3, <2>4
<1>16. OnlyMoves(r) /\ MoverOK(r) /\ req'[r] \in AnyRequest'
  BY <1>3, <1>4, <1>10, <1>11, <1>12, <1>14, <1>15, Sweeping
<1> QED BY <1>1, <1>16, EnteringStep

\* The tokens found are gone, and with them the good ones of the family.
LEMMA DeleteStep ==
    ASSUME TypeOK, StoreInv, JoinedOnce, NEW r \in Requests, DeleteTokens(r)
    PROVE  TypeOK' /\ StoreInv' /\ JoinedOnce' /\ TokensKept
<1>1. /\ req[r].at = "delete" /\ UNCHANGED orgVars /\ familyKey' = familyKey /\ userFamilies' = userFamilies
      /\ forked' = forked /\ unlisted' = unlisted
      /\ tokens' = [t \in DOMAIN tokens |->
                      IF t \in req[r].found THEN [tokens[t] EXCEPT !.state = "gone"] ELSE tokens[t]]
      /\ GoesTo(r, [req[r] EXCEPT !.at = "unlist", !.found = {}])
  BY DEF DeleteTokens
<1>2. req[r] \in Sweeps
  BY <1>1, Kinds DEF SweepAt
<1>3. PICK s \in Sweeps : s = req[r]
  BY <1>2
<1>4. s.session \in Users /\ "alone" \in DOMAIN s /\ s.todo \subseteq FamiliesOf(s.session) /\ s.family \in s.todo
  BY <1>1, <1>3, SweepKind DEF StoreInv, RequestsKnown, PhaseOK
<1>5. \A t \in Ids : [tokens[t] EXCEPT !.state = "gone"] \in Token
         /\ [tokens[t] EXCEPT !.state = "gone"].user = tokens[t].user
         /\ [tokens[t] EXCEPT !.state = "gone"].family = tokens[t].family
         /\ [tokens[t] EXCEPT !.state = "gone"].state = "gone"
  BY IdsAre DEF Token
<1>6. Ids' = Ids /\ \A t \in Ids : tokens'[t] = IF t \in s.found THEN [tokens[t] EXCEPT !.state = "gone"] ELSE tokens[t]
  BY <1>1, <1>3 DEF Ids
<1>7. tokens' \in Seq(Token)
  <2>1. \A t \in Ids : tokens'[t] \in Token
    BY <1>5, <1>6, IdsAre
  <2>2. tokens' = [t \in 1..Len(tokens) |-> tokens'[t]] /\ Len(tokens) \in Nat
    BY <1>1, IdsAre DEF Ids
  <2> QED BY <2>1, <2>2, IdsAre
<1>8. TokensKept
  BY <1>5, <1>6 DEF TokensKept
<1>9. (\A u : FamiliesOf(u)' = FamiliesOf(u)) /\ (\A f : Live(f)' \subseteq Live(f))
  BY <1>6, <1>8, LiveKept
<1>10. \A f : Live(f) \subseteq s.found => Live(f)' = {}
  BY <1>5, <1>6 DEF Live, Ids
<1> DEFINE p == [s EXCEPT !.at = "unlist", !.found = {}]
<1>11. /\ p \in Sweeps /\ p.at = "unlist" /\ p.todo = s.todo /\ p.session = s.session /\ p.alone = s.alone
       /\ p.all = s.all /\ "alone" \in DOMAIN p /\ p.family = s.family
  BY DEF Sweeps
<1>12. PICK q \in Sweeps : q = p
  BY <1>11
<1>13. req' = [req EXCEPT ![r] = q]
  BY <1>1, <1>3, <1>12 DEF GoesTo
<1> HIDE DEF p
<1>14. /\ q.at = "unlist" /\ q.todo = s.todo /\ q.session = s.session /\ q.alone = s.alone
       /\ q.all = s.all /\ "alone" \in DOMAIN q /\ q.family = s.family
  BY <1>11, <1>12
<1>15. FamiliesOf(q.session)' = FamiliesOf(s.session)
  BY <1>9, <1>14 DEF FamiliesOf
<1>16. PhaseOK(q)'
  BY <1>4, <1>14, <1>15 DEF PhaseOK
<1>17. SweepOK(r, q)'
  <2> SUFFICES ASSUME q.alone
               PROVE  /\ About(q.session)' \subseteq {r} /\ q.all
                      /\ \A g \in FamiliesOf(q.session)' \ unlisted' : Live(g)' # {} => g \in q.todo
                      /\ q.family \notin unlisted' => Live(q.family)' = {}
    BY <1>14 DEF SweepOK, RevokingAlone
  <2>1. /\ About(s.session)' \subseteq {r} /\ s.all
        /\ \A g \in FamiliesOf(s.session) \ unlisted : Live(g) # {} => g \in s.todo
        /\ s.family \notin unlisted => Live(s.family) \subseteq s.found
    BY <1>1, <1>3, <1>4, <1>13, <1>14, SweepsAlone
  <2>2. About(q.session)' = About(s.session)'
    BY <1>14 DEF About
  <2>3. Live(q.family)' = Live(s.family)'
    BY <1>14 DEF Live
  <2>4. \A g \in FamiliesOf(s.session) \ unlisted' : Live(g)' # {} => g \in q.todo
    BY <1>1, <1>9, <1>14, <2>1
  <2>5. s.family \notin unlisted' => Live(s.family)' = {}
    BY <1>1, <1>10, <2>1
  <2> QED BY <1>14, <1>15, <2>1, <2>2, <2>3, <2>4, <2>5
<1>18. OnlyMoves(r) /\ MoverOK(r) /\ req'[r] \in AnyRequest'
  BY <1>2, <1>3, <1>6, <1>13, <1>14, <1>16, <1>17, Sweeping
<1>19. TypeOK' /\ JoinedOnce' /\ MembersKept
  BY <1>1, <1>6, <1>7, <1>18, StoreTyped, StoreSame
<1> QED BY <1>1, <1>6, <1>8, <1>18, <1>19, QuietStep, StoreSame

LEMMA DeleteFamilyStep ==
    ASSUME TypeOK, StoreInv, JoinedOnce, NEW r \in Requests, DeleteFamily(r)
    PROVE  TypeOK' /\ StoreInv' /\ JoinedOnce'
<1>1. /\ req[r].at = "unlist" /\ UNCHANGED orgVars /\ tokens' = tokens /\ userFamilies' = userFamilies
      /\ forked' = forked
  BY DEF DeleteFamily
<1>2. req[r] \in Sweeps
  BY <1>1, Kinds DEF SweepAt
<1>3. PICK u \in Users, f \in req[r].todo :
         u = req[r].session /\ f = req[r].family /\ req[r].todo \subseteq FamiliesOf(u)
  BY <1>1, <1>2, SweepKind DEF StoreInv, RequestsKnown, PhaseOK
<1>4. f \in Ids
  BY <1>3, InFamilies DEF StoreInv
<1>5. /\ familyKey' = [familyKey EXCEPT ![f] = {}]
      /\ unlisted' = IF Live(f) = {} THEN unlisted ELSE unlisted \cup {f}
      /\ Onward(r, req[r].todo \ {f})
  BY <1>3 DEF DeleteFamily
<1>6. unlisted \subseteq unlisted' /\ unlisted' \subseteq Ids /\ familyKey' \in [Ids -> SUBSET Ids]
      /\ \A g \in Ids : g # f => familyKey'[g] = familyKey[g]
  BY <1>4, <1>5, StoreSame
<1>7. Ids' = Ids /\ TokensKept /\ \A g : Live(g)' = Live(g)
  BY <1>1, TokensSame
<1>8. ASSUME req[r].alone, NEW g \in FamiliesOf(u) \ unlisted', Live(g) # {}
      PROVE  g \in req[r].todo \ {f}
  <2>1. g \in req[r].todo
    BY <1>1, <1>2, <1>3, <1>6, <1>8, SweepKind DEF StoreInv, SweepsAll, SweepOK, RevokingAlone
  <2>2. g # f
    BY <1>5, <1>8
  <2> QED BY <2>1, <2>2
<1>9. OnlyMoves(r) /\ MoverOK(r) /\ req'[r] \in AnyRequest'
  <2>1. req[r].todo \ {f} \in SUBSET FamiliesOf(u)
    BY <1>3
  <2> QED BY <1>1, <1>2, <1>3, <1>5, <1>8, <2>1, GoingOnward
<1>10. TypeOK' /\ JoinedOnce' /\ MembersKept
  BY <1>1, <1>6, <1>7, <1>9, StoreTyped, StoreSame
<1>11. \A g \in Ids \ unlisted' : Live(g)' # {} => familyKey[g] \subseteq familyKey'[g]
  BY <1>5, <1>6, <1>7
<1> QED BY <1>1, <1>6, <1>7, <1>9, <1>10, <1>11, FewerStep, StoreSame

\* The list of families goes, and nothing good is left of those on it.
LEMMA ForgetStep ==
    ASSUME TypeOK, StoreInv, JoinedOnce, NEW r \in Requests, ForgetFamilies(r)
    PROVE  TypeOK' /\ StoreInv' /\ JoinedOnce'
<1>1. /\ req[r].at = "forget" /\ UNCHANGED orgVars /\ tokens' = tokens /\ familyKey' = familyKey
      /\ forked' = forked /\ Ends(r)
  BY DEF ForgetFamilies
<1>2. req[r] \in Sweeps
  BY <1>1, Kinds DEF SweepAt
<1>3. PICK u \in Users : u = req[r].session /\ req[r].todo = {}
  BY <1>1, <1>2, SweepKind DEF StoreInv, RequestsKnown, PhaseOK
<1>4. /\ userFamilies' = [userFamilies EXCEPT ![u] = {}]
      /\ unlisted' = IF req[r].alone THEN unlisted ELSE unlisted \cup FamiliesOf(u)
  BY <1>3 DEF ForgetFamilies
<1>5. unlisted \subseteq unlisted' /\ unlisted' \subseteq Ids
  BY <1>4, InFamilies, StoreSame DEF StoreInv
<1>6. userFamilies' \in [Users -> SUBSET Ids] /\ \A v \in Users : userFamilies'[v] \subseteq FamiliesOf(v)
  BY <1>4, StoreSame
<1>7. Ids' = Ids /\ TokensKept /\ \A g : Live(g)' = Live(g)
  BY <1>1, TokensSame
<1>8. OnlyMoves(r) /\ MoverOK(r) /\ req'[r] \in AnyRequest'
  BY <1>1, Ending
<1>9. TypeOK' /\ JoinedOnce' /\ MembersKept
  BY <1>1, <1>5, <1>6, <1>7, <1>8, StoreTyped, StoreSame
<1>10. ASSUME NEW f \in Ids \ unlisted', f \in userFamilies[tokens[f].user]
       PROVE  f \in userFamilies'[tokens[f].user] \/ (Live(f)' = {} /\ Rotators(f)' = {})
  <2>1. CASE tokens[f].user # u
    BY <1>4, <1>10, <2>1, IdsAre, StoreSame
  <2>2. CASE tokens[f].user = u
    <3>1. f \in FamiliesOf(u)
      BY <1>10, <2>2, StoreSame
    <3>2. req[r].alone
      BY <1>4, <1>10, <3>1
    <3>3. About(u) \subseteq {r} /\ Live(f) = {}
      BY <1>1, <1>2, <1>3, <1>5, <1>10, <3>1, <3>2, SweepKind DEF StoreInv, SweepsAll, SweepOK, RevokingAlone
    <3>4. SameRotations
      BY <1>8, RotationsStay DEF MoverOK
    <3>5. Rotators(f)' \subseteq Rotators(f)
      BY <1>7, <3>4, RotatorsKept DEF StoreInv
    <3>6. ASSUME NEW q \in Rotators(f)
          PROVE  FALSE
      <4>1. q \in Requests /\ req[q].at \in {"mark", "rotate"} /\ tokens[req[q].token].family = f
        BY <3>6 DEF Rotators, Rotates
      <4>2. req[q].token \in Ids /\ tokens[req[q].token].user = req[q].session /\ "session" \in DOMAIN req[q]
        BY <4>1, Kinds, PhaseKind DEF StoreInv, RequestsKnown, PhaseOK, PhaseAt
      <4>3. req[q].session = u
        BY <2>2, <4>1, <4>2 DEF StoreInv, FamiliesKnown
      <4>4. q \in About(u)
        BY <4>1, <4>2, <4>3 DEF About
      <4> QED BY <1>1, <3>3, <4>1, <4>4
    <3> QED BY <1>7, <3>3, <3>5, <3>6
  <2> QED BY <2>1, <2>2
<1> QED BY <1>1, <1>5, <1>6, <1>7, <1>8, <1>9, <1>10, FewerStep

LEMMA ExpireStep ==
    ASSUME TypeOK, StoreInv, JoinedOnce, NEW t \in Ids, TokenExpires(t)
    PROVE  TypeOK' /\ StoreInv' /\ JoinedOnce' /\ TokensKept
<1>1. /\ UNCHANGED orgVars /\ req' = req /\ familyKey' = familyKey /\ userFamilies' = userFamilies
      /\ forked' = forked /\ unlisted' = unlisted /\ tokens' = [tokens EXCEPT ![t].state = "gone"]
  BY DEF TokenExpires
<1>2. PICK r : r \notin Requests
  BY Nobody
<1>3. OnlyMoves(r)
  BY <1>1 DEF OnlyMoves, Stays, TypeOK
<1>4. PICK n \in Token : /\ n = [tokens[t] EXCEPT !.state = "gone"]
                         /\ n.user = tokens[t].user /\ n.family = tokens[t].family /\ n.state = "gone"
  <2> DEFINE n == [tokens[t] EXCEPT !.state = "gone"]
  <2>1. n \in Token /\ n.user = tokens[t].user /\ n.family = tokens[t].family /\ n.state = "gone"
    BY IdsAre DEF Token
  <2> HIDE DEF n
  <2> QED BY <2>1 DEF n
<1>5. tokens' = [tokens EXCEPT ![t] = n]
  BY <1>1, <1>4
<1>6. tokens' \in Seq(Token) /\ Ids' = Ids /\ TokensKept
  BY <1>4, <1>5, StoreSame, IdsAre DEF Ids, TokensKept
<1>7. TypeOK' /\ JoinedOnce' /\ MembersKept
  BY <1>1, <1>2, <1>3, <1>6, StoreTyped, StoreSame
<1> QED BY <1>1, <1>2, <1>3, <1>6, <1>7, QuietStep, StoreSame

LEMMA ListExpireStep ==
    ASSUME TypeOK, StoreInv, JoinedOnce, NEW u \in Users, ListExpires(u)
    PROVE  TypeOK' /\ StoreInv' /\ JoinedOnce'
<1>1. /\ UNCHANGED orgVars /\ req' = req /\ familyKey' = familyKey /\ tokens' = tokens /\ forked' = forked
      /\ userFamilies' = [userFamilies EXCEPT ![u] = {}] /\ unlisted' = unlisted \cup userFamilies[u]
  BY DEF ListExpires
<1>2. PICK r : r \notin Requests
  BY Nobody
<1>3. OnlyMoves(r)
  BY <1>1 DEF OnlyMoves, Stays, TypeOK
<1>4. /\ userFamilies' \in [Users -> SUBSET Ids] /\ unlisted \subseteq unlisted' /\ unlisted' \subseteq Ids
      /\ \A v \in Users : userFamilies'[v] \subseteq FamiliesOf(v)
      /\ \A v \in Users : v # u => userFamilies'[v] = userFamilies[v]
  BY <1>1, StoreSame
<1>5. Ids' = Ids /\ TokensKept
  BY <1>1, TokensSame
<1>6. TypeOK' /\ JoinedOnce' /\ MembersKept
  BY <1>1, <1>2, <1>3, <1>4, <1>5, StoreTyped, StoreSame
<1>7. \A f \in Ids \ unlisted' : f \in userFamilies[tokens[f].user] => f \in userFamilies'[tokens[f].user]
  BY <1>1, <1>4, IdsAre
<1> QED BY <1>1, <1>2, <1>3, <1>4, <1>5, <1>6, <1>7, FewerStep

\* Requests that rotate, but for r, rotate what they rotated.
LEMMA OthersRotate ==
    ASSUME TypeOK, RequestsKnown, TokensKept, NEW r, OnlyMoves(r), NEW f, NEW q \in Rotators(f)', q # r
    PROVE  q \in Rotators(f) /\ req'[q] = req[q] /\ q \in Requests
<1>1. q \in Requests /\ req'[q].at \in {"mark", "rotate"} /\ tokens'[req'[q].token].family = f
  BY DEF Rotators, Rotates
<1>2. Stays(q)
  BY <1>1 DEF OnlyMoves
<1>3. req'[q] = req[q]
  BY <1>1, <1>2, Staying, Kinds, PhaseKind DEF PhaseAt
<1>4. req[q].token \in Ids
  BY <1>1, <1>3 DEF RequestsKnown, PhaseOK
<1> QED BY <1>1, <1>3, <1>4 DEF TokensKept, Rotators, Rotates

\* Whose token is taken first rotates alone; another forks the family.
LEMMA TakeStep ==
    ASSUME TypeOK, StoreInv, JoinedOnce, NEW r \in Requests, NEW t \in Ids, TakeToken(r, t)
    PROVE  TypeOK' /\ StoreInv' /\ JoinedOnce'
<1>1. /\ req[r] = Idle /\ tokens[t].state = "unused" /\ UNCHANGED orgVars /\ tokens' = tokens
      /\ familyKey' = familyKey /\ userFamilies' = userFamilies /\ unlisted' = unlisted
      /\ forked' = IF Rotating(t) = {} THEN forked ELSE forked \cup {tokens[t].family}
  BY DEF TakeToken, store
<1>2. PICK u \in Users, f \in Ids : u = tokens[t].user /\ f = tokens[t].family /\ f \in FamiliesOf(u)
  <2>1. tokens[t].family \in FamiliesOf(tokens[t].user)
    BY DEF FamiliesOf, Ids
  <2> QED BY <2>1, IdsAre, InFamilies DEF StoreInv
<1> DEFINE p == Phase(u, "mark", t)
<1>3. p \in Phases /\ p.session = u /\ p.at = "mark" /\ p.token = t /\ "alone" \notin DOMAIN p /\ "session" \in DOMAIN p
  BY DEF Phase, Phases
<1>4. Enters(r, u, p)
  BY <1>2 DEF TakeToken
<1> HIDE DEF p
<1>5. req'[r] = p /\ OnlyMoves(r) /\ ComesIn(r)
  BY <1>3, <1>4, Entered
<1>6. Ids' = Ids /\ TokensKept /\ (\A g : Live(g)' = Live(g)) /\ \A v : FamiliesOf(v)' = FamiliesOf(v)
  BY <1>1, TokensSame
<1>7. forked \subseteq forked' /\ forked' \subseteq Ids
  BY <1>1, <1>2, StoreSame
<1>8. TypeOK' /\ JoinedOnce' /\ MembersKept
  <2>1. req'[r] \in AnyRequest'
    BY <1>3, <1>5, <1>6 DEF AnyRequest, Phases
  <2> QED BY <1>1, <1>5, <1>6, <1>7, <2>1, StoreTyped, StoreSame
<1>9. RequestsKnown'
  <2>1. ReadOK(req[r])'
    BY <1>3, <1>5 DEF ReadOK
  <2>2. PhaseOK(req[r])'
    BY <1>1, <1>2, <1>3, <1>5, <1>6 DEF PhaseOK
  <2> QED BY <1>5, <1>6, <1>8, <2>1, <2>2, KnownStays DEF StoreInv
<1>10. FamiliesKnown'
  BY <1>1, <1>6, <1>8, FamiliesStay, StoreSame DEF StoreInv
<1>11. t \in Live(f)
  BY <1>1, <1>2 DEF Live, Ids
<1>12. \A g : \A q \in Rotators(g)' :
          \/ q # r /\ q \in Rotators(g) /\ req'[q] = req[q]
          \/ q = r /\ g = f
  <2>1. \A g : r \in Rotators(g)' => g = f
    BY <1>1, <1>2, <1>3, <1>5 DEF Rotators, Rotates
  <2> QED BY <1>5, <1>6, <2>1, OthersRotate DEF StoreInv
<1>13. RotatesAlone'
  <2>1. SUFFICES ASSUME NEW g \in Ids \ forked'
                 PROVE  /\ \A x, y \in Live(g) : x = y
                        /\ \A q, s \in Rotators(g)' : q = s
                        /\ \A q \in Rotators(g)' : \A x \in Live(g) : req'[q].at = "mark" /\ x = req'[q].token
    BY <1>6 DEF RotatesAlone
  <2>2. /\ \A x, y \in Live(g) : x = y
        /\ \A q, s \in Rotators(g) : q = s
        /\ \A q \in Rotators(g) : \A x \in Live(g) : req[q].at = "mark" /\ x = req[q].token
    BY <1>7, <2>1 DEF StoreInv, RotatesAlone
  <2>3. CASE g # f
    BY <1>12, <2>2, <2>3
  <2>4. CASE g = f
    <3>1. Rotating(t) = {}
      BY <1>1, <1>2, <2>1, <2>4
    <3>2. Rotators(g) = {}
      <4>1. \A q \in Rotators(g) : q \in Rotating(t)
        BY <1>11, <2>2, <2>4 DEF Rotators, Rotating
      <4> QED BY <3>1, <4>1
    <3> QED BY <1>3, <1>5, <1>11, <1>12, <2>2, <2>4, <3>2
  <2> QED BY <2>3, <2>4
<1>14. FamiliesListed'
  <2>1. Indexes
    BY <1>1, <1>5, IndexesStay DEF Idle
  <2>2. \A g \in Ids : Rotators(g)' # {} => Rotators(g) # {} \/ Live(g) # {}
    BY <1>11, <1>12
  <2> QED BY <1>1, <1>6, <1>8, <2>1, <2>2, ListedStays, IdsAre DEF StoreInv
<1>15. SweepsAll'
  <2>1. SweepOK(r, req[r])'
    BY <1>3, <1>5 DEF SweepOK, RevokingAlone
  <2>2. \A v : Spares(v)
    BY <1>6 DEF Spares
  <2> QED BY <1>1, <1>5, <2>1, <2>2, SweepsStay DEF StoreInv
<1> QED BY <1>8, <1>9, <1>10, <1>13, <1>14, <1>15 DEF StoreInv

\* Once marked, a family that rotates alone has no good token.
LEMMA MarkStep ==
    ASSUME TypeOK, StoreInv, JoinedOnce, NEW r \in Requests, Mark(r)
    PROVE  TypeOK' /\ StoreInv' /\ JoinedOnce' /\ TokensKept
<1>1. /\ req[r].at = "mark" /\ UNCHANGED orgVars /\ familyKey' = familyKey /\ userFamilies' = userFamilies
      /\ forked' = forked /\ unlisted' = unlisted /\ tokens' = [tokens EXCEPT ![req[r].token].state = "used"]
      /\ GoesTo(r, [req[r] EXCEPT !.at = "rotate"])
  BY DEF Mark
<1>2. PICK u \in Users, t \in Ids : u = req[r].session /\ t = req[r].token /\ tokens[t].user = u
                                    /\ req[r] = Phase(u, "mark", t)
  BY <1>1, Kinds, PhaseKind DEF StoreInv, RequestsKnown, PhaseOK, PhaseAt
<1> DEFINE p == Phase(u, "rotate", t)
<1>3. /\ p \in Phases /\ p.session = u /\ p.at = "rotate" /\ p.token = t /\ "alone" \notin DOMAIN p
      /\ p = [Phase(u, "mark", t) EXCEPT !.at = "rotate"] /\ "session" \in DOMAIN Phase(u, "mark", t)
      /\ Phase(u, "mark", t).session = u
  BY DEF Phase, Phases
<1>4. req' = [req EXCEPT ![r] = p]
  BY <1>1, <1>2, <1>3 DEF GoesTo
<1> HIDE DEF p
<1>5. req'[r] = p /\ OnlyMoves(r)
  BY <1>4, Goes
<1>6. ComesIn(r)
  BY <1>2, <1>3, <1>5 DEF ComesIn
<1>7. PICK n \in Token : /\ n = [tokens[t] EXCEPT !.state = "used"]
                         /\ n.user = tokens[t].user /\ n.family = tokens[t].family /\ n.state = "used"
  <2> DEFINE n == [tokens[t] EXCEPT !.state = "used"]
  <2>1. n \in Token /\ n.user = tokens[t].user /\ n.family = tokens[t].family /\ n.state = "used"
    BY IdsAre DEF Token
  <2> HIDE DEF n
  <2> QED BY <2>1 DEF n
<1>8. tokens' = [tokens EXCEPT ![t] = n]
  BY <1>1, <1>2, <1>7
<1>9. tokens' \in Seq(Token) /\ Ids' = Ids /\ TokensKept /\ tokens'[t].state = "used"
  <2>1. tokens \in Seq(Token) /\ t \in DOMAIN tokens
    BY StoreSame DEF Ids
  <2>2. tokens' \in Seq(Token) /\ DOMAIN tokens' = DOMAIN tokens /\ tokens'[t] = n
        /\ \A x \in DOMAIN tokens : x # t => tokens'[x] = tokens[x]
    BY <1>7, <1>8, <2>1
  <2> QED BY <1>7, <2>2 DEF Ids, TokensKept
<1>10. TypeOK' /\ JoinedOnce' /\ MembersKept
  <2>1. req'[r] \in AnyRequest'
    BY <1>3, <1>5, <1>9 DEF AnyRequest, Phases
  <2> QED BY <1>1, <1>5, <1>9, <2>1, StoreTyped, StoreSame
<1>11. RequestsKnown'
  <2>1. ReadOK(req[r])'
    BY <1>3, <1>5 DEF ReadOK
  <2>2. PhaseOK(req[r])'
    BY <1>2, <1>3, <1>5, <1>9 DEF PhaseOK, TokensKept
  <2> QED BY <1>5, <1>9, <1>10, <2>1, <2>2, KnownStays DEF StoreInv
<1>12. FamiliesKnown'
  BY <1>1, <1>9, <1>10, FamiliesStay, StoreSame DEF StoreInv
<1>13. \A g : \A q \in Rotators(g)' : q \in Rotators(g) /\ (q # r => req'[q] = req[q])
  <2>1. \A g : r \in Rotators(g)' => r \in Rotators(g)
    <3>1. req[r].at = "mark" /\ req[r].token = t /\ req'[r].token = t /\ tokens'[t].family = tokens[t].family
      BY <1>1, <1>2, <1>3, <1>5, <1>9 DEF TokensKept
    <3> QED BY <3>1 DEF Rotators, Rotates
  <2> QED BY <1>5, <1>9, <2>1, OthersRotate DEF StoreInv
<1>14. RotatesAlone'
  <2>1. SUFFICES ASSUME NEW g \in Ids \ forked
                 PROVE  /\ \A x, y \in Live(g)' : x = y
                        /\ \A q, s \in Rotators(g)' : q = s
                        /\ \A q \in Rotators(g)' : \A x \in Live(g)' : req'[q].at = "mark" /\ x = req'[q].token
    BY <1>1, <1>9 DEF RotatesAlone
  <2>2. /\ \A x, y \in Live(g) : x = y
        /\ \A q, s \in Rotators(g) : q = s
        /\ \A q \in Rotators(g) : \A x \in Live(g) : req[q].at = "mark" /\ x = req[q].token
    BY <2>1 DEF StoreInv, RotatesAlone
  <2>3. Live(g)' \subseteq Live(g) \ {t}
    BY <1>9, LiveKept DEF Live
  <2>4. r \in Rotators(g) => Live(g)' = {}
    BY <1>2, <2>2, <2>3
  <2> QED BY <1>13, <2>2, <2>3, <2>4
<1>15. FamiliesListed'
  <2>1. Indexes
    BY <1>1, <1>5, IndexesStay
  <2>2. \A g \in Ids : Rotators(g)' # {} => Rotators(g) # {} \/ Live(g) # {}
    BY <1>13
  <2> QED BY <1>1, <1>9, <1>10, <2>1, <2>2, ListedStays, IdsAre DEF StoreInv
<1>16. SweepsAll'
  <2>1. SweepOK(r, req[r])'
    BY <1>3, <1>5 DEF SweepOK, RevokingAlone
  <2>2. \A v : Spares(v)
    BY <1>9, LiveKept DEF Spares
  <2> QED BY <1>1, <1>5, <1>6, <2>1, <2>2, SweepsStay DEF StoreInv
<1> QED BY <1>9, <1>10, <1>11, <1>12, <1>14, <1>15, <1>16 DEF StoreInv

\* A token issued is the only new one, good, and in the key of its family.
LEMMA Issuing ==
    ASSUME TypeOK, StoreInv, NEW u \in Users, NEW n, n = Len(tokens) + 1, NEW f,
           f = n \/ (f \in Ids /\ tokens[f].family = f /\ tokens[f].user = u), Issued(u, f)
    PROVE  /\ n \in Nat /\ Ids' = Ids \cup {n} /\ n \notin Ids /\ f \in Ids' /\ Ids' = 1..n
           /\ tokens' \in Seq(Token) /\ familyKey' \in [Ids' -> SUBSET Ids']
           /\ \A t \in Ids : tokens'[t] = tokens[t]
           /\ tokens'[n] = [user |-> u, family |-> f, state |-> "unused"]
           /\ TokensKept
           /\ \A g \in Ids : familyKey[g] \subseteq familyKey'[g]
           /\ n \in familyKey'[f]
<1>1. Ids = 1..Len(tokens) /\ Len(tokens) \in Nat /\ tokens \in Seq(Token)
  BY IdsAre, StoreSame
<1> DEFINE e == [user |-> u, family |-> f, state |-> "unused"]
<1>2. f \in Nat /\ f \in 1..n
  BY <1>1
<1>3. e \in Token
  BY <1>2 DEF Token
<1>4. tokens' = Append(tokens, e)
  BY DEF Issued
<1>5. /\ tokens' \in Seq(Token) /\ DOMAIN tokens' = 1..n /\ n \in Nat
      /\ \A t \in Ids : tokens'[t] = tokens[t]
      /\ tokens'[n] = e
  <2> HIDE DEF e
  <2> QED BY <1>1, <1>3, <1>4
<1>6. Ids' = 1..n /\ Ids' = Ids \cup {n} /\ n \notin Ids
  BY <1>1, <1>5 DEF Ids
<1>7. familyKey' = [g \in 1..n |-> (IF g = n THEN {} ELSE familyKey[g]) \cup (IF g = f THEN {n} ELSE {})]
  BY DEF Issued
<1>8. familyKey \in [Ids -> SUBSET Ids]
  BY StoreSame
<1>9. familyKey' \in [Ids' -> SUBSET Ids']
  BY <1>6, <1>7, <1>8
<1>10. (\A g \in Ids : familyKey[g] \subseteq familyKey'[g]) /\ n \in familyKey'[f]
  BY <1>2, <1>6, <1>7, <1>8
<1>11. TokensKept
  BY <1>5, <1>6 DEF TokensKept
<1> QED BY <1>2, <1>5, <1>6, <1>9, <1>10, <1>11

LEMMA IssuedLive ==
    ASSUME TypeOK, StoreInv, NEW u \in Users, NEW n, n = Len(tokens) + 1, NEW f,
           f = n \/ (f \in Ids /\ tokens[f].family = f /\ tokens[f].user = u), Issued(u, f)
    PROVE  /\ Live(f)' \subseteq Live(f) \cup {n}
           /\ \A g : g # f => Live(g)' \subseteq Live(g)
           /\ \A v : v # u => Spares(v)
<1>1. /\ Ids' = Ids \cup {n} /\ n \notin Ids
      /\ \A t \in Ids : tokens'[t] = tokens[t]
      /\ tokens'[n] = [user |-> u, family |-> f, state |-> "unused"]
  BY Issuing
<1>2. \A g : Live(g)' = {t \in Ids' : tokens'[t].family = g /\ tokens'[t].state = "unused"}
  BY DEF Live, Ids
<1>3. \A g : Live(g) = {t \in Ids : tokens[t].family = g /\ tokens[t].state = "unused"}
  BY DEF Live, Ids
<1>4. tokens'[n].family = f /\ tokens'[n].user = u
  BY <1>1
<1>5. Live(f)' \subseteq Live(f) \cup {n} /\ \A g : g # f => Live(g)' \subseteq Live(g)
  BY <1>1, <1>2, <1>3, <1>4
<1>6. ASSUME NEW v, v # u
      PROVE  Spares(v)
  <2>1. ASSUME NEW g \in FamiliesOf(v)'
        PROVE  g \in FamiliesOf(v)
    <3>1. PICK t \in Ids' : tokens'[t].user = v /\ tokens'[t].family = g
      BY <2>1 DEF FamiliesOf, Ids
    <3>2. t \in Ids
      BY <1>1, <1>4, <1>6, <3>1
    <3> QED BY <1>1, <3>1, <3>2 DEF FamiliesOf, Ids
  <2>2. \A g \in FamiliesOf(v) : g # f
    BY <1>1, <1>6, InFamilies DEF StoreInv
  <2> QED BY <1>5, <2>1, <2>2 DEF Spares
<1> QED BY <1>5, <1>6

\* A request about the user u issues a token, and keeps it to itself.
LEMMA IssueStep ==
    ASSUME TypeOK, StoreInv, JoinedOnce, NEW r \in Requests, NEW u \in Users, NEW n, n = Len(tokens) + 1, NEW f,
           f = n \/ (f \in Ids /\ tokens[f].family = f /\ tokens[f].user = u), Issued(u, f),
           req[r] \in Phases, req[r].session = u, req[r].at # "index",
           NEW p \in Phases', req' = [req EXCEPT ![r] = p], p.session = u, p.at \notin {"mark", "rotate"}, PhaseOK(p)',
           UNCHANGED <<orgVars, userFamilies, forked, unlisted>>
    PROVE  /\ TypeOK' /\ JoinedOnce' /\ RequestsKnown' /\ FamiliesKnown' /\ SweepsAll'
           /\ OnlyMoves(r) /\ req'[r] = p /\ Indexes
           /\ \A g : Rotators(g)' \subseteq Rotators(g) \ {r}
<1>1. /\ n \in Nat /\ Ids' = Ids \cup {n} /\ n \notin Ids /\ f \in Ids' /\ Ids' = 1..n
      /\ tokens' \in Seq(Token) /\ familyKey' \in [Ids' -> SUBSET Ids']
      /\ \A t \in Ids : tokens'[t] = tokens[t]
      /\ tokens'[n] = [user |-> u, family |-> f, state |-> "unused"]
      /\ TokensKept
  BY Issuing
<1>2. req'[r] = p /\ OnlyMoves(r)
  BY Goes
<1>3. /\ p.at \in PhaseAt /\ "session" \in DOMAIN p /\ "alone" \notin DOMAIN p
      /\ "session" \in DOMAIN req[r]
  BY PhaseKind DEF Phases, PhaseAt
<1>4. ComesIn(r)
  BY <1>2, <1>3 DEF ComesIn
<1>5. userFamilies' = userFamilies /\ forked' = forked /\ unlisted' = unlisted /\ UNCHANGED orgVars
  OBVIOUS
<1>6. JoinedOnce' /\ MembersKept /\ org' \in {"pending_owner", "active", "disabled"}
      /\ member' \in [Users -> Member \cup {None}] /\ invites' \in Seq(Invite)
  BY <1>5, OrgSame
<1>7. TypeOK'
  <2>1. req' \in [Requests -> AnyRequest']
    BY <1>1, <1>2, RequestsTyped DEF AnyRequest
  <2>2. userFamilies' \in [Users -> SUBSET Ids'] /\ forked' \subseteq Ids' /\ unlisted' \subseteq Ids'
    BY <1>1, <1>5, StoreSame
  <2> QED BY <1>1, <1>6, <2>1, <2>2 DEF TypeOK, AnyRequest
<1>8. RequestsKnown'
  <2>1. ReadOK(req[r])'
    BY <1>2, <1>3 DEF ReadOK, PhaseAt
  <2>2. PhaseOK(req[r])'
    BY <1>2 DEF PhaseOK, FamiliesOf
  <2> QED BY <1>1, <1>2, <1>6, <2>1, <2>2, KnownStays DEF StoreInv
<1>9. FamiliesKnown'
  <2>1. ASSUME NEW t \in Ids'
        PROVE  /\ tokens'[t].family \in 1..t /\ tokens'[tokens'[t].family].family = tokens'[t].family
               /\ tokens'[tokens'[t].family].user = tokens'[t].user
    <3>1. CASE t \in Ids
      <4>1. tokens[t].family \in Ids
        BY <3>1, FamilyIs DEF StoreInv
      <4> QED BY <1>1, <3>1, <4>1 DEF StoreInv, FamiliesKnown
    <3>2. CASE t = n
      <4>1. tokens'[t].family = f /\ tokens'[t].user = u /\ f \in 1..t
        BY <1>1, <3>2
      <4>2. tokens'[f].family = f /\ tokens'[f].user = u
        BY <1>1, <3>2, <4>1
      <4> QED BY <4>1, <4>2
    <3> QED BY <1>1, <3>1, <3>2
  <2>2. \A v \in Users : userFamilies'[v] \subseteq FamiliesOf(v)'
    BY <1>1, <1>5, FamiliesKept, StoreSame
  <2> QED BY <2>1, <2>2 DEF FamiliesKnown
<1>10. SweepsAll'
  <2>1. SweepOK(r, req[r])'
    BY <1>2, <1>3 DEF SweepOK, RevokingAlone
  <2>2. \A v : Spares(v) \/ v = u
    BY IssuedLive
  <2> QED BY <1>2, <1>3, <1>4, <1>5, <2>1, <2>2, SweepsStay DEF StoreInv
<1>11. \A g : Rotators(g)' \subseteq Rotators(g) \ {r}
  <2>1. \A g : r \notin Rotators(g)'
    BY <1>2 DEF Rotators, Rotates
  <2> QED BY <1>1, <1>2, <2>1, OthersRotate DEF StoreInv
<1>12. Indexes
  BY <1>2, IndexesStay
<1> QED BY <1>2, <1>6, <1>7, <1>8, <1>9, <1>10, <1>11, <1>12

\* What was listed still is when a token is issued.
LEMMA ListedOn ==
    ASSUME TypeOK, StoreInv, TokensKept, Indexes, userFamilies' = userFamilies, unlisted' = unlisted,
           NEW g \in Ids \ unlisted, ListedOK(g)
    PROVE  ListedOK(g)'
<1>1. tokens'[g].user = tokens[g].user
  BY DEF TokensKept
<1>2. CASE g \in userFamilies[tokens[g].user]
  BY <1>1, <1>2 DEF ListedOK
<1>3. ASSUME NEW q \in Requests, req[q].at = "index", req[q].token = g
      PROVE  ListedOK(g)'
  <2>1. tokens[g].user = req[q].session
    BY <1>3 DEF StoreInv, RequestsKnown, PhaseOK
  <2> QED BY <1>1, <1>3, <2>1 DEF Indexes, ListedOK
<1> QED BY <1>2, <1>3 DEF ListedOK

LEMMA NewFamilyStep ==
    ASSUME TypeOK, StoreInv, JoinedOnce, NEW r \in Requests, IssueFamily(r)
    PROVE  TypeOK' /\ StoreInv' /\ JoinedOnce' /\ TokensKept
<1>1. PICK n : n = Len(tokens) + 1
  OBVIOUS
<1>2. req[r].at = "issue" /\ req[r] \in Phases /\ req[r].session \in Users
  BY Kinds, PhaseKind DEF IssueFamily, PhaseAt
<1>3. PICK u \in Users : u = req[r].session
  BY <1>2
<1>4. Issued(u, n) /\ GoesTo(r, Phase(u, "index", n)) /\ UNCHANGED <<orgVars, userFamilies, forked, unlisted>>
  BY <1>1, <1>3 DEF IssueFamily
<1>5. /\ n \in Nat /\ Ids' = Ids \cup {n} /\ n \notin Ids
      /\ \A t \in Ids : tokens'[t] = tokens[t]
      /\ tokens'[n] = [user |-> u, family |-> n, state |-> "unused"]
      /\ TokensKept
      /\ \A g \in Ids : familyKey[g] \subseteq familyKey'[g]
      /\ n \in familyKey'[n]
  BY <1>1, <1>4, Issuing
<1> DEFINE p == Phase(u, "index", n)
<1>6. p \in Phases' /\ p.session = u /\ p.at = "index" /\ p.token = n /\ "alone" \notin DOMAIN p
  BY <1>5 DEF Phase, Phases
<1>7. req' = [req EXCEPT ![r] = p]
  BY <1>4 DEF GoesTo
<1> HIDE DEF p
<1>8. PhaseOK(p)'
  BY <1>5, <1>6 DEF PhaseOK
<1>9. /\ TypeOK' /\ JoinedOnce' /\ RequestsKnown' /\ FamiliesKnown' /\ SweepsAll'
      /\ req'[r] = p /\ Indexes
      /\ \A g : Rotators(g)' \subseteq Rotators(g)
  BY <1>1, <1>2, <1>3, <1>4, <1>6, <1>7, <1>8, IssueStep
<1>10. Live(n)' \subseteq Live(n) \cup {n} /\ \A g : g # n => Live(g)' \subseteq Live(g)
  BY <1>1, <1>4, IssuedLive
<1>11. Live(n) = {} /\ Rotators(n) = {}
  <2>1. \A t \in Ids : tokens[t].family # n
    BY <1>5, FamilyIs DEF StoreInv
  <2>2. \A q \in Requests : req[q].at \in {"mark", "rotate"} => req[q].token \in Ids
    BY DEF StoreInv, RequestsKnown, PhaseOK
  <2> QED BY <2>1, <2>2 DEF Live, Ids, Rotators, Rotates
<1>12. RotatesAlone'
  <2>1. SUFFICES ASSUME NEW g \in Ids' \ forked
                 PROVE  /\ \A x, y \in Live(g)' : x = y
                        /\ \A q, s \in Rotators(g)' : q = s
                        /\ \A q \in Rotators(g)' : \A x \in Live(g)' : req'[q].at = "mark" /\ x = req'[q].token
    BY <1>4 DEF RotatesAlone
  <2>2. CASE g = n
    BY <1>9, <1>10, <1>11, <2>2
  <2>3. CASE g # n
    <3>1. /\ \A x, y \in Live(g) : x = y
          /\ \A q, s \in Rotators(g) : q = s
          /\ \A q \in Rotators(g) : \A x \in Live(g) : req[q].at = "mark" /\ x = req[q].token
      BY <1>5, <2>1, <2>3 DEF StoreInv, RotatesAlone
    <3>2. \A q \in Rotators(g)' : req'[q] = req[q]
      <4>1. OnlyMoves(r) /\ \A q \in Rotators(g)' : q # r
        BY <1>6, <1>7, <1>9, Goes DEF Rotators, Rotates
      <4> QED BY <1>5, <4>1, OthersRotate DEF StoreInv
    <3> QED BY <1>9, <1>10, <2>3, <3>1, <3>2
  <2> QED BY <2>2, <2>3
<1>13. FamiliesListed'
  <2>1. SUFFICES ASSUME NEW g \in Ids' \ unlisted
                 PROVE  /\ Live(g)' \subseteq familyKey'[g]
                        /\ tokens'[g].family = g /\ (Live(g)' # {} \/ Rotators(g)' # {}) => ListedOK(g)'
    BY <1>4 DEF FamiliesListed
  <2>2. CASE g = n
    <3>1. req'[r].at = "index" /\ req'[r].token = n
      BY <1>6, <1>9
    <3>2. ListedOK(g)'
      BY <2>2, <3>1 DEF ListedOK
    <3> QED BY <1>5, <1>10, <1>11, <2>2, <3>2
  <2>3. CASE g # n
    <3>1. g \in Ids \ unlisted /\ Live(g)' \subseteq Live(g) /\ Rotators(g)' \subseteq Rotators(g)
          /\ tokens'[g] = tokens[g]
      BY <1>5, <1>9, <1>10, <2>1, <2>3
    <3>2. /\ Live(g) \subseteq familyKey[g]
          /\ tokens[g].family = g /\ (Live(g) # {} \/ Rotators(g) # {}) => ListedOK(g)
      BY <3>1 DEF StoreInv, FamiliesListed
    <3>3. ListedOK(g) => ListedOK(g)'
      BY <1>4, <1>5, <1>9, <3>1, ListedOn
    <3> QED BY <1>5, <3>1, <3>2, <3>3
  <2> QED BY <2>2, <2>3
<1> QED BY <1>5, <1>9, <1>12, <1>13 DEF StoreInv

\* The token issued takes the place of the one that was marked.
LEMMA RotateStep ==
    ASSUME TypeOK, StoreInv, JoinedOnce, NEW r \in Requests, Rotate(r)
    PROVE  TypeOK' /\ StoreInv' /\ JoinedOnce' /\ TokensKept
<1>1. PICK n : n = Len(tokens) + 1
  OBVIOUS
<1>2. PICK u \in Users, t \in Ids : u = req[r].session /\ t = req[r].token /\ tokens[t].user = u
                                    /\ req[r] = Phase(u, "rotate", t) /\ req[r] \in Phases /\ req[r].at = "rotate"
  BY Kinds, PhaseKind DEF Rotate, StoreInv, RequestsKnown, PhaseOK, PhaseAt
<1>3. PICK f \in Ids : f = tokens[t].family /\ tokens[f].family = f /\ tokens[f].user = u
  <2>1. tokens[t].family \in FamiliesOf(u)
    BY <1>2 DEF FamiliesOf, Ids
  <2> QED BY <2>1, InFamilies DEF StoreInv
<1> DEFINE p == Phase(u, "check", t)
<1>4. p = [Phase(u, "rotate", t) EXCEPT !.at = "check"]
  BY DEF Phase
<1>5. Issued(u, f) /\ req' = [req EXCEPT ![r] = p] /\ UNCHANGED <<orgVars, userFamilies, forked, unlisted>>
  BY <1>2, <1>3, <1>4 DEF Rotate, GoesTo
<1>6. /\ n \in Nat /\ Ids' = Ids \cup {n} /\ n \notin Ids
      /\ \A x \in Ids : tokens'[x] = tokens[x]
      /\ tokens'[n] = [user |-> u, family |-> f, state |-> "unused"]
      /\ TokensKept
      /\ \A g \in Ids : familyKey[g] \subseteq familyKey'[g]
      /\ n \in familyKey'[f]
  BY <1>1, <1>3, <1>5, Issuing
<1>7. p \in Phases' /\ p.session = u /\ p.at = "check" /\ p.token = t /\ "alone" \notin DOMAIN p
  BY <1>6 DEF Phase, Phases
<1> HIDE DEF p
<1>8. PhaseOK(p)'
  BY <1>2, <1>6, <1>7 DEF PhaseOK
<1>9. /\ TypeOK' /\ JoinedOnce' /\ RequestsKnown' /\ FamiliesKnown' /\ SweepsAll'
      /\ OnlyMoves(r) /\ req'[r] = p /\ Indexes
      /\ \A g : Rotators(g)' \subseteq Rotators(g) \ {r}
  BY <1>1, <1>2, <1>3, <1>5, <1>7, <1>8, IssueStep
<1>10. Live(f)' \subseteq Live(f) \cup {n} /\ \A g : g # f => Live(g)' \subseteq Live(g)
  BY <1>1, <1>3, <1>5, IssuedLive
<1>11. r \in Rotators(f)
  BY <1>2, <1>3 DEF Rotators, Rotates
<1>12. RotatesAlone'
  <2>1. SUFFICES ASSUME NEW g \in Ids' \ forked
                 PROVE  /\ \A x, y \in Live(g)' : x = y
                        /\ \A q, s \in Rotators(g)' : q = s
                        /\ \A q \in Rotators(g)' : \A x \in Live(g)' : req'[q].at = "mark" /\ x = req'[q].token
    BY <1>5 DEF RotatesAlone
  <2>2. \A q \in Rotators(g)' : req'[q] = req[q]
    BY <1>6, <1>9, OthersRotate DEF StoreInv
  <2>3. CASE g \in Ids
    <3>1. /\ \A x, y \in Live(g) : x = y
          /\ \A q, s \in Rotators(g) : q = s
          /\ \A q \in Rotators(g) : \A x \in Live(g) : req[q].at = "mark" /\ x = req[q].token
      BY <2>1, <2>3 DEF StoreInv, RotatesAlone
    <3>2. CASE g = f
      <4>1. Live(g) = {}
        BY <1>2, <1>11, <3>1, <3>2
      <4>2. Rotators(g)' = {}
        BY <1>9, <1>11, <3>1, <3>2
      <4> QED BY <1>10, <3>2, <4>1, <4>2
    <3>3. CASE g # f
      BY <1>9, <1>10, <2>2, <3>1, <3>3
    <3> QED BY <3>2, <3>3
  <2>4. CASE g = n
    <3>1. Live(g)' = {} /\ Rotators(g)' = {}
      <4>1. \A x \in Ids : tokens[x].family # n
        BY <1>6, FamilyIs DEF StoreInv
      <4>2. \A q \in Requests : req[q].at \in {"mark", "rotate"} => req[q].token \in Ids
        BY DEF StoreInv, RequestsKnown, PhaseOK
      <4>3. Live(n) = {} /\ Rotators(n) = {}
        BY <4>1, <4>2 DEF Live, Ids, Rotators, Rotates
      <4> QED BY <1>6, <1>9, <1>10, <2>4, <4>3
    <3> QED BY <3>1
  <2> QED BY <1>6, <2>1, <2>3, <2>4
<1>13. FamiliesListed'
  <2>1. SUFFICES ASSUME NEW g \in Ids' \ unlisted
                 PROVE  /\ Live(g)' \subseteq familyKey'[g]
                        /\ tokens'[g].family = g /\ (Live(g)' # {} \/ Rotators(g)' # {}) => ListedOK(g)'
    BY <1>5 DEF FamiliesListed
  <2>2. CASE g = n
    <3>1. \A x \in Ids : tokens[x].family # n
      BY <1>6, FamilyIs DEF StoreInv
    <3>2. Live(n) = {} /\ f # n
      BY <1>3, <1>6, <3>1 DEF Live, Ids
    <3> QED BY <1>6, <1>10, <2>2, <3>2
  <2>3. CASE g # n
    <3>1. g \in Ids \ unlisted /\ tokens'[g] = tokens[g] /\ Rotators(g)' \subseteq Rotators(g)
      BY <1>6, <1>9, <2>1, <2>3
    <3>2. /\ Live(g) \subseteq familyKey[g]
          /\ tokens[g].family = g /\ (Live(g) # {} \/ Rotators(g) # {}) => ListedOK(g)
      BY <3>1 DEF StoreInv, FamiliesListed
    <3>3. ListedOK(g) => ListedOK(g)'
      BY <1>5, <1>6, <1>9, <3>1, ListedOn
    <3>4. Live(g)' \subseteq familyKey'[g]
      BY <1>6, <1>10, <3>1, <3>2
    <3> QED BY <1>10, <1>11, <3>1, <3>2, <3>3, <3>4
  <2> QED BY <2>2, <2>3
<1> QED BY <1>6, <1>9, <1>12, <1>13 DEF StoreInv

-----------------------------------------------------------------------------
(* The whole.                                                              *)

LEMMA SessionsStart ==
    ASSUME Init
    PROVE  SessionsInv
<1>1. /\ org = "pending_owner" /\ member = [u \in Users |-> None] /\ invites = <<>>
      /\ req = [r \in Requests |-> Idle] /\ tokens = <<>> /\ familyKey = <<>>
      /\ userFamilies = [u \in Users |-> {}] /\ forked = {} /\ unlisted = {}
  BY DEF Init, InitOrg
<1>2. Ids = {} /\ DOMAIN invites = {}
  BY <1>1 DEF Ids
<1>3. /\ tokens \in Seq(Token) /\ invites \in Seq(Invite) /\ familyKey \in [Ids -> SUBSET Ids]
  BY <1>1, <1>2
<1>4. TypeOK
  BY <1>1, <1>2, <1>3 DEF TypeOK, OrgRequests
<1>5. \A r \in Requests : req[r] = Idle
  BY <1>1
<1>6. RequestsKnown
  BY <1>5 DEF RequestsKnown, ReadOK, PhaseOK, Idle
<1>7. SweepsAll
  BY <1>5 DEF SweepsAll, SweepOK, RevokingAlone, Idle
<1>8. FamiliesKnown /\ RotatesAlone /\ FamiliesListed
  BY <1>1, <1>2 DEF FamiliesKnown, RotatesAlone, FamiliesListed
<1>9. JoinedOnce
  BY <1>2 DEF JoinedOnce, UsedBy
<1> QED BY <1>4, <1>6, <1>7, <1>8, <1>9 DEF SessionsInv, StoreInv

LEMMA InvitationsStep ==
    ASSUME SessionsInv, Invitations
    PROVE  SessionsInv' /\ tokens' = tokens
<1> USE DEF SessionsInv
<1>1. tokens' = tokens
  BY DEF Invitations, Accepted, sessionVars, store
<1>2. ASSUME NEW r \in Requests, NEW u \in Users, InviteOwner(r, u) \/ InviteUser(r, u), UNCHANGED sessionVars
      PROVE  SessionsInv'
  BY <1>2, InviteStep
<1>3. ASSUME NEW r \in Requests, NEW i \in DOMAIN invites, UNCHANGED sessionVars,
             BeginResend(r, i) \/ BeginRevoke(r, i) \/ BeginAccept(r, i)
      PROVE  SessionsInv'
  BY <1>3, OnInviteStep
<1>4. ASSUME NEW r \in Requests, UNCHANGED sessionVars, AddInvite(r) \/ Resend(r) \/ Revoke(r)
      PROVE  SessionsInv'
  BY <1>4, AddStep, ResendStep, RevokeStep
<1>5. ASSUME NEW i \in DOMAIN invites, UNCHANGED sessionVars, ResendOwner(i)
      PROVE  SessionsInv'
  BY <1>5, ResendOwnerStep
<1>6. ASSUME NEW r \in Requests, Accepted(r)
      PROVE  SessionsInv'
  BY <1>6, AcceptedStep
<1> QED BY <1>1, <1>2, <1>3, <1>4, <1>5, <1>6 DEF Invitations

LEMMA MembersChange ==
    ASSUME SessionsInv, Members
    PROVE  SessionsInv' /\ tokens' = tokens
<1> USE DEF SessionsInv
<1>1. tokens' = tokens
  BY DEF Members, Deactivated, sessionVars, store
<1>2. ASSUME UNCHANGED sessionVars, Disable \/ Enable
      PROVE  SessionsInv'
  BY <1>2, StatusStep
<1>3. ASSUME NEW r \in Requests, NEW u \in Users, BeginChange(r, u) \/ BeginDeactivate(r, u), UNCHANGED sessionVars
      PROVE  SessionsInv'
  BY <1>3, OnMemberStep
<1>4. ASSUME NEW r \in Requests, UNCHANGED sessionVars, ChangeRole(r)
      PROVE  SessionsInv'
  BY <1>4, RoleStep
<1>5. ASSUME NEW r \in Requests, Deactivated(r)
      PROVE  SessionsInv'
  BY <1>5, DeactivatedStep
<1> QED BY <1>1, <1>2, <1>3, <1>4, <1>5 DEF Members

LEMMA TokensStep ==
    ASSUME SessionsInv, Tokens
    PROVE  SessionsInv' /\ TokensKept
<1> USE DEF SessionsInv
<1>1. ASSUME NEW r \in Requests, NEW u \in Users, Login(r, u) \/ ResetPassword(r, u)
      PROVE  SessionsInv' /\ TokensKept
  <2>1. tokens' = tokens
    BY <1>1 DEF Login, ResetPassword, sessionVars, store
  <2> QED BY <1>1, <2>1, LoginStep, TokensSame
<1>2. ASSUME NEW r \in Requests, NEW t \in DOMAIN tokens, TakeToken(r, t) \/ Replay(r, t) \/ Logout(r, t)
      PROVE  SessionsInv' /\ TokensKept
  <2>1. tokens' = tokens
    BY <1>2 DEF TakeToken, Replay, Logout, sessionVars, store
  <2>2. t \in Ids
    BY DEF Ids
  <2> QED BY <1>2, <2>1, <2>2, TakeStep, RevokesStep, TokensSame
<1>3. ASSUME NEW r \in Requests, IssueFamily(r) \/ Mark(r) \/ Rotate(r)
      PROVE  SessionsInv' /\ TokensKept
  BY <1>3, NewFamilyStep, MarkStep, RotateStep
<1>4. ASSUME NEW r \in Requests, Index(r) \/ Check(r) \/ ListFamilies(r) \/ ReadMembers(r)
      PROVE  SessionsInv' /\ TokensKept
  <2>1. tokens' = tokens
    BY <1>4 DEF Index, Check, ListFamilies, ReadMembers, sessionVars, store
  <2> QED BY <1>4, <2>1, IndexStep, CheckStep, ListStep, MembersStep, TokensSame
<1>5. ASSUME NEW r \in Requests, DeleteTokens(r)
      PROVE  SessionsInv' /\ TokensKept
  BY <1>5, DeleteStep
<1>6. ASSUME NEW r \in Requests, DeleteFamily(r) \/ ForgetFamilies(r)
      PROVE  SessionsInv' /\ TokensKept
  <2>1. tokens' = tokens
    BY <1>6 DEF DeleteFamily, ForgetFamilies
  <2> QED BY <1>6, <2>1, DeleteFamilyStep, ForgetStep, TokensSame
<1>7. ASSUME NEW t \in DOMAIN tokens, TokenExpires(t)
      PROVE  SessionsInv' /\ TokensKept
  BY <1>7, ExpireStep DEF Ids
<1>8. ASSUME NEW u \in Users, ListExpires(u)
      PROVE  SessionsInv' /\ TokensKept
  <2>1. tokens' = tokens
    BY <1>8 DEF ListExpires
  <2> QED BY <1>8, <2>1, ListExpireStep, TokensSame
<1> QED BY <1>1, <1>2, <1>3, <1>4, <1>5, <1>6, <1>7, <1>8 DEF Tokens

LEMMA SessionsStep ==
    ASSUME SessionsInv, [Next]_vars
    PROVE  SessionsInv' /\ TokensKept
<1>1. CASE Invitations
  BY <1>1, InvitationsStep, TokensSame
<1>2. CASE Members
  BY <1>2, MembersChange, TokensSame
<1>3. CASE Tokens
  BY <1>3, TokensStep
<1>4. ASSUME NEW r \in Requests, Leave(r)
      PROVE  SessionsInv' /\ TokensKept
  <2>1. tokens' = tokens
    BY <1>4 DEF Leave, store
  <2> QED BY <1>4, <2>1, LeaveStep, TokensSame DEF SessionsInv
<1>5. CASE UNCHANGED vars
  <2>1. /\ org' = org /\ member' = member /\ invites' = invites /\ req' = req /\ tokens' = tokens
        /\ familyKey' = familyKey /\ userFamilies' = userFamilies /\ forked' = forked /\ unlisted' = unlisted
    BY <1>5 DEF vars, orgVars, sessionVars, store
  <2>2. PICK r : r \notin Requests
    BY Nobody
  <2>3. OnlyMoves(r)
    BY <2>1 DEF SessionsInv, OnlyMoves, Stays, TypeOK
  <2>4. UNCHANGED orgVars /\ UNCHANGED sessionVars
    BY <2>1 DEF orgVars, sessionVars, store
  <2>5. TypeOK' /\ StoreInv' /\ JoinedOnce'
    BY <2>2, <2>3, <2>4, OrgSame, OrgStep DEF SessionsInv
  <2> QED BY <2>1, <2>5, TokensSame DEF SessionsInv
<1> QED BY <1>1, <1>2, <1>3, <1>4, <1>5 DEF Next

LEMMA SessionsAlways == Spec => []SessionsInv
<1>1. Init => SessionsInv
  BY SessionsStart
<1>2. SessionsInv /\ [Next]_vars => SessionsInv'
  BY SessionsStep
<1> QED BY <1>1, <1>2, PTL DEF Spec

LEMMA AtMostOne ==
    ASSUME NEW S, \A i, j \in S : i = j
    PROVE  Cardinality(S) <= 1
<1>1. CASE S = {}
  <2>1. Cardinality({}) = 0
    BY FS_EmptySet
  <2> QED BY <1>1, <2>1
<1>2. ASSUME NEW i \in S
      PROVE  Cardinality(S) <= 1
  <2>1. S = {i} /\ Cardinality({i}) = 1
    BY <1>2, FS_Singleton
  <2> QED BY <2>1
<1> QED BY <1>1, <1>2

\* Every variable of the sessions has its type, and a request what its phase
\* needs.
THEOREM SessionsTypeCorrect == Spec => []TypeOK
<1>1. SessionsInv => TypeOK
  BY DEF SessionsInv
<1> QED BY <1>1, SessionsAlways, PTL

\* A person joins once (accept_invitation), whatever the invitations and
\* whoever accepts them at once.
THEOREM JoinsOnceHolds == Spec => []JoinsOnce
<1>1. SessionsInv => JoinsOnce
  <2> SUFFICES ASSUME SessionsInv, NEW u \in Users
               PROVE  Cardinality(UsedBy(u)) <= 1 /\ (member[u] = None => UsedBy(u) = {})
    BY DEF JoinsOnce, UsedBy
  <2> QED BY AtMostOne DEF SessionsInv, JoinedOnce
<1> QED BY <1>1, SessionsAlways, PTL

\* A family has one good token, unless two refreshes of it overlapped
\* (RefreshTokenStore.rotate).
THEOREM OneGoodTokenHolds == Spec => []OneGoodToken
<1>1. SessionsInv => OneGoodToken
  BY AtMostOne DEF SessionsInv, StoreInv, RotatesAlone, OneGoodToken, Ids
<1> QED BY <1>1, SessionsAlways, PTL

\* A revocation of all a user's families that no other request about them
\* overlapped leaves no token (revoke_all_for_user).
THEOREM RevocationReachesAllHolds == Spec => []RevocationReachesAll
<1>1. SessionsInv => RevocationReachesAll
  <2> SUFFICES ASSUME SessionsInv, NEW r \in Requests, req[r].at = "forget", req[r].alone,
                      NEW f \in FamiliesOf(req[r].session) \ unlisted
               PROVE  Live(f) = {}
    BY DEF RevocationReachesAll
  <2>1. "alone" \in DOMAIN req[r]
    BY Kinds, SweepKind DEF SessionsInv, SweepAt
  <2>2. req[r].todo = {}
    BY <2>1 DEF SessionsInv, StoreInv, RequestsKnown, PhaseOK
  <2> QED BY <2>1, <2>2 DEF SessionsInv, StoreInv, SweepsAll, SweepOK, RevokingAlone
<1> QED BY <1>1, SessionsAlways, PTL

\* A refresh token once used, revoked or expired is never good again.
THEOREM NoTokenRevivesHolds == Spec => NoTokenRevives
<1>1. SessionsInv /\ [Next]_vars =>
         [\A t \in DOMAIN tokens : tokens[t].state # "unused" => tokens'[t].state # "unused"]_vars
  BY SessionsStep DEF TokensKept, Ids
<1> QED BY <1>1, SessionsAlways, PTL DEF Spec, NoTokenRevives

LEMMA OwnersKept ==
    ASSUME SessionsInv, Next, Owners # {}
    PROVE  Owners' # {}
<1>1. CASE member' = member
  BY <1>1 DEF Owners, Active
<1>2. ASSUME NEW r \in Requests, Accepted(r)
      PROVE  Owners' # {}
  <2>1. PICK o \in Users : Active(o) /\ member[o].role = "owner"
    BY DEF Owners
  <2>2. member' = [member EXCEPT ![invites[req[r].id].to] =
                      [role |-> invites[req[r].id].role, status |-> "active"]]
        /\ member[invites[req[r].id].to] = None
    BY <1>2 DEF Accepted, Accept
  <2>3. member'[o] = member[o]
    BY <2>1, <2>2 DEF Active, SessionsInv, TypeOK
  <2> QED BY <2>1, <2>3 DEF Owners, Active
<1>3. ASSUME NEW r \in Requests, ChangeRole(r) \/ Deactivated(r)
      PROVE  Owners' # {}
  <2>1. req[r] \in OrgRequests /\ req[r].at \in {"role", "deactivate"}
    BY <1>3, Kinds DEF ChangeRole, Deactivated, Deactivate, OrgAt, SessionsInv
  <2>2. PICK u \in Users : u = req[r].user
    BY <2>1 DEF OrgRequests, Idle
  <2>3. member[u] # None /\ (member[u].role = "owner" => req[r].was = "owner")
    BY <2>1, <2>2 DEF SessionsInv, StoreInv, RequestsKnown, ReadOK
  <2>4. \A v \in Users : v # u => member'[v] = member[v]
    BY <1>3, <2>2 DEF ChangeRole, Deactivated, Deactivate, SessionsInv, TypeOK
  <2>5. \E o \in Owners : o # u
    <3>1. CASE req[r].was = "owner"
      <4>1. Cardinality(Owners) > 1
        BY <1>3, <3>1 DEF ChangeRole, Deactivated, Deactivate, AnotherOwner
      <4>2. Owners # {u}
        BY <4>1, FS_Singleton
      <4> QED BY <4>2
    <3>2. CASE req[r].was # "owner"
      BY <2>3, <3>2 DEF Owners
    <3> QED BY <3>1, <3>2
  <2> QED BY <2>4, <2>5 DEF Owners, Active
<1>4. \/ member' = member
      \/ \E r \in Requests : Accepted(r) \/ ChangeRole(r) \/ Deactivated(r)
  <2>1. Invitations => member' = member \/ \E r \in Requests : Accepted(r)
    BY DEF Invitations, InviteOwner, InviteUser, AddInvite, ResendOwner, BeginResend, BeginRevoke, BeginOnInvite,
           Resend, Revoke, BeginAccept, orgVars
  <2>2. Members => member' = member \/ \E r \in Requests : ChangeRole(r) \/ Deactivated(r)
    BY DEF Members, Disable, Enable, BeginChange, BeginDeactivate, BeginOnMember, orgVars
  <2>3. Tokens => UNCHANGED orgVars
    BY DEF Tokens, Login, ResetPassword, TakeToken, Replay, Logout, IssueFamily, Index, Mark, Rotate, Check,
           ListFamilies, ReadMembers, DeleteTokens, DeleteFamily, ForgetFamilies, TokenExpires, ListExpires
  <2>4. (\E r \in Requests : Leave(r)) => UNCHANGED orgVars
    BY DEF Leave
  <2> QED BY <2>1, <2>2, <2>3, <2>4 DEF Next, orgVars
<1> QED BY <1>1, <1>2, <1>3, <1>4

\* RN-A03: the last active owner keeps the role and stays active
\* (count_active_owners_locked), whoever else is losing it.
THEOREM OwnerRemainsHolds == Spec => OwnerRemains
<1>1. SessionsInv /\ [Next]_vars => [Owners # {} => Owners' # {}]_vars
  BY OwnersKept
<1> QED BY <1>1, SessionsAlways, PTL DEF Spec, OwnerRemains

=============================================================================
