------------------------------ MODULE Permissions ------------------------------
(***************************************************************************)
(* What the three roles of an organization may do (roles.permissions): the *)
(* catalogue each is created with (modules/superadmin), how the column is  *)
(* read when a token is issued (modules/auth) and the data migrations that *)
(* bring existing roles up to date with a release, in both directions.     *)
(* Up to release 3 the column was written as JSON inside of JSON, so it    *)
(* may be a string, an array, or an array with such a string in it.  Order *)
(* and repetition are left out, as is organizations.settings.              *)
(***************************************************************************)
EXTENDS Endpoints, Naturals

CONSTANTS Orgs,          \* organizations
          MaxDowngrades, \* bound: how many revisions may be taken back
          NotCreated     \* no roles yet

VARIABLES release,    \* the release of the code that runs: how many of those below
          revision,   \* alembic_version: how many of the data migrations are applied
          permissions, \* roles.permissions, by organization and role
          downgrades

permissionVars == <<release, revision, permissions, downgrades>>

RoleNames == {"owner", "admin", "maintenance"}

ALL_PERMISSIONS ==
    {"landlord:read", "landlord:manage", "landlord:set-commission", "renter:read",
     "renter:manage", "property:read", "property:manage", "contract:read",
     "contract:manage", "contract:terminate", "contract:delete", "adjustment:apply",
     "rent-period:read", "payment:create", "payment:void", "charge:manage",
     "settlement:read", "settlement:generate", "settlement:issue", "work-order:read",
     "work-order:create", "work-order:quote", "work-order:approve", "work-order:close",
     "work-order:cancel", "attachment:manage", "user:manage", "role:read",
     "organization:configure", "audit:read", "notification:read"}

ADMIN_PERMISSIONS ==
    ALL_PERMISSIONS \ {"user:manage", "role:read", "organization:configure",
                       "landlord:set-commission", "contract:terminate", "contract:delete"}

MAINTENANCE_PERMISSIONS ==
    {"work-order:read", "work-order:quote", "work-order:close", "attachment:manage",
     "notification:read"}

ROLE_DEFINITIONS ==
    [owner |-> ALL_PERMISSIONS, admin |-> ADMIN_PERMISSIONS,
     maintenance |-> MAINTENANCE_PERMISSIONS]

\* The permissions a release brings, and its revision adds to owners.
Brings == <<{"landlord:set-commission"}, {"contract:terminate"}, {}, {"contract:delete"}>>

Latest == 4

Catalogue(role, r) ==
    ROLE_DEFINITIONS[role] \ UNION {Brings[later] : later \in (r + 1)..Latest}

\* A column: the plain elements, and for each element that is a string of
\* JSON the permissions in it; or one such string and no array.
Column == [array: BOOLEAN, plain: SUBSET ALL_PERMISSIONS, nested: SUBSET SUBSET ALL_PERMISSIONS]

ASSUME PermissionsConstants ==
    MaxDowngrades \in Nat /\ NotCreated \notin [RoleNames -> Column]

Plain(names) == [array |-> TRUE, plain |-> names, nested |-> {}]

\* json.dumps handed to a parameter that is dumped again.
DumpedTwice(names) == [array |-> FALSE, plain |-> {}, nested |-> {names}]

\* jsonb_typeof(c) = 'array', and c @> '["p"]'.
Holds(c, p) == c.array /\ p \in c.plain

\* MUTANT: the array is written anew.
Overwrite(c, p) == Plain({p})

\* c || '["p"]': a string becomes the first element of an array.
Concatenate(c, p) == [c EXCEPT !.array = TRUE, !.plain = @ \cup {p}]

Without(c, p) == [c EXCEPT !.plain = @ \ {p}]

Granted(c, p) == IF Holds(c, p) THEN c ELSE Concatenate(c, p)

Revoked(c, p) == IF Holds(c, p) THEN Without(c, p) ELSE c

ParsePermissions(c) == c.plain \cup UNION c.nested

\* MUTANT: only what is nested is kept, as if every column held it so.
KeepNested(c) == Plain(UNION c.nested)

\* Both are flattened by the migration too, once and for all.
Normalize(c) == Plain(ParsePermissions(c))

Created == {o \in Orgs : permissions[o] # NotCreated}

Owner(o) == permissions[o].owner

\* UPDATE roles SET permissions = columns WHERE name = 'owner'.
UpdateOwners(columns) ==
    permissions' = [o \in Orgs |->
        IF o \in Created THEN [permissions[o] EXCEPT !.owner = columns[o]] ELSE NotCreated]

PermissionsInit ==
    /\ release = 0
    /\ revision = 0
    /\ permissions = [o \in Orgs |-> NotCreated]
    /\ downgrades = 0

Deploy ==
    /\ release < Latest
    /\ release' = release + 1
    /\ UNCHANGED <<revision, permissions, downgrades>>

\* Release 3 stopped dumping twice.
CreateOrganization(o) ==
    /\ permissions[o] = NotCreated
    /\ permissions' = [permissions EXCEPT ![o] =
         [role \in RoleNames |->
            IF release < 3 THEN DumpedTwice(Catalogue(role, release))
                           ELSE Plain(Catalogue(role, release))]]
    /\ UNCHANGED <<release, revision, downgrades>>

-----------------------------------------------------------------------------
(* The revisions.  A release is deployed, then its revision is applied.    *)

Upgrades(to) ==
    /\ revision = to - 1
    /\ release >= to
    /\ revision' = to
    /\ UNCHANGED <<release, downgrades>>

Downgrade(from) ==
    /\ revision = from
    /\ downgrades < MaxDowngrades
    /\ revision' = from - 1
    /\ downgrades' = downgrades + 1
    /\ UNCHANGED release

\* Nothing asks whether the column is an array.
AddSetCommission ==
    Upgrades(1) /\ UpdateOwners([o \in Created |-> Granted(Owner(o), "landlord:set-commission")])

RemoveSetCommission ==
    Downgrade(1) /\ UpdateOwners([o \in Created |-> Revoked(Owner(o), "landlord:set-commission")])

AddTerminate ==
    Upgrades(2) /\ UpdateOwners([o \in Created |-> Granted(Owner(o), "contract:terminate")])

RemoveTerminate ==
    Downgrade(2) /\ UpdateOwners([o \in Created |-> Revoked(Owner(o), "contract:terminate")])

NormalizeColumns ==
    /\ Upgrades(3)
    /\ permissions' = [o \in Orgs |->
         IF o \in Created THEN [role \in RoleNames |-> Normalize(permissions[o][role])]
                          ELSE NotCreated]

KeepNormalized == Downgrade(3) /\ UNCHANGED permissions

\* Only arrays are added to.
AddDelete ==
    /\ Upgrades(4)
    /\ UpdateOwners([o \in Created |->
         IF Owner(o).array THEN Granted(Owner(o), "contract:delete") ELSE Owner(o)])

RemoveDelete ==
    Downgrade(4) /\ UpdateOwners([o \in Created |-> Revoked(Owner(o), "contract:delete")])

PermissionsNext ==
    \/ Deploy
    \/ \E o \in Orgs : CreateOrganization(o)
    \/ AddSetCommission \/ AddTerminate \/ NormalizeColumns \/ AddDelete
    \/ RemoveSetCommission \/ RemoveTerminate \/ KeepNormalized \/ RemoveDelete

PermissionsSpec == PermissionsInit /\ [][PermissionsNext]_permissionVars

-----------------------------------------------------------------------------
PermissionsTypeOK ==
    /\ release \in 0..Latest
    /\ revision \in 0..release
    /\ permissions \in [Orgs -> [RoleNames -> Column] \cup {NotCreated}]
    /\ downgrades \in 0..MaxDowngrades

\* With the release in src/ running and its revisions applied, every role
\* reads as the catalogue has it: what MatrixHolds needs of the columns.
RolesHold ==
    release = Latest /\ revision = Latest =>
        \A o \in Created : \A role \in RoleNames :
            ParsePermissions(permissions[o][role]) = ROLE_DEFINITIONS[role]

May(o, role) == Callable(ParsePermissions(permissions[o][role]))

\* What only owners may call, and what the maintenance role may.
OwnerEndpoints ==
    DOMAIN UserEndpoints \cup DOMAIN FieldPermissions
        \cup {"list_roles", "get_organization_settings", "update_organization_settings",
              "terminate_contract", "delete_contract"}

MaintenanceEndpoints ==
    DOMAIN NotificationEndpoints
        \cup {"list_work_orders", "get_work_order", "close_work_order", "add_quote",
              "upload_work_order_attachment", "upload_quote_attachment", "download_attachment"}

\* The summary of authorizations (docs/sdd/core/sdd_03_api_contracts.md), by
\* endpoint: whenever the release in src/ runs with its revisions applied,
\* it is what the roles of every organization can call, whichever release
\* created it and whatever was taken back and applied again in between.
MatrixHolds ==
    release = Latest /\ revision = Latest =>
        \A o \in Created :
            /\ May(o, "owner") = TenantEndpoints
            /\ May(o, "admin") = TenantEndpoints \ OwnerEndpoints
            /\ May(o, "maintenance") = MaintenanceEndpoints

\* Unless a revision is taken back, no role ever loses a permission, in
\* whatever shape the column is when a revision edits it.
UpgradesKeepAccess ==
    [][revision' >= revision =>
         \A o \in Created : \A role \in RoleNames :
            ParsePermissions(permissions[o][role]) \subseteq
                ParsePermissions(permissions'[o][role])]_permissionVars

=============================================================================
