------------------------------- MODULE Registry -------------------------------
(***************************************************************************)
(* What an organization keeps a register of: landlords and renters         *)
(* (modules/people), properties, their service accounts and neighborhoods  *)
(* (modules/properties), recurring charges and their monthly entries       *)
(* (modules/charges), and the audit of three columns that decide who is    *)
(* paid how much.  A request reads and decides, selects again the row it   *)
(* is to change, and flushes and commits; reads lock nothing.  Rows are    *)
(* soft-deleted.  Columns that no handler reads are left out, and so is    *)
(* properties.status (ContractLifecycle).                                  *)
(***************************************************************************)
EXTENDS Naturals, FiniteSets, SequencesExt

CONSTANTS Landlords, Renters, Neighborhoods, Properties, Accounts, Charges, Periods,
          CurrentPeriod,            \* today's month
          Names, Percents, Amounts, \* values of neighborhoods.name, commission_pct, amount
          Clerks,     \* places for requests in progress
          Scopes,     \* bound: the sets of rows that a behaviour may create
          MaxAudited  \* bound: audited changes, those in progress included

Entries == Charges \X Periods

RowIds == Landlords \cup Renters \cup Neighborhoods \cup Properties \cup Accounts \cup Charges
         \cup Entries

\* The ids of one table are not those of another.
ASSUME RegistryConstants ==
    /\ Scopes \subseteq SUBSET RowIds /\ MaxAudited \in Nat
    /\ Periods \subseteq Nat /\ CurrentPeriod \in Nat
    /\ LET tables == <<Landlords, Renters, Neighborhoods, Properties, Accounts, Charges, Entries>>
       IN  \A i, j \in 1..7 : i # j => tables[i] \cap tables[j] = {}

VARIABLES scope,    \* the rows that may be created
          overlaps, \* whether a request may begin while another is in progress
          row,      \* the tables: a row by its id
          rented,   \* the property and renter of every active contract
          trail,    \* audit_logs of the audited columns, by row, as they are shown
          clerk     \* what each request has read and is about to write

registryVars == <<scope, overlaps, row, rented, trail, clerk>>

Absent == [is |-> "absent"]
Waiting == [do |-> "nothing"]

Present(id) == row[id].is = "live"

\* One audited column in a table: what it decides is in Settlements.
Audited == {"commission_pct", "landlord", "amount"}

RegistryInit ==
    /\ scope \in Scopes
    /\ overlaps \in BOOLEAN
    /\ row = [id \in scope |-> Absent]
    /\ rented = {}
    /\ trail = [id \in scope |-> <<>>]
    /\ clerk = [r \in Clerks |-> Waiting]

Known(table) == table \cap scope

Busy == {r \in Clerks : clerk[r] # Waiting}

Begins(r, request) ==
    /\ clerk[r] = Waiting
    /\ overlaps \/ Busy = {}
    /\ clerk' = [clerk EXCEPT ![r] = request]
    /\ UNCHANGED <<scope, overlaps, row, rented, trail>>

Proceeds(r, request) ==
    /\ clerk' = [clerk EXCEPT ![r] = request]
    /\ UNCHANGED <<scope, overlaps, rented>>

\* repo.create after the service's checks: an id is taken once, a charge and
\* a month are not an id of the program's choice.
Insert(r, id, new) ==
    /\ row[id] = Absent
    /\ id \notin {clerk[q].id : q \in Busy} \ Entries
    /\ Begins(r, [do |-> "insert", id |-> id, set |-> new])

\* audit(), in the same transaction: of what differs from what was read.
Changes(was, set) == {column \in Audited \cap DOMAIN set : set[column] # was[column]}

AuditLogs == UNION {{id} \X DOMAIN trail[id] : id \in scope}

Auditing == {r \in Busy : clerk[r].do # "insert" /\ Changes(clerk[r].was, clerk[r].set) # {}}

\* now(), which dates an audit, is when the transaction began: of the row's
\* audits so many were committed.  That is before anything was read.
Began(id, changes) ==
    IF changes = {} THEN {0} ELSE IF overlaps THEN 0..Len(trail[id]) ELSE {Len(trail[id])}

\* get_by_id, the checks and then repo.update.
Update(r, id, columns) ==
    LET changes == Changes(row[id], columns) IN
    /\ Present(id)
    /\ changes # {} => Cardinality(Auditing) + Cardinality(AuditLogs) < MaxAudited
    /\ \E began \in Began(id, changes) :
         Begins(r, [do |-> "select", id |-> id, was |-> row[id], set |-> columns, began |-> began])

Delete(r, id) == Update(r, id, [is |-> "deleted"])

-----------------------------------------------------------------------------
(* modules/people.                                                         *)

CreateLandlord(r, l, pct) == Insert(r, l, [is |-> "live", commission_pct |-> pct])

\* The percentage is read by itself, not as part of the row.
UpdateLandlord(r, l, pct) == Update(r, l, [commission_pct |-> pct])

\* A stub since contracts came.
HasActiveDependencies(l) == FALSE

DeleteLandlord(r, l) == ~HasActiveDependencies(l) /\ Delete(r, l)

CreateRenter(r, rt) == Insert(r, rt, [is |-> "live"])

\* list_active_contract_refs, of a renter or of a property.
HasActiveContract(id) == \E contract \in rented : id \in {contract.property, contract.renter}

DeleteRenter(r, rt) == ~HasActiveContract(rt) /\ Delete(r, rt)

-----------------------------------------------------------------------------
(* modules/properties.                                                     *)

CreateProperty(r, p, l, n) ==
    /\ Present(l) /\ Present(n)
    /\ Insert(r, p, [is |-> "live", landlord |-> l, neighborhood |-> n])

\* What is given is looked up, and what is not is not written.
UpdateProperty(r, p, l, n) ==
    \/ Present(l) /\ Update(r, p, [landlord |-> l])
    \/ Present(n) /\ Update(r, p, [neighborhood |-> n])
    \/ Present(l) /\ Present(n) /\ Update(r, p, [landlord |-> l, neighborhood |-> n])

DeleteProperty(r, p) == ~HasActiveContract(p) /\ Delete(r, p)

CreateServiceAccount(r, a, p) == Present(p) /\ Insert(r, a, [is |-> "live", property |-> p])

DeleteServiceAccount(r, a) == Delete(r, a)

\* name_exists, but for n itself.
NameExists(name, n) == \E m \in Known(Neighborhoods) \ {n} : Present(m) /\ row[m].name = name

CreateNeighborhood(r, n, name) == ~NameExists(name, n) /\ Insert(r, n, [is |-> "live", name |-> name])

UpdateNeighborhood(r, n, name) == ~NameExists(name, n) /\ Update(r, n, [name |-> name])

\* MUTANT: only a property with a contract holds its neighborhood.
HasRentedProperties(n) == \E p \in Known(Properties) :
    Present(p) /\ row[p].neighborhood = n /\ HasActiveContract(p)

HasProperties(n) == \E p \in Known(Properties) : Present(p) /\ row[p].neighborhood = n

DeleteNeighborhood(r, n) == ~HasProperties(n) /\ Delete(r, n)

-----------------------------------------------------------------------------
(* modules/charges.                                                        *)

CreateRecurringCharge(r, c, p) ==
    Present(p) /\ Insert(r, c, [is |-> "live", is_active |-> TRUE, property |-> p])

UpdateRecurringCharge(r, c, active) == Update(r, c, [is_active |-> active])

\* Of an inactive charge too, and of a charge of a deleted property.
CreateEntry(r, c, period, amount) ==
    /\ Present(c) /\ period <= CurrentPeriod
    /\ Insert(r, <<c, period>>, [is |-> "live", amount |-> amount])

\* What does not differ from what was read is not a correction.
CorrectEntry(r, entry, amount) ==
    /\ Present(entry) /\ row[entry].amount # amount
    /\ Update(r, entry, [amount |-> amount])

-----------------------------------------------------------------------------
(* The repositories.                                                       *)

\* MUTANT: the columns are those found now.
LoadedAnew(r) == row[clerk[r].id]

\* A second select of a row finds the object that the session has, with the
\* columns it had when it was first read; of a landlord, the percentage
\* read before was no object.
Loaded(r) == IF clerk[r].id \in Landlords THEN row[clerk[r].id] ELSE clerk[r].was

SelectAgain(r) ==
    /\ clerk[r].do = "select"
    /\ LET request == clerk[r]
       IN  Proceeds(r, IF Present(request.id)
                       THEN [do |-> "flush", id |-> request.id, was |-> request.was,
                             set |-> request.set, began |-> request.began, loaded |-> Loaded(r)]
                       ELSE Waiting)
    /\ UNCHANGED <<row, trail>>

\* MUTANT: every column is written.
WrittenWhole(now, request) ==
    [column \in DOMAIN now |-> IF column \in DOMAIN request.set THEN request.set[column]
                                                            ELSE request.loaded[column]]

\* UPDATE by id: the columns that differ from the object's.
Written(now, request) ==
    [column \in DOMAIN now |->
        IF column \in DOMAIN request.set /\ request.set[column] # request.loaded[column]
        THEN request.set[column] ELSE now[column]]

\* MUTANT: the names are only looked up.
Unindexed(id, new) == TRUE

\* uq_neighborhoods_org_name: among the rows that are not deleted.
Indexed(id, new) ==
    id \in Neighborhoods /\ new.is = "live" =>
        \A m \in Known(Neighborhoods) \ {id} : Present(m) => row[m].name # new.name

\* ORDER BY created_at, id, the oldest first: after the audits of the transactions that began
\* before this one, and of two that began between the same audits any order.
Places(id, entry) ==
    {i \in entry.began..Len(trail[id]) :
        /\ \A j \in 1..i : trail[id][j].began <= entry.began
        /\ \A j \in i + 1..Len(trail[id]) : trail[id][j].began >= entry.began}

Flush(r) ==
    LET request == clerk[r]
        id == request.id
        new == Written(row[id], request)
        entries == {[before |-> request.was[column], after |-> request.set[column],
                     began |-> request.began] : column \in Changes(request.was, request.set)} IN
    /\ request.do = "flush"
    /\ \/ ~Indexed(id, new) /\ UNCHANGED <<row, trail>>
       \/ /\ Indexed(id, new) /\ row' = [row EXCEPT ![id] = new]
          /\ IF entries = {} THEN UNCHANGED trail
             ELSE \E entry \in entries : \E i \in Places(id, entry) :
                    trail' = [trail EXCEPT ![id] = InsertAt(@, i + 1, entry)]
    /\ Proceeds(r, Waiting)

\* INSERT, or the refusal of a unique index.
FlushInsert(r) ==
    LET request == clerk[r]
        id == request.id IN
    /\ request.do = "insert"
    /\ row' = IF row[id] = Absent /\ Indexed(id, request.set)
              THEN [row EXCEPT ![id] = request.set] ELSE row
    /\ Proceeds(r, Waiting)
    /\ UNCHANGED trail

\* The process is lost, or PostgreSQL refuses: the transaction is rolled back.
RollBack(r) ==
    /\ r \in Busy
    /\ Proceeds(r, Waiting)
    /\ UNCHANGED <<row, trail>>

-----------------------------------------------------------------------------
(* modules/contracts: to create one its property and its renter are        *)
(* looked up, to activate it they are not.                                 *)

ContractBegins(p, rt) ==
    /\ row[p] # Absent /\ row[rt] # Absent
    /\ \A contract \in rented : contract.property # p
    /\ rented' = rented \cup {[property |-> p, renter |-> rt]}
    /\ UNCHANGED <<scope, overlaps, row, trail, clerk>>

ContractEnds(contract) ==
    /\ rented' = rented \ {contract}
    /\ UNCHANGED <<scope, overlaps, row, trail, clerk>>

People(r) ==
    \/ \E l \in Known(Landlords) :
         \/ \E pct \in Percents : CreateLandlord(r, l, pct) \/ UpdateLandlord(r, l, pct)
         \/ DeleteLandlord(r, l)
    \/ \E rt \in Known(Renters) : CreateRenter(r, rt) \/ DeleteRenter(r, rt)

Estate(r) ==
    \/ \E p \in Known(Properties) :
         \/ \E l \in Known(Landlords), n \in Known(Neighborhoods) :
              CreateProperty(r, p, l, n) \/ UpdateProperty(r, p, l, n)
         \/ \E a \in Known(Accounts) : CreateServiceAccount(r, a, p)
         \/ DeleteProperty(r, p)
    \/ \E a \in Known(Accounts) : DeleteServiceAccount(r, a)
    \/ \E n \in Known(Neighborhoods) :
         \/ \E name \in Names : CreateNeighborhood(r, n, name) \/ UpdateNeighborhood(r, n, name)
         \/ DeleteNeighborhood(r, n)

Bills(r) ==
    \/ \E c \in Known(Charges) :
         \/ \E p \in Known(Properties) : CreateRecurringCharge(r, c, p)
         \/ \E active \in BOOLEAN : UpdateRecurringCharge(r, c, active)
    \/ \E e \in Known(Entries), amount \in Amounts :
         CreateEntry(r, e[1], e[2], amount) \/ CorrectEntry(r, e, amount)

RegistryNext ==
    \/ \E r \in Clerks :
         People(r) \/ Estate(r) \/ Bills(r) \/ SelectAgain(r) \/ Flush(r) \/ FlushInsert(r)
           \/ RollBack(r)
    \/ \E p \in Known(Properties), rt \in Known(Renters) : ContractBegins(p, rt)
    \/ \E contract \in rented : ContractEnds(contract)

RegistrySpec == RegistryInit /\ [][RegistryNext]_registryVars

-----------------------------------------------------------------------------
\* CA-01-07: no two neighborhoods have one name, although the name is looked
\* up before either is written.
UniqueNames ==
    \A n, m \in Known(Neighborhoods) : Present(n) /\ Present(m) /\ row[n].name = row[m].name => n = m

\* While requests do not overlap, a property's neighborhood is not deleted.
NeighborhoodStays ==
    ~overlaps => \A p \in Known(Properties) : Present(p) => Present(row[p].neighborhood)

AuditedColumn(id) ==
    CASE id \in Landlords -> "commission_pct"
      [] id \in Properties -> "landlord"
      [] id \in Entries -> "amount"

\* Each audited change of a row began after those shown before it were committed.
OneAfterAnother(t) == \A i \in 1..Len(t) : t[i].began = i - 1

\* RN-D04: the audit of a landlord's percentage, a property's landlord and
\* the amount of an entry tells what the column is, also where changes of it
\* overlap and the trail, dated by when each began, is not in the order in
\* which they were written: one of its entries ends in the value; the last
\* does if it began after the others were committed; and each starts from
\* the one before it if all did.  But for landlords: the comparison that
\* decides to audit is not of the object that is flushed, so that of them it
\* is only so while no request overlaps another.
TrailEndsInCurrent ==
    \A id \in scope :
        LET t == trail[id]
            current == row[id][AuditedColumn(id)] IN
        t # <<>> /\ ~(overlaps /\ id \in Landlords) =>
          /\ \E i \in 1..Len(t) : t[i].after = current
          /\ ~overlaps \/ t[Len(t)].began = Len(t) - 1 => t[Len(t)].after = current
          /\ ~overlaps \/ OneAfterAnother(t) => \A i \in 1..Len(t) - 1 : t[i].after = t[i + 1].before

\* RN-D02: nothing brings a deleted row back, a request that read it before
\* and flushes it after it was deleted included.
DeletedStaysDeleted ==
    [][\A id \in scope : row[id].is = "deleted" => row'[id].is = "deleted"]_registryVars

\* CA-02-06, a landlord with properties is not deleted: refuted by the stub,
\* with no overlap.
LandlordStays ==
    ~overlaps => \A p \in Known(Properties) : Present(p) => Present(row[p].landlord)

=============================================================================
