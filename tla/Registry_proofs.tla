---------------------------- MODULE Registry_proofs ----------------------------
(***************************************************************************)
(* What Registry guarantees for any rows, any values and any number of     *)
(* requests in progress: the names of neighborhoods are unique and deleted *)
(* rows stay deleted whatever overlaps; a property's neighborhood stays,   *)
(* and the audit trails are chains, while requests do not overlap; and     *)
(* even if they do, but for landlords, one entry of a trail ends in what   *)
(* its column is, the last one if it began after the others were there.    *)
(* RegistryInv is the one induction: what each request in progress has     *)
(* read and is about to write (Promised), what more holds of it if it is   *)
(* alone (Alone), and that a trail is never longer when an entry of it     *)
(* began than where it is shown (TrailOK).                                 *)
(***************************************************************************)
EXTENDS Registry, SequenceTheorems, TLAPS

\* The values of the audited columns, the tables that have one, and what is
\* kept of a change.
Values == Landlords \cup Percents \cup Amounts
HasAudit(id) == id \in Landlords \cup Properties \cup Entries
AuditEntry == [before : Values, after : Values, began : Nat]

\* A row that was once inserted in the table of an id.
RowOK(id, r) ==
    /\ "is" \in DOMAIN r /\ r.is \in {"live", "deleted"}
    /\ HasAudit(id) => AuditedColumn(id) \in DOMAIN r /\ r[AuditedColumn(id)] \in Values
    /\ id \in Properties => "neighborhood" \in DOMAIN r /\ r.neighborhood \in Known(Neighborhoods)

\* What an update writes: of the audited columns that of its table, and no
\* status but that of a deleted row.
ColumnsOK(id, set) ==
    /\ "is" \in DOMAIN set => set.is = "deleted"
    /\ \A column \in Audited \cap DOMAIN set :
          HasAudit(id) /\ column = AuditedColumn(id) /\ set[column] \in Values
    /\ id \in Properties /\ "neighborhood" \in DOMAIN set => set.neighborhood \in Known(Neighborhoods)

\* A request that inserts, and one that updates a row that is, or was, there:
\* what it read is there still if nothing was audited since it began.
InsertOK(q) == q.do = "insert" /\ q.id \in scope /\ RowOK(q.id, q.set) /\ q.set.is = "live"

UpdateOK(q) ==
    /\ q.do \in {"select", "flush"} /\ q.id \in scope /\ row[q.id] # Absent
    /\ ColumnsOK(q.id, q.set) /\ RowOK(q.id, q.was)
    /\ q.do = "flush" => RowOK(q.id, q.loaded) /\ (q.id \notin Landlords => q.loaded = q.was)
    /\ q.began \in Nat /\ q.began <= Len(trail[q.id])
    /\ HasAudit(q.id) /\ q.id \notin Landlords /\ q.began = Len(trail[q.id]) =>
         q.was[AuditedColumn(q.id)] = row[q.id][AuditedColumn(q.id)]

Promised(q) == q = Waiting \/ InsertOK(q) \/ UpdateOK(q)

RegistryTypeOK ==
    /\ scope \in Scopes /\ overlaps \in BOOLEAN
    /\ row = [id \in scope |-> row[id]]
    /\ \A id \in scope : row[id] = Absent \/ RowOK(id, row[id])
    /\ trail \in [scope -> Seq(AuditEntry)]
    /\ clerk = [r \in Clerks |-> clerk[r]]
    /\ \A r \in Clerks : Promised(clerk[r])

NoTrailYet == \A id \in scope : row[id] = Absent \/ ~HasAudit(id) => trail[id] = <<>>

\* What a request that is alone read is still so.
AloneOK(q) ==
    /\ q.do = "insert" /\ q.id \in Properties => Present(q.set.neighborhood)
    /\ q.do # "insert" =>
         /\ q.was = row[q.id] /\ (q.do = "flush" => q.loaded = row[q.id])
         /\ Changes(q.was, q.set) # {} => q.began = Len(trail[q.id])
         /\ q.id \in Properties /\ "neighborhood" \in DOMAIN q.set => Present(q.set.neighborhood)
         /\ q.id \in Neighborhoods /\ "is" \in DOMAIN q.set => ~HasProperties(q.id)

Alone == ~overlaps => /\ \A r, s \in Busy : r = s
                      /\ \A r \in Busy : AloneOK(clerk[r])

\* What a trail t says of a column that is current.
Tells(t, current) ==
    /\ \E i \in 1..Len(t) : t[i].after = current
    /\ ~overlaps \/ t[Len(t)].began = Len(t) - 1 => t[Len(t)].after = current
    /\ ~overlaps \/ OneAfterAnother(t) => \A i \in 1..Len(t) - 1 : t[i].after = t[i + 1].before

TrailOK(id, t, current) ==
    /\ \A i \in 1..Len(t) : t[i].began <= i - 1
    /\ ~overlaps => OneAfterAnother(t)
    /\ t # <<>> /\ ~(overlaps /\ id \in Landlords) => Tells(t, current)

Trails == \A id \in scope : TrailOK(id, trail[id], row[id][AuditedColumn(id)])

RegistryInv ==
    /\ RegistryTypeOK /\ NoTrailYet /\ Alone
    /\ UniqueNames /\ NeighborhoodStays /\ Trails

-----------------------------------------------------------------------------
(* Tables, their ids and their audited columns.                            *)

LEMMA TablesApart ==
    /\ \A id \in Landlords : id \notin Properties \cup Entries \cup Neighborhoods
    /\ \A id \in Properties : id \notin Landlords \cup Entries \cup Neighborhoods
    /\ \A id \in Entries : id \notin Landlords \cup Properties \cup Neighborhoods
    /\ \A id \in Renters \cup Accounts \cup Charges : ~HasAudit(id) /\ id \notin Neighborhoods
    /\ \A id \in Neighborhoods : ~HasAudit(id)
<1> DEFINE tables == <<Landlords, Renters, Neighborhoods, Properties, Accounts, Charges, Entries>>
<1>1. \A i, j \in 1..7 : i # j => tables[i] \cap tables[j] = {}
  BY RegistryConstants
<1>2. /\ tables[1] = Landlords /\ tables[2] = Renters /\ tables[3] = Neighborhoods
      /\ tables[4] = Properties /\ tables[5] = Accounts /\ tables[6] = Charges
      /\ tables[7] = Entries
  OBVIOUS
<1> HIDE DEF tables
<1>3. /\ tables[1] \cap tables[3] = {} /\ tables[1] \cap tables[4] = {} /\ tables[1] \cap tables[7] = {}
      /\ tables[3] \cap tables[4] = {} /\ tables[3] \cap tables[7] = {} /\ tables[4] \cap tables[7] = {}
  BY <1>1
<1>4. \A j \in {1, 3, 4, 7} : /\ tables[2] \cap tables[j] = {} /\ tables[5] \cap tables[j] = {}
                              /\ tables[6] \cap tables[j] = {}
  BY <1>1
<1>5. /\ Landlords \cap Neighborhoods = {} /\ Landlords \cap Properties = {} /\ Landlords \cap Entries = {}
      /\ Neighborhoods \cap Properties = {} /\ Neighborhoods \cap Entries = {} /\ Properties \cap Entries = {}
  BY <1>2, <1>3
<1>6. \A T \in {Renters, Accounts, Charges} :
        /\ T \cap Landlords = {} /\ T \cap Neighborhoods = {} /\ T \cap Properties = {} /\ T \cap Entries = {}
  BY <1>2, <1>4
<1> QED BY <1>5, <1>6 DEF HasAudit

LEMMA AuditedColumns ==
    /\ \A id \in Landlords : HasAudit(id) /\ AuditedColumn(id) = "commission_pct"
    /\ \A id \in Properties : HasAudit(id) /\ AuditedColumn(id) = "landlord"
    /\ \A id \in Entries : HasAudit(id) /\ AuditedColumn(id) = "amount"
    /\ \A id : HasAudit(id) => AuditedColumn(id) \in Audited
<1>1. /\ \A id \in Landlords : HasAudit(id) /\ AuditedColumn(id) = "commission_pct"
      /\ \A id \in Properties : HasAudit(id) /\ AuditedColumn(id) = "landlord"
      /\ \A id \in Entries : HasAudit(id) /\ AuditedColumn(id) = "amount"
  BY TablesApart DEF HasAudit, AuditedColumn
<1> QED BY <1>1 DEF HasAudit, Audited

\* A row is not an absent one, and stays a row of its table when it is written.
LEMMA RowIsThere == ASSUME NEW id, NEW r, RowOK(id, r) PROVE r # Absent
BY DEF RowOK, Absent

LEMMA WrittenRow ==
    ASSUME NEW id, NEW now, RowOK(id, now), NEW q, ColumnsOK(id, q.set)
    PROVE  /\ RowOK(id, Written(now, q))
           /\ Written(now, q).is = "live" => now.is = "live"
           /\ Written(now, q).is = "deleted" => now.is = "deleted" \/ "is" \in DOMAIN q.set
           /\ \A column \in DOMAIN now :
                \/ Written(now, q)[column] = now[column]
                \/ column \in DOMAIN q.set /\ Written(now, q)[column] = q.set[column]
<1> DEFINE new == Written(now, q)
<1>1. /\ DOMAIN new = DOMAIN now
      /\ \A column \in DOMAIN now :
            new[column] = IF column \in DOMAIN q.set /\ q.set[column] # q.loaded[column]
                          THEN q.set[column] ELSE now[column]
  BY DEF Written
<1> HIDE DEF new
<1>2. \A column \in DOMAIN now :
        new[column] = now[column] \/ (column \in DOMAIN q.set /\ new[column] = q.set[column])
  BY <1>1
<1>3. /\ "is" \in DOMAIN new /\ new.is \in {"live", "deleted"}
      /\ new.is = "live" => now.is = "live"
      /\ new.is = "deleted" => now.is = "deleted" \/ "is" \in DOMAIN q.set
  <2>1. new["is"] = now["is"] \/ ("is" \in DOMAIN q.set /\ new["is"] = q.set["is"])
    BY <1>2 DEF RowOK
  <2> QED BY <1>1, <2>1 DEF RowOK, ColumnsOK
<1>4. HasAudit(id) => AuditedColumn(id) \in DOMAIN new /\ new[AuditedColumn(id)] \in Values
  BY <1>1, <1>2, AuditedColumns DEF RowOK, ColumnsOK
<1>5. id \in Properties => "neighborhood" \in DOMAIN new /\ new.neighborhood \in Known(Neighborhoods)
  <2>1. "neighborhood" \in DOMAIN now =>
          \/ new["neighborhood"] = now["neighborhood"]
          \/ "neighborhood" \in DOMAIN q.set /\ new["neighborhood"] = q.set["neighborhood"]
    BY <1>2
  <2> QED BY <1>1, <2>1 DEF RowOK, ColumnsOK
<1> QED BY <1>2, <1>3, <1>4, <1>5 DEF RowOK, new

-----------------------------------------------------------------------------
(* A request begins, goes on or is rolled back: no row changes.            *)

LEMMA InitRegistry == RegistryInit => RegistryInv
<1> SUFFICES ASSUME RegistryInit PROVE RegistryInv
  OBVIOUS
<1>1. /\ scope \in Scopes /\ overlaps \in BOOLEAN
      /\ row = [id \in scope |-> Absent] /\ trail = [id \in scope |-> <<>>]
      /\ clerk = [r \in Clerks |-> Waiting]
  BY DEF RegistryInit
<1>2. /\ \A id \in scope : row[id] = Absent /\ ~Present(id) /\ trail[id] = <<>>
      /\ \A r \in Clerks : clerk[r] = Waiting /\ r \notin Busy
  BY <1>1 DEF Present, Absent, Busy
<1>3. RegistryTypeOK
  BY <1>1, <1>2 DEF RegistryTypeOK, Promised
<1>4. NoTrailYet /\ Alone /\ UniqueNames /\ NeighborhoodStays
  BY <1>2 DEF NoTrailYet, Alone, Busy, UniqueNames, NeighborhoodStays, Known
<1>5. Trails
  BY <1>2 DEF Trails, TrailOK, OneAfterAnother
<1> QED BY <1>3, <1>4, <1>5 DEF RegistryInv

\* What is said of the rows stays true when only a request changes.
LEMMA ClerkChange ==
    ASSUME RegistryInv, NEW r \in Clerks, NEW q, clerk' = [clerk EXCEPT ![r] = q], Promised(q),
           UNCHANGED <<scope, overlaps, row, trail>>,
           ~overlaps => Busy \subseteq {r} /\ (q # Waiting => AloneOK(q))
    PROVE  RegistryInv'
<1>1. /\ clerk' = [s \in Clerks |-> clerk'[s]] /\ clerk'[r] = q
      /\ \A s \in Clerks \ {r} : clerk'[s] = clerk[s]
  BY DEF RegistryInv, RegistryTypeOK
<1>2. \A s \in Clerks : Promised(clerk'[s])
  BY <1>1 DEF RegistryInv, RegistryTypeOK
<1>3. \A s : Promised(clerk'[s]) => Promised(clerk[s])'
  BY DEF Promised, InsertOK, UpdateOK, RowOK, ColumnsOK, Known
<1>4. RegistryTypeOK'
  BY <1>1, <1>2, <1>3 DEF RegistryInv, RegistryTypeOK, RowOK, Known
<1>5. NoTrailYet'
  BY DEF RegistryInv, NoTrailYet
<1>6. Alone'
  <2> SUFFICES ASSUME ~overlaps
               PROVE  /\ \A s, t \in Busy' : s = t
                      /\ \A s \in Busy' : AloneOK(clerk[s])'
    BY DEF Alone
  <2>1. Busy' \subseteq {r} /\ (r \in Busy' => q # Waiting)
    BY <1>1 DEF Busy
  <2>2. q # Waiting => AloneOK(clerk[r])'
    BY <1>1 DEF AloneOK, Present, HasProperties, Known
  <2> QED BY <2>1, <2>2
<1>7. UniqueNames' /\ NeighborhoodStays' /\ Trails'
  BY DEF RegistryInv, UniqueNames, NeighborhoodStays, Trails, TrailOK, Tells, Present, Known
<1> QED BY <1>4, <1>5, <1>6, <1>7 DEF RegistryInv

LEMMA BeginsOK ==
    ASSUME RegistryInv, NEW r \in Clerks, NEW q, Begins(r, q), Promised(q), ~overlaps => AloneOK(q)
    PROVE  RegistryInv'
<1>1. /\ clerk' = [clerk EXCEPT ![r] = q] /\ UNCHANGED <<scope, overlaps, row, trail>>
      /\ ~overlaps => Busy = {}
  BY DEF Begins
<1> QED BY <1>1, ClerkChange

\* A row is selected again as it was, or as it is.
LEMMA SelectAgainOK ==
    ASSUME RegistryInv, NEW r \in Clerks, SelectAgain(r)
    PROVE  RegistryInv'
<1> DEFINE old == clerk[r]
           q == [do |-> "flush", id |-> old.id, was |-> old.was, set |-> old.set,
                 began |-> old.began, loaded |-> Loaded(r)]
<1>1. /\ old.do = "select" /\ UNCHANGED <<scope, overlaps, row, trail>>
      /\ clerk' = [clerk EXCEPT ![r] = IF Present(old.id) THEN q ELSE Waiting]
  BY DEF SelectAgain, Proceeds
<1>2. UpdateOK(old) /\ r \in Busy
  BY <1>1 DEF RegistryInv, RegistryTypeOK, Promised, InsertOK, Waiting, Busy
<1>3. RowOK(old.id, row[old.id])
  BY <1>2 DEF UpdateOK, RegistryInv, RegistryTypeOK
<1>4. Promised(q)
  <2>1. RowOK(old.id, Loaded(r)) /\ (old.id \notin Landlords => Loaded(r) = old.was)
    BY <1>2, <1>3 DEF Loaded, UpdateOK
  <2> QED BY <1>2, <2>1 DEF Promised, UpdateOK
<1>5. ~overlaps => Busy \subseteq {r} /\ AloneOK(q)
  <2> SUFFICES ASSUME ~overlaps PROVE Busy \subseteq {r} /\ AloneOK(q)
    OBVIOUS
  <2>1. Busy \subseteq {r} /\ AloneOK(old)
    BY <1>2 DEF RegistryInv, Alone
  <2>2. Loaded(r) = row[old.id]
    BY <1>1, <2>1 DEF AloneOK, Loaded
  <2> QED BY <1>1, <2>1, <2>2 DEF AloneOK
<1> HIDE DEF q, old
<1>6. Promised(Waiting)
  BY DEF Promised
<1>7. CASE Present(old.id)
  BY <1>1, <1>4, <1>5, <1>7, ClerkChange
<1>8. CASE ~Present(old.id)
  BY <1>1, <1>5, <1>6, <1>8, ClerkChange
<1> QED BY <1>7, <1>8

LEMMA RollBackOK ==
    ASSUME RegistryInv, NEW r \in Clerks, RollBack(r)
    PROVE  RegistryInv'
<1>1. /\ clerk' = [clerk EXCEPT ![r] = Waiting] /\ UNCHANGED <<scope, overlaps, row, trail>>
      /\ r \in Busy
  BY DEF RollBack, Proceeds
<1>2. ~overlaps => Busy \subseteq {r}
  BY <1>1 DEF RegistryInv, Alone
<1>3. Promised(Waiting)
  BY DEF Promised
<1> QED BY <1>1, <1>2, <1>3, ClerkChange

LEMMA ContractOK ==
    ASSUME RegistryInv, UNCHANGED <<scope, overlaps, row, trail, clerk>>
    PROVE  RegistryInv'
<1>1. \A s : Promised(clerk[s]) => Promised(clerk[s])'
  BY DEF Promised, InsertOK, UpdateOK, RowOK, ColumnsOK, Known
<1>2. RegistryTypeOK'
  BY <1>1 DEF RegistryInv, RegistryTypeOK, RowOK, Known
<1>3. NoTrailYet' /\ UniqueNames' /\ NeighborhoodStays' /\ Trails'
  BY DEF RegistryInv, NoTrailYet, UniqueNames, NeighborhoodStays, Trails, TrailOK, Tells, Present, Known
<1>4. Alone'
  BY DEF RegistryInv, Alone, Busy, AloneOK, Present, HasProperties, Known
<1> QED BY <1>2, <1>3, <1>4 DEF RegistryInv

-----------------------------------------------------------------------------
(* What each handler promises.                                             *)

LEMMA InsertStarts ==
    ASSUME RegistryInv, NEW r \in Clerks, NEW id \in scope, NEW new, Insert(r, id, new),
           RowOK(id, new), new.is = "live", id \in Properties => Present(new.neighborhood)
    PROVE  RegistryInv'
<1> DEFINE q == [do |-> "insert", id |-> id, set |-> new]
<1>1. Promised(q) /\ AloneOK(q)
  BY DEF Promised, InsertOK, AloneOK
<1>2. Begins(r, q)
  BY DEF Insert
<1> HIDE DEF q
<1> QED BY <1>1, <1>2, BeginsOK

LEMMA UpdateStarts ==
    ASSUME RegistryInv, NEW r \in Clerks, NEW id \in scope, NEW columns, Update(r, id, columns),
           ColumnsOK(id, columns),
           id \in Properties /\ "neighborhood" \in DOMAIN columns => Present(columns.neighborhood),
           id \in Neighborhoods /\ "is" \in DOMAIN columns => ~HasProperties(id)
    PROVE  RegistryInv'
<1>0. PICK began \in Began(id, Changes(row[id], columns)) :
         Begins(r, [do |-> "select", id |-> id, was |-> row[id], set |-> columns, began |-> began])
  BY DEF Update
<1> DEFINE q == [do |-> "select", id |-> id, was |-> row[id], set |-> columns, began |-> began]
<1>1. Begins(r, q) /\ Present(id)
  BY <1>0 DEF Update
<1>2. row[id] # Absent /\ RowOK(id, row[id]) /\ Len(trail[id]) \in Nat
  BY <1>1 DEF Present, Absent, RegistryInv, RegistryTypeOK
<1>3. /\ began \in Nat /\ began <= Len(trail[id])
      /\ ~overlaps /\ Changes(row[id], columns) # {} => began = Len(trail[id])
  BY <1>2 DEF Began
<1>4. Promised(q)
  BY <1>2, <1>3 DEF Promised, UpdateOK
<1>5. ~overlaps => AloneOK(q)
  BY <1>2, <1>3 DEF AloneOK
<1> HIDE DEF q
<1> QED BY <1>1, <1>4, <1>5, BeginsOK

LEMMA DeleteStarts ==
    ASSUME RegistryInv, NEW r \in Clerks, NEW id \in scope, Delete(r, id),
           id \in Neighborhoods => ~HasProperties(id)
    PROVE  RegistryInv'
<1> DEFINE columns == [is |-> "deleted"]
<1>1. DOMAIN columns = {"is"} /\ columns.is = "deleted"
  OBVIOUS
<1>2. ColumnsOK(id, columns) /\ Update(r, id, columns)
  BY <1>1 DEF ColumnsOK, Audited, Delete
<1> HIDE DEF columns
<1> QED BY <1>1, <1>2, UpdateStarts

LEMMA PeopleOK ==
    ASSUME RegistryInv, NEW r \in Clerks, People(r)
    PROVE  RegistryInv'
<1>1. ASSUME NEW l \in Known(Landlords), NEW pct \in Percents, CreateLandlord(r, l, pct)
      PROVE  RegistryInv'
  <2> DEFINE new == [is |-> "live", commission_pct |-> pct]
  <2>1. Insert(r, l, new) /\ DOMAIN new = {"is", "commission_pct"} /\ new.is = "live"
        /\ new["commission_pct"] = pct /\ l \in Landlords /\ l \in scope
    BY <1>1 DEF CreateLandlord, Known
  <2> HIDE DEF new
  <2>2. RowOK(l, new) /\ l \notin Properties
    BY <2>1, TablesApart, AuditedColumns DEF RowOK, Values
  <2> QED BY <2>1, <2>2, InsertStarts
<1>2. ASSUME NEW l \in Known(Landlords), NEW pct \in Percents, UpdateLandlord(r, l, pct)
      PROVE  RegistryInv'
  <2> DEFINE columns == [commission_pct |-> pct]
  <2>1. Update(r, l, columns) /\ DOMAIN columns = {"commission_pct"}
        /\ columns["commission_pct"] = pct /\ l \in Landlords /\ l \in scope
    BY <1>2 DEF UpdateLandlord, Known
  <2> HIDE DEF columns
  <2>2. ColumnsOK(l, columns)
    BY <2>1, TablesApart, AuditedColumns DEF ColumnsOK, Values
  <2> QED BY <2>1, <2>2, TablesApart, UpdateStarts
<1>3. ASSUME NEW l \in Known(Landlords), DeleteLandlord(r, l)
      PROVE  RegistryInv'
  BY <1>3, TablesApart, DeleteStarts DEF DeleteLandlord, Known
<1>4. ASSUME NEW rt \in Known(Renters), CreateRenter(r, rt)
      PROVE  RegistryInv'
  <2> DEFINE new == [is |-> "live"]
  <2>1. Insert(r, rt, new) /\ DOMAIN new = {"is"} /\ new.is = "live" /\ rt \in Renters /\ rt \in scope
    BY <1>4 DEF CreateRenter, Known
  <2> HIDE DEF new
  <2>2. RowOK(rt, new) /\ rt \notin Properties
    BY <2>1, TablesApart DEF RowOK, HasAudit
  <2> QED BY <2>1, <2>2, InsertStarts
<1>5. ASSUME NEW rt \in Known(Renters), DeleteRenter(r, rt)
      PROVE  RegistryInv'
  BY <1>5, TablesApart, DeleteStarts DEF DeleteRenter, Known
<1> QED BY <1>1, <1>2, <1>3, <1>4, <1>5 DEF People

LEMMA PropertyOK ==
    ASSUME RegistryInv, NEW r \in Clerks, NEW p \in Known(Properties),
           NEW l \in Known(Landlords), NEW n \in Known(Neighborhoods),
           CreateProperty(r, p, l, n) \/ UpdateProperty(r, p, l, n)
    PROVE  RegistryInv'
<1>1. /\ p \in scope /\ p \in Properties /\ p \notin Neighborhoods /\ l \in Values
      /\ AuditedColumn(p) = "landlord" /\ HasAudit(p)
  BY TablesApart, AuditedColumns DEF Known, Values
<1>2. CASE CreateProperty(r, p, l, n)
  <2> DEFINE new == [is |-> "live", landlord |-> l, neighborhood |-> n]
  <2>1. Insert(r, p, new) /\ DOMAIN new = {"is", "landlord", "neighborhood"} /\ new.is = "live"
        /\ new["landlord"] = l /\ new.neighborhood = n /\ Present(n)
    BY <1>2 DEF CreateProperty
  <2> HIDE DEF new
  <2>2. RowOK(p, new)
    BY <1>1, <2>1 DEF RowOK
  <2> QED BY <1>1, <2>1, <2>2, InsertStarts
<1>3. ASSUME NEW columns, Update(r, p, columns), DOMAIN columns \subseteq {"landlord", "neighborhood"},
             "landlord" \in DOMAIN columns => columns["landlord"] = l,
             "neighborhood" \in DOMAIN columns => columns["neighborhood"] = n /\ Present(n)
      PROVE  RegistryInv'
  <2>1. ColumnsOK(p, columns)
    BY <1>1, <1>3 DEF ColumnsOK, Audited
  <2>2. "neighborhood" \in DOMAIN columns => Present(columns.neighborhood)
    BY <1>3
  <2> QED BY <1>1, <1>3, <2>1, <2>2, UpdateStarts
<1>4. CASE UpdateProperty(r, p, l, n)
  <2>1. CASE Update(r, p, [landlord |-> l])
    BY <1>3, <2>1
  <2>2. CASE Present(n) /\ Update(r, p, [neighborhood |-> n])
    BY <1>3, <2>2
  <2>3. CASE Present(n) /\ Update(r, p, [landlord |-> l, neighborhood |-> n])
    BY <1>3, <2>3
  <2> QED BY <1>4, <2>1, <2>2, <2>3 DEF UpdateProperty
<1> QED BY <1>2, <1>4

LEMMA EstateOK ==
    ASSUME RegistryInv, NEW r \in Clerks, Estate(r)
    PROVE  RegistryInv'
<1>1. ASSUME NEW p \in Known(Properties), NEW a \in Known(Accounts), CreateServiceAccount(r, a, p)
      PROVE  RegistryInv'
  <2> DEFINE new == [is |-> "live", property |-> p]
  <2>1. Insert(r, a, new) /\ DOMAIN new = {"is", "property"} /\ new.is = "live"
        /\ a \in Accounts /\ a \in scope
    BY <1>1 DEF CreateServiceAccount, Known
  <2> HIDE DEF new
  <2>2. RowOK(a, new) /\ a \notin Properties
    BY <2>1, TablesApart DEF RowOK, HasAudit
  <2> QED BY <2>1, <2>2, InsertStarts
<1>2. ASSUME NEW p \in Known(Properties), DeleteProperty(r, p)
      PROVE  RegistryInv'
  BY <1>2, TablesApart, DeleteStarts DEF DeleteProperty, Known
<1>3. ASSUME NEW a \in Known(Accounts), DeleteServiceAccount(r, a)
      PROVE  RegistryInv'
  BY <1>3, TablesApart, DeleteStarts DEF DeleteServiceAccount, Known
<1>4. ASSUME NEW n \in Known(Neighborhoods), NEW name \in Names,
             CreateNeighborhood(r, n, name) \/ UpdateNeighborhood(r, n, name)
      PROVE  RegistryInv'
  <2>1. n \in Neighborhoods /\ n \in scope /\ ~HasAudit(n) /\ n \notin Properties
    BY TablesApart DEF Known, HasAudit
  <2>2. CASE CreateNeighborhood(r, n, name)
    <3> DEFINE new == [is |-> "live", name |-> name]
    <3>1. Insert(r, n, new) /\ DOMAIN new = {"is", "name"} /\ new.is = "live"
      BY <2>2 DEF CreateNeighborhood
    <3> HIDE DEF new
    <3>2. RowOK(n, new)
      BY <2>1, <3>1 DEF RowOK
    <3> QED BY <2>1, <3>1, <3>2, InsertStarts
  <2>3. CASE UpdateNeighborhood(r, n, name)
    <3> DEFINE columns == [name |-> name]
    <3>1. Update(r, n, columns) /\ DOMAIN columns = {"name"}
      BY <2>3 DEF UpdateNeighborhood
    <3> HIDE DEF columns
    <3>2. ColumnsOK(n, columns)
      BY <2>1, <3>1 DEF ColumnsOK, Audited
    <3> QED BY <2>1, <3>1, <3>2, UpdateStarts
  <2> QED BY <1>4, <2>2, <2>3
<1>5. ASSUME NEW n \in Known(Neighborhoods), DeleteNeighborhood(r, n)
      PROVE  RegistryInv'
  BY <1>5, DeleteStarts DEF DeleteNeighborhood, Known
<1> QED BY <1>1, <1>2, <1>3, <1>4, <1>5, PropertyOK DEF Estate

LEMMA BillsOK ==
    ASSUME RegistryInv, NEW r \in Clerks, Bills(r)
    PROVE  RegistryInv'
<1>1. ASSUME NEW c \in Known(Charges), NEW p \in Known(Properties), CreateRecurringCharge(r, c, p)
      PROVE  RegistryInv'
  <2> DEFINE new == [is |-> "live", is_active |-> TRUE, property |-> p]
  <2>1. Insert(r, c, new) /\ DOMAIN new = {"is", "is_active", "property"} /\ new.is = "live"
        /\ c \in Charges /\ c \in scope
    BY <1>1 DEF CreateRecurringCharge, Known
  <2> HIDE DEF new
  <2>2. RowOK(c, new) /\ c \notin Properties
    BY <2>1, TablesApart DEF RowOK, HasAudit
  <2> QED BY <2>1, <2>2, InsertStarts
<1>2. ASSUME NEW c \in Known(Charges), NEW active \in BOOLEAN, UpdateRecurringCharge(r, c, active)
      PROVE  RegistryInv'
  <2> DEFINE columns == [is_active |-> active]
  <2>1. Update(r, c, columns) /\ DOMAIN columns = {"is_active"} /\ c \in Charges /\ c \in scope
    BY <1>2 DEF UpdateRecurringCharge, Known
  <2> HIDE DEF columns
  <2>2. ColumnsOK(c, columns)
    BY <2>1 DEF ColumnsOK, Audited
  <2> QED BY <2>1, <2>2, TablesApart, UpdateStarts
<1>3. ASSUME NEW e \in Known(Entries), NEW amount \in Amounts, CreateEntry(r, e[1], e[2], amount)
      PROVE  RegistryInv'
  <2> DEFINE new == [is |-> "live", amount |-> amount]
  <2>1. Insert(r, e, new) /\ DOMAIN new = {"is", "amount"} /\ new.is = "live" /\ new["amount"] = amount
        /\ e \in Entries /\ e \in scope
    BY <1>3 DEF CreateEntry, Known, Entries
  <2> HIDE DEF new
  <2>2. RowOK(e, new) /\ e \notin Properties
    BY <2>1, TablesApart, AuditedColumns DEF RowOK, Values
  <2> QED BY <2>1, <2>2, InsertStarts
<1>4. ASSUME NEW e \in Known(Entries), NEW amount \in Amounts, CorrectEntry(r, e, amount)
      PROVE  RegistryInv'
  <2> DEFINE columns == [amount |-> amount]
  <2>1. Update(r, e, columns) /\ DOMAIN columns = {"amount"} /\ columns["amount"] = amount
        /\ e \in Entries /\ e \in scope
    BY <1>4 DEF CorrectEntry, Known
  <2> HIDE DEF columns
  <2>2. ColumnsOK(e, columns)
    BY <2>1, TablesApart, AuditedColumns DEF ColumnsOK, Values
  <2> QED BY <2>1, <2>2, TablesApart, UpdateStarts
<1> QED BY <1>1, <1>2, <1>3, <1>4 DEF Bills

-----------------------------------------------------------------------------
(* A request is flushed.                                                   *)

\* The row of id becomes new, and its trail what is said of it here.
LEMMA RowChange ==
    ASSUME RegistryInv, NEW r \in Busy, NEW id \in scope, NEW new, RowOK(id, new), Indexed(id, new),
           row' = [row EXCEPT ![id] = new], clerk' = [clerk EXCEPT ![r] = Waiting],
           UNCHANGED <<scope, overlaps>>,
           trail' \in [scope -> Seq(AuditEntry)],
           \A k \in scope \ {id} : trail'[k] = trail[k],
           ~HasAudit(id) => trail'[id] = <<>>,
           TrailOK(id, trail'[id], new[AuditedColumn(id)]),
           \/ Len(trail[id]) < Len(trail'[id])
           \/ /\ trail'[id] = trail[id]
              /\ row[id] # Absent /\ HasAudit(id) /\ id \notin Landlords =>
                   new[AuditedColumn(id)] = row[id][AuditedColumn(id)],
           ~overlaps /\ id \in Properties /\ new.is = "live" => Present(new.neighborhood),
           ~overlaps /\ id \in Neighborhoods /\ Present(id) /\ new.is # "live" => ~HasProperties(id)
    PROVE  RegistryInv'
<1>1. /\ row' = [k \in scope |-> row'[k]] /\ row'[id] = new
      /\ \A k \in scope \ {id} : row'[k] = row[k]
  BY DEF RegistryInv, RegistryTypeOK
<1>2. new # Absent /\ r \in Clerks
  BY RowIsThere DEF Busy
<1>3. /\ clerk' = [s \in Clerks |-> clerk'[s]] /\ clerk'[r] = Waiting
      /\ \A s \in Clerks \ {r} : clerk'[s] = clerk[s]
  BY <1>2 DEF RegistryInv, RegistryTypeOK
<1>4. RegistryTypeOK'
  <2>1. ASSUME NEW s \in Clerks PROVE Promised(clerk[s])'
    <3>1. CASE s = r
      BY <1>3, <3>1 DEF Promised
    <3>2. CASE s # r
      <4>1. clerk'[s] = clerk[s] /\ Promised(clerk[s])
        BY <1>3, <3>2 DEF RegistryInv, RegistryTypeOK
      <4>2. \A k \in scope : row[k] # Absent => row'[k] # Absent
        BY <1>1, <1>2
      <4>3. CASE UpdateOK(clerk[s])
        <5> DEFINE k == clerk[s].id
                   column == AuditedColumn(k)
        <5>1. /\ k \in scope /\ row[k] # Absent /\ clerk[s].began \in Nat
              /\ clerk[s].began <= Len(trail[k])
              /\ HasAudit(k) /\ k \notin Landlords /\ clerk[s].began = Len(trail[k]) =>
                   clerk[s].was[column] = row[k][column]
          BY <4>3 DEF UpdateOK
        <5>2. Len(trail[k]) \in Nat /\ Len(trail'[k]) \in Nat
          BY <5>1 DEF RegistryInv, RegistryTypeOK
        <5> HIDE DEF k
        <5>3. /\ clerk[s].began <= Len(trail'[k])
              /\ HasAudit(k) /\ k \notin Landlords /\ clerk[s].began = Len(trail'[k]) =>
                   clerk[s].was[column] = row'[k][column]
          <6>1. CASE k = id
            BY <1>1, <5>1, <5>2, <6>1
          <6>2. CASE k # id
            BY <1>1, <5>1, <6>2
          <6> QED BY <6>1, <6>2
        <5>4. row'[k] # Absent
          BY <4>2, <5>1
        <5> QED BY <4>1, <4>3, <5>3, <5>4 DEF Promised, UpdateOK, RowOK, ColumnsOK, Known, k
      <4>4. CASE ~UpdateOK(clerk[s])
        BY <4>1, <4>4 DEF Promised, InsertOK, RowOK, Known
      <4> QED BY <4>3, <4>4
    <3> QED BY <3>1, <3>2
  <2>2. \A k \in scope : row'[k] = Absent \/ RowOK(k, row'[k])
    BY <1>1 DEF RegistryInv, RegistryTypeOK
  <2>3. \A k \in scope : (row[k] = Absent \/ RowOK(k, row[k]))'
    BY <2>2 DEF RowOK, Known
  <2> QED BY <1>1, <1>3, <2>1, <2>3 DEF RegistryInv, RegistryTypeOK
<1>5. NoTrailYet'
  BY <1>1, <1>2 DEF RegistryInv, NoTrailYet
<1>6. Alone'
  <2>1. ~overlaps => Busy' = {}
    BY <1>3 DEF RegistryInv, Alone, Busy
  <2> QED BY <2>1 DEF Alone
<1>7. \A k \in scope : Present(k)' <=> IF k = id THEN new.is = "live" ELSE Present(k)
  BY <1>1 DEF Present
<1>8. UniqueNames'
  <2> SUFFICES ASSUME NEW n \in Known(Neighborhoods), NEW m \in Known(Neighborhoods),
                      Present(n)', Present(m)', row'[n].name = row'[m].name
               PROVE  n = m
    BY DEF UniqueNames, Known
  <2>1. n \in scope /\ m \in scope /\ n \in Neighborhoods /\ m \in Neighborhoods
    BY DEF Known
  <2>2. CASE n # id /\ m # id
    BY <1>1, <1>7, <2>1, <2>2 DEF RegistryInv, UniqueNames
  <2>3. \A k \in Known(Neighborhoods) \ {id} : Present(k) /\ id \in Neighborhoods /\ new.is = "live"
            => row[k].name # new.name
    BY DEF Indexed
  <2>4. CASE n = id /\ m # id
    BY <1>1, <1>7, <2>1, <2>3, <2>4
  <2>5. CASE n # id /\ m = id
    BY <1>1, <1>7, <2>1, <2>3, <2>5
  <2> QED BY <2>2, <2>4, <2>5
<1>9. NeighborhoodStays'
  <2> SUFFICES ASSUME ~overlaps, NEW p \in Known(Properties), Present(p)'
               PROVE  Present(row[p].neighborhood)'
    BY DEF NeighborhoodStays, Known
  <2>1. p \in scope /\ p \in Properties /\ p \notin Neighborhoods
    BY TablesApart DEF Known
  <2>2. /\ row'[p] # Absent /\ RowOK(p, row'[p])
        /\ row'[p].neighborhood \in Neighborhoods /\ row'[p].neighborhood \in scope
    <3>1. row'[p] # Absent
      BY DEF Present, Absent
    <3>2. row[p] = Absent \/ RowOK(p, row[p])
      BY <2>1 DEF RegistryInv, RegistryTypeOK
    <3>3. RowOK(p, row'[p])
      BY <1>1, <2>1, <3>1, <3>2
    <3> QED BY <2>1, <3>1, <3>3 DEF RowOK, Known
  <2>3. Present(row'[p].neighborhood)
    <3>1. CASE p = id
      BY <1>1, <1>7, <2>1, <3>1
    <3>2. CASE p # id
      BY <1>1, <1>7, <2>1, <3>2 DEF RegistryInv, NeighborhoodStays
    <3> QED BY <3>1, <3>2
  <2>4. CASE row'[p].neighborhood # id
    BY <1>7, <2>2, <2>3, <2>4
  <2>5. CASE row'[p].neighborhood = id
    <3>1. id \in Neighborhoods /\ Present(id) /\ p # id
      BY <2>1, <2>2, <2>3, <2>5
    <3>2. HasProperties(id)
      BY <1>1, <1>7, <2>1, <2>5, <3>1 DEF HasProperties
    <3>3. new.is = "live"
      BY <3>1, <3>2
    <3> QED BY <1>7, <2>5, <3>3
  <2> QED BY <2>4, <2>5
<1>10. Trails'
  <2> SUFFICES ASSUME NEW k \in scope
               PROVE  TrailOK(k, trail'[k], row'[k][AuditedColumn(k)])
    BY DEF Trails, TrailOK, Tells
  <2>1. CASE k = id
    BY <1>1, <2>1
  <2>2. CASE k # id
    BY <1>1, <2>2 DEF RegistryInv, Trails
  <2> QED BY <2>1, <2>2
<1> QED BY <1>4, <1>5, <1>6, <1>8, <1>9, <1>10 DEF RegistryInv

LEMMA FlushInsertOK ==
    ASSUME RegistryInv, NEW r \in Clerks, FlushInsert(r)
    PROVE  RegistryInv'
<1> DEFINE q == clerk[r]
           id == q.id
<1>1. /\ q.do = "insert" /\ UNCHANGED <<scope, overlaps, trail>>
      /\ row' = IF row[id] = Absent /\ Indexed(id, q.set) THEN [row EXCEPT ![id] = q.set] ELSE row
      /\ clerk' = [clerk EXCEPT ![r] = Waiting]
  BY DEF FlushInsert, Proceeds
<1>2. InsertOK(q) /\ r \in Busy
  BY <1>1 DEF RegistryInv, RegistryTypeOK, Promised, UpdateOK, Waiting, Busy
<1>3. id \in scope /\ RowOK(id, q.set) /\ q.set.is = "live"
  BY <1>2 DEF InsertOK
<1>4. ~overlaps => Busy \subseteq {r} /\ AloneOK(q)
  BY <1>2 DEF RegistryInv, Alone
<1>5. CASE UNCHANGED row
  <2>1. Promised(Waiting)
    BY DEF Promised
  <2> QED BY <1>1, <1>4, <1>5, <2>1, ClerkChange
<1>6. CASE row[id] = Absent /\ Indexed(id, q.set) /\ row' = [row EXCEPT ![id] = q.set]
  <2>1. trail \in [scope -> Seq(AuditEntry)] /\ trail[id] = <<>>
    BY <1>3, <1>6 DEF RegistryInv, RegistryTypeOK, NoTrailYet
  <2>2. TrailOK(id, trail[id], q.set[AuditedColumn(id)])
    BY <2>1 DEF TrailOK, OneAfterAnother
  <2>3. ~overlaps /\ id \in Properties => Present(q.set.neighborhood)
    BY <1>1, <1>4 DEF AloneOK
  <2> HIDE DEF q, id
  <2> QED BY <1>1, <1>2, <1>3, <1>6, <2>1, <2>2, <2>3, RowChange
<1> QED BY <1>1, <1>5, <1>6

\* What a flush writes of the row and of the trail.
Trailed(q) ==
    [before |-> q.was[AuditedColumn(q.id)], after |-> q.set[AuditedColumn(q.id)], began |-> q.began]

Flushes(q) ==
    LET id == q.id
        new == Written(row[id], q)
    IN  \/ UNCHANGED <<row, trail>>
        \/ /\ Indexed(id, new) /\ row' = [row EXCEPT ![id] = new]
           /\ \/ Changes(q.was, q.set) = {} /\ UNCHANGED trail
              \/ /\ AuditedColumn(id) \in Changes(q.was, q.set) /\ HasAudit(id)
                 /\ \E i \in Places(id, Trailed(q)) :
                      trail' = [trail EXCEPT ![id] = InsertAt(trail[id], i + 1, Trailed(q))]

LEMMA FlushRows ==
    ASSUME RegistryInv, NEW r \in Clerks, Flush(r), NEW q, q = clerk[r]
    PROVE  /\ q.do = "flush" /\ UpdateOK(q) /\ r \in Busy /\ Flushes(q)
           /\ UNCHANGED <<scope, overlaps>> /\ clerk' = [clerk EXCEPT ![r] = Waiting]
<1> DEFINE id == q.id
           new == Written(row[id], q)
           entry(column) ==
               [before |-> q.was[column], after |-> q.set[column], began |-> q.began]
           entries == {entry(column) : column \in Changes(q.was, q.set)}
<1>1. /\ q.do = "flush" /\ UNCHANGED <<scope, overlaps>> /\ clerk' = [clerk EXCEPT ![r] = Waiting]
      /\ \/ UNCHANGED <<row, trail>>
         \/ /\ Indexed(id, new) /\ row' = [row EXCEPT ![id] = new]
            /\ IF entries = {} THEN UNCHANGED trail
               ELSE \E e \in entries : \E i \in Places(id, e) :
                      trail' = [trail EXCEPT ![id] = InsertAt(trail[id], i + 1, e)]
  BY DEF Flush, Proceeds
<1>2. UpdateOK(q) /\ r \in Busy
  BY <1>1 DEF RegistryInv, RegistryTypeOK, Promised, InsertOK, Waiting, Busy
<1>3. \A column \in Changes(q.was, q.set) : HasAudit(id) /\ column = AuditedColumn(id)
  BY <1>2 DEF Changes, UpdateOK, ColumnsOK
<1>4. CASE Changes(q.was, q.set) = {}
  <2>1. entries = {}
    BY <1>4
  <2> HIDE DEF entries, new
  <2> QED BY <1>1, <1>2, <1>4, <2>1 DEF Flushes, new
<1>5. CASE Changes(q.was, q.set) # {}
  <2>1. HasAudit(id) /\ Changes(q.was, q.set) = {AuditedColumn(id)}
    BY <1>3, <1>5
  <2>2. entries = {Trailed(q)}
    BY <2>1 DEF Trailed
  <2> HIDE DEF entries, new
  <2> QED BY <1>1, <1>2, <2>1, <2>2 DEF Flushes, new
<1> QED BY <1>4, <1>5

\* A sequence with one more element.
LEMMA OneMore ==
    ASSUME NEW S, NEW t \in Seq(S), NEW e \in S, NEW i \in 0..Len(t)
    PROVE  /\ InsertAt(t, i + 1, e) \in Seq(S) /\ Len(InsertAt(t, i + 1, e)) = Len(t) + 1
           /\ InsertAt(t, i + 1, e)[i + 1] = e
           /\ \A j \in 1..i : InsertAt(t, i + 1, e)[j] = t[j]
           /\ \A j \in i + 2..Len(t) + 1 : InsertAt(t, i + 1, e)[j] = t[j - 1]
<1> DEFINE a == SubSeq(t, 1, i)
           b == a \o <<e>>
           c == SubSeq(t, i + 1, Len(t))
           u == InsertAt(t, i + 1, e)
<1>1. /\ a \in Seq(S) /\ Len(a) = i /\ \A j \in 1..i : a[j] = t[j]
      /\ c \in Seq(S) /\ Len(c) = Len(t) - i /\ \A j \in 1..Len(t) - i : c[j] = t[i + j]
  BY SubSeqProperties
<1>2. <<e>> \in Seq(S) /\ Len(<<e>>) = 1 /\ <<e>>[1] = e
  OBVIOUS
<1>3. u = b \o c
  <2>1. (i + 1) - 1 = i
    OBVIOUS
  <2> QED BY <2>1 DEF InsertAt
<1> HIDE DEF a, c, u
<1>4. b \in Seq(S) /\ Len(b) = i + 1 /\ b[i + 1] = e /\ \A j \in 1..i : b[j] = t[j]
  BY <1>1, <1>2
<1> HIDE DEF b
<1>5. /\ b \o c \in Seq(S) /\ Len(b \o c) = Len(b) + Len(c)
      /\ \A j \in 1..Len(b) + Len(c) : (b \o c)[j] = IF j <= Len(b) THEN b[j] ELSE c[j - Len(b)]
  BY <1>1, <1>4, ConcatProperties
<1>6. /\ u \in Seq(S) /\ Len(u) = Len(b) + Len(c)
      /\ \A j \in 1..Len(b) + Len(c) : u[j] = IF j <= Len(b) THEN b[j] ELSE c[j - Len(b)]
  BY <1>3, <1>5
<1>7. Len(u) = Len(t) + 1 /\ \A j \in 1..i + 1 : u[j] = b[j]
  BY <1>1, <1>4, <1>6
<1>8. ASSUME NEW j \in i + 2..Len(t) + 1 PROVE u[j] = c[j - (i + 1)]
  <2>1. j \in 1..Len(b) + Len(c) /\ ~(j <= Len(b)) /\ Len(b) = i + 1
    BY <1>1, <1>4
  <2> QED BY <1>6, <2>1
<1>9. ASSUME NEW j \in i + 2..Len(t) + 1 PROVE u[j] = t[j - 1]
  <2>1. j - (i + 1) \in 1..Len(t) - i /\ i + (j - (i + 1)) = j - 1
    OBVIOUS
  <2> QED BY <1>1, <1>8, <2>1
<1>10. u[i + 1] = e /\ \A j \in 1..i : u[j] = t[j]
  BY <1>4, <1>7
<1> QED BY <1>6, <1>7, <1>9, <1>10 DEF u

\* A trail with one more entry still tells what its column is: that is what the
\* entry ends in, and it starts from it if nothing was audited since it began.
LEMMA TrailGrows ==
    ASSUME NEW id, NEW t \in Seq(AuditEntry), NEW e \in AuditEntry, NEW was, NEW now,
           NEW i \in e.began..Len(t), e.began <= Len(t), TrailOK(id, t, was),
           ~(overlaps /\ id \in Landlords) => now = e.after,
           id \notin Landlords /\ e.began = Len(t) => e.before = was,
           ~overlaps => e.began = Len(t) /\ e.before = was
    PROVE  TrailOK(id, InsertAt(t, i + 1, e), now)
<1> DEFINE u == InsertAt(t, i + 1, e)
<1>0. \A j \in 1..Len(t) : t[j] \in AuditEntry
  OBVIOUS
<1>i. i \in 0..Len(t)
  BY DEF AuditEntry
<1>u. /\ u \in Seq(AuditEntry) /\ Len(u) = Len(t) + 1 /\ u[i + 1] = e
      /\ \A j \in 1..i : u[j] = t[j]
      /\ \A j \in i + 2..Len(t) + 1 : u[j] = t[j - 1]
  <2>1. u \in Seq(AuditEntry) /\ Len(u) = Len(t) + 1
    BY <1>i, OneMore
  <2>2. u[i + 1] = e
    BY <1>i, OneMore
  <2>3. \A j \in 1..i : u[j] = t[j]
    BY <1>i, OneMore
  <2>4. \A j \in i + 2..Len(t) + 1 : u[j] = t[j - 1]
    BY <1>i, OneMore
  <2> HIDE DEF u
  <2> QED BY <2>1, <2>2, <2>3, <2>4
<1> HIDE DEF u
<1>1. /\ Len(t) \in Nat /\ Len(u) \in Nat /\ e.began \in Nat /\ i \in 0..Len(t)
      /\ \A j \in 1..Len(t) : t[j].began \in Nat
      /\ (t = <<>> <=> Len(t) = 0)
      /\ \A j \in 1..Len(u) : j \in 1..i \/ j = i + 1 \/ j \in i + 2..Len(t) + 1
      /\ Len(u) = Len(t) + 1 /\ u[i + 1] = e /\ \A j \in 1..i : u[j] = t[j]
      /\ \A j \in i + 2..Len(t) + 1 : u[j] = t[j - 1]
  <2>1. e.began \in Nat /\ \A j \in 1..Len(t) : t[j].began \in Nat
    BY <1>0 DEF AuditEntry
  <2>2. Len(t) \in Nat /\ Len(u) \in Nat /\ (t = <<>> <=> Len(t) = 0)
    BY <1>u
  <2>3. i \in 0..Len(t) /\ \A j \in 1..Len(u) : j \in 1..i \/ j = i + 1 \/ j \in i + 2..Len(t) + 1
    BY <1>i, <1>u, <2>2
  <2> QED BY <1>u, <2>1, <2>2, <2>3
<1>2. \A j \in 1..Len(t) : t[j].began <= j - 1
  BY DEF TrailOK
<1>3. \A j \in 1..Len(u) : u[j].began <= j - 1
  <2> SUFFICES ASSUME NEW j \in 1..Len(u) PROVE u[j].began <= j - 1
    OBVIOUS
  <2>1. CASE j \in 1..i
    BY <1>1, <1>2, <2>1
  <2>2. CASE j = i + 1
    BY <1>1, <2>2
  <2>3. CASE j \in i + 2..Len(t) + 1
    <3>1. j - 1 \in 1..Len(t) /\ u[j] = t[j - 1]
      BY <1>1, <2>3
    <3>2. t[j - 1].began <= (j - 1) - 1 /\ t[j - 1].began \in Nat
      BY <1>1, <1>2, <3>1
    <3> QED BY <3>1, <3>2
  <2> QED BY <1>1, <2>1, <2>2, <2>3
\* Only an entry at the end can have begun after all the others.
<1>4. u[Len(u)].began = Len(u) - 1 \/ ~overlaps => i = Len(t) /\ e.began = Len(t)
  <2>1. CASE i = Len(t)
    BY <1>1, <2>1
  <2>2. CASE i # Len(t)
    <3>1. Len(u) \in i + 2..Len(t) + 1 /\ Len(u) - 1 = Len(t) /\ Len(t) \in 1..Len(t)
      BY <1>1, <2>2
    <3>2. u[Len(u)] = t[Len(t)] /\ t[Len(t)].began <= Len(t) - 1
      BY <1>1, <1>2, <3>1
    <3>3. t[Len(t)].began \in Nat
      BY <1>1, <3>1
    <3>4. u[Len(u)].began # Len(u) - 1
      BY <1>1, <3>1, <3>2, <3>3
    <3>5. overlaps
      BY <1>1, <2>2
    <3> QED BY <3>4, <3>5
  <2> QED BY <2>1, <2>2
<1>5. i = Len(t) => /\ Len(u) = i + 1 /\ u[Len(u)] = e
                    /\ \A j \in 1..Len(t) : u[j] = t[j]
  BY <1>1
<1>6. OneAfterAnother(u) => OneAfterAnother(t) /\ i = Len(t) /\ e.began = Len(t)
  <2> SUFFICES ASSUME OneAfterAnother(u)
               PROVE  OneAfterAnother(t) /\ i = Len(t) /\ e.began = Len(t)
    OBVIOUS
  <2>1. Len(u) \in 1..Len(u)
    BY <1>1
  <2>2. u[Len(u)].began = Len(u) - 1
    BY <2>1 DEF OneAfterAnother
  <2>3. i = Len(t) /\ e.began = Len(t)
    BY <1>4, <2>2
  <2>4. \A j \in 1..Len(t) : j \in 1..Len(u) /\ u[j] = t[j]
    BY <1>1, <1>5, <2>3
  <2> QED BY <2>3, <2>4 DEF OneAfterAnother
<1>7. ~overlaps => OneAfterAnother(u)
  <2> SUFFICES ASSUME ~overlaps, NEW j \in 1..Len(u) PROVE u[j].began = j - 1
    BY DEF OneAfterAnother
  <2>1. i = Len(t) /\ e.began = Len(t) /\ OneAfterAnother(t)
    BY <1>4 DEF TrailOK
  <2>2. CASE j = Len(u)
    BY <1>1, <1>5, <2>1, <2>2
  <2>3. CASE j # Len(u)
    <3>1. j \in 1..Len(t)
      BY <1>1, <2>3
    <3> QED BY <1>5, <2>1, <3>1 DEF OneAfterAnother
  <2> QED BY <2>2, <2>3
<1>8. ASSUME ~(overlaps /\ id \in Landlords)
      PROVE  Tells(u, now)
  <2>1. i + 1 \in 1..Len(u) /\ u[i + 1].after = now
    BY <1>1, <1>8
  <2>2. ~overlaps \/ u[Len(u)].began = Len(u) - 1 => u[Len(u)].after = now
    BY <1>4, <1>5, <1>8
  <2>3. ASSUME ~overlaps \/ OneAfterAnother(u), NEW j \in 1..Len(u) - 1
        PROVE  u[j].after = u[j + 1].before
    <3>1. i = Len(t) /\ e.began = Len(t) /\ (~overlaps \/ OneAfterAnother(t))
      BY <1>4, <1>6, <2>3
    <3>2. e.before = was
      BY <1>8, <3>1
    <3>3. j \in 1..Len(t) /\ Len(t) \in 1..Len(t) /\ t # <<>>
      BY <1>1, <2>3
    <3>4. Tells(t, was)
      BY <1>8, <3>3 DEF TrailOK
    <3>5. t[Len(t)].after = was
      BY <3>1, <3>3, <3>4 DEF Tells, OneAfterAnother
    <3>6. CASE j = Len(t)
      BY <1>1, <1>5, <3>1, <3>2, <3>3, <3>5, <3>6
    <3>7. CASE j # Len(t)
      <4>1. j \in 1..Len(t) - 1 /\ j + 1 \in 1..Len(t)
        BY <1>1, <3>3, <3>7
      <4>2. t[j].after = t[j + 1].before
        BY <3>1, <3>4, <4>1 DEF Tells
      <4> QED BY <1>5, <3>1, <3>3, <4>1, <4>2
    <3> QED BY <3>6, <3>7
  <2> QED BY <2>1, <2>2, <2>3 DEF Tells
<1> QED BY <1>3, <1>7, <1>8 DEF TrailOK, u

LEMMA FlushOK ==
    ASSUME RegistryInv, NEW r \in Clerks, Flush(r)
    PROVE  RegistryInv'
<1> PICK q : q = clerk[r]
  OBVIOUS
<1> DEFINE id == q.id
           new == Written(row[id], q)
           column == AuditedColumn(id)
<1>1. /\ q.do = "flush" /\ UpdateOK(q) /\ r \in Busy /\ Flushes(q)
      /\ UNCHANGED <<scope, overlaps>> /\ clerk' = [clerk EXCEPT ![r] = Waiting]
  BY FlushRows
<1>2. ~overlaps => Busy \subseteq {r} /\ AloneOK(q)
  BY <1>1 DEF RegistryInv, Alone
<1>3. CASE UNCHANGED <<row, trail>>
  <2>1. Promised(Waiting)
    BY DEF Promised
  <2> QED BY <1>1, <1>2, <1>3, <2>1, ClerkChange
<1>4. /\ id \in scope /\ row[id] # Absent /\ RowOK(id, row[id]) /\ ColumnsOK(id, q.set)
      /\ RowOK(id, q.was) /\ RowOK(id, q.loaded) /\ (id \notin Landlords => q.loaded = q.was)
      /\ trail \in [scope -> Seq(AuditEntry)] /\ trail[id] \in Seq(AuditEntry)
  BY <1>1 DEF UpdateOK, RegistryInv, RegistryTypeOK
<1>5. /\ RowOK(id, new) /\ (new.is = "live" => row[id].is = "live")
      /\ new.is = "deleted" => row[id].is = "deleted" \/ "is" \in DOMAIN q.set
      /\ \A c \in DOMAIN row[id] : \/ new[c] = row[id][c]
                                   \/ c \in DOMAIN q.set /\ new[c] = q.set[c]
  BY <1>4, WrittenRow
\* Alone, its neighborhood is there and it deletes none that a property is of.
<1>6. ~overlaps /\ id \in Properties /\ new.is = "live" => Present(new.neighborhood)
  <2> SUFFICES ASSUME ~overlaps, id \in Properties, new.is = "live"
               PROVE  Present(new["neighborhood"])
    OBVIOUS
  <2>1. Present(id) /\ id \in Known(Properties) /\ "neighborhood" \in DOMAIN row[id]
    BY <1>4, <1>5 DEF Present, Known, RowOK
  <2>2. Present(row[id]["neighborhood"])
    BY <2>1 DEF RegistryInv, NeighborhoodStays
  <2>3. "neighborhood" \in DOMAIN q.set => Present(q.set["neighborhood"])
    BY <1>1, <1>2 DEF AloneOK
  <2>4. new["neighborhood"] = row[id]["neighborhood"]
        \/ ("neighborhood" \in DOMAIN q.set /\ new["neighborhood"] = q.set["neighborhood"])
    BY <1>5, <2>1
  <2> QED BY <2>2, <2>3, <2>4
<1>7. ~overlaps /\ id \in Neighborhoods /\ Present(id) /\ new.is # "live" => ~HasProperties(id)
  <2> SUFFICES ASSUME ~overlaps, id \in Neighborhoods, Present(id), new.is # "live"
               PROVE  ~HasProperties(id)
    OBVIOUS
  <2>1. "is" \in DOMAIN q.set
    BY <1>5 DEF Present, RowOK
  <2> QED BY <1>1, <1>2, <2>1 DEF AloneOK
\* What is written where the flushed object was compared, and the row as it was
\* read if the request is alone.
<1>8. ~(overlaps /\ id \in Landlords) => q.loaded = q.was
  BY <1>1, <1>2, <1>4 DEF AloneOK
<1>9. ~overlaps => q.was = row[id]
  BY <1>1, <1>2 DEF AloneOK
<1>10. HasAudit(id) => column \in Audited /\ column \in DOMAIN row[id]
  BY <1>4, AuditedColumns DEF RowOK
<1>11. HasAudit(id) =>
         new[column] = IF column \in DOMAIN q.set /\ q.set[column] # q.loaded[column]
                       THEN q.set[column] ELSE row[id][column]
  BY <1>10 DEF Written
<1> HIDE DEF new
<1>12. ASSUME Indexed(id, new), row' = [row EXCEPT ![id] = new], Changes(q.was, q.set) = {},
              UNCHANGED trail
       PROVE  RegistryInv'
  <2>1. HasAudit(id) /\ ~(overlaps /\ id \in Landlords) => new[column] = row[id][column]
    BY <1>8, <1>10, <1>11, <1>12 DEF Changes
  <2>2. ~HasAudit(id) => trail[id] = <<>>
    BY <1>4 DEF RegistryInv, NoTrailYet
  <2>3. TrailOK(id, trail[id], row[id][column])
    BY <1>4 DEF RegistryInv, Trails
  <2>4. TrailOK(id, trail[id], new[column])
    BY <2>1, <2>2, <2>3 DEF TrailOK
  <2>5. HasAudit(id) /\ id \notin Landlords => new[column] = row[id][column]
    BY <2>1
  <2> HIDE DEF id, column
  <2> QED BY <1>1, <1>4, <1>5, <1>6, <1>7, <1>12, <2>2, <2>4, <2>5, RowChange DEF column
<1>13. ASSUME Indexed(id, new), row' = [row EXCEPT ![id] = new], column \in Changes(q.was, q.set),
              HasAudit(id), NEW i \in Places(id, Trailed(q)),
              trail' = [trail EXCEPT ![id] = InsertAt(trail[id], i + 1, Trailed(q))]
       PROVE  RegistryInv'
  <2> PICK t : t = trail[id]
    OBVIOUS
  <2> PICK e : e = Trailed(q)
    OBVIOUS
  <2>1. /\ column \in DOMAIN q.set /\ q.set[column] # q.was[column]
        /\ e.before = q.was[column] /\ e.after = q.set[column] /\ e.began = q.began
        /\ e \in AuditEntry
    <3>1. column \in DOMAIN q.set /\ q.set[column] # q.was[column]
      BY <1>13 DEF Changes
    <3>2. q.set[column] \in Values /\ q.was[column] \in Values
      BY <1>4, <1>10, <1>13, <3>1 DEF ColumnsOK, RowOK
    <3>3. q.began \in Nat
      BY <1>1 DEF UpdateOK
    <3> QED BY <3>1, <3>2, <3>3 DEF Trailed, AuditEntry
  <2>2. t \in Seq(AuditEntry) /\ Len(t) \in Nat
    BY <1>4
  <2>3. /\ e.began <= Len(t) /\ i \in e.began..Len(t)
        /\ id \notin Landlords /\ e.began = Len(t) => e.before = row[id][column]
    BY <1>1, <1>13, <2>1, <2>2 DEF UpdateOK, Places
  <2>4. ~(overlaps /\ id \in Landlords) => new[column] = e.after
    BY <1>8, <1>11, <1>13, <2>1
  <2>5. ~overlaps => e.began = Len(t) /\ e.before = row[id][column]
    BY <1>1, <1>2, <1>13, <2>1 DEF AloneOK
  <2>6. TrailOK(id, t, row[id][column])
    BY <1>4 DEF RegistryInv, Trails
  <2>7. trail' = [trail EXCEPT ![id] = InsertAt(t, i + 1, e)]
    BY <1>13
  <2> HIDE DEF id, column
  <2>8. PICK was, now : was = row[id][column] /\ now = new[column]
    OBVIOUS
  <2>9. /\ TrailOK(id, InsertAt(t, i + 1, e), now)
        /\ InsertAt(t, i + 1, e) \in Seq(AuditEntry) /\ Len(InsertAt(t, i + 1, e)) = Len(t) + 1
    <3>1. /\ ~(overlaps /\ id \in Landlords) => now = e.after
          /\ id \notin Landlords /\ e.began = Len(t) => e.before = was
          /\ ~overlaps => e.began = Len(t) /\ e.before = was
          /\ TrailOK(id, t, was)
      BY <2>3, <2>4, <2>5, <2>6, <2>8
    <3>2. e \in AuditEntry /\ t \in Seq(AuditEntry) /\ e.began <= Len(t) /\ i \in e.began..Len(t)
      BY <2>1, <2>2, <2>3
    <3>3. TrailOK(id, InsertAt(t, i + 1, e), now)
      BY <3>1, <3>2, TrailGrows
    <3>4. InsertAt(t, i + 1, e) \in Seq(AuditEntry) /\ Len(InsertAt(t, i + 1, e)) = Len(t) + 1
      <4>1. i \in 0..Len(t)
        BY <3>2 DEF AuditEntry
      <4> QED BY <3>2, <4>1, OneMore
    <3> QED BY <3>3, <3>4
  <2>10. /\ trail' \in [scope -> Seq(AuditEntry)] /\ trail'[id] = InsertAt(t, i + 1, e)
         /\ \A k \in scope \ {id} : trail'[k] = trail[k]
    BY <1>4, <2>7, <2>9
  <2>11. TrailOK(id, trail'[id], new[column]) /\ Len(trail[id]) < Len(trail'[id])
    BY <2>2, <2>8, <2>9, <2>10
  <2> QED BY <1>1, <1>4, <1>5, <1>6, <1>7, <1>13, <2>10, <2>11, RowChange DEF column
<1> QED BY <1>1, <1>3, <1>12, <1>13 DEF Flushes, new

-----------------------------------------------------------------------------
(* The theorems.                                                           *)

LEMMA NextRegistry == RegistryInv /\ [RegistryNext]_registryVars => RegistryInv'
<1> SUFFICES ASSUME RegistryInv, [RegistryNext]_registryVars PROVE RegistryInv'
  OBVIOUS
<1>1. CASE UNCHANGED registryVars
  BY <1>1, ContractOK DEF registryVars
<1>2. ASSUME NEW r \in Clerks,
             People(r) \/ Estate(r) \/ Bills(r) \/ SelectAgain(r) \/ Flush(r) \/ FlushInsert(r)
               \/ RollBack(r)
      PROVE  RegistryInv'
  BY <1>2, PeopleOK, EstateOK, BillsOK, SelectAgainOK, FlushOK, FlushInsertOK, RollBackOK
<1>3. ASSUME NEW p \in Known(Properties), NEW rt \in Known(Renters), ContractBegins(p, rt)
      PROVE  RegistryInv'
  BY <1>3, ContractOK DEF ContractBegins
<1>4. ASSUME NEW contract \in rented, ContractEnds(contract)
      PROVE  RegistryInv'
  BY <1>4, ContractOK DEF ContractEnds
<1> QED BY <1>1, <1>2, <1>3, <1>4 DEF RegistryNext

LEMMA RegistryInvariant == RegistrySpec => []RegistryInv
BY InitRegistry, NextRegistry, PTL DEF RegistrySpec

\* Rows keep the columns of their table, and requests promise such rows.
THEOREM RegistryTypeCorrect == RegistrySpec => []RegistryTypeOK
<1>1. RegistryInv => RegistryTypeOK
  BY DEF RegistryInv
<1> QED BY <1>1, RegistryInvariant, PTL

\* CA-01-07: whatever requests overlap, no two neighborhoods have one name.
THEOREM UniqueNamesHolds == RegistrySpec => []UniqueNames
<1>1. RegistryInv => UniqueNames
  BY DEF RegistryInv
<1> QED BY <1>1, RegistryInvariant, PTL

\* While requests do not overlap, no neighborhood of a property is deleted.
THEOREM NeighborhoodStaysHolds == RegistrySpec => []NeighborhoodStays
<1>1. RegistryInv => NeighborhoodStays
  BY DEF RegistryInv
<1> QED BY <1>1, RegistryInvariant, PTL

\* RN-D04: whatever requests overlap, but of landlords, one entry of a trail ends
\* in what the column is, and the last one if it began after the others were
\* committed; while none overlap, of landlords too, and the trail is a chain.
THEOREM TrailEndsInCurrentHolds == RegistrySpec => []TrailEndsInCurrent
<1>1. RegistryInv => TrailEndsInCurrent
  BY DEF RegistryInv, Trails, TrailOK, Tells, TrailEndsInCurrent
<1> QED BY <1>1, RegistryInvariant, PTL

\* RN-D02: no step brings a deleted row back, not even one that read it before.
LEMMA DeletedStep ==
    ASSUME RegistryInv, RegistryNext, NEW id \in scope, row[id].is = "deleted"
    PROVE  row'[id].is = "deleted"
<1>1. row[id] # Absent /\ RowOK(id, row[id])
  BY DEF Absent, RegistryInv, RegistryTypeOK
<1>2. ASSUME NEW r \in Clerks, Flush(r)
      PROVE  row'[id].is = "deleted"
  <2> PICK q : q = clerk[r]
    OBVIOUS
  <2>1. UpdateOK(q) /\ Flushes(q)
    BY <1>2, FlushRows
  <2>2. \/ UNCHANGED row
        \/ row' = [row EXCEPT ![q.id] = Written(row[q.id], q)]
    BY <2>1 DEF Flushes
  <2>3. CASE q.id = id /\ row' = [row EXCEPT ![q.id] = Written(row[q.id], q)]
    <3>1. ColumnsOK(id, q.set)
      BY <2>1, <2>3 DEF UpdateOK
    <3>2. /\ RowOK(id, Written(row[id], q))
          /\ Written(row[id], q).is = "live" => row[id].is = "live"
      BY <1>1, <3>1, WrittenRow
    <3>3. Written(row[id], q).is = "deleted"
      BY <3>2 DEF RowOK
    <3>4. row'[id] = Written(row[id], q)
      BY <2>3 DEF RegistryInv, RegistryTypeOK
    <3> QED BY <3>3, <3>4
  <2>4. CASE q.id # id /\ row' = [row EXCEPT ![q.id] = Written(row[q.id], q)]
    BY <2>4 DEF RegistryInv, RegistryTypeOK
  <2> QED BY <2>2, <2>3, <2>4
<1>3. ASSUME NEW r \in Clerks, FlushInsert(r)
      PROVE  row'[id].is = "deleted"
  <2>1. \/ UNCHANGED row
        \/ row[clerk[r].id] = Absent /\ row' = [row EXCEPT ![clerk[r].id] = clerk[r].set]
    BY <1>3 DEF FlushInsert
  <2> QED BY <1>1, <2>1 DEF RegistryInv, RegistryTypeOK
<1>4. ASSUME NEW r \in Clerks, SelectAgain(r) \/ RollBack(r)
      PROVE  row'[id].is = "deleted"
  BY <1>4 DEF SelectAgain, RollBack
<1>5. ASSUME NEW r \in Clerks, NEW q, Begins(r, q)
      PROVE  row'[id].is = "deleted"
  BY <1>5 DEF Begins
<1>6. ASSUME NEW r \in Clerks, People(r) \/ Estate(r) \/ Bills(r)
      PROVE  row'[id].is = "deleted"
  <2>1. \/ \E k, new : Insert(r, k, new)
        \/ \E k, columns : Update(r, k, columns)
    <3>1. CASE People(r)
      BY <3>1 DEF People, CreateLandlord, UpdateLandlord, DeleteLandlord, CreateRenter,
                  DeleteRenter, Delete
    <3>2. CASE Estate(r)
      BY <3>2 DEF Estate, CreateProperty, UpdateProperty, DeleteProperty, CreateServiceAccount,
                  DeleteServiceAccount, CreateNeighborhood, UpdateNeighborhood,
                  DeleteNeighborhood, Delete
    <3>3. CASE Bills(r)
      BY <3>3 DEF Bills, CreateRecurringCharge, UpdateRecurringCharge, CreateEntry, CorrectEntry
    <3> QED BY <1>6, <3>1, <3>2, <3>3
  <2>2. \E q : Begins(r, q)
    BY <2>1 DEF Insert, Update
  <2> QED BY <1>5, <2>2
<1>7. CASE UNCHANGED row
  BY <1>7
<1> QED BY <1>2, <1>3, <1>4, <1>6, <1>7 DEF RegistryNext, ContractBegins, ContractEnds

THEOREM DeletedStaysDeletedHolds == RegistrySpec => DeletedStaysDeleted
<1>1. RegistryInv /\ [RegistryNext]_registryVars =>
        [\A id \in scope : row[id].is = "deleted" => row'[id].is = "deleted"]_registryVars
  BY DeletedStep
<1> QED BY <1>1, RegistryInvariant, PTL DEF RegistrySpec, DeletedStaysDeleted

=============================================================================
