------------------------------- MODULE Families -------------------------------
(***************************************************************************)
(* The register of families: heads in residents, everybody else in         *)
(* family_members under a head (repository/resident_repository.go, called  *)
(* by usecase/resident_usecase.go).                                        *)
(*                                                                         *)
(* PromoteFamilyMemberToHead is one transaction of ten statements.  Its    *)
(* two SELECTs lock the rows they find until it ends, its own changes are  *)
(* seen by nobody before it commits, and each statement reads what others  *)
(* have committed by then (READ COMMITTED).  All other operations are      *)
(* statements that commit on their own.  A statement that needs a locked   *)
(* row waits: it is not enabled.  An INSERT, or an UPDATE to another head, *)
(* needs the row its foreign key names.                                    *)
(*                                                                         *)
(* A person is entered once.  What is known of a person, and the status of *)
(* a resident, decide nothing here and are not modelled.  Rows and persons *)
(* are numbered as they come: identifiers are random and never collide.    *)
(***************************************************************************)
EXTENDS Naturals, FiniteSets

CONSTANTS
  MaxPeople,    \* bound: persons to be entered
  MaxResidents, \* bound: rows that residents has ever had
  MaxMembers,   \* bound: rows that family_members has ever had
  Homes,        \* identifiers of rows of houses
  Kinds,        \* the tables with records of a resident, see Relinked
  Clerks,       \* request slots: the goroutines that may be in service
  NoRow,        \* an identifier without a row yet; a house without a head
  Gone          \* an identifier whose row was deleted

VARIABLES
  residents,  \* the table residents
  members,    \* the table family_members
  homes,      \* houses: head_resident_id
  records,    \* the rows of other tables that name a resident
  task,       \* what every request in service has read and will do next
  root,       \* history: the first head of the family a resident heads
  entered,    \* history: the family each person was entered in
  removed,    \* history: persons removed, alone or with their head
  housed,     \* history: the family each house was last given to
  past        \* history: the families that have had a record of each kind

familyTables == <<residents, members, homes, records>>

familyHistory == <<root, entered, removed, housed, past>>

familyVars == <<familyTables, task, familyHistory>>

-----------------------------------------------------------------------------
(***************************************************************************)
(* Types.                                                                  *)
(***************************************************************************)
People == 1..MaxPeople

ResidentIds == 1..MaxResidents

MemberIds == 1..MaxMembers

Resident == [person: People, deleted: BOOLEAN]

Member == [person: People, head: ResidentIds, deleted: BOOLEAN]

Free == [pc |-> "free"]

\* heir and old are the persons a promotion has read, moved and emptied the
\* members and houses that it has linked to the new head.
Promoting ==
  [pc: {"member"}, head: ResidentIds, member: MemberIds, old: People]
    \union [pc: {"relink"}, head: ResidentIds, member: MemberIds, old: People, heir: People]
    \union [pc: {"homes"}, head: ResidentIds, member: MemberIds, old: People, heir: People,
            moved: SUBSET MemberIds]
    \union [pc: {"drop"}, head: ResidentIds, member: MemberIds, old: People, heir: People,
            moved: SUBSET MemberIds, settled: SUBSET Homes, kept: SUBSET Kinds]

Task ==
  {Free} \union Promoting
    \union [pc: {"add"}, head: ResidentIds, person: People]
    \union [pc: {"sync"}, head: ResidentIds, home: Homes]

ASSUME FamilyBoundsAssumption == MaxPeople \in Nat /\ MaxResidents \in Nat /\ MaxMembers \in Nat

ASSUME RowsAssumption ==
  /\ NoRow \notin Resident \union Member \union ResidentIds
  /\ Gone \notin Resident \union Member \union ResidentIds \union {NoRow}

-----------------------------------------------------------------------------
(***************************************************************************)
(* Rows and locks.                                                         *)
(***************************************************************************)
IsRow(row) == row \notin {NoRow, Gone}

Listed(r) == IsRow(residents[r]) /\ ~residents[r].deleted

\* Slip the runs must notice: SELECT without FOR UPDATE.
NeverLocked(r) == FALSE

\* A promotion has locked the row of resident r.
Locked(r) == \E q \in Clerks : task[q].pc \in {"member", "relink", "homes", "drop"} /\ task[q].head = r

\* A promotion has locked, or changed, the row of member m.
MemberLocked(m) ==
  \E q \in Clerks :
    \/ task[q].pc \in {"relink", "homes", "drop"} /\ task[q].member = m
    \/ task[q].pc \in {"homes", "drop"} /\ m \in task[q].moved

HomeLocked(h) == \E q \in Clerks : task[q].pc = "drop" /\ h \in task[q].settled

\* Slip the runs must notice: no foreign key.
AlwaysReferable(r) == TRUE

\* What the foreign key of a row that names resident r asks for.
Referable(r) == IsRow(residents[r])

Under(r) == {m \in MemberIds : IsRow(members[m]) /\ members[m].head = r}

Do(q, record) == task' = [task EXCEPT ![q] = record]

NewResident(r) == residents[r] = NoRow /\ \A s \in 1..(r - 1) : residents[s] # NoRow

NewMember(m) == members[m] = NoRow /\ \A s \in 1..(m - 1) : members[s] # NoRow

Known(p) == entered[p] # NoRow \/ \E q \in Clerks : task[q].pc = "add" /\ task[q].person = p

NewPerson(p) == ~Known(p) /\ \A s \in 1..(p - 1) : Known(s)

FamiliesInit ==
  /\ residents = [r \in ResidentIds |-> NoRow]
  /\ members = [m \in MemberIds |-> NoRow]
  /\ homes = [h \in Homes |-> NoRow]
  /\ records = {}
  /\ task = [q \in Clerks |-> Free]
  /\ root = [r \in ResidentIds |-> NoRow]
  /\ entered = [p \in People |-> NoRow]
  /\ removed = {}
  /\ housed = [h \in Homes |-> NoRow]
  /\ past = {}

-----------------------------------------------------------------------------
(***************************************************************************)
(* Residents and members.                                                  *)
(***************************************************************************)

\* POST residents: a head of family, perhaps with a house to be told of it.
Enter(q, p, r, home) ==
  /\ task[q] = Free
  /\ NewPerson(p) /\ NewResident(r)
  /\ residents' = [residents EXCEPT ![r] = [person |-> p, deleted |-> FALSE]]
  /\ root' = [root EXCEPT ![r] = r]
  /\ entered' = [entered EXCEPT ![p] = r]
  /\ Do(q, IF home = NoRow THEN Free ELSE [pc |-> "sync", head |-> r, home |-> home])
  /\ UNCHANGED <<members, homes, records, removed, housed, past>>

\* PUT residents: the row of a head, removed or not, and then the house it
\* names.
Move(q, r, home) ==
  /\ task[q] = Free
  /\ IsRow(residents[r]) /\ ~Locked(r)
  /\ Do(q, [pc |-> "sync", head |-> r, home |-> home])
  /\ UNCHANGED <<familyTables, familyHistory>>

\* The house learns its head; an error goes unnoticed.
Settle(q) ==
  LET r == task[q].head
      h == task[q].home
  IN  /\ task[q].pc = "sync"
      /\ ~HomeLocked(h)
      /\ homes[h] # r => ~Locked(r)
      /\ IF Referable(r)
           THEN /\ homes' = [homes EXCEPT ![h] = r]
                /\ housed' = [housed EXCEPT ![h] = root[r]]
           ELSE UNCHANGED <<homes, housed>>
      /\ Do(q, Free)
      /\ UNCHANGED <<residents, members, records, root, entered, removed, past>>

\* DELETE residents: the row stays, marked, and so do the members under it.
Delete(r) ==
  /\ Listed(r) /\ ~Locked(r)
  /\ residents' = [residents EXCEPT ![r].deleted = TRUE]
  /\ removed' = removed \union {residents[r].person} \union {members[m].person : m \in Under(r)}
  /\ UNCHANGED <<members, homes, records, task, root, entered, housed, past>>

\* POST family: the head must be listed when it is looked up ...
AddCheck(q, p, r) ==
  /\ task[q] = Free
  /\ NewPerson(p) /\ Listed(r)
  /\ Do(q, [pc |-> "add", head |-> r, person |-> p])
  /\ UNCHANGED <<familyTables, familyHistory>>

\* ... and must have a row when the member is inserted.  A member that comes
\* under a head removed in between is removed with it.
AddInsert(q, m) ==
  LET r == task[q].head
      p == task[q].person
  IN  /\ task[q].pc = "add"
      /\ ~Locked(r)
      /\ IF Referable(r)
           THEN /\ NewMember(m)
                /\ members' = [members EXCEPT ![m] = [person |-> p, head |-> r, deleted |-> FALSE]]
                /\ entered' = [entered EXCEPT ![p] = root[r]]
                /\ removed' = IF Listed(r) THEN removed ELSE removed \union {p}
           ELSE UNCHANGED <<members, entered, removed>>
      /\ Do(q, Free)
      /\ UNCHANGED <<residents, homes, records, root, housed, past>>

\* DELETE family: a member of the head that is named.
Remove(m) ==
  /\ IsRow(members[m]) /\ ~members[m].deleted /\ ~MemberLocked(m)
  /\ members' = [members EXCEPT ![m].deleted = TRUE]
  /\ removed' = removed \union {members[m].person}
  /\ UNCHANGED <<residents, homes, records, task, root, entered, housed, past>>

\* A payment of dues, a participation in an event, and the like: the foreign
\* key is all that is asked of the resident.
Record(kind, r) ==
  /\ IsRow(residents[r]) /\ ~Locked(r)
  /\ records' = records \union {<<kind, r>>}
  /\ past' = past \union {<<kind, root[r]>>}
  /\ UNCHANGED <<residents, members, homes, task, root, entered, removed, housed>>

-----------------------------------------------------------------------------
(***************************************************************************)
(* POST promote-head: a member takes the place of the head.                *)
(***************************************************************************)

\* The first SELECT, of the head.  It asks for a row, not for a listed one.
PromoteHead(q, r, m) ==
  /\ task[q] = Free
  /\ IsRow(residents[r]) /\ ~Locked(r)
  /\ Do(q, [pc |-> "member", head |-> r, member |-> m, old |-> residents[r].person])
  /\ UNCHANGED <<familyTables, familyHistory>>

\* The second, of the member: removed ones are found too.
PromoteMember(q) ==
  LET r == task[q].head
      m == task[q].member
  IN  /\ task[q].pc = "member"
      /\ Do(q, IF m \in Under(r)
                 THEN [pc |-> "relink", head |-> r, member |-> m, old |-> task[q].old,
                       heir |-> members[m].person]
                 ELSE Free)
      /\ UNCHANGED <<familyTables, familyHistory>>

\* The new head is inserted, and the other members are linked to it.
PromoteRelink(q) ==
  LET t == task[q]
  IN  /\ t.pc = "relink"
      /\ Do(q, [pc |-> "homes", head |-> t.head, member |-> t.member, old |-> t.old,
                heir |-> t.heir, moved |-> Under(t.head) \ {t.member}])
      /\ UNCHANGED <<familyTables, familyHistory>>

\* Slip the runs must notice: the old head's records stay with its row.
NoneRelinked == {}

\* The tables that the promotion links to the new head.
Relinked == {"dues"}

\* The old head becomes a member, the promoted member's row goes; dues and
\* houses are linked to the new head.  A failure here aborts all.
PromoteHomes(q) ==
  LET t == task[q]
  IN  /\ t.pc = "homes"
      /\ Do(q, [pc |-> "drop", head |-> t.head, member |-> t.member, old |-> t.old,
                heir |-> t.heir, moved |-> t.moved,
                settled |-> {h \in Homes : homes[h] = t.head},
                kept |-> {k \in Kinds \intersect Relinked : <<k, t.head>> \in records}])
      /\ UNCHANGED <<familyTables, familyHistory>>

\* The last statement deletes the row of the old head, and with it what
\* still names it; then all of it is committed, with the rows n and o.
PromoteDrop(q, n, o) ==
  LET t == task[q]
      r == t.head
  IN  /\ t.pc = "drop"
      /\ NewResident(n) /\ NewMember(o)
      /\ residents' = [residents EXCEPT ![n] = [person |-> t.heir, deleted |-> FALSE],
                                        ![r] = Gone]
      /\ members' = [m \in MemberIds |->
                       IF m \in t.moved THEN [members[m] EXCEPT !.head = n]
                       ELSE IF m = o THEN [person |-> t.old, head |-> n, deleted |-> FALSE]
                       ELSE IF m = t.member \/ m \in Under(r) THEN Gone
                       ELSE members[m]]
      /\ homes' = [h \in Homes |-> IF h \in t.settled THEN n
                                   ELSE IF homes[h] = r THEN NoRow
                                   ELSE homes[h]]
      /\ records' = {e \in records : e[2] # r} \union {<<k, n>> : k \in t.kept}
      /\ root' = [root EXCEPT ![n] = root[r]]
      /\ Do(q, Free)
      /\ UNCHANGED <<entered, removed, housed, past>>

\* A request dies, or a statement fails: a transaction leaves nothing.
Break(q) ==
  /\ task[q] # Free
  /\ Do(q, Free)
  /\ UNCHANGED <<familyTables, familyHistory>>

FamiliesNext ==
  \/ \E q \in Clerks :
       \/ \E p \in People, r \in ResidentIds :
            \/ \E h \in Homes \union {NoRow} : Enter(q, p, r, h)
            \/ AddCheck(q, p, r)
       \/ \E r \in ResidentIds :
            \/ \E h \in Homes : Move(q, r, h)
            \/ \E m \in MemberIds : PromoteHead(q, r, m) \/ PromoteDrop(q, r, m)
       \/ \E m \in MemberIds : AddInsert(q, m)
       \/ Settle(q)
       \/ PromoteMember(q)
       \/ PromoteRelink(q)
       \/ PromoteHomes(q)
       \/ Break(q)
  \/ \E r \in ResidentIds : Delete(r) \/ \E k \in Kinds : Record(k, r)
  \/ \E m \in MemberIds : Remove(m)

FamiliesSpec == FamiliesInit /\ [][FamiliesNext]_familyVars

-----------------------------------------------------------------------------
(***************************************************************************)
(* Properties.                                                             *)
(***************************************************************************)

\* Types, and the foreign keys: what names a resident names one that exists.
FamiliesTypeOK ==
  /\ residents \in [ResidentIds -> Resident \union {NoRow, Gone}]
  /\ members \in [MemberIds -> Member \union {NoRow, Gone}]
  /\ homes \in [Homes -> ResidentIds \union {NoRow}]
  /\ records \subseteq Kinds \X ResidentIds
  /\ task \in [Clerks -> Task]
  /\ \A m \in MemberIds : IsRow(members[m]) => IsRow(residents[members[m].head])
  /\ \A h \in Homes : homes[h] # NoRow => IsRow(residents[homes[h]])

\* The listed places of a person: as a head, or as a member of one.
Headed(p) == {r \in ResidentIds : Listed(r) /\ residents[r].person = p}

Belonging(p) ==
  {m \in MemberIds : /\ IsRow(members[m])
                     /\ ~members[m].deleted
                     /\ members[m].person = p
                     /\ Listed(members[m].head)}

\* Whatever promotions, additions and removals meet, a person who was entered
\* and not removed is listed exactly once, and still in the same family.
EveryoneOnce ==
  \A p \in People :
    entered[p] # NoRow /\ p \notin removed =>
      /\ Cardinality(Headed(p)) + Cardinality(Belonging(p)) = 1
      /\ \A r \in Headed(p) : root[r] = entered[p]
      /\ \A m \in Belonging(p) : root[members[m].head] = entered[p]

\* A house keeps a head of the family it was given to last, whoever heads it
\* now: no promotion, and no edit that crosses one, leaves it without.
HomesFollow ==
  \A h \in Homes :
    housed[h] # NoRow => homes[h] # NoRow /\ root[homes[h]] = housed[h]

\* Nobody is lost to a family, and no house to its family.
FamiliesWhole == EveryoneOnce /\ HomesFollow

\* A record of a family stays with it through promotions ("agar data historis
\* tetap aman").
PastKept ==
  \A f \in past : \E e \in records : e[1] = f[1] /\ root[e[2]] = f[2]
=============================================================================
