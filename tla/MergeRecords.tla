---------------------------- MODULE MergeRecords ----------------------------
(***************************************************************************)
(* merge_records of opensesh-core/src/sync.rs, the three-way merge of a     *)
(* list of records (hosts, groups, snippets, tunnels...): one step per      *)
(* record of this side's list, then one per record of the other side's.     *)
(* A record is its id and its fields; ids are unique in a list.             *)
(***************************************************************************)
EXTENDS Naturals, Sequences, SequencesExt

CONSTANTS
    Ids,      \* record ids
    Fields,   \* the keys of a record's table
    Values,   \* what a field can hold
    Absent,   \* no such field, or no such record
    Inputs    \* families of inputs: the lists both sides started from (bases)
              \* and the lists each side may have made of them (sides)

\* Absent is none of Values.

VARIABLES
    base, ours, theirs,  \* the three lists
    out,                 \* the merged list so far
    conflicts,           \* the ids of the conflicts found so far
    i, j                 \* how many records of ours and of theirs are done

vars == <<base, ours, theirs, out, conflicts, i, j>>

NoFields == [f \in Fields |-> Absent]

IdsOf(list) == {list[n].id : n \in DOMAIN list}

(* by_id: the fields of a record in a list, or Absent.                       *)
FieldsIn(list, id) ==
    IF id \in IdsOf(list)
    THEN (CHOOSE r \in {list[n] : n \in DOMAIN list} : r.id = id).fields
    ELSE Absent

PositionOf(list, id) == CHOOSE n \in DOMAIN list : list[n].id = id

Init ==
    /\ \E family \in Inputs :
         base \in family.bases /\ ours \in family.sides /\ theirs \in family.sides
    /\ out = <<>>
    /\ conflicts = {}
    /\ i = 0 /\ j = 0

-----------------------------------------------------------------------------
(* merge_value for a field.                                                  *)
MergeValue(b, o, t) == IF o = t \/ t = b THEN o ELSE IF o = b THEN t ELSE o

(* merge_value for a record that both sides have, through merge_tables: the  *)
(* merged fields, and whether some field changed on both sides.              *)
MergeTables(b, o, t) ==
    LET from == IF b = Absent THEN NoFields ELSE b
    IN  IF o = t \/ t = b THEN o
        ELSE IF o = b THEN t
        ELSE [f \in Fields |-> MergeValue(from[f], o[f], t[f])]

Clash(b, o, t) ==
    LET from == IF b = Absent THEN NoFields ELSE b
    IN  \E f \in Fields : o[f] # t[f] /\ t[f] # from[f] /\ o[f] # from[f]

(* The next record of this side.                                             *)
MergeOurs ==
    /\ i < Len(ours)
    /\ i' = i + 1
    /\ LET r == ours[i + 1]
           b == FieldsIn(base, r.id)
           t == FieldsIn(theirs, r.id)
       IN  IF t # Absent
           THEN /\ out' = Append(out, [r EXCEPT !.fields = MergeTables(b, r.fields, t)])
                /\ conflicts' = conflicts \cup (IF Clash(b, r.fields, t) THEN {r.id} ELSE {})
           ELSE \* removed there, unless it was added here
                /\ out' = IF b = r.fields THEN out ELSE Append(out, r)
                /\ conflicts' = conflicts \cup (IF b \in {Absent, r.fields} THEN {} ELSE {r.id})
    /\ UNCHANGED <<base, ours, theirs, j>>

(* Mutant: every new record of the other side at the front.                  *)
PlaceFirst(n) == 1

(* Where a record of the other side goes: after the nearest record before it *)
(* there that is already placed, or first.                                   *)
PlaceAfter(n) ==
    LET placed == {m \in 1 .. n - 1 : theirs[m].id \in IdsOf(out)}
    IN  IF placed = {} THEN 1
        ELSE PositionOf(out, theirs[Max(placed)].id) + 1

(* The next record of the other side, once this side's are done.             *)
InsertTheirs ==
    /\ i = Len(ours) /\ j < Len(theirs)
    /\ j' = j + 1
    /\ LET r == theirs[j + 1]
           b == FieldsIn(base, r.id)
       IN  IF r.id \in IdsOf(ours) \/ b = r.fields
           THEN UNCHANGED <<out, conflicts>>
           ELSE /\ out' = InsertAt(out, PlaceAfter(j + 1), r)
                /\ conflicts' = conflicts \cup (IF b = Absent THEN {} ELSE {r.id})
    /\ UNCHANGED <<base, ours, theirs, i>>

Finished == i = Len(ours) /\ j = Len(theirs)

Next == MergeOurs \/ InsertTheirs

Spec == Init /\ [][Next]_vars

-----------------------------------------------------------------------------
(* What a side did to a record.                                              *)
Changed(side, id) == FieldsIn(side, id) # FieldsIn(base, id)

(* Nothing either side did alone is undone: a record that only one side      *)
(* added, changed or removed ends as that side has it, and a field that only *)
(* one side changed, in a record both have, has that side's value.           *)
OneSidedKept ==
    Finished => \A id \in Ids :
        /\ ~Changed(theirs, id) => FieldsIn(out, id) = FieldsIn(ours, id)
        /\ ~Changed(ours, id) => FieldsIn(out, id) = FieldsIn(theirs, id)
        /\ (Absent \notin {FieldsIn(base, id), FieldsIn(ours, id), FieldsIn(theirs, id)}) =>
             \A f \in Fields :
                LET b == FieldsIn(base, id)[f]
                    o == FieldsIn(ours, id)[f]
                    t == FieldsIn(theirs, id)[f]
                IN  FieldsIn(out, id)[f] = IF o = b THEN t ELSE o

(* No record is lost to a conflict: one that either side added or changed is *)
(* in the result, whatever the other side did to it, and it is there once.   *)
ChangesSurvive ==
    Finished =>
        /\ \A id \in IdsOf(ours) : Changed(ours, id) => id \in IdsOf(out)
        /\ \A id \in IdsOf(theirs) : Changed(theirs, id) => id \in IdsOf(out)
        /\ Len(out) = Cardinality(IdsOf(out))

(* Every overruled change is told, and nothing else: a conflict is listed    *)
(* exactly when a change of the other side is not in the result, or a record *)
(* one side removed is back.                                                 *)
ConflictsTold ==
    Finished => \A id \in Ids :
        LET b == FieldsIn(base, id)
            o == FieldsIn(ours, id)
            t == FieldsIn(theirs, id)
            m == FieldsIn(out, id)
            overruled == t # Absent /\ m # Absent
                         /\ \E f \in Fields :
                              t[f] # (IF b = Absent THEN Absent ELSE b[f]) /\ m[f] # t[f]
            back == m # Absent /\ b # Absent /\ Absent \in {o, t}
        IN  id \in conflicts <=> (overruled \/ back)

(* The user's own order of the list stays, and a record that comes from the  *)
(* other side stands behind every record it follows there, unless this side  *)
(* moved those.                                                              *)
OrderKept ==
    Finished => \A x, y \in IdsOf(out) :
        LET Before(list) == {x, y} \subseteq IdsOf(list)
                            /\ PositionOf(list, x) < PositionOf(list, y)
        IN  /\ Before(ours) => Before(out)
            /\ (x # y /\ y \notin IdsOf(ours) /\ Before(theirs)
                /\ PositionOf(theirs, y) = PositionOf(theirs, x) + 1) => Before(out)

=============================================================================
