---------------------------- MODULE MemoryProofs ----------------------------
(***************************************************************************)
(* Proofs about MemoryStorage, for any number of calls with any rows: its  *)
(* four lists change as the storage contract says.                         *)
(***************************************************************************)
EXTENDS MemoryProps, FiniteSetTheorems, WellFoundedInduction, TLAPS

\* The rows of the two lists that stand for tables with a key.
SchemaListRow ==
  [workspace_key : Workspace, pkey : PKey, canonical_name : Name,
   data_type : DataType, is_global : BOOLEAN]

GlobalListRow == [workspace_key : Workspace, name : Name, data_type : DataType]

\* The shape of the state.
ListsTyped ==
  /\ globals \in Seq(GlobalListRow)
  /\ schema \in Seq(SchemaListRow)
  /\ decisions \in Seq(DecisionRow)
  /\ signals \in Seq(SignalRow)
  /\ log \in Seq(Attempt)

LEMMA CallTypes ==
  ASSUME MemoryAssumption, NEW a \in Attempt
  PROVE  /\ CallOf(a).method \in {"insert_decision", "upsert_schema_row", "upsert_signal",
                                 "add_global_column"}
         /\ CallOf(a).method = "insert_decision" => CallOf(a).row \in DecisionRow
         /\ CallOf(a).method = "upsert_schema_row" => CallOf(a).row \in SchemaListRow
         /\ CallOf(a).method = "upsert_signal" => CallOf(a).row \in SignalRow
         /\ CallOf(a).method = "add_global_column" => CallOf(a).row \in GlobalListRow
<1>1. CallOf(a) \in StoreCall
  BY DEF MemoryAssumption
<1> QED BY <1>1 DEF StoreCall, SchemaListRow, GlobalListRow

-----------------------------------------------------------------------------
(* The first index of a list.                                               *)

LEMMA LeastIndex ==
  ASSUME NEW I, I \subseteq Nat, I # {}
  PROVE  /\ Min(I) \in I
         /\ \A j \in I : Min(I) <= j
<1> DEFINE R == OpToRel(<, Nat)
<1>1. IsWellFoundedOn(R, Nat)
  BY NatLessThanWellFounded
<1>2. \A i, j \in Nat : j < i => <<j, i>> \in R
  BY DEF OpToRel
<1> HIDE DEF R
<1>3. PICK i \in I : \A j \in I : ~(<<j, i>> \in R)
  BY <1>1, WFMin
<1>4. ASSUME NEW j \in I PROVE i <= j
  <2>1. i \in Nat /\ j \in Nat
    OBVIOUS
  <2>2. ~(j < i)
    BY <1>2, <1>3, <2>1
  <2> QED BY <2>1, <2>2
<1> QED BY <1>4 DEF Min

LEMMA OnlyIndex ==
  ASSUME NEW i \in Nat
  PROVE  Min({i}) = i
<1>1. {i} \subseteq Nat /\ {i} # {}
  OBVIOUS
<1>2. Min({i}) \in {i}
  BY <1>1, LeastIndex
<1> QED BY <1>2

\* The places of the rows with a key, and the row that stands for it.
SchemaPlaces(s, w, p, n) ==
  {i \in 1..Len(s) : s[i].workspace_key = w /\ s[i].pkey = p /\ s[i].canonical_name = n}

SchemaRowOf(s, w, p, n) ==
  LET i == Min(SchemaPlaces(s, w, p, n))
  IN  IF SchemaPlaces(s, w, p, n) = {} THEN None
      ELSE [data_type |-> s[i].data_type, is_global |-> s[i].is_global]

GlobalPlaces(s, w, n) == {i \in 1..Len(s) : s[i].workspace_key = w /\ s[i].name = n}

GlobalTypeOf(s, w, n) ==
  IF GlobalPlaces(s, w, n) = {} THEN None ELSE s[Min(GlobalPlaces(s, w, n))].data_type

LEMMA SchemaTableIs ==
         SchemaTable = [w \in Workspace |-> [p \in PKey |-> [n \in Name |->
                          SchemaRowOf(schema, w, p, n)]]]
<1>1. ASSUME NEW w \in Workspace, NEW p \in PKey, NEW n \in Name
      PROVE  LET i == SchemaIndex([workspace_key |-> w, pkey |-> p, canonical_name |-> n])
             IN  (IF i = 0 THEN None
                  ELSE [data_type |-> schema[i].data_type, is_global |-> schema[i].is_global])
                 = SchemaRowOf(schema, w, p, n)
  <2> DEFINE r == [workspace_key |-> w, pkey |-> p, canonical_name |-> n]
  <2>1. SchemaIndex(r) = IF SchemaPlaces(schema, w, p, n) # {}
                           THEN Min(SchemaPlaces(schema, w, p, n)) ELSE 0
    BY DEF SchemaIndex, SelectInSeq, SchemaPlaces
  <2>2. SchemaPlaces(schema, w, p, n) \subseteq Nat \ {0}
    BY DEF SchemaPlaces
  <2>3. SchemaPlaces(schema, w, p, n) # {} => Min(SchemaPlaces(schema, w, p, n)) # 0
    BY <2>2, LeastIndex
  <2> QED BY <2>1, <2>3 DEF SchemaRowOf
<1> QED BY <1>1 DEF SchemaTable

LEMMA GlobalTableIs ==
         GlobalTable = [w \in Workspace |-> [n \in Name |-> GlobalTypeOf(globals, w, n)]]
<1>1. ASSUME NEW w \in Workspace, NEW n \in Name
      PROVE  LET i == SelectInSeq(globals, LAMBDA g : g.workspace_key = w /\ g.name = n)
             IN  (IF i = 0 THEN None ELSE globals[i].data_type) = GlobalTypeOf(globals, w, n)
  <2>1. SelectInSeq(globals, LAMBDA g : g.workspace_key = w /\ g.name = n)
        = IF GlobalPlaces(globals, w, n) # {} THEN Min(GlobalPlaces(globals, w, n)) ELSE 0
    BY DEF SelectInSeq, GlobalPlaces
  <2>2. GlobalPlaces(globals, w, n) \subseteq Nat \ {0}
    BY DEF GlobalPlaces
  <2>3. GlobalPlaces(globals, w, n) # {} => Min(GlobalPlaces(globals, w, n)) # 0
    BY <2>2, LeastIndex
  <2> QED BY <2>1, <2>3 DEF GlobalTypeOf
<1> QED BY <1>1 DEF GlobalTable

LEMMA TablesAfter ==
  /\ GlobalTable' = [w \in Workspace |-> [n \in Name |-> GlobalTypeOf(globals', w, n)]]
  /\ SchemaTable' = [w \in Workspace |-> [p \in PKey |-> [n \in Name |->
                       SchemaRowOf(schema', w, p, n)]]]
<1>1. (GlobalTable = [w \in Workspace |-> [n \in Name |-> GlobalTypeOf(globals, w, n)]])'
  BY GlobalTableIs, PTL
<1>2. (SchemaTable = [w \in Workspace |-> [p \in PKey |-> [n \in Name |->
                        SchemaRowOf(schema, w, p, n)]]])'
  BY SchemaTableIs, PTL
<1> QED BY <1>1, <1>2

\* The tables are a matter of their lists.
LEMMA TablesStay ==
  /\ globals' = globals => GlobalTable' = GlobalTable
  /\ schema' = schema => SchemaTable' = SchemaTable
BY GlobalTableIs, SchemaTableIs, TablesAfter

-----------------------------------------------------------------------------
(* The inventory.                                                           *)

\* List t is list s with r written: it stands for its key, the others stay.
Writes(t, s, r) ==
  /\ t \in Seq(SchemaListRow)
  /\ \A w \in Workspace, p \in PKey, n \in Name :
       SchemaRowOf(t, w, p, n) =
         IF w = r.workspace_key /\ p = r.pkey /\ n = r.canonical_name
           THEN [data_type |-> r.data_type, is_global |-> r.is_global]
           ELSE SchemaRowOf(s, w, p, n)

\* A new row of a key of its own.
LEMMA SchemaRowAppended ==
  ASSUME NEW s \in Seq(SchemaListRow), NEW r \in SchemaListRow,
         SchemaPlaces(s, r.workspace_key, r.pkey, r.canonical_name) = {}
  PROVE  Writes(Append(s, r), s, r)
<1> DEFINE t == Append(s, r)
           row == [data_type |-> r.data_type, is_global |-> r.is_global]
<1>1. /\ Len(s) \in Nat /\ Len(t) = Len(s) + 1 /\ t[Len(s) + 1] = r
      /\ \A i \in 1..Len(s) : t[i] = s[i]
      /\ t \in Seq(SchemaListRow)
  OBVIOUS
<1> HIDE DEF t
<1>2. SchemaRowOf(t, r.workspace_key, r.pkey, r.canonical_name) = row
  <2>1. SchemaPlaces(t, r.workspace_key, r.pkey, r.canonical_name) = {Len(s) + 1}
    BY <1>1 DEF SchemaPlaces
  <2>2. Min({Len(s) + 1}) = Len(s) + 1
    BY <1>1, OnlyIndex
  <2> QED BY <1>1, <2>1, <2>2 DEF SchemaRowOf
<1>3. ASSUME NEW w, NEW p, NEW n, ~(w = r.workspace_key /\ p = r.pkey /\ n = r.canonical_name)
      PROVE  SchemaRowOf(t, w, p, n) = SchemaRowOf(s, w, p, n)
  <2>1. SchemaPlaces(t, w, p, n) = SchemaPlaces(s, w, p, n)
    BY <1>1, <1>3 DEF SchemaPlaces
  <2>2. SchemaPlaces(s, w, p, n) # {} => Min(SchemaPlaces(s, w, p, n)) \in 1..Len(s)
    <3>1. SchemaPlaces(s, w, p, n) \subseteq 1..Len(s) /\ SchemaPlaces(s, w, p, n) \subseteq Nat
      BY DEF SchemaPlaces
    <3> QED BY <3>1, LeastIndex
  <2> QED BY <1>1, <2>1, <2>2 DEF SchemaRowOf
<1> QED BY <1>1, <1>2, <1>3 DEF Writes, t

Renewed(s, r) ==
  LET i == Min(SchemaPlaces(s, r.workspace_key, r.pkey, r.canonical_name))
  IN  [s EXCEPT ![i].data_type = r.data_type, ![i].is_global = r.is_global]

\* A new form of the first row of a key that is there already.
LEMMA SchemaRowRenewed ==
  ASSUME NEW s \in Seq(SchemaListRow), NEW r \in SchemaListRow,
         SchemaPlaces(s, r.workspace_key, r.pkey, r.canonical_name) # {}
  PROVE  Writes(Renewed(s, r), s, r)
<1> DEFINE places == SchemaPlaces(s, r.workspace_key, r.pkey, r.canonical_name)
           i == Min(places)
           u == [s[i] EXCEPT !.data_type = r.data_type, !.is_global = r.is_global]
           t == [s EXCEPT ![i] = u]
           row == [data_type |-> r.data_type, is_global |-> r.is_global]
<1>1. i \in places /\ i \in 1..Len(s)
  <2>1. places \subseteq 1..Len(s) /\ places \subseteq Nat
    BY DEF SchemaPlaces
  <2> QED BY <2>1, LeastIndex
<1>2. /\ s[i].workspace_key = r.workspace_key /\ s[i].pkey = r.pkey
      /\ s[i].canonical_name = r.canonical_name
  BY <1>1 DEF SchemaPlaces
<1>3. Renewed(s, r) = t
  BY <1>1 DEF Renewed
<1>4. /\ u \in SchemaListRow /\ u.workspace_key = s[i].workspace_key /\ u.pkey = s[i].pkey
      /\ u.canonical_name = s[i].canonical_name
      /\ u.data_type = r.data_type /\ u.is_global = r.is_global
  <2>1. s[i] \in SchemaListRow
    BY <1>1
  <2> QED BY <2>1 DEF SchemaListRow
<1> HIDE DEF u, i
<1>5. /\ t \in Seq(SchemaListRow) /\ Len(t) = Len(s) /\ t[i] = u
      /\ \A j \in 1..Len(s) : j # i => t[j] = s[j]
  BY <1>1, <1>4
<1> HIDE DEF t
<1>6. \A w, p, n : SchemaPlaces(t, w, p, n) = SchemaPlaces(s, w, p, n)
  BY <1>1, <1>4, <1>5 DEF SchemaPlaces
<1>7. SchemaRowOf(t, r.workspace_key, r.pkey, r.canonical_name) = row
  <2>1. SchemaPlaces(t, r.workspace_key, r.pkey, r.canonical_name) = places
    BY <1>6
  <2> QED BY <1>1, <1>4, <1>5, <2>1 DEF SchemaRowOf, i
<1>8. ASSUME NEW w, NEW p, NEW n, ~(w = r.workspace_key /\ p = r.pkey /\ n = r.canonical_name)
      PROVE  SchemaRowOf(t, w, p, n) = SchemaRowOf(s, w, p, n)
  <2> DEFINE j == Min(SchemaPlaces(s, w, p, n))
  <2>1. CASE SchemaPlaces(s, w, p, n) = {}
    BY <1>6, <2>1 DEF SchemaRowOf
  <2>2. CASE SchemaPlaces(s, w, p, n) # {}
    <3>1. SchemaPlaces(s, w, p, n) \subseteq Nat
      BY DEF SchemaPlaces
    <3>2. j \in SchemaPlaces(s, w, p, n)
      BY <2>2, <3>1, LeastIndex
    <3> HIDE DEF j
    <3>3. j \in 1..Len(s) /\ j # i
      BY <1>2, <1>8, <3>2 DEF SchemaPlaces
    <3>4. t[j] = s[j]
      BY <1>5, <3>3
    <3>5. SchemaPlaces(t, w, p, n) = SchemaPlaces(s, w, p, n)
      BY <1>6
    <3> QED BY <2>2, <3>4, <3>5 DEF SchemaRowOf, j
  <2> QED BY <2>1, <2>2
<1>9. Writes(t, s, r)
  BY <1>5, <1>7, <1>8 DEF Writes
<1> QED BY <1>3, <1>9

IsInventory(S) ==
  S = [w \in Workspace |-> [p \in PKey |-> [n \in Name |-> S[w][p][n]]]]

RowPut(S, w, p, n, row) == [S EXCEPT ![w][p][n] = row]

\* Two inventories that differ in one row.
LEMMA RowReplaced ==
  ASSUME NEW S, NEW T, IsInventory(S), IsInventory(T),
         NEW a \in Workspace, NEW b \in PKey, NEW c \in Name, NEW row,
         \A w \in Workspace, p \in PKey, n \in Name :
           T[w][p][n] = IF w = a /\ p = b /\ n = c THEN row ELSE S[w][p][n]
  PROVE  T = RowPut(S, a, b, c, row)
<1> DEFINE U == [S EXCEPT ![a][b][c] = row]
<1>1. U = [S EXCEPT ![a] = [S[a] EXCEPT ![b] = [S[a][b] EXCEPT ![c] = row]]]
  OBVIOUS
<1>2. \A w \in Workspace : /\ S[w] = [p \in PKey |-> [n \in Name |-> S[w][p][n]]]
                           /\ T[w] = [p \in PKey |-> [n \in Name |-> T[w][p][n]]]
  BY DEF IsInventory
<1>3. \A w \in Workspace, p \in PKey : /\ S[w][p] = [n \in Name |-> S[w][p][n]]
                                       /\ T[w][p] = [n \in Name |-> T[w][p][n]]
  BY <1>2
<1>4. T[a][b] = [S[a][b] EXCEPT ![c] = row]
  <2>1. \A n \in Name : T[a][b][n] = IF n = c THEN row ELSE S[a][b][n]
    OBVIOUS
  <2> QED BY <1>3, <2>1
<1>5. ASSUME NEW p \in PKey, p # b PROVE T[a][p] = S[a][p]
  <2>1. \A n \in Name : T[a][p][n] = S[a][p][n]
    BY <1>5
  <2>2. [n \in Name |-> T[a][p][n]] = [n \in Name |-> S[a][p][n]]
    BY <2>1
  <2>3. /\ T[a][p] = [n \in Name |-> T[a][p][n]]
        /\ S[a][p] = [n \in Name |-> S[a][p][n]]
    BY <1>3
  <2> QED BY <2>2, <2>3
<1>6. T[a] = [S[a] EXCEPT ![b] = T[a][b]]
  BY <1>2, <1>5
<1>7. ASSUME NEW w \in Workspace, w # a PROVE T[w] = S[w]
  <2>1. \A p \in PKey, n \in Name : T[w][p][n] = S[w][p][n]
    BY <1>7
  <2>2. [p \in PKey |-> [n \in Name |-> T[w][p][n]]] = [p \in PKey |-> [n \in Name |-> S[w][p][n]]]
    BY <2>1
  <2> QED BY <1>2, <2>2, Zenon
<1>8. T = [S EXCEPT ![a] = T[a]]
  BY <1>7 DEF IsInventory
<1> QED BY <1>1, <1>4, <1>6, <1>8 DEF RowPut

LEMMA UpsertSchemaRowMaps ==
  ASSUME MemoryAssumption, ListsTyped, NEW r \in SchemaListRow, UpsertSchemaRow(r)
  PROVE  /\ schema' \in Seq(SchemaListRow)
         /\ SchemaTable' = [SchemaTable EXCEPT ![r.workspace_key][r.pkey][r.canonical_name] =
                              [data_type |-> r.data_type, is_global |-> r.is_global]]
<1> DEFINE row == [data_type |-> r.data_type, is_global |-> r.is_global]
           places == SchemaPlaces(schema, r.workspace_key, r.pkey, r.canonical_name)
<1>1. schema \in Seq(SchemaListRow)
      /\ r.workspace_key \in Workspace /\ r.pkey \in PKey /\ r.canonical_name \in Name
  BY DEF ListsTyped, SchemaListRow
<1>2. /\ SchemaIndex(r) = IF places # {} THEN Min(places) ELSE 0
      /\ places # {} => Min(places) # 0
  <2>1. SchemaIndex(r) = IF places # {} THEN Min(places) ELSE 0
    BY DEF SchemaIndex, SelectInSeq, SchemaPlaces
  <2>2. places \subseteq Nat \ {0}
    BY DEF SchemaPlaces
  <2> QED BY <2>1, <2>2, LeastIndex
<1>3. schema' = IF places # {}
                  THEN [schema EXCEPT ![Min(places)].data_type = r.data_type,
                                      ![Min(places)].is_global = r.is_global]
                  ELSE Append(schema, r)
  BY <1>2 DEF UpsertSchemaRow
<1>4. Writes(schema', schema, r)
  <2>1. CASE places = {}
    <3>1. schema' = Append(schema, r)
      BY <1>3, <2>1
    <3> QED BY <1>1, <2>1, <3>1, SchemaRowAppended
  <2>2. CASE places # {}
    <3>1. schema' = [schema EXCEPT ![Min(places)].data_type = r.data_type,
                                   ![Min(places)].is_global = r.is_global]
      BY <1>3, <2>2
    <3>2. schema' = Renewed(schema, r)
      BY <3>1 DEF Renewed
    <3> QED BY <1>1, <2>2, <3>2, SchemaRowRenewed
  <2> QED BY <2>1, <2>2
<1>5. ASSUME NEW w \in Workspace, NEW p \in PKey, NEW n \in Name
      PROVE  SchemaTable'[w][p][n] =
               IF w = r.workspace_key /\ p = r.pkey /\ n = r.canonical_name
                 THEN row ELSE SchemaTable[w][p][n]
  BY <1>4, SchemaTableIs, TablesAfter DEF Writes
<1> HIDE DEF row
<1>6. /\ IsInventory(SchemaTable) /\ IsInventory(SchemaTable')
  <2>1. IsInventory(SchemaTable)
    BY SchemaTableIs DEF IsInventory
  <2>2. IsInventory(SchemaTable')
    BY TablesAfter DEF IsInventory
  <2> QED BY <2>1, <2>2
<1>7. SchemaTable' = [SchemaTable EXCEPT ![r.workspace_key][r.pkey][r.canonical_name] = row]
  <2>1. \A w \in Workspace, p \in PKey, n \in Name :
          SchemaTable'[w][p][n] =
            IF w = r.workspace_key /\ p = r.pkey /\ n = r.canonical_name
              THEN row ELSE SchemaTable[w][p][n]
    BY <1>5
  <2>2. SchemaTable' = RowPut(SchemaTable, r.workspace_key, r.pkey, r.canonical_name, row)
    BY <1>1, <1>6, <2>1, RowReplaced
  <2> QED BY <2>2 DEF RowPut
<1> QED BY <1>4, <1>7 DEF Writes, row

-----------------------------------------------------------------------------
(* The global columns.                                                      *)

LEMMA AddGlobalColumnMaps ==
  ASSUME MemoryAssumption, StorageAssumption, ListsTyped, NEW r \in GlobalListRow,
         AddGlobalColumn(r)
  PROVE  /\ globals' \in Seq(GlobalListRow)
         /\ GlobalTable' = IF GlobalTable[r.workspace_key][r.name] = None
                             THEN [GlobalTable EXCEPT ![r.workspace_key][r.name] = r.data_type]
                             ELSE GlobalTable
<1> DEFINE places == GlobalPlaces(globals, r.workspace_key, r.name)
<1>1. globals \in Seq(GlobalListRow) /\ r.workspace_key \in Workspace /\ r.name \in Name
  BY DEF ListsTyped, GlobalListRow
<1>2. CASE places # {}
  <2>1. globals' = globals
    BY <1>1, <1>2 DEF AddGlobalColumn, GlobalPlaces
  <2>2. Min(places) \in 1..Len(globals)
    <3>1. places \subseteq Nat /\ places \subseteq 1..Len(globals)
      BY DEF GlobalPlaces
    <3> QED BY <1>2, <3>1, LeastIndex
  <2>3. globals[Min(places)].data_type # None
    <3>1. globals[Min(places)] \in GlobalListRow
      BY <1>1, <2>2
    <3> QED BY <3>1 DEF GlobalListRow, StorageAssumption
  <2>4. GlobalTable[r.workspace_key][r.name] # None
    <3>1. GlobalTable[r.workspace_key][r.name] = GlobalTypeOf(globals, r.workspace_key, r.name)
      BY <1>1, GlobalTableIs
    <3> QED BY <1>2, <2>3, <3>1 DEF GlobalTypeOf
  <2>5. GlobalTable' = GlobalTable
    BY <2>1, TablesStay
  <2> QED BY <1>1, <2>1, <2>4, <2>5
<1>3. CASE places = {}
  <2>1. globals' = Append(globals, r)
    BY <1>1, <1>3 DEF AddGlobalColumn, GlobalPlaces
  <2>2. /\ Len(globals) \in Nat /\ Len(globals') = Len(globals) + 1
        /\ globals'[Len(globals) + 1] = r
        /\ \A i \in 1..Len(globals) : globals'[i] = globals[i]
        /\ globals' \in Seq(GlobalListRow)
    BY <1>1, <2>1
  <2>3. ASSUME NEW w \in Workspace, NEW n \in Name
        PROVE  GlobalTypeOf(globals', w, n) =
                 IF w = r.workspace_key /\ n = r.name THEN r.data_type
                 ELSE GlobalTypeOf(globals, w, n)
    <3>1. CASE w = r.workspace_key /\ n = r.name
      <4>1. GlobalPlaces(globals', w, n) = {Len(globals) + 1}
        BY <1>3, <2>2, <3>1 DEF GlobalPlaces
      <4>2. Min({Len(globals) + 1}) = Len(globals) + 1
        BY <2>2, OnlyIndex
      <4> QED BY <2>2, <3>1, <4>1, <4>2 DEF GlobalTypeOf
    <3>2. CASE ~(w = r.workspace_key /\ n = r.name)
      <4>1. GlobalPlaces(globals', w, n) = GlobalPlaces(globals, w, n)
        BY <2>2, <3>2 DEF GlobalPlaces
      <4>2. GlobalPlaces(globals, w, n) # {} => Min(GlobalPlaces(globals, w, n)) \in 1..Len(globals)
        <5>1. GlobalPlaces(globals, w, n) \subseteq 1..Len(globals)
              /\ GlobalPlaces(globals, w, n) \subseteq Nat
          BY DEF GlobalPlaces
        <5> QED BY <5>1, LeastIndex
      <4> QED BY <2>2, <3>2, <4>1, <4>2 DEF GlobalTypeOf
    <3> QED BY <3>1, <3>2
  <2>4. GlobalTable = [w \in Workspace |-> [n \in Name |-> GlobalTypeOf(globals, w, n)]]
    BY <1>1, GlobalTableIs
  <2>5. GlobalTable' = [w \in Workspace |-> [n \in Name |-> GlobalTypeOf(globals', w, n)]]
    BY TablesAfter
  <2>6. GlobalTable[r.workspace_key][r.name] = None
    BY <1>1, <1>3, <2>4 DEF GlobalTypeOf
  <2>7. GlobalTable' = [GlobalTable EXCEPT ![r.workspace_key][r.name] = r.data_type]
    BY <1>1, <2>3, <2>4, <2>5
  <2> QED BY <2>2, <2>6, <2>7
<1> QED BY <1>2, <1>3

-----------------------------------------------------------------------------
(* The refinement: each call is the step of the contract.                   *)

LEMMA ToSetGrows ==
  ASSUME NEW s \in Seq(Attempt), NEW a
  PROVE  ToSet(Append(s, a)) = ToSet(s) \cup {a}
<1>1. /\ Len(s) \in Nat /\ DOMAIN s = 1..Len(s)
      /\ DOMAIN Append(s, a) = 1..(Len(s) + 1)
      /\ Append(s, a)[Len(s) + 1] = a
      /\ \A i \in 1..Len(s) : Append(s, a)[i] = s[i]
  OBVIOUS
<1>2. ASSUME NEW x \in ToSet(Append(s, a)) PROVE x \in ToSet(s) \cup {a}
  BY <1>1, <1>2 DEF ToSet
<1>3. ASSUME NEW x \in ToSet(s) PROVE x \in ToSet(Append(s, a))
  BY <1>1, <1>3 DEF ToSet
<1>4. a \in ToSet(Append(s, a))
  BY <1>1 DEF ToSet
<1> QED BY <1>2, <1>3, <1>4

LEMMA UpsertSignalMaps ==
  ASSUME ListsTyped, NEW r \in SignalRow, UpsertSignal(r)
  PROVE  /\ signals' \in Seq(SignalRow)
         /\ \E id \in 1..(Len(signals) + 1) : Promise!UpsertSignal(r, id)
<1> DEFINE same == Promise!SameExternal(r)
           i == SignalIndex(r)
<1>1. signals \in Seq(SignalRow)
  BY DEF ListsTyped
<1>2. i = IF same # {} THEN Min(same) ELSE 0
  <2> DEFINE places == {j \in 1..Len(signals) :
                          /\ r.external_id # None
                          /\ signals[j].source = r.source
                          /\ signals[j].external_id = r.external_id}
  <2>1. i = IF places # {} THEN Min(places) ELSE 0
    BY DEF SignalIndex, SelectInSeq
  <2>2. places = same
    BY <1>1 DEF Promise!SameExternal
  <2> QED BY <2>1, <2>2
<1>3. same \subseteq 1..Len(signals) /\ same \subseteq Nat \ {0}
  BY <1>1 DEF Promise!SameExternal
<1>4. UNCHANGED <<GlobalTable, SchemaTable, decisions>>
  BY TablesStay DEF UpsertSignal
<1>5. CASE same # {}
  <2>1. i \in same /\ i # 0
    BY <1>2, <1>3, <1>5, LeastIndex
  <2> DEFINE u == [signals[i] EXCEPT !.pkey = r.pkey, !.occurred_at = r.occurred_at,
                                     !.columns = r.columns]
  <2>2. signals' = [signals EXCEPT ![i].pkey = r.pkey, ![i].occurred_at = r.occurred_at,
                                   ![i].columns = r.columns]
    BY <2>1 DEF UpsertSignal
  <2>3. i \in 1..Len(signals)
    BY <1>3, <2>1
  <2> HIDE DEF i
  <2>4. signals' = [signals EXCEPT ![i] = u]
    BY <1>1, <2>2, <2>3
  <2>5. u \in SignalRow
    <3>1. signals[i] \in SignalRow
      BY <1>1, <2>3
    <3> QED BY <3>1 DEF SignalRow
  <2>6. signals' \in Seq(SignalRow)
    BY <1>1, <2>3, <2>4, <2>5
  <2>7. Promise!UpdateSignal(i, r)
    BY <1>4, <2>4 DEF Promise!UpdateSignal
  <2>8. Promise!UpsertSignal(r, i) /\ i \in 1..(Len(signals) + 1)
    BY <1>1, <2>1, <2>3, <2>7 DEF Promise!UpsertSignal
  <2> QED BY <2>6, <2>8
<1>6. CASE same = {}
  <2>1. signals' = Append(signals, r)
    BY <1>2, <1>6 DEF UpsertSignal
  <2>2. signals' \in Seq(SignalRow) /\ Len(signals) + 1 \in 1..(Len(signals) + 1)
    BY <1>1, <2>1
  <2>3. Promise!UpsertSignal(r, Len(signals) + 1)
    BY <1>4, <1>6, <2>1 DEF Promise!UpsertSignal, Promise!InsertSignal
  <2> QED BY <2>2, <2>3
<1> QED BY <1>5, <1>6

\* A call keeps the shape of the lists, and is a call of the contract.
LEMMA CallApplies ==
  ASSUME MemoryAssumption, StorageAssumption, ListsTyped, NEW a \in Attempt, Call(a)
  PROVE  ListsTyped' /\ Promise!Apply(a)
<1> DEFINE c == CallOf(a)
           r == c.row
<1>1. log \in Seq(Attempt) /\ ~Contains(log, a) /\ log' = Append(log, a)
  BY DEF ListsTyped, Call
<1>2. a \notin ToSet(log) /\ ToSet(log)' = ToSet(log) \cup {a} /\ log' \in Seq(Attempt)
  <2>1. a \notin ToSet(log)
    BY <1>1 DEF ToSet, Contains
  <2>2. ToSet(log') = ToSet(log) \cup {a} /\ log' \in Seq(Attempt)
    BY <1>1, ToSetGrows
  <2> QED BY <2>1, <2>2
<1>3. ASSUME Promise!TakesEffect(c) PROVE Promise!Apply(a)
  BY <1>2, <1>3 DEF Promise!Apply
<1>4. CASE c.method = "insert_decision"
  <2>1. InsertDecision(r) /\ r \in DecisionRow
    BY <1>4, CallTypes DEF Call
  <2>2. Promise!InsertDecision(r)
    BY <2>1, TablesStay DEF InsertDecision, Promise!InsertDecision
  <2>3. Promise!TakesEffect(c)
    BY <1>4, <2>2 DEF Promise!TakesEffect
  <2>4. decisions' \in Seq(DecisionRow)
    BY <2>1 DEF InsertDecision, ListsTyped
  <2> QED BY <1>2, <1>3, <2>1, <2>3, <2>4 DEF ListsTyped, InsertDecision
<1>5. CASE c.method = "upsert_schema_row"
  <2>1. UpsertSchemaRow(r) /\ r \in SchemaListRow
    BY <1>5, CallTypes DEF Call
  <2>2. r.data_type \in StorableType
    BY <2>1 DEF SchemaListRow, MemoryAssumption
  <2>3. /\ schema' \in Seq(SchemaListRow)
        /\ SchemaTable' = [SchemaTable EXCEPT ![r.workspace_key][r.pkey][r.canonical_name] =
                              [data_type |-> r.data_type, is_global |-> r.is_global]]
    BY <2>1, UpsertSchemaRowMaps
  <2>4. UNCHANGED <<GlobalTable, decisions, signals>>
    BY <2>1, TablesStay DEF UpsertSchemaRow
  <2>5. Promise!UpsertSchemaRow(r.workspace_key, r.pkey, r.canonical_name,
                                [data_type |-> r.data_type, is_global |-> r.is_global])
    BY <2>2, <2>3, <2>4 DEF Promise!UpsertSchemaRow
  <2>6. Promise!TakesEffect(c)
    BY <1>5, <2>5 DEF Promise!TakesEffect
  <2> QED BY <1>2, <1>3, <2>1, <2>3, <2>6 DEF ListsTyped, UpsertSchemaRow
<1>6. CASE c.method = "upsert_signal"
  <2>1. UpsertSignal(r) /\ r \in SignalRow
    BY <1>6, CallTypes DEF Call
  <2>2. /\ signals' \in Seq(SignalRow)
        /\ \E id \in 1..(Len(signals) + 1) : Promise!UpsertSignal(r, id)
    BY <2>1, UpsertSignalMaps
  <2>3. Promise!TakesEffect(c)
    BY <1>6, <2>2 DEF Promise!TakesEffect
  <2> QED BY <1>2, <1>3, <2>1, <2>2, <2>3 DEF ListsTyped, UpsertSignal
<1>7. CASE c.method = "add_global_column"
  <2>1. AddGlobalColumn(r) /\ r \in GlobalListRow
    BY <1>7, CallTypes DEF Call
  <2>2. r.data_type \in StorableType
    BY <2>1 DEF GlobalListRow, MemoryAssumption
  <2>3. /\ globals' \in Seq(GlobalListRow)
        /\ GlobalTable' = IF GlobalTable[r.workspace_key][r.name] = None
                             THEN [GlobalTable EXCEPT ![r.workspace_key][r.name] = r.data_type]
                             ELSE GlobalTable
    BY <2>1, AddGlobalColumnMaps
  <2>4. UNCHANGED <<SchemaTable, decisions, signals>>
    BY <2>1, TablesStay DEF AddGlobalColumn
  <2>5. Promise!AddGlobalColumn(r.workspace_key, r.name, r.data_type)
    BY <2>2, <2>3, <2>4 DEF Promise!AddGlobalColumn
  <2>6. Promise!TakesEffect(c)
    BY <1>7, <2>5 DEF Promise!TakesEffect
  <2> QED BY <1>2, <1>3, <2>1, <2>3, <2>6 DEF ListsTyped, AddGlobalColumn
<1> QED BY <1>4, <1>5, <1>6, <1>7, CallTypes

LEMMA ListsTypedNext ==
  ASSUME MemoryAssumption, StorageAssumption, ListsTyped, [Next]_vars
  PROVE  ListsTyped'
<1>1. ASSUME NEW a \in Attempt, Call(a) PROVE ListsTyped'
  BY <1>1, CallApplies
<1>2. CASE UNCHANGED vars
  BY <1>2 DEF ListsTyped, vars, lists
<1> QED BY <1>1, <1>2 DEF Next, Finished

\* The four lists of MemoryStorage hold rows of their tables, call after call.
THEOREM MemoryTypeCorrect == Spec => []ListsTyped
<1>1. Init => ListsTyped
  BY DEF Init, ListsTyped
<1>2. ListsTyped /\ [Next]_vars => ListsTyped'
  BY ListsTypedNext, MemoryAssumption, StorageAssumption
<1> QED BY <1>1, <1>2, PTL DEF Spec

\* The in-memory lists change as the storage contract says, call by call.
THEOREM MemoryImplementsContract == Spec => ImplementsContract
<1>1. Init => Promise!Init
  <2> SUFFICES ASSUME Init PROVE Promise!Init
    OBVIOUS
  <2>1. globals \in Seq(GlobalListRow) /\ schema \in Seq(SchemaListRow)
    BY DEF Init
  <2>2. GlobalTable = [w \in Workspace |-> [n \in Name |-> None]]
    <3>1. \A w \in Workspace, n \in Name : GlobalTypeOf(globals, w, n) = None
      BY DEF Init, GlobalTypeOf, GlobalPlaces
    <3> QED BY <2>1, <3>1, GlobalTableIs
  <2>3. SchemaTable = [w \in Workspace |-> [p \in PKey |-> [n \in Name |-> None]]]
    <3>1. \A w \in Workspace, p \in PKey, n \in Name : SchemaRowOf(schema, w, p, n) = None
      BY DEF Init, SchemaRowOf, SchemaPlaces
    <3> QED BY <2>1, <3>1, SchemaTableIs
  <2>4. ToSet(log) = {}
    BY DEF Init, ToSet
  <2> QED BY <2>2, <2>3, <2>4 DEF Init, Promise!Init
<1>2. ListsTyped /\ [Next]_vars => [Promise!Next]_<<Promise!store, ToSet(log)>>
  <2> SUFFICES ASSUME ListsTyped, [Next]_vars
               PROVE  [Promise!Next]_<<Promise!store, ToSet(log)>>
    OBVIOUS
  <2>1. ASSUME NEW a \in Attempt, Call(a) PROVE Promise!Next
    BY <2>1, CallApplies, MemoryAssumption, StorageAssumption DEF Promise!Next
  <2>2. CASE UNCHANGED vars
    BY <2>2, TablesStay DEF vars, lists, Promise!store, ToSet
  <2> QED BY <2>1, <2>2 DEF Next, Finished
<1> QED BY <1>1, <1>2, MemoryTypeCorrect, PTL DEF Spec, ImplementsContract, Promise!Spec
-----------------------------------------------------------------------------
(* sorted() and max().                                                      *)

\* What rows are ordered by: numbers, at finitely many places of a list.
IsKey(key) ==
  /\ IsFiniteSet(DOMAIN key) /\ DOMAIN key \subseteq Nat
  /\ \A i \in DOMAIN key : key[i] \in Nat

\* o lists the places of key, each once, in their order.
IsOrder(o, key, reverse) ==
  /\ DOMAIN o = 1..Cardinality(DOMAIN key)
  /\ \A k \in DOMAIN o : o[k] \in DOMAIN key
  /\ \A i \in DOMAIN key : \E k \in DOMAIN o : o[k] = i
  /\ \A j, k \in DOMAIN o : j < k => Before(key, reverse, o[j], o[k])

\* Before is a strict total order of the places.
LEMMA BeforeOrders ==
  ASSUME NEW key, IsKey(key), NEW reverse \in BOOLEAN
  PROVE  /\ \A i \in DOMAIN key : ~Before(key, reverse, i, i)
         /\ \A i, j \in DOMAIN key : i # j => Before(key, reverse, i, j) \/ Before(key, reverse, j, i)
         /\ \A i, j, k \in DOMAIN key :
              Before(key, reverse, i, j) /\ Before(key, reverse, j, k) => Before(key, reverse, i, k)
<1>1. \A i \in DOMAIN key : i \in Nat /\ key[i] \in Nat
  BY DEF IsKey
<1> QED BY <1>1 DEF Before

\* Numbering every place by how many come before it is a sort: no two places
\* have one number, so none of the numbers is left out.
LEMMA SortedFacts ==
  ASSUME NEW key, IsKey(key), NEW reverse \in BOOLEAN
  PROVE  IsOrder(Sorted(key, reverse), key, reverse)
<1> DEFINE S == DOMAIN key
           n == Cardinality(S)
           Below(i) == {j \in S : Before(key, reverse, j, i)}
           rank == [i \in S |-> Cardinality(Below(i))]
<1>1. IsFiniteSet(S) /\ n \in Nat
  BY FS_CardinalityType DEF IsKey
<1>2. ASSUME NEW i \in S PROVE rank[i] \in 0..(n - 1)
  <2>1. Below(i) \in SUBSET S /\ Below(i) # S
    BY BeforeOrders
  <2>2. IsFiniteSet(Below(i)) /\ Cardinality(Below(i)) <= n /\ Cardinality(Below(i)) # n
    BY <1>1, <2>1, FS_Subset
  <2>3. Cardinality(Below(i)) \in Nat
    BY <2>2, FS_CardinalityType
  <2> QED BY <1>1, <2>2, <2>3
<1>3. ASSUME NEW i \in S, NEW j \in S, Before(key, reverse, i, j)
      PROVE  rank[i] < rank[j]
  <2>1. Below(i) \in SUBSET Below(j)
    BY <1>3, BeforeOrders
  <2>2. i \in Below(j) /\ i \notin Below(i)
    BY <1>3, BeforeOrders
  <2>3. IsFiniteSet(Below(j))
    <3>1. Below(j) \in SUBSET S
      OBVIOUS
    <3> QED BY <1>1, <3>1, FS_Subset
  <2>4. Cardinality(Below(i)) <= Cardinality(Below(j)) /\ Cardinality(Below(i)) # Cardinality(Below(j))
    BY <2>1, <2>2, <2>3, FS_Subset
  <2>5. rank[i] \in Nat /\ rank[j] \in Nat
    BY <1>1, <1>2
  <2> QED BY <2>4, <2>5
<1>4. \A i, j \in S : rank[i] = rank[j] => i = j
  <2> SUFFICES ASSUME NEW i \in S, NEW j \in S, i # j PROVE rank[i] # rank[j]
    OBVIOUS
  <2>1. rank[i] \in Nat /\ rank[j] \in Nat
    BY <1>1, <1>2
  <2>2. rank[i] < rank[j] \/ rank[j] < rank[i]
    BY <1>3, BeforeOrders
  <2> HIDE DEF rank
  <2> QED BY <2>1, <2>2
<1>5. \A k \in 0..(n - 1) : \E i \in S : rank[i] = k
  <2>1. rank \in Injection(S, 0..(n - 1))
    <3>1. rank \in [S -> 0..(n - 1)]
      BY <1>2
    <3> HIDE DEF rank
    <3>2. DOMAIN rank = S
      BY <3>1
    <3> QED BY <1>4, <3>1, <3>2 DEF Injection, IsInjective
  <2>2. IsFiniteSet(0..(n - 1)) /\ Cardinality(0..(n - 1)) = n
    <3> HIDE DEF n
    <3>1. 0 \in Int /\ n - 1 \in Int
      BY <1>1
    <3>2. /\ IsFiniteSet(0..(n - 1))
          /\ Cardinality(0..(n - 1)) = IF 0 > n - 1 THEN 0 ELSE (n - 1) - 0 + 1
      BY <3>1, FS_Interval
    <3> QED BY <1>1, <3>2
  <2> HIDE DEF rank
  <2>3. rank \in Surjection(S, 0..(n - 1))
    BY <2>1, <2>2, FS_Injection
  <2> QED BY <2>3 DEF Surjection
<1> DEFINE o == Sorted(key, reverse)
<1>6. /\ DOMAIN o = 1..n
      /\ \A k \in 1..n : o[k] = CHOOSE i \in S : rank[i] = k - 1
  BY DEF Sorted
<1> HIDE DEF rank, o
<1>7. ASSUME NEW k \in 1..n PROVE o[k] \in S /\ rank[o[k]] = k - 1
  <2>1. k - 1 \in 0..(n - 1)
    BY <1>1
  <2>2. \E i \in S : rank[i] = k - 1
    BY <1>5, <2>1
  <2> QED BY <1>6, <2>2
<1>8. ASSUME NEW i \in S PROVE \E k \in 1..n : o[k] = i
  <2>1. rank[i] + 1 \in 1..n /\ (rank[i] + 1) - 1 = rank[i]
    BY <1>1, <1>2
  <2>2. o[rank[i] + 1] = i
    BY <1>4, <1>7, <2>1
  <2> QED BY <2>1, <2>2
<1>9. ASSUME NEW j \in 1..n, NEW k \in 1..n, j < k PROVE Before(key, reverse, o[j], o[k])
  <2>1. /\ o[j] \in S /\ o[k] \in S
        /\ rank[o[j]] = j - 1 /\ rank[o[k]] = k - 1
    BY <1>7
  <2>2. o[j] # o[k] /\ ~(rank[o[k]] < rank[o[j]])
    BY <1>1, <1>9, <2>1
  <2> QED BY <1>3, <2>1, <2>2, BeforeOrders
<1>10. DOMAIN o = 1..Cardinality(DOMAIN key)
  BY <1>6
<1>11. /\ \A k \in DOMAIN o : o[k] \in DOMAIN key
       /\ \A i \in DOMAIN key : \E k \in DOMAIN o : o[k] = i
       /\ \A j, k \in DOMAIN o : j < k => Before(key, reverse, o[j], o[k])
  BY <1>6, <1>7, <1>8, <1>9
<1>12. IsOrder(o, key, reverse)
  BY <1>10, <1>11 DEF IsOrder
<1> QED BY <1>12 DEF o

\* max() takes a row than which none is greater, and none before it is as great.
LEMMA FirstMaxFacts ==
  ASSUME NEW key, IsKey(key), DOMAIN key # {}
  PROVE  /\ FirstMax(key) \in DOMAIN key
         /\ \A j \in DOMAIN key : j # FirstMax(key) => Before(key, TRUE, FirstMax(key), j)
<1> DEFINE G == {i \in DOMAIN key : \A j \in DOMAIN key : key[j] <= key[i]}
<1>1. PICK o : IsOrder(o, key, TRUE)
  BY SortedFacts
<1>2. Cardinality(DOMAIN key) \in Nat
  BY FS_CardinalityType DEF IsKey
<1>3. PICK i0 \in DOMAIN key : TRUE
  OBVIOUS
<1>4. 1 \in DOMAIN o /\ \A k \in DOMAIN o : k = 1 \/ 1 < k
  <2>1. PICK k \in DOMAIN o : o[k] = i0
    BY <1>1, <1>3 DEF IsOrder
  <2>2. DOMAIN o = 1..Cardinality(DOMAIN key)
    BY <1>1 DEF IsOrder
  <2> QED BY <1>2, <2>1, <2>2
<1>5. o[1] \in DOMAIN key
  BY <1>1, <1>4 DEF IsOrder
<1>6. ASSUME NEW j \in DOMAIN key PROVE key[j] <= key[o[1]]
  <2>1. PICK k \in DOMAIN o : o[k] = j
    BY <1>1 DEF IsOrder
  <2>2. j = o[1] \/ Before(key, TRUE, o[1], j)
    BY <1>1, <1>4, <2>1 DEF IsOrder
  <2> QED BY <1>5, <2>2 DEF Before, IsKey
<1>7. G \subseteq Nat /\ G # {}
  BY <1>5, <1>6 DEF IsKey
<1>8. Min(G) \in G /\ \A j \in G : Min(G) <= j
  BY <1>7, LeastIndex
<1>9. FirstMax(key) = Min(G)
  BY DEF FirstMax
<1> DEFINE m == FirstMax(key)
<1>10. /\ m \in DOMAIN key /\ \A j \in DOMAIN key : key[j] <= key[m]
       /\ \A j \in DOMAIN key : (\A l \in DOMAIN key : key[l] <= key[j]) => m <= j
  BY <1>8, <1>9
<1> HIDE DEF m
<1>11. ASSUME NEW j \in DOMAIN key, j # m PROVE Before(key, TRUE, m, j)
  <2>1. /\ m \in Nat /\ j \in Nat /\ \A l \in DOMAIN key : key[l] \in Nat
    BY <1>10 DEF IsKey
  <2>2. CASE key[j] = key[m]
    BY <1>10, <1>11, <2>1, <2>2 DEF Before
  <2>3. CASE key[j] # key[m]
    BY <1>10, <2>1, <2>3 DEF Before
  <2> QED BY <2>2, <2>3
<1> QED BY <1>10, <1>11 DEF m
-----------------------------------------------------------------------------
(* The reads of single rows, of the history and of the timeline.            *)

DecidedAt(places) == [i \in places |-> decisions[i].decided_at]
OccurredAt(places) == [i \in places |-> signals[i].occurred_at]

LEMMA PlacesAreFinite ==
  ASSUME NEW n \in Nat, NEW P, P \subseteq 1..n
  PROVE  IsFiniteSet(P) /\ P \subseteq Nat
<1>1. n \in Int /\ 1 \in Int
  OBVIOUS
<1>2. IsFiniteSet(1..n)
  BY <1>1, FS_Interval
<1>3. P \in SUBSET (1..n)
  OBVIOUS
<1>4. IsFiniteSet(P)
  BY <1>2, <1>3, FS_Subset
<1> QED BY <1>4

LEMMA TimesAreNumbers ==
  ASSUME StorageAssumption, ListsTyped
  PROVE  /\ \A i \in DOMAIN decisions : decisions[i].decided_at \in Nat
         /\ \A i \in DOMAIN signals : signals[i].occurred_at \in Nat
<1>1. ASSUME NEW i \in DOMAIN decisions PROVE decisions[i].decided_at \in Nat
  <2>1. decisions[i] \in DecisionRow
    BY DEF ListsTyped
  <2>2. decisions[i].decided_at \in Time
    BY <2>1 DEF DecisionRow
  <2> QED BY <2>2 DEF StorageAssumption
<1>2. ASSUME NEW i \in DOMAIN signals PROVE signals[i].occurred_at \in Nat
  <2>1. signals[i] \in SignalRow
    BY DEF ListsTyped
  <2>2. signals[i].occurred_at \in Time
    BY <2>1 DEF SignalRow
  <2> QED BY <2>2 DEF StorageAssumption
<1> QED BY <1>1, <1>2

LEMMA ListKeys ==
  ASSUME StorageAssumption, ListsTyped
  PROVE  /\ \A P \in SUBSET DOMAIN decisions : IsKey(DecidedAt(P))
         /\ \A P \in SUBSET DOMAIN signals : IsKey(OccurredAt(P))
<1>1. ASSUME NEW P \in SUBSET DOMAIN decisions PROVE IsKey(DecidedAt(P))
  <2>1. Len(decisions) \in Nat /\ P \subseteq 1..Len(decisions)
    BY DEF ListsTyped
  <2>2. IsFiniteSet(P) /\ P \subseteq Nat
    BY <2>1, PlacesAreFinite
  <2>3. \A i \in P : decisions[i].decided_at \in Nat
    BY TimesAreNumbers
  <2> QED BY <2>2, <2>3 DEF IsKey, DecidedAt
<1>2. ASSUME NEW P \in SUBSET DOMAIN signals PROVE IsKey(OccurredAt(P))
  <2>1. Len(signals) \in Nat /\ P \subseteq 1..Len(signals)
    BY DEF ListsTyped
  <2>2. IsFiniteSet(P) /\ P \subseteq Nat
    BY <2>1, PlacesAreFinite
  <2>3. \A i \in P : signals[i].occurred_at \in Nat
    BY TimesAreNumbers
  <2> QED BY <2>2, <2>3 DEF IsKey, OccurredAt
<1> QED BY <1>1, <1>2

LEMMA CachedIsHead ==
  ASSUME StorageAssumption, ListsTyped
  PROVE  CacheIsHeadOfHistory
<1> SUFFICES ASSUME NEW i \in DOMAIN decisions
    PROVE  LET d == decisions[i]
               cached == LatestDecisionForColumn(Quad(d))
               history == GetDecisionHistory(d.workspace_key, d.pkey, cached.canonical_name)
           IN  /\ d.decided_at <= cached.decided_at
               /\ \E k \in DOMAIN history :
                    /\ history[k] = cached
                    /\ \A j \in 1..(k - 1) : Quad(history[j]) # Quad(d)
  BY DEF CacheIsHeadOfHistory
<1> DEFINE d == decisions[i]
           C == OfColumn(Quad(d))
           m == FirstMax(DecidedAt(C))
<1>1. C \in SUBSET DOMAIN decisions /\ i \in C
  BY DEF OfColumn
<1>2. IsKey(DecidedAt(C)) /\ DOMAIN DecidedAt(C) = C
  BY <1>1, ListKeys DEF DecidedAt
<1>3. /\ m \in C
      /\ \A j \in C : j # m => Before(DecidedAt(C), TRUE, m, j)
  BY <1>1, <1>2, FirstMaxFacts
<1>4. LatestDecisionForColumn(Quad(d)) = decisions[m]
  BY <1>1 DEF LatestDecisionForColumn, DecidedAt
<1>5. m \in DOMAIN decisions /\ Quad(decisions[m]) = Quad(d)
  BY <1>3 DEF OfColumn
<1>6. \A j \in DOMAIN decisions : decisions[j].decided_at \in Nat
  BY TimesAreNumbers
<1> HIDE DEF m, C
<1> DEFINE H == OfCanonical(d.workspace_key, d.pkey, decisions[m].canonical_name)
           o == Sorted(DecidedAt(H), TRUE)
           history == GetDecisionHistory(d.workspace_key, d.pkey, decisions[m].canonical_name)
<1>7. d.decided_at <= decisions[m].decided_at
  <2>1. i = m \/ Before(DecidedAt(C), TRUE, m, i)
    BY <1>1, <1>3
  <2> QED BY <1>1, <1>3, <1>5, <1>6, <2>1 DEF Before, DecidedAt
<1>8. H \in SUBSET DOMAIN decisions /\ m \in H
  BY <1>5 DEF OfCanonical, Quad
<1>9. IsKey(DecidedAt(H)) /\ DOMAIN DecidedAt(H) = H
  BY <1>8, ListKeys DEF DecidedAt
<1>10. IsOrder(o, DecidedAt(H), TRUE)
  BY <1>9, SortedFacts
<1>11. history = [k \in DOMAIN o |-> decisions[o[k]]]
  BY DEF GetDecisionHistory, Rows, DecidedAt
<1> HIDE DEF o, history, H
<1>12. PICK k \in DOMAIN o : o[k] = m
  BY <1>8, <1>9, <1>10 DEF IsOrder
<1>13. ASSUME NEW j \in 1..(k - 1) PROVE Quad(history[j]) # Quad(d)
  <2>1. j \in DOMAIN o /\ j < k
    <3>1. DOMAIN o = 1..Cardinality(H) /\ Cardinality(H) \in Nat
      BY <1>9, <1>10, FS_CardinalityType DEF IsOrder, IsKey
    <3> QED BY <3>1, <1>12
  <2>2. o[j] \in H /\ Before(DecidedAt(H), TRUE, o[j], m)
    BY <1>9, <1>10, <1>12, <2>1 DEF IsOrder
  <2>3. o[j] \in DOMAIN decisions /\ history[j] = decisions[o[j]]
    BY <1>8, <1>11, <2>1, <2>2
  <2>4. ASSUME Quad(decisions[o[j]]) = Quad(d) PROVE FALSE
    <3>1. o[j] \in C
      BY <2>3, <2>4 DEF C, OfColumn
    <3>2. o[j] # m
      BY <1>8, <1>9, <2>2, BeforeOrders
    <3>3. Before(DecidedAt(C), TRUE, m, o[j])
      BY <1>3, <3>1, <3>2
    <3>4. Before(DecidedAt(C), TRUE, o[j], m)
      BY <1>3, <1>8, <2>2, <3>1 DEF Before, DecidedAt
    <3> QED BY <1>2, <1>3, <3>1, <3>3, <3>4, BeforeOrders
  <2> QED BY <2>3, <2>4
<1>14. k \in DOMAIN history /\ history[k] = decisions[m]
  BY <1>11, <1>12
<1> QED BY <1>4, <1>7, <1>13, <1>14 DEF d, history

\* The decision a column is routed by is the one its audit view shows first,
\* whatever was inserted in whatever order, with ties and clocks set back.
THEOREM CacheHeadsHistory == Spec => []CacheIsHeadOfHistory
<1>1. ListsTyped => CacheIsHeadOfHistory
  BY CachedIsHead, StorageAssumption
<1> QED BY <1>1, MemoryTypeCorrect, PTL

\* Among texts of one format, a later text is a later moment.
LEMMA OneFormatInstants ==
  ASSUME NEW t \in Nat, NEW u \in Nat, u <= t, SuffixOf(t) = SuffixOf(u)
  PROVE  Instant(t) >= Instant(u)
<1>1. Len(ZoneSuffixes) = 5
  BY DEF ZoneSuffixes
<1>2. t \div 5 >= u \div 5 /\ t \div 5 \in Nat /\ u \div 5 \in Nat /\ t % 5 \in 0..4
  OBVIOUS
<1>3. SuffixOf(t) \in {"", "+05:30", "-08:00", ".500Z", "Z"}
  <2>1. (t % 5) + 1 \in {1, 2, 3, 4, 5}
    BY <1>2
  <2>2. /\ ZoneSuffixes[1] = "" /\ ZoneSuffixes[2] = "+05:30" /\ ZoneSuffixes[3] = "-08:00"
        /\ ZoneSuffixes[4] = ".500Z" /\ ZoneSuffixes[5] = "Z"
    BY DEF ZoneSuffixes
  <2> QED BY <1>1, <2>1, <2>2 DEF SuffixOf
<1> DEFINE h == Hour(t)
           g == Hour(u)
<1>4. g <= h /\ g \in Nat /\ h \in Nat
  BY <1>1, <1>2 DEF Hour
<1>5. /\ SuffixOf(u) \in {"", "Z"} => Instant(t) = 2 * h /\ Instant(u) = 2 * g
      /\ SuffixOf(u) = ".500Z" => Instant(t) = 2 * h + 1 /\ Instant(u) = 2 * g + 1
      /\ SuffixOf(u) = "+05:30" => Instant(t) = 2 * h - 11 /\ Instant(u) = 2 * g - 11
      /\ SuffixOf(u) = "-08:00" => Instant(t) = 2 * h + 16 /\ Instant(u) = 2 * g + 16
  BY DEF Instant
<1> HIDE DEF h, g
<1>6. 2 * g <= 2 * h /\ 2 * g \in Nat /\ 2 * h \in Nat
  BY <1>4
<1>7. CASE SuffixOf(u) \in {"", "Z"}
  BY <1>5, <1>6, <1>7
<1>8. CASE SuffixOf(u) = ".500Z"
  BY <1>5, <1>6, <1>8
<1>9. CASE SuffixOf(u) = "+05:30"
  BY <1>5, <1>6, <1>9
<1>10. CASE SuffixOf(u) = "-08:00"
  BY <1>5, <1>6, <1>10
<1> QED BY <1>3, <1>7, <1>8, <1>9, <1>10

LEMMA TimelineSorted ==
  ASSUME StorageAssumption, ListsTyped
  PROVE  TimelineInOrder
<1> SUFFICES ASSUME NEW w \in Workspace, NEW p \in PKey, NEW since \in Time,
                    OneFormat(GetZipperedTimeline(w, p, since))
             PROVE  Descending(GetZipperedTimeline(w, p, since))
  BY DEF TimelineInOrder
<1> DEFINE S == Since(w, p, since)
           o == Sorted(OccurredAt(S), TRUE)
           rows == GetZipperedTimeline(w, p, since)
<1>1. S \in SUBSET DOMAIN signals
  BY DEF Since, OfRecord
<1>2. IsKey(OccurredAt(S)) /\ DOMAIN OccurredAt(S) = S
  BY <1>1, ListKeys DEF OccurredAt
<1>3. IsOrder(o, OccurredAt(S), TRUE)
  BY <1>2, SortedFacts
<1>4. rows = [k \in DOMAIN o |-> signals[o[k]]]
  BY DEF GetZipperedTimeline, Rows, OccurredAt
<1>5. OneFormat(rows)
  OBVIOUS
<1> HIDE DEF o, rows, S
<1>6. ASSUME NEW i \in DOMAIN rows, NEW j \in DOMAIN rows, i < j
      PROVE  Instant(rows[i].occurred_at) >= Instant(rows[j].occurred_at)
  <2>1. /\ o[i] \in S /\ o[j] \in S /\ Before(OccurredAt(S), TRUE, o[i], o[j])
        /\ rows[i] = signals[o[i]] /\ rows[j] = signals[o[j]]
    BY <1>2, <1>3, <1>4, <1>6 DEF IsOrder
  <2>2. /\ rows[i].occurred_at = OccurredAt(S)[o[i]] /\ rows[j].occurred_at = OccurredAt(S)[o[j]]
        /\ rows[i].occurred_at \in Nat /\ rows[j].occurred_at \in Nat
    BY <1>2, <2>1 DEF IsKey, OccurredAt
  <2>3. rows[j].occurred_at <= rows[i].occurred_at
    BY <2>1, <2>2 DEF Before
  <2>4. SuffixOf(rows[i].occurred_at) = SuffixOf(rows[j].occurred_at)
    BY <1>5 DEF OneFormat
  <2> QED BY <2>2, <2>3, <2>4, OneFormatInstants
<1> QED BY <1>6 DEF Descending, rows

\* In one format of time the timeline is chronological, in whatever order the
\* rows were delivered.
THEOREM TimelineIsInOrder == Spec => []TimelineInOrder
<1>1. ListsTyped => TimelineInOrder
  BY TimelineSorted, StorageAssumption
<1> QED BY <1>1, MemoryTypeCorrect, PTL
-----------------------------------------------------------------------------
(* The merged record.                                                       *)

\* The rows among the first k that carry the column n, and the last of them.
Carriers(rows, k, n) == {j \in 1..k : rows[j].columns[n] # None}
LastCarrier(rows, k, n) ==
  CHOOSE m \in Carriers(rows, k, n) : \A j \in Carriers(rows, k, n) : j <= m

\* The record after the first k rows, told without the loop.
MergedUpTo(rows, k) ==
  [n \in Name |-> IF Carriers(rows, k, n) = {} THEN None
                  ELSE rows[LastCarrier(rows, k, n)].columns[n]]

LEMMA LastCarrierFacts ==
  ASSUME NEW rows, NEW k \in Nat, NEW n, Carriers(rows, k, n) # {}
  PROVE  /\ LastCarrier(rows, k, n) \in Carriers(rows, k, n)
         /\ \A j \in Carriers(rows, k, n) : j <= LastCarrier(rows, k, n)
<1> DEFINE C == Carriers(rows, k, n)
           key == [j \in C |-> j]
           m == FirstMax(key)
<1>1. C \subseteq 1..k
  BY DEF Carriers
<1>2. IsFiniteSet(C) /\ C \subseteq Nat
  BY <1>1, PlacesAreFinite
<1>3. IsKey(key) /\ DOMAIN key = C
  BY <1>2 DEF IsKey
<1>4. /\ m \in C
      /\ \A j \in C : j # m => Before(key, TRUE, m, j)
  BY <1>3, FirstMaxFacts
<1> HIDE DEF m, C
<1>5. \A j \in C : j <= m
  BY <1>2, <1>4 DEF Before
<1>6. \E i \in C : \A j \in C : j <= i
  BY <1>4, <1>5
<1> QED BY <1>6 DEF LastCarrier, C

LEMMA MergedStep ==
  ASSUME NEW rows, NEW k \in Nat \ {0}
  PROVE  MergedUpTo(rows, k) = Update(MergedUpTo(rows, k - 1), rows[k])
<1> SUFFICES ASSUME NEW n \in Name
    PROVE  MergedUpTo(rows, k)[n] =
             IF rows[k].columns[n] = None THEN MergedUpTo(rows, k - 1)[n] ELSE rows[k].columns[n]
  BY DEF Update, MergedUpTo
<1>1. k - 1 \in Nat /\ 1..k = (1..(k - 1)) \cup {k}
  OBVIOUS
<1>2. CASE rows[k].columns[n] = None
  <2>1. Carriers(rows, k, n) = Carriers(rows, k - 1, n)
    BY <1>1, <1>2 DEF Carriers
  <2>2. LastCarrier(rows, k, n) = LastCarrier(rows, k - 1, n)
    BY <2>1 DEF LastCarrier
  <2> QED BY <1>2, <2>1, <2>2 DEF MergedUpTo
<1>3. CASE rows[k].columns[n] # None
  <2>1. k \in Carriers(rows, k, n) /\ \A j \in Carriers(rows, k, n) : j <= k /\ j \in Nat
    BY <1>1, <1>3 DEF Carriers
  <2>2. LastCarrier(rows, k, n) = k
    BY <2>1, LastCarrierFacts
  <2> QED BY <1>3, <2>1, <2>2 DEF MergedUpTo
<1> QED BY <1>2, <1>3

\* Updating a dictionary row after row keeps, per column, the last row with it.
LEMMA MergedFacts ==
  ASSUME NEW rows, NEW N \in Nat, Len(rows) = N
  PROVE  Merged(rows) = MergedUpTo(rows, N)
<1> DEFINE Loop(f) == [k \in 0..Len(rows) |->
                         IF k = 0 THEN [n \in Name |-> None] ELSE Update(f[k - 1], rows[k])]
           merged == CHOOSE f : f = Loop(f)
           g == [k \in 0..N |-> MergedUpTo(rows, k)]
<1>1. Merged(rows) = merged[N]
  BY DEF Merged
<1>2. g = Loop(g)
  <2>1. MergedUpTo(rows, 0) = [n \in Name |-> None]
    BY DEF MergedUpTo, Carriers
  <2>2. ASSUME NEW k \in 0..N, k # 0 PROVE g[k] = Update(g[k - 1], rows[k])
    <3>1. k \in Nat \ {0} /\ k - 1 \in 0..N
      BY <2>2
    <3>2. g[k] = MergedUpTo(rows, k) /\ g[k - 1] = MergedUpTo(rows, k - 1)
      BY <3>1
    <3> HIDE DEF g
    <3> QED BY <3>1, <3>2, MergedStep
  <2>3. \A k \in 0..N : g[k] = IF k = 0 THEN [n \in Name |-> None] ELSE Update(g[k - 1], rows[k])
    BY <2>1, <2>2
  <2>4. g = [k \in 0..N |-> g[k]]
    OBVIOUS
  <2> HIDE DEF g
  <2> QED BY <2>3, <2>4
<1>3. merged = Loop(merged)
  <2> HIDE DEF g, Loop
  <2> QED BY <1>2
<1> HIDE DEF merged, g
<1>4. /\ \A k \in 0..N : merged[k] = IF k = 0 THEN [n \in Name |-> None]
                                      ELSE Update(merged[k - 1], rows[k])
      /\ \A k \in 0..N : g[k] = IF k = 0 THEN [n \in Name |-> None]
                                 ELSE Update(g[k - 1], rows[k])
  BY <1>2, <1>3
<1>5. ASSUME NEW l \in 0..N, merged[l] # g[l] PROVE FALSE
  <2> DEFINE I == {k \in 0..N : merged[k] # g[k]}
             k0 == Min(I)
  <2>1. I \subseteq Nat /\ I # {}
    BY <1>5
  <2>2. k0 \in I /\ \A k \in I : k0 <= k
    BY <2>1, LeastIndex
  <2> HIDE DEF k0
  <2>3. k0 \in 0..N /\ merged[k0] # g[k0]
    BY <2>2
  <2>4. CASE k0 = 0
    BY <1>4, <2>3, <2>4
  <2>5. CASE k0 # 0
    <3>1. k0 - 1 \in 0..N /\ ~(k0 <= k0 - 1)
      BY <2>3, <2>5
    <3>2. merged[k0 - 1] = g[k0 - 1]
      BY <2>2, <3>1
    <3> QED BY <1>4, <2>3, <2>5, <3>2
  <2> QED BY <2>4, <2>5
<1>6. merged[N] = g[N]
  BY <1>5
<1> QED BY <1>1, <1>6 DEF g

\* Sorting the timeline the other way round, the oldest rows come first, and of
\* rows of one time the first in the list: both sorts keep ties in their order.
LEMMA RecordOrder ==
  ASSUME StorageAssumption, ListsTyped, NEW w, NEW p
  PROVE  \E o : /\ IsOrder(o, OccurredAt(OfRecord(w, p)), FALSE)
                /\ GetMergedRecord(w, p) = Merged(Rows(signals, o))
<1> DEFINE S == OfRecord(w, p)
           K == OccurredAt(S)
           N == Cardinality(S)
           o1 == Sorted(K, TRUE)
           rows == GetZipperedTimeline(w, p, 0)
           K2 == [k \in DOMAIN rows |-> rows[k].occurred_at]
           o2 == Sorted(K2, FALSE)
           o == [k \in DOMAIN o2 |-> o1[o2[k]]]
<1>1. S \in SUBSET DOMAIN signals /\ IsKey(K) /\ DOMAIN K = S
  BY ListKeys DEF OfRecord, OccurredAt
<1>2. Since(w, p, 0) = S
  BY TimesAreNumbers DEF Since, OfRecord
<1>3. IsFiniteSet(S) /\ N \in Nat
  BY <1>1, FS_CardinalityType DEF IsKey
<1>4. IsOrder(o1, K, TRUE)
  BY <1>1, SortedFacts
<1>5. rows = [k \in DOMAIN o1 |-> signals[o1[k]]]
  BY <1>2 DEF GetZipperedTimeline, Rows, OccurredAt
<1>6. GetMergedRecord(w, p) = Merged([k \in DOMAIN o2 |-> rows[o2[k]]])
  BY DEF GetMergedRecord, Rows
<1> HIDE DEF o1, rows, S
<1>7. DOMAIN o1 = 1..N /\ \A k \in 1..N : o1[k] \in S
  BY <1>1, <1>4 DEF IsOrder
<1>8. /\ DOMAIN rows = 1..N /\ DOMAIN K2 = 1..N
      /\ \A k \in 1..N : rows[k] = signals[o1[k]] /\ K2[k] = K[o1[k]]
  BY <1>5, <1>7 DEF K, OccurredAt
<1>9. Cardinality(1..N) = N /\ IsFiniteSet(1..N)
  <2>1. 1 \in Int /\ N \in Int
    BY <1>3
  <2>2. IsFiniteSet(1..N) /\ Cardinality(1..N) = IF 1 > N THEN 0 ELSE N - 1 + 1
    BY <2>1, FS_Interval
  <2> HIDE DEF N
  <2> QED BY <1>3, <2>2
<1>10. IsKey(K2)
  <2>1. \A k \in 1..N : K2[k] \in Nat
    BY <1>1, <1>7, <1>8 DEF IsKey
  <2> HIDE DEF K2
  <2> QED BY <1>8, <1>9, <2>1 DEF IsKey
<1>11. IsOrder(o2, K2, FALSE)
  BY <1>10, SortedFacts
<1> HIDE DEF K, K2, o2, N
<1>12. /\ DOMAIN o2 = 1..N
       /\ \A k \in 1..N : o2[k] \in 1..N
       /\ \A i \in 1..N : \E k \in 1..N : o2[k] = i
       /\ \A j, k \in 1..N : j < k => Before(K2, FALSE, o2[j], o2[k])
  BY <1>8, <1>9, <1>11 DEF IsOrder
<1>13. ASSUME NEW j \in 1..N, NEW k \in 1..N, j < k
       PROVE  Before(K, FALSE, o[j], o[k])
  <2>1. /\ o2[j] \in 1..N /\ o2[k] \in 1..N /\ Before(K2, FALSE, o2[j], o2[k])
        /\ o[j] = o1[o2[j]] /\ o[k] = o1[o2[k]]
    BY <1>12, <1>13
  <2>2. K2[o2[j]] = K[o[j]] /\ K2[o2[k]] = K[o[k]] /\ o[j] \in S /\ o[k] \in S
    BY <1>7, <1>8, <2>1
  <2>3. o2[j] < o2[k] => Before(K, TRUE, o[j], o[k])
    BY <1>4, <1>7, <2>1 DEF IsOrder
  <2>4. K[o[j]] \in Nat /\ K[o[k]] \in Nat
    BY <1>1, <2>2 DEF IsKey
  <2> HIDE DEF o
  <2> QED BY <2>1, <2>2, <2>3, <2>4 DEF Before
<1>14. IsOrder(o, K, FALSE)
  <2>1. DOMAIN o = 1..Cardinality(DOMAIN K)
    BY <1>1, <1>12 DEF N
  <2>2. \A k \in DOMAIN o : o[k] \in DOMAIN K
    BY <1>1, <1>7, <1>12
  <2>3. ASSUME NEW i \in DOMAIN K PROVE \E k \in DOMAIN o : o[k] = i
    <3>1. PICK l \in 1..N : o1[l] = i
      BY <1>1, <1>4, <1>7 DEF IsOrder
    <3>2. PICK k \in 1..N : o2[k] = l
      BY <1>12
    <3> QED BY <1>12, <3>1, <3>2
  <2>4. \A j, k \in DOMAIN o : j < k => Before(K, FALSE, o[j], o[k])
    BY <1>12, <1>13
  <2> HIDE DEF o
  <2> QED BY <2>1, <2>2, <2>3, <2>4 DEF IsOrder
<1>15. [k \in DOMAIN o2 |-> rows[o2[k]]] = Rows(signals, o)
  BY <1>8, <1>12 DEF Rows
<1>16. IsOrder(o, OccurredAt(OfRecord(w, p)), FALSE) /\ GetMergedRecord(w, p) = Merged(Rows(signals, o))
  BY <1>6, <1>14, <1>15 DEF K, S
<1> QED BY <1>16
\* Of the rows of a record that carry a column, one is newest, and its value is
\* the one in the merged record.
NewestCarrier(w, p, n, i) ==
  /\ i \in OfRecord(w, p) /\ signals[i].columns[n] # None
  /\ GetMergedRecord(w, p)[n] = signals[i].columns[n]
  /\ \A j \in OfRecord(w, p) : signals[j].columns[n] # None /\ j # i =>
       Before(OccurredAt(OfRecord(w, p)), FALSE, j, i)

LEMMA MergedIsNewest ==
  ASSUME StorageAssumption, ListsTyped, NEW w, NEW p, NEW n \in Name
  PROVE  \/ /\ \A i \in OfRecord(w, p) : signals[i].columns[n] = None
            /\ GetMergedRecord(w, p)[n] = None
         \/ \E i \in OfRecord(w, p) : NewestCarrier(w, p, n, i)
<1> DEFINE S == OfRecord(w, p)
           K == OccurredAt(S)
<1>1. PICK o : IsOrder(o, K, FALSE) /\ GetMergedRecord(w, p) = Merged(Rows(signals, o))
  BY RecordOrder
<1> DEFINE rows == Rows(signals, o)
           N == Cardinality(S)
<1>2. S \in SUBSET DOMAIN signals /\ IsKey(K) /\ DOMAIN K = S
  BY ListKeys DEF OfRecord, OccurredAt
<1>3. N \in Nat
  BY <1>2, FS_CardinalityType DEF IsKey
<1> HIDE DEF S, K
<1>4. /\ DOMAIN o = 1..N /\ \A k \in 1..N : o[k] \in S
      /\ \A i \in S : \E k \in 1..N : o[k] = i
      /\ \A j, k \in 1..N : j < k => Before(K, FALSE, o[j], o[k])
  BY <1>1, <1>2 DEF IsOrder
<1> HIDE DEF N
<1>5. rows = [k \in 1..N |-> signals[o[k]]]
  BY <1>4 DEF Rows
<1>6. \A k \in 1..N : rows[k] = signals[o[k]]
  BY <1>5
<1>7. Len(rows) = N
  BY <1>3, <1>5
<1>8. GetMergedRecord(w, p) = MergedUpTo(rows, N)
  BY <1>1, <1>3, <1>7, MergedFacts
<1> HIDE DEF rows
<1>9. CASE Carriers(rows, N, n) = {}
  <2>1. \A k \in 1..N : signals[o[k]].columns[n] = None
    BY <1>6, <1>9 DEF Carriers
  <2>2. \A i \in S : signals[i].columns[n] = None
    BY <1>4, <2>1
  <2>3. GetMergedRecord(w, p)[n] = None
    BY <1>8, <1>9 DEF MergedUpTo
  <2> QED BY <2>2, <2>3 DEF S
<1>10. CASE Carriers(rows, N, n) # {}
  <2> DEFINE m == LastCarrier(rows, N, n)
  <2>1. m \in Carriers(rows, N, n) /\ \A j \in Carriers(rows, N, n) : j <= m
    BY <1>3, <1>10, LastCarrierFacts
  <2>2. GetMergedRecord(w, p)[n] = rows[m].columns[n]
    BY <1>8, <1>10 DEF MergedUpTo
  <2> HIDE DEF m
  <2>3. m \in 1..N /\ rows[m] = signals[o[m]] /\ signals[o[m]].columns[n] # None /\ o[m] \in S
    BY <1>4, <1>6, <2>1 DEF Carriers
  <2>4. ASSUME NEW j \in S, signals[j].columns[n] # None, j # o[m]
        PROVE  Before(K, FALSE, j, o[m])
    <3>1. PICK k \in 1..N : o[k] = j
      BY <1>4
    <3>2. k \in Carriers(rows, N, n)
      BY <1>6, <2>4, <3>1 DEF Carriers
    <3>3. k < m
      BY <1>3, <2>1, <2>3, <2>4, <3>1, <3>2
    <3> QED BY <1>4, <2>3, <3>1, <3>3
  <2>5. NewestCarrier(w, p, n, o[m])
    BY <2>2, <2>3, <2>4 DEF NewestCarrier, S, K
  <2> QED BY <2>3, <2>5 DEF S
<1> QED BY <1>9, <1>10

LEMMA OnlyOneTied ==
  ASSUME NEW T, NEW m \in T, IsFiniteSet(T), Cardinality(T) = 1
  PROVE  T = {m}
<1>1. {m} \in SUBSET T /\ Cardinality({m}) = 1
  BY FS_Singleton
<1> QED BY <1>1, FS_Subset

LEMMA RowIsMerged ==
  ASSUME StorageAssumption, ListsTyped
  PROVE  RowAgreesWithMerged
<1> SUFFICES ASSUME NEW w \in Workspace, NEW p \in PKey
    PROVE  LET row == GetZipperedRow(w, p)
               tied == {i \in OfRecord(w, p) : signals[i].occurred_at = row.occurred_at}
           IN  row # None /\ Cardinality(tied) = 1 =>
                 \A n \in Name : row.columns[n] # None => GetMergedRecord(w, p)[n] = row.columns[n]
  BY DEF RowAgreesWithMerged
<1> DEFINE S == OfRecord(w, p)
           K == OccurredAt(S)
           row == GetZipperedRow(w, p)
           tied == {i \in S : signals[i].occurred_at = row.occurred_at}
<1> SUFFICES ASSUME row # None, Cardinality(tied) = 1, NEW n \in Name, row.columns[n] # None
             PROVE  GetMergedRecord(w, p)[n] = row.columns[n]
  OBVIOUS
<1> DEFINE m == FirstMax(K)
<1>1. S \in SUBSET DOMAIN signals /\ IsKey(K) /\ DOMAIN K = S
  BY ListKeys DEF OfRecord, OccurredAt
<1>2. S # {} /\ row = signals[m]
  BY DEF GetZipperedRow, OccurredAt
<1>3. m \in S /\ \A j \in S : j # m => Before(K, TRUE, m, j)
  BY <1>1, <1>2, FirstMaxFacts
<1> HIDE DEF m
<1>4. tied = {m}
  <2>1. m \in tied
    BY <1>2, <1>3
  <2>2. IsFiniteSet(tied)
    <3>1. tied \in SUBSET S /\ IsFiniteSet(S)
      BY <1>1 DEF IsKey
    <3> QED BY <3>1, FS_Subset
  <2> HIDE DEF tied
  <2> QED BY <2>1, <2>2, OnlyOneTied
<1>5. ASSUME NEW i \in S, i # m PROVE ~Before(K, FALSE, m, i)
  <2>1. K[i] # K[m]
    BY <1>2, <1>3, <1>4, <1>5 DEF OccurredAt
  <2>2. Before(K, TRUE, m, i)
    BY <1>3, <1>5
  <2>3. K[i] \in Nat /\ K[m] \in Nat
    BY <1>1, <1>3 DEF IsKey
  <2> QED BY <2>1, <2>2, <2>3 DEF Before
<1> HIDE DEF row, tied
<1>6. PICK i \in S : NewestCarrier(w, p, n, i)
  <2>1. signals[m].columns[n] # None
    BY <1>2
  <2> QED BY <1>3, <2>1, MergedIsNewest
<1>7. i = m
  BY <1>2, <1>3, <1>5, <1>6 DEF NewestCarrier
<1> QED BY <1>2, <1>6, <1>7 DEF NewestCarrier

\* Where one row is the most recent, the merged record shows its values.
THEOREM LatestRowIsInMergedRecord == Spec => []RowAgreesWithMerged
<1>1. ListsTyped => RowAgreesWithMerged
  BY RowIsMerged, StorageAssumption
<1> QED BY <1>1, MemoryTypeCorrect, PTL
-----------------------------------------------------------------------------
(* The record told from the deliveries: each stored row is one external row,*)
(* and remembers of its deliveries the first and the last.                  *)

\* The rows delivered, by the position of their call in a log l.
Delivered(l) ==
  [k \in {j \in DOMAIN l : CallOf(l[j]).method = "upsert_signal"} |-> CallOf(l[k]).row]

SameRow(d, j, k) ==
  \/ j = k
  \/ /\ d[k].external_id # None
     /\ d[j].source = d[k].source
     /\ d[j].external_id = d[k].external_id

\* Of the deliveries d, first[i] and last[i] are the first and the last of the
\* row at place i of the list s.
Traced(d, s, first, last) ==
  /\ first \in [DOMAIN s -> DOMAIN d] /\ last \in [DOMAIN s -> DOMAIN d]
  /\ \A i \in DOMAIN s : SameRow(d, first[i], last[i])
  /\ \A k \in DOMAIN d : \E i \in DOMAIN s :
       SameRow(d, first[i], k) /\ first[i] <= k /\ k <= last[i]
  /\ \A i, j \in DOMAIN s : i # j => ~SameRow(d, first[i], first[j])
  /\ \A i, j \in DOMAIN s : i < j => first[i] < first[j]
  /\ \A i \in DOMAIN s :
       /\ s[i].workspace_key = d[first[i]].workspace_key
       /\ s[i].source = d[first[i]].source
       /\ s[i].external_id = d[first[i]].external_id
       /\ s[i].pkey = d[last[i]].pkey
       /\ s[i].occurred_at = d[last[i]].occurred_at
       /\ s[i].columns = d[last[i]].columns

\* The delivery of r as number K, after those in d.
OneMore(d, K, r, d2) ==
  /\ DOMAIN d \subseteq Nat /\ K \in Nat /\ \A k \in DOMAIN d : k < K
  /\ DOMAIN d2 = DOMAIN d \cup {K}
  /\ d2[K] = r /\ \A k \in DOMAIN d : d2[k] = d[k]

LEMMA SameStays ==
  ASSUME NEW d, NEW K, NEW r, NEW d2, OneMore(d, K, r, d2)
  PROVE  \A j, k \in DOMAIN d : SameRow(d2, j, k) <=> SameRow(d, j, k)
BY DEF OneMore, SameRow

\* A row that comes again keeps its place, and its first delivery.
LEMMA TraceRenewed ==
  ASSUME NEW s \in Seq(SignalRow), NEW r \in SignalRow, NEW i \in DOMAIN s,
         s[i].source = r.source, s[i].external_id = r.external_id, r.external_id # None,
         NEW s2, s2 = [s EXCEPT ![i] =
           [@ EXCEPT !.pkey = r.pkey, !.occurred_at = r.occurred_at, !.columns = r.columns]],
         NEW d, NEW K, NEW d2, OneMore(d, K, r, d2),
         NEW first, NEW last, Traced(d, s, first, last)
  PROVE  Traced(d2, s2, first, [last EXCEPT ![i] = K])
<1> DEFINE last2 == [last EXCEPT ![i] = K]
<1>1. DOMAIN s2 = DOMAIN s /\ \A j \in DOMAIN s : j # i => s2[j] = s[j]
  OBVIOUS
<1>2. /\ s2[i].workspace_key = s[i].workspace_key
      /\ s2[i].source = s[i].source
      /\ s2[i].external_id = s[i].external_id
      /\ s2[i].pkey = r.pkey /\ s2[i].occurred_at = r.occurred_at
      /\ s2[i].columns = r.columns
  <2>1. s[i] \in SignalRow
    OBVIOUS
  <2>2. s2[i] = [s[i] EXCEPT !.pkey = r.pkey, !.occurred_at = r.occurred_at, !.columns = r.columns]
    OBVIOUS
  <2> QED BY <2>1, <2>2 DEF SignalRow
<1>3. /\ DOMAIN d2 = DOMAIN d \cup {K} /\ d2[K] = r /\ \A k \in DOMAIN d : d2[k] = d[k]
      /\ K <= K /\ \A k \in DOMAIN d : k <= K
  BY DEF OneMore
<1>4. /\ first \in [DOMAIN s -> DOMAIN d] /\ last \in [DOMAIN s -> DOMAIN d]
      /\ \A j \in DOMAIN s : first[j] \in DOMAIN d /\ last[j] \in DOMAIN d
  BY DEF Traced
<1>5. /\ first \in [DOMAIN s -> DOMAIN d2] /\ last2 \in [DOMAIN s -> DOMAIN d2]
      /\ last2[i] = K /\ \A j \in DOMAIN s : j # i => last2[j] = last[j]
  BY <1>3, <1>4
<1> HIDE DEF last2
<1>6. \A j, k \in DOMAIN d : SameRow(d2, j, k) <=> SameRow(d, j, k)
  BY SameStays
<1>7. SameRow(d2, first[i], K)
  <2>1. d2[first[i]].source = r.source /\ d2[first[i]].external_id = r.external_id
    BY <1>3, <1>4 DEF Traced
  <2> QED BY <1>3, <2>1 DEF SameRow
<1>8. \A j \in DOMAIN s : SameRow(d2, first[j], last2[j])
  BY <1>4, <1>5, <1>6, <1>7 DEF Traced
<1>9. ASSUME NEW k \in DOMAIN d2
      PROVE  \E j \in DOMAIN s : SameRow(d2, first[j], k) /\ first[j] <= k /\ k <= last2[j]
  <2>1. CASE k = K
    BY <1>3, <1>4, <1>5, <1>7, <2>1
  <2>2. CASE k \in DOMAIN d
    <3>1. PICK j \in DOMAIN s : SameRow(d, first[j], k) /\ first[j] <= k /\ k <= last[j]
      BY <2>2 DEF Traced
    <3>2. SameRow(d2, first[j], k)
      BY <1>4, <1>6, <2>2, <3>1
    <3>3. k <= last2[j]
      BY <1>3, <1>5, <2>2, <3>1
    <3> QED BY <3>1, <3>2, <3>3
  <2> QED BY <1>3, <2>1, <2>2
<1>10. /\ \A j, k \in DOMAIN s : j # k => ~SameRow(d2, first[j], first[k])
       /\ \A j, k \in DOMAIN s : j < k => first[j] < first[k]
  BY <1>4, <1>6 DEF Traced
<1>11. ASSUME NEW j \in DOMAIN s
       PROVE  /\ s2[j].workspace_key = d2[first[j]].workspace_key
              /\ s2[j].source = d2[first[j]].source
              /\ s2[j].external_id = d2[first[j]].external_id
              /\ s2[j].pkey = d2[last2[j]].pkey
              /\ s2[j].occurred_at = d2[last2[j]].occurred_at
              /\ s2[j].columns = d2[last2[j]].columns
  <2>1. d2[first[j]] = d[first[j]] /\ d2[last[j]] = d[last[j]]
    BY <1>3, <1>4
  <2>2. CASE j = i
    BY <1>2, <1>3, <1>5, <2>1, <2>2 DEF Traced
  <2>3. CASE j # i
    BY <1>1, <1>5, <2>1, <2>3 DEF Traced
  <2> QED BY <2>2, <2>3
<1>12. Traced(d2, s2, first, last2)
  BY <1>1, <1>5, <1>8, <1>9, <1>10, <1>11 DEF Traced
<1> QED BY <1>12 DEF last2

\* A new row gets a place of its own, at the end of the list.
LEMMA TraceExtended ==
  ASSUME NEW s \in Seq(SignalRow), NEW r \in SignalRow,
         \A i \in DOMAIN s : r.external_id # None =>
           ~(s[i].source = r.source /\ s[i].external_id = r.external_id),
         NEW d, NEW K, NEW d2, OneMore(d, K, r, d2),
         NEW first, NEW last, Traced(d, s, first, last)
  PROVE  \E f, l : Traced(d2, Append(s, r), f, l)
<1> DEFINE N == Len(s)
           s2 == Append(s, r)
<1>1. /\ N \in Nat /\ DOMAIN s = 1..N
      /\ DOMAIN s2 = 1..(N + 1) /\ s2[N + 1] = r
      /\ \A j \in 1..N : s2[j] = s[j]
  OBVIOUS
<1>2. /\ DOMAIN d2 = DOMAIN d \cup {K} /\ d2[K] = r /\ \A k \in DOMAIN d : d2[k] = d[k]
      /\ K <= K /\ K \notin DOMAIN d /\ \A k \in DOMAIN d : k < K
  BY DEF OneMore
<1>3. \A j \in 1..N : first[j] \in DOMAIN d /\ last[j] \in DOMAIN d
  BY <1>1 DEF Traced
<1>4. PICK first2 : first2 = [i \in 1..(N + 1) |-> IF i = N + 1 THEN K ELSE first[i]]
  OBVIOUS
<1>5. PICK last2 : last2 = [i \in 1..(N + 1) |-> IF i = N + 1 THEN K ELSE last[i]]
  OBVIOUS
<1>6. /\ first2 \in [1..(N + 1) -> DOMAIN d2] /\ last2 \in [1..(N + 1) -> DOMAIN d2]
      /\ N + 1 \in 1..(N + 1) /\ first2[N + 1] = K /\ last2[N + 1] = K
      /\ \A j \in 1..N : j \in 1..(N + 1) /\ first2[j] = first[j] /\ last2[j] = last[j]
  BY <1>1, <1>2, <1>3, <1>4, <1>5
<1>7. \A j \in 1..(N + 1) : j \in 1..N \/ j = N + 1
  BY <1>1
<1>8. \A j \in 1..N : j < N + 1 /\ ~(N + 1 < j)
  BY <1>1
<1> HIDE DEF N, s2
<1>9. \A j, k \in DOMAIN d : SameRow(d2, j, k) <=> SameRow(d, j, k)
  BY SameStays
<1>10. ASSUME NEW j \in 1..N
       PROVE  ~SameRow(d2, first[j], K) /\ ~SameRow(d2, K, first[j])
  <2>1. d2[first[j]] = d[first[j]] /\ first[j] # K
    BY <1>2, <1>3
  <2>2. d[first[j]].source = s[j].source /\ d[first[j]].external_id = s[j].external_id
    BY <1>1 DEF Traced
  <2>3. r.external_id # None => ~(s[j].source = r.source /\ s[j].external_id = r.external_id)
    BY <1>1
  <2> QED BY <1>2, <2>1, <2>2, <2>3 DEF SameRow
<1>11. SameRow(d2, K, K)
  BY DEF SameRow
<1>12. \A j \in 1..(N + 1) : SameRow(d2, first2[j], last2[j])
  <2>1. \A j \in 1..N : SameRow(d2, first[j], last[j])
    BY <1>1, <1>3, <1>9 DEF Traced
  <2> QED BY <1>6, <1>7, <1>11, <2>1
<1>13. ASSUME NEW k \in DOMAIN d2
       PROVE  \E j \in 1..(N + 1) : SameRow(d2, first2[j], k) /\ first2[j] <= k /\ k <= last2[j]
  <2>1. CASE k = K
    BY <1>2, <1>6, <1>11, <2>1
  <2>2. CASE k \in DOMAIN d
    <3>1. PICK j \in 1..N : SameRow(d, first[j], k) /\ first[j] <= k /\ k <= last[j]
      BY <1>1, <2>2 DEF Traced
    <3>2. SameRow(d2, first[j], k)
      BY <1>3, <1>9, <2>2, <3>1
    <3> QED BY <1>6, <3>1, <3>2
  <2> QED BY <1>2, <2>1, <2>2
<1>14. ASSUME NEW j \in 1..(N + 1), NEW k \in 1..(N + 1), j # k
       PROVE  ~SameRow(d2, first2[j], first2[k]) /\ (j < k => first2[j] < first2[k])
  <2>1. CASE j \in 1..N /\ k \in 1..N
    <3>1. /\ first2[j] = first[j] /\ first2[k] = first[k]
          /\ first[j] \in DOMAIN d /\ first[k] \in DOMAIN d
      BY <1>3, <1>6, <2>1
    <3>2. ~SameRow(d, first[j], first[k]) /\ (j < k => first[j] < first[k])
      BY <1>1, <1>14, <2>1 DEF Traced
    <3>3. ~SameRow(d2, first[j], first[k])
      BY <1>9, <3>1, <3>2
    <3> QED BY <3>1, <3>2, <3>3
  <2>2. CASE j \in 1..N /\ k = N + 1
    BY <1>2, <1>3, <1>6, <1>10, <2>2
  <2>3. CASE j = N + 1 /\ k \in 1..N
    BY <1>6, <1>8, <1>10, <2>3
  <2> QED BY <1>7, <1>14, <2>1, <2>2, <2>3
<1>15. ASSUME NEW j \in 1..(N + 1)
       PROVE  /\ s2[j].workspace_key = d2[first2[j]].workspace_key
              /\ s2[j].source = d2[first2[j]].source
              /\ s2[j].external_id = d2[first2[j]].external_id
              /\ s2[j].pkey = d2[last2[j]].pkey
              /\ s2[j].occurred_at = d2[last2[j]].occurred_at
              /\ s2[j].columns = d2[last2[j]].columns
  <2>1. CASE j = N + 1
    BY <1>1, <1>2, <1>6, <2>1
  <2>2. CASE j \in 1..N
    <3>1. d2[first2[j]] = d[first[j]] /\ d2[last2[j]] = d[last[j]] /\ s2[j] = s[j]
      BY <1>1, <1>2, <1>3, <1>6, <2>2
    <3>2. /\ s[j].workspace_key = d[first[j]].workspace_key
          /\ s[j].source = d[first[j]].source
          /\ s[j].external_id = d[first[j]].external_id
          /\ s[j].pkey = d[last[j]].pkey
          /\ s[j].occurred_at = d[last[j]].occurred_at
          /\ s[j].columns = d[last[j]].columns
      BY <1>1, <2>2 DEF Traced
    <3> QED BY <3>1, <3>2
  <2> QED BY <1>7, <2>1, <2>2
<1>16. \A j, k \in 1..(N + 1) : j < k => first2[j] < first2[k]
  <2>1. \A j, k \in 1..(N + 1) : j < k => j # k
    BY <1>1
  <2> QED BY <1>14, <2>1
<1>17. Traced(d2, s2, first2, last2)
  BY <1>1, <1>6, <1>12, <1>13, <1>14, <1>15, <1>16 DEF Traced
<1> QED BY <1>17 DEF s2

\* The deliveries in a log that a call is added to.
LEMMA DeliveredNext ==
  ASSUME NEW l \in Seq(Attempt), NEW a \in Attempt
  PROVE  /\ CallOf(a).method # "upsert_signal" => Delivered(Append(l, a)) = Delivered(l)
         /\ CallOf(a).method = "upsert_signal" =>
              OneMore(Delivered(l), Len(l) + 1, CallOf(a).row, Delivered(Append(l, a)))
<1> DEFINE K == Len(l) + 1
           l2 == Append(l, a)
           D == {j \in DOMAIN l : CallOf(l[j]).method = "upsert_signal"}
           D2 == {j \in DOMAIN l2 : CallOf(l2[j]).method = "upsert_signal"}
<1>1. /\ Len(l) \in Nat /\ DOMAIN l = 1..Len(l) /\ DOMAIN l2 = (1..Len(l)) \cup {K}
      /\ l2[K] = a /\ \A j \in 1..Len(l) : l2[j] = l[j]
      /\ K \in Nat /\ K \notin 1..Len(l) /\ \A j \in 1..Len(l) : j < K /\ j \in Nat
  OBVIOUS
<1> HIDE DEF K, l2
<1>2. /\ DOMAIN Delivered(l) = D /\ \A k \in D : Delivered(l)[k] = CallOf(l[k]).row
      /\ DOMAIN Delivered(l2) = D2 /\ \A k \in D2 : Delivered(l2)[k] = CallOf(l2[k]).row
  BY DEF Delivered
<1>3. D \subseteq 1..Len(l) /\ \A j \in D : l2[j] = l[j]
  BY <1>1
<1>4. CASE CallOf(a).method # "upsert_signal"
  <2>1. D2 = D
    BY <1>1, <1>4
  <2>2. \A k \in D : CallOf(l2[k]).row = CallOf(l[k]).row
    BY <1>3
  <2>3. Delivered(l2) = Delivered(l)
    BY <2>1, <2>2 DEF Delivered
  <2> QED BY <1>4, <2>3 DEF l2
<1>5. CASE CallOf(a).method = "upsert_signal"
  <2>1. D2 = D \cup {K}
    BY <1>1, <1>5
  <2>2. /\ Delivered(l2)[K] = CallOf(a).row
        /\ \A k \in D : Delivered(l2)[k] = Delivered(l)[k]
    BY <1>1, <1>2, <1>3, <2>1
  <2> HIDE DEF D, D2
  <2>3. OneMore(Delivered(l), K, CallOf(a).row, Delivered(l2))
    BY <1>1, <1>2, <1>3, <2>1, <2>2 DEF OneMore
  <2> QED BY <1>5, <2>3 DEF l2, K
<1> QED BY <1>4, <1>5

\* Every stored row is traced to its deliveries.
TraceInv == \E first, last : Traced(Delivered(log), signals, first, last)

LEMMA TraceNext ==
  ASSUME MemoryAssumption, StorageAssumption, ListsTyped, TraceInv, [Next]_vars
  PROVE  TraceInv'
<1>1. ASSUME NEW a \in Attempt, Call(a) PROVE TraceInv'
  <2> DEFINE c == CallOf(a)
             r == c.row
  <2>1. log \in Seq(Attempt) /\ log' = Append(log, a) /\ signals \in Seq(SignalRow)
    BY <1>1 DEF ListsTyped, Call
  <2>2. PICK first, last : Traced(Delivered(log), signals, first, last)
    BY DEF TraceInv
  <2>3. CASE c.method # "upsert_signal"
    <3>1. signals' = signals
      BY <1>1, <2>3 DEF Call, InsertDecision, UpsertSchemaRow, AddGlobalColumn
    <3>2. Delivered(log') = Delivered(log)
      BY <2>1, <2>3, DeliveredNext
    <3> QED BY <2>2, <3>1, <3>2 DEF TraceInv
  <2>4. CASE c.method = "upsert_signal"
    <3>1. r \in SignalRow /\ UpsertSignal(r)
      BY <1>1, <2>4, CallTypes DEF Call
    <3>2. OneMore(Delivered(log), Len(log) + 1, r, Delivered(log'))
      BY <2>1, <2>4, DeliveredNext
    <3>3. PICK id \in 1..(Len(signals) + 1) : Promise!UpsertSignal(r, id)
      BY <3>1, UpsertSignalMaps
    <3> HIDE DEF r
    <3>4. CASE Promise!SameExternal(r) = {}
      <4>1. signals' = Append(signals, r)
        BY <3>3, <3>4 DEF Promise!UpsertSignal, Promise!InsertSignal
      <4>2. \A i \in DOMAIN signals : r.external_id # None =>
              ~(signals[i].source = r.source /\ signals[i].external_id = r.external_id)
        BY <3>4 DEF Promise!SameExternal
      <4>3. \E f, l : Traced(Delivered(log'), Append(signals, r), f, l)
        BY <2>1, <2>2, <3>1, <3>2, <4>2, TraceExtended
      <4> QED BY <4>1, <4>3 DEF TraceInv
    <3>5. CASE Promise!SameExternal(r) # {}
      <4>1. id \in Promise!SameExternal(r) /\ Promise!UpdateSignal(id, r)
        BY <3>3, <3>5 DEF Promise!UpsertSignal
      <4>2. /\ id \in DOMAIN signals /\ signals[id].source = r.source
            /\ signals[id].external_id = r.external_id /\ r.external_id # None
        BY <4>1 DEF Promise!SameExternal
      <4>3. signals' = [signals EXCEPT ![id] =
              [@ EXCEPT !.pkey = r.pkey, !.occurred_at = r.occurred_at, !.columns = r.columns]]
        BY <4>1 DEF Promise!UpdateSignal
      <4>4. Traced(Delivered(log'), signals', first, [last EXCEPT ![id] = Len(log) + 1])
        BY <2>1, <2>2, <3>1, <3>2, <4>2, <4>3, TraceRenewed
      <4> QED BY <4>4 DEF TraceInv
    <3> QED BY <3>4, <3>5
  <2> QED BY <2>3, <2>4
<1>2. CASE UNCHANGED vars
  BY <1>2 DEF vars, lists, TraceInv
<1> QED BY <1>1, <1>2 DEF Next, Finished
\* What a state in which every row is traced says of the deliveries.
LEMMA TracedFacts ==
  ASSUME ListsTyped, NEW first, NEW last, Traced(Delivered(log), signals, first, last)
  PROVE  /\ \A i \in DOMAIN signals :
              /\ first[i] \in Deliveries /\ last[i] \in Deliveries
              /\ first[i] \in Nat /\ last[i] \in Nat
              /\ FirstDelivery(last[i]) = first[i]
              /\ \A k \in Deliveries : SameExternalRow(k, last[i]) => k <= last[i]
         /\ \A k \in Deliveries :
              (\A j \in Deliveries : SameExternalRow(j, k) => j <= k)
                => \E i \in DOMAIN signals : k = last[i]
<1> DEFINE d == Delivered(log)
<1>1. DOMAIN d = Deliveries /\ \A k \in Deliveries : d[k] = RowAt(k)
  BY DEF Delivered, Deliveries, RowAt
<1>2. Deliveries \subseteq Nat
  BY DEF Deliveries, ListsTyped
<1> HIDE DEF d
<1>3. \A j, k \in Deliveries : SameExternalRow(j, k) <=> SameRow(d, j, k)
  BY <1>1 DEF SameExternalRow, SameRow
<1>4. \A j, k, l \in Deliveries :
        /\ SameExternalRow(j, j)
        /\ SameExternalRow(j, k) => SameExternalRow(k, j)
        /\ SameExternalRow(j, k) /\ SameExternalRow(k, l) => SameExternalRow(j, l)
  BY DEF SameExternalRow
<1>5. \A i \in DOMAIN signals : first[i] \in Deliveries /\ last[i] \in Deliveries
  BY <1>1 DEF Traced, d
<1>6. /\ \A i \in DOMAIN signals : SameExternalRow(first[i], last[i])
      /\ \A i, j \in DOMAIN signals : SameExternalRow(first[i], first[j]) => i = j
  BY <1>3, <1>5 DEF Traced, d
<1>7. ASSUME NEW k \in Deliveries
      PROVE  \E i \in DOMAIN signals : SameExternalRow(first[i], k) /\ first[i] <= k /\ k <= last[i]
  <2>1. PICK i \in DOMAIN signals : SameRow(d, first[i], k) /\ first[i] <= k /\ k <= last[i]
    BY <1>1 DEF Traced, d
  <2> QED BY <1>3, <1>5, <2>1
<1>8. ASSUME NEW i \in DOMAIN signals, NEW k \in Deliveries, SameExternalRow(k, last[i])
      PROVE  first[i] <= k /\ k <= last[i]
  <2>1. PICK j \in DOMAIN signals : SameExternalRow(first[j], k) /\ first[j] <= k /\ k <= last[j]
    BY <1>7
  <2>2. SameExternalRow(first[j], last[i])
    BY <1>4, <1>5, <1>8, <2>1
  <2>3. SameExternalRow(last[i], first[i])
    BY <1>4, <1>5, <1>6
  <2>4. SameExternalRow(first[j], first[i])
    BY <1>4, <1>5, <2>2, <2>3
  <2> QED BY <1>6, <2>1, <2>4
<1>9. ASSUME NEW i \in DOMAIN signals PROVE FirstDelivery(last[i]) = first[i]
  <2> DEFINE IsFirst(j) == /\ SameExternalRow(j, last[i])
                           /\ \A k \in Deliveries : SameExternalRow(k, last[i]) => j <= k
  <2>1. FirstDelivery(last[i]) = CHOOSE j \in Deliveries : IsFirst(j)
    BY DEF FirstDelivery
  <2>2. IsFirst(first[i])
    BY <1>6, <1>8
  <2>3. ASSUME NEW j \in Deliveries, IsFirst(j) PROVE j = first[i]
    <3>1. first[i] <= j
      BY <1>8, <2>3
    <3>2. j <= first[i]
      BY <1>5, <1>6, <2>3
    <3>3. j \in Nat /\ first[i] \in Nat
      BY <1>2, <1>5
    <3> HIDE DEF IsFirst
    <3> QED BY <3>1, <3>2, <3>3
  <2> HIDE DEF IsFirst
  <2> QED BY <1>5, <2>1, <2>2, <2>3
<1>10. ASSUME NEW k \in Deliveries,
              \A j \in Deliveries : SameExternalRow(j, k) => j <= k
       PROVE  \E i \in DOMAIN signals : k = last[i]
  <2>1. PICK i \in DOMAIN signals : SameExternalRow(first[i], k) /\ first[i] <= k /\ k <= last[i]
    BY <1>7
  <2>2. SameExternalRow(last[i], k)
    BY <1>4, <1>5, <1>6, <2>1
  <2>3. last[i] <= k
    BY <1>5, <1>10, <2>2
  <2>4. k \in Nat /\ last[i] \in Nat
    BY <1>2, <1>5
  <2>5. k = last[i]
    BY <2>1, <2>3, <2>4
  <2> QED BY <2>5
<1> QED BY <1>2, <1>5, <1>8, <1>9, <1>10

LEMMA RecordIsNewest ==
  ASSUME StorageAssumption, ListsTyped, TraceInv
  PROVE  MergedRecordIsNewest
<1> SUFFICES ASSUME NEW w \in Workspace, NEW p \in PKey, NEW n \in Name
    PROVE  LET carriers == {k \in Current(w, p) : RowAt(k).columns[n] # None}
           IN  IF carriers = {} THEN GetMergedRecord(w, p)[n] = None
               ELSE \E k \in carriers :
                      /\ \A j \in carriers : NewerThan(k, j)
                      /\ GetMergedRecord(w, p)[n] = RowAt(k).columns[n]
  BY DEF MergedRecordIsNewest
<1> DEFINE S == OfRecord(w, p)
           carriers == {k \in Current(w, p) : RowAt(k).columns[n] # None}
<1>1. PICK first, last : Traced(Delivered(log), signals, first, last)
  BY DEF TraceInv
<1>2. \A i \in DOMAIN signals :
        /\ first[i] \in Deliveries /\ last[i] \in Deliveries
        /\ first[i] \in Nat
        /\ FirstDelivery(last[i]) = first[i]
        /\ \A k \in Deliveries : SameExternalRow(k, last[i]) => k <= last[i]
  BY <1>1, TracedFacts
<1>3. \A k \in Deliveries :
        (\A j \in Deliveries : SameExternalRow(j, k) => j <= k)
          => \E i \in DOMAIN signals : k = last[i]
  BY <1>1, TracedFacts
<1>4. \A k \in Deliveries : Delivered(log)[k] = RowAt(k)
  BY DEF Delivered, Deliveries, RowAt
<1>5. ASSUME NEW i \in DOMAIN signals
      PROVE  /\ signals[i].workspace_key = RowAt(first[i]).workspace_key
             /\ signals[i].pkey = RowAt(last[i]).pkey
             /\ signals[i].occurred_at = RowAt(last[i]).occurred_at
             /\ signals[i].columns = RowAt(last[i]).columns
  <2>1. Delivered(log)[first[i]] = RowAt(first[i]) /\ Delivered(log)[last[i]] = RowAt(last[i])
    BY <1>2, <1>4
  <2> QED BY <1>1, <2>1 DEF Traced
<1>6. ASSUME NEW i \in S PROVE last[i] \in Current(w, p)
  <2>1. i \in DOMAIN signals /\ signals[i].workspace_key = w /\ signals[i].pkey = p
    BY DEF OfRecord
  <2> QED BY <1>2, <1>5, <2>1 DEF Current
<1>7. ASSUME NEW k \in Current(w, p) PROVE \E i \in S : k = last[i]
  <2>1. /\ k \in Deliveries /\ \A j \in Deliveries : SameExternalRow(j, k) => j <= k
        /\ RowAt(FirstDelivery(k)).workspace_key = w /\ RowAt(k).pkey = p
    BY DEF Current
  <2>2. PICK i \in DOMAIN signals : k = last[i]
    BY <1>3, <2>1
  <2>3. signals[i].workspace_key = w /\ signals[i].pkey = p
    BY <1>2, <1>5, <2>1, <2>2
  <2> QED BY <2>2, <2>3 DEF OfRecord
<1>8. S \subseteq DOMAIN signals /\ DOMAIN signals \subseteq Nat
  BY DEF OfRecord, ListsTyped
<1> HIDE DEF S
<1>9. CASE /\ \A i \in S : signals[i].columns[n] = None
           /\ GetMergedRecord(w, p)[n] = None
  <2>1. carriers = {}
    BY <1>5, <1>7, <1>8, <1>9
  <2> QED BY <1>9, <2>1
<1>10. CASE \E i \in S : NewestCarrier(w, p, n, i)
  <2>1. PICK i \in S : NewestCarrier(w, p, n, i)
    BY <1>10
  <2>2. i \in DOMAIN signals /\ signals[i].columns = RowAt(last[i]).columns
    BY <1>5, <1>8
  <2>3. last[i] \in carriers /\ GetMergedRecord(w, p)[n] = RowAt(last[i]).columns[n]
    BY <1>6, <2>1, <2>2 DEF NewestCarrier
  <2>4. ASSUME NEW k \in carriers PROVE NewerThan(last[i], k)
    <3>1. PICK j \in S : k = last[j]
      BY <1>7
    <3>2. /\ j \in DOMAIN signals /\ signals[j].columns[n] # None
          /\ FirstDelivery(k) = first[j] /\ FirstDelivery(last[i]) = first[i]
          /\ first[i] \in Nat /\ first[j] \in Nat
          /\ RowAt(k).occurred_at = signals[j].occurred_at
          /\ RowAt(last[i]).occurred_at = signals[i].occurred_at
      BY <1>2, <1>5, <1>8, <2>2, <2>4, <3>1
    <3>3. CASE j = i
      <4>1. first[i] >= first[j]
        BY <3>2, <3>3
      <4> QED BY <3>2, <3>3, <4>1 DEF NewerThan
    <3>4. CASE j # i
      <4>1. Before(OccurredAt(S), FALSE, j, i)
        BY <2>1, <3>2, <3>4 DEF NewestCarrier, S
      <4>2. OccurredAt(S)[j] = signals[j].occurred_at /\ OccurredAt(S)[i] = signals[i].occurred_at
        BY DEF OccurredAt
      <4>3. signals[j].occurred_at \in Nat /\ signals[i].occurred_at \in Nat
        BY <2>2, <3>2, TimesAreNumbers
      <4>4. j < i => first[j] < first[i]
        BY <1>1, <2>2, <3>2 DEF Traced
      <4> QED BY <3>2, <4>1, <4>2, <4>3, <4>4 DEF Before, NewerThan
    <3> QED BY <3>3, <3>4
  <2> QED BY <2>3, <2>4
<1> QED BY <1>9, <1>10, MergedIsNewest DEF S

\* In every run, every stored row is traced to its first and last delivery.
THEOREM RowsAreTraced == Spec => []TraceInv
<1>1. Init => TraceInv
  <2> SUFFICES ASSUME Init PROVE TraceInv
    OBVIOUS
  <2>1. DOMAIN Delivered(log) = {} /\ DOMAIN signals = {}
    BY DEF Init, Delivered
  <2>2. PICK f : f = [i \in {} |-> 0]
    OBVIOUS
  <2>3. Traced(Delivered(log), signals, f, f)
    BY <2>1, <2>2 DEF Traced
  <2> QED BY <2>3 DEF TraceInv
<1>2. ListsTyped /\ TraceInv /\ [Next]_vars => TraceInv'
  BY TraceNext, MemoryAssumption, StorageAssumption
<1> QED BY <1>1, <1>2, MemoryTypeCorrect, PTL DEF Spec

\* Newest wins, per column, of the versions delivered last, however late,
\* repeated, moved to other records or crossing workspaces the deliveries are.
THEOREM NewestDeliveryWins == Spec => []MergedRecordIsNewest
<1>1. ListsTyped /\ TraceInv => MergedRecordIsNewest
  BY RecordIsNewest, StorageAssumption
<1> QED BY <1>1, MemoryTypeCorrect, RowsAreTraced, PTL
=============================================================================
