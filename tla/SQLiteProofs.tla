---------------------------- MODULE SQLiteProofs ----------------------------
(***************************************************************************)
(* Proofs about SQLiteStorage, for any number of processes and calls, with *)
(* any crashes and failing commits: what callers are told is true, and the *)
(* file changes as the storage contract says.                              *)
(***************************************************************************)
EXTENDS SQLiteStore, TLAPS

IsTables(db) ==
  /\ db = [globals |-> db.globals, schema |-> db.schema,
           decisions |-> db.decisions, signals |-> db.signals]
  /\ db.signals \in Seq(SignalRow)

HasView(p) == tx[p] \in {"read", "write"}

Shape ==
  /\ TypeOK
  /\ IsTables(file)
  /\ \A p \in Proc : HasView(p) => IsTables(view[p])

\* A connection that may write sees the file, and what it is about to commit is
\* its statement applied to the file.
ViewsAreCurrent ==
  \A p \in Proc :
    /\ tx[p] = "read" /\ ~overtaken[p] => view[p] = file
    /\ tx[p] = "write" /\ at[p] # "commit" => view[p] = file
    /\ at[p] = "commit" =>
         tx[p] = "write" /\ Accepted(p, file) /\ view[p] = Written(p, file)

\* A row that was found is still there, unless the connection cannot write.
FoundIsThere ==
  \A p \in Proc :
    /\ tx[p] = "write" => ~overtaken[p]
    /\ at[p] = "select" => found[p] = 0 /\ CallOf(running[p]).method = "upsert_signal"
    /\ found[p] # 0 =>
         /\ at[p] \in {"execute", "commit", "return"}
         /\ CallOf(running[p]).method = "upsert_signal"
         /\ ~overtaken[p] /\ at[p] # "return" =>
              found[p] \in SameRow(file, CallOf(running[p]).row)

\* Each attempt is made once, by its process.
CallsAreKnown ==
  /\ \A p \in Proc : at[p] # "idle" =>
       /\ running[p] \in Attempt /\ ProcOf(running[p]) = p /\ outcome[running[p]] = "running"
       /\ running[p] \in committed <=> at[p] = "return"
  /\ \A a \in Attempt : outcome[a] = "new" => a \notin committed
  /\ AnswersAreHonest

-----------------------------------------------------------------------------
(* Callers are told the truth.                                              *)

LEMMA CallsInit ==
  ASSUME Init
  PROVE  CallsAreKnown
BY DEF Init, CallsAreKnown, AnswersAreHonest

LEMMA CallsNext ==
  ASSUME SQLiteAssumption, TypeOK, CallsAreKnown, [Next]_vars
  PROVE  CallsAreKnown'
<1> USE DEF TypeOK, CallsAreKnown, AnswersAreHonest, Outcomes
<1>1. ASSUME NEW p \in Proc, NEW a \in Attempt, Begin(p, a) PROVE CallsAreKnown'
  BY <1>1, SQLiteAssumption DEF Begin, SQLiteAssumption
<1>2. ASSUME NEW p \in Proc, Select(p) PROVE CallsAreKnown'
  BY <1>2 DEF Select
<1>3. ASSUME NEW p \in Proc, Execute(p) PROVE CallsAreKnown'
  BY <1>3 DEF Execute
<1>4. ASSUME NEW p \in Proc, Refuse(p) \/ Busy(p) PROVE CallsAreKnown'
  BY <1>4 DEF Refuse, Busy, Ends
<1>5. ASSUME NEW p \in Proc, Commit(p) PROVE CallsAreKnown'
  BY <1>5 DEF Commit, Publish
<1>6. ASSUME NEW p \in Proc, CommitFails(p) PROVE CallsAreKnown'
  BY <1>6 DEF CommitFails, Ends
<1>7. ASSUME NEW p \in Proc, Return(p) \/ ReadBackFails(p) PROVE CallsAreKnown'
  BY <1>7 DEF Return, ReadBackFails, Ends
<1>8. ASSUME NEW p \in Proc, Crash(p) PROVE CallsAreKnown'
  BY <1>8 DEF Crash, Ends
<1>9. CASE UNCHANGED <<at, running, outcome, committed>>
  BY <1>9
<1> QED BY <1>1, <1>2, <1>3, <1>4, <1>5, <1>6, <1>7, <1>8, <1>9
        DEF Next, Read, Migrate, Finished, vars, method

-----------------------------------------------------------------------------
(* The tables.                                                              *)

SchemaCallRow ==
  [workspace_key : Workspace, pkey : PKey, canonical_name : Name,
   data_type : DataType, is_global : BOOLEAN]

GlobalCallRow == [workspace_key : Workspace, name : Name, data_type : DataType]

LEMMA CallTypes ==
  ASSUME SQLiteAssumption, NEW a \in Attempt
  PROVE  /\ CallOf(a).method \in {"insert_decision", "upsert_schema_row", "upsert_signal",
                                 "add_global_column"}
         /\ CallOf(a).method = "insert_decision" => CallOf(a).row \in DecisionRow
         /\ CallOf(a).method = "upsert_signal" => CallOf(a).row \in SignalRow
         /\ CallOf(a).method = "upsert_schema_row" => CallOf(a).row \in SchemaCallRow
         /\ CallOf(a).method = "add_global_column" => CallOf(a).row \in GlobalCallRow
<1>1. CallOf(a) \in StoreCall
  BY DEF SQLiteAssumption
<1> QED BY <1>1 DEF StoreCall, SchemaCallRow, GlobalCallRow

\* An updated signal is still a signal, of the same source and external id.
LEMMA UpdatedSignal ==
  ASSUME NEW s \in SignalRow, NEW r \in SignalRow
  PROVE  LET u == [s EXCEPT !.pkey = r.pkey, !.occurred_at = r.occurred_at, !.columns = r.columns]
         IN  u \in SignalRow /\ u.source = s.source /\ u.external_id = s.external_id
BY DEF SignalRow

\* What a statement leaves behind: tables, and every signal that was there.
LEMMA WrittenFacts ==
  ASSUME SQLiteAssumption, NEW p \in Proc, running[p] \in Attempt, NEW db, IsTables(db),
         found[p] \in Nat,
         found[p] # 0 /\ CallOf(running[p]).method = "upsert_signal" =>
           found[p] \in SameRow(db, CallOf(running[p]).row)
  PROVE  /\ IsTables(Written(p, db))
         /\ \A s : SameRow(db, s) \subseteq SameRow(Written(p, db), s)
<1> DEFINE c == CallOf(running[p])
           r == c.row
<1>0. c.method \in {"insert_decision", "upsert_schema_row", "upsert_signal", "add_global_column"}
      /\ (c.method = "upsert_signal" => r \in SignalRow)
  BY CallTypes
<1>1. CASE c.method = "insert_decision"
  <2>1. Written(p, db) = DecisionInserted(db, r)
    BY <1>1 DEF Written
  <2>2. Written(p, db).signals = db.signals /\ IsTables(Written(p, db))
    BY <2>1 DEF DecisionInserted, IsTables
  <2> QED BY <2>2 DEF SameRow
<1>2. CASE c.method = "upsert_schema_row"
  <2>1. Written(p, db) = SchemaRowUpserted(db, r)
    BY <1>2 DEF Written
  <2>2. Written(p, db).signals = db.signals /\ IsTables(Written(p, db))
    BY <2>1 DEF SchemaRowUpserted, IsTables
  <2> QED BY <2>2 DEF SameRow
<1>3. CASE c.method = "upsert_signal" /\ found[p] = 0
  <2>1. Written(p, db) = SignalInserted(db, r)
    BY <1>3 DEF Written
  <2>2. Written(p, db).signals = Append(db.signals, r) /\ r \in SignalRow
        /\ db.signals \in Seq(SignalRow)
    BY <1>0, <1>3, <2>1 DEF SignalInserted, IsTables
  <2>3. IsTables(Written(p, db))
    <3>1. Append(db.signals, r) \in Seq(SignalRow)
      BY <2>2
    <3> QED BY <2>1, <2>2, <3>1 DEF SignalInserted, IsTables
  <2> QED BY <2>2, <2>3 DEF SameRow
<1>4. CASE c.method = "upsert_signal" /\ found[p] # 0
  <2> DEFINE i == found[p]
             u == [db.signals[i] EXCEPT !.pkey = r.pkey, !.occurred_at = r.occurred_at,
                                        !.columns = r.columns]
  <2>1. Written(p, db) = SignalUpdated(db, i, r)
    BY <1>4 DEF Written
  <2>2. i \in DOMAIN db.signals /\ r \in SignalRow /\ db.signals \in Seq(SignalRow)
    BY <1>0, <1>4 DEF SameRow, IsTables
  <2>3. Written(p, db).signals = [db.signals EXCEPT ![i] = u]
    BY <2>1 DEF SignalUpdated, IsTables
  <2>4. u \in SignalRow /\ u.source = db.signals[i].source
        /\ u.external_id = db.signals[i].external_id
    <3>1. db.signals[i] \in SignalRow
      BY <2>2
    <3> QED BY <2>2, <3>1, UpdatedSignal
  <2> HIDE DEF u
  <2>5. Written(p, db).signals \in Seq(SignalRow)
        /\ DOMAIN Written(p, db).signals = DOMAIN db.signals
        /\ \A j \in DOMAIN db.signals :
             /\ Written(p, db).signals[j].source = db.signals[j].source
             /\ Written(p, db).signals[j].external_id = db.signals[j].external_id
    BY <2>2, <2>3, <2>4
  <2>6. IsTables(Written(p, db))
    BY <2>1, <2>5 DEF SignalUpdated, IsTables
  <2> QED BY <2>5, <2>6 DEF SameRow
<1>5. CASE c.method = "add_global_column"
  <2>1. Written(p, db) = GlobalInserted(db, r)
    BY <1>5 DEF Written
  <2>2. Written(p, db).signals = db.signals /\ IsTables(Written(p, db))
    BY <2>1 DEF GlobalInserted, IsTables
  <2> QED BY <2>2 DEF SameRow
<1> QED BY <1>0, <1>1, <1>2, <1>3, <1>4, <1>5

-----------------------------------------------------------------------------
(* The file.                                                                *)

SQLiteInv == Shape /\ ViewsAreCurrent /\ FoundIsThere /\ CallsAreKnown

LEMMA SQLiteInit ==
  ASSUME SQLiteAssumption, Init
  PROVE  SQLiteInv
<1>1. IsTables(Empty)
  BY DEF IsTables, Empty
<1>2. TypeOK
  BY SQLiteAssumption DEF Init, TypeOK, Outcomes, SQLiteAssumption
<1>3. Shape
  BY <1>1, <1>2 DEF Init, Shape, HasView
<1>4. ViewsAreCurrent /\ FoundIsThere
  BY DEF Init, ViewsAreCurrent, FoundIsThere
<1> QED BY <1>3, <1>4, CallsInit DEF SQLiteInv

\* What a connection that may write sees is the file.
LEMMA WriterSeesFile ==
  ASSUME SQLiteInv, NEW p \in Proc, CanWrite(p), at[p] # "commit"
  PROVE  Visible(p) = file
BY DEF SQLiteInv, Shape, TypeOK, ViewsAreCurrent, CanWrite, Visible

\* What any connection sees is tables.
LEMMA VisibleTables ==
  ASSUME Shape, NEW p \in Proc
  PROVE  IsTables(Visible(p))
BY DEF Shape, Visible, HasView

\* Its statement, on the file.
LEMMA StatementFacts ==
  ASSUME SQLiteAssumption, SQLiteInv, NEW p \in Proc, at[p] \in {"execute", "commit"}, ~overtaken[p]
  PROVE  /\ IsTables(Written(p, file))
         /\ \A s : SameRow(file, s) \subseteq SameRow(Written(p, file), s)
<1>1. running[p] \in Attempt /\ found[p] \in Nat /\ IsTables(file)
  BY DEF SQLiteInv, Shape, TypeOK, CallsAreKnown
<1>2. found[p] # 0 => found[p] \in SameRow(file, CallOf(running[p]).row)
  BY DEF SQLiteInv, FoundIsThere
<1> QED BY <1>1, <1>2, WrittenFacts

\* The statement of a method does not change while the method does not move.
LEMMA SameStatement ==
  ASSUME NEW p \in Proc, running'[p] = running[p], found'[p] = found[p], file' = file
  PROVE  /\ Accepted(p, file)' <=> Accepted(p, file)
         /\ Written(p, file)' = Written(p, file)
BY DEF Accepted, Written, SameRow, DecisionInserted, SchemaRowUpserted, SignalUpdated,
       SignalInserted, GlobalInserted

LEMMA ShapeNext ==
  ASSUME SQLiteAssumption, SQLiteInv, [Next]_vars
  PROVE  Shape'
<1> USE SQLiteAssumption DEF SQLiteAssumption, SQLiteInv, Shape, TypeOK, HasView, SetTx, Ends, Outcomes
<1>1. ASSUME NEW p \in Proc, NEW a \in Attempt, Begin(p, a) PROVE Shape'
  BY <1>1 DEF Begin, connection
<1>2. ASSUME NEW p \in Proc, Select(p) PROVE Shape'
  <2>1. CASE tx[p] = "begun" /\ SetTx(p, "read", file)
    BY <1>2, <2>1 DEF Select
  <2>2. CASE UNCHANGED connection
    BY <1>2, <2>2 DEF Select, connection
  <2> QED BY <1>2, <2>1, <2>2 DEF Select, SnapshotOnRead
<1>3. ASSUME NEW p \in Proc, Execute(p) PROVE Shape'
  <2>1. Visible(p) = file /\ ~overtaken[p]
    BY <1>3, WriterSeesFile DEF Execute, CanWrite
  <2>2. IsTables(Written(p, file))
    BY <1>3, <2>1, StatementFacts DEF Execute
  <2>3. view' = [view EXCEPT ![p] = Written(p, file)]
    BY <1>3, <2>1 DEF Execute
  <2>4. \A q \in Proc : HasView(q)' => IsTables(view'[q])
    BY <1>3, <2>2, <2>3 DEF Execute
  <2>5. TypeOK'
    BY <1>3 DEF Execute, CanWrite
  <2> QED BY <1>3, <2>4, <2>5 DEF Execute
<1>4. ASSUME NEW p \in Proc, Refuse(p) PROVE Shape'
  <2>1. Visible(p) = file
    BY <1>4, WriterSeesFile DEF Refuse
  <2>2. TypeOK'
    BY <1>4 DEF Refuse, CanWrite
  <2> QED BY <1>4, <2>1, <2>2 DEF Refuse
<1>5. ASSUME NEW p \in Proc, Busy(p) PROVE Shape'
  BY <1>5 DEF Busy
<1>6. ASSUME NEW p \in Proc, Commit(p) PROVE Shape'
  <2>1. tx[p] = "write" /\ IsTables(view[p]) /\ file' = view[p]
    BY <1>6 DEF Commit, Publish, ViewsAreCurrent
  <2>2. TypeOK'
    BY <1>6 DEF Commit, Publish, CallsAreKnown
  <2> QED BY <1>6, <2>1, <2>2 DEF Commit, Publish
<1>7. ASSUME NEW p \in Proc, CommitFails(p) \/ Crash(p) \/ Migrate(p) PROVE Shape'
  <2>1. CASE CommitFails(p)
    BY <2>1 DEF CommitFails, CallsAreKnown
  <2>2. CASE Crash(p)
    BY <2>2 DEF Crash, CallsAreKnown
  <2>3. CASE Migrate(p)
    BY <2>3 DEF Migrate, method
  <2> QED BY <1>7, <2>1, <2>2, <2>3
<1>8. ASSUME NEW p \in Proc, Return(p) \/ ReadBackFails(p) PROVE Shape'
  BY <1>8 DEF Return, ReadBackFails, connection
<1>9. ASSUME NEW p \in Proc, Read(p) PROVE Shape'
  <2>1. CASE tx[p] = "begun" /\ SetTx(p, "read", file)
    BY <1>9, <2>1 DEF Read, method
  <2>2. CASE UNCHANGED connection
    BY <1>9, <2>2 DEF Read, connection, method
  <2> QED BY <1>9, <2>1, <2>2 DEF Read, SnapshotOnRead
<1>10. CASE UNCHANGED vars
  BY <1>10 DEF vars, connection, method
<1> QED BY <1>1, <1>2, <1>3, <1>4, <1>5, <1>6, <1>7, <1>8, <1>9, <1>10 DEF Next, Finished

\* Only a commit changes the file; no other process then writes, and the
\* snapshots it leaves behind are marked.
LEMMA CommitFacts ==
  ASSUME SQLiteInv, NEW p \in Proc, Commit(p)
  PROVE  /\ tx[p] = "write" /\ Accepted(p, file) /\ file' = Written(p, file)
         /\ \A q \in Proc \ {p} : tx[q] # "write" /\ at[q] # "commit"
         /\ \A q \in Proc \ {p} : tx[q] = "read" /\ ~overtaken'[q] => file' = file
<1>1. /\ tx[p] = "write" /\ Accepted(p, file) /\ view[p] = Written(p, file)
      /\ file' = view[p]
  BY DEF SQLiteInv, ViewsAreCurrent, Commit, Publish
<1>2. \A q \in Proc \ {p} : tx[q] # "write" /\ at[q] # "commit"
  BY <1>1 DEF SQLiteInv, Shape, TypeOK, ViewsAreCurrent
<1>3. ASSUME NEW q \in Proc \ {p}, tx[q] = "read", ~overtaken'[q] PROVE file' = file
  BY <1>1, <1>3 DEF Commit, ChangesFile
<1> QED BY <1>1, <1>2, <1>3

LEMMA ViewsNext ==
  ASSUME SQLiteAssumption, SQLiteInv, [Next]_vars
  PROVE  ViewsAreCurrent'
<1>1. SUFFICES ASSUME NEW q \in Proc
               PROVE  /\ tx'[q] = "read" /\ ~overtaken'[q] => view'[q] = file'
                      /\ tx'[q] = "write" /\ at'[q] # "commit" => view'[q] = file'
                      /\ at'[q] = "commit" =>
                           /\ tx'[q] = "write" /\ Accepted(q, file)'
                           /\ view'[q] = Written(q, file)'
  BY DEF ViewsAreCurrent
<1> USE DEF SQLiteInv, Shape, TypeOK, SetTx, Ends
<1>2. /\ tx[q] = "read" /\ ~overtaken[q] => view[q] = file
      /\ tx[q] = "write" /\ at[q] # "commit" => view[q] = file
      /\ at[q] = "commit" =>
           tx[q] = "write" /\ Accepted(q, file) /\ view[q] = Written(q, file)
  BY DEF ViewsAreCurrent
<1> DEFINE Goal == /\ tx'[q] = "read" /\ ~overtaken'[q] => view'[q] = file'
                   /\ tx'[q] = "write" /\ at'[q] # "commit" => view'[q] = file'
                   /\ at'[q] = "commit" =>
                        /\ tx'[q] = "write" /\ Accepted(q, file)'
                        /\ view'[q] = Written(q, file)'
\* A step that leaves this process and the file alone.
<1>3. CASE /\ file' = file /\ tx'[q] = tx[q] /\ view'[q] = view[q] /\ overtaken'[q] = overtaken[q]
           /\ at'[q] = at[q] /\ running'[q] = running[q] /\ found'[q] = found[q]
  BY <1>2, <1>3, SameStatement
<1>4. ASSUME NEW p \in Proc, NEW a \in Attempt, Begin(p, a) PROVE Goal
  <2>1. CASE q = p
    BY <1>2, <1>4, <2>1 DEF Begin, connection
  <2>2. CASE q # p
    BY <1>3, <1>4, <2>2 DEF Begin, connection
  <2> QED BY <2>1, <2>2
<1>5. ASSUME NEW p \in Proc, Select(p) PROVE Goal
  <2>1. CASE q = p
    BY <1>2, <1>5, <2>1 DEF Select, SnapshotOnRead, connection
  <2>2. CASE q # p
    BY <1>3, <1>5, <2>2 DEF Select, SnapshotOnRead, connection
  <2> QED BY <2>1, <2>2
<1>6. ASSUME NEW p \in Proc, Execute(p) PROVE Goal
  <2>1. Visible(p) = file
    BY <1>6, WriterSeesFile DEF Execute
  <2>2. CASE q = p
    <3>1. /\ Accepted(q, file) /\ file' = file /\ tx'[q] = "write" /\ at'[q] = "commit"
          /\ view'[q] = Written(q, file) /\ running' = running /\ found' = found
      BY <1>6, <2>1, <2>2 DEF Execute
    <3> QED BY <3>1, SameStatement
  <2>3. CASE q # p
    BY <1>3, <1>6, <2>3 DEF Execute
  <2> QED BY <2>2, <2>3
<1>7. ASSUME NEW p \in Proc, Refuse(p) PROVE Goal
  <2>1. Visible(p) = file
    BY <1>7, WriterSeesFile DEF Refuse
  <2>2. CASE q = p
    BY <1>7, <2>1, <2>2 DEF Refuse
  <2>3. CASE q # p
    BY <1>3, <1>7, <2>3 DEF Refuse
  <2> QED BY <2>2, <2>3
<1>8. ASSUME NEW p \in Proc, Busy(p) PROVE Goal
  <2>1. CASE q = p
    BY <1>2, <1>8, <2>1 DEF Busy
  <2>2. CASE q # p
    BY <1>3, <1>8, <2>2 DEF Busy
  <2> QED BY <2>1, <2>2
<1>9. ASSUME NEW p \in Proc, Commit(p) PROVE Goal
  <2>1. CASE q = p
    BY <1>9, <2>1 DEF Commit, Publish
  <2>2. CASE q # p
    <3>1. tx[q] # "write" /\ at[q] # "commit"
          /\ (tx[q] = "read" /\ ~overtaken'[q] => file' = file)
      BY <1>9, <2>2, CommitFacts
    <3>2. tx'[q] = tx[q] /\ view'[q] = view[q] /\ at'[q] = at[q]
          /\ (~overtaken'[q] => ~overtaken[q])
      BY <1>9, <2>2 DEF Commit, Publish
    <3> QED BY <1>2, <3>1, <3>2
  <2> QED BY <2>1, <2>2
<1>10. ASSUME NEW p \in Proc, CommitFails(p) \/ Crash(p) PROVE Goal
  <2>1. CASE q = p
    BY <1>10, <2>1 DEF CommitFails, Crash
  <2>2. CASE q # p
    BY <1>3, <1>10, <2>2 DEF CommitFails, Crash
  <2> QED BY <2>1, <2>2
<1>11. ASSUME NEW p \in Proc, Return(p) \/ ReadBackFails(p) PROVE Goal
  <2>1. CASE q = p
    BY <1>2, <1>11, <2>1 DEF Return, ReadBackFails, connection
  <2>2. CASE q # p
    BY <1>3, <1>11, <2>2 DEF Return, ReadBackFails, connection
  <2> QED BY <2>1, <2>2
<1>12. ASSUME NEW p \in Proc, Read(p) \/ Migrate(p) PROVE Goal
  <2>1. CASE q = p
    BY <1>2, <1>12, <2>1 DEF Read, Migrate, SnapshotOnRead, connection, method
  <2>2. CASE q # p
    BY <1>3, <1>12, <2>2 DEF Read, Migrate, SnapshotOnRead, connection, method
  <2> QED BY <2>1, <2>2
<1>13. CASE UNCHANGED vars
  BY <1>3, <1>13 DEF vars, connection, method
<1> QED BY <1>4, <1>5, <1>6, <1>7, <1>8, <1>9, <1>10, <1>11, <1>12, <1>13 DEF Next, Finished

LEMMA FoundNext ==
  ASSUME SQLiteAssumption, SQLiteInv, [Next]_vars
  PROVE  FoundIsThere'
<1>1. SUFFICES ASSUME NEW q \in Proc
               PROVE  /\ tx'[q] = "write" => ~overtaken'[q]
                      /\ at'[q] = "select" =>
                           found'[q] = 0 /\ CallOf(running'[q]).method = "upsert_signal"
                      /\ found'[q] # 0 =>
                           /\ at'[q] \in {"execute", "commit", "return"}
                           /\ CallOf(running'[q]).method = "upsert_signal"
                           /\ ~overtaken'[q] /\ at'[q] # "return" =>
                                found'[q] \in SameRow(file', CallOf(running'[q]).row)
  BY DEF FoundIsThere
<1> USE DEF SQLiteInv, Shape, TypeOK, SetTx, Ends
<1>2. /\ tx[q] = "write" => ~overtaken[q]
      /\ at[q] = "select" => found[q] = 0 /\ CallOf(running[q]).method = "upsert_signal"
      /\ found[q] # 0 =>
           /\ at[q] \in {"execute", "commit", "return"}
           /\ CallOf(running[q]).method = "upsert_signal"
           /\ ~overtaken[q] /\ at[q] # "return" =>
                found[q] \in SameRow(file, CallOf(running[q]).row)
  BY DEF FoundIsThere
<1> DEFINE Goal == /\ tx'[q] = "write" => ~overtaken'[q]
                   /\ at'[q] = "select" =>
                        found'[q] = 0 /\ CallOf(running'[q]).method = "upsert_signal"
                   /\ found'[q] # 0 =>
                        /\ at'[q] \in {"execute", "commit", "return"}
                        /\ CallOf(running'[q]).method = "upsert_signal"
                        /\ ~overtaken'[q] /\ at'[q] # "return" =>
                             found'[q] \in SameRow(file', CallOf(running'[q]).row)
\* A step that leaves this process and the file alone.
<1>3. CASE /\ file' = file /\ tx'[q] = tx[q] /\ overtaken'[q] = overtaken[q]
           /\ at'[q] = at[q] /\ running'[q] = running[q] /\ found'[q] = found[q]
  BY <1>2, <1>3
<1>4. ASSUME NEW p \in Proc, NEW a \in Attempt, Begin(p, a) PROVE Goal
  <2>1. CASE q = p
    BY <1>2, <1>4, <2>1 DEF Begin, connection
  <2>2. CASE q # p
    BY <1>3, <1>4, <2>2 DEF Begin, connection
  <2> QED BY <2>1, <2>2
<1>5. ASSUME NEW p \in Proc, Select(p) PROVE Goal
  <2>1. CASE q = p
    <3>1. Visible(p) = file \/ overtaken'[p]
      BY <1>5 DEF Select, SnapshotOnRead, connection, Visible, ViewsAreCurrent
    <3>2. found'[p] # 0 => found'[p] \in SameRow(Visible(p), CallOf(running[p]).row)
      BY <1>5 DEF Select
    <3>3. /\ at'[p] = "execute" /\ running' = running /\ file' = file
          /\ CallOf(running[p]).method = "upsert_signal"
          /\ tx'[p] = "write" => ~overtaken'[p]
      BY <1>2, <1>5, <2>1 DEF Select, SnapshotOnRead, connection
    <3> QED BY <2>1, <3>1, <3>2, <3>3
  <2>2. CASE q # p
    BY <1>3, <1>5, <2>2 DEF Select, SnapshotOnRead, connection
  <2> QED BY <2>1, <2>2
<1>6. ASSUME NEW p \in Proc, Execute(p) PROVE Goal
  <2>1. CASE q = p
    BY <1>2, <1>6, <2>1 DEF Execute, CanWrite
  <2>2. CASE q # p
    BY <1>3, <1>6, <2>2 DEF Execute
  <2> QED BY <2>1, <2>2
<1>7. ASSUME NEW p \in Proc, Refuse(p) \/ Busy(p) \/ CommitFails(p) \/ Crash(p) \/ Return(p)
                             \/ ReadBackFails(p)
      PROVE Goal
  <2>1. CASE q = p
    BY <1>2, <1>7, <2>1 DEF Refuse, Busy, CommitFails, Crash, Return, ReadBackFails, connection
  <2>2. CASE q # p
    BY <1>3, <1>7, <2>2 DEF Refuse, Busy, CommitFails, Crash, Return, ReadBackFails, connection
  <2> QED BY <2>1, <2>2
<1>8. ASSUME NEW p \in Proc, Commit(p) PROVE Goal
  <2>1. CASE q = p
    BY <1>2, <1>8, <2>1 DEF Commit, Publish
  <2>2. CASE q # p
    <3>1. tx[p] = "write" /\ ~overtaken[p] /\ at[p] = "commit" /\ file' = Written(p, file)
      BY <1>8, CommitFacts DEF FoundIsThere, Commit
    <3>2. SameRow(file, CallOf(running[q]).row) \subseteq SameRow(file', CallOf(running[q]).row)
      BY <3>1, StatementFacts
    <3>3. /\ at'[q] = at[q] /\ running' = running /\ found' = found /\ tx'[q] = tx[q]
          /\ (~overtaken'[q] => ~overtaken[q]) /\ (tx[q] # "read" => overtaken'[q] = overtaken[q])
      BY <1>8, <2>2 DEF Commit, Publish
    <3> QED BY <1>2, <3>2, <3>3
  <2> QED BY <2>1, <2>2
<1>9. ASSUME NEW p \in Proc, Read(p) \/ Migrate(p) PROVE Goal
  <2>1. CASE q = p
    BY <1>2, <1>9, <2>1 DEF Read, Migrate, SnapshotOnRead, connection, method
  <2>2. CASE q # p
    BY <1>3, <1>9, <2>2 DEF Read, Migrate, SnapshotOnRead, connection, method
  <2> QED BY <2>1, <2>2
<1>10. CASE UNCHANGED vars
  BY <1>3, <1>10 DEF vars, connection, method
<1> QED BY <1>4, <1>5, <1>6, <1>7, <1>8, <1>9, <1>10 DEF Next, Finished

\* The connections, the file and the calls keep their shape, and agree.
THEOREM SQLiteCorrect == Spec => []SQLiteInv
<1>1. Init => SQLiteInv
  BY SQLiteInit, SQLiteAssumption
<1>2. SQLiteInv /\ [Next]_vars => SQLiteInv'
  BY ShapeNext, ViewsNext, FoundNext, CallsNext, SQLiteAssumption DEF SQLiteInv, Shape
<1> QED BY <1>1, <1>2, PTL DEF Spec

\* One writer at a time, and no view outside a transaction.
THEOREM SQLiteTypeCorrect == Spec => []TypeOK
<1>1. SQLiteInv => TypeOK
  BY DEF SQLiteInv, Shape
<1> QED BY <1>1, SQLiteCorrect, PTL

\* A call that returned is in the file; one that raised is not, and never will be.
THEOREM CallersAreToldTheTruth == Spec => []AnswersAreHonest
<1>1. SQLiteInv => AnswersAreHonest
  BY DEF SQLiteInv, CallsAreKnown
<1> QED BY <1>1, SQLiteCorrect, PTL

-----------------------------------------------------------------------------
(* The refinement: the commit is the step of the contract.                  *)

LEMMA CommitApplies ==
  ASSUME SQLiteAssumption, SQLiteInv, NEW p \in Proc, Commit(p)
  PROVE  Promise!Apply(running[p])
<1> DEFINE c == CallOf(running[p])
           r == c.row
<1>1. /\ Accepted(p, file) /\ file' = Written(p, file) /\ IsTables(file)
      /\ running[p] \in Attempt /\ running[p] \notin committed
      /\ committed' = committed \cup {running[p]}
  BY CommitFacts DEF SQLiteInv, Shape, TypeOK, CallsAreKnown, Commit, Publish
<1>2. /\ c.method \in {"insert_decision", "upsert_schema_row", "upsert_signal", "add_global_column"}
      /\ c.method = "upsert_signal" => r \in SignalRow
  BY <1>1, CallTypes
<1>3. CASE c.method = "insert_decision"
  <2>1. file' = DecisionInserted(file, r)
    BY <1>1, <1>3 DEF Written
  <2>2. Promise!InsertDecision(r)
    BY <1>1, <2>1 DEF DecisionInserted, IsTables, Promise!InsertDecision
  <2> QED BY <1>1, <1>3, <2>2 DEF Promise!Apply, Promise!TakesEffect
<1>4. CASE c.method = "upsert_schema_row"
  <2>1. file' = SchemaRowUpserted(file, r) /\ r.data_type \in StorableType
    BY <1>1, <1>4 DEF Written, Accepted
  <2>2. Promise!UpsertSchemaRow(r.workspace_key, r.pkey, r.canonical_name,
                                [data_type |-> r.data_type, is_global |-> r.is_global])
    BY <1>1, <2>1 DEF SchemaRowUpserted, IsTables, Promise!UpsertSchemaRow
  <2> QED BY <1>1, <1>4, <2>2 DEF Promise!Apply, Promise!TakesEffect
<1>5. CASE c.method = "upsert_signal" /\ found[p] = 0
  <2>1. file' = SignalInserted(file, r) /\ SameRow(file, r) = {}
    BY <1>1, <1>5 DEF Written, Accepted
  <2>2. Promise!InsertSignal(r) /\ Promise!SameExternal(r) = {}
    BY <1>1, <2>1 DEF SignalInserted, SameRow, IsTables, Promise!InsertSignal, Promise!SameExternal
  <2>3. Len(file.signals) + 1 \in 1..(Len(file.signals) + 1)
    BY <1>1 DEF IsTables
  <2>4. Promise!UpsertSignal(r, Len(file.signals) + 1)
    BY <2>2 DEF Promise!UpsertSignal
  <2> QED BY <1>1, <1>5, <2>3, <2>4 DEF Promise!Apply, Promise!TakesEffect
<1>6. CASE c.method = "upsert_signal" /\ found[p] # 0
  <2>1. file' = SignalUpdated(file, found[p], r)
    BY <1>1, <1>6 DEF Written
  <2>2. found[p] \in SameRow(file, r)
    BY <1>6, CommitFacts DEF SQLiteInv, FoundIsThere, Commit
  <2>3. found[p] \in Promise!SameExternal(r)
    BY <2>2 DEF SameRow, Promise!SameExternal
  <2>4. Promise!UpdateSignal(found[p], r)
    BY <1>1, <2>1 DEF SignalUpdated, IsTables, Promise!UpdateSignal
  <2>5. found[p] \in 1..(Len(file.signals) + 1)
    BY <1>1, <2>2 DEF IsTables, SameRow
  <2> QED BY <1>1, <1>6, <2>3, <2>4, <2>5
          DEF Promise!Apply, Promise!TakesEffect, Promise!UpsertSignal
<1>7. CASE c.method = "add_global_column"
  <2>1. file' = GlobalInserted(file, r)
    BY <1>1, <1>7 DEF Written
  <2>2. Promise!AddGlobalColumn(r.workspace_key, r.name, r.data_type)
    BY <1>1, <2>1 DEF GlobalInserted, IsTables, Promise!AddGlobalColumn
  <2> QED BY <1>1, <1>7, <2>2 DEF Promise!Apply, Promise!TakesEffect
<1> QED BY <1>2, <1>3, <1>4, <1>5, <1>6, <1>7

LEMMA OnlyCommitsChange ==
  ASSUME [Next]_vars
  PROVE  UNCHANGED <<file, committed>> \/ \E p \in Proc : Commit(p)
BY DEF Next, Begin, Select, Execute, Refuse, Busy, CommitFails, Return, ReadBackFails, Read, Migrate, Crash,
       Finished, vars

\* Whatever several processes do to one file, it changes as if each call had been
\* made at once and on its own.
THEOREM SQLiteImplementsContract == Spec => ImplementsContract
<1>1. Init => Promise!Init
  BY DEF Init, Empty, Promise!Init
<1>2. SQLiteInv /\ [Next]_vars => [Promise!Next]_<<Promise!store, committed>>
  <2> SUFFICES ASSUME SQLiteInv, [Next]_vars
               PROVE  [Promise!Next]_<<Promise!store, committed>>
    OBVIOUS
  <2>1. ASSUME NEW p \in Proc, Commit(p) PROVE Promise!Next
    BY <2>1, CommitApplies, SQLiteAssumption
       DEF Promise!Next, SQLiteInv, Shape, TypeOK, CallsAreKnown, Commit
  <2>2. CASE UNCHANGED <<file, committed>>
    BY <2>2 DEF Promise!store
  <2> QED BY <2>1, <2>2, OnlyCommitsChange
<1> QED BY <1>1, <1>2, SQLiteCorrect, PTL DEF Spec, ImplementsContract, Promise!Spec

-----------------------------------------------------------------------------
(* What a connection reads.                                                 *)

\* The tables hold rows of their kinds.
IsTyped(db) ==
  /\ IsTables(db)
  /\ db.globals \in [Workspace -> [Name -> DataType \cup {None}]]
  /\ db.schema \in [Workspace -> [PKey -> [Name -> SchemaRow \cup {None}]]]
  /\ db.decisions \in Seq(DecisionRow)

\* db holds what old held: rows are added and replaced, and none goes.
Behind(old, db) ==
  /\ DOMAIN old.decisions \subseteq DOMAIN db.decisions
  /\ \A i \in DOMAIN old.decisions : db.decisions[i] = old.decisions[i]
  /\ DOMAIN old.signals \subseteq DOMAIN db.signals
  /\ \A i \in DOMAIN old.signals :
       /\ db.signals[i].source = old.signals[i].source
       /\ db.signals[i].external_id = old.signals[i].external_id
  /\ \A w \in Workspace, n \in Name :
       old.globals[w][n] # None => db.globals[w][n] = old.globals[w][n]
  /\ \A w \in Workspace, k \in PKey, n \in Name :
       old.schema[w][k][n] # None => db.schema[w][k][n] # None

\* Outside of a statement and its commit, a connection is on tables that were
\* the file once, and not before its own last commit.
ReadInv ==
  /\ IsTyped(file)
  /\ \A a \in committed : Reflects(file, CallOf(a))
  /\ \A p \in Proc : HasView(p) /\ at[p] # "commit" =>
       /\ IsTyped(view[p]) /\ Behind(view[p], file)
       /\ \A a \in committed : ProcOf(a) = p => Reflects(view[p], CallOf(a))

LEMMA BehindGoesOn ==
  ASSUME NEW a, NEW b, NEW c, Behind(a, b), Behind(b, c)
  PROVE  Behind(a, c)
BY DEF Behind

LEMMA BehindItself ==
  ASSUME NEW db
  PROVE  Behind(db, db)
BY DEF Behind

\* What the older tables show of a call, the newer ones show.
LEMMA ReflectsGoesOn ==
  ASSUME SQLiteAssumption, NEW a \in Attempt, NEW old, NEW db,
         Reflects(old, CallOf(a)), Behind(old, db)
  PROVE  Reflects(db, CallOf(a))
<1> DEFINE c == CallOf(a)
           r == c.row
<1>1. CASE c.method = "insert_decision"
  BY <1>1 DEF Reflects, Behind
<1>2. CASE c.method = "upsert_schema_row"
  <2>1. r \in SchemaCallRow
    BY <1>2, CallTypes
  <2>2. r.workspace_key \in Workspace /\ r.pkey \in PKey /\ r.canonical_name \in Name
    BY <2>1 DEF SchemaCallRow
  <2> QED BY <1>2, <2>2 DEF Reflects, Behind
<1>3. CASE c.method = "upsert_signal"
  BY <1>3 DEF Reflects, Behind
<1>4. CASE c.method = "add_global_column"
  <2>1. r \in GlobalCallRow
    BY <1>4, CallTypes
  <2>2. r.workspace_key \in Workspace /\ r.name \in Name
    BY <2>1 DEF GlobalCallRow
  <2> QED BY <1>4, <2>2 DEF Reflects, Behind
<1> QED BY <1>1, <1>2, <1>3, <1>4, CallTypes

\* One row of the inventory is replaced, and the others stay.
LEMMA RowReplaced ==
  ASSUME NEW S \in [Workspace -> [PKey -> [Name -> SchemaRow \cup {None}]]],
         NEW w \in Workspace, NEW k \in PKey, NEW n \in Name, NEW row \in SchemaRow
  PROVE  LET T == [S EXCEPT ![w][k][n] = row]
         IN  /\ T \in [Workspace -> [PKey -> [Name -> SchemaRow \cup {None}]]]
             /\ T[w][k][n] = row
             /\ \A ww \in Workspace, kk \in PKey, nn \in Name :
                  T[ww][kk][nn] = S[ww][kk][nn] \/ T[ww][kk][nn] = row
<1> DEFINE names == [S[w][k] EXCEPT ![n] = row]
           keys == [S[w] EXCEPT ![k] = names]
           T == [S EXCEPT ![w] = keys]
<1>1. S[w] \in [PKey -> [Name -> SchemaRow \cup {None}]]
  OBVIOUS
<1>2. S[w][k] \in [Name -> SchemaRow \cup {None}]
  BY <1>1
<1>3. /\ names \in [Name -> SchemaRow \cup {None}] /\ names[n] = row
      /\ \A nn \in Name : names[nn] = S[w][k][nn] \/ names[nn] = row
  BY <1>2
<1> HIDE DEF names
<1>4. /\ keys \in [PKey -> [Name -> SchemaRow \cup {None}]] /\ keys[k] = names
      /\ \A kk \in PKey : keys[kk] = S[w][kk] \/ (kk = k /\ keys[kk] = names)
  BY <1>1, <1>3
<1> HIDE DEF keys
<1>5. /\ T \in [Workspace -> [PKey -> [Name -> SchemaRow \cup {None}]]] /\ T[w] = keys
      /\ \A ww \in Workspace : T[ww] = S[ww] \/ (ww = w /\ T[ww] = keys)
  BY <1>4
<1>6. [S EXCEPT ![w][k][n] = row] = T
  BY DEF keys, names
<1> HIDE DEF T
<1>7. T[w][k][n] = row
  BY <1>3, <1>4, <1>5
<1>8. ASSUME NEW ww \in Workspace, NEW kk \in PKey, NEW nn \in Name
      PROVE  T[ww][kk][nn] = S[ww][kk][nn] \/ T[ww][kk][nn] = row
  BY <1>3, <1>4, <1>5
<1> QED BY <1>5, <1>6, <1>7, <1>8

\* A statement adds to the tables, and they show it.
LEMMA WrittenAdds ==
  ASSUME SQLiteAssumption, StorageAssumption, NEW p \in Proc, running[p] \in Attempt,
         NEW db, IsTyped(db), IsTables(Written(p, db)),
         found[p] \in Nat,
         found[p] # 0 /\ CallOf(running[p]).method = "upsert_signal" =>
           found[p] \in SameRow(db, CallOf(running[p]).row)
  PROVE  /\ IsTyped(Written(p, db))
         /\ Behind(db, Written(p, db))
         /\ Reflects(Written(p, db), CallOf(running[p]))
<1> DEFINE c == CallOf(running[p])
           r == c.row
           new == Written(p, db)
<1>1. CASE c.method = "insert_decision"
  <2>1. r \in DecisionRow /\ new = DecisionInserted(db, r)
    BY <1>1, CallTypes DEF Written
  <2>2. /\ new.decisions = Append(db.decisions, r) /\ new.globals = db.globals
        /\ new.schema = db.schema /\ new.signals = db.signals
    BY <2>1 DEF DecisionInserted, IsTyped, IsTables
  <2>3. /\ db.decisions \in Seq(DecisionRow) /\ new.decisions \in Seq(DecisionRow)
        /\ DOMAIN db.decisions \subseteq DOMAIN new.decisions
        /\ \A i \in DOMAIN db.decisions : new.decisions[i] = db.decisions[i]
        /\ \E i \in DOMAIN new.decisions : new.decisions[i] = r
    <3>1. db.decisions \in Seq(DecisionRow)
      BY DEF IsTyped
    <3>2. Len(db.decisions) + 1 \in DOMAIN new.decisions
          /\ new.decisions[Len(db.decisions) + 1] = r
      BY <2>1, <2>2, <3>1
    <3> QED BY <2>1, <2>2, <3>1, <3>2
  <2>4. Reflects(new, c)
    BY <1>1, <2>3 DEF Reflects
  <2> QED BY <2>2, <2>3, <2>4 DEF IsTyped, Behind
<1>2. CASE c.method = "upsert_schema_row"
  <2> DEFINE row == [data_type |-> r.data_type, is_global |-> r.is_global]
  <2>1. r \in SchemaCallRow /\ new = SchemaRowUpserted(db, r)
    BY <1>2, CallTypes DEF Written
  <2>2. /\ r.workspace_key \in Workspace /\ r.pkey \in PKey /\ r.canonical_name \in Name
        /\ row \in SchemaRow /\ row # None
    BY <2>1 DEF SchemaCallRow, SchemaRow, StorageAssumption
  <2> HIDE DEF row
  <2>3. /\ new.schema = [db.schema EXCEPT ![r.workspace_key][r.pkey][r.canonical_name] = row]
        /\ new.globals = db.globals /\ new.decisions = db.decisions /\ new.signals = db.signals
    BY <2>1 DEF SchemaRowUpserted, IsTyped, IsTables, row
  <2>4. db.schema \in [Workspace -> [PKey -> [Name -> SchemaRow \cup {None}]]]
    BY DEF IsTyped
  <2>5. Reflects(new, c) <=> new.schema[r.workspace_key][r.pkey][r.canonical_name] # None
    BY <1>2 DEF Reflects
  <2>6. IsTables(new)
    OBVIOUS
  <2> HIDE DEF new, r, c
  <2>7. /\ new.schema \in [Workspace -> [PKey -> [Name -> SchemaRow \cup {None}]]]
        /\ new.schema[r.workspace_key][r.pkey][r.canonical_name] = row
        /\ \A w \in Workspace, k \in PKey, n \in Name :
             new.schema[w][k][n] = db.schema[w][k][n] \/ new.schema[w][k][n] = row
    BY <2>2, <2>3, <2>4, RowReplaced
  <2>8. IsTyped(new)
    BY <2>3, <2>7, <2>6 DEF IsTyped
  <2>9. Behind(db, new)
    BY <2>2, <2>3, <2>7 DEF Behind
  <2> QED BY <2>2, <2>7, <2>5, <2>8, <2>9 DEF new, c
<1>3. CASE c.method = "upsert_signal" /\ found[p] = 0
  <2>1. r \in SignalRow /\ new = SignalInserted(db, r)
    BY <1>3, CallTypes DEF Written
  <2>2. /\ new.signals = Append(db.signals, r) /\ new.globals = db.globals
        /\ new.schema = db.schema /\ new.decisions = db.decisions
    BY <2>1 DEF SignalInserted, IsTyped, IsTables
  <2>3. db.signals \in Seq(SignalRow)
    BY DEF IsTyped, IsTables
  <2>4. Len(db.signals) + 1 \in DOMAIN new.signals /\ new.signals[Len(db.signals) + 1] = r
    BY <2>1, <2>2, <2>3
  <2>5. /\ DOMAIN db.signals \subseteq DOMAIN new.signals
        /\ \A i \in DOMAIN db.signals : new.signals[i] = db.signals[i]
    BY <2>1, <2>2, <2>3
  <2>6. Reflects(new, c)
    BY <1>3, <2>4 DEF Reflects
  <2> QED BY <2>2, <2>5, <2>6 DEF IsTyped, Behind
<1>4. CASE c.method = "upsert_signal" /\ found[p] # 0
  <2> DEFINE i == found[p]
             u == [db.signals[i] EXCEPT !.pkey = r.pkey, !.occurred_at = r.occurred_at,
                                        !.columns = r.columns]
  <2>1. r \in SignalRow /\ new = SignalUpdated(db, i, r)
    BY <1>4, CallTypes DEF Written
  <2>2. /\ db.signals \in Seq(SignalRow) /\ i \in DOMAIN db.signals
        /\ db.signals[i].source = r.source /\ db.signals[i].external_id = r.external_id
    BY <1>4 DEF IsTyped, IsTables, SameRow
  <2>3. u.source = db.signals[i].source /\ u.external_id = db.signals[i].external_id
    <3>1. db.signals[i] \in SignalRow
      BY <2>2
    <3> QED BY <2>1, <3>1, UpdatedSignal
  <2> HIDE DEF u
  <2>4. /\ new.signals = [db.signals EXCEPT ![i] = u] /\ new.globals = db.globals
        /\ new.schema = db.schema /\ new.decisions = db.decisions
    BY <2>1 DEF SignalUpdated, IsTyped, IsTables, u
  <2>5. /\ DOMAIN new.signals = DOMAIN db.signals
        /\ \A j \in DOMAIN db.signals :
             /\ new.signals[j].source = db.signals[j].source
             /\ new.signals[j].external_id = db.signals[j].external_id
    BY <2>2, <2>3, <2>4
  <2>6. Reflects(new, c)
    BY <1>4, <2>2, <2>5 DEF Reflects
  <2> QED BY <2>4, <2>5, <2>6 DEF IsTyped, Behind
<1>5. CASE c.method = "add_global_column"
  <2> DEFINE w == r.workspace_key
             n == r.name
  <2>1. r \in GlobalCallRow /\ new = GlobalInserted(db, r)
    BY <1>5, CallTypes DEF Written
  <2>2. w \in Workspace /\ n \in Name /\ r.data_type \in DataType /\ r.data_type # None
    BY <2>1 DEF GlobalCallRow, StorageAssumption
  <2>3. db.globals \in [Workspace -> [Name -> DataType \cup {None}]]
    BY DEF IsTyped
  <2>4. CASE db.globals[w][n] = None /\ r.data_type \in StorableType
    <3>1. /\ new.globals = [db.globals EXCEPT ![w][n] = r.data_type]
          /\ new.schema = db.schema /\ new.decisions = db.decisions /\ new.signals = db.signals
      BY <2>1, <2>4 DEF GlobalInserted, IsTyped, IsTables
    <3>2. new.globals[w][n] = r.data_type
          /\ new.globals \in [Workspace -> [Name -> DataType \cup {None}]]
      BY <2>2, <2>3, <3>1
    <3>3. \A ww \in Workspace, m \in Name :
            db.globals[ww][m] # None => new.globals[ww][m] = db.globals[ww][m]
      BY <2>2, <2>3, <2>4, <3>1
    <3>4. Reflects(new, c)
      BY <1>5, <2>2, <3>2 DEF Reflects
    <3> QED BY <3>1, <3>2, <3>3, <3>4 DEF IsTyped, Behind
  <2>5. CASE ~(db.globals[w][n] = None /\ r.data_type \in StorableType)
    <3>1. new = db
      BY <2>1, <2>5 DEF GlobalInserted
    <3>2. Reflects(new, c)
      BY <1>5, <2>5, <3>1 DEF Reflects
    <3> QED BY <3>1, <3>2, BehindItself
  <2> QED BY <2>4, <2>5
<1> QED BY <1>1, <1>2, <1>3, <1>4, <1>5, CallTypes
LEMMA ReadInit ==
  ASSUME SQLiteAssumption, Init
  PROVE  ReadInv
<1>1. IsTyped(Empty)
  BY DEF IsTyped, IsTables, Empty
<1> QED BY <1>1 DEF Init, ReadInv, HasView

\* The commit of p, as the readers of the file see it.
LEMMA CommitAdds ==
  ASSUME SQLiteAssumption, StorageAssumption, SQLiteInv, ReadInv, NEW p \in Proc, Commit(p)
  PROVE  /\ IsTyped(file') /\ Behind(file, file')
         /\ running[p] \in Attempt /\ ProcOf(running[p]) = p
         /\ committed' = committed \cup {running[p]}
         /\ Reflects(file', CallOf(running[p]))
<1>1. /\ running[p] \in Attempt /\ ProcOf(running[p]) = p /\ found[p] \in Nat
      /\ at[p] = "commit" /\ committed' = committed \cup {running[p]}
  BY DEF SQLiteInv, Shape, TypeOK, CallsAreKnown, Commit, Publish
<1>2. ~overtaken[p] /\ file' = Written(p, file)
  BY CommitFacts DEF SQLiteInv, FoundIsThere
<1>3. IsTables(Written(p, file))
  BY <1>1, <1>2, StatementFacts
<1>4. found[p] # 0 => found[p] \in SameRow(file, CallOf(running[p]).row)
  BY <1>1, <1>2 DEF SQLiteInv, FoundIsThere
<1>5. IsTyped(file)
  BY DEF ReadInv
<1>6. /\ IsTyped(Written(p, file)) /\ Behind(file, Written(p, file))
      /\ Reflects(Written(p, file), CallOf(running[p]))
  BY <1>1, <1>3, <1>4, <1>5, WrittenAdds
<1> QED BY <1>1, <1>2, <1>6

\* A connection is where it was, on the file, out of its transactions, or
\* between a statement and its commit.
LEMMA ViewsMove ==
  ASSUME SQLiteInv, [Next]_vars, UNCHANGED <<file, committed>>, NEW q \in Proc,
         HasView(q)', at'[q] # "commit"
  PROVE  view'[q] = file \/ (HasView(q) /\ at[q] # "commit" /\ view'[q] = view[q])
<1> USE DEF SQLiteInv, Shape, TypeOK, HasView, SetTx, Ends
<1>1. CASE /\ tx'[q] = tx[q] /\ view'[q] = view[q] /\ at'[q] = at[q]
  BY <1>1
<1>2. ASSUME NEW p \in Proc, NEW a \in Attempt, Begin(p, a)
      PROVE  view'[q] = view[q] /\ HasView(q) /\ at[q] # "commit"
  BY <1>2 DEF Begin, connection
<1>3. ASSUME NEW p \in Proc, Select(p) \/ Read(p)
      PROVE  view'[q] = file \/ (HasView(q) /\ at[q] # "commit" /\ view'[q] = view[q])
  BY <1>3 DEF Select, Read, SnapshotOnRead, connection, method
<1>4. ASSUME NEW p \in Proc, Execute(p)
      PROVE  HasView(q) /\ at[q] # "commit" /\ view'[q] = view[q]
  BY <1>4 DEF Execute
<1>5. ASSUME NEW p \in Proc, Refuse(p)
      PROVE  view'[q] = file \/ (HasView(q) /\ at[q] # "commit" /\ view'[q] = view[q])
  <2>1. Visible(p) = file
    BY <1>5, WriterSeesFile DEF Refuse
  <2> QED BY <1>5, <2>1 DEF Refuse
<1>6. ASSUME NEW p \in Proc, Busy(p)
      PROVE  HasView(q) /\ at[q] # "commit" /\ view'[q] = view[q]
  BY <1>6 DEF Busy
<1>7. ASSUME NEW p \in Proc, Commit(p)
      PROVE  HasView(q) /\ at[q] # "commit" /\ view'[q] = view[q]
  BY <1>7 DEF Commit, Publish
<1>8. ASSUME NEW p \in Proc, CommitFails(p) \/ Crash(p) \/ Migrate(p)
      PROVE  HasView(q) /\ at[q] # "commit" /\ view'[q] = view[q]
  BY <1>8 DEF CommitFails, Crash, Migrate, method
<1>9. ASSUME NEW p \in Proc, Return(p) \/ ReadBackFails(p)
      PROVE  HasView(q) /\ at[q] # "commit" /\ view'[q] = view[q]
  BY <1>9 DEF Return, ReadBackFails, connection
<1>10. CASE UNCHANGED vars
  BY <1>1, <1>10 DEF vars, connection, method
<1> QED BY <1>2, <1>3, <1>4, <1>5, <1>6, <1>7, <1>8, <1>9, <1>10 DEF Next, Finished

LEMMA ReadNext ==
  ASSUME SQLiteAssumption, StorageAssumption, SQLiteInv, ReadInv, [Next]_vars
  PROVE  ReadInv'
<1>0. committed \subseteq Attempt
  BY DEF SQLiteInv, Shape, TypeOK
<1>1. ASSUME NEW p \in Proc, Commit(p) PROVE ReadInv'
  <2>1. /\ IsTyped(file') /\ Behind(file, file')
        /\ running[p] \in Attempt /\ ProcOf(running[p]) = p
        /\ committed' = committed \cup {running[p]}
        /\ Reflects(file', CallOf(running[p]))
    BY <1>1, CommitAdds
  <2>2. ASSUME NEW a \in committed' PROVE Reflects(file', CallOf(a))
    <3>1. CASE a \in committed
      BY <1>0, <2>1, <3>1, ReflectsGoesOn DEF ReadInv
    <3>2. CASE a = running[p]
      BY <2>1, <3>2
    <3> QED BY <2>1, <3>1, <3>2
  <2>3. ASSUME NEW q \in Proc, HasView(q)', at'[q] # "commit"
        PROVE  /\ IsTyped(view'[q]) /\ Behind(view'[q], file')
               /\ \A a \in committed' : ProcOf(a) = q => Reflects(view'[q], CallOf(a))
    <3>1. q # p /\ HasView(q) /\ at[q] # "commit" /\ view'[q] = view[q]
      BY <1>1, <2>3 DEF Commit, Publish, HasView, SQLiteInv, Shape, TypeOK
    <3>2. /\ IsTyped(view[q]) /\ Behind(view[q], file)
          /\ \A a \in committed : ProcOf(a) = q => Reflects(view[q], CallOf(a))
      BY <3>1 DEF ReadInv
    <3>3. Behind(view[q], file')
      BY <2>1, <3>2, BehindGoesOn
    <3> QED BY <2>1, <3>1, <3>2, <3>3
  <2> QED BY <2>1, <2>2, <2>3 DEF ReadInv
<1>2. CASE UNCHANGED <<file, committed>>
  <2>1. ASSUME NEW q \in Proc, HasView(q)', at'[q] # "commit"
        PROVE  /\ IsTyped(view'[q]) /\ Behind(view'[q], file)
               /\ \A a \in committed : ProcOf(a) = q => Reflects(view'[q], CallOf(a))
    BY <1>2, <2>1, ViewsMove, BehindItself DEF ReadInv
  <2> QED BY <1>2, <2>1 DEF ReadInv
<1> QED BY <1>1, <1>2, OnlyCommitsChange

\* The snapshots of the connections stay behind the file.
THEOREM SnapshotsAreOfTheFile == Spec => []ReadInv
<1>1. Init => ReadInv
  BY ReadInit, SQLiteAssumption
<1>2. SQLiteInv /\ ReadInv /\ [Next]_vars => ReadInv'
  BY ReadNext, SQLiteAssumption, StorageAssumption
<1> QED BY <1>1, <1>2, SQLiteCorrect, PTL DEF Spec

\* Between calls, what a connection sees is the file or a snapshot of it.
LEMMA IdleSees ==
  ASSUME SQLiteInv, ReadInv, NEW p \in Proc, at[p] = "idle"
  PROVE  /\ IsTyped(Visible(p)) /\ Behind(Visible(p), file)
         /\ \A a \in committed : ProcOf(a) = p => Reflects(Visible(p), CallOf(a))
BY BehindItself DEF Visible, ReadInv, HasView

\* No connection shows a row that was not committed, between its calls.
THEOREM ReadersSeeCommittedRows == Spec => []ReadsAreCommitted
<1>1. SQLiteInv /\ ReadInv => ReadsAreCommitted
  <2> SUFFICES ASSUME SQLiteInv, ReadInv, NEW p \in Proc, at[p] = "idle"
               PROVE  LET db == Visible(p)
                      IN  /\ Len(db.decisions) <= Len(file.decisions)
                          /\ \A i \in DOMAIN db.decisions : db.decisions[i] = file.decisions[i]
                          /\ Len(db.signals) <= Len(file.signals)
                          /\ \A w \in Workspace, n \in Name :
                               db.globals[w][n] # None => db.globals[w][n] = file.globals[w][n]
                          /\ \A w \in Workspace, k \in PKey, n \in Name :
                               db.schema[w][k][n] # None => file.schema[w][k][n] # None
    BY DEF ReadsAreCommitted
  <2> DEFINE db == Visible(p)
  <2>1. IsTyped(db) /\ Behind(db, file) /\ IsTyped(file)
    BY IdleSees DEF ReadInv
  <2>2. /\ db.decisions \in Seq(DecisionRow) /\ file.decisions \in Seq(DecisionRow)
        /\ db.signals \in Seq(SignalRow) /\ file.signals \in Seq(SignalRow)
    BY <2>1 DEF IsTyped, IsTables
  <2> HIDE DEF db
  <2>3. DOMAIN db.decisions \subseteq DOMAIN file.decisions
        /\ DOMAIN db.signals \subseteq DOMAIN file.signals
    BY <2>1 DEF Behind
  <2>4. Len(db.decisions) <= Len(file.decisions)
    BY <2>2, <2>3
  <2>5. Len(db.signals) <= Len(file.signals)
    BY <2>2, <2>3
  <2>6. /\ \A i \in DOMAIN db.decisions : db.decisions[i] = file.decisions[i]
        /\ \A w \in Workspace, n \in Name :
             db.globals[w][n] # None => db.globals[w][n] = file.globals[w][n]
        /\ \A w \in Workspace, k \in PKey, n \in Name :
             db.schema[w][k][n] # None => file.schema[w][k][n] # None
    BY <2>1 DEF Behind
  <2> QED BY <2>4, <2>5, <2>6 DEF db
<1> QED BY <1>1, SQLiteCorrect, SnapshotsAreOfTheFile, PTL

\* A process reads what it wrote, whatever snapshot its connection is on.
THEOREM WritersReadTheirWrites == Spec => []ReadYourWrites
<1>1. SQLiteInv /\ ReadInv => ReadYourWrites
  <2> SUFFICES ASSUME SQLiteInv, ReadInv, NEW a \in Attempt,
                      outcome[a] = "returned", at[ProcOf(a)] = "idle"
               PROVE  Reflects(Visible(ProcOf(a)), CallOf(a))
    BY DEF ReadYourWrites
  <2>1. a \in committed /\ ProcOf(a) \in Proc
    BY SQLiteAssumption DEF SQLiteInv, CallsAreKnown, AnswersAreHonest, SQLiteAssumption
  <2> QED BY <2>1, IdleSees
<1> QED BY <1>1, SQLiteCorrect, SnapshotsAreOfTheFile, PTL

-----------------------------------------------------------------------------
(* Left behind.                                                             *)

\* Only a call that raised leaves its transaction open without writing.
LeftByRaise ==
  \A p \in Proc : tx[p] \in {"begun", "read"} =>
    \E a \in Attempt : ProcOf(a) = p /\ outcome[a] = "raised"

LEMMA RaisedStays ==
  ASSUME SQLiteInv, [Next]_vars, NEW a \in Attempt, outcome[a] = "raised"
  PROVE  outcome'[a] = "raised"
<1> USE DEF SQLiteInv, Shape, TypeOK, CallsAreKnown, Ends
<1>1. ASSUME NEW p \in Proc, NEW b \in Attempt, Begin(p, b) PROVE outcome'[a] = "raised"
  BY <1>1 DEF Begin
<1>2. ASSUME NEW p \in Proc, Refuse(p) \/ Busy(p) \/ CommitFails(p) \/ Crash(p) \/ Return(p)
                             \/ ReadBackFails(p)
      PROVE outcome'[a] = "raised"
  BY <1>2 DEF Refuse, Busy, CommitFails, Crash, Return, ReadBackFails
<1>3. CASE UNCHANGED outcome
  BY <1>3
<1>4. ASSUME NEW p \in Proc, Select(p) \/ Execute(p) \/ Commit(p) \/ Read(p) \/ Migrate(p)
      PROVE UNCHANGED outcome
  BY <1>4 DEF Select, Execute, Commit, Publish, Read, Migrate
<1> QED BY <1>1, <1>2, <1>3, <1>4 DEF Next, Finished, vars

LEMMA LeftNext ==
  ASSUME SQLiteAssumption, SQLiteInv, LeftByRaise, [Next]_vars
  PROVE  LeftByRaise'
<1> USE DEF SQLiteInv, Shape, TypeOK, SetTx, Ends
<1>1. SUFFICES ASSUME NEW q \in Proc, tx'[q] \in {"begun", "read"}
               PROVE  \E a \in Attempt : ProcOf(a) = q /\ outcome'[a] = "raised"
  BY DEF LeftByRaise
<1>2. CASE tx[q] \in {"begun", "read"}
  BY <1>2, RaisedStays DEF LeftByRaise
<1>3. ASSUME NEW p \in Proc, Busy(p), tx[q] \notin {"begun", "read"}
      PROVE  \E a \in Attempt : ProcOf(a) = q /\ outcome'[a] = "raised"
  <2>1. p = q
    BY <1>1, <1>3 DEF Busy
  <2>2. running[q] \in Attempt /\ ProcOf(running[q]) = q
    BY <1>3, <2>1 DEF Busy, CallsAreKnown
  <2>3. outcome'[running[q]] = "raised"
    BY <1>3, <2>1, <2>2 DEF Busy
  <2> QED BY <2>2, <2>3
<1>4. ASSUME NEW p \in Proc, NEW a \in Attempt, Begin(p, a) PROVE tx'[q] = tx[q]
  BY <1>4 DEF Begin, connection
<1>5. ASSUME NEW p \in Proc, Select(p) \/ Read(p) PROVE tx[q] \in {"begun", "read"}
  BY <1>1, <1>5 DEF Select, Read, SnapshotOnRead, connection
<1>6. ASSUME NEW p \in Proc,
             \/ Execute(p) \/ Refuse(p) \/ Commit(p) \/ CommitFails(p) \/ Return(p)
             \/ ReadBackFails(p) \/ Migrate(p) \/ Crash(p)
      PROVE  tx[q] \in {"begun", "read"}
  BY <1>1, <1>6 DEF Execute, Refuse, Commit, CommitFails, Return, ReadBackFails, Migrate, Crash,
                    connection
<1>7. CASE UNCHANGED vars
  BY <1>1, <1>2, <1>7 DEF vars, connection
<1> QED BY <1>1, <1>2, <1>3, <1>4, <1>5, <1>6, <1>7 DEF Next, Finished

\* A connection is left on an old snapshot only after one of its calls raised.
THEOREM NobodyIsLeftBehindInSilence == Spec => []CurrentUnlessRaised
<1>1. Init => LeftByRaise
  BY DEF Init, LeftByRaise
<1>2. SQLiteInv /\ LeftByRaise /\ [Next]_vars => LeftByRaise'
  BY LeftNext, SQLiteAssumption
<1>3. SQLiteInv /\ LeftByRaise => CurrentUnlessRaised
  BY DEF SQLiteInv, Shape, TypeOK, ViewsAreCurrent, LeftByRaise, CurrentUnlessRaised, Visible
<1> QED BY <1>1, <1>2, <1>3, SQLiteCorrect, PTL DEF Spec
=============================================================================
