---------------------------- MODULE SQLiteStore ----------------------------
(***************************************************************************)
(* SQLiteStorage (storage_sqlite.py) as processes that share a database    *)
(* file.  Each process has one instance: one connection, whose methods the *)
(* instance lock runs one at a time.  The lock does not reach the other    *)
(* processes, so their methods interleave between the statements and the   *)
(* commit of this one.                                                     *)
(*                                                                         *)
(* Python's sqlite3 opens a deferred transaction before the first INSERT   *)
(* or UPDATE, and only commit(), close() or executescript() end it.  Under *)
(* WAL a transaction is                                                    *)
(*   "begun"  nothing read yet (its first statement found the file busy),  *)
(*   "read"   on a snapshot that no other commit changes,                  *)
(*   "write"  the one writer of the file.                                  *)
(***************************************************************************)
EXTENDS Tables, FiniteSets

CONSTANTS
  Proc,          \* processes, each with its SQLiteStorage on the file
  Attempt,       \* calls of writing methods; a repeated call is another attempt
  CallOf(_),     \* the method and its row
  ProcOf(_),     \* the process that makes the call
  Faults,        \* which of "crash", "io" may happen
  MaxCalls       \* bound: how many of the attempts are made

ASSUME SQLiteAssumption ==
  /\ \A a \in Attempt : CallOf(a) \in StoreCall /\ ProcOf(a) \in Proc
  /\ None \notin Attempt
  /\ Faults \subseteq {"crash", "io"}
  /\ MaxCalls \in Nat

VARIABLES
  file,        \* the four tables, as committed
  tx,          \* the transaction each connection is in
  view,        \* the tables a "read" or "write" transaction sees, or None
  overtaken,   \* a "read" transaction whose snapshot another commit has left behind
  at,          \* where the running method of a process stands
  running,     \* the attempt it works on
  found,       \* upsert_signal: the row its SELECT found, or 0
  outcome,     \* what became of each attempt
  committed    \* history: the attempts whose commit reached the file

connection == <<tx, view, overtaken>>
method == <<at, running, found>>
vars == <<file, connection, method, outcome, committed>>

Empty ==
  [globals |-> [w \in Workspace |-> [n \in Name |-> None]],
   schema |-> [w \in Workspace |-> [p \in PKey |-> [n \in Name |-> None]]],
   decisions |-> <<>>, signals |-> <<>>]

Init ==
  /\ file = Empty
  /\ tx = [p \in Proc |-> "none"]
  /\ view = [p \in Proc |-> None]
  /\ overtaken = [p \in Proc |-> FALSE]
  /\ at = [p \in Proc |-> "idle"]
  /\ running = [p \in Proc |-> None]
  /\ found = [p \in Proc |-> 0]
  /\ outcome = [a \in Attempt |-> "new"]
  /\ committed = {}

-----------------------------------------------------------------------------
(* What a statement sees and does. *)

\* The tables as a statement of connection p reads them.
Visible(p) == IF tx[p] \in {"read", "write"} THEN view[p] ELSE file

SetTx(p, t, db) ==
  /\ tx' = [tx EXCEPT ![p] = t]
  /\ view' = [view EXCEPT ![p] = db]
  /\ overtaken' = [overtaken EXCEPT ![p] = FALSE]

\* The first statement of a "begun" transaction takes the snapshot it keeps.
SnapshotOnRead(p) ==
  IF tx[p] = "begun" THEN SetTx(p, "read", file) ELSE UNCHANGED connection

\* The rows an upsert_signal would conflict with, UNIQUE (source, external_id).
SameRow(db, s) ==
  {i \in DOMAIN db.signals :
     /\ s.external_id # None
     /\ db.signals[i].source = s.source
     /\ db.signals[i].external_id = s.external_id}

\* Mutant: the table has no UNIQUE constraint.
AcceptedUnlessType(p, db) ==
  LET c == CallOf(running[p])
  IN  c.method = "upsert_schema_row" => c.row.data_type \in StorableType

\* The CHECK on the inventory's type, and the UNIQUE of the signals.
Accepted(p, db) ==
  LET c == CallOf(running[p])
  IN  /\ c.method = "upsert_schema_row" => c.row.data_type \in StorableType
      /\ c.method = "upsert_signal" /\ found[p] = 0 => SameRow(db, c.row) = {}

\* The statements, on tables that accept them.
DecisionInserted(db, r) == [db EXCEPT !.decisions = Append(@, r)]

SchemaRowUpserted(db, r) ==
  [db EXCEPT !.schema[r.workspace_key][r.pkey][r.canonical_name] =
     [data_type |-> r.data_type, is_global |-> r.is_global]]

SignalUpdated(db, i, r) ==
  [db EXCEPT !.signals[i] =
     [@ EXCEPT !.pkey = r.pkey, !.occurred_at = r.occurred_at, !.columns = r.columns]]

SignalInserted(db, r) == [db EXCEPT !.signals = Append(@, r)]

\* INSERT OR IGNORE, which ignores the CHECK too.
GlobalInserted(db, r) ==
  IF db.globals[r.workspace_key][r.name] = None /\ r.data_type \in StorableType
  THEN [db EXCEPT !.globals[r.workspace_key][r.name] = r.data_type]
  ELSE db

Written(p, db) ==
  LET c == CallOf(running[p])
  IN  CASE c.method = "insert_decision" -> DecisionInserted(db, c.row)
        [] c.method = "upsert_schema_row" -> SchemaRowUpserted(db, c.row)
        [] c.method = "upsert_signal" /\ found[p] # 0 -> SignalUpdated(db, found[p], c.row)
        [] c.method = "upsert_signal" /\ found[p] = 0 -> SignalInserted(db, c.row)
        [] c.method = "add_global_column" -> GlobalInserted(db, c.row)

\* Mutant: the file is opened without its locks.
CanWriteUnlocked(p) == ~overtaken[p]

\* SQLite lets p write: nobody else does, and its snapshot is the last one.
CanWrite(p) ==
  /\ \A q \in Proc \ {p} : tx[q] # "write"
  /\ ~overtaken[p]

\* The method of p ends with outcome o.
Ends(p, o) ==
  /\ at' = [at EXCEPT ![p] = "idle"]
  /\ running' = [running EXCEPT ![p] = None]
  /\ found' = [found EXCEPT ![p] = 0]
  /\ outcome' = [outcome EXCEPT ![running[p]] = o]

-----------------------------------------------------------------------------
(* The methods. *)

Made == {a \in Attempt : outcome[a] # "new"}

Begin(p, a) ==
  /\ Cardinality(Made) < MaxCalls
  /\ at[p] = "idle" /\ outcome[a] = "new" /\ ProcOf(a) = p
  /\ LET c == CallOf(a)
     IN  at' = [at EXCEPT ![p] =
           IF c.method = "upsert_signal" /\ c.row.external_id # None
             THEN "select" ELSE "execute"]
  /\ running' = [running EXCEPT ![p] = a]
  /\ outcome' = [outcome EXCEPT ![a] = "running"]
  /\ UNCHANGED <<file, connection, found, committed>>

\* upsert_signal looks for the row outside of any transaction of its own.
Select(p) ==
  /\ at[p] = "select"
  /\ \E i \in 0..Len(Visible(p).signals) :
       /\ \/ i \in SameRow(Visible(p), CallOf(running[p]).row)
          \/ i = 0 /\ SameRow(Visible(p), CallOf(running[p]).row) = {}
       /\ found' = [found EXCEPT ![p] = i]
  /\ SnapshotOnRead(p)
  /\ at' = [at EXCEPT ![p] = "execute"]
  /\ UNCHANGED <<file, running, outcome, committed>>

\* Mutant: a method returns without its commit().
ExecuteWithoutCommit(p) ==
  /\ at[p] = "execute" /\ CanWrite(p) /\ Accepted(p, Visible(p))
  /\ SetTx(p, "write", Written(p, Visible(p)))
  /\ at' = [at EXCEPT ![p] =
       IF CallOf(running[p]).method = "upsert_schema_row" THEN "return" ELSE "commit"]
  /\ UNCHANGED <<file, running, found, outcome, committed>>

Execute(p) ==
  /\ at[p] = "execute" /\ CanWrite(p) /\ Accepted(p, Visible(p))
  /\ SetTx(p, "write", Written(p, Visible(p)))
  /\ at' = [at EXCEPT ![p] = "commit"]
  /\ UNCHANGED <<file, running, found, outcome, committed>>

\* A constraint raises IntegrityError out of the method: nothing is written,
\* but no rollback() follows and the transaction stays the file's writer.
Refuse(p) ==
  /\ at[p] = "execute" /\ CanWrite(p) /\ ~Accepted(p, Visible(p))
  /\ SetTx(p, "write", Visible(p))
  /\ Ends(p, "raised")
  /\ UNCHANGED <<file, committed>>

\* Mutant: a locked database is logged and passed over.
BusySwallowed(p) ==
  /\ at[p] = "execute" /\ ~CanWrite(p)
  /\ tx' = [tx EXCEPT ![p] = IF @ = "none" THEN "begun" ELSE @]
  /\ Ends(p, "returned")
  /\ UNCHANGED <<file, view, overtaken, committed>>

\* SQLITE_BUSY (after the timeout) or SQLITE_BUSY_SNAPSHOT raises
\* OperationalError; the transaction that was opened stays open.
Busy(p) ==
  /\ at[p] = "execute" /\ ~CanWrite(p)
  /\ tx' = [tx EXCEPT ![p] = IF @ = "none" THEN "begun" ELSE @]
  /\ Ends(p, "raised")
  /\ UNCHANGED <<file, view, overtaken, committed>>

\* Everything but an ignored INSERT changes pages of the file.
ChangesFile(p) ==
  CallOf(running[p]).method = "add_global_column" => view[p] # file

Publish(p) ==
  /\ file' = view[p]
  /\ committed' = committed \cup {running[p]}
  /\ at' = [at EXCEPT ![p] = "return"]
  /\ UNCHANGED <<running, found, outcome>>

\* Mutant: the transaction goes on, on the snapshot it began with.
CommitKeepsSnapshot(p) ==
  /\ at[p] = "commit"
  /\ Publish(p)
  /\ SetTx(p, "read", file)

Commit(p) ==
  /\ at[p] = "commit"
  /\ Publish(p)
  /\ tx' = [tx EXCEPT ![p] = "none"]
  /\ view' = [view EXCEPT ![p] = None]
  /\ overtaken' = [q \in Proc |->
       overtaken[q] \/ (q # p /\ tx[q] = "read" /\ ChangesFile(p))]

\* Mutant: a failed commit leaves its transaction open.
CommitFailsOpen(p) ==
  /\ at[p] = "commit" /\ "io" \in Faults
  /\ Ends(p, "raised")
  /\ UNCHANGED <<file, connection, committed>>

\* The disk refuses the commit: SQLite rolls the transaction back, and raises.
CommitFails(p) ==
  /\ at[p] = "commit" /\ "io" \in Faults
  /\ SetTx(p, "none", None)
  /\ Ends(p, "raised")
  /\ UNCHANGED <<file, committed>>

Return(p) ==
  /\ at[p] = "return"
  /\ Ends(p, "returned")
  /\ UNCHANGED <<file, connection, committed>>

\* insert_decision reads its row back after the commit.  When that fails the
\* method raises, and the row stays.
ReadBackFails(p) ==
  /\ at[p] = "return" /\ CallOf(running[p]).method = "insert_decision" /\ "io" \in Faults
  /\ Ends(p, "raised")
  /\ UNCHANGED <<file, connection, committed>>

\* The reading methods.  Only a "begun" transaction remembers that it has read.
Read(p) ==
  /\ at[p] = "idle" /\ tx[p] = "begun"
  /\ SnapshotOnRead(p)
  /\ UNCHANGED <<file, method, outcome, committed>>

\* apply_migration: executescript() commits what is open.  close() and a new
\* instance on the same file come to the same.
Migrate(p) ==
  /\ at[p] = "idle" /\ tx[p] # "none"
  /\ SetTx(p, "none", None)
  /\ UNCHANGED <<file, method, outcome, committed>>

\* The process dies within a call, and a new one opens the file (between calls
\* that comes to Migrate).
Crash(p) ==
  /\ "crash" \in Faults /\ at[p] # "idle"
  /\ SetTx(p, "none", None)
  /\ Ends(p, "lost")
  /\ UNCHANGED <<file, committed>>

Finished ==
  /\ Cardinality(Made) = MaxCalls
  /\ \A p \in Proc : at[p] = "idle"
  /\ UNCHANGED vars

Next ==
  \/ \E p \in Proc :
       \/ \E a \in Attempt : Begin(p, a)
       \/ Select(p) \/ Execute(p) \/ Refuse(p) \/ Busy(p)
       \/ Commit(p) \/ CommitFails(p) \/ Return(p) \/ ReadBackFails(p)
       \/ Read(p) \/ Migrate(p) \/ Crash(p)
  \/ Finished

Spec == Init /\ [][Next]_vars

-----------------------------------------------------------------------------

Outcomes == {"new", "running", "returned", "raised", "lost"}

\* The shape of the state, and one writer at a time.
TypeOK ==
  /\ tx \in [Proc -> {"none", "begun", "read", "write"}]
  /\ DOMAIN view = Proc
  /\ \A p \in Proc : tx[p] \in {"none", "begun"} => view[p] = None
  /\ overtaken \in [Proc -> BOOLEAN]
  /\ at \in [Proc -> {"idle", "select", "execute", "commit", "return"}]
  /\ running \in [Proc -> Attempt \cup {None}]
  /\ \A p \in Proc : running[p] = None <=> at[p] = "idle"
  /\ found \in [Proc -> Nat]
  /\ outcome \in [Attempt -> Outcomes]
  /\ committed \subseteq Attempt
  /\ \A p, q \in Proc : tx[p] = "write" /\ tx[q] = "write" => p = q

\* The file, whatever several processes do to it, however they crash and
\* however their connections are left behind, changes as if each call had been
\* made at once and on its own.
Promise == INSTANCE Contract
             WITH globals <- file.globals, schema <- file.schema,
                  decisions <- file.decisions, signals <- file.signals,
                  applied <- committed

ImplementsContract == Promise!Spec

\* What the caller is told is true, also of what comes after: a call that
\* returned is in the file, and one that raised is not and never will be, by no
\* later commit on its connection.  Only a raise of insert_decision says
\* nothing: it may come from the SELECT that follows the commit.
AnswersAreHonest ==
  \A a \in Attempt :
    /\ outcome[a] = "returned" => a \in committed
    /\ outcome[a] = "raised" /\ a \in committed => CallOf(a).method = "insert_decision"

\* Between calls a connection shows no row that was not committed, whatever its
\* last statement or commit ran into.
ReadsAreCommitted ==
  \A p \in Proc : at[p] = "idle" =>
    LET db == Visible(p)
    IN  /\ Len(db.decisions) <= Len(file.decisions)
        /\ \A i \in DOMAIN db.decisions : db.decisions[i] = file.decisions[i]
        /\ Len(db.signals) <= Len(file.signals)
        /\ \A w \in Workspace, n \in Name :
             db.globals[w][n] # None => db.globals[w][n] = file.globals[w][n]
        /\ \A w \in Workspace, k \in PKey, n \in Name :
             db.schema[w][k][n] # None => file.schema[w][k][n] # None

\* A process reads what it wrote, although a connection may be left on an old
\* snapshot.
Reflects(db, c) ==
  LET r == c.row
  IN  CASE c.method = "insert_decision" ->
             \E i \in DOMAIN db.decisions : db.decisions[i] = r
        [] c.method = "upsert_schema_row" ->
             db.schema[r.workspace_key][r.pkey][r.canonical_name] # None
        [] c.method = "upsert_signal" ->
             \E i \in DOMAIN db.signals :
               /\ db.signals[i].source = r.source
               /\ db.signals[i].external_id = r.external_id
        [] c.method = "add_global_column" ->
             r.data_type \in StorableType => db.globals[r.workspace_key][r.name] # None

ReadYourWrites ==
  \A a \in Attempt :
    outcome[a] = "returned" /\ at[ProcOf(a)] = "idle"
      => Reflects(Visible(ProcOf(a)), CallOf(a))

\* A connection that goes on reading an old snapshot, on which all its writes
\* will be refused, is not left so in silence: one of its calls has raised.
CurrentUnlessRaised ==
  \A p \in Proc :
    at[p] = "idle" /\ Visible(p) # file =>
      \E a \in Attempt : ProcOf(a) = p /\ outcome[a] = "raised"
=============================================================================
