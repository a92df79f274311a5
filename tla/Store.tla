------------------------------- MODULE Store -------------------------------
(***************************************************************************)
(* internal/store/store.go: opening the SQLite database and migrating it,  *)
(* and the runtime configuration that requests then read and write, over   *)
(* crashes, restarts, upgrades and downgrades of the binary.               *)
(*                                                                         *)
(* database/sql has one connection (SetMaxOpenConns(1)): conn says who     *)
(* holds it.  SQLite is external: a transaction's writes become durable    *)
(* together at its commit and are lost by a crash before it.  What the     *)
(* config table holds for a key is the number of the write that put it     *)
(* there, 0 for what the first migration seeds or leaves out.              *)
(***************************************************************************)
EXTENDS Integers, FiniteSets

CONSTANTS
  Latest,     \* number of migrations ever released; version v sorts as v
  Keys,       \* valid configuration keys
  Clients,    \* requests being served at the same time
  MaxStarts,  \* bound: how often the process is started
  MaxWrites   \* bound: how many settings are written

ASSUME StoreAssumption ==
  /\ Latest \in Nat \ {0} /\ MaxStarts \in Nat /\ MaxWrites \in Nat
  /\ {"free", "rows", "tx"} \cap Clients = {}

Versions == 1..Latest

\* A release embeds the migrations up to some number.
Releases == {1..n : n \in Versions}

VARIABLES
  \* the database file
  recorded,  \* versions in schema_migrations
  bodies,    \* how often each version's body has been committed
  config,    \* the config table: per key, the number of the write it shows
  \* the process
  pc,        \* "down", "opening", "reading", "migrating", "serving"
  known,     \* versions this binary embeds
  todo,      \* versions it has yet to apply: embedded, and not read as applied
  tx,        \* the open transaction: its version and what it has done, or NoTx
  conn,      \* who holds the connection: "free", "rows", "tx" or a client
  \* the requests
  op,        \* what each request is doing
  target,    \* the key it writes
  own,       \* the write it made, 0 before
  \* bookkeeping
  starts,    \* starts so far
  writes,    \* writes committed so far
  acked      \* per key, the last write a client was told had succeeded

fileVars    == <<recorded, bodies, config>>
processVars == <<pc, known, todo, tx, conn>>
requestVars == <<op, target, own>>
countVars   == <<starts, writes, acked>>
vars        == <<fileVars, processVars, requestVars, countVars>>

NoTx == [version |-> 0, stage |-> "none"]

Init ==
  /\ recorded = {}
  /\ bodies = [v \in Versions |-> 0]
  /\ config = [k \in Keys |-> 0]
  /\ pc = "down" /\ known = {} /\ todo = {} /\ tx = NoTx /\ conn = "free"
  /\ op = [c \in Clients |-> "idle"]
  /\ target \in [Clients -> Keys]
  /\ own = [c \in Clients |-> 0]
  /\ starts = 0 /\ writes = 0
  /\ acked = [k \in Keys |-> 0]

----------------------------------------------------------------------------
(* Open and migrate.                                                       *)

\* Some release is started; the file may be older or newer than it.
Start ==
  /\ pc = "down" /\ starts < MaxStarts
  /\ starts' = starts + 1
  /\ known' \in Releases
  /\ pc' = "opening"
  /\ UNCHANGED <<fileVars, todo, tx, conn, requestVars, writes, acked>>

\* The process is gone: its transaction is rolled back and its requests fail.
Gone ==
  /\ pc' = "down" /\ known' = {} /\ todo' = {} /\ tx' = NoTx /\ conn' = "free"
  /\ op' = [c \in Clients |-> "idle"]
  /\ own' = [c \in Clients |-> 0]

\* A crash at any point, or an error in Open or migrate: the deferred Rollback
\* and Close run, and main exits.
Crash ==
  /\ pc # "down"
  /\ Gone
  /\ UNCHANGED <<fileVars, target, countVars>>

\* WAL, Ping and CREATE TABLE IF NOT EXISTS succeed, and the query for the
\* recorded versions is open: its rows hold the connection.
QueryApplied ==
  /\ pc = "opening" /\ conn = "free"
  /\ pc' = "reading"
  /\ conn' = "rows"
  /\ UNCHANGED <<fileVars, known, todo, tx, requestVars, countVars>>

\* Mutant: the loop over the rows ends early, and they stay open until migrate
\* returns.
RowsStayOpen == "rows"
\* rows.Next() has returned false, which closes the rows.
AfterRows == "free"

\* Mutant: no downgrade protection.
NoneUnknown == {}
Unknown == recorded \ known

ReadApplied ==
  /\ pc = "reading"
  /\ Unknown = {}
  /\ todo' = known \ recorded
  /\ conn' = AfterRows
  /\ pc' = "migrating"
  /\ UNCHANGED <<fileVars, known, tx, requestVars, countVars>>

\* "database is newer than this binary: unknown migration"
RefuseNewer ==
  /\ pc = "reading"
  /\ Unknown # {}
  /\ Gone
  /\ UNCHANGED <<fileVars, target, countVars>>

\* Mutant: the names are not sorted.
AnyOrder == todo
NextVersion == {v \in todo : \A u \in todo : v <= u}

BeginTx ==
  /\ pc = "migrating" /\ tx = NoTx /\ conn = "free"
  /\ \E v \in NextVersion : tx' = [version |-> v, stage |-> "begun"]
  /\ conn' = "tx"
  /\ UNCHANGED <<fileVars, pc, known, todo, requestVars, countVars>>

\* Mutant: the body is executed on the database instead of the transaction.
ExecBodyOutsideTx ==
  /\ tx.stage = "begun"
  /\ tx' = [tx EXCEPT !.stage = "bodied"]
  /\ bodies' = [bodies EXCEPT ![tx.version] = @ + 1]
  /\ UNCHANGED <<recorded, config, pc, known, todo, conn, requestVars, countVars>>
ExecBody ==
  /\ tx.stage = "begun"
  /\ tx' = [tx EXCEPT !.stage = "bodied"]
  /\ UNCHANGED <<fileVars, pc, known, todo, conn, requestVars, countVars>>

InsertVersion ==
  /\ tx.stage = "bodied"
  /\ tx.version \notin recorded
  /\ tx' = [tx EXCEPT !.stage = "inserted"]
  /\ UNCHANGED <<fileVars, pc, known, todo, conn, requestVars, countVars>>

\* The body and the record become durable together; the first migration's body
\* seeds the config table.
Commit ==
  /\ tx.stage = "inserted"
  /\ recorded' = recorded \cup {tx.version}
  /\ bodies' = [bodies EXCEPT ![tx.version] = @ + 1]
  /\ config' = IF tx.version = 1 THEN [k \in Keys |-> 0] ELSE config
  /\ todo' = todo \ {tx.version}
  /\ tx' = NoTx
  /\ conn' = "free"
  /\ UNCHANGED <<pc, known, requestVars, countVars>>

Serve ==
  /\ pc = "migrating" /\ tx = NoTx
  /\ todo = {}
  /\ pc' = "serving"
  /\ UNCHANGED <<fileVars, known, todo, tx, conn, requestVars, countVars>>

----------------------------------------------------------------------------
(* Requests: PUT through the API, which only writes; PUT through the page,    *)
(* which writes and then renders the list; and reading the list.              *)

Ask(c) ==
  /\ pc = "serving" /\ op[c] = "idle"
  /\ \E o \in {"api put", "page put", "list"} : op' = [op EXCEPT ![c] = o]
  /\ \E k \in Keys : target' = [target EXCEPT ![c] = k]
  /\ own' = [own EXCEPT ![c] = 0]
  /\ UNCHANGED <<fileVars, processVars, countVars>>

\* The pool hands its connection to a request that waits for it.
Acquire(c) ==
  /\ op[c] # "idle" /\ conn = "free"
  /\ conn' = c
  /\ UNCHANGED <<fileVars, pc, known, todo, tx, requestVars, countVars>>

\* c is told that its write w succeeded.
Report(c, w) == acked' = [acked EXCEPT ![target[c]] = IF w > @ THEN w ELSE @]

\* SetConfig: one upsert, durable when Exec returns ...
SetConfig(c) ==
  /\ op[c] \in {"api put", "page put"} /\ conn = c
  /\ writes < MaxWrites
  /\ writes' = writes + 1
  /\ config' = [config EXCEPT ![target[c]] = writes + 1]
  /\ conn' = "free"
  /\ \/ /\ op[c] = "api put"
        /\ op' = [op EXCEPT ![c] = "idle"]
        /\ Report(c, writes + 1)
        /\ UNCHANGED own
     \/ /\ op[c] = "page put"
        /\ op' = [op EXCEPT ![c] = "list"]
        /\ own' = [own EXCEPT ![c] = writes + 1]
        /\ UNCHANGED acked
  /\ UNCHANGED <<recorded, bodies, pc, known, todo, tx, target, starts>>

\* Mutant: the error of Exec is dropped and the page is rendered.
IgnoreError(c) ==
  /\ op' = [op EXCEPT ![c] = "list"]
  /\ own' = [own EXCEPT ![c] = writes + 1]
AnswerError(c) ==
  /\ op' = [op EXCEPT ![c] = "idle"]
  /\ own' = [own EXCEPT ![c] = 0]

\* ... or an error, and the client is told so.
SetConfigFails(c) ==
  /\ op[c] \in {"api put", "page put"} /\ conn = c
  /\ AnswerError(c)
  /\ conn' = "free"
  /\ UNCHANGED <<fileVars, pc, known, todo, tx, target, countVars>>

\* Mutant: the rows of the list are left open.
RowsLeak(c) == c
\* The deferred rows.Close gives the connection back.
AfterList(c) == "free"

\* ListConfig: the rows are read to the end; a page put is reported with them.
ListConfig(c) ==
  /\ op[c] = "list" /\ conn = c
  /\ op' = [op EXCEPT ![c] = "idle"]
  /\ Report(c, own[c])
  /\ conn' = AfterList(c)
  /\ UNCHANGED <<fileVars, pc, known, todo, tx, target, own, starts, writes>>

\* The request's context ends while it waits for the connection or uses it.
GiveUp(c) ==
  /\ op[c] # "idle"
  /\ op' = [op EXCEPT ![c] = "idle"]
  /\ conn' = IF conn = c THEN "free" ELSE conn
  /\ UNCHANGED <<fileVars, pc, known, todo, tx, target, own, countVars>>

----------------------------------------------------------------------------
Migrate == QueryApplied \/ ReadApplied \/ RefuseNewer \/ BeginTx \/ ExecBody
             \/ InsertVersion \/ Commit \/ Serve
Use(c) == SetConfig(c) \/ SetConfigFails(c) \/ ListConfig(c)

Next ==
  \/ Start \/ Crash \/ Migrate
  \/ \E c \in Clients : Ask(c) \/ Acquire(c) \/ Use(c) \/ GiveUp(c)

Spec == Init /\ [][Next]_vars

\* main runs Open to its end, handlers run to theirs, and database/sql hands a
\* released connection to any of the requests that wait for one.
FairSpec ==
  /\ Spec
  /\ WF_vars(Migrate)
  /\ \A c \in Clients : WF_vars(Use(c)) /\ SF_vars(Acquire(c))

----------------------------------------------------------------------------
(* Properties.                                                             *)

SchemaTypeOK ==
  /\ recorded \in SUBSET Versions
  /\ bodies \in [Versions -> Nat]
  /\ pc \in {"down", "opening", "reading", "migrating", "serving"}
  /\ known \in Releases \cup {{}}
  /\ todo \in SUBSET known
  /\ tx \in [version : {0} \cup Versions, stage : {"none", "begun", "bodied", "inserted"}]

RequestTypeOK ==
  /\ config \in [Keys -> 0..writes]
  /\ conn \in {"free", "rows", "tx"} \cup Clients
  /\ op \in [Clients -> {"idle", "api put", "page put", "list"}]
  /\ target \in [Clients -> Keys]
  /\ own \in [Clients -> 0..writes]
  /\ starts \in 0..MaxStarts
  /\ writes \in 0..MaxWrites
  /\ acked \in [Keys -> 0..writes]

\* Every variable keeps its type; in particular no client is told of a write
\* that was not made.
TypeOK == SchemaTypeOK /\ RequestTypeOK

\* The strengthening that makes the migration properties inductive: what is still
\* to do is exactly what the binary embeds and the file lacks, and an open
\* transaction is about the first of it.
MigrationInv ==
  /\ pc # "down" => known \in Releases
  /\ pc \in {"down", "opening", "reading"} => todo = {} /\ tx = NoTx
  /\ pc \in {"migrating", "serving"} => recorded \subseteq known /\ todo = known \ recorded
  /\ pc = "serving" => todo = {}
  /\ tx.stage # "none" => pc = "migrating" /\ tx.version \in NextVersion

\* The same for settings: a reported write was made, no later than the one that
\* shows, and writes begin only when the config table is there.
SettingsInv ==
  /\ \A c \in Clients : op[c] # "idle" => pc = "serving"
  /\ \A c \in Clients : op[c] = "list" => own[c] <= config[target[c]]
  /\ 1 \notin recorded => \A k \in Keys : acked[k] = 0

\* Wherever the process crashes, a migration's body has taken effect exactly as
\* often as it is recorded: it is never lost and never run twice.
BodyOncePerRecord ==
  \A v \in Versions : bodies[v] = IF v \in recorded THEN 1 ELSE 0

\* A binary serves only a schema with all of its migrations and no others.
ServesOwnSchema == pc = "serving" => recorded = known

\* Upgrades interrupted anywhere leave no migration skipped before an applied one.
NoMigrationSkipped == \A v \in recorded : 1..v \subseteq recorded

\* A setting whose write was reported to a client is still there, or has been
\* overwritten by a later write, after any crash, restart and upgrade.
ReportedSettingsSurvive == \A k \in Keys : acked[k] <= config[k]

\* Opening the store never hangs on its own connection.
OpenEnds == pc = "opening" ~> pc \in {"serving", "down"}

\* A request that uses the store is answered.
RequestsAnswered == \A c \in Clients : op[c] # "idle" ~> op[c] = "idle"
=============================================================================
