-------------------------- MODULE StoreTransactions --------------------------
(***************************************************************************)
(* The transactions of the PostgreSQL store that take more than one        *)
(* statement, and the pool they take their connections from:               *)
(* ConnectionPool (storage/connection.py), PGMonitorTargetStore.create     *)
(* (storage/monitor_targets.py), and MigrationRunner.migrate               *)
(* (migrations/runner.py), some of whose scripts insert monitor targets.   *)
(* A statement is a step.  Requests of the replicas and runs of the        *)
(* migrations overlap; a statement may fail, a request may be cancelled    *)
(* between two statements, a runner may die.                               *)
(*                                                                         *)
(* PostgreSQL is at READ COMMITTED: a statement sees what is committed     *)
(* when it starts; an insert of a key that an open transaction has         *)
(* inserted waits for its end; an error rolls back what the transaction    *)
(* did, and the connection refuses statements until a rollback.  The       *)
(* targets are those of one tenant (the lock is per tenant); a script is   *)
(* the targets it inserts.                                                 *)
(***************************************************************************)
EXTENDS Naturals, Sequences, FiniteSets

CONSTANTS
    Creator,    \* requests POST /v1/monitors
    Deleter,    \* requests of one statement: DELETE /v1/monitors/{id}
    Home,       \* the replica of a request
    PoolSize,   \* max_size of a replica's pool
    Runner,     \* runs of the migrations
    Scripts,    \* the scripts in the image of a runner
    Seeds,      \* by version, the numbers of the targets a script inserts
    Deployed,   \* the sets of scripts that may be applied at the start
    MaxFaults,  \* a bound on failures and cancellations
    None

ASSUME TransactionsAssumption ==
    /\ PoolSize \in Nat \ {0}
    /\ MaxFaults \in Nat
    /\ Creator \cap Deleter = {} /\ (Creator \cup Deleter) \cap Runner = {}
    /\ None \notin Nat \cup Creator \cup Deleter \cup Runner
    /\ None \notin {Home[r] : r \in Creator \cup Deleter} \X (1..PoolSize)

\* An image has the scripts of the images before it (V1, V2, ... of migrations/), and
\* what is applied at the start is what an image had whose scripts insert no target.
ASSUME ImagesAssumption ==
    /\ Seeds \in Seq(Seq(Nat \ {0}))
    /\ \A m \in Runner : Scripts[m] \in {1..n : n \in 0..Len(Seeds)}
    /\ \A d \in Deployed :
         /\ d \in {1..n : n \in 0..Len(Seeds)}
         /\ \A v \in d : Seeds[v] = <<>>

\* The numbers of the scripts go on from one another (V9 has MT-0001 to MT-0003, V13
\* MT-0004 and MT-0005): before a number is inserted, all smaller ones are.
ASSUME SeedsInOrder ==
    \A v \in 1..Len(Seeds) : \A i \in 1..Len(Seeds[v]) : \A k \in 1..(Seeds[v][i] - 1) :
        \/ \E j \in 1..(i - 1) : Seeds[v][j] = k
        \/ \E w \in 1..(v - 1) : \E j \in 1..Len(Seeds[w]) : Seeds[w][j] = k

Request == Creator \cup Deleter

Conn == {Home[r] : r \in Request} \X (1..PoolSize)

Version == DOMAIN Seeds

VARIABLES
    rows,       \* monitor_target; owner: the transaction that is not committed yet
    nextId,     \* the identity column, whose values a rollback does not return
    lock,       \* who holds pg_advisory_xact_lock(_TARGET_ID_LOCK_NS, tenant)
    txn,        \* per connection of a pool: "idle", "open" or "aborted"
    req,        \* per request, its locals
    versions,   \* schema_versions, with owner
    mig,        \* per runner, its locals
    ran,        \* history: how often what a script does was committed
    up,         \* the replicas whose start went well
    faults      \* the failures and cancellations so far

vars == <<rows, nextId, lock, txn, req, versions, mig, ran, up, faults>>

\* The locals of a runner that is not at work.
Ended(at) == [at |-> at, todo |-> {}, seeds |-> <<>>, done |-> {}]

\* What is left of the locals of a request; err: who had the number it wanted.
Done == [at |-> "end", conn |-> None, no |-> None, id |-> None, err |-> "none"]

Init ==
    /\ rows = {}
    /\ nextId = 1
    /\ lock = None
    /\ txn = [c \in Conn |-> "idle"]
    /\ req = [r \in Request |-> [Done EXCEPT !.at = "new"]]
    /\ \E d \in Deployed :
         /\ versions = {[v |-> v, owner |-> None] : v \in d}
         /\ ran = [v \in Version |-> IF v \in d THEN 1 ELSE 0]
    /\ mig = [m \in Runner |-> Ended("new")]
    /\ up = {}
    /\ faults = 0

Committed == {x \in rows : x.owner = None}

Applied == {x.v : x \in {y \in versions : y.owner = None}}

At(r, pc) == req[r].at = pc

GoTo(r, pc) == req' = [req EXCEPT ![r].at = pc]

-----------------------------------------------------------------------------
(***************************************************************************)
(* What the database does at the end of the transaction of t.              *)
(***************************************************************************)
CommitRows(t) == {IF x.owner = t THEN [x EXCEPT !.owner = None] ELSE x : x \in rows}

DeleteRow(id) == {IF x.id = id THEN [x EXCEPT !.deleted = TRUE] ELSE x : x \in rows}

RollbackRows(t) == {x \in rows : x.owner # t}

Unlock(t) == IF lock = t THEN None ELSE lock

-----------------------------------------------------------------------------
(***************************************************************************)
(* The pool.                                                               *)
(***************************************************************************)
\* schema_ready: the table problem_record, which script 1 creates, can be seen.
SchemaReady == 1 \in Applied

\* build_storage: a replica whose schema is not there does not start.
Start(p) ==
    /\ p \notin up
    /\ SchemaReady
    /\ up' = up \cup {p}
    /\ UNCHANGED <<rows, nextId, lock, txn, req, versions, mig, ran, faults>>

Free(p) == {c \in Conn : c[1] = p /\ \A r \in Request : req[r].conn # c}

Acquire(r) ==
    /\ At(r, "new")
    /\ Home[r] \in up
    /\ Free(Home[r]) # {}
    /\ req' = [req EXCEPT ![r].at = IF r \in Creator THEN "lock" ELSE "statement",
                          ![r].conn = CHOOSE c \in Free(Home[r]) : TRUE]
    /\ UNCHANGED <<rows, nextId, lock, txn, versions, mig, ran, up, faults>>

\* getconn gives up after a while.
AcquireTimeout(r) ==
    /\ At(r, "new")
    /\ Home[r] \in up
    /\ Free(Home[r]) = {}
    /\ GoTo(r, "end")
    /\ UNCHANGED <<rows, nextId, lock, txn, versions, mig, ran, up, faults>>

\* Faulty: the connection goes back as it is.
ReleaseAsIs(r) ==
    /\ At(r, "release")
    /\ req' = [req EXCEPT ![r] = [Done EXCEPT !.err = req[r].err]]
    /\ UNCHANGED <<rows, nextId, lock, txn, versions, mig, ran, up, faults>>

\* The rollback ends what is left of the transaction, and does nothing after a commit.
Rollback(r) ==
    /\ At(r, "release")
    /\ rows' = RollbackRows(r)
    /\ lock' = Unlock(r)
    /\ txn' = [txn EXCEPT ![req[r].conn] = "idle"]
    /\ UNCHANGED <<nextId, versions, mig, ran, up>>

Release(r) ==
    /\ Rollback(r)
    /\ req' = [req EXCEPT ![r] = [Done EXCEPT !.err = req[r].err]]
    /\ UNCHANGED faults

\* The head of every statement of r but the commit.
Execute(r, pc) ==
    /\ At(r, pc)
    /\ txn' = [txn EXCEPT ![req[r].conn] = "open"]

Statements == {"lock", "read", "insert", "place", "statement"}

\* A statement of r ends in an error.
Raise(r, err) ==
    /\ rows' = RollbackRows(r)
    /\ lock' = Unlock(r)
    /\ txn' = [txn EXCEPT ![req[r].conn] = "aborted"]
    /\ req' = [req EXCEPT ![r].at = "release", ![r].err = err]
    /\ UNCHANGED <<nextId, versions, mig, ran, up>>

Fault == faults < MaxFaults /\ faults' = faults + 1

StatementFails(r) == Fault /\ req[r].at \in Statements /\ Raise(r, "none")

\* The request is cancelled between two statements; the finally block runs.
Cancel(r) ==
    /\ Fault
    /\ req[r].at \in Statements \cup {"commit"}
    /\ GoTo(r, "release")
    /\ UNCHANGED <<rows, nextId, lock, txn, versions, mig, ran, up>>

\* The request is cancelled while release waits for the rollback it has sent.
\* CancelledError is no Exception: putconn is skipped, and the connection is nobody's
\* and still the pool's.
CancelRelease(r) ==
    /\ Fault
    /\ Rollback(r)
    /\ req' = [req EXCEPT ![r] = [Done EXCEPT !.conn = req[r].conn, !.err = req[r].err]]

Commit(r) ==
    /\ At(r, "commit")
    /\ rows' = IF r \in Creator THEN CommitRows(r) ELSE DeleteRow(req[r].id)
    /\ lock' = Unlock(r)
    /\ txn' = [txn EXCEPT ![req[r].conn] = "idle"]
    /\ GoTo(r, "release")
    /\ UNCHANGED <<nextId, versions, mig, ran, up, faults>>

-----------------------------------------------------------------------------
(***************************************************************************)
(* PGMonitorTargetStore.                                                   *)
(***************************************************************************)
\* Faulty: a lock of the session of another connection, which is no lock.
LockNothing(r) ==
    /\ Execute(r, "lock")
    /\ GoTo(r, "read")
    /\ UNCHANGED <<rows, nextId, lock, versions, mig, ran, up, faults>>

Lock(r) ==
    /\ Execute(r, "lock")
    /\ lock = None
    /\ lock' = r
    /\ GoTo(r, "read")
    /\ UNCHANGED <<rows, nextId, versions, mig, ran, up, faults>>

\* ORDER BY id DESC LIMIT 1, deleted rows included.
Latest == CHOOSE x \in Committed : \A y \in Committed : y.id <= x.id

\* Faulty: the row is read with a connection of its own.
ReadLatestPooled(r) ==
    /\ Execute(r, "read")
    /\ Free(Home[r]) # {}
    /\ req' = [req EXCEPT ![r].at = "insert", ![r].no = IF Committed = {} THEN 1 ELSE Latest.no + 1]
    /\ UNCHANGED <<rows, nextId, lock, versions, mig, ran, up, faults>>

ReadLatest(r) ==
    /\ Execute(r, "read")
    /\ req' = [req EXCEPT ![r].at = "insert", ![r].no = IF Committed = {} THEN 1 ELSE Latest.no + 1]
    /\ UNCHANGED <<rows, nextId, lock, versions, mig, ran, up, faults>>

\* INSERT draws an id ...
DrawId(r) ==
    /\ Execute(r, "insert")
    /\ nextId' = nextId + 1
    /\ req' = [req EXCEPT ![r].at = "place", ![r].id = nextId]
    /\ UNCHANGED <<rows, lock, versions, mig, ran, up, faults>>

Row(id, no, owner, by) == [id |-> id, no |-> no, owner |-> owner, by |-> by, deleted |-> FALSE]

Taken(no) == {x \in rows : x.no = no}

\* ... and then uk_tenant_target_id decides.
Insert(r) ==
    /\ Execute(r, "place")
    /\ Taken(req[r].no) = {}
    /\ rows' = rows \cup {Row(req[r].id, req[r].no, r, "create")}
    /\ GoTo(r, "commit")
    /\ UNCHANGED <<nextId, lock, versions, mig, ran, up, faults>>

InsertClashes(r) ==
    /\ At(r, "place")
    /\ \E x \in Committed : x.no = req[r].no /\ Raise(r, x.by)
    /\ UNCHANGED faults

\* delete: an UPDATE of one row, or of none, which stays in the table.
Delete(r) ==
    /\ Execute(r, "statement")
    /\ \E id \in {x.id : x \in Committed} \cup {None} :
         req' = [req EXCEPT ![r].at = "commit", ![r].id = id]
    /\ UNCHANGED <<rows, nextId, lock, versions, mig, ran, up, faults>>

-----------------------------------------------------------------------------
(***************************************************************************)
(* MigrationRunner.migrate.                                                *)
(***************************************************************************)
Is(m, pc) == mig[m].at = pc

\* The scripts with a larger version.
Pending(m, current) == {v \in Scripts[m] : v > current}

\* Faulty: in the order of the directory.
FirstOfDirectory(todo) == CHOOSE v \in todo : \A w \in todo : v >= w

\* _load_scripts sorts by version.
First(todo) == CHOOSE v \in todo : \A w \in todo : v <= w

\* The loop over the scripts is at the first of todo.
AtScript(todo, done) ==
    [at |-> IF todo = {} THEN "commit" ELSE "script", todo |-> todo,
     seeds |-> IF todo = {} THEN <<>> ELSE Seeds[First(todo)], done |-> done]

Current == IF Applied = {} THEN 0 ELSE CHOOSE v \in Applied : \A w \in Applied : w <= v

\* The schema, the table of versions, and MAX(version).
Begin(m) ==
    /\ Is(m, "new")
    /\ mig' = [mig EXCEPT ![m] = AtScript(Pending(m, Current), {})]
    /\ UNCHANGED <<rows, nextId, lock, txn, req, versions, ran, up, faults>>

\* INSERT ... ON CONFLICT DO NOTHING, for one of the rows.
Seed(m) ==
    /\ Is(m, "script")
    /\ mig[m].seeds # <<>>
    /\ LET no == Head(mig[m].seeds)
       IN  /\ \A x \in Taken(no) : x.owner \in {None, m}
           /\ rows' = IF Taken(no) # {} THEN rows ELSE rows \cup {Row(nextId, no, m, "seed")}
    /\ nextId' = nextId + 1
    /\ mig' = [mig EXCEPT ![m].seeds = Tail(@)]
    /\ UNCHANGED <<lock, txn, req, versions, ran, up, faults>>

Recorded(v) == {x \in versions : x.v = v}

\* The transaction of m ends well.
CommitAs(m, done, then) ==
    /\ rows' = CommitRows(m)
    /\ versions' = {[v |-> x.v, owner |-> IF x.owner = m THEN None ELSE x.owner] : x \in versions}
                        \cup {[v |-> v, owner |-> None] : v \in done}
    /\ ran' = [v \in Version |-> IF v \in done THEN ran[v] + 1 ELSE ran[v]]
    /\ mig' = [mig EXCEPT ![m] = then]

\* Faulty: a version recorded before is no error.
RecordVersionAgain(m) ==
    /\ Is(m, "script")
    /\ mig[m].seeds = <<>>
    /\ LET v == First(mig[m].todo)
       IN  /\ \A x \in Recorded(v) : x.owner = None
           /\ versions' = IF Recorded(v) = {} THEN versions \cup {[v |-> v, owner |-> m]} ELSE versions
           /\ mig' = [mig EXCEPT ![m] = AtScript(@.todo \ {v}, @.done \cup {v})]
    /\ UNCHANGED <<rows, nextId, lock, txn, req, ran, up, faults>>

\* Faulty: every script is a transaction.
RecordVersionCommits(m) ==
    /\ Is(m, "script")
    /\ mig[m].seeds = <<>>
    /\ Recorded(First(mig[m].todo)) = {}
    /\ CommitAs(m, {First(mig[m].todo)}, AtScript(mig[m].todo \ {First(mig[m].todo)}, {}))
    /\ UNCHANGED <<nextId, lock, txn, req, up, faults>>

\* INSERT INTO schema_versions: waits for another runner at the same script.
RecordVersion(m) ==
    /\ Is(m, "script")
    /\ mig[m].seeds = <<>>
    /\ LET v == First(mig[m].todo)
       IN  /\ Recorded(v) = {}
           /\ versions' = versions \cup {[v |-> v, owner |-> m]}
           /\ mig' = [mig EXCEPT ![m] = AtScript(@.todo \ {v}, @.done \cup {v})]
    /\ UNCHANGED <<rows, nextId, lock, txn, req, ran, up, faults>>

CommitAll(m) ==
    /\ Is(m, "commit")
    /\ CommitAs(m, mig[m].done, Ended("end"))
    /\ UNCHANGED <<nextId, lock, txn, req, up, faults>>

\* Everything is rolled back.
RollbackAll(m) ==
    /\ rows' = RollbackRows(m)
    /\ versions' = {x \in versions : x.owner # m}
    /\ mig' = [mig EXCEPT ![m] = Ended("failed")]
    /\ UNCHANGED <<nextId, lock, txn, req, ran, up>>

\* The version is there by now: the PRIMARY KEY of schema_versions.
RecordClashes(m) ==
    /\ Is(m, "script")
    /\ mig[m].seeds = <<>>
    /\ First(mig[m].todo) \in Applied
    /\ RollbackAll(m)
    /\ UNCHANGED faults

\* A statement fails, or the runner dies.
MigrateFails(m) == Fault /\ mig[m].at \in {"script", "commit"} /\ RollbackAll(m)

-----------------------------------------------------------------------------
Serve(r) ==
    \/ Acquire(r) \/ Release(r) \/ Commit(r)
    \/ Lock(r) \/ ReadLatest(r) \/ DrawId(r) \/ Insert(r) \/ InsertClashes(r) \/ Delete(r)

Migrate(m) ==
    \/ Begin(m) \/ Seed(m) \/ RecordVersion(m) \/ RecordClashes(m) \/ CommitAll(m)

Next ==
    \/ \E p \in {Home[r] : r \in Request} : Start(p)
    \/ \E r \in Request : Acquire(r)
    \/ \E r \in Request : AcquireTimeout(r)
    \/ \E r \in Request : Release(r)
    \/ \E r \in Request : StatementFails(r)
    \/ \E r \in Request : Cancel(r)
    \/ \E r \in Request : CancelRelease(r)
    \/ \E r \in Request : Commit(r)
    \/ \E r \in Creator : Lock(r)
    \/ \E r \in Creator : ReadLatest(r)
    \/ \E r \in Creator : DrawId(r)
    \/ \E r \in Creator : Insert(r)
    \/ \E r \in Creator : InsertClashes(r)
    \/ \E r \in Deleter : Delete(r)
    \/ \E m \in Runner : Begin(m)
    \/ \E m \in Runner : Seed(m)
    \/ \E m \in Runner : RecordVersion(m)
    \/ \E m \in Runner : RecordClashes(m)
    \/ \E m \in Runner : CommitAll(m)
    \/ \E m \in Runner : MigrateFails(m)

Spec == Init /\ [][Next]_vars

\* Statements, and requests the event loop runs, take their turn; the database
\* wakes up who waits for a lock.  Nothing makes a replica start, a statement
\* fail or a request give up.
FairSpec ==
    /\ Spec
    /\ \A r \in Request : WF_vars(Serve(r))
    /\ \A m \in Runner : WF_vars(Migrate(m))

-----------------------------------------------------------------------------
(***************************************************************************)
(* Properties.                                                             *)
(***************************************************************************)
TypeOK ==
    /\ \A x \in rows : x.id \in Nat /\ x.no \in Nat \ {0} /\ x.owner \in Creator \cup Runner \cup {None}
    /\ nextId \in Nat
    /\ lock \in Creator \cup {None}
    /\ txn \in [Conn -> {"idle", "open", "aborted"}]
    /\ \A r \in Request : req[r].at \in Statements \cup {"new", "commit", "release", "end"}
    /\ \A x \in versions : x.v \in Version /\ x.owner \in Runner \cup {None}
    /\ \A m \in Runner : mig[m].at \in {"new", "script", "commit", "end", "failed"}
    /\ up \subseteq {Home[r] : r \in Request}
    /\ faults \in 0..MaxFaults

\* monitor_targets.py:205, "MT-NNNN is never used again": create takes the row with the
\* largest id for the one with the largest number.  It is: ids and numbers ascend
\* together, although scripts insert fixed numbers beside the lock, and ids are drawn
\* before an insert has to wait.
LatestIsLargest == \A x, y \in Committed : x.id < y.id => x.no < y.no

\* monitor_targets.py:194-195, "concurrent POSTs would read the same largest number ...
\* 23505": no create loses its number to another create, whatever fails or is cancelled
\* meanwhile.  (It may lose it to a script.)
NoCreateCollides == \A r \in Creator : req[r].err # "create"

\* connection.py:183-185, "an aborted transaction ... failures cascade": what a request
\* leaves in the pool and in the database is clean.  No connection to be had is inside a
\* transaction, and nobody who is through holds the lock or a row.
PoolIsClean ==
    /\ \A r \in Request : \A c \in Free(Home[r]) : txn[c] = "idle"
    /\ \A r \in Creator : req[r].at \in {"new", "end"} =>
            lock # r /\ \A x \in rows : x.owner # r

\* runner.py:3, "idempotent": runs of the migrations that overlap or fail half-way commit
\* what a script does once, and record it.
ScriptsOnce == \A v \in Version : ran[v] = IF v \in Applied THEN 1 ELSE 0

\* connection.py:238-245 and __init__.py:96-98: schema_ready looks at one table of the first
\* script.  That is enough, because a run of the migrations is all or nothing: the schema
\* goes from one image to another in one step, whoever runs or fails beside it, and a
\* replica that starts never finds half of an image.
ReadyMeansMigrated ==
    [][Applied' # Applied => \E m \in Runner : Scripts[m] \subseteq Applied']_vars

\* A request that a replica has accepted is answered: nobody waits for the lock, for a row
\* or for a connection for ever, with all connections in the hands of requests that wait.
\* (Replicas stay up and requests answered, so this is the same as up ~> answered.)
EveryRequestEnds == <>[](\A r \in Request : Home[r] \in up => At(r, "end"))
=============================================================================
