------------------------------ MODULE Migrate ------------------------------
(***************************************************************************)
(* database/migrate/migrate.go: Up and Down of one schema, called by any   *)
(* number of processes at once (the replicas of a service all migrate when *)
(* they start), against a PostgreSQL server that the process, or the       *)
(* connection to it, may lose at any statement.                            *)
(*                                                                         *)
(* A member of Sessions is one database session: the pooled connection     *)
(* that acquireMigrationConnection takes for the length of one call.  It   *)
(* may be used again by a later call.  The server's half of a session      *)
(* outlives the client's: when the process dies, its context ends or the   *)
(* network fails, the statement in flight may still complete, and the      *)
(* advisory lock stays with the session until the server ends it.          *)
(*                                                                         *)
(* A script is sent as one simple query, which the server runs as one      *)
(* transaction: its effect is in or it is not.  What a script does is      *)
(* abstracted to the membership of its version in "applied".               *)
(***************************************************************************)
EXTENDS Integers, FiniteSets

CONSTANTS Sessions,      \* database sessions, one per call of Up or Down
          Tables,        \* version tables: the default one, custom ones
          DefaultTable,  \* "schema_migrations"
          Keys,          \* values of hashtext(schema.table)
          LockKey,       \* [Tables -> Keys]; a hash, so it may collide
          UpFiles,       \* [Sessions -> [Tables -> SUBSET Nat]]: the *.up.sql
          DownFiles,     \* [Sessions -> [Tables -> SUBSET Nat]]: the *.down.sql
          Ops,           \* the operations that are called
          Nobody         \* the owner of a free lock

ASSUME TablesAssumption == DefaultTable \in Tables
ASSUME KeysAssumption == LockKey \in [Tables -> Keys]
ASSUME NobodyAssumption == Nobody \notin Sessions
ASSUME OpsAssumption == Ops \subseteq {"up", "down"}
ASSUME FilesAssumption ==
  /\ UpFiles \in [Sessions -> [Tables -> SUBSET Nat]]
  /\ DownFiles \in [Sessions -> [Tables -> SUBSET Nat]]

VARIABLES
  \* The server.
  lock,      \* the owner of each advisory lock
  row,       \* the row of each version table; no row is version -1, clean
  applied,   \* ghost: the scripts whose effect is in the schema
  \* The calls.
  pc,        \* the statement the session is at
  online,    \* the client's half of the session is there
  op,        \* Up or Down
  tbl,       \* the version table of the call
  todo,      \* the versions the loop has not finished
  cur,       \* the version being applied
  ret        \* what the call returned

db    == <<lock, row, applied>>
calls == <<op, tbl, todo, cur>>
vars  == <<lock, row, applied, pc, online, op, tbl, todo, cur, ret>>

(***************************************************************************)
(* Type definitions.                                                       *)
(***************************************************************************)
\* Stages inside the loop of Up or Down; "orphan" is the server's half of a
\* session whose client went away in there, after its last statement.
Working == {"loop", "mark", "script", "clean", "orphan"}
\* Stages at which the session owns its lock.
Held == {"prepare", "read", "unlock"} \cup Working
Stages == {"idle", "lock"} \cup Held

Versions == Nat \cup {-1}
Rows == [version : Versions, dirty : BOOLEAN]
Clean(v) == [version |-> v, dirty |-> FALSE]
Dirty(v) == [version |-> v, dirty |-> TRUE]

TypeOK ==
  /\ lock \in [Keys -> Sessions \cup {Nobody}]
  /\ row \in [Tables -> Rows]
  /\ applied \in [Tables -> SUBSET Versions]
  /\ pc \in [Sessions -> Stages]
  /\ online \in [Sessions -> BOOLEAN]
  /\ op \in [Sessions -> {"up", "down"}]
  /\ tbl \in [Sessions -> Tables]
  /\ todo \in [Sessions -> SUBSET Nat]
  /\ cur \in [Sessions -> Versions]
  /\ ret \in [Sessions -> {"none", "ok", "err"}]

(***************************************************************************)
(* Helpers.                                                                *)
(***************************************************************************)
Files(s)  == UpFiles[s][tbl[s]]
Downs(s)  == DownFiles[s][tbl[s]]
MyKey(s)  == LockKey[tbl[s]]

\* Fault: <= read as <.
PendingAgain(s, v) == IF op[s] = "up" THEN {f \in Files(s) : f >= v}
                                      ELSE {f \in Files(s) : f <= v}

\* The versions the loop visits: Up skips those at or below the row's version,
\* Down those above it.
Pending(s, v) == IF op[s] = "up" THEN {f \in Files(s) : f > v}
                                 ELSE {f \in Files(s) : f <= v}

\* Fault: the file list is not sorted.
AnyOf(s, v) == v \in todo[s]

\* The file list is sorted, upwards for Up and downwards for Down.
First(s, v) == /\ v \in todo[s]
               /\ \A w \in todo[s] : IF op[s] = "up" THEN v <= w ELSE w <= v

\* Fault: Down records no version after each script.
NoVersion(s) == IF op[s] = "up" THEN {cur[s]} ELSE {-1}

\* The argument cleanVersion of applyMigration, as a set with one member: the
\* version itself, or the next smaller one in the list, or -1.
CleanVersion(s) ==
  IF op[s] = "up" THEN {cur[s]}
  ELSE {v \in Files(s) \cup {-1} :
          v < cur[s] /\ \A f \in Files(s) : f < cur[s] => f <= v}

\* The call returns, and its locals go; its deferred release() follows.
Return(s, r) == /\ pc' = [pc EXCEPT ![s] = "unlock"]
                /\ ret' = [ret EXCEPT ![s] = r]
                /\ todo' = [todo EXCEPT ![s] = {}]
                /\ cur' = [cur EXCEPT ![s] = -1]

\* A statement that completes on the server moves an attached client on; when
\* the client is gone there is nobody to send the next one.
Advance(s, stage) == pc' = [pc EXCEPT ![s] = IF online[s] THEN stage ELSE "orphan"]

\* Nothing of a call is left when its session is idle.
Forget(s) == /\ op' = [op EXCEPT ![s] = "up"]
             /\ tbl' = [tbl EXCEPT ![s] = DefaultTable]
             /\ todo' = [todo EXCEPT ![s] = {}]
             /\ cur' = [cur EXCEPT ![s] = -1]
             /\ ret' = [ret EXCEPT ![s] = "none"]

Init ==
  /\ lock = [k \in Keys |-> Nobody]
  /\ row = [t \in Tables |-> Clean(-1)]
  /\ applied = [t \in Tables |-> {}]
  /\ pc = [s \in Sessions |-> "idle"]
  /\ online = [s \in Sessions |-> TRUE]
  /\ op = [s \in Sessions |-> "up"]
  /\ tbl = [s \in Sessions |-> DefaultTable]
  /\ todo = [s \in Sessions |-> {}]
  /\ cur = [s \in Sessions |-> -1]
  /\ ret = [s \in Sessions |-> "none"]

(***************************************************************************)
(* acquireMigrationConnection.                                             *)
(***************************************************************************)
\* Up or Down is called and gets a connection of the pool.  Down has no
\* parameter for the table.
Call(s, o, t) ==
  /\ pc[s] = "idle"
  /\ o = "down" => t = DefaultTable
  /\ pc' = [pc EXCEPT ![s] = "lock"]
  /\ op' = [op EXCEPT ![s] = o]
  /\ tbl' = [tbl EXCEPT ![s] = t]
  /\ UNCHANGED <<db, online, todo, cur, ret>>

\* Fault: the lock is tried, and its refusal ignored.
LockIgnored(s) ==
  /\ pc[s] = "lock"
  /\ lock' = [lock EXCEPT ![MyKey(s)] = s]
  /\ pc' = [pc EXCEPT ![s] = "prepare"]
  /\ UNCHANGED <<row, applied, online, calls, ret>>

\* pg_advisory_lock returns.
Lock(s) ==
  /\ pc[s] = "lock"
  /\ lock[MyKey(s)] = Nobody
  /\ lock' = [lock EXCEPT ![MyKey(s)] = s]
  /\ pc' = [pc EXCEPT ![s] = "prepare"]
  /\ UNCHANGED <<row, applied, online, calls, ret>>

\* The wait for the lock fails (context, timeout): the connection goes back
\* without it, and there is nothing to unlock.
LockFails(s) ==
  /\ pc[s] = "lock"
  /\ pc' = [pc EXCEPT ![s] = "idle"]
  /\ Forget(s)
  /\ UNCHANGED <<db, online>>

\* SET search_path, CREATE TABLE IF NOT EXISTS and the listing of the files.
Prepare(s) ==
  /\ pc[s] = "prepare" /\ online[s]
  /\ pc' = [pc EXCEPT ![s] = "read"]
  /\ UNCHANGED <<db, online, calls, ret>>

(***************************************************************************)
(* Up and Down.                                                            *)
(***************************************************************************)
\* Fault: the dirty flag is not looked at.
ReadAnyVersion(s) ==
  /\ pc[s] = "read" /\ online[s]
  /\ todo' = [todo EXCEPT ![s] = Pending(s, row[tbl[s]].version)]
  /\ pc' = [pc EXCEPT ![s] = "loop"]
  /\ UNCHANGED <<db, online, op, tbl, cur, ret>>

\* currentVersion, and what both functions decide on it: Down returns nil when
\* there is no version, both refuse a dirty one.
ReadVersion(s) ==
  LET r == row[tbl[s]] IN
  /\ pc[s] = "read" /\ online[s]
  /\ \/ /\ op[s] = "down" /\ r.version < 0
        /\ Return(s, "ok")
     \/ /\ op[s] = "up" \/ r.version >= 0
        /\ r.dirty
        /\ Return(s, "err")
     \/ /\ op[s] = "up" \/ r.version >= 0
        /\ ~r.dirty
        /\ todo' = [todo EXCEPT ![s] = Pending(s, r.version)]
        /\ pc' = [pc EXCEPT ![s] = "loop"]
        /\ UNCHANGED <<cur, ret>>
  /\ UNCHANGED <<db, online, op, tbl>>

\* The head of the loop with a file left.  Down looks for its down file.
Pick(s, v) ==
  /\ pc[s] = "loop" /\ online[s]
  /\ First(s, v)
  /\ \/ /\ op[s] = "up" \/ v \in Downs(s)
        /\ cur' = [cur EXCEPT ![s] = v]
        /\ pc' = [pc EXCEPT ![s] = "mark"]
        /\ UNCHANGED <<todo, ret>>
     \/ /\ op[s] = "down" /\ v \notin Downs(s)
        /\ Return(s, "err")
  /\ UNCHANGED <<db, online, op, tbl>>

\* The loop is over.
Finish(s) ==
  /\ pc[s] = "loop" /\ online[s]
  /\ todo[s] = {}
  /\ Return(s, "ok")
  /\ UNCHANGED <<db, online, op, tbl>>

(***************************************************************************)
(* applyMigration.                                                         *)
(***************************************************************************)
\* setVersion(migration.version, true) commits.
MarkDirty(s) ==
  /\ pc[s] = "mark"
  /\ row' = [row EXCEPT ![tbl[s]] = Dirty(cur[s])]
  /\ Advance(s, "script")
  /\ UNCHANGED <<lock, applied, online, calls, ret>>

\* The script commits: its effect is in after an up script, and gone after a
\* down script.
RunScript(s) ==
  /\ pc[s] = "script"
  /\ applied' = [applied EXCEPT ![tbl[s]] = IF op[s] = "up" THEN @ \cup {cur[s]}
                                                            ELSE @ \ {cur[s]}]
  /\ Advance(s, "clean")
  /\ UNCHANGED <<lock, row, online, calls, ret>>

\* setVersion(cleanVersion, false) commits and the loop goes on.
MarkClean(s) ==
  /\ pc[s] = "clean"
  /\ \E v \in CleanVersion(s) : row' = [row EXCEPT ![tbl[s]] = Clean(v)]
  /\ todo' = [todo EXCEPT ![s] = @ \ {cur[s]}]
  /\ cur' = [cur EXCEPT ![s] = -1]
  /\ Advance(s, "loop")
  /\ UNCHANGED <<lock, applied, online, op, tbl, ret>>

(***************************************************************************)
(* Failure and release.                                                    *)
(***************************************************************************)
\* Fault: the error is logged, and nil returned.
FailQuietly(s) ==
  /\ pc[s] \in {"prepare", "read", "mark", "script", "clean"}
  /\ Return(s, "ok")
  /\ UNCHANGED <<db, online, op, tbl>>

\* The statement the session is at fails without effect (or, before a script,
\* its file cannot be read): the error is returned.  A loop head has no
\* statement; it ends this way only when the client is gone.
Fail(s) ==
  /\ pc[s] \in {"prepare", "read", "mark", "script", "clean"}
     \/ (pc[s] = "loop" /\ ~online[s])
  /\ Return(s, "err")
  /\ UNCHANGED <<db, online, op, tbl>>

\* The process dies, or its context or connection ends, with the session in the
\* middle of the call.  Whether the statement in flight still takes effect is
\* decided later, by the server.
Lose(s) ==
  /\ pc[s] \in Held /\ online[s]
  /\ online' = [online EXCEPT ![s] = FALSE]
  /\ ret' = [ret EXCEPT ![s] = IF pc[s] = "unlock" THEN @ ELSE "err"]
  /\ UNCHANGED <<db, pc, calls>>

\* Fault: the connection goes back to the pool with the lock.
ReleaseLocked(s) ==
  /\ pc[s] \in {"unlock", "orphan"}
  /\ pc' = [pc EXCEPT ![s] = "idle"]
  /\ online' = [online EXCEPT ![s] = TRUE]
  /\ Forget(s)
  /\ UNCHANGED db

\* release(): unlock, and give the connection back; or the end of a session
\* whose client is gone, which frees its locks.
Release(s) ==
  /\ pc[s] \in {"unlock", "orphan"}
  /\ lock' = [lock EXCEPT ![MyKey(s)] = Nobody]
  /\ pc' = [pc EXCEPT ![s] = "idle"]
  /\ online' = [online EXCEPT ![s] = TRUE]
  /\ Forget(s)
  /\ UNCHANGED <<row, applied>>

\* A step of a call in progress, other than a failure.
Step(s) == \/ Lock(s) \/ Prepare(s) \/ ReadVersion(s)
           \/ \E v \in todo[s] : Pick(s, v)
           \/ Finish(s)
           \/ MarkDirty(s) \/ RunScript(s) \/ MarkClean(s)
           \/ Release(s)

Next == \E s \in Sessions :
          \/ \E o \in Ops, t \in Tables : Call(s, o, t)
          \/ Step(s)
          \/ LockFails(s) \/ Fail(s) \/ Lose(s)

Spec == Init /\ [][Next]_vars

\* PostgreSQL grants an advisory lock in the order of the requests, so a
\* request that is grantable again and again is granted: strong fairness.  A
\* session in a call goes on, or its statement fails: weak fairness.
Fairness == \A s \in Sessions : /\ SF_vars(Lock(s))
                                /\ WF_vars(Step(s) \/ Fail(s))

FairSpec == Spec /\ Fairness

(***************************************************************************)
(* Properties.                                                             *)
(***************************************************************************)
\* All callers ship the same migration files.
SameRelease == \A s1, s2 \in Sessions, t \in Tables :
                 UpFiles[s1][t] = UpFiles[s2][t]

Below(s, t, v) == {f \in UpFiles[s][t] : f < v}
UpTo(s, t, v)  == {f \in UpFiles[s][t] : f <= v}

\* The version table tells the truth about the schema at every moment, through
\* crashes, lost commits and competing callers: a clean row means that exactly
\* the scripts up to its version are in, a dirty one that only the script it
\* names is in doubt (migrate.go 235-252, the mark-run-mark protocol).
LedgerAccurate ==
  \A s \in Sessions, t \in Tables :
    LET v == row[t].version IN
    IF row[t].dirty THEN applied[t] \in {Below(s, t, v), UpTo(s, t, v)}
                    ELSE applied[t] = UpTo(s, t, v)

\* A script only ever runs on the schema it was written for: an up script when
\* all the earlier ones are in and no later one is, a down script when its own
\* version is the newest one in (migrate.go 51-59, 99-117).
ScriptsFit ==
  \A s \in Sessions : pc[s] = "script" =>
    applied[tbl[s]] = IF op[s] = "up" THEN Below(s, tbl[s], cur[s])
                                      ELSE UpTo(s, tbl[s], cur[s])

\* No up script runs on a schema that has its effect, whatever the mix of
\* releases among the callers (migrate.go 52: migration.version <= version).
NeverTwice ==
  \A s \in Sessions : pc[s] = "script" /\ op[s] = "up" => cur[s] \notin applied[tbl[s]]

\* A nil error is the truth: after Up every file of the caller is in and nothing
\* else, after Down nothing of the table's history is left (migrate.go 61, 119).
NilIsTrue ==
  \A s \in Sessions : pc[s] = "unlock" /\ ret[s] = "ok" =>
    applied[tbl[s]] = IF op[s] = "up" THEN Files(s) ELSE {}

\* A table left dirty is closed: until its script is repaired by hand no call
\* changes the row or the schema behind it (migrate.go 47-49, 95-97).
DirtyStaysShut ==
  \A t \in Tables :
    row[t].dirty /\ (\A s \in Sessions : tbl[s] = t => pc[s] \notin {"script", "clean"})
      => row'[t] = row[t] /\ applied'[t] = applied[t]
DirtyCloses == [][DirtyStaysShut]_vars

\* A call that asked for the advisory lock returns, whatever happens to the
\* other sessions: the lock never stays with a dead one (migrate.go 150-153).
EveryCallReturns == \A s \in Sessions : pc[s] = "lock" ~> pc[s] = "idle"

(***************************************************************************)
(* The inductive invariant behind the properties above (MigrateProofs).    *)
(***************************************************************************)
\* The advisory lock of a session in its call is its own: at most one session
\* at a time is past pg_advisory_lock on a key.
LockOwned == \A s \in Sessions : pc[s] \in Held => lock[MyKey(s)] = s

\* What is left of the list once cur is picked.
Rest(s) == IF op[s] = "up" THEN {f \in Files(s) : f >= cur[s]}
                           ELSE {f \in Files(s) : f <= cur[s]}

\* A session's locals agree with the table it has locked, stage by stage.
InLoop(s) ==
  pc[s] \in {"loop", "mark"} =>
    /\ ~row[tbl[s]].dirty
    /\ todo[s] = Pending(s, row[tbl[s]].version)
    /\ pc[s] = "mark" => First(s, cur[s])
InScript(s) ==
  pc[s] \in {"script", "clean"} =>
    /\ row[tbl[s]] = Dirty(cur[s])
    /\ cur[s] \in Files(s)
    /\ todo[s] = Rest(s)
    /\ applied[tbl[s]] = IF (op[s] = "up") = (pc[s] = "script")
                         THEN Below(s, tbl[s], cur[s]) ELSE UpTo(s, tbl[s], cur[s])
Returned(s) ==
  pc[s] = "unlock" /\ ret[s] = "ok" =>
    applied[tbl[s]] = IF op[s] = "up" THEN Files(s) ELSE {}

Consistent(s) == InLoop(s) /\ InScript(s) /\ Returned(s)

LedgerInv == /\ TypeOK
             /\ LockOwned
             /\ LedgerAccurate
             /\ \A s \in Sessions : Consistent(s)

(***************************************************************************)
(* Refinement: the sessions behave as one call at a time.                  *)
(***************************************************************************)
Scripts == [t \in Tables |-> UNION {UpFiles[s][t] : s \in Sessions}]
ActiveOps(t) == {op[s] : s \in {x \in Sessions : tbl[x] = t /\ pc[x] \in Working}}

History == INSTANCE SchemaHistory WITH active <- [t \in Tables |-> ActiveOps(t)]

\* Concurrent, crashing calls of Up and Down implement the sequential history of
\* SchemaHistory (migrate.go 144-152, the advisory lock around the whole call).
ImplementsHistory == History!Spec
=============================================================================
