--------------------------- MODULE MigrateProofs ---------------------------
(***************************************************************************)
(* Theorems about Migrate, for every set of sessions and tables, every     *)
(* assignment of lock keys and every set of migration files.               *)
(***************************************************************************)
EXTENDS Migrate, TLAPS

(***************************************************************************)
(* Types.                                                                  *)
(***************************************************************************)
LEMMA InitTypeOK == Init => TypeOK
  BY TablesAssumption
  DEF Init, TypeOK, Stages, Held, Working, Rows, Versions, Clean

LEMMA CleanVersionIsVersion ==
  ASSUME TypeOK, NEW s \in Sessions, NEW v \in CleanVersion(s)
  PROVE  v \in Versions
  BY FilesAssumption DEF TypeOK, CleanVersion, Files, Versions

LEMMA StepTypeOK ==
  ASSUME TypeOK, NEW s \in Sessions, Step(s)
  PROVE  TypeOK'
<1> USE TablesAssumption, KeysAssumption, FilesAssumption
<1>1. CASE Lock(s)
  BY <1>1 DEF Lock, TypeOK, Stages, Held, calls, MyKey
<1>2. CASE Prepare(s)
  BY <1>2 DEF Prepare, TypeOK, Stages, Held, db, calls
<1>3. CASE ReadVersion(s)
  <2>1. Pending(s, row[tbl[s]].version) \in SUBSET Nat
    BY DEF TypeOK, Pending, Files
  <2>2. CASE Return(s, "ok") \/ Return(s, "err")
    BY <1>3, <2>2 DEF ReadVersion, TypeOK, Stages, Held, Working, Return, Versions, db
  <2>3. CASE /\ todo' = [todo EXCEPT ![s] = Pending(s, row[tbl[s]].version)]
             /\ pc' = [pc EXCEPT ![s] = "loop"]
             /\ UNCHANGED <<cur, ret>>
    BY <1>3, <2>1, <2>3 DEF ReadVersion, TypeOK, Stages, Held, Working, db
  <2>. QED
    BY <1>3, <2>2, <2>3 DEF ReadVersion
<1>4. ASSUME NEW v \in todo[s], Pick(s, v) PROVE TypeOK'
  <2>1. CASE Return(s, "err")
    BY <1>4, <2>1 DEF Pick, TypeOK, Stages, Held, Working, Return, Versions, db
  <2>2. CASE /\ cur' = [cur EXCEPT ![s] = v]
             /\ pc' = [pc EXCEPT ![s] = "mark"]
             /\ UNCHANGED <<todo, ret>>
    <3>1. v \in Versions
      BY <1>4 DEF TypeOK, Versions
    <3>. QED
      BY <1>4, <2>2, <3>1 DEF Pick, TypeOK, Stages, Held, Working, db
  <2>. QED
    BY <1>4, <2>1, <2>2 DEF Pick
<1>5. CASE Finish(s)
  BY <1>5 DEF Finish, TypeOK, Stages, Held, Working, Return, Versions, db
<1>6. CASE MarkDirty(s)
  BY <1>6 DEF MarkDirty, TypeOK, Stages, Held, Working, Advance, Rows, Dirty, calls
<1>7. CASE RunScript(s)
  <2>1. pc' \in [Sessions -> Stages]
    BY <1>7 DEF RunScript, Advance, TypeOK, Stages, Held, Working
  <2>2. applied' \in [Tables -> SUBSET Versions]
    BY <1>7 DEF RunScript, TypeOK
  <2>. QED
    BY <1>7, <2>1, <2>2 DEF RunScript, TypeOK, calls
<1>8. CASE MarkClean(s)
  <2>1. row' \in [Tables -> Rows]
    BY <1>8, CleanVersionIsVersion DEF MarkClean, TypeOK, Rows, Clean
  <2>. QED
    BY <1>8, <2>1 DEF MarkClean, TypeOK, Stages, Held, Working, Advance, Versions
<1>9. CASE Release(s)
  BY <1>9 DEF Release, TypeOK, Stages, Held, Forget, Versions, MyKey
<1>. QED
  BY <1>1, <1>2, <1>3, <1>4, <1>5, <1>6, <1>7, <1>8, <1>9 DEF Step

LEMMA NextTypeOK == TypeOK /\ [Next]_vars => TypeOK'
<1>. SUFFICES ASSUME TypeOK, [Next]_vars PROVE TypeOK'
  OBVIOUS
<1>. USE TablesAssumption, KeysAssumption, OpsAssumption
<1>1. ASSUME NEW s \in Sessions, NEW o \in Ops, NEW t \in Tables, Call(s, o, t)
      PROVE  TypeOK'
  BY <1>1 DEF Call, TypeOK, Stages, Held, db
<1>2. ASSUME NEW s \in Sessions, Step(s) PROVE TypeOK'
  BY <1>2, StepTypeOK
<1>3. ASSUME NEW s \in Sessions, LockFails(s) PROVE TypeOK'
  BY <1>3 DEF LockFails, TypeOK, Stages, Held, Forget, Versions, db
<1>4. ASSUME NEW s \in Sessions, Fail(s) PROVE TypeOK'
  BY <1>4 DEF Fail, Return, TypeOK, Stages, Held, Versions, db
<1>5. ASSUME NEW s \in Sessions, Lose(s) PROVE TypeOK'
  BY <1>5 DEF Lose, TypeOK, db, calls
<1>6. CASE UNCHANGED vars
  BY <1>6 DEF vars, TypeOK
<1>. QED
  BY <1>1, <1>2, <1>3, <1>4, <1>5, <1>6 DEF Next

\* Every variable keeps its type.
THEOREM Typing == Spec => []TypeOK
<1>. QED
  BY InitTypeOK, NextTypeOK, PTL DEF Spec

(***************************************************************************)
(* Mutual exclusion.                                                       *)
(***************************************************************************)
LEMMA NextLockOwned == TypeOK /\ LockOwned /\ [Next]_vars => LockOwned'
<1>. SUFFICES ASSUME TypeOK, LockOwned, [Next]_vars,
                     NEW x \in Sessions, pc'[x] \in Held
              PROVE  (lock[MyKey(x)] = x)'
  BY DEF LockOwned
<1>. USE TablesAssumption, KeysAssumption, NobodyAssumption
<1>. USE DEF TypeOK, LockOwned, MyKey
<1>1. ASSUME NEW s \in Sessions, NEW o \in Ops, NEW t \in Tables, Call(s, o, t)
      PROVE  (lock[MyKey(x)] = x)'
  BY <1>1 DEF Call, Held, Working, db
<1>2. ASSUME NEW s \in Sessions, Step(s) PROVE (lock[MyKey(x)] = x)'
  <2>1. CASE Lock(s)
    BY <2>1 DEF Lock, Held, Working, calls
  <2>2. CASE Prepare(s)
    BY <2>2 DEF Prepare, Held, Working, db, calls
  <2>3. CASE ReadVersion(s)
    BY <2>3 DEF ReadVersion, Return, Held, Working, db
  <2>4. ASSUME NEW v \in todo[s], Pick(s, v) PROVE (lock[MyKey(x)] = x)'
    BY <2>4 DEF Pick, Return, Held, Working, db
  <2>5. CASE Finish(s)
    BY <2>5 DEF Finish, Return, Held, Working, db
  <2>6. CASE MarkDirty(s)
    BY <2>6 DEF MarkDirty, Advance, Held, Working, calls
  <2>7. CASE RunScript(s)
    BY <2>7 DEF RunScript, Advance, Held, Working, calls
  <2>8. CASE MarkClean(s)
    BY <2>8 DEF MarkClean, Advance, Held, Working
  <2>9. CASE Release(s)
    BY <2>9 DEF Release, Forget, Held, Working
  <2>. QED
    BY <1>2, <2>1, <2>2, <2>3, <2>4, <2>5, <2>6, <2>7, <2>8, <2>9 DEF Step
<1>3. ASSUME NEW s \in Sessions, LockFails(s) PROVE (lock[MyKey(x)] = x)'
  BY <1>3 DEF LockFails, Forget, Held, Working, db
<1>4. ASSUME NEW s \in Sessions, Fail(s) PROVE (lock[MyKey(x)] = x)'
  BY <1>4 DEF Fail, Return, Held, Working, db
<1>5. ASSUME NEW s \in Sessions, Lose(s) PROVE (lock[MyKey(x)] = x)'
  BY <1>5 DEF Lose, db, calls
<1>6. CASE UNCHANGED vars
  BY <1>6 DEF vars
<1>. QED
  BY <1>1, <1>2, <1>3, <1>4, <1>5, <1>6 DEF Next

\* Two sessions are never inside the same table's critical section: the lock of
\* each one that is past pg_advisory_lock is its own (migrate.go 144-152).
THEOREM Exclusion == Spec => []LockOwned
<1>1. Init => LockOwned
  BY DEF Init, LockOwned, Held, Working
<1>. QED
  BY <1>1, Typing, NextLockOwned, PTL DEF Spec

(***************************************************************************)
(* The version table tells the truth.                                      *)
(***************************************************************************)
\* A step of s leaves the locals of the other sessions alone, and the tables
\* other than its own.
LocalsKept(s) == \A x \in Sessions \ {s} :
  /\ pc'[x] = pc[x] /\ op'[x] = op[x] /\ tbl'[x] = tbl[x]
  /\ todo'[x] = todo[x] /\ cur'[x] = cur[x] /\ ret'[x] = ret[x]

TablesKept(s) == \A t \in Tables :
  t # tbl[s] \/ pc[s] \notin Held => row'[t] = row[t] /\ applied'[t] = applied[t]

LEMMA StepKeeps ==
  ASSUME TypeOK, NEW s \in Sessions, Step(s)
  PROVE  LocalsKept(s) /\ TablesKept(s)
<1>. USE DEF TypeOK, LocalsKept, TablesKept
<1>1. CASE Lock(s)
  BY <1>1 DEF Lock, calls
<1>2. CASE Prepare(s)
  BY <1>2 DEF Prepare, db, calls
<1>3. CASE ReadVersion(s)
  BY <1>3 DEF ReadVersion, Return, db
<1>4. ASSUME NEW v \in todo[s], Pick(s, v) PROVE LocalsKept(s) /\ TablesKept(s)
  BY <1>4 DEF Pick, Return, db
<1>5. CASE Finish(s)
  BY <1>5 DEF Finish, Return, db
<1>6. CASE MarkDirty(s)
  BY <1>6 DEF MarkDirty, Advance, Held, Working, calls
<1>7. CASE RunScript(s)
  BY <1>7 DEF RunScript, Advance, Held, Working, calls
<1>8. CASE MarkClean(s)
  BY <1>8 DEF MarkClean, Advance, Held, Working
<1>9. CASE Release(s)
  BY <1>9 DEF Release, Forget
<1>. QED
  BY <1>1, <1>2, <1>3, <1>4, <1>5, <1>6, <1>7, <1>8, <1>9 DEF Step

\* What a step of another session cannot break.
LEMMA OthersConsistent ==
  ASSUME TypeOK, LockOwned, NEW s \in Sessions, LocalsKept(s), TablesKept(s),
         NEW x \in Sessions, x # s, Consistent(x)
  PROVE  Consistent(x)'
<1>1. pc[x] \in Held => row'[tbl[x]] = row[tbl[x]] /\ applied'[tbl[x]] = applied[tbl[x]]
  BY KeysAssumption DEF TypeOK, LockOwned, MyKey, TablesKept
<1>2. /\ pc'[x] = pc[x] /\ op'[x] = op[x] /\ tbl'[x] = tbl[x]
      /\ todo'[x] = todo[x] /\ cur'[x] = cur[x] /\ ret'[x] = ret[x]
  BY DEF LocalsKept
<1>3. Files(x)' = Files(x)
  BY <1>2 DEF Files
<1>4. InLoop(x)'
  BY <1>1, <1>2, <1>3 DEF Consistent, InLoop, First, Pending, Held, Working
<1>5. InScript(x)'
  BY <1>1, <1>2, <1>3 DEF Consistent, InScript, Rest, Below, UpTo, Held, Working, Dirty
<1>6. Returned(x)'
  BY <1>1, <1>2, <1>3 DEF Consistent, Returned, Held
<1>. QED
  BY <1>4, <1>5, <1>6 DEF Consistent

\* With one release, a table's row and effect may be judged by any session's
\* files.
Accurate(s, t) ==
  LET v == row[t].version IN
  IF row[t].dirty THEN applied[t] \in {Below(s, t, v), UpTo(s, t, v)}
                  ELSE applied[t] = UpTo(s, t, v)

LEMMA LedgerByOne ==
  ASSUME SameRelease, LedgerAccurate, NEW s \in Sessions, TablesKept(s),
         tbl[s] \in Tables, Accurate(s, tbl[s])'
  PROVE  tbl'[s] = tbl[s] => LedgerAccurate'
<1>. SUFFICES ASSUME tbl'[s] = tbl[s], NEW x \in Sessions, NEW t \in Tables
              PROVE  Accurate(x, t)'
  BY DEF LedgerAccurate, Accurate
<1>1. CASE t # tbl[s]
  BY <1>1 DEF TablesKept, LedgerAccurate, Accurate, Below, UpTo
<1>2. CASE t = tbl[s]
  <2>1. UpFiles[x][t] = UpFiles[s][t]
    BY DEF SameRelease
  <2>. QED
    BY <1>2, <2>1 DEF Accurate, Below, UpTo
<1>. QED
  BY <1>1, <1>2

\* The neighbourhood of the version being applied.
LEMMA UpNeighbour ==
  ASSUME NEW F \in SUBSET Nat, NEW v \in Versions, NEW c \in F, c > v,
         \A w \in {f \in F : f > v} : c <= w
  PROVE  /\ {f \in F : f <= v} = {f \in F : f < c}
         /\ {f \in F : f > v} = {f \in F : f >= c}
<1>1. v \in Int /\ c \in Int
  BY DEF Versions
<1>2. ASSUME NEW f \in F PROVE (f <= v <=> f < c) /\ (f > v <=> f >= c)
  <2>1. f \in Int /\ (f > v => c <= f)
    OBVIOUS
  <2>. QED
    BY <1>1, <2>1
<1>. QED
  BY <1>2, Zenon

LEMMA DownNeighbour ==
  ASSUME NEW F \in SUBSET Nat, NEW v \in Versions, NEW c \in F, c <= v,
         \A w \in {f \in F : f <= v} : w <= c
  PROVE  {f \in F : f <= v} = {f \in F : f <= c}
<1>1. v \in Int /\ c \in Int
  BY DEF Versions
<1>2. ASSUME NEW f \in F PROVE f <= v <=> f <= c
  <2>1. f \in Int /\ (f <= v => f <= c)
    OBVIOUS
  <2>. QED
    BY <1>1, <2>1
<1>. QED
  BY <1>2, Zenon

LEMMA NextSmaller ==
  ASSUME NEW F \in SUBSET Nat, NEW c \in F, NEW v \in Versions, v < c,
         \A f \in F : f < c => f <= v
  PROVE  /\ {f \in F : f < c} = {f \in F : f <= v}
         /\ {f \in F : f <= c} \ {c} = {f \in F : f <= v}
<1>1. v \in Int /\ c \in Int
  BY DEF Versions
<1>2. ASSUME NEW f \in F
      PROVE  (f < c <=> f <= v) /\ ((f <= c /\ f # c) <=> f <= v)
  BY <1>1
<1>. QED
  BY <1>2, Zenon

LEMMA AddOwn ==
  ASSUME NEW F \in SUBSET Nat, NEW c \in F
  PROVE  /\ {f \in F : f < c} \cup {c} = {f \in F : f <= c}
         /\ {f \in F : f <= c} \ {c} = {f \in F : f < c}
         /\ {f \in F : f >= c} \ {c} = {f \in F : f > c}
<1>1. ASSUME NEW f \in F
      PROVE  /\ (f < c \/ f = c) <=> f <= c
             /\ (f <= c /\ f # c) <=> f < c
             /\ (f >= c /\ f # c) <=> f > c
  OBVIOUS
<1>. QED
  BY <1>1, Zenon

\* A step of s keeps its own table accurate and its locals consistent.
LEMMA StepLedger ==
  ASSUME SameRelease, LedgerInv, NEW s \in Sessions, Step(s)
  PROVE  LedgerAccurate' /\ Consistent(s)'
<1> DEFINE t == tbl[s]
<1> DEFINE v == row[t].version
<1>1. /\ t \in Tables /\ row[t] \in Rows /\ v \in Versions
      /\ UpFiles[s][t] \in SUBSET Nat
      /\ op[s] \in {"up", "down"}
  BY FilesAssumption DEF LedgerInv, TypeOK, Rows
<1>2. TablesKept(s) /\ Accurate(s, t) /\ Consistent(s) /\ TypeOK /\ LedgerAccurate
  BY <1>1, StepKeeps DEF LedgerInv, LedgerAccurate, Accurate
<1>. USE <1>1, <1>2
<1>3. CASE UNCHANGED <<row, applied>> /\ (Lock(s) \/ Prepare(s) \/ Release(s))
  <2>1. LedgerAccurate'
    BY <1>3 DEF LedgerAccurate, Below, UpTo
  <2>2. pc'[s] \in {"prepare", "read", "idle"}
    BY <1>3 DEF Lock, Prepare, Release, TypeOK
  <2>. QED
    BY <2>1, <2>2 DEF Consistent, InLoop, InScript, Returned
<1>4. CASE ReadVersion(s)
  <2>1. LedgerAccurate'
    BY <1>4 DEF ReadVersion, db, LedgerAccurate, Below, UpTo
  <2>2. op' = op /\ tbl' = tbl /\ row' = row /\ applied' = applied
    BY <1>4 DEF ReadVersion, db
  <2>3. CASE op[s] = "down" /\ v < 0 /\ Return(s, "ok")
    <3>1. applied[t] = {}
      BY <2>3 DEF Accurate, Below, UpTo, Versions
    <3>. QED
      BY <2>1, <2>2, <2>3, <3>1 DEF Return, TypeOK, Consistent, InLoop, InScript, Returned
  <2>4. CASE Return(s, "err")
    BY <2>1, <2>4 DEF Return, TypeOK, Consistent, InLoop, InScript, Returned
  <2>5. CASE /\ ~row[t].dirty
             /\ todo' = [todo EXCEPT ![s] = Pending(s, v)]
             /\ pc' = [pc EXCEPT ![s] = "loop"]
    BY <2>1, <2>2, <2>5
    DEF TypeOK, Consistent, InLoop, InScript, Returned, Pending, Files
  <2>. QED
    BY <1>4, <2>3, <2>4, <2>5 DEF ReadVersion
<1>5. ASSUME NEW c \in todo[s], Pick(s, c)
      PROVE  LedgerAccurate' /\ Consistent(s)'
  <2>1. LedgerAccurate'
    BY <1>5 DEF Pick, db, LedgerAccurate, Below, UpTo
  <2>2. op' = op /\ tbl' = tbl /\ row' = row /\ applied' = applied
    BY <1>5 DEF Pick, db
  <2>3. CASE Return(s, "err")
    BY <2>1, <2>3 DEF Return, TypeOK, Consistent, InLoop, InScript, Returned
  <2>4. CASE /\ cur' = [cur EXCEPT ![s] = c]
             /\ pc' = [pc EXCEPT ![s] = "mark"]
             /\ UNCHANGED <<todo, ret>>
    <3>1. pc[s] = "loop" /\ First(s, c) /\ cur'[s] = c /\ pc'[s] = "mark"
      BY <1>5, <2>4 DEF Pick, TypeOK
    <3>2. First(s, cur[s])'
      BY <2>2, <2>4, <3>1 DEF First
    <3>. QED
      BY <2>1, <2>2, <2>4, <3>1, <3>2 DEF Consistent, InLoop, InScript, Returned, Pending, Files
  <2>. QED
    BY <1>5, <2>3, <2>4 DEF Pick
<1>6. CASE Finish(s)
  <2>1. LedgerAccurate'
    BY <1>6 DEF Finish, db, LedgerAccurate, Below, UpTo
  <2>2. /\ pc[s] = "loop" /\ todo[s] = {} /\ pc'[s] = "unlock"
        /\ op' = op /\ tbl' = tbl /\ row' = row /\ applied' = applied
    BY <1>6 DEF Finish, Return, db, TypeOK
  <2>3. Pending(s, v) = {} /\ applied[t] = UpTo(s, t, v)
    BY <2>2 DEF Consistent, InLoop, Accurate
  <2>4. applied[t] = IF op[s] = "up" THEN Files(s) ELSE {}
    BY <2>3 DEF Pending, UpTo, Files, Versions
  <2>. QED
    BY <2>1, <2>2, <2>4 DEF Consistent, InLoop, InScript, Returned, Files
<1>7. CASE MarkDirty(s)
  <2> DEFINE c == cur[s]
  <2>1. /\ pc[s] = "mark" /\ pc'[s] \in {"script", "orphan"}
        /\ op' = op /\ tbl' = tbl /\ todo' = todo /\ cur' = cur /\ applied' = applied
        /\ row'[t] = Dirty(c)
    BY <1>7 DEF MarkDirty, Advance, calls, TypeOK
  <2>2. /\ todo[s] = Pending(s, v) /\ First(s, c) /\ applied[t] = UpTo(s, t, v)
    BY <2>1 DEF Consistent, InLoop, Accurate
  <2>3. c \in Files(s)
    BY <2>2 DEF First, Pending, Files
  <2>4. /\ todo[s] = Rest(s)
        /\ applied[t] = IF op[s] = "up" THEN Below(s, t, c) ELSE UpTo(s, t, c)
    <3>1. CASE op[s] = "up"
      <4>1. c > v /\ \A w \in {f \in Files(s) : f > v} : c <= w
        BY <2>2, <3>1 DEF First, Pending
      <4>. QED
        BY <2>2, <2>3, <3>1, <4>1, UpNeighbour DEF Pending, Rest, Files, Below, UpTo
    <3>2. CASE op[s] = "down"
      <4>1. c <= v /\ \A w \in {f \in Files(s) : f <= v} : w <= c
        BY <2>2, <3>2 DEF First, Pending
      <4>. QED
        BY <2>2, <2>3, <3>2, <4>1, DownNeighbour DEF Pending, Rest, Files, Below, UpTo
    <3>. QED
      BY <3>1, <3>2
  <2>5. Accurate(s, t)'
    BY <2>1, <2>4 DEF Accurate, Dirty, Below, UpTo
  <2>6. LedgerAccurate'
    BY <2>1, <2>5, LedgerByOne
  <2>7. Rest(s)' = Rest(s)
    BY <2>1 DEF Rest, Files
  <2>. QED
    BY <2>1, <2>3, <2>4, <2>6, <2>7
    DEF Consistent, InLoop, InScript, Returned, Files, Dirty, Below, UpTo
<1>8. CASE RunScript(s)
  <2> DEFINE c == cur[s]
  <2>1. /\ pc[s] = "script" /\ pc'[s] \in {"clean", "orphan"}
        /\ op' = op /\ tbl' = tbl /\ todo' = todo /\ cur' = cur /\ row' = row
        /\ applied'[t] = IF op[s] = "up" THEN applied[t] \cup {c} ELSE applied[t] \ {c}
    BY <1>8 DEF RunScript, Advance, calls, TypeOK
  <2>2. /\ row[t] = Dirty(c) /\ c \in UpFiles[s][t] /\ todo[s] = Rest(s)
        /\ applied[t] = IF op[s] = "up" THEN Below(s, t, c) ELSE UpTo(s, t, c)
    BY <2>1 DEF Consistent, InScript, Files
  <2>3. applied'[t] = IF op[s] = "up" THEN UpTo(s, t, c) ELSE Below(s, t, c)
    BY <2>1, <2>2, AddOwn DEF Below, UpTo
  <2>4. Accurate(s, t)'
    BY <2>1, <2>2, <2>3 DEF Accurate, Dirty, Below, UpTo
  <2>5. LedgerAccurate'
    BY <2>1, <2>4, LedgerByOne
  <2>6. Rest(s)' = Rest(s) /\ Below(s, t, c)' = Below(s, t, c) /\ UpTo(s, t, c)' = UpTo(s, t, c)
    BY <2>1 DEF Rest, Files, Below, UpTo
  <2>. QED
    BY <2>1, <2>2, <2>3, <2>5, <2>6
    DEF Consistent, InLoop, InScript, Returned, Files, Below, UpTo
<1>9. CASE MarkClean(s)
  <2> DEFINE c == cur[s]
  <2>1. PICK w \in CleanVersion(s) : row' = [row EXCEPT ![t] = Clean(w)]
    BY <1>9 DEF MarkClean
  <2>2. /\ pc[s] = "clean" /\ pc'[s] \in {"loop", "orphan"}
        /\ op' = op /\ tbl' = tbl /\ applied' = applied
        /\ todo'[s] = todo[s] \ {c}
        /\ row'[t] = Clean(w)
    BY <1>9, <2>1 DEF MarkClean, Advance, TypeOK
  <2>3. /\ c \in UpFiles[s][t] /\ todo[s] = Rest(s)
        /\ applied[t] = IF op[s] = "up" THEN UpTo(s, t, c) ELSE Below(s, t, c)
    BY <2>2 DEF Consistent, InScript, Files
  <2>4. w \in Versions
    BY CleanVersionIsVersion
  <2>5. applied[t] = UpTo(s, t, w) /\ todo'[s] = Pending(s, w)
    <3>1. CASE op[s] = "up"
      BY <2>2, <2>3, <3>1, AddOwn DEF CleanVersion, Rest, Pending, Files, UpTo
    <3>2. CASE op[s] = "down"
      <4>1. w < c /\ \A f \in Files(s) : f < c => f <= w
        BY <3>2 DEF CleanVersion
      <4>. QED
        BY <2>2, <2>3, <2>4, <3>2, <4>1, NextSmaller DEF Rest, Pending, Files, Below, UpTo
    <3>. QED
      BY <3>1, <3>2
  <2>6. Accurate(s, t)'
    BY <2>2, <2>5 DEF Accurate, Clean, UpTo
  <2>7. LedgerAccurate'
    BY <2>2, <2>6, LedgerByOne
  <2>8. Pending(s, w)' = Pending(s, w)
    BY <2>2 DEF Pending, Files
  <2>. QED
    BY <2>2, <2>5, <2>7, <2>8 DEF Consistent, InLoop, InScript, Returned, Clean, Pending, Files
<1>. QED
  BY <1>3, <1>4, <1>5, <1>6, <1>7, <1>8, <1>9 DEF Step, Lock, Prepare, Release, db, calls

\* A call that begins, fails or loses its client touches no table.
LEMMA QuietKeeps ==
  ASSUME TypeOK, NEW s \in Sessions,
         \/ \E o \in Ops, t \in Tables : Call(s, o, t)
         \/ LockFails(s) \/ Fail(s) \/ Lose(s)
  PROVE  /\ LocalsKept(s) /\ TablesKept(s)
         /\ row' = row /\ applied' = applied
         /\ Consistent(s) => Consistent(s)'
<1>1. ASSUME NEW o \in Ops, NEW t \in Tables, Call(s, o, t)
      PROVE  /\ LocalsKept(s) /\ row' = row /\ applied' = applied
             /\ pc'[s] = "lock"
  BY <1>1 DEF Call, db, TypeOK, LocalsKept
<1>2. CASE LockFails(s)
  <2>1. /\ LocalsKept(s) /\ row' = row /\ applied' = applied
        /\ pc'[s] = "idle"
    BY <1>2 DEF LockFails, Forget, db, TypeOK, LocalsKept
  <2>. QED
    BY <2>1 DEF TablesKept, Consistent, InLoop, InScript, Returned
<1>3. CASE Fail(s)
  <2>1. /\ LocalsKept(s) /\ row' = row /\ applied' = applied
        /\ pc'[s] = "unlock" /\ ret'[s] = "err"
    BY <1>3 DEF Fail, Return, db, TypeOK, LocalsKept
  <2>. QED
    BY <2>1 DEF TablesKept, Consistent, InLoop, InScript, Returned
<1>4. CASE Lose(s)
  <2>1. /\ LocalsKept(s) /\ row' = row /\ applied' = applied
        /\ pc' = pc /\ op' = op /\ tbl' = tbl /\ todo' = todo /\ cur' = cur
        /\ pc[s] = "unlock" => ret'[s] = ret[s]
    BY <1>4 DEF Lose, db, calls, TypeOK, LocalsKept
  <2>. QED
    BY <2>1 DEF TablesKept, Consistent, InLoop, InScript, Returned, First, Pending,
         Rest, Files, Below, UpTo
<1>. QED
  BY <1>1, <1>2, <1>3, <1>4 DEF TablesKept, Consistent, InLoop, InScript, Returned

LEMMA InitLedgerInv == Init => LedgerInv
<1>. SUFFICES ASSUME Init PROVE LedgerInv
  OBVIOUS
<1>1. TypeOK
  BY InitTypeOK
<1>2. ASSUME NEW s \in Sessions, NEW t \in Tables PROVE applied[t] = UpTo(s, t, -1)
  BY FilesAssumption DEF Init, UpTo
<1>3. LedgerAccurate
  BY <1>2 DEF Init, LedgerAccurate, Clean
<1>. QED
  BY <1>1, <1>3 DEF Init, LedgerInv, LockOwned, Held, Working, Consistent, InLoop,
       InScript, Returned

LEMMA NextLedgerInv ==
  ASSUME SameRelease, LedgerInv, [Next]_vars
  PROVE  LedgerInv'
<1>. USE DEF LedgerInv
<1>1. TypeOK' /\ LockOwned'
  BY NextTypeOK, NextLockOwned
<1>2. ASSUME NEW s \in Sessions, LocalsKept(s), TablesKept(s),
             LedgerAccurate', Consistent(s)'
      PROVE  LedgerInv'
  BY <1>1, <1>2, OthersConsistent
<1>3. ASSUME NEW s \in Sessions, Step(s) PROVE LedgerInv'
  BY <1>2, <1>3, StepKeeps, StepLedger
<1>4. ASSUME NEW s \in Sessions,
             \/ \E o \in Ops, t \in Tables : Call(s, o, t)
             \/ LockFails(s) \/ Fail(s) \/ Lose(s)
      PROVE  LedgerInv'
  <2>1. LocalsKept(s) /\ TablesKept(s) /\ row' = row /\ applied' = applied /\ Consistent(s)'
    BY <1>4, QuietKeeps
  <2>2. LedgerAccurate'
    BY <2>1 DEF LedgerAccurate, Below, UpTo
  <2>. QED
    BY <1>2, <2>1, <2>2
<1>5. CASE UNCHANGED vars
  <2>1. LedgerAccurate'
    BY <1>5 DEF vars, LedgerAccurate, Below, UpTo
  <2>2. ASSUME NEW s \in Sessions PROVE Consistent(s)'
    <3>1. /\ LocalsKept(s) /\ Files(s)' = Files(s)
          /\ pc' = pc /\ op' = op /\ tbl' = tbl /\ todo' = todo /\ cur' = cur
          /\ ret' = ret /\ row' = row /\ applied' = applied
      BY <1>5 DEF vars, LocalsKept, Files
    <3>2. InLoop(s)'
      BY <3>1 DEF Consistent, InLoop, First, Pending
    <3>3. InScript(s)'
      BY <3>1 DEF Consistent, InScript, Rest, Below, UpTo
    <3>4. Returned(s)'
      BY <3>1 DEF Consistent, Returned
    <3>. QED
      BY <3>2, <3>3, <3>4 DEF Consistent
  <2>. QED
    BY <1>1, <2>1, <2>2
<1>. QED
  BY <1>3, <1>4, <1>5 DEF Next

\* With one release among the callers, the invariant of the proof holds for
\* every number of sessions and tables and every set of files.
THEOREM LedgerInvariant == ASSUME SameRelease PROVE Spec => []LedgerInv
<1>1. LedgerInv /\ [Next]_vars => LedgerInv'
  BY NextLedgerInv
<1>. QED
  BY <1>1, InitLedgerInv, PTL DEF Spec

\* The version table tells the truth about the schema (migrate.go 235-252).
THEOREM LedgerIsAccurate == ASSUME SameRelease PROVE Spec => []LedgerAccurate
<1>1. LedgerInv => LedgerAccurate
  BY DEF LedgerInv
<1>. QED
  BY <1>1, LedgerInvariant, PTL

\* A script runs only on the schema it was written for (migrate.go 51-59, 99-117).
THEOREM ScriptsAlwaysFit == ASSUME SameRelease PROVE Spec => []ScriptsFit
<1>1. LedgerInv => ScriptsFit
  BY DEF LedgerInv, Consistent, InScript, ScriptsFit
<1>. QED
  BY <1>1, LedgerInvariant, PTL

\* A nil error of Up or Down is the truth (migrate.go 61, 119).
THEOREM NilIsAlwaysTrue == ASSUME SameRelease PROVE Spec => []NilIsTrue
<1>1. LedgerInv => NilIsTrue
  BY DEF LedgerInv, Consistent, Returned, NilIsTrue
<1>. QED
  BY <1>1, LedgerInvariant, PTL

(***************************************************************************)
(* A dirty table is closed, whatever the mix of releases.                  *)
(***************************************************************************)
\* Nobody is about to mark a dirty table.
Guarded == \A s \in Sessions : pc[s] \in {"loop", "mark"} => ~row[tbl[s]].dirty

LEMMA OthersGuarded ==
  ASSUME TypeOK, LockOwned, Guarded, NEW s \in Sessions, LocalsKept(s), TablesKept(s),
         pc'[s] \in {"loop", "mark"} => ~row'[tbl'[s]].dirty
  PROVE  Guarded'
<1>. SUFFICES ASSUME NEW x \in Sessions, pc'[x] \in {"loop", "mark"}
              PROVE  ~row'[tbl'[x]].dirty
  BY DEF Guarded
<1>1. CASE x # s
  <2>1. pc[x] \in Held => row'[tbl[x]] = row[tbl[x]]
    BY <1>1, KeysAssumption DEF TypeOK, LockOwned, MyKey, TablesKept
  <2>. QED
    BY <1>1, <2>1 DEF LocalsKept, Guarded, Held, Working
<1>. QED
  BY <1>1

LEMMA NextGuarded == TypeOK /\ LockOwned /\ Guarded /\ [Next]_vars => Guarded'
<1>. SUFFICES ASSUME TypeOK, LockOwned, Guarded, [Next]_vars PROVE Guarded'
  OBVIOUS
<1>1. ASSUME NEW s \in Sessions, Step(s) PROVE Guarded'
  <2>1. LocalsKept(s) /\ TablesKept(s)
    BY <1>1, StepKeeps
  <2>2. CASE Lock(s) \/ Prepare(s) \/ Finish(s) \/ MarkDirty(s) \/ RunScript(s) \/ Release(s)
    <3>1. pc'[s] \notin {"loop", "mark"}
      BY <2>2 DEF Lock, Prepare, Finish, MarkDirty, RunScript, Release, Return, Advance, TypeOK
    <3>. QED
      BY <2>1, <3>1, OthersGuarded
  <2>3. CASE ReadVersion(s)
    <3>1. pc'[s] \in {"loop", "mark"} => ~row'[tbl'[s]].dirty
      BY <2>3 DEF ReadVersion, Return, db, TypeOK
    <3>. QED
      BY <2>1, <3>1, OthersGuarded
  <2>4. ASSUME NEW v \in todo[s], Pick(s, v) PROVE Guarded'
    <3>1. pc'[s] \in {"loop", "mark"} => ~row'[tbl'[s]].dirty
      BY <2>4 DEF Pick, Return, db, TypeOK, Guarded
    <3>. QED
      BY <2>1, <3>1, OthersGuarded
  <2>5. CASE MarkClean(s)
    <3>1. ~row'[tbl'[s]].dirty
      BY <2>5 DEF MarkClean, Clean, TypeOK
    <3>. QED
      BY <2>1, <3>1, OthersGuarded
  <2>. QED
    BY <1>1, <2>2, <2>3, <2>4, <2>5 DEF Step
<1>2. ASSUME NEW s \in Sessions,
             \/ \E o \in Ops, t \in Tables : Call(s, o, t)
             \/ LockFails(s) \/ Fail(s) \/ Lose(s)
      PROVE  Guarded'
  <2>1. LocalsKept(s) /\ TablesKept(s) /\ row' = row
    BY <1>2, QuietKeeps
  <2>2. pc'[s] \in {"loop", "mark"} => pc'[s] = pc[s] /\ tbl'[s] = tbl[s]
    BY <1>2 DEF Call, LockFails, Fail, Return, Lose, db, calls, TypeOK
  <2>. QED
    BY <2>1, <2>2, OthersGuarded DEF Guarded
<1>3. CASE UNCHANGED vars
  BY <1>3 DEF vars, Guarded
<1>. QED
  BY <1>1, <1>2, <1>3 DEF Next

LEMMA StepStaysShut ==
  TypeOK /\ LockOwned /\ Guarded /\ [Next]_vars => [DirtyStaysShut]_vars
<1>. SUFFICES ASSUME TypeOK, LockOwned, Guarded, Next,
                     NEW t \in Tables, row[t].dirty,
                     \A s \in Sessions : tbl[s] = t => pc[s] \notin {"script", "clean"}
              PROVE  row'[t] = row[t] /\ applied'[t] = applied[t]
  BY DEF DirtyStaysShut
<1>1. ASSUME NEW s \in Sessions, Step(s)
      PROVE  row'[t] = row[t] /\ applied'[t] = applied[t]
  <2>1. CASE tbl[s] # t
    BY <1>1, <2>1, StepKeeps DEF TablesKept
  <2>2. CASE tbl[s] = t
    <3>1. ~MarkDirty(s) /\ ~RunScript(s) /\ ~MarkClean(s)
      BY <2>2 DEF MarkDirty, RunScript, MarkClean, Guarded
    <3>2. row' = row /\ applied' = applied
      BY <1>1, <3>1 DEF Step, Lock, Prepare, ReadVersion, Pick, Finish, Release, db
    <3>. QED
      BY <3>2
  <2>. QED
    BY <2>1, <2>2
<1>2. ASSUME NEW s \in Sessions,
             \/ \E o \in Ops, u \in Tables : Call(s, o, u)
             \/ LockFails(s) \/ Fail(s) \/ Lose(s)
      PROVE  row'[t] = row[t] /\ applied'[t] = applied[t]
  BY <1>2, QuietKeeps
<1>. QED
  BY <1>1, <1>2 DEF Next

\* A table left dirty is never touched again by any call of any release
\* (migrate.go 47-49, 95-97).
THEOREM DirtyIsClosed == Spec => DirtyCloses
<1>1. Init => Guarded
  BY DEF Init, Guarded
<1>. QED
  BY <1>1, Typing, Exclusion, NextGuarded, StepStaysShut, PTL DEF Spec, DirtyCloses

(***************************************************************************)
(* Refinement of SchemaHistory.                                            *)
(***************************************************************************)
LEMMA ActiveBefore ==
  ASSUME TypeOK, LockOwned, NEW s \in Sessions, pc[s] \in Held
  PROVE  ActiveOps(tbl[s]) = IF pc[s] \in Working THEN {op[s]} ELSE {}
<1>1. ASSUME NEW x \in Sessions, tbl[x] = tbl[s], pc[x] \in Working PROVE x = s
  BY <1>1 DEF LockOwned, MyKey, Held
<1>. QED
  BY <1>1, Zenon DEF ActiveOps

LEMMA ActiveAfter ==
  ASSUME TypeOK, LockOwned, NEW s \in Sessions, pc[s] \in Held, LocalsKept(s),
         NEW t \in Tables, t = tbl[s],
         tbl'[s] = t \/ pc'[s] \notin Working
  PROVE  ActiveOps(t)' = IF pc'[s] \in Working THEN {op'[s]} ELSE {}
<1>1. ASSUME NEW x \in Sessions, tbl'[x] = t, pc'[x] \in Working PROVE x = s
  BY <1>1 DEF LockOwned, MyKey, Held, LocalsKept
<1>. DEFINE X == {x \in Sessions : tbl'[x] = t /\ pc'[x] \in Working}
<1>2. CASE pc'[s] \in Working
  <2>1. X = {s}
    BY <1>1, <1>2, Zenon
  <2>. QED
    BY <1>2, <2>1 DEF ActiveOps
<1>3. CASE pc'[s] \notin Working
  <2>1. X = {}
    BY <1>1, <1>3, Zenon
  <2>. QED
    BY <1>3, <2>1 DEF ActiveOps
<1>. QED
  BY <1>2, <1>3

LEMMA ActiveElsewhere ==
  ASSUME TypeOK, NEW s \in Sessions, LocalsKept(s), NEW t \in Tables,
         ~(tbl[s] = t /\ pc[s] \in Working), ~(tbl'[s] = t /\ pc'[s] \in Working)
  PROVE  ActiveOps(t)' = ActiveOps(t)
<1> DEFINE X == {x \in Sessions : tbl[x] = t /\ pc[x] \in Working}
<1>1. X = {x \in Sessions : tbl'[x] = t /\ pc'[x] \in Working}
  BY DEF LocalsKept
<1>2. ASSUME NEW x \in X PROVE op'[x] = op[x]
  BY <1>2 DEF LocalsKept
<1>. HIDE DEF X
<1>3. {op[x] : x \in X} = {op'[x] : x \in X}
  BY <1>2
<1>. QED
  BY <1>1, <1>3 DEF ActiveOps, X

\* A step that leaves the tables and everybody's part in them alone.
LEMMA Stutters ==
  ASSUME TypeOK, NEW s \in Sessions, LocalsKept(s), row' = row, applied' = applied,
         pc[s] \in Working => pc'[s] \in Working /\ tbl'[s] = tbl[s] /\ op'[s] = op[s],
         pc[s] \notin Working => pc'[s] \notin Working,
         LockOwned
  PROVE  UNCHANGED History!vars
<1>1. ASSUME NEW t \in Tables PROVE ActiveOps(t)' = ActiveOps(t)
  <2>1. CASE tbl[s] = t /\ pc[s] \in Working
    BY <2>1, ActiveBefore, ActiveAfter DEF Held
  <2>. QED
    BY <2>1, ActiveElsewhere
<1>. QED
  BY <1>1 DEF History!vars

\* A step in which s leaves the loop.
LEMMA Leaves ==
  ASSUME TypeOK, NEW s \in Sessions, LocalsKept(s), row' = row, applied' = applied,
         pc[s] \in Working, pc'[s] \notin Working, LockOwned
  PROVE  History!Next
<1>1. PICK u \in Tables : u = tbl[s]
  BY DEF TypeOK
<1>2. ActiveOps(u)' = {}
  BY <1>1, ActiveAfter DEF Held
<1>3. ASSUME NEW t \in Tables, t # u PROVE ActiveOps(t)' = ActiveOps(t)
  BY <1>1, <1>3, ActiveElsewhere
<1>4. History!Leave(u)
  BY <1>1, <1>2, <1>3 DEF History!Leave
<1>. QED
  BY <1>1, <1>4 DEF History!Next

\* A step inside the loop changes nobody's part.
LEMMA StaysActive ==
  ASSUME TypeOK, LockOwned, NEW s \in Sessions, LocalsKept(s), op' = op, tbl' = tbl,
         pc[s] \in Working, pc'[s] \in Working
  PROVE  /\ [t \in Tables |-> ActiveOps(t)]' = [t \in Tables |-> ActiveOps(t)]
         /\ ActiveOps(tbl[s]) = {op[s]}
<1>1. ASSUME NEW t \in Tables PROVE ActiveOps(t)' = ActiveOps(t)
  <2>1. CASE tbl[s] = t
    BY <2>1, ActiveBefore, ActiveAfter DEF Held
  <2>. QED
    BY <2>1, ActiveElsewhere
<1>. QED
  BY <1>1, ActiveBefore DEF Held

LEMMA OneScripts ==
  ASSUME SameRelease, NEW s \in Sessions, NEW t \in Tables
  PROVE  Scripts[t] = UpFiles[s][t]
<1>1. \A x \in Sessions : UpFiles[x][t] = UpFiles[s][t]
  BY DEF SameRelease
<1>2. Scripts[t] = UNION {UpFiles[x][t] : x \in Sessions}
  BY DEF Scripts
<1>. QED
  BY <1>1, <1>2

LEMMA StepImplements ==
  ASSUME SameRelease, LedgerInv, NEW s \in Sessions, Step(s)
  PROVE  History!Next \/ UNCHANGED History!vars
<1> DEFINE t == tbl[s]
<1> DEFINE v == row[t].version
<1> DEFINE c == cur[s]
<1>1. /\ t \in Tables /\ row[t] \in Rows /\ v \in Versions
      /\ UpFiles[s][t] \in SUBSET Nat /\ Scripts[t] = UpFiles[s][t]
      /\ op[s] \in {"up", "down"}
      /\ TypeOK /\ LockOwned /\ LocalsKept(s) /\ Consistent(s)
  BY FilesAssumption, StepKeeps, OneScripts DEF LedgerInv, TypeOK, Rows
<1>. USE <1>1
<1>2. CASE Lock(s) \/ Prepare(s)
  <2>1. /\ row' = row /\ applied' = applied
        /\ pc[s] \notin Working /\ pc'[s] \notin Working
    BY <1>2 DEF Lock, Prepare, db, TypeOK, Working
  <2>. QED
    BY <2>1, Stutters
<1>3. CASE Release(s)
  <2>1. row' = row /\ applied' = applied /\ pc'[s] \notin Working
    BY <1>3 DEF Release, TypeOK, Working
  <2>. QED
    BY <2>1, Stutters, Leaves
<1>4. CASE ReadVersion(s)
  <2>1. /\ row' = row /\ applied' = applied /\ op' = op /\ tbl' = tbl
        /\ pc[s] \notin Working /\ pc[s] \in Held
    BY <1>4 DEF ReadVersion, db, Working, Held
  <2>2. CASE pc'[s] \in Working
    <3>1. ~row[t].dirty
      BY <1>4, <2>2 DEF ReadVersion, Return, TypeOK, Working
    <3>2. PICK u \in Tables : u = t
      OBVIOUS
    <3>3. ActiveOps(u) = {} /\ ActiveOps(u)' = {op[s]}
      BY <2>1, <2>2, <3>2, ActiveBefore, ActiveAfter
    <3>4. ASSUME NEW x \in Tables, x # u PROVE ActiveOps(x)' = ActiveOps(x)
      BY <2>1, <3>2, <3>4, ActiveElsewhere
    <3>5. History!Enter(u, op[s])
      BY <2>1, <3>1, <3>2, <3>3, <3>4 DEF History!Enter
    <3>. QED
      BY <3>5 DEF History!Next
  <2>. QED
    BY <2>1, <2>2, Stutters
<1>5. ASSUME NEW w \in todo[s], Pick(s, w)
      PROVE  History!Next \/ UNCHANGED History!vars
  <2>1. /\ row' = row /\ applied' = applied /\ op' = op /\ tbl' = tbl
        /\ pc[s] \in Working
    BY <1>5 DEF Pick, db, Working
  <2>. QED
    BY <2>1, Stutters, Leaves
<1>6. CASE Finish(s)
  <2>1. row' = row /\ applied' = applied /\ pc[s] \in Working /\ pc'[s] \notin Working
    BY <1>6 DEF Finish, Return, db, TypeOK, Working
  <2>. QED
    BY <2>1, Leaves
<1>7. CASE MarkDirty(s)
  <2>1. /\ pc[s] = "mark" /\ pc'[s] \in {"script", "orphan"}
        /\ op' = op /\ tbl' = tbl /\ applied' = applied
        /\ row' = [row EXCEPT ![t] = Dirty(c)]
    BY <1>7 DEF MarkDirty, Advance, calls, TypeOK
  <2>2. /\ ~row[t].dirty /\ todo[s] = Pending(s, v) /\ First(s, c)
    BY <2>1 DEF Consistent, InLoop
  <2>3. /\ [x \in Tables |-> ActiveOps(x)]' = [x \in Tables |-> ActiveOps(x)]
        /\ ActiveOps(t) = {op[s]}
    BY <2>1, StaysActive DEF Working
  <2>4. c \in Scripts[t] /\ c \in Nat
    BY <2>2 DEF First, Pending, Files
  <2>5. \/ op[s] = "up" /\ c > v /\ \A w \in Scripts[t] : w > v => c <= w
        \/ op[s] = "down" /\ c <= v /\ \A w \in Scripts[t] : w <= v => w <= c
    BY <2>2 DEF First, Pending, Files
  <2>6. History!Announce(t, c)
    BY <2>1, <2>2, <2>3, <2>5 DEF History!Announce, History!Dirty, Dirty
  <2>. QED
    BY <2>4, <2>6 DEF History!Next
<1>8. CASE RunScript(s)
  <2>1. /\ pc[s] = "script" /\ pc'[s] \in {"clean", "orphan"}
        /\ op' = op /\ tbl' = tbl /\ row' = row
        /\ applied' = [applied EXCEPT ![t] = IF op[s] = "up" THEN @ \cup {c} ELSE @ \ {c}]
    BY <1>8 DEF RunScript, Advance, calls, TypeOK
  <2>2. /\ row[t] = Dirty(c) /\ c \in UpFiles[s][t]
        /\ applied[t] = IF op[s] = "up" THEN Below(s, t, c) ELSE UpTo(s, t, c)
    BY <2>1 DEF Consistent, InScript, Files
  <2>3. /\ [x \in Tables |-> ActiveOps(x)]' = [x \in Tables |-> ActiveOps(x)]
        /\ ActiveOps(t) = {op[s]}
    BY <2>1, StaysActive DEF Working
  <2>4. CASE op[s] = "up"
    <3>1. c \notin applied[t]
      BY <2>2, <2>4 DEF Below
    <3>2. History!RunUp(t)
      BY <2>1, <2>2, <2>3, <2>4, <3>1 DEF History!RunUp, Dirty
    <3>. QED
      BY <3>2 DEF History!Next
  <2>5. CASE op[s] = "down"
    <3>1. c \in applied[t]
      BY <2>2, <2>5 DEF UpTo
    <3>2. History!RunDown(t)
      BY <2>1, <2>2, <2>3, <2>5, <3>1 DEF History!RunDown, Dirty
    <3>. QED
      BY <3>2 DEF History!Next
  <2>. QED
    BY <2>4, <2>5
<1>9. CASE MarkClean(s)
  <2>1. PICK w \in CleanVersion(s) : row' = [row EXCEPT ![t] = Clean(w)]
    BY <1>9 DEF MarkClean
  <2>2. /\ pc[s] = "clean" /\ pc'[s] \in {"loop", "orphan"}
        /\ op' = op /\ tbl' = tbl /\ applied' = applied
    BY <1>9, <2>1 DEF MarkClean, Advance, TypeOK
  <2>3. /\ row[t] = Dirty(c) /\ c \in UpFiles[s][t]
        /\ applied[t] = IF op[s] = "up" THEN UpTo(s, t, c) ELSE Below(s, t, c)
    BY <2>2 DEF Consistent, InScript, Files
  <2>4. /\ [x \in Tables |-> ActiveOps(x)]' = [x \in Tables |-> ActiveOps(x)]
        /\ ActiveOps(t) = {op[s]}
    BY <2>2, StaysActive DEF Working
  <2>5. w \in Scripts[t] \cup {-1} /\ w \in applied[t] \cup {-1} /\ \A f \in applied[t] : f <= w
    <3>1. CASE op[s] = "up"
      BY <2>3, <3>1 DEF CleanVersion, UpTo
    <3>2. CASE op[s] = "down"
      BY <2>3, <3>2 DEF CleanVersion, Files, Below
    <3>. QED
      BY <3>1, <3>2
  <2>6. History!Settle(t, w)
    BY <2>1, <2>2, <2>3, <2>4, <2>5 DEF History!Settle, History!Clean, Clean, Dirty
  <2>. QED
    BY <2>5, <2>6 DEF History!Next
<1>. QED
  BY <1>2, <1>3, <1>4, <1>5, <1>6, <1>7, <1>8, <1>9 DEF Step

\* Concurrent and crashing calls of Up and Down, all of one release, implement
\* the sequential history (migrate.go 144-152).
THEOREM Implementation == ASSUME SameRelease PROVE Spec => ImplementsHistory
<1>1. Init => History!Init
  <2>1. ASSUME Init, NEW t \in Tables PROVE ActiveOps(t) = {}
    BY <2>1 DEF Init, ActiveOps, Working
  <2>. QED
    BY <2>1 DEF Init, History!Init, Clean, History!Clean
<1>2. LedgerInv /\ [Next]_vars => [History!Next]_History!vars
  <2>. SUFFICES ASSUME LedgerInv, [Next]_vars
                PROVE  History!Next \/ UNCHANGED History!vars
    OBVIOUS
  <2>1. ASSUME NEW s \in Sessions, Step(s) PROVE History!Next \/ UNCHANGED History!vars
    BY <2>1, StepImplements
  <2>2. ASSUME NEW s \in Sessions,
               \/ \E o \in Ops, t \in Tables : Call(s, o, t)
               \/ LockFails(s) \/ Fail(s) \/ Lose(s)
        PROVE  History!Next \/ UNCHANGED History!vars
    <3>1. /\ TypeOK /\ LockOwned /\ LocalsKept(s) /\ row' = row /\ applied' = applied
      BY <2>2, QuietKeeps DEF LedgerInv
    <3>2. /\ pc[s] \notin Working => pc'[s] \notin Working
          /\ pc[s] \in Working /\ pc'[s] \in Working => tbl'[s] = tbl[s] /\ op'[s] = op[s]
      BY <2>2, <3>1 DEF Call, LockFails, Fail, Return, Lose, calls, TypeOK, Working
    <3>. QED
      BY <3>1, <3>2, Stutters, Leaves
  <2>3. CASE UNCHANGED vars
    BY <2>3 DEF vars, History!vars, ActiveOps
  <2>. QED
    BY <2>1, <2>2, <2>3 DEF Next
<1>. QED
  BY <1>1, <1>2, LedgerInvariant, PTL DEF Spec, ImplementsHistory, History!Spec

(***************************************************************************)
(* Rolling deployments: releases differ, nobody rolls back.                *)
(***************************************************************************)
\* The version is a high-water mark of what is in, and a call that is about to
\* run a script is above it.
HighWater == \A t \in Tables : \A a \in applied[t] : a <= row[t].version

Above(s) ==
  /\ op[s] = "up"
  /\ pc[s] \in {"loop", "mark"} => \A w \in todo[s] : w > row[tbl[s]].version
  /\ pc[s] = "mark" => First(s, cur[s])
  /\ pc[s] \in {"script", "clean"} =>
       /\ row[tbl[s]] = Dirty(cur[s])
       /\ \A w \in todo[s] : w >= cur[s]
  /\ pc[s] = "script" => \A a \in applied[tbl[s]] : a < cur[s]

ClimbInv == /\ TypeOK /\ LockOwned /\ HighWater
            /\ \A s \in Sessions : Above(s)

LEMMA OthersAbove ==
  ASSUME TypeOK, LockOwned, NEW s \in Sessions, LocalsKept(s), TablesKept(s),
         NEW x \in Sessions, x # s, Above(x)
  PROVE  Above(x)'
<1>1. pc[x] \in Held => row'[tbl[x]] = row[tbl[x]] /\ applied'[tbl[x]] = applied[tbl[x]]
  BY KeysAssumption DEF TypeOK, LockOwned, MyKey, TablesKept
<1>2. /\ pc'[x] = pc[x] /\ op'[x] = op[x] /\ tbl'[x] = tbl[x]
      /\ todo'[x] = todo[x] /\ cur'[x] = cur[x]
  BY DEF LocalsKept
<1>. QED
  BY <1>1, <1>2 DEF Above, First, Held, Working, Dirty

LEMMA StepClimbs ==
  ASSUME "down" \notin Ops, ClimbInv, NEW s \in Sessions, Step(s)
  PROVE  HighWater' /\ Above(s)'
<1> DEFINE t == tbl[s]
<1> DEFINE c == cur[s]
<1>1. /\ t \in Tables /\ row[t].version \in Int /\ c \in Int
      /\ todo[s] \in SUBSET Nat /\ applied[t] \in SUBSET Int
      /\ TypeOK /\ HighWater /\ Above(s) /\ op[s] = "up" /\ TablesKept(s)
  BY StepKeeps DEF ClimbInv, TypeOK, Rows, Versions, Above
<1>. USE <1>1
<1>2. CASE Lock(s) \/ Prepare(s) \/ Release(s) \/ Finish(s)
  <2>1. /\ row' = row /\ applied' = applied /\ op'[s] = "up"
        /\ pc'[s] \in {"prepare", "read", "idle", "unlock"}
    BY <1>2 DEF Lock, Prepare, Release, Forget, Finish, Return, db, calls, TypeOK
  <2>. QED
    BY <2>1 DEF HighWater, Above
<1>3. CASE ReadVersion(s)
  <2>1. row' = row /\ applied' = applied /\ op' = op /\ tbl' = tbl
    BY <1>3 DEF ReadVersion, db
  <2>2. \/ pc'[s] = "unlock"
        \/ pc'[s] = "loop" /\ todo'[s] = Pending(s, row[t].version)
    BY <1>3 DEF ReadVersion, Return, TypeOK
  <2>. QED
    BY <2>1, <2>2 DEF HighWater, Above, Pending
<1>4. ASSUME NEW w \in todo[s], Pick(s, w) PROVE HighWater' /\ Above(s)'
  <2>1. row' = row /\ applied' = applied /\ op' = op /\ tbl' = tbl
    BY <1>4 DEF Pick, db
  <2>2. \/ pc'[s] = "unlock"
        \/ /\ pc'[s] = "mark" /\ todo' = todo /\ cur'[s] = w
           /\ pc[s] = "loop" /\ First(s, w)
    BY <1>4 DEF Pick, Return, TypeOK
  <2>. QED
    BY <2>1, <2>2 DEF HighWater, Above, First
<1>5. CASE MarkDirty(s)
  <2>1. /\ pc[s] = "mark" /\ pc'[s] \in {"script", "orphan"}
        /\ op' = op /\ tbl' = tbl /\ todo' = todo /\ cur' = cur /\ applied' = applied
        /\ row'[t] = Dirty(c)
    BY <1>5 DEF MarkDirty, Advance, calls, TypeOK
  <2>2. c \in todo[s] /\ \A w \in todo[s] : c <= w
    BY <2>1 DEF Above, First
  <2>3. c > row[t].version
    BY <2>1, <2>2 DEF Above
  <2>4. \A a \in applied[t] : a < c
    BY <2>3 DEF HighWater
  <2>5. HighWater'
    BY <2>1, <2>4 DEF HighWater, TablesKept, Dirty
  <2>. QED
    BY <2>1, <2>2, <2>4, <2>5 DEF Above, Dirty
<1>6. CASE RunScript(s)
  <2>1. /\ pc[s] = "script" /\ pc'[s] \in {"clean", "orphan"}
        /\ op' = op /\ tbl' = tbl /\ todo' = todo /\ cur' = cur /\ row' = row
        /\ applied'[t] = applied[t] \cup {c}
    BY <1>6 DEF RunScript, Advance, calls, TypeOK
  <2>2. row[t] = Dirty(c) /\ \A a \in applied[t] : a < c
    BY <2>1 DEF Above
  <2>3. HighWater'
    BY <2>1, <2>2 DEF HighWater, TablesKept, Dirty
  <2>. QED
    BY <2>1, <2>3 DEF Above, Dirty
<1>7. CASE MarkClean(s)
  <2>1. /\ pc[s] = "clean" /\ pc'[s] \in {"loop", "orphan"}
        /\ op' = op /\ tbl' = tbl /\ applied' = applied
        /\ todo'[s] = todo[s] \ {c}
        /\ row'[t] = Clean(c)
    BY <1>7 DEF MarkClean, CleanVersion, Advance, TypeOK
  <2>2. row[t] = Dirty(c) /\ \A w \in todo[s] : w >= c
    BY <2>1 DEF Above
  <2>3. HighWater'
    BY <2>1, <2>2 DEF HighWater, TablesKept, Dirty, Clean
  <2>. QED
    BY <2>1, <2>2, <2>3 DEF Above, Clean
<1>. QED
  BY <1>2, <1>3, <1>4, <1>5, <1>6, <1>7 DEF Step

LEMMA NextClimbInv ==
  ASSUME "down" \notin Ops, ClimbInv, [Next]_vars
  PROVE  ClimbInv'
<1>. USE DEF ClimbInv
<1>1. TypeOK' /\ LockOwned'
  BY NextTypeOK, NextLockOwned
<1>2. ASSUME NEW s \in Sessions, LocalsKept(s), TablesKept(s), HighWater', Above(s)'
      PROVE  ClimbInv'
  BY <1>1, <1>2, OthersAbove
<1>3. ASSUME NEW s \in Sessions, Step(s) PROVE ClimbInv'
  BY <1>2, <1>3, StepKeeps, StepClimbs
<1>4. ASSUME NEW s \in Sessions,
             \/ \E o \in Ops, t \in Tables : Call(s, o, t)
             \/ LockFails(s) \/ Fail(s) \/ Lose(s)
      PROVE  ClimbInv'
  <2>1. LocalsKept(s) /\ TablesKept(s) /\ row' = row /\ applied' = applied
    BY <1>4, QuietKeeps
  <2>2. /\ op'[s] = "up"
        /\ \/ pc'[s] \in {"lock", "idle", "unlock"}
           \/ pc' = pc /\ op' = op /\ tbl' = tbl /\ todo' = todo /\ cur' = cur
    BY <1>4, OpsAssumption
    DEF Call, LockFails, Forget, Fail, Return, Lose, calls, TypeOK, Above
  <2>3. Above(s)'
    BY <2>1, <2>2 DEF Above, First
  <2>. QED
    BY <1>2, <2>1, <2>3 DEF HighWater
<1>5. CASE UNCHANGED vars
  BY <1>1, <1>5 DEF vars, HighWater, Above, First
<1>. QED
  BY <1>3, <1>4, <1>5 DEF Next

\* While releases differ and nobody rolls back, no up script ever runs on a
\* schema that already has its effect (migrate.go 52).
THEOREM NeverRunTwice == ASSUME "down" \notin Ops PROVE Spec => []NeverTwice
<1>1. Init => ClimbInv
  BY InitTypeOK DEF Init, ClimbInv, LockOwned, Held, Working, HighWater, Above
<1>2. ClimbInv /\ [Next]_vars => ClimbInv'
  BY NextClimbInv
<1>3. ClimbInv => NeverTwice
  BY DEF ClimbInv, Above, NeverTwice, TypeOK, Versions
<1>. QED
  BY <1>1, <1>2, <1>3, PTL DEF Spec
=============================================================================
