------------------------ MODULE TenantDatabaseProofs ------------------------
(***************************************************************************)
(* Proofs about TenantDatabase, for any number of processes, connections   *)
(* and tenants.                                                            *)
(***************************************************************************)
EXTENDS TenantDatabase, TLAPS

Upping == {"wantUp", "lock"} \cup Locked  \* in a migration of one tenant

\* A worker that holds a connection is its only user, and knows whom it works for.
Held ==
  /\ \A w \in Workers :
       /\ pc[w] \in Holding => conn[w] \in Conns /\ user[conn[w]] = w
       /\ pc[w] \notin Holding => conn[w] = None
       /\ pc[w] \in {"want", "set", "use"} \cup Upping => who[w] \in Tenants
  /\ \A c \in Conns : user[c] # None => conn[user[c]] = c

TInv == TypeOK /\ Held

LEMMA Stages ==
  /\ Waiting \cap Holding = {} /\ Locked \subseteq Holding
  /\ {"idle", "next", "done"} \cap (Waiting \cup Holding) = {}
  BY DEF Waiting, Holding, Locked

LEMMA TInvInit == Init => TInv
  <1> SUFFICES ASSUME Init PROVE TInv
    OBVIOUS
  <1>1. TypeOK
    BY DEF Init, TypeOK
  <1>2. Held
    BY NoneAssumption DEF Init, Held, Holding, Locked, Upping
  <1> QED
    BY <1>1, <1>2 DEF TInv

\* A connection goes back.
LEMMA GivenBack ==
  ASSUME TInv, NEW w \in Workers, pc[w] \in Holding, PutBack(w),
         NEW stage \in {"idle", "next"}, At(w, stage),
         \A v \in Workers \ {w} : who'[v] = who[v]
  PROVE  /\ Held' /\ user' \in [Conns -> Workers \cup {None}]
         /\ conn' \in [Workers -> Conns \cup {None}]
         /\ pc' \in [Workers -> {"idle", "next", "done"} \cup Waiting \cup Holding]
  <1> USE DEF TInv
  <1>1. conn[w] \in Conns /\ user[conn[w]] = w
    BY DEF Held
  <1>2. user' \in [Conns -> Workers \cup {None}] /\ conn' \in [Workers -> Conns \cup {None}]
    BY <1>1 DEF PutBack, TypeOK
  <1>3. pc' \in [Workers -> {"idle", "next", "done"} \cup Waiting \cup Holding]
    BY DEF At, TypeOK
  <1>4. /\ conn'[w] = None /\ pc'[w] = stage
        /\ \A v \in Workers \ {w} : conn'[v] = conn[v] /\ pc'[v] = pc[v]
        /\ \A c \in Conns : user'[c] = IF c = conn[w] THEN None ELSE user[c]
    BY <1>1 DEF PutBack, At, TypeOK
  <1>5. stage \notin Holding \cup Upping \cup {"want", "set", "use"}
    BY DEF Holding, Locked, Upping
  <1>6. ASSUME NEW v \in Workers \ {w}, pc[v] \in Holding PROVE conn[v] # conn[w]
    BY <1>1, <1>6 DEF Held
  <1>7. \A v \in Workers : /\ pc'[v] \in Holding => conn'[v] \in Conns /\ user'[conn'[v]] = v
                           /\ pc'[v] \notin Holding => conn'[v] = None
    BY <1>4, <1>5, <1>6 DEF Held
  <1>8. \A v \in Workers : pc'[v] \in {"want", "set", "use"} \cup Upping => who'[v] \in Tenants
    BY <1>4, <1>5 DEF Held
  <1>9. \A c \in Conns : user'[c] # None => conn'[user'[c]] = c
    BY <1>1, <1>4 DEF Held, TypeOK
  <1> QED
    BY <1>2, <1>3, <1>7, <1>8, <1>9 DEF Held

\* A step of one worker that keeps its hands as they are.
LEMMA HandsKept ==
  ASSUME TInv, NEW w \in Workers, UNCHANGED <<user, conn>>,
         NEW stage \in {"idle", "next", "done"} \cup Waiting \cup Holding, At(w, stage),
         stage \in Holding <=> pc[w] \in Holding,
         stage \in {"want", "set", "use"} \cup Upping => who'[w] \in Tenants,
         \A v \in Workers \ {w} : who'[v] = who[v]
  PROVE  Held' /\ pc' \in [Workers -> {"idle", "next", "done"} \cup Waiting \cup Holding]
  <1> USE DEF TInv
  <1>1. pc'[w] = stage /\ \A v \in Workers \ {w} : pc'[v] = pc[v]
    BY DEF At, TypeOK
  <1>2. pc' \in [Workers -> {"idle", "next", "done"} \cup Waiting \cup Holding]
    BY DEF At, TypeOK
  <1> QED
    BY <1>1, <1>2 DEF Held

LEMMA TInvNext == TInv /\ [Next]_vars => TInv'
  <1> SUFFICES ASSUME TInv, [Next]_vars PROVE TInv'
    OBVIOUS
  <1> USE DEF TInv
  <1>1. ASSUME NEW w \in Workers, NEW t \in Tenants, Request(w, t) PROVE TInv'
    <2>1. Held' /\ pc' \in [Workers -> {"idle", "next", "done"} \cup Waiting \cup Holding]
      BY <1>1, HandsKept, Stages DEF Request, pool, TypeOK, Waiting
    <2> QED
      BY <1>1, <2>1 DEF Request, TypeOK, db, pool
  <1>2. ASSUME NEW w \in Workers, NEW t \in Tenants, MigrateTenant(w, t) PROVE TInv'
    <2>1. Held' /\ pc' \in [Workers -> {"idle", "next", "done"} \cup Waiting \cup Holding]
      BY <1>2, HandsKept, Stages DEF MigrateTenant, pool, TypeOK, Upping, Locked
    <2> QED
      BY <1>2, <2>1 DEF MigrateTenant, TypeOK, db, pool
  <1>3. ASSUME NEW w \in Workers, MigrateAllTenants(w) PROVE TInv'
    <2>1. Held' /\ pc' \in [Workers -> {"idle", "next", "done"} \cup Waiting \cup Holding]
      BY <1>3, HandsKept, Stages DEF MigrateAllTenants, pool, TypeOK, Waiting, Upping, Locked
    <2> QED
      BY <1>3, <2>1 DEF MigrateAllTenants, TypeOK, db, pool
  <1>4. ASSUME NEW w \in Workers, NEW c \in Conns, AcquireConn(w, c) PROVE TInv'
    <2> DEFINE stage == CASE pc[w] = "want" -> "set" [] pc[w] = "wantRows" -> "rows"
                          [] pc[w] = "wantUp" -> "lock"
    <2>1. stage \in {"set", "rows", "lock"} /\ (stage = "set" => pc[w] = "want")
            /\ (stage = "lock" => pc[w] = "wantUp")
      BY <1>4 DEF AcquireConn, Waiting
    <2>2. pc' = [pc EXCEPT ![w] = stage]
      BY <1>4 DEF AcquireConn, At
    <2> HIDE DEF stage
    <2>3. stage \in Holding
      BY <2>1 DEF Holding
    <2>4. user[c] = None /\ pc[w] \notin Holding
      BY <1>4, Stages DEF AcquireConn
    <2>5. /\ \A d \in Conns : user'[d] = IF d = c THEN w ELSE user[d]
          /\ \A v \in Workers \ {w} : conn'[v] = conn[v] /\ pc'[v] = pc[v]
          /\ conn'[w] = c /\ pc'[w] = stage /\ who' = who
      BY <1>4, <2>2 DEF AcquireConn, TypeOK
    <2>6. TypeOK'
      BY <1>4, <2>2, <2>3 DEF AcquireConn, TypeOK, db
    <2>7. \A v \in Workers : /\ pc'[v] \in Holding => conn'[v] \in Conns /\ user'[conn'[v]] = v
                             /\ pc'[v] \notin Holding => conn'[v] = None
      BY <2>3, <2>4, <2>5, NoneAssumption DEF Held
    <2>8. \A v \in Workers : pc'[v] \in {"want", "set", "use"} \cup Upping => who'[v] \in Tenants
      BY <2>1, <2>5 DEF Held, Upping, Locked
    <2>9. \A d \in Conns : user'[d] # None => conn'[user'[d]] = d
      <3>1. ASSUME NEW d \in Conns, d # c, user[d] # None PROVE user[d] # w
        <4>1. conn[w] = None
          BY <2>4 DEF Held
        <4> QED
          BY <3>1, <4>1, NoneAssumption DEF Held
      <3> QED
        BY <2>5, <3>1 DEF Held, TypeOK
    <2> QED
      BY <2>6, <2>7, <2>8, <2>9 DEF Held
  <1>5. ASSUME NEW w \in Workers, TakeLock(w) PROVE TInv'
    <2>1. who[w] \in Tenants /\ conn[w] \in Conns
      BY <1>5 DEF TakeLock, Held, Holding, Upping
    <2>2. Held' /\ pc' \in [Workers -> {"idle", "next", "done"} \cup Waiting \cup Holding]
      BY <1>5, <2>1, HandsKept DEF TakeLock, pool, Holding, Locked
    <2> QED
      BY <1>5, <2>1, <2>2 DEF TakeLock, TypeOK, pool
  <1>6. ASSUME NEW w \in Workers, SetPath(w) PROVE TInv'
    <2>1. who[w] \in Tenants /\ conn[w] \in Conns /\ pc[w] \in Holding
      BY <1>6 DEF SetPath, Held, Holding
    <2>2. CASE Unquoted[who[w]] # Invalid
      <3>1. Unquoted[who[w]] \in Tenants
        BY <2>1, <2>2, UnquotedAssumption
      <3>2. path' = [path EXCEPT ![conn[w]] = Unquoted[who[w]]] /\ At(w, "use")
              /\ UNCHANGED <<db, user, conn, who, todo, listed>>
        BY <1>6, <2>2 DEF SetPath
      <3>3. Held' /\ pc' \in [Workers -> {"idle", "next", "done"} \cup Waiting \cup Holding]
        BY <2>1, <3>2, HandsKept DEF Holding
      <3> QED
        BY <3>1, <3>2, <3>3 DEF TypeOK, db
    <2>3. CASE Unquoted[who[w]] = Invalid
      <3>1. PutBack(w) /\ Forget(w) /\ UNCHANGED <<db, path>>
        BY <1>6, <2>3 DEF SetPath
      <3>2. Held' /\ user' \in [Conns -> Workers \cup {None}]
              /\ conn' \in [Workers -> Conns \cup {None}]
              /\ pc' \in [Workers -> {"idle", "next", "done"} \cup Waiting \cup Holding]
        BY <2>1, <3>1, GivenBack DEF Forget, TypeOK
      <3> QED
        BY <3>1, <3>2 DEF TypeOK, Forget, db
    <2> QED
      BY <2>2, <2>3
  <1>7. ASSUME NEW w \in Workers, EndRequest(w) PROVE TInv'
    <2>1. Held' /\ user' \in [Conns -> Workers \cup {None}]
              /\ conn' \in [Workers -> Conns \cup {None}]
              /\ pc' \in [Workers -> {"idle", "next", "done"} \cup Waiting \cup Holding]
      BY <1>7, GivenBack DEF EndRequest, Forget, TypeOK, Holding
    <2> QED
      BY <1>7, <2>1 DEF EndRequest, TypeOK, Forget, db
  <1>8. ASSUME NEW w \in Workers, ReadTenants(w) PROVE TInv'
    <2>1. Held' /\ user' \in [Conns -> Workers \cup {None}]
              /\ conn' \in [Workers -> Conns \cup {None}]
              /\ pc' \in [Workers -> {"idle", "next", "done"} \cup Waiting \cup Holding]
      BY <1>8, GivenBack DEF ReadTenants, TypeOK, Holding
    <2> QED
      BY <1>8, <2>1, ActiveAssumption DEF ReadTenants, TypeOK, db
  <1>9. ASSUME NEW w \in Workers, NEW t \in Tenants, NextTenant(w, t) PROVE TInv'
    <2>1. Held' /\ pc' \in [Workers -> {"idle", "next", "done"} \cup Waiting \cup Holding]
      BY <1>9, HandsKept, Stages DEF NextTenant, pool, TypeOK, Waiting
    <2> QED
      BY <1>9, <2>1 DEF NextTenant, TypeOK, db, pool
  <1>10. ASSUME NEW w \in Workers, AllDone(w) PROVE TInv'
    <2>1. Held' /\ pc' \in [Workers -> {"idle", "next", "done"} \cup Waiting \cup Holding]
      BY <1>10, HandsKept, Stages DEF AllDone, pool, TypeOK, Upping, Locked
    <2> QED
      BY <1>10, <2>1 DEF AllDone, TypeOK, db, pool
  <1>11. ASSUME NEW w \in Workers, PrepareUp(w) PROVE TInv'
    <2>1. who[w] \in Tenants /\ conn[w] \in Conns /\ pc[w] \in Holding
      BY <1>11 DEF PrepareUp, Held, Holding, Upping, Locked
    <2>2. PICK stage \in {"apply", "fail"} : At(w, stage)
      BY <1>11 DEF PrepareUp
    <2>3. Held' /\ pc' \in [Workers -> {"idle", "next", "done"} \cup Waiting \cup Holding]
      BY <1>11, <2>1, <2>2, HandsKept DEF PrepareUp, Holding, Locked
    <2> QED
      BY <1>11, <2>1, <2>3 DEF PrepareUp, TypeOK, db
  <1>12. ASSUME NEW w \in Workers, ApplyUp(w) PROVE TInv'
    <2>1. who[w] \in Tenants /\ pc[w] \in Holding
      BY <1>12 DEF ApplyUp, Held, Holding, Upping, Locked
    <2>2. PICK stage \in {"unlock", "fail"} : At(w, stage)
      BY <1>12 DEF ApplyUp
    <2>3. Held' /\ pc' \in [Workers -> {"idle", "next", "done"} \cup Waiting \cup Holding]
      BY <1>12, <2>1, <2>2, HandsKept DEF ApplyUp, pool, Holding, Locked
    <2> QED
      BY <1>12, <2>1, <2>3 DEF ApplyUp, TypeOK, pool
  <1>13. ASSUME NEW w \in Workers, ReleaseUp(w) PROVE TInv'
    <2>1. who[w] \in Tenants /\ conn[w] \in Conns /\ pc[w] \in Holding
      BY <1>13 DEF ReleaseUp, Held, Holding, Upping, Locked
    <2>2. PutBack(w) /\ (GoOn(w) \/ Forget(w))
      BY <1>13 DEF ReleaseUp
    <2>3. PICK stage \in {"idle", "next"} : At(w, stage)
      BY <2>2 DEF GoOn, Forget
    <2>4. \A v \in Workers \ {w} : who'[v] = who[v]
      BY <2>2 DEF GoOn, Forget, TypeOK
    <2>5. Held' /\ user' \in [Conns -> Workers \cup {None}]
              /\ conn' \in [Workers -> Conns \cup {None}]
              /\ pc' \in [Workers -> {"idle", "next", "done"} \cup Waiting \cup Holding]
      BY <2>1, <2>2, <2>3, <2>4, GivenBack
    <2>6. path' \in [Conns -> Tenants \cup {None}] /\ lock' \in [Tenants -> Conns \cup {None}]
      BY <1>13, <2>1 DEF ReleaseUp, TypeOK
    <2>7. who' \in [Workers -> Tenants \cup {None}] /\ todo' \in [Workers -> SUBSET Tenants]
            /\ listed' \in [Workers -> SUBSET Tenants]
      BY <2>2 DEF GoOn, Forget, TypeOK
    <2> QED
      BY <1>13, <2>5, <2>6, <2>7 DEF ReleaseUp, TypeOK
  <1>14. ASSUME NEW w \in Workers, Collect(w) \/ AcquireFails(w) PROVE TInv'
    <2>1. pc[w] \notin Holding
      BY <1>14, Stages DEF Collect, AcquireFails
    <2>2. Held' /\ pc' \in [Workers -> {"idle", "next", "done"} \cup Waiting \cup Holding]
      BY <1>14, <2>1, HandsKept, Stages DEF Collect, AcquireFails, Forget, pool, TypeOK, Upping, Locked
    <2> QED
      BY <1>14, <2>2 DEF Collect, AcquireFails, TypeOK, Forget, db, pool
  <1>15. ASSUME NEW w \in Workers, Breaks(w) PROVE TInv'
    <2>1. conn[w] \in Conns /\ pc[w] \in Holding
      BY <1>15 DEF Breaks, Held
    <2>2. Held' /\ user' \in [Conns -> Workers \cup {None}]
              /\ conn' \in [Workers -> Conns \cup {None}]
              /\ pc' \in [Workers -> {"idle", "next", "done"} \cup Waiting \cup Holding]
      BY <1>15, <2>1, GivenBack DEF Breaks, Forget, TypeOK
    <2>3. lock' \in [Tenants -> Conns \cup {None}] /\ path' \in [Conns -> Tenants \cup {None}]
      BY <1>15, <2>1 DEF Breaks, TypeOK
    <2>4. schema' \in [Tenants -> {"absent", "old", "current", "dirty"}]
      BY <1>15 DEF Breaks, TypeOK
    <2> QED
      BY <1>15, <2>2, <2>3, <2>4 DEF Breaks, TypeOK, Forget
  <1>16. CASE UNCHANGED vars
    BY <1>16 DEF vars, TypeOK, Held
  <1> QED
    BY <1>1, <1>2, <1>3, <1>4, <1>5, <1>6, <1>7, <1>8, <1>9, <1>10, <1>11, <1>12, <1>13, <1>14,
       <1>15, <1>16 DEF Next, Progress

\* Type correctness of the pools and their workers (pool.go 21-43, tenant.go 21-38).
THEOREM Typing == Spec => []TypeOK
  <1>1. TInv => TypeOK
    BY DEF TInv
  <1> QED
    BY TInvInit, TInvNext, <1>1, PTL DEF Spec

(***************************************************************************)
(* The advisory locks.                                                     *)
(***************************************************************************)
\* A lock is held by the session of a worker that is between pg_advisory_lock and its
\* release for that very tenant, and such a worker has its lock.
LockInv ==
  /\ \A t \in Tenants, c \in Conns : lock[t] = c =>
       user[c] # None /\ pc[user[c]] \in Locked /\ who[user[c]] = t
  /\ \A w \in Workers : pc[w] \in Locked => lock[who[w]] = conn[w]

\* A step that leaves the locks alone, of a worker without one.
LEMMA LocksKept ==
  ASSUME TInv, LockInv, NEW w \in Workers, pc[w] \notin Locked, pc'[w] \notin Locked,
         UNCHANGED lock,
         \A v \in Workers \ {w} : pc'[v] = pc[v] /\ conn'[v] = conn[v] /\ who'[v] = who[v],
         \A c \in Conns : user[c] \in Workers \ {w} => user'[c] = user[c]
  PROVE  LockInv'
  BY DEF TInv, TypeOK, LockInv

\* A step of a worker with a lock that leaves it where it is.
LEMMA LockStays ==
  ASSUME TInv, LockInv, NEW w \in Workers, pc[w] \in Locked, pc'[w] \in Locked,
         UNCHANGED <<lock, user, conn, who>>,
         \A v \in Workers \ {w} : pc'[v] = pc[v]
  PROVE  LockInv'
  BY DEF TInv, TypeOK, LockInv

\* A step of a worker that gives its connection back, with no lock of its session left.
LEMMA LockGone ==
  ASSUME TInv, LockInv, NEW w \in Workers, pc[w] \in Holding, PutBack(w), pc'[w] \notin Locked,
         \A t \in Tenants : lock'[t] = IF lock[t] = conn[w] THEN None ELSE lock[t],
         \A v \in Workers \ {w} : pc'[v] = pc[v] /\ who'[v] = who[v]
  PROVE  LockInv'
  <1> USE DEF TInv
  <1>1. conn[w] \in Conns /\ user[conn[w]] = w
    BY DEF Held
  <1>2. \A c \in Conns : user'[c] = IF c = conn[w] THEN None ELSE user[c]
    BY <1>1 DEF PutBack, TypeOK
  <1>3. \A v \in Workers \ {w} : conn'[v] = conn[v]
    BY DEF PutBack, TypeOK
  <1>4. ASSUME NEW t \in Tenants, NEW c \in Conns, lock'[t] = c
        PROVE  user'[c] # None /\ pc'[user'[c]] \in Locked /\ who'[user'[c]] = t
    <2>1. lock[t] = c /\ c # conn[w]
      BY <1>4, NoneAssumption
    <2>2. user[c] # None /\ pc[user[c]] \in Locked /\ who[user[c]] = t
      BY <2>1 DEF LockInv
    <2>3. user[c] \in Workers \ {w}
      <3>1. user[c] # w
        BY <2>1, <2>2 DEF Held
      <3> QED
        BY <2>2, <3>1 DEF TypeOK
    <2> QED
      BY <1>2, <2>1, <2>2, <2>3
  <1>5. ASSUME NEW v \in Workers, pc'[v] \in Locked PROVE lock'[who'[v]] = conn'[v]
    <2>1. v # w /\ pc[v] \in Locked /\ pc[v] \in Holding
      BY <1>5, Stages
    <2>2. who[v] \in Tenants /\ conn[v] # conn[w] /\ lock[who[v]] = conn[v]
      BY <1>1, <2>1 DEF Held, LockInv, Upping
    <2> QED
      BY <1>3, <2>1, <2>2
  <1> QED
    BY <1>4, <1>5 DEF LockInv

LEMMA LockInvNext == TInv /\ LockInv /\ [Next]_vars => LockInv'
  <1> SUFFICES ASSUME TInv, LockInv, [Next]_vars PROVE LockInv'
    OBVIOUS
  <1> USE DEF TInv
  <1>1. ASSUME NEW w \in Workers, NEW t \in Tenants, Request(w, t) \/ MigrateTenant(w, t)
        PROVE  LockInv'
    BY <1>1, LocksKept DEF Request, MigrateTenant, At, TypeOK, Locked, db, pool
  <1>2. ASSUME NEW w \in Workers,
               MigrateAllTenants(w) \/ AllDone(w) \/ Collect(w) \/ AcquireFails(w)
        PROVE  LockInv'
    BY <1>2, LocksKept
    DEF MigrateAllTenants, AllDone, Collect, AcquireFails, Forget, At, TypeOK, Locked, Waiting, db, pool
  <1>3. ASSUME NEW w \in Workers, NEW t \in Tenants, NextTenant(w, t) PROVE LockInv'
    BY <1>3, LocksKept DEF NextTenant, At, TypeOK, Locked, db, pool
  <1>4. ASSUME NEW w \in Workers, NEW c \in Conns, AcquireConn(w, c) PROVE LockInv'
    <2>1. pc[w] \notin Locked /\ pc'[w] \in {"set", "rows", "lock"}
      BY <1>4 DEF AcquireConn, Waiting, Locked, At, TypeOK
    <2>2. \A d \in Conns : user[d] \in Workers \ {w} => user'[d] = user[d]
      BY <1>4, NoneAssumption DEF AcquireConn, TypeOK
    <2>3. UNCHANGED <<lock, who>>
            /\ \A v \in Workers \ {w} : pc'[v] = pc[v] /\ conn'[v] = conn[v]
      BY <1>4 DEF AcquireConn, At, TypeOK, db
    <2> QED
      BY <2>1, <2>2, <2>3, LocksKept DEF Locked
  <1>5. ASSUME NEW w \in Workers, TakeLock(w) PROVE LockInv'
    <2>1. who[w] \in Tenants /\ conn[w] \in Conns /\ user[conn[w]] = w
      BY <1>5 DEF TakeLock, Held, Holding, Upping
    <2>2. /\ \A t \in Tenants : lock'[t] = IF t = who[w] THEN conn[w] ELSE lock[t]
          /\ pc'[w] = "prepare" /\ lock[who[w]] = None /\ pc[w] = "lock"
          /\ \A v \in Workers \ {w} : pc'[v] = pc[v]
          /\ UNCHANGED <<user, conn, who>>
      BY <1>5 DEF TakeLock, At, TypeOK, pool
    <2>3. ASSUME NEW t \in Tenants, NEW c \in Conns, lock'[t] = c
          PROVE  user[c] # None /\ pc'[user[c]] \in Locked /\ who[user[c]] = t
      <3>1. CASE t = who[w]
        BY <2>1, <2>2, <2>3, <3>1, NoneAssumption DEF Locked
      <3>2. CASE t # who[w]
        <4>1. user[c] # None /\ pc[user[c]] \in Locked /\ who[user[c]] = t
          BY <2>2, <2>3, <3>2 DEF LockInv
        <4> QED
          BY <2>2, <3>2, <4>1 DEF TypeOK, Locked
      <3> QED
        BY <3>1, <3>2
    <2>4. ASSUME NEW v \in Workers, pc'[v] \in Locked PROVE lock'[who[v]] = conn[v]
      <3>1. CASE v = w
        BY <2>1, <2>2, <3>1
      <3>2. CASE v # w
        <4>1. pc[v] \in Locked /\ who[v] \in Tenants /\ lock[who[v]] = conn[v] /\ conn[v] \in Conns
          BY <2>2, <2>4, <3>2, Stages DEF LockInv, Held, Upping
        <4> QED
          BY <2>2, <4>1, NoneAssumption
      <3> QED
        BY <3>1, <3>2
    <2> QED
      BY <2>2, <2>3, <2>4 DEF LockInv
  <1>6. ASSUME NEW w \in Workers, PrepareUp(w) \/ ApplyUp(w) PROVE LockInv'
    <2>1. pc[w] \in Locked /\ pc'[w] \in Locked /\ \A v \in Workers \ {w} : pc'[v] = pc[v]
      BY <1>6 DEF PrepareUp, ApplyUp, At, TypeOK, Locked
    <2>2. UNCHANGED <<lock, user, conn, who>>
      BY <1>6 DEF PrepareUp, ApplyUp, db, pool
    <2> QED
      BY <2>1, <2>2, LockStays
  <1>7. ASSUME NEW w \in Workers, SetPath(w) PROVE LockInv'
    <2>1. pc[w] \in Holding \ Locked /\ UNCHANGED lock
      BY <1>7 DEF SetPath, Holding, Locked, db
    <2>2. CASE Unquoted[who[w]] # Invalid
      BY <1>7, <2>1, <2>2, LocksKept DEF SetPath, At, TypeOK, Locked
    <2>3. CASE Unquoted[who[w]] = Invalid
      <3>1. PutBack(w) /\ pc'[w] \notin Locked
              /\ \A v \in Workers \ {w} : pc'[v] = pc[v] /\ who'[v] = who[v]
        BY <1>7, <2>3 DEF SetPath, Forget, At, TypeOK, Locked
      <3>2. \A c \in Conns : user[c] \in Workers \ {w} => user'[c] = user[c]
        BY <2>1, <3>1 DEF PutBack, Held, TypeOK
      <3>3. \A v \in Workers \ {w} : conn'[v] = conn[v]
        BY <3>1 DEF PutBack, TypeOK
      <3> QED
        BY <2>1, <3>1, <3>2, <3>3, LocksKept
    <2> QED
      BY <2>2, <2>3
  <1>8. ASSUME NEW w \in Workers, EndRequest(w) \/ ReadTenants(w) PROVE LockInv'
    <2>1. pc[w] \in Holding \ Locked /\ PutBack(w) /\ UNCHANGED lock
      BY <1>8 DEF EndRequest, ReadTenants, Holding, Locked, db
    <2>2. pc'[w] \notin Locked
            /\ \A v \in Workers \ {w} : pc'[v] = pc[v] /\ who'[v] = who[v]
      BY <1>8 DEF EndRequest, ReadTenants, Forget, At, TypeOK, Locked
    <2>3. \A c \in Conns : user[c] \in Workers \ {w} => user'[c] = user[c]
      BY <2>1 DEF PutBack, Held, TypeOK
    <2>4. \A v \in Workers \ {w} : conn'[v] = conn[v]
      BY <2>1 DEF PutBack, TypeOK
    <2> QED
      BY <2>1, <2>2, <2>3, <2>4, LocksKept
  <1>9. ASSUME NEW w \in Workers, ReleaseUp(w) PROVE LockInv'
    <2>1. pc[w] \in Locked /\ pc[w] \in Holding /\ who[w] \in Tenants /\ lock[who[w]] = conn[w]
      BY <1>9, Stages DEF ReleaseUp, Locked, Held, Upping, LockInv
    <2>2. PutBack(w) /\ lock' = [lock EXCEPT ![who[w]] = None]
      BY <1>9 DEF ReleaseUp
    <2>3. pc'[w] \in {"next", "idle"}
            /\ \A v \in Workers \ {w} : pc'[v] = pc[v] /\ who'[v] = who[v]
      BY <1>9 DEF ReleaseUp, GoOn, Forget, At, TypeOK
    <2>4. \A t \in Tenants : lock[t] = conn[w] => t = who[w]
      <3>1. conn[w] \in Conns /\ user[conn[w]] = w
        BY <2>1 DEF Held
      <3> QED
        BY <3>1 DEF LockInv
    <2>5. \A t \in Tenants : lock'[t] = IF lock[t] = conn[w] THEN None ELSE lock[t]
      BY <2>1, <2>2, <2>4 DEF TypeOK
    <2> QED
      BY <2>1, <2>2, <2>3, <2>5, LockGone DEF Locked
  <1>10. ASSUME NEW w \in Workers, Breaks(w) PROVE LockInv'
    <2>1. pc[w] \in Holding /\ PutBack(w)
      BY <1>10 DEF Breaks
    <2>2. pc'[w] = "idle" /\ \A v \in Workers \ {w} : pc'[v] = pc[v] /\ who'[v] = who[v]
      BY <1>10 DEF Breaks, Forget, At, TypeOK
    <2>3. \A t \in Tenants : lock'[t] = IF lock[t] = conn[w] THEN None ELSE lock[t]
      BY <1>10 DEF Breaks
    <2> QED
      BY <2>1, <2>2, <2>3, LockGone DEF Locked
  <1>11. CASE UNCHANGED vars
    BY <1>11 DEF vars, LockInv
  <1> QED
    BY <1>1, <1>2, <1>3, <1>4, <1>5, <1>6, <1>7, <1>8, <1>9, <1>10, <1>11 DEF Next, Progress

\* No session goes back to the pool with an advisory lock, however its migration ends
\* (migrate.go 150-153).
THEOREM NoLockIsPooled == Spec => []PooledIsUnlocked
  <1>1. Init => LockInv
    BY NoneAssumption DEF Init, LockInv, Locked
  <1>2. LockInv => PooledIsUnlocked
    BY DEF LockInv, PooledIsUnlocked
  <1> QED
    BY TInvInit, TInvNext, LockInvNext, <1>1, <1>2, PTL DEF Spec

(***************************************************************************)
(* The search_path.                                                        *)
(***************************************************************************)
\* A step that touches no other session than its worker's.
LEMMA OthersKeepTheirPath ==
  ASSUME TInv, OwnSchema, NEW w \in Workers,
         \A v \in Workers \ {w} : pc'[v] = pc[v] /\ conn'[v] = conn[v] /\ who'[v] = who[v],
         \A c \in Conns : c # conn[w] => path'[c] = path[c],
         pc'[w] = "use" => path'[conn'[w]] = who'[w]
  PROVE  OwnSchema'
  <1> SUFFICES ASSUME NEW v \in Workers, v # w, pc'[v] = "use" PROVE path'[conn'[v]] = who'[v]
    BY DEF OwnSchema
  <1>1. pc[v] = "use" /\ pc[v] \in Holding
    BY DEF Holding
  <1>2. conn[v] \in Conns /\ user[conn[v]] = v
    BY <1>1 DEF TInv, Held
  <1>3. conn[v] # conn[w]
    <2>1. CASE pc[w] \in Holding
      BY <1>2, <2>1 DEF TInv, Held
    <2>2. CASE pc[w] \notin Holding
      BY <1>2, <2>2, NoneAssumption DEF TInv, Held
    <2> QED
      BY <2>1, <2>2
  <1> QED
    BY <1>1, <1>2, <1>3 DEF OwnSchema

\* Every query of a request goes to the schema of its tenant, whoever had its connection
\* before, if the name without quotes is that schema or none at all (tenant.go 12-38).
THEOREM EveryoneInTheirSchema ==
  ASSUME \A t \in Tenants : Unquoted[t] \in {t, Invalid}
  PROVE  Spec => []OwnSchema
  <1>1. Init => OwnSchema
    BY DEF Init, OwnSchema
  <1>2. TInv /\ OwnSchema /\ [Next]_vars => OwnSchema'
    <2> SUFFICES ASSUME TInv, OwnSchema, [Next]_vars PROVE OwnSchema'
      OBVIOUS
    <2> USE DEF TInv
    <2>1. ASSUME NEW w \in Workers, NEW t \in Tenants,
                 Request(w, t) \/ MigrateTenant(w, t) \/ NextTenant(w, t)
          PROVE  OwnSchema'
      BY <2>1, OthersKeepTheirPath DEF Request, MigrateTenant, NextTenant, At, TypeOK, pool
    <2>2. ASSUME NEW w \in Workers,
                 \/ MigrateAllTenants(w) \/ AllDone(w) \/ Collect(w) \/ AcquireFails(w)
                 \/ TakeLock(w) \/ ApplyUp(w)
          PROVE  OwnSchema'
      BY <2>2, OthersKeepTheirPath
      DEF MigrateAllTenants, AllDone, Collect, AcquireFails, TakeLock, ApplyUp, Forget, At, TypeOK, pool
    <2>3. ASSUME NEW w \in Workers, NEW c \in Conns, AcquireConn(w, c) PROVE OwnSchema'
      <3>1. pc'[w] \in {"set", "rows", "lock"}
        BY <2>3 DEF AcquireConn, Waiting, At, TypeOK
      <3>2. \A v \in Workers \ {w} : pc'[v] = pc[v] /\ conn'[v] = conn[v] /\ who'[v] = who[v]
        BY <2>3 DEF AcquireConn, At, TypeOK
      <3>3. path' = path
        BY <2>3 DEF AcquireConn
      <3> QED
        BY <3>1, <3>2, <3>3, OthersKeepTheirPath
    <2>4. ASSUME NEW w \in Workers, SetPath(w) PROVE OwnSchema'
      <3>1. who[w] \in Tenants /\ conn[w] \in Conns
        BY <2>4 DEF SetPath, Held, Holding
      <3>2. CASE Unquoted[who[w]] # Invalid
        <4>1. path' = [path EXCEPT ![conn[w]] = who[w]] /\ UNCHANGED <<conn, who>>
          BY <2>4, <3>1, <3>2 DEF SetPath
        <4>2. \A v \in Workers \ {w} : pc'[v] = pc[v]
          BY <2>4, <3>2 DEF SetPath, At, TypeOK
        <4> QED
          BY <3>1, <4>1, <4>2, OthersKeepTheirPath DEF TypeOK
      <3>3. CASE Unquoted[who[w]] = Invalid
        <4>1. PutBack(w) /\ Forget(w) /\ path' = path
          BY <2>4, <3>3 DEF SetPath
        <4> QED
          BY <4>1, OthersKeepTheirPath DEF PutBack, Forget, At, TypeOK
      <3> QED
        BY <3>2, <3>3
    <2>5. ASSUME NEW w \in Workers, EndRequest(w) \/ ReadTenants(w) PROVE OwnSchema'
      BY <2>5, OthersKeepTheirPath DEF EndRequest, ReadTenants, PutBack, Forget, At, TypeOK
    <2>6. ASSUME NEW w \in Workers, PrepareUp(w) PROVE OwnSchema'
      <3>1. pc'[w] \in {"apply", "fail"} /\ \A v \in Workers \ {w} : pc'[v] = pc[v]
        BY <2>6 DEF PrepareUp, At, TypeOK
      <3>2. UNCHANGED <<conn, who>> /\ \A c \in Conns : c # conn[w] => path'[c] = path[c]
        BY <2>6 DEF PrepareUp, TypeOK
      <3> QED
        BY <3>1, <3>2, OthersKeepTheirPath
    <2>7. ASSUME NEW w \in Workers, ReleaseUp(w) \/ Breaks(w) PROVE OwnSchema'
      <3>1. \A c \in Conns : c # conn[w] => path'[c] = path[c]
        BY <2>7 DEF ReleaseUp, Breaks, TypeOK
      <3>2. PutBack(w) /\ (GoOn(w) \/ Forget(w))
        BY <2>7 DEF ReleaseUp, Breaks
      <3>3. pc'[w] \in {"idle", "next"}
              /\ \A v \in Workers \ {w} : pc'[v] = pc[v] /\ who'[v] = who[v] /\ conn'[v] = conn[v]
        BY <3>2 DEF PutBack, GoOn, Forget, At, TypeOK
      <3> QED
        BY <3>1, <3>3, OthersKeepTheirPath
    <2>8. CASE UNCHANGED vars
      BY <2>8 DEF vars, OwnSchema
    <2> QED
      BY <2>1, <2>2, <2>3, <2>4, <2>5, <2>6, <2>7, <2>8 DEF Next, Progress
  <1> QED
    BY TInvInit, TInvNext, <1>1, <1>2, PTL DEF Spec

(***************************************************************************)
(* What nil means.                                                         *)
(***************************************************************************)
\* Between its query and its return a call has migrated what is no longer on its list,
\* and a schema that is current stays so.
Migrated ==
  \A w \in Workers :
    /\ pc[w] \in {"next", "done"} \cup Upping =>
         \A t \in listed[w] : t \in todo[w] \/ schema[t] = "current"
    /\ pc[w] = "unlock" => schema[who[w]] = "current"
    /\ pc[w] = "done" => todo[w] = {}

LEMMA MigratedNext == TInv /\ Migrated /\ [Next]_vars => Migrated'
  <1> SUFFICES ASSUME TInv, Migrated, [Next]_vars PROVE Migrated'
    OBVIOUS
  <1> USE DEF TInv
  <1>1. \A t \in Tenants : schema[t] = "current" => schema'[t] = "current"
    <2>1. ASSUME NEW w \in Workers, ApplyUp(w) \/ Breaks(w)
          PROVE  \A t \in Tenants : schema[t] = "current" => schema'[t] = "current"
      BY <2>1 DEF ApplyUp, Breaks, TypeOK
    <2>2. CASE UNCHANGED schema
      BY <2>2
    <2>3. (\E w \in Workers : ApplyUp(w) \/ Breaks(w)) \/ UNCHANGED schema
      BY DEF Next, Progress, vars, db, Request, MigrateTenant, MigrateAllTenants, AcquireConn, TakeLock,
         SetPath, EndRequest, ReadTenants, NextTenant, AllDone, PrepareUp, ReleaseUp, Collect, AcquireFails
    <2> QED
      BY <2>1, <2>2, <2>3
  <1>2. ASSUME NEW w \in Workers,
               \A v \in Workers \ {w} :
                 pc'[v] = pc[v] /\ who'[v] = who[v] /\ todo'[v] = todo[v] /\ listed'[v] = listed[v],
               pc'[w] \in {"next", "done"} \cup Upping =>
                 \A t \in listed'[w] : t \in todo'[w] \/ schema'[t] = "current",
               pc'[w] = "unlock" => schema'[who'[w]] = "current",
               pc'[w] = "done" => todo'[w] = {}
        PROVE  Migrated'
    <2> SUFFICES ASSUME NEW v \in Workers, v # w
                 PROVE  /\ pc[v] \in {"next", "done"} \cup Upping =>
                             \A t \in listed[v] : t \in todo[v] \/ schema'[t] = "current"
                        /\ pc[v] = "unlock" => schema'[who[v]] = "current"
                        /\ pc[v] = "done" => todo[v] = {}
      BY <1>2 DEF Migrated
    <2>1. pc[v] = "unlock" => who[v] \in Tenants
      BY DEF Held, Upping, Locked
    <2> QED
      BY <1>1, <2>1 DEF Migrated, TypeOK
  <1>3. ASSUME NEW w \in Workers,
               \/ \E t \in Tenants : Request(w, t) \/ MigrateTenant(w, t)
               \/ MigrateAllTenants(w) \/ Collect(w) \/ AcquireFails(w) \/ ReadTenants(w)
               \/ SetPath(w) \/ EndRequest(w) \/ Breaks(w)
        PROVE  Migrated'
    <2>1. \A v \in Workers \ {w} :
            pc'[v] = pc[v] /\ who'[v] = who[v] /\ todo'[v] = todo[v] /\ listed'[v] = listed[v]
      BY <1>3 DEF Request, MigrateTenant, MigrateAllTenants, Collect, AcquireFails, ReadTenants,
           SetPath, EndRequest, Breaks, Forget, At, TypeOK
    <2>2. \/ pc'[w] \in {"want", "wantRows", "idle", "use"}
          \/ pc'[w] = "next" /\ listed'[w] = todo'[w]
      <3>1. CASE \E t \in Tenants : MigrateTenant(w, t)
        BY <3>1 DEF MigrateTenant, At, TypeOK
      <3>2. CASE ReadTenants(w)
        BY <3>2 DEF ReadTenants, At, TypeOK
      <3>3. CASE \/ \E t \in Tenants : Request(w, t)
                 \/ MigrateAllTenants(w) \/ Collect(w) \/ AcquireFails(w)
                 \/ SetPath(w) \/ EndRequest(w) \/ Breaks(w)
        BY <3>3 DEF Request, MigrateAllTenants, Collect, AcquireFails, SetPath, EndRequest, Breaks,
             Forget, At, TypeOK
      <3> QED
        BY <1>3, <3>1, <3>2, <3>3
    <2> QED
      BY <1>2, <2>1, <2>2 DEF Upping, Locked
  <1>4. ASSUME NEW w \in Workers, NEW c \in Conns, AcquireConn(w, c) PROVE Migrated'
    <2>1. /\ UNCHANGED <<who, todo, listed>> /\ \A v \in Workers \ {w} : pc'[v] = pc[v]
          /\ schema' = schema
      BY <1>4 DEF AcquireConn, At, TypeOK, db
    <2>2. pc'[w] \in {"set", "rows"} \/ (pc'[w] = "lock" /\ pc[w] = "wantUp")
      BY <1>4 DEF AcquireConn, Waiting, At, TypeOK
    <2> QED
      BY <1>2, <2>1, <2>2 DEF Migrated, Upping, Locked
  <1>5. ASSUME NEW w \in Workers,
               AllDone(w) \/ TakeLock(w) \/ PrepareUp(w) \/ \E t \in Tenants : NextTenant(w, t)
        PROVE  Migrated'
    <2>1. UNCHANGED <<todo, listed, schema>>
      BY <1>5 DEF AllDone, TakeLock, PrepareUp, NextTenant, db
    <2>2. \A v \in Workers \ {w} : pc'[v] = pc[v] /\ who'[v] = who[v]
      BY <1>5 DEF AllDone, TakeLock, PrepareUp, NextTenant, At, TypeOK
    <2>3. /\ pc[w] \in {"next", "lock", "prepare"}
          /\ pc'[w] \in {"done", "prepare", "apply", "fail", "wantUp"}
          /\ pc'[w] = "done" => todo[w] = {}
      BY <1>5 DEF AllDone, TakeLock, PrepareUp, NextTenant, At, TypeOK
    <2> QED
      BY <1>2, <2>1, <2>2, <2>3 DEF Migrated, Upping, Locked
  <1>6. ASSUME NEW w \in Workers, ApplyUp(w) PROVE Migrated'
    <2>1. who[w] \in Tenants
      BY <1>6 DEF ApplyUp, Held, Upping, Locked
    <2>2. /\ UNCHANGED <<who, todo, listed>> /\ \A v \in Workers \ {w} : pc'[v] = pc[v]
          /\ pc'[w] \in {"unlock", "fail"} /\ (pc'[w] = "unlock" => schema'[who[w]] = "current")
      BY <1>6, <2>1 DEF ApplyUp, At, TypeOK
    <2>3. \A t \in listed[w] : t \in todo[w] \/ schema'[t] = "current"
      <3>1. pc[w] = "apply"
        BY <1>6 DEF ApplyUp
      <3> QED
        BY <1>1, <3>1 DEF Migrated, Upping, Locked, TypeOK
    <2> QED
      BY <1>2, <2>2, <2>3
  <1>7. ASSUME NEW w \in Workers, ReleaseUp(w) PROVE Migrated'
    <2>1. schema' = schema /\ pc[w] \in {"unlock", "fail"}
      BY <1>7 DEF ReleaseUp
    <2>2. CASE pc[w] = "unlock"
      <3>1. GoOn(w)
        BY <1>7, <2>2 DEF ReleaseUp
      <3>2. /\ pc'[w] = "next" /\ todo'[w] = todo[w] \ {who[w]} /\ listed' = listed
            /\ \A v \in Workers \ {w} : pc'[v] = pc[v] /\ who'[v] = who[v] /\ todo'[v] = todo[v]
        BY <3>1 DEF GoOn, At, TypeOK
      <3>3. schema[who[w]] = "current" /\ \A t \in listed[w] : t \in todo[w] \/ schema[t] = "current"
        BY <2>2 DEF Migrated, Upping, Locked
      <3> QED
        BY <1>2, <2>1, <3>2, <3>3
    <2>3. CASE pc[w] = "fail"
      <3>1. Forget(w)
        BY <1>7, <2>3 DEF ReleaseUp
      <3>2. /\ pc'[w] = "idle"
            /\ \A v \in Workers \ {w} : pc'[v] = pc[v] /\ who'[v] = who[v] /\ todo'[v] = todo[v]
                                         /\ listed'[v] = listed[v]
        BY <3>1 DEF Forget, At, TypeOK
      <3> QED
        BY <1>2, <3>2 DEF Upping, Locked
    <2> QED
      BY <2>1, <2>2, <2>3
  <1>8. CASE UNCHANGED vars
    BY <1>8 DEF vars, Migrated
  <1> QED
    BY <1>3, <1>4, <1>5, <1>6, <1>7, <1>8 DEF Next, Progress

\* A nil error of MigrateAllTenants or MigrateTenant: the schema of every tenant it set
\* out to migrate is current, and stays so (multitenant.go 33-39).
THEOREM NilIsEarned == Spec => []NilMeansMigrated
  <1>1. Init => Migrated
    BY DEF Init, Migrated, Upping, Locked
  <1>2. Migrated => NilMeansMigrated
    BY DEF Migrated, NilMeansMigrated
  <1> QED
    BY TInvInit, TInvNext, MigratedNext, <1>1, <1>2, PTL DEF Spec
=============================================================================
