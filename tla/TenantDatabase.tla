--------------------------- MODULE TenantDatabase ---------------------------
(***************************************************************************)
(* The connections of database.NewPool as the workers of several processes *)
(* share them: requests take one through AcquireWithTenant                 *)
(* (database/tenant.go), and migrations through MigrateAllTenants and      *)
(* MigrateTenant (database/multitenant/multitenant.go), which call         *)
(* migrate.Up once per tenant.                                             *)
(*                                                                         *)
(* A pooled connection is a database session: its search_path and its      *)
(* advisory locks stay with it when it goes back to the pool.  What Up     *)
(* does between its lock and its release is Migrate.tla; here it is one    *)
(* step with the outcomes that module allows.                              *)
(***************************************************************************)
EXTENDS FiniteSets

CONSTANTS Workers,   \* goroutines
          Conns,     \* pooled connections of all the processes
          Pool,      \* [Workers -> SUBSET Conns]: the pool of the worker's process
          Tenants,
          Active,    \* tenants whose row in public.tenants is ACTIVE
          Present,   \* tenants whose schema somebody has created; Up creates none
          Calls,     \* [Workers -> SUBSET {"request", "all", "one"}]: what each calls
          Unquoted,  \* [Tenants -> Tenants \cup {Invalid}]: the tenant whose schema
                     \* the server takes ah_<tenant> for when it is not quoted
          Invalid,   \* a name that is no SQL identifier unless it is quoted
          None

ASSUME PoolAssumption == Pool \in [Workers -> SUBSET Conns]
ASSUME ActiveAssumption == Active \subseteq Tenants /\ Present \subseteq Tenants
ASSUME CallsAssumption == Calls \in [Workers -> SUBSET {"request", "all", "one"}]
ASSUME UnquotedAssumption == Unquoted \in [Tenants -> Tenants \cup {Invalid}]
ASSUME NoneAssumption == None \notin Workers \cup Conns \cup Tenants

VARIABLES
  \* The database.
  schema,   \* what is in the schema of each tenant
  lock,     \* the session that has each schema's advisory lock
  \* The pools.
  user,     \* the worker that has each connection
  path,     \* the tenant whose schema leads the search_path of the session
  \* The workers.
  pc, conn, who,
  todo,     \* tenants MigrateAllTenants has left
  listed    \* ghost: tenants of the query's result

db   == <<schema, lock>>
pool == <<user, path>>
vars == <<schema, lock, user, path, pc, conn, who, todo, listed>>

Waiting  == {"want", "wantRows", "wantUp"}      \* in pool.Acquire
Locked   == {"prepare", "apply", "unlock", "fail"}
Holding  == {"set", "use", "rows", "lock"} \cup Locked

TypeOK ==
  /\ schema \in [Tenants -> {"absent", "old", "current", "dirty"}]
  /\ lock \in [Tenants -> Conns \cup {None}]
  /\ user \in [Conns -> Workers \cup {None}]
  /\ path \in [Conns -> Tenants \cup {None}]
  /\ pc \in [Workers -> {"idle", "next", "done"} \cup Waiting \cup Holding]
  /\ conn \in [Workers -> Conns \cup {None}]
  /\ who \in [Workers -> Tenants \cup {None}]
  /\ todo \in [Workers -> SUBSET Tenants]
  /\ listed \in [Workers -> SUBSET Tenants]

Init ==
  /\ schema = [t \in Tenants |-> IF t \in Present THEN "old" ELSE "absent"]
  /\ lock = [t \in Tenants |-> None]
  /\ user = [c \in Conns |-> None]
  /\ path = [c \in Conns |-> None]
  /\ pc = [w \in Workers |-> "idle"]
  /\ conn = [w \in Workers |-> None]
  /\ who = [w \in Workers |-> None]
  /\ todo = [w \in Workers |-> {}]
  /\ listed = [w \in Workers |-> {}]

(***************************************************************************)
(* The pool.                                                               *)
(***************************************************************************)
At(w, stage) == pc' = [pc EXCEPT ![w] = stage]

\* pgxpool hands out a connection of the worker's process that is free.
AcquireConn(w, c) ==
  /\ pc[w] \in Waiting
  /\ c \in Pool[w] /\ user[c] = None
  /\ user' = [user EXCEPT ![c] = w]
  /\ conn' = [conn EXCEPT ![w] = c]
  /\ At(w, CASE pc[w] = "want" -> "set" [] pc[w] = "wantRows" -> "rows"
             [] pc[w] = "wantUp" -> "lock")
  /\ UNCHANGED <<db, path, who, todo, listed>>

\* conn.Release: the session goes back as it is.
PutBack(w) == /\ user' = [user EXCEPT ![conn[w]] = None]
              /\ conn' = [conn EXCEPT ![w] = None]

\* The call is over: nothing of it is left.
Forget(w) == /\ At(w, "idle")
             /\ who' = [who EXCEPT ![w] = None]
             /\ todo' = [todo EXCEPT ![w] = {}]
             /\ listed' = [listed EXCEPT ![w] = {}]

\* The context ends while the worker waits for a connection.
AcquireFails(w) ==
  /\ pc[w] \in Waiting
  /\ Forget(w)
  /\ UNCHANGED <<db, pool, conn>>

\* The connection breaks under the worker, or its context ends in a statement:
\* Release destroys it, the server ends the session, and the pool replaces it.
\* A script that was running leaves its dirty mark.
Breaks(w) ==
  /\ pc[w] \in Holding \ {"unlock", "fail"}
  /\ lock' = [t \in Tenants |-> IF lock[t] = conn[w] THEN None ELSE lock[t]]
  /\ schema' = [t \in Tenants |->
                  IF pc[w] = "apply" /\ t = who[w] /\ schema[t] = "old"
                  THEN "dirty" ELSE schema[t]]
  /\ path' = [path EXCEPT ![conn[w]] = None]
  /\ PutBack(w)
  /\ Forget(w)

(***************************************************************************)
(* AcquireWithTenant.                                                      *)
(***************************************************************************)
\* A request with a tenant in its context; without one the call returns an
\* error and touches nothing.
Request(w, t) ==
  /\ pc[w] = "idle" /\ "request" \in Calls[w]
  /\ who' = [who EXCEPT ![w] = t]
  /\ At(w, "want")
  /\ UNCHANGED <<db, pool, conn, todo, listed>>

\* Fault: a connection that has a search_path is taken to have the right one.
SetPathOnce(w) ==
  /\ pc[w] = "set"
  /\ path' = [path EXCEPT ![conn[w]] = IF @ = None THEN Unquoted[who[w]] ELSE @]
  /\ At(w, "use")
  /\ UNCHANGED <<db, user, conn, who, todo, listed>>

\* SET search_path TO ah_<tenant>, public, with the name as it is.  The server
\* accepts a schema that does not exist.
SetPath(w) ==
  /\ pc[w] = "set"
  /\ \/ /\ Unquoted[who[w]] # Invalid
        /\ path' = [path EXCEPT ![conn[w]] = Unquoted[who[w]]]
        /\ At(w, "use")
        /\ UNCHANGED <<user, conn, who, todo, listed>>
     \/ /\ Unquoted[who[w]] = Invalid
        /\ PutBack(w)
        /\ Forget(w)
        /\ UNCHANGED path
  /\ UNCHANGED db

\* The request has run its queries and calls release.
EndRequest(w) ==
  /\ pc[w] = "use"
  /\ PutBack(w)
  /\ Forget(w)
  /\ UNCHANGED <<db, path>>

(***************************************************************************)
(* MigrateAllTenants and MigrateTenant.                                    *)
(***************************************************************************)
MigrateAllTenants(w) ==
  /\ pc[w] = "idle" /\ "all" \in Calls[w]
  /\ At(w, "wantRows")
  /\ UNCHANGED <<db, pool, conn, who, todo, listed>>

\* Fault: the rows are left open until the function returns.
ReadTenantsOpen(w) ==
  /\ pc[w] = "rows"
  /\ todo' = [todo EXCEPT ![w] = Active]
  /\ listed' = [listed EXCEPT ![w] = Active]
  /\ At(w, "next")
  /\ UNCHANGED <<db, pool, conn, who>>

\* The result of the query is read to its end, which gives its connection back
\* before the first migration asks for one.
ReadTenants(w) ==
  /\ pc[w] = "rows"
  /\ todo' = [todo EXCEPT ![w] = Active]
  /\ listed' = [listed EXCEPT ![w] = Active]
  /\ PutBack(w)
  /\ At(w, "next")
  /\ UNCHANGED <<db, path, who>>

\* MigrateTenant is the loop for one tenant that the caller names.
MigrateTenant(w, t) ==
  /\ pc[w] = "idle" /\ "one" \in Calls[w]
  /\ todo' = [todo EXCEPT ![w] = {t}]
  /\ listed' = [listed EXCEPT ![w] = {t}]
  /\ At(w, "next")
  /\ UNCHANGED <<db, pool, conn, who>>

\* The query has no ORDER BY: the tenants come in any order.
NextTenant(w, t) ==
  /\ pc[w] = "next" /\ t \in todo[w]
  /\ who' = [who EXCEPT ![w] = t]
  /\ At(w, "wantUp")
  /\ UNCHANGED <<db, pool, conn, todo, listed>>

AllDone(w) ==
  /\ pc[w] = "next" /\ todo[w] = {}
  /\ At(w, "done")
  /\ UNCHANGED <<db, pool, conn, who, todo, listed>>

\* migrate.Up: pg_advisory_lock on the tenant's schema, with the connection held.
TakeLock(w) ==
  /\ pc[w] = "lock" /\ lock[who[w]] = None
  /\ lock' = [lock EXCEPT ![who[w]] = conn[w]]
  /\ At(w, "prepare")
  /\ UNCHANGED <<schema, pool, conn, who, todo, listed>>

\* migrate.Up: the search_path, quoted, and the version table, which cannot be
\* created in a schema that is not there; a dirty version is refused.
PrepareUp(w) ==
  /\ pc[w] = "prepare"
  /\ path' = [path EXCEPT ![conn[w]] = who[w]]
  /\ \/ /\ schema[who[w]] \in {"old", "current"}
        /\ At(w, "apply")
     \/ /\ schema[who[w]] \in {"absent", "dirty"}
        /\ At(w, "fail")
  /\ UNCHANGED <<db, user, conn, who, todo, listed>>

\* migrate.Up: the scripts run, or one fails and leaves the version dirty.  A
\* schema that is current has none to run.
ApplyUp(w) ==
  /\ pc[w] = "apply"
  /\ \/ /\ schema' = [schema EXCEPT ![who[w]] = "current"]
        /\ At(w, "unlock")
     \/ /\ schema[who[w]] = "old"
        /\ schema' = [schema EXCEPT ![who[w]] = "dirty"]
        /\ At(w, "fail")
  /\ UNCHANGED <<lock, pool, conn, who, todo, listed>>

\* What follows a migration: the next tenant, or, after an error, the end.
GoOn(w) == /\ todo' = [todo EXCEPT ![w] = @ \ {who[w]}]
           /\ who' = [who EXCEPT ![w] = None]
           /\ At(w, "next")
           /\ UNCHANGED listed

\* Fault: a tenant that fails is logged, and the loop goes on.
ReleaseUpAndGoOn(w) ==
  /\ pc[w] \in {"unlock", "fail"}
  /\ lock' = [lock EXCEPT ![who[w]] = None]
  /\ PutBack(w)
  /\ GoOn(w)
  /\ UNCHANGED <<schema, path>>

\* Fault: the connection is released and its lock is not.
ReleaseConnOnly(w) ==
  /\ pc[w] \in {"unlock", "fail"}
  /\ PutBack(w)
  /\ IF pc[w] = "unlock" THEN GoOn(w) ELSE Forget(w)
  /\ UNCHANGED <<db, path>>

\* migrate.Up's deferred release, and the caller's loop: the first error ends it.
\* A connection that breaks in the unlock is replaced, and the result stands.
ReleaseUp(w) ==
  /\ pc[w] \in {"unlock", "fail"}
  /\ lock' = [lock EXCEPT ![who[w]] = None]
  /\ PutBack(w)
  /\ path' \in {path, [path EXCEPT ![conn[w]] = None]}
  /\ IF pc[w] = "unlock" THEN GoOn(w) ELSE Forget(w)
  /\ UNCHANGED <<schema>>

\* The caller takes the nil.
Collect(w) ==
  /\ pc[w] = "done"
  /\ Forget(w)
  /\ UNCHANGED <<db, pool, conn>>

Progress(w) == \/ SetPath(w) \/ EndRequest(w) \/ ReadTenants(w)
               \/ \E t \in Tenants : NextTenant(w, t)
               \/ AllDone(w) \/ PrepareUp(w) \/ ApplyUp(w) \/ ReleaseUp(w)
               \/ Collect(w)

Next == \E w \in Workers :
          \/ \E t \in Tenants : Request(w, t) \/ MigrateTenant(w, t)
          \/ MigrateAllTenants(w)
          \/ \E c \in Conns : AcquireConn(w, c)
          \/ TakeLock(w) \/ Progress(w)
          \/ AcquireFails(w) \/ Breaks(w)

\* A worker that has what it needs goes on.  The pool and the server's lock
\* queue are first come, first served, so a wait that can end again and again
\* ends: strong fairness.  Nothing has to fail.
Spec == /\ Init /\ [][Next]_vars
        /\ \A w \in Workers : /\ WF_vars(Progress(w))
                              /\ SF_vars(\E c \in Conns : AcquireConn(w, c))
                              /\ SF_vars(TakeLock(w))

(***************************************************************************)
(* Properties.                                                             *)
(***************************************************************************)
\* "All subsequent queries on this connection target the tenant's schema"
\* (database/tenant.go 12-14): whoever had the session before, a migration
\* included, and whatever it left in the session's search_path.
OwnSchema == \A w \in Workers : pc[w] = "use" => path[conn[w]] = who[w]

\* A session goes back to the pool without an advisory lock: the next borrower
\* would keep every other process out of that tenant's migrations
\* (migrate.go 150-153).
PooledIsUnlocked == \A t \in Tenants, c \in Conns :
                      lock[t] = c => user[c] # None /\ pc[user[c]] \in Locked

\* A nil error means that every tenant the call set out to migrate is current
\* (multitenant.go 33-39).
NilMeansMigrated ==
  \A w \in Workers : pc[w] = "done"
                       => \A t \in listed[w] : schema[t] = "current"

\* Whoever asks for a connection gets an answer, although migrations wait for
\* locks with a connection in their hands and the pool may have only one
\* (multitenant.go 15-34).
NobodyStarves == \A w \in Workers : pc[w] \in Waiting ~> pc[w] = "idle"
=============================================================================
