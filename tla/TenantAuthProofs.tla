-------------------------- MODULE TenantAuthProofs --------------------------
(***************************************************************************)
(* Proofs about TenantAuth, for any realms, tokens and requests, and any   *)
(* TTL and Latency.                                                        *)
(***************************************************************************)
EXTENDS TenantAuth, TLAPS

\* A request that is under way has a token that was accepted; before its fetch is
\* answered there is no answer to have an age.
Paths ==
  \A r \in Requests :
    /\ pc[r] # "idle" => tok[r] \in Tokens /\ Accepts(tok[r])
    /\ pc[r] \in {"idle", "lookup", "fetch"} => flight[r] = 0

TInv == TypeOK /\ Paths

\* The fields of a token that was accepted.
LEMMA Accepted ==
  ASSUME NEW t \in Tokens, Accepts(t)
  PROVE  /\ t.realm \in Tenants /\ t.kid \in Kids /\ t.rsa /\ t.allowed
  BY TokensAssumption DEF Accepts, TokenFields

LEMMA Bounds == TTL \in Nat /\ TTL > 0 /\ Latency \in Nat /\ Long \in Nat /\ Latency < Long
  BY TimesAssumption DEF Long

\* A counter that is capped.
LEMMA UpToType ==
  ASSUME NEW m \in Nat, NEW n \in 0 .. m
  PROVE  UpTo(n, m) \in 0 .. m /\ UpTo(n, m) <= n + 1
  BY DEF UpTo

LEMMA TInvInit == Init => TInv
  <1> SUFFICES ASSUME Init PROVE TInv
    OBVIOUS
  <1>1. published \in [Tenants -> SUBSET Kids]
    BY DEF Init
  <1>2. \A t \in Tenants : [k \in Kids |-> IF k \in published[t] THEN 0 ELSE Long]
                             \in [Kids -> 0 .. Long]
    BY Bounds
  <1>3. gone \in [Tenants -> [Kids -> 0 .. Long]]
    BY <1>2 DEF Init
  <1>4. TypeOK
    BY <1>1, <1>3, Bounds DEF Init, TypeOK
  <1>5. Paths
    BY DEF Init, Paths
  <1> QED
    BY <1>4, <1>5 DEF TInv

LEMMA TInvNext == TInv /\ [Next]_vars => TInv'
  <1> SUFFICES ASSUME TInv, [Next]_vars PROVE TInv'
    OBVIOUS
  <1> USE DEF TInv
  <1>1. CASE Tick
    <2>1. gone' \in [Tenants -> [Kids -> 0 .. Long]]
      <3>1. ASSUME NEW t \in Tenants
            PROVE  [k \in Kids |-> IF k \in published[t] THEN 0 ELSE UpTo(gone[t][k], Long)]
                     \in [Kids -> 0 .. Long]
        <4>1. \A k \in Kids : gone[t][k] \in 0 .. Long
          BY DEF TypeOK
        <4>2. \A k \in Kids : UpTo(gone[t][k], Long) \in 0 .. Long
          BY <4>1, UpToType, Bounds
        <4> QED
          BY <4>2, Bounds
      <3> QED
        BY <1>1, <3>1 DEF Tick
    <2>2. entries' \in [Tenants -> {None} \cup [keys : SUBSET Kids, age : 0 .. TTL]]
      <3>1. ASSUME NEW t \in Tenants, entries[t] # None
            PROVE  [entries[t] EXCEPT !.age = UpTo(@, TTL)] \in [keys : SUBSET Kids, age : 0 .. TTL]
        <4>1. entries[t] \in [keys : SUBSET Kids, age : 0 .. TTL]
          BY <3>1 DEF TypeOK
        <4>2. UpTo(entries[t].age, TTL) \in 0 .. TTL
          BY <4>1, UpToType, Bounds
        <4> QED
          BY <4>1, <4>2
      <3> QED
        BY <1>1, <3>1 DEF Tick
    <2>3. flight' \in [Requests -> 0 .. Latency]
      BY <1>1, Bounds DEF Tick, TypeOK
    <2>4. TypeOK'
      BY <1>1, <2>1, <2>2, <2>3 DEF Tick, TypeOK
    <2>5. Paths'
      BY <1>1 DEF Tick, Paths
    <2> QED
      BY <2>4, <2>5
  <1>2. ASSUME NEW t \in Tenants, NEW k \in Kids, AddKey(t, k) PROVE TInv'
    <2>1. gone' \in [Tenants -> [Kids -> 0 .. Long]]
      <3>1. gone' = [gone EXCEPT ![t] = [gone[t] EXCEPT ![k] = 0]]
        BY <1>2 DEF AddKey, TypeOK
      <3>2. [gone[t] EXCEPT ![k] = 0] \in [Kids -> 0 .. Long]
        BY Bounds DEF TypeOK
      <3> QED
        BY <3>1, <3>2 DEF TypeOK
    <2>2. published' \in [Tenants -> SUBSET Kids]
      BY <1>2 DEF AddKey, TypeOK
    <2>3. TypeOK'
      BY <1>2, <2>1, <2>2 DEF AddKey, TypeOK, request
    <2>4. Paths'
      BY <1>2 DEF AddKey, Paths, request
    <2> QED
      BY <2>3, <2>4
  <1>3. ASSUME NEW t \in Tenants, NEW k \in Kids, DropKey(t, k) PROVE TInv'
    <2>1. published' \in [Tenants -> SUBSET Kids]
      BY <1>3 DEF DropKey, TypeOK
    <2>2. missed' \in [Requests -> BOOLEAN]
      BY <1>3 DEF DropKey, TypeOK
    <2>3. TypeOK'
      BY <1>3, <2>1, <2>2 DEF DropKey, TypeOK
    <2>4. Paths'
      BY <1>3 DEF DropKey, Paths
    <2> QED
      BY <2>3, <2>4
  <1>4. ASSUME NEW r \in Requests, NEW t \in Tokens \cup {None}, Arrive(r, t) PROVE TInv'
    <2>1. t \in Tokens /\ Accepts(t)
      BY <1>4 DEF Arrive, Accepts
    <2>2. TypeOK'
      BY <1>4, <2>1 DEF Arrive, TypeOK, To, realms
    <2>3. Paths'
      BY <1>4, <2>1 DEF Arrive, Paths, TypeOK, To, realms
    <2> QED
      BY <2>2, <2>3
  <1>5. ASSUME NEW r \in Requests, Answer(r), UNCHANGED realms,
               entries' \in [Tenants -> {None} \cup [keys : SUBSET Kids, age : 0 .. TTL]]
        PROVE  TInv'
    <2>1. TypeOK'
      BY <1>5, Bounds DEF Answer, To, TypeOK, realms
    <2>2. Paths'
      BY <1>5 DEF Answer, To, TypeOK, Paths, realms
    <2> QED
      BY <2>1, <2>2
  <1>6. ASSUME NEW r \in Requests, NEW stage \in {"fetch", "handler", "unknownKey"},
               pc[r] \in {"lookup", "store"}, stage = "fetch" => pc[r] = "lookup",
               To(r, stage), UNCHANGED <<realms, request>>,
               entries' \in [Tenants -> {None} \cup [keys : SUBSET Kids, age : 0 .. TTL]]
        PROVE  TInv'
    <2>1. TypeOK'
      BY <1>6 DEF To, TypeOK, realms, request
    <2>2. Paths'
      BY <1>6 DEF To, TypeOK, Paths, realms, request
    <2> QED
      BY <2>1, <2>2
  <1>7. ASSUME NEW r \in Requests, Lookup(r) PROVE TInv'
    <2>1. UNCHANGED <<realms, entries>> /\ pc[r] = "lookup"
      BY <1>7 DEF Lookup
    <2>2. Answer(r) \/ (To(r, "handler") /\ UNCHANGED request) \/ (To(r, "fetch") /\ UNCHANGED request)
      BY <1>7 DEF Lookup, Judge
    <2>3. entries' \in [Tenants -> {None} \cup [keys : SUBSET Kids, age : 0 .. TTL]]
      BY <2>1 DEF TypeOK
    <2> QED
      BY <1>5, <1>6, <2>1, <2>2, <2>3
  <1>8. ASSUME NEW r \in Requests, Serve(r) PROVE TInv'
    <2>1. tok[r].realm \in Tenants
      BY <1>8, Accepted DEF Serve, Paths
    <2>2. TypeOK'
      BY <1>8, <2>1 DEF Serve, TypeOK, To, realms
    <2>3. Paths'
      BY <1>8 DEF Serve, TypeOK, Paths, To, realms
    <2> QED
      BY <2>2, <2>3
  <1>9. ASSUME NEW r \in Requests, FetchFails(r) \/ Respond(r) PROVE TInv'
    <2>1. Answer(r) /\ UNCHANGED <<realms, entries>>
      BY <1>9 DEF FetchFails, Respond
    <2> QED
      BY <1>5, <2>1 DEF TypeOK
  <1>10. ASSUME NEW r \in Requests, Store(r) PROVE TInv'
    <2>1. UNCHANGED realms /\ pc[r] = "store"
      BY <1>10 DEF Store
    <2>2. Answer(r) \/ (To(r, "handler") /\ UNCHANGED request)
            \/ (To(r, "unknownKey") /\ UNCHANGED request)
      BY <1>10 DEF Store, Judge
    <2>3. Entry(got[r]) \in [keys : SUBSET Kids, age : 0 .. TTL]
      BY Bounds DEF Entry, TypeOK
    <2>4. entries' \in [Tenants -> {None} \cup [keys : SUBSET Kids, age : 0 .. TTL]]
      BY <1>10, <2>3 DEF Store, TypeOK
    <2> QED
      BY <1>5, <1>6, <2>1, <2>2, <2>4
  <1>11. CASE UNCHANGED vars
    BY <1>11 DEF vars, TypeOK, Paths
  <1> QED
    BY <1>1, <1>2, <1>3, <1>4, <1>7, <1>8, <1>9, <1>10, <1>11 DEF Next

\* Type correctness of the chain, its cache and the realms (middleware.go, jwks.go 23-48).
THEOREM Typing == Spec => []TypeOK
  <1>1. TInv => TypeOK
    BY DEF TInv
  <1> QED
    BY TInvInit, TInvNext, <1>1, PTL DEF Spec

(***************************************************************************)
(* What is known about a realm.                                            *)
(***************************************************************************)
\* A key that is served is not gone, an answer under way is as old as its flight, and
\* an entry is at most one answer's latency older than it says.
Honest ==
  /\ \A t \in Tenants, k \in Kids : k \in published[t] => gone[t][k] = 0
  /\ \A r \in Requests, k \in Kids :
       pc[r] = "store" /\ k \in got[r] => gone[tok[r].realm][k] <= flight[r]
  /\ CacheHonest

LEMMA HonestInit == Init => Honest
  <1> SUFFICES ASSUME Init PROVE Honest
    OBVIOUS
  <1>1. \A t \in Tenants, k \in Kids : k \in published[t] => gone[t][k] = 0
    BY DEF Init
  <1> QED
    BY <1>1 DEF Init, Honest, CacheHonest, Fresh

LEMMA HonestNext == TInv /\ Honest /\ [Next]_vars => Honest'
  <1> SUFFICES ASSUME TInv, Honest, [Next]_vars PROVE Honest'
    OBVIOUS
  <1> USE DEF TInv
  <1>1. CASE Tick
    <2>1. ASSUME NEW t \in Tenants, NEW k \in Kids
          PROVE  /\ gone'[t][k] = IF k \in published[t] THEN 0 ELSE UpTo(gone[t][k], Long)
                 /\ gone[t][k] \in Nat /\ gone'[t][k] \in Nat /\ gone'[t][k] <= gone[t][k] + 1
      <3>1. gone'[t][k] = IF k \in published[t] THEN 0 ELSE UpTo(gone[t][k], Long)
        BY <1>1 DEF Tick
      <3>2. gone[t][k] \in 0 .. Long
        BY DEF TypeOK
      <3>3. UpTo(gone[t][k], Long) \in 0 .. Long /\ UpTo(gone[t][k], Long) <= gone[t][k] + 1
        BY <3>2, UpToType, Bounds
      <3> QED
        BY <3>1, <3>2, <3>3, Bounds
    <2>2. \A t \in Tenants, k \in Kids : k \in published'[t] => gone'[t][k] = 0
      BY <1>1, <2>1 DEF Tick
    <2>3. ASSUME NEW r \in Requests, NEW k \in Kids, pc'[r] = "store", k \in got'[r]
          PROVE  gone'[tok'[r].realm][k] <= flight'[r]
      <3>1. pc[r] = "store" /\ k \in got[r] /\ tok'[r] = tok[r] /\ flight'[r] = flight[r] + 1
        BY <1>1, <2>3 DEF Tick
      <3>2. tok[r].realm \in Tenants
        BY <3>1, Accepted DEF Paths
      <3>3. gone[tok[r].realm][k] <= flight[r] /\ flight[r] \in Nat
        BY <3>1, Bounds DEF Honest, TypeOK
      <3> QED
        BY <2>1, <3>1, <3>2, <3>3
    <2>4. ASSUME NEW t \in Tenants, NEW k \in Kids, Fresh(t)', k \in entries'[t].keys
          PROVE  gone'[t][k] <= entries'[t].age + Latency
      <3>1. entries[t] # None /\ entries'[t] = [entries[t] EXCEPT !.age = UpTo(@, TTL)]
        BY <1>1, <2>4 DEF Tick, Fresh
      <3>2. entries[t] \in [keys : SUBSET Kids, age : 0 .. TTL]
        BY <3>1 DEF TypeOK
      <3>3. entries'[t].age = UpTo(entries[t].age, TTL) /\ entries'[t].keys = entries[t].keys
        BY <3>1, <3>2
      <3>4. entries[t].age < TTL /\ entries'[t].age = entries[t].age + 1
        BY <2>4, <3>2, <3>3, Bounds DEF UpTo, Fresh
      <3>5. gone[t][k] <= entries[t].age + Latency
        BY <2>4, <3>1, <3>3, <3>4 DEF Honest, CacheHonest, Fresh
      <3> QED
        BY <2>1, <3>2, <3>4, <3>5, Bounds
    <2>5. \A t \in Tenants : Fresh(t)' => entries'[t].keys \subseteq Kids
      BY <1>1, TInvNext DEF TypeOK, Fresh
    <2> QED
      BY <2>2, <2>3, <2>4, <2>5 DEF Honest, CacheHonest
  <1>2. ASSUME NEW t \in Tenants, NEW k \in Kids, AddKey(t, k) PROVE Honest'
    <2>1. \A u \in Tenants, x \in Kids :
            gone'[u][x] = IF u = t /\ x = k THEN 0 ELSE gone[u][x]
      BY <1>2 DEF AddKey, TypeOK
    <2>2. \A u \in Tenants, x \in Kids : gone'[u][x] <= gone[u][x]
      BY <2>1, Bounds DEF TypeOK
    <2>3. \A u \in Tenants, x \in Kids : x \in published'[u] => gone'[u][x] = 0
      BY <1>2, <2>1 DEF AddKey, TypeOK, Honest
    <2>4. \A u \in Tenants, x \in Kids : gone[u][x] \in Int /\ gone'[u][x] \in Int
      BY <2>1, Bounds DEF TypeOK
    <2>5. UNCHANGED <<entries, pc, tok, got, flight>>
      BY <1>2 DEF AddKey, request
    <2>6. ASSUME NEW r \in Requests, NEW x \in Kids, pc'[r] = "store", x \in got'[r]
          PROVE  gone'[tok'[r].realm][x] <= flight'[r]
      <3>1. tok[r].realm \in Tenants
        BY <2>5, <2>6, Accepted DEF Paths
      <3>2. gone[tok[r].realm][x] <= flight[r] /\ flight[r] \in Int
        BY <2>5, <2>6, Bounds DEF Honest, TypeOK
      <3> QED
        BY <2>2, <2>4, <2>5, <3>1, <3>2
    <2>7. ASSUME NEW u \in Tenants, Fresh(u)', NEW x \in entries'[u].keys
          PROVE  gone'[u][x] <= entries'[u].age + Latency
      <3>1. entries[u] \in [keys : SUBSET Kids, age : 0 .. TTL] /\ Fresh(u)
        BY <2>5, <2>7 DEF TypeOK, Fresh
      <3>2. x \in Kids /\ gone[u][x] <= entries[u].age + Latency
        BY <2>5, <2>7, <3>1 DEF Honest, CacheHonest
      <3> QED
        BY <2>2, <2>4, <2>5, <3>1, <3>2, Bounds
    <2> QED
      BY <2>3, <2>6, <2>7 DEF Honest, CacheHonest
  <1>3. ASSUME NEW t \in Tenants, NEW k \in Kids, DropKey(t, k) PROVE Honest'
    <2>1. \A u \in Tenants : published'[u] \subseteq published[u]
      BY <1>3 DEF DropKey, TypeOK
    <2> QED
      BY <1>3, <2>1 DEF DropKey, Honest, CacheHonest, Fresh
  <1>4. ASSUME NEW r \in Requests, UNCHANGED <<published, gone>>,
               pc'[r] # "store",
               \A q \in Requests \ {r} : pc'[q] = pc[q] /\ tok'[q] = tok[q]
                                         /\ got'[q] = got[q] /\ flight'[q] = flight[q],
               CacheHonest'
        PROVE  Honest'
    BY <1>4 DEF Honest
  <1>5. ASSUME NEW r \in Requests, Answer(r)
        PROVE  /\ pc'[r] # "store"
               /\ \A q \in Requests \ {r} : pc'[q] = pc[q] /\ tok'[q] = tok[q]
                                            /\ got'[q] = got[q] /\ flight'[q] = flight[q]
    BY <1>5 DEF Answer, To, TypeOK
  <1>6. ASSUME NEW r \in Requests, NEW stage, To(r, stage), stage # "store", UNCHANGED request
        PROVE  /\ pc'[r] # "store"
               /\ \A q \in Requests \ {r} : pc'[q] = pc[q] /\ tok'[q] = tok[q]
                                            /\ got'[q] = got[q] /\ flight'[q] = flight[q]
    BY <1>6 DEF To, TypeOK, request
  <1>7. ASSUME UNCHANGED <<gone, entries>> PROVE CacheHonest'
    BY <1>7 DEF Honest, CacheHonest, Fresh
  <1>8. ASSUME NEW r \in Requests, NEW t \in Tokens \cup {None}, Arrive(r, t) PROVE Honest'
    <2>1. /\ pc'[r] # "store"
          /\ \A q \in Requests \ {r} : pc'[q] = pc[q] /\ tok'[q] = tok[q]
                                       /\ got'[q] = got[q] /\ flight'[q] = flight[q]
      BY <1>8 DEF Arrive, To, TypeOK
    <2>2. UNCHANGED <<published, gone, entries>>
      BY <1>8 DEF Arrive, realms
    <2> QED
      BY <1>4, <1>7, <2>1, <2>2
  <1>9. ASSUME NEW r \in Requests, Lookup(r) PROVE Honest'
    <2>1. UNCHANGED <<published, gone, entries>>
      BY <1>9 DEF Lookup, realms
    <2>2. Answer(r) \/ (To(r, "handler") /\ UNCHANGED request) \/ (To(r, "fetch") /\ UNCHANGED request)
      BY <1>9 DEF Lookup, Judge
    <2> QED
      BY <1>4, <1>5, <1>6, <1>7, <2>1, <2>2
  <1>10. ASSUME NEW r \in Requests, Serve(r) PROVE Honest'
    <2>1. tok[r].realm \in Tenants
      BY <1>10, Accepted DEF Serve, Paths
    <2>2. flight[r] = 0
      BY <1>10 DEF Serve, Paths
    <2>3. got'[r] = published[tok[r].realm] /\ UNCHANGED <<published, gone, entries, tok, flight>>
      BY <1>10 DEF Serve, TypeOK, realms
    <2>4. \A q \in Requests \ {r} : pc'[q] = pc[q] /\ got'[q] = got[q]
      BY <1>10 DEF Serve, To, TypeOK
    <2>5. \A k \in Kids : k \in got'[r] => gone[tok[r].realm][k] <= flight[r]
      BY <2>1, <2>2, <2>3 DEF Honest
    <2> QED
      BY <1>7, <2>3, <2>4, <2>5 DEF Honest
  <1>11. ASSUME NEW r \in Requests, FetchFails(r) \/ Respond(r) PROVE Honest'
    <2>1. Answer(r) /\ UNCHANGED <<published, gone, entries>>
      BY <1>11 DEF FetchFails, Respond, realms
    <2> QED
      BY <1>4, <1>5, <1>7, <2>1
  <1>12. ASSUME NEW r \in Requests, Store(r) PROVE Honest'
    <2> DEFINE t == tok[r].realm
    <2>1. UNCHANGED <<published, gone>> /\ pc[r] = "store"
      BY <1>12 DEF Store, realms
    <2>2. Answer(r) \/ (To(r, "handler") /\ UNCHANGED request)
            \/ (To(r, "unknownKey") /\ UNCHANGED request)
      BY <1>12 DEF Store, Judge
    <2>3. t \in Tenants
      BY <2>1, Accepted DEF Paths
    <2>4. \A u \in Tenants : entries'[u] = IF u = t THEN Entry(got[r]) ELSE entries[u]
      BY <1>12, <2>3 DEF Store, TypeOK
    <2>5. \A k \in got[r] : gone[t][k] <= Latency
      <3>1. flight[r] \in 0 .. Latency /\ got[r] \subseteq Kids
        BY DEF TypeOK
      <3>2. \A k \in Kids : gone[t][k] \in Int
        BY <2>3, Bounds DEF TypeOK
      <3> QED
        BY <2>1, <3>1, <3>2, Bounds DEF Honest
    <2> HIDE DEF t
    <2>6. ASSUME NEW u \in Tenants, Fresh(u)', NEW k \in entries'[u].keys
          PROVE  gone'[u][k] <= entries'[u].age + Latency
      <3>1. CASE u = t
        <4>1. entries'[u].keys = got[r] /\ entries'[u].age = 0
          BY <2>4, <3>1 DEF Entry
        <4> QED
          BY <2>1, <2>5, <2>6, <3>1, <4>1, Bounds
      <3>2. CASE u # t
        BY <2>1, <2>4, <2>6, <3>2 DEF Honest, CacheHonest, Fresh
      <3> QED
        BY <3>1, <3>2
    <2>7. CacheHonest'
      BY <2>6 DEF CacheHonest
    <2> QED
      BY <1>4, <1>5, <1>6, <2>1, <2>2, <2>7
  <1>13. CASE UNCHANGED vars
    BY <1>13 DEF vars, Honest, CacheHonest, Fresh
  <1> QED
    BY <1>1, <1>2, <1>3, <1>8, <1>9, <1>10, <1>11, <1>12, <1>13 DEF Next

\* A fresh entry is at most one answer's latency older than its fetchedAt says, whichever
\* of any number of concurrent fetches stored last (jwks.go 63-69).
THEOREM EntriesAreHonest == Spec => []CacheHonest
  <1>1. Honest => CacheHonest
    BY DEF Honest
  <1> QED
    BY TInvInit, TInvNext, HonestInit, HonestNext, <1>1, PTL DEF Spec

\* Whatever is cached and fetched meanwhile, who enters the handler has a token that is
\* in order and a key that its realm has served less than TTL + Latency ago
\* (jwks.go 51-77, middleware.go 34-103).
THEOREM OnlyAdmissible == Spec => Admission
  <1> DEFINE Enters == \A r \in Requests : pc[r] # "handler" /\ pc'[r] = "handler" => Admissible(r)
  <1>1. TInv /\ Honest /\ [Next]_vars => [Enters]_vars
    <2> SUFFICES ASSUME TInv, Honest, Next, NEW r \in Requests,
                        pc[r] # "handler", pc'[r] = "handler"
                 PROVE  Admissible(r)
      OBVIOUS
    <2> USE DEF TInv
    <2> DEFINE t == tok[r].realm
               k == tok[r].kid
    <2>1. ASSUME pc[r] # "idle", Passes(r, t, k), gone[t][k] < Long PROVE Admissible(r)
      BY <2>1, Accepted DEF Paths, Passes, HasRole, Admissible
    <2>2. ASSUME NEW q \in Requests, pc' = [pc EXCEPT ![q] = "handler"] PROVE r = q
      BY <2>2 DEF TypeOK
    <2>3. ASSUME NEW q \in Requests, NEW stage, stage # "handler", pc' = [pc EXCEPT ![q] = stage]
          PROVE  FALSE
      BY <2>3 DEF TypeOK
    <2>4. CASE \E q \in Requests : Lookup(q)
      <3>1. PICK q \in Requests : Lookup(q)
        BY <2>4
      <3>2. To(q, "handler") \/ To(q, "idle") \/ To(q, "fetch")
        BY <3>1 DEF Lookup, Judge, Answer
      <3>3. q = r /\ pc[r] = "lookup"
        BY <2>2, <2>3, <3>1, <3>2 DEF To, Lookup
      <3>4. ~To(r, "idle") /\ ~To(r, "fetch")
        BY <2>3 DEF To
      <3>5. Fresh(t) /\ k \in entries[t].keys /\ Passes(r, t, k)
        BY <3>1, <3>3, <3>4 DEF Lookup, Judge, Answer
      <3>6. t \in Tenants /\ k \in Kids
        BY <3>3, Accepted DEF Paths
      <3>7. gone[t][k] <= entries[t].age + Latency
        BY <3>5, <3>6 DEF Honest, CacheHonest
      <3>8. entries[t].age < TTL /\ entries[t].age \in Int
        BY <3>5, <3>6, Bounds DEF Fresh, TypeOK
      <3>9. gone[t][k] \in Int
        BY <3>6, Bounds DEF TypeOK
      <3>10. gone[t][k] < Long
        BY <3>7, <3>8, <3>9, Bounds DEF Long
      <3> QED
        BY <2>1, <3>3, <3>5, <3>10
    <2>5. CASE \E q \in Requests : Store(q)
      <3>1. PICK q \in Requests : Store(q)
        BY <2>5
      <3>2. To(q, "handler") \/ To(q, "idle") \/ To(q, "unknownKey")
        BY <3>1 DEF Store, Judge, Answer
      <3>3. q = r /\ pc[r] = "store"
        BY <2>2, <2>3, <3>1, <3>2 DEF To, Store
      <3>4. ~To(r, "idle") /\ ~To(r, "unknownKey")
        BY <2>3 DEF To
      <3>5. k \in got[r] /\ Passes(r, t, k)
        BY <3>1, <3>3, <3>4 DEF Store, Judge, Answer
      <3>6. t \in Tenants /\ k \in Kids
        BY <3>3, Accepted DEF Paths
      <3>7. gone[t][k] <= flight[r] /\ flight[r] \in 0 .. Latency
        BY <3>3, <3>5, <3>6 DEF Honest, TypeOK
      <3>8. gone[t][k] \in Int
        BY <3>6, Bounds DEF TypeOK
      <3>9. gone[t][k] < Long
        BY <3>7, <3>8, Bounds
      <3> QED
        BY <2>1, <3>3, <3>5, <3>9
    <2>6. CASE Tick \/ \E u \in Tenants, x \in Kids : AddKey(u, x) \/ DropKey(u, x)
      BY <2>6 DEF Tick, AddKey, DropKey
    <2>7. CASE \E q \in Requests : \/ \E u \in Tokens \cup {None} : Arrive(q, u)
                                   \/ Serve(q) \/ FetchFails(q) \/ Respond(q)
      BY <2>3, <2>7 DEF Arrive, Serve, FetchFails, Respond, Answer, To
    <2> QED
      BY <2>4, <2>5, <2>6, <2>7 DEF Next
  <1> QED
    BY TInvInit, TInvNext, HonestInit, HonestNext, <1>1, PTL DEF Spec, Admission

(***************************************************************************)
(* What is not known about a realm.                                        *)
(***************************************************************************)
\* Up to its own fetch a request has missed every key its realm does not serve, and after
\* it every key that is not in the answer.
Missing ==
  \A r \in Requests :
    /\ pc[r] \in {"lookup", "fetch"} =>
         (tok[r].kid \notin published[tok[r].realm] => missed[r])
    /\ pc[r] = "store" => (tok[r].kid \notin got[r] => missed[r])
    /\ pc[r] = "unknownKey" => missed[r]

LEMMA MissingNext == TInv /\ Missing /\ [Next]_vars => Missing'
  <1> SUFFICES ASSUME TInv, Missing, [Next]_vars PROVE Missing'
    OBVIOUS
  <1> USE DEF TInv
  <1>1. CASE Tick
    BY <1>1 DEF Tick, Missing
  <1>2. ASSUME NEW t \in Tenants, NEW k \in Kids, AddKey(t, k) PROVE Missing'
    <2>1. \A u \in Tenants : published[u] \subseteq published'[u]
      BY <1>2 DEF AddKey, TypeOK
    <2>2. \A r \in Requests : pc[r] # "idle" => tok[r].realm \in Tenants
      BY Accepted DEF Paths
    <2> QED
      <3>1. UNCHANGED <<pc, tok, got, missed>>
        BY <1>2 DEF AddKey, request
      <3>2. \A r \in Requests : pc[r] # "idle" => published[tok[r].realm] \subseteq published'[tok[r].realm]
        BY <2>1, <2>2
      <3> QED
        BY <3>1, <3>2 DEF Missing
  <1>3. ASSUME NEW t \in Tenants, NEW k \in Kids, DropKey(t, k) PROVE Missing'
    <2>1. \A u \in Tenants : published'[u] = IF u = t THEN published[t] \ {k} ELSE published[u]
      BY <1>3 DEF DropKey, TypeOK
    <2>2. \A r \in Requests : pc[r] # "idle" => tok[r].realm \in Tenants
      BY Accepted DEF Paths
    <2>3. \A r \in Requests : missed[r] => missed'[r]
      BY <1>3 DEF DropKey
    <2>4. \A r \in Requests : pc[r] \in {"lookup", "fetch"} /\ tok[r].realm = t /\ tok[r].kid = k
                             => missed'[r]
      BY <1>3 DEF DropKey, Needs
    <2>5. UNCHANGED <<pc, tok, got>>
      BY <1>3 DEF DropKey
    <2> QED
      BY <2>1, <2>2, <2>3, <2>4, <2>5 DEF Missing
  <1>4. ASSUME NEW r \in Requests, UNCHANGED published,
               \A q \in Requests \ {r} : pc'[q] = pc[q] /\ tok'[q] = tok[q]
                                         /\ got'[q] = got[q] /\ missed'[q] = missed[q],
               \/ pc'[r] \in {"idle", "handler"}
               \/ /\ pc'[r] \in {"lookup", "fetch"}
                  /\ tok'[r].kid \notin published[tok'[r].realm] => missed'[r]
               \/ pc'[r] = "store" /\ (tok'[r].kid \notin got'[r] => missed'[r])
               \/ pc'[r] = "unknownKey" /\ missed'[r]
        PROVE  Missing'
    BY <1>4 DEF Missing
  <1>5. ASSUME NEW r \in Requests, NEW t \in Tokens \cup {None}, Arrive(r, t) PROVE Missing'
    <2>1. \A q \in Requests \ {r} : pc'[q] = pc[q] /\ tok'[q] = tok[q]
                                   /\ got'[q] = got[q] /\ missed'[q] = missed[q]
      BY <1>5 DEF Arrive, To, TypeOK
    <2>2. pc'[r] = "lookup" /\ tok'[r] = t /\ UNCHANGED published
      BY <1>5 DEF Arrive, To, TypeOK, realms
    <2>3. t.kid \notin published[t.realm] => missed'[r]
      BY <1>5 DEF Arrive, TypeOK
    <2> QED
      BY <1>4, <2>1, <2>2, <2>3
  <1>6. ASSUME NEW r \in Requests, Answer(r), UNCHANGED published PROVE Missing'
    <2>1. \A q \in Requests \ {r} : pc'[q] = pc[q] /\ tok'[q] = tok[q]
                                   /\ got'[q] = got[q] /\ missed'[q] = missed[q]
      BY <1>6 DEF Answer, To, TypeOK
    <2>2. pc'[r] = "idle"
      BY <1>6 DEF Answer, To, TypeOK
    <2> QED
      BY <1>4, <1>6, <2>1, <2>2
  <1>7. ASSUME NEW r \in Requests, NEW stage, To(r, stage), UNCHANGED <<published, request>>,
               \/ stage = "handler"
               \/ stage = "fetch" /\ pc[r] = "lookup"
               \/ stage = "unknownKey" /\ pc[r] = "store" /\ tok[r].kid \notin got[r]
        PROVE  Missing'
    <2>1. pc'[r] = stage /\ \A q \in Requests \ {r} : pc'[q] = pc[q]
      BY <1>7 DEF To, TypeOK
    <2> QED
      BY <1>7, <2>1 DEF Missing, request
  <1>8. ASSUME NEW r \in Requests, Lookup(r) PROVE Missing'
    <2>1. UNCHANGED published /\ pc[r] = "lookup"
      BY <1>8 DEF Lookup, realms
    <2>2. Answer(r) \/ (To(r, "handler") /\ UNCHANGED request) \/ (To(r, "fetch") /\ UNCHANGED request)
      BY <1>8 DEF Lookup, Judge
    <2> QED
      BY <1>6, <1>7, <2>1, <2>2
  <1>9. ASSUME NEW r \in Requests, Serve(r) PROVE Missing'
    <2>1. \A q \in Requests \ {r} : pc'[q] = pc[q] /\ got'[q] = got[q]
      BY <1>9 DEF Serve, To, TypeOK
    <2>2. UNCHANGED <<published, tok, missed>> /\ pc'[r] = "store"
            /\ got'[r] = published[tok[r].realm]
      BY <1>9 DEF Serve, To, TypeOK, realms
    <2>3. tok[r].kid \notin got'[r] => missed[r]
      BY <1>9, <2>2 DEF Serve, Missing
    <2> QED
      BY <1>4, <2>1, <2>2, <2>3
  <1>10. ASSUME NEW r \in Requests, FetchFails(r) \/ Respond(r) PROVE Missing'
    BY <1>6, <1>10 DEF FetchFails, Respond, realms
  <1>11. ASSUME NEW r \in Requests, Store(r) PROVE Missing'
    <2>1. UNCHANGED published /\ pc[r] = "store"
      BY <1>11 DEF Store, realms
    <2>2. CASE tok[r].kid \in got[r]
      <3>1. Answer(r) \/ (To(r, "handler") /\ UNCHANGED request)
        BY <1>11, <2>2 DEF Store, Judge
      <3> QED
        BY <1>6, <1>7, <2>1, <3>1
    <2>3. CASE tok[r].kid \notin got[r]
      <3>1. To(r, "unknownKey") /\ UNCHANGED request
        BY <1>11, <2>3 DEF Store
      <3> QED
        BY <1>7, <2>1, <2>3, <3>1
    <2> QED
      BY <2>2, <2>3
  <1>12. CASE UNCHANGED vars
    BY <1>12 DEF vars, Missing
  <1> QED
    BY <1>1, <1>2, <1>3, <1>5, <1>8, <1>9, <1>10, <1>11, <1>12 DEF Next

\* A request is refused for an unknown key only if its realm did not serve that key at
\* some moment since it came in, whatever the cache and other requests' answers say
\* (jwks.go 56-76).
THEOREM NewKeysAreFound == Spec => []NewKeyIsFound
  <1>1. Init => Missing
    BY DEF Init, Missing
  <1>2. Missing => NewKeyIsFound
    BY DEF Missing, NewKeyIsFound
  <1> QED
    BY TInvInit, TInvNext, MissingNext, <1>1, <1>2, PTL DEF Spec
=============================================================================
