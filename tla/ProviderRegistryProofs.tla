----------------------- MODULE ProviderRegistryProofs -----------------------
(***************************************************************************)
(* Proofs about what a preset becomes on its way to a model: the instance  *)
(* that ProviderRegistry finds for it, for any callers, presets,           *)
(* credentials and registrations, and the request that ChatOptions makes   *)
(* of its options, for any layers of them.                                 *)
(***************************************************************************)
EXTENDS ProviderRegistry, ChatOptions, FiniteSetTheorems, TLAPS

(***************************************************************************)
(* Presets and keys.                                                       *)
(***************************************************************************)
\* A preset's fields have their types.
LEMMA PresetFields ==
  ASSUME NEW p \in Presets
  PROVE  /\ p.name \in Names /\ p.provider \in Spellings /\ Upper[p.provider] \in Spellings
         /\ p.creds \in Creds \cup {None}
  BY PresetsAssumption, SpellingsAssumption

\* A preset with credentials has a key in the instance cache.
LEMMA KeyOfPreset ==
  ASSUME NEW p \in Presets, p.creds # None
  PROVE  CacheKey(p) \in CacheKeys
  <1>1. Upper[p.provider] \in Spellings /\ p.creds \in Creds
    BY PresetFields
  <1> QED
    BY <1>1 DEF CacheKey, CacheKeys

\* An instance is created under the key it is then stored under.
LEMMA NewInstance ==
  ASSUME NEW p \in Presets, p.creds # None, NEW c \in Callers
  PROVE  [key |-> <<Upper[p.provider], p.creds>>, by |-> c] \in Instances
  <1>1. <<Upper[p.provider], p.creds>> \in CacheKeys
    BY KeyOfPreset DEF CacheKey
  <1> QED
    BY <1>1 DEF Instances

\* nil is no instance.
LEMMA NoneIsNoInstance == None \notin Instances
  BY NoneAssumption DEF Instances, CacheKeys

(***************************************************************************)
(* Where a call is, and with what.                                         *)
(***************************************************************************)
\* Between its start and its end a call has its preset: one with credentials on the way
\* through the instance cache, one without on the way through the two lookups.
Paths ==
  \A c \in Callers :
    /\ pc[c] # "idle" => preset[c] \in Presets
    /\ pc[c] \in {"load", "create", "store"} => preset[c].creds # None
    /\ pc[c] \in {"byName", "byType"} => preset[c].creds = None
    /\ pc[c] = "store" => hand[c] \in Instances /\ hand[c].key = CacheKey(preset[c])

TInv == TypeOK /\ Paths

LEMMA TInvInit == Init => TInv
  BY DEF Init, TInv, TypeOK, Paths

LEMMA TInvNext == TInv /\ [Next]_vars => TInv'
  <1> SUFFICES ASSUME TInv, [Next]_vars PROVE TInv'
    OBVIOUS
  <1> USE DEF TInv
  <1>1. ASSUME NEW n \in Names, NEW m \in Models, Register(n, m) PROVE TInv'
    <2>1. NameOf[m] \in Spellings
      BY ModelsAssumption
    <2>2. providers' \in [Names -> Models \cup {None}] /\ defaults' \in [Spellings -> Models \cup {None}]
      BY <1>1, <2>1 DEF Register, TypeOK
    <2>3. seen' \in [Callers -> SUBSET Models]
      BY <1>1 DEF Register, TypeOK
    <2>4. TypeOK'
      BY <1>1, <2>2, <2>3 DEF Register, TypeOK
    <2>5. Paths'
      BY <1>1 DEF Register, Paths
    <2> QED
      BY <2>4, <2>5
  <1>2. ASSUME NEW c \in Callers, NEW p \in Presets, Resolve(c, p) PROVE TInv'
    <2>1. p.name \in Names /\ Upper[p.provider] \in Spellings
      BY PresetFields
    <2>2. {providers[p.name]} \ {None} \in SUBSET Models
      BY <2>1 DEF TypeOK
    <2>3. TypeOK'
      BY <1>2, <2>1, <2>2 DEF Resolve, TypeOK, Goto, tables
    <2>4. Paths'
      BY <1>2 DEF Resolve, TypeOK, Paths, Goto, tables
    <2> QED
      BY <2>3, <2>4
  <1>3. ASSUME NEW c \in Callers, Load(c) PROVE TInv'
    <2> DEFINE k == CacheKey(preset[c])
    <2>1. k \in CacheKeys
      BY <1>3, KeyOfPreset DEF Load, Paths
    <2> HIDE DEF k
    <2>2. CASE cache[k] # None
      <3>1. cache[k] \in Instances
        BY <2>1, <2>2 DEF TypeOK
      <3>2. TypeOK'
        BY <1>3, <2>1, <2>2, <3>1 DEF Load, TypeOK, Goto, Return, tables, ghosts, k
      <3>3. Paths'
        BY <1>3, <2>2 DEF Load, TypeOK, Paths, Goto, Return, tables, ghosts, k
      <3> QED
        BY <3>2, <3>3
    <2>3. CASE cache[k] = None
      <3>1. TypeOK'
        BY <1>3, <2>3 DEF Load, TypeOK, Goto, Return, tables, ghosts, k
      <3>2. Paths'
        BY <1>3, <2>3 DEF Load, TypeOK, Paths, Goto, Return, tables, ghosts, k
      <3> QED
        BY <3>1, <3>2
    <2> QED
      BY <2>2, <2>3
  <1>4. ASSUME NEW c \in Callers, Create(c) PROVE TInv'
    <2> DEFINE new == [key |-> <<Upper[preset[c].provider], preset[c].creds>>, by |-> c]
    <2>1. new \in Instances
      BY <1>4, NewInstance DEF Create, Paths
    <2>2. new.key = CacheKey(preset[c])
      BY DEF CacheKey
    <2> HIDE DEF new
    <2>3. CASE Upper[preset[c].provider] \in Factories
      <3>1. hand' = [hand EXCEPT ![c] = new] /\ pc' = [pc EXCEPT ![c] = "store"]
            /\ UNCHANGED <<tables, preset, ghosts, served, result>>
        BY <1>4, <2>3 DEF Create, Goto, new
      <3>2. TypeOK'
        BY <2>1, <3>1 DEF TypeOK, tables, ghosts
      <3>3. \A d \in Callers : preset'[d] = preset[d]
        BY <3>1
      <3>4. \A d \in Callers : CacheKey(preset[d])' = CacheKey(preset[d])
        BY <3>1 DEF CacheKey
      <3>5. hand'[c] = new /\ pc'[c] = "store" /\ pc[c] = "create"
            /\ \A d \in Callers \ {c} : hand'[d] = hand[d] /\ pc'[d] = pc[d]
        BY <1>4, <3>1 DEF TypeOK, Create
      <3>6. Paths'
        BY <2>1, <2>2, <3>3, <3>4, <3>5 DEF Paths
      <3> QED
        BY <3>2, <3>6
    <2>4. CASE Upper[preset[c].provider] \notin Factories
      <3>1. TypeOK'
        BY <1>4, <2>4 DEF Create, TypeOK, Goto, Return, tables, ghosts
      <3>2. Paths'
        BY <1>4, <2>4 DEF Create, TypeOK, Paths, Goto, Return, tables, ghosts
      <3> QED
        BY <3>1, <3>2
    <2> QED
      BY <2>3, <2>4
  <1>5. ASSUME NEW c \in Callers, LoadOrStore(c) PROVE TInv'
    <2> DEFINE k == CacheKey(preset[c])
               actual == IF cache[k] = None THEN hand[c] ELSE cache[k]
    <2>1. k \in CacheKeys
      BY <1>5, KeyOfPreset DEF LoadOrStore, Paths
    <2>2. hand[c] \in Instances
      BY <1>5 DEF LoadOrStore, Paths
    <2> HIDE DEF k
    <2>3. actual \in Instances
      BY <2>1, <2>2 DEF TypeOK
    <2>4. /\ cache' = [cache EXCEPT ![k] = actual]
          /\ result' = [result EXCEPT ![c] = actual]
          /\ pc' = [pc EXCEPT ![c] = "returned"]
          /\ served' = [served EXCEPT ![k] = @ \cup {actual}]
          /\ UNCHANGED <<providers, defaults, preset, hand, ghosts>>
      BY <1>5 DEF LoadOrStore, Return, Goto, k
    <2> HIDE DEF actual
    <2>5. TypeOK'
      BY <2>1, <2>3, <2>4 DEF TypeOK, ghosts
    <2>6. Paths'
      BY <1>5, <2>4 DEF TypeOK, Paths, LoadOrStore
    <2> QED
      BY <2>5, <2>6
  <1>6. ASSUME NEW c \in Callers, ByName(c) PROVE TInv'
    <2>1. preset[c].name \in Names
      BY <1>6, PresetFields DEF ByName, Paths
    <2>2. TypeOK'
      BY <1>6, <2>1 DEF ByName, TypeOK, Goto, Return, tables, ghosts
    <2>3. Paths'
      BY <1>6 DEF ByName, TypeOK, Paths, Goto, Return, tables, ghosts
    <2> QED
      BY <2>2, <2>3
  <1>7. ASSUME NEW c \in Callers, ByType(c) PROVE TInv'
    <2>1. Upper[preset[c].provider] \in Spellings
      BY <1>7, PresetFields DEF ByType, Paths
    <2>2. TypeOK'
      BY <1>7, <2>1 DEF ByType, TypeOK, Goto, Return, tables, ghosts
    <2>3. Paths'
      BY <1>7 DEF ByType, TypeOK, Paths, Goto, Return, tables, ghosts
    <2> QED
      BY <2>2, <2>3
  <1>8. ASSUME NEW c \in Callers, Done(c) PROVE TInv'
    <2>1. TypeOK'
      BY <1>8 DEF Done, TypeOK, Goto, tables
    <2>2. Paths'
      BY <1>8 DEF Done, TypeOK, Paths, Goto, tables
    <2> QED
      BY <2>1, <2>2
  <1>9. CASE UNCHANGED vars
    BY <1>9 DEF vars, tables, ghosts, TypeOK, Paths, CacheKey
  <1> QED
    BY <1>1, <1>2, <1>3, <1>4, <1>5, <1>6, <1>7, <1>8, <1>9 DEF Next

\* Type correctness of the registry, its cache and the calls (registry.go 13-25).
THEOREM Typing == Spec => []TypeOK
  <1>1. TInv => TypeOK
    BY DEF TInv
  <1> QED
    BY TInvInit, TInvNext, <1>1, PTL DEF Spec

(***************************************************************************)
(* The instance cache.                                                     *)
(***************************************************************************)
\* An entry is a client of its own key, and whoever was given a client of a key was
\* given the entry, which stays.
CacheInv ==
  /\ \A k \in CacheKeys : cache[k] # None => cache[k].key = k
  /\ \A k \in CacheKeys : None \notin served[k] /\ served[k] \subseteq {cache[k]}
  /\ OwnCredentials

LEMMA CacheInvInit == Init => CacheInv
  BY DEF Init, CacheInv, OwnCredentials, Overridden

LEMMA CacheInvNext == TInv /\ CacheInv /\ [Next]_vars => CacheInv'
  <1> SUFFICES ASSUME TInv, CacheInv, [Next]_vars PROVE CacheInv'
    OBVIOUS
  <1> USE DEF TInv
  <1>1. ASSUME NEW n \in Names, NEW m \in Models, Register(n, m) PROVE CacheInv'
    BY <1>1 DEF Register, CacheInv, OwnCredentials, Overridden
  <1>2. ASSUME NEW c \in Callers, NEW p \in Presets, Resolve(c, p) PROVE CacheInv'
    <2>1. \A d \in Callers : Overridden(d)' => /\ Overridden(d) /\ d # c
                                             /\ preset'[d] = preset[d]
      BY <1>2 DEF Resolve, Overridden, Goto, TypeOK
    <2> QED
      BY <1>2, <2>1 DEF Resolve, CacheInv, OwnCredentials, tables
  <1>3. ASSUME NEW c \in Callers, Load(c) PROVE CacheInv'
    <2> DEFINE k == CacheKey(preset[c])
    <2>1. k \in CacheKeys
      BY <1>3, KeyOfPreset DEF Load, Paths
    <2>2. k = <<Upper[preset[c].provider], preset[c].creds>>
      BY DEF CacheKey
    <2> HIDE DEF k
    <2>3. cache' = cache /\ preset' = preset
      BY <1>3 DEF Load, tables
    <2>4. CASE cache[k] # None
      <3>1. result' = [result EXCEPT ![c] = cache[k]] /\ pc' = [pc EXCEPT ![c] = "returned"]
            /\ served' = [served EXCEPT ![k] = @ \cup {cache[k]}]
        BY <1>3, <2>4 DEF Load, Return, Goto, k
      <3>2. \A x \in CacheKeys : None \notin served'[x] /\ served'[x] \subseteq {cache[x]}
        BY <2>1, <2>4, <3>1 DEF CacheInv, TypeOK
      <3>3. result'[c] \in Instances /\ result'[c].key = k
        BY <2>1, <2>4, <3>1 DEF CacheInv, TypeOK
      <3>4. \A d \in Callers \ {c} : pc'[d] = pc[d] /\ result'[d] = result[d]
        BY <3>1 DEF TypeOK
      <3>5. OwnCredentials'
        BY <2>2, <2>3, <3>3, <3>4 DEF CacheInv, OwnCredentials, Overridden
      <3> QED
        BY <2>3, <3>2, <3>5 DEF CacheInv
    <2>5. CASE cache[k] = None
      <3>1. pc' = [pc EXCEPT ![c] = "create"] /\ UNCHANGED <<result, served>>
        BY <1>3, <2>5 DEF Load, Goto, k
      <3> QED
        BY <2>3, <3>1 DEF CacheInv, OwnCredentials, Overridden, TypeOK
    <2> QED
      BY <2>4, <2>5
  <1>4. ASSUME NEW c \in Callers, Create(c) PROVE CacheInv'
    <2>1. UNCHANGED <<tables, preset, served>>
      BY <1>4 DEF Create
    <2>2. \A d \in Callers \ {c} : pc'[d] = pc[d] /\ result'[d] = result[d]
      BY <1>4 DEF Create, Goto, Return, TypeOK
    <2>3. pc'[c] # "returned" \/ result'[c] = None
      BY <1>4 DEF Create, Goto, Return, TypeOK
    <2> QED
      BY <2>1, <2>2, <2>3 DEF CacheInv, OwnCredentials, Overridden, tables
  <1>5. ASSUME NEW c \in Callers, LoadOrStore(c) PROVE CacheInv'
    <2> DEFINE k == CacheKey(preset[c])
               actual == IF cache[k] = None THEN hand[c] ELSE cache[k]
    <2>1. k \in CacheKeys
      BY <1>5, KeyOfPreset DEF LoadOrStore, Paths
    <2>2. hand[c] \in Instances /\ hand[c].key = k
      BY <1>5 DEF LoadOrStore, Paths
    <2>3. k = <<Upper[preset[c].provider], preset[c].creds>>
      BY DEF CacheKey
    <2> HIDE DEF k
    <2>4. actual \in Instances /\ actual.key = k
      BY <2>1, <2>2 DEF TypeOK, CacheInv
    <2>5. actual # None
      BY <2>4, NoneIsNoInstance
    <2>6. cache[k] # None => actual = cache[k]
      OBVIOUS
    <2>7. /\ cache' = [cache EXCEPT ![k] = actual]
          /\ result' = [result EXCEPT ![c] = actual]
          /\ pc' = [pc EXCEPT ![c] = "returned"]
          /\ served' = [served EXCEPT ![k] = @ \cup {actual}]
          /\ preset' = preset
      BY <1>5 DEF LoadOrStore, Return, Goto, k
    <2> HIDE DEF actual
    <2>8. \A x \in CacheKeys : cache'[x] # None => cache'[x].key = x
      BY <2>1, <2>4, <2>7 DEF CacheInv, TypeOK
    <2>9. \A x \in CacheKeys : None \notin served'[x] /\ served'[x] \subseteq {cache'[x]}
      <3>1. served'[k] = served[k] \cup {actual} /\ cache'[k] = actual
        BY <2>1, <2>7 DEF TypeOK
      <3>2. \A x \in CacheKeys \ {k} : served'[x] = served[x] /\ cache'[x] = cache[x]
        BY <2>7 DEF TypeOK
      <3>3. None \notin served[k] /\ served[k] \subseteq {cache[k]}
        BY <2>1 DEF CacheInv
      <3>4. served[k] \subseteq {actual}
        BY <2>6, <3>3
      <3>5. None \notin served'[k] /\ served'[k] \subseteq {cache'[k]}
        BY <2>5, <3>1, <3>3, <3>4
      <3> QED
        BY <3>2, <3>5 DEF CacheInv
    <2>10. OwnCredentials'
      <3>1. \A d \in Callers \ {c} : pc'[d] = pc[d] /\ result'[d] = result[d]
        BY <2>7 DEF TypeOK
      <3>2. result'[c] = actual
        BY <2>7 DEF TypeOK
      <3> QED
        BY <2>3, <2>4, <2>7, <3>1, <3>2 DEF CacheInv, OwnCredentials, Overridden
    <2> QED
      BY <2>8, <2>9, <2>10 DEF CacheInv
  <1>6. ASSUME NEW c \in Callers, ByName(c) \/ ByType(c) PROVE CacheInv'
    <2>1. UNCHANGED <<tables, preset, served>>
      BY <1>6 DEF ByName, ByType
    <2>2. \A d \in Callers \ {c} : pc'[d] = pc[d] /\ result'[d] = result[d]
      BY <1>6 DEF ByName, ByType, Goto, Return, TypeOK
    <2>3. preset[c].creds = None
      BY <1>6 DEF ByName, ByType, Paths
    <2> QED
      BY <2>1, <2>2, <2>3 DEF CacheInv, OwnCredentials, Overridden, tables
  <1>7. ASSUME NEW c \in Callers, Done(c) PROVE CacheInv'
    <2>1. UNCHANGED <<tables, served>>
      BY <1>7 DEF Done
    <2>2. \A d \in Callers \ {c} : pc'[d] = pc[d] /\ result'[d] = result[d]
                                  /\ preset'[d] = preset[d]
      BY <1>7 DEF Done, Goto, TypeOK
    <2>3. pc'[c] = "idle"
      BY <1>7 DEF Done, Goto, TypeOK
    <2> QED
      BY <2>1, <2>2, <2>3 DEF CacheInv, OwnCredentials, Overridden, tables
  <1>8. CASE UNCHANGED vars
    BY <1>8 DEF vars, tables, CacheInv, OwnCredentials, Overridden
  <1> QED
    BY <1>1, <1>2, <1>3, <1>4, <1>5, <1>6, <1>7, <1>8 DEF Next

\* However many callers race to create the client of a preset's type and credentials,
\* there is one that is ever returned (registry.go 117-134).
THEOREM OneClientForAll == Spec => []OneInstance
  <1>1. CacheInv => OneInstance
    <2> SUFFICES ASSUME CacheInv, NEW k \in CacheKeys PROVE Cardinality(served[k]) <= 1
      BY DEF OneInstance
    <2>1. served[k] = {} \/ served[k] = {cache[k]}
      BY DEF CacheInv
    <2>2. Cardinality({}) = 0 /\ Cardinality({cache[k]}) = 1
      BY FS_EmptySet, FS_Singleton
    <2> QED
      BY <2>1, <2>2
  <1> QED
    BY TInvInit, TInvNext, CacheInvInit, CacheInvNext, <1>1, PTL DEF Spec

\* A preset with credentials is never answered with a client of others, nor with one of
\* another type, nor with a registered provider (registry.go 94-101).
THEOREM NoForeignClient == Spec => []OwnCredentials
  <1>1. CacheInv => OwnCredentials
    BY DEF CacheInv
  <1> QED
    BY TInvInit, TInvNext, CacheInvInit, CacheInvNext, <1>1, PTL DEF Spec

(***************************************************************************)
(* The two lookups.                                                        *)
(***************************************************************************)
\* What the tables say of a call's preset now, and what they said when it began.
\* Entries are replaced and never removed, and a default stays the default.
OrderInv ==
  /\ \A c \in Callers :
       /\ pc[c] = "byName" =>
            /\ knew[c] => providers[preset[c].name] # None
            /\ providers[preset[c].name] # None => providers[preset[c].name] \in seen[c]
       /\ pc[c] \in {"byName", "byType"} =>
            (covered[c] => defaults[Upper[preset[c].provider]] # None)
       /\ pc[c] = "byType" => ~knew[c]
  /\ ResolvesInOrder

LEMMA OrderInvInit == Init => OrderInv
  BY DEF Init, OrderInv, ResolvesInOrder, Plain

LEMMA OrderInvNext == TInv /\ OrderInv /\ [Next]_vars => OrderInv'
  <1> SUFFICES ASSUME TInv, OrderInv, [Next]_vars PROVE OrderInv'
    OBVIOUS
  <1> USE DEF TInv
  <1>1. ASSUME NEW n \in Names, NEW m \in Models, Register(n, m) PROVE OrderInv'
    <2>1. UNCHANGED <<pc, preset, result, knew, covered>>
      BY <1>1 DEF Register
    <2>2. m # None
      BY NoneAssumption
    <2>3. \A x \in Names : providers'[x] = IF x = n THEN m ELSE providers[x]
      BY <1>1 DEF Register, TypeOK
    <2>4. \A s \in Spellings : defaults[s] # None => defaults'[s] = defaults[s]
      <3>1. NameOf[m] \in Spellings
        BY ModelsAssumption
      <3> QED
        BY <1>1, <3>1 DEF Register, TypeOK
    <2>5. \A c \in Callers : seen[c] \subseteq seen'[c]
      BY <1>1 DEF Register, TypeOK
    <2>6. \A c \in Callers : pc[c] = "byName" /\ preset[c].name = n => m \in seen'[c]
      BY <1>1 DEF Register, TypeOK
    <2>7. ASSUME NEW c \in Callers, pc[c] \in {"byName", "byType"}
          PROVE  covered[c] => defaults'[Upper[preset[c].provider]] # None
      <3>1. Upper[preset[c].provider] \in Spellings
        BY <2>7, PresetFields DEF Paths
      <3> QED
        BY <2>4, <2>7, <3>1 DEF OrderInv
    <2>8. ASSUME NEW c \in Callers, pc[c] = "byName"
          PROVE  /\ knew[c] => providers'[preset[c].name] # None
                 /\ providers'[preset[c].name] # None => providers'[preset[c].name] \in seen'[c]
      <3>1. preset[c].name \in Names
        BY <2>8, PresetFields DEF Paths
      <3> QED
        BY <2>2, <2>3, <2>5, <2>6, <2>8, <3>1 DEF OrderInv
    <2>9. ASSUME NEW c \in Callers, Plain(c)
          PROVE  IF result[c] = None THEN ~knew[c] /\ ~covered[c]
                 ELSE \/ result[c] \in seen'[c]
                      \/ ~knew[c] /\ result[c] = defaults'[Upper[preset[c].provider]]
      <3>1. Upper[preset[c].provider] \in Spellings
        BY <2>9, PresetFields DEF Paths, Plain
      <3> QED
        BY <2>4, <2>5, <2>9, <3>1 DEF OrderInv, ResolvesInOrder
    <2> QED
      BY <2>1, <2>7, <2>8, <2>9 DEF OrderInv, ResolvesInOrder, Plain
  <1>2. ASSUME NEW c \in Callers, NEW p \in Presets, Resolve(c, p) PROVE OrderInv'
    <2>1. p.name \in Names
      BY PresetFields
    <2>2. /\ preset'[c] = p /\ (knew'[c] => providers[p.name] # None)
          /\ providers[p.name] # None => providers[p.name] \in seen'[c]
          /\ covered'[c] => defaults[Upper[p.provider]] # None
          /\ pc'[c] \in {"byName", "load"}
      BY <1>2 DEF Resolve, Goto, TypeOK
    <2>3. UNCHANGED <<providers, defaults, result>>
      BY <1>2 DEF Resolve, tables
    <2>4. \A d \in Callers \ {c} :
            pc'[d] = pc[d] /\ preset'[d] = preset[d] /\ knew'[d] = knew[d]
              /\ seen'[d] = seen[d] /\ covered'[d] = covered[d]
      BY <1>2 DEF Resolve, Goto, TypeOK
    <2> QED
      BY <2>2, <2>3, <2>4 DEF OrderInv, ResolvesInOrder, Plain
  <1>3. ASSUME NEW c \in Callers, Load(c) \/ Create(c) \/ LoadOrStore(c) PROVE OrderInv'
    <2>1. UNCHANGED <<providers, defaults, preset, ghosts>>
      BY <1>3 DEF Load, Create, LoadOrStore, tables, ghosts
    <2>2. \A d \in Callers \ {c} : pc'[d] = pc[d] /\ result'[d] = result[d]
      BY <1>3 DEF Load, Create, LoadOrStore, Goto, Return, TypeOK
    <2>3. preset[c].creds # None
      BY <1>3 DEF Load, Create, LoadOrStore, Paths
    <2>4. pc'[c] \in {"create", "store", "returned"}
      BY <1>3 DEF Load, Create, LoadOrStore, Goto, Return, TypeOK
    <2> QED
      BY <2>1, <2>2, <2>3, <2>4 DEF OrderInv, ResolvesInOrder, Plain, ghosts
  <1>4. ASSUME NEW c \in Callers, ByName(c) PROVE OrderInv'
    <2>1. UNCHANGED <<providers, defaults, preset, seen, knew, covered>>
      BY <1>4 DEF ByName, tables, ghosts
    <2>2. \A d \in Callers \ {c} : pc'[d] = pc[d] /\ result'[d] = result[d]
      BY <1>4 DEF ByName, Goto, Return, TypeOK
    <2>3. CASE providers[preset[c].name] # None
      <3>1. pc'[c] = "returned" /\ result'[c] = providers[preset[c].name]
        BY <1>4, <2>3 DEF ByName, Goto, Return, TypeOK
      <3>2. result'[c] \in seen[c]
        BY <1>4, <2>3, <3>1 DEF ByName, OrderInv
      <3> QED
        BY <2>1, <2>2, <2>3, <3>1, <3>2 DEF OrderInv, ResolvesInOrder, Plain
    <2>4. CASE providers[preset[c].name] = None
      <3>1. pc'[c] = "byType"
        BY <1>4, <2>4 DEF ByName, Goto, TypeOK
      <3>2. ~knew[c]
        BY <1>4, <2>4 DEF ByName, OrderInv
      <3>3. covered[c] => defaults[Upper[preset[c].provider]] # None
        BY <1>4 DEF ByName, OrderInv
      <3> QED
        BY <2>1, <2>2, <3>1, <3>2, <3>3 DEF OrderInv, ResolvesInOrder, Plain
    <2> QED
      BY <2>3, <2>4
  <1>5. ASSUME NEW c \in Callers, ByType(c) PROVE OrderInv'
    <2>1. UNCHANGED <<providers, defaults, preset, seen, knew, covered>>
      BY <1>5 DEF ByType, tables, ghosts
    <2>2. \A d \in Callers \ {c} : pc'[d] = pc[d] /\ result'[d] = result[d]
      BY <1>5 DEF ByType, Goto, Return, TypeOK
    <2>3. pc'[c] = "returned" /\ result'[c] = defaults[Upper[preset[c].provider]]
      BY <1>5 DEF ByType, Goto, Return, TypeOK
    <2>4. ~knew[c] /\ (covered[c] => defaults[Upper[preset[c].provider]] # None)
      BY <1>5 DEF ByType, OrderInv
    <2> QED
      BY <2>1, <2>2, <2>3, <2>4 DEF OrderInv, ResolvesInOrder, Plain
  <1>6. ASSUME NEW c \in Callers, Done(c) PROVE OrderInv'
    <2>1. UNCHANGED <<providers, defaults>>
      BY <1>6 DEF Done, tables
    <2>2. \A d \in Callers \ {c} :
            pc'[d] = pc[d] /\ result'[d] = result[d] /\ preset'[d] = preset[d]
              /\ knew'[d] = knew[d] /\ seen'[d] = seen[d] /\ covered'[d] = covered[d]
      BY <1>6 DEF Done, Goto, TypeOK
    <2>3. pc'[c] = "idle"
      BY <1>6 DEF Done, Goto, TypeOK
    <2> QED
      BY <2>1, <2>2, <2>3 DEF OrderInv, ResolvesInOrder, Plain
  <1>7. CASE UNCHANGED vars
    BY <1>7 DEF vars, tables, ghosts, OrderInv, ResolvesInOrder, Plain
  <1> QED
    BY <1>1, <1>2, <1>3, <1>4, <1>5, <1>6, <1>7 DEF Next

\* A provider that had the preset's name when the call began is never passed over, and a
\* call fails only if there was neither one nor a default, whatever is registered and
\* replaced between the two lookups (registry.go 103-113).
THEOREM OrderOfResolution == Spec => []ResolvesInOrder
  <1>1. OrderInv => ResolvesInOrder
    BY DEF OrderInv
  <1> QED
    BY TInvInit, TInvNext, OrderInvInit, OrderInvNext, <1>1, PTL DEF Spec

(***************************************************************************)
(* The options, from layer to layer and into the request.                  *)
(***************************************************************************)
\* A value for each field.
IsOptions(o) == o = [f \in Fields |-> o[f]]

\* A preset, an agent's options and a request's may be laid over one another in any
\* grouping: whoever merges early gets what one who merges late does (model.go 180-217).
THEOREM MergeAssociates ==
  ASSUME NEW a, NEW b, NEW c
  PROVE  Merge(Merge(a, b), c) = Merge(a, Merge(b, c))
  <1>1. ASSUME NEW f \in Fields
        PROVE  Merge(Merge(a, b), c)[f] = Merge(a, Merge(b, c))[f]
    <2>1. CASE f \in Merged
      BY <2>1 DEF Merge
    <2>2. CASE f \notin Merged
      BY <2>2 DEF Merge
    <2> QED
      BY <2>1, <2>2
  <1> QED
    BY <1>1 DEF Merge

\* Options without a value change nothing, under others or over them, apart from the
\* three fields that Merge passes over (model.go 180-217).
THEOREM MergeNothing ==
  ASSUME NEW o, IsOptions(o)
  PROVE  /\ Merge(o, NoOptions) = o
         /\ \A f \in Merged : Merge(NoOptions, o)[f] = o[f]
  <1>1. \A f \in Fields : Merge(o, NoOptions)[f] = o[f]
    BY DEF Merge, NoOptions
  <1>2. Merge(o, NoOptions) = [f \in Fields |-> o[f]]
    BY <1>1 DEF Merge
  <1>3. \A f \in Merged : Merge(NoOptions, o)[f] = o[f]
    BY DEF Merge, NoOptions, Fields
  <1> QED
    BY <1>2, <1>3 DEF IsOptions

\* A caller cannot take a value back: what a layer sets, later layers replace and never
\* unset, so that a temperature of 0 is not to be had over another (model.go 186-194).
THEOREM MergeKeepsSet ==
  ASSUME NEW a, NEW b, NEW f \in Fields, a[f] # Zero
  PROVE  Merge(a, b)[f] # Zero
  BY DEF Merge

\* What reaches the wire for a field is what the last layer that sets it says, with the
\* dialect's own default and translation made of that and of nothing below it (model.go
\* 182-217; openai 381-403, anthropic 344-353 and 383-389, openairesponses 356-376).
THEOREM LastWord ==
  ASSUME NEW dialect, NEW a, NEW b, NEW f \in Merged \cap Carried(dialect)
  PROVE  Parameters(dialect, Merge(a, b))[f] =
         IF b[f] # Zero THEN Parameters(dialect, b)[f] ELSE Parameters(dialect, a)[f]
  <1>1. f \in Fields /\ f \in Merged /\ f \in Carried(dialect)
    BY DEF Fields
  <1>2. CASE b[f] # Zero
    <2>1. Merge(a, b)[f] = b[f]
      BY <1>1, <1>2 DEF Merge
    <2> QED
      BY <1>1, <1>2, <2>1 DEF Parameters
  <1>3. CASE b[f] = Zero
    <2>1. Merge(a, b)[f] = a[f]
      BY <1>1, <1>3 DEF Merge
    <2> QED
      BY <1>1, <1>3, <2>1 DEF Parameters
  <1> QED
    BY <1>2, <1>3

\* A request that is sent through ollama has every option that its caller has set, and
\* each of the environment's that the caller has not (ollama/provider.go 92-106).
THEOREM CallerWins ==
  ASSUME NEW o, IsOptions(o), NEW env, NEW k \in Keys
  PROVE  LET sent == WithOllamaOptions(o, env)["ProviderOptions"]
             own  == o["ProviderOptions"] IN
         sent # Zero =>
           sent[k] = IF own # Zero /\ own[k] # Zero THEN own[k] ELSE env[k]
  <1> DEFINE own == IF o["ProviderOptions"] = Zero THEN [x \in Keys |-> Zero]
                    ELSE o["ProviderOptions"]
             both == [x \in Keys |-> IF own[x] # Zero THEN own[x] ELSE env[x]]
  <1>1. CASE o["ProviderOptions"] = Zero /\ \A x \in Keys : env[x] = Zero
    BY <1>1 DEF WithOllamaOptions
  <1>2. CASE ~(o["ProviderOptions"] = Zero /\ \A x \in Keys : env[x] = Zero)
    <2>1. WithOllamaOptions(o, env) = [o EXCEPT !["ProviderOptions"] = both]
      BY <1>2 DEF WithOllamaOptions
    <2>2. "ProviderOptions" \in DOMAIN o
      <3>1. DOMAIN [f \in Fields |-> o[f]] = Fields
        OBVIOUS
      <3> QED
        BY <3>1 DEF IsOptions, Fields
    <2>3. WithOllamaOptions(o, env)["ProviderOptions"] = both
      BY <2>1, <2>2
    <2>4. both[k] = IF own[k] # Zero THEN own[k] ELSE env[k]
      OBVIOUS
    <2>5. own[k] = IF o["ProviderOptions"] = Zero THEN Zero ELSE o["ProviderOptions"][k]
      OBVIOUS
    <2> QED
      BY <2>3, <2>4, <2>5
  <1> QED
    BY <1>1, <1>2
=============================================================================
