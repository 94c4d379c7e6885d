-------------------------- MODULE ProviderRegistry --------------------------
(***************************************************************************)
(* ai/registry.go, with ai/preset.go and ai/factory.go: the providers that *)
(* a service has registered, the default of each provider type, and the    *)
(* instances that presets with credentials of their own share.  Requests   *)
(* resolve presets while providers are registered and replaced.            *)
(*                                                                         *)
(* The RWMutex covers one lookup or one Register; GetChatModel makes up to *)
(* two lookups, and between the Load and the LoadOrStore of the instance   *)
(* cache there is no lock at all.                                          *)
(***************************************************************************)
EXTENDS Naturals, FiniteSets

CONSTANTS Callers,
          Names,      \* registry keys and preset names
          Spellings,  \* provider types as they are written: "openai", "OPENAI"
          Upper,      \* normaliseProviderType
          Factories,  \* the types with a registered factory, in capitals
          Models,     \* the providers a service may register
          NameOf,     \* GetProviderName of each
          Creds,      \* pairs of api_key and base_url
          Presets,
          None

ASSUME SpellingsAssumption == /\ Upper \in [Spellings -> Spellings]
                              /\ \A s \in Spellings : Upper[Upper[s]] = Upper[s]
                              /\ Factories \subseteq {Upper[s] : s \in Spellings}
ASSUME ModelsAssumption == NameOf \in [Models -> Spellings]
\* "valid": its config_json parses.
ASSUME PresetsAssumption ==
  Presets \subseteq [name : Names, provider : Spellings, creds : Creds \cup {None},
                     valid : BOOLEAN]
\* nil is no provider, no credentials and no instance.
ASSUME NoneAssumption ==
  None \notin Models \cup Creds \cup [key : Spellings \X Creds, by : Callers]

VARIABLES providers, defaults,
          cache,    \* instanceCache, by type and credentials
          pc, preset,
          hand,     \* the instance the call has just created
          result,   \* what the call returns; None is ErrProviderNotFound
          seen,     \* ghost: the models its name has had since the call began
          knew,     \* ghost: its name had one when the call began
          covered,  \* ghost: its type had a default when the call began
          served    \* ghost: the instances ever returned for a type and credentials

tables == <<providers, defaults, cache>>
ghosts == <<seen, knew, covered>>
vars == <<tables, pc, preset, hand, result, ghosts, served>>

CacheKeys == Spellings \X Creds
\* What factory(baseURL, apiKey) returns: two callers create two instances.
Instances == [key : CacheKeys, by : Callers]

TypeOK ==
  /\ providers \in [Names -> Models \cup {None}]
  /\ defaults \in [Spellings -> Models \cup {None}]
  /\ cache \in [CacheKeys -> Instances \cup {None}]
  /\ pc \in [Callers -> {"idle", "load", "create", "store", "byName", "byType", "returned"}]
  /\ preset \in [Callers -> Presets \cup {None}]
  /\ hand \in [Callers -> Instances \cup {None}]
  /\ result \in [Callers -> Models \cup Instances \cup {None}]
  /\ seen \in [Callers -> SUBSET Models]
  /\ knew \in [Callers -> BOOLEAN] /\ covered \in [Callers -> BOOLEAN]
  /\ served \in [CacheKeys -> SUBSET Instances]

Init ==
  /\ providers = [n \in Names |-> None] /\ defaults = [s \in Spellings |-> None]
  /\ cache = [k \in CacheKeys |-> None]
  /\ pc = [c \in Callers |-> "idle"] /\ preset = [c \in Callers |-> None]
  /\ hand = [c \in Callers |-> None] /\ result = [c \in Callers |-> None]
  /\ seen = [c \in Callers |-> {}]
  /\ knew = [c \in Callers |-> FALSE] /\ covered = [c \in Callers |-> FALSE]
  /\ served = [k \in CacheKeys |-> {}]

\* Register, under the write lock.  The first provider of a type is its default
\* from then on.
Register(n, m) ==
  /\ providers' = [providers EXCEPT ![n] = m]
  /\ defaults' = [defaults EXCEPT ![NameOf[m]] = IF @ = None THEN m ELSE @]
  /\ seen' = [c \in Callers |-> IF pc[c] \in {"byName", "byType"} /\ preset[c].name = n
                                THEN seen[c] \cup {m} ELSE seen[c]]
  /\ UNCHANGED <<cache, pc, preset, hand, result, knew, covered, served>>

(***************************************************************************)
(* GetChatModel.                                                           *)
(***************************************************************************)
Goto(c, stage) == pc' = [pc EXCEPT ![c] = stage]

Return(c, r) == /\ result' = [result EXCEPT ![c] = r]
                /\ Goto(c, "returned")

\* Fault: the base URL is left out of the key.  (The first credentials with the
\* same api_key stand for all of them.)
KeyWithoutURL(p) ==
  <<Upper[p.provider], CHOOSE x \in Creds : x.apiKey = p.creds.apiKey>>

\* normaliseProviderType(preset.Provider) + "|" + apiKey + "|" + baseURL, as a pair: keys
\* and URLs without a "|" are taken for granted.
CacheKey(p) == <<Upper[p.provider], p.creds>>

\* Fault: the named provider is the fallback of the default.
ResolveTypeFirst(c, p) ==
  /\ pc[c] = "idle" /\ p.valid
  /\ preset' = [preset EXCEPT ![c] = p]
  /\ seen' = [seen EXCEPT ![c] = {providers[p.name]} \ {None}]
  /\ knew' = [knew EXCEPT ![c] = providers[p.name] # None]
  /\ covered' = [covered EXCEPT ![c] = defaults[Upper[p.provider]] # None]
  /\ Goto(c, IF p.creds # None THEN "load"
             ELSE IF defaults[Upper[p.provider]] # None THEN "byType" ELSE "byName")
  /\ UNCHANGED <<tables, hand, result, served>>

\* ToChatOptions and OverrideCredentials.  A config_json that does not parse is an
\* error at once, and touches nothing.
Resolve(c, p) ==
  /\ pc[c] = "idle" /\ p.valid
  /\ preset' = [preset EXCEPT ![c] = p]
  /\ seen' = [seen EXCEPT ![c] = {providers[p.name]} \ {None}]
  /\ knew' = [knew EXCEPT ![c] = providers[p.name] # None]
  /\ covered' = [covered EXCEPT ![c] = defaults[Upper[p.provider]] # None]
  /\ Goto(c, IF p.creds = None THEN "byName" ELSE "load")
  /\ UNCHANGED <<tables, hand, result, served>>

\* instanceCache.Load
Load(c) ==
  LET k == CacheKey(preset[c]) IN
  /\ pc[c] = "load"
  /\ IF cache[k] # None
     THEN /\ Return(c, cache[k])
          /\ served' = [served EXCEPT ![k] = @ \cup {cache[k]}]
     ELSE Goto(c, "create") /\ UNCHANGED <<result, served>>
  /\ UNCHANGED <<tables, preset, hand, ghosts>>

\* FactoryFor, and the factory.
Create(c) ==
  LET t == Upper[preset[c].provider] IN
  /\ pc[c] = "create"
  /\ IF t \in Factories
     THEN /\ hand' = [hand EXCEPT ![c] = [key |-> <<t, preset[c].creds>>, by |-> c]]
          /\ Goto(c, "store") /\ UNCHANGED result
     ELSE Return(c, None) /\ UNCHANGED hand
  /\ UNCHANGED <<tables, preset, ghosts, served>>

\* Fault: Store in place of LoadOrStore.
StoreOver(c) ==
  LET k == CacheKey(preset[c]) IN
  /\ pc[c] = "store"
  /\ cache' = [cache EXCEPT ![k] = hand[c]]
  /\ Return(c, hand[c])
  /\ served' = [served EXCEPT ![k] = @ \cup {hand[c]}]
  /\ UNCHANGED <<providers, defaults, preset, hand, ghosts>>

\* LoadOrStore: what another caller has stored meanwhile wins.
LoadOrStore(c) ==
  LET k == CacheKey(preset[c])
      actual == IF cache[k] = None THEN hand[c] ELSE cache[k] IN
  /\ pc[c] = "store"
  /\ cache' = [cache EXCEPT ![k] = actual]
  /\ Return(c, actual)
  /\ served' = [served EXCEPT ![k] = @ \cup {actual}]
  /\ UNCHANGED <<providers, defaults, preset, hand, ghosts>>

\* Get(preset.Name)
ByName(c) ==
  LET m == providers[preset[c].name] IN
  /\ pc[c] = "byName"
  /\ IF m # None THEN Return(c, m) ELSE Goto(c, "byType") /\ UNCHANGED result
  /\ UNCHANGED <<tables, preset, hand, ghosts, served>>

\* GetDefault(normaliseProviderType(preset.Provider))
ByType(c) ==
  /\ pc[c] = "byType"
  /\ Return(c, defaults[Upper[preset[c].provider]])
  /\ UNCHANGED <<tables, preset, hand, ghosts, served>>

\* The caller has its answer; nothing of the call is left.
Done(c) ==
  /\ pc[c] = "returned"
  /\ Goto(c, "idle")
  /\ preset' = [preset EXCEPT ![c] = None] /\ hand' = [hand EXCEPT ![c] = None]
  /\ result' = [result EXCEPT ![c] = None] /\ seen' = [seen EXCEPT ![c] = {}]
  /\ knew' = [knew EXCEPT ![c] = FALSE] /\ covered' = [covered EXCEPT ![c] = FALSE]
  /\ UNCHANGED <<tables, served>>

Next == \/ \E n \in Names, m \in Models : Register(n, m)
        \/ \E c \in Callers :
             \/ \E p \in Presets : Resolve(c, p)
             \/ Load(c) \/ Create(c) \/ LoadOrStore(c)
             \/ ByName(c) \/ ByType(c) \/ Done(c)

Spec == Init /\ [][Next]_vars

(***************************************************************************)
(* Properties.                                                             *)
(***************************************************************************)
Overridden(c) == pc[c] = "returned" /\ preset[c].creds # None
Plain(c)      == pc[c] = "returned" /\ preset[c].creds = None

\* "Multiple presets sharing the same credentials reuse the same HTTP client"
\* (registry.go 10-11): however many callers race to create it, all of them, and all
\* later ones, get one instance.
OneInstance == \A k \in CacheKeys : Cardinality(served[k]) <= 1

\* A preset with credentials is answered with a client of just those credentials
\* and of its type, never with another preset's client out of the cache, and never
\* with a provider of the environment (registry.go 94-101).
OwnCredentials ==
  \A c \in Callers : Overridden(c) /\ result[c] # None =>
    /\ result[c] \in Instances
    /\ result[c].key = <<Upper[preset[c].provider], preset[c].creds>>

\* The order of resolution holds against registrations during the call: a provider
\* that had the preset's name before the call is not passed over for the default,
\* and the call fails only when neither was there before it (registry.go 103-113).
ResolvesInOrder ==
  \A c \in Callers : Plain(c) =>
    IF result[c] = None THEN ~knew[c] /\ ~covered[c]
    ELSE \/ result[c] \in seen[c]
         \/ ~knew[c] /\ result[c] = defaults[Upper[preset[c].provider]]

\* What the comment on GetChatModel says (registry.go 85): "Fall back to the default
\* registered provider for the provider type."  A call does not fail while a
\* provider of its type is registered.
FallsBack ==
  \A c \in Callers, m \in Models :
    pc[c] = "byType" /\ m \in {providers[n] : n \in Names}
      /\ Upper[NameOf[m]] = Upper[preset[c].provider]
      => defaults[Upper[preset[c].provider]] # None
=============================================================================
