----------------------------- MODULE TenantAuth -----------------------------
(***************************************************************************)
(* The chain auth.Middleware, tenant.Middleware, auth.RequireRole that a   *)
(* request passes (auth/middleware.go, tenant/middleware.go), and the JWKS *)
(* cache the requests share (auth/jwks.go), against realms that rotate     *)
(* their keys while tokens, responses and cache entries are under way.     *)
(*                                                                         *)
(* The lock of the cache covers one read or one write of its map: the      *)
(* fetch in between runs unlocked, so that two requests may fetch for the  *)
(* same realm at once and store their answers in either order.             *)
(***************************************************************************)
EXTENDS Integers

CONSTANTS Requests,
          Tenants,   \* realms of the Keycloak server
          Rotating,  \* the realms that change their keys
          Kids,      \* key identifiers; two realms may use the same one
          Tokens,    \* see TokensAssumption
          Role,      \* the argument of RequireRole
          TTL,       \* the cache's ttl, in ticks
          Latency,   \* bound: how long an answer of a realm may be under way
          None

\* What the chain looks at in a token.  "realm" is what the regular expression
\* /realms/([^/]+) finds in the issuer, None when it finds nothing; "allowed" is
\* the prefix check of AllowedIssuers; "signer" is the key that really signed.
TokenFields == [rsa : BOOLEAN, realm : Tenants \cup {None}, allowed : BOOLEAN,
                kid : Kids, signer : Tenants \X Kids, expired : BOOLEAN,
                roles : SUBSET {Role}]
ASSUME TokensAssumption == Tokens \subseteq TokenFields
ASSUME TimesAssumption == TTL \in Nat \ {0} /\ Latency \in Nat
ASSUME TenantsAssumption == None \notin Tenants \cup Tokens /\ Rotating \subseteq Tenants

VARIABLES
  published, \* the keys each realm serves
  gone,      \* ghost: ticks since each key was last served, at most Long
  entries,   \* the cache: None, or the keys and the ticks since fetchedAt
  pc, tok,
  got,       \* the keys of the request's own fetch
  flight,    \* ghost: ticks since the realm sent them
  missed     \* ghost: at some moment of the request, up to its own fetch, its realm
             \* did not serve its key

realms == <<published, gone>>
request == <<tok, got, flight, missed>>
vars == <<published, gone, entries, pc, tok, got, flight, missed>>

Long == TTL + Latency
Entry(keys) == [keys |-> keys, age |-> 0]

TypeOK ==
  /\ published \in [Tenants -> SUBSET Kids]
  /\ gone \in [Tenants -> [Kids -> 0 .. Long]]
  /\ entries \in [Tenants -> {None} \cup [keys : SUBSET Kids, age : 0 .. TTL]]
  /\ pc \in [Requests -> {"idle", "lookup", "fetch", "store", "handler", "unknownKey"}]
  /\ tok \in [Requests -> Tokens \cup {None}]
  /\ got \in [Requests -> SUBSET Kids]
  /\ flight \in [Requests -> 0 .. Latency]
  /\ missed \in [Requests -> BOOLEAN]

\* Every realm starts with a key, the same identifier in each.
Init ==
  /\ \E k \in Kids : published = [t \in Tenants |-> {k}]
  /\ gone = [t \in Tenants |-> [k \in Kids |-> IF k \in published[t] THEN 0 ELSE Long]]
  /\ entries = [t \in Tenants |-> None]
  /\ pc = [r \in Requests |-> "idle"]
  /\ tok = [r \in Requests |-> None]
  /\ got = [r \in Requests |-> {}]
  /\ flight = [r \in Requests |-> 0]
  /\ missed = [r \in Requests |-> FALSE]

(***************************************************************************)
(* The realms and the clock.                                               *)
(***************************************************************************)
UpTo(n, m) == IF n < m THEN n + 1 ELSE m

\* A tick of the clock.  Ages are kept up to the last one that matters.
Tick ==
  /\ \A r \in Requests : pc[r] = "store" => flight[r] < Latency
  /\ gone' = [t \in Tenants |->
                [k \in Kids |-> IF k \in published[t] THEN 0 ELSE UpTo(gone[t][k], Long)]]
  /\ entries' = [t \in Tenants |->
                   IF entries[t] = None THEN None
                   ELSE [entries[t] EXCEPT !.age = UpTo(@, TTL)]]
  /\ flight' = [r \in Requests |-> IF pc[r] = "store" THEN flight[r] + 1 ELSE 0]
  /\ UNCHANGED <<published, pc, tok, got, missed>>

AddKey(t, k) ==
  /\ t \in Rotating
  /\ published' = [published EXCEPT ![t] = @ \cup {k}]
  /\ gone' = [gone EXCEPT ![t][k] = 0]
  /\ UNCHANGED <<entries, pc, request>>

Needs(r, t, k) == tok[r].realm = t /\ tok[r].kid = k

DropKey(t, k) ==
  /\ t \in Rotating
  /\ published[t] \ {k} # {}
  /\ published' = [published EXCEPT ![t] = @ \ {k}]
  /\ missed' = [r \in Requests |->
                  missed[r] \/ (pc[r] \in {"lookup", "fetch"} /\ Needs(r, t, k))]
  /\ UNCHANGED <<gone, entries, pc, tok, got, flight>>

(***************************************************************************)
(* The chain.                                                              *)
(***************************************************************************)
To(r, stage) == pc' = [pc EXCEPT ![r] = stage]

\* The response is written and the request is over.
Answer(r) == /\ To(r, "idle")
             /\ tok' = [tok EXCEPT ![r] = None]
             /\ got' = [got EXCEPT ![r] = {}]
             /\ flight' = [flight EXCEPT ![r] = 0]
             /\ missed' = [missed EXCEPT ![r] = FALSE]

\* extractBearerToken (None is a request without a bearer token) and the key
\* function of parseToken up to the key.
Accepts(t) == t # None /\ t.rsa /\ t.realm # None /\ t.allowed

\* A request arrives.  One that is not accepted gets its 401 at once: nothing of it
\* stays.
Arrive(r, t) ==
  /\ pc[r] = "idle"
  /\ Accepts(t)
  /\ tok' = [tok EXCEPT ![r] = t]
  /\ missed' = [missed EXCEPT ![r] = t.kid \notin published[t.realm]]
  /\ To(r, "lookup")
  /\ UNCHANGED <<realms, entries, got, flight>>

\* Claims.HasRole: in realm_access or in any client of resource_access, which the
\* model does not tell apart.
HasRole(t) == Role \in t.roles

\* With its key found: the signature and the expiry, then the claims' tenant, which
\* tenant.Middleware reads from the same issuer, and the role.
Passes(r, t, k) == /\ tok[r].signer = <<t, k>> /\ ~tok[r].expired
                   /\ HasRole(tok[r])

\* The handler runs, or a 401 or 403 is written.
Judge(r, t, k) == IF Passes(r, t, k)
                  THEN To(r, "handler") /\ UNCHANGED request
                  ELSE Answer(r)

\* Fault: the age of the entry is looked at only for keys it does not have.
FreshForever(t) == entries[t] # None

\* time.Since(entry.fetchedAt) < c.ttl
Fresh(t) == entries[t] # None /\ entries[t].age < TTL

\* getKey reads the entry under RLock.
Lookup(r) ==
  LET t == tok[r].realm  k == tok[r].kid IN
  /\ pc[r] = "lookup"
  /\ IF Fresh(t) /\ k \in entries[t].keys
     THEN Judge(r, t, k)
     ELSE To(r, "fetch") /\ UNCHANGED request
  /\ UNCHANGED <<realms, entries>>

\* The realm answers a fetchJWKS; the answer is on its way.
Serve(r) ==
  /\ pc[r] = "fetch"
  /\ got' = [got EXCEPT ![r] = published[tok[r].realm]]
  /\ To(r, "store")
  /\ UNCHANGED <<realms, entries, tok, flight, missed>>

\* The fetch fails, or its status is not 200, or its body does not decode: a 401,
\* and the entry stays as it is.
FetchFails(r) ==
  /\ pc[r] \in {"fetch", "store"}
  /\ Answer(r)
  /\ UNCHANGED <<realms, entries>>

\* Fault: an entry that is fresh is kept, and the map decides.
StoreOnce(r) ==
  LET t == tok[r].realm  k == tok[r].kid
      e == IF Fresh(t) THEN entries[t] ELSE Entry(got[r]) IN
  /\ pc[r] = "store"
  /\ entries' = [entries EXCEPT ![t] = e]
  /\ IF k \in e.keys THEN Judge(r, t, k)
                     ELSE To(r, "unknownKey") /\ UNCHANGED request
  /\ UNCHANGED realms

\* Fault: a store adds the new keys to those of the entry that is there.
StoreMore(r) ==
  LET t == tok[r].realm  k == tok[r].kid
      old == IF entries[t] = None THEN {} ELSE entries[t].keys IN
  /\ pc[r] = "store"
  /\ entries' = [entries EXCEPT ![t] = Entry(got[r] \cup old)]
  /\ IF k \in got[r] THEN Judge(r, t, k)
                     ELSE To(r, "unknownKey") /\ UNCHANGED request
  /\ UNCHANGED realms

\* The answer is stored under Lock, over whatever is there, with the time of the
\* store; the key is looked up in the request's own answer.
Store(r) ==
  LET t == tok[r].realm  k == tok[r].kid IN
  /\ pc[r] = "store"
  /\ entries' = [entries EXCEPT ![t] = Entry(got[r])]
  /\ IF k \in got[r] THEN Judge(r, t, k)
                     ELSE To(r, "unknownKey") /\ UNCHANGED request
  /\ UNCHANGED realms

\* The handler returns, or the 401 for an unknown key is written.
Respond(r) ==
  /\ pc[r] \in {"handler", "unknownKey"}
  /\ Answer(r)
  /\ UNCHANGED <<realms, entries>>

Next == \/ Tick
        \/ \E t \in Tenants, k \in Kids : AddKey(t, k) \/ DropKey(t, k)
        \/ \E r \in Requests :
             \/ \E t \in Tokens \cup {None} : Arrive(r, t)
             \/ Lookup(r) \/ Serve(r) \/ FetchFails(r) \/ Store(r) \/ Respond(r)

Spec == Init /\ [][Next]_vars

(***************************************************************************)
(* Properties.                                                             *)
(***************************************************************************)
\* What a fresh entry holds about a realm was true of that realm at most Latency
\* before the entry's fetchedAt, whichever of several concurrent fetches stored
\* last (jwks.go 63-69).
CacheHonest ==
  \A t \in Tenants : Fresh(t) =>
    \A k \in entries[t].keys : gone[t][k] <= entries[t].age + Latency

\* The token of a request that may enter the handler now.
Admissible(r) ==
  LET t == tok[r].realm  k == tok[r].kid IN
  /\ tok[r].rsa /\ tok[r].allowed /\ ~tok[r].expired /\ Role \in tok[r].roles
  /\ tok[r].signer = <<t, k>> /\ gone[t][k] < Long

\* A request enters the handler only with an unexpired token of an allowed issuer that
\* has the role, signed by a key that the token's own realm served less than TTL plus
\* one answer's latency ago: a withdrawn key dies that soon (jwks.go 51-77,
\* middleware.go 68-103).
Admission ==
  [][\A r \in Requests : pc[r] # "handler" /\ pc'[r] = "handler" => Admissible(r)]_vars

\* A request is refused for an unknown key only when its realm really did not
\* serve that key at some moment since the request came in: neither a cached entry
\* nor the older answer of another request can hide a key the realm has rotated in
\* (jwks.go 56-76).
NewKeyIsFound == \A r \in Requests : pc[r] = "unknownKey" => missed[r]
=============================================================================
