------------------------- MODULE ProvisioningProofs -------------------------
(***************************************************************************)
(* Proofs about Provisioning, for any callers, tenants, roles and users,   *)
(* and any number of accounts and of requests that are carried out late.   *)
(***************************************************************************)
EXTENDS Provisioning, TLAPS

(***************************************************************************)
(* Requests.                                                               *)
(***************************************************************************)
\* What a call asks for is what the server understands.
WellFormed(q) == /\ q \in Request
                 /\ q.kind = "role" => q.arg \in Roles
                 /\ q.kind = "user" => q.arg \in Names

\* A request that creates has its effect: nobody takes that back.
Effect(q) == /\ q.kind = "realm"  => q.tenant \in realms
             /\ q.kind = "client" => q.tenant \in clients
             /\ q.kind = "role"   => q.arg \in roles[q.tenant]
             /\ q.kind = "make"   => q.tenant \in buckets

\* The user that a request is about is gone, for good as no id is given twice.
Gone(q) == OfId(q) = {}

\* What an answer that is no refusal says, when the requests before it have had effect.
Meant(q, a) ==
  /\ q.kind \in {"realm", "client", "role", "make"} => a.status \in {"created", "conflict"}
  /\ q.kind = "exists" => a.status \in {"found", "notFound"}
  /\ q.kind = "get"    => a.status = "found" \/ Gone(q)
  /\ q.kind = "delete" => a.status = "deleted" \/ Gone(q)

(***************************************************************************)
(* The inductive invariant.                                                *)
(***************************************************************************)
\* A call begins with its first request.
Fresh(c) == pc[c] = "idle" => at[c] = 1

\* A call has its subject, and is at one of its requests.
Bound(c) ==
  pc[c] # "idle" =>
    /\ on[c] \in Subject
    /\ at[c] \in 1 .. Len(Requests(c))
    /\ op[c] = "user" => on[c].user \in Names
    /\ op[c] \in {"get", "delete"} => on[c].user \in 1 .. lastId

\* The requests behind it have had their effects.
Behind(c) == pc[c] # "idle" => \A i \in 1 .. at[c] - 1 : Effect(Requests(c)[i])

\* An answer is true, until the call has looked at it.
Told(c) ==
  pc[c] = "answered" =>
    /\ answer[c].status \in {"created", "conflict"} => Effect(Now(c))
    /\ ~trouble[c] => Meant(Now(c), answer[c])

\* The result is what the properties say, and nil of ProvisionTenant means every request.
Result(c) ==
  pc[c] = "done" =>
    /\ op[c] = "provision" /\ ret[c] = "ok" =>
         \A i \in 1 .. Len(Requests(c)) : Effect(Requests(c)[i])
    /\ ret[c] = "error" /\ ~trouble[c] =>
         /\ op[c] # "provision"
         /\ op[c] = "bucket" => on[c].tenant \in buckets
         /\ op[c] \in {"get", "delete"} => Gone(Now(c))

CallInv(c) == Fresh(c) /\ Bound(c) /\ Behind(c) /\ Told(c) /\ Result(c)

Inv == /\ TypeOK
       /\ \A q \in abandoned : WellFormed(q)
       /\ \A c \in Callers : CallInv(c)

(***************************************************************************)
(* The lists of requests.                                                  *)
(***************************************************************************)
\* The kinds of requests.
Kinds == {"realm", "client", "role", "user", "get", "delete", "exists", "make"}

LEMMA ReqIs ==
  ASSUME NEW k \in Kinds, NEW t \in Tenants, NEW a \in Names \cup Ids \cup Roles \cup {None}
  PROVE  /\ Req(k, t, a).kind = k /\ Req(k, t, a).tenant = t /\ Req(k, t, a).arg = a
         /\ Req(k, t, a) \in Request
  BY DEF Req, Request, Kinds

LEMMA ProvisionRequests ==
  ASSUME NEW t \in Tenants
  PROVE  /\ Len(DefaultRoles) \in Nat
         /\ Len(ProvisionTenant(t)) = 2 + Len(DefaultRoles)
         /\ ProvisionTenant(t)[1] = Req("realm", t, None)
         /\ ProvisionTenant(t)[2] = Req("client", t, None)
         /\ \A i \in 1 .. Len(DefaultRoles) :
              DefaultRoles[i] \in Roles /\ ProvisionTenant(t)[i + 2] = Req("role", t, DefaultRoles[i])
  <1> DEFINE first == <<Req("realm", t, None), Req("client", t, None)>>
             rest  == [i \in DOMAIN DefaultRoles |-> Req("role", t, DefaultRoles[i])]
  <1>1. /\ Len(DefaultRoles) \in Nat /\ DOMAIN DefaultRoles = 1 .. Len(DefaultRoles)
        /\ \A i \in 1 .. Len(DefaultRoles) : DefaultRoles[i] \in Roles
    BY RolesAssumption
  <1>2. first \in Seq({Req("realm", t, None), Req("client", t, None)}) /\ Len(first) = 2
    OBVIOUS
  <1>3. rest \in Seq({Req("role", t, r) : r \in Roles}) /\ Len(rest) = Len(DefaultRoles)
    <2>1. rest \in [1 .. Len(DefaultRoles) -> {Req("role", t, r) : r \in Roles}]
      BY <1>1
    <2> QED
      BY <1>1, <2>1
  <1>4. Len(first \o rest) = 2 + Len(DefaultRoles)
    BY <1>1, <1>2, <1>3
  <1>5. (first \o rest)[1] = first[1] /\ (first \o rest)[2] = first[2]
    BY <1>1, <1>2, <1>3
  <1>6. \A i \in 1 .. Len(DefaultRoles) : (first \o rest)[i + 2] = rest[i]
    BY <1>1, <1>2, <1>3
  <1> QED
    BY <1>1, <1>4, <1>5, <1>6 DEF ProvisionTenant

\* What the requests of a call are, by its operation.
LEMMA CallRequests ==
  ASSUME TypeOK, NEW c \in Callers, pc[c] # "idle", Bound(c)
  PROVE  /\ on[c].tenant \in Tenants /\ Len(Requests(c)) \in 1 .. 2 + Len(DefaultRoles)
         /\ op[c] = "provision" =>
              /\ Requests(c) = ProvisionTenant(on[c].tenant)
              /\ Len(Requests(c)) = 2 + Len(DefaultRoles)
         /\ op[c] = "bucket" =>
              /\ Len(Requests(c)) = 2
              /\ Requests(c)[1] = Req("exists", on[c].tenant, None)
              /\ Requests(c)[2] = Req("make", on[c].tenant, None)
         /\ op[c] \in {"user", "get", "delete"} =>
              /\ Len(Requests(c)) = 1
              /\ Requests(c)[1] = Req(op[c], on[c].tenant, on[c].user)
  <1>1. on[c].tenant \in Tenants
    BY DEF Bound, Subject
  <1>2. CASE op[c] = "provision"
    BY <1>1, <1>2, ProvisionRequests DEF Requests
  <1>3. CASE op[c] = "bucket"
    BY <1>1, <1>3, ProvisionRequests DEF Requests, EnsureBucket
  <1>4. CASE op[c] \in {"user", "get", "delete"}
    BY <1>1, <1>4, ProvisionRequests DEF Requests
  <1> QED
    BY <1>2, <1>3, <1>4 DEF TypeOK

\* Each request of a call, by its position; those of ProvisionTenant have the realm's
\* before them.
LEMMA EachRequest ==
  ASSUME TypeOK, NEW c \in Callers, pc[c] # "idle", Bound(c),
         NEW i \in 1 .. Len(Requests(c))
  PROVE  LET q == Requests(c)[i] IN
         /\ q.tenant = on[c].tenant
         /\ op[c] = "provision" =>
              /\ q.kind \in {"realm", "client", "role"}
              /\ q.kind # "realm" => i > 1 /\ Requests(c)[1].kind = "realm"
                                     /\ Requests(c)[1].tenant = on[c].tenant
         /\ op[c] = "bucket" => q.kind = IF i = 2 THEN "make" ELSE "exists"
         /\ op[c] \in {"user", "get", "delete"} =>
              q.kind = op[c] /\ q.arg = on[c].user /\ i = 1
         /\ WellFormed(q)
  <1> DEFINE q == Requests(c)[i]
  <1>1. on[c].tenant \in Tenants /\ Len(DefaultRoles) \in Nat
    BY CallRequests, ProvisionRequests
  <1>2. CASE op[c] = "provision"
    <2>1. i \in 1 .. 2 + Len(DefaultRoles) /\ q = ProvisionTenant(on[c].tenant)[i]
      BY <1>2, CallRequests
    <2>2. CASE i = 1
      BY <1>1, <1>2, <2>1, <2>2, ProvisionRequests, ReqIs DEF WellFormed, Kinds
    <2>3. CASE i # 1
      <3>1. Requests(c)[1] = Req("realm", on[c].tenant, None) /\ i > 1
        BY <1>1, <1>2, <2>1, <2>3, CallRequests, ProvisionRequests
      <3>2. CASE i = 2
        BY <1>1, <1>2, <2>1, <3>1, <3>2, ProvisionRequests, ReqIs DEF WellFormed, Kinds
      <3>3. CASE i # 2
        <4>1. i - 2 \in 1 .. Len(DefaultRoles) /\ i = (i - 2) + 2
          BY <1>1, <2>1, <3>1, <3>3
        <4>2. q = Req("role", on[c].tenant, DefaultRoles[i - 2]) /\ DefaultRoles[i - 2] \in Roles
          BY <1>1, <2>1, <4>1, ProvisionRequests
        <4> QED
          BY <1>1, <1>2, <3>1, <4>2, ReqIs DEF WellFormed, Kinds
      <3> QED
        BY <3>2, <3>3
    <2> QED
      BY <2>2, <2>3
  <1>3. CASE op[c] = "bucket"
    <2>1. i \in 1 .. 2
      BY <1>3, CallRequests
    <2> QED
      BY <1>1, <1>3, <2>1, CallRequests, ReqIs DEF WellFormed, Kinds
  <1>4. CASE op[c] \in {"user", "get", "delete"}
    <2>1. Len(Requests(c)) = 1 /\ Requests(c)[1] = Req(op[c], on[c].tenant, on[c].user)
      BY <1>4, CallRequests
    <2>2. i = 1
      BY <2>1
    <2>3. on[c].user \in Names \cup Ids \cup {None}
      BY DEF Bound, Subject
    <2> QED
      BY <1>1, <1>4, <2>1, <2>2, <2>3, ReqIs DEF Bound, WellFormed, Kinds
  <1> QED
    BY <1>2, <1>3, <1>4 DEF TypeOK

(***************************************************************************)
(* The servers.                                                            *)
(***************************************************************************)
ServerTypes ==
  /\ realms \subseteq Tenants /\ clients \subseteq Tenants /\ buckets \subseteq Tenants
  /\ roles \in [Tenants -> SUBSET Roles]
  /\ accounts \subseteq Account /\ lastId \in Ids

\* The servers forget nothing but accounts, and use an id once.
Grows == /\ realms \subseteq realms' /\ clients \subseteq clients' /\ buckets \subseteq buckets'
         /\ \A t \in Tenants : roles[t] \subseteq roles'[t]
         /\ lastId <= lastId'
         /\ \A x \in accounts' : x \in accounts \/ x.id > lastId

LEMMA NothingGrows ==
  ASSUME ServerTypes, UNCHANGED servers
  PROVE  Grows /\ ServerTypes'
  BY DEF ServerTypes, Grows, servers, Ids

\* What a request that is carried out does, and what its answer says.
LEMMA CreateDoes ==
  ASSUME ServerTypes, NEW q, WellFormed(q), NEW a, Create(q, a)
  PROVE  /\ Grows /\ ServerTypes'
         /\ a.status \in {"created", "conflict"} => Effect(q)'
         /\ (q.kind \in {"client", "role"} => q.tenant \in realms) => Meant(q, a)'
  <1>1. q.tenant \in Tenants /\ q.kind \in {"realm", "client", "role", "make"}
    BY DEF Create, WellFormed, Request
  <1>2. UNCHANGED <<accounts, lastId>> /\ lastId <= lastId'
    BY DEF Create, ServerTypes, Ids
  <1> USE DEF Grows, ServerTypes, Effect, Meant, Status, Made
  <1>3. CASE q.kind = "realm"
    <2>1. /\ a = Made(q.tenant \in realms)
          /\ realms' = realms \cup {q.tenant} /\ UNCHANGED <<clients, roles, buckets>>
      BY <1>3 DEF Create
    <2> QED
      BY <1>1, <1>2, <1>3, <2>1
  <1>4. CASE q.kind = "make"
    <2>1. /\ a = Made(q.tenant \in buckets)
          /\ buckets' = buckets \cup {q.tenant} /\ UNCHANGED <<realms, clients, roles>>
      BY <1>4 DEF Create
    <2> QED
      BY <1>1, <1>2, <1>4, <2>1
  <1>5. CASE q.kind \in {"client", "role"} /\ q.tenant \notin realms
    BY <1>1, <1>2, <1>5 DEF Create
  <1>6. CASE q.kind = "client" /\ q.tenant \in realms
    <2>1. /\ a = Made(q.tenant \in clients)
          /\ clients' = clients \cup {q.tenant} /\ UNCHANGED <<realms, roles, buckets>>
      BY <1>6 DEF Create
    <2> QED
      BY <1>1, <1>2, <1>6, <2>1
  <1>7. CASE q.kind = "role" /\ q.tenant \in realms
    <2>1. /\ a = Made(q.arg \in roles[q.tenant])
          /\ roles' = [roles EXCEPT ![q.tenant] = @ \cup {q.arg}]
          /\ UNCHANGED <<realms, clients, buckets>>
      BY <1>7 DEF Create
    <2>2. q.arg \in Roles
      BY <1>7 DEF WellFormed
    <2>3. /\ roles' \in [Tenants -> SUBSET Roles] /\ q.arg \in roles'[q.tenant]
          /\ \A t \in Tenants : roles[t] \subseteq roles'[t]
      BY <1>1, <2>1, <2>2
    <2> QED
      BY <1>1, <1>2, <1>7, <2>1, <2>3
  <1> QED
    BY <1>1, <1>3, <1>4, <1>5, <1>6, <1>7

LEMMA AccountDoes ==
  ASSUME ServerTypes, NEW q, WellFormed(q), NEW a, CreateAccount(q, a)
  PROVE  Grows /\ ServerTypes' /\ Effect(q)' /\ Meant(q, a)'
  <1>1. q.tenant \in Tenants /\ q.kind = "user" /\ q.arg \in Names
    BY DEF CreateAccount, WellFormed, Request
  <1>2. Effect(q)' /\ Meant(q, a)'
    BY <1>1 DEF Effect, Meant
  <1>3. UNCHANGED <<realms, clients, roles, buckets>>
    BY DEF CreateAccount
  <1>4. CASE UNCHANGED <<accounts, lastId>>
    BY <1>2, <1>3, <1>4, NothingGrows DEF servers
  <1>5. CASE /\ lastId < MaxAccounts /\ lastId' = lastId + 1
             /\ accounts' = accounts \cup {[tenant |-> q.tenant, name |-> q.arg, id |-> lastId']}
    <2>1. lastId' \in Ids \ {0} /\ lastId' > lastId
      BY <1>5, BoundsAssumption DEF ServerTypes, Ids
    <2>2. [tenant |-> q.tenant, name |-> q.arg, id |-> lastId'] \in Account
      BY <1>1, <2>1 DEF Account
    <2>3. accounts' \subseteq Account
      BY <1>5, <2>2 DEF ServerTypes
    <2>4. \A x \in accounts' : x \in accounts \/ x.id > lastId
      BY <1>5, <2>1
    <2>5. lastId \in Int
      BY DEF ServerTypes, Ids
    <2> QED
      BY <1>2, <1>3, <2>1, <2>3, <2>4, <2>5 DEF ServerTypes, Grows
  <1> QED
    BY <1>4, <1>5 DEF CreateAccount

LEMMA DeleteDoes ==
  ASSUME ServerTypes, NEW q, NEW a, DeleteAccount(q, a)
  PROVE  Grows /\ ServerTypes' /\ Effect(q)' /\ Meant(q, a)'
  <1>1. Effect(q)'
    BY DEF DeleteAccount, Effect
  <1>2. OfId(q) = {} => OfId(q)' = {}
    BY DEF DeleteAccount, OfId
  <1>3. Meant(q, a)'
    BY <1>2 DEF DeleteAccount, Meant, Status, Gone
  <1>4. Grows /\ ServerTypes'
    BY DEF DeleteAccount, Grows, ServerTypes, Ids
  <1> QED
    BY <1>1, <1>3, <1>4

LEMMA ReadDoes ==
  ASSUME ServerTypes, NEW q, NEW a, Read(q, a)
  PROVE  Grows /\ ServerTypes' /\ Effect(q)' /\ Meant(q, a)'
  <1>1. UNCHANGED servers
    BY DEF Read
  <1>2. OfId(q) = {} => OfId(q)' = {}
    BY <1>1 DEF OfId, servers
  <1>3. Effect(q)' /\ Meant(q, a)'
    BY <1>2 DEF Read, Effect, Meant, Status, Gone
  <1> QED
    BY <1>1, <1>3, NothingGrows

LEMMA HandleDoes ==
  ASSUME ServerTypes, NEW q, WellFormed(q), NEW a, Handle(q, a)
  PROVE  /\ Grows /\ ServerTypes'
         /\ a.status \in {"created", "conflict"} => Effect(q)'
         /\ (q.kind \in {"client", "role"} => q.tenant \in realms) => Meant(q, a)'
  BY CreateDoes, AccountDoes, DeleteDoes, ReadDoes DEF Handle

\* What has been achieved stays, and who is gone does not come back.
LEMMA EffectStays ==
  ASSUME Grows, NEW q, q.tenant \in Tenants
  PROVE  Effect(q) => Effect(q)'
  BY DEF Grows, Effect

LEMMA GoneStays ==
  ASSUME Grows, lastId \in Int, NEW q, q.arg \in 1 .. lastId
  PROVE  Gone(q) => Gone(q)'
  <1> SUFFICES ASSUME Gone(q), NEW x \in accounts', x.tenant = q.tenant, x.id = q.arg
               PROVE  FALSE
    BY DEF Gone, OfId
  <1>1. x.id <= lastId
    OBVIOUS
  <1>2. x \in accounts
    BY <1>1 DEF Grows
  <1> QED
    BY <1>2 DEF Gone, OfId

(***************************************************************************)
(* The steps.                                                              *)
(***************************************************************************)
\* The locals of a call.
Same(c) == /\ pc'[c] = pc[c] /\ op'[c] = op[c] /\ on'[c] = on[c] /\ at'[c] = at[c]
           /\ answer'[c] = answer[c] /\ ret'[c] = ret[c] /\ trouble'[c] = trouble[c]

\* The servers only grow under a call that does nothing itself.
LEMMA CallStays ==
  ASSUME Inv, Grows, ServerTypes', NEW c \in Callers, Same(c)
  PROVE  CallInv(c)'
  <1>1. CASE pc[c] = "idle"
    BY <1>1 DEF Same, Inv, CallInv, Fresh, Bound, Behind, Told, Result
  <1>2. CASE pc[c] # "idle"
    <2>1. Bound(c) /\ Behind(c) /\ Told(c) /\ Result(c) /\ TypeOK
      BY DEF Inv, CallInv
    <2>2. Requests(c)' = Requests(c) /\ Now(c)' = Now(c)
      BY DEF Same, Requests, Now
    <2>3. lastId \in Int /\ lastId' \in Int /\ lastId' >= lastId
      BY <2>1 DEF TypeOK, Ids, Grows, ServerTypes
    <2>4. on[c].tenant \in Tenants /\ at[c] \in 1 .. Len(Requests(c))
      BY <1>2, <2>1, CallRequests DEF Bound
    <2>5. \A i \in 1 .. Len(Requests(c)) : Effect(Requests(c)[i]) => Effect(Requests(c)[i])'
      <3> TAKE i \in 1 .. Len(Requests(c))
      <3> DEFINE q == Requests(c)[i]
      <3>1. q.tenant \in Tenants
        BY <1>2, <2>1, <2>4, EachRequest
      <3>2. Effect(q) => /\ q.kind = "realm"  => q.tenant \in realms'
                         /\ q.kind = "client" => q.tenant \in clients'
                         /\ q.kind = "role"   => q.arg \in roles'[q.tenant]
                         /\ q.kind = "make"   => q.tenant \in buckets'
        BY <3>1, EffectStays DEF Effect
      <3> QED
        BY <2>2, <3>2 DEF Effect
    <2>6. Effect(Now(c)) => Effect(Now(c))'
      BY <2>2, <2>4, <2>5 DEF Now
    <2>7. op[c] \in {"get", "delete"} => (Gone(Now(c)) => Gone(Now(c))')
      <3> SUFFICES ASSUME op[c] \in {"get", "delete"}, Gone(Now(c))
                   PROVE  Gone(Now(c))'
        OBVIOUS
      <3>1. Now(c).arg \in 1 .. lastId
        BY <1>2, <2>1, <2>4, EachRequest DEF Now, Bound
      <3> DEFINE q == Now(c)
      <3>2. {x \in accounts' : x.tenant = q.tenant /\ x.id = q.arg} = {}
        BY <2>3, <3>1, GoneStays DEF Gone, OfId
      <3> QED
        BY <2>2, <3>2 DEF Gone, OfId
    <2>8. Bound(c)'
      <3>1. on[c].user \in 1 .. lastId => on[c].user \in 1 .. lastId'
        BY <2>3
      <3>2. Subject' = Subject
        BY DEF Subject, Ids
      <3> QED
        BY <1>2, <2>1, <2>2, <3>1, <3>2 DEF Same, Bound
    <2>9. Behind(c)'
      BY <1>2, <2>1, <2>2, <2>4, <2>5 DEF Same, Behind
    <2>10. Told(c)'
      <3>1. ~trouble[c] /\ pc[c] = "answered" => Meant(Now(c), answer[c])'
        <4> SUFFICES ASSUME ~trouble[c], pc[c] = "answered"
                     PROVE  Meant(Now(c), answer[c])'
          OBVIOUS
        <4>1. Meant(Now(c), answer[c])
          BY <2>1 DEF Told
        <4>2. Now(c).kind \in {"get", "delete"} => op[c] \in {"get", "delete"}
          <5>1. op[c] \in {"provision", "bucket", "user", "get", "delete"}
            BY <2>1 DEF TypeOK
          <5> QED
            BY <1>2, <2>1, <2>4, <5>1, EachRequest DEF Now
        <4> QED
          BY <2>2, <2>7, <4>1, <4>2 DEF Same, Meant
      <3> QED
        BY <2>1, <2>2, <2>6, <3>1 DEF Same, Told
    <2>11. Result(c)'
      <3>1. on[c].tenant \in buckets => on[c].tenant \in buckets'
        BY DEF Grows
      <3> QED
        BY <2>1, <2>2, <2>5, <2>7, <3>1 DEF Same, Result
    <2> QED
      BY <1>2, <2>8, <2>9, <2>10, <2>11 DEF CallInv, Fresh, Same
  <1> QED
    BY <1>1, <1>2

CallTypes ==
  /\ pc \in [Callers -> {"idle", "token", "sent", "answered", "done"}]
  /\ op \in [Callers -> {"provision", "user", "get", "delete", "bucket"}]
  /\ on \in [Callers -> Subject \cup {None}]
  /\ at \in [Callers -> 1 .. 2 + Len(DefaultRoles)]
  /\ answer \in [Callers -> [status : {"none", "created", "conflict", "found", "notFound",
                                       "deleted", "refused"}, id : Ids]]
  /\ ret \in [Callers -> {"none", "ok", "error"}]
  /\ trouble \in [Callers -> BOOLEAN]

LEMMA Types == TypeOK <=> ServerTypes /\ abandoned \subseteq Request /\ CallTypes
  BY DEF TypeOK, ServerTypes, CallTypes

LEMMA TypesNext == TypeOK' <=> ServerTypes' /\ abandoned' \subseteq Request /\ CallTypes'
  BY DEF TypeOK, ServerTypes, CallTypes

\* What a step of one call has to show.
LEMMA OneCall ==
  ASSUME Inv, Grows, ServerTypes', CallTypes', NEW c \in Callers, CallInv(c)',
         \A d \in Callers \ {c} : Same(d),
         \A q \in abandoned' : WellFormed(q)
  PROVE  Inv'
  <1>1. \A d \in Callers : CallInv(d)'
    BY CallStays
  <1>2. abandoned' \subseteq Request
    BY DEF WellFormed
  <1> QED
    BY <1>1, <1>2, TypesNext DEF Inv, WellFormed

LEMMA InvInit == Init => Inv
  <1> SUFFICES ASSUME Init PROVE Inv
    OBVIOUS
  <1> USE DEF Init
  <1>1. ServerTypes /\ abandoned \subseteq Request
    BY BoundsAssumption DEF ServerTypes, Ids
  <1>2. CallTypes
    <2>1. 1 \in 1 .. 2 + Len(DefaultRoles)
      BY RolesAssumption
    <2>2. Nothing.status = "none" /\ Nothing.id \in Ids /\ Nothing = [status |-> "none", id |-> 0]
      BY BoundsAssumption DEF Nothing, Ids
    <2> QED
      BY <2>1, <2>2 DEF CallTypes
  <1>3. \A c \in Callers : CallInv(c)
    BY DEF CallInv, Fresh, Bound, Behind, Told, Result
  <1> QED
    BY <1>1, <1>2, <1>3, Types DEF Inv

LEMMA CallStep ==
  ASSUME Inv, NEW c \in Callers, Call(c)
  PROVE  Inv'
  <1>1. TypeOK /\ ServerTypes /\ CallTypes /\ UNCHANGED servers /\ UNCHANGED abandoned
    BY Types DEF Inv, Call
  <1>2. Grows /\ ServerTypes'
    BY <1>1, NothingGrows
  <1>3. PICK o \in {"provision", "bucket", "user", "get", "delete"}, t \in Tenants :
          \E u \in CASE o = "user"            -> Names
                     [] o \in {"get", "delete"} -> 1 .. lastId
                     [] OTHER                 -> {None} :
            /\ op' = [op EXCEPT ![c] = o]
            /\ on' = [on EXCEPT ![c] = [tenant |-> t, user |-> u]]
            /\ pc' = [pc EXCEPT ![c] = Start(o)]
    BY DEF Call
  <1>4. PICK u : /\ op' = [op EXCEPT ![c] = o]
                 /\ on' = [on EXCEPT ![c] = [tenant |-> t, user |-> u]]
                 /\ pc' = [pc EXCEPT ![c] = Start(o)]
                 /\ o = "user" => u \in Names
                 /\ o \in {"get", "delete"} => u \in 1 .. lastId
                 /\ o \in {"provision", "bucket"} => u = None
    BY <1>3
  <1>5. [tenant |-> t, user |-> u] \in Subject
    <2>1. 1 .. lastId \subseteq Ids
      BY <1>1, BoundsAssumption DEF ServerTypes, Ids
    <2>2. u \in Names \cup Ids \cup {None}
      BY <1>4, <2>1
    <2> QED
      BY <2>2 DEF Subject
  <1>6. Start(o) \in {"sent", "token"}
    BY DEF Start
  <1>7. UNCHANGED <<at, answer, ret, trouble, lastId>>
    BY DEF Call, servers
  <1>8. CallTypes'
    BY <1>1, <1>4, <1>5, <1>6, <1>7 DEF CallTypes
  <1>9. pc'[c] = Start(o) /\ op'[c] = o /\ on'[c] = [tenant |-> t, user |-> u] /\ at'[c] = 1
    <2>1. pc[c] = "idle" /\ Fresh(c)
      BY DEF Call, Inv, CallInv
    <2> QED
      BY <1>1, <1>4, <1>7, <2>1 DEF CallTypes, Fresh
  <1>10. Len(Requests(c)') \in Nat /\ Len(Requests(c)') >= 1
    <2>1. CASE o = "provision"
      <3>1. Requests(c)' = ProvisionTenant(t)
        BY <1>9, <2>1 DEF Requests
      <3> QED
        BY <3>1, ProvisionRequests
    <2>2. CASE o = "bucket"
      BY <1>9, <2>2 DEF Requests, EnsureBucket
    <2>3. CASE o \in {"user", "get", "delete"}
      BY <1>9, <2>3 DEF Requests
    <2> QED
      BY <2>1, <2>2, <2>3
  <1>11. Bound(c)'
    <2>1. Subject' = Subject
      BY DEF Subject, Ids
    <2> QED
      BY <1>4, <1>5, <1>7, <1>9, <1>10, <2>1 DEF Bound
  <1>12. CallInv(c)'
    BY <1>6, <1>9, <1>11 DEF CallInv, Fresh, Behind, Told, Result
  <1>13. \A d \in Callers \ {c} : Same(d)
    BY <1>1, <1>4, <1>7 DEF CallTypes, Same
  <1> QED
    BY <1>1, <1>2, <1>8, <1>12, <1>13, OneCall DEF Inv

LEMMA TokenStep ==
  ASSUME Inv, NEW c \in Callers, GetAdminToken(c)
  PROVE  Inv'
  <1>1. TypeOK /\ ServerTypes /\ CallTypes /\ CallInv(c)
    BY Types DEF Inv
  <1>2. /\ pc[c] = "token" /\ pc' = [pc EXCEPT ![c] = "sent"]
        /\ UNCHANGED <<servers, abandoned, op, on, at, answer, ret, trouble, lastId>>
        /\ UNCHANGED <<realms, clients, roles, buckets>>
    BY DEF GetAdminToken, servers
  <1>3. Grows /\ ServerTypes'
    BY <1>1, <1>2, NothingGrows
  <1>4. CallTypes'
    BY <1>1, <1>2 DEF CallTypes
  <1>5. Requests(c)' = Requests(c) /\ pc'[c] = "sent" /\ Subject' = Subject
    BY <1>1, <1>2 DEF CallTypes, Requests, Subject, Ids
  <1>6. Bound(c)' /\ Behind(c)'
    BY <1>1, <1>2, <1>5 DEF CallInv, Bound, Behind, Effect
  <1>7. CallInv(c)'
    BY <1>5, <1>6 DEF CallInv, Fresh, Told, Result
  <1>8. \A d \in Callers \ {c} : Same(d)
    BY <1>1, <1>2 DEF CallTypes, Same
  <1> QED
    BY <1>2, <1>3, <1>4, <1>7, <1>8, OneCall DEF Inv

\* A call at work is at a request of its own, and what came before has had its effect.
LEMMA AtWork ==
  ASSUME Inv, NEW c \in Callers, pc[c] # "idle"
  PROVE  /\ TypeOK /\ Bound(c) /\ Behind(c) /\ at[c] \in 1 .. Len(Requests(c))
         /\ Len(Requests(c)) \in Nat /\ WellFormed(Now(c))
         /\ Now(c).kind \in {"client", "role"} => Now(c).tenant \in realms
  <1>1. TypeOK /\ Bound(c) /\ Behind(c) /\ at[c] \in 1 .. Len(Requests(c))
    BY DEF Inv, CallInv, Bound
  <1>2. Len(Requests(c)) \in Nat
    BY <1>1, CallRequests, ProvisionRequests
  <1>3. Now(c) = Requests(c)[at[c]]
    BY DEF Now
  <1>4. WellFormed(Now(c))
    BY <1>1, <1>3, EachRequest
  <1>5. ASSUME Now(c).kind \in {"client", "role"}
        PROVE  Now(c).tenant \in realms
    <2>1. op[c] \in {"provision", "bucket", "user", "get", "delete"}
      BY <1>1 DEF TypeOK
    <2>2. op[c] = "provision"
      BY <1>1, <1>3, <1>5, <2>1, EachRequest
    <2>3. /\ at[c] > 1 /\ Requests(c)[1].kind = "realm"
          /\ Requests(c)[1].tenant = on[c].tenant /\ Now(c).tenant = on[c].tenant
      BY <1>1, <1>3, <1>5, <2>2, EachRequest
    <2>4. Effect(Requests(c)[1])
      BY <1>1, <1>2, <2>3 DEF Behind
    <2> QED
      BY <2>3, <2>4 DEF Effect
  <1> QED
    BY <1>1, <1>2, <1>4, <1>5

LEMMA ServeStep ==
  ASSUME Inv, NEW c \in Callers, Serve(c)
  PROVE  Inv'
  <1>1. TypeOK /\ ServerTypes /\ CallTypes /\ CallInv(c)
    BY Types DEF Inv
  <1>2. /\ pc[c] = "sent" /\ pc' = [pc EXCEPT ![c] = "answered"]
        /\ UNCHANGED <<abandoned, op, on, at, ret>>
    BY DEF Serve
  <1>3. /\ Bound(c) /\ Behind(c) /\ WellFormed(Now(c)) /\ at[c] \in 1 .. Len(Requests(c))
        /\ Len(Requests(c)) \in Nat
        /\ Now(c).kind \in {"client", "role"} => Now(c).tenant \in realms
    BY <1>2, AtWork
  <1>4. PICK q : q = Now(c)
    OBVIOUS
  <1>5. PICK a : /\ answer' = [answer EXCEPT ![c] = a] /\ Grows /\ ServerTypes'
                 /\ a \in [status : {"none", "created", "conflict", "found", "notFound",
                                     "deleted", "refused"}, id : Ids]
                 /\ a.status \in {"created", "conflict"} => Effect(q)'
                 /\ \/ UNCHANGED trouble /\ Meant(q, a)'
                    \/ trouble' = [trouble EXCEPT ![c] = TRUE]
    <2>1. ASSUME NEW a \in Answers, Handle(Now(c), a), answer' = [answer EXCEPT ![c] = a],
                 UNCHANGED trouble
          PROVE  /\ Grows /\ ServerTypes'
                 /\ a \in [status : {"none", "created", "conflict", "found", "notFound",
                                     "deleted", "refused"}, id : Ids]
                 /\ a.status \in {"created", "conflict"} => Effect(q)'
                 /\ Meant(q, a)'
      <3>1. a \in [status : {"none", "created", "conflict", "found", "notFound",
                             "deleted", "refused"}, id : Ids]
        BY DEF Answers
      <3>2. /\ Handle(q, a) /\ WellFormed(q)
            /\ q.kind \in {"client", "role"} => q.tenant \in realms
        BY <1>3, <1>4, <2>1
      <3> QED
        BY <1>1, <3>1, <3>2, HandleDoes
    <2>2. ASSUME answer' = [answer EXCEPT ![c] = Status("refused")],
                 trouble' = [trouble EXCEPT ![c] = TRUE], UNCHANGED servers
          PROVE  /\ Grows /\ ServerTypes'
                 /\ Status("refused") \in [status : {"none", "created", "conflict", "found", "notFound",
                                                     "deleted", "refused"}, id : Ids]
                 /\ Status("refused").status \notin {"created", "conflict"}
      BY <1>1, <2>2, NothingGrows, BoundsAssumption DEF Status, Ids
    <2>3. CASE (\E a \in Answers : Handle(Now(c), a) /\ answer' = [answer EXCEPT ![c] = a])
               /\ UNCHANGED trouble
      BY <2>1, <2>3
    <2>4. CASE /\ answer' = [answer EXCEPT ![c] = Status("refused")]
               /\ trouble' = [trouble EXCEPT ![c] = TRUE] /\ UNCHANGED servers
      BY <2>2, <2>4
    <2> QED
      BY <2>3, <2>4 DEF Serve
  <1>6. CallTypes'
    BY <1>1, <1>2, <1>5 DEF CallTypes
  <1>7. /\ Requests(c)' = Requests(c) /\ Now(c)' = q /\ pc'[c] = "answered" /\ answer'[c] = a
        /\ trouble'[c] \/ Meant(q, a)'
    BY <1>1, <1>2, <1>4, <1>5 DEF CallTypes, Requests, Now
  <1>8. Bound(c)'
    <2>1. lastId \in Int /\ lastId' \in Int /\ lastId <= lastId' /\ Subject' = Subject
      BY <1>1, <1>5 DEF Grows, ServerTypes, Ids, Subject
    <2> QED
      BY <1>2, <1>3, <1>7, <2>1 DEF Bound
  <1>9. Behind(c)'
    <2>1. \A i \in 1 .. Len(Requests(c)) : Requests(c)[i].tenant \in Tenants
      BY <1>1, <1>2, <1>3, EachRequest, CallRequests
    <2>2. \A r : r.tenant \in Tenants /\ Effect(r) => Effect(r)'
      BY <1>5, EffectStays
    <2>3. \A i \in 1 .. at[c] - 1 : \A r : r = Requests(c)[i] => Effect(r)'
      BY <1>2, <1>3, <2>1, <2>2 DEF Behind
    <2> QED
      BY <1>2, <1>7, <2>3 DEF Behind, Effect
  <1>10. Told(c)'
    BY <1>5, <1>7 DEF Told, Effect, Meant, Gone, OfId
  <1>11. CallInv(c)'
    BY <1>7, <1>8, <1>9, <1>10 DEF CallInv, Fresh, Result
  <1>12. \A d \in Callers \ {c} : Same(d)
    BY <1>1, <1>2, <1>5 DEF CallTypes, Same
  <1> QED
    BY <1>2, <1>5, <1>6, <1>11, <1>12, OneCall DEF Inv

\* An answer that is no error says that the request has had its effect.
LEMMA AcceptedIsDone ==
  ASSUME Inv, NEW c \in Callers, pc[c] = "answered", answer[c].status \in Accepts(Now(c).kind)
  PROVE  Effect(Now(c))
  <1>1. Told(c)
    BY DEF Inv, CallInv
  <1>2. CASE Now(c).kind \in {"realm", "client", "role", "make"}
    <2>1. answer[c].status \in {"created", "conflict"}
      BY <1>2 DEF Accepts
    <2> QED
      BY <1>1, <2>1 DEF Told
  <1>3. CASE Now(c).kind \notin {"realm", "client", "role", "make"}
    BY <1>3 DEF Effect
  <1> QED
    BY <1>2, <1>3

\* An answer that is an error, and no refusal, says why nothing can be done.
LEMMA ErrorIsHonest ==
  ASSUME Inv, NEW c \in Callers, pc[c] = "answered", ~trouble[c],
         answer[c].status \notin Accepts(Now(c).kind)
  PROVE  /\ op[c] # "provision"
         /\ op[c] = "bucket" => on[c].tenant \in buckets
         /\ op[c] \in {"get", "delete"} => Gone(Now(c))
  <1>1. Told(c) /\ Meant(Now(c), answer[c])
    BY DEF Inv, CallInv, Told
  <1>2. TypeOK /\ Bound(c) /\ at[c] \in 1 .. Len(Requests(c)) /\ Now(c) = Requests(c)[at[c]]
    BY AtWork DEF Now
  <1>3. op[c] # "provision"
    <2> SUFFICES ASSUME op[c] = "provision" PROVE FALSE
      OBVIOUS
    <2>1. Now(c).kind \in {"realm", "client", "role"}
      BY <1>2, EachRequest
    <2> QED
      BY <1>1, <2>1 DEF Meant, Accepts
  <1>4. ASSUME op[c] = "bucket" PROVE on[c].tenant \in buckets
    <2>1. Now(c).kind \in {"exists", "make"} /\ Now(c).tenant = on[c].tenant
      BY <1>2, <1>4, EachRequest
    <2>2. Now(c).kind = "make" /\ answer[c].status = "conflict"
      BY <1>1, <2>1 DEF Meant, Accepts
    <2> QED
      BY <1>1, <2>1, <2>2 DEF Told, Effect
  <1>5. ASSUME op[c] \in {"get", "delete"} PROVE Gone(Now(c))
    <2>1. Now(c).kind = op[c]
      BY <1>2, <1>5, EachRequest
    <2> QED
      BY <1>1, <1>5, <2>1 DEF Meant, Accepts
  <1> QED
    BY <1>3, <1>4, <1>5

LEMMA ReceiveStep ==
  ASSUME Inv, NEW c \in Callers, Receive(c)
  PROVE  Inv'
  <1>1. TypeOK /\ ServerTypes /\ CallTypes /\ CallInv(c)
    BY Types DEF Inv
  <1>2. /\ pc[c] = "answered" /\ UNCHANGED <<servers, abandoned, op, on, trouble>>
        /\ UNCHANGED <<realms, clients, roles, buckets, accounts, lastId>>
    BY DEF Receive, servers
  <1>3. Grows /\ ServerTypes'
    BY <1>1, <1>2, NothingGrows
  <1>4. /\ Bound(c) /\ Behind(c) /\ at[c] \in 1 .. Len(Requests(c)) /\ Len(Requests(c)) \in Nat
    BY <1>2, AtWork
  <1>5. Requests(c)' = Requests(c) /\ Subject' = Subject
    BY <1>2 DEF Requests, Subject, Ids
  <1>6. \A i \in 1 .. Len(Requests(c)) : Effect(Requests(c)[i]) => Effect(Requests(c)[i])'
    BY <1>2, <1>5 DEF Effect
  <1>7. Gone(Now(c)) /\ at'[c] = at[c] => Gone(Now(c))'
    BY <1>2, <1>5 DEF Gone, OfId, Now
  <1>8. CASE answer[c].status \notin Accepts(Now(c).kind)
    <2>1. /\ pc' = [pc EXCEPT ![c] = "done"] /\ ret' = [ret EXCEPT ![c] = "error"]
          /\ UNCHANGED <<at, answer>>
      BY <1>8 DEF Receive, Returns
    <2>2. CallTypes' /\ pc'[c] = "done" /\ ret'[c] = "error"
      BY <1>1, <1>2, <2>1 DEF CallTypes
    <2>3. Bound(c)' /\ Behind(c)'
      BY <1>2, <1>4, <1>5, <1>6, <2>1 DEF Bound, Behind
    <2>4. Result(c)'
      BY <1>2, <1>7, <1>8, <2>1, <2>2, ErrorIsHonest DEF Result
    <2>5. CallInv(c)'
      BY <2>2, <2>3, <2>4 DEF CallInv, Fresh, Told
    <2>6. \A d \in Callers \ {c} : Same(d)
      BY <1>1, <1>2, <2>1 DEF CallTypes, Same
    <2> QED
      BY <1>2, <1>3, <2>2, <2>5, <2>6, OneCall DEF Inv
  <1>9. CASE /\ answer[c].status \in Accepts(Now(c).kind)
             /\ at[c] = Len(Requests(c)) \/ answer[c].status = "found"
    <2>1. /\ pc' = [pc EXCEPT ![c] = "done"] /\ ret' = [ret EXCEPT ![c] = "ok"]
          /\ UNCHANGED <<at, answer>>
      BY <1>9 DEF Receive, Returns
    <2>2. CallTypes' /\ pc'[c] = "done" /\ ret'[c] = "ok"
      BY <1>1, <1>2, <2>1 DEF CallTypes
    <2>3. Bound(c)' /\ Behind(c)'
      BY <1>2, <1>4, <1>5, <1>6, <2>1 DEF Bound, Behind
    <2>4. ASSUME op[c] = "provision", NEW i \in 1 .. Len(Requests(c))
          PROVE  Effect(Requests(c)[i])
      <3>1. Effect(Now(c)) /\ Now(c) = Requests(c)[at[c]]
        BY <1>2, <1>9, AcceptedIsDone DEF Now
      <3>2. Now(c).kind \in {"realm", "client", "role"}
        BY <1>1, <1>2, <1>4, <2>4, <3>1, EachRequest
      <3>3. answer[c].status # "found"
        BY <1>9, <3>2 DEF Accepts
      <3>4. at[c] = Len(Requests(c))
        BY <1>9, <3>3
      <3>5. CASE i = at[c]
        BY <3>1, <3>5
      <3>6. CASE i # at[c]
        <4>1. i \in 1 .. at[c] - 1
          BY <1>4, <3>4, <3>6
        <4> QED
          BY <1>2, <1>4, <4>1 DEF Behind
      <3> QED
        BY <3>5, <3>6
    <2>5. Result(c)'
      BY <1>2, <1>5, <1>6, <2>2, <2>4 DEF Result
    <2>6. CallInv(c)'
      BY <2>2, <2>3, <2>5 DEF CallInv, Fresh, Told
    <2>7. \A d \in Callers \ {c} : Same(d)
      BY <1>1, <1>2, <2>1 DEF CallTypes, Same
    <2> QED
      BY <1>2, <1>3, <2>2, <2>6, <2>7, OneCall DEF Inv
  <1>10. CASE /\ answer[c].status \in Accepts(Now(c).kind)
              /\ ~(at[c] = Len(Requests(c)) \/ answer[c].status = "found")
    <2>1. /\ at' = [at EXCEPT ![c] = @ + 1] /\ answer' = [answer EXCEPT ![c] = Nothing]
          /\ pc' = [pc EXCEPT ![c] = Start(op[c])] /\ UNCHANGED ret
      BY <1>10 DEF Receive
    <2>2. Start(op[c]) \in {"sent", "token"}
      BY DEF Start
    <2>3. at[c] + 1 \in 1 .. Len(Requests(c))
      BY <1>4, <1>10
    <2>4. at[c] + 1 \in 1 .. 2 + Len(DefaultRoles)
      BY <1>1, <1>2, <1>4, <2>3, CallRequests, ProvisionRequests
    <2>5. Nothing \in [status : {"none", "created", "conflict", "found", "notFound",
                                 "deleted", "refused"}, id : Ids]
      BY BoundsAssumption DEF Nothing, Ids
    <2>6. /\ CallTypes' /\ pc'[c] = Start(op[c]) /\ at'[c] = at[c] + 1
      BY <1>1, <1>2, <2>1, <2>2, <2>4, <2>5 DEF CallTypes
    <2>7. Bound(c)'
      BY <1>2, <1>4, <1>5, <2>3, <2>6 DEF Bound
    <2>8. Behind(c)'
      <3>1. Effect(Requests(c)[at[c]])
        BY <1>2, <1>10, AcceptedIsDone DEF Now
      <3>2. \A i \in 1 .. at[c] : Effect(Requests(c)[i])
        BY <1>2, <1>4, <3>1 DEF Behind
      <3>3. (at[c] + 1) - 1 = at[c] /\ 1 .. at[c] \subseteq 1 .. Len(Requests(c))
        BY <1>4
      <3> QED
        BY <1>5, <1>6, <2>6, <3>2, <3>3 DEF Behind
    <2>9. CallInv(c)'
      BY <2>2, <2>6, <2>7, <2>8 DEF CallInv, Fresh, Told, Result
    <2>10. \A d \in Callers \ {c} : Same(d)
      BY <1>1, <1>2, <2>1 DEF CallTypes, Same
    <2> QED
      BY <1>2, <1>3, <2>6, <2>9, <2>10, OneCall DEF Inv
  <1> QED
    BY <1>8, <1>9, <1>10

LEMMA FailStep ==
  ASSUME Inv, NEW c \in Callers, Fail(c)
  PROVE  Inv'
  <1>1. TypeOK /\ ServerTypes /\ CallTypes /\ CallInv(c)
    BY Types DEF Inv
  <1>2. /\ pc[c] \in {"token", "sent", "answered"} /\ UNCHANGED <<servers, op, on, at, answer>>
        /\ pc' = [pc EXCEPT ![c] = "done"] /\ ret' = [ret EXCEPT ![c] = "error"]
        /\ trouble' = [trouble EXCEPT ![c] = TRUE]
        /\ UNCHANGED <<realms, clients, roles, buckets, accounts, lastId>>
    BY DEF Fail, Returns, servers
  <1>3. Grows /\ ServerTypes'
    BY <1>1, <1>2, NothingGrows
  <1>4. Bound(c) /\ Behind(c) /\ WellFormed(Now(c))
    BY <1>2, AtWork
  <1>5. CallTypes' /\ pc'[c] = "done" /\ ret'[c] = "error" /\ trouble'[c] = TRUE
    BY <1>1, <1>2 DEF CallTypes
  <1>6. Requests(c)' = Requests(c) /\ Subject' = Subject
    BY <1>2 DEF Requests, Subject, Ids
  <1>7. Bound(c)' /\ Behind(c)'
    BY <1>2, <1>4, <1>6 DEF Bound, Behind, Effect
  <1>8. CallInv(c)'
    BY <1>5, <1>7 DEF CallInv, Fresh, Told, Result
  <1>9. \A d \in Callers \ {c} : Same(d)
    BY <1>1, <1>2 DEF CallTypes, Same
  <1>10. \A q \in abandoned' : WellFormed(q)
    BY <1>4 DEF Fail, Inv
  <1> QED
    BY <1>3, <1>5, <1>8, <1>9, <1>10, OneCall

LEMMA ReturnStep ==
  ASSUME Inv, NEW c \in Callers, Return(c)
  PROVE  Inv'
  <1>1. TypeOK /\ ServerTypes /\ CallTypes
    BY Types DEF Inv
  <1>2. /\ UNCHANGED <<servers, abandoned>> /\ pc' = [pc EXCEPT ![c] = "idle"]
        /\ op' = [op EXCEPT ![c] = "provision"] /\ on' = [on EXCEPT ![c] = None]
        /\ at' = [at EXCEPT ![c] = 1] /\ answer' = [answer EXCEPT ![c] = Nothing]
        /\ ret' = [ret EXCEPT ![c] = "none"] /\ trouble' = [trouble EXCEPT ![c] = FALSE]
    BY DEF Return
  <1>3. Grows /\ ServerTypes'
    BY <1>1, <1>2, NothingGrows
  <1>4. Nothing \in [status : {"none", "created", "conflict", "found", "notFound",
                               "deleted", "refused"}, id : Ids]
    BY BoundsAssumption DEF Nothing, Ids
  <1>5. CallTypes' /\ pc'[c] = "idle" /\ at'[c] = 1
    BY <1>1, <1>2, <1>4, RolesAssumption DEF CallTypes
  <1>6. CallInv(c)'
    BY <1>5 DEF CallInv, Fresh, Bound, Behind, Told, Result
  <1>7. \A d \in Callers \ {c} : Same(d)
    BY <1>1, <1>2 DEF CallTypes, Same
  <1> QED
    BY <1>2, <1>3, <1>5, <1>6, <1>7, OneCall DEF Inv

LEMMA LateStep ==
  ASSUME Inv, NEW q \in abandoned, ServeLate(q)
  PROVE  Inv'
  <1>1. TypeOK /\ ServerTypes /\ CallTypes /\ WellFormed(q)
    BY Types DEF Inv
  <1>2. abandoned' \subseteq abandoned /\ UNCHANGED <<pc, op, on, at, answer, ret, trouble>>
    BY DEF ServeLate, calls
  <1>3. Grows /\ ServerTypes'
    BY <1>1, HandleDoes, NothingGrows DEF ServeLate
  <1>4. CallTypes' /\ \A d \in Callers : Same(d)
    BY <1>1, <1>2 DEF CallTypes, Same
  <1>5. \A d \in Callers : CallInv(d)'
    BY <1>3, <1>4, CallStays
  <1> QED
    BY <1>2, <1>3, <1>4, <1>5, TypesNext DEF Inv, WellFormed

LEMMA InvNext == Inv /\ [Next]_vars => Inv'
  <1> SUFFICES ASSUME Inv, [Next]_vars PROVE Inv'
    OBVIOUS
  <1>1. CASE UNCHANGED vars
    <2>1. TypeOK /\ ServerTypes /\ CallTypes
      BY Types DEF Inv
    <2>2. Grows /\ ServerTypes'
      BY <1>1, <2>1, NothingGrows DEF vars
    <2>3. CallTypes' /\ \A d \in Callers : Same(d)
      BY <1>1, <2>1 DEF CallTypes, Same, vars, calls
    <2>4. \A d \in Callers : CallInv(d)'
      BY <2>2, <2>3, CallStays
    <2> QED
      BY <1>1, <2>2, <2>3, <2>4, TypesNext DEF Inv, WellFormed, vars
  <1>2. ASSUME NEW c \in Callers,
               \/ Call(c) \/ GetAdminToken(c) \/ Serve(c) \/ Receive(c) \/ Fail(c) \/ Return(c)
        PROVE  Inv'
    BY <1>2, CallStep, TokenStep, ServeStep, ReceiveStep, FailStep, ReturnStep
  <1>3. ASSUME NEW q \in abandoned, ServeLate(q)
        PROVE  Inv'
    BY <1>3, LateStep
  <1> QED
    BY <1>1, <1>2, <1>3 DEF Next

LEMMA InvAlways == Spec => []Inv
  BY InvInit, InvNext, PTL DEF Spec

(***************************************************************************)
(* The properties.                                                         *)
(***************************************************************************)
\* Type correctness.
THEOREM Typing == Spec => []TypeOK
  <1>1. Inv => TypeOK
    BY DEF Inv
  <1> QED
    BY <1>1, InvAlways, PTL

\* Nil of ProvisionTenant means a realm with its client and every default role, however
\* many callers, failed calls and late requests there are (realm.go 84-95).
THEOREM NilIsAWholeTenant == Spec => []WholeTenant
  <1>1. ASSUME Inv PROVE WholeTenant
    <2> SUFFICES ASSUME NEW c \in Callers, Returned(c, "provision", "ok")
                 PROVE  /\ on[c].tenant \in realms \cap clients
                        /\ \A i \in DOMAIN DefaultRoles : DefaultRoles[i] \in roles[on[c].tenant]
      BY DEF WholeTenant
    <2> DEFINE t == on[c].tenant
    <2>1. pc[c] = "done" /\ op[c] = "provision" /\ ret[c] = "ok"
      BY DEF Returned
    <2>2. TypeOK /\ Bound(c) /\ Result(c)
      BY <1>1 DEF Inv, CallInv
    <2>3. /\ t \in Tenants /\ Requests(c) = ProvisionTenant(t)
          /\ Len(Requests(c)) = 2 + Len(DefaultRoles)
      BY <2>1, <2>2, CallRequests
    <2>4. /\ Len(DefaultRoles) \in Nat /\ DOMAIN DefaultRoles = 1 .. Len(DefaultRoles)
          /\ \A i \in 1 .. Len(DefaultRoles) : DefaultRoles[i] \in Roles
      BY RolesAssumption
    <2>5. \A i \in 1 .. 2 + Len(DefaultRoles) : Effect(ProvisionTenant(t)[i])
      BY <2>1, <2>2, <2>3 DEF Result
    <2>6. Effect(Req("realm", t, None)) /\ Effect(Req("client", t, None))
      BY <2>3, <2>4, <2>5, ProvisionRequests
    <2>7. \A i \in 1 .. Len(DefaultRoles) : Effect(Req("role", t, DefaultRoles[i]))
      <3> TAKE i \in 1 .. Len(DefaultRoles)
      <3>1. i + 2 \in 1 .. 2 + Len(DefaultRoles)
        BY <2>4
      <3> QED
        BY <2>3, <2>5, <3>1, ProvisionRequests
    <2> QED
      BY <2>3, <2>4, <2>6, <2>7, ReqIs DEF Effect, Kinds
  <1> QED
    BY <1>1, InvAlways, PTL

\* A call that fails, and whose own requests had no trouble, is no ProvisionTenant:
\* what earlier calls have left half done is no obstacle.  EnsureBucket has its bucket
\* then, and get and delete have nobody to work on (realm.go 28-33, 56-61, 77-79;
\* storage/client.go 43-51; user.go 51-53, 71-73).
THEOREM RepeatingHeals == Spec => []RetryHeals
  <1>1. Inv => RetryHeals
    BY DEF Inv, CallInv, Result, RetryHeals, Gone
  <1> QED
    BY <1>1, InvAlways, PTL
=============================================================================
