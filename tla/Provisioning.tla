---------------------------- MODULE Provisioning ----------------------------
(***************************************************************************)
(* What a service sets up on other servers for a tenant: the Keycloak      *)
(* realm with its client, roles and users (keycloak/client.go, realm.go,   *)
(* user.go) and a bucket (storage/client.go, EnsureBucket).                *)
(*                                                                         *)
(* A call is a list of requests, each of which may be refused, fail, or    *)
(* time out: a request its client has given up may still be under way, and *)
(* the server may carry it out later.  Callers, several of them for one    *)
(* tenant, repeat calls that have failed.                                  *)
(*                                                                         *)
(* The servers are external.  Nobody removes a realm or a bucket.          *)
(***************************************************************************)
EXTENDS Integers, Sequences, FiniteSets

CONSTANTS Callers, Tenants,
          Roles,
          DefaultRoles, \* defaultRoles of ProvisionTenant
          Names,        \* of users
          MaxAccounts,  \* bound: accounts ever created
          MaxLate,      \* bound: abandoned requests at a time
          None

ASSUME RolesAssumption == DefaultRoles \in Seq(Roles)
ASSUME BoundsAssumption == MaxAccounts \in Nat /\ MaxLate \in Nat

VARIABLES
  \* The servers.
  realms, clients, roles, buckets,
  accounts,  \* the users, each with its id
  lastId,
  abandoned, \* requests whose client no longer waits for an answer
  \* The calls.
  pc, op,
  on,        \* the tenant, and the name or the id of a user
  at,        \* the position of the request in the call
  answer,
  ret,       \* "ok" is a nil error
  trouble    \* ghost: a request of the call failed or was refused

servers == <<realms, clients, roles, buckets, accounts, lastId>>
calls   == <<pc, op, on, at, answer, ret, trouble>>
vars    == <<servers, abandoned, calls>>

Ids  == 0 .. MaxAccounts
Subject  == [tenant : Tenants, user : Names \cup Ids \cup {None}]
Account  == [tenant : Tenants, name : Names, id : Ids \ {0}]
Request  == [kind : {"realm", "client", "role", "user", "get", "delete", "exists", "make"},
             tenant : Tenants, arg : Names \cup Ids \cup Roles \cup {None}]

TypeOK ==
  /\ realms \subseteq Tenants /\ clients \subseteq Tenants /\ buckets \subseteq Tenants
  /\ roles \in [Tenants -> SUBSET Roles]
  /\ accounts \subseteq Account /\ lastId \in Ids
  /\ abandoned \subseteq Request
  /\ pc \in [Callers -> {"idle", "token", "sent", "answered", "done"}]
  /\ op \in [Callers -> {"provision", "user", "get", "delete", "bucket"}]
  /\ on \in [Callers -> Subject \cup {None}]
  /\ at \in [Callers -> 1 .. 2 + Len(DefaultRoles)]
  /\ answer \in [Callers -> [status : {"none", "created", "conflict", "found", "notFound",
                                       "deleted", "refused"}, id : Ids]]
  /\ ret \in [Callers -> {"none", "ok", "error"}]
  /\ trouble \in [Callers -> BOOLEAN]

Nothing == [status |-> "none", id |-> 0]

Init ==
  /\ realms = {} /\ clients = {} /\ roles = [t \in Tenants |-> {}] /\ buckets = {}
  /\ accounts = {} /\ lastId = 0 /\ abandoned = {}
  /\ pc = [c \in Callers |-> "idle"] /\ op = [c \in Callers |-> "provision"]
  /\ on = [c \in Callers |-> None] /\ at = [c \in Callers |-> 1]
  /\ answer = [c \in Callers |-> Nothing]
  /\ ret = [c \in Callers |-> "none"] /\ trouble = [c \in Callers |-> FALSE]

(***************************************************************************)
(* The requests of a call.                                                 *)
(***************************************************************************)
Req(kind, t, arg) == [kind |-> kind, tenant |-> t, arg |-> arg]

\* ProvisionTenant: the realm, its client, then each role.
ProvisionTenant(t) ==
  <<Req("realm", t, None), Req("client", t, None)>> \o
  [i \in DOMAIN DefaultRoles |-> Req("role", t, DefaultRoles[i])]

\* EnsureBucket: look, then create.
EnsureBucket(t) == <<Req("exists", t, None), Req("make", t, None)>>

Requests(c) == CASE op[c] = "provision" -> ProvisionTenant(on[c].tenant)
                 [] op[c] = "bucket"    -> EnsureBucket(on[c].tenant)
                 [] OTHER               -> <<Req(op[c], on[c].tenant, on[c].user)>>

Now(c) == Requests(c)[at[c]]

\* doJSON gets a token for every request; the storage client needs none.
Start(o) == IF o = "bucket" THEN "sent" ELSE "token"

Call(c) ==
  /\ pc[c] = "idle"
  /\ \E o \in {"provision", "bucket", "user", "get", "delete"}, t \in Tenants :
       \E u \in CASE o = "user"            -> Names
                  [] o \in {"get", "delete"} -> 1 .. lastId
                  [] OTHER                 -> {None} :
         /\ op' = [op EXCEPT ![c] = o]
         /\ on' = [on EXCEPT ![c] = [tenant |-> t, user |-> u]]
         /\ pc' = [pc EXCEPT ![c] = Start(o)]
  /\ UNCHANGED <<servers, abandoned, at, answer, ret, trouble>>

\* getAdminToken has the token; it does not keep it for the next request.
GetAdminToken(c) ==
  /\ pc[c] = "token"
  /\ pc' = [pc EXCEPT ![c] = "sent"]
  /\ UNCHANGED <<servers, abandoned, op, on, at, answer, ret, trouble>>

(***************************************************************************)
(* The servers.                                                            *)
(***************************************************************************)
Status(s) == [status |-> s, id |-> 0]

\* A request is carried out, with an answer a.
Made(there) == Status(IF there THEN "conflict" ELSE "created")

Create(q, a) ==
  /\ \/ /\ q.kind = "realm" /\ a = Made(q.tenant \in realms)
        /\ realms' = realms \cup {q.tenant}
        /\ UNCHANGED <<clients, roles, buckets>>
     \/ /\ q.kind = "make" /\ a = Made(q.tenant \in buckets)
        /\ buckets' = buckets \cup {q.tenant}
        /\ UNCHANGED <<realms, clients, roles>>
     \/ /\ q.kind \in {"client", "role"} /\ q.tenant \notin realms /\ a = Status("notFound")
        /\ UNCHANGED <<realms, clients, roles, buckets>>
     \/ /\ q.kind = "client" /\ q.tenant \in realms /\ a = Made(q.tenant \in clients)
        /\ clients' = clients \cup {q.tenant}
        /\ UNCHANGED <<realms, roles, buckets>>
     \/ /\ q.kind = "role" /\ q.tenant \in realms /\ a = Made(q.arg \in roles[q.tenant])
        /\ roles' = [roles EXCEPT ![q.tenant] = @ \cup {q.arg}]
        /\ UNCHANGED <<realms, clients, buckets>>
  /\ UNCHANGED <<accounts, lastId>>

\* A user with a new name gets an account with a new id.
CreateAccount(q, a) ==
  /\ q.kind = "user"
  /\ IF q.tenant \notin realms
     THEN a = Status("notFound") /\ UNCHANGED <<accounts, lastId>>
     ELSE IF \E x \in accounts : x.tenant = q.tenant /\ x.name = q.arg
     THEN a = Status("conflict") /\ UNCHANGED <<accounts, lastId>>
     ELSE /\ lastId < MaxAccounts
          /\ lastId' = lastId + 1
          /\ a = [status |-> "created", id |-> lastId']
          /\ accounts' = accounts \cup {[tenant |-> q.tenant, name |-> q.arg, id |-> lastId']}
  /\ UNCHANGED <<realms, clients, roles, buckets>>

OfId(q) == {x \in accounts : x.tenant = q.tenant /\ x.id = q.arg}

DeleteAccount(q, a) ==
  /\ q.kind = "delete"
  /\ a = Status(IF OfId(q) = {} THEN "notFound" ELSE "deleted")
  /\ accounts' = accounts \ OfId(q)
  /\ UNCHANGED <<realms, clients, roles, buckets, lastId>>

Read(q, a) ==
  /\ \/ /\ q.kind = "get"
        /\ a = IF OfId(q) = {} THEN Status("notFound") ELSE [status |-> "found", id |-> q.arg]
     \/ /\ q.kind = "exists"
        /\ a = Status(IF q.tenant \in buckets THEN "found" ELSE "notFound")
  /\ UNCHANGED servers

Handle(q, a) == Create(q, a) \/ CreateAccount(q, a) \/ DeleteAccount(q, a) \/ Read(q, a)

Answers == [status : {"created", "conflict", "found", "notFound", "deleted"}, id : Ids]

\* The server answers the request of a call, or refuses it with another status.
Serve(c) ==
  /\ pc[c] = "sent"
  /\ pc' = [pc EXCEPT ![c] = "answered"]
  /\ \/ /\ \E a \in Answers : Handle(Now(c), a) /\ answer' = [answer EXCEPT ![c] = a]
        /\ UNCHANGED trouble
     \/ /\ answer' = [answer EXCEPT ![c] = Status("refused")]
        /\ trouble' = [trouble EXCEPT ![c] = TRUE]
        /\ UNCHANGED servers
  /\ UNCHANGED <<abandoned, op, on, at, ret>>

\* It carries out a request nobody waits for, or the request is lost.
ServeLate(q) ==
  /\ q \in abandoned
  /\ abandoned' = abandoned \ {q}
  /\ (\E a \in Answers : Handle(q, a)) \/ UNCHANGED servers
  /\ UNCHANGED calls

(***************************************************************************)
(* The client.                                                             *)
(***************************************************************************)
Returns(c, r) == /\ pc' = [pc EXCEPT ![c] = "done"]
                 /\ ret' = [ret EXCEPT ![c] = r]

\* Fault: a conflict is an error, in CreateClient.
AcceptsNoConflict(kind) ==
  CASE kind \in {"realm", "role"}             -> {"created", "conflict"}
    [] kind \in {"client", "user", "make"}    -> {"created"}
    [] kind = "get"                           -> {"found", "refused"}
    [] kind = "delete"                        -> {"deleted"}
    [] kind = "exists"                        -> {"found", "notFound"}

\* The statuses that are no error.  GetUser looks for 404 only: it decodes any other
\* body into its User, which stays empty when the body is that of a refusal.
Accepts(kind) ==
  CASE kind \in {"realm", "client", "role"} -> {"created", "conflict"}
    [] kind \in {"user", "make"}            -> {"created"}
    [] kind = "get"                         -> {"found", "refused"}
    [] kind = "delete"                      -> {"deleted"}
    [] kind = "exists"                      -> {"found", "notFound"}

\* Fault: whatever the server answers, the next role is tried, and nil returned.
ReceiveAny(c) ==
  /\ pc[c] = "answered"
  /\ IF at[c] = Len(Requests(c)) \/ answer[c].status = "found"
     THEN Returns(c, "ok") /\ UNCHANGED <<at, answer>>
     ELSE /\ at' = [at EXCEPT ![c] = @ + 1]
          /\ answer' = [answer EXCEPT ![c] = Nothing]
          /\ pc' = [pc EXCEPT ![c] = Start(op[c])]
          /\ UNCHANGED ret
  /\ UNCHANGED <<servers, abandoned, op, on, trouble>>

\* The status decides: an error, nil, or the next request.
Receive(c) ==
  /\ pc[c] = "answered"
  /\ IF answer[c].status \notin Accepts(Now(c).kind)
     THEN Returns(c, "error") /\ UNCHANGED <<at, answer>>
     ELSE IF at[c] = Len(Requests(c)) \/ answer[c].status = "found"
     THEN Returns(c, "ok") /\ UNCHANGED <<at, answer>>
     ELSE /\ at' = [at EXCEPT ![c] = @ + 1]
          /\ answer' = [answer EXCEPT ![c] = Nothing]
          /\ pc' = [pc EXCEPT ![c] = Start(op[c])]
          /\ UNCHANGED ret
  /\ UNCHANGED <<servers, abandoned, op, on, trouble>>

\* The token, the request or its answer fails: the client's 15 seconds, the context,
\* the network, a body that does not decode, a missing Location.
Fail(c) ==
  /\ pc[c] \in {"token", "sent", "answered"}
  /\ Returns(c, "error")
  /\ trouble' = [trouble EXCEPT ![c] = TRUE]
  /\ \/ UNCHANGED abandoned
     \/ /\ pc[c] = "sent" /\ Cardinality(abandoned) < MaxLate
        /\ abandoned' = abandoned \cup {Now(c)}
  /\ UNCHANGED <<servers, op, on, at, answer>>

\* The caller has the result, and the locals are gone.
Return(c) ==
  /\ pc[c] = "done"
  /\ pc' = [pc EXCEPT ![c] = "idle"] /\ op' = [op EXCEPT ![c] = "provision"]
  /\ on' = [on EXCEPT ![c] = None] /\ at' = [at EXCEPT ![c] = 1]
  /\ answer' = [answer EXCEPT ![c] = Nothing]
  /\ ret' = [ret EXCEPT ![c] = "none"] /\ trouble' = [trouble EXCEPT ![c] = FALSE]
  /\ UNCHANGED <<servers, abandoned>>

Next == \/ \E c \in Callers : \/ Call(c) \/ GetAdminToken(c) \/ Serve(c)
                              \/ Receive(c) \/ Fail(c) \/ Return(c)
        \/ \E q \in abandoned : ServeLate(q)

Spec == Init /\ [][Next]_vars

(***************************************************************************)
(* Properties.                                                             *)
(***************************************************************************)
Returned(c, o, r) == pc[c] = "done" /\ op[c] = o /\ ret[c] = r

\* Nil of ProvisionTenant means a whole tenant, however many failed or late calls for
\* it there have been: a realm, with the client and every role (realm.go 84-95).
WholeTenant ==
  \A c \in Callers : Returned(c, "provision", "ok") =>
    /\ on[c].tenant \in realms \cap clients
    /\ \A i \in DOMAIN DefaultRoles : DefaultRoles[i] \in roles[on[c].tenant]

\* A repeated call completes what earlier ones have left half done: only trouble of
\* its own makes ProvisionTenant fail.  EnsureBucket can lose a race besides, and has
\* its bucket then; get and delete fail for a user who is no longer there
\* (realm.go 28-33, 56-61, 77-79; storage/client.go 43-51; user.go 51-53, 71-73).
RetryHeals ==
  \A c \in Callers : pc[c] = "done" /\ ret[c] = "error" /\ ~trouble[c] =>
    /\ op[c] # "provision"
    /\ op[c] = "bucket" => on[c].tenant \in buckets
    /\ op[c] \in {"get", "delete"} => OfId(Now(c)) = {}
=============================================================================
