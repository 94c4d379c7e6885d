-------------------------- MODULE MCTenantDatabase --------------------------
(* Instances of TenantDatabase for TLC. *)
EXTENDS TenantDatabase

CONSTANTS w1, w2, w3, c1, c2

\* Two processes: w1 and w2 share a pool of one connection, w3 has its own.
TwoPools == [w \in Workers |-> IF w = w3 THEN {c2} ELSE {c1}]

\* w1 serves requests, w2 migrates all the tenants in the same process, and w3, in
\* its own, migrates a tenant when it is provisioned.
SomeCalls == [w \in Workers |-> CASE w = w1 -> {"request"} [] w = w2 -> {"all"}
                                   [] OTHER -> {"one"}]

\* Names that mean the same with and without quotes.
PlainNames == [t \in Tenants |-> t]

\* What PostgreSQL makes of an unquoted name: it folds capitals, and a hyphen
\* is a syntax error.
SqlNames == [t \in Tenants |-> CASE t = "Acme" -> "acme"
                                 [] t = "acme-labs" -> Invalid
                                 [] OTHER -> t]
=============================================================================
