---------------------------- MODULE MCTenantAuth ----------------------------
(* Instances of TenantAuth for TLC. *)
EXTENDS TenantAuth, TLC

CONSTANTS r1, r2, acme, beta

\* The chain treats all requests alike.
Alike == Permutations(Requests)

Token(rlm, kid, signer) ==
  [rsa |-> TRUE, realm |-> rlm, allowed |-> TRUE, kid |-> kid, signer |-> signer,
   expired |-> FALSE, roles |-> {Role}]

\* Tokens of acme's two keys, one of beta under the same key identifier, and
\* tokens that the chain has to refuse: signed by the other realm, expired, without
\* the role, not RSA, of an issuer that is not allowed.
SomeTokens ==
  LET good == Token(acme, 1, <<acme, 1>>) IN
  {good, Token(acme, 2, <<acme, 2>>), Token(beta, 1, <<beta, 1>>),
   Token(acme, 1, <<beta, 1>>),
   [good EXCEPT !.expired = TRUE], [good EXCEPT !.roles = {}], [good EXCEPT !.rsa = FALSE],
   [good EXCEPT !.allowed = FALSE]}
=============================================================================
