------------------------ MODULE MCProviderRegistry ------------------------
(* Instances of ProviderRegistry for TLC. *)
EXTENDS ProviderRegistry, TLC

CONSTANTS c1, c2, openai, custom

\* All callers are alike.
Alike == Permutations(Callers)

ToUpper == [s \in Spellings |-> IF s = "openai" THEN "OPENAI" ELSE s]

\* The provider of the repository names itself in small letters; custom is
\* a service's own, and names its type as presets do.
ProviderNames == [m \in Models |-> IF m = openai THEN "openai" ELSE "ACME"]

\* Two credentials with one api_key: the vendor's endpoint, and a proxy.
Credentials == {[apiKey |-> "k", baseURL |-> u] : u \in {"vendor", "proxy"}}

Of(type, creds) == [name |-> "fast", provider |-> type, creds |-> creds, valid |-> TRUE]

\* Presets without credentials for both types, presets that override them (in two
\* spellings, and of a type without a factory), and one that does not parse.
SomePresets ==
  LET vendor == [apiKey |-> "k", baseURL |-> "vendor"]
      proxy  == [apiKey |-> "k", baseURL |-> "proxy"] IN
  {Of("OPENAI", None), Of("ACME", None), Of("openai", vendor), Of("OPENAI", vendor),
   Of("OPENAI", proxy), Of("ACME", vendor), [Of("ACME", None) EXCEPT !.valid = FALSE]}
=============================================================================
