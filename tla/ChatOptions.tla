---------------------------- MODULE ChatOptions ----------------------------
(***************************************************************************)
(* The options of a chat request on their way to a provider: ai/preset.go  *)
(* makes them of a preset, Merge (ai/model.go) lays others over them,      *)
(* ai/provider/ollama adds the environment's, and each dialect puts into   *)
(* its request the fields that it has.                                     *)
(*                                                                         *)
(* Options are a function from the names of the fields of ai.ChatOptions   *)
(* to their values; Zero is the zero value of each type.  ProviderOptions  *)
(* are a function from Keys.                                               *)
(***************************************************************************)
CONSTANTS Zero,
          Keys  \* what ProviderOptions may name, like "num_ctx"

\* The fields that Merge looks at, and the others.
Merged == {"Model", "MaxTokens", "Temperature", "TopP", "Tools", "SystemMsg", "Stream",
           "Thinking", "Effort", "ToolChoice", "StopSequences"}
Fields == Merged \cup {"CacheControl", "PreviousResponseID", "ProviderOptions"}

NoOptions == [f \in Fields |-> Zero]

\* A preset: a model, and a function from some of the fields that config_json has.
Configured == {"Temperature", "MaxTokens", "TopP", "SystemMsg"}

ToChatOptions(preset) ==
  [f \in Fields |-> IF f = "Model" THEN preset.ModelID
                    ELSE IF f \in Configured THEN preset.config[f] ELSE Zero]

\* Of other, what is not zero.
Merge(o, other) ==
  [f \in Fields |-> IF f \in Merged /\ other[f] # Zero THEN other[f] ELSE o[f]]

\* collectEnvOptions yields env: for each key the value of its variable, or Zero for one
\* that is not set or does not parse.  What the caller has set wins.
WithOllamaOptions(o, env) ==
  IF o["ProviderOptions"] = Zero /\ \A k \in Keys : env[k] = Zero THEN o
  ELSE LET own == IF o["ProviderOptions"] = Zero THEN [k \in Keys |-> Zero]
                  ELSE o["ProviderOptions"] IN
       [o EXCEPT !["ProviderOptions"] =
          [k \in Keys |-> IF own[k] # Zero THEN own[k] ELSE env[k]]]

\* The fields that have a place in the request of each dialect.
Carried(dialect) ==
  {"Model", "MaxTokens", "Tools"} \cup
  CASE dialect = "completions" -> {"Temperature", "TopP", "ToolChoice", "ProviderOptions"}
    [] dialect = "messages"    -> {"CacheControl"}
    [] dialect = "responses"   -> {"Temperature", "TopP", "PreviousResponseID"}

\* openAIToolChoice: nil for no choice, an unknown one, or a tool without a name.
OpenAIToolChoice(choice) ==
  IF choice = Zero THEN Zero
  ELSE CASE choice.Type = "auto" -> "auto"
         [] choice.Type = "none" -> "none"
         [] choice.Type = "any"  -> "required"
         [] choice.Type = "tool" -> choice.Name
         [] OTHER -> Zero

\* The options in the request; "messages" requires max_tokens.
Parameters(dialect, o) ==
  [f \in Carried(dialect) |->
     IF f = "MaxTokens" /\ dialect = "messages" /\ o[f] = Zero THEN "4096"
     ELSE IF f = "ToolChoice" THEN OpenAIToolChoice(o[f]) ELSE o[f]]
=============================================================================
