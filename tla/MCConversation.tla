---------------------------- MODULE MCConversation ----------------------------
(* Instances of Conversation for TLC. *)
EXTENDS Conversation

CONSTANTS prompt

Answerable == {<<"text">>, <<"text", "call">>, <<"call", "call">>,
               <<"call", "text">>}

Preset(system) ==
  [ModelID |-> "large",
   config |-> [f \in Configured |-> IF f = "SystemMsg" THEN system ELSE Zero]]
PresetsToChoose == {Preset(Zero), Preset(prompt)}
=============================================================================
