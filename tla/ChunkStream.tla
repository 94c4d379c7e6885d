----------------------------- MODULE ChunkStream -----------------------------
(***************************************************************************)
(* What ChatStream promises its caller: the model writes pieces, and the   *)
(* caller is given them without a gap and in order, until the stream fails *)
(* or has given all of them and ends.  After a failure nothing is given,   *)
(* and after the end nothing happens.                                      *)
(*                                                                         *)
(* A piece may be one that cannot be read.  A strict stream owes it like   *)
(* any other, so that it can only fail there; a lenient stream does not    *)
(* owe it, and says nothing of it.                                         *)
(***************************************************************************)
EXTENDS Naturals, Sequences

CONSTANTS Pieces,  \* pieces of text, and the reason why the model stops
          Readable \* those that can be read

VARIABLES lenient, due, given, state

Init == lenient \in BOOLEAN /\ due = <<>> /\ given = <<>> /\ state = "open"

Write == /\ state # "closed"
         /\ \E piece \in IF lenient THEN Readable ELSE Pieces : due' = Append(due, piece)
         /\ UNCHANGED <<lenient, given, state>>

Give == /\ state = "open" /\ Len(given) < Len(due)
        /\ due[Len(given) + 1] \in Readable
        /\ given' = Append(given, due[Len(given) + 1])
        /\ UNCHANGED <<lenient, due, state>>

Fail == state = "open" /\ state' = "failed" /\ UNCHANGED <<lenient, due, given>>

Close == /\ state = "failed" \/ (state = "open" /\ given = due)
         /\ state' = "closed"
         /\ UNCHANGED <<lenient, due, given>>

Spec == /\ Init
        /\ [][Write \/ Give \/ Fail \/ Close]_<<lenient, due, given, state>>
=============================================================================
