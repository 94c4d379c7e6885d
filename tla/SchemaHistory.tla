--------------------------- MODULE SchemaHistory ---------------------------
(***************************************************************************)
(* What database/migrate promises about a schema, whoever calls it and     *)
(* however often: the migrations behave as if they were applied by one     *)
(* call at a time.  A table's history moves by one script at a time, in    *)
(* the order of the versions, each script bracketed by a dirty mark and a  *)
(* clean mark, and a call that leaves while its mark is dirty leaves the   *)
(* table closed for good: nobody enters a dirty table.                     *)
(*                                                                         *)
(* Migrate.tla implements this module.                                     *)
(***************************************************************************)
EXTENDS Integers, FiniteSets

CONSTANTS Tables,    \* the version tables of the schema
          Scripts    \* [Tables -> SUBSET Nat]: the versions of the release

VARIABLES row,       \* [Tables -> [version, dirty]]: the row of the table
          applied,   \* [Tables -> SUBSET Nat]: the scripts whose effect is in
          active     \* [Tables -> SUBSET {"up","down"}]: who works on it

vars == <<row, applied, active>>

Clean(v) == [version |-> v, dirty |-> FALSE]
Dirty(v) == [version |-> v, dirty |-> TRUE]

Init == /\ row = [t \in Tables |-> Clean(-1)]
        /\ applied = [t \in Tables |-> {}]
        /\ active = [t \in Tables |-> {}]

\* A call finds the table clean and nobody at work.
Enter(t, o) == /\ active[t] = {} /\ ~row[t].dirty
               /\ active' = [active EXCEPT ![t] = {o}]
               /\ UNCHANGED <<row, applied>>

\* The next script upwards is the least one above the version, the next one
\* downwards the greatest one not above it.
Announce(t, v) ==
  /\ ~row[t].dirty
  /\ \/ /\ active[t] = {"up"}
        /\ v > row[t].version
        /\ \A w \in Scripts[t] : w > row[t].version => v <= w
     \/ /\ active[t] = {"down"}
        /\ v <= row[t].version
        /\ \A w \in Scripts[t] : w <= row[t].version => w <= v
  /\ row' = [row EXCEPT ![t] = Dirty(v)]
  /\ UNCHANGED <<applied, active>>

RunUp(t) == /\ active[t] = {"up"} /\ row[t].dirty
            /\ row[t].version \notin applied[t]
            /\ applied' = [applied EXCEPT ![t] = @ \cup {row[t].version}]
            /\ UNCHANGED <<row, active>>

RunDown(t) == /\ active[t] = {"down"} /\ row[t].dirty
              /\ row[t].version \in applied[t]
              /\ applied' = [applied EXCEPT ![t] = @ \ {row[t].version}]
              /\ UNCHANGED <<row, active>>

\* The clean mark names the newest script that is in.
Settle(t, v) == /\ active[t] # {} /\ row[t].dirty
                /\ v \in applied[t] \cup {-1}
                /\ \A w \in applied[t] : w <= v
                /\ row' = [row EXCEPT ![t] = Clean(v)]
                /\ UNCHANGED <<applied, active>>

Leave(t) == /\ active' = [active EXCEPT ![t] = {}]
            /\ UNCHANGED <<row, applied>>

Next == \E t \in Tables :
          \/ \E o \in {"up", "down"} : Enter(t, o)
          \/ \E v \in Scripts[t] : Announce(t, v)
          \/ RunUp(t) \/ RunDown(t)
          \/ \E v \in Scripts[t] \cup {-1} : Settle(t, v)
          \/ Leave(t)

Spec == Init /\ [][Next]_vars
=============================================================================
