----------------------------- MODULE MCMigrate -----------------------------
(* Instances of Migrate for TLC. *)
EXTENDS Migrate

CONSTANTS s1, s2, s3

ThreeSessions == {s1, s2, s3}

\* Two tables whose lock keys differ.
OwnKeys == [t \in Tables |-> t]

\* One release for every caller.  The default table has a gap in its numbers
\* and starts at 0; the custom table has one migration.
OneRelease == [s \in Sessions |->
                 [t \in Tables |-> IF t = DefaultTable THEN {0, 2, 3} ELSE {1}]]

\* The third caller's image lacks the down file of version 2.
DownButOne == [s \in Sessions |->
                 [t \in Tables |-> OneRelease[s][t] \ (IF s = s3 THEN {2} ELSE {})]]

\* A rolling deployment: the new release adds 2, which was numbered before 3 of
\* the old release but merged later, and 4.
MixedReleases == [s \in Sessions |->
                    [t \in Tables |-> IF s = s1 THEN {1, 3} ELSE {1, 2, 3, 4}]]
=============================================================================
