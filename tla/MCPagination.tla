------------------------ MODULE MCPagination ------------------------
(* Instances of Pagination for TLC. *)
EXTENDS Pagination

\* "name" is a column with equal values, "id" one without.
AllowedFields == [createdAt |-> "id", name |-> "name"]

Sort(field, desc) == [field |-> field, desc |-> desc]
Sorts == {Sort("createdAt", FALSE), Sort("createdAt", TRUE), Sort("name", FALSE),
          Sort("secret", FALSE)}

\* With an int of 5 bits page 11 of size 3 begins at 33, which is 1, and page 8 at
\* 24, which is negative; 40 is out of range.
Pages == {None, 1, 8, 11, 40}
Sizes == {0, 1, 40}
=============================================================================
