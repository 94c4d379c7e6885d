----------------------------- MODULE Pagination -----------------------------
(***************************************************************************)
(* pagination/page.go, and a client that goes through a list with it: page *)
(* by page until it is told that this was the last, or to any pages it     *)
(* likes.  Each request is FromRequest, two queries of the service, one    *)
(* for the rows and one for their number, and NewPage; meanwhile others    *)
(* insert and delete rows.                                                 *)
(*                                                                         *)
(* The services and PostgreSQL are external: a query is "ORDER BY clause   *)
(* LIMIT size OFFSET offset", as in integration_test.go 64, and without an *)
(* order that tells all rows apart any rows may come.  An int is a number  *)
(* of -MaxInt - 1 .. MaxInt.                                               *)
(***************************************************************************)
EXTENDS Integers, FiniteSets

CONSTANTS Rows,        \* the rows there can be, numbers by which they are sorted
          Fields, Columns,
          Allowed,     \* allowedFields: from some of the Fields to Columns
          Unique,      \* the columns that tell all rows apart
          MaxInt,
          DefaultSize, MaxSize,
          PageParams, SizeParams, SortParams, \* what a query string may say
          MaxVisits,   \* bound: the pages of a client that does not walk
          None

ASSUME RowsAssumption == Rows \subseteq Int /\ IsFiniteSet(Rows)
ASSUME WidthAssumption == MaxInt \in Nat /\ Cardinality(Rows) <= MaxInt
ASSUME SizesAssumption == /\ MaxSize \in Nat /\ MaxSize <= MaxInt
                          /\ DefaultSize \in 1 .. MaxSize
ASSUME ParamsAssumption == /\ PageParams \subseteq Int \cup {None}
                           /\ SizeParams \subseteq Int \cup {None}
                           /\ SortParams \subseteq [field : Fields \cup {None}, desc : BOOLEAN]
                           /\ None \notin Int /\ MaxVisits \in Nat

VARIABLES
  table,
  walking,     \* the client goes on to the next page, or to any it has not seen
  countFirst,  \* the service's order of its two queries
  size, sort,  \* the client's parameters, which it repeats with every request
  next,        \* the page it asks for
  pc, req, rows, total,
  asked,       \* ghost: the pages it has asked for
  start,       \* ghost: the rows there were when a walk began
  grown, shrunk, \* ghosts: what others have done since
  got, twice   \* ghosts: the rows it has been given, and given again

client == <<walking, countFirst, size, sort>>
others == <<grown, shrunk>>
vars == <<table, client, next, pc, req, rows, total, asked, start, others, got, twice>>

(***************************************************************************)
(* FromRequest, Offset, OrderClause.                                       *)
(***************************************************************************)
\* strconv.Atoi, its error dropped: 0 for what is no number, the nearest int for one
\* that is out of range.
Atoi(s) == IF s = None THEN 0
           ELSE IF s > MaxInt THEN MaxInt
           ELSE IF s < -MaxInt - 1 THEN -MaxInt - 1 ELSE s

ParsePage(s) == IF Atoi(s) < 0 THEN 0 ELSE Atoi(s)

\* Fault: the size is not limited from below.
ParseSizeNoDefault(s) == IF s = None THEN DefaultSize
                         ELSE IF Atoi(s) > MaxSize THEN MaxSize ELSE Atoi(s)

ParseSize(s) == IF Atoi(s) <= 0 THEN DefaultSize
                ELSE IF Atoi(s) > MaxSize THEN MaxSize ELSE Atoi(s)

\* The part before the comma, and whether the one behind it is "desc" in any letters.
FromRequest(p, s, by) ==
  [Page |-> ParsePage(p), Size |-> ParseSize(s),
   SortBy |-> by.field, SortDir |-> IF by.desc THEN "desc" ELSE "asc"]

\* What an int makes of a number.
Wrap(n) == ((n + MaxInt + 1) % (2 * MaxInt + 2)) - MaxInt - 1

\* Fault: the offset does not follow the size that was asked for.
OffsetByDefault(r) == Wrap(r.Page * DefaultSize)

Offset(r) == Wrap(r.Page * r.Size)

OrderClause(r) ==
  IF r.SortBy \in DOMAIN Allowed
  THEN [col |-> Allowed[r.SortBy], dir |-> IF r.SortDir = "desc" THEN "DESC" ELSE "ASC"]
  ELSE None

(***************************************************************************)
(* NewPage.                                                                *)
(***************************************************************************)
\* Fault: the division is rounded down.
PagesRoundedDown(n, r) == n \div r.Size

TotalPages(n, r) == (n + r.Size - 1) \div r.Size

\* Fault: only the page with the number of the last one is the last.
LastIsEqual(n, r) == r.Page = TotalPages(n, r) - 1

Last(n, r) == r.Page >= TotalPages(n, r) - 1

(***************************************************************************)
(* The queries.                                                            *)
(***************************************************************************)
\* The order tells all rows apart.
Ordered(clause) == clause # None /\ clause.col \in Unique

Comes(clause, x, y) == IF clause.dir = "DESC" THEN x > y ELSE x < y

\* How many rows of t come before r.
Position(t, clause, r) == Cardinality({x \in t : Comes(clause, x, r)})

\* The results there can be.
Select(t, clause, limit, offset) ==
  IF Ordered(clause)
  THEN {{r \in t : /\ offset <= Position(t, clause, r)
                  /\ Position(t, clause, r) < offset + limit}}
  ELSE LET left == IF Cardinality(t) < offset THEN 0 ELSE Cardinality(t) - offset IN
       {s \in SUBSET t : Cardinality(s) = IF left < limit THEN left ELSE limit}

(***************************************************************************)
(* A client and the service.                                               *)
(***************************************************************************)
NoRequest == [Page |-> 0, Size |-> DefaultSize, SortBy |-> None, SortDir |-> "asc"]
Requests == [Page : 0 .. MaxInt, Size : 1 .. MaxSize, SortBy : Fields \cup {None},
             SortDir : {"asc", "desc"}]

TypeOK ==
  /\ table \subseteq Rows /\ start \subseteq Rows
  /\ walking \in BOOLEAN /\ countFirst \in BOOLEAN
  /\ size \in SizeParams /\ sort \in SortParams /\ next \in Int \cup {None}
  /\ pc \in {"ask", "rows", "count", "reply", "error", "done"}
  /\ req \in Requests /\ rows \subseteq Rows /\ total \in Nat
  /\ asked \subseteq 0 .. MaxInt
  /\ grown \in BOOLEAN /\ shrunk \in BOOLEAN
  /\ got \subseteq Rows /\ twice \subseteq got

Init ==
  /\ walking \in BOOLEAN /\ countFirst \in BOOLEAN
  /\ table \in SUBSET Rows /\ start = IF walking THEN table ELSE {}
  /\ size \in SizeParams /\ sort \in SortParams
  /\ IF walking THEN next = 0 ELSE next \in PageParams
  /\ pc = "ask" /\ req = NoRequest /\ rows = {} /\ total = 0
  /\ asked = {} /\ grown = FALSE /\ shrunk = FALSE /\ got = {} /\ twice = {}

Ask ==
  LET r == FromRequest(next, size, sort) IN
  /\ pc = "ask"
  /\ req' = r /\ asked' = asked \cup {r.Page}
  /\ pc' = IF countFirst THEN "count" ELSE "rows"
  /\ UNCHANGED <<table, client, next, rows, total, start, others, got, twice>>

\* An OFFSET below 0 is an error of the query.
ReadRows ==
  /\ pc = "rows"
  /\ IF Offset(req) < 0 THEN pc' = "error" /\ UNCHANGED rows
     ELSE /\ rows' \in Select(table, OrderClause(req), req.Size, Offset(req))
          /\ pc' = IF countFirst THEN "reply" ELSE "count"
  /\ UNCHANGED <<table, client, next, req, total, asked, start, others, got, twice>>

CountRows ==
  /\ pc = "count"
  /\ total' = Cardinality(table)
  /\ pc' = IF countFirst THEN "rows" ELSE "reply"
  /\ UNCHANGED <<table, client, next, req, rows, asked, start, others, got, twice>>

\* The client has its page.  It goes on to the next one unless this was the last, or
\* to any it has not seen.
Reply ==
  /\ pc = "reply"
  /\ got' = got \cup rows /\ twice' = twice \cup (got \cap rows)
  /\ IF walking THEN /\ next' = req.Page + 1
                     /\ pc' = IF Last(total, req) THEN "done" ELSE "ask"
     ELSE \/ /\ Cardinality(asked) < MaxVisits
             /\ next' \in {p \in PageParams : ParsePage(p) \notin asked}
             /\ pc' = "ask"
          \/ pc' = "done" /\ UNCHANGED next
  /\ req' = NoRequest /\ rows' = {} /\ total' = 0
  /\ UNCHANGED <<table, client, asked, start, others>>

Insert(r) ==
  /\ r \notin table
  /\ table' = table \cup {r} /\ grown' = TRUE
  /\ UNCHANGED <<client, next, pc, req, rows, total, asked, start, shrunk, got, twice>>

Delete(r) ==
  /\ r \in table
  /\ table' = table \ {r} /\ shrunk' = TRUE
  /\ UNCHANGED <<client, next, pc, req, rows, total, asked, start, grown, got, twice>>

Step == Ask \/ ReadRows \/ CountRows \/ Reply
Next == Step \/ \E r \in Rows : Insert(r) \/ Delete(r)

\* A client goes on with its walk, and its requests are answered.
Spec == Init /\ [][Next]_vars /\ WF_vars(Step)

(***************************************************************************)
(* Properties.                                                             *)
(***************************************************************************)
Clause == OrderClause(FromRequest(0, size, sort))

\* A client that reads page by page until Last, in an order that tells all rows apart,
\* has been given every row that was there when it began, if none of them is deleted.
\* Rows may be inserted meanwhile when the service reads before it counts, so that Last
\* is not said too early; for a service that counts first, which may say it of rows that
\* have come since, the property asks that none are inserted (page.go 88-106).
NothingMissed ==
  pc = "done" /\ walking /\ Ordered(Clause) /\ ~shrunk /\ (countFirst => ~grown)
    => start \subseteq got

\* In an order that tells all rows apart, and as long as none are inserted, no row is
\* given twice: on a walk, although rows are deleted meanwhile; to a client that jumps
\* about, also behind the end, in a table that stays as it is and up to page
\* MaxInt \div size.  Beyond that Offset overflows, and the page is an error or has
\* another page's rows (page.go 37-69).
NothingTwice ==
  /\ Ordered(Clause) /\ ~grown /\ (walking \/ ~shrunk)
  /\ walking \/ \A p \in asked : p <= MaxInt \div ParseSize(size)
  => twice = {}

\* A walk ends, however rows come and go (page.go 103).
WalkEnds == walking => <>(pc = "done")
=============================================================================
