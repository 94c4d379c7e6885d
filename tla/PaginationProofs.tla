-------------------------- MODULE PaginationProofs --------------------------
(***************************************************************************)
(* What Pagination promises for every width of an int, every number of     *)
(* rows and every limit of the page size.                                  *)
(***************************************************************************)
EXTENDS Pagination, FiniteSetTheorems, TLAPS

(***************************************************************************)
(* Arithmetic.                                                             *)
(***************************************************************************)
LEMMA PagesApart ==
  ASSUME NEW p \in Nat, NEW q \in Nat, NEW s \in Nat, p < q
  PROVE  p * s + s <= q * s
  BY SMT

LEMMA DivBelow ==
  ASSUME NEW n \in Nat, NEW s \in Nat, s > 0, NEW p \in Nat, p <= n \div s
  PROVE  p * s <= n
  BY SMT

\* Last says that no row lies behind the page: TotalPages rounds up.
LEMMA LastMeans ==
  ASSUME NEW n \in Nat, NEW r \in Requests
  PROVE  /\ Last(n, r) <=> n <= r.Page * r.Size + r.Size
         /\ ~Last(n, r) => (r.Page + 1) * r.Size <= n
  <1> DEFINE p == r.Page
             s == r.Size
  <1>1. p \in Nat /\ s \in Nat /\ s > 0
    BY SizesAssumption, WidthAssumption DEF Requests
  <1>2. ASSUME NEW P \in Nat, NEW S \in Nat, S > 0
        PROVE  /\ (P >= (n + S - 1) \div S - 1) <=> n <= P * S + S
               /\ (P + 1) * S = P * S + S
    <2>1. (P >= (n + S - 1) \div S - 1) <=> n <= P * S + S
      BY <1>2, SMT
    <2>2. (P + 1) * S = P * S + S
      BY <1>2, SMT
    <2> QED
      BY <2>1, <2>2
  <1> HIDE DEF p, s
  <1>3. /\ (p >= (n + s - 1) \div s - 1) <=> n <= p * s + s
        /\ (p + 1) * s = p * s + s
    BY <1>1, <1>2
  <1>4. p * s \in Nat
    BY <1>1
  <1> QED
    BY <1>1, <1>3, <1>4 DEF Last, TotalPages, p, s

\* An int holds the numbers up to MaxInt.
LEMMA WrapExact ==
  ASSUME NEW n \in Nat, n <= MaxInt
  PROVE  Wrap(n) = n
  BY WidthAssumption, SMT DEF Wrap

LEMMA ParsedSize ==
  ASSUME NEW s \in SizeParams
  PROVE  ParseSize(s) \in 1 .. MaxSize
  BY SizesAssumption, WidthAssumption, ParamsAssumption, SMT DEF ParseSize, Atoi

LEMMA ParsedPage ==
  ASSUME NEW p \in Int \cup {None}
  PROVE  /\ ParsePage(p) \in 0 .. MaxInt
         /\ p \in 0 .. MaxInt => ParsePage(p) = p
  BY WidthAssumption, ParamsAssumption, SMT DEF ParsePage, Atoi

\* What a query string becomes is a request, whatever it says.
LEMMA ParsedRequest ==
  ASSUME NEW p \in Int \cup {None}, NEW s \in SizeParams, NEW by \in SortParams
  PROVE  /\ FromRequest(p, s, by) \in Requests
         /\ FromRequest(p, s, by).Page = ParsePage(p)
         /\ FromRequest(p, s, by).Size = ParseSize(s)
         /\ OrderClause(FromRequest(p, s, by)) = OrderClause(FromRequest(0, s, by))
  BY ParsedSize, ParsedPage, ParamsAssumption DEF FromRequest, Requests, OrderClause

(***************************************************************************)
(* Positions.                                                              *)
(***************************************************************************)
LEMMA Counted ==
  ASSUME NEW t \in SUBSET Rows
  PROVE  /\ IsFiniteSet(t) /\ Cardinality(t) \in Nat
         /\ Cardinality(t) <= Cardinality(Rows) /\ Cardinality(Rows) \in Nat
  BY RowsAssumption, FS_Subset, FS_CardinalityType

LEMMA PositionType ==
  ASSUME NEW t \in SUBSET Rows, NEW clause, NEW r \in t
  PROVE  /\ Position(t, clause, r) \in Nat
         /\ Position(t, clause, r) < Cardinality(t)
  <1> DEFINE b == {x \in t : Comes(clause, x, r)}
  <1>1. b \in SUBSET (t \ {r})
    BY RowsAssumption DEF Comes
  <1>2. IsFiniteSet(t \ {r}) /\ Cardinality(t \ {r}) = Cardinality(t) - 1
    BY Counted, FS_RemoveElement
  <1>3. Cardinality(b) \in Nat /\ Cardinality(b) <= Cardinality(t \ {r})
    BY <1>1, <1>2, FS_Subset, FS_CardinalityType
  <1> QED
    BY <1>2, <1>3, Counted DEF Position

\* Rows that are inserted move others back, never forward.
LEMMA PositionGrows ==
  ASSUME NEW t \in SUBSET Rows, NEW u \in SUBSET t, NEW clause, NEW r
  PROVE  /\ Position(u, clause, r) \in Nat /\ Position(t, clause, r) \in Nat
         /\ Position(u, clause, r) <= Position(t, clause, r)
  <1> DEFINE b == {x \in t : Comes(clause, x, r)}
             c == {x \in u : Comes(clause, x, r)}
  <1>1. IsFiniteSet(b) /\ c \in SUBSET b
    BY Counted
  <1> HIDE DEF b, c
  <1>2. /\ Cardinality(b) \in Nat /\ Cardinality(c) \in Nat
        /\ Cardinality(c) <= Cardinality(b)
    BY <1>1, FS_Subset, FS_CardinalityType
  <1> QED
    BY <1>2 DEF Position, b, c

(***************************************************************************)
(* Type correctness, and what a request under way is.                      *)
(***************************************************************************)
InRequest == pc \in {"rows", "count", "reply"}

OwnRequest ==
  /\ InRequest => req = FromRequest(next, size, sort)
  /\ total <= Cardinality(Rows)

Typed == TypeOK /\ OwnRequest

LEMMA TypedInit == Init => Typed
  <1>1. NoRequest \in Requests
    BY SizesAssumption, WidthAssumption DEF NoRequest, Requests
  <1> SUFFICES ASSUME Init
               PROVE  Typed
    OBVIOUS
  <1>2. next \in Int \cup {None} /\ start \subseteq Rows
    <2>1. CASE walking
      BY <2>1 DEF Init
    <2>2. CASE ~walking
      BY <2>2, ParamsAssumption DEF Init
    <2> QED
      BY <2>1, <2>2
  <1>3. TypeOK
    BY <1>1, <1>2 DEF Init, TypeOK
  <1>4. OwnRequest
    BY <1>3, Counted DEF Init, OwnRequest, InRequest, TypeOK
  <1> QED
    BY <1>3, <1>4 DEF Typed

LEMMA TypedStep == Typed /\ [Next]_vars => Typed'
  <1> SUFFICES ASSUME Typed, [Next]_vars
               PROVE  Typed'
    OBVIOUS
  <1> USE DEF Typed, TypeOK, OwnRequest, InRequest, client, others
  <1>1. CASE Ask
    <2>1. FromRequest(next, size, sort) \in Requests
      BY ParsedRequest
    <2>2. FromRequest(next, size, sort).Page \in 0 .. MaxInt
      BY <2>1 DEF Requests
    <2>3. /\ req' = FromRequest(next, size, sort)
          /\ asked' = asked \cup {FromRequest(next, size, sort).Page}
          /\ pc' \in {"rows", "count"}
          /\ UNCHANGED <<table, client, next, rows, total, start, others, got, twice>>
      BY <1>1 DEF Ask
    <2>4. asked' \subseteq 0 .. MaxInt
      BY <2>2, <2>3
    <2> QED
      BY <2>1, <2>3, <2>4
  <1>2. CASE ReadRows
    <2>1. rows' \subseteq Rows
      <3>1. ASSUME NEW s \in Select(table, OrderClause(req), req.Size, Offset(req))
            PROVE  s \subseteq Rows
        BY DEF Select
      <3> QED
        BY <1>2, <3>1 DEF ReadRows
    <2> QED
      BY <1>2, <2>1 DEF ReadRows
  <1>3. CASE CountRows
    BY <1>3, Counted DEF CountRows
  <1>4. CASE Reply
    <2>1. NoRequest \in Requests
      BY SizesAssumption, WidthAssumption DEF NoRequest, Requests
    <2>2. next' \in Int \cup {None}
      <3>1. CASE walking
        <4>1. req.Page \in Int
          BY WidthAssumption DEF Requests
        <4> QED
          BY <1>4, <3>1, <4>1 DEF Reply
      <3>2. CASE ~walking
        BY <1>4, <3>2, ParamsAssumption DEF Reply
      <3> QED
        BY <3>1, <3>2
    <2>3. pc' \in {"ask", "done"}
      BY <1>4 DEF Reply
    <2> QED
      BY <1>4, <2>1, <2>2, <2>3, Counted DEF Reply
  <1>5. ASSUME NEW r \in Rows, Insert(r)
        PROVE  Typed'
    BY <1>5 DEF Insert
  <1>6. ASSUME NEW r \in Rows, Delete(r)
        PROVE  Typed'
    BY <1>6 DEF Delete
  <1>7. CASE UNCHANGED vars
    BY <1>7 DEF vars
  <1> QED
    BY <1>1, <1>2, <1>3, <1>4, <1>5, <1>6, <1>7 DEF Next, Step

\* Every query string becomes a page from 0 and a size from 1 to MaxSize, and the
\* rest of the model keeps to its types (page.go 37-64).
THEOREM PageTyping == Spec => []TypeOK
  <1>1. Typed => TypeOK
    BY DEF Typed
  <1> QED
    BY <1>1, TypedInit, TypedStep, PTL DEF Spec

(***************************************************************************)
(* How far a walk is.                                                      *)
(***************************************************************************)
Limit  == ParseSize(size)
Pos(r) == Position(table, Clause, r)

\* The rows of the page are at hand.
Read == pc = "reply" \/ (pc = "count" /\ ~countFirst)
\* They have not been read yet.
Unread == pc = "rows" \/ (pc = "count" /\ countFirst)

\* A walk never gets further than there can be rows.
InRange ==
  walking /\ pc \notin {"done", "error"} =>
    next \in Nat /\ next * Limit <= Cardinality(Rows)

LEMMA LimitType ==
  ASSUME Typed
  PROVE  Limit \in Nat /\ Limit > 0
  BY ParsedSize, SizesAssumption, WidthAssumption DEF Limit, Typed, TypeOK

\* What is known of the request of a page that is in range.
LEMMA PageInRange ==
  ASSUME Typed, InRequest, next \in Nat, next * Limit <= MaxInt
  PROVE  /\ req \in Requests /\ req.Page = next /\ req.Size = Limit
         /\ OrderClause(req) = Clause
         /\ Offset(req) = next * Limit
  <1>1. /\ req = FromRequest(next, size, sort)
        /\ size \in SizeParams /\ sort \in SortParams
    BY DEF Typed, OwnRequest, TypeOK
  <1>2. Limit \in Nat /\ Limit > 0 /\ next * Limit \in Nat
    BY LimitType
  <1>3. next <= next * Limit
    <2>1. ASSUME NEW n \in Nat, NEW k \in Nat, k > 0
          PROVE  n <= n * k
      BY <2>1, SMT
    <2> QED
      BY <2>1, <1>2
  <1>4. next \in 0 .. MaxInt
    BY <1>2, <1>3, WidthAssumption
  <1>5. req.Page = next /\ req.Size = Limit /\ OrderClause(req) = Clause
    BY <1>1, <1>4, ParsedRequest, ParsedPage DEF Clause, Limit
  <1>6. Offset(req) = next * Limit
    BY <1>2, <1>5, WrapExact DEF Offset
  <1> QED
    BY <1>1, <1>5, <1>6, ParsedRequest

LEMMA PageOfWalk ==
  ASSUME Typed, InRange, InRequest, walking
  PROVE  /\ req \in Requests /\ req.Page = next /\ req.Size = Limit
         /\ next \in Nat /\ next * Limit \in Nat
         /\ OrderClause(req) = Clause
         /\ Offset(req) = next * Limit
  <1>1. next \in Nat /\ next * Limit <= MaxInt
    <2>1. next \in Nat /\ next * Limit <= Cardinality(Rows)
      BY DEF InRange, InRequest
    <2> QED
      BY <2>1, LimitType, Counted, WidthAssumption
  <1> QED
    BY <1>1, PageInRange, LimitType

\* The rows of a page, when the order tells them apart.
LEMMA RowsRead ==
  ASSUME ReadRows, Ordered(Clause), OrderClause(req) = Clause, Offset(req) \in Nat
  PROVE  /\ rows' = {r \in table : Offset(req) <= Pos(r) /\ Pos(r) < Offset(req) + req.Size}
         /\ pc' = IF countFirst THEN "reply" ELSE "count"
  <1>1. ~(Offset(req) < 0)
    OBVIOUS
  <1>2. /\ rows' \in Select(table, Clause, req.Size, Offset(req))
        /\ pc' = IF countFirst THEN "reply" ELSE "count"
    BY <1>1 DEF ReadRows
  <1> QED
    BY <1>2 DEF Select, Pos

LEMMA InRangeStep == Typed /\ InRange /\ [Next]_vars => InRange'
  <1> SUFFICES ASSUME Typed, InRange, [Next]_vars, walking', pc' \notin {"done", "error"}
               PROVE  next' \in Nat /\ next' * Limit' <= Cardinality(Rows)
    BY DEF InRange
  <1>1. CASE UNCHANGED next /\ UNCHANGED client /\ pc \notin {"done", "error"}
    BY <1>1 DEF InRange, Limit, client
  <1>2. CASE Reply
    <2>1. walking /\ size' = size /\ pc = "reply"
      BY <1>2 DEF Reply, client
    <2>2. /\ req \in Requests /\ req.Page = next /\ req.Size = Limit /\ next \in Nat
      BY <2>1, PageOfWalk DEF InRequest
    <2>3. ~Last(total, req) /\ next' = next + 1
      BY <1>2, <2>1, <2>2 DEF Reply
    <2>4. total \in Nat /\ total <= Cardinality(Rows)
      BY DEF Typed, TypeOK, OwnRequest
    <2>5. (next + 1) * Limit <= total
      BY <2>2, <2>3, <2>4, LastMeans
    <2> QED
      BY <2>1, <2>2, <2>3, <2>4, <2>5, LimitType, Counted DEF Limit
  <1>3. ASSUME Next, ~Reply
        PROVE  UNCHANGED next /\ UNCHANGED client /\ pc \notin {"done", "error"}
    BY <1>3 DEF Next, Step, Ask, ReadRows, CountRows, Insert, Delete
  <1>4. CASE UNCHANGED vars
    BY <1>4, <1>1 DEF vars, client
  <1> QED
    BY <1>1, <1>2, <1>3, <1>4

(***************************************************************************)
(* Nothing is missed.                                                      *)
(***************************************************************************)
\* What was there at the start is still there; what lies before the next page, or the
\* end of the page that has been read, has been given; and a number of rows that was
\* counted before they were read is still right as long as none is inserted.
Kept == start \subseteq table

GivenSoFar == pc = "ask" \/ Unread => \A r \in start : Pos(r) < next * Limit => r \in got

GivenOrRead == Read => \A r \in start : Pos(r) < next * Limit + Limit => r \in got \cup rows

RightCount == countFirst /\ ~grown /\ pc \in {"rows", "reply"} => total = Cardinality(table)

AllGiven ==
  (countFirst => ~grown) =>
    /\ pc = "reply" /\ Last(total, req) => start \subseteq got \cup rows
    /\ pc = "done" => start \subseteq got

WalkInv == Kept /\ GivenSoFar /\ GivenOrRead /\ RightCount /\ AllGiven

MissInv == walking /\ Ordered(Clause) /\ ~shrunk => WalkInv

\* On the last page nothing is left behind, if the rows were counted as they are.
LEMMA LastPage ==
  ASSUME Typed, InRange, InRequest, walking, Last(Cardinality(table), req), Kept, NEW given,
         \A r \in start : Pos(r) < next * Limit + Limit => r \in given
  PROVE  start \subseteq given
  <1>1. /\ req \in Requests /\ next \in Nat /\ next * Limit \in Nat
        /\ Cardinality(table) <= next * Limit + Limit
    BY PageOfWalk, LastMeans, Counted DEF Typed, TypeOK
  <1>2. ASSUME NEW r \in start
        PROVE  Pos(r) < next * Limit + Limit
    <2>1. Pos(r) \in Nat /\ Pos(r) < Cardinality(table)
      BY PositionType DEF Kept, Pos, Typed, TypeOK
    <2> QED
      BY <1>1, <2>1, LimitType, Counted DEF Typed, TypeOK
  <1> QED
    BY <1>2

LEMMA MissInit == Init => InRange /\ MissInv
  <1> SUFFICES ASSUME Init
               PROVE  InRange /\ MissInv
    OBVIOUS
  <1>1. Typed
    BY TypedInit
  <1>2. InRange
    <2>1. walking => next = 0
      BY DEF Init
    <2>2. 0 * Limit = 0
      BY <1>1, LimitType
    <2> QED
      BY <2>1, <2>2, Counted DEF InRange
  <1>3. ASSUME walking, NEW r \in start
        PROVE  ~(Pos(r) < next * Limit)
    <2>1. next * Limit = 0 /\ start = table
      BY <1>1, <1>3, LimitType DEF Init
    <2>2. Pos(r) \in Nat
      BY <1>1, <2>1, PositionType DEF Pos, Typed, TypeOK
    <2> QED
      BY <2>1, <2>2
  <1> QED
    BY <1>2, <1>3
    DEF Init, MissInv, WalkInv, Kept, GivenSoFar, GivenOrRead, RightCount, AllGiven, Read, Unread

LEMMA MissStep == Typed /\ InRange /\ MissInv /\ [Next]_vars => MissInv'
  <1> SUFFICES ASSUME Typed, InRange, MissInv, [Next]_vars,
                      walking', Ordered(Clause'), ~shrunk'
               PROVE  WalkInv'
    BY DEF MissInv
  <1>1. UNCHANGED client /\ start' = start
    BY DEF Next, Step, Ask, ReadRows, CountRows, Reply, Insert, Delete, vars
  <1>2. walking /\ Clause' = Clause /\ Limit' = Limit /\ countFirst' = countFirst
    BY <1>1 DEF client, Clause, Limit
  <1>3. ~shrunk
    BY DEF Next, Step, Ask, ReadRows, CountRows, Reply, Insert, Delete, vars, others
  <1>4. WalkInv
    BY <1>2, <1>3 DEF MissInv
  <1>5. /\ Limit \in Nat /\ Limit > 0
        /\ table \in SUBSET Rows /\ countFirst \in BOOLEAN /\ grown \in BOOLEAN
    BY LimitType DEF Typed, TypeOK
  <1>6. ASSUME NEW r \in start
        PROVE  Pos(r) \in Nat
    BY <1>4, <1>5, PositionType DEF WalkInv, Kept, Pos
  <1>7. table' = table => \A r : Pos(r)' = Pos(r)
    BY <1>2 DEF Pos
  <1> USE DEF InRequest
  <1>a. CASE Ask
    BY <1>a, <1>1, <1>2, <1>4, <1>7
    DEF Ask, WalkInv, Kept, GivenSoFar, GivenOrRead, RightCount, AllGiven, Read, Unread, others
  <1>b. CASE ReadRows
    <2>1. /\ next * Limit \in Nat /\ req.Size = Limit
          /\ OrderClause(req) = Clause /\ Offset(req) = next * Limit
      BY <1>2, <1>b, PageOfWalk DEF ReadRows
    <2>2. /\ rows' = {r \in table : next * Limit <= Pos(r) /\ Pos(r) < next * Limit + Limit}
          /\ pc' = IF countFirst THEN "reply" ELSE "count"
      BY <1>2, <1>b, <2>1, RowsRead
    <2>3. UNCHANGED <<table, next, req, total, grown, got>> /\ pc = "rows"
      BY <1>b DEF ReadRows, others
    <2>4. \A r \in start : Pos(r) < next * Limit + Limit => r \in got \cup rows'
      BY <1>4, <1>6, <2>1, <2>2, <2>3 DEF WalkInv, Kept, GivenSoFar, Unread
    <2>5. Kept' /\ GivenSoFar' /\ GivenOrRead' /\ RightCount'
      BY <1>1, <1>2, <1>4, <1>7, <2>2, <2>3, <2>4
      DEF WalkInv, Kept, GivenSoFar, GivenOrRead, RightCount, Read, Unread
    <2>6. ASSUME countFirst, ~grown, Last(total, req)
          PROVE  start \subseteq got \cup rows'
      BY <1>2, <1>4, <2>3, <2>4, <2>6, LastPage DEF WalkInv, RightCount
    <2>7. AllGiven'
      BY <1>1, <1>2, <2>2, <2>3, <2>6 DEF AllGiven
    <2> QED
      BY <2>5, <2>7 DEF WalkInv
  <1>c. CASE CountRows
    <2>1. /\ UNCHANGED <<table, next, req, rows, grown, got>> /\ pc = "count"
          /\ total' = Cardinality(table)
          /\ pc' = IF countFirst THEN "rows" ELSE "reply"
      BY <1>c DEF CountRows, others
    <2>2. Kept' /\ GivenSoFar' /\ GivenOrRead' /\ RightCount'
      BY <1>1, <1>2, <1>4, <1>7, <2>1
      DEF WalkInv, Kept, GivenSoFar, GivenOrRead, RightCount, Read, Unread
    <2>3. ASSUME ~countFirst, Last(total', req)
          PROVE  start \subseteq got \cup rows
      BY <1>2, <1>4, <2>1, <2>3, LastPage DEF WalkInv, GivenOrRead, Read
    <2>4. AllGiven'
      BY <1>1, <1>2, <2>1, <2>3 DEF AllGiven
    <2> QED
      BY <2>2, <2>4 DEF WalkInv
  <1>d. CASE Reply
    <2>1. /\ req.Page = next /\ next \in Nat
      BY <1>2, <1>d, PageOfWalk DEF Reply
    <2>2. /\ UNCHANGED <<table, grown>> /\ pc = "reply"
          /\ got' = got \cup rows /\ next' = next + 1
          /\ pc' = IF Last(total, req) THEN "done" ELSE "ask"
      BY <1>2, <1>d, <2>1 DEF Reply, others
    <2>3. next' * Limit = next * Limit + Limit
      <3>1. ASSUME NEW n \in Nat, NEW k \in Nat
            PROVE  (n + 1) * k = n * k + k
        BY <3>1, SMT
      <3> QED
        BY <1>5, <2>1, <2>2, <3>1
    <2> QED
      BY <1>1, <1>2, <1>4, <1>7, <2>2, <2>3
      DEF WalkInv, Kept, GivenSoFar, GivenOrRead, RightCount, AllGiven, Read, Unread
  <1>e. ASSUME NEW x \in Rows, Insert(x)
        PROVE  WalkInv'
    <2>1. /\ table' = table \cup {x} /\ grown'
          /\ UNCHANGED <<next, pc, req, rows, total, got>>
      BY <1>e DEF Insert
    <2>2. ASSUME NEW r
          PROVE  Pos(r) \in Nat /\ Pos(r)' \in Nat /\ Pos(r) <= Pos(r)'
      <3>1. table' \in SUBSET Rows /\ table \in SUBSET table'
        BY <1>5, <2>1
      <3> QED
        BY <1>2, <3>1, PositionGrows DEF Pos
    <2>3. Kept' /\ RightCount' /\ AllGiven'
      BY <1>1, <1>2, <1>4, <2>1 DEF WalkInv, Kept, RightCount, AllGiven
    <2>4. pc \in {"ask", "rows", "count", "reply"} => next * Limit \in Nat
      BY <1>2, <1>5 DEF InRange
    <2>5. GivenSoFar' /\ GivenOrRead'
      BY <1>1, <1>2, <1>4, <1>5, <2>1, <2>2, <2>4
      DEF WalkInv, GivenSoFar, GivenOrRead, Read, Unread
    <2> QED
      BY <2>3, <2>5 DEF WalkInv
  <1>f. ASSUME NEW x \in Rows, Delete(x)
        PROVE  WalkInv'
    BY <1>f DEF Delete
  <1>g. CASE UNCHANGED vars
    BY <1>g, <1>1, <1>2, <1>4, <1>7
    DEF vars, others, WalkInv, Kept, GivenSoFar, GivenOrRead, RightCount, AllGiven, Read, Unread
  <1> QED
    BY <1>a, <1>b, <1>c, <1>d, <1>e, <1>f, <1>g DEF Next, Step

\* A walk misses no row, for every number of rows, every size and either order of the
\* queries, while rows are inserted (page.go 66-106).
THEOREM WalksMissNothing == Spec => []NothingMissed
  <1>1. Typed /\ InRange /\ MissInv => NothingMissed
    BY DEF NothingMissed, MissInv, WalkInv, AllGiven
  <1> QED
    BY <1>1, TypedInit, TypedStep, InRangeStep, MissInit, MissStep, PTL DEF Spec

(***************************************************************************)
(* Nothing comes twice: on a walk.                                         *)
(***************************************************************************)
\* What has been given and is still there lies before the next page, or before the end
\* of the page that has been read.
GivenIsBefore == pc = "ask" \/ Unread => \A r \in got \cap table : Pos(r) < next * Limit

ReadIsNew ==
  Read => /\ rows \cap got = {}
          /\ \A r \in (got \cup rows) \cap table : Pos(r) < next * Limit + Limit

OnceInv ==
  walking /\ Ordered(Clause) /\ ~grown => GivenIsBefore /\ ReadIsNew /\ twice = {}

LEMMA OnceInit == Init => OnceInv
  BY DEF Init, OnceInv, GivenIsBefore, ReadIsNew, Read

LEMMA OnceStep == Typed /\ InRange /\ OnceInv /\ [Next]_vars => OnceInv'
  <1> SUFFICES ASSUME Typed, InRange, OnceInv, [Next]_vars,
                      walking', Ordered(Clause'), ~grown'
               PROVE  GivenIsBefore' /\ ReadIsNew' /\ twice' = {}
    BY DEF OnceInv
  <1>1. UNCHANGED client
    BY DEF Next, Step, Ask, ReadRows, CountRows, Reply, Insert, Delete, vars
  <1>2. walking /\ Clause' = Clause /\ Limit' = Limit /\ countFirst' = countFirst
    BY <1>1 DEF client, Clause, Limit
  <1>3. ~grown
    BY DEF Next, Step, Ask, ReadRows, CountRows, Reply, Insert, Delete, vars, others
  <1>4. GivenIsBefore /\ ReadIsNew /\ twice = {}
    BY <1>2, <1>3 DEF OnceInv
  <1>5. /\ Limit \in Nat /\ Limit > 0
        /\ table \in SUBSET Rows /\ countFirst \in BOOLEAN
    BY LimitType DEF Typed, TypeOK
  <1>6. ASSUME NEW r \in table
        PROVE  Pos(r) \in Nat
    BY <1>5, PositionType DEF Pos
  <1>7. table' = table => \A r : Pos(r)' = Pos(r)
    BY <1>2 DEF Pos
  <1> USE DEF InRequest
  <1>a. CASE Ask
    BY <1>a, <1>2, <1>4, <1>7 DEF Ask, GivenIsBefore, ReadIsNew, Read, Unread
  <1>b. CASE ReadRows
    <2>1. /\ next * Limit \in Nat /\ req.Size = Limit
          /\ OrderClause(req) = Clause /\ Offset(req) = next * Limit
      BY <1>2, <1>b, PageOfWalk DEF ReadRows
    <2>2. /\ rows' = {r \in table : next * Limit <= Pos(r) /\ Pos(r) < next * Limit + Limit}
          /\ pc' = IF countFirst THEN "reply" ELSE "count"
      BY <1>2, <1>b, <2>1, RowsRead
    <2>3. UNCHANGED <<table, next, got, twice>> /\ pc = "rows"
      BY <1>b DEF ReadRows
    <2>4. ASSUME NEW r \in got \cap table
          PROVE  Pos(r) < next * Limit /\ Pos(r) < next * Limit + Limit
      BY <1>4, <1>5, <1>6, <2>1, <2>3 DEF GivenIsBefore, Unread
    <2>5. rows' \cap got = {}
      BY <1>6, <2>1, <2>2, <2>4
    <2>6. \A r \in (got \cup rows') \cap table : Pos(r) < next * Limit + Limit
      BY <2>2, <2>4
    <2> QED
      BY <1>2, <1>4, <1>7, <2>2, <2>3, <2>5, <2>6 DEF GivenIsBefore, ReadIsNew, Unread
  <1>c. CASE CountRows
    BY <1>c, <1>2, <1>4, <1>7 DEF CountRows, GivenIsBefore, ReadIsNew, Read, Unread
  <1>d. CASE Reply
    <2>1. req.Page = next /\ next \in Nat
      BY <1>2, <1>d, PageOfWalk DEF Reply
    <2>2. /\ table' = table /\ pc = "reply" /\ pc' \in {"ask", "done"}
          /\ got' = got \cup rows /\ next' = next + 1
          /\ twice' = twice \cup (got \cap rows)
      BY <1>2, <1>d, <2>1 DEF Reply
    <2>3. next' * Limit = next * Limit + Limit
      <3>1. ASSUME NEW n \in Nat, NEW k \in Nat
            PROVE  (n + 1) * k = n * k + k
        BY <3>1, SMT
      <3> QED
        BY <1>5, <2>1, <2>2, <3>1
    <2> QED
      BY <1>2, <1>4, <1>7, <2>2, <2>3 DEF GivenIsBefore, ReadIsNew, Read, Unread
  <1>e. ASSUME NEW x \in Rows, Insert(x)
        PROVE  FALSE
    BY <1>e DEF Insert
  <1>f. ASSUME NEW x \in Rows, Delete(x)
        PROVE  GivenIsBefore' /\ ReadIsNew' /\ twice' = {}
    <2>1. /\ table' = table \ {x}
          /\ UNCHANGED <<next, pc, rows, got, twice>>
      BY <1>f DEF Delete
    <2>2. ASSUME NEW r
          PROVE  Pos(r) \in Nat /\ Pos(r)' \in Nat /\ Pos(r)' <= Pos(r)
      BY <1>2, <1>5, <2>1, PositionGrows DEF Pos
    <2>3. pc \in {"ask", "rows", "count", "reply"} => next * Limit \in Nat
      BY <1>2, <1>5 DEF InRange
    <2> QED
      BY <1>2, <1>4, <1>5, <2>1, <2>2, <2>3 DEF GivenIsBefore, ReadIsNew, Read, Unread
  <1>g. CASE UNCHANGED vars
    BY <1>g, <1>2, <1>4, <1>7 DEF vars, GivenIsBefore, ReadIsNew, Read, Unread
  <1> QED
    BY <1>a, <1>b, <1>c, <1>d, <1>e, <1>f, <1>g DEF Next, Step

(***************************************************************************)
(* Nothing comes twice: on pages of the client's choice.                   *)
(***************************************************************************)
\* The rows of page p.
OnPage(r, p) == r \in table /\ p * Limit <= Pos(r) /\ Pos(r) < p * Limit + Limit

NewPage == /\ pc = "ask" => ParsePage(next) \notin asked
           /\ InRequest => req.Page \in asked

GivenIsElsewhere ==
  \A r \in got : \E p \in asked : OnPage(r, p) /\ (InRequest => p # req.Page)

ReadIsThere == Read => \A r \in rows : OnPage(r, req.Page)

VisitInv ==
  /\ ~walking /\ Ordered(Clause) /\ ~grown /\ ~shrunk
  /\ \A p \in asked : p <= MaxInt \div Limit
  => NewPage /\ GivenIsElsewhere /\ ReadIsThere /\ twice = {}

\* No row is on two pages.
LEMMA OnePage ==
  ASSUME Typed, NEW r, NEW p \in Nat, NEW q \in Nat, OnPage(r, p), OnPage(r, q)
  PROVE  p = q
  <1>1. Limit \in Nat /\ Pos(r) \in Nat
    BY LimitType, PositionType DEF OnPage, Pos, Typed, TypeOK
  <1>2. ASSUME NEW a \in Nat, NEW b \in Nat, OnPage(r, a), OnPage(r, b)
        PROVE  ~(a < b)
    <2>1. SUFFICES ASSUME a < b
                   PROVE  FALSE
      OBVIOUS
    <2>2. a * Limit + Limit <= b * Limit
      BY <1>1, <2>1, PagesApart
    <2>3. a * Limit \in Nat /\ b * Limit \in Nat
      BY <1>1
    <2> QED
      BY <1>1, <1>2, <2>2, <2>3 DEF OnPage
  <1> QED
    BY <1>2

LEMMA VisitInit == Init => VisitInv
  BY DEF Init, VisitInv, NewPage, GivenIsElsewhere, ReadIsThere, InRequest, Read

LEMMA VisitStep == Typed /\ VisitInv /\ [Next]_vars => VisitInv'
  <1> SUFFICES ASSUME Typed, VisitInv, [Next]_vars,
                      ~walking', Ordered(Clause'), ~grown', ~shrunk',
                      \A p \in asked' : p <= MaxInt \div Limit'
               PROVE  NewPage' /\ GivenIsElsewhere' /\ ReadIsThere' /\ twice' = {}
    BY DEF VisitInv
  <1>1. UNCHANGED client /\ asked \subseteq asked'
    BY DEF Next, Step, Ask, ReadRows, CountRows, Reply, Insert, Delete, vars
  <1>2. ~walking /\ Clause' = Clause /\ Limit' = Limit /\ countFirst' = countFirst
    BY <1>1 DEF client, Clause, Limit
  <1>3. ~grown /\ ~shrunk /\ table' = table
    BY DEF Next, Step, Ask, ReadRows, CountRows, Reply, Insert, Delete, vars, others
  <1>4. NewPage /\ GivenIsElsewhere /\ ReadIsThere /\ twice = {}
    BY <1>1, <1>2, <1>3 DEF VisitInv
  <1>5. /\ Limit \in Nat /\ Limit > 0 /\ asked \subseteq Nat
        /\ table \in SUBSET Rows /\ countFirst \in BOOLEAN
    BY LimitType, WidthAssumption DEF Typed, TypeOK
  <1>6. \A r, p : OnPage(r, p)' <=> OnPage(r, p)
    BY <1>2, <1>3 DEF OnPage, Pos
  <1> USE DEF InRequest
  <1>a. CASE Ask
    <2>1. /\ pc = "ask" /\ pc' \in {"rows", "count"}
          /\ req'.Page = ParsePage(next) /\ asked' = asked \cup {req'.Page}
          /\ UNCHANGED <<got, rows, twice>> /\ ~Read'
      BY <1>a, <1>2, ParsedRequest DEF Ask, Typed, TypeOK, Read
    <2>2. ParsePage(next) \notin asked
      BY <1>4, <2>1 DEF NewPage
    <2>3. NewPage' /\ ReadIsThere' /\ twice' = {}
      BY <1>4, <2>1 DEF NewPage, ReadIsThere
    <2>4. GivenIsElsewhere'
      BY <1>4, <1>6, <2>1, <2>2 DEF GivenIsElsewhere
    <2> QED
      BY <2>3, <2>4
  <1>b. CASE ReadRows
    <2>1. /\ req = FromRequest(next, size, sort) /\ pc = "rows"
          /\ UNCHANGED <<req, got, asked, twice>>
      BY <1>b DEF ReadRows, Typed, OwnRequest
    <2>2. req.Size = Limit /\ OrderClause(req) = Clause /\ req.Page \in asked
      BY <1>4, <2>1, ParsedRequest DEF Typed, TypeOK, Clause, Limit, NewPage
    <2>3. req.Page \in Nat /\ req.Page * Limit <= MaxInt /\ req.Page * Limit \in Nat
      <3>1. req.Page \in Nat /\ req.Page <= MaxInt \div Limit
        BY <1>2, <1>5, <2>1, <2>2
      <3> QED
        BY <1>5, <3>1, DivBelow, WidthAssumption
    <2>4. Offset(req) = req.Page * Limit
      BY <2>2, <2>3, WrapExact DEF Offset
    <2>5. /\ rows' = {r \in table : /\ req.Page * Limit <= Pos(r)
                                   /\ Pos(r) < req.Page * Limit + Limit}
          /\ pc' = IF countFirst THEN "reply" ELSE "count"
      BY <1>2, <1>b, <2>2, <2>3, <2>4, RowsRead
    <2>6. ReadIsThere'
      BY <1>6, <2>1, <2>5 DEF ReadIsThere, OnPage
    <2>7. NewPage' /\ GivenIsElsewhere' /\ twice' = {}
      BY <1>4, <1>6, <2>1, <2>5 DEF NewPage, GivenIsElsewhere
    <2> QED
      BY <2>6, <2>7
  <1>c. CASE CountRows
    BY <1>c, <1>2, <1>4, <1>6
    DEF CountRows, NewPage, GivenIsElsewhere, ReadIsThere, Read
  <1>d. CASE Reply
    <2>1. /\ pc = "reply" /\ pc' \in {"ask", "done"} /\ asked' = asked
          /\ got' = got \cup rows /\ twice' = twice \cup (got \cap rows)
          /\ pc' = "ask" => ParsePage(next') \notin asked
      BY <1>2, <1>d DEF Reply
    <2>2. \A r \in rows : OnPage(r, req.Page) /\ req.Page \in asked
      BY <1>4, <2>1 DEF ReadIsThere, NewPage, Read
    <2>3. got \cap rows = {}
      <3> SUFFICES ASSUME NEW r \in got, r \in rows
                   PROVE  FALSE
        OBVIOUS
      <3>1. PICK p \in asked : OnPage(r, p) /\ p # req.Page
        BY <1>4, <2>1 DEF GivenIsElsewhere
      <3>2. OnPage(r, req.Page) /\ req.Page \in Nat /\ p \in Nat
        BY <1>5, <2>2, <3>1
      <3> QED
        BY <3>1, <3>2, OnePage
    <2>4. NewPage' /\ ReadIsThere' /\ twice' = {}
      BY <1>4, <2>1, <2>3 DEF NewPage, ReadIsThere, Read
    <2>5. GivenIsElsewhere'
      BY <1>4, <1>6, <2>1, <2>2 DEF GivenIsElsewhere
    <2> QED
      BY <2>4, <2>5
  <1>e. ASSUME NEW x \in Rows, Insert(x) \/ Delete(x)
        PROVE  FALSE
    BY <1>e DEF Insert, Delete
  <1>g. CASE UNCHANGED vars
    BY <1>g, <1>2, <1>4, <1>6 DEF vars, NewPage, GivenIsElsewhere, ReadIsThere, Read
  <1> QED
    BY <1>a, <1>b, <1>c, <1>d, <1>e, <1>g DEF Next, Step

\* In an order that tells all rows apart and without insertions no row is given twice:
\* on a walk while rows are deleted, for any number of rows; to a client that jumps in a
\* table that stays as it is, up to the page behind which Offset overflows (page.go 37-69).
THEOREM PagesAreDisjoint == Spec => []NothingTwice
  <1>1. OnceInv /\ VisitInv => NothingTwice
    BY DEF NothingTwice, OnceInv, VisitInv, Limit
  <1> QED
    BY <1>1, TypedInit, TypedStep, InRangeStep, MissInit, OnceInit, OnceStep, VisitInit,
       VisitStep, PTL DEF Spec
=============================================================================
