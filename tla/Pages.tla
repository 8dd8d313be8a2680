-------------------------------- MODULE Pages --------------------------------
(***************************************************************************)
(* How a list is cut into pages, in machine integers: the query's page and *)
(* limit, the window of a slice, LIMIT and OFFSET, the number of pages.    *)
(***************************************************************************)
EXTENDS Integers, Sequences

CONSTANTS Bound,      \* an int is in -Bound .. Bound - 1
          None,       \* no value, or text that is no int
          Failed      \* the answer is a panic

ASSUME BoundAssumption == Bound \in Nat \ {0}

Wrap(x)        == ((x + Bound) % (2 * Bound)) - Bound
Quotient(a, b) == IF a >= 0 THEN a \div b ELSE -((-a) \div b)     \* towards zero
Lesser(a, b)   == IF a < b THEN a ELSE b

queryIntUnread(s, fallback) == s
queryInt(s, fallback) == IF s \in 1 .. Bound - 1 THEN s ELSE fallback
AtLeastOne(n, default) == IF n < 1 THEN default ELSE n

PageCount(total, limit) ==
  LET n == Quotient(Wrap(Wrap(total + limit) - 1), limit) IN IF n = 0 THEN 1 ELSE n

(* items[start:end] panics unless 0 <= start <= end <= len(items).         *)
Slice(items, start, end) ==
  IF 0 <= start /\ start <= end /\ end <= Len(items) THEN SubSeq(items, start + 1, end) ELSE Failed

WindowOffByOne(items, page, limit) ==
  LET start == Lesser(Wrap(page * limit), Len(items))
  IN  Slice(items, start, Lesser(Wrap(start + limit), Len(items)))

WindowOpenEnd(items, page, limit) ==
  LET start == Lesser(Wrap((page - 1) * limit), Len(items))
  IN  Slice(items, start, Wrap(start + limit))

Window(items, page, limit) ==
  LET start == Lesser(Wrap((page - 1) * limit), Len(items))
  IN  Slice(items, start, Lesser(Wrap(start + limit), Len(items)))

Paged(items, page, limit, default) ==
  LET l == AtLeastOne(limit, default)
      w == Window(items, AtLeastOne(page, 1), l)
  IN  IF w = Failed THEN Failed ELSE [items |-> w, pages |-> PageCount(Len(items), l)]

paginate(items, page, limit)         == Paged(items, page, limit, 20)
paginateReleases(items, page, limit)  == Paged(items, page, limit, 25)
paginateRevisions(items, page, limit) == Paged(items, page, limit, 20)

(* LIMIT and OFFSET.  The server refuses a negative offset when it runs    *)
(* the statement, an error that nobody reads: the page is empty.           *)
LimitOffsetByPage(rows, page, limit) ==
  SubSeq(rows, page, Lesser(page - 1 + limit, Len(rows)))

LimitOffset(rows, page, limit) ==
  LET offset == Wrap((page - 1) * limit)
  IN  IF offset < 0 THEN <<>>
      ELSE SubSeq(rows, offset + 1, Lesser(offset + limit, Len(rows)))

buildPaginated(items, limit, total) == [items |-> items, pages |-> PageCount(total, limit)]
=============================================================================
