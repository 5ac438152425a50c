----------------------------- MODULE Pagination -----------------------------
(***************************************************************************)
(* The pages PaginationHelper makes for a test, and the walk of the code   *)
(* under test over them.  Go's division truncates and \div does not: the   *)
(* two agree because the only page that starts below zero, page 0, starts  *)
(* a whole page below it.  A page of size 0, which a test can make but no  *)
(* request, ends the test in the first operation that divides by it.       *)
(***************************************************************************)
EXTENDS Integers, FiniteSets

CONSTANTS
  MaxItems,  \* items there are to page through
  MaxSize,   \* size of a page
  MaxPage    \* pages asked for

ASSUME PaginationAssumption == MaxItems \in Nat /\ MaxSize \in Nat \ {0} /\ MaxPage \in Nat \ {0}

VARIABLES
  totalItems,  \* the items to page through
  page,        \* the current page: Start, End and PageSize
  requested,   \* the size of the page was made of a request's
  panicked     \* an operation divided by zero

pagerVars == <<totalItems, page, requested, panicked>>

CreatePagination(number, size) ==
  [start |-> (number - 1) * size, end |-> (number - 1) * size + size, size |-> size]

FullPagesOnly(items, size) == items \div size  \* a bug: the rest of the items is left out

CalculateTotalPages(items, size) ==
  IF items = 0 THEN 0 ELSE items \div size + (IF items % size > 0 THEN 1 ELSE 0)

GetPageNumber(p) == p.start \div p.size + 1
IsLastPage(p, items) == GetPageNumber(p) >= CalculateTotalPages(items, p.size)

(* A page beyond the last counts as the last one.                          *)
GetPageItems(p, items) ==
  IF ~IsLastPage(p, items) THEN p.size
  ELSE IF items % p.size = 0 /\ items > 0 THEN p.size
  ELSE items % p.size

(* CreatePaginationFromRequest: a size not given is 10, and then capped.   *)
FromRequest(number, size, maxSize) ==
  LET wanted == IF size <= 0 THEN 10 ELSE size IN
  CreatePagination(IF number < 1 THEN 1 ELSE number,
                   IF maxSize > 0 /\ wanted > maxSize THEN maxSize ELSE wanted)

PagerInit ==
  /\ totalItems \in 0 .. MaxItems
  /\ page = FromRequest(0, 0, MaxSize)
  /\ requested = TRUE
  /\ panicked = FALSE

(* What an operation makes of the page, if it does not divide by zero.     *)
Moves(dividesByZero, next) ==
  /\ page' = IF dividesByZero THEN page ELSE next
  /\ panicked' = dividesByZero
  /\ UNCHANGED requested

Empty == page.size = 0

NextPage ==
  /\ ~Empty => GetPageNumber(page) < MaxPage
  /\ Moves(Empty, CreatePagination(page.start \div page.size + 2, page.size))

PreviousPage ==
  LET previous == page.start \div page.size IN
  Moves(Empty, CreatePagination(IF previous < 1 THEN 1 ELSE previous, page.size))

FirstPage == Moves(FALSE, CreatePagination(1, page.size))

(* Without items the last page is page 0, and there is nothing to divide.  *)
LastPage ==
  Moves(Empty /\ totalItems > 0,
        CreatePagination(CalculateTotalPages(totalItems, page.size), page.size))

(* GetPageNumber, IsLastPage and GetPageItems all divide by the size.      *)
Ask == Moves(Empty, page)

(* CreatePagination by the test itself, which counts pages from 1.         *)
Create ==
  \E number \in 1 .. MaxPage, size \in 0 .. MaxSize :
    /\ page' = CreatePagination(number, size)
    /\ requested' = FALSE
    /\ UNCHANGED panicked

Request ==
  \E number \in 0 .. MaxPage, size \in 0 .. MaxSize, maxSize \in 0 .. MaxSize :
    /\ page' = FromRequest(number, size, maxSize)
    /\ requested' = TRUE
    /\ UNCHANGED panicked

PagerNext ==
  /\ ~panicked
  /\ NextPage \/ PreviousPage \/ FirstPage \/ LastPage \/ Ask \/ Create \/ Request
  /\ UNCHANGED totalItems

PagerSpec == PagerInit /\ [][PagerNext]_pagerVars

------------------------------------------------------------------------------
OnPage == {n \in 0 .. MaxItems - 1 : n < totalItems /\ page.start <= n /\ n < page.end}
After == {n \in 0 .. MaxItems - 1 : n < totalItems /\ page.end <= n}

(* Wherever the walk has got to, the helper says of the page what its      *)
(* bounds say: it counts the items that are on it, and calls it the last   *)
(* just when none is left after it.  A page beyond the end is the          *)
(* exception: it is said to hold what the last one holds.  The one page    *)
(* that starts below zero is LastPage of no items, which ends where the    *)
(* first begins; and a walk that began with a request, of whatever number  *)
(* and size, never divides by zero: what does is a size of 0 that the test *)
(* passed to CreatePagination.                                             *)
PagesCountEveryItem ==
  /\ ~Empty =>
       /\ OnPage # {} => GetPageItems(page, totalItems) = Cardinality(OnPage)
       /\ IsLastPage(page, totalItems) <=> After = {}
  /\ page.start < 0 => totalItems = 0 /\ page.end = 0
  /\ requested => ~panicked
=============================================================================
