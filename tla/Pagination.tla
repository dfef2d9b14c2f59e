----------------------------- MODULE Pagination -----------------------------
(***************************************************************************)
(* PaginationUtil: from the parameters of a request to OFFSET and LIMIT,   *)
(* and from the total to the flags of the answer.                          *)
(***************************************************************************)
EXTENDS Integers

CONSTANTS DefaultLimit,   \* DEFAULT_LIMIT
          MaxLimit,       \* MAX_LIMIT
          Undefined,      \* a parameter that was not given
          NaN             \* a parameter that is not a number

ASSUME LimitsAssumption == DefaultLimit \in 1 .. MaxLimit /\ MaxLimit \in Nat
ASSUME ValuesAssumption == Undefined \notin Int /\ NaN \notin Int /\ Undefined # NaN

DefaultPage == 1
Number == Int \cup {NaN}
Raw == Number \cup {Undefined}

\* parseInt(value?.toString() || default, 10)
Parsed(raw, default) == IF raw = Undefined THEN default ELSE raw

\* Math.max(n, 1) and Math.min(n, max): NaN stays NaN.
AtLeastOne(n) == IF n \in Int /\ n < 1 THEN 1 ELSE n
AtMost(n, max) == IF n \in Int /\ n > max THEN max ELSE n

\* n || default: NaN and zero are falsy.
Or(n, default) == IF n \in {NaN, 0} THEN default ELSE n

ValidPage(raw) == AtLeastOne(Parsed(raw, 1))
\* Fault: only the maximum is enforced.
ValidLimit_NoMinimum(raw) == AtMost(Parsed(raw, 10), MaxLimit)
ValidLimit(raw) == AtMost(AtLeastOne(Parsed(raw, 10)), MaxLimit)

\* applyPagination and paginate, of the validated parameters.
Page(n) == AtLeastOne(Or(n, DefaultPage))
Limit(n) == AtMost(Or(n, DefaultLimit), MaxLimit)

\* Fault: pages are counted from zero.
Skip_StartsAtZero(page, limit) == page * limit
Skip(page, limit) == (page - 1) * limit

\* Fault: the last page, which is not full, is not counted.
TotalPages_Floor(total, limit) == total \div limit

\* Math.ceil(total / limit)
TotalPages(total, limit) == (total + limit - 1) \div limit

HasNextPage(page, total, limit) == page < TotalPages(total, limit)
=============================================================================
