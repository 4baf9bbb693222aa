---- MODULE Paging ----
(***************************************************************************)
(* How the services sort a listing and cut it into pages: orderBy,         *)
(* getCount, then skip((page - 1) * limit) and take(limit).                *)
(***************************************************************************)
EXTENDS Naturals, FiniteSets, Sequences

CONSTANT PageLimits   \* the limits the callers ask for

\* The query DTOs refuse a limit below one.
ASSUME PagesAssumption == PageLimits \subseteq Nat \ {0}

\* The rows S as ORDER BY returns them, for an order given as a set of pairs.
\* The services' orders end with the id, so that they are total.
InOrder(S, order) ==
    CHOOSE seq \in [1..Cardinality(S) -> S] :
       \A i, j \in 1..Cardinality(S) : i < j => <<seq[i], seq[j]>> \in order

PageCount(total, limit) == (total + limit - 1) \div limit

Page_fromZero(sorted, page, limit) ==
    LET offset == page * limit
        last   == IF offset + limit < Len(sorted) THEN offset + limit ELSE Len(sorted)
    IN  SubSeq(sorted, offset + 1, last)

Page(sorted, page, limit) ==
    LET offset == (page - 1) * limit
        last   == IF offset + limit < Len(sorted) THEN offset + limit ELSE Len(sorted)
    IN  SubSeq(sorted, offset + 1, last)

Items(seq) == {seq[i] : i \in DOMAIN seq}

\* The pages 1, 2, ... of the listing show every element of S once.
ShowsOnce(S, page(_), pages) ==
    /\ UNION {Items(page(n)) : n \in 1..pages} = S
    /\ \A m, n \in 1..pages : m < n => Items(page(m)) \cap Items(page(n)) = {}
====
