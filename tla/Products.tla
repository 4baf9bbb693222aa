---- MODULE Products ----
(***************************************************************************)
(* The products of the catalogue (products.service.ts, its controller and  *)
(* entity).  A request reads its row, checks the new prices against the    *)
(* copy it read, and writes the given columns with UPDATE: other requests  *)
(* run between its awaits.  Prices are small integers; costPrice is only   *)
(* checked by itself (not negative) and is left out.                       *)
(***************************************************************************)
EXTENDS Naturals, FiniteSets, Sequences, Paging

CONSTANTS
    ProductIds,     \* numbers: the rows are listed in the order of their ids
    Skus, Prices,
    Shelves,        \* what categoryId may hold: no request sets it
    ProductClients, ProductAdmins,
    Null,           \* a column without a value
    Absent,         \* a field the request body leaves out
    CreateProductDtos, UpdateProductDtos,
    Queries,        \* the listings the callers ask for
    SeedProducts    \* the products table when the service starts

ProductRow == [sku: Skus, price: Prices, compareAt: Prices \cup {Null},
               active: BOOLEAN, deleted: BOOLEAN, category: Shelves \cup {Null}]

CreateProductDto == [sku: Skus, price: Prices, compareAt: Prices \cup {Absent}]
UpdateProductDto == [price: Prices \cup {Absent}, compareAt: Prices \cup {Absent, Null}]

Query == [status: {"active", "inactive", "all"}, onSale: BOOLEAN \cup {Absent},
          minPrice: Prices \cup {Absent}, maxPrice: Prices \cup {Absent},
          includeDeleted: BOOLEAN]

ASSUME ProductsAssumption ==
    /\ ProductIds \subseteq Nat /\ Prices \subseteq Nat \ {0}
    /\ Null \notin Nat /\ Absent \notin Nat /\ Null # Absent
    /\ ProductAdmins \subseteq ProductClients
    /\ CreateProductDtos \subseteq CreateProductDto
    /\ UpdateProductDtos \subseteq UpdateProductDto
    /\ \A table \in SeedProducts :
         /\ DOMAIN table \subseteq ProductIds /\ IsFiniteSet(DOMAIN table)
         /\ table \in [DOMAIN table -> ProductRow]
    /\ Queries \subseteq Query

VARIABLES
    products,   \* the products table, a function on the ids in use
    preq,       \* the request each client has in flight
    praced      \* history: a write relied on a row read before another write

productVars == <<products, preq, praced>>

NoRequest == [op |-> "none", pc |-> "idle", id |-> 0, dto |-> Null, row |-> Null, stale |-> FALSE]

Pending(c) == preq[c].pc # "idle"
PLive == {p \in DOMAIN products : ~products[p].deleted}

-----------------------------------------------------------------------------
\* Reading.

OnSale(row) == row.compareAt # Null /\ row.compareAt > row.price

\* applyFilters and createBaseQuery.
Matches(q) ==
    {p \in DOMAIN products :
       LET row == products[p] IN
       /\ q.includeDeleted \/ ~row.deleted
       /\ q.status = "all" \/ row.active = (q.status = "active")
       /\ q.onSale = Absent \/ OnSale(row) = q.onSale
       /\ q.minPrice = Absent \/ row.price >= q.minPrice
       /\ q.maxPrice = Absent \/ row.price <= q.maxPrice}

\* applySorting: the chosen column, then the id so that equal rows have an order.
Precedes(x, y, order) ==
    LET px == products[x].price
        py == products[y].price
    IN  \/ IF order = "ASC" THEN px < py ELSE px > py
        \/ px = py /\ x < y

Sorted(q, order) ==
    InOrder(Matches(q), {xy \in Matches(q) \X Matches(q) : Precedes(xy[1], xy[2], order)})

\* findAll: the page and the number of pages that the response announces.
FindAll(q, order, page, limit) == Page(Sorted(q, order), page, limit)
TotalPages(q, limit) == PageCount(Cardinality(Matches(q)), limit)

-----------------------------------------------------------------------------
\* Writing.

\* validatePriceRelationships, and validatePricing of the entity.
PricesOk(price, compareAt) == price > 0 /\ (compareAt \in Nat => compareAt > price)

\* The seeder saves entities, whose validatePricing runs before the insertion.
ASSUME SeedIsPriced ==
    \A table \in SeedProducts : \A p \in DOMAIN table : PricesOk(table[p].price, table[p].compareAt)

PGo(c, pc) == preq' = [preq EXCEPT ![c].pc = pc] /\ UNCHANGED <<products, praced>>

PAnswer(c) == preq' = [preq EXCEPT ![c] = NoRequest] /\ UNCHANGED <<products, praced>>

PCommit(c, table) ==
    /\ products' = table
    /\ praced' = (praced \/ preq[c].stale)
    /\ preq' = [d \in ProductClients |->
                  IF d = c THEN NoRequest
                  ELSE IF Pending(d) THEN [preq[d] EXCEPT !.stale = TRUE] ELSE preq[d]]

PBegin(c, op, p, dto, pc) ==
    /\ ~Pending(c)
    /\ preq' = [preq EXCEPT ![c] = [NoRequest EXCEPT !.op = op, !.id = p, !.dto = dto, !.pc = pc]]
    /\ UNCHANGED <<products, praced>>

PostProduct(c) ==
    /\ c \in ProductAdmins
    /\ Cardinality(ProductIds \ DOMAIN products)
         > Cardinality({d \in ProductClients : preq[d].op = "create"})
    /\ \E d \in CreateProductDtos : PBegin(c, "create", 0, d, "sku")

PatchProduct(c) ==
    c \in ProductAdmins /\ \E p \in ProductIds, d \in UpdateProductDtos : PBegin(c, "update", p, d, "load")

DeleteProduct(c) ==
    c \in ProductAdmins /\ \E p \in ProductIds : PBegin(c, "remove", p, Null, "load")

\* The two status routes ask for a token but for no role.
PatchProductActivate(c) == \E p \in ProductIds : PBegin(c, "activate", p, Null, "load")
PatchProductDeactivate(c) == \E p \in ProductIds : PBegin(c, "deactivate", p, Null, "load")

\* create: the SKU is looked up among the rows not deleted.
CheckSku(c) ==
    LET d == preq[c].dto IN
    /\ preq[c].pc = "sku"
    /\ IF (\E p \in PLive : products[p].sku = d.sku) \/ ~PricesOk(d.price, d.compareAt)
       THEN PAnswer(c) ELSE PGo(c, "save")

\* The unique index of the SKU also holds the deleted rows.
InsertProduct(c) ==
    LET d == preq[c].dto
        row == [sku |-> d.sku, price |-> d.price,
                compareAt |-> IF d.compareAt = Absent THEN Null ELSE d.compareAt,
                active |-> TRUE, deleted |-> FALSE, category |-> Null]
    IN  /\ preq[c].pc = "save"
        /\ IF \E p \in DOMAIN products : products[p].sku = d.sku THEN PAnswer(c)
           ELSE \E p \in ProductIds \ DOMAIN products :
                  PCommit(c, [q \in DOMAIN products \cup {p} |-> IF q = p THEN row ELSE products[q]])

\* findById at the start of update, remove, activate and deactivate.
LoadProduct(c) ==
    /\ preq[c].pc = "load"
    /\ IF preq[c].id \notin PLive THEN PAnswer(c)
       ELSE /\ preq' = [preq EXCEPT
                 ![c].pc = IF @ = "load" /\ preq[c].op = "update" THEN "validate" ELSE "write",
                 ![c].row = IF preq[c].op = "update" THEN products[preq[c].id] ELSE Null]
            /\ UNCHANGED <<products, praced>>

ValidatePrices_givenOnly(c) ==
    LET d == preq[c].dto IN
    /\ preq[c].pc = "validate"
    /\ IF d.price = Absent \/ d.compareAt = Absent \/ PricesOk(d.price, d.compareAt)
       THEN PGo(c, "write") ELSE PAnswer(c)

\* The new prices, completed with the old ones: null counts as not given here.
ValidatePrices(c) ==
    LET d == preq[c].dto
        row == preq[c].row
        Given(field, old) == IF field \in {Absent, Null} THEN old ELSE field
    IN  /\ preq[c].pc = "validate"
        /\ IF d.price = Absent /\ d.compareAt = Absent THEN PGo(c, "write")
           ELSE IF PricesOk(Given(d.price, row.price), Given(d.compareAt, row.compareAt))
                THEN PGo(c, "write") ELSE PAnswer(c)

\* UPDATE of the given columns.
Updated(row, r) ==
    CASE r.op = "update" ->
           [row EXCEPT !.price = IF r.dto.price = Absent THEN @ ELSE r.dto.price,
                       !.compareAt = IF r.dto.compareAt = Absent THEN @ ELSE r.dto.compareAt]
      [] r.op = "remove" -> [row EXCEPT !.deleted = TRUE]
      [] OTHER -> [row EXCEPT !.active = (r.op = "activate")]

\* The row may have been deleted meanwhile.  What is read back afterwards only
\* makes the response.
WriteProduct(c) ==
    LET r == preq[c] IN
    /\ r.pc = "write"
    /\ PCommit(c, [products EXCEPT ![r.id] = Updated(@, r)])

-----------------------------------------------------------------------------
PInit ==
    /\ products \in SeedProducts
    /\ preq = [c \in ProductClients |-> NoRequest]
    /\ praced = FALSE

PRoutes(c) ==
    \/ PostProduct(c) \/ PatchProduct(c) \/ DeleteProduct(c)
    \/ PatchProductActivate(c) \/ PatchProductDeactivate(c)

PStep(c) ==
    \/ CheckSku(c) \/ InsertProduct(c) \/ LoadProduct(c) \/ ValidatePrices(c) \/ WriteProduct(c)

PNext == \E c \in ProductClients : PRoutes(c) \/ PStep(c)

ProductsSpec == PInit /\ [][PNext]_productVars

-----------------------------------------------------------------------------
\* A price to compare with stays above the selling price, unless two requests
\* changed the same table at once: each validates its half of the pair
\* against the row it read, and nothing checks the row that results.
PriceBelowCompareAt ==
    praced \/ \A p \in PLive : products[p].compareAt = Null
                                 \/ products[p].price < products[p].compareAt

\* The pages of a listing are a partition of the rows that match: no product
\* is missing and none is shown twice.
PagesPartition ==
    \A q \in Queries, order \in {"ASC", "DESC"}, limit \in PageLimits :
       ShowsOnce(Matches(q), LAMBDA n : FindAll(q, order, n, limit), TotalPages(q, limit))
====
