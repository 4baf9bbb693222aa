--------------------------- MODULE Catalog_proofs ---------------------------
(***************************************************************************)
(* Proofs about the catalogue: the prices of the products, the category    *)
(* tree, the products on their categories, and the listings of both.  They *)
(* hold for any categories, products, clients and requests, and however    *)
(* many of these are in flight together.                                   *)
(***************************************************************************)
EXTENDS MCCatalog, FiniteSetTheorems, SequenceTheorems, WellFoundedInduction, TLAPS

-----------------------------------------------------------------------------
(* Prices.  A request is worth what the row was when it read it; as long   *)
(* as nothing was written since, that is what the row is.                  *)

ProductOps == {"none", "create", "update", "remove", "activate", "deactivate"}
ProductPlaces == {"idle", "sku", "save", "load", "validate", "write"}
ProductDtos == CreateProductDtos \cup UpdateProductDtos \cup {Null}

ProductRequest ==
    [op: ProductOps, pc: ProductPlaces, id: ProductIds \cup {0}, dto: ProductDtos,
     row: ProductRow \cup {Null}, stale: BOOLEAN]

ProductTable(t) == DOMAIN t \subseteq ProductIds /\ t \in [DOMAIN t -> ProductRow]

ProductsTypeOK ==
    /\ ProductTable(products)
    /\ preq \in [ProductClients -> ProductRequest]
    /\ praced \in BOOLEAN

\* A price to compare with, if there is one, is above the selling price.
Fair(price, compareAt) == compareAt = Null \/ price < compareAt

PricesFair(t) == \A p \in DOMAIN t : Fair(t[p].price, t[p].compareAt)

\* The columns that an update leaves in its row.
NewPrice(dto, row) == IF dto.price = Absent THEN row.price ELSE dto.price
NewCompareAt(dto, row) == IF dto.compareAt = Absent THEN row.compareAt ELSE dto.compareAt

\* What a request's place says of it, whatever others wrote meanwhile.
ProductPlaceTells(t, r) ==
    /\ r.pc \in {"sku", "save"} => r.dto \in CreateProductDtos
    /\ r.pc = "save" => PricesOk(r.dto.price, r.dto.compareAt)
    /\ r.pc \in {"load", "validate", "write"} /\ r.op = "update" => r.dto \in UpdateProductDtos
    /\ r.pc = "validate" => r.op = "update" /\ r.row \in ProductRow
    /\ r.pc \in {"validate", "write"} => r.id \in DOMAIN t

\* What an update has read and checked holds of the row.
UpdateIsFresh(t, r) ==
    r.op = "update" =>
       /\ r.pc = "validate" => r.row = t[r.id]
       /\ r.pc = "write" => Fair(NewPrice(r.dto, t[r.id]), NewCompareAt(r.dto, t[r.id]))

ProductsInv ==
    /\ ProductsTypeOK
    /\ \A c \in ProductClients : ProductPlaceTells(products, preq[c])
    /\ praced \/ /\ PricesFair(products)
                 /\ \A c \in ProductClients : preq[c].stale \/ UpdateIsFresh(products, preq[c])

\* A request in which nothing happened yet.
LEMMA NoRequestIsNothing ==
    /\ NoRequest \in ProductRequest
    /\ \A t : ProductPlaceTells(t, NoRequest) /\ UpdateIsFresh(t, NoRequest)
<1>1. NoRequest \in ProductRequest
  BY DEF NoRequest, ProductRequest, ProductOps, ProductPlaces, ProductDtos
<1>2. NoRequest.pc = "idle"
  BY DEF NoRequest
<1> QED
  BY <1>1, <1>2 DEF ProductPlaceTells, UpdateIsFresh

\* Checked prices are fair: what was checked is a price or no price.
LEMMA CheckedIsFair ==
    ASSUME NEW price \in Prices, NEW compareAt \in Prices \cup {Null}, PricesOk(price, compareAt)
    PROVE  Fair(price, compareAt)
BY ProductsAssumption DEF PricesOk, Fair

\* The seeded prices are fair, and nobody has a request in flight.
LEMMA ProductsInitially == PInit => ProductsInv
<1> SUFFICES ASSUME PInit PROVE ProductsInv
  OBVIOUS
<1>1. ProductTable(products)
  BY ProductsAssumption DEF PInit, ProductTable
<1>2. ProductsTypeOK
  BY <1>1, NoRequestIsNothing DEF PInit, ProductsTypeOK
<1>3. \A c \in ProductClients : preq[c] = NoRequest
  BY DEF PInit
<1>4. PricesFair(products)
  <2>1. SUFFICES ASSUME NEW p \in DOMAIN products
                 PROVE  Fair(products[p].price, products[p].compareAt)
    BY DEF PricesFair
  <2>2. products[p] \in ProductRow
    BY <1>1 DEF ProductTable
  <2>3. PricesOk(products[p].price, products[p].compareAt)
    BY SeedIsPriced DEF PInit
  <2>4. products[p].price \in Prices /\ products[p].compareAt \in Prices \cup {Null}
    BY <2>2 DEF ProductRow
  <2> QED
    BY <2>3, <2>4, CheckedIsFair
<1> QED
  BY <1>2, <1>3, <1>4, NoRequestIsNothing DEF ProductsInv

\* A step of one request that writes no row.
LEMMA ProductsUntouched ==
    ASSUME ProductsInv, NEW c \in ProductClients, NEW r \in ProductRequest,
           preq' = [preq EXCEPT ![c] = r], products' = products, praced' = praced,
           ProductPlaceTells(products, r), praced \/ r.stale \/ UpdateIsFresh(products, r)
    PROVE  ProductsInv'
<1>1. ProductsTypeOK'
  BY DEF ProductsInv, ProductsTypeOK, ProductTable
<1>2. preq'[c] = r /\ \A d \in ProductClients \ {c} : preq'[d] = preq[d]
  BY DEF ProductsInv, ProductsTypeOK
<1>3. \A d \in ProductClients : ProductPlaceTells(products, preq'[d])
  BY <1>2 DEF ProductsInv
<1>4. praced \/ /\ PricesFair(products)
                /\ \A d \in ProductClients : preq'[d].stale \/ UpdateIsFresh(products, preq'[d])
  BY <1>2 DEF ProductsInv
<1> QED
  BY <1>1, <1>3, <1>4 DEF ProductsInv

\* A write makes every other request in flight stale.
LEMMA ProductsWritten ==
    ASSUME ProductsInv, NEW c \in ProductClients, NEW t, PCommit(c, t), ProductTable(t),
           DOMAIN products \subseteq DOMAIN t, praced \/ preq[c].stale \/ PricesFair(t)
    PROVE  ProductsInv'
<1> DEFINE Aged(d) == [preq[d] EXCEPT !.stale = TRUE]
<1>1. products' = t /\ praced' = (praced \/ preq[c].stale)
  BY DEF PCommit
<1>2. preq' \in [ProductClients -> ProductRequest]
  <2>1. \A d \in ProductClients : Aged(d) \in ProductRequest
    BY DEF ProductsInv, ProductsTypeOK, ProductRequest
  <2> QED
    BY <2>1, NoRequestIsNothing DEF PCommit, ProductsInv, ProductsTypeOK
<1>3. ProductsTypeOK'
  <2>1. preq[c].stale \in BOOLEAN /\ praced \in BOOLEAN
    BY DEF ProductsInv, ProductsTypeOK, ProductRequest
  <2>2. praced' \in BOOLEAN
    BY <1>1, <2>1
  <2>3. ProductTable(products)'
    BY <1>1 DEF ProductTable
  <2> QED
    BY <1>2, <2>2, <2>3 DEF ProductsTypeOK
<1>4. \A d \in ProductClients :
        /\ ProductPlaceTells(t, preq'[d])
        /\ preq'[d].stale \/ UpdateIsFresh(t, preq'[d])
  <2>1. TAKE d \in ProductClients
  <2>2. CASE d = c
    BY <2>2, NoRequestIsNothing DEF PCommit
  <2>3. CASE d # c /\ Pending(d)
    <3>1. preq'[d] = Aged(d)
      BY <2>3 DEF PCommit
    <3>2. preq[d] \in ProductRequest /\ ProductPlaceTells(products, preq[d])
      BY DEF ProductsInv, ProductsTypeOK
    <3>3. Aged(d).stale /\ Aged(d).pc = preq[d].pc /\ Aged(d).op = preq[d].op
            /\ Aged(d).dto = preq[d].dto /\ Aged(d).row = preq[d].row /\ Aged(d).id = preq[d].id
      BY <3>2 DEF ProductRequest
    <3> QED
      BY <3>1, <3>2, <3>3 DEF ProductPlaceTells
  <2>4. CASE d # c /\ ~Pending(d)
    <3>1. preq'[d] = preq[d] /\ preq[d].pc = "idle"
      BY <2>4 DEF PCommit, Pending
    <3> QED
      BY <3>1 DEF ProductPlaceTells, UpdateIsFresh
  <2> QED
    BY <2>2, <2>3, <2>4
<1> QED
  BY <1>1, <1>3, <1>4 DEF ProductsInv
\* Every step of every request keeps the invariant.
LEMMA ProductsInvIsKept == ProductsInv /\ [PNext]_productVars => ProductsInv'
<1> SUFFICES ASSUME ProductsInv, [PNext]_productVars PROVE ProductsInv'
  OBVIOUS
<1> USE ProductsAssumption
<1>t. ProductsTypeOK
  BY DEF ProductsInv
<1>a. \A c \in ProductClients : preq[c] \in ProductRequest /\ ProductPlaceTells(products, preq[c])
  BY <1>t DEF ProductsInv, ProductsTypeOK
<1>b. \A c \in ProductClients : PAnswer(c) => ProductsInv'
  BY NoRequestIsNothing, ProductsUntouched DEF PAnswer
<1>c. ASSUME NEW c \in ProductClients, NEW op \in ProductOps \ {"none"},
             NEW p \in ProductIds \cup {0}, NEW dto \in ProductDtos, NEW pc \in {"sku", "load"},
             PBegin(c, op, p, dto, pc),
             pc = "sku" => dto \in CreateProductDtos,
             pc = "load" /\ op = "update" => dto \in UpdateProductDtos
      PROVE  ProductsInv'
  <2> DEFINE r == [NoRequest EXCEPT !.op = op, !.id = p, !.dto = dto, !.pc = pc]
  <2>0. NoRequest \in ProductRequest
    BY NoRequestIsNothing
  <2>1. r.op = op /\ r.pc = pc /\ r.id = p /\ r.dto = dto
    BY <2>0 DEF ProductRequest
  <2>2. r \in ProductRequest
    BY <2>0 DEF ProductRequest, ProductPlaces
  <2>3. ProductPlaceTells(products, r) /\ UpdateIsFresh(products, r)
    BY <1>c, <2>1 DEF ProductPlaceTells, UpdateIsFresh
  <2> QED
    BY <1>c, <2>2, <2>3, ProductsUntouched DEF PBegin
<1>1. ASSUME NEW c \in ProductClients, PRoutes(c) PROVE ProductsInv'
  BY <1>1, <1>c DEF PRoutes, PostProduct, PatchProduct, DeleteProduct, PatchProductActivate,
     PatchProductDeactivate, ProductOps, ProductDtos
<1>2. ASSUME NEW c \in ProductClients, CheckSku(c) PROVE ProductsInv'
  <2> DEFINE r == [preq[c] EXCEPT !.pc = "save"]
  <2>1. CASE PAnswer(c)
    BY <2>1, <1>b
  <2>2. CASE PGo(c, "save") /\ PricesOk(preq[c].dto.price, preq[c].dto.compareAt)
    <3>1. r \in ProductRequest
      BY <1>a DEF ProductRequest, ProductPlaces
    <3>2. r.pc = "save" /\ r.dto = preq[c].dto /\ preq[c].dto \in CreateProductDtos
      BY <1>2, <1>a DEF CheckSku, ProductPlaceTells, ProductRequest
    <3>3. ProductPlaceTells(products, r) /\ UpdateIsFresh(products, r)
      BY <2>2, <3>2 DEF ProductPlaceTells, UpdateIsFresh
    <3> QED
      BY <2>2, <3>1, <3>3, ProductsUntouched DEF PGo
  <2> QED
    BY <1>2, <2>1, <2>2 DEF CheckSku
<1>3. ASSUME NEW c \in ProductClients, InsertProduct(c) PROVE ProductsInv'
  <2> DEFINE d == preq[c].dto
             compareAt == IF d.compareAt = Absent THEN Null ELSE d.compareAt
             row == [sku |-> d.sku, price |-> d.price, compareAt |-> compareAt,
                     active |-> TRUE, deleted |-> FALSE, category |-> Null]
  <2>1. CASE PAnswer(c)
    BY <2>1, <1>b
  <2>2. ASSUME NEW p \in ProductIds \ DOMAIN products, PCommit(c, [q \in DOMAIN products \cup {p} |-> IF q = p THEN row ELSE products[q]])
        PROVE  ProductsInv'
    <3> DEFINE t == [q \in DOMAIN products \cup {p} |-> IF q = p THEN row ELSE products[q]]
    <3>1. d \in CreateProductDto /\ PricesOk(d.price, d.compareAt)
      BY <1>3, <1>a DEF InsertProduct, ProductPlaceTells
    <3>2. row \in ProductRow /\ Fair(d.price, compareAt)
      BY <3>1 DEF CreateProductDto, ProductRow, PricesOk, Fair
    <3>3. /\ DOMAIN t = DOMAIN products \cup {p}
          /\ t[p] = row /\ \A q \in DOMAIN products : t[q] = products[q]
          /\ ProductTable(t)
      <4>1. t = [q \in DOMAIN products \cup {p} |-> IF q = p THEN row ELSE products[q]]
        OBVIOUS
      <4> HIDE DEF t, row
      <4>2. \A q \in DOMAIN products : products[q] \in ProductRow
        BY <1>t DEF ProductsTypeOK, ProductTable
      <4>3. t \in [DOMAIN products \cup {p} -> ProductRow]
        BY <4>1, <4>2, <3>2
      <4> QED
        BY <1>t, <4>1, <4>3 DEF ProductsTypeOK, ProductTable
    <3>5. row.price = d.price /\ row.compareAt = compareAt
      OBVIOUS
    <3>6. PricesFair(products) => PricesFair(t)
      BY <3>2, <3>3, <3>5 DEF PricesFair
    <3>7. praced \/ preq[c].stale \/ PricesFair(t)
      BY <3>6 DEF ProductsInv
    <3>8. DOMAIN products \subseteq DOMAIN t
      BY <3>3
    <3> HIDE DEF t
    <3> QED
      BY <2>2, <3>3, <3>7, <3>8, ProductsWritten DEF t
  <2> QED
    BY <1>3, <2>1, <2>2 DEF InsertProduct
<1>4. ASSUME NEW c \in ProductClients, LoadProduct(c) PROVE ProductsInv'
  <2> DEFINE r == [preq[c] EXCEPT
                     !.pc = IF preq[c].op = "update" THEN "validate" ELSE "write",
                     !.row = IF preq[c].op = "update" THEN products[preq[c].id] ELSE Null]
  <2>1. CASE PAnswer(c)
    BY <2>1, <1>b
  <2>2. CASE preq[c].id \in PLive /\ preq' = [preq EXCEPT ![c] = r]
               /\ products' = products /\ praced' = praced
    <3>1. /\ preq[c].id \in DOMAIN products
          /\ products[preq[c].id] \in ProductRow
      BY <2>2, <1>t DEF PLive, ProductsTypeOK, ProductTable
    <3>2. r \in ProductRequest
      BY <1>a, <3>1 DEF ProductRequest, ProductPlaces
    <3>3. /\ r.op = preq[c].op /\ r.dto = preq[c].dto /\ r.id = preq[c].id
          /\ r.pc = IF preq[c].op = "update" THEN "validate" ELSE "write"
          /\ preq[c].op = "update" => r.row = products[preq[c].id]
      BY <1>a DEF ProductRequest
    <3>4. ProductPlaceTells(products, r) /\ UpdateIsFresh(products, r)
      BY <1>4, <1>a, <3>1, <3>3 DEF ProductPlaceTells, UpdateIsFresh, LoadProduct
    <3> HIDE DEF r
    <3> QED
      BY <2>2, <3>2, <3>4, ProductsUntouched
  <2>3. LoadProduct(c) => PAnswer(c) \/ (preq[c].id \in PLive /\ preq' = [preq EXCEPT ![c] = r]
               /\ products' = products /\ praced' = praced)
    BY <1>a, <1>t DEF LoadProduct, ProductsTypeOK, ProductRequest
  <2> QED
    BY <1>4, <2>1, <2>2, <2>3
<1>5. ASSUME NEW c \in ProductClients, ValidatePrices(c) PROVE ProductsInv'
  <2> DEFINE r == [preq[c] EXCEPT !.pc = "write"]
             d == preq[c].dto
             row == preq[c].row
  <2>1. CASE PAnswer(c)
    BY <2>1, <1>b
  <2>2. CASE PGo(c, "write")
    <3>1. r \in ProductRequest
      BY <1>a DEF ProductRequest, ProductPlaces
    <3>2. r.pc = "write" /\ r.dto = d /\ r.op = preq[c].op /\ r.id = preq[c].id
            /\ r.stale = preq[c].stale
      BY <1>a DEF ProductRequest
    <3>3. /\ preq[c].op = "update" /\ d \in UpdateProductDto /\ row \in ProductRow
          /\ d \in UpdateProductDtos /\ preq[c].id \in DOMAIN products
      BY <1>5, <1>a DEF ValidatePrices, ProductPlaceTells
    <3>4. ProductPlaceTells(products, r)
      BY <3>2, <3>3 DEF ProductPlaceTells
    <3>5. Fair(row.price, row.compareAt) => Fair(NewPrice(d, row), NewCompareAt(d, row))
      <4>1. /\ d.price \in Prices \cup {Absent} /\ d.compareAt \in Prices \cup {Absent, Null}
            /\ row.price \in Prices /\ row.compareAt \in Prices \cup {Null}
        BY <3>3 DEF UpdateProductDto, ProductRow
      <4>2. CASE d.price = Absent /\ d.compareAt = Absent
        BY <4>2 DEF NewPrice, NewCompareAt
      <4>3. CASE ~(d.price = Absent /\ d.compareAt = Absent)
        <5>1. ~PAnswer(c)
          BY <1>5, <1>a, <1>t, <2>2, <3>2, <3>3 DEF PAnswer, PGo, ProductsTypeOK, NoRequest, ProductRequest
        <5>2. PricesOk(IF d.price \in {Absent, Null} THEN row.price ELSE d.price,
                       IF d.compareAt \in {Absent, Null} THEN row.compareAt ELSE d.compareAt)
          BY <1>5, <4>3, <5>1 DEF ValidatePrices
        <5> HIDE DEF d, row
        <5> QED
          BY <4>1, <5>2 DEF PricesOk, Fair, NewPrice, NewCompareAt
      <4> QED
        BY <4>2, <4>3
    <3>6. praced \/ r.stale \/ UpdateIsFresh(products, r)
      <4>1. SUFFICES ASSUME ~praced, ~preq[c].stale PROVE UpdateIsFresh(products, r)
        BY <3>2
      <4>2. row = products[preq[c].id] /\ Fair(row.price, row.compareAt)
        BY <4>1, <1>5, <3>3 DEF ProductsInv, UpdateIsFresh, ValidatePrices, PricesFair
      <4> QED
        BY <3>2, <3>5, <4>2 DEF UpdateIsFresh
    <3> HIDE DEF r
    <3> QED
      BY <2>2, <3>1, <3>4, <3>6, ProductsUntouched DEF PGo, r
  <2> QED
    BY <1>5, <2>1, <2>2 DEF ValidatePrices
<1>6. ASSUME NEW c \in ProductClients, WriteProduct(c) PROVE ProductsInv'
  <2> DEFINE r == preq[c]
             old == products[r.id]
             new == Updated(old, r)
             t == [products EXCEPT ![r.id] = new]
  <2>1. r.pc = "write" /\ r.id \in DOMAIN products
    BY <1>6, <1>a DEF WriteProduct, ProductPlaceTells
  <2>2. old \in ProductRow
    BY <2>1, <1>t DEF ProductsTypeOK, ProductTable
  <2>3. PCommit(c, t)
    BY <1>6 DEF WriteProduct
  <2>4. /\ new \in ProductRow
        /\ r.op # "update" => new.price = old.price /\ new.compareAt = old.compareAt
        /\ r.op = "update" => /\ new.price = NewPrice(r.dto, old)
                              /\ new.compareAt = NewCompareAt(r.dto, old)
    <3>1. CASE r.op = "update"
      <4>1. r.dto \in UpdateProductDto
        BY <1>a, <2>1, <3>1 DEF ProductPlaceTells
      <4>2. NewPrice(r.dto, old) \in Prices /\ NewCompareAt(r.dto, old) \in Prices \cup {Null}
        BY <2>2, <4>1 DEF UpdateProductDto, ProductRow, NewPrice, NewCompareAt
      <4>3. new = [old EXCEPT !.price = NewPrice(r.dto, old),
                              !.compareAt = NewCompareAt(r.dto, old)]
        BY <2>2, <3>1 DEF Updated, NewPrice, NewCompareAt, ProductRow
      <4> HIDE DEF old, r, new
      <4> QED
        BY <2>2, <3>1, <4>2, <4>3 DEF ProductRow
    <3>2. CASE r.op = "remove"
      <4>1. new = [old EXCEPT !.deleted = TRUE]
        BY <3>2 DEF Updated
      <4> QED
        BY <2>2, <3>2, <4>1 DEF ProductRow
    <3>3. CASE r.op # "update" /\ r.op # "remove"
      <4>1. new = [old EXCEPT !.active = (r.op = "activate")]
        BY <3>3 DEF Updated
      <4> HIDE DEF old, r, new
      <4>2. (r.op = "activate") \in BOOLEAN
        OBVIOUS
      <4> QED
        BY <2>2, <3>3, <4>1, <4>2 DEF ProductRow
    <3> QED
      BY <3>1, <3>2, <3>3
  <2> HIDE DEF new
  <2>5. DOMAIN t = DOMAIN products /\ t[r.id] = new
          /\ \A p \in DOMAIN products \ {r.id} : t[p] = products[p]
    BY <2>1
  <2>6. ProductTable(t)
    BY <1>t, <2>4, <2>5 DEF ProductsTypeOK, ProductTable
  <2>7. praced \/ r.stale \/ PricesFair(t)
    <3>1. SUFFICES ASSUME ~praced, ~r.stale PROVE PricesFair(t)
      OBVIOUS
    <3>2. PricesFair(products) /\ UpdateIsFresh(products, r)
      BY <3>1 DEF ProductsInv
    <3>3. Fair(new.price, new.compareAt)
      BY <2>1, <2>4, <3>2 DEF UpdateIsFresh, PricesFair
    <3> QED
      BY <2>5, <3>2, <3>3 DEF PricesFair
  <2> HIDE DEF t
  <2> QED
    BY <2>3, <2>5, <2>6, <2>7, ProductsWritten
<1>7. CASE UNCHANGED productVars
  BY <1>7 DEF productVars, ProductsInv, ProductsTypeOK, ProductTable
<1> QED
  BY <1>1, <1>2, <1>3, <1>4, <1>5, <1>6, <1>7 DEF PNext, PStep

\* The invariant of the products.
THEOREM ProductsInvariant == ProductsSpec => []ProductsInv
<1> QED
  BY ProductsInitially, ProductsInvIsKept, PTL DEF ProductsSpec

\* A price to compare with stays above the selling price until two requests
\* on products overlap in a write: validatePriceRelationships is enough as
\* long as the row it checked against is the row that is written.
THEOREM PricesStayInOrder == ProductsSpec => []PriceBelowCompareAt
<1>1. ProductsInv => PriceBelowCompareAt
  BY DEF ProductsInv, PricesFair, Fair, PriceBelowCompareAt, PLive
<1> QED
  BY <1>1, ProductsInvariant, PTL

-----------------------------------------------------------------------------
(* The category tree.  The operators below are those of the module with    *)
(* the table as a parameter: a step changes the table, and what a request  *)
(* has checked is a statement about the table before or after it.          *)

LiveIn(t) == {k \in DOMAIN t : ~t[k].deleted}

Under(t, parents) == {k \in LiveIn(t) : t[k].parent \in parents}

\* Every category has its parent nearer to the top: there is no cycle, and no
\* category hangs on one that was deleted.
Descends(t, depth) ==
    \A k \in LiveIn(t) :
       t[k].parent = Root \/ (t[k].parent \in LiveIn(t) /\ depth[t[k].parent] < depth[k])

Rooted(t) == \E depth \in [Categories -> Nat] : Descends(t, depth)

SiblingsDiffer(t) ==
    \A j, k \in LiveIn(t) :
       (j # k /\ t[j].parent = t[k].parent /\ t[j].parent # Root) => t[j].name # t[k].name

NameFree(t, name, parent, self) ==
    \A j \in LiveIn(t) \ {self} : ~(t[j].name = name /\ t[j].parent = parent)

\* Some set of categories holds k and all that is below it, and not p.
Clear(t, k, p) ==
    \E D \in SUBSET Categories : k \in D /\ p \notin D /\ Under(t, D) \subseteq D

\* What an update leaves in its row.
NewName(r) == IF r.dto.name # Unset THEN r.dto.name ELSE r.row.name
NewParent(r) == IF r.dto.parent # Unset THEN r.dto.parent ELSE r.row.parent
NewSlug(r) == IF r.dto.slug # Unset THEN r.dto.slug ELSE r.row.slug

TreeOps == {"none", "create", "update", "remove", "activate", "deactivate", "read", "path",
            "descendants"}
TreePlaces == {"idle", "slug", "parent", "name", "save", "load", "hierarchy", "descend", "checked",
               "children", "products", "delete", "status", "walk"}

CategoryRow == [name: Names, slug: Slugs, parent: Categories \cup {Root},
                active: BOOLEAN, deleted: BOOLEAN]
CategoryDto == [name: Names \cup {Unset}, slug: Slugs \cup {Unset},
                parent: Categories \cup {Root, Unset}]

CategoryRequest ==
    [op: TreeOps, pc: TreePlaces, id: Categories \cup {Root}, dto: CategoryDto,
     row: CategoryRow \cup {CategoryTree!NoRow}, at: SUBSET Categories, seen: SUBSET Categories,
     stale: BOOLEAN]

CategoryTable(t) == DOMAIN t \subseteq Categories /\ t \in [DOMAIN t -> CategoryRow]

TreeTypeOK ==
    /\ CategoryTable(rows)
    /\ req \in [Clients -> CategoryRequest]
    /\ raced \in BOOLEAN

\* What a request's place says of it, whatever others wrote meanwhile.
PlaceTells(t, r) ==
    /\ r.pc = "idle" => r.op = "none"
    /\ r.pc \in {"slug", "parent", "name", "save"} => r.op \in {"create", "update"}
    /\ r.pc = "parent" => r.op = "create"
    /\ r.pc = "load" => r.op # "create"
    /\ r.pc \in {"load", "hierarchy"} => r.seen = {}
    /\ r.pc \in {"hierarchy", "checked"} => r.op = "update"
    /\ r.pc = "descend" => r.op \in {"update", "descendants"}
    /\ r.pc \in {"children", "products", "delete"} => r.op = "remove"
    /\ r.pc \in {"children", "products", "delete", "status"} => r.id \in DOMAIN t
    /\ r.op = "create" => r.id = Root /\ r.dto.name \in Names /\ r.dto.slug \in Slugs
                            /\ r.dto.parent \in Categories \cup {Root}
    /\ r.op = "update" /\ r.pc # "load" =>
         r.id \in DOMAIN t /\ r.row \in CategoryRow /\ ~r.row.deleted
    /\ r.op = "update" /\ r.pc \in {"hierarchy", "descend"} => r.dto.parent \in Categories

\* What a request has read and checked holds of the table.
IsFresh(t, r) ==
    /\ r.op = "update" /\ r.pc # "load" => r.row = t[r.id]
    /\ r.op = "update" /\ r.pc = "descend" =>
         /\ r.dto.parent # r.id /\ r.dto.parent \in LiveIn(t)
         /\ r.at \subseteq r.seen \cup {r.id}
         /\ Under(t, (r.seen \cup {r.id}) \ r.at) \subseteq r.seen
    /\ r.op = "update" /\ r.pc \in {"checked", "slug", "name", "save"}
           /\ r.dto.parent \in Categories =>
         r.dto.parent \in LiveIn(t) /\ Clear(t, r.id, r.dto.parent)
    /\ r.op = "update" /\ r.pc = "save" =>
         \/ r.dto.name = Unset /\ r.dto.parent \in {Unset, Root}
         \/ NameFree(t, NewName(r), NewParent(r), r.id)
    /\ r.op = "create" /\ r.pc \in {"name", "save"} =>
         r.dto.parent = Root \/ r.dto.parent \in LiveIn(t)
    /\ r.op = "create" /\ r.pc = "save" => NameFree(t, r.dto.name, r.dto.parent, Root)
    /\ r.op = "remove" /\ r.pc \in {"products", "delete"} => Under(t, {r.id}) = {}

TreeInv ==
    /\ TreeTypeOK
    /\ \A c \in Clients : PlaceTells(rows, req[c])
    /\ raced \/ /\ Rooted(rows) /\ SiblingsDiffer(rows)
                /\ \A c \in Clients : req[c].stale \/ IsFresh(rows, req[c])

\* The table as a parameter and as the variable are one.
LEMMA TreeNames ==
    /\ CategoryTree!Live = LiveIn(rows)
    /\ \A parents : CategoryTree!ChildrenOf(parents) = Under(rows, parents)
    /\ \A name, parent, self :
         ~CategoryTree!NameTaken(name, parent, self) <=> NameFree(rows, name, parent, self)
    /\ CategoryTree!Row = CategoryRow /\ CategoryTree!Dto = CategoryDto
BY DEF CategoryTree!Live, CategoryTree!ChildrenOf, CategoryTree!NameTaken, CategoryTree!Row,
       CategoryTree!Dto, LiveIn, Under, NameFree, CategoryRow, CategoryDto

\* The assumptions on the constants, under this module's names.
LEMMA TreeConstants ==
    /\ Categories \subseteq Nat /\ Root \notin Categories
    /\ Unset \notin Categories /\ Unset \notin Names /\ Unset \notin Slugs /\ Unset # Root
    /\ SlugOf \in [Names -> Slugs]
    /\ CreateDtos \subseteq {d \in CategoryDto : d.name # Unset /\ d.parent # Unset}
    /\ UpdateDtos \subseteq CategoryDto
    /\ \A table \in SeedRows : CategoryTable(table)
BY TreeAssumption, TreeNames DEF CategoryTree!CatalogAssumption, CategoryTable

\* A request in which nothing happened yet, and one that reads a row back.
LEMMA IdleIsNothing ==
    /\ CategoryTree!Idle \in CategoryRequest
    /\ CategoryTree!NoDto \in CategoryDto
    /\ \A t : PlaceTells(t, CategoryTree!Idle) /\ IsFresh(t, CategoryTree!Idle)
    /\ \A c \in Clients, k \in Categories :
         /\ CategoryTree!ReadBack(c, k) \in CategoryRequest
         /\ \A t : PlaceTells(t, CategoryTree!ReadBack(c, k))
                    /\ IsFresh(t, CategoryTree!ReadBack(c, k))
<1> DEFINE idle == CategoryTree!Idle
<1>1. idle \in CategoryRequest /\ CategoryTree!NoDto \in CategoryDto
  BY DEF CategoryTree!Idle, CategoryTree!NoDto, CategoryTree!NoRow, CategoryRequest, CategoryDto,
     TreeOps, TreePlaces
<1>2. idle.op = "none" /\ idle.pc = "idle"
  BY DEF CategoryTree!Idle
<1>3. \A t : PlaceTells(t, idle) /\ IsFresh(t, idle)
  BY <1>2 DEF PlaceTells, IsFresh
<1>4. ASSUME NEW c \in Clients, NEW k \in Categories
      PROVE  /\ CategoryTree!ReadBack(c, k) \in CategoryRequest
             /\ \A t : PlaceTells(t, CategoryTree!ReadBack(c, k))
                        /\ IsFresh(t, CategoryTree!ReadBack(c, k))
  <2> DEFINE r == CategoryTree!ReadBack(c, k)
  <2>1. r = [idle EXCEPT !.op = "read", !.pc = "walk", !.at = {k}]
    BY DEF CategoryTree!ReadBack
  <2> HIDE DEF idle, r
  <2>2. r \in CategoryRequest /\ r.op = "read" /\ r.pc = "walk"
    BY <1>1, <2>1 DEF CategoryRequest, TreeOps, TreePlaces
  <2>3. \A t : PlaceTells(t, r) /\ IsFresh(t, r)
    BY <2>2 DEF PlaceTells, IsFresh
  <2> QED
    BY <2>2, <2>3 DEF r
<1> QED
  BY <1>1, <1>3, <1>4

\* A step of one request that writes no row.
LEMMA TreeUntouched ==
    ASSUME TreeInv, NEW c \in Clients, NEW r \in CategoryRequest,
           req' = [req EXCEPT ![c] = r], rows' = rows, raced' = raced,
           PlaceTells(rows, r), raced \/ r.stale \/ IsFresh(rows, r)
    PROVE  TreeInv'
<1>1. TreeTypeOK'
  BY DEF TreeInv, TreeTypeOK, CategoryTable
<1>2. req'[c] = r /\ \A d \in Clients \ {c} : req'[d] = req[d]
  BY DEF TreeInv, TreeTypeOK
<1>3. \A d \in Clients : PlaceTells(rows, req'[d])
  BY <1>2 DEF TreeInv
<1>4. raced \/ /\ Rooted(rows) /\ SiblingsDiffer(rows)
               /\ \A d \in Clients : req'[d].stale \/ IsFresh(rows, req'[d])
  BY <1>2 DEF TreeInv
<1> QED
  BY <1>1, <1>3, <1>4 DEF TreeInv

\* A write makes every other request in flight stale.
LEMMA TreeWritten ==
    ASSUME TreeInv, NEW c \in Clients, NEW t, NEW next, CategoryTree!Commit(c, t, next),
           next = CategoryTree!Idle \/ (\E k \in Categories : next = CategoryTree!ReadBack(c, k)),
           CategoryTable(t), DOMAIN rows \subseteq DOMAIN t,
           raced \/ req[c].stale \/ (Rooted(t) /\ SiblingsDiffer(t))
    PROVE  TreeInv'
<1> DEFINE Aged(d) == [req[d] EXCEPT !.stale = TRUE]
<1>1. rows' = t /\ raced' = (raced \/ req[c].stale)
  BY DEF CategoryTree!Commit
<1>n. next \in CategoryRequest /\ \A u : PlaceTells(u, next) /\ IsFresh(u, next)
  BY IdleIsNothing
<1>2. req' \in [Clients -> CategoryRequest]
  <2>1. \A d \in Clients : Aged(d) \in CategoryRequest
    BY DEF TreeInv, TreeTypeOK, CategoryRequest
  <2> QED
    BY <1>n, <2>1 DEF CategoryTree!Commit, TreeInv, TreeTypeOK
<1>3. TreeTypeOK'
  <2>1. req[c].stale \in BOOLEAN /\ raced \in BOOLEAN
    BY DEF TreeInv, TreeTypeOK, CategoryRequest
  <2>2. raced' \in BOOLEAN
    BY <1>1, <2>1
  <2>3. CategoryTable(rows)'
    BY <1>1 DEF CategoryTable
  <2> QED
    BY <1>2, <2>2, <2>3 DEF TreeTypeOK
<1>4. \A d \in Clients : PlaceTells(t, req'[d]) /\ (req'[d].stale \/ IsFresh(t, req'[d]))
  <2>1. TAKE d \in Clients
  <2>2. CASE d = c
    BY <2>2, <1>n DEF CategoryTree!Commit
  <2>3. CASE d # c /\ CategoryTree!Busy(d)
    <3>1. req'[d] = Aged(d)
      BY <2>3 DEF CategoryTree!Commit
    <3>2. req[d] \in CategoryRequest /\ PlaceTells(rows, req[d])
      BY DEF TreeInv, TreeTypeOK
    <3>3. Aged(d).stale /\ Aged(d).pc = req[d].pc /\ Aged(d).op = req[d].op
            /\ Aged(d).dto = req[d].dto /\ Aged(d).row = req[d].row /\ Aged(d).id = req[d].id
            /\ Aged(d).seen = req[d].seen
      BY <3>2 DEF CategoryRequest
    <3> QED
      BY <3>1, <3>2, <3>3 DEF PlaceTells
  <2>4. CASE d # c /\ ~CategoryTree!Busy(d)
    <3>1. req'[d] = req[d] /\ req[d].pc = "idle" /\ PlaceTells(rows, req[d])
      BY <2>4 DEF CategoryTree!Commit, CategoryTree!Busy, TreeInv
    <3> QED
      BY <3>1 DEF PlaceTells, IsFresh
  <2> QED
    BY <2>2, <2>3, <2>4
<1> QED
  BY <1>1, <1>3, <1>4 DEF TreeInv

\* A request that goes on to its next place and changes nothing else.
LEMMA TreeMoved ==
    ASSUME TreeInv, NEW c \in Clients, NEW pc \in TreePlaces, CategoryTree!Go(c, pc),
           NEW r, r = [req[c] EXCEPT !.pc = pc], PlaceTells(rows, r),
           raced \/ req[c].stale \/ IsFresh(rows, r)
    PROVE  TreeInv'
<1>1. req[c] \in CategoryRequest
  BY DEF TreeInv, TreeTypeOK
<1>2. r \in CategoryRequest /\ r.stale = req[c].stale
  BY <1>1 DEF CategoryRequest
<1>3. req' = [req EXCEPT ![c] = r] /\ rows' = rows /\ raced' = raced
  BY DEF CategoryTree!Go
<1> QED
  BY <1>2, <1>3, TreeUntouched

\* Every request begins with nothing checked.
LEMMA TreeBegins ==
    ASSUME TreeInv, NEW c \in Clients, CategoryTree!Routes(c)
    PROVE  TreeInv'
<1> DEFINE idle == CategoryTree!Idle
<1>i. idle \in CategoryRequest /\ idle.stale = FALSE
  BY IdleIsNothing DEF CategoryTree!Idle
<1>e. idle.seen = {}
  BY DEF CategoryTree!Idle
<1>1. ASSUME NEW op \in TreeOps \ {"none"}, NEW k \in Categories \cup {Root},
             NEW dto \in CategoryDto, NEW pc \in {"slug", "load", "walk", "descend"},
             CategoryTree!Begin(c, op, k, dto, pc), pc \in {"walk", "descend"} => k \in Categories,
             op = "update" => pc = "load", pc = "descend" => op = "descendants",
             pc = "slug" => op = "create",
             op = "create" => /\ k = Root /\ dto.name \in Names /\ dto.slug \in Slugs
                              /\ dto.parent \in Categories \cup {Root} /\ pc = "slug"
      PROVE  TreeInv'
  <2> DEFINE r == [idle EXCEPT !.op = op, !.id = k, !.dto = dto, !.pc = pc,
                               !.at = IF pc \in {"walk", "descend"} THEN {k} ELSE {}]
  <2>1. req' = [req EXCEPT ![c] = r] /\ rows' = rows /\ raced' = raced
    BY <1>1 DEF CategoryTree!Begin
  <2> HIDE DEF idle
  <2>2. r.op = op /\ r.id = k /\ r.dto = dto /\ r.pc = pc /\ r.seen = {}
    BY <1>i, <1>e DEF CategoryRequest
  <2>3. r \in CategoryRequest
    BY <1>1, <1>i DEF CategoryRequest, TreePlaces
  <2> HIDE DEF r
  <2>4. PlaceTells(rows, r) /\ IsFresh(rows, r)
    BY <1>1, <2>2 DEF PlaceTells, IsFresh
  <2> QED
    BY <2>1, <2>3, <2>4, TreeUntouched
<1>2. CASE CategoryTree!PostCategory(c)
  <2>1. PICK d \in CreateDtos :
               CategoryTree!Begin(c, "create", Root,
                 [d EXCEPT !.slug = IF @ = Unset THEN SlugOf[d.name] ELSE @], "slug")
    BY <1>2 DEF CategoryTree!PostCategory
  <2> DEFINE dto == [d EXCEPT !.slug = IF @ = Unset THEN SlugOf[d.name] ELSE @]
  <2>2. d \in CategoryDto /\ d.name \in Names /\ d.parent \in Categories \cup {Root}
    BY TreeConstants DEF CategoryDto
  <2>3. SlugOf[d.name] \in Slugs
    BY <2>2, TreeConstants
  <2>4. dto \in CategoryDto /\ dto.name = d.name /\ dto.parent = d.parent /\ dto.slug \in Slugs
    BY <2>2, <2>3 DEF CategoryDto
  <2> HIDE DEF dto
  <2>5. CategoryTree!Begin(c, "create", Root, dto, "slug")
    BY <2>1 DEF dto
  <2> QED
    BY <1>1, <2>2, <2>4, <2>5 DEF TreeOps
<1>3. CASE CategoryTree!PutCategory(c)
  BY <1>1, <1>3, TreeConstants DEF CategoryTree!PutCategory, TreeOps
<1>4. CASE CategoryTree!DeleteCategory(c) \/ CategoryTree!PatchActivate(c)
             \/ CategoryTree!PatchDeactivate(c)
  BY <1>1, <1>4, IdleIsNothing DEF CategoryTree!DeleteCategory, CategoryTree!PatchActivate,
     CategoryTree!PatchDeactivate, TreeOps
<1>5. CASE CategoryTree!GetCategory(c)
  <2>1. PICK k \in CategoryTree!Live :
               CategoryTree!Begin(c, "read", k, CategoryTree!NoDto, "walk")
    BY <1>5 DEF CategoryTree!GetCategory
  <2>2. k \in Categories
    BY TreeNames DEF LiveIn, TreeInv, TreeTypeOK, CategoryTable
  <2> QED
    BY <1>1, <2>1, <2>2, IdleIsNothing DEF TreeOps
<1>6. CASE CategoryTree!GetPath(c) \/ CategoryTree!GetDescendants(c)
  BY <1>1, <1>6, IdleIsNothing DEF CategoryTree!GetPath, CategoryTree!GetDescendants, TreeOps
<1> QED
  BY <1>2, <1>3, <1>4, <1>5, <1>6 DEF CategoryTree!Routes

\* A request that goes on keeps what it carries.
LEMMA OnlyThePlace ==
    ASSUME NEW x \in CategoryRequest, NEW pc \in TreePlaces, NEW r, r = [x EXCEPT !.pc = pc]
    PROVE  /\ r.pc = pc /\ r.op = x.op /\ r.id = x.id /\ r.dto = x.dto /\ r.row = x.row
           /\ r.at = x.at /\ r.seen = x.seen /\ r.stale = x.stale
           /\ NewName(r) = NewName(x) /\ NewParent(r) = NewParent(x)
BY DEF CategoryRequest, NewName, NewParent

\* A request that is answered carries nothing any more.
LEMMA TreeAnswered == ASSUME TreeInv, NEW c \in Clients, CategoryTree!Answer(c) PROVE TreeInv'
BY IdleIsNothing, TreeUntouched DEF CategoryTree!Answer

\* What the invariant says of one request.
LEMMA OfOneRequest ==
    ASSUME TreeInv, NEW c \in Clients
    PROVE  /\ req[c] \in CategoryRequest /\ req[c].dto \in CategoryDto
           /\ req[c].id \in Categories \cup {Root} /\ req[c].at \subseteq Categories
           /\ req[c].seen \subseteq Categories
           /\ PlaceTells(rows, req[c])
           /\ raced \/ req[c].stale \/ IsFresh(rows, req[c])
BY DEF TreeInv, TreeTypeOK, CategoryRequest

\* The checks of slug, parent and name.
LEMMA ChecksKeepTree ==
    ASSUME TreeInv, NEW c \in Clients,
           CategoryTree!CheckSlug(c) \/ CategoryTree!CheckParent(c) \/ CategoryTree!CheckName(c)
             \/ CategoryTree!Checked(c)
    PROVE  TreeInv'
<1> USE TreeConstants
<1>o. /\ req[c] \in CategoryRequest /\ req[c].dto \in CategoryDto
      /\ PlaceTells(rows, req[c])
      /\ raced \/ req[c].stale \/ IsFresh(rows, req[c])
  BY OfOneRequest
<1>a. CategoryTree!Answer(c) => TreeInv'
  BY TreeAnswered
\* After the slug, and for an update without one: the parent, the name or the row.
<1>s. ASSUME req[c].pc \in {"slug", "checked"}, CategoryTree!Go(c, CategoryTree!AfterSlug(c))
      PROVE  TreeInv'
  <2> DEFINE pc == CategoryTree!AfterSlug(c)
             r == [req[c] EXCEPT !.pc = pc]
  <2>1. pc \in {"parent", "name", "save"} /\ pc \in TreePlaces
    BY DEF CategoryTree!AfterSlug, TreePlaces
  <2>2. /\ pc = "parent" => req[c].op = "create"
        /\ req[c].op = "create" => pc # "save" /\ (pc = "name" => req[c].dto.parent = Root)
        /\ req[c].op # "create" /\ pc = "save" => req[c].dto.name = Unset /\ req[c].dto.parent \in {Unset, Root}
    BY <1>o DEF CategoryTree!AfterSlug, CategoryDto
  <2>3. req[c].op \in {"create", "update"}
    BY <1>o, <1>s DEF PlaceTells
  <2>4. /\ r.pc = pc /\ r.op = req[c].op /\ r.id = req[c].id /\ r.dto = req[c].dto
        /\ r.row = req[c].row
    BY <1>o, <2>1, OnlyThePlace
  <2> HIDE DEF pc, r
  <2>5. PlaceTells(rows, r)
    BY <1>o, <1>s, <2>1, <2>2, <2>3, <2>4 DEF PlaceTells
  <2>6. IsFresh(rows, req[c]) => IsFresh(rows, r)
    BY <1>s, <2>1, <2>2, <2>3, <2>4 DEF IsFresh
  <2> QED
    BY <1>o, <1>s, <2>1, <2>5, <2>6, TreeMoved DEF pc, r
<1>1. CASE CategoryTree!CheckSlug(c)
  BY <1>1, <1>a, <1>s DEF CategoryTree!CheckSlug
<1>2. CASE CategoryTree!CheckParent(c)
  <2> DEFINE r == [req[c] EXCEPT !.pc = "name"]
  <2>1. CASE CategoryTree!Answer(c)
    BY <2>1, <1>a
  <2>2. CASE CategoryTree!Go(c, "name") /\ req[c].dto.parent \in LiveIn(rows)
    <3>1. "name" \in TreePlaces
      BY DEF TreePlaces
    <3>2. r.pc = "name" /\ r.op = req[c].op /\ r.id = req[c].id /\ r.dto = req[c].dto /\ r.row = req[c].row
      BY <1>o, <3>1, OnlyThePlace
    <3>3. req[c].pc = "parent" /\ req[c].op = "create"
      BY <1>2, <1>o DEF CategoryTree!CheckParent, PlaceTells
    <3> HIDE DEF r
    <3>4. PlaceTells(rows, r) /\ IsFresh(rows, r)
      BY <1>o, <2>2, <3>2, <3>3 DEF PlaceTells, IsFresh
    <3> QED
      BY <2>2, <3>1, <3>4, TreeMoved DEF r
  <2> QED
    BY <1>2, <2>1, <2>2, TreeNames DEF CategoryTree!CheckParent
<1>3. CASE CategoryTree!CheckName(c)
  <2> DEFINE r == [req[c] EXCEPT !.pc = "save"]
  <2>1. CASE CategoryTree!Answer(c)
    BY <2>1, <1>a
  <2>2. CASE CategoryTree!Go(c, "save") /\ NameFree(rows, NewName(req[c]), NewParent(req[c]), req[c].id)
    <3>1. "save" \in TreePlaces
      BY DEF TreePlaces
    <3>2. /\ r.pc = "save" /\ r.op = req[c].op /\ r.id = req[c].id /\ r.dto = req[c].dto
          /\ r.row = req[c].row /\ NewName(r) = NewName(req[c]) /\ NewParent(r) = NewParent(req[c])
      BY <1>o, <3>1, OnlyThePlace
    <3>3. req[c].pc = "name" /\ req[c].op \in {"create", "update"}
      BY <1>3, <1>o DEF CategoryTree!CheckName, PlaceTells
    <3>4. req[c].op = "create" =>
            NewName(req[c]) = req[c].dto.name /\ NewParent(req[c]) = req[c].dto.parent
      BY <1>o DEF NewName, NewParent, PlaceTells
    <3> HIDE DEF r
    <3>5. PlaceTells(rows, r)
      BY <1>o, <3>2, <3>3 DEF PlaceTells
    <3>6. IsFresh(rows, req[c]) => IsFresh(rows, r)
      <4>1. req[c].op = "create" => NameFree(rows, req[c].dto.name, req[c].dto.parent, Root)
        BY <1>o, <2>2, <3>4 DEF PlaceTells
      <4> QED
        BY <2>2, <3>2, <3>3, <4>1 DEF IsFresh
    <3> QED
      BY <1>o, <2>2, <3>1, <3>5, <3>6, TreeMoved DEF r
  <2>3. CategoryTree!Answer(c)
          \/ (CategoryTree!Go(c, "save") /\ NameFree(rows, NewName(req[c]), NewParent(req[c]), req[c].id))
    BY <1>3, TreeNames DEF CategoryTree!CheckName, NewName, NewParent
  <2> QED
    BY <2>1, <2>2, <2>3
<1>4. CASE CategoryTree!Checked(c)
  <2>1. CASE CategoryTree!Go(c, CategoryTree!AfterSlug(c))
    BY <1>4, <2>1, <1>s DEF CategoryTree!Checked
  <2>2. CASE CategoryTree!Go(c, "slug")
    <3> DEFINE r == [req[c] EXCEPT !.pc = "slug"]
    <3>1. "slug" \in TreePlaces
      BY DEF TreePlaces
    <3>2. r.pc = "slug" /\ r.op = req[c].op /\ r.id = req[c].id /\ r.dto = req[c].dto /\ r.row = req[c].row
      BY <1>o, <3>1, OnlyThePlace
    <3>3. req[c].pc = "checked" /\ req[c].op = "update"
      BY <1>4, <1>o DEF CategoryTree!Checked, PlaceTells
    <3> HIDE DEF r
    <3>4. PlaceTells(rows, r) /\ (IsFresh(rows, req[c]) => IsFresh(rows, r))
      BY <1>o, <3>2, <3>3 DEF PlaceTells, IsFresh
    <3> QED
      BY <1>o, <2>2, <3>1, <3>4, TreeMoved DEF r
  <2> QED
    BY <1>4, <2>1, <2>2 DEF CategoryTree!Checked, CategoryTree!AfterHierarchy
<1> QED
  BY <1>1, <1>2, <1>3, <1>4

\* The steps that look for the row, for what is below it, and for its shelf.
LEMMA LooksKeepTree ==
    ASSUME TreeInv, NEW c \in Clients,
           CategoryTree!Load(c) \/ CategoryTree!CountChildren(c) \/ CategoryTree!CountProducts(c)
             \/ CategoryTree!WalkUp(c)
    PROVE  TreeInv'
<1>o. /\ req[c] \in CategoryRequest /\ req[c].dto \in CategoryDto
      /\ PlaceTells(rows, req[c])
      /\ raced \/ req[c].stale \/ IsFresh(rows, req[c])
  BY OfOneRequest
<1>a. CategoryTree!Answer(c) => TreeInv'
  BY TreeAnswered
<1>t. CategoryTable(rows)
  BY DEF TreeInv, TreeTypeOK
<1>1. CASE CategoryTree!Load(c)
  <2> DEFINE next == CASE req[c].op = "remove" -> "children"
                       [] req[c].op = "update" -> IF req[c].dto.parent \in Categories
                                                  THEN "hierarchy" ELSE "checked"
                       [] OTHER -> "status"
             row == IF req[c].op = "update" THEN rows[req[c].id] ELSE CategoryTree!NoRow
             r == [req[c] EXCEPT !.row = row, !.pc = next]
  <2>1. CASE CategoryTree!Answer(c)
    BY <2>1, <1>a
  <2>2. CASE req[c].id \in LiveIn(rows) /\ req' = [req EXCEPT ![c] = r] /\ rows' = rows /\ raced' = raced
    <3>1. req[c].id \in DOMAIN rows /\ rows[req[c].id] \in CategoryRow /\ ~rows[req[c].id].deleted
      BY <1>t, <2>2 DEF LiveIn, CategoryTable
    <3>2. /\ req[c].op = "update" => row = rows[req[c].id]
          /\ row \in CategoryRow \cup {CategoryTree!NoRow}
      BY <3>1
    <3>3. /\ req[c].op = "remove" => next = "children"
          /\ req[c].op = "update" => next = IF req[c].dto.parent \in Categories
                                            THEN "hierarchy" ELSE "checked"
          /\ req[c].op \notin {"remove", "update"} => next = "status"
      OBVIOUS
    <3>4. req[c].pc = "load" /\ req[c].op # "create"
      <4>1. req[c].pc = "load"
        BY <1>1 DEF CategoryTree!Load
      <4> QED
        BY <4>1, <1>o DEF PlaceTells
    <3> HIDE DEF next, row
    <3>5. next \in TreePlaces
      BY <3>3 DEF TreePlaces
    <3>6. /\ r \in CategoryRequest /\ r.pc = next /\ r.row = row
          /\ r.op = req[c].op /\ r.id = req[c].id /\ r.dto = req[c].dto
          /\ r.seen = req[c].seen
      BY <1>o, <3>2, <3>5 DEF CategoryRequest
    <3> HIDE DEF r
    <3>7. PlaceTells(rows, r)
      BY <1>o, <3>1, <3>2, <3>3, <3>4, <3>6 DEF PlaceTells
    <3>8. IsFresh(rows, r)
      BY <3>1, <3>2, <3>3, <3>4, <3>6 DEF IsFresh
    <3> QED
      BY <2>2, <3>6, <3>7, <3>8, TreeUntouched
  <2>3. CategoryTree!Answer(c)
          \/ (req[c].id \in LiveIn(rows) /\ req' = [req EXCEPT ![c] = r] /\ rows' = rows /\ raced' = raced)
    <3>1. [req EXCEPT ![c].row = row, ![c].pc = next] = [req EXCEPT ![c] = r]
      BY <1>o DEF TreeInv, TreeTypeOK
    <3> QED
      BY <1>1, <3>1, TreeNames DEF CategoryTree!Load, CategoryTree!Found
  <2> QED
    BY <2>1, <2>2, <2>3
<1>2. CASE CategoryTree!CountChildren(c)
  <2> DEFINE r == [req[c] EXCEPT !.pc = "products"]
  <2>1. CASE CategoryTree!Answer(c)
    BY <2>1, <1>a
  <2>2. CASE CategoryTree!Go(c, "products") /\ Under(rows, {req[c].id}) = {}
    <3>1. "products" \in TreePlaces
      BY DEF TreePlaces
    <3>2. r.pc = "products" /\ r.op = req[c].op /\ r.id = req[c].id /\ r.dto = req[c].dto /\ r.row = req[c].row
      BY <1>o, <3>1, OnlyThePlace
    <3>3. req[c].pc = "children" /\ req[c].op = "remove"
      BY <1>2, <1>o DEF CategoryTree!CountChildren, PlaceTells
    <3> HIDE DEF r
    <3>4. PlaceTells(rows, r) /\ IsFresh(rows, r)
      BY <1>o, <2>2, <3>2, <3>3 DEF PlaceTells, IsFresh
    <3> QED
      BY <2>2, <3>1, <3>4, TreeMoved DEF r
  <2> QED
    BY <1>2, <2>1, <2>2, TreeNames DEF CategoryTree!CountChildren
<1>3. CASE CategoryTree!CountProducts(c)
  <2> DEFINE r == [req[c] EXCEPT !.pc = "delete"]
  <2>1. CASE CategoryTree!Answer(c)
    BY <2>1, <1>a
  <2>2. CASE CategoryTree!Go(c, "delete")
    <3>1. "delete" \in TreePlaces
      BY DEF TreePlaces
    <3>2. r.pc = "delete" /\ r.op = req[c].op /\ r.id = req[c].id /\ r.dto = req[c].dto /\ r.row = req[c].row
      BY <1>o, <3>1, OnlyThePlace
    <3>3. req[c].pc = "products" /\ req[c].op = "remove"
      BY <1>3, <1>o DEF CategoryTree!CountProducts, PlaceTells
    <3> HIDE DEF r
    <3>4. PlaceTells(rows, r) /\ (IsFresh(rows, req[c]) => IsFresh(rows, r))
      BY <1>o, <3>2, <3>3 DEF PlaceTells, IsFresh
    <3> QED
      BY <1>o, <2>2, <3>1, <3>4, TreeMoved DEF r
  <2> QED
    BY <1>3, <2>1, <2>2 DEF CategoryTree!CountProducts
<1>4. CASE CategoryTree!WalkUp(c)
  <2> DEFINE k == CHOOSE x \in req[c].at : TRUE
             r == [req[c] EXCEPT !.at = {rows[k].parent}]
  <2>1. CASE CategoryTree!Answer(c)
    BY <2>1, <1>a
  <2>2. CASE k \in LiveIn(rows) /\ rows[k].parent # Root /\ req' = [req EXCEPT ![c] = r]
               /\ rows' = rows /\ raced' = raced
    <3> HIDE DEF k
    <3>1. rows[k].parent \in Categories
      BY <1>t, <2>2 DEF LiveIn, CategoryTable, CategoryRow
    <3>2. /\ r \in CategoryRequest /\ r.pc = req[c].pc /\ r.op = req[c].op /\ r.id = req[c].id
          /\ r.dto = req[c].dto /\ r.row = req[c].row /\ r.stale = req[c].stale
      BY <1>o, <3>1 DEF CategoryRequest
    <3>3. req[c].pc = "walk"
      BY <1>4 DEF CategoryTree!WalkUp
    <3> HIDE DEF r
    <3>4. PlaceTells(rows, r)
      BY <1>o, <3>2, <3>3 DEF PlaceTells
    <3>5. IsFresh(rows, req[c]) => IsFresh(rows, r)
      BY <3>2, <3>3 DEF IsFresh
    <3> QED
      BY <1>o, <2>2, <3>2, <3>4, <3>5, TreeUntouched
  <2>3. CategoryTree!Answer(c)
          \/ (k \in LiveIn(rows) /\ rows[k].parent # Root /\ req' = [req EXCEPT ![c] = r]
                /\ rows' = rows /\ raced' = raced)
    <3>1. [req EXCEPT ![c].at = {rows[k].parent}] = [req EXCEPT ![c] = r]
      BY <1>o DEF TreeInv, TreeTypeOK
    <3> QED
      BY <1>4, <3>1, TreeNames DEF CategoryTree!WalkUp, CategoryTree!Found
  <2> QED
    BY <2>1, <2>2, <2>3
<1> QED
  BY <1>1, <1>2, <1>3, <1>4

\* validateHierarchy.  What has been seen is closed under children but for the
\* last level; when there is no further level, it is everything below the row.
LEMMA DescentKeepsTree ==
    ASSUME TreeInv, NEW c \in Clients, CategoryTree!CheckHierarchy(c) \/ CategoryTree!Descend(c)
    PROVE  TreeInv'
<1>o. /\ req[c] \in CategoryRequest /\ req[c].dto \in CategoryDto
      /\ req[c].id \in Categories \cup {Root} /\ req[c].at \subseteq Categories
      /\ req[c].seen \subseteq Categories
      /\ PlaceTells(rows, req[c])
      /\ raced \/ req[c].stale \/ IsFresh(rows, req[c])
  BY OfOneRequest
<1>a. CategoryTree!Answer(c) => TreeInv'
  BY TreeAnswered
<1>t. CategoryTable(rows)
  BY DEF TreeInv, TreeTypeOK
<1>d. Under(rows, req[c].at) \subseteq Categories
  BY <1>t DEF Under, LiveIn, CategoryTable
<1> DEFINE x == req[c]
           below == Under(rows, x.at)
\* The request goes on with other sets.
<1>s. ASSUME NEW pc \in TreePlaces, NEW at \in SUBSET Categories, NEW seen \in SUBSET Categories,
             NEW r, r = [x EXCEPT !.pc = pc, !.at = at, !.seen = seen],
             req' = [req EXCEPT ![c] = r], rows' = rows, raced' = raced,
             x.pc \in {"hierarchy", "descend"},
             pc = "descend" \/ (pc = "checked" /\ x.op = "update"),
             x.op = "update" /\ pc = "descend" /\ IsFresh(rows, x) =>
                /\ x.dto.parent # x.id /\ x.dto.parent \in LiveIn(rows)
                /\ at \subseteq seen \cup {x.id}
                /\ Under(rows, (seen \cup {x.id}) \ at) \subseteq seen,
             x.op = "update" /\ pc = "checked" /\ IsFresh(rows, x) =>
                x.dto.parent \in LiveIn(rows) /\ Clear(rows, x.id, x.dto.parent)
      PROVE  TreeInv'
  <2>1. /\ r \in CategoryRequest /\ r.pc = pc /\ r.op = x.op /\ r.id = x.id /\ r.dto = x.dto
        /\ r.row = x.row /\ r.stale = x.stale /\ r.at = at /\ r.seen = seen
    BY <1>o, <1>s DEF CategoryRequest
  <2>2. x.op \in {"update", "descendants"}
    BY <1>o, <1>s DEF PlaceTells
  <2>3. PlaceTells(rows, r)
    BY <1>o, <1>s, <2>1, <2>2 DEF PlaceTells
  <2>4. IsFresh(rows, x) => IsFresh(rows, r)
    BY <1>s, <2>1, <2>2 DEF IsFresh
  <2> QED
    BY <1>o, <1>s, <2>1, <2>3, <2>4, TreeUntouched
<1>p. "descend" \in TreePlaces /\ "checked" \in TreePlaces
  BY DEF TreePlaces
<1>1. CASE CategoryTree!CheckHierarchy(c)
  <2> DEFINE r == [x EXCEPT !.pc = "descend", !.at = {x.id}, !.seen = x.seen]
  <2>1. CASE CategoryTree!Answer(c)
    BY <2>1, <1>a
  <2>2. CASE /\ x.dto.parent # x.id /\ x.dto.parent \in LiveIn(rows) /\ x.id \in LiveIn(rows)
             /\ req' = [req EXCEPT ![c] = r] /\ rows' = rows /\ raced' = raced
    <3>1. x.id \in Categories
      BY <1>t, <2>2 DEF LiveIn, CategoryTable
    <3>2. x.pc = "hierarchy" /\ x.seen = {}
      BY <1>1, <1>o DEF CategoryTree!CheckHierarchy, PlaceTells
    <3>3. {x.id} \subseteq x.seen \cup {x.id}
      OBVIOUS
    <3>4. Under(rows, (x.seen \cup {x.id}) \ {x.id}) \subseteq x.seen
      BY <3>2 DEF Under
    <3> QED
      BY <1>o, <1>p, <1>s, <2>2, <3>1, <3>2, <3>3, <3>4
  <2>3. CategoryTree!Answer(c)
          \/ /\ x.dto.parent # x.id /\ x.dto.parent \in LiveIn(rows) /\ x.id \in LiveIn(rows)
             /\ req' = [req EXCEPT ![c] = r] /\ rows' = rows /\ raced' = raced
    <3>1. [req EXCEPT ![c].pc = "descend", ![c].at = {x.id}] = [req EXCEPT ![c] = r]
      BY <1>o DEF TreeInv, TreeTypeOK, CategoryRequest
    <3> QED
      BY <1>1, <3>1, TreeNames DEF CategoryTree!CheckHierarchy, CategoryTree!Found
  <2> QED
    BY <2>1, <2>2, <2>3
<1>2. CASE CategoryTree!Descend(c)
  <2>0. x.pc = "descend" /\ x.op \in {"update", "descendants"}
    BY <1>2, <1>o DEF CategoryTree!Descend, PlaceTells
  <2> DEFINE seen == IF x.op = "update" THEN x.seen \cup below ELSE x.seen
             r == [x EXCEPT !.pc = "descend", !.at = below, !.seen = seen]
             done == [x EXCEPT !.pc = "checked", !.at = {}, !.seen = {}]
  <2>1. CASE CategoryTree!Answer(c)
    BY <2>1, <1>a
  <2>2. CASE req' = [req EXCEPT ![c] = r] /\ rows' = rows /\ raced' = raced
    <3>1. seen \subseteq Categories /\ below \subseteq Categories
      BY <1>o, <1>d
    <3>2. ASSUME x.op = "update", IsFresh(rows, x)
          PROVE  /\ x.dto.parent # x.id /\ x.dto.parent \in LiveIn(rows)
                 /\ below \subseteq seen \cup {x.id}
                 /\ Under(rows, (seen \cup {x.id}) \ below) \subseteq seen
      <4>1. /\ x.dto.parent # x.id /\ x.dto.parent \in LiveIn(rows)
            /\ Under(rows, (x.seen \cup {x.id}) \ x.at) \subseteq x.seen
        BY <2>0, <3>2 DEF IsFresh
      <4>2. seen = x.seen \cup below
        BY <3>2
      <4>3. Under(rows, (seen \cup {x.id}) \ below)
              \subseteq Under(rows, (x.seen \cup {x.id}) \ x.at) \cup below
        BY <4>2 DEF Under
      <4> QED
        BY <4>1, <4>2, <4>3
    <3> HIDE DEF below, seen
    <3> QED
      BY <1>p, <1>s, <2>0, <2>2, <3>1, <3>2
  <2>3. CASE /\ below = {} /\ x.op = "update" /\ x.dto.parent \notin x.seen
             /\ req' = [req EXCEPT ![c] = done] /\ rows' = rows /\ raced' = raced
    <3>1. ASSUME IsFresh(rows, x)
          PROVE  x.dto.parent \in LiveIn(rows) /\ Clear(rows, x.id, x.dto.parent)
      <4>1. /\ x.dto.parent # x.id /\ x.dto.parent \in LiveIn(rows)
            /\ Under(rows, (x.seen \cup {x.id}) \ x.at) \subseteq x.seen
        BY <2>0, <2>3, <3>1 DEF IsFresh
      <4>2. x.id \in Categories
        BY <1>o, <1>t, <2>0, <2>3 DEF PlaceTells, CategoryTable
      <4> DEFINE D == x.seen \cup {x.id}
      <4>3. Under(rows, D) \subseteq Under(rows, D \ x.at) \cup below
        BY DEF Under
      <4>4. D \in SUBSET Categories /\ x.id \in D /\ x.dto.parent \notin D
              /\ Under(rows, D) \subseteq D
        BY <1>o, <2>3, <4>1, <4>2, <4>3
      <4> QED
        BY <4>1, <4>4 DEF Clear
    <3> QED
      BY <1>p, <1>s, <2>0, <2>3, <3>1
  <2>4. \/ CategoryTree!Answer(c)
        \/ req' = [req EXCEPT ![c] = r] /\ rows' = rows /\ raced' = raced
        \/ /\ below = {} /\ x.op = "update" /\ x.dto.parent \notin x.seen
           /\ req' = [req EXCEPT ![c] = done] /\ rows' = rows /\ raced' = raced
    <3>1. [req EXCEPT ![c].at = below, ![c].seen = IF x.op = "update" THEN @ \cup below ELSE @]
            = [req EXCEPT ![c] = r]
      BY <1>o, <2>0 DEF TreeInv, TreeTypeOK, CategoryRequest
    <3>2. [req EXCEPT ![c].pc = "checked", ![c].at = {}, ![c].seen = {}] = [req EXCEPT ![c] = done]
      BY <1>o DEF TreeInv, TreeTypeOK, CategoryRequest
    <3> QED
      BY <1>2, <2>0, <3>1, <3>2, TreeNames DEF CategoryTree!Descend
  <2> QED
    BY <2>1, <2>2, <2>3, <2>4
<1> QED
  BY <1>1, <1>2

\* A name that is free under a parent can be given there.
LEMMA OneMoreSibling ==
    ASSUME NEW t, NEW u, NEW k, NEW row, LiveIn(u) = LiveIn(t) \cup {k}, u[k] = row,
           \A j \in LiveIn(t) : u[j] = t[j], SiblingsDiffer(t),
           \A j \in LiveIn(t) : ~(t[j].name = row.name /\ t[j].parent = row.parent)
    PROVE  SiblingsDiffer(u)
<1>1. SUFFICES ASSUME NEW i \in LiveIn(u), NEW j \in LiveIn(u), i # j,
                      u[i].parent = u[j].parent, u[i].parent # Root
               PROVE  u[i].name # u[j].name
  BY DEF SiblingsDiffer
<1>2. CASE i # k /\ j # k
  <2>1. i \in LiveIn(t) /\ j \in LiveIn(t) /\ u[i] = t[i] /\ u[j] = t[j]
    BY <1>2
  <2> QED
    BY <1>1, <2>1 DEF SiblingsDiffer
<1>3. CASE i = k /\ j # k
  BY <1>1, <1>3
<1>4. CASE i # k /\ j = k
  BY <1>1, <1>4
<1> QED
  BY <1>1, <1>2, <1>3, <1>4

\* A row more in the table.
LEMMA AddedToTable ==
    ASSUME NEW t, CategoryTable(t), NEW k \in Categories \ DOMAIN t, NEW row \in CategoryRow,
           NEW u, u = [j \in DOMAIN t \cup {k} |-> IF j = k THEN row ELSE t[j]]
    PROVE  /\ CategoryTable(u) /\ DOMAIN u = DOMAIN t \cup {k} /\ u[k] = row
           /\ \A j \in DOMAIN t : u[j] = t[j]
BY DEF CategoryTable

\* A new category hangs on one that is there, or on none.
LEMMA AddedToTree ==
    ASSUME NEW t, CategoryTable(t), NEW k \in Categories \ DOMAIN t, NEW row \in CategoryRow,
           ~row.deleted, NEW u, DOMAIN u = DOMAIN t \cup {k}, u[k] = row,
           \A j \in DOMAIN t : u[j] = t[j],
           Rooted(t), SiblingsDiffer(t), row.parent = Root \/ row.parent \in LiveIn(t),
           NameFree(t, row.name, row.parent, Root)
    PROVE  Rooted(u) /\ SiblingsDiffer(u)
<1> USE TreeConstants
<1>1. DOMAIN u = DOMAIN t \cup {k} /\ u[k] = row /\ \A j \in DOMAIN t : u[j] = t[j]
  OBVIOUS
<1>3. LiveIn(u) = LiveIn(t) \cup {k} /\ k \notin LiveIn(t)
  BY <1>1 DEF LiveIn
<1>4. \A j \in LiveIn(t) : u[j] = t[j] /\ j \in Categories /\ j # k
  BY <1>1, <1>3 DEF LiveIn, CategoryTable
<1>5. Rooted(u)
  <2>1. PICK depth \in [Categories -> Nat] : Descends(t, depth)
    BY DEF Rooted
  <2> DEFINE level == IF row.parent = Root THEN 0 ELSE depth[row.parent] + 1
             deeper == [depth EXCEPT ![k] = level]
  <2>2. row.parent # Root => row.parent \in LiveIn(t) /\ row.parent \in Categories /\ row.parent # k
    BY <1>4
  <2>a. level \in Nat /\ (row.parent # Root => level = depth[row.parent] + 1)
    <3>1. CASE row.parent = Root
      BY <3>1
    <3>2. CASE row.parent # Root
      <4>1. level = depth[row.parent] + 1
        BY <3>2
      <4>2. depth[row.parent] \in Nat
        BY <2>2, <3>2
      <4> HIDE DEF level
      <4> QED
        BY <4>1, <4>2
    <3> QED
      BY <3>1, <3>2
  <2> HIDE DEF level
  <2>3. /\ deeper \in [Categories -> Nat] /\ deeper[k] = level
        /\ \A j \in LiveIn(t) : deeper[j] = depth[j] /\ depth[j] \in Nat
    BY <1>4, <2>a
  <2> HIDE DEF deeper
  <2>4. ASSUME NEW j \in LiveIn(u)
        PROVE  u[j].parent = Root \/ (u[j].parent \in LiveIn(u) /\ deeper[u[j].parent] < deeper[j])
    <3>1. CASE j = k /\ row.parent # Root
      <4>1. deeper[k] = depth[row.parent] + 1 /\ deeper[row.parent] = depth[row.parent]
              /\ depth[row.parent] \in Nat
        BY <2>2, <2>3, <2>a, <3>1
      <4>2. u[j].parent = row.parent /\ row.parent \in LiveIn(u)
        BY <1>1, <1>3, <2>2, <3>1
      <4>3. deeper[row.parent] < deeper[j]
        BY <3>1, <4>1
      <4> QED
        BY <4>2, <4>3
    <3>2. CASE j = k /\ row.parent = Root
      BY <1>1, <3>2
    <3>3. CASE j # k
      <4>1. j \in LiveIn(t) /\ u[j] = t[j]
        BY <1>3, <1>4, <3>3
      <4> QED
        BY <1>3, <2>1, <2>3, <4>1 DEF Descends
    <3> QED
      BY <3>1, <3>2, <3>3
  <2> QED
    BY <2>3, <2>4 DEF Rooted, Descends
<1>6. SiblingsDiffer(u)
  <2>1. \A j \in LiveIn(t) : ~(t[j].name = row.name /\ t[j].parent = row.parent)
    BY <1>4 DEF NameFree
  <2>2. LiveIn(u) = LiveIn(t) \cup {k} /\ u[k] = row /\ \A j \in LiveIn(t) : u[j] = t[j]
    BY <1>1, <1>3, <1>4
  <2> QED
    BY <2>1, <2>2, OneMoreSibling
<1> QED
  BY <1>5, <1>6

\* A changed category stays where it was, goes to the top, or under one that
\* is not below it.
LEMMA ChangedInTree ==
    ASSUME NEW t, CategoryTable(t), NEW k \in LiveIn(t), NEW row \in CategoryRow,
           ~row.deleted, NEW u, u = [t EXCEPT ![k] = row],
           Rooted(t), SiblingsDiffer(t),
           \/ row.parent = t[k].parent \/ row.parent = Root
           \/ row.parent \in LiveIn(t) /\ Clear(t, k, row.parent),
           \/ row.name = t[k].name /\ row.parent = t[k].parent
           \/ row.parent = Root
           \/ NameFree(t, row.name, row.parent, k)
    PROVE  Rooted(u) /\ SiblingsDiffer(u)
<1>1. /\ k \in DOMAIN t /\ DOMAIN u = DOMAIN t /\ u[k] = row
      /\ \A j \in DOMAIN t \ {k} : u[j] = t[j]
  BY DEF LiveIn
<1>2. LiveIn(u) = LiveIn(t) /\ LiveIn(t) \subseteq Categories
  BY <1>1 DEF LiveIn, CategoryTable
<1>3. \A j \in LiveIn(t) \ {k} : u[j] = t[j]
  BY <1>1 DEF LiveIn
<1>4. PICK depth \in [Categories -> Nat] : Descends(t, depth)
  BY DEF Rooted
<1>5. Rooted(u)
  <2>1. CASE row.parent = t[k].parent \/ row.parent = Root
    <3>1. Descends(u, depth)
      BY <1>1, <1>2, <1>3, <1>4, <2>1 DEF Descends
    <3> QED
      BY <1>4, <3>1 DEF Rooted
  <2>2. CASE row.parent \in LiveIn(t) /\ Clear(t, k, row.parent)
    <3>1. PICK D \in SUBSET Categories : k \in D /\ row.parent \notin D /\ Under(t, D) \subseteq D
      BY <2>2 DEF Clear
    <3> DEFINE deeper == [j \in Categories |->
                            IF j \in D THEN depth[j] + depth[row.parent] + 1 ELSE depth[j]]
    <3>2. row.parent \in Categories /\ depth[row.parent] \in Nat
      BY <1>2, <1>4, <2>2
    <3>3. deeper \in [Categories -> Nat]
      BY <1>4, <3>2
    <3>4. ASSUME NEW j \in LiveIn(u)
          PROVE  u[j].parent = Root \/ (u[j].parent \in LiveIn(u) /\ deeper[u[j].parent] < deeper[j])
      <4>0. j \in LiveIn(t) /\ j \in Categories /\ depth[j] \in Nat
        BY <1>2, <1>4
      <4>1. CASE j = k
        <5>1. deeper[row.parent] = depth[row.parent] /\ deeper[k] = depth[k] + depth[row.parent] + 1
          BY <3>1, <3>2
        <5>2. depth[row.parent] < depth[k] + depth[row.parent] + 1
          BY <3>2, <4>0, <4>1
        <5> QED
          BY <1>1, <1>2, <2>2, <4>1, <5>1, <5>2
      <4>2. CASE j # k /\ u[j].parent # Root
        <5> DEFINE q == t[j].parent
        <5>1. u[j].parent = q /\ q \in LiveIn(t) /\ depth[q] < depth[j]
          BY <1>2, <1>3, <1>4, <4>2, <4>0 DEF Descends
        <5>2. q \in Categories /\ depth[q] \in Nat
          BY <1>2, <1>4, <5>1
        <5>3. q \in D => j \in D
          BY <3>1, <4>0 DEF Under
        <5> HIDE DEF q
        <5>4. deeper[q] < deeper[j]
          <6>1. CASE q \in D
            <7>1. deeper[q] = depth[q] + depth[row.parent] + 1
                    /\ deeper[j] = depth[j] + depth[row.parent] + 1
              BY <4>0, <5>2, <5>3, <6>1
            <7> QED
              BY <3>2, <4>0, <5>1, <5>2, <7>1
          <6>2. CASE q \notin D
            <7>1. deeper[q] = depth[q]
                    /\ (deeper[j] = depth[j] \/ deeper[j] = depth[j] + depth[row.parent] + 1)
              BY <4>0, <5>2, <6>2
            <7> QED
              BY <3>2, <4>0, <5>1, <5>2, <7>1
          <6> QED
            BY <6>1, <6>2
        <5> QED
          BY <1>2, <5>1, <5>4
      <4> QED
        BY <4>1, <4>2
    <3> QED
      BY <3>3, <3>4 DEF Rooted, Descends
  <2> QED
    BY <2>1, <2>2
<1>6. SiblingsDiffer(u)
  <2>1. SUFFICES ASSUME NEW i \in LiveIn(t), NEW j \in LiveIn(t), i # j,
                        u[i].parent = u[j].parent, u[i].parent # Root
                 PROVE  u[i].name # u[j].name
    BY <1>2 DEF SiblingsDiffer
  <2>2. CASE i # k /\ j # k
    BY <1>3, <2>1, <2>2 DEF SiblingsDiffer
  <2>3. CASE i = k \/ j = k
    BY <1>1, <1>3, <2>1, <2>3 DEF SiblingsDiffer, NameFree
  <2> QED
    BY <2>2, <2>3
<1> QED
  BY <1>5, <1>6

\* What is neither the name, the parent nor the deletion does not matter.
LEMMA SameTree ==
    ASSUME NEW t, NEW u, DOMAIN u = DOMAIN t,
           \A j \in DOMAIN t : /\ u[j].deleted = t[j].deleted /\ u[j].parent = t[j].parent
                               /\ u[j].name = t[j].name
    PROVE  (Rooted(t) => Rooted(u)) /\ (SiblingsDiffer(t) => SiblingsDiffer(u))
<1>1. LiveIn(u) = LiveIn(t) /\ LiveIn(t) \subseteq DOMAIN t
  BY DEF LiveIn
<1>2. Rooted(t) => Rooted(u)
  BY <1>1 DEF Rooted, Descends
<1>3. SiblingsDiffer(t) => SiblingsDiffer(u)
  BY <1>1 DEF SiblingsDiffer
<1> QED
  BY <1>2, <1>3

\* A category without children can go.
LEMMA RemovedFromTree ==
    ASSUME NEW t, NEW k \in DOMAIN t, NEW u, DOMAIN u = DOMAIN t, u[k].deleted,
           \A j \in DOMAIN t \ {k} : u[j] = t[j]
    PROVE  /\ LiveIn(u) = LiveIn(t) \ {k}
           /\ Rooted(t) /\ SiblingsDiffer(t) /\ Under(t, {k}) = {} => Rooted(u) /\ SiblingsDiffer(u)
<1>4. LiveIn(u) = LiveIn(t) \ {k} /\ \A j \in LiveIn(u) : u[j] = t[j]
  BY DEF LiveIn
<1>5. ASSUME Rooted(t), SiblingsDiffer(t), Under(t, {k}) = {} PROVE Rooted(u) /\ SiblingsDiffer(u)
  <2>1. \A j \in LiveIn(t) : t[j].parent # k
    BY <1>5 DEF Under
  <2>2. Rooted(u)
    BY <1>4, <1>5, <2>1 DEF Rooted, Descends
  <2>3. SiblingsDiffer(u)
    <3>1. SUFFICES ASSUME NEW i \in LiveIn(u), NEW j \in LiveIn(u), i # j,
                          u[i].parent = u[j].parent, u[i].parent # Root
                   PROVE  u[i].name # u[j].name
      BY DEF SiblingsDiffer
    <3>2. i \in LiveIn(t) /\ j \in LiveIn(t) /\ u[i] = t[i] /\ u[j] = t[j]
      BY <1>4
    <3> QED
      BY <1>5, <3>1, <3>2 DEF SiblingsDiffer
  <2> QED
    BY <2>2, <2>3
<1> QED
  BY <1>4, <1>5

\* The four steps that write.
LEMMA WritesKeepTree ==
    ASSUME TreeInv, NEW c \in Clients,
           CategoryTree!SaveNew(c) \/ CategoryTree!SaveChanged(c) \/ CategoryTree!SoftDelete(c)
             \/ CategoryTree!UpdateStatus(c)
    PROVE  TreeInv'
<1> USE TreeConstants
<1> DEFINE x == req[c]
<1>o. /\ x \in CategoryRequest /\ x.dto \in CategoryDto
      /\ PlaceTells(rows, x)
      /\ raced \/ x.stale \/ IsFresh(rows, x)
  BY OfOneRequest
<1>a. CategoryTree!Answer(c) => TreeInv'
  BY TreeAnswered
<1>t. CategoryTable(rows)
  BY DEF TreeInv, TreeTypeOK
<1>f. raced \/ (Rooted(rows) /\ SiblingsDiffer(rows))
  BY DEF TreeInv
<1>1. CASE CategoryTree!SaveNew(c)
  <2> DEFINE row == [name |-> x.dto.name, slug |-> x.dto.slug, parent |-> x.dto.parent,
                     active |-> TRUE, deleted |-> FALSE]
             table(k) == [j \in DOMAIN rows \cup {k} |-> IF j = k THEN row ELSE rows[j]]
  <2>1. CASE CategoryTree!Answer(c)
    BY <2>1, <1>a
  <2>2. ASSUME NEW k \in Categories \ DOMAIN rows,
               CategoryTree!Commit(c, table(k), CategoryTree!ReadBack(c, k))
        PROVE  TreeInv'
    <3>1. x.pc = "save" /\ x.op = "create"
      BY <1>1 DEF CategoryTree!SaveNew
    <3>2. row \in CategoryRow /\ ~row.deleted /\ row.name = x.dto.name /\ row.parent = x.dto.parent
      BY <1>o, <3>1 DEF PlaceTells, CategoryRow
    <3> DEFINE u == table(k)
    <3>3. u = [j \in DOMAIN rows \cup {k} |-> IF j = k THEN row ELSE rows[j]]
      OBVIOUS
    <3> HIDE DEF row, u, x
    <3>4. /\ CategoryTable(u) /\ DOMAIN u = DOMAIN rows \cup {k} /\ u[k] = row
          /\ \A j \in DOMAIN rows : u[j] = rows[j]
      BY <1>t, <3>2, <3>3, AddedToTable
    <3>5. ASSUME ~raced, ~x.stale PROVE Rooted(u) /\ SiblingsDiffer(u)
      <4>1. /\ row.parent = Root \/ row.parent \in LiveIn(rows)
            /\ NameFree(rows, row.name, row.parent, Root)
        BY <1>o, <3>1, <3>2, <3>5 DEF IsFresh
      <4>2. Rooted(rows) /\ SiblingsDiffer(rows)
        BY <1>f, <3>5
      <4> QED
        BY <1>t, <3>2, <3>4, <4>1, <4>2, AddedToTree
    <3>6. CategoryTree!Commit(c, u, CategoryTree!ReadBack(c, k))
      BY <2>2 DEF u, row, x
    <3> QED
      BY <3>4, <3>5, <3>6, TreeWritten DEF x
  <2> QED
    BY <1>1, <2>1, <2>2 DEF CategoryTree!SaveNew
<1>2. CASE CategoryTree!SaveChanged(c)
  <2> DEFINE row == [x.row EXCEPT !.name = NewName(x), !.slug = NewSlug(x), !.parent = NewParent(x)]
             u == [rows EXCEPT ![x.id] = row]
  <2>0. /\ x.pc = "save" /\ x.op = "update" /\ x.id \in DOMAIN rows
        /\ x.row \in CategoryRow /\ ~x.row.deleted
    BY <1>2, <1>o DEF CategoryTree!SaveChanged, PlaceTells
  <2>1. CASE CategoryTree!Answer(c)
    BY <2>1, <1>a
  <2>2. CASE CategoryTree!Commit(c, u, CategoryTree!ReadBack(c, x.id))
    <3>1. NewName(x) \in Names /\ NewSlug(x) \in Slugs /\ NewParent(x) \in Categories \cup {Root}
      BY <1>o, <2>0 DEF NewName, NewSlug, NewParent, CategoryRow, CategoryDto
    <3>2. /\ row \in CategoryRow /\ ~row.deleted
          /\ row.name = NewName(x) /\ row.parent = NewParent(x)
      BY <2>0, <3>1 DEF CategoryRow
    <3> HIDE DEF row
    <3>3. CategoryTable(u) /\ DOMAIN u = DOMAIN rows
      BY <1>t, <2>0, <3>2 DEF CategoryTable
    <3>4. ASSUME ~raced, ~x.stale PROVE Rooted(u) /\ SiblingsDiffer(u)
      <4>1. IsFresh(rows, x) /\ Rooted(rows) /\ SiblingsDiffer(rows)
        BY <1>o, <1>f, <3>4
      <4>2. x.row = rows[x.id] /\ x.id \in LiveIn(rows)
        BY <2>0, <4>1 DEF IsFresh, LiveIn
      <4>3. \/ row.parent = rows[x.id].parent \/ row.parent = Root
            \/ row.parent \in LiveIn(rows) /\ Clear(rows, x.id, row.parent)
        BY <1>o, <2>0, <3>1, <3>2, <4>1, <4>2 DEF IsFresh, NewParent, CategoryDto
      <4>4. \/ row.name = rows[x.id].name /\ row.parent = rows[x.id].parent
            \/ row.parent = Root
            \/ NameFree(rows, row.name, row.parent, x.id)
        BY <1>o, <2>0, <3>2, <4>1, <4>2 DEF IsFresh, NewName, NewParent
      <4> HIDE DEF x
      <4> QED
        BY <1>t, <3>2, <4>1, <4>2, <4>3, <4>4, ChangedInTree
    <3>5. x.id \in Categories
      BY <1>t, <2>0 DEF CategoryTable
    <3> HIDE DEF u
    <3> QED
      BY <2>2, <3>3, <3>4, <3>5, TreeWritten
  <2>3. CategoryTree!Answer(c) \/ CategoryTree!Commit(c, u, CategoryTree!ReadBack(c, x.id))
    <3>1. row = [x.row EXCEPT
                   !.name   = IF x.dto.name # Unset THEN x.dto.name ELSE @,
                   !.slug   = IF x.dto.slug # Unset THEN x.dto.slug ELSE @,
                   !.parent = IF x.dto.parent # Unset THEN x.dto.parent ELSE @]
      BY <2>0 DEF NewName, NewSlug, NewParent, CategoryRow
    <3> QED
      BY <1>2, <3>1 DEF CategoryTree!SaveChanged
  <2> QED
    BY <2>1, <2>2, <2>3
<1>3. CASE CategoryTree!SoftDelete(c)
  <2> DEFINE u == [rows EXCEPT ![x.id].deleted = TRUE]
  <2>1. x.pc = "delete" /\ x.op = "remove" /\ x.id \in DOMAIN rows
    BY <1>3, <1>o DEF CategoryTree!SoftDelete, PlaceTells
  <2>2. CategoryTree!Commit(c, u, CategoryTree!Idle)
    BY <1>3 DEF CategoryTree!SoftDelete
  <2>3. CategoryTable(u) /\ DOMAIN u = DOMAIN rows /\ u[x.id].deleted
          /\ \A j \in DOMAIN rows \ {x.id} : u[j] = rows[j]
    <3>1. rows[x.id] \in CategoryRow
      BY <1>t, <2>1 DEF CategoryTable
    <3>2. /\ u[x.id] = [rows[x.id] EXCEPT !.deleted = TRUE] /\ DOMAIN u = DOMAIN rows
          /\ \A j \in DOMAIN rows \ {x.id} : u[j] = rows[j]
      BY <2>1
    <3> DEFINE gone == [rows[x.id] EXCEPT !.deleted = TRUE]
    <3>a. gone \in CategoryRow
      BY <3>1 DEF CategoryRow
    <3>b. gone.deleted
      BY <3>1 DEF CategoryRow
    <3>c. u[x.id] = gone
      BY <3>2
    <3> HIDE DEF gone, u
    <3>3. u[x.id] \in CategoryRow /\ u[x.id].deleted
      BY <3>a, <3>b, <3>c
    <3> USE DEF u
    <3>4. u \in [DOMAIN rows -> CategoryRow]
      BY <1>t, <2>1, <3>2, <3>3 DEF CategoryTable
    <3> HIDE DEF u
    <3> QED
      BY <1>t, <3>2, <3>3, <3>4 DEF CategoryTable
  <2> HIDE DEF u, x
  <2>4. /\ Rooted(rows) /\ SiblingsDiffer(rows) /\ Under(rows, {x.id}) = {}
             => Rooted(u) /\ SiblingsDiffer(u)
    BY <2>1, <2>3, RemovedFromTree
  <2>5. raced \/ x.stale \/ (Rooted(u) /\ SiblingsDiffer(u))
    BY <1>o, <1>f, <2>1, <2>4 DEF IsFresh
  <2> QED
    BY <2>2, <2>3, <2>5, TreeWritten DEF x
<1>4. CASE CategoryTree!UpdateStatus(c)
  <2> DEFINE u == [rows EXCEPT ![x.id].active = (x.op = "activate")]
  <2>1. x.pc = "status" /\ x.id \in DOMAIN rows
    BY <1>4, <1>o DEF CategoryTree!UpdateStatus, PlaceTells
  <2>2. CategoryTree!Commit(c, u, CategoryTree!ReadBack(c, x.id)) /\ x.id \in Categories
    BY <1>4, <1>t, <2>1 DEF CategoryTree!UpdateStatus, CategoryTable
  <2>3. rows[x.id] \in CategoryRow
    BY <1>t, <2>1 DEF CategoryTable
  <2>4. /\ u[x.id] \in CategoryRow /\ DOMAIN u = DOMAIN rows
        /\ u[x.id].deleted = rows[x.id].deleted /\ u[x.id].parent = rows[x.id].parent
        /\ u[x.id].name = rows[x.id].name
        /\ \A j \in DOMAIN rows \ {x.id} : u[j] = rows[j]
    <3>1. (x.op = "activate") \in BOOLEAN
      OBVIOUS
    <3> QED
      BY <2>1, <2>3, <3>1 DEF CategoryRow
  <2> HIDE DEF u
  <2>5. CategoryTable(u)
    <3>1. u \in [DOMAIN u -> CategoryRow]
      BY <1>t, <2>4, <2>2 DEF CategoryTable, u
    <3> QED
      BY <1>t, <2>4, <3>1 DEF CategoryTable
  <2>6. (Rooted(rows) => Rooted(u)) /\ (SiblingsDiffer(rows) => SiblingsDiffer(u))
    BY <2>4, SameTree
  <2> QED
    BY <1>f, <2>2, <2>4, <2>5, <2>6, TreeWritten
<1> QED
  BY <1>1, <1>2, <1>3, <1>4

\* The tables to start from are trees.
LEMMA TreeInitially == CategoryTree!Init => TreeInv
<1> SUFFICES ASSUME CategoryTree!Init PROVE TreeInv
  OBVIOUS
<1> USE TreeConstants
<1>1. TreeTypeOK
  BY IdleIsNothing DEF CategoryTree!Init, TreeTypeOK
<1>2. \A c \in Clients : req[c] = CategoryTree!Idle
  BY DEF CategoryTree!Init
<1> DEFINE live == {k \in DOMAIN rows : ~rows[k].deleted}
<1>3. /\ \E depth \in [live -> 0..CategoryTree!TreeDepth] : \A k \in live :
             \/ rows[k].parent = Root
             \/ rows[k].parent \in live /\ depth[rows[k].parent] < depth[k]
      /\ \A j, k \in live :
             (j # k /\ rows[j].parent = rows[k].parent /\ rows[j].parent # Root)
                 => rows[j].name # rows[k].name
  BY TreeAssumption DEF CategoryTree!Init, CategoryTree!SeedsAreTrees
<1>4. live = LiveIn(rows) /\ live \subseteq Categories
  BY <1>1 DEF LiveIn, TreeTypeOK, CategoryTable
<1> HIDE DEF live
<1>5. Rooted(rows)
  <2>1. PICK depth \in [live -> 0..CategoryTree!TreeDepth] : \A k \in live :
               \/ rows[k].parent = Root
               \/ rows[k].parent \in live /\ depth[rows[k].parent] < depth[k]
    BY <1>3
  <2> DEFINE deep == [k \in Categories |-> IF k \in live THEN depth[k] ELSE 0]
  <2>2. deep \in [Categories -> Nat]
    BY DEF CategoryTree!TreeDepth
  <2>3. \A k \in live : deep[k] = depth[k]
    BY <1>4
  <2> HIDE DEF deep
  <2>4. Descends(rows, deep)
    BY <1>4, <2>1, <2>3 DEF Descends
  <2> QED
    BY <2>2, <2>4 DEF Rooted
<1>6. SiblingsDiffer(rows)
  BY <1>3, <1>4 DEF SiblingsDiffer
<1> QED
  BY <1>1, <1>2, <1>5, <1>6, IdleIsNothing DEF TreeInv

\* Every step of every request on categories keeps the invariant.
LEMMA TreeInvIsKept == TreeInv /\ CategoryTree!Next => TreeInv'
<1> SUFFICES ASSUME TreeInv, NEW c \in Clients, CategoryTree!Routes(c) \/ CategoryTree!Step(c)
             PROVE  TreeInv'
  BY DEF CategoryTree!Next
<1> QED
  BY TreeBegins, ChecksKeepTree, LooksKeepTree, DescentKeepsTree, WritesKeepTree
     DEF CategoryTree!Step

\* A step on products does not concern the tree.
LEMMA TreeInvStays == TreeInv /\ UNCHANGED <<rows, req, raced>> => TreeInv'
BY DEF TreeInv, TreeTypeOK, CategoryTable

-----------------------------------------------------------------------------
(* Products and categories together.                                       *)

Stocked == {products[p].category : p \in PLive} \ {Null}

\* A category that is about to be deleted has no product, and no product is
\* on a category that is not there.
ShelvesInv ==
    /\ TreeInv /\ ProductsInv
    /\ Stocked \subseteq LiveIn(rows)
    /\ \A c \in Clients : req[c].pc = "delete" => req[c].id \notin Stocked

\* The seeded products are on seeded categories.
LEMMA ShelvesInitially == CategoryTree!Init /\ PInit => ShelvesInv
<1> SUFFICES ASSUME CategoryTree!Init, PInit PROVE ShelvesInv
  OBVIOUS
<1>1. TreeInv /\ ProductsInv
  BY TreeInitially, ProductsInitially
<1>2. Stocked \subseteq LiveIn(rows)
  BY ShelvesAssumption DEF CategoryTree!Init, PInit, Stocked, PLive, LiveIn
<1>3. \A c \in Clients : req[c].pc = "idle"
  BY DEF CategoryTree!Init, CategoryTree!Idle
<1> QED
  BY <1>1, <1>2, <1>3 DEF ShelvesInv

\* A product is on the category it was on, if it still is on one.
LEMMA NothingIsShelved == ProductsInv /\ [PNext]_productVars => Stocked' \subseteq Stocked
<1> SUFFICES ASSUME ProductsInv, [PNext]_productVars PROVE Stocked' \subseteq Stocked
  OBVIOUS
<1>t. ProductTable(products) /\ preq \in [ProductClients -> ProductRequest]
  BY DEF ProductsInv, ProductsTypeOK
<1>1. ASSUME \A p \in DOMAIN products' :
               \/ products'[p].deleted \/ products'[p].category = Null
               \/ /\ p \in DOMAIN products /\ ~products[p].deleted
                  /\ products'[p].category = products[p].category
      PROVE  Stocked' \subseteq Stocked
  BY <1>1 DEF Stocked, PLive
<1>2. CASE products' = products
  BY <1>2 DEF Stocked, PLive
<1>3. ASSUME NEW c \in ProductClients, InsertProduct(c) PROVE Stocked' \subseteq Stocked
  <2>1. CASE PAnswer(c)
    BY <2>1, <1>2 DEF PAnswer
  <2>2. CASE ~PAnswer(c)
    <3> DEFINE d == preq[c].dto
               row == [sku |-> d.sku, price |-> d.price,
                       compareAt |-> IF d.compareAt = Absent THEN Null ELSE d.compareAt,
                       active |-> TRUE, deleted |-> FALSE, category |-> Null]
    <3>1. PICK p \in ProductIds \ DOMAIN products :
                 products' = [q \in DOMAIN products \cup {p} |-> IF q = p THEN row ELSE products[q]]
      BY <1>3, <2>2 DEF InsertProduct, PCommit
    <3>2. row.category = Null
      OBVIOUS
    <3> HIDE DEF row
    <3>3. DOMAIN products' = DOMAIN products \cup {p} /\ products'[p] = row
            /\ \A q \in DOMAIN products : products'[q] = products[q]
      BY <3>1
    <3> QED
      BY <3>2, <3>3, <1>1
  <2> QED
    BY <2>1, <2>2
<1>4. ASSUME NEW c \in ProductClients, WriteProduct(c) PROVE Stocked' \subseteq Stocked
  <2> DEFINE r == preq[c]
             old == products[r.id]
             new == Updated(old, r)
  <2>1. r.id \in DOMAIN products /\ old \in ProductRow
    BY <1>4, <1>t DEF WriteProduct, ProductsInv, ProductPlaceTells, ProductTable
  <2>2. products' = [products EXCEPT ![r.id] = new]
    BY <1>4 DEF WriteProduct, PCommit
  <2>3. new.category = old.category /\ (new.deleted \/ new.deleted = old.deleted)
    BY <2>1 DEF Updated, ProductRow
  <2> HIDE DEF new, old
  <2>4. DOMAIN products' = DOMAIN products /\ products'[r.id] = new
          /\ \A p \in DOMAIN products \ {r.id} : products'[p] = products[p]
    BY <2>1, <2>2
  <2> QED
    BY <1>1, <2>1, <2>3, <2>4 DEF old
<1> QED
  BY <1>2, <1>3, <1>4 DEF PNext, PRoutes, PStep, productVars, PostProduct, PatchProduct,
     DeleteProduct, PatchProductActivate, PatchProductDeactivate, PBegin, CheckSku, LoadProduct,
     ValidatePrices, PAnswer, PGo

\* Only the deletion itself takes a category away.
LEMMA OnlyDeletionTakes ==
    ASSUME TreeInv, NEW c \in Clients, CategoryTree!Routes(c) \/ CategoryTree!Step(c),
           NEW k \in LiveIn(rows)
    PROVE  k \in LiveIn(rows') \/ (req[c].pc = "delete" /\ req[c].id = k)
<1> DEFINE x == req[c]
<1>o. /\ x \in CategoryRequest /\ x.dto \in CategoryDto /\ PlaceTells(rows, x)
  BY OfOneRequest
<1>t. CategoryTable(rows) /\ k \in DOMAIN rows /\ ~rows[k].deleted
  BY DEF TreeInv, TreeTypeOK, LiveIn
<1>u. CASE rows' = rows
  BY <1>u
<1>1. CASE CategoryTree!SaveNew(c)
  <2> DEFINE row == [name |-> x.dto.name, slug |-> x.dto.slug, parent |-> x.dto.parent,
                     active |-> TRUE, deleted |-> FALSE]
  <2>1. CASE CategoryTree!Answer(c)
    BY <2>1, <1>u DEF CategoryTree!Answer
  <2>2. CASE ~CategoryTree!Answer(c)
    <3>1. PICK n \in Categories \ DOMAIN rows :
                 rows' = [j \in DOMAIN rows \cup {n} |-> IF j = n THEN row ELSE rows[j]]
      BY <1>1, <2>2 DEF CategoryTree!SaveNew, CategoryTree!Commit
    <3> HIDE DEF row
    <3>2. k \in DOMAIN rows' /\ rows'[k] = rows[k]
      BY <1>t, <3>1
    <3> QED
      BY <1>t, <3>2 DEF LiveIn
  <2> QED
    BY <2>1, <2>2
<1>2. CASE CategoryTree!SaveChanged(c)
  <2> DEFINE row == [x.row EXCEPT
                       !.name   = IF x.dto.name # Unset THEN x.dto.name ELSE @,
                       !.slug   = IF x.dto.slug # Unset THEN x.dto.slug ELSE @,
                       !.parent = IF x.dto.parent # Unset THEN x.dto.parent ELSE @]
  <2>0. x.id \in DOMAIN rows /\ x.row \in CategoryRow /\ ~x.row.deleted
    BY <1>2, <1>o DEF CategoryTree!SaveChanged, PlaceTells
  <2>1. rows' = rows \/ rows' = [rows EXCEPT ![x.id] = row]
    BY <1>2 DEF CategoryTree!SaveChanged, CategoryTree!Answer, CategoryTree!Commit
  <2>2. ~row.deleted
    BY <2>0 DEF CategoryRow
  <2> HIDE DEF row
  <2>3. CASE rows' = [rows EXCEPT ![x.id] = row]
    BY <1>t, <2>0, <2>2, <2>3 DEF LiveIn
  <2> QED
    BY <1>u, <2>1, <2>3
<1>3. CASE CategoryTree!SoftDelete(c)
  <2>1. x.pc = "delete" /\ rows' = [rows EXCEPT ![x.id].deleted = TRUE]
    BY <1>3 DEF CategoryTree!SoftDelete, CategoryTree!Commit
  <2> HIDE DEF x
  <2>2. CASE x.id # k
    <3>1. k \in DOMAIN rows' /\ rows'[k] = rows[k]
      BY <1>t, <2>1, <2>2
    <3> QED
      BY <1>t, <3>1 DEF LiveIn
  <2> QED
    BY <2>1, <2>2 DEF x
<1>4. CASE CategoryTree!UpdateStatus(c)
  <2>1. rows' = [rows EXCEPT ![x.id].active = (x.op = "activate")]
    BY <1>4 DEF CategoryTree!UpdateStatus, CategoryTree!Commit
  <2> HIDE DEF x
  <2>2. k \in DOMAIN rows' /\ rows[k] \in CategoryRow
    BY <1>t, <2>1 DEF CategoryTable
  <2>3. rows'[k] = IF k = x.id THEN [rows[k] EXCEPT !.active = (x.op = "activate")] ELSE rows[k]
    BY <1>t, <2>1
  <2>4. rows'[k].deleted = rows[k].deleted
    BY <2>2, <2>3 DEF CategoryRow
  <2> QED
    BY <1>t, <2>2, <2>4 DEF LiveIn
<1>5. CASE CategoryTree!CheckSlug(c) \/ CategoryTree!CheckParent(c) \/ CategoryTree!CheckName(c)
             \/ CategoryTree!Checked(c) \/ CategoryTree!CountChildren(c) \/ CategoryTree!CountProducts(c)
  BY <1>5, <1>u DEF CategoryTree!CheckSlug, CategoryTree!CheckParent, CategoryTree!CheckName,
     CategoryTree!Checked, CategoryTree!CountChildren, CategoryTree!CountProducts,
     CategoryTree!Answer, CategoryTree!Go
<1>6. CASE CategoryTree!Load(c) \/ CategoryTree!CheckHierarchy(c) \/ CategoryTree!Descend(c)
             \/ CategoryTree!WalkUp(c)
  BY <1>6, <1>u DEF CategoryTree!Load, CategoryTree!CheckHierarchy, CategoryTree!Descend,
     CategoryTree!WalkUp, CategoryTree!Answer
<1>7. CASE CategoryTree!Routes(c)
  BY <1>7, <1>u DEF CategoryTree!Routes, CategoryTree!PostCategory, CategoryTree!PutCategory,
     CategoryTree!DeleteCategory, CategoryTree!PatchActivate, CategoryTree!PatchDeactivate,
     CategoryTree!GetCategory, CategoryTree!GetPath, CategoryTree!GetDescendants,
     CategoryTree!Begin
<1> QED
  BY <1>1, <1>2, <1>3, <1>4, <1>5, <1>6, <1>7 DEF CategoryTree!Step

\* Only a request that has just found no product is about to delete.
LEMMA OnlyTheCountAllows ==
    ASSUME TreeInv, NEW c \in Clients, CategoryTree!Routes(c) \/ CategoryTree!Step(c),
           NEW d \in Clients, req'[d].pc = "delete"
    PROVE  \/ req[d].pc = "delete" /\ req'[d].id = req[d].id
           \/ req'[d].id = req[d].id /\ req[d].id \notin Stocked
<1> DEFINE x == req[c]
<1>o. \A e \in Clients : req[e] \in CategoryRequest
  BY OfOneRequest
<1>d. DOMAIN req = Clients
  BY DEF TreeInv, TreeTypeOK
<1>i. CategoryTree!Idle.pc = "idle" /\ \A k : CategoryTree!ReadBack(c, k).pc = "walk"
  BY DEF CategoryTree!Idle, CategoryTree!ReadBack
<1>1. ASSUME NEW next, next.pc # "delete", req' = [req EXCEPT ![c] = next]
      PROVE  req[d].pc = "delete" /\ req'[d].id = req[d].id
  BY <1>1, <1>d
<1>2. ASSUME NEW next, next.pc # "delete", NEW t, CategoryTree!Commit(c, t, next)
      PROVE  req[d].pc = "delete" /\ req'[d].id = req[d].id
  <2>1. d # c
    BY <1>2 DEF CategoryTree!Commit
  <2>2. req'[d] = req[d] \/ req'[d] = [req[d] EXCEPT !.stale = TRUE]
    BY <1>2, <2>1 DEF CategoryTree!Commit
  <2> QED
    BY <1>o, <2>2 DEF CategoryRequest
<1>a. CASE CategoryTree!Answer(c)
  BY <1>1, <1>a, <1>i DEF CategoryTree!Answer
<1>g. ASSUME NEW pc \in TreePlaces \ {"delete"}, CategoryTree!Go(c, pc)
      PROVE  req[d].pc = "delete" /\ req'[d].id = req[d].id
  <2> DEFINE next == [x EXCEPT !.pc = pc]
  <2>1. next.pc # "delete" /\ req' = [req EXCEPT ![c] = next]
    BY <1>o, <1>g DEF CategoryTree!Go, CategoryRequest
  <2> HIDE DEF next
  <2> QED
    BY <1>1, <2>1
<1>3. CASE CategoryTree!CountProducts(c) /\ ~CategoryTree!Answer(c)
  <2>1. req[c].id \notin Stocked /\ CategoryTree!Go(c, "delete")
    BY <1>3 DEF CategoryTree!CountProducts, Stocked
  <2>2. req' = [req EXCEPT ![c].pc = "delete"]
    BY <2>1 DEF CategoryTree!Go
  <2>3. req'[d].id = req[d].id /\ (d # c => req'[d] = req[d])
    BY <1>o, <1>d, <2>2 DEF CategoryRequest
  <2> QED
    BY <2>1, <2>3
<1>4. CASE (CategoryTree!CheckSlug(c) \/ CategoryTree!CheckParent(c) \/ CategoryTree!CheckName(c)
             \/ CategoryTree!Checked(c) \/ CategoryTree!CountChildren(c)) /\ ~CategoryTree!Answer(c)
  <2>1. CategoryTree!AfterSlug(c) \in {"parent", "name", "save"}
          /\ CategoryTree!AfterHierarchy(c) \in {"parent", "name", "save", "slug"}
    BY DEF CategoryTree!AfterSlug, CategoryTree!AfterHierarchy
  <2>2. \E pc \in TreePlaces \ {"delete"} : CategoryTree!Go(c, pc)
    BY <1>4, <2>1 DEF CategoryTree!CheckSlug, CategoryTree!CheckParent, CategoryTree!CheckName,
       CategoryTree!Checked, CategoryTree!CountChildren, TreePlaces
  <2> QED
    BY <1>g, <2>2
<1>5. CASE CategoryTree!Load(c) /\ ~CategoryTree!Answer(c)
  <2> DEFINE pc == CASE x.op = "remove" -> "children"
                     [] x.op = "update" -> IF x.dto.parent \in Categories
                                           THEN "hierarchy" ELSE "checked"
                     [] OTHER -> "status"
             row == IF x.op = "update" THEN rows[x.id] ELSE CategoryTree!NoRow
             next == [x EXCEPT !.row = row, !.pc = pc]
  <2>1. req' = [req EXCEPT ![c].row = row, ![c].pc = pc]
    BY <1>5 DEF CategoryTree!Load
  <2>2. pc # "delete"
    OBVIOUS
  <2> HIDE DEF pc, row
  <2>3. req' = [req EXCEPT ![c] = next] /\ next.pc # "delete"
    BY <1>o, <1>d, <2>1, <2>2 DEF CategoryRequest
  <2> HIDE DEF next
  <2> QED
    BY <1>1, <2>3
<1>6. CASE (CategoryTree!CheckHierarchy(c) \/ CategoryTree!Descend(c) \/ CategoryTree!WalkUp(c))
             /\ ~CategoryTree!Answer(c)
  <2>0. x.pc # "delete"
    BY <1>6 DEF CategoryTree!CheckHierarchy, CategoryTree!Descend, CategoryTree!WalkUp
  <2>1. \/ \E at : req' = [req EXCEPT ![c].pc = "descend", ![c].at = at]
        \/ \E at, seen : req' = [req EXCEPT ![c].at = at, ![c].seen = seen]
        \/ req' = [req EXCEPT ![c].pc = "checked", ![c].at = {}, ![c].seen = {}]
        \/ \E at : req' = [req EXCEPT ![c].at = at]
    <3>1. CASE CategoryTree!CheckHierarchy(c)
      BY <1>6, <3>1 DEF CategoryTree!CheckHierarchy
    <3>2. CASE CategoryTree!Descend(c)
      <4> DEFINE below == CategoryTree!ChildrenOf(x.at)
                 seen == IF x.op = "update" THEN x.seen \cup below ELSE x.seen
      <4>1. \/ req' = [req EXCEPT ![c].at = below, ![c].seen = seen]
            \/ req' = [req EXCEPT ![c].pc = "checked", ![c].at = {}, ![c].seen = {}]
        BY <1>6, <1>d, <3>2, <1>o DEF CategoryTree!Descend, CategoryRequest
      <4> HIDE DEF below, seen
      <4> QED
        BY <4>1
    <3>3. CASE CategoryTree!WalkUp(c)
      BY <1>6, <3>3 DEF CategoryTree!WalkUp
    <3> QED
      BY <1>6, <3>1, <3>2, <3>3
  <2> HIDE DEF x
  <2>2. \E next : next.pc # "delete" /\ req' = [req EXCEPT ![c] = next]
    <3>1. ASSUME NEW at, req' = [req EXCEPT ![c].pc = "descend", ![c].at = at]
          PROVE  req'[c].pc # "delete" /\ req' = [req EXCEPT ![c] = req'[c]]
      BY <1>o, <1>d, <3>1 DEF CategoryRequest
    <3>2. ASSUME NEW at, NEW seen, req' = [req EXCEPT ![c].at = at, ![c].seen = seen]
          PROVE  req'[c].pc # "delete" /\ req' = [req EXCEPT ![c] = req'[c]]
      BY <1>o, <1>d, <2>0, <3>2 DEF CategoryRequest, x
    <3>3. ASSUME req' = [req EXCEPT ![c].pc = "checked", ![c].at = {}, ![c].seen = {}]
          PROVE  req'[c].pc # "delete" /\ req' = [req EXCEPT ![c] = req'[c]]
      BY <1>o, <1>d, <3>3 DEF CategoryRequest
    <3>4. ASSUME NEW at, req' = [req EXCEPT ![c].at = at]
          PROVE  req'[c].pc # "delete" /\ req' = [req EXCEPT ![c] = req'[c]]
      BY <1>o, <1>d, <2>0, <3>4 DEF CategoryRequest, x
    <3> QED
      BY <2>1, <3>1, <3>2, <3>3, <3>4
  <2> QED
    BY <1>1, <2>2
<1>7. CASE (CategoryTree!SaveNew(c) \/ CategoryTree!SaveChanged(c) \/ CategoryTree!SoftDelete(c)
             \/ CategoryTree!UpdateStatus(c)) /\ ~CategoryTree!Answer(c)
  <2>1. \E t, next : next.pc # "delete" /\ CategoryTree!Commit(c, t, next)
    <3>1. CASE CategoryTree!SaveNew(c)
      <4>1. \E t, k : CategoryTree!Commit(c, t, CategoryTree!ReadBack(c, k))
        BY <1>7, <3>1 DEF CategoryTree!SaveNew
      <4> QED
        BY <1>i, <4>1
    <3>2. CASE CategoryTree!SaveChanged(c)
      <4>1. \E t : CategoryTree!Commit(c, t, CategoryTree!ReadBack(c, x.id))
        BY <1>7, <3>2 DEF CategoryTree!SaveChanged
      <4> QED
        BY <1>i, <4>1
    <3>3. CASE CategoryTree!SoftDelete(c)
      BY <1>i, <3>3 DEF CategoryTree!SoftDelete
    <3>4. CASE CategoryTree!UpdateStatus(c)
      BY <1>i, <3>4 DEF CategoryTree!UpdateStatus
    <3> QED
      BY <1>7, <3>1, <3>2, <3>3, <3>4
  <2> QED
    BY <1>2, <2>1
<1>8. CASE CategoryTree!Routes(c)
  <2>0. \E pc \in {"slug", "load", "walk", "descend"} : \E op, k, dto :
           CategoryTree!Begin(c, op, k, dto, pc)
    <3>1. CASE CategoryTree!PostCategory(c)
      <4>1. \E k, dto : CategoryTree!Begin(c, "create", k, dto, "slug")
        BY <3>1 DEF CategoryTree!PostCategory
      <4> QED
        BY <4>1
    <3>2. CASE CategoryTree!PutCategory(c)
      BY <3>2 DEF CategoryTree!PutCategory
    <3>3. CASE CategoryTree!DeleteCategory(c) \/ CategoryTree!PatchActivate(c)
                 \/ CategoryTree!PatchDeactivate(c)
      BY <3>3 DEF CategoryTree!DeleteCategory, CategoryTree!PatchActivate,
         CategoryTree!PatchDeactivate
    <3>4. CASE CategoryTree!GetCategory(c) \/ CategoryTree!GetPath(c)
                 \/ CategoryTree!GetDescendants(c)
      BY <3>4 DEF CategoryTree!GetCategory, CategoryTree!GetPath, CategoryTree!GetDescendants
    <3> QED
      BY <1>8, <3>1, <3>2, <3>3, <3>4 DEF CategoryTree!Routes
  <2>a. PICK pc \in {"slug", "load", "walk", "descend"} : \E op, k, dto :
               CategoryTree!Begin(c, op, k, dto, pc)
    BY <2>0
  <2>1. PICK op, k, dto : CategoryTree!Begin(c, op, k, dto, pc)
    BY <2>a
  <2> DEFINE idle == CategoryTree!Idle
             next == [idle EXCEPT !.op = op, !.id = k, !.dto = dto, !.pc = pc,
                                  !.at = IF pc \in {"walk", "descend"} THEN {k} ELSE {}]
  <2>2. req' = [req EXCEPT ![c] = next]
    BY <2>1 DEF CategoryTree!Begin
  <2>3. idle \in CategoryRequest
    BY IdleIsNothing
  <2> HIDE DEF idle
  <2>4. next.pc = pc
    BY <2>3 DEF CategoryRequest
  <2> HIDE DEF next
  <2> QED
    BY <1>1, <2>a, <2>2, <2>4
<1> QED
  BY <1>a, <1>3, <1>4, <1>5, <1>6, <1>7, <1>8 DEF CategoryTree!Step

\* A step on categories leaves the shelves in order.
LEMMA TreeKeepsShelves == ShelvesInv /\ CategoryTree!Next /\ UNCHANGED productVars => ShelvesInv'
<1> SUFFICES ASSUME ShelvesInv, NEW c \in Clients, CategoryTree!Routes(c) \/ CategoryTree!Step(c),
                    UNCHANGED productVars
             PROVE  ShelvesInv'
  BY DEF CategoryTree!Next
<1>1. TreeInv /\ ProductsInv
  BY DEF ShelvesInv
<1>2. TreeInv'
  BY <1>1, TreeInvIsKept DEF CategoryTree!Next
<1>3. ProductsInv'
  BY <1>1, ProductsInvIsKept
<1>4. Stocked' = Stocked
  BY DEF productVars, Stocked, PLive
<1>5. Stocked \subseteq LiveIn(rows')
  BY <1>1, OnlyDeletionTakes DEF ShelvesInv
<1>6. \A d \in Clients : req'[d].pc = "delete" => req'[d].id \notin Stocked
  BY <1>1, OnlyTheCountAllows DEF ShelvesInv
<1> QED
  BY <1>2, <1>3, <1>4, <1>5, <1>6 DEF ShelvesInv

\* A step on products does too.
LEMMA ProductsKeepShelves ==
    ShelvesInv /\ [PNext]_productVars /\ UNCHANGED <<rows, req, raced>> => ShelvesInv'
<1> SUFFICES ASSUME ShelvesInv, [PNext]_productVars, UNCHANGED <<rows, req, raced>>
             PROVE  ShelvesInv'
  OBVIOUS
<1>1. TreeInv' /\ ProductsInv'
  BY TreeInvStays, ProductsInvIsKept DEF ShelvesInv
<1>2. Stocked' \subseteq Stocked
  BY NothingIsShelved DEF ShelvesInv
<1> QED
  BY <1>1, <1>2 DEF ShelvesInv

\* The invariant of products and categories together, for any number of
\* requests of either kind.
THEOREM ShelvesInvariant == CatalogRuns => []ShelvesInv
<1>1. CategoryTree!Init /\ PInit => ShelvesInv
  BY ShelvesInitially
<1>2. ShelvesInv /\ [\/ CategoryTree!Next /\ UNCHANGED productVars
                     \/ PNext /\ UNCHANGED <<rows, req, raced>>]_<<rows, req, raced, productVars>>
        => ShelvesInv'
  <2>1. UNCHANGED <<rows, req, raced, productVars>> => UNCHANGED <<rows, req, raced>> /\ UNCHANGED productVars
    OBVIOUS
  <2> QED
    BY <2>1, TreeKeepsShelves, ProductsKeepShelves
<1> QED
  BY <1>1, <1>2, PTL DEF CatalogRuns

\* A product that is not deleted never refers to a deleted category, however
\* the requests on products and on categories interleave.
THEOREM ProductsStayOnShelves == CatalogRuns => []ShelvesAreLive
<1>1. ShelvesInv => ShelvesAreLive
  BY TreeNames DEF ShelvesInv, ShelvesAreLive, Stocked
<1> QED
  BY <1>1, ShelvesInvariant, PTL

-----------------------------------------------------------------------------
(* The tree endpoint.  buildTreeStructure goes down level by level and     *)
(* stops after ten; a tree of at most eleven categories has no more.       *)

\* A set of numbers has a least one.
LEMMA LeastOf ==
    ASSUME NEW N \in SUBSET Nat, N # {}
    PROVE  \E m \in N : \A n \in N : m <= n
<1>1. IsWellFoundedOn(OpToRel(<,Nat), Nat)
  BY NatLessThanWellFounded
<1>2. PICK m \in N : \A n \in N : ~ (<<n, m>> \in OpToRel(<,Nat))
  BY <1>1, WFMin
<1>3. \A n \in N : ~(n < m)
  BY <1>2 DEF OpToRel
<1> QED
  BY <1>3

\* The levels of a tree down to the nth.
Levels(t, n, f) ==
    /\ f \in [0..n -> SUBSET LiveIn(t)]
    /\ f[0] = Under(t, {Root})
    /\ \A d \in 1..n : f[d] = Under(t, f[d - 1])

\* There are such levels, however far down: where they first failed to be, the
\* level above would give the next.
LEMMA LevelsAreThere ==
    ASSUME NEW t, NEW n \in Nat
    PROVE  \E f : Levels(t, n, f)
<1> DEFINE Bad == {m \in Nat : ~ \E f : Levels(t, m, f)}
<1> SUFFICES ASSUME Bad # {} PROVE FALSE
  OBVIOUS
<1>1. PICK m \in Bad : \A k \in Bad : m <= k
  <2>1. Bad \in SUBSET Nat
    OBVIOUS
  <2> HIDE DEF Bad
  <2> QED
    BY <2>1, LeastOf
<1>u. \A S : Under(t, S) \in SUBSET LiveIn(t)
  BY DEF Under
<1>2. CASE m = 0
  <2> DEFINE g == [d \in 0..0 |-> Under(t, {Root})]
  <2>1. g \in [0..0 -> SUBSET LiveIn(t)] /\ g[0] = Under(t, {Root})
    BY <1>u
  <2>2. 1..0 = {}
    OBVIOUS
  <2> HIDE DEF g
  <2>3. Levels(t, 0, g)
    BY <2>1, <2>2 DEF Levels
  <2> QED
    BY <1>2, <2>3
<1>3. CASE m # 0
  <2>1. m - 1 \in Nat /\ m - 1 \notin Bad /\ m \in Nat
    BY <1>1, <1>3
  <2>2. PICK f : Levels(t, m - 1, f)
    BY <2>1
  <2> DEFINE last == Under(t, f[m - 1])
             g == [d \in 0..m |-> IF d = m THEN last ELSE f[d]]
  <2>3. last \in SUBSET LiveIn(t)
    BY <1>u
  <2> HIDE DEF last
  <2>4. g \in [0..m -> SUBSET LiveIn(t)]
    BY <2>1, <2>2, <2>3 DEF Levels
  <2>5. g[0] = Under(t, {Root})
    BY <1>3, <2>1, <2>2 DEF Levels
  <2>6. ASSUME NEW d \in 1..m
        PROVE  g[d] = Under(t, g[d - 1])
    <3>1. g[d - 1] = f[d - 1]
      BY <2>1
    <3>2. CASE d = m
      BY <2>1, <3>1, <3>2 DEF last
    <3>3. CASE d # m
      BY <2>1, <2>2, <3>1, <3>3 DEF Levels
    <3> QED
      BY <3>2, <3>3
  <2>7. Levels(t, m, g)
    BY <2>4, <2>5, <2>6 DEF Levels
  <2> QED
    BY <2>7
<1> QED
  BY <1>2, <1>3

\* A category is on no deeper level than any number that descends to the top.
LEMMA OnSomeLevel ==
    ASSUME NEW t, NEW n \in Nat, NEW f, Levels(t, n, f),
           NEW depth \in [Categories -> Nat], Descends(t, depth), LiveIn(t) \subseteq Categories,
           NEW k \in LiveIn(t), depth[k] <= n
    PROVE  \E d \in 0..depth[k] : k \in f[d]
<1> DEFINE Bad == {m \in 0..n : \E j \in LiveIn(t) : depth[j] = m /\ \A d \in 0..m : j \notin f[d]}
<1> SUFFICES ASSUME Bad # {} PROVE FALSE
  OBVIOUS
<1>1. PICK m \in Bad : \A i \in Bad : m <= i
  <2>1. Bad \in SUBSET Nat
    OBVIOUS
  <2> HIDE DEF Bad
  <2> QED
    BY <2>1, LeastOf
<1>2. PICK j \in LiveIn(t) : depth[j] = m /\ \A d \in 0..m : j \notin f[d]
  BY <1>1
<1>m. m \in 0..n
  BY <1>1
<1>3. CASE t[j].parent = Root
  <2>1. j \in f[0]
    BY <1>3 DEF Levels, Under
  <2> QED
    BY <1>2, <1>m, <2>1
<1>4. CASE t[j].parent # Root
  <2> DEFINE p == t[j].parent
  <2>1. p \in LiveIn(t) /\ depth[p] < m /\ depth[p] \in Nat
    BY <1>2, <1>4 DEF Descends
  <2>2. depth[p] \in 0..n /\ depth[p] \notin Bad
    BY <1>1, <1>m, <2>1
  <2>3. PICK d \in 0..depth[p] : p \in f[d]
    BY <2>1, <2>2
  <2>4. d + 1 \in 1..n /\ d + 1 \in 0..m /\ (d + 1) - 1 = d
    BY <1>m, <2>1, <2>3
  <2>5. f[d + 1] = Under(t, f[d])
    BY <2>4 DEF Levels
  <2>6. j \in f[d + 1]
    BY <2>3, <2>5 DEF Under
  <2> QED
    BY <1>2, <2>4, <2>6
<1> QED
  BY <1>3, <1>4

\* What the endpoint shows are the levels down to the tenth.
LEMMA TheLevelsAreShown ==
    ASSUME NEW depth \in [Categories -> Nat], Descends(rows, depth), LiveIn(rows) \subseteq Categories,
           \A k \in LiveIn(rows) : depth[k] <= CategoryTree!TreeDepth
    PROVE  CategoryTree!TreeNodes(TRUE) = LiveIn(rows)
<1>n. CategoryTree!TreeDepth \in Nat
  BY DEF CategoryTree!TreeDepth
<1> DEFINE n == CategoryTree!TreeDepth
           shown == {k \in CategoryTree!Live : TRUE \/ rows[k].active}
           Below(parents) == {k \in shown : rows[k].parent \in parents}
           Grows(f) == f = [d \in 0..n |-> Below(IF d = 0 THEN {Root} ELSE f[d - 1])]
           level == CHOOSE f : Grows(f)
<1>1. CategoryTree!TreeNodes(TRUE) = UNION {level[d] : d \in 0..n}
  BY DEF CategoryTree!TreeNodes
<1>2. \A S : Below(S) = Under(rows, S)
  BY TreeNames DEF Under
<1> HIDE DEF n, Below
<1>3. PICK f : Levels(rows, n, f)
  BY <1>n, LevelsAreThere DEF n
<1>4. Grows(f)
  <2>1. \A d \in 0..n : f[d] = Below(IF d = 0 THEN {Root} ELSE f[d - 1])
    BY <1>n, <1>2, <1>3 DEF Levels, n
  <2> QED
    BY <1>3, <2>1 DEF Levels
<1>5. Grows(level)
  BY <1>4
<1> HIDE DEF level
<1>6. Levels(rows, n, level)
  <2>1. \A d \in 0..n : level[d] = Under(rows, IF d = 0 THEN {Root} ELSE level[d - 1])
    BY <1>2, <1>5
  <2>2. \A S : Under(rows, S) \in SUBSET LiveIn(rows)
    BY DEF Under
  <2>3. level \in [0..n -> SUBSET LiveIn(rows)]
    <3>1. \A d \in 0..n : level[d] \in SUBSET LiveIn(rows)
      BY <2>1, <2>2
    <3>2. level = [d \in 0..n |-> level[d]]
      BY <1>5
    <3> QED
      BY <3>1, <3>2
  <2>4. level[0] = Under(rows, {Root})
    BY <1>n, <2>1 DEF n
  <2>5. \A d \in 1..n : level[d] = Under(rows, level[d - 1])
    BY <1>n, <2>1 DEF n
  <2> QED
    BY <2>3, <2>4, <2>5 DEF Levels
<1>7. \A d \in 0..n : level[d] \subseteq LiveIn(rows)
  BY <1>6 DEF Levels
<1>8. ASSUME NEW k \in LiveIn(rows) PROVE \E d \in 0..n : k \in level[d]
  <2>1. depth[k] <= n /\ n \in Nat /\ depth[k] \in Nat
    BY <1>n DEF n
  <2>2. PICK d \in 0..depth[k] : k \in level[d]
    BY <1>6, <2>1, OnSomeLevel
  <2> QED
    BY <2>1, <2>2
<1> QED
  BY <1>1, <1>7, <1>8

\* A part of a finite set has fewer elements.
LEMMA PartIsSmaller ==
    ASSUME NEW S, IsFiniteSet(S), NEW T \in SUBSET S, T # S
    PROVE  Cardinality(T) < Cardinality(S)
<1>1. IsFiniteSet(T) /\ Cardinality(T) <= Cardinality(S) /\ Cardinality(T) # Cardinality(S)
  BY FS_Subset
<1>2. Cardinality(T) \in Nat /\ Cardinality(S) \in Nat
  BY <1>1, FS_CardinalityType
<1> QED
  BY <1>1, <1>2

\* Where a category has its place can be counted: by those that have theirs
\* nearer to the top.
LEMMA PlacesCanBeCounted ==
    ASSUME NEW t, LiveIn(t) \subseteq Categories, IsFiniteSet(Categories), Rooted(t)
    PROVE  \E rank \in [Categories -> Nat] :
              Descends(t, rank) /\ \A k \in LiveIn(t) : rank[k] < Cardinality(Categories)
<1>1. PICK depth \in [Categories -> Nat] : Descends(t, depth)
  BY DEF Rooted
<1> DEFINE Above(k) == {j \in LiveIn(t) : depth[j] < depth[k]}
           rank == [k \in Categories |-> Cardinality(Above(k))]
<1>2. \A k \in Categories : Above(k) \subseteq Categories /\ IsFiniteSet(Above(k))
  BY FS_Subset
<1>3. rank \in [Categories -> Nat]
  BY <1>2, FS_CardinalityType
<1>4. ASSUME NEW k \in LiveIn(t), t[k].parent # Root
      PROVE  t[k].parent \in LiveIn(t) /\ rank[t[k].parent] < rank[k]
  <2> DEFINE p == t[k].parent
  <2>1. p \in LiveIn(t) /\ depth[p] < depth[k]
    BY <1>1, <1>4 DEF Descends
  <2> HIDE DEF p
  <2>2. k \in Categories /\ p \in Categories /\ depth[p] \in Nat /\ depth[k] \in Nat
    BY <2>1
  <2>3. Above(p) \subseteq Above(k)
    <3>1. \A j \in LiveIn(t) : depth[j] \in Nat
      OBVIOUS
    <3> QED
      BY <2>1, <2>2, <3>1
  <2>4. p \in Above(k) /\ p \notin Above(p)
    BY <2>1, <2>2
  <2> HIDE DEF Above
  <2>5. Cardinality(Above(p)) < Cardinality(Above(k))
    BY <1>2, <2>2, <2>3, <2>4, PartIsSmaller
  <2> QED
    BY <2>1, <2>2, <2>5 DEF p
<1>5. ASSUME NEW k \in LiveIn(t) PROVE rank[k] < Cardinality(Categories)
  <2>1. k \in Categories /\ depth[k] \in Nat
    OBVIOUS
  <2>2. k \notin Above(k)
    BY <2>1
  <2> HIDE DEF Above
  <2>3. Above(k) # Categories
    BY <2>1, <2>2
  <2>4. Cardinality(Above(k)) < Cardinality(Categories)
    BY <1>2, <2>1, <2>3, PartIsSmaller
  <2> QED
    BY <2>1, <2>4
<1> HIDE DEF rank
<1>6. Descends(t, rank)
  BY <1>4 DEF Descends
<1> QED
  BY <1>3, <1>5, <1>6

\* Whatever the number of categories: unless a write relied on checks older
\* than another write, every category that is not deleted hangs, by parents
\* that are not deleted, on one without a parent.  No cycle is closed by
\* validateHierarchy and no orphan left by remove.
THEOREM NoCyclesNoOrphans == CatalogRuns => [](raced \/ Rooted(rows))
<1>1. ShelvesInv => (raced \/ Rooted(rows))
  BY DEF ShelvesInv, TreeInv
<1> QED
  BY <1>1, ShelvesInvariant, PTL

\* Neither do two categories under one parent have the same name then.
THEOREM SiblingNamesStayApart == CatalogRuns => []CategoryTree!SiblingNamesDiffer
<1>1. ShelvesInv => CategoryTree!SiblingNamesDiffer
  BY TreeNames DEF ShelvesInv, TreeInv, SiblingsDiffer, CategoryTree!SiblingNamesDiffer
<1> QED
  BY <1>1, ShelvesInvariant, PTL

\* The tree endpoint shows every category, and siblings have different names,
\* as long as requests do not overlap: for up to eleven categories, which ten
\* levels below the top always hold.
THEOREM SmallTreesAreSound ==
    ASSUME IsFiniteSet(Categories), Cardinality(Categories) <= CategoryTree!TreeDepth + 1
    PROVE  CatalogRuns => []TreeIsSound
<1>1. ShelvesInv => CategoryTree!TreeIsComplete
  <2> SUFFICES ASSUME ShelvesInv, ~raced PROVE CategoryTree!TreeNodes(TRUE) = LiveIn(rows)
    BY TreeNames DEF CategoryTree!TreeIsComplete
  <2>1. Rooted(rows) /\ LiveIn(rows) \subseteq Categories
    BY DEF ShelvesInv, TreeInv, TreeTypeOK, CategoryTable, LiveIn
  <2>2. PICK rank \in [Categories -> Nat] :
               Descends(rows, rank) /\ \A k \in LiveIn(rows) : rank[k] < Cardinality(Categories)
    BY <2>1, PlacesCanBeCounted
  <2>3. \A k \in LiveIn(rows) : rank[k] <= CategoryTree!TreeDepth
    BY <2>1, <2>2, FS_CardinalityType DEF CategoryTree!TreeDepth
  <2> QED
    BY <2>1, <2>2, <2>3, TheLevelsAreShown
<1>2. ShelvesInv => CategoryTree!SiblingNamesDiffer
  BY TreeNames DEF ShelvesInv, TreeInv, SiblingsDiffer, CategoryTree!SiblingNamesDiffer
<1>3. ShelvesInv => TreeIsSound
  BY <1>1, <1>2 DEF TreeIsSound
<1> QED
  BY <1>3, ShelvesInvariant, PTL

-----------------------------------------------------------------------------
(* The listings.  An order is the set of the pairs of rows of which the    *)
(* first comes before the second.                                          *)

TotalOrder(R, S) ==
    /\ \A x \in S : <<x, x>> \notin R
    /\ \A x, y \in S : x # y => <<x, y>> \in R \/ <<y, x>> \in R
    /\ \A x, y, z \in S : <<x, y>> \in R /\ <<y, z>> \in R => <<x, z>> \in R

Rank(R, S) == [x \in S |-> Cardinality({y \in S : <<y, x>> \in R}) + 1]

\* A row's rank is one more than the number of rows before it: a row that comes
\* later has a greater rank, so that the ranks are the numbers up to that of
\* the rows.
LEMMA RanksAreDistinct ==
    ASSUME NEW S, IsFiniteSet(S), NEW R, TotalOrder(R, S)
    PROVE  /\ Rank(R, S) \in [S -> 1..Cardinality(S)]
           /\ \A x, y \in S : <<x, y>> \in R => Rank(R, S)[x] < Rank(R, S)[y]
           /\ \A x, y \in S : x # y => Rank(R, S)[x] # Rank(R, S)[y]
<1> DEFINE before(x) == {y \in S : <<y, x>> \in R}
           rank == Rank(R, S)
<1>1. \A x \in S : /\ IsFiniteSet(before(x)) /\ Cardinality(before(x)) \in Nat
                   /\ x \notin before(x) /\ rank[x] = Cardinality(before(x)) + 1
  <2> SUFFICES ASSUME NEW x \in S
               PROVE  /\ IsFiniteSet(before(x)) /\ Cardinality(before(x)) \in Nat
                      /\ x \notin before(x) /\ rank[x] = Cardinality(before(x)) + 1
    OBVIOUS
  <2>1. IsFiniteSet(before(x))
    BY FS_Subset
  <2> QED
    BY <2>1, FS_CardinalityType DEF TotalOrder, Rank
<1>2. ASSUME NEW x \in S PROVE rank[x] \in 1..Cardinality(S)
  <2>1. before(x) \subseteq S \ {x}
    BY <1>1
  <2>2. IsFiniteSet(S \ {x}) /\ Cardinality(S \ {x}) = Cardinality(S) - 1
    BY FS_RemoveElement
  <2> HIDE DEF before
  <2>3. Cardinality(before(x)) <= Cardinality(S \ {x})
    BY <2>1, <2>2, FS_Subset
  <2>4. Cardinality(S) \in Nat
    BY FS_CardinalityType
  <2> QED
    BY <1>1, <2>2, <2>3, <2>4
<1>3. ASSUME NEW x \in S, NEW y \in S, <<x, y>> \in R PROVE rank[x] < rank[y]
  <2>1. before(x) \cup {x} \subseteq before(y)
    BY <1>3 DEF TotalOrder
  <2>2. Cardinality(before(x) \cup {x}) = Cardinality(before(x)) + 1
    BY <1>1, FS_AddElement
  <2>3. Cardinality(before(x) \cup {x}) <= Cardinality(before(y))
    BY <1>1, <2>1, FS_Subset
  <2> HIDE DEF before
  <2> QED
    BY <1>1, <2>2, <2>3
<1>4. ASSUME NEW x \in S, NEW y \in S, x # y PROVE rank[x] # rank[y]
  <2>1. <<x, y>> \in R \/ <<y, x>> \in R
    BY <1>4 DEF TotalOrder
  <2>2. rank[x] < rank[y] \/ rank[y] < rank[x]
    BY <2>1, <1>3
  <2>3. rank[x] \in Nat /\ rank[y] \in Nat
    BY <1>2
  <2> QED
    BY <2>2, <2>3
<1>5. rank \in [S -> 1..Cardinality(S)]
  BY <1>2 DEF Rank
<1> QED
  BY <1>3, <1>4, <1>5

\* The rows of a finite table can be listed in any total order.
LEMMA ListsExist ==
    ASSUME NEW S, IsFiniteSet(S), NEW R, TotalOrder(R, S)
    PROVE  \E seq \in [1..Cardinality(S) -> S] :
              \A i, j \in 1..Cardinality(S) : i < j => <<seq[i], seq[j]>> \in R
<1> DEFINE n == Cardinality(S)
           rank == Rank(R, S)
<1>1. /\ rank \in [S -> 1..n]
      /\ \A x, y \in S : <<x, y>> \in R => rank[x] < rank[y]
      /\ \A x, y \in S : x # y => rank[x] # rank[y]
  BY RanksAreDistinct
<1>2. n \in Nat /\ IsFiniteSet(1..n) /\ Cardinality(1..n) = n
  BY FS_CardinalityType, FS_Interval
<1> HIDE DEF rank
<1>3. rank \in Injection(S, 1..n)
  BY <1>1 DEF Injection, IsInjective
<1>4. rank \in Surjection(S, 1..n)
  BY <1>2, <1>3, FS_Injection
<1>5. \A i \in 1..n : \E x \in S : rank[x] = i
  BY <1>4 DEF Surjection
<1> DEFINE seq == [i \in 1..n |-> CHOOSE x \in S : rank[x] = i]
<1>6. \A i \in 1..n : seq[i] \in S /\ rank[seq[i]] = i
  BY <1>5
<1>7. seq \in [1..n -> S]
  BY <1>6
<1> HIDE DEF seq
<1>8. ASSUME NEW i \in 1..n, NEW j \in 1..n, i < j PROVE <<seq[i], seq[j]>> \in R
  <2>1. seq[i] # seq[j]
    BY <1>6, <1>8, <1>2
  <2>2. <<seq[i], seq[j]>> \in R \/ <<seq[j], seq[i]>> \in R
    BY <2>1, <1>6 DEF TotalOrder
  <2>3. ~ (rank[seq[j]] < rank[seq[i]])
    BY <1>6, <1>8, <1>2
  <2> QED
    BY <2>2, <2>3, <1>1, <1>6
<1> QED
  BY <1>7, <1>8

\* A list in a total order is the table, each row once.
LEMMA ListsAreComplete ==
    ASSUME NEW S, IsFiniteSet(S), NEW R, TotalOrder(R, S),
           NEW seq \in [1..Cardinality(S) -> S],
           \A i, j \in 1..Cardinality(S) : i < j => <<seq[i], seq[j]>> \in R
    PROVE  /\ \A i, j \in 1..Cardinality(S) : i # j => seq[i] # seq[j]
           /\ \A x \in S : \E i \in 1..Cardinality(S) : seq[i] = x
<1> DEFINE n == Cardinality(S)
<1>1. n \in Nat /\ IsFiniteSet(1..n) /\ Cardinality(1..n) = n
  BY FS_CardinalityType, FS_Interval
<1>2. ASSUME NEW i \in 1..n, NEW j \in 1..n, i # j PROVE seq[i] # seq[j]
  <2>1. i < j \/ j < i
    BY <1>1, <1>2
  <2>2. <<seq[i], seq[j]>> \in R \/ <<seq[j], seq[i]>> \in R
    BY <2>1
  <2> QED
    BY <2>2 DEF TotalOrder
<1>3. seq \in Injection(1..n, S)
  BY <1>2 DEF Injection, IsInjective
<1>4. seq \in Surjection(1..n, S)
  BY <1>1, <1>3, FS_Injection
<1> QED
  BY <1>2, <1>4 DEF Surjection

\* Division with its remainder.
LEMMA DivisionIs ==
    ASSUME NEW a \in Nat, NEW d \in Nat \ {0}
    PROVE  /\ a \div d \in Nat
           /\ (a \div d) * d \in Nat
           /\ (a \div d) * d <= a /\ a < (a \div d) * d + d
OBVIOUS

\* Multiplication keeps the order.
LEMMA ProductsGrow ==
    ASSUME NEW a \in Nat, NEW b \in Nat, NEW d \in Nat, a <= b
    PROVE  a * d \in Nat /\ b * d \in Nat /\ a * d <= b * d
OBVIOUS

\* What skip leaves out, the places of a page, and the rows there.
Offset(k, limit) == (k - 1) * limit

\* Each page starts where the one before it ends.
LEMMA OffsetsAre ==
    ASSUME NEW limit \in Nat \ {0}, NEW k \in Nat \ {0}
    PROVE  Offset(k, limit) \in Nat /\ Offset(k + 1, limit) = Offset(k, limit) + limit
<1>1. k - 1 \in Nat /\ (k + 1) - 1 = (k - 1) + 1
  OBVIOUS
<1>2. \A a \in Nat : a * limit \in Nat /\ (a + 1) * limit = a * limit + limit
  OBVIOUS
<1> QED
  BY <1>1, <1>2 DEF Offset

\* A later page starts after the end of an earlier one.
LEMMA OffsetsGrow ==
    ASSUME NEW limit \in Nat \ {0}, NEW j \in Nat \ {0}, NEW k \in Nat \ {0}, j < k
    PROVE  Offset(j, limit) + limit <= Offset(k, limit)
<1>1. j - 1 \in Nat /\ k - 1 \in Nat /\ (j + 1) - 1 \in Nat /\ (j + 1) - 1 <= k - 1
  OBVIOUS
<1>2. Offset(j + 1, limit) <= Offset(k, limit)
  BY <1>1, ProductsGrow DEF Offset
<1> QED
  BY <1>2, OffsetsAre

OnPage(n, k, limit) == {i \in 1..n : Offset(k, limit) < i /\ i <= Offset(k, limit) + limit}

ShownOn(seq, n, k, limit) == {seq[i] : i \in OnPage(n, k, limit)}

\* The number of pages the response announces is that of the pages that start
\* within the list.
LEMMA PagesCount ==
    ASSUME NEW n \in Nat, NEW limit \in Nat \ {0}
    PROVE  /\ PageCount(n, limit) \in Nat
           /\ \A k \in Nat \ {0} : k <= PageCount(n, limit) <=> Offset(k, limit) < n
<1> DEFINE pages == PageCount(n, limit)
<1>1. n + limit - 1 \in Nat
  OBVIOUS
<1>2. /\ pages \in Nat /\ pages * limit \in Nat
      /\ pages * limit <= n + limit - 1 /\ n + limit - 1 < pages * limit + limit
  BY <1>1, DivisionIs DEF PageCount
<1> HIDE DEF pages
<1>3. Offset(pages + 1, limit) = pages * limit
  BY <1>2 DEF Offset
<1>4. ASSUME NEW k \in Nat \ {0}, k <= pages PROVE Offset(k, limit) < n
  <2>1. Offset(k, limit) + limit <= Offset(pages + 1, limit)
    BY <1>2, <1>4, OffsetsGrow
  <2>2. Offset(k, limit) \in Nat
    BY OffsetsAre
  <2> QED
    BY <1>2, <1>3, <2>1, <2>2
<1>5. ASSUME NEW k \in Nat \ {0}, ~(k <= pages) PROVE ~(Offset(k, limit) < n)
  <2>1. k = pages + 1 \/ pages + 1 < k
    BY <1>2, <1>5
  <2>2. pages + 1 < k => Offset(pages + 1, limit) + limit <= Offset(k, limit)
    BY <1>2, OffsetsGrow
  <2>3. Offset(k, limit) \in Nat
    BY OffsetsAre
  <2>4. pages * limit <= Offset(k, limit)
    BY <1>2, <1>3, <2>1, <2>2, <2>3
  <2> QED
    BY <1>2, <2>3, <2>4
<1> QED
  BY <1>2, <1>4, <1>5 DEF pages

\* skip and take cut the rows of a page out of the list.
LEMMA PageIs ==
    ASSUME NEW n \in Nat, NEW S, NEW seq \in [1..n -> S], NEW limit \in Nat \ {0},
           NEW k \in 1..PageCount(n, limit)
    PROVE  Items(Page(seq, k, limit)) = ShownOn(seq, n, k, limit)
<1> DEFINE off == Offset(k, limit)
           last == IF off + limit < Len(seq) THEN off + limit ELSE Len(seq)
           page == SubSeq(seq, off + 1, last)
<1>1. off \in Nat /\ off < n
  <2>1. PageCount(n, limit) \in Nat
    BY PagesCount
  <2>2. k \in Nat \ {0} /\ k <= PageCount(n, limit)
    BY <2>1
  <2> QED
    BY <2>2, PagesCount, OffsetsAre
<1>2. seq \in Seq(S) /\ Len(seq) = n
  BY IsASeq
<1>3. Page(seq, k, limit) = page
  BY DEF Page, Offset
<1> HIDE DEF off
<1>4. last \in Nat /\ off + 1 <= last /\ last <= n /\ last <= off + limit
      /\ (last = n \/ last = off + limit)
  BY <1>1, <1>2
<1> HIDE DEF last
<1>5. \A i \in off + 1 .. last : seq[i] \in S
  BY <1>1, <1>4
<1>6. /\ page \in Seq(S) /\ Len(page) = last - off
      /\ \A j \in 1 .. last - off : page[j] = seq[off + j]
  <2>1. /\ page \in Seq(S)
        /\ Len(page) = IF off + 1 <= last THEN last - (off + 1) + 1 ELSE 0
        /\ \A j \in 1 .. last - (off + 1) + 1 : page[j] = seq[(off + 1) + j - 1]
    <3>1. off + 1 \in Int /\ last \in Int
      BY <1>1, <1>4
    <3> QED
      BY <1>5, <3>1, SubSeqProperties
  <2>2. last - (off + 1) + 1 = last - off
    BY <1>1, <1>4
  <2>3. \A j \in 1 .. last - off : (off + 1) + j - 1 = off + j
    BY <1>1, <1>4
  <2> HIDE DEF page
  <2> QED
    BY <1>4, <2>1, <2>2, <2>3
<1>7. DOMAIN page = 1 .. last - off
  BY <1>6, LenProperties
<1> HIDE DEF page
<1>8. ASSUME NEW x PROVE x \in Items(page) <=> \E i \in OnPage(n, k, limit) : x = seq[i]
  <2>1. ASSUME NEW j \in 1 .. last - off, x = page[j]
        PROVE  \E i \in OnPage(n, k, limit) : x = seq[i]
    <3>1. off + j \in OnPage(n, k, limit)
      BY <1>1, <1>4 DEF OnPage, off
    <3> QED
      BY <1>6, <2>1, <3>1
  <2>2. ASSUME NEW i \in OnPage(n, k, limit), x = seq[i]
        PROVE  \E j \in 1 .. last - off : x = page[j]
    <3>1. i \in Nat /\ off < i /\ i <= off + limit /\ i <= n
      BY <2>2 DEF OnPage, off
    <3>2. i - off \in 1 .. last - off /\ off + (i - off) = i
      BY <1>1, <1>4, <3>1
    <3> QED
      BY <1>6, <2>2, <3>2
  <2> QED
    BY <1>7, <2>1, <2>2 DEF Items
<1> QED
  BY <1>3, <1>8 DEF ShownOn

\* The pages of the list seq are a partition of the rows S.
Partition(S, seq, limit) ==
    LET pages == PageCount(Cardinality(S), limit) IN
    /\ UNION {Items(Page(seq, k, limit)) : k \in 1..pages} = S
    /\ \A j, k \in 1..pages :
         j < k => Items(Page(seq, j, limit)) \cap Items(Page(seq, k, limit)) = {}

\* The pages of a list in which no row comes twice show every row once.
LEMMA PagesShowOnce ==
    ASSUME NEW n \in Nat, NEW S, n = Cardinality(S), NEW seq \in [1..n -> S], NEW limit \in Nat \ {0},
           \A i, j \in 1..n : i # j => seq[i] # seq[j],
           \A x \in S : \E i \in 1..n : seq[i] = x
    PROVE  Partition(S, seq, limit)
<1> DEFINE pages == PageCount(n, limit)
<1>1. ASSUME NEW k \in 1..PageCount(n, limit)
      PROVE  Items(Page(seq, k, limit)) = ShownOn(seq, n, k, limit)
  BY PageIs
<1>2. pages \in Nat /\ \A k \in Nat \ {0} : k <= pages <=> Offset(k, limit) < n
  BY PagesCount
<1>3. \A k \in 1..pages : ShownOn(seq, n, k, limit) \subseteq S
  BY DEF OnPage, ShownOn
<1>4. ASSUME NEW x \in S PROVE \E k \in 1..pages : x \in ShownOn(seq, n, k, limit)
  <2>1. PICK i \in 1..n : seq[i] = x
    OBVIOUS
  <2> DEFINE k == (i - 1) \div limit + 1
  <2>2. i - 1 \in Nat
    OBVIOUS
  <2>3. /\ (i - 1) \div limit \in Nat /\ ((i - 1) \div limit) * limit \in Nat
        /\ ((i - 1) \div limit) * limit <= i - 1
        /\ i - 1 < ((i - 1) \div limit) * limit + limit
    BY <2>2, DivisionIs
  <2>4. k \in Nat \ {0} /\ Offset(k, limit) = ((i - 1) \div limit) * limit
    BY <2>3 DEF Offset
  <2> HIDE DEF k
  <2>5. Offset(k, limit) < i /\ i <= Offset(k, limit) + limit
    BY <2>3, <2>4
  <2>6. k \in 1..pages
    BY <1>2, <2>3, <2>4, <2>5
  <2>7. i \in OnPage(n, k, limit)
    BY <2>5 DEF OnPage
  <2> QED
    BY <2>1, <2>6, <2>7 DEF ShownOn
<1>5. ASSUME NEW j \in 1..pages, NEW k \in 1..pages, j < k
      PROVE  ShownOn(seq, n, j, limit) \cap ShownOn(seq, n, k, limit) = {}
  <2>1. j \in Nat \ {0} /\ k \in Nat \ {0}
    BY <1>2
  <2>2. Offset(j, limit) + limit <= Offset(k, limit)
    BY <1>5, <2>1, OffsetsGrow
  <2>3. Offset(j, limit) \in Nat /\ Offset(k, limit) \in Nat
    BY <2>1, OffsetsAre
  <2>4. \A a \in OnPage(n, j, limit), b \in OnPage(n, k, limit) : a \in 1..n /\ b \in 1..n /\ a # b
    BY <2>2, <2>3 DEF OnPage
  <2> QED
    BY <2>4 DEF ShownOn
<1> HIDE DEF pages
<1>6. UNION {Items(Page(seq, k, limit)) : k \in 1..pages} = S
  BY <1>1, <1>3, <1>4 DEF pages
<1>7. \A j, k \in 1..pages :
         j < k => Items(Page(seq, j, limit)) \cap Items(Page(seq, k, limit)) = {}
  BY <1>1, <1>5 DEF pages
<1> QED
  BY <1>6, <1>7 DEF pages, Partition

\* The pages of a table in a total order show every row once.
LEMMA PagesOfAnOrder ==
    ASSUME NEW S, IsFiniteSet(S), NEW R, TotalOrder(R, S), NEW limit \in Nat \ {0}, NEW seq,
           seq = CHOOSE list \in [1..Cardinality(S) -> S] :
                    \A i, j \in 1..Cardinality(S) : i < j => <<list[i], list[j]>> \in R
    PROVE  Partition(S, seq, limit)
<1>1. /\ seq \in [1..Cardinality(S) -> S]
      /\ \A i, j \in 1..Cardinality(S) : i < j => <<seq[i], seq[j]>> \in R
  BY ListsExist
<1>2. /\ \A i, j \in 1..Cardinality(S) : i # j => seq[i] # seq[j]
      /\ \A x \in S : \E i \in 1..Cardinality(S) : seq[i] = x
  BY <1>1, ListsAreComplete
<1>3. Cardinality(S) \in Nat
  BY FS_CardinalityType
<1> QED
  BY <1>1, <1>2, <1>3, PagesShowOnce

\* Products are listed by price, then by id.
LEMMA ProductsPage ==
    ASSUME ProductTable(products), IsFiniteSet(DOMAIN products)
    PROVE  PagesPartition
<1> SUFFICES ASSUME NEW q \in Queries, NEW order \in {"ASC", "DESC"}, NEW limit \in PageLimits
             PROVE  ShowsOnce(Matches(q), LAMBDA n : FindAll(q, order, n, limit), TotalPages(q, limit))
  BY DEF PagesPartition
<1> DEFINE S == Matches(q)
           R == {xy \in S \X S : Precedes(xy[1], xy[2], order)}
           seq == Sorted(q, order)
<1>1. S \subseteq DOMAIN products /\ IsFiniteSet(S)
  BY FS_Subset DEF Matches
<1>2. \A x \in S : x \in Nat /\ products[x].price \in Nat
  BY <1>1, ProductsAssumption DEF ProductTable, ProductRow
<1> HIDE DEF S
<1>3. TotalOrder(R, S)
  BY <1>2 DEF TotalOrder, Precedes
<1>4. seq = CHOOSE list \in [1..Cardinality(S) -> S] :
               \A i, j \in 1..Cardinality(S) : i < j => <<list[i], list[j]>> \in R
  BY DEF Sorted, InOrder, S
<1> HIDE DEF R, seq
<1>5. limit \in Nat \ {0}
  BY PagesAssumption
<1>6. Partition(S, seq, limit)
  BY <1>1, <1>3, <1>4, <1>5, PagesOfAnOrder
<1> QED
  BY <1>6 DEF Partition, ShowsOnce, FindAll, TotalPages, S, seq

\* The instance counts as this module does.
LEMMA TreeCounts ==
    /\ \A S : CategoryTree!IsFiniteSet(S) <=> IsFiniteSet(S)
    /\ \A S : CategoryTree!Cardinality(S) = Cardinality(S)
BY DEF CategoryTree!IsFiniteSet, IsFiniteSet, CategoryTree!Cardinality, Cardinality

\* Categories are listed by name, then by id.
LEMMA CategoriesPage ==
    ASSUME CategoryTable(rows), IsFiniteSet(DOMAIN rows)
    PROVE  CategoryTree!CategoryPages
<1> SUFFICES ASSUME NEW q \in Listings, NEW limit \in PageLimits
             PROVE  CategoryTree!ShowsOnce(CategoryTree!Listed(q),
                                  LAMBDA n : CategoryTree!FindAllCategories(q, n, limit),
                                  CategoryTree!PageCount(Cardinality(CategoryTree!Listed(q)), limit))
  BY TreeCounts DEF CategoryTree!CategoryPages
<1> DEFINE S == CategoryTree!Listed(q)
           R == {xy \in S \X S : CategoryTree!ListedBefore(xy[1], xy[2])}
           seq == CategoryTree!InOrder(S, R)
<1>1. S \subseteq DOMAIN rows /\ IsFiniteSet(S)
  BY FS_Subset DEF CategoryTree!Listed
<1>2. \A x \in S : x \in Nat /\ rows[x].name \in Nat
  BY <1>1, TreeAssumption DEF CategoryTree!CatalogAssumption, CategoryTable, CategoryRow
<1> HIDE DEF S
<1>3. TotalOrder(R, S)
  BY <1>2 DEF TotalOrder, CategoryTree!ListedBefore
<1>4. seq = CHOOSE list \in [1..Cardinality(S) -> S] :
               \A i, j \in 1..Cardinality(S) : i < j => <<list[i], list[j]>> \in R
  BY TreeCounts DEF CategoryTree!InOrder
<1> HIDE DEF R, seq
<1>5. limit \in Nat \ {0}
  BY PagesAssumption
<1>6. Partition(S, seq, limit)
  BY <1>1, <1>3, <1>4, <1>5, PagesOfAnOrder
<1>7. /\ \A k : CategoryTree!FindAllCategories(q, k, limit) = Page(seq, k, limit)
      /\ \A list : CategoryTree!Items(list) = Items(list)
      /\ CategoryTree!PageCount(Cardinality(S), limit) = PageCount(Cardinality(S), limit)
  BY DEF CategoryTree!FindAllCategories, CategoryTree!Items, Items, CategoryTree!PageCount,
         PageCount, CategoryTree!Page, Page, seq, R, S
<1> QED
  BY <1>6, <1>7 DEF Partition, CategoryTree!ShowsOnce, S

\* A table gains at most one row in a step.
LEMMA ProductsStayFinite ==
    [PNext]_productVars /\ IsFiniteSet(DOMAIN products) => IsFiniteSet((DOMAIN products)')
<1> SUFFICES ASSUME PNext \/ UNCHANGED productVars, IsFiniteSet(DOMAIN products)
             PROVE  IsFiniteSet((DOMAIN products)')
  OBVIOUS
<1>1. DOMAIN products' \subseteq DOMAIN products \/ \E p : DOMAIN products' = DOMAIN products \cup {p}
  BY DEF PNext, productVars, PRoutes, PostProduct, PatchProduct, DeleteProduct,
         PatchProductActivate, PatchProductDeactivate, PBegin, PStep, CheckSku, InsertProduct,
         LoadProduct, ValidatePrices, WriteProduct, PAnswer, PGo, PCommit
<1> QED
  BY <1>1, FS_Subset, FS_AddElement

\* The same of the table of categories.
LEMMA CategoriesStayFinite ==
    ASSUME NEW c \in Clients, CategoryTree!Routes(c) \/ CategoryTree!Step(c),
           IsFiniteSet(DOMAIN rows)
    PROVE  IsFiniteSet((DOMAIN rows)')
<1> DEFINE Grows == DOMAIN rows' \subseteq DOMAIN rows \/ \E k : DOMAIN rows' = DOMAIN rows \cup {k}
<1>1. CategoryTree!Routes(c) => Grows
  BY DEF CategoryTree!Routes, CategoryTree!PostCategory, CategoryTree!PutCategory,
         CategoryTree!DeleteCategory, CategoryTree!PatchActivate, CategoryTree!PatchDeactivate,
         CategoryTree!GetCategory, CategoryTree!GetPath, CategoryTree!GetDescendants,
         CategoryTree!Begin
<1>2. CategoryTree!Step(c) => Grows
  BY DEF CategoryTree!Step, CategoryTree!CheckSlug, CategoryTree!CheckParent,
         CategoryTree!CheckName, CategoryTree!SaveNew, CategoryTree!Load,
         CategoryTree!CheckHierarchy, CategoryTree!Descend, CategoryTree!Checked,
         CategoryTree!SaveChanged, CategoryTree!CountChildren, CategoryTree!CountProducts,
         CategoryTree!SoftDelete, CategoryTree!UpdateStatus, CategoryTree!WalkUp,
         CategoryTree!Answer, CategoryTree!Go, CategoryTree!Commit
<1> QED
  BY <1>1, <1>2, FS_Subset, FS_AddElement

\* The invariant of both tables, with finitely many rows in each.
TablesInv == ShelvesInv /\ IsFiniteSet(DOMAIN products) /\ IsFiniteSet(DOMAIN rows)

\* However many requests write, and race, meanwhile: in every table they can
\* leave, the pages of a listing show each row that matches on one page and on
\* no other, because the order ends with the id, and the last page announced
\* is the last that has rows.
THEOREM ListingsAreWhole == CatalogRuns => []ListingsPage
<1> DEFINE Requests == \/ CategoryTree!Next /\ UNCHANGED productVars
                       \/ PNext /\ UNCHANGED <<rows, req, raced>>
<1>1. CategoryTree!Init /\ PInit => TablesInv
  <2> SUFFICES ASSUME CategoryTree!Init, PInit PROVE TablesInv
    OBVIOUS
  <2>1. IsFiniteSet(DOMAIN products)
    BY ProductsAssumption DEF PInit
  <2>2. IsFiniteSet(DOMAIN rows)
    BY TreeAssumption, TreeCounts DEF CategoryTree!Init, CategoryTree!CatalogAssumption
  <2> QED
    BY <2>1, <2>2, ShelvesInitially DEF TablesInv
<1>2. TablesInv /\ [Requests]_<<rows, req, raced, productVars>> => TablesInv'
  <2> SUFFICES ASSUME TablesInv, [Requests]_<<rows, req, raced, productVars>> PROVE TablesInv'
    OBVIOUS
  <2>1. CASE CategoryTree!Next /\ UNCHANGED productVars
    <3>1. ShelvesInv'
      BY <2>1, TreeKeepsShelves DEF TablesInv
    <3>2. IsFiniteSet((DOMAIN rows)')
      BY <2>1, CategoriesStayFinite DEF TablesInv, CategoryTree!Next
    <3>3. IsFiniteSet((DOMAIN products)')
      BY <2>1 DEF TablesInv, productVars
    <3> QED
      BY <3>1, <3>2, <3>3 DEF TablesInv
  <2>2. CASE [PNext]_productVars /\ UNCHANGED <<rows, req, raced>>
    <3>1. ShelvesInv'
      BY <2>2, ProductsKeepShelves DEF TablesInv
    <3>2. IsFiniteSet((DOMAIN products)')
      BY <2>2, ProductsStayFinite DEF TablesInv
    <3>3. IsFiniteSet((DOMAIN rows)')
      BY <2>2 DEF TablesInv
    <3> QED
      BY <3>1, <3>2, <3>3 DEF TablesInv
  <2> QED
    BY <2>1, <2>2
<1>3. TablesInv => ListingsPage
  BY ProductsPage, CategoriesPage
     DEF TablesInv, ShelvesInv, ProductsInv, ProductsTypeOK, TreeInv, TreeTypeOK, ListingsPage
<1> QED
  BY <1>1, <1>2, <1>3, PTL DEF CatalogRuns

-----------------------------------------------------------------------------
\* The bounded runs are among these, so that what is proved of any number of
\* requests holds in them.
THEOREM BoundedRunsAreRuns == CatalogSpec => CatalogRuns
<1> DEFINE Runs == \/ CategoryTree!Next /\ UNCHANGED productVars
                   \/ PNext /\ UNCHANGED <<rows, req, raced>>
<1>1. ASSUME CatalogNext PROVE Runs
  <2>1. ASSUME NEW c \in Clients, TreeRequest(c) PROVE CategoryTree!Routes(c) /\ UNCHANGED productVars
    BY <2>1 DEF TreeRequest, ArriveTree, Arrive, CategoryTree!Routes
  <2>2. ASSUME NEW c \in Clients, TreeStep(c) PROVE CategoryTree!Step(c) /\ UNCHANGED productVars
    BY <2>2 DEF TreeStep, Tree, CategoryTree!Step
  <2>3. ASSUME NEW c \in ProductClients, ShopRequest(c)
        PROVE  PRoutes(c) /\ UNCHANGED <<rows, req, raced>>
    BY <2>3 DEF ShopRequest, ArriveShop, Arrive, PRoutes
  <2>4. ASSUME NEW c \in ProductClients, ShopStep(c)
        PROVE  PStep(c) /\ UNCHANGED <<rows, req, raced>>
    BY <2>4 DEF ShopStep, Shop, PStep
  <2> QED
    BY <1>1, <2>1, <2>2, <2>3, <2>4 DEF CatalogNext, CategoryTree!Next, PNext
<1>2. UNCHANGED catalogVars => UNCHANGED <<rows, req, raced, productVars>>
  BY DEF catalogVars, productVars
<1>3. [CatalogNext]_catalogVars => [Runs]_<<rows, req, raced, productVars>>
  BY <1>1, <1>2
<1>4. CatalogInit => CategoryTree!Init /\ PInit
  BY DEF CatalogInit
<1> QED
  BY <1>3, <1>4, PTL DEF CatalogSpec, CatalogRuns
=============================================================================
