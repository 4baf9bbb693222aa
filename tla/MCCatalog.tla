---- MODULE MCCatalog ----
(***************************************************************************)
(* The catalogue: the category tree and the products over one database.    *)
(* remove of a category counts the products that refer to it, which is     *)
(* what the tree sees of the products table.  MaxRequests requests arrive, *)
(* over any of the seeded tables, and none after a race: what one race     *)
(* does to the tables is reached, what a second one adds to a broken table *)
(* is not.                                                                 *)
(***************************************************************************)
EXTENDS Products, TLC

CONSTANTS Categories, Names, Slugs, SlugOf, Clients, Admins, Root, Unset,
          CreateDtos, UpdateDtos, Listings, SeedRows, MaxRequests

VARIABLES rows, req, raced, arrived

CategoryTree == INSTANCE CategoryTree
    WITH stocked <- {products[p].category : p \in PLive} \ {Null}

catalogVars == <<rows, req, raced, products, preq, praced, arrived>>

Tree(A) == A /\ UNCHANGED <<productVars, arrived>>
Shop(A) == A /\ UNCHANGED <<rows, req, raced, arrived>>

Arrive(A) ==
    /\ arrived < MaxRequests /\ ~raced /\ ~praced
    /\ arrived' = arrived + 1
    /\ A
ArriveTree(A) == Arrive(A) /\ UNCHANGED productVars
ArriveShop(A) == Arrive(A) /\ UNCHANGED <<rows, req, raced>>

\* The clients are interchangeable: the free one with the least number calls.
FirstFree(c) == \A e \in 1..(c - 1) : CategoryTree!Busy(e)
FirstFreeShop(c) == \A e \in 1..(c - 1) : Pending(e)

CatalogInit == CategoryTree!Init /\ PInit /\ arrived = 0

TreeRequest(c) ==
    \/ ArriveTree(CategoryTree!PostCategory(c))
    \/ ArriveTree(CategoryTree!PutCategory(c))
    \/ ArriveTree(CategoryTree!DeleteCategory(c))
    \/ ArriveTree(CategoryTree!PatchActivate(c))
    \/ ArriveTree(CategoryTree!PatchDeactivate(c))
    \/ ArriveTree(CategoryTree!GetCategory(c))
    \/ ArriveTree(CategoryTree!GetPath(c))
    \/ ArriveTree(CategoryTree!GetDescendants(c))

TreeStep(c) ==
    \/ Tree(CategoryTree!CheckSlug(c))
    \/ Tree(CategoryTree!CheckParent(c))
    \/ Tree(CategoryTree!CheckName(c))
    \/ Tree(CategoryTree!SaveNew(c))
    \/ Tree(CategoryTree!Load(c))
    \/ Tree(CategoryTree!CheckHierarchy(c))
    \/ Tree(CategoryTree!Descend(c))
    \/ Tree(CategoryTree!Checked(c))
    \/ Tree(CategoryTree!SaveChanged(c))
    \/ Tree(CategoryTree!CountChildren(c))
    \/ Tree(CategoryTree!CountProducts(c))
    \/ Tree(CategoryTree!SoftDelete(c))
    \/ Tree(CategoryTree!UpdateStatus(c))
    \/ Tree(CategoryTree!WalkUp(c))

ShopRequest(c) ==
    \/ ArriveShop(PostProduct(c))
    \/ ArriveShop(PatchProduct(c))
    \/ ArriveShop(DeleteProduct(c))
    \/ ArriveShop(PatchProductActivate(c))
    \/ ArriveShop(PatchProductDeactivate(c))

ShopStep(c) ==
    \/ Shop(CheckSku(c))
    \/ Shop(InsertProduct(c))
    \/ Shop(LoadProduct(c))
    \/ Shop(ValidatePrices(c))
    \/ Shop(WriteProduct(c))

CatalogNext ==
    \/ \E c \in {e \in Clients : FirstFree(e)} : TreeRequest(c)
    \/ \E c \in Clients : TreeStep(c)
    \/ \E c \in {e \in ProductClients : FirstFreeShop(e)} : ShopRequest(c)
    \/ \E c \in ProductClients : ShopStep(c)

\* Every await is answered by the database: a request in flight goes on.
CatalogSpec ==
    /\ CatalogInit /\ [][CatalogNext]_catalogVars
    /\ \A c \in Clients : WF_catalogVars(TreeStep(c))

\* The same without the bounds of the run: any requests, at any time.
CatalogRuns ==
    /\ CategoryTree!Init /\ PInit
    /\ [][\/ CategoryTree!Next /\ UNCHANGED productVars
          \/ PNext /\ UNCHANGED <<rows, req, raced>>]_<<rows, req, raced, productVars>>

ASSUME TreeAssumption == CategoryTree!CatalogAssumption /\ CategoryTree!SeedsAreTrees

\* The seeder of products looks its categories up among those it has saved.
ASSUME ShelvesAssumption ==
    \A shop \in SeedProducts, table \in SeedRows : \A p \in DOMAIN shop :
       shop[p].deleted \/ shop[p].category = Null
         \/ (shop[p].category \in DOMAIN table /\ ~table[shop[p].category].deleted)

\* As long as requests on categories do not overlap, the tree shows every
\* category and siblings have different names.
TreeIsSound == CategoryTree!TreeIsComplete /\ CategoryTree!SiblingNamesDiffer

\* The listings of both services page without loss and without repetition.
ListingsPage == CategoryTree!CategoryPages /\ PagesPartition

\* A request on categories ends, unless the tree has a cycle.
RequestsEnd == CategoryTree!RequestsEnd

\* A product that is not deleted never refers to a deleted category, however
\* the requests of the two services interleave: remove counts the products
\* after every other check, and no request gives a product a category or
\* brings a deleted product back.
ShelvesAreLive ==
    \A p \in PLive : products[p].category # Null =>
        products[p].category \in CategoryTree!Live

-----------------------------------------------------------------------------
CONSTANTS s1, s2, s3

\* Both names give the same slug.
mcSlugOf == [n \in Names |-> s1]

None == [name |-> Unset, slug |-> Unset, parent |-> Unset]

mcCreateDtos == {[name |-> 1, slug |-> Unset, parent |-> Root],
                 [name |-> 2, slug |-> s3, parent |-> 1]}

mcUpdateDtos == {[None EXCEPT !.parent = p] : p \in Categories \cup {Root}}
                  \cup {[None EXCEPT !.name = 1], [None EXCEPT !.slug = s3]}

Category(name, slug, parent, deleted) ==
    [name |-> name, slug |-> slug, parent |-> parent, active |-> ~deleted, deleted |-> deleted]

mcSeedRows ==
    {<<Category(1, s1, Root, FALSE), Category(2, s2, Root, FALSE)>>,
     <<Category(1, s1, Root, FALSE), Category(2, s2, 1, FALSE), Category(2, s3, 1, TRUE)>>,
     <<Category(1, s1, Root, FALSE), Category(2, s2, 1, FALSE), Category(2, s3, 2, FALSE)>>}

mcCreateProductDtos == {[sku |-> "A", price |-> 1, compareAt |-> 2],
                        [sku |-> "B", price |-> 2, compareAt |-> Absent]}

mcUpdateProductDtos == {[price |-> 2, compareAt |-> Absent], [price |-> Absent, compareAt |-> 2],
                        [price |-> 3, compareAt |-> Null]}

mcSeedProducts == {1 :> [sku |-> "A", price |-> 1, compareAt |-> 3, active |-> TRUE,
                         deleted |-> FALSE, category |-> 1]
                     @@ 2 :> [sku |-> "C", price |-> 1, compareAt |-> Null, active |-> TRUE,
                              deleted |-> FALSE, category |-> Null]}

mcQueries == {[status |-> "all", onSale |-> Absent, minPrice |-> Absent, maxPrice |-> Absent,
               includeDeleted |-> TRUE],
              [status |-> "active", onSale |-> TRUE, minPrice |-> 1, maxPrice |-> 2,
               includeDeleted |-> FALSE],
              [status |-> "inactive", onSale |-> FALSE, minPrice |-> Absent, maxPrice |-> 3,
               includeDeleted |-> FALSE]}

mcListings == {[parent |-> Unset, active |-> Unset, includeInactive |-> TRUE, includeDeleted |-> TRUE],
               [parent |-> 1, active |-> Unset, includeInactive |-> FALSE, includeDeleted |-> FALSE],
               [parent |-> Root, active |-> FALSE, includeInactive |-> FALSE, includeDeleted |-> FALSE]}
====
