---- MODULE CategoryTree ----
(***************************************************************************)
(* The category tree of the catalogue (categories.service.ts and its       *)
(* controller).  Every request is a process whose steps are the awaits of  *)
(* the service: between two of them the steps of other requests happen.    *)
(* Nothing is locked and no transaction spans two awaits, so a check made  *)
(* by one await may be stale when a later await writes.                    *)
(***************************************************************************)
EXTENDS Naturals, FiniteSets, Sequences, Paging

CONSTANTS
    Categories,   \* ids the database may hand out, as numbers in the order of the index
    Names, Slugs, \* names, as numbers in the order of the index, and slugs
    SlugOf,       \* generateSlug: several names may share a slug
    Clients,      \* callers, one request at a time each
    Admins,       \* the callers whose token carries the ADMIN role
    Root,         \* the null parentId
    Unset,        \* a field the request body leaves out
    CreateDtos, UpdateDtos,  \* the bodies the callers send
    Listings,     \* the listings the callers ask for
    SeedRows      \* the categories table when the service starts

TreeDepth == 10

Row == [name: Names, slug: Slugs, parent: Categories \cup {Root},
        active: BOOLEAN, deleted: BOOLEAN]

Dto == [name: Names \cup {Unset}, slug: Slugs \cup {Unset},
        parent: Categories \cup {Root, Unset}]

\* applyFilters of findAll: a parent of Root asks for the rows without one.
Listing == [parent: Categories \cup {Root, Unset}, active: BOOLEAN \cup {Unset},
            includeInactive: BOOLEAN, includeDeleted: BOOLEAN]

CatalogAssumption ==
    /\ Categories \subseteq Nat /\ Names \subseteq Nat
    /\ Root \notin Categories
    /\ Unset \notin Categories \cup Names \cup Slugs \cup {Root}
    /\ Listings \subseteq Listing
    /\ SlugOf \in [Names -> Slugs]
    /\ Admins \subseteq Clients
    /\ CreateDtos \subseteq {d \in Dto : d.name # Unset /\ d.parent # Unset}
    /\ UpdateDtos \subseteq Dto
    /\ \A table \in SeedRows :
         /\ DOMAIN table \subseteq Categories /\ IsFiniteSet(DOMAIN table)
         /\ table \in [DOMAIN table -> Row]

\* A table to start from: the seeder's rows have no parent, and what requests
\* that did not overlap made of them since is a tree with different siblings.
SeedsAreTrees ==
    \A table \in SeedRows :
       LET live == {k \in DOMAIN table : ~table[k].deleted} IN
       /\ \E depth \in [live -> 0..TreeDepth] : \A k \in live :
             \/ table[k].parent = Root
             \/ table[k].parent \in live /\ depth[table[k].parent] < depth[k]
       /\ \A j, k \in live :
             (j # k /\ table[j].parent = table[k].parent /\ table[j].parent # Root)
                 => table[j].name # table[k].name

VARIABLES
    rows,     \* the categories table, a function on the ids in use
    req,      \* the request each client has in flight
    raced,    \* history: a write relied on checks older than another write
    stocked   \* categories that a product row not deleted refers to

treeVars == <<rows, req, raced>>

NoDto == [name |-> Unset, slug |-> Unset, parent |-> Unset]
NoRow == [name |-> Unset]
Idle  == [op |-> "none", pc |-> "idle", id |-> Root, dto |-> NoDto, row |-> NoRow,
          at |-> {}, seen |-> {}, stale |-> FALSE]

Busy(c) == req[c].pc # "idle"
Creating == {c \in Clients : req[c].op = "create"}

-----------------------------------------------------------------------------
\* The queries.

Live == {k \in DOMAIN rows : ~rows[k].deleted}

\* findById: deleted rows never, inactive ones on demand.
Found(k, includeInactive) == k \in Live /\ (includeInactive \/ rows[k].active)

\* One level of findDescendants.
ChildrenOf(parents) == {k \in Live : rows[k].parent \in parents}

SlugTaken(slug, exclude) == \E k \in Live \ {exclude} : rows[k].slug = slug

NameTaken(name, parent, exclude) ==
    \E k \in Live \ {exclude} : rows[k].name = name /\ rows[k].parent = parent

\* UQ_categories_slug: the unique index also holds the deleted rows.
SlugIndexRejects(slug, self) == \E k \in DOMAIN rows \ {self} : rows[k].slug = slug

\* buildTreeStructure: the nodes of the tree that buildCategoryTree returns,
\* level by level from the rows without a parent, at most ten levels deep.
TreeNodes(includeInactive) ==
    LET shown == {k \in Live : includeInactive \/ rows[k].active}
        Under(parents) == {k \in shown : rows[k].parent \in parents}
        level[d \in 0..TreeDepth] == Under(IF d = 0 THEN {Root} ELSE level[d - 1])
    IN  UNION {level[d] : d \in 0..TreeDepth}

\* findAll: includeInactive wins over the isActive asked for, and without
\* both only the active rows are shown.
Listed(q) ==
    {k \in DOMAIN rows :
       /\ q.includeDeleted \/ ~rows[k].deleted
       /\ q.parent = Unset \/ rows[k].parent = q.parent
       /\ q.includeInactive \/ rows[k].active = (IF q.active = Unset THEN TRUE ELSE q.active)}

\* applySorting: the name, then the id.
ListedBefore(j, k) ==
    \/ rows[j].name < rows[k].name
    \/ rows[j].name = rows[k].name /\ j < k

FindAllCategories(q, page, limit) ==
    LET order == {jk \in Listed(q) \X Listed(q) : ListedBefore(jk[1], jk[2])}
    IN  Page(InOrder(Listed(q), order), page, limit)

-----------------------------------------------------------------------------
\* How a request moves on.

Go(c, pc) == req' = [req EXCEPT ![c].pc = pc] /\ UNCHANGED <<rows, raced>>

\* The response, or the exception that becomes one.
Answer(c) == req' = [req EXCEPT ![c] = Idle] /\ UNCHANGED <<rows, raced>>

\* A write: the checks of every other request in flight are now old.
Commit(c, table, next) ==
    /\ rows' = table
    /\ raced' = (raced \/ req[c].stale)
    /\ req' = [d \in Clients |->
                 IF d = c THEN next
                 ELSE IF Busy(d) THEN [req[d] EXCEPT !.stale = TRUE] ELSE req[d]]

\* After its write a handler reads the row back with its ancestors.
ReadBack(c, k) == [Idle EXCEPT !.op = "read", !.pc = "walk", !.at = {k}]

Begin(c, op, k, dto, pc) ==
    /\ ~Busy(c)
    /\ req' = [req EXCEPT ![c] =
                 [Idle EXCEPT !.op = op, !.id = k, !.dto = dto, !.pc = pc,
                              !.at = IF pc \in {"walk", "descend"} THEN {k} ELSE {}]]
    /\ UNCHANGED <<rows, raced>>

-----------------------------------------------------------------------------
\* The routes.

PostCategory(c) ==
    /\ c \in Admins
    /\ Cardinality(Categories \ DOMAIN rows) > Cardinality(Creating)
    /\ \E d \in CreateDtos :
         Begin(c, "create", Root,
               [d EXCEPT !.slug = IF @ = Unset THEN SlugOf[d.name] ELSE @], "slug")

PutCategory(c) ==
    c \in Admins /\ \E k \in Categories, d \in UpdateDtos : Begin(c, "update", k, d, "load")

DeleteCategory(c) ==
    c \in Admins /\ \E k \in Categories : Begin(c, "remove", k, NoDto, "load")

PatchActivate(c) ==
    c \in Admins /\ \E k \in Categories : Begin(c, "activate", k, NoDto, "load")

PatchDeactivate(c) ==
    c \in Admins /\ \E k \in Categories : Begin(c, "deactivate", k, NoDto, "load")

\* findOne and findBySlug: the row, then its ancestors one by one.
GetCategory(c) == \E k \in Live : Begin(c, "read", k, NoDto, "walk")

GetPath(c) == \E k \in Categories : Begin(c, "path", k, NoDto, "walk")

GetDescendants(c) ==
    \E k \in Categories : Found(k, FALSE) /\ Begin(c, "descendants", k, NoDto, "descend")

-----------------------------------------------------------------------------
\* The awaits of create and update.

AfterSlug(c) ==
    LET r == req[c] IN
    IF r.op = "create" THEN (IF r.dto.parent # Root THEN "parent" ELSE "name")
    ELSE IF r.dto.name # Unset \/ r.dto.parent \in Categories THEN "name" ELSE "save"

AfterHierarchy(c) ==
    LET r == req[c] IN
    IF r.dto.slug # Unset /\ r.dto.slug # r.row.slug THEN "slug" ELSE AfterSlug(c)

CheckSlug(c) ==
    /\ req[c].pc = "slug"
    /\ IF SlugTaken(req[c].dto.slug, req[c].id) THEN Answer(c) ELSE Go(c, AfterSlug(c))

CheckParent(c) ==
    /\ req[c].pc = "parent"
    /\ IF req[c].dto.parent \in Live THEN Go(c, "name") ELSE Answer(c)

CheckName(c) ==
    LET r      == req[c]
        name   == IF r.dto.name # Unset THEN r.dto.name ELSE r.row.name
        parent == IF r.dto.parent # Unset THEN r.dto.parent ELSE r.row.parent
    IN  /\ r.pc = "name"
        /\ IF NameTaken(name, parent, r.id) THEN Answer(c) ELSE Go(c, "save")

SaveNew(c) ==
    LET d == req[c].dto
        row == [name |-> d.name, slug |-> d.slug, parent |-> d.parent,
                active |-> TRUE, deleted |-> FALSE]
    IN  /\ req[c].pc = "save" /\ req[c].op = "create"
        /\ IF SlugIndexRejects(d.slug, Root) THEN Answer(c)
           ELSE \E k \in Categories \ DOMAIN rows :
                  Commit(c, [j \in DOMAIN rows \cup {k} |-> IF j = k THEN row ELSE rows[j]],
                         ReadBack(c, k))

\* The first await of update, remove and updateStatus.
Load(c) ==
    LET r == req[c] IN
    /\ r.pc = "load"
    /\ IF ~Found(r.id, TRUE) THEN Answer(c)
       ELSE /\ req' = [req EXCEPT
                 ![c].row = IF r.op = "update" THEN rows[r.id] ELSE NoRow,
                 ![c].pc  = CASE r.op = "remove" -> "children"
                              [] r.op = "update" -> IF r.dto.parent \in Categories
                                                    THEN "hierarchy" ELSE "checked"
                              [] OTHER -> "status"]
            /\ UNCHANGED <<rows, raced>>

CheckHierarchy_selfOnly(c) ==
    LET r == req[c] IN
    /\ r.pc = "hierarchy"
    /\ IF r.dto.parent # r.id /\ Found(r.dto.parent, TRUE) THEN Go(c, "checked") ELSE Answer(c)

\* validateHierarchy.  The child must be active: getDescendants looks it up
\* without includeInactive.
CheckHierarchy(c) ==
    LET r == req[c] IN
    /\ r.pc = "hierarchy"
    /\ IF r.dto.parent # r.id /\ Found(r.dto.parent, TRUE) /\ Found(r.id, FALSE)
       THEN /\ req' = [req EXCEPT ![c].pc = "descend", ![c].at = {r.id}]
            /\ UNCHANGED <<rows, raced>>
       ELSE Answer(c)

Descend_fromTheTop(c) ==
    LET r == req[c]
        below == ChildrenOf({r.id})
    IN  /\ r.pc = "descend"
        /\ IF below # {}
           THEN /\ req' = [req EXCEPT ![c].at = below,
                             ![c].seen = IF r.op = "update" THEN @ \cup below ELSE @]
                /\ UNCHANGED <<rows, raced>>
           ELSE IF r.op = "descendants" \/ r.dto.parent \in r.seen THEN Answer(c)
           ELSE /\ req' = [req EXCEPT ![c].pc = "checked", ![c].at = {}, ![c].seen = {}]
                /\ UNCHANGED <<rows, raced>>

\* findDescendants: one query per level, no level is remembered as visited.
Descend(c) ==
    LET r == req[c]
        below == ChildrenOf(r.at)
    IN  /\ r.pc = "descend"
        /\ IF below # {}
           THEN /\ req' = [req EXCEPT ![c].at = below,
                             ![c].seen = IF r.op = "update" THEN @ \cup below ELSE @]
                /\ UNCHANGED <<rows, raced>>
           ELSE IF r.op = "descendants" \/ r.dto.parent \in r.seen THEN Answer(c)
           ELSE /\ req' = [req EXCEPT ![c].pc = "checked", ![c].at = {}, ![c].seen = {}]
                /\ UNCHANGED <<rows, raced>>

\* The branches between the awaits of update.
Checked(c) == req[c].pc = "checked" /\ Go(c, AfterHierarchy(c))

\* merge and save: every column of the row read at the start is written back,
\* deletedAt and isActive too.
SaveChanged(c) ==
    LET r == req[c]
        Merged == [r.row EXCEPT
                     !.name   = IF r.dto.name # Unset THEN r.dto.name ELSE @,
                     !.slug   = IF r.dto.slug # Unset THEN r.dto.slug ELSE @,
                     !.parent = IF r.dto.parent # Unset THEN r.dto.parent ELSE @]
    IN  /\ r.pc = "save" /\ r.op = "update"
        /\ IF SlugIndexRejects(Merged.slug, r.id) THEN Answer(c)
           ELSE Commit(c, [rows EXCEPT ![r.id] = Merged], ReadBack(c, r.id))

-----------------------------------------------------------------------------
\* The awaits of remove, of the status routes and of the reads.

CountChildren(c) ==
    /\ req[c].pc = "children"
    /\ IF ChildrenOf({req[c].id}) # {} THEN Answer(c) ELSE Go(c, "products")

CountProducts_ignored(c) == req[c].pc = "products" /\ Go(c, "delete")

CountProducts(c) ==
    /\ req[c].pc = "products"
    /\ IF req[c].id \in stocked THEN Answer(c) ELSE Go(c, "delete")

SoftDelete(c) ==
    /\ req[c].pc = "delete"
    /\ Commit(c, [rows EXCEPT ![req[c].id].deleted = TRUE], Idle)

UpdateStatus(c) ==
    LET r == req[c] IN
    /\ r.pc = "status"
    /\ Commit(c, [rows EXCEPT ![r.id].active = (r.op = "activate")], ReadBack(c, r.id))

\* getCategoryPath and loadAncestorsRecursively: up to a row without a parent.
\* The path stops at an inactive ancestor, the others see it.
WalkUp(c) ==
    LET r == req[c]
        k == CHOOSE x \in r.at : TRUE
    IN  /\ r.pc = "walk"
        /\ IF ~Found(k, r.op # "path") \/ rows[k].parent = Root THEN Answer(c)
           ELSE req' = [req EXCEPT ![c].at = {rows[k].parent}] /\ UNCHANGED <<rows, raced>>

-----------------------------------------------------------------------------
Init ==
    /\ rows \in SeedRows
    /\ req = [c \in Clients |-> Idle]
    /\ raced = FALSE

Step(c) ==
    \/ CheckSlug(c) \/ CheckParent(c) \/ CheckName(c) \/ SaveNew(c)
    \/ Load(c) \/ CheckHierarchy(c) \/ Descend(c) \/ Checked(c) \/ SaveChanged(c)
    \/ CountChildren(c) \/ CountProducts(c) \/ SoftDelete(c)
    \/ UpdateStatus(c) \/ WalkUp(c)

Routes(c) ==
    \/ PostCategory(c) \/ PutCategory(c) \/ DeleteCategory(c)
    \/ PatchActivate(c) \/ PatchDeactivate(c)
    \/ GetCategory(c) \/ GetPath(c) \/ GetDescendants(c)

Next == \E c \in Clients : Routes(c) \/ Step(c)

-----------------------------------------------------------------------------
\* The tree endpoint shows every category that is not deleted, unless a write
\* relied on checks made before another request's write: as long as requests
\* do not overlap, validateHierarchy keeps the tree free of cycles and remove
\* keeps it free of orphans (buildTreeStructure drops both silently).
TreeIsComplete == raced \/ TreeNodes(TRUE) = Live

\* Two categories under one parent never share a name, unless a write relied
\* on old checks.  It is stated for the levels below the top only: a move to
\* the top by "parentId: null" skips validateUniqueNameInLevel.
SiblingNamesDiffer ==
    raced \/ \A j, k \in Live :
               (j # k /\ rows[j].parent = rows[k].parent /\ rows[j].parent # Root)
                   => rows[j].name # rows[k].name

\* The pages of a listing show every category that matches once: rows of the
\* same name, which live under different parents, keep their order by id.
CategoryPages ==
    \A q \in Listings, limit \in PageLimits :
       ShowsOnce(Listed(q), LAMBDA n : FindAllCategories(q, n, limit),
                 PageCount(Cardinality(Listed(q)), limit))

\* A request ends, whatever the others do, unless the tree has a cycle: then
\* findDescendants, getCategoryPath and loadAncestorsRecursively may query
\* the same rows for ever.
RequestsEnd ==
    \A c \in Clients : Busy(c) ~> (~Busy(c) \/ TreeNodes(TRUE) # Live)
====
