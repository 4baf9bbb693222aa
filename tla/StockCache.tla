---- MODULE StockCache ----
(***************************************************************************)
(* CachedInventoryRepository: the cache-aside decorator of the stock       *)
(* repository, for one item.  The item is cached under its id and under    *)
(* its product, and in the lists of low stock.  A read that misses reads   *)
(* the database and fills the cache in a later step; a write changes the   *)
(* row and deletes the cached copies in later steps.  Errors of Redis are  *)
(* ignored.                                                                *)
(***************************************************************************)
EXTENDS Naturals, FiniteSets

CONSTANTS
    CacheUsers,    \* callers, one call at a time each
    MaxVersion     \* bound: writes of the row

ASSUME CacheAssumption == MaxVersion \in Nat \ {0}

VARIABLES
    row,       \* the version of the row; 0 before the item is saved, Gone after
    cache,     \* what is cached under each key: the version of a copy, or NoCopy
    using,     \* the call each user has in hand
    spoilt     \* history: keys an old copy was put under, or left under by an
               \* error of Redis, a death or a write that does not delete it

cacheVars == <<row, cache, using, spoilt>>

Gone == MaxVersion + 1
NoCopy == MaxVersion + 2
HasRow == row \in 1..MaxVersion

ItemKeys == {"id", "product"}
CacheKeys == ItemKeys \cup {"lowStock"}
Cached(k) == cache[k] # NoCopy

NotUsing == [call |-> "none"]
Free(c) == using[c] = NotUsing
Does(c, call) == using[c].call = call
GoOn(c, call) == using' = [using EXCEPT ![c] = call]
Return(c) == GoOn(c, NotUsing)
Has(version) == [call |-> "has", version |-> version]
ToFill(version, keys) == [call |-> "fill", version |-> version, keys |-> keys]
ToDelete == [call |-> "delete", keys |-> CacheKeys]

-----------------------------------------------------------------------------
\* FindByID, FindByProductID and FindLowStock.  ExistsByProductID looks at the
\* same key, fills nothing and answers true for whatever is cached.
FindHits(c, k) ==
    /\ Free(c) /\ Cached(k) /\ k \in ItemKeys
    /\ GoOn(c, Has(cache[k]))
    /\ UNCHANGED <<row, cache, spoilt>>

FindMisses(c, k) ==
    /\ Free(c) /\ ~Cached(k)
    /\ k \in ItemKeys => HasRow
    /\ GoOn(c, ToFill(row, IF k \in ItemKeys THEN ItemKeys ELSE {k}))
    /\ UNCHANGED <<row, cache, spoilt>>

\* Set, one key at a time, with what was read.
Fill(c, k) ==
    /\ Does(c, "fill") /\ k \in using[c].keys
    /\ cache' = [cache EXCEPT ![k] = using[c].version]
    /\ spoilt' = IF using[c].version = row THEN spoilt \ {k} ELSE spoilt \cup {k}
    /\ GoOn(c, [using[c] EXCEPT !.keys = @ \ {k}])
    /\ UNCHANGED row

\* The caller has the item, and may write it.
FillEnds(c) ==
    /\ Does(c, "fill") /\ using[c].keys = {}
    /\ GoOn(c, Has(using[c].version))
    /\ UNCHANGED <<row, cache, spoilt>>

Forget(c) ==
    /\ Does(c, "has") /\ Return(c)
    /\ UNCHANGED <<row, cache, spoilt>>

\* Save: the new item is cached at once, the lists stay without it.
SaveItem(c) ==
    /\ Free(c) /\ row = 0
    /\ row' = 1
    /\ spoilt' = IF Cached("lowStock") THEN spoilt \cup {"lowStock"} ELSE spoilt
    /\ GoOn(c, ToFill(1, ItemKeys))
    /\ UNCHANGED cache

-----------------------------------------------------------------------------
\* Update writes the row, if it still has the version that was read, and then
\* deletes the copies.
UpdateItem(c) ==
    /\ Does(c, "has") /\ HasRow /\ row < MaxVersion
    /\ using[c].version = row
    /\ row' = row + 1
    /\ GoOn(c, ToDelete)
    /\ UNCHANGED <<cache, spoilt>>

\* The optimistic lock refuses an old version: the error comes before the
\* deletes, so the copy that caused it stays where it is.
UpdateConflicts(c) ==
    /\ Does(c, "has") /\ using[c].version # row
    /\ Return(c)
    /\ UNCHANGED <<row, cache, spoilt>>

DeleteItem(c) ==
    /\ Free(c) /\ HasRow
    /\ row' = Gone
    /\ GoOn(c, ToDelete)
    /\ UNCHANGED <<cache, spoilt>>

DropKeys_idOnly(c) ==
    LET dropped == IF ItemKeys \subseteq using[c].keys THEN ItemKeys ELSE {"lowStock"} IN
    /\ Does(c, "delete")
    /\ cache' = [k \in CacheKeys |-> IF k \in dropped \ {"product"} THEN NoCopy ELSE cache[k]]
    /\ spoilt' = spoilt \ dropped
    /\ IF dropped = ItemKeys THEN GoOn(c, [using[c] EXCEPT !.keys = @ \ dropped]) ELSE Return(c)
    /\ UNCHANGED row

\* One DEL for the keys of the item, then DeletePattern for the lists.
DropKeys(c) ==
    LET dropped == IF ItemKeys \subseteq using[c].keys THEN ItemKeys ELSE {"lowStock"} IN
    /\ Does(c, "delete")
    /\ cache' = [k \in CacheKeys |-> IF k \in dropped THEN NoCopy ELSE cache[k]]
    /\ spoilt' = spoilt \ dropped
    /\ IF dropped = ItemKeys THEN GoOn(c, [using[c] EXCEPT !.keys = @ \ dropped]) ELSE Return(c)
    /\ UNCHANGED row

\* IncrementVersion deletes the copies of the item before it writes the row,
\* and never the lists: what is cached when it writes is old from then on.
IncrementDrops(c) ==
    /\ Free(c) /\ HasRow
    /\ cache' = [k \in CacheKeys |-> IF k \in ItemKeys THEN NoCopy ELSE cache[k]]
    /\ spoilt' = spoilt \ ItemKeys
    /\ GoOn(c, [call |-> "increment"])
    /\ UNCHANGED row

IncrementVersion(c) ==
    /\ Does(c, "increment") /\ row # MaxVersion
    /\ row' = IF HasRow THEN row + 1 ELSE row
    /\ spoilt' = IF HasRow THEN spoilt \cup {k \in CacheKeys : Cached(k)} ELSE spoilt
    /\ Return(c)
    /\ UNCHANGED cache

-----------------------------------------------------------------------------
\* Redis answers with an error, which is ignored, or the process dies: the
\* rest of the call's work on the cache is not done.
CallCutOff(c) ==
    /\ Does(c, "delete") \/ Does(c, "fill")
    /\ spoilt' = IF Does(c, "delete") THEN spoilt \cup using[c].keys ELSE spoilt
    /\ Return(c)
    /\ UNCHANGED <<row, cache>>

\* The five minutes of an entry are over, one for the lists.
EntryExpires(k) ==
    /\ Cached(k)
    /\ cache' = [cache EXCEPT ![k] = NoCopy]
    /\ spoilt' = spoilt \ {k}
    /\ UNCHANGED <<row, using>>

CacheInit ==
    /\ row = 0 /\ cache = [k \in CacheKeys |-> NoCopy]
    /\ using = [c \in CacheUsers |-> NotUsing] /\ spoilt = {}

CacheNext ==
    \/ \E c \in CacheUsers, k \in CacheKeys : FindHits(c, k)
    \/ \E c \in CacheUsers, k \in CacheKeys : FindMisses(c, k)
    \/ \E c \in CacheUsers, k \in CacheKeys : Fill(c, k)
    \/ \E c \in CacheUsers : FillEnds(c)
    \/ \E c \in CacheUsers : Forget(c)
    \/ \E c \in CacheUsers : SaveItem(c)
    \/ \E c \in CacheUsers : UpdateItem(c)
    \/ \E c \in CacheUsers : UpdateConflicts(c)
    \/ \E c \in CacheUsers : DeleteItem(c)
    \/ \E c \in CacheUsers : DropKeys(c)
    \/ \E c \in CacheUsers : IncrementDrops(c)
    \/ \E c \in CacheUsers : IncrementVersion(c)
    \/ \E c \in CacheUsers : CallCutOff(c)
    \/ \E k \in CacheKeys : EntryExpires(k)

CacheSpec == CacheInit /\ [][CacheNext]_cacheVars

-----------------------------------------------------------------------------
\* A cached copy is the row as it is, unless a writer is still about to delete
\* the copy, or one of these left an old one: a read that began before a write
\* and filled the cache after it, a delete that was cut off, IncrementVersion,
\* which deletes first, and, for the lists, Save, which deletes none.  Update
\* and Delete never leave an old copy behind on their own.
CacheTellsTheRow ==
    \A k \in CacheKeys :
       \/ ~Cached(k) \/ cache[k] = row \/ k \in spoilt
       \/ \E c \in CacheUsers : Does(c, "delete") /\ k \in using[c].keys
====
