------------------------------- MODULE Cache -------------------------------
(***************************************************************************)
(* CCache: the cache of metadata objects, its entries, the accessors that  *)
(* pin them, and the clock that evicts them.                               *)
(*                                                                         *)
(* The hash table is an array of chains.  The clock hand is an iterator    *)
(* that keeps a marker of its own, Hand, in one of the chains: its         *)
(* m_invalid_elem_inserted says that the marker is in a chain.  Eviction   *)
(* is a loop in the middle of InsertEntry and of SetCacheQuota; each round *)
(* of it is a step, and nothing else happens before it is over.            *)
(*                                                                         *)
(* An object lives in a memory pool of its own and is referenced by its    *)
(* entry, by accessors and by customers: the caller that made it and the   *)
(* callers that looked it up.  Keys are compared, and hashed by BucketOf;  *)
(* values and the eviction statistics are left out.                        *)
(***************************************************************************)
EXTENDS Integers, Sequences, FiniteSets

CONSTANTS Keys,
          Objects,     \* bound: the objects that exist at a time
          Accessors,   \* bound: the accessors that hold an entry at a time
          NumBuckets,  \* CACHE_HT_NUM_OF_BUCKETS
          BucketOf,    \* m_hash_func modulo the number of buckets
          GClockInit,  \* m_gclock_init_counter
          Quotas,      \* the values SetCacheQuota is called with, 0 for unlimited
          Sizes,       \* the sizes of the memory pools of new objects
          MaxBytes,    \* bound: the size of an object's memory pool
          MaxRefs,     \* bound: the customers of an object
          Word,        \* sizes are unsigned and wrap at Word
          Hand, None

ASSUME CacheAssumption ==
    /\ NumBuckets \in Nat \ {0} /\ GClockInit \in Nat \ {0}
    /\ MaxBytes \in Nat \ {0} /\ Sizes \subseteq 1..MaxBytes /\ MaxRefs \in Nat \ {0}
    /\ Word \in Nat \ {0}
    /\ BucketOf \in [Keys -> 0..(NumBuckets - 1)]
    /\ Quotas \subseteq Nat
    /\ IsFiniteSet(Accessors)
    /\ Hand \notin Objects /\ None \notin Objects /\ Hand # None /\ None \notin Accessors

VARIABLES
    chain,      \* the chains of m_hash_table
    bucket,     \* m_bucket_idx of the clock hand
    advanced,   \* m_clock_hand_advanced
    size,       \* m_cache_size
    quota,      \* m_cache_quota
    unique,     \* m_unique
    obj,        \* the objects, with the members of their entries
    entry,      \* m_entry of an accessor
    refused,    \* the object in an accessor's pool that Insert did not take
    loop        \* the operation in progress: an insertion, or EvictEntries

vars == <<chain, bucket, advanced, size, quota, unique, obj, entry, refused, loop>>

Buckets == 0..(NumBuckets - 1)

NoObject == [status |-> "free", key |-> None, refs |-> 0, clock |-> 0,
             marked |-> FALSE, bytes |-> 0, cust |-> 0]

Idle == [at |-> "idle", freed |-> 0, toFree |-> 0, retry |-> 0, acc |-> None, new |-> None]

Elems(s) == {s[i] : i \in 1..Len(s)}

Once(s) == \A i, j \in 1..Len(s) : s[i] = s[j] => i = j

(* The types of the variables.  refs is the reference count of an object,  *)
(* cust the references that customers have, clock m_g_clock_counter,       *)
(* marked m_deleted, bytes the TotalAllocatedSize of its memory pool.      *)
TypeOK ==
    /\ chain \in [Buckets -> Seq(Objects \cup {Hand})]
    /\ bucket \in Buckets
    /\ advanced \in BOOLEAN
    /\ size \in 0..(Word - 1)
    /\ quota \in Quotas
    /\ unique \in BOOLEAN
    /\ obj \in [Objects -> [status : {"free", "new", "cached", "refused"},
                            key : Keys \cup {None}, refs : Nat, clock : 0..GClockInit,
                            marked : BOOLEAN, bytes : 0..MaxBytes, cust : 0..MaxRefs]]
    /\ entry \in [Accessors -> Objects \cup {None}]
    /\ refused \in [Accessors -> Objects \cup {None}]
    /\ loop \in [at : {"idle", "evict", "insert"}, freed : Nat, toFree : Nat,
                 retry : 0..GClockInit, acc : Accessors \cup {None},
                 new : Objects \cup {None}]

Init ==
    /\ chain = [b \in Buckets |-> <<>>]
    /\ bucket = 0
    /\ advanced = FALSE
    /\ size = 0
    /\ quota \in Quotas
    /\ unique \in BOOLEAN
    /\ obj = [o \in Objects |-> NoObject]
    /\ entry = [a \in Accessors |-> None]
    /\ refused = [a \in Accessors |-> None]
    /\ loop = Idle
----------------------------------------------------------------------------
(* Operations on a chain.                                                  *)

Unlink(s, x) ==
    LET i == CHOOSE j \in 1..Len(s) : s[j] = x
    IN  SubSeq(s, 1, i - 1) \o SubSeq(s, i + 1, Len(s))

LinkAfter(s, x, y) ==
    LET i == CHOOSE j \in 1..Len(s) : s[j] = x
    IN  SubSeq(s, 1, i) \o <<y>> \o SubSeq(s, i + 1, Len(s))

After(s, x) ==
    LET i == CHOOSE j \in 1..Len(s) : s[j] = x
    IN  IF i = Len(s) THEN None ELSE s[i + 1]

(* NextMatch: the first element of a chain from position n on that has key *)
(* k, with or without the ones that are marked for deletion.               *)
Match(s, n, k, all) ==
    LET hits == {j \in n..Len(s) : /\ s[j] # Hand
                                   /\ obj[s[j]].key = k
                                   /\ all \/ ~obj[s[j]].marked}
    IN  IF hits = {} THEN None
        ELSE s[CHOOSE j \in hits : \A h \in hits : j <= h]

Obtain(e) == [obj EXCEPT ![e].clock = GClockInit, ![e].refs = @ + 2, ![e].cust = @ + 1]

(* An accessor looks an entry up.  The accessor and the customer that gets *)
(* the object have a reference each.                                       *)
Lookup(a, k) ==
    LET e == Match(chain[BucketOf[k]], 1, k, FALSE)
    IN  /\ loop = Idle
        /\ entry[a] = None /\ refused[a] = None
        /\ e # None
        /\ obj[e].cust < MaxRefs
        /\ obj' = Obtain(e)
        /\ entry' = [entry EXCEPT ![a] = e]
        /\ UNCHANGED <<chain, bucket, advanced, size, quota, unique, refused, loop>>

OverQuota(q) == q # 0 /\ size > q

(* What EvictEntries wants to free: the eviction factor is a tenth.        *)
StartEvict(q, a, o) ==
    [at |-> "evict", freed |-> 0, toFree |-> (10 * size - 9 * q) \div 10,
     retry |-> 0, acc |-> a, new |-> o]

(* A caller makes an object of n bytes and an entry for it, and inserts    *)
(* it; the eviction comes first.                                           *)
Insert(a, k, n, o) ==
    /\ loop = Idle
    /\ entry[a] = None /\ refused[a] = None
    /\ obj[o].status = "free"
    /\ obj' = [obj EXCEPT ![o] = [status |-> "new", key |-> k, refs |-> 2,
                                  clock |-> GClockInit, marked |-> FALSE,
                                  bytes |-> n, cust |-> 1]]
    /\ loop' = IF OverQuota(quota) THEN StartEvict(quota, a, o)
               ELSE [Idle EXCEPT !.at = "insert", !.acc = a, !.new = o]
    /\ UNCHANGED <<chain, bucket, advanced, size, quota, unique, entry, refused>>

(* Mutation: the check for an entry with the key passes over marked ones.  *)
FindUnmarked(k) == Match(chain[BucketOf[k]], 1, k, FALSE)

(* The entry with a key that InsertEntry finds, marked for deletion or not. *)
Find(k) == Match(chain[BucketOf[k]], 1, k, TRUE)

(* InsertEntry when the key may be inserted, at the head of its chain.     *)
InsertEntry ==
    LET o == loop.new
        b == BucketOf[obj[o].key]
    IN  /\ loop.at = "insert"
        /\ ~unique \/ Find(obj[o].key) = None
        /\ chain' = [chain EXCEPT ![b] = <<o>> \o @]
        /\ size' = (size + obj[o].bytes) % Word
        /\ obj' = [obj EXCEPT ![o].status = "cached", ![o].refs = @ + 1]
        /\ entry' = [entry EXCEPT ![loop.acc] = o]
        /\ loop' = Idle
        /\ UNCHANGED <<bucket, advanced, quota, unique, refused>>

(* InsertEntry when a unique cache has an entry with the key: the accessor *)
(* gets that one, and the new entry is deleted.  The new object stays in   *)
(* the accessor's memory pool.                                             *)
InsertFound ==
    LET o == loop.new
        e == Find(obj[o].key)
    IN  /\ loop.at = "insert"
        /\ unique /\ e # None
        /\ obj' = [obj EXCEPT ![e].clock = GClockInit, ![e].refs = @ + 1,
                              ![o].status = "refused", ![o].refs = @ - 1]
        /\ entry' = [entry EXCEPT ![loop.acc] = e]
        /\ refused' = [refused EXCEPT ![loop.acc] = o]
        /\ loop' = Idle
        /\ UNCHANGED <<chain, bucket, advanced, size, quota, unique>>

(* Mutation: a marked entry is removed while others have it.               *)
LastReleaseAny(x) == x.marked

(* What ReleaseEntry removes: a marked entry with the reference that is    *)
(* given back and the entry's own.                                         *)
LastRelease(x) == x.refs = 2 /\ x.marked

(* ReleaseEntry, on the objects ob.  The size of the cache is not adjusted *)
(* when the entry is removed.                                              *)
ReleaseEntry(e, ob) ==
    LET b == BucketOf[ob[e].key]
    IN  IF LastRelease(ob[e])
        THEN /\ chain' = [chain EXCEPT ![b] = Unlink(@, e)]
             /\ obj' = [ob EXCEPT ![e] = NoObject]
        ELSE /\ obj' = [ob EXCEPT ![e].refs = @ - 1]
             /\ UNCHANGED chain

(* CCacheAccessor::Next: the accessor goes on to the next entry with the   *)
(* key and releases the one it has.  No customer gets a reference.         *)
NextEntry(a) ==
    LET e == entry[a]
        s == chain[BucketOf[obj[e].key]]
        n == Match(s, 1 + (CHOOSE j \in 1..Len(s) : s[j] = e), obj[e].key, FALSE)
    IN  /\ loop = Idle
        /\ e # None
        /\ entry' = [entry EXCEPT ![a] = n]
        /\ ReleaseEntry(e, IF n = None THEN obj ELSE [obj EXCEPT ![n].refs = @ + 1])
        /\ UNCHANGED <<bucket, advanced, size, quota, unique, refused, loop>>

(* CCacheAccessor::MarkForDeletion.                                        *)
MarkForDeletion(a) ==
    /\ loop = Idle
    /\ entry[a] # None
    /\ obj' = [obj EXCEPT ![entry[a]].marked = TRUE]
    /\ UNCHANGED <<chain, bucket, advanced, size, quota, unique, entry, refused, loop>>

(* The destructor of an accessor: its memory pool goes when the object in  *)
(* it was not inserted, which the caller no longer has then, and its entry *)
(* is released.                                                            *)
DestroyAccessor(a) ==
    /\ loop = Idle
    /\ entry[a] # None \/ refused[a] # None
    /\ refused[a] # None => obj[refused[a]].cust = 0
    /\ LET ob == [o \in Objects |-> IF o = refused[a] THEN NoObject ELSE obj[o]]
       IN  IF entry[a] # None THEN ReleaseEntry(entry[a], ob)
           ELSE obj' = ob /\ UNCHANGED chain
    /\ entry' = [entry EXCEPT ![a] = None]
    /\ refused' = [refused EXCEPT ![a] = None]
    /\ UNCHANGED <<bucket, advanced, size, quota, unique, loop>>

(* A customer releases an object, without the cache's knowledge.           *)
CustomerRelease(o) ==
    /\ loop = Idle
    /\ obj[o].cust > 0
    /\ obj' = [obj EXCEPT ![o].cust = @ - 1, ![o].refs = @ - 1]
    /\ UNCHANGED <<chain, bucket, advanced, size, quota, unique, entry, refused, loop>>

(* A customer's call of an object allocates in the object's memory pool.   *)
Grow(o) ==
    /\ loop = Idle
    /\ obj[o].cust > 0
    /\ obj[o].bytes < MaxBytes
    /\ obj' = [obj EXCEPT ![o].bytes = @ + 1]
    /\ UNCHANGED <<chain, bucket, advanced, size, quota, unique, entry, refused, loop>>

SetCacheQuota(q) ==
    /\ loop = Idle
    /\ quota' = q
    /\ loop' = IF OverQuota(q) THEN StartEvict(q, None, None) ELSE Idle
    /\ UNCHANGED <<chain, bucket, advanced, size, unique, obj, entry, refused>>
----------------------------------------------------------------------------
(* The clock hand.                                                         *)

(* InsertInvalidElement: the marker goes to the head of the first chain    *)
(* that is not empty, from chain b on.                                     *)
InsertMarker(ch, b) ==
    LET full == {c \in b..(NumBuckets - 1) : ch[c] # <<>>}
        c == CHOOSE c \in full : \A d \in full : c <= d
    IN  IF full = {} THEN [chain |-> ch, bucket |-> NumBuckets]
        ELSE [chain |-> [ch EXCEPT ![c] = <<Hand>> \o @], bucket |-> c]

(* CSyncHashtableIter::Advance: the marker moves behind the next entry of  *)
(* its chain, or to another chain when that is the last one.               *)
Advance ==
    LET s == chain[bucket]
        v == After(s, Hand)
        rest == Unlink(s, Hand)
    IN  IF Hand \notin Elems(s) THEN InsertMarker(chain, bucket)
        ELSE IF v # None /\ After(s, v) # None
        THEN [chain |-> [chain EXCEPT ![bucket] = LinkAfter(rest, v, Hand)], bucket |-> bucket]
        ELSE InsertMarker([chain EXCEPT ![bucket] = rest], bucket + 1)

(* Where EvictEntriesOnePass looks next, and what is there.                *)
Look == IF advanced THEN [chain |-> chain, bucket |-> bucket] ELSE Advance

Seen == IF Look.bucket = NumBuckets THEN None ELSE After(Look.chain[Look.bucket], Hand)

(* Mutation: the hand counts as advanced after it served an entry.         *)
HandServedStays == advanced' = advanced

HandServed == advanced' = FALSE

Evictable(x) == x.clock = 0 /\ x.refs = 1

Accessed(x) == x.clock # 0

Evicting == loop.at = "evict" /\ loop.freed < loop.toFree

(* The hand points to an entry that nobody uses and that was not accessed  *)
(* for long.  Removing it advances the hand.                               *)
EvictRemove ==
    LET e == Seen
    IN  /\ Evicting
        /\ e # None
        /\ Evictable(obj[e])
        /\ bucket' = Look.bucket
        /\ chain' = [Look.chain EXCEPT ![Look.bucket] = Unlink(@, e)]
        /\ advanced' = TRUE
        /\ size' = (size - obj[e].bytes) % Word
        /\ loop' = [loop EXCEPT !.freed = @ + obj[e].bytes]
        /\ obj' = [obj EXCEPT ![e] = NoObject]
        /\ UNCHANGED <<quota, unique, entry, refused>>

(* The hand points to an entry in use, or to the end of a chain.           *)
EvictSkip ==
    LET e == Seen
    IN  /\ Evicting
        /\ Look.bucket < NumBuckets
        /\ e # None => ~Accessed(obj[e]) /\ ~Evictable(obj[e])
        /\ bucket' = Look.bucket
        /\ chain' = Look.chain
        /\ HandServed
        /\ UNCHANGED <<size, quota, unique, obj, entry, refused, loop>>

(* The hand points to an entry that was accessed: its counter goes down.   *)
EvictTick ==
    LET e == Seen
    IN  /\ Evicting
        /\ e # None
        /\ Accessed(obj[e])
        /\ bucket' = Look.bucket
        /\ chain' = Look.chain
        /\ HandServed
        /\ obj' = [obj EXCEPT ![e].clock = @ - 1]
        /\ UNCHANGED <<size, quota, unique, entry, refused, loop>>

AfterEvict ==
    IF loop.acc = None THEN Idle
    ELSE [Idle EXCEPT !.at = "insert", !.acc = loop.acc, !.new = loop.new]

(* Mutation: one pass less.                                                *)
LastPassEarly == loop.retry = GClockInit - 1

LastPass == loop.retry = GClockInit

(* The iterator is exhausted: the pass ends, and the hand is rewound.      *)
EvictPassEnds ==
    /\ Evicting
    /\ Look.bucket = NumBuckets
    /\ chain' = Look.chain
    /\ bucket' = 0
    /\ loop' = IF LastPass THEN AfterEvict ELSE [loop EXCEPT !.retry = @ + 1]
    /\ UNCHANGED <<advanced, size, quota, unique, obj, entry, refused>>

(* Mutation: the hand is rewound after the last pass, too.                 *)
EvictEnoughRewinds ==
    /\ loop.at = "evict" /\ loop.freed >= loop.toFree
    /\ loop' = AfterEvict
    /\ bucket' = 0
    /\ UNCHANGED <<chain, advanced, size, quota, unique, obj, entry, refused>>

(* Enough is freed.                                                        *)
EvictEnough ==
    /\ loop.at = "evict" /\ loop.freed >= loop.toFree
    /\ loop' = AfterEvict
    /\ UNCHANGED <<chain, bucket, advanced, size, quota, unique, obj, entry, refused>>

EvictRound == EvictRemove \/ EvictSkip \/ EvictTick \/ EvictPassEnds \/ EvictEnough

Next ==
    \/ \E a \in Accessors :
        \/ \E k \in Keys : Lookup(a, k)
        \/ \E k \in Keys, n \in Sizes, o \in Objects : Insert(a, k, n, o)
        \/ NextEntry(a) \/ MarkForDeletion(a) \/ DestroyAccessor(a)
    \/ InsertEntry \/ InsertFound
    \/ \E o \in Objects : CustomerRelease(o) \/ Grow(o)
    \/ \E q \in Quotas : SetCacheQuota(q)
    \/ EvictRound

Spec == Init /\ [][Next]_vars
----------------------------------------------------------------------------
(* The promise that the cache keeps.                                       *)
Promise == INSTANCE PinnedCache WITH
               live <- {o \in Objects : obj[o].status # "free"},
               held <- entry,
               customers <- [o \in Objects |-> obj[o].cust]

(* Nothing the cache does takes an object from an accessor or a customer   *)
(* that has it: not eviction, not the release of a marked entry, not the   *)
(* insertion of a second object with a key.                                *)
PinsRespected == Promise!Spec

Pins(o) == Cardinality({a \in Accessors : entry[a] = o})

Cached == {o \in Objects : obj[o].status = "cached"}

(* Reference counts are exact: an object is referenced by its entry, by    *)
(* the accessors that hold the entry, and by its customers.  Eviction and  *)
(* ReleaseEntry take a count of one for "no one else is using this entry". *)
RefsExact ==
    \A o \in Objects :
        obj[o].refs = obj[o].cust + Pins(o)
                      + (IF obj[o].status \in {"new", "cached"} THEN 1 ELSE 0)

(* The chains hold every cached object once, in the bucket of its key, and *)
(* nothing else but the marker: an entry that is destroyed is in no chain, *)
(* and none is lost by the moves of the marker among the entries.          *)
TableExact ==
    \A b \in Buckets :
        /\ Elems(chain[b]) \ {Hand} = {o \in Cached : BucketOf[obj[o].key] = b}
        /\ Once(chain[b])

(* The marker is in the bucket of the hand, and it is in place when the    *)
(* hand "was already advanced", as it is when enough is freed: what the    *)
(* assertions of EvictEntries and CSyncHashtableIter say holds from one    *)
(* eviction to the next, whatever is inserted and removed between them.    *)
HandReady ==
    /\ \A b \in Buckets : Hand \in Elems(chain[b]) => b = bucket
    /\ advanced => Hand \in Elems(chain[bucket])
    /\ loop.at = "evict" /\ ~Evicting => advanced

(* A cache that does not allow two objects with a key has no two.          *)
UniqueKeys ==
    unique => \A o, p \in Cached : obj[o].key = obj[p].key => o = p

(* An eviction that runs out of passes has counted every entry down: the   *)
(* next one finds all that is not in use.                                  *)
PassesCountDown ==
    [][EvictPassEnds /\ loop'.at # "evict" => \A o \in Cached : obj[o].clock = 0]_vars

(* The entries that the hand has not passed in this round of the table.    *)
Behind ==
    LET s == chain[bucket]
        later == UNION {Elems(chain[b]) : b \in (bucket + 1)..(NumBuckets - 1)}
        here == IF Hand \in Elems(s)
                THEN {s[j] : j \in {j \in 1..Len(s) : \E i \in 1..(j - 1) : s[i] = Hand}}
                ELSE Elems(s)
    IN  (here \cup later) \ {Hand}

RoundsLeft ==
    (GClockInit - loop.retry) * (2 * Cardinality(Objects) + NumBuckets + 3)
    + 2 * Cardinality(Behind) + (IF advanced THEN 1 ELSE 0) + (NumBuckets - bucket)
    + (IF \E b \in Buckets : Hand \in Elems(chain[b]) THEN 0 ELSE 1)

(* Every round of an eviction brings its end nearer: the hand goes on, or  *)
(* an entry is removed in front of it, or another pass is used up.  A hand *)
(* that a removal advanced and nobody noticed, or that was not advanced    *)
(* and is taken to be, would make EvictEntriesOnePass look at an entry for *)
(* ever.                                                                   *)
EvictionProgresses ==
    [][EvictRound /\ loop'.at = "evict" => 0 <= RoundsLeft' /\ RoundsLeft' < RoundsLeft]_vars
=============================================================================
