------------------------------- MODULE Malloc -------------------------------
(***************************************************************************)
(* The kernel heap (mm/malloc.c) on top of the page allocator: requests    *)
(* are rounded up to a bucket size; a page serves objects of one size and  *)
(* has a descriptor; descriptors of one size are chained under their       *)
(* bucket, unused ones are on the list free_bucket_desc.  Descriptors are  *)
(* cut from pages of their own, which are never given back.                *)
(*                                                                         *)
(* kmalloc() and kfree_s() turn interrupts off against "race conditions",  *)
(* but get_free_page() and free_page() end with a printk(), which turns    *)
(* them on again.  From there on a tick may preempt the caller.  As the    *)
(* scheduler picks no preempted task but idle again (see Sched), the call  *)
(* of any other task is cut off for good: it leaves the lists as they are  *)
(* for the next caller.  A call of idle goes on after the calls of other   *)
(* tasks, if the tick found one ready.                                     *)
(*                                                                         *)
(* Callers free what they were given, with the length they asked for.      *)
(* Requests above the largest bucket return NULL at once and are left out. *)
(***************************************************************************)
EXTENDS Integers, Sequences, FiniteSets

CONSTANTS
  pages_total,  \* the number of physical pages
  PAGE_SIZE,    \* bytes in a page
  Sizes,        \* the bucket sizes of bucket_dir, in increasing order
  DescPerPage,  \* descriptors in a page, PAGE_SIZE / sizeof(bucket_desc)
  Lens,         \* the lengths callers ask for
  MaxCut,       \* how many calls may be cut off
  IdleSwitched  \* whether idle calls while other tasks may be ready

ASSUME TotalAssumption == pages_total \in Nat
ASSUME CutAssumption == MaxCut \in Nat /\ IdleSwitched \in BOOLEAN
ASSUME SizesAssumption ==
  /\ PAGE_SIZE \in Nat \ {0} /\ DescPerPage \in Nat \ {0}
  /\ Sizes \in Seq(1 .. PAGE_SIZE)
  /\ \A i, j \in 1 .. Len(Sizes) : i < j => Sizes[i] < Sizes[j]
  /\ \A i \in 1 .. Len(Sizes) : PAGE_SIZE % Sizes[i] = 0
ASSUME LensAssumption ==
  /\ Lens \subseteq Nat \ {0}
  /\ \A len \in Lens : \E i \in 1 .. Len(Sizes) : len <= Sizes[i]

VARIABLES
  map, bitmap_item_used,  \* the page allocator's
  free_bucket_desc,       \* the first unused descriptor
  chain,                  \* per bucket, its first descriptor
  next, page, freeptr, refcnt,  \* per descriptor, its fields
  carved,                 \* the pages init_bucket_desc() has cut up
  live,                   \* the objects callers hold, see Objects
  calls,                  \* per caller, the call that goes on, interrupts on
  cut,                    \* how many calls were cut off
  failed,                 \* how many got a descriptor but no page
  fault                   \* whether a null descriptor was dereferenced

pages == <<map, bitmap_item_used>>
lists == <<free_bucket_desc, chain, next>>
fields == <<page, freeptr, refcnt>>
ghosts == <<cut, failed, fault>>
vars == <<pages, lists, fields, carved, live, calls, ghosts>>

Pages == 0 .. pages_total - 1
NoPage == -1     \* the null page address
Buckets == 1 .. Len(Sizes)
Desc == Pages \X (1 .. DescPerPage)
NoDesc == <<NoPage, 0>>
Capacity(b) == PAGE_SIZE \div Sizes[b]

\* An object is given by its page, its number in the page and the length
\* that was asked for.
Objects == [page : Pages, nr : 0 .. PAGE_SIZE - 1, len : Lens]

\* Where a call with interrupts on has got to, and its local variables.
NoCall == [at |-> "none", len |-> 0, desc |-> NoDesc, page |-> NoPage, nr |-> 0]
Callers == {"task", "idle"}

\* The descriptor that follows those in s, in the list nxt links from the first
\* one on; s with that one; the whole list.
Behind(nxt, first, s) == IF s = <<>> THEN first ELSE nxt[s[Len(s)]]

Longer(nxt, first, s) ==
  LET d == Behind(nxt, first, s) IN  IF d = NoDesc THEN s ELSE Append(s, d)

ListFrom(nxt, first) ==
  LET upTo[n \in 0 .. Cardinality(Desc)] ==
        IF n = 0 THEN <<>> ELSE Longer(nxt, first, upTo[n - 1])
  IN  upTo[Cardinality(Desc)]

Elems(s) == {s[i] : i \in 1 .. Len(s)}
Unused == ListFrom(next, free_bucket_desc)
ChainOf(b) == ListFrom(next, chain[b])

Init ==
  /\ map = [p \in Pages |-> 0]
  /\ bitmap_item_used = 0
  /\ free_bucket_desc = NoDesc
  /\ chain = [b \in Buckets |-> NoDesc]
  /\ next = [d \in Desc |-> NoDesc]
  /\ page = [d \in Desc |-> NoPage]
  /\ freeptr = [d \in Desc |-> <<>>]
  /\ refcnt = [d \in Desc |-> 0]
  /\ carved = {}
  /\ live = {}
  /\ calls = [c \in Callers |-> NoCall]
  /\ cut = 0 /\ failed = 0
  /\ fault = FALSE

-----------------------------------------------------------------------------
(***************************************************************************)
(* The page allocator, see PageAlloc.  With interrupts off its two         *)
(* functions are atomic, with interrupts on get_free_page() is not.        *)
(***************************************************************************)
Candidates == {i \in Pages : i >= bitmap_item_used /\ map[i] = 0}

FirstFree(p) == p \in Candidates /\ \A q \in Candidates : p <= q

get_free_page(p) ==
  /\ FirstFree(p)
  /\ map' = [map EXCEPT ![p] = 1]
  /\ bitmap_item_used' = bitmap_item_used + 1

\* A mutant: nothing is given back.
free_page_kept(p) == UNCHANGED pages

free_page(p) ==
  /\ map' = [map EXCEPT ![p] = 0]
  /\ bitmap_item_used' = bitmap_item_used - 1

-----------------------------------------------------------------------------
(***************************************************************************)
(* kmalloc() until its first printk().                                     *)
(***************************************************************************)
\* A mutant: a request one byte longer than the bucket still goes there.
BucketFor_short(len) ==
  CHOOSE b \in Buckets :
    Sizes[b] + 1 >= len /\ \A c \in 1 .. b - 1 : Sizes[c] + 1 < len

\* The first bucket that is large enough.
BucketFor(len) ==
  CHOOSE b \in Buckets :
    Sizes[b] >= len /\ \A c \in 1 .. b - 1 : Sizes[c] < len

\* The positions in the chain of b of the descriptors with a free object.
WithSpace(b) == {i \in 1 .. Len(ChainOf(b)) : freeptr[ChainOf(b)[i]] # <<>>}

\* Which caller c may begin a call: a task that was preempted is gone, so it is
\* always the only one; idle waits while another one runs.
MayCall(c) ==
  /\ calls["task"] = NoCall
  /\ c = "idle" => IdleSwitched /\ calls["idle"] = NoCall

\* The first descriptor in the chain with a free object gives its first one.
KmallocFromChain(c, len) ==
  LET b == BucketFor(len)
  IN  /\ MayCall(c)
      /\ \E i \in WithSpace(b) :
           LET d == ChainOf(b)[i]
           IN  /\ \A j \in WithSpace(b) : i <= j
               /\ freeptr' = [freeptr EXCEPT ![d] = Tail(@)]
               /\ refcnt' = [refcnt EXCEPT ![d] = @ + 1]
               /\ live' = live \cup {[page |-> page[d],
                                      nr |-> Head(freeptr[d]), len |-> len]}
      /\ UNCHANGED <<pages, lists, page, carved, calls, ghosts>>

\* No object is free in the chain.
NeedsPage(c, len) == MayCall(c) /\ WithSpace(BucketFor(len)) = {}

\* init_bucket_desc() gets a page.
KmallocInitDesc(c, len) ==
  /\ NeedsPage(c, len) /\ free_bucket_desc = NoDesc
  /\ \E p \in Pages :
       /\ get_free_page(p)
       /\ calls' = [calls EXCEPT ![c] = [NoCall EXCEPT !.at = "carve", !.len = len,
                                                      !.page = p]]
  /\ UNCHANGED <<lists, fields, carved, live, ghosts>>

\* An empty list is taken the first element of: it lies at address 0, its
\* field "next" is what low memory holds at address 4.  Nothing is said about
\* what follows.
NullTaken ==
  /\ fault' = TRUE
  /\ UNCHANGED <<pages, lists, fields, carved, live, calls, cut, failed>>

\* Without a page init_bucket_desc() returns silently.
KmallocInitFails(c, len) ==
  /\ NeedsPage(c, len) /\ free_bucket_desc = NoDesc
  /\ Candidates = {}
  /\ NullTaken

\* A descriptor is taken off the list and a page for it is found.
KmallocTakePage(c, len) ==
  /\ NeedsPage(c, len) /\ free_bucket_desc # NoDesc
  /\ \E p \in Pages :
       /\ get_free_page(p)
       /\ calls' = [calls EXCEPT ![c] = [NoCall EXCEPT !.at = "link", !.len = len,
                                                      !.desc = free_bucket_desc,
                                                      !.page = p]]
  /\ refcnt' = [refcnt EXCEPT ![free_bucket_desc] = 0]
  /\ free_bucket_desc' = next[free_bucket_desc]
  /\ UNCHANGED <<chain, next, page, freeptr, carved, live, ghosts>>

\* Without a page kmalloc() returns NULL, and the descriptor that it has taken
\* off the list is in no list any more.
NoPageFor(d) ==
  /\ Candidates = {}
  /\ page' = [page EXCEPT ![d] = NoPage]
  /\ freeptr' = [freeptr EXCEPT ![d] = <<>>]
  /\ refcnt' = [refcnt EXCEPT ![d] = 0]
  /\ failed' = failed + 1
  /\ UNCHANGED <<pages, chain, next, carved, live, cut, fault>>

KmallocTakePageFails(c, len) ==
  /\ NeedsPage(c, len) /\ free_bucket_desc # NoDesc
  /\ NoPageFor(free_bucket_desc)
  /\ free_bucket_desc' = next[free_bucket_desc]
  /\ UNCHANGED calls

-----------------------------------------------------------------------------
(***************************************************************************)
(* kmalloc() from there on.                                                *)
(***************************************************************************)
\* Caller c is at a place and goes on to another.
At(c, place) ==
  /\ calls[c].at = place
  /\ c = "idle" => calls["task"] = NoCall

Goes(c, place) == calls' = [calls EXCEPT ![c].at = place]

\* The rest of init_bucket_desc(): the page is cut into descriptors.
KmallocCarve(c) ==
  LET p == calls[c].page
  IN  /\ At(c, "carve") /\ Goes(c, "take")
      /\ next' = [d \in Desc |-> IF d[1] # p THEN next[d]
                                   ELSE IF d[2] < DescPerPage THEN <<p, d[2] + 1>>
                                   ELSE free_bucket_desc]
      /\ free_bucket_desc' = <<p, 1>>
      /\ carved' = carved \cup {p}
      /\ UNCHANGED <<pages, chain, fields, live, ghosts>>

\* Others may have taken all the descriptors meanwhile.
KmallocTake(c) ==
  LET d == free_bucket_desc
  IN  /\ At(c, "take")
      /\ IF d = NoDesc THEN NullTaken
         ELSE /\ calls' = [calls EXCEPT ![c] = [@ EXCEPT !.at = "search", !.desc = d]]
              /\ free_bucket_desc' = next[d]
              /\ refcnt' = [refcnt EXCEPT ![d] = 0]
              /\ UNCHANGED <<pages, chain, next, page, freeptr, carved, live, ghosts>>

\* get_free_page() in two steps.
KmallocSearch(c) ==
  /\ At(c, "search")
  /\ \E p \in Pages :
       /\ FirstFree(p)
       /\ map' = [map EXCEPT ![p] = 1]
       /\ calls' = [calls EXCEPT ![c] = [@ EXCEPT !.at = "count", !.page = p]]
  /\ UNCHANGED <<bitmap_item_used, lists, fields, carved, live, ghosts>>

KmallocSearchFails(c) ==
  /\ At(c, "search")
  /\ NoPageFor(calls[c].desc)
  /\ calls' = [calls EXCEPT ![c] = NoCall]
  /\ UNCHANGED free_bucket_desc

KmallocCount(c) ==
  /\ At(c, "count") /\ Goes(c, "link")
  /\ bitmap_item_used' = bitmap_item_used + 1
  /\ UNCHANGED <<map, lists, fields, carved, live, ghosts>>

\* A mutant: the free list has one element too many.
FreeObjects_long(b) == [i \in 1 .. Capacity(b) + 1 |-> i - 1]

\* The free list of a page cut into objects.
FreeObjects(b) == [i \in 1 .. Capacity(b) |-> i - 1]

\* The descriptor gets its page, and continues with the chain as it is now.
KmallocLink(c) ==
  LET b == BucketFor(calls[c].len)
      d == calls[c].desc
  IN  /\ At(c, "link") /\ Goes(c, "chain")
      /\ page' = [page EXCEPT ![d] = calls[c].page]
      /\ freeptr' = [freeptr EXCEPT ![d] = FreeObjects(b)]
      /\ next' = [next EXCEPT ![d] = chain[b]]
      /\ UNCHANGED <<pages, free_bucket_desc, chain, refcnt, carved, live, ghosts>>

KmallocChain(c) ==
  /\ At(c, "chain") /\ Goes(c, "pop")
  /\ chain' = [chain EXCEPT ![BucketFor(calls[c].len)] = calls[c].desc]
  /\ UNCHANGED <<pages, free_bucket_desc, next, fields, carved, live, ghosts>>

\* The first object of the descriptor is taken; others may have taken some or
\* all of them meanwhile, so that the list at address 0 is read.
KmallocPop(c) ==
  LET d == calls[c].desc
  IN  /\ At(c, "pop")
      /\ IF freeptr[d] = <<>> THEN NullTaken
         ELSE /\ freeptr' = [freeptr EXCEPT ![d] = Tail(@)]
              /\ calls' = [calls EXCEPT ![c] = [@ EXCEPT !.at = "return",
                                                      !.nr = Head(freeptr[d])]]
              /\ UNCHANGED <<pages, lists, page, refcnt, carved, live, ghosts>>

KmallocReturn(c) ==
  LET call == calls[c]
  IN  /\ At(c, "return")
      /\ calls' = [calls EXCEPT ![c] = NoCall]
      /\ refcnt' = [refcnt EXCEPT ![call.desc] = @ + 1]
      /\ live' = live \cup {[page |-> page[call.desc], nr |-> call.nr,
                             len |-> call.len]}
      /\ UNCHANGED <<pages, lists, page, freeptr, carved, ghosts>>

-----------------------------------------------------------------------------
(***************************************************************************)
(* kfree_s()                                                               *)
(***************************************************************************)
\* The descriptors, with their buckets, that the search for the page of o
\* visits successfully: it starts at the bucket of the given length.
Found(o) ==
  {f \in Buckets \X Desc : /\ Sizes[f[1]] >= o.len
                           /\ f[2] \in Elems(ChainOf(f[1]))
                           /\ page[f[2]] = o.page}

\* A mutant: the first descriptor of a chain is not taken off.
Unlinked_kept(b, d) ==
  /\ next' = [e \in Desc |-> IF e \in Elems(ChainOf(b)) /\ next[e] = d
                               THEN next[d] ELSE next[e]]
  /\ UNCHANGED chain

\* The descriptor is taken off the chain of b.
Unlinked(b, d) ==
  IF chain[b] = d THEN chain' = [chain EXCEPT ![b] = next[d]] /\ UNCHANGED next
  ELSE /\ next' = [e \in Desc |-> IF e \in Elems(ChainOf(b)) /\ next[e] = d
                                   THEN next[d] ELSE next[e]]
       /\ UNCHANGED chain

\* A mutant: the page is given back when one object is left.
IsLast_early(d) == refcnt[d] \in {1, 2}

\* Whether the object to be freed is the last one of its page.
IsLast(d) == refcnt[d] = 1

\* The object becomes the first free one of its page.  A page without objects
\* is given back.
Kfree(o) ==
  /\ MayCall("task")
  /\ \E f \in Found(o) :
       LET b == f[1]
           d == f[2]
       IN  /\ \A g \in Found(o) : b <= g[1]
           /\ freeptr' = [freeptr EXCEPT ![d] = <<o.nr>> \o @]
           /\ refcnt' = [refcnt EXCEPT ![d] = @ - 1]
           /\ IF IsLast(d)
                THEN /\ Unlinked(b, d)
                     /\ free_page(page[d])
                     /\ calls' = [calls EXCEPT !["task"] = [NoCall EXCEPT !.at = "list",
                                                                      !.desc = d]]
                ELSE UNCHANGED <<pages, chain, next, calls>>
  /\ live' = live \ {o}
  /\ UNCHANGED <<free_bucket_desc, page, carved, ghosts>>

\* After the printk() of free_page(), the descriptor of the page that was given
\* back goes to the unused ones.
KfreeList ==
  LET d == calls["task"].desc
  IN  /\ At("task", "list")
      /\ next' = [next EXCEPT ![d] = free_bucket_desc]
      /\ free_bucket_desc' = d
      /\ calls' = [calls EXCEPT !["task"] = NoCall]
      /\ UNCHANGED <<pages, chain, fields, carved, live, ghosts>>

-----------------------------------------------------------------------------
\* A tick preempts the calling task, which never runs again.
CutOff ==
  /\ calls["task"] # NoCall
  /\ cut < MaxCut
  /\ cut' = cut + 1
  /\ calls' = [calls EXCEPT !["task"] = NoCall]
  /\ UNCHANGED <<pages, lists, fields, carved, live, failed, fault>>

Kmalloc(c) ==
  \/ \E len \in Lens : \/ KmallocFromChain(c, len)
                       \/ KmallocInitDesc(c, len)
                       \/ KmallocInitFails(c, len)
                       \/ KmallocTakePage(c, len)
                       \/ KmallocTakePageFails(c, len)
  \/ KmallocCarve(c) \/ KmallocTake(c)
  \/ KmallocSearch(c) \/ KmallocSearchFails(c) \/ KmallocCount(c)
  \/ KmallocLink(c) \/ KmallocChain(c)
  \/ KmallocPop(c) \/ KmallocReturn(c)

Next ==
  /\ ~fault
  /\ \/ \E c \in Callers : Kmalloc(c)
     \/ \E o \in live : Kfree(o)
     \/ KfreeList
     \/ CutOff

Spec == Init /\ [][Next]_vars

-----------------------------------------------------------------------------
(***************************************************************************)
(* Properties.                                                             *)
(***************************************************************************)
Chained == UNION {Elems(ChainOf(b)) : b \in Buckets}
Marked == {p \in Pages : map[p] = 1}
Used(d) == {o.nr : o \in {l \in live : l.page = page[d]}}

\* No descriptor is twice in a list or in two lists, each lies in a page that
\* was cut up, and the pages of the chained ones are in use, by nothing else:
\* also after calls that were cut off in the middle.
ListsSound ==
  LET size(s) == Cardinality(Elems(s))
  IN  /\ size(Unused) = Len(Unused)
      /\ Chained \cap Elems(Unused) = {}
      /\ \A b \in Buckets :
           /\ size(ChainOf(b)) = Len(ChainOf(b))
           /\ \A c \in Buckets \ {b} : Elems(ChainOf(b)) \cap Elems(ChainOf(c)) = {}
      /\ \A d \in Chained \cup Elems(Unused) : d[1] \in carved
      /\ carved \subseteq Marked
      /\ \A d \in Chained :
           /\ page[d] \in Marked \ carved
           /\ \A e \in Chained : page[d] = page[e] => d = e

\* In the page of a chained descriptor no object is both free and held, and
\* its reference count is the number of objects held.  A page without objects
\* is kept only when the call that wanted it has been cut off.
ObjectsSound ==
  \A b \in Buckets : \A d \in Elems(ChainOf(b)) :
    /\ Cardinality(Elems(freeptr[d])) = Len(freeptr[d])
    /\ Elems(freeptr[d]) \subseteq (0 .. Capacity(b) - 1) \ Used(d)
    /\ refcnt[d] = Cardinality({o \in live : o.page = page[d]})
    /\ refcnt[d] > 0 \/ cut > 0 \/ \E c \in Callers : calls[c].desc = d

\* What is neither in use nor free: pages that are marked and of no use,
\* descriptors in no list, objects of chained pages, and pages that are not
\* counted.  What a call that is under way has in hand is not lost.
Calling(places) == {calls[c] : c \in {x \in Callers : calls[x].at \in places}}

LostPages ==
  Marked \ (carved \cup {page[d] : d \in Chained}
            \cup {k.page : k \in Calling({"carve", "count", "link", "chain"})})
LostDescs ==
  {d \in Desc : d[1] \in carved} \ (Chained \cup Elems(Unused)
                                     \cup {calls[c].desc : c \in Callers})
LostObjects ==
  {x \in Desc \X (0 .. PAGE_SIZE - 1) :
     \E b \in Buckets : /\ x[1] \in Elems(ChainOf(b))
                       /\ x[2] < Capacity(b)
                       /\ x[2] \notin Elems(freeptr[x[1]]) \cup Used(x[1])}
  \ {<<k.desc, k.nr>> : k \in Calling({"return"})}
Counting == Cardinality(Calling({"count"}))
Uncounted == Cardinality(Marked) - bitmap_item_used - Counting

\* A call that is cut off loses at most one page, one descriptor, one object
\* and one count; a call that fails for want of a page loses a descriptor;
\* nothing else is ever lost.
LossesBounded ==
  /\ Cardinality(LostPages) <= cut
  /\ Cardinality(LostDescs) <= cut + failed
  /\ Cardinality(LostObjects) <= cut
  /\ Uncounted \in 0 .. cut

\* Every object that a caller holds lies in a page that is in use, which is
\* what the CLI "to avoid race conditions" (malloc.c:87) is for.
HeldInUse == \A o \in live : map[o.page] = 1

\* The bytes the holder of an object may use, those it has asked for.
Extent(o) ==
  LET first == o.page * PAGE_SIZE + o.nr * Sizes[BucketFor(o.len)]
  IN  <<first, first + o.len - 1>>

\* kmalloc() and kfree_s() keep the promise of Heap, whatever calls are cut
\* off.
Abstract == INSTANCE Heap WITH Bytes <- 0 .. pages_total * PAGE_SIZE - 1,
                               live <- {Extent(o) : o \in live}
HeapSpec == Abstract!HeapSpec

\* As long as no call is cut off, the heap uses the page allocator as that expects: it
\* frees only pages that it got and did not free yet.
PagesOfHeap ==
  INSTANCE PageAlloc WITH held <- Marked, StrayFrees <- {},
                          bitmap_item_used <- bitmap_item_used + Counting
PageSpec ==
  /\ PagesOfHeap!Init
  /\ [][cut' = 0 => PagesOfHeap!Next]_<<map, bitmap_item_used + Counting>>
=============================================================================
