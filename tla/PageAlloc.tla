------------------------------ MODULE PageAlloc ------------------------------
(***************************************************************************)
(* The physical page allocator (mm/memory.c, get_free_page and free_page). *)
(* Page i is the 4 KB at addr_base + 4096 i.  The map has one byte per     *)
(* page; the search for a free page starts at index bitmap_item_used, the  *)
(* number of pages in use, and not at 0.                                   *)
(*                                                                         *)
(* Every call is atomic here.  Callers free what they hold, except that    *)
(* StrayFrees names indices behind the last page that some caller may also *)
(* pass to free_page(), which is meant to reject them.                     *)
(***************************************************************************)
EXTENDS Integers, FiniteSets

CONSTANTS
  pages_total,  \* the number of pages
  StrayFrees    \* indices of no page that are passed to free_page() too

ASSUME PagesAssumption == pages_total \in Nat
ASSUME StrayAssumption ==
  StrayFrees \subseteq Int /\ \A i \in StrayFrees : i >= pages_total

VARIABLES
  map,               \* map[i] is 1 iff page i is taken
  bitmap_item_used,  \* the number of pages in use
  held               \* the pages the callers have been given and not freed

vars == <<map, bitmap_item_used, held>>

Pages == 0 .. pages_total - 1

Init ==
  /\ map = [i \in Pages |-> 0]
  /\ bitmap_item_used = 0
  /\ held = {}

\* A mutant: the search starts one index too late.
Candidates_late == {i \in Pages : i > bitmap_item_used /\ map[i] = 0}

\* The indices the search of get_free_page() finds free, in one map.
Candidates == {i \in Pages : i >= bitmap_item_used /\ map[i] = 0}

get_free_page ==
  /\ \E i \in Candidates :
       /\ \A j \in Candidates : i <= j
       /\ map' = [map EXCEPT ![i] = 1]
       /\ held' = held \cup {i}
  /\ bitmap_item_used' = bitmap_item_used + 1

\* When it finds none, it prints "need to expand memory !", returns NULL and
\* leaves everything as it is.
SearchFails == Candidates = {}

get_free_page_fails ==
  /\ SearchFails
  /\ UNCHANGED vars

\* A mutant: the counter is not reduced.
free_page_uncounted(i) ==
  /\ map' = [map EXCEPT ![i] = 0]
  /\ held' = held \ {i}
  /\ UNCHANGED bitmap_item_used

\* An address up to and including addr_end passes the range check, so that
\* index pages_total is accepted: its byte lies behind the map.
free_page(i) ==
  IF i > pages_total
    THEN UNCHANGED vars
    ELSE /\ map' = [map EXCEPT ![i] = 0]
         /\ bitmap_item_used' = bitmap_item_used - 1
         /\ held' = held \ {i}

FreeHeld == \E i \in held : free_page(i)

FreeStray == \E i \in StrayFrees : free_page(i)

Next == get_free_page \/ get_free_page_fails \/ FreeHeld \/ FreeStray

Spec == Init /\ [][Next]_vars

-----------------------------------------------------------------------------
\* Every variable has its type.
TypeOK ==
  /\ map \in [Pages -> {0, 1}]
  /\ bitmap_item_used \in Int
  /\ held \subseteq Pages

\* The map marks exactly the pages that callers hold.
MapMarksHeld == \A i \in Pages : map[i] = 1 <=> i \in held

\* bitmap_item_used, kept by increments and decrements, is the number of
\* pages in use.
UsedCounts == bitmap_item_used = Cardinality(held)

\* Although the search starts in the middle of the map, it fails only when at
\* least half of all pages are in use.
FailsOnlyHalfFull == SearchFails => 2 * Cardinality(held) >= pages_total
=============================================================================
