--------------------------- MODULE PageAllocProofs ---------------------------
(***************************************************************************)
(* Proofs about PageAlloc for every number of pages.  They assume that the *)
(* one address the range check of free_page() lets through by mistake,     *)
(* addr_end, is not passed to it.                                          *)
(***************************************************************************)
EXTENDS PageAlloc, FiniteSetTheorems, TLAPS

NoEndFree == pages_total \notin StrayFrees

IInv == TypeOK /\ MapMarksHeld /\ UsedCounts

\* The pages are finitely many, and so are those that are held.
LEMMA HeldFinite ==
  ASSUME TypeOK
  PROVE  /\ IsFiniteSet(Pages) /\ Cardinality(Pages) = pages_total
         /\ IsFiniteSet(held) /\ Cardinality(held) \in Nat
         /\ Cardinality(held) <= pages_total
<1>1. IsFiniteSet(Pages) /\ Cardinality(Pages) = pages_total
  BY PagesAssumption, FS_Interval DEF Pages
<1>2. held \in SUBSET Pages
  BY DEF TypeOK
<1>. QED
  BY <1>1, <1>2, FS_Subset, FS_CardinalityType

LEMMA InitInv ==
  ASSUME Init
  PROVE  IInv
BY FS_EmptySet DEF Init, IInv, TypeOK, MapMarksHeld, UsedCounts, Pages

\* A page is only given out when the map says it is free, so it is new to the
\* set of held pages and the counter goes up with the set's size.
LEMMA AllocKeeps ==
  ASSUME IInv, get_free_page
  PROVE  IInv'
<1>1. PICK i \in Candidates : /\ map' = [map EXCEPT ![i] = 1]
                              /\ held' = held \cup {i}
  BY DEF get_free_page
<1>2. i \in Pages /\ i \notin held
  BY <1>1 DEF Candidates, IInv, MapMarksHeld
<1>3. TypeOK' /\ MapMarksHeld'
  <2>1. map' \in [Pages -> {0, 1}] /\ MapMarksHeld'
    BY <1>1, <1>2 DEF IInv, TypeOK, MapMarksHeld
  <2>. QED
    BY <1>1, <1>2, <2>1 DEF get_free_page, IInv, TypeOK
<1>4. Cardinality(held') = Cardinality(held) + 1
  BY <1>1, <1>2, HeldFinite, FS_AddElement DEF IInv
<1>. QED
  BY <1>3, <1>4 DEF get_free_page, IInv, UsedCounts

LEMMA FreeKeeps ==
  ASSUME IInv, NEW i \in held, free_page(i)
  PROVE  IInv'
<1>1. i \in Pages /\ ~(i > pages_total)
  BY PagesAssumption DEF IInv, TypeOK, Pages
<1>2. TypeOK' /\ MapMarksHeld'
  <2>1. map' = [map EXCEPT ![i] = 0] /\ held' = held \ {i}
    BY <1>1 DEF free_page
  <2>2. map' \in [Pages -> {0, 1}] /\ MapMarksHeld'
    BY <1>1, <2>1 DEF IInv, TypeOK, MapMarksHeld
  <2>. QED
    BY <1>1, <2>1, <2>2 DEF free_page, IInv, TypeOK
<1>3. Cardinality(held') = Cardinality(held) - 1
  BY <1>1, HeldFinite, FS_RemoveElement DEF free_page, IInv
<1>. QED
  BY <1>1, <1>2, <1>3 DEF free_page, IInv, UsedCounts

LEMMA StrayKeeps ==
  ASSUME NoEndFree, IInv, FreeStray
  PROVE  IInv'
<1>1. PICK i \in StrayFrees : free_page(i)
  BY DEF FreeStray
<1>2. UNCHANGED vars
  BY <1>1, StrayAssumption, PagesAssumption DEF NoEndFree, free_page
<1>. QED
  BY <1>2 DEF vars, IInv, TypeOK, MapMarksHeld, UsedCounts

LEMMA StepInv ==
  ASSUME NoEndFree, IInv, [Next]_vars
  PROVE  IInv'
<1>1. CASE get_free_page
  BY <1>1, AllocKeeps
<1>2. CASE get_free_page_fails
  BY <1>2 DEF get_free_page_fails, vars, IInv, TypeOK, MapMarksHeld, UsedCounts
<1>3. CASE FreeHeld
  BY <1>3, FreeKeeps DEF FreeHeld
<1>4. CASE FreeStray
  BY <1>4, StrayKeeps
<1>5. CASE UNCHANGED vars
  BY <1>5 DEF vars, IInv, TypeOK, MapMarksHeld, UsedCounts
<1>. QED
  BY <1>1, <1>2, <1>3, <1>4, <1>5 DEF Next

\* The bookkeeping of the allocator: the map marks exactly the pages callers
\* hold and the counter bitmap_item_used is their number.
THEOREM Bookkeeping ==
  ASSUME NoEndFree
  PROVE  Spec => [](TypeOK /\ MapMarksHeld /\ UsedCounts)
<1>1. Init => IInv
  BY InitInv
<1>2. IInv /\ [Next]_vars => IInv'
  BY StepInv
<1>. QED
  BY <1>1, <1>2, PTL DEF Spec, IInv

\* When the search fails, all pages from index bitmap_item_used on are taken;
\* they are as many as pages_total - bitmap_item_used, so that at least half
\* of the pages are in use.
THEOREM HalfFull ==
  ASSUME NoEndFree
  PROVE  Spec => []FailsOnlyHalfFull
<1>1. IInv => FailsOnlyHalfFull
  <2> SUFFICES ASSUME IInv, SearchFails
               PROVE  2 * Cardinality(held) >= pages_total
    BY DEF FailsOnlyHalfFull
  <2> DEFINE u == bitmap_item_used
             top == u .. pages_total - 1
  <2>1. u \in Nat /\ u <= pages_total /\ u = Cardinality(held)
    BY HeldFinite DEF IInv, UsedCounts
  <2>2. top \in SUBSET held
    BY <2>1, PagesAssumption
       DEF SearchFails, Candidates, IInv, TypeOK, MapMarksHeld, Pages
  <2>3. Cardinality(top) <= Cardinality(held)
    BY <2>2, HeldFinite, FS_Subset DEF IInv
  <2>4. Cardinality(top) = pages_total - u
    BY <2>1, PagesAssumption, FS_Interval
  <2>. QED
    BY <2>1, <2>3, <2>4, PagesAssumption
<1>2. Spec => []IInv
  BY Bookkeeping, PTL DEF IInv
<1>. QED
  BY <1>1, <1>2, PTL
=============================================================================
