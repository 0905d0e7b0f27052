----------------------------- MODULE MCBootMemory -----------------------------
(***************************************************************************)
(* BootMemory for TLC: a 16-unit address space, 2-unit pages, the kernel's *)
(* region starting at 4.                                                   *)
(***************************************************************************)
EXTENDS BootMemory

Entry(high, low, length_high, length_low, type) ==
  [base_addr_high |-> high, base_addr_low |-> low,
   length_high |-> length_high, length_low |-> length_low, type |-> type]

\* The low memory; in the kernel's place a reserved region and available ones
\* of odd size, up to the end of the address space, too large for the map, and
\* beyond the address space; one that looks like them above it; one in the
\* middle.
MCEntries ==
  {Entry(0, 0, 0, 1, 1), Entry(0, 4, 0, 6, 2), Entry(0, 4, 0, 5, 1),
   Entry(0, 4, 0, 11, 1), Entry(0, 4, 0, 13, 1), Entry(0, 4, 1, 7, 1),
   Entry(1, 4, 0, 6, 1), Entry(0, 11, 0, 4, 1)}

\* Parts of the kernel image that are no entry, a region in the kernel's place,
\* and regions that run around the end of the address space.
MCImage ==
  {Entry(7, 0, 7, 9, 9), Entry(0, 4, 0, 8, 1), Entry(5, 4, 2, 14, 1),
   Entry(2, 13, 0, 9, 1)}
=============================================================================
