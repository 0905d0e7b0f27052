------------------------------ MODULE BootMemory ------------------------------
(***************************************************************************)
(* How the kernel learns what memory there is: setup asks the BIOS for the *)
(* memory map entry by entry (boot/setup.asm), loads the kernel image      *)
(* behind the buffer those entries are in, and memory_init() looks for the *)
(* region that starts at 1 MB (mm/memory.c).  memory_map_int() then clears *)
(* one byte per page for the page allocator, from 0x10000 on; the stack it *)
(* runs on ends at 0x9FBFF.  The BIOS is the environment.                  *)
(*                                                                         *)
(* Addresses are scaled down: Word stands for 2^32, PageSize for 4096.     *)
(***************************************************************************)
EXTENDS Integers, Sequences

CONSTANTS
  Word,               \* 2^32: the kernel computes modulo Word
  PageSize,
  VALID_MEMORY_FROM,  \* the start of the region the kernel uses, 1 MB
  Capacity,           \* the entries that fit below the kernel image, 12
  MapRoom,            \* the bytes from the map up to the frame of memset()
  Entries,            \* the entries a BIOS may report
  Image,              \* the words of the kernel image, read as entries
  MaxEntries          \* bound: the entries of one report

ZONE_VALID == 1

\* An entry of the BIOS: base and length in two halves each.
Item == [base_addr_high : Nat, base_addr_low : 0 .. Word - 1,
         length_high : Nat, length_low : 0 .. Word - 1, type : Nat]

ASSUME MemoryAssumption ==
  /\ Word \in Nat \ {0} /\ PageSize \in Nat \ {0}
  /\ VALID_MEMORY_FROM \in 1 .. Word - 1
  /\ Capacity \in Nat /\ MapRoom \in Nat /\ MaxEntries \in Nat \ {0}
ASSUME EntriesAssumption == Entries \subseteq Item /\ Image \subseteq Item

VARIABLES
  pc,
  reported,      \* what the BIOS has said
  ards,          \* what the buffer holds when the kernel reads it
  i,             \* the loop variable of memory_init()
  addr_start, addr_end, valid_mem_size, pages_total,  \* g_physics_memory
  map_total      \* g_physics_memory_map.pages_total

vars == <<pc, reported, ards, i, addr_start, addr_end, valid_mem_size,
          pages_total, map_total>>

Init ==
  /\ pc = "e820"
  /\ reported = <<>> /\ ards = <<>>
  /\ i = 0
  /\ addr_start = 0 /\ addr_end = 0 /\ valid_mem_size = 0
  /\ pages_total = 0 /\ map_total = 0

-----------------------------------------------------------------------------
(***************************************************************************)
(* setup.asm                                                               *)
(***************************************************************************)
\* INT 15h stores one entry; ebx tells whether there are more.
memory_check ==
  /\ pc = "e820"
  /\ \E e \in Entries, more \in BOOLEAN :
       /\ more => Len(reported) + 1 < MaxEntries
       /\ reported' = Append(reported, e)
       /\ pc' = IF more THEN "e820" ELSE "load"
  /\ UNCHANGED <<ards, i, addr_start, addr_end, valid_mem_size, pages_total,
                 map_total>>

\* The carry flag ends everything in an endless loop.
memory_check_error ==
  /\ pc = "e820"
  /\ pc' = "halted"
  /\ UNCHANGED <<reported, ards, i, addr_start, addr_end, valid_mem_size,
                 pages_total, map_total>>

\* What is left of entry e in place k when the image has words x there.  The
\* thirteenth entry starts 14 bytes below the image: its type and two bytes of
\* length_high, which nobody reads, are the image's.
Overwritten(e, x, k) ==
  IF k = Capacity + 1
    THEN [e EXCEPT !.length_high = x.length_high, !.type = x.type]
    ELSE x

\* The kernel image is read to 0x1200, over all entries behind the first 12.
protected_mode ==
  /\ pc = "load"
  /\ \E image \in [Capacity + 1 .. Len(reported) -> Image] :
       ards' = [k \in 1 .. Len(reported) |->
                  IF k <= Capacity THEN reported[k]
                  ELSE Overwritten(reported[k], image[k], k)]
  /\ pc' = "scan"
  /\ UNCHANGED <<reported, i, addr_start, addr_end, valid_mem_size,
                 pages_total, map_total>>

-----------------------------------------------------------------------------
(***************************************************************************)
(* memory_init(), one iteration per step, and memory_map_int().            *)
(***************************************************************************)
\* A mutant: the type of a region is not looked at.
Usable_untyped(e) == e.base_addr_low > 0

Usable(e) == e.base_addr_low > 0 /\ e.type = ZONE_VALID

Noted(e) ==
  /\ addr_start' = e.base_addr_low
  /\ valid_mem_size' = e.length_low
  /\ addr_end' = (e.base_addr_low + e.length_low) % Word

\* A mutant: the loop goes on after the region at 1 MB.
ScanItem_on ==
  /\ pc = "scan" /\ i < Len(ards)
  /\ IF Usable(ards[i + 1]) THEN Noted(ards[i + 1])
     ELSE UNCHANGED <<addr_start, valid_mem_size, addr_end>>
  /\ i' = i + 1
  /\ UNCHANGED <<pc, reported, ards, pages_total, map_total>>

ScanItem ==
  /\ pc = "scan" /\ i < Len(ards)
  /\ IF Usable(ards[i + 1]) THEN Noted(ards[i + 1])
     ELSE UNCHANGED <<addr_start, valid_mem_size, addr_end>>
  /\ IF Usable(ards[i + 1]) /\ addr_start' = VALID_MEMORY_FROM
       THEN pc' = "size" /\ i' = i
       ELSE pc' = pc /\ i' = i + 1
  /\ UNCHANGED <<reported, ards, pages_total, map_total>>

ScanEnd ==
  /\ pc = "scan" /\ i >= Len(ards)
  /\ pc' = "size"
  /\ UNCHANGED <<reported, ards, i, addr_start, addr_end, valid_mem_size,
                 pages_total, map_total>>

\* A mutant: the pages below the region are counted too.
Size_all ==
  /\ pc = "size"
  /\ pages_total' = IF addr_start = VALID_MEMORY_FROM
                      THEN addr_end \div PageSize ELSE pages_total
  /\ pc' = "map"
  /\ UNCHANGED <<reported, ards, i, addr_start, addr_end, valid_mem_size,
                 map_total>>

\* Without a region at 1 MB memory_init() prints a message and returns.
Size ==
  /\ pc = "size"
  /\ pages_total' = IF addr_start = VALID_MEMORY_FROM
                      THEN ((addr_end - addr_start) % Word) \div PageSize
                      ELSE pages_total
  /\ pc' = "map"
  /\ UNCHANGED <<reported, ards, i, addr_start, addr_end, valid_mem_size,
                 map_total>>

\* A map that reaches memset()'s own frame clears the address to return to;
\* what happens then is not followed.
memory_map_int ==
  /\ pc = "map"
  /\ IF addr_start = VALID_MEMORY_FROM
       THEN /\ map_total' = pages_total
            /\ pc' = IF pages_total <= MapRoom THEN "done" ELSE "smashed"
       ELSE pc' = "done" /\ UNCHANGED map_total
  /\ UNCHANGED <<reported, ards, i, addr_start, addr_end, valid_mem_size,
                 pages_total>>

Next == \/ memory_check \/ memory_check_error \/ protected_mode
        \/ ScanItem \/ ScanEnd \/ Size \/ memory_map_int

Spec == Init /\ [][Next]_vars

-----------------------------------------------------------------------------
(***************************************************************************)
(* Properties.                                                             *)
(***************************************************************************)

\* What memory_init() takes for the region at 1 MB, and what really is it: of
\* an address memory_init() reads the low half only.
LooksAtStart(e) ==
  e.base_addr_low = VALID_MEMORY_FROM /\ e.type = ZONE_VALID
AtStart(e) == LooksAtStart(e) /\ e.base_addr_high = 0

\* The addresses of a region that the BIOS reported.
Length(e) == e.length_high * Word + e.length_low
Region(e) ==
  LET base == e.base_addr_high * Word + e.base_addr_low
  IN  base .. base + Length(e) - 1

\* Entry k is the available region at 1 MB, it is not behind the end of the
\* buffer, and none before it looks like it (no region does that lies below
\* 4 GB, unless the same one is reported twice).
FirstAtStart(k) ==
  /\ k \in 1 .. Len(reported) /\ k <= Capacity
  /\ AtStart(reported[k])
  /\ \A l \in 1 .. k - 1 : ~LooksAtStart(reported[l])

\* The allocator gets the available region at 1 MB, whatever other regions are
\* reported before and after it and whatever the kernel image makes of the
\* report: never more pages than the region has, and all of them if it is
\* shorter than 4 GB.  If the report fits in its buffer and nothing looks like
\* the region at 1 MB, the allocator gets no page.
ScanExact ==
  pc = "done" =>
    /\ \A k \in 1 .. Len(reported) : FirstAtStart(k) =>
         LET pages == Length(reported[k]) \div PageSize
         IN  /\ map_total <= pages
             /\ Length(reported[k]) < Word => map_total = pages
    /\ Len(reported) <= Capacity
       /\ (\A k \in 1 .. Len(reported) : ~LooksAtStart(reported[k]))
       => map_total = 0

\* The addresses of page p of the allocator.
PageBytes(p) ==
  VALID_MEMORY_FROM + p * PageSize .. VALID_MEMORY_FROM + (p + 1) * PageSize - 1

\* Every page that can be handed out is memory that the BIOS reported as
\* available, if it reported the region at 1 MB.
UsableOnly ==
  pc = "done" /\ (\E k \in 1 .. Len(reported) : FirstAtStart(k)) =>
    \A p \in 0 .. map_total - 1 : \A a \in PageBytes(p) :
      \E k \in 1 .. Len(reported) :
        reported[k].type = ZONE_VALID /\ a \in Region(reported[k])

\* Every page that get_free_page() can return passes the range check of
\* free_page(), so that it can be given back, if the region at 1 MB ends below
\* 4 GB: memory_init() computes the end modulo 2^32.
FreeAccepts ==
  pc = "done"
  /\ (\E k \in 1 .. Len(reported) :
        FirstAtStart(k) /\ VALID_MEMORY_FROM + Length(reported[k]) < Word)
  => \A p \in 0 .. map_total - 1 :
       LET address == VALID_MEMORY_FROM + p * PageSize
       IN  addr_start <= address /\ address <= addr_end
=============================================================================
