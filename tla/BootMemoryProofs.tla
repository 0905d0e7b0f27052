--------------------------- MODULE BootMemoryProofs ---------------------------
(***************************************************************************)
(* Proofs about BootMemory, for every report of a BIOS, kernel image, word *)
(* and page size, buffer and room for the map.                             *)
(***************************************************************************)
EXTENDS BootMemory, SequenceTheorems, TLAPS

Found == addr_start = VALID_MEMORY_FROM

\* Before the loop of memory_init(), and behind it.
Early == pc \in {"e820", "load", "halted"}
Late == pc \in {"size", "map", "done", "smashed"}

TypeInv ==
  /\ pc \in {"e820", "load", "halted", "scan", "size", "map", "done",
            "smashed"}
  /\ reported \in Seq(Entries) /\ ards \in Seq(Item)
  /\ i \in Nat
  /\ addr_start \in 0 .. Word - 1 /\ addr_end \in 0 .. Word - 1
  /\ pages_total \in Nat /\ map_total \in Nat

\* The kernel reads the report up to the kernel image.
CopyInv ==
  ~Early =>
    /\ Len(ards) = Len(reported)
    /\ \A k \in 1 .. Len(ards) : k <= Capacity => ards[k] = reported[k]

\* No entry the loop has passed is in the place of the kernel; the loop ends
\* behind the report or stays at the first that is.
ScanInv ==
  /\ Early => i = 0 /\ addr_start = 0
  /\ ~Early => i <= Len(ards)
  /\ \A k \in 1 .. i : ~LooksAtStart(ards[k])
  /\ Late /\ ~Found => i = Len(ards)
  /\ Found => /\ Late /\ i < Len(ards)
              /\ LooksAtStart(ards[i + 1])
              /\ addr_end =
                   (VALID_MEMORY_FROM + ards[i + 1].length_low) % Word

\* The pages that memory_init() and memory_map_int() count.
SizeInv ==
  /\ pages_total = IF pc \in {"map", "done", "smashed"} /\ Found
                     THEN ards[i + 1].length_low \div PageSize ELSE 0
  /\ map_total = IF pc \in {"done", "smashed"} THEN pages_total ELSE 0

IInv == TypeInv /\ CopyInv /\ ScanInv /\ SizeInv

-----------------------------------------------------------------------------
\* Base and length of a region from the sum modulo Word that the kernel keeps.
LEMMA SizeBack ==
  ASSUME NEW n \in 0 .. Word - 1
  PROVE  (((VALID_MEMORY_FROM + n) % Word) - VALID_MEMORY_FROM) % Word = n
<1>  DEFINE b == VALID_MEMORY_FROM
<1>1. b \in Nat /\ b < Word /\ n \in Nat /\ n < Word /\ Word \in Nat
  BY MemoryAssumption
<1>2. CASE b + n < Word
  <2>1. (b + n) % Word = b + n
    BY <1>1, <1>2
  <2>2. (b + n) - b = n /\ n % Word = n
    BY <1>1
  <2>. QED  BY <2>1, <2>2
<1>3. CASE ~(b + n < Word)
  <2>1. (b + n) % Word = (b + n) - Word
    BY <1>1, <1>3
  <2>2. ((b + n) - Word) - b = n - Word /\ (n - Word) % Word = n
    BY <1>1
  <2>. QED  BY <2>1, <2>2
<1>. QED  BY <1>2, <1>3

\* Whole pages fit.
LEMMA WholePages ==
  ASSUME NEW n \in Nat
  PROVE  n \div PageSize \in Nat /\ (n \div PageSize) * PageSize <= n
BY MemoryAssumption

\* What an entry is made of.
LEMMA EntryIsItem ==
  ASSUME NEW s \in Seq(Item), NEW k \in 1 .. Len(s)
  PROVE  /\ s[k].base_addr_low \in 0 .. Word - 1
         /\ s[k].length_low \in 0 .. Word - 1
         /\ s[k].base_addr_high \in Nat /\ s[k].length_high \in Nat
<1>1. s[k] \in Item
  BY ElementOfSeq
<1>. QED  BY <1>1, ElementOfSeq DEF Item

\* 1 MB is not 0, and fits in a word.
LEMMA StartInRange ==
  /\ VALID_MEMORY_FROM \in Nat /\ 0 < VALID_MEMORY_FROM
  /\ VALID_MEMORY_FROM <= Word - 1 /\ Word \in Nat
BY MemoryAssumption

-----------------------------------------------------------------------------
LEMMA Initially ==
  ASSUME Init
  PROVE  IInv
<1>1. TypeInv
  <2>1. <<>> \in Seq(Entries) /\ <<>> \in Seq(Item) /\ 0 \in 0 .. Word - 1
    BY EmptySeq, StartInRange
  <2>. QED  BY <2>1 DEF Init, TypeInv
<1>2. SizeInv
  BY DEF Init, SizeInv
<1>. QED  BY <1>1, <1>2, StartInRange
          DEF Init, IInv, CopyInv, ScanInv, Early, Late, Found

\* setup.asm neither scans nor counts.
LEMMA SetupKeeps ==
  ASSUME IInv, memory_check \/ memory_check_error
  PROVE  IInv'
<1>1. /\ pc = "e820" /\ pc' \in {"e820", "load", "halted"}
      /\ UNCHANGED <<ards, i, addr_start, addr_end, valid_mem_size,
                     pages_total, map_total>>
  BY DEF memory_check, memory_check_error
<1>2. reported' \in Seq(Entries)
  <2>1. reported \in Seq(Entries)
    BY DEF IInv, TypeInv
  <2>2. ASSUME NEW e \in Entries
        PROVE  Append(reported, e) \in Seq(Entries)
    BY <2>1, AppendProperties
  <2>3. \/ \E e \in Entries : reported' = Append(reported, e)
        \/ reported' = reported
    BY DEF memory_check, memory_check_error
  <2>. QED  BY <2>1, <2>2, <2>3
<1>3. TypeInv'
  <2>1. TypeInv
    BY DEF IInv
  <2>. QED  BY <1>1, <1>2, <2>1 DEF TypeInv
<1>4. i = 0 /\ addr_start = 0
  BY <1>1 DEF IInv, ScanInv, Early
<1>5. CopyInv' /\ ScanInv'
  BY <1>1, <1>4, StartInRange
  DEF CopyInv, ScanInv, Early, Late, Found
<1>6. SizeInv'
  BY <1>1 DEF IInv, SizeInv, Found
<1>. QED  BY <1>3, <1>5, <1>6 DEF IInv

\* The image replaces what lies behind the first entries only.
LEMMA LoadKeeps ==
  ASSUME IInv, protected_mode
  PROVE  IInv'
<1>1. /\ pc = "load" /\ pc' = "scan"
      /\ UNCHANGED <<reported, i, addr_start, addr_end, valid_mem_size,
                     pages_total, map_total>>
  BY DEF protected_mode
<1>2. PICK image \in [Capacity + 1 .. Len(reported) -> Image] :
        ards' = [k \in 1 .. Len(reported) |->
                   IF k <= Capacity THEN reported[k]
                   ELSE Overwritten(reported[k], image[k], k)]
  BY DEF protected_mode
<1>3. Len(reported) \in Nat /\ Capacity \in Nat
  BY MemoryAssumption DEF IInv, TypeInv
<1>4. \A k \in 1 .. Len(reported) :
        (IF k <= Capacity THEN reported[k]
         ELSE Overwritten(reported[k], image[k], k)) \in Item
  <2>1. \A k \in 1 .. Len(reported) : reported[k] \in Item
    BY ElementOfSeq, EntriesAssumption DEF IInv, TypeInv
  <2>2. \A k \in 1 .. Len(reported) :
          ~(k <= Capacity) => image[k] \in Item
    BY <1>3, EntriesAssumption
  <2>3. ASSUME NEW k \in 1 .. Len(reported), ~(k <= Capacity)
        PROVE  Overwritten(reported[k], image[k], k) \in Item
    <3>1. reported[k] \in Item /\ image[k] \in Item
      BY <2>1, <2>2, <2>3
    <3>. QED  BY <3>1 DEF Overwritten, Item
  <2>. QED  BY <2>1, <2>3
<1>5. ards' \in Seq(Item) /\ Len(ards') = Len(reported)
  <2>1. ards' \in [1 .. Len(reported) -> Item]
    BY <1>2, <1>4
  <2>. QED  BY <1>3, <2>1, IsASeq, LenProperties
<1>6. TypeInv'
  BY <1>1, <1>5 DEF IInv, TypeInv
<1>7. CopyInv'
  BY <1>1, <1>2, <1>5 DEF CopyInv
<1>8. i = 0 /\ addr_start = 0
  BY <1>1 DEF IInv, ScanInv, Early
<1>9. ScanInv'
  BY <1>1, <1>3, <1>5, <1>8, StartInRange DEF ScanInv, Early, Late, Found
<1>10. SizeInv'
  BY <1>1 DEF IInv, SizeInv
<1>. QED  BY <1>6, <1>7, <1>9, <1>10 DEF IInv

\* The loop stops at the first available region at 1 MB.
LEMMA ScanItemKeeps ==
  ASSUME IInv, ScanItem
  PROVE  IInv'
<1>  DEFINE e == ards[i + 1]
<1>1. /\ pc = "scan" /\ i < Len(ards) /\ i \in Nat /\ Len(ards) \in Nat
      /\ UNCHANGED <<reported, ards, pages_total, map_total>>
      /\ ~Found
  BY DEF IInv, TypeInv, ScanInv, Late, ScanItem
<1>2. /\ e.base_addr_low \in 0 .. Word - 1
      /\ (e.base_addr_low + e.length_low) % Word \in 0 .. Word - 1
  <2>1. e.base_addr_low \in 0 .. Word - 1 /\ e.length_low \in 0 .. Word - 1
    BY <1>1, EntryIsItem DEF IInv, TypeInv
  <2>2. e.base_addr_low + e.length_low \in Nat /\ Word \in Nat \ {0}
    BY <2>1, StartInRange
  <2>. QED  BY <2>1, <2>2
<1>3. CASE Usable(e) /\ addr_start' = VALID_MEMORY_FROM
  <2>1. /\ pc' = "size" /\ i' = i
        /\ addr_start' = e.base_addr_low
        /\ addr_end' = (e.base_addr_low + e.length_low) % Word
    BY <1>3 DEF ScanItem, Noted
  <2>2. TypeInv'
    BY <1>1, <1>2, <2>1 DEF IInv, TypeInv
  <2>3. CopyInv'
    BY <1>1, <2>1 DEF IInv, CopyInv, Early
  <2>4. /\ LooksAtStart(e)'
        /\ addr_end' = (VALID_MEMORY_FROM + e.length_low) % Word
    BY <1>1, <1>3, <2>1 DEF LooksAtStart, Usable
  <2>5. ScanInv'
    BY <1>1, <1>3, <2>1, <2>4
    DEF IInv, ScanInv, LooksAtStart, Early, Late, Found
  <2>6. SizeInv'
    BY <1>1, <2>1 DEF IInv, SizeInv
  <2>. QED  BY <2>2, <2>3, <2>5, <2>6 DEF IInv
<1>4. CASE ~(Usable(e) /\ addr_start' = VALID_MEMORY_FROM)
  <2>1. pc' = "scan" /\ i' = i + 1
    BY <1>1, <1>4 DEF ScanItem
  <2>2. /\ addr_start' = addr_start /\ addr_end' = addr_end
        \/ /\ Usable(e) /\ addr_start' = e.base_addr_low
           /\ addr_end' = (e.base_addr_low + e.length_low) % Word
    BY DEF ScanItem, Noted
  <2>3. addr_start' # VALID_MEMORY_FROM
    BY <1>1, <1>4, <2>2 DEF Found
  <2>4. ~LooksAtStart(e)
    <3>1. Usable(e) => addr_start' = e.base_addr_low
      BY DEF ScanItem, Noted
    <3>2. LooksAtStart(e) => Usable(e)
      BY StartInRange DEF LooksAtStart, Usable
    <3>. QED  BY <2>3, <3>1, <3>2 DEF LooksAtStart
  <2>5. \A k \in 1 .. i + 1 : ~LooksAtStart(ards[k])
    <3>1. \A k \in 1 .. i : ~LooksAtStart(ards[k])
      BY DEF IInv, ScanInv
    <3>2. \A k \in 1 .. i + 1 : k \in 1 .. i \/ k = i + 1
      BY <1>1
    <3>. QED  BY <2>4, <3>1, <3>2
  <2>6. TypeInv'
    BY <1>1, <1>2, <2>1, <2>2 DEF IInv, TypeInv
  <2>7. CopyInv'
    BY <1>1, <2>1 DEF IInv, CopyInv, Early
  <2>8. ScanInv'
    BY <1>1, <2>1, <2>3, <2>5
    DEF IInv, ScanInv, LooksAtStart, Early, Late, Found
  <2>9. SizeInv'
    BY <1>1, <2>1 DEF IInv, SizeInv
  <2>. QED  BY <2>6, <2>7, <2>8, <2>9 DEF IInv
<1>. QED  BY <1>3, <1>4

LEMMA ScanEndKeeps ==
  ASSUME IInv, ScanEnd
  PROVE  IInv'
<1>1. /\ pc = "scan" /\ pc' = "size" /\ i >= Len(ards)
      /\ UNCHANGED <<reported, ards, i, addr_start, addr_end, valid_mem_size,
                     pages_total, map_total>>
      /\ i \in Nat /\ Len(ards) \in Nat
  BY DEF ScanEnd, IInv, TypeInv
<1>2. i = Len(ards)
  BY <1>1 DEF IInv, ScanInv, Early
<1>3. TypeInv' /\ CopyInv'
  BY <1>1 DEF IInv, TypeInv, CopyInv, Early
<1>4. ScanInv'
  BY <1>1, <1>2 DEF IInv, ScanInv, LooksAtStart, Early, Late, Found
<1>5. SizeInv'
  BY <1>1 DEF IInv, SizeInv
<1>. QED  BY <1>3, <1>4, <1>5 DEF IInv

\* The difference of end and start is the length, modulo Word.
LEMMA SizeKeeps ==
  ASSUME IInv, Size
  PROVE  IInv'
<1>1. /\ pc = "size" /\ pc' = "map"
      /\ UNCHANGED <<reported, ards, i, addr_start, addr_end, valid_mem_size,
                     map_total>>
  BY DEF Size
<1>2. CopyInv' /\ ScanInv'
  BY <1>1 DEF IInv, CopyInv, ScanInv, LooksAtStart, Early, Late, Found
<1>3. pages_total' = IF Found THEN ards[i + 1].length_low \div PageSize ELSE 0
  <2>1. CASE Found
    <3>1. i + 1 \in 1 .. Len(ards)
      BY <2>1 DEF IInv, TypeInv, ScanInv
    <3>2. ards[i + 1].length_low \in 0 .. Word - 1
      BY <3>1, EntryIsItem DEF IInv, TypeInv
    <3>3. ((addr_end - addr_start) % Word) = ards[i + 1].length_low
      BY <2>1, <3>2, SizeBack DEF IInv, ScanInv, Found
    <3>. QED  BY <2>1, <3>3 DEF Size, Found
  <2>2. CASE ~Found
    BY <1>1, <2>2 DEF IInv, SizeInv, Size, Found
  <2>. QED  BY <2>1, <2>2
<1>4. pages_total' \in Nat
  <2>1. Found => ards[i + 1].length_low \in Nat
    <3>1. Found => i + 1 \in 1 .. Len(ards)
      BY DEF IInv, TypeInv, ScanInv
    <3>. QED  BY <3>1, EntryIsItem, StartInRange DEF IInv, TypeInv
  <2>. QED  BY <1>3, <2>1, WholePages
<1>5. TypeInv'
  BY <1>1, <1>4 DEF IInv, TypeInv
<1>6. SizeInv'
  BY <1>1, <1>3 DEF IInv, SizeInv, Found
<1>. QED  BY <1>2, <1>5, <1>6 DEF IInv

LEMMA MapKeeps ==
  ASSUME IInv, memory_map_int
  PROVE  IInv'
<1>1. /\ pc = "map" /\ pc' \in {"done", "smashed"}
      /\ UNCHANGED <<reported, ards, i, addr_start, addr_end, valid_mem_size,
                     pages_total>>
  BY DEF memory_map_int
<1>2. CopyInv' /\ ScanInv'
  BY <1>1 DEF IInv, CopyInv, ScanInv, LooksAtStart, Early, Late, Found
<1>3. map_total' = pages_total
  <2>1. CASE Found
    BY <2>1 DEF memory_map_int, Found
  <2>2. CASE ~Found
    BY <1>1, <2>2 DEF memory_map_int, Found, IInv, SizeInv
  <2>. QED  BY <2>1, <2>2
<1>4. TypeInv'
  BY <1>1, <1>3 DEF IInv, TypeInv
<1>5. SizeInv'
  <2>1. pages_total' = IF pc' \in {"map", "done", "smashed"} /\ Found'
                         THEN ards'[i' + 1].length_low \div PageSize ELSE 0
    BY <1>1 DEF IInv, SizeInv, Found
  <2>2. map_total' = IF pc' \in {"done", "smashed"} THEN pages_total' ELSE 0
    BY <1>1, <1>3
  <2>. QED  BY <2>1, <2>2 DEF SizeInv
<1>. QED  BY <1>2, <1>4, <1>5 DEF IInv

\* Every step keeps the invariant.
LEMMA StepKeeps ==
  ASSUME IInv, [Next]_vars
  PROVE  IInv'
<1>1. CASE Next
  BY <1>1, SetupKeeps, LoadKeeps, ScanItemKeeps, ScanEndKeeps, SizeKeeps,
     MapKeeps DEF Next
<1>2. CASE UNCHANGED vars
  BY <1>2 DEF vars, IInv, TypeInv, CopyInv, ScanInv, SizeInv, LooksAtStart,
              Early, Late, Found
<1>. QED  BY <1>1, <1>2

LEMMA Inductive == Spec => []IInv
BY Initially, StepKeeps, PTL DEF Spec

-----------------------------------------------------------------------------
\* The region at 1 MB is where the loop stops, and its length is what the
\* allocator has in the end.
LEMMA TheRegion ==
  ASSUME IInv, pc = "done",
         NEW k \in 1 .. Len(reported), FirstAtStart(k)
  PROVE  /\ Found /\ i + 1 = k /\ ards[k] = reported[k]
         /\ map_total = reported[k].length_low \div PageSize
<1>1. /\ Len(reported) \in Nat /\ Len(ards) = Len(reported) /\ i \in Nat
      /\ Capacity \in Nat /\ i <= Len(ards)
  BY MemoryAssumption DEF IInv, TypeInv, CopyInv, ScanInv, Early
<1>2. \A l \in 1 .. k : ards[l] = reported[l]
  <2>1. k <= Capacity
    BY DEF FirstAtStart
  <2>. QED  BY <1>1, <2>1 DEF IInv, CopyInv, Early
<1>3. LooksAtStart(ards[k])
  BY <1>2 DEF FirstAtStart, AtStart
<1>4. \A l \in 1 .. i : ~LooksAtStart(ards[l])
  BY DEF IInv, ScanInv
<1>5. ~(k <= i)
  BY <1>1, <1>3, <1>4
<1>6. Found
  BY <1>1, <1>5 DEF IInv, ScanInv, Late
<1>7. LooksAtStart(ards[i + 1])
  BY <1>6 DEF IInv, ScanInv
<1>8. ~(i + 1 < k)
  <2>1. ASSUME i + 1 < k
        PROVE  FALSE
    <3>1. i + 1 \in 1 .. k - 1 /\ i + 1 \in 1 .. k
      BY <1>1, <2>1
    <3>. QED  BY <1>2, <1>7, <3>1 DEF FirstAtStart
  <2>. QED  BY <2>1
<1>9. i + 1 = k
  BY <1>1, <1>5, <1>8
<1>10. map_total = ards[i + 1].length_low \div PageSize
  BY <1>6 DEF IInv, SizeInv
<1>. QED  BY <1>2, <1>6, <1>9, <1>10

\* Nothing that looks like the region at 1 MB, no page.
LEMMA NoRegion ==
  ASSUME IInv, pc = "done", Len(reported) <= Capacity,
         \A k \in 1 .. Len(reported) : ~LooksAtStart(reported[k])
  PROVE  map_total = 0
<1>1. /\ Len(reported) \in Nat /\ Len(ards) = Len(reported) /\ i \in Nat
      /\ Capacity \in Nat
  BY MemoryAssumption DEF IInv, TypeInv, CopyInv, Early
<1>2. \A k \in 1 .. Len(reported) : ards[k] = reported[k]
  BY <1>1 DEF IInv, CopyInv, Early
<1>3. ~Found
  <2>1. Found => i + 1 \in 1 .. Len(reported) /\ LooksAtStart(ards[i + 1])
    BY <1>1 DEF IInv, ScanInv
  <2>. QED  BY <1>2, <2>1
<1>. QED  BY <1>3 DEF IInv, SizeInv

\* The part of a length that memory_init() reads.
LEMMA LowLength ==
  ASSUME NEW s \in Seq(Entries), NEW k \in 1 .. Len(s)
  PROVE  /\ s[k].base_addr_low \in Nat /\ s[k].length_low \in Nat
         /\ s[k].length_high * Word \in Nat /\ Word \in Nat
         /\ Length(s[k]) = s[k].length_high * Word + s[k].length_low
         /\ s[k].length_low <= Length(s[k])
         /\ Length(s[k]) < Word => s[k].length_low = Length(s[k])
<1>1. s[k] \in Item
  BY ElementOfSeq, EntriesAssumption
<1>  DEFINE h == s[k].length_high
            l == s[k].length_low
<1>2. h \in Nat /\ l \in 0 .. Word - 1 /\ s[k].base_addr_low \in Nat
      /\ Word \in Nat \ {0}
  BY <1>1, MemoryAssumption DEF Item
<1>3. Length(s[k]) = h * Word + l
  BY DEF Length
<1>  HIDE DEF h, l
<1>4. h * Word \in Nat
  BY <1>2
<1>5. h # 0 => Word <= h * Word
  BY <1>2
<1>6. h = 0 => h * Word = 0
  BY <1>2
<1>7. /\ l \in Nat /\ l <= h * Word + l
      /\ h * Word + l < Word => l = h * Word + l
  BY <1>2, <1>4, <1>5, <1>6
<1>. QED  BY <1>2, <1>3, <1>4, <1>7 DEF h, l

\* Whole pages of a shorter and of a longer region.
LEMMA PagesGrow ==
  ASSUME NEW m \in Nat, NEW n \in Nat, m <= n
  PROVE  m \div PageSize <= n \div PageSize
BY MemoryAssumption

\* For every report and every kernel image: the allocator gets the region at
\* 1 MB if the first entries name it, and no page if the report fits and
\* nothing looks like that region.
THEOREM RegionFound == Spec => []ScanExact
<1>1. ASSUME IInv
      PROVE  ScanExact
  <2>  SUFFICES ASSUME pc = "done"
                PROVE  /\ \A k \in 1 .. Len(reported) : FirstAtStart(k) =>
                            LET pages == Length(reported[k]) \div PageSize
                            IN  /\ map_total <= pages
                                /\ Length(reported[k]) < Word =>
                                     map_total = pages
                       /\ Len(reported) <= Capacity
                          /\ (\A k \in 1 .. Len(reported) :
                                ~LooksAtStart(reported[k]))
                          => map_total = 0
    BY DEF ScanExact
  <2>1. ASSUME NEW k \in 1 .. Len(reported), FirstAtStart(k)
        PROVE  /\ map_total <= Length(reported[k]) \div PageSize
               /\ Length(reported[k]) < Word =>
                    map_total = Length(reported[k]) \div PageSize
    <3>1. map_total = reported[k].length_low \div PageSize
      BY <1>1, <2>1, TheRegion
    <3>2. reported \in Seq(Entries)
      BY <1>1 DEF IInv, TypeInv
    <3>3. /\ reported[k].length_low \in Nat
          /\ Length(reported[k]) =
               reported[k].length_high * Word + reported[k].length_low
          /\ reported[k].length_high * Word \in Nat
          /\ reported[k].length_low <= Length(reported[k])
          /\ Length(reported[k]) < Word =>
               reported[k].length_low = Length(reported[k])
      BY <3>2, LowLength
    <3>4. Length(reported[k]) \in Nat
      BY <3>3
    <3>. QED  BY <3>1, <3>3, <3>4, PagesGrow
  <2>. QED  BY <1>1, <2>1, NoRegion
<1>. QED  BY <1>1, Inductive, PTL

-----------------------------------------------------------------------------
\* The bytes of the pages of a region are bytes of it.
LEMMA PagesInRegion ==
  ASSUME NEW n \in Nat, NEW p \in 0 .. (n \div PageSize) - 1
  PROVE  /\ PageSize \in Nat /\ p * PageSize \in Nat
         /\ (p + 1) * PageSize \in Nat /\ (p + 1) * PageSize <= n
         /\ p * PageSize <= n
<1>  DEFINE t == n \div PageSize
<1>1. t \in Nat /\ t * PageSize <= n /\ PageSize \in Nat
  BY WholePages, MemoryAssumption
<1>  HIDE DEF t
<1>2. p \in Nat /\ p + 1 <= t
  BY <1>1 DEF t
<1>3. /\ (p + 1) * PageSize <= t * PageSize
      /\ p * PageSize <= (p + 1) * PageSize
      /\ p * PageSize \in Nat /\ (p + 1) * PageSize \in Nat
      /\ t * PageSize \in Nat
  BY <1>1, <1>2
<1>. QED  BY <1>1, <1>3

\* Every page of the allocator is memory that the BIOS reported as available,
\* if it reported the region at 1 MB.
THEOREM PagesUsable == Spec => []UsableOnly
<1>1. ASSUME IInv
      PROVE  UsableOnly
  <2>  SUFFICES ASSUME pc = "done",
                       NEW k \in 1 .. Len(reported), FirstAtStart(k),
                       NEW p \in 0 .. map_total - 1, NEW a \in PageBytes(p)
                PROVE  /\ reported[k].type = ZONE_VALID
                       /\ a \in Region(reported[k])
    BY DEF UsableOnly
  <2>  DEFINE e == reported[k]
  <2>1. map_total = e.length_low \div PageSize
    BY <1>1, TheRegion
  <2>2. reported \in Seq(Entries) /\ VALID_MEMORY_FROM \in Nat
    BY <1>1, StartInRange DEF IInv, TypeInv
  <2>3. /\ e.length_low \in Nat /\ e.length_high * Word \in Nat /\ Word \in Nat
        /\ Length(e) = e.length_high * Word + e.length_low
        /\ e.length_low <= Length(e)
    BY <2>2, LowLength
  <2>4. e.base_addr_low = VALID_MEMORY_FROM /\ e.type = ZONE_VALID
        /\ e.base_addr_high = 0
    BY DEF FirstAtStart, AtStart, LooksAtStart
  <2>  HIDE DEF e
  <2>5. /\ p * PageSize \in Nat /\ (p + 1) * PageSize \in Nat
        /\ (p + 1) * PageSize <= e.length_low
    BY <2>1, <2>3, PagesInRegion
  <2>6. a \in VALID_MEMORY_FROM .. VALID_MEMORY_FROM + Length(e) - 1
    <3>1. ASSUME NEW v \in Nat, NEW l \in Nat, NEW h \in Nat, NEW m \in Nat,
                 NEW n \in Nat, a \in v + l .. v + h - 1, h <= m, m <= n
          PROVE  a \in v .. v + n - 1
      BY <3>1
    <3>2. a \in VALID_MEMORY_FROM + p * PageSize ..
                VALID_MEMORY_FROM + (p + 1) * PageSize - 1
      BY DEF PageBytes
    <3>3. Length(e) \in Nat
      BY <2>3
    <3>. QED  BY <2>2, <2>3, <2>5, <3>1, <3>2, <3>3
  <2>7. 0 * Word + VALID_MEMORY_FROM = VALID_MEMORY_FROM
    BY <2>2, <2>3
  <2>8. a \in Region(e)
    BY <2>4, <2>6, <2>7 DEF Region
  <2>. QED  BY <2>4, <2>8 DEF e
<1>. QED  BY <1>1, Inductive, PTL

\* Every page that get_free_page() can return passes the range check of
\* free_page() if the region at 1 MB ends below 4 GB, also after a report
\* longer than its buffer and with any kernel image behind it.
THEOREM PagesGivenBack == Spec => []FreeAccepts
<1>1. ASSUME IInv
      PROVE  FreeAccepts
  <2>  SUFFICES ASSUME pc = "done",
                       NEW k \in 1 .. Len(reported), FirstAtStart(k),
                       VALID_MEMORY_FROM + Length(reported[k]) < Word,
                       NEW p \in 0 .. map_total - 1
                PROVE  /\ addr_start <= VALID_MEMORY_FROM + p * PageSize
                       /\ VALID_MEMORY_FROM + p * PageSize <= addr_end
    BY DEF FreeAccepts
  <2>  DEFINE e == reported[k]
  <2>1. /\ Found /\ map_total = e.length_low \div PageSize
        /\ i + 1 = k /\ ards[k] = e
    BY <1>1, TheRegion
  <2>2. reported \in Seq(Entries) /\ VALID_MEMORY_FROM \in Nat
    BY <1>1, StartInRange DEF IInv, TypeInv
  <2>3. /\ e.length_low \in Nat /\ e.length_high * Word \in Nat /\ Word \in Nat
        /\ Length(e) = e.length_high * Word + e.length_low
        /\ e.length_low <= Length(e)
    BY <2>2, LowLength
  <2>4. addr_end = (VALID_MEMORY_FROM + e.length_low) % Word
    BY <1>1, <2>1 DEF IInv, ScanInv
  <2>5. VALID_MEMORY_FROM + Length(e) < Word
    OBVIOUS
  <2>  HIDE DEF e
  <2>6. addr_end = VALID_MEMORY_FROM + e.length_low
    <3>1. \A n \in Nat : n < Word => n % Word = n
      BY <2>3
    <3>2. /\ VALID_MEMORY_FROM + e.length_low \in Nat
          /\ VALID_MEMORY_FROM + e.length_low < Word
      BY <2>2, <2>3, <2>5
    <3>. QED  BY <2>4, <3>1, <3>2
  <2>7. p * PageSize \in Nat /\ p * PageSize <= e.length_low
    BY <2>1, <2>3, PagesInRegion
  <2>. QED  BY <2>1, <2>2, <2>3, <2>6, <2>7 DEF Found
<1>. QED  BY <1>1, Inductive, PTL
=============================================================================
