---------------------------- MODULE MallocProofs ----------------------------
(***************************************************************************)
(* Proofs about Malloc, for any number and size of pages, any bucket sizes *)
(* that divide a page, and any number of calls that are cut off, if idle   *)
(* does not call while other tasks may (~IdleSwitched, what the system as  *)
(* shipped does).  The invariant IInv is kept by every step, and with it   *)
(* the lists, the objects and the pages are sound, what is lost is         *)
(* bounded, and kmalloc() and kfree_s() implement Heap and use the page    *)
(* allocator as PageAlloc expects.                                         *)
(*                                                                         *)
(* First come linked lists (what ListFrom computes, by an induction over   *)
(* its length, and how links change it), buckets and free lists, and what  *)
(* is lost; then one lemma per step of kmalloc() and kfree_s().            *)
(***************************************************************************)
EXTENDS Malloc, FiniteSetTheorems, WellFoundedInduction, TLAPS

-----------------------------------------------------------------------------
(***************************************************************************)
(* The inductive invariant.  In the system considered, at most one call is *)
(* under way, that of a task.  The core of it: what this call has in hand  *)
(* between two steps (a descriptor, a page, an object) is in no list,      *)
(* belongs to nobody else and is in the state the next step expects.  If a *)
(* tick cuts the call off there, just that is lost and the lists stay      *)
(* sound for the next caller.                                              *)
(***************************************************************************)
\* s is the list that the links nxt make from the first one on.
IsList(nxt, first, s) ==
  /\ s \in Seq(Desc)
  /\ \A i, j \in 1 .. Len(s) : s[i] = s[j] => i = j
  /\ first = IF Len(s) = 0 THEN NoDesc ELSE s[1]
  /\ \A i \in 1 .. Len(s) : nxt[s[i]] = IF i = Len(s) THEN NoDesc ELSE s[i + 1]

Call == calls["task"]
Free == Elems(Unused)          \* the unused descriptors
Of(b) == Elems(ChainOf(b))     \* the descriptors of a bucket
On(d) == {o \in live : o.page = page[d]}  \* the objects held in its page
Distinct(s) == \A i, j \in 1 .. Len(s) : s[i] = s[j] => i = j
Listed == Chained \cup Free

Places == {"none", "carve", "take", "search", "count", "link", "chain", "pop",
           "return", "list"}
CallType == [at : Places, len : Lens \cup {0}, desc : Desc \cup {NoDesc},
             page : Pages \cup {NoPage}, nr : Nat]

PagesType ==
  /\ map \in [Pages -> {0, 1}] /\ bitmap_item_used \in Int
  /\ carved \in SUBSET Pages
ListsType ==
  /\ free_bucket_desc \in Desc \cup {NoDesc}
  /\ chain \in [Buckets -> Desc \cup {NoDesc}]
  /\ next \in [Desc -> Desc \cup {NoDesc}]
FieldsType ==
  /\ page \in [Desc -> Pages \cup {NoPage}]
  /\ freeptr \in [Desc -> Seq(Nat)]
  /\ refcnt \in [Desc -> Int]
CallsType == calls \in [Callers -> CallType]
ObjectsType == live \in SUBSET Objects /\ IsFiniteSet(live)
GhostsType == cut \in Nat /\ failed \in Nat /\ fault \in BOOLEAN

TypeInv ==
  /\ PagesType /\ ListsType /\ FieldsType /\ CallsType /\ ObjectsType /\ GhostsType

\* The lists are lists, without a common element.
ListInv ==
  /\ IsList(next, free_bucket_desc, Unused)
  /\ \A b \in Buckets : /\ IsList(next, chain[b], ChainOf(b))
                        /\ Of(b) \cap Free = {}
                        /\ \A c \in Buckets \ {b} : Of(b) \cap Of(c) = {}

\* Descriptors lie in pages that were cut up, and manage others, one each.
PageInv ==
  /\ carved \subseteq Marked
  /\ \A d \in Listed : d[1] \in carved
  /\ \A d \in Chained : page[d] \in Marked \ carved
  /\ \A d, e \in Chained : page[d] = page[e] => d = e

\* What a call has in hand belongs to nobody else.
DescInHand == Call.at \in {"search", "count", "link", "chain", "list"}
PageInHand == Call.at \in {"carve", "count", "link", "chain"}

HandInv ==
  /\ calls["idle"] = NoCall
  /\ Call.at = "none" => Call = NoCall
  /\ Call.at \notin {"none", "list"} => Call.len \in Lens
  /\ Call.at \in {"carve", "take"} => Call.desc = NoDesc
  /\ DescInHand => /\ Call.desc \in Desc \ Listed
                   /\ Call.desc[1] \in carved
  /\ PageInHand => /\ Call.page \in Marked \ carved
                   /\ \A d \in Chained : page[d] # Call.page
  /\ Call.at \in {"search", "count", "link", "chain"} => refcnt[Call.desc] = 0
  /\ Call.at = "chain" =>
       /\ page[Call.desc] = Call.page
       /\ freeptr[Call.desc] = FreeObjects(BucketFor(Call.len))
       /\ next[Call.desc] = chain[BucketFor(Call.len)]
  /\ Call.at \in {"pop", "return"} => Call.desc \in Of(BucketFor(Call.len))
  /\ Call.at = "return" =>
       /\ Call.nr < Capacity(BucketFor(Call.len))
       /\ Call.nr \notin Elems(freeptr[Call.desc])
       /\ \A o \in live : o.page = page[Call.desc] => o.nr # Call.nr

\* The free objects of a page are its own, once each, and nobody holds them.
FreeInv ==
  /\ \A b \in Buckets : \A d \in Of(b) :
       /\ Distinct(freeptr[d])
       /\ Elems(freeptr[d]) \subseteq 0 .. Capacity(b) - 1
  /\ \A d \in Chained : \A o \in live :
       o.page = page[d] => o.nr \notin Elems(freeptr[d])

\* The objects held are counted; a page without any waits for a call.
CountInv ==
  \A d \in Chained : /\ refcnt[d] = Cardinality(On(d))
                     /\ refcnt[d] > 0 \/ cut > 0 \/ Call.desc = d

\* Objects are held once, in a page of their size.
HeldInv ==
  /\ \A o \in live : /\ o.nr < Capacity(BucketFor(o.len))
                     /\ \E d \in Of(BucketFor(o.len)) : page[d] = o.page
  /\ \A o, l \in live : o.page = l.page /\ o.nr = l.nr => o = l

IInv ==
  /\ TypeInv /\ ListInv /\ PageInv /\ HandInv /\ FreeInv /\ CountInv /\ HeldInv
  /\ LossesBounded

-----------------------------------------------------------------------------
(***************************************************************************)
(* Induction over the natural numbers, from the well-foundedness of the    *)
(* subset ordering on finite sets.                                         *)
(***************************************************************************)
LEMMA Least ==
  ASSUME NEW T \in SUBSET Nat, T # {}
  PROVE  \E n \in T : \A m \in T : n <= m
<1>  DEFINE U == {0 .. n : n \in T}
<1>1. U \subseteq FiniteSubsetsOf(Nat) /\ U # {}
  <2>1. ASSUME NEW n \in T
        PROVE  0 .. n \in FiniteSubsetsOf(Nat)
    BY FS_Interval DEF FiniteSubsetsOf
  <2>. QED  BY <2>1
<1>2. IsWellFoundedOn(StrictSubsetOrdering(Nat), FiniteSubsetsOf(Nat))
  BY FS_StrictSubsetOrderingWellFounded
<1>3. PICK x \in U : \A y \in U : ~ (<<y, x>> \in StrictSubsetOrdering(Nat))
  <2>  HIDE DEF U
  <2>. QED  BY <1>1, <1>2, WFMin
<1>4. PICK n \in T : x = 0 .. n
  BY <1>3
<1>5. ASSUME NEW m \in T, m < n
      PROVE  FALSE
  <2>1. 0 .. m \subseteq 0 .. n /\ n \in 0 .. n /\ n \notin 0 .. m
    BY <1>5
  <2>2. /\ 0 .. m \in SUBSET Nat /\ 0 .. n \in SUBSET Nat
        /\ 0 .. m # 0 .. n
    BY <2>1
  <2>3. <<0 .. m, 0 .. n>> \in StrictSubsetOrdering(Nat)
    BY <2>1, <2>2 DEF StrictSubsetOrdering
  <2>. QED  BY <1>3, <1>4, <2>3
<1>. QED  BY <1>5

\* A set of numbers with 0 and, with each number, the next one has them all.
LEMMA Induction ==
  ASSUME NEW S, 0 \in S, \A n \in Nat : n \in S => n + 1 \in S
  PROVE  Nat \subseteq S
<1>  SUFFICES ASSUME Nat \ S # {} PROVE FALSE
  OBVIOUS
<1>1. PICK n \in Nat \ S : \A m \in Nat \ S : n <= m
  BY Least
<1>2. n # 0 /\ n - 1 \in Nat /\ n - 1 \in S
  BY <1>1
<1>. QED BY <1>1, <1>2

-----------------------------------------------------------------------------
(***************************************************************************)
(* Linked lists: what ListFrom computes is the list that the links make.   *)
(***************************************************************************)
\* There are finitely many descriptors.
LEMMA DescFinite ==
  IsFiniteSet(Desc) /\ Cardinality(Desc) \in Nat /\ NoDesc \notin Desc
<1>1. IsFiniteSet(Pages) /\ IsFiniteSet(1 .. DescPerPage)
  BY FS_Interval, TotalAssumption, SizesAssumption DEF Pages
<1>2. IsFiniteSet(Desc)
  BY <1>1, FS_Product DEF Desc
<1>. QED  BY <1>2, FS_CardinalityType, TotalAssumption DEF NoDesc, Desc, Pages, NoPage

\* A list has no more elements than there are descriptors.
LEMMA ListLength ==
  ASSUME NEW s \in Seq(Desc), \A i, j \in 1 .. Len(s) : s[i] = s[j] => i = j
  PROVE  /\ Len(s) \in Nat /\ Len(s) <= Cardinality(Desc)
         /\ IsFiniteSet(Elems(s)) /\ Cardinality(Elems(s)) = Len(s)
<1>1. Len(s) \in Nat /\ IsFiniteSet(1 .. Len(s)) /\ Cardinality(1 .. Len(s)) = Len(s)
  BY FS_Interval
<1>2. s \in [1 .. Len(s) -> Desc]
  OBVIOUS
<1>3. s \in Injection(1 .. Len(s), Desc)
  BY <1>2 DEF Injection, IsInjective
<1>4. Len(s) <= Cardinality(Desc)
  BY <1>1, <1>3, FS_Injection, DescFinite
<1>5. s \in Bijection(1 .. Len(s), Elems(s))
  BY <1>2, <1>3 DEF Bijection, Injection, Surjection, IsInjective, Elems
<1>6. ExistsBijection(1 .. Len(s), Elems(s))
  BY <1>5 DEF ExistsBijection
<1>. QED  BY <1>1, <1>4, <1>6, FS_Bijection

\* The function in ListFrom, as an equation.
IsUpTo(f, nxt, first, k) ==
  f = [n \in 0 .. k |-> IF n = 0 THEN <<>> ELSE Longer(nxt, first, f[n - 1])]

\* The recursive function in ListFrom exists.
LEMMA UpToExists ==
  ASSUME NEW nxt, NEW first, NEW N \in Nat
  PROVE  \E f : IsUpTo(f, nxt, first, N)
<1>  DEFINE S == {k \in Nat : \E f : IsUpTo(f, nxt, first, k)}
<1>1. 0 \in S
  <2>  DEFINE f == [n \in 0 .. 0 |-> <<>>]
  <2>1. IsUpTo(f, nxt, first, 0)
    BY DEF IsUpTo
  <2>. QED  BY <2>1
<1>2. ASSUME NEW k \in Nat, k \in S
      PROVE  k + 1 \in S
  <2>1. PICK f : IsUpTo(f, nxt, first, k)
    BY <1>2
  <2>  DEFINE g == [n \in 0 .. k + 1 |-> IF n = k + 1 THEN Longer(nxt, first, f[k])
                                         ELSE f[n]]
  <2>2. ASSUME NEW n \in 0 .. k + 1
        PROVE  g[n] = IF n = 0 THEN <<>> ELSE Longer(nxt, first, g[n - 1])
    <3>1. CASE n = k + 1
      BY <3>1
    <3>2. CASE n # k + 1
      <4>1. n \in 0 .. k /\ (n # 0 => n - 1 \in 0 .. k /\ n - 1 # k + 1)
        BY <3>2
      <4>. QED  BY <4>1, <2>1 DEF IsUpTo
    <3>. QED  BY <3>1, <3>2
  <2>3. IsUpTo(g, nxt, first, k + 1)
    BY <2>2 DEF IsUpTo
  <2>  HIDE DEF g
  <2>. QED  BY <2>3
<1>  HIDE DEF S
<1>3. N \in S
  BY <1>1, <1>2, Induction
<1>. QED  BY <1>3 DEF S

Prefix(s, n) == [i \in 1 .. (IF n <= Len(s) THEN n ELSE Len(s)) |-> s[i]]

\* What is behind the first n elements of a list.
LEMMA LongerPrefix ==
  ASSUME NEW nxt, NEW first, NEW s, IsList(nxt, first, s), NEW n \in Nat
  PROVE  Longer(nxt, first, Prefix(s, n)) = Prefix(s, n + 1)
<1>1. s \in Seq(Desc) /\ Len(s) \in Nat
  BY DEF IsList
<1>2. CASE n < Len(s)
  <2>1. Prefix(s, n) \in Seq(Desc) /\ Len(Prefix(s, n)) = n
    BY <1>1, <1>2 DEF Prefix
  <2>2. Behind(nxt, first, Prefix(s, n)) = s[n + 1]
    <3>1. CASE n = 0
      BY <1>1, <1>2, <2>1, <3>1 DEF Behind, IsList
    <3>2. CASE n # 0
      <4>1. Prefix(s, n)[n] = s[n] /\ n \in 1 .. Len(s) /\ n # Len(s)
        BY <1>1, <1>2, <3>2 DEF Prefix
      <4>2. Prefix(s, n) # <<>>
        BY <2>1, <3>2
      <4>. QED  BY <2>1, <4>1, <4>2 DEF Behind, IsList
    <3>. QED  BY <3>1, <3>2
  <2>3. s[n + 1] \in Desc /\ s[n + 1] # NoDesc
    BY <1>1, <1>2, DescFinite
  <2>4. Append(Prefix(s, n), s[n + 1]) = Prefix(s, n + 1)
    BY <1>1, <1>2, <2>1, <2>3 DEF Prefix
  <2>. QED  BY <2>2, <2>3, <2>4 DEF Longer
<1>3. CASE ~(n < Len(s))
  <2>1. Prefix(s, n) = s /\ Prefix(s, n + 1) = s
    BY <1>1, <1>3 DEF Prefix
  <2>2. Behind(nxt, first, s) = NoDesc
    BY <1>1 DEF Behind, IsList
  <2>. QED  BY <2>1, <2>2 DEF Longer
<1>. QED  BY <1>2, <1>3

\* What ListFrom computes is the list that the links make.
LEMMA ListIs ==
  ASSUME NEW nxt, NEW first, NEW s, IsList(nxt, first, s)
  PROVE  ListFrom(nxt, first) = s
<1>  DEFINE N == Cardinality(Desc)
            upTo[n \in 0 .. N] ==
              IF n = 0 THEN <<>> ELSE Longer(nxt, first, upTo[n - 1])
            S == {n \in Nat : n <= N => upTo[n] = Prefix(s, n)}
<1>0. s \in Seq(Desc) /\ Len(s) \in Nat /\ Len(s) <= N /\ N \in Nat
  BY ListLength, DescFinite DEF IsList
<1>  HIDE DEF N
<1>1. upTo = [n \in 0 .. N |->
                IF n = 0 THEN <<>> ELSE Longer(nxt, first, upTo[n - 1])]
  <2>1. \E f : IsUpTo(f, nxt, first, N)
    BY <1>0, UpToExists
  <2>. QED  BY <2>1 DEF IsUpTo
<1>  HIDE DEF upTo
<1>2. 0 \in S
  BY <1>0, <1>1 DEF Prefix
<1>3. ASSUME NEW n \in Nat, n \in S
      PROVE  n + 1 \in S
  <2>  SUFFICES ASSUME n + 1 <= N
                PROVE  upTo[n + 1] = Prefix(s, n + 1)
    OBVIOUS
  <2>1. upTo[n + 1] = Longer(nxt, first, upTo[n])
    BY <1>0, <1>1
  <2>2. upTo[n] = Prefix(s, n)
    BY <1>0, <1>3
  <2>. QED  BY <2>1, <2>2, LongerPrefix
<1>4. upTo[N] = Prefix(s, N)
  <2>  HIDE DEF S
  <2>1. N \in S
    BY <1>0, <1>2, <1>3, Induction
  <2>. QED  BY <1>0, <2>1 DEF S
<1>5. Prefix(s, N) = s
  BY <1>0 DEF Prefix
<1>6. ListFrom(nxt, first) = upTo[N]
  BY DEF ListFrom, N, upTo
<1>. QED  BY <1>4, <1>5, <1>6

\* The first element is taken off.
LEMMA ListTail ==
  ASSUME NEW nxt, NEW first, NEW s, IsList(nxt, first, s), first # NoDesc
  PROVE  /\ IsList(nxt, nxt[first], Tail(s))
         /\ first \in Desc /\ first \in Elems(s)
         /\ Elems(Tail(s)) = Elems(s) \ {first}
<1>  DEFINE t == Tail(s)
<1>1. s \in Seq(Desc) /\ Len(s) \in Nat /\ Len(s) # 0 /\ first = s[1]
  BY DEF IsList
<1>0. Len(s) = 1 \/ Len(s) > 1
  <2>1. \A n \in Nat : n # 0 => n = 1 \/ n > 1
    OBVIOUS
  <2>. QED  BY <1>1, <2>1
<1>2. /\ t \in Seq(Desc) /\ Len(t) = Len(s) - 1
      /\ \A i \in 1 .. Len(s) - 1 : t[i] = s[i + 1]
  BY <1>1
<1>  HIDE DEF t
<1>3. nxt[first] = IF Len(t) = 0 THEN NoDesc ELSE t[1]
  <2>1. 1 \in 1 .. Len(s)
    BY <1>0
  <2>2. nxt[s[1]] = IF 1 = Len(s) THEN NoDesc ELSE s[1 + 1]
    BY <2>1 DEF IsList
  <2>3. Len(s) > 1 => 1 \in 1 .. Len(s) - 1
    BY <1>0
  <2>. QED  BY <1>0, <1>1, <1>2, <2>2, <2>3
<1>4. ASSUME NEW i \in 1 .. Len(t), NEW j \in 1 .. Len(t), t[i] = t[j]
      PROVE  i = j
  <2>1. /\ i + 1 \in 1 .. Len(s) /\ j + 1 \in 1 .. Len(s)
        /\ s[i + 1] = s[j + 1]
    BY <1>1, <1>2, <1>4
  <2>2. i + 1 = j + 1
    BY <2>1 DEF IsList
  <2>. QED  BY <2>2
<1>5. ASSUME NEW i \in 1 .. Len(t)
      PROVE  nxt[t[i]] = IF i = Len(t) THEN NoDesc ELSE t[i + 1]
  <2>1. i + 1 \in 1 .. Len(s) /\ t[i] = s[i + 1]
    BY <1>1, <1>2
  <2>2. nxt[s[i + 1]] = IF i + 1 = Len(s) THEN NoDesc ELSE s[i + 2]
    BY <2>1, <1>1 DEF IsList
  <2>3. i # Len(t) => t[i + 1] = s[i + 2]
    BY <1>1, <1>2
  <2>. QED  BY <1>1, <1>2, <2>1, <2>2, <2>3
<1>6. Elems(t) = Elems(s) \ {first}
  <2>1. ASSUME NEW e \in Elems(s), e # first
        PROVE  e \in Elems(t)
    <3>1. PICK i \in 1 .. Len(s) : e = s[i]
      BY DEF Elems
    <3>2. i - 1 \in 1 .. Len(t) /\ t[i - 1] = s[i]
      BY <1>1, <1>2, <2>1, <3>1
    <3>. QED  BY <3>1, <3>2 DEF Elems
  <2>2. ASSUME NEW e \in Elems(t)
        PROVE  e \in Elems(s) /\ e # first
    <3>1. PICK i \in 1 .. Len(s) - 1 : e = s[i + 1]
      BY <1>2 DEF Elems
    <3>2. i + 1 \in 1 .. Len(s) /\ 1 \in 1 .. Len(s) /\ i + 1 # 1
      BY <1>1, <3>1
    <3>. QED  BY <1>1, <3>1, <3>2 DEF Elems, IsList
  <2>. QED  BY <2>1, <2>2
<1>7. first \in Desc /\ first \in Elems(s)
  BY <1>1 DEF Elems
<1>8. IsList(nxt, nxt[first], t)
  BY <1>2, <1>3, <1>4, <1>5 DEF IsList
<1>. QED  BY <1>6, <1>7, <1>8 DEF t

\* An element becomes the first one.
LEMMA ListPush ==
  ASSUME NEW nxt, NEW s, NEW d \in Desc \ Elems(s), IsList(nxt, nxt[d], s)
  PROVE  /\ IsList(nxt, d, <<d>> \o s)
         /\ Elems(<<d>> \o s) = Elems(s) \cup {d}
<1>  DEFINE t == <<d>> \o s
<1>1. s \in Seq(Desc) /\ Len(s) \in Nat
  BY DEF IsList
<1>2. /\ t \in Seq(Desc) /\ Len(t) = Len(s) + 1 /\ t[1] = d
      /\ \A i \in 1 .. Len(s) : t[i + 1] = s[i]
  BY <1>1
<1>  HIDE DEF t
<1>3. \A i \in 1 .. Len(t) : i # 1 => i - 1 \in 1 .. Len(s) /\ t[i] = s[i - 1]
  BY <1>1, <1>2
<1>4. ASSUME NEW i \in 1 .. Len(t), NEW j \in 1 .. Len(t), t[i] = t[j]
      PROVE  i = j
  <2>1. CASE i = 1 \/ j = 1
    BY <1>2, <1>3, <1>4, <2>1 DEF Elems
  <2>2. CASE i # 1 /\ j # 1
    <3>1. /\ i - 1 \in 1 .. Len(s) /\ j - 1 \in 1 .. Len(s)
          /\ s[i - 1] = s[j - 1]
      BY <1>3, <1>4, <2>2
    <3>2. i - 1 = j - 1
      BY <3>1 DEF IsList
    <3>. QED  BY <3>2
  <2>. QED  BY <2>1, <2>2
<1>5. ASSUME NEW i \in 1 .. Len(t)
      PROVE  nxt[t[i]] = IF i = Len(t) THEN NoDesc ELSE t[i + 1]
  <2>1. CASE i = 1
    <3>1. nxt[d] = IF Len(s) = 0 THEN NoDesc ELSE s[1]
      BY DEF IsList
    <3>2. Len(s) # 0 => t[2] = s[1]
      BY <1>1, <1>2
    <3>. QED  BY <1>1, <1>2, <2>1, <3>1, <3>2
  <2>2. CASE i # 1
    <3>1. i - 1 \in 1 .. Len(s) /\ t[i] = s[i - 1]
      BY <1>3, <2>2
    <3>2. nxt[s[i - 1]] = IF i - 1 = Len(s) THEN NoDesc ELSE s[i - 1 + 1]
      BY <3>1 DEF IsList
    <3>3. i - 1 # Len(s) => i \in 1 .. Len(s) /\ t[i + 1] = s[i]
      BY <1>1, <1>2, <3>1
    <3>. QED  BY <1>1, <1>2, <3>1, <3>2, <3>3
  <2>. QED  BY <2>1, <2>2
<1>6. IsList(nxt, d, t)
  BY <1>1, <1>2, <1>4, <1>5 DEF IsList
<1>7. Elems(t) = Elems(s) \cup {d}
  <2>1. \A i \in 1 .. Len(s) : i + 1 \in 1 .. Len(t)
    BY <1>1, <1>2
  <2>2. 1 \in 1 .. Len(t)
    BY <1>1, <1>2
  <2>. QED  BY <1>2, <1>3, <2>1, <2>2 DEF Elems
<1>. QED  BY <1>6, <1>7 DEF t

\* Links of other descriptors change nothing.
LEMMA ListFrame ==
  ASSUME NEW nxt, NEW nxt2, NEW first, NEW s, IsList(nxt, first, s),
         \A e \in Elems(s) : nxt2[e] = nxt[e]
  PROVE  IsList(nxt2, first, s)
<1>1. \A i \in 1 .. Len(s) : s[i] \in Elems(s)
  BY DEF Elems
<1>. QED  BY <1>1 DEF IsList

\* An element that is not the first one is unlinked.
LEMMA ListRemove ==
  ASSUME NEW nxt, NEW first, NEW s, IsList(nxt, first, s),
         NEW d \in Elems(s), d # first, NEW nxt2,
         \A e \in Elems(s) :
           nxt2[e] = IF nxt[e] = d THEN nxt[d] ELSE nxt[e]
  PROVE  \E t : IsList(nxt2, first, t) /\ Elems(t) = Elems(s) \ {d}
<1>1. s \in Seq(Desc) /\ Len(s) \in Nat
  BY DEF IsList
<1>2. PICK k \in 1 .. Len(s) : d = s[k]
  BY DEF Elems
<1>3. k # 1 /\ first = s[1]
  BY <1>1, <1>2 DEF IsList
<1>  DEFINE n == Len(s) - 1
            t == [i \in 1 .. n |-> IF i < k THEN s[i] ELSE s[i + 1]]
<1>4. /\ n \in Nat /\ n # 0 /\ Len(s) = n + 1 /\ k \in 2 .. n + 1
      /\ \A i \in 1 .. n : i \in 1 .. Len(s) /\ i + 1 \in 1 .. Len(s)
  BY <1>1, <1>2, <1>3
<1>5. t \in Seq(Desc) /\ Len(t) = n
  BY <1>1, <1>4
<1>  HIDE DEF n
<1>6. /\ \A i \in 1 .. n : i < k => t[i] = s[i]
      /\ \A i \in 1 .. n : ~(i < k) => t[i] = s[i + 1]
  OBVIOUS
<1>  HIDE DEF t
<1>7. t[1] = s[1]
  BY <1>4, <1>6
<1>8. ASSUME NEW i \in 1 .. Len(t), NEW j \in 1 .. Len(t), t[i] = t[j]
      PROVE  i = j
  <2>1. /\ i \in 1 .. Len(s) /\ j \in 1 .. Len(s)
        /\ i + 1 \in 1 .. Len(s) /\ j + 1 \in 1 .. Len(s)
    BY <1>4, <1>5
  <2>2. \A x, y \in 1 .. Len(s) : s[x] = s[y] => x = y
    BY DEF IsList
  <2>3. CASE i < k /\ j < k
    BY <1>5, <1>6, <1>8, <2>1, <2>2, <2>3
  <2>4. CASE i < k /\ ~(j < k)
    <3>1. t[i] = s[i] /\ t[j] = s[j + 1]
      BY <1>5, <1>6, <2>4
    <3>2. s[i] = s[j + 1]
      BY <1>8, <3>1
    <3>3. i = j + 1
      BY <2>1, <2>2, <3>2
    <3>. QED  BY <1>4, <2>4, <3>3
  <2>5. CASE ~(i < k) /\ j < k
    <3>1. t[i] = s[i + 1] /\ t[j] = s[j]
      BY <1>5, <1>6, <2>5
    <3>2. s[i + 1] = s[j]
      BY <1>8, <3>1
    <3>3. i + 1 = j
      BY <2>1, <2>2, <3>2
    <3>. QED  BY <1>4, <2>5, <3>3
  <2>6. CASE ~(i < k) /\ ~(j < k)
    <3>1. t[i] = s[i + 1] /\ t[j] = s[j + 1]
      BY <1>5, <1>6, <2>6
    <3>2. s[i + 1] = s[j + 1]
      BY <1>8, <3>1
    <3>3. i + 1 = j + 1
      BY <2>1, <2>2, <3>2
    <3>. QED  BY <3>3
  <2>. QED  BY <2>3, <2>4, <2>5, <2>6
<1>9. \A i \in 1 .. Len(s) :
        /\ s[i] \in Elems(s)
        /\ nxt[s[i]] = IF i = Len(s) THEN NoDesc ELSE s[i + 1]
  BY DEF IsList, Elems
<1>10. ASSUME NEW i \in 1 .. Len(s)
       PROVE  nxt[s[i]] = d <=> i + 1 = k
  <2>1. CASE i = Len(s)
    <3>1. nxt[s[i]] = NoDesc /\ NoDesc # d
      BY <1>1, <1>2, <1>9, <2>1, DescFinite
    <3>2. i + 1 # k
      BY <1>1, <1>2, <2>1
    <3>. QED  BY <3>1, <3>2
  <2>2. CASE i # Len(s)
    <3>1. i + 1 \in 1 .. Len(s) /\ nxt[s[i]] = s[i + 1]
      BY <1>1, <1>9, <2>2
    <3>. QED  BY <1>2, <3>1 DEF IsList
  <2>. QED  BY <2>1, <2>2
<1>11. ASSUME NEW i \in 1 .. Len(t)
       PROVE  nxt2[t[i]] = IF i = Len(t) THEN NoDesc ELSE t[i + 1]
  <2>0. i \in 1 .. Len(s) /\ i + 1 \in 1 .. Len(s) /\ i \in 1 .. n
    BY <1>4, <1>5
  <2>1. CASE i + 1 < k
    <3>1. t[i] = s[i] /\ nxt[s[i]] = s[i + 1] /\ nxt[s[i]] # d
      BY <1>1, <1>4, <1>6, <1>9, <1>10, <2>0, <2>1
    <3>2. i # n /\ i + 1 \in 1 .. n /\ t[i + 1] = s[i + 1]
      BY <1>4, <1>6, <2>0, <2>1
    <3>. QED  BY <1>5, <1>9, <2>0, <3>1, <3>2
  <2>2. CASE i + 1 = k
    <3>1. t[i] = s[i] /\ nxt2[s[i]] = nxt[d]
      BY <1>4, <1>6, <1>9, <1>10, <2>0, <2>2
    <3>2. nxt[d] = IF k = Len(s) THEN NoDesc ELSE s[k + 1]
      BY <1>2, <1>9
    <3>3. k # Len(s) => k \in 1 .. n /\ t[k] = s[k + 1]
      BY <1>4, <1>6
    <3>. QED  BY <1>4, <1>5, <2>2, <3>1, <3>2, <3>3
  <2>3. CASE ~(i + 1 <= k)
    <3>1. t[i] = s[i + 1] /\ nxt2[s[i + 1]] = nxt[s[i + 1]]
      <4>1. i + 1 + 1 # k /\ ~(i < k)
        BY <1>4, <2>0, <2>3
      <4>. QED  BY <1>6, <1>9, <1>10, <2>0, <4>1
    <3>2. nxt[s[i + 1]] = IF i + 1 = Len(s) THEN NoDesc ELSE s[i + 1 + 1]
      BY <1>9, <2>0
    <3>3. i # n => i + 1 \in 1 .. n /\ t[i + 1] = s[i + 1 + 1]
      BY <1>4, <1>6, <2>0, <2>3
    <3>. QED  BY <1>4, <1>5, <3>1, <3>2, <3>3
  <2>. QED  BY <1>4, <2>0, <2>1, <2>2, <2>3
<1>12. Elems(t) = Elems(s) \ {d}
  <2>1. ASSUME NEW i \in 1 .. Len(s), i # k
        PROVE  s[i] \in Elems(t)
    <3>1. CASE i < k
      <4>1. i \in 1 .. n
        BY <1>4, <3>1
      <4>. QED  BY <1>5, <1>6, <3>1, <4>1 DEF Elems
    <3>2. CASE ~(i < k)
      <4>1. i - 1 \in 1 .. n /\ ~(i - 1 < k) /\ i - 1 + 1 = i
        BY <1>4, <2>1, <3>2
      <4>. QED  BY <1>5, <1>6, <4>1 DEF Elems
    <3>. QED  BY <3>1, <3>2
  <2>2. ASSUME NEW i \in 1 .. n
        PROVE  t[i] \in Elems(s) /\ t[i] # d
    <3>1. CASE i < k
      <4>1. i \in 1 .. Len(s) /\ i # k
        BY <1>4, <3>1
      <4>. QED  BY <1>2, <1>6, <1>9, <3>1, <4>1 DEF IsList
    <3>2. CASE ~(i < k)
      <4>1. i + 1 \in 1 .. Len(s) /\ i + 1 # k
        BY <1>4, <3>2
      <4>. QED  BY <1>2, <1>6, <1>9, <3>2, <4>1 DEF IsList
    <3>. QED  BY <3>1, <3>2
  <2>. QED  BY <1>2, <1>5, <2>1, <2>2 DEF Elems
<1>13. IsList(nxt2, first, t)
  BY <1>3, <1>4, <1>5, <1>7, <1>8, <1>11 DEF IsList
<1>. QED  BY <1>12, <1>13

\* A page is cut into descriptors, in front of a list that has none of them.
LEMMA ListCarve ==
  ASSUME NEW nxt, NEW first, NEW s, IsList(nxt, first, s), NEW p \in Pages,
         \A e \in Elems(s) : e[1] # p, NEW nxt2,
         nxt2 = [d \in Desc |-> IF d[1] # p THEN nxt[d]
                                 ELSE IF d[2] < DescPerPage THEN <<p, d[2] + 1>>
                                 ELSE first]
  PROVE  \E t : /\ IsList(nxt2, <<p, 1>>, t)
               /\ Elems(t) = Elems(s) \cup {d \in Desc : d[1] = p}
<1>  DEFINE m == DescPerPage
            n == Len(s)
            t == [i \in 1 .. m + n |-> IF i <= m THEN <<p, i>> ELSE s[i - m]]
<1>1. s \in Seq(Desc) /\ n \in Nat /\ m \in Nat \ {0}
  BY SizesAssumption DEF IsList
<1>2. \A i \in 1 .. m : <<p, i>> \in Desc
  BY DEF Desc
<1>3. t \in Seq(Desc) /\ Len(t) = m + n
  BY <1>1, <1>2
<1>4. /\ \A i \in 1 .. m : t[i] = <<p, i>>
      /\ \A i \in m + 1 .. m + n : t[i] = s[i - m] /\ i - m \in 1 .. n
  BY <1>1
<1>5. \A i \in 1 .. n : s[i] \in Elems(s) /\ s[i][1] # p /\ s[i] \in Desc
  BY <1>1 DEF Elems
<1>  HIDE DEF m, n, t
<1>6. \A i \in 1 .. m + n : i \in 1 .. m \/ i \in m + 1 .. m + n
  BY <1>1
<1>7. ASSUME NEW i \in 1 .. Len(t), NEW j \in 1 .. Len(t), t[i] = t[j]
      PROVE  i = j
  <2>1. CASE i \in 1 .. m /\ j \in 1 .. m
    BY <1>4, <1>7, <2>1
  <2>2. CASE i \in m + 1 .. m + n /\ j \in m + 1 .. m + n
    <3>1. i - m \in 1 .. n /\ j - m \in 1 .. n /\ s[i - m] = s[j - m]
      BY <1>4, <1>7, <2>2
    <3>2. i - m = j - m
      BY <3>1 DEF IsList, n
    <3>. QED  BY <1>1, <2>2, <3>2
  <2>3. CASE i \in 1 .. m /\ j \in m + 1 .. m + n
    <3>1. t[i][1] = p /\ t[j][1] # p
      BY <1>4, <1>5, <2>3
    <3>. QED  BY <1>7, <3>1
  <2>4. CASE j \in 1 .. m /\ i \in m + 1 .. m + n
    <3>1. t[j][1] = p /\ t[i][1] # p
      BY <1>4, <1>5, <2>4
    <3>. QED  BY <1>7, <3>1
  <2>. QED  BY <1>3, <1>6, <2>1, <2>2, <2>3, <2>4
<1>8. first = IF n = 0 THEN NoDesc ELSE t[m + 1]
  <2>1. n # 0 => m + 1 \in m + 1 .. m + n /\ m + 1 - m = 1
    BY <1>1
  <2>2. first = IF n = 0 THEN NoDesc ELSE s[1]
    BY DEF IsList, n
  <2>3. ASSUME n # 0
        PROVE  t[m + 1] = s[1]
    <3>1. t[m + 1] = s[m + 1 - m]
      BY <1>1, <1>4, <2>1, <2>3
    <3>. QED  BY <2>1, <2>3, <3>1
  <2>. QED  BY <2>2, <2>3
<1>9. ASSUME NEW i \in 1 .. m
      PROVE  nxt2[t[i]] = IF i = Len(t) THEN NoDesc ELSE t[i + 1]
  <2>0. t[i] = <<p, i>> /\ <<p, i>> \in Desc
    BY <1>2, <1>4
  <2>1. t[i] = <<p, i>> /\ t[i] \in Desc /\ t[i][1] = p /\ t[i][2] = i
    BY <2>0
  <2>2. nxt2[t[i]] = IF i < m THEN <<p, i + 1>> ELSE first
    BY <2>1 DEF m
  <2>3. CASE i < m
    <3>1. i + 1 \in 1 .. m /\ i # m + n
      BY <1>1, <2>3
    <3>. QED  BY <1>3, <1>4, <2>2, <2>3, <3>1
  <2>4. CASE i = m
    <3>1. n = 0 <=> m = m + n
      BY <1>1
    <3>. QED  BY <1>1, <1>3, <1>8, <2>2, <2>4, <3>1
  <2>. QED  BY <1>1, <2>3, <2>4
<1>10. ASSUME NEW i \in m + 1 .. m + n
       PROVE  nxt2[t[i]] = IF i = Len(t) THEN NoDesc ELSE t[i + 1]
  <2>1. t[i] = s[i - m] /\ i - m \in 1 .. n
    BY <1>4
  <2>2. nxt2[t[i]] = nxt[s[i - m]]
    BY <1>5, <2>1
  <2>3. nxt[s[i - m]] = IF i - m = n THEN NoDesc ELSE s[i - m + 1]
    BY <2>1 DEF IsList, n
  <2>4. i - m = n <=> i = m + n
    BY <1>1
  <2>5. i # m + n => i + 1 \in m + 1 .. m + n /\ i + 1 - m = i - m + 1
    BY <1>1
  <2>6. ASSUME i # m + n
        PROVE  t[i + 1] = s[i - m + 1]
    <3>1. t[i + 1] = s[i + 1 - m]
      BY <1>1, <1>4, <2>5, <2>6
    <3>. QED  BY <2>5, <2>6, <3>1
  <2>. QED  BY <1>3, <2>2, <2>3, <2>4, <2>6
<1>11. t[1] = <<p, 1>> /\ Len(t) # 0
  BY <1>1, <1>3, <1>4
<1>12. IsList(nxt2, <<p, 1>>, t)
  BY <1>3, <1>6, <1>7, <1>9, <1>10, <1>11 DEF IsList
<1>13. Elems(t) = Elems(s) \cup {d \in Desc : d[1] = p}
  <2>1. ASSUME NEW i \in 1 .. Len(t)
        PROVE  t[i] \in Elems(s) \cup {d \in Desc : d[1] = p}
    BY <1>2, <1>3, <1>4, <1>5, <1>6
  <2>2. ASSUME NEW e \in Elems(s)
        PROVE  e \in Elems(t)
    <3>1. PICK i \in 1 .. n : e = s[i]
      BY DEF Elems, n
    <3>2. i + m \in m + 1 .. m + n /\ i + m - m = i /\ i + m \in 1 .. m + n
      BY <1>1
    <3>3. t[i + m] = s[i + m - m]
      BY <1>1, <1>4, <3>2
    <3>4. t[i + m] = s[i]
      BY <3>2, <3>3
    <3>. QED  BY <1>3, <3>1, <3>2, <3>4 DEF Elems
  <2>3. ASSUME NEW d \in Desc, d[1] = p
        PROVE  d \in Elems(t)
    <3>1. d[2] \in 1 .. m /\ d = <<p, d[2]>>
      BY <2>3 DEF Desc, m
    <3>2. d[2] \in 1 .. m + n
      BY <1>1, <3>1
    <3>. QED  BY <1>3, <1>4, <3>1, <3>2 DEF Elems
  <2>4. ASSUME NEW e \in Elems(t)
        PROVE  e \in Elems(s) \cup {d \in Desc : d[1] = p}
    BY <2>1 DEF Elems
  <2>. QED  BY <2>2, <2>3, <2>4
<1>. QED  BY <1>12, <1>13

-----------------------------------------------------------------------------
(***************************************************************************)
(* How the lists change.                                                   *)
(***************************************************************************)
\* F are the elements of the new free list, O those of the new chains.
NewFree(F) == \E t : IsList(next', free_bucket_desc', t) /\ Elems(t) = F
NewOf(b, D) == \E t : IsList(next', chain'[b], t) /\ Elems(t) = D
NewLinks(F, O) ==
  /\ NewFree(F)
  /\ \A b \in Buckets : /\ NewOf(b, O[b]) /\ O[b] \cap F = {}
                        /\ \A c \in Buckets \ {b} : O[b] \cap O[c] = {}

\* The lists after a step, if the links make them.
LEMMA NewLists ==
  ASSUME NEW F, NEW O, NewLinks(F, O)
  PROVE  ListInv' /\ Free' = F /\ \A b \in Buckets : Of(b)' = O[b]
<1>1. IsList(next', free_bucket_desc', Unused') /\ Free' = F
  BY ListIs DEF Unused, Free, NewLinks, NewFree
<1>2. ASSUME NEW b \in Buckets
      PROVE  IsList(next', chain'[b], ChainOf(b)') /\ Of(b)' = O[b]
  BY ListIs DEF ChainOf, Of, NewLinks, NewOf
<1>. QED  BY <1>1, <1>2 DEF ListInv, NewLinks

\* The elements of the lists are descriptors.
LEMMA ListedDescs ==
  ASSUME ListInv
  PROVE  Free \subseteq Desc /\ \A b \in Buckets : Of(b) \subseteq Desc
<1>1. \A s \in Seq(Desc) : Elems(s) \subseteq Desc
  BY DEF Elems
<1>. QED  BY <1>1 DEF ListInv, IsList, Free, Of

\* A list none of whose elements is linked anew.
LEMMA FreeStays ==
  ASSUME ListInv, UNCHANGED free_bucket_desc, \A e \in Free : next'[e] = next[e]
  PROVE  NewFree(Free)
<1>1. IsList(next', free_bucket_desc', Unused)
  BY ListFrame DEF ListInv, Free
<1>. QED  BY <1>1 DEF NewFree, Free

\* A chain stays if its links do.
LEMMA ChainStays ==
  ASSUME ListInv, NEW b \in Buckets, chain'[b] = chain[b],
         \A e \in Of(b) : next'[e] = next[e]
  PROVE  NewOf(b, Of(b))
<1>1. IsList(next', chain'[b], ChainOf(b))
  BY ListFrame DEF ListInv, Of
<1>. QED  BY <1>1 DEF NewOf, Of

\* The links stay.
LEMMA ListsKept ==
  ASSUME ListInv, UNCHANGED lists
  PROVE  ListInv' /\ Free' = Free /\ \A b \in Buckets : Of(b)' = Of(b)
<1>1. Unused' = Unused
  BY DEF Unused, lists
<1>2. \A b \in Buckets : ChainOf(b)' = ChainOf(b)
  BY DEF ChainOf, lists
<1>. QED  BY <1>1, <1>2 DEF ListInv, lists, Free, Of

\* The first unused descriptor is taken.
LEMMA DescTaken ==
  ASSUME ListInv, free_bucket_desc # NoDesc,
         free_bucket_desc' = next[free_bucket_desc], UNCHANGED <<chain, next>>
  PROVE  /\ ListInv' /\ Free' = Free \ {free_bucket_desc}
         /\ free_bucket_desc \in Desc /\ free_bucket_desc \in Free
         /\ \A b \in Buckets : Of(b)' = Of(b)
<1>  DEFINE d == free_bucket_desc
            O == [b \in Buckets |-> Of(b)]
<1>1. /\ IsList(next, next[d], Tail(Unused))
      /\ d \in Desc /\ d \in Free /\ Elems(Tail(Unused)) = Free \ {d}
  BY ListTail DEF ListInv, Free
<1>2. NewFree(Free \ {d})
  BY <1>1 DEF NewFree
<1>3. \A b \in Buckets : NewOf(b, Of(b))
  BY ChainStays
<1>4. \A b \in Buckets : /\ Of(b) \cap (Free \ {d}) = {}
                         /\ \A c \in Buckets \ {b} : Of(b) \cap Of(c) = {}
  BY DEF ListInv
<1>5. NewLinks(Free \ {d}, O)
  BY <1>2, <1>3, <1>4 DEF NewLinks
<1>6. ListInv' /\ Free' = Free \ {d} /\ \A b \in Buckets : Of(b)' = O[b]
  BY <1>5, NewLists
<1>. QED  BY <1>1, <1>6

\* A descriptor in no list is linked to another.
LEMMA DescLinked ==
  ASSUME ListInv, NEW d \in Desc \ Listed, \A e \in Desc \ {d} : next'[e] = next[e],
         UNCHANGED <<free_bucket_desc, chain>>
  PROVE  ListInv' /\ Free' = Free /\ \A b \in Buckets : Of(b)' = Of(b)
<1>  DEFINE O == [b \in Buckets |-> Of(b)]
<1>1. NewFree(Free)
  BY ListedDescs, FreeStays DEF Listed
<1>2. \A b \in Buckets : NewOf(b, Of(b))
  BY ListedDescs, ChainStays DEF Listed, Chained, Of
<1>3. \A b \in Buckets : /\ Of(b) \cap Free = {}
                         /\ \A c \in Buckets \ {b} : Of(b) \cap Of(c) = {}
  BY DEF ListInv
<1>4. NewLinks(Free, O)
  BY <1>1, <1>2, <1>3 DEF NewLinks
<1>5. ListInv' /\ Free' = Free /\ \A b \in Buckets : Of(b)' = O[b]
  BY <1>4, NewLists
<1>. QED  BY <1>5

\* A descriptor becomes the first one of a chain.
LEMMA DescChained ==
  ASSUME ListInv, NEW d \in Desc \ Listed, NEW b \in Buckets, next[d] = chain[b],
         chain \in [Buckets -> Desc \cup {NoDesc}],
         chain' = [chain EXCEPT ![b] = d], UNCHANGED <<free_bucket_desc, next>>
  PROVE  /\ ListInv' /\ Free' = Free
         /\ Of(b)' = Of(b) \cup {d}
         /\ \A c \in Buckets \ {b} : Of(c)' = Of(c)
<1>  DEFINE O == [c \in Buckets |-> IF c = b THEN Of(b) \cup {d} ELSE Of(c)]
<1>1. NewFree(Free)
  BY FreeStays
<1>2. NewOf(b, Of(b) \cup {d})
  <2>1. d \notin Elems(ChainOf(b)) /\ IsList(next, next[d], ChainOf(b))
    BY DEF ListInv, Listed, Chained
  <2>2. \E t : IsList(next, d, t) /\ Elems(t) = Of(b) \cup {d}
    BY <2>1, ListPush DEF Of
  <2>. QED  BY <2>2 DEF NewOf
<1>3. \A c \in Buckets \ {b} : NewOf(c, Of(c))
  BY ChainStays
<1>4. \A c \in Buckets : /\ O[c] \cap Free = {}
                         /\ \A e \in Buckets \ {c} : O[c] \cap O[e] = {}
  BY DEF ListInv, Listed, Chained, Of
<1>5. NewLinks(Free, O)
  BY <1>1, <1>2, <1>3, <1>4 DEF NewLinks
<1>6. ListInv' /\ Free' = Free /\ \A c \in Buckets : Of(c)' = O[c]
  BY <1>5, NewLists
<1>. QED  BY <1>6

\* A descriptor is taken off a chain.
LEMMA DescUnlinked ==
  ASSUME ListInv, NEW b \in Buckets, NEW d \in Of(b), Unlinked(b, d),
         chain \in [Buckets -> Desc \cup {NoDesc}],
         next \in [Desc -> Desc \cup {NoDesc}], UNCHANGED free_bucket_desc
  PROVE  /\ ListInv' /\ Free' = Free
         /\ Of(b)' = Of(b) \ {d}
         /\ \A c \in Buckets \ {b} : Of(c)' = Of(c)
<1>  DEFINE O == [c \in Buckets |-> IF c = b THEN Of(b) \ {d} ELSE Of(c)]
<1>1. \A e \in Desc \ Of(b) : next'[e] = next[e]
  BY DEF Unlinked, Of
<1>2. NewFree(Free)
  <2>1. \A e \in Free : next'[e] = next[e]
    BY <1>1, ListedDescs DEF ListInv
  <2>. QED  BY <2>1, FreeStays
<1>3. ASSUME NEW c \in Buckets \ {b}
      PROVE  NewOf(c, Of(c))
  <2>1. \A e \in Of(c) : next'[e] = next[e]
    BY <1>1, ListedDescs DEF ListInv
  <2>2. chain'[c] = chain[c]
    BY DEF Unlinked
  <2>. QED  BY <2>1, <2>2, ChainStays
<1>4. NewOf(b, Of(b) \ {d})
  <2>0. IsList(next, chain[b], ChainOf(b)) /\ d \in Elems(ChainOf(b))
    BY DEF ListInv, Of
  <2>1. CASE chain[b] = d
    <3>1. d # NoDesc /\ next' = next /\ chain'[b] = next[d]
      BY <2>1, ListedDescs, DescFinite DEF Unlinked
    <3>. QED  BY <2>0, <2>1, <3>1, ListTail DEF Of, NewOf
  <2>2. CASE chain[b] # d
    <3>1. /\ chain' = chain
          /\ \A e \in Elems(ChainOf(b)) :
               next'[e] = IF next[e] = d THEN next[d] ELSE next[e]
      BY <2>2, ListedDescs DEF Unlinked, Of
    <3>. QED  BY <2>0, <2>2, <3>1, ListRemove DEF Of, NewOf
  <2>. QED  BY <2>1, <2>2
<1>5. \A c \in Buckets : /\ O[c] \cap Free = {}
                         /\ \A e \in Buckets \ {c} : O[c] \cap O[e] = {}
  BY DEF ListInv
<1>6. NewLinks(Free, O)
  BY <1>2, <1>3, <1>4, <1>5 DEF NewLinks
<1>7. ListInv' /\ Free' = Free /\ \A c \in Buckets : Of(c)' = O[c]
  BY <1>6, NewLists
<1>. QED  BY <1>7

\* A descriptor becomes the first unused one.
LEMMA DescFreed ==
  ASSUME ListInv, NEW d \in Desc \ Listed, next \in [Desc -> Desc \cup {NoDesc}],
         next' = [next EXCEPT ![d] = free_bucket_desc], free_bucket_desc' = d,
         UNCHANGED chain
  PROVE  /\ ListInv' /\ Free' = Free \cup {d}
         /\ \A b \in Buckets : Of(b)' = Of(b)
<1>  DEFINE O == [b \in Buckets |-> Of(b)]
<1>1. NewFree(Free \cup {d})
  <2>1. \A e \in Elems(Unused) : next'[e] = next[e]
    BY ListedDescs DEF Listed, Free
  <2>2. IsList(next', next'[d], Unused) /\ d \notin Elems(Unused)
    BY <2>1, ListFrame DEF ListInv, Listed, Free
  <2>. QED  BY <2>2, ListPush DEF Free, NewFree
<1>2. \A b \in Buckets : NewOf(b, Of(b))
  BY ListedDescs, ChainStays DEF Listed, Chained, Of
<1>3. \A b \in Buckets : /\ Of(b) \cap (Free \cup {d}) = {}
                         /\ \A c \in Buckets \ {b} : Of(b) \cap Of(c) = {}
  BY DEF ListInv, Listed, Chained, Of
<1>4. NewLinks(Free \cup {d}, O)
  BY <1>1, <1>2, <1>3 DEF NewLinks
<1>5. ListInv' /\ Free' = Free \cup {d} /\ \A b \in Buckets : Of(b)' = O[b]
  BY <1>4, NewLists
<1>. QED  BY <1>5

\* A page of which no descriptor is listed is cut into unused ones.
LEMMA DescsCarved ==
  ASSUME ListInv, NEW p \in Pages, \A d \in Listed : d[1] # p,
         next' = [d \in Desc |-> IF d[1] # p THEN next[d]
                                  ELSE IF d[2] < DescPerPage THEN <<p, d[2] + 1>>
                                  ELSE free_bucket_desc],
         free_bucket_desc' = <<p, 1>>, UNCHANGED chain
  PROVE  /\ ListInv' /\ Free' = Free \cup {d \in Desc : d[1] = p}
         /\ \A b \in Buckets : Of(b)' = Of(b)
<1>  DEFINE P == {d \in Desc : d[1] = p}
            O == [b \in Buckets |-> Of(b)]
<1>1. NewFree(Free \cup P)
  <2>1. \A e \in Elems(Unused) : e[1] # p
    BY DEF Listed, Free
  <2>. QED  BY <2>1, ListCarve DEF ListInv, Free, NewFree
<1>2. ASSUME NEW b \in Buckets
      PROVE  NewOf(b, Of(b))
  <2>1. \A e \in Of(b) : next'[e] = next[e]
    BY ListedDescs DEF Listed, Chained, Of
  <2>2. chain'[b] = chain[b]
    OBVIOUS
  <2>. QED  BY <2>1, <2>2, ChainStays
<1>3. \A b \in Buckets : /\ Of(b) \cap (Free \cup P) = {}
                         /\ \A c \in Buckets \ {b} : Of(b) \cap Of(c) = {}
  BY DEF ListInv, Listed, Chained, Of
<1>4. NewLinks(Free \cup P, O)
  BY <1>1, <1>2, <1>3 DEF NewLinks
<1>5. ListInv' /\ Free' = Free \cup P /\ \A b \in Buckets : Of(b)' = O[b]
  BY <1>4, NewLists
<1>. QED  BY <1>5

-----------------------------------------------------------------------------
(***************************************************************************)
(* Buckets, objects and counting.                                          *)
(***************************************************************************)
\* A request finds its bucket.
LEMMA Bucket ==
  ASSUME NEW len \in Lens
  PROVE  /\ BucketFor(len) \in Buckets /\ Sizes[BucketFor(len)] >= len
         /\ \A c \in 1 .. BucketFor(len) - 1 : Sizes[c] < len
<1>  DEFINE T == {b \in Buckets : len <= Sizes[b]}
<1>1. Len(Sizes) \in Nat /\ \A b \in Buckets : Sizes[b] \in Nat
  BY SizesAssumption DEF Buckets
<1>2. len \in Nat /\ T \subseteq Nat /\ T # {}
  BY <1>1, LensAssumption DEF Buckets
<1>3. PICK b \in T : \A c \in T : b <= c
  BY <1>2, Least
<1>4. \A c \in 1 .. b - 1 : c \in Buckets /\ ~ (b <= c)
  BY <1>1 DEF Buckets
<1>5. \A c \in 1 .. b - 1 : Sizes[c] < len
  BY <1>1, <1>2, <1>3, <1>4
<1>6. b \in Buckets /\ Sizes[b] >= len
  BY <1>1, <1>2
<1>. QED  BY <1>5, <1>6 DEF BucketFor

\* A page holds objects, and no more of them than bytes.
LEMMA CapacityRange ==
  ASSUME NEW b \in Buckets
  PROVE  Capacity(b) \in 1 .. PAGE_SIZE
<1>1. PAGE_SIZE \in Nat \ {0} /\ Sizes[b] \in 1 .. PAGE_SIZE
  BY SizesAssumption DEF Buckets
<1>2. \A n \in Nat \ {0} : \A m \in 1 .. n : n \div m \in 1 .. n
  OBVIOUS
<1>. QED  BY <1>1, <1>2 DEF Capacity

\* The free list of a new page has each of its objects once.
LEMMA FreeObjectsSound ==
  ASSUME NEW b \in Buckets
  PROVE  /\ FreeObjects(b) \in Seq(Nat) /\ Distinct(FreeObjects(b))
         /\ Elems(FreeObjects(b)) = 0 .. Capacity(b) - 1
<1>1. Capacity(b) \in Nat
  BY CapacityRange
<1>2. FreeObjects(b) \in Seq(Nat) /\ Len(FreeObjects(b)) = Capacity(b)
  BY <1>1 DEF FreeObjects
<1>3. Distinct(FreeObjects(b))
  BY <1>1, <1>2 DEF Distinct, FreeObjects
<1>4. ASSUME NEW n \in 0 .. Capacity(b) - 1
      PROVE  n \in Elems(FreeObjects(b))
  <2>1. n + 1 \in 1 .. Capacity(b) /\ FreeObjects(b)[n + 1] = n
    BY <1>1 DEF FreeObjects
  <2>. QED  BY <1>2, <2>1 DEF Elems
<1>5. Elems(FreeObjects(b)) \subseteq 0 .. Capacity(b) - 1
  BY <1>1, <1>2 DEF Elems, FreeObjects
<1>. QED  BY <1>2, <1>3, <1>4, <1>5

\* The first object is taken off a free list.
LEMMA FreeTail ==
  ASSUME NEW s \in Seq(Nat), s # <<>>, Distinct(s)
  PROVE  /\ Tail(s) \in Seq(Nat) /\ Distinct(Tail(s))
         /\ Head(s) \in Nat /\ Head(s) \in Elems(s)
         /\ Elems(Tail(s)) = Elems(s) \ {Head(s)}
<1>  DEFINE t == Tail(s)
<1>1. Len(s) \in Nat \ {0} /\ Head(s) = s[1] /\ s[1] \in Nat
  OBVIOUS
<1>2. /\ t \in Seq(Nat) /\ Len(t) = Len(s) - 1
      /\ \A i \in 1 .. Len(s) - 1 : t[i] = s[i + 1]
  BY <1>1
<1>  HIDE DEF t
<1>3. ASSUME NEW i \in 1 .. Len(t), NEW j \in 1 .. Len(t), t[i] = t[j]
      PROVE  i = j
  <2>0. /\ i \in 1 .. Len(s) - 1 /\ j \in 1 .. Len(s) - 1
    BY <1>2
  <2>1. i + 1 \in 1 .. Len(s) /\ j + 1 \in 1 .. Len(s)
    BY <1>1, <2>0
  <2>2. s[i + 1] = s[j + 1]
    BY <1>2, <1>3, <2>0
  <2>3. \A x, y \in 1 .. Len(s) : s[x] = s[y] => x = y
    BY DEF Distinct
  <2>4. i + 1 = j + 1
    BY <2>1, <2>2, <2>3
  <2>. QED  BY <2>4
<1>4. Elems(t) = Elems(s) \ {s[1]}
  <2>1. ASSUME NEW e \in Elems(s), e # s[1]
        PROVE  e \in Elems(t)
    <3>1. PICK i \in 1 .. Len(s) : e = s[i]
      BY DEF Elems
    <3>2. i - 1 \in 1 .. Len(t) /\ t[i - 1] = s[i]
      BY <1>1, <1>2, <2>1, <3>1
    <3>. QED  BY <3>1, <3>2 DEF Elems
  <2>2. ASSUME NEW e \in Elems(t)
        PROVE  e \in Elems(s) /\ e # s[1]
    <3>1. PICK i \in 1 .. Len(s) - 1 : e = s[i + 1]
      BY <1>2 DEF Elems
    <3>2. i + 1 \in 1 .. Len(s) /\ 1 \in 1 .. Len(s) /\ i + 1 # 1
      BY <1>1, <3>1
    <3>. QED  BY <3>1, <3>2 DEF Elems, Distinct
  <2>. QED  BY <2>1, <2>2
<1>5. Head(s) \in Elems(s)
  BY <1>1 DEF Elems
<1>. QED  BY <1>1, <1>2, <1>3, <1>4, <1>5 DEF Distinct, t

\* An object becomes the first one of a free list.
LEMMA FreePush ==
  ASSUME NEW s \in Seq(Nat), Distinct(s), NEW x \in Nat \ Elems(s)
  PROVE  /\ <<x>> \o s \in Seq(Nat) /\ Distinct(<<x>> \o s)
         /\ Elems(<<x>> \o s) = Elems(s) \cup {x}
<1>  DEFINE t == <<x>> \o s
<1>1. Len(s) \in Nat
  OBVIOUS
<1>2. /\ t \in Seq(Nat) /\ Len(t) = Len(s) + 1 /\ t[1] = x
      /\ \A i \in 1 .. Len(s) : t[i + 1] = s[i]
  BY <1>1
<1>  HIDE DEF t
<1>3. ASSUME NEW i \in 1 .. Len(t), i # 1
      PROVE  i - 1 \in 1 .. Len(s) /\ t[i] = s[i - 1]
  <2>1. i - 1 \in 1 .. Len(s) /\ (i - 1) + 1 = i
    BY <1>1, <1>2, <1>3
  <2>. QED  BY <1>2, <2>1
<1>4. ASSUME NEW i \in 1 .. Len(t), NEW j \in 1 .. Len(t), t[i] = t[j]
      PROVE  i = j
  <2>1. CASE i = 1 \/ j = 1
    BY <1>2, <1>3, <1>4, <2>1 DEF Elems
  <2>2. CASE i # 1 /\ j # 1
    <3>1. /\ i - 1 \in 1 .. Len(s) /\ j - 1 \in 1 .. Len(s)
          /\ s[i - 1] = s[j - 1]
      BY <1>3, <1>4, <2>2
    <3>2. i - 1 = j - 1
      BY <3>1 DEF Distinct
    <3>. QED  BY <3>2
  <2>. QED  BY <2>1, <2>2
<1>5. Elems(t) = Elems(s) \cup {x}
  <2>1. \A i \in 1 .. Len(s) : i + 1 \in 1 .. Len(t) /\ t[i + 1] = s[i]
    BY <1>1, <1>2
  <2>2. 1 \in 1 .. Len(t)
    BY <1>1, <1>2
  <2>3. ASSUME NEW i \in 1 .. Len(t)
        PROVE  t[i] \in Elems(s) \cup {x}
    <3>1. i # 1 => \E j \in 1 .. Len(s) : t[i] = s[j]
      BY <1>3
    <3>. QED  BY <1>2, <3>1 DEF Elems
  <2>4. ASSUME NEW i \in 1 .. Len(s)
        PROVE  s[i] \in Elems(t)
    BY <2>1 DEF Elems
  <2>5. x \in Elems(t)
    BY <1>2, <2>2 DEF Elems
  <2>. QED  BY <2>3, <2>4, <2>5 DEF Elems
<1>. QED  BY <1>2, <1>4, <1>5 DEF Distinct, t

\* One element more, one less, and at most one more.
LEMMA CardAdd ==
  ASSUME NEW A, IsFiniteSet(A), NEW x, x \notin A
  PROVE  /\ IsFiniteSet(A \cup {x}) /\ Cardinality(A) \in Nat
         /\ Cardinality(A \cup {x}) = Cardinality(A) + 1
BY FS_AddElement, FS_CardinalityType

\* A set with one element less.
LEMMA CardRemove ==
  ASSUME NEW A, IsFiniteSet(A), NEW x \in A
  PROVE  /\ IsFiniteSet(A \ {x}) /\ Cardinality(A) \in Nat \ {0}
         /\ Cardinality(A \ {x}) = Cardinality(A) - 1
<1>1. IsFiniteSet(A \ {x}) /\ Cardinality(A) \in Nat /\ Cardinality(A \ {x}) \in Nat
  BY FS_Difference, FS_CardinalityType
<1>2. (A \ {x}) \cup {x} = A
  OBVIOUS
<1>3. Cardinality(A) = Cardinality(A \ {x}) + 1
  BY <1>1, <1>2, CardAdd
<1>. QED  BY <1>1, <1>3

\* A set that grows by at most one element.
LEMMA CardGrows ==
  ASSUME NEW A, NEW B, NEW x, IsFiniteSet(A), B \subseteq A \cup {x}
  PROVE  IsFiniteSet(B) /\ Cardinality(B) \in Nat /\ Cardinality(B) <= Cardinality(A) + 1
<1>1. /\ IsFiniteSet(A \cup {x}) /\ Cardinality(A) \in Nat
      /\ Cardinality(A \cup {x}) <= Cardinality(A) + 1
  <2>1. Cardinality(A) \in Nat
    BY FS_CardinalityType
  <2>2. /\ IsFiniteSet(A \cup {x})
        /\ Cardinality(A \cup {x}) = IF x \in A THEN Cardinality(A)
                                     ELSE Cardinality(A) + 1
    BY FS_AddElement
  <2>. QED  BY <2>1, <2>2
<1>2. IsFiniteSet(B) /\ Cardinality(B) <= Cardinality(A \cup {x})
  BY <1>1, FS_Subset
<1>3. Cardinality(B) \in Nat /\ Cardinality(A \cup {x}) \in Nat
  BY <1>1, <1>2, FS_CardinalityType
<1>. QED  BY <1>1, <1>2, <1>3

-----------------------------------------------------------------------------
(***************************************************************************)
(* What the steps have in common.                                          *)
(***************************************************************************)
LEMMA ChainedIs ==
  /\ \A d : d \in Chained <=> \E b \in Buckets : d \in Of(b)
  /\ \A d : d \in Chained' <=> \E b \in Buckets : d \in Of(b)'
BY DEF Chained, Of

\* A descriptor is in one list only.
LEMMA ChainedSound ==
  ASSUME ListInv
  PROVE  /\ Chained \subseteq Desc /\ Free \subseteq Desc /\ Chained \cap Free = {}
         /\ \A b, c \in Buckets : \A d \in Of(b) \cap Of(c) : b = c
<1>1. \A b \in Buckets : /\ Of(b) \cap Free = {}
                         /\ \A c \in Buckets \ {b} : Of(b) \cap Of(c) = {}
  BY DEF ListInv
<1>. QED  BY <1>1, ListedDescs, ChainedIs

\* Chains that keep their descriptors.
LEMMA ChainedKept ==
  ASSUME \A b \in Buckets : Of(b)' = Of(b)
  PROVE  Chained' = Chained
BY ChainedIs

\* The chains stay, with what is in their pages.
LEMMA ObjectsFrame ==
  ASSUME FreeInv, CountInv, HeldInv, UNCHANGED live, live \in SUBSET Objects,
         cut \in Nat, cut' \in Nat,
         \A b \in Buckets : Of(b)' = Of(b),
         \A d \in Chained : /\ page'[d] = page[d] /\ freeptr'[d] = freeptr[d]
                            /\ refcnt'[d] = refcnt[d],
         cut' >= cut,
         cut' > 0 \/ Call'.desc = Call.desc \/ Call.desc \notin Chained
  PROVE  FreeInv' /\ CountInv' /\ HeldInv'
<1>1. Chained' = Chained
  BY ChainedKept
<1>2. FreeInv'
  <2>1. \A b \in Buckets : \A d \in Of(b) : freeptr'[d] = freeptr[d]
    BY ChainedIs
  <2>2. \A b \in Buckets : \A d \in Of(b)' :
          Distinct(freeptr'[d]) /\ Elems(freeptr'[d]) \subseteq 0 .. Capacity(b) - 1
    BY <2>1 DEF FreeInv
  <2>3. \A d \in Chained' : \A o \in live' :
          o.page = page'[d] => o.nr \notin Elems(freeptr'[d])
    BY <1>1 DEF FreeInv
  <2>. QED  BY <2>2, <2>3 DEF FreeInv
<1>3. CountInv'
  <2>1. ASSUME NEW d \in Chained
        PROVE  refcnt'[d] = Cardinality(On(d)')
    BY DEF CountInv, On
  <2>2. ASSUME NEW d \in Chained
        PROVE  refcnt'[d] > 0 \/ cut' > 0 \/ Call'.desc = d
    BY DEF CountInv
  <2>. QED  BY <1>1, <2>1, <2>2 DEF CountInv
<1>4. HeldInv'
  <2>1. ASSUME NEW o \in live
        PROVE  /\ o.nr < Capacity(BucketFor(o.len))
               /\ \E d \in Of(BucketFor(o.len))' : page'[d] = o.page
    <3>1. BucketFor(o.len) \in Buckets
      BY Bucket DEF Objects
    <3>2. PICK d \in Of(BucketFor(o.len)) : page[d] = o.page
      BY DEF HeldInv
    <3>3. d \in Chained
      BY <3>1, ChainedIs
    <3>. QED  BY <3>1, <3>2, <3>3 DEF HeldInv
  <2>. QED  BY <2>1 DEF HeldInv
<1>. QED  BY <1>2, <1>3, <1>4

\* Only a task calls, and one call at a time.
LEMMA OneCall ==
  ASSUME HandInv, ~IdleSwitched, NEW c \in Callers
  PROVE  /\ MayCall(c) => c = "task" /\ Call = NoCall
         /\ \A place \in Places \ {"none"} :
              At(c, place) => c = "task" /\ Call.at = place
BY DEF HandInv, MayCall, At, Callers, Places, NoCall, Call

\* The call of a task takes a step.
LEMMA CallSteps ==
  ASSUME TypeInv, HandInv, NEW k \in CallType, calls' = [calls EXCEPT !["task"] = k]
  PROVE  calls' \in [Callers -> CallType] /\ Call' = k /\ calls'["idle"] = NoCall
BY DEF TypeInv, CallsType, HandInv, Callers, Call

\* A call that goes on to another place keeps its local variables.
LEMMA CallGoes ==
  ASSUME TypeInv, HandInv, NEW place \in Places, Goes("task", place)
  PROVE  /\ calls' \in [Callers -> CallType] /\ calls'["idle"] = NoCall
         /\ Call'.at = place /\ Call'.len = Call.len /\ Call'.desc = Call.desc
         /\ Call'.page = Call.page /\ Call'.nr = Call.nr
<1>1. Call \in CallType
  BY DEF TypeInv, CallsType, Callers, Call
<1>2. calls' = [calls EXCEPT !["task"] = [Call EXCEPT !.at = place]]
  BY DEF Goes, Call
<1>3. [Call EXCEPT !.at = place] \in CallType
  BY <1>1 DEF CallType
<1>. QED  BY <1>1, <1>2, <1>3, CallSteps DEF CallType

\* What does not change keeps its type.
LEMMA TypesKept ==
  /\ PagesType /\ UNCHANGED <<pages, carved>> => PagesType'
  /\ ListsType /\ UNCHANGED lists => ListsType'
  /\ FieldsType /\ UNCHANGED fields => FieldsType'
  /\ ObjectsType /\ UNCHANGED live => ObjectsType'
  /\ GhostsType /\ UNCHANGED ghosts => GhostsType'
<1>1. PagesType /\ UNCHANGED <<pages, carved>> => PagesType'
  BY DEF PagesType, pages
<1>2. ListsType /\ UNCHANGED lists => ListsType'
  BY DEF ListsType, lists
<1>3. FieldsType /\ UNCHANGED fields => FieldsType'
  BY DEF FieldsType, fields
<1>4. ObjectsType /\ UNCHANGED live => ObjectsType'
  BY DEF ObjectsType
<1>5. GhostsType /\ UNCHANGED ghosts => GhostsType'
  BY DEF GhostsType, ghosts
<1>. QED  BY <1>1, <1>2, <1>3, <1>4, <1>5

\* The initial call is of its type.
LEMMA NoCallType ==
  NoCall \in CallType
BY DEF NoCall, CallType, Places

-----------------------------------------------------------------------------
(***************************************************************************)
(* What is lost, when only a task calls.                                   *)
(***************************************************************************)
LostPage(p) ==
  /\ p \in Marked /\ p \notin carved /\ \A d \in Chained : page[d] # p
  /\ ~ (PageInHand /\ Call.page = p)
LostDesc(d) == d \in Desc /\ d[1] \in carved /\ d \notin Listed /\ d # Call.desc
LostObject(d, n) ==
  /\ \E b \in Buckets : d \in Of(b) /\ n < Capacity(b)
  /\ n \notin Elems(freeptr[d]) /\ \A o \in live : o.page = page[d] => o.nr # n
  /\ ~ (Call.at = "return" /\ Call.desc = d /\ Call.nr = n)

\* Only the call of a task can be under way.
LEMMA CallingIs ==
  ASSUME NEW places, "none" \notin places
  PROVE  /\ calls["idle"] = NoCall =>
              Calling(places) = IF Call.at \in places THEN {Call} ELSE {}
         /\ calls'["idle"] = NoCall =>
              Calling(places)' = IF Call'.at \in places THEN {Call'} ELSE {}
<1>1. calls["idle"] = NoCall =>
        {x \in Callers : calls[x].at \in places} = IF Call.at \in places THEN {"task"} ELSE {}
  BY DEF Callers, NoCall, Call
<1>2. calls'["idle"] = NoCall =>
        {x \in Callers : calls'[x].at \in places} = IF Call'.at \in places THEN {"task"} ELSE {}
  BY DEF Callers, NoCall, Call
<1>. QED  BY <1>1, <1>2 DEF Calling, Call

\* The lost pages, page by page.
LEMMA LostPagesAre ==
  /\ calls["idle"] = NoCall => LostPages = {p \in Pages : LostPage(p)}
  /\ calls'["idle"] = NoCall => LostPages' = {p \in Pages : LostPage(p)'}
<1>1. calls["idle"] = NoCall => LostPages = {p \in Pages : LostPage(p)}
  BY CallingIs DEF LostPages, LostPage, PageInHand, Marked
<1>2. calls'["idle"] = NoCall => LostPages' = {p \in Pages : LostPage(p)'}
  BY CallingIs DEF LostPages, LostPage, PageInHand, Marked
<1>. QED  BY <1>1, <1>2

\* The lost descriptors, one by one.
LEMMA LostDescsAre ==
  /\ calls["idle"] = NoCall => LostDescs = {d \in Desc : LostDesc(d)}
  /\ calls'["idle"] = NoCall => LostDescs' = {d \in Desc : LostDesc(d)'}
<1>1. {"task", "idle"} = Callers /\ NoCall.desc = NoDesc /\ NoDesc \notin Desc
  BY DescFinite DEF Callers, NoCall
<1>2. calls["idle"] = NoCall => LostDescs = {d \in Desc : LostDesc(d)}
  BY <1>1 DEF LostDescs, LostDesc, Listed, Free, Call
<1>3. calls'["idle"] = NoCall => LostDescs' = {d \in Desc : LostDesc(d)'}
  BY <1>1 DEF LostDescs, LostDesc, Listed, Free, Call
<1>. QED  BY <1>2, <1>3

\* The lost objects, one by one.
LEMMA LostObjectsAre ==
  /\ calls["idle"] = NoCall =>
       LostObjects = {x \in Desc \X (0 .. PAGE_SIZE - 1) : LostObject(x[1], x[2])}
  /\ calls'["idle"] = NoCall =>
       LostObjects' = {x \in Desc \X (0 .. PAGE_SIZE - 1) : LostObject(x[1], x[2])'}
<1>1. ASSUME calls["idle"] = NoCall
      PROVE  LostObjects = {x \in Desc \X (0 .. PAGE_SIZE - 1) : LostObject(x[1], x[2])}
  <2>1. Calling({"return"}) = IF Call.at = "return" THEN {Call} ELSE {}
    BY <1>1, CallingIs
  <2>2. {<<k.desc, k.nr>> : k \in Calling({"return"})} =
          IF Call.at = "return" THEN {<<Call.desc, Call.nr>>} ELSE {}
    BY <2>1
  <2>. QED  BY <2>2 DEF LostObjects, LostObject, Of, Used
<1>2. ASSUME calls'["idle"] = NoCall
      PROVE  LostObjects' = {x \in Desc \X (0 .. PAGE_SIZE - 1) : LostObject(x[1], x[2])'}
  <2>1. Calling({"return"})' = IF Call'.at = "return" THEN {Call'} ELSE {}
    BY <1>2, CallingIs
  <2>2. {<<k.desc, k.nr>> : k \in Calling({"return"})'} =
          IF Call'.at = "return" THEN {<<Call'.desc, Call'.nr>>} ELSE {}
    BY <2>1
  <2>. QED  BY <2>2 DEF LostObjects, LostObject, Of, Used
<1>. QED  BY <1>1, <1>2

\* Whether a call has marked a page that it has not counted yet.
LEMMA CountingIs ==
  /\ calls["idle"] = NoCall => Counting = IF Call.at = "count" THEN 1 ELSE 0
  /\ calls'["idle"] = NoCall => Counting' = IF Call'.at = "count" THEN 1 ELSE 0
BY CallingIs, FS_EmptySet, FS_Singleton DEF Counting

\* Finitely many are lost.
LEMMA LostFinite ==
  /\ IsFiniteSet(LostPages) /\ IsFiniteSet(LostDescs) /\ IsFiniteSet(LostObjects)
  /\ IsFiniteSet(Marked)
<1>1. IsFiniteSet(Pages) /\ IsFiniteSet(0 .. PAGE_SIZE - 1)
  BY FS_Interval, TotalAssumption, SizesAssumption DEF Pages
<1>2. IsFiniteSet(Desc \X (0 .. PAGE_SIZE - 1))
  BY <1>1, DescFinite, FS_Product
<1>3. /\ LostPages \subseteq Pages /\ LostDescs \subseteq Desc /\ Marked \subseteq Pages
      /\ LostObjects \subseteq Desc \X (0 .. PAGE_SIZE - 1)
  BY DEF LostPages, LostDescs, LostObjects, Marked
<1>. QED  BY <1>1, <1>2, <1>3, DescFinite, FS_Subset

\* Nothing is lost in a step.
LEMMA LossesKept ==
  ASSUME LossesBounded, calls["idle"] = NoCall, calls'["idle"] = NoCall, GhostsType,
         cut' = cut, failed' = failed,
         \A p \in Pages : LostPage(p)' => LostPage(p),
         \A d \in Desc : LostDesc(d)' => LostDesc(d),
         \A d \in Desc : \A n \in 0 .. PAGE_SIZE - 1 :
           LostObject(d, n)' => LostObject(d, n),
         Uncounted' = Uncounted
  PROVE  LossesBounded'
<1>1. /\ LostPages' \subseteq LostPages /\ LostDescs' \subseteq LostDescs
      /\ LostObjects' \subseteq LostObjects
  BY LostPagesAre, LostDescsAre, LostObjectsAre
<1>2. ASSUME NEW A, NEW B, IsFiniteSet(A), B \subseteq A
      PROVE  /\ Cardinality(A) \in Nat /\ Cardinality(B) \in Nat
             /\ Cardinality(B) <= Cardinality(A)
  BY <1>2, FS_Subset, FS_CardinalityType
<1>3. /\ Cardinality(LostPages) \in Nat /\ Cardinality(LostPages') \in Nat
      /\ Cardinality(LostPages') <= Cardinality(LostPages)
      /\ Cardinality(LostDescs) \in Nat /\ Cardinality(LostDescs') \in Nat
      /\ Cardinality(LostDescs') <= Cardinality(LostDescs)
      /\ Cardinality(LostObjects) \in Nat /\ Cardinality(LostObjects') \in Nat
      /\ Cardinality(LostObjects') <= Cardinality(LostObjects)
  BY <1>1, <1>2, LostFinite
<1>. QED  BY <1>3 DEF LossesBounded, GhostsType

\* At most one page, descriptor and object, and one count.
LEMMA LossesGrow ==
  ASSUME LossesBounded, calls["idle"] = NoCall, calls'["idle"] = NoCall, GhostsType,
         NEW q, NEW f, NEW x, NEW u \in {0, 1},
         LostPages' \subseteq LostPages \cup {q}, LostDescs' \subseteq LostDescs \cup {f},
         LostObjects' \subseteq LostObjects \cup {x}, Uncounted' = Uncounted + u,
         cut' = cut + 1, failed' = failed
  PROVE  LossesBounded'
<1>1. /\ Cardinality(LostPages') \in Nat
      /\ Cardinality(LostPages') <= Cardinality(LostPages) + 1
      /\ Cardinality(LostDescs') \in Nat
      /\ Cardinality(LostDescs') <= Cardinality(LostDescs) + 1
      /\ Cardinality(LostObjects') \in Nat
      /\ Cardinality(LostObjects') <= Cardinality(LostObjects) + 1
  BY LostFinite, CardGrows
<1>2. /\ Cardinality(LostPages) \in Nat /\ Cardinality(LostDescs) \in Nat
      /\ Cardinality(LostObjects) \in Nat
  BY LostFinite, FS_CardinalityType
<1>. QED  BY <1>1, <1>2 DEF LossesBounded, GhostsType

\* The objects of the chains stay, and the call that is to return one.
LEMMA LostObjectsFrame ==
  ASSUME UNCHANGED live, \A b \in Buckets : Of(b)' = Of(b),
         \A d \in Chained : page'[d] = page[d] /\ freeptr'[d] = freeptr[d],
         Call.at # "return" \/ Call' = Call
  PROVE  \A d \in Desc : \A n \in 0 .. PAGE_SIZE - 1 :
           LostObject(d, n)' => LostObject(d, n)
<1>1. ASSUME NEW d, NEW n, LostObject(d, n)'
      PROVE  LostObject(d, n)
  <2>1. PICK b \in Buckets : d \in Of(b) /\ n < Capacity(b)
    BY <1>1 DEF LostObject
  <2>2. page'[d] = page[d] /\ freeptr'[d] = freeptr[d]
    BY <2>1, ChainedIs
  <2>. QED  BY <1>1, <2>1, <2>2 DEF LostObject
<1>. QED  BY <1>1

\* A step that neither marks nor counts a page.
LEMMA UncountedKept ==
  ASSUME calls["idle"] = NoCall, calls'["idle"] = NoCall, Marked' = Marked,
         bitmap_item_used' = bitmap_item_used,
         Call'.at = "count" <=> Call.at = "count"
  PROVE  Uncounted' = Uncounted
<1>1. Counting' = Counting
  BY CountingIs
<1>. QED  BY <1>1 DEF Uncounted

\* A page is marked, and counted unless the call still has to.
LEMMA UncountedMore ==
  ASSUME calls["idle"] = NoCall, calls'["idle"] = NoCall, bitmap_item_used \in Int,
         NEW p, p \notin Marked, Marked' = Marked \cup {p}, Call.at # "count",
         bitmap_item_used' = IF Call'.at = "count" THEN bitmap_item_used
                             ELSE bitmap_item_used + 1
  PROVE  Uncounted' = Uncounted
<1>1. Cardinality(Marked) \in Nat /\ Cardinality(Marked') = Cardinality(Marked) + 1
  BY LostFinite, CardAdd
<1>2. Counting = 0 /\ Counting' = IF Call'.at = "count" THEN 1 ELSE 0
  BY CountingIs
<1>. QED  BY <1>1, <1>2 DEF Uncounted

\* The parts of the invariant.
LEMMA IInvParts ==
  ASSUME IInv
  PROVE  /\ TypeInv /\ ListInv /\ PageInv /\ HandInv /\ FreeInv /\ CountInv /\ HeldInv
         /\ PagesType /\ ListsType /\ FieldsType /\ CallsType /\ ObjectsType /\ GhostsType
         /\ LossesBounded /\ calls["idle"] = NoCall
BY DEF IInv, TypeInv, HandInv

\* Nothing but "fault" changes.
LEMMA IdleStep ==
  ASSUME IInv, fault' \in BOOLEAN,
         UNCHANGED <<pages, lists, fields, carved, live, calls, cut, failed>>
  PROVE  IInv'
<1>0. /\ TypeInv /\ ListInv /\ PageInv /\ HandInv /\ FreeInv /\ CountInv /\ HeldInv
      /\ PagesType /\ ListsType /\ FieldsType /\ CallsType /\ ObjectsType /\ GhostsType
      /\ LossesBounded /\ calls["idle"] = NoCall
  BY IInvParts
<1>1. ListInv' /\ Free' = Free /\ \A b \in Buckets : Of(b)' = Of(b)
  BY <1>0, ListsKept
<1>2. Chained' = Chained
  BY <1>1, ChainedKept
<1>3. TypeInv'
  <2>1. CallsType' /\ GhostsType'
    BY <1>0 DEF CallsType, GhostsType
  <2>. QED  BY <1>0, <2>1, TypesKept DEF TypeInv
<1>4. Marked' = Marked
  BY DEF Marked, pages
<1>5. PageInv'
  BY <1>0, <1>1, <1>2, <1>4 DEF PageInv, Listed, fields
<1>6. HandInv'
  BY <1>0, <1>1, <1>2, <1>4, Bucket
  DEF HandInv, DescInHand, PageInHand, fields, lists, Call, Listed
<1>7. FreeInv' /\ CountInv' /\ HeldInv'
  BY <1>0, <1>1, ObjectsFrame DEF fields, ghosts, ObjectsType, GhostsType, Call
<1>8. LossesBounded'
  <2>1. Call' = Call /\ Listed' = Listed
    BY <1>1, <1>2 DEF Call, Listed
  <2>2. \A p : LostPage(p)' => LostPage(p)
    BY <1>2, <1>4, <2>1 DEF LostPage, PageInHand, fields
  <2>3. \A d : LostDesc(d)' => LostDesc(d)
    BY <2>1 DEF LostDesc
  <2>4. \A d \in Desc : \A n \in 0 .. PAGE_SIZE - 1 :
          LostObject(d, n)' => LostObject(d, n)
    BY <1>1, <2>1, LostObjectsFrame DEF fields
  <2>5. Uncounted' = Uncounted
    BY <1>0, <1>4, <2>1, UncountedKept DEF pages
  <2>. QED  BY <1>0, <2>2, <2>3, <2>4, <2>5, LossesKept
<1>. QED  BY <1>1, <1>3, <1>5, <1>6, <1>7, <1>8 DEF IInv

-----------------------------------------------------------------------------
(***************************************************************************)
(* The steps of kmalloc().                                                 *)
(***************************************************************************)
LEMMA KmallocInitDescInv ==
  ASSUME IInv, ~IdleSwitched, NEW c \in Callers, NEW len \in Lens, KmallocInitDesc(c, len)
  PROVE  IInv'
<1>0. /\ TypeInv /\ ListInv /\ PageInv /\ HandInv /\ FreeInv /\ CountInv /\ HeldInv
      /\ PagesType /\ ListsType /\ FieldsType /\ CallsType /\ ObjectsType /\ GhostsType
      /\ LossesBounded /\ calls["idle"] = NoCall
  BY IInvParts
<1>1. c = "task" /\ Call = NoCall
  BY <1>0, OneCall DEF KmallocInitDesc, NeedsPage
<1>2. PICK p \in Pages :
        /\ get_free_page(p)
        /\ calls' = [calls EXCEPT ![c] = [NoCall EXCEPT !.at = "carve", !.len = len,
                                                      !.page = p]]
  BY DEF KmallocInitDesc
<1>3. UNCHANGED <<lists, fields, carved, live, ghosts>>
  BY DEF KmallocInitDesc
<1>4. map[p] = 0 /\ map' = [map EXCEPT ![p] = 1] /\ bitmap_item_used' = bitmap_item_used + 1
  BY <1>2 DEF get_free_page, FirstFree, Candidates
<1>5. /\ calls' \in [Callers -> CallType] /\ calls'["idle"] = NoCall
      /\ Call'.at = "carve" /\ Call'.len = len /\ Call'.desc = NoDesc /\ Call'.page = p
  <2>  DEFINE k == [NoCall EXCEPT !.at = "carve", !.len = len, !.page = p]
  <2>1. k \in CallType
    BY NoCallType DEF CallType, Places
  <2>2. calls' = [calls EXCEPT !["task"] = k]
    BY <1>1, <1>2
  <2>3. k.at = "carve" /\ k.len = len /\ k.desc = NoDesc /\ k.page = p
    BY NoCallType DEF CallType, NoCall
  <2>  HIDE DEF k
  <2>. QED  BY <1>0, <2>1, <2>2, <2>3, CallSteps
<1>6. ListInv' /\ Free' = Free /\ \A b \in Buckets : Of(b)' = Of(b)
  BY <1>0, <1>3, ListsKept
<1>7. Chained' = Chained /\ Chained \subseteq Desc
  BY <1>0, <1>6, ChainedKept, ChainedSound
<1>8. TypeInv'
  <2>1. PagesType'
    BY <1>0, <1>3, <1>4 DEF TypeInv, PagesType
  <2>2. CallsType'
    BY <1>5 DEF CallsType
  <2>. QED  BY <1>0, <1>3, <2>1, <2>2, TypesKept DEF TypeInv
<1>9. Marked' = Marked \cup {p} /\ p \notin Marked
  BY <1>0, <1>4 DEF Marked, TypeInv, PagesType
<1>10. PageInv'
  BY <1>0, <1>3, <1>6, <1>7, <1>9 DEF PageInv, Listed, fields
<1>11. HandInv'
  BY <1>0, <1>3, <1>5, <1>6, <1>7, <1>9
     DEF PageInv, HandInv, DescInHand, PageInHand, fields
<1>12. FreeInv' /\ CountInv' /\ HeldInv'
  <2>1. Call.desc \notin Chained
    BY <1>1, <1>7, DescFinite DEF NoCall
  <2>. QED  BY <1>0, <1>3, <1>6, <2>1, ObjectsFrame 
            DEF fields, ghosts, TypeInv, ObjectsType, GhostsType
<1>13. LossesBounded'
  <2>1. \A q : LostPage(q)' => LostPage(q)
    BY <1>1, <1>3, <1>5, <1>7, <1>9 DEF LostPage, PageInHand, NoCall, fields
  <2>2. \A d \in Desc : LostDesc(d)' => LostDesc(d)
    BY <1>1, <1>3, <1>5, <1>6, <1>7, DescFinite DEF LostDesc, Listed, NoCall
  <2>3. \A d \in Desc : \A n \in 0 .. PAGE_SIZE - 1 :
          LostObject(d, n)' => LostObject(d, n)
    BY <1>1, <1>3, <1>6, LostObjectsFrame DEF fields, NoCall
  <2>4. Uncounted' = Uncounted
    BY <1>0, <1>1, <1>4, <1>5, <1>9, UncountedMore DEF NoCall, PagesType
  <2>. QED  BY <1>0, <1>3, <1>5, <2>1, <2>2, <2>3, <2>4, LossesKept DEF ghosts
<1>. QED  BY <1>6, <1>8, <1>10, <1>11, <1>12, <1>13 DEF IInv

\* The step in which a chained page has a free object.
LEMMA KmallocFromChainInv ==
  ASSUME IInv, ~IdleSwitched, NEW c \in Callers, NEW len \in Lens,
         KmallocFromChain(c, len)
  PROVE  IInv'
<1>0. /\ TypeInv /\ ListInv /\ PageInv /\ HandInv /\ FreeInv /\ CountInv /\ HeldInv
      /\ PagesType /\ ListsType /\ FieldsType /\ CallsType /\ ObjectsType /\ GhostsType
      /\ LossesBounded /\ calls["idle"] = NoCall
  BY IInvParts
<1>1. Call = NoCall
  BY <1>0, OneCall DEF KmallocFromChain
<1>  DEFINE b == BucketFor(len)
<1>2. PICK d \in Of(b) :
        /\ freeptr[d] # <<>>
        /\ freeptr' = [freeptr EXCEPT ![d] = Tail(freeptr[d])]
        /\ refcnt' = [refcnt EXCEPT ![d] = refcnt[d] + 1]
        /\ live' = live \cup {[page |-> page[d], nr |-> Head(freeptr[d]), len |-> len]}
  BY DEF KmallocFromChain, WithSpace, Of, Elems
<1>  DEFINE n == Head(freeptr[d])
            o == [page |-> page[d], nr |-> n, len |-> len]
<1>3. UNCHANGED <<pages, lists, page, carved, calls, ghosts>>
  BY DEF KmallocFromChain
<1>4. b \in Buckets /\ d \in Of(b) /\ freeptr[d] # <<>>
  BY <1>2, Bucket
<1>5. /\ freeptr' = [freeptr EXCEPT ![d] = Tail(freeptr[d])]
      /\ refcnt' = [refcnt EXCEPT ![d] = refcnt[d] + 1]
      /\ live' = live \cup {o}
  BY <1>2
<1>6. o.page = page[d] /\ o.nr = n /\ o.len = len
  OBVIOUS
<1>  HIDE DEF b, n, o
<1>7. ListInv' /\ Free' = Free /\ \A a \in Buckets : Of(a)' = Of(a)
  BY <1>0, <1>3, ListsKept
<1>8. Chained' = Chained /\ Chained \subseteq Desc /\ d \in Chained
  BY <1>0, <1>4, <1>7, ChainedKept, ChainedSound, ChainedIs
<1>9. Marked' = Marked
  BY <1>3 DEF Marked, pages
<1>10. freeptr[d] \in Seq(Nat) /\ refcnt[d] \in Int /\ page[d] \in Pages /\ Distinct(freeptr[d])
       /\ Elems(freeptr[d]) \subseteq 0 .. Capacity(b) - 1
  BY <1>0, <1>4, <1>8 DEF FieldsType, PageInv, Marked, FreeInv
<1>11. /\ Tail(freeptr[d]) \in Seq(Nat) /\ Distinct(Tail(freeptr[d]))
       /\ n \in Elems(freeptr[d]) /\ Elems(Tail(freeptr[d])) = Elems(freeptr[d]) \ {n}
  BY <1>4, <1>10, FreeTail DEF n
<1>12. /\ freeptr'[d] = Tail(freeptr[d]) /\ refcnt'[d] = refcnt[d] + 1
       /\ \A e \in Desc \ {d} : freeptr'[e] = freeptr[e] /\ refcnt'[e] = refcnt[e]
  BY <1>0, <1>5, <1>8 DEF FieldsType
<1>13. \A l \in live : l.page = page[d] => l.nr # n
  BY <1>0, <1>8, <1>11 DEF FreeInv
<1>14. \A e \in Chained \ {d} : page[e] # page[d]
  BY <1>0, <1>8 DEF PageInv
<1>15. n \in 0 .. Capacity(b) - 1 /\ o \in Objects
  <2>1. n \in 0 .. Capacity(b) - 1
    BY <1>10, <1>11
  <2>2. n \in 0 .. PAGE_SIZE - 1
    BY <1>4, <2>1, CapacityRange, SizesAssumption
  <2>. QED  BY <1>10, <2>1, <2>2 DEF Objects, o
<1>16. TypeInv'
  <2>1. FieldsType'
    BY <1>0, <1>3, <1>5, <1>8, <1>10, <1>11 DEF FieldsType
  <2>2. ObjectsType'
    BY <1>0, <1>5, <1>15, FS_AddElement DEF ObjectsType
  <2>3. CallsType'
    BY <1>0, <1>3 DEF CallsType
  <2>. QED  BY <1>0, <1>3, <2>1, <2>2, <2>3, TypesKept DEF TypeInv
<1>17. PageInv'
  BY <1>0, <1>3, <1>7, <1>8, <1>9 DEF PageInv, Listed
<1>18. HandInv'
  BY <1>0, <1>1, <1>3 DEF HandInv, DescInHand, PageInHand, Call, NoCall
<1>19. FreeInv'
  <2>1. ASSUME NEW a \in Buckets, NEW e \in Of(a)
        PROVE  Distinct(freeptr'[e]) /\ Elems(freeptr'[e]) \subseteq 0 .. Capacity(a) - 1
    <3>1. e \in Chained
      BY ChainedIs
    <3>2. Distinct(freeptr[e]) /\ Elems(freeptr[e]) \subseteq 0 .. Capacity(a) - 1
      BY <1>0 DEF FreeInv
    <3>. QED  BY <1>8, <1>11, <1>12, <3>1, <3>2
  <2>2. ASSUME NEW e \in Chained, NEW l \in live', l.page = page[e]
        PROVE  l.nr \notin Elems(freeptr'[e])
    <3>1. l \in live => l.nr \notin Elems(freeptr[e])
      BY <1>0, <2>2 DEF FreeInv
    <3>2. l # o => l \in live
      BY <1>5
    <3>. QED  BY <1>6, <1>8, <1>11, <1>12, <1>14, <2>2, <3>1, <3>2
  <2>. QED  BY <1>3, <1>7, <1>8, <2>1, <2>2 DEF FreeInv
<1>20. CountInv'
  <2>1. ASSUME NEW e \in Chained
        PROVE  refcnt'[e] = Cardinality(On(e)')
               /\ (refcnt'[e] > 0 \/ cut' > 0 \/ Call'.desc = e)
    <3>0. refcnt[e] = Cardinality(On(e)) /\ (refcnt[e] > 0 \/ cut > 0 \/ Call.desc = e)
      BY <1>0 DEF CountInv
    <3>1. CASE e = d
      <4>1. On(d)' = On(d) \cup {o} /\ o \notin On(d)
        <5>1. On(d)' = {l \in live' : l.page = page[d]}
          BY <1>3 DEF On
        <5>2. o \notin live
          BY <1>6, <1>13
        <5>. QED  BY <1>5, <1>6, <5>1, <5>2 DEF On
      <4>2. IsFiniteSet(On(d))
        BY <1>0, FS_Subset DEF ObjectsType, On
      <4>3. /\ Cardinality(On(d)) \in Nat
            /\ Cardinality(On(d)') = Cardinality(On(d)) + 1
        BY <4>1, <4>2, CardAdd
      <4>. QED  BY <1>12, <3>0, <3>1, <4>3
    <3>2. CASE e # d
      <4>1. On(e)' = On(e)
        BY <1>3, <1>5, <1>6, <1>14, <3>2 DEF On
      <4>. QED  BY <1>3, <1>8, <1>12, <3>0, <3>2, <4>1 DEF ghosts, Call
    <3>. QED  BY <3>1, <3>2
  <2>. QED  BY <1>8, <2>1 DEF CountInv
<1>21. HeldInv'
  <2>1. ASSUME NEW l \in live'
        PROVE  /\ l.nr < Capacity(BucketFor(l.len))
               /\ \E e \in Of(BucketFor(l.len))' : page'[e] = l.page
    <3>1. CASE l = o
      BY <1>3, <1>4, <1>6, <1>7, <1>15, <3>1, CapacityRange DEF b
    <3>2. CASE l # o
      <4>1. l \in live /\ BucketFor(l.len) \in Buckets
        BY <1>0, <1>5, <3>2, Bucket DEF ObjectsType, Objects
      <4>. QED  BY <1>0, <1>3, <1>7, <4>1 DEF HeldInv
    <3>. QED  BY <3>1, <3>2
  <2>2. ASSUME NEW l \in live', NEW k \in live', l.page = k.page, l.nr = k.nr
        PROVE  l = k
    BY <1>0, <1>5, <1>6, <1>13, <2>2 DEF HeldInv
  <2>. QED  BY <2>1, <2>2 DEF HeldInv
<1>22. LossesBounded'
  <2>0. Call' = Call /\ Listed' = Listed
    BY <1>3, <1>7, <1>8 DEF Call, Listed
  <2>1. \A p : LostPage(p)' => LostPage(p)
    BY <1>3, <1>8, <1>9, <2>0 DEF LostPage, PageInHand
  <2>2. \A e : LostDesc(e)' => LostDesc(e)
    BY <1>3, <2>0 DEF LostDesc
  <2>3. ASSUME NEW e \in Desc, NEW m \in 0 .. PAGE_SIZE - 1, LostObject(e, m)'
        PROVE  LostObject(e, m)
    <3>1. m \notin Elems(freeptr'[e]) /\ \A l \in live' : l.page = page[e] => l.nr # m
      BY <1>3, <2>3 DEF LostObject
    <3>2. m \notin Elems(freeptr[e])
      BY <1>5, <1>6, <1>11, <1>12, <3>1
    <3>. QED  BY <1>5, <1>7, <2>0, <2>3, <3>1, <3>2 DEF LostObject
  <2>4. Uncounted' = Uncounted
    BY <1>0, <1>3, <1>9, <2>0, UncountedKept DEF pages
  <2>. QED  BY <1>0, <1>3, <2>1, <2>2, <2>3, <2>4, LossesKept DEF ghosts
<1>. QED  BY <1>7, <1>16, <1>17, <1>18, <1>19, <1>20, <1>21, <1>22 DEF IInv

\* A null descriptor is taken.
LEMMA NullTakenInv ==
  ASSUME IInv, NullTaken
  PROVE  IInv'
BY IdleStep DEF NullTaken, ghosts

\* A descriptor and a page are taken.
LEMMA KmallocTakePageInv ==
  ASSUME IInv, ~IdleSwitched, NEW c \in Callers, NEW len \in Lens, KmallocTakePage(c, len)
  PROVE  IInv'
<1>0. /\ TypeInv /\ ListInv /\ PageInv /\ HandInv /\ FreeInv /\ CountInv /\ HeldInv
      /\ PagesType /\ ListsType /\ FieldsType /\ CallsType /\ ObjectsType /\ GhostsType
      /\ LossesBounded /\ calls["idle"] = NoCall
  BY IInvParts
<1>1. c = "task" /\ Call = NoCall
  BY <1>0, OneCall DEF KmallocTakePage, NeedsPage
<1>2. PICK p \in Pages :
        /\ get_free_page(p)
        /\ calls' = [calls EXCEPT ![c] = [NoCall EXCEPT !.at = "link", !.len = len,
                                                      !.desc = free_bucket_desc,
                                                      !.page = p]]
  BY DEF KmallocTakePage
<1>3. PICK d : d = free_bucket_desc
  OBVIOUS
<1>4. /\ UNCHANGED <<chain, next, page, freeptr, carved, live, ghosts>>
      /\ d # NoDesc /\ free_bucket_desc' = next[d] /\ refcnt' = [refcnt EXCEPT ![d] = 0]
  BY <1>3 DEF KmallocTakePage
<1>5. map[p] = 0 /\ map' = [map EXCEPT ![p] = 1] /\ bitmap_item_used' = bitmap_item_used + 1
  BY <1>2 DEF get_free_page, FirstFree, Candidates
<1>6. /\ ListInv' /\ Free' = Free \ {d} /\ d \in Desc /\ d \in Free
      /\ \A b \in Buckets : Of(b)' = Of(b)
  BY <1>0, <1>3, <1>4, DescTaken
<1>7. Chained' = Chained /\ Chained \subseteq Desc /\ d \notin Chained
  BY <1>0, <1>6, ChainedKept, ChainedSound
<1>8. /\ calls' \in [Callers -> CallType] /\ calls'["idle"] = NoCall
      /\ Call'.at = "link" /\ Call'.len = len /\ Call'.desc = d /\ Call'.page = p
  <2>  DEFINE k == [NoCall EXCEPT !.at = "link", !.len = len, !.desc = d, !.page = p]
  <2>1. k \in CallType
    BY <1>6, NoCallType DEF CallType, Places
  <2>2. calls' = [calls EXCEPT !["task"] = k]
    BY <1>1, <1>2, <1>3
  <2>3. k.at = "link" /\ k.len = len /\ k.desc = d /\ k.page = p
    BY NoCallType DEF CallType, NoCall
  <2>  HIDE DEF k
  <2>. QED  BY <1>0, <2>1, <2>2, <2>3, CallSteps
<1>9. Marked' = Marked \cup {p} /\ p \notin Marked
  BY <1>0, <1>5 DEF Marked, PagesType
<1>10. TypeInv'
  <2>1. PagesType' /\ ListsType' /\ FieldsType' /\ CallsType'
    BY <1>0, <1>4, <1>5, <1>6, <1>8 DEF PagesType, ListsType, FieldsType, CallsType
  <2>. QED  BY <1>0, <1>4, <2>1, TypesKept DEF TypeInv
<1>11. /\ refcnt'[d] = 0
       /\ \A e \in Chained : refcnt'[e] = refcnt[e]
  BY <1>0, <1>4, <1>6, <1>7 DEF FieldsType
<1>12. PageInv'
  BY <1>0, <1>4, <1>6, <1>7, <1>9 DEF PageInv, Listed
<1>13. HandInv'
  BY <1>0, <1>4, <1>6, <1>7, <1>8, <1>9, <1>11
  DEF HandInv, DescInHand, PageInHand, PageInv, Listed
<1>14. FreeInv' /\ CountInv' /\ HeldInv'
  <2>1. Call.desc \notin Chained
    BY <1>1, <1>7, DescFinite DEF NoCall
  <2>. QED  BY <1>0, <1>4, <1>6, <1>11, <2>1, ObjectsFrame
               DEF ghosts, ObjectsType, GhostsType
<1>15. LossesBounded'
  <2>1. \A q : LostPage(q)' => LostPage(q)
    BY <1>1, <1>4, <1>7, <1>8, <1>9 DEF LostPage, PageInHand, NoCall
  <2>2. \A e \in Desc : LostDesc(e)' => LostDesc(e)
    BY <1>1, <1>4, <1>6, <1>7, <1>8, DescFinite DEF LostDesc, Listed, NoCall
  <2>3. \A e \in Desc : \A n \in 0 .. PAGE_SIZE - 1 :
          LostObject(e, n)' => LostObject(e, n)
    BY <1>1, <1>4, <1>6, LostObjectsFrame DEF NoCall
  <2>4. Uncounted' = Uncounted
    BY <1>0, <1>1, <1>5, <1>8, <1>9, UncountedMore DEF NoCall, PagesType
  <2>. QED  BY <1>0, <1>4, <1>8, <2>1, <2>2, <2>3, <2>4, LossesKept DEF ghosts
<1>. QED  BY <1>6, <1>10, <1>12, <1>13, <1>14, <1>15 DEF IInv

\* A call gives up for want of a page, without the descriptor that it has taken.
LEMMA NoPageForInv ==
  ASSUME IInv, NEW d \in Desc \ (Chained \cup Free'), NoPageFor(d), ListInv',
         \A b \in Buckets : Of(b)' = Of(b), Free' \subseteq Free, Free \subseteq Free' \cup {d},
         CallsType', calls'["idle"] = NoCall, Call' = NoCall, ListsType',
         Call.at \in {"none", "search"}, Call.desc \in {NoDesc, d}
  PROVE  IInv'
<1>0. /\ TypeInv /\ ListInv /\ PageInv /\ HandInv /\ FreeInv /\ CountInv /\ HeldInv
      /\ PagesType /\ ListsType /\ FieldsType /\ CallsType /\ ObjectsType /\ GhostsType
      /\ LossesBounded /\ calls["idle"] = NoCall
  BY IInvParts
<1>1. /\ page' = [page EXCEPT ![d] = NoPage] /\ freeptr' = [freeptr EXCEPT ![d] = <<>>]
      /\ refcnt' = [refcnt EXCEPT ![d] = 0] /\ failed' = failed + 1
      /\ UNCHANGED <<pages, carved, live, cut, fault>>
  BY DEF NoPageFor
<1>2. Chained' = Chained /\ Chained \subseteq Desc
  BY <1>0, ChainedKept, ChainedSound
<1>3. \A e \in Chained : /\ page'[e] = page[e] /\ freeptr'[e] = freeptr[e]
                         /\ refcnt'[e] = refcnt[e]
  BY <1>0, <1>1, <1>2 DEF FieldsType
<1>4. Marked' = Marked
  BY <1>1 DEF Marked, pages
<1>5. TypeInv'
  <2>1. FieldsType'
    <3>1. <<>> \in Seq(Nat)
      OBVIOUS
    <3>. QED  BY <1>0, <1>1, <3>1 DEF FieldsType
  <2>2. GhostsType'
    BY <1>0, <1>1 DEF GhostsType
  <2>. QED  BY <1>0, <1>1, <2>1, <2>2, TypesKept DEF TypeInv
<1>6. PageInv'
  BY <1>0, <1>1, <1>2, <1>3, <1>4 DEF PageInv, Listed
<1>7. HandInv'
  BY DEF HandInv, DescInHand, PageInHand, NoCall
<1>8. FreeInv' /\ CountInv' /\ HeldInv'
  <2>1. Call.desc \notin Chained
    BY <1>2, DescFinite
  <2>. QED  BY <1>0, <1>1, <1>3, <2>1, ObjectsFrame DEF ObjectsType, GhostsType
<1>9. LossesBounded'
  <2>1. \A q : LostPage(q)' => LostPage(q)
    BY <1>1, <1>2, <1>3, <1>4 DEF LostPage, PageInHand
  <2>2. \A e \in Desc : LostDesc(e)' => LostDesc(e) \/ e = d
    BY <1>1, <1>2, DescFinite DEF LostDesc, Listed
  <2>3. \A e \in Desc : \A n \in 0 .. PAGE_SIZE - 1 :
          LostObject(e, n)' => LostObject(e, n)
    BY <1>1, <1>3, LostObjectsFrame
  <2>4. Uncounted' = Uncounted
    BY <1>0, <1>1, <1>4, UncountedKept DEF NoCall, pages
  <2>5. /\ LostPages' \subseteq LostPages /\ LostDescs' \subseteq LostDescs \cup {d}
        /\ LostObjects' \subseteq LostObjects
    BY <1>0, <2>1, <2>2, <2>3, LostPagesAre, LostDescsAre, LostObjectsAre
  <2>6. /\ Cardinality(LostPages') <= Cardinality(LostPages)
        /\ Cardinality(LostObjects') <= Cardinality(LostObjects)
        /\ Cardinality(LostDescs') <= Cardinality(LostDescs) + 1
    BY <2>5, LostFinite, FS_Subset, CardGrows
  <2>7. /\ Cardinality(LostPages) \in Nat /\ Cardinality(LostDescs) \in Nat
        /\ Cardinality(LostObjects) \in Nat /\ Cardinality(LostPages') \in Nat
        /\ Cardinality(LostDescs') \in Nat /\ Cardinality(LostObjects') \in Nat
    BY <2>5, LostFinite, FS_CardinalityType, FS_Subset, CardGrows
  <2>. QED  BY <1>0, <1>1, <2>4, <2>6, <2>7 DEF LossesBounded, GhostsType
<1>. QED  BY <1>5, <1>6, <1>7, <1>8, <1>9 DEF IInv

\* A descriptor is taken and no page is free.
LEMMA KmallocTakePageFailsInv ==
  ASSUME IInv, ~IdleSwitched, NEW c \in Callers, NEW len \in Lens,
         KmallocTakePageFails(c, len)
  PROVE  IInv'
<1>0. /\ TypeInv /\ ListInv /\ PageInv /\ HandInv /\ FreeInv /\ CountInv /\ HeldInv
      /\ PagesType /\ ListsType /\ FieldsType /\ CallsType /\ ObjectsType /\ GhostsType
      /\ LossesBounded /\ calls["idle"] = NoCall
  BY IInvParts
<1>1. Call = NoCall
  BY <1>0, OneCall DEF KmallocTakePageFails, NeedsPage
<1>2. PICK d : d = free_bucket_desc
  OBVIOUS
<1>3. /\ NoPageFor(d) /\ UNCHANGED <<calls, chain, next>>
      /\ d # NoDesc /\ free_bucket_desc' = next[d]
  BY <1>2 DEF KmallocTakePageFails, NoPageFor
<1>4. /\ ListInv' /\ Free' = Free \ {d} /\ d \in Desc /\ d \in Free
      /\ \A b \in Buckets : Of(b)' = Of(b)
  BY <1>0, <1>2, <1>3, DescTaken
<1>5. d \notin Chained /\ Call.desc \notin Chained
  BY <1>0, <1>1, <1>4, ChainedSound, DescFinite DEF NoCall
<1>6. Call' = NoCall /\ CallsType' /\ calls'["idle"] = NoCall
  BY <1>0, <1>1, <1>3 DEF Call, CallsType, HandInv
<1>7. ListsType'
  BY <1>0, <1>3, <1>4 DEF ListsType
<1>. QED  BY <1>1, <1>3, <1>4, <1>5, <1>6, <1>7, NoPageForInv DEF NoCall

\* A page is cut into descriptors.
LEMMA KmallocCarveInv ==
  ASSUME IInv, ~IdleSwitched, NEW c \in Callers, KmallocCarve(c)
  PROVE  IInv'
<1>0. /\ TypeInv /\ ListInv /\ PageInv /\ HandInv /\ FreeInv /\ CountInv /\ HeldInv
      /\ PagesType /\ ListsType /\ FieldsType /\ CallsType /\ ObjectsType /\ GhostsType
      /\ LossesBounded /\ calls["idle"] = NoCall
  BY IInvParts
<1>1. c = "task" /\ Call.at = "carve"
  BY <1>0, OneCall DEF KmallocCarve, Places
<1>2. PICK p : p = Call.page
  OBVIOUS
<1>3. /\ next' = [d \in Desc |-> IF d[1] # p THEN next[d]
                                   ELSE IF d[2] < DescPerPage THEN <<p, d[2] + 1>>
                                   ELSE free_bucket_desc]
      /\ free_bucket_desc' = <<p, 1>>
      /\ carved' = carved \cup {p}
      /\ UNCHANGED <<pages, chain, fields, live, ghosts>>
      /\ Goes("task", "take")
  BY <1>1, <1>2 DEF KmallocCarve, Call
<1>4. p \in Marked \ carved /\ \A d \in Chained : page[d] # p
  BY <1>0, <1>1, <1>2 DEF HandInv, PageInHand
<1>5. /\ calls' \in [Callers -> CallType] /\ calls'["idle"] = NoCall
      /\ Call'.at = "take" /\ Call'.len = Call.len /\ Call'.desc = Call.desc
  BY <1>0, <1>3, CallGoes DEF Places
<1>6. /\ ListInv' /\ Free' = Free \cup {d \in Desc : d[1] = p}
      /\ \A b \in Buckets : Of(b)' = Of(b)
  <2>1. p \in Pages /\ \A d \in Listed : d[1] # p
    BY <1>0, <1>4 DEF PageInv, Marked
  <2>. QED  BY <1>0, <1>3, <2>1, DescsCarved
<1>7. Chained' = Chained
  BY <1>6, ChainedKept
<1>8. Marked' = Marked
  BY <1>3 DEF Marked, pages
<1>9. TypeInv'
  <2>1. PagesType'
    BY <1>0, <1>3, <1>4 DEF PagesType, pages, Marked
  <2>2. ListsType'
    <3>1. \A n \in 1 .. DescPerPage : <<p, n>> \in Desc
      BY <1>4 DEF Desc, Marked
    <3>2. \A d \in Desc : d[2] \in 1 .. DescPerPage
      BY DEF Desc
    <3>3. 1 \in 1 .. DescPerPage /\ \A n \in 1 .. DescPerPage : n < DescPerPage => n + 1 \in 1 .. DescPerPage
      BY SizesAssumption
    <3>. QED  BY <1>0, <1>3, <3>1, <3>2, <3>3 DEF ListsType
  <2>. QED  BY <1>0, <1>3, <1>5, <2>1, <2>2, TypesKept DEF TypeInv, CallsType
<1>10. PageInv'
  BY <1>0, <1>3, <1>4, <1>6, <1>7, <1>8 DEF PageInv, Listed, fields
<1>11. HandInv'
  BY <1>0, <1>1, <1>5 DEF HandInv, DescInHand, PageInHand
<1>12. FreeInv' /\ CountInv' /\ HeldInv'
  BY <1>0, <1>3, <1>5, <1>6, ObjectsFrame DEF fields, ghosts, ObjectsType, GhostsType
<1>13. LossesBounded'
  <2>1. \A q : LostPage(q)' => LostPage(q)
    BY <1>2, <1>3, <1>7, <1>8 DEF LostPage, PageInHand, fields
  <2>2. \A d \in Desc : LostDesc(d)' => LostDesc(d)
    BY <1>3, <1>5, <1>6, <1>7 DEF LostDesc, Listed
  <2>3. \A d \in Desc : \A n \in 0 .. PAGE_SIZE - 1 :
          LostObject(d, n)' => LostObject(d, n)
    BY <1>1, <1>3, <1>6, LostObjectsFrame DEF fields
  <2>4. Uncounted' = Uncounted
    BY <1>0, <1>1, <1>3, <1>5, <1>8, UncountedKept DEF pages
  <2>. QED  BY <1>0, <1>3, <1>5, <2>1, <2>2, <2>3, <2>4, LossesKept DEF ghosts
<1>. QED  BY <1>6, <1>9, <1>10, <1>11, <1>12, <1>13 DEF IInv

\* One of them is taken.
LEMMA KmallocTakeInv ==
  ASSUME IInv, ~IdleSwitched, NEW c \in Callers, KmallocTake(c)
  PROVE  IInv'
<1>0. /\ TypeInv /\ ListInv /\ PageInv /\ HandInv /\ FreeInv /\ CountInv /\ HeldInv
      /\ PagesType /\ ListsType /\ FieldsType /\ CallsType /\ ObjectsType /\ GhostsType
      /\ LossesBounded /\ calls["idle"] = NoCall
  BY IInvParts
<1>1. c = "task" /\ Call.at = "take"
  BY <1>0, OneCall DEF KmallocTake, Places
<1>2. PICK d : d = free_bucket_desc
  OBVIOUS
<1>3. CASE d = NoDesc
  BY <1>2, <1>3, NullTakenInv DEF KmallocTake
<1>4. CASE d # NoDesc
  <2>1. /\ calls' = [calls EXCEPT !["task"] = [Call EXCEPT !.at = "search", !.desc = d]]
        /\ free_bucket_desc' = next[d]
        /\ refcnt' = [refcnt EXCEPT ![d] = 0]
        /\ UNCHANGED <<pages, chain, next, page, freeptr, carved, live, ghosts>>
    BY <1>1, <1>2, <1>4 DEF KmallocTake, Call
  <2>2. /\ ListInv' /\ Free' = Free \ {d} /\ d \in Desc /\ d \in Free
        /\ \A b \in Buckets : Of(b)' = Of(b)
    BY <1>0, <1>2, <1>4, <2>1, DescTaken
  <2>3. Chained' = Chained /\ Chained \subseteq Desc /\ d \notin Chained
    BY <1>0, <2>2, ChainedKept, ChainedSound
  <2>4. /\ calls' \in [Callers -> CallType] /\ calls'["idle"] = NoCall
        /\ Call'.at = "search" /\ Call'.len = Call.len /\ Call'.desc = d
    <3>  DEFINE k == [Call EXCEPT !.at = "search", !.desc = d]
    <3>0. Call \in CallType
      BY <1>0 DEF CallsType, Callers, Call
    <3>1. k \in CallType /\ k.at = "search" /\ k.len = Call.len /\ k.desc = d
      BY <2>2, <3>0 DEF CallType, Places
    <3>  HIDE DEF k
    <3>2. calls' = [calls EXCEPT !["task"] = k]
      BY <2>1 DEF k
    <3>. QED  BY <1>0, <3>1, <3>2, CallSteps
  <2>5. Marked' = Marked
    BY <2>1 DEF Marked, pages
  <2>6. TypeInv'
    <3>1. ListsType' /\ FieldsType' /\ CallsType'
      BY <1>0, <2>1, <2>2, <2>4 DEF ListsType, FieldsType, CallsType
    <3>. QED  BY <1>0, <2>1, <3>1, TypesKept DEF TypeInv
  <2>7. /\ refcnt'[d] = 0
        /\ \A e \in Chained : refcnt'[e] = refcnt[e]
    BY <1>0, <2>1, <2>2, <2>3 DEF FieldsType
  <2>8. PageInv'
    BY <1>0, <2>1, <2>2, <2>3, <2>5 DEF PageInv, Listed
  <2>9. HandInv'
    BY <1>0, <1>1, <2>1, <2>2, <2>3, <2>4, <2>5, <2>7
    DEF HandInv, DescInHand, PageInHand, PageInv, Listed
  <2>10. FreeInv' /\ CountInv' /\ HeldInv'
    <3>1. Call.desc \notin Chained
      BY <1>0, <1>1, <2>3, DescFinite DEF HandInv
    <3>. QED  BY <1>0, <2>1, <2>2, <2>7, <3>1, ObjectsFrame
                 DEF ghosts, ObjectsType, GhostsType
  <2>11. LossesBounded'
    <3>1. \A q : LostPage(q)' => LostPage(q)
      BY <1>1, <2>1, <2>3, <2>5 DEF LostPage, PageInHand
    <3>2. \A e \in Desc : LostDesc(e)' => LostDesc(e)
      BY <1>0, <1>1, <2>1, <2>2, <2>3, <2>4, DescFinite DEF LostDesc, Listed, HandInv
    <3>3. \A e \in Desc : \A n \in 0 .. PAGE_SIZE - 1 :
            LostObject(e, n)' => LostObject(e, n)
      BY <1>1, <2>1, <2>2, LostObjectsFrame
    <3>4. Uncounted' = Uncounted
      BY <1>0, <1>1, <2>1, <2>4, <2>5, UncountedKept DEF pages
    <3>. QED  BY <1>0, <2>1, <2>4, <3>1, <3>2, <3>3, <3>4, LossesKept DEF ghosts
  <2>. QED  BY <2>2, <2>6, <2>8, <2>9, <2>10, <2>11 DEF IInv
<1>. QED  BY <1>3, <1>4

\* A page for it is marked.
LEMMA KmallocSearchInv ==
  ASSUME IInv, ~IdleSwitched, NEW c \in Callers, KmallocSearch(c)
  PROVE  IInv'
<1>0. /\ TypeInv /\ ListInv /\ PageInv /\ HandInv /\ FreeInv /\ CountInv /\ HeldInv
      /\ PagesType /\ ListsType /\ FieldsType /\ CallsType /\ ObjectsType /\ GhostsType
      /\ LossesBounded /\ calls["idle"] = NoCall
  BY IInvParts
<1>1. c = "task" /\ Call.at = "search"
  BY <1>0, OneCall DEF KmallocSearch, Places
<1>2. PICK p \in Pages :
        /\ FirstFree(p) /\ map' = [map EXCEPT ![p] = 1]
        /\ calls' = [calls EXCEPT ![c] = [@ EXCEPT !.at = "count", !.page = p]]
  BY DEF KmallocSearch
<1>3. UNCHANGED <<bitmap_item_used, lists, fields, carved, live, ghosts>>
  BY DEF KmallocSearch
<1>4. /\ calls' \in [Callers -> CallType] /\ calls'["idle"] = NoCall
      /\ Call'.at = "count" /\ Call'.len = Call.len /\ Call'.desc = Call.desc
      /\ Call'.page = p
  <2>  DEFINE k == [Call EXCEPT !.at = "count", !.page = p]
  <2>0. Call \in CallType
    BY <1>0 DEF CallsType, Callers, Call
  <2>1. k \in CallType /\ k.at = "count" /\ k.len = Call.len /\ k.desc = Call.desc /\ k.page = p
    BY <2>0 DEF CallType, Places
  <2>  HIDE DEF k
  <2>2. calls' = [calls EXCEPT !["task"] = k]
    BY <1>1, <1>2 DEF k, Call
  <2>. QED  BY <1>0, <2>1, <2>2, CallSteps
<1>5. ListInv' /\ Free' = Free /\ \A b \in Buckets : Of(b)' = Of(b)
  BY <1>0, <1>3, ListsKept
<1>6. Chained' = Chained
  BY <1>5, ChainedKept
<1>7. Marked' = Marked \cup {p} /\ p \notin Marked
  BY <1>0, <1>2 DEF Marked, PagesType, FirstFree, Candidates
<1>8. TypeInv'
  <2>1. PagesType' /\ CallsType'
    BY <1>0, <1>2, <1>3, <1>4 DEF PagesType, CallsType
  <2>. QED  BY <1>0, <1>3, <2>1, TypesKept DEF TypeInv
<1>9. PageInv'
  BY <1>0, <1>3, <1>5, <1>6, <1>7 DEF PageInv, Listed, fields
<1>10. HandInv'
  BY <1>0, <1>1, <1>3, <1>4, <1>5, <1>6, <1>7
  DEF HandInv, DescInHand, PageInHand, PageInv, Listed, fields
<1>11. FreeInv' /\ CountInv' /\ HeldInv'
  BY <1>0, <1>3, <1>4, <1>5, ObjectsFrame DEF fields, ghosts, ObjectsType, GhostsType
<1>12. LossesBounded'
  <2>1. \A q : LostPage(q)' => LostPage(q)
    BY <1>1, <1>3, <1>4, <1>6, <1>7 DEF LostPage, PageInHand, fields
  <2>2. \A d \in Desc : LostDesc(d)' => LostDesc(d)
    BY <1>3, <1>4, <1>5, <1>6 DEF LostDesc, Listed
  <2>3. \A d \in Desc : \A n \in 0 .. PAGE_SIZE - 1 :
          LostObject(d, n)' => LostObject(d, n)
    BY <1>1, <1>3, <1>5, LostObjectsFrame DEF fields
  <2>4. Uncounted' = Uncounted
    BY <1>0, <1>1, <1>3, <1>4, <1>7, UncountedMore DEF PagesType
  <2>. QED  BY <1>0, <1>3, <1>4, <2>1, <2>2, <2>3, <2>4, LossesKept DEF ghosts
<1>. QED  BY <1>5, <1>8, <1>9, <1>10, <1>11, <1>12 DEF IInv

\* No page for it is free.
LEMMA KmallocSearchFailsInv ==
  ASSUME IInv, ~IdleSwitched, NEW c \in Callers, KmallocSearchFails(c)
  PROVE  IInv'
<1>0. /\ TypeInv /\ ListInv /\ PageInv /\ HandInv /\ FreeInv /\ CountInv /\ HeldInv
      /\ PagesType /\ ListsType /\ FieldsType /\ CallsType /\ ObjectsType /\ GhostsType
      /\ LossesBounded /\ calls["idle"] = NoCall
  BY IInvParts
<1>1. c = "task" /\ Call.at = "search"
  BY <1>0, OneCall DEF KmallocSearchFails, Places
<1>2. PICK d : d = Call.desc
  OBVIOUS
<1>3. /\ NoPageFor(d) /\ calls' = [calls EXCEPT !["task"] = NoCall]
      /\ UNCHANGED lists
  BY <1>1, <1>2 DEF KmallocSearchFails, NoPageFor, Call, lists
<1>4. d \in Desc /\ d \notin Chained /\ d \notin Free
  BY <1>0, <1>1, <1>2 DEF HandInv, DescInHand, Listed
<1>5. CallsType' /\ Call' = NoCall /\ calls'["idle"] = NoCall
  BY <1>0, <1>3, CallSteps, NoCallType DEF CallsType
<1>6. ListInv' /\ Free' = Free /\ \A b \in Buckets : Of(b)' = Of(b)
  BY <1>0, <1>3, ListsKept
<1>7. ListsType'
  BY <1>0, <1>3, TypesKept
<1>. QED  BY <1>1, <1>2, <1>3, <1>4, <1>5, <1>6, <1>7, NoPageForInv

\* The page is counted.
LEMMA KmallocCountInv ==
  ASSUME IInv, ~IdleSwitched, NEW c \in Callers, KmallocCount(c)
  PROVE  IInv'
<1>0. /\ TypeInv /\ ListInv /\ PageInv /\ HandInv /\ FreeInv /\ CountInv /\ HeldInv
      /\ PagesType /\ ListsType /\ FieldsType /\ CallsType /\ ObjectsType /\ GhostsType
      /\ LossesBounded /\ calls["idle"] = NoCall
  BY IInvParts
<1>1. c = "task" /\ Call.at = "count"
  BY <1>0, OneCall DEF KmallocCount, Places
<1>2. /\ Goes("task", "link") /\ bitmap_item_used' = bitmap_item_used + 1
      /\ UNCHANGED <<map, lists, fields, carved, live, ghosts>>
  BY <1>1 DEF KmallocCount
<1>3. /\ calls' \in [Callers -> CallType] /\ calls'["idle"] = NoCall
      /\ Call'.at = "link" /\ Call'.len = Call.len /\ Call'.desc = Call.desc
      /\ Call'.page = Call.page
  BY <1>0, <1>2, CallGoes DEF Places
<1>4. ListInv' /\ Free' = Free /\ \A b \in Buckets : Of(b)' = Of(b)
  BY <1>0, <1>2, ListsKept
<1>5. Chained' = Chained
  BY <1>4, ChainedKept
<1>6. Marked' = Marked
  BY <1>2 DEF Marked
<1>7. TypeInv'
  <2>1. PagesType' /\ CallsType'
    BY <1>0, <1>2, <1>3 DEF PagesType, CallsType
  <2>. QED  BY <1>0, <1>2, <2>1, TypesKept DEF TypeInv
<1>8. PageInv'
  BY <1>0, <1>2, <1>4, <1>5, <1>6 DEF PageInv, Listed, fields
<1>9. HandInv'
  BY <1>0, <1>1, <1>2, <1>3, <1>4, <1>5, <1>6
  DEF HandInv, DescInHand, PageInHand, Listed, fields
<1>10. FreeInv' /\ CountInv' /\ HeldInv'
  BY <1>0, <1>2, <1>3, <1>4, ObjectsFrame DEF fields, ghosts, ObjectsType, GhostsType
<1>11. LossesBounded'
  <2>1. \A q : LostPage(q)' => LostPage(q)
    BY <1>1, <1>2, <1>3, <1>5, <1>6 DEF LostPage, PageInHand, fields
  <2>2. \A d \in Desc : LostDesc(d)' => LostDesc(d)
    BY <1>2, <1>3, <1>4, <1>5 DEF LostDesc, Listed
  <2>3. \A d \in Desc : \A n \in 0 .. PAGE_SIZE - 1 :
          LostObject(d, n)' => LostObject(d, n)
    BY <1>1, <1>2, <1>4, LostObjectsFrame DEF fields
  <2>4. Uncounted' = Uncounted
    <3>1. Counting = 1 /\ Counting' = 0
      BY <1>0, <1>1, <1>3, CountingIs
    <3>2. Cardinality(Marked) \in Nat /\ bitmap_item_used \in Int
      BY <1>0, LostFinite, FS_CardinalityType DEF PagesType
    <3>. QED  BY <1>2, <1>6, <3>1, <3>2 DEF Uncounted
  <2>. QED  BY <1>0, <1>2, <1>3, <2>1, <2>2, <2>3, <2>4, LossesKept DEF ghosts
<1>. QED  BY <1>4, <1>7, <1>8, <1>9, <1>10, <1>11 DEF IInv

\* The descriptor gets the page and continues with the chain.
LEMMA KmallocLinkInv ==
  ASSUME IInv, ~IdleSwitched, NEW c \in Callers, KmallocLink(c)
  PROVE  IInv'
<1>0. /\ TypeInv /\ ListInv /\ PageInv /\ HandInv /\ FreeInv /\ CountInv /\ HeldInv
      /\ PagesType /\ ListsType /\ FieldsType /\ CallsType /\ ObjectsType /\ GhostsType
      /\ LossesBounded /\ calls["idle"] = NoCall
  BY IInvParts
<1>1. c = "task" /\ Call.at = "link"
  BY <1>0, OneCall DEF KmallocLink, Places
<1>2. PICK d, p, b : d = Call.desc /\ p = Call.page /\ b = BucketFor(Call.len)
  OBVIOUS
<1>3. /\ Goes("task", "chain") /\ page' = [page EXCEPT ![d] = p]
      /\ freeptr' = [freeptr EXCEPT ![d] = FreeObjects(b)]
      /\ next' = [next EXCEPT ![d] = chain[b]]
      /\ UNCHANGED <<pages, free_bucket_desc, chain, refcnt, carved, live, ghosts>>
  BY <1>1, <1>2 DEF KmallocLink, Call
<1>4. /\ d \in Desc \ Listed /\ d \notin Chained /\ d[1] \in carved
      /\ p \in Marked \ carved /\ \A e \in Chained : page[e] # p
      /\ Call.len \in Lens /\ b \in Buckets /\ refcnt[d] = 0
  BY <1>0, <1>1, <1>2, Bucket DEF HandInv, DescInHand, PageInHand, Listed
<1>5. /\ calls' \in [Callers -> CallType] /\ calls'["idle"] = NoCall
      /\ Call'.at = "chain" /\ Call'.len = Call.len /\ Call'.desc = d /\ Call'.page = p
  BY <1>0, <1>2, <1>3, CallGoes DEF Places
<1>6. ListInv' /\ Free' = Free /\ \A a \in Buckets : Of(a)' = Of(a)
  <2>1. \A e \in Desc \ {d} : next'[e] = next[e]
    BY <1>0, <1>3 DEF ListsType
  <2>. QED  BY <1>0, <1>3, <1>4, <2>1, DescLinked
<1>7. Chained' = Chained /\ Chained \subseteq Desc
  BY <1>0, <1>6, ChainedKept, ChainedSound
<1>8. Marked' = Marked
  BY <1>3 DEF Marked, pages
<1>9. TypeInv'
  <2>1. FreeObjects(b) \in Seq(Nat) /\ p \in Pages
    BY <1>4, FreeObjectsSound DEF Marked
  <2>2. ListsType' /\ FieldsType' /\ CallsType'
    BY <1>0, <1>3, <1>4, <1>5, <2>1 DEF ListsType, FieldsType, CallsType
  <2>. QED  BY <1>0, <1>3, <2>2, TypesKept DEF TypeInv
<1>10. /\ page'[d] = p /\ freeptr'[d] = FreeObjects(b) /\ next'[d] = chain[b]
       /\ \A e \in Chained : page'[e] = page[e] /\ freeptr'[e] = freeptr[e]
  BY <1>0, <1>3, <1>4, <1>7 DEF FieldsType, ListsType
<1>11. PageInv'
  BY <1>0, <1>3, <1>6, <1>7, <1>8, <1>10 DEF PageInv, Listed
<1>12. HandInv'
  BY <1>2, <1>3, <1>4, <1>5, <1>6, <1>7, <1>8, <1>10
  DEF HandInv, DescInHand, PageInHand, Listed
<1>13. FreeInv' /\ CountInv' /\ HeldInv'
  BY <1>0, <1>2, <1>3, <1>5, <1>6, <1>10, ObjectsFrame
     DEF ghosts, ObjectsType, GhostsType
<1>14. LossesBounded'
  <2>1. \A q : LostPage(q)' => LostPage(q)
    BY <1>1, <1>2, <1>3, <1>5, <1>7, <1>8, <1>10 DEF LostPage, PageInHand
  <2>2. \A e \in Desc : LostDesc(e)' => LostDesc(e)
    BY <1>2, <1>3, <1>5, <1>6, <1>7 DEF LostDesc, Listed
  <2>3. \A e \in Desc : \A n \in 0 .. PAGE_SIZE - 1 :
          LostObject(e, n)' => LostObject(e, n)
    BY <1>1, <1>3, <1>6, <1>10, LostObjectsFrame
  <2>4. Uncounted' = Uncounted
    BY <1>0, <1>1, <1>3, <1>5, <1>8, UncountedKept DEF pages
  <2>. QED  BY <1>0, <1>3, <1>5, <2>1, <2>2, <2>3, <2>4, LossesKept DEF ghosts
<1>. QED  BY <1>6, <1>9, <1>11, <1>12, <1>13, <1>14 DEF IInv

\* The descriptor becomes the first of its chain.
LEMMA KmallocChainInv ==
  ASSUME IInv, ~IdleSwitched, NEW c \in Callers, KmallocChain(c)
  PROVE  IInv'
<1>0. /\ TypeInv /\ ListInv /\ PageInv /\ HandInv /\ FreeInv /\ CountInv /\ HeldInv
      /\ PagesType /\ ListsType /\ FieldsType /\ CallsType /\ ObjectsType /\ GhostsType
      /\ LossesBounded /\ calls["idle"] = NoCall
  BY IInvParts
<1>1. c = "task" /\ Call.at = "chain"
  BY <1>0, OneCall DEF KmallocChain, Places
<1>2. PICK d, p, b : d = Call.desc /\ p = Call.page /\ b = BucketFor(Call.len)
  OBVIOUS
<1>3. /\ Goes("task", "pop") /\ chain' = [chain EXCEPT ![b] = d]
      /\ UNCHANGED <<pages, free_bucket_desc, next, fields, carved, live, ghosts>>
  BY <1>1, <1>2 DEF KmallocChain, Call
<1>4. /\ d \in Desc \ Listed /\ d \notin Chained /\ d[1] \in carved
      /\ p \in Marked \ carved /\ \A e \in Chained : page[e] # p
      /\ Call.len \in Lens /\ b \in Buckets /\ refcnt[d] = 0
      /\ page[d] = p /\ freeptr[d] = FreeObjects(b) /\ next[d] = chain[b]
  BY <1>0, <1>1, <1>2, Bucket DEF HandInv, DescInHand, PageInHand, Listed
<1>5. /\ calls' \in [Callers -> CallType] /\ calls'["idle"] = NoCall
      /\ Call'.at = "pop" /\ Call'.len = Call.len /\ Call'.desc = d
  BY <1>0, <1>2, <1>3, CallGoes DEF Places
<1>6. /\ ListInv' /\ Free' = Free /\ Of(b)' = Of(b) \cup {d}
      /\ \A a \in Buckets \ {b} : Of(a)' = Of(a)
  BY <1>0, <1>3, <1>4, DescChained DEF ListsType
<1>7. Chained' = Chained \cup {d}
  BY <1>4, <1>6, ChainedIs
<1>8. Marked' = Marked
  BY <1>3 DEF Marked, pages
<1>9. TypeInv'
  <2>1. ListsType' /\ CallsType'
    BY <1>0, <1>3, <1>4, <1>5 DEF ListsType, CallsType
  <2>. QED  BY <1>0, <1>3, <2>1, TypesKept DEF TypeInv
<1>10. PageInv'
  BY <1>0, <1>3, <1>4, <1>6, <1>7, <1>8 DEF PageInv, Listed, fields
<1>11. HandInv'
  BY <1>2, <1>4, <1>5, <1>6 DEF HandInv, DescInHand, PageInHand
<1>12. \A o \in live : o.page # p
  <2>1. \A o \in live : BucketFor(o.len) \in Buckets
    BY <1>0, Bucket DEF ObjectsType, Objects
  <2>2. \A o \in live : \E e \in Chained : page[e] = o.page
    BY <1>0, <2>1, ChainedIs DEF HeldInv
  <2>. QED  BY <1>4, <2>2
<1>13. FreeInv'
  <2>1. ASSUME NEW a \in Buckets, NEW e \in Of(a)'
        PROVE  Distinct(freeptr[e]) /\ Elems(freeptr[e]) \subseteq 0 .. Capacity(a) - 1
    <3>1. CASE e = d /\ a = b
      BY <1>4, <3>1, FreeObjectsSound
    <3>2. CASE e \in Of(a)
      BY <1>0, <3>2 DEF FreeInv
    <3>. QED  BY <1>6, <2>1, <3>1, <3>2
  <2>2. ASSUME NEW e \in Chained', NEW o \in live, o.page = page[e]
        PROVE  o.nr \notin Elems(freeptr[e])
    BY <1>0, <1>4, <1>7, <1>12, <2>2 DEF FreeInv
  <2>. QED  BY <1>3, <2>1, <2>2 DEF FreeInv, fields
<1>14. CountInv'
  <2>1. \A e : On(e)' = On(e)
    BY <1>3 DEF On, fields
  <2>2. On(d) = {}
    BY <1>4, <1>12 DEF On
  <2>3. refcnt[d] = Cardinality(On(d))
    BY <1>4, <2>2, FS_EmptySet
  <2>4. ASSUME NEW e \in Chained
        PROVE  refcnt[e] = Cardinality(On(e)) /\ (refcnt[e] > 0 \/ cut > 0 \/ d = e)
    BY <1>0, <1>2 DEF CountInv
  <2>5. ASSUME NEW e \in Chained'
        PROVE  refcnt'[e] = Cardinality(On(e)') /\ (refcnt'[e] > 0 \/ cut' > 0 \/ Call'.desc = e)
    BY <1>3, <1>5, <1>7, <2>1, <2>3, <2>4 DEF fields, ghosts
  <2>. QED  BY <2>5 DEF CountInv
<1>15. HeldInv'
  <2>1. ASSUME NEW o \in live
        PROVE  /\ o.nr < Capacity(BucketFor(o.len))
               /\ \E e \in Of(BucketFor(o.len))' : page[e] = o.page
    <3>1. BucketFor(o.len) \in Buckets
      BY <1>0, Bucket DEF ObjectsType, Objects
    <3>2. Of(BucketFor(o.len)) \subseteq Of(BucketFor(o.len))'
      BY <1>6, <3>1
    <3>. QED  BY <1>0, <3>2 DEF HeldInv
  <2>. QED  BY <1>0, <1>3, <2>1 DEF HeldInv, fields
<1>16. LossesBounded'
  <2>1. \A q : LostPage(q)' => LostPage(q)
    BY <1>2, <1>3, <1>4, <1>7, <1>8 DEF LostPage, PageInHand, fields
  <2>2. \A e \in Desc : LostDesc(e)' => LostDesc(e)
    BY <1>2, <1>3, <1>5, <1>6, <1>7 DEF LostDesc, Listed
  <2>3. ASSUME NEW e \in Desc, NEW n \in 0 .. PAGE_SIZE - 1, LostObject(e, n)'
        PROVE  LostObject(e, n)
    <3>1. PICK a \in Buckets : e \in Of(a)' /\ n < Capacity(a)
      BY <2>3 DEF LostObject
    <3>2. n \notin Elems(freeptr[e])
      BY <1>3, <2>3 DEF LostObject, fields
    <3>3. e \in Of(a)
      <4>1. Elems(freeptr[d]) = 0 .. Capacity(b) - 1 /\ Capacity(b) \in Nat
        BY <1>4, FreeObjectsSound, CapacityRange
      <4>2. ~ (e = d /\ a = b)
        BY <3>1, <3>2, <4>1
      <4>. QED  BY <1>6, <3>1, <4>2
    <3>. QED  BY <1>1, <1>3, <2>3, <3>1, <3>2, <3>3 DEF LostObject, fields
  <2>4. Uncounted' = Uncounted
    BY <1>0, <1>1, <1>3, <1>5, <1>8, UncountedKept DEF pages
  <2>. QED  BY <1>0, <1>3, <1>5, <2>1, <2>2, <2>3, <2>4, LossesKept DEF ghosts
<1>. QED  BY <1>6, <1>9, <1>10, <1>11, <1>13, <1>14, <1>15, <1>16 DEF IInv

\* The first object of the page is taken.
LEMMA KmallocPopInv ==
  ASSUME IInv, ~IdleSwitched, NEW c \in Callers, KmallocPop(c)
  PROVE  IInv'
<1>0. /\ TypeInv /\ ListInv /\ PageInv /\ HandInv /\ FreeInv /\ CountInv /\ HeldInv
      /\ PagesType /\ ListsType /\ FieldsType /\ CallsType /\ ObjectsType /\ GhostsType
      /\ LossesBounded /\ calls["idle"] = NoCall
  BY IInvParts
<1>1. c = "task" /\ Call.at = "pop"
  BY <1>0, OneCall DEF KmallocPop, Places
<1>2. PICK d, b : d = Call.desc /\ b = BucketFor(Call.len)
  OBVIOUS
<1>3. CASE freeptr[d] = <<>>
  BY <1>1, <1>2, <1>3, NullTakenInv DEF KmallocPop, Call
<1>4. CASE freeptr[d] # <<>>
  <2>  DEFINE n == Head(freeptr[d])
  <2>1. /\ freeptr' = [freeptr EXCEPT ![d] = Tail(freeptr[d])]
        /\ calls' = [calls EXCEPT !["task"] = [Call EXCEPT !.at = "return", !.nr = n]]
        /\ UNCHANGED <<pages, lists, page, refcnt, carved, live, ghosts>>
    BY <1>1, <1>2, <1>4 DEF KmallocPop, Call
  <2>2. Call.len \in Lens /\ b \in Buckets /\ d \in Of(b)
    BY <1>0, <1>1, <1>2, Bucket DEF HandInv
  <2>3. ListInv' /\ Free' = Free /\ \A a \in Buckets : Of(a)' = Of(a)
    BY <1>0, <2>1, ListsKept
  <2>4. Chained' = Chained /\ Chained \subseteq Desc /\ d \in Chained
    BY <1>0, <2>2, <2>3, ChainedKept, ChainedSound, ChainedIs
  <2>5. /\ freeptr[d] \in Seq(Nat) /\ Distinct(freeptr[d])
        /\ Elems(freeptr[d]) \subseteq 0 .. Capacity(b) - 1
    BY <1>0, <2>2, <2>4 DEF FieldsType, FreeInv
  <2>6. /\ Tail(freeptr[d]) \in Seq(Nat) /\ Distinct(Tail(freeptr[d]))
        /\ n \in Nat /\ n \in Elems(freeptr[d])
        /\ Elems(Tail(freeptr[d])) = Elems(freeptr[d]) \ {n}
    BY <1>4, <2>5, FreeTail
  <2>7. n < Capacity(b)
    BY <2>2, <2>5, <2>6, CapacityRange
  <2>  HIDE DEF n
  <2>8. /\ calls' \in [Callers -> CallType] /\ calls'["idle"] = NoCall
        /\ Call'.at = "return" /\ Call'.len = Call.len /\ Call'.desc = d /\ Call'.nr = n
    <3>  DEFINE k == [Call EXCEPT !.at = "return", !.nr = n]
    <3>0. Call \in CallType
      BY <1>0 DEF CallsType, Callers, Call
    <3>1. k \in CallType /\ k.at = "return" /\ k.len = Call.len /\ k.desc = d /\ k.nr = n
      BY <1>2, <2>6, <3>0 DEF CallType, Places
    <3>  HIDE DEF k
    <3>2. calls' = [calls EXCEPT !["task"] = k]
      BY <2>1 DEF k
    <3>. QED  BY <1>0, <3>1, <3>2, CallSteps
  <2>9. Marked' = Marked
    BY <2>1 DEF Marked, pages
  <2>10. TypeInv'
    <3>1. FieldsType' /\ CallsType'
      BY <1>0, <2>1, <2>4, <2>6, <2>8 DEF FieldsType, CallsType
    <3>. QED  BY <1>0, <2>1, <3>1, TypesKept DEF TypeInv
  <2>11. /\ freeptr'[d] = Tail(freeptr[d])
         /\ \A e \in Desc \ {d} : freeptr'[e] = freeptr[e]
    BY <1>0, <2>1, <2>4 DEF FieldsType
  <2>12. PageInv'
    BY <1>0, <2>1, <2>3, <2>4, <2>9 DEF PageInv, Listed
  <2>13. HandInv'
    <3>1. n \notin Elems(freeptr'[d])
      BY <2>6, <2>11
    <3>2. \A o \in live : o.page = page[d] => o.nr # n
      BY <1>0, <2>4, <2>6 DEF FreeInv
    <3>. QED  BY <1>2, <2>1, <2>2, <2>3, <2>7, <2>8, <3>1, <3>2
              DEF HandInv, DescInHand, PageInHand
  <2>14. FreeInv'
    <3>1. ASSUME NEW a \in Buckets, NEW e \in Of(a)
          PROVE  Distinct(freeptr'[e]) /\ Elems(freeptr'[e]) \subseteq 0 .. Capacity(a) - 1
      <4>1. e \in Chained
        BY ChainedIs
      <4>2. Distinct(freeptr[e]) /\ Elems(freeptr[e]) \subseteq 0 .. Capacity(a) - 1
        BY <1>0 DEF FreeInv
      <4>. QED  BY <2>4, <2>6, <2>11, <4>1, <4>2
    <3>2. ASSUME NEW e \in Chained, NEW o \in live, o.page = page[e]
          PROVE  o.nr \notin Elems(freeptr'[e])
      <4>1. o.nr \notin Elems(freeptr[e])
        BY <1>0, <3>2 DEF FreeInv
      <4>. QED  BY <2>4, <2>6, <2>11, <4>1
    <3>. QED  BY <2>1, <2>3, <2>4, <3>1, <3>2 DEF FreeInv
  <2>15. CountInv'
    <3>1. \A e : On(e)' = On(e)
      BY <2>1 DEF On
    <3>2. ASSUME NEW e \in Chained
          PROVE  refcnt[e] = Cardinality(On(e)) /\ (refcnt[e] > 0 \/ cut > 0 \/ d = e)
      BY <1>0, <1>2 DEF CountInv
    <3>3. ASSUME NEW e \in Chained
          PROVE  refcnt'[e] = Cardinality(On(e)') /\ (refcnt'[e] > 0 \/ cut' > 0 \/ Call'.desc = e)
      BY <2>1, <2>8, <3>1, <3>2 DEF ghosts
    <3>. QED  BY <2>4, <3>3 DEF CountInv
  <2>16. HeldInv'
    <3>1. \A o \in live : BucketFor(o.len) \in Buckets
      BY <1>0, Bucket DEF ObjectsType, Objects
    <3>. QED  BY <1>0, <2>1, <2>3, <3>1 DEF HeldInv
  <2>17. LossesBounded'
    <3>1. \A q : LostPage(q)' => LostPage(q)
      BY <1>1, <2>1, <2>4, <2>9 DEF LostPage, PageInHand
    <3>2. \A e \in Desc : LostDesc(e)' => LostDesc(e)
      BY <1>2, <2>1, <2>3, <2>4, <2>8 DEF LostDesc, Listed
    <3>3. ASSUME NEW e \in Desc, NEW m \in 0 .. PAGE_SIZE - 1, LostObject(e, m)'
          PROVE  LostObject(e, m)
      <4>1. m \notin Elems(freeptr'[e]) /\ ~ (d = e /\ n = m)
        BY <2>8, <3>3 DEF LostObject
      <4>2. m \notin Elems(freeptr[e])
        BY <2>6, <2>11, <4>1
      <4>. QED  BY <1>1, <2>1, <2>3, <3>3, <4>2 DEF LostObject
    <3>4. Uncounted' = Uncounted
      BY <1>0, <1>1, <2>1, <2>8, <2>9, UncountedKept DEF pages
    <3>. QED  BY <1>0, <2>1, <2>8, <3>1, <3>2, <3>3, <3>4, LossesKept DEF ghosts
  <2>. QED  BY <2>3, <2>10, <2>12, <2>13, <2>14, <2>15, <2>16, <2>17 DEF IInv
<1>. QED  BY <1>3, <1>4

\* The object is the caller's.
LEMMA KmallocReturnInv ==
  ASSUME IInv, ~IdleSwitched, NEW c \in Callers, KmallocReturn(c)
  PROVE  IInv'
<1>0. /\ TypeInv /\ ListInv /\ PageInv /\ HandInv /\ FreeInv /\ CountInv /\ HeldInv
      /\ PagesType /\ ListsType /\ FieldsType /\ CallsType /\ ObjectsType /\ GhostsType
      /\ LossesBounded /\ calls["idle"] = NoCall
  BY IInvParts
<1>1. c = "task" /\ Call.at = "return"
  BY <1>0, OneCall DEF KmallocReturn, Places
<1>2. PICK d, b, n, len : d = Call.desc /\ b = BucketFor(len) /\ n = Call.nr /\ len = Call.len
  OBVIOUS
<1>  DEFINE o == [page |-> page[d], nr |-> n, len |-> len]
<1>3. /\ calls' = [calls EXCEPT !["task"] = NoCall]
      /\ refcnt' = [refcnt EXCEPT ![d] = refcnt[d] + 1]
      /\ live' = live \cup {o}
      /\ UNCHANGED <<pages, lists, page, freeptr, carved, ghosts>>
  BY <1>1, <1>2 DEF KmallocReturn, Call
<1>4. /\ len \in Lens /\ b \in Buckets /\ d \in Of(b) /\ n < Capacity(b) /\ n \in Nat
      /\ n \notin Elems(freeptr[d]) /\ \A l \in live : l.page = page[d] => l.nr # n
  BY <1>0, <1>1, <1>2, Bucket DEF HandInv, CallsType, CallType, Callers, Call
<1>5. o.page = page[d] /\ o.nr = n /\ o.len = len
  OBVIOUS
<1>  HIDE DEF o
<1>6. CallsType' /\ Call' = NoCall /\ calls'["idle"] = NoCall
  BY <1>0, <1>3, CallSteps, NoCallType DEF CallsType
<1>7. ListInv' /\ Free' = Free /\ \A a \in Buckets : Of(a)' = Of(a)
  BY <1>0, <1>3, ListsKept
<1>8. Chained' = Chained /\ Chained \subseteq Desc /\ d \in Chained
  BY <1>0, <1>4, <1>7, ChainedKept, ChainedSound, ChainedIs
<1>9. Marked' = Marked
  BY <1>3 DEF Marked, pages
<1>10. /\ refcnt[d] \in Int /\ page[d] \in Pages /\ refcnt'[d] = refcnt[d] + 1
       /\ \A e \in Desc \ {d} : refcnt'[e] = refcnt[e]
  BY <1>0, <1>3, <1>8 DEF FieldsType, PageInv, Marked
<1>11. \A e \in Chained \ {d} : page[e] # page[d]
  BY <1>0, <1>8 DEF PageInv
<1>12. o \in Objects
  <2>1. n \in 0 .. PAGE_SIZE - 1
    BY <1>4, CapacityRange, SizesAssumption
  <2>. QED  BY <1>4, <1>10, <2>1 DEF Objects, o
<1>13. TypeInv'
  <2>1. FieldsType'
    BY <1>0, <1>3, <1>8, <1>10 DEF FieldsType
  <2>2. ObjectsType'
    BY <1>0, <1>3, <1>12, FS_AddElement DEF ObjectsType
  <2>. QED  BY <1>0, <1>3, <1>6, <2>1, <2>2, TypesKept DEF TypeInv
<1>14. PageInv'
  BY <1>0, <1>3, <1>7, <1>8, <1>9 DEF PageInv, Listed
<1>15. HandInv'
  BY <1>6 DEF HandInv, DescInHand, PageInHand, NoCall
<1>16. FreeInv'
  <2>1. ASSUME NEW a \in Buckets, NEW e \in Of(a)
        PROVE  Distinct(freeptr[e]) /\ Elems(freeptr[e]) \subseteq 0 .. Capacity(a) - 1
    BY <1>0 DEF FreeInv
  <2>2. ASSUME NEW e \in Chained, NEW l \in live', l.page = page[e]
        PROVE  l.nr \notin Elems(freeptr[e])
    <3>1. l \in live => l.nr \notin Elems(freeptr[e])
      BY <1>0, <2>2 DEF FreeInv
    <3>2. l # o => l \in live
      BY <1>3
    <3>. QED  BY <1>4, <1>5, <1>11, <2>2, <3>1, <3>2
  <2>. QED  BY <1>3, <1>7, <1>8, <2>1, <2>2 DEF FreeInv
<1>17. CountInv'
  <2>1. ASSUME NEW e \in Chained
        PROVE  refcnt'[e] = Cardinality(On(e)')
               /\ (refcnt'[e] > 0 \/ cut' > 0 \/ Call'.desc = e)
    <3>0. refcnt[e] = Cardinality(On(e)) /\ (refcnt[e] > 0 \/ cut > 0 \/ e = d)
      BY <1>0, <1>2 DEF CountInv
    <3>1. CASE e = d
      <4>1. On(d)' = On(d) \cup {o} /\ o \notin On(d)
        <5>1. On(d)' = {l \in live' : l.page = page[d]}
          BY <1>3 DEF On
        <5>2. o \notin live
          BY <1>4, <1>5
        <5>. QED  BY <1>3, <1>5, <5>1, <5>2 DEF On
      <4>2. IsFiniteSet(On(d))
        BY <1>0, FS_Subset DEF ObjectsType, On
      <4>3. /\ Cardinality(On(d)) \in Nat
            /\ Cardinality(On(d)') = Cardinality(On(d)) + 1
        BY <4>1, <4>2, CardAdd
      <4>. QED  BY <1>10, <3>0, <3>1, <4>3
    <3>2. CASE e # d
      <4>1. On(e)' = On(e)
        BY <1>3, <1>5, <1>11, <3>2 DEF On
      <4>. QED  BY <1>3, <1>8, <1>10, <3>0, <3>2, <4>1 DEF ghosts
    <3>. QED  BY <3>1, <3>2
  <2>. QED  BY <1>8, <2>1 DEF CountInv
<1>18. HeldInv'
  <2>1. ASSUME NEW l \in live'
        PROVE  /\ l.nr < Capacity(BucketFor(l.len))
               /\ \E e \in Of(BucketFor(l.len))' : page'[e] = l.page
    <3>1. CASE l = o
      BY <1>2, <1>3, <1>4, <1>5, <1>7, <3>1
    <3>2. CASE l # o
      <4>1. l \in live /\ BucketFor(l.len) \in Buckets
        BY <1>0, <1>3, <3>2, Bucket DEF ObjectsType, Objects
      <4>. QED  BY <1>0, <1>3, <1>7, <4>1 DEF HeldInv
    <3>. QED  BY <3>1, <3>2
  <2>2. ASSUME NEW l \in live', NEW k \in live', l.page = k.page, l.nr = k.nr
        PROVE  l = k
    BY <1>0, <1>3, <1>4, <1>5, <2>2 DEF HeldInv
  <2>. QED  BY <2>1, <2>2 DEF HeldInv
<1>19. LossesBounded'
  <2>1. \A q : LostPage(q)' => LostPage(q)
    BY <1>1, <1>3, <1>8, <1>9 DEF LostPage, PageInHand
  <2>2. \A e \in Desc : LostDesc(e)' => LostDesc(e)
    BY <1>2, <1>3, <1>7, <1>8 DEF LostDesc, Listed
  <2>3. ASSUME NEW e \in Desc, NEW m \in 0 .. PAGE_SIZE - 1, LostObject(e, m)'
        PROVE  LostObject(e, m)
    <3>1. \A l \in live' : l.page = page[e] => l.nr # m
      BY <1>3, <2>3 DEF LostObject
    <3>2. ~ (e = d /\ m = n)
      BY <1>3, <1>5, <3>1
    <3>. QED  BY <1>2, <1>3, <1>7, <2>3, <3>1, <3>2 DEF LostObject
  <2>4. Uncounted' = Uncounted
    BY <1>0, <1>1, <1>3, <1>6, <1>9, UncountedKept DEF pages, NoCall
  <2>. QED  BY <1>0, <1>3, <1>6, <2>1, <2>2, <2>3, <2>4, LossesKept DEF ghosts
<1>. QED  BY <1>7, <1>13, <1>14, <1>15, <1>16, <1>17, <1>18, <1>19 DEF IInv

-----------------------------------------------------------------------------
(***************************************************************************)
(* The steps of kfree_s(), and the one that cuts a call off.               *)
(***************************************************************************)
LEMMA KfreeInv ==
  ASSUME IInv, ~IdleSwitched, NEW o \in live, Kfree(o)
  PROVE  IInv'
<1>0. /\ TypeInv /\ ListInv /\ PageInv /\ HandInv /\ FreeInv /\ CountInv /\ HeldInv
      /\ PagesType /\ ListsType /\ FieldsType /\ CallsType /\ ObjectsType /\ GhostsType
      /\ LossesBounded /\ calls["idle"] = NoCall
  BY IInvParts
<1>1. Call = NoCall
  BY <1>0 DEF Kfree, MayCall, Call
<1>2. PICK b \in Buckets, d \in Desc :
        /\ d \in Of(b) /\ page[d] = o.page
        /\ freeptr' = [freeptr EXCEPT ![d] = <<o.nr>> \o freeptr[d]]
        /\ refcnt' = [refcnt EXCEPT ![d] = refcnt[d] - 1]
        /\ IF IsLast(d)
             THEN /\ Unlinked(b, d)
                  /\ free_page(page[d])
                  /\ calls' = [calls EXCEPT !["task"] = [NoCall EXCEPT !.at = "list",
                                                                      !.desc = d]]
             ELSE UNCHANGED <<pages, chain, next, calls>>
  BY DEF Kfree, Found, Of
<1>3. live' = live \ {o} /\ UNCHANGED <<free_bucket_desc, page, carved, ghosts>>
  BY DEF Kfree
<1>4. /\ Chained \subseteq Desc /\ d \in Chained
      /\ \A a \in Buckets \ {b} : d \notin Of(a)
  BY <1>0, <1>2, ChainedSound, ChainedIs
<1>5. /\ o.page \in Pages /\ o.nr \in Nat /\ o.len \in Lens
      /\ BucketFor(o.len) \in Buckets
  BY <1>0, Bucket DEF ObjectsType, Objects
<1>6. b = BucketFor(o.len)
  BY <1>0, <1>2, <1>4, <1>5, ChainedIs DEF HeldInv, PageInv
<1>7. /\ freeptr[d] \in Seq(Nat) /\ refcnt[d] \in Int /\ Distinct(freeptr[d])
      /\ Elems(freeptr[d]) \subseteq 0 .. Capacity(b) - 1
      /\ o.nr \in Nat \ Elems(freeptr[d])
  BY <1>0, <1>2, <1>4, <1>5 DEF FieldsType, FreeInv
<1>8. o.nr \in 0 .. Capacity(b) - 1
  BY <1>0, <1>5, <1>6, CapacityRange DEF HeldInv
<1>9. /\ <<o.nr>> \o freeptr[d] \in Seq(Nat) /\ Distinct(<<o.nr>> \o freeptr[d])
      /\ Elems(<<o.nr>> \o freeptr[d]) = Elems(freeptr[d]) \cup {o.nr}
  BY <1>7, FreePush
<1>10. /\ freeptr'[d] = <<o.nr>> \o freeptr[d] /\ refcnt'[d] = refcnt[d] - 1
       /\ \A e \in Desc \ {d} : freeptr'[e] = freeptr[e] /\ refcnt'[e] = refcnt[e]
       /\ freeptr' \in [Desc -> Seq(Nat)] /\ refcnt' \in [Desc -> Int]
  <2>  DEFINE s == <<o.nr>> \o freeptr[d]
  <2>1. s \in Seq(Nat) /\ freeptr' = [freeptr EXCEPT ![d] = s]
    BY <1>2, <1>9
  <2>  HIDE DEF s
  <2>2. /\ freeptr'[d] = s /\ refcnt'[d] = refcnt[d] - 1
        /\ \A e \in Desc \ {d} : freeptr'[e] = freeptr[e] /\ refcnt'[e] = refcnt[e]
        /\ freeptr' \in [Desc -> Seq(Nat)] /\ refcnt' \in [Desc -> Int]
    BY <1>0, <1>2, <1>4, <1>7, <2>1 DEF FieldsType
  <2>. QED  BY <2>2 DEF s
<1>11. \A e \in Chained \ {d} : page[e] # page[d]
  BY <1>0, <1>4 DEF PageInv
\* The objects that are left.
<1>12. /\ On(d)' = On(d) \ {o} /\ IsFiniteSet(On(d)) /\ o \in On(d)
       /\ \A e \in Chained \ {d} : On(e)' = On(e)
  <2>1. \A e : On(e)' = On(e) \ {o}
    BY <1>3 DEF On
  <2>2. IsFiniteSet(On(d)) /\ o \in On(d)
    BY <1>0, <1>2, FS_Subset DEF ObjectsType, On
  <2>3. \A e \in Chained \ {d} : o \notin On(e)
    BY <1>2, <1>11 DEF On
  <2>. QED  BY <2>1, <2>2, <2>3
<1>13. /\ Cardinality(On(d)) = refcnt[d] /\ refcnt[d] \in Nat \ {0}
       /\ Cardinality(On(d)') = refcnt[d] - 1 /\ IsFiniteSet(On(d)')
  BY <1>0, <1>4, <1>12, CardRemove DEF CountInv
<1>14. FieldsType' /\ ObjectsType' /\ GhostsType'
  <2>1. FieldsType'
    BY <1>0, <1>3, <1>10 DEF FieldsType
  <2>2. ObjectsType'
    BY <1>0, <1>3, FS_RemoveElement DEF ObjectsType
  <2>. QED  BY <1>0, <1>3, <2>1, <2>2, TypesKept
\* What is free, counted and held in the chains that are left.
<1>15. ASSUME NEW a \in Buckets, NEW e \in Of(a)
       PROVE  Distinct(freeptr'[e]) /\ Elems(freeptr'[e]) \subseteq 0 .. Capacity(a) - 1
  <2>1. e \in Chained /\ (e = d => a = b)
    BY <1>4, ChainedIs
  <2>2. Distinct(freeptr[e]) /\ Elems(freeptr[e]) \subseteq 0 .. Capacity(a) - 1
    BY <1>0 DEF FreeInv
  <2>. QED  BY <1>4, <1>8, <1>9, <1>10, <2>1, <2>2
<1>16. ASSUME NEW e \in Chained, NEW l \in live', l.page = page[e]
       PROVE  l.nr \notin Elems(freeptr'[e])
  <2>1. l \in live /\ l # o /\ l.nr \notin Elems(freeptr[e])
    BY <1>0, <1>3, <1>16 DEF FreeInv
  <2>2. e = d => l.nr # o.nr
    BY <1>0, <1>2, <1>16, <2>1 DEF HeldInv
  <2>. QED  BY <1>4, <1>9, <1>10, <2>1, <2>2
<1>17. ASSUME NEW e \in Chained
       PROVE  /\ refcnt'[e] = Cardinality(On(e)')
              /\ e # d => refcnt'[e] > 0 \/ cut' > 0
  <2>1. refcnt[e] = Cardinality(On(e)) /\ (refcnt[e] > 0 \/ cut > 0 \/ Call.desc = e)
    BY <1>0 DEF CountInv
  <2>2. Call.desc # e
    BY <1>1, <1>4, DescFinite DEF NoCall
  <2>. QED  BY <1>3, <1>4, <1>10, <1>12, <1>13, <2>1, <2>2 DEF ghosts
<1>18. ASSUME NEW l \in live'
       PROVE  /\ l \in live /\ BucketFor(l.len) \in Buckets
              /\ l.nr < Capacity(BucketFor(l.len))
              /\ \E e \in Of(BucketFor(l.len)) : page[e] = l.page
  BY <1>0, <1>3, Bucket DEF ObjectsType, Objects, HeldInv
<1>19. \A l, k \in live' : l.page = k.page /\ l.nr = k.nr => l = k
  BY <1>0, <1>3 DEF HeldInv
\* An object that is freed is not lost.
<1>22. ASSUME NEW e \in Desc, NEW m \in 0 .. PAGE_SIZE - 1, LostObject(e, m)',
              \A a \in Buckets : Of(a)' \subseteq Of(a)
       PROVE  LostObject(e, m)
  <2>1. m \notin Elems(freeptr'[e]) /\ \A l \in live' : l.page = page[e] => l.nr # m
    BY <1>3, <1>22 DEF LostObject
  <2>2. PICK a \in Buckets : e \in Of(a) /\ m < Capacity(a)
    BY <1>22 DEF LostObject
  <2>3. m \notin Elems(freeptr[e]) /\ ~ (e = d /\ m = o.nr)
    BY <1>9, <1>10, <2>1
  <2>4. \A l \in live : l.page = page[e] => l.nr # m
    BY <1>2, <1>3, <1>11, <2>1, <2>2, <2>3, ChainedIs
  <2>. QED  BY <1>1, <2>2, <2>3, <2>4 DEF LostObject, NoCall
<1>20. CASE ~ IsLast(d)
  <2>1. UNCHANGED <<pages, chain, next, calls>>
    BY <1>2, <1>20
  <2>2. ListInv' /\ Free' = Free /\ \A a \in Buckets : Of(a)' = Of(a)
    BY <1>0, <1>3, <2>1, ListsKept DEF lists
  <2>3. Chained' = Chained
    BY <2>2, ChainedKept
  <2>4. Marked' = Marked
    BY <2>1 DEF Marked, pages
  <2>5. refcnt'[d] > 0
    BY <1>7, <1>10, <1>13, <1>20 DEF IsLast
  <2>6. TypeInv'
    <3>1. CallsType'
      BY <1>0, <2>1 DEF CallsType
    <3>. QED  BY <1>0, <1>3, <1>14, <2>1, <3>1, TypesKept DEF TypeInv, lists
  <2>7. PageInv'
    BY <1>0, <1>3, <2>2, <2>3, <2>4 DEF PageInv, Listed
  <2>8. HandInv'
    BY <1>0, <1>1, <2>1 DEF HandInv, DescInHand, PageInHand, Call, NoCall
  <2>9. FreeInv'
    BY <1>3, <1>15, <1>16, <2>2, <2>3 DEF FreeInv
  <2>10. CountInv'
    BY <1>17, <2>3, <2>5 DEF CountInv
  <2>11. HeldInv'
    BY <1>3, <1>18, <1>19, <2>2 DEF HeldInv
  <2>12. LossesBounded'
    <3>0. Call' = Call
      BY <2>1 DEF Call
    <3>1. \A q : LostPage(q)' => LostPage(q)
      BY <1>3, <2>3, <2>4, <3>0 DEF LostPage, PageInHand
    <3>2. \A e \in Desc : LostDesc(e)' => LostDesc(e)
      BY <1>3, <2>2, <2>3, <3>0 DEF LostDesc, Listed
    <3>3. \A e \in Desc : \A m \in 0 .. PAGE_SIZE - 1 :
            LostObject(e, m)' => LostObject(e, m)
      BY <1>22, <2>2
    <3>4. Uncounted' = Uncounted
      BY <1>0, <2>1, <2>4, <3>0, UncountedKept DEF pages
    <3>. QED  BY <1>0, <1>3, <2>1, <3>1, <3>2, <3>3, <3>4, LossesKept DEF ghosts
  <2>. QED  BY <2>2, <2>6, <2>7, <2>8, <2>9, <2>10, <2>11, <2>12 DEF IInv
<1>21. CASE IsLast(d)
  <2>1. /\ Unlinked(b, d)
        /\ map' = [map EXCEPT ![page[d]] = 0] /\ bitmap_item_used' = bitmap_item_used - 1
        /\ calls' = [calls EXCEPT !["task"] = [NoCall EXCEPT !.at = "list", !.desc = d]]
    BY <1>2, <1>21 DEF free_page
  <2>2. /\ ListInv' /\ Free' = Free /\ Of(b)' = Of(b) \ {d}
        /\ \A a \in Buckets \ {b} : Of(a)' = Of(a)
    BY <1>0, <1>2, <1>3, <2>1, DescUnlinked DEF ListsType
  <2>3. Chained' = Chained \ {d}
    BY <1>4, <2>2, ChainedIs
  <2>4. Marked' = Marked \ {page[d]}
    BY <1>0, <1>2, <1>5, <2>1 DEF Marked, PagesType
  <2>5. /\ calls' \in [Callers -> CallType] /\ calls'["idle"] = NoCall
        /\ Call'.at = "list" /\ Call'.desc = d
    <3>  DEFINE k == [NoCall EXCEPT !.at = "list", !.desc = d]
    <3>1. k \in CallType /\ k.at = "list" /\ k.desc = d
      BY <1>4, NoCallType DEF CallType, Places, NoCall
    <3>2. calls' = [calls EXCEPT !["task"] = k]
      BY <2>1
    <3>  HIDE DEF k
    <3>. QED  BY <1>0, <3>1, <3>2, CallSteps
  <2>6. \A l \in live' : l.page # page[d]
    <3>1. On(d)' = {}
      BY <1>13, <1>21, FS_EmptySet DEF IsLast
    <3>2. On(d)' = {l \in live' : l.page = page[d]}
      BY <1>3 DEF On
    <3>. QED  BY <3>1, <3>2
  <2>7. TypeInv'
    <3>1. PagesType'
      BY <1>0, <1>2, <1>3, <1>5, <2>1 DEF PagesType
    <3>2. ListsType'
      BY <1>0, <1>3, <1>4, <2>1 DEF ListsType, Unlinked
    <3>3. CallsType'
      BY <2>5 DEF CallsType
    <3>. QED  BY <1>14, <3>1, <3>2, <3>3 DEF TypeInv
  <2>8. PageInv'
    <3>1. page[d] \notin carved
      BY <1>0, <1>4 DEF PageInv
    <3>. QED  BY <1>0, <1>3, <1>11, <2>2, <2>3, <2>4, <3>1 DEF PageInv, Listed
  <2>9. HandInv'
    <3>1. d \in Desc \ Listed' /\ d[1] \in carved'
      BY <1>0, <1>3, <1>4, <2>2, <2>3, ChainedSound DEF Listed, PageInv
    <3>. QED  BY <2>5, <3>1 DEF HandInv, DescInHand, PageInHand
  <2>10. FreeInv'
    <3>1. \A a \in Buckets : Of(a)' \subseteq Of(a)
      BY <2>2
    <3>. QED  BY <1>3, <1>15, <1>16, <2>3, <3>1 DEF FreeInv
  <2>11. CountInv'
    BY <1>17, <2>3 DEF CountInv
  <2>12. HeldInv'
    <3>1. ASSUME NEW l \in live'
          PROVE  /\ l.nr < Capacity(BucketFor(l.len))
                 /\ \E e \in Of(BucketFor(l.len))' : page[e] = l.page
      <4>1. PICK e \in Of(BucketFor(l.len)) : page[e] = l.page
        BY <1>18
      <4>2. e # d
        BY <2>6, <4>1
      <4>3. e \in Of(BucketFor(l.len))'
        BY <1>18, <2>2, <4>2
      <4>. QED  BY <1>18, <4>1, <4>3
    <3>. QED  BY <1>3, <1>19, <3>1 DEF HeldInv
  <2>13. LossesBounded'
    <3>1. \A q : LostPage(q)' => LostPage(q)
      BY <1>1, <1>3, <2>3, <2>4 DEF LostPage, PageInHand, NoCall
    <3>2. \A e \in Desc : LostDesc(e)' => LostDesc(e)
      BY <1>1, <1>3, <2>2, <2>3, <2>5, DescFinite DEF LostDesc, Listed, NoCall
    <3>3. \A e \in Desc : \A m \in 0 .. PAGE_SIZE - 1 :
            LostObject(e, m)' => LostObject(e, m)
      BY <1>22, <2>2
    <3>4. Uncounted' = Uncounted
      <4>1. /\ Cardinality(Marked) \in Nat
            /\ Cardinality(Marked') = Cardinality(Marked) - 1
        BY <1>0, <1>4, <2>4, LostFinite, CardRemove DEF PageInv
      <4>2. Counting = 0 /\ Counting' = 0
        BY <1>0, <1>1, <2>5, CountingIs DEF NoCall
      <4>3. bitmap_item_used \in Int
        BY <1>0 DEF PagesType
      <4>. QED  BY <2>1, <4>1, <4>2, <4>3 DEF Uncounted
    <3>. QED  BY <1>0, <1>3, <2>5, <3>1, <3>2, <3>3, <3>4, LossesKept DEF ghosts
  <2>. QED  BY <2>2, <2>7, <2>8, <2>9, <2>10, <2>11, <2>12, <2>13 DEF IInv
<1>. QED  BY <1>20, <1>21

\* The descriptor of a page that was given back goes to the unused ones.
LEMMA KfreeListInv ==
  ASSUME IInv, KfreeList
  PROVE  IInv'
<1>0. /\ TypeInv /\ ListInv /\ PageInv /\ HandInv /\ FreeInv /\ CountInv /\ HeldInv
      /\ PagesType /\ ListsType /\ FieldsType /\ CallsType /\ ObjectsType /\ GhostsType
      /\ LossesBounded /\ calls["idle"] = NoCall
  BY IInvParts
<1>1. Call.at = "list"
  BY DEF KfreeList, At, Call
<1>2. PICK d : d = Call.desc
  OBVIOUS
<1>3. /\ next' = [next EXCEPT ![d] = free_bucket_desc] /\ free_bucket_desc' = d
      /\ calls' = [calls EXCEPT !["task"] = NoCall]
      /\ UNCHANGED <<pages, chain, fields, carved, live, ghosts>>
  BY <1>2 DEF KfreeList, Call
<1>4. d \in Desc \ Listed /\ d \notin Chained /\ d[1] \in carved
  BY <1>0, <1>1, <1>2 DEF HandInv, DescInHand, Listed
<1>5. CallsType' /\ Call' = NoCall /\ calls'["idle"] = NoCall
  BY <1>0, <1>3, CallSteps, NoCallType DEF CallsType
<1>6. ListInv' /\ Free' = Free \cup {d} /\ \A b \in Buckets : Of(b)' = Of(b)
  BY <1>0, <1>3, <1>4, DescFreed DEF ListsType
<1>7. Chained' = Chained
  BY <1>6, ChainedKept
<1>8. Marked' = Marked
  BY <1>3 DEF Marked, pages
<1>9. TypeInv'
  <2>1. ListsType'
    BY <1>0, <1>3, <1>4 DEF ListsType
  <2>. QED  BY <1>0, <1>3, <1>5, <2>1, TypesKept DEF TypeInv
<1>10. PageInv'
  BY <1>0, <1>3, <1>4, <1>6, <1>7, <1>8 DEF PageInv, Listed, fields
<1>11. HandInv'
  BY <1>5 DEF HandInv, DescInHand, PageInHand, NoCall
<1>12. FreeInv' /\ CountInv' /\ HeldInv'
  BY <1>0, <1>2, <1>3, <1>4, <1>6, ObjectsFrame
     DEF fields, ghosts, ObjectsType, GhostsType
<1>13. LossesBounded'
  <2>1. \A q : LostPage(q)' => LostPage(q)
    BY <1>1, <1>3, <1>7, <1>8 DEF LostPage, PageInHand, fields
  <2>2. \A e \in Desc : LostDesc(e)' => LostDesc(e)
    BY <1>2, <1>3, <1>6, <1>7 DEF LostDesc, Listed
  <2>3. \A e \in Desc : \A n \in 0 .. PAGE_SIZE - 1 :
          LostObject(e, n)' => LostObject(e, n)
    BY <1>1, <1>3, <1>6, LostObjectsFrame DEF fields
  <2>4. Uncounted' = Uncounted
    BY <1>0, <1>1, <1>3, <1>5, <1>8, UncountedKept DEF pages, NoCall
  <2>. QED  BY <1>0, <1>3, <1>5, <2>1, <2>2, <2>3, <2>4, LossesKept DEF ghosts
<1>. QED  BY <1>6, <1>9, <1>10, <1>11, <1>12, <1>13 DEF IInv

\* The call is cut off: what it had in hand is lost.
LEMMA CutOffInv ==
  ASSUME IInv, CutOff
  PROVE  IInv'
<1>0. /\ TypeInv /\ ListInv /\ PageInv /\ HandInv /\ FreeInv /\ CountInv /\ HeldInv
      /\ PagesType /\ ListsType /\ FieldsType /\ CallsType /\ ObjectsType /\ GhostsType
      /\ LossesBounded /\ calls["idle"] = NoCall
  BY IInvParts
<1>1. /\ calls' = [calls EXCEPT !["task"] = NoCall] /\ cut' = cut + 1
      /\ UNCHANGED <<pages, lists, fields, carved, live, failed, fault>>
  BY DEF CutOff
<1>2. CallsType' /\ Call' = NoCall /\ calls'["idle"] = NoCall
  BY <1>0, <1>1, CallSteps, NoCallType DEF CallsType
<1>3. ListInv' /\ Free' = Free /\ \A b \in Buckets : Of(b)' = Of(b)
  BY <1>0, <1>1, ListsKept
<1>4. Chained' = Chained
  BY <1>3, ChainedKept
<1>5. Marked' = Marked
  BY <1>1 DEF Marked, pages
<1>6. cut \in Nat /\ cut' > 0 /\ cut' \in Nat /\ cut' >= cut
  BY <1>0, <1>1 DEF GhostsType
<1>7. TypeInv'
  <2>1. GhostsType'
    BY <1>0, <1>1, <1>6 DEF GhostsType
  <2>. QED  BY <1>0, <1>1, <1>2, <2>1, TypesKept DEF TypeInv
<1>8. PageInv'
  BY <1>0, <1>1, <1>3, <1>4, <1>5 DEF PageInv, Listed, fields
<1>9. HandInv'
  BY <1>2 DEF HandInv, DescInHand, PageInHand, NoCall
<1>10. FreeInv' /\ CountInv' /\ HeldInv'
  BY <1>0, <1>1, <1>3, <1>6, ObjectsFrame DEF fields, ObjectsType
<1>11. LossesBounded'
  <2>1. LostPages' \subseteq LostPages \cup {Call.page}
    <3>1. \A q : LostPage(q)' => LostPage(q) \/ q = Call.page
      BY <1>1, <1>4, <1>5 DEF LostPage, PageInHand, fields
    <3>. QED  BY <1>0, <1>2, <3>1, LostPagesAre
  <2>2. LostDescs' \subseteq LostDescs \cup {Call.desc}
    <3>1. \A e : LostDesc(e)' => LostDesc(e) \/ e = Call.desc
      BY <1>1, <1>3, <1>4 DEF LostDesc, Listed
    <3>. QED  BY <1>0, <1>2, <3>1, LostDescsAre
  <2>3. LostObjects' \subseteq LostObjects \cup {<<Call.desc, Call.nr>>}
    <3>1. \A e, n : LostObject(e, n)' => LostObject(e, n) \/ (e = Call.desc /\ n = Call.nr)
      BY <1>1, <1>3 DEF LostObject, fields
    <3>. QED  BY <1>0, <1>2, <3>1, LostObjectsAre
  <2>4. \E u \in {0, 1} : Uncounted' = Uncounted + u
    <3>1. Counting \in {0, 1} /\ Counting' = 0
      BY <1>0, <1>2, CountingIs DEF NoCall
    <3>2. Cardinality(Marked) \in Nat /\ bitmap_item_used \in Int
      BY <1>0, LostFinite, FS_CardinalityType DEF PagesType
    <3>. QED  BY <1>1, <1>5, <3>1, <3>2 DEF Uncounted, pages
  <2>5. PICK u \in {0, 1} : Uncounted' = Uncounted + u
    BY <2>4
  <2>6. PICK q : LostPages' \subseteq LostPages \cup {q}
    BY <2>1
  <2>7. PICK f : LostDescs' \subseteq LostDescs \cup {f}
    BY <2>2
  <2>8. PICK x : LostObjects' \subseteq LostObjects \cup {x}
    BY <2>3
  <2>9. /\ LossesBounded /\ GhostsType /\ cut' = cut + 1 /\ failed' = failed
        /\ calls["idle"] = NoCall /\ calls'["idle"] = NoCall
    BY <1>0, <1>1, <1>2
  <2>. QED  BY <2>5, <2>6, <2>7, <2>8, <2>9, LossesGrow
<1>. QED  BY <1>3, <1>7, <1>8, <1>9, <1>10, <1>11 DEF IInv

-----------------------------------------------------------------------------
(***************************************************************************)
(* The invariant holds, and with it what it contains.                      *)
(***************************************************************************)
LEMMA InitInv ==
  ASSUME Init
  PROVE  IInv
<1>1. IsList(next, NoDesc, <<>>)
  BY DEF IsList
<1>2. /\ Unused = <<>> /\ free_bucket_desc = NoDesc
      /\ \A b \in Buckets : ChainOf(b) = <<>> /\ chain[b] = NoDesc
  BY <1>1, ListIs DEF Init, Unused, ChainOf
<1>3. Free = {} /\ \A b \in Buckets : Of(b) = {}
  BY <1>2 DEF Free, Of, Elems
<1>4. Chained = {}
  BY <1>3, ChainedIs
<1>5. Call = NoCall /\ calls["idle"] = NoCall
  BY DEF Init, Call, Callers
<1>6. TypeInv
  <2>1. PagesType
    BY DEF Init, PagesType
  <2>6. GhostsType
    BY DEF Init, GhostsType
  <2>2. ListsType
    BY DEF Init, ListsType
  <2>3. FieldsType
    <3>1. <<>> \in Seq(Nat)
      OBVIOUS
    <3>. QED  BY <3>1 DEF Init, FieldsType
  <2>4. CallsType
    BY NoCallType DEF Init, CallsType
  <2>5. ObjectsType
    BY FS_EmptySet DEF Init, ObjectsType
  <2>. QED  BY <2>1, <2>2, <2>3, <2>4, <2>5, <2>6 DEF TypeInv
<1>7. ListInv
  BY <1>1, <1>2, <1>3 DEF ListInv
<1>8. PageInv
  BY <1>3, <1>4 DEF Init, PageInv, Listed
<1>9. HandInv
  BY <1>5 DEF HandInv, DescInHand, PageInHand, NoCall
<1>10. FreeInv /\ CountInv /\ HeldInv
  BY <1>3, <1>4 DEF Init, FreeInv, CountInv, HeldInv
<1>11. LossesBounded
  <2>1. Marked = {}
    BY DEF Init, Marked
  <2>2. LostPages = {} /\ LostDescs = {} /\ LostObjects = {}
    BY <1>3, <2>1 DEF Init, LostPages, LostDescs, LostObjects, Of
  <2>3. Counting = 0
    BY <1>5, CountingIs DEF NoCall
  <2>. QED  BY <2>1, <2>2, <2>3, FS_EmptySet DEF Init, LossesBounded, Uncounted
<1>. QED  BY <1>6, <1>7, <1>8, <1>9, <1>10, <1>11 DEF IInv

\* Every step keeps the invariant.
LEMMA StepInv ==
  ASSUME IInv, ~IdleSwitched, [Next]_vars
  PROVE  IInv'
<1>1. CASE UNCHANGED vars
  <2>1. fault' \in BOOLEAN
    BY <1>1, IInvParts DEF GhostsType, vars, ghosts
  <2>. QED  BY <1>1, <2>1, IdleStep DEF vars, ghosts
<1>2. ASSUME NEW c \in Callers, NEW len \in Lens,
             \/ KmallocFromChain(c, len)
             \/ KmallocInitDesc(c, len)
             \/ KmallocInitFails(c, len)
             \/ KmallocTakePage(c, len)
             \/ KmallocTakePageFails(c, len)
      PROVE  IInv'
  BY <1>2, KmallocFromChainInv, KmallocInitDescInv, NullTakenInv, KmallocTakePageInv,
     KmallocTakePageFailsInv DEF KmallocInitFails
<1>3. ASSUME NEW c \in Callers,
             \/ KmallocCarve(c) \/ KmallocTake(c)
             \/ KmallocSearch(c) \/ KmallocSearchFails(c) \/ KmallocCount(c)
             \/ KmallocLink(c) \/ KmallocChain(c)
             \/ KmallocPop(c) \/ KmallocReturn(c)
      PROVE  IInv'
  BY <1>3, KmallocCarveInv, KmallocTakeInv, KmallocSearchInv, KmallocSearchFailsInv,
     KmallocCountInv, KmallocLinkInv, KmallocChainInv, KmallocPopInv, KmallocReturnInv
<1>. QED  BY <1>1, <1>2, <1>3, KfreeInv, KfreeListInv, CutOffInv DEF Next, Kmalloc

\* A list without repetitions has as many elements as members.
LEMMA DistinctSize ==
  ASSUME NEW S, NEW s \in Seq(S), Distinct(s)
  PROVE  IsFiniteSet(Elems(s)) /\ Cardinality(Elems(s)) = Len(s)
<1>0. Len(s) \in Nat
  OBVIOUS
<1>1. IsFiniteSet(1 .. Len(s)) /\ Cardinality(1 .. Len(s)) = Len(s)
  BY <1>0, FS_Interval
<1>2. s \in [1 .. Len(s) -> Elems(s)]
  <2>1. s = [i \in 1 .. Len(s) |-> s[i]]
    OBVIOUS
  <2>2. \A i \in 1 .. Len(s) : s[i] \in Elems(s)
    BY DEF Elems
  <2>. QED  BY <2>1, <2>2
<1>3. s \in Bijection(1 .. Len(s), Elems(s))
  BY <1>2 DEF Distinct, Bijection, Injection, Surjection, IsInjective, Elems
<1>4. ExistsBijection(1 .. Len(s), Elems(s))
  BY <1>3 DEF ExistsBijection
<1>. QED  BY <1>1, <1>4, FS_Bijection

\* The invariant contains ListsSound.
LEMMA ListsAreSound ==
  ASSUME IInv
  PROVE  ListsSound
<1>1. ListInv /\ PageInv
  BY DEF IInv
<1>2. Cardinality(Elems(Unused)) = Len(Unused)
  BY <1>1, ListLength DEF ListInv, IsList
<1>3. \A b \in Buckets : Cardinality(Elems(ChainOf(b))) = Len(ChainOf(b))
  BY <1>1, ListLength DEF ListInv, IsList
<1>4. Chained \cap Elems(Unused) = {}
  BY <1>1, ChainedSound DEF Free
<1>5. \A b \in Buckets : \A c \in Buckets \ {b} : Elems(ChainOf(b)) \cap Elems(ChainOf(c)) = {}
  BY <1>1 DEF ListInv, Of
<1>. QED  BY <1>1, <1>2, <1>3, <1>4, <1>5 DEF ListsSound, PageInv, Listed, Free

\* The invariant contains ObjectsSound.
LEMMA ObjectsAreSound ==
  ASSUME IInv
  PROVE  ObjectsSound
<1>1. /\ ListInv /\ FreeInv /\ CountInv /\ Chained \subseteq Desc
      /\ freeptr \in [Desc -> Seq(Nat)]
  BY ChainedSound DEF IInv, TypeInv, FieldsType
<1>2. ASSUME NEW b \in Buckets, NEW d \in Of(b)
      PROVE  /\ Cardinality(Elems(freeptr[d])) = Len(freeptr[d])
             /\ Elems(freeptr[d]) \subseteq (0 .. Capacity(b) - 1) \ Used(d)
             /\ refcnt[d] = Cardinality({o \in live : o.page = page[d]})
             /\ refcnt[d] > 0 \/ cut > 0 \/ \E c \in Callers : calls[c].desc = d
  <2>1. d \in Chained /\ freeptr[d] \in Seq(Nat)
    BY <1>1, ChainedIs
  <2>2. Distinct(freeptr[d]) /\ Elems(freeptr[d]) \subseteq 0 .. Capacity(b) - 1
    BY <1>1 DEF FreeInv
  <2>3. Cardinality(Elems(freeptr[d])) = Len(freeptr[d])
    BY <2>1, <2>2, DistinctSize
  <2>4. \A o \in live : o.page = page[d] => o.nr \notin Elems(freeptr[d])
    BY <1>1, <2>1 DEF FreeInv
  <2>5. Elems(freeptr[d]) \cap Used(d) = {}
    BY <2>4 DEF Used
  <2>6. /\ refcnt[d] = Cardinality(On(d))
        /\ refcnt[d] > 0 \/ cut > 0 \/ Call.desc = d
    BY <1>1, <2>1 DEF CountInv
  <2>. QED  BY <2>2, <2>3, <2>5, <2>6 DEF On, Call, Callers
<1>. QED  BY <1>2 DEF ObjectsSound, Of

\* The invariant contains HeldInUse.
LEMMA HeldAreInUse ==
  ASSUME IInv
  PROVE  HeldInUse
<1>1. PageInv /\ HeldInv /\ live \in SUBSET Objects
  BY DEF IInv, TypeInv, ObjectsType
<1>2. ASSUME NEW o \in live
      PROVE  map[o.page] = 1
  <2>1. o.len \in Lens
    BY <1>1 DEF Objects
  <2>2. PICK d \in Of(BucketFor(o.len)) : page[d] = o.page
    BY <1>1 DEF HeldInv
  <2>3. d \in Chained
    BY <2>1, Bucket, ChainedIs
  <2>. QED  BY <1>1, <2>2, <2>3 DEF PageInv, Marked
<1>. QED  BY <1>2 DEF HeldInUse

\* In every state that kmalloc() and kfree_s() reach, the lists are lists, what a
\* call has in hand is nobody else's, and all that is lost is accounted for.
THEOREM Invariant ==
  ASSUME ~IdleSwitched
  PROVE  Spec => []IInv
<1>1. Init => IInv
  BY InitInv
<1>2. IInv /\ [Next]_vars => IInv'
  BY StepInv
<1>. QED  BY <1>1, <1>2, PTL DEF Spec

\* The lists of kmalloc() and kfree_s() stay disjoint lists of descriptors of pages
\* in use, one each, also after calls that a tick has cut off in the middle.
THEOREM ListsStaySound ==
  ASSUME ~IdleSwitched
  PROVE  Spec => []ListsSound
BY Invariant, ListsAreSound, PTL

\* In a page, no object is both free and held or free twice, and the reference count
\* by which kfree_s() gives pages back counts those held.
THEOREM ObjectsStaySound ==
  ASSUME ~IdleSwitched
  PROVE  Spec => []ObjectsSound
BY Invariant, ObjectsAreSound, PTL

\* kfree_s() never gives back the page of an object that a caller still holds.
THEOREM HeldStayInUse ==
  ASSUME ~IdleSwitched
  PROVE  Spec => []HeldInUse
BY Invariant, HeldAreInUse, PTL

\* Each call that is cut off loses at most one page, descriptor, object and count,
\* each one that finds no page a descriptor, and nothing else is lost.
THEOREM LossesStayBounded ==
  ASSUME ~IdleSwitched
  PROVE  Spec => []LossesBounded
<1>1. IInv => LossesBounded
  BY DEF IInv
<1>. QED  BY <1>1, Invariant, PTL

-----------------------------------------------------------------------------
(***************************************************************************)
(* The objects are extents of memory that do not overlap.                  *)
(***************************************************************************)
\* Products grow with their factors.
LEMMA Times ==
  ASSUME NEW i \in Nat, NEW j \in Nat, NEW k \in Nat, i <= j
  PROVE  i * k \in Nat /\ j * k \in Nat /\ i * k <= j * k
<1>1. j - i \in Nat /\ (j - i) * k \in Nat
  OBVIOUS
<1>2. j * k = i * k + (j - i) * k
  OBVIOUS
<1>. QED  BY <1>1, <1>2

\* A multiple of what fits in.
LEMMA Whole ==
  ASSUME NEW n \in Nat, NEW k \in Nat \ {0}
  PROVE  n \div k \in Nat /\ (n \div k) * k <= n
<1>1. n \div k \in Nat
  OBVIOUS
<1>2. (n \div k) * k <= n
  OBVIOUS
<1>. QED  BY <1>1, <1>2

\* Objects that do not share bytes: those of one page have one size, and are
\* different ones.
Apart(L) ==
  /\ L \in SUBSET Objects
  /\ \A o \in L : o.nr < Capacity(BucketFor(o.len))
  /\ \A o, l \in L : o.page = l.page =>
       BucketFor(o.len) = BucketFor(l.len) /\ (o.nr = l.nr => o = l)

\* An object lies in its page, and its extent in the object.
LEMMA InObject ==
  ASSUME NEW o \in Objects, o.nr < Capacity(BucketFor(o.len))
  PROVE  LET size == Sizes[BucketFor(o.len)]
             start == o.page * PAGE_SIZE
             first == start + o.nr * size
         IN  /\ Extent(o) = <<first, first + o.len - 1>>
             /\ size \in Nat \ {0} /\ o.len \in Nat \ {0} /\ o.len <= size
             /\ start \in Nat /\ first \in Nat /\ o.nr \in Nat /\ o.nr * size \in Nat
             /\ o.page \in Pages /\ o.page \in Nat /\ o.len \in Lens
             /\ first + size <= (o.page + 1) * PAGE_SIZE
<1>1. o.page \in Pages /\ o.page \in Nat /\ o.nr \in Nat /\ o.len \in Lens
  BY SizesAssumption, TotalAssumption DEF Objects, Pages
<1>  DEFINE b == BucketFor(o.len)
            size == Sizes[b]
            start == o.page * PAGE_SIZE
            first == start + o.nr * size
<1>2. /\ b \in Buckets /\ o.len \in Nat \ {0} /\ PAGE_SIZE \in Nat \ {0}
      /\ size \in Nat \ {0} /\ o.len <= size
  <2>1. b \in Buckets /\ size >= o.len
    BY <1>1, Bucket
  <2>2. PAGE_SIZE \in Nat \ {0} /\ size \in 1 .. PAGE_SIZE
    BY <2>1, SizesAssumption DEF Buckets
  <2>3. o.len \in Nat \ {0}
    BY <1>1, LensAssumption
  <2>. QED  BY <2>1, <2>2, <2>3
<1>3. Capacity(b) \in Nat /\ Capacity(b) * size <= PAGE_SIZE
  BY <1>2, Whole DEF Capacity
<1>4. o.nr < Capacity(b)
  OBVIOUS
<1>5. Extent(o) = <<first, first + o.len - 1>>
  BY DEF Extent
<1>  HIDE DEF b, size
<1>6. start \in Nat /\ o.nr * size \in Nat /\ first \in Nat
  BY <1>1, <1>2
<1>7. o.nr + 1 \in Nat /\ o.nr + 1 <= Capacity(b)
  BY <1>1, <1>3, <1>4
<1>8. (o.nr + 1) * size <= Capacity(b) * size /\ Capacity(b) * size \in Nat
  BY <1>2, <1>3, <1>7, Times
<1>9. (o.nr + 1) * size = o.nr * size + size
  BY <1>1, <1>2
<1>10. (o.page + 1) * PAGE_SIZE = start + PAGE_SIZE
  BY <1>1, <1>2
<1>  HIDE DEF start
<1>11. first + size <= (o.page + 1) * PAGE_SIZE
  BY <1>2, <1>3, <1>6, <1>8, <1>9, <1>10
<1>. QED  BY <1>1, <1>2, <1>5, <1>6, <1>11 DEF b, size, start

\* Objects that are apart share no bytes.
LEMMA ExtentsApart ==
  ASSUME NEW L, Apart(L), NEW o \in L, NEW l \in L, o # l
  PROVE  ~Abstract!Overlap(Extent(o), Extent(l))
<1>  SUFFICES ASSUME NEW u \in L, NEW v \in L, u # v,
                     u.page < v.page \/ (u.page = v.page /\ u.nr < v.nr)
              PROVE  ~(Extent(v)[1] <= Extent(u)[2])
  <2>1. /\ o.page \in Int /\ l.page \in Int /\ o.nr \in Int /\ l.nr \in Int
    BY InObject DEF Apart
  <2>2. \/ o.page < l.page \/ (o.page = l.page /\ o.nr < l.nr)
        \/ l.page < o.page \/ (l.page = o.page /\ l.nr < o.nr)
    BY <2>1 DEF Apart
  <2>. QED  BY <2>2 DEF Abstract!Overlap
<1>  DEFINE m == Sizes[BucketFor(u.len)]
            n == Sizes[BucketFor(v.len)]
<1>1. /\ Extent(u)[2] = u.page * PAGE_SIZE + u.nr * m + u.len - 1
      /\ m \in Nat \ {0} /\ u.len \in Nat \ {0} /\ u.len <= m
      /\ u.page \in Nat /\ u.page * PAGE_SIZE \in Nat /\ u.nr \in Nat /\ u.nr * m \in Nat
      /\ u.page * PAGE_SIZE + u.nr * m + m <= (u.page + 1) * PAGE_SIZE
  BY InObject DEF Apart
<1>2. /\ Extent(v)[1] = v.page * PAGE_SIZE + v.nr * n
      /\ n \in Nat \ {0} /\ v.page \in Nat /\ v.page * PAGE_SIZE \in Nat /\ v.nr \in Nat
      /\ v.nr * n \in Nat
  BY InObject DEF Apart
<1>3. u.page = v.page => m = n
  BY DEF Apart
<1>  HIDE DEF m, n
<1>4. CASE u.page < v.page
  <2>1. u.page + 1 \in Nat /\ u.page + 1 <= v.page
    BY <1>1, <1>2, <1>4
  <2>2. PAGE_SIZE \in Nat
    BY SizesAssumption
  <2>3. (u.page + 1) * PAGE_SIZE <= v.page * PAGE_SIZE /\ (u.page + 1) * PAGE_SIZE \in Nat
    BY <1>2, <2>1, <2>2, Times
  <2>. QED  BY <1>1, <1>2, <2>3
<1>5. CASE u.page = v.page /\ u.nr < v.nr
  <2>1. u.nr + 1 \in Nat /\ u.nr + 1 <= v.nr
    BY <1>1, <1>2, <1>5
  <2>2. (u.nr + 1) * m <= v.nr * m
    BY <1>1, <1>2, <2>1, Times
  <2>3. (u.nr + 1) * m = u.nr * m + m
    BY <1>1
  <2>. QED  BY <1>1, <1>2, <1>3, <1>5, <2>2, <2>3
<1>. QED  BY <1>4, <1>5

\* The objects held are apart.
LEMMA LiveApart ==
  ASSUME IInv
  PROVE  Apart(live)
<1>1. ListInv /\ PageInv /\ HeldInv /\ live \in SUBSET Objects
  BY DEF IInv, TypeInv, ObjectsType
<1>2. ASSUME NEW o \in live, NEW l \in live, o.page = l.page
      PROVE  BucketFor(o.len) = BucketFor(l.len)
  <2>1. BucketFor(o.len) \in Buckets /\ BucketFor(l.len) \in Buckets
    BY <1>1, Bucket DEF Objects
  <2>2. PICK d \in Of(BucketFor(o.len)) : page[d] = o.page
    BY <1>1 DEF HeldInv
  <2>3. PICK e \in Of(BucketFor(l.len)) : page[e] = l.page
    BY <1>1 DEF HeldInv
  <2>4. d \in Chained /\ e \in Chained
    BY <2>1, <2>2, <2>3, ChainedIs
  <2>5. d = e
    BY <1>1, <1>2, <2>2, <2>3, <2>4 DEF PageInv
  <2>. QED  BY <1>1, <2>1, <2>5, ChainedSound
<1>. QED  BY <1>1, <1>2 DEF Apart, HeldInv

\* An extent is one of memory, of the length asked for.
LEMMA Inside ==
  ASSUME NEW L, Apart(L), NEW o \in L
  PROVE  /\ Extent(o)[1] \in 0 .. pages_total * PAGE_SIZE - 1
         /\ Extent(o)[2] \in 0 .. pages_total * PAGE_SIZE - 1
         /\ Extent(o) = <<Extent(o)[1], Extent(o)[2]>>
         /\ Extent(o)[2] - Extent(o)[1] + 1 = o.len
         /\ Extent(o)[1] <= Extent(o)[2] /\ o.len \in Lens
<1>  DEFINE size == Sizes[BucketFor(o.len)]
            first == o.page * PAGE_SIZE + o.nr * size
<1>1. /\ Extent(o) = <<first, first + o.len - 1>>
      /\ size \in Nat \ {0} /\ o.len \in Nat \ {0} /\ o.len <= size
      /\ first \in Nat /\ o.page \in Pages /\ o.page \in Nat /\ o.len \in Lens
      /\ first + size <= (o.page + 1) * PAGE_SIZE
  BY InObject DEF Apart
<1>  HIDE DEF size, first
<1>2. o.page + 1 \in Nat /\ o.page + 1 <= pages_total /\ PAGE_SIZE \in Nat
  <2>1. PAGE_SIZE \in Nat
    BY SizesAssumption
  <2>2. pages_total \in Nat /\ o.page \in 0 .. pages_total - 1
    BY <1>1, TotalAssumption DEF Pages
  <2>. QED  BY <2>1, <2>2
<1>3. /\ (o.page + 1) * PAGE_SIZE <= pages_total * PAGE_SIZE
      /\ (o.page + 1) * PAGE_SIZE \in Nat /\ pages_total * PAGE_SIZE \in Nat
  BY <1>2, Times, TotalAssumption
<1>. QED  BY <1>1, <1>3

\* An object more or less is an extent more or less.
LEMMA HeapStep ==
  ASSUME Apart(live), Apart(live'),
         \/ UNCHANGED live
         \/ \E o \in Objects : live' = live \cup {o}
         \/ \E o \in live : live' = live \ {o}
  PROVE  [Abstract!HeapAlloc \/ Abstract!HeapFree]_{Extent(o) : o \in live}
<1>  DEFINE E == {Extent(o) : o \in live}
            F == {Extent(o) : o \in live'}
<1>1. CASE UNCHANGED live
  BY <1>1
<1>2. ASSUME NEW o \in Objects, live' = live \cup {o}, o \notin live
      PROVE  Abstract!HeapAlloc
  <2>1. /\ Extent(o)[1] \in 0 .. pages_total * PAGE_SIZE - 1
        /\ Extent(o)[2] \in 0 .. pages_total * PAGE_SIZE - 1
        /\ Extent(o) = <<Extent(o)[1], Extent(o)[2]>>
        /\ Extent(o)[2] - Extent(o)[1] + 1 = o.len /\ o.len \in Lens
    BY <1>2, Inside
  <2>2. \A l \in live : ~Abstract!Overlap(Extent(l), Extent(o))
    BY <1>2, ExtentsApart
  <2>3. F = E \cup {<<Extent(o)[1], Extent(o)[2]>>}
    BY <1>2, <2>1
  <2>. QED  BY <2>1, <2>2, <2>3 DEF Abstract!HeapAlloc
<1>3. ASSUME NEW o \in live, live' = live \ {o}
      PROVE  Abstract!HeapFree
  <2>1. ASSUME NEW l \in live, l # o
        PROVE  Extent(l) # Extent(o)
    <3>1. ~Abstract!Overlap(Extent(l), Extent(o))
      BY <2>1, ExtentsApart
    <3>2. Extent(o)[1] <= Extent(o)[2]
      BY Inside
    <3>. QED  BY <3>1, <3>2 DEF Abstract!Overlap
  <2>2. F = E \ {Extent(o)}
    BY <1>3, <2>1
  <2>. QED  BY <2>2 DEF Abstract!HeapFree
<1>. QED  BY <1>1, <1>2, <1>3

\* A step gives one object to a caller, takes one back, or neither.
LEMMA LiveSteps ==
  ASSUME IInv, IInv', [Next]_vars
  PROVE  \/ UNCHANGED live
         \/ \E o \in Objects : live' = live \cup {o}
         \/ \E o \in live : live' = live \ {o}
<1>0. live' \in SUBSET Objects
  BY DEF IInv, TypeInv, ObjectsType
<1>1. CASE UNCHANGED vars
  BY <1>1 DEF vars
<1>2. ASSUME NEW c \in Callers, Kmalloc(c)
      PROVE  UNCHANGED live \/ \E o : live' = live \cup {o}
  BY <1>2 DEF Kmalloc, KmallocFromChain, KmallocInitDesc, KmallocInitFails, NullTaken,
     KmallocTakePage, KmallocTakePageFails, NoPageFor, KmallocCarve, KmallocTake,
     KmallocSearch, KmallocSearchFails, KmallocCount, KmallocLink, KmallocChain,
     KmallocPop, KmallocReturn
<1>3. ASSUME NEW o \in live, Kfree(o)
      PROVE  live' = live \ {o}
  BY <1>3 DEF Kfree
<1>4. CASE KfreeList \/ CutOff
  BY <1>4 DEF KfreeList, CutOff
<1>. QED  BY <1>0, <1>1, <1>2, <1>3, <1>4 DEF Next

\* kmalloc() and kfree_s() implement Heap: the bytes they hand out lie in memory,
\* are as many as asked for and overlap no others, until they are freed.
THEOREM HeapKept ==
  ASSUME ~IdleSwitched
  PROVE  Spec => HeapSpec
<1>1. Init => Abstract!HeapInit
  BY DEF Init, Abstract!HeapInit
<1>2. IInv => Apart(live)
  BY LiveApart
<1>3. /\ IInv /\ IInv' /\ Apart(live) /\ Apart(live)' /\ [Next]_vars
      => [Abstract!HeapAlloc \/ Abstract!HeapFree]_{Extent(o) : o \in live}
  BY LiveSteps, HeapStep
<1>. QED  BY <1>1, <1>2, <1>3, Invariant, PTL DEF Spec, HeapSpec, Abstract!HeapSpec

-----------------------------------------------------------------------------
(***************************************************************************)
(* The pages.                                                              *)
(***************************************************************************)
PageStep ==
  [cut' = 0 => PagesOfHeap!Next]_<<map, bitmap_item_used + Counting>>

\* A step that touches no page is a stutter of the page allocator.
LEMMA PagesKept ==
  ASSUME UNCHANGED pages, calls["idle"] = NoCall, calls'["idle"] = NoCall,
         Call'.at = "count" <=> Call.at = "count"
  PROVE  PageStep
<1>1. Counting' = Counting
  BY CountingIs
<1>. QED  BY <1>1 DEF PageStep, pages

\* get_free_page(), whole or up to the count, is a step of it.
LEMMA PageGot ==
  ASSUME calls["idle"] = NoCall, calls'["idle"] = NoCall, map \in [Pages -> {0, 1}],
         NEW p \in Pages, FirstFree(p), map' = [map EXCEPT ![p] = 1],
         bitmap_item_used \in Int, Call.at # "count",
         bitmap_item_used' = IF Call'.at = "count" THEN bitmap_item_used
                             ELSE bitmap_item_used + 1
  PROVE  PageStep
<1>1. Counting = 0 /\ Counting' = IF Call'.at = "count" THEN 1 ELSE 0
  BY CountingIs
<1>2. bitmap_item_used + Counting = bitmap_item_used
  BY <1>1
<1>3. (bitmap_item_used + Counting)' = bitmap_item_used + 1
  BY <1>1
<1>4. Marked' = Marked \cup {p}
  BY DEF Marked
<1>5. PagesOfHeap!Candidates = Candidates
  BY <1>2 DEF PagesOfHeap!Candidates, PagesOfHeap!Pages, Candidates, Pages
<1>6. PagesOfHeap!get_free_page
  BY <1>2, <1>3, <1>4, <1>5 DEF PagesOfHeap!get_free_page, FirstFree
<1>. QED  BY <1>6 DEF PageStep, PagesOfHeap!Next

\* free_page() of a marked page is a step of it.
LEMMA PageFreed ==
  ASSUME calls["idle"] = NoCall, calls'["idle"] = NoCall, map \in [Pages -> {0, 1}],
         NEW p \in Marked, free_page(p), bitmap_item_used \in Int,
         Call.at # "count", Call'.at # "count"
  PROVE  PageStep
<1>1. Counting = 0 /\ Counting' = 0
  BY CountingIs
<1>2. bitmap_item_used + Counting = bitmap_item_used
  BY <1>1
<1>3. (bitmap_item_used + Counting)' = bitmap_item_used - 1
  BY <1>1 DEF free_page
<1>4. Marked' = Marked \ {p}
  BY DEF Marked, free_page
<1>5. ~(p > pages_total)
  BY TotalAssumption DEF Marked, Pages
<1>6. PagesOfHeap!free_page(p)
  BY <1>2, <1>3, <1>4, <1>5 DEF PagesOfHeap!free_page, free_page
<1>. QED  BY <1>6 DEF PageStep, PagesOfHeap!Next, PagesOfHeap!FreeHeld

\* Every step is one of the page allocator or a stutter, unless a call has been
\* cut off.
LEMMA PagesMapped ==
  ASSUME IInv, IInv', ~IdleSwitched, [Next]_vars
  PROVE  PageStep
<1>0. /\ TypeInv /\ HandInv /\ PageInv /\ ListInv
      /\ calls["idle"] = NoCall /\ calls'["idle"] = NoCall /\ NoCall.at = "none"
      /\ map \in [Pages -> {0, 1}] /\ bitmap_item_used \in Int
      /\ calls \in [Callers -> CallType]
  BY DEF IInv, HandInv, TypeInv, PagesType, CallsType, NoCall
<1>1. CASE UNCHANGED vars
  BY <1>0, <1>1, PagesKept DEF vars, Call
<1>2. CASE fault' = TRUE /\ NullTaken
  BY <1>0, <1>2, PagesKept DEF NullTaken, Call
<1>3. ASSUME NEW c \in Callers, NEW len \in Lens, KmallocFromChain(c, len)
      PROVE  PageStep
  BY <1>0, <1>3, PagesKept DEF KmallocFromChain, Call
<1>4. ASSUME NEW c \in Callers, NEW len \in Lens,
             KmallocInitDesc(c, len) \/ KmallocTakePage(c, len)
      PROVE  PageStep
  <2>1. c = "task" /\ Call = NoCall
    BY <1>0, <1>4, OneCall DEF KmallocInitDesc, KmallocTakePage, NeedsPage
  <2>2. PICK p \in Pages :
          /\ get_free_page(p)
          /\ \/ calls' = [calls EXCEPT ![c] = [NoCall EXCEPT !.at = "carve", !.len = len,
                                                            !.page = p]]
             \/ calls' = [calls EXCEPT ![c] = [NoCall EXCEPT !.at = "link", !.len = len,
                                                      !.desc = free_bucket_desc,
                                                      !.page = p]]
    BY <1>4 DEF KmallocInitDesc, KmallocTakePage
  <2>3. Call'.at \in {"carve", "link"}
    BY <1>0, <2>1, <2>2 DEF Call, Callers, NoCall
  <2>. QED  BY <1>0, <2>1, <2>2, <2>3, PageGot DEF get_free_page
<1>5. ASSUME NEW c \in Callers, NEW len \in Lens, KmallocTakePageFails(c, len)
      PROVE  PageStep
  BY <1>0, <1>5, PagesKept DEF KmallocTakePageFails, NoPageFor, Call
<1>6. ASSUME NEW c \in Callers,
             \/ KmallocCarve(c) \/ KmallocTake(c) \/ KmallocSearchFails(c)
             \/ KmallocLink(c) \/ KmallocChain(c) \/ KmallocPop(c) \/ KmallocReturn(c)
      PROVE  PageStep
  <2>1. \E place \in {"carve", "take", "search", "link", "chain", "pop", "return"} :
          At(c, place)
    BY <1>6
       DEF KmallocCarve, KmallocTake, KmallocSearchFails, KmallocLink, KmallocChain,
       KmallocPop, KmallocReturn
  <2>2. c = "task" /\ Call.at # "count"
    BY <1>0, <2>1, OneCall DEF Places
  <2>3. UNCHANGED pages
    BY <1>6
       DEF KmallocCarve, KmallocTake, KmallocSearchFails, KmallocLink, KmallocChain,
       KmallocPop, KmallocReturn, NoPageFor, NullTaken
  <2>4. \/ UNCHANGED calls
        \/ calls' = [calls EXCEPT ![c] = NoCall]
        \/ \E place \in {"take", "chain", "pop"} : Goes(c, place)
        \/ \E d : calls' = [calls EXCEPT ![c] = [@ EXCEPT !.at = "search", !.desc = d]]
        \/ \E n : calls' = [calls EXCEPT ![c] = [@ EXCEPT !.at = "return", !.nr = n]]
    BY <1>6
       DEF KmallocCarve, KmallocTake, KmallocSearchFails, KmallocLink, KmallocChain,
       KmallocPop, KmallocReturn, NullTaken
  <2>5. Call'.at # "count"
    <3>0. calls \in [Callers -> CallType] /\ c \in Callers
      BY <1>0
    <3>1. CASE UNCHANGED calls
      BY <2>2, <3>1 DEF Call
    <3>2. CASE calls' = [calls EXCEPT ![c] = NoCall]
      BY <2>2, <3>0, <3>2 DEF Call, NoCall
    <3>3. CASE \E place \in {"take", "chain", "pop"} : Goes(c, place)
      BY <2>2, <3>0, <3>3 DEF Goes, Call, CallType
    <3>4. CASE \E d : calls' = [calls EXCEPT ![c] = [@ EXCEPT !.at = "search", !.desc = d]]
      BY <2>2, <3>0, <3>4 DEF Call, CallType
    <3>5. CASE \E n : calls' = [calls EXCEPT ![c] = [@ EXCEPT !.at = "return", !.nr = n]]
      BY <2>2, <3>0, <3>5 DEF Call, CallType
    <3>. QED  BY <2>4, <3>1, <3>2, <3>3, <3>4, <3>5
  <2>. QED  BY <1>0, <2>2, <2>3, <2>5, PagesKept
<1>7. ASSUME NEW c \in Callers, KmallocSearch(c)
      PROVE  PageStep
  <2>1. c = "task" /\ Call.at = "search"
    BY <1>0, <1>7, OneCall DEF KmallocSearch, Places
  <2>2. PICK p \in Pages :
          /\ FirstFree(p) /\ map' = [map EXCEPT ![p] = 1]
          /\ calls' = [calls EXCEPT ![c] = [@ EXCEPT !.at = "count", !.page = p]]
    BY <1>7 DEF KmallocSearch
  <2>3. Call'.at = "count"
    BY <1>0, <2>1, <2>2 DEF Call, Callers, CallType
  <2>4. UNCHANGED bitmap_item_used
    BY <1>7 DEF KmallocSearch
  <2>. QED  BY <1>0, <2>1, <2>2, <2>3, <2>4, PageGot
<1>8. ASSUME NEW c \in Callers, KmallocCount(c)
      PROVE  PageStep
  <2>1. c = "task" /\ Call.at = "count"
    BY <1>0, <1>8, OneCall DEF KmallocCount, Places
  <2>2. Call'.at = "link"
    BY <1>0, <1>8, <2>1 DEF KmallocCount, Goes, Call, Callers, CallType
  <2>3. Counting = 1 /\ Counting' = 0
    BY <1>0, <2>1, <2>2, CountingIs
  <2>4. bitmap_item_used' = bitmap_item_used + 1 /\ UNCHANGED map
    BY <1>8 DEF KmallocCount
  <2>5. bitmap_item_used' + Counting' = bitmap_item_used + Counting
    BY <1>0, <2>3, <2>4
  <2>. QED  BY <2>4, <2>5 DEF PageStep
<1>9. ASSUME NEW o \in live, Kfree(o)
      PROVE  PageStep
  <2>1. Call = NoCall
    BY <1>9 DEF Kfree, MayCall, Call
  <2>2. CASE UNCHANGED <<pages, calls>>
    BY <1>0, <2>2, PagesKept DEF Call
  <2>3. CASE \E f \in Found(o) :
               /\ free_page(page[f[2]])
               /\ calls' = [calls EXCEPT !["task"] = [NoCall EXCEPT !.at = "list",
                                                                   !.desc = f[2]]]
    <3>1. PICK f \in Found(o) :
               /\ free_page(page[f[2]])
               /\ calls' = [calls EXCEPT !["task"] = [NoCall EXCEPT !.at = "list",
                                                                   !.desc = f[2]]]
      BY <2>3
    <3>2. f[2] \in Chained
      BY ChainedIs DEF Found, Of
    <3>3. page[f[2]] \in Marked
      BY <1>0, <3>2 DEF PageInv
    <3>4. Call'.at = "list"
      BY <1>0, <3>1 DEF Call, Callers, NoCall
    <3>. QED  BY <1>0, <2>1, <3>1, <3>3, <3>4, PageFreed
  <2>. QED  BY <1>9, <2>2, <2>3 DEF Kfree
<1>10. CASE KfreeList
  <2>1. UNCHANGED pages /\ Call.at = "list" /\ calls' = [calls EXCEPT !["task"] = NoCall]
    BY <1>10 DEF KfreeList, At, Call
  <2>2. Call'.at = "none"
    BY <1>0, <2>1 DEF Call, Callers
  <2>. QED  BY <1>0, <2>1, <2>2, PagesKept
<1>11. CASE CutOff
  <2>1. cut \in Nat /\ cut' = cut + 1
    BY <1>11 DEF CutOff, IInv, TypeInv, GhostsType
  <2>. QED  BY <2>1 DEF PageStep
<1>. QED  BY <1>1, <1>2, <1>3, <1>4, <1>5, <1>6, <1>7, <1>8, <1>9, <1>10, <1>11
     DEF Next, Kmalloc, KmallocInitFails, NullTaken

\* Until a call is cut off, the heap uses the page allocator as PageAlloc expects: it
\* frees only pages that it has got, and get_free_page() in two steps is one of its
\* steps.
THEOREM PagesUsed ==
  ASSUME ~IdleSwitched
  PROVE  Spec => PageSpec
<1>1. Init => PagesOfHeap!Init
  <2>  SUFFICES ASSUME Init
                PROVE  PagesOfHeap!Init
    OBVIOUS
  <2>1. Counting = 0
    BY CountingIs DEF Init, Callers, Call, NoCall
  <2>2. bitmap_item_used + Counting = 0
    BY <2>1 DEF Init
  <2>3. Marked = {}
    BY DEF Init, Marked
  <2>4. map = [i \in Pages |-> 0]
    BY DEF Init
  <2>. QED  BY <2>2, <2>3, <2>4 DEF PagesOfHeap!Init, PagesOfHeap!Pages, Pages
<1>2. IInv /\ IInv' /\ [Next]_vars => PageStep
  BY PagesMapped
<1>3. PageStep => [cut' = 0 => PagesOfHeap!Next]_<<map, bitmap_item_used + Counting>>
  BY DEF PageStep
<1>. QED  BY <1>1, <1>2, <1>3, Invariant, PTL DEF Spec, PageSpec
=============================================================================
