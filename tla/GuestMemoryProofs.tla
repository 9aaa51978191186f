------------------------ MODULE GuestMemoryProofs ------------------------
(***************************************************************************)
(* Proofs about GuestMemory, for every page size, arena size and word      *)
(* width that satisfy its assumptions.  The inductive invariant is         *)
(*                                                                         *)
(*   IInv == TypeOK, AreasDisjoint, AreasInArena and OwnedIsReserved       *)
(*                                                                         *)
(* Everything rests on Placement: from IInv, getMmapAddress returns an     *)
(* aligned address whose range overlaps no reserved area.                  *)
(***************************************************************************)
EXTENDS GuestMemory, WellFoundedInduction, TLAPS

\* The inductive invariant behind the safety properties of the address space.
IInv ==
    /\ TypeOK
    /\ AreasDisjoint
    /\ AreasInArena
    /\ OwnedIsReserved

-----------------------------------------------------------------------------
\* A nonempty set of naturals has a least element.
LEMMA LeastNat ==
    ASSUME NEW S \in SUBSET Nat, S # {}
    PROVE  \E n \in S : \A m \in S : n <= m
<1> DEFINE R == {ss \in Nat \X Nat : ss[1] < ss[2]}
<1>1. IsWellFoundedOn(R, Nat)
  BY NatLessThanWellFounded, Zenon DEF OpToRel
<1>2. PICK x \in S : \A y \in S : ~ (<<y, x>> \in R)
  <2> HIDE DEF R
  <2> QED
    BY <1>1, WFMin, Zenon
<1>3. ASSUME NEW y \in S PROVE x <= y
  <2>1. x \in Nat /\ y \in Nat
    OBVIOUS
  <2>2. y < x => <<y, x>> \in R
    BY <2>1
  <2>3. ~ (y < x)
    BY <1>2, <2>2
  <2> HIDE DEF R
  <2>4. QED
    BY <2>1, <2>3
<1>4. QED
  BY <1>3

\* Products with a page size keep the order of their factors.
LEMMA PageOrder ==
    ASSUME NEW P \in Nat \ {0}, NEW k \in Int, NEW m \in Int, k * P < m * P + P
    PROVE  k * P <= m * P
<1>1. k <= m
  OBVIOUS
<1>2. QED
  BY <1>1

\* An aligned address is a multiple of the page size, and conversely.
LEMMA AlignedIsMultiple ==
    /\ \A a \in Nat : Aligned(a) => a = (a \div PageSize) * PageSize /\ a \div PageSize \in Nat
    /\ \A k \in Nat : Aligned(k * PageSize)
BY SizesAssumption DEF Aligned

\* pageAlignAddress rounds up to the next page and never skips an aligned one.
LEMMA PageAlign ==
    ASSUME NEW a \in Nat
    PROVE  /\ pageAlignAddress(a) \in Nat
           /\ a <= pageAlignAddress(a)
           /\ pageAlignAddress(a) < a + PageSize
           /\ Aligned(pageAlignAddress(a))
           /\ \A z \in Nat : Aligned(z) /\ a <= z => pageAlignAddress(a) <= z
<1> DEFINE q == (a + (PageSize - 1)) \div PageSize
<1>1. PageSize \in Nat \ {0}
  BY SizesAssumption
<1>2. /\ q \in Nat
      /\ q * PageSize <= a + (PageSize - 1)
      /\ a + (PageSize - 1) < q * PageSize + PageSize
  BY <1>1, SMT
<1>3. pageAlignAddress(a) = q * PageSize
  BY DEF pageAlignAddress
<1>4. q * PageSize \in Nat
  BY <1>1, <1>2
<1>5. Aligned(q * PageSize)
  BY <1>2, AlignedIsMultiple
<1>6. ASSUME NEW z \in Nat, Aligned(z), a <= z
      PROVE  q * PageSize <= z
  <2> DEFINE k == z \div PageSize
  <2>1. z = k * PageSize /\ k \in Nat
    BY <1>6, AlignedIsMultiple
  <2> HIDE DEF q, k
  <2>2. q * PageSize < z + PageSize
    BY <1>1, <1>2, <1>4, <1>6
  <2>3. q * PageSize < k * PageSize + PageSize
    BY <2>1, <2>2
  <2>4. q \in Int /\ k \in Int
    BY <1>2, <2>1
  <2>5. q * PageSize <= k * PageSize
    BY <1>1, <2>3, <2>4, PageOrder
  <2>6. QED
    BY <2>1, <2>5
<1> HIDE DEF q
<1>7. QED
  BY <1>1, <1>2, <1>3, <1>4, <1>5, <1>6

\* The end of the arena is page aligned.
LEMMA ArenaAligned == ArenaEnd \in Nat /\ Aligned(ArenaEnd) /\ DataSize < ArenaEnd
<1>1. PageSize \in Nat \ {0} /\ DataSize \in Nat /\ MmapSize \in Nat \ {0}
  BY SizesAssumption
<1> DEFINE d == DataSize \div PageSize
           m == MmapSize \div PageSize
<1>2. DataSize = d * PageSize /\ d \in Nat
  BY SizesAssumption, AlignedIsMultiple
<1>3. MmapSize = m * PageSize /\ m \in Nat
  BY SizesAssumption, AlignedIsMultiple
<1> HIDE DEF d, m
<1>4. DataSize + MmapSize = (d + m) * PageSize /\ d + m \in Nat
  BY <1>1, <1>2, <1>3
<1>5. Aligned(DataSize + MmapSize)
  BY <1>4, AlignedIsMultiple
<1>6. QED
  BY <1>1, <1>5 DEF ArenaEnd

\* The end of an area of the arena: no wrap-around, and exact page rounding.
LEMMA AreaEnd ==
    ASSUME NEW base \in Nat, base <= ArenaEnd, NEW size \in 1 .. MaxLen,
           NEW e, e = EndOf([base |-> base, size |-> size])
    PROVE  /\ e \in Nat
           /\ e < WordMod
           /\ e = pageAlignAddress(base + size)
           /\ base + size <= e
           /\ Aligned(e)
<1>1. /\ ArenaEnd \in Nat /\ MaxLen \in Nat /\ WordMod \in Nat /\ PageSize \in Nat \ {0}
      /\ base + size \in Nat
      /\ base + size < WordMod
      /\ base + size + PageSize <= WordMod
  BY ArenaAligned, WidthAssumption, SizesAssumption
<1>2. (base + size) % WordMod = base + size
  BY <1>1
<1>3. pageAlignAddress(base + size) \in 0 .. WordMod - 1
  BY <1>1, PageAlign
<1>4. pageAlignAddress(base + size) % WordMod = pageAlignAddress(base + size)
  BY <1>1, <1>3
<1>5. EndOf([base |-> base, size |-> size]) = pageAlignAddress(base + size)
  BY <1>2, <1>4 DEF EndOf
<1>6. QED
  BY <1>1, <1>3, <1>5, PageAlign

\* No aligned address lies between the last byte of an area and its end.
LEMMA AreaEndLeast ==
    ASSUME NEW base \in Nat, base <= ArenaEnd, NEW size \in 1 .. MaxLen,
           NEW z \in Nat, Aligned(z), base + size <= z
    PROVE  EndOf([base |-> base, size |-> size]) <= z
<1>1. EndOf([base |-> base, size |-> size]) = pageAlignAddress(base + size)
  BY AreaEnd, Zenon
<1>2. base + size \in Nat
  BY WidthAssumption
<1>3. QED
  BY <1>1, <1>2, PageAlign

-----------------------------------------------------------------------------
\* What AreaEnd says of the areas a well-typed state holds.
LEMMA AreaFacts ==
    ASSUME TypeOK, NEW a \in mappedAreas
    PROVE  /\ a.base \in Nat /\ a.size \in 1 .. MaxLen
           /\ a.base < ArenaEnd
           /\ EndOf(a) \in Nat
           /\ EndOf(a) < WordMod
           /\ a.base < EndOf(a)
           /\ Aligned(EndOf(a))
<1>1. a \in Area
  BY DEF TypeOK
<1>2. /\ a.base \in DataSize .. ArenaEnd - 1 /\ a.size \in 1 .. MaxLen
      /\ a = [base |-> a.base, size |-> a.size]
  BY <1>1 DEF Area
<1>3. a.base \in Nat /\ a.base < ArenaEnd /\ a.base <= ArenaEnd
  BY <1>2, ArenaAligned, SizesAssumption, WidthAssumption
<1>4. EndOf(a) = EndOf([base |-> a.base, size |-> a.size])
  BY <1>2
<1>5. /\ EndOf(a) \in Nat
      /\ EndOf(a) < WordMod
      /\ a.base + a.size <= EndOf(a)
      /\ Aligned(EndOf(a))
  BY <1>2, <1>3, <1>4, AreaEnd, Zenon
<1>6. QED
  BY <1>2, <1>3, <1>5, WidthAssumption

\* Among the areas with a property that can be told from their bases there is a
\* lowest one (areas are disjoint, so a base identifies its area).
LEMMA LowestArea ==
    ASSUME TypeOK, NEW S \in SUBSET mappedAreas, S # {}
    PROVE  \E a \in S : \A c \in S : a.base <= c.base
<1> DEFINE B == {a.base : a \in S}
<1>1. B \in SUBSET Nat /\ B # {}
  BY AreaFacts
<1>2. PICK n \in B : \A m \in B : n <= m
  <2> HIDE DEF B
  <2> QED
    BY <1>1, LeastNat
<1>3. PICK a \in S : a.base = n
  BY <1>2
<1>4. QED
  BY <1>2, <1>3

\* A nonempty vector has a last area.
LEMMA HighestArea ==
    ASSUME TypeOK, mappedAreas # {}
    PROVE  \E a \in mappedAreas : \A c \in mappedAreas : c.base <= a.base
<1> DEFINE B == {ArenaEnd - a.base : a \in mappedAreas}
<1>1. B \in SUBSET Nat /\ B # {}
  BY AreaFacts, ArenaAligned
<1>2. PICK n \in B : \A m \in B : n <= m
  <2> HIDE DEF B
  <2> QED
    BY <1>1, LeastNat
<1>3. PICK a \in mappedAreas : ArenaEnd - a.base = n
  BY <1>2
<1>4. ASSUME NEW c \in mappedAreas PROVE c.base <= a.base
  <2>1. ArenaEnd - c.base \in B
    OBVIOUS
  <2>2. ArenaEnd - a.base <= ArenaEnd - c.base
    BY <1>2, <1>3, <2>1
  <2> HIDE DEF B
  <2>3. a.base \in Nat /\ c.base \in Nat /\ ArenaEnd \in Nat
    BY AreaFacts, ArenaAligned
  <2>4. QED
    BY <2>2, <2>3
<1>5. QED
  BY <1>4

-----------------------------------------------------------------------------
\* The loop of getMmapAddress stops at some area of a nonempty vector, and the
\* address it returns is the end of that area.
LEMMA StopsSomewhere ==
    ASSUME TypeOK, mappedAreas # {}, NEW len
    PROVE  \E a \in mappedAreas :
               /\ StopsAt(a, len)
               /\ getMmapAddress(len) = EndOf(a)
               /\ \A c \in mappedAreas : StopsAt(c, len) => a.base <= c.base
<1> DEFINE S == {a \in mappedAreas : StopsAt(a, len)}
           P(a) == /\ StopsAt(a, len)
                   /\ \A c \in mappedAreas : StopsAt(c, len) => a.base <= c.base
<1>1. PICK top \in mappedAreas : \A c \in mappedAreas : c.base <= top.base
  BY HighestArea
<1>2. \A b \in mappedAreas : ~ Follows(top, b)
  BY <1>1, AreaFacts DEF Follows
<1>3. StopsAt(top, len)
  BY <1>2 DEF StopsAt
<1>4. \E a \in S : \A c \in S : a.base <= c.base
  <2>1. S \in SUBSET mappedAreas /\ S # {}
    BY <1>3
  <2> HIDE DEF S
  <2>2. QED
    BY <2>1, LowestArea
<1>5. \E a \in mappedAreas : P(a)
  BY <1>4
<1> DEFINE first == CHOOSE a \in mappedAreas : P(a)
<1>6. first \in mappedAreas /\ P(first)
  <2> HIDE DEF P
  <2> QED
    BY <1>5
<1>7. getMmapAddress(len) = EndOf(first)
  BY DEF getMmapAddress
<1>8. QED
  BY <1>6, <1>7

\* The heart of the argument: the range behind the area the loop stops at
\* overlaps no reserved area.
LEMMA Placement ==
    ASSUME TypeOK, AreasDisjoint, AreasInArena, NEW len \in 1 .. MaxLen
    PROVE  /\ getMmapAddress(len) \in Nat
           /\ DataSize <= getMmapAddress(len)
           /\ getMmapAddress(len) <= ArenaEnd
           /\ Aligned(getMmapAddress(len))
           /\ \A c \in mappedAreas : EndOf(c) <= getMmapAddress(len)
                                     \/ getMmapAddress(len) + len <= c.base
<1>0. DataSize \in Nat /\ MaxLen \in Nat /\ len \in Nat /\ ArenaEnd \in Nat /\ WordMod \in Nat
  BY SizesAssumption, WidthAssumption, ArenaAligned
<1>1. CASE mappedAreas = {}
  <2>1. getMmapAddress(len) = pageAlignAddress(DataSize)
    BY <1>1 DEF getMmapAddress
  <2>2. /\ pageAlignAddress(DataSize) \in Nat
        /\ DataSize <= pageAlignAddress(DataSize)
        /\ Aligned(pageAlignAddress(DataSize))
        /\ pageAlignAddress(DataSize) <= DataSize
    BY <1>0, SizesAssumption, PageAlign
  <2>3. QED
    BY <1>0, <1>1, <2>1, <2>2, ArenaAligned
<1>2. CASE mappedAreas # {}
  <2>1. PICK a \in mappedAreas : StopsAt(a, len) /\ getMmapAddress(len) = EndOf(a)
    BY <1>2, StopsSomewhere
  <2>2. /\ a.base \in Nat /\ EndOf(a) \in Nat /\ a.base < EndOf(a)
        /\ Aligned(EndOf(a)) /\ EndOf(a) < WordMod
    BY AreaFacts
  <2>3. DataSize <= a.base /\ EndOf(a) <= ArenaEnd
    BY DEF AreasInArena
  <2>4. ASSUME NEW c \in mappedAreas
        PROVE  EndOf(c) <= EndOf(a) \/ EndOf(a) + len <= c.base
    <3>1. /\ c.base \in Nat /\ EndOf(c) \in Nat /\ c.base < EndOf(c)
      BY AreaFacts
    <3>2. CASE c = a
      BY <3>2, <2>2
    <3>3. CASE c # a /\ c.base <= a.base
      <4>1. EndOf(c) <= a.base \/ EndOf(a) <= c.base
        BY <3>3 DEF AreasDisjoint
      <4>2. QED
        BY <3>1, <3>3, <4>1, <2>2
    <3>4. CASE c.base > a.base
      <4> DEFINE above == {b \in mappedAreas : b.base > a.base}
      <4>1. PICK b \in above : \A d \in above : b.base <= d.base
        <5>1. above \in SUBSET mappedAreas /\ above # {}
          BY <3>4
        <5> HIDE DEF above
        <5>2. QED
          BY <5>1, LowestArea
      <4>2. Follows(a, b)
        BY <4>1 DEF Follows
      <4>3. b \in mappedAreas /\ b.base \in Nat /\ EndOf(b) \in Nat /\ b.base < EndOf(b)
        BY <4>1, AreaFacts
      <4>4. b.base < WordMod
        BY <4>3, <1>0, AreaFacts
      <4>5. EndOf(a) <= b.base
        <5>1. EndOf(a) <= b.base \/ EndOf(b) <= a.base
          BY <4>1, <2>2 DEF AreasDisjoint
        <5>2. b.base > a.base
          BY <4>1
        <5>3. QED
          BY <5>1, <5>2, <4>3, <2>2
      <4>6. (b.base - EndOf(a)) % WordMod >= len
        BY <2>1, <4>2, <4>3 DEF StopsAt
      <4>7. (b.base - EndOf(a)) % WordMod = b.base - EndOf(a)
        BY <1>0, <2>2, <4>3, <4>4, <4>5
      <4>8. EndOf(a) + len <= b.base
        BY <1>0, <2>2, <4>3, <4>6, <4>7
      <4>9. b.base <= c.base
        BY <3>4, <4>1
      <4>10. QED
        BY <1>0, <2>2, <3>1, <4>3, <4>8, <4>9
    <3>5. QED
      BY <2>2, <3>1, <3>2, <3>3, <3>4
  <2>5. QED
    BY <1>0, <2>1, <2>2, <2>3, <2>4
<1>3. QED
  BY <1>1, <1>2

-----------------------------------------------------------------------------
\* A granted free placement keeps the invariant.
LEMMA MmapFreeStep ==
    ASSUME IInv, NEW len \in Lens, MmapFree(len)
    PROVE  IInv'
<1> DEFINE g == getMmapAddress(len)
           n == [base |-> g, size |-> len]
<1>1. TypeOK /\ AreasDisjoint /\ AreasInArena /\ OwnedIsReserved
  BY DEF IInv
<1>2. len \in 1 .. MaxLen /\ len \in Nat /\ MaxLen \in Nat /\ WordMod \in Nat
  BY WidthAssumption DEF MmapFree, HostMayGrant
<1>3. /\ g \in Nat /\ DataSize <= g /\ g <= ArenaEnd /\ Aligned(g)
      /\ \A c \in mappedAreas : EndOf(c) <= g \/ g + len <= c.base
  BY <1>1, <1>2, Placement
<1>4. /\ ArenaEnd \in Nat /\ DataSize \in Nat /\ PageSize \in Nat \ {0}
      /\ Aligned(ArenaEnd) /\ g + len < WordMod
      /\ (g + len) % WordMod = g + len
  <2>1. ArenaEnd \in Nat /\ DataSize \in Nat /\ PageSize \in Nat \ {0} /\ Aligned(ArenaEnd)
    BY ArenaAligned, SizesAssumption
  <2> HIDE DEF g
  <2>2. g + len < WordMod
    BY <1>2, <1>3, <2>1, WidthAssumption
  <2>3. QED
    BY <1>2, <1>3, <2>1, <2>2
<1>5. /\ EndOf(n) \in Nat /\ g + len <= EndOf(n)
      /\ \A z \in Nat : Aligned(z) /\ g + len <= z => EndOf(n) <= z
  <2> HIDE DEF g
  <2>1. EndOf(n) \in Nat /\ g + len <= EndOf(n)
    BY <1>2, <1>3, AreaEnd, Zenon
  <2>2. ASSUME NEW z \in Nat, Aligned(z), g + len <= z
        PROVE  EndOf(n) <= z
    BY <1>2, <1>3, <2>2, AreaEndLeast, Zenon
  <2>3. QED
    BY <2>1, <2>2
<1>6. /\ a0' = g /\ owned' = owned \cup PagesOf(g, len)
      /\ kept' = kept \ PagesOf(g, len)
      /\ heapEnd' = heapEnd /\ sp' = sp
  BY DEF MmapFree
<1>7. /\ a0' \in 0 .. WordMod - 1
      /\ owned' \subseteq {p \in Nat : Aligned(p)} /\ kept' \subseteq owned'
      /\ heapEnd' \in 0 .. DataSize /\ sp' \in 0 .. DataSize
  <2> HIDE DEF g
  <2>1. a0' \in 0 .. WordMod - 1
    BY <1>2, <1>3, <1>4, <1>6
  <2>2. PagesOf(g, len) \subseteq {p \in Nat : Aligned(p)}
    BY <1>2, <1>3 DEF PagesOf
  <2>3. QED
    BY <1>1, <1>6, <2>1, <2>2 DEF TypeOK
<1>8. CASE g + len > ArenaEnd
  <2>1. mappedAreas' = mappedAreas /\ exhausted' = TRUE
    BY <1>4, <1>8 DEF MmapFree, reserveMmapSpace
  <2>2. QED
    BY <1>1, <1>7, <2>1
    DEF IInv, TypeOK, AreasDisjoint, AreasInArena, OwnedIsReserved
<1>9. CASE ~ (g + len > ArenaEnd)
  <2>1. mappedAreas' = mappedAreas \cup {n} /\ exhausted' = exhausted
    BY <1>4, <1>9 DEF MmapFree, reserveMmapSpace
  <2> HIDE DEF g
  <2>2. n.base = g /\ n.size = len
    OBVIOUS
  <2>3. n \in Area
    BY <1>2, <1>3, <1>4, <1>9 DEF Area
  <2>4. TypeOK'
    BY <1>1, <1>7, <2>1, <2>3 DEF TypeOK
  <2>5. AreasInArena'
    <3>1. EndOf(n) <= ArenaEnd
      BY <1>2, <1>3, <1>4, <1>5, <1>9
    <3> HIDE DEF n
    <3>2. QED
      BY <1>1, <1>3, <2>1, <2>2, <3>1 DEF AreasInArena
  <2>6. \A c \in mappedAreas : EndOf(c) <= n.base \/ EndOf(n) <= c.base
    <3>1. \A c \in mappedAreas : c.base \in Nat /\ Aligned(c.base)
      BY <1>1, AreaFacts DEF AreasInArena
    <3> HIDE DEF n
    <3>2. QED
      BY <1>3, <1>5, <2>2, <3>1
  <2>7. AreasDisjoint'
    <3> HIDE DEF n
    <3> QED
      BY <1>1, <2>1, <2>6 DEF AreasDisjoint
  <2>8. OwnedIsReserved'
    <3>1. \A p \in PagesOf(g, len) : n.base <= p /\ p < EndOf(n)
      BY <1>2, <1>3, <1>5 DEF PagesOf
    <3> HIDE DEF n
    <3>2. QED
      BY <1>1, <1>6, <2>1, <3>1 DEF OwnedIsReserved
  <2>9. QED
    BY <1>7, <2>4, <2>5, <2>7, <2>8 DEF IInv
<1>10. QED
  BY <1>8, <1>9

\* The pages of a reserved area are those of its base and its size.
LEMMA AreaPages ==
    ASSUME TypeOK, AreasInArena, NEW addr, NEW len, [base |-> addr, size |-> len] \in mappedAreas,
           NEW p \in owned, addr <= p, p < EndOf([base |-> addr, size |-> len])
    PROVE  p \in PagesOf(addr, len)
<1> DEFINE n == [base |-> addr, size |-> len]
<1>1. /\ addr \in Nat /\ len \in 1 .. MaxLen /\ Aligned(addr) /\ addr <= ArenaEnd
      /\ len \in Nat /\ len > 0
  <2>1. n \in Area /\ Aligned(n.base)
    BY DEF TypeOK, AreasInArena
  <2>2. QED
    BY <2>1, SizesAssumption, WidthAssumption, ArenaAligned DEF Area
<1>2. p \in Nat /\ Aligned(p)
  BY DEF TypeOK
<1>3. addr + len <= p => EndOf(n) <= p
  BY <1>1, <1>2, AreaEndLeast, Zenon
<1>4. EndOf(n) \in Nat
  BY <1>1, AreaEnd, Zenon
<1>5. addr <= p /\ p < EndOf(n)
  OBVIOUS
<1> HIDE DEF n
<1>6. p < addr + len
  BY <1>1, <1>2, <1>3, <1>4, <1>5
<1>7. QED
  BY <1>1, <1>2, <1>5, <1>6 DEF PagesOf

\* Giving an area back keeps the invariant, whether the host takes its pages or not: a
\* page that is still held and not known as kept lies in another area.
LEMMA MunmapStep ==
    ASSUME IInv, NEW addr \in DataSize .. ArenaEnd - 1, NEW len \in Lens,
           Munmap(addr, len) \/ MunmapFails(addr, len)
    PROVE  IInv'
<1> DEFINE n == [base |-> addr, size |-> len]
<1>1. TypeOK /\ AreasDisjoint /\ AreasInArena /\ OwnedIsReserved
  BY DEF IInv
<1>2. /\ mappedAreas' = mappedAreas \ {n}
      /\ heapEnd' = heapEnd /\ sp' = sp /\ exhausted' = exhausted
  BY DEF Munmap, MunmapFails, freeMmapSpace
<1>3. owned' \subseteq owned /\ kept' \subseteq owned' /\ a0' \in {0, Errno}
  BY <1>1 DEF Munmap, MunmapFails, TypeOK
<1>4. Errno \in 0 .. WordMod - 1 /\ 0 \in 0 .. WordMod - 1
  BY ArenaAligned, WidthAssumption, SizesAssumption DEF Errno
<1>5. TypeOK'
  BY <1>1, <1>2, <1>3, <1>4 DEF TypeOK
<1>6. AreasDisjoint' /\ AreasInArena'
  <2> HIDE DEF n
  <2> QED
    BY <1>1, <1>2 DEF AreasDisjoint, AreasInArena
<1>7. OwnedIsReserved'
  <2> SUFFICES ASSUME HintOwned, ~ exhausted, NEW p \in owned' \ kept'
               PROVE  \E a \in mappedAreas' : a.base <= p /\ p < EndOf(a)
    BY <1>2 DEF OwnedIsReserved
  <2>1. p \in owned \ kept /\ (n \in mappedAreas => p \notin PagesOf(addr, len))
    <3>1. CASE Munmap(addr, len)
      BY <3>1 DEF Munmap
    <3>2. CASE MunmapFails(addr, len)
      <4>1. n \in mappedAreas => mappedAreas' # mappedAreas
        BY <1>2
      <4>2. QED
        BY <3>2, <4>1 DEF MunmapFails
    <3>3. QED
      BY <3>1, <3>2
  <2>2. PICK a \in mappedAreas : a.base <= p /\ p < EndOf(a)
    BY <1>1, <2>1 DEF OwnedIsReserved
  <2>3. a # n
    BY <1>1, <2>1, <2>2, AreaPages
  <2> HIDE DEF n
  <2>4. QED
    BY <1>2, <2>2, <2>3
<1>8. QED
  BY <1>5, <1>6, <1>7 DEF IInv

-----------------------------------------------------------------------------
\* The invariant holds initially.
LEMMA InitInv == Init => IInv
<1> SUFFICES ASSUME Init PROVE IInv
  OBVIOUS
<1>1. 0 \in 0 .. WordMod - 1
  BY ArenaAligned, WidthAssumption, SizesAssumption
<1>2. TypeOK
  <2>1. heapEnd \in 0 .. DataSize /\ sp \in 0 .. DataSize /\ a0 \in 0 .. WordMod - 1
    BY <1>1, SizesAssumption DEF Init
  <2>2. /\ mappedAreas \subseteq Area /\ owned \subseteq {p \in Nat : Aligned(p)}
        /\ kept \subseteq owned
    BY DEF Init
  <2>3. exhausted \in BOOLEAN
    BY Zenon DEF Init
  <2>4. QED
    BY <2>1, <2>2, <2>3 DEF TypeOK
<1>3. AreasDisjoint /\ AreasInArena /\ OwnedIsReserved
  BY SizesAssumption DEF Init, AreasDisjoint, AreasInArena, OwnedIsReserved
<1>4. QED
  BY <1>2, <1>3 DEF IInv

\* Every step keeps the invariant.
LEMMA StepInv == IInv /\ [Next]_vars => IInv'
<1> SUFFICES ASSUME IInv, [Next]_vars PROVE IInv'
  OBVIOUS
<1>0. /\ TypeOK /\ AreasDisjoint /\ AreasInArena /\ OwnedIsReserved
      /\ Errno \in 0 .. WordMod - 1
      /\ DataSize \in Nat /\ HeapBase \in Nat /\ HeapBase <= DataSize
      /\ ArenaEnd \in Nat /\ ArenaEnd < WordMod /\ DataSize < WordMod /\ WordMod \in Nat
  BY ArenaAligned, WidthAssumption, SizesAssumption DEF IInv, Errno
<1> DEFINE Rest == AreasDisjoint /\ AreasInArena /\ OwnedIsReserved
<1>1. ASSUME UNCHANGED <<mappedAreas, owned, kept, exhausted>> PROVE Rest'
  BY <1>0, <1>1 DEF AreasDisjoint, AreasInArena, OwnedIsReserved
<1>2. ASSUME NEW len \in Lens, MmapFree(len) PROVE IInv'
  BY <1>2, MmapFreeStep
<1>3. ASSUME NEW addr \in DataSize .. ArenaEnd - 1, NEW len \in Lens, MmapHint(addr, len)
      PROVE  IInv'
  <2>1. PagesOf(addr, len) \subseteq {p \in Nat : Aligned(p)}
    BY <1>0, <1>3, WidthAssumption DEF PagesOf, MmapHint, HostMayGrant
  <2>2. TypeOK'
    <3>1. a0' \in 0 .. WordMod - 1
      BY <1>0, <1>3 DEF MmapHint
    <3>2. owned' \subseteq {p \in Nat : Aligned(p)} /\ kept' \subseteq owned'
      BY <1>0, <1>3, <2>1 DEF MmapHint, TypeOK
    <3>3. QED
      BY <1>0, <1>3, <3>1, <3>2 DEF TypeOK, MmapHint
  <2>3. AreasDisjoint' /\ AreasInArena'
    BY <1>0, <1>3 DEF AreasDisjoint, AreasInArena, MmapHint
  <2>4. OwnedIsReserved'
    BY <1>0, <1>3 DEF OwnedIsReserved, MmapHint
  <2>5. QED
    BY <2>2, <2>3, <2>4 DEF IInv
<1>4. CASE MmapFails
  <2>1. TypeOK'
    BY <1>0, <1>4 DEF TypeOK, MmapFails
  <2>2. QED
    BY <1>1, <1>4, <2>1 DEF IInv, MmapFails
<1>5. ASSUME NEW addr \in DataSize .. ArenaEnd - 1, NEW len \in Lens,
             Munmap(addr, len) \/ MunmapFails(addr, len)
      PROVE  IInv'
  BY <1>5, MunmapStep
<1>6. ASSUME NEW arg \in BrkArgs, Brk(arg) PROVE IInv'
  <2>1. arg \in Nat
    BY <1>0, InputsAssumption
  <2>2. /\ heapEnd' = heapEnd \/ (HeapBase <= arg /\ arg <= sp /\ heapEnd' = arg)
        /\ a0' = heapEnd' /\ sp' = sp
    BY <1>0, <1>6, <2>1 DEF Brk, TypeOK
  <2>3. TypeOK'
    BY <1>0, <1>6, <2>1, <2>2 DEF TypeOK, Brk
  <2>4. QED
    BY <1>1, <1>6, <2>3 DEF IInv, Brk
<1>7. ASSUME NEW s \in 0 .. DataSize, MoveStack(s) PROVE IInv'
  <2>1. TypeOK'
    BY <1>0, <1>7 DEF TypeOK, MoveStack
  <2>2. QED
    BY <1>1, <1>7, <2>1 DEF IInv, MoveStack
<1>8. CASE UNCHANGED vars
  BY <1>0, <1>8 DEF vars, IInv, TypeOK, AreasDisjoint, AreasInArena, OwnedIsReserved
<1>9. QED
  BY <1>2, <1>3, <1>4, <1>5, <1>6, <1>7, <1>8 DEF Next

\* The inductive invariant holds throughout.
THEOREM Invariant == Spec => []IInv
BY InitInv, StepInv, PTL DEF Spec

\* The address space keeps its type: the arena's bookkeeping never wraps around
\* and never records an area outside the arena.
THEOREM TypeCorrect == Spec => []TypeOK
<1>1. IInv => TypeOK
  BY DEF IInv
<1>2. QED
  BY <1>1, Invariant, PTL

\* mmap's reservations never overlap and never leave the arena.
THEOREM ReservationsSound == Spec => [](AreasDisjoint /\ AreasInArena)
<1>1. IInv => AreasDisjoint /\ AreasInArena
  BY DEF IInv
<1>2. QED
  BY <1>1, Invariant, PTL

\* Every reservation of mmap starts on a page and ends inside the arena.
THEOREM ReservationsInArena == Spec => []AreasInArena
<1>1. IInv => AreasInArena
  BY DEF IInv
<1>2. QED
  BY <1>1, Invariant, PTL

\* Until the arena is overrun, what the guest holds of it after any sequence of mmap
\* and munmap, partial and failed ones too, is covered by reservations, but for the
\* pages of an area that munmap gave up and the host kept.
THEOREM HeldIsReserved == Spec => []OwnedIsReserved
<1>1. IInv => OwnedIsReserved
  BY DEF IInv
<1>2. QED
  BY <1>1, Invariant, PTL

\* Until the arena is overrun, mmap never hands out a page the guest holds, unless the
\* guest gave it back in a munmap that failed.
THEOREM NoLiveMemoryHandedOut == Spec => []PlacementIsFresh
<1>1. IInv => PlacementIsFresh
  <2> SUFFICES ASSUME IInv, HintOwned, ~ exhausted, NEW len \in Lens, HostMayGrant(len),
                      NEW p \in PagesOf(getMmapAddress(len), len), p \in owned, p \notin kept
               PROVE  FALSE
    BY DEF PlacementIsFresh
  <2> DEFINE g == getMmapAddress(len)
  <2>1. len \in 1 .. MaxLen
    BY DEF HostMayGrant
  <2>2. /\ g \in Nat
        /\ \A c \in mappedAreas : EndOf(c) <= g \/ g + len <= c.base
    BY <2>1, Placement DEF IInv
  <2>3. p \in g .. g + len - 1
    BY DEF PagesOf
  <2>4. PICK a \in mappedAreas : a.base <= p /\ p < EndOf(a)
    BY DEF IInv, OwnedIsReserved
  <2>5. a.base \in Nat /\ EndOf(a) \in Nat
    BY AreaFacts DEF IInv
  <2>6. EndOf(a) <= g \/ g + len <= a.base
    BY <2>2
  <2>7. len \in Nat
    BY <2>1, WidthAssumption
  <2> HIDE DEF g
  <2>8. QED
    BY <2>2, <2>3, <2>4, <2>5, <2>6, <2>7
<1>2. QED
  BY <1>1, Invariant, PTL

\* getMmapAddress never skips a hole behind a reserved area that is long enough.
THEOREM FirstFit == Spec => []FirstFitFindsHole
<1>1. IInv => FirstFitFindsHole
  <2> SUFFICES ASSUME IInv, NEW len \in Lens, HostMayGrant(len),
                      NEW h \in mappedAreas, HoleBehind(h, len)
               PROVE  getMmapAddress(len) + len <= ArenaEnd
    BY DEF FirstFitFindsHole
  <2>1. TypeOK /\ AreasDisjoint /\ AreasInArena
    BY DEF IInv
  <2>2. len \in Nat /\ WordMod \in Nat /\ ArenaEnd \in Nat /\ ArenaEnd < WordMod
    BY WidthAssumption, ArenaAligned, SizesAssumption DEF HostMayGrant
  <2>3. PICK a \in mappedAreas : /\ StopsAt(a, len)
                                 /\ getMmapAddress(len) = EndOf(a)
                                 /\ \A c \in mappedAreas : StopsAt(c, len) => a.base <= c.base
    BY <2>1, StopsSomewhere
  <2>4. /\ h.base \in Nat /\ EndOf(h) \in Nat /\ h.base < EndOf(h)
        /\ a.base \in Nat /\ EndOf(a) \in Nat /\ a.base < EndOf(a)
    BY <2>1, AreaFacts
  <2>5. StopsAt(h, len)
    <3> SUFFICES ASSUME NEW b \in mappedAreas, Follows(h, b)
                 PROVE  (b.base - EndOf(h)) % WordMod >= len
      BY DEF StopsAt
    <3>1. b.base \in Nat /\ EndOf(b) \in Nat /\ b.base < EndOf(b) /\ b.base < ArenaEnd
      BY <2>1, AreaFacts
    <3>2. b.base > h.base
      BY DEF Follows
    <3>3. EndOf(h) <= b.base
      BY <2>1, <2>4, <3>1, <3>2 DEF AreasDisjoint
    <3>4. EndOf(h) + len <= b.base
      BY <2>2, <2>4, <3>1, <3>3 DEF HoleBehind
    <3>5. (b.base - EndOf(h)) % WordMod = b.base - EndOf(h)
      BY <2>2, <2>4, <3>1, <3>3
    <3>6. QED
      BY <2>2, <2>4, <3>1, <3>4, <3>5
  <2>6. a.base <= h.base
    BY <2>3, <2>5
  <2>7. EndOf(a) <= EndOf(h)
    BY <2>1, <2>4, <2>6 DEF AreasDisjoint
  <2>8. EndOf(h) + len <= ArenaEnd
    BY DEF HoleBehind
  <2>9. QED
    BY <2>2, <2>3, <2>4, <2>7, <2>8
<1>2. QED
  BY <1>1, Invariant, PTL
=============================================================================
