---------------------------- MODULE GuestMemory ----------------------------
(***************************************************************************)
(* The guest's address space management: lib/runtime/Memory.cpp and the    *)
(* brk, mmap and munmap handlers of lib/runtime/syscall.h.                 *)
(*                                                                         *)
(*   0 ......... HeapBase ... heapEnd ...... sp ... DataSize ... ArenaEnd  *)
(*   text, data  |   heap (brk)    |  free  | stack | mmap arena |         *)
(*                                                                         *)
(* mappedAreas is the vector of reserved areas, sorted by base after every *)
(* insertion: a set here, read in the order of the bases.  The variables   *)
(* owned and kept are history: the (first addresses of the) pages the host *)
(* mapped for the guest and has not unmapped since, and those among them   *)
(* whose reservation went though the host refused to unmap them.           *)
(***************************************************************************)
EXTENDS Integers, FiniteSets

CONSTANTS
    PageSize,   \* Memory::pageSize
    DataSize,   \* DATA_SIZE: text, data, heap and stack
    MmapSize,   \* MMAP_SIZE: the arena behind them
    WordMod,    \* 2^32, the modulus of uint32_t
    HeapBase,   \* Memory::heapBase after initializeHeap
    MaxLen,     \* the longest mapping the host grants
    Lens,       \* lengths the guest asks for
    BrkArgs,    \* break addresses the guest asks for
    HintOwned   \* TRUE: the guest only re-maps, at a hint, pages it owns

ArenaEnd == DataSize + MmapSize

\* Memory::pageAlignAddress.  Its argument is a uint64_t: no wrap-around here.
pageAlignAddress(a) == ((a + (PageSize - 1)) \div PageSize) * PageSize

Aligned(a) == a % PageSize = 0

ASSUME SizesAssumption ==
    /\ PageSize \in Nat \ {0}
    /\ DataSize \in Nat /\ MmapSize \in Nat \ {0}
    /\ Aligned(DataSize) /\ Aligned(MmapSize)
    /\ HeapBase \in 0 .. DataSize /\ Aligned(HeapBase)

\* No uint32_t sum of an arena address and a granted length wraps around.
ASSUME WidthAssumption ==
    /\ MaxLen \in Nat
    /\ WordMod \in Nat
    /\ ArenaEnd + MaxLen + PageSize <= WordMod

ASSUME InputsAssumption ==
    /\ Lens \subseteq 0 .. WordMod - 1
    /\ BrkArgs \subseteq 0 .. WordMod - 1
    /\ HintOwned \in BOOLEAN

VARIABLES
    heapEnd,      \* Memory::heapEnd
    sp,           \* ctx.reg[sp]
    mappedAreas,  \* Memory::mappedAreas
    owned,        \* history: pages the guest holds from mmap
    kept,         \* history: pages still held after a munmap that only dropped the area
    exhausted,    \* history: a mapping was granted that the arena cannot hold
    a0            \* ctx.reg[a0] after the last call

vars == <<heapEnd, sp, mappedAreas, owned, kept, exhausted, a0>>

\* The value handleError leaves in a0: -errno, a "negative" word.
Errno == WordMod - 1

\* First addresses of the pages that [addr, addr + len) touches, addr aligned.
PagesOf(addr, len) == {p \in addr .. addr + len - 1 : Aligned(p)}

\* pageAlignAddress(it->base + it->size), narrowed to uint32_t.
EndOf(area) == pageAlignAddress((area.base + area.size) % WordMod) % WordMod

\* b is the element after a in the sorted vector.
Follows(a, b) ==
    /\ b \in mappedAreas
    /\ b.base > a.base
    /\ \A c \in mappedAreas : c.base > a.base => b.base <= c.base

\* Mutant: a gap one byte short is taken.
StopsAtShortGap(a, size) ==
    \A b \in mappedAreas : Follows(a, b) => ((b.base - EndOf(a)) % WordMod) + 1 >= size

\* Mutant: a gap of exactly the size is passed over.
StopsAtWiderGap(a, size) ==
    \A b \in mappedAreas : Follows(a, b) => (b.base - EndOf(a)) % WordMod > size

\* The loop of getMmapAddress stops at a: there is no element after it, or the
\* gap to that element, a uint32_t difference, holds size bytes.
StopsAt(a, size) ==
    \A b \in mappedAreas : Follows(a, b) => (b.base - EndOf(a)) % WordMod >= size

\* Memory::getMmapAddress: first fit behind the lowest area with enough room.
getMmapAddress(size) ==
    IF mappedAreas = {} THEN pageAlignAddress(DataSize)
    ELSE LET first == CHOOSE a \in mappedAreas :
                        /\ StopsAt(a, size)
                        /\ \A c \in mappedAreas : StopsAt(c, size) => a.base <= c.base
         IN  EndOf(first)

-----------------------------------------------------------------------------
Init ==
    /\ heapEnd = HeapBase
    /\ sp \in HeapBase .. DataSize
    /\ mappedAreas = {}
    /\ owned = {} /\ kept = {}
    /\ exhausted = FALSE
    /\ a0 = 0

\* The host's answer to mmap: it rejects an empty range and may always refuse.
HostMayGrant(len) == len \in 1 .. MaxLen

\* Mutant: only the start of the area is checked against the end of the arena.
reserveMmapSpaceByStart(size) ==
    LET address == getMmapAddress(size) IN
    IF address > ArenaEnd
    THEN UNCHANGED mappedAreas /\ exhausted' = TRUE
    ELSE mappedAreas' = mappedAreas \cup {[base |-> address, size |-> size]} /\ UNCHANGED exhausted

\* Memory::reserveMmapSpace on the areas as they are: the check of the bound is
\* a uint32_t sum, the insertion keeps the order, the result goes unused.
reserveMmapSpace(size) ==
    LET address == getMmapAddress(size) IN
    IF (address + size) % WordMod > ArenaEnd
    THEN /\ UNCHANGED mappedAreas
         /\ exhausted' = TRUE
    ELSE /\ mappedAreas' = mappedAreas \cup {[base |-> address, size |-> size]}
         /\ UNCHANGED exhausted

\* _mmap with a0 = 0: the area is placed by getMmapAddress, mapped by the host
\* (MAP_FIXED) and only then reserved.
MmapFree(len) ==
    /\ HostMayGrant(len)
    /\ a0' = getMmapAddress(len)
    /\ owned' = owned \cup PagesOf(getMmapAddress(len), len)
    /\ kept' = kept \ PagesOf(getMmapAddress(len), len)
    /\ reserveMmapSpace(len)
    /\ UNCHANGED <<heapEnd, sp>>

\* _mmap with a0 # 0: the host maps at the hint, nothing is reserved.
MmapHint(addr, len) ==
    /\ Aligned(addr)
    /\ HostMayGrant(len)
    /\ HintOwned => PagesOf(addr, len) \subseteq owned
    /\ a0' = addr
    /\ owned' = owned \cup PagesOf(addr, len)
    /\ UNCHANGED <<heapEnd, sp, mappedAreas, kept, exhausted>>

\* _mmap when the host fails: a0 is -errno, nothing else changes.
MmapFails ==
    /\ a0' = Errno
    /\ UNCHANGED <<heapEnd, sp, mappedAreas, owned, kept, exhausted>>

\* Mutant: the area at the address goes, whatever its size.
freeMmapSpaceByBase(addr, len) == mappedAreas' = {a \in mappedAreas : a.base # addr}

\* Memory::freeMmapSpace: only an area of exactly this base and size is erased.
freeMmapSpace(addr, len) ==
    mappedAreas' = mappedAreas \ {[base |-> addr, size |-> len]}

\* _munmap when the host unmaps, which it does for aligned addresses and ranges that
\* are not empty: the reservation goes first.
Munmap(addr, len) ==
    /\ Aligned(addr) /\ len > 0
    /\ freeMmapSpace(addr, len)
    /\ a0' = 0
    /\ owned' = owned \ PagesOf(addr, len)
    /\ kept' = kept \ PagesOf(addr, len)
    /\ UNCHANGED <<heapEnd, sp, exhausted>>

\* _munmap when the host refuses, for its arguments or because the process has too many
\* mappings: the reservation is gone all the same, the pages are not.
MunmapFails(addr, len) ==
    /\ freeMmapSpace(addr, len)
    /\ a0' = Errno
    /\ kept' = IF mappedAreas' = mappedAreas THEN kept
               ELSE kept \cup (PagesOf(addr, len) \cap owned)
    /\ UNCHANGED <<heapEnd, sp, owned, exhausted>>

\* Mutant: no check for hitting the stack.
BrkIntoStack(arg) ==
    /\ heapEnd' = IF arg = 0 \/ arg < HeapBase THEN heapEnd ELSE arg
    /\ a0' = heapEnd'
    /\ UNCHANGED <<sp, mappedAreas, owned, kept, exhausted>>

\* _brk: 0, an address below the heap and one above the stack pointer only ask.
Brk(arg) ==
    /\ heapEnd' = IF arg = 0 \/ arg < HeapBase \/ arg > sp THEN heapEnd ELSE arg
    /\ a0' = heapEnd'
    /\ UNCHANGED <<sp, mappedAreas, owned, kept, exhausted>>

\* The guest moves its stack pointer, also down into its heap: nobody looks at it until
\* the next brk.
MoveStack(s) ==
    /\ sp' = s
    /\ UNCHANGED <<heapEnd, mappedAreas, owned, kept, exhausted, a0>>

Next ==
    \/ \E len \in Lens : MmapFree(len)
    \/ \E addr \in DataSize .. ArenaEnd - 1, len \in Lens : MmapHint(addr, len)
    \/ MmapFails
    \/ \E addr \in DataSize .. ArenaEnd - 1, len \in Lens : Munmap(addr, len)
    \/ \E addr \in DataSize .. ArenaEnd - 1, len \in Lens : MunmapFails(addr, len)
    \/ \E arg \in BrkArgs : Brk(arg)
    \/ \E s \in 0 .. DataSize : MoveStack(s)

Spec == Init /\ [][Next]_vars

-----------------------------------------------------------------------------
Area == [base : DataSize .. ArenaEnd - 1, size : 1 .. MaxLen]

\* Type invariant of the address space.
TypeOK ==
    /\ heapEnd \in 0 .. DataSize
    /\ sp \in 0 .. DataSize
    /\ mappedAreas \subseteq Area
    /\ owned \subseteq {p \in Nat : Aligned(p)} /\ kept \subseteq owned
    /\ exhausted \in BOOLEAN
    /\ a0 \in 0 .. WordMod - 1

\* Two reserved areas never share a page: getMmapAddress's gap test (an unsigned
\* difference against an unaligned size) never places an area over another one.
AreasDisjoint ==
    \A a, b \in mappedAreas : a # b => EndOf(a) <= b.base \/ EndOf(b) <= a.base

\* Every reserved area starts on a page and ends inside the arena, so it can
\* never reach the stack below it or the host data behind Memory::data.
AreasInArena ==
    \A a \in mappedAreas : Aligned(a.base) /\ DataSize <= a.base /\ EndOf(a) <= ArenaEnd

\* As long as the arena was never overrun, each arena page the guest holds lies
\* in a reserved area (whatever it unmapped in part or re-mapped in place), but for
\* those of an area it gave back and the host did not take ...
OwnedIsReserved ==
    HintOwned /\ ~exhausted =>
        \A p \in owned \ kept : \E a \in mappedAreas : a.base <= p /\ p < EndOf(a)

\* ... and therefore the next free placement of any length the host may grant gets
\* only pages the guest does not hold, or gave back in a munmap that failed: mmap
\* never hands out memory that is in use.
PlacementIsFresh ==
    HintOwned /\ ~exhausted => \A len \in Lens :
        HostMayGrant(len) => PagesOf(getMmapAddress(len), len) \cap owned \subseteq kept

\* A hole of the arena behind some reserved area.
HoleBehind(a, len) ==
    /\ EndOf(a) + len <= ArenaEnd
    /\ \A b \in mappedAreas : b.base < EndOf(a) + len => b.base < EndOf(a)

\* getMmapAddress leaves the arena only if no hole behind a reserved area fits.
FirstFitFindsHole ==
    \A len \in Lens : HostMayGrant(len) /\ (\E a \in mappedAreas : HoleBehind(a, len))
                      => getMmapAddress(len) + len <= ArenaEnd

-----------------------------------------------------------------------------
\* Memory.cpp:128 "Get the next free and page aligned address where memory of size can
\* be mapped to": the pages of a placement are free, also in an arena that is full, if
\* every munmap succeeded.
NextFreeAddress ==
    kept = {} => \A len \in Lens :
        HostMayGrant(len) => PagesOf(getMmapAddress(len), len) \cap owned = {}
=============================================================================
