------------------------------ MODULE PhysAlloc ------------------------------
(***************************************************************************)
(* The boot-time allocator of lib/alloc_phys.c, which cuts regions off the *)
(* bottom of one range of memory, and malloc/memalign of lib/alloc.c on    *)
(* top of it.                                                              *)
(*                                                                         *)
(* Set-up code runs on one CPU, so each call is one step.  Addresses are   *)
(* naturals: requests are small against 2^64, see MaxSize.                 *)
(***************************************************************************)
EXTENDS Integers

CONSTANTS
    RamBase, RamSize,  \* the range given to phys_alloc_init
    Limit32,    \* 1 << 32 on a 32-bit build, at least the top of memory on a 64-bit one
    NrRegions,  \* PHYS_ALLOC_NR_REGIONS
    Aligns,     \* the alignments that callers ask for: powers of two
    MaxSize,    \* bound: largest size that callers ask for
    PtrSize,    \* sizeof(uintptr_t)
    DefaultAlign

ASSUME RamAssumption == RamBase \in Nat \ {0} /\ RamSize \in Nat
ASSUME LimitAssumption == Limit32 \in Nat
ASSUME NrRegionsAssumption == NrRegions \in Nat \ {0}
ASSUME AlignAssumption == Aligns \subseteq Nat \ {0} /\ DefaultAlign \in Aligns
\* The ALIGN macro works with powers of two, of which the larger one is a
\* multiple of the smaller.
ASSUME PowerAssumption == \A a, b \in Aligns : a <= b => b % a = 0
ASSUME SizeAssumption == MaxSize \in Nat /\ PtrSize \in Aligns

NULL == 0
Meta == 2 * PtrSize     \* METADATA_EXTRA: the slack and the size of a block

VARIABLES
    base, top,      \* the free range
    alignMin,       \* early_alloc_ops.align_min
    nr_regions,     \* entries of the log that phys_alloc_show prints
    grants,         \* ghost: the regions handed out, [addr, end]
    block,          \* ghost: what memalign did last, or NoBlock
    aborted         \* an assertion failed: the test exits

vars == <<base, top, alignMin, nr_regions, grants, block, aborted>>

NoBlock == [p |-> 1, size |-> Meta, align |-> 1, mem |-> 1 + Meta, len |-> 0]

\* The ALIGN macro: the next multiple of a.
Align(x, a) == x + ((-x) % a)

Init ==
    /\ base = 0 /\ top = 0
    /\ alignMin = DefaultAlign
    /\ nr_regions = 0
    /\ grants = {}
    /\ block = NoBlock
    /\ aborted = FALSE

PhysAllocInit ==
    /\ top = 0
    /\ base' = RamBase
    /\ top' = RamBase + RamSize
    /\ nr_regions' = 0
    /\ UNCHANGED <<alignMin, grants, block, aborted>>

PhysAllocSetMinimumAlignment(a) ==
    /\ ~aborted
    /\ alignMin' = a
    /\ UNCHANGED <<base, top, nr_regions, grants, block, aborted>>

TopSafe == IF top < Limit32 THEN top ELSE Limit32

\* Mutant: the room is compared with the size before alignment.
Fits_Unaligned(size, align) == TopSafe - base >= size

\* Does a region of this size fit, after the gap that alignment needs?
Fits(size, align) == TopSafe - base >= size + (Align(base, align) - base)

\* Mutant: the gap that alignment needs is not taken from the free range.
Take_NoGap(size, align) ==
    /\ base' = base + size
    /\ nr_regions' = IF nr_regions < NrRegions THEN nr_regions + 1 ELSE nr_regions
    /\ grants' = grants \cup {[addr |-> Align(base, align), end |-> Align(base, align) + size]}

\* base += size, and a log entry while there is room.
Take(size, align) ==
    /\ base' = Align(base, align) + size
    /\ nr_regions' = IF nr_regions < NrRegions THEN nr_regions + 1 ELSE nr_regions
    /\ grants' = grants \cup {[addr |-> Align(base, align), end |-> Align(base, align) + size]}

\* What early_memalign returns: NULL when phys_alloc_aligned_safe fails.
EarlyAddr(size, align) == IF Fits(size, align) THEN Align(base, align) ELSE NULL

\* phys_alloc_aligned_safe: the assertion, then a region if one fits.
EarlyMemalign(size, align) ==
    /\ aborted' = ~(base < TopSafe)
    /\ IF base < TopSafe /\ Fits(size, align)
       THEN Take(size, align)
       ELSE UNCHANGED <<base, nr_regions, grants>>

\* Mutant: no room for moving the address up to the alignment.
BlockSize_NoSlack(align, size) == Align(size + Meta, alignMin)

\* The block that memalign asks its alloc_ops for.
BlockSize(align, size) ==
    Align((IF align <= PtrSize THEN size ELSE size + align - 1) + Meta, alignMin)

\* mem = ALIGN(p + METADATA_EXTRA, alignment)
UserAddr(p, align) == Align(p + Meta, align)

\* memalign with early_alloc_ops; malloc is memalign(sizeof(long), size).
\* A NULL from alloc_ops->memalign is used like any other address.
Memalign(a, size) ==
    LET align == IF a <= PtrSize THEN PtrSize ELSE a
        blkalign == IF align > alignMin THEN align ELSE alignMin
        sz == BlockSize(a, size)
        p == EarlyAddr(sz, blkalign)
    IN  /\ ~aborted
        /\ EarlyMemalign(sz, blkalign)
        /\ block' = IF aborted' THEN block
                    ELSE [p |-> p, size |-> sz, align |-> align,
                          mem |-> UserAddr(p, align), len |-> size]
        /\ UNCHANGED <<top, alignMin>>

\* phys_alloc_get_unused: all the rest, logged without a look at the log's size.
PhysAllocGetUnused ==
    /\ ~aborted /\ base # top
    /\ nr_regions' = nr_regions + 1
    /\ base' = top
    /\ grants' = grants \cup {[addr |-> base, end |-> top]}
    /\ UNCHANGED <<top, alignMin, block, aborted>>

Next ==
    \/ PhysAllocInit
    \/ \E a \in Aligns : PhysAllocSetMinimumAlignment(a)
    \/ \E a \in Aligns, size \in 0..MaxSize : Memalign(a, size)
    \/ PhysAllocGetUnused

Spec == Init /\ [][Next]_vars

-----------------------------------------------------------------------------
(* Properties. *)

TypeOK ==
    /\ base \in Nat /\ top \in Nat /\ nr_regions \in Nat
    /\ alignMin \in Aligns
    /\ grants \subseteq [addr : Nat, end : Nat]
    /\ aborted \in BOOLEAN

Disjoint(g, h) == g.end <= h.addr \/ h.end <= g.addr

\* Regions handed out lie inside the memory that phys_alloc_init was given
\* and do not overlap, whatever sizes and alignments were asked for.
GrantsDisjoint ==
    /\ \A g \in grants : RamBase <= g.addr /\ g.end <= RamBase + RamSize
    /\ \A g, h \in grants : g = h \/ Disjoint(g, h)

\* What makes it inductive: the free range is the tail of memory above
\* every region.
FreeAboveGrants ==
    /\ top = 0 => base = 0 /\ grants = {}
    /\ top # 0 => top = RamBase + RamSize /\ RamBase <= base /\ base <= top
    /\ \A g \in grants : g.addr <= g.end /\ g.end <= base

IndInv == TypeOK /\ GrantsDisjoint /\ FreeAboveGrants

\* malloc's block: the metadata words are in front of the memory that the
\* caller gets, both inside the region taken from the allocator, and the
\* address is aligned as asked.
BlockFits ==
    LET b == block IN
    b.p # NULL =>
        /\ b.mem % b.align = 0
        /\ b.p <= b.mem - Meta
        /\ b.mem + b.len <= b.p + b.size
=============================================================================
