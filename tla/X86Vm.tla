-------------------------------- MODULE X86Vm --------------------------------
(***************************************************************************)
(* The x86 page tables of lib/x86/vm.c and the virtual allocator of        *)
(* lib/vmalloc.c above them, on one CPU.  Addresses are page numbers.  A   *)
(* table has Fanout entries, an entry of level 2 may map a large page of   *)
(* Fanout pages.                                                           *)
(*                                                                         *)
(* Page tables are contents of page frames, which the page allocator hands *)
(* out and takes back: a frame may hold data, then be freed, then become a *)
(* table.                                                                  *)
(***************************************************************************)
EXTENDS Integers, FiniteSetsExt, SequencesExt

CONSTANTS
    Levels,     \* PAGE_LEVEL
    Fanout,     \* 1 << PGDIR_WIDTH
    EndOfMemory,\* the identity map covers pages 0..EndOfMemory-1
    Ram,        \* page frames that the page allocator starts with
    Mmio,       \* frames of devices, for vmap
    MaxPages,   \* bound: pages of one request
    MaxVirt     \* bound: pages taken from the virtual allocator in all

Virt == 0..(Fanout^Levels - 1)
Index == 0..(Fanout - 1)
None == -1

VARIABLES
    cr3,        \* the root table's frame, None before setup_mmu
    pt,         \* pt[f][i]: word i of frame f, as a page table entry
    free,       \* frames that alloc_page has to give
    vfree_top,
    blocks,     \* ghost: memory got from vm_memalign, [virt, n]
    want,       \* ghost: what each virtual page is meant to be mapped to
    large       \* ghost: virtual pages under a large page

vars == <<cr3, pt, free, vfree_top, blocks, want, large>>

Entry(p, ps, a) == [p |-> p, ps |-> ps, addr |-> a]
Zero == [i \in Index |-> Entry(FALSE, FALSE, 0)]

\* What a page's owner left in it: any word could look like an entry, here
\* one that is present and leads to the lowest frame.
Data == [i \in Index |-> Entry(TRUE, FALSE, Min(Ram))]

Init ==
    /\ cr3 = None
    /\ pt = [f \in Ram |-> Data]
    /\ free = Ram
    /\ vfree_top = Fanout^Levels
    /\ blocks = {}
    /\ want = [v \in Virt |-> None]
    /\ large = {}

\* PGDIR_OFFSET
Offset(v, level) == (v \div Fanout^(level - 1)) % Fanout

-----------------------------------------------------------------------------
(* install_pte; s is the memory: [pt, free]. *)

\* Mutant: the new table keeps what the page's last owner wrote.
NewTable_NoMemset(s, at, off) ==
    LET f == Min(s.free) IN
    [pt |-> [s.pt EXCEPT ![at][off] = Entry(TRUE, FALSE, f)],
     free |-> s.free \ {f}]

\* new_pt = alloc_page(), cleared, and linked into the entry at[off].
NewTable(s, at, off) ==
    LET f == Min(s.free) IN
    [pt |-> [s.pt EXCEPT ![at][off] = Entry(TRUE, FALSE, f), ![f] = Zero],
     free |-> s.free \ {f}]

\* The table of the given level for v, and the memory once it exists.
Descend(s, root, v, level) ==
    LET walk[l \in level..Levels] ==
            IF l = Levels THEN [mem |-> s, at |-> root]
            ELSE LET up == walk[l + 1]
                     off == Offset(v, l + 1)
                     m == IF up.mem.pt[up.at][off].p THEN up.mem ELSE NewTable(up.mem, up.at, off)
                 IN  [mem |-> m, at |-> m.pt[up.at][off].addr]
    IN  walk[level]

InstallPte(s, root, level, v, e) ==
    LET w == Descend(s, root, v, level) IN
    [w.mem EXCEPT !.pt[w.at][Offset(v, level)] = e]

InstallPage(s, root, phys, v) == InstallPte(s, root, 1, v, Entry(TRUE, FALSE, phys))
InstallLargePage(s, root, phys, v) == InstallPte(s, root, 2, v, Entry(TRUE, TRUE, phys))

\* install_pages, and the loop of vmap.
InstallPages(s, root, phys, n, v) ==
    FoldLeft(LAMBDA m, i : InstallPage(m, root, phys + i, v + i), s,
             [k \in 1..n |-> k - 1])

\* setup_mmu_range: large pages while one fits, then small ones.
SetupMmuRange(s, root, start, len) ==
    LET nl == len \div Fanout
        m == FoldLeft(LAMBDA t, k : InstallLargePage(t, root, start + k * Fanout, start + k * Fanout),
                      s, [k \in 1..nl |-> k - 1])
        tail == start + nl * Fanout
    IN  InstallPages(m, root, tail, len - nl * Fanout, tail)

-----------------------------------------------------------------------------
(* Looking up. *)

\* find_pte_level: the last entry in the mapping of v at or above lowest.
FindPteLevel(v, lowest) ==
    LET stop(r) == \/ ~pt[r.at][Offset(v, r.level)].p
                   \/ r.level \in {2, 3} /\ pt[r.at][Offset(v, r.level)].ps
                   \/ r.level = lowest
        find[l \in lowest..Levels] ==
            IF l = Levels THEN [at |-> cr3, level |-> Levels]
            ELSE LET up == find[l + 1] IN
                 IF stop(up) THEN up
                 ELSE [at |-> pt[up.at][Offset(v, up.level)].addr, level |-> l]
    IN  find[lowest]

PteOf(v, r) == pt[r.at][Offset(v, r.level)]

\* Mutant: a large page is not recognised as a leaf.
FoundLeafPte_SmallOnly(v, r) == r.level = 1

FoundLeafPte(v, r) ==
    r.level = 1 \/ (r.level \in {2, 3} /\ PteOf(v, r).p /\ PteOf(v, r).ps)

\* get_pte(v) exists and is present: what any_present_pages looks for.
IsPresent(v) ==
    LET r == FindPteLevel(v, 1) IN FoundLeafPte(v, r) /\ PteOf(v, r).p

\* virt_to_pte_phys: right for pages that are not under a large page.
VirtToPtePhys(v) == PteOf(v, FindPteLevel(v, 1)).addr

\* What the CPU does with v: the table walk of the architecture (external).
Translate(v) ==
    LET walk[l \in 0..Levels] ==
            IF l = Levels THEN [at |-> cr3, ok |-> TRUE, leaf |-> FALSE]
            ELSE LET up == walk[l + 1]
                     e == pt[up.at][Offset(v, l + 1)]
                 IN  IF up.leaf \/ ~up.ok THEN up
                     ELSE IF ~e.p THEN [up EXCEPT !.ok = FALSE]
                     ELSE IF l = 0 THEN [at |-> e.addr, ok |-> TRUE, leaf |-> TRUE]
                     ELSE IF e.ps THEN [at |-> e.addr + (v % Fanout^l), ok |-> TRUE, leaf |-> TRUE]
                     ELSE [at |-> e.addr, ok |-> TRUE, leaf |-> FALSE]
    IN  IF walk[0].ok THEN walk[0].at ELSE None

-----------------------------------------------------------------------------
(* Operations. *)

Memory == [pt |-> pt, free |-> free]
Becomes(m) == pt' = m.pt /\ free' = m.free

\* alloc_page returns NULL when it has no page left; callers stay below that.
Enough(n) == Cardinality(free) >= n + Levels - 1

\* setup_vm: the root table, then the identity map.
SetupVm ==
    LET root == Min(free)
        s == [pt |-> [pt EXCEPT ![root] = Zero], free |-> free \ {root}]
    IN  /\ cr3 = None
        /\ cr3' = root
        /\ Becomes(SetupMmuRange(s, root, 0, EndOfMemory))
        /\ want' = [v \in Virt |-> IF v < EndOfMemory THEN v ELSE None]
        /\ large' = 0..((EndOfMemory \div Fanout) * Fanout - 1)
        /\ UNCHANGED <<vfree_top, blocks>>

\* Mutant: vfree_top is not updated.
AllocVpages_NoUpdate(n) == [top |-> vfree_top, mem |-> vfree_top - n]

\* vfree_top -= n; return vfree_top
AllocVpages(n) == [top |-> vfree_top - n, mem |-> vfree_top - n]

MayTake(n) == cr3 # None /\ Fanout^Levels - vfree_top + n <= MaxVirt

\* vmap(phys, n pages)
Vmap(phys, n) ==
    LET a == AllocVpages(n) IN
    /\ MayTake(n) /\ Enough(0)
    /\ vfree_top' = a.top
    /\ Becomes(InstallPages(Memory, cr3, phys, n, a.mem))
    /\ want' = [v \in Virt |-> IF v \in a.mem..(a.mem + n - 1) THEN phys + (v - a.mem) ELSE want[v]]
    /\ UNCHANGED <<cr3, blocks, large>>

\* One page of vm_memalign: alloc_page(), then install_page().
TakePage(s, v) ==
    LET f == Min(s.free) IN
    InstallPage([pt |-> [s.pt EXCEPT ![f] = Data], free |-> s.free \ {f}], cr3, f, v)

VmMemalign(n) ==
    LET a == AllocVpages(n)
        m == FoldLeft(LAMBDA s, i : TakePage(s, a.mem + i), Memory, [k \in 1..n |-> k - 1])
        got(v) == m.pt[Descend(m, cr3, v, 1).at][Offset(v, 1)].addr
    IN  /\ MayTake(n) /\ Enough(n)
        /\ vfree_top' = a.top
        /\ Becomes(m)
        /\ blocks' = blocks \cup {[virt |-> a.mem, n |-> n]}
        /\ want' = [v \in Virt |-> IF v \in a.mem..(a.mem + n - 1) THEN got(v) ELSE want[v]]
        /\ UNCHANGED <<cr3, large>>

\* The frames that vm_free gives back.
FreedBy(b) == {VirtToPtePhys(b.virt + i) : i \in 0..(b.n - 1)}

\* vm_free: the frames are freed, the mapping stays.
VmFree(b) ==
    /\ b \in blocks
    /\ free' = free \cup FreedBy(b)
    /\ pt' = [f \in DOMAIN pt |-> IF f \in FreedBy(b) THEN Data ELSE pt[f]]
    /\ blocks' = blocks \ {b}
    /\ UNCHANGED <<cr3, vfree_top, want, large>>

\* A test takes a page away or puts it back with install_pte, as
\* eventinj.c, asyncpf.c and taskswitch2.c do with a page of their own.
Flip(b, i) ==
    LET v == b.virt + i
        r == FindPteLevel(v, 1)
        e == PteOf(v, r)
    IN  /\ b \in blocks
        /\ Becomes(InstallPte(Memory, cr3, 1, v, [e EXCEPT !.p = ~@]))
        /\ want' = [want EXCEPT ![v] = IF e.p THEN None ELSE e.addr]
        /\ UNCHANGED <<cr3, vfree_top, blocks, large>>

Next ==
    \/ SetupVm
    \/ \E n \in 1..MaxPages : VmMemalign(n) \/ \E phys \in Mmio : Vmap(phys, n)
    \/ \E b \in blocks : VmFree(b) \/ \E i \in 0..(b.n - 1) : Flip(b, i)

Spec == Init /\ [][Next]_vars

-----------------------------------------------------------------------------
(* Properties. *)

Tables ==
    LET sub(T) == {e.addr : e \in {x \in UNION {Range(pt[f]) : f \in T} : x.p /\ ~x.ps}}
        reach[l \in 1..Levels] == IF l = Levels THEN {cr3} ELSE sub(reach[l + 1])
    IN  UNION {reach[l] : l \in 1..Levels}

Mapped(b) == {want[b.virt + i] : i \in 0..(b.n - 1)} \ {None}

\* The CPU maps every page as the operations say: an operation changes the
\* pages that it is for and no others, whatever tables it had to add.
MapsRight == cr3 # None => \A v \in Virt : Translate(v) = want[v]

\* No frame is two of: free, a page table, memory of a live block.  Two
\* live blocks share no frame and no virtual page.
NoSharing ==
    cr3 # None =>
        /\ Tables \cap free = {}
        /\ \A b \in blocks :
              /\ Mapped(b) \cap (free \cup Tables) = {}
              /\ \A c \in blocks : b # c =>
                    /\ Mapped(b) \cap Mapped(c) = {}
                    /\ (b.virt)..(b.virt + b.n - 1) \cap (c.virt)..(c.virt + c.n - 1) = {}

\* "The returned PTE isn't necessarily present, but its parent is"
\* (vm.c:35): find_pte_level stops where the CPU's walk stops, so get_pte
\* says present exactly of the pages the CPU can reach, large ones too.
LookupAgrees == cr3 # None => \A v \in Virt : IsPresent(v) <=> Translate(v) # None
=============================================================================
