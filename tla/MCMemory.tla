------------------------------ MODULE MCMemory ------------------------------
(***************************************************************************)
(* Instances for TLC of the code that gives out memory and addresses: the  *)
(* boot-time allocator, the page allocator, the virtual one with its page  *)
(* tables, the BARs of PCI and the tables of the IOMMU.  Each is checked   *)
(* against what it assumes of the others, so a behaviour runs one.         *)
(***************************************************************************)
EXTENDS PhysAlloc, PageAlloc, Sequences

CONSTANT Parts

VARIABLES
    part,
    cr3, pt, free, vfree_top, blocks, want, large,
    bridge, allocated, devs, at, placed, warned, cmd, resource, b_aborted,
    iommu, v_pc, mem, i_free, gsts, rtaddr, root, mapped, irt, index_ctr, redir, msi, words, buf,
    edu_intr_recved, v_reports

-----------------------------------------------------------------------------
(* The variables of each part. *)

vm == <<cr3, pt, free, vfree_top, blocks, want, large>>
bus == <<bridge, allocated, devs, at, placed, warned, cmd, resource, b_aborted>>
vtd == <<iommu, v_pc, mem, i_free, gsts, rtaddr, root, mapped, irt, index_ctr, redir, msi, words,
         buf, edu_intr_recved, v_reports>>

-----------------------------------------------------------------------------
(* The instances and their bounds. *)

Vm == INSTANCE X86Vm
      WITH Levels <- 3, Fanout <- 3, EndOfMemory <- 11, Ram <- 1..10, Mmio <- {20},
           MaxPages <- 2, MaxVirt <- 6

\* One CPU that uses every entry point until nothing is left, or two that
\* take single pages and never more than there are.  Or, to show the race in
\* alloc_pages, two that take blocks.
Alone == [cpus |-> {CHOOSE c \in CPU : TRUE}, ops |-> {"page", "pages", "memalign"}, spare |-> FALSE]
Single == [cpus |-> CPU, ops |-> {"page"}, spare |-> TRUE]
Block == [cpus |-> CPU, ops |-> {"pages"}, spare |-> TRUE]
MCPageUses == {Alone, Single}
MCBlocks == {Block}

\* Devices with BARs of every kind, and host bridges with and without a
\* window for them.
Bar(kind, size) == [kind |-> kind, size |-> size, addr |-> 0]
None == Bar("none", 0)
High == Bar("high", 0)
First == {<<Bar("io", 4), Bar("mem", 16), None>>,
          <<Bar("mem", 32), Bar("mem prefetch", 16), Bar("io", 8)>>,
          <<Bar("mem64", 32), High, Bar("io", 16)>>,
          <<Bar("mem", 16), Bar("mem64 prefetch", 128), High>>}
Second == First \cup {<<None, None, None>>,
                      <<Bar("mem64", 512), High, Bar("mem", 64)>>,
                      <<Bar("io", 32), Bar("mem", 128), Bar("io", 16)>>}
Window(space, prefetch, pci, start, size) ==
    [space |-> space, prefetch |-> prefetch, pci_start |-> pci, start |-> start, size |-> size]
MCBridges == {
    <<Window(1, FALSE, 0, 1000, 64), Window(2, FALSE, 72, 2000, 184), Window(3, FALSE, 256, 4000, 1024)>>,
    <<Window(1, FALSE, 0, 1000, 32), Window(2, TRUE, 48, 2000, 64), Window(2, FALSE, 112, 3000, 96)>>,
    <<Window(2, FALSE, 0, 2000, 256), Window(3, TRUE, 256, 4000, 256)>>,
    <<Window(2, FALSE, 64, 2000, 192)>>}

Bus == INSTANCE Pci
       WITH W <- 8, Devices <- <<First, Second>>, Bridges <- MCBridges, aborted <- b_aborted

Vtd == INSTANCE Iommu
       WITH NPages <- 20, MaxMaps <- 2, free <- i_free,
            Iommus <- {"none", "no translation", "no IR_TABLE status", "no QI", "no interrupt",
                       "no remapping"}

-----------------------------------------------------------------------------
(* The part that runs starts in any of its initial states, the others in   *)
(* one of theirs, where they stay.                                         *)

MemoryInit ==
    /\ part \in Parts
    /\ Init
    /\ Vm!Init
    /\ PageInit /\ (part # "pages" => use = Alone)
    /\ Bus!Init
    /\ part # "pci" => Len(bridge) = 1 /\ devs[1] = devs[2] /\ devs[1][1].kind = "io"
    /\ Vtd!Init /\ (part # "iommu" => iommu = "none")

MemoryNext ==
    /\ UNCHANGED part
    /\ IF part = "phys" THEN Next ELSE UNCHANGED vars
    /\ IF part = "vm" THEN Vm!Next ELSE UNCHANGED vm
    /\ IF part = "pages" THEN PageNext ELSE UNCHANGED pageVars
    /\ IF part = "pci" THEN Bus!Next ELSE UNCHANGED bus
    /\ IF part = "iommu" THEN Vtd!Next ELSE UNCHANGED vtd

MemorySpec ==
    MemoryInit /\ [][MemoryNext]_<<part, vars, vm, pageVars, bus, vtd>>

-----------------------------------------------------------------------------
\* The virtual allocator and its page tables (lib/x86/vm.c, lib/vmalloc.c),
\* see X86Vm: every page is mapped as the operations say, frames and virtual
\* pages are not shared, and get_pte agrees with the walk of the CPU.
PageTablesRight == part = "vm" => Vm!MapsRight /\ Vm!NoSharing /\ Vm!LookupAgrees

\* pci_probe (lib/pci.c, lib/pci-host-generic.c), see Pci.
BarsPlaced == part = "pci" => Bus!BarsPlaced

\* The IOMMU's tables and its test (lib/x86/intel-iommu.c, x86/intel-iommu.c),
\* see Iommu.
IommuVerdict == part = "iommu" => Vtd!IommuVerdict
=============================================================================
