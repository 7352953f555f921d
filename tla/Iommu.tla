--------------------------------- MODULE Iommu ---------------------------------
(***************************************************************************)
(* lib/x86/intel-iommu.c with x86/intel-iommu.c, which tests DMA and       *)
(* interrupt remapping with the edu device of lib/pci-edu.c.               *)
(*                                                                         *)
(* A table is a page of Radix entries; an entry is 0 (not present) or the  *)
(* page it names.  Pages come from alloc_page with what was in them.  A    *)
(* source id is <<bus, devfn>>, an IOVA the number of a page.              *)
(***************************************************************************)
EXTENDS Integers, Sequences, FiniteSetsExt, Functions

CONSTANTS
    NPages,         \* pages that alloc_page can give
    MaxMaps,        \* calls of vtd_map_range before the test, at most
    Iommus          \* defects of the IOMMU: "none" or one of those below

Radix == 2
Levels == 3         \* VTD_PAGE_LEVEL
Pages == 1..NPages
Offsets == 0..(Radix - 1)
Iovas == 0..(Radix ^ Levels - 1)
Sids == Offsets \X Offsets
Frames == {100, 101}            \* memory that callers map, apart from the tables
EduSid == <<0, 1>>
TestPage == 102                 \* the page that vtd_test_dmar allocates
Nowhere == 0

VARIABLES
    iommu,                  \* the defect
    v_pc,
    mem, free,              \* contents of the table pages; the pages that are left
    gsts,                   \* global status
    rtaddr, root,           \* DMAR_RTADDR_REG; the root table that the IOMMU uses
    mapped,                 \* per source id and IOVA what was mapped last, Nowhere if nothing
    irt, index_ctr,         \* interrupt remapping table; vtd_intr_index_alloc
    redir, msi,             \* index in the redirection entry of the edu device, in its MSI address
    words, buf,             \* the first two words of the test page; the buffer of the edu device
    edu_intr_recved,
    v_reports               \* verdicts: <<test, passed>>

vars == <<iommu, v_pc, mem, free, gsts, rtaddr, root, mapped, irt, index_ctr, redir, msi, words, buf, edu_intr_recved, v_reports>>

tables == <<mem, free, mapped>>
regs == <<gsts, rtaddr, root>>
intr == <<irt, index_ctr, redir, msi>>
edu == <<words, buf, edu_intr_recved>>

-----------------------------------------------------------------------------
(* Tables *)

\* Mutant: a new table keeps what was in its page.
NewTable_Stale(s) == [mem |-> s.mem, free |-> s.free \ {Min(s.free)}, at |-> Min(s.free)]

\* alloc_page and memset.
NewTable(s) ==
    LET p == Min(s.free) IN [mem |-> [s.mem EXCEPT ![p] = [o \in Offsets |-> 0]], free |-> s.free \ {p}, at |-> p]

\* From the table s.at to the one that its entry o names, which is made if it is not present.
Enter(s, o) ==
    IF s.mem[s.at][o] # 0 THEN [s EXCEPT !.at = s.mem[s.at][o]]
    ELSE LET n == NewTable(s) IN [n EXCEPT !.mem[s.at][o] = n.at]

\* PGDIR_OFFSET
Offset(iova, level) == (iova \div Radix ^ (level - 1)) % Radix

\* vtd_install_pte with level_target 1, the only one that is used.
vtd_install_pte(s, slptptr, iova, pa) ==
    LET table[level \in 1..Levels] ==
            IF level = Levels THEN [s EXCEPT !.at = slptptr] ELSE Enter(table[level + 1], Offset(iova, level + 1))
    IN [table[1] EXCEPT !.mem[table[1].at][Offset(iova, 1)] = pa]

\* The tables after vtd_map_range of n pages from iova to the frame pa: root entry, context entry, then every page.
MapRange(sid, iova, pa, n) ==
    LET context == Enter([mem |-> mem, free |-> free, at |-> root], sid[1])
        top == Enter(context, sid[2])
        done[k \in 0..n] == IF k = 0 THEN top ELSE vtd_install_pte(done[k - 1], top.at, iova + k - 1, pa + k - 1)
    IN done[n]

vtd_map_range(sid, iova, pa, n) ==
    /\ LET s == MapRange(sid, iova, pa, n) IN mem' = s.mem /\ free' = s.free
    /\ mapped' = [mapped EXCEPT ![sid] = [i \in Iovas |-> IF i \in iova..(iova + n - 1) THEN pa + i - iova ELSE @[i]]]

\* What the IOMMU finds for an IOVA.  External.
Translate(sid, iova) ==
    LET step(p, o) == IF p \in Pages THEN mem[p][o] ELSE Nowhere
        table[level \in 0..Levels] ==
            IF level = Levels THEN step(step(root, sid[1]), sid[2]) ELSE step(table[level + 1], Offset(iova, level + 1))
    IN table[0]

-----------------------------------------------------------------------------
(* vtd_init *)

InitCommands == <<"QI", "ROOT", "IR_TABLE", "DMAR", "IR">>

\* vtd_gcmd_or, with the set-up of the table that goes before it.  The status with its one-shot bits is written again.
\* Without an answer to a bit that is not one-shot the wait has no end: the step is not enabled.
vtd_gcmd_or(k) ==
    LET cmd == InitCommands[k]
        s == NewTable([mem |-> mem, free |-> free, at |-> 0])
        written == gsts \union {cmd}
    IN /\ v_pc = <<"init", k>>
       /\ IF cmd \in {"ROOT", "IR_TABLE"} THEN mem' = s.mem /\ free' = s.free ELSE UNCHANGED <<mem, free>>
       /\ rtaddr' = IF cmd = "ROOT" THEN s.at ELSE rtaddr
       /\ root' = IF "ROOT" \in written THEN rtaddr' ELSE root
       /\ gsts' = IF iommu = "no IR_TABLE status" THEN written \ {"IR_TABLE"} ELSE IF iommu = "no QI" THEN written \ {"QI"} ELSE written
       /\ cmd \in gsts' \union {"ROOT", "IR_TABLE"}
       /\ v_pc' = IF k < Len(InitCommands) THEN <<"init", k + 1>> ELSE <<"maps", 1>>
       /\ v_reports' = IF k < Len(InitCommands) THEN v_reports ELSE {<<"init", Range(InitCommands) \subseteq gsts'>>}
       /\ UNCHANGED <<iommu, mapped, intr, edu>>

\* Other users of the library map ranges of their own, as long as pages for the test are left.
OtherMap(sid, iova, pa, n) ==
    /\ v_pc[1] = "maps" /\ v_pc[2] <= MaxMaps
    /\ iova + n - 1 \in Iovas /\ pa + n - 1 \in Frames
    /\ Cardinality(free) >= 2 * Levels + 4
    /\ vtd_map_range(sid, iova, pa, n)
    /\ v_pc' = <<"maps", v_pc[2] + 1>>
    /\ UNCHANGED <<iommu, regs, intr, edu, v_reports>>

-----------------------------------------------------------------------------
(* The test *)

\* vtd_test_dmar: the first word of a page is set and the page mapped at IOVA 0 of the device.  The second word is
\* what the page had.
DmarMap ==
    /\ v_pc[1] = "maps"
    /\ vtd_map_range(EduSid, 0, TestPage, 1)
    /\ \E stale \in {"test", "other"} : words' = <<"test", stale>>
    /\ v_pc' = <<"dma in", 0>>
    /\ UNCHANGED <<iommu, regs, intr, buf, edu_intr_recved, v_reports>>

\* Where DMA of the device at IOVA 0 goes.
Target == IF iommu = "no translation" THEN Nowhere ELSE Translate(EduSid, 0)

\* edu_dma to the device, waited for.
DmaIn ==
    /\ v_pc[1] = "dma in"
    /\ buf' = IF Target = TestPage THEN words[1] ELSE "other"
    /\ v_pc' = <<"dma out", 0>>
    /\ UNCHANGED <<iommu, tables, regs, intr, words, edu_intr_recved, v_reports>>

\* edu_dma back to offset 4, and the verdict.
DmaOut ==
    /\ v_pc[1] = "dma out"
    /\ words' = IF Target = TestPage THEN [words EXCEPT ![2] = buf] ELSE words
    /\ v_reports' = v_reports \union {<<"dmar", words'[2] = "test">>}
    /\ v_pc' = <<"ioapic", 0>>
    /\ UNCHANGED <<iommu, tables, regs, intr, buf, edu_intr_recved>>

\* vtd_intr_index_alloc and vtd_setup_irte.
vtd_setup_irte(vector) ==
    /\ index_ctr' = index_ctr + 1
    /\ irt' = [i \in DOMAIN irt \union {index_ctr'} |-> IF i = index_ctr' THEN [vector |-> vector, sid |-> EduSid] ELSE irt[i]]

\* vtd_test_ir: pci_msi_set_enable(false), vtd_setup_ioapic_irq, the flag is cleared and the interrupt raised.
RaiseIoapic ==
    /\ v_pc[1] = "ioapic"
    /\ vtd_setup_irte(237)
    /\ redir' = index_ctr' /\ msi' = 0
    /\ edu_intr_recved' = FALSE
    /\ v_pc' = <<"wait ioapic", 237>>
    /\ UNCHANGED <<iommu, tables, regs, words, buf, v_reports>>

\* vtd_setup_msi and the second interrupt; a device without MSI: the test is skipped (the IRTE is taken all the same).
RaiseMsi ==
    /\ v_pc[1] = "msi"
    /\ vtd_setup_irte(238)
    /\ \/ msi' = index_ctr' /\ edu_intr_recved' = FALSE /\ v_pc' = <<"wait msi", 238>>
       \/ v_pc' = <<"end", 0>> /\ UNCHANGED <<msi, edu_intr_recved>>
    /\ UNCHANGED <<iommu, tables, regs, redir, words, buf, v_reports>>

\* The device uses its MSI when it is enabled, else the IOAPIC; the IOMMU looks the IRTE up.  External, with edu_isr.
Interrupt ==
    LET index == IF msi # 0 THEN msi ELSE redir IN
    /\ v_pc[1] \in {"wait ioapic", "wait msi"} /\ ~edu_intr_recved
    /\ iommu # "no interrupt"
    /\ iommu = "no remapping" => msi = 0            \* the MSI data have no vector
    /\ index \in DOMAIN irt /\ irt[index].sid = EduSid
    /\ irt[index].vector = v_pc[2]                  \* only this vector has edu_isr
    /\ edu_intr_recved' = TRUE
    /\ UNCHANGED <<iommu, v_pc, tables, regs, intr, words, buf, v_reports>>

Received ==
    /\ v_pc[1] \in {"wait ioapic", "wait msi"} /\ edu_intr_recved
    /\ v_reports' = v_reports \union {<<IF v_pc[1] = "wait msi" THEN "msi" ELSE "ioapic", TRUE>>}
    /\ v_pc' = IF v_pc[1] = "wait msi" THEN <<"end", 0>> ELSE <<"msi", 0>>
    /\ UNCHANGED <<iommu, tables, regs, intr, edu>>

Waits == (v_pc[1] \in {"end", "wait ioapic", "wait msi", "init"}) /\ UNCHANGED vars

Init ==
    /\ iommu \in Iommus
    /\ mem = [p \in Pages |-> [o \in Offsets |-> 1]]      \* what the pages hold
    /\ v_pc = <<"init", 1>> /\ free = Pages /\ gsts = {} /\ rtaddr = 0 /\ root = 0
    /\ mapped = [s \in Sids |-> [i \in Iovas |-> Nowhere]]
    /\ irt = << >> /\ index_ctr = 0 /\ redir = 0 /\ msi = 0 /\ buf = "other" /\ edu_intr_recved = FALSE /\ v_reports = {} /\ words = <<"other", "other">>

Next ==
    \/ \E k \in 1..Len(InitCommands) : vtd_gcmd_or(k)
    \/ \E sid \in Sids \ {<<1, 0>>}, iova \in {0, 3}, pa \in Frames, n \in 1..2 : OtherMap(sid, iova, pa, n)
    \/ DmarMap \/ DmaIn \/ DmaOut \/ RaiseIoapic \/ RaiseMsi \/ Interrupt \/ Received \/ Waits

Spec == Init /\ [][Next]_vars

-----------------------------------------------------------------------------
TablePages == Pages \ free

(* In every state after vtd_init the IOMMU finds for every device and IOVA *)
(* what vtd_map_range mapped there last, and nothing where nothing was     *)
(* mapped, although pages come with old contents; no two entries name the  *)
(* same table.  The test ends with no failure on an IOMMU that works and   *)
(* not on one that drops interrupts or does not remap MSI; an IOMMU that   *)
(* does not translate fails unless the page held the test word before.     *)
IommuVerdict ==
    /\ v_pc[1] # "init" =>
        /\ \A sid \in Sids, iova \in Iovas : Translate(sid, iova) = mapped[sid][iova]
        /\ \A p, q \in TablePages, o, r \in Offsets :
            mem[p][o] \in Pages /\ mem[p][o] = mem[q][r] => p = q /\ o = r
    /\ iommu = "none" => \A r \in v_reports : r[2]
    /\ iommu = "no translation" /\ v_pc[1] = "ioapic" => <<"dmar", words[2] = "test">> \in v_reports /\ buf = "other"
    /\ iommu = "no IR_TABLE status" => <<"init", TRUE>> \notin v_reports
    /\ v_pc[1] = "end" => iommu \notin {"no QI", "no interrupt"} /\ (iommu = "no remapping" => msi = 0)
    /\ index_ctr <= 2 /\ (v_pc[1] = "end" /\ msi # 0 => msi # redir)

=============================================================================
