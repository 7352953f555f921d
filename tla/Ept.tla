--------------------------------- MODULE Ept ---------------------------------
(***************************************************************************)
(* The extended page tables of x86/vmx.c:708-1020, which the EPT tests of  *)
(* vmx_tests.c build, change under a running guest, and read back: large   *)
(* pages are split on demand, entries are twiddled and restored, accessed  *)
(* and dirty bits are cleared and compared.                                *)
(*                                                                         *)
(* Addresses are page numbers; a table has Fanout entries.  The guest runs *)
(* on page tables of its own, which are guest memory as well: reaching a   *)
(* page touches the tables on the way.  The processor is external and may  *)
(* keep accessed and dirty bits wrongly.                                   *)
(***************************************************************************)
EXTENDS Integers, FiniteSets, SequencesExt

CONSTANTS
    Fanout,     \* EPT_PGDIR_ENTRIES
    GuestAddrs, \* guest addresses: [tables |-> Seq of gpas, leaf |-> gpa or Absent]
    Remap,      \* gpas that tests map anew, and the pages they map them to
    Cpus,       \* processors: "none" is a right one
    MaxOps      \* bound: changes of the tables after setup_ept

Levels == 4     \* EPT_PAGE_LEVEL
Gpas == 0..(Fanout^Levels - 1)
Index == 0..(Fanout - 1)
Root == 1       \* pml4
Absent == -1    \* an entry above level 1 of the guest's tables is not present
None == 0
All == {"R", "W", "X"}

VARIABLES
    cpu, have_ad,
    todo,       \* pages that setup_ept_range has still to map: [level, gpa]
    tables,     \* table pages in the order of their allocation
    twiddled,   \* the entry that a test has changed for a while, or <<>>
    want, ad,   \* ghosts: [hpa, perm, level] of each gpa; the bits it should show
    n_ops, ept_failed,
    telling     \* ghost: a check was made that a wrong processor cannot pass

vars == <<cpu, have_ad, todo, tables, twiddled, want, ad, n_ops, ept_failed, telling>>

Entry(perm, ps, addr) == [perm |-> perm, ps |-> ps, ad |-> {}, addr |-> addr]
Zero == [i \in Index |-> Entry({}, FALSE, 0)]
Present(e) == e.perm # {}
Offset(gpa, level) == (gpa \div Fanout^(level - 1)) % Fanout
\* An entry of the given level in the mapping of gpa is in that of x as well.
Covers(gpa, level, x) == x \div Fanout^(level - 1) = gpa \div Fanout^(level - 1)

-----------------------------------------------------------------------------
(* install_ept_entry *)

\* Mutant: every small page is the first one of the large page.
SplitLargeEptEntry_SameGpa(t, at, off, level) ==
    LET e == t[at][off] IN
    Append([t EXCEPT ![at][off] = [e EXCEPT !.ps = FALSE, !.addr = Len(t) + 1]],
           [i \in Index |-> [e EXCEPT !.ps = level # 2]])

\* The entries of the new table have the large page's bits, and so has the
\* entry that now leads to it.
SplitLargeEptEntry(t, at, off, level) ==
    LET e == t[at][off] IN
    Append([t EXCEPT ![at][off] = [e EXCEPT !.ps = FALSE, !.addr = Len(t) + 1]],
           [i \in Index |-> [e EXCEPT !.ps = level # 2, !.addr = @ + i * Fanout^(level - 2)]])

\* One turn of the loop: the tables once the entry leads to a table.
Down(t, at, off, level) ==
    IF ~Present(t[at][off]) THEN Append([t EXCEPT ![at][off] = Entry(All, FALSE, Len(t) + 1)], Zero)
    ELSE IF t[at][off].ps THEN SplitLargeEptEntry(t, at, off, level)
    ELSE t

InstallEptEntry(t, pte_level, gpa, pte) ==
    LET walk[l \in pte_level..Levels] ==
            IF l = Levels THEN [t |-> t, at |-> Root]
            ELSE LET up == walk[l + 1]
                     d == Down(up.t, up.at, Offset(gpa, l + 1), l + 1)
                 IN  [t |-> d, at |-> d[up.at][Offset(gpa, l + 1)].addr]
        w == walk[pte_level]
    IN  [w.t EXCEPT ![w.at][Offset(gpa, pte_level)] = pte]

\* install_ept, install_2m_ept, install_1g_ept
InstallEpt(t, level, hpa, gpa, perm) == InstallEptEntry(t, level, gpa, Entry(perm, level > 1, hpa))

\* setup_ept_range over len pages: as many pages of each size as fit, the
\* largest first.
Sizes(len, map_1g, map_2m) ==
    LET n3 == IF map_1g THEN len \div Fanout^2 ELSE 0
        n2 == IF map_2m THEN (len - n3 * Fanout^2) \div Fanout ELSE 0
        b3 == n3 * Fanout^2
        b2 == b3 + n2 * Fanout
    IN  [k \in 1..(n3 + n2 + len - b2) |->
            IF k <= n3 THEN [level |-> 3, gpa |-> (k - 1) * Fanout^2]
            ELSE IF k <= n3 + n2 THEN [level |-> 2, gpa |-> b3 + (k - n3 - 1) * Fanout]
            ELSE [level |-> 1, gpa |-> b2 + k - n3 - n2 - 1]]

\* setup_ept: no large pages where accessed and dirty bits matter.
Init ==
    /\ cpu \in Cpus /\ have_ad \in BOOLEAN /\ (cpu # "none" => have_ad)
    /\ \E m1, m2 \in BOOLEAN : todo = Sizes(Fanout^Levels - 1, m1, m2) /\ (have_ad => ~m1 /\ ~m2)
    /\ tables = <<Zero>> /\ twiddled = <<>>
    /\ want = [g \in Gpas |-> [hpa |-> 0, perm |-> {}, level |-> 1]] /\ ad = [g \in Gpas |-> {}]
    /\ n_ops = -1 /\ ept_failed = FALSE /\ telling = FALSE

-----------------------------------------------------------------------------
(* Walks. *)

\* The table of the next level, None if the walk ends; clear_ept_ad_pte does
\* not look at the present bits.
Step(t, at, gpa, level, present_only) ==
    IF at = None THEN None
    ELSE LET e == t[at][Offset(gpa, level)] IN
         IF (level < Levels /\ e.ps) \/ (present_only /\ ~Present(e)) THEN None ELSE e.addr

\* The tables of levels 1 to 4 in the mapping of gpa.
Path(t, gpa, present_only) ==
    LET p3 == Step(t, Root, gpa, 4, present_only)
        p2 == Step(t, p3, gpa, 3, present_only)
        p1 == Step(t, p2, gpa, 2, present_only)
    IN  <<p1, p2, p3, Root>>

HasEptPte(t, gpa, level) == Path(t, gpa, TRUE)[level] # None
GetEptPte(t, gpa, level) == t[Path(t, gpa, TRUE)[level]][Offset(gpa, level)]
\* Callers have found the entry with get_ept_pte before.
SetEptPte(t, gpa, level, pte) ==
    [t EXCEPT ![Path(t, gpa, FALSE)[level]][Offset(gpa, level)] = pte]

\* The entries of the given levels in the mapping of gpa.
Slots(p, gpa, levels) == {<<p[l], Offset(gpa, l)>> : l \in levels}
WithAd(t, slots, new(_, _, _)) ==
    [f \in DOMAIN t |-> [i \in Index |->
        IF <<f, i>> \in slots THEN [t[f][i] EXCEPT !.ad = new(f, i, @)] ELSE t[f][i]]]

\* Mutant: the bits of the last entry stay.
ClearEptAdPte_NotLast(t, gpa) ==
    LET slots == Slots(Path(t, gpa, FALSE), gpa, 2..Levels) IN
    WithAd(t, slots, LAMBDA f, i, old : {})

ClearEptAdPte(t, gpa) ==
    LET slots == Slots(Path(t, gpa, FALSE), gpa, 1..Levels) IN
    WithAd(t, slots, LAMBDA f, i, old : {})

\* The gpas that clear_ept_ad and check_ept_ad go through: the guest's
\* tables for the address, then the page itself.  Both return at an entry
\* that is not present, unless it is of level 1.
Touched(g) == IF g.leaf = Absent THEN g.tables ELSE Append(g.tables, g.leaf)

ClearEptAd(t, g) == FoldLeft(ClearEptAdPte, t, Touched(g))

\* check_ept_ad reports a failure.  It returns without one at a table that
\* has no entry of level 1.
CheckEptAdFails(t, g, expected_gpa_ad, expected_pt_ad) ==
    LET n == Len(g.tables)
        found == {k \in 1..n : \A j \in 1..k : HasEptPte(t, g.tables[j], 1)}
        bad_pt_ad == \E k \in found : GetEptPte(t, g.tables[k], 1).ad # expected_pt_ad
    IN  \/ bad_pt_ad
        \/ /\ Cardinality(found) = n
           /\ g.leaf # Absent
           /\ ~HasEptPte(t, g.leaf, 1) \/ GetEptPte(t, g.leaf, 1).ad # expected_gpa_ad

-----------------------------------------------------------------------------
(* The processor. *)

\* Where gpa leads and what may be done there, through entries that are all
\* present.
LeafLevel(p) == CHOOSE l \in 1..Levels : p[l] # None /\ \A k \in 1..(l - 1) : p[k] = None
Walk(t, gpa) ==
    LET p == Path(t, gpa, TRUE)
        l == LeafLevel(p)
        entries == {t[s[1]][s[2]] : s \in Slots(p, gpa, l..Levels)}
        perm == {x \in All : \A e \in entries : x \in e.perm}
    IN  IF perm = {} THEN [hpa |-> 0, perm |-> {}]
        ELSE [hpa |-> t[p[l]][Offset(gpa, l)].addr + (gpa % Fanout^(l - 1)), perm |-> perm]

Bits(write) ==
    (IF cpu = "no A" THEN {} ELSE {"A"})
    \cup (IF (write /\ cpu # "no D") \/ cpu = "D on read" THEN {"D"} ELSE {})
Marked(t, gpa, write) ==
    LET p == Path(t, gpa, TRUE)
        slots == Slots(p, gpa, LeafLevel(p)..Levels)
    IN  WithAd(t, slots, LAMBDA f, i, old :
                   old \cup (IF f = p[LeafLevel(p)] THEN Bits(write) ELSE Bits(FALSE) \ {"D"}))

\* An access gets as far as permissions let it.  With accessed and dirty
\* bits, the guest's tables are written.
Access(g, write) ==
    LET path == Touched(g)
        n == Len(path)
        w(k) == IF k > Len(g.tables) THEN write ELSE have_ad
        ok(k) == (IF w(k) THEN "W" ELSE "R") \in Walk(tables, path[k]).perm
    IN  \E last \in 0..n :
          /\ n_ops >= 0 /\ have_ad
          /\ \A k \in 1..last : ok(k)
          /\ last < n => ~ok(last + 1)
          /\ tables' = FoldLeft(LAMBDA t, k : Marked(t, path[k], w(k)), tables, [k \in 1..last |-> k])
          /\ ad' = [x \in Gpas |-> ad[x] \cup
                      {b \in {"A", "D"} : \E k \in 1..last :
                          Covers(path[k], want[path[k]].level, x) /\ (b = "D" => w(k))}]
          /\ UNCHANGED <<cpu, have_ad, todo, twiddled, want, n_ops, ept_failed, telling>>

-----------------------------------------------------------------------------
(* What the tests do. *)

Operation == n_ops \in 0..(MaxOps - 1) /\ n_ops' = n_ops + 1 /\ UNCHANGED <<cpu, have_ad, todo>>

\* One turn of setup_ept_range: an identity mapping.
SetupEptRange ==
    LET p == Head(todo) IN
    /\ todo # <<>> /\ todo' = Tail(todo)
    /\ n_ops' = IF Len(todo) = 1 THEN 0 ELSE n_ops
    /\ tables' = InstallEpt(tables, p.level, p.gpa, p.gpa, All)
    /\ want' = [x \in Gpas |-> IF Covers(p.gpa, p.level, x)
                              THEN [hpa |-> x, perm |-> All, level |-> p.level] ELSE want[x]]
    /\ UNCHANGED <<cpu, have_ad, twiddled, ad, ept_failed, telling>>

\* install_ept of one page with any permissions, or of a large page.
Install(level, hpa, gpa, perm) ==
    /\ Operation /\ twiddled = <<>>
    /\ level > 1 => ~have_ad /\ perm = All /\ gpa % Fanout^(level - 1) = 0 /\ hpa % Fanout^(level - 1) = 0
    /\ tables' = InstallEpt(tables, level, hpa, gpa, perm)
    /\ want' = [x \in Gpas |->
           IF Covers(gpa, level, x) THEN [hpa |-> hpa + x - gpa, perm |-> perm, level |-> level]
           \* a large page around it has been split
           ELSE [want[x] EXCEPT !.level =
                    IF Covers(x, @, gpa) THEN CHOOSE l \in level..Levels :
                        ~Covers(x, l, gpa) /\ Covers(x, l + 1, gpa) ELSE @]]
    /\ ad' = [x \in Gpas |-> IF Covers(gpa, level, x) THEN {} ELSE ad[x]]
    /\ UNCHANGED <<twiddled, ept_failed, telling>>

\* ept_twiddle and ept_untwiddle, and the stages 3 and 4 of the EPT tests: an
\* entry of any level loses permissions, and is put back as it was.
Twiddle(gpa, level, perm) ==
    /\ Operation /\ twiddled = <<>> /\ HasEptPte(tables, gpa, level)
    /\ LET e == GetEptPte(tables, gpa, level) IN
       /\ perm \subseteq e.perm /\ perm # e.perm
       /\ tables' = SetEptPte(tables, gpa, level, [e EXCEPT !.perm = perm])
       /\ twiddled' = <<[gpa |-> gpa, level |-> level, perm |-> perm, pte |-> e, ad |-> ad]>>
    /\ UNCHANGED <<want, ad, ept_failed, telling>>

Untwiddle ==
    /\ twiddled # <<>>
    /\ LET o == twiddled[1] IN
       /\ tables' = SetEptPte(tables, o.gpa, o.level, o.pte)
       /\ ad' = [x \in Gpas |-> IF Covers(o.gpa, o.level, x) /\ want[x].level = o.level THEN o.ad[x] ELSE ad[x]]
    /\ twiddled' = <<>>
    /\ UNCHANGED <<cpu, have_ad, todo, want, n_ops, ept_failed, telling>>

Clear(g) ==
    /\ Operation
    /\ tables' = ClearEptAd(tables, g)
    /\ ad' = [x \in Gpas |->
           IF \E k \in DOMAIN Touched(g) : Covers(Touched(g)[k], want[Touched(g)[k]].level, x)
           THEN {} ELSE ad[x]]
    /\ UNCHANGED <<twiddled, want, ept_failed, telling>>

\* The tests ask where the same is expected of all tables of the guest.
Check(g) ==
    LET pt_ad == ad[g.tables[1]]
        gpa_ad == IF g.leaf = Absent THEN {} ELSE ad[g.leaf]
    IN
    /\ n_ops >= 0 /\ have_ad
    /\ \A k \in DOMAIN g.tables : ad[g.tables[k]] = pt_ad
    /\ \A k \in DOMAIN Touched(g) : HasEptPte(tables, Touched(g)[k], 1)
    /\ ept_failed' = (ept_failed \/ CheckEptAdFails(tables, g, gpa_ad, pt_ad))
    /\ telling' = (telling \/ \/ cpu = "no A" /\ "A" \in pt_ad \cup gpa_ad
                              \/ cpu = "no D" /\ "D" \in pt_ad \cup gpa_ad
                              \/ cpu = "D on read" /\ gpa_ad = {"A"})
    /\ UNCHANGED <<cpu, have_ad, todo, tables, twiddled, want, ad, n_ops>>

Next ==
    \/ SetupEptRange
    \/ \E r \in Remap, l \in 1..3, p \in {All, {}} : Install(l, r.hpa, r.gpa, p)
    \/ \E r \in Remap, l \in 1..Levels, p \in {{}, {"R"}} : Twiddle(r.gpa, l, p)
    \/ Untwiddle
    \/ \E g \in GuestAddrs : Clear(g) \/ Check(g) \/ \E w \in BOOLEAN : Access(g, w)

Spec == Init /\ [][Next]_vars

-----------------------------------------------------------------------------
\* The processor finds every page where the operations put it, with the
\* permissions they gave: splitting a large page for one of its pages moves
\* none of the others, and an entry that was twiddled is restored.
EptMapsRight ==
    \A x \in Gpas :
      LET limit == IF twiddled # <<>> /\ Covers(twiddled[1].gpa, twiddled[1].level, x)
                   THEN twiddled[1].perm ELSE All
          perm == want[x].perm \cap limit
      IN  n_ops >= 0 => Walk(tables, x) = [hpa |-> IF perm = {} THEN 0 ELSE want[x].hpa, perm |-> perm]

\* check_ept_ad passes a right processor whatever was accessed, cleared,
\* mapped anew and twiddled before, and fails one that keeps the bits
\* wrongly once it asks for such a bit.
EptVerdict ==
    /\ cpu = "none" => ~ept_failed
    /\ telling => ept_failed
=============================================================================
