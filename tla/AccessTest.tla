----------------------------- MODULE AccessTest -----------------------------
(***************************************************************************)
(* x86/access.c: the test of the page walk.  It builds page tables for     *)
(* every combination of 27 flags, says what an access must do, makes the   *)
(* access and compares; four cases with two mappings follow.  The          *)
(* processor is external: its walk, its TLB, its error codes, and a few    *)
(* ways in which a processor can be wrong, which the test is there to find.*)
(*                                                                         *)
(* A flag is a pair, <<"pte", "rw">> for AC_PTE_WRITABLE.  The accessed    *)
(* bits of entries above the page directory are left out: nothing reads    *)
(* them.                                                                   *)
(***************************************************************************)
EXTENDS Integers, Sequences, FiniteSets, SequencesExt, TLC

CONSTANTS
    Machines,   \* [vary, cpuid, defect]: flags enumerated, features, what is broken
    PoolPages   \* pt_pool_size in pages

PteBits == <<"p", "rw", "user", "a", "d", "nx", "51">>
PdeBits == <<"p", "rw", "user", "a", "d", "ps", "nx", "51", "13">>

\* The flags in the order of their bits.
Flags ==
    [i \in DOMAIN PteBits |-> <<"pte", PteBits[i]>>]
    \o [i \in DOMAIN PdeBits |-> <<"pde", PdeBits[i]>>]
    \o << <<"pku", "ad">>, <<"pku", "wd">>, <<"pku", "pkey">>,
          <<"access", "user">>, <<"access", "write">>, <<"access", "fetch">>, <<"access", "twice">>,
          <<"cpu", "nx">>, <<"cpu", "wp">>, <<"cpu", "smep">>, <<"cpu", "pke">> >>

AllFlags == ToSet(Flags)
End == {<<"end", "of the loop">>}
User == <<"access", "user">>
Write == <<"access", "write">>
Fetch == <<"access", "fetch">>
Twice == <<"access", "twice">>
Large == <<"pde", "ps">>

ASSUME MachinesAssumption ==
    Machines \subseteq [vary : SUBSET AllFlags, cpuid : SUBSET {"smep", "pku", "la57"},
                        defect : {"none", "wp", "smep", "dirty", "rsvd", "invlpg", "pk",
                                  "hidden smep", "hidden pku"}]
ASSUME PoolAssumption == PoolPages \in Nat /\ PoolPages >= 10

VARIABLES
    machine,
    pc,
    levels,             \* page_table_levels
    invalid,            \* invalid_mask, at first the flags that the instance leaves out
    regs,               \* [wp, nx, smep, pke, ad, wd]: CR0.WP, EFER.NX, CR4, PKRU of key 1
    kuser,              \* the user bit of ptl2[2], under which the test's code is mapped
    mem,                \* entries: <<table, index>> -> [bits, pkey, frame]
    current,            \* pt_pool_current in pages
    tlb,                \* cached translations by virtual address
    kase,               \* 0 for the loop, else the index of the test case
    at,                 \* the ac_test_t of the test: at1, at2
    todo,               \* what is left of the test
    call,               \* [on, next]: the argument of set_cr4_smep and where it returns
    good,               \* whether the test's checks succeeded so far
    tests, successes,
    r                   \* what ac_test_run returned

vars == <<machine, pc, levels, invalid, regs, kuser, mem, current, tlb, kase, at, todo, call,
          good, tests, successes, r>>
pages == <<mem, current, tlb>>
counts == <<tests, successes>>
test == <<kase, at, todo, good>>
run == <<machine, levels, invalid, r>>

Entry(bits, pkey, frame) == [bits |-> bits, pkey |-> pkey, frame |-> frame]
Pool(n) == <<"pool", n>>
Data == <<"data", 0>>       \* at->phys, 32 MB
Fixed == <<"fixed", 0>>     \* the page at 30 MB that check_pfec_on_prefetch_pte names
Ptl(n) == <<"ptl", n>>

NoTest == [virt |-> <<>>]

Init ==
    /\ machine \in Machines
    /\ pc = "pke" /\ levels = 4 /\ invalid = AllFlags \ machine.vary
    /\ regs = [wp |-> TRUE, nx |-> TRUE, smep |-> FALSE, pke |-> FALSE, ad |-> FALSE, wd |-> FALSE]
    /\ kuser = TRUE
    /\ mem = (<<Ptl(5), 0>> :> Entry({"p", "rw", "user"}, 0, Ptl(4)))
    /\ current = 0 /\ tlb = <<>> /\ kase = 0 /\ at = <<NoTest, NoTest>> /\ todo = <<>>
    /\ call = [on |-> FALSE, next |-> "pke"] /\ good = TRUE
    /\ tests = 0 /\ successes = 0 /\ r = TRUE

-----------------------------------------------------------------------------
(* Which combinations are tried. *)

ValidFlags(inv) == SelectSeq(Flags, LAMBDA f : f \notin inv)

\* ac_test_bump_one: ((flags | invalid_mask) + 1) & ~invalid_mask; None past the end.
BumpOne(flags, inv) ==
    LET v == ValidFlags(inv)
        clear == {i \in DOMAIN v : v[i] \notin flags}
        k == CHOOSE i \in clear : \A j \in clear : i <= j
    IN  IF clear = {} THEN End
        ELSE (flags \ {v[i] : i \in 1..k}) \cup {v[k]}

Legal(flags) ==
    /\ ~(Fetch \in flags /\ Write \in flags)
    /\ ~(User \in flags /\ <<"cpu", "smep">> \in flags)
    /\ <<"cpu", "pke">> \notin flags => <<"pku", "ad">> \notin flags /\ <<"pku", "wd">> \notin flags
    /\ <<"pde", "13">> \in flags => Large \in flags

\* Mutant: the first combination that is not legal ends the loop.
Bump_StopsAtIllegal(flags, inv) ==
    LET f == BumpOne(flags, inv) IN IF f # End /\ Legal(f) THEN f ELSE End

\* ac_test_bump: as a recursive function on the combinations that remain.
Bump(flags, inv) ==
    LET go[f \in SUBSET AllFlags] ==
            LET g == BumpOne(f, inv) IN IF g = End \/ Legal(g) THEN g ELSE go[g]
    IN  go[flags]

-----------------------------------------------------------------------------
(* What an access must do: x is [pte, pde, ignore, fault, error]. *)

\* ac_test_permissions
Permissions(x, f, w, user, ex) ==
    LET kwritable == <<"cpu", "wp">> \notin f /\ User \notin f
        pk == /\ user /\ Fetch \notin f /\ <<"pku", "pkey">> \in f /\ <<"cpu", "pke">> \in f
              /\ <<"pku", "ad">> \in f \/ (Write \in f /\ <<"pku", "wd">> \in f /\ ~kwritable)
        fault == \/ x.fault \/ pk
                 \/ User \in f /\ ~user
                 \/ Write \in f /\ ~w /\ ~kwritable
                 \/ Fetch \in f /\ (~ex \/ (user /\ <<"cpu", "smep">> \in f))
    IN  [fault |-> fault, error |-> IF pk THEN x.error \cup {"pk"} ELSE x.error,
         bits |-> IF fault THEN {} ELSE IF Write \in f THEN {"a", "d"} ELSE {"a"}]

With(e, bits) == [e EXCEPT !.bits = @ \cup bits]

\* ac_emulate_access
EmulateAccess(x0, f) ==
    LET Has(e, b) == <<e, b>> \in f
        NxOk(e) == Has(e, "nx") => Has("cpu", "nx")
        x1 == [x0 EXCEPT !.error = @ \cup {m \in {"user", "write", "fetch"} : Has("access", m)},
                         !.ignore = @ \/ ~Has("pde", "a")]
        Invalid(x, e) == [x EXCEPT !.fault = TRUE,
                                   !.error = IF Has(e, "p") THEN @ \cup {"rsvd"} ELSE @ \ {"p"}]
        pdeValid == Has("pde", "p") /\ ~Has("pde", "51") /\ ~Has("pde", "13") /\ NxOk("pde")
        pteValid == Has("pte", "p") /\ ~Has("pte", "51") /\ NxOk("pte")
        pm == IF Large \in f
              THEN Permissions(x1, f, Has("pde", "rw"), Has("pde", "user"), ~Has("pde", "nx"))
              ELSE Permissions(x1, f, Has("pde", "rw") /\ Has("pte", "rw"),
                               Has("pde", "user") /\ Has("pte", "user"),
                               ~Has("pde", "nx") /\ ~Has("pte", "nx"))
        allowed == [x1 EXCEPT !.fault = pm.fault, !.error = pm.error]
        x2 == IF ~pdeValid THEN Invalid(x1, "pde")
              ELSE IF Large \in f THEN [allowed EXCEPT !.pde = With(@, pm.bits)]
              ELSE IF ~pteValid THEN [Invalid(x1, "pte") EXCEPT !.pde = With(@, {"a"})]
              ELSE [allowed EXCEPT !.pde = With(@, {"a"}), !.pte = With(@, pm.bits)]
    IN  [x2 EXCEPT !.ignore = @ /\ x2.fault,
                   !.error = IF Has("cpu", "nx") \/ Has("cpu", "smep") THEN @ ELSE @ \ {"fetch"}]

\* ac_set_expected_status, without its invlpg.
Expected(m, t) ==
    LET x == [pte |-> IF t.ptep = <<>> THEN Entry({}, 0, Data) ELSE m[t.ptep],
              pde |-> m[t.pdep], ignore |-> FALSE, fault |-> FALSE, error |-> {"p"}]
        first == EmulateAccess(x, t.flags \ {Write, Fetch, User})
    IN  EmulateAccess(IF Twice \in t.flags
                      THEN [x EXCEPT !.pte = first.pte, !.pde = first.pde] ELSE x, t.flags)

-----------------------------------------------------------------------------
(* The page tables. *)

\* Mutant: the pool is rewound for every mapping.
EnoughRoom_Never == FALSE

EnoughRoom == current + 5 <= PoolPages

\* One level of __ac_setup_specific_pages; s is [root, skip, current, mem, pdep, ptep].
SetupLevel(s, i, t, page) ==
    LET f == t.flags
        loc == <<s.root, t.virt[i]>>
        alloc == page = <<>> /\ (i >= 3 \/ (i = 2 /\ Large \notin f))
        table == IF alloc THEN Pool(s.current) ELSE page
        key(n) == IF <<"pku", "pkey">> \in f THEN n ELSE 0
        e == IF i >= 3 THEN Entry({"p", "rw", "user"}, 0, table)
             ELSE IF i = 2
                  THEN Entry({b \in ToSet(PdeBits) : <<"pde", b>> \in f},
                             IF Large \in f THEN key(1) ELSE key(2),
                             IF Large \in f THEN Data ELSE table)
                  ELSE Entry({b \in ToSet(PteBits) : <<"pte", b>> \in f}, key(1), Data)
    IN  IF s.skip /\ i >= 2 /\ t.virt[i] = 0
        THEN [s EXCEPT !.root = s.mem[loc].frame]
        ELSE [root |-> e.frame, skip |-> FALSE,
              current |-> IF alloc THEN s.current + 1 ELSE s.current,
              mem |-> (loc :> e) @@ s.mem,
              pdep |-> IF i = 2 THEN loc ELSE s.pdep,
              ptep |-> IF i = 1 THEN loc ELSE s.ptep]

SetupPages(t, page) ==
    LET last == IF Large \in t.flags THEN 2 ELSE 1
        start == [root |-> Ptl(levels), skip |-> TRUE, mem |-> mem, pdep |-> <<>>, ptep |-> <<>>,
                  current |-> IF EnoughRoom THEN current ELSE 0]
    IN  FoldLeft(LAMBDA s, k : SetupLevel(s, levels + 1 - k, t, page), start,
                 [k \in 1..(levels + 1 - last) |-> k])

-----------------------------------------------------------------------------
(* The processor: an access of kind k \subseteq {"user", "write", "fetch"}. *)

Broken(d) == machine.defect = d

\* The page directory that the walk for v comes to.
Directory(m, v) ==
    FoldLeft(LAMBDA f, k : m[<<f, v[levels + 1 - k]>>].frame, Ptl(levels),
             [k \in 1..(levels - 2) |-> k])

PdeAt(m, v) == <<Directory(m, v), v[2]>>
PteAt(m, v) == <<m[PdeAt(m, v)].frame, v[1]>>

ErrorCode(k, also) ==
    also \cup (k \ {"fetch"}) \cup (IF regs.nx \/ regs.smep THEN k \cap {"fetch"} ELSE {})

\* What forbids the access k of a page with rights c.
KeyForbids(c, k) ==
    /\ regs.pke /\ c.user /\ c.pkey = 1 /\ "fetch" \notin k
    /\ \/ regs.ad
       \/ "write" \in k /\ regs.wd /\ ("user" \in k \/ regs.wp) /\ ~Broken("pk")

Forbids(c, k) ==
    \/ "user" \in k /\ ~c.user
    \/ "write" \in k /\ ~c.rw /\ ("user" \in k \/ (regs.wp /\ ~Broken("wp")))
    \/ "fetch" \in k /\ (c.nx \/ (regs.smep /\ "user" \notin k /\ c.user /\ ~Broken("smep")))
    \/ KeyForbids(c, k)

Reserved(bits) == "51" \in bits \/ {"13", "ps"} \subseteq bits \/ ("nx" \in bits /\ ~regs.nx)

Fault(m, c, v, k, also) ==
    [fault |-> TRUE, error |-> ErrorCode(k, also), mem |-> m,
     tlb |-> [w \in DOMAIN c \ {v} |-> c[w]]]

InvalidCode(bits) ==
    IF "p" \notin bits THEN {} ELSE IF Broken("rsvd") THEN {"p"} ELSE {"p", "rsvd"}

ForbiddenCode(c, k) == {"p"} \cup (IF KeyForbids(c, k) THEN {"pk"} ELSE {})

\* A walk.  On a fault the directory's entry may have been marked as accessed.
Walk(m, cache, v, k) ==
    LET dl == PdeAt(m, v)
        d == m[dl]
        large == "ps" \in d.bits
        tl == IF large THEN dl ELSE PteAt(m, v)
        t == m[tl]
        Both(b) == b \in d.bits /\ b \in t.bits
        c == [user |-> Both("user"), rw |-> Both("rw"), nx |-> "nx" \in d.bits \cup t.bits,
              pkey |-> t.pkey, dirty |-> "d" \in t.bits \/ "write" \in k]
        Marked(n, loc, bits) == [n EXCEPT ![loc] = With(@, bits)]
        seen == IF large THEN {m} ELSE {m, Marked(m, dl, {"a"})}
        leaf == IF "write" \in k THEN {"a", "d"} ELSE {"a"}
    IN  IF "p" \notin d.bits \/ Reserved(d.bits) THEN {Fault(m, cache, v, k, InvalidCode(d.bits))}
        ELSE IF "p" \notin t.bits \/ Reserved(t.bits)
             THEN {Fault(n, cache, v, k, InvalidCode(t.bits)) : n \in seen}
        ELSE IF Forbids(c, k)
             THEN {Fault(n, cache, v, k, ForbiddenCode(c, k)) : n \in seen}
        ELSE {[fault |-> FALSE, error |-> {}, mem |-> Marked(Marked(m, dl, {"a"}), tl, leaf),
               tlb |-> (v :> c) @@ cache]}

\* An access: by the cached translation, unless it has to mark the page dirty.
Touch(m, cache, v, k) ==
    IF v \notin DOMAIN cache THEN Walk(m, cache, v, k)
    ELSE IF Forbids(cache[v], k) THEN {Fault(m, cache, v, k, ForbiddenCode(cache[v], k))}
    ELSE IF "write" \in k /\ ~cache[v].dirty /\ ~Broken("dirty") THEN Walk(m, cache, v, k)
    ELSE {[fault |-> FALSE, error |-> {}, mem |-> m, tlb |-> cache]}

\* Mutant: no invlpg in ac_set_expected_status.
Invlpg_Dropped(cache, v) == cache

Invlpg(cache, v) == IF Broken("invlpg") THEN cache ELSE [w \in DOMAIN cache \ {v} |-> cache[w]]

-----------------------------------------------------------------------------
(* The registers. *)

\* Mutant: CR4.SMEP is set before the code's page is made a kernel page.
SetCr4Smep_Late(on, next) ==
    /\ call' = [on |-> on, next |-> next]
    /\ IF regs.smep = on THEN pc' = next ELSE pc' = "cr4"
    /\ UNCHANGED kuser

\* set_cr4_smep, up to the write of CR4.
SetCr4Smep(on, next) ==
    /\ call' = [on |-> on, next |-> next]
    /\ IF regs.smep = on
       THEN pc' = next /\ UNCHANGED kuser
       ELSE pc' = "cr4" /\ kuser' = (kuser /\ ~on)

\* Features that CPUID does not show may still be there.
Offers(feature) ==
    \/ feature \in machine.cpuid
    \/ feature = "smep" /\ Broken("hidden smep")
    \/ feature = "pku" /\ Broken("hidden pku")

\* write_cr4_checking: #GP, and no change, if there is no SMEP.
WriteCr4 ==
    /\ pc = "cr4" /\ pc' = "ptl2"
    /\ regs' = [regs EXCEPT !.smep = call.on /\ Offers("smep")]
    /\ UNCHANGED <<run, kuser, pages, test, call, counts>>

RestorePtl2 ==
    /\ pc = "ptl2" /\ pc' = call.next
    /\ kuser' = (kuser \/ ~call.on \/ ~regs.smep)
    /\ UNCHANGED <<run, regs, pages, test, call, counts>>

\* set_cr4_pke: PKRU denies all keys but 0 before PKE goes off.
WithPke(rg, on) ==
    [rg EXCEPT !.pke = on, !.ad = @ \/ (rg.pke /\ ~on), !.wd = @ \/ (rg.pke /\ ~on)]

\* ac_test_do_access, before set_cr4_smep.
RegistersFor(f) ==
    LET on == <<"cpu", "pke">> \in f
        rg == WithPke([regs EXCEPT !.wp = <<"cpu", "wp">> \in f, !.nx = <<"cpu", "nx">> \in f], on)
    IN  [rg EXCEPT !.wd = IF on THEN <<"pku", "wd">> \in f ELSE @,
                   !.ad = IF on THEN <<"pku", "ad">> \in f ELSE @]

\* ac_test_init
TestInit(rg) == [rg EXCEPT !.nx = TRUE, !.wp = TRUE]

-----------------------------------------------------------------------------
(* The tests: an operation is [op, t, flags]. *)

Op(op, t, flags) == [op |-> op, t |-> t, flags |-> flags]
Pde(bits) == {<<"pde", b>> : b \in bits}
Pte(bits) == {<<"pte", b>> : b \in bits}
Cpu(bits) == {<<"cpu", b>> : b \in bits}

\* Virtual addresses: the index at each level, from the page table up.
Virt(k, t) ==
    CASE k = 0 -> <<0, 0, 208, 36, 0>>
      [] k = 1 -> <<0, 0, IF t = 1 THEN 208 ELSE 408, IF t = 1 THEN 36 ELSE 204, 0>>
      [] k = 2 -> <<IF t = 1 THEN 1 ELSE 3, 48, 208, 36, 0>>
      [] k = 3 -> IF t = 1 THEN <<0, 24, 208, 36, 0>> ELSE <<0, 48, 408, 204, 0>>
      [] k = 4 -> <<1, 48, 208, 36, 0>>

Exec(f) == <<Op("setup", 1, f), Op("access", 1, f)>>

\* corrupt_hugepage_triger
CorruptHugepage ==
    LET f == Cpu({"wp"}) \cup Pde({"ps", "p"})
        g == f \cup Pde({"rw"})
    IN  <<Op("setup", 2, f), Op("access", 2, f), Op("setup", 1, g), Op("access", 1, g),
          Op("expect", 1, g \cup {Write}), Op("access", 1, g \cup {Write}),
          Op("expect", 2, f \cup {Write}), Op("access", 2, f \cup {Write})>>

\* check_pfec_on_prefetch_pte
CheckPfec ==
    LET f == Pde({"p"}) \cup Pte({"p"})
        g == f \cup Pte({"nx"})
    IN  <<Op("fixed", 1, f), Op("fixed", 2, g), Op("access", 1, f), Op("access", 2, g)>>

\* check_large_pte_dirty_for_nowp
CheckLargePteDirty ==
    LET f == Pde({"p", "ps"})
        g == f \cup {Write}
    IN  <<Op("setup", 2, f), Op("access", 2, f), Op("setup", 1, g), Op("access", 1, g),
          Op("expect", 2, g), Op("access", 2, g)>>

\* check_smep_andnot_wp
CheckSmep ==
    LET f == Pde({"p", "user", "a"}) \cup Pte({"p", "user", "a"}) \cup Cpu({"smep", "wp"})
    IN  IF "smep" \notin machine.cpuid THEN <<>>
        ELSE <<Op("setup", 1, f \cup {Write}), Op("access", 1, f \cup {Write}),
               Op("expect", 1, f \cup {Fetch}), Op("access", 1, f \cup {Fetch}),
               Op("nosmep", 1, {})>>

TestCases == <<CorruptHugepage, CheckPfec, CheckLargePteDirty, CheckSmep>>

\* A mapping is made and its expectation computed.
Setup ==
    /\ pc = "op" /\ todo # <<>> /\ Head(todo).op \in {"setup", "fixed"}
    /\ LET o == Head(todo)
           t == [virt |-> Virt(kase, o.t), flags |-> o.flags]
           s == SetupPages(t, IF o.op = "fixed" THEN Fixed ELSE <<>>)
           u == [virt |-> t.virt, flags |-> t.flags, pdep |-> s.pdep, ptep |-> s.ptep]
       IN  /\ mem' = s.mem /\ current' = s.current
           /\ at' = [at EXCEPT ![o.t] = [test |-> u, x |-> Expected(s.mem, u)]]
           /\ tlb' = Invlpg(tlb, t.virt)
    /\ todo' = Tail(todo)
    /\ UNCHANGED <<run, pc, regs, kuser, kase, good, call, counts>>

\* ac_set_expected_status with other flags, on the mapping as it is.
Expect ==
    /\ pc = "op" /\ todo # <<>> /\ Head(todo).op = "expect"
    /\ LET o == Head(todo)
           u == [at[o.t].test EXCEPT !.flags = o.flags]
       IN  /\ at' = [at EXCEPT ![o.t] = [test |-> u, x |-> Expected(mem, u)]]
           /\ tlb' = Invlpg(tlb, u.virt)
    /\ todo' = Tail(todo)
    /\ UNCHANGED <<run, pc, regs, kuser, mem, current, kase, good, call, counts>>

\* The registers for an access.
Prepare ==
    /\ pc = "op" /\ todo # <<>> /\ Head(todo).op = "access"
    /\ regs' = RegistersFor(Head(todo).flags)
    /\ SetCr4Smep(<<"cpu", "smep">> \in Head(todo).flags, "touch")
    /\ UNCHANGED <<run, pages, test, counts>>

Matches(e, x, ignore) == [e EXCEPT !.bits = @ \ ignore] = [x EXCEPT !.bits = @ \ ignore]

\* The access, and the five checks; a test that fails does nothing more,
\* but for the clean-up.
DoAccess ==
    /\ pc = "touch" /\ pc' = "op"
    /\ LET u == at[Head(todo).t].test
           x == at[Head(todo).t].x
           k == {m \in {"user", "write", "fetch"} : <<"access", m>> \in u.flags}
           first == IF Twice \in u.flags THEN Touch(mem, tlb, u.virt, {})
                    ELSE {[mem |-> mem, tlb |-> tlb]}
       IN  \E a \in first : \E b \in Touch(a.mem, a.tlb, u.virt, k) :
              LET ok == /\ b.fault = x.fault
                        /\ b.fault => b.error = x.error
                        /\ u.ptep # <<>> => b.mem[u.ptep] = x.pte
                        /\ Matches(b.mem[u.pdep], x.pde, IF x.ignore THEN {"a"} ELSE {})
              IN  /\ mem' = b.mem /\ tlb' = b.tlb
                  /\ good' = ok
                  /\ todo' = IF ok THEN Tail(todo) ELSE SelectSeq(todo, LAMBDA o : o.op = "nosmep")
    /\ UNCHANGED <<run, regs, kuser, current, kase, at, call, counts>>

CleanUp ==
    /\ pc = "op" /\ todo # <<>> /\ Head(todo).op = "nosmep"
    /\ SetCr4Smep(FALSE, "op")
    /\ todo' = Tail(todo)
    /\ UNCHANGED <<run, regs, pages, kase, at, good, counts>>

\* The end of a test, and the next one, if there is one.
NextTest ==
    /\ pc = "op" /\ todo = <<>>
    /\ tests' = tests + 1
    /\ successes' = IF good THEN successes + 1 ELSE successes
    /\ LET f == IF kase = 0 THEN Bump(at[1].test.flags, invalid) ELSE End
       IN  IF f # End
           THEN /\ todo' = Exec(f)
                /\ UNCHANGED <<pc, regs, kase>>
           ELSE IF kase < Len(TestCases)
                THEN /\ kase' = kase + 1
                     /\ regs' = TestInit(regs)
                     /\ todo' = TestCases[kase + 1]
                     /\ UNCHANGED pc
                ELSE pc' = "result" /\ UNCHANGED <<regs, kase, todo>>
    /\ good' = TRUE
    /\ UNCHANGED <<run, kuser, pages, at, call>>

-----------------------------------------------------------------------------
(* ac_test_run and main. *)

ProbePke ==
    /\ pc = "pke" /\ pc' = "smep"
    /\ IF "pku" \in machine.cpuid
       THEN regs' = WithPke(WithPke(regs, TRUE), FALSE) /\ UNCHANGED <<invalid, counts>>
       ELSE /\ tests' = tests + 1
            /\ IF Offers("pku")       \* no #GP: PKE goes off again
               THEN regs' = WithPke(WithPke(regs, TRUE), FALSE) /\ UNCHANGED <<invalid, successes>>
               ELSE /\ successes' = successes + 1
                    /\ invalid' = invalid \cup {<<"cpu", "pke">>}
                                       \cup {f \in AllFlags : f[1] = "pku"}
                    /\ UNCHANGED regs
    /\ UNCHANGED <<machine, levels, r, kuser, pages, test, call>>

ProbeSmep ==
    /\ pc = "smep"
    /\ IF "smep" \in machine.cpuid
       THEN pc' = "env" /\ UNCHANGED <<kuser, call, counts>>
       ELSE tests' = tests + 1 /\ successes' = successes /\ SetCr4Smep(TRUE, "probed")
    /\ UNCHANGED <<run, regs, pages, test>>

\* The write got #GP and left the bit clear, or there was none and SMEP goes off.
SmepProbed ==
    /\ pc = "probed"
    /\ IF regs.smep
       THEN SetCr4Smep(FALSE, "env") /\ UNCHANGED <<invalid, successes>>
       ELSE /\ pc' = "env" /\ successes' = successes + 1
            /\ invalid' = invalid \cup {<<"cpu", "smep">>}
            /\ UNCHANGED <<kuser, call>>
    /\ UNCHANGED <<machine, levels, r, regs, pages, test, tests>>

\* ac_env_int, ac_test_init
EnvInit ==
    /\ pc = "env" /\ pc' = "op"
    /\ current' = 0 /\ kase' = 0
    /\ regs' = TestInit(regs)
    /\ todo' = Exec({})
    /\ UNCHANGED <<run, kuser, mem, tlb, at, good, call, counts>>

\* The result, and the second run with 5 levels, whose result replaces it.
Result ==
    /\ pc = "result"
    /\ r' = (successes = tests)
    /\ IF levels = 4 /\ "la57" \in machine.cpuid
       THEN pc' = "pke" /\ levels' = 5 /\ tests' = 0 /\ successes' = 0
       ELSE pc' = "end" /\ UNCHANGED <<levels, counts>>
    /\ UNCHANGED <<machine, invalid, regs, kuser, pages, test, call>>

Next ==
    \/ ProbePke \/ ProbeSmep \/ SmepProbed \/ EnvInit
    \/ Setup \/ Expect \/ Prepare \/ WriteCr4 \/ RestorePtl2 \/ DoAccess \/ CleanUp \/ NextTest
    \/ Result

Spec == Init /\ [][Next]_vars

-----------------------------------------------------------------------------
(* Properties. *)

\* The test tells processors apart: main() returns 0 for one that walks the
\* tables as the architecture says, whatever it may choose (the accessed
\* bit of a directory entry on a fault) and whatever earlier tests left in
\* the TLB and in the registers, and 1 for each of the broken ones.
VerdictIsRight == pc = "end" => (r <=> machine.defect = "none")

\* The loop tries every legal combination of the flags that are not masked.
LoopIsComplete ==
    pc = "op" /\ kase = 1 /\ todo = TestCases[1] =>
        tests = Cardinality({f \in SUBSET (AllFlags \ invalid) : Legal(f)})
                + Cardinality({"smep", "pku"} \ machine.cpuid)

\* "Since we convert current page to kernel page when cr4.smep=1, we can't
\* switch to user mode" (access.c:281): the code that runs is never a user
\* page while SMEP is on, and is one when it runs in user mode.
CodeIsFetchable ==
    /\ regs.smep => ~kuser
    /\ pc = "touch" /\ User \in Head(todo).flags => kuser /\ ~regs.smep

\* The entries that a test compares are the ones that the processor walks,
\* and two mappings share them only if they share the address above them.
TablesApart ==
    pc = "touch" =>
        LET u(t) == at[t].test IN
        /\ \A l \in DOMAIN mem : l[1][1] = "pool" => l[1][2] < PoolPages
        /\ LET t == u(Head(todo).t) IN
           /\ PdeAt(mem, t.virt) = t.pdep
           /\ t.ptep # <<>> => PteAt(mem, t.virt) = t.ptep
        /\ kase \in 1..3 /\ at[1] # NoTest /\ at[2] # NoTest /\ u(1).virt = Virt(kase, 1) =>
              (u(1).pdep = u(2).pdep => SubSeq(u(1).virt, 2, 5) = SubSeq(u(2).virt, 2, 5))
=============================================================================
