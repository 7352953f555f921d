------------------------------- MODULE Emulator -------------------------------
(***************************************************************************)
(* x86/emulator.c: instructions on a page of a device, which the           *)
(* hypervisor has to emulate.  One step is one test function; what it      *)
(* leaves in CR0 and CR8 stays for the next.                               *)
(*                                                                         *)
(* The emulator is external and has at most one defect.  A 64-bit value is *)
(* a sequence of 8 bytes, the lowest first; where a test only moves a      *)
(* value, the value is left out.                                           *)
(***************************************************************************)
EXTENDS Integers, Sequences, FiniteSets, FiniteSetsExt, Functions, Bitwise

CONSTANT Emulators      \* defects; "none" is one

VARIABLES
    emulator,           \* the defect
    fep,                \* the prefix that forces emulation exists: fep_available after main's nop
    movbe,              \* cpuid(1).c bit 22
    m_next,             \* index of the test to run
    cr0,                \* the bits PE, MP, EM, TS that are set
    cr8,
    m_crashed,          \* an exception without a handler
    m_failed

vars == <<emulator, fep, movbe, m_next, cr0, cr8, m_crashed, m_failed>>

Has(d) == emulator = d

-----------------------------------------------------------------------------
(* The processor: bytes, flags and strings (external) *)

Bytes(s) == [i \in 1..8 |-> IF i <= Len(s) THEN s[i] ELSE 0]
Low(v, w) == SubSeq(v, 1, w)

\* A register keeps its upper bytes for 1 and 2 bytes and loses them for 4; memory always keeps them.
SetReg(old, new, w) ==
    [i \in 1..8 |-> IF i <= w THEN new[i] ELSE IF w = 4 /\ ~Has("no zero extension") THEN 0 ELSE old[i]]
SetMem(old, new, w) == [i \in 1..8 |-> IF i <= w \/ Has("wide store") THEN new[i] ELSE old[i]]

Add(a, b) ==
    LET c[i \in 1..8] == IF i = 1 THEN 0 ELSE (a[i - 1] + b[i - 1] + c[i - 1]) \div 256
    IN [i \in 1..8 |-> (a[i] + b[i] + c[i]) % 256]

\* The first n bytes of a product.
Mul(a, b, n) ==
    LET at(i) == MapThenSumSet(LAMBDA j : a[j] * b[i + 1 - j], {j \in 1..Len(a) : i + 1 - j \in 1..Len(b)})
        c[i \in 1..n] == IF i = 1 THEN 0 ELSE (at(i - 1) + c[i - 1]) \div 256
    IN [i \in 1..n |-> (at(i) + c[i]) % 256]

\* repe cmps of n elements of w bytes, when the strings differ from byte 100 on: elements done.
Repe(w, n, zf) ==
    IF Has("repe looks at ZF first") /\ ~zf THEN 0
    ELSE IF Has("repe goes on") THEN n ELSE Min({n, (100 \div w) + 1})

-----------------------------------------------------------------------------
(* The tests.  Each is the set of its reports. *)

V == <<\hef, \hcd, \hab, \h89, \h67, \h45, \h23, \h01>>
W == <<\h10, \h32, \h54, \h76, \h98, \hba, \hdc, \hfe>>

test_simplealu ==
    LET cf == IF Has("carry ignored") THEN 0 ELSE 1
        m1 == \h1234 | \h8001   m2 == m1 + 2            m3 == m2 ^^ \h1111
        m4 == m3 - \h26         m5 == m4 + \h100        m6 == m5 + \h100 + cf
        m8 == m6 - cf           m9 == m8 & \hfe77       m10 == IF Has("test stores") THEN m9 & \hf000 ELSE m9
    IN {m1 = \h9235, m2 = \h9237, m3 = \h8326, m4 = \h8300, m5 = \h8400, m6 = \h8501, m8 = \h8500, m9 = \h8400, m10 = \h8400}

\* w, rcx, ZF before; rcx and the bytes behind it afterwards.
test_cmps ==
    LET row(w, n, zf, rcx, len) == n - Repe(w, n, zf) = rcx /\ w * Repe(w, n, zf) = len
    IN {row(1, 30, TRUE, 0, 30), row(1, 30, FALSE, 0, 30), row(2, 15, TRUE, 0, 30), row(4, 7, TRUE, 0, 28),
        row(8, 4, TRUE, 0, 32), row(1, 130, TRUE, 29, 101), row(2, 65, TRUE, 14, 102), row(4, 32, TRUE, 6, 104),
        row(8, 16, TRUE, 3, 104)}

test_scas ==
    LET mem == Bytes(<<\h11, \h22, \h33, \h44, \h55, \h66, \h77>>)
        z(rax, w) == LET n == IF Has("scas is wide") THEN 8 ELSE w IN Low(Bytes(rax), n) = Low(mem, n)
    IN {z(<<\h11, \hff>>, 1), ~z(<<\h54, \hff>>, 1), z(<<\h11, \h22, \hff>>, 2), ~z(<<\h11, \hdd, \hff>>, 2),
        z(<<\h11, \h22, \h33, \h44, \hff>>, 4), ~z(<<\h11, \h22, \h33, \h45>>, 4), z(mem, 8), ~z(<<3>>, 8)}

\* pushq $-7: an imm8 is sign extended.
test_push == {~Has("imm8 zero extended")}

\* leave and enter $0x1238, 0: rsp and rbp relative to the top of the stack.
test_pop ==
    LET enter == [rbp |-> IF Has("enter sets rbp last") THEN -8 - \h1238 ELSE -8, rsp |-> -8 - \h1238]
    IN {enter.rsp = -8 - \h1238 /\ enter.rbp = -8}

test_xchg == {
    LET rax == SetReg(W, V, w) mem == SetMem(V, W, w) IN
        CASE w = 1 -> rax = <<\hef>> \o Tail(W) /\ mem = <<\h10>> \o Tail(V)
          [] w = 2 -> rax = <<\hef, \hcd>> \o SubSeq(W, 3, 8) /\ mem = <<\h10, \h32>> \o SubSeq(V, 3, 8)
          [] w = 4 -> rax = Bytes(Low(V, 4)) /\ mem = Low(W, 4) \o SubSeq(V, 5, 8)
          [] OTHER -> rax = V /\ mem = W : w \in {1, 2, 4, 8}}

test_xadd == {
    LET rax == SetReg(W, V, w) mem == SetMem(V, Add(V, W), w) IN
        CASE w = 1 -> rax = <<\hef>> \o Tail(W) /\ mem = <<\hff>> \o Tail(V)
          [] w = 2 -> rax = <<\hef, \hcd>> \o SubSeq(W, 3, 8) /\ mem = <<\hff, \hff>> \o SubSeq(V, 3, 8)
          [] w = 4 -> rax = Bytes(Low(V, 4)) /\ mem = <<\hff, \hff, \hff, \hff>> \o SubSeq(V, 5, 8)
          [] OTHER -> rax = V /\ mem = [i \in 1..8 |-> \hff] : w \in {1, 2, 4, 8}}

\* mov $3, %cr8 is not undone.
test_cr8 == {~Has("cr8 is wrong")}

\* 16 bits go to memory.
test_smsw == {TRUE, ~Has("smsw stores 8 bytes")}

\* lmsw: TS flipped, restored, EM flipped without PE, restored.
Lmsw(now, msw) ==
    CASE Has("lmsw clears PE") -> msw
      [] Has("lmsw only sets") -> now \union msw
      [] OTHER -> msw \union (now \intersect {"PE"})
Flip(s, b) == (s \ {b}) \union ({b} \ s)
test_lmsw ==
    LET one == Lmsw(cr0, Flip(cr0, "TS"))
        two == Lmsw(one, cr0)
        three == Lmsw(two, Flip(cr0 \ {"PE"}, "EM"))
    IN {one = Flip(cr0, "TS"), two = cr0, three = Flip(cr0, "EM")}

test_ljmp == {~Has("ljmp falls through")}
\* The last character of "outsb up", the first of "outsb down" (from index 15, 16 of them).
test_stringio == {0 + 15 = 15, (IF Has("DF ignored") THEN 15 + 15 ELSE 15 - 15) = 0}

test_incdecnotneg ==
    LET v == Bytes(<<\hd2, \h04>>)
        not(x) == [i \in 1..8 |-> 255 - x[i]]
        neg(x) == Add(not(x), Bytes(<<1>>))
        negb == SetMem(Bytes(<<66>>), neg(Bytes(<<66>>)), 1)
    IN {Add(v, neg(v)) = Bytes(<<>>), not(neg(v)) = Add(v, [i \in 1..8 |-> 255]), negb[1] = 190, not(negb)[1] = 65}

\* The words a[0] to a[3] as the set of bits that are set in them.
test_btc ==
    LET toggle(s, b) == (s \ {b}) \union ({b} \ s)
        imm(s, a, k) == toggle(s, 32 * a + (IF Has("btc imm8 not masked") THEN k ELSE k % 32))
        reg(s, a, k) == toggle(s, 32 * a + (IF Has("btc reg masked") THEN k % 32 ELSE k))
        one == reg(imm(imm({}, 0, 32), 1, 1), 0, 66)
        two == reg(one, 3, -1)
        three == reg(two, 2, -1)
    IN {one = {0, 33, 66}, two = {0, 33, 66, 95}, three = {0, 33, 63, 66, 95}}

test_bsfbsr ==
    LET bsf(s) == Min(s)
        bsr(s) == IF Has("bsr is bsf") THEN Min(s) ELSE Max(s)
    IN {bsf({14, 15}) = 14, bsf({30, 31}) = 30, bsf({46, 47}) = 46, bsr({14, 15}) = 15, bsr({30, 31}) = 31,
        bsr({46, 47}) = 47, ~Has("bsf keeps ZF")}

test_imul ==
    LET x == <<\h78, \h56, \h34, \h12, \h78, \h56, \h34, \h12>>
        y == <<\h21, \h43, \h65, \h87, \h21, \h43, \h65, \h87>>
        imul(old, k, w) == SetReg(old, Mul(x, Bytes(k), 8), w)
        e51 == Bytes(<<\he8, \h39, \h6d, \ha0>>)
        q51 == <<\he8, \h39, \h6d, \ha0, \heb, \h39, \h6d, \ha0>>
        e311 == Bytes(<<\hc8, \h0b, \h95, \h1d>>)
    IN {imul(x, <<51>>, 2) = <<\he8, \h39>> \o SubSeq(x, 3, 8), imul(x, <<51>>, 4) = e51, imul(x, <<51>>, 8) = q51,
        imul(y, <<51>>, 2) = <<\he8, \h39>> \o SubSeq(y, 3, 8), imul(y, <<51>>, 4) = e51,
        imul(y, <<\h37, 1>>, 2) = <<\hc8, \h0b>> \o SubSeq(y, 3, 8), imul(y, <<\h37, 1>>, 4) = e311,
        imul(y, <<\h37, 1>>, 8) = <<\hc8, \h0b, \h95, \h1d, \hde, \h0b, \h95, \h1d>>}

\* divq by 0 faults and leaves rax, rdx and ex alone; mul writes the upper half to rdx, for bytes to ah.
test_muldiv ==
    LET a == [i \in 1..8 |-> \h11] d == [i \in 1..8 |-> \h22] m == [i \in 1..8 |-> \h33]
        mul(w) == Mul(Low(a, w), Low(m, w), 2 * w)
        rax(w) == IF w = 1 THEN SetReg(a, mul(1), 2) ELSE SetReg(a, mul(w), w)
        rdx(w) == IF w = 1 THEN d ELSE SetReg(d, SubSeq(mul(w), w + 1, 2 * w), w)
    IN {~Has("fault writes rax"),
        rax(1) = <<\h63, \h03>> \o SubSeq(a, 3, 8) /\ rdx(1) = d,
        rax(2) = <<\h63, \hc9>> \o SubSeq(a, 3, 8) /\ rdx(2) = <<\h69, \h03>> \o SubSeq(d, 3, 8),
        rax(4) = Bytes(<<\h63, \hc9, \h2f, \h96>>) /\ rdx(4) = Bytes(<<\h36, \hd0, \h69, \h03>>),
        rax(8) = <<\h63, \hc9, \h2f, \h96, \hfc, \h62, \hc9, \h2f>>
            /\ rdx(8) = <<\hd0, \h69, \h03, \h9d, \h36, \hd0, \h69, \h03>>}

\* movdqu, movaps, movapd, movq: a copy of the value each way.
test_sse == {~Has("half a vector")}
test_mmx == {~Has("half a vector")}

\* movb $1, mem+2(%rip): the displacement counts from the end of the instruction.
test_rip_relative == {LET at == 2 + (IF Has("rip of the start") THEN -7 ELSE 0) IN at = 2}
test_shld_shrd == {~Has("shld is wrong")}

\* A null SS, then one with RPL 3: #GP.
test_sreg == {TRUE, ~Has("RPL unchecked")}
test_ltr == {~Has("TSS not busy")}
\* cmovnel with ZF set: nothing is moved, the upper half is cleared all the same.
test_cmov == {SetReg(V, V, 4) = Bytes(Low(V, 4))}

test_mmx_movq_mf == {~Has("no #MF")}
test_movabs == {~Has("imm64 cut")}
test_smsw_reg == {SetReg(V, W, 2) = Low(W, 2) \o SubSeq(V, 3, 8), SetReg(V, W, 4) = Bytes(Low(W, 4)), SetReg(V, W, 8) = W}
test_nop == {~Has("nop writes rax")}
test_mov_dr == {~Has("DR6 without fixed bits")}
test_push16 == {(IF Has("pushw moves 8") THEN -8 ELSE -2) + 2 = 0}

\* The device page is mapped twice, so the byte behind the first mapping is byte 0 of the page.
\* An access of two bytes at 4095 is two accesses.
test_crosspage_mmio ==
    LET page == [b \in {4095, 0} |-> IF b = 4095 THEN \h99 ELSE \h77]
        second == IF Has("cross page cut") THEN 4095 ELSE 4096 % 4096
        written == [b \in {4095, 0} |-> IF b = second THEN \h88 ELSE IF b = 4095 THEN \haa ELSE page[b]]
    IN {page[4095] + 256 * page[second] = \h7799, written[4095] = \haa /\ written[0] = \h88}

\* rep insb of 1024 bytes across the two mappings: the last byte.
test_string_io_mmio == {~Has("rep stops at the page")}
test_jmp_noncanonical == {~Has("no #GP on jmp")}
test_illegal_movbe == {movbe => ~Has("movbe reg")}

Always1 == <<"mov", "simplealu", "cmps", "scas", "push", "pop", "xchg", "xadd", "cr8", "smsw", "lmsw", "ljmp", "stringio",
    "incdecnotneg", "btc", "bsfbsr", "imul", "muldiv", "sse", "mmx", "rip_relative", "shld_shrd", "sreg", "ltr", "cmov">>
Register == <<"mmx_movq_mf", "movabs", "smsw_reg", "nop", "mov_dr">>
Always2 == <<"push16", "crosspage_mmio", "string_io_mmio", "jmp_noncanonical", "illegal_movbe">>

\* Mutant: the register-only tests are not skipped.
Main_NoSkip == Always1 \o Register \o Always2

\* main: the register-only tests need the prefix.
Main == Always1 \o (IF fep THEN Register ELSE <<>>) \o Always2

Reports(t) ==
    CASE t = "mov" -> {TRUE} [] t = "simplealu" -> test_simplealu [] t = "cmps" -> test_cmps [] t = "scas" -> test_scas
      [] t = "push" -> test_push [] t = "pop" -> test_pop [] t = "xchg" -> test_xchg [] t = "xadd" -> test_xadd
      [] t = "cr8" -> test_cr8 [] t = "smsw" -> test_smsw [] t = "lmsw" -> test_lmsw [] t = "ljmp" -> test_ljmp
      [] t = "stringio" -> test_stringio [] t = "incdecnotneg" -> test_incdecnotneg [] t = "btc" -> test_btc
      [] t = "bsfbsr" -> test_bsfbsr [] t = "imul" -> test_imul [] t = "muldiv" -> test_muldiv [] t = "sse" -> test_sse
      [] t = "mmx" -> test_mmx [] t = "rip_relative" -> test_rip_relative [] t = "shld_shrd" -> test_shld_shrd
      [] t = "sreg" -> test_sreg [] t = "ltr" -> test_ltr [] t = "cmov" -> test_cmov
      [] t = "mmx_movq_mf" -> test_mmx_movq_mf [] t = "movabs" -> test_movabs [] t = "smsw_reg" -> test_smsw_reg
      [] t = "nop" -> test_nop [] t = "mov_dr" -> test_mov_dr [] t = "push16" -> test_push16
      [] t = "crosspage_mmio" -> test_crosspage_mmio [] t = "string_io_mmio" -> test_string_io_mmio
      [] t = "jmp_noncanonical" -> test_jmp_noncanonical [] OTHER -> test_illegal_movbe

\* CR0 after a test: lmsw puts it back, as far as it can; the tests of the FPU clear bits 1 and 2: MP and EM.
Fpu == {"sse", "mmx", "mmx_movq_mf"}
Cr0After(t) ==
    CASE t = "lmsw" -> Lmsw(Lmsw(Lmsw(cr0, Flip(cr0, "TS")), Flip(cr0 \ {"PE"}, "EM")), cr0)
      [] t \in Fpu -> cr0 \ {"MP", "EM"}
      [] OTHER -> cr0

\* No handler: #UD of the prefix, #UD or #NM of the FPU with EM or TS set.
Faults(t) == (t \in Fpu /\ Cr0After(t) \intersect {"EM", "TS"} # {}) \/ (t \in Range(Register) /\ ~fep)

Step ==
    /\ m_next <= Len(Main) /\ ~m_crashed
    /\ LET t == Main[m_next] IN
        /\ m_failed' = (m_failed \/ FALSE \in Reports(t))
        /\ cr0' = Cr0After(t)
        /\ cr8' = IF t = "cr8" THEN 3 ELSE cr8
        /\ m_crashed' = Faults(t)
    /\ m_next' = m_next + 1
    /\ UNCHANGED <<emulator, fep, movbe>>

\* report_summary
Done == (m_next > Len(Main) \/ m_crashed) /\ UNCHANGED vars

Init ==
    /\ emulator \in Emulators /\ fep \in BOOLEAN /\ movbe \in BOOLEAN
    /\ m_next = 1 /\ cr0 = {"PE"} /\ cr8 = 0 /\ m_crashed = FALSE /\ m_failed = FALSE

Next == Step \/ Done

Spec == Init /\ [][Next]_vars

-----------------------------------------------------------------------------
\* Defects that only the tests behind the prefix see.
Forced == {"no #MF", "imm64 cut", "nop writes rax", "DR6 without fixed bits"}

(* The verdict of emulator.c: on a right emulator the tests run to the end  *)
(* and pass - so the constants they compare with are what the instructions  *)
(* compute, byte by byte - and they find every defect that the tests which  *)
(* are not skipped can meet.  Only an lmsw that leaves TS set stops them.   *)
EmulatorVerdict ==
    /\ m_crashed => m_failed /\ emulator = "lmsw only sets"
    /\ m_next > Len(Main) =>
        (m_failed <=> emulator # "none" /\ (emulator \in Forced => fep) /\ (emulator = "movbe reg" => movbe))
=============================================================================
