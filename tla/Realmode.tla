------------------------------- MODULE Realmode -------------------------------
(***************************************************************************)
(* x86/realmode.c: instructions run in big real mode, one at a time, and   *)
(* their registers compared with what went in.                             *)
(*                                                                         *)
(* A row is one exec_in_big_real_mode and the report after it.  Values are *)
(* abstracted to whether a register comes out as the architecture says:    *)
(* "same" as inregs, "set" to the right result or "bad".  The processor    *)
(* (an emulator) is external; it gets one register, the flags or a memory  *)
(* operand wrong in at most one row.                                       *)
(***************************************************************************)
EXTENDS Integers, Sequences, FiniteSets

VARIABLES
    todo,           \* the tests of realmode_start that are left
    defect,         \* <<row, what comes out bad>>, <<>> while there is none
    sp,             \* inregs.esp: what it points at
    failed          \* failed

vars == <<todo, defect, sp, failed>>

Regs == {"ax", "bx", "cx", "dx", "si", "di", "sp", "bp"}
Out == Regs \union {"flags", "mem"}
All == Regs         \* ~0
None == {}

-----------------------------------------------------------------------------
(* Rows: the name, what the instruction sets, regs_ignore and what the     *)
(* condition of the report pins down.  A test is a sequence of rows and    *)
(* what it makes of inregs.esp: "" leaves the value of the test before.    *)

Row(name, sets, ignore, pins) == [name |-> name, sets |-> sets, ignore |-> ignore, pins |-> pins]
Test(esp, rows) == [esp |-> esp, rows |-> rows]
Quiet(name, sets) == Row(name, sets, All, None)     \* no report, or one of 1

Ax == {"ax"}
AxBx == {"ax", "bx"}
AxDx == {"ax", "dx"}
AxCxDx == {"ax", "cx", "dx"}
Flags == {"flags"}
Mem == {"mem"}

Xchg(n, r) == Row(n, Ax \union {r}, Ax \union {r}, Ax \union {r})

test_xchg == Test("seven", <<Row("xchg 1", None, None, None), Xchg("xchg 2", "bx"), Xchg("xchg 3", "cx"),
    Xchg("xchg 4", "dx"), Xchg("xchg 5", "si"), Xchg("xchg 6", "di"), Xchg("xchg 7", "bp"), Xchg("xchg 8", "sp")>>)

Imm(n) == Row(n, Ax, Ax, Ax)
Unchanged(n) == Row(n, None, Ax, Ax)       \* the result is the 0 of inregs

test_shld == Test("zero", <<Row("shld", Ax, All, Ax)>>)
test_mov_imm == Test("zero", <<Imm("mov 1"), Imm("mov 2"), Imm("mov 3"), Imm("mov 4"), Imm("mov 5")>>)
test_sub_imm == Test("zero", <<Imm("sub 1"), Imm("sub 2"), Imm("sub 3"), Imm("sub 4")>>)
test_xor_imm == Test("zero", <<Unchanged("xor 1"), Unchanged("xor 2"), Unchanged("xor 3"), Unchanged("xor 4")>>)
test_cmp_imm == Test("zero", [i \in 1..3 |-> Row(<<"cmp 1", "cmp 2", "cmp 3">>[i], Ax \union Flags, All, Flags)])
test_add_imm == Test("zero", <<Row("add 1", Ax, All, Ax), Row("add 2", Ax, All, Ax)>>)

test_eflags_insn == Test("zero",
    [i \in 1..6 |-> Row(<<"clc", "stc", "cli", "sti", "cld", "std">>[i], Flags, All, Flags)])

Pio(n) == Row(n, AxDx, AxDx, Ax)
test_io == Test("zero", <<Imm("pio 1"), Imm("pio 2"), Imm("pio 3"), Pio("pio 4"), Pio("pio 5"), Pio("pio 6")>>)

test_call == Test("array", <<Imm("call 1"), Imm("call near 1"), Imm("call near 2"), Row("call far 1", None, None, None),
    Row("call far 2", None, None, None), Row("ret imm 1", None, None, None), Row("retf imm 1", None, None, None)>>)

test_jcc_short == Test("zero", <<Quiet("jnz short 1", None), Row("jnz short 2", Ax \union Flags, Ax, Flags),
    Quiet("jmp short 1", None)>>)
test_jcc_near == Test("zero", <<Row("jnz near 1", None, None, None), Row("jnz near 2", Ax \union Flags, Ax, Flags),
    Row("jmp near 1", None, None, None)>>)
test_long_jmp == Test("array", <<Imm("jmp far 1")>>)

Push(n) == Row(n, AxBx, AxBx, AxBx)
PopSeg(n) == Row(n, None, AxBx, AxBx)
test_push_pop == Test("zero", <<Push("push/pop 1"), Push("push/pop 2"), Push("push/pop 3"), PopSeg("push/pop 4"),
    PopSeg("push/pop 5"), PopSeg("push/pop 6"), Row("push/pop high", {"bx"}, {"bx"}, {"bx"})>>)

test_null == Test("zero", <<Row("null", None, None, None)>>)
test_pusha_popa == Test("tmp_stack", <<Row("pusha", None, None, None), Row("popa", None, None, None)>>)

\* The third instruction has two reports.
test_iret == Test("zero", <<Row("iret 1", None, None, None), Row("iret 2", None, None, None),
    Row("iret 3", Ax \union Flags, Ax, Flags), Row("iret 4", Ax \union Flags, Ax, None)>>)
test_int == Test("zero", <<Row("int 1", None, None, None)>>)

Mul(n) == Row(n, AxCxDx, AxCxDx, Ax)
Div(n) == Row(n, AxCxDx, AxCxDx, AxDx)
test_imul == Test("zero", <<Mul("imul 1"), Mul("imul 2"), Mul("imul 3"), Mul("imul 4"), Mul("imul 5"), Mul("imul 6")>>)
test_mul == Test("zero", <<Mul("mul 1"), Mul("mul 2"), Mul("mul 3")>>)
test_div == Test("zero", <<Mul("div 1"), Div("div 2"), Div("div 3")>>)
test_idiv == Test("zero", <<Mul("idiv 1"), Mul("idiv 2"), Mul("idiv 3")>>)
test_cbw == Test("zero", <<Row("cbq 1", Ax, All, Ax), Row("cwde 1", Ax, All, Ax)>>)

Loopcc(n) == Row(n, {"ax", "cx"}, {"ax", "cx"}, {"ax", "cx"})
test_loopcc == Test("zero", <<Imm("LOOPcc short 1"), Loopcc("LOOPcc short 2"), Loopcc("LOOPcc short 3")>>)

\* The loop stops at the first of the 1024 cases that is wrong; one case stands for them.
test_das == Test("zero", <<Row("DAS", Ax \union Flags, Ax, Ax \union Flags)>>)
test_cwd_cdq == Test("zero", [i \in 1..4 |-> Row(<<"cwd 1", "cwd 2", "cdq 1", "cdq 2">>[i], AxDx, AxDx, AxDx)])
test_lds_lss == Test("zero", <<Push("lds"), Push("les"), Push("lfs"), Push("lgs"), Push("lss")>>)
test_jcxz == Test("zero", <<Row("jcxz short 1", None, None, None), Imm("jcxz short 2"),
    Row("jcxz short 3", {"cx"}, {"cx"}, {"cx"}), Row("jecxz short 1", None, None, None), Imm("jecxz short 2")>>)

test_cpuid == Test("", <<Row("cpuid", AxBx \union {"cx", "dx"}, AxBx \union {"cx", "dx"}, AxBx \union {"cx", "dx"})>>)
test_ss_base_for_esp_ebp == Test("", <<Row("ss relative 1", AxBx, AxBx, {"bx"}), Row("ss relative 2", AxBx, AxBx, {"bx"})>>)
test_sgdt_sidt == Test("", <<Row("sgdt", Mem, None, Mem), Row("sidt", Mem, None, Mem)>>)
test_lahf == Test("", <<Imm("lahf")>>)
test_sahf == Test("", <<Imm("sahf")>>)
test_movzx_movsx == Test("odd",
    [i \in 1..4 |-> Row(<<"movsx", "movzx", "movsx ah", "movzx ah">>[i], {"bx"}, {"bx"}, {"bx"})])
test_bswap == Test("", <<Row("bswap", {"cx"}, {"cx"}, {"cx"})>>)
test_aad_aam_xlat == Test("", <<Imm("aad"), Imm("aam"), Imm("xlat")>>)
test_salc == Test("", <<Imm("salc 1"), Imm("salc 2")>>)
test_fninit == Test("", <<Row("fninit", Mem, None, Mem)>>)
test_dr_mod == Test("", <<Row("mov dr", Ax, AxBx, Ax)>>)
test_smsw == Test("", <<Row("smsw", {"ax", "bx", "cx"}, {"ax", "bx", "cx"}, AxBx)>>)

\* Only the last of the four is reported.
test_nopl == Test("", <<Quiet("nopl 1", None), Quiet("nopl 2", None), Quiet("nopl 3", None), Row("nopl", None, None, None)>>)
test_xadd == Test("", <<Imm("xadd")>>)

\* cycles_in_big_real_mode prints and reports nothing.
test_perf == Test("", [i \in 1..6 |-> Quiet(<<"loop", "mov", "arith", "load", "store", "rmw">>[i],
                                            {"ax", "bx", "cx", "dx", "si", "di"} \union Mem)])

Program == <<test_null, test_shld, test_push_pop, test_pusha_popa, test_mov_imm, test_cmp_imm, test_add_imm,
    test_sub_imm, test_xor_imm, test_io, test_eflags_insn, test_jcc_short, test_jcc_near, test_call, test_long_jmp,
    test_xchg, test_iret, test_int, test_imul, test_mul, test_div, test_idiv, test_loopcc, test_cbw, test_cwd_cdq,
    test_das, test_lds_lss, test_jcxz, test_cpuid, test_ss_base_for_esp_ebp, test_sgdt_sidt, test_lahf, test_sahf,
    test_movzx_movsx, test_bswap, test_aad_aam_xlat, test_salc, test_fninit, test_dr_mod, test_smsw, test_nopl,
    test_xadd, test_perf>>

-----------------------------------------------------------------------------
\* exec_in_big_real_mode: outregs against inregs.  External: the processor.
Exec(row, d) == [o \in Out |-> IF d = <<row.name, o>> THEN "bad" ELSE IF o \in row.sets THEN "set" ELSE "same"]

\* Mutant: the loop stops before ebp.
RegsEqual_Short(outregs, ignore) == \A r \in (Regs \ {"bp"}) \ ignore : outregs[r] = "same"

RegsEqual(outregs, ignore) == \A r \in Regs \ ignore : outregs[r] = "same"

\* report, with the condition that the test passes it.
Report(row, outregs) == RegsEqual(outregs, row.ignore) /\ \A o \in row.pins : outregs[o] # "bad"

\* One test function.
RunTest ==
    /\ todo # <<>> /\ todo' = Tail(todo)
    /\ LET test == Head(todo)
           rows == {test.rows[i] : i \in 1..Len(test.rows)}
       IN /\ defect' \in {defect} \union {d \in {<<row.name, o>> : row \in rows, o \in Out} : defect = <<>>}
          /\ failed' = (failed \/ \E row \in rows : ~Report(row, Exec(row, defect')))
          /\ sp' = IF test.esp = "" THEN sp ELSE test.esp

\* exit(failed)
Exit == todo = <<>> /\ UNCHANGED vars

Start(tests) == todo = tests /\ defect = <<>> /\ sp = "zero" /\ failed = FALSE

Init == Start(Program)

Next == RunTest \/ Exit

Spec == Init /\ [][Next]_vars

-----------------------------------------------------------------------------
\* What the tests do not look at.  These pass ~0, so that only the result counts.
Loose == {"shld", "cmp 1", "cmp 2", "cmp 3", "add 1", "add 2", "clc", "stc", "cli", "sti", "cld", "std", "cbq 1", "cwde 1"}
\* These check nothing at all.
Blind == {"jnz short 1", "jmp short 1", "nopl 1", "nopl 2", "nopl 3", "loop", "mov", "arith", "load", "store", "rmw"}
\* Registers that a single row sets and nobody reads.
Unread == (({"pio 4", "pio 5", "pio 6"} \X {"dx"})
    \union ({"imul 1", "imul 2", "imul 3", "imul 4", "imul 5", "imul 6", "mul 1", "mul 2", "mul 3", "div 1",
             "idiv 1", "idiv 2", "idiv 3"} \X {"cx", "dx"})
    \union ({"div 2", "div 3"} \X {"cx"}) \union ({"jnz short 2", "jnz near 2", "iret 3", "iret 4"} \X {"ax"})
    \union ({"ss relative 1", "ss relative 2"} \X {"ax"}) \union {<<"mov dr", "bx">>, <<"smsw", "cx">>})

Seen(d) ==
    /\ d[1] \notin Blind
    /\ d \notin Unread
    /\ CASE d[2] = "flags" -> d[1] \in {"cmp 1", "cmp 2", "cmp 3", "clc", "stc", "cli", "sti", "cld", "std", "jnz short 2",
                                        "jnz near 2", "iret 3", "DAS"}
         [] d[2] = "mem" -> d[1] \in {"sgdt", "sidt", "fninit"}
         [] OTHER -> d[1] \in Loose => d[2] = "ax" /\ d[1] \in {"shld", "add 1", "add 2", "cbq 1", "cwde 1"}

\* Every push and pop of the tests: the rows of these tests use the stack of inregs.esp.
UsesStack == {test_push_pop, test_pusha_popa, test_call, test_long_jmp, test_iret, test_int, test_lds_lss, test_lahf, test_sahf}

(* The verdict of realmode.c: it passes on a processor without a defect, a  *)
(* register that an instruction must not touch is watched by every test but *)
(* those that pass ~0, and a result by every test but the ones named above. *)
(* No test that pushes runs with the odd or the small esp that another one  *)
(* left in inregs, although lahf, sahf and most later tests do not set it.  *)
RealmodeVerdict ==
    /\ failed <=> (defect # <<>> /\ Seen(defect))
    /\ todo # <<>> /\ Head(todo).esp = "" /\ Head(todo) \in UsesStack => sp \in {"zero", "array", "tmp_stack"}

=============================================================================
