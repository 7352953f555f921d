-------------------------------- MODULE Faults --------------------------------
(***************************************************************************)
(* Exceptions as the x86 tests use them: lib/x86/desc.c (the table of      *)
(* handlers, the exception table, longjmp out of a fault), lib/x86/        *)
(* usermode.c and fault_test.c, and the tests that execute one instruction *)
(* and ask which exception it raised: idt_test.c, umip.c, pcid.c, xsave.c, *)
(* memory.c, vmware_backdoors.c, smap.c, pku.c.                            *)
(*                                                                         *)
(* A test is a sequence of instructions, each with the way in which a      *)
(* fault of it comes back to the test and with what the test expects.      *)
(* The processor is external; a broken rule raises what it should not, or  *)
(* does not raise what it should.                                          *)
(***************************************************************************)
EXTENDS Integers, Sequences

CONSTANTS Features,     \* CPUID: some of "pcid", "invpcid", "xsave", "umip", "smap", "pku", "clflush", ...
          BrokenRules     \* rules that may be broken: <<instruction, it should fault>>; <<"none", TRUE>>
                        \* is one, and <<"store", TRUE>> loses what is written

VARIABLES
    feature,            \* what CPUID shows
    broken,             \* the broken rule
    f_prog,             \* the instructions of main
    f_at,               \* the next of them
    exception_handlers, \* [{6, 13, 14} -> handler]; 14 stands for its gate too
    m,                  \* control registers
    last,               \* %gs:4
    counts,             \* gp_count, ud, pf_count: faults since they were reset
    test, save,         \* the variables of smap.c and pku.c
    hit,                \* the broken rule was applied
    f_failed, f_end     \* a report failed; "" or "abort" (an exception nobody handles)

vars == <<feature, broken, f_prog, f_at, exception_handlers, m, last, counts, test, save, hit, f_failed, f_end>>

-----------------------------------------------------------------------------
(* Programs.  i: instruction, x: operand, via: the way back, want: what    *)
(* the test asks for, fn: the function whose rest a failed check skips.    *)

I(via, i, x, want, fn) == <<[via |-> via, i |-> i, x |-> x, want |-> want, fn |-> fn]>>
Handle(v, h) == I("set", "handler", v, h, "")
Do(i, x) == I("none", i, x, 0, "")                  \* no fault is expected or could be taken
Try(i, x, want) == I("try", i, x, want, "")         \* ASM_TRY, exception_vector()
SetupIdt == Handle(6, "table") \o Handle(13, "table")

IdtTest == SetupIdt \o Try("mov cr4", {"reserved"}, 13) \o Try("ud2", {}, 6)

Try2(i, x, want, fn) == I("try", i, x, want, fn)
TestPcidEnabled ==
    Try2("mov cr4", {"pcide"}, 0, "pcid") \o Try2("mov cr0", {}, 13, "pcid")
    \o I("none", "mov cr4", {}, 0, "pcid") \o I("none", "mov cr3", 1, 0, "pcid")
    \o Try2("mov cr4", {"pcide"}, 13, "pcid") \o I("none", "mov cr3", 0, 0, "pcid")
TestInvpcidEnabled ==
    Try2("invpcid", 0, 0, "invpcid") \o Try2("invpcid", 1, 13, "invpcid")
    \o Try2("mov cr4", {"pcide"}, 0, "invpcid") \o Try2("invpcid", 2, 0, "invpcid")
Pcid(f) ==
    SetupIdt \o I("value", "cpuid pcid", {}, TRUE, "")
    \o (IF "pcid" \in f THEN TestPcidEnabled ELSE Try("mov cr4", {"pcide"}, 13))
    \o (IF "invpcid" \in f THEN TestInvpcidEnabled ELSE Try("invpcid", 2, 6))

XsetbvGp(bits) == Try("xsetbv", bits, 13)
TestXsave(f) ==
    I("value", "cpuid xcr0", {}, TRUE, "")
    \o Try("mov cr4", {"osxsave"}, 0) \o I("value", "cpuid osxsave", {}, TRUE, "")
    \o Try("xsetbv", {"fp"}, 0) \o Try("xsetbv", {"fp", "sse"}, 0) \o Try("xgetbv", {}, 0)
    \o XsetbvGp({}) \o XsetbvGp({"sse"})
    \o (IF "ymm" \in f THEN XsetbvGp({"ymm"}) \o XsetbvGp({"fp", "ymm"}) ELSE <<>>)
    \o XsetbvGp({"illegal index"}) \o XsetbvGp({"illegal index"})
    \o Try("mov cr4", {}, 0) \o I("value", "cpuid osxsave", {}, FALSE, "")
    \o Try("xsetbv", {"fp"}, 6) \o Try("xsetbv", {"fp", "sse"}, 6) \o Try("xgetbv", {}, 6)
TestNoXsave ==
    I("value", "cpuid osxsave", {}, FALSE, "") \o Try("mov cr4", {"osxsave"}, 13)
    \o Try("xgetbv", {}, 6) \o Try("xsetbv", {"fp", "sse"}, 6)
Xsave(f) == SetupIdt \o (IF "xsave" \in f THEN TestXsave(f) ELSE TestNoXsave)

\* umip.c: the counter is reset, the instruction executed, the counter compared.
Gp(i, n) == I("skip", i, {}, n, "")
Store == <<"sgdt", "sidt", "sldt", "str">>
Each(n) == Gp(Store[1], n) \o Gp(Store[2], n) \o Gp(Store[3], n) \o Gp(Store[4], n)
TestUmipNogp(cpl) == Do("cpl", cpl) \o Gp("smsw", 0) \o Each(0) \o (IF cpl = 3 THEN Gp("mov from cr0", 1) ELSE <<>>) \o Do("cpl", 0)
TestUmipGp(cpl) == Do("cpl", cpl) \o Each(1) \o (IF cpl = 3 THEN Gp("mov from cr0", 1) ELSE <<>>) \o Do("cpl", 0)
Umip(f) ==
    SetupIdt \o Handle(13, "gp_handler") \o TestUmipNogp(0) \o TestUmipNogp(3)
    \o (IF "umip" \in f THEN Do("mov cr4", {"umip"}) \o TestUmipNogp(0) \o TestUmipGp(3) ELSE <<>>)

\* memory.c
Ud(i, present) == I("skip", i, {}, IF present THEN 0 ELSE 1, "")
Memory(f) ==
    SetupIdt \o Handle(6, "handle_ud")
    \o Ud("clflush", "clflush" \in f) \o Ud("sfence", "sse" \in f) \o Ud("lfence", "sse2" \in f) \o Ud("mfence", "sse2" \in f)
    \o Ud("clflushopt", "clflushopt" \in f) \o Ud("clwb", "clwb" \in f) \o Ud("invalid clwb", FALSE) \o Ud("pcommit", "pcommit" \in f)

\* fault_test: x is the mode; want is <<should_fault, what the callback asks for>>.
FaultTest(i, user, fault, retval) ==
    Handle(13, IF user THEN "restore_exec_to_jmpbuf" ELSE "fault_test_fault")
    \o Do("cpl", IF user THEN 3 ELSE 0) \o I("jmp", i, {}, <<fault, retval>>, "") \o Do("cpl", 0)
VmwareBackdoors ==
    SetupIdt \o Do("ioperm", {}) \o Do("mov cr4", {})      \* ~X86_CR4_PCE
    \o FaultTest("rdpmc vmware", FALSE, FALSE, "") \o FaultTest("rdpmc vmware", TRUE, FALSE, "")
    \o FaultTest("rdpmc", TRUE, TRUE, "")
    \o FaultTest("port version", TRUE, FALSE, "magic") \o FaultTest("port version", FALSE, FALSE, "magic")
    \o FaultTest("port illegal", TRUE, FALSE, "default") \o FaultTest("port", TRUE, TRUE, "default")

\* smap.c and pku.c: x is <<page, access, value>>; want is <<pf_count, save, whether
\* the report compares test with what was written>>.
Accessed(page, acc, val, n, s, compared) == I("pf", "access", <<page, acc, val>>, <<n, s, compared>>, "")
Smap1 ==
    LET A(ac, page, acc, val, n, s) ==
          Do("ac", ac) \o Accessed(page, acc, val, n, s, acc = "write" /\ val # -1) IN
    A(FALSE, "kernel", "write", 42, 0, 0) \o A(TRUE, "user", "read", 0, 0, 0) \o A(FALSE, "user", "read", 0, 1, 42)
    \o A(TRUE, "user", "write", 43, 0, 0) \o A(FALSE, "user", "write", 44, 1, 43)
    \o A(TRUE, "kernel", "write", -1, 0, 0) \o A(TRUE, "user", "write", 44, 0, 0)
    \o A(FALSE, "kernel", "write", -1, 0, 0) \o A(FALSE, "user", "write", 45, 1, -1) \o A(FALSE, "user", "fetch", 0, 0, 0)
CheckSmapNowp ==
    Do("mov cr4", {}) \o Do("wp", FALSE) \o Do("ac", FALSE)
    \o Accessed("user ro", "write", 153, 0, 0, FALSE) \o Do("mov cr4", {"smap"})
    \o Accessed("user ro", "read", 0, 1, 153, FALSE) \o Do("wp", TRUE)
Smap(f) ==
    IF "smap" \notin f THEN <<>>
    ELSE Handle(14, "pf_tss") \o Do("mov cr4", {"smap"}) \o Smap1 \o Smap1 \o CheckSmapNowp
Pku(f) ==
    LET P(pkru, wp, page, acc, val, n, s) ==
          Do("pkru", pkru) \o Do("wp", wp) \o Accessed(page, acc, val, n, s, acc = "write")
    IN IF "pku" \notin f THEN <<>>
       ELSE Handle(14, "pf_tss") \o Do("mov cr4", {"pke"})
            \o P("ad", TRUE, "kernel", "write", 21, 0, 0) \o P("ad", FALSE, "kernel", "write", 22, 0, 0)
            \o P("wd", TRUE, "kernel", "write", 23, 0, 0) \o P("wd", FALSE, "kernel", "write", 24, 0, 0)
            \o P("wd", FALSE, "user", "write", 25, 0, 0) \o P("wd", TRUE, "user", "write", 26, 1, 25)
            \o P("ad", FALSE, "user", "read", 0, 1, 26)

Programs(f) == {IdtTest, Pcid(f), Xsave(f), Umip(f), Memory(f), VmwareBackdoors, Smap(f), Pku(f)}

Init ==
    /\ feature \in Features /\ broken \in BrokenRules
    /\ f_prog \in Programs(feature)
    /\ f_at = 1 /\ exception_handlers = [v \in {6, 13, 14} |-> "none"]
    /\ m = [cpl |-> 0, cr4 |-> {}, cr3 |-> 0, wp |-> TRUE, ac |-> FALSE, pkru |-> "", ioperm |-> FALSE]
    /\ last = 0 /\ counts = 0 /\ test = 0 /\ save = 0 /\ hit = FALSE /\ f_failed = FALSE /\ f_end = ""

-----------------------------------------------------------------------------
(* The processor: the vector that an instruction raises, 0 for none.       *)

Cr4(x) ==
    IF \/ "reserved" \in x
       \/ "pcide" \in x /\ ("pcid" \notin feature \/ m.cr3 # 0)
       \/ "osxsave" \in x /\ "xsave" \notin feature
    THEN 13 ELSE 0

Xcr(x) == IF "osxsave" \notin m.cr4 THEN 6 ELSE IF "fp" \notin x \/ ("ymm" \in x /\ "sse" \notin x) THEN 13 ELSE 0

Denied(x) ==
    LET user == x[1] # "kernel" IN
    \/ user /\ "smap" \in m.cr4 /\ ~m.ac /\ x[2] # "fetch"
    \/ x[1] = "user ro" /\ x[2] = "write" /\ m.wp
    \/ user /\ "pke" \in m.cr4 /\ (m.pkru = "ad" \/ (m.pkru = "wd" /\ x[2] = "write" /\ m.wp))

Right(i, x) ==
    CASE i = "ud2" -> 6
      [] i = "mov cr4" -> Cr4(x)
      [] i = "mov cr0" -> IF "pcide" \in m.cr4 THEN 13 ELSE 0
      [] i = "invpcid" -> IF "invpcid" \notin feature THEN 6 ELSE IF x = 1 /\ "pcide" \notin m.cr4 THEN 13 ELSE 0
      [] i = "xsetbv" -> Xcr(x)
      [] i = "xgetbv" -> IF "osxsave" \in m.cr4 THEN 0 ELSE 6
      [] i \in {"sgdt", "sidt", "sldt", "str"} -> IF m.cpl = 3 /\ "umip" \in m.cr4 THEN 13 ELSE 0
      [] i = "mov from cr0" -> IF m.cpl = 3 THEN 13 ELSE 0
      [] i = "sfence" -> IF "sse" \in feature THEN 0 ELSE 6
      [] i \in {"lfence", "mfence"} -> IF "sse2" \in feature THEN 0 ELSE 6
      [] i \in {"clflush", "clflushopt", "clwb", "pcommit"} -> IF i \in feature THEN 0 ELSE 6
      [] i = "invalid clwb" -> 6
      [] i = "rdpmc" -> IF m.cpl = 3 /\ "pce" \notin m.cr4 THEN 13 ELSE 0
      [] i = "port" -> IF m.cpl = 3 /\ m.ioperm THEN 13 ELSE 0
      [] i = "access" -> IF Denied(x) THEN 14 ELSE 0
      [] OTHER -> 0

\* A broken rule: raise #GP (#PF) for nothing, or raise nothing.
Raised(i, x) ==
    LET v == Right(i, x) IN
    IF broken # <<i, v # 0>> THEN v ELSE IF v # 0 THEN 0 ELSE IF i = "access" THEN 14 ELSE 13

o == f_prog[f_at]
Running == f_end = "" /\ f_at <= Len(f_prog)
world == <<feature, broken, f_prog>>
Hit == hit' = (hit \/ Raised(o.i, o.x) # Right(o.i, o.x))

\* The first instruction after the function of the one at f_at.
AfterFn == CHOOSE n \in f_at..(Len(f_prog) + 1) :
    /\ \A k \in f_at..(n - 1) : f_prog[k].fn = o.fn
    /\ n > Len(f_prog) \/ f_prog[n].fn # o.fn

-----------------------------------------------------------------------------
(* handle_exception and plain instructions *)

HandleException ==
    /\ Running /\ o.via = "set"
    /\ exception_handlers' = [exception_handlers EXCEPT ![o.x] = o.want] /\ f_at' = f_at + 1
    /\ UNCHANGED <<world, m, last, counts, test, save, hit, f_failed, f_end>>

Executed(i, x) ==
    CASE i = "mov cr4" -> [m EXCEPT !.cr4 = x]
      [] i = "mov cr3" -> [m EXCEPT !.cr3 = x]
      [] i = "cpl" -> [m EXCEPT !.cpl = x]
      [] i = "wp" -> [m EXCEPT !.wp = x]
      [] i = "ac" -> [m EXCEPT !.ac = x]
      [] i = "pkru" -> [m EXCEPT !.pkru = x]
      [] i = "ioperm" -> [m EXCEPT !.ioperm = TRUE]
      [] OTHER -> m

Jumps == {"fault_test_fault", "restore_exec_to_jmpbuf"}    \* handlers that end in longjmp

\* unhandled_exception: nobody expects an exception here.
Plain ==
    /\ Running /\ o.via = "none" /\ f_at' = f_at + 1
    /\ IF Raised(o.i, o.x) = 0 THEN m' = Executed(o.i, o.x) /\ UNCHANGED f_end
       ELSE f_end' = "abort" /\ UNCHANGED m
    /\ Hit
    /\ UNCHANGED <<world, exception_handlers, last, counts, test, save, f_failed>>

\* CPUID, compared with what the test set up.
Shown(i) == CASE i = "cpuid osxsave" -> "osxsave" \in m.cr4 /\ broken # <<i, TRUE>>
              [] i = "cpuid pcid" -> ~("invpcid" \in feature /\ "pcid" \notin feature)
              [] OTHER -> TRUE
Value ==
    /\ Running /\ o.via = "value" /\ f_at' = f_at + 1
    /\ f_failed' = (f_failed \/ Shown(o.i) # o.want)
    /\ hit' = (hit \/ (broken = <<o.i, TRUE>> /\ "osxsave" \in m.cr4))
    /\ UNCHANGED <<world, exception_handlers, m, last, counts, test, save, f_end>>

-----------------------------------------------------------------------------
(* The ways back from do_handle_exception *)

\* Mutant: ASM_TRY does not clear the word of the last exception.
TryAsm_Stale ==
    LET v == Raised(o.i, o.x) IN
    /\ Running /\ o.via = "try"
    /\ last' = IF v # 0 THEN v ELSE last
    /\ m' = IF v = 0 THEN Executed(o.i, o.x) ELSE m
    /\ f_end' = IF v # 0 /\ exception_handlers[v] # "table" THEN "abort" ELSE ""
    /\ f_failed' = (f_failed \/ last' # o.want)
    /\ f_at' = IF last' # o.want /\ o.fn # "" THEN AfterFn ELSE f_at + 1
    /\ Hit
    /\ UNCHANGED <<world, exception_handlers, counts, test, save>>

\* check_exception_table: record the vector and go to the fixup.
TryAsm ==
    LET v == Raised(o.i, o.x) IN
    /\ Running /\ o.via = "try"
    /\ last' = v
    /\ m' = IF v = 0 THEN Executed(o.i, o.x) ELSE m
    /\ f_end' = IF v # 0 /\ exception_handlers[v] # "table" THEN "abort" ELSE ""
    /\ f_failed' = (f_failed \/ last' # o.want)
    /\ f_at' = IF last' # o.want /\ o.fn # "" THEN AfterFn ELSE f_at + 1
    /\ Hit
    /\ UNCHANGED <<world, exception_handlers, counts, test, save>>

\* gp_handler and handle_ud: count, and skip the instruction.
SkipInsn ==
    LET v == Raised(o.i, o.x) IN
    /\ Running /\ o.via = "skip"
    /\ counts' = IF v = 0 THEN 0 ELSE 1
    /\ f_end' = IF v # 0 /\ exception_handlers[v] \notin {"gp_handler", "handle_ud"} THEN "abort" ELSE ""
    /\ f_failed' = (f_failed \/ counts' # o.want) /\ f_at' = f_at + 1
    /\ Hit
    /\ UNCHANGED <<world, exception_handlers, m, last, test, save>>

\* fault_test, run_in_user: the handler stays where it is after the test.
Retval(i) == CASE i = "port version" -> IF broken = <<"retval", TRUE>> THEN "default" ELSE "magic"
               [] i \in {"port illegal", "port"} -> "default" [] OTHER -> ""
FaultTestStep ==
    LET v == Raised(o.i, o.x) IN
    /\ Running /\ o.via = "jmp"
    /\ f_failed' = (f_failed \/ ~(IF o.want[1] THEN v # 0 ELSE v = 0 /\ Retval(o.i) = o.want[2]))
    /\ f_end' = IF v # 0 /\ exception_handlers[v] \notin Jumps THEN "abort" ELSE ""
    /\ m' = IF v # 0 THEN [m EXCEPT !.cpl = 0] ELSE m
    /\ f_at' = f_at + 1
    /\ hit' = (hit \/ v # Right(o.i, o.x) \/ (o.i = "port version" /\ broken = <<"retval", TRUE>>))
    /\ UNCHANGED <<world, exception_handlers, last, counts, test, save>>

\* do_pf_tss of smap.c and pku.c: count, save, allow the access and retry it.
Allowed == [m EXCEPT !.ac = TRUE, !.pkru = ""]
StillDenied == \/ broken = <<"access", FALSE>>
               \/ "smap" \notin m.cr4 /\ "pke" \notin m.cr4
AccessStep ==
    LET v == Raised(o.i, o.x)
        store == o.x[2] = "write"
        lost == store /\ broken = <<"store", TRUE>>
    IN
    /\ Running /\ o.via = "pf"
    /\ counts' = IF v = 0 THEN 0 ELSE 1
    /\ save' = IF v = 0 THEN save ELSE test
    /\ m' = IF v = 0 THEN m ELSE Allowed
    /\ test' = IF store /\ ~lost THEN o.x[3] ELSE test
    /\ f_failed' = (\/ f_failed \/ counts' # o.want[1]
                    \/ o.want[1] = 1 /\ save' # o.want[2]
                    \/ o.want[3] /\ test' # o.x[3])
    /\ f_end' = IF v # 0 /\ (exception_handlers[14] # "pf_tss" \/ StillDenied) THEN "abort" ELSE ""
    /\ f_at' = f_at + 1
    /\ hit' = (hit \/ v # Right(o.i, o.x) \/ lost)
    /\ UNCHANGED <<world, exception_handlers, last>>

Next == HandleException \/ Plain \/ Value \/ TryAsm \/ SkipInsn \/ FaultTestStep \/ AccessStep

Spec == Init /\ [][Next]_vars

-----------------------------------------------------------------------------
\* The tests of single instructions: on a right processor nothing is reported
\* and every exception meets the handler of the instruction that raised it; a
\* processor with a broken rule never goes through a program in which the rule
\* was applied without a failed report or an abort.
FaultsVerdict ==
    /\ broken = <<"none", TRUE>> => ~f_failed /\ f_end = ""
    /\ hit /\ f_at > Len(f_prog) => f_failed \/ f_end # ""
=============================================================================
