--------------------------------- MODULE Svm ---------------------------------
(***************************************************************************)
(* x86/svm.c: the AMD nested virtualization tests.                         *)
(*                                                                         *)
(* All tests run with one VMCB, one nested page table and one I/O bitmap.  *)
(* A test is a preparation (some begin with vmcb_ident, some change what   *)
(* the test before left), a guest program that runs to an exit, a function *)
(* that decides whether the guest is entered again, and a check that also  *)
(* cleans up.  In one test CPU 1 rewrites an instruction of the guest.     *)
(* The processor is external and may have one defect.                      *)
(***************************************************************************)
EXTENDS Integers, Sequences

CONSTANTS Svms,         \* defects; "none" is one
          LatencyRuns   \* LATENCY_RUNS

VARIABLES
    svm,        \* the defect
    caps,       \* what the machine has: "npt", "smp", "next_rip"
    t, phase,   \* the tests that are left, and what comes next of test_run
    g,          \* the guest's next operation
    vmcb,       \* control.intercept* and asid, exit_code and exit_info, mode of the guest
    npt,        \* changed entries of the nested page table
    io,         \* ports whose bit in io_bitmap is set; Beyond is io_bitmap[8192]
    scratch,    \* test->scratch
    insn, cpu1, \* the instruction at mmio_insn; corrupt_cr3_intercept_bypass
    adjust,     \* TSC_ADJUST, in units of -TSC_ADJUST_VALUE
    ok,         \* ok; the versions of the APIC agree
    runs, gif,  \* runs; the global interrupt flag after test_run
    s_failed    \* tests whose report failed

vars == <<svm, caps, t, phase, g, vmcb, npt, io, scratch, insn, cpu1, adjust, ok, runs, gif, s_failed>>

-----------------------------------------------------------------------------
(* Guest programs.  Ports: 0 stands for the eight ports of io_bitmap[0].   *)

Beyond == 65536
Fail == -1
In(port, size) == <<[op |-> "io", ports |-> port..(port + size - 1)]>>
Stage(n) == <<[op |-> "stage", n |-> n]>>
Inc == <<[op |-> "inc"]>>
Bits(on, off) == <<[op |-> "bits", on |-> on, off |-> off]>>
Op(name) == <<[op |-> name]>>
Byte0 == 0..7
Byte8192 == Beyond..(Beyond + 7)

TestIoio ==
    In(20480, 1) \o In(20480, 1) \o Stage(0)
    \o Bits(Byte0, {}) \o Inc \o In(0, 1) \o Stage(2) \o In(0, 2) \o Stage(3) \o In(0, 4) \o Stage(4)
    \o Bits({20480}, {}) \o In(20480, 1) \o Stage(5) \o Bits({36864}, {}) \o In(36864, 2) \o Stage(6)
    \o Bits({20480}, {}) \o In(20479, 4) \o Stage(7)
    \o Inc \o In(32767, 4) \o Stage(8) \o Inc \o Bits({32768}, {}) \o In(32767, 4) \o Stage(10)
    \o Bits({}, Byte0) \o In(65535, 4) \o Stage(11)
    \o Bits(Byte0, Byte8192) \o In(65535, 4) \o Inc \o Stage(12)

TestModeSwitch == Op("to real") \o Op("vmmcall") \o Op("to long") \o Op("vmmcall")
TestCr3InterceptBypass == Op("one") \o Op("await") \o Op("mmio_insn")
TscAdjustTest == Op("tsc before") \o Op("wrmsr tsc") \o Op("tsc after")
Access(what) == <<[op |-> "access", what |-> what]>>

\* [name, supported, prepare, guest program]
tests == <<
    <<"null", "any", "ident", <<>>>>,
    <<"vmrun", "any", "ident", Op("vmrun")>>,
    <<"ioio", "any", "ioio", TestIoio>>,
    <<"vmrun intercept check", "any", "no vmrun", <<>>>>,
    <<"cr3 read intercept", "any", "ident cr3", Op("cr3")>>,
    <<"cr3 read nointercept", "any", "ident", Op("cr3")>>,
    <<"cr3 read intercept emulate", "smp", "ident cr3", TestCr3InterceptBypass>>,
    <<"next_rip", "next_rip", "rdtsc", Op("rdtsc")>>,
    <<"mode_switch", "any", "mode_switch", TestModeSwitch>>,
    <<"asid_zero", "any", "asid", <<>>>>,
    <<"sel_cr0_bug", "any", "ident cr0", Op("cr0")>>,
    <<"npt_nx", "npt", "ident nx", Access("fetch")>>,
    <<"npt_us", "npt", "ident us", Access("us")>>,
    <<"npt_rsvd", "npt", "ident rsvd", Access("fetch")>>,
    <<"npt_rw", "npt", "ident rw", Access("rw")>>,
    <<"npt_rsvd_pfwalk", "npt", "ident rsvd walk", <<>>>>,
    <<"npt_rw_pfwalk", "npt", "ident rw walk", <<>>>>,
    <<"npt_l1mmio", "npt", "ident", Access("mmio read") \o Access("mmio read")>>,
    <<"npt_rw_l1mmio", "npt", "ident mmio", Access("mmio read") \o Access("mmio")>>,
    <<"tsc_adjust", "any", "ident tsc", TscAdjustTest>>,
    <<"latency_run_exit", "any", "ident", <<>>>>,
    <<"latency_svm_insn", "any", "ident", <<>>>> >>

name == Head(t)[1]
Supported(test) == test[2] \in caps \cup {"any"}
prog == Head(t)[4]

VmcbIdent == [on |-> {"vmrun", "vmmcall"}, asid |-> 1, exit |-> "", info |-> {}, guest |-> "long"]

Start(todo) ==
    /\ svm \in Svms /\ caps \in SUBSET {"npt", "smp", "next_rip"}
    /\ t = todo /\ phase = "prepare" /\ g = 1
    /\ vmcb = [VmcbIdent EXCEPT !.on = {}, !.asid = 0]
    /\ npt = {} /\ io = {} /\ scratch = 0 /\ insn = "mov" /\ cpu1 = "idle"
    /\ adjust = 0 /\ ok = TRUE /\ runs = 0 /\ gif = TRUE /\ s_failed = {}

Init == Start(tests)

-----------------------------------------------------------------------------
(* prepare *)

NptChange == [p \in {"ident nx", "ident us", "ident rsvd", "ident rw", "ident rsvd walk", "ident rw walk", "ident mmio"} |->
    CASE p = "ident nx" -> "nx" [] p = "ident us" -> "us" [] p = "ident rsvd" -> "rsvd" [] p = "ident rw" -> "rw"
      [] p = "ident rsvd walk" -> "rsvd walk" [] p = "ident rw walk" -> "rw walk" [] OTHER -> "mmio"]

Inherits == {"ioio", "no vmrun", "rdtsc", "mode_switch", "asid"}
Intercepts(p) ==
    CASE p \in {"ident cr3"} -> {"cr3"} [] p = "ident cr0" -> {"cr0"} [] p = "ioio" -> {"io"}
      [] p = "rdtsc" -> {"rdtsc"} [] p = "mode_switch" -> {"exceptions"} [] OTHER -> {}

\* Mutant: every preparation changes what the test before left.
Prepared_NoIdent(p) ==
    [vmcb EXCEPT !.on = (IF p = "no vmrun" THEN @ \ {"vmrun"} ELSE @ \cup Intercepts(p)) \cup (IF t = tests THEN VmcbIdent.on ELSE {}),
                 !.asid = IF t = tests THEN 1 ELSE IF p = "asid" THEN 0 ELSE @]

Prepared(p) ==
    LET v == IF p \in Inherits THEN vmcb ELSE VmcbIdent IN
    [v EXCEPT !.on = IF p = "no vmrun" THEN @ \ {"vmrun"} ELSE @ \cup Intercepts(p),
              !.asid = IF p = "asid" THEN 0 ELSE @]

Prepare ==
    LET p == Head(t)[3] IN
    /\ t # <<>> /\ phase = "prepare" /\ Supported(Head(t))
    /\ phase' = "run" /\ g' = 1
    /\ vmcb' = Prepared(p)
    /\ npt' = IF p \in DOMAIN NptChange THEN npt \cup {NptChange[p]} ELSE npt
    /\ io' = IF p = "ioio" THEN Byte8192 ELSE io
    /\ scratch' = IF p \in {"ioio", "mode_switch"} THEN 0 ELSE IF name = "cr3 read intercept emulate" THEN 0 ELSE scratch
    /\ cpu1' = IF name = "cr3 read intercept emulate" THEN "cas" ELSE cpu1
    /\ adjust' = IF p = "ident tsc" THEN 1 ELSE adjust
    /\ ok' = TRUE
    /\ runs' = IF name \in {"latency_run_exit", "latency_svm_insn"} THEN LatencyRuns ELSE runs
    /\ UNCHANGED <<svm, caps, t, insn, gif, s_failed>>

Skip ==
    /\ t # <<>> /\ phase = "prepare" /\ ~Supported(Head(t))
    /\ t' = Tail(t)
    /\ UNCHANGED <<svm, caps, phase, g, vmcb, npt, io, scratch, insn, cpu1, adjust, ok, runs, gif, s_failed>>

-----------------------------------------------------------------------------
(* vmrun and the guest *)

Exit(code, info) == vmcb' = [vmcb EXCEPT !.exit = code, !.info = info] /\ phase' = "exit"
Final == {"final", "user", "present"}

\* The nested page fault of an access, {} if there is none.
Npf(what) ==
    CASE what = "fetch" /\ "nx" \in npt /\ svm # "no nx" -> Final \cup {"fetch"}
      [] what = "fetch" /\ "rsvd" \in npt /\ svm # "no rsvd" -> Final \cup {"fetch", "rsvd"}
      [] what = "us" /\ "us" \in npt /\ svm # "no us" -> Final
      [] what \in {"rw", "mmio"} /\ what \in npt /\ svm # "no rw" -> Final \cup {"write"}
      [] OTHER -> {}

\* VMRUN checks the VMCB; the walk of the guest's page table is the first access.
VmrunFails == ("vmrun" \notin vmcb.on /\ svm # "vmrun free") \/ (vmcb.asid = 0 /\ svm # "asid free")
WalkFails == "npt" \in caps /\ npt \cap {"rsvd walk", "rw walk"} # {} /\ svm # "walk free"

IoExits(ports) ==
    LET seen == CASE svm = "first port" -> {CHOOSE p \in ports : \A q \in ports : p <= q}
                  [] svm = "wraps" -> {p % Beyond : p \in ports}
                  [] OTHER -> ports
    IN "io" \in vmcb.on /\ seen \cap io # {}

Vmrun ==
    /\ phase = "run"
    /\ IF VmrunFails THEN Exit("err", {})
       ELSE IF WalkFails THEN Exit("npf", {"walk", "user", "write"})
       ELSE phase' = "guest" /\ UNCHANGED vmcb
    /\ UNCHANGED <<svm, caps, t, g, npt, io, scratch, insn, cpu1, adjust, ok, runs, gif, s_failed>>

Here(n) == phase = "guest" /\ g <= Len(prog) /\ prog[g].op = n
Go == g' = g + 1
Still == <<svm, caps, t, npt, runs, gif, s_failed>>

Intercepted(what) == what \in vmcb.on /\ svm # "no " \o what

GuestExits ==
    /\ \/ Here("vmrun") /\ Exit("vmrun", {}) /\ UNCHANGED g
       \/ Here("vmmcall") /\ Exit("vmmcall", {}) /\ Go
       \/ phase = "guest" /\ g > Len(prog) /\ Exit("vmmcall", {}) /\ UNCHANGED g
       \/ Here("cr3") /\ Intercepted("cr3") /\ Exit("cr3", {}) /\ UNCHANGED g
       \/ Here("rdtsc") /\ Exit("rdtsc", IF svm = "no next_rip" THEN {} ELSE {"next_rip"}) /\ Go
       \/ Here("cr0") /\ Intercepted("cr0") /\ Exit("cr0", {}) /\ UNCHANGED g
       \/ Here("access") /\ Npf(prog[g].what) # {} /\ Exit("npf", Npf(prog[g].what)) /\ UNCHANGED g
       \/ Here("io") /\ IoExits(prog[g].ports) /\ Exit("ioio", prog[g].ports) /\ Go
    /\ UNCHANGED <<Still, io, scratch, insn, cpu1, adjust, ok>>

\* Where the guest goes after a stage that is not the expected one.
ToEnd(n) == IF scratch = n THEN g' = g + 1 /\ UNCHANGED scratch ELSE g' = Len(prog) + 1 /\ scratch' = Fail

GuestStep ==
    /\ \/ Here("io") /\ ~IoExits(prog[g].ports) /\ Go /\ UNCHANGED <<vmcb, io, scratch, adjust, ok>>
       \/ Here("stage") /\ ToEnd(prog[g].n) /\ UNCHANGED <<vmcb, io, adjust, ok>>
       \/ Here("inc") /\ Go /\ scratch' = scratch + 1 /\ UNCHANGED <<vmcb, io, adjust, ok>>
       \/ Here("bits") /\ Go /\ io' = (io \cup prog[g].on) \ prog[g].off /\ UNCHANGED <<vmcb, scratch, adjust, ok>>
       \/ /\ Here("cr3") /\ ~Intercepted("cr3") /\ Go /\ scratch' = 3   \* the value of CR3
          /\ UNCHANGED <<vmcb, io, adjust, ok>>
       \/ /\ Here("access") /\ Npf(prog[g].what) = {} /\ Go
          /\ ok' = (ok /\ ~(prog[g].what = "mmio read" /\ svm = "mmio differs"))
          /\ UNCHANGED <<vmcb, io, scratch, adjust>>
       \/ /\ Here("to real") /\ Go /\ UNCHANGED <<io, scratch, adjust, ok>>
          /\ vmcb' = [vmcb EXCEPT !.guest = IF svm = "keeps lma" THEN "long" ELSE "real"]
       \/ /\ Here("to long") /\ Go /\ UNCHANGED <<io, scratch, adjust, ok>>
          /\ vmcb' = [vmcb EXCEPT !.guest = IF svm = "stale mode" THEN "real" ELSE "long"]
       \/ Here("one") /\ Go /\ scratch' = 1 /\ UNCHANGED <<vmcb, io, adjust, ok>>
       \/ Here("await") /\ scratch = 2 /\ Go /\ UNCHANGED <<vmcb, io, scratch, adjust, ok>>
       \/ Here("tsc before") /\ Go /\ ok' = (ok /\ adjust = 1) /\ UNCHANGED <<vmcb, io, scratch, adjust>>
       \/ /\ Here("wrmsr tsc") /\ Go /\ adjust' = IF svm = "adjust kept" THEN adjust ELSE adjust + 1
          /\ UNCHANGED <<vmcb, io, scratch, ok>>
       \/ /\ Here("tsc after") /\ Go /\ ok' = (ok /\ adjust >= 2 /\ svm # "tsc kept")
          /\ UNCHANGED <<vmcb, io, scratch, adjust>>
    /\ UNCHANGED <<Still, phase, insn, cpu1>>

\* sel_cr0_bug_test after a write of CR0 without an exit: report and end the program.
SelCr0Bug ==
    /\ Here("cr0") /\ ~Intercepted("cr0")
    /\ s_failed' = s_failed \cup {name} /\ t' = <<>> /\ phase' = "prepare"
    /\ UNCHANGED <<svm, caps, g, vmcb, npt, io, scratch, insn, cpu1, adjust, ok, runs, gif>>

\* The store to 0xa0000 is emulated: the emulator may fetch what CPU 1 wrote.
MmioInsn ==
    /\ Here("mmio_insn")
    /\ \E fetched \in {"mov", insn} :
         IF fetched = "cr3" /\ svm # "emulates cr3" THEN Exit("cr3", {}) /\ UNCHANGED g
         ELSE Go /\ UNCHANGED <<vmcb, phase>>
    /\ UNCHANGED <<Still, io, scratch, insn, cpu1, adjust, ok>>

CorruptCr3InterceptBypass ==
    /\ \/ cpu1 = "cas" /\ scratch = 1 /\ scratch' = 2 /\ cpu1' = "write" /\ UNCHANGED insn
       \/ cpu1 = "write" /\ insn' = "cr3" /\ cpu1' = "idle" /\ UNCHANGED scratch
    /\ UNCHANGED <<svm, caps, t, phase, g, vmcb, npt, io, adjust, ok, runs, gif, s_failed>>

-----------------------------------------------------------------------------
(* finished and succeeded *)

\* mode_switch_finished: what is wrong at this stage.
ModeWrong == (scratch = 0 /\ vmcb.guest # "real") \/ (scratch = 2 /\ vmcb.guest # "long")

Again ==
    /\ phase = "exit"
    /\ \/ name = "ioio" /\ vmcb.exit = "ioio" /\ scratch' = scratch + 1 /\ io' = io \ vmcb.info /\ UNCHANGED runs
       \/ name = "mode_switch" /\ vmcb.exit = "vmmcall" /\ ~ModeWrong /\ scratch = 0 /\ scratch' = 1 /\ UNCHANGED <<io, runs>>
       \/ name = "latency_run_exit" /\ runs > 1 /\ runs' = runs - 1 /\ UNCHANGED <<scratch, io>>
    /\ phase' = "run"
    /\ UNCHANGED <<svm, caps, t, g, vmcb, npt, insn, cpu1, adjust, ok, gif, s_failed>>

Finished ==
    CASE name = "ioio" -> vmcb.exit # "ioio"
      [] name = "mode_switch" -> vmcb.exit # "vmmcall" \/ ModeWrong \/ scratch = 1
      [] name = "latency_run_exit" -> runs <= 1
      [] OTHER -> TRUE

Npf32(bits) == vmcb.exit = "npf" /\ vmcb.info = bits
Succeeded ==
    CASE name = "null" -> vmcb.exit = "vmmcall"
      [] name = "vmrun" -> vmcb.exit = "vmrun"
      [] name = "ioio" -> scratch # Fail
      [] name \in {"vmrun intercept check", "asid_zero"} -> vmcb.exit = "err"
      [] name \in {"cr3 read intercept", "cr3 read intercept emulate"} -> vmcb.exit = "cr3"
      [] name = "cr3 read nointercept" -> vmcb.exit = "vmmcall" /\ scratch = 3
      [] name = "next_rip" -> vmcb.info = {"next_rip"}
      [] name = "mode_switch" -> scratch = 1 /\ vmcb.exit = "vmmcall" /\ ~ModeWrong   \* incremented to 2
      [] name = "sel_cr0_bug" -> vmcb.exit = "cr0"
      [] name = "npt_nx" -> Npf32(Final \cup {"fetch"})
      [] name = "npt_us" -> Npf32(Final)
      [] name = "npt_rsvd" -> Npf32(Final \cup {"fetch", "rsvd"})
      [] name \in {"npt_rw", "npt_rw_l1mmio"} -> Npf32(Final \cup {"write"})
      [] name \in {"npt_rsvd_pfwalk", "npt_rw_pfwalk"} -> Npf32({"walk", "user", "write"})
      [] name = "npt_l1mmio" -> ok
      [] name = "tsc_adjust" -> ok /\ adjust >= 2
      [] OTHER -> TRUE

Check ==
    /\ phase = "exit" /\ Finished
    /\ s_failed' = IF Succeeded THEN s_failed ELSE s_failed \cup {name}
    /\ npt' = IF Head(t)[3] \in DOMAIN NptChange THEN npt \ {NptChange[Head(t)[3]]} ELSE npt
    /\ io' = IF name = "ioio" THEN {} ELSE io
    /\ scratch' = IF name = "mode_switch" /\ Succeeded THEN 2 ELSE scratch
    /\ adjust' = IF name = "tsc_adjust" THEN 0 ELSE adjust
    /\ gif' = (name # "latency_svm_insn")
    /\ phase' = "prepare" /\ t' = Tail(t)
    /\ UNCHANGED <<svm, caps, g, vmcb, insn, cpu1, ok, runs>>

Next ==
    \/ Prepare \/ Skip \/ Vmrun \/ GuestExits \/ GuestStep \/ SelCr0Bug \/ MmioInsn \/ CorruptCr3InterceptBypass
    \/ Again \/ Check

Spec == Init /\ [][Next]_vars

-----------------------------------------------------------------------------

\* svm.c: every test starts from an identity nested page table and a clear I/O
\* bitmap, whatever the tests before did; on a right processor no report fails,
\* save that of the test in which CPU 1 may write its instruction too late; a
\* defect that the tests look for fails a report, if its test is supported.
SvmVerdict ==
    LET end == t = <<>>
        npts == {"no nx", "no rsvd", "no us", "no rw", "walk free", "mmio differs"}
        seen == (svm \in npts => "npt" \in caps) /\ (svm = "no next_rip" => "next_rip" \in caps)
    IN /\ phase = "prepare" => npt = {} /\ io = {} /\ adjust = 0
       /\ svm = "none" => /\ s_failed \subseteq {"cr3 read intercept emulate"}
                          /\ end \/ ENABLED Next
       /\ svm \notin {"none", "stale mode"} /\ seen /\ end => s_failed # {}

=============================================================================
