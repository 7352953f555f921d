------------------------------- MODULE MCTests -------------------------------
(***************************************************************************)
(* Instances for TLC of the tests of processors: on x86 paging, VMX and    *)
(* SVM, faults and features, event injection, real mode, the emulator and  *)
(* what waits for a wake-up, and the tests of s390x, with the processors   *)
(* that they judge and the framework of the VMX tests.  They are programs  *)
(* of their own, so a behaviour runs one.                                  *)
(***************************************************************************)
EXTENDS AccessTest, Wakeup

CONSTANTS Parts, Defects, GuestMachines, Tests, MaxTeardown, MaxSteps

VARIABLES
    part,
    v_defect, bios, feature_control, wanted, prog, v_at, memory, cache, v_current, failed,
    g_machine, main, g_at, stage, exit, vmcs, cpu, g_mem, g_failed,
    f_pc, f_test, steps, failures, in_guest, launched, guest_finished, v2_guest_main,
    hypercall_field, teardown_steps, vmxon, mode, launch, reason, truth,
    svm, caps, s_t, phase, s_g, vmcb, npt, io, scratch, s_insn, cpu1, adjust, ok, runs, gif, s_failed,
    feature, broken, f_prog, f_at, exception_handlers, f_m, f_last, f_counts, f_case, save, hit,
    f_failed, f_end,
    injector, e_prog, e_at, irq_on, window, pending, tpr, nmis, masked, nmi_fn, nmi_at, evicted, np,
    ro, test_divider, test_count, eip, dr6, dr7, e_n, e_failed, crashed,
    r_todo, r_defect, r_sp, r_failed,
    emulator, fep, movbe, m_next, m_cr0, m_cr8, m_crashed, m_failed,
    p_cpu, have_ad, p_todo, tables, twiddled, want, ad, n_ops, ept_failed, telling,
    z_defect, facility, z_memory, z_prog, z_phase, z_todo, pgm_int_expected, pgm_int_code, ram_size, z_s, z_out,
    z_it, z_failed, z_hit, z_lost, z_end

Vmcs == INSTANCE VmcsTest WITH defect <- v_defect, at <- v_at, current <- v_current
Guest == INSTANCE VmxTests
         WITH Machines <- GuestMachines, machine <- g_machine, at <- g_at, mem <- g_mem,
              failed <- g_failed
Frame == INSTANCE Vmx
         WITH pc <- f_pc, test <- f_test, Faults <- {"early", "late", "vmxon", "vmxoff"}

AllFeatures == {"pcid", "invpcid", "xsave", "ymm", "umip", "smap", "pku", "clflush", "sse", "sse2",
                "clflushopt", "clwb", "pcommit"}

\* An instruction that faults where it must not, or does not where it must;
\* and what can be wrong in one way only.
Insns == {"ud2", "mov cr4", "mov cr0", "mov cr3", "invpcid", "xsetbv", "xgetbv", "sgdt", "sidt", "sldt",
          "str", "smsw", "mov from cr0", "sfence", "lfence", "mfence", "clflush", "clflushopt", "clwb",
          "pcommit", "invalid clwb", "rdpmc", "rdpmc vmware", "port version", "port illegal", "port",
          "access"}
MCBroken == {<<"none", TRUE>>, <<"retval", TRUE>>, <<"cpuid osxsave", TRUE>>, <<"store", TRUE>>} \cup (Insns \X BOOLEAN)

Nested == INSTANCE Svm
          WITH LatencyRuns <- 2, t <- s_t, g <- s_g, insn <- s_insn,
               Svms <- {"none", "no cr3", "no cr0", "vmrun free", "asid free", "no nx", "no rsvd", "no us",
                        "no rw", "walk free", "mmio differs", "first port", "wraps", "no next_rip",
                        "keeps lma", "stale mode", "adjust kept", "tsc kept"}

Faulting == INSTANCE Faults
         WITH Features <- {AllFeatures, {"pcid", "xsave", "smap"}, {}}, BrokenRules <- MCBroken, m <- f_m,
              last <- f_last, counts <- f_counts, test <- f_case

Inject == INSTANCE Events
          WITH n <- e_n,
               Injectors <- {"none", "lowest first", "no window", "no tpr", "loses irq", "loses nmi",
                             "loses soft", "repeats soft", "loses exception", "loses first of two",
                             "no nmi mask", "iret fault", "no error code", "eip not saved",
                             "wrong length", "no vm86", "dpl of cs", "keeps hits", "bs on hit",
                             "clears bs", "emulated", "icebp", "icebp twice", "no delayed hit",
                             "tf at syscall", "one byte", "no b0", "rf ignored", "keeps tf", "late entry"}

Real == INSTANCE Realmode WITH todo <- r_todo, defect <- r_defect, sp <- r_sp, failed <- r_failed

Emul == INSTANCE Emulator
        WITH cr0 <- m_cr0, cr8 <- m_cr8,
             Emulators <- {"none", "DF ignored", "DR6 without fixed bits", "RPL unchecked", "TSS not busy",
                           "bsf keeps ZF", "bsr is bsf", "btc imm8 not masked", "btc reg masked",
                           "carry ignored", "cr8 is wrong", "cross page cut", "enter sets rbp last",
                           "fault writes rax", "half a vector", "imm64 cut", "imm8 zero extended",
                           "ljmp falls through", "lmsw clears PE", "lmsw only sets", "movbe reg",
                           "no #GP on jmp", "no #MF", "no zero extension", "nop writes rax",
                           "pushw moves 8", "rep stops at the page", "repe goes on",
                           "repe looks at ZF first", "rip of the start", "scas is wide",
                           "shld is wrong", "smsw stores 8 bytes", "test stores", "wide store"}

\* Two guest addresses with a table in common; pages that are mapped to
\* others, small ones and one on a boundary of large ones.
Ext == INSTANCE Ept
          WITH cpu <- p_cpu, todo <- p_todo, Fanout <- 2, MaxOps <- 2,
               GuestAddrs <- {[tables |-> <<0, 1>>, leaf |-> 5], [tables |-> <<0, 2>>, leaf |-> 4],
                              [tables |-> <<0>>, leaf |-> -1]},
               Remap <- {[gpa |-> 5, hpa |-> 6], [gpa |-> 4, hpa |-> 8]},
               Cpus <- {"none", "no D", "D on read"}

\* Facilities: all, some and none.  Memory: where the SCLP and the machine
\* agree; in its second fields; with more, and with some that is read-only,
\* than there is; and of one increment.
Mem(rnsize, rnsize2, rnmax, rnmax2, n, beyond) ==
    [rnsize |-> rnsize, rnsize2 |-> rnsize2, rnmax |-> rnmax, rnmax2 |-> rnmax2,
     pages |-> [p \in 0..15 |-> IF p < n THEN "rw" ELSE beyond]]
S390 == INSTANCE S390x
        WITH VPages <- 16, TopPages <- 3, FramePages <- 3, Usual <- Mem(1, 0, 6, 0, 6, "none"),
             Facilities <- {{"msa", "msa3", "msa4", "msa5", "gs", "edat", "sthyi", "vx", "vxe", "vxbcd", "iep", "essa"},
                            {"msa", "edat", "vx"}, {}},
             Memories <- {Mem(1, 0, 6, 0, 6, "none"), Mem(0, 2, 0, 4, 8, "none"), Mem(2, 0, 4, 0, 6, "none"),
                          Mem(1, 0, 7, 0, 5, "ro"), Mem(3, 0, 1, 0, 3, "none")},
             ArgLists <- {<<>>, <<"-i", "2">>, <<"-t", "3">>, <<"-i", "3", "-t", "3">>, <<"stap", "-i", "2", "spx">>,
                          <<"-i">>, <<"bogus">>, <<"-i", "0">>, <<"stap", "-t">>},
             defect <- z_defect, memory <- z_memory, prog <- z_prog, phase <- z_phase, todo <- z_todo, s <- z_s,
             out <- z_out, it <- z_it, failed <- z_failed, hit <- z_hit, lost <- z_lost, end <- z_end

caching == <<v_defect, bios, feature_control, wanted, prog, v_at, memory, cache, v_current, failed>>
guest == <<g_machine, main, g_at, stage, exit, vmcs, cpu, g_mem, g_failed>>
frame == <<f_pc, f_test, steps, failures, in_guest, launched, guest_finished, v2_guest_main,
           hypercall_field, teardown_steps, vmxon, mode, launch, reason, truth>>
nested == <<svm, caps, s_t, phase, s_g, vmcb, npt, io, scratch, s_insn, cpu1, adjust, ok, runs, gif,
            s_failed>>
faulting == <<feature, broken, f_prog, f_at, exception_handlers, f_m, f_last, f_counts, f_case, save,
              hit, f_failed, f_end>>
injecting == <<injector, e_prog, e_at, irq_on, window, pending, tpr, nmis, masked, nmi_fn, nmi_at,
               evicted, np, ro, test_divider, test_count, eip, dr6, dr7, e_n, e_failed, crashed>>
real == <<r_todo, r_defect, r_sp, r_failed>>
emul == <<emulator, fep, movbe, m_next, m_cr0, m_cr8, m_crashed, m_failed>>
ext_pages == <<p_cpu, have_ad, p_todo, tables, twiddled, want, ad, n_ops, ept_failed, telling>>
s390 == <<z_defect, facility, z_memory, z_prog, z_phase, z_todo, pgm_int_expected, pgm_int_code, ram_size, z_s,
          z_out, z_it, z_failed, z_hit, z_lost, z_end>>
all == <<part, vars, caching, guest, frame, nested, faulting, injecting, real, emul, wakeVars, ext_pages,
         s390>>

-----------------------------------------------------------------------------
(* AccessTest: each machine with the flags that concern what is right or   *)
(* wrong about it.                                                         *)

Acc(bits) == {<<"access", b>> : b \in bits}
Pku == {<<"pku", "ad">>, <<"pku", "wd">>, <<"pku", "pkey">>, <<"cpu", "pke">>}

Rights == Pte({"p", "rw", "user", "nx"}) \cup Pde({"p", "rw", "user", "ps"})
          \cup Acc({"user", "write", "fetch"}) \cup Cpu({"nx", "wp"})
Marks == Pte({"p", "rw", "a", "d"}) \cup Pde({"p", "rw", "a", "d", "ps"})
         \cup Acc({"user", "write", "twice"})
ReservedBits == Pte({"p", "nx", "51"}) \cup Pde({"p", "ps", "nx", "51", "13"})
          \cup Acc({"fetch", "twice"}) \cup Cpu({"nx", "smep"})
Keys == Pte({"p", "rw", "user"}) \cup Pde({"p", "rw", "user"}) \cup Pku
        \cup Acc({"user", "write", "fetch"}) \cup Cpu({"wp"})
Smep == Pte({"p", "user"}) \cup Pde({"p", "user", "ps"})
        \cup Acc({"fetch", "user", "twice"}) \cup Cpu({"smep", "nx"})

M(vary, cpuid, defect) == [vary |-> vary, cpuid |-> cpuid, defect |-> defect]
Every == {"smep", "pku", "la57"}

MCMachines == {
    M(Rights, {}, "none"), M(Marks, Every, "none"), M(ReservedBits, {"smep"}, "none"),
    M(Keys, {"pku"}, "none"), M(Smep, Every, "none"),
    M(Pde({"p", "rw", "ps"}) \cup Acc({"write"}) \cup Cpu({"wp"}), Every, "wp"),
    M(Smep, {"smep"}, "smep"),
    M(Pde({"p", "rw", "ps"}) \cup Acc({"write", "twice"}), Every, "dirty"),
    M(Pde({"p", "51"}), {}, "rsvd"),
    M(Pte({"p"}) \cup Pde({"p", "ps", "rw"}), {"pku"}, "invlpg"),
    M(Keys, {"pku"}, "pk"),
    M(Pde({"p", "user"}) \cup Pku \cup Acc({"user"}), {"smep"}, "hidden pku"),
    M(Pde({"p", "user"}) \cup Cpu({"smep"}) \cup Acc({"user"}), {}, "hidden smep")}

-----------------------------------------------------------------------------
(* VmxTests: each test on a right processor and on those that it should    *)
(* find.                                                                   *)

G(name, clr, set, defects, insn) ==
    {[test |-> name, clr |-> clr, set |-> set, defect |-> d, insn |-> insn] : d \in defects}
Switches == {"load", "save", "hload"}
Missing == [c \in Switches |->
               CASE c = "load" -> "no load" [] c = "save" -> "no save" [] OTHER -> "no host load"]
MissingOf(clr) == {"none"} \cup {Missing[c] : c \in clr}
Primary == {"INVLPG", "MWAIT", "RDPMC", "RDTSC", "CR3_LOAD", "CR3_STORE", "CR8_LOAD", "CR8_STORE",
            "MONITOR", "PAUSE", "HLT"}
AllInsns == Primary \cup {"secondary", "WBINVD", "DESC_TABLE", "RDRAND", "RDSEED"}
Vpid == {"secondary", "VPID"}

MCGuestMachines ==
    G("CR shadowing", {}, {}, {"none", "no shadow", "reads exit", "writes exit",
                               "compares register", "one bit", "no mask", "other exit"}, "none")
    \cup G("I/O bitmap", {}, {}, {"none", "first port", "one bitmap", "unconditional first",
                                  "no overrun", "never unconditional", "width"}, "none")
    \cup G("instruction intercept", AllInsns, {}, {"none", "ignored", "forced", "reason"}, "DESC_TABLE")
    \cup G("instruction intercept", AllInsns, {"CR3_LOAD", "CR3_STORE"},
           {"none", "ignored", "reason", "qualification"}, "CR3_LOAD")
    \cup G("instruction intercept", Primary, {}, {"none", "ignored", "forced", "qualification"}, "INVLPG")
    \cup UNION {G(t, c, {}, MissingOf(c), "none") : t \in {"PAT", "EFER"}, c \in SUBSET Switches}
    \cup G("debug controls", Switches, {}, MissingOf(Switches) \cup {"always loads", "always saves", "other exit"}, "none")
    \cup G("debug controls", Switches, {"load"}, MissingOf(Switches), "none")
    \cup G("VPID", Vpid \cup {"CONTEXT", "ALL"}, {}, {"none", "other exit"}, "none")
    \cup G("VPID", Vpid \cup {"CONTEXT", "ALL"}, {}, {"accepted"}, "ADDR")
    \cup G("VPID", Vpid \cup {"ADDR", "ALL"}, {}, {"refused"}, "ALL")
    \cup G("VPID", {"VPID"}, {}, {"none"}, "none")

-----------------------------------------------------------------------------
(* Vmx: tests of either interface; the last one mixes them. *)

T(v2, init, onfail) == [v2 |-> v2, init |-> init, onfail |-> onfail]
FrameworkTests == <<T(FALSE, {}, FALSE), T(TRUE, {}, FALSE), T(FALSE, {"start", "exit"}, TRUE),
             T(TRUE, {}, FALSE), T(TRUE, {"start"}, FALSE)>>

-----------------------------------------------------------------------------
(* The part that runs starts in any of its initial states, the others in   *)
(* one of theirs, or with nothing to do, where they stay.                  *)

TestsInit ==
    /\ part \in Parts
    /\ part # "access" => machine = CHOOSE m \in Machines : TRUE
    /\ part # "vmcs" => v_defect = "none" /\ bios = "locked" /\ wanted = TRUE
    /\ part # "guest" => g_machine = CHOOSE m \in GuestMachines : m.test = "VPID"
    /\ part # "svm" => svm = "none" /\ caps = {}
    /\ part # "faults" => /\ feature = {} /\ broken = <<"none", TRUE>>
                          /\ f_prog = CHOOSE p \in Faulting!Programs({}) : TRUE
    /\ part # "events" => injector = "none" /\ e_prog = Inject!SyscallMain
    /\ part # "emulator" => emulator = "none" /\ fep = TRUE /\ movbe = TRUE
    /\ part # "wakeup" => w_prog = "init" /\ w = CHOOSE s \in InitStart : TRUE
    /\ part # "ept" => p_cpu = "none" /\ have_ad = TRUE
    /\ part # "s390x" => z_prog = "cmm" /\ facility = {} /\ z_defect = [i |-> "", kind |-> "none"]
    /\ Nested!Start(IF part = "svm" THEN Nested!tests ELSE <<>>)
    /\ Real!Start(IF part = "real mode" THEN Real!Program ELSE <<>>)
    /\ Init /\ Vmcs!Init /\ Guest!Init /\ Frame!Init /\ Faulting!Init
    /\ Inject!Init /\ Emul!Init /\ WakeInit /\ Ext!Init /\ S390!Init

TestsNext ==
    /\ UNCHANGED part
    /\ IF part = "access" THEN Next ELSE UNCHANGED vars
    /\ IF part = "vmcs" THEN Vmcs!Next ELSE UNCHANGED caching
    /\ IF part = "guest" THEN Guest!Next ELSE UNCHANGED guest
    /\ IF part = "vmx" THEN Frame!Next ELSE UNCHANGED frame
    /\ IF part = "svm" THEN Nested!Next ELSE UNCHANGED nested
    /\ IF part = "faults" THEN Faulting!Next ELSE UNCHANGED faulting
    /\ IF part = "events" THEN Inject!Next ELSE UNCHANGED injecting
    /\ IF part = "real mode" THEN Real!Next ELSE UNCHANGED real
    /\ IF part = "emulator" THEN Emul!Next ELSE UNCHANGED emul
    /\ IF part = "wakeup" THEN WakeNext ELSE UNCHANGED wakeVars
    /\ IF part = "ept" THEN Ext!Next ELSE UNCHANGED ext_pages
    /\ IF part = "s390x" THEN S390!Next ELSE UNCHANGED s390

TestsSpec == TestsInit /\ [][TestsNext]_all

-----------------------------------------------------------------------------
(* The properties, each of the part that runs. *)

\* The paging test (x86/access.c), see AccessTest: its verdict is right and
\* its loop leaves out no combination; what it executes is mapped so that it
\* can be fetched, and its page tables do not share pages.
AccessVerdict == part = "access" => VerdictIsRight /\ LoopIsComplete
AccessLayout == part = "access" => CodeIsFetchable /\ TablesApart

\* The VMX tests (x86/vmx.c, x86/vmx_tests.c): those of the VMCS, and those
\* that proceed by stages, tell a defect; the flags of the framework agree
\* with the processor, and teardown steps are the test's own; extended page
\* tables map what they are meant to and their bits are checked rightly.  See
\* VmcsTest, VmxTests, Vmx and Ept.
VmxVerdict ==
    CASE part = "vmcs" -> Vmcs!VmcsVerdict
      [] part = "guest" -> Guest!StagesVerdict
      [] part = "vmx" -> Frame!FlagsMatch /\ Frame!TeardownOwn
      [] part = "ept" -> Ext!EptMapsRight /\ Ext!EptVerdict
      [] OTHER -> TRUE

\* vmx_enter_guest says whether the guest was entered, see Vmx.
EntryReported == Frame!EntryReported

\* x86/svm.c, see Svm.
SvmVerdict == part = "svm" => Nested!SvmVerdict

\* The tests that catch exceptions (x86, see Faults) and program interrupts
\* (s390x, with its search for memory and its page tables, see S390x).
FaultsVerdict ==
    /\ part = "faults" => Faulting!FaultsVerdict
    /\ part = "s390x" => S390!S390Verdict

\* eventinj.c, taskswitch2.c, debug.c and syscall.c, see Events.
EventsVerdict == part = "events" => Inject!EventsVerdict

\* realmode.c and emulator.c report an instruction that is emulated wrong,
\* and none on an emulator that is right: see Realmode and Emulator.
InstructionsVerdict ==
    /\ part = "real mode" => Real!RealmodeVerdict
    /\ part = "emulator" => Emul!EmulatorVerdict
=============================================================================
