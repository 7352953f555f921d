------------------------------- MODULE X86Boot -------------------------------
(***************************************************************************)
(* How x86 CPUs come up: x86/cstart64.S from `start' to main, the          *)
(* trampoline that the other CPUs run, the wait for cpu_online_count, and  *)
(* smp_init of lib/x86/smp.c, which needs every CPU that it calls.         *)
(*                                                                         *)
(* CPU 0 boots; the others wait for INIT and SIPI.  Two things are shared  *)
(* in ways that only the wait makes safe: the trampoline is copied to      *)
(* address 0, where the IDT goes later, and pt_root is what a CPU loads    *)
(* when it enters long mode.                                               *)
(***************************************************************************)
EXTENDS Integers, Sequences, FiniteSets

CONSTANTS
    Ncpus,      \* CPUs of the machine
    NbCpus,     \* what fwcfg_get_nb_cpus returns: 2 in the repository
    X2apic,     \* whether cpuid reports x2apic
    MaxSwitch   \* bound: calls of setup_5level_page_table

ASSUME CpusAssumption == Ncpus \in 1..64 /\ NbCpus \in 1..64
ASSUME ChoiceAssumption == X2apic \in BOOLEAN /\ MaxSwitch \in Nat

Cpu == 0..(Ncpus - 1)
Ap == Cpu \ {0}
None == -1

VARIABLES
    pc,             \* where each CPU is
    low,            \* what the bytes at address 0 are: "bios", "sipi" or "idt"
    smp_stacktop,   \* page number; the stack is the page below
    stack,          \* each CPU's stack page, None before it has one
    percpu,         \* the page its GS base points to
    pt_root,        \* "ptl4" or "ptl5"
    cr3, cr4,       \* per CPU; cr4 is the set of bits that matter here
    mode,           \* each CPU's APIC: "xapic" or "x2apic"
    enabled,        \* CPUs whose APIC is enabled by software (SVR)
    apic_ops,       \* the global that lib/x86/apic.c goes through
    cpu_online_count,
    irr,            \* CPUs with the IPI of smp_init pending
    target,         \* the CPU that smp_init is calling
    smp_id,         \* %gs:0 of each CPU
    switches        \* ghost: whether each switch_to_5level found LA57 set

vars == <<pc, low, smp_stacktop, stack, percpu, pt_root, cr3, cr4, mode,
          enabled, apic_ops, cpu_online_count, irr, target, smp_id, switches>>

memory == <<smp_stacktop, stack, percpu>>
paging == <<pt_root, cr3, cr4, switches>>
apic == <<mode, enabled, apic_ops>>
ipis == <<irr, target, smp_id>>

\* CR4 bits that the code names by number.
TSD == 2
DE == 3
PAE == 5
LA57 == 12
PCIDE == 17

Init ==
    /\ pc = [c \in Cpu |-> IF c = 0 THEN "start" ELSE "reset"]
    /\ low = "bios"
    /\ smp_stacktop = 160          \* 0xa0000
    /\ stack = [c \in Cpu |-> None] /\ percpu = [c \in Cpu |-> None]
    /\ pt_root = "ptl4"
    /\ cr3 = [c \in Cpu |-> "none"] /\ cr4 = [c \in Cpu |-> {}]
    /\ mode = [c \in Cpu |-> "xapic"] /\ enabled = {} /\ apic_ops = "xapic"
    /\ cpu_online_count = 1
    /\ irr = {} /\ target = None /\ smp_id = [c \in Cpu |-> None]
    /\ switches = <<>>

Goto(c, l) == pc' = [pc EXCEPT ![c] = l]
At(c, l) == pc[c] = l

-----------------------------------------------------------------------------
(* Code that every CPU runs. *)

\* setup_percpu_area: the lowest page of the stack area.
SetupPercpuArea(c, top) == percpu' = [percpu EXCEPT ![c] = top - 1]

\* enter_long_mode, reached through prepare_64 and from switch_to_5level.
EnterLongMode(c, bits, root) ==
    /\ cr4' = [cr4 EXCEPT ![c] = bits \cup {PAE}]
    /\ cr3' = [cr3 EXCEPT ![c] = root]

\* load_tss reads the APIC id by MMIO, then the TSS descriptor of that id.
LoadTss(c, next) ==
    /\ At(c, "load_tss")
    /\ Goto(c, next)
    /\ UNCHANGED <<low, memory, paging, apic, cpu_online_count, ipis>>

\* Mutant: only the boot CPU's APIC is enabled.
EnableApic_BootOnly(c, next) ==
    /\ At(c, "enable_apic")
    /\ enabled' = enabled \cup {0}
    /\ Goto(c, next)
    /\ UNCHANGED <<low, memory, paging, mode, apic_ops, cpu_online_count, ipis>>

\* enable_apic: the spurious vector register, by MMIO.
EnableApic(c, next) ==
    /\ At(c, "enable_apic")
    /\ enabled' = enabled \cup {c}
    /\ Goto(c, next)
    /\ UNCHANGED <<low, memory, paging, mode, apic_ops, cpu_online_count, ipis>>

\* Mutant: the CPU that wrote the MSR does not set the global.
EnableX2apic_NoOps(c, next) ==
    /\ At(c, "x2apic")
    /\ mode' = [mode EXCEPT ![c] = IF X2apic THEN "x2apic" ELSE @]
    /\ Goto(c, next)
    /\ UNCHANGED <<low, memory, paging, enabled, apic_ops, cpu_online_count, ipis>>

\* enable_x2apic: this CPU's mode, and the global apic_ops for all CPUs.
EnableX2apic(c, next) ==
    /\ At(c, "x2apic")
    /\ mode' = [mode EXCEPT ![c] = IF X2apic THEN "x2apic" ELSE @]
    /\ apic_ops' = IF X2apic THEN "x2apic" ELSE apic_ops
    /\ Goto(c, next)
    /\ UNCHANGED <<low, memory, paging, enabled, cpu_online_count, ipis>>

-----------------------------------------------------------------------------
(* CPU 0. *)

\* start: a stack of its own in .bss, above all that smp_stacktop gives.
Start ==
    /\ At(0, "start")
    /\ stack' = [stack EXCEPT ![0] = 1024]
    /\ SetupPercpuArea(0, 1025)
    /\ EnterLongMode(0, cr4[0], pt_root)
    /\ Goto(0, "load_tss")
    /\ UNCHANGED <<low, smp_stacktop, pt_root, switches, apic, cpu_online_count, ipis>>

\* smp_init of cstart64.S: the trampoline, INIT (asserted, deasserted).
SendInit ==
    /\ At(0, "init")
    /\ low' = "sipi"
    /\ pc' = [c \in Cpu |-> IF c = 0 THEN "sipi" ELSE "wait_sipi"]
    /\ UNCHANGED <<memory, paging, apic, cpu_online_count, ipis>>

\* STARTUP, vector 0.
SendSipi ==
    /\ At(0, "sipi")
    /\ pc' = [c \in Cpu |-> IF c = 0 THEN "wait"
                            ELSE IF pc[c] = "wait_sipi" THEN "trampoline" ELSE pc[c]]
    /\ UNCHANGED <<low, memory, paging, apic, cpu_online_count, ipis>>

\* Mutant: one CPU short.
AllOnline_Early == cpu_online_count >= NbCpus - 1

\* cmpw %ax, cpu_online_count; jne: equal, and not merely enough.
AllOnline == cpu_online_count = NbCpus

WaitOnline ==
    /\ At(0, "wait") /\ AllOnline
    /\ Goto(0, "x2apic")
    /\ UNCHANGED <<low, memory, paging, apic, cpu_online_count, ipis>>

\* main calls smp_init: setup_idt writes the IDT at boot_idt, which is 0;
\* CPU 0's own number is the first.
SmpInit ==
    /\ At(0, "main")
    /\ low' = "idt"
    /\ smp_id' = [smp_id EXCEPT ![0] = 0]
    /\ target' = 1
    /\ Goto(0, IF 1 < NbCpus THEN "call" ELSE "ready")
    /\ UNCHANGED <<memory, paging, apic, cpu_online_count, irr>>

\* on_cpu(i, setup_smp_id): the IPI; an APIC that is not enabled, or that
\* is not there, does not accept it.
Call ==
    /\ At(0, "call")
    /\ irr' = irr \cup ({target} \cap enabled)
    /\ Goto(0, "done")
    /\ UNCHANGED <<low, memory, paging, apic, cpu_online_count, target, smp_id>>

Done ==
    /\ At(0, "done") /\ target \in Cpu /\ smp_id[target] # None
    /\ target' = target + 1
    /\ Goto(0, IF target + 1 < NbCpus THEN "call" ELSE "ready")
    /\ UNCHANGED <<low, memory, paging, apic, cpu_online_count, irr, smp_id>>

\* setup_5level_page_table and switch_to_5level.  "test $12" tests the
\* bits of the mask 12, not bit 12.
Setup5LevelPageTable ==
    /\ At(0, "main") \/ At(0, "ready")
    /\ Len(switches) < MaxSwitch
    /\ IF cr4[0] \cap {TSD, DE} # {}
       THEN UNCHANGED paging
       ELSE /\ pt_root' = "ptl5"
            /\ EnterLongMode(0, (cr4[0] \ {PCIDE}) \cup {LA57}, pt_root')
            /\ switches' = Append(switches, LA57 \in cr4[0])
    /\ UNCHANGED <<pc, low, memory, apic, cpu_online_count, ipis>>

-----------------------------------------------------------------------------
(* The other CPUs. *)

\* sipi_entry, read at address 0.  Other bytes there are no program.
Trampoline(c) ==
    /\ At(c, "trampoline")
    /\ Goto(c, IF low = "sipi" THEN "start32" ELSE "lost")
    /\ UNCHANGED <<low, memory, paging, apic, cpu_online_count, ipis>>

\* Mutant: the stack is not taken out of the supply.
TakeStack_NoXadd(c) == stack' = [stack EXCEPT ![c] = smp_stacktop - 1] /\ UNCHANGED smp_stacktop

\* lock/xaddl %esp, smp_stacktop with -4096.
TakeStack(c) ==
    /\ stack' = [stack EXCEPT ![c] = smp_stacktop - 1]
    /\ smp_stacktop' = smp_stacktop - 1

ApStart32(c) ==
    /\ At(c, "start32")
    /\ TakeStack(c)
    /\ Goto(c, "prepare_64")
    /\ UNCHANGED <<low, percpu, paging, apic, cpu_online_count, ipis>>

Prepare64(c) ==
    /\ At(c, "prepare_64")
    /\ SetupPercpuArea(c, stack[c] + 1)
    /\ EnterLongMode(c, cr4[c], pt_root)
    /\ Goto(c, "load_tss")
    /\ UNCHANGED <<low, smp_stacktop, stack, pt_root, switches, apic, cpu_online_count, ipis>>

Sti(c) ==
    /\ At(c, "sti")
    /\ Goto(c, "online")
    /\ UNCHANGED <<low, memory, paging, apic, cpu_online_count, ipis>>

\* lock incw cpu_online_count, then hlt for ever.
Online(c) ==
    /\ At(c, "online")
    /\ cpu_online_count' = cpu_online_count + 1
    /\ Goto(c, "hlt")
    /\ UNCHANGED <<low, memory, paging, apic, ipis>>

\* ipi: setup_smp_id through apic_ops, then the answer.  Interrupts are on
\* from sti.
Ipi(c) ==
    /\ c \in irr /\ pc[c] \in {"online", "hlt"}
    /\ irr' = irr \ {c}
    /\ smp_id' = [smp_id EXCEPT ![c] = c]
    /\ UNCHANGED <<pc, low, memory, paging, apic, cpu_online_count, target>>

-----------------------------------------------------------------------------
Boot ==
    \/ Start \/ LoadTss(0, "enable_apic") \/ EnableApic(0, "init")
    \/ SendInit \/ SendSipi \/ WaitOnline \/ EnableX2apic(0, "main")
    \/ SmpInit \/ Call \/ Done

Wake(c) ==
    \/ Trampoline(c) \/ ApStart32(c) \/ Prepare64(c)
    \/ LoadTss(c, "enable_apic") \/ EnableApic(c, "x2apic") \/ EnableX2apic(c, "sti")
    \/ Sti(c) \/ Online(c) \/ Ipi(c)

Next == Boot \/ Setup5LevelPageTable \/ \E c \in Ap : Wake(c)

Spec == Init /\ [][Next]_vars

\* Every CPU runs.
FairSpec == Spec /\ WF_vars(Boot) /\ \A c \in Ap : WF_vars(Wake(c))

-----------------------------------------------------------------------------
(* Properties. *)

\* The stacks that CPUs take from smp_stacktop, in whatever order they
\* come, are their own, and so are the per-CPU areas under them.
StacksDisjoint ==
    \A c, d \in Cpu : c # d =>
        /\ stack[c] # None => stack[c] # stack[d]
        /\ percpu[c] # None => percpu[c] # percpu[d]

\* No CPU is still to run the trampoline when the IDT is written over it.
TrampolineIntact == \A c \in Cpu : pc[c] # "lost"

\* While CPUs start in any order (x86/cstart64.S), no two use the same stack
\* or per-CPU area, and each runs the trampoline as it was copied.
BootMemory == StacksDisjoint /\ TrampolineIntact

\* A CPU runs on a root table of the depth that its CR4 says, although
\* pt_root changes under CPUs that have yet to load it.
RootMatches ==
    \A c \in Cpu : cr3[c] # "none" => (cr3[c] = "ptl5" <=> LA57 \in cr4[c])

\* A CPU reaches its APIC in the way its mode wants: by MMIO before it has
\* enabled x2apic; later through apic_ops, which other CPUs also set.
ApicMode ==
    /\ \A c \in Cpu : pc[c] \in {"load_tss", "enable_apic"} => mode[c] = "xapic"
    /\ At(0, "call") => mode[0] = apic_ops
    /\ \A c \in irr : pc[c] \in {"online", "hlt"} => mode[c] = apic_ops

\* What a CPU has set up for itself agrees with the globals through which
\* it goes on: the depth of its paging with pt_root, its APIC with apic_ops.
CpuStateMatches == RootMatches /\ ApicMode

\* "smp = <num> Number of processors the VM will use during this test ...
\* Defaults to one" (x86/unittests.cfg): the boot CPU gets through the
\* wait and through smp_init on the machine that it is given.
BootCompletes == <>At(0, "ready")
=============================================================================
