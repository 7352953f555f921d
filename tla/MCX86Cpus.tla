------------------------------ MODULE MCX86Cpus ------------------------------
(***************************************************************************)
(* What the CPUs of x86 must get done, under fairness: X86Boot from reset  *)
(* to the end of smp_init, and X86Smp from the calls of smp_init on.  The  *)
(* second takes over where the first ends, so one of them runs at a time.  *)
(***************************************************************************)
EXTENDS X86Boot

CONSTANTS Parts, NCpus, MaxCalls, MayCall, BspIF

VARIABLES
    part,
    ipi_lock, ipi_function, ipi_data, ipi_done, ipi_wait, active_cpus,
    c_smp_id, c_irr, isr, c_pc, cur, hf, hd, hw, stage, idx, ncalls,
    c_target, sync, kind, st

Calls == INSTANCE X86Smp
         WITH smp_id <- c_smp_id, irr <- c_irr, pc <- c_pc, target <- c_target

calls == <<ipi_lock, ipi_function, ipi_data, ipi_done, ipi_wait, active_cpus,
           c_smp_id, c_irr, isr, c_pc, cur, hf, hd, hw, stage, idx, ncalls,
           c_target, sync, kind, st>>
all == <<part, vars, calls>>

\* No function makes a call.  A function that calls spins on ipi_lock with
\* interrupts off, and the holder of ipi_lock waits for good if it waits for
\* that CPU to take its IPI.
NoNestedCall == {}

CpusInit == part \in Parts /\ Init /\ Calls!Init

\* A step of one part leaves the other alone.
Booting(A) == part = "boot" /\ A /\ UNCHANGED <<part, calls>>
Calling(A) == part = "calls" /\ A /\ UNCHANGED <<part, vars>>

CpusNext == Booting(Next) \/ Calling(Calls!Next)

\* The fairness of both modules: every CPU runs.
CpusSpec ==
    /\ CpusInit /\ [][CpusNext]_all
    /\ WF_all(Booting(Boot)) /\ \A c \in Ap : WF_all(Booting(Wake(c)))
    /\ WF_all(Calling(Calls!LoopStep))
    /\ \A p \in Calls!Proc : WF_all(Calling(Calls!CallStep(p)))
    /\ \A c \in Calls!CPU : WF_all(Calling(Calls!HandlerStep(c)))

\* "smp = <num> Number of processors the VM will use during this test ...
\* Defaults to one" (x86/unittests.cfg): the boot CPU gets through its wait
\* and through smp_init on the machine that it is given.
BootEnds == part = "boot" => BootCompletes

\* Every call completes and on_cpus returns (lib/x86/smp.c:41-88).
CallsComplete == part = "calls" => Calls!CallsComplete
=============================================================================
