---------------------------- MODULE X86BootProofs ----------------------------
(***************************************************************************)
(* cstart64.S brings up any number of CPUs safely, provided that the       *)
(* machine has no more of them than CPU 0 waits for.  Everything rests on  *)
(* the wait: cpu_online_count counts the CPUs that are halted, so behind   *)
(* the wait all others are, and none is left to run the trampoline, to     *)
(* load pt_root or to change apic_ops.                                     *)
(*                                                                         *)
(* Behind it, programs that stop the processor themselves and rely on      *)
(* something else to start it again (see Wakeup).                          *)
(***************************************************************************)
EXTENDS X86Boot, Wakeup, FiniteSetTheorems, TLAPS

USE CpusAssumption, ChoiceAssumption

\* fwcfg_get_nb_cpus counts every CPU of the machine.
AllCounted == Ncpus <= NbCpus

-----------------------------------------------------------------------------
(* The inductive invariant. *)

Setup == {"start", "load_tss", "enable_apic", "init"}
AfterWait == {"x2apic", "main", "call", "done", "ready"}
ApCode == {"trampoline", "start32", "prepare_64", "load_tss", "enable_apic", "x2apic", "sti",
           "online", "hlt"}
Labels == Setup \cup {"sipi", "wait"} \cup AfterWait \cup ApCode \cup {"reset", "wait_sipi", "lost"}

Halted == {c \in Ap : pc[c] = "hlt"}

\* Where the others are, given where CPU 0 is.
Phases ==
    /\ pc \in [Cpu -> Labels] /\ pc[0] \in Setup \cup {"sipi", "wait"} \cup AfterWait
    /\ pc[0] \in Setup => \A c \in Ap : pc[c] = "reset"
    /\ pc[0] = "sipi" => low = "sipi" /\ \A c \in Ap : pc[c] = "wait_sipi"
    /\ pc[0] = "wait" => low = "sipi" /\ \A c \in Ap : pc[c] \in ApCode
    /\ pc[0] \in AfterWait => \A c \in Ap : pc[c] = "hlt"
    /\ cpu_online_count = 1 + Cardinality(Halted)

NoStack == {"reset", "wait_sipi", "trampoline", "start32"}

\* smp_stacktop only goes down: a stack is at or above it once it is taken.
Stacks ==
    /\ smp_stacktop \in Int /\ smp_stacktop <= 160
    /\ stack \in [Cpu -> Int] /\ percpu \in [Cpu -> Int]
    /\ stack[0] = (IF pc[0] = "start" THEN None ELSE 1024) /\ percpu[0] = stack[0]
    /\ \A c \in Ap :
        IF pc[c] \in NoStack THEN stack[c] = None /\ percpu[c] = None
        ELSE smp_stacktop <= stack[c] /\ stack[c] < 160 /\ percpu[c] \in {None, stack[c]}
    /\ \A c, d \in Ap : c # d /\ pc[c] \notin NoStack /\ pc[d] \notin NoStack => stack[c] # stack[d]

\* Only CPU 0 ever runs with five levels.
Tables ==
    /\ cr4 \in [Cpu -> SUBSET Nat] /\ cr3 \in [Cpu -> {"none", "ptl4", "ptl5"}]
    /\ pt_root \in {"ptl4", "ptl5"}
    /\ pc[0] \notin {"main", "call", "done", "ready"} => pt_root = "ptl4"
    /\ \A c \in Ap : cr3[c] # "ptl5" /\ LA57 \notin cr4[c]
    /\ cr3[0] = "ptl5" <=> LA57 \in cr4[0]
    /\ pc[0] = "start" => cr3[0] = "none"

\* The CPUs that have run enable_x2apic, and what it leaves behind.
HasX2apic(c) == IF c = 0 THEN pc[0] \in {"main", "call", "done", "ready"}
                         ELSE pc[c] \in {"sti", "online", "hlt"}
Mode == IF X2apic THEN "x2apic" ELSE "xapic"

Apics ==
    /\ mode = [c \in Cpu |-> IF HasX2apic(c) THEN Mode ELSE "xapic"]
    /\ \A c \in Cpu : HasX2apic(c) => apic_ops = Mode
    /\ enabled \subseteq Cpu /\ irr \subseteq Cpu
    /\ apic_ops \in {"xapic", Mode}

BootInv == Phases /\ Stacks /\ Tables /\ Apics

-----------------------------------------------------------------------------
(* The CPUs. *)

LEMMA CpuFacts ==
    /\ 0 \in Cpu /\ Ap \subseteq Cpu /\ 0 \notin Ap /\ Cpu = Ap \cup {0}
    /\ IsFiniteSet(Ap) /\ Cardinality(Ap) = Ncpus - 1
  <1>1. 0 \in Cpu /\ Ap \subseteq Cpu /\ 0 \notin Ap /\ Cpu = Ap \cup {0}
    BY DEF Cpu, Ap
  <1>2. Ap = 1..(Ncpus - 1)
    BY DEF Cpu, Ap
  <1> QED
    BY <1>1, <1>2, FS_Interval

\* When every CPU has been counted, every CPU is halted.
LEMMA AllHalted ==
    ASSUME AllCounted, Phases, cpu_online_count = NbCpus
    PROVE  \A c \in Ap : pc[c] = "hlt"
  <1>1. Halted \subseteq Ap
    BY DEF Halted
  <1>2. /\ IsFiniteSet(Halted) /\ Cardinality(Halted) <= Cardinality(Ap)
        /\ (Cardinality(Halted) = Cardinality(Ap) => Halted = Ap)
    BY <1>1, CpuFacts, FS_Subset
  <1>3. Cardinality(Halted) \in Nat
    BY <1>2, FS_CardinalityType
  <1>4. Cardinality(Halted) = Cardinality(Ap)
    BY <1>2, <1>3, CpuFacts DEF Phases, AllCounted
  <1> QED
    BY <1>2, <1>4 DEF Halted

-----------------------------------------------------------------------------
(* The phases. *)

LEMMA PhasesKept ==
    ASSUME AllCounted, Phases, [Next]_vars
    PROVE  Phases'
  <1> USE CpuFacts DEF Labels, Setup, AfterWait, ApCode
  \* A step of CPU 0 that moves no other CPU.
  <1>1. ASSUME NEW S \in {Setup, AfterWait}, NEW l \in S, Goto(0, l), pc[0] \in S,
               UNCHANGED cpu_online_count
        PROVE  Phases'
    <2>1. /\ pc' \in [Cpu -> Labels] /\ pc'[0] = l /\ \A c \in Ap : pc'[c] = pc[c]
      BY <1>1 DEF Goto, Phases
    <2>2. Halted' = Halted
      BY <2>1 DEF Halted
    <2> QED
      BY <1>1, <2>1, <2>2 DEF Phases
  <1>2. CASE Start \/ LoadTss(0, "enable_apic") \/ EnableApic(0, "init") \/ EnableX2apic(0, "main")
             \/ SmpInit \/ Call \/ Done
    <2>1. UNCHANGED cpu_online_count
      BY <1>2 DEF Start, LoadTss, EnableApic, EnableX2apic, SmpInit, Call, Done
    <2>2. CASE Start \/ LoadTss(0, "enable_apic") \/ EnableApic(0, "init")
      <3>1. pc[0] \in Setup /\ \E l \in Setup : Goto(0, l)
        BY <2>2 DEF Start, LoadTss, EnableApic, At
      <3> HIDE DEF Setup, AfterWait
      <3> QED
        BY <1>1, <2>1, <3>1
    <2>3. CASE EnableX2apic(0, "main") \/ SmpInit \/ Call \/ Done
      <3>1. pc[0] \in AfterWait /\ \E l \in AfterWait : Goto(0, l)
        BY <2>3 DEF EnableX2apic, SmpInit, Call, Done, At
      <3> HIDE DEF Setup, AfterWait
      <3> QED
        BY <1>1, <2>1, <3>1
    <2> QED
      BY <1>2, <2>2, <2>3
  <1>3. CASE SendInit
    <2>1. /\ pc[0] = "init" /\ low' = "sipi" /\ UNCHANGED cpu_online_count
          /\ pc' = [c \in Cpu |-> IF c = 0 THEN "sipi" ELSE "wait_sipi"]
      BY <1>3 DEF SendInit, At
    <2>2. Halted = {} /\ Halted' = {}
      BY <2>1 DEF Halted, Phases
    <2> QED
      BY <2>1, <2>2 DEF Phases
  <1>4. CASE SendSipi
    <2>1. /\ pc[0] = "sipi" /\ UNCHANGED <<low, cpu_online_count>>
          /\ pc' = [c \in Cpu |-> IF c = 0 THEN "wait"
                                  ELSE IF pc[c] = "wait_sipi" THEN "trampoline" ELSE pc[c]]
      BY <1>4 DEF SendSipi, At
    <2>2. \A c \in Ap : pc[c] = "wait_sipi" /\ pc'[c] = "trampoline"
      BY <2>1 DEF Phases
    <2>3. Halted = {} /\ Halted' = {}
      BY <2>2 DEF Halted
    <2> QED
      BY <2>1, <2>2, <2>3 DEF Phases
  <1>5. CASE WaitOnline
    <2>1. pc[0] = "wait" /\ Goto(0, "x2apic") /\ cpu_online_count = NbCpus /\ UNCHANGED cpu_online_count
      BY <1>5 DEF WaitOnline, At, AllOnline
    <2>2. \A c \in Ap : pc[c] = "hlt"
      BY <2>1, AllHalted
    <2>3. /\ pc' \in [Cpu -> Labels] /\ pc'[0] = "x2apic" /\ \A c \in Ap : pc'[c] = pc[c]
      BY <2>1 DEF Goto, Phases
    <2>4. Halted' = Halted
      BY <2>3 DEF Halted
    <2> QED
      BY <2>1, <2>2, <2>3, <2>4 DEF Phases
  <1>6. CASE Setup5LevelPageTable \/ UNCHANGED vars \/ \E c \in Ap : Ipi(c)
    <2>1. UNCHANGED <<pc, low, cpu_online_count>>
      BY <1>6 DEF Setup5LevelPageTable, vars, Ipi
    <2>2. Halted' = Halted
      BY <2>1 DEF Halted
    <2> QED
      BY <2>1, <2>2 DEF Phases
  \* A step of another CPU, which is past the trampoline and not halted.
  <1>7. ASSUME NEW c \in Ap, NEW l \in ApCode \ {"hlt"}, Goto(c, l),
               UNCHANGED <<low, cpu_online_count>>, pc[0] = "wait", pc[c] # "hlt"
        PROVE  Phases'
    <2>1. /\ pc' \in [Cpu -> Labels] /\ pc'[0] = "wait" /\ pc'[c] = l
          /\ \A d \in Ap : d # c => pc'[d] = pc[d]
      BY <1>7 DEF Goto, Phases
    <2>2. Halted' = Halted
      BY <1>7, <2>1 DEF Halted
    <2> QED
      BY <1>7, <2>1, <2>2 DEF Phases
  <1>8. ASSUME NEW c \in Ap, pc[c] \in ApCode \ {"hlt"} PROVE pc[0] = "wait" /\ low = "sipi"
    BY <1>8 DEF Phases
  <1>9. ASSUME NEW c \in Ap,
               Trampoline(c) \/ ApStart32(c) \/ Prepare64(c) \/ LoadTss(c, "enable_apic")
                 \/ EnableApic(c, "x2apic") \/ EnableX2apic(c, "sti") \/ Sti(c)
        PROVE  Phases'
    <2>1. pc[c] \in ApCode \ {"hlt"} /\ UNCHANGED <<low, cpu_online_count>>
      BY <1>9 DEF Trampoline, ApStart32, Prepare64, LoadTss, EnableApic, EnableX2apic, Sti, At
    <2>2. pc[0] = "wait" /\ low = "sipi"
      BY <2>1, <1>8
    <2>3. \E l \in ApCode \ {"hlt"} : Goto(c, l)
      BY <1>9, <2>2 DEF Trampoline, ApStart32, Prepare64, LoadTss, EnableApic, EnableX2apic, Sti
    <2> QED
      BY <1>7, <2>1, <2>2, <2>3
  <1>10. ASSUME NEW c \in Ap, Online(c) PROVE Phases'
    <2>1. pc[c] = "online" /\ UNCHANGED low /\ cpu_online_count' = cpu_online_count + 1 /\ Goto(c, "hlt")
      BY <1>10 DEF Online, At
    <2>2. pc[0] = "wait"
      BY <2>1, <1>8
    <2>3. /\ pc' \in [Cpu -> Labels] /\ pc'[0] = "wait" /\ pc'[c] = "hlt"
          /\ \A d \in Ap : d # c => pc'[d] = pc[d]
      BY <2>1, <2>2 DEF Goto, Phases
    <2>4. Halted' = Halted \cup {c} /\ c \notin Halted /\ Halted \subseteq Ap
      BY <2>1, <2>3 DEF Halted
    <2>5. IsFiniteSet(Halted)
      BY <2>4, FS_Subset
    <2>6. Cardinality(Halted') = Cardinality(Halted) + 1 /\ Cardinality(Halted) \in Nat
      BY <2>4, <2>5, FS_AddElement, FS_CardinalityType
    <2> QED
      BY <2>1, <2>2, <2>3, <2>6 DEF Phases
  <1> QED
    BY <1>2, <1>3, <1>4, <1>5, <1>6, <1>9, <1>10 DEF Next, Boot, Wake

-----------------------------------------------------------------------------
(* Stacks. *)

\* Nothing is taken and no CPU passes from one side of NoStack to the other.
LEMMA StacksStay ==
    ASSUME Stacks, UNCHANGED <<smp_stacktop, stack, percpu>>, pc[0] # "start", pc'[0] # "start",
           \A c \in Ap : pc'[c] \in NoStack <=> pc[c] \in NoStack
    PROVE  Stacks'
  BY CpuFacts DEF Stacks

LEMMA StacksKept ==
    ASSUME Phases, Stacks, [Next]_vars
    PROVE  Stacks'
  <1> USE CpuFacts DEF Labels, Setup, AfterWait, ApCode
  <1>1. CASE Start
    <2>1. /\ stack' = [stack EXCEPT ![0] = 1024] /\ percpu' = [percpu EXCEPT ![0] = 1025 - 1]
          /\ pc' = [pc EXCEPT ![0] = "load_tss"] /\ UNCHANGED smp_stacktop
      BY <1>1 DEF Start, SetupPercpuArea, Goto
    <2>2. pc'[0] = "load_tss" /\ \A c \in Ap : pc'[c] = pc[c] /\ stack'[c] = stack[c] /\ percpu'[c] = percpu[c]
      BY <2>1 DEF Phases, Stacks
    <2> QED
      BY <2>1, <2>2 DEF Stacks
  <1>2. CASE \/ LoadTss(0, "enable_apic") \/ EnableApic(0, "init") \/ WaitOnline \/ EnableX2apic(0, "main")
             \/ SmpInit \/ Call \/ Done
    <2>1. /\ UNCHANGED <<smp_stacktop, stack, percpu>> /\ pc[0] # "start" /\ pc'[0] # "start"
      BY <1>2 DEF LoadTss, EnableApic, WaitOnline, EnableX2apic, SmpInit, Call, Done, At, Goto, memory, Phases
    <2>2. \A c \in Ap : pc'[c] = pc[c]
      BY <1>2 DEF LoadTss, EnableApic, WaitOnline, EnableX2apic, SmpInit, Call, Done, Goto, Phases
    <2> QED
      BY <2>1, <2>2, StacksStay
  <1>3. CASE SendInit \/ SendSipi
    <2>1. /\ UNCHANGED <<smp_stacktop, stack, percpu>> /\ pc[0] # "start" /\ pc'[0] # "start"
      BY <1>3 DEF SendInit, SendSipi, At, memory
    <2>2. \A c \in Ap : pc[c] \in NoStack /\ pc'[c] \in NoStack
      BY <1>3 DEF SendInit, SendSipi, At, Phases, NoStack
    <2> QED
      BY <2>1, <2>2, StacksStay
  <1>4. CASE Setup5LevelPageTable \/ UNCHANGED vars \/ \E c \in Ap : Ipi(c)
    BY <1>4 DEF Setup5LevelPageTable, vars, Ipi, memory, Stacks
  <1>5. ASSUME NEW c \in Ap, ApStart32(c) PROVE Stacks'
    <2>1. /\ stack' = [stack EXCEPT ![c] = smp_stacktop - 1] /\ smp_stacktop' = smp_stacktop - 1
          /\ pc' = [pc EXCEPT ![c] = "prepare_64"] /\ pc[c] = "start32" /\ UNCHANGED percpu
      BY <1>5 DEF ApStart32, TakeStack, Goto, At
    <2>2. /\ pc'[0] = pc[0] /\ stack'[0] = stack[0] /\ pc'[c] = "prepare_64" /\ stack'[c] = smp_stacktop - 1
          /\ \A d \in Ap : d # c => pc'[d] = pc[d] /\ stack'[d] = stack[d]
      BY <2>1 DEF Phases, Stacks
    <2>3. \A d \in Ap : d # c /\ pc'[d] \notin NoStack => stack'[d] > stack'[c]
      BY <2>1, <2>2 DEF Stacks
    <2>4. stack' \in [Cpu -> Int] /\ smp_stacktop' \in Int /\ smp_stacktop' <= 160
      BY <2>1 DEF Stacks
    <2>5. \A d \in Ap : IF pc'[d] \in NoStack THEN stack'[d] = None /\ percpu'[d] = None
             ELSE smp_stacktop' <= stack'[d] /\ stack'[d] < 160 /\ percpu'[d] \in {None, stack'[d]}
      BY <2>1, <2>2 DEF Stacks, NoStack
    <2>6. \A d, e \in Ap : d # e /\ pc'[d] \notin NoStack /\ pc'[e] \notin NoStack => stack'[d] # stack'[e]
      BY <2>2, <2>3, <2>4 DEF Stacks
    <2> QED
      BY <2>1, <2>2, <2>4, <2>5, <2>6 DEF Stacks
  <1>6. ASSUME NEW c \in Ap, Prepare64(c) PROVE Stacks'
    <2>1. /\ percpu' = [percpu EXCEPT ![c] = (stack[c] + 1) - 1] /\ UNCHANGED <<smp_stacktop, stack>>
          /\ pc' = [pc EXCEPT ![c] = "load_tss"] /\ pc[c] = "prepare_64"
      BY <1>6 DEF Prepare64, SetupPercpuArea, Goto, At
    <2>2. /\ pc'[0] = pc[0] /\ percpu'[0] = percpu[0] /\ pc'[c] = "load_tss" /\ percpu'[c] = stack[c]
          /\ \A d \in Ap : d # c => pc'[d] = pc[d] /\ percpu'[d] = percpu[d]
      BY <2>1 DEF Phases, Stacks
    <2>3. pc[c] \notin NoStack /\ pc'[c] \notin NoStack
      BY <2>1, <2>2 DEF NoStack
    <2> QED
      BY <2>1, <2>2, <2>3 DEF Stacks
  <1>7. ASSUME NEW c \in Ap,
               Trampoline(c) \/ LoadTss(c, "enable_apic") \/ EnableApic(c, "x2apic")
                 \/ EnableX2apic(c, "sti") \/ Sti(c) \/ Online(c)
        PROVE  Stacks'
    <2>1. UNCHANGED <<smp_stacktop, stack, percpu>>
      BY <1>7 DEF Trampoline, LoadTss, EnableApic, EnableX2apic, Sti, Online, memory
    <2>2. pc[0] = "wait" /\ low = "sipi"
      BY <1>7 DEF Trampoline, LoadTss, EnableApic, EnableX2apic, Sti, Online, At, Phases
    <2>3. pc'[0] = pc[0] /\ \A d \in Ap : d # c => pc'[d] = pc[d]
      BY <1>7 DEF Trampoline, LoadTss, EnableApic, EnableX2apic, Sti, Online, Goto, Phases
    <2>4. pc'[c] \in NoStack <=> pc[c] \in NoStack
      BY <1>7, <2>2 DEF Trampoline, LoadTss, EnableApic, EnableX2apic, Sti, Online, At, Goto, Phases, NoStack
    <2> QED
      BY <2>1, <2>2, <2>3, <2>4, StacksStay
  <1> QED
    BY <1>1, <1>2, <1>3, <1>4, <1>5, <1>6, <1>7 DEF Next, Boot, Wake

-----------------------------------------------------------------------------
(* Page tables. *)

LEMMA TablesKept ==
    ASSUME Phases, Tables, [Next]_vars
    PROVE  Tables'
  <1> USE CpuFacts DEF Labels, Setup, AfterWait, ApCode
  <1>1. CASE Start
    <2>1. /\ cr4' = [cr4 EXCEPT ![0] = cr4[0] \cup {5}] /\ cr3' = [cr3 EXCEPT ![0] = pt_root]
          /\ pc' = [pc EXCEPT ![0] = "load_tss"] /\ UNCHANGED pt_root /\ pc[0] = "start"
      BY <1>1 DEF Start, EnterLongMode, Goto, At, PAE
    <2>2. pt_root = "ptl4" /\ LA57 \notin cr4[0]
      BY <2>1 DEF Tables
    <2> QED
      BY <2>1, <2>2 DEF Tables, Phases, LA57
  <1>2. CASE \/ LoadTss(0, "enable_apic") \/ EnableApic(0, "init") \/ WaitOnline \/ EnableX2apic(0, "main")
             \/ SmpInit \/ Call \/ Done \/ SendInit \/ SendSipi
    <2>1. UNCHANGED <<pt_root, cr3, cr4>>
      BY <1>2 DEF LoadTss, EnableApic, WaitOnline, EnableX2apic, SmpInit, Call, Done, SendInit, SendSipi, paging
    <2>2. pc'[0] # "start" /\ (pc[0] \in {"main", "call", "done", "ready"}
                                 => pc'[0] \in {"main", "call", "done", "ready"})
      BY <1>2 DEF LoadTss, EnableApic, WaitOnline, EnableX2apic, SmpInit, Call, Done, SendInit, SendSipi,
                  At, Goto, Phases
    <2> QED
      BY <2>1, <2>2 DEF Tables
  <1>3. CASE Setup5LevelPageTable
    <2>1. pc[0] \in {"main", "ready"} /\ UNCHANGED pc
      BY <1>3 DEF Setup5LevelPageTable, At
    <2>2. CASE UNCHANGED paging
      BY <2>1, <2>2 DEF paging, Tables
    <2>3. CASE /\ pt_root' = "ptl5"
               /\ EnterLongMode(0, (cr4[0] \ {PCIDE}) \cup {LA57}, pt_root')
      <3>1. /\ cr4' = [cr4 EXCEPT ![0] = ((cr4[0] \ {PCIDE}) \cup {LA57}) \cup {5}]
            /\ cr3' = [cr3 EXCEPT ![0] = "ptl5"]
        BY <2>3 DEF EnterLongMode, PAE
      <3>2. cr4' \in [Cpu -> SUBSET Nat] /\ LA57 \in cr4'[0] /\ cr3'[0] = "ptl5"
        BY <3>1 DEF Tables, LA57
      <3>3. \A c \in Ap : cr4'[c] = cr4[c] /\ cr3'[c] = cr3[c]
        BY <3>1 DEF Tables
      <3> QED
        BY <2>1, <2>3, <3>1, <3>2, <3>3 DEF Tables
    <2> QED
      BY <1>3, <2>2, <2>3 DEF Setup5LevelPageTable
  <1>4. ASSUME NEW c \in Ap, Prepare64(c) PROVE Tables'
    <2>1. /\ cr4' = [cr4 EXCEPT ![c] = cr4[c] \cup {5}] /\ cr3' = [cr3 EXCEPT ![c] = pt_root]
          /\ pc' = [pc EXCEPT ![c] = "load_tss"] /\ UNCHANGED pt_root /\ pc[c] = "prepare_64"
      BY <1>4 DEF Prepare64, EnterLongMode, Goto, At, PAE
    <2>2. pc[0] = "wait" /\ pc'[0] = "wait" /\ pt_root = "ptl4"
      BY <2>1 DEF Phases, Tables
    <2>3. /\ cr4' \in [Cpu -> SUBSET Nat] /\ cr3' \in [Cpu -> {"none", "ptl4", "ptl5"}]
          /\ cr4'[c] = cr4[c] \cup {5} /\ cr3'[c] = "ptl4"
          /\ \A d \in Cpu : d # c => cr4'[d] = cr4[d] /\ cr3'[d] = cr3[d]
      BY <2>1, <2>2 DEF Tables
    <2> QED
      BY <2>1, <2>2, <2>3 DEF Tables, LA57
  <1>5. ASSUME NEW c \in Ap,
               Trampoline(c) \/ ApStart32(c) \/ LoadTss(c, "enable_apic") \/ EnableApic(c, "x2apic")
                 \/ EnableX2apic(c, "sti") \/ Sti(c) \/ Online(c) \/ Ipi(c)
        PROVE  Tables'
    <2>1. UNCHANGED <<pt_root, cr3, cr4>>
      BY <1>5 DEF Trampoline, ApStart32, LoadTss, EnableApic, EnableX2apic, Sti, Online, Ipi, paging
    <2>2. pc'[0] = pc[0]
      BY <1>5 DEF Trampoline, ApStart32, LoadTss, EnableApic, EnableX2apic, Sti, Online, Ipi, Goto, Phases
    <2> QED
      BY <2>1, <2>2 DEF Tables
  <1>6. CASE UNCHANGED vars
    BY <1>6 DEF vars, Tables
  <1> QED
    BY <1>1, <1>2, <1>3, <1>4, <1>5, <1>6 DEF Next, Boot, Wake

-----------------------------------------------------------------------------
(* Interrupt controllers. *)

\* CPUs stay on their side of enable_x2apic.
LEMMA ApicsStay ==
    ASSUME Apics, UNCHANGED <<mode, apic_ops>>, enabled' \subseteq Cpu, irr' \subseteq Cpu,
           \A c \in Cpu : HasX2apic(c)' <=> HasX2apic(c)
    PROVE  Apics'
  BY DEF Apics

LEMMA ApicsKept ==
    ASSUME Phases, Apics, [Next]_vars
    PROVE  Apics'
  <1> USE CpuFacts DEF Labels, Setup, AfterWait, ApCode
  \* enable_x2apic: the CPU crosses over, and apic_ops follows.
  <1>1. ASSUME NEW c \in Cpu, NEW l, EnableX2apic(c, l), HasX2apic(c)', ~HasX2apic(c),
               \A d \in Cpu : d # c => (HasX2apic(d)' <=> HasX2apic(d))
        PROVE  Apics'
    <2>1. /\ mode' = [mode EXCEPT ![c] = IF X2apic THEN "x2apic" ELSE @]
          /\ apic_ops' = (IF X2apic THEN "x2apic" ELSE apic_ops) /\ UNCHANGED <<enabled, irr>>
      BY <1>1 DEF EnableX2apic, ipis
    <2>2. mode[c] = "xapic"
      BY <1>1 DEF Apics
    <2>3. apic_ops' = Mode
      BY <2>1 DEF Apics, Mode
    <2>4. mode' = [d \in Cpu |-> IF d = c THEN Mode ELSE mode[d]]
      BY <2>1, <2>2 DEF Apics, Mode
    <2> QED
      BY <1>1, <2>1, <2>3, <2>4 DEF Apics
  <1>2. CASE EnableX2apic(0, "main")
    <2>1. pc[0] = "x2apic" /\ pc'[0] = "main" /\ \A c \in Ap : pc'[c] = pc[c]
      BY <1>2 DEF EnableX2apic, At, Goto, Phases
    <2>2. HasX2apic(0)' /\ ~HasX2apic(0) /\ \A d \in Cpu : d # 0 => (HasX2apic(d)' <=> HasX2apic(d))
      BY <2>1 DEF HasX2apic
    <2> QED
      BY <1>1, <1>2, <2>2
  <1>3. ASSUME NEW c \in Ap, EnableX2apic(c, "sti") PROVE Apics'
    <2>1. pc[c] = "x2apic" /\ pc'[c] = "sti" /\ \A d \in Cpu : d # c => pc'[d] = pc[d]
      BY <1>3 DEF EnableX2apic, At, Goto, Phases
    <2>2. HasX2apic(c)' /\ ~HasX2apic(c) /\ \A d \in Cpu : d # c => (HasX2apic(d)' <=> HasX2apic(d))
      BY <2>1 DEF HasX2apic
    <2> QED
      BY <1>1, <1>3, <2>2
  <1>4. CASE Boot /\ ~EnableX2apic(0, "main")
    <2>1. UNCHANGED <<mode, apic_ops>>
      BY <1>4 DEF Boot, Start, LoadTss, EnableApic, SendInit, SendSipi, WaitOnline, SmpInit, Call, Done, apic
    <2>2. enabled' \subseteq Cpu /\ irr' \subseteq Cpu
      BY <1>4 DEF Boot, Start, LoadTss, EnableApic, SendInit, SendSipi, WaitOnline, SmpInit, Call, Done,
                  apic, ipis, Apics
    <2>3. \A c \in Ap : pc'[c] = pc[c] \/ {pc[c], pc'[c]} \subseteq {"reset", "wait_sipi", "trampoline"}
      BY <1>4 DEF Boot, Start, LoadTss, EnableApic, SendInit, SendSipi, WaitOnline, SmpInit, Call, Done,
                  At, Goto, Phases
    <2>4. pc[0] \in {"main", "call", "done", "ready"} <=> pc'[0] \in {"main", "call", "done", "ready"}
      BY <1>4 DEF Boot, Start, LoadTss, EnableApic, SendInit, SendSipi, WaitOnline, SmpInit, Call, Done,
                  At, Goto, Phases
    <2>5. \A c \in Cpu : HasX2apic(c)' <=> HasX2apic(c)
      BY <2>3, <2>4 DEF HasX2apic
    <2> QED
      BY <2>1, <2>2, <2>5, ApicsStay
  <1>5. CASE Setup5LevelPageTable \/ UNCHANGED vars
    BY <1>5 DEF Setup5LevelPageTable, vars, apic, ipis, Apics, HasX2apic
  <1>6. ASSUME NEW c \in Ap, Wake(c), ~EnableX2apic(c, "sti") PROVE Apics'
    <2>1. UNCHANGED <<mode, apic_ops>>
      BY <1>6 DEF Wake, Trampoline, ApStart32, Prepare64, LoadTss, EnableApic, Sti, Online, Ipi, apic
    <2>2. enabled' \subseteq Cpu /\ irr' \subseteq Cpu
      BY <1>6 DEF Wake, Trampoline, ApStart32, Prepare64, LoadTss, EnableApic, Sti, Online, Ipi, apic, ipis, Apics
    <2>3. \A d \in Cpu : d # c => pc'[d] = pc[d]
      BY <1>6 DEF Wake, Trampoline, ApStart32, Prepare64, LoadTss, EnableApic, Sti, Online, Ipi, Goto, Phases
    <2>4. pc[c] \in {"sti", "online", "hlt"} <=> pc'[c] \in {"sti", "online", "hlt"}
      BY <1>6 DEF Wake, Trampoline, ApStart32, Prepare64, LoadTss, EnableApic, Sti, Online, Ipi, At, Goto, Phases
    <2>5. \A d \in Cpu : HasX2apic(d)' <=> HasX2apic(d)
      BY <2>3, <2>4 DEF HasX2apic
    <2> QED
      BY <2>1, <2>2, <2>5, ApicsStay
  <1> QED
    BY <1>2, <1>3, <1>4, <1>5, <1>6 DEF Next

-----------------------------------------------------------------------------
(* The theorems. *)

LEMMA BootInitially == Init => BootInv
  <1> SUFFICES ASSUME Init PROVE BootInv
    OBVIOUS
  <1> USE CpuFacts DEF Init
  <1>1. Phases
    <2>1. Halted = {}
      BY DEF Halted
    <2>2. Cardinality(Halted) = 0
      BY <2>1, FS_EmptySet
    <2> QED
      BY <2>2 DEF Phases, Labels, Setup, AfterWait, ApCode
  <1>2. Stacks
    BY DEF Stacks, NoStack, None
  <1>3. Tables
    BY DEF Tables
  <1>4. Apics
    BY DEF Apics, HasX2apic
  <1> QED
    BY <1>1, <1>2, <1>3, <1>4 DEF BootInv

LEMMA BootInvariance == ASSUME AllCounted PROVE Spec => []BootInv
  <1>1. BootInv /\ [Next]_vars => BootInv'
    BY PhasesKept, StacksKept, TablesKept, ApicsKept DEF BootInv
  <1> QED
    BY <1>1, BootInitially, PTL DEF Spec

\* Any number of CPUs, in any order: no two CPUs share a stack or a per-CPU
\* area, and none runs other bytes than the trampoline (x86/cstart64.S).
THEOREM BootMemoryCorrect == ASSUME AllCounted PROVE Spec => []BootMemory
  <1>1. BootInv => StacksDisjoint
    BY CpuFacts DEF BootInv, Phases, Stacks, StacksDisjoint, None
  <1>2. BootInv => TrampolineIntact
    BY CpuFacts DEF BootInv, Phases, TrampolineIntact, Setup, AfterWait, ApCode
  <1> QED
    BY <1>1, <1>2, BootInvariance, PTL DEF BootMemory

\* Any number of CPUs: each runs on the tables that its CR4 asks for, and
\* reaches its APIC in the way that the APIC's mode asks for, although
\* pt_root and apic_ops are shared and change (x86/cstart64.S, apic.c).
THEOREM CpuStateCorrect == ASSUME AllCounted PROVE Spec => []CpuStateMatches
  <1>1. BootInv => RootMatches
    BY CpuFacts DEF BootInv, Tables, RootMatches
  <1>2. BootInv => ApicMode
    BY CpuFacts DEF BootInv, Phases, Apics, ApicMode, HasX2apic, At, Setup, AfterWait
  <1> QED
    BY <1>1, <1>2, BootInvariance, PTL DEF CpuStateMatches

-----------------------------------------------------------------------------
(* What stops the processor and relies on something else to start it: the  *)
(* inductive invariant of each program.                                    *)

USE WakeAssumption

Ways == 0..4
Effects == {"init", "hard", "cold", "twice", "nothing"}

\* init.c: the ways before the k-th have been judged when the state is k + 1.
\* Behind the reset itself what it left is not judged yet.
Judged(k) == k < w.state - 1
Past(k) == k < IF w.pc = "main" THEN w.state ELSE w.state - 1

InitType ==
    w \in [pc : {"main", "halted", "exit"}, state : Nat, bad : SUBSET {1, 2}, resumed : Nat, port92 : {0, 1},
           resets : [Ways -> Effects]]
InitPlace ==
    /\ w.pc = "main" => w.state \in 0..5
    /\ w.pc = "halted" => w.state \in 1..5 /\ w.resumed = 0
    /\ w.pc = "exit" => w.state = 6
    /\ w.state = 0 => w.resumed = 0
    /\ w.pc = "main" /\ w.state > 0 =>
          LET kind == w.resets[w.state - 1] IN
          /\ w.resumed = IF kind = "cold" THEN 0 ELSE IF kind = "twice" THEN 2 ELSE 1
          /\ kind \in {"hard", "cold"} => w.port92 = 0
InitJudged ==
    /\ \A k \in Ways : Past(k) => w.resets[k] # "nothing"
    /\ w.state > 0 /\ w.port92 = 0 => \E k \in Ways : Past(k) /\ w.resets[k] \in {"hard", "cold"}
    /\ 2 \in w.bad <=> \E k \in Ways : Judged(k) /\ w.resets[k] \in {"cold", "twice"}
    /\ 1 \in w.bad => \E k \in Ways : Judged(k) /\ w.resets[k] \in {"hard", "cold"}
    /\ \A k \in Ways : Judged(k) /\ w.resets[k] = "hard" => 1 \in w.bad
InitInv == InitType /\ InitPlace /\ InitJudged

\* s3.c: the alarm repeats, and the flag is clear when the machine sleeps,
\* unless the processor runs on.
S3Inv ==
    /\ w \in [pc : {"arm", "clear", "outw", "loop", "asleep", "exit"}, flag : {0, 1}, armed : BOOLEAN, fired : BOOLEAN,
              repeats : BOOLEAN, late : BOOLEAN, code : {-1, 0, 1}]
    /\ w.repeats
    /\ ~w.late => /\ w.pc # "loop" /\ (w.pc \in {"outw", "asleep"} => w.flag = 0)
                  /\ w.pc = "exit" => w.code = 0

\* tscdeadline_latency.c: the timer is armed until there is a hit, and a hit
\* that the halted processor has not seen was missed.
TscInv ==
    /\ w \in [pc : {"hlt", "halted", "check", "exit"}, armed : BOOLEAN, count : Nat, idx : 0..TableSize, hitmax : BOOLEAN,
              size : Nat, breakmax : BOOLEAN, missed : BOOLEAN]
    /\ w.armed <=> ~w.hitmax
    /\ w.hitmax => w.breakmax
    /\ w.pc \in {"hlt", "halted"} /\ w.hitmax => w.missed
    /\ w.pc = "exit" => w.hitmax \/ w.idx >= w.size

\* asyncpf.c: the only page without a PTE is the one the handler waits for.
ApfType ==
    w \in [pc : {"touch", "wait", "exit"}, i : 1..Pages, loop : Int, host : [1..Pages -> BOOLEAN],
           pte : [1..Pages -> BOOLEAN], token : 0..Pages, phys : BOOLEAN, broadcast : BOOLEAN]
ApfInv ==
    /\ ApfType
    /\ \A p \in 1..Pages : w.pc # "wait" \/ p # w.i => w.pte[p]
    /\ w.pc = "wait" /\ ~w.broadcast => w.token # 0

WakeInv ==
    /\ w_prog = "init" => InitInv
    /\ w_prog = "s3" => S3Inv
    /\ w_prog = "tscdeadline" => TscInv
    /\ w_prog \notin {"init", "s3", "tscdeadline"} => ApfInv

LEMMA InitMainStep == ASSUME InitInv, InitMain PROVE InitInv'
  <1>1. InitType /\ InitPlace /\ InitJudged /\ w.pc = "main" /\ w.state \in 0..5
    BY DEF InitInv, InitPlace, InitMain, Is
  <1>2. /\ w'.bad = w.bad \cup {b \in {2} : w.state # 0 /\ w.resumed # 1}
                          \cup {b \in {1} : w.state # 0 /\ w.resumed # 0 /\ w.port92 = 0}
        /\ w'.resumed = 0 /\ w'.state = w.state + 1 /\ w'.resets = w.resets
        /\ w'.port92 = IF w.state = 0 THEN 1 ELSE w.port92
        /\ w'.pc = IF w.state = 5 THEN "exit" ELSE "halted"
    BY <1>1 DEF InitMain, InitType
  <1>3. InitType'
    <2>1. w' = [pc |-> w'.pc, state |-> w'.state, bad |-> w'.bad, resumed |-> w'.resumed, port92 |-> w'.port92, resets |-> w'.resets]
      BY <1>1 DEF InitMain, InitType
    <2>2. /\ w'.bad \in SUBSET {1, 2} /\ w'.pc \in {"main", "halted", "exit"} /\ w'.state \in Nat
          /\ w'.port92 \in {0, 1} /\ w'.resets \in [Ways -> Effects] /\ w'.resumed \in Nat
      BY <1>1, <1>2 DEF InitType
    <2> QED
      BY <2>1, <2>2 DEF InitType
  <1>4. InitPlace'
    BY <1>1, <1>2 DEF InitPlace, InitType
  <1>5. \A k \in Ways : (Past(k)' <=> k < w.state) /\ (Past(k) <=> k < w.state) /\ (Judged(k)' <=> k < w.state)
    BY <1>1, <1>2 DEF Past, Judged, Ways, InitType
  <1>6. /\ \A k \in Ways : Past(k)' => w'.resets[k] # "nothing"
        /\ w'.state > 0 /\ w'.port92 = 0 => \E k \in Ways : Past(k)' /\ w'.resets[k] \in {"hard", "cold"}
    BY <1>1, <1>2, <1>5 DEF InitJudged, InitType
  <1>7. CASE w.state = 0
    <2>1. \A k \in Ways : ~Judged(k) /\ ~Judged(k)'
      BY <1>5, <1>7 DEF Judged, Ways
    <2>2. w'.bad = w.bad
      BY <1>2, <1>7
    <2> QED
      BY <1>1, <1>3, <1>4, <1>6, <2>1, <2>2 DEF InitInv, InitJudged
  <1>8. CASE w.state # 0
    <2> DEFINE kind == w.resets[w.state - 1]
    <2>1. w.state - 1 \in Ways /\ w.state > 0 /\ kind \in Effects
      BY <1>1, <1>8 DEF Ways, InitType
    <2>2. \A k \in Ways : Judged(k)' <=> Judged(k) \/ k = w.state - 1
      BY <1>1, <1>5, <1>8 DEF Judged, Ways
    <2>3. /\ w.resumed = IF kind = "cold" THEN 0 ELSE IF kind = "twice" THEN 2 ELSE 1
          /\ kind \in {"hard", "cold"} => w.port92 = 0
          /\ kind # "nothing"
      <3>1. Past(w.state - 1)
        BY <1>1, <2>1 DEF Past, Ways
      <3> QED
        BY <1>1, <2>1, <3>1 DEF InitPlace, InitJudged
    <2>4. 2 \in w'.bad <=> 2 \in w.bad \/ kind \in {"cold", "twice"}
      BY <1>2, <1>8, <2>3
    <2>5. 1 \in w'.bad <=> 1 \in w.bad \/ (kind # "cold" /\ w.port92 = 0)
      BY <1>2, <1>8, <2>3
    <2>6. 2 \in w'.bad <=> \E k \in Ways : Judged(k)' /\ w'.resets[k] \in {"cold", "twice"}
      BY <1>1, <1>2, <2>1, <2>2, <2>4 DEF InitJudged
    <2>7. 1 \in w'.bad => \E k \in Ways : Judged(k)' /\ w'.resets[k] \in {"hard", "cold"}
      <3>1. CASE 1 \in w.bad
        BY <1>1, <1>2, <2>2, <3>1 DEF InitJudged
      <3>2. CASE w.port92 = 0
        BY <1>1, <1>2, <1>5, <2>1, <3>2 DEF InitJudged
      <3> QED
        BY <2>5, <3>1, <3>2
    <2>8. \A k \in Ways : Judged(k)' /\ w'.resets[k] = "hard" => 1 \in w'.bad
      BY <1>1, <1>2, <2>2, <2>3, <2>5 DEF InitJudged
    <2> QED
      BY <1>3, <1>4, <1>6, <2>6, <2>7, <2>8 DEF InitInv, InitJudged
  <1> QED
    BY <1>7, <1>8

LEMMA ResetStep == ASSUME InitInv, Reset PROVE InitInv'
  <1> DEFINE kind == w.resets[w.state - 1]
  <1>1. InitType /\ InitPlace /\ InitJudged /\ w.pc = "halted" /\ w.state \in 1..5 /\ w.resumed = 0 /\ kind # "nothing"
    BY DEF InitInv, InitPlace, Reset, Is
  <1>2. w.state - 1 \in Ways /\ kind \in Effects
    BY <1>1 DEF Ways, InitType
  <1>3. /\ w'.bad = w.bad /\ w'.state = w.state /\ w'.resets = w.resets /\ w'.pc = "main"
        /\ w'.resumed = w.resumed + (CASE kind = "cold" -> 0 [] kind = "twice" -> 2 [] OTHER -> 1)
        /\ w'.port92 = IF kind \in {"hard", "cold"} THEN 0 ELSE w.port92
        /\ w' = [pc |-> w'.pc, state |-> w'.state, bad |-> w'.bad, resumed |-> w'.resumed, port92 |-> w'.port92, resets |-> w'.resets]
    BY <1>1 DEF Reset, InitType
  <1>4. w'.resumed = IF kind = "cold" THEN 0 ELSE IF kind = "twice" THEN 2 ELSE 1
    <2>1. CASE kind = "cold"
      BY <1>1, <1>3, <2>1
    <2>2. CASE kind = "twice"
      BY <1>1, <1>3, <2>2
    <2>3. CASE kind \notin {"cold", "twice"}
      BY <1>1, <1>3, <2>3
    <2> QED
      BY <2>1, <2>2, <2>3
  <1>5. InitType'
    BY <1>1, <1>3, <1>4 DEF InitType
  <1>6. InitPlace'
    BY <1>1, <1>3, <1>4 DEF InitPlace
  <1>7. \A k \in Ways : (Past(k)' <=> Past(k) \/ k = w.state - 1) /\ (Judged(k)' <=> Judged(k))
    BY <1>1, <1>3 DEF Past, Judged, Ways
  <1>8. InitJudged'
    BY <1>1, <1>2, <1>3, <1>7 DEF InitJudged
  <1> QED
    BY <1>5, <1>6, <1>8 DEF InitInv

LEMMA S3Step == ASSUME S3Inv, S3Next PROVE S3Inv'
  <1>1. CASE Arm
    BY <1>1 DEF S3Inv, Arm, Is
  <1>2. CASE Clear
    BY <1>2 DEF S3Inv, Clear, Is
  <1>3. CASE Outw
    BY <1>3 DEF S3Inv, Outw, Is
  <1>4. CASE Loop
    BY <1>4 DEF S3Inv, Loop, Is
  <1>5. CASE Alarm
    BY <1>5 DEF S3Inv, Alarm
  <1> QED
    BY <1>1, <1>2, <1>3, <1>4, <1>5 DEF S3Next

LEMMA TscStep == ASSUME TscInv, TscNext PROVE TscInv'
  <1>1. CASE Isr
    <2>1. PICK slow \in BOOLEAN :
        LET hit == w.breakmax /\ w.count >= 1 /\ slow IN
        w' = [w EXCEPT
            !.count = IF @ < 2 THEN @ + 1 ELSE @,
            !.idx = IF @ < TableSize /\ w.count >= 1 THEN @ + 1 ELSE @,
            !.hitmax = @ \/ hit,
            !.armed = ~hit,
            !.missed = @ \/ (hit /\ w.pc = "hlt"),
            !.pc = IF @ = "halted" THEN "check" ELSE @]
      BY <1>1 DEF Isr
    <2> DEFINE hit == w.breakmax /\ w.count >= 1 /\ slow
    <2>2. /\ w.pc \in {"hlt", "halted", "check"} /\ w.armed = TRUE /\ w.hitmax = FALSE /\ w.count \in Nat /\ w.idx \in 0..TableSize
          /\ w.size \in Nat /\ w.breakmax \in BOOLEAN /\ w.missed \in BOOLEAN
      BY <1>1 DEF Isr, TscInv
    <2>3. /\ w'.count = IF w.count < 2 THEN w.count + 1 ELSE w.count
          /\ w'.idx = IF w.idx < TableSize /\ w.count >= 1 THEN w.idx + 1 ELSE w.idx
          /\ w'.size = w.size /\ w'.breakmax = w.breakmax
          /\ w'.pc = IF w.pc = "halted" THEN "check" ELSE w.pc
      BY <1>1, <2>1 DEF TscInv
    <2>6. w' = [pc |-> w'.pc, armed |-> w'.armed, count |-> w'.count, idx |-> w'.idx, hitmax |-> w'.hitmax, size |-> w'.size,
                breakmax |-> w'.breakmax, missed |-> w'.missed]
      BY <2>1 DEF TscInv
    <2>7. w'.count \in Nat /\ w'.idx \in 0..TableSize
      BY <2>2, <2>3
    <2>4. CASE hit
      <3>1. /\ w'.armed = FALSE /\ w'.hitmax = TRUE /\ w.breakmax = TRUE
            /\ w'.missed = (w.missed \/ w.pc = "hlt")
        BY <1>1, <2>1, <2>2, <2>4 DEF TscInv
      <3>2. w'.missed \in BOOLEAN /\ (w.pc = "hlt" => w'.missed)
        BY <2>2, <3>1
      <3> HIDE DEF hit
      <3> QED
        BY <2>2, <2>3, <2>6, <2>7, <3>1, <3>2 DEF TscInv
    <2>5. CASE ~hit
      <3>1. w'.armed = TRUE /\ w'.hitmax = FALSE /\ w'.missed = w.missed
        BY <1>1, <2>1, <2>2, <2>5 DEF TscInv
      <3> HIDE DEF hit
      <3> QED
        BY <2>2, <2>3, <2>6, <2>7, <3>1 DEF TscInv
    <2> QED
      BY <2>4, <2>5
  <1>2. CASE Hlt
    BY <1>2 DEF TscInv, Hlt, Is
  <1>3. CASE Check
    BY <1>3 DEF TscInv, Check, Is
  <1> QED
    BY <1>1, <1>2, <1>3 DEF TscNext

LEMMA ApfUpdated ==
    ASSUME ApfType, w' = [pc |-> w'.pc, i |-> w'.i, loop |-> w'.loop, host |-> w'.host, pte |-> w'.pte, token |-> w'.token,
                          phys |-> w'.phys, broadcast |-> w'.broadcast],
           w'.pc \in {"touch", "wait", "exit"}, w'.i \in 1..Pages, w'.loop \in Int, w'.host \in [1..Pages -> BOOLEAN],
           w'.pte \in [1..Pages -> BOOLEAN], w'.token \in 0..Pages, w'.phys \in BOOLEAN, w'.broadcast = w.broadcast
    PROVE  ApfType'
  BY DEF ApfType

LEMMA ApfStep == ASSUME ApfInv, ApfNext PROVE ApfInv'
  <1> DEFINE Whole(v) == v = [pc |-> v.pc, i |-> v.i, loop |-> v.loop, host |-> v.host, pte |-> v.pte, token |-> v.token,
                              phys |-> v.phys, broadcast |-> v.broadcast]
  <1>1. /\ w.pc \in {"touch", "wait", "exit"} /\ w.i \in 1..Pages /\ w.loop \in Int /\ w.host \in [1..Pages -> BOOLEAN]
        /\ w.pte \in [1..Pages -> BOOLEAN] /\ w.token \in 0..Pages /\ w.phys \in BOOLEAN /\ ApfType
    BY DEF ApfInv, ApfType
  <1>2. CASE SwapOut
    <2>1. PICK p \in 1..Pages : w' = [w EXCEPT !.host[p] = FALSE]
      BY <1>2 DEF SwapOut
    <2>2. Whole(w') /\ w'.host = [w.host EXCEPT ![p] = FALSE]
      BY <2>1, <1>1 DEF ApfType
    <2>3. w'.pc = w.pc /\ w'.i = w.i /\ w'.loop = w.loop /\ w'.pte = w.pte /\ w'.token = w.token /\ w'.phys = w.phys
          /\ w'.broadcast = w.broadcast
      BY <2>1, <1>1 DEF ApfType
    <2>4. ApfType'
      BY <1>1, <2>2, <2>3, ApfUpdated
    <2> QED
      BY <2>3, <2>4 DEF ApfInv, ApfType
  <1>3. CASE TouchBuf
    <2>1. w.pc = "touch" /\ Whole(w')
      BY <1>1, <1>3 DEF TouchBuf, Is, ApfType
    <2>2. /\ w'.i = IF w.i = Pages THEN 1 ELSE w.i + 1
          /\ w'.loop = IF w.i = Pages THEN w.loop - 1 ELSE w.loop
          /\ w'.pc = IF w.i = Pages /\ w.loop = 1 THEN "exit" ELSE w.pc
          /\ w'.host = w.host /\ w'.pte = w.pte /\ w'.token = w.token /\ w'.phys = w.phys /\ w'.broadcast = w.broadcast
      BY <1>1, <1>3 DEF TouchBuf, ApfType
    <2>3. w'.i \in 1..Pages /\ w'.loop \in Int /\ w'.pc \in {"touch", "exit"}
      BY <1>1, <2>1, <2>2
    <2>4. ApfType'
      BY <1>1, <2>1, <2>2, <2>3, ApfUpdated
    <2> QED
      BY <2>1, <2>2, <2>3, <2>4 DEF ApfInv, ApfType
  <1>4. CASE NotPresent
    <2>1. w.pc = "touch" /\ \A p \in 1..Pages : w.pte[p]
      BY <1>4 DEF NotPresent, Is, ApfInv
    <2>2. CASE w' = [w EXCEPT !.host[w.i] = TRUE]
      <3>1. Whole(w') /\ w'.host = [w.host EXCEPT ![w.i] = TRUE]
        BY <1>1, <2>2 DEF ApfType
      <3>2. w'.pc = w.pc /\ w'.i = w.i /\ w'.loop = w.loop /\ w'.pte = w.pte /\ w'.token = w.token /\ w'.phys = w.phys
            /\ w'.broadcast = w.broadcast
        BY <1>1, <2>2 DEF ApfType
      <3>3. ApfType'
        <4>1. w'.host \in [1..Pages -> BOOLEAN] /\ w'.pte \in [1..Pages -> BOOLEAN]
          BY <1>1, <3>1, <3>2
        <4>2. w'.token \in 0..Pages
          BY <1>1, <3>2
        <4>3. w'.phys \in BOOLEAN
          BY <1>1, <3>2
        <4> QED
          BY <1>1, <3>1, <3>2, <4>1, <4>2, <4>3, ApfUpdated
      <3> QED
        BY <2>1, <3>2, <3>3 DEF ApfInv, ApfType
    <2>3. CASE w' = [w EXCEPT !.pc = "wait", !.phys = TRUE, !.pte[w.i] = FALSE, !.token = w.i]
      <3>1. Whole(w') /\ w'.pte = [w.pte EXCEPT ![w.i] = FALSE]
        BY <1>1, <2>3 DEF ApfType
      <3>2. w'.pc = "wait" /\ w'.i = w.i /\ w'.loop = w.loop /\ w'.host = w.host /\ w'.token = w.i /\ w'.phys = TRUE
            /\ w'.broadcast = w.broadcast
        BY <1>1, <2>3 DEF ApfType
      <3>3. ApfType'
        <4>1. w'.host \in [1..Pages -> BOOLEAN] /\ w'.pte \in [1..Pages -> BOOLEAN]
          BY <1>1, <3>1, <3>2
        <4>2. w'.token \in 0..Pages
          BY <1>1, <3>2
        <4>3. w'.phys \in BOOLEAN
          BY <1>1, <3>2
        <4> QED
          BY <1>1, <3>1, <3>2, <4>1, <4>2, <4>3, ApfUpdated
      <3>4. \A p \in 1..Pages : p # w.i => w'.pte[p]
        BY <1>1, <2>1, <3>1
      <3> QED
        BY <1>1, <3>2, <3>3, <3>4 DEF ApfInv, ApfType
    <2> QED
      BY <1>4, <2>2, <2>3 DEF NotPresent
  <1>5. CASE Ready
    <2>1. w.pc = "wait" /\ w.token \in 1..Pages /\ \A p \in 1..Pages : p # w.i => w.pte[p]
      BY <1>1, <1>5 DEF Ready, Is, ApfInv
    <2>2. CASE w.broadcast
      <3>1. w' = [w EXCEPT !.host[w.token] = TRUE, !.token = 0]
        BY <1>5, <2>2 DEF Ready
      <3>2. Whole(w') /\ w'.host = [w.host EXCEPT ![w.token] = TRUE]
        BY <1>1, <3>1 DEF ApfType
      <3>3. w'.pc = w.pc /\ w'.i = w.i /\ w'.loop = w.loop /\ w'.pte = w.pte /\ w'.token = 0 /\ w'.phys = w.phys
            /\ w'.broadcast = w.broadcast
        BY <1>1, <3>1 DEF ApfType
      <3>4. ApfType'
        <4>1. w'.host \in [1..Pages -> BOOLEAN] /\ w'.pte \in [1..Pages -> BOOLEAN]
          BY <1>1, <3>2, <3>3
        <4>2. w'.token \in 0..Pages
          BY <1>1, <3>3
        <4>3. w'.phys \in BOOLEAN
          BY <1>1, <3>3
        <4> QED
          BY <1>1, <3>2, <3>3, <4>1, <4>2, <4>3, ApfUpdated
      <3> QED
        BY <2>1, <2>2, <3>3, <3>4 DEF ApfInv, ApfType
    <2>3. CASE ~w.broadcast
      <3>1. w' = [w EXCEPT !.host[w.token] = TRUE, !.token = 0, !.phys = FALSE, !.pte[w.i] = TRUE, !.pc = "touch"]
        BY <1>5, <2>3 DEF Ready
      <3>2. Whole(w') /\ w'.host = [w.host EXCEPT ![w.token] = TRUE] /\ w'.pte = [w.pte EXCEPT ![w.i] = TRUE]
        BY <1>1, <3>1 DEF ApfType
      <3>3. w'.pc = "touch" /\ w'.i = w.i /\ w'.loop = w.loop /\ w'.token = 0 /\ w'.phys = FALSE
            /\ w'.broadcast = w.broadcast
        BY <1>1, <3>1 DEF ApfType
      <3>4. ApfType'
        <4>1. w'.host \in [1..Pages -> BOOLEAN] /\ w'.pte \in [1..Pages -> BOOLEAN]
          BY <1>1, <3>2, <3>3
        <4>2. w'.token \in 0..Pages
          BY <1>1, <3>3
        <4>3. w'.phys \in BOOLEAN
          BY <1>1, <3>3
        <4> QED
          BY <1>1, <3>2, <3>3, <4>1, <4>2, <4>3, ApfUpdated
      <3>5. \A p \in 1..Pages : w'.pte[p]
        BY <1>1, <2>1, <3>2
      <3> QED
        BY <2>1, <3>3, <3>4, <3>5 DEF ApfInv, ApfType
    <2> QED
      BY <2>2, <2>3
  <1> QED
    BY <1>2, <1>3, <1>4, <1>5 DEF ApfNext

LEMMA WakeStep == WakeInv /\ [WakeNext]_wakeVars => WakeInv'
  <1> SUFFICES ASSUME WakeInv, [WakeNext]_wakeVars PROVE WakeInv'
    OBVIOUS
  <1>1. CASE UNCHANGED wakeVars
    BY <1>1 DEF wakeVars, WakeInv, InitInv, InitType, InitPlace, InitJudged, Past, Judged, S3Inv, TscInv, ApfInv, ApfType
  <1>2. CASE InitNext
    <2>1. w_prog = "init" /\ w_prog' = w_prog
      BY <1>2 DEF InitNext, InitMain, Reset, Is
    <2> QED
      BY <1>2, <2>1, InitMainStep, ResetStep DEF InitNext, WakeInv
  <1>3. CASE S3Next
    <2>1. w_prog = "s3" /\ w_prog' = w_prog
      BY <1>3 DEF S3Next, Arm, Clear, Outw, Loop, Alarm, Is
    <2> QED
      BY <1>3, <2>1, S3Step DEF WakeInv
  <1>4. CASE TscNext
    <2>1. w_prog = "tscdeadline" /\ w_prog' = w_prog
      BY <1>4 DEF TscNext, Isr, Hlt, Check, Is
    <2> QED
      BY <1>4, <2>1, TscStep DEF WakeInv
  <1>5. CASE ApfNext
    <2>1. w_prog = "asyncpf" /\ w_prog' = w_prog
      BY <1>5 DEF ApfNext, SwapOut, TouchBuf, NotPresent, Ready, Is
    <2> QED
      BY <1>5, <2>1, ApfStep DEF WakeInv
  <1> QED
    BY <1>1, <1>2, <1>3, <1>4, <1>5 DEF WakeNext, WakeEnd

LEMMA WakeStarts == WakeInit => WakeInv
  <1> SUFFICES ASSUME WakeInit PROVE WakeInv
    OBVIOUS
  <1>1. w_prog = "init" => InitInv
    <2> SUFFICES ASSUME w_prog = "init" PROVE InitInv
      OBVIOUS
    <2>1. w \in InitStart
      BY DEF WakeInit
    <2>2. PICK k \in Ways, r \in Effects : w.resets = [j \in Ways |-> IF j = k THEN r ELSE "init"]
      BY <2>1 DEF InitStart, Ways, Effects
    <2>3. InitType /\ w.state = 0 /\ w.pc = "main" /\ w.bad = {} /\ w.resumed = 0
      BY <2>1, <2>2 DEF InitStart, InitType, Effects
    <2> QED
      BY <2>3 DEF InitInv, InitPlace, InitJudged, Past, Judged, Ways
  <1>2. w_prog = "s3" => S3Inv
    BY DEF WakeInit, S3Start, S3Inv
  <1>3. w_prog = "tscdeadline" => TscInv
    <2> SUFFICES ASSUME w_prog = "tscdeadline" PROVE TscInv
      OBVIOUS
    <2>1. w \in TscStart
      BY DEF WakeInit
    <2> QED
      <3>1. /\ w = [pc |-> w.pc, armed |-> w.armed, count |-> w.count, idx |-> w.idx, hitmax |-> w.hitmax, size |-> w.size,
                    breakmax |-> w.breakmax, missed |-> w.missed]
            /\ w.pc = "hlt" /\ w.armed = TRUE /\ w.count = 0 /\ w.idx = 0 /\ w.hitmax = FALSE /\ w.missed = FALSE
            /\ w.size \in 1..(TableSize + 1) /\ w.breakmax \in BOOLEAN
        BY <2>1 DEF TscStart
      <3>2. w.size \in Nat /\ w.idx \in 0..TableSize
        BY <3>1
      <3>3. w.armed \in BOOLEAN /\ w.hitmax \in BOOLEAN /\ w.missed \in BOOLEAN
        BY <3>1, Zenon
      <3>5. w.count \in Nat
        BY <3>1
      <3>4. w \in [pc : {"hlt", "halted", "check", "exit"}, armed : BOOLEAN, count : Nat, idx : 0..TableSize, hitmax : BOOLEAN,
                   size : Nat, breakmax : BOOLEAN, missed : BOOLEAN]
        BY <3>1, <3>2, <3>3, <3>5
      <3> QED
        BY <3>1, <3>4 DEF TscInv
  <1>4. w_prog \notin {"init", "s3", "tscdeadline"} => ApfInv
    <2> SUFFICES ASSUME w_prog \notin {"init", "s3", "tscdeadline"} PROVE ApfInv
      OBVIOUS
    <2>1. w \in ApfStart
      BY DEF WakeInit
    <2>2. w.pte = [p \in 1..Pages |-> TRUE] /\ w.pc = "touch"
      BY <2>1 DEF ApfStart
    <2>3. /\ w = [pc |-> w.pc, i |-> w.i, loop |-> w.loop, host |-> w.host, pte |-> w.pte, token |-> w.token,
                  phys |-> w.phys, broadcast |-> w.broadcast]
          /\ w.i = 1 /\ w.loop = 2 /\ w.host \in [1..Pages -> BOOLEAN] /\ w.token = 0 /\ w.phys = FALSE
          /\ w.broadcast \in BOOLEAN
      BY <2>1 DEF ApfStart
    <2>4. w.pte \in [1..Pages -> BOOLEAN] /\ w.i \in 1..Pages /\ w.token \in 0..Pages
      BY <2>2, <2>3
    <2>6. w.phys \in BOOLEAN
      BY <2>3, Zenon
    <2>7. w.loop \in Int /\ w.pc \in {"touch", "wait", "exit"}
      BY <2>2, <2>3
    <2>5. ApfType
      BY <2>3, <2>4, <2>6, <2>7 DEF ApfType
    <2> QED
      BY <2>2, <2>5 DEF ApfInv
  <1> QED
    BY <1>1, <1>2, <1>3, <1>4 DEF WakeInv

LEMMA WakeInvWakes == WakeInv => WakesUp
  <1> SUFFICES ASSUME WakeInv PROVE WakesUp
    OBVIOUS
  <1>1. CASE w_prog = "init"
    <2>1. InitType /\ InitPlace /\ InitJudged
      BY <1>1 DEF WakeInv, InitInv
    <2>2. 1 \in w.bad => \E k \in 0..4 : w.resets[k] \in {"hard", "cold"}
      BY <2>1 DEF InitJudged, Ways
    <2>3. Stuck => \E k \in 0..4 : w.resets[k] = "nothing"
      <3> SUFFICES ASSUME Stuck PROVE w.state - 1 \in 0..4 /\ w.resets[w.state - 1] = "nothing"
        OBVIOUS
      <3> QED
        BY <1>1, <2>1 DEF Stuck, InitPlace
    <2>4. CASE w.pc = "exit"
      <3>1. \A k \in Ways : Judged(k) /\ Past(k)
        BY <2>1, <2>4 DEF InitPlace, Judged, Past, Ways
      <3>2. 2 \in w.bad <=> \E k \in 0..4 : w.resets[k] \in {"cold", "twice"}
        BY <2>1, <3>1 DEF InitJudged, Ways
      <3>3. w.bad = {} => \A k \in 0..4 : w.resets[k] = "init"
        BY <2>1, <3>1, <3>2 DEF InitJudged, Ways, InitType, Effects
      <3>4. (\A k \in 0..4 : w.resets[k] = "init") => w.bad = {}
        <4>1. w.bad \subseteq {1, 2}
          BY <2>1 DEF InitType
        <4> QED
          BY <2>2, <3>2, <4>1
      <3> QED
        BY <1>1, <2>2, <2>3, <3>2, <3>3, <3>4 DEF WakesUp
    <2>5. CASE w.pc # "exit"
      BY <1>1, <2>2, <2>3, <2>5 DEF WakesUp
    <2> QED
      BY <2>4, <2>5
  <1>2. CASE w_prog = "s3"
    <2>1. ~Stuck /\ (w.pc = "exit" /\ ~w.late => w.code = 0)
      BY <1>2 DEF WakeInv, S3Inv, Stuck
    <2> QED
      BY <1>2, <2>1 DEF WakesUp
  <1>3. CASE w_prog = "tscdeadline"
    <2>1. /\ Stuck => w.missed
          /\ w.pc = "exit" => w.hitmax \/ w.idx >= w.size
          /\ w.size > TableSize /\ ~w.breakmax => w.pc # "exit"
      BY <1>3 DEF WakeInv, TscInv, Stuck
    <2> QED
      BY <1>3, <2>1 DEF WakesUp
  <1>4. CASE w_prog \notin {"init", "s3", "tscdeadline"}
    <2>1. /\ w.pc = "touch" => \A p \in 1..Pages : w.pte[p]
          /\ Stuck => w.broadcast
      BY <1>4 DEF WakeInv, ApfInv, Stuck
    <2> QED
      BY <1>4, <2>1 DEF WakesUp
  <1> QED
    BY <1>1, <1>2, <1>3, <1>4

\* x86/init.c, s3.c, tscdeadline_latency.c and asyncpf.c, for any size of the
\* table of latencies and of the buffer: each is started again and judges
\* rightly.  A program that stays halted has been left there by a reset that
\* does nothing, a hit between the check and the hlt, or a broadcast.
THEOREM WakesUpCorrect == WakeSpec => []WakesUp
  <1>1. WakeSpec => []WakeInv
    BY WakeStarts, WakeStep, PTL DEF WakeSpec
  <1> QED
    BY <1>1, WakeInvWakes, PTL
=============================================================================
