------------------------------- MODULE X86Smp -------------------------------
(***************************************************************************)
(* The x86 cross-CPU call service of lib/x86/smp.c: on_cpu, on_cpu_async   *)
(* and on_cpus send a function to another CPU through one set of globals   *)
(* (ipi_function, ipi_data, ipi_wait, ipi_done) guarded by ipi_lock, and   *)
(* an inter-processor interrupt; active_cpus counts the CPUs that still    *)
(* run a function.                                                         *)
(*                                                                         *)
(* Every access to a shared variable is a step of its own.  An execution   *)
(* context is either Main, the thread of the boot processor that runs the  *)
(* test's main(), or the interrupt frame of a CPU (named by the CPU), in   *)
(* which ipi() runs.  The application processors have no thread of their   *)
(* own: they halt with interrupts enabled (x86/cstart64.S:215-220).  An    *)
(* interrupt gate clears IF, so a CPU never nests two frames of ipi().     *)
(*                                                                         *)
(* A call is identified by its number; ipi_function and ipi_data both      *)
(* carry that number, so a handler that mixes the function of one call     *)
(* with the data of another is visible.                                    *)
(***************************************************************************)
EXTENDS Integers, FiniteSets

CONSTANTS
    NCpus,      \* fwcfg_get_nb_cpus()
    MaxCalls,   \* bound: number of __on_cpu calls in a behaviour
    MayCall,    \* <<c, t>>: a function that runs asynchronously on c may call on_cpu_async(t)
    BspIF       \* does main() run with interrupts enabled (irq_enable())?

ASSUME NCpusAssumption == NCpus \in Nat \ {0}
ASSUME MaxCallsAssumption == MaxCalls \in Nat /\ MaxCalls >= NCpus - 1
ASSUME MayCallAssumption == MayCall \subseteq (0..NCpus-1) \X (0..NCpus-1)
ASSUME BspIFAssumption == BspIF \in BOOLEAN

CPU == 0..NCpus-1
Main == -1
Unlocked == -2
Proc == CPU \cup {Main}
CallId == 1..MaxCalls
NoCall == 0

\* The CPU whose %gs:0 a context reads in smp_id().
CpuOf(p) == IF p = Main THEN 0 ELSE p

VARIABLES
    ipi_lock, ipi_function, ipi_data, ipi_done, ipi_wait, active_cpus,
    smp_id,     \* smp_id[c]: the word at %gs:0 of CPU c
    irr, isr,   \* the bit of IPI_VECTOR in the local APIC's IRR and ISR
    pc,         \* pc[p]: where context p is
    cur,        \* cur[p]: the call context p is making in __on_cpu
    hf, hd, hw, \* the locals function, data and wait of ipi(), per CPU
    stage,      \* what Main is in: smp_init, main() itself, or on_cpus
    idx,        \* the loop variable of smp_init and on_cpus
    ncalls,     \* number of calls made
    target, sync, kind, st   \* per call: arguments, and how far it is

shared == <<ipi_lock, ipi_function, ipi_data, ipi_done, ipi_wait, active_cpus>>
apic == <<irr, isr>>
locals == <<hf, hd, hw>>
args == <<target, sync, kind>>
loop == <<stage, idx>>
vars == <<shared, smp_id, apic, pc, cur, locals, loop, ncalls, args, st>>

CallerPc == {"lock", "test", "clear", "setf", "setd", "setw", "icr",
             "spin", "self", "unlock"}
HandlerPc == {"rdf", "rdd", "rdw", "ack0", "eoi0", "call", "body", "dec",
              "ack1", "eoi1", "iret"}
PcValues == {"idle", "boot", "loop", "wait"} \cup CallerPc \cup HandlerPc

\* "called": __on_cpu entered; "posted": counted in active_cpus, not started;
\* "running": its function runs on the target; "ran": returned, still counted;
\* "self": its function runs on the caller's own CPU; "done": over.
Status == {"free", "called", "posted", "running", "ran", "self", "done"}

TypeOK ==
    /\ ipi_lock \in Proc \cup {Unlocked}
    /\ ipi_function \in CallId \cup {NoCall}
    /\ ipi_data \in CallId \cup {NoCall}
    /\ ipi_done \in {0, 1}
    /\ ipi_wait \in BOOLEAN
    /\ active_cpus \in Int
    /\ smp_id \in [CPU -> CPU]
    /\ irr \in [CPU -> BOOLEAN]
    /\ isr \in [CPU -> BOOLEAN]
    /\ pc \in [Proc -> PcValues]
    /\ cur \in [Proc -> CallId \cup {NoCall}]
    /\ hf \in [CPU -> CallId \cup {NoCall}]
    /\ hd \in [CPU -> CallId \cup {NoCall}]
    /\ hw \in [CPU -> BOOLEAN]
    /\ stage \in {"init", "user", "cpus"}
    /\ idx \in -1..NCpus
    /\ ncalls \in 0..MaxCalls
    /\ target \in [CallId -> CPU]
    /\ sync \in [CallId -> BOOLEAN]
    /\ kind \in [CallId -> {"setup_smp_id", "work"}]
    /\ st \in [CallId -> Status]

\* cstart64.S has brought every AP to its hlt loop; the globals are zero.
Init ==
    /\ ipi_lock = Unlocked
    /\ ipi_function = NoCall
    /\ ipi_data = NoCall
    /\ ipi_done = 0
    /\ ipi_wait = FALSE
    /\ active_cpus = 0
    /\ smp_id = [c \in CPU |-> 0]
    /\ irr = [c \in CPU |-> FALSE]
    /\ isr = [c \in CPU |-> FALSE]
    /\ pc = [p \in Proc |-> IF p = Main THEN "boot" ELSE "idle"]
    /\ cur = [p \in Proc |-> NoCall]
    /\ hf = [c \in CPU |-> NoCall]
    /\ hd = [c \in CPU |-> NoCall]
    /\ hw = [c \in CPU |-> FALSE]
    /\ stage = "init"
    /\ idx = 1
    /\ ncalls = 0
    /\ target = [i \in CallId |-> 0]
    /\ sync = [i \in CallId |-> FALSE]
    /\ kind = [i \in CallId |-> "work"]
    /\ st = [i \in CallId |-> "free"]

\* A frame of ipi() on CPU 0 suspends Main.
Runs(p) == p = Main => pc[0] = "idle"

Goto(p, l) == pc' = [pc EXCEPT ![p] = l]

At(p, l) == pc[p] = l /\ Runs(p)

-----------------------------------------------------------------------------
(* Entering __on_cpu. *)

Enter(p, t, w, k) ==
    /\ ncalls < MaxCalls
    /\ ncalls' = ncalls + 1
    /\ cur' = [cur EXCEPT ![p] = ncalls + 1]
    /\ target' = [target EXCEPT ![ncalls + 1] = t]
    /\ sync' = [sync EXCEPT ![ncalls + 1] = w]
    /\ kind' = [kind EXCEPT ![ncalls + 1] = k]
    /\ st' = [st EXCEPT ![ncalls + 1] = "called"]
    /\ Goto(p, "lock")
    /\ UNCHANGED <<shared, smp_id, apic, locals>>

\* smp_init: setup_smp_id(0) on the boot processor itself.
SmpInitSelf ==
    /\ At(Main, "boot")
    /\ smp_id' = [smp_id EXCEPT ![0] = 0]
    /\ Goto(Main, "loop")
    /\ UNCHANGED <<shared, apic, cur, locals, loop, ncalls, args, st>>

\* smp_init: for (i = 1; i < cpu_count(); ++i) on_cpu(i, setup_smp_id, 0).
SmpInitCall ==
    /\ At(Main, "loop") /\ stage = "init" /\ idx < NCpus
    /\ Enter(Main, idx, TRUE, "setup_smp_id")
    /\ idx' = idx + 1
    /\ UNCHANGED stage

\* smp_init: atomic_inc(&active_cpus), then main() goes on.
SmpInitDone ==
    /\ At(Main, "loop") /\ stage = "init" /\ idx = NCpus
    /\ active_cpus' = active_cpus + 1
    /\ stage' = "user"
    /\ Goto(Main, "idle")
    /\ UNCHANGED <<ipi_lock, ipi_function, ipi_data, ipi_done, ipi_wait, smp_id,
                   apic, cur, locals, idx, ncalls, args, st>>

\* main() calls on_cpu (w) or on_cpu_async (~w).
MainCall(t, w) ==
    /\ At(Main, "idle")
    /\ Enter(Main, t, w, "work")
    /\ UNCHANGED loop

\* main() calls on_cpus: cpu starts at cpu_count() - 1.
OnCpus ==
    /\ At(Main, "idle")
    /\ ncalls + NCpus <= MaxCalls
    /\ stage' = "cpus"
    /\ idx' = NCpus - 1
    /\ Goto(Main, "loop")
    /\ UNCHANGED <<shared, smp_id, apic, cur, locals, ncalls, args, st>>

OnCpusCall ==
    /\ At(Main, "loop") /\ stage = "cpus" /\ idx >= 0
    /\ Enter(Main, idx, FALSE, "work")
    /\ idx' = idx - 1
    /\ UNCHANGED stage

OnCpusWait ==
    /\ At(Main, "loop") /\ stage = "cpus" /\ idx < 0
    /\ Goto(Main, "wait")
    /\ UNCHANGED <<shared, smp_id, apic, cur, locals, loop, ncalls, args, st>>

\* Mutant: while (cpus_active() > 2).
OnCpusReturn_OffByOne ==
    /\ At(Main, "wait")
    /\ active_cpus <= 2
    /\ stage' = "user"
    /\ Goto(Main, "idle")
    /\ UNCHANGED <<shared, smp_id, apic, cur, locals, idx, ncalls, args, st>>

\* while (cpus_active() > 1) pause();
OnCpusReturn ==
    /\ At(Main, "wait")
    /\ active_cpus <= 1
    /\ stage' = "user"
    /\ Goto(Main, "idle")
    /\ UNCHANGED <<shared, smp_id, apic, cur, locals, idx, ncalls, args, st>>

\* The calls the loop of on_cpus has still to make, kept out of the bound.
Reserved == IF stage = "cpus" THEN idx + 1 ELSE 0

\* A function that runs asynchronously calls on_cpu_async itself.  A
\* function the caller waits for cannot: its caller holds ipi_lock.
NestedCall(c, t) ==
    /\ pc[c] = "body"
    /\ ~hw[c]
    /\ kind[hf[c]] = "work"
    /\ <<c, t>> \in MayCall
    /\ ncalls + Reserved < MaxCalls
    /\ Enter(c, t, FALSE, "work")
    /\ UNCHANGED loop

-----------------------------------------------------------------------------
(* __on_cpu, in context p. *)

SpinLock(p) ==
    /\ At(p, "lock")
    /\ ipi_lock = Unlocked
    /\ ipi_lock' = p
    /\ Goto(p, "test")
    /\ UNCHANGED <<ipi_function, ipi_data, ipi_done, ipi_wait, active_cpus,
                   smp_id, apic, cur, locals, loop, ncalls, args, st>>

\* if (cpu == smp_id()) function(data), with ipi_lock held.
CallSelf(p) ==
    /\ At(p, "test")
    /\ target[cur[p]] = smp_id[CpuOf(p)]
    /\ st' = [st EXCEPT ![cur[p]] = "self"]
    /\ Goto(p, "self")
    /\ UNCHANGED <<shared, smp_id, apic, cur, locals, loop, ncalls, args>>

\* The function returned.
SelfReturn(p) ==
    /\ At(p, "self")
    /\ st' = [st EXCEPT ![cur[p]] = "done"]
    /\ Goto(p, "unlock")
    /\ UNCHANGED <<shared, smp_id, apic, cur, locals, loop, ncalls, args>>

\* else atomic_inc(&active_cpus).
IncActive(p) ==
    /\ At(p, "test")
    /\ target[cur[p]] # smp_id[CpuOf(p)]
    /\ active_cpus' = active_cpus + 1
    /\ st' = [st EXCEPT ![cur[p]] = "posted"]
    /\ Goto(p, "clear")
    /\ UNCHANGED <<ipi_lock, ipi_function, ipi_data, ipi_done, ipi_wait, smp_id,
                   apic, cur, locals, loop, ncalls, args>>

\* Mutant: ipi_done keeps the value the last call left.
ClearDone_Dropped(p) ==
    /\ At(p, "clear")
    /\ Goto(p, "setf")
    /\ UNCHANGED <<shared, smp_id, apic, cur, locals, loop, ncalls, args, st>>

ClearDone(p) ==
    /\ At(p, "clear")
    /\ ipi_done' = 0
    /\ Goto(p, "setf")
    /\ UNCHANGED <<ipi_lock, ipi_function, ipi_data, ipi_wait, active_cpus,
                   smp_id, apic, cur, locals, loop, ncalls, args, st>>

SetFunction(p) ==
    /\ At(p, "setf")
    /\ ipi_function' = cur[p]
    /\ Goto(p, "setd")
    /\ UNCHANGED <<ipi_lock, ipi_data, ipi_done, ipi_wait, active_cpus,
                   smp_id, apic, cur, locals, loop, ncalls, args, st>>

SetData(p) ==
    /\ At(p, "setd")
    /\ ipi_data' = cur[p]
    /\ Goto(p, "setw")
    /\ UNCHANGED <<ipi_lock, ipi_function, ipi_done, ipi_wait, active_cpus,
                   smp_id, apic, cur, locals, loop, ncalls, args, st>>

SetWait(p) ==
    /\ At(p, "setw")
    /\ ipi_wait' = sync[cur[p]]
    /\ Goto(p, "icr")
    /\ UNCHANGED <<ipi_lock, ipi_function, ipi_data, ipi_done, active_cpus,
                   smp_id, apic, cur, locals, loop, ncalls, args, st>>

\* apic_icr_write: the IRR holds one bit per vector.
SendIpi(p) ==
    /\ At(p, "icr")
    /\ irr' = [irr EXCEPT ![target[cur[p]]] = TRUE]
    /\ Goto(p, "spin")
    /\ UNCHANGED <<shared, smp_id, isr, cur, locals, loop, ncalls, args, st>>

\* Mutant: the caller does not wait for ipi_done.
SpinDone_NoWait(p) ==
    /\ At(p, "spin")
    /\ Goto(p, "unlock")
    /\ UNCHANGED <<shared, smp_id, apic, cur, locals, loop, ncalls, args, st>>

\* while (!ipi_done) ;
SpinDone(p) ==
    /\ At(p, "spin")
    /\ ipi_done = 1
    /\ Goto(p, "unlock")
    /\ UNCHANGED <<shared, smp_id, apic, cur, locals, loop, ncalls, args, st>>

\* spin_unlock, and the return into smp_init, on_cpus, main() or the function.
SpinUnlock(p) ==
    /\ At(p, "unlock")
    /\ ipi_lock' = Unlocked
    /\ cur' = [cur EXCEPT ![p] = NoCall]
    /\ Goto(p, IF p # Main THEN "body" ELSE IF stage = "user" THEN "idle" ELSE "loop")
    /\ UNCHANGED <<ipi_function, ipi_data, ipi_done, ipi_wait, active_cpus,
                   smp_id, apic, locals, loop, ncalls, args, st>>

-----------------------------------------------------------------------------
(* ipi(), in the interrupt frame of CPU c. *)

Deliver(c) ==
    /\ irr[c] /\ ~isr[c]
    /\ pc[c] = "idle"
    /\ c = 0 => BspIF
    /\ irr' = [irr EXCEPT ![c] = FALSE]
    /\ isr' = [isr EXCEPT ![c] = TRUE]
    /\ Goto(c, "rdf")
    /\ UNCHANGED <<shared, smp_id, cur, locals, loop, ncalls, args, st>>

ReadFunction(c) ==
    /\ pc[c] = "rdf"
    /\ hf' = [hf EXCEPT ![c] = ipi_function]
    /\ Goto(c, "rdd")
    /\ UNCHANGED <<shared, smp_id, apic, cur, hd, hw, loop, ncalls, args, st>>

ReadData(c) ==
    /\ pc[c] = "rdd"
    /\ hd' = [hd EXCEPT ![c] = ipi_data]
    /\ Goto(c, "rdw")
    /\ UNCHANGED <<shared, smp_id, apic, cur, hf, hw, loop, ncalls, args, st>>

\* Mutant: the acknowledgement always comes before the function.
ReadWait_AckFirst(c) ==
    /\ pc[c] = "rdw"
    /\ hw' = [hw EXCEPT ![c] = FALSE]
    /\ Goto(c, "ack0")
    /\ UNCHANGED <<shared, smp_id, apic, cur, hf, hd, loop, ncalls, args, st>>

ReadWait(c) ==
    /\ pc[c] = "rdw"
    /\ hw' = [hw EXCEPT ![c] = ipi_wait]
    /\ Goto(c, IF ipi_wait THEN "call" ELSE "ack0")
    /\ UNCHANGED <<shared, smp_id, apic, cur, hf, hd, loop, ncalls, args, st>>

\* if (!wait) ipi_done = 1 before the function, if (wait) after it.
Acknowledge(c) ==
    /\ pc[c] \in {"ack0", "ack1"}
    /\ ipi_done' = 1
    /\ Goto(c, IF pc[c] = "ack0" THEN "eoi0" ELSE "eoi1")
    /\ UNCHANGED <<ipi_lock, ipi_function, ipi_data, ipi_wait, active_cpus,
                   smp_id, apic, cur, locals, loop, ncalls, args, st>>

\* Mutant: the path that waits writes no EOI.
EndOfInterrupt_Dropped(c) ==
    /\ pc[c] \in {"eoi0", "eoi1"}
    /\ isr' = [isr EXCEPT ![c] = pc[c] = "eoi1"]
    /\ Goto(c, IF pc[c] = "eoi0" THEN "call" ELSE "iret")
    /\ UNCHANGED <<shared, smp_id, irr, cur, locals, loop, ncalls, args, st>>

EndOfInterrupt(c) ==
    /\ pc[c] \in {"eoi0", "eoi1"}
    /\ isr' = [isr EXCEPT ![c] = FALSE]
    /\ Goto(c, IF pc[c] = "eoi0" THEN "call" ELSE "iret")
    /\ UNCHANGED <<shared, smp_id, irr, cur, locals, loop, ncalls, args, st>>

\* function(data): its first instruction ...
FunctionStart(c) ==
    /\ pc[c] = "call"
    /\ st' = [st EXCEPT ![hf[c]] = "running"]
    /\ Goto(c, "body")
    /\ UNCHANGED <<shared, smp_id, apic, cur, locals, loop, ncalls, args>>

\* ... and its return.  setup_smp_id stores apic_id() at %gs:0.
FunctionReturn(c) ==
    /\ pc[c] = "body"
    /\ st' = [st EXCEPT ![hf[c]] = "ran"]
    /\ smp_id' = IF kind[hf[c]] = "setup_smp_id" THEN [smp_id EXCEPT ![c] = c] ELSE smp_id
    /\ Goto(c, "dec")
    /\ UNCHANGED <<shared, apic, cur, locals, loop, ncalls, args>>

DecActive(c) ==
    /\ pc[c] = "dec"
    /\ active_cpus' = active_cpus - 1
    /\ st' = [st EXCEPT ![hf[c]] = "done"]
    /\ Goto(c, IF hw[c] THEN "ack1" ELSE "iret")
    /\ UNCHANGED <<ipi_lock, ipi_function, ipi_data, ipi_done, ipi_wait, smp_id,
                   apic, cur, locals, loop, ncalls, args>>

Iret(c) ==
    /\ pc[c] = "iret"
    /\ Goto(c, "idle")
    /\ UNCHANGED <<shared, smp_id, apic, cur, locals, loop, ncalls, args, st>>

-----------------------------------------------------------------------------
CallStep(p) ==
    \/ SpinLock(p) \/ CallSelf(p) \/ SelfReturn(p) \/ IncActive(p)
    \/ ClearDone(p) \/ SetFunction(p) \/ SetData(p) \/ SetWait(p)
    \/ SendIpi(p) \/ SpinDone(p) \/ SpinUnlock(p)

HandlerStep(c) ==
    \/ Deliver(c) \/ ReadFunction(c) \/ ReadData(c) \/ ReadWait(c)
    \/ Acknowledge(c) \/ EndOfInterrupt(c) \/ FunctionStart(c)
    \/ FunctionReturn(c) \/ DecActive(c) \/ Iret(c)

LoopStep ==
    \/ SmpInitSelf \/ SmpInitCall \/ SmpInitDone
    \/ OnCpusCall \/ OnCpusWait \/ OnCpusReturn

Next ==
    \/ LoopStep
    \/ OnCpus
    \/ \E t \in CPU, w \in BOOLEAN : MainCall(t, w)
    \/ \E c, t \in CPU : NestedCall(c, t)
    \/ \E p \in Proc : CallStep(p)
    \/ \E c \in CPU : HandlerStep(c)

Spec == Init /\ [][Next]_vars

\* Every virtual CPU keeps executing; what main() calls is its own choice.
Fairness ==
    /\ WF_vars(LoopStep)
    /\ \A p \in Proc : WF_vars(CallStep(p))
    /\ \A c \in CPU : WF_vars(HandlerStep(c))

FairSpec == Spec /\ Fairness

-----------------------------------------------------------------------------
(* Properties. *)

\* A function always runs with the data of its own call, on the CPU its call
\* named: the three globals ipi() reads at smp.c:24-26 belong to one call.
ArgumentsMatch ==
    \A c \in CPU : pc[c] \in {"ack0", "eoi0", "call", "body", "dec", "ack1", "eoi1"} =>
        /\ hf[c] # NoCall
        /\ hd[c] = hf[c]
        /\ hw[c] = sync[hf[c]]
        /\ target[hf[c]] = c

\* No two CPUs ever run the function of the same call, and a CPU that is
\* about to call function(data) does so for a call that has not run yet:
\* an IPI is neither lost to, nor duplicated into, a second execution.
RunsOnce ==
    /\ \A c \in CPU : pc[c] = "call" => st[hf[c]] = "posted"
    /\ \A c, d \in CPU : (c # d /\ pc[c] = "body" /\ pc[d] = "body") => hf[c] # hf[d]

\* on_cpu returns only after its function has returned on the target, and
\* on_cpu_async only after the target has taken the call's arguments.
ReturnAfterCall ==
    \A p \in Proc : pc[p] = "unlock" =>
        /\ sync[cur[p]] => st[cur[p]] = "done"
        /\ ~sync[cur[p]] => \/ st[cur[p]] # "posted"
                            \/ hf[target[cur[p]]] = cur[p]

\* on_cpus returns only when no function runs on any other CPU: neither its
\* own, nor an earlier on_cpu_async of main(), nor one a function made.
OnCpusIsBarrier ==
    [][OnCpusReturn => \A i \in CallId : st[i] \in {"free", "done"}]_vars

\* Every call is over at some time, and main() gets through on_cpus: the
\* lock, the interrupts and the acknowledgements never wait in a circle.
CallsComplete ==
    /\ \A i \in CallId : (st[i] = "called") ~> (st[i] = "done")
    /\ (stage = "cpus") ~> (stage = "user")

-----------------------------------------------------------------------------
(* The inductive invariant of the safety proofs (module X86SmpProofs). *)

InCall(p) == pc[p] \in CallerPc

\* The handler on c has not acknowledged the IPI that started it.
PreAck(c) ==
    \/ pc[c] \in {"rdf", "rdd", "rdw", "ack0", "ack1"}
    \/ pc[c] \in {"call", "body", "dec"} /\ hw[c]

\* The handler on c still has business with the call hf[c].
Serving(c) ==
    \/ pc[c] \in {"ack0", "eoi0", "call", "body", "dec", "ack1", "eoi1"}
    \/ InCall(c)

Frames ==
    /\ pc[Main] \in {"boot", "idle", "loop", "wait"} \cup CallerPc
    /\ \A c \in CPU : pc[c] \in {"idle"} \cup HandlerPc \cup CallerPc
    /\ pc[Main] = "boot" => stage = "init"
    /\ pc[Main] = "idle" => stage = "user"
    /\ pc[Main] = "loop" => stage # "user"
    /\ pc[Main] = "wait" => stage = "cpus"
    /\ stage = "init" => idx >= 1
    /\ stage = "cpus" => idx < NCpus

LockHeld == \A p \in Proc : (InCall(p) /\ pc[p] # "lock") <=> ipi_lock = p

Issued ==
    /\ \A p \in Proc : InCall(p) <=> cur[p] # NoCall
    /\ \A p, q \in Proc : cur[p] = cur[q] /\ cur[p] # NoCall => p = q
    /\ \A i \in CallId : st[i] = "free" <=> i > ncalls

CallerStatus ==
    \A p \in Proc :
        /\ pc[p] \in {"lock", "test"} => st[cur[p]] = "called"
        /\ pc[p] \in {"clear", "setf", "setd", "setw", "icr"} => st[cur[p]] = "posted"
        /\ pc[p] = "self" => st[cur[p]] = "self"
        /\ pc[p] = "spin" => st[cur[p]] \in {"posted", "running", "ran", "done"}
        /\ InCall(p) => st[cur[p]] # "free"

Published ==
    \A p \in Proc :
        /\ pc[p] \in {"setd", "setw", "icr", "spin"} => ipi_function = cur[p]
        /\ pc[p] \in {"setw", "icr", "spin"} => ipi_data = cur[p]
        /\ pc[p] \in {"icr", "spin"} => ipi_wait = sync[cur[p]]
        /\ pc[p] \in {"setf", "setd", "setw", "icr"} => ipi_done = 0

\* An IPI that is pending or not acknowledged belongs to the holder of the lock.
TokenAt(c) ==
    /\ ipi_lock \in Proc
    /\ pc[ipi_lock] = "spin"
    /\ target[cur[ipi_lock]] = c
    /\ ipi_done = 0
    /\ ~(irr[c] /\ PreAck(c))
    /\ irr[c] \/ pc[c] \in {"rdf", "rdd", "rdw", "ack0"} => st[cur[ipi_lock]] = "posted"
    /\ PreAck(c) /\ pc[c] # "rdf" => hf[c] = cur[ipi_lock]

Token == \A c \in CPU : irr[c] \/ PreAck(c) => TokenAt(c)

HandlingAt(c) ==
    /\ pc[c] = "rdw" => hd[c] = hf[c]
    /\ Serving(c) =>
          /\ hf[c] # NoCall
          /\ hd[c] = hf[c]
          /\ hw[c] = sync[hf[c]]
          /\ target[hf[c]] = c
          /\ st[hf[c]] # "free"
    /\ pc[c] \in {"ack0", "eoi0"} \/ InCall(c) => ~hw[c]
    /\ pc[c] = "ack1" => hw[c]
    /\ pc[c] \in {"ack0", "eoi0", "call"} => st[hf[c]] = "posted"
    /\ pc[c] = "body" \/ InCall(c) => st[hf[c]] = "running"
    /\ pc[c] = "dec" => st[hf[c]] = "ran"
    /\ pc[c] = "ack1" => st[hf[c]] = "done"

Handling == \A c \in CPU : HandlingAt(c)

\* A handler only serves a call its caller has sent.
Apart ==
    \A c \in CPU, p \in Proc :
        /\ Serving(c) /\ InCall(p) /\ pc[p] \notin {"spin", "unlock"} => hf[c] # cur[p]
        /\ InCall(c) => cur[c] # hf[c]
        /\ irr[c] /\ Serving(c) => hf[c] # cur[ipi_lock]

\* What ipi_done = 1 says to the caller p that waits for it.
AckMeans(p) ==
    /\ sync[cur[p]] => st[cur[p]] = "done"
    /\ ~sync[cur[p]] => \/ st[cur[p]] # "posted"
                        \/ hf[target[cur[p]]] = cur[p]

Acked ==
    \A p \in Proc : pc[p] = "unlock" \/ (pc[p] = "spin" /\ ipi_done = 1) => AckMeans(p)

IndInv ==
    /\ TypeOK /\ Frames /\ LockHeld /\ Issued /\ CallerStatus
    /\ Published /\ Token /\ Handling /\ Apart /\ Acked

-----------------------------------------------------------------------------
(* What the barrier of on_cpus needs on top of it. *)

\* The calls active_cpus counts: from atomic_inc to atomic_dec.
Counted == {i \in CallId : st[i] \in {"posted", "running", "ran"}}

\* active_cpus is exact; the boot processor counts itself from the end of smp_init.
ActiveExact ==
    active_cpus = Cardinality(Counted) + (IF stage = "init" THEN 0 ELSE 1)

\* A call not counted yet, or run by its own caller, has a context inside __on_cpu.
Claimed ==
    \A i \in CallId : st[i] \in {"called", "self"} => \E p \in Proc : cur[p] = i

\* A caller leaves __on_cpu only with its call counted or over.
Left == \A p \in Proc : pc[p] = "unlock" => st[cur[p]] \notin {"called", "self"}

CountInv == ActiveExact /\ Claimed /\ Left
=============================================================================
