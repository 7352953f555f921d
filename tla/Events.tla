-------------------------------- MODULE Events --------------------------------
(***************************************************************************)
(* Delivery of events: x86/eventinj.c (exceptions, interrupts and NMIs     *)
(* whose delivery faults on a page that the host has taken away),          *)
(* x86/taskswitch2.c (the same events through task gates, on i386),        *)
(* x86/debug.c (#DB) and the single step of x86/syscall.c.                 *)
(*                                                                         *)
(* A program is a sequence of operations.  Before each of them the         *)
(* processor delivers what is pending; a handler runs to its iret, an NMI  *)
(* handler in steps, since an NMI may come in it.  The processor and the   *)
(* hypervisor are external and may have one defect.                        *)
(***************************************************************************)
EXTENDS Integers, Sequences, FiniteSets

CONSTANT Injectors      \* defects; "none" is one

VARIABLES
    injector,           \* the defect
    e_prog, e_at,       \* the operations of main, the next of them
    irq_on, window,     \* EFLAGS.IF; the instruction after sti
    pending, tpr,       \* IRR and task priority class
    nmis, masked,       \* NMIs pending; NMIs are blocked
    nmi_fn, nmi_at,     \* exception_handlers[2], where the NMI handler is: "", "sent", "iret"
    evicted,            \* "idt", "stack": pages that the host has taken away
    np, ro,             \* IDT entry 33 has NP_SEL; the stack page is read only
    test_divider, test_count,
    eip,                \* tss_intr.eip: "start" or behind the iret
    dr6, dr7, n,        \* bits of DR6; breakpoints are armed; hits of handle_db (in syscall.c,
                        \* the code segment of the last one: 0 for none yet)
    e_failed, crashed

vars == <<injector, e_prog, e_at, irq_on, window, pending, tpr, nmis, masked, nmi_fn, nmi_at, evicted, np, ro,
          test_divider, test_count, eip, dr6, dr7, n, e_failed, crashed>>

-----------------------------------------------------------------------------
(* Programs *)

P(op, x) == <<[op |-> op, x |-> x]>>
Zero == P("zero", 0)
Report(x) == P("report", x)     \* test_count == x
Flush(x) == P("flush", x)
Idt == {"idt"}
Both == {"idt", "stack"}

\* into and addr16 into, of one byte and of two; i386 only.
Into(bytes) == Zero \o Flush(Idt) \o P("into", bytes) \o Report(1)

EventinjFirst(i386) ==
    \* DE, BP
    Flush(Both) \o P("div", 0)
    \o Zero \o Flush(Both) \o P("int", 3) \o Report(1)
    \o (IF i386 THEN Into(1) \o Into(2) ELSE <<>>)
    \* vec 33, int $33
    \o Zero \o Flush(Idt) \o P("sti", 0) \o P("ipi", 33) \o P("cli", 0) \o Report(1)
    \o Zero \o Flush(Both) \o P("int", 33) \o Report(1)
    \* vec 32/33, vec 32/int $33
    \o Zero \o Flush(Idt) \o P("ipi", 32) \o P("ipi", 33) \o P("sti", 0) \o P("nop", 0) \o P("cli", 0) \o Report(2)
    \o Zero \o Flush(Both) \o P("ipi", 32) \o P("sti", 0) \o P("int", 33) \o P("cli", 0) \o Report(2)
EventinjSecond ==
    \* TPR
    Zero \o Flush(Idt) \o P("tpr", 15) \o P("sti", 0) \o P("ipi", 32) \o P("ipi", 62) \o P("tpr", 2)
    \o Report(1) \o P("tpr", 0) \o P("await", 2) \o P("cli", 0)
    \* NP
    \o Zero \o P("np", 0) \o Flush(Both) \o P("int", 33) \o Report(2)
    \* NMI, NMI with a fault on iret
    \o Zero \o P("nmi_fn", "nmi_isr") \o Flush(Idt) \o P("nmi", 0) \o P("sti", 0) \o P("nop", 0) \o P("cli", 0) \o Report(2)
    \o Zero \o P("nmi_fn", "nmi_iret_isr") \o P("nmi", 0) \o P("sti", 0) \o P("nop", 0) \o P("cli", 0) \o Report(2)
    \* DE PF, NP PF, shadowed stack
    \o P("divider", 0) \o P("ro", 0) \o Flush(Both) \o P("div", 0)
    \o Zero \o P("np", 0) \o P("ro", 0) \o Flush(Both) \o P("int", 33) \o Report(2)
    \o Zero \o Flush({"stack"}) \o P("int", 33) \o Report(1)
EventinjMain(i386) == EventinjFirst(i386) \o EventinjSecond

Task(fn) == P("task", fn)
Gate == P("gate", 0)            \* set_intr_task_gate: tss_intr.eip is the function
Taskswitch2Main ==
    Zero \o Gate \o Task("irq") \o Report(1) \o Zero \o Task("irq") \o Report(2) \o Zero \o Gate \o Task("jmp") \o Report(1)
    \o Zero \o Gate \o Task("nmi") \o Report(1) \o Zero \o Gate \o Task("nmi") \o Report(1)
    \o Zero \o Gate \o Task("irq") \o Report(1)
    \o Gate \o Task("de") \o P("div", 0) \o Zero \o Gate \o Task("de") \o Report(1) \o Zero \o Gate \o Task("of") \o Report(1)
    \o Zero \o Gate \o Task("bp") \o Report(1) \o Zero \o Gate \o Task("pf") \o Report(1)
    \o Task("vm86") \o Zero \o Gate \o Task("conforming") \o Report(1)

\* DR6 is {} after set_dr6(0) or the bits that set_dr6 writes; a want is the
\* number of hits of handle_db and DR6 at the last one, or n alone.
Db(x) == P("db", x)
Dr6(bits) == P("set_dr6", bits)
Want(k, bits) == P("want", <<k, bits>>)
Dr7 == P("set_dr7", 0)
DebugMain ==
    Zero \o P("int", 3) \o Report(1)
    \o Dr7 \o Db({"b0"}) \o Want(1, {"b0"}) \o Dr6({"b1", "bs"}) \o Db({"b0"}) \o Want(1, {"b0", "bs"})
    \o Dr6({}) \o P("step", 3) \o Want(3, {"bs"})
    \o Dr6({}) \o P("step", 5) \o P("step emulated", 2) \o Want(7, {"bs"})
    \o Dr7 \o Db({"b1"}) \o Want(1, {"b1", "bs"}) \o Dr6({}) \o Db({"b1"}) \o Want(1, {"b1"})
    \o Dr6({}) \o P("icebp", 0) \o Want(1, {})
    \o Dr7 \o P("mov ss", "icebp") \o P("want n", 3) \o P("mov ss", "int 1") \o P("want n", 7)
    \o Zero \o P("mov ss", "int 3") \o P("want n", 3) \o Report(1)

\* test_syscall_tf: the trap is to come after sysret, not after syscall.
KernelCs == 1
UserCs == 2
SyscallMain == P("syscall", 0) \o P("sysret", 0) \o P("want n", UserCs)

Init ==
    /\ injector \in Injectors
    /\ e_prog \in {EventinjMain(TRUE), EventinjMain(FALSE), Taskswitch2Main, DebugMain, SyscallMain}
    /\ e_at = 1
    /\ irq_on = FALSE /\ window = FALSE /\ pending = {} /\ tpr = 0
    /\ nmis = 0 /\ masked = FALSE /\ nmi_fn = "" /\ nmi_at = "" /\ evicted = {} /\ np = FALSE /\ ro = FALSE
    /\ test_divider = 0 /\ test_count = 0 /\ eip = "start" /\ dr6 = {} /\ dr7 = FALSE /\ n = 0
    /\ e_failed = FALSE /\ crashed = FALSE

-----------------------------------------------------------------------------
(* Delivery *)

Class(v) == v \div 16
Highest == CHOOSE v \in pending : \A w \in pending : v >= w
Lowest == CHOOSE v \in pending : \A w \in pending : v <= w
Next1 == IF injector = "lowest first" THEN Lowest ELSE Highest
NmiDue == nmis > 0 /\ ~masked
IrqDue == /\ pending # {} /\ irq_on /\ (~window \/ injector = "no window")
          /\ Class(Next1) > tpr \/ injector = "no tpr"
Due == NmiDue \/ IrqDue

\* A fault while the event is delivered may lose it.
Lost(kind) == evicted # {} /\ injector = "loses " \o kind

\* Mutant: tirq0 counts without looking at what ran before it.
Isr_Any(v, count) == count + 1

\* test_count after tirq0 (32) and tirq1 (33, 62).
Isr(v, count) == IF v = 32 THEN (IF count = 1 THEN 2 ELSE count) ELSE count + 1

Irq ==
    /\ ~crashed /\ IrqDue /\ ~NmiDue
    /\ pending' = pending \ {Next1}
    /\ test_count' = IF Lost("irq") THEN test_count ELSE Isr(Next1, test_count)
    /\ evicted' = {}
    /\ UNCHANGED <<injector, e_prog, e_at, irq_on, window, tpr, nmis, masked, nmi_fn, nmi_at, np, ro,
                   test_divider, eip, dr6, dr7, n, e_failed, crashed>>

\* The code that an NMI interrupts.  isr_iret_ip is the iret of handle_irq's
\* stub (isr.c:58), and interrupt handlers do not meet NMIs in these tests; an
\* NMI handler returns by another iret (desc.c:200), where the test does not ask.
Rip == CASE nmi_at = "" -> "main" [] nmi_at = "iret" -> "behind the iret of do_iret" [] OTHER -> "handler"

\* nmi_isr and nmi_iret_isr count, change the handler and send another NMI;
\* nested_nmi_isr and nested_nmi_iret_isr count, the first not at isr_iret_ip,
\* the second only at the return address of do_iret.
Nmi ==
    /\ ~crashed /\ NmiDue /\ nmis' = nmis - 1 /\ evicted' = {}
    /\ IF Lost("nmi") THEN UNCHANGED <<masked, nmi_fn, nmi_at, test_count, crashed>>
       ELSE CASE nmi_fn \in {"nmi_isr", "nmi_iret_isr"} ->
                   /\ test_count' = test_count + 1 /\ masked' = (injector # "no nmi mask")
                   /\ nmi_at' = "running" /\ UNCHANGED <<nmi_fn, crashed>>
              [] nmi_fn = "nested_nmi_isr" ->
                   /\ test_count' = IF Rip # "isr_iret_ip" THEN test_count + 1 ELSE test_count
                   /\ UNCHANGED <<masked, nmi_fn, nmi_at, crashed>>
              [] OTHER ->
                   /\ test_count' = IF Rip = "behind the iret of do_iret" THEN test_count + 1 ELSE test_count
                   /\ crashed' = (nmi_at = "sent")      \* iret_stack is still null
                   /\ UNCHANGED <<masked, nmi_fn, nmi_at>>
    /\ UNCHANGED <<injector, e_prog, e_at, irq_on, window, pending, tpr, np, ro, test_divider, eip,
                   dr6, dr7, n, e_failed>>

NmiHandler ==
    /\ ~crashed /\ ~NmiDue /\ nmi_at # ""
    /\ \/ /\ nmi_at = "running" /\ nmi_at' = "sent" /\ nmis' = nmis + 1 /\ UNCHANGED masked
          /\ nmi_fn' = IF nmi_fn = "nmi_isr" THEN "nested_nmi_isr" ELSE "nested_nmi_iret_isr"
       \* do_iret: the first iret ends the blocking
       \/ /\ nmi_at = "sent" /\ nmi_fn = "nested_nmi_iret_isr" /\ nmi_at' = "iret"
          /\ masked' = (injector = "iret fault") /\ UNCHANGED <<nmi_fn, nmis>>
       \/ /\ nmi_at = "iret" \/ (nmi_at = "sent" /\ nmi_fn = "nested_nmi_isr")
          /\ nmi_at' = "" /\ masked' = (injector = "iret fault" /\ nmi_at = "iret") /\ UNCHANGED <<nmi_fn, nmis>>
    /\ UNCHANGED <<injector, e_prog, e_at, irq_on, window, pending, tpr, evicted, np, ro, test_divider,
                   test_count, eip, dr6, dr7, n, e_failed, crashed>>

-----------------------------------------------------------------------------
(* Operations of main *)

o == e_prog[e_at]
At(name) == /\ ~crashed /\ e_at <= Len(e_prog) /\ o.op = name /\ nmi_at = "" /\ ~Due
            /\ e_at' = e_at + 1 /\ window' = (name = "sti")
flow == <<injector, e_prog>>

Setup ==
    /\ \/ At("zero") /\ test_count' = 0 /\ UNCHANGED <<irq_on, pending, tpr, nmis, nmi_fn, evicted, np, ro, test_divider, eip>>
       \/ At("flush") /\ evicted' = o.x /\ UNCHANGED <<irq_on, pending, tpr, nmis, nmi_fn, test_count, np, ro, test_divider, eip>>
       \/ At("sti") /\ irq_on' = TRUE /\ UNCHANGED <<pending, tpr, nmis, nmi_fn, test_count, evicted, np, ro, test_divider, eip>>
       \/ At("cli") /\ irq_on' = FALSE /\ UNCHANGED <<pending, tpr, nmis, nmi_fn, test_count, evicted, np, ro, test_divider, eip>>
       \/ At("nop") /\ UNCHANGED <<irq_on, pending, tpr, nmis, nmi_fn, test_count, evicted, np, ro, test_divider, eip>>
       \/ At("ipi") /\ pending' = pending \cup {o.x} /\ UNCHANGED <<irq_on, tpr, nmis, nmi_fn, test_count, evicted, np, ro, test_divider, eip>>
       \/ At("tpr") /\ tpr' = o.x /\ UNCHANGED <<irq_on, pending, nmis, nmi_fn, test_count, evicted, np, ro, test_divider, eip>>
       \/ At("nmi") /\ nmis' = nmis + 1 /\ UNCHANGED <<irq_on, pending, tpr, nmi_fn, test_count, evicted, np, ro, test_divider, eip>>
       \/ At("nmi_fn") /\ nmi_fn' = o.x /\ UNCHANGED <<irq_on, pending, tpr, nmis, test_count, evicted, np, ro, test_divider, eip>>
       \/ At("np") /\ np' = TRUE /\ UNCHANGED <<irq_on, pending, tpr, nmis, nmi_fn, test_count, evicted, ro, test_divider, eip>>
       \/ At("ro") /\ ro' = TRUE /\ UNCHANGED <<irq_on, pending, tpr, nmis, nmi_fn, test_count, evicted, np, test_divider, eip>>
       \/ At("divider") /\ test_divider' = 0 /\ UNCHANGED <<irq_on, pending, tpr, nmis, nmi_fn, test_count, evicted, np, ro, eip>>
       \/ At("gate") /\ eip' = "start" /\ UNCHANGED <<irq_on, pending, tpr, nmis, nmi_fn, test_count, evicted, np, ro, test_divider>>
       \/ /\ At("await") /\ test_count = o.x
          /\ UNCHANGED <<irq_on, pending, tpr, nmis, nmi_fn, test_count, evicted, np, ro, test_divider, eip>>
    /\ UNCHANGED <<flow, masked, nmi_at, dr6, dr7, n, e_failed, crashed>>

\* A fault of the delivery on the read-only stack: do_pf_tss, and once more.
Lost2 == ro /\ injector = "loses first of two"

Software ==
    /\ \/ /\ At("int") /\ np /\ test_count' = IF Lost("soft") \/ Lost2 THEN test_count + 1 ELSE test_count + 2
          /\ np' = FALSE /\ UNCHANGED <<test_divider, e_failed>>      \* np_isr, then tirq1
       \/ /\ At("int") /\ ~np /\ UNCHANGED <<np, test_divider, e_failed>>
          /\ test_count' = IF Lost("soft") THEN test_count
                           ELSE IF evicted # {} /\ injector = "repeats soft" THEN test_count + 2
                           ELSE test_count + 1
       \/ /\ At("into") /\ UNCHANGED <<np, test_divider, e_failed>>       \* of_isr
          /\ test_count' = IF Lost("soft") THEN test_count
                           ELSE IF \/ evicted # {} /\ injector = "repeats soft"
                                   \/ o.x = 2 /\ injector = "one byte"
                                THEN test_count + 2
                           ELSE test_count + 1
       \* de_isr, or the division as it is; res == 150 iff the handler ran
       \/ /\ At("div") /\ UNCHANGED <<np, test_count>>
          /\ LET lost == Lost("exception") \/ Lost2
             IN /\ test_divider' = IF lost THEN test_divider ELSE 10
                /\ e_failed' = (e_failed \/ test_divider' # 10)
       \/ /\ At("report") /\ e_failed' = (e_failed \/ test_count # o.x) /\ UNCHANGED <<np, test_divider, test_count>>
    /\ evicted' = IF o.op = "report" THEN evicted ELSE {}
    /\ ro' = IF o.op = "report" THEN ro ELSE FALSE
    /\ UNCHANGED <<flow, irq_on, pending, tpr, nmis, masked, nmi_fn, nmi_at, eip, dr6, dr7, n, crashed>>

\* A task continues behind its iret: irq_tss counts there, too.
TaskSwitch ==
    /\ At("task")
    /\ test_count' = IF o.x = "vm86" \/ (o.x = "pf" /\ injector = "no error code") THEN test_count
                     ELSE IF o.x = "irq" /\ eip = "iret" THEN test_count + 2 ELSE test_count + 1
    /\ eip' = IF injector = "eip not saved" THEN "start" ELSE "iret"
    /\ test_divider' = IF o.x = "de" THEN 10 ELSE test_divider
    /\ crashed' = \/ injector = "wrong length" /\ o.x = "irq"
                  \/ injector = "no vm86" /\ o.x = "vm86"
                  \/ injector = "dpl of cs" /\ o.x = "conforming"
    /\ UNCHANGED <<flow, irq_on, pending, tpr, nmis, masked, nmi_fn, nmi_at, evicted, np, ro, dr6, dr7, n, e_failed>>

\* DR6 after a breakpoint: the bits of the old ones go, BS stays.
AfterHit(bits) ==
    (IF injector = "keeps hits" THEN dr6 ELSE dr6 \ {"b0", "b1"})
    \cup (IF injector = "no b0" THEN bits \ {"b0"} ELSE bits)
    \cup (IF injector = "bs on hit" THEN {"bs"} ELSE {})
AfterHit2(bits) == IF injector = "clears bs" THEN AfterHit(bits) \ {"bs"} ELSE AfterHit(bits)

\* handle_db, k times.  A code breakpoint comes again unless the handler has
\* seen B0 and set RF; the tenth call clears TF and DR7.
Limit == 10
Handled(k, bits) ==
    LET again == "b0" \in bits /\ ("b0" \notin AfterHit2(bits) \/ injector = "rf ignored") IN
    n' = IF again \/ n + k > Limit THEN Limit ELSE n + k

Debug ==
    \/ At("set_dr6") /\ dr6' = o.x /\ UNCHANGED <<dr7, n>>
    \/ At("set_dr7") /\ dr7' = TRUE /\ UNCHANGED <<dr6, n>>
    \/ /\ At("db")
       /\ IF dr7 THEN Handled(1, o.x) /\ dr6' = AfterHit2(o.x) ELSE UNCHANGED <<n, dr6>>
       /\ dr7' = (dr7 /\ n' < Limit)
    \/ /\ At("step") /\ Handled(IF injector = "keeps tf" THEN Limit ELSE o.x, {})
       /\ dr6' = dr6 \cup {"bs"} /\ dr7' = (dr7 /\ n' < Limit)
    \/ /\ At("step emulated") /\ Handled(IF injector = "emulated" THEN 0 ELSE o.x, {})
       /\ dr6' = dr6 \cup {"bs"} /\ dr7' = (dr7 /\ n' < Limit)
    \/ /\ At("icebp") /\ Handled(1, {}) /\ UNCHANGED dr7
       /\ dr6' = IF injector = "icebp" THEN dr6 \cup {"bs"} ELSE dr6

\* The watchpoint of mov ss waits for the next instruction, and joins icebp.
\* handle_db_save_rip shifts a 1 into n, which was 1, or a 0 if it is entered
\* behind its stc.
MovSs ==
    LET first == IF injector = "no delayed hit" THEN 0 ELSE 1
        second == IF o.x = "int 1" \/ (o.x = "icebp" /\ injector \in {"icebp twice", "no delayed hit"})
                  THEN 1 ELSE 0
        hits == first + second
    IN  /\ At("mov ss")
        /\ n' = IF injector = "late entry" THEN 2^hits ELSE 2^(hits + 1) - 1
        /\ dr6' = AfterHit({"b1"}) /\ UNCHANGED dr7

\* A #DB at syscall has the kernel's segment, and the test is over.
Syscall ==
    /\ \/ At("syscall") /\ n' = IF injector = "tf at syscall" THEN KernelCs ELSE n
       \/ At("sysret") /\ n' = IF n = 0 THEN UserCs ELSE n
    /\ UNCHANGED <<dr6, dr7>>

DebugStep ==
    /\ \/ (Debug \/ Syscall) /\ UNCHANGED <<test_count, e_failed>>
       \/ /\ MovSs /\ UNCHANGED e_failed
          /\ test_count' = IF o.x = "int 3" THEN test_count + 1 ELSE test_count
       \/ /\ \/ At("want") /\ e_failed' = (e_failed \/ n # o.x[1] \/ dr6 # o.x[2])
             \/ At("want n") /\ e_failed' = (e_failed \/ n # o.x)
          /\ n' = 0 /\ UNCHANGED <<dr6, dr7, test_count>>
    /\ UNCHANGED <<flow, irq_on, pending, tpr, nmis, masked, nmi_fn, nmi_at, evicted, np, ro, test_divider,
                   eip, crashed>>

Next == Irq \/ Nmi \/ NmiHandler \/ Setup \/ Software \/ TaskSwitch \/ DebugStep

Spec == Init /\ [][Next]_vars

-----------------------------------------------------------------------------
\* The defects that each program looks for.
Sought == [eventinj |-> {"lowest first", "no window", "no tpr", "loses irq", "loses nmi", "loses soft", "repeats soft",
                         "loses exception", "loses first of two", "no nmi mask", "iret fault"},
           into |-> {"one byte"},
           tasks |-> {"no error code", "eip not saved", "wrong length", "no vm86", "dpl of cs"},
           debug |-> {"keeps hits", "bs on hit", "clears bs", "emulated", "icebp", "icebp twice",
                      "no delayed hit", "no b0", "rf ignored", "keeps tf", "late entry"},
           syscall |-> {"tf at syscall"}]

\* eventinj.c, taskswitch2.c, debug.c, syscall.c: without a defect all events
\* are delivered once, in order, whichever of them meet; no report fails and no
\* program waits for ever.  A program never passes with a defect it looks for.
EventsVerdict ==
    LET end == e_at > Len(e_prog) /\ nmi_at = "" /\ ~Due
        sought == CASE e_prog = EventinjMain(FALSE) -> Sought.eventinj
                    [] e_prog = EventinjMain(TRUE) -> Sought.eventinj \cup Sought.into
                    [] e_prog = Taskswitch2Main -> Sought.tasks
                    [] e_prog = DebugMain -> Sought.debug [] OTHER -> Sought.syscall
    IN /\ injector = "none" => ~e_failed /\ ~crashed /\ (end \/ ENABLED Next)
       /\ injector \in sought /\ end => e_failed \/ crashed
=============================================================================
