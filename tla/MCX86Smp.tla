------------------------------ MODULE MCX86Smp ------------------------------
(***************************************************************************)
(* Instances for TLC of what CPUs of x86 do with interrupts: the calls of  *)
(* X86Smp, the tests of the two interrupt controllers, and those of the    *)
(* interrupts of Hyper-V.  A program does one of these at a time, and so   *)
(* does a behaviour.                                                       *)
(***************************************************************************)
EXTENDS X86Smp

VARIABLES
    part,
    ioapic, program, m_at, handler, if_flag, count, rips, g_tmr_79, tmr_before, cpu1, io_hw,
    io_failed,
    l_apic, x2, prog, a_at, mode, ids, ops, away, lvt, tmict, tmcct, pc0, pc1, c0, c1, nmi, in_nmi,
    ipi, nmi_received, nmi_flushed, nmi_done, nmi_private, nmi_counter, nmi_hlt_counter,
    sti_loop_active, a_failed,
    hypervisor, synic, c_test, c_i, c_pc, fn, ncpus_done, enabled, post, slot, flag,
    hvcall_status, sint_received, posted, retry, c_irr, reports,
    t_hypervisor, supported, op, t_isr, message, timer, waits, left, fire_count, requests,
    inservice, on, ok, stale,
    controller, s_pc, s_i, sent, routes, s_irr, s_isr, isr_enter_count, passed

-----------------------------------------------------------------------------
(* The variables of each part. *)

ioapicTest == <<ioapic, program, m_at, handler, if_flag, count, rips, g_tmr_79, tmr_before, cpu1,
                io_hw, io_failed>>
apicTest == <<l_apic, x2, prog, a_at, mode, ids, ops, away, lvt, tmict, tmcct, pc0, pc1, c0, c1,
              nmi, in_nmi, ipi, nmi_received, nmi_flushed, nmi_done, nmi_private, nmi_counter,
              nmi_hlt_counter, sti_loop_active, a_failed>>
connections == <<hypervisor, synic, c_test, c_i, c_pc, fn, ncpus_done, enabled, post, slot, flag,
                 hvcall_status, sint_received, posted, retry, c_irr, reports>>
stimer == <<t_hypervisor, supported, op, t_isr, message, timer, waits, left, fire_count, requests,
            inservice, on, ok, stale>>
sints == <<controller, s_pc, s_i, sent, routes, s_irr, s_isr, isr_enter_count, passed>>

-----------------------------------------------------------------------------
(* The instances and their bounds. *)

IoA == INSTANCE IoApic
       WITH hw <- io_hw, Smp <- TRUE,
            IoApics <- {"none", "no tmr", "tmr sticks", "masked edge kept", "no coalescing",
                        "no level on unmask", "remote irr stays", "no retrigger", "lowest first",
                        "version writable", "id wide", "arb apart", "arb writable"}

Local == INSTANCE ApicTest
         WITH apic <- l_apic, Rounds <- 2, Tmict <- 18, Pace <- 2,
              Apics <- {"none", "reserved bits", "invalid mode", "unsupported", "x2 to x",
                        "off to x2", "keeps id", "x2 id", "mmio when off", "x2 broadcast",
                        "no reload", "oneshot reloads", "mode clears", "mode restarts",
                        "version", "late self ipi", "no self ipi", "early irq", "no timer irq",
                        "no deadline irq", "deadline kept"}

Synic == INSTANCE HvSynic
         WITH NCpus <- 3, test <- c_test, i <- c_i, pc <- c_pc, irr <- c_irr,
              Hypervisors <- {"none", "overwrites", "drops", "no retry", "silent", "sender",
                              "event again"},
              SintCount <- 4, AutoEoi <- {1, 3}, Controllers <- {"none", "no auto eoi"}

Stimer == INSTANCE HvTimer
          WITH Fires <- 3, MaxLate <- 1, isr <- t_isr,
               Hypervisors <- {"none", "overwrites", "no retry", "no mark", "no auto eoi",
                              "bad type", "bad size", "bad index"}

\* Asynchronous functions on CPU 1 call every CPU.
MayCallFromOne == {<<1, 0>>, <<1, 1>>, <<1, 2>>}

-----------------------------------------------------------------------------
(* The part that runs starts in any of its initial states, the others in   *)
(* one of theirs, where they stay.                                         *)

SmpInit ==
    /\ part \in {"calls", "ioapic", "apic", "connections", "stimer", "synic"}
    /\ Init
    /\ IoA!Init /\ (part # "ioapic" => ioapic = "none")
    /\ Local!Init /\ (part # "apic" => l_apic = "none" /\ x2)
    /\ Synic!ConnInit /\ (part # "connections" => hypervisor = "none" /\ synic = "none")
    /\ Stimer!Init /\ (part # "stimer" => t_hypervisor = "none" /\ ~supported)
    /\ Synic!SintInit /\ (part # "synic" => controller = "none")

SmpNext ==
    /\ UNCHANGED part
    /\ IF part = "calls" THEN Next ELSE UNCHANGED vars
    /\ IF part = "ioapic" THEN IoA!Next ELSE UNCHANGED ioapicTest
    /\ IF part = "apic" THEN Local!Next ELSE UNCHANGED apicTest
    /\ IF part = "connections" THEN Synic!ConnNext ELSE UNCHANGED connections
    /\ IF part = "stimer" THEN Stimer!Next ELSE UNCHANGED stimer
    /\ IF part = "synic" THEN Synic!SintNext ELSE UNCHANGED sints

SmpSpec == SmpInit /\ [][SmpNext]_<<part, vars, ioapicTest, apicTest, connections, stimer, sints>>

-----------------------------------------------------------------------------
\* The tests of ioapic.c and of apic.c accept a controller that is right and
\* report one that is not, whichever CPU is ahead: see IoApic and ApicTest.
IoApicVerdict == part = "ioapic" => IoA!IoApicVerdict
ApicVerdict == part = "apic" => Local!ApicVerdict

\* The three tests of Hyper-V's messages and interrupts (hyperv_connections.c,
\* hyperv_stimer.c, hyperv_synic.c) do so in every order of messages,
\* interrupts and calls: see HvSynic and HvTimer.
HyperVVerdict ==
    /\ part = "connections" => Synic!ConnVerdict
    /\ part = "stimer" => Stimer!TimerVerdict
    /\ part = "synic" => Synic!SynicVerdict
=============================================================================
