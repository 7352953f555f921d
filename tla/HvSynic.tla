-------------------------------- MODULE HvSynic --------------------------------
(***************************************************************************)
(* Two tests of the synthetic interrupt controller of Hyper-V, with        *)
(* x86/hyperv.c under them.                                                *)
(*                                                                         *)
(* x86/hyperv_connections.c: messages and events that the CPUs send each   *)
(* other through the hypervisor.  main (on CPU 0) starts a function on     *)
(* every CPU with on_cpu_async, waits for ncpus_done, waits WAIT_CYCLES,   *)
(* and judges.  The functions run at the same time, in handlers with       *)
(* interrupts off except on CPU 0.  The hypervisor (external) delivers a   *)
(* posted message some time after the hypercall returned, and may have one *)
(* of the defects that the tests look for.                                 *)
(*                                                                         *)
(* x86/hyperv_synic.c: every CPU raises all the synthetic interrupts of    *)
(* its opposite CPU and waits until it has counted them.  main calls       *)
(* synic_test on each CPU with on_cpu_async; on CPU 0 it runs at once, so  *)
(* that the others are not called before it ends.  The vectors are of one  *)
(* priority class: none is taken while one is in service, and an auto-EOI  *)
(* vector is never in service.  The interrupt controller is external and   *)
(* may be defective.                                                       *)
(***************************************************************************)
EXTENDS Naturals, Sequences

CONSTANTS
    NCpus,
    Hypervisors,    \* defects; "none" is one
    SintCount, AutoEoi,
    Controllers     \* defects; "none" is one

CPU == 0..NCpus - 1

VARIABLES
    hypervisor, synic,      \* its defect; what it supports
    test, i, pc,            \* main: the call of run_test, the CPU it calls next
    fn,                     \* [CPU -> how far the function has come]
    ncpus_done,
    enabled,                \* [CPU -> SynIC and both connections set up]
    post,                   \* post_msg->payload of each CPU's connection
    slot,                   \* the message slot: type, payload, msg_pending
    flag,                   \* the event flag of the CPU's connection
    hvcall_status, sint_received,
    posted, retry,          \* hypervisor: a message that waits; try it (again)
    irr,                    \* an interrupt is pending, [CPU -> Nat]
    reports                 \* ncpus_ok = ncpus, for each report

connVars == <<hypervisor, synic, test, i, pc, fn, ncpus_done, enabled, post, slot, flag,
          hvcall_status, sint_received, posted, retry, irr, reports>>

NoMsg == [type |-> 0, payload |-> 0, pending |-> 0]

R(func, dst_add, wait, is_ok) == [func |-> func, dst_add |-> dst_add, wait |-> wait, is_ok |-> is_ok]

\* Mutant: the slot is not cleared between the first two tests.
RunTests_NoClear == <<
    R("do_msg", 0, TRUE, "msg_ok"), R("do_msg", 1, TRUE, "msg_ok"), R("do_msg", 1, TRUE, "msg_busy"),
    R("clear_msg", 0, TRUE, "msg_ok"), R("do_evt", 0, TRUE, "evt_ok")>>

RunTests == <<
    R("do_msg", 0, TRUE, "msg_ok"), R("clear_msg", 0, FALSE, "none"),
    R("do_msg", 1, TRUE, "msg_ok"), R("do_msg", 1, TRUE, "msg_busy"),
    R("clear_msg", 0, TRUE, "msg_ok"),
    R("do_evt", 0, TRUE, "evt_ok"), R("clear_evt", 0, FALSE, "none"),
    R("do_evt", 1, TRUE, "evt_ok"), R("do_evt", 1, TRUE, "evt_busy")>>

ConnInit ==
    /\ hypervisor \in Hypervisors /\ synic \in {"none", "sint", "connections"}
    /\ test = 1 /\ i = 0 /\ pc = "setup" /\ ncpus_done = 0 /\ reports = <<>>
    /\ fn = [c \in CPU |-> "idle"] /\ enabled = [c \in CPU |-> FALSE]
    /\ post = [c \in CPU |-> 0] /\ slot = [c \in CPU |-> NoMsg] /\ flag = [c \in CPU |-> FALSE]
    /\ hvcall_status = [c \in CPU |-> 0] /\ sint_received = [c \in CPU |-> 0]
    /\ posted = [c \in CPU |-> 0] /\ retry = [c \in CPU |-> FALSE] /\ irr = [c \in CPU |-> 0]

-----------------------------------------------------------------------------
(* main *)

main == <<hypervisor, synic, test, i, pc, reports>>
memory == <<enabled, post, slot, flag, hvcall_status, sint_received>>
host == <<posted, retry, irr>>

\* Without the SynIC, or when HVCALL_SIGNAL_EVENT is an invalid code, nothing
\* is tested (and the hypercall page stays).
Skip ==
    /\ pc = "setup" /\ i = 0 /\ synic # "connections"
    /\ pc' = "done"
    /\ UNCHANGED <<hypervisor, synic, test, i, fn, ncpus_done, memory, host, reports>>

\* What the payload of CPU c's connection starts from (vcpu << 16).
Base(c) == 16 * c

\* setup_cpu, one CPU after the other with on_cpu.
SetupCpu ==
    /\ pc = "setup" /\ synic = "connections" /\ i < NCpus
    /\ enabled' = [enabled EXCEPT ![i] = TRUE]
    /\ post' = [post EXCEPT ![i] = Base(i)]
    /\ IF i + 1 = NCpus THEN i' = 0 /\ pc' = "call" ELSE i' = i + 1 /\ UNCHANGED pc
    /\ UNCHANGED <<hypervisor, synic, test, fn, ncpus_done, slot, flag, hvcall_status,
                   sint_received, host, reports>>

\* on_cpu_async returns once the handler has begun, which it cannot while the
\* one before still runs; on main's own CPU the function runs at once.
Call ==
    /\ pc = "call" /\ i < NCpus /\ fn[i] = "idle" /\ fn[0] = "idle"
    /\ fn' = [fn EXCEPT ![i] = "begin"]
    /\ i' = i + 1
    /\ UNCHANGED <<hypervisor, synic, test, pc, ncpus_done, memory, host, reports>>

\* WAIT_CYCLES are enough for the hypervisor to deliver and for the CPUs to
\* take their interrupts.
Settled == \A c \in CPU : fn[c] = "idle" /\ irr[c] = 0 /\ ~(posted[c] > 0 /\ retry[c])

MsgIs(c, pending, payload, received) ==
    /\ slot[c].type = 1 /\ slot[c].pending = pending /\ slot[c].payload = payload
    /\ hvcall_status[c] = 0 /\ sint_received[c] = received
EvtIs(c, received) == flag[c] /\ hvcall_status[c] = 0 /\ sint_received[c] = received

IsOk(is_ok, c) ==
    \/ is_ok = "msg_ok" /\ MsgIs(c, 0, post[c], 1)
    \/ is_ok = "msg_busy" /\ MsgIs(c, 1, post[c] - 1, 0)
    \/ is_ok = "evt_ok" /\ EvtIs(c, 1)
    \/ is_ok = "evt_busy" /\ EvtIs(c, 0)

\* The end of run_test and the report after it.
Judge ==
    LET t == RunTests[test] IN
    /\ pc = "call" /\ i = NCpus /\ fn[0] = "idle" /\ ncpus_done = NCpus
    /\ t.wait => Settled
    /\ reports' = IF t.is_ok = "none" THEN reports
                  ELSE Append(reports, \A c \in CPU : IsOk(t.is_ok, c))
    /\ ncpus_done' = 0 /\ i' = 0
    /\ IF test < Len(RunTests) THEN test' = test + 1 /\ UNCHANGED pc
       ELSE pc' = "teardown" /\ UNCHANGED test
    /\ UNCHANGED <<hypervisor, synic, fn, memory, host>>

TeardownCpu ==
    /\ pc = "teardown" /\ fn[i] = "idle"
    /\ enabled' = [enabled EXCEPT ![i] = FALSE]
    /\ IF i + 1 = NCpus THEN pc' = "done" /\ UNCHANGED i ELSE i' = i + 1 /\ UNCHANGED pc
    /\ UNCHANGED <<hypervisor, synic, test, fn, ncpus_done, post, slot, flag, hvcall_status,
                   sint_received, host, reports>>

-----------------------------------------------------------------------------
(* The functions, on CPU c for the connection of CPU Dst(c). *)

Dst(c) == (c + RunTests[test].dst_add) % NCpus
Func(c, name, from) == fn[c] = from /\ RunTests[test].func = name

\* do_msg, do_evt: the counters, then the hypercall.
Begin(c) ==
    /\ Func(c, "do_msg", "begin") \/ Func(c, "do_evt", "begin")
    /\ post' = IF RunTests[test].func = "do_msg" THEN [post EXCEPT ![Dst(c)] = @ + 1] ELSE post
    /\ sint_received' = [sint_received EXCEPT ![Dst(c)] = 0]
    /\ fn' = [fn EXCEPT ![c] = "hypercall"]
    /\ UNCHANGED <<main, ncpus_done, enabled, slot, flag, hvcall_status, host>>

\* HVCALL_POST_MESSAGE: one message may wait; a second one is refused.
PostMessage(c) ==
    LET d == IF hypervisor = "sender" THEN c ELSE Dst(c)
        room == enabled[d] /\ posted[d] = 0 IN
    /\ Func(c, "do_msg", "hypercall")
    /\ hvcall_status' = [hvcall_status EXCEPT ![Dst(c)] = IF room THEN 0 ELSE 1]
    /\ posted' = IF room THEN [posted EXCEPT ![d] = post[Dst(c)]] ELSE posted
    /\ retry' = IF room THEN [retry EXCEPT ![d] = TRUE] ELSE retry
    /\ fn' = [fn EXCEPT ![c] = "end"]
    /\ UNCHANGED <<main, ncpus_done, enabled, post, slot, flag, sint_received, irr>>

\* HVCALL_SIGNAL_EVENT: an interrupt unless the flag is set already.
SignalEvent(c) ==
    LET d == Dst(c) IN
    /\ Func(c, "do_evt", "hypercall")
    /\ hvcall_status' = [hvcall_status EXCEPT ![d] = 0]
    /\ flag' = [flag EXCEPT ![d] = TRUE]
    /\ irr' = IF ~flag[d] \/ hypervisor = "event again" THEN [irr EXCEPT ![d] = 1] ELSE irr
    /\ fn' = [fn EXCEPT ![c] = "end"]
    /\ UNCHANGED <<main, ncpus_done, enabled, post, slot, sint_received, posted, retry>>

\* clear_msg releases the slot and writes EOM, by which the hypervisor tries
\* again; clear_evt clears the flag.
ClearMsg(c) ==
    /\ Func(c, "clear_msg", "begin")
    /\ sint_received' = [sint_received EXCEPT ![c] = 0]
    /\ slot' = [slot EXCEPT ![c].type = 0]
    /\ retry' = [retry EXCEPT ![c] = hypervisor # "no retry"]
    /\ fn' = [fn EXCEPT ![c] = "end"]
    /\ UNCHANGED <<main, ncpus_done, enabled, post, flag, hvcall_status, posted, irr>>

ClearEvt(c) ==
    /\ Func(c, "clear_evt", "begin")
    /\ sint_received' = [sint_received EXCEPT ![c] = 0]
    /\ flag' = [flag EXCEPT ![c] = FALSE]
    /\ fn' = [fn EXCEPT ![c] = "end"]
    /\ UNCHANGED <<main, ncpus_done, enabled, post, slot, hvcall_status, host>>

End(c) ==
    /\ fn[c] = "end"
    /\ ncpus_done' = ncpus_done + 1
    /\ fn' = [fn EXCEPT ![c] = "idle"]
    /\ UNCHANGED <<main, memory, host>>

\* sint_isr; both vectors are auto-EOI.
SintIsr(c) ==
    /\ irr[c] > 0 /\ (fn[c] = "idle" \/ c = 0)
    /\ irr' = [irr EXCEPT ![c] = 0]
    /\ sint_received' = [sint_received EXCEPT ![c] = @ + 1]
    /\ UNCHANGED <<main, fn, ncpus_done, enabled, post, slot, flag, hvcall_status, posted, retry>>

\* The hypervisor fills the slot of c, or marks that a message waits for it.
Deliver(c) ==
    LET free == slot[c].type = 0 \/ hypervisor = "overwrites"
        gone == free \/ hypervisor = "drops" IN
    /\ posted[c] > 0 /\ retry[c]
    /\ slot' = [slot EXCEPT ![c] =
                  IF free THEN [type |-> 1, payload |-> posted[c], pending |-> 0]
                  ELSE IF gone THEN @ ELSE [@ EXCEPT !.pending = 1]]
    /\ posted' = IF gone THEN [posted EXCEPT ![c] = 0] ELSE posted
    /\ retry' = [retry EXCEPT ![c] = FALSE]
    /\ irr' = IF free /\ hypervisor # "silent" THEN [irr EXCEPT ![c] = 1] ELSE irr
    /\ UNCHANGED <<main, fn, ncpus_done, enabled, post, flag, hvcall_status, sint_received>>

ConnNext ==
    \/ Skip \/ SetupCpu \/ Call \/ Judge \/ TeardownCpu
    \/ \E c \in CPU : \/ Begin(c) \/ PostMessage(c) \/ SignalEvent(c) \/ ClearMsg(c) \/ ClearEvt(c)
                      \/ End(c) \/ SintIsr(c) \/ Deliver(c)

ConnSpec == ConnInit /\ [][ConnNext]_connVars

-----------------------------------------------------------------------------
\* However the functions, handlers and deliveries interleave, every report is
\* PASS on a right hypervisor, main ends, and each defect fails a report.
ConnVerdict ==
    /\ hypervisor = "none" => \A k \in 1..Len(reports) : reports[k]
    /\ pc = "done" /\ synic = "connections" /\ hypervisor # "none" => \E k \in 1..Len(reports) : ~reports[k]
    /\ (ENABLED ConnNext) \/ pc = "done"

-----------------------------------------------------------------------------
(* hyperv_synic.c *)

Sints == 0..SintCount - 1

VARIABLES
    controller,         \* its defect
    s_pc, s_i,          \* main, and the CPU that it is at
    sent,               \* [CPU -> SINTs raised so far by synic_test], SintCount + 1: not running
    routes,             \* [CPU -> the SINTs that can be raised]
    s_irr, s_isr,       \* [CPU -> SINTs requested, in service]
    isr_enter_count,
    passed

sintVars == <<controller, s_pc, s_i, sent, routes, s_irr, s_isr, isr_enter_count, passed>>

Dest(c) == NCpus - 1 - c
NotRunning == SintCount + 1

SintInit ==
    /\ controller \in Controllers
    /\ s_pc = "prepare" /\ s_i = NCpus - 1 /\ sent = [c \in CPU |-> NotRunning]
    /\ routes = [c \in CPU |-> {}] /\ s_irr = [c \in CPU |-> {}] /\ s_isr = [c \in CPU |-> {}]
    /\ isr_enter_count = [c \in CPU |-> 0] /\ passed = FALSE

\* on_cpus(synic_test_prepare) and on_cpus(synic_test_cleanup): from the last
\* CPU to the first.
Prepare ==
    /\ s_pc = "prepare"
    /\ routes' = [routes EXCEPT ![s_i] = Sints]
    /\ IF s_i = 0 THEN s_pc' = "test" /\ UNCHANGED s_i ELSE s_i' = s_i - 1 /\ UNCHANGED s_pc
    /\ UNCHANGED <<controller, sent, s_irr, s_isr, isr_enter_count, passed>>

Cleanup ==
    /\ s_pc = "cleanup"
    /\ routes' = [routes EXCEPT ![s_i] = {}]
    /\ IF s_i = 0 THEN s_pc' = "report" /\ UNCHANGED s_i ELSE s_i' = s_i - 1 /\ UNCHANGED s_pc
    /\ UNCHANGED <<controller, sent, s_irr, s_isr, isr_enter_count, passed>>

CallTest ==
    /\ s_pc = "test" /\ s_i < NCpus /\ sent[0] = NotRunning
    /\ sent' = [sent EXCEPT ![s_i] = 0]
    /\ isr_enter_count' = [isr_enter_count EXCEPT ![Dest(s_i)] = 0]
    /\ s_i' = s_i + 1
    /\ UNCHANGED <<controller, s_pc, routes, s_irr, s_isr, passed>>

\* while (cpus_active() > 1)
Join ==
    /\ s_pc = "test" /\ s_i = NCpus /\ \A c \in CPU : sent[c] = NotRunning
    /\ s_pc' = "cleanup" /\ s_i' = NCpus - 1
    /\ UNCHANGED <<controller, sent, routes, s_irr, s_isr, isr_enter_count, passed>>

Report ==
    /\ s_pc = "report" /\ s_pc' = "done"
    /\ passed' = \A c \in CPU : isr_enter_count[c] = SintCount
    /\ UNCHANGED <<controller, s_i, sent, routes, s_irr, s_isr, isr_enter_count>>

\* synic_sint_set
SintSet(c) ==
    LET d == Dest(c) IN
    /\ sent[c] < SintCount
    /\ s_irr' = IF sent[c] \in routes[d] THEN [s_irr EXCEPT ![d] = @ \cup {sent[c]}] ELSE s_irr
    /\ sent' = [sent EXCEPT ![c] = @ + 1]
    /\ UNCHANGED <<controller, s_pc, s_i, routes, s_isr, isr_enter_count, passed>>

\* Mutant: the test does not wait for the last interrupts.
SintsCounted_Early(c) ==
    /\ sent[c] = SintCount
    /\ sent' = [sent EXCEPT ![c] = NotRunning]
    /\ UNCHANGED <<controller, s_pc, s_i, routes, s_irr, s_isr, isr_enter_count, passed>>

SintsCounted(c) ==
    /\ sent[c] = SintCount /\ isr_enter_count[Dest(c)] = SintCount
    /\ sent' = [sent EXCEPT ![c] = NotRunning]
    /\ UNCHANGED <<controller, s_pc, s_i, routes, s_irr, s_isr, isr_enter_count, passed>>

\* synic_sint_isr and synic_sint_auto_eoi_isr, up to the eoi().
IsrEnter(c, s) ==
    /\ s \in s_irr[c] /\ s_isr[c] = {} /\ \A x \in s_irr[c] : x <= s
    /\ s_irr' = [s_irr EXCEPT ![c] = @ \ {s}]
    /\ s_isr' = [s_isr EXCEPT ![c] = IF s \in AutoEoi /\ controller # "no auto eoi" THEN {} ELSE {s}]
    /\ isr_enter_count' = [isr_enter_count EXCEPT ![c] = @ + 1]
    /\ UNCHANGED <<controller, s_pc, s_i, sent, routes, passed>>

Eoi(c, s) ==
    /\ s \in s_isr[c] \ AutoEoi
    /\ s_isr' = [s_isr EXCEPT ![c] = {}]
    /\ UNCHANGED <<controller, s_pc, s_i, sent, routes, s_irr, isr_enter_count, passed>>

SintNext ==
    \/ Prepare \/ CallTest \/ Join \/ Cleanup \/ Report
    \/ \E c \in CPU : SintSet(c) \/ SintsCounted(c) \/ \E s \in Sints : IsrEnter(c, s) \/ Eoi(c, s)

SintSpec == SintInit /\ [][SintNext]_sintVars

-----------------------------------------------------------------------------
\* Every CPU counts each interrupt once, whoever sends while it waits itself:
\* the test ends and passes, and no interrupt is left when its route goes.  A
\* controller that keeps auto-EOI vectors in service never gets to PASS.
SynicVerdict ==
    /\ controller = "none" => (s_pc = "done" => passed) /\ (s_pc = "done" \/ ENABLED SintNext)
    /\ controller = "none" /\ s_pc = "cleanup" => \A c \in CPU : s_irr[c] = {}
    /\ controller = "no auto eoi" => ~passed
================================================================================
