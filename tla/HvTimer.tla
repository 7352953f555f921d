-------------------------------- MODULE HvTimer --------------------------------
(***************************************************************************)
(* x86/hyperv_stimer.c on one CPU: synthetic timers whose expirations come *)
(* as messages in slots that the hypervisor and the guest share.           *)
(*                                                                         *)
(* The CPUs share nothing but the page allocator.  stimer_test is a        *)
(* sequence of operations; the handler walks all the slots.  The           *)
(* hypervisor (external) looks at a slot and writes it in one step, and a  *)
(* pending interrupt is taken before the guest's next instruction.  It may *)
(* have one of the defects that the test looks for.                        *)
(***************************************************************************)
EXTENDS Naturals, Sequences

CONSTANTS Hypervisors,  \* defects; "none" is one
          Fires,        \* expirations that a periodic test waits for (1000 in the code)
          MaxLate       \* bound: expirations of a started timer beyond those

Sint == {1, 2}      \* SINT1_NUM, and SINT2_NUM, which is auto-EOI
Timer == {1, 2}     \* timer[0] and timer[1]

VARIABLES
    t_hypervisor, supported,
    op,             \* the operation of stimer_test that is next
    isr,            \* the handler: <<>>, or <<SINT, slot, "msg", "eom" or "abort">>
    message,        \* [Sint -> [type, sized (the payload is long enough), timer (its index), pending]]
    timer,          \* [Timer -> [on, periodic, auto, sint, count]]: the MSRs
    waits,          \* timers whose message waits for a slot
    left,           \* [Timer -> expirations before the bound]
    fire_count,
    requests, inservice,    \* interrupts requested, in service
    on,             \* the SynIC is enabled
    ok,             \* no report has failed
    stale           \* history: the slot was marked before the busy test began

vars == <<t_hypervisor, supported, op, isr, message, timer, waits, left, fire_count, requests,
          inservice, on, ok, stale>>
world == <<t_hypervisor, supported>>

Op(name, t, a, p, s) == [op |-> name, t |-> t, auto |-> a, periodic |-> p, sint |-> s]
Start(t, a, p, s) ==
    IF a THEN <<Op("reset", t, a, p, s), Op("config", t, a, p, s), Op("count", t, a, p, s)>>
    ELSE <<Op("reset", t, a, p, s), Op("count", t, a, p, s), Op("config", t, a, p, s)>>
Wait(t, n) == <<[op |-> "wait", t |-> t, n |-> n]>>
Shutdown(t) == <<[op |-> "shutdown", t |-> t]>>
Do(name) == <<[op |-> name]>>

StimerTestPeriodic ==
    Start(1, FALSE, TRUE, 1) \o Start(2, FALSE, TRUE, 2) \o Wait(1, Fires) \o Wait(2, Fires)
    \o Shutdown(1) \o Shutdown(2)
StimerTestOneShot(t, auto) == Start(t, auto, FALSE, 1) \o Wait(t, 1) \o Shutdown(t)
StimerTestAutoEnablePeriodic == Start(1, TRUE, TRUE, 1) \o Wait(1, Fires) \o Shutdown(1)
StimerTestOneShotBusy ==
    Do("busy") \o Start(1, FALSE, FALSE, 1) \o Do("pending") \o Do("report") \o Do("release")
    \o Do("eom") \o Wait(1, 1) \o Shutdown(1)

StimerTest ==
    Do("enable") \o StimerTestPeriodic \o StimerTestOneShot(1, FALSE) \o StimerTestOneShot(2, TRUE)
    \o StimerTestAutoEnablePeriodic \o StimerTestOneShotBusy
    \o Shutdown(1) \o Shutdown(2) \o Do("disable")

Empty == [type |-> "none", sized |-> TRUE, timer |-> 1, pending |-> FALSE]
Off == [on |-> FALSE, periodic |-> FALSE, auto |-> FALSE, sint |-> 1, count |-> 0]

Init ==
    /\ t_hypervisor \in Hypervisors /\ supported \in BOOLEAN
    /\ op = IF supported THEN 1 ELSE Len(StimerTest) + 1
    /\ isr = <<>> /\ message = [s \in Sint |-> Empty] /\ timer = [t \in Timer |-> Off]
    /\ waits = {} /\ left = [t \in Timer |-> 0] /\ fire_count = [t \in Timer |-> 0]
    /\ requests = {} /\ inservice = {} /\ on = FALSE /\ ok = TRUE /\ stale = FALSE

-----------------------------------------------------------------------------
(* Hypervisor *)

\* The vectors are of one priority class: none is taken while one is in service.
Deliverable == IF inservice = {} THEN requests ELSE {}

\* Message of timer t: into its slot, or it waits and the slot is marked.
Delivered(t, msgs) ==
    LET s == timer[t].sint IN
    IF msgs[s].type = "none" \/ t_hypervisor = "overwrites"
    THEN [msgs EXCEPT ![s] = [type |-> IF t_hypervisor = "bad type" THEN "other" ELSE "expired",
                              sized |-> t_hypervisor # "bad size",
                              timer |-> IF t_hypervisor = "bad index" THEN 0 ELSE t, pending |-> FALSE]]
    ELSE [msgs EXCEPT ![s].pending = t_hypervisor # "no mark"]
Fits(t, msgs) == msgs[timer[t].sint].type = "none" \/ t_hypervisor = "overwrites"

Expire(t) ==
    /\ timer[t].on /\ timer[t].count > 0 /\ t \notin waits /\ left[t] > 0
    /\ message' = Delivered(t, message)
    /\ IF Fits(t, message) THEN requests' = requests \cup {timer[t].sint} /\ UNCHANGED waits
       ELSE waits' = waits \cup {t} /\ UNCHANGED requests
    /\ timer' = [timer EXCEPT ![t].on = timer[t].periodic]
    /\ left' = [left EXCEPT ![t] = @ - 1]
    /\ UNCHANGED <<world, op, isr, fire_count, inservice, on, ok, stale>>

\* EOM: the messages that wait are tried again, one for each free slot.
Eom ==
    LET go == {t \in waits : Fits(t, message) /\ t_hypervisor # "no retry"}
        slots == {timer[t].sint : t \in go}
        first(s) == CHOOSE t \in go : timer[t].sint = s IN
    /\ message' = [s \in Sint |-> IF s \in slots THEN Delivered(first(s), message)[s] ELSE message[s]]
    /\ waits' = waits \ {first(s) : s \in slots}
    /\ requests' = requests \cup slots

-----------------------------------------------------------------------------
(* Handler: stimer_isr and stimer_isr_auto_eoi *)

IsrEnter(s) ==
    /\ isr = <<>> /\ s \in Deliverable /\ on
    /\ requests' = requests \ {s}
    /\ inservice' = IF s = 2 /\ t_hypervisor # "no auto eoi" THEN inservice ELSE {s}
    /\ isr' = <<s, 1, "msg">>
    /\ UNCHANGED <<world, op, message, timer, waits, left, fire_count, on, ok, stale>>

\* What process_stimer_msg takes for an expiration: its type, the size of its payload, its index.
Expiration(m) == m.type = "expired" /\ m.sized /\ m.timer \in Timer

\* process_stimer_msg: count and release the slot, then look whether another
\* message waits for it.
ProcessMsg ==
    /\ isr # <<>> /\ isr[3] = "msg" /\ isr[2] \in Sint
    /\ LET m == message[isr[2]] IN
        \/ /\ m.type = "none"
           /\ isr' = [isr EXCEPT ![2] = @ + 1] /\ UNCHANGED <<message, fire_count>>
        \/ /\ Expiration(m)
           /\ fire_count' = [fire_count EXCEPT ![m.timer] = @ + 1]
           /\ message' = [message EXCEPT ![isr[2]].type = "none"]
           /\ isr' = [isr EXCEPT ![3] = "eom"]
    /\ UNCHANGED <<world, op, timer, waits, left, requests, inservice, on, ok, stale>>

\* Any other message is a failed report, the summary and abort().
AbortMsg ==
    /\ isr # <<>> /\ isr[3] = "msg" /\ isr[2] \in Sint
    /\ message[isr[2]].type # "none" /\ ~Expiration(message[isr[2]])
    /\ ok' = FALSE /\ isr' = [isr EXCEPT ![3] = "abort"]
    /\ UNCHANGED <<world, op, message, timer, waits, left, fire_count, requests, inservice, on, stale>>

\* Mutant: the handler does not tell the hypervisor that the slot is free.
MsgPending_Silent ==
    /\ isr # <<>> /\ isr[3] = "eom"
    /\ isr' = <<isr[1], isr[2] + 1, "msg">>
    /\ UNCHANGED <<world, message, waits, requests, op, timer, left, fire_count, inservice, on, ok, stale>>

MsgPending ==
    /\ isr # <<>> /\ isr[3] = "eom"
    /\ IF message[isr[2]].pending THEN Eom ELSE UNCHANGED <<message, waits, requests>>
    /\ isr' = <<isr[1], isr[2] + 1, "msg">>
    /\ UNCHANGED <<world, op, timer, left, fire_count, inservice, on, ok, stale>>

IsrLeave ==
    /\ isr # <<>> /\ isr[2] \notin Sint /\ isr[3] = "msg"
    /\ inservice' = IF isr[1] = 1 THEN {} ELSE inservice
    /\ isr' = <<>>
    /\ UNCHANGED <<world, op, message, timer, waits, left, fire_count, requests, on, ok, stale>>

-----------------------------------------------------------------------------
(* stimer_test_prepare, stimer_test, stimer_test_cleanup *)

Is(name) == op <= Len(StimerTest) /\ StimerTest[op].op = name /\ isr = <<>>
            /\ (on => Deliverable = {}) /\ op' = op + 1
o == StimerTest[op]

\* synic_enable and synic_sint_create.
SynicEnable ==
    /\ Is("enable") /\ on' = TRUE
    /\ UNCHANGED <<world, isr, message, timer, waits, left, fire_count, requests, inservice, ok, stale>>

\* synic_sint_destroy and synic_disable; the pages are freed.
SynicDisable ==
    /\ Is("disable") /\ on' = FALSE /\ message' = [s \in Sint |-> Empty]
    /\ UNCHANGED <<world, isr, timer, waits, left, fire_count, requests, inservice, ok, stale>>

\* stimer_start: fire_count, then COUNT and CONFIG in the order that
\* auto_enable asks for; CONFIG has the ENABLE bit in both.
StimerReset ==
    /\ Is("reset")
    /\ fire_count' = [fire_count EXCEPT ![o.t] = 0]
    /\ UNCHANGED <<world, isr, message, timer, waits, left, requests, inservice, on, ok, stale>>

StimerConfig ==
    /\ Is("config")
    /\ timer' = [timer EXCEPT ![o.t] = [on |-> TRUE, periodic |-> o.periodic, auto |-> o.auto,
                                        sint |-> o.sint, count |-> @.count]]
    /\ waits' = waits \ {o.t}
    /\ left' = [left EXCEPT ![o.t] = IF o.periodic THEN Fires + MaxLate ELSE 1 + MaxLate]
    /\ UNCHANGED <<world, isr, message, fire_count, requests, inservice, on, ok, stale>>

StimerCount ==
    /\ Is("count")
    /\ timer' = [timer EXCEPT ![o.t].count = 1, ![o.t].on = @ \/ timer[o.t].auto]
    /\ waits' = waits \ {o.t}
    /\ UNCHANGED <<world, isr, message, left, fire_count, requests, inservice, on, ok, stale>>

StimerShutdown ==
    /\ Is("shutdown")
    /\ timer' = [timer EXCEPT ![o.t].on = FALSE, ![o.t].periodic = FALSE, ![o.t].auto = FALSE]
    /\ waits' = waits \ {o.t}
    /\ UNCHANGED <<world, isr, message, left, fire_count, requests, inservice, on, ok, stale>>

WaitFires ==
    /\ Is("wait") /\ fire_count[o.t] >= o.n
    /\ UNCHANGED <<world, isr, message, timer, waits, left, fire_count, requests, inservice, on, ok, stale>>

\* stimer_test_one_shot_busy: the slot of timer 1 is taken by hand, the
\* message must wait, and come once the slot is free again.
MsgBusy ==
    /\ Is("busy") /\ message' = [message EXCEPT ![timer[1].sint].type = "expired"]
    /\ stale' = message[timer[1].sint].pending
    /\ UNCHANGED <<world, isr, timer, waits, left, fire_count, requests, inservice, on, ok>>
AwaitPending ==
    /\ Is("pending") /\ message[timer[1].sint].pending
    /\ UNCHANGED <<world, isr, message, timer, waits, left, fire_count, requests, inservice, on, ok, stale>>
ReportNotFired ==
    /\ Is("report") /\ ok' = (ok /\ fire_count[1] = 0)
    /\ UNCHANGED <<world, isr, message, timer, waits, left, fire_count, requests, inservice, on, stale>>
MsgRelease ==
    /\ Is("release") /\ message' = [message EXCEPT ![timer[1].sint].type = "none"]
    /\ UNCHANGED <<world, isr, timer, waits, left, fire_count, requests, inservice, on, ok, stale>>
WriteEom ==
    /\ Is("eom") /\ Eom
    /\ UNCHANGED <<world, isr, timer, left, fire_count, inservice, on, ok, stale>>

Next ==
    \/ \E t \in Timer : Expire(t)
    \/ \E s \in Sint : IsrEnter(s)
    \/ ProcessMsg \/ AbortMsg \/ MsgPending \/ IsrLeave
    \/ SynicEnable \/ SynicDisable \/ StimerReset \/ StimerConfig \/ StimerCount \/ StimerShutdown \/ WaitFires
    \/ MsgBusy \/ AwaitPending \/ ReportNotFired \/ MsgRelease \/ WriteEom

Spec == Init /\ [][Next]_vars

-----------------------------------------------------------------------------
\* On a right hypervisor no report fails, stimer_test never waits for an
\* expiration, a mark or a message that does not come, and no mark is left for
\* the busy test, which would take it for its own.  On a defective one it waits
\* for ever or a report fails, in the test or, before abort(), in the handler,
\* unless such a mark is left.
TimerVerdict ==
    LET end == op = Len(StimerTest) + 1 IN
    /\ t_hypervisor = "none" => ok /\ ~stale /\ (end \/ ENABLED Next)
    /\ t_hypervisor # "none" /\ supported => ~(end /\ ok /\ ~stale)
=============================================================================
