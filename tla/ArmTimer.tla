------------------------------- MODULE ArmTimer -------------------------------
(***************************************************************************)
(* arm/timer.c: the virtual and the physical timer, their signal at the    *)
(* interrupt controller and the interrupt that changes the timer while the *)
(* test looks at it.                                                       *)
(*                                                                         *)
(* The compare value is "far" (10 s ahead), "past" or "soon" (10 ms        *)
(* ahead).  The machine is external and has at most one defect.            *)
(***************************************************************************)
EXTENDS Integers, Sequences, FiniteSets

CONSTANT Machines       \* defects; "none" is one

VARIABLES
    machine, no_ptimer, t_errata,   \* ptimer_unsupported; ERRATA(7b6b46311a85)
    info,               \* the timer under test: "v", "p", "end"
    t_pc,
    cval, ctl,          \* per timer
    due,                \* the counter has reached "soon"
    enabled,            \* timers whose PPI is enabled
    flying,             \* "taken" while the handler runs, else "none"; "over" once for a line that stays up
    irq_received,
    delay,              \* after_timer against the expected value
    t_reports

vars == <<machine, no_ptimer, t_errata, info, t_pc, cval, ctl, due, enabled, flying, irq_received, delay, t_reports>>
config == <<machine, no_ptimer, t_errata>>

Timers == {"v", "p"}

Has(d) == machine = d

-----------------------------------------------------------------------------
(* The timer and its line (external) *)

istatus(t) ==
    /\ "ENABLE" \in ctl[t]
    /\ cval[t] = "past" \/ (cval[t] = "soon" /\ (due \/ Has("early"))) \/ (Has("fires far") /\ cval[t] = "far")

\* GICD_ISPENDR; an enabled interrupt that is taken is not pending.
gic_timer_pending(t) == (istatus(t) /\ "IMASK" \notin ctl[t] /\ ~Has("no signal")) \/ Has("stuck signal")

Report(name, ok) == t_reports' = Append(t_reports, [name |-> name, timer |-> info, ok |-> ok])
Busy == flying = "taken"

-----------------------------------------------------------------------------
(* test_timer *)

\* test_init: the timers' interrupts and whether there is a physical timer.
test_init ==
    /\ t_pc = "init"
    /\ t_reports' = IF no_ptimer /\ t_errata THEN <<[name |-> "read", timer |-> "p", ok |-> FALSE]>> ELSE <<>>
    /\ t_pc' = "far"
    /\ UNCHANGED <<config, info, cval, ctl, due, enabled, flying, irq_received, delay>>

\* Mutant: the bit of the timer is written in both cases.
set_timer_irq_enabled_Always(t, on) == enabled' = enabled \union {t}

\* A write of 0 to ISENABLER clears nothing; a 1 sets.
set_timer_irq_enabled(t, on) == enabled' = IF on THEN enabled \union {t} ELSE enabled

\* set_timer_irq_enabled(false), later, ENABLE.
SetFar ==
    /\ t_pc = "far" /\ ~Busy
    /\ set_timer_irq_enabled(info, FALSE)
    /\ cval' = [cval EXCEPT ![info] = "far"] /\ ctl' = [ctl EXCEPT ![info] = {"ENABLE"}]
    /\ due' = FALSE /\ t_pc' = "not pending"
    /\ UNCHANGED <<config, info, flying, irq_received, delay, t_reports>>

ReportNotPending ==
    /\ t_pc = "not pending" /\ ~Busy
    /\ Report("not pending before", ~gic_timer_pending(info))
    /\ cval' = [cval EXCEPT ![info] = "past"] /\ t_pc' = "pending"
    /\ UNCHANGED <<config, info, ctl, due, enabled, flying, irq_received, delay>>

\* The report, then the timer is disabled and the interrupt enabled.
ReportPending ==
    /\ t_pc = "pending" /\ ~Busy
    /\ Report("interrupt signal pending", gic_timer_pending(info))
    /\ ctl' = [ctl EXCEPT ![info] = {}]
    /\ set_timer_irq_enabled(info, TRUE)
    /\ t_pc' = "soon"
    /\ UNCHANGED <<config, info, cval, due, flying, irq_received, delay>>

\* test_cval_10msec
SetSoon ==
    /\ t_pc = "soon" /\ ~Busy
    /\ cval' = [cval EXCEPT ![info] = "soon"] /\ ctl' = [ctl EXCEPT ![info] = {"ENABLE"}]
    /\ t_pc' = "wait"
    /\ UNCHANGED <<config, info, due, enabled, flying, irq_received, delay, t_reports>>

\* 10 ms pass.
Elapse ==
    /\ t_pc = "wait" /\ ~due /\ due' = TRUE
    /\ UNCHANGED <<config, info, t_pc, cval, ctl, enabled, flying, irq_received, delay, t_reports>>

\* ISTATUS is seen and the counter read; the handler may have run in between.
SeeIstatus ==
    /\ t_pc = "wait" /\ ~Busy /\ istatus(info) /\ ~Has("no ISTATUS")
    /\ delay' = IF ~due THEN "negative" ELSE IF Has("late") THEN "long" ELSE "short"
    /\ t_pc' = "latency"
    /\ UNCHANGED <<config, info, cval, ctl, due, enabled, flying, irq_received, t_reports>>

ReportLatency ==
    /\ t_pc = "latency" /\ ~Busy
    /\ Report("latency within 10 ms", delay = "short")
    /\ t_pc' = "received"
    /\ UNCHANGED <<config, info, cval, ctl, due, enabled, flying, irq_received, delay>>

\* The last report, the timer is disabled; test_ptimer follows test_vtimer.
ReportReceived ==
    /\ t_pc = "received" /\ ~Busy
    /\ Report("interrupt received", irq_received[info])
    /\ ctl' = [ctl EXCEPT ![info] = {}]
    /\ info' = IF info = "v" /\ ~no_ptimer THEN "p" ELSE "end"
    /\ t_pc' = IF info' = "p" THEN "far" ELSE "end"
    /\ UNCHANGED <<config, cval, due, enabled, flying, irq_received, delay>>

-----------------------------------------------------------------------------
(* irq_handler *)

\* The signal of an enabled interrupt reaches the CPU at some time while it is up.
TakeIrq(t) ==
    /\ flying = "none" /\ t \in enabled /\ gic_timer_pending(t) /\ t_pc # "end" /\ ~Has("no interrupt")
    /\ flying' = "taken" /\ irq_received' = [irq_received EXCEPT ![t] = TRUE]
    /\ ctl' = [ctl EXCEPT ![t] = {"ENABLE", "IMASK"}]
    /\ UNCHANGED <<config, info, t_pc, cval, due, enabled, delay, t_reports>>

\* The handler returns.  A line that stays up would come again without end; once is enough here.
ReturnIrq ==
    /\ Busy /\ flying' = IF Has("stuck signal") THEN "over" ELSE "none"
    /\ UNCHANGED <<config, info, t_pc, cval, ctl, due, enabled, irq_received, delay, t_reports>>

-----------------------------------------------------------------------------
\* main has returned, or the loop waits for an ISTATUS that does not come.
End == (t_pc = "end" \/ (t_pc = "wait" /\ Has("no ISTATUS"))) /\ UNCHANGED vars

Init ==
    /\ machine \in Machines /\ no_ptimer \in BOOLEAN /\ t_errata \in BOOLEAN
    /\ info = "v" /\ t_pc = "init" /\ cval = [t \in Timers |-> "far"] /\ ctl = [t \in Timers |-> {}] /\ due = FALSE
    /\ enabled = {} /\ flying = "none" /\ irq_received = [t \in Timers |-> FALSE] /\ delay = "short"
    /\ t_reports = <<>>

Next ==
    \/ test_init \/ SetFar \/ ReportNotPending \/ ReportPending \/ SetSoon \/ Elapse \/ SeeIstatus \/ ReportLatency
    \/ ReportReceived \/ (\E t \in Timers : TakeIrq(t)) \/ ReturnIrq \/ End

Spec == Init /\ [][Next]_vars

-----------------------------------------------------------------------------
Good == \A i \in 1..Len(t_reports) : t_reports[i].ok
Fails(name) == \E i \in 1..Len(t_reports) : t_reports[i].name = name /\ ~t_reports[i].ok

(* The timer test.  On a right machine only "interrupt received" can fail:  *)
(* ISTATUS can be seen before the interrupt gets to the CPU.  Although the  *)
(* write that is to disable the interrupt does nothing, no handler changes  *)
(* the timer while its signal is tested, and what it writes leaves ISTATUS  *)
(* set.  Each defect fails the report that is about it, except that an      *)
(* ISTATUS before its time does so only where the loop looks before the     *)
(* 10 ms are over.  A machine without physical timer fails "read" only if   *)
(* its erratum is said to be fixed.                                         *)
ArmTimerVerdict ==
    /\ \A i \in 1..Len(t_reports) : Has("none") /\ ~t_reports[i].ok => t_reports[i].name \in {"read", "interrupt received"}
    /\ Fails("read") => no_ptimer /\ t_errata
    /\ t_pc \in {"not pending", "pending"} /\ ~Busy => ctl[info] = {"ENABLE"}
    /\ Has("none") /\ t_pc \in {"latency", "received"} => istatus(info)
    /\ t_pc = "received" => (t_reports[Len(t_reports)].ok <=> due /\ ~Has("late"))
    /\ t_pc = "end" =>
        /\ Has("fires far") \/ Has("stuck signal") => Fails("not pending before")
        /\ Has("no signal") => Fails("interrupt signal pending")
        /\ Has("late") => Fails("latency within 10 ms")
        /\ Has("no interrupt") \/ Has("no signal") => Fails("interrupt received")
        /\ Len(t_reports) = (IF no_ptimer THEN 4 ELSE 8) + (IF no_ptimer /\ t_errata THEN 1 ELSE 0)

=============================================================================
