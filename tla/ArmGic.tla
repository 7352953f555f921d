-------------------------------- MODULE ArmGic --------------------------------
(***************************************************************************)
(* arm/gic.c and lib/arm/gic*.c: the test of inter-processor interrupts.   *)
(* The sender counts what the other CPUs acknowledged while their handlers *)
(* still run.                                                              *)
(*                                                                         *)
(* The interrupt controller is external and has at most one defect; an     *)
(* interrupt is taken at any time after it was sent.  What the handler     *)
(* reads from the IAR is "ok", "src" (another sender), "irq" (another      *)
(* number) or "spurious".                                                  *)
(***************************************************************************)
EXTENDS Integers, Sequences, FiniteSets, FiniteSetsExt

CONSTANTS
    NCpus,              \* nr_cpus
    Mpidrs,             \* cpus[]: sequences of [cluster, aff0], CPU 0 first
    Gics                \* defects; "none" is one

VARIABLES
    gic, version, mpidr,
    g_prog,             \* "ipi" or "active"
    on,                 \* CPUs behind ipi_enable
    ready,
    k, g_at,            \* the test; where the sender is in it
    acked, bad_sender, bad_irq, spurious,
    pending,            \* interrupts a CPU has not taken yet
    h,                  \* the handler of a CPU
    nr_pass, bad,       \* of check_acked
    slip,               \* a test was completed although a CPU was looked at before its handler had ended
    g_reports

vars == <<gic, version, mpidr, g_prog, on, ready, k, g_at, acked, bad_sender, bad_irq, spurious, pending, h, nr_pass, bad, slip, g_reports>>
config == <<gic, version, mpidr, g_prog>>
stats == <<acked, bad_sender, bad_irq, spurious>>

Cpus == 0..(NCpus - 1)

-----------------------------------------------------------------------------
(* Sending *)

cpumask_next(cpu, dest) == Min({c \in dest : c > cpu} \union {NCpus})

Cluster(cpu) == mpidr[cpu + 1].cluster
Aff0(cpu) == mpidr[cpu + 1].aff0

\* Mutant: the CPU of the next cluster is not given back to the outer loop.
Rollback_None(cpu) == cpu

\* --cpu, for the outer for_each_cpu to find it again.
Rollback(cpu) == cpu - 1

\* The writes of ICC_SGI1R_EL1: a target list for every run of CPUs of one cluster.
gicv3_ipi_send_mask(dest) ==
    LET peers[cpu \in 0..NCpus] ==          \* the inner loop, from cpu on
            IF Aff0(cpu) >= 16 THEN [tlist |-> {}, cpu |-> cpu]
            ELSE LET next == cpumask_next(cpu, dest) IN
                 IF next >= NCpus THEN [tlist |-> {Aff0(cpu)}, cpu |-> next]
                 ELSE IF Cluster(next) # Cluster(cpu) THEN [tlist |-> {Aff0(cpu)}, cpu |-> Rollback(next)]
                 ELSE [peers[next] EXCEPT !.tlist = @ \union {Aff0(cpu)}]
        writes[cpu \in 0..NCpus] ==
            IF cpu >= NCpus THEN {}
            ELSE {[cluster |-> Cluster(cpu), tlist |-> peers[cpu].tlist]} \union writes[cpumask_next(peers[cpu].cpu, dest)]
    IN writes[cpumask_next(-1, dest)]

gicv2_ipi_send_mask(dest) == dest \intersect 0..7

\* The CPUs that a mask reaches.
gic_ipi_send_mask(dest) ==
    IF version = 2 THEN gicv2_ipi_send_mask(dest)
    ELSE {c \in Cpus : \E w \in gicv3_ipi_send_mask(dest) : w.cluster = Cluster(c) /\ Aff0(c) \in w.tlist}

-----------------------------------------------------------------------------
(* The sender *)

Sender == IF g_prog = "ipi" THEN 1 ELSE 0
Tests == IF g_prog = "ipi" THEN <<"self", "target-list", "broadcast">> ELSE <<"self">>

\* The mask that a test expects to be acknowledged.
Mask == CASE Tests[k] = "self" -> {Sender} [] Tests[k] = "broadcast" -> Cpus \ {Sender}
          [] OTHER -> {c \in Cpus : c % 2 # Sender % 2}

\* Whom the test sends to: gic->ipi.send_self, gic_ipi_send_mask, gic->ipi.send_broadcast.
Sent ==
    CASE Tests[k] = "self" -> IF version = 2 THEN {Sender} ELSE gic_ipi_send_mask({Sender})
      [] Tests[k] = "broadcast" -> Cpus \ {Sender}
      [] OTHER -> gic_ipi_send_mask(Mask)

\* gic_enable_defaults, the handler, local_irq_enable.
ipi_enable(c) ==
    /\ c \notin on
    /\ on' = on \union {c}
    /\ UNCHANGED <<config, ready, k, g_at, stats, pending, h, nr_pass, bad, slip, g_reports>>

SetReady(c) ==
    /\ c \in on \ ready
    /\ ready' = ready \union {c}
    /\ UNCHANGED <<config, on, k, g_at, stats, pending, h, nr_pass, bad, slip, g_reports>>

Busy == h[Sender] # "idle"          \* the handler has interrupted the sender

\* wait_on_ready
WaitOnReady ==
    /\ g_at = "wait" /\ ready = (IF g_prog = "ipi" THEN Cpus ELSE {Sender})
    /\ g_at' = "reset"
    /\ UNCHANGED <<config, on, ready, k, stats, pending, h, nr_pass, bad, slip, g_reports>>

stats_reset ==
    /\ g_at = "reset" /\ ~Busy
    /\ acked' = [c \in Cpus |-> 0] /\ bad_sender' = [c \in Cpus |-> FALSE] /\ bad_irq' = [c \in Cpus |-> FALSE]
    /\ g_at' = "send"
    /\ UNCHANGED <<config, on, ready, k, spurious, pending, h, nr_pass, bad, slip, g_reports>>

\* The writes, and what the controller makes of them.
SendIpi ==
    /\ g_at = "send" /\ ~Busy
    /\ pending' = [c \in Cpus |->
        IF c \notin Sent THEN IF gic = "strays" /\ c = Max(Cpus) THEN Append(pending[c], "ok") ELSE pending[c]
        ELSE CASE gic = "drops" /\ c = Max(Cpus) -> pending[c]
               [] gic = "duplicates" -> pending[c] \o <<"ok", "ok">>
               [] gic \in {"src", "irq", "spurious"} -> pending[c] \o (IF gic = "spurious" THEN <<gic, "ok">> ELSE <<gic>>)
               [] OTHER -> Append(pending[c], "ok")]
    /\ g_at' = "check" /\ nr_pass' = <<>> /\ bad' = FALSE
    /\ UNCHANGED <<config, on, ready, k, stats, h, slip, g_reports>>

NextTest(ok) ==
    /\ g_reports' = Append(g_reports, ok)
    /\ k' = k + 1
    /\ g_at' = IF k = Len(Tests) THEN "end" ELSE "reset"

RightCount(c) == acked[c] = IF c \in Mask THEN 1 ELSE 0

\* check_acked looks at one CPU; nr_pass holds what this round found.  A round behind the last CPU
\* reports or begins again.
check_acked ==
    /\ g_at = "check" /\ ~Busy
    /\ IF Len(nr_pass) < NCpus
       THEN LET c == Len(nr_pass) IN
            /\ nr_pass' = Append(nr_pass, IF ~RightCount(c) THEN "wrong" ELSE IF pending[c] # <<>> THEN "early" ELSE "right")
            /\ bad' = (bad \/ bad_sender[c] \/ bad_irq[c])
            /\ UNCHANGED <<slip, k, g_at, g_reports>>
       ELSE IF \A i \in 1..NCpus : nr_pass[i] # "wrong"
       THEN /\ NextTest(~bad)
            /\ slip' = (slip \/ \E i \in 1..NCpus : nr_pass[i] = "early")
            /\ UNCHANGED <<nr_pass, bad>>
       ELSE nr_pass' = <<>> /\ UNCHANGED <<bad, slip, k, g_at, g_reports>>
    /\ UNCHANGED <<config, on, ready, stats, pending, h>>

\* The 50th round.  Only a slow controller still has interrupts on the way after 5 s; with another, the rounds before
\* have seen the counts as they are.
TimedOut ==
    /\ g_at = "check" /\ ~Busy /\ Len(nr_pass) = NCpus /\ \E i \in 1..NCpus : nr_pass[i] = "wrong"
    /\ gic # "slow" => (\A c \in Cpus : pending[c] = <<>> /\ h[c] = "idle") /\ (\E c \in Cpus : ~RightCount(c))
    /\ NextTest(FALSE)
    /\ UNCHANGED <<config, on, ready, stats, pending, h, nr_pass, bad, slip>>

-----------------------------------------------------------------------------
(* ipi_handler and ipi_clear_active_handler, in steps: the count, then the *)
(* note of a wrong sender or number.                                       *)

HandlerIar(c) ==
    /\ c \in on /\ pending[c] # <<>> /\ h[c] = "idle" /\ g_at # "end"
    /\ IF Head(pending[c]) = "spurious"
       THEN /\ spurious' = [spurious EXCEPT ![c] = @ + 1]
            /\ pending' = [pending EXCEPT ![c] = Tail(@)]
            /\ UNCHANGED h
       ELSE h' = [h EXCEPT ![c] = "count"] /\ UNCHANGED <<spurious, pending>>
    /\ UNCHANGED <<config, on, ready, k, g_at, acked, bad_sender, bad_irq, nr_pass, bad, slip, g_reports>>

HandlerCount(c) ==
    /\ h[c] = "count"
    /\ acked' = [acked EXCEPT ![c] = @ + 1]
    /\ h' = [h EXCEPT ![c] = "note"]
    /\ UNCHANGED <<config, on, ready, k, g_at, bad_sender, bad_irq, spurious, pending, nr_pass, bad, slip, g_reports>>

\* check_ipi_sender, for version 2 and not in the "active" test, and check_irqnr.
HandlerNote(c) ==
    /\ h[c] = "note"
    /\ bad_sender' = [bad_sender EXCEPT ![c] = @ \/ (Head(pending[c]) = "src" /\ version = 2 /\ g_prog = "ipi")]
    /\ bad_irq' = [bad_irq EXCEPT ![c] = @ \/ Head(pending[c]) = "irq"]
    /\ pending' = [pending EXCEPT ![c] = Tail(@)]
    /\ h' = [h EXCEPT ![c] = "idle"]
    /\ UNCHANGED <<config, on, ready, k, g_at, acked, spurious, nr_pass, bad, slip, g_reports>>

-----------------------------------------------------------------------------
\* exit(report_summary())
End == g_at = "end" /\ UNCHANGED vars

Init ==
    /\ gic \in Gics /\ version \in {2, 3} /\ mpidr \in Mpidrs /\ g_prog \in {"ipi", "active"}
    /\ (version = 2 \/ gic # "none") => mpidr = [i \in 1..NCpus |-> [cluster |-> 0, aff0 |-> i - 1]]
    /\ on = {} /\ ready = {} /\ k = 1 /\ g_at = "wait" /\ nr_pass = <<>> /\ bad = FALSE /\ slip = FALSE /\ g_reports = <<>>
    /\ acked = [c \in Cpus |-> 0] /\ spurious = [c \in Cpus |-> 0]
    /\ bad_sender = [c \in Cpus |-> FALSE] /\ bad_irq = [c \in Cpus |-> FALSE]
    /\ pending = [c \in Cpus |-> <<>>] /\ h = [c \in Cpus |-> "idle"]

Next ==
    \/ \E c \in IF g_prog = "ipi" THEN Cpus ELSE {Sender} : ipi_enable(c) \/ SetReady(c)
    \/ \E c \in Cpus : HandlerIar(c) \/ HandlerCount(c) \/ HandlerNote(c)
    \/ WaitOnReady \/ stats_reset \/ SendIpi \/ check_acked \/ TimedOut \/ End

Spec == Init /\ [][Next]_vars

-----------------------------------------------------------------------------
Passed == g_at = "end" /\ \A i \in 1..Len(g_reports) : g_reports[i]

(* The interrupt test of arm/gic.c.  A mask reaches exactly its CPUs whose  *)
(* Aff0 fits a target list, however the clusters lie in it.  An interrupt   *)
(* is sent only to CPUs that have enabled theirs.  On a right controller    *)
(* the reports are good where every CPU of the mask can be reached.  A lost *)
(* interrupt fails the test; so does one too many, unless it is taken after *)
(* the check, a wrong number or, with version 2, a wrong sender, unless the *)
(* check falls between the handler's count and its note.  Nothing is seen   *)
(* of a wrong sender with version 3.                                        *)
GicVerdict ==
    /\ version = 3 /\ g_at = "wait" => \A m \in SUBSET Cpus : gic_ipi_send_mask(m) = {c \in m : Aff0(c) < 16}
    /\ gic # "strays" => \A c \in Cpus : pending[c] # <<>> => c \in on
    /\ gic \in {"none", "spurious"} => \A i \in 1..Len(g_reports) :
        g_reports[i] <=> (version = 2 \/ \A c \in {d \in Cpus : Aff0(d) >= 16} :
                            CASE Tests[i] = "self" -> c # Sender [] Tests[i] = "broadcast" -> TRUE [] OTHER -> c % 2 = Sender % 2)
    /\ gic = "drops" /\ g_prog = "ipi" => ~Passed
    /\ Passed /\ ~slip => gic \notin {"irq", "duplicates"} /\ (g_prog = "ipi" => gic # "strays" /\ (gic = "src" => version = 3))
    /\ gic = "src" /\ version = 3 /\ g_at = "end" => Passed
    /\ \A c \in Cpus : acked[c] > 1 => gic \in {"duplicates", "strays", "slow"}

=============================================================================
