------------------------------ MODULE MCArmSmp ------------------------------
(***************************************************************************)
(* Instances for TLC of the code that arm runs: the secondary CPUs and the *)
(* calls of ArmSmp, the tests of the interrupt controller, of PSCI and of  *)
(* the timer, and the virtio console that a test exits through.  A         *)
(* behaviour runs one of these.                                            *)
(***************************************************************************)
EXTENDS ArmSmp, ArmPsci, Virtio

CONSTANT Parts

VARIABLES
    part,
    gic, version, mpidr, g_prog, on, ready, k, g_at, acked, bad_sender, bad_irq, spurious,
    pending, h, nr_pass, bad, slip, g_reports,
    machine, no_ptimer, t_errata, info, t_pc, cval, ctl, due, enabled, flying, irq_received,
    delay, t_reports

-----------------------------------------------------------------------------
(* The variables of each part. *)

gicTest == <<gic, version, mpidr, g_prog, on, ready, k, g_at, acked, bad_sender, bad_irq,
             spurious, pending, h, nr_pass, bad, slip, g_reports>>
armTimer == <<machine, no_ptimer, t_errata, info, t_pc, cval, ctl, due, enabled, flying,
              irq_received, delay, t_reports>>

-----------------------------------------------------------------------------
(* The instances and their bounds. *)

\* Three CPUs in one cluster, in two, in two by turns, and with one that a
\* target list of 16 bits cannot name.
Core(cluster, aff0) == [cluster |-> cluster, aff0 |-> aff0]
MCMpidrs == {
    <<Core(0, 0), Core(0, 1), Core(0, 2)>>,
    <<Core(0, 0), Core(0, 1), Core(1, 0)>>,
    <<Core(0, 0), Core(1, 0), Core(0, 1)>>,
    <<Core(0, 17), Core(0, 1), Core(1, 0)>>,
    <<Core(0, 0), Core(0, 17), Core(0, 1)>>,
    <<Core(0, 0), Core(1, 1), Core(0, 17)>>}

Gic == INSTANCE ArmGic
       WITH NCpus <- 3, Mpidrs <- MCMpidrs,
            Gics <- {"none", "drops", "strays", "duplicates", "src", "irq", "spurious", "slow"}

Timer == INSTANCE ArmTimer
         WITH Machines <- {"none", "early", "late", "fires far", "no signal", "stuck signal",
                           "no ISTATUS", "no interrupt"}

MCNodes == {<<"other", "bad magic">>, <<"bad magic", "console", "other">>}

\* main() on CPU 0 boots the others or calls them, one by one or all.
FromMain == [mayCall |-> {<<0, t>> : t \in CPU}, kinds |-> {"async", "sync"}, mayOnCpus |-> {0},
             mayBoot |-> TRUE, cpu0Idles |-> FALSE, max |-> 2]

\* Each CPU calls the next one, and CPU 0 idles as well.
Ring == [mayCall |-> {<<c, (c + 1) % N>> : c \in CPU}, kinds |-> {"async", "sync"}, mayOnCpus |-> {},
         mayBoot |-> FALSE, cpu0Idles |-> TRUE, max |-> 3]

\* Two CPUs call a third.
Two == [mayCall |-> {<<0, 1>>, <<0, 2>>, <<1, 2>>}, kinds |-> {"async"}, mayOnCpus |-> {},
        mayBoot |-> FALSE, cpu0Idles |-> FALSE, max |-> 3]

OneCallerPerTarget == {FromMain, Ring}
TwoCallers == {Two}

-----------------------------------------------------------------------------
(* The part that runs starts in any of its initial states, the others in   *)
(* one of theirs, where they stay.                                         *)

ArmInit ==
    /\ part \in Parts
    /\ Init /\ (part # "smp" => prog = CHOOSE p \in Programs : TRUE)
    /\ Gic!Init
    /\ part # "gic" => gic = "none" /\ version = 2 /\ g_prog = "ipi"
    /\ PsciInit /\ (part # "psci" => firmware = "none" /\ errata)
    /\ Timer!Init /\ (part # "timer" => machine = "none" /\ no_ptimer /\ t_errata)
    /\ RingInit /\ (part # "virtio" => device = "sync" /\ Len(node) = 2)

\* A step of one part leaves the others alone.
Calling(A) == part = "smp" /\ A /\ UNCHANGED <<part, gicTest, psciVars, armTimer, ringVars>>

Testing(p, A) == part = p /\ A /\ UNCHANGED <<part, vars>>

ArmNext ==
    \/ Calling(Next)
    \/ Testing("gic", Gic!Next) /\ UNCHANGED <<psciVars, armTimer, ringVars>>
    \/ Testing("psci", PsciNext) /\ UNCHANGED <<gicTest, armTimer, ringVars>>
    \/ Testing("timer", Timer!Next) /\ UNCHANGED <<gicTest, psciVars, ringVars>>
    \/ Testing("virtio", RingNext) /\ UNCHANGED <<gicTest, psciVars, armTimer>>

all == <<part, vars, gicTest, psciVars, armTimer, ringVars>>

\* The fairness of ArmSmp: every CPU that is not asleep runs.
ArmSpec == ArmInit /\ [][ArmNext]_all /\ \A c \in CPU : WF_all(Calling(Run(c)))

-----------------------------------------------------------------------------
\* Under fairness every function that is handed to a CPU runs, unless the
\* test exits.
CallsEnd == part = "smp" => CallsComplete

\* The tests of arm/gic.c and arm/timer.c accept a machine that is right and
\* report one that is not, see ArmGic and ArmTimer.
ArmVerdict ==
    /\ part = "gic" => Gic!GicVerdict
    /\ part = "timer" => Timer!ArmTimerVerdict
=============================================================================
