------------------------------- MODULE ArmPsci -------------------------------
(***************************************************************************)
(* arm/psci.c and lib/arm/psci.c: the firmware calls, and the test in      *)
(* which all CPUs turn CPU 1 on at the same time while CPU 1 turns itself  *)
(* off again.                                                              *)
(*                                                                         *)
(* The firmware is external and has at most one defect.  Booting a CPU     *)
(* (smp_boot_secondary) is one step here; ArmSmp has its parts.            *)
(***************************************************************************)
EXTENDS Integers, FiniteSets

CONSTANTS
    PCpus,          \* nr_cpus, at least 2: with one, main skips all tests
    Firmwares       \* defects; "none" is one

ASSUME PCpusAssumption == PCpus \in Nat /\ PCpus >= 2

VARIABLES
    firmware, errata,
    p_main,         \* where CPU 0 is in main
    p_pc,           \* the other callers: "off", "ready", "spin", "call", "done", "idle"
    power,          \* CPU 1: "off", "on" (it runs cpu_psci_cpu_die), "stuck"
    cpu_on_ret, cpu_on_ready, cpu_on_done, cpu_on_start,
    called,         \* CPUs that have made their call
    p_reports

psciVars == <<firmware, errata, p_main, p_pc, power, cpu_on_ret, cpu_on_ready, cpu_on_done, cpu_on_start, called, p_reports>>

PAll == 0..(PCpus - 1)
Secondaries == 2..(PCpus - 1)

Reported(name, ok) == p_reports' = p_reports \union {<<name, ok>>}

-----------------------------------------------------------------------------
(* main *)

\* psci_invalid_function: NOT_SUPPORTED or the exception; psci_affinity_info_on, psci_affinity_info_off.
SimpleTests ==
    /\ p_main = "start"
    /\ p_reports' = {<<"invalid-function", firmware # "accepts_all">>, <<"affinity-info-on", firmware # "affinity">>,
                     <<"affinity-info-off", firmware # "affinity">>}
    /\ p_main' = IF ~errata THEN "end" ELSE "boot"
    /\ cpu_on_ready' = {1} /\ cpu_on_done' = {1}
    /\ UNCHANGED <<firmware, errata, p_pc, power, cpu_on_ret, cpu_on_start, called>>

\* The loop over the present CPUs from 2 on: smp_boot_secondary(cpu, cpu_on_secondary_entry), then CPU 0 is ready.
BootSecondaries ==
    /\ p_main = "boot"
    /\ IF \E c \in Secondaries : p_pc[c] = "off"
       THEN /\ LET c == CHOOSE d \in Secondaries : p_pc[d] = "off" /\ \A e \in Secondaries : e < d => p_pc[e] # "off" IN
                p_pc' = [p_pc EXCEPT ![c] = "ready"]
            /\ UNCHANGED <<p_main, cpu_on_ready>>
       ELSE p_main' = "wait" /\ cpu_on_ready' = cpu_on_ready \union {0} /\ UNCHANGED p_pc
    /\ UNCHANGED <<firmware, errata, power, cpu_on_ret, cpu_on_done, cpu_on_start, called, p_reports>>

\* while (!cpumask_full(&cpu_on_ready)); cpu_on_start = 1
Start ==
    /\ p_main = "wait" /\ cpu_on_ready = PAll
    /\ cpu_on_start' = TRUE /\ p_main' = "call"
    /\ UNCHANGED <<firmware, errata, p_pc, power, cpu_on_ret, cpu_on_ready, cpu_on_done, called, p_reports>>

\* PSCI_0_2_FN64_CPU_ON of CPU 1, by CPU c: what the firmware answers.  External.
psci_cpu_on(c) ==
    /\ power' = IF power = "off" /\ firmware # "denies" THEN "on" ELSE power
    /\ cpu_on_ret' = [cpu_on_ret EXCEPT ![c] =
        IF firmware = "denies" THEN "DENIED"
        ELSE IF power = "off" \/ firmware = "always_succeeds" THEN "SUCCESS"
        ELSE IF firmware = "pending" THEN "ON_PENDING" ELSE "ALREADY_ON"]
    /\ called' = called \union {c}

MainCall ==
    /\ p_main = "call" /\ psci_cpu_on(0) /\ p_main' = "done"
    /\ UNCHANGED <<firmware, errata, p_pc, cpu_on_ready, cpu_on_done, cpu_on_start, p_reports>>

MainDone ==
    /\ p_main = "done" /\ cpu_on_done' = cpu_on_done \union {0} /\ p_main' = "join"
    /\ UNCHANGED <<firmware, errata, p_pc, power, cpu_on_ret, cpu_on_ready, cpu_on_start, called, p_reports>>

\* Mutant: the verdict does not wait for the others.
AllDone_Early == 0 \in cpu_on_done

\* cpumask_full(&cpu_on_done)
AllDone == cpu_on_done = PAll

Judge ==
    /\ p_main = "join" /\ AllDone
    /\ Reported("cpu-on", \A c \in PAll \ {1} : cpu_on_ret[c] \in {"SUCCESS", "ALREADY_ON"})
    /\ p_main' = "end"
    /\ UNCHANGED <<firmware, errata, p_pc, power, cpu_on_ret, cpu_on_ready, cpu_on_done, cpu_on_start, called>>

-----------------------------------------------------------------------------
(* cpu_on_secondary_entry *)

SetCpuOnReady(c) ==
    /\ p_pc[c] = "ready" /\ cpu_on_ready' = cpu_on_ready \union {c} /\ p_pc' = [p_pc EXCEPT ![c] = "spin"]
    /\ UNCHANGED <<firmware, errata, p_main, power, cpu_on_ret, cpu_on_done, cpu_on_start, called, p_reports>>

SecondaryCall(c) ==
    /\ p_pc[c] = "spin" /\ cpu_on_start /\ psci_cpu_on(c) /\ p_pc' = [p_pc EXCEPT ![c] = "done"]
    /\ UNCHANGED <<firmware, errata, p_main, cpu_on_ready, cpu_on_done, cpu_on_start, p_reports>>

SecondaryDone(c) ==
    /\ p_pc[c] = "done" /\ cpu_on_done' = cpu_on_done \union {c} /\ p_pc' = [p_pc EXCEPT ![c] = "idle"]
    /\ UNCHANGED <<firmware, errata, p_main, power, cpu_on_ret, cpu_on_ready, cpu_on_start, called, p_reports>>

\* CPU 1 starts at its entry point and turns itself off; if that fails it stays on.
cpu_psci_cpu_die ==
    /\ power = "on" /\ power' = IF firmware = "stays_on" THEN "stuck" ELSE "off"
    /\ UNCHANGED <<firmware, errata, p_main, p_pc, cpu_on_ret, cpu_on_ready, cpu_on_done, cpu_on_start, called, p_reports>>

-----------------------------------------------------------------------------
PsciEnd == p_main = "end" /\ UNCHANGED psciVars

PsciInit ==
    /\ firmware \in Firmwares /\ errata \in BOOLEAN
    /\ p_main = "start" /\ p_pc = [c \in Secondaries |-> "off"] /\ power = "off"
    /\ cpu_on_ret = [c \in PAll |-> "SUCCESS"]          \* 0 in the code
    /\ cpu_on_ready = {} /\ cpu_on_done = {} /\ cpu_on_start = FALSE /\ called = {} /\ p_reports = {}

PsciNext ==
    \/ SimpleTests \/ BootSecondaries \/ Start \/ MainCall \/ MainDone \/ Judge \/ cpu_psci_cpu_die \/ PsciEnd
    \/ \E c \in Secondaries : SetCpuOnReady(c) \/ SecondaryCall(c) \/ SecondaryDone(c)

PsciSpec == PsciInit /\ [][PsciNext]_psciVars

-----------------------------------------------------------------------------
(* The PSCI test.  No CPU calls before all are ready.  The verdict of       *)
(* "cpu-on" comes when every CPU but CPU 1 has called and stored what it    *)
(* got, so a result that was never written (0, SUCCESS) is not taken for    *)
(* one; it is good on a firmware that answers by CPU 1's power, whatever    *)
(* the order of the calls and of CPU 1's death, and bad on one that denies. *)
(* A firmware that answers SUCCESS to everyone is not found out.            *)
PsciVerdict ==
    /\ called # {} => cpu_on_ready = PAll
    /\ cpu_on_done \subseteq called \union {1}
    /\ (\E ok \in BOOLEAN : <<"cpu-on", ok>> \in p_reports) => called = PAll \ {1}
    /\ firmware \in {"none", "always_succeeds", "stays_on"} => \A r \in p_reports : r[2]
    /\ firmware = "denies" => <<"cpu-on", TRUE>> \notin p_reports
    /\ firmware = "pending" /\ <<"cpu-on", FALSE>> \in p_reports => \E c \in called : cpu_on_ret[c] = "ON_PENDING"
    /\ firmware \in {"accepts_all", "affinity"} /\ p_reports # {} => \E r \in p_reports : ~r[2]
    /\ firmware = "none" => (\E c \in called : cpu_on_ret[c] = "SUCCESS") \/ called = {}

=============================================================================
