------------------------------- MODULE HvClock -------------------------------
(***************************************************************************)
(* x86/hyperv_clock.c: the reference TSC page, which the hypervisor        *)
(* rewrites while the guest copies it, main's probe of the page, and the   *)
(* test that compares the clock with the reference counter.                *)
(*                                                                         *)
(* A version stands for the scale and the offset that were published with  *)
(* it.  The struct copy of hvclock_get_time_values reads the members in    *)
(* the order of the compiler's choice.                                     *)
(***************************************************************************)
EXTENDS Integers, FiniteSets

CONSTANTS
    HvCpus,         \* CPUs that run hv_clock_test, CPU 0 among them, which runs main
    Versions,       \* the hypervisor publishes 1..Versions
    Reads           \* rounds of the loop of hv_clock_test

ASSUME HvCpusAssumption == 0 \in HvCpus

VARIABLES
    page,           \* hv_clock: sequence, scale, offset
    writing,        \* members the hypervisor has yet to write, {} between updates
    h_version,      \* the version that it writes
    c_pc, c_seq,    \* per CPU: "seq", "copy", "test", "done"; the variable seq
    shadow, left,   \* shadow; members not copied yet
    h_last,         \* the member copied last
    reads, h_good,  \* rounds; ok[i]
    hv_main,        \* main: "probe", "run" or "exit"
    hv_report, hv_code      \* the report of check_test; what main returns

hvVars == <<page, writing, h_version, c_pc, c_seq, shadow, left, h_last, reads, h_good, hv_main, hv_report, hv_code>>

Members == {"sequence", "scale", "offset"}

-----------------------------------------------------------------------------
\* External: sequence 0 while the values change, then the values, then the new sequence.
Update ==
    /\ h_version < Versions /\ writing = {}
    /\ h_version' = h_version + 1
    /\ writing' = {"scale", "offset"}
    /\ page' = [page EXCEPT !["sequence"] = 0]
    /\ UNCHANGED <<c_pc, c_seq, shadow, left, h_last, reads, h_good, hv_main, hv_report, hv_code>>

Store ==
    /\ \E m \in writing :
        /\ page' = [page EXCEPT ![m] = h_version, !["sequence"] = IF writing = {m} THEN h_version ELSE 0]
        /\ writing' = writing \ {m}
    /\ UNCHANGED <<h_version, c_pc, c_seq, shadow, left, h_last, reads, h_good, hv_main, hv_report, hv_code>>

-----------------------------------------------------------------------------
\* seq = page->tsc_sequence; rmb(): in main's probe of the page, then in every round of hv_clock_read
ReadSeq(c) ==
    /\ c_pc[c] = "seq"
    /\ (hv_main = "run" \/ (hv_main = "probe" /\ c = 0))
    /\ c_seq' = [c_seq EXCEPT ![c] = page["sequence"]]
    /\ left' = [left EXCEPT ![c] = Members]
    /\ c_pc' = [c_pc EXCEPT ![c] = "copy"]
    /\ UNCHANGED <<page, writing, h_version, shadow, h_last, reads, h_good, hv_main, hv_report, hv_code>>

\* *shadow = *page; rmb()
Copy(c) ==
    /\ c_pc[c] = "copy"
    /\ \E m \in left[c] :
        /\ shadow' = [shadow EXCEPT ![c][m] = page[m]]
        /\ left' = [left EXCEPT ![c] = @ \ {m}]
        /\ h_last' = [h_last EXCEPT ![c] = m]
        /\ c_pc' = [c_pc EXCEPT ![c] = IF left[c] = {m} THEN "test" ELSE "copy"]
    /\ UNCHANGED <<page, writing, h_version, c_seq, reads, h_good, hv_main, hv_report, hv_code>>

Torn(c) == shadow[c]["scale"] # shadow[c]["offset"]

\* Mutant: the copy is taken without looking at the sequence again.
Accept_Always(c) == TRUE

\* while (shadow->tsc_sequence != seq)
Accept(c) == shadow[c]["sequence"] = c_seq[c]

\* while (shadow->tsc_sequence != seq): another round
Retry(c) ==
    /\ c_pc[c] = "test" /\ ~Accept(c)
    /\ c_pc' = [c_pc EXCEPT ![c] = "seq"]
    /\ UNCHANGED <<page, writing, h_version, c_seq, shadow, left, h_last, reads, h_good, hv_main, hv_report, hv_code>>

\* main's own copy: sequence 0 is "Reference TSC page not available" and exit(1).  (The
\* bounded versions do not reach 0xFFFFFFFF, which main takes for the same.)
Probe(c) ==
    /\ c_pc[c] = "test" /\ Accept(c) /\ hv_main = "probe"
    /\ c_pc' = [c_pc EXCEPT ![c] = "seq"]
    /\ IF shadow[c]["sequence"] = 0 THEN hv_main' = "exit" /\ hv_code' = 1
       ELSE hv_main' = "run" /\ UNCHANGED hv_code
    /\ UNCHANGED <<page, writing, h_version, c_seq, shadow, left, h_last, reads, h_good, hv_report>>

\* The clock of a torn copy is off: hv_clock_test may see a drift or a warp, and stops at a warp.
Test(c) ==
    /\ c_pc[c] = "test" /\ Accept(c) /\ hv_main = "run"
    /\ \E seen \in IF Torn(c) THEN {"no", "drift", "warp"} ELSE {"no"} :
        /\ h_good' = [h_good EXCEPT ![c] = @ /\ seen = "no"]
        /\ reads' = [reads EXCEPT ![c] = @ + 1]
        /\ c_pc' = [c_pc EXCEPT ![c] = IF seen = "warp" \/ reads'[c] = Reads THEN "done" ELSE "seq"]
    /\ UNCHANGED <<page, writing, h_version, c_seq, shadow, left, h_last, hv_main, hv_report, hv_code>>

\* check_test behind on_cpus, then the end of main: nerr is 0.
CheckTest ==
    /\ hv_main = "run" /\ hv_report = "none" /\ \A c \in HvCpus : c_pc[c] = "done"
    /\ hv_report' = IF \A c \in HvCpus : h_good[c] THEN "PASS" ELSE "FAIL"
    /\ hv_code' = 0
    /\ UNCHANGED <<page, writing, h_version, c_pc, c_seq, shadow, left, h_last, reads, h_good, hv_main>>

Exited == (hv_main = "exit" \/ hv_report # "none") /\ UNCHANGED hvVars

\* The hypervisor has published its first version, or says with sequence 0 that it has none.
HvInit ==
    /\ h_version \in {0, 1} /\ page = [m \in Members |-> h_version] /\ writing = {}
    /\ c_pc = [c \in HvCpus |-> "seq"] /\ c_seq = [c \in HvCpus |-> 0]
    /\ shadow = [c \in HvCpus |-> [m \in Members |-> 0]] /\ left = [c \in HvCpus |-> {}] /\ h_last = [c \in HvCpus |-> "sequence"]
    /\ reads = [c \in HvCpus |-> 0] /\ h_good = [c \in HvCpus |-> TRUE] /\ hv_main = "probe" /\ hv_report = "none" /\ hv_code = -1

HvNext == Update \/ Store \/ (\E c \in HvCpus : ReadSeq(c) \/ Copy(c) \/ Retry(c) \/ Probe(c) \/ Test(c)) \/ CheckTest \/ Exited

HvSpec == HvInit /\ [][HvNext]_hvVars

-----------------------------------------------------------------------------
Taken(c) == c_pc[c] = "test" /\ Accept(c)

(* Where the compiler copies the sequence behind the values, a copy that is *)
(* taken while the page is valid holds values published together.           *)
SequenceGuards == \A c \in HvCpus : Taken(c) /\ h_last[c] = "sequence" /\ shadow[c]["sequence"] # 0 => ~Torn(c)

(* "Reads a consistent set of time-base values from hypervisor" (line 36),  *)
(* since the version is tested "after fetching data" (line 47): a copy that *)
(* began while the page was valid and was accepted is not of two updates.   *)
ConsistentSet == \A c \in HvCpus : Taken(c) /\ c_seq[c] # 0 => ~Torn(c)
=============================================================================
