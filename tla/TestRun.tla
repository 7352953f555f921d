------------------------------- MODULE TestRun -------------------------------
(***************************************************************************)
(* One test from unittests.cfg: whether run() of scripts/runtime.bash      *)
(* starts it, what the guest counts with lib/report.c, the exit code and   *)
(* the way it takes through QEMU and arch-run.bash, and the verdict that   *)
(* run() prints.                                                           *)
(*                                                                         *)
(* The code leaves the guest in one of two ways: "device" (isa-debug-exit  *)
(* on x86, chr-testdev on arm), as QEMU's own status; or "line" (powerpc,  *)
(* s390x), in a line of output, with QEMU's status 0.                      *)
(***************************************************************************)
EXTENDS Integers, Sequences, FiniteSets, Functions

CONSTANTS
    Groups,         \* group names, "nodefault" among them
    BufSize,        \* sizeof(prefixes)
    PrefixLen,      \* bound: lengths of prefixes that tests push
    MaxTests        \* bound: reports of one run

ASSUME GroupAssumption == "nodefault" \in Groups
ASSUME BoundAssumption == BufSize \in Nat /\ MaxTests \in Nat /\ PrefixLen \subseteq Nat

None == -1
Signal == {9, 15}

VARIABLES
    conf,           \* [groups, arch, check, loads]: the test
    opts,           \* [all, group, standalone]: how run_tests.sh was called
    via,            \* "device" or "line"
    st,             \* "select", "guest", "qemu", "fixup", "ret", "done"
    tests, failures, xfailures, skipped,
    prefixes,       \* lengths of the prefixes pushed, innermost last
    summary,        \* what report_summary returned, None before
    code,           \* the argument of exit(), None before
    line,           \* the status in the line "EXIT: STATUS=", or None
    status,         \* QEMU's exit status (timeout's, if it ended QEMU)
    stderr,         \* kinds of line on QEMU's stderr
    ret,            \* the scripts' exit status
    verdict,
    truth           \* ghost: how the run ended, and the counts at the summary

counts == <<tests, failures, xfailures, skipped>>
guest == <<counts, prefixes, summary>>
vars == <<conf, opts, via, st, guest, code, line, status, stderr, ret, verdict, truth>>

Init ==
    /\ conf \in [groups : SUBSET Groups, arch : BOOLEAN, check : BOOLEAN, loads : BOOLEAN]
    /\ opts \in [all : BOOLEAN, group : Groups \cup {"none"}, standalone : BOOLEAN]
    /\ opts.standalone => opts.group = "none" /\ ~opts.all
    /\ via \in {"device", "line"}
    /\ st = "select"
    /\ tests = 0 /\ failures = 0 /\ xfailures = 0 /\ skipped = 0
    /\ prefixes = <<>> /\ summary = None
    /\ code = None /\ line = None /\ status = None /\ stderr = {}
    /\ ret = None /\ verdict = "none" /\ truth = "none"

-----------------------------------------------------------------------------
(* run(): which tests start. *)

\* skip_nodefault; a standalone test asks, and a yes runs it.
SkipNodefault(yes) == ~opts.all /\ (opts.standalone => ~yes)

Ends(v, r) ==
    /\ st' = "done" /\ verdict' = v /\ ret' = r
    /\ UNCHANGED <<conf, opts, via, guest, code, line, status, stderr, truth>>

\* The early returns, in their order.
Select(yes) ==
    /\ st = "select"
    /\ IF opts.group # "none" /\ opts.group \notin conf.groups THEN Ends("none", 0)
       ELSE IF opts.group = "none" /\ "nodefault" \in conf.groups /\ SkipNodefault(yes)
            THEN Ends("SKIP", 0)
       ELSE IF ~conf.arch \/ ~conf.check THEN Ends("SKIP", 2)
       ELSE IF ~conf.loads THEN Ends("SKIP", 77)
       ELSE /\ st' = "guest"
            /\ UNCHANGED <<conf, opts, via, guest, code, line, status, stderr, ret, verdict, truth>>

-----------------------------------------------------------------------------
(* The guest.  Each function of report.c holds its lock from start to end, *)
(* so that it is one step among those of other CPUs.                       *)

Inc(n, when) == IF when THEN n + 1 ELSE n

\* va_report, by report, report_xfail and report_skip.
VaReport(pass, xfail, skip) ==
    /\ st = "guest" /\ tests < MaxTests
    /\ tests' = tests + 1
    /\ skipped' = Inc(skipped, skip)
    /\ xfailures' = Inc(xfailures, ~skip /\ xfail /\ ~pass)
    /\ failures' = Inc(failures, ~skip /\ (xfail = pass))
    /\ UNCHANGED <<conf, opts, via, st, prefixes, summary, code, line, status, stderr, ret, verdict, truth>>

ReportPass ==
    /\ st = "guest" /\ tests < MaxTests
    /\ tests' = tests + 1
    /\ UNCHANGED <<conf, opts, via, st, failures, xfailures, skipped, prefixes, summary,
                   code, line, status, stderr, ret, verdict, truth>>

\* exit(c), with QEMU's end of it: (c << 1) | 1, in eight bits.
Exits(c) ==
    /\ code' = c
    /\ st' = "qemu"
    /\ IF via = "device"
       THEN status' = (2 * c + 1) % 256 /\ UNCHANGED line
       ELSE status' = 0 /\ line' = 2 * c + 1
    /\ UNCHANGED <<conf, opts, via, guest, stderr, ret, verdict>>

\* Mutant: abort() without the limit that keeps it below the signals.
AbortExitStatus_Seven == 127

\* ABORT_EXIT_STATUS
AbortExitStatus == 63

\* abort(): a failed assertion, report_abort, an unhandled exception, on
\* any CPU.
Abort ==
    /\ st = "guest"
    /\ Exits(AbortExitStatus)
    /\ truth' = "abort"

Used == FoldFunction(LAMBDA l, n : l + 2 + n, 0, prefixes)

\* report_prefix_pushf asserts that prefix and delimiter fit.
PrefixPush(l) ==
    /\ st = "guest"
    /\ IF Used + l + 2 < BufSize
       THEN /\ prefixes' = Append(prefixes, l)
            /\ UNCHANGED <<conf, opts, via, st, counts, summary, code, line, status, stderr, ret, verdict, truth>>
       ELSE Exits(AbortExitStatus) /\ truth' = "abort"

PrefixPop ==
    /\ st = "guest" /\ prefixes # <<>>
    /\ prefixes' = SubSeq(prefixes, 1, Len(prefixes) - 1)
    /\ UNCHANGED <<conf, opts, via, st, counts, summary, code, line, status, stderr, ret, verdict, truth>>

SummaryCode ==
    IF tests = skipped THEN 77 \div 2 ELSE IF failures > 0 THEN 1 ELSE 0

\* report_summary; other CPUs may still report until main returns.
ReportSummary ==
    /\ st = "guest" /\ summary = None
    /\ summary' = SummaryCode
    /\ truth' = IF tests = skipped THEN "skip" ELSE IF failures = 0 THEN "pass" ELSE "fail"
    /\ UNCHANGED <<conf, opts, via, st, counts, prefixes, code, line, status, stderr, ret, verdict>>

\* return report_summary()
MainReturns ==
    /\ st = "guest" /\ summary # None
    /\ Exits(summary)
    /\ UNCHANGED truth

\* main of a test that does not use report.c, such as access.c.
MainReturnsOwn(ok) ==
    /\ st = "guest" /\ tests = 0 /\ summary = None
    /\ Exits(IF ok THEN 0 ELSE 1)
    /\ truth' = IF ok THEN "pass" ELSE "fail"

-----------------------------------------------------------------------------
(* QEMU and timeout (external). *)

QemuEnds(s, lines, how) ==
    /\ st = "guest"
    /\ st' = "qemu" /\ status' = s /\ stderr' = stderr \cup lines /\ truth' = how
    /\ UNCHANGED <<conf, opts, via, guest, code, line, ret, verdict>>

\* A signal that QEMU catches makes it exit with 0 and a line on stderr.
Killed ==
    \/ QemuEnds(0, {"signal"}, "signal")
    \/ \E s \in Signal : QemuEnds(128 + s, {}, "signal")
    \/ QemuEnds(134, {"error"}, "signal")

TimedOut == QemuEnds(124, {"signal"}, "timeout")
Fails == QemuEnds(1, {"error"}, "qemu")
PowersOff == QemuEnds(0, {}, "off")

Warns ==
    /\ st = "guest" /\ stderr' = stderr \cup {"warning"}
    /\ UNCHANGED <<conf, opts, via, st, guest, code, line, status, ret, verdict, truth>>

-----------------------------------------------------------------------------
(* arch-run.bash and the verdict. *)

\* Mutant: a status of 1 is taken for success whatever QEMU complained of.
QemuStatus_OneIsSuccess ==
    IF status = 0 THEN IF "signal" \in stderr THEN 128 + 15 ELSE 1
    ELSE IF status = 1 THEN 0
    ELSE status

\* run_qemu: Table 1 to Table 2.
QemuStatus ==
    IF status = 0 THEN IF "signal" \in stderr THEN 128 + 15 ELSE 1
    ELSE IF status = 1 /\ stderr \subseteq {"warning"} THEN 0
    ELSE status

RunQemu ==
    /\ st = "qemu"
    /\ ret' = QemuStatus
    /\ st' = IF via = "line" THEN "fixup" ELSE "ret"
    /\ UNCHANGED <<conf, opts, via, guest, code, line, status, stderr, verdict, truth>>

\* run_qemu_status: the line tells the code that QEMU's status 0 hides.
RunQemuStatus ==
    /\ st = "fixup"
    /\ ret' = IF ret = 1 /\ line # None THEN IF line = 1 THEN 0 ELSE line % 256 ELSE ret
    /\ st' = "ret"
    /\ UNCHANGED <<conf, opts, via, guest, code, line, status, stderr, verdict, truth>>

\* The end of run().
Verdict ==
    /\ st = "ret"
    /\ verdict' = CASE ret = 0 -> "PASS"
                    [] ret = 77 -> "SKIP"
                    [] ret = 124 -> "FAIL_timeout"
                    [] ret > 127 -> "FAIL_signal"
                    [] OTHER -> "FAIL"
    /\ st' = "done"
    /\ UNCHANGED <<conf, opts, via, guest, code, line, status, stderr, ret, truth>>

Next ==
    \/ \E yes \in BOOLEAN : Select(yes)
    \/ \E pass, xfail \in BOOLEAN : VaReport(pass, xfail, FALSE)
    \/ VaReport(FALSE, FALSE, TRUE)
    \/ \E l \in PrefixLen : PrefixPush(l)
    \/ \E ok \in BOOLEAN : MainReturnsOwn(ok)
    \/ ReportPass \/ PrefixPop \/ Abort \/ ReportSummary \/ MainReturns
    \/ Killed \/ TimedOut \/ Fails \/ PowersOff \/ Warns
    \/ RunQemu \/ RunQemuStatus \/ Verdict

Spec == Init /\ [][Next]_vars

-----------------------------------------------------------------------------
(* Properties. *)

\* A run is a PASS exactly if the guest's own account was one: nothing that
\* QEMU, the exit code's way out or the two fixups of the status do makes a
\* PASS of another end, or hides one.
PassIsEarned == st = "done" => (verdict = "PASS" <=> truth = "pass")

\* "To avoid confusion with signal status, we further limit exit codes"
\* (lib/abort.c:10): a verdict of skip, signal or timeout is given only to a
\* guest whose tests were all skipped, to a signal and to a timeout, never
\* to another exit of the guest's own.
StatusIsMeant ==
    /\ verdict = "SKIP" /\ truth # "none" => truth = "skip"
    /\ verdict = "FAIL_signal" => truth = "signal"
    /\ verdict = "FAIL_timeout" => truth = "timeout"
=============================================================================
