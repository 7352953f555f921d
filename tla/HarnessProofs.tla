---------------------------- MODULE HarnessProofs ----------------------------
(***************************************************************************)
(* Proofs about the scripts that run a test, for any groups and prefixes,  *)
(* any number of reports, any errata and any versions: the verdict of a    *)
(* run is the one that the guest earned, the guest's errata variables are  *)
(* what the user or the order of versions says, and run_migration returns  *)
(* the status of the guest that was migrated.                              *)
(***************************************************************************)
EXTENDS MCHarness, TLAPS

-----------------------------------------------------------------------------
(* The verdict.  Between the guest and run() a run is known by how it      *)
(* ended (truth) and by what of it is visible: the code, in QEMU's status  *)
(* or in a line of output, the status and stderr.                          *)

\* The codes that the guest itself leaves with.
Own == {<<"pass", 0>>, <<"fail", 1>>, <<"skip", 38>>, <<"abort", 63>>}

\* Nothing but warnings on stderr.
Quiet == stderr \subseteq {"warning"}

\* What the guest's exit leaves behind.
GuestExited ==
    \E e \in Own : /\ truth = e[1] /\ code = e[2] /\ Quiet
                   /\ IF via = "device" THEN status = (2 * code + 1) % 256 /\ line = None
                                        ELSE status = 0 /\ line = 2 * code + 1

\* What another end of QEMU leaves behind.
QemuEnded ==
    /\ line = None
    /\ \/ truth = "signal" /\ status = 0 /\ "signal" \in stderr
       \/ truth = "signal" /\ status \in {134, 137, 143}
       \/ truth = "timeout" /\ status = 124
       \/ truth = "qemu" /\ status = 1 /\ ~Quiet
       \/ truth = "off" /\ status = 0 /\ Quiet

\* The status of the scripts for each end.
Final ==
    \/ <<truth, ret>> \in {<<"pass", 0>>, <<"fail", 3>>, <<"skip", 77>>, <<"abort", 127>>}
    \/ truth = "signal" /\ ret \in {134, 137, 143}
    \/ truth = "timeout" /\ ret = 124
    \/ truth \in {"qemu", "off"} /\ ret = 1

\* The verdicts of these statuses.
Judged ==
    \/ ret = 0 /\ verdict = "PASS"
    \/ ret = 77 /\ verdict = "SKIP"
    \/ ret = 124 /\ verdict = "FAIL_timeout"
    \/ ret \in {1, 3, 127} /\ verdict = "FAIL"
    \/ ret \in {134, 137, 143} /\ verdict = "FAIL_signal"

VerdictInv ==
    /\ via \in {"device", "line"}
    /\ st \in {"select", "guest", "qemu", "fixup", "ret", "done"}
    /\ st # "done" => verdict = "none"
    /\ st = "select" => truth = "none"
    /\ st \in {"select", "guest"} =>
          /\ line = None /\ Quiet /\ failures \in Nat
          /\ IF summary = None THEN truth = "none" ELSE <<truth, summary>> \in Own
    /\ st = "qemu" => GuestExited \/ QemuEnded
    /\ st = "fixup" => \/ line = None /\ Final
                       \/ ret = 1 /\ \E e \in Own : truth = e[1] /\ line = 2 * e[2] + 1
    /\ st = "ret" => Final
    /\ st = "done" => \/ truth = "none" /\ verdict \in {"none", "SKIP"}
                      \/ Final /\ Judged

LEMMA VerdictInit == Init => VerdictInv
  BY DEF Init, VerdictInv, Quiet, None

LEMMA SelectStep ==
  ASSUME VerdictInv, NEW yes \in BOOLEAN, Select(yes)
  PROVE  VerdictInv'
<1>1. /\ st = "select" /\ line = None /\ Quiet /\ verdict = "none" /\ truth = "none"
      /\ failures \in Nat
      /\ IF summary = None THEN truth = "none" ELSE <<truth, summary>> \in Own
      /\ via \in {"device", "line"}
  BY DEF Select, VerdictInv
<1>2. UNCHANGED <<via, guest, line, stderr, truth>>
  BY DEF Select, Ends
<1>3. UNCHANGED <<via, summary, failures, line, stderr, truth>>
  BY <1>2 DEF guest, counts
<1>4. \/ st' = "done" /\ verdict' \in {"none", "SKIP"}
      \/ st' = "guest" /\ UNCHANGED verdict
  BY DEF Select, Ends
<1>5. Quiet'
  BY <1>1, <1>3 DEF Quiet
<1>6. (IF summary = None THEN truth = "none" ELSE <<truth, summary>> \in Own)'
  BY <1>1, <1>3 DEF Own, None
<1>. QED
  BY <1>1, <1>3, <1>4, <1>5, <1>6 DEF VerdictInv, None

\* What is known of a guest under way.
LEMMA GuestKnown ==
  ASSUME VerdictInv, st = "guest"
  PROVE  /\ via \in {"device", "line"} /\ verdict = "none" /\ line = None /\ Quiet
         /\ failures \in Nat
         /\ IF summary = None THEN truth = "none" ELSE <<truth, summary>> \in Own
  BY DEF VerdictInv

\* A step of the guest that leaves its summary alone and goes on.
LEMMA GuestGoesOn ==
  ASSUME VerdictInv, st = "guest", failures' \in Nat,
         UNCHANGED <<via, st, summary, line, stderr, verdict, truth>>
  PROVE  VerdictInv'
<1>1. (IF summary = None THEN truth = "none" ELSE <<truth, summary>> \in Own)'
  BY GuestKnown DEF Own, None
<1>2. Quiet'
  BY GuestKnown DEF Quiet
<1>. QED
  BY GuestKnown, <1>1, <1>2 DEF VerdictInv, None

LEMMA ReportStep ==
  ASSUME VerdictInv,
         (\E pass, xfail, skip \in BOOLEAN : VaReport(pass, xfail, skip)) \/ ReportPass \/ PrefixPop
  PROVE  VerdictInv'
<1>1. st = "guest" /\ UNCHANGED <<via, st, summary, line, stderr, verdict, truth>>
  BY DEF VaReport, ReportPass, PrefixPop
<1>2. failures' \in Nat
  BY <1>1, GuestKnown DEF VaReport, ReportPass, PrefixPop, Inc, counts
<1>. QED
  BY <1>1, <1>2, GuestGoesOn

LEMMA WarnsStep ==
  ASSUME VerdictInv, Warns
  PROVE  VerdictInv'
<1>1. st = "guest" /\ UNCHANGED <<via, st, summary, failures, line, verdict, truth>>
      /\ stderr' = stderr \cup {"warning"}
  BY DEF Warns, guest, counts
<1>2. Quiet'
  BY <1>1, GuestKnown DEF Quiet
<1>3. (IF summary = None THEN truth = "none" ELSE <<truth, summary>> \in Own)'
  BY <1>1, GuestKnown DEF Own, None
<1>. QED
  BY <1>1, <1>2, <1>3, GuestKnown DEF VerdictInv, None

\* What report_summary returns is one of the codes, with its meaning.
LEMMA SummaryStep ==
  ASSUME VerdictInv, ReportSummary
  PROVE  VerdictInv'
<1>1. st = "guest" /\ UNCHANGED <<via, st, failures, line, stderr, verdict>>
  BY DEF ReportSummary, counts
<1>2. 77 \div 2 = 38
  OBVIOUS
<1>3. <<truth', summary'>> \in Own
  <2>1. CASE tests = skipped
    BY <2>1, <1>2 DEF ReportSummary, SummaryCode, Own
  <2>2. CASE tests # skipped
    <3>1. failures \in Nat
      BY <1>1, GuestKnown
    <3>. QED
      BY <2>2, <3>1 DEF ReportSummary, SummaryCode, Own
  <2>. QED
    BY <2>1, <2>2
<1>4. summary' # None
  BY <1>3 DEF Own, None
<1>5. Quiet'
  BY <1>1, GuestKnown DEF Quiet
<1>6. <<truth, summary>>' \in Own'
  BY <1>3 DEF Own
<1>. QED
  BY <1>1, <1>4, <1>5, <1>6, GuestKnown DEF VerdictInv, None

\* However the guest leaves, the way it takes carries its code.
LEMMA ExitsStep ==
  ASSUME VerdictInv, st = "guest", NEW c, Exits(c), <<truth', c>> \in Own
  PROVE  VerdictInv'
<1>1. via \in {"device", "line"} /\ verdict = "none" /\ line = None /\ Quiet
  BY GuestKnown
<1>2. UNCHANGED <<via, stderr, verdict>> /\ st' = "qemu" /\ code' = c
  BY DEF Exits
<1>3. Quiet'
  BY <1>1, <1>2 DEF Quiet
<1>4. IF via' = "device" THEN status' = (2 * code' + 1) % 256 /\ line' = None
                         ELSE status' = 0 /\ line' = 2 * code' + 1
  BY <1>1, <1>2 DEF Exits
<1>5. PICK e \in Own : truth' = e[1] /\ c = e[2]
  BY DEF Own
<1>6. GuestExited'
  BY <1>2, <1>3, <1>4, <1>5 DEF GuestExited, Own, None
<1>. QED
  BY <1>1, <1>2, <1>6 DEF VerdictInv

LEMMA LeavesStep ==
  ASSUME VerdictInv, Abort \/ MainReturns \/ \E ok \in BOOLEAN : MainReturnsOwn(ok)
  PROVE  VerdictInv'
<1>1. CASE Abort
  BY <1>1, ExitsStep DEF Abort, AbortExitStatus, Own
<1>2. CASE MainReturns
  <2>1. st = "guest" /\ summary # None /\ Exits(summary) /\ truth' = truth
    BY <1>2 DEF MainReturns
  <2>2. <<truth, summary>> \in Own
    BY <2>1, GuestKnown
  <2>3. <<truth', summary>> \in Own
    BY <2>1, <2>2
  <2>. QED
    BY <2>1, <2>3, ExitsStep
<1>3. ASSUME NEW ok \in BOOLEAN, MainReturnsOwn(ok)
      PROVE  VerdictInv'
  <2>1. CASE ok
    BY <1>3, <2>1, ExitsStep DEF MainReturnsOwn, Own
  <2>2. CASE ~ok
    BY <1>3, <2>2, ExitsStep DEF MainReturnsOwn, Own
  <2>. QED
    BY <2>1, <2>2
<1>. QED
  BY <1>1, <1>2, <1>3

LEMMA PushStep ==
  ASSUME VerdictInv, NEW l \in PrefixLen, PrefixPush(l)
  PROVE  VerdictInv'
<1>1. CASE Used + l + 2 < BufSize
  <2>1. st = "guest" /\ UNCHANGED <<via, st, summary, failures, line, stderr, verdict, truth>>
    BY <1>1 DEF PrefixPush, counts
  <2>. QED
    BY <2>1, GuestGoesOn, GuestKnown
<1>2. CASE ~(Used + l + 2 < BufSize)
  BY <1>2, ExitsStep DEF PrefixPush, AbortExitStatus, Own
<1>. QED
  BY <1>1, <1>2

LEMMA QemuEndsStep ==
  ASSUME VerdictInv, Killed \/ TimedOut \/ Fails \/ PowersOff
  PROVE  VerdictInv'
<1>1. PICK s, lines, how :
        /\ QemuEnds(s, lines, how)
        /\ \/ how = "signal" /\ s = 0 /\ lines = {"signal"}
           \/ how = "signal" /\ s \in {134, 137, 143}
           \/ how = "timeout" /\ s = 124
           \/ how = "qemu" /\ s = 1 /\ lines = {"error"}
           \/ how = "off" /\ s = 0 /\ lines = {}
  <2>1. CASE Killed
    <3>1. CASE QemuEnds(0, {"signal"}, "signal")
      BY <3>1
    <3>2. ASSUME NEW s \in Signal, QemuEnds(128 + s, {}, "signal")
          PROVE  128 + s \in {137, 143}
      BY DEF Signal
    <3>3. CASE QemuEnds(134, {"error"}, "signal")
      BY <3>3
    <3>. QED
      BY <2>1, <3>1, <3>2, <3>3 DEF Killed
  <2>. QED
    BY <2>1 DEF TimedOut, Fails, PowersOff
<1>2. st = "guest" /\ st' = "qemu" /\ status' = s /\ stderr' = stderr \cup lines /\ truth' = how
      /\ UNCHANGED <<via, line, verdict>>
  BY <1>1 DEF QemuEnds
<1>3. Quiet /\ line = None
  BY <1>2, GuestKnown
<1>4. QemuEnded'
  BY <1>1, <1>2, <1>3 DEF QemuEnded, Quiet, None
<1>. QED
  BY <1>2, <1>4, GuestKnown DEF VerdictInv

\* run_qemu, for the guest's own end and for the others.
LEMMA RunQemuStep ==
  ASSUME VerdictInv, RunQemu
  PROVE  VerdictInv'
<1>1. /\ st = "qemu" /\ (GuestExited \/ QemuEnded) /\ verdict = "none" /\ via \in {"device", "line"}
      /\ ret' = QemuStatus /\ st' = IF via = "line" THEN "fixup" ELSE "ret"
      /\ UNCHANGED <<via, line, truth, verdict>>
  BY DEF RunQemu, VerdictInv
<1>2. CASE QemuEnded
  <2>1. line' = None
    BY <1>1, <1>2 DEF QemuEnded, None
  <2>2. Final'
    BY <1>1, <1>2 DEF QemuEnded, QemuStatus, Final, Quiet
  <2>. QED
    BY <1>1, <2>1, <2>2 DEF VerdictInv, None
<1>3. CASE GuestExited
  <2>1. PICK e \in Own :
          /\ truth = e[1] /\ code = e[2] /\ Quiet
          /\ IF via = "device" THEN status = (2 * code + 1) % 256 /\ line = None
                               ELSE status = 0 /\ line = 2 * code + 1
    BY <1>3 DEF GuestExited
  <2>2. "signal" \notin stderr
    BY <2>1 DEF Quiet
  <2>3. CASE via = "device"
    <3>1. <<truth, status>> \in {<<"pass", 1>>, <<"fail", 3>>, <<"skip", 77>>, <<"abort", 127>>}
      BY <2>1, <2>3 DEF Own
    <3>2. Final'
      BY <3>1, <2>1, <1>1 DEF Final, QemuStatus, Quiet
    <3>. QED
      BY <1>1, <2>3, <3>2 DEF VerdictInv
  <2>4. CASE via = "line"
    <3>1. status = 0 /\ line = 2 * e[2] + 1
      BY <2>1, <2>4
    <3>2. ret' = 1
      BY <1>1, <3>1, <2>2 DEF QemuStatus
    <3>3. \E d \in Own : truth' = d[1] /\ line' = 2 * d[2] + 1
      BY <1>1, <2>1, <3>1
    <3>4. \E d \in Own' : truth' = d[1] /\ line' = 2 * d[2] + 1
      BY <3>3 DEF Own
    <3>. QED
      BY <1>1, <2>4, <3>2, <3>4 DEF VerdictInv
  <2>. QED
    BY <1>1, <2>3, <2>4
<1>. QED
  BY <1>1, <1>2, <1>3

\* run_qemu_status
LEMMA FixupStep ==
  ASSUME VerdictInv, RunQemuStatus
  PROVE  VerdictInv'
<1>1. /\ st = "fixup" /\ st' = "ret" /\ verdict = "none" /\ via \in {"device", "line"}
      /\ UNCHANGED <<via, line, truth, verdict>>
      /\ ret' = IF ret = 1 /\ line # None THEN IF line = 1 THEN 0 ELSE line % 256 ELSE ret
  BY DEF RunQemuStatus, VerdictInv
<1>2. CASE line = None /\ Final
  <2>1. ret' = ret
    BY <1>1, <1>2
  <2>. QED
    BY <1>1, <1>2, <2>1 DEF Final, VerdictInv
<1>3. CASE ret = 1 /\ \E e \in Own : truth = e[1] /\ line = 2 * e[2] + 1
  <2>1. <<truth, line>> \in {<<"pass", 1>>, <<"fail", 3>>, <<"skip", 77>>, <<"abort", 127>>}
    BY <1>3 DEF Own
  <2>2. Final'
    BY <1>1, <1>3, <2>1 DEF Final, None
  <2>. QED
    BY <1>1, <2>2 DEF VerdictInv
<1>. QED
  BY <1>1, <1>2, <1>3 DEF VerdictInv

LEMMA VerdictStep ==
  ASSUME VerdictInv, Verdict
  PROVE  VerdictInv'
<1>1. /\ st = "ret" /\ st' = "done" /\ Final /\ via \in {"device", "line"}
      /\ UNCHANGED <<via, ret, truth>>
  BY DEF Verdict, VerdictInv
<1>2. verdict' = CASE ret = 0 -> "PASS"
                   [] ret = 77 -> "SKIP"
                   [] ret = 124 -> "FAIL_timeout"
                   [] ret > 127 -> "FAIL_signal"
                   [] OTHER -> "FAIL"
  BY DEF Verdict
<1>3. Judged'
  <2>1. ret \in {0, 1, 3, 77, 124, 127, 134, 137, 143}
    BY <1>1 DEF Final
  <2>. QED
    BY <1>1, <1>2, <2>1 DEF Judged
<1>4. Final'
  BY <1>1 DEF Final
<1>. QED
  BY <1>1, <1>3, <1>4 DEF VerdictInv

LEMMA VerdictNext ==
  ASSUME VerdictInv, Next
  PROVE  VerdictInv'
  BY SelectStep, ReportStep, WarnsStep, SummaryStep, LeavesStep, PushStep, QemuEndsStep,
     RunQemuStep, FixupStep, VerdictStep DEF Next

LEMMA VerdictUnchanged ==
  ASSUME VerdictInv, UNCHANGED vars
  PROVE  VerdictInv'
<1>1. UNCHANGED <<via, st, verdict, truth, line, stderr, failures, summary, code, status, ret>>
  BY DEF vars, guest, counts
<1>2. /\ Quiet' <=> Quiet
      /\ GuestExited' <=> GuestExited
      /\ QemuEnded' <=> QemuEnded
      /\ Final' <=> Final
      /\ Judged' <=> Judged
  BY <1>1 DEF Quiet, GuestExited, QemuEnded, Final, Judged, Own, None
<1>3. Own' = Own /\ None' = None
  BY DEF Own, None
<1>. QED
  BY <1>1, <1>2, <1>3 DEF VerdictInv

\* What the invariant says of the end.
LEMMA VerdictSays ==
  ASSUME VerdictInv
  PROVE  VerdictMeant
<1>1. CASE st # "done"
  BY <1>1 DEF VerdictInv, VerdictMeant, PassIsEarned, StatusIsMeant
<1>2. CASE st = "done"
  <2>1. CASE truth = "none" /\ verdict \in {"none", "SKIP"}
    BY <1>2, <2>1 DEF VerdictMeant, PassIsEarned, StatusIsMeant
  <2>2. CASE Final /\ Judged
    BY <1>2, <2>2 DEF Final, Judged, VerdictMeant, PassIsEarned, StatusIsMeant
  <2>. QED
    BY <1>2, <2>1, <2>2 DEF VerdictInv
<1>. QED
  BY <1>1, <1>2

-----------------------------------------------------------------------------
(* The errata. *)

EInv ==
    /\ kernel \in KernelVersion /\ minver \in [Commit -> MinVersion]
    /\ ~done => env = user
    /\ ErrataDecided

LEMMA VersionType ==
  ASSUME NEW v \in KernelVersion \cup MinVersion
  PROVE  /\ Len(v) \in 2..4 /\ v \in Seq(Number)
         /\ v \in KernelVersion => Len(v) \in 3..4
         /\ \A i \in 1..Len(v) : v[i] \in Nat
<1>1. \A n \in 2..4 : v \in [1..n -> Number] => v \in Seq(Number) /\ Len(v) = n
  OBVIOUS
<1>2. Number \subseteq Nat
  BY NumberAssumption DEF Number
<1>3. PICK n \in 2..4 : v \in [1..n -> Number] /\ (v \in KernelVersion => n \in 3..4)
  <2>1. CASE v \in KernelVersion
    <3>1. PICK n \in 3..4 : v \in [1..n -> Number]
      BY <2>1 DEF KernelVersion
    <3>2. n \in 2..4
      OBVIOUS
    <3>. QED
      BY <3>1, <3>2
  <2>2. CASE v \notin KernelVersion
    BY <2>2 DEF MinVersion
  <2>. QED
    BY <2>1, <2>2
<1>4. v \in Seq(Number) /\ Len(v) = n
  BY <1>1, <1>3
<1>5. \A i \in 1..n : v[i] \in Nat
  BY <1>2, <1>3
<1>. QED
  BY <1>3, <1>4, <1>5

\* A part that is missing counts as 0.
LEMMA PartType ==
  ASSUME NEW v \in KernelVersion \cup MinVersion
  PROVE  /\ \A i \in 1..4 : Part(v, i) \in Nat
         /\ Part(v, 1) = v[1] /\ Part(v, 2) = v[2]
         /\ Has(v, 3) => Part(v, 3) = v[3]
         /\ Has(v, 4) => Part(v, 4) = v[4] /\ Has(v, 3)
         /\ ~Has(v, 3) => Part(v, 3) = 0 /\ ~Has(v, 4)
         /\ ~Has(v, 4) => Part(v, 4) = 0
  BY VersionType DEF Part, Has

\* The order of versions, spelt out.
LEMMA Lexicographic ==
  ASSUME NEW k \in KernelVersion, NEW m \in MinVersion
  PROVE  AtLeast(k, m) <=>
           \/ Part(k, 1) > Part(m, 1)
           \/ /\ Part(k, 1) = Part(m, 1)
              /\ \/ Part(k, 2) > Part(m, 2)
                 \/ /\ Part(k, 2) = Part(m, 2)
                    /\ \/ Part(k, 3) > Part(m, 3)
                       \/ Part(k, 3) = Part(m, 3) /\ Part(k, 4) >= Part(m, 4)
<1>1. \A i \in 1..4 : Part(k, i) \in Nat /\ Part(m, i) \in Nat
  BY PartType
<1>2. (\A i \in 1..4 : Part(k, i) = Part(m, i)) <=>
        /\ Part(k, 1) = Part(m, 1) /\ Part(k, 2) = Part(m, 2)
        /\ Part(k, 3) = Part(m, 3) /\ Part(k, 4) = Part(m, 4)
  <2>. HIDE DEF Part
  <2>1. \A i \in 1..4 : i = 1 \/ i = 2 \/ i = 3 \/ i = 4
    OBVIOUS
  <2>. QED
    BY <2>1
<1>3. (\E i \in 1..4 : /\ Part(k, i) > Part(m, i)
                       /\ \A j \in 1..(i - 1) : Part(k, j) = Part(m, j)) <=>
        \/ Part(k, 1) > Part(m, 1)
        \/ Part(k, 2) > Part(m, 2) /\ Part(k, 1) = Part(m, 1)
        \/ Part(k, 3) > Part(m, 3) /\ Part(k, 1) = Part(m, 1) /\ Part(k, 2) = Part(m, 2)
        \/ /\ Part(k, 4) > Part(m, 4) /\ Part(k, 1) = Part(m, 1) /\ Part(k, 2) = Part(m, 2)
           /\ Part(k, 3) = Part(m, 3)
  <2>1. \A i \in 1..4 : i = 1 \/ i = 2 \/ i = 3 \/ i = 4
    OBVIOUS
  <2>2. /\ \A j \in 1..(1 - 1) : FALSE
        /\ \A j \in 1..(2 - 1) : j = 1
        /\ \A j \in 1..(3 - 1) : j = 1 \/ j = 2
        /\ \A j \in 1..(4 - 1) : j = 1 \/ j = 2 \/ j = 3
    OBVIOUS
  <2>3. ASSUME NEW i \in 1..4, Part(k, i) > Part(m, i),
               \A j \in 1..(i - 1) : Part(k, j) = Part(m, j)
        PROVE  \/ Part(k, 1) > Part(m, 1)
               \/ Part(k, 2) > Part(m, 2) /\ Part(k, 1) = Part(m, 1)
               \/ Part(k, 3) > Part(m, 3) /\ Part(k, 1) = Part(m, 1) /\ Part(k, 2) = Part(m, 2)
               \/ /\ Part(k, 4) > Part(m, 4) /\ Part(k, 1) = Part(m, 1) /\ Part(k, 2) = Part(m, 2)
                  /\ Part(k, 3) = Part(m, 3)
    BY <2>1, <2>3
  <2>. QED
    BY <2>2, <2>3
<1>. QED
  BY <1>1, <1>2, <1>3 DEF AtLeast

\* The shell's comparison is the order of versions.
LEMMA HaveRight ==
  ASSUME NEW k \in KernelVersion, NEW m \in MinVersion
  PROVE  Have(k, m) \in Val /\ (Have(k, m) = "y" <=> AtLeast(k, m))
<1>1. Have(k, m) \in Val
  BY DEF Have, Val
<1>2. Has(k, 3)
  <2>1. Len(k) \in 3..4
    BY VersionType
  <2>. QED
    BY <2>1 DEF Has
<1>3. \A i \in 1..4 : Part(k, i) \in Nat /\ Part(m, i) \in Nat
  BY PartType
<1>4. /\ Part(k, 1) = k[1] /\ Part(k, 2) = k[2] /\ Part(k, 3) = k[3]
      /\ Has(k, 4) => Part(k, 4) = k[4]
      /\ ~Has(k, 4) => Part(k, 4) = 0
  BY <1>2, PartType
<1>5. /\ Part(m, 1) = m[1] /\ Part(m, 2) = m[2]
      /\ Has(m, 3) => Part(m, 3) = m[3]
      /\ Has(m, 4) => Part(m, 4) = m[4] /\ Has(m, 3)
      /\ ~Has(m, 3) => Part(m, 3) = 0 /\ Part(m, 4) = 0
      /\ ~Has(m, 4) => Part(m, 4) = 0
  BY PartType
<1>6. Have(k, m) = "y" <=>
           \/ Part(k, 1) > Part(m, 1)
           \/ /\ Part(k, 1) = Part(m, 1)
              /\ \/ Part(k, 2) > Part(m, 2)
                 \/ /\ Part(k, 2) = Part(m, 2)
                    /\ \/ Part(k, 3) > Part(m, 3)
                       \/ Part(k, 3) = Part(m, 3) /\ Part(k, 4) >= Part(m, 4)
  BY <1>2, <1>3, <1>4, <1>5 DEF Have
<1>. QED
  BY <1>1, <1>6, Lexicographic

LEMMA ErrataStep ==
  ASSUME EInv, EnvAddErrata
  PROVE  EInv'
<1>. DEFINE e == IF given /\ AnyErrata(env) THEN Imported
                 ELSE IF ~given THEN Generated ELSE env
<1>1. /\ env = user /\ env' = e /\ initrd' = IF AnyErrata(e) THEN e ELSE file
      /\ UNCHANGED <<kernel, minver, default, file, given, user>> /\ done' = TRUE
  BY DEF EInv, EnvAddErrata
<1>2. \A c \in Name : e[c] = IF given /\ AnyErrata(env) /\ env[c] = Unset THEN file[c]
                             ELSE IF ~given /\ default /\ c # FORCE /\ env[c] = Unset
                             THEN Have(kernel, minver[c]) ELSE env[c]
  BY DEF Imported, Generated
<1>3. \A c \in Name : user[c] # Unset => e[c] = user[c]
  BY <1>1, <1>2
<1>4. UserDecides'
  <2>1. ASSUME NEW c \in Name, user[c] = Unset, given
        PROVE  initrd'[c] = file[c]
    <3>1. CASE AnyErrata(env)
      <4>1. PICK d \in Name : env[d] # Unset
        BY <3>1 DEF AnyErrata
      <4>2. e[d] # Unset
        BY <1>1, <1>3, <4>1
      <4>3. AnyErrata(e)
        BY <4>2 DEF AnyErrata
      <4>. QED
        BY <1>1, <1>2, <2>1, <3>1, <4>3
    <3>2. CASE ~AnyErrata(env)
      BY <1>1, <2>1, <3>2
    <3>. QED
      BY <3>1, <3>2
  <2>2. ASSUME NEW c \in Name, user[c] # Unset
        PROVE  initrd'[c] = user[c]
    <3>1. AnyErrata(e)
      BY <1>3, <2>2 DEF AnyErrata
    <3>. QED
      BY <1>1, <1>3, <2>2, <3>1
  <2>3. user' = user /\ given' = given /\ file' = file /\ Name' = Name
    BY <1>1 DEF Name
  <2>. HIDE DEF e
  <2>. QED
    BY <2>1, <2>2, <2>3 DEF UserDecides
<1>5. VersionDecides'
  <2>1. SUFFICES ASSUME default, ~given, user[FORCE] # "y", NEW c \in Commit, user[c] = Unset
                 PROVE  Errata(c)' <=> AtLeast(kernel, minver[c])
    BY <1>1 DEF VersionDecides, AtLeast, Part, Has
  <2>2. c \in Name /\ FORCE \in Name /\ c # FORCE
    BY CommitAssumption DEF Name, FORCE
  <2>3. e[c] = Have(kernel, minver[c]) /\ e[FORCE] = user[FORCE]
    BY <1>1, <1>2, <2>1, <2>2
  <2>4. minver[c] \in MinVersion /\ kernel \in KernelVersion
    BY DEF EInv
  <2>5. e[c] \in Val /\ (e[c] = "y" <=> AtLeast(kernel, minver[c]))
    BY <2>3, <2>4, HaveRight
  <2>6. AnyErrata(e)
    BY <2>2, <2>5 DEF AnyErrata, Val, Unset
  <2>7. initrd' = e
    BY <1>1, <2>6
  <2>. HIDE DEF e
  <2>. QED
    BY <2>1, <2>3, <2>5, <2>7 DEF Errata, FORCE
<1>6. kernel' \in KernelVersion' /\ minver' \in [Commit -> MinVersion]' /\ done'
  BY <1>1 DEF EInv, KernelVersion, MinVersion, Number
<1>. HIDE DEF e
<1>. QED
  BY <1>4, <1>5, <1>6 DEF EInv, ErrataDecided

LEMMA ErrataUnchanged ==
  ASSUME EInv, UNCHANGED errataVars
  PROVE  EInv'
<1>1. UNCHANGED <<kernel, minver, default, env, file, given, initrd, user, done>>
  BY DEF errataVars
<1>2. VersionDecides' <=> VersionDecides
  BY <1>1 DEF VersionDecides, AtLeast, Part, Has, Errata, FORCE
<1>3. UserDecides' <=> UserDecides
  BY <1>1 DEF UserDecides, Name, FORCE
<1>4. KernelVersion' = KernelVersion /\ MinVersion' = MinVersion
  BY DEF KernelVersion, MinVersion, Number
<1>. QED
  BY <1>1, <1>2, <1>3, <1>4 DEF EInv, ErrataDecided

-----------------------------------------------------------------------------
(* run_migration.  A migration that is complete has left the source for    *)
(* good; from then on only the guest or timeout ends the destination.      *)

MInv ==
    /\ pc \in {"launch", "prompt", "migrate"} => mig = "none"
    /\ pc \in {"key", "wait"} \/ migstatus = "completed" => mig = "completed"
    /\ mig = "completed" =>
          /\ src # "running" /\ dst \in {"running", "exited"}
          /\ dst = "exited" => m_status \in {result, 124}
    /\ pc = "done" => \/ m_ret = 2 /\ mig = "failed"
                      \/ m_ret \in {result, 124} /\ mig = "completed" /\ dst = "exited"

LEMMA MigrationInitInv == MigrationInit => MInv
  BY DEF MigrationInit, MInv

LEMMA ScriptStep ==
  ASSUME MInv, Script
  PROVE  MInv'
<1>1. CASE Launch
  BY <1>1 DEF Launch, MInv, files
<1>2. CASE SawPrompt
  BY <1>2 DEF SawPrompt, MInv, files, machines
<1>3. CASE Migrate
  BY <1>3 DEF Migrate, MInv, files
<1>4. CASE Query
  BY <1>4 DEF Query, Answer, MInv, files, machines
<1>5. CASE QueryAgain
  BY <1>5 DEF QueryAgain, Answer, QuitBoth, MInv, files
<1>6. CASE QuitSource
  BY <1>6 DEF QuitSource, Completed, MInv, files
<1>7. CASE PressKey
  BY <1>7 DEF PressKey, MInv, machines
<1>8. CASE WaitIncoming
  BY <1>8 DEF WaitIncoming, MInv, files, machines
<1>. QED
  BY <1>1, <1>2, <1>3, <1>4, <1>5, <1>6, <1>7, <1>8 DEF Script

LEMMA WorldStep ==
  ASSUME MInv, World \/ TimeOut
  PROVE  MInv'
<1>1. CASE Ask
  BY <1>1 DEF Ask, MInv
<1>2. CASE ReadKey
  BY <1>2 DEF ReadKey, MInv, files
<1>3. CASE GuestEnds
  BY <1>3 DEF GuestEnds, On, MInv, files
<1>4. CASE GuestAborts
  BY <1>4 DEF GuestAborts, On, MInv, files
<1>5. CASE Listen
  BY <1>5 DEF Listen, MInv, files
<1>6. CASE Transfer
  BY <1>6 DEF Transfer, MInv, files
<1>7. CASE TimeOut
  BY <1>7 DEF TimeOut, MInv, files
<1>. QED
  BY <1>1, <1>2, <1>3, <1>4, <1>5, <1>6, <1>7 DEF World

LEMMA MigrationUnchanged ==
  ASSUME MInv, UNCHANGED migrationVars
  PROVE  MInv'
  BY DEF MInv, migrationVars

-----------------------------------------------------------------------------
(* The three parts, of which one runs. *)

HarnessInv ==
    /\ IF part = "test" THEN VerdictInv ELSE st = "off" /\ verdict = "off"
    /\ IF part = "errata" THEN EInv ELSE ~done
    /\ MInv

LEMMA HarnessInitInv == HarnessInit => HarnessInv
<1>1. ErrataInit => EInv
  BY DEF ErrataInit, EInv, ErrataDecided, VersionDecides, UserDecides
<1>. QED
  BY <1>1, VerdictInit, MigrationInitInv DEF HarnessInit, TestRunOff, ErrataOff, HarnessInv

LEMMA HarnessStep ==
  ASSUME HarnessInv, [HarnessNext]_all
  PROVE  HarnessInv'
<1>1. CASE Testing(Next)
  <2>1. part = "test" /\ part' = part /\ UNCHANGED errataVars /\ UNCHANGED migrationVars
    BY <1>1 DEF Testing
  <2>2. VerdictInv'
    BY <1>1, <2>1, VerdictNext DEF Testing, HarnessInv
  <2>3. MInv' /\ ~done'
    BY <2>1, MigrationUnchanged DEF HarnessInv, errataVars
  <2>. QED
    BY <2>1, <2>2, <2>3 DEF HarnessInv
<1>2. CASE Probing(ErrataNext)
  <2>1. part = "errata" /\ part' = part /\ UNCHANGED vars /\ UNCHANGED migrationVars
    BY <1>2 DEF Probing
  <2>2. EInv'
    BY <1>2, <2>1, ErrataStep DEF Probing, ErrataNext, HarnessInv
  <2>3. MInv' /\ st' = st /\ verdict' = verdict
    BY <2>1, MigrationUnchanged DEF HarnessInv, vars
  <2>. QED
    BY <2>1, <2>2, <2>3 DEF HarnessInv
<1>3. CASE Migrating(MigrationNext)
  <2>1. part = "migration" /\ part' = part /\ UNCHANGED vars /\ UNCHANGED errataVars
    BY <1>3 DEF Migrating
  <2>2. MInv'
    BY <1>3, ScriptStep, WorldStep DEF Migrating, MigrationNext, HarnessInv
  <2>3. UNCHANGED <<st, verdict, done>>
    BY <2>1 DEF vars, errataVars
  <2>. QED
    BY <2>1, <2>2, <2>3 DEF HarnessInv
<1>4. CASE UNCHANGED all
  <2>1. UNCHANGED part /\ UNCHANGED vars /\ UNCHANGED errataVars /\ UNCHANGED migrationVars
    BY <1>4 DEF all
  <2>2. UNCHANGED <<st, verdict, done>>
    BY <2>1 DEF vars, errataVars
  <2>3. MInv' /\ (VerdictInv => VerdictInv') /\ (EInv => EInv')
    BY <2>1, MigrationUnchanged, VerdictUnchanged, ErrataUnchanged DEF HarnessInv
  <2>. QED
    BY <2>1, <2>2, <2>3 DEF HarnessInv
<1>. QED
  BY <1>1, <1>2, <1>3, <1>4 DEF HarnessNext

LEMMA HarnessInvariant == HarnessSpec => []HarnessInv
<1>1. HarnessInv /\ [HarnessNext]_all => HarnessInv'
  BY HarnessStep
<1>. QED
  BY <1>1, HarnessInitInv, PTL DEF HarnessSpec

\* For any groups, prefixes and number of reports: run() prints PASS exactly
\* for a guest whose own account was one, and SKIP, a signal or a timeout
\* only for what they stand for, whatever QEMU, its way out and the fixups
\* of arch-run.bash do to the exit code.
THEOREM VerdictMeantCorrect == HarnessSpec => []VerdictMeant
<1>1. HarnessInv => VerdictMeant
  BY VerdictSays DEF HarnessInv, VerdictMeant, PassIsEarned, StatusIsMeant
<1>. QED
  BY <1>1, HarnessInvariant, PTL

\* For any errata, versions and environment the guest's errata are what the
\* user says, and else what the order of versions says of the host's kernel
\* (env_generate_errata compares them number by number); and run_migration
\* returns 2 for a migration that failed, else the migrated guest's status,
\* whatever the order of the script's, the guest's and QEMU's steps.
THEOREM ScriptsRightCorrect == HarnessSpec => []ScriptsRight
<1>1. HarnessInv => ErrataDecided
  BY DEF HarnessInv, EInv, ErrataDecided, VersionDecides, UserDecides
<1>2. HarnessInv => ReturnsGuestStatus
  BY DEF HarnessInv, MInv, ReturnsGuestStatus
<1>3. HarnessInv => ScriptsRight
  BY <1>1, <1>2 DEF ScriptsRight
<1>. QED
  BY <1>3, HarnessInvariant, PTL
=============================================================================
