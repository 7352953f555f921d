------------------------------- MODULE ApicTest -------------------------------
(***************************************************************************)
(* x86/apic.c with the modes of lib/x86/apic.c: the tests of the local     *)
(* APIC's modes and identifiers, of broadcasts and self-IPIs, of the       *)
(* timer's modes, and of NMIs that two CPUs send.                          *)
(*                                                                         *)
(* apic_ops is one global variable; the mode is each CPU's own.  Straight  *)
(* tests are sequences of operations of a CPU; the NMI tests are two       *)
(* programs that meet in counters.  The processor is external and may have *)
(* one of the defects that the tests look for.                             *)
(***************************************************************************)
EXTENDS Integers, Sequences

CONSTANTS Apics,        \* defects; "none" is one
          Rounds,       \* rounds of the NMI tests (30000 and 1000000 in the code)
          Tmict,        \* initial count of the timer
          Pace          \* the timer's ticks during one operation: 1..Pace

VARIABLES
    apic,                   \* the defect
    x2,                     \* CPUID: x2APIC is supported
    prog, a_at,             \* the operations of main, the one that is next
    mode,                   \* [{0, 1} -> "off", "xapic", "x2apic"]
    ids,                    \* xAPIC identifiers
    ops,                    \* apic_ops
    away,                   \* MSR_IA32_APICBASE has the alternate base
    lvt, tmict, tmcct,      \* timer
    pc0, pc1,               \* the NMI tests on CPU 0 and CPU 1
    c0, c1,                 \* [1..2 -> cpu0_nmi_ctr*, cpu1_nmi_ctr*]
    nmi,                    \* NMIs pending at CPU 0 and at CPU 1
    in_nmi,                 \* CPUs in the NMI handler
    ipi,                    \* vector 0x44 is pending at CPU 0
    nmi_received, nmi_flushed, nmi_done,
    nmi_private, nmi_counter, nmi_hlt_counter, sti_loop_active,
    a_failed

modes == <<mode, ids, ops, away>>
clock == <<lvt, tmict, tmcct>>
nmis == <<pc0, pc1, c0, c1, nmi, in_nmi, ipi, nmi_received, nmi_flushed, nmi_done,
          nmi_private, nmi_counter, nmi_hlt_counter, sti_loop_active>>
vars == <<apic, x2, prog, a_at, modes, clock, nmis, a_failed>>

-----------------------------------------------------------------------------
(* The programs *)

O(op, c) == <<[op |-> op, c |-> c]>>
\* Write to MSR_IA32_APICBASE; gp is whether the test asks for an exception.
W(to, gp) == <<[op |-> "wrmsr", c |-> 0, to |-> to, gp |-> gp]>>
Id(c, id) == <<[op |-> "id", c |-> c, id |-> id]>>
WriteId(c, id, gp) == <<[op |-> "write_id", c |-> c, id |-> id, gp |-> gp]>>
Mmio(seen) == <<[op |-> "mmio", c |-> 0, seen |-> seen]>>
Use(c) == O("use", c)

\* __test_apic_id, on CPU 1.  m is the mode that it finds.
TestApicId(m) ==
    (IF m = "x2apic" THEN O("reset_apic", 1) ELSE <<>>)
    \o Id(1, 1) \o WriteId(1, 2, FALSE) \o Id(1, 2)
    \o (IF x2 THEN O("enable_x2apic", 1) \o WriteId(1, 2, TRUE) \o Id(1, 1) ELSE <<>>)
    \o O("reset_apic", 1) \o Id(1, 1) \o O("restore_id", 1)
    \o (IF m = "x2apic" THEN O("enable_x2apic", 1) ELSE <<>>)

VerifyDisabledApicMmio == Mmio(FALSE)

TestApicDisable(m) ==
    Use(0) \o O("disable_apic", 0) \o VerifyDisabledApicMmio
    \o O("reset_apic", 0) \o Use(0) \o Mmio(TRUE)
    \o (IF x2 THEN O("enable_x2apic", 0) \o Use(0) \o VerifyDisabledApicMmio
                   \o (IF m # "x2apic" THEN O("reset_apic", 0) ELSE <<>>)
        ELSE <<>>)

TestEnableX2apic ==
    IF x2
    THEN O("enable_x2apic", 0) \o W("invalid", TRUE) \o W("xapic", TRUE) \o W("off", FALSE)
         \o W("invalid", TRUE) \o W("x2apic", TRUE) \o W("xapic", FALSE) \o W("invalid", TRUE)
         \o W("x2apic", FALSE) \o Use(0)
    ELSE W("x2apic", TRUE)

TestApicbase(m) ==
    Use(0) \o W("off", FALSE) \o O("relocate", 0) \o Mmio(TRUE) \o W("reserved", TRUE)
    \o W(m, FALSE) \o O("default base", 0) \o Use(0)

TestLapicExistence == Use(0) \o O("version", 0)

\* The interrupt has come when the nop after the ICR write is done.
TestSelfIpi == Use(0) \o O("self_ipi", 0)

TestPhysicalBroadcast == (IF x2 THEN O("enable_x2apic", 0) ELSE <<>>) \o Use(0) \o O("broadcast", 0)

\* Timer: set TMICT or the mode, wait until the count is below the half or has
\* come to zero or around, and compare.
T(op, x) == <<[op |-> op, c |-> 0, x |-> x]>>
UntilHalf == T("half", 0)
UntilZero == UntilHalf \o T("zero", 0)

\* The loop ends with the first interrupt; the report asks whether the
\* interval was over.
TestApicTimerOneShot == T("lvt", "oneshot") \o T("tmict", Tmict) \o T("irq", 0)

\* Where CPUID has it: a deadline that is now interrupts at once and clears
\* itself.
TestTscDeadlineTimer == O("deadline", 0)

TestApicChangeMode ==
    T("tmict", Tmict) \o T("lvt", "periodic") \o T("is", "TMICT kept")
    \o T("lvt", "oneshot") \o T("tmict", Tmict) \o T("is", "nonzero") \o UntilZero \o T("is", "zero")
    \o T("tmict", Tmict) \o UntilHalf \o T("lvt", "periodic") \o T("is", "nonzero") \o T("is", "low")
    \o UntilZero \o T("is", "high")
    \o UntilHalf \o T("lvt", "oneshot") \o T("is", "low") \o UntilZero \o T("is", "zero")
    \o T("lvt", "periodic") \o T("is", "zero")

Main(m) ==
    TestLapicExistence \o TestApicId(m) \o TestApicDisable(m) \o TestEnableX2apic \o TestApicbase(m)
    \o TestSelfIpi \o TestPhysicalBroadcast \o O("sti_nmi", 0) \o O("multiple_nmi", 0)
    \o TestApicTimerOneShot \o TestApicChangeMode \o TestTscDeadlineTimer

Init ==
    /\ apic \in Apics /\ x2 \in BOOLEAN
    /\ LET m == IF x2 THEN "x2apic" ELSE "xapic" IN    \* cstart64.S:214,227
       prog = Main(m) /\ ops = m /\ mode = [c \in {0, 1} |-> m]
    /\ a_at = 1 /\ ids = [c \in {0, 1} |-> c] /\ away = FALSE
    /\ lvt = "oneshot" /\ tmict = 0 /\ tmcct = 0
    /\ pc0 = "off" /\ pc1 = "off" /\ c0 = <<0, 0>> /\ c1 = <<0, 0>> /\ nmi = [c \in {0, 1} |-> 0]
    /\ in_nmi = {} /\ ipi = FALSE /\ nmi_received = 0 /\ nmi_flushed = FALSE /\ nmi_done = FALSE
    /\ nmi_private = 0 /\ nmi_counter = 0 /\ nmi_hlt_counter = 0 /\ sti_loop_active = FALSE
    /\ a_failed = FALSE

o == prog[a_at]
At(name) == a_at <= Len(prog) /\ o.op = name /\ pc0 = "off" /\ a_at' = a_at + 1
world == <<apic, x2, prog>>

-----------------------------------------------------------------------------
(* Modes *)

\* Which writes of the base register raise #GP.
Faults(from, to) ==
    \/ to = "reserved" /\ apic # "reserved bits"
    \/ to = "invalid" /\ apic # "invalid mode"
    \/ to = "x2apic" /\ ~x2 /\ apic # "unsupported"
    \/ from = "x2apic" /\ to = "xapic" /\ apic # "x2 to x"
    \/ from = "off" /\ to = "x2apic" /\ apic # "off to x2"
Written(c, to) == IF Faults(mode[c], to) \/ to \in {"reserved", "invalid"} THEN mode
                  ELSE [mode EXCEPT ![c] = to]

Wrmsr ==
    /\ At("wrmsr")
    /\ mode' = Written(0, o.to)
    /\ a_failed' = (a_failed \/ o.gp # Faults(mode[0], o.to))
    /\ UNCHANGED <<world, ids, ops, away, clock, nmis>>

\* A reset of the APIC restores the identifier.
ResetIds(c, from, to) == IF from # "off" /\ to = "off" /\ apic # "keeps id" THEN [ids EXCEPT ![c] = c] ELSE ids

\* Mutant: apic_ops stays what it was.
SetMode_KeepOps(c, to, o2) ==
    /\ mode' = [mode EXCEPT ![c] = to]
    /\ ids' = ResetIds(c, mode[c], IF to = "x2apic" THEN to ELSE "off")
    /\ UNCHANGED ops

SetMode(c, to, o2) ==
    /\ mode' = [mode EXCEPT ![c] = to]
    /\ ids' = ResetIds(c, mode[c], IF to = "x2apic" THEN to ELSE "off")
    /\ ops' = o2

\* enable_x2apic, disable_apic, reset_apic.
ChangeMode ==
    /\ \/ At("enable_x2apic") /\ SetMode(o.c, "x2apic", "x2apic")
       \/ At("disable_apic") /\ SetMode(o.c, "off", "xapic")
       \/ At("reset_apic") /\ SetMode(o.c, "xapic", "xapic")
    /\ UNCHANGED <<world, away, clock, nmis, a_failed>>

Relocate ==
    /\ \/ At("relocate") /\ mode' = [mode EXCEPT ![0] = "xapic"] /\ away' = TRUE
       \/ At("default base") /\ away' = FALSE /\ UNCHANGED mode
    /\ UNCHANGED <<world, ids, ops, clock, nmis, a_failed>>

\* apic_read, apic_write, apic_icr_write, apic_id work in the mode that
\* apic_ops is for.
Works(c) == mode[c] = ops
ApicUse ==
    /\ \/ At("use") /\ a_failed' = (a_failed \/ ~Works(o.c))
       \/ At("id") /\ a_failed' = (a_failed \/ ~Works(o.c) \/ o.id # (IF ops = "x2apic" THEN o.c ELSE ids[o.c]))
       \/ At("mmio") /\ a_failed' = (a_failed \/ o.seen # (mode[0] = "xapic" \/ apic = "mmio when off"))
       \/ At("version") /\ a_failed' = (a_failed \/ apic = "version")
       \/ At("self_ipi") /\ a_failed' = (a_failed \/ apic \in {"late self ipi", "no self ipi"})
       \/ At("deadline") /\ a_failed' = (a_failed \/ apic \in {"no deadline irq", "deadline kept"})
       \/ At("broadcast") /\ a_failed' = (a_failed \/ mode[0] # mode[1] \/ (x2 /\ apic = "x2 broadcast"))
    /\ UNCHANGED <<world, modes, clock, nmis>>

WriteApicId ==
    LET gp == mode[o.c] = "x2apic" /\ apic # "x2 id" IN
    /\ At("write_id")
    /\ ids' = IF mode[o.c] = "xapic" THEN [ids EXCEPT ![o.c] = o.id] ELSE ids
    /\ a_failed' = (a_failed \/ gp # o.gp \/ ~Works(o.c))
    /\ UNCHANGED <<world, mode, ops, away, clock, nmis>>

\* "old KVMs do not reset xAPIC ID": the test writes back the one it found.
\* No later test reads it.
RestoreId ==
    /\ At("restore_id")
    /\ ids' = [ids EXCEPT ![o.c] = IF @ # o.c /\ mode[o.c] = "xapic" THEN o.c ELSE @]
    /\ UNCHANGED <<world, mode, ops, away, clock, nmis, a_failed>>

-----------------------------------------------------------------------------
(* Timer: every operation takes 1..Pace ticks. *)

Ticked(n) ==
    IF tmcct = 0 THEN 0
    ELSE IF tmcct > n THEN tmcct - n
    ELSE IF (lvt = "periodic" /\ apic # "no reload") \/ apic = "oneshot reloads" THEN tmict + tmcct - n
    ELSE 0

Is(x, count) ==
    CASE x = "TMICT kept" -> tmict = Tmict
      [] x = "nonzero" -> count > 0
      [] x = "zero" -> count = 0
      [] x = "low" -> count < Tmict \div 2
      [] x = "high" -> count > Tmict \div 2

TimerStep ==
    \E n \in 1..Pace :
      LET count == Ticked(n) IN
      /\ \/ At("tmict") /\ tmict' = o.x /\ tmcct' = o.x /\ UNCHANGED <<lvt, a_failed>>
         \/ /\ At("lvt") /\ lvt' = o.x
            /\ tmict' = IF apic = "mode clears" THEN 0 ELSE tmict
            /\ tmcct' = IF apic = "mode restarts" THEN tmict ELSE count
            /\ UNCHANGED a_failed
         \/ /\ At("is") /\ a_failed' = (a_failed \/ ~Is(o.x, count))
            /\ tmcct' = count /\ UNCHANGED <<lvt, tmict>>
         \/ At("half") /\ count <= tmict \div 2 /\ tmcct' = count /\ UNCHANGED <<lvt, tmict, a_failed>>
         \/ /\ At("zero") /\ (count = 0 \/ count > tmict \div 2)
            /\ tmcct' = count /\ UNCHANGED <<lvt, tmict, a_failed>>
         \/ /\ At("irq") /\ (tmcct <= n \/ apic = "early irq") /\ apic # "no timer irq"
            /\ a_failed' = (a_failed \/ tmcct > n)
            /\ tmcct' = count /\ UNCHANGED <<lvt, tmict>>
         \/ /\ a_at <= Len(prog) /\ o.op = "irq" /\ pc0 = "off" /\ tmcct > n /\ apic # "early irq"
            /\ tmcct' = count /\ UNCHANGED <<a_at, lvt, tmict, a_failed>>
         \* the loops of wait_until_tmcct_is_zero
         \/ /\ a_at <= Len(prog) /\ o.op \in {"half", "zero"} /\ pc0 = "off" /\ count > 0
            /\ (count > tmict \div 2) = (o.op = "half")
            /\ tmcct' = count /\ UNCHANGED <<a_at, lvt, tmict, a_failed>>
      /\ UNCHANGED <<world, modes, nmis>>

-----------------------------------------------------------------------------
(* NMIs.  One that is pending is taken before the next instruction, not    *)
(* after sti, and not in the handler, during which one more may wait.      *)

Quiet(c) == nmi[c] = 0 /\ c \notin in_nmi
SendNmi(c) == nmi' = [nmi EXCEPT ![c] = IF @ < (IF c \in in_nmi THEN 1 ELSE 2) THEN @ + 1 ELSE @]
Nothing == <<world, modes, clock>>

Nmi(c) ==
    /\ nmi[c] > 0 /\ c \notin in_nmi /\ ~(c = 1 /\ pc1 = "post_sti" /\ apic # "nmi after sti")
    /\ nmi' = [nmi EXCEPT ![c] = @ - 1]
    /\ in_nmi' = in_nmi \cup {c}
    /\ IF pc0 \in {"s1", "s2"}
       THEN /\ nmi_private' = nmi_private + 1
            /\ nmi_hlt_counter' = IF pc1 = "post_sti" THEN nmi_hlt_counter + 1 ELSE nmi_hlt_counter
            /\ UNCHANGED nmi_received
       ELSE nmi_received' = nmi_received + 1 /\ UNCHANGED <<nmi_private, nmi_hlt_counter>>
    /\ UNCHANGED <<Nothing, a_at, pc0, pc1, c0, c1, ipi, nmi_flushed, nmi_done, nmi_counter, sti_loop_active, a_failed>>

NmiIret(c) ==
    /\ c \in in_nmi /\ in_nmi' = in_nmi \ {c}
    /\ UNCHANGED <<Nothing, a_at, pc0, pc1, c0, c1, nmi, ipi, nmi_received, nmi_flushed, nmi_done,
                   nmi_private, nmi_counter, nmi_hlt_counter, sti_loop_active, a_failed>>

\* flush_nmi, after the NMIs that came before it.
FlushNmi ==
    /\ ipi /\ Quiet(0) /\ ipi' = FALSE /\ nmi_flushed' = TRUE
    /\ UNCHANGED <<Nothing, a_at, pc0, pc1, c0, c1, nmi, in_nmi, nmi_received, nmi_done,
                   nmi_private, nmi_counter, nmi_hlt_counter, sti_loop_active, a_failed>>

\* test_sti_nmi on CPU 0: send one NMI, wait until CPU 1 has counted it.
TestStiNmi ==
    /\ Quiet(0)
    /\ \/ /\ At("sti_nmi") /\ pc1 = "off" /\ pc0' = "s1" /\ pc1' = "sti" /\ sti_loop_active' = TRUE
          /\ UNCHANGED <<nmi, c0, a_failed>>
       \/ /\ pc0 = "s1" /\ nmi_counter < Rounds /\ SendNmi(1) /\ pc0' = "s2" /\ c0' = <<nmi_counter, 0>>
          /\ UNCHANGED <<a_at, pc1, sti_loop_active, a_failed>>
       \/ /\ pc0 = "s2" /\ nmi_counter # c0[1] /\ pc0' = "s1"
          /\ UNCHANGED <<a_at, pc1, nmi, c0, sti_loop_active, a_failed>>
       \/ /\ pc0 = "s1" /\ nmi_counter >= Rounds /\ sti_loop_active' = FALSE /\ pc0' = "off" /\ c0' = <<0, 0>>
          /\ a_failed' = (a_failed \/ nmi_hlt_counter # 0)
          /\ UNCHANGED <<a_at, pc1, nmi>>
    /\ UNCHANGED <<Nothing, c1, in_nmi, ipi, nmi_received, nmi_flushed, nmi_done, nmi_private,
                   nmi_counter, nmi_hlt_counter>>

StiLoop ==
    /\ pc1 \in {"sti", "post_sti", "cli", "copy"} /\ 1 \notin in_nmi
    /\ nmi[1] = 0 \/ (pc1 = "post_sti" /\ apic # "nmi after sti")
    /\ pc1' = CASE pc1 = "sti" -> IF sti_loop_active THEN "post_sti" ELSE "off"
                [] pc1 = "post_sti" -> "cli" [] pc1 = "cli" -> "copy" [] OTHER -> "sti"
    /\ nmi_counter' = IF pc1 = "copy" THEN nmi_private ELSE nmi_counter
    /\ UNCHANGED <<Nothing, a_at, pc0, c0, c1, nmi, in_nmi, ipi, nmi_received, nmi_flushed, nmi_done,
                   nmi_private, nmi_hlt_counter, sti_loop_active, a_failed>>

\* test_multiple_nmi on CPU 0, kick_me_nmi on CPU 1.
TestMultipleNmi ==
    /\ Quiet(0)
    /\ \/ /\ At("multiple_nmi") /\ pc1 = "off" /\ pc0' = "m1" /\ pc1' = "k1"
          /\ UNCHANGED <<c0, nmi, nmi_received, nmi_flushed, nmi_done, a_failed>>
       \/ /\ pc0 = "m1" /\ c0[1] < Rounds /\ nmi_flushed' = FALSE /\ nmi_received' = 0
          /\ c0' = [c0 EXCEPT ![1] = @ + 1] /\ pc0' = "m2"
          /\ UNCHANGED <<a_at, pc1, nmi, nmi_done, a_failed>>
       \/ /\ pc0 = "m2" /\ c1[1] = c0[1] /\ pc0' = "m3" /\ SendNmi(0)
          /\ UNCHANGED <<a_at, pc1, c0, nmi_received, nmi_flushed, nmi_done, a_failed>>
       \/ /\ pc0 = "m3" /\ nmi_flushed
          /\ IF nmi_received # 2 THEN pc0' = "m5" /\ a_failed' = TRUE /\ UNCHANGED c0
             ELSE pc0' = "m4" /\ c0' = [c0 EXCEPT ![2] = @ + 1] /\ UNCHANGED a_failed
          /\ UNCHANGED <<a_at, pc1, nmi, nmi_received, nmi_flushed, nmi_done>>
       \/ /\ pc0 = "m4" /\ c1[2] = c0[2] /\ pc0' = "m1"
          /\ UNCHANGED <<a_at, pc1, c0, nmi, nmi_received, nmi_flushed, nmi_done, a_failed>>
       \/ /\ pc0 = "m5" \/ (pc0 = "m1" /\ c0[1] = Rounds)
          /\ nmi_done' = TRUE /\ pc0' = "off"
          /\ UNCHANGED <<a_at, pc1, c0, nmi, nmi_received, nmi_flushed, a_failed>>
    /\ UNCHANGED <<Nothing, c1, in_nmi, ipi, nmi_private, nmi_counter, nmi_hlt_counter, sti_loop_active>>

KickMeNmi ==
    /\ \/ pc1 = "k1" /\ ~nmi_done /\ c1' = [c1 EXCEPT ![1] = @ + 1] /\ pc1' = "k2" /\ UNCHANGED <<nmi, ipi>>
       \/ pc1 \in {"k1", "k2"} /\ nmi_done /\ pc1' = "end" /\ UNCHANGED <<c1, nmi, ipi>>
       \/ pc1 = "k2" /\ ~nmi_done /\ c1[1] = c0[1] /\ SendNmi(0) /\ pc1' = "k3" /\ UNCHANGED <<c1, ipi>>
       \/ pc1 = "k3" /\ ipi' = TRUE /\ pc1' = "k4" /\ UNCHANGED <<c1, nmi>>
       \/ pc1 = "k4" /\ c1' = [c1 EXCEPT ![2] = @ + 1] /\ pc1' = "k5" /\ UNCHANGED <<nmi, ipi>>
       \/ pc1 = "k5" /\ (nmi_done \/ c1[2] = c0[2]) /\ pc1' = "k1" /\ UNCHANGED <<c1, nmi, ipi>>
    /\ UNCHANGED <<Nothing, a_at, pc0, c0, in_nmi, nmi_received, nmi_flushed, nmi_done,
                   nmi_private, nmi_counter, nmi_hlt_counter, sti_loop_active, a_failed>>

Next ==
    \/ Wrmsr \/ ChangeMode \/ Relocate \/ ApicUse \/ WriteApicId \/ RestoreId
    \/ TimerStep
    \/ \E c \in {0, 1} : Nmi(c) \/ NmiIret(c)
    \/ FlushNmi \/ TestStiNmi \/ StiLoop \/ TestMultipleNmi \/ KickMeNmi

Spec == Init /\ [][Next]_vars

-----------------------------------------------------------------------------
\* On a right processor every use of the APIC meets the mode that apic_ops is
\* for, the NMIs of both CPUs are counted in every round, no report fails and
\* neither CPU waits for ever; each defect fails a report or stops main.  When
\* main is over, each APIC has its own identifier, on every processor.
ApicVerdict ==
    LET end == a_at > Len(prog) /\ pc1 = "end" IN
    /\ apic = "none" => ~a_failed /\ (end \/ ENABLED Next)
    /\ apic # "none" /\ (apic \in {"x2 to x", "off to x2", "x2 id", "x2 broadcast", "invalid mode"} => x2)
       /\ (apic = "unsupported" => ~x2) => ~(end /\ ~a_failed)
    /\ end => \A c \in {0, 1} : ids[c] = c
=============================================================================
