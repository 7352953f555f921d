-------------------------------- MODULE IoApic --------------------------------
(***************************************************************************)
(* x86/ioapic.c with ioapic_* of lib/x86/apic.c: the tests of the I/O APIC *)
(* and of the local APIC behind it, in the order of main.                  *)
(*                                                                         *)
(* main and each interrupt handler is a sequence of operations; CPU 1      *)
(* moves the line in the tests with two CPUs.  A pending interrupt is      *)
(* taken before the next operation once interrupts are on; handlers run    *)
(* with interrupts off.  The two controllers are external, with one of the *)
(* defects that the tests look for.                                        *)
(***************************************************************************)
EXTENDS Naturals, Sequences, FiniteSets

CONSTANTS IoApics, Smp      \* defects, "none" is one; whether there is a CPU 1

Lines == {14, 15}
Edge == "edge"
Level == "level"

Op(name, l, x) == [op |-> name, l |-> l, x |-> x]
Line(x) == Op("line", 14, x)
Toggle(l) == <<Op("line", l, 1), Op("line", l, 0)>>
SetMask(b) == Op("mask", 14, b)
\* ioapic_write_redir: the lower half, then the upper one.
Redir(l, vec, trig) == <<[op |-> "low", l |-> l, vec |-> vec, trig |-> trig], Op("high", l, 0)>>
SetRedir(vec, trig) == Redir(14, vec, trig)
Check(name, n) == <<[op |-> "check", name |-> name, n |-> n]>>
Counted(vec, n) == <<[op |-> "counted", vec |-> vec, n |-> n]>>
Reg(name) == <<[op |-> name]>>

\* An operation of a handler that runs only when it has counted to n.
If(n, ops) == [j \in 1..Len(ops) |->
                 [op |-> "if", then |-> ops[j].op, l |-> ops[j].l, x |-> ops[j].x, n |-> n]]

Count == Op("count", 14, 0)
Eoi == Op("eoi", 14, 0)
Vectors == {76, 77, 78, 66, 79, 98, 99, 90, 81, 82, 83, 84}   \* 90 is 0x9a
\* Priority: the vectors of one class (the first hexadecimal digit) tie.
Class(v) == CASE v = 66 -> 6 [] v \in 76..79 -> 7 [] v \in 81..84 -> 8 [] OTHER -> 9

Isr == [v \in Vectors |->
    CASE v = 76 -> <<Count, Eoi>>
      [] v \in {77, 99, 81, 82} -> <<Count, Line(0), Eoi>>
      [] v \in {78, 66} -> <<Count, Op("rip", 14, 0), Eoi>>
      [] v = 79 -> <<Op("tmr79", 14, 0), Line(0), Eoi>>
      [] v = 98 -> <<Count>> \o If(1, <<Line(0), Line(1)>>) \o <<Line(0), Eoi>>
      [] v = 90 -> <<Count>> \o If(2, <<Line(0)>>) \o <<Eoi>>
      [] v = 83 -> <<Count, SetMask(TRUE), Eoi>>
      [] v = 84 -> <<Count, Line(0), Op("high", 14, 1), Eoi>>]

Tmr(trig, expected) ==
    SetRedir(79, trig) \o Reg("tmr_before") \o (IF trig = Edge THEN Toggle(14) ELSE <<Line(1)>>)
    \o Check(trig, expected)
\* Mutant: the value that the handler stores is not reset first.
TmrSmp_Stale(trig, expected) ==
    SetRedir(79, trig) \o Reg("tmr_before") \o Reg(IF trig = Edge THEN "async_toggle" ELSE "async_set")
    \o Reg("tmr_wait") \o Check(trig, expected)

TmrSmp(trig, expected) ==
    Reg("tmr_reset") \o SetRedir(79, trig) \o Reg("tmr_before") \o Reg(IF trig = Edge THEN "async_toggle" ELSE "async_set")
    \o Reg("tmr_wait") \o Check(trig, expected)

Registers == Reg("reg_version") \o Reg("reg_id") \o Reg("reg_arbitration")
Delivery ==
    SetRedir(76, Edge) \o Toggle(14) \o Counted(76, 1)
    \o SetRedir(77, Level) \o <<Line(1)>> \o Counted(77, 1)
    \o SetRedir(78, Edge) \o Redir(15, 66, Edge) \o Reg("cli") \o Toggle(15) \o Toggle(14) \o Reg("sti")
    \o Check("simultaneous", 0)
LevelTests ==
    SetRedir(98, Level) \o <<Line(1)>> \o Counted(98, 1)
    \o SetRedir(99, Level) \o <<Line(1), Line(1)>> \o Counted(99, 2)
    \o SetRedir(90, Level) \o Reg("cli") \o <<Line(1)>> \o Reg("retrigger") \o Reg("sti") \o Counted(90, 2)
MaskTests ==
    SetRedir(81, Edge) \o <<SetMask(TRUE), Line(1), Line(0)>> \o Counted(81, 0)
    \o <<SetMask(FALSE), Line(1)>> \o Counted(81, 1)
    \o SetRedir(82, Level) \o <<SetMask(TRUE), Line(1)>> \o Counted(82, 0) \o <<SetMask(FALSE)>> \o Counted(82, 1)
    \o SetRedir(83, Level) \o <<Line(1), SetMask(FALSE)>> \o Counted(83, 2) \o <<Line(0), SetMask(FALSE)>>
TmrTests == Tmr(Edge, FALSE) \o Tmr(Level, FALSE) \o Tmr(Level, TRUE) \o Tmr(Edge, TRUE)
SelfReconfigure == Redir(14, 84, Level) \o <<Line(1)>> \o Check("reconfigure", 1)
SmpTests == TmrSmp(Edge, FALSE) \o TmrSmp(Level, FALSE) \o TmrSmp(Level, TRUE) \o TmrSmp(Edge, TRUE) \o SelfReconfigure

Main == Registers \o Delivery \o LevelTests \o MaskTests \o TmrTests \o (IF Smp THEN SmpTests ELSE <<>>)

VARIABLES
    ioapic,         \* its defect
    program,        \* Main
    m_at, handler,  \* where main is; the handler's vector and place, or <<>>
    if_flag, count, \* interrupts on; g_isr_* by vector
    rips,           \* g_66_rip and g_78_rip, and whether 66 came after 78
    g_tmr_79, tmr_before,
    cpu1,           \* what CPU 1 has still to do
    hw,             \* the controllers
    io_failed

vars == <<ioapic, program, m_at, handler, if_flag, count, rips, g_tmr_79, tmr_before, cpu1, hw, io_failed>>

Entry0 == [vec |-> 76, trig |-> Edge, mask |-> TRUE, remote_irr |-> FALSE, dest |-> 0]
Bits == {"id", "rest"}

Init ==
    /\ ioapic \in IoApics /\ program = Main
    /\ m_at = 1 /\ handler = <<>> /\ if_flag = TRUE /\ count = [v \in Vectors |-> 0]
    /\ rips = [v \in {66, 78} |-> 0] /\ g_tmr_79 = 2 /\ tmr_before = FALSE /\ cpu1 = <<>>
    /\ hw = [line |-> [l \in Lines |-> 0], redir |-> [l \in Lines |-> Entry0], irr |-> {}, isr |-> <<>>,
             tmr |-> {}, id |-> {}, arb |-> {}]
    /\ io_failed = FALSE

-----------------------------------------------------------------------------
(* The controllers (external) *)

\* Line l asserts its vector.
Accept(h, l) ==
    LET e == h.redir[l] IN
    IF e.mask \/ e.remote_irr THEN h
    ELSE [h EXCEPT !.irr = IF e.dest = 0 THEN @ \cup {e.vec} ELSE @,
                   !.redir[l].remote_irr = e.trig = Level /\ e.dest = 0,
                   !.tmr = IF e.dest # 0 THEN @
                           ELSE IF e.trig = Level /\ ioapic # "no tmr" THEN @ \cup {e.vec}
                           ELSE IF e.trig = Edge /\ ioapic # "tmr sticks" THEN @ \ {e.vec} ELSE @]
LevelAccept(h, l) == IF h.redir[l].trig = Level /\ h.line[l] = 1 THEN Accept(h, l) ELSE h

SetLine(h, l, x) ==
    LET n == [h EXCEPT !.line[l] = x] IN
    IF x = 1 /\ (h.line[l] = 0 \/ h.redir[l].trig = Level)
    THEN IF h.redir[l].mask /\ ioapic = "masked edge kept" THEN Accept([n EXCEPT !.redir[l].mask = FALSE], l)
         ELSE IF ioapic = "no coalescing" THEN Accept([n EXCEPT !.redir[l].remote_irr = FALSE], l) ELSE Accept(n, l)
    ELSE n

WriteLow(h, l, vec, trig, mask) ==
    LET n == [h EXCEPT !.redir[l].vec = vec, !.redir[l].trig = trig, !.redir[l].mask = mask,
                       !.redir[l].remote_irr = @ /\ trig = Level] IN
    IF ioapic = "no level on unmask" THEN n ELSE LevelAccept(n, l)

\* EOI of the interrupt in service; a level that is still high comes again.
EndOfInterrupt(h) ==
    LET v == Head(h.isr)
        n == [h EXCEPT !.isr = Tail(@),
                       !.redir = [l \in Lines |->
                           IF @[l].vec = v /\ ioapic # "remote irr stays" THEN [@[l] EXCEPT !.remote_irr = FALSE] ELSE @[l]]]
    IN IF ioapic = "no retrigger" \/ n.redir[14].vec # v THEN n ELSE LevelAccept(n, 14)

\* The interrupt that is taken next.
Pending == {v \in hw.irr : hw.isr = <<>> \/ Class(v) > Class(Head(hw.isr))}
Taken(v) ==
    /\ v \in Pending
    /\ \A u \in Pending : IF ioapic = "lowest first" THEN u >= v ELSE Class(u) < Class(v) \/ (Class(u) = Class(v) /\ u <= v)

-----------------------------------------------------------------------------
(* Handlers *)

Enter(v) ==
    /\ handler = <<>> /\ if_flag /\ Taken(v)
    /\ hw' = [hw EXCEPT !.irr = @ \ {v}, !.isr = <<v>> \o @]
    /\ handler' = <<v, 1>>
    /\ UNCHANGED <<ioapic, program, m_at, if_flag, count, rips, g_tmr_79, tmr_before, cpu1, io_failed>>

HandlerStep ==
    LET v == handler[1]
        raw == Isr[v][handler[2]]
        skip == raw.op = "if" /\ count[v] # raw.n
        name == IF raw.op = "if" THEN raw.then ELSE raw.op IN
    /\ handler # <<>>
    /\ handler' = IF handler[2] < Len(Isr[v]) THEN <<v, handler[2] + 1>> ELSE <<>>
    /\ hw' = IF skip THEN hw
             ELSE CASE name = "line" -> SetLine(hw, raw.l, raw.x)
                    [] name = "mask" -> WriteLow(hw, raw.l, hw.redir[raw.l].vec, hw.redir[raw.l].trig, raw.x)
                    [] name = "high" -> [hw EXCEPT !.redir[raw.l].dest = raw.x]
                    [] name = "eoi" -> EndOfInterrupt(hw)
                    [] OTHER -> hw
    /\ count' = IF name = "count" THEN [count EXCEPT ![v] = @ + 1] ELSE count
    /\ rips' = IF name = "rip" THEN [rips EXCEPT ![v] = IF v = 78 \/ count[78] > 0 THEN m_at ELSE 0] ELSE rips
    /\ g_tmr_79' = IF name = "tmr79" THEN (IF v \in hw.tmr THEN 1 ELSE 0) ELSE g_tmr_79
    /\ UNCHANGED <<ioapic, program, m_at, if_flag, tmr_before, cpu1, io_failed>>

-----------------------------------------------------------------------------
(* main *)

o == program[m_at]
Ready == handler = <<>> /\ ~(if_flag /\ Pending # {}) /\ m_at <= Len(program)
At(name) == Ready /\ o.op = name /\ m_at' = m_at + 1
others == <<ioapic, program, handler>>

Hardware ==
    /\ \/ At("line") /\ hw' = SetLine(hw, o.l, o.x)
       \/ At("low") /\ hw' = WriteLow(hw, o.l, o.vec, o.trig, FALSE)
       \/ At("high") /\ hw' = [hw EXCEPT !.redir[o.l].dest = o.x]
       \/ At("mask") /\ hw' = WriteLow(hw, o.l, hw.redir[o.l].vec, hw.redir[o.l].trig, o.x)
    /\ UNCHANGED <<others, if_flag, count, rips, g_tmr_79, tmr_before, cpu1, io_failed>>

Flag ==
    /\ \/ At("cli") /\ if_flag' = FALSE
       \/ At("sti") /\ if_flag' = TRUE
    /\ UNCHANGED <<others, count, rips, g_tmr_79, tmr_before, cpu1, hw, io_failed>>

\* "sti; hlt; cli" until the handler has run twice; hlt waits for an interrupt.
Retrigger ==
    /\ Ready /\ o.op = "retrigger"
    /\ IF count[90] = 2 THEN m_at' = m_at + 1 /\ if_flag' = FALSE
       ELSE Pending # {} /\ if_flag' = TRUE /\ UNCHANGED m_at
    /\ UNCHANGED <<others, count, rips, g_tmr_79, tmr_before, cpu1, hw, io_failed>>

TmrBefore ==
    /\ \/ At("tmr_before") /\ tmr_before' = (79 \in hw.tmr) /\ UNCHANGED g_tmr_79
       \/ At("tmr_reset") /\ g_tmr_79' = 2 /\ UNCHANGED tmr_before     \* -1 in the code
       \/ At("tmr_wait") /\ g_tmr_79 # 2 /\ UNCHANGED <<tmr_before, g_tmr_79>>
    /\ UNCHANGED <<others, if_flag, count, rips, cpu1, hw, io_failed>>

\* on_cpu_async waits until CPU 1 has left the function before.
Async ==
    /\ \/ At("async_toggle") /\ cpu1 = <<>> /\ cpu1' = Toggle(14)
       \/ At("async_set") /\ cpu1 = <<>> /\ cpu1' = <<Line(1)>>
    /\ UNCHANGED <<others, if_flag, count, rips, g_tmr_79, tmr_before, hw, io_failed>>

Cpu1Step ==
    /\ cpu1 # <<>>
    /\ hw' = SetLine(hw, Head(cpu1).l, Head(cpu1).x)
    /\ cpu1' = Tail(cpu1)
    /\ UNCHANGED <<others, m_at, if_flag, count, rips, g_tmr_79, tmr_before, io_failed>>

\* ioapic_reg_version, ioapic_reg_id, ioapic_arbitration_id: a register after
\* its complement was written, by the bits that changed.
RegVersion ==
    /\ At("reg_version") /\ io_failed' = (io_failed \/ ioapic = "version writable")
    /\ UNCHANGED <<others, if_flag, count, rips, g_tmr_79, tmr_before, cpu1, hw>>
RegId ==
    LET new == (Bits \ hw.id) \cap (IF ioapic = "id wide" THEN Bits ELSE {"id"}) IN
    /\ At("reg_id") /\ hw' = [hw EXCEPT !.id = new]
    /\ io_failed' = (io_failed \/ (hw.id \ new) \cup (new \ hw.id) # {"id"})
    /\ UNCHANGED <<others, if_flag, count, rips, g_tmr_79, tmr_before, cpu1>>
RegArbitration ==
    LET set == IF ioapic = "arb apart" THEN {} ELSE {"id"}
        kept == IF ioapic = "arb writable" THEN {} ELSE set IN
    /\ At("reg_arbitration") /\ hw' = [hw EXCEPT !.id = {"id"}, !.arb = kept]
    /\ io_failed' = (io_failed \/ set # {"id"} \/ kept # {"id"})
    /\ UNCHANGED <<others, if_flag, count, rips, g_tmr_79, tmr_before, cpu1>>

Holds(c) ==
    CASE c.name = "simultaneous" -> count[66] > 0 /\ count[78] > 0 /\ rips[66] = rips[78]
      [] c.name = "reconfigure" -> count[84] = 1 /\ ~hw.redir[14].remote_irr
      [] c.name = Edge -> tmr_before = c.n /\ g_tmr_79 = 0
      [] c.name = Level -> tmr_before = c.n /\ g_tmr_79 # 0

Report ==
    /\ \/ At("check") /\ io_failed' = (io_failed \/ ~Holds(o))
       \/ At("counted") /\ io_failed' = (io_failed \/ count[o.vec] # o.n)
    /\ UNCHANGED <<others, if_flag, count, rips, g_tmr_79, tmr_before, cpu1, hw>>

Next ==
    \/ \E v \in Vectors : Enter(v)
    \/ HandlerStep \/ Hardware \/ Flag \/ Retrigger \/ TmrBefore \/ Async \/ Cpu1Step
    \/ RegVersion \/ RegId \/ RegArbitration \/ Report

Spec == Init /\ [][Next]_vars
-----------------------------------------------------------------------------
\* Whenever CPU 1 moves the line, right controllers pass every report and main
\* comes to its end; each defect fails a report or leaves main waiting.
IoApicVerdict ==
    LET end == m_at > Len(program) IN
    /\ ioapic = "none" => ~io_failed /\ (end \/ ENABLED Next)
    /\ ioapic # "none" => ~(end /\ ~io_failed)
=============================================================================
