-------------------------------- MODULE Wakeup --------------------------------
(***************************************************************************)
(* Tests that stop the processor and rely on something else to start it:   *)
(*   x86/init.c                 five ways to send INIT, in one run that    *)
(*                              each reset starts again from main          *)
(*   x86/s3.c                   sleep until the alarm of the RTC           *)
(*   x86/tscdeadline_latency.c  hlt until the timer has fired often enough *)
(*   x86/asyncpf.c              hlt until the host has the page            *)
(* The program chosen keeps its state in w.  The machine (reset logic,     *)
(* firmware, RTC, timer, host) is external.                                *)
(***************************************************************************)
EXTENDS Integers, Sequences, FiniteSets

CONSTANTS
    TableSize,      \* TABLE_SIZE
    Pages,          \* MEM / 4096
    WakePrograms    \* "init", "s3", "tscdeadline", "asyncpf"

ASSUME WakeAssumption == TableSize \in Nat /\ Pages \in Nat \ {0}

VARIABLES w_prog, w

wakeVars == <<w_prog, w>>

Is(p, pc) == w_prog = p /\ w.pc = pc

-----------------------------------------------------------------------------
(* init.c.  state, bad and resumed live at 0x2000 and survive a reset.     *)
(* resets[k]: what the k-th way to reset does: "init" goes through the     *)
(* resume vector once; "hard" clears port 92 as well; "cold" does not      *)
(* visit the vector, "twice" does so two times, "nothing" is no reset.     *)

InitStart ==
    [pc : {"main"}, state : {0}, bad : {{}}, resumed : {0}, port92 : {0},
     resets : {[j \in 0..4 |-> IF j = k THEN r ELSE "init"] : k \in 0..4, r \in {"init", "hard", "cold", "twice", "nothing"}}]

\* main up to cli; hlt: the checks of the reset before, then the next way to reset.
InitMain ==
    /\ Is("init", "main")
    /\ w' = [w EXCEPT
        !.bad = @ \union {b \in {2} : w.state # 0 /\ w.resumed # 1} \union {b \in {1} : w.state # 0 /\ w.resumed # 0 /\ w.port92 = 0},
        !.resumed = 0,
        !.state = @ + 1,
        !.port92 = IF w.state = 0 THEN 1 ELSE @,
        !.pc = IF w.state = 5 THEN "exit" ELSE "halted"]
    /\ UNCHANGED w_prog

\* The reset, the firmware and resume_start: resumed is counted, then the program starts again.
Reset ==
    /\ Is("init", "halted")
    /\ LET kind == w.resets[w.state - 1] IN
        /\ kind # "nothing"
        /\ w' = [w EXCEPT
            !.pc = "main",
            !.resumed = @ + (CASE kind = "cold" -> 0 [] kind = "twice" -> 2 [] OTHER -> 1),
            !.port92 = IF kind \in {"hard", "cold"} THEN 0 ELSE @]
    /\ UNCHANGED w_prog

-----------------------------------------------------------------------------
(* s3.c.  flag is the word at 0.  The alarm is due every second; late: the *)
(* processor may still run after the outw that puts the machine to sleep.  *)

S3Start == [pc : {"arm"}, flag : {1}, armed : {FALSE}, fired : {FALSE}, repeats : {TRUE}, late : BOOLEAN, code : {-1}]

\* Mutant: the alarm is set to one second of one minute.
Arm_Once ==
    /\ Is("s3", "arm")
    /\ w' = [w EXCEPT !.pc = "clear", !.armed = TRUE, !.repeats = FALSE]
    /\ UNCHANGED w_prog

\* After the edge of UIP: all of the alarm is "don't care", so it comes every second; AIE.
Arm ==
    /\ Is("s3", "arm")
    /\ w' = [w EXCEPT !.pc = "clear", !.armed = TRUE]
    /\ UNCHANGED w_prog

Clear ==
    /\ Is("s3", "clear")
    /\ w' = [w EXCEPT !.pc = "outw", !.flag = 0]
    /\ UNCHANGED w_prog

Outw ==
    /\ Is("s3", "outw")
    /\ w' = [w EXCEPT !.pc = IF w.late THEN "loop" ELSE "asleep"]
    /\ UNCHANGED w_prog

\* while (1) *(volatile int *)0 = 1
Loop ==
    /\ Is("s3", "loop")
    /\ \E pc \in {"loop", "asleep"} : w' = [w EXCEPT !.flag = 1, !.pc = pc]
    /\ UNCHANGED w_prog

\* A second has passed.  Asleep, the firmware goes to resume_start, which writes the flag to 0xf4.
Alarm ==
    /\ w_prog = "s3" /\ w.armed /\ w.pc # "exit" /\ (w.repeats \/ ~w.fired)
    /\ w' = [w EXCEPT !.fired = TRUE, !.pc = IF @ = "asleep" THEN "exit" ELSE @, !.code = IF w.pc = "asleep" THEN w.flag ELSE @]
    /\ UNCHANGED w_prog

-----------------------------------------------------------------------------
(* tscdeadline_latency.c.  count is tdt_count, up to 2; size and breakmax  *)
(* are arguments.                                                          *)

TscStart == [pc : {"hlt"}, armed : {TRUE}, count : {0}, idx : {0}, hitmax : {FALSE}, size : 1..(TableSize + 1), breakmax : BOOLEAN,
             missed : {FALSE}]

\* tsc_deadline_timer_isr, with a latency that may be above breakmax: then the timer is not set again.
Isr ==
    /\ w_prog = "tscdeadline" /\ w.pc # "exit" /\ w.armed
    /\ \E slow \in BOOLEAN :
        LET hit == w.breakmax /\ w.count >= 1 /\ slow IN
        w' = [w EXCEPT
            !.count = IF @ < 2 THEN @ + 1 ELSE @,
            !.idx = IF @ < TableSize /\ w.count >= 1 THEN @ + 1 ELSE @,
            !.hitmax = @ \/ hit,
            !.armed = ~hit,
            !.missed = @ \/ (hit /\ w.pc = "hlt"),
            !.pc = IF @ = "halted" THEN "check" ELSE @]
    /\ UNCHANGED w_prog

Hlt ==
    /\ Is("tscdeadline", "hlt")
    /\ w' = [w EXCEPT !.pc = "halted"]
    /\ UNCHANGED w_prog

Check ==
    /\ Is("tscdeadline", "check")
    /\ w' = [w EXCEPT !.pc = IF w.hitmax \/ w.idx >= w.size THEN "exit" ELSE "hlt"]
    /\ UNCHANGED w_prog

-----------------------------------------------------------------------------
(* asyncpf.c.  host[p]: the host has page p; pte[p]: the guest's PTE is    *)
(* present; token: the page whose "ready" is due, 0 if none; phys # 0: the *)
(* handler waits.                                                          *)

ApfStart == [pc : {"touch"}, i : {1}, loop : {2}, host : [1..Pages -> BOOLEAN], pte : {[p \in 1..Pages |-> TRUE]}, token : {0},
             phys : {FALSE}, broadcast : BOOLEAN]

\* The host swaps a page out.
SwapOut ==
    /\ Is("asyncpf", "touch")
    /\ \E p \in 1..Pages : w.host[p] /\ w' = [w EXCEPT !.host[p] = FALSE]
    /\ UNCHANGED w_prog

\* buf[i] = 1, and the next page or loop.
TouchBuf ==
    /\ Is("asyncpf", "touch") /\ w.host[w.i] /\ w.pte[w.i]
    /\ w' = [w EXCEPT !.i = IF @ = Pages THEN 1 ELSE @ + 1,
                      !.loop = IF w.i = Pages THEN @ - 1 ELSE @,
                      !.pc = IF w.i = Pages /\ w.loop = 1 THEN "exit" ELSE @]
    /\ UNCHANGED w_prog

\* A page the host lacks: it fetches the page while the guest stands, or injects "not present".
\* pf_isr clears the PTE and waits.
NotPresent ==
    /\ Is("asyncpf", "touch") /\ ~w.host[w.i]
    /\ \/ w' = [w EXCEPT !.host[w.i] = TRUE]
       \/ w' = [w EXCEPT !.pc = "wait", !.phys = TRUE, !.pte[w.i] = FALSE, !.token = w.i]
    /\ UNCHANGED w_prog

\* "ready" in the safe_halt: pf_isr sets the PTE of buf + i and clears phys; the token ~0 changes nothing.
Ready ==
    /\ Is("asyncpf", "wait") /\ w.token # 0
    /\ w' = IF w.broadcast THEN [w EXCEPT !.host[w.token] = TRUE, !.token = 0]
            ELSE [w EXCEPT !.host[w.token] = TRUE, !.token = 0, !.phys = FALSE, !.pte[w.i] = TRUE, !.pc = "touch"]
    /\ UNCHANGED w_prog

-----------------------------------------------------------------------------
WakeInit ==
    /\ w_prog \in WakePrograms
    /\ w \in CASE w_prog = "init" -> InitStart [] w_prog = "s3" -> S3Start [] w_prog = "tscdeadline" -> TscStart [] OTHER -> ApfStart

\* Halted for good: the program has ended, or nothing is left that could start it.
Stuck ==
    CASE w_prog = "init" -> w.pc = "halted" /\ w.resets[w.state - 1] = "nothing"
      [] w_prog = "s3" -> w.pc = "asleep" /\ w.fired /\ ~w.repeats
      [] w_prog = "tscdeadline" -> w.pc = "halted" /\ ~w.armed
      [] OTHER -> w.pc = "wait" /\ w.token = 0

WakeEnd == (w.pc = "exit" \/ Stuck) /\ UNCHANGED wakeVars

InitNext == InitMain \/ Reset
S3Next == Arm \/ Clear \/ Outw \/ Loop \/ Alarm
TscNext == Isr \/ Hlt \/ Check
ApfNext == SwapOut \/ TouchBuf \/ NotPresent \/ Ready

WakeNext == InitNext \/ S3Next \/ TscNext \/ ApfNext \/ WakeEnd

WakeSpec == WakeInit /\ [][WakeNext]_wakeVars

-----------------------------------------------------------------------------
(* Each program wakes up, and its verdict is the right one.                *)
(* init.c passes if all five resets are INITs through the vector, and only *)
(* a reset that never comes leaves it halted.  s3.c always gets its alarm, *)
(* also when a second passes before the machine sleeps, and fails only if  *)
(* the processor still runs after the outw.  The latency test ends with a  *)
(* full table or a hit; it is lost only if the hit comes between the check *)
(* of hitmax and the hlt.  asyncpf.c never meets a page that its handler   *)
(* left absent, and hangs only after a broadcast.                          *)
WakesUp ==
    CASE w_prog = "init" ->
            /\ w.pc = "exit" => (w.bad = {} <=> \A k \in 0..4 : w.resets[k] = "init")
            /\ w.pc = "exit" => (2 \in w.bad <=> \E k \in 0..4 : w.resets[k] \in {"cold", "twice"})
            /\ 1 \in w.bad => \E k \in 0..4 : w.resets[k] \in {"hard", "cold"}
            /\ Stuck => \E k \in 0..4 : w.resets[k] = "nothing"
      [] w_prog = "s3" -> ~Stuck /\ (w.pc = "exit" /\ ~w.late => w.code = 0)
      [] w_prog = "tscdeadline" ->
            /\ Stuck => w.missed
            /\ w.pc = "exit" => w.hitmax \/ w.idx >= w.size
            /\ w.size > TableSize /\ ~w.breakmax => w.pc # "exit"
      [] OTHER ->
            /\ w.pc = "touch" => \A p \in 1..Pages : w.pte[p]
            /\ Stuck => w.broadcast

=============================================================================
