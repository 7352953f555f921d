-------------------------------- MODULE ArmSmp --------------------------------
(***************************************************************************)
(* Secondary CPUs and cross-CPU calls of lib/arm/smp.c.  A CPU that idles  *)
(* waits in do_idle for its bit of cpu_idle_mask to be cleared; a caller   *)
(* puts the function in on_cpu_info[cpu] and clears the bit.               *)
(*                                                                         *)
(* Every access of shared memory is a step, except that a section under    *)
(* the lock is one step (nobody reads its variables inside it) and that a  *)
(* mask update and the sev() after it are one.  wfe() sleeps until the     *)
(* CPU's event register is set.  Memory is sequentially consistent and the *)
(* MMU is on, so that spin_lock() locks and set_bit() is atomic.           *)
(***************************************************************************)
EXTENDS Integers, FiniteSets, Sequences

CONSTANTS
    N,          \* nr_cpus
    Programs,   \* the test programs, see Program
    MaxCalls,   \* bound: functions handed to other CPUs
    MaxDepth    \* bound: the depth of __deadlock_check's recursion, see Deeper

CPU == 0..(N - 1)
Call == 1..MaxCalls
NULL == 0

\* Which CPU's code calls which, by on_cpu_async or on_cpu; whose code calls
\* on_cpus; whether main() uses smp_boot_secondary; whether main() sets
\* cpu0_calls_idle and calls do_idle in the end; how many calls there are.
Program == [mayCall : SUBSET (CPU \X CPU), kinds : SUBSET {"async", "sync"},
            mayOnCpus : SUBSET CPU, mayBoot : BOOLEAN, cpu0Idles : BOOLEAN, max : 0..MaxCalls]

ASSUME NAssumption == N \in Nat \ {0} /\ MaxCalls \in Nat /\ MaxDepth \in Nat
ASSUME ProgramAssumption == \A p \in Programs : p \in Program

VARIABLES
    prog,           \* the program that runs
    lock,           \* CPU that holds it, or Free
    secondary_data, \* [entry, stack]; a stack is named after the CPU it is for
    online, idle,   \* cpu_online_mask, cpu_idle_mask
    cpu0_calls_idle,
    func,           \* on_cpu_info[c].func and .data: the number of the call
    waiters,        \* on_cpu_info[c].waiters
    pc, cur,        \* per CPU: where it is, and the call whose function it runs
    frame,          \* per CPU: locals of the on_cpu_async that it makes
    walk,           \* per CPU: locals of its deadlock_check
    asleep, event,  \* per CPU: in wfe(), and its event register
    boot,           \* per CPU: the entry and stack that it started with
    calls,          \* ghost: number of calls made so far
    made, ran,      \* ghost: per call, its target and how often its function has run
    returned,       \* ghost: calls that on_cpu or on_cpus returned from
    stop            \* "run", or why the test exited

vars == <<prog, lock, secondary_data, online, idle, cpu0_calls_idle, func, waiters, pc, cur,
          frame, walk, asleep, event, boot, calls, made, ran, returned, stop>>

shared == <<lock, secondary_data, online, idle, cpu0_calls_idle, func, waiters>>
wakeup == <<asleep, event>>
ghosts == <<prog, boot, calls, made, ran, returned>>

Free == N
NoBoot == [entry |-> "none", stack |-> N]

\* kind: "async", "sync" (on_cpu) or "all" (on_cpus); after: the call is posted.
NewFrame(t, kind) == [cpu |-> t, kind |-> kind, id |-> NULL, ids |-> {}, after |-> FALSE]
NoFrame == NewFrame(N, "async")

\* The CPUs whose waiters __deadlock_check looks through, one inside the other,
\* and from which bit on it does in those of the last one.
NoWalk == [path |-> <<>>, bit |-> 0]

Init ==
    /\ prog \in Programs
    /\ lock = Free
    /\ secondary_data = NoBoot
    /\ online = {0} /\ idle = {}
    /\ cpu0_calls_idle = prog.cpu0Idles
    /\ func = [c \in CPU |-> NULL]
    /\ waiters = [c \in CPU |-> {}]
    /\ pc = [c \in CPU |-> IF c = 0 THEN "code" ELSE "off"]
    /\ cur = [c \in CPU |-> NULL]
    /\ frame = [c \in CPU |-> NoFrame]
    /\ walk = [c \in CPU |-> NoWalk]
    /\ asleep = [c \in CPU |-> FALSE]
    /\ event = [c \in CPU |-> FALSE]
    /\ boot = [c \in CPU |-> NoBoot]
    /\ calls = 0
    /\ made = [n \in Call |-> N]
    /\ ran = [n \in Call |-> 0]
    /\ returned = {}
    /\ stop = "run"

At(c, l) == stop = "run" /\ pc[c] = l /\ ~asleep[c]
Goto(c, l) == pc' = [pc EXCEPT ![c] = l]

\* sev() sets every CPU's event register.
Sev == event' = [c \in CPU |-> TRUE]

\* wfe() in a loop whose condition does not hold yet.
Sleep(c) ==
    /\ asleep' = [asleep EXCEPT ![c] = TRUE]
    /\ UNCHANGED <<shared, pc, cur, frame, walk, event, ghosts, stop>>

Wfe(c) ==
    /\ stop = "run" /\ asleep[c] /\ event[c]
    /\ asleep' = [asleep EXCEPT ![c] = FALSE]
    /\ event' = [event EXCEPT ![c] = FALSE]
    /\ UNCHANGED <<shared, pc, cur, frame, walk, ghosts, stop>>

-----------------------------------------------------------------------------
(* Booting a secondary CPU. *)

\* __smp_boot_secondary up to the CPU_ON hypercall; the lock is held.
StartSecondary(c, t, entry) ==
    /\ lock' = c
    /\ secondary_data' = [entry |-> entry, stack |-> t]
    /\ pc' = [pc EXCEPT ![c] = "bootwait", ![t] = "entry"]
    /\ UNCHANGED <<online, idle, cpu0_calls_idle, func, waiters, cur, walk, wakeup, ghosts, stop>>

\* main() calls smp_boot_secondary; it asserts that the CPU is not online.
SmpBootSecondary(c, t) ==
    /\ prog.mayBoot /\ c = 0 /\ At(c, "code") /\ cur[c] = NULL /\ t # 0
    /\ lock = Free
    /\ IF t \in online
       THEN /\ stop' = "assert"
            /\ UNCHANGED <<shared, pc, cur, frame, walk, wakeup, ghosts>>
       ELSE /\ StartSecondary(c, t, "user")
            /\ frame' = [frame EXCEPT ![c] = NewFrame(t, "async")]

\* Mutant: the lock is released before the CPU is online.
BootWait_NoWait(c) ==
    /\ At(c, "bootwait")
    /\ lock' = Free
    /\ IF frame[c].id = NULL
       THEN Goto(c, "code") /\ frame' = [frame EXCEPT ![c] = NoFrame]
       ELSE Goto(c, "wait") /\ UNCHANGED frame
    /\ UNCHANGED <<secondary_data, online, idle, cpu0_calls_idle, func, waiters,
                   cur, walk, wakeup, ghosts, stop>>

\* while (!cpu_online(cpu)) wfe(), then the lock is released.
BootWait(c) ==
    /\ At(c, "bootwait")
    /\ IF frame[c].cpu \notin online THEN Sleep(c)
       ELSE /\ lock' = Free
            /\ IF frame[c].id = NULL
               THEN Goto(c, "code") /\ frame' = [frame EXCEPT ![c] = NoFrame]
               ELSE Goto(c, "wait") /\ UNCHANGED frame
            /\ UNCHANGED <<secondary_data, online, idle, cpu0_calls_idle, func, waiters,
                           cur, walk, wakeup, ghosts, stop>>

\* The stack pointer is loaded, and secondary_cinit saves the entry.
SecondaryEntry(c) ==
    /\ At(c, "entry")
    /\ boot' = [boot EXCEPT ![c] = secondary_data]
    /\ Goto(c, "online")
    /\ UNCHANGED <<shared, cur, frame, walk, wakeup, prog, calls, made, ran, returned, stop>>

\* set_cpu_online, then the entry runs: do_idle, or a function after which
\* the stub goes to do_idle.
SecondaryOnline(c) ==
    /\ At(c, "online")
    /\ online' = online \cup {c}
    /\ Sev
    /\ Goto(c, IF boot[c].entry = "user" THEN "code" ELSE "doidle")
    /\ UNCHANGED <<lock, secondary_data, idle, cpu0_calls_idle, func, waiters,
                   cur, frame, walk, asleep, ghosts, stop>>

-----------------------------------------------------------------------------
(* do_idle *)

\* The code that a CPU started with ends.  main() may or may not idle.
CodeEnds(c) ==
    /\ At(c, "code") /\ cur[c] = NULL
    /\ c = 0 => prog.cpu0Idles
    /\ Goto(c, "doidle")
    /\ UNCHANGED <<shared, cur, frame, walk, wakeup, ghosts, stop>>

DoIdle(c) ==
    /\ At(c, "doidle")
    /\ cpu0_calls_idle' = (cpu0_calls_idle \/ c = 0)
    /\ idle' = idle \cup {c}
    /\ Sev
    /\ Goto(c, "idling")
    /\ UNCHANGED <<lock, secondary_data, online, func, waiters, cur, frame, walk, asleep,
                   ghosts, stop>>

\* while (cpu_idle(cpu)) wfe(), then func(data).
Idling(c) ==
    /\ At(c, "idling")
    /\ IF c \in idle THEN Sleep(c)
       ELSE /\ stop' = IF func[c] = NULL THEN "crash" ELSE "run"
            /\ cur' = [cur EXCEPT ![c] = func[c]]
            /\ Goto(c, "code")
            /\ UNCHANGED <<shared, frame, walk, wakeup, ghosts>>

\* The function returns.
FunctionReturns(c) ==
    /\ At(c, "code") /\ cur[c] # NULL
    /\ ran' = [ran EXCEPT ![cur[c]] = @ + 1]
    /\ cur' = [cur EXCEPT ![c] = NULL]
    /\ Goto(c, "clear")
    /\ UNCHANGED <<shared, frame, walk, wakeup, prog, boot, calls, made, returned, stop>>

ClearFunc(c) ==
    /\ At(c, "clear")
    /\ func' = [func EXCEPT ![c] = NULL]
    /\ Goto(c, "mark")
    /\ UNCHANGED <<lock, secondary_data, online, idle, cpu0_calls_idle, waiters,
                   cur, frame, walk, wakeup, ghosts, stop>>

\* Mutant: the CPU marks itself idle without an event.
MarkIdle_NoSev(c) ==
    /\ At(c, "mark")
    /\ idle' = idle \cup {c}
    /\ Goto(c, "idling")
    /\ UNCHANGED <<lock, secondary_data, online, cpu0_calls_idle, func, waiters,
                   cur, frame, walk, wakeup, ghosts, stop>>

MarkIdle(c) ==
    /\ At(c, "mark")
    /\ idle' = idle \cup {c}
    /\ Sev
    /\ Goto(c, "idling")
    /\ UNCHANGED <<lock, secondary_data, online, cpu0_calls_idle, func, waiters,
                   cur, frame, walk, asleep, ghosts, stop>>

-----------------------------------------------------------------------------
(* on_cpu_async, on_cpu *)

Enter(c, t, kind) ==
    /\ calls < prog.max
    /\ calls' = calls + 1
    /\ made' = [made EXCEPT ![calls + 1] = t]
    /\ frame' = [frame EXCEPT ![c] =
         [cpu |-> t, kind |-> kind, id |-> calls + 1, ids |-> @.ids \cup {calls + 1},
          after |-> FALSE]]

\* A call to another CPU begins; calls to CPU 0 are checked.
OnCpu(c, t, kind) ==
    /\ At(c, "code") /\ <<c, t>> \in prog.mayCall /\ c # t
    /\ Enter(c, t, kind)
    /\ IF t = 0 /\ ~cpu0_calls_idle
       THEN stop' = "assert" /\ UNCHANGED pc
       ELSE Goto(c, "online?") /\ UNCHANGED stop
    /\ UNCHANGED <<shared, cur, walk, wakeup, prog, boot, ran, returned>>

\* if (!cpu_online(cpu)) __smp_boot_secondary(cpu, do_idle), with the lock.
EnsureOnline(c) ==
    LET t == frame[c].cpu IN
    /\ At(c, "online?") /\ lock = Free
    /\ IF t \in online
       THEN Goto(c, "wait") /\ UNCHANGED <<shared, cur, walk, wakeup, ghosts, stop>>
       ELSE StartSecondary(c, t, "do_idle")
    /\ UNCHANGED frame

\* for_each_cpu visits the CPUs of a mask in ascending order.
First(S) == CHOOSE t \in S : \A u \in S : t <= u

\* c puts its bit into the waiters of t, and deadlock_check begins.
Announcing(c, t) ==
    /\ waiters' = [waiters EXCEPT ![t] = @ \cup {c}]
    /\ walk' = [walk EXCEPT ![c] = [path |-> <<c>>, bit |-> 0]]

\* cpu_wait: announce, check for a deadlock, wait, withdraw.
Announce(c) ==
    /\ At(c, "wait")
    /\ Announcing(c, frame[c].cpu)
    /\ Goto(c, "check")
    /\ UNCHANGED <<lock, secondary_data, online, idle, cpu0_calls_idle, func,
                   cur, frame, wakeup, ghosts, stop>>

\* __deadlock_check calls itself for CPU i.  Around a cycle that its target is
\* not on it would go on until a bit is withdrawn or another CPU reports: from
\* MaxDepth on, the last round is forgotten.
Deeper(path, i) ==
    IF Len(path) >= MaxDepth /\ \E k \in DOMAIN path : path[k] = i
    THEN SubSeq(path, 1, CHOOSE k \in DOMAIN path : path[k] = i)
    ELSE Append(path, i)

\* A step of deadlock_check: the next waiter of the last CPU of the path is
\* looked for.  If there is none, this recursion returns (the last: to l); if
\* it is the CPU that c is about to wait for, the deadlock is found.
DeadlockCheck(c, l) ==
    LET path == walk[c].path
        i    == path[Len(path)]
        W    == {t \in waiters[i] : t >= walk[c].bit}
        Look(p, b) == walk' = [walk EXCEPT ![c] = [path |-> p, bit |-> b]]
    IN
    \/ /\ W = {} /\ Len(path) = 1
       /\ walk' = [walk EXCEPT ![c] = NoWalk]
       /\ Goto(c, l) /\ UNCHANGED stop
    \/ /\ W = {} /\ Len(path) > 1
       /\ Look(SubSeq(path, 1, Len(path) - 1), i + 1)
       /\ UNCHANGED <<pc, stop>>
    \/ /\ W # {} /\ First(W) = frame[c].cpu
       /\ stop' = "deadlock"
       /\ UNCHANGED <<pc, walk>>
    \/ /\ W # {} /\ First(W) # frame[c].cpu
       /\ Look(Deeper(path, First(W)), 0)
       /\ UNCHANGED <<pc, stop>>

CheckWait(c) ==
    /\ At(c, "check")
    /\ DeadlockCheck(c, "spin")
    /\ UNCHANGED <<shared, cur, frame, wakeup, ghosts>>

CpuWait(c) ==
    /\ At(c, "spin")
    /\ IF frame[c].cpu \notin idle THEN Sleep(c)
       ELSE /\ Goto(c, "withdraw")
            /\ UNCHANGED <<shared, cur, frame, walk, wakeup, ghosts, stop>>

\* Mutant: the waiter's bit stays.
Withdraw_Dropped(c) ==
    /\ At(c, "withdraw")
    /\ IF frame[c].after
       THEN /\ Goto(c, "code")
            /\ returned' = returned \cup {frame[c].id}
            /\ frame' = [frame EXCEPT ![c] = NoFrame]
       ELSE Goto(c, "post") /\ UNCHANGED <<returned, frame>>
    /\ UNCHANGED <<shared, cur, walk, wakeup, prog, boot, calls, made, ran, stop>>

Withdraw(c) ==
    /\ At(c, "withdraw")
    /\ waiters' = [waiters EXCEPT ![frame[c].cpu] = @ \ {c}]
    /\ IF frame[c].after
       THEN /\ Goto(c, "code")
            /\ returned' = returned \cup {frame[c].id}
            /\ frame' = [frame EXCEPT ![c] = NoFrame]
       ELSE Goto(c, "post") /\ UNCHANGED <<returned, frame>>
    /\ UNCHANGED <<lock, secondary_data, online, idle, cpu0_calls_idle, func,
                   cur, walk, wakeup, prog, boot, calls, made, ran, stop>>

\* Mutant: the CPU is told that it has a function before it has one.
Post_KickFirst(c) ==
    /\ At(c, "post") /\ lock = Free
    /\ IF frame[c].cpu \in idle
       THEN /\ idle' = idle \ {frame[c].cpu}
            /\ Sev
            /\ UNCHANGED <<func, pc>>
       ELSE /\ func' = [func EXCEPT ![frame[c].cpu] = frame[c].id]
            /\ Goto(c, "kick")
            /\ UNCHANGED <<idle, event>>
    /\ UNCHANGED <<lock, secondary_data, online, cpu0_calls_idle, waiters,
                   cur, frame, walk, asleep, ghosts, stop>>

\* With the lock: if func is NULL the call is posted, otherwise wait again.
Post(c) ==
    /\ At(c, "post") /\ lock = Free
    /\ IF func[frame[c].cpu] = NULL
       THEN func' = [func EXCEPT ![frame[c].cpu] = frame[c].id] /\ Goto(c, "kick")
       ELSE Goto(c, "wait") /\ UNCHANGED func
    /\ UNCHANGED <<lock, secondary_data, online, idle, cpu0_calls_idle, waiters,
                   cur, frame, walk, wakeup, ghosts, stop>>

\* set_cpu_idle(cpu, false); on_cpu then waits, on_cpus goes on to the next CPU.
Kick(c) ==
    /\ At(c, "kick")
    /\ idle' = idle \ {frame[c].cpu}
    /\ Sev
    /\ CASE frame[c].kind = "async" ->
              Goto(c, "code") /\ frame' = [frame EXCEPT ![c] = NoFrame]
         [] frame[c].kind = "sync" ->
              Goto(c, "wait") /\ frame' = [frame EXCEPT ![c].after = TRUE]
         [] frame[c].kind = "all" ->
              Goto(c, "next") /\ UNCHANGED frame
    /\ UNCHANGED <<lock, secondary_data, online, cpu0_calls_idle, func, waiters,
                   cur, walk, asleep, ghosts, stop>>

-----------------------------------------------------------------------------
(* on_cpus *)

Others(c) == CPU \ {c}

\* for_each_present_cpu visits the CPUs in ascending order.
After(c, k) == {t \in Others(c) : t > k}

OnCpus(c) ==
    /\ At(c, "code") /\ c \in prog.mayOnCpus
    /\ calls + N - 1 <= prog.max
    /\ frame' = [frame EXCEPT ![c] = NewFrame(-1, "all")]
    /\ Goto(c, "next")
    /\ UNCHANGED <<shared, cur, walk, wakeup, ghosts, stop>>

\* The next on_cpu_async; after the last one func(data) runs here.
NextCpu(c) ==
    LET T == After(c, frame[c].cpu) IN
    /\ At(c, "next")
    /\ IF T # {}
       THEN /\ Enter(c, First(T), "all")
            /\ IF First(T) = 0 /\ ~cpu0_calls_idle
               THEN stop' = "assert" /\ UNCHANGED pc
               ELSE Goto(c, "online?") /\ UNCHANGED stop
       ELSE /\ frame' = [frame EXCEPT ![c].cpu = -1]
            /\ Goto(c, "allannounce")
            /\ UNCHANGED <<calls, made, stop>>
    /\ UNCHANGED <<shared, cur, walk, wakeup, prog, boot, ran, returned>>

\* me becomes a waiter of every CPU in turn.
AnnounceAll(c) ==
    LET T == After(c, frame[c].cpu) IN
    /\ At(c, "allannounce")
    /\ IF T # {}
       THEN /\ Announcing(c, First(T))
            /\ frame' = [frame EXCEPT ![c].cpu = First(T)]
            /\ Goto(c, "allcheck")
       ELSE Goto(c, "allspin") /\ UNCHANGED <<waiters, frame, walk>>
    /\ UNCHANGED <<lock, secondary_data, online, idle, cpu0_calls_idle, func,
                   cur, wakeup, ghosts, stop>>

CheckAll(c) ==
    /\ At(c, "allcheck")
    /\ DeadlockCheck(c, "allannounce")
    /\ UNCHANGED <<shared, cur, frame, wakeup, ghosts>>

\* Mutant: one idle CPU fewer is enough.
WaitAll_OffByOne(c) ==
    /\ At(c, "allspin")
    /\ IF Cardinality(idle) < N - 2 THEN Sleep(c)
       ELSE /\ frame' = [frame EXCEPT ![c].cpu = -1]
            /\ Goto(c, "allclear")
            /\ UNCHANGED <<shared, cur, walk, wakeup, ghosts, stop>>

\* while (cpumask_weight(&cpu_idle_mask) < nr_cpus - 1) wfe().
WaitAll(c) ==
    /\ At(c, "allspin")
    /\ IF Cardinality(idle) < N - 1 THEN Sleep(c)
       ELSE /\ frame' = [frame EXCEPT ![c].cpu = -1]
            /\ Goto(c, "allclear")
            /\ UNCHANGED <<shared, cur, walk, wakeup, ghosts, stop>>

\* me withdraws from one CPU after the other, and on_cpus returns.
ClearAll(c) ==
    LET T == {t \in CPU : t > frame[c].cpu} IN
    /\ At(c, "allclear")
    /\ IF T # {}
       THEN /\ waiters' = [waiters EXCEPT ![First(T)] = @ \ {c}]
            /\ frame' = [frame EXCEPT ![c].cpu = First(T)]
            /\ UNCHANGED <<pc, returned>>
       ELSE /\ returned' = returned \cup frame[c].ids
            /\ frame' = [frame EXCEPT ![c] = NoFrame]
            /\ Goto(c, "code")
            /\ UNCHANGED waiters
    /\ UNCHANGED <<lock, secondary_data, online, idle, cpu0_calls_idle, func,
                   cur, walk, wakeup, prog, boot, calls, made, ran, stop>>

-----------------------------------------------------------------------------
\* What the test program chooses to do ...
Choose(c) ==
    \/ \E t \in CPU : SmpBootSecondary(c, t)
    \/ \E t \in CPU, kind \in prog.kinds : OnCpu(c, t, kind)
    \/ OnCpus(c)

\* ... and what a CPU then does.
Run(c) ==
    \/ Wfe(c) \/ BootWait(c)
    \/ SecondaryEntry(c) \/ SecondaryOnline(c)
    \/ CodeEnds(c) \/ DoIdle(c) \/ Idling(c)
    \/ FunctionReturns(c) \/ ClearFunc(c) \/ MarkIdle(c)
    \/ EnsureOnline(c) \/ Announce(c) \/ CheckWait(c) \/ CpuWait(c) \/ Withdraw(c)
    \/ Post(c) \/ Kick(c)
    \/ NextCpu(c) \/ AnnounceAll(c) \/ CheckAll(c) \/ WaitAll(c) \/ ClearAll(c)

Next == \E c \in CPU : Choose(c) \/ Run(c)

\* Every virtual CPU keeps running; what the program chooses is not forced.
Spec == Init /\ [][Next]_vars
FairSpec == Spec /\ \A c \in CPU : WF_vars(Run(c))

-----------------------------------------------------------------------------
(* Properties. *)

\* A secondary runs with the stack and the entry that were set up for it,
\* although both travel through one global (smp.c:46): the next boot may
\* only overwrite it after the CPU has read it.
BootMatches == \A c \in CPU : boot[c] # NoBoot => boot[c].stack = c

\* on_cpu and on_cpus return only after the functions have run, once, on
\* their targets.
ReturnAfterRun == \A n \in returned : ran[n] = 1

\* do_idle never calls through a NULL func, and never runs a call twice.
RunsOnce == stop # "crash" /\ \A n \in Call : ran[n] <= 1

\* Of the functions that are handed to a CPU (lib/arm/smp.c), none runs
\* twice, and on_cpu and on_cpus return after the functions that they wait
\* for have run.
CallsRun == ReturnAfterRun /\ RunsOnce

\* The CPUs that c waits for and that are not idle.
Blockers(c) ==
    (CASE pc[c] \in {"check", "spin"} -> {frame[c].cpu}
       [] pc[c] \in {"allannounce", "allcheck", "allspin"} -> Others(c)
       [] OTHER -> {}) \ idle

\* "deadlock detectd" (smp.c:114) is printed only when some CPUs really wait
\* for one another and none of them is about to become idle.
DeadlockIsReal ==
    stop = "deadlock" =>
        \E S \in SUBSET CPU : S # {} /\ \A c \in S : Blockers(c) \cap S # {}

\* Every call that was made runs and every on_cpu and on_cpus returns, or the
\* test exits with a report: no wait is endless and silent, although waiting
\* CPUs sleep in wfe() and a mask may change just before they do.  (A program
\* makes finitely many calls, so this is about the end.)
CallsComplete ==
    <>[](\/ stop # "run"
         \/ /\ \A n \in 1..calls : ran[n] = 1
            /\ \A c \in CPU : frame[c] = NoFrame)
=============================================================================
