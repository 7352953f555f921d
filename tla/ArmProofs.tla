------------------------------ MODULE ArmProofs ------------------------------
(***************************************************************************)
(* Proofs about what arm CPUs share.                                       *)
(*                                                                         *)
(* lib/arm/smp.c for any number of CPUs: secondaries boot with their own   *)
(* stacks, functions that are handed to a CPU run once, before the call    *)
(* that waits for them returns, and a deadlock that is reported is one.    *)
(* The last two need that no two CPUs call the same one.  cpu_wait looks   *)
(* at the idle bit before the lock is taken, so that with two callers the  *)
(* bit says nothing about func when a call is posted.                      *)
(*                                                                         *)
(* lib/virtio.c and lib/chr-testdev.c for any number of CPUs that exit and *)
(* any queue: the ring and the free list of its descriptors are in order.  *)
(*                                                                         *)
(* arm/psci.c for any number of CPUs: "cpu-on" is judged when all have     *)
(* called, and rightly.                                                    *)
(***************************************************************************)
EXTENDS ArmSmp, ArmPsci, Virtio, FiniteSetTheorems, WellFoundedInduction, TLAPS

USE NAssumption, ProgramAssumption

\* Whether p lets c hand functions to t.
Targets(p, c, t) == c # t /\ (<<c, t>> \in p.mayCall \/ c \in p.mayOnCpus)

\* Every CPU is called by one CPU only.
OneCaller ==
    \A p \in Programs : \A c, d, t \in CPU : Targets(p, c, t) /\ Targets(p, d, t) => c = d

-----------------------------------------------------------------------------
(* The inductive invariant. *)

Calling == {"online?", "bootwait", "wait", "check", "spin", "withdraw", "post", "kick"}
CallingAll == {"next", "allannounce", "allcheck", "allspin", "allclear"}
Code == {"code"} \cup Calling \cup CallingAll
Booting == {"off", "entry", "online"}
Labels == Code \cup Booting \cup {"doidle", "idling", "clear", "mark"}

Frame == [cpu : Int, kind : {"async", "sync", "all"}, id : Nat, ids : SUBSET Nat,
          after : BOOLEAN]
BootData == [entry : {"none", "user", "do_idle"}, stack : Int]

Types ==
    /\ prog \in Programs
    /\ lock \in 0..N /\ online \subseteq CPU /\ idle \subseteq CPU
    /\ secondary_data \in BootData /\ boot \in [CPU -> BootData]
    /\ pc \in [CPU -> Labels] /\ frame \in [CPU -> Frame]
    /\ func \in [CPU -> 0..MaxCalls] /\ cur \in [CPU -> 0..MaxCalls]
    /\ calls \in 0..MaxCalls /\ made \in [Call -> Int] /\ ran \in [Call -> {0, 1}]
    /\ returned \subseteq Call

\* The lock belongs to the CPU that waits for a secondary, from before that
\* one reads secondary_data until it is online.
Boots ==
    /\ \A c \in CPU : c \in online <=> pc[c] \notin Booting
    /\ \A c \in CPU : lock = c <=> pc[c] = "bootwait"
    /\ \A c \in CPU : pc[c] \in {"entry", "online"} =>
            \E k \in CPU : pc[k] = "bootwait" /\ frame[k].cpu = c
    /\ \A c \in CPU : pc[c] = "bootwait" => secondary_data.stack = frame[c].cpu
    /\ BootMatches

\* A CPU in on_cpu_async, as opposed to smp_boot_secondary.
InCall(c) == pc[c] \in Calling /\ frame[c].id # NULL

\* The call is in its target's hands.
Delivered(n) == ran[n] = 1 \/ func[made[n]] = n

\* What a caller knows about the call that it makes, and about its earlier
\* ones in the same on_cpus.
Caller(c) ==
    /\ pc[c] \in Calling \ {"bootwait"} => frame[c].id # NULL
    /\ InCall(c) => /\ frame[c].id \in 1..calls /\ made[frame[c].id] = frame[c].cpu
                    /\ frame[c].cpu \in CPU /\ Targets(prog, c, frame[c].cpu)
    /\ \A n \in frame[c].ids : n \in 1..calls /\ made[n] \in CPU \ {c}
    /\ \A n \in frame[c].ids :
            stop = "run" => Delivered(n) \/ (InCall(c) /\ n = frame[c].id)
    /\ InCall(c) /\ ~frame[c].after /\ pc[c] # "kick" =>
            ran[frame[c].id] = 0 /\ func[frame[c].cpu] # frame[c].id
    /\ InCall(c) /\ frame[c].after =>
            pc[c] \in {"wait", "check", "spin", "withdraw"} /\ Delivered(frame[c].id)
    /\ pc[c] = "withdraw" /\ frame[c].after => ran[frame[c].id] = 1
    /\ pc[c] = "allclear" => \A n \in frame[c].ids : ran[n] = 1
    /\ pc[c] \in {"withdraw", "post"} /\ ~frame[c].after => frame[c].cpu \in idle
    /\ pc[c] = "kick" => frame[c].cpu \in idle /\ func[frame[c].cpu] = frame[c].id
    /\ pc[c] \in CallingAll \/ (InCall(c) /\ frame[c].kind = "all") => c \in prog.mayOnCpus

\* What func of a CPU is, given where the CPU is.
Target(t) ==
    /\ t \in idle => pc[t] = "idling"
    /\ IF pc[t] \in Code THEN func[t] = cur[t] ELSE cur[t] = NULL
    /\ pc[t] \in Booting \cup {"doidle", "mark"} => func[t] = NULL
    /\ pc[t] = "clear" => func[t] # NULL /\ ran[func[t]] = 1
    /\ pc[t] = "idling" /\ t \notin idle => func[t] # NULL
    /\ t \in idle /\ func[t] # NULL => \E c \in CPU : pc[c] = "kick" /\ frame[c].cpu = t
    /\ func[t] # NULL => /\ func[t] \in 1..calls /\ made[func[t]] = t
                         /\ pc[t] # "clear" => ran[func[t]] = 0

Runs ==
    /\ \A n \in Call : n > calls => ran[n] = 0
    /\ ReturnAfterRun /\ stop # "crash"

SmpInv ==
    /\ Types /\ Boots /\ Runs
    /\ \A c \in CPU : Caller(c) /\ Target(c)

-----------------------------------------------------------------------------
(* CPUs. *)

LEMMA CpuFacts ==
    /\ 0 \in CPU /\ N \notin CPU /\ CPU \subseteq 0..N /\ CPU \subseteq Nat
    /\ IsFiniteSet(CPU) /\ Cardinality(CPU) = N
  <1>1. IsFiniteSet(0..(N - 1)) /\ Cardinality(0..(N - 1)) = N
    BY FS_Interval
  <1> QED
    BY <1>1 DEF CPU

\* for_each_cpu: there is a first CPU as long as there is one.
LEMMA FirstIsThere ==
    ASSUME NEW S \in SUBSET CPU, S # {}
    PROVE  First(S) \in S /\ \A u \in S : First(S) <= u
  <1>1. S \subseteq Nat
    BY CpuFacts
  <1>2. PICK x \in S : \A y \in S : ~(<<y, x>> \in OpToRel(<, Nat))
    BY <1>1, NatLessThanWellFounded, WFMin
  <1>3. ASSUME NEW y \in S PROVE ~(y < x)
    <2>1. <<y, x>> \in Nat \X Nat
      BY <1>1
    <2>2. ~(<<y, x>>[1] < <<y, x>>[2])
      BY <1>2, <2>1, Zenon DEF OpToRel
    <2> QED
      BY <2>2
  <1>4. \A y \in S : x <= y
    BY <1>1, <1>3
  <1> QED
    BY <1>4 DEF First

\* When all but one of the CPUs are idle and c is not, all others are.
LEMMA OthersIdle ==
    ASSUME NEW c \in CPU, idle \subseteq CPU, c \notin idle, ~(Cardinality(idle) < N - 1)
    PROVE  \A t \in CPU : t # c => t \in idle
  <1>1. IsFiniteSet(CPU \ {c}) /\ Cardinality(CPU \ {c}) = N - 1
    BY CpuFacts, FS_RemoveElement
  <1>2. idle \subseteq CPU \ {c}
    OBVIOUS
  <1>3. /\ IsFiniteSet(idle) /\ Cardinality(idle) <= Cardinality(CPU \ {c})
        /\ Cardinality(idle) = Cardinality(CPU \ {c}) => idle = CPU \ {c}
    BY <1>1, <1>2, FS_Subset
  <1>4. Cardinality(idle) \in Nat
    BY <1>3, FS_CardinalityType
  <1> QED
    BY <1>1, <1>3, <1>4

-----------------------------------------------------------------------------
(* Locals. *)

\* Locals of a CPU that makes no call, or begins on_cpus.
LEMMA NewFrameType ==
    ASSUME NEW t \in Int, NEW k \in {"async", "all"}
    PROVE  /\ NewFrame(t, k) \in Frame /\ NewFrame(t, k).cpu = t /\ NewFrame(t, k).kind = k
           /\ NewFrame(t, k).id = NULL /\ NewFrame(t, k).ids = {} /\ NewFrame(t, k).after = FALSE
  BY DEF NewFrame, Frame, NULL

LEMMA NoFrameType ==
    NoFrame \in Frame /\ NoFrame.id = NULL /\ NoFrame.ids = {}
  <1>1. N \in Int
    OBVIOUS
  <1> QED
    BY <1>1, NewFrameType DEF NoFrame

\* Updates of the locals, and what a call begins with.
LEMMA FrameUpdates ==
    ASSUME NEW f \in Frame, NEW t \in Int, NEW n \in Nat, NEW k \in {"async", "sync", "all"}
    PROVE  /\ [f EXCEPT !.cpu = t] \in Frame /\ [f EXCEPT !.cpu = t].ids = f.ids
           /\ [f EXCEPT !.after = TRUE] \in Frame
           /\ [cpu |-> t, kind |-> k, id |-> n, ids |-> f.ids \cup {n}, after |-> FALSE] \in Frame
  BY DEF Frame

-----------------------------------------------------------------------------
(* The lock: a CPU boots with what was prepared for it, whatever the       *)
(* program does.                                                           *)

LockInv ==
    /\ prog \in Programs /\ calls \in Nat
    /\ lock \in 0..N /\ online \subseteq CPU /\ pc \in [CPU -> Labels]
    /\ boot = [c \in CPU |-> boot[c]] /\ frame \in [CPU -> Frame]
    /\ Boots
    /\ \A c \in CPU : pc[c] = "online?" => frame[c].cpu \in CPU

\* A step of c that neither starts nor ends a boot.
Plain(c) ==
    /\ UNCHANGED <<prog, lock, secondary_data, online, boot>> /\ calls' \in Nat
    /\ pc[c] \notin Booting \cup {"bootwait"}
    /\ \E l \in Labels \ (Booting \cup {"bootwait"}) : pc' = [pc EXCEPT ![c] = l]
    /\ \E f \in Frame : frame' = [frame EXCEPT ![c] = f]
    /\ pc'[c] = "online?" => frame'[c].cpu \in CPU

LEMMA PlainKeepsLock ==
    ASSUME LockInv, NEW c \in CPU, Plain(c)
    PROVE  LockInv'
  <1> USE DEF LockInv
  <1>1. PICK l \in Labels \ (Booting \cup {"bootwait"}) : pc' = [pc EXCEPT ![c] = l]
    BY DEF Plain
  <1>2. pc'[c] = l /\ \A d \in CPU : d # c => pc'[d] = pc[d]
    BY <1>1
  <1>3. frame' \in [CPU -> Frame] /\ \A d \in CPU \ {c} : frame'[d] = frame[d]
    BY DEF Plain
  <1>4. \A d \in CPU : /\ pc'[d] \in Booting <=> pc[d] \in Booting
                       /\ pc'[d] = "bootwait" <=> pc[d] = "bootwait"
                       /\ pc'[d] = "bootwait" => frame'[d] = frame[d]
    BY <1>2, <1>3 DEF Plain
  <1>5. \A d \in CPU : pc'[d] \in {"entry", "online"} => pc[d] \in {"entry", "online"}
    BY <1>2 DEF Booting
  <1>6. \A d \in CPU : pc'[d] \in {"entry", "online"} =>
            \E k \in CPU : pc'[k] = "bootwait" /\ frame'[k].cpu = d
    BY <1>4, <1>5 DEF Boots
  <1>7. Boots'
    BY <1>4, <1>6 DEF Boots, BootMatches, Plain
  <1>8. \A d \in CPU : pc'[d] = "online?" => frame'[d].cpu \in CPU
    BY <1>2, <1>3 DEF Plain
  <1> QED
    BY <1>1, <1>3, <1>7, <1>8 DEF Plain

LEMMA StartKeepsLock ==
    ASSUME LockInv, NEW c \in CPU, NEW t \in CPU, NEW e, lock = Free, t \notin online,
           pc[c] \notin Booting, StartSecondary(c, t, e),
           frame' \in [CPU -> Frame], \A d \in CPU \ {c} : frame'[d] = frame[d],
           frame'[c].cpu = t
    PROVE  LockInv'
  <1> USE CpuFacts DEF LockInv
  <1>1. /\ lock' = c /\ secondary_data' = [entry |-> e, stack |-> t]
        /\ pc' = [pc EXCEPT ![c] = "bootwait", ![t] = "entry"] /\ UNCHANGED <<prog, calls, online, boot>>
    BY DEF StartSecondary, ghosts
  <1>2. \A d \in CPU : pc[d] # "bootwait" /\ pc[d] \notin {"entry", "online"}
    BY DEF Boots, Free
  <1>3. pc[t] = "off" /\ t # c
    BY <1>2 DEF Boots, Booting
  <1>4. /\ pc'[c] = "bootwait" /\ pc'[t] = "entry" /\ secondary_data'.stack = t
        /\ \A d \in CPU : d # c /\ d # t => pc'[d] = pc[d]
    BY <1>1, <1>3
  <1>5. pc' \in [CPU -> Labels]
    BY <1>1 DEF Labels, Code, Calling, Booting
  <1>6. \A d \in CPU : d \in online' <=> pc'[d] \notin Booting
    BY <1>1, <1>3, <1>4 DEF Boots, Booting
  <1>7. \A d \in CPU : lock' = d <=> pc'[d] = "bootwait"
    BY <1>1, <1>2, <1>3, <1>4
  <1>8. \A d \in CPU : pc'[d] \in {"entry", "online"} => d = t
    BY <1>2, <1>4
  <1>9. \A d \in CPU : pc'[d] = "bootwait" => d = c
    BY <1>2, <1>4
  <1>10. Boots'
    BY <1>1, <1>4, <1>6, <1>7, <1>8, <1>9 DEF Boots, BootMatches
  <1>11. \A d \in CPU : pc'[d] = "online?" => frame'[d].cpu \in CPU
    BY <1>4
  <1> QED
    BY <1>1, <1>5, <1>10, <1>11

LEMMA BootWaitKeepsLock ==
    ASSUME LockInv, NEW c \in CPU, BootWait(c), frame[c].cpu \in online
    PROVE  LockInv'
  <1> USE CpuFacts DEF LockInv
  <1>1. /\ lock' = Free /\ pc[c] = "bootwait" /\ UNCHANGED <<prog, calls, secondary_data, online, boot>>
        /\ \/ pc' = [pc EXCEPT ![c] = "code"] /\ frame' = [frame EXCEPT ![c] = NoFrame]
           \/ pc' = [pc EXCEPT ![c] = "wait"] /\ UNCHANGED frame
    BY DEF BootWait, At, Goto, ghosts
  <1>2. /\ pc'[c] \in {"code", "wait"} /\ frame' \in [CPU -> Frame]
        /\ \A d \in CPU : d # c => pc'[d] = pc[d] /\ frame'[d] = frame[d]
    BY <1>1, NoFrameType
  <1>3. \A d \in CPU : pc[d] = "bootwait" => d = c
    BY <1>1 DEF Boots
  <1>4. \A d \in CPU : pc[d] \notin {"entry", "online"}
    BY <1>3 DEF Boots, Booting
  <1>5. \A d \in CPU : pc'[d] # "bootwait" /\ pc'[d] \notin {"entry", "online"}
    BY <1>2, <1>3, <1>4
  <1>6. \A d \in CPU : pc'[d] \in Booting <=> pc[d] \in Booting
    BY <1>1, <1>2 DEF Booting
  <1>7. Boots'
    BY <1>1, <1>5, <1>6 DEF Boots, BootMatches, Free
  <1>8. pc' \in [CPU -> Labels]
    BY <1>1 DEF Labels, Code, Calling
  <1> QED
    BY <1>1, <1>2, <1>7, <1>8 DEF Free

LEMMA SecondaryKeepsLock ==
    ASSUME LockInv, NEW c \in CPU, SecondaryEntry(c) \/ SecondaryOnline(c)
    PROVE  LockInv'
  <1> USE CpuFacts DEF LockInv
  <1>1. PICK l \in {"online", "code", "doidle"} :
        /\ UNCHANGED <<prog, calls, lock, secondary_data, frame>>
        /\ pc[c] \in {"entry", "online"} /\ pc' = [pc EXCEPT ![c] = l]
        /\ \/ boot' = [boot EXCEPT ![c] = secondary_data] /\ UNCHANGED online /\ l = "online"
           \/ UNCHANGED boot /\ online' = online \cup {c} /\ l \in {"code", "doidle"}
    BY DEF SecondaryEntry, SecondaryOnline, At, Goto, shared, ghosts
  <1>2. PICK k \in CPU : pc[k] = "bootwait" /\ frame[k].cpu = c /\ secondary_data.stack = c /\ lock = k
    BY <1>1 DEF Boots
  <1>3. pc'[c] = l /\ k # c /\ \A d \in CPU : d # c => pc'[d] = pc[d]
    BY <1>1, <1>2
  <1>4. \A d \in CPU : pc[d] \in {"entry", "online"} => d = c
    BY <1>2 DEF Boots
  <1>5. \A d \in CPU : d \in online' <=> pc'[d] \notin Booting
    BY <1>1, <1>3 DEF Boots, Booting
  <1>6. \A d \in CPU : lock' = d <=> pc'[d] = "bootwait"
    BY <1>1, <1>3 DEF Boots
  <1>7. \A d \in CPU : pc'[d] \in {"entry", "online"} => pc'[k] = "bootwait" /\ frame'[k].cpu = d
    BY <1>1, <1>2, <1>3, <1>4
  <1>8. BootMatches' /\ boot' = [d \in CPU |-> boot'[d]]
    BY <1>1, <1>2 DEF Boots, BootMatches
  <1>9. Boots'
    BY <1>1, <1>3, <1>5, <1>6, <1>7, <1>8 DEF Boots
  <1>10. pc' \in [CPU -> Labels]
    BY <1>1 DEF Labels, Code, Booting
  <1> QED
    BY <1>1, <1>3, <1>8, <1>9, <1>10

\* What a sleeping CPU, wfe() and an exit leave alone.
LEMMA SleepKeepsLock ==
    ASSUME LockInv, UNCHANGED <<prog, calls, lock, secondary_data, online, boot, pc, frame>>
    PROVE  LockInv'
  BY DEF LockInv, Boots, BootMatches

\* Every other action is a plain step.
LEMMA EnterIsPlain ==
    ASSUME LockInv, NEW c \in CPU, NEW t \in CPU, NEW kind \in {"async", "sync", "all"},
           Enter(c, t, kind), pc[c] \in {"code", "next"},
           UNCHANGED <<prog, lock, secondary_data, online, boot>>,
           UNCHANGED pc \/ pc' = [pc EXCEPT ![c] = "online?"]
    PROVE  Plain(c)
  <1> USE DEF LockInv
  <1> DEFINE f == [cpu |-> t, kind |-> kind, id |-> calls + 1, ids |-> frame[c].ids \cup {calls + 1},
                   after |-> FALSE]
  <1>1. frame' = [frame EXCEPT ![c] = f] /\ calls' = calls + 1
    BY DEF Enter
  <1>2. f \in Frame /\ calls' \in Nat
    <2>1. frame[c] \in Frame /\ calls + 1 \in Nat /\ t \in Int
      BY CpuFacts
    <2> QED
      BY <1>1, <2>1, FrameUpdates
  <1>3. f.cpu = t
    OBVIOUS
  <1> HIDE DEF f
  <1>4. frame'[c].cpu = t
    BY <1>1, <1>3
  <1>5. \E l \in {pc[c], "online?"} : pc' = [pc EXCEPT ![c] = l]
    OBVIOUS
  <1> QED
    BY <1>1, <1>2, <1>4, <1>5 DEF Plain, Labels, Code, Booting, Calling, CallingAll

LEMMA CallIsPlain ==
    ASSUME LockInv, NEW c \in CPU,
           \/ \E t \in CPU, kind \in prog.kinds : OnCpu(c, t, kind)
           \/ OnCpus(c) \/ NextCpu(c) \/ AnnounceAll(c) \/ CheckAll(c)
           \/ (WaitAll(c) /\ ~(Cardinality(idle) < N - 1)) \/ ClearAll(c)
    PROVE  Plain(c)
  <1> USE DEF LockInv, At, Goto, shared, ghosts, Plain
  <1> USE DEF Labels, Code, Booting, Calling, CallingAll
  <1>1. frame[c] \in Frame /\ calls + 1 \in Nat /\ \A t \in CPU : t \in Int
    BY CpuFacts
  <1>2. ASSUME NEW t \in CPU, NEW kind \in prog.kinds, OnCpu(c, t, kind) PROVE Plain(c)
    <2>1. kind \in {"async", "sync", "all"}
      <3>1. prog \in Program
        OBVIOUS
      <3> QED
        BY <3>1 DEF Program
    <2>2. /\ Enter(c, t, kind) /\ pc[c] = "code"
          /\ UNCHANGED pc \/ pc' = [pc EXCEPT ![c] = "online?"]
          /\ UNCHANGED <<prog, lock, secondary_data, online, boot>>
      BY <1>2 DEF OnCpu
    <2> QED
      BY <2>1, <2>2, EnterIsPlain
  <1>3. CASE OnCpus(c)
    <2>1. -1 \in Int
      OBVIOUS
    <2>2. NewFrame(-1, "all") \in Frame
      BY <2>1, NewFrameType
    <2> QED
      BY <1>3, <2>2 DEF OnCpus
  <1>4. CASE NextCpu(c)
    <2> DEFINE T == After(c, frame[c].cpu)
    <2>1. T # {} => First(T) \in CPU
      <3>1. T \subseteq CPU
        BY DEF After, Others
      <3> HIDE DEF T
      <3> QED
        BY <3>1, FirstIsThere
    <2>2. CASE T = {}
      <3>1. -1 \in Int
        OBVIOUS
      <3>2. PICK f \in Frame : frame' = [frame EXCEPT ![c] = f]
        BY <1>1, <1>4, <2>2, <3>1, FrameUpdates DEF NextCpu
      <3> QED
        BY <1>4, <2>2, <3>2 DEF NextCpu
    <2>3. CASE T # {}
      <3>1. /\ Enter(c, First(T), "all") /\ pc[c] = "next"
            /\ UNCHANGED pc \/ pc' = [pc EXCEPT ![c] = "online?"]
            /\ UNCHANGED <<prog, lock, secondary_data, online, boot>>
        BY <1>4, <2>3 DEF NextCpu
      <3>2. First(T) \in CPU
        BY <2>1, <2>3
      <3> HIDE DEF T
      <3> QED
        BY <3>1, <3>2, EnterIsPlain
    <2> QED
      BY <2>2, <2>3
  <1>5. CASE AnnounceAll(c)
    <2> DEFINE T == After(c, frame[c].cpu)
    <2>1. T # {} => First(T) \in Int
      <3>1. T \subseteq CPU
        BY DEF After, Others
      <3> HIDE DEF T
      <3> QED
        BY <1>1, <3>1, FirstIsThere
    <2>2. CASE T # {}
      <3>1. /\ frame' = [frame EXCEPT ![c].cpu = First(T)] /\ pc' = [pc EXCEPT ![c] = "allcheck"]
            /\ calls' = calls /\ pc[c] = "allannounce"
            /\ UNCHANGED <<prog, lock, secondary_data, online, boot>>
        BY <1>5, <2>2 DEF AnnounceAll
      <3>2. PICK k \in Int : k = First(T)
        BY <2>1, <2>2
      <3>3. frame' = [frame EXCEPT ![c] = [frame[c] EXCEPT !.cpu = k]] /\ [frame[c] EXCEPT !.cpu = k] \in Frame
        BY <1>1, <3>1, <3>2, FrameUpdates
      <3> QED
        BY <3>1, <3>3
    <2>3. CASE T = {}
      <3>1. frame' = [frame EXCEPT ![c] = frame[c]]
        BY <1>5, <2>3 DEF AnnounceAll
      <3> QED
        BY <1>1, <1>5, <2>3, <3>1 DEF AnnounceAll
    <2> QED
      BY <2>2, <2>3
  <1>6. CASE CheckAll(c)
    <2>1. frame' = [frame EXCEPT ![c] = frame[c]] /\ pc[c] = "allcheck"
      BY <1>6 DEF CheckAll
    <2>2. \E l \in {"allcheck", "allannounce"} : pc' = [pc EXCEPT ![c] = l]
      BY <1>6, <2>1 DEF CheckAll, DeadlockCheck
    <2> QED
      BY <1>1, <1>6, <2>1, <2>2 DEF CheckAll
  <1>7. CASE WaitAll(c) /\ ~(Cardinality(idle) < N - 1)
    <2>1. -1 \in Int
      OBVIOUS
    <2>2. PICK f \in Frame : frame' = [frame EXCEPT ![c] = f]
      BY <1>1, <1>7, <2>1, FrameUpdates DEF WaitAll
    <2> QED
      BY <1>7, <2>2 DEF WaitAll
  <1>8. CASE ClearAll(c)
    <2> DEFINE T == {t \in CPU : t > frame[c].cpu}
    <2>1. T # {} => First(T) \in Int
      <3>1. T \subseteq CPU
        OBVIOUS
      <3> HIDE DEF T
      <3> QED
        BY <1>1, <3>1, FirstIsThere
    <2>2. CASE T # {}
      <3>1. /\ frame' = [frame EXCEPT ![c].cpu = First(T)] /\ pc' = [pc EXCEPT ![c] = "allclear"]
            /\ calls' = calls /\ pc[c] = "allclear"
            /\ UNCHANGED <<prog, lock, secondary_data, online, boot>>
        BY <1>8, <2>2 DEF ClearAll
      <3>2. PICK k \in Int : k = First(T)
        BY <2>1, <2>2
      <3>3. frame' = [frame EXCEPT ![c] = [frame[c] EXCEPT !.cpu = k]] /\ [frame[c] EXCEPT !.cpu = k] \in Frame
        BY <1>1, <3>1, <3>2, FrameUpdates
      <3> QED
        BY <3>1, <3>3
    <2>3. CASE T = {}
      BY <1>8, <2>3, NoFrameType DEF ClearAll
    <2> QED
      BY <2>2, <2>3
  <1> QED
    BY <1>2, <1>3, <1>4, <1>5, <1>6, <1>7, <1>8

LEMMA WaitIsPlain ==
    ASSUME LockInv, NEW c \in CPU,
           \/ CodeEnds(c) \/ DoIdle(c) \/ (Idling(c) /\ c \notin idle) \/ FunctionReturns(c)
           \/ ClearFunc(c) \/ MarkIdle(c) \/ (EnsureOnline(c) /\ frame[c].cpu \in online)
           \/ Announce(c) \/ CheckWait(c) \/ (CpuWait(c) /\ frame[c].cpu \in idle)
           \/ Withdraw(c) \/ Post(c) \/ Kick(c)
    PROVE  Plain(c)
  <1> USE DEF LockInv, At, Goto, shared, ghosts, Plain
  <1> USE DEF Labels, Code, Booting, Calling, CallingAll
  <1>1. frame[c] \in Frame /\ frame = [frame EXCEPT ![c] = frame[c]] /\ pc = [pc EXCEPT ![c] = pc[c]]
    OBVIOUS
  <1>2. CASE CodeEnds(c) \/ DoIdle(c) \/ (Idling(c) /\ c \notin idle)
    BY <1>1, <1>2 DEF CodeEnds, DoIdle, Idling
  <1>3. CASE FunctionReturns(c) \/ ClearFunc(c) \/ MarkIdle(c)
    BY <1>1, <1>3 DEF FunctionReturns, ClearFunc, MarkIdle
  <1>4. CASE EnsureOnline(c) /\ frame[c].cpu \in online
    BY <1>1, <1>4 DEF EnsureOnline
  <1>5. CASE Announce(c) \/ CheckWait(c)
    <2>1. frame' = frame /\ pc[c] \in {"wait", "check"}
      BY <1>5 DEF Announce, CheckWait
    <2>2. \E l \in {"check", "spin"} : pc' = [pc EXCEPT ![c] = l]
      BY <1>5 DEF Announce, CheckWait, DeadlockCheck
    <2> QED
      BY <1>1, <1>5, <2>1, <2>2 DEF Announce, CheckWait
  <1>6. CASE CpuWait(c) /\ frame[c].cpu \in idle
    BY <1>1, <1>6 DEF CpuWait
  <1>7. CASE Withdraw(c)
    BY <1>1, <1>7, NoFrameType DEF Withdraw
  <1>8. CASE Post(c)
    BY <1>1, <1>8 DEF Post
  <1>9. CASE Kick(c)
    <2>1. frame[c].kind \in {"async", "sync", "all"} /\ [frame[c] EXCEPT !.after = TRUE] \in Frame
      BY <1>1 DEF Frame
    <2>2. \E l \in {"code", "wait", "next"} : pc' = [pc EXCEPT ![c] = l]
      BY <1>9, <2>1 DEF Kick
    <2>3. \E f \in Frame : frame' = [frame EXCEPT ![c] = f]
      BY <1>1, <1>9, <2>1, NoFrameType DEF Kick
    <2> QED
      BY <1>9, <2>2, <2>3 DEF Kick
  <1> QED
    BY <1>2, <1>3, <1>4, <1>5, <1>6, <1>7, <1>8, <1>9

LEMMA LockInit ==
    ASSUME Init
    PROVE  LockInv
  <1> USE CpuFacts DEF Init
  <1>1. pc \in [CPU -> Labels] /\ lock \in 0..N
    BY DEF Labels, Code, Booting, Free
  <1>2. \A c \in CPU : (c = 0 => pc[c] = "code") /\ (c # 0 => pc[c] = "off")
    OBVIOUS
  <1>3. Boots
    BY <1>2 DEF Boots, BootMatches, Booting, Free
  <1>4. frame \in [CPU -> Frame]
    BY NoFrameType
  <1> QED
    BY <1>1, <1>2, <1>3, <1>4 DEF LockInv

LEMMA LockNext ==
    ASSUME LockInv, [Next]_vars
    PROVE  LockInv'
  <1>1. CASE UNCHANGED vars
    BY <1>1, SleepKeepsLock DEF vars
  <1>2. ASSUME NEW c \in CPU, Choose(c) \/ Run(c) PROVE LockInv'
    <2>1. ASSUME NEW t \in CPU, SmpBootSecondary(c, t) PROVE LockInv'
      <3>1. CASE t \in online
        BY <2>1, <3>1, SleepKeepsLock DEF SmpBootSecondary, shared, ghosts
      <3>2. CASE t \notin online
        <4>1. /\ StartSecondary(c, t, "user") /\ lock = Free /\ pc[c] \notin Booting
              /\ frame' = [frame EXCEPT ![c] = NewFrame(t, "async")]
          BY <2>1, <3>2 DEF SmpBootSecondary, At, Booting
        <4>2. t \in Int
          BY CpuFacts
        <4>3. /\ frame' \in [CPU -> Frame] /\ frame'[c].cpu = t
              /\ \A d \in CPU \ {c} : frame'[d] = frame[d]
          BY <4>1, <4>2, NewFrameType DEF LockInv
        <4> QED
          BY <3>2, <4>1, <4>3, StartKeepsLock
      <3> QED
        BY <3>1, <3>2
    <2>2. CASE Wfe(c)
      BY <2>2, SleepKeepsLock DEF Wfe, shared, ghosts
    <2>3. CASE BootWait(c) /\ frame[c].cpu \notin online
      BY <2>3, SleepKeepsLock DEF BootWait, Sleep, shared, ghosts
    <2>4. CASE Idling(c) /\ c \in idle
      BY <2>4, SleepKeepsLock DEF Idling, Sleep, shared, ghosts
    <2>5. CASE CpuWait(c) /\ frame[c].cpu \notin idle
      BY <2>5, SleepKeepsLock DEF CpuWait, Sleep, shared, ghosts
    <2>6. CASE WaitAll(c) /\ Cardinality(idle) < N - 1
      BY <2>6, SleepKeepsLock DEF WaitAll, Sleep, shared, ghosts
    <2>7. CASE EnsureOnline(c) /\ frame[c].cpu \notin online
      <3>1. /\ StartSecondary(c, frame[c].cpu, "do_idle") /\ lock = Free /\ pc[c] = "online?"
            /\ UNCHANGED frame
        BY <2>7 DEF EnsureOnline, At
      <3>2. frame[c].cpu \in CPU /\ pc[c] \notin Booting /\ frame \in [CPU -> Frame]
        BY <3>1 DEF LockInv, Booting
      <3> QED
        BY <2>7, <3>1, <3>2, StartKeepsLock
    <2>8. CASE \/ \E t \in CPU, kind \in prog.kinds : OnCpu(c, t, kind)
               \/ OnCpus(c) \/ NextCpu(c) \/ AnnounceAll(c) \/ CheckAll(c)
               \/ (WaitAll(c) /\ ~(Cardinality(idle) < N - 1)) \/ ClearAll(c)
      BY <2>8, CallIsPlain, PlainKeepsLock
    <2>9. CASE \/ CodeEnds(c) \/ DoIdle(c) \/ (Idling(c) /\ c \notin idle) \/ FunctionReturns(c)
               \/ ClearFunc(c) \/ MarkIdle(c) \/ (EnsureOnline(c) /\ frame[c].cpu \in online)
               \/ Announce(c) \/ CheckWait(c) \/ (CpuWait(c) /\ frame[c].cpu \in idle)
               \/ Withdraw(c) \/ Post(c) \/ Kick(c)
      BY <2>9, WaitIsPlain, PlainKeepsLock
    <2>10. CASE (BootWait(c) /\ frame[c].cpu \in online) \/ SecondaryEntry(c) \/ SecondaryOnline(c)
      BY <2>10, BootWaitKeepsLock, SecondaryKeepsLock
    <2> QED
      BY <1>2, <2>1, <2>2, <2>3, <2>4, <2>5, <2>6, <2>7, <2>8, <2>9, <2>10 DEF Choose, Run
  <1> QED
    BY <1>1, <1>2 DEF Next

\* Every secondary runs on the stack, and from the entry, that were prepared
\* for it in the one secondary_data (__smp_boot_secondary, secondary_cinit),
\* for any number of CPUs and whatever the programs call.
THEOREM BootMatchesCorrect == Spec => []BootMatches
  <1>1. LockInv => BootMatches
    BY DEF LockInv, Boots
  <1> QED
    BY <1>1, LockInit, LockNext, PTL DEF Spec

-----------------------------------------------------------------------------
(* The effect of a step on the CPUs that do not take it. *)

state == <<prog, lock, secondary_data, online, idle, func, pc, cur, frame, boot, calls, made, ran,
           returned, stop>>

LEMMA Unmoved ==
    ASSUME SmpInv, UNCHANGED state, Boots'
    PROVE  SmpInv'
  <1>1. Types' /\ Runs'
    BY DEF SmpInv, Types, Runs, state, ReturnAfterRun
  <1>2. ASSUME NEW c \in CPU PROVE Caller(c)' /\ Target(c)'
    BY DEF SmpInv, Caller, Target, state, InCall, Delivered
  <1> QED
    BY <1>1, <1>2 DEF SmpInv

\* What was delivered stays so, unless func is cleared before it has run.
LEMMA DeliveredStays ==
    ASSUME Types, NEW n \in 1..calls, Delivered(n), made'[n] = made[n],
           ran[n] = 1 => ran'[n] = 1,
           func[made[n]] = n => func'[made[n]] = n \/ ran'[n] = 1
    PROVE  Delivered(n)'
  BY DEF Delivered

\* A CPU that takes no part in the step goes on with its call.
LEMMA CallerStays ==
    ASSUME SmpInv, NEW d \in CPU, pc'[d] = pc[d], frame'[d] = frame[d], prog' = prog,
           calls' \in Nat, calls <= calls', stop' = "run" => stop = "run",
           \A n \in 1..calls : made'[n] = made[n] /\ (Delivered(n) => Delivered(n)'),
           InCall(d) /\ ~frame[d].after /\ pc[d] # "kick" =>
               ran'[frame[d].id] = 0 /\ func'[frame[d].cpu] # frame[d].id,
           \A n \in 1..calls : ran[n] = 1 => ran'[n] = 1,
           InCall(d) /\ frame[d].cpu \in idle /\ pc[d] \in {"withdraw", "post", "kick"}
               => frame[d].cpu \in idle',
           pc[d] = "kick" => func'[frame[d].cpu] = func[frame[d].cpu]
    PROVE  Caller(d)'
  <1> USE DEF SmpInv
  <1>1. InCall(d)' <=> InCall(d)
    BY DEF InCall
  <1>2. calls \in Nat /\ \A n \in frame[d].ids : n \in 1..calls /\ made'[n] = made[n] /\ (Delivered(n) => Delivered(n)')
    BY DEF Caller, Types
  <1>3. InCall(d) => LET n == frame[d].id IN
            n \in 1..calls /\ made'[n] = made[n] /\ (Delivered(n) => Delivered(n)')
    BY DEF Caller
  <1>4. pc[d] \in {"withdraw", "post", "kick"} => InCall(d)
    BY DEF Caller, InCall, Calling
  <1>5. /\ pc'[d] \in Calling \ {"bootwait"} => frame'[d].id # NULL
        /\ InCall(d)' => /\ frame'[d].id \in 1..calls' /\ made'[frame'[d].id] = frame'[d].cpu
                         /\ frame'[d].cpu \in CPU /\ Targets(prog', d, frame'[d].cpu)
    BY <1>1, <1>2, <1>3 DEF Caller
  <1>6. \A n \in frame'[d].ids : n \in 1..calls' /\ made'[n] \in CPU \ {d}
    BY <1>2 DEF Caller
  <1>7. \A n \in frame'[d].ids : stop' = "run" => Delivered(n)' \/ (InCall(d)' /\ n = frame'[d].id)
    BY <1>1, <1>2 DEF Caller
  <1>8. /\ InCall(d)' /\ ~frame'[d].after /\ pc'[d] # "kick" =>
             ran'[frame'[d].id] = 0 /\ func'[frame'[d].cpu] # frame'[d].id
        /\ InCall(d)' /\ frame'[d].after =>
             pc'[d] \in {"wait", "check", "spin", "withdraw"} /\ Delivered(frame[d].id)'
        /\ pc'[d] = "withdraw" /\ frame'[d].after => ran'[frame'[d].id] = 1
        /\ pc'[d] = "allclear" => \A n \in frame'[d].ids : ran'[n] = 1
    BY <1>1, <1>2, <1>3, <1>4 DEF Caller
  <1>9. /\ pc'[d] \in {"withdraw", "post"} /\ ~frame'[d].after => frame'[d].cpu \in idle'
        /\ pc'[d] = "kick" => frame'[d].cpu \in idle' /\ func'[frame'[d].cpu] = frame'[d].id
        /\ pc'[d] \in CallingAll \/ (InCall(d)' /\ frame'[d].kind = "all") => d \in prog'.mayOnCpus
    BY <1>1, <1>4 DEF Caller
  <1> QED
    BY <1>5, <1>6, <1>7, <1>8, <1>9 DEF Caller

\* In particular, a step that touches no call leaves it alone.
LEMMA Elsewhere ==
    ASSUME SmpInv, NEW d \in CPU, pc'[d] = pc[d], frame'[d] = frame[d], stop' = "run" => stop = "run",
           UNCHANGED <<prog, calls, made, func, ran, idle>>
    PROVE  Caller(d)'
  <1>1. calls \in Nat /\ \A n \in 1..calls : Delivered(n) => Delivered(n)'
    BY DEF Delivered, SmpInv, Types
  <1>2. InCall(d) /\ ~frame[d].after /\ pc[d] # "kick" =>
            ran'[frame[d].id] = 0 /\ func'[frame[d].cpu] # frame[d].id
    BY DEF SmpInv, Caller
  <1> QED
    BY <1>1, <1>2, CallerStays

\* So does a CPU that is called, if the step leaves its state and its caller.
LEMMA TargetStays ==
    ASSUME SmpInv, NEW t \in CPU, func'[t] = func[t], cur'[t] = cur[t], t \in idle' <=> t \in idle,
           calls' \in Nat, calls <= calls',
           pc[t] \in Code <=> pc'[t] \in Code,
           pc'[t] \in Booting \cup {"doidle", "mark"} => pc[t] \in Booting \cup {"doidle", "mark"},
           pc'[t] = "clear" <=> pc[t] = "clear", pc'[t] = "idling" <=> pc[t] = "idling",
           func[t] # NULL => made'[func[t]] = made[func[t]] /\ ran'[func[t]] = ran[func[t]],
           \A c \in CPU : pc[c] = "kick" /\ frame[c].cpu = t => pc'[c] = "kick" /\ frame'[c].cpu = t
    PROVE  Target(t)'
  BY DEF SmpInv, Target, Types

\* Two callers of one CPU are one.
LEMMA SameCaller ==
    ASSUME OneCaller, SmpInv, NEW c \in CPU, NEW d \in CPU, InCall(c), InCall(d),
           frame[c].cpu = frame[d].cpu
    PROVE  c = d
  BY DEF OneCaller, SmpInv, Types, Caller

\* While nobody is about to clear its idle bit, an idle CPU has no function.
LEMMA IdleHasRun ==
    ASSUME OneCaller, SmpInv, NEW c \in CPU, NEW t \in CPU, Targets(prog, c, t), pc[c] # "kick", t \in idle
    PROVE  func[t] = NULL
  <1> SUFFICES ASSUME func[t] # NULL PROVE FALSE
    OBVIOUS
  <1>1. PICK d \in CPU : pc[d] = "kick" /\ frame[d].cpu = t
    BY DEF SmpInv, Target
  <1>2. Targets(prog, d, t)
    BY <1>1 DEF SmpInv, Caller, InCall, Calling
  <1> QED
    BY <1>1, <1>2 DEF OneCaller, SmpInv, Types

-----------------------------------------------------------------------------
(* Booting. *)

LEMMA StartKeeps ==
    ASSUME SmpInv, NEW c \in CPU, NEW t \in CPU, NEW e \in {"user", "do_idle"},
           lock = Free, t \notin online, pc[c] \in {"code", "online?"}, StartSecondary(c, t, e),
           \/ /\ pc[c] = "online?" /\ t = frame[c].cpu /\ UNCHANGED frame
           \/ /\ pc[c] = "code" /\ frame' = [frame EXCEPT ![c] = NewFrame(t, "async")], Boots'
    PROVE  SmpInv'
  <1> USE CpuFacts DEF SmpInv
  <1>1. /\ lock' = c /\ secondary_data' = [entry |-> e, stack |-> t]
        /\ pc' = [pc EXCEPT ![c] = "bootwait", ![t] = "entry"]
        /\ UNCHANGED <<prog, online, idle, func, cur, boot, calls, made, ran, returned, stop>>
    BY DEF StartSecondary, ghosts
  <1>2. \A d \in CPU : pc[d] # "bootwait"
    BY DEF Boots, Free
  <1>3. pc[t] = "off" /\ t # c
    BY <1>2 DEF Boots, Booting
  <1>4. LET f == NewFrame(t, "async") IN f \in Frame /\ f.cpu = t /\ f.id = NULL /\ f.ids = {}
    <2>1. t \in Int
      OBVIOUS
    <2> QED
      BY <2>1, NewFrameType
  <1>5. /\ pc'[c] = "bootwait" /\ pc'[t] = "entry" /\ frame'[c].cpu = t
        /\ \A d \in CPU : d # c => frame'[d] = frame[d]
        /\ \A d \in CPU : d # c /\ d # t => pc'[d] = pc[d]
    BY <1>1, <1>3, <1>4 DEF Types
  <1>6. Types'
    <2>1. frame' \in [CPU -> Frame]
      BY <1>4 DEF Types
    <2>2. pc' \in [CPU -> Labels] /\ secondary_data' \in BootData
      BY <1>1 DEF Types, Labels, Code, Calling, Booting, BootData
    <2> QED
      BY <1>1, <2>1, <2>2 DEF Types
  <1>7. Runs'
    BY <1>1 DEF Runs, ReturnAfterRun
  <1>8. ASSUME NEW d \in CPU PROVE Target(d)'
    <2>1. \A k \in CPU : pc[k] = "kick" => pc'[k] = "kick" /\ frame'[k] = frame[k]
      BY <1>3, <1>5
    <2>2. /\ pc[d] \in Code <=> pc'[d] \in Code
          /\ pc'[d] \in Booting \cup {"doidle", "mark"} => pc[d] \in Booting \cup {"doidle", "mark"}
          /\ pc[d] = "clear" <=> pc'[d] = "clear"
          /\ pc[d] = "idling" <=> pc'[d] = "idling"
      BY <1>3, <1>5 DEF Code, Calling, CallingAll, Booting
    <2> QED
      BY <1>1, <2>1, <2>2, TargetStays DEF Types
  <1>9. ASSUME NEW d \in CPU PROVE Caller(d)'
    <2>1. CASE d # c /\ d # t
      BY <1>1, <1>5, <2>1, Elsewhere DEF Types
    <2>2. CASE d = t
      <3>1. ~InCall(t) /\ ~InCall(t)' /\ frame'[t] = frame[t]
        BY <1>3, <1>5 DEF InCall, Calling
      <3> QED
        BY <1>1, <1>3, <1>5, <2>2, <3>1 DEF Caller, Delivered, Calling, CallingAll
    <2>3. CASE d = c /\ pc[c] = "online?"
      <3>1. frame' = frame
        BY <2>3
      <3>2. InCall(c) /\ InCall(c)'
        BY <1>5, <2>3, <3>1 DEF Caller, InCall, Calling
      <3> QED
        BY <1>1, <1>5, <2>3, <3>1, <3>2 DEF Caller, Delivered, CallingAll
    <2>4. CASE d = c /\ pc[c] = "code"
      <3>1. frame'[c].id = NULL /\ frame'[c].ids = {}
        BY <2>4, <1>4 DEF Types
      <3> QED
        BY <1>1, <1>5, <2>4, <3>1 DEF Caller, InCall, CallingAll
    <2> QED
      BY <2>1, <2>2, <2>3, <2>4
  <1> QED
    BY <1>6, <1>7, <1>8, <1>9

LEMMA BootWaitKeeps ==
    ASSUME SmpInv, NEW c \in CPU, BootWait(c), Boots'
    PROVE  SmpInv'
  <1> USE CpuFacts DEF SmpInv
  <1>1. CASE frame[c].cpu \notin online
    BY <1>1, Unmoved DEF BootWait, Sleep, shared, ghosts, state
  <1>2. CASE frame[c].cpu \in online
    <2>1. /\ lock' = Free /\ pc[c] = "bootwait"
          /\ UNCHANGED <<prog, secondary_data, online, idle, func, cur, boot, calls, made, ran, returned, stop>>
      BY <1>2 DEF BootWait, At, ghosts
    <2>2. \/ /\ frame[c].id = NULL /\ pc' = [pc EXCEPT ![c] = "code"]
             /\ frame' = [frame EXCEPT ![c] = NoFrame]
          \/ /\ frame[c].id # NULL /\ pc' = [pc EXCEPT ![c] = "wait"] /\ UNCHANGED frame
      BY <1>2 DEF BootWait, Goto
    <2>3. NoFrame \in Frame /\ NoFrame.ids = {}
      BY NoFrameType
    <2>4. /\ pc'[c] \in {"code", "wait"}
          /\ \A d \in CPU : d # c => pc'[d] = pc[d] /\ frame'[d] = frame[d]
      BY <2>2 DEF Types
    <2>5. calls \in Nat
      BY DEF Types
    <2>6. Types'
      <3>1. frame' \in [CPU -> Frame] /\ pc' \in [CPU -> Labels]
        BY <2>2, <2>3 DEF Types, Labels, Code, Calling
      <3> QED
        BY <2>1, <3>1 DEF Types, Free
    <2>7. Runs'
      BY <2>1 DEF Runs, ReturnAfterRun
    <2>8. ASSUME NEW d \in CPU PROVE Target(d)'
      <3>1. /\ pc[d] \in Code <=> pc'[d] \in Code
            /\ pc'[d] \in Booting \cup {"doidle", "mark"} => pc[d] \in Booting \cup {"doidle", "mark"}
            /\ pc[d] = "clear" <=> pc'[d] = "clear"
            /\ pc[d] = "idling" <=> pc'[d] = "idling"
        BY <2>1, <2>4 DEF Code, Calling, CallingAll, Booting
      <3>2. \A k \in CPU : pc[k] = "kick" => pc'[k] = "kick" /\ frame'[k] = frame[k]
        BY <2>1, <2>4
      <3> QED
        BY <2>1, <2>5, <3>1, <3>2, TargetStays
    <2>9. ASSUME NEW d \in CPU PROVE Caller(d)'
      <3>1. CASE d # c
        BY <2>1, <2>4, <3>1, Elsewhere DEF Types
      <3>2. CASE d = c /\ frame[c].id = NULL
        <4>1. pc'[c] = "code" /\ frame'[c] = NoFrame
          BY <2>2, <3>2 DEF Types
        <4> QED
          BY <2>1, <2>3, <3>2, <4>1 DEF Caller, InCall, Calling, CallingAll
      <3>3. CASE d = c /\ frame[c].id # NULL
        <4>1. pc'[c] = "wait" /\ frame' = frame
          BY <2>2, <3>3 DEF Types
        <4>2. InCall(c) /\ InCall(c)'
          BY <2>1, <3>3, <4>1 DEF InCall, Calling
        <4> QED
          BY <2>1, <3>3, <4>1, <4>2 DEF Caller, Delivered, CallingAll
      <3> QED
        BY <3>1, <3>2, <3>3
    <2> QED
      BY <2>6, <2>7, <2>8, <2>9
  <1> QED
    BY <1>1, <1>2

\* A step from one of the labels of a CPU that makes no call to another.
LEMMA OutsideCalls ==
    ASSUME SmpInv, NEW c \in CPU, NEW l \in Labels \ (Calling \cup CallingAll),
           pc[c] \notin Calling \cup CallingAll, pc' = [pc EXCEPT ![c] = l],
           UNCHANGED <<prog, frame, calls, made>>, stop' = "run" => stop = "run",
           idle \subseteq idle',
           \A n \in 1..calls : Delivered(n) => Delivered(n)',
           \A d \in CPU \ {c} : InCall(d) /\ ~frame[d].after /\ pc[d] # "kick" =>
               ran'[frame[d].id] = 0 /\ func'[frame[d].cpu] # frame[d].id,
           \A n \in 1..calls : ran[n] = 1 => ran'[n] = 1,
           \A d \in CPU \ {c} : pc[d] = "kick" => func'[frame[d].cpu] = func[frame[d].cpu]
    PROVE  \A d \in CPU : Caller(d)'
  <1> USE DEF SmpInv
  <1> SUFFICES ASSUME NEW d \in CPU PROVE Caller(d)'
    OBVIOUS
  <1>1. CASE d # c
    <2>1. pc'[d] = pc[d] /\ calls \in Nat
      BY <1>1 DEF Types
    <2>2. pc[d] \in {"withdraw", "post", "kick"} => InCall(d)
      BY DEF Caller, InCall, Calling
    <2> QED
      BY <1>1, <2>1, <2>2, CallerStays
  <1>2. CASE d = c
    <2>1. pc'[c] = l /\ ~InCall(c) /\ ~InCall(c)'
      BY DEF Types, InCall
    <2>2. \A n \in frame[c].ids : n \in 1..calls /\ (Delivered(n) => Delivered(n)')
      BY DEF Caller
    <2>3. l # "allclear"
      BY DEF CallingAll
    <2> QED
      BY <1>2, <2>1, <2>2, <2>3 DEF Caller, Calling
  <1> QED
    BY <1>1, <1>2

LEMMA SecondaryKeeps ==
    ASSUME SmpInv, NEW c \in CPU, SecondaryEntry(c) \/ SecondaryOnline(c), Boots'
    PROVE  SmpInv'
  <1> USE CpuFacts DEF SmpInv
  <1> DEFINE l == pc'[c]
  <1>1. /\ UNCHANGED <<prog, lock, secondary_data, idle, func, cur, frame, calls, made, ran, returned, stop>>
        /\ pc[c] \in {"entry", "online"} /\ pc' = [pc EXCEPT ![c] = l] /\ l \in {"online", "code", "doidle"}
    BY DEF SecondaryEntry, SecondaryOnline, At, Goto, shared, ghosts, Types
  <1> HIDE DEF l
  <1>2. pc'[c] = l /\ \A d \in CPU : d # c => pc'[d] = pc[d]
    BY <1>1 DEF Types
  <1>3. \/ boot' = [boot EXCEPT ![c] = secondary_data] /\ UNCHANGED online /\ l = "online"
        \/ UNCHANGED boot /\ online' = online \cup {c} /\ l \in {"code", "doidle"}
    BY <1>2 DEF SecondaryEntry, SecondaryOnline, Goto, Types, shared, ghosts
  <1>4. Types'
    BY <1>1, <1>3 DEF Types, Labels, Code, Booting
  <1>5. Runs'
    BY <1>1 DEF Runs, ReturnAfterRun
  <1>6. func[c] = NULL /\ cur[c] = NULL
    BY <1>1 DEF Target, Booting, Code, Calling, CallingAll
  <1>7. ASSUME NEW d \in CPU PROVE Target(d)'
    <2>1. \A e \in CPU : pc[e] = "kick" => pc'[e] = "kick"
      BY <1>1, <1>2
    <2>2. CASE d # c
      BY <1>1, <1>2, <2>1, <2>2, TargetStays DEF Types
    <2>3. CASE d = c
      BY <1>1, <1>2, <1>6, <2>3 DEF Target, Code, Booting, Calling, CallingAll
    <2> QED
      BY <2>2, <2>3
  <1>8. \A d \in CPU : Caller(d)'
    <2>1. \A n \in 1..calls : Delivered(n) => Delivered(n)'
      BY <1>1 DEF Delivered
    <2>2. l \in Labels \ (Calling \cup CallingAll) /\ pc[c] \notin Calling \cup CallingAll
      BY <1>1 DEF Labels, Code, Booting, Calling, CallingAll
    <2>3. \A d \in CPU : InCall(d) /\ ~frame[d].after /\ pc[d] # "kick" =>
               ran[frame[d].id] = 0 /\ func[frame[d].cpu] # frame[d].id
      BY DEF Caller
    <2> QED
      BY <1>1, <2>1, <2>2, <2>3, OutsideCalls
  <1> QED
    BY <1>4, <1>5, <1>7, <1>8

-----------------------------------------------------------------------------
(* do_idle. *)

LEMMA IdleSteps ==
    ASSUME SmpInv, NEW c \in CPU,
           CodeEnds(c) \/ DoIdle(c) \/ (Idling(c) /\ c \notin idle) \/ FunctionReturns(c)
             \/ ClearFunc(c) \/ MarkIdle(c)
    PROVE  /\ UNCHANGED <<prog, lock, secondary_data, online, frame, boot, calls, made, returned>>
           /\ pc' = [pc EXCEPT ![c] = pc'[c]] /\ stop = "run"
           /\ pc[c] \in {"code", "doidle", "idling", "clear", "mark"}
           /\ pc'[c] \in {"code", "doidle", "idling", "clear", "mark"}
  BY DEF SmpInv, Types, CodeEnds, DoIdle, Idling, FunctionReturns, ClearFunc, MarkIdle, At, Goto, shared, ghosts

\* Enough for a step of do_idle to keep the invariant: it leaves the calls of
\* others alone and this CPU as it should be.
LEMMA IdleKeeps ==
    ASSUME SmpInv, NEW c \in CPU,
           CodeEnds(c) \/ DoIdle(c) \/ (Idling(c) /\ c \notin idle) \/ FunctionReturns(c)
             \/ ClearFunc(c) \/ MarkIdle(c),
           Types', Runs', stop' = stop, Target(c)',
           \A d \in CPU \ {c} : func'[d] = func[d] /\ cur'[d] = cur[d] /\ (d \in idle' <=> d \in idle),
           idle \subseteq idle',
           \A n \in 1..calls : Delivered(n) => Delivered(n)',
           \A n \in 1..calls : n # func[c] => ran'[n] = ran[n],
           \A n \in 1..calls : ran[n] = 1 => ran'[n] = 1,
           func'[c] \in {func[c], NULL}, func'[c] = func[c] \/ c \notin idle, Boots'
    PROVE  SmpInv'
  <1> USE DEF SmpInv
  <1>1. /\ UNCHANGED <<prog, lock, secondary_data, online, frame, boot, calls, made, returned>>
        /\ pc' = [pc EXCEPT ![c] = pc'[c]] /\ stop = "run"
        /\ pc[c] \in {"code", "doidle", "idling", "clear", "mark"}
        /\ pc'[c] \in {"code", "doidle", "idling", "clear", "mark"}
    BY IdleSteps
  <1>2. PICK l : l = pc'[c]
    OBVIOUS
  <1>3. /\ l \in Labels \ (Booting \cup {"bootwait"}) /\ l \in Labels \ (Calling \cup CallingAll)
        /\ pc[c] \notin Booting \cup {"bootwait"} /\ pc[c] \notin Calling \cup CallingAll
    BY <1>1, <1>2 DEF Labels, Code, Booting, Calling, CallingAll
  <1>4. calls \in Nat /\ \A d \in CPU : InCall(d) => frame[d].id \in 1..calls /\ made[frame[d].id] = frame[d].cpu
                                               /\ frame[d].cpu \in CPU
    BY DEF Caller, Types
  <1>5. \A d \in CPU \ {c} : InCall(d) /\ ~frame[d].after /\ pc[d] # "kick" =>
               ran'[frame[d].id] = 0 /\ func'[frame[d].cpu] # frame[d].id
    <2> SUFFICES ASSUME NEW d \in CPU \ {c}, InCall(d), ~frame[d].after, pc[d] # "kick"
                 PROVE  ran'[frame[d].id] = 0 /\ func'[frame[d].cpu] # frame[d].id
      OBVIOUS
    <2>1. ran[frame[d].id] = 0 /\ func[frame[d].cpu] # frame[d].id /\ frame[d].id # NULL
      BY DEF Caller, InCall
    <2>2. frame[d].id # func[c]
      BY <1>4, <2>1 DEF Target
    <2> QED
      BY <1>4, <2>1, <2>2
  <1>6. \A d \in CPU \ {c} : pc[d] = "kick" => func'[frame[d].cpu] = func[frame[d].cpu]
    BY <1>4 DEF Caller, InCall, Calling
  <1>7. \A d \in CPU : Caller(d)'
    BY <1>1, <1>2, <1>3, <1>4, <1>5, <1>6, OutsideCalls
  <1>8. ASSUME NEW d \in CPU, d # c PROVE Target(d)'
    <2>1. pc'[d] = pc[d]
      BY <1>1, <1>8 DEF Types
    <2>2. \A k \in CPU : pc[k] = "kick" => pc'[k] = "kick"
      BY <1>1 DEF Types
    <2>3. func[d] # NULL => ran'[func[d]] = ran[func[d]]
      BY <1>8 DEF Target
    <2> QED
      BY <1>1, <1>4, <1>8, <2>1, <2>2, <2>3, TargetStays
  <1> QED
    BY <1>7, <1>8

LEMMA DoIdleKeeps ==
    ASSUME SmpInv, NEW c \in CPU,
           CodeEnds(c) \/ DoIdle(c) \/ Idling(c) \/ FunctionReturns(c) \/ ClearFunc(c) \/ MarkIdle(c), Boots'
    PROVE  SmpInv'
  <1> USE DEF SmpInv
  <1> USE DEF Code, Booting, Calling, CallingAll
  <1>1. CASE Idling(c) /\ c \in idle
    BY <1>1, Unmoved DEF Idling, Sleep, shared, ghosts, state
  <1>2. CASE CodeEnds(c)
    <2>1. /\ UNCHANGED <<idle, func, cur, ran, stop>> /\ pc[c] = "code" /\ cur[c] = NULL
          /\ pc' = [pc EXCEPT ![c] = "doidle"] /\ pc'[c] = "doidle"
      BY <1>2 DEF CodeEnds, At, Goto, shared, ghosts, Types
    <2>2. Types' /\ Runs'
      BY <1>2, <2>1, IdleSteps DEF Types, Labels, Runs, ReturnAfterRun
    <2>3. Target(c)'
      BY <2>1 DEF Target
    <2>4. \A n \in 1..calls : Delivered(n) => Delivered(n)'
      BY <1>2, <2>1, IdleSteps DEF Delivered
    <2> QED
      BY <1>2, <2>1, <2>2, <2>3, <2>4, IdleKeeps
  <1>3. CASE DoIdle(c) \/ MarkIdle(c)
    <2>1. /\ UNCHANGED <<func, cur, ran, stop>> /\ pc[c] \in {"doidle", "mark"} /\ idle' = idle \cup {c}
          /\ pc' = [pc EXCEPT ![c] = "idling"] /\ pc'[c] = "idling"
      BY <1>3 DEF DoIdle, MarkIdle, At, Goto, ghosts, Types
    <2>2. Types' /\ Runs'
      BY <1>3, <2>1, IdleSteps DEF Types, Labels, Runs, ReturnAfterRun
    <2>3. Target(c)'
      BY <2>1 DEF Target
    <2>4. \A n \in 1..calls : Delivered(n) => Delivered(n)'
      BY <1>3, <2>1, IdleSteps DEF Delivered
    <2> QED
      BY <1>3, <2>1, <2>2, <2>3, <2>4, IdleKeeps
  <1>4. CASE Idling(c) /\ c \notin idle
    <2>1. pc[c] = "idling" /\ func[c] # NULL
      BY <1>4 DEF Idling, At, Target
    <2>2. /\ UNCHANGED <<idle, func, ran, stop>> /\ cur' = [cur EXCEPT ![c] = func[c]]
          /\ pc' = [pc EXCEPT ![c] = "code"] /\ pc'[c] = "code"
      BY <1>4, <2>1 DEF Idling, At, Goto, shared, ghosts, Types
    <2>3. Types' /\ Runs'
      BY <1>4, <2>2, IdleSteps DEF Types, Labels, Runs, ReturnAfterRun
    <2>4. cur'[c] = func[c] /\ \A d \in CPU \ {c} : cur'[d] = cur[d]
      BY <2>2 DEF Types
    <2>5. calls' = calls /\ made' = made
      BY <1>4, IdleSteps
    <2>6. Target(c)'
      BY <1>4, <2>1, <2>2, <2>4, <2>5 DEF Target
    <2>7. \A n \in 1..calls : Delivered(n) => Delivered(n)'
      BY <2>2, <2>5 DEF Delivered
    <2> QED
      BY <1>4, <2>2, <2>3, <2>4, <2>6, <2>7, IdleKeeps
  <1>5. CASE FunctionReturns(c)
    <2>1. pc[c] = "code" /\ cur[c] # NULL /\ func[c] = cur[c] /\ ran[func[c]] = 0 /\ func[c] \in 1..calls
          /\ calls \in 0..MaxCalls /\ c \notin idle
      BY <1>5 DEF FunctionReturns, At, Target, Types
    <2>2. func[c] \in Call
      BY <2>1 DEF Call
    <2>3. /\ UNCHANGED <<idle, func, stop>> /\ cur' = [cur EXCEPT ![c] = NULL]
          /\ ran' = [ran EXCEPT ![func[c]] = 0 + 1] /\ pc' = [pc EXCEPT ![c] = "clear"] /\ pc'[c] = "clear"
      BY <1>5, <2>1, <2>2 DEF FunctionReturns, Goto, shared, Types
    <2>4. /\ ran' \in [Call -> {0, 1}] /\ ran'[func[c]] = 1 /\ cur'[c] = NULL
          /\ \A n \in Call : n # func[c] => ran'[n] = ran[n]
          /\ \A d \in CPU \ {c} : cur'[d] = cur[d]
      BY <2>2, <2>3 DEF Types
    <2>5. \A n \in 1..calls : n \in Call
      BY <2>1 DEF Call
    <2>6. Types'
      <3>1. cur' \in [CPU -> 0..MaxCalls] /\ pc' \in [CPU -> Labels]
        BY <2>3 DEF Types, Labels, NULL
      <3> QED
        BY <1>5, <2>3, <2>4, <3>1, IdleSteps DEF Types
    <2>7. calls' = calls /\ made' = made /\ returned' = returned
      BY <1>5, IdleSteps
    <2>8. Runs'
      BY <2>1, <2>3, <2>4, <2>7 DEF Runs, ReturnAfterRun, Types
    <2>9. Target(c)'
      BY <2>1, <2>3, <2>4, <2>7 DEF Target
    <2>10. \A n \in 1..calls : Delivered(n) => Delivered(n)'
      BY <2>3, <2>4, <2>5, <2>7 DEF Delivered
    <2>11. \A n \in 1..calls : (n # func[c] => ran'[n] = ran[n]) /\ (ran[n] = 1 => ran'[n] = 1)
      BY <2>1, <2>4, <2>5
    <2> QED
      BY <1>5, <2>1, <2>3, <2>4, <2>6, <2>8, <2>9, <2>10, <2>11, IdleKeeps
  <1>6. CASE ClearFunc(c)
    <2>1. pc[c] = "clear" /\ func[c] # NULL /\ ran[func[c]] = 1 /\ func[c] \in 1..calls /\ made[func[c]] = c
          /\ c \notin idle /\ cur[c] = NULL
      BY <1>6 DEF ClearFunc, At, Target
    <2>2. /\ UNCHANGED <<idle, cur, ran, stop>> /\ func' = [func EXCEPT ![c] = NULL]
          /\ pc' = [pc EXCEPT ![c] = "mark"] /\ pc'[c] = "mark"
      BY <1>6 DEF ClearFunc, Goto, ghosts, Types
    <2>3. func'[c] = NULL /\ \A d \in CPU \ {c} : func'[d] = func[d]
      BY <2>2 DEF Types
    <2>4. Types' /\ Runs'
      BY <1>6, <2>2, IdleSteps DEF Types, Labels, Runs, ReturnAfterRun, NULL
    <2>5. Target(c)'
      BY <2>1, <2>2, <2>3 DEF Target
    <2>6. ASSUME NEW n \in 1..calls, Delivered(n) PROVE Delivered(n)'
      <3>1. made' = made
        BY <1>6, IdleSteps
      <3>2. CASE ran[n] = 1
        BY <2>2, <3>2 DEF Delivered
      <3>3. CASE func[made[n]] = n /\ made[n] = c
        BY <2>1, <2>2, <3>3 DEF Delivered
      <3>4. CASE func[made[n]] = n /\ made[n] # c
        <4>1. func'[made[n]] = func[made[n]]
          BY <2>2, <3>4 DEF Types
        <4> QED
          BY <3>1, <3>4, <4>1 DEF Delivered
      <3> QED
        BY <2>6, <3>2, <3>3, <3>4 DEF Delivered
    <2> QED
      BY <1>6, <2>1, <2>2, <2>3, <2>4, <2>5, <2>6, IdleKeeps
  <1> QED
    BY <1>1, <1>2, <1>3, <1>4, <1>5, <1>6

-----------------------------------------------------------------------------
(* on_cpu_async, on_cpu and on_cpus. *)

\* A step of a caller that posts nothing: it leaves everyone else alone.
LEMMA CallMoves ==
    ASSUME SmpInv, NEW c \in CPU, NEW l \in Code \ {"bootwait", "kick"},
           pc[c] \in Code \ {"bootwait", "kick"}, pc' = [pc EXCEPT ![c] = l],
           UNCHANGED <<prog, lock, secondary_data, online, idle, func, cur, boot, ran>>,
           \A d \in CPU \ {c} : frame'[d] = frame[d],
           calls <= calls', \A n \in 1..calls : made'[n] = made[n],
           stop' = "run" => stop = "run",
           Types', Runs', Caller(c)', Boots'
    PROVE  SmpInv'
  <1> USE DEF SmpInv
  <1>1. pc'[c] = l /\ \A d \in CPU : d # c => pc'[d] = pc[d]
    BY DEF Types
  <1>2. calls \in Nat /\ calls' \in Nat
    BY DEF Types
  <1>3. ASSUME NEW d \in CPU PROVE Target(d)'
    <2>1. \A k \in CPU : pc[k] = "kick" => pc'[k] = "kick" /\ frame'[k] = frame[k]
      BY <1>1
    <2>2. /\ pc[d] \in Code <=> pc'[d] \in Code
          /\ pc'[d] \in Booting \cup {"doidle", "mark"} => pc[d] \in Booting \cup {"doidle", "mark"}
          /\ pc'[d] = "clear" <=> pc[d] = "clear"
          /\ pc'[d] = "idling" <=> pc[d] = "idling"
      BY <1>1 DEF Code, Booting, Calling, CallingAll
    <2>3. func[d] # NULL => made'[func[d]] = made[func[d]]
      BY DEF Target
    <2> QED
      BY <1>2, <2>1, <2>2, <2>3, TargetStays
  <1>4. ASSUME NEW d \in CPU, d # c PROVE Caller(d)'
    <2>1. \A n \in 1..calls : Delivered(n) => Delivered(n)'
      BY DEF Delivered
    <2>2. InCall(d) /\ ~frame[d].after /\ pc[d] # "kick" =>
            ran'[frame[d].id] = 0 /\ func'[frame[d].cpu] # frame[d].id
      BY DEF Caller
    <2> QED
      BY <1>1, <1>2, <1>4, <2>1, <2>2, CallerStays
  <1> QED
    BY <1>3, <1>4

\* on_cpu_async begins, called by the program or by on_cpus.
LEMMA EnterKeeps ==
    ASSUME SmpInv, NEW c \in CPU, NEW t \in CPU, NEW kind \in {"async", "sync", "all"},
           Targets(prog, c, t), kind = "all" => c \in prog.mayOnCpus,
           pc[c] \in {"code", "next"}, stop = "run", Enter(c, t, kind),
           UNCHANGED <<prog, lock, secondary_data, online, idle, func, cur, boot, ran, returned>>,
           \/ stop' = "assert" /\ UNCHANGED pc
           \/ pc' = [pc EXCEPT ![c] = "online?"] /\ UNCHANGED stop, Boots'
    PROVE  SmpInv'
  <1> USE CpuFacts DEF SmpInv
  <1> DEFINE n == calls + 1
  <1>1. n \in Call /\ calls \in 0..MaxCalls /\ calls' = n /\ n \in 0..MaxCalls
    <2>1. prog \in Program
      BY DEF Types
    <2>2. prog.max \in 0..MaxCalls
      BY <2>1 DEF Program
    <2> QED
      BY <2>2 DEF Types, Enter, Call
  <1>2. /\ made' = [made EXCEPT ![n] = t]
        /\ frame' = [frame EXCEPT ![c] =
             [cpu |-> t, kind |-> kind, id |-> n, ids |-> frame[c].ids \cup {n}, after |-> FALSE]]
    BY DEF Enter, Types
  <1>3. n > calls /\ calls \in Nat /\ n \in Nat /\ n # NULL /\ 1..calls' = 1..calls \cup {n}
    BY <1>1 DEF NULL
  <1>4. n \in Nat
    BY <1>3
  <1> HIDE DEF n
  <1>5. /\ made'[n] = t /\ \A m \in 1..calls : made'[m] = made[m] /\ m # n /\ m \in Call
    BY <1>1, <1>2, <1>3 DEF Types, Call
  <1>6. /\ frame'[c].cpu = t /\ frame'[c].kind = kind /\ frame'[c].id = n
        /\ frame'[c].ids = frame[c].ids \cup {n} /\ frame'[c].after = FALSE
        /\ \A d \in CPU \ {c} : frame'[d] = frame[d]
    BY <1>2 DEF Types
  <1>7. PICK l : l \in {pc[c], "online?"} /\ pc' = [pc EXCEPT ![c] = l] /\ (l # "online?" => stop' # "run")
    BY DEF Types
  <1>8. pc'[c] = l /\ l \in {"code", "next", "online?"} /\ (l = "next" => pc[c] = "next")
    BY <1>7 DEF Types
  <1>9. Types'
    <2>1. t \in Int /\ frame[c] \in Frame
      BY DEF Types
    <2>2. [cpu |-> t, kind |-> kind, id |-> n, ids |-> frame[c].ids \cup {n}, after |-> FALSE] \in Frame
      BY <1>4, <2>1, FrameUpdates
    <2>3. frame' \in [CPU -> Frame] /\ made' \in [Call -> Int]
      BY <1>2, <2>1, <2>2 DEF Types
    <2>4. pc' \in [CPU -> Labels]
      BY <1>7, <1>8 DEF Types, Labels, Code, Calling, CallingAll
    <2> QED
      BY <1>1, <2>3, <2>4 DEF Types
  <1>10. Runs'
    BY <1>1, <1>3, <1>7 DEF Runs, ReturnAfterRun, Types, Call
  <1>11. ran[n] = 0 /\ func[t] # n
    BY <1>1, <1>3, <1>5 DEF Runs, Target
  <1>12. \A m \in frame[c].ids : m \in 1..calls /\ made[m] \in CPU \ {c} /\ Delivered(m)
    BY DEF Caller, InCall, Calling
  <1>13. \A m \in frame[c].ids : m \in 1..calls' /\ made'[m] \in CPU \ {c} /\ Delivered(m)'
    BY <1>3, <1>5, <1>12 DEF Delivered
  <1>14. Caller(c)'
    <2>1. InCall(c)' <=> l = "online?"
      BY <1>3, <1>6, <1>8 DEF InCall, Calling
    <2>2. /\ pc'[c] \in Calling \ {"bootwait"} => frame'[c].id # NULL
          /\ frame'[c].id \in 1..calls' /\ made'[frame'[c].id] = frame'[c].cpu
          /\ frame'[c].cpu \in CPU /\ Targets(prog', c, frame'[c].cpu)
      BY <1>3, <1>5, <1>6
    <2>3. \A m \in frame'[c].ids : m \in 1..calls' /\ made'[m] \in CPU \ {c}
      BY <1>3, <1>5, <1>6, <1>13 DEF Targets
    <2>4. \A m \in frame'[c].ids : stop' = "run" => Delivered(m)' \/ (InCall(c)' /\ m = frame'[c].id)
      BY <1>6, <1>7, <1>13, <2>1
    <2>5. /\ ran'[frame'[c].id] = 0 /\ func'[frame'[c].cpu] # frame'[c].id /\ ~frame'[c].after
          /\ pc'[c] \notin {"withdraw", "post", "kick", "allclear"}
      BY <1>6, <1>8, <1>11
    <2>6. pc'[c] \in CallingAll \/ (InCall(c)' /\ frame'[c].kind = "all") => c \in prog'.mayOnCpus
      BY <1>6, <1>8, <2>1 DEF Caller, CallingAll
    <2> QED
      BY <2>2, <2>3, <2>4, <2>5, <2>6 DEF Caller
  <1>15. l \in Code \ {"bootwait", "kick"} /\ pc[c] \in Code \ {"bootwait", "kick"} /\ calls <= calls'
    BY <1>1, <1>3, <1>8 DEF Code, Calling, CallingAll
  <1> QED
    BY <1>5, <1>6, <1>7, <1>9, <1>10, <1>14, <1>15, CallMoves

\* The test exits, with a report.
LEMMA StopKeeps ==
    ASSUME SmpInv, stop' \in {"assert", "deadlock"},
           UNCHANGED <<prog, lock, secondary_data, online, idle, func, pc, cur, frame, boot,
                       calls, made, ran, returned>>, Boots'
    PROVE  SmpInv'
  <1>1. Types' /\ Runs'
    BY DEF SmpInv, Types, Runs, ReturnAfterRun
  <1>2. ASSUME NEW c \in CPU PROVE Caller(c)' /\ Target(c)'
    BY DEF SmpInv, Caller, Target, InCall, Delivered
  <1> QED
    BY <1>1, <1>2 DEF SmpInv

\* A caller goes on with the same call; it leaves the wait only when its
\* target is idle.
LEMMA WaitMoves ==
    ASSUME SmpInv, NEW c \in CPU, NEW l \in {"wait", "check", "spin", "withdraw", "post"},
           pc[c] \in {"online?", "wait", "check", "spin", "withdraw", "post"},
           pc' = [pc EXCEPT ![c] = l],
           UNCHANGED <<prog, lock, secondary_data, online, idle, func, cur, frame, boot,
                       calls, made, ran, returned, stop>>,
           l = "withdraw" /\ frame[c].after => ran[frame[c].id] = 1,
           l \in {"withdraw", "post"} /\ ~frame[c].after => frame[c].cpu \in idle,
           l = "post" => ~frame[c].after, Boots'
    PROVE  SmpInv'
  <1> USE DEF SmpInv
  <1>1. pc'[c] = l /\ InCall(c) /\ InCall(c)'
    BY DEF Types, Caller, InCall, Calling
  <1>2. Types' /\ Runs'
    BY DEF Types, Runs, ReturnAfterRun, Labels, Code, Calling
  <1>3. \A n \in 1..calls : Delivered(n) => Delivered(n)'
    BY DEF Delivered
  <1>4. frame[c].id \in 1..calls /\ \A n \in frame[c].ids : n \in 1..calls
    BY <1>1 DEF Caller
  <1>5. Caller(c)'
    <2>1. frame[c].after => Delivered(frame[c].id)'
      BY <1>1 DEF Caller, Delivered
    <2>2. \A n \in frame'[c].ids : stop' = "run" => Delivered(n)' \/ (InCall(c)' /\ n = frame'[c].id)
      BY <1>1, <1>3, <1>4 DEF Caller
    <2>3. /\ frame'[c].id # NULL /\ frame'[c].id \in 1..calls' /\ made'[frame'[c].id] = frame'[c].cpu
          /\ frame'[c].cpu \in CPU /\ Targets(prog', c, frame'[c].cpu)
          /\ \A n \in frame'[c].ids : n \in 1..calls' /\ made'[n] \in CPU \ {c}
      BY <1>1 DEF Caller, InCall
    <2>4. /\ ~frame'[c].after => ran'[frame'[c].id] = 0 /\ func'[frame'[c].cpu] # frame'[c].id
          /\ frame'[c].after => pc'[c] \in {"wait", "check", "spin", "withdraw"}
          /\ pc'[c] = "withdraw" /\ frame'[c].after => ran'[frame'[c].id] = 1
      BY <1>1 DEF Caller
    <2>5. /\ pc'[c] \in {"withdraw", "post"} /\ ~frame'[c].after => frame'[c].cpu \in idle'
          /\ pc'[c] # "kick" /\ pc'[c] \notin CallingAll
          /\ frame'[c].kind = "all" => c \in prog'.mayOnCpus
      BY <1>1 DEF Caller, CallingAll
    <2> QED
      BY <2>1, <2>2, <2>3, <2>4, <2>5 DEF Caller
  <1>6. l \in Code \ {"bootwait", "kick"} /\ pc[c] \in Code \ {"bootwait", "kick"} /\ calls <= calls'
    BY DEF Code, Calling, Types
  <1> QED
    BY <1>2, <1>5, <1>6, CallMoves

\* cpu_wait, up to the end of the loop.
LEMMA CpuWaitKeeps ==
    ASSUME OneCaller, SmpInv, NEW c \in CPU, Announce(c) \/ CheckWait(c) \/ CpuWait(c), Boots'
    PROVE  SmpInv'
  <1> USE DEF SmpInv
  <1>1. CASE Announce(c)
    BY <1>1, WaitMoves DEF Announce, At, Goto, ghosts
  <1>2. CASE CheckWait(c)
    <2>1. CASE stop' = "deadlock" /\ UNCHANGED pc
      BY <1>2, <2>1, StopKeeps DEF CheckWait, shared, ghosts
    <2>2. CASE Goto(c, "spin") /\ UNCHANGED stop
      BY <1>2, <2>2, WaitMoves DEF CheckWait, At, Goto, shared, ghosts
    <2>3. CASE UNCHANGED <<pc, stop>>
      BY <1>2, <2>3, Unmoved DEF CheckWait, shared, ghosts, state
    <2> QED
      BY <1>2, <2>1, <2>2, <2>3 DEF CheckWait, DeadlockCheck
  <1>3. CASE CpuWait(c) /\ frame[c].cpu \notin idle
    BY <1>3, Unmoved DEF CpuWait, Sleep, shared, ghosts, state
  <1>4. CASE CpuWait(c) /\ frame[c].cpu \in idle
    <2>1. pc[c] = "spin" /\ pc' = [pc EXCEPT ![c] = "withdraw"]
      BY <1>4 DEF CpuWait, At, Goto
    <2>2. InCall(c) /\ frame[c].cpu \in CPU /\ Targets(prog, c, frame[c].cpu)
          /\ made[frame[c].id] = frame[c].cpu
      BY <2>1 DEF Caller, InCall, Calling
    <2>3. func[frame[c].cpu] = NULL
      BY <1>4, <2>1, <2>2, IdleHasRun
    <2>4. frame[c].after => ran[frame[c].id] = 1
      BY <2>2, <2>3 DEF Caller, Delivered, InCall
    <2> QED
      BY <1>4, <2>1, <2>4, WaitMoves DEF CpuWait, shared, ghosts
  <1> QED
    BY <1>1, <1>2, <1>3, <1>4

\* A call ends: its functions have run, and the caller has no locals left.
LEMMA LeaveKeeps ==
    ASSUME SmpInv, NEW c \in CPU, pc[c] \in Code \ {"bootwait", "kick"},
           pc' = [pc EXCEPT ![c] = "code"], frame' = [frame EXCEPT ![c] = NoFrame],
           UNCHANGED <<prog, lock, secondary_data, online, idle, func, cur, boot,
                       calls, made, ran, stop>>,
           NEW D \in SUBSET Call, \A n \in D : ran[n] = 1, returned' = returned \cup D, Boots'
    PROVE  SmpInv'
  <1> USE DEF SmpInv
  <1>1. pc'[c] = "code" /\ frame'[c] = NoFrame /\ \A d \in CPU \ {c} : frame'[d] = frame[d]
    BY DEF Types
  <1>2. Types'
    BY NoFrameType DEF Types, Labels, Code
  <1>3. Runs'
    BY DEF Runs, ReturnAfterRun
  <1>4. Caller(c)'
    BY <1>1, NoFrameType DEF Caller, InCall, Calling, CallingAll
  <1>5. "code" \in Code \ {"bootwait", "kick"} /\ calls <= calls'
    BY DEF Code, Types
  <1> QED
    BY <1>1, <1>2, <1>3, <1>4, <1>5, CallMoves

LEMMA WithdrawKeeps ==
    ASSUME SmpInv, NEW c \in CPU, Withdraw(c), Boots'
    PROVE  SmpInv'
  <1> USE DEF SmpInv
  <1>1. /\ pc[c] = "withdraw"
        /\ UNCHANGED <<prog, lock, secondary_data, online, idle, func, cur, boot,
                       calls, made, ran, stop>>
    BY DEF Withdraw, At
  <1>2. InCall(c) /\ frame[c].id \in Call /\ (frame[c].after => ran[frame[c].id] = 1)
    BY <1>1 DEF Caller, InCall, Calling, Call, Types
  <1>3. CASE frame[c].after
    <2>1. returned' = returned \cup {frame[c].id} /\ {frame[c].id} \in SUBSET Call
      BY <1>2, <1>3 DEF Withdraw
    <2>2. pc' = [pc EXCEPT ![c] = "code"] /\ frame' = [frame EXCEPT ![c] = NoFrame]
      BY <1>3 DEF Withdraw, Goto
    <2>3. pc[c] \in Code \ {"bootwait", "kick"} /\ \A n \in {frame[c].id} : ran[n] = 1
      BY <1>1, <1>2, <1>3 DEF Code, Calling
    <2> QED
      BY <1>1, <2>1, <2>2, <2>3, LeaveKeeps
  <1>4. CASE ~frame[c].after
    <2>1. pc' = [pc EXCEPT ![c] = "post"] /\ UNCHANGED <<returned, frame>>
      BY <1>4 DEF Withdraw, Goto
    <2>2. frame[c].cpu \in idle
      BY <1>1, <1>4 DEF Caller
    <2> QED
      BY <1>1, <1>4, <2>1, <2>2, WaitMoves
  <1> QED
    BY <1>3, <1>4

\* The lock is what makes func of an idle CPU safe to write, together with
\* its having one caller: what the wait found out is still true.
LEMMA PostKeeps ==
    ASSUME OneCaller, SmpInv, NEW c \in CPU, Post(c), Boots'
    PROVE  SmpInv'
  <1> USE DEF SmpInv
  <1>1. PICK t, n : t = frame[c].cpu /\ n = frame[c].id
    OBVIOUS
  <1>2. /\ pc[c] = "post"
        /\ UNCHANGED <<prog, lock, secondary_data, online, idle, cur, frame, boot,
                       calls, made, ran, returned, stop>>
    BY DEF Post, At, ghosts
  <1>3. InCall(c) /\ ~frame[c].after
    BY <1>2 DEF Caller, InCall, Calling
  <1>4. /\ t \in CPU /\ t # c /\ t \in idle /\ n \in 1..calls /\ made[n] = t /\ n # NULL
        /\ ran[n] = 0 /\ n \in 0..MaxCalls
    <2>1. n \in 1..calls /\ n \in 0..MaxCalls
      BY <1>1, <1>3 DEF Types, Caller
    <2> QED
      BY <1>1, <1>2, <1>3, <2>1 DEF Caller, InCall, Targets
  <1>5. CASE func[t] # NULL
    BY <1>1, <1>2, <1>3, <1>5, WaitMoves DEF Post, Goto
  <1>6. CASE func[t] = NULL
    <2>1. func' = [func EXCEPT ![t] = n] /\ pc' = [pc EXCEPT ![c] = "kick"]
      BY <1>1, <1>6 DEF Post, Goto
    <2>2. /\ func'[t] = n /\ \A d \in CPU \ {t} : func'[d] = func[d]
          /\ pc'[c] = "kick" /\ \A d \in CPU \ {c} : pc'[d] = pc[d]
      BY <1>4, <2>1 DEF Types
    <2>3. Types'
      BY <1>2, <1>4, <2>1 DEF Types, Labels, Code, Calling
    <2>4. Runs'
      BY <1>2 DEF Runs, ReturnAfterRun
    <2>5. Target(t)'
      <3>1. pc'[t] = "idling" /\ cur[t] = NULL
        BY <1>4, <2>2 DEF Target, Code, Calling, CallingAll
      <3> QED
        BY <1>1, <1>2, <1>4, <2>2, <3>1 DEF Target, Code, Booting, Calling, CallingAll
    <2>6. ASSUME NEW d \in CPU \ {t} PROVE Target(d)'
      <3>1. \A k \in CPU : pc[k] = "kick" => pc'[k] = "kick"
        BY <2>2
      <3>2. /\ pc[d] \in Code <=> pc'[d] \in Code
            /\ pc'[d] \in Booting \cup {"doidle", "mark"} => pc[d] \in Booting \cup {"doidle", "mark"}
            /\ pc'[d] = "clear" <=> pc[d] = "clear"
            /\ pc'[d] = "idling" <=> pc[d] = "idling"
        BY <1>2, <2>2 DEF Code, Booting, Calling, CallingAll
      <3>3. calls \in Nat
        BY DEF Types
      <3> QED
        BY <1>2, <2>2, <3>1, <3>2, <3>3, TargetStays
    <2>7. ASSUME NEW m \in 1..calls, Delivered(m) PROVE Delivered(m)'
      <3>1. m # NULL
        BY DEF NULL, Types
      <3>2. func[made[m]] = m => made[m] # t
        BY <1>6, <3>1
      <3>3. func[made[m]] = m => func'[made[m]] = m
        BY <1>2, <2>1, <3>2 DEF Types
      <3> QED
        BY <1>2, <2>7, <3>3, DeliveredStays
    <2>8. ASSUME NEW d \in CPU \ {c} PROVE Caller(d)'
      <3>1. InCall(d) => frame[d].cpu \in CPU \ {t}
        BY <1>1, <1>3, SameCaller DEF Caller
      <3>2. pc[d] \in {"withdraw", "kick"} => InCall(d)
        BY DEF Caller, InCall, Calling
      <3>3. InCall(d) /\ ~frame[d].after /\ pc[d] # "kick" =>
            ran'[frame[d].id] = 0 /\ func'[frame[d].cpu] # frame[d].id
        BY <1>2, <2>2, <3>1 DEF Caller
      <3>4. pc[d] = "kick" => func'[frame[d].cpu] = func[frame[d].cpu]
        BY <2>2, <3>1, <3>2
      <3>5. calls \in Nat
        BY DEF Types
      <3> QED
        BY <1>2, <2>2, <2>7, <3>3, <3>4, <3>5, CallerStays
    <2>9. Caller(c)'
      <3>1. InCall(c)' /\ frame'[c].id = n /\ frame'[c].cpu = t /\ ~frame'[c].after
        BY <1>1, <1>2, <1>3, <1>4, <2>2 DEF InCall, Calling
      <3>2. \A m \in frame'[c].ids : stop' = "run" => Delivered(m)' \/ (InCall(c)' /\ m = frame'[c].id)
        BY <1>2, <1>3, <2>7, <3>1 DEF Caller
      <3>3. \A m \in frame'[c].ids : m \in 1..calls' /\ made'[m] \in CPU \ {c}
        BY <1>2 DEF Caller
      <3>4. /\ frame'[c].id # NULL /\ frame'[c].id \in 1..calls' /\ made'[frame'[c].id] = frame'[c].cpu
            /\ frame'[c].cpu \in CPU /\ Targets(prog', c, frame'[c].cpu)
        BY <1>2, <1>3, <1>4, <3>1 DEF Caller
      <3>5. /\ frame'[c].cpu \in idle' /\ func'[frame'[c].cpu] = frame'[c].id
            /\ pc'[c] \notin CallingAll /\ (frame'[c].kind = "all" => c \in prog'.mayOnCpus)
        BY <1>2, <1>3, <1>4, <2>2, <3>1 DEF Caller, CallingAll
      <3> QED
        BY <2>2, <3>1, <3>2, <3>3, <3>4, <3>5 DEF Caller
    <2>10. \A d \in CPU : Target(d)'
      BY <2>5, <2>6
    <2>11. \A d \in CPU : Caller(d)'
      BY <2>8, <2>9
    <2> QED
      BY <2>3, <2>4, <2>10, <2>11
  <1> QED
    BY <1>5, <1>6

LEMMA KickKeeps ==
    ASSUME OneCaller, SmpInv, NEW c \in CPU, Kick(c), Boots'
    PROVE  SmpInv'
  <1> USE DEF SmpInv
  <1>1. PICK t, n : t = frame[c].cpu /\ n = frame[c].id
    OBVIOUS
  <1>2. /\ pc[c] = "kick" /\ idle' = idle \ {t}
        /\ UNCHANGED <<prog, lock, secondary_data, online, func, cur, boot,
                       calls, made, ran, returned, stop>>
    BY <1>1 DEF Kick, At, ghosts
  <1>3. InCall(c) /\ ~frame[c].after
    BY <1>2 DEF Caller, InCall, Calling
  <1>4. /\ t \in CPU /\ t # c /\ t \in idle /\ n \in 1..calls /\ made[n] = t /\ n # NULL /\ func[t] = n
    BY <1>1, <1>2, <1>3 DEF Caller, InCall, Targets
  <1>5. frame[c].kind \in {"async", "sync", "all"}
    BY DEF Types, Frame
  <1>6. /\ frame[c].kind = "async" =>
              pc' = [pc EXCEPT ![c] = "code"] /\ frame' = [frame EXCEPT ![c] = NoFrame]
        /\ frame[c].kind = "sync" =>
              pc' = [pc EXCEPT ![c] = "wait"] /\ frame' = [frame EXCEPT ![c].after = TRUE]
        /\ frame[c].kind = "all" => pc' = [pc EXCEPT ![c] = "next"] /\ frame' = frame
    BY DEF Kick, Goto
  <1>7. PICK l \in {"code", "wait", "next"} : pc' = [pc EXCEPT ![c] = l]
    BY <1>5, <1>6
  <1>8. pc'[c] = l /\ \A d \in CPU \ {c} : pc'[d] = pc[d]
    BY <1>7 DEF Types
  <1>9. frame' \in [CPU -> Frame] /\ \A d \in CPU \ {c} : frame'[d] = frame[d]
    <2>1. CASE frame[c].kind = "async"
      BY <1>6, <2>1, NoFrameType DEF Types
    <2>2. CASE frame[c].kind = "sync"
      <3>1. [frame[c] EXCEPT !.after = TRUE] \in Frame
        BY DEF Types, Frame
      <3> QED
        BY <1>6, <2>2, <3>1 DEF Types
    <2>3. CASE frame[c].kind = "all"
      BY <1>6, <2>3 DEF Types
    <2> QED
      BY <1>5, <2>1, <2>2, <2>3
  <1>10. Types' /\ Runs'
    <2>1. pc' \in [CPU -> Labels]
      BY <1>7 DEF Types, Labels, Code, Calling, CallingAll
    <2> QED
      BY <1>2, <1>9, <2>1 DEF Types, Runs, ReturnAfterRun
  <1>11. Target(t)'
    <2>1. pc'[t] = "idling" /\ cur[t] = NULL /\ ran[n] = 0
      BY <1>4, <1>8 DEF Target, Code, Calling, CallingAll
    <2> QED
      BY <1>2, <1>4, <2>1 DEF Target, Code, Booting, Calling, CallingAll
  <1>12. ASSUME NEW d \in CPU \ {t} PROVE Target(d)'
    <2>1. \A k \in CPU : pc[k] = "kick" /\ frame[k].cpu = d => pc'[k] = "kick" /\ frame'[k].cpu = d
      BY <1>1, <1>8, <1>9
    <2>2. /\ pc[d] \in Code <=> pc'[d] \in Code
          /\ pc'[d] \in Booting \cup {"doidle", "mark"} => pc[d] \in Booting \cup {"doidle", "mark"}
          /\ pc'[d] = "clear" <=> pc[d] = "clear"
          /\ pc'[d] = "idling" <=> pc[d] = "idling"
      BY <1>2, <1>8 DEF Code, Booting, Calling, CallingAll
    <2>3. calls \in Nat
      BY DEF Types
    <2> QED
      BY <1>2, <2>1, <2>2, <2>3, TargetStays
  <1>13. \A m \in 1..calls : Delivered(m) => Delivered(m)'
    BY <1>2 DEF Delivered
  <1>14. ASSUME NEW d \in CPU \ {c} PROVE Caller(d)'
    <2>1. InCall(d) => frame[d].cpu # t
      BY <1>1, <1>3, SameCaller
    <2>2. InCall(d) /\ ~frame[d].after /\ pc[d] # "kick" =>
            ran'[frame[d].id] = 0 /\ func'[frame[d].cpu] # frame[d].id
      BY <1>2 DEF Caller
    <2>3. calls \in Nat
      BY DEF Types
    <2> QED
      BY <1>2, <1>8, <1>9, <1>13, <2>1, <2>2, <2>3, CallerStays
  <1>15. Delivered(n)' /\ \A m \in frame[c].ids : stop' = "run" => Delivered(m)'
    <2>1. Delivered(n)'
      BY <1>2, <1>4 DEF Delivered
    <2> QED
      BY <1>1, <1>2, <1>13, <2>1 DEF Caller
  <1>16. \A m \in frame[c].ids : m \in 1..calls' /\ made'[m] \in CPU \ {c}
    BY <1>2 DEF Caller
  <1>17. Caller(c)'
    <2>1. CASE frame[c].kind = "async"
      <3>1. pc'[c] = "code" /\ frame'[c] = NoFrame
        BY <1>6, <2>1 DEF Types
      <3> QED
        BY <3>1, NoFrameType DEF Caller, InCall, Calling, CallingAll
    <2>2. CASE frame[c].kind = "sync"
      <3>1. /\ pc'[c] = "wait" /\ frame'[c].after = TRUE /\ frame'[c].id = n /\ frame'[c].cpu = t
            /\ frame'[c].kind = "sync" /\ frame'[c].ids = frame[c].ids
        BY <1>1, <1>6, <2>2 DEF Types, Frame
      <3>2. Targets(prog', c, t)
        BY <1>1, <1>2, <1>3 DEF Caller
      <3>3. Delivered(frame[c].id)'
        BY <1>2, <1>4, <3>1 DEF Delivered
      <3> QED
        BY <1>2, <1>4, <1>15, <1>16, <3>1, <3>2, <3>3 DEF Caller, CallingAll
    <2>3. CASE frame[c].kind = "all"
      <3>1. pc'[c] = "next" /\ frame' = frame /\ ~InCall(c)'
        BY <1>6, <2>3 DEF Types, InCall, Calling
      <3>2. c \in prog'.mayOnCpus
        BY <1>2, <1>3, <2>3 DEF Caller
      <3> QED
        BY <1>15, <1>16, <3>1, <3>2 DEF Caller, Calling
    <2> QED
      BY <1>5, <2>1, <2>2, <2>3
  <1>18. \A d \in CPU : Target(d)'
    BY <1>11, <1>12
  <1>19. \A d \in CPU : Caller(d)'
    BY <1>14, <1>17
  <1> QED
    BY <1>10, <1>18, <1>19

\* on_cpus between its on_cpu_async: the calls before were delivered.
LEMMA AllMoves ==
    ASSUME SmpInv, NEW c \in CPU, pc[c] \in {"code"} \cup CallingAll, NEW l \in CallingAll,
           pc' = [pc EXCEPT ![c] = l], c \in prog.mayOnCpus,
           l = "allclear" => \A n \in frame'[c].ids : ran[n] = 1,
           frame' \in [CPU -> Frame], frame'[c].ids \in {{}, frame[c].ids},
           \A d \in CPU \ {c} : frame'[d] = frame[d],
           UNCHANGED <<prog, lock, secondary_data, online, idle, func, cur, boot,
                       calls, made, ran, returned, stop>>, Boots'
    PROVE  SmpInv'
  <1> USE DEF SmpInv
  <1>1. pc'[c] = l /\ ~InCall(c) /\ ~InCall(c)' /\ l \notin Calling
    BY DEF Types, InCall, Calling, CallingAll
  <1>2. Types' /\ Runs'
    BY DEF Types, Runs, ReturnAfterRun, Labels, Code
  <1>3. \A n \in 1..calls : Delivered(n) => Delivered(n)'
    BY DEF Delivered
  <1>4. \A n \in frame'[c].ids : n \in 1..calls' /\ made'[n] \in CPU \ {c} /\ (stop' = "run" => Delivered(n)')
    BY <1>1, <1>3 DEF Caller
  <1>5. Caller(c)'
    BY <1>1, <1>4 DEF Caller, Calling
  <1>6. l \in Code \ {"bootwait", "kick"} /\ pc[c] \in Code \ {"bootwait", "kick"} /\ calls <= calls'
    BY DEF Code, Calling, CallingAll, Types
  <1> QED
    BY <1>2, <1>5, <1>6, CallMoves

LEMMA OnCpusKeeps ==
    ASSUME OneCaller, SmpInv, NEW c \in CPU,
           OnCpus(c) \/ NextCpu(c) \/ AnnounceAll(c) \/ CheckAll(c) \/ WaitAll(c) \/ ClearAll(c),
           Boots'
    PROVE  SmpInv'
  <1> USE DEF SmpInv
  <1> DEFINE T == After(c, frame[c].cpu)
  <1>1. T # {} => First(T) \in CPU \ {c} /\ First(T) \in Int
    <2>1. T \subseteq CPU \ {c}
      BY DEF After, Others
    <2> HIDE DEF T
    <2>2. T # {} => First(T) \in T
      BY <2>1, FirstIsThere
    <2>3. \A t \in CPU : t \in Int
      BY CpuFacts
    <2> QED
      BY <2>1, <2>2, <2>3
  <1>2. ASSUME NEW k \in Int
        PROVE  LET f == [frame EXCEPT ![c].cpu = k] IN
               f \in [CPU -> Frame] /\ f[c].ids = frame[c].ids /\ \A d \in CPU \ {c} : f[d] = frame[d]
    <2>1. [frame[c] EXCEPT !.cpu = k] \in Frame /\ [frame[c] EXCEPT !.cpu = k].ids = frame[c].ids
      BY DEF Types, Frame
    <2> QED
      BY <2>1 DEF Types
  <1>3. pc[c] \in CallingAll => c \in prog.mayOnCpus
    BY DEF Caller
  <1>4. CASE OnCpus(c)
    <2>1. NewFrame(-1, "all") \in Frame /\ NewFrame(-1, "all").ids = {}
      <3>1. -1 \in Int
        OBVIOUS
      <3> QED
        BY <3>1, NewFrameType
    <2>2. frame' \in [CPU -> Frame] /\ frame'[c].ids = {} /\ \A d \in CPU \ {c} : frame'[d] = frame[d]
      BY <1>4, <2>1 DEF OnCpus, Types
    <2>3. /\ pc[c] = "code" /\ pc' = [pc EXCEPT ![c] = "next"] /\ c \in prog.mayOnCpus
          /\ UNCHANGED <<prog, lock, secondary_data, online, idle, func, cur, boot,
                         calls, made, ran, returned, stop>>
      BY <1>4 DEF OnCpus, At, Goto, shared, ghosts
    <2> QED
      BY <2>2, <2>3, AllMoves DEF CallingAll
  <1>5. CASE NextCpu(c) /\ T # {}
    <2>1. /\ pc[c] = "next" /\ stop = "run" /\ Enter(c, First(T), "all")
          /\ UNCHANGED <<prog, lock, secondary_data, online, idle, func, cur, boot, ran, returned>>
          /\ \/ stop' = "assert" /\ UNCHANGED pc
             \/ pc' = [pc EXCEPT ![c] = "online?"] /\ UNCHANGED stop
      BY <1>5 DEF NextCpu, At, Goto, shared
    <2>2. First(T) \in CPU /\ Targets(prog, c, First(T)) /\ c \in prog.mayOnCpus
      BY <1>1, <1>3, <1>5, <2>1 DEF Targets, CallingAll
    <2> HIDE DEF T
    <2> QED
      BY <2>1, <2>2, EnterKeeps
  <1>6. CASE NextCpu(c) /\ T = {}
    <2>1. /\ pc[c] = "next" /\ pc' = [pc EXCEPT ![c] = "allannounce"]
          /\ frame' = [frame EXCEPT ![c].cpu = -1]
          /\ UNCHANGED <<prog, lock, secondary_data, online, idle, func, cur, boot,
                         calls, made, ran, returned, stop>>
      BY <1>6 DEF NextCpu, At, Goto, shared
    <2>2. -1 \in Int
      OBVIOUS
    <2>3. frame' \in [CPU -> Frame] /\ frame'[c].ids = frame[c].ids /\ \A d \in CPU \ {c} : frame'[d] = frame[d]
      BY <1>2, <2>1, <2>2
    <2>4. c \in prog.mayOnCpus
      BY <1>3, <2>1 DEF CallingAll
    <2> QED
      BY <2>1, <2>3, <2>4, AllMoves DEF CallingAll
  <1>7. CASE AnnounceAll(c)
    <2>1. /\ pc[c] = "allannounce"
          /\ UNCHANGED <<prog, lock, secondary_data, online, idle, func, cur, boot,
                         calls, made, ran, returned, stop>>
      BY <1>7 DEF AnnounceAll, At, ghosts
    <2>2. CASE T # {}
      <3>1. pc' = [pc EXCEPT ![c] = "allcheck"] /\ frame' = [frame EXCEPT ![c].cpu = First(T)]
        BY <1>7, <2>2 DEF AnnounceAll, Goto
      <3>2. First(T) \in Int
        BY <1>1, <2>2
      <3> HIDE DEF T
      <3> QED
        BY <1>2, <1>3, <2>1, <3>1, <3>2, AllMoves DEF CallingAll
    <2>3. CASE T = {}
      <3>1. pc' = [pc EXCEPT ![c] = "allspin"] /\ frame' = frame
        BY <1>7, <2>3 DEF AnnounceAll, Goto
      <3> QED
        BY <1>3, <2>1, <3>1, AllMoves DEF CallingAll, Types
    <2> QED
      BY <2>2, <2>3
  <1>8. CASE CheckAll(c)
    <2>1. CASE stop' = "deadlock" /\ UNCHANGED pc
      BY <1>8, <2>1, StopKeeps DEF CheckAll, shared, ghosts
    <2>2. CASE Goto(c, "allannounce") /\ UNCHANGED stop
      <3>1. pc[c] = "allcheck" /\ pc' = [pc EXCEPT ![c] = "allannounce"]
        BY <1>8, <2>2 DEF CheckAll, At, Goto
      <3> QED
        BY <1>3, <1>8, <2>2, <3>1, AllMoves DEF CheckAll, shared, ghosts, CallingAll, Types
    <2>3. CASE UNCHANGED <<pc, stop>>
      BY <1>8, <2>3, Unmoved DEF CheckAll, shared, ghosts, state
    <2> QED
      BY <1>8, <2>1, <2>2, <2>3 DEF CheckAll, DeadlockCheck
  <1>9. CASE WaitAll(c) /\ Cardinality(idle) < N - 1
    BY <1>9, Unmoved DEF WaitAll, Sleep, shared, ghosts, state
  <1>10. CASE WaitAll(c) /\ ~(Cardinality(idle) < N - 1)
    <2>1. pc[c] = "allspin" /\ stop = "run" /\ c \in prog.mayOnCpus
      BY <1>3, <1>10 DEF WaitAll, At, CallingAll
    <2>2. idle \subseteq CPU /\ c \notin idle
      BY <2>1 DEF Types, Target
    <2>3. \A t \in CPU \ {c} : t \in idle
      BY <1>10, <2>2, OthersIdle
    <2>4. \A t \in CPU \ {c} : func[t] = NULL
      BY <2>1, <2>3, IdleHasRun DEF Targets
    <2>5. \A n \in frame[c].ids : n \in 1..calls /\ made[n] \in CPU \ {c} /\ Delivered(n)
      BY <2>1 DEF Caller, InCall, Calling
    <2>6. \A n \in frame[c].ids : n \in Call /\ ran[n] = 1
      BY <2>4, <2>5 DEF Delivered, NULL, Types, Call
    <2>7. /\ pc' = [pc EXCEPT ![c] = "allclear"] /\ frame' = [frame EXCEPT ![c].cpu = -1]
          /\ UNCHANGED <<prog, lock, secondary_data, online, idle, func, cur, boot,
                         calls, made, ran, returned, stop>>
      BY <1>10 DEF WaitAll, Goto, shared, ghosts
    <2>8. -1 \in Int
      OBVIOUS
    <2>9. frame' \in [CPU -> Frame] /\ frame'[c].ids = frame[c].ids /\ \A d \in CPU \ {c} : frame'[d] = frame[d]
      BY <1>2, <2>7, <2>8
    <2> QED
      BY <2>1, <2>6, <2>7, <2>9, AllMoves DEF CallingAll
  <1>11. CASE ClearAll(c)
    <2> DEFINE U == {t \in CPU : t > frame[c].cpu}
    <2>1. /\ pc[c] = "allclear" /\ c \in prog.mayOnCpus /\ \A n \in frame[c].ids : n \in Call /\ ran[n] = 1
          /\ UNCHANGED <<prog, lock, secondary_data, online, idle, func, cur, boot,
                         calls, made, ran, stop>>
      <3>1. pc[c] = "allclear" /\ UNCHANGED <<prog, lock, secondary_data, online, idle, func, cur, boot,
                                              calls, made, ran, stop>>
        BY <1>11 DEF ClearAll, At
      <3>2. \A n \in frame[c].ids : n \in 1..calls /\ ran[n] = 1
        BY <3>1 DEF Caller
      <3>3. \A n \in 1..calls : n \in Call
        BY DEF Types, Call
      <3> QED
        BY <1>3, <3>1, <3>2, <3>3 DEF CallingAll
    <2>2. CASE U # {}
      <3>1. First(U) \in Int
        <4>1. U \subseteq CPU /\ \A t \in CPU : t \in Int
          BY CpuFacts
        <4> HIDE DEF U
        <4>2. First(U) \in U
          BY <2>2, <4>1, FirstIsThere
        <4> QED
          BY <4>1, <4>2
      <3>2. /\ frame' = [frame EXCEPT ![c].cpu = First(U)] /\ returned' = returned
            /\ pc' = [pc EXCEPT ![c] = "allclear"]
        BY <1>11, <2>1, <2>2 DEF ClearAll, Types
      <3> HIDE DEF U
      <3>3. frame' \in [CPU -> Frame] /\ frame'[c].ids = frame[c].ids /\ \A d \in CPU \ {c} : frame'[d] = frame[d]
        BY <1>2, <3>1, <3>2
      <3> QED
        BY <2>1, <3>2, <3>3, AllMoves DEF CallingAll
    <2>3. CASE U = {}
      <3>1. /\ pc' = [pc EXCEPT ![c] = "code"] /\ frame' = [frame EXCEPT ![c] = NoFrame]
            /\ returned' = returned \cup frame[c].ids
        BY <1>11, <2>3 DEF ClearAll, Goto
      <3>2. frame[c].ids \in SUBSET Call /\ pc[c] \in Code \ {"bootwait", "kick"}
        BY <2>1 DEF Code, CallingAll
      <3> QED
        BY <2>1, <3>1, <3>2, LeaveKeeps
    <2> QED
      BY <2>2, <2>3
  <1> QED
    BY <1>4, <1>5, <1>6, <1>7, <1>8, <1>9, <1>10, <1>11

-----------------------------------------------------------------------------
(* The theorem. *)

LEMMA SmpInit ==
    ASSUME Init
    PROVE  SmpInv
  <1> USE CpuFacts DEF Init
  <1>1. Boots /\ pc \in [CPU -> Labels] /\ frame \in [CPU -> Frame]
    BY LockInit DEF LockInv
  <1>2. \A c \in CPU : pc[c] \in {"code", "off"} /\ (c = 0 => pc[c] = "code")
    OBVIOUS
  <1>3. Types
    <2>1. NoBoot \in BootData /\ NULL \in 0..MaxCalls /\ lock \in 0..N
      BY DEF NoBoot, BootData, NULL, Free
    <2> QED
      BY <1>1, <2>1 DEF Types
  <1>4. Runs
    BY DEF Runs, ReturnAfterRun
  <1>5. ASSUME NEW c \in CPU PROVE Caller(c) /\ Target(c)
    <2>1. frame[c].id = NULL /\ frame[c].ids = {} /\ func[c] = NULL /\ cur[c] = NULL
      BY NoFrameType
    <2>2. Caller(c)
      BY <1>2, <2>1 DEF Caller, InCall, Calling, CallingAll
    <2>3. Target(c)
      BY <1>2, <2>1 DEF Target
    <2> QED
      BY <2>2, <2>3
  <1> QED
    BY <1>1, <1>3, <1>4, <1>5 DEF SmpInv

LEMMA SmpNext ==
    ASSUME OneCaller, SmpInv, [Next]_vars
    PROVE  SmpInv'
  <1>1. Boots'
    <2>1. LockInv
      BY DEF SmpInv, LockInv, Types, Caller, InCall, Calling
    <2> QED
      BY <2>1, LockNext DEF LockInv
  <1>2. CASE UNCHANGED vars
    BY <1>1, <1>2, Unmoved DEF vars, state
  <1>3. ASSUME NEW c \in CPU, Choose(c) \/ Run(c) PROVE SmpInv'
    <2>1. ASSUME NEW t \in CPU, SmpBootSecondary(c, t) PROVE SmpInv'
      <3>1. CASE t \in online
        BY <1>1, <2>1, <3>1, StopKeeps DEF SmpBootSecondary, shared, ghosts
      <3>2. CASE t \notin online
        BY <1>1, <2>1, <3>2, StartKeeps DEF SmpBootSecondary, At
      <3> QED
        BY <3>1, <3>2
    <2>2. ASSUME NEW t \in CPU, NEW kind \in prog.kinds, OnCpu(c, t, kind) PROVE SmpInv'
      <3>1. prog \in Program
        BY DEF SmpInv, Types
      <3>2. kind \in {"async", "sync", "all"} /\ kind # "all"
        BY <3>1 DEF Program
      <3>3. /\ pc[c] = "code" /\ stop = "run" /\ Enter(c, t, kind) /\ Targets(prog, c, t)
            /\ \/ stop' = "assert" /\ UNCHANGED pc
               \/ pc' = [pc EXCEPT ![c] = "online?"] /\ UNCHANGED stop
            /\ UNCHANGED <<prog, lock, secondary_data, online, idle, func, cur, boot, ran, returned>>
        BY <2>2 DEF OnCpu, At, Goto, Targets, shared
      <3> QED
        BY <1>1, <3>2, <3>3, EnterKeeps
    <2>3. CASE EnsureOnline(c)
      <3>1. pc[c] = "online?" /\ lock = Free /\ UNCHANGED frame
        BY <2>3 DEF EnsureOnline, At
      <3>2. CASE frame[c].cpu \in online
        BY <1>1, <2>3, <3>1, <3>2, WaitMoves DEF EnsureOnline, Goto, shared, ghosts
      <3>3. CASE frame[c].cpu \notin online
        <4>1. StartSecondary(c, frame[c].cpu, "do_idle")
          BY <2>3, <3>3 DEF EnsureOnline
        <4>2. frame[c].cpu \in CPU
          BY <3>1 DEF SmpInv, Caller, InCall, Calling
        <4> QED
          BY <1>1, <3>1, <3>3, <4>1, <4>2, StartKeeps
      <3> QED
        BY <3>2, <3>3
    <2>4. CASE Wfe(c)
      BY <1>1, <2>4, Unmoved DEF Wfe, shared, ghosts, state
    <2>5. CASE BootWait(c) \/ SecondaryEntry(c) \/ SecondaryOnline(c)
      BY <1>1, <2>5, BootWaitKeeps, SecondaryKeeps
    <2>6. CASE \/ CodeEnds(c) \/ DoIdle(c) \/ Idling(c) \/ FunctionReturns(c) \/ ClearFunc(c)
               \/ MarkIdle(c)
      BY <1>1, <2>6, DoIdleKeeps
    <2>7. CASE Announce(c) \/ CheckWait(c) \/ CpuWait(c) \/ Withdraw(c) \/ Post(c) \/ Kick(c)
      BY <1>1, <2>7, CpuWaitKeeps, WithdrawKeeps, PostKeeps, KickKeeps
    <2>8. CASE OnCpus(c) \/ NextCpu(c) \/ AnnounceAll(c) \/ CheckAll(c) \/ WaitAll(c) \/ ClearAll(c)
      BY <1>1, <2>8, OnCpusKeeps
    <2> QED
      BY <1>3, <2>1, <2>2, <2>3, <2>4, <2>5, <2>6, <2>7, <2>8 DEF Choose, Run
  <1> QED
    BY <1>2, <1>3 DEF Next

\* When every CPU has one caller, do_idle runs each function that is handed
\* to it once and never calls through a NULL func, and on_cpu and on_cpus
\* return after the functions have run, for any number of CPUs and calls.
THEOREM CallsRunCorrect ==
    ASSUME OneCaller
    PROVE  Spec => []CallsRun
  <1>1. SmpInv => CallsRun
    BY DEF SmpInv, Types, Runs, CallsRun, RunsOnce
  <1>2. Init => SmpInv
    BY SmpInit
  <1>3. SmpInv /\ [Next]_vars => SmpInv'
    BY SmpNext
  <1> QED
    BY <1>1, <1>2, <1>3, PTL DEF Spec


-----------------------------------------------------------------------------
(* The deadlock check.  A CPU's bit is in waiters from where it announces  *)
(* that it waits until it withdraws.  The check reads one mask after the   *)
(* other while other CPUs wait and withdraw; what it went through stays    *)
(* true, for a CPU withdraws only from one that is idle, and none of those *)
(* that are gone through is, as long as they wait.                         *)

Holding == {"check", "spin", "withdraw", "allannounce", "allcheck", "allspin", "allclear"}
Checking == {"check", "allcheck"}

\* c waits for t, or has just seen it idle.
Waiting(c, t) ==
    /\ c # t /\ pc[c] \in Holding
    /\ pc[c] \in {"check", "spin", "withdraw"} => frame[c].cpu = t
    /\ pc[c] = "allclear" => t > frame[c].cpu

Walk == [path : Seq(CPU), bit : Int]

\* On the path of c's check, from c on, each CPU has its bit in the waiters of
\* the one before.
Linked(c) ==
    LET p == walk[c].path IN
    p # <<>> /\ p[1] = c /\ \A k \in 1..(Len(p) - 1) : p[k + 1] \in waiters[p[k]]

WaitInv ==
    /\ waiters \in [CPU -> SUBSET CPU] /\ walk \in [CPU -> Walk]
    /\ \A t \in CPU : \A c \in waiters[t] : Waiting(c, t)
    /\ \A c \in CPU : pc[c] = "withdraw" => frame[c].cpu \in idle
    /\ \A c \in CPU : pc[c] = "allclear" => Others(c) \subseteq idle
    /\ \A c \in CPU : pc[c] \in Checking => Linked(c)
    /\ DeadlockIsReal

\* Who waits is not idle, and so has not been seen idle by who waits for it.
LEMMA WaitersBlocked ==
    ASSUME SmpInv, WaitInv, NEW d \in CPU, NEW t \in CPU, d \in waiters[t], t \notin idle
    PROVE  d \notin idle /\ t \in Blockers(d)
  <1>1. Waiting(d, t)
    BY DEF WaitInv
  <1>2. pc[d] # "withdraw" /\ pc[d] # "allclear"
    BY <1>1 DEF WaitInv, Waiting, Others
  <1>3. d \notin idle
    BY <1>1 DEF SmpInv, Target, Waiting, Holding
  <1> QED
    BY <1>1, <1>2, <1>3 DEF Blockers, Waiting, Holding, Others

\* None of the CPUs on a path is idle.
LEMMA PathAwake ==
    ASSUME SmpInv, WaitInv, NEW c \in CPU, pc[c] \in Checking, NEW k \in 1..Len(walk[c].path)
    PROVE  walk[c].path[k] \in CPU /\ walk[c].path[k] \notin idle
  <1> DEFINE p == walk[c].path
  <1>1. p \in Seq(CPU) /\ p[1] = c /\ \A j \in 1..(Len(p) - 1) : p[j + 1] \in waiters[p[j]]
    BY DEF WaitInv, Linked, Walk
  <1> HIDE DEF p
  <1>2. p[k] \in CPU /\ k \in 1..Len(p)
    BY <1>1 DEF p
  <1>3. CASE k = 1
    BY <1>1, <1>3 DEF SmpInv, Target, Checking, p
  <1>4. CASE k # 1
    <2>1. k - 1 \in 1..(Len(p) - 1) /\ k - 1 \in 1..Len(p) /\ (k - 1) + 1 = k
      BY <1>1, <1>2, <1>4
    <2>2. p[k] \in waiters[p[k - 1]] /\ p[k - 1] \in CPU
      BY <1>1, <2>1
    <2>3. pc[p[k]] \in Holding
      BY <2>2 DEF WaitInv, Waiting
    <2> QED
      BY <1>2, <2>3 DEF SmpInv, Target, Holding, p
  <1> QED
    BY <1>3, <1>4

\* If the check fires, those that it went through wait for one another.
LEMMA RealDeadlock ==
    ASSUME SmpInv, WaitInv, NEW c \in CPU, pc[c] \in Checking,
           frame[c].cpu \in waiters[walk[c].path[Len(walk[c].path)]]
    PROVE  \E S \in SUBSET CPU : S # {} /\ \A d \in S : Blockers(d) \cap S # {}
  <1> DEFINE p == walk[c].path
             P == {p[k] : k \in 1..Len(p)}
             S == P \cup {frame[c].cpu}
  <1>1. p \in Seq(CPU) /\ p # <<>> /\ p[1] = c /\ \A k \in 1..(Len(p) - 1) : p[k + 1] \in waiters[p[k]]
    BY DEF WaitInv, Linked, Walk
  <1>2. \A k \in 1..Len(p) : p[k] \in CPU /\ p[k] \notin idle
    BY PathAwake
  <1>3. Len(p) \in 1..Len(p) /\ 1 \in 1..Len(p) /\ frame[c].cpu \in waiters[p[Len(p)]]
    BY <1>1
  <1> HIDE DEF p
  <1>4. \A t \in P : t \in CPU /\ t \notin idle
    BY <1>2
  <1>5. ASSUME NEW t \in P, NEW d \in waiters[t] PROVE d \in CPU /\ d \notin idle /\ t \in Blockers(d)
    <2>1. d \in CPU
      BY <1>4 DEF WaitInv
    <2> QED
      BY <1>4, <2>1, WaitersBlocked
  <1>6. frame[c].cpu \in CPU /\ frame[c].cpu \notin idle /\ c \in P
    BY <1>1, <1>3, <1>5
  <1>7. ASSUME NEW d \in S, d # c PROVE \E t \in P : d \in waiters[t]
    <2>1. CASE d = frame[c].cpu
      BY <1>3, <2>1
    <2>2. ASSUME NEW k \in 1..Len(p), d = p[k] PROVE \E t \in P : d \in waiters[t]
      <3>1. k # 1 /\ Len(p) \in Nat
        BY <1>1, <1>7, <2>2
      <3>2. k - 1 \in 1..(Len(p) - 1) /\ k - 1 \in 1..Len(p) /\ (k - 1) + 1 = k
        BY <3>1
      <3> QED
        BY <1>1, <2>2, <3>2
    <2> QED
      BY <2>1, <2>2
  <1>8. ASSUME NEW d \in S PROVE Blockers(d) \cap S # {}
    <2>1. CASE d # c
      BY <1>5, <1>7, <2>1
    <2>2. CASE d = c /\ frame[c].cpu = c
      BY <1>3, <1>5, <2>2
    <2>3. CASE d = c /\ frame[c].cpu # c
      BY <1>6, <2>3 DEF Blockers, Others, Checking
    <2> QED
      BY <2>1, <2>2, <2>3
  <1>9. S \in SUBSET CPU /\ S # {}
    BY <1>4, <1>6
  <1> QED
    BY <1>8, <1>9

\* Those that do not take the step stay where they wait.
Aside(c) ==
    /\ walk' \in [CPU -> Walk]
    /\ \A d \in CPU \ {c} :
          /\ pc[d] \in Holding \/ pc'[d] \in Holding => pc'[d] = pc[d] /\ frame'[d] = frame[d]
          /\ walk'[d] = walk[d]
          /\ pc[d] = "withdraw" => frame[d].cpu \in idle'
          /\ pc[d] = "allclear" => Others(d) \subseteq idle'

\* A path stays one while another CPU withdraws from one that is idle.
LEMMA PathStays ==
    ASSUME SmpInv, WaitInv, NEW d \in CPU, pc[d] \in Checking, walk'[d] = walk[d],
           \A t \in CPU : t \notin idle => waiters[t] \subseteq waiters'[t]
    PROVE  Linked(d)'
  <1> DEFINE p == walk[d].path
  <1>1. p \in Seq(CPU) /\ p # <<>> /\ p[1] = d /\ \A k \in 1..(Len(p) - 1) : p[k + 1] \in waiters[p[k]]
    BY DEF WaitInv, Linked, Walk
  <1>2. \A k \in 1..Len(p) : p[k] \in CPU /\ p[k] \notin idle
    BY PathAwake
  <1> HIDE DEF p
  <1>3. \A k \in 1..(Len(p) - 1) : k \in 1..Len(p)
    BY <1>1
  <1>4. \A k \in 1..(Len(p) - 1) : p[k + 1] \in waiters'[p[k]]
    BY <1>1, <1>2, <1>3
  <1>5. walk'[d].path = p
    BY DEF p
  <1> QED
    BY <1>1, <1>4, <1>5 DEF Linked

\* A step of c, which leaves the others' bits and places alone.
LEMMA WaitStep ==
    ASSUME SmpInv, WaitInv, NEW c \in CPU, waiters' \in [CPU -> SUBSET CPU], Aside(c),
           \A t \in CPU : waiters'[t] \ {c} \subseteq waiters[t],
           \A t \in CPU : t \notin idle => waiters[t] \subseteq waiters'[t],
           \A t \in CPU : c \in waiters'[t] => Waiting(c, t)',
           pc'[c] = "withdraw" => frame'[c].cpu \in idle',
           pc'[c] = "allclear" => Others(c) \subseteq idle',
           pc'[c] \in Checking => Linked(c)',
           DeadlockIsReal'
    PROVE  WaitInv'
  <1>1. ASSUME NEW t \in CPU, NEW d \in waiters'[t] PROVE Waiting(d, t)'
    <2>1. CASE d = c
      BY <1>1, <2>1
    <2>2. CASE d # c
      <3>1. d \in CPU /\ Waiting(d, t)
        BY <1>1, <2>2 DEF WaitInv
      <3>2. pc'[d] = pc[d] /\ frame'[d] = frame[d]
        BY <3>1, <2>2 DEF Waiting, Aside
      <3> QED
        BY <3>1, <3>2 DEF Waiting
    <2> QED
      BY <2>1, <2>2
  <1>2. ASSUME NEW d \in CPU \ {c}, pc'[d] \in Holding PROVE pc'[d] = pc[d] /\ frame'[d] = frame[d]
    BY <1>2 DEF Aside
  <1>3. ASSUME NEW d \in CPU, pc'[d] = "withdraw" PROVE frame'[d].cpu \in idle'
    BY <1>2, <1>3 DEF Holding, Aside
  <1>4. ASSUME NEW d \in CPU, pc'[d] = "allclear" PROVE Others(d) \subseteq idle'
    BY <1>2, <1>4 DEF Holding, Aside
  <1>5. ASSUME NEW d \in CPU, pc'[d] \in Checking PROVE Linked(d)'
    <2>1. CASE d = c
      BY <1>5, <2>1
    <2>2. CASE d # c
      BY <1>2, <1>5, <2>2, PathStays DEF Holding, Checking, Aside
    <2> QED
      BY <2>1, <2>2
  <1>6. walk' \in [CPU -> Walk]
    BY DEF Aside
  <1>7. \A d \in CPU : pc'[d] = "allclear" => Others(d)' \subseteq idle'
    BY <1>4 DEF Others, CPU
  <1> QED
    BY <1>1, <1>3, <1>5, <1>6, <1>7 DEF WaitInv, CPU, Walk

\* A step of a CPU that does not wait.
LEMMA OtherStep ==
    ASSUME SmpInv, WaitInv, NEW c \in CPU, pc[c] \notin Holding, waiters' = waiters, Aside(c),
           pc'[c] \notin Checking \cup {"withdraw", "allclear"}, stop' # "deadlock"
    PROVE  WaitInv'
  <1>1. \A t \in CPU : c \notin waiters[t]
    BY DEF WaitInv, Waiting
  <1>2. DeadlockIsReal'
    BY DEF DeadlockIsReal
  <1> QED
    BY <1>1, <1>2, WaitStep DEF WaitInv

\* Where the others are after a step of c that moves c only.
LEMMA OnlyMoves ==
    ASSUME SmpInv, WaitInv, NEW c \in CPU,
           pc' = pc \/ \E l : pc' = [pc EXCEPT ![c] = l],
           frame' = frame \/ \E f : frame' = [frame EXCEPT ![c] = f],
           walk' = walk \/ \E w \in Walk : walk' = [walk EXCEPT ![c] = w],
           idle \subseteq idle'
    PROVE  Aside(c)
  <1>1. \A d \in CPU \ {c} : pc'[d] = pc[d] /\ frame'[d] = frame[d]
    BY DEF SmpInv, Types
  <1>2. walk' \in [CPU -> Walk] /\ \A d \in CPU \ {c} : walk'[d] = walk[d]
    BY DEF WaitInv
  <1> QED
    BY <1>1, <1>2 DEF WaitInv, Aside

LEMMA AwakeStep ==
    ASSUME SmpInv, WaitInv, NEW c \in CPU,
           \/ \E t \in CPU, kind \in prog.kinds : OnCpu(c, t, kind)
           \/ OnCpus(c) \/ NextCpu(c) \/ SecondaryEntry(c) \/ SecondaryOnline(c)
           \/ CodeEnds(c) \/ DoIdle(c) \/ FunctionReturns(c) \/ ClearFunc(c) \/ MarkIdle(c) \/ Post(c)
           \/ BootWait(c) /\ frame[c].cpu \in online
           \/ Idling(c) /\ c \notin idle
           \/ EnsureOnline(c) /\ frame[c].cpu \in online
           \/ \E t \in CPU : SmpBootSecondary(c, t) /\ t \in online
    PROVE  WaitInv'
  <1>1. stop = "run" /\ pc[c] \notin Holding
    BY DEF OnCpu, OnCpus, NextCpu, SecondaryEntry, SecondaryOnline, CodeEnds, DoIdle, FunctionReturns,
           ClearFunc, MarkIdle, Post, BootWait, Idling, EnsureOnline, SmpBootSecondary, At, Holding
  <1>2. waiters' = waiters /\ walk' = walk /\ idle \subseteq idle'
    BY DEF OnCpu, OnCpus, NextCpu, SecondaryEntry, SecondaryOnline, CodeEnds, DoIdle, FunctionReturns,
           ClearFunc, MarkIdle, Post, BootWait, Idling, EnsureOnline, SmpBootSecondary, shared
  <1>3. \/ pc' = pc
        \/ \E l : l \notin Checking \cup {"withdraw", "allclear"} /\ pc' = [pc EXCEPT ![c] = l]
    BY DEF OnCpu, OnCpus, NextCpu, SecondaryEntry, SecondaryOnline, CodeEnds, DoIdle, FunctionReturns,
           ClearFunc, MarkIdle, Post, BootWait, Idling, EnsureOnline, SmpBootSecondary, Goto, Checking
  <1>4. frame' = frame \/ \E f : frame' = [frame EXCEPT ![c] = f]
    BY DEF OnCpu, OnCpus, NextCpu, SecondaryEntry, SecondaryOnline, CodeEnds, DoIdle, FunctionReturns,
           ClearFunc, MarkIdle, Post, BootWait, Idling, EnsureOnline, SmpBootSecondary, Enter
  <1>5. stop' # "deadlock"
    BY <1>1 DEF OnCpu, OnCpus, NextCpu, SecondaryEntry, SecondaryOnline, CodeEnds, DoIdle,
           FunctionReturns, ClearFunc, MarkIdle, Post, BootWait, Idling, EnsureOnline, SmpBootSecondary
  <1>6. pc'[c] \notin Checking \cup {"withdraw", "allclear"}
    BY <1>1, <1>3 DEF SmpInv, Types, Holding, Checking
  <1> QED
    BY <1>1, <1>2, <1>3, <1>4, <1>5, <1>6, OnlyMoves, OtherStep

LEMMA StartStep ==
    ASSUME SmpInv, WaitInv, NEW c \in CPU, NEW t \in CPU, NEW e, t \notin online,
           pc[c] \in {"code", "online?"}, StartSecondary(c, t, e),
           stop = "run", frame' = frame \/ \E f : frame' = [frame EXCEPT ![c] = f]
    PROVE  WaitInv'
  <1>1. pc[t] \in Booting /\ t # c
    BY DEF SmpInv, Boots, Booting
  <1>2. /\ pc' = [pc EXCEPT ![c] = "bootwait", ![t] = "entry"]
        /\ UNCHANGED <<waiters, walk, idle, stop>>
    BY DEF StartSecondary, ghosts
  <1>3. pc'[c] = "bootwait" /\ pc'[t] = "entry" /\ \A d \in CPU \ {c, t} : pc'[d] = pc[d]
    BY <1>1, <1>2 DEF SmpInv, Types
  <1>4. \A d \in CPU \ {c} : frame'[d] = frame[d]
    BY DEF SmpInv, Types
  <1>5. \A d \in CPU \ {c} : pc[d] \in Holding \/ pc'[d] \in Holding => pc'[d] = pc[d] /\ frame'[d] = frame[d]
    BY <1>1, <1>3, <1>4 DEF Holding, Booting
  <1>6. Aside(c)
    BY <1>2, <1>5 DEF Aside, WaitInv
  <1>7. pc[c] \notin Holding
    BY DEF Holding
  <1> QED
    BY <1>2, <1>3, <1>6, <1>7, OtherStep DEF Checking

\* A CPU that was seen idle stays so until its only caller kicks it.
LEMMA KickedStep ==
    ASSUME OneCaller, SmpInv, WaitInv, NEW c \in CPU, Kick(c)
    PROVE  WaitInv'
  <1>1. /\ pc[c] = "kick" /\ waiters' = waiters /\ walk' = walk
        /\ idle' = idle \ {frame[c].cpu} /\ stop' = "run"
    BY DEF Kick, At
  <1>2. /\ \E l \in {"code", "wait", "next"} : pc' = [pc EXCEPT ![c] = l]
        /\ frame' = frame \/ \E f : frame' = [frame EXCEPT ![c] = f]
    <2>1. frame[c].kind \in {"async", "sync", "all"}
      BY DEF SmpInv, Types, Frame
    <2> QED
      BY <2>1 DEF Kick, Goto
  <1>3. /\ pc'[c] \in {"code", "wait", "next"}
        /\ \A d \in CPU \ {c} : pc'[d] = pc[d] /\ frame'[d] = frame[d]
    BY <1>2 DEF SmpInv, Types
  <1>4. ASSUME NEW d \in CPU \ {c}, pc[d] = "withdraw" PROVE frame[d].cpu \in idle'
    <2>1. InCall(c) /\ InCall(d)
      BY <1>1, <1>4 DEF SmpInv, Caller, InCall, Calling
    <2>2. frame[d].cpu # frame[c].cpu
      BY <2>1, SameCaller
    <2> QED
      BY <1>1, <1>4, <2>2 DEF WaitInv
  <1>5. ASSUME NEW d \in CPU \ {c} PROVE pc[d] # "allclear"
    BY <1>1 DEF WaitInv, SmpInv, Target, Others
  <1>6. Aside(c)
    BY <1>1, <1>3, <1>4, <1>5 DEF Aside, WaitInv
  <1>7. pc[c] \notin Holding
    BY <1>1 DEF Holding
  <1> QED
    BY <1>1, <1>3, <1>6, <1>7, OtherStep DEF Checking

\* The CPU whose waiters are looked through.
Last(c) == walk[c].path[Len(walk[c].path)]

LEMMA LastFacts ==
    ASSUME WaitInv, NEW c \in CPU, pc[c] \in Checking
    PROVE  /\ walk[c].path \in Seq(CPU) /\ Len(walk[c].path) \in Nat \ {0}
           /\ Last(c) \in CPU /\ waiters[Last(c)] \subseteq CPU
  BY DEF WaitInv, Walk, Linked, Last

\* A path that becomes shorter is one, ...
LEMMA PathBack ==
    ASSUME WaitInv, NEW c \in CPU, pc[c] \in Checking, waiters' = waiters,
           NEW n \in 1..Len(walk[c].path), walk'[c].path = SubSeq(walk[c].path, 1, n)
    PROVE  Linked(c)' /\ walk'[c].path \in Seq(CPU)
  <1> DEFINE p == walk[c].path
             q == walk'[c].path
  <1>1. p \in Seq(CPU) /\ p[1] = c /\ \A k \in 1..(Len(p) - 1) : p[k + 1] \in waiters[p[k]]
    BY DEF WaitInv, Linked, Walk
  <1>2. Len(p) \in Nat /\ n \in Nat /\ 1 <= n /\ n <= Len(p) /\ q = SubSeq(p, 1, n)
    BY <1>1
  <1> HIDE DEF p, q
  <1>3. q \in Seq(CPU) /\ Len(q) = n /\ \A k \in 1..n : q[k] = p[k]
    BY <1>1, <1>2
  <1>4. \A k \in 1..(n - 1) : k \in 1..n /\ k + 1 \in 1..n /\ k \in 1..(Len(p) - 1)
    BY <1>2
  <1>5. \A k \in 1..(n - 1) : q[k + 1] \in waiters'[q[k]]
    BY <1>1, <1>3, <1>4
  <1>6. 1 \in 1..n
    BY <1>2
  <1>7. q[1] = c
    BY <1>1, <1>3, <1>6
  <1>8. q # <<>>
    BY <1>2, <1>3
  <1> QED
    BY <1>3, <1>5, <1>7, <1>8 DEF Linked, q

\* ... and so is one that goes on to a waiter.
LEMMA PathOn ==
    ASSUME WaitInv, NEW c \in CPU, pc[c] \in Checking, waiters' = waiters,
           NEW i \in waiters[Last(c)], walk'[c].path = Deeper(walk[c].path, i)
    PROVE  Linked(c)' /\ walk'[c].path \in Seq(CPU)
  <1> DEFINE p == walk[c].path
             q == walk'[c].path
  <1>1. p \in Seq(CPU) /\ p # <<>> /\ p[1] = c /\ \A k \in 1..(Len(p) - 1) : p[k + 1] \in waiters[p[k]]
    BY DEF WaitInv, Linked, Walk
  <1>2. i \in CPU
    BY LastFacts
  <1>3. CASE q = Append(p, i)
    <2>1. i \in waiters[p[Len(p)]]
      BY DEF Last
    <2> HIDE DEF p, q
    <2>2. /\ q \in Seq(CPU) /\ Len(q) = Len(p) + 1 /\ Len(p) \in Nat \ {0}
          /\ q[Len(p) + 1] = i /\ \A k \in 1..Len(p) : q[k] = p[k]
      BY <1>1, <1>2, <1>3
    <2>3. ASSUME NEW k \in 1..Len(p) PROVE q[k + 1] \in waiters'[q[k]]
      <3>1. CASE k = Len(p)
        BY <2>1, <2>2, <3>1
      <3>2. CASE k # Len(p)
        <4>1. k \in 1..(Len(p) - 1) /\ k + 1 \in 1..Len(p)
          BY <2>2, <3>2
        <4> QED
          BY <1>1, <2>2, <4>1
      <3> QED
        BY <3>1, <3>2
    <2>4. q # <<>> /\ q[1] = c /\ Len(q) - 1 = Len(p)
      BY <1>1, <2>2
    <2> QED
      BY <2>2, <2>3, <2>4 DEF Linked, q
  <1>4. CASE q # Append(p, i)
    <2>1. /\ \E k \in DOMAIN p : p[k] = i
          /\ q = SubSeq(p, 1, CHOOSE k \in DOMAIN p : p[k] = i)
      BY <1>4 DEF Deeper
    <2>2. PICK n \in DOMAIN p : q = SubSeq(p, 1, n)
      BY <2>1
    <2>3. n \in 1..Len(p)
      BY <1>1
    <2> QED
      BY <2>2, <2>3, PathBack
  <1> QED
    BY <1>3, <1>4

\* A step of the check, and a check that fires is the deadlock that it reports.
LEMMA CheckStep ==
    ASSUME SmpInv, WaitInv, NEW c \in CPU, CheckWait(c) \/ CheckAll(c)
    PROVE  WaitInv'
  <1> DEFINE p == walk[c].path
             W == {t \in waiters[Last(c)] : t >= walk[c].bit}
  <1>1. /\ stop = "run" /\ pc[c] \in Checking
        /\ UNCHANGED <<waiters, idle, frame>>
    BY DEF CheckWait, CheckAll, At, shared, Checking
  <1>2. \/ /\ walk' = [walk EXCEPT ![c] = NoWalk] /\ stop' = stop
           /\ \/ pc[c] = "check" /\ pc' = [pc EXCEPT ![c] = "spin"]
              \/ pc[c] = "allcheck" /\ pc' = [pc EXCEPT ![c] = "allannounce"]
        \/ /\ Len(p) > 1 /\ UNCHANGED <<pc, stop>>
           /\ walk' = [walk EXCEPT ![c] = [path |-> SubSeq(p, 1, Len(p) - 1), bit |-> Last(c) + 1]]
        \/ /\ W # {} /\ First(W) = frame[c].cpu /\ UNCHANGED <<pc, walk>>
        \/ /\ W # {} /\ UNCHANGED <<pc, stop>>
           /\ walk' = [walk EXCEPT ![c] = [path |-> Deeper(p, First(W)), bit |-> 0]]
    BY DEF CheckWait, CheckAll, DeadlockCheck, At, Goto, Last
  <1>3. p \in Seq(CPU) /\ Len(p) \in Nat \ {0} /\ Last(c) \in CPU /\ W \in SUBSET CPU
    BY <1>1, LastFacts
  <1>4. W # {} => First(W) \in waiters[Last(c)]
    <2>1. W \subseteq waiters[Last(c)]
      OBVIOUS
    <2> HIDE DEF W
    <2> QED
      BY <1>3, <2>1, FirstIsThere
  <1>5. /\ pc'[c] = pc[c] \/ (pc[c] = "check" /\ pc'[c] = "spin") \/ (pc[c] = "allcheck" /\ pc'[c] = "allannounce")
        /\ pc' = pc \/ \E l : pc' = [pc EXCEPT ![c] = l]
    BY <1>2 DEF SmpInv, Types
  <1> HIDE DEF p, W
  <1>6. ASSUME walk' = walk \/ \E w \in Walk : walk' = [walk EXCEPT ![c] = w],
               pc'[c] \in Checking => Linked(c)', DeadlockIsReal'
        PROVE  WaitInv'
    <2>1. Aside(c)
      BY <1>1, <1>5, <1>6, OnlyMoves
    <2>2. \A t \in CPU : c \in waiters'[t] => Waiting(c, t)'
      BY <1>1, <1>5 DEF WaitInv, Waiting, Holding
    <2>3. pc'[c] \notin {"withdraw", "allclear"}
      BY <1>1, <1>5 DEF Checking
    <2>4. waiters' \in [CPU -> SUBSET CPU] /\ \A t \in CPU : waiters'[t] = waiters[t]
      BY <1>1 DEF WaitInv
    <2> QED
      BY <1>6, <2>1, <2>2, <2>3, <2>4, WaitStep
  <1>7. stop' = stop => DeadlockIsReal'
    BY <1>1 DEF DeadlockIsReal
  <1>8. CASE walk' = [walk EXCEPT ![c] = NoWalk] /\ stop' = stop /\ pc'[c] \notin Checking
    <2>1. NoWalk \in Walk
      BY DEF NoWalk, Walk
    <2> QED
      BY <1>6, <1>7, <1>8, <2>1
  <1>9. CASE /\ Len(p) > 1 /\ UNCHANGED <<pc, stop>>
             /\ walk' = [walk EXCEPT ![c] = [path |-> SubSeq(p, 1, Len(p) - 1), bit |-> Last(c) + 1]]
    <2>1. walk'[c].path = SubSeq(p, 1, Len(p) - 1) /\ Len(p) - 1 \in 1..Len(p) /\ Last(c) + 1 \in Int
      <3>1. walk'[c].path = SubSeq(p, 1, Len(p) - 1)
        BY <1>9 DEF WaitInv
      <3>2. Last(c) \in Nat
        BY <1>3, CpuFacts
      <3> QED
        BY <1>3, <1>9, <3>1, <3>2
    <2>2. Linked(c)' /\ walk'[c].path \in Seq(CPU)
      BY <1>1, <2>1, PathBack DEF p
    <2>3. \E w \in Walk : walk' = [walk EXCEPT ![c] = w]
      BY <1>9, <2>1, <2>2 DEF Walk
    <2> QED
      BY <1>6, <1>7, <1>9, <2>2, <2>3
  <1>10. CASE W # {} /\ First(W) = frame[c].cpu /\ UNCHANGED <<pc, walk>>
    <2>1. \E S \in SUBSET CPU : S # {} /\ \A d \in S : Blockers(d) \cap S # {}
      BY <1>1, <1>4, <1>10, RealDeadlock DEF Last
    <2>2. \A d \in CPU : Blockers(d)' = Blockers(d)
      BY <1>1, <1>10 DEF Blockers, Others, CPU
    <2>3. DeadlockIsReal'
      BY <2>1, <2>2 DEF DeadlockIsReal, CPU
    <2>4. Linked(c)'
      BY <1>1, <1>10 DEF WaitInv, Linked
    <2> QED
      BY <1>6, <1>10, <2>3, <2>4
  <1>11. CASE /\ W # {} /\ UNCHANGED <<pc, stop>>
              /\ walk' = [walk EXCEPT ![c] = [path |-> Deeper(p, First(W)), bit |-> 0]]
    <2>1. walk'[c].path = Deeper(p, First(W))
      BY <1>11 DEF WaitInv
    <2>2. Linked(c)' /\ walk'[c].path \in Seq(CPU)
      BY <1>1, <1>4, <1>11, <2>1, PathOn DEF p
    <2>3. \E w \in Walk : walk' = [walk EXCEPT ![c] = w]
      <3>1. [path |-> walk'[c].path, bit |-> 0] \in Walk
        BY <2>2 DEF Walk
      <3> QED
        BY <1>11, <2>1, <3>1
    <2> QED
      BY <1>6, <1>7, <1>11, <2>2, <2>3
  <1>12. pc[c] = "check" /\ pc' = [pc EXCEPT ![c] = "spin"] => pc'[c] \notin Checking
    BY DEF SmpInv, Types, Checking
  <1>13. pc[c] = "allcheck" /\ pc' = [pc EXCEPT ![c] = "allannounce"] => pc'[c] \notin Checking
    BY DEF SmpInv, Types, Checking
  <1> QED
    BY <1>2, <1>8, <1>9, <1>10, <1>11, <1>12, <1>13 DEF p, W

LEMMA BitsStep ==
    ASSUME SmpInv, WaitInv, NEW c \in CPU,
           \/ Announce(c) \/ (CpuWait(c) /\ frame[c].cpu \in idle) \/ Withdraw(c)
           \/ AnnounceAll(c) \/ (WaitAll(c) /\ ~(Cardinality(idle) < N - 1)) \/ ClearAll(c)
    PROVE  WaitInv'
  <1>1. stop = "run" /\ stop' = "run" /\ idle' = idle
    BY DEF Announce, CpuWait, Withdraw, AnnounceAll, WaitAll, ClearAll, At, shared
  <1>2. /\ pc' = pc \/ \E l : pc' = [pc EXCEPT ![c] = l]
        /\ frame' = frame \/ \E f : frame' = [frame EXCEPT ![c] = f]
        /\ walk' = walk \/ walk' = [walk EXCEPT ![c] = [path |-> <<c>>, bit |-> 0]]
    BY DEF Announce, Announcing, CpuWait, Withdraw, AnnounceAll, WaitAll, ClearAll, Goto, shared
  <1>3. DeadlockIsReal'
    BY <1>1 DEF DeadlockIsReal
  <1>4. [path |-> <<c>>, bit |-> 0] \in Walk
    BY DEF Walk
  <1>5. ASSUME waiters' \in [CPU -> SUBSET CPU],
               \A t \in CPU : waiters'[t] \ {c} \subseteq waiters[t],
               \A t \in CPU : t \notin idle => waiters[t] \subseteq waiters'[t],
               \A t \in CPU : c \in waiters'[t] => Waiting(c, t)',
               pc'[c] = "withdraw" => frame'[c].cpu \in idle',
               pc'[c] = "allclear" => Others(c) \subseteq idle',
               pc'[c] \in Checking => Linked(c)'
        PROVE  WaitInv'
    <2>1. Aside(c)
      BY <1>1, <1>2, <1>4, OnlyMoves
    <2> QED
      BY <1>3, <1>5, <2>1, WaitStep
  <1>6. waiters \in [CPU -> SUBSET CPU] /\ \A t \in CPU : c \in waiters[t] => Waiting(c, t)
    BY DEF WaitInv
  <1>7. walk' = [walk EXCEPT ![c] = [path |-> <<c>>, bit |-> 0]] => Linked(c)'
    BY DEF WaitInv, Linked
  <1>8. CASE Announce(c)
    <2>1. /\ pc[c] = "wait" /\ waiters' = [waiters EXCEPT ![frame[c].cpu] = @ \cup {c}]
          /\ pc' = [pc EXCEPT ![c] = "check"] /\ frame' = frame
          /\ walk' = [walk EXCEPT ![c] = [path |-> <<c>>, bit |-> 0]]
      BY <1>8 DEF Announce, Announcing, At, Goto
    <2>2. frame[c].cpu \in CPU /\ frame[c].cpu # c
      BY <2>1 DEF SmpInv, Caller, InCall, Calling, Targets
    <2>3. pc'[c] = "check"
      BY <2>1 DEF SmpInv, Types
    <2>4. \A t \in CPU : c \notin waiters[t]
      BY <1>6, <2>1 DEF Waiting, Holding
    <2>5. \A t \in CPU : c \in waiters'[t] => Waiting(c, t)'
      BY <1>6, <2>1, <2>2, <2>3, <2>4 DEF Waiting, Holding
    <2>6. /\ waiters' \in [CPU -> SUBSET CPU]
          /\ \A t \in CPU : waiters'[t] \ {c} \subseteq waiters[t] /\ waiters[t] \subseteq waiters'[t]
      BY <1>6, <2>1, <2>2
    <2> QED
      BY <1>5, <1>7, <2>1, <2>3, <2>5, <2>6
  <1>9. CASE CpuWait(c) /\ frame[c].cpu \in idle
    <2>1. pc[c] = "spin" /\ waiters' = waiters /\ frame' = frame /\ pc' = [pc EXCEPT ![c] = "withdraw"]
      BY <1>9 DEF CpuWait, At, Goto, shared
    <2>2. pc'[c] = "withdraw"
      BY <2>1 DEF SmpInv, Types
    <2>3. \A t \in CPU : c \in waiters'[t] => Waiting(c, t)'
      BY <1>6, <2>1, <2>2 DEF Waiting, Holding
    <2> QED
      BY <1>1, <1>5, <1>6, <1>9, <2>1, <2>2, <2>3 DEF Checking
  <1>10. CASE Withdraw(c)
    <2>1. /\ pc[c] = "withdraw" /\ waiters' = [waiters EXCEPT ![frame[c].cpu] = @ \ {c}]
          /\ \E l \in {"code", "post"} : pc' = [pc EXCEPT ![c] = l]
      BY <1>10 DEF Withdraw, At, Goto
    <2>2. pc'[c] \in {"code", "post"}
      BY <2>1 DEF SmpInv, Types
    <2>3. \A t \in CPU : c \notin waiters'[t]
      BY <1>6, <2>1 DEF Waiting
    <2>4. frame[c].cpu \in idle
      BY <2>1 DEF WaitInv
    <2>5. /\ waiters' \in [CPU -> SUBSET CPU] /\ \A t \in CPU : waiters'[t] \ {c} \subseteq waiters[t]
          /\ \A t \in CPU : t \notin idle => waiters[t] \subseteq waiters'[t]
      BY <1>6, <2>1, <2>4
    <2> QED
      BY <1>5, <2>2, <2>3, <2>5 DEF Checking
  <1>11. CASE AnnounceAll(c)
    <2> DEFINE T == After(c, frame[c].cpu)
    <2>1. pc[c] = "allannounce" /\ pc'[c] \in {"allcheck", "allspin"}
      BY <1>11 DEF AnnounceAll, At, Goto, SmpInv, Types
    <2>2. \/ \E u \in CPU \ {c} : waiters' = [waiters EXCEPT ![u] = @ \cup {c}]
          \/ waiters' = waiters
      <3>1. T \in SUBSET CPU /\ c \notin T
        BY DEF After, Others
      <3>2. T # {} => First(T) \in T
        BY <3>1, FirstIsThere
      <3> QED
        BY <1>11, <3>1, <3>2 DEF AnnounceAll, Announcing
    <2>3. /\ waiters' \in [CPU -> SUBSET CPU]
          /\ \A t \in CPU : waiters'[t] \ {c} \subseteq waiters[t] /\ waiters[t] \subseteq waiters'[t]
      BY <1>6, <2>2
    <2>4. \A t \in CPU : c \in waiters'[t] => c # t
      BY <1>6, <2>2 DEF Waiting
    <2>5. \A t \in CPU : c \in waiters'[t] => Waiting(c, t)'
      BY <2>1, <2>4 DEF Waiting, Holding
    <2>6. pc'[c] \in Checking => Linked(c)'
      <3>1. T = {} => pc' = [pc EXCEPT ![c] = "allspin"]
        BY <1>11 DEF AnnounceAll, Goto
      <3>2. T = {} => pc'[c] \notin Checking
        BY <3>1 DEF SmpInv, Types, Checking
      <3>3. T # {} => walk' = [walk EXCEPT ![c] = [path |-> <<c>>, bit |-> 0]]
        BY <1>11 DEF AnnounceAll, Announcing
      <3> QED
        BY <1>7, <3>2, <3>3
    <2> QED
      BY <1>5, <2>1, <2>3, <2>5, <2>6
  <1>12. CASE WaitAll(c) /\ ~(Cardinality(idle) < N - 1)
    <2>1. pc[c] = "allspin" /\ waiters' = waiters /\ pc' = [pc EXCEPT ![c] = "allclear"]
      BY <1>12 DEF WaitAll, At, Goto, shared
    <2>2. pc'[c] = "allclear" /\ idle \subseteq CPU /\ c \notin idle
      BY <2>1 DEF SmpInv, Types, Target
    <2>3. Others(c) \subseteq idle'
      BY <1>1, <1>12, <2>2, OthersIdle DEF Others
    <2>4. frame'[c].cpu = -1
      BY <1>12 DEF WaitAll, SmpInv, Types, Frame
    <2>5. \A t \in CPU : c \in waiters'[t] => Waiting(c, t)'
      BY <1>6, <2>1, <2>2, <2>4, CpuFacts DEF Waiting, Holding
    <2> QED
      BY <1>5, <1>6, <2>1, <2>2, <2>3, <2>5 DEF Checking
  <1>13. CASE ClearAll(c)
    <2> DEFINE T == {t \in CPU : t > frame[c].cpu}
    <2>1. pc[c] = "allclear" /\ Others(c) \subseteq idle
      BY <1>13 DEF ClearAll, At, WaitInv
    <2>2. CASE T # {}
      <3>1. PICK u \in CPU : u = First(T) /\ \A t \in T : u <= t
        <4>1. T \subseteq CPU
          OBVIOUS
        <4> HIDE DEF T
        <4> QED
          BY <2>2, <4>1, FirstIsThere
      <3>2. waiters' = [waiters EXCEPT ![u] = @ \ {c}] /\ pc' = pc /\ frame'[c].cpu = u
        BY <1>13, <2>2, <3>1 DEF ClearAll, SmpInv, Types, Frame
      <3>3. c \in waiters[u] => u \in idle
        BY <1>6, <2>1 DEF Waiting, Others
      <3>4. /\ waiters' \in [CPU -> SUBSET CPU] /\ \A t \in CPU : waiters'[t] \subseteq waiters[t]
            /\ \A t \in CPU : t \notin idle => waiters[t] \subseteq waiters'[t]
        BY <1>6, <3>2, <3>3
      <3>5. ASSUME NEW t \in CPU, c \in waiters'[t] PROVE t > u
        <4>1. t # u /\ c \in waiters[t]
          BY <1>6, <3>2, <3>5
        <4>2. t \in T
          BY <1>6, <2>1, <4>1 DEF Waiting
        <4> QED
          BY <3>1, <4>1, <4>2, CpuFacts
      <3>6. \A t \in CPU : c \in waiters'[t] => Waiting(c, t)'
        BY <1>6, <2>1, <3>2, <3>4, <3>5 DEF Waiting, Holding
      <3> QED
        BY <1>1, <1>5, <2>1, <3>2, <3>4, <3>6 DEF Checking
    <2>3. CASE T = {}
      <3>1. waiters' = waiters /\ pc' = [pc EXCEPT ![c] = "code"]
        BY <1>13, <2>3 DEF ClearAll, Goto
      <3>2. pc'[c] = "code"
        BY <3>1 DEF SmpInv, Types
      <3>3. \A t \in CPU : c \notin waiters[t]
        BY <1>6, <2>1, <2>3 DEF Waiting
      <3> QED
        BY <1>5, <1>6, <3>1, <3>2, <3>3 DEF Checking
    <2> QED
      BY <2>2, <2>3
  <1> QED
    BY <1>8, <1>9, <1>10, <1>11, <1>12, <1>13

LEMMA WaitStays ==
    ASSUME WaitInv, UNCHANGED <<waiters, walk, pc, frame, idle, stop>>
    PROVE  WaitInv'
  <1>1. \A c \in CPU : Blockers(c)' = Blockers(c)
    BY DEF Blockers, Others, CPU
  <1>2. DeadlockIsReal'
    BY <1>1 DEF WaitInv, DeadlockIsReal, CPU
  <1>3. \A t \in CPU : \A c \in waiters'[t] : Waiting(c, t)'
    BY DEF WaitInv, Waiting
  <1>4. \A c \in CPU : pc'[c] \in Checking => Linked(c)'
    BY DEF WaitInv, Linked
  <1> QED
    BY <1>2, <1>3, <1>4 DEF WaitInv, Walk, Others, CPU

LEMMA WaitInit ==
    ASSUME Init
    PROVE  WaitInv
  <1>1. NoWalk \in Walk
    BY DEF NoWalk, Walk
  <1> QED
    BY <1>1 DEF Init, WaitInv, DeadlockIsReal, Checking

LEMMA WaitNext ==
    ASSUME OneCaller, SmpInv, WaitInv, [Next]_vars
    PROVE  WaitInv'
  <1>1. CASE UNCHANGED vars
    BY <1>1, WaitStays DEF vars
  <1>2. ASSUME NEW c \in CPU, Choose(c) \/ Run(c) PROVE WaitInv'
    <2>1. CASE \/ Wfe(c) \/ (BootWait(c) /\ frame[c].cpu \notin online) \/ (Idling(c) /\ c \in idle)
               \/ (CpuWait(c) /\ frame[c].cpu \notin idle)
               \/ (WaitAll(c) /\ Cardinality(idle) < N - 1)
      BY <2>1, WaitStays DEF Wfe, BootWait, Idling, CpuWait, WaitAll, Sleep, shared
    <2>2. ASSUME NEW t \in CPU, SmpBootSecondary(c, t), t \notin online PROVE WaitInv'
      BY <2>2, StartStep DEF SmpBootSecondary, At
    <2>3. CASE EnsureOnline(c) /\ frame[c].cpu \notin online
      <3>1. /\ pc[c] = "online?" /\ stop = "run" /\ frame' = frame
            /\ StartSecondary(c, frame[c].cpu, "do_idle")
        BY <2>3 DEF EnsureOnline, At
      <3>2. frame[c].cpu \in CPU
        BY <3>1 DEF SmpInv, Caller, InCall, Calling
      <3> QED
        BY <2>3, <3>1, <3>2, StartStep
    <2> QED
      BY <1>2, <2>1, <2>2, <2>3, AwakeStep, KickedStep, CheckStep, BitsStep DEF Choose, Run
  <1> QED
    BY <1>1, <1>2 DEF Next

\* When every CPU has one caller, "deadlock detectd" (deadlock_check) is
\* printed only when some CPUs wait for one another and none of them is idle,
\* for any number of CPUs and any depth of the recursion, although the check
\* reads one CPU's waiters after another's while others wait and withdraw: a
\* bit is set before a wait and cleared after it, when its target is idle.
THEOREM DeadlockIsRealCorrect ==
    ASSUME OneCaller
    PROVE  Spec => []DeadlockIsReal
  <1>1. Init => SmpInv /\ WaitInv
    BY SmpInit, WaitInit
  <1>2. SmpInv /\ WaitInv /\ [Next]_vars => SmpInv' /\ WaitInv'
    BY SmpNext, WaitNext
  <1>3. WaitInv => DeadlockIsReal
    BY DEF WaitInv
  <1> QED
    BY <1>1, <1>2, <1>3, PTL DEF Spec

-----------------------------------------------------------------------------
(* The virtio console: exit waits under its lock until the queue has the   *)
(* descriptor back, so that only descriptor 0 is ever out.                 *)

USE CallersAssumption, RingAssumption

Sending == {"publish", "kick", "get"}
Owning == {"format", "add", "publish", "kick", "get", "unlock", "crashed"}

\* Who has the lock is alone in it.
LEMMA Owner ==
  ASSUME RingInv, NEW c \in Callers, x_pc[c] \in Owning
  PROVE  /\ vlock = c
         /\ \A d \in Callers : d # c => x_pc[d] \in {"run", "halt"}
         /\ v_init \in {"done", "abort"}
<1>1. vlock = c
  BY DEF RingInv, OneExits, Owning
<1>2. ASSUME NEW d \in Callers, d # c
      PROVE  x_pc[d] \in {"run", "halt"}
  BY <1>1, <1>2 DEF RingInv, OneExits
<1>3. v_init \in {"done", "abort"}
  BY DEF RingInv, RingTypeOK, SetUp, Owning
<1>. QED
  BY <1>1, <1>2, <1>3

\* A ring index and the next one differ.
LEMMA NextIdx ==
  ASSUME NEW i \in 0..(Wrap - 1)
  PROVE  (i + 1) % Wrap \in 0..(Wrap - 1) /\ (i + 1) % Wrap # i
<1>1. CASE i + 1 < Wrap
  <2>1. (i + 1) % Wrap = i + 1
    BY <1>1
  <2>. QED BY <1>1, <2>1
<1>2. CASE i + 1 = Wrap
  <2>1. (i + 1) % Wrap = 0
    BY <1>2
  <2>. QED BY <1>2, <2>1
<1>. QED
  BY <1>1, <1>2

\* What the type of the ring says of single elements.
LEMMA RingElements ==
  ASSUME RingTypeOK
  PROVE  /\ \A i \in Descs : next[i] = (IF i = Num - 1 THEN 0 ELSE i + 1)
         /\ \A i \in Descs : used[i] = 0 /\ avail[i] = 0
         /\ 0 \in Descs /\ Slot(last_used_idx) \in Descs /\ Slot(last_avail) \in Descs
         /\ Slot(avail_idx) \in Descs
<1>1. next = [i \in Descs |-> IF i = Num - 1 THEN 0 ELSE i + 1]
  BY DEF RingTypeOK
<1>2. used = [i \in Descs |-> 0] /\ avail = [i \in Descs |-> 0]
  BY DEF RingTypeOK
<1>3. last_used_idx \in Nat /\ last_avail \in Nat /\ avail_idx \in Nat
  <2>1. last_used_idx \in 0..(Wrap - 1) /\ last_avail \in 0..(Wrap - 1) /\ avail_idx \in 0..(Wrap - 1)
    BY DEF RingTypeOK
  <2>. QED BY <2>1
<1>4. \A k \in Nat : Slot(k) \in Descs
  BY DEF Slot, Descs
<1>5. 0 \in Descs
  BY DEF Descs
<1>. QED
  BY <1>1, <1>2, <1>3, <1>4, <1>5

\* What was delivered is a list of CPUs that are in exit or have been.
LEMMA Readers ==
  ASSUME RingInv
  PROVE  /\ delivered \in Seq(Callers) /\ Len(delivered) \in Nat
         /\ \A i \in 1..Len(delivered) :
               delivered[i] \in Callers /\ x_pc[delivered[i]] \notin {"run", "format"}
<1>1. delivered \in Seq(Callers)
  BY DEF RingInv, RingTypeOK
<1>2. \A i \in 1..Len(delivered) : x_pc[delivered[i]] \notin {"run", "format"}
  BY DEF RingInv, Delivery
<1>. QED
  BY <1>1, <1>2

\* The descriptors with 0 on loan, or none.
LEMMA FreeListHolds ==
  ASSUME RingTypeOK, OneOut
  PROVE  FreeListRight /\ num_free \in 0..Num
<1>1. CASE ~\E c \in Callers : x_pc[c] \in {"publish", "kick", "get"}
  <2>. DEFINE at == [i \in 1..Num |-> i - 1]
  <2>1. num_free = Num /\ free_head = 0 /\ data = [i \in Descs |-> "NULL"]
    BY <1>1 DEF OneOut
  <2>2. at \in [1..num_free -> Descs]
    BY <2>1 DEF Descs
  <2>3. at[1] = free_head
    BY <2>1
  <2>4. ASSUME NEW i \in 1..(num_free - 1)
        PROVE  at[i + 1] = next[at[i]]
    <3>1. at[i + 1] = i /\ at[i] = i - 1 /\ i - 1 \in Descs /\ i - 1 # Num - 1
      BY <2>1 DEF Descs
    <3>. QED BY <3>1, RingElements
  <2>5. \A i, j \in 1..num_free : at[i] = at[j] => i = j
    BY <2>1
  <2>6. ASSUME NEW d \in Descs
        PROVE  d \in {at[i] : i \in 1..num_free}
    <3>1. d + 1 \in 1..num_free /\ at[d + 1] = d
      BY <2>1 DEF Descs
    <3>. QED BY <3>1
  <2>7. {at[i] : i \in 1..num_free} = {i \in Descs : data[i] = "NULL"}
    BY <2>1, <2>2, <2>6
  <2>8. num_free \in 0..Num
    BY <2>1
  <2>. HIDE DEF at
  <2>. QED
    BY <2>2, <2>3, <2>4, <2>5, <2>7, <2>8 DEF FreeListRight
<1>2. CASE \E c \in Callers : x_pc[c] \in {"publish", "kick", "get"}
  <2>. DEFINE at == [i \in 1..(Num - 1) |-> i]
  <2>1. num_free = Num - 1 /\ free_head = next[0] /\ data = [i \in Descs |-> IF i = 0 THEN "buf" ELSE "NULL"]
    BY <1>2 DEF OneOut
  <2>2. at \in [1..num_free -> Descs]
    BY <2>1 DEF Descs
  <2>3. num_free > 0 => at[1] = free_head
    <3>. SUFFICES ASSUME num_free > 0
                  PROVE  at[1] = free_head
      OBVIOUS
    <3>1. at[1] = 1 /\ 0 \in Descs /\ 0 # Num - 1
      BY <2>1 DEF Descs
    <3>. QED BY <2>1, <3>1, RingElements
  <2>4. ASSUME NEW i \in 1..(num_free - 1)
        PROVE  at[i + 1] = next[at[i]]
    <3>1. at[i + 1] = i + 1 /\ at[i] = i /\ i \in Descs /\ i # Num - 1
      BY <2>1 DEF Descs
    <3>. QED BY <3>1, RingElements
  <2>5. \A i, j \in 1..num_free : at[i] = at[j] => i = j
    BY <2>1
  <2>6. ASSUME NEW d \in Descs, d # 0
        PROVE  d \in {at[i] : i \in 1..num_free}
    <3>1. d \in 1..num_free /\ at[d] = d
      BY <2>1, <2>6 DEF Descs
    <3>. QED BY <3>1
  <2>7. {at[i] : i \in 1..num_free} = {i \in Descs : data[i] = "NULL"}
    <3>1. ASSUME NEW i \in 1..num_free
          PROVE  at[i] \in Descs /\ data[at[i]] = "NULL"
      BY <2>1 DEF Descs
    <3>2. ASSUME NEW d \in Descs, data[d] = "NULL"
          PROVE  d \in {at[i] : i \in 1..num_free}
      <4>1. d # 0
        BY <2>1, <3>2
      <4>. QED BY <4>1, <2>6
    <3>3. {at[i] : i \in 1..num_free} \subseteq {i \in Descs : data[i] = "NULL"}
      BY <3>1
    <3>4. {i \in Descs : data[i] = "NULL"} \subseteq {at[i] : i \in 1..num_free}
      BY <3>2
    <3>. QED BY <3>3, <3>4
  <2>8. num_free \in 0..Num
    BY <2>1
  <2>. HIDE DEF at
  <2>. QED
    BY <2>2, <2>3, <2>4, <2>5, <2>7, <2>8 DEF FreeListRight
<1>. QED
  BY <1>1, <1>2

LEMMA RingIntactHolds == RingInv => RingIntact
<1>. SUFFICES ASSUME RingInv
             PROVE  RingIntact
  OBVIOUS
<1>1. FreeListRight /\ num_free \in 0..Num
  BY FreeListHolds DEF RingInv
<1>2. ASSUME NEW c \in Callers, x_pc[c] = "add"
      PROVE  num_free = Num
  <2>1. ~\E d \in Callers : x_pc[d] \in {"publish", "kick", "get"}
    BY <1>2, Owner DEF Owning
  <2>. QED BY <2>1 DEF RingInv, OneOut
<1>3. ASSUME NEW i \in 1..Len(delivered)
      PROVE  delivered[i] \in Callers /\ x_pc[delivered[i]] \notin {"run", "format"}
  BY Readers
<1>4. ASSUME device = "sync", vcon, NEW c \in Callers, x_pc[c] \in {"get", "unlock", "halt"}
      PROVE  Cardinality({i \in 1..Len(delivered) : delivered[i] = c}) = 1
  <2>1. PICK i \in 1..Len(delivered) : \A j \in 1..Len(delivered) : delivered[j] = c <=> j = i
    BY <1>4 DEF RingInv, SyncDelivery
  <2>2. {j \in 1..Len(delivered) : delivered[j] = c} = {i}
    BY <2>1
  <2>. QED BY <2>2, FS_Singleton
<1>5. ~vcon => delivered = <<>>
  BY DEF RingInv, Delivery
<1>6. \A c \in Callers : x_pc[c] = "crashed" => device = "small" /\ v_init = "abort"
  BY DEF RingInv, SetUp
<1>. QED
  BY <1>1, <1>2, <1>3, <1>4, <1>5, <1>6 DEF RingIntact

\* The steps.
LEMMA RingInitHolds == RingInit => RingInv
<1>. SUFFICES ASSUME RingInit
             PROVE  RingInv
  OBVIOUS
<1>1. RingTypeOK
  <2>1. delivered \in Seq(Callers)
    BY DEF RingInit
  <2>2. 0 \in 0..(Wrap - 1)
    OBVIOUS
  <2>. QED BY <2>1, <2>2 DEF RingInit, RingTypeOK
<1>2. SetUp /\ OneExits
  BY DEF RingInit, SetUp, OneExits
<1>3. OneOut
  BY DEF RingInit, OneOut
<1>4. Delivery /\ SyncDelivery
  <2>1. Len(delivered) = 0
    BY DEF RingInit
  <2>. QED
    BY <2>1 DEF RingInit, Delivery, SyncDelivery
<1>. QED
  BY <1>1, <1>2, <1>3, <1>4 DEF RingInv

LEMMA SetUpStep ==
  ASSUME RingInv, virtio_mmio_dt_bind \/ vm_setup_vq
  PROVE  RingInv'
<1>. DEFINE rest == <<queue, rings, vlock, buf, x_pc, taken, delivered>>
<1>1. /\ v_init \in {"bind", "queue 0", "queue 1"} /\ UNCHANGED rest /\ UNCHANGED device
  BY DEF virtio_mmio_dt_bind, vm_setup_vq
<1>2. /\ ~out_vq /\ buf = 0 /\ delivered = <<>> /\ last_avail = avail_idx
      /\ \A c \in Callers : x_pc[c] = "run"
      /\ out_vq \in BOOLEAN /\ vcon \in BOOLEAN
  BY <1>1 DEF RingInv, SetUp, RingTypeOK
<1>3. /\ v_init' \in {"queue 0", "queue 1", "done", "abort"} /\ vcon' \in BOOLEAN /\ out_vq' \in BOOLEAN
      /\ out_vq' => v_init' = "done"
      /\ v_init' \in {"queue 0", "queue 1"} => vcon'
      /\ v_init' = "done" /\ vcon' => out_vq'
      /\ v_init' = "abort" => device' = "small"
  <2>1. CASE virtio_mmio_dt_bind
    BY <1>2, <2>1 DEF virtio_mmio_dt_bind
  <2>2. CASE vm_setup_vq
    <3>1. vcon
      BY <2>2 DEF RingInv, SetUp, vm_setup_vq
    <3>2. CASE device = "small"
      BY <1>2, <2>2, <3>1, <3>2 DEF vm_setup_vq
    <3>3. CASE device # "small" /\ device = "set up" /\ v_init = "queue 1"
      BY <1>2, <2>2, <3>1, <3>3 DEF vm_setup_vq
    <3>4. CASE device # "small" /\ v_init = "queue 0"
      BY <1>2, <2>2, <3>1, <3>4 DEF vm_setup_vq
    <3>5. CASE device # "small" /\ device # "set up" /\ v_init = "queue 1"
      BY <1>2, <2>2, <3>1, <3>5 DEF vm_setup_vq
    <3>. QED BY <1>1, <2>2, <3>2, <3>3, <3>4, <3>5 DEF vm_setup_vq
  <2>. QED BY <2>1, <2>2
<1>4. RingTypeOK'
  BY <1>1, <1>3 DEF RingInv, RingTypeOK, queue, rings, Descs
<1>5. SetUp'
  BY <1>1, <1>2, <1>3 DEF SetUp, rings
<1>6. OneExits'
  BY <1>1, <1>2 DEF OneExits
<1>7. OneOut'
  BY <1>1, <1>2 DEF RingInv, OneOut, queue, Descs
<1>8. Delivery' /\ SyncDelivery'
  <2>1. delivered' = <<>>
    BY <1>1, <1>2
  <2>2. 1..Len(delivered') = {}
    BY <2>1
  <2>. QED
    BY <1>1, <1>2, <2>1, <2>2 DEF Delivery, SyncDelivery, rings
<1>. QED
  BY <1>4, <1>5, <1>6, <1>7, <1>8 DEF RingInv

LEMMA LockStep ==
  ASSUME RingInv, NEW c \in Callers, spin_lock(c)
  PROVE  RingInv'
<1>1. /\ x_pc[c] = "run" /\ vlock = 0 /\ vlock' = c /\ v_init \in {"done", "abort"}
      /\ x_pc' \in [Callers -> {"run", "format", "add", "publish", "kick", "get", "unlock", "halt", "crashed"}]
      /\ x_pc'[c] = (IF vcon THEN "format" ELSE "unlock")
      /\ \A d \in Callers : d # c => x_pc'[d] = x_pc[d] /\ x_pc[d] \in {"run", "halt"}
      /\ UNCHANGED <<setup, queue, rings, buf, taken, delivered>>
  <2>1. \A d \in Callers : x_pc[d] \in {"run", "halt"}
    BY DEF spin_lock, RingInv, OneExits
  <2>. QED BY <2>1 DEF spin_lock, MayExit, RingInv, RingTypeOK
<1>. USE DEF setup
<1>2. RingTypeOK'
  BY <1>1 DEF RingInv, RingTypeOK, queue, rings, Descs
<1>3. SetUp'
  BY <1>1 DEF RingInv, SetUp, rings
<1>4. OneExits'
  BY <1>1 DEF RingInv, OneExits
<1>5. OneOut'
  BY <1>1 DEF RingInv, OneOut, queue, Descs
<1>6. Delivery'
  <2>1. ASSUME NEW i \in 1..Len(delivered)
        PROVE  delivered[i] \in Callers /\ x_pc[delivered[i]] \notin {"run", "format"}
    BY Readers
  <2>2. ASSUME NEW i \in 1..Len(delivered)
        PROVE  x_pc'[delivered[i]] \notin {"run", "format"}
    <3>1. delivered[i] # c
      BY <1>1, <2>1
    <3>. QED BY <1>1, <2>1, <3>1
  <2>3. buf # 0 => buf # c /\ buf \in Callers
    BY <1>1 DEF RingInv, RingTypeOK, Delivery
  <2>4. buf # 0 => vcon /\ x_pc'[buf] \notin {"run", "format"}
    BY <1>1, <2>3 DEF RingInv, Delivery
  <2>. QED
    BY <1>1, <2>2, <2>4 DEF RingInv, Delivery, rings
<1>7. SyncDelivery'
  BY <1>1 DEF RingInv, SyncDelivery, rings
<1>. QED
  BY <1>2, <1>3, <1>4, <1>5, <1>6, <1>7 DEF RingInv

LEMMA FormatStep ==
  ASSUME RingInv, NEW c \in Callers, Format(c)
  PROVE  RingInv'
<1>1. /\ x_pc[c] = "format" /\ buf' = c /\ vlock = c /\ vcon /\ v_init \in {"done", "abort"} /\ c # 0
      /\ x_pc' \in [Callers -> {"run", "format", "add", "publish", "kick", "get", "unlock", "halt", "crashed"}]
      /\ x_pc'[c] = (IF out_vq THEN "add" ELSE "crashed")
      /\ \A d \in Callers : d # c => x_pc'[d] = x_pc[d] /\ x_pc[d] \in {"run", "halt"}
      /\ UNCHANGED <<setup, queue, rings, vlock, taken, delivered>>
  BY Owner DEF Format, Owning, RingInv, RingTypeOK, OneExits
<1>. USE DEF setup
<1>2. RingTypeOK'
  BY <1>1 DEF RingInv, RingTypeOK, queue, rings, Descs
<1>3. SetUp'
  BY <1>1 DEF RingInv, SetUp, rings
<1>4. OneExits'
  BY <1>1 DEF RingInv, OneExits
<1>5. OneOut'
  BY <1>1 DEF RingInv, OneOut, queue, Descs
<1>6. Delivery'
  <2>1. ASSUME NEW i \in 1..Len(delivered)
        PROVE  /\ delivered[i] \in Callers /\ delivered[i] # c
               /\ x_pc'[delivered[i]] \notin {"run", "format"}
    <3>1. delivered[i] \in Callers /\ x_pc[delivered[i]] \notin {"run", "format"}
      BY Readers
    <3>. QED BY <1>1, <3>1
  <2>. QED
    BY <1>1, <2>1 DEF RingInv, Delivery, rings
<1>7. SyncDelivery'
  <2>1. \A i \in 1..Len(delivered) : delivered[i] # c
    BY <1>1, Readers
  <2>. QED
    BY <1>1, <2>1 DEF RingInv, SyncDelivery, rings
<1>. QED
  BY <1>2, <1>3, <1>4, <1>5, <1>6, <1>7 DEF RingInv

LEMMA AddStep ==
  ASSUME RingInv, NEW c \in Callers, virtqueue_add_outbuf(c)
  PROVE  RingInv'
<1>1. /\ x_pc[c] = "add" /\ vlock = c /\ buf = c /\ vcon /\ v_init \in {"done", "abort"} /\ c # 0
      /\ \A d \in Callers : d # c => x_pc[d] \in {"run", "halt"}
  BY Owner DEF virtqueue_add_outbuf, Owning, RingInv, OneExits
<1>2. num_free = Num /\ free_head = 0 /\ data = [i \in Descs |-> "NULL"]
  BY <1>1 DEF RingInv, OneOut
<1>3. /\ taken' = [taken EXCEPT ![c] = TRUE]
      /\ num_free' = Num - 1 /\ free_head' = next[0] /\ data' = [i \in Descs |-> IF i = 0 THEN "buf" ELSE "NULL"]
      /\ avail' = [avail EXCEPT ![Slot(avail_idx)] = 0]
      /\ x_pc' = [x_pc EXCEPT ![c] = "publish"]
      /\ UNCHANGED <<setup, next, last_used_idx, avail_idx, used, last_avail, kicked, vlock, buf, delivered>>
  BY <1>2 DEF virtqueue_add_outbuf, Descs
<1>4. /\ x_pc' \in [Callers -> {"run", "format", "add", "publish", "kick", "get", "unlock", "halt", "crashed"}]
      /\ x_pc'[c] = "publish" /\ \A d \in Callers : d # c => x_pc'[d] = x_pc[d]
      /\ taken' \in [Callers -> BOOLEAN] /\ taken'[c] /\ \A d \in Callers : d # c => taken'[d] = taken[d]
  BY <1>3 DEF RingInv, RingTypeOK
<1>5. avail' = [i \in Descs |-> 0]
  BY <1>3 DEF RingInv, RingTypeOK
<1>. USE DEF setup
<1>6. RingTypeOK'
  BY <1>3, <1>4, <1>5 DEF RingInv, RingTypeOK, Descs
<1>7. SetUp'
  BY <1>1, <1>3, <1>4 DEF RingInv, SetUp
<1>8. OneExits'
  BY <1>1, <1>3, <1>4 DEF RingInv, OneExits
<1>9. OneOut'
  BY <1>3, <1>4 DEF OneOut, Descs
<1>10. Delivery'
  <2>1. ASSUME NEW i \in 1..Len(delivered)
        PROVE  x_pc'[delivered[i]] \notin {"run", "format"}
    BY <1>4, Readers
  <2>. QED
    BY <1>1, <1>3, <1>4, <2>1 DEF RingInv, Delivery
<1>11. SyncDelivery'
  BY <1>1, <1>3, <1>4 DEF RingInv, SyncDelivery
<1>. QED
  BY <1>6, <1>7, <1>8, <1>9, <1>10, <1>11 DEF RingInv

LEMMA PublishStep ==
  ASSUME RingInv, NEW c \in Callers, Publish(c)
  PROVE  RingInv'
<1>1. /\ x_pc[c] = "publish" /\ vlock = c /\ buf = c /\ vcon /\ v_init \in {"done", "abort"} /\ c # 0
      /\ taken[c]
      /\ \A d \in Callers : d # c => x_pc[d] \in {"run", "halt"}
  BY Owner DEF Publish, Owning, RingInv, OneExits
<1>2. /\ avail_idx' = (avail_idx + 1) % Wrap
      /\ x_pc' \in [Callers -> {"run", "format", "add", "publish", "kick", "get", "unlock", "halt", "crashed"}]
      /\ x_pc'[c] = "kick" /\ \A d \in Callers : d # c => x_pc'[d] = x_pc[d]
      /\ UNCHANGED <<setup, queue, avail, used, last_avail, kicked, vlock, buf, taken, delivered>>
  BY DEF Publish, RingInv, RingTypeOK
<1>3. avail_idx' \in 0..(Wrap - 1) /\ avail_idx' # avail_idx
  BY <1>2, NextIdx DEF RingInv, RingTypeOK
<1>. USE DEF setup
<1>6. RingTypeOK'
  BY <1>2, <1>3 DEF RingInv, RingTypeOK, Descs, queue
<1>7. SetUp'
  BY <1>1, <1>2 DEF RingInv, SetUp
<1>8. OneExits'
  BY <1>1, <1>2 DEF RingInv, OneExits
<1>9. OneOut'
  <2>1. \E d \in Callers : x_pc[d] \in {"publish", "kick", "get"}
    BY <1>1
  <2>2. \E d \in Callers : x_pc'[d] \in {"publish", "kick", "get"}
    BY <1>2
  <2>. QED
    BY <1>2, <2>1, <2>2 DEF RingInv, OneOut, queue, Descs
<1>10. Delivery'
  <2>1. ASSUME NEW i \in 1..Len(delivered)
        PROVE  x_pc'[delivered[i]] \notin {"run", "format"}
    BY <1>2, Readers
  <2>. QED
    BY <1>1, <1>2, <2>1 DEF RingInv, Delivery
<1>11. SyncDelivery'
  <2>1. device = "sync" => last_avail = avail_idx
    BY <1>1 DEF RingInv, SyncDelivery
  <2>. QED
    BY <1>1, <1>2, <1>3, <2>1 DEF RingInv, SyncDelivery
<1>. QED
  BY <1>6, <1>7, <1>8, <1>9, <1>10, <1>11 DEF RingInv

\* What the device does with a buffer.
LEMMA Taken ==
  ASSUME RingInv, Take
  PROVE  /\ buf \in Callers /\ vcon /\ x_pc[buf] \notin {"run", "format"} /\ v_init \in {"done", "abort"}
         /\ delivered' \in Seq(Callers) /\ Len(delivered') = Len(delivered) + 1
         /\ delivered'[Len(delivered) + 1] = buf
         /\ \A i \in 1..Len(delivered) : delivered'[i] = delivered[i]
         /\ used' = used
         /\ last_avail' = (last_avail + 1) % Wrap /\ last_avail' \in 0..(Wrap - 1)
<1>1. /\ buf \in Callers /\ vcon /\ x_pc[buf] \notin {"run", "format"} /\ v_init \in {"done", "abort"}
  BY DEF RingInv, Take, Delivery, RingTypeOK, SetUp
<1>2. delivered' = Append(delivered, buf) /\ delivered \in Seq(Callers)
  BY DEF RingInv, Take, RingTypeOK
<1>3. /\ delivered' \in Seq(Callers) /\ Len(delivered') = Len(delivered) + 1
      /\ delivered'[Len(delivered) + 1] = buf
      /\ \A i \in 1..Len(delivered) : delivered'[i] = delivered[i]
  BY <1>1, <1>2
<1>4. used' = used
  <2>1. Slot(last_avail) \in Descs
    BY RingElements DEF RingInv
  <2>2. used \in [Descs -> {0}]
    BY DEF RingInv, RingTypeOK
  <2>3. avail[Slot(last_avail)] = 0
    BY <2>1, RingElements DEF RingInv
  <2>4. used' = [used EXCEPT ![Slot(last_avail)] = avail[Slot(last_avail)]]
    BY DEF Take
  <2>. QED
    BY <2>1, <2>2, <2>3, <2>4
<1>5. last_avail' = (last_avail + 1) % Wrap /\ last_avail' \in 0..(Wrap - 1)
  BY NextIdx DEF RingInv, RingTypeOK, Take
<1>. QED
  BY <1>1, <1>3, <1>4, <1>5

\* Nobody's status but of a CPU that is in exit or has been is in what was read.
LEMMA DeliveredBy ==
  ASSUME RingInv, Take,
         \A d \in Callers : x_pc[d] \notin {"run", "format"} => x_pc'[d] \notin {"run", "format"},
         UNCHANGED <<vcon, buf>>
  PROVE  Delivery'
<1>1. ASSUME NEW i \in 1..Len(delivered')
      PROVE  x_pc'[delivered'[i]] \notin {"run", "format"}
  <2>1. CASE i = Len(delivered) + 1
    BY <2>1, Taken
  <2>2. CASE i # Len(delivered) + 1
    <3>1. i \in 1..Len(delivered) /\ delivered'[i] = delivered[i]
      BY <2>2, Taken, Readers
    <3>2. delivered[i] \in Callers /\ x_pc[delivered[i]] \notin {"run", "format"}
      BY <3>1, Readers
    <3>. QED BY <3>1, <3>2
  <2>. QED BY <2>1, <2>2
<1>2. buf # 0 /\ vcon /\ x_pc'[buf] \notin {"run", "format"}
  BY Taken, Readers
<1>. QED
  BY <1>1, <1>2 DEF Delivery

LEMMA DeviceTakeStep ==
  ASSUME RingInv, DeviceTake
  PROVE  RingInv'
<1>1. /\ device = "async" /\ Take
      /\ UNCHANGED <<setup, queue, avail, avail_idx, kicked, vlock, buf, x_pc, taken>>
  BY DEF DeviceTake
<1>. USE DEF setup
<1>2. RingTypeOK'
  BY <1>1, Taken DEF RingInv, RingTypeOK, Descs, queue
<1>3. SetUp' /\ OneExits'
  BY <1>1, Taken DEF RingInv, SetUp, OneExits
<1>4. OneOut'
  BY <1>1 DEF RingInv, OneOut, queue, Descs
<1>5. Delivery'
  BY <1>1, DeliveredBy
<1>6. SyncDelivery'
  BY <1>1 DEF SyncDelivery
<1>. QED
  BY <1>2, <1>3, <1>4, <1>5, <1>6 DEF RingInv

LEMMA KickStep ==
  ASSUME RingInv, NEW c \in Callers, virtqueue_kick(c)
  PROVE  RingInv'
<1>1. /\ x_pc[c] = "kick" /\ vlock = c /\ buf = c /\ vcon /\ v_init \in {"done", "abort"} /\ c # 0
      /\ taken[c]
      /\ \A d \in Callers : d # c => x_pc[d] \in {"run", "halt"}
  BY Owner DEF virtqueue_kick, Owning, RingInv, OneExits
<1>2. /\ x_pc' \in [Callers -> {"run", "format", "add", "publish", "kick", "get", "unlock", "halt", "crashed"}]
      /\ x_pc'[c] = "get" /\ \A d \in Callers : d # c => x_pc'[d] = x_pc[d]
      /\ kicked' = TRUE
      /\ UNCHANGED <<setup, queue, avail, avail_idx, vlock, buf, taken>>
  BY <1>1 DEF virtqueue_kick, RingInv, RingTypeOK
<1>3. \/ device = "sync" /\ Take
      \/ ~(device = "sync" /\ last_avail # avail_idx) /\ UNCHANGED <<delivered, used, last_avail>>
  BY DEF virtqueue_kick
<1>. USE DEF setup
<1>4. RingTypeOK'
  BY <1>2, <1>3, Taken DEF RingInv, RingTypeOK, Descs, queue
<1>5. SetUp'
  BY <1>1, <1>2, <1>3, Taken DEF RingInv, SetUp
<1>6. OneExits'
  BY <1>1, <1>2 DEF RingInv, OneExits
<1>7. OneOut'
  <2>1. \E d \in Callers : x_pc[d] \in {"publish", "kick", "get"}
    BY <1>1
  <2>2. \E d \in Callers : x_pc'[d] \in {"publish", "kick", "get"}
    BY <1>2
  <2>. QED
    BY <1>2, <2>1, <2>2 DEF RingInv, OneOut, queue, Descs
<1>8. Delivery'
  <2>1. CASE Take
    BY <1>2, <2>1, DeliveredBy
  <2>2. CASE UNCHANGED <<delivered, used, last_avail>>
    <3>1. ASSUME NEW i \in 1..Len(delivered)
          PROVE  x_pc'[delivered[i]] \notin {"run", "format"}
      BY <1>2, Readers
    <3>. QED
      BY <1>1, <1>2, <2>2, <3>1 DEF RingInv, Delivery
  <2>. QED BY <1>3, <2>1, <2>2
<1>9. SyncDelivery'
  <2>. SUFFICES ASSUME device = "sync"
                PROVE  SyncDelivery'
    BY <1>2 DEF SyncDelivery
  <2>0. avail_idx = (last_avail + 1) % Wrap
    BY <1>1 DEF RingInv, SyncDelivery
  <2>1. Take
    <3>1. last_avail \in 0..(Wrap - 1)
      BY DEF RingInv, RingTypeOK
    <3>2. last_avail # avail_idx
      BY <2>0, <3>1, NextIdx
    <3>. QED BY <1>3, <3>2
  <2>2. last_avail' = avail_idx'
    BY <1>2, <2>0, <2>1, Taken
  <2>3. \A i \in 1..Len(delivered) : delivered[i] # c
    BY <1>1 DEF RingInv, SyncDelivery
  <2>4. ASSUME NEW j \in 1..Len(delivered')
        PROVE  delivered'[j] = c <=> j = Len(delivered) + 1
    <3>1. CASE j = Len(delivered) + 1
      BY <1>1, <2>1, <3>1, Taken
    <3>2. CASE j # Len(delivered) + 1
      <4>1. j \in 1..Len(delivered) /\ delivered'[j] = delivered[j]
        BY <2>1, <3>2, Taken, Readers
      <4>. QED BY <2>3, <3>2, <4>1
    <3>. QED BY <3>1, <3>2
  <2>5. Len(delivered) + 1 \in 1..Len(delivered')
    BY <2>1, Taken, Readers
  <2>6. ASSUME NEW d \in Callers, vcon', x_pc'[d] \in {"get", "unlock", "halt"}
        PROVE  \E i \in 1..Len(delivered') : \A j \in 1..Len(delivered') : delivered'[j] = d <=> j = i
    <3>1. CASE d = c
      BY <2>4, <2>5, <3>1
    <3>2. CASE d # c
      <4>1. PICK i \in 1..Len(delivered) : \A j \in 1..Len(delivered) : delivered[j] = d <=> j = i
        BY <1>1, <1>2, <2>6, <3>2 DEF RingInv, SyncDelivery
      <4>2. i \in 1..Len(delivered')
        BY <2>1, <4>1, Taken, Readers
      <4>3. ASSUME NEW j \in 1..Len(delivered')
            PROVE  delivered'[j] = d <=> j = i
        <5>1. CASE j = Len(delivered) + 1
          <6>1. j # i
            BY <4>1, <5>1, Readers
          <6>. QED BY <2>4, <3>2, <5>1, <6>1
        <5>2. CASE j # Len(delivered) + 1
          <6>1. j \in 1..Len(delivered) /\ delivered'[j] = delivered[j]
            BY <2>1, <5>2, Taken, Readers
          <6>. QED BY <4>1, <6>1
        <5>. QED BY <5>1, <5>2
      <4>. QED BY <4>2, <4>3
    <3>. QED BY <3>1, <3>2
  <2>7. \A d \in Callers : x_pc'[d] \notin {"add", "publish", "kick"}
    BY <1>1, <1>2
  <2>. QED
    BY <2>2, <2>6, <2>7 DEF SyncDelivery
<1>. QED
  BY <1>4, <1>5, <1>6, <1>7, <1>8, <1>9 DEF RingInv

\* The descriptor that get_buf finds is the one that is out.
LEMMA GetStep ==
  ASSUME RingInv, NEW c \in Callers, virtqueue_get_buf(c)
  PROVE  RingInv'
<1>1. /\ x_pc[c] = "get" /\ vlock = c /\ buf = c /\ vcon /\ v_init \in {"done", "abort"} /\ c # 0
      /\ \A d \in Callers : d # c => x_pc[d] \in {"run", "halt"}
  BY Owner DEF virtqueue_get_buf, Owning, RingInv, OneExits
<1>2. num_free = Num - 1 /\ free_head = next[0] /\ data = [i \in Descs |-> IF i = 0 THEN "buf" ELSE "NULL"]
  BY <1>1 DEF RingInv, OneOut
<1>3. 0 \in Descs /\ Slot(last_used_idx) \in Descs /\ used[Slot(last_used_idx)] = 0
  BY RingElements DEF RingInv
<1>4. /\ data' = [data EXCEPT ![0] = "NULL"] /\ num_free' = num_free + 1
      /\ next' = [next EXCEPT ![0] = free_head] /\ free_head' = 0
      /\ x_pc' = [x_pc EXCEPT ![c] = IF data[0] = "NULL" THEN "get" ELSE "unlock"]
      /\ last_used_idx' = (last_used_idx + 1) % Wrap
      /\ UNCHANGED <<setup, rings, vlock, buf, taken, delivered>>
  BY <1>3 DEF virtqueue_get_buf, detach_buf
<1>5. data[0] = "buf"
  BY <1>2, <1>3
<1>6. /\ x_pc' \in [Callers -> {"run", "format", "add", "publish", "kick", "get", "unlock", "halt", "crashed"}]
      /\ x_pc'[c] = "unlock" /\ \A d \in Callers : d # c => x_pc'[d] = x_pc[d]
  BY <1>4, <1>5 DEF RingInv, RingTypeOK
<1>7. next' = next /\ num_free' = Num /\ data' = [i \in Descs |-> "NULL"]
  <2>1. next \in [Descs -> Int]
    <3>1. next = [i \in Descs |-> IF i = Num - 1 THEN 0 ELSE i + 1]
      BY DEF RingInv, RingTypeOK
    <3>. QED BY <3>1 DEF Descs
  <2>2. next' = next
    BY <1>2, <1>3, <1>4, <2>1
  <2>3. num_free' = Num
    BY <1>2, <1>4
  <2>4. data' = [i \in Descs |-> "NULL"]
    BY <1>2, <1>3, <1>4
  <2>. QED BY <2>2, <2>3, <2>4
<1>. USE DEF setup
<1>8. RingTypeOK'
  BY <1>4, <1>6, <1>7, NextIdx DEF RingInv, RingTypeOK, Descs, rings
<1>9. SetUp' /\ OneExits'
  BY <1>1, <1>4, <1>6 DEF RingInv, SetUp, OneExits, rings
<1>10. OneOut'
  BY <1>1, <1>4, <1>6, <1>7 DEF OneOut, Descs
<1>11. Delivery'
  <2>1. ASSUME NEW i \in 1..Len(delivered)
        PROVE  x_pc'[delivered[i]] \notin {"run", "format"}
    BY <1>6, Readers
  <2>. QED
    BY <1>1, <1>4, <1>6, <2>1 DEF RingInv, Delivery, rings
<1>12. SyncDelivery'
  BY <1>1, <1>4, <1>6 DEF RingInv, SyncDelivery, rings
<1>. QED
  BY <1>8, <1>9, <1>10, <1>11, <1>12 DEF RingInv

LEMMA UnlockStep ==
  ASSUME RingInv, NEW c \in Callers, spin_unlock(c)
  PROVE  RingInv'
<1>1. /\ x_pc[c] = "unlock" /\ v_init \in {"done", "abort"}
      /\ \A d \in Callers : d # c => x_pc[d] \in {"run", "halt"}
  BY Owner DEF spin_unlock, Owning
<1>2. /\ vlock' = 0
      /\ x_pc' \in [Callers -> {"run", "format", "add", "publish", "kick", "get", "unlock", "halt", "crashed"}]
      /\ x_pc'[c] = "halt" /\ \A d \in Callers : d # c => x_pc'[d] = x_pc[d]
      /\ UNCHANGED <<setup, queue, rings, buf, taken, delivered>>
  BY DEF spin_unlock, RingInv, RingTypeOK
<1>. USE DEF setup
<1>3. RingTypeOK'
  BY <1>2 DEF RingInv, RingTypeOK, Descs, queue, rings
<1>4. SetUp' /\ OneExits'
  BY <1>1, <1>2 DEF RingInv, SetUp, OneExits, rings
<1>5. OneOut'
  BY <1>1, <1>2 DEF RingInv, OneOut, queue, Descs
<1>6. Delivery'
  <2>1. ASSUME NEW i \in 1..Len(delivered)
        PROVE  x_pc'[delivered[i]] \notin {"run", "format"}
    BY <1>2, Readers
  <2>2. buf # 0 => x_pc'[buf] \notin {"run", "format"}
    <3>1. buf # 0 => buf \in Callers /\ x_pc[buf] \notin {"run", "format"}
      BY DEF RingInv, RingTypeOK, Delivery
    <3>. QED BY <1>2, <3>1
  <2>. QED
    BY <1>2, <2>1, <2>2 DEF RingInv, Delivery, rings
<1>7. SyncDelivery'
  <2>1. UNCHANGED <<device, vcon, avail_idx, last_avail, delivered>>
    BY <1>2 DEF rings
  <2>2. ASSUME NEW d \in Callers
        PROVE  /\ x_pc'[d] \in {"add", "publish", "kick"} => x_pc[d] = x_pc'[d]
               /\ x_pc'[d] \in {"get", "unlock", "halt"} => x_pc[d] \in {"get", "unlock", "halt"}
               /\ x_pc[d] # "kick"
    BY <1>1, <1>2
  <2>. QED
    BY <2>1, <2>2 DEF RingInv, SyncDelivery
<1>. QED
  BY <1>3, <1>4, <1>5, <1>6, <1>7 DEF RingInv

LEMMA RingSame ==
  ASSUME RingInv, UNCHANGED ringVars
  PROVE  RingInv'
<1>1. RingTypeOK'
  BY DEF RingInv, RingTypeOK, ringVars, Descs
<1>2. SetUp' /\ OneExits'
  BY DEF RingInv, SetUp, OneExits, ringVars
<1>3. OneOut'
  BY DEF RingInv, OneOut, ringVars, Descs
<1>4. Delivery' /\ SyncDelivery'
  BY DEF RingInv, Delivery, SyncDelivery, ringVars
<1>. QED
  BY <1>1, <1>2, <1>3, <1>4 DEF RingInv

\* For any number of CPUs that exit at once, any size of the queue and any
\* device: exit never finds the queue full, the free list holds each free
\* descriptor once although get_buf does not look at the used index, the
\* device reads no status but of a CPU that sent one, a device that works
\* within the notification reads each once, and only an assertion of the
\* set-up itself lets exit crash.
THEOREM RingIntactCorrect == RingSpec => []RingIntact
<1>1. RingInit => RingInv
  BY RingInitHolds
<1>2. RingInv /\ [RingNext]_ringVars => RingInv'
  <2>. SUFFICES ASSUME RingInv, [RingNext]_ringVars
                PROVE  RingInv'
    OBVIOUS
  <2>1. CASE virtio_mmio_dt_bind \/ vm_setup_vq
    BY <2>1, SetUpStep
  <2>2. CASE DeviceTake
    BY <2>2, DeviceTakeStep
  <2>3. ASSUME NEW c \in Callers,
               \/ spin_lock(c) \/ Format(c) \/ virtqueue_add_outbuf(c) \/ Publish(c) \/ virtqueue_kick(c)
               \/ virtqueue_get_buf(c) \/ spin_unlock(c)
        PROVE  RingInv'
    BY <2>3, LockStep, FormatStep, AddStep, PublishStep, KickStep, GetStep, UnlockStep
  <2>4. CASE UNCHANGED ringVars
    BY <2>4, RingSame
  <2>. QED
    BY <2>1, <2>2, <2>3, <2>4 DEF RingNext, Ended
<1>3. RingInv => RingIntact
  BY RingIntactHolds
<1>. QED
  BY <1>1, <1>2, <1>3, PTL DEF RingSpec

-----------------------------------------------------------------------------
(* arm/psci.c: CPU 0 and the secondaries call in any order, and what each  *)
(* got is there when CPU 0 judges.                                         *)

USE PCpusAssumption

\* Where the callers are, and what that says of the three masks.
Places ==
    /\ p_main \in {"start", "boot", "wait", "call", "done", "join", "end"}
    /\ p_pc \in [Secondaries -> {"off", "ready", "spin", "done", "idle"}]
    /\ cpu_on_ready \subseteq PAll /\ cpu_on_start \in BOOLEAN /\ called \subseteq PAll \ {1}
    /\ cpu_on_start => cpu_on_ready = PAll
    /\ p_main \in {"start", "boot", "wait"} => ~cpu_on_start
    /\ p_main \in {"call", "done", "join"} => cpu_on_start
    /\ \A c \in Secondaries :
          /\ c \in cpu_on_ready => p_pc[c] \notin {"off", "ready"}
          /\ p_pc[c] \in {"done", "idle"} <=> c \in called
          /\ c \in cpu_on_done => p_pc[c] = "idle"
    /\ called # {} => cpu_on_start
    /\ 0 \in called => p_main \in {"done", "join", "end"}
    /\ p_main \in {"done", "join"} => 0 \in called
    /\ cpu_on_done \subseteq called \cup {1}

\* What the firmware has answered, by its defect and CPU 1's power.
Answers ==
    /\ cpu_on_ret \in [PAll -> {"SUCCESS", "ALREADY_ON", "ON_PENDING", "DENIED"}]
    /\ firmware = "none" /\ called = {} => power = "off"
    /\ firmware = "none" /\ called # {} => \E c \in called : cpu_on_ret[c] = "SUCCESS"
    /\ firmware = "denies" => \A c \in called : cpu_on_ret[c] = "DENIED"
    /\ firmware \notin {"denies", "pending"} =>
          \A c \in called : cpu_on_ret[c] \in {"SUCCESS", "ALREADY_ON"}
    /\ firmware # "denies" => \A c \in called : cpu_on_ret[c] # "DENIED"

\* The reports of the simple tests, and that of "cpu-on".
Simple == {<<"invalid-function", firmware # "accepts_all">>, <<"affinity-info-on", firmware # "affinity">>,
           <<"affinity-info-off", firmware # "affinity">>}
AllAnswered == \A c \in PAll \ {1} : cpu_on_ret[c] \in {"SUCCESS", "ALREADY_ON"}

PReports ==
    \/ p_main = "start" /\ p_reports = {}
    \/ p_main # "start" /\ p_reports = Simple
    \/ p_main = "end" /\ called = PAll \ {1} /\ p_reports = Simple \cup {<<"cpu-on", AllAnswered>>}

PsciInv == Places /\ Answers /\ PReports

LEMMA PsciCpus ==
    /\ 0 \in PAll /\ 1 \in PAll /\ 0 \notin Secondaries /\ 1 \notin Secondaries
    /\ PAll = {0, 1} \cup Secondaries
  BY DEF PAll, Secondaries

LEMMA PsciInitHolds == PsciInit => PsciInv
  <1> SUFFICES ASSUME PsciInit PROVE PsciInv
    OBVIOUS
  <1>1. Places
    BY PsciCpus DEF PsciInit, Places
  <1>2. Answers
    BY DEF PsciInit, Answers
  <1>3. PReports
    BY DEF PsciInit, PReports
  <1> QED
    BY <1>1, <1>2, <1>3 DEF PsciInv

\* A step in which no firmware call is made keeps the answers.
LEMMA AnswersStay ==
    ASSUME Answers, UNCHANGED <<firmware, power, cpu_on_ret, called>>
    PROVE  Answers'
  BY DEF Answers, PAll

\* It keeps the reports, too, once they are there.
LEMMA ReportsStay ==
    ASSUME PReports, p_main # "start", p_main # "end", p_main' # "start",
           UNCHANGED <<firmware, p_reports>>
    PROVE  PReports'
  BY DEF PReports, Simple

\* A call: the CPU that makes it has made none before.
LEMMA CallAnswers ==
    ASSUME Places, Answers, NEW c \in PAll \ {1}, c \notin called, psci_cpu_on(c), firmware' = firmware
    PROVE  Answers'
  <1>1. /\ called' = called \cup {c} /\ \A d \in called : cpu_on_ret'[d] = cpu_on_ret[d]
        /\ c \in called' /\ called' # {}
    BY DEF psci_cpu_on, Answers, Places
  <1>2. cpu_on_ret'[c] = IF firmware = "denies" THEN "DENIED"
                         ELSE IF power = "off" \/ firmware = "always_succeeds" THEN "SUCCESS"
                         ELSE IF firmware = "pending" THEN "ON_PENDING" ELSE "ALREADY_ON"
    BY DEF psci_cpu_on, Answers
  <1>3. /\ firmware = "denies" => cpu_on_ret'[c] = "DENIED"
        /\ firmware # "denies" => cpu_on_ret'[c] \in {"SUCCESS", "ON_PENDING", "ALREADY_ON"}
        /\ firmware \notin {"denies", "pending"} => cpu_on_ret'[c] \in {"SUCCESS", "ALREADY_ON"}
        /\ firmware = "none" /\ power = "off" => cpu_on_ret'[c] = "SUCCESS"
    BY <1>2
  <1>4. cpu_on_ret' \in [PAll -> {"SUCCESS", "ALREADY_ON", "ON_PENDING", "DENIED"}]
    <2>1. cpu_on_ret'[c] \in {"SUCCESS", "ALREADY_ON", "ON_PENDING", "DENIED"}
      BY <1>3
    <2> QED
      BY <2>1 DEF psci_cpu_on, Answers
  <1>5. firmware = "none" => \E d \in called' : cpu_on_ret'[d] = "SUCCESS"
    BY <1>1, <1>3 DEF Answers
  <1> QED
    BY <1>1, <1>3, <1>4, <1>5 DEF Answers, PAll

\* The loop over the present CPUs: there is a first one that is off.
LEMMA FirstOff ==
    ASSUME \E c \in Secondaries : p_pc[c] = "off"
    PROVE  LET c == CHOOSE d \in Secondaries : p_pc[d] = "off" /\ \A e \in Secondaries : e < d => p_pc[e] # "off"
           IN c \in Secondaries /\ p_pc[c] = "off"
  <1> DEFINE S == {d \in Secondaries : p_pc[d] = "off"}
  <1>1. S \subseteq Nat /\ S # {}
    BY DEF Secondaries
  <1>2. PICK x \in S : \A y \in S : ~(<<y, x>> \in OpToRel(<, Nat))
    <2> HIDE DEF S
    <2> QED
      BY <1>1, NatLessThanWellFounded, WFMin
  <1>3. ASSUME NEW y \in S PROVE ~(y < x)
    <2>1. <<y, x>> \in Nat \X Nat
      BY <1>1
    <2>2. ~(<<y, x>>[1] < <<y, x>>[2])
      BY <1>2, <2>1, Zenon DEF OpToRel
    <2> QED
      BY <2>2
  <1>4. \A e \in Secondaries : e < x => p_pc[e] # "off"
    BY <1>3
  <1> QED
    BY <1>2, <1>4

LEMMA MainSteps ==
    ASSUME PsciInv, SimpleTests \/ BootSecondaries \/ Start \/ MainDone
    PROVE  PsciInv'
  <1>1. Answers'
    BY AnswersStay DEF PsciInv, SimpleTests, BootSecondaries, Start, MainDone
  <1>2. CASE SimpleTests
    <2>1. Places'
      BY <1>2, PsciCpus DEF SimpleTests, PsciInv, Places, PAll, Secondaries
    <2>2. PReports'
      BY <1>2 DEF SimpleTests, PReports, Simple
    <2> QED
      BY <1>1, <2>1, <2>2 DEF PsciInv
  <1>3. CASE BootSecondaries
    <2>1. PReports'
      BY <1>3, ReportsStay DEF BootSecondaries, PsciInv
    <2>2. CASE \E c \in Secondaries : p_pc[c] = "off"
      <3> DEFINE c == CHOOSE d \in Secondaries : p_pc[d] = "off" /\ \A e \in Secondaries : e < d => p_pc[e] # "off"
      <3>1. /\ p_main' = p_main /\ cpu_on_ready' = cpu_on_ready /\ p_pc' = [p_pc EXCEPT ![c] = "ready"]
            /\ UNCHANGED <<cpu_on_done, cpu_on_start, called>> /\ p_main = "boot"
        BY <1>3, <2>2 DEF BootSecondaries
      <3>2. c \in Secondaries /\ p_pc[c] = "off"
        BY <2>2, FirstOff
      <3> HIDE DEF c
      <3>3. Places'
        BY <3>1, <3>2 DEF PsciInv, Places, PAll, Secondaries
      <3> QED
        BY <1>1, <2>1, <3>3 DEF PsciInv
    <2>3. CASE ~\E c \in Secondaries : p_pc[c] = "off"
      <3>1. /\ p_main' = "wait" /\ cpu_on_ready' = cpu_on_ready \cup {0} /\ p_main = "boot"
            /\ UNCHANGED <<p_pc, cpu_on_done, cpu_on_start, called>>
        BY <1>3, <2>3 DEF BootSecondaries
      <3>2. Places'
        BY <3>1, PsciCpus DEF PsciInv, Places, PAll, Secondaries
      <3> QED
        BY <1>1, <2>1, <3>2 DEF PsciInv
    <2> QED
      BY <2>2, <2>3
  <1>4. CASE Start
    <2>1. Places'
      BY <1>4, PsciCpus DEF Start, PsciInv, Places, PAll, Secondaries
    <2> QED
      BY <1>1, <1>4, <2>1, ReportsStay DEF Start, PsciInv
  <1>5. CASE MainDone
    <2>1. Places'
      BY <1>5, PsciCpus DEF MainDone, PsciInv, Places, PAll, Secondaries
    <2> QED
      BY <1>1, <1>5, <2>1, ReportsStay DEF MainDone, PsciInv
  <1> QED
    BY <1>2, <1>3, <1>4, <1>5

\* A caller's step: no call is made twice, and no report is there before the last.
LEMMA CallSteps ==
    ASSUME PsciInv, MainCall \/ \E c \in Secondaries : SecondaryCall(c)
    PROVE  PsciInv'
  <1>1. CASE MainCall
    <2>1. 0 \in PAll \ {1} /\ 0 \notin called /\ psci_cpu_on(0) /\ firmware' = firmware
      BY <1>1, PsciCpus DEF MainCall, PsciInv, Places
    <2>2. Answers'
      BY <2>1, CallAnswers DEF PsciInv
    <2>3. Places'
      BY <1>1, <2>1, PsciCpus DEF MainCall, psci_cpu_on, PsciInv, Places
    <2>4. PReports'
      BY <1>1, ReportsStay DEF MainCall, PsciInv
    <2> QED
      BY <2>2, <2>3, <2>4 DEF PsciInv
  <1>2. ASSUME NEW c \in Secondaries, SecondaryCall(c) PROVE PsciInv'
    <2>1. c \in PAll \ {1} /\ c \notin called /\ psci_cpu_on(c) /\ firmware' = firmware
      BY <1>2, PsciCpus DEF SecondaryCall, PsciInv, Places
    <2>2. Answers'
      BY <2>1, CallAnswers DEF PsciInv
    <2>3. /\ p_pc' = [p_pc EXCEPT ![c] = "done"] /\ p_pc[c] = "spin" /\ called' = called \cup {c}
          /\ cpu_on_start /\ c # 0 /\ c # 1
          /\ UNCHANGED <<p_main, cpu_on_ready, cpu_on_done, cpu_on_start>>
      BY <1>2, PsciCpus DEF SecondaryCall, psci_cpu_on
    <2>4. Places'
      BY <2>1, <2>3 DEF PsciInv, Places
    <2>5. PReports'
      BY <1>2, <2>1 DEF SecondaryCall, PsciInv, PReports, Simple
    <2> QED
      BY <2>2, <2>4, <2>5 DEF PsciInv
  <1> QED
    BY <1>1, <1>2

\* The steps of the others that make no call.
LEMMA OtherSteps ==
    ASSUME PsciInv, cpu_psci_cpu_die \/ \E c \in Secondaries : SetCpuOnReady(c) \/ SecondaryDone(c)
    PROVE  PsciInv'
  <1>1. CASE cpu_psci_cpu_die
    <2>1. Places'
      BY <1>1 DEF cpu_psci_cpu_die, PsciInv, Places
    <2>2. Answers'
      BY <1>1 DEF cpu_psci_cpu_die, PsciInv, Answers, PAll
    <2>3. PReports'
      BY <1>1 DEF cpu_psci_cpu_die, PsciInv, PReports, Simple, AllAnswered, PAll
    <2> QED
      BY <2>1, <2>2, <2>3 DEF PsciInv
  <1>2. ASSUME NEW c \in Secondaries, SetCpuOnReady(c) \/ SecondaryDone(c) PROVE PsciInv'
    <2>1. Answers'
      BY <1>2, AnswersStay DEF SetCpuOnReady, SecondaryDone, PsciInv
    <2>2. PReports'
      BY <1>2 DEF SetCpuOnReady, SecondaryDone, PsciInv, PReports, Simple, AllAnswered, PAll
    <2>3. c \in PAll /\ c # 0 /\ c # 1
      BY PsciCpus
    <2>4. CASE SetCpuOnReady(c)
      BY <2>1, <2>2, <2>3, <2>4 DEF SetCpuOnReady, PsciInv, Places
    <2>5. CASE SecondaryDone(c)
      BY <2>1, <2>2, <2>3, <2>5 DEF SecondaryDone, PsciInv, Places
    <2> QED
      BY <1>2, <2>4, <2>5
  <1> QED
    BY <1>1, <1>2

\* CPU 0 judges when all are done, so all have called.
LEMMA JudgeStep ==
    ASSUME PsciInv, Judge
    PROVE  PsciInv'
  <1>1. Answers'
    BY AnswersStay DEF PsciInv, Judge
  <1>2. Places'
    BY DEF Judge, PsciInv, Places
  <1>3. called = PAll \ {1}
    BY DEF Judge, AllDone, PsciInv, Places
  <1>4. p_reports = Simple
    BY DEF Judge, PsciInv, PReports
  <1>5. p_reports' = Simple \cup {<<"cpu-on", AllAnswered>>}
    BY <1>4 DEF Judge, Reported, AllAnswered
  <1>6. Simple' = Simple /\ AllAnswered' = AllAnswered /\ p_main' = "end" /\ called' = called /\ PAll' = PAll
    BY DEF Judge, Simple, AllAnswered, PAll
  <1>7. PReports'
    BY <1>3, <1>5, <1>6 DEF PReports
  <1> QED
    BY <1>1, <1>2, <1>7 DEF PsciInv

LEMMA PsciStep == PsciInv /\ [PsciNext]_psciVars => PsciInv'
  <1> SUFFICES ASSUME PsciInv, [PsciNext]_psciVars PROVE PsciInv'
    OBVIOUS
  <1>1. CASE UNCHANGED psciVars
    <2>1. Answers'
      BY <1>1, AnswersStay DEF psciVars, PsciInv
    <2>2. Places'
      BY <1>1 DEF psciVars, PsciInv, Places
    <2>3. PReports'
      BY <1>1 DEF psciVars, PsciInv, PReports, Simple, AllAnswered, PAll
    <2> QED
      BY <2>1, <2>2, <2>3 DEF PsciInv
  <1>2. CASE PsciNext
    BY <1>1, <1>2, MainSteps, CallSteps, OtherSteps, JudgeStep DEF PsciNext, PsciEnd
  <1> QED
    BY <1>1, <1>2

\* What is reported follows from what was answered.
LEMMA PsciInvJudges == PsciInv => PsciVerdict
  <1> SUFFICES ASSUME PsciInv PROVE PsciVerdict
    OBVIOUS
  <1>1. /\ called # {} => cpu_on_ready = PAll
        /\ cpu_on_done \subseteq called \cup {1}
    BY DEF PsciInv, Places
  <1>2. firmware = "none" => (\E c \in called : cpu_on_ret[c] = "SUCCESS") \/ called = {}
    BY DEF PsciInv, Answers
  <1>3. \/ p_reports = {} \/ p_reports = Simple
        \/ called = PAll \ {1} /\ p_reports = Simple \cup {<<"cpu-on", AllAnswered>>}
    BY DEF PsciInv, PReports
  <1>4. ASSUME NEW ok \in BOOLEAN, <<"cpu-on", ok>> \in p_reports
        PROVE  called = PAll \ {1} /\ ok = AllAnswered
    BY <1>3, <1>4 DEF Simple
  <1>5. (\E ok \in BOOLEAN : <<"cpu-on", ok>> \in p_reports) => called = PAll \ {1}
    BY <1>4
  <1>6. firmware \notin {"denies", "pending"} /\ called = PAll \ {1} => AllAnswered
    BY DEF PsciInv, Answers, AllAnswered
  <1>7. firmware \in {"none", "always_succeeds", "stays_on"} => \A r \in p_reports : r[2]
    <2> SUFFICES ASSUME firmware \in {"none", "always_succeeds", "stays_on"}, NEW r \in p_reports PROVE r[2]
      OBVIOUS
    <2>1. CASE r \in Simple
      <3>1. \/ r = <<"invalid-function", firmware # "accepts_all">>
            \/ r = <<"affinity-info-on", firmware # "affinity">>
            \/ r = <<"affinity-info-off", firmware # "affinity">>
        BY <2>1 DEF Simple
      <3>2. r[2] = (firmware # "accepts_all") \/ r[2] = (firmware # "affinity")
        BY <3>1
      <3> QED
        BY <3>2
    <2>2. CASE r = <<"cpu-on", AllAnswered>>
      <3>1. called = PAll \ {1} => AllAnswered
        BY <1>6
      <3>2. r \notin Simple => called = PAll \ {1}
        BY <1>3
      <3>3. CASE r \notin Simple
        <4>1. r[2] = AllAnswered
          BY <2>2
        <4> QED
          BY <3>1, <3>2, <3>3, <4>1
      <3> QED
        BY <2>1, <3>3
    <2> QED
      BY <1>3, <2>1, <2>2
  <1>8. firmware = "denies" => <<"cpu-on", TRUE>> \notin p_reports
    <2> SUFFICES ASSUME firmware = "denies", <<"cpu-on", TRUE>> \in p_reports PROVE FALSE
      OBVIOUS
    <2>1. called = PAll \ {1} /\ AllAnswered
      BY <1>4
    <2>2. 0 \in called
      BY <2>1, PsciCpus
    <2> QED
      BY <2>1, <2>2, PsciCpus DEF PsciInv, Answers, AllAnswered
  <1>9. firmware = "pending" /\ <<"cpu-on", FALSE>> \in p_reports => \E c \in called : cpu_on_ret[c] = "ON_PENDING"
    <2> SUFFICES ASSUME firmware = "pending", <<"cpu-on", FALSE>> \in p_reports
                 PROVE  \E c \in called : cpu_on_ret[c] = "ON_PENDING"
      OBVIOUS
    <2>1. called = PAll \ {1} /\ ~AllAnswered
      BY <1>4
    <2>2. PICK c \in called : cpu_on_ret[c] \notin {"SUCCESS", "ALREADY_ON"}
      BY <2>1 DEF AllAnswered
    <2>3. cpu_on_ret[c] \in {"SUCCESS", "ALREADY_ON", "ON_PENDING", "DENIED"} /\ cpu_on_ret[c] # "DENIED"
      BY <2>1, <2>2 DEF PsciInv, Answers
    <2> QED
      BY <2>2, <2>3
  <1>10. firmware \in {"accepts_all", "affinity"} /\ p_reports # {} => \E r \in p_reports : ~r[2]
    <2> SUFFICES ASSUME firmware \in {"accepts_all", "affinity"}, p_reports # {}
                 PROVE  \E r \in p_reports : ~r[2]
      OBVIOUS
    <2>1. Simple \subseteq p_reports
      BY <1>3
    <2>2. CASE firmware = "accepts_all"
      <3>1. <<"invalid-function", FALSE>> \in p_reports
        BY <2>1, <2>2 DEF Simple
      <3> QED
        BY <3>1
    <2>3. CASE firmware = "affinity"
      <3>1. <<"affinity-info-on", FALSE>> \in p_reports
        BY <2>1, <2>3 DEF Simple
      <3> QED
        BY <3>1
    <2> QED
      BY <2>2, <2>3
  <1> QED
    BY <1>1, <1>2, <1>5, <1>7, <1>8, <1>9, <1>10 DEF PsciVerdict

\* arm/psci.c: whatever the number of CPUs, the order of their calls and CPU
\* 1's deaths in between, "cpu-on" is judged when every CPU but CPU 1 has
\* called and stored its answer: it is good on a firmware that answers by CPU
\* 1's power, and bad on one that denies.
THEOREM PsciCorrect == PsciSpec => []PsciVerdict
  <1>1. PsciSpec => []PsciInv
    BY PsciInitHolds, PsciStep, PTL DEF PsciSpec
  <1> QED
    BY <1>1, PsciInvJudges, PTL
=============================================================================
