-------------------------------- MODULE Virtio --------------------------------
(***************************************************************************)
(* lib/virtio.c, lib/virtio-mmio.c and lib/chr-testdev.c: the console      *)
(* through which exit() sends the status of a test to the host, and the    *)
(* queue under it.                                                         *)
(*                                                                         *)
(* The device is external: "sync" takes a buffer within the notification,  *)
(* "async" some time after it.  The status of a CPU is the CPU itself.     *)
(* Indices of the rings count modulo Wrap (2^16 in the code).              *)
(***************************************************************************)
EXTENDS Integers, Sequences, FiniteSets

CONSTANTS
    Callers,        \* CPUs that call exit; 0 is not one, it stands for no one
    Num,            \* VIRTIO_MMIO_QUEUE_NUM_MIN
    Wrap,           \* range of a ring index
    Nodes,          \* the device trees: sequences of "console", "other", "bad magic"
    Devices         \* "sync", "async", "set up" (queue 1 is in use), "small" (QUEUE_NUM_MAX below Num)

ASSUME CallersAssumption == Callers \subseteq Nat \ {0}
ASSUME RingAssumption == Num \in Nat \ {0} /\ Wrap \in Nat /\ Wrap > 1

VARIABLES
    device, node,
    v_init,         \* chr_testdev_init: "bind", the number of the queue to set up, "done", "abort"
    vcon, out_vq,   \* are they set?
    num_free, free_head, next, data, last_used_idx,     \* of out_vq
    avail, avail_idx, used, last_avail, kicked,         \* shared with the device
    vlock, buf, x_pc, taken,                            \* lock; the static buffer; per CPU; the descriptor it has
    delivered       \* what the device read, and of whom

ringVars == <<device, node, v_init, vcon, out_vq, num_free, free_head, next, data, last_used_idx, avail, avail_idx, used, last_avail, kicked,
          vlock, buf, x_pc, taken, delivered>>
setup == <<device, node, v_init, vcon, out_vq>>
queue == <<num_free, free_head, next, data, last_used_idx>>
rings == <<avail, avail_idx, used, last_avail, kicked>>

Descs == 0..(Num - 1)
Slot(idx) == idx % Num

-----------------------------------------------------------------------------
(* chr_testdev_init *)

\* virtio_bind: the first node that vm_dt_match accepts.
virtio_mmio_dt_bind ==
    /\ v_init = "bind"
    /\ vcon' = (\E i \in 1..Len(node) : node[i] = "console")
    /\ v_init' = IF vcon' THEN "queue 0" ELSE "done"
    /\ UNCHANGED <<device, node, out_vq, queue, rings, vlock, buf, x_pc, taken, delivered>>

\* vm_find_vqs: one vm_setup_vq.  A failed assertion ends in exit, with vcon set and out_vq not.
vm_setup_vq ==
    /\ v_init \in {"queue 0", "queue 1"}
    /\ IF device = "small" THEN v_init' = "abort" /\ UNCHANGED <<vcon, out_vq>>
       ELSE IF v_init = "queue 0" THEN v_init' = "queue 1" /\ UNCHANGED <<vcon, out_vq>>
       ELSE IF device = "set up" THEN v_init' = "done" /\ vcon' = FALSE /\ UNCHANGED out_vq
       ELSE v_init' = "done" /\ out_vq' = TRUE /\ UNCHANGED vcon
    /\ UNCHANGED <<device, node, queue, rings, vlock, buf, x_pc, taken, delivered>>

-----------------------------------------------------------------------------
(* chr_testdev_exit *)

MayExit(c) == v_init = "done" \/ (v_init = "abort" /\ \A d \in Callers : c <= d)

spin_lock(c) ==
    /\ x_pc[c] = "run" /\ MayExit(c) /\ vlock = 0
    /\ vlock' = c
    /\ x_pc' = [x_pc EXCEPT ![c] = IF vcon THEN "format" ELSE "unlock"]
    /\ UNCHANGED <<setup, queue, rings, buf, taken, delivered>>

\* snprintf
Format(c) ==
    /\ x_pc[c] = "format"
    /\ buf' = c
    /\ x_pc' = [x_pc EXCEPT ![c] = IF out_vq THEN "add" ELSE "crashed"]
    /\ UNCHANGED <<setup, queue, rings, vlock, taken, delivered>>

\* virtqueue_add_outbuf up to the barrier: the descriptor and its slot in the ring.
virtqueue_add_outbuf(c) ==
    /\ x_pc[c] = "add"
    /\ IF num_free = 0
       THEN /\ taken' = [taken EXCEPT ![c] = FALSE]
            /\ x_pc' = [x_pc EXCEPT ![c] = "kick"]
            /\ UNCHANGED <<num_free, free_head, data, avail>>
       ELSE /\ taken' = [taken EXCEPT ![c] = TRUE]
            /\ num_free' = num_free - 1
            /\ free_head' = next[free_head]
            /\ data' = [data EXCEPT ![free_head] = "buf"]
            /\ avail' = [avail EXCEPT ![Slot(avail_idx)] = free_head]
            /\ x_pc' = [x_pc EXCEPT ![c] = "publish"]
    /\ UNCHANGED <<setup, next, last_used_idx, avail_idx, used, last_avail, kicked, vlock, buf, delivered>>

\* avail->idx++
Publish(c) ==
    /\ x_pc[c] = "publish"
    /\ avail_idx' = (avail_idx + 1) % Wrap
    /\ x_pc' = [x_pc EXCEPT ![c] = "kick"]
    /\ UNCHANGED <<setup, queue, avail, used, last_avail, kicked, vlock, buf, taken, delivered>>

\* The device takes one buffer: it reads the memory and returns the descriptor.  External.
Take ==
    /\ last_avail # avail_idx
    /\ delivered' = Append(delivered, buf)
    /\ used' = [used EXCEPT ![Slot(last_avail)] = avail[Slot(last_avail)]]
    /\ last_avail' = (last_avail + 1) % Wrap

\* vm_notify
virtqueue_kick(c) ==
    /\ x_pc[c] = "kick"
    /\ kicked' = TRUE
    /\ IF device = "sync" /\ last_avail # avail_idx THEN Take ELSE UNCHANGED <<delivered, used, last_avail>>
    /\ x_pc' = [x_pc EXCEPT ![c] = IF taken[c] THEN "get" ELSE "unlock"]
    /\ UNCHANGED <<setup, queue, avail, avail_idx, vlock, buf, taken>>

DeviceTake ==
    /\ device = "async" /\ kicked /\ Take
    /\ UNCHANGED <<setup, queue, avail, avail_idx, kicked, vlock, buf, x_pc, taken>>

\* Mutant: the head of the free list is not set.
detach_buf_Lost(i) ==
    /\ data' = [data EXCEPT ![i] = "NULL"] /\ num_free' = num_free + 1
    /\ next' = [next EXCEPT ![i] = free_head] /\ UNCHANGED free_head

\* No descriptor has VRING_DESC_F_NEXT.
detach_buf(i) ==
    /\ data' = [data EXCEPT ![i] = "NULL"] /\ num_free' = num_free + 1
    /\ next' = [next EXCEPT ![i] = free_head] /\ free_head' = i

\* The slot of last_used_idx is read, whether the device has written it or not: used->idx is not looked at.
virtqueue_get_buf(c) ==
    /\ x_pc[c] = "get"
    /\ LET i == used[Slot(last_used_idx)] IN
        /\ detach_buf(i)
        /\ x_pc' = [x_pc EXCEPT ![c] = IF data[i] = "NULL" THEN "get" ELSE "unlock"]
    /\ last_used_idx' = (last_used_idx + 1) % Wrap
    /\ UNCHANGED <<setup, rings, vlock, buf, taken, delivered>>

\* spin_unlock, then halt.
spin_unlock(c) ==
    /\ x_pc[c] = "unlock"
    /\ vlock' = 0
    /\ x_pc' = [x_pc EXCEPT ![c] = "halt"]
    /\ UNCHANGED <<setup, queue, rings, buf, taken, delivered>>

-----------------------------------------------------------------------------
\* Everyone who called exit has halted or crashed.
Ended ==
    /\ v_init \in {"done", "abort"}
    /\ \A c \in Callers : x_pc[c] \in {"halt", "crashed"} \/ (x_pc[c] = "run" /\ (~MayExit(c) \/ vlock # 0))
    /\ \A c \in Callers : vlock = c => x_pc[c] = "crashed"
    /\ UNCHANGED ringVars

RingInit ==
    /\ device \in Devices /\ node \in Nodes
    /\ v_init = "bind" /\ vcon = FALSE /\ out_vq = FALSE
    /\ num_free = Num /\ free_head = 0 /\ last_used_idx = 0 /\ avail_idx = 0 /\ last_avail = 0 /\ kicked = FALSE
    /\ next = [i \in Descs |-> IF i = Num - 1 THEN 0 ELSE i + 1]        \* the page was cleared
    /\ data = [i \in Descs |-> "NULL"] /\ avail = [i \in Descs |-> 0] /\ used = [i \in Descs |-> 0]
    /\ vlock = 0 /\ buf = 0 /\ x_pc = [c \in Callers |-> "run"] /\ taken = [c \in Callers |-> FALSE] /\ delivered = <<>>

RingNext ==
    \/ virtio_mmio_dt_bind \/ vm_setup_vq \/ DeviceTake \/ Ended
    \/ \E c \in Callers :
        \/ spin_lock(c) \/ Format(c) \/ virtqueue_add_outbuf(c) \/ Publish(c) \/ virtqueue_kick(c)
        \/ virtqueue_get_buf(c) \/ spin_unlock(c)

RingSpec == RingInit /\ [][RingNext]_ringVars

-----------------------------------------------------------------------------
\* From free_head, num_free links of next lead through the descriptors
\* without data, each once.
FreeListRight ==
    \E at \in [1..num_free -> Descs] :
        /\ num_free > 0 => at[1] = free_head
        /\ \A i \in 1..(num_free - 1) : at[i + 1] = next[at[i]]
        /\ \A i, j \in 1..num_free : at[i] = at[j] => i = j
        /\ {at[i] : i \in 1..num_free} = {i \in Descs : data[i] = "NULL"}

(* The console and its queue.  exit never finds the queue full.  The free   *)
(* list holds num_free descriptors, each once, and they are those without   *)
(* data: the queue never takes a slot of the used ring for an answer that   *)
(* would free a descriptor twice, although it does not look whether the     *)
(* device wrote the slot.  The device reads nobody's status but of a CPU    *)
(* that sent one.  With a device that works within the notification, every  *)
(* CPU that halts has delivered its status, once.  exit uses a queue that   *)
(* was never set up only after an assertion of the set-up itself.           *)
RingIntact ==
    /\ num_free \in 0..Num /\ \A c \in Callers : x_pc[c] = "add" => num_free = Num
    /\ FreeListRight
    /\ \A i \in 1..Len(delivered) : delivered[i] \in Callers /\ x_pc[delivered[i]] \notin {"run", "format"}
    /\ device = "sync" /\ vcon => \A c \in Callers :
        x_pc[c] \in {"get", "unlock", "halt"} => Cardinality({i \in 1..Len(delivered) : delivered[i] = c}) = 1
    /\ ~vcon => delivered = <<>>
    /\ \A c \in Callers : x_pc[c] = "crashed" => device = "small" /\ v_init = "abort"

-----------------------------------------------------------------------------
(* The inductive invariant: exit only ever has descriptor 0, because it     *)
(* waits under the lock until the queue has it back.                        *)

RingTypeOK ==
    /\ v_init \in {"bind", "queue 0", "queue 1", "done", "abort"}
    /\ vcon \in BOOLEAN /\ out_vq \in BOOLEAN
    /\ next = [i \in Descs |-> IF i = Num - 1 THEN 0 ELSE i + 1]
    /\ avail = [i \in Descs |-> 0] /\ used = [i \in Descs |-> 0]
    /\ last_used_idx \in 0..(Wrap - 1)
    /\ avail_idx \in 0..(Wrap - 1) /\ last_avail \in 0..(Wrap - 1)
    /\ vlock \in Callers \cup {0} /\ buf \in Callers \cup {0}
    /\ x_pc \in [Callers -> {"run", "format", "add", "publish", "kick", "get", "unlock", "halt", "crashed"}]
    /\ taken \in [Callers -> BOOLEAN]
    /\ delivered \in Seq(Callers)

\* Nobody exits before the set-up of the console has ended.
SetUp ==
    /\ v_init \in {"bind", "queue 0", "queue 1"} =>
          /\ ~out_vq /\ buf = 0 /\ delivered = <<>> /\ last_avail = avail_idx
          /\ \A c \in Callers : x_pc[c] = "run"
    /\ v_init \in {"queue 0", "queue 1"} => vcon
    /\ v_init = "done" /\ vcon => out_vq
    /\ v_init = "abort" => device = "small"
    /\ \A c \in Callers : x_pc[c] = "crashed" => v_init = "abort"

\* A CPU between spin_lock and spin_unlock has the lock and the buffer.
OneExits ==
    \A c \in Callers :
        /\ x_pc[c] \notin {"run", "halt"} => vlock = c
        /\ x_pc[c] \in {"add", "publish", "kick", "get"} => buf = c
        /\ x_pc[c] \in {"format", "add", "publish", "kick", "get"} => vcon
        /\ x_pc[c] \in {"publish", "kick", "get"} => taken[c]

\* Descriptor 0 is out while a CPU waits for it, and none at other times.
OneOut ==
    IF \E c \in Callers : x_pc[c] \in {"publish", "kick", "get"}
    THEN num_free = Num - 1 /\ free_head = next[0] /\ data = [i \in Descs |-> IF i = 0 THEN "buf" ELSE "NULL"]
    ELSE num_free = Num /\ free_head = 0 /\ data = [i \in Descs |-> "NULL"]

\* What the device read is the status of a CPU that exits or has.
Delivery ==
    /\ last_avail # avail_idx => buf # 0
    /\ buf # 0 => vcon /\ x_pc[buf] \notin {"run", "format"}
    /\ ~vcon => delivered = <<>>
    /\ \A i \in 1..Len(delivered) : x_pc[delivered[i]] \notin {"run", "format"}

\* A device that works within the notification reads each status once.
SyncDelivery ==
    device = "sync" =>
        /\ last_avail # avail_idx => \E c \in Callers : x_pc[c] = "kick"
        /\ \A c \in Callers :
              /\ x_pc[c] = "kick" => avail_idx = (last_avail + 1) % Wrap
              /\ x_pc[c] \in {"add", "publish", "kick"} => \A i \in 1..Len(delivered) : delivered[i] # c
              /\ vcon /\ x_pc[c] \in {"get", "unlock", "halt"} =>
                    \E i \in 1..Len(delivered) : \A j \in 1..Len(delivered) : delivered[j] = c <=> j = i

RingInv == RingTypeOK /\ SetUp /\ OneExits /\ OneOut /\ Delivery /\ SyncDelivery
=============================================================================
