---------------------------------- MODULE Pci ----------------------------------
(***************************************************************************)
(* lib/pci.c and lib/pci-host-generic.c: sizing of BARs and their          *)
(* assignment to the windows of the host bridge.                           *)
(*                                                                         *)
(* A configuration word has W bits, 4 of them information in a memory BAR  *)
(* and 2 in an I/O BAR; the device (external) keeps the address bits above *)
(* the size of the BAR.  A BAR register is [addr, kind]: the kind stands   *)
(* for the information bits and cannot be written.                         *)
(***************************************************************************)
EXTENDS Integers, Sequences, FiniteSets

CONSTANTS
    W,              \* bits of a word
    Devices,        \* sequence of sets of devices, see Device
    Bridges         \* sequences of windows: [space, prefetch, pci_start, start, size]

VARIABLES
    bridge, allocated,      \* pci_host_bridge: the windows; how much of each is given away
    devs,                   \* per device its BARs
    at,                     \* <<device, BAR>> that pci_probe is at; BAR 0: pci_dev_init is next
    placed,                 \* BARs that got an address: <<device, BAR>>
    warned,                 \* BARs for which there is no window
    cmd,                    \* per device what is collected for PCI_COMMAND: "io", "mem"
    resource,               \* dev->resource of the device that pci_probe is at
    aborted                 \* an assertion failed

vars == <<bridge, allocated, devs, at, placed, warned, cmd, resource, aborted>>

Word == 2 ^ W
NBars == 3                  \* PCI_BAR_NUM
Invalid == -1               \* INVALID_PHYS_ADDR
Fatal == -2                 \* the assertion of __pci_bar_get_addr failed

\* kinds: "none", "io", "mem", "mem prefetch", "mem64", "mem64 prefetch"; "high" is the upper half of the BAR before it.
Bar(kind, size) == [kind |-> kind, size |-> size, addr |-> 0]

-----------------------------------------------------------------------------
(* BARs *)

Info(bar) == CASE bar.kind = "io" -> 1 [] bar.kind = "mem" -> 0 [] bar.kind = "mem prefetch" -> 8 [] bar.kind = "mem64" -> 4
               [] bar.kind = "mem64 prefetch" -> 12 [] OTHER -> 0

\* pci_config_readl after a write of ~0: the device keeps the bits above the size.  External.
AllOnes(bar) == (IF bar.kind = "none" THEN 0 ELSE (Word - (bar.size % Word)) % Word) + Info(bar)
AllOnesHigh(bar) == Word - (IF bar.size < Word THEN 1 ELSE bar.size \div Word)

pci_bar_is64(bar) == bar.kind \in {"mem64", "mem64 prefetch"}
pci_bar_is_memory(bar) == bar.kind # "io"
pci_bar_mask(bar) == IF bar.kind = "io" THEN 4 ELSE 16

\* The value read back, without the information bits, negated; with the upper word for a 64-bit BAR.
pci_bar_size(bar) ==
    LET val == AllOnes(bar)
        size == val - (val % pci_bar_mask(bar))
    IN IF val = 0 THEN 0
       ELSE IF pci_bar_is64(bar) THEN (Word * Word - (Word * AllOnesHigh(bar) + size)) % (Word * Word)
       ELSE (Word - size) % Word

\* pci_host_bridge_get_paddr
Paddr(addr) ==
    LET hits == {i \in 1..Len(bridge) : addr >= bridge[i].pci_start /\ addr < bridge[i].pci_start + bridge[i].size}
    IN IF hits = {} THEN Invalid
       ELSE LET i == CHOOSE j \in hits : \A k \in hits : j <= k IN bridge[i].start + (addr - bridge[i].pci_start)

\* __pci_bar_get_addr: the CPU address of what the BAR holds.
__pci_bar_get_addr(bar) == IF Paddr(bar.addr) = Invalid THEN Fatal ELSE Paddr(bar.addr)

\* The resource of every BAR that has a size; both halves of a 64-bit BAR have the same.
pci_dev_init(bars) ==
    [i \in 1..NBars |->
        IF bars[i].kind = "high" THEN __pci_bar_get_addr(bars[i - 1])
        ELSE IF pci_bar_size(bars[i]) = 0 THEN Invalid ELSE __pci_bar_get_addr(bars[i])]

-----------------------------------------------------------------------------
(* pci_probe *)

\* pci_bar_type, without the prefetch bit for 64 bits.
Type(bar) == IF pci_bar_is64(bar) THEN "mem64" ELSE bar.kind

Align(x, size) == ((x + size - 1) \div size) * size

\* of_flags_to_pci_type: the type of a window from the flags of its "ranges" entry, which pci_dt_probe keeps in it.
of_flags_to_pci_type(as) == <<"io", "mem", "mem64">>[as.space] \o (IF as.prefetch THEN " prefetch" ELSE "")

\* pci_alloc_resource takes the first window of the type of the BAR.
Window(bar) == {i \in 1..Len(bridge) : of_flags_to_pci_type(bridge[i]) = Type(bar)}
First(s) == CHOOSE i \in s : \A j \in s : i <= j

\* Mutant: the address is aligned within the window and not on the bus.
PciAddr_Local(w, size) == bridge[w].pci_start + Align(allocated[w], size)

PciAddr(w, size) == Align(bridge[w].pci_start + allocated[w], size)

ProbeDevice ==
    /\ at[1] <= Len(devs) /\ at[2] = 0 /\ ~aborted
    /\ LET r == pci_dev_init(devs[at[1]]) IN
        /\ resource' = r
        /\ aborted' = (\E i \in 1..NBars : r[i] = Fatal)
        /\ at' = IF aborted' THEN at ELSE <<at[1], 1>>
    /\ UNCHANGED <<bridge, allocated, devs, placed, warned, cmd>>

NextBar(b) == IF pci_bar_is64(devs[at[1]][b]) THEN b + 2 ELSE b + 1

\* One round of the loop over the BARs: pci_alloc_resource and pci_bar_set_addr.
ProbeBar ==
    /\ at[1] <= Len(devs) /\ at[2] \in 1..NBars /\ ~aborted
    /\ LET d == at[1]
           b == at[2]
           bar == devs[d][b]
           size == pci_bar_size(bar)
           window == Window(bar)
       IN /\ IF size = 0 THEN UNCHANGED <<allocated, devs, placed, warned, cmd, resource, aborted>>
             ELSE IF window = {} THEN
                /\ warned' = warned \union {<<d, b>>}
                /\ UNCHANGED <<allocated, devs, placed, cmd, resource, aborted>>
             ELSE LET w == First(window)
                      addr == PciAddr(w, size)
                      used == size + addr - (bridge[w].pci_start + allocated[w])
                  IN IF allocated[w] + used > bridge[w].size \/ (~pci_bar_is64(bar) /\ addr >= Word)
                     THEN aborted' = TRUE /\ UNCHANGED <<allocated, devs, placed, warned, cmd, resource>>
                     ELSE /\ allocated' = [allocated EXCEPT ![w] = @ + used]
                          /\ devs' = [devs EXCEPT ![d][b].addr = addr]
                          /\ resource' = [i \in 1..NBars |-> IF i = b \/ (i = b + 1 /\ pci_bar_is64(bar)) THEN addr ELSE resource[i]]
                          /\ placed' = placed \union {<<d, b>>}
                          /\ cmd' = [cmd EXCEPT ![d] = @ \union {IF pci_bar_is_memory(bar) THEN "mem" ELSE "io"}]
                          /\ UNCHANGED <<warned, aborted>>
          /\ at' = IF aborted' THEN at ELSE <<d, NextBar(b)>>
    /\ UNCHANGED bridge

\* The command register is written and the next device looked at.
ProbeNext ==
    /\ at[1] <= Len(devs) /\ at[2] > NBars /\ ~aborted
    /\ at' = <<at[1] + 1, 0>>
    /\ UNCHANGED <<bridge, allocated, devs, placed, warned, cmd, resource, aborted>>

Probed == (at[1] > Len(devs) \/ aborted) /\ UNCHANGED vars

Init ==
    /\ bridge \in Bridges
    /\ devs \in {<<d, e>> : d \in Devices[1], e \in Devices[2]}
    /\ allocated = [i \in 1..Len(bridge) |-> 0]
    /\ at = <<1, 0>> /\ placed = {} /\ warned = {} /\ cmd = [d \in 1..Len(devs) |-> {}]
    /\ resource = [i \in 1..NBars |-> Invalid] /\ aborted = FALSE

Next == ProbeDevice \/ ProbeBar \/ ProbeNext \/ Probed

Spec == Init /\ [][Next]_vars

-----------------------------------------------------------------------------
BarOf(p) == devs[p[1]][p[2]]
Span(p) == BarOf(p).addr..(BarOf(p).addr + BarOf(p).size - 1)
WindowOf(p) == First(Window(BarOf(p)))

(* What pci_probe leaves on the bus.  Every BAR is sized right; one that    *)
(* got an address is aligned to its size, lies in the window of its type    *)
(* and shares no address with another BAR of that window; a BAR without     *)
(* address had no window.  An assertion stops it only when the rest of the  *)
(* window has no aligned room for the BAR, or when a BAR of the device      *)
(* stands outside all windows before it is assigned.                        *)
BarsPlaced ==
    /\ \A d \in 1..Len(devs), b \in 1..NBars : devs[d][b].kind # "high" => pci_bar_size(devs[d][b]) = devs[d][b].size
    /\ \A p \in placed :
        /\ BarOf(p).addr % BarOf(p).size = 0
        /\ Span(p) \subseteq bridge[WindowOf(p)].pci_start..(bridge[WindowOf(p)].pci_start + bridge[WindowOf(p)].size - 1)
        /\ \A q \in placed \ {p} : WindowOf(p) = WindowOf(q) => Span(p) \intersect Span(q) = {}
        /\ Paddr(BarOf(p).addr) # Invalid
    /\ \A p \in placed \union warned : pci_bar_size(BarOf(p)) > 0
    /\ placed \intersect warned = {}
    /\ aborted =>
        IF at[2] = 0 THEN \E b \in 1..NBars : devs[at[1]][b].size > 0 /\ Paddr(devs[at[1]][b].addr) = Invalid
        ELSE LET as == bridge[WindowOf(at)] IN
             ~\E a \in (as.pci_start + allocated[WindowOf(at)])..(as.pci_start + as.size - BarOf(at).size) :
                a % BarOf(at).size = 0 /\ (a < Word \/ pci_bar_is64(BarOf(at)))
    /\ at[1] > Len(devs) =>
        \A d \in 1..Len(devs), b \in 1..NBars :
            devs[d][b].kind \notin {"none", "high"} => <<d, b>> \in placed \union warned

=============================================================================
