------------------------------- MODULE MCClock -------------------------------
(***************************************************************************)
(* Instances of PvClock and HvClock for TLC.  kvmclock_test reads the wall *)
(* clock before its loops start, and hyperv_clock is a program of its own, *)
(* so a behaviour runs one of the three.                                   *)
(***************************************************************************)
EXTENDS PvClock, HvClock, TLC

VARIABLE part

\* The part that runs starts in any of its initial states, the others in one
\* of theirs, where they stay.
ClockInit ==
    /\ part \in {"cycles", "wall", "tsc page"}
    /\ Init /\ (part # "cycles" => stable)
    /\ WallInit /\ (part # "wall" => base = 1)
    /\ HvInit

ClockNext ==
    \/ part = "cycles" /\ Next /\ UNCHANGED <<part, wallVars, hvVars>>
    \/ part = "wall" /\ WallNext /\ UNCHANGED <<part, vars, hvVars>>
    \/ part = "tsc page" /\ HvNext /\ UNCHANGED <<part, vars, wallVars>>

ClockSpec == ClockInit /\ [][ClockNext]_<<part, vars, wallVars, hvVars>>

Symmetry == Permutations(CPU)
=============================================================================
