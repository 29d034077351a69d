------------------------------- MODULE MCTL2 --------------------------------
(* Instances of TL2 for TLC. *)
EXTENDS TL2, TLC

CONSTANTS t1, t2, x, y, v1, v2

MCLockPerWord == [a \in Addrs |-> a]

\* x is everybody's; only t1 stores to y.
MCOneWriter == (t1 :> {x, y}) @@ (t2 :> {x})

\* Everybody may store to every word.
MCEverybody == [t \in Threads |-> Addrs]

\* t1 only writes; t2 reads, and stores to what it has or has not read.
MCReads == (t1 :> 0) @@ (t2 :> 2)
MCNoReads == [t \in Threads |-> 0]

\* A bound: t1, which never reads, begins nothing that it could not commit.
MCNext == /\ TL2Next
          /\ pc[t1] = "idle" /\ GClock = MaxClock => pc'[t1] = "idle"

MCSpec == TL2Init /\ [][MCNext]_tl2Vars

Symmetry == Permutations(Vals)
=============================================================================
