---------------------------- MODULE MCHfArtifact ----------------------------
(***************************************************************************)
(* Instances of HfArtifact for TLC.                                        *)
(***************************************************************************)
EXTENDS HfArtifact, TLC

\* Faults by the number of processes: one if there is one process, none if there
\* are two; at most one; at most two.
OneFaultAlone == <<1, 0>>
OneFault == <<1>>
TwoFaults == <<2>>

Symmetry == Permutations(Models) \cup Permutations(Workers) \cup Permutations(Agents)

\* The bound of hf_safe: after a fault one task runs at a time. A crash may still
\* hit two of them, since both are gone after it.
AloneAfterFault ==
  faults > 0 => \A v, w \in Workers : pc[v] # "idle" /\ pc[w] # "idle" => v = w

\* There is always a lock ID to take: Locks does not bound the behaviours.
LocksSuffice == FreshLocks # {}
=============================================================================
