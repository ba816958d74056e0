---------------------------- MODULE Checkpoints ----------------------------
(***************************************************************************)
(* What the two checkpoint stores of checkpoint_worker are asked about.    *)
(*                                                                         *)
(* Abstractions.  A value is everything a record holds: parent, checkpoint *)
(* and metadata blobs.  A task is a (task_id, task_path) pair.             *)
(***************************************************************************)
EXTENDS Naturals, Sequences, SequencesExt

CONSTANTS Thread, Ns, DefaultNs, Cid, Task, Val,
          None       \* an absent field, an absent record

ASSUME NsAssumption == DefaultNs \in Ns
ASSUME NoneAssumption == None \notin Ns /\ None \notin Cid /\ None \notin Val /\ None \notin Nat

\* thread, checkpoint_ns
Key == Thread \X Ns
=============================================================================
