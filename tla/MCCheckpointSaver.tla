------------------------- MODULE MCCheckpointSaver -------------------------
(* The tasks of a checkpoint write the same. *)
EXTENDS CheckpointSaver

CONSTANT Write

MCTaskWrites == [t \in Task |-> Write]
MCVal == {Blob, Write}
=============================================================================
