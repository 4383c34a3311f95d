------------------------------ MODULE MCTraining ------------------------------
(***************************************************************************)
(* Two GPUs, two updates of two minibatches, and one thing that breaks.    *)
(***************************************************************************)
EXTENDS Training

\* With NCCL and one channel for an actor's environments, or with neither.
BothModes == {[nccl |-> b, shared |-> b] : b \in BOOLEAN}
FirstMinibatch == {1}
===============================================================================
