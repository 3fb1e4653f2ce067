---------------------------- MODULE MCLifecycle -----------------------------
(* Instances of Lifecycle for TLC.                                         *)
EXTENDS Lifecycle

\* A traced process, the kernel, and a negative pid, each with flags left at
\* zero and given.
MCFlags == [pid : {-1, 0, 7}, minSize : {0, 2}, maxSize : {0, 9}, sampleRate : {0}]

=============================================================================
