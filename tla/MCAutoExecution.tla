-------------------------- MODULE MCAutoExecution --------------------------
(* Small instances of AutoExecution.  Requests and verifications are        *)
(* interchangeable; accounts and commands are ordered.                      *)
EXTENDS AutoExecution, TLC

CONSTANTS c1, b1

(* Batches are interchangeable too: the one that call c1 sends is b1.       *)
FirstBatch == call[c1].request # None => call[c1].request.batch = b1

Symmetry == Permutations(Calls) \cup Permutations(Verifications)
=============================================================================
