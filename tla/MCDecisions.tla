----------------------------- MODULE MCDecisions -----------------------------
(* An instance of Decisions for TLC: three requests about two states.           *)
EXTENDS Decisions, TLC

CONSTANTS r1, r2, r3, A, B

Asked(mode, state, asks, prior) ==
  [mode |-> mode, state |-> state, asks |-> asks, prior |-> prior, cells |-> Cardinality(asks)]

Workload(x, y, z) == r1 :> x @@ r2 :> y @@ r3 :> z

MCWorkloads ==
  { (* One state asked about twice, priors between, and a batched request.  *)
    Workload(Asked("shared", A, {1, 2}, TRUE), Asked("shared", A, {1}, FALSE),
             Asked("batched", B, {1, 2}, FALSE)),
    (* Three batched, of which the first two do not fit together.           *)
    Workload(Asked("batched", A, {1, 2}, FALSE), Asked("batched", B, {1, 3}, FALSE),
             Asked("batched", A, {1}, FALSE)),
    (* Three batched, of which any two fit together.                        *)
    Workload(Asked("batched", A, {1}, FALSE), Asked("batched", B, {1}, FALSE),
             Asked("batched", A, {2}, FALSE)),
    (* One of each mode, one of them a single question.                     *)
    Workload(Asked("separate", A, {1, 2}, FALSE), Asked("batched", A, {1, 2, 3}, FALSE),
             Asked("shared", B, {2}, FALSE)),
    (* Priors of which the second does not fit beside the first, and the    *)
    (* third was known until then.                                          *)
    Workload(Asked("shared", A, {1}, TRUE), Asked("shared", A, {2}, TRUE),
             Asked("shared", B, {1}, TRUE)) }
=============================================================================
