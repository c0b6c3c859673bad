------------------------------ MODULE Service ------------------------------
(***************************************************************************)
(* What the scheduler promises the request handlers, without slots,        *)
(* prompts or decode steps: a bounded queue served in the order of its     *)
(* arrivals, no more than Capacity requests at a time; each request is     *)
(* taken once, and what is taken is let go of once.                        *)
(* Module Scheduler implements it (Scheduler!Promise).                     *)
(***************************************************************************)
EXTENDS Naturals, Sequences, FiniteSets

CONSTANTS Requests, QueueCapacity, Capacity

VARIABLES
  accepted,  (* requests the queue ever took                               *)
  waiting,   (* those in the queue                                         *)
  serving    (* those being answered, their prompt being read included     *)

vars == <<accepted, waiting, serving>>

Accept(r) ==
  /\ r \notin accepted /\ Len(waiting) < QueueCapacity
  /\ accepted' = accepted \cup {r}
  /\ waiting' = Append(waiting, r)
  /\ UNCHANGED serving

(* The oldest request is taken: it is served, or refused at once.          *)
TakeHead ==
  /\ waiting # <<>>
  /\ waiting' = Tail(waiting)
  /\ \/ /\ Cardinality(serving) < Capacity
        /\ serving' = serving \cup {Head(waiting)}
     \/ UNCHANGED serving
  /\ UNCHANGED accepted

(* The answers of `S` end, several at once when a decode step fails them.  *)
End(S) ==
  /\ S # {} /\ S \subseteq serving
  /\ serving' = serving \ S
  /\ UNCHANGED <<accepted, waiting>>

Init == accepted = {} /\ waiting = <<>> /\ serving = {}

Next ==
  \/ \E r \in Requests : Accept(r)
  \/ TakeHead
  \/ \E S \in SUBSET Requests : End(S)

Spec == Init /\ [][Next]_vars

(* A waiting request is taken as soon and as long as there is room, and    *)
(* every answer comes to an end.                                           *)
Fairness ==
  /\ WF_vars(Cardinality(serving) < Capacity /\ TakeHead)
  /\ \A r \in Requests : WF_vars(\E S \in SUBSET Requests : r \in S /\ End(S))

FairSpec == Spec /\ Fairness
=============================================================================
