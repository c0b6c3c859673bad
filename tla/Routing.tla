------------------------------ MODULE Routing ------------------------------
(***************************************************************************)
(* Requests decided by the decision model: /v1/systemone (systemone.rs),   *)
(* and requests for "auto", routed to a generation model by a decision     *)
(* that has --auto-timeout-ms to be made (route.rs).  A decision runs on a *)
(* thread of its own, which goes on when its request gives up or its       *)
(* client leaves; it writes the audit line, unless its request has.        *)
(*                                                                         *)
(* What the model's thread does with a decision is in Decisions, and what  *)
(* loading does to the generation models in Residents.  Lengths, contexts  *)
(* and probabilities are left out: any candidate may be offered, any of    *)
(* them chosen.  So are the slot's deadline and --decision-model's         *)
(* reservation: the slot may be emptied at any time.                       *)
(***************************************************************************)
EXTENDS Naturals, Sequences

CONSTANTS
  Requests,
  Companions,  (* names of decision models                                 *)
  Candidates,  (* the models named by --auto-model                         *)
  Fallback,    (* the one that answers when nothing was decided            *)
  NoName, NoOne

ASSUME RoutingAssumption ==
  Fallback \in Candidates /\ NoName \notin Companions \cup Candidates

Kinds == {"systemone", "route", "dry run"}
Route(model, reason) == [model |-> model, reason |-> reason]
NoRoute == Route(NoName, "none")
Refused == Route(NoName, "refused")

VARIABLES
  slot,      (* AppState::decision: the model it holds                     *)
  swap_lock, (* who holds it                                               *)
  at,        (* what each request's handler is about to do                 *)
  kind,      (* what it asks for                                           *)
  model,     (* the decision model it names, or found in the slot          *)
  route,     (* what it has been routed to, and why                        *)
  told,      (* what it was answered                                       *)
  job,       (* what its decision's thread is about to do                  *)
  best,      (* what the decision chose                                    *)
  writer,    (* who writes the route's audit line                          *)
  log        (* the lines handed to AuditLogger::log for it, which writes  *)
             (* each to the file, or warns that it could not               *)

companion == <<slot, swap_lock>>
handler   == <<at, kind, model, route, told>>
thread    == <<job, best, writer, log>>
vars      == <<companion, handler, thread>>

Goes(r, where) == at' = [at EXCEPT ![r] = where]
Answer(r, what) == told' = [told EXCEPT ![r] = what] /\ Goes(r, "answered")
(* A line is handed over; that writing it may fail is not seen from here.  *)
Log(r, line) == log' = [log EXCEPT ![r] = Append(@, line)]
-----------------------------------------------------------------------------
(* The decision model. *)

Arrive(r) ==
  /\ at[r] = "new"
  /\ kind' \in {[kind EXCEPT ![r] = k] : k \in Kinds}
  /\ \E name \in Companions \cup {NoName} :
       /\ kind'[r] # "systemone" => name = NoName
       /\ model' = [model EXCEPT ![r] = name]
       /\ Goes(r, IF kind'[r] # "systemone" THEN "filter"
                  ELSE IF name = NoName THEN "find" ELSE "ensure")
  /\ UNCHANGED <<companion, route, told, thread>>

(* A request that names no model takes what the slot holds.                *)
FindLoaded(r) ==
  /\ at[r] = "find"
  /\ IF slot = NoName
       THEN Answer(r, Refused) /\ UNCHANGED model
       ELSE /\ model' = [model EXCEPT ![r] = slot]
            /\ Goes(r, "touch") /\ UNCHANGED told
  /\ UNCHANGED <<companion, kind, route, thread>>

(* ensure_decision_model, under swap_lock: the model is there, or it is    *)
(* not found, or the slot is emptied for it to be loaded.                  *)
EnsureModel(r) ==
  /\ at[r] = "ensure" /\ swap_lock = NoOne
  /\ \/ slot = model[r] /\ Goes(r, "touch") /\ UNCHANGED <<companion, told>>
     \/ slot # model[r] /\ Answer(r, Refused) /\ UNCHANGED companion
     \/ /\ slot # model[r]
        /\ slot' = NoName /\ swap_lock' = r
        /\ Goes(r, "load") /\ UNCHANGED told
  /\ UNCHANGED <<kind, model, route, thread>>

LoadEnds(r) ==
  /\ at[r] = "load"
  /\ swap_lock' = NoOne
  /\ \/ slot' = model[r] /\ Goes(r, "touch") /\ UNCHANGED told
     \/ Answer(r, Refused) /\ UNCHANGED slot
  /\ UNCHANGED <<kind, model, route, thread>>

(* touch_decision_slot; the decision's thread is started, and waited for.  *)
Touch(r) ==
  /\ at[r] = "touch"
  /\ slot' \in (IF kind[r] = "systemone" THEN {slot, NoName} ELSE {slot})
  /\ job' = [job EXCEPT ![r] = "decide"]
  /\ Goes(r, "wait")
  /\ UNCHANGED <<swap_lock, kind, model, route, told, best, writer, log>>

(* The idle-unload loop, or a generation model's load, empties the slot.   *)
Unload ==
  /\ slot # NoName
  /\ slot' = NoName
  /\ UNCHANGED <<swap_lock, handler, thread>>
-----------------------------------------------------------------------------
(* decide_route: a route nothing was asked for is the handler's to write.  *)

Undecided(r, candidate, reason) ==
  /\ route' = [route EXCEPT ![r] = Route(candidate, reason)]
  /\ Log(r, Route(candidate, reason))
  /\ Goes(r, "generate")

Filter(r) ==
  /\ at[r] = "filter"
  /\ \/ Undecided(r, Fallback, "no_eligible_candidate") /\ UNCHANGED model
     \/ \E c \in Candidates : Undecided(r, c, "only_candidate") /\ UNCHANGED model
     \/ slot = NoName /\ Undecided(r, Fallback, "no_decision_model") /\ UNCHANGED model
     \/ /\ slot # NoName
        /\ model' = [model EXCEPT ![r] = slot]
        /\ Goes(r, "touch") /\ UNCHANGED <<route, log>>
  /\ UNCHANGED <<companion, kind, told, job, best, writer>>
-----------------------------------------------------------------------------
(* The decision's thread. *)

(* decide: an outcome, or an error: cancelled, refused or a panic.         *)
Decide(r) ==
  /\ job[r] = "decide"
  /\ \/ job' = [job EXCEPT ![r] = "failed"] /\ UNCHANGED best
     \/ /\ kind[r] = "systemone"
        /\ job' = [job EXCEPT ![r] = "record"]
        /\ best' = [best EXCEPT ![r] = model[r]]
     \/ /\ kind[r] # "systemone"
        /\ job' = [job EXCEPT ![r] = "claim"]
        /\ \E c \in Candidates : best' = [best EXCEPT ![r] = c]
  /\ UNCHANGED <<companion, handler, writer, log>>

(* Slip: the line is written whoever else has written one.                 *)
ClaimAnyway(r) ==
  /\ job[r] = "claim"
  /\ writer' = [writer EXCEPT ![r] = "decided"]
  /\ job' = [job EXCEPT ![r] = "record"]
  /\ UNCHANGED <<companion, handler, best, log>>

(* A routing decision writes its line only if its request still waits.     *)
Claim(r) ==
  /\ job[r] = "claim"
  /\ IF writer[r] = "pending"
       THEN /\ writer' = [writer EXCEPT ![r] = "decided"]
            /\ job' = [job EXCEPT ![r] = "record"]
       ELSE job' = [job EXCEPT ![r] = "done"] /\ UNCHANGED writer
  /\ UNCHANGED <<companion, handler, best, log>>

(* Slip: nothing is written for a client that has left.                    *)
RecordIfThere(r) ==
  /\ job[r] = "record"
  /\ IF at[r] = "gone" THEN UNCHANGED log ELSE Log(r, Route(best[r], "decided"))
  /\ job' = [job EXCEPT ![r] = "done"]
  /\ UNCHANGED <<companion, handler, best, writer>>

(* Its line, whether or not its client is still there.                     *)
Record(r) ==
  /\ job[r] = "record"
  /\ Log(r, Route(best[r], "decided"))
  /\ job' = [job EXCEPT ![r] = "done"]
  /\ UNCHANGED <<companion, handler, best, writer>>
-----------------------------------------------------------------------------
(* The handler, again. *)

(* Slip: a request whose time is over waits for the answer all the same.   *)
TimeoutWaiting(r) ==
  /\ at[r] = "wait" /\ kind[r] # "systemone"
  /\ Goes(r, "late")
  /\ UNCHANGED <<companion, kind, model, route, told, thread>>

(* --auto-timeout-ms is over: the fallback answers, unless the decision is *)
(* made and on its way to the record, which is then waited for.            *)
Timeout(r) ==
  /\ at[r] = "wait" /\ kind[r] # "systemone"
  /\ IF writer[r] = "pending"
       THEN /\ writer' = [writer EXCEPT ![r] = "timed_out"]
            /\ Undecided(r, Fallback, "timeout")
       ELSE Goes(r, "late") /\ UNCHANGED <<writer, route, log>>
  /\ UNCHANGED <<companion, kind, model, told, job, best>>

(* The thread's result reaches its request.                                *)
Outcome(r) ==
  /\ at[r] \in {"wait", "late"}
  /\ \/ /\ kind[r] = "systemone" /\ job[r] \in {"done", "failed"}
        /\ Answer(r, IF job[r] = "done" THEN Route(best[r], "decided") ELSE Refused)
        /\ UNCHANGED <<route, log>>
     \/ /\ kind[r] # "systemone" /\ job[r] = "done"
        /\ route' = [route EXCEPT ![r] = Route(best[r], "decided")]
        /\ Goes(r, "generate") /\ UNCHANGED <<told, log>>
     \/ /\ kind[r] # "systemone" /\ job[r] = "failed"
        /\ Undecided(r, Fallback, "decision_error") /\ UNCHANGED told
  /\ UNCHANGED <<companion, kind, model, job, best, writer>>

(* route_auto: the model routed to is loaded, or the fallback in its       *)
(* place; /api/route only says which.                                      *)
Generate(r) ==
  /\ at[r] = "generate"
  /\ \/ Answer(r, route[r])
     \/ kind[r] = "route" /\ Answer(r, Refused)
     \/ /\ kind[r] = "route" /\ route[r].model # Fallback
        /\ Answer(r, Route(Fallback, "load_failed"))
  /\ UNCHANGED <<companion, kind, model, route, thread>>

(* Its client leaves, at any await: the handler is dropped, and swap_lock  *)
(* with it, and its decision is told to stop, which it may do too late.    *)
Leave(r) ==
  /\ at[r] \notin {"new", "answered", "gone"}
  /\ Goes(r, "gone")
  /\ swap_lock' = IF swap_lock = r THEN NoOne ELSE swap_lock
  /\ UNCHANGED <<slot, kind, model, route, told, thread>>
-----------------------------------------------------------------------------
Init ==
  /\ slot \in Companions \cup {NoName} /\ swap_lock = NoOne
  /\ at = [r \in Requests |-> "new"]
  /\ kind = [r \in Requests |-> "systemone"] /\ model = [r \in Requests |-> NoName]
  /\ route = [r \in Requests |-> NoRoute] /\ told = [r \in Requests |-> NoRoute]
  /\ job = [r \in Requests |-> "none"] /\ best = [r \in Requests |-> NoName]
  /\ writer = [r \in Requests |-> "pending"]
  /\ log = [r \in Requests |-> <<>>]

Handler(r) ==
  \/ FindLoaded(r) \/ EnsureModel(r) \/ LoadEnds(r) \/ Touch(r)
  \/ Filter(r) \/ Outcome(r) \/ Generate(r)

Next ==
  \/ \E r \in Requests :
       \/ Arrive(r) \/ Handler(r) \/ Timeout(r) \/ Leave(r)
       \/ Decide(r) \/ Claim(r) \/ Record(r)
  \/ Unload

(* Handlers run on, time passes, swap_lock is fair, and a decision that    *)
(* was made is recorded.  One asked for by itself comes to an end; one     *)
(* that routes may take for ever.                                          *)
Fairness ==
  \A r \in Requests :
    /\ WF_vars(Handler(r)) /\ SF_vars(EnsureModel(r)) /\ WF_vars(Timeout(r))
    /\ WF_vars(Claim(r) \/ Record(r))
    /\ WF_vars(kind[r] = "systemone" /\ Decide(r))

Spec == Init /\ [][Next]_vars /\ Fairness
-----------------------------------------------------------------------------
(* Properties. *)

(* Every variable holds what the code can put in it.                       *)
TypeOK ==
  /\ slot \in Companions \cup {NoName} /\ swap_lock \in Requests \cup {NoOne}
  /\ kind \in [Requests -> Kinds]
  /\ job \in [Requests -> {"none", "decide", "claim", "record", "done", "failed"}]
  /\ writer \in [Requests -> {"pending", "decided", "timed_out"}]

(* For whoever is answered one line is handed over, and it says what the   *)
(* answer says, also when the time ran out as the decision was made; an    *)
(* answer of the fallback for a model that did not load says so instead.   *)
AnswerOnRecord ==
  \A r \in Requests :
    /\ Len(log[r]) <= 1
    /\ told[r] \notin {NoRoute, Refused} =>
         \/ log[r] = <<told[r]>>
         \/ told[r].reason = "load_failed" /\ log[r] = <<route[r]>>

(* "Every decision that is computed is now recorded, its client still      *)
(* there or not" (systemone.rs l.1674), or, when it came too late for its  *)
(* route, the route is, as timed out: its line is handed over, once.       *)
DecidedOnRecord ==
  \A r \in Requests : job[r] = "done" => Len(log[r]) = 1

(* Under fairness: a request is answered or its client leaves, also when   *)
(* the decision it waits for as a route never comes.                       *)
EveryRequestEnds ==
  \A r \in Requests : (at[r] # "new") ~> (at[r] \in {"answered", "gone"})
=============================================================================
