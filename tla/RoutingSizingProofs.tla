------------------------ MODULE RoutingSizingProofs ------------------------
(***************************************************************************)
(* Two parts that know nothing of each other.  Routing: what the audit log *)
(* says of decided and routed requests, for every number of requests,      *)
(* decision models and candidates.  Sizing: that what is planned for a     *)
(* load fits when it is loaded, for every model, card and flag.            *)
(*                                                                         *)
(* The second rests on what each sum of the planner comes to: the share of *)
(* layers ComputeFit takes, the split of the experts, a cache beside them, *)
(* each fits the room it is given (CacheFitsRoom, SplitFitsRoom,           *)
(* DenseFitsRoom); so what a plan takes fits the room it was made for      *)
(* (TakenFits), and the load, which counts otherwise, finds the reserve    *)
(* free (PlannedFits).  SizingInv carries that from step to step.          *)
(***************************************************************************)
EXTENDS Routing, Sizing, SequenceTheorems, WellFoundedInduction, TLAPS

-----------------------------------------------------------------------------
(* Routing: types. *)

Names  == Companions \cup Candidates \cup {NoName}
Reasons == {"none", "refused", "no_eligible_candidate", "only_candidate", "no_decision_model",
            "timeout", "decided", "decision_error", "load_failed"}
Routes == [model : Names, reason : Reasons]

(* What a request does before anything is decided, and after.              *)
Before == {"new", "find", "ensure", "load", "touch", "filter"}
After  == {"wait", "late", "generate", "answered", "gone"}

(* TypeOK, and the types it leaves out.                                    *)
Typed ==
  /\ TypeOK
  /\ at \in [Requests -> Before \cup After]
  /\ model \in [Requests -> Companions \cup {NoName}] /\ best \in [Requests -> Names]
  /\ route \in [Requests -> Routes] /\ told \in [Requests -> Routes]
  /\ log \in [Requests -> Seq(Routes)]

LEMMA RouteTyped ==
  ASSUME NEW name \in Names, NEW reason \in Reasons PROVE Route(name, reason) \in Routes
BY DEF Route, Routes

LEMMA InitTyped == Init => Typed
<1>1. NoName \in Names /\ NoRoute \in Routes  BY RouteTyped DEF NoRoute, Names, Reasons
<1>2. <<>> \in Seq(Routes)  OBVIOUS
<1>3. QED BY <1>1, <1>2 DEF Init, Typed, TypeOK, Before, After, Kinds

(* A handler that decides without asking writes one line and goes on.      *)
LEMMA UndecidedTyped ==
  ASSUME Typed, NEW r \in Requests, NEW c \in Candidates, NEW reason \in Reasons,
         Undecided(r, c, reason)
  PROVE  /\ route' \in [Requests -> Routes] /\ log' \in [Requests -> Seq(Routes)]
         /\ at' \in [Requests -> Before \cup After]
<1>1. Route(c, reason) \in Routes  BY RouteTyped DEF Names
<1>2. Append(log[r], Route(c, reason)) \in Seq(Routes)
  <2>1. log[r] \in Seq(Routes)  BY DEF Typed
  <2>2. QED BY <1>1, <2>1, AppendProperties
<1>3. QED BY <1>1, <1>2 DEF Undecided, Log, Goes, Typed, Before, After

LEMMA AnswerTyped ==
  ASSUME Typed, NEW r \in Requests, NEW what \in Routes, Answer(r, what)
  PROVE  told' \in [Requests -> Routes] /\ at' \in [Requests -> Before \cup After]
BY DEF Answer, Goes, Typed, Before, After

LEMMA GoesTyped ==
  ASSUME Typed, NEW r \in Requests, NEW where \in Before \cup After, Goes(r, where)
  PROVE  at' \in [Requests -> Before \cup After]
BY DEF Goes, Typed

LEMMA StepTyped == Typed /\ [Next]_vars => Typed'
<1> SUFFICES ASSUME Typed, [Next]_vars PROVE Typed'  OBVIOUS
<1> USE DEF companion, handler, thread
<1>t. /\ slot \in Companions \cup {NoName} /\ swap_lock \in Requests \cup {NoOne}
      /\ kind \in [Requests -> Kinds]
      /\ job \in [Requests -> {"none", "decide", "claim", "record", "done", "failed"}]
      /\ writer \in [Requests -> {"pending", "decided", "timed_out"}]
      /\ at \in [Requests -> Before \cup After]
      /\ model \in [Requests -> Companions \cup {NoName}] /\ best \in [Requests -> Names]
      /\ route \in [Requests -> Routes] /\ told \in [Requests -> Routes]
      /\ log \in [Requests -> Seq(Routes)]
  BY DEF Typed, TypeOK
<1>n. Fallback \in Candidates /\ Companions \subseteq Names /\ Candidates \subseteq Names
      /\ NoName \in Names
  BY RoutingAssumption DEF Names
<1>r. /\ Refused \in Routes /\ \A n \in Names : Route(n, "decided") \in Routes
      /\ Route(Fallback, "load_failed") \in Routes
  BY <1>n, RouteTyped DEF Refused, Reasons
<1> USE <1>t, <1>n DEF Before, After
<1>0. CASE UNCHANGED vars  BY <1>0 DEF vars, Typed, TypeOK
<1>1. ASSUME NEW r \in Requests, Arrive(r) PROVE Typed'
  <2>0. PICK k \in Kinds : kind' = [kind EXCEPT ![r] = k]  BY <1>1 DEF Arrive
  <2>1. PICK name \in Companions \cup {NoName} :
           /\ model' = [model EXCEPT ![r] = name]
           /\ Goes(r, IF kind'[r] # "systemone" THEN "filter"
                      ELSE IF name = NoName THEN "find" ELSE "ensure")
    BY <1>1 DEF Arrive
  <2>2. kind' \in [Requests -> Kinds] /\ model' \in [Requests -> Companions \cup {NoName}]  BY <2>0, <2>1
  <2>3. at' \in [Requests -> Before \cup After]  BY <2>1 DEF Goes
  <2>4. QED BY <1>1, <2>2, <2>3 DEF Arrive, Typed, TypeOK
<1>2. ASSUME NEW r \in Requests, FindLoaded(r) PROVE Typed'
  BY <1>2, <1>r DEF FindLoaded, Answer, Goes, Typed, TypeOK
<1>3. ASSUME NEW r \in Requests, EnsureModel(r) PROVE Typed'
  <2>1. told' \in [Requests -> Routes] /\ at' \in [Requests -> Before \cup After]
    <3>1. Answer(r, Refused) \/ ((Goes(r, "touch") \/ Goes(r, "load")) /\ UNCHANGED told)
      BY <1>3 DEF EnsureModel
    <3>2. CASE Answer(r, Refused)  BY <1>3, <1>r, <3>2, AnswerTyped
    <3>3. CASE (Goes(r, "touch") \/ Goes(r, "load")) /\ UNCHANGED told  BY <1>3, <3>3, GoesTyped
    <3>4. QED BY <3>1, <3>2, <3>3
  <2>2. slot' \in Companions \cup {NoName} /\ swap_lock' \in Requests \cup {NoOne}
    BY <1>3 DEF EnsureModel
  <2>3. QED BY <1>3, <2>1, <2>2 DEF EnsureModel, Typed, TypeOK
<1>4. ASSUME NEW r \in Requests, LoadEnds(r) PROVE Typed'
  <2>1. told' \in [Requests -> Routes] /\ at' \in [Requests -> Before \cup After]
    <3>1. Answer(r, Refused) \/ (Goes(r, "touch") /\ UNCHANGED told)  BY <1>4 DEF LoadEnds
    <3>2. CASE Answer(r, Refused)  BY <1>4, <1>r, <3>2, AnswerTyped
    <3>3. CASE Goes(r, "touch") /\ UNCHANGED told  BY <1>4, <3>3, GoesTyped
    <3>4. QED BY <3>1, <3>2, <3>3
  <2>2. slot' \in {slot, model[r]} /\ swap_lock' = NoOne /\ UNCHANGED <<kind, model, route, thread>>
    BY <1>4 DEF LoadEnds
  <2>3. slot' \in Companions \cup {NoName}  BY <1>4, <2>2
  <2>4. QED BY <2>1, <2>2, <2>3 DEF Typed, TypeOK
<1>5. ASSUME NEW r \in Requests, Touch(r) PROVE Typed'
  BY <1>5 DEF Touch, Goes, Typed, TypeOK
<1>6. ASSUME NEW r \in Requests, Filter(r) PROVE Typed'
  <2>1. CASE \E c \in Candidates, reason \in Reasons : Undecided(r, c, reason) /\ UNCHANGED model
    BY <1>6, <2>1, UndecidedTyped DEF Filter, Typed, TypeOK
  <2>2. CASE model' = [model EXCEPT ![r] = slot] /\ Goes(r, "touch") /\ UNCHANGED <<route, log>>
    BY <1>6, <2>2 DEF Filter, Goes, Typed, TypeOK
  <2>3. {"no_eligible_candidate", "only_candidate", "no_decision_model"} \subseteq Reasons
    BY DEF Reasons
  <2>4. QED BY <1>6, <2>1, <2>2, <2>3 DEF Filter
<1>7. ASSUME NEW r \in Requests, Decide(r) PROVE Typed'
  <2>1. UNCHANGED <<companion, handler, writer, log>>  BY <1>7 DEF Decide
  <2>2. PICK to \in {"failed", "record", "claim"} : job' = [job EXCEPT ![r] = to]  BY <1>7 DEF Decide
  <2>3. PICK name \in {best[r], model[r]} \cup Candidates : best' = [best EXCEPT ![r] = name]
    BY <1>7 DEF Decide
  <2>4. name \in Names  BY <1>7, <2>3 DEF Names
  <2>5. QED BY <2>1, <2>2, <2>3, <2>4 DEF Typed, TypeOK
<1>8. ASSUME NEW r \in Requests, Claim(r) PROVE Typed'
  BY <1>8 DEF Claim, Typed, TypeOK
<1>9. ASSUME NEW r \in Requests, Record(r) PROVE Typed'
  <2>1. Append(log[r], Route(best[r], "decided")) \in Seq(Routes)  BY <1>r
  <2>2. QED BY <1>9, <2>1 DEF Record, Log, Typed, TypeOK
<1>10. ASSUME NEW r \in Requests, Timeout(r) PROVE Typed'
  <2>1. CASE Undecided(r, Fallback, "timeout")
    <3>1. "timeout" \in Reasons  BY DEF Reasons
    <3>2. QED BY <1>10, <2>1, <3>1, UndecidedTyped DEF Timeout, Typed, TypeOK
  <2>2. CASE Goes(r, "late") /\ UNCHANGED <<writer, route, log>>
    BY <1>10, <2>2 DEF Timeout, Goes, Typed, TypeOK
  <2>3. QED BY <1>10, <2>1, <2>2 DEF Timeout
<1>11. ASSUME NEW r \in Requests, Outcome(r) PROVE Typed'
  <2>1. CASE Undecided(r, Fallback, "decision_error")
    <3>1. "decision_error" \in Reasons  BY DEF Reasons
    <3>2. at' \in [Requests -> Before \cup After] /\ route' \in [Requests -> Routes]
          /\ log' \in [Requests -> Seq(Routes)]
      BY <2>1, <3>1, UndecidedTyped
    <3>3. UNCHANGED <<told, companion, kind, model, job, best, writer>>
      BY <1>11, <2>1 DEF Outcome, Undecided, Answer, Goes
    <3>4. QED BY <3>2, <3>3 DEF Typed, TypeOK
  <2>2. CASE \E what \in {Refused, Route(best[r], "decided")} : Answer(r, what) /\ UNCHANGED <<route, log>>
    BY <1>11, <1>r, <2>2, AnswerTyped DEF Outcome, Typed, TypeOK
  <2>3. CASE route' = [route EXCEPT ![r] = Route(best[r], "decided")]
             /\ Goes(r, "generate") /\ UNCHANGED <<told, log>>
    BY <1>11, <1>r, <2>3, GoesTyped DEF Outcome, Typed, TypeOK
  <2>4. QED BY <1>11, <2>1, <2>2, <2>3 DEF Outcome
<1>12. ASSUME NEW r \in Requests, Generate(r) PROVE Typed'
  <2>1. PICK what \in {route[r], Refused, Route(Fallback, "load_failed")} : Answer(r, what)
    BY <1>12 DEF Generate
  <2>2. told' \in [Requests -> Routes] /\ at' \in [Requests -> Before \cup After]
    BY <1>r, <2>1, AnswerTyped
  <2>3. QED BY <1>12, <2>2 DEF Generate, Typed, TypeOK
<1>13. ASSUME NEW r \in Requests, Leave(r) PROVE Typed'
  BY <1>13 DEF Leave, Goes, Typed, TypeOK
<1>14. CASE Unload  BY <1>14 DEF Unload, Typed, TypeOK
<1>15. QED
  BY <1>0, <1>1, <1>2, <1>3, <1>4, <1>5, <1>6, <1>7, <1>8, <1>9, <1>10, <1>11, <1>12,
     <1>13, <1>14 DEF Next, Handler

(* Every variable holds what the code can put in it.                       *)
THEOREM RoutingTypeCorrect == Spec => []TypeOK
<1>1. Spec => []Typed  BY InitTyped, StepTyped, PTL DEF Spec
<1>2. Typed => TypeOK  BY DEF Typed
<1>3. QED BY <1>1, <1>2, PTL

-----------------------------------------------------------------------------
(* The audit line.  A request that asked for a decision gets its line from *)
(* the decision's thread; one that is routed from whoever took `writer`,   *)
(* or from its handler when there was nothing left to wait for.            *)

Decided(r) == <<Route(best[r], "decided")>>

DecisionOK(r) ==
  /\ at[r] \notin {"late", "generate", "filter"}
  /\ writer[r] = "pending" /\ job[r] # "claim"
  /\ log[r] = IF job[r] = "done" THEN Decided(r) ELSE <<>>
  /\ told[r] \in {NoRoute, Refused} \/ (job[r] = "done" /\ log[r] = <<told[r]>>)

RouteOK(r) ==
  /\ at[r] \notin {"find", "ensure", "load"}
  /\ writer[r] = "pending" =>
       /\ job[r] \in {"none", "decide", "claim", "failed"} /\ at[r] # "late"
       /\ \/ log[r] = <<>>
          \/ /\ log[r] = <<route[r]>> /\ job[r] \in {"none", "failed"}
             /\ at[r] \in {"generate", "answered", "gone"}
  /\ writer[r] = "decided" =>
       /\ job[r] \in {"record", "done"}
       /\ log[r] = IF job[r] = "done" THEN Decided(r) ELSE <<>>
  /\ writer[r] = "timed_out" =>
       /\ job[r] \in {"decide", "claim", "failed", "done"}
       /\ at[r] \notin {"wait", "late"}
       /\ Len(log[r]) = 1
  /\ at[r] \in {"generate", "answered"} =>
       /\ log[r] = <<route[r]>>
       /\ writer[r] = "decided" => job[r] = "done"
  /\ \/ told[r] \in {NoRoute, Refused, route[r]}
     \/ told[r].reason = "load_failed"

RecordOK(r) ==
  /\ at[r] \in Before => job[r] = "none" /\ writer[r] = "pending" /\ log[r] = <<>>
  /\ at[r] \in {"wait", "late"} => job[r] # "none"
  /\ at[r] # "answered" => told[r] = NoRoute
  /\ IF kind[r] = "systemone" THEN DecisionOK(r) ELSE RouteOK(r)

RecordInv == Typed /\ \A r \in Requests : RecordOK(r)

LEMMA InitRecord == Init => RecordInv
<1> SUFFICES ASSUME Init PROVE RecordInv  OBVIOUS
<1>1. Typed  BY InitTyped
<1>2. \A r \in Requests : RecordOK(r)  BY DEF Init, RecordOK, DecisionOK, Before
<1>3. QED BY <1>1, <1>2 DEF RecordInv

(* What another request does leaves a request's record alone.              *)
LEMMA OthersStay ==
  ASSUME Typed, NEW r \in Requests, NEW q \in Requests, q # r, RecordOK(q),
         \/ Arrive(r) \/ Handler(r) \/ Timeout(r) \/ Leave(r)
         \/ Decide(r) \/ Claim(r) \/ Record(r)
  PROVE  RecordOK(q)'
<1> USE DEF companion, handler, thread
<1> DEFINE Same == /\ at'[q] = at[q] /\ kind'[q] = kind[q] /\ route'[q] = route[q]
                   /\ told'[q] = told[q] /\ job'[q] = job[q] /\ best'[q] = best[q]
                   /\ writer'[q] = writer[q] /\ log'[q] = log[q]
<1>1. CASE Arrive(r) \/ FindLoaded(r) \/ EnsureModel(r) \/ LoadEnds(r) \/ Touch(r)
  <2>1. Same  BY <1>1 DEF Arrive, FindLoaded, EnsureModel, LoadEnds, Touch, Answer, Goes, Typed, TypeOK
  <2>2. QED BY <2>1 DEF RecordOK, DecisionOK, RouteOK, Decided
<1>2. CASE Filter(r) \/ Outcome(r) \/ Generate(r) \/ Timeout(r) \/ Leave(r)
  <2>1. Same
    BY <1>2 DEF Filter, Outcome, Generate, Timeout, Leave, Undecided, Log, Answer, Goes, Typed, TypeOK
  <2>2. QED BY <2>1 DEF RecordOK, DecisionOK, RouteOK, Decided
<1>3. CASE Decide(r) \/ Claim(r) \/ Record(r)
  <2>1. Same  BY <1>3 DEF Decide, Claim, Record, Log, Typed, TypeOK
  <2>2. QED BY <2>1 DEF RecordOK, DecisionOK, RouteOK, Decided
<1>4. QED BY <1>1, <1>2, <1>3 DEF Handler

LEMMA LogsOne ==
  ASSUME Typed, NEW r \in Requests, NEW line, log[r] = <<>>, Log(r, line)
  PROVE  log'[r] = <<line>> /\ Len(log'[r]) = 1
BY DEF Log, Typed

LEMMA StepRecord == RecordInv /\ [Next]_vars => RecordInv'
<1> SUFFICES ASSUME RecordInv, [Next]_vars PROVE RecordInv'  OBVIOUS
<1> USE DEF companion, handler, thread
<1>t. Typed /\ Typed'  BY StepTyped DEF RecordInv
<1>e. /\ at \in [Requests -> Before \cup After] /\ kind \in [Requests -> Kinds]
      /\ told \in [Requests -> Routes] /\ route \in [Requests -> Routes]
      /\ job \in [Requests -> {"none", "decide", "claim", "record", "done", "failed"}]
      /\ writer \in [Requests -> {"pending", "decided", "timed_out"}]
      /\ best \in [Requests -> Names] /\ log \in [Requests -> Seq(Routes)]
  BY <1>t DEF Typed, TypeOK
<1>s. SUFFICES \A r \in Requests : RecordOK(r)'  BY <1>t DEF RecordInv
<1>0. CASE UNCHANGED vars \/ Unload
  BY <1>0 DEF vars, Unload, RecordInv, RecordOK, DecisionOK, RouteOK, Decided
<1>1. ASSUME NEW r \in Requests,
             \/ Arrive(r) \/ Handler(r) \/ Timeout(r) \/ Leave(r)
             \/ Decide(r) \/ Claim(r) \/ Record(r)
      PROVE  \A q \in Requests : RecordOK(q)'
  <2>0. RecordOK(r)  BY DEF RecordInv
  <2> SUFFICES RecordOK(r)'  BY <1>1, <1>t, OthersStay DEF RecordInv
  <2>1. CASE Arrive(r)
    <3>1. /\ at[r] = "new" /\ UNCHANGED <<route, told, job, best, writer, log>>
          /\ kind'[r] \in Kinds
          /\ IF kind'[r] # "systemone" THEN at'[r] = "filter" ELSE at'[r] \in {"find", "ensure"}
      <4>1. PICK k \in Kinds : kind' = [kind EXCEPT ![r] = k]  BY <2>1 DEF Arrive
      <4>2. PICK name \in Companions \cup {NoName} :
              Goes(r, IF kind'[r] # "systemone" THEN "filter"
                      ELSE IF name = NoName THEN "find" ELSE "ensure")
        BY <2>1 DEF Arrive
      <4>3. at[r] = "new" /\ UNCHANGED <<route, told, job, best, writer, log>>  BY <2>1 DEF Arrive
      <4>4. kind'[r] = k  BY <4>1, <1>e
      <4>5. at'[r] = (IF kind'[r] # "systemone" THEN "filter"
                      ELSE IF name = NoName THEN "find" ELSE "ensure")
        BY <4>2, <1>e DEF Goes
      <4>6. QED BY <4>3, <4>4, <4>5
    <3>2. QED BY <2>0, <3>1, <1>e DEF RecordOK, DecisionOK, RouteOK, Before, Decided
  <2>2. CASE FindLoaded(r) \/ EnsureModel(r) \/ LoadEnds(r)
    <3>1. /\ at[r] \in {"find", "ensure", "load"} /\ UNCHANGED <<kind, route, job, best, writer, log>>
          /\ \/ at'[r] = "answered" /\ told'[r] = Refused
             \/ at'[r] \in {"touch", "load"} /\ UNCHANGED told
      BY <2>2, <1>e DEF FindLoaded, EnsureModel, LoadEnds, Answer, Goes
    <3>2. QED BY <2>0, <3>1 DEF RecordOK, DecisionOK, RouteOK, Before, Decided
  <2>3. CASE Touch(r)
    <3>1. /\ at[r] = "touch" /\ at'[r] = "wait" /\ job'[r] = "decide"
          /\ UNCHANGED <<kind, route, told, best, writer, log>>
      BY <2>3, <1>e DEF Touch, Goes
    <3>2. QED BY <2>0, <3>1 DEF RecordOK, DecisionOK, RouteOK, Before, Decided
  <2>4. CASE Filter(r)
    <3>1. at[r] = "filter" /\ UNCHANGED <<kind, told, job, best, writer>>  BY <2>4 DEF Filter
    <3>2. /\ kind[r] # "systemone" /\ log[r] = <<>> /\ job[r] = "none" /\ writer[r] = "pending"
      BY <2>0, <3>1 DEF RecordOK, DecisionOK, Before
    <3>3. CASE at'[r] = "touch" /\ UNCHANGED <<route, log>>
      BY <2>0, <3>1, <3>2, <3>3 DEF RecordOK, RouteOK, Before, Decided
    <3>4. ASSUME NEW c \in Candidates, NEW reason \in Reasons, Undecided(r, c, reason)
          PROVE  RecordOK(r)'
      <4>1. at'[r] = "generate" /\ route'[r] = Route(c, reason) /\ log'[r] = <<route'[r]>>
        BY <3>2, <3>4, <1>e, <1>t, LogsOne DEF Undecided, Goes
      <4>2. QED BY <2>0, <3>1, <3>2, <4>1 DEF RecordOK, RouteOK, Before, Decided
    <3>5. {"no_eligible_candidate", "only_candidate", "no_decision_model"} \subseteq Reasons
      BY DEF Reasons
    <3>6. CASE Goes(r, "touch") /\ UNCHANGED <<route, log>>  BY <3>3, <3>6, <1>e DEF Goes
    <3>7. QED BY <2>4, <3>4, <3>5, <3>6, RoutingAssumption DEF Filter
  <2>5. CASE Decide(r)
    <3>1. /\ job[r] = "decide" /\ UNCHANGED <<at, kind, route, told, writer, log>>
          /\ \/ job'[r] = "failed"
             \/ kind[r] = "systemone" /\ job'[r] = "record"
             \/ kind[r] # "systemone" /\ job'[r] = "claim"
      <4>1. job[r] = "decide" /\ UNCHANGED <<at, kind, route, told, writer, log>>
        BY <2>5 DEF Decide
      <4>2. PICK to \in {"failed", "record", "claim"} :
              /\ job' = [job EXCEPT ![r] = to]
              /\ to = "record" => kind[r] = "systemone"
              /\ to = "claim" => kind[r] # "systemone"
        BY <2>5 DEF Decide
      <4>3. job'[r] = to  BY <4>2, <1>e
      <4>4. QED BY <4>1, <4>2, <4>3
    <3>2. QED BY <2>0, <3>1 DEF RecordOK, DecisionOK, RouteOK, Before
  <2>6. CASE Claim(r)
    <3>1. /\ job[r] = "claim" /\ UNCHANGED <<at, kind, route, told, best, log>>
          /\ IF writer[r] = "pending" THEN writer'[r] = "decided" /\ job'[r] = "record"
             ELSE job'[r] = "done" /\ UNCHANGED writer
      BY <2>6, <1>e DEF Claim
    <3>2. kind[r] # "systemone" /\ at[r] \notin Before  BY <2>0, <3>1 DEF RecordOK, DecisionOK
    <3>3. CASE writer[r] = "pending"
      BY <2>0, <3>1, <3>2, <3>3 DEF RecordOK, RouteOK, Decided, Before
    <3>4. CASE writer[r] = "timed_out"
      BY <2>0, <3>1, <3>2, <3>4 DEF RecordOK, RouteOK, Decided, Before
    <3>5. writer[r] # "decided"  BY <2>0, <3>1, <3>2 DEF RecordOK, RouteOK
    <3>6. QED BY <3>3, <3>4, <3>5, <1>e
  <2>7. CASE Record(r)
    <3>1. /\ job[r] = "record" /\ UNCHANGED <<at, kind, route, told, best, writer>>
          /\ job'[r] = "done" /\ Log(r, Route(best[r], "decided"))
      BY <2>7, <1>e DEF Record
    <3>2. log[r] = <<>> /\ (kind[r] # "systemone" => writer[r] = "decided")
      BY <2>0, <3>1, <1>e DEF RecordOK, DecisionOK, RouteOK
    <3>3. log'[r] = <<Route(best'[r], "decided")>>  BY <3>1, <3>2, <1>t, LogsOne
    <3>4. QED BY <2>0, <3>1, <3>2, <3>3 DEF RecordOK, DecisionOK, RouteOK, Before, Decided
  <2>8. CASE Timeout(r)
    <3>1. /\ at[r] = "wait" /\ kind[r] # "systemone" /\ UNCHANGED <<kind, told, job, best>>
      BY <2>8 DEF Timeout
    <3>2. CASE writer[r] = "pending"
      <4>1. log[r] = <<>> /\ job[r] \in {"none", "decide", "claim", "failed"}
        BY <2>0, <3>1, <3>2 DEF RecordOK, RouteOK
      <4>2. writer'[r] = "timed_out" /\ Undecided(r, Fallback, "timeout")
        BY <2>8, <3>2, <1>e DEF Timeout
      <4>3. at'[r] = "generate" /\ route'[r] = Route(Fallback, "timeout")
            /\ log'[r] = <<route'[r]>> /\ Len(log'[r]) = 1
        BY <4>1, <4>2, <1>e, <1>t, LogsOne DEF Undecided, Goes
      <4>4. job[r] # "none"
        BY <2>0, <3>1 DEF RecordOK
      <4>5. QED BY <2>0, <3>1, <4>1, <4>2, <4>3, <4>4 DEF RecordOK, RouteOK, Before, Decided
    <3>3. CASE writer[r] # "pending"
      <4>1. at'[r] = "late" /\ UNCHANGED <<writer, route, log>>
        BY <2>8, <3>3, <1>e DEF Timeout, Goes
      <4>2. QED BY <2>0, <3>1, <3>3, <4>1 DEF RecordOK, RouteOK, Before, Decided
    <3>4. QED BY <3>2, <3>3
  <2>9. CASE Outcome(r)
    <3>1. at[r] \in {"wait", "late"} /\ UNCHANGED <<kind, job, best, writer>>
      BY <2>9 DEF Outcome
    <3>2. CASE kind[r] = "systemone"
      <4>1. /\ at'[r] = "answered" /\ UNCHANGED <<route, log>>
            /\ told'[r] = IF job[r] = "done" THEN Route(best[r], "decided") ELSE Refused
        BY <2>9, <3>2, <1>e DEF Outcome, Answer, Goes
      <4>2. QED BY <2>0, <3>1, <3>2, <4>1 DEF RecordOK, DecisionOK, Before, Decided
    <3>3. CASE kind[r] # "systemone" /\ job[r] = "done"
      <4>1. at'[r] = "generate" /\ route'[r] = Route(best[r], "decided") /\ UNCHANGED <<told, log>>
        BY <2>9, <3>3, <1>e DEF Outcome, Goes
      <4>2. writer[r] = "decided"  BY <2>0, <3>1, <3>3, <1>e DEF RecordOK, RouteOK
      <4>3. QED BY <2>0, <3>1, <3>3, <4>1, <4>2 DEF RecordOK, RouteOK, Before, Decided
    <3>4. CASE kind[r] # "systemone" /\ job[r] # "done"
      <4>1. job[r] = "failed" /\ Undecided(r, Fallback, "decision_error") /\ UNCHANGED told
        BY <2>9, <3>4 DEF Outcome
      <4>2. writer[r] = "pending" /\ log[r] = <<>>
        BY <2>0, <3>1, <3>4, <4>1, <1>e DEF RecordOK, RouteOK
      <4>3. at'[r] = "generate" /\ route'[r] = Route(Fallback, "decision_error")
            /\ log'[r] = <<route'[r]>>
        BY <4>1, <4>2, <1>e, <1>t, LogsOne DEF Undecided, Goes
      <4>4. QED BY <2>0, <3>1, <3>4, <4>1, <4>2, <4>3 DEF RecordOK, RouteOK, Before, Decided
    <3>5. QED BY <3>2, <3>3, <3>4
  <2>10. CASE Generate(r)
    <3>1. /\ at[r] = "generate" /\ at'[r] = "answered"
          /\ UNCHANGED <<kind, route, job, best, writer, log>>
          /\ \/ told'[r] \in {route[r], Refused} \/ told'[r] = Route(Fallback, "load_failed")
      BY <2>10, <1>e DEF Generate, Answer, Goes
    <3>2. told'[r] \in {Refused, route[r]} \/ told'[r].reason = "load_failed"
      BY <3>1 DEF Route
    <3>3. kind[r] # "systemone"  BY <2>0, <3>1 DEF RecordOK, DecisionOK
    <3>4. QED BY <2>0, <3>1, <3>2, <3>3 DEF RecordOK, RouteOK, Before, Decided
  <2>11. CASE Leave(r)
    <3>1. /\ at[r] \notin {"new", "answered", "gone"} /\ at'[r] = "gone"
          /\ UNCHANGED <<kind, route, told, job, best, writer, log>>
      BY <2>11, <1>e DEF Leave, Goes
    <3>2. QED BY <2>0, <3>1 DEF RecordOK, DecisionOK, RouteOK, Before, Decided
  <2>12. QED
    BY <1>1, <2>1, <2>2, <2>3, <2>4, <2>5, <2>6, <2>7, <2>8, <2>9, <2>10, <2>11 DEF Handler
<1>2. QED BY <1>0, <1>1 DEF Next

LEMMA RecordInvariant == Spec => []RecordInv
BY InitRecord, StepRecord, PTL DEF Spec

(* Whoever is answered is on record once, and the record says what the     *)
(* answer says (RouteJob::run and RouteLine of route.rs): the time running *)
(* out as the decision is made never writes two lines or none.             *)
THEOREM AnswersAreOnRecord == Spec => []AnswerOnRecord
<1>1. RecordInv => AnswerOnRecord
  <2> SUFFICES ASSUME RecordInv, NEW r \in Requests
               PROVE  /\ Len(log[r]) <= 1
                      /\ told[r] \notin {NoRoute, Refused} =>
                           \/ log[r] = <<told[r]>>
                           \/ told[r].reason = "load_failed" /\ log[r] = <<route[r]>>
    BY DEF AnswerOnRecord
  <2>1. RecordOK(r) /\ writer[r] \in {"pending", "decided", "timed_out"}
    BY DEF RecordInv, Typed, TypeOK
  <2>2. \A x : Len(<<x>>) = 1  OBVIOUS
  <2>3. Len(<<>>) = 0  OBVIOUS
  <2>4. CASE kind[r] = "systemone"
    <3>1. log[r] = <<>> \/ Len(log[r]) = 1
      BY <2>1, <2>2, <2>4 DEF RecordOK, DecisionOK, Decided
    <3>2. told[r] \notin {NoRoute, Refused} => log[r] = <<told[r]>>
      BY <2>1, <2>4 DEF RecordOK, DecisionOK
    <3>3. CASE log[r] = <<>>  BY <2>3, <3>2, <3>3
    <3>4. CASE Len(log[r]) = 1  BY <3>2, <3>4
    <3>5. QED BY <3>1, <3>3, <3>4
  <2>5. CASE kind[r] # "systemone"
    <3>1. Len(log[r]) <= 1
      <4>1. log[r] = <<>> \/ Len(log[r]) = 1
        BY <2>1, <2>2, <2>5 DEF RecordOK, RouteOK, Decided
      <4>2. CASE log[r] = <<>>  BY <2>3, <4>2
      <4>3. CASE Len(log[r]) = 1  BY <4>3
      <4>4. QED BY <4>1, <4>2, <4>3
    <3>2. told[r] \notin {NoRoute, Refused} =>
            \/ log[r] = <<told[r]>>
            \/ told[r].reason = "load_failed" /\ log[r] = <<route[r]>>
      BY <2>1, <2>5 DEF RecordOK, RouteOK
    <3>3. QED BY <3>1, <3>2
  <2>6. QED BY <2>4, <2>5
<1>2. QED BY <1>1, RecordInvariant, PTL

(* Every decision computed is on record, its client there or not, or its   *)
(* route is, as timed out (systemone.rs l.1674).                           *)
THEOREM DecisionsAreOnRecord == Spec => []DecidedOnRecord
<1>1. RecordInv => DecidedOnRecord
  <2> SUFFICES ASSUME RecordInv, NEW r \in Requests, job[r] = "done" PROVE Len(log[r]) = 1
    BY DEF DecidedOnRecord
  <2>1. RecordOK(r) /\ writer[r] \in {"pending", "decided", "timed_out"}
    BY DEF RecordInv, Typed, TypeOK
  <2>2. QED BY <2>1 DEF RecordOK, DecisionOK, RouteOK, Decided
<1>2. QED BY <1>1, RecordInvariant, PTL
-----------------------------------------------------------------------------
(* Sizing: arithmetic, greatest and least elements. *)

LEMMA Division ==
  ASSUME NEW a \in Nat, NEW b \in Nat \ {0}
  PROVE  /\ a \div b \in Nat
         /\ b * (a \div b) <= a
         /\ a < b * (a \div b) + b
         /\ a = (b * (a \div b)) + (a % b)
OBVIOUS

LEMMA TimesMono ==
  ASSUME NEW a \in Nat, NEW b \in Nat, NEW c \in Nat, a <= b
  PROVE  a * c <= b * c /\ c * a <= c * b /\ a * c \in Nat /\ c * a \in Nat
OBVIOUS

LEMMA TimesLess ==
  ASSUME NEW a \in Int, NEW b \in Int, NEW c \in Nat, c * a < c * b
  PROVE  a < b
OBVIOUS

LEMMA CeilDivIs ==
  ASSUME NEW a \in Nat, NEW b \in Nat \ {0}
  PROVE  /\ CeilDiv(a, b) \in Nat
         /\ a <= b * CeilDiv(a, b)
         /\ \A x \in Nat : a <= b * x => CeilDiv(a, b) <= x
<1> DEFINE q == (a + b - 1) \div b
<1>1. a + b - 1 \in Nat  OBVIOUS
<1>2. q \in Nat /\ b * q <= a + b - 1 /\ a + b - 1 < b * q + b  BY <1>1, Division
<1>3. CeilDiv(a, b) = q  BY DEF CeilDiv
<1> HIDE DEF q
<1>5. b * q \in Int  BY <1>2
<1>6. a <= b * q  BY <1>2, <1>5
<1>7. ASSUME NEW x \in Nat, a <= b * x PROVE q <= x
  <2>1. b * q < b * (x + 1)
    <3>1. b * (x + 1) = b * x + b  OBVIOUS
    <3>2. b * x \in Int  OBVIOUS
    <3>3. QED BY <1>2, <1>5, <1>7, <3>1, <3>2
  <2>2. q < x + 1  BY <1>2, <2>1, TimesLess
  <2>3. QED BY <1>2, <2>2
<1>8. QED BY <1>2, <1>3, <1>6, <1>7

LEMMA CeilDivMono ==
  ASSUME NEW a \in Nat, NEW c \in Nat, NEW b \in Nat \ {0}, a <= c
  PROVE  CeilDiv(a, b) <= CeilDiv(c, b)
<1>1. CeilDiv(c, b) \in Nat /\ c <= b * CeilDiv(c, b)  BY CeilDivIs
<1>2. a <= b * CeilDiv(c, b)  BY <1>1
<1>3. QED BY <1>1, <1>2, CeilDivIs

LEMMA LeastNumber ==
  ASSUME NEW T, T \subseteq Nat, T # {}
  PROVE  \E t \in T : \A u \in T : ~(u < t)
<1>1. \E t \in T : \A u \in T : ~(<<u, t>> \in OpToRel(<, Nat))
  BY NatLessThanWellFounded, WFMin, Zenon
<1>2. \A t \in T, u \in T : u < t => <<u, t>> \in OpToRel(<, Nat)
  BY Zenon DEF OpToRel
<1>3. QED  BY <1>1, <1>2, Zenon

LEMMA MinIsThere ==
  ASSUME NEW S, S \subseteq Nat, S # {}
  PROVE  Min(S) \in S /\ \A y \in S : Min(S) <= y
<1>1. PICK t \in S : \A u \in S : ~(u < t)  BY LeastNumber
<1>2. \A y \in S : t <= y  BY <1>1
<1>3. QED BY <1>2 DEF Min

LEMMA MaxIsThere ==
  ASSUME NEW n \in Nat, NEW S \in SUBSET (0..n), S # {}
  PROVE  Max(S) \in S /\ \A y \in S : y <= Max(S)
<1> DEFINE T == {n - x : x \in S}
<1>1. T \subseteq Nat /\ T # {}
  <2>1. \A x \in S : n - x \in Nat  OBVIOUS
  <2> QED  BY <2>1
<1>2. PICK t \in T : \A u \in T : ~(u < t)
  <2> HIDE DEF T
  <2> QED  BY <1>1, LeastNumber
<1>4. PICK x \in S : t = n - x  OBVIOUS
<1>5. \A y \in S : x >= y
  <2> SUFFICES ASSUME NEW y \in S PROVE x >= y  OBVIOUS
  <2>1. n - y \in T  OBVIOUS
  <2>2. ~(n - y < n - x)  BY <1>2, <1>4, <2>1
  <2> QED  BY <2>2
<1>6. Max(S) \in S /\ \A y \in S : Max(S) >= y  BY <1>4, <1>5, Zenon DEF Max
<1> QED  BY <1>6

LEMMA MaxOfTwo ==
  ASSUME NEW a \in Int, NEW b \in Int
  PROVE  Max({a, b}) \in {a, b} /\ a <= Max({a, b}) /\ b <= Max({a, b})
<1>1. \E x \in {a, b} : \A y \in {a, b} : x >= y  OBVIOUS
<1>2. Max({a, b}) \in {a, b} /\ \A y \in {a, b} : Max({a, b}) >= y  BY <1>1, Zenon DEF Max
<1>3. QED BY <1>2
-----------------------------------------------------------------------------
(* The model. *)

LEMMA LoadTyped ==
  ASSUME NEW l \in Loads
  PROVE  /\ ModelIsSound(l.model)
         /\ l.free \in Nat /\ l.companions \in Nat /\ l.projector \in Nat
         /\ l.ceiling \in Nat /\ l.n_cpu_moe \in Nat /\ l.slots \in Nat
         /\ l.asked \in Nat /\ l.cache.mib \in Nat /\ l.align \in Nat \ {0}
         /\ l.readable \in BOOLEAN /\ l.cpu_moe \in BOOLEAN /\ l.large_ubatch \in BOOLEAN
         /\ l.offload \in {"auto", "cpu", "gpu"}
         /\ l.cache.kind \in {"off", "auto", "default", "mib"}
BY SizingAssumption DEF LoadsAreSound

LEMMA ModelTyped ==
  ASSUME NEW m, ModelIsSound(m)
  PROVE  /\ m.layers \in Nat \ {0} /\ m.interval \in Nat \ {0}
         /\ m.rest \in Nat /\ m.table \in Nat /\ m.kv \in Nat /\ m.trained \in Nat
         /\ m.experts \in [0..m.layers -> Nat] /\ m.experts[0] = 0
BY DEF ModelIsSound

LEMMA ExpertsAre ==
  ASSUME NEW m, ModelIsSound(m), NEW n \in Nat
  PROVE  /\ Experts(m, n) \in Nat /\ AllExperts(m) \in Nat /\ ExpertsFrom(m, n) \in Nat
         /\ ExpertsFrom(m, n) = AllExperts(m) - Experts(m, n)
         /\ Experts(m, 0) = 0 /\ ExpertsFrom(m, m.layers) = 0
         /\ m.layers <= n => Experts(m, n) = AllExperts(m)
<1>1. m.layers \in Nat /\ m.experts \in [0..m.layers -> Nat] /\ m.experts[0] = 0
  BY ModelTyped
<1>2. Least(n, m.layers) \in 0..m.layers /\ Least(m.layers, m.layers) = m.layers
      /\ Least(0, m.layers) = 0 /\ (m.layers <= n => Least(n, m.layers) = m.layers)
  BY <1>1 DEF Least
<1>3. m.experts[Least(n, m.layers)] <= m.experts[m.layers]
  BY <1>1, <1>2 DEF ModelIsSound
<1>4. QED BY <1>1, <1>2, <1>3 DEF Experts, AllExperts, ExpertsFrom

LEMMA ExpertsMono ==
  ASSUME NEW m, ModelIsSound(m), NEW n \in Nat, NEW k \in Nat, n <= k
  PROVE  Experts(m, n) <= Experts(m, k) /\ ExpertsFrom(m, k) <= ExpertsFrom(m, n)
<1>1. m.layers \in Nat /\ m.experts \in [0..m.layers -> Nat]  BY ModelTyped
<1>2. /\ Least(n, m.layers) \in 0..m.layers /\ Least(k, m.layers) \in 0..m.layers
      /\ Least(n, m.layers) <= Least(k, m.layers)
  BY <1>1 DEF Least
<1>3. Experts(m, n) <= Experts(m, k)  BY <1>1, <1>2 DEF ModelIsSound, Experts
<1>4. QED BY <1>3, ExpertsAre

LEMMA KvIs ==
  ASSUME NEW m, ModelIsSound(m), NEW n \in Nat, NEW c \in Nat
  PROVE  Kv(m, n, c) \in Nat /\ Kv(m, 0, c) = 0
<1>1. m.interval \in Nat \ {0} /\ m.kv \in Nat  BY ModelTyped
<1>2. Paying(m, n) \in Nat /\ Paying(m, 0) \in Nat  BY <1>1, CeilDivIs DEF Paying
<1>3. Paying(m, 0) <= 0
  <2>1. 0 <= m.interval * 0  BY <1>1
  <2>2. QED BY <1>1, <2>1, CeilDivIs DEF Paying
<1>4. Paying(m, 0) = 0  BY <1>2, <1>3
<1>5. QED BY <1>1, <1>2, <1>4 DEF Kv

LEMMA KvMono ==
  ASSUME NEW m, ModelIsSound(m), NEW n \in Nat, NEW k \in Nat, NEW c \in Nat, NEW d \in Nat,
         n <= k, c <= d
  PROVE  Kv(m, n, c) <= Kv(m, k, d)
<1>1. m.interval \in Nat \ {0} /\ m.kv \in Nat  BY ModelTyped
<1>2. Paying(m, n) \in Nat /\ Paying(m, k) \in Nat  BY <1>1, CeilDivIs DEF Paying
<1>3. Paying(m, n) <= Paying(m, k)  BY <1>1, CeilDivMono DEF Paying
<1>4. Paying(m, n) * m.kv <= Paying(m, k) * m.kv /\ Paying(m, n) * m.kv \in Nat
  BY <1>1, <1>2, <1>3, TimesMono
<1>5. Paying(m, k) * m.kv \in Nat  BY <1>1, <1>2
<1>6. (Paying(m, n) * m.kv) * c <= (Paying(m, n) * m.kv) * d  BY <1>4, TimesMono
<1>7. (Paying(m, n) * m.kv) * d <= (Paying(m, k) * m.kv) * d  BY <1>4, <1>5, TimesMono
<1>8. /\ (Paying(m, n) * m.kv) * c \in Nat /\ (Paying(m, n) * m.kv) * d \in Nat
      /\ (Paying(m, k) * m.kv) * d \in Nat
  BY <1>4, <1>5
<1>9. QED BY <1>6, <1>7, <1>8 DEF Kv
-----------------------------------------------------------------------------
(* compute_fit. *)

LEMMA UsableIs ==
  ASSUME NEW room \in Nat
  PROVE  /\ Usable(room) \in Nat
         /\ Usable(room) = IF room > Reserve + Compute THEN room - (Reserve + Compute) ELSE 0
BY SizingAssumption DEF Usable, Less

LEMMA ComputeFitIs ==
  ASSUME NEW m, ModelIsSound(m), NEW bytes \in Nat, NEW c \in Nat, NEW room \in Nat
  PROVE  /\ ComputeFit(m, bytes, c, room) \in 0..m.layers
         /\ ComputeFit(m, bytes, c, room) * bytes
              + m.layers * Kv(m, ComputeFit(m, bytes, c, room), c)
              <= m.layers * Usable(room)
         /\ ComputeFit(m, bytes, c, room) = m.layers
              <=> bytes + Kv(m, m.layers, c) <= Usable(room)
<1> DEFINE Holds(n) == n * bytes + m.layers * Kv(m, n, c) <= m.layers * Usable(room)
           S == {n \in 0..m.layers : Holds(n)}
           fit == ComputeFit(m, bytes, c, room)
<1>1. m.layers \in Nat \ {0}  BY ModelTyped
<1>2. Usable(room) \in Nat  BY UsableIs
<1>3. Kv(m, m.layers, c) \in Nat /\ Kv(m, 0, c) = 0  BY <1>1, KvIs
<1>4. Holds(0)
  <2>1. 0 * bytes = 0 /\ m.layers * 0 = 0 /\ 0 <= m.layers * Usable(room)
    BY <1>1, <1>2, TimesMono
  <2>2. QED BY <1>3, <2>1
<1>5. Holds(m.layers) <=> bytes + Kv(m, m.layers, c) <= Usable(room)
  <2>1. ASSUME NEW x \in Nat, NEW y \in Nat, NEW k \in Nat, NEW L \in Nat \ {0}
        PROVE  (L * x + L * y <= L * k) <=> (x + y <= k)
    <3>1. L * x + L * y = L * (x + y)  OBVIOUS
    <3>2. (x + y <= k) => L * (x + y) <= L * k  BY TimesMono
    <3>3. ASSUME ~(x + y <= k) PROVE ~(L * (x + y) <= L * k)
      <4>1. L * (k + 1) <= L * (x + y)  BY <3>3, TimesMono
      <4>2. L * (k + 1) = L * k + L /\ L * k \in Nat /\ L * (x + y) \in Nat  OBVIOUS
      <4>3. QED BY <4>1, <4>2
    <3>4. QED BY <3>1, <3>2, <3>3
  <2>2. QED BY <1>1, <1>2, <1>3, <2>1
<1>6. fit = Max(S)  BY DEF ComputeFit
<1>7. S \in SUBSET (0..m.layers) /\ S # {}  BY <1>1, <1>4
<1>8. fit \in S /\ \A n \in S : n <= fit
  <2> HIDE DEF S, fit
  <2> QED BY <1>1, <1>6, <1>7, MaxIsThere
<1>9. fit \in 0..m.layers /\ Holds(fit)  BY <1>8
<1>10. fit = m.layers <=> Holds(m.layers)
  <2>1. Holds(m.layers) => m.layers \in S  BY <1>1
  <2> HIDE DEF S, Holds, fit
  <2> QED BY <1>1, <1>8, <1>9, <2>1
<1>11. QED BY <1>5, <1>9, <1>10
-----------------------------------------------------------------------------
(* plan_offload of a model without experts. *)

LEMMA LessIs ==
  ASSUME NEW a \in Nat, NEW b \in Nat
  PROVE  Less(a, b) \in Nat /\ \A c \in Nat : Less(Less(a, b), c) = Less(a, b + c)
BY DEF Less

LEMMA SpokenIs == \A l \in Loads : Spoken(l) \in Nat
<1> SUFFICES ASSUME NEW l \in Loads PROVE Spoken(l) \in Nat  OBVIOUS
<1>1. QED BY LoadTyped, SizingAssumption DEF Spoken

LEMMA RoomIs ==
  ASSUME NEW l \in Loads, NEW where
  PROVE  Room(l, where) \in Nat
<1>1. l.free \in Nat /\ l.projector \in Nat  BY LoadTyped
<1>2. PICK spoken \in Nat : spoken = Spoken(l)  BY SpokenIs
<1>3. PICK beside \in Nat : beside = IF where = "cpu" THEN 0 ELSE l.projector  BY <1>1
<1>4. Less(l.free, spoken + beside) \in Nat  BY <1>1 DEF Less
<1>5. QED BY <1>2, <1>3, <1>4 DEF Room

LEMMA MmprojIs ==
  ASSUME NEW l \in Loads, NEW c \in Nat
  PROVE  /\ Mmproj(l, c) \in {"gpu", "cpu", "follow"}
         /\ Mmproj(l, c) = "follow" => l.offload = "auto" /\ l.projector = 0
         /\ l.offload # "auto" => Mmproj(l, c) = l.offload
         /\ l.offload = "auto" /\ l.projector > 0 =>
              Mmproj(l, c) = IF FitsWhole(l.model, c, Room(l, "gpu")) THEN "gpu" ELSE "cpu"
<1>1. /\ l.free \in Nat /\ l.projector \in Nat /\ Spoken(l) \in Nat
      /\ l.offload \in {"auto", "cpu", "gpu"}
  BY LoadTyped, SpokenIs
<1>2. Less(Less(l.free, Spoken(l)), l.projector) = Room(l, "gpu")
  <2>1. Room(l, "gpu") = Less(l.free, Spoken(l) + l.projector)  BY DEF Room
  <2>2. PICK free \in Nat, spoken \in Nat, projector \in Nat :
          free = l.free /\ spoken = Spoken(l) /\ projector = l.projector
    BY <1>1
  <2>3. Less(Less(free, spoken), projector) = Less(free, spoken + projector)  BY DEF Less
  <2>4. QED BY <2>1, <2>2, <2>3
<1>3. QED BY <1>1, <1>2 DEF Mmproj, PlaceMmproj

LEMMA FileSizeIs ==
  ASSUME NEW m, ModelIsSound(m)
  PROVE  FileSize(m) \in Nat /\ FileSize(m) = m.rest + AllExperts(m) + m.table
<1>1. AllExperts(m) \in Nat  BY ExpertsAre
<1>2. QED BY <1>1, ModelTyped DEF FileSize

DensePlan(l, c, where) ==
  LET sized == ComputeFit(l.model, FileSize(l.model), c, Room(l, where))
  IN  [basis |-> "dense", window |-> c, sized |-> sized, layers |-> Least(sized, l.ceiling),
       out |-> IF l.cpu_moe \/ l.n_cpu_moe > 0 THEN Out(l) ELSE 0,
       larger |-> FALSE, mmproj |-> where, cache |-> NoCache]

(* A model without experts is sized as a whole, beside its projector.      *)
LEMMA PlanWithoutExperts ==
  ASSUME NEW l \in Loads, NEW c \in Nat, l.readable, ~IsMoe(l.model)
  PROVE  PlanOffload(l, c) = DensePlan(l, c, Mmproj(l, c))
<1>1. AllExperts(l.model) = 0
  <2>1. AllExperts(l.model) \in Nat  BY LoadTyped, ExpertsAre
  <2>2. QED BY <2>1 DEF IsMoe
<1> DEFINE where == Mmproj(l, c)
           room == Room(l, where)
           moe == MoeFitPlan(l.model, c, room, ~l.large_ubatch)
<1>2. PlanMoeCache(l, c, room, InRam(l), AllExperts(l.model)) = NoCache
  BY <1>1 DEF PlanMoeCache
<1>3. PlanOffload(l, c) = PlanFor(l, c, where, room, NoCache, moe)
  BY <1>2 DEF PlanOffload, PlanPlaced, PlanIn
<1> HIDE DEF where, moe
<1>4. PlanFor(l, c, where, room, NoCache, moe) = DensePlan(l, c, where)
  BY DEF PlanFor, DensePlan
<1>5. QED BY <1>3, <1>4 DEF where

(* The window is one for which the whole model is sized onto the card, and *)
(* its projector not sent away: whole_at asks the same of auto_context.    *)
Whole(l, c) ==
  /\ PlanOffload(l, c).sized = l.model.layers
  /\ l.offload = "auto" => PlanOffload(l, c).mmproj # "cpu"

LEMMA WholeIsWholeAt ==
  ASSUME NEW l \in Loads, NEW c \in Nat, l.readable, ~IsMoe(l.model)
  PROVE  Whole(l, c) <=> WholeAt(l, c)
<1> DEFINE where == Mmproj(l, c)
<1>1. /\ PlanOffload(l, c).mmproj = where
      /\ PlanOffload(l, c).sized = ComputeFit(l.model, FileSize(l.model), c, Room(l, where))
  BY PlanWithoutExperts DEF DensePlan
<1>2. Less(l.free, AutoReserve(l)) = Room(l, IF l.offload = "cpu" THEN "cpu" ELSE "gpu")
  BY DEF AutoReserve, Room
<1>3. l.offload \in {"auto", "cpu", "gpu"} /\ l.projector \in Nat  BY LoadTyped
<1>4. CASE l.offload # "auto"
  <2>1. where = l.offload  BY <1>4, MmprojIs
  <2>2. QED BY <1>1, <1>2, <1>3, <1>4, <2>1 DEF Whole, WholeAt
<1>5. CASE l.offload = "auto" /\ l.projector = 0
  <2>1. where = "follow"  BY <1>5 DEF Mmproj
  <2>2. Room(l, where) = Room(l, "gpu")  BY <1>5, <2>1 DEF Room
  <2>3. QED BY <1>1, <1>2, <1>5, <2>1, <2>2 DEF Whole, WholeAt
<1>6. CASE l.offload = "auto" /\ l.projector > 0
  <2>1. where = IF FitsWhole(l.model, c, Room(l, "gpu")) THEN "gpu" ELSE "cpu"
    BY <1>6, MmprojIs
  <2>2. FitsWhole(l.model, c, Room(l, "gpu")) <=> WholeAt(l, c)
    BY <1>2, <1>6 DEF FitsWhole, WholeAt
  <2>3. CASE WholeAt(l, c)
    <3>1. where = "gpu"  BY <2>1, <2>2, <2>3
    <3>2. QED BY <1>1, <1>2, <1>6, <2>3, <3>1 DEF Whole, WholeAt
  <2>4. CASE ~WholeAt(l, c)
    <3>1. where = "cpu"  BY <2>1, <2>2, <2>4
    <3>2. QED BY <1>1, <1>6, <2>4, <3>1 DEF Whole
  <2>5. QED BY <2>3, <2>4
<1>7. QED BY <1>3, <1>4, <1>5, <1>6

LEMMA WholeAtAntitone ==
  ASSUME NEW l \in Loads, NEW c \in Nat, NEW d \in Nat, c <= d, WholeAt(l, d)
  PROVE  WholeAt(l, c)
<1> DEFINE m == l.model
           room == Less(l.free, AutoReserve(l))
<1>1. ModelIsSound(m) /\ m.layers \in Nat  BY LoadTyped, ModelTyped
<1>2. FileSize(m) \in Nat  BY <1>1, FileSizeIs
<1>3. room \in Nat
  <2>1. AutoReserve(l) \in Nat  BY LoadTyped, SpokenIs DEF AutoReserve
  <2>2. QED BY <2>1, LoadTyped, LessIs
<1>4. Usable(room) \in Nat  BY <1>3, UsableIs
<1> HIDE DEF room
<1>5. WholeAt(l, d) <=> FileSize(m) + Kv(m, m.layers, d) <= Usable(room)
  BY <1>1, <1>2, <1>3, ComputeFitIs DEF WholeAt, room
<1>6. WholeAt(l, c) <=> FileSize(m) + Kv(m, m.layers, c) <= Usable(room)
  BY <1>1, <1>2, <1>3, ComputeFitIs DEF WholeAt, room
<1>7. Kv(m, m.layers, c) \in Nat /\ Kv(m, m.layers, d) \in Nat
      /\ Kv(m, m.layers, c) <= Kv(m, m.layers, d)
  <2>1. Kv(m, m.layers, c) \in Nat /\ Kv(m, m.layers, d) \in Nat  BY <1>1, KvIs
  <2>2. m.layers <= m.layers  BY <1>1
  <2>3. Kv(m, m.layers, c) <= Kv(m, m.layers, d)  BY <1>1, <2>2, KvMono
  <2>4. QED BY <2>1, <2>3
<1>8. QED BY <1>2, <1>4, <1>5, <1>6, <1>7
-----------------------------------------------------------------------------
(* --ctx-size auto. *)

Windows(l) == {c \in AutoLow(l)..AutoHigh(l) : c % l.align = 0}
Steps(l) == (AutoHigh(l) - AutoLow(l)) \div l.align
Window(l, k) == AutoLow(l) + k * l.align

LEMMA AutoBounds ==
  ASSUME NEW l \in Loads
  PROVE  /\ AutoLow(l) \in Nat /\ AutoHigh(l) \in Nat /\ AutoLow(l) <= AutoHigh(l)
         /\ \E q, r \in Nat : /\ q <= r /\ AutoLow(l) = q * l.align
                              /\ AutoHigh(l) = r * l.align
<1>1. l.align \in Nat \ {0} /\ l.model.trained \in Nat  BY LoadTyped, ModelTyped
<1>2. AutoFloor \in Nat /\ AutoCeiling \in Nat  BY SizingAssumption
<1>3. PICK q \in Nat : q = CeilDiv(AutoFloor, l.align)  BY <1>1, <1>2, CeilDivIs
<1>4. AutoLow(l) = q * l.align /\ q * l.align \in Nat  BY <1>1, <1>3 DEF AutoLow
<1>5. Least(l.model.trained, AutoCeiling) \in Nat  BY <1>1, <1>2 DEF Least
<1>6. PICK t \in Nat : t = Least(l.model.trained, AutoCeiling) \div l.align
  BY <1>1, <1>5, Division
<1>7. t * l.align \in Nat  BY <1>1
<1>8. AutoHigh(l) = IF t * l.align > AutoLow(l) THEN t * l.align ELSE AutoLow(l)
  BY <1>6 DEF AutoHigh
<1>9. CASE t * l.align > AutoLow(l)
  <2>1. q <= t
    <3>1. ASSUME ~(q <= t) PROVE FALSE
      <4>1. t * l.align <= q * l.align  BY <1>1, <3>1, TimesMono
      <4>2. QED BY <1>4, <1>7, <1>9, <4>1
    <3>2. QED BY <3>1
  <2>2. QED BY <1>4, <1>7, <1>8, <1>9, <2>1
<1>10. CASE ~(t * l.align > AutoLow(l))
  BY <1>3, <1>4, <1>8, <1>10
<1>11. QED BY <1>9, <1>10

LEMMA WindowsAre ==
  ASSUME NEW l \in Loads
  PROVE  /\ Steps(l) \in Nat
         /\ Windows(l) = {Window(l, k) : k \in 0..Steps(l)}
         /\ \A k \in Nat : Window(l, k) \in Nat
<1>1. l.align \in Nat \ {0}  BY LoadTyped
<1>2. PICK q \in Nat, r \in Nat :
        q <= r /\ AutoLow(l) = q * l.align /\ AutoHigh(l) = r * l.align
  BY AutoBounds
<1>d. PICK a \in Nat \ {0} : a = l.align  BY <1>1
<1>3. PICK n \in Nat : n = r - q  BY <1>2
<1>4. AutoHigh(l) - AutoLow(l) = n * a
  <2>1. r = q + n  BY <1>3
  <2>2. (q + n) * a = q * a + n * a /\ q * a \in Int /\ n * a \in Int  OBVIOUS
  <2>3. QED BY <1>2, <1>d, <2>1, <2>2
<1>5. (n * a) \div a = n  OBVIOUS
<1>6. Steps(l) = n  BY <1>4, <1>5, <1>d DEF Steps
<1>7. ASSUME NEW k \in Nat PROVE Window(l, k) = (q + k) * a /\ Window(l, k) \in Nat
  <2>1. (q + k) * a = q * a + k * a /\ q * a \in Nat /\ k * a \in Nat  OBVIOUS
  <2>2. QED BY <1>2, <1>d, <2>1 DEF Window
<1>8. ASSUME NEW k \in 0..n PROVE Window(l, k) \in Windows(l)
  <2>1. Window(l, k) = (q + k) * a /\ Window(l, k) \in Nat  BY <1>7
  <2>2. q * a <= (q + k) * a /\ (q + k) * a <= r * a  BY <1>3, TimesMono
  <2>3. ((q + k) * a) % a = 0  OBVIOUS
  <2>4. AutoLow(l) \in Nat /\ AutoHigh(l) \in Nat  BY AutoBounds
  <2>5. QED BY <1>2, <1>d, <2>1, <2>2, <2>3, <2>4 DEF Windows
<1>9. ASSUME NEW c \in Windows(l) PROVE \E k \in 0..n : c = Window(l, k)
  <2>1. c \in AutoLow(l)..AutoHigh(l) /\ c % a = 0  BY <1>d DEF Windows
  <2>2. AutoLow(l) \in Nat /\ AutoHigh(l) \in Nat  BY AutoBounds
  <2>3. c \in Nat  BY <2>1, <2>2
  <2>4. PICK s \in Nat : s = c \div a  BY <2>3, Division
  <2>5. c = (a * (c \div a)) + (c % a)  BY <2>3, Division
  <2>6. c = a * s /\ a * s \in Nat  BY <2>1, <2>4, <2>5
  <2>7. q * a <= s * a /\ s * a <= r * a  BY <1>2, <1>d, <2>1, <2>2, <2>6
  <2>8. q <= s
    <3>1. ASSUME s + 1 <= q PROVE FALSE
      <4>1. (s + 1) * a <= q * a  BY <3>1, TimesMono
      <4>2. (s + 1) * a = s * a + a /\ s * a \in Int /\ q * a \in Int  OBVIOUS
      <4>3. QED BY <2>7, <4>1, <4>2
    <3>2. QED BY <3>1
  <2>9. s <= r
    <3>1. ASSUME r + 1 <= s PROVE FALSE
      <4>1. (r + 1) * a <= s * a  BY <3>1, TimesMono
      <4>2. (r + 1) * a = r * a + a /\ s * a \in Int /\ r * a \in Int  OBVIOUS
      <4>3. QED BY <2>7, <4>1, <4>2
    <3>2. QED BY <3>1
  <2>10. s - q \in 0..n  BY <1>3, <2>8, <2>9
  <2>11. Window(l, s - q) = (q + (s - q)) * a  BY <1>7, <2>10
  <2>12. (q + (s - q)) * a = a * s  OBVIOUS
  <2>13. QED BY <2>6, <2>10, <2>11, <2>12
<1>10. QED BY <1>3, <1>6, <1>7, <1>8, <1>9

MostWhole(l) == Max({c \in Windows(l) : WholeAt(l, c)} \cup {AutoLow(l)})

LEMMA MostWholeIs ==
  ASSUME NEW l \in Loads, NEW k \in 0..Steps(l), k = 0 \/ WholeAt(l, Window(l, k)),
         \A j \in (k + 1)..Steps(l) : ~WholeAt(l, Window(l, j))
  PROVE  MostWhole(l) = Window(l, k)
<1> DEFINE S == {c \in Windows(l) : WholeAt(l, c)} \cup {AutoLow(l)}
           most == Window(l, k)
<1>1. Steps(l) \in Nat /\ Windows(l) = {Window(l, j) : j \in 0..Steps(l)}
      /\ \A j \in Nat : Window(l, j) \in Nat
  BY WindowsAre
<1>2. l.align \in Nat \ {0} /\ AutoLow(l) \in Nat  BY LoadTyped, AutoBounds
<1>3. \A j \in Nat, i \in Nat : j <= i => Window(l, j) <= Window(l, i)
  <2> SUFFICES ASSUME NEW j \in Nat, NEW i \in Nat, j <= i PROVE Window(l, j) <= Window(l, i)
    OBVIOUS
  <2>1. j * l.align <= i * l.align /\ j * l.align \in Nat /\ i * l.align \in Nat
    BY <1>2, TimesMono
  <2>2. QED BY <1>2, <2>1 DEF Window
<1>4. Window(l, 0) = AutoLow(l)  BY <1>2 DEF Window
<1>5. most \in S
  <2>1. CASE k = 0  BY <1>4, <2>1
  <2>2. CASE WholeAt(l, Window(l, k))  BY <1>1, <2>2
  <2>3. QED BY <2>1, <2>2
<1>6. ASSUME NEW y \in S PROVE y \in Nat /\ most >= y
  <2>1. CASE y = AutoLow(l)
    BY <1>1, <1>2, <1>3, <1>4, <2>1
  <2>2. CASE y \in Windows(l) /\ WholeAt(l, y)
    <3>1. PICK j \in 0..Steps(l) : y = Window(l, j)  BY <1>1, <2>2
    <3>2. j <= k
      <4>1. ~(j \in (k + 1)..Steps(l))  BY <2>2, <3>1
      <4>2. QED BY <1>1, <4>1
    <3>3. y \in Nat /\ y <= most  BY <1>1, <1>3, <3>1, <3>2
    <3>4. QED BY <1>1, <3>3
  <2>3. QED BY <2>1, <2>2
<1> HIDE DEF S, most
<1>7. \A x \in S : (\A y \in S : x >= y) => x = most  BY <1>5, <1>6
<1>8. Max(S) = most  BY <1>5, <1>6, <1>7 DEF Max
<1>9. QED BY <1>8 DEF MostWhole, S, most
-----------------------------------------------------------------------------
(* The experts' split, and the cache. *)

LEMMA FixedIs ==
  ASSUME NEW m, ModelIsSound(m), NEW c \in Nat
  PROVE  Fixed(m, c) \in Nat /\ Fixed(m, c) = m.rest + Kv(m, m.layers, c)
<1>1. m.layers \in Nat /\ m.rest \in Nat  BY ModelTyped
<1>2. Kv(m, m.layers, c) \in Nat  BY <1>1, KvIs
<1>3. QED BY <1>1, <1>2 DEF Fixed

(* What a split of the experts takes of the card fits the room.            *)
LEMMA ComputeMoeFitIs ==
  ASSUME NEW m, ModelIsSound(m), NEW c \in Nat, NEW room \in Nat
  PROVE  LET fit == ComputeMoeFit(m, c, room)
         IN  /\ fit.layers \in 0..m.layers /\ fit.out \in 0..m.layers
             /\ \/ /\ fit.basis = "partial" /\ fit.out = m.layers
                   /\ fit.layers = ComputeFit(m, m.rest, c, room)
                \/ /\ fit.basis = "experts" /\ fit.layers = m.layers
                   /\ Usable(room) - Fixed(m, c) > 0
                   /\ Fixed(m, c) + ExpertsFrom(m, fit.out) <= Usable(room)
             /\ fit.out = 0 => Fixed(m, c) + AllExperts(m) <= Usable(room)
             /\ Fixed(m, c) + AllExperts(m) <= Usable(room) /\ AllExperts(m) > 0 => fit.out = 0
<1> DEFINE left == Usable(room) - Fixed(m, c)
           S == {n \in 0..m.layers : ExpertsFrom(m, n) <= left}
           fit == ComputeMoeFit(m, c, room)
<1>1. m.layers \in Nat \ {0} /\ m.rest \in Nat  BY ModelTyped
<1>2. Usable(room) \in Nat  BY UsableIs
<1>3. Fixed(m, c) \in Nat  BY FixedIs
<1>4. left \in Int  BY <1>2, <1>3
<1>5. AllExperts(m) \in Nat /\ ExpertsFrom(m, 0) = AllExperts(m)
      /\ ExpertsFrom(m, m.layers) = 0 /\ \A n \in 0..m.layers : ExpertsFrom(m, n) \in Nat
  <2>1. \A n \in 0..m.layers : n \in Nat  BY <1>1
  <2>2. 0 \in Nat  OBVIOUS
  <2>3. QED BY <1>1, <2>1, <2>2, ExpertsAre
<1>6. ComputeFit(m, m.rest, c, room) \in 0..m.layers  BY <1>1, ComputeFitIs
<1>7. CASE left <= 0
  <2>1. fit = [basis |-> "partial", layers |-> ComputeFit(m, m.rest, c, room), out |-> m.layers]
    BY <1>7 DEF ComputeMoeFit, SplitFor
  <2> HIDE DEF fit
  <2>2. QED BY <1>1, <1>2, <1>3, <1>5, <1>6, <1>7, <2>1 DEF fit
<1>8. CASE ~(left <= 0)
  <2>1. fit = [basis |-> "experts", layers |-> m.layers, out |-> Min(S)]
    BY <1>8 DEF ComputeMoeFit, SplitFor
  <2>2. m.layers \in S /\ S \subseteq Nat  BY <1>1, <1>4, <1>5, <1>8
  <2>3. Min(S) \in S /\ \A y \in S : Min(S) <= y
    <3> HIDE DEF S
    <3> QED BY <2>2, MinIsThere
  <2>4. Min(S) \in 0..m.layers /\ ExpertsFrom(m, Min(S)) <= left  BY <2>3
  <2>5. AllExperts(m) <= left => 0 \in S  BY <1>1, <1>5
  <2>6. AllExperts(m) <= left => Min(S) = 0  BY <1>1, <2>3, <2>4, <2>5
  <2>7. Min(S) = 0 => AllExperts(m) <= left  BY <1>5, <2>4
  <2> HIDE DEF S, fit
  <2>9. ExpertsFrom(m, Min(S)) \in Nat  BY <1>5, <2>4
  <2>8. QED BY <1>1, <1>2, <1>3, <1>5, <1>8, <2>1, <2>4, <2>6, <2>7, <2>9 DEF fit
<1>9. QED BY <1>4, <1>7, <1>8

LEMMA OutIs ==
  ASSUME NEW l \in Loads
  PROVE  /\ Out(l) \in Nat /\ InRam(l) = Experts(l.model, Out(l)) /\ InRam(l) \in Nat
         /\ AllExperts(l.model) - InRam(l) = ExpertsFrom(l.model, Out(l))
<1>1. Out(l) \in Nat  BY LoadTyped, ModelTyped DEF Out
<1>2. QED BY <1>1, LoadTyped, ExpertsAre DEF InRam

LEMMA SizeCacheIs ==
  ASSUME NEW l \in Loads, NEW most \in Int
  PROVE  SizeCache(l, most) \in Nat /\ (SizeCache(l, most) > 0 => SizeCache(l, most) <= most)
<1>1. l.cache.mib \in Nat /\ CacheStep \in Nat \ {0}  BY LoadTyped, SizingAssumption
<1>2. ASSUME most > 0 PROVE StepDown(most) \in Nat /\ StepDown(most) <= most
  <2>1. most \in Nat  BY <1>2
  <2>2. most \div CacheStep \in Nat /\ CacheStep * (most \div CacheStep) <= most
    BY <1>1, <2>1, Division
  <2>3. QED BY <1>1, <2>2 DEF StepDown
<1>3. QED BY <1>1, <1>2 DEF SizeCache

LEMMA BesideIs ==
  ASSUME NEW auto \in BOOLEAN, NEW slots \in Nat
  PROVE  LET b == Beside(auto, slots)
         IN  /\ Len(b) \in Nat /\ DOMAIN b = 1..Len(b)
             /\ \A i \in DOMAIN b : /\ b[i].larger \in BOOLEAN /\ b[i].slots \in Nat
                                    /\ b[i].larger => auto
<1> DEFINE R == {r \in [larger : BOOLEAN, slots : Nat] : r.larger => auto}
<1>1. [larger |-> auto, slots |-> slots] \in R /\ [larger |-> FALSE, slots |-> 0] \in R
      /\ (auto => [larger |-> TRUE, slots |-> 0] \in R)
  OBVIOUS
<1> HIDE DEF R
<1>2. /\ (IF slots > 0 THEN <<[larger |-> auto, slots |-> slots]>> ELSE <<>>) \in Seq(R)
      /\ (IF auto THEN <<[larger |-> TRUE, slots |-> 0]>> ELSE <<>>) \in Seq(R)
      /\ <<[larger |-> FALSE, slots |-> 0]>> \in Seq(R)
  BY <1>1
<1>3. Beside(auto, slots) \in Seq(R)  BY <1>2 DEF Beside
<1> DEFINE b == Beside(auto, slots)
<1> HIDE DEF b
<1>4. b \in Seq(R)  BY <1>3 DEF b
<1>5. \A i \in DOMAIN b : b[i] \in R  BY <1>4
<1>6. \A r \in R : r.larger \in BOOLEAN /\ r.slots \in Nat /\ (r.larger => auto)  BY DEF R
<1>7. Len(b) \in Nat /\ DOMAIN b = 1..Len(b)  BY <1>4
<1>8. QED BY <1>5, <1>6, <1>7 DEF b

(* A cache takes, with what is held beside it, what its room leaves.       *)
CacheFits(l, cached, left) ==
  /\ cached.bytes \in Nat \ {0} /\ cached.slots \in Nat
  /\ cached.larger \in BOOLEAN /\ cached.grow \in BOOLEAN
  /\ cached.larger => ~l.large_ubatch
  /\ cached.bytes + cached.slots + (IF cached.larger THEN Larger ELSE 0) <= left

LEMMA CacheInIs ==
  ASSUME NEW l \in Loads, NEW left \in Int, NEW in_ram \in Nat, NEW slots \in Nat
  PROVE  LET cached == CacheIn(l, left, in_ram, Beside(~l.large_ubatch, slots))
         IN  cached = NoCache \/ CacheFits(l, cached, left)
<1> DEFINE most(b) == Least(left - (IF b.larger THEN Larger ELSE 0) - b.slots, in_ram)
<1>1. PICK b : b = Beside(~l.large_ubatch, slots)  OBVIOUS
<1>2. /\ Len(b) \in Nat /\ DOMAIN b = 1..Len(b)
      /\ \A i \in DOMAIN b : /\ b[i].larger \in BOOLEAN /\ b[i].slots \in Nat
                             /\ b[i].larger => ~l.large_ubatch
  <2>1. PICK auto \in BOOLEAN : auto = ~l.large_ubatch  OBVIOUS
  <2>2. QED BY <1>1, <2>1, BesideIs
<1>3. Larger \in Nat  BY SizingAssumption
<1>4. PICK bytes : bytes = [i \in DOMAIN b |-> SizeCache(l, most(b[i]))]  OBVIOUS
<1>5. ASSUME NEW i \in DOMAIN b
      PROVE  /\ b[i].slots \in Nat /\ b[i].larger \in BOOLEAN /\ bytes[i] \in Nat
             /\ bytes[i] > 0 =>
                  bytes[i] + b[i].slots + (IF b[i].larger THEN Larger ELSE 0) <= left
  <2>2. b[i].slots \in Nat /\ b[i].larger \in BOOLEAN  BY <1>2
  <2>3. most(b[i]) \in Int
        /\ most(b[i]) <= left - (IF b[i].larger THEN Larger ELSE 0) - b[i].slots
    BY <1>3, <2>2 DEF Least
  <2>4. bytes[i] = SizeCache(l, most(b[i]))  BY <1>4
  <2> HIDE DEF most
  <2>5. bytes[i] \in Nat /\ (bytes[i] > 0 => bytes[i] <= most(b[i]))
    BY <2>3, <2>4, SizeCacheIs
  <2>6. QED BY <1>3, <2>2, <2>3, <2>5
<1>6. CacheIn(l, left, in_ram, b) = CacheBeside(l, b, bytes)  BY <1>4 DEF CacheIn
<1> HIDE DEF most
<1> DEFINE taken == {i \in DOMAIN b : bytes[i] > 0 /\ (i = Len(b) \/ AsAsked(l, bytes[i]))}
           i == Min(taken)
           cached == [bytes |-> bytes[i], larger |-> b[i].larger,
                      slots |-> b[i].slots, grow |-> l.cache.kind # "mib"]
<1>7. CASE taken = {}
  <2>1. CacheBeside(l, b, bytes) = NoCache  BY <1>7 DEF CacheBeside
  <2>2. QED BY <1>1, <1>6, <2>1
<1>8. CASE taken # {}
  <2>1. CacheBeside(l, b, bytes) = cached  BY <1>8 DEF CacheBeside
  <2>2. taken \subseteq Nat  BY <1>2
  <2>3. i \in taken
    <3> HIDE DEF taken
    <3> QED BY <1>8, <2>2, MinIsThere
  <2>4. i \in DOMAIN b /\ bytes[i] > 0  BY <2>3
  <2> HIDE DEF i, taken
  <2>5. CacheFits(l, cached, left)  BY <1>2, <1>5, <2>4 DEF CacheFits
  <2>6. QED BY <1>1, <1>6, <2>1, <2>5
<1>9. QED BY <1>7, <1>8

LEMMA PlanMoeCacheIs ==
  ASSUME NEW l \in Loads, NEW c \in Nat, NEW room \in Nat
  PROVE  LET experts == AllExperts(l.model)
             cached  == PlanMoeCache(l, c, room, InRam(l), experts)
         IN  /\ \/ cached = NoCache
                \/ CacheFits(l, cached, Usable(room) - Fixed(l.model, c)
                                          - ExpertsFrom(l.model, Out(l)))
             /\ ~l.cpu_moe /\ l.n_cpu_moe = 0 /\ Fixed(l.model, c) + experts <= Usable(room)
                  => cached = NoCache
<1> DEFINE experts == AllExperts(l.model)
           cached == PlanMoeCache(l, c, room, InRam(l), experts)
           left == Usable(room) - Fixed(l.model, c) - (experts - InRam(l))
           slots == IF InRam(l) <= Pinnable THEN l.slots ELSE 0
<1>1. /\ ModelIsSound(l.model) /\ l.slots \in Nat  BY LoadTyped
<1>2. InRam(l) \in Nat /\ experts - InRam(l) = ExpertsFrom(l.model, Out(l))  BY OutIs
<1>3. experts \in Nat /\ Fixed(l.model, c) \in Nat /\ Usable(room) \in Nat
  <2>1. experts \in Nat
    <3>1. 0 \in Nat  OBVIOUS
    <3>2. QED BY <1>1, <3>1, ExpertsAre
  <2>2. Fixed(l.model, c) \in Nat  BY <1>1, FixedIs
  <2>3. QED BY <2>1, <2>2, UsableIs
<1>4. left \in Int /\ slots \in Nat  BY <1>1, <1>2, <1>3
<1>5. cached = NoCache \/ cached = CacheIn(l, left, InRam(l), Beside(~l.large_ubatch, slots))
  BY DEF PlanMoeCache
<1>6. ~l.cpu_moe /\ l.n_cpu_moe = 0 /\ Fixed(l.model, c) + experts <= Usable(room)
        => cached = NoCache
  BY DEF PlanMoeCache
<1> HIDE DEF cached, slots
<1>7. cached = NoCache \/ CacheFits(l, cached, left)
  <2> HIDE DEF left
  <2>1. QED BY <1>2, <1>4, <1>5, CacheInIs
<1>8. QED BY <1>2, <1>6, <1>7 DEF cached
-----------------------------------------------------------------------------
(* The plan. *)

LEMMA ComputeFitWhole ==
  ASSUME NEW m, ModelIsSound(m), NEW bytes \in Nat, NEW c \in Nat, NEW room \in Nat
  PROVE  ComputeFit(m, bytes, c, room) = m.layers
           <=> bytes + Kv(m, m.layers, c) <= Usable(room)
BY ComputeFitIs

CachePlan(l, c, where, cached) ==
  [basis |-> "cache", window |-> c, sized |-> l.model.layers,
   layers |-> Least(l.model.layers, l.ceiling), out |-> Out(l),
   larger |-> cached.larger, mmproj |-> where, cache |-> cached]

SplitPlan(l, c, where, moe) ==
  [basis |-> moe.fit.basis, window |-> c, sized |-> moe.fit.layers,
   layers |-> Least(moe.fit.layers, l.ceiling), out |-> moe.fit.out,
   larger |-> moe.larger, mmproj |-> where, cache |-> NoCache]

CacheOf(l, c, room) == PlanMoeCache(l, c, room, InRam(l), AllExperts(l.model))
SplitOf(l, c, room) == MoeFitPlan(l.model, c, room, ~l.large_ubatch)
Flagged(l) == l.cpu_moe \/ l.n_cpu_moe > 0

LEMMA PlanForms ==
  ASSUME NEW l \in Loads, NEW c \in Nat, l.readable
  PROVE  LET where  == Mmproj(l, c)
             cached == CacheOf(l, c, Room(l, where))
             moe    == SplitOf(l, c, Room(l, where))
             split  == IsMoe(l.model) /\ ~Flagged(l) /\ moe.fit.out > 0
         IN  \/ cached # NoCache /\ PlanOffload(l, c) = CachePlan(l, c, where, cached)
             \/ cached = NoCache /\ split /\ PlanOffload(l, c) = SplitPlan(l, c, where, moe)
             \/ cached = NoCache /\ ~split /\ PlanOffload(l, c) = DensePlan(l, c, where)
<1>1. PICK where : where = Mmproj(l, c)  OBVIOUS
<1>2. PICK room : room = Room(l, where)  OBVIOUS
<1>3. PICK cached : cached = CacheOf(l, c, room)  OBVIOUS
<1>4. PICK moe : moe = SplitOf(l, c, room)  OBVIOUS
<1>5. PlanOffload(l, c) = PlanFor(l, c, where, room, cached, moe)
  BY <1>1, <1>2, <1>3, <1>4 DEF PlanOffload, PlanPlaced, PlanIn, CacheOf, SplitOf
<1>6. CASE cached # NoCache
  <2>1. PlanFor(l, c, where, room, cached, moe) = CachePlan(l, c, where, cached)
    BY <1>6 DEF PlanFor, CachePlan
  <2>2. QED BY <1>1, <1>2, <1>3, <1>5, <1>6, <2>1
<1>7. CASE cached = NoCache /\ IsMoe(l.model) /\ ~Flagged(l) /\ moe.fit.out > 0
  <2>1. PlanFor(l, c, where, room, cached, moe) = SplitPlan(l, c, where, moe)
    BY <1>7 DEF PlanFor, SplitPlan, Flagged
  <2>2. QED BY <1>1, <1>2, <1>3, <1>4, <1>5, <1>7, <2>1
<1>8. CASE cached = NoCache /\ ~(IsMoe(l.model) /\ ~Flagged(l) /\ moe.fit.out > 0)
  <2>1. PlanFor(l, c, where, room, cached, moe) = DensePlan(l, c, where)
    BY <1>2, <1>8 DEF PlanFor, DensePlan, Flagged
  <2>2. QED BY <1>1, <1>2, <1>3, <1>4, <1>5, <1>8, <2>1
<1>9. QED BY <1>6, <1>7, <1>8

(* A split is one that fits the room, or for the larger micro-batch what   *)
(* this leaves of it.                                                      *)
LEMMA SplitIs ==
  ASSUME NEW l \in Loads, NEW c \in Nat, NEW room \in Nat
  PROVE  LET moe == SplitOf(l, c, room)
         IN  \/ moe.larger = FALSE /\ moe.fit = ComputeMoeFit(l.model, c, room)
             \/ /\ moe.larger = TRUE /\ ~l.large_ubatch
                /\ moe.fit = ComputeMoeFit(l.model, c, Less(room, Larger))
                /\ moe.fit.basis = "experts" /\ moe.fit.out > 0
                /\ ComputeMoeFit(l.model, c, room).out > 0
<1>1. PICK first : first = ComputeMoeFit(l.model, c, room)  OBVIOUS
<1>2. PICK again : again = ComputeMoeFit(l.model, c, Less(room, Larger))  OBVIOUS
<1>3. SplitOf(l, c, room) = LargerIfItHolds(~l.large_ubatch, first, again)
  BY <1>1, <1>2 DEF SplitOf, MoeFitPlan
<1>4. QED BY <1>1, <1>2, <1>3 DEF LargerIfItHolds, HasExpertsOut

LEMMA LeastIs ==
  ASSUME NEW a \in Nat, NEW b \in Nat
  PROVE  Least(a, b) \in Nat /\ Least(a, b) <= a /\ Least(a, b) <= b
BY DEF Least

(* What is true of every plan.                                             *)
PlanTyped(l, p) ==
  /\ p.window \in Nat /\ p.out \in Nat
  /\ p.sized \in 0..l.model.layers /\ p.layers \in 0..l.model.layers
  /\ p.layers = Least(p.sized, l.ceiling)
  /\ p.cache.bytes \in Nat
  /\ p.cache.bytes > 0 => p.cache.slots \in Nat /\ p.cache.grow \in BOOLEAN
  /\ p.basis # "unknown" <=> l.readable

LEMMA PlanIsTyped ==
  ASSUME NEW l \in Loads, NEW c \in Nat
  PROVE  PlanTyped(l, PlanOffload(l, c)) /\ PlanOffload(l, c).window = c
<1> DEFINE m == l.model
           where == Mmproj(l, c)
           room == Room(l, where)
<1>1. /\ ModelIsSound(m) /\ l.ceiling \in Nat /\ m.layers \in Nat \ {0}
      /\ l.n_cpu_moe \in Nat /\ Out(l) \in Nat /\ room \in Nat
  BY LoadTyped, ModelTyped, OutIs, RoomIs
<1>2. \A n \in 0..m.layers : Least(n, l.ceiling) \in 0..m.layers
  BY <1>1 DEF Least
<1>3. m.layers \in 0..m.layers  BY <1>1
<1>4. CASE ~l.readable
  <2>1. PlanOffload(l, c) = PlanUnknown(l, c)  BY <1>4 DEF PlanOffload
  <2>2. QED BY <1>1, <1>2, <1>3, <1>4, <2>1 DEF PlanUnknown, PlanTyped, NoCache
<1>5. CASE l.readable
  <2>1. PICK cached : cached = CacheOf(l, c, room)  OBVIOUS
  <2>2. PICK moe : moe = SplitOf(l, c, room)  OBVIOUS
  <2>3. CASE cached # NoCache /\ PlanOffload(l, c) = CachePlan(l, c, where, cached)
    <3>1. /\ cached.bytes \in Nat \ {0} /\ cached.slots \in Nat
          /\ cached.grow \in BOOLEAN
      BY <1>1, <2>1, <2>3, PlanMoeCacheIs DEF CacheOf, CacheFits
    <3>2. QED BY <1>1, <1>2, <1>3, <1>5, <2>3, <3>1 DEF CachePlan, PlanTyped
  <2>4. CASE PlanOffload(l, c) = SplitPlan(l, c, where, moe)
    <3>1. \/ moe.fit = ComputeMoeFit(m, c, room)
          \/ moe.fit = ComputeMoeFit(m, c, Less(room, Larger))
      BY <1>1, <2>2, SplitIs
    <3>2. Less(room, Larger) \in Nat  BY <1>1, SizingAssumption, LessIs
    <3>3. moe.fit.layers \in 0..m.layers /\ moe.fit.out \in 0..m.layers
          /\ moe.fit.basis \in {"partial", "experts"}
      BY <1>1, <3>1, <3>2, ComputeMoeFitIs
    <3>4. QED BY <1>1, <1>2, <1>5, <2>4, <3>3 DEF SplitPlan, PlanTyped, NoCache
  <2>5. CASE PlanOffload(l, c) = DensePlan(l, c, where)
    <3>1. ComputeFit(m, FileSize(m), c, room) \in 0..m.layers
      BY <1>1, FileSizeIs, ComputeFitIs
    <3>2. QED BY <1>1, <1>2, <1>5, <2>5, <3>1 DEF DensePlan, PlanTyped, NoCache
  <2>6. QED BY <1>5, <2>1, <2>2, <2>3, <2>4, <2>5, PlanForms
<1>6. QED BY <1>1, <1>4, <1>5, LoadTyped

(* What ProjectorIsFree says of a plan.                                    *)
LEMMA ProjectorOnTheCard ==
  ASSUME NEW l \in Loads, NEW c \in Nat, l.offload = "auto", l.projector > 0,
         PlanOffload(l, c).mmproj = "gpu", l.model.table = 0
  PROVE  /\ PlanOffload(l, c).layers = Least(l.model.layers, l.ceiling)
         /\ PlanOffload(l, c).out = IF l.cpu_moe THEN l.model.layers ELSE l.n_cpu_moe
<1> DEFINE m == l.model
           where == Mmproj(l, c)
           room == Room(l, where)
           experts == AllExperts(m)
<1>1. /\ ModelIsSound(m) /\ m.layers \in Nat \ {0} /\ m.rest \in Nat
      /\ l.n_cpu_moe \in Nat /\ l.cpu_moe \in BOOLEAN /\ room \in Nat
  BY LoadTyped, ModelTyped, RoomIs
<1>2. l.readable
  <2>1. PlanUnknown(l, c).mmproj = "follow"  BY DEF PlanUnknown
  <2>2. QED BY <2>1 DEF PlanOffload
<1>3. PICK cached : cached = CacheOf(l, c, room)  OBVIOUS
<1>4. PICK moe : moe = SplitOf(l, c, room)  OBVIOUS
<1>5. PlanOffload(l, c).mmproj = where
  BY <1>2, <1>3, <1>4, PlanForms DEF CachePlan, SplitPlan, DensePlan
<1>6. where = "gpu" /\ FitsWhole(m, c, room)
  <2>1. where = "gpu"  BY <1>5
  <2>2. where = IF FitsWhole(m, c, Room(l, "gpu")) THEN "gpu" ELSE "cpu"  BY MmprojIs
  <2>3. QED BY <2>1, <2>2
<1>7. 0 \in Nat  OBVIOUS
<1>8. experts \in Nat /\ Fixed(m, c) \in Nat /\ Usable(room) \in Nat
      /\ Fixed(m, c) = m.rest + Kv(m, m.layers, c) /\ Kv(m, m.layers, c) \in Nat
  BY <1>1, <1>7, ExpertsAre, FixedIs, UsableIs, KvIs
<1>9. FileSize(m) \in Nat /\ FileSize(m) = m.rest + experts
  <2>1. FileSize(m) \in Nat /\ FileSize(m) = m.rest + experts + m.table  BY <1>1, FileSizeIs
  <2>2. QED BY <1>1, <1>8, <2>1
<1>10. /\ Fixed(m, c) + experts <= Usable(room)
       /\ IsMoe(m) => ComputeMoeFit(m, c, room).out = 0
  <2>1. CASE IsMoe(m)
    <3>1. ComputeMoeFit(m, c, room).out = 0  BY <1>6, <2>1 DEF FitsWhole
    <3>2. QED BY <1>1, <3>1, ComputeMoeFitIs
  <2>2. CASE ~IsMoe(m)
    <3>1. ComputeFit(m, FileSize(m), c, room) = m.layers  BY <1>6, <2>2 DEF FitsWhole
    <3>2. FileSize(m) + Kv(m, m.layers, c) <= Usable(room)
      BY <1>1, <1>9, <3>1, ComputeFitIs
    <3>3. QED BY <1>1, <1>8, <1>9, <2>2, <3>2
  <2>3. QED BY <2>1, <2>2
<1>11. cached # NoCache => Flagged(l)
  <2>1. ~l.cpu_moe /\ l.n_cpu_moe = 0 => cached = NoCache
    BY <1>1, <1>3, <1>10, PlanMoeCacheIs DEF CacheOf
  <2>2. QED BY <1>1, <2>1 DEF Flagged
<1>12. Flagged(l) => Out(l) = IF l.cpu_moe THEN m.layers ELSE l.n_cpu_moe
  BY <1>1 DEF Flagged, Out
<1>13. CASE cached # NoCache /\ PlanOffload(l, c) = CachePlan(l, c, where, cached)
  BY <1>11, <1>12, <1>13 DEF CachePlan
<1>14. IsMoe(m) => moe.fit.out = 0
  <2>1. ASSUME IsMoe(m) PROVE moe.fit.out = 0
    <3>1. ComputeMoeFit(m, c, room).out = 0  BY <1>10, <2>1
    <3>2. ~(ComputeMoeFit(m, c, room).out > 0)  BY <3>1
    <3>3. moe.fit = ComputeMoeFit(m, c, room)  BY <1>1, <1>4, <3>2, SplitIs
    <3>4. QED BY <3>1, <3>3
  <2>2. QED BY <2>1
<1>15. CASE PlanOffload(l, c) = DensePlan(l, c, where)
  <2>1. FileSize(m) + Kv(m, m.layers, c) <= Usable(room)  BY <1>1, <1>8, <1>9, <1>10
  <2>2. ComputeFit(m, FileSize(m), c, room) = m.layers  BY <1>1, <1>9, <2>1, ComputeFitWhole
  <2>3. PlanOffload(l, c).layers = Least(m.layers, l.ceiling)  BY <1>15, <2>2 DEF DensePlan
  <2>4. PlanOffload(l, c).out = IF Flagged(l) THEN Out(l) ELSE 0
    BY <1>15 DEF DensePlan, Flagged
  <2>5. ~Flagged(l) => ~l.cpu_moe /\ l.n_cpu_moe = 0  BY <1>1 DEF Flagged
  <2>6. QED BY <1>12, <2>3, <2>4, <2>5
<1>16. ~(IsMoe(m) /\ moe.fit.out > 0)  BY <1>14
<1>17. QED BY <1>2, <1>3, <1>4, <1>13, <1>15, <1>16, PlanForms
-----------------------------------------------------------------------------
(* What is planned fits. *)

(* A share of a sum over the layers, rounded up, fits where the sum does.  *)
LEMMA Shares ==
  ASSUME NEW a \in Nat, NEW e \in Nat, NEW k \in Nat, NEW u \in Nat, NEW L \in Nat \ {0},
         a + L * e + L * k <= L * u
  PROVE  CeilDiv(a, L) + e + k <= u
<1>1. L * e \in Nat /\ L * k \in Nat /\ L * u \in Nat /\ L * (e + k) = L * e + L * k  OBVIOUS
<1>2. e + k <= u
  <2>1. L * (e + k) < L * (u + 1)
    <3>1. L * (u + 1) = L * u + L  OBVIOUS
    <3>2. QED BY <1>1, <3>1
  <2>2. e + k < u + 1  BY <2>1, TimesLess
  <2>3. QED BY <2>2
<1>3. PICK x \in Nat : x = u - e - k  BY <1>2
<1>4. L * x + L * (e + k) = L * u
  <2>1. u = x + (e + k)  BY <1>3
  <2>2. L * (x + (e + k)) = L * x + L * (e + k)  OBVIOUS
  <2>3. QED BY <2>1, <2>2
<1>5. a <= L * x
  <2>1. L * x \in Nat  BY <1>3
  <2>2. QED BY <1>1, <1>4, <2>1
<1>6. CeilDiv(a, L) \in Nat /\ CeilDiv(a, L) <= x  BY <1>3, <1>5, CeilDivIs
<1>7. QED BY <1>3, <1>6

LEMMA WeightsAre ==
  ASSUME NEW l \in Loads, NEW p, p.layers \in 0..l.model.layers, p.out \in Nat
  PROVE  LET m == l.model
             share == CeilDiv(m.rest * p.layers, m.layers)
         IN  /\ Weights(l, p) \in Nat /\ share \in Nat /\ share <= m.rest
             /\ Weights(l, p) <= share + ExpertsFrom(m, p.out)
             /\ Weights(l, p) <= share + ExpertsFrom(m, m.layers - p.layers)
<1> DEFINE m == l.model
           share == CeilDiv(m.rest * p.layers, m.layers)
<1>1. ModelIsSound(m) /\ m.layers \in Nat \ {0} /\ m.rest \in Nat  BY LoadTyped, ModelTyped
<1>2. p.layers \in Nat /\ p.layers <= m.layers /\ m.layers - p.layers \in Nat  BY <1>1
<1>3. m.rest * p.layers \in Nat /\ m.rest * p.layers <= m.layers * m.rest
  <2>1. m.rest * p.layers \in Nat /\ m.layers * m.rest = m.rest * m.layers  BY <1>1, <1>2
  <2>2. m.rest * p.layers <= m.rest * m.layers  BY <1>1, <1>2, TimesMono
  <2>3. QED BY <2>1, <2>2
<1>4. share \in Nat /\ share <= m.rest  BY <1>1, <1>3, CeilDivIs
<1> DEFINE first == Max({m.layers - p.layers, p.out})
<1>5. first \in Nat /\ m.layers - p.layers <= first /\ p.out <= first
  <2>1. PICK a \in Nat : a = m.layers - p.layers  BY <1>2
  <2>2. PICK b \in Nat : b = p.out  OBVIOUS
  <2>3. first = Max({a, b})  BY <2>1, <2>2
  <2>4. Max({a, b}) \in {a, b} /\ a <= Max({a, b}) /\ b <= Max({a, b})  BY MaxOfTwo
  <2>5. QED BY <2>1, <2>2, <2>3, <2>4
<1>6. Weights(l, p) = share + ExpertsFrom(m, first)  BY DEF Weights
<1> HIDE DEF share, first
<1>7. ExpertsFrom(m, first) \in Nat /\ ExpertsFrom(m, p.out) \in Nat
      /\ ExpertsFrom(m, m.layers - p.layers) \in Nat
  BY <1>1, <1>2, <1>5, ExpertsAre
<1>8. ExpertsFrom(m, first) <= ExpertsFrom(m, p.out)
      /\ ExpertsFrom(m, first) <= ExpertsFrom(m, m.layers - p.layers)
  BY <1>1, <1>2, <1>5, ExpertsMono
<1>9. QED BY <1>4, <1>6, <1>7, <1>8 DEF share

(* ChargedInFull, of a plan.                                               *)
Charged(l, p) ==
  \/ p.basis # "dense" \/ p.sized = l.model.layers
  \/ \A n \in 0..l.model.layers :
       Experts(l.model, n) * l.model.layers = n * AllExperts(l.model)

(* What a plan takes of the room: all but projector and smaller buffer.    *)
Taken(l, p) ==
  Weights(l, p) + Kv(l.model, p.layers, p.window) + p.cache.bytes
    + (IF p.larger /\ ~l.large_ubatch THEN Larger ELSE 0)

LEMMA CacheFitsRoom ==
  ASSUME NEW l \in Loads, NEW c \in Nat, NEW room \in Nat, NEW where, NEW cached,
         cached # NoCache, cached = CacheOf(l, c, room)
  PROVE  Taken(l, CachePlan(l, c, where, cached)) <= Usable(room)
<1> DEFINE m == l.model
           layers == Least(m.layers, l.ceiling)
<1>1. PICK p : p = CachePlan(l, c, where, cached)  OBVIOUS
<1>2. /\ ModelIsSound(m) /\ m.layers \in Nat \ {0} /\ m.rest \in Nat /\ l.ceiling \in Nat
      /\ Out(l) \in Nat /\ Larger \in Nat /\ l.large_ubatch \in BOOLEAN
  BY LoadTyped, ModelTyped, OutIs, SizingAssumption
<1>3. /\ p.layers = layers /\ p.out = Out(l) /\ p.window = c
      /\ p.cache = cached /\ p.larger = cached.larger
  BY <1>1 DEF CachePlan
<1>4. layers \in 0..m.layers /\ layers \in Nat /\ layers <= m.layers /\ m.layers \in Nat
      /\ c <= c
  BY <1>2 DEF Least
<1>5. /\ cached.bytes \in Nat /\ cached.slots \in Nat /\ cached.larger \in BOOLEAN
      /\ cached.bytes + cached.slots + (IF cached.larger THEN Larger ELSE 0)
           <= Usable(room) - Fixed(m, c) - ExpertsFrom(m, Out(l))
  BY PlanMoeCacheIs DEF CacheOf, CacheFits
<1>6. Weights(l, p) \in Nat /\ Weights(l, p) <= m.rest + ExpertsFrom(m, Out(l))
  <2>1. /\ Weights(l, p) \in Nat
        /\ CeilDiv(m.rest * p.layers, m.layers) \in Nat
        /\ CeilDiv(m.rest * p.layers, m.layers) <= m.rest
        /\ Weights(l, p) <= CeilDiv(m.rest * p.layers, m.layers) + ExpertsFrom(m, Out(l))
    BY <1>2, <1>3, <1>4, WeightsAre
  <2>2. ExpertsFrom(m, Out(l)) \in Nat  BY <1>2, ExpertsAre
  <2>3. QED BY <1>2, <2>1, <2>2
<1>7. Kv(m, layers, c) \in Nat /\ Kv(m, m.layers, c) \in Nat
      /\ Kv(m, layers, c) <= Kv(m, m.layers, c)
  BY <1>2, <1>4, KvIs, KvMono
<1>8. Fixed(m, c) = m.rest + Kv(m, m.layers, c)  BY <1>2, FixedIs
<1>9. ExpertsFrom(m, Out(l)) \in Nat /\ Usable(room) \in Nat  BY <1>2, ExpertsAre, UsableIs
<1>10. Taken(l, p) = Weights(l, p) + Kv(m, layers, c) + cached.bytes
                      + (IF cached.larger /\ ~l.large_ubatch THEN Larger ELSE 0)
  BY <1>3 DEF Taken
<1>11. QED BY <1>1, <1>2, <1>5, <1>6, <1>7, <1>8, <1>9, <1>10

(* Layers that fit beside what each holds of `bytes` and pays of the       *)
(* window fit as well when fewer of them are loaded.                       *)
LEMMA FewerLayersFit ==
  ASSUME NEW m, ModelIsSound(m), NEW bytes \in Nat, NEW c \in Nat, NEW room \in Nat,
         NEW layers \in 0..ComputeFit(m, bytes, c, room)
  PROVE  layers * bytes + m.layers * Kv(m, layers, c) <= m.layers * Usable(room)
<1>1. m.layers \in Nat \ {0}  BY ModelTyped
<1>2. PICK n \in 0..m.layers : n = ComputeFit(m, bytes, c, room)  BY ComputeFitIs
<1>3. n * bytes + m.layers * Kv(m, n, c) <= m.layers * Usable(room)  BY <1>2, ComputeFitIs
<1>4. n \in Nat /\ layers \in Nat /\ layers <= n /\ c <= c  BY <1>1, <1>2
<1>5. Kv(m, n, c) \in Nat /\ Kv(m, layers, c) \in Nat /\ Kv(m, layers, c) <= Kv(m, n, c)
  BY <1>4, KvIs, KvMono
<1>6. m.layers * Kv(m, layers, c) <= m.layers * Kv(m, n, c)
      /\ m.layers * Kv(m, layers, c) \in Nat
  BY <1>1, <1>5, TimesMono
<1>7. layers * bytes <= n * bytes /\ layers * bytes \in Nat  BY <1>4, TimesMono
<1>8. n * bytes \in Nat /\ m.layers * Kv(m, n, c) \in Nat /\ m.layers * Usable(room) \in Nat
  BY <1>1, <1>4, <1>5, UsableIs
<1>9. QED BY <1>3, <1>6, <1>7, <1>8

LEMMA SplitFitsRoom ==
  ASSUME NEW l \in Loads, NEW c \in Nat, NEW room \in Nat, NEW where, NEW moe,
         moe = SplitOf(l, c, room)
  PROVE  Taken(l, SplitPlan(l, c, where, moe)) <= Usable(room)
<1> DEFINE m == l.model
           layers == Least(moe.fit.layers, l.ceiling)
<1>1. PICK p : p = SplitPlan(l, c, where, moe)  OBVIOUS
<1>2. /\ ModelIsSound(m) /\ m.layers \in Nat \ {0} /\ m.rest \in Nat /\ l.ceiling \in Nat
      /\ Larger \in Nat /\ l.large_ubatch \in BOOLEAN /\ Usable(room) \in Nat
      /\ Reserve \in Nat /\ Compute \in Nat
  BY LoadTyped, ModelTyped, SizingAssumption, UsableIs
<1>3. /\ p.layers = layers /\ p.out = moe.fit.out /\ p.window = c
      /\ p.cache.bytes = 0 /\ p.larger = moe.larger
  BY <1>1 DEF SplitPlan, NoCache
<1>4. PICK there \in Nat :
        /\ moe.fit = ComputeMoeFit(m, c, there)
        /\ \/ moe.larger = FALSE /\ there = room
           \/ /\ moe.larger = TRUE /\ there = Less(room, Larger) /\ moe.fit.basis = "experts"
  <2>1. Less(room, Larger) \in Nat  BY <1>2, LessIs
  <2>2. CASE moe.larger = FALSE /\ moe.fit = ComputeMoeFit(m, c, room)  BY <2>2
  <2>3. CASE moe.larger = TRUE /\ moe.fit = ComputeMoeFit(m, c, Less(room, Larger))
             /\ moe.fit.basis = "experts"
    BY <2>1, <2>3
  <2>4. QED BY <2>2, <2>3, SplitIs
<1>5. /\ moe.fit.layers \in 0..m.layers /\ moe.fit.out \in 0..m.layers
      /\ \/ /\ moe.fit.basis = "partial" /\ moe.fit.out = m.layers
            /\ moe.fit.layers = ComputeFit(m, m.rest, c, there)
         \/ /\ moe.fit.basis = "experts" /\ moe.fit.layers = m.layers
            /\ Usable(there) - Fixed(m, c) > 0
            /\ Fixed(m, c) + ExpertsFrom(m, moe.fit.out) <= Usable(there)
  BY <1>2, <1>4, ComputeMoeFitIs
<1>6. layers \in 0..moe.fit.layers /\ layers \in 0..m.layers /\ layers \in Nat
      /\ layers <= m.layers /\ m.layers \in Nat /\ c <= c /\ moe.fit.out \in Nat
  BY <1>2, <1>5 DEF Least
<1>7. /\ Kv(m, layers, c) \in Nat /\ Kv(m, m.layers, c) \in Nat
      /\ Kv(m, layers, c) <= Kv(m, m.layers, c)
  BY <1>2, <1>6, KvIs, KvMono
<1> DEFINE share == CeilDiv(m.rest * layers, m.layers)
<1>8. /\ Weights(l, p) \in Nat /\ share \in Nat /\ share <= m.rest
      /\ Weights(l, p) <= share + ExpertsFrom(m, moe.fit.out)
  BY <1>3, <1>6, WeightsAre
<1> HIDE DEF share, layers
<1>9. Taken(l, p) = Weights(l, p) + Kv(m, layers, c) + 0
                      + (IF moe.larger /\ ~l.large_ubatch THEN Larger ELSE 0)
  BY <1>3 DEF Taken
<1>10. ExpertsFrom(m, moe.fit.out) \in Nat /\ Usable(there) \in Nat
       /\ Fixed(m, c) \in Nat /\ Fixed(m, c) = m.rest + Kv(m, m.layers, c)
  BY <1>2, <1>4, <1>6, ExpertsAre, UsableIs, FixedIs
<1>11. CASE moe.fit.basis = "partial"
  <2>1. moe.larger = FALSE /\ there = room  BY <1>4, <1>11
  <2>2. moe.fit.out = m.layers /\ moe.fit.layers = ComputeFit(m, m.rest, c, room)
    BY <1>5, <1>11, <2>1
  <2>3. layers * m.rest + m.layers * Kv(m, layers, c) <= m.layers * Usable(room)
    BY <1>2, <1>6, <2>2, FewerLayersFit
  <2>4. m.rest * layers = layers * m.rest /\ m.rest * layers \in Nat
        /\ m.layers * 0 = 0
    BY <1>2, <1>6
  <2>5. m.layers * Kv(m, layers, c) \in Nat /\ m.layers * Usable(room) \in Nat
    BY <1>2, <1>7
  <2>6. m.rest * layers + m.layers * 0 + m.layers * Kv(m, layers, c) <= m.layers * Usable(room)
    BY <2>3, <2>4, <2>5
  <2>7. share + 0 + Kv(m, layers, c) <= Usable(room)
    BY <1>2, <1>7, <2>4, <2>6, Shares DEF share
  <2>8. ExpertsFrom(m, moe.fit.out) = 0
    BY <1>2, <1>6, <2>2, ExpertsAre
  <2>9. QED BY <1>1, <1>2, <1>7, <1>8, <1>9, <2>1, <2>7, <2>8
<1>12. CASE moe.fit.basis = "experts"
  <2>1. Fixed(m, c) + ExpertsFrom(m, moe.fit.out) <= Usable(there) /\ Usable(there) > 0
    BY <1>5, <1>10, <1>12
  <2>2. Usable(there) + (IF moe.larger THEN Larger ELSE 0) <= Usable(room)
    <3>1. CASE moe.larger = FALSE /\ there = room  BY <1>2, <3>1
    <3>2. CASE moe.larger = TRUE /\ there = Less(room, Larger)
      <4>1. Usable(there) = there - (Reserve + Compute) /\ there > Reserve + Compute
        BY <1>2, <2>1, UsableIs
      <4>2. there = room - Larger  BY <1>2, <3>2, <4>1 DEF Less
      <4>3. room > Reserve + Compute  BY <1>2, <4>1, <4>2
      <4>4. Usable(room) = room - (Reserve + Compute)  BY <4>3, UsableIs
      <4>5. QED BY <1>2, <3>2, <4>1, <4>2, <4>4
    <3>3. QED BY <1>4, <3>1, <3>2
  <2>3. moe.larger \in BOOLEAN  BY <1>4
  <2>4. QED BY <1>1, <1>2, <1>7, <1>8, <1>9, <1>10, <2>1, <2>2, <2>3
<1>13. QED BY <1>5, <1>11, <1>12

LEMMA DenseFitsRoom ==
  ASSUME NEW l \in Loads, NEW c \in Nat, NEW where,
         Charged(l, DensePlan(l, c, where))
  PROVE  Taken(l, DensePlan(l, c, where)) <= Usable(Room(l, where))
<1> DEFINE m == l.model
           all == AllExperts(m)
<1>0. PICK room \in Nat : room = Room(l, where)  BY RoomIs
<1>1. PICK p : p = DensePlan(l, c, where)  OBVIOUS
<1>2. /\ ModelIsSound(m) /\ m.layers \in Nat \ {0} /\ m.rest \in Nat /\ m.table \in Nat
      /\ l.ceiling \in Nat /\ Usable(room) \in Nat /\ Out(l) \in Nat /\ 0 \in Nat
  BY LoadTyped, ModelTyped, UsableIs, OutIs
<1>3. all \in Nat /\ FileSize(m) \in Nat /\ FileSize(m) = m.rest + all + m.table
  BY <1>2, ExpertsAre, FileSizeIs
<1>4. PICK n \in 0..m.layers : n = ComputeFit(m, FileSize(m), c, room)
  BY <1>2, <1>3, ComputeFitIs
<1>5. /\ p.sized = n /\ p.layers = Least(n, l.ceiling) /\ p.window = c
      /\ p.cache.bytes = 0 /\ p.larger = FALSE /\ p.basis = "dense" /\ p.out \in Nat
  BY <1>0, <1>1, <1>2, <1>4 DEF DensePlan, NoCache
<1>6. PICK layers \in Nat : layers = p.layers /\ layers \in 0..n /\ layers \in 0..m.layers
                            /\ layers <= m.layers /\ c <= c /\ m.layers - layers \in 0..m.layers
  BY <1>2, <1>5 DEF Least
<1>7. Kv(m, layers, c) \in Nat  BY <1>2, <1>6, KvIs
<1> DEFINE share == CeilDiv(m.rest * layers, m.layers)
<1>8. /\ Weights(l, p) \in Nat /\ share \in Nat /\ share <= m.rest
      /\ Weights(l, p) <= share + ExpertsFrom(m, p.out)
      /\ Weights(l, p) <= share + ExpertsFrom(m, m.layers - layers)
  BY <1>5, <1>6, WeightsAre
<1> HIDE DEF share
<1>9. Taken(l, p) = Weights(l, p) + Kv(m, layers, c)
  <2>1. Taken(l, p) = Weights(l, p) + Kv(m, layers, c) + 0 + 0  BY <1>5, <1>6 DEF Taken
  <2>2. QED BY <1>7, <1>8, <2>1
<1>10. CASE n = m.layers
  <2>1. FileSize(m) + Kv(m, m.layers, c) <= Usable(room)
    BY <1>2, <1>3, <1>4, <1>10, ComputeFitWhole
  <2>2. m.layers \in Nat  BY <1>2
  <2>3. Kv(m, m.layers, c) \in Nat /\ Kv(m, layers, c) <= Kv(m, m.layers, c)
    BY <1>2, <1>6, <2>2, KvIs, KvMono
  <2>4. ExpertsFrom(m, p.out) \in Nat /\ ExpertsFrom(m, p.out) <= all
    <3>1. ExpertsFrom(m, p.out) = all - Experts(m, p.out) /\ Experts(m, p.out) \in Nat
          /\ ExpertsFrom(m, p.out) \in Nat
      BY <1>2, <1>5, ExpertsAre
    <3>2. QED BY <1>3, <3>1
  <2>5. QED BY <1>0, <1>1, <1>2, <1>3, <1>7, <1>8, <1>9, <2>1, <2>3, <2>4
<1>11. CASE \A k \in 0..m.layers : Experts(m, k) * m.layers = k * all
  <2>1. layers * FileSize(m) + m.layers * Kv(m, layers, c) <= m.layers * Usable(room)
    BY <1>2, <1>3, <1>4, <1>6, FewerLayersFit
  <2>2. PICK k \in Nat : k = m.layers - layers /\ k \in 0..m.layers  BY <1>2, <1>6
  <2>3. PICK e \in Nat : e = ExpertsFrom(m, k) /\ e = all - Experts(m, k) /\ Experts(m, k) \in Nat
    BY <1>2, <2>2, ExpertsAre
  <2>4. m.layers * e = layers * all
    <3>1. Experts(m, k) * m.layers = k * all  BY <1>11, <2>2
    <3>2. PICK x \in Nat : x = Experts(m, k)  BY <2>3
    <3>3. PICK L \in Nat : L = m.layers  BY <1>2
    <3>4. x * L = k * all /\ k = L - layers /\ e = all - x  BY <2>2, <2>3, <3>1, <3>2, <3>3
    <3>5. L * e = L * all - x * L  BY <1>3, <3>4
    <3>6. k * all = L * all - layers * all  BY <1>3, <3>4
    <3>7. L * all \in Int /\ layers * all \in Int  BY <1>3
    <3>8. QED BY <3>3, <3>4, <3>5, <3>6, <3>7
  <2>5. layers * FileSize(m) = m.rest * layers + layers * all + layers * m.table
    BY <1>2, <1>3
  <2>6. /\ m.rest * layers \in Nat /\ layers * all \in Nat /\ layers * m.table \in Nat
        /\ m.layers * Kv(m, layers, c) \in Nat /\ m.layers * Usable(room) \in Nat
    BY <1>2, <1>3, <1>7
  <2>7. m.rest * layers + m.layers * e + m.layers * Kv(m, layers, c) <= m.layers * Usable(room)
    BY <2>1, <2>4, <2>5, <2>6
  <2>8. share + e + Kv(m, layers, c) <= Usable(room)
    BY <1>2, <1>7, <2>6, <2>7, Shares DEF share
  <2>9. Weights(l, p) <= share + e  BY <1>8, <2>2, <2>3
  <2>10. QED BY <1>0, <1>1, <1>2, <1>7, <1>8, <1>9, <2>8, <2>9
<1>12. QED BY <1>1, <1>5, <1>10, <1>11 DEF Charged
-----------------------------------------------------------------------------
(* What a load finds, as a function of what was planned. *)

FreeOf(l, p, c, bytes, more) ==
  l.free - Weights(l, p) - Projector(l, p) - Buffer(l, p) - Kv(l.model, p.layers, c) - bytes - more
ErrorOf(l, e) == IF l.projector > 0 THEN e + 1 ELSE e
FitsOf(l, p, e, c) == FreeOf(l, p, c, p.cache.bytes, ErrorOf(l, e)) >= Reserve

(* What SizedFits asks for.                                                *)
SureOf(l, p, e) ==
  /\ p.basis # "unknown" /\ Charged(l, p) /\ ErrorOf(l, e) <= 0
  /\ Room(l, p.mmproj) >= Reserve + Compute

LEMMA FreeIs ==
  /\ \A c, bytes, more : FreeWith(c, bytes, more) = FreeOf(load, plan, c, bytes, more)
  /\ \A c : ProbeFits(c) <=> FitsOf(load, plan, error, c)
BY DEF FreeWith, FreeOf, ProbeFits, FitsOf, ProbeError, ErrorOf

LEMMA FreeTyped ==
  ASSUME NEW l \in Loads, NEW p, PlanTyped(l, p), NEW c \in Nat, NEW bytes \in Int, NEW more \in Int
  PROVE  /\ FreeOf(l, p, c, bytes, more) \in Int
         /\ \A d \in Nat, b \in Int, e \in Int :
              c <= d /\ bytes <= b /\ more <= e
                => FreeOf(l, p, d, b, e) <= FreeOf(l, p, c, bytes, more)
         /\ FreeOf(l, p, c, bytes, more) = FreeOf(l, p, c, 0, 0) - bytes - more
<1>1. /\ ModelIsSound(l.model) /\ p.layers \in 0..l.model.layers /\ p.out \in Nat
      /\ l.model.layers \in Nat
  BY LoadTyped, ModelTyped DEF PlanTyped
<1>2. Weights(l, p) \in Nat  BY <1>1, WeightsAre
<1>3. p.layers \in Nat /\ p.layers <= p.layers  BY <1>1
<1>4. \A d \in Nat : Kv(l.model, p.layers, d) \in Nat  BY <1>1, <1>3, KvIs
<1>5. \A d \in Nat : c <= d => Kv(l.model, p.layers, c) <= Kv(l.model, p.layers, d)
  BY <1>1, <1>3, KvMono
<1>6. l.free \in Nat /\ Projector(l, p) \in Nat /\ Buffer(l, p) \in Nat
  BY LoadTyped, SizingAssumption DEF Projector, Buffer
<1>7. QED BY <1>2, <1>4, <1>5, <1>6 DEF FreeOf

LEMMA TakenFits ==
  ASSUME NEW l \in Loads, NEW c \in Nat, l.readable, Charged(l, PlanOffload(l, c))
  PROVE  Taken(l, PlanOffload(l, c)) <= Usable(Room(l, PlanOffload(l, c).mmproj))
<1>1. PICK where : where = Mmproj(l, c)  OBVIOUS
<1>2. PICK room \in Nat : room = Room(l, where)  BY RoomIs
<1>3. PICK cached : cached = CacheOf(l, c, room)  OBVIOUS
<1>4. PICK moe : moe = SplitOf(l, c, room)  OBVIOUS
<1>5. CASE cached # NoCache /\ PlanOffload(l, c) = CachePlan(l, c, where, cached)
  <2>1. PlanOffload(l, c).mmproj = where  BY <1>5 DEF CachePlan
  <2>2. QED BY <1>2, <1>3, <1>5, <2>1, CacheFitsRoom
<1>6. CASE PlanOffload(l, c) = SplitPlan(l, c, where, moe)
  <2>1. PlanOffload(l, c).mmproj = where  BY <1>6 DEF SplitPlan
  <2>2. QED BY <1>2, <1>4, <1>6, <2>1, SplitFitsRoom
<1>7. CASE PlanOffload(l, c) = DensePlan(l, c, where)
  <2>1. PlanOffload(l, c).mmproj = where  BY <1>7 DEF DensePlan
  <2>2. QED BY <1>7, <2>1, DenseFitsRoom
<1>8. QED BY <1>1, <1>2, <1>3, <1>4, <1>5, <1>6, <1>7, PlanForms

(* The reckoning of SizedFits: what is planned leaves the reserve, and     *)
(* what the companions need.                                               *)
LEMMA PlannedFits ==
  ASSUME NEW l \in Loads, NEW c \in Nat, NEW e \in Int, SureOf(l, PlanOffload(l, c), e)
  PROVE  LET p == PlanOffload(l, c)
         IN  /\ FitsOf(l, p, e, c)
             /\ FreeOf(l, p, c, p.cache.bytes, e) >= Reserve + l.companions
<1>1. PICK p : p = PlanOffload(l, c)  OBVIOUS
<1>2. PlanTyped(l, p) /\ p.window = c  BY <1>1, PlanIsTyped
<1>3. l.readable /\ Charged(l, p) /\ Room(l, p.mmproj) >= Reserve + Compute /\ ErrorOf(l, e) <= 0
  BY <1>1, <1>2 DEF SureOf, PlanTyped
<1>4. PICK room \in Nat : room = Room(l, p.mmproj)  BY RoomIs
<1>5. Taken(l, p) <= Usable(room)  BY <1>1, <1>3, <1>4, TakenFits
<1>6. /\ Reserve \in Nat /\ Compute \in Nat \ {0} /\ Larger \in Nat
      /\ l.free \in Nat /\ l.companions \in Nat /\ l.projector \in Nat
      /\ l.large_ubatch \in BOOLEAN
  BY SizingAssumption, LoadTyped
<1> DEFINE beside == IF p.mmproj = "cpu" THEN 0 ELSE l.projector
           large  == IF l.large_ubatch THEN Larger ELSE 0
           again  == IF p.larger /\ ~l.large_ubatch THEN Larger ELSE 0
<1>7. beside \in Nat /\ large \in Nat /\ again \in Nat  BY <1>6
<1>8. Spoken(l) = l.companions + large  BY DEF Spoken
<1>9. Projector(l, p) \in Nat /\ Projector(l, p) <= beside  BY <1>6 DEF Projector
<1>10. Buffer(l, p) = Compute + large + again  BY <1>6 DEF Buffer
<1>11. Taken(l, p) = Weights(l, p) + Kv(l.model, p.layers, c) + p.cache.bytes + again
  BY <1>2 DEF Taken
<1>12. room = Less(l.free, l.companions + large + beside)
  <2>1. room = Less(l.free, Spoken(l) + beside)  BY <1>4 DEF Room
  <2>2. QED BY <1>8, <2>1
<1> HIDE DEF beside, large, again
<1>13. room = l.free - (l.companions + large + beside)
  BY <1>3, <1>4, <1>6, <1>7, <1>12 DEF Less
<1>14. Usable(room) = room - (Reserve + Compute)
  BY <1>3, <1>4, <1>6, UsableIs
<1>15. Weights(l, p) \in Nat /\ Kv(l.model, p.layers, c) \in Nat /\ p.cache.bytes \in Nat
  <2>1. /\ ModelIsSound(l.model) /\ p.layers \in 0..l.model.layers /\ p.out \in Nat
        /\ l.model.layers \in Nat /\ p.layers \in Nat
    BY <1>2, LoadTyped, ModelTyped DEF PlanTyped
  <2>2. QED BY <1>2, <2>1, WeightsAre, KvIs DEF PlanTyped
<1>16. FreeOf(l, p, c, p.cache.bytes, 0) >= Reserve + l.companions
  <2>1. FreeOf(l, p, c, p.cache.bytes, 0)
          = l.free - Weights(l, p) - Projector(l, p) - (Compute + large + again)
              - Kv(l.model, p.layers, c) - p.cache.bytes
    BY <1>6, <1>7, <1>9, <1>10, <1>15 DEF FreeOf
  <2>2. QED BY <1>5, <1>6, <1>7, <1>9, <1>11, <1>13, <1>14, <1>15, <2>1
<1>17. e <= 0 /\ ErrorOf(l, e) \in Int  BY <1>3, <1>6 DEF ErrorOf
<1>18. /\ FreeOf(l, p, c, p.cache.bytes, e) >= FreeOf(l, p, c, p.cache.bytes, 0)
       /\ FreeOf(l, p, c, p.cache.bytes, ErrorOf(l, e)) >= FreeOf(l, p, c, p.cache.bytes, 0)
       /\ FreeOf(l, p, c, p.cache.bytes, 0) \in Int
       /\ FreeOf(l, p, c, p.cache.bytes, e) \in Int
       /\ FreeOf(l, p, c, p.cache.bytes, ErrorOf(l, e)) \in Int
  <2>1. p.cache.bytes \in Int /\ p.cache.bytes <= p.cache.bytes /\ c <= c /\ 0 \in Int  BY <1>15
  <2>2. \A x \in Int : /\ FreeOf(l, p, c, p.cache.bytes, x) \in Int
                       /\ FreeOf(l, p, c, p.cache.bytes, x) = FreeOf(l, p, c, 0, 0) - p.cache.bytes - x
                       /\ FreeOf(l, p, c, 0, 0) \in Int
    BY <1>2, <2>1, FreeTyped
  <2>3. PICK b \in Int : b = p.cache.bytes  BY <2>1
  <2>4. PICK z \in Int : z = FreeOf(l, p, c, 0, 0)  BY <2>2
  <2>5. PICK x \in Int : x = ErrorOf(l, e) /\ x <= 0  BY <1>3, <1>17
  <2>6. \A y \in {0, e, x} : FreeOf(l, p, c, b, y) = z - b - y
    BY <2>2, <2>3, <2>4
  <2>7. QED BY <1>17, <2>3, <2>5, <2>6
<1>19. QED BY <1>1, <1>6, <1>16, <1>18 DEF FitsOf
-----------------------------------------------------------------------------
(* The inductive invariant. *)

Unplanned == {"launch", "bisect", "plan"}
Probed == {"probe", "refine", "grow", "ready"}
Loaded == {"load", "refused", "allocate", "made", "serving", "failed"} \cup Probed
AsksAuto(l) == l.asked = CtxAuto /\ l.readable /\ ~IsMoe(l.model)

SizingTyped ==
  /\ load \in Loads /\ ctx \in Nat /\ known_bad \in Nat /\ error \in Int /\ cache \in Nat
  /\ span \in [lo : Int, hi : Int] /\ stage \in Unplanned \cup Loaded

(* auto_context has the answer between the two windows of its span.        *)
Bisected ==
  /\ stage = "bisect" =>
       /\ AsksAuto(load)
       /\ 0 <= span.lo /\ span.lo <= span.hi /\ span.hi <= Steps(load)
       /\ span.lo = 0 \/ WholeAt(load, Window(load, span.lo))
       /\ \A k \in (span.hi + 1)..Steps(load) : ~WholeAt(load, Window(load, k))
  /\ stage \in {"plan", "load"} /\ AsksAuto(load) => ctx = MostWhole(load)

PlanKept ==
  stage \in Loaded => plan.window \in Nat /\ plan = PlanOffload(load, plan.window)

(* The probe: what failed fails, what fits fits, and there is no more than *)
(* a step between them.                                                    *)
Bracketed ==
  /\ stage \in Unplanned \cup {"load"} => known_bad = 0
  /\ stage \in {"load", "allocate", "made", "serving"} => ctx = plan.window
  /\ stage \in Probed =>
       /\ known_bad = 0 => ctx = plan.window
       /\ known_bad # 0 => /\ ctx < known_bad /\ known_bad <= plan.window
                           /\ ~FitsOf(load, plan, error, known_bad)
  /\ stage \in {"refine", "grow"} => FitsOf(load, plan, error, ctx)
  /\ stage \in {"grow", "ready"} /\ known_bad # 0 =>
       known_bad <= ctx + RefineStep \/ ~FitsOf(load, plan, error, ctx + RefineStep)

(* A cache is as planned, or has grown and left the reserve.               *)
CacheKept ==
  /\ stage \in {"load", "probe", "refine", "grow", "allocate"} => cache = plan.cache.bytes
  /\ stage \in {"ready", "made", "serving"} =>
       \/ cache = plan.cache.bytes
       \/ cache > plan.cache.bytes /\ FreeOf(load, plan, ctx, cache, error) >= Reserve
  /\ stage = "ready" => FreeOf(load, plan, ctx, cache, error) >= Reserve

(* No load fails whose size was sure.                                      *)
FailsUnsized == stage = "failed" => ~SureOf(load, plan, error)

SizingInv == SizingTyped /\ Bisected /\ PlanKept /\ Bracketed /\ CacheKept /\ FailsUnsized

LEMMA SizingInitInv == SizingInit => SizingInv
BY DEF SizingInit, SizingInv, SizingTyped, Bisected, PlanKept, Bracketed, CacheKept,
       FailsUnsized, Unplanned, Loaded, Probed

LEMMA ResolveInv ==
  ASSUME SizingInv, Resolve PROVE SizingInv'
<1>1. /\ load \in Loads /\ load' = load /\ plan' = plan /\ error' = error
      /\ known_bad' = known_bad /\ cache' = cache /\ stage = "launch" /\ known_bad = 0
      /\ ctx \in Nat /\ error \in Int /\ cache \in Nat /\ span \in [lo : Int, hi : Int]
  BY DEF Resolve, SizingInv, SizingTyped, Bracketed, Unplanned
<1>2. /\ AutoLow(load) \in Nat /\ Steps(load) \in Nat /\ load.asked \in Nat /\ AutoFloor \in Nat
      /\ Window(load, 0) = AutoLow(load) /\ load.align \in Nat
      /\ \A k \in Nat : Window(load, k) \in Nat
  <2>1. load.align \in Nat \ {0} /\ load.asked \in Nat  BY <1>1, LoadTyped
  <2>2. AutoLow(load) \in Nat  BY <1>1, AutoBounds
  <2>3. Window(load, 0) = AutoLow(load)  BY <2>1, <2>2 DEF Window
  <2>4. Steps(load) \in Nat /\ \A k \in Nat : Window(load, k) \in Nat  BY <1>1, WindowsAre
  <2>5. QED BY <2>1, <2>2, <2>3, <2>4, SizingAssumption
<1>3. CASE ctx' \in Nat /\ stage' = "plan" /\ span' = span
           /\ (AsksAuto(load) => ctx' = MostWhole(load))
  BY <1>1, <1>3 DEF SizingInv, SizingTyped, Bisected, PlanKept, Bracketed, CacheKept,
                    FailsUnsized, Unplanned, Loaded, Probed
<1>4. CASE /\ ctx' = ctx /\ stage' = "bisect" /\ span' = [lo |-> 0, hi |-> Steps(load)]
           /\ AsksAuto(load)
  <2>1. span'.lo = 0 /\ span'.hi = Steps(load) /\ span' \in [lo : Int, hi : Int]
    BY <1>2, <1>4
  <2>2. \A k \in (span'.hi + 1)..Steps(load) : ~WholeAt(load, Window(load, k))
    BY <1>2, <2>1
  <2>3. QED BY <1>1, <1>2, <1>4, <2>1, <2>2
        DEF SizingInv, SizingTyped, Bisected, PlanKept, Bracketed, CacheKept,
            FailsUnsized, Unplanned, Loaded, Probed
<1>5. CASE load.asked # CtxAuto
  BY <1>2, <1>3, <1>5 DEF Resolve, AsksAuto
<1>6. CASE load.asked = CtxAuto /\ (IsMoe(load.model) \/ ~load.readable)
  BY <1>2, <1>3, <1>6 DEF Resolve, AsksAuto
<1>7. CASE load.asked = CtxAuto /\ ~(IsMoe(load.model) \/ ~load.readable)
           /\ ~WholeAt(load, AutoLow(load))
  <2>1. ctx' = AutoLow(load) /\ stage' = "plan" /\ span' = span  BY <1>7 DEF Resolve
  <2>2. \A j \in (0 + 1)..Steps(load) : ~WholeAt(load, Window(load, j))
    <3> SUFFICES ASSUME NEW j \in (0 + 1)..Steps(load), WholeAt(load, Window(load, j))
                 PROVE  FALSE
      OBVIOUS
    <3>1. j \in Nat /\ Window(load, j) \in Nat  BY <1>2
    <3>2. AutoLow(load) <= Window(load, j)
      <4>1. j * load.align \in Nat  BY <1>2, <3>1
      <4>2. QED BY <1>2, <4>1 DEF Window
    <3>3. QED BY <1>1, <1>2, <1>7, <3>1, <3>2, WholeAtAntitone
  <2>3. 0 \in 0..Steps(load)  BY <1>2
  <2>4. MostWhole(load) = Window(load, 0)  BY <1>1, <2>2, <2>3, MostWholeIs
  <2>5. QED BY <1>2, <1>3, <2>1, <2>4
<1>8. CASE load.asked = CtxAuto /\ ~(IsMoe(load.model) \/ ~load.readable)
           /\ WholeAt(load, AutoLow(load))
  <2>1. AsksAuto(load)  BY <1>1, <1>8, LoadTyped DEF AsksAuto
  <2>2. QED BY <1>4, <1>8, <2>1 DEF Resolve, Steps
<1>9. QED BY <1>5, <1>6, <1>7, <1>8

LEMMA BisectInv ==
  ASSUME SizingInv, Bisect PROVE SizingInv'
<1>1. /\ load \in Loads /\ load' = load /\ plan' = plan /\ error' = error
      /\ known_bad' = known_bad /\ cache' = cache /\ stage = "bisect" /\ known_bad = 0
      /\ ctx \in Nat /\ error \in Int /\ cache \in Nat /\ AsksAuto(load)
  BY DEF Bisect, SizingInv, SizingTyped, Bracketed, Bisected, Unplanned
<1>2. PICK lo \in Nat, hi \in Nat :
        /\ span = [lo |-> lo, hi |-> hi] /\ lo <= hi /\ hi <= Steps(load)
        /\ lo = 0 \/ WholeAt(load, Window(load, lo))
        /\ \A k \in (hi + 1)..Steps(load) : ~WholeAt(load, Window(load, k))
  <2>1. /\ span \in [lo : Int, hi : Int] /\ 0 <= span.lo /\ span.lo <= span.hi
        /\ span.hi <= Steps(load)
        /\ span.lo = 0 \/ WholeAt(load, Window(load, span.lo))
        /\ \A k \in (span.hi + 1)..Steps(load) : ~WholeAt(load, Window(load, k))
    BY <1>1 DEF SizingInv, SizingTyped, Bisected
  <2>2. span = [lo |-> span.lo, hi |-> span.hi]  BY <2>1
  <2>3. span.lo \in Nat /\ span.hi \in Nat  BY <2>1
  <2>4. QED BY <2>1, <2>2, <2>3
<1>3. Steps(load) \in Nat /\ \A k \in Nat : Window(load, k) \in Nat  BY <1>1, WindowsAre
<1>4. load.align \in Nat  BY <1>1, LoadTyped
<1>5. CASE lo < hi
  <2>1. PICK half \in Nat : half = CeilDiv(hi - lo, 2) /\ 0 < half /\ half <= hi - lo
    <3>1. hi - lo \in Nat /\ 2 \in Nat \ {0} /\ hi - lo <= 2 * (hi - lo)  BY <1>5
    <3>2. CeilDiv(hi - lo, 2) \in Nat /\ hi - lo <= 2 * CeilDiv(hi - lo, 2)
          /\ CeilDiv(hi - lo, 2) <= hi - lo
      BY <3>1, CeilDivIs
    <3>3. QED BY <1>5, <3>2
  <2>2. PICK mid \in Nat : mid = lo + half /\ lo < mid /\ mid <= hi  BY <2>1
  <2>3. /\ span' = IF WholeAt(load, Window(load, mid))
                     THEN [span EXCEPT !.lo = mid] ELSE [span EXCEPT !.hi = mid - 1]
        /\ ctx' = ctx /\ stage' = stage
    BY <1>2, <1>5, <2>1, <2>2 DEF Bisect, Window
  <2>4. CASE WholeAt(load, Window(load, mid))
    <3>1. span' = [lo |-> mid, hi |-> hi]  BY <1>2, <2>3, <2>4
    <3>2. QED BY <1>1, <1>2, <1>3, <2>2, <2>3, <2>4, <3>1
          DEF SizingInv, SizingTyped, Bisected, PlanKept, Bracketed, CacheKept,
              FailsUnsized, Unplanned, Loaded, Probed
  <2>5. CASE ~WholeAt(load, Window(load, mid))
    <3>1. span' = [lo |-> lo, hi |-> mid - 1]  BY <1>2, <2>3, <2>5
    <3>2. \A k \in ((mid - 1) + 1)..Steps(load) : ~WholeAt(load, Window(load, k))
      <4> SUFFICES ASSUME NEW k \in ((mid - 1) + 1)..Steps(load), WholeAt(load, Window(load, k))
                   PROVE  FALSE
        OBVIOUS
      <4>1. k \in Nat /\ mid <= k  BY <1>3, <2>2
      <4>2. Window(load, mid) <= Window(load, k)
        <5>1. mid * load.align <= k * load.align /\ mid * load.align \in Nat
              /\ k * load.align \in Nat
          BY <1>4, <4>1, TimesMono
        <5>2. AutoLow(load) \in Nat  BY <1>1, AutoBounds
        <5>3. QED BY <5>1, <5>2 DEF Window
      <4>3. QED BY <1>1, <1>3, <2>5, <4>1, <4>2, WholeAtAntitone
    <3>3. mid - 1 \in Nat /\ lo <= mid - 1 /\ mid - 1 <= Steps(load)  BY <1>2, <1>3, <2>2
    <3>4. span'.lo = lo /\ span'.hi = mid - 1 /\ span' \in [lo : Int, hi : Int]  BY <3>1, <3>3
    <3>5. QED BY <1>1, <1>2, <2>3, <3>2, <3>3, <3>4
          DEF SizingInv, SizingTyped, Bisected, PlanKept, Bracketed, CacheKept,
              FailsUnsized, Unplanned, Loaded, Probed
  <2>6. QED BY <2>4, <2>5
<1>6. CASE ~(lo < hi)
  <2>1. ctx' = Window(load, lo) /\ stage' = "plan" /\ span' = span
    BY <1>2, <1>6 DEF Bisect, Window
  <2>2. lo \in 0..Steps(load) /\ \A k \in (lo + 1)..Steps(load) : ~WholeAt(load, Window(load, k))
    <3>1. lo = hi  BY <1>2, <1>6
    <3>2. QED BY <1>2, <1>3, <3>1
  <2>3. ctx' = MostWhole(load)  BY <1>1, <1>2, <2>1, <2>2, MostWholeIs
  <2>4. ctx' \in Nat  BY <1>3, <2>1
  <2>5. span' \in [lo : Int, hi : Int]  BY <1>2, <2>1
  <2>6. QED BY <1>1, <2>1, <2>3, <2>4, <2>5
        DEF SizingInv, SizingTyped, Bisected, PlanKept, Bracketed, CacheKept,
            FailsUnsized, Unplanned, Loaded, Probed
<1>7. QED BY <1>5, <1>6

(* A window that fits, with a longer one or a greater error that does not. *)
LEMMA FitsAntitone ==
  ASSUME NEW l \in Loads, NEW p, PlanTyped(l, p), NEW c \in Nat, NEW d \in Nat,
         NEW e \in Int, NEW f \in Int, c <= d, e <= f, FitsOf(l, p, f, d)
  PROVE  FitsOf(l, p, e, c)
<1>1. p.cache.bytes \in Int  BY DEF PlanTyped
<1>2. PICK b \in Int : b = p.cache.bytes  BY <1>1
<1>3. ErrorOf(l, e) \in Int /\ ErrorOf(l, f) \in Int /\ ErrorOf(l, e) <= ErrorOf(l, f)
  BY DEF ErrorOf
<1>4. PICK x \in Int, y \in Int : x = ErrorOf(l, e) /\ y = ErrorOf(l, f) /\ x <= y  BY <1>3
<1>5. /\ FreeOf(l, p, c, b, x) \in Int /\ FreeOf(l, p, d, b, y) \in Int
      /\ FreeOf(l, p, d, b, y) <= FreeOf(l, p, c, b, x)
  <2>1. b <= b  OBVIOUS
  <2>2. QED BY <1>4, <2>1, FreeTyped
<1>6. FreeOf(l, p, d, b, y) >= Reserve  BY <1>2, <1>4 DEF FitsOf
<1>7. FreeOf(l, p, c, b, x) >= Reserve  BY <1>5, <1>6, SizingAssumption
<1>8. QED BY <1>2, <1>4, <1>7 DEF FitsOf

(* The plan at hand while a load goes on.                                  *)
LEMMA PlanAtHand ==
  ASSUME SizingInv, stage \in Loaded
  PROVE  /\ load \in Loads /\ plan = PlanOffload(load, plan.window) /\ plan.window \in Nat
         /\ PlanTyped(load, plan) /\ plan.cache.bytes \in Nat
         /\ ctx \in Nat /\ error \in Int /\ cache \in Nat /\ known_bad \in Nat
<1>1. /\ load \in Loads /\ plan.window \in Nat /\ plan = PlanOffload(load, plan.window)
      /\ ctx \in Nat /\ error \in Int /\ cache \in Nat /\ known_bad \in Nat
  BY DEF SizingInv, SizingTyped, PlanKept
<1>2. PICK w \in Nat : w = plan.window /\ plan = PlanOffload(load, w)  BY <1>1
<1>3. PlanTyped(load, plan)  BY <1>1, <1>2, PlanIsTyped
<1>4. plan.cache.bytes \in Nat  BY <1>3 DEF PlanTyped
<1>5. QED BY <1>1, <1>3, <1>4

(* What is sure to fit was never found not to.                             *)
LEMMA SureStays ==
  ASSUME SizingInv, stage \in Probed, SureOf(load, plan, error)
  PROVE  known_bad = 0 /\ ctx = plan.window /\ FitsOf(load, plan, error, ctx)
<1>1. /\ load \in Loads /\ plan = PlanOffload(load, plan.window) /\ plan.window \in Nat
      /\ PlanTyped(load, plan) /\ error \in Int /\ known_bad \in Nat
  BY PlanAtHand DEF Loaded
<1>2. PICK w \in Nat : w = plan.window /\ plan = PlanOffload(load, w)  BY <1>1
<1>3. FitsOf(load, plan, error, w)  BY <1>1, <1>2, PlannedFits
<1>4. known_bad # 0 => known_bad <= w /\ ~FitsOf(load, plan, error, known_bad)
  BY <1>2 DEF SizingInv, Bracketed
<1>5. error <= error  BY <1>1
<1>6. known_bad = 0  BY <1>1, <1>3, <1>4, <1>5, FitsAntitone
<1>7. QED BY <1>2, <1>3, <1>6 DEF SizingInv, Bracketed

LEMMA PlanInv ==
  ASSUME SizingInv, Plan PROVE SizingInv'
<1>1. /\ load \in Loads /\ load' = load /\ ctx' = ctx /\ error' = error /\ span' = span
      /\ known_bad' = known_bad /\ stage = "plan" /\ stage' = "load" /\ known_bad = 0
      /\ ctx \in Nat /\ error \in Int /\ span \in [lo : Int, hi : Int]
      /\ plan' = PlanOffload(load, ctx) /\ cache' = plan'.cache.bytes
      /\ AsksAuto(load) => ctx = MostWhole(load)
  BY DEF Plan, SizingInv, SizingTyped, Bracketed, Bisected, Unplanned
<1>2. PlanTyped(load, plan') /\ plan'.window = ctx  BY <1>1, PlanIsTyped
<1>3. plan'.cache.bytes \in Nat  BY <1>2 DEF PlanTyped
<1>4. QED BY <1>1, <1>2, <1>3
      DEF SizingInv, SizingTyped, Bisected, PlanKept, Bracketed, CacheKept,
          FailsUnsized, Unplanned, Loaded, Probed

LEMMA LoadInv ==
  ASSUME SizingInv, Load PROVE SizingInv'
<1>1. /\ load \in Loads /\ load' = load /\ ctx' = ctx /\ span' = span /\ plan' = plan
      /\ known_bad' = known_bad /\ cache' = cache /\ stage = "load" /\ known_bad = 0
      /\ ctx = plan.window /\ cache = plan.cache.bytes
      /\ stage' \in {"refused", "probe", "allocate"} /\ error' \in Int
      /\ ctx \in Nat /\ cache \in Nat /\ span \in [lo : Int, hi : Int]
      /\ plan.window \in Nat /\ plan = PlanOffload(load, plan.window)
  BY SizingAssumption
     DEF Load, SizingInv, SizingTyped, Bracketed, CacheKept, PlanKept, Unplanned, Loaded
<1>2. QED BY <1>1
      DEF SizingInv, SizingTyped, Bisected, PlanKept, Bracketed, CacheKept,
          FailsUnsized, Unplanned, Loaded, Probed

LEMMA HalveInv ==
  ASSUME SizingInv, Halve PROVE SizingInv'
<1>1. /\ load' = load /\ span' = span /\ plan' = plan /\ error' = error /\ cache' = cache
      /\ stage = "probe" /\ stage \in Loaded /\ stage \in Probed
      /\ cache = plan.cache.bytes /\ span \in [lo : Int, hi : Int]
      /\ known_bad = 0 => ctx = plan.window
      /\ known_bad # 0 => /\ ctx < known_bad /\ known_bad <= plan.window
                          /\ ~FitsOf(load, plan, error, known_bad)
  BY DEF Halve, SizingInv, SizingTyped, Bracketed, CacheKept, Loaded, Probed
<1>2. /\ load \in Loads /\ plan = PlanOffload(load, plan.window) /\ plan.window \in Nat
      /\ ctx \in Nat /\ error \in Int /\ cache \in Nat /\ known_bad \in Nat
  BY <1>1, PlanAtHand
<1>3. CASE ProbeFits(ctx)
  <2>1. stage' = "refine" /\ ctx' = ctx /\ known_bad' = known_bad  BY <1>3 DEF Halve
  <2>2. FitsOf(load, plan, error, ctx)  BY <1>3, FreeIs
  <2>3. QED BY <1>1, <1>2, <2>1, <2>2
        DEF SizingInv, SizingTyped, Bisected, PlanKept, Bracketed, CacheKept,
            FailsUnsized, Unplanned, Loaded, Probed
<1>4. CASE ~ProbeFits(ctx) /\ ctx <= Floor
  <2>1. stage' = "failed" /\ ctx' = ctx /\ known_bad' = known_bad  BY <1>4 DEF Halve
  <2>2. ~FitsOf(load, plan, error, ctx)  BY <1>4, FreeIs
  <2>3. ~SureOf(load, plan, error)  BY <1>1, <2>2, SureStays
  <2>4. QED BY <1>1, <1>2, <2>1, <2>3
        DEF SizingInv, SizingTyped, Bisected, PlanKept, Bracketed, CacheKept,
            FailsUnsized, Unplanned, Loaded, Probed
<1>5. CASE ~ProbeFits(ctx) /\ ~(ctx <= Floor)
  <2>1. /\ stage' = stage /\ known_bad' = ctx /\ ctx' = Max({ctx \div 2, Floor})
    BY <1>5 DEF Halve
  <2>2. ~FitsOf(load, plan, error, ctx)  BY <1>5, FreeIs
  <2>3. Floor \in Nat \ {0} /\ ctx > Floor  BY <1>2, <1>5, SizingAssumption
  <2>4. ctx \div 2 \in Nat /\ ctx \div 2 < ctx  BY <1>2, <2>3
  <2>5. PICK half \in Int, floor \in Int : half = ctx \div 2 /\ floor = Floor  BY <2>3, <2>4
  <2>6. ctx' \in Nat /\ ctx' < ctx
    <3>1. Max({half, floor}) \in {half, floor}  BY MaxOfTwo
    <3>2. ctx' \in {half, floor}  BY <2>1, <2>5, <3>1
    <3>3. QED BY <1>2, <2>3, <2>4, <2>5, <3>2
  <2>7. ctx <= plan.window  BY <1>1, <1>2
  <2>8. QED BY <1>1, <1>2, <2>1, <2>2, <2>3, <2>6, <2>7
        DEF SizingInv, SizingTyped, Bisected, PlanKept, Bracketed, CacheKept,
            FailsUnsized, Unplanned, Loaded, Probed
<1>6. QED BY <1>3, <1>4, <1>5

LEMMA RefineInv ==
  ASSUME SizingInv, Refine PROVE SizingInv'
<1>1. /\ load' = load /\ span' = span /\ plan' = plan /\ error' = error /\ cache' = cache
      /\ known_bad' = known_bad
      /\ stage = "refine" /\ stage \in Loaded /\ stage \in Probed
      /\ cache = plan.cache.bytes /\ span \in [lo : Int, hi : Int]
      /\ known_bad = 0 => ctx = plan.window
      /\ known_bad # 0 => /\ ctx < known_bad /\ known_bad <= plan.window
                          /\ ~FitsOf(load, plan, error, known_bad)
      /\ FitsOf(load, plan, error, ctx)
  BY DEF Refine, SizingInv, SizingTyped, Bracketed, CacheKept, Loaded, Probed
<1>2. /\ load \in Loads /\ plan = PlanOffload(load, plan.window) /\ plan.window \in Nat
      /\ ctx \in Nat /\ error \in Int /\ cache \in Nat /\ known_bad \in Nat
  BY <1>1, PlanAtHand
<1>3. PICK next \in Nat : next = ctx + RefineStep  BY <1>2, SizingAssumption
<1>4. CASE next < known_bad /\ ProbeFits(next)
  <2>1. ctx' = next /\ stage' = stage  BY <1>3, <1>4 DEF Refine
  <2>2. FitsOf(load, plan, error, next)  BY <1>4, FreeIs
  <2>3. known_bad # 0  BY <1>2, <1>3, <1>4
  <2>4. QED BY <1>1, <1>2, <1>4, <2>1, <2>2, <2>3
        DEF SizingInv, SizingTyped, Bisected, PlanKept, Bracketed, CacheKept,
            FailsUnsized, Unplanned, Loaded, Probed
<1>5. CASE ~(next < known_bad /\ ProbeFits(next))
  <2>1. ctx' = ctx /\ stage' = "grow"  BY <1>3, <1>5 DEF Refine
  <2>2. known_bad <= next \/ ~FitsOf(load, plan, error, next)
    BY <1>2, <1>3, <1>5, FreeIs
  <2>3. known_bad' <= ctx' + RefineStep \/ ~FitsOf(load', plan', error', ctx' + RefineStep)
    BY <1>1, <1>3, <2>1, <2>2
  <2>4. QED BY <1>1, <1>2, <2>1, <2>3
        DEF SizingInv, SizingTyped, Bisected, PlanKept, Bracketed, CacheKept,
            FailsUnsized, Unplanned, Loaded, Probed
<1>6. QED BY <1>4, <1>5

(* A cache that grew leaves the reserve free.                              *)
LEMMA KeptIsEnough ==
  ASSUME NEW slots \in Nat
  PROVE  Kept(slots) \in Nat /\ Kept(slots) >= Reserve + Margin
<1>1. Reserve \in Nat /\ Margin \in Nat /\ Headroom \in Nat  BY SizingAssumption
<1>2. PICK a \in Int, b \in Int : a = slots + Headroom + Margin /\ b = Reserve + Margin  BY <1>1
<1>3. Max({a, b}) \in {a, b} /\ b <= Max({a, b})  BY MaxOfTwo
<1>4. Kept(slots) = IF slots > 0 THEN Max({a, b}) ELSE b  BY <1>2 DEF Kept
<1>5. QED BY <1>1, <1>2, <1>3, <1>4

(* What Grow does: nothing, or more of a cache that leaves the reserve.    *)
LEMMA GrowIs ==
  ASSUME SizingInv, Grow
  PROVE  /\ load' = load /\ plan' = plan /\ ctx' = ctx /\ span' = span /\ known_bad' = known_bad
         /\ \/ cache' = cache /\ error' = error
            \/ /\ cache' \in Nat /\ error' \in Int /\ error <= error'
               /\ cache' > plan.cache.bytes
               /\ FreeOf(load, plan, ctx, cache', error') >= Reserve
<1>1. /\ load \in Loads /\ plan.cache.bytes \in Nat /\ PlanTyped(load, plan)
      /\ ctx \in Nat /\ error \in Int /\ plan.window \in Nat
  BY PlanAtHand DEF Grow, Loaded, Probed
<1>2. Reserve \in Nat /\ Margin \in Nat  BY SizingAssumption
<1>3. ASSUME ~(cache' = cache /\ error' = error)
      PROVE  /\ cache' \in Nat /\ error' \in Int /\ error <= error'
             /\ cache' > plan.cache.bytes
             /\ FreeOf(load, plan, ctx, cache', error') >= Reserve
  <2>0. PICK target :
          target = Least(plan.cache.bytes
                           + StepDown(Less(FreeWith(ctx, plan.cache.bytes, error),
                                           Kept(plan.cache.slots))),
                         StepDown(InRam(load)))
    OBVIOUS
  <2>1. PICK more \in 0..(Margin + 1) :
          /\ plan.cache.bytes > 0 /\ target > plan.cache.bytes
          /\ FreeWith(ctx, target, error + more) >= Kept(plan.cache.slots) - Margin
          /\ cache' = target /\ error' = error + more
    BY <1>3, <2>0, Zenon DEF Grow
  <2>2. plan.cache.slots \in Nat  BY <1>1, <2>1 DEF PlanTyped
  <2>3. PICK kept \in Nat : kept = Kept(plan.cache.slots) /\ kept >= Reserve + Margin
    BY <2>2, KeptIsEnough
  <2>4. target \in Nat
    <3>1. PICK free : free = FreeWith(ctx, plan.cache.bytes, error)  OBVIOUS
    <3>2. free \in Int
      <4>1. plan.cache.bytes \in Int  BY <1>1
      <4>2. QED BY <1>1, <3>1, <4>1, FreeTyped, FreeIs
    <3>3. Less(free, kept) \in Nat  BY <2>3, <3>2 DEF Less
    <3>4. CacheStep \in Nat \ {0}  BY SizingAssumption
    <3>5. \A n \in Nat : StepDown(n) \in Nat
      <4> SUFFICES ASSUME NEW n \in Nat PROVE StepDown(n) \in Nat  OBVIOUS
      <4>1. n \div CacheStep \in Nat  BY <3>4, Division
      <4>2. QED BY <3>4, <4>1 DEF StepDown
    <3>6. InRam(load) \in Nat  BY <1>1, OutIs
    <3>7. PICK a \in Nat, b \in Nat : a = StepDown(Less(free, kept)) /\ b = StepDown(InRam(load))
      BY <3>3, <3>5, <3>6
    <3>8. target = Least(plan.cache.bytes + a, b)  BY <2>0, <2>3, <3>1, <3>7
    <3>9. QED BY <1>1, <3>7, <3>8 DEF Least
  <2>5. error' \in Int /\ error <= error'  BY <1>1, <1>2, <2>1
  <2>6. FreeOf(load, plan, ctx, cache', error') \in Int
    <3>1. cache' \in Int  BY <2>1, <2>4
    <3>2. QED BY <1>1, <2>5, <3>1, FreeTyped
  <2>7. FreeOf(load, plan, ctx, cache', error') >= kept - Margin  BY <2>1, <2>3, FreeIs
  <2>8. QED BY <1>2, <2>1, <2>3, <2>4, <2>5, <2>6, <2>7
<1>4. QED BY <1>3 DEF Grow

LEMMA GrowInv ==
  ASSUME SizingInv, Grow PROVE SizingInv'
<1>1. /\ load' = load /\ plan' = plan /\ ctx' = ctx /\ span' = span /\ known_bad' = known_bad
      /\ \/ cache' = cache /\ error' = error
         \/ /\ cache' \in Nat /\ error' \in Int /\ error <= error'
            /\ cache' > plan.cache.bytes
            /\ FreeOf(load, plan, ctx, cache', error') >= Reserve
  BY GrowIs
<1>2. /\ stage \in {"grow", "allocate"} /\ stage \in Loaded
      /\ stage' = IF stage = "grow" THEN "ready" ELSE "made"
  BY DEF Grow, Loaded, Probed
<1>3. /\ load \in Loads /\ plan = PlanOffload(load, plan.window) /\ plan.window \in Nat
      /\ PlanTyped(load, plan) /\ plan.cache.bytes \in Nat
      /\ ctx \in Nat /\ error \in Int /\ cache \in Nat /\ known_bad \in Nat
  BY <1>2, PlanAtHand
<1>4. cache = plan.cache.bytes /\ span \in [lo : Int, hi : Int]
  BY <1>2 DEF SizingInv, SizingTyped, CacheKept
<1>5. cache' \in Nat /\ error' \in Int /\ error <= error'  BY <1>1, <1>3
<1>6. \A c \in Nat : ~FitsOf(load, plan, error, c) => ~FitsOf(load, plan, error', c)
  <2> SUFFICES ASSUME NEW c \in Nat, FitsOf(load, plan, error', c)
               PROVE  FitsOf(load, plan, error, c)
    OBVIOUS
  <2>1. c <= c  OBVIOUS
  <2>2. QED BY <1>3, <1>5, <2>1, FitsAntitone
<1>7. \/ cache' = plan'.cache.bytes
      \/ cache' > plan'.cache.bytes /\ FreeOf(load', plan', ctx', cache', error') >= Reserve
  BY <1>1, <1>4
<1>8. CASE stage = "allocate"
  <2>1. ctx = plan.window  BY <1>8 DEF SizingInv, Bracketed
  <2>2. stage' = "made"  BY <1>2, <1>8
  <2>3. QED BY <1>1, <1>3, <1>4, <1>5, <1>7, <2>1, <2>2
        DEF SizingInv, SizingTyped, Bisected, PlanKept, Bracketed, CacheKept,
            FailsUnsized, Unplanned, Loaded, Probed
<1>9. CASE stage = "grow"
  <2>1. stage' = "ready"  BY <1>2, <1>9
  <2>2. /\ known_bad = 0 => ctx = plan.window
        /\ known_bad # 0 => /\ ctx < known_bad /\ known_bad <= plan.window
                            /\ ~FitsOf(load, plan, error, known_bad)
        /\ FitsOf(load, plan, error, ctx)
        /\ known_bad # 0 => known_bad <= ctx + RefineStep
                            \/ ~FitsOf(load, plan, error, ctx + RefineStep)
    BY <1>9 DEF SizingInv, Bracketed, Probed
  <2>3. FreeOf(load, plan, ctx, cache', error') >= Reserve
    <3>1. CASE cache' = cache /\ error' = error
      <4>1. PICK b \in Int, x \in Int : b = plan.cache.bytes /\ x = ErrorOf(load, error)
        BY <1>3 DEF ErrorOf
      <4>2. error <= x /\ b <= b /\ ctx <= ctx  BY <1>3, <4>1 DEF ErrorOf
      <4>3. FreeOf(load, plan, ctx, b, x) >= Reserve  BY <2>2, <4>1 DEF FitsOf
      <4>4. /\ FreeOf(load, plan, ctx, b, x) <= FreeOf(load, plan, ctx, b, error)
            /\ FreeOf(load, plan, ctx, b, x) \in Int /\ FreeOf(load, plan, ctx, b, error) \in Int
        BY <1>3, <4>1, <4>2, FreeTyped
      <4>5. FreeOf(load, plan, ctx, b, error) >= Reserve  BY <4>3, <4>4, SizingAssumption
      <4>6. QED BY <1>4, <3>1, <4>1, <4>5
    <3>2. QED BY <1>1, <3>1
  <2>4. ctx + RefineStep \in Nat  BY <1>3, SizingAssumption
  <2>5. /\ known_bad # 0 => ~FitsOf(load, plan, error', known_bad)
        /\ known_bad # 0 => known_bad <= ctx + RefineStep
                            \/ ~FitsOf(load, plan, error', ctx + RefineStep)
    BY <1>3, <1>6, <2>2, <2>4
  <2>6. /\ load' \in Loads /\ ctx' \in Nat /\ known_bad' \in Nat /\ error' \in Int
        /\ cache' \in Nat /\ span' \in [lo : Int, hi : Int]
    BY <1>1, <1>3, <1>4, <1>5
  <2>7. SizingTyped' /\ Bisected' /\ PlanKept' /\ FailsUnsized'
    BY <1>1, <1>3, <2>1, <2>6
       DEF SizingTyped, Bisected, PlanKept, FailsUnsized, Unplanned, Loaded, Probed
  <2>8. CacheKept'  BY <1>1, <1>7, <2>1, <2>3 DEF CacheKept
  <2>9. Bracketed'  BY <1>1, <2>1, <2>2, <2>5 DEF Bracketed, Unplanned, Probed
  <2>10. QED BY <2>7, <2>8, <2>9 DEF SizingInv
<1>10. QED BY <1>2, <1>8, <1>9

(* What a load that is sure leaves free, once its window is settled.       *)
LEMMA SureLeaves ==
  ASSUME SizingInv, stage \in {"ready", "made", "serving"}, SureOf(load, plan, error)
  PROVE  /\ ctx = plan.window
         /\ FreeOf(load, plan, ctx, cache, error)
              >= Reserve + (IF cache > plan.cache.bytes THEN 0 ELSE load.companions)
<1>1. /\ load \in Loads /\ plan = PlanOffload(load, plan.window) /\ plan.window \in Nat
      /\ PlanTyped(load, plan) /\ plan.cache.bytes \in Nat /\ error \in Int /\ cache \in Nat
      /\ ctx \in Nat
  BY PlanAtHand DEF Loaded, Probed
<1>2. ctx = plan.window
  <2>1. CASE stage = "ready"  BY <2>1, SureStays DEF Probed
  <2>2. CASE stage # "ready"  BY <2>2 DEF SizingInv, Bracketed
  <2>3. QED BY <2>1, <2>2
<1>3. PICK w \in Nat : w = plan.window /\ plan = PlanOffload(load, w)  BY <1>1
<1>4. FreeOf(load, plan, w, plan.cache.bytes, error) >= Reserve + load.companions
  BY <1>1, <1>3, PlannedFits
<1>5. \/ cache = plan.cache.bytes
      \/ cache > plan.cache.bytes /\ FreeOf(load, plan, ctx, cache, error) >= Reserve
  BY DEF SizingInv, CacheKept
<1>6. CASE cache = plan.cache.bytes
  <2>1. ~(cache > plan.cache.bytes)  BY <1>1, <1>6
  <2>2. QED BY <1>2, <1>3, <1>4, <1>6, <2>1
<1>7. CASE cache > plan.cache.bytes /\ FreeOf(load, plan, ctx, cache, error) >= Reserve
  <2>1. Reserve + 0 = Reserve  BY SizingAssumption
  <2>2. QED BY <1>2, <1>7, <2>1
<1>8. QED BY <1>5, <1>6, <1>7

LEMMA AllocateInv ==
  ASSUME SizingInv, Allocate PROVE SizingInv'
<1>1. /\ load' = load /\ plan' = plan /\ ctx' = ctx /\ span' = span /\ known_bad' = known_bad
      /\ error' = error /\ cache' = cache /\ stage = "made" /\ stage \in Loaded
      /\ stage' \in {"serving", "failed"}
      /\ stage' = "failed" => ~(FreeOf(load, plan, ctx, cache, error) >= 0)
      /\ span \in [lo : Int, hi : Int] /\ ctx = plan.window
  BY FreeIs DEF Allocate, SizingInv, SizingTyped, Bracketed, Loaded
<1>2. /\ load \in Loads /\ plan = PlanOffload(load, plan.window) /\ plan.window \in Nat
      /\ PlanTyped(load, plan)
      /\ ctx \in Nat /\ error \in Int /\ cache \in Nat /\ known_bad \in Nat
  BY <1>1, PlanAtHand
<1>3. stage' = "failed" => ~SureOf(load, plan, error)
  <2> SUFFICES ASSUME stage' = "failed", SureOf(load, plan, error) PROVE FALSE  OBVIOUS
  <2>1. FreeOf(load, plan, ctx, cache, error)
          >= Reserve + (IF cache > plan.cache.bytes THEN 0 ELSE load.companions)
    BY <1>1, SureLeaves
  <2>2. Reserve \in Nat /\ load.companions \in Nat  BY <1>2, SizingAssumption, LoadTyped
  <2>3. FreeOf(load, plan, ctx, cache, error) \in Int
    <3>1. cache \in Int  BY <1>2
    <3>2. QED BY <1>2, <3>1, FreeTyped
  <2>4. QED BY <1>1, <2>1, <2>2, <2>3
<1>4. /\ \/ cache = plan.cache.bytes
         \/ cache > plan.cache.bytes /\ FreeOf(load, plan, ctx, cache, error) >= Reserve
  BY <1>1 DEF SizingInv, CacheKept
<1>5. QED BY <1>1, <1>2, <1>3, <1>4
      DEF SizingInv, SizingTyped, Bisected, PlanKept, Bracketed, CacheKept,
          FailsUnsized, Unplanned, Loaded, Probed

LEMMA SizingStutters ==
  ASSUME SizingInv, UNCHANGED sizing PROVE SizingInv'
<1>1. /\ load' = load /\ plan' = plan /\ ctx' = ctx /\ span' = span /\ known_bad' = known_bad
      /\ error' = error /\ cache' = cache /\ stage' = stage
  BY DEF sizing
<1>2. QED BY <1>1 DEF SizingInv, SizingTyped, Bisected, PlanKept, Bracketed, CacheKept,
                      FailsUnsized

LEMMA SizingStepInv == SizingInv /\ [SizingNext]_sizing => SizingInv'
<1> SUFFICES ASSUME SizingInv, [SizingNext]_sizing PROVE SizingInv'  OBVIOUS
<1>1. CASE Resolve  BY <1>1, ResolveInv
<1>2. CASE Bisect  BY <1>2, BisectInv
<1>3. CASE Plan  BY <1>3, PlanInv
<1>4. CASE Load  BY <1>4, LoadInv
<1>5. CASE Halve  BY <1>5, HalveInv
<1>6. CASE Refine  BY <1>6, RefineInv
<1>7. CASE Grow  BY <1>7, GrowInv
<1>8. CASE Allocate  BY <1>8, AllocateInv
<1>9. CASE UNCHANGED sizing  BY <1>9, SizingStutters
<1>10. QED BY <1>1, <1>2, <1>3, <1>4, <1>5, <1>6, <1>7, <1>8, <1>9 DEF SizingNext

(* The invariant: while the window is bisected the answer lies between its *)
(* ends; from then on the plan is the one made for its window, what the    *)
(* probe refused does fail and what it took fits, a cache that grew left   *)
(* the reserve free, and no load fails whose size was sure.                *)
THEOREM SizingKeepsInv == SizingSpec => []SizingInv
<1>1. SizingInit => SizingInv  BY SizingInitInv
<1>2. SizingInv /\ [SizingNext]_sizing => SizingInv'  BY SizingStepInv
<1>3. QED BY <1>1, <1>2, PTL DEF SizingSpec
-----------------------------------------------------------------------------
(* The properties the run checks. *)

LEMMA SizedIsSure ==
  ASSUME Sized, ChargedInFull, ProbeError <= 0, Room(load, plan.mmproj) >= Reserve + Compute
  PROVE  SureOf(load, plan, error)
BY DEF Sized, ChargedInFull, ProbeError, SureOf, Charged, ErrorOf

LEMMA SizedFitsHolds == SizingInv => SizedFits
<1> SUFFICES ASSUME SizingInv, Settled, Sized, ChargedInFull, ProbeError <= 0,
                    Room(load, plan.mmproj) >= Reserve + Compute
             PROVE  /\ stage # "failed" /\ ctx = plan.window
                    /\ FreeWith(ctx, cache, error)
                         >= Reserve + (IF cache > plan.cache.bytes THEN 0 ELSE load.companions)
  BY DEF SizedFits
<1>1. SureOf(load, plan, error)  BY SizedIsSure
<1>2. stage # "failed"  BY <1>1 DEF SizingInv, FailsUnsized
<1>3. stage \in {"ready", "made", "serving"}  BY <1>2 DEF Settled
<1>4. /\ ctx = plan.window
      /\ FreeOf(load, plan, ctx, cache, error)
           >= Reserve + (IF cache > plan.cache.bytes THEN 0 ELSE load.companions)
  BY <1>1, <1>3, SureLeaves
<1>5. QED BY <1>2, <1>4, FreeIs

(* Where the buffers take no more than their estimates and the card can    *)
(* give the reserve and one buffer, what was sized is loaded at the window *)
(* it was sized for and leaves the reserve free: the estimates of fit.rs   *)
(* are never below what the load of inference/mod.rs then takes.           *)
THEOREM WhatIsSizedFits == SizingSpec => []SizedFits
BY SizingKeepsInv, SizedFitsHolds, PTL

LEMMA ProjectorIsFreeHolds == SizingInv => ProjectorIsFree
<1> SUFFICES ASSUME SizingInv, stage = "load", load.offload = "auto", load.projector > 0,
                    plan.mmproj = "gpu", load.model.table = 0
             PROVE  /\ plan.layers = Least(load.model.layers, load.ceiling)
                    /\ plan.out = IF load.cpu_moe THEN load.model.layers ELSE load.n_cpu_moe
  BY DEF ProjectorIsFree
<1>1. /\ load \in Loads /\ plan = PlanOffload(load, plan.window) /\ plan.window \in Nat
      /\ PlanTyped(load, plan)
  BY PlanAtHand DEF Loaded
<1>2. PICK w \in Nat : plan = PlanOffload(load, w)  BY <1>1
<1>3. QED BY <1>1, <1>2, ProjectorOnTheCard DEF PlanTyped

(* place_mmproj gives the projector the card only where neither a layer    *)
(* nor an expert has to leave it, though the flags and the cache are       *)
(* weighed after it is placed.                                             *)
THEOREM TheProjectorIsFree == SizingSpec => []ProjectorIsFree
BY SizingKeepsInv, ProjectorIsFreeHolds, PTL

LEMMA AutoIsMostHolds == SizingInv => AutoIsMost
<1> DEFINE Left(c) == LET p == PlanOffload(load, c)
                      IN  /\ p.sized = load.model.layers
                          /\ load.offload = "auto" => p.mmproj # "cpu"
           windows == {c \in AutoLow(load)..AutoHigh(load) : c % load.align = 0}
<1> SUFFICES ASSUME SizingInv, stage = "load", load.asked = CtxAuto, load.readable,
                    ~IsMoe(load.model)
             PROVE  ctx = Max({c \in windows : Left(c)} \cup {AutoLow(load)})
  BY DEF AutoIsMost
<1>1. load \in Loads /\ ctx = MostWhole(load)
  BY DEF SizingInv, SizingTyped, Bisected, AsksAuto
<1>2. windows = Windows(load)  BY DEF Windows
<1>3. \A c \in Windows(load) : Left(c) <=> WholeAt(load, c)
  <2> SUFFICES ASSUME NEW c \in Windows(load) PROVE Left(c) <=> WholeAt(load, c)  OBVIOUS
  <2>1. c \in Nat
    <3>1. AutoLow(load) \in Nat /\ AutoHigh(load) \in Nat  BY <1>1, AutoBounds
    <3>2. QED BY <3>1 DEF Windows
  <2>2. Whole(load, c) <=> WholeAt(load, c)  BY <1>1, <2>1, WholeIsWholeAt
  <2>3. QED BY <2>2 DEF Whole
<1> HIDE DEF Left, windows
<1>4. {c \in windows : Left(c)} = {c \in Windows(load) : WholeAt(load, c)}  BY <1>2, <1>3
<1>5. QED BY <1>1, <1>4 DEF MostWhole

(* auto_context bisects, and yet finds the largest window whose plan keeps *)
(* every layer and the projector on the card, the plan being made with     *)
(* other code than the bisection asks.                                     *)
THEOREM AutoFindsTheMost == SizingSpec => []AutoIsMost
BY SizingKeepsInv, AutoIsMostHolds, PTL

LEMMA ContextIsTightHolds == SizingInv => ContextIsTight
<1> SUFFICES ASSUME SizingInv, stage = "ready"
             PROVE  /\ FreeWith(ctx, cache, error) >= Reserve
                    /\ ctx < plan.window => ~ProbeFits(Least(ctx + RefineStep, plan.window))
  BY DEF ContextIsTight
<1>1. /\ load \in Loads /\ plan.window \in Nat /\ PlanTyped(load, plan)
      /\ ctx \in Nat /\ error \in Int /\ known_bad \in Nat
  BY PlanAtHand DEF Loaded, Probed
<1>2. FreeWith(ctx, cache, error) >= Reserve  BY FreeIs DEF SizingInv, CacheKept
<1>3. ASSUME ctx < plan.window, ProbeFits(Least(ctx + RefineStep, plan.window)) PROVE FALSE
  <2>1. PICK w \in Nat, next \in Nat : w = plan.window /\ next = ctx + RefineStep
    BY <1>1, SizingAssumption
  <2>2. PICK c \in Nat : c = Least(next, w) /\ c <= next /\ c <= w /\ (c = next \/ c = w)
    BY DEF Least
  <2>3. FitsOf(load, plan, error, c)  BY <1>3, <2>1, <2>2, FreeIs
  <2>4. known_bad # 0 /\ known_bad <= w /\ ~FitsOf(load, plan, error, known_bad)
    BY <1>1, <1>3, <2>1 DEF SizingInv, Bracketed, Probed
  <2>5. known_bad <= next \/ ~FitsOf(load, plan, error, next)
    BY <2>1, <2>4 DEF SizingInv, Bracketed
  <2>6. error <= error  BY <1>1
  <2>7. \A d \in Nat : d <= c => FitsOf(load, plan, error, d)
    BY <1>1, <2>3, <2>6, FitsAntitone
  <2>8. ~(known_bad <= c)  BY <1>1, <2>4, <2>7
  <2>9. c = next /\ ~(known_bad <= next)  BY <1>1, <2>1, <2>2, <2>4, <2>8
  <2>10. QED BY <2>3, <2>5, <2>9
<1>4. QED BY <1>2, <1>3

(* The window a model ends with, halved and refined by the probe, leaves   *)
(* the reserve free, whatever the buffers took, and also after the cache   *)
(* of experts grew; a step more would not have fitted.                     *)
THEOREM TheContextIsTight == SizingSpec => []ContextIsTight
BY SizingKeepsInv, ContextIsTightHolds, PTL
=============================================================================
