------------------------ MODULE CampaignQueueProofs ------------------------
(***************************************************************************)
(* The benchmark queue, for every number of points, jobs and attempts:     *)
(* nothing is filed as done without its result, and no point leaves every  *)
(* directory but in the one way its files cannot prevent.                  *)
(***************************************************************************)
EXTENDS CampaignQueue, TLAPS

Phases == {"queued", "stale", "working", "leaving", "stopping", "releasing", "ended"}
Steps  == {"none", "own", "take", "look", "load", "write", "drop", "disown"}
Whys   == Outcomes \cup {"none", "retry", "add"}
Ops    == [p : Points \cup {Nothing}, step : Steps, from : States, to : States,
           attempts : 0..MaxAttempts, why : Whys]
Views  == [alive : SUBSET Jobs, told : BOOLEAN, unread : SUBSET Points,
           unjudged : SUBSET Points, owners : [Points -> Jobs \cup {Nothing}]]

(* A move is of a point, between two directories: what is written is never *)
(* what is then removed, unless `plan` adds a point, which removes nothing.*)
MoveOK(o) ==
  /\ o.step # "none" => o.p \in Points
  /\ o.step = "look" => o.why = "add"
  /\ o.step = "load" => o.from \in {"running", "failed", "blocked"} /\ o.from # o.to
  /\ o.step = "write" /\ o.why # "add" => o.from # o.to
  /\ o.step = "drop" => o.from # o.to

(* A point on its way to done/, or already there, has been measured.       *)
Backed ==
  /\ \A p \in Points : In("done", p) => p \in results
  /\ \A j \in Jobs, p \in Points : mine[j][p] = "done" => p \in results
  /\ \A w \in Workers : op[w].to = "done" => op[w].p \in results

Moving == \A w \in Workers : MoveOK(op[w])

QueueInv == TypeOK /\ Moving /\ Backed

LEMMA TypeParts ==
  TypeOK <=> /\ file \in [Places -> [Points -> File \cup {Nothing}]]
             /\ owner \in [Points -> Jobs \cup {Nothing}]
             /\ results \subseteq Points
             /\ phase \in [Jobs -> Phases]
             /\ mine \in [Jobs -> [Points -> {"no", "measuring"} \cup Outcomes]]
             /\ stale \in [Jobs -> Views]
             /\ op \in [Workers -> Ops]
             /\ events \in 0..MaxEvents
             /\ together \in BOOLEAN
BY DEF TypeOK, Phases, Views, Ops, Steps, Whys

LEMMA NoOpOK == NoOp \in Ops /\ MoveOK(NoOp) /\ NoOp.to # "done"
<1>1. 0 \in 0..MaxAttempts  BY QueueAssumption
<1>2. QED BY <1>1 DEF NoOp, Ops, Steps, Whys, States, MoveOK

LEMMA NoViewTyped == NoView \in Views
BY DEF NoView, Views

LEMMA InitQueue == Init => QueueInv
<1> SUFFICES ASSUME Init PROVE QueueInv  OBVIOUS
<1>1. 0 \in File /\ MaxEvents \in 0..MaxEvents  BY QueueAssumption DEF File
<1>2. TypeOK  BY <1>1, NoOpOK, NoViewTyped, TypeParts DEF Init, Phases
<1>3. Moving  BY NoOpOK DEF Init, Moving
<1>4. Backed  BY NoOpOK DEF Init, Backed, In, Places, States
<1>5. QED BY <1>2, <1>3, <1>4 DEF QueueInv

-----------------------------------------------------------------------------
(* One process's move changes, to a good one, and nothing else is measured *)
(* or filed.                                                               *)
LEMMA MoveKeeps ==
  ASSUME QueueInv, NEW w \in Workers, NEW o \in Ops, MoveOK(o), op' = [op EXCEPT ![w] = o],
         o.to = "done" => o.p \in results'
  PROVE  /\ op' \in [Workers -> Ops] /\ Moving'
         /\ results \subseteq results' =>
              \A v \in Workers : op'[v].to = "done" => op'[v].p \in results'
<1>1. op \in [Workers -> Ops]  BY TypeParts DEF QueueInv
<1>2. op' \in [Workers -> Ops]  BY <1>1
<1>3. Moving'  BY <1>1 DEF QueueInv, Moving
<1>4. ASSUME results \subseteq results', NEW v \in Workers, op'[v].to = "done"
      PROVE  op'[v].p \in results'
  BY <1>1, <1>4 DEF QueueInv, Backed
<1>5. QED BY <1>2, <1>3, <1>4

(* What an action has to keep, piece by piece.                             *)
FilesKept ==
  /\ file' \in [Places -> [Points -> File \cup {Nothing}]]
  /\ \A p \in Points : In("done", p)' => In("done", p) \/ p \in results'
JobsKept ==
  /\ phase' \in [Jobs -> Phases] /\ stale' \in [Jobs -> Views]
  /\ mine' \in [Jobs -> [Points -> {"no", "measuring"} \cup Outcomes]]
  /\ \A j \in Jobs, p \in Points : mine'[j][p] = "done" => mine[j][p] = "done" \/ p \in results'
RestKept ==
  /\ owner' \in [Points -> Jobs \cup {Nothing}]
  /\ events' \in 0..MaxEvents /\ together' \in BOOLEAN
  /\ results \subseteq results' /\ results' \subseteq Points
MovesKept ==
  \/ op' = op
  \/ \E w \in Workers, o \in Ops :
       /\ op' = [op EXCEPT ![w] = o] /\ MoveOK(o)
       /\ o.to = "done" => o.p \in results

LEMMA AllKept ==
  ASSUME QueueInv, FilesKept, JobsKept, RestKept, MovesKept
  PROVE  QueueInv'
<1>1. op' \in [Workers -> Ops] /\ Moving'
      /\ \A v \in Workers : op'[v].to = "done" => op'[v].p \in results'
  <2>1. CASE op' = op
    BY <2>1, TypeParts DEF QueueInv, Moving, Backed, RestKept
  <2>2. CASE op' # op
    <3>1. PICK w \in Workers, o \in Ops :
            /\ op' = [op EXCEPT ![w] = o] /\ MoveOK(o)
            /\ o.to = "done" => o.p \in results
      BY <2>2 DEF MovesKept
    <3>2. QED BY <3>1, MoveKeeps DEF RestKept
  <2>3. QED BY <2>1, <2>2
<1>2. TypeOK'
  <2>1. /\ file' \in [Places -> [Points -> File \cup {Nothing}]]
        /\ owner' \in [Points -> Jobs \cup {Nothing}] /\ results' \subseteq Points
        /\ phase' \in [Jobs -> Phases] /\ stale' \in [Jobs -> Views]
        /\ mine' \in [Jobs -> [Points -> {"no", "measuring"} \cup Outcomes]]
        /\ events' \in 0..MaxEvents /\ together' \in BOOLEAN
    BY DEF FilesKept, JobsKept, RestKept
  <2>2. QED BY <1>1, <2>1 DEF TypeOK, Phases, Views, Ops, Steps, Whys
<1>3. Backed'
  BY <1>1 DEF QueueInv, Backed, FilesKept, JobsKept, RestKept
<1>4. QED BY <1>1, <1>2, <1>3 DEF QueueInv

(* One file written or removed leaves the directories well formed; done/   *)
(* gains a point only if that point was measured.                          *)
LEMMA FileKept ==
  ASSUME QueueInv, RestKept, NEW s \in Places, NEW p \in Points, NEW n \in File \cup {Nothing},
         file' = [file EXCEPT ![s][p] = n], s = "done" /\ n # Nothing => p \in results
  PROVE  FilesKept
<1>1. file \in [Places -> [Points -> File \cup {Nothing}]]  BY TypeParts DEF QueueInv
<1>2. file' \in [Places -> [Points -> File \cup {Nothing}]]  BY <1>1
<1>3. ASSUME NEW q \in Points, In("done", q)' PROVE In("done", q) \/ q \in results'
  <2>0. "done" \in Places  BY DEF Places, States
  <2>1. CASE s = "done" /\ p = q
    BY <1>1, <1>3, <2>0, <2>1 DEF In, RestKept
  <2>2. CASE ~(s = "done" /\ p = q)
    BY <1>1, <1>3, <2>0, <2>2 DEF In
  <2>3. QED BY <2>1, <2>2
<1>4. QED BY <1>2, <1>3 DEF FilesKept

(* A claim or a set-aside renames the point's file out of todo/.           *)
LEMMA RenameKept ==
  ASSUME QueueInv, NEW s \in Places \ {"done", "todo"}, NEW p \in Points,
         file' = [file EXCEPT ![s][p] = file["todo"][p], !["todo"][p] = Nothing]
  PROVE  FilesKept
<1>1. file \in [Places -> [Points -> File \cup {Nothing}]]  BY TypeParts DEF QueueInv
<1>2. "todo" \in Places /\ "done" \in Places  BY DEF Places, States
<1> DEFINE g == [file EXCEPT ![s][p] = file["todo"][p]]
<1>a. file["todo"][p] \in File \cup {Nothing}  BY <1>1, <1>2
<1>b. g \in [Places -> [Points -> File \cup {Nothing}]]  BY <1>1, <1>a
<1>c. file' = [g EXCEPT !["todo"][p] = Nothing]  OBVIOUS
<1>d. [g EXCEPT !["todo"][p] = Nothing] \in [Places -> [Points -> File \cup {Nothing}]]
  <2> HIDE DEF g
  <2>1. QED BY <1>b, <1>2
<1>3. file' \in [Places -> [Points -> File \cup {Nothing}]]  BY <1>c, <1>d
<1>4. \A q \in Points : file'["done"][q] = file["done"][q]  BY <1>1, <1>2
<1>5. QED BY <1>3, <1>4 DEF FilesKept, In

LEMMA StandStill ==
  /\ QueueInv /\ UNCHANGED <<owner, results, events, together>> => RestKept
  /\ QueueInv /\ UNCHANGED <<phase, mine, stale>> => JobsKept
  /\ QueueInv /\ UNCHANGED <<file>> => FilesKept
BY TypeParts DEF QueueInv, RestKept, JobsKept, FilesKept, In, Phases

(* One process's access to the files of the point it moves.                *)
LEMMA StepKept ==
  ASSUME QueueInv, NEW w \in Workers, Step(w)
  PROVE  QueueInv'
<1>t. /\ op \in [Workers -> Ops] /\ op[w] \in Ops /\ MoveOK(op[w])
      /\ file \in [Places -> [Points -> File \cup {Nothing}]]
      /\ owner \in [Points -> Jobs \cup {Nothing}]
      /\ op[w].to = "done" => op[w].p \in results
  BY TypeParts DEF QueueInv, Moving, Backed
<1>s. States \subseteq Places /\ 0 \in File /\ MaxAttempts \in Nat
  BY QueueAssumption DEF Places, File
<1>n. NoOp \in Ops /\ MoveOK(NoOp) /\ NoOp.to # "done"  BY NoOpOK
<1>1. CASE Load(w)
  <2>1. op[w].step = "load" /\ UNCHANGED <<file, owner, results, phase, mine, stale, events, together>>
    BY <1>1 DEF Load
  <2>2. FilesKept /\ RestKept /\ JobsKept  BY <2>1, StandStill
  <2>3. CASE op' = [op EXCEPT ![w] = NoOp]
    <3>1. MovesKept  BY <2>3, <1>n DEF MovesKept
    <3>2. QED BY <2>2, <3>1, AllKept
  <2>4. CASE op' # [op EXCEPT ![w] = NoOp]
    <3> DEFINE found == file[op[w].from][op[w].p]
               tries == IF op[w].why \in {"failed", "died"} /\ found < MaxAttempts
                        THEN found + 1 ELSE found
               to == IF op[w].why = "failed" /\ tries < MaxAttempts THEN "todo" ELSE op[w].to
               n  == IF op[w].why = "retry" THEN 0 ELSE tries
               o  == [p |-> op[w].p, step |-> "write", from |-> op[w].from, to |-> to,
                      attempts |-> n, why |-> "none"]
    <3>1. In(op[w].from, op[w].p) /\ op' = [op EXCEPT ![w] = o]
      BY <1>1, <2>4 DEF Load, Move
    <3>2. op[w].p \in Points /\ op[w].from \in {"running", "failed", "blocked"}
          /\ op[w].from # op[w].to /\ op[w].to \in States
      BY <1>t, <2>1 DEF MoveOK, Ops
    <3>3. found \in File
      BY <1>t, <1>s, <3>1, <3>2 DEF In, States
    <3>4. tries \in 0..MaxAttempts /\ n \in 0..MaxAttempts
      BY <1>s, <3>3 DEF File
    <3>5. to \in States /\ op[w].from # to /\ (to = "done" => op[w].to = "done")
      BY <3>2 DEF States
    <3>6. o \in Ops /\ MoveOK(o) /\ (o.to = "done" => o.p \in results)
      <4> HIDE DEF to, n
      <4>1. QED BY <1>t, <3>2, <3>4, <3>5 DEF Ops, Steps, Whys, States, MoveOK
    <3>7. MovesKept
      <4> HIDE DEF o
      <4>1. QED BY <3>1, <3>6 DEF MovesKept
    <3>8. QED BY <2>2, <3>7, AllKept
  <2>5. QED BY <2>3, <2>4
<1>2. CASE Write(w)
  <2> DEFINE n == IF op[w].to \in {"done", "failed"} THEN 0 ELSE op[w].attempts
             o == IF op[w].why = "add" THEN NoOp ELSE [op[w] EXCEPT !.step = "drop"]
  <2>1. /\ op[w].step = "write" /\ file' = [file EXCEPT ![op[w].to][op[w].p] = n]
        /\ op' = [op EXCEPT ![w] = o]
        /\ UNCHANGED <<owner, results, phase, mine, stale, events, together>>
    BY <1>2, <1>t DEF Write
  <2>2. RestKept /\ JobsKept  BY <2>1, StandStill
  <2>3. op[w].p \in Points /\ op[w].to \in Places /\ n \in File \cup {Nothing}
    BY <1>t, <1>s, <2>1 DEF MoveOK, Ops, File
  <2>4. FilesKept
    <3> HIDE DEF n
    <3>1. QED BY <2>1, <2>2, <2>3, <1>t, FileKept
  <2>5. o \in Ops /\ MoveOK(o) /\ (o.to = "done" => o.p \in results)
    BY <1>t, <1>n, <2>1 DEF Ops, MoveOK, Steps
  <2>6. MovesKept
    <3> HIDE DEF o
    <3>1. QED BY <2>1, <2>5 DEF MovesKept
  <2>7. QED BY <2>2, <2>4, <2>6, AllKept
<1>3. CASE Drop(w)
  <2> DEFINE o == IF op[w].from = "running" THEN [op[w] EXCEPT !.step = "disown"] ELSE NoOp
  <2>1. /\ op[w].step = "drop" /\ file' = [file EXCEPT ![op[w].from][op[w].p] = Nothing]
        /\ op' = [op EXCEPT ![w] = o]
        /\ UNCHANGED <<owner, results, phase, mine, stale, events, together>>
    BY <1>3, <1>t DEF Drop
  <2>2. RestKept /\ JobsKept  BY <2>1, StandStill
  <2>3. op[w].p \in Points /\ op[w].from \in Places
    BY <1>t, <1>s, <2>1 DEF MoveOK, Ops
  <2>4. FilesKept  BY <2>1, <2>2, <2>3, FileKept
  <2>5. o \in Ops /\ MoveOK(o) /\ (o.to = "done" => o.p \in results)
    BY <1>t, <1>n, <2>1 DEF Ops, MoveOK, Steps
  <2>6. MovesKept
    <3> HIDE DEF o
    <3>1. QED BY <2>1, <2>5 DEF MovesKept
  <2>7. QED BY <2>2, <2>4, <2>6, AllKept
<1>4. CASE Disown(w)
  <2>1. /\ owner' = [owner EXCEPT ![op[w].p] = Nothing] /\ op' = [op EXCEPT ![w] = NoOp]
        /\ UNCHANGED <<file, results, phase, mine, stale, events, together>>
    BY <1>4 DEF Disown
  <2>2. owner' \in [Points -> Jobs \cup {Nothing}]  BY <2>1, <1>t
  <2>3. RestKept
    BY <2>1, <2>2, TypeParts DEF QueueInv, RestKept
  <2>4. FilesKept /\ JobsKept  BY <2>1, StandStill
  <2>5. MovesKept  BY <2>1, <1>n DEF MovesKept
  <2>6. QED BY <2>3, <2>4, <2>5, AllKept
<1>5. QED BY <1>1, <1>2, <1>3, <1>4 DEF Step

(* A move that a job or a person begins is a good one.                     *)
LEMMA MoveMade ==
  ASSUME NEW w \in Workers, NEW p \in Points, NEW step \in Steps, NEW from \in States,
         NEW to \in States, NEW n \in 0..MaxAttempts, NEW why \in Whys,
         Move(w, p, step, from, to, n, why),
         step \in {"none", "own", "take", "look", "disown"} \/ from # to,
         step = "look" => why = "add",
         step = "load" => from \in {"running", "failed", "blocked"},
         to = "done" => p \in results
  PROVE  MovesKept
<1> DEFINE o == [p |-> p, step |-> step, from |-> from, to |-> to, attempts |-> n, why |-> why]
<1>1. o \in Ops /\ MoveOK(o) /\ (o.to = "done" => o.p \in results)  BY DEF Ops, MoveOK
<1>2. op' = [op EXCEPT ![w] = o]  BY DEF Move
<1> HIDE DEF o
<1>3. QED BY <1>1, <1>2 DEF MovesKept

(* A step of a job, other than those of a move.                            *)
LEMMA WorksKept ==
  ASSUME QueueInv, NEW j \in Jobs, Works(j), ~Step(j)
  PROVE  QueueInv'
<1>t. /\ op \in [Workers -> Ops] /\ j \in Workers /\ op[j] \in Ops /\ MoveOK(op[j])
      /\ file \in [Places -> [Points -> File \cup {Nothing}]]
      /\ owner \in [Points -> Jobs \cup {Nothing}] /\ results \subseteq Points
      /\ phase \in [Jobs -> Phases] /\ stale \in [Jobs -> Views]
      /\ mine \in [Jobs -> [Points -> {"no", "measuring"} \cup Outcomes]]
      /\ op[j].to = "done" => op[j].p \in results
      /\ \A p \in Points : mine[j][p] = "done" => p \in results
  BY TypeParts DEF QueueInv, Moving, Backed, Workers
<1>n. NoOp \in Ops /\ MoveOK(NoOp) /\ NoOp.to # "done" /\ NoView \in Views
  BY NoOpOK, NoViewTyped
<1>z. 0 \in 0..MaxAttempts  BY QueueAssumption
<1>1. CASE ReadyToWork(j) \/ FindNothing(j) \/ Finish(j) \/ LastReaped(j) \/ Leave(j)
  <2>1. /\ \E to \in Phases : phase' = [phase EXCEPT ![j] = to]
        /\ stale' = stale \/ stale' = [stale EXCEPT ![j] = NoView]
        /\ UNCHANGED <<file, owner, results, mine, op, events, together>>
    BY <1>1 DEF ReadyToWork, FindNothing, Finish, LastReaped, Leave, Phases
  <2>2. JobsKept
    <3>1. phase' \in [Jobs -> Phases] /\ stale' \in [Jobs -> Views]  BY <2>1, <1>t, <1>n
    <3>2. QED BY <2>1, <3>1, <1>t DEF JobsKept
  <2>3. MovesKept  BY <2>1 DEF MovesKept
  <2>4. QED BY <2>1, <2>2, <2>3, StandStill, AllKept
<1>2. CASE Start(j)
  <2>0. PICK told \in BOOLEAN : stale' = [stale EXCEPT ![j] =
          [NoView EXCEPT !.alive = {k \in Jobs : ~Ended(k)}, !.told = told,
                         !.unread = {p \in Points : In("running", p)}]]
    BY <1>2 DEF Start
  <2> DEFINE view == [NoView EXCEPT !.alive = {k \in Jobs : ~Ended(k)}, !.told = told,
                                   !.unread = {p \in Points : In("running", p)}]
  <2>1. /\ phase' = [phase EXCEPT ![j] = "stale"] /\ stale' = [stale EXCEPT ![j] = view]
        /\ UNCHANGED <<file, owner, results, mine, op, events, together>>
    BY <1>2, <2>0 DEF Start
  <2>2. view \in Views  BY <1>n DEF Views
  <2>3. JobsKept
    <3> HIDE DEF view
    <3>1. phase' \in [Jobs -> Phases] /\ stale' \in [Jobs -> Views]
      BY <2>1, <2>2, <1>t DEF Phases
    <3>2. QED BY <2>1, <3>1, <1>t DEF JobsKept
  <2>4. MovesKept  BY <2>1 DEF MovesKept
  <2>5. QED BY <2>1, <2>3, <2>4, StandStill, AllKept
<1>3. ASSUME NEW p \in Points, ReadOwner(j, p) PROVE QueueInv'
  <2> DEFINE view == [stale[j] EXCEPT !.unread = @ \ {p}, !.unjudged = @ \cup {p},
                                     !.owners = [@ EXCEPT ![p] = owner[p]]]
  <2>1. /\ stale' = [stale EXCEPT ![j] = view]
        /\ UNCHANGED <<file, owner, results, phase, mine, op, events, together>>
    BY <1>3, <1>t DEF ReadOwner
  <2>2. view \in Views
    <3>1. stale[j] \in Views /\ owner[p] \in Jobs \cup {Nothing}  BY <1>t
    <3>2. [stale[j].owners EXCEPT ![p] = owner[p]] \in [Points -> Jobs \cup {Nothing}]
      BY <3>1 DEF Views
    <3>3. QED BY <3>1, <3>2 DEF Views
  <2>3. JobsKept
    <3> HIDE DEF view
    <3>1. stale' \in [Jobs -> Views]  BY <2>1, <2>2, <1>t
    <3>2. QED BY <2>1, <3>1, <1>t DEF JobsKept
  <2>4. MovesKept  BY <2>1 DEF MovesKept
  <2>5. QED BY <2>1, <2>3, <2>4, StandStill, AllKept
<1>4. ASSUME NEW p \in Points, Judge(j, p) PROVE QueueInv'
  <2> DEFINE view == [stale[j] EXCEPT !.unjudged = @ \ {p}, !.owners = [@ EXCEPT ![p] = Nothing]]
  <2>1. /\ stale' = [stale EXCEPT ![j] = view]
        /\ UNCHANGED <<file, owner, results, phase, mine, events, together>>
    BY <1>4, <1>t DEF Judge
  <2>2. view \in Views
    <3>1. stale[j] \in Views  BY <1>t
    <3>2. [stale[j].owners EXCEPT ![p] = Nothing] \in [Points -> Jobs \cup {Nothing}]
      BY <3>1 DEF Views
    <3>3. QED BY <3>1, <3>2 DEF Views
  <2>3. JobsKept
    <3> HIDE DEF view
    <3>1. stale' \in [Jobs -> Views]  BY <2>1, <2>2, <1>t
    <3>2. QED BY <2>1, <3>1, <1>t DEF JobsKept
  <2>4. MovesKept
    <3>1. CASE Move(j, p, "load", "running", "todo", 0, "none")
      BY <3>1, <1>t, <1>z, MoveMade DEF Steps, States, Whys
    <3>2. CASE op' = op  BY <3>2 DEF MovesKept
    <3>3. QED BY <1>4, <3>1, <3>2 DEF Judge
  <2>5. QED BY <2>1, <2>3, <2>4, StandStill, AllKept
<1>5. ASSUME NEW p \in Points, Claim(j, p) PROVE QueueInv'
  <2>1. /\ file' = [file EXCEPT !["running"][p] = file["todo"][p], !["todo"][p] = Nothing]
        /\ Move(j, p, "own", "todo", "running", 0, "none")
        /\ UNCHANGED <<owner, results, phase, mine, stale, events, together>>
    BY <1>5 DEF Claim
  <2>2. FilesKept  BY <2>1, RenameKept DEF Places, States
  <2>3. MovesKept  BY <2>1, <1>t, <1>z, MoveMade DEF Steps, States, Whys
  <2>4. QED BY <2>1, <2>2, <2>3, StandStill, AllKept
<1>6. CASE Own(j)
  <2>1. /\ op[j].step = "own" /\ owner' = [owner EXCEPT ![op[j].p] = j]
        /\ op' = [op EXCEPT ![j] = [op[j] EXCEPT !.step = "take"]]
        /\ UNCHANGED <<file, results, phase, mine, stale, events, together>>
    BY <1>6, <1>t DEF Own
  <2>2. owner' \in [Points -> Jobs \cup {Nothing}]  BY <2>1, <1>t
  <2>3. RestKept  BY <2>1, <2>2, TypeParts DEF QueueInv, RestKept
  <2>4. MovesKept
    <3> DEFINE o == [op[j] EXCEPT !.step = "take"]
    <3>1. o \in Ops /\ MoveOK(o) /\ (o.to = "done" => o.p \in results)
      BY <1>t, <2>1 DEF Ops, Steps, MoveOK
    <3>2. op' = [op EXCEPT ![j] = o]  BY <2>1
    <3> HIDE DEF o
    <3>3. QED BY <3>1, <3>2, <1>t DEF MovesKept
  <2>5. QED BY <2>1, <2>3, <2>4, StandStill, AllKept
<1>7. CASE Take(j)
  <2>1. /\ op[j].step = "take" /\ op' = [op EXCEPT ![j] = NoOp]
        /\ UNCHANGED <<file, owner, results, stale, events, together>>
        /\ \/ mine' = [mine EXCEPT ![j][op[j].p] = "measuring"] /\ phase' = phase
           \/ /\ mine' = [mine EXCEPT ![j] = [p \in Points |-> "no"]]
              /\ phase' = [phase EXCEPT ![j] = "ended"]
    BY <1>7 DEF Take
  <2>2. mine' \in [Jobs -> [Points -> {"no", "measuring"} \cup Outcomes]]
        /\ phase' \in [Jobs -> Phases]
    <3>1. CASE mine' = [mine EXCEPT ![j][op[j].p] = "measuring"] /\ phase' = phase
      BY <3>1, <1>t
    <3>2. CASE /\ mine' = [mine EXCEPT ![j] = [p \in Points |-> "no"]]
               /\ phase' = [phase EXCEPT ![j] = "ended"]
      BY <3>2, <1>t DEF Phases
    <3>3. QED BY <2>1, <3>1, <3>2
  <2>3. \A k \in Jobs, p \in Points : mine'[k][p] = "done" => mine[k][p] = "done"
    BY <2>1, <1>t
  <2>4. JobsKept  BY <2>1, <2>2, <2>3, <1>t DEF JobsKept
  <2>5. MovesKept  BY <2>1, <1>t, <1>n DEF MovesKept
  <2>6. QED BY <2>1, <2>4, <2>5, StandStill, AllKept
<1>8. ASSUME NEW p \in Points, Reap(j, p) \/ Release(j, p) PROVE QueueInv'
  <2> DEFINE to == IF Reap(j, p) THEN Destination(mine[j][p]) ELSE "todo"
             why == IF Reap(j, p) THEN mine[j][p] ELSE "released"
  <2>1. /\ mine' = [mine EXCEPT ![j][p] = "no"]
        /\ Move(j, p, "load", "running", to, 0, why)
        /\ UNCHANGED <<file, owner, results, phase, stale, events, together>>
    BY <1>8 DEF Reap, Release
  <2>2. to \in States /\ to # "running" /\ why \in Whys /\ (to = "done" => p \in results)
    <3>1. CASE Reap(j, p)
      BY <3>1, <1>t DEF Reap, Destination, Outcomes, States, Whys
    <3>2. CASE ~Reap(j, p)  BY <3>2 DEF States, Whys, Outcomes
    <3>3. QED BY <3>1, <3>2
  <2>3. JobsKept
    <3>1. mine' \in [Jobs -> [Points -> {"no", "measuring"} \cup Outcomes]]  BY <2>1, <1>t
    <3>2. \A k \in Jobs, q \in Points : mine'[k][q] = "done" => mine[k][q] = "done"
      BY <2>1, <1>t
    <3>3. QED BY <2>1, <3>1, <3>2, <1>t DEF JobsKept
  <2>4. MovesKept
    <3> HIDE DEF to, why
    <3>1. QED BY <2>1, <2>2, <1>t, <1>z, MoveMade DEF Steps, States
  <2>5. QED BY <2>1, <2>3, <2>4, StandStill, AllKept
<1>9. QED BY <1>1, <1>2, <1>3, <1>4, <1>5, <1>6, <1>7, <1>8 DEF Works

(* What Slurm does to a job, and its measurements.                         *)
LEMMA SlurmKept ==
  ASSUME QueueInv, NEW j \in Jobs,
         Submit(j) \/ Stop(j) \/ Kill(j) \/ \E p \in Points : Measured(j, p)
  PROVE  QueueInv'
<1>t. /\ op \in [Workers -> Ops] /\ j \in Workers /\ results \subseteq Points
      /\ phase \in [Jobs -> Phases] /\ stale \in [Jobs -> Views]
      /\ mine \in [Jobs -> [Points -> {"no", "measuring"} \cup Outcomes]]
      /\ events \in 0..MaxEvents /\ MaxEvents \in Nat
      /\ owner \in [Points -> Jobs \cup {Nothing}] /\ together \in BOOLEAN
  BY TypeParts, QueueAssumption DEF QueueInv, Workers
<1>n. NoOp \in Ops /\ MoveOK(NoOp) /\ NoOp.to # "done" /\ NoView \in Views
  BY NoOpOK, NoViewTyped
<1>1. CASE Submit(j) \/ Stop(j)
  <2>1. /\ \E to \in Phases : phase' = [phase EXCEPT ![j] = to]
        /\ events' = events \/ (events > 0 /\ events' = events - 1)
        /\ UNCHANGED <<file, owner, results, mine, stale, op, together>>
    <3>1. "queued" \in Phases /\ "stopping" \in Phases  BY DEF Phases
    <3>2. CASE Submit(j)  BY <3>1, <3>2 DEF Submit
    <3>3. CASE Stop(j)  BY <3>1, <3>3 DEF Stop
    <3>4. QED BY <1>1, <3>2, <3>3
  <2>2. events' \in 0..MaxEvents /\ phase' \in [Jobs -> Phases]  BY <2>1, <1>t
  <2>3. RestKept /\ JobsKept  BY <2>1, <2>2, <1>t DEF RestKept, JobsKept
  <2>4. MovesKept  BY <2>1 DEF MovesKept
  <2>5. QED BY <2>1, <2>3, <2>4, StandStill, AllKept
<1>2. CASE Kill(j)
  <2>1. /\ events > 0 /\ events' = events - 1
        /\ phase' = [phase EXCEPT ![j] = "ended"] /\ stale' = [stale EXCEPT ![j] = NoView]
        /\ mine' = [mine EXCEPT ![j] = [p \in Points |-> "no"]]
        /\ op' = [op EXCEPT ![j] = NoOp]
        /\ UNCHANGED <<file, owner, results, together>>
    BY <1>2 DEF Kill
  <2>2. events' \in 0..MaxEvents  BY <2>1, <1>t
  <2>3. phase' \in [Jobs -> Phases] /\ stale' \in [Jobs -> Views]  BY <2>1, <1>t, <1>n DEF Phases
  <2>4. /\ mine' \in [Jobs -> [Points -> {"no", "measuring"} \cup Outcomes]]
        /\ \A k \in Jobs, p \in Points : mine'[k][p] = "done" => mine[k][p] = "done"
    BY <2>1, <1>t
  <2>5. RestKept /\ JobsKept  BY <2>1, <2>2, <2>3, <2>4, <1>t DEF RestKept, JobsKept
  <2>6. MovesKept  BY <2>1, <1>t, <1>n DEF MovesKept
  <2>7. QED BY <2>1, <2>5, <2>6, StandStill, AllKept
<1>3. ASSUME NEW p \in Points, Measured(j, p) PROVE QueueInv'
  <2>1. PICK end \in Outcomes :
          /\ mine' = [mine EXCEPT ![j][p] = end]
          /\ results' = IF end = "done" THEN results \cup {p} ELSE results
    BY <1>3 DEF Measured, Outcomes
  <2>2. UNCHANGED <<file, owner, phase, stale, op, events, together>>  BY <1>3 DEF Measured
  <2>3. results \subseteq results' /\ results' \subseteq Points /\ (end = "done" => p \in results')
    BY <2>1, <1>t
  <2>4. mine' \in [Jobs -> [Points -> {"no", "measuring"} \cup Outcomes]]  BY <2>1, <1>t
  <2>5. ASSUME NEW k \in Jobs, NEW q \in Points, mine'[k][q] = "done"
        PROVE  mine[k][q] = "done" \/ q \in results'
    BY <2>1, <2>3, <2>5, <1>t
  <2>6. RestKept /\ JobsKept  BY <2>2, <2>3, <2>4, <2>5, <1>t DEF RestKept, JobsKept
  <2>7. MovesKept  BY <2>2 DEF MovesKept
  <2>8. QED BY <2>2, <2>6, <2>7, StandStill, AllKept
<1>4. QED BY <1>1, <1>2, <1>3

(* What people type.                                                       *)
LEMMA CommandsKept ==
  ASSUME QueueInv,
         Look \/ \E p \in Points : Unblock(p) \/ Retry(p) \/ SetAside(p) \/ Replan(p)
  PROVE  QueueInv'
<1>t. /\ op \in [Workers -> Ops] /\ Person \in Workers /\ op[Person] \in Ops
      /\ MoveOK(op[Person]) /\ (op[Person].to = "done" => op[Person].p \in results)
      /\ events \in 0..MaxEvents /\ MaxEvents \in Nat /\ results \subseteq Points
      /\ owner \in [Points -> Jobs \cup {Nothing}] /\ together \in BOOLEAN
  BY TypeParts, QueueAssumption DEF QueueInv, Workers, Moving, Backed
<1>n. NoOp \in Ops /\ MoveOK(NoOp) /\ NoOp.to # "done"  BY NoOpOK
<1>z. 0 \in 0..MaxAttempts  BY QueueAssumption
<1>1. CASE Look
  <2> DEFINE o == IF In(op[Person].from, op[Person].p) THEN NoOp
                  ELSE IF op[Person].from = "blocked" THEN [op[Person] EXCEPT !.step = "write"]
                  ELSE [op[Person] EXCEPT !.from = After(op[Person].from)]
  <2>1. /\ op[Person].step = "look" /\ op' = [op EXCEPT ![Person] = o]
        /\ UNCHANGED <<file, owner, results, phase, mine, stale, events, together>>
    <3>1. op[Person].step = "look" /\ UNCHANGED <<file, owner, results, phase, mine, stale, events, together>>
      BY <1>1 DEF Look
    <3>2. op' = [op EXCEPT ![Person] = o]  BY <1>1 DEF Look
    <3>3. QED BY <3>1, <3>2
  <2>2. o \in Ops /\ MoveOK(o) /\ (o.to = "done" => o.p \in results)
    <3>1. op[Person].from \in States  BY <1>t DEF Ops
    <3>2. CASE In(op[Person].from, op[Person].p)  BY <3>2, <1>n
    <3>3. CASE ~In(op[Person].from, op[Person].p) /\ op[Person].from = "blocked"
      <4>1. o = [op[Person] EXCEPT !.step = "write"]  BY <3>3
      <4>2. o \in Ops  BY <4>1, <1>t DEF Ops, Steps
      <4>3. MoveOK(o)
        BY <4>1, <1>t, <2>1, <3>3 DEF Ops, Steps, MoveOK
      <4>4. QED BY <4>1, <4>2, <4>3, <1>t DEF Ops
    <3>4. CASE ~In(op[Person].from, op[Person].p) /\ op[Person].from # "blocked"
      <4>1. o = [op[Person] EXCEPT !.from = After(op[Person].from)]  BY <3>4
      <4>2. After(op[Person].from) \in States  BY <3>1, <3>4 DEF After, States
      <4>3. QED BY <4>1, <4>2, <1>t, <2>1 DEF Ops, MoveOK
    <3>5. QED BY <3>2, <3>3, <3>4
  <2>3. MovesKept
    <3> HIDE DEF o
    <3>1. QED BY <2>1, <2>2, <1>t DEF MovesKept
  <2>4. QED BY <2>1, <2>3, StandStill, AllKept
<1>2. ASSUME NEW p \in Points, Unblock(p) \/ Retry(p) \/ SetAside(p) \/ Replan(p)
      PROVE  QueueInv'
  <2>1. /\ events > 0 /\ events' = events - 1
        /\ UNCHANGED <<owner, results, phase, mine, stale, together>>
    BY <1>2 DEF Unblock, Retry, SetAside, Replan, Command
  <2>2. events' \in 0..MaxEvents  BY <2>1, <1>t
  <2>3. RestKept  BY <2>1, <2>2, <1>t DEF RestKept
  <2>4. JobsKept  BY <2>1, StandStill
  <2>5. CASE SetAside(p)
    <3>1. FilesKept  BY <2>5, RenameKept DEF SetAside, Places, States
    <3>2. MovesKept  BY <2>5 DEF SetAside, MovesKept
    <3>3. QED BY <2>3, <2>4, <3>1, <3>2, AllKept
  <2>6. CASE Unblock(p) \/ Retry(p) \/ Replan(p)
    <3>1. FilesKept  BY <2>6, StandStill DEF Unblock, Retry, Replan
    <3>2. CASE Unblock(p)
      <4>1. Move(Person, p, "load", "blocked", "todo", 0, "none")  BY <3>2 DEF Unblock
      <4>2. MovesKept  BY <4>1, <1>t, <1>z, MoveMade DEF Steps, States, Whys
      <4>3. QED BY <2>3, <2>4, <3>1, <4>2, AllKept
    <3>3. CASE Retry(p)
      <4>1. Move(Person, p, "load", "failed", "todo", 0, "retry")  BY <3>3 DEF Retry
      <4>2. MovesKept  BY <4>1, <1>t, <1>z, MoveMade DEF Steps, States, Whys
      <4>3. QED BY <2>3, <2>4, <3>1, <4>2, AllKept
    <3>4. CASE Replan(p)
      <4>1. Move(Person, p, "look", "todo", "todo", 0, "add")  BY <3>4 DEF Replan
      <4>2. MovesKept  BY <4>1, <1>t, <1>z, MoveMade DEF Steps, States, Whys
      <4>3. QED BY <2>3, <2>4, <3>1, <4>2, AllKept
    <3>5. QED BY <2>6, <3>2, <3>3, <3>4
  <2>7. QED BY <1>2, <2>5, <2>6
<1>3. QED BY <1>1, <1>2

LEMMA StepQueue == QueueInv /\ [Next]_vars => QueueInv'
<1> SUFFICES ASSUME QueueInv, [Next]_vars PROVE QueueInv'  OBVIOUS
<1>1. CASE UNCHANGED vars
  <2>1. MovesKept  BY <1>1 DEF vars, MovesKept
  <2>2. QED BY <1>1, <2>1, StandStill, AllKept DEF vars
<1>2. ASSUME NEW j \in Jobs, Works(j) PROVE QueueInv'
  <2>1. j \in Workers  BY DEF Workers
  <2>2. QED BY <1>2, <2>1, StepKept, WorksKept
<1>3. ASSUME NEW j \in Jobs, Submit(j) \/ Stop(j) \/ Kill(j) \/ \E p \in Points : Measured(j, p)
      PROVE  QueueInv'
  BY <1>3, SlurmKept
<1>4. CASE Step(Person)
  <2>1. Person \in Workers  BY DEF Workers
  <2>2. QED BY <1>4, <2>1, StepKept
<1>5. CASE Look \/ \E p \in Points : Unblock(p) \/ Retry(p) \/ SetAside(p) \/ Replan(p)
  BY <1>5, CommandsKept
<1>6. QED BY <1>1, <1>2, <1>3, <1>4, <1>5 DEF Next

LEMMA QueueInvariant == Spec => []QueueInv
BY InitQueue, StepQueue, PTL DEF Spec

(* Every variable holds what the code can put in it.                       *)
THEOREM QueueTypeCorrect == Spec => []TypeOK
<1>1. QueueInv => TypeOK  BY DEF QueueInv
<1>2. QED BY <1>1, QueueInvariant, PTL

(* What is in done/ has a result on disk, wherever jobs are killed: the    *)
(* move to done/ is begun, by reap, only after _execute wrote the result.  *)
THEOREM DoneIsBacked == Spec => []DoneHasResult
<1>1. QueueInv => DoneHasResult  BY DEF QueueInv, Backed, DoneHasResult
<1>2. QED BY <1>1, QueueInvariant, PTL

-----------------------------------------------------------------------------
(* Points that leave every directory. *)

LossExcused ==
  \A p \in Points : Known(p) /\ ~Known(p)' =>
    \E w \in Workers : op[w].step = "drop" /\ op[w].p = p /\ ~In(op[w].to, p)

(* A rename takes a point's file with it.                                  *)
LEMMA RenameKeepsKnown ==
  ASSUME QueueInv, NEW s \in Places \ {"todo"}, NEW p \in Points, In("todo", p),
         file' = [file EXCEPT ![s][p] = file["todo"][p], !["todo"][p] = Nothing]
  PROVE  \A q \in Points : Known(q) => Known(q)'
<1>1. file \in [Places -> [Points -> File \cup {Nothing}]]  BY TypeParts DEF QueueInv
<1>2. "todo" \in Places  BY DEF Places, States
<1>3. ASSUME NEW q \in Points, Known(q) PROVE Known(q)'
  <2>1. PICK x \in Places : In(x, q)  BY <1>3 DEF Known
  <2>2. CASE q = p
    <3>1. file'[s][p] = file["todo"][p]  BY <1>1, <1>2
    <3>2. In(s, p)'  BY <3>1 DEF In
    <3>3. QED BY <2>2, <3>2 DEF Known
  <2>3. CASE q # p
    <3>1. file'[x][q] = file[x][q]  BY <1>1, <1>2, <2>3
    <3>2. In(x, q)'  BY <2>1, <3>1 DEF In
    <3>3. QED BY <3>2 DEF Known
  <2>4. QED BY <2>2, <2>3
<1>4. QED BY <1>3

LEMMA OnlyDropLoses == QueueInv /\ [Next]_vars => LossExcused
<1> SUFFICES ASSUME QueueInv, [Next]_vars PROVE LossExcused  OBVIOUS
<1>t. /\ op \in [Workers -> Ops] /\ \A w \in Workers : MoveOK(op[w])
      /\ file \in [Places -> [Points -> File \cup {Nothing}]]
  BY TypeParts DEF QueueInv, Moving
<1>s. States \subseteq Places  BY DEF Places
<1>1. CASE UNCHANGED file
  <2>1. \A p \in Points : Known(p)' = Known(p)  BY <1>1 DEF Known, In
  <2>2. QED BY <2>1 DEF LossExcused
<1>2. ASSUME NEW j \in Jobs, NEW p \in Points, Claim(j, p) PROVE LossExcused
  <2>1. \A q \in Points : Known(q) => Known(q)'
    BY <1>2, RenameKeepsKnown DEF Claim, Places, States
  <2>2. QED BY <2>1 DEF LossExcused
<1>3. ASSUME NEW p \in Points, SetAside(p) PROVE LossExcused
  <2>1. \A q \in Points : Known(q) => Known(q)'
    BY <1>3, RenameKeepsKnown DEF SetAside, Places, States
  <2>2. QED BY <2>1 DEF LossExcused
<1>4. ASSUME NEW w \in Workers, Write(w) PROVE LossExcused
  <2> DEFINE n == IF op[w].to \in {"done", "failed"} THEN 0 ELSE op[w].attempts
  <2>1. op[w] \in Ops /\ op[w].step = "write" /\ file' = [file EXCEPT ![op[w].to][op[w].p] = n]
    BY <1>4, <1>t DEF Write
  <2>2. n # Nothing
    <3>1. n \in 0..MaxAttempts  BY <2>1, QueueAssumption DEF Ops
    <3>2. QED BY <3>1, QueueAssumption
  <2>3. ASSUME NEW q \in Points, Known(q) PROVE Known(q)'
    <3>1. PICK x \in Places : In(x, q)  BY <2>3 DEF Known
    <3>2. file'[x][q] # Nothing
      <4> HIDE DEF n
      <4>1. CASE x = op[w].to /\ q = op[w].p  BY <4>1, <2>1, <2>2, <1>t
      <4>2. CASE ~(x = op[w].to /\ q = op[w].p)
        <5>1. file'[x][q] = file[x][q]  BY <4>2, <2>1, <1>t
        <5>2. QED BY <5>1, <3>1 DEF In
      <4>3. QED BY <4>1, <4>2
    <3>3. QED BY <3>2 DEF Known, In
  <2>4. QED BY <2>3 DEF LossExcused
<1>5. ASSUME NEW w \in Workers, Drop(w) PROVE LossExcused
  <2>1. /\ op[w] \in Ops /\ op[w].step = "drop" /\ op[w].from # op[w].to /\ op[w].p \in Points
        /\ file' = [file EXCEPT ![op[w].from][op[w].p] = Nothing]
    BY <1>5, <1>t DEF Drop, MoveOK
  <2>2. ASSUME NEW q \in Points, Known(q), ~Known(q)'
        PROVE  op[w].p = q /\ ~In(op[w].to, q)
    <3>1. PICK x \in Places : In(x, q)  BY <2>2 DEF Known
    <3>2. op[w].p = q
      <4>1. SUFFICES ASSUME op[w].p # q PROVE FALSE  OBVIOUS
      <4>2. file'[x][q] = file[x][q]  BY <4>1, <2>1, <1>t
      <4>3. QED BY <4>2, <3>1, <2>2 DEF Known, In
    <3>3. ~In(op[w].to, q)
      <4>1. SUFFICES ASSUME In(op[w].to, q) PROVE FALSE  OBVIOUS
      <4>2. op[w].to \in Places  BY <2>1, <1>s DEF Ops
      <4>3. file'[op[w].to][q] = file[op[w].to][q]  BY <4>2, <2>1, <1>t
      <4>4. QED BY <4>1, <4>2, <4>3, <2>2 DEF Known, In
    <3>4. QED BY <3>2, <3>3
  <2>3. QED BY <2>1, <2>2 DEF LossExcused
<1>6. \A w \in Workers : Load(w) \/ Disown(w) => UNCHANGED file
  BY DEF Load, Disown
<1>7. Person \in Workers /\ Jobs \subseteq Workers  BY DEF Workers
<1>8. \A w \in Workers : Step(w) => LossExcused
  BY <1>1, <1>4, <1>5, <1>6 DEF Step
<1>9. ASSUME NEW j \in Jobs, Works(j) PROVE LossExcused
  <2>1. CASE UNCHANGED file  BY <2>1, <1>1
  <2>2. CASE Step(j)  BY <2>2, <1>7, <1>8
  <2>3. CASE \E p \in Points : Claim(j, p)  BY <2>3, <1>2
  <2>4. QED BY <1>9, <2>1, <2>2, <2>3
    DEF Works, Start, ReadyToWork, Own, Take, FindNothing, Finish, LastReaped, Leave,
        ReadOwner, Judge, Reap, Release
<1>10. ASSUME NEW j \in Jobs, Submit(j) \/ Stop(j) \/ Kill(j) \/ \E p \in Points : Measured(j, p)
       PROVE  LossExcused
  BY <1>10, <1>1 DEF Submit, Stop, Kill, Measured
<1>11. CASE Look \/ \E p \in Points : Unblock(p) \/ Retry(p) \/ Replan(p)
  BY <1>11, <1>1 DEF Look, Unblock, Retry, Replan
<1>12. QED
  BY <1>1, <1>3, <1>7, <1>8, <1>9, <1>10, <1>11 DEF Next, vars

(* A point leaves every directory in one way only: a process that has put  *)
(* it elsewhere removes the copy it moved (_leave_running, unlink in       *)
(* unblock and retry) after another took the new one.  No kill between two *)
(* accesses loses a point.                                                 *)
THEOREM PointsAreNotLost == Spec => LostOnlyOvertaken
<1>1. QueueInv /\ [Next]_vars => [LossExcused]_vars  BY OnlyDropLoses
<1>2. Spec => [][LossExcused]_vars  BY <1>1, QueueInvariant, PTL DEF Spec
<1>3. QED BY <1>2 DEF LostOnlyOvertaken, LossExcused
=============================================================================
