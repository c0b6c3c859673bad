--------------------------- MODULE CampaignQueue ---------------------------
(***************************************************************************)
(* The benchmark campaign's queue: bench/campaign/fsqueue.py and the jobs  *)
(* and commands of campaign.py that move points through it.                *)
(*                                                                         *)
(* The queue is a directory per state with a file per point, shared by     *)
(* jobs on several nodes and by the commands people type.  Nothing locks   *)
(* it: a rename is atomic, everything else is one file access after        *)
(* another, and a process may be killed between any two.  Every access     *)
(* another process could come between is an action.                        *)
(*                                                                         *)
(* What is abstracted.  A point's file is its count of attempts; a job's   *)
(* devices and the order it prefers points in are a choice of a waiting    *)
(* point; whether a file was last written longer than ORPHAN_GRACE_S ago   *)
(* is a choice too.  A job never takes a point it is measuring already.    *)
(***************************************************************************)
EXTENDS Naturals, FiniteSets

CONSTANTS
  Points,      (* what the campaign measures                               *)
  Jobs,        (* ids of Slurm jobs; an id nothing mentions any more is    *)
               (* used again, as a job no file has heard of                *)
  Person,      (* whoever types commands against the queue                 *)
  MaxAttempts, (* MAX_ATTEMPTS                                             *)
  MaxEvents,   (* bound: jobs that Slurm stops or kills early, and points  *)
               (* that commands move                                       *)
  Nothing      (* no file, no job, no point                                *)

ASSUME QueueAssumption ==
  /\ IsFiniteSet(Points) /\ IsFiniteSet(Jobs)
  /\ Person \notin Jobs /\ Nothing \notin Jobs \cup Points \cup 0..MaxAttempts
  /\ MaxAttempts \in Nat \ {0} /\ MaxEvents \in Nat

States   == {"todo", "running", "done", "failed", "blocked"}
Places   == States \cup {"aside"}
Workers  == Jobs \cup {Person}
Outcomes == {"done", "failed", "died", "blocked", "released"}
File     == 0..MaxAttempts   (* "attempts" in the point's JSON *)

VARIABLES
  (* The directories. *)
  file,     (* file[s][p]: the attempts in the point's file in directory   *)
            (* s, or Nothing                                               *)
  owner,    (* the job named by <id>.owner.json, or Nothing                *)
  results,  (* points with a result in results/                            *)
  (* The jobs. *)
  phase,    (* "queued" in Slurm, putting "stale" points back, "working",  *)
            (* "leaving" with nothing to do, "stopping": reaping a last    *)
            (* time, "releasing", "ended"                                  *)
  mine,     (* mine[j][p]: "no", "measuring", or how the measuring ended   *)
  stale,    (* what requeue_stale has seen: the jobs alive, whether squeue *)
            (* told it of them, the points whose owner it has yet to read, *)
            (* those it has to judge and the owner it read                 *)
  op,       (* the move of a point each process is in the middle of        *)
  events,   (* stops, kills and commands that may still happen             *)
  together  (* whether jobs and commands share the queue at the same time, *)
            (* or each waits until the one before has ended ("afterany")   *)

vars == <<file, owner, results, phase, mine, stale, op, events, together>>

NoOp  == [p |-> Nothing, step |-> "none", from |-> "todo", to |-> "todo",
          attempts |-> 0, why |-> "none"]
NoView == [alive |-> {}, told |-> TRUE, unread |-> {}, unjudged |-> {},
           owners |-> [p \in Points |-> Nothing]]

In(s, p)  == file[s][p] # Nothing
Known(p)  == \E s \in Places : In(s, p)
Idle(w)   == op[w] = NoOp
Ended(j)  == phase[j] = "ended"
Active(w) == IF w = Person THEN ~Idle(w) ELSE phase[w] \notin {"queued", "ended"}
MayCome(w) == together \/ \A v \in Workers \ {w} : ~Active(v)
Holding(j) == {p \in Points : mine[j][p] # "no"}

TypeOK ==
  /\ file \in [Places -> [Points -> File \cup {Nothing}]]
  /\ owner \in [Points -> Jobs \cup {Nothing}]
  /\ results \subseteq Points
  /\ phase \in [Jobs -> {"queued", "stale", "working", "leaving",
                     "stopping", "releasing", "ended"}]
  /\ mine \in [Jobs -> [Points -> {"no", "measuring"} \cup Outcomes]]
  /\ stale \in [Jobs -> [alive : SUBSET Jobs, told : BOOLEAN,
                         unread : SUBSET Points, unjudged : SUBSET Points,
                         owners : [Points -> Jobs \cup {Nothing}]]]
  /\ op \in [Workers -> [p : Points \cup {Nothing},
                         step : {"none", "own", "take", "look", "load", "write", "drop", "disown"},
                         from : States, to : States, attempts : 0..MaxAttempts,
                         why : Outcomes \cup {"none", "retry", "add"}]]
  /\ events \in 0..MaxEvents
  /\ together \in BOOLEAN

(* `plan` has queued every point; no job has started. *)
Init ==
  /\ file = [s \in Places |-> [p \in Points |-> IF s = "todo" THEN 0 ELSE Nothing]]
  /\ owner = [p \in Points |-> Nothing]
  /\ results = {}
  /\ phase = [j \in Jobs |-> "queued"]
  /\ mine = [j \in Jobs |-> [p \in Points |-> "no"]]
  /\ stale = [j \in Jobs |-> NoView]
  /\ op = [w \in Workers |-> NoOp]
  /\ events = MaxEvents
  /\ together \in BOOLEAN

Move(w, p, step, from, to, n, why) ==
  op' = [op EXCEPT ![w] = [p |-> p, step |-> step, from |-> from, to |-> to,
                           attempts |-> n, why |-> why]]

(***************************************************************************)
(* Moving a point between directories.                                     *)
(***************************************************************************)

(* Slip: the copy in running/ is removed before the new one is written.    *)
LoadRemoves(w) ==
  /\ op[w].step = "load" /\ In(op[w].from, op[w].p)
  /\ Move(w, op[w].p, "write", op[w].from, op[w].to, file[op[w].from][op[w].p], "none")
  /\ file' = [file EXCEPT ![op[w].from][op[w].p] = Nothing]
  /\ UNCHANGED <<owner, results, phase, mine, stale, events, together>>

(* Queue.load before a move: with the point's file gone the move is off.   *)
(* Queue.finish counts a failure here, and sends it back to todo while     *)
(* attempts are left and no server died.                                   *)
Load(w) ==
  /\ op[w].step = "load"
  /\ LET p == op[w].p
         from == op[w].from
         found == file[from][p]
         failing == op[w].why \in {"failed", "died"}
         tries == IF failing /\ found < MaxAttempts THEN found + 1 ELSE found
     IN IF ~In(from, p) THEN op' = [op EXCEPT ![w] = NoOp]
        ELSE Move(w, p, "write", from,
                  IF op[w].why = "failed" /\ tries < MaxAttempts THEN "todo" ELSE op[w].to,
                  IF op[w].why = "retry" THEN 0 ELSE tries, "none")
  /\ UNCHANGED <<file, owner, results, phase, mine, stale, events, together>>

(* _write: a temporary file renamed over whatever had the name.  (Nobody   *)
(* reads the attempts of a point in done/ or failed/: they are left out.)  *)
Write(w) ==
  /\ op[w].step = "write"
  /\ file' = [file EXCEPT ![op[w].to][op[w].p] =
       IF op[w].to \in {"done", "failed"} THEN 0 ELSE op[w].attempts]
  /\ op' = [op EXCEPT ![w] = IF @.why = "add" THEN NoOp ELSE [@ EXCEPT !.step = "drop"]]
  /\ UNCHANGED <<owner, results, phase, mine, stale, events, together>>

(* The file the point was moved from is removed; Queue.unblock and         *)
(* Queue.retry end here.                                                   *)
Drop(w) ==
  /\ op[w].step = "drop"
  /\ file' = [file EXCEPT ![op[w].from][op[w].p] = Nothing]
  /\ op' = [op EXCEPT ![w] = IF @.from = "running" THEN [@ EXCEPT !.step = "disown"]
                             ELSE NoOp]
  /\ UNCHANGED <<owner, results, phase, mine, stale, events, together>>

(* _leave_running's last step: the owner file goes.                        *)
Disown(w) ==
  /\ op[w].step = "disown"
  /\ owner' = [owner EXCEPT ![op[w].p] = Nothing]
  /\ op' = [op EXCEPT ![w] = NoOp]
  /\ UNCHANGED <<file, results, phase, mine, stale, events, together>>

(***************************************************************************)
(* A job: requeue_stale, then the loop of claims, then the way out.        *)
(***************************************************************************)

(* alive_jobs, None when squeue cannot be asked, and the listing of        *)
(* running/ that Queue.running begins with.                                *)
Start(j) ==
  /\ phase[j] = "queued" /\ MayCome(j)
  /\ phase' = [phase EXCEPT ![j] = "stale"]
  /\ \E told \in BOOLEAN :
       stale' = [stale EXCEPT ![j] = [NoView EXCEPT
         !.alive = {k \in Jobs : ~Ended(k)}, !.told = told,
         !.unread = {p \in Points : In("running", p)}]]
  /\ UNCHANGED <<file, owner, results, mine, op, events, together>>

ReadOwner(j, p) ==
  /\ phase[j] = "stale" /\ p \in stale[j].unread
  /\ stale' = [stale EXCEPT ![j].unread = @ \ {p}, ![j].unjudged = @ \cup {p},
                            ![j].owners[p] = owner[p]]
  /\ UNCHANGED <<file, owner, results, phase, mine, op, events, together>>

(* Slip: only owners are looked at; a claim without one is left alone.     *)
MayBeStaleOwned(j, p) == stale[j].owners[p] \notin stale[j].alive \cup {Nothing}

(* A claim is stale when its job has ended, or when it has no owner and    *)
(* the file in running/ is old.  Its age is its mtime's, the moment it was *)
(* last written: the rename of the claim leaves it alone, so a claim may   *)
(* be a moment old and its file not.  Unless squeue told which jobs live,  *)
(* a claim is stale once it is STALE_CLAIM_S old: its job has ended then,  *)
(* since Slurm lets none run that long, but the claim of a job that ended  *)
(* may still look fresh.                                                   *)
MayBeStale(j, p) == IF stale[j].owners[p] = Nothing THEN In("running", p)
                    ELSE stale[j].owners[p] \notin stale[j].alive
MayBeFresh(j, p) == stale[j].owners[p] \in stale[j].alive \cup {Nothing} \/ ~stale[j].told

Judge(j, p) ==
  /\ phase[j] = "stale" /\ Idle(j)
  /\ stale[j].unread = {} /\ p \in stale[j].unjudged
  /\ stale' = [stale EXCEPT ![j].unjudged = @ \ {p}, ![j].owners[p] = Nothing]
  /\ \/ MayBeStale(j, p) /\ Move(j, p, "load", "running", "todo", 0, "none")
     \/ MayBeFresh(j, p) /\ op' = op
  /\ UNCHANGED <<file, owner, results, phase, mine, events, together>>

ReadyToWork(j) ==
  /\ phase[j] = "stale" /\ Idle(j)
  /\ stale[j].unread = {} /\ stale[j].unjudged = {}
  /\ phase' = [phase EXCEPT ![j] = "working"]
  /\ stale' = [stale EXCEPT ![j] = NoView]
  /\ UNCHANGED <<file, owner, results, mine, op, events, together>>

(* Queue.claim: the rename that decides who has the point, over whatever   *)
(* running/ holds.                                                         *)
Claim(j, p) ==
  /\ phase[j] = "working" /\ Idle(j) /\ mine[j][p] = "no" /\ In("todo", p)
  /\ file' = [file EXCEPT !["running"][p] = file["todo"][p], !["todo"][p] = Nothing]
  /\ Move(j, p, "own", "todo", "running", 0, "none")
  /\ UNCHANGED <<owner, results, phase, mine, stale, events, together>>

(* Queue.claim, the owner file.                                            *)
Own(j) ==
  /\ op[j].step = "own"
  /\ owner' = [owner EXCEPT ![op[j].p] = j]
  /\ op' = [op EXCEPT ![j].step = "take"]
  /\ UNCHANGED <<file, results, phase, mine, stale, events, together>>

(* Queue.claim, the point read back, and launch.  With the file gone the   *)
(* exception goes through loop: the job is over, its threads with it.      *)
Take(j) ==
  /\ op[j].step = "take"
  /\ op' = [op EXCEPT ![j] = NoOp]
  /\ IF In("running", op[j].p)
     THEN /\ mine' = [mine EXCEPT ![j][op[j].p] = "measuring"]
          /\ phase' = phase
     ELSE /\ mine' = [mine EXCEPT ![j] = [p \in Points |-> "no"]]
          /\ phase' = [phase EXCEPT ![j] = "ended"]
  /\ UNCHANGED <<file, owner, results, stale, events, together>>

(* Slip: the loop hears of a measurement whose result is still unwritten.  *)
MeasuredUnwritten(j, p) ==
  /\ mine[j][p] = "measuring"
  /\ \E end \in IF phase[j] = "working" THEN Outcomes \ {"released"}
                ELSE {"done", "blocked", "released"} : mine' = [mine EXCEPT ![j][p] = end]
  /\ UNCHANGED <<file, owner, results, phase, stale, op, events, together>>

(* _execute ends, in a thread of its own: a measurement's result is on     *)
(* disk before the loop hears of it.  Once the job stops whatever breaks   *)
(* is the stop's doing.                                                    *)
Measured(j, p) ==
  /\ mine[j][p] = "measuring"
  /\ \E end \in IF phase[j] = "working" THEN Outcomes \ {"released"}
                ELSE {"done", "blocked", "released"} :
       /\ mine' = [mine EXCEPT ![j][p] = end]
       /\ results' = IF end = "done" THEN results \cup {p} ELSE results
  /\ UNCHANGED <<file, owner, phase, stale, op, events, together>>

(* reap: a point that ended leaves running/ for where its end takes it.    *)
Destination(end) == CASE end = "released" -> "todo"
                      [] end = "died"     -> "failed"
                      [] OTHER            -> end

Reap(j, p) ==
  /\ phase[j] \in {"working", "stopping"} /\ Idle(j)
  /\ mine[j][p] \in Outcomes
  /\ mine' = [mine EXCEPT ![j][p] = "no"]
  /\ Move(j, p, "load", "running", Destination(mine[j][p]), 0, mine[j][p])
  /\ UNCHANGED <<file, owner, results, phase, stale, events, together>>

(* Nothing running, and todo/ was empty when it was listed: the job ends,  *)
(* whatever is put back meanwhile.                                         *)
FindNothing(j) ==
  /\ phase[j] = "working" /\ Idle(j) /\ Holding(j) = {}
  /\ \A p \in Points : ~In("todo", p)
  /\ phase' = [phase EXCEPT ![j] = "leaving"]
  /\ UNCHANGED <<file, owner, results, mine, stale, op, events, together>>

Finish(j) ==
  /\ phase[j] = "leaving"
  /\ phase' = [phase EXCEPT ![j] = "ended"]
  /\ UNCHANGED <<file, owner, results, mine, stale, op, events, together>>

(* Slurm's SIGTERM, or no time left for what waits.  The claim or the move *)
(* in hand is finished first.                                              *)
Stop(j) ==
  /\ events > 0
  /\ phase[j] = "working" /\ Idle(j)
  /\ phase' = [phase EXCEPT ![j] = "stopping"]
  /\ events' = events - 1
  /\ UNCHANGED <<file, owner, results, mine, stale, op, together>>

(* shutdown: the threads have had their moment, and the last reap is over. *)
LastReaped(j) ==
  /\ phase[j] = "stopping" /\ Idle(j)
  /\ \A p \in Points : mine[j][p] \notin Outcomes
  /\ phase' = [phase EXCEPT ![j] = "releasing"]
  /\ UNCHANGED <<file, owner, results, mine, stale, op, events, together>>

(* shutdown: every point still held is put back, one after another.        *)
Release(j, p) ==
  /\ phase[j] = "releasing" /\ Idle(j) /\ p \in Holding(j)
  /\ mine' = [mine EXCEPT ![j][p] = "no"]
  /\ Move(j, p, "load", "running", "todo", 0, "released")
  /\ UNCHANGED <<file, owner, results, phase, stale, events, together>>

Leave(j) ==
  /\ phase[j] = "releasing" /\ Idle(j) /\ Holding(j) = {}
  /\ phase' = [phase EXCEPT ![j] = "ended"]
  /\ UNCHANGED <<file, owner, results, mine, stale, op, events, together>>

(* Another job is submitted: as long as there are points people submit     *)
(* some.                                                                   *)
Mentioned(j) ==
  \/ \E p \in Points : owner[p] = j
  \/ \E k \in Jobs, p \in Points : stale[k].owners[p] = j

Submit(j) ==
  /\ Ended(j) /\ ~Mentioned(j)
  /\ phase' = [phase EXCEPT ![j] = "queued"]
  /\ UNCHANGED <<file, owner, results, mine, stale, op, events, together>>

(* The node fails or Slurm kills the job: what it was doing stays half     *)
(* done.                                                                   *)
Kill(j) ==
  /\ events > 0
  /\ phase[j] \notin {"queued", "ended"}
  /\ phase' = [phase EXCEPT ![j] = "ended"]
  /\ mine' = [mine EXCEPT ![j] = [p \in Points |-> "no"]]
  /\ stale' = [stale EXCEPT ![j] = NoView]
  /\ op' = [op EXCEPT ![j] = NoOp]
  /\ events' = events - 1
  /\ UNCHANGED <<file, owner, results, together>>

(***************************************************************************)
(* The commands.                                                           *)
(***************************************************************************)

Command(p) ==
  /\ Idle(Person) /\ events > 0 /\ MayCome(Person)
  /\ events' = events - 1
  /\ UNCHANGED <<owner, results, phase, mine, stale, together>>

(* campaign.py unblock and retry: a move of the point back to todo.        *)
Unblock(p) ==
  /\ Command(p) /\ In("blocked", p)
  /\ Move(Person, p, "load", "blocked", "todo", 0, "none")
  /\ UNCHANGED file

Retry(p) ==
  /\ Command(p) /\ In("failed", p)
  /\ Move(Person, p, "load", "failed", "todo", 0, "retry")
  /\ UNCHANGED file

(* campaign.py set-aside: one rename out of the queue.                     *)
SetAside(p) ==
  /\ Command(p) /\ In("todo", p)
  /\ file' = [file EXCEPT !["aside"][p] = file["todo"][p], !["todo"][p] = Nothing]
  /\ UNCHANGED op

(* campaign.py plan: a point Queue.where finds in no state is queued.      *)
Replan(p) ==
  /\ Command(p)
  /\ Move(Person, p, "look", "todo", "todo", 0, "add")
  /\ UNCHANGED file

(* Queue.where looks into one directory after the other.                   *)
After(s) == CASE s = "todo" -> "running" [] s = "running" -> "done"
              [] s = "done" -> "failed"  [] s = "failed"  -> "blocked"

Look ==
  /\ op[Person].step = "look"
  /\ op' = [op EXCEPT ![Person] =
       IF In(@.from, @.p) THEN NoOp
       ELSE IF @.from = "blocked" THEN [@ EXCEPT !.step = "write"]
       ELSE [@ EXCEPT !.from = After(op[Person].from)]]
  /\ UNCHANGED <<file, owner, results, phase, mine, stale, events, together>>

Step(w) == Load(w) \/ Write(w) \/ Drop(w) \/ Disown(w)

Works(j) ==
  \/ Start(j) \/ ReadyToWork(j) \/ Own(j) \/ Take(j) \/ FindNothing(j) \/ Finish(j)
  \/ LastReaped(j) \/ Leave(j) \/ Step(j)
  \/ \E p \in Points : \/ ReadOwner(j, p) \/ Judge(j, p) \/ Claim(j, p)
                       \/ Reap(j, p) \/ Release(j, p)

Next ==
  \/ \E j \in Jobs : Works(j) \/ Submit(j) \/ Stop(j) \/ Kill(j)
  \/ \E j \in Jobs, p \in Points : Measured(j, p)
  \/ Step(Person) \/ Look
  \/ \E p \in Points : Unblock(p) \/ Retry(p) \/ SetAside(p) \/ Replan(p)

Spec == Init /\ [][Next]_vars

(* A job that runs goes on, and a measurement ends: read timeouts bound    *)
(* its requests and three estimates its whole.  A file nobody writes, and  *)
(* the claim of a job that ended, are old in the end.                      *)
FairSpec ==
  /\ Spec
  /\ \A j \in Jobs : WF_vars(Works(j)) /\ WF_vars(Submit(j))
  /\ \A j \in Jobs, p \in Points : WF_vars(Measured(j, p))
  /\ WF_vars(Step(Person) \/ Look)
  /\ \A p \in Points : SF_vars(\E j \in Jobs : Judge(j, p) /\ op' # op)

(***************************************************************************)
(* Properties.                                                             *)
(***************************************************************************)

(* A point that leaves every directory does so in one way only: a process  *)
(* that has put it elsewhere removes the copy it moved, and the one it put *)
(* there has been taken by another meanwhile.  No kill between two         *)
(* accesses loses a point, whatever the other jobs and commands do.        *)
LostOnlyOvertaken ==
  [][\A p \in Points : Known(p) /\ ~Known(p)' =>
       \E w \in Workers : op[w].step = "drop" /\ op[w].p = p /\ ~In(op[w].to, p)]_vars

(* What is in done/ has a result on disk, wherever jobs were killed and    *)
(* however often the point was queued again.                               *)
DoneHasResult == \A p \in Points : In("done", p) => p \in results

(* Jobs that run one after another, each stopped or killed wherever Slurm  *)
(* likes: once that has happened for the last time every point comes to    *)
(* rest, in done/, failed/ or blocked/ or set aside.  Nothing stays in     *)
(* running/ behind a job that ended, or in todo/ behind one that put it    *)
(* back, nothing is tried for ever, and nothing is gone.                   *)
AtRest(p) == ~In("todo", p) /\ ~In("running", p)

EveryPointSettles == ~together => <>[](\A p \in Points : Known(p) /\ AtRest(p))
=============================================================================
