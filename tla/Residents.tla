----------------------------- MODULE Residents -----------------------------
(***************************************************************************)
(* The generation models in memory: AppState::models, swap_lock and idle   *)
(* (api/mod.rs) with the leases and the eviction rules of api/resident.rs. *)
(*                                                                         *)
(* A request is answered by a resident model it finds, or loads one: it    *)
(* takes swap_lock, makes room, sizes the load, loads and installs.  A     *)
(* load that has to wait for a busy model lets go of the lock meanwhile.   *)
(* The idle-unload loop and the handlers that unload models (`Commands`)   *)
(* run beside the loads.  Every await is the end of an action; what        *)
(* happens under one guard on the residents is one action.                 *)
(*                                                                         *)
(* A load is identified by the request that made it: ResidentModels::      *)
(* next_id never repeats, and a request makes at most one load.            *)
(***************************************************************************)
EXTENDS Naturals, Sequences, FiniteSets, SequencesExt

CONSTANTS
  Requests,       (* each asks for a model once                            *)
  Commands,       (* handlers that unload models, each runs once           *)
  Loop,           (* run_idle_unload_loop                                  *)
  Names,          (* the names requests use                                *)
  FileOf,         (* the weights each name resolves to (store, path, links)*)
  NoName,         (* a request that names no model                         *)
  KeepAlives,     (* keep_alive values requests come with, resolved        *)
  Launch,         (* the load `eullm run` starts with, and its name        *)
  LaunchName,
  Launched,       (* BOOLEAN: the server starts with it                    *)
  NoId, NoOne,
  MaxLoaded,      (* --max-loaded-models                                   *)
  Fit,            (* BOOLEAN: --fit, loads are sized                       *)
  ClientsLeave    (* BOOLEAN: a handler may be dropped at an await         *)

Ids   == Requests \cup {Launch}
Janitors == Commands \cup {Loop}
Procs == Requests \cup Janitors

ASSUME ResidentsAssumption ==
  /\ IsFiniteSet(Requests) /\ IsFiniteSet(Commands)
  /\ Launch \notin Requests /\ Loop \notin Requests \cup Commands
  /\ Requests \cap Commands = {}
  /\ NoId \notin Ids /\ NoOne \notin Procs
  /\ NoName \notin Names /\ DOMAIN FileOf = Names \cup {LaunchName}
  /\ KeepAlives \subseteq {"For", "Immediate", "Forever"}
  /\ MaxLoaded \in Nat \ {0}
  /\ Launched \in BOOLEAN /\ Fit \in BOOLEAN /\ ClientsLeave \in BOOLEAN

VARIABLES
  residents,  (* ResidentModels::models, by id                             *)
  last_used,  (* the residents, the least recently used first              *)
  usage,      (* each load's Usage, kept by its leases once it is removed  *)
  swap_lock,  (* who holds it                                              *)
  pc,         (* where each request's handler is                           *)
  wish,       (* the request: name, keep_alive, EvictPolicy                *)
  lease,      (* the load a request has a lease on                         *)
  load,       (* locals of its load: too_big (fits_now == Some(false)),    *)
              (* again (make_more_room), woken (idle.notified() fired      *)
              (* since it was registered), late (busy_wait is over)        *)
  victim,     (* the load a process is removing                            *)
  retiring,   (* loads being retired: out of the residents, still in memory*)
  todo,       (* loads a janitor has yet to look at, in an order left open *)
  doing       (* what each janitor is doing                                *)

requestVars == <<pc, wish, lease, load>>
janitorVars == <<todo, doing>>
modelVars   == <<residents, last_used, usage>>
vars == <<modelVars, swap_lock, requestVars, victim, retiring, janitorVars>>

-----------------------------------------------------------------------------
(* Usage. *)

NewUsage == [in_flight |-> 0, deadline |-> "none", unload_when_idle |-> FALSE,
             keep_alive |-> "Forever"]

(* One more request in flight, whose keep_alive is now the one that applies*)
Leased(u, keep) ==
  [in_flight |-> u.in_flight + 1, deadline |-> "none",
   unload_when_idle |-> FALSE, keep_alive |-> keep]

(* Lease::drop: the last one out starts the count of its keep_alive.       *)
Released(u) ==
  LET left == IF u.in_flight = 0 THEN 0 ELSE u.in_flight - 1
  IN  IF left > 0 THEN [u EXCEPT !.in_flight = left]
      ELSE [u EXCEPT !.in_flight = 0,
                     !.deadline = IF u.keep_alive = "For" THEN "ahead" ELSE "none",
                     !.unload_when_idle = u.keep_alive = "Immediate"]

Due(u) == u.in_flight = 0 /\ (u.unload_when_idle \/ u.deadline = "past")
KeptForever(u) == u.deadline = "none" /\ ~u.unload_when_idle

NewLoad == [too_big |-> FALSE, again |-> FALSE, woken |-> FALSE, late |-> FALSE]

Touched(id) ==
  IF id \in residents THEN Append(Remove(last_used, id), id) ELSE last_used

(* notify_waiters wakes the loads that registered before it.               *)
Registered == {r \in Requests : pc[r] \in {"look", "sleep", "wait"}}
Notified(wakes) ==
  [r \in Requests |->
     IF wakes /\ r \in Registered THEN [load[r] EXCEPT !.woken = TRUE] ELSE load[r]]

-----------------------------------------------------------------------------
(* What make_room goes by. *)

NameOf(id) == IF id = Launch THEN LaunchName ELSE wish[id].name

Bit(b) == IF b THEN 1 ELSE 0
Rank(id) ==
  LET u == usage[id]
  IN  8 * Bit(u.in_flight > 0) + 4 * Bit(~Due(u)) + 2 * Bit(KeptForever(u))
      + Bit(id = Launch)

UsedBefore(i, j) ==
  \E a, b \in DOMAIN last_used : a < b /\ last_used[a] = i /\ last_used[b] = j

GivesWayBefore(i, j) ==
  Rank(i) < Rank(j) \/ (Rank(i) = Rank(j) /\ UsedBefore(i, j))

(* The first n of eviction_order, and the first of all.                    *)
FirstOut(n) ==
  {i \in residents : Cardinality({j \in residents : GivesWayBefore(j, i)}) < n}
GoesFirst(i) ==
  i \in residents /\ \A j \in residents \ {i} : GivesWayBefore(i, j)

(* The model that would have to go is answering a request, or is not.      *)
FirstIsBusy == \E i \in residents : GoesFirst(i) /\ usage[i].in_flight > 0

Full == Cardinality(residents) >= MaxLoaded

NeedsRoom(r) == Full \/ (load[r].too_big /\ residents # {})

(* BusyPolicy::Abort                                                       *)
OneAtATime == MaxLoaded <= 1

-----------------------------------------------------------------------------
(* A request asks.  The residents' read guard is all it takes to be        *)
(* answered by one of them.                                                *)

Lease(r, id, keep) ==
  /\ usage' = [usage EXCEPT ![id] = Leased(@, keep)]
  /\ last_used' = Touched(id)
  /\ lease' = [lease EXCEPT ![r] = id]
  /\ pc' = [pc EXCEPT ![r] = "serving"]

Ask(r, name, keep) ==
  /\ pc[r] = "new"
  /\ wish' = [wish EXCEPT ![r] = [name |-> name, keep_alive |-> keep, evict |-> TRUE]]
  /\ \/ \E id \in residents :
          /\ IF name = NoName THEN id = Last(last_used) ELSE NameOf(id) = name
          /\ Lease(r, id, keep)
     \/ /\ IF name = NoName THEN residents = {}
                            ELSE \A id \in residents : NameOf(id) # name
        /\ pc' = [pc EXCEPT ![r] = IF name = NoName THEN "refused" ELSE "queue"]
        /\ UNCHANGED <<usage, last_used, lease>>
  /\ UNCHANGED <<residents, swap_lock, load,
                 victim, retiring, janitorVars>>

(* warm_route_candidates: a load that may not unload anything.             *)
Warm(r, name, keep) ==
  /\ pc[r] = "new"
  /\ wish' = [wish EXCEPT ![r] = [name |-> name, keep_alive |-> keep, evict |-> FALSE]]
  /\ pc' = [pc EXCEPT ![r] = "queue"]
  /\ UNCHANGED <<modelVars, swap_lock, lease, load, victim, retiring, janitorVars>>

(* Without the look by file: an alias of a resident is not found.          *)
FoundByName(r) == {id \in residents : NameOf(id) = wish[r].name}

(* lease_loaded, by name and then by file, under swap_lock: a load that    *)
(* was waited for may have been this one.  A name that does not resolve is *)
(* refused before anything is unloaded.                                    *)
FoundFor(r) == {id \in residents : FileOf[NameOf(id)] = FileOf[wish[r].name]}

FindOrMakeRoom(r) ==
  \/ /\ \E id \in FoundFor(r) : Lease(r, id, wish[r].keep_alive)
     /\ load' = [load EXCEPT ![r] = NewLoad]
     /\ UNCHANGED swap_lock
  \/ /\ FoundFor(r) = {}
     /\ swap_lock' = r
     /\ pc' = [pc EXCEPT ![r] = "room"]
     /\ load' = [load EXCEPT ![r].too_big = FALSE]
     /\ UNCHANGED <<usage, last_used, lease>>

LockToLoad(r) ==
  /\ pc[r] = "queue" /\ swap_lock = NoOne
  /\ \/ FindOrMakeRoom(r)
     \/ /\ FoundFor(r) = {}
        /\ pc' = [pc EXCEPT ![r] = "refused"]
        /\ UNCHANGED <<usage, last_used, lease, swap_lock, load>>
  /\ UNCHANGED <<residents, wish, victim, retiring, janitorVars>>

-----------------------------------------------------------------------------
(* make_room, with swap_lock held.  The next pass registers for the next   *)
(* model to go idle, then reads the residents; what it decides it does     *)
(* under a later guard.  A resident removed is retired first.              *)

Holds(r, at) == pc[r] = at /\ swap_lock = r

(* Register that does not wait for the model it took out to be retired.    *)
RegisterAtOnce(r) ==
  /\ Holds(r, "room")
  /\ victim' = [victim EXCEPT ![r] = NoId]
  /\ load' = [load EXCEPT ![r].woken = FALSE]
  /\ pc' = [pc EXCEPT ![r] = "look"]
  /\ UNCHANGED <<modelVars, swap_lock, wish, lease, retiring, janitorVars>>

Register(r) ==
  /\ Holds(r, "room") /\ victim[r] \notin retiring
  /\ victim' = [victim EXCEPT ![r] = NoId]
  /\ load' = [load EXCEPT ![r].woken = FALSE]
  /\ pc' = [pc EXCEPT ![r] = "look"]
  /\ UNCHANGED <<modelVars, swap_lock, wish, lease, retiring, janitorVars>>

RefuseLoad(r) ==
  /\ pc' = [pc EXCEPT ![r] = "refused"]
  /\ swap_lock' = NoOne
  /\ load' = [load EXCEPT ![r] = NewLoad]
  /\ UNCHANGED <<modelVars, wish, lease, victim, retiring, janitorVars>>

(* ModelError::NoRoom                                                      *)
LookNoRoom(r) ==
  /\ Holds(r, "look") /\ NeedsRoom(r) /\ ~wish[r].evict
  /\ RefuseLoad(r)

(* ModelError::Busy: Step::WaitFor with no time left                       *)
LookBusy(r) ==
  /\ Holds(r, "look") /\ NeedsRoom(r) /\ wish[r].evict
  /\ FirstIsBusy /\ ~OneAtATime
  /\ load[r].late
  /\ RefuseLoad(r)

Chosen(r) ==
  /\ UNCHANGED <<modelVars, swap_lock, wish, lease, load, retiring, janitorVars>>

LookWait(r) ==
  /\ Holds(r, "look") /\ NeedsRoom(r) /\ wish[r].evict
  /\ FirstIsBusy /\ ~OneAtATime
  /\ ~load[r].late
  /\ pc' = [pc EXCEPT ![r] = "sleep"]
  /\ UNCHANGED victim /\ Chosen(r)

LookEvict(r) ==
  /\ Holds(r, "look") /\ NeedsRoom(r) /\ wish[r].evict
  /\ ~FirstIsBusy \/ OneAtATime
  /\ \E id \in residents :
       GoesFirst(id) /\ victim' = [victim EXCEPT ![r] = id]
  /\ pc' = [pc EXCEPT ![r] = "evict"]
  /\ Chosen(r)

LookLoad(r) ==
  /\ Holds(r, "look") /\ ~NeedsRoom(r)
  /\ pc' = [pc EXCEPT ![r] = "size"]
  /\ UNCHANGED victim /\ Chosen(r)

(* `allowed` is what is true under the write guard.                        *)
remove_generation(p, id, allowed) ==
  IF id \in residents /\ allowed
  THEN /\ residents' = residents \ {id}
       /\ last_used' = Remove(last_used, id)
       /\ retiring' = retiring \cup {id}
       /\ victim' = [victim EXCEPT ![p] = id]
       /\ UNCHANGED usage
  ELSE UNCHANGED <<modelVars, retiring, victim>>

(* Evict without the second look at what it removes.                       *)
EvictStale(r) ==
  /\ Holds(r, "evict")
  /\ remove_generation(r, victim[r], TRUE)
  /\ load' = [load EXCEPT ![r].too_big = FALSE]
  /\ pc' = [pc EXCEPT ![r] = "room"]
  /\ UNCHANGED <<swap_lock, wish, lease, janitorVars>>

Evict(r) ==
  /\ Holds(r, "evict")
  /\ remove_generation(r, victim[r], OneAtATime \/ usage[victim[r]].in_flight = 0)
  /\ load' = [load EXCEPT ![r].too_big = FALSE]
  /\ pc' = [pc EXCEPT ![r] = "room"]
  /\ UNCHANGED <<swap_lock, wish, lease, janitorVars>>

(* The scheduler's thread is joined, or the engine waited for.             *)
Retired(id) ==
  /\ id \in retiring
  /\ retiring' = retiring \ {id}
  /\ UNCHANGED <<modelVars, swap_lock, requestVars, victim, janitorVars>>

(* Sleep that keeps the lock while it waits.                               *)
SleepHolding(r) ==
  /\ Holds(r, "sleep")
  /\ pc' = [pc EXCEPT ![r] = "wait"]
  /\ UNCHANGED <<modelVars, swap_lock, wish, lease, load, victim, retiring,
                 janitorVars>>

(* swap_guard.take()                                                       *)
Sleep(r) ==
  /\ Holds(r, "sleep")
  /\ swap_lock' = NoOne
  /\ pc' = [pc EXCEPT ![r] = "wait"]
  /\ UNCHANGED <<modelVars, wish, lease, load, victim, retiring, janitorVars>>

TimeIsUp(r) ==
  /\ pc[r] \in {"room", "wait"} /\ ~load[r].late /\ ~OneAtATime
  /\ load' = [load EXCEPT ![r].late = TRUE]
  /\ UNCHANGED <<modelVars, swap_lock, pc, wish, lease, victim, retiring, janitorVars>>

Wake(r) ==
  /\ pc[r] = "wait" /\ (load[r].woken \/ load[r].late) /\ swap_lock = NoOne
  /\ FindOrMakeRoom(r)
  /\ UNCHANGED <<residents, wish, victim, retiring, janitorVars>>

-----------------------------------------------------------------------------
(* Sizing and loading. *)

(* size_load: under --fit a model that would not be whole beside others    *)
(* makes one more of them go; --fit-strict refuses it a partial split.     *)
SizeFits(r) ==
  /\ Holds(r, "size")
  /\ pc' = [pc EXCEPT ![r] = "load"]
  /\ UNCHANGED <<modelVars, swap_lock, wish, lease, load, victim, retiring, janitorVars>>

SizeTooBig(r) ==
  /\ Holds(r, "size") /\ Fit /\ residents # {}
  /\ load' = [load EXCEPT ![r].too_big = TRUE]
  /\ pc' = [pc EXCEPT ![r] = "room"]
  /\ UNCHANGED <<modelVars, swap_lock, wish, lease, victim, retiring, janitorVars>>

LoadFails(r) == Holds(r, "load") /\ RefuseLoad(r)

(* A sequential engine had to shrink its context beside other residents:   *)
(* it is dropped, and make_room called again, once.                        *)
LoadShrinks(r) ==
  /\ Holds(r, "load") /\ Fit /\ ~load[r].again /\ residents # {}
  /\ load' = [load EXCEPT ![r] = [@ EXCEPT !.again = TRUE, !.too_big = TRUE,
                                           !.late = FALSE]]
  /\ pc' = [pc EXCEPT ![r] = "room"]
  /\ UNCHANGED <<modelVars, swap_lock, wish, lease, victim, retiring, janitorVars>>

(* The load succeeds: the model is a resident, leased under the same write *)
(* guard to the request that loaded it, and swap_lock is let go of.        *)
LoadInstalls(r) ==
  /\ Holds(r, "load")
  /\ residents' = residents \cup {r}
  /\ last_used' = Append(last_used, r)
  /\ usage' = [usage EXCEPT ![r] = Leased(NewUsage, wish[r].keep_alive)]
  /\ lease' = [lease EXCEPT ![r] = r]
  /\ pc' = [pc EXCEPT ![r] = "serving"]
  /\ swap_lock' = NoOne
  /\ load' = [load EXCEPT ![r] = NewLoad]
  /\ UNCHANGED <<wish, victim, retiring, janitorVars>>

(* The response is over, or its client is gone: the lease is dropped.      *)
Finish(r) ==
  /\ pc[r] = "serving"
  /\ LET after == Released(usage[lease[r]])
     IN  /\ usage' = [usage EXCEPT ![lease[r]] = after]
         /\ load' = Notified(after.in_flight = 0)
  /\ last_used' = Touched(lease[r])
  /\ lease' = [lease EXCEPT ![r] = NoId]
  /\ pc' = [pc EXCEPT ![r] = "done"]
  /\ UNCHANGED <<residents, swap_lock, wish, victim, retiring, janitorVars>>

(* axum drops the handler of a client that disconnects at its next await,  *)
(* with the guard it holds.  What spawn_blocking runs goes on: a load to   *)
(* its end (`AbandonedLoadEnds`), a retirement to its own.                 *)
Leave(r) ==
  /\ ClientsLeave
  /\ pc[r] \in {"queue", "room", "look", "evict", "sleep", "wait", "size", "load"}
  /\ pc' = [pc EXCEPT ![r] = IF pc[r] = "load" THEN "abandoned" ELSE "gone"]
  /\ swap_lock' = IF swap_lock = r THEN NoOne ELSE swap_lock
  /\ load' = [load EXCEPT ![r] = NewLoad]
  /\ victim' = [victim EXCEPT ![r] = NoId]
  /\ UNCHANGED <<modelVars, wish, lease, retiring, janitorVars>>

AbandonedLoadEnds(r) ==
  /\ pc[r] = "abandoned"
  /\ pc' = [pc EXCEPT ![r] = "gone"]
  /\ UNCHANGED <<modelVars, swap_lock, wish, lease, load, victim, retiring, janitorVars>>

-----------------------------------------------------------------------------
(* The idle-unload loop and the handlers that unload models. *)

(* Tick that knows deadlines only.                                         *)
TickTimed ==
  /\ todo[Loop] = {} /\ victim[Loop] = NoId
  /\ \E id \in residents : usage[id].deadline = "past"
  /\ todo' = [todo EXCEPT ![Loop] = {id \in residents : usage[id].deadline = "past"}]
  /\ UNCHANGED <<modelVars, swap_lock, requestVars, victim, retiring, doing>>

(* run_idle_unload_loop, woken by `idle` or its tick: the loads that are   *)
(* due now, each looked at again under swap_lock and the write guard.      *)
Tick ==
  /\ todo[Loop] = {} /\ victim[Loop] = NoId
  /\ \E id \in residents : Due(usage[id])
  /\ todo' = [todo EXCEPT ![Loop] = {id \in residents : Due(usage[id])}]
  /\ UNCHANGED <<modelVars, swap_lock, requestVars, victim, retiring, doing>>

(* expire_model: as a request that asked for keep_alive 0 and is now over; *)
(* then the model goes if it is due.                                       *)
Expire(c, id) ==
  /\ doing[c] = "new" /\ id \in residents
  /\ LET after == Released(Leased(usage[id], "Immediate"))
     IN  /\ usage' = [usage EXCEPT ![id] = after]
         /\ load' = Notified(after.in_flight = 0)
  /\ last_used' = Touched(id)
  /\ todo' = [todo EXCEPT ![c] = {id}]
  /\ doing' = [doing EXCEPT ![c] = "due"]
  /\ UNCHANGED <<residents, swap_lock, pc, wish, lease, victim, retiring>>

(* RemoveDue that trusts what the list said.                               *)
RemoveListed(j) ==
  /\ doing[j] = "due" /\ victim[j] = NoId /\ swap_lock = NoOne
  /\ \E id \in todo[j] :
       /\ todo' = [todo EXCEPT ![j] = @ \ {id}]
       /\ remove_generation(j, id, TRUE)
       /\ swap_lock' = IF residents' = residents THEN NoOne ELSE j
  /\ UNCHANGED <<requestVars, doing>>

(* Removal::IfDue *)
RemoveDue(j) ==
  /\ doing[j] = "due" /\ victim[j] = NoId /\ swap_lock = NoOne
  /\ \E id \in todo[j] :
       /\ todo' = [todo EXCEPT ![j] = @ \ {id}]
       /\ remove_generation(j, id, Due(usage[id]))
       /\ swap_lock' = IF residents' = residents THEN NoOne ELSE j
  /\ UNCHANGED <<requestVars, doing>>

(* unload_all and unload_named: every model, or one, whatever it is doing. *)
Unload(c, ids) ==
  /\ doing[c] = "new" /\ swap_lock = NoOne
  /\ ids = residents \/ \E id \in residents : ids = {id}
  /\ swap_lock' = c
  /\ todo' = [todo EXCEPT ![c] = ids]
  /\ doing' = [doing EXCEPT ![c] = "unload"]
  /\ UNCHANGED <<modelVars, requestVars, victim, retiring>>

(* ensure_embedding_model and ensure_decision_model, to load one that is   *)
(* not: make_room_for_companion plans the first models of the eviction     *)
(* order, and again until the companion fits or none is left.              *)
LoadCompanion(c) ==
  /\ doing[c] = "new" /\ swap_lock = NoOne
  /\ swap_lock' = c
  /\ doing' = [doing EXCEPT ![c] = "companion"]
  /\ UNCHANGED <<modelVars, requestVars, victim, retiring, todo>>

PlanCompanion(c) ==
  /\ doing[c] = "companion" /\ swap_lock = c
  /\ todo[c] = {} /\ victim[c] \notin retiring
  /\ \E n \in 1..Cardinality(residents) : todo' = [todo EXCEPT ![c] = FirstOut(n)]
  /\ UNCHANGED <<modelVars, swap_lock, requestVars, victim, retiring, doing>>

(* Removal::Always *)
RemoveAnyway(c) ==
  /\ doing[c] \in {"unload", "companion"} /\ swap_lock = c
  /\ victim[c] \notin retiring
  /\ \E id \in todo[c] :
       /\ remove_generation(c, id, TRUE)
       /\ todo' = [todo EXCEPT ![c] = @ \ {id}]
  /\ UNCHANGED <<swap_lock, requestVars, doing>>

(* What it removed is retired: the lock goes.                              *)
LetGo(j) ==
  /\ swap_lock = j /\ victim[j] \notin retiring
  /\ j \in Commands => todo[j] = {}
  /\ swap_lock' = NoOne
  /\ victim' = [victim EXCEPT ![j] = NoId]
  /\ doing' = IF j \in Commands THEN [doing EXCEPT ![j] = "done"] ELSE doing
  /\ UNCHANGED <<modelVars, requestVars, retiring, todo>>

-----------------------------------------------------------------------------
Init ==
  /\ residents = (IF Launched THEN {Launch} ELSE {})
  /\ last_used = (IF Launched THEN <<Launch>> ELSE <<>>)
  /\ usage = [id \in Ids |-> NewUsage]
  /\ swap_lock = NoOne
  /\ pc = [r \in Requests |-> "new"]
  /\ wish = [r \in Requests |->
               [name |-> NoName, keep_alive |-> "Forever", evict |-> TRUE]]
  /\ lease = [r \in Requests |-> NoId]
  /\ load = [r \in Requests |-> NewLoad]
  /\ victim = [p \in Procs |-> NoId]
  /\ retiring = {}
  /\ todo = [j \in Janitors |-> {}]
  /\ doing = [j \in Janitors |-> IF j = Loop THEN "due" ELSE "new"]

(* A keep_alive runs out.                                                  *)
DeadlinePasses(id) ==
  /\ id \in residents /\ usage[id].deadline = "ahead"
  /\ usage' = [usage EXCEPT ![id].deadline = "past"]
  /\ UNCHANGED <<residents, last_used, swap_lock, requestVars, victim, retiring,
                 janitorVars>>

Arrive(r) ==
  \/ \E name \in Names \cup {NoName}, keep \in KeepAlives : Ask(r, name, keep)
  \/ \E name \in Names, keep \in KeepAlives : Warm(r, name, keep)

MakeRoom(r) ==
  \/ Register(r) \/ LookNoRoom(r) \/ LookBusy(r) \/ LookWait(r)
  \/ LookEvict(r) \/ LookLoad(r) \/ Evict(r) \/ Sleep(r)

LoadModel(r) ==
  SizeFits(r) \/ SizeTooBig(r) \/ LoadFails(r) \/ LoadShrinks(r) \/ LoadInstalls(r)

Command(c) ==
  \/ \E id \in residents : Expire(c, id)
  \/ \E ids \in SUBSET residents : Unload(c, ids)
  \/ LoadCompanion(c) \/ PlanCompanion(c) \/ RemoveAnyway(c)

Next ==
  \/ \E r \in Requests :
       \/ Arrive(r) \/ LockToLoad(r) \/ Wake(r) \/ MakeRoom(r) \/ LoadModel(r)
       \/ Finish(r) \/ TimeIsUp(r) \/ Leave(r) \/ AbandonedLoadEnds(r)
  \/ \E id \in Ids : Retired(id) \/ DeadlinePasses(id)
  \/ Tick
  \/ \E j \in Janitors : RemoveDue(j) \/ LetGo(j)
  \/ \E c \in Commands : Command(c)

Spec == Init /\ [][Next]_vars

(* The runtime polls what is ready, a retirement and a load are bounded,   *)
(* and the loop's tick always comes.  Weak fairness of whoever waits for   *)
(* swap_lock asks less than tokio's fair Mutex gives.                      *)
Fairness ==
  /\ \A r \in Requests :
       /\ WF_vars(MakeRoom(r)) /\ WF_vars(LoadModel(r)) /\ WF_vars(TimeIsUp(r))
       /\ WF_vars(LockToLoad(r)) /\ WF_vars(Wake(r))
  /\ \A id \in Ids : WF_vars(Retired(id))
  /\ WF_vars(Tick)
  /\ \A j \in Janitors : WF_vars(RemoveDue(j)) /\ WF_vars(LetGo(j))
  /\ \A c \in Commands : WF_vars(RemoveAnyway(c))

FairSpec == Spec /\ Fairness

-----------------------------------------------------------------------------
TypeOK ==
  /\ residents \subseteq Ids
  /\ usage \in [Ids -> [in_flight : Nat, deadline : {"none", "ahead", "past"},
                        unload_when_idle : BOOLEAN,
                        keep_alive : {"For", "Immediate", "Forever"}]]
  /\ swap_lock \in Procs \cup {NoOne}
  /\ pc \in [Requests -> {"new", "queue", "room", "look", "evict", "sleep",
                          "wait", "size", "load", "serving", "done", "refused",
                          "abandoned", "gone"}]
  /\ lease \in [Requests -> Ids \cup {NoId}]
  /\ load \in [Requests -> [too_big : BOOLEAN, again : BOOLEAN, woken : BOOLEAN,
                             late : BOOLEAN]]
  /\ victim \in [Procs -> Ids \cup {NoId}]
  /\ retiring \subseteq Ids

(* A model counts exactly the requests it is answering, whatever was       *)
(* unloaded under them.                                                    *)
LeasesCounted ==
  \A id \in Ids :
    usage[id].in_flight =
      Cardinality({r \in Requests : pc[r] = "serving" /\ lease[r] = id})

(* No file is resident twice, under whatever names it was asked for.       *)
OneCopy ==
  \A i, j \in residents : FileOf[NameOf(i)] = FileOf[NameOf(j)] => i = j

(* What is loaded, being loaded and being retired never exceeds            *)
(* --max-loaded-models, as long as no handler is dropped on the way.       *)
InMemory ==
  Cardinality(residents) + Cardinality(retiring)
  + Cardinality({r \in Requests : pc[r] \in {"load", "abandoned"}})

NeverTooMany == ClientsLeave \/ InMemory <= MaxLoaded

(* A load that sleeps, with nothing on the way to wake it, has no model it *)
(* could unload: every resident is busy, and someone's lease will end.     *)
NoLostWakeup ==
  \A r \in Requests :
    pc[r] = "wait" /\ ~load[r].woken /\ ~load[r].late =>
      /\ \A id \in residents : usage[id].in_flight > 0
      /\ \E id \in Ids : usage[id].in_flight > 0

(* Models kept several at a time are never unloaded under a request but by *)
(* a handler that says so: an unload, or a companion that needs the VRAM.  *)
BusyStays ==
  [][\A id \in residents \ residents' :
       usage[id].in_flight > 0 =>
         OneAtATime \/ \E c \in Commands :
                         swap_lock = c /\ doing[c] \in {"unload", "companion"}]_vars

(* The idle-unload loop and keep_alive 0 take only what is due when it     *)
(* goes: a request that came in between keeps its model.                   *)
KeepAliveKept ==
  [][\A id \in residents \ residents' :
       (\E j \in Janitors : j = swap_lock' /\ doing[j] = "due")
         => Due(usage[id])]_vars

(* Every load comes to an end: its request is answered or refused.         *)
EveryLoadEnds ==
  \A r \in Requests :
    pc[r] = "queue" ~> pc[r] \in {"serving", "done", "refused", "gone", "abandoned"}

(* A model whose keep_alive is over goes, unless it is used again.         *)
DueGoes ==
  \A id \in Ids :
    (id \in residents /\ Due(usage[id])) ~> (id \notin residents \/ ~Due(usage[id]))
=============================================================================
