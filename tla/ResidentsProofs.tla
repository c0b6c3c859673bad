-------------------------- MODULE ResidentsProofs --------------------------
(***************************************************************************)
(* What holds of the generation models in memory for every number of       *)
(* requests, commands, names and files and every --max-loaded-models.      *)
(***************************************************************************)
EXTENDS Residents, FiniteSetTheorems, TLAPS

-----------------------------------------------------------------------------
(* Types. *)

Usages == [in_flight : Nat, deadline : {"none", "ahead", "past"},
           unload_when_idle : BOOLEAN, keep_alive : {"For", "Immediate", "Forever"}]
Loads  == [too_big : BOOLEAN, again : BOOLEAN, woken : BOOLEAN, late : BOOLEAN]
Wishes == [name : Names \cup {NoName}, keep_alive : {"For", "Immediate", "Forever"},
           evict : BOOLEAN]
Places == {"new", "queue", "room", "look", "evict", "sleep", "wait", "size", "load",
           "serving", "done", "refused", "abandoned", "gone"}

(* TypeOK, and the types it leaves out: the wishes and what the janitors do.*)
Typed ==
  /\ TypeOK
  /\ wish \in [Requests -> Wishes]
  /\ todo \in [Janitors -> SUBSET Ids]
  /\ doing \in [Janitors -> {"new", "due", "unload", "companion", "done"}]

LEMMA UsageTypes ==
  ASSUME NEW u \in Usages, NEW keep \in {"For", "Immediate", "Forever"}
  PROVE  /\ Leased(u, keep) \in Usages /\ Leased(u, keep).in_flight = u.in_flight + 1
         /\ Released(u) \in Usages
         /\ Released(u).in_flight = IF u.in_flight = 0 THEN 0 ELSE u.in_flight - 1
         /\ NewUsage \in Usages
<1>1. Leased(u, keep) \in Usages /\ Leased(u, keep).in_flight = u.in_flight + 1
  BY DEF Usages, Leased
<1>2. u.in_flight \in Nat /\ u.keep_alive \in {"For", "Immediate", "Forever"}
  BY DEF Usages
<1>3. (u.keep_alive = "Immediate") \in BOOLEAN  OBVIOUS
<1>4. Released(u) \in Usages /\ Released(u).in_flight
                                = IF u.in_flight = 0 THEN 0 ELSE u.in_flight - 1
  <2> DEFINE immediate == u.keep_alive = "Immediate"
             deadline  == IF u.keep_alive = "For" THEN "ahead" ELSE "none"
             left      == IF u.in_flight = 0 THEN 0 ELSE u.in_flight - 1
  <2>0. left \in Nat /\ (left > 0 \/ left = 0)
    <3> HIDE DEF immediate, deadline
    <3>1. QED BY <1>2
  <2>1. immediate \in BOOLEAN /\ deadline \in {"none", "ahead", "past"}  OBVIOUS
  <2>2. Released(u) = IF left > 0 THEN [u EXCEPT !.in_flight = left]
                      ELSE [u EXCEPT !.in_flight = 0, !.deadline = deadline,
                                     !.unload_when_idle = immediate]
    BY DEF Released
  <2> HIDE DEF immediate, deadline
  <2>3. QED BY <2>0, <2>1, <2>2 DEF Usages
<1>5. NewUsage \in Usages  BY DEF Usages, NewUsage
<1>6. QED BY <1>1, <1>4, <1>5

LEMMA NewLoadTyped == NewLoad \in Loads
BY DEF NewLoad, Loads

LEMMA LoadTypes ==
  ASSUME NEW l \in Loads
  PROVE  /\ [l EXCEPT !.too_big = FALSE] \in Loads
         /\ [l EXCEPT !.too_big = TRUE] \in Loads
         /\ [l EXCEPT !.woken = FALSE] \in Loads
         /\ [l EXCEPT !.woken = TRUE] \in Loads
         /\ [l EXCEPT !.late = TRUE] \in Loads
         /\ [l EXCEPT !.again = TRUE, !.too_big = TRUE, !.late = FALSE] \in Loads
BY DEF Loads

LEMMA NotifiedTyped ==
  ASSUME Typed, NEW wakes \in BOOLEAN PROVE Notified(wakes) \in [Requests -> Loads]
<1>1. load \in [Requests -> Loads]  BY DEF Typed, TypeOK, Loads
<1>2. \A r \in Requests : [load[r] EXCEPT !.woken = TRUE] \in Loads  BY <1>1, LoadTypes
<1>3. QED BY <1>1, <1>2 DEF Notified

LEMMA InitTyped == Init => Typed
BY ResidentsAssumption, UsageTypes, NewLoadTyped
   DEF Init, Typed, TypeOK, Usages, Loads, Wishes, Ids, Procs, Janitors, NewUsage, NewLoad

(* Lease, the one part of the state several requests' steps share.         *)
LEMMA LeaseTyped ==
  ASSUME Typed, NEW r \in Requests, NEW id \in Ids,
         NEW keep \in {"For", "Immediate", "Forever"}, Lease(r, id, keep)
  PROVE  /\ usage' \in [Ids -> Usages] /\ lease' \in [Requests -> Ids \cup {NoId}]
         /\ pc' \in [Requests -> Places]
<1>1. usage[id] \in Usages  BY DEF Typed, TypeOK, Usages
<1>2. Leased(usage[id], keep) \in Usages  BY <1>1, UsageTypes
<1>3. QED BY <1>2 DEF Lease, Typed, TypeOK, Usages, Places

LEMMA StepTyped == Typed /\ [Next]_vars => Typed'
<1> SUFFICES ASSUME Typed, [Next]_vars PROVE Typed'  OBVIOUS
<1> USE DEF modelVars, requestVars, janitorVars
<1>t. /\ residents \subseteq Ids /\ usage \in [Ids -> Usages]
      /\ swap_lock \in Procs \cup {NoOne} /\ pc \in [Requests -> Places]
      /\ lease \in [Requests -> Ids \cup {NoId}] /\ load \in [Requests -> Loads]
      /\ victim \in [Procs -> Ids \cup {NoId}] /\ retiring \subseteq Ids
      /\ wish \in [Requests -> Wishes] /\ todo \in [Janitors -> SUBSET Ids]
      /\ doing \in [Janitors -> {"new", "due", "unload", "companion", "done"}]
  BY DEF Typed, TypeOK, Usages, Loads, Places
<1>i. Requests \subseteq Ids /\ Requests \subseteq Procs /\ Janitors \subseteq Procs
      /\ Commands \subseteq Janitors /\ Loop \in Janitors
  BY DEF Ids, Procs, Janitors
<1>k. KeepAlives \subseteq {"For", "Immediate", "Forever"}  BY ResidentsAssumption
<1> DEFINE Good ==
      /\ residents' \subseteq Ids /\ usage' \in [Ids -> Usages]
      /\ swap_lock' \in Procs \cup {NoOne} /\ pc' \in [Requests -> Places]
      /\ lease' \in [Requests -> Ids \cup {NoId}] /\ load' \in [Requests -> Loads]
      /\ victim' \in [Procs -> Ids \cup {NoId}] /\ retiring' \subseteq Ids
      /\ wish' \in [Requests -> Wishes] /\ todo' \in [Janitors -> SUBSET Ids]
      /\ doing' \in [Janitors -> {"new", "due", "unload", "companion", "done"}]
<1>q. Good => Typed'  BY DEF Typed, TypeOK, Usages, Loads, Places
<1> SUFFICES Good  BY <1>q
<1> HIDE DEF Good
<1> USE <1>t, <1>i, <1>k
<1>0. CASE UNCHANGED vars  BY <1>0 DEF vars, Good
<1>1. ASSUME NEW r \in Requests, NEW name \in Names \cup {NoName}, NEW keep \in KeepAlives,
             Ask(r, name, keep)
      PROVE  Good
  <2>1. wish' \in [Requests -> Wishes]  BY <1>1 DEF Ask, Wishes
  <2>2. CASE \E id \in residents : Lease(r, id, keep)
    <3>1. PICK id \in residents : Lease(r, id, keep)  BY <2>2
    <3>2. id \in Ids /\ keep \in {"For", "Immediate", "Forever"}  OBVIOUS
    <3>3. /\ usage' \in [Ids -> Usages] /\ lease' \in [Requests -> Ids \cup {NoId}]
          /\ pc' \in [Requests -> Places]
      BY <3>1, <3>2, LeaseTyped
    <3>4. UNCHANGED <<residents, swap_lock, load, victim, retiring, todo, doing>>
      BY <1>1 DEF Ask
    <3>5. QED BY <2>1, <3>3, <3>4 DEF Good
  <2>3. CASE ~\E id \in residents : Lease(r, id, keep)
    BY <1>1, <2>1, <2>3 DEF Ask, Good, Places
  <2>4. QED BY <2>2, <2>3
<1>2. ASSUME NEW r \in Requests, NEW name \in Names, NEW keep \in KeepAlives,
             Warm(r, name, keep)
      PROVE  Good
  BY <1>2 DEF Warm, Good, Wishes, Places
<1>3. ASSUME NEW r \in Requests, FindOrMakeRoom(r),
             UNCHANGED <<residents, wish, victim, retiring, janitorVars>>
      PROVE  Good
  <2>1. wish[r].keep_alive \in {"For", "Immediate", "Forever"}  BY DEF Wishes
  <2>2. FoundFor(r) \subseteq Ids  BY DEF FoundFor
  <2>3. CASE \E id \in FoundFor(r) : Lease(r, id, wish[r].keep_alive)
    <3>1. PICK id \in FoundFor(r) : Lease(r, id, wish[r].keep_alive)  BY <2>3
    <3>2. FoundFor(r) # {}  BY <3>1
    <3>3. load' = [load EXCEPT ![r] = NewLoad] /\ UNCHANGED swap_lock
      BY <1>3, <3>2 DEF FindOrMakeRoom
    <3>4. QED BY <1>3, <2>1, <2>2, <3>1, <3>3, LeaseTyped, NewLoadTyped DEF Good
  <2>4. CASE ~\E id \in FoundFor(r) : Lease(r, id, wish[r].keep_alive)
    <3>1. /\ swap_lock' = r /\ pc' = [pc EXCEPT ![r] = "room"]
          /\ load' = [load EXCEPT ![r].too_big = FALSE]
          /\ UNCHANGED <<usage, last_used, lease>>
      BY <1>3, <2>4 DEF FindOrMakeRoom
    <3>2. load' \in [Requests -> Loads]  BY <3>1, LoadTypes
    <3>3. QED BY <1>3, <3>1, <3>2 DEF Good, Places
  <2>5. QED BY <2>3, <2>4
<1>4. ASSUME NEW r \in Requests, LockToLoad(r) PROVE Good
  <2>1. CASE FindOrMakeRoom(r)  BY <1>3, <1>4, <2>1 DEF LockToLoad
  <2>2. CASE ~FindOrMakeRoom(r)  BY <1>4, <2>2 DEF LockToLoad, Good, Places
  <2>3. QED BY <2>1, <2>2
<1>5. ASSUME NEW r \in Requests, Wake(r) PROVE Good  BY <1>3, <1>5 DEF Wake
<1>6. ASSUME NEW r \in Requests, Register(r) PROVE Good
  <2>1. load' \in [Requests -> Loads]  BY <1>6, LoadTypes DEF Register
  <2>2. QED BY <1>6, <2>1 DEF Register, Good, Places
<1>7. ASSUME NEW r \in Requests, LookNoRoom(r) \/ LookBusy(r) \/ LoadFails(r) PROVE Good
  BY <1>7, NewLoadTyped DEF LookNoRoom, LookBusy, LoadFails, RefuseLoad, Good, Places
<1>8. ASSUME NEW r \in Requests, LookWait(r) \/ LookLoad(r) PROVE Good
  BY <1>8 DEF LookWait, LookLoad, Chosen, Good, Places
<1>9. ASSUME NEW r \in Requests, LookEvict(r) PROVE Good
  BY <1>9 DEF LookEvict, Chosen, Good, Places
<1>10. ASSUME NEW p \in Procs, NEW id \in Ids \cup {NoId}, NEW allowed \in BOOLEAN,
              remove_generation(p, id, allowed)
       PROVE  /\ residents' \subseteq Ids /\ retiring' \subseteq Ids /\ usage' = usage
              /\ victim' \in [Procs -> Ids \cup {NoId}]
  BY <1>10 DEF remove_generation
<1>11. ASSUME NEW r \in Requests, Evict(r) PROVE Good
  <2>1. /\ residents' \subseteq Ids /\ retiring' \subseteq Ids /\ usage' = usage
        /\ victim' \in [Procs -> Ids \cup {NoId}]
    <3>1. remove_generation(r, victim[r], OneAtATime \/ usage[victim[r]].in_flight = 0)
      BY <1>11 DEF Evict
    <3>2. victim[r] \in Ids \cup {NoId}  OBVIOUS
    <3>3. QED BY <1>10, <3>1, <3>2
  <2>2. load' \in [Requests -> Loads]  BY <1>11, LoadTypes DEF Evict
  <2>3. QED BY <1>11, <2>1, <2>2 DEF Evict, Good, Places
<1>12. ASSUME NEW r \in Requests, Sleep(r) \/ SizeFits(r) PROVE Good
  BY <1>12 DEF Sleep, SizeFits, Good, Places
<1>13. ASSUME NEW r \in Requests, TimeIsUp(r) PROVE Good
  <2>1. load' = [load EXCEPT ![r].late = TRUE]  BY <1>13 DEF TimeIsUp
  <2>2. [load[r] EXCEPT !.late = TRUE] \in Loads  BY LoadTypes
  <2>3. load' \in [Requests -> Loads]  BY <2>1, <2>2
  <2>4. QED BY <1>13, <2>3 DEF TimeIsUp, Good
<1>14. ASSUME NEW r \in Requests, SizeTooBig(r) PROVE Good
  <2>1. load' \in [Requests -> Loads]  BY <1>14, LoadTypes DEF SizeTooBig
  <2>2. QED BY <1>14, <2>1 DEF SizeTooBig, Good, Places
<1>15. ASSUME NEW r \in Requests, LoadShrinks(r) PROVE Good
  <2>1. load' \in [Requests -> Loads]  BY <1>15, LoadTypes DEF LoadShrinks
  <2>2. QED BY <1>15, <2>1 DEF LoadShrinks, Good, Places
<1>16. ASSUME NEW r \in Requests, LoadInstalls(r) PROVE Good
  <2>1. Leased(NewUsage, wish[r].keep_alive) \in Usages  BY UsageTypes DEF Wishes
  <2>2. QED BY <1>16, <2>1, NewLoadTyped DEF LoadInstalls, Good, Places
<1>17. ASSUME NEW r \in Requests, Finish(r) PROVE Good
  <2> DEFINE after == Released(usage[lease[r]])
  <2>1. usage' \in [Ids -> Usages]
    <3>1. CASE lease[r] \in Ids  BY <1>17, <3>1, UsageTypes DEF Finish
    <3>2. CASE lease[r] \notin Ids  BY <1>17, <3>2 DEF Finish
    <3>3. QED BY <3>1, <3>2
  <2>2. load' \in [Requests -> Loads]
    <3>1. load' = Notified(after.in_flight = 0)  BY <1>17 DEF Finish
    <3>2. (after.in_flight = 0) \in BOOLEAN  OBVIOUS
    <3>3. QED BY <3>1, <3>2, NotifiedTyped
  <2>3. QED BY <1>17, <2>1, <2>2 DEF Finish, Good, Places
<1>18. ASSUME NEW r \in Requests, Leave(r) PROVE Good
  BY <1>18, NewLoadTyped DEF Leave, Good, Places
<1>19. ASSUME NEW r \in Requests, AbandonedLoadEnds(r) PROVE Good
  BY <1>19 DEF AbandonedLoadEnds, Good, Places
<1>20. ASSUME NEW id \in Ids, Retired(id) \/ DeadlinePasses(id) PROVE Good
  <2>1. CASE Retired(id)  BY <2>1 DEF Retired, Good
  <2>2. CASE DeadlinePasses(id)
    <3>1. [usage[id] EXCEPT !.deadline = "past"] \in Usages  BY DEF Usages
    <3>2. usage' = [usage EXCEPT ![id] = [usage[id] EXCEPT !.deadline = "past"]]
      BY <2>2 DEF DeadlinePasses
    <3>3. usage' \in [Ids -> Usages]  BY <3>1, <3>2
    <3>4. QED BY <2>2, <3>3 DEF DeadlinePasses, Good
  <2>3. QED BY <1>20, <2>1, <2>2
<1>21. CASE Tick  BY <1>21 DEF Tick, Good
<1>22. ASSUME NEW j \in Janitors, RemoveDue(j) PROVE Good
  <2>1. PICK id \in todo[j] :
          /\ todo' = [todo EXCEPT ![j] = @ \ {id}]
          /\ remove_generation(j, id, Due(usage[id]))
          /\ swap_lock' = IF residents' = residents THEN NoOne ELSE j
    BY <1>22 DEF RemoveDue
  <2>2. id \in Ids /\ Due(usage[id]) \in BOOLEAN  BY DEF Due
  <2>3. QED BY <1>10, <1>22, <2>1, <2>2 DEF RemoveDue, Good
<1>23. ASSUME NEW j \in Janitors, LetGo(j) PROVE Good
  BY <1>23 DEF LetGo, Good
<1>24. ASSUME NEW c \in Commands, NEW id \in residents, Expire(c, id) PROVE Good
  <2> DEFINE after == Released(Leased(usage[id], "Immediate"))
  <2>1. after \in Usages  BY UsageTypes
  <2>2. load' \in [Requests -> Loads]
    <3>1. load' = Notified(after.in_flight = 0)  BY <1>24 DEF Expire
    <3>2. (after.in_flight = 0) \in BOOLEAN  OBVIOUS
    <3>3. QED BY <3>1, <3>2, NotifiedTyped
  <2>3. usage' = [usage EXCEPT ![id] = after]  BY <1>24 DEF Expire
  <2> HIDE DEF after
  <2>4. QED BY <1>24, <2>1, <2>2, <2>3 DEF Expire, Good
<1>25. ASSUME NEW c \in Commands, NEW ids \in SUBSET residents, Unload(c, ids) PROVE Good
  BY <1>25 DEF Unload, Good
<1>26. ASSUME NEW c \in Commands, LoadCompanion(c) PROVE Good
  BY <1>26 DEF LoadCompanion, Good
<1>27. ASSUME NEW c \in Commands, PlanCompanion(c) PROVE Good
  <2>1. \A n : FirstOut(n) \in SUBSET Ids  BY DEF FirstOut
  <2>2. QED BY <1>27, <2>1 DEF PlanCompanion, Good
<1>28. ASSUME NEW c \in Commands, RemoveAnyway(c) PROVE Good
  <2>1. PICK id \in todo[c] : /\ remove_generation(c, id, TRUE)
                              /\ todo' = [todo EXCEPT ![c] = @ \ {id}]
    BY <1>28 DEF RemoveAnyway
  <2>2. id \in Ids  OBVIOUS
  <2>3. QED BY <1>10, <1>28, <2>1, <2>2 DEF RemoveAnyway, Good
<1>29. QED
  BY <1>0, <1>1, <1>2, <1>4, <1>5, <1>6, <1>7, <1>8, <1>9, <1>11, <1>12, <1>13, <1>14,
     <1>15, <1>16, <1>17, <1>18, <1>19, <1>20, <1>21, <1>22, <1>23, <1>24, <1>25, <1>26,
     <1>27, <1>28
  DEF Next, Arrive, MakeRoom, LoadModel, Command

(* Every resident, lock holder, lease and list is of its kind (TypeOK).    *)
THEOREM ResidentsTypeCorrect == Spec => []TypeOK
<1>1. Typed => TypeOK  BY DEF Typed
<1>2. QED BY <1>1, InitTyped, StepTyped, PTL DEF Spec
-----------------------------------------------------------------------------
(* Who holds swap_lock. *)

Locked == {"room", "look", "evict", "sleep", "size", "load"}
Served == {"serving", "done"}

(* A request holds the lock exactly while it makes room, sizes or loads.   *)
LockOK == \A r \in Requests : pc[r] \in Locked <=> swap_lock = r

LEMMA Apart ==
  /\ NoOne \notin Requests /\ Requests \cap Janitors = {} /\ NoOne \notin Janitors
  /\ Launch \notin Requests
BY ResidentsAssumption DEF Procs, Janitors

LEMMA StepLock == Typed /\ LockOK /\ [Next]_vars => LockOK'
<1> SUFFICES ASSUME Typed, LockOK, [Next]_vars PROVE LockOK'  OBVIOUS
<1> USE Apart DEF modelVars, requestVars, janitorVars
<1>t. pc \in [Requests -> Places] /\ swap_lock \in Procs \cup {NoOne}
  BY DEF Typed, TypeOK, Places
<1>0. CASE UNCHANGED <<pc, swap_lock>>  BY <1>0 DEF LockOK
<1>1. ASSUME NEW r \in Requests, NEW p \in Places, pc' = [pc EXCEPT ![r] = p],
             pc[r] \in Locked <=> p \in Locked, swap_lock' = swap_lock
      PROVE  LockOK'
  BY <1>t, <1>1 DEF LockOK
<1>2. ASSUME NEW r \in Requests, NEW p \in Places \ Locked, pc' = [pc EXCEPT ![r] = p],
             IF swap_lock = r THEN swap_lock' = NoOne ELSE swap_lock' = swap_lock
      PROVE  LockOK'
  BY <1>t, <1>2 DEF LockOK
<1>3. ASSUME NEW j \in Janitors, pc' = pc,
             (swap_lock = NoOne /\ swap_lock' \in {NoOne, j}) \/ (swap_lock = j /\ swap_lock' = NoOne)
      PROVE  LockOK'
  BY <1>3 DEF LockOK
<1>4. ASSUME NEW r \in Requests, pc[r] \in {"queue", "wait"}, swap_lock = NoOne,
             FindOrMakeRoom(r)
      PROVE  LockOK'
  <2>1. CASE pc' = [pc EXCEPT ![r] = "serving"] /\ swap_lock' = swap_lock
    BY <1>1, <1>4, <2>1 DEF Places, Locked
  <2>2. CASE pc' = [pc EXCEPT ![r] = "room"] /\ swap_lock' = r
    BY <1>t, <1>4, <2>2 DEF LockOK, Locked
  <2>3. QED BY <1>4, <2>1, <2>2 DEF FindOrMakeRoom, Lease
<1>5. ASSUME NEW r \in Requests, LockToLoad(r) \/ Wake(r) PROVE LockOK'
  <2>1. CASE FindOrMakeRoom(r)  BY <1>4, <1>5, <2>1 DEF LockToLoad, Wake
  <2>2. CASE pc' = [pc EXCEPT ![r] = "refused"] /\ pc[r] = "queue" /\ swap_lock' = swap_lock
    BY <1>1, <2>2 DEF Places, Locked
  <2>3. QED BY <1>5, <2>1, <2>2 DEF LockToLoad, Wake
<1>6. ASSUME NEW r \in Requests, NEW name, NEW keep, Ask(r, name, keep) \/ Warm(r, name, keep)
      PROVE  LockOK'
  <2>1. /\ pc[r] = "new" /\ swap_lock' = swap_lock
        /\ \E p \in {"serving", "refused", "queue"} : pc' = [pc EXCEPT ![r] = p]
    BY <1>6 DEF Ask, Warm, Lease
  <2>2. QED BY <1>1, <2>1 DEF Places, Locked
<1>7. ASSUME NEW r \in Requests,
             Register(r) \/ LookWait(r) \/ LookEvict(r) \/ LookLoad(r) \/ Evict(r)
               \/ SizeFits(r) \/ SizeTooBig(r) \/ LoadShrinks(r)
      PROVE  LockOK'
  <2>1. /\ pc[r] \in Locked /\ swap_lock' = swap_lock
        /\ \E p \in Locked : pc' = [pc EXCEPT ![r] = p]
    BY <1>7 DEF Register, LookWait, LookEvict, LookLoad, Evict, SizeFits, SizeTooBig,
                LoadShrinks, Chosen, Holds, Locked
  <2>2. QED BY <1>1, <2>1 DEF Places, Locked
<1>8. ASSUME NEW r \in Requests,
             LookNoRoom(r) \/ LookBusy(r) \/ LoadFails(r) \/ Sleep(r) \/ LoadInstalls(r)
      PROVE  LockOK'
  <2>1. /\ swap_lock = r /\ swap_lock' = NoOne
        /\ \E p \in {"refused", "wait", "serving"} : pc' = [pc EXCEPT ![r] = p]
    BY <1>8 DEF LookNoRoom, LookBusy, LoadFails, RefuseLoad, Sleep, LoadInstalls, Holds
  <2>2. QED BY <1>2, <2>1 DEF Places, Locked
<1>9. ASSUME NEW r \in Requests, Leave(r) PROVE LockOK'
  <2>1. /\ \E p \in {"abandoned", "gone"} : pc' = [pc EXCEPT ![r] = p]
        /\ swap_lock' = IF swap_lock = r THEN NoOne ELSE swap_lock
    BY <1>9 DEF Leave
  <2>2. QED BY <1>2, <2>1 DEF Places, Locked
<1>10. ASSUME NEW r \in Requests, Finish(r) \/ AbandonedLoadEnds(r) PROVE LockOK'
  <2>1. /\ pc[r] \in {"serving", "abandoned"} /\ swap_lock' = swap_lock
        /\ \E p \in {"done", "gone"} : pc' = [pc EXCEPT ![r] = p]
    BY <1>10 DEF Finish, AbandonedLoadEnds
  <2>2. QED BY <1>1, <2>1 DEF Places, Locked
<1>11. ASSUME NEW j \in Janitors, RemoveDue(j) \/ LetGo(j) PROVE LockOK'
  BY <1>3, <1>11 DEF RemoveDue, LetGo
<1>12. ASSUME NEW c \in Commands, NEW ids, Unload(c, ids) \/ LoadCompanion(c) PROVE LockOK'
  BY <1>3, <1>12 DEF Unload, LoadCompanion, Janitors
<1>13. ASSUME NEW r \in Requests, TimeIsUp(r) PROVE LockOK'
  BY <1>0, <1>13 DEF TimeIsUp
<1>14. ASSUME NEW id, Retired(id) \/ DeadlinePasses(id) \/ Tick PROVE LockOK'
  BY <1>0, <1>14 DEF Retired, DeadlinePasses, Tick
<1>15. ASSUME NEW c \in Commands, NEW id, Expire(c, id) \/ PlanCompanion(c) \/ RemoveAnyway(c)
       PROVE  LockOK'
  BY <1>0, <1>15 DEF Expire, PlanCompanion, RemoveAnyway
<1>16. QED
  BY <1>0, <1>5, <1>6, <1>7, <1>8, <1>9, <1>10, <1>11, <1>12, <1>13, <1>14, <1>15
  DEF Next, Arrive, MakeRoom, LoadModel, Command, vars

-----------------------------------------------------------------------------
(* What a step does to the residents and to the leases on them. *)

(* No request is answered or done being answered, and no wish changes once *)
(* it is made.                                                             *)
Calm ==
  \A r \in Requests :
    /\ pc'[r] = pc[r] \/ (pc[r] \notin Served /\ pc'[r] \notin Served)
    /\ wish'[r] = wish[r] \/ pc[r] = "new"

Quiet == UNCHANGED <<residents, usage, lease>> /\ Calm

Answers(r, id) ==
  /\ pc[r] \in {"new", "queue", "wait"} /\ id \in residents
  /\ UNCHANGED <<residents, swap_lock>>
  /\ \E keep \in {"For", "Immediate", "Forever"} : Lease(r, id, keep)
  /\ \A q \in Requests : wish'[q] = wish[q] \/ pc[q] = "new"

Goes(id) ==
  /\ id \in residents /\ residents' = residents \ {id}
  /\ UNCHANGED <<usage, lease>> /\ Calm

(* Deadlines pass and are set; the leases are as they were.                *)
Ages ==
  /\ UNCHANGED <<residents, lease, pc, wish, swap_lock>>
  /\ \A id \in Ids : usage'[id].in_flight = usage[id].in_flight

Move ==
  \/ Quiet \/ Ages
  \/ \E r \in Requests, id \in Ids : Answers(r, id)
  \/ \E r \in Requests : LoadInstalls(r) \/ Finish(r)
  \/ \E id \in Ids : Goes(id)

LEMMA RemovalMoves ==
  ASSUME NEW p, NEW id, NEW allowed, Typed, remove_generation(p, id, allowed), Calm,
         lease' = lease
  PROVE  Move
<1>1. CASE id \in residents /\ allowed
  BY <1>1 DEF remove_generation, Move, Goes, Typed, TypeOK
<1>2. CASE ~(id \in residents /\ allowed)
  BY <1>2 DEF remove_generation, Move, Quiet, modelVars
<1>3. QED BY <1>1, <1>2

LEMMA Moves == Typed /\ [Next]_vars => Move
<1> SUFFICES ASSUME Typed, [Next]_vars PROVE Move  OBVIOUS
<1> USE Apart DEF modelVars, requestVars, janitorVars
<1>t. /\ residents \subseteq Ids /\ pc \in [Requests -> Places]
      /\ usage \in [Ids -> Usages] /\ wish \in [Requests -> Wishes]
  BY DEF Typed, TypeOK, Places, Usages
<1>k. KeepAlives \subseteq {"For", "Immediate", "Forever"}  BY ResidentsAssumption
<1>0. CASE UNCHANGED vars  BY <1>0 DEF vars, Move, Quiet, Calm
<1>1. ASSUME NEW r \in Requests, NEW p \in Places \ Served, pc[r] \notin Served,
             pc' = [pc EXCEPT ![r] = p], wish' = wish
      PROVE  Calm
  BY <1>t, <1>1 DEF Calm
<1>2. ASSUME NEW r \in Requests, NEW name \in Names \cup {NoName}, NEW keep \in KeepAlives,
             Ask(r, name, keep)
      PROVE  Move
  <2>1. pc[r] = "new" /\ \A q \in Requests : wish'[q] = wish[q] \/ pc[q] = "new"
    BY <1>t, <1>2 DEF Ask
  <2>2. CASE \E id \in residents : Lease(r, id, keep)
    <3>1. PICK id \in residents : Lease(r, id, keep)  BY <2>2
    <3>2. keep \in {"For", "Immediate", "Forever"} /\ id \in Ids  BY <1>k, <1>t
    <3>3. UNCHANGED <<residents, swap_lock>>  BY <1>2 DEF Ask
    <3>4. Answers(r, id)  BY <2>1, <3>1, <3>2, <3>3 DEF Answers
    <3>5. QED BY <3>2, <3>4 DEF Move
  <2>3. CASE ~\E id \in residents : Lease(r, id, keep)
    <3>1. /\ \E p \in {"refused", "queue"} : pc' = [pc EXCEPT ![r] = p]
          /\ UNCHANGED <<residents, usage, lease>>
      BY <1>2, <2>3 DEF Ask
    <3>2. QED BY <1>t, <2>1, <3>1 DEF Move, Quiet, Calm, Served
  <2>4. QED BY <2>2, <2>3
<1>3. ASSUME NEW r \in Requests, NEW name, NEW keep, Warm(r, name, keep) PROVE Move
  BY <1>t, <1>3 DEF Warm, Move, Quiet, Calm, Served
<1>4. ASSUME NEW r \in Requests, pc[r] \in {"queue", "wait"}, FindOrMakeRoom(r),
             UNCHANGED <<residents, wish>>
      PROVE  Move
  <2>1. CASE \E id \in FoundFor(r) : Lease(r, id, wish[r].keep_alive)
    <3>1. PICK id \in FoundFor(r) : Lease(r, id, wish[r].keep_alive)  BY <2>1
    <3>2. id \in residents /\ id \in Ids /\ FoundFor(r) # {}
      BY <1>t, <3>1 DEF FoundFor
    <3>3. UNCHANGED swap_lock  BY <1>4, <3>2 DEF FindOrMakeRoom
    <3>4. wish[r].keep_alive \in {"For", "Immediate", "Forever"}  BY <1>t DEF Wishes
    <3>5. Answers(r, id)  BY <1>4, <3>1, <3>2, <3>3, <3>4 DEF Answers
    <3>6. QED BY <3>2, <3>5 DEF Move
  <2>2. CASE ~\E id \in FoundFor(r) : Lease(r, id, wish[r].keep_alive)
    BY <1>1, <1>4, <2>2 DEF FindOrMakeRoom, Move, Quiet, Places, Served
  <2>3. QED BY <2>1, <2>2
<1>5. ASSUME NEW r \in Requests, LockToLoad(r) \/ Wake(r) PROVE Move
  <2>1. CASE FindOrMakeRoom(r)  BY <1>4, <1>5, <2>1 DEF LockToLoad, Wake
  <2>2. CASE ~FindOrMakeRoom(r)
    BY <1>1, <1>5, <2>2 DEF LockToLoad, Wake, Move, Quiet, Places, Served
  <2>3. QED BY <2>1, <2>2
<1>6. ASSUME NEW r \in Requests,
             Register(r) \/ LookNoRoom(r) \/ LookBusy(r) \/ LookWait(r) \/ LookEvict(r)
               \/ LookLoad(r) \/ Sleep(r) \/ SizeFits(r) \/ SizeTooBig(r)
               \/ LoadFails(r) \/ LoadShrinks(r) \/ Leave(r) \/ AbandonedLoadEnds(r)
      PROVE  Move
  <2>1. /\ pc[r] \notin Served
        /\ \E p \in Places \ Served : pc' = [pc EXCEPT ![r] = p]
        /\ UNCHANGED <<residents, usage, lease, wish>>
    BY <1>6 DEF Register, LookNoRoom, LookBusy, LookWait, LookEvict, LookLoad, Sleep,
                SizeFits, SizeTooBig, LoadFails, LoadShrinks, Leave, AbandonedLoadEnds,
                RefuseLoad, Chosen, Holds, Places, Served
  <2>2. QED BY <1>1, <2>1 DEF Move, Quiet
<1>7. ASSUME NEW r \in Requests, Evict(r) PROVE Move
  <2>1. Calm  BY <1>1, <1>7 DEF Evict, Holds, Places, Served
  <2>2. remove_generation(r, victim[r], OneAtATime \/ usage[victim[r]].in_flight = 0)
        /\ lease' = lease
    BY <1>7 DEF Evict
  <2>3. QED BY <2>1, <2>2, RemovalMoves
<1>8. ASSUME NEW r \in Requests, LoadInstalls(r) \/ Finish(r) PROVE Move
  BY <1>8 DEF Move
<1>9. ASSUME NEW r, NEW id, TimeIsUp(r) \/ Retired(id) \/ Tick PROVE Move
  BY <1>9 DEF TimeIsUp, Retired, Tick, Move, Quiet, Calm
<1>10. ASSUME NEW id \in Ids, DeadlinePasses(id) PROVE Move
  <2>1. \A i \in Ids : usage'[i].in_flight = usage[i].in_flight
    BY <1>t, <1>10 DEF DeadlinePasses, Usages
  <2>2. QED BY <1>10, <2>1 DEF DeadlinePasses, Move, Ages
<1>11. ASSUME NEW j \in Janitors, RemoveDue(j) PROVE Move
  <2>1. Calm /\ lease' = lease  BY <1>11 DEF RemoveDue, Calm
  <2>2. PICK id \in todo[j] : remove_generation(j, id, Due(usage[id]))
    BY <1>11 DEF RemoveDue
  <2>3. QED BY <2>1, <2>2, RemovalMoves
<1>12. ASSUME NEW j, LetGo(j) PROVE Move
  BY <1>12 DEF LetGo, Move, Quiet, Calm
<1>13. ASSUME NEW c \in Commands, NEW id \in residents, Expire(c, id) PROVE Move
  <2>1. usage' = [usage EXCEPT ![id] = Released(Leased(usage[id], "Immediate"))]
    BY <1>13 DEF Expire
  <2>2. /\ usage[id] \in Usages /\ usage[id].in_flight \in Nat
        /\ Leased(usage[id], "Immediate") \in Usages
        /\ Leased(usage[id], "Immediate").in_flight = usage[id].in_flight + 1
    BY <1>t, UsageTypes DEF Usages
  <2>3. Released(Leased(usage[id], "Immediate")).in_flight = usage[id].in_flight
    <3> DEFINE l == Leased(usage[id], "Immediate")
    <3>1. Released(l).in_flight = IF l.in_flight = 0 THEN 0 ELSE l.in_flight - 1
      BY <2>2, UsageTypes
    <3>2. l.in_flight = usage[id].in_flight + 1  BY <2>2
    <3> HIDE DEF l
    <3>3. Released(l).in_flight = usage[id].in_flight  BY <2>2, <3>1, <3>2
    <3>4. QED BY <3>3 DEF l
  <2>4. \A i \in Ids : usage'[i].in_flight = usage[i].in_flight  BY <1>t, <2>1, <2>3
  <2>5. QED BY <1>13, <2>4 DEF Expire, Move, Ages
<1>14. ASSUME NEW c, NEW ids, Unload(c, ids) \/ LoadCompanion(c) \/ PlanCompanion(c)
       PROVE  Move
  BY <1>14 DEF Unload, LoadCompanion, PlanCompanion, Move, Quiet, Calm
<1>15. ASSUME NEW c \in Commands, RemoveAnyway(c) PROVE Move
  <2>1. Calm /\ lease' = lease  BY <1>15 DEF RemoveAnyway, Calm
  <2>2. PICK id \in todo[c] : remove_generation(c, id, TRUE)  BY <1>15 DEF RemoveAnyway
  <2>3. QED BY <2>1, <2>2, RemovalMoves
<1>16. QED
  BY <1>0, <1>2, <1>3, <1>5, <1>6, <1>7, <1>8, <1>9, <1>10, <1>11, <1>12, <1>13, <1>14,
     <1>15
  DEF Next, Arrive, MakeRoom, LoadModel, Command

(* Whoever has the lock now had it, or has just found no resident to use.  *)
LEMMA LockTaken ==
  ASSUME Typed, [Next]_vars, NEW r \in Requests, swap_lock' = r, swap_lock # r
  PROVE  FoundFor(r) = {} /\ UNCHANGED <<residents, wish>> /\ pc[r] \in {"queue", "wait"}
<1> USE Apart DEF modelVars, requestVars, janitorVars
<1> DEFINE Taken ==
      FoundFor(r) = {} /\ UNCHANGED <<residents, wish>> /\ pc[r] \in {"queue", "wait"}
<1>1. ASSUME NEW q \in Requests, FindOrMakeRoom(q), UNCHANGED <<residents, wish>>,
             pc[q] \in {"queue", "wait"}
      PROVE  Taken
  <2>1. FoundFor(q) = {} /\ swap_lock' = q  BY <1>1 DEF FindOrMakeRoom
  <2>2. QED BY <1>1, <2>1
<1>2. ASSUME NEW q \in Requests, LockToLoad(q) \/ Wake(q) PROVE Taken
  BY <1>1, <1>2 DEF LockToLoad, Wake
<1>3. ASSUME NEW q \in Requests, Arrive(q) PROVE FALSE
  BY <1>3 DEF Arrive, Ask, Warm
<1>4. ASSUME NEW q \in Requests, MakeRoom(q) PROVE FALSE
  BY <1>4 DEF MakeRoom, Register, LookNoRoom, LookBusy, LookWait, LookEvict, LookLoad,
              Evict, Sleep, RefuseLoad, Chosen
<1>5. ASSUME NEW q \in Requests, LoadModel(q) PROVE FALSE
  BY <1>5 DEF LoadModel, SizeFits, SizeTooBig, LoadFails, LoadShrinks, LoadInstalls,
              RefuseLoad
<1>6. ASSUME NEW q \in Requests, Finish(q) \/ TimeIsUp(q) \/ Leave(q) \/ AbandonedLoadEnds(q)
      PROVE  FALSE
  BY <1>6 DEF Finish, TimeIsUp, Leave, AbandonedLoadEnds
<1>7. ASSUME NEW id, Retired(id) \/ DeadlinePasses(id) \/ Tick PROVE FALSE
  BY <1>7 DEF Retired, DeadlinePasses, Tick
<1>8. ASSUME NEW j \in Janitors, RemoveDue(j) \/ LetGo(j) PROVE FALSE
  BY <1>8 DEF RemoveDue, LetGo
<1>9. ASSUME NEW c \in Commands, Command(c) PROVE FALSE
  BY <1>9 DEF Command, Expire, Unload, LoadCompanion, PlanCompanion, RemoveAnyway, Janitors
<1>10. QED BY <1>2, <1>3, <1>4, <1>5, <1>6, <1>7, <1>8, <1>9 DEF Next, vars

-----------------------------------------------------------------------------
(* One copy of a file, and leases counted. *)

(* A load is resident, or leased, only once its own request was answered.  *)
HomeOK ==
  /\ \A r \in Requests : r \in residents => pc[r] \in Served
  /\ \A r \in Requests : pc[r] = "serving" =>
       lease[r] \in Ids /\ (lease[r] \in Requests => pc[lease[r]] \in Served)

CopyOK ==
  OneCopy /\ \A r \in Requests : swap_lock = r => FoundFor(r) = {}

LEMMA StepHome == Typed /\ HomeOK /\ Move => HomeOK'
<1> SUFFICES ASSUME Typed, HomeOK, Move PROVE HomeOK'  OBVIOUS
<1>t. /\ residents \subseteq Ids /\ pc \in [Requests -> Places]
      /\ lease \in [Requests -> Ids \cup {NoId}]
  BY DEF Typed, TypeOK, Places
<1>i. Requests \subseteq Ids  BY DEF Ids
<1>1. CASE Quiet  BY <1>1 DEF Quiet, Calm, HomeOK, Served
<1>2. CASE Ages  BY <1>2 DEF Ages, HomeOK
<1>3. ASSUME NEW r \in Requests, NEW id \in Ids, Answers(r, id) PROVE HomeOK'
  <2>1. /\ residents' = residents /\ id \in residents
        /\ lease' = [lease EXCEPT ![r] = id] /\ pc' = [pc EXCEPT ![r] = "serving"]
    BY <1>3 DEF Answers, Lease
  <2>2. QED BY <1>t, <2>1 DEF HomeOK, Served
<1>4. ASSUME NEW r \in Requests, LoadInstalls(r) PROVE HomeOK'
  <2>1. /\ residents' = residents \cup {r}
        /\ lease' = [lease EXCEPT ![r] = r] /\ pc' = [pc EXCEPT ![r] = "serving"]
    BY <1>4 DEF LoadInstalls
  <2>2. QED BY <1>t, <1>i, <2>1 DEF HomeOK, Served
<1>5. ASSUME NEW r \in Requests, Finish(r) PROVE HomeOK'
  <2>1. /\ residents' = residents
        /\ lease' = [lease EXCEPT ![r] = NoId] /\ pc' = [pc EXCEPT ![r] = "done"]
    BY <1>5 DEF Finish
  <2>2. QED BY <1>t, <2>1 DEF HomeOK, Served
<1>6. ASSUME NEW id \in Ids, Goes(id) PROVE HomeOK'
  BY <1>6 DEF Goes, Calm, HomeOK, Served
<1>7. QED BY <1>1, <1>2, <1>3, <1>4, <1>5, <1>6 DEF Move

(* A resident keeps its name, and a request that holds the lock its wish.  *)
LEMMA WishesKept ==
  ASSUME Typed, HomeOK, LockOK, [Next]_vars, Move
  PROVE  /\ \A id \in residents : NameOf(id)' = NameOf(id)
         /\ \A r \in Requests : pc[r] # "new" => wish'[r] = wish[r]
<1>1. \A r \in Requests : pc[r] # "new" => wish'[r] = wish[r]
  BY DEF Move, Quiet, Calm, Ages, Answers, Goes, LoadInstalls, Finish
<1>2. ASSUME NEW id \in residents PROVE NameOf(id)' = NameOf(id)
  <2>1. CASE id = Launch  BY <2>1 DEF NameOf
  <2>2. CASE id # Launch
    <3>1. id \in Requests  BY <2>2 DEF Typed, TypeOK, Ids
    <3>2. pc[id] # "new"  BY <3>1 DEF HomeOK, Served
    <3>3. QED BY <1>1, <2>2, <3>1, <3>2 DEF NameOf
  <2>3. QED BY <2>1, <2>2
<1>3. QED BY <1>1, <1>2

LEMMA StepCopy ==
  Typed /\ HomeOK /\ LockOK /\ CopyOK /\ [Next]_vars => CopyOK'
<1> SUFFICES ASSUME Typed, HomeOK, LockOK, CopyOK, [Next]_vars PROVE CopyOK'  OBVIOUS
<1>m. Move  BY Moves
<1>n. /\ \A id \in residents : NameOf(id)' = NameOf(id)
      /\ \A r \in Requests : pc[r] # "new" => wish'[r] = wish[r]
  BY <1>m, WishesKept
<1>1. CASE residents' \subseteq residents
  <2>1. OneCopy'  BY <1>1, <1>n DEF CopyOK, OneCopy
  <2>2. ASSUME NEW r \in Requests, swap_lock' = r PROVE FoundFor(r)' = {}
    <3>1. FoundFor(r) = {} /\ pc[r] # "new"
      <4>1. CASE swap_lock = r
        BY <4>1 DEF CopyOK, LockOK, Locked
      <4>2. CASE swap_lock # r  BY <2>2, <4>2, LockTaken
      <4>3. QED BY <4>1, <4>2
    <3>2. QED BY <1>1, <1>n, <3>1 DEF FoundFor
  <2>3. QED BY <2>1, <2>2 DEF CopyOK
<1>2. ASSUME NEW r \in Requests, LoadInstalls(r) PROVE CopyOK'
  <2>1. /\ swap_lock = r /\ pc[r] = "load" /\ swap_lock' = NoOne
        /\ residents' = residents \cup {r} /\ wish' = wish
    BY <1>2 DEF LoadInstalls, Holds
  <2>2. FoundFor(r) = {}  BY <2>1 DEF CopyOK
  <2>3. NameOf(r)' = wish[r].name  BY <2>1, Apart DEF NameOf
  <2>4. \A id \in residents : FileOf[NameOf(id)'] # FileOf[NameOf(r)']
    BY <1>n, <2>2, <2>3 DEF FoundFor
  <2>5. OneCopy'  BY <1>n, <2>1, <2>4 DEF CopyOK, OneCopy
  <2>6. QED BY <2>1, <2>5, Apart DEF CopyOK
<1>3. residents' \subseteq residents \/ \E r \in Requests : LoadInstalls(r)
  BY <1>m DEF Move, Quiet, Ages, Answers, Finish, Goes
<1>4. QED BY <1>1, <1>2, <1>3

On(id) == {r \in Requests : pc[r] = "serving" /\ lease[r] = id}

LEMMA StepLeases ==
  Typed /\ HomeOK /\ LeasesCounted /\ Move => LeasesCounted'
<1> SUFFICES ASSUME Typed, HomeOK, LeasesCounted, Move PROVE LeasesCounted'  OBVIOUS
<1>t. /\ residents \subseteq Ids /\ pc \in [Requests -> Places]
      /\ lease \in [Requests -> Ids \cup {NoId}] /\ usage \in [Ids -> Usages]
      /\ \A i \in Ids : usage[i].in_flight \in Nat
      /\ wish \in [Requests -> Wishes] /\ Requests \subseteq Ids
  BY DEF Typed, TypeOK, Places, Usages, Ids
<1>c. \A i \in Ids : usage[i].in_flight = Cardinality(On(i))
  BY DEF LeasesCounted, On
<1>f. \A i : IsFiniteSet(On(i))
  BY FS_Subset, ResidentsAssumption DEF On
<1>q. (\A i \in Ids : usage'[i].in_flight = Cardinality(On(i)')) => LeasesCounted'
  BY DEF LeasesCounted, On
<1>1. CASE Quiet \/ \E id \in Ids : Goes(id)
  <2>1. usage' = usage /\ \A i : On(i)' = On(i)
    BY <1>1 DEF Quiet, Goes, Calm, On, Served
  <2>2. QED BY <1>c, <1>q, <2>1
<1>2. CASE Ages
  <2>1. \A i : On(i)' = On(i)  BY <1>2 DEF Ages, On
  <2>2. QED BY <1>2, <1>c, <1>q, <2>1 DEF Ages
<1>3. ASSUME NEW r \in Requests, NEW id \in Ids, Answers(r, id) PROVE LeasesCounted'
  <2>1. PICK keep \in {"For", "Immediate", "Forever"} : Lease(r, id, keep)
    BY <1>3 DEF Answers
  <2>2. pc[r] # "serving"  BY <1>3 DEF Answers
  <2>3. usage' = [usage EXCEPT ![id] = Leased(@, keep)]  BY <2>1 DEF Lease
  <2>4. Leased(usage[id], keep).in_flight = usage[id].in_flight + 1
    BY <1>t, UsageTypes
  <2>5. On(id)' = On(id) \cup {r} /\ r \notin On(id)
    BY <1>t, <2>1, <2>2 DEF Lease, On
  <2>6. \A i \in Ids \ {id} : On(i)' = On(i)  BY <1>t, <2>1, <2>2 DEF Lease, On
  <2>7. Cardinality(On(id)') = Cardinality(On(id)) + 1
    BY <1>f, <2>5, FS_AddElement
  <2>8. QED BY <1>t, <1>c, <1>q, <2>3, <2>4, <2>6, <2>7
<1>4. ASSUME NEW r \in Requests, LoadInstalls(r) PROVE LeasesCounted'
  <2>1. /\ pc[r] = "load" /\ pc' = [pc EXCEPT ![r] = "serving"]
        /\ lease' = [lease EXCEPT ![r] = r]
        /\ usage' = [usage EXCEPT ![r] = Leased(NewUsage, wish[r].keep_alive)]
    BY <1>4 DEF LoadInstalls, Holds
  <2>2. On(r) = {}  BY <2>1 DEF HomeOK, On, Served
  <2>3. On(r)' = {r}  BY <1>t, <2>1, <2>2 DEF On
  <2>4. \A i \in Ids \ {r} : On(i)' = On(i)  BY <1>t, <2>1 DEF On
  <2>5. Leased(NewUsage, wish[r].keep_alive).in_flight = 1  BY DEF Leased, NewUsage
  <2>6. Cardinality(On(r)') = 1  BY <2>3, FS_Singleton
  <2>7. QED BY <1>t, <1>c, <1>q, <2>1, <2>4, <2>5, <2>6
<1>5. ASSUME NEW r \in Requests, Finish(r) PROVE LeasesCounted'
  <2>0. PICK id : id = lease[r]  OBVIOUS
  <2>1. /\ pc[r] = "serving" /\ pc' = [pc EXCEPT ![r] = "done"]
        /\ lease' = [lease EXCEPT ![r] = NoId]
        /\ usage' = [usage EXCEPT ![id] = Released(usage[id])]
    BY <1>5, <2>0 DEF Finish
  <2>2. id \in Ids  BY <2>0, <2>1 DEF HomeOK
  <2>3. On(id)' = On(id) \ {r} /\ r \in On(id)  BY <1>t, <2>0, <2>1 DEF On
  <2>4. \A i \in Ids \ {id} : On(i)' = On(i)  BY <1>t, <2>0, <2>1 DEF On
  <2>5. Cardinality(On(id)') = Cardinality(On(id)) - 1
    BY <1>f, <2>3, FS_RemoveElement
  <2>6. Cardinality(On(id)) # 0  BY <1>f, <2>3, FS_EmptySet
  <2>7. usage[id] \in Usages  BY <1>t, <2>2
  <2>8. Released(usage[id]).in_flight
          = IF usage[id].in_flight = 0 THEN 0 ELSE usage[id].in_flight - 1
    BY <2>7, UsageTypes
  <2>9. Released(usage[id]).in_flight = Cardinality(On(id)')
    BY <1>c, <2>2, <2>5, <2>6, <2>8
  <2>10. QED BY <1>t, <1>c, <1>q, <2>1, <2>2, <2>4, <2>9
<1>6. QED BY <1>1, <1>2, <1>3, <1>4, <1>5 DEF Move

-----------------------------------------------------------------------------
(* Wake-ups. *)

Waits(r) == pc[r] \in {"sleep", "wait"} /\ ~load[r].woken /\ ~load[r].late
Busy ==
  /\ \A id \in residents : usage[id].in_flight > 0
  /\ \E id \in Ids : usage[id].in_flight > 0
WaitOK == \A r \in Requests : Waits(r) => Busy

(* If the first to go is busy, every resident is.                          *)
LEMMA FirstBusyAllBusy == Typed /\ FirstIsBusy => Busy
<1> SUFFICES ASSUME Typed, FirstIsBusy PROVE Busy  OBVIOUS
<1>1. PICK i \in residents : GoesFirst(i) /\ usage[i].in_flight > 0  BY DEF FirstIsBusy
<1>t. residents \subseteq Ids /\ \A id \in Ids : usage[id].in_flight \in Nat
  BY DEF Typed, TypeOK
<1>2. \A id : Rank(id) >= 8 <=> usage[id].in_flight > 0
  <2>1. ASSUME NEW id PROVE Rank(id) >= 8 <=> usage[id].in_flight > 0
    <3>1. CASE usage[id].in_flight > 0  BY <3>1 DEF Rank, Bit
    <3>2. CASE ~(usage[id].in_flight > 0)  BY <3>2 DEF Rank, Bit
    <3>3. QED BY <3>1, <3>2
  <2>2. QED BY <2>1
<1>3. \A id : Rank(id) \in Nat  BY DEF Rank, Bit
<1>4. ASSUME NEW j \in residents PROVE usage[j].in_flight > 0
  <2>1. Rank(i) <= Rank(j)
    BY <1>1, <1>3 DEF GoesFirst, GivesWayBefore
  <2>2. QED BY <1>1, <1>2, <1>3, <2>1
<1>5. QED BY <1>1, <1>4, <1>t DEF Busy

LEMMA WaitBegins ==
  ASSUME Typed, [Next]_vars, NEW r \in Requests, Waits(r)'
  PROVE  Waits(r) \/ LookWait(r)
<1> SUFFICES ASSUME ~Waits(r), ~LookWait(r) PROVE FALSE  OBVIOUS
<1> USE DEF modelVars, requestVars, janitorVars
<1>t. pc \in [Requests -> Places] /\ load \in [Requests -> Loads]
  BY DEF Typed, TypeOK, Places, Loads
<1>0. UNCHANGED <<pc, load>> => FALSE  BY DEF Waits
<1>1. ASSUME NEW q \in Requests, NEW p, pc' = [pc EXCEPT ![q] = p],
             p \notin {"sleep", "wait"},
             NEW l, load' = load \/ load' = [load EXCEPT ![q] = l]
      PROVE  FALSE
  BY <1>t, <1>1 DEF Waits
<1>2. ASSUME NEW wakes \in BOOLEAN, load' = Notified(wakes),
             \/ pc' = pc
             \/ \E q \in Requests : pc' = [pc EXCEPT ![q] = "done"]
      PROVE  FALSE
  <2>1. pc[r] = pc'[r]  BY <1>t, <1>2 DEF Waits
  <2>2. /\ load'[r].woken = (load[r].woken \/ (wakes /\ r \in Registered))
        /\ load'[r].late = load[r].late
    BY <1>t, <1>2 DEF Notified, Loads
  <2>3. QED BY <2>1, <2>2 DEF Waits
<1>3. ASSUME NEW q \in Requests, Arrive(q) PROVE FALSE
  BY <1>1, <1>3 DEF Arrive, Ask, Warm, Lease
<1>4. ASSUME NEW q \in Requests, LockToLoad(q) \/ Wake(q) PROVE FALSE
  <2>1. \E p \in {"room", "serving", "refused"} : pc' = [pc EXCEPT ![q] = p]
    BY <1>4 DEF LockToLoad, Wake, FindOrMakeRoom, Lease
  <2>2. load' = load \/ \E l : load' = [load EXCEPT ![q] = l]
    BY <1>4 DEF LockToLoad, Wake, FindOrMakeRoom
  <2>3. QED BY <1>1, <2>1, <2>2
<1>5. ASSUME NEW q \in Requests,
             Register(q) \/ Evict(q) \/ LookEvict(q) \/ LookLoad(q) \/ LookNoRoom(q)
               \/ LookBusy(q) \/ LoadModel(q) \/ Leave(q) \/ AbandonedLoadEnds(q)
      PROVE  FALSE
  <2>1. \E p \in {"look", "room", "evict", "size", "load", "refused", "serving",
                  "abandoned", "gone"} : pc' = [pc EXCEPT ![q] = p]
    BY <1>5 DEF Register, Evict, LookEvict, LookLoad, LookNoRoom, LookBusy, LoadModel,
                SizeFits, SizeTooBig, LoadFails, LoadShrinks, LoadInstalls, RefuseLoad,
                Leave, AbandonedLoadEnds
  <2>2. load' = load \/ \E l : load' = [load EXCEPT ![q] = l]
    BY <1>5 DEF Register, Evict, LookEvict, LookLoad, LookNoRoom, LookBusy, LoadModel,
                SizeFits, SizeTooBig, LoadFails, LoadShrinks, LoadInstalls, RefuseLoad,
                Chosen, Leave, AbandonedLoadEnds
  <2>3. QED BY <1>1, <2>1, <2>2
<1>6. ASSUME NEW q \in Requests, LookWait(q) PROVE FALSE
  <2>1. q # r  BY <1>6
  <2>2. QED BY <1>t, <1>6, <2>1 DEF LookWait, Chosen, Waits
<1>7. ASSUME NEW q \in Requests, Sleep(q) PROVE FALSE
  BY <1>t, <1>7 DEF Sleep, Holds, Waits
<1>8. ASSUME NEW q \in Requests, TimeIsUp(q) PROVE FALSE
  <2>1. /\ pc' = pc /\ load'[r].woken = load[r].woken
        /\ load'[r].late = FALSE => load[r].late = FALSE
    BY <1>t, <1>8 DEF TimeIsUp, Loads
  <2>2. QED BY <1>t, <2>1 DEF Waits, Loads
<1>9. ASSUME NEW q \in Requests, Finish(q) PROVE FALSE
  <2>1. (Released(usage[lease[q]]).in_flight = 0) \in BOOLEAN  OBVIOUS
  <2>2. QED BY <1>2, <1>9, <2>1 DEF Finish
<1>10. ASSUME NEW c, NEW id, Expire(c, id) PROVE FALSE
  <2>1. (Released(Leased(usage[id], "Immediate")).in_flight = 0) \in BOOLEAN  OBVIOUS
  <2>2. QED BY <1>2, <1>10, <2>1 DEF Expire
<1>11. ASSUME NEW id, Retired(id) \/ DeadlinePasses(id) \/ Tick PROVE FALSE
  BY <1>0, <1>11 DEF Retired, DeadlinePasses, Tick
<1>12. ASSUME NEW j, RemoveDue(j) \/ LetGo(j) PROVE FALSE
  BY <1>0, <1>12 DEF RemoveDue, LetGo
<1>13. ASSUME NEW c, NEW ids,
              Unload(c, ids) \/ LoadCompanion(c) \/ PlanCompanion(c) \/ RemoveAnyway(c)
       PROVE  FALSE
  BY <1>0, <1>13 DEF Unload, LoadCompanion, PlanCompanion, RemoveAnyway
<1>14. QED
  BY <1>0, <1>3, <1>4, <1>5, <1>6, <1>7, <1>8, <1>9, <1>10, <1>11, <1>12, <1>13
  DEF Next, MakeRoom, Command, vars

(* A request that ends either leaves its model busy or wakes every load    *)
(* that registered.                                                        *)
LEMMA StepWaits == Typed /\ WaitOK /\ [Next]_vars /\ Move => WaitOK'
<1> SUFFICES ASSUME Typed, WaitOK, [Next]_vars, Move, NEW r \in Requests, Waits(r)'
             PROVE  Busy'
  BY DEF WaitOK
<1>t. /\ residents \subseteq Ids /\ usage \in [Ids -> Usages] /\ Requests \subseteq Ids
      /\ \A i \in Ids : usage[i].in_flight \in Nat
      /\ pc \in [Requests -> Places] /\ lease \in [Requests -> Ids \cup {NoId}]
  BY DEF Typed, TypeOK, Usages, Ids, Places
<1>1. Busy
  <2>1. CASE Waits(r)  BY <2>1 DEF WaitOK
  <2>2. CASE LookWait(r)  BY <2>2, FirstBusyAllBusy DEF LookWait
  <2>3. QED BY <2>1, <2>2, WaitBegins
<1>2. CASE Quiet \/ Ages \/ \E id \in Ids : Goes(id)
  BY <1>t, <1>1, <1>2 DEF Quiet, Ages, Goes, Busy
<1>3. ASSUME NEW q \in Requests, NEW id \in Ids, Answers(q, id) PROVE Busy'
  <2>1. PICK keep \in {"For", "Immediate", "Forever"} :
          usage' = [usage EXCEPT ![id] = Leased(@, keep)]
    BY <1>3 DEF Answers, Lease
  <2>2. Leased(usage[id], keep).in_flight = usage[id].in_flight + 1  BY <1>t, UsageTypes
  <2>3. \A i \in Ids : usage[i].in_flight > 0 => usage'[i].in_flight > 0
    BY <1>t, <2>1, <2>2
  <2>4. residents' = residents  BY <1>3 DEF Answers
  <2>5. QED BY <1>t, <1>1, <2>3, <2>4 DEF Busy
<1>4. ASSUME NEW q \in Requests, LoadInstalls(q) PROVE Busy'
  <2>1. /\ usage' = [usage EXCEPT ![q] = Leased(NewUsage, wish[q].keep_alive)]
        /\ residents' = residents \cup {q}
    BY <1>4 DEF LoadInstalls
  <2>2. Leased(NewUsage, wish[q].keep_alive).in_flight = 1  BY DEF Leased, NewUsage
  <2>3. usage'[q].in_flight > 0 /\ \A i \in Ids \ {q} : usage'[i] = usage[i]
    BY <1>t, <2>1, <2>2
  <2>4. QED BY <1>t, <1>1, <2>1, <2>3 DEF Busy
<1>5. ASSUME NEW q \in Requests, Finish(q) PROVE Busy'
  <2>0. PICK id : id = lease[q]  OBVIOUS
  <2>1. /\ usage' = [usage EXCEPT ![id] = Released(usage[id])]
        /\ load' = Notified(Released(usage[id]).in_flight = 0)
        /\ residents' = residents /\ pc' = [pc EXCEPT ![q] = "done"]
    BY <1>5, <2>0 DEF Finish
  <2>2. Released(usage[id]).in_flight # 0
    <3>1. pc[r] \in {"sleep", "wait"}  BY <1>t, <2>1 DEF Waits
    <3>2. r \in Registered  BY <3>1 DEF Registered
    <3>3. SUFFICES ASSUME Released(usage[id]).in_flight = 0 PROVE FALSE  OBVIOUS
    <3>4. load'[r].woken = TRUE
      BY <2>1, <3>2, <3>3 DEF Notified, Typed, TypeOK
    <3>5. QED BY <3>4 DEF Waits
  <2>3. id \in Ids => Released(usage[id]).in_flight \in Nat
    BY <1>t, UsageTypes DEF Usages
  <2>4. \A i \in Ids : usage[i].in_flight > 0 => usage'[i].in_flight > 0
    BY <1>t, <2>1, <2>2, <2>3
  <2>5. QED BY <1>t, <1>1, <2>1, <2>4 DEF Busy
<1>6. QED BY <1>2, <1>3, <1>4, <1>5 DEF Move

-----------------------------------------------------------------------------
(* Room. *)

(* What is out of the residents and still in memory was taken out by who   *)
(* holds the lock, who does nothing else until it is retired; and who is   *)
(* past making room has a place.                                           *)
RoomOK ==
  /\ Cardinality(residents) + Cardinality(retiring) <= MaxLoaded
  /\ retiring # {} =>
       /\ swap_lock # NoOne /\ retiring = {victim[swap_lock]}
       /\ swap_lock \in Requests => pc[swap_lock] = "room"
  /\ \A r \in Requests :
       swap_lock = r /\ pc[r] \in {"size", "load"} => Cardinality(residents) < MaxLoaded
  /\ \A r \in Requests : pc[r] # "abandoned"

LEMMA Finite ==
  ASSUME Typed
  PROVE  /\ IsFiniteSet(residents) /\ Cardinality(residents) \in Nat
         /\ IsFiniteSet(retiring) /\ Cardinality(retiring) \in Nat
<1>1. IsFiniteSet(Requests) /\ IsFiniteSet({Launch})
  BY ResidentsAssumption, FS_Singleton
<1>2. IsFiniteSet(Ids)  BY <1>1, FS_Union DEF Ids
<1>3. residents \subseteq Ids /\ retiring \subseteq Ids  BY DEF Typed, TypeOK
<1>4. IsFiniteSet(residents) /\ IsFiniteSet(retiring)  BY <1>2, <1>3, FS_Subset
<1>5. QED BY <1>4, FS_CardinalityType

LEMMA StepRoom ==
  ASSUME ~ClientsLeave, Typed, LockOK, HomeOK, RoomOK, [Next]_vars
  PROVE  RoomOK'
<1> USE Apart DEF modelVars, requestVars, janitorVars
<1>t. /\ pc \in [Requests -> Places] /\ victim \in [Procs -> Ids \cup {NoId}]
      /\ Requests \subseteq Procs /\ Janitors \subseteq Procs /\ Commands \subseteq Janitors
  BY DEF Typed, TypeOK, Places, Procs, Janitors
<1>f. /\ IsFiniteSet(residents) /\ Cardinality(residents) \in Nat
      /\ Cardinality(retiring) \in Nat /\ MaxLoaded \in Nat /\ Cardinality({}) = 0
  BY Finite, FS_EmptySet, ResidentsAssumption
<1>0. CASE UNCHANGED vars  BY <1>0 DEF vars, RoomOK
<1>1. ASSUME UNCHANGED <<residents, retiring, victim, swap_lock>>,
             \/ pc' = pc
             \/ \E q \in Requests, p \in Places \ {"size", "load", "abandoned"} :
                  pc' = [pc EXCEPT ![q] = p] /\ swap_lock # q
      PROVE  RoomOK'
  BY <1>t, <1>1 DEF RoomOK
<1>2. ASSUME UNCHANGED <<residents, retiring>>, retiring = {},
             \/ pc' = pc
             \/ \E q \in Requests, p \in Places \ {"size", "load", "abandoned"} :
                  pc' = [pc EXCEPT ![q] = p]
      PROVE  RoomOK'
  <2>1. \A r \in Requests : pc'[r] = pc[r] \/ pc'[r] \notin {"size", "load", "abandoned"}
    BY <1>t, <1>2
  <2>2. QED BY <1>2, <2>1 DEF RoomOK, LockOK, Locked
<1>3. ASSUME NEW j \in Procs, NEW id, NEW allowed, retiring = {},
             remove_generation(j, id, allowed),
             residents' # residents => swap_lock' = j,
             j \in Requests => pc' = [pc EXCEPT ![j] = "room"],
             j \notin Requests => pc' = pc
      PROVE  RoomOK'
  <2>1. CASE ~(id \in residents /\ allowed)
    <3>1. UNCHANGED <<residents, retiring>>  BY <2>1, <1>3 DEF remove_generation
    <3>2. QED BY <1>2, <1>3, <3>1 DEF Places
  <2>2. CASE id \in residents /\ allowed
    <3>1. /\ residents' = residents \ {id} /\ retiring' = {id}
          /\ victim' = [victim EXCEPT ![j] = id] /\ residents' # residents
      BY <1>3, <2>2 DEF remove_generation
    <3>2. /\ Cardinality(residents') = Cardinality(residents) - 1
          /\ Cardinality(retiring') = 1
      BY <1>f, <2>2, <3>1, FS_RemoveElement, FS_Singleton
    <3>3. swap_lock' = j /\ victim'[j] = id /\ j # NoOne
      BY <1>t, <1>3, <3>1, ResidentsAssumption
    <3>4. \A r \in Requests : pc'[r] # "abandoned" /\ (r = j => pc'[r] = "room")
      BY <1>t, <1>3 DEF RoomOK
    <3>5. Cardinality(residents') + Cardinality(retiring') <= MaxLoaded
      BY <1>f, <1>3, <3>2 DEF RoomOK
    <3>6. QED BY <3>1, <3>3, <3>4, <3>5 DEF RoomOK
  <2>3. QED BY <2>1, <2>2
<1>4. ASSUME NEW r \in Requests, pc[r] \in {"queue", "wait"}, swap_lock = NoOne,
             FindOrMakeRoom(r), UNCHANGED <<residents, retiring>>
      PROVE  RoomOK'
  <2>1. retiring = {}  BY <1>4 DEF RoomOK
  <2>2. \E p \in {"serving", "room"} : pc' = [pc EXCEPT ![r] = p]
    BY <1>4 DEF FindOrMakeRoom, Lease
  <2>3. QED BY <1>2, <1>4, <2>1, <2>2 DEF Places
<1>5. ASSUME NEW r \in Requests, LockToLoad(r) \/ Wake(r) PROVE RoomOK'
  <2>1. CASE FindOrMakeRoom(r)  BY <1>4, <1>5, <2>1 DEF LockToLoad, Wake
  <2>2. CASE ~FindOrMakeRoom(r)
    BY <1>1, <1>5, <2>2 DEF LockToLoad, Wake, Places
  <2>3. QED BY <2>1, <2>2
<1>6. ASSUME NEW r \in Requests, NEW name, NEW keep, Ask(r, name, keep) \/ Warm(r, name, keep)
      PROVE  RoomOK'
  <2>1. /\ pc[r] = "new" /\ UNCHANGED <<residents, retiring, victim, swap_lock>>
        /\ \E p \in {"serving", "refused", "queue"} : pc' = [pc EXCEPT ![r] = p]
    BY <1>6 DEF Ask, Warm, Lease
  <2>2. swap_lock # r  BY <2>1 DEF LockOK, Locked
  <2>3. QED BY <1>1, <2>1, <2>2 DEF Places
<1>7. ASSUME NEW r \in Requests, Register(r) PROVE RoomOK'
  <2>1. /\ swap_lock = r /\ victim[r] \notin retiring /\ UNCHANGED <<residents, retiring>>
        /\ pc' = [pc EXCEPT ![r] = "look"]
    BY <1>7 DEF Register, Holds
  <2>2. retiring = {}  BY <2>1 DEF RoomOK
  <2>3. QED BY <1>2, <2>1, <2>2 DEF Places
<1>8. ASSUME NEW r \in Requests,
             LookNoRoom(r) \/ LookBusy(r) \/ LookWait(r) \/ LookEvict(r) \/ Sleep(r)
               \/ SizeTooBig(r) \/ LoadFails(r) \/ LoadShrinks(r)
      PROVE  RoomOK'
  <2>1. /\ swap_lock = r /\ pc[r] # "room" /\ UNCHANGED <<residents, retiring>>
        /\ \E p \in {"refused", "sleep", "evict", "wait", "room"} : pc' = [pc EXCEPT ![r] = p]
    BY <1>8 DEF LookNoRoom, LookBusy, LookWait, LookEvict, Sleep, SizeTooBig, LoadFails,
                LoadShrinks, RefuseLoad, Chosen, Holds
  <2>2. retiring = {}  BY <2>1 DEF RoomOK
  <2>3. QED BY <1>2, <2>1, <2>2 DEF Places
<1>9. ASSUME NEW r \in Requests, LookLoad(r) \/ SizeFits(r) PROVE RoomOK'
  <2>1. /\ swap_lock = r /\ swap_lock' = r /\ pc[r] \in {"look", "size"}
        /\ UNCHANGED <<residents, retiring>>
        /\ \E p \in {"size", "load"} : pc' = [pc EXCEPT ![r] = p]
    BY <1>9 DEF LookLoad, SizeFits, Chosen, Holds
  <2>2. retiring = {}  BY <2>1 DEF RoomOK
  <2>3. Cardinality(residents) < MaxLoaded
    <3>1. CASE LookLoad(r)  BY <1>f, <3>1 DEF LookLoad, NeedsRoom, Full
    <3>2. CASE SizeFits(r)  BY <2>1, <3>2 DEF SizeFits, Holds, RoomOK
    <3>3. QED BY <1>9, <3>1, <3>2
  <2>4. \A q \in Requests : pc'[q] # "abandoned"  BY <1>t, <2>1 DEF RoomOK
  <2>5. QED BY <2>1, <2>2, <2>3, <2>4 DEF RoomOK
<1>10. ASSUME NEW r \in Requests, Evict(r) PROVE RoomOK'
  <2>1. /\ pc[r] = "evict" /\ swap_lock = r /\ swap_lock' = r
        /\ pc' = [pc EXCEPT ![r] = "room"]
        /\ remove_generation(r, victim[r], OneAtATime \/ usage[victim[r]].in_flight = 0)
    BY <1>10 DEF Evict, Holds
  <2>2. retiring = {}  BY <2>1 DEF RoomOK
  <2>3. QED BY <1>3, <1>t, <2>1, <2>2
<1>11. ASSUME NEW r \in Requests, LoadInstalls(r) PROVE RoomOK'
  <2>1. /\ pc[r] = "load" /\ swap_lock = r /\ swap_lock' = NoOne /\ retiring' = retiring
        /\ residents' = residents \cup {r} /\ pc' = [pc EXCEPT ![r] = "serving"]
    BY <1>11 DEF LoadInstalls, Holds
  <2>2. retiring = {} /\ Cardinality(residents) < MaxLoaded  BY <2>1 DEF RoomOK
  <2>3. r \notin residents  BY <2>1 DEF HomeOK, Served
  <2>4. Cardinality(residents') = Cardinality(residents) + 1
    BY <1>f, <2>1, <2>3, FS_AddElement
  <2>5. Cardinality(residents') + Cardinality(retiring') <= MaxLoaded
    BY <1>f, <2>1, <2>2, <2>4
  <2>6. \A q \in Requests : pc'[q] # "abandoned"  BY <1>t, <2>1 DEF RoomOK
  <2>7. QED BY <2>1, <2>2, <2>5, <2>6 DEF RoomOK
<1>12. ASSUME NEW r \in Requests, Finish(r) \/ AbandonedLoadEnds(r) PROVE RoomOK'
  <2>1. /\ pc[r] \notin Locked /\ UNCHANGED <<residents, retiring, victim, swap_lock>>
        /\ \E p \in {"done", "gone"} : pc' = [pc EXCEPT ![r] = p]
    BY <1>12 DEF Finish, AbandonedLoadEnds, Locked
  <2>2. swap_lock # r  BY <2>1 DEF LockOK
  <2>3. QED BY <1>1, <2>1, <2>2 DEF Places
<1>13. ASSUME NEW r, Leave(r) PROVE FALSE  BY <1>13 DEF Leave
<1>14. ASSUME NEW id, Retired(id) PROVE RoomOK'
  <2>1. /\ retiring' = retiring \ {id} /\ id \in retiring
        /\ UNCHANGED <<residents, pc, swap_lock, victim>>
    BY <1>14 DEF Retired
  <2>2. retiring' = {}  BY <2>1 DEF RoomOK
  <2>3. Cardinality(retiring') = 0  BY <1>f, <2>2
  <2>4. Cardinality(residents') + Cardinality(retiring') <= MaxLoaded
    BY <1>f, <2>1, <2>3 DEF RoomOK
  <2>5. QED BY <2>1, <2>2, <2>4 DEF RoomOK
<1>15. ASSUME NEW id, NEW r, NEW c,
              TimeIsUp(r) \/ DeadlinePasses(id) \/ Tick \/ Expire(c, id) \/ PlanCompanion(c)
       PROVE  RoomOK'
  BY <1>1, <1>15 DEF TimeIsUp, DeadlinePasses, Tick, Expire, PlanCompanion
<1>16. ASSUME NEW j \in Janitors, RemoveDue(j) PROVE RoomOK'
  <2>1. PICK id \in todo[j] :
          /\ remove_generation(j, id, Due(usage[id]))
          /\ swap_lock' = IF residents' = residents THEN NoOne ELSE j
    BY <1>16 DEF RemoveDue
  <2>2. pc' = pc /\ swap_lock = NoOne  BY <1>16 DEF RemoveDue
  <2>3. retiring = {}  BY <2>2 DEF RoomOK
  <2>4. Due(usage[id]) \in BOOLEAN /\ j \in Procs /\ j \notin Requests  BY <1>t DEF Due
  <2>5. residents' # residents => swap_lock' = j  BY <2>1
  <2>6. QED BY <1>3, <2>1, <2>2, <2>3, <2>4, <2>5
<1>17. ASSUME NEW c \in Commands, RemoveAnyway(c) PROVE RoomOK'
  <2>1. PICK id \in todo[c] : remove_generation(c, id, TRUE)  BY <1>17 DEF RemoveAnyway
  <2>2. pc' = pc /\ swap_lock = c /\ swap_lock' = c /\ victim[c] \notin retiring
    BY <1>17 DEF RemoveAnyway
  <2>3. retiring = {}  BY <2>2 DEF RoomOK
  <2>4. c \in Procs /\ c \notin Requests  BY <1>t
  <2>5. QED BY <1>3, <2>1, <2>2, <2>3, <2>4
<1>18. ASSUME NEW j \in Janitors, LetGo(j) PROVE RoomOK'
  <2>1. /\ swap_lock = j /\ victim[j] \notin retiring /\ pc' = pc
        /\ UNCHANGED <<residents, retiring>>
    BY <1>18 DEF LetGo
  <2>2. retiring = {}  BY <2>1 DEF RoomOK
  <2>3. QED BY <1>2, <2>1, <2>2
<1>19. ASSUME NEW c, NEW ids, Unload(c, ids) \/ LoadCompanion(c) PROVE RoomOK'
  <2>1. swap_lock = NoOne /\ pc' = pc /\ UNCHANGED <<residents, retiring>>
    BY <1>19 DEF Unload, LoadCompanion
  <2>2. retiring = {}  BY <2>1 DEF RoomOK
  <2>3. QED BY <1>2, <2>1, <2>2
<1>20. QED
  BY <1>0, <1>5, <1>6, <1>7, <1>8, <1>9, <1>10, <1>11, <1>12, <1>13, <1>14, <1>15, <1>16,
     <1>17, <1>18, <1>19
  DEF Next, Arrive, MakeRoom, LoadModel, Command

-----------------------------------------------------------------------------
(* The inductive invariant and what follows from it. *)

Inv == Typed /\ LockOK /\ HomeOK /\ CopyOK /\ LeasesCounted /\ WaitOK
RoomInv == Inv /\ (ClientsLeave \/ RoomOK)

LEMMA InitInv == Init => RoomInv
<1> SUFFICES ASSUME Init PROVE RoomInv  OBVIOUS
<1> USE Apart
<1>1. Typed  BY InitTyped
<1>2. LockOK /\ HomeOK /\ WaitOK
  BY DEF Init, LockOK, HomeOK, WaitOK, Waits, Locked, Served
<1>3. CopyOK  BY DEF Init, CopyOK, OneCopy
<1>4. LeasesCounted
  <2>1. \A id : {r \in Requests : pc[r] = "serving" /\ lease[r] = id} = {}  BY DEF Init
  <2>2. \A id \in Ids : usage[id].in_flight = 0  BY DEF Init, NewUsage
  <2>3. QED BY <2>1, <2>2, FS_EmptySet DEF LeasesCounted
<1>5. RoomOK
  <2>1. /\ retiring = {} /\ Cardinality(retiring) = 0 /\ Cardinality(residents) \in {0, 1}
        /\ \A r \in Requests : pc[r] = "new"
    BY FS_EmptySet, FS_Singleton DEF Init
  <2>2. MaxLoaded \in Nat \ {0}  BY ResidentsAssumption
  <2>3. Cardinality(residents) + Cardinality(retiring) <= MaxLoaded  BY <2>1, <2>2
  <2>4. QED BY <2>1, <2>3 DEF RoomOK
<1>6. QED BY <1>1, <1>2, <1>3, <1>4, <1>5 DEF Inv, RoomInv

LEMMA StepInv == RoomInv /\ [Next]_vars => RoomInv'
<1> SUFFICES ASSUME RoomInv, [Next]_vars PROVE RoomInv'  OBVIOUS
<1>1. Move  BY Moves DEF RoomInv, Inv
<1>2. Inv'
  BY <1>1, StepTyped, StepLock, StepHome, StepCopy, StepLeases, StepWaits DEF RoomInv, Inv
<1>3. ClientsLeave \/ RoomOK'  BY StepRoom DEF RoomInv, Inv
<1>4. QED BY <1>2, <1>3 DEF RoomInv

LEMMA ResidentsInvariant == Spec => []RoomInv
BY InitInv, StepInv, PTL DEF Spec

(* No file is loaded twice, whatever names it is asked for under           *)
(* (lease_loaded under swap_lock).                                         *)
THEOREM OneCopyOfAFile == Spec => []OneCopy
<1>1. RoomInv => OneCopy  BY DEF RoomInv, Inv, CopyOK
<1>2. QED BY <1>1, ResidentsInvariant, PTL

(* A model's in_flight is the number of requests it is answering, also     *)
(* after it was unloaded under them (Usage::lease, Lease::drop).           *)
THEOREM LeasesAreCounted == Spec => []LeasesCounted
<1>1. RoomInv => LeasesCounted  BY DEF RoomInv, Inv
<1>2. QED BY <1>1, ResidentsInvariant, PTL

(* No load sleeps through the end of the request it waits for (make_room   *)
(* registers with `idle` before it reads the residents).                   *)
THEOREM WakeUpsArrive == Spec => []NoLostWakeup
<1>1. RoomInv => NoLostWakeup
  BY DEF RoomInv, Inv, WaitOK, Waits, Busy, NoLostWakeup
<1>2. QED BY <1>1, ResidentsInvariant, PTL

(* Never more than --max-loaded-models in memory, the models still being   *)
(* retired and the one being loaded included.                              *)
THEOREM LimitKept == Spec => []NeverTooMany
<1>1. RoomInv => NeverTooMany
  <2> SUFFICES ASSUME RoomInv, ~ClientsLeave PROVE InMemory <= MaxLoaded
    BY DEF NeverTooMany
  <2> DEFINE loading == {r \in Requests : pc[r] \in {"load", "abandoned"}}
  <2>1. Typed /\ LockOK /\ RoomOK  BY DEF RoomInv, Inv
  <2>2. /\ Cardinality(residents) \in Nat /\ Cardinality(retiring) \in Nat
        /\ MaxLoaded \in Nat
    BY <2>1, Finite, ResidentsAssumption
  <2>3. \A r \in loading : pc[r] = "load" /\ swap_lock = r
    BY <2>1 DEF RoomOK, LockOK, Locked
  <2>4. CASE loading = {}
    BY <2>1, <2>2, <2>4, FS_EmptySet DEF InMemory, RoomOK
  <2>5. CASE loading # {}
    <3>1. PICK r \in Requests : pc[r] = "load" /\ swap_lock = r /\ loading = {r}
      BY <2>3, <2>5
    <3>2. Cardinality(loading) = 1  BY <3>1, FS_Singleton
    <3>3. retiring = {} /\ Cardinality(residents) < MaxLoaded  BY <2>1, <3>1 DEF RoomOK
    <3>4. Cardinality(retiring) = 0  BY <3>3, FS_EmptySet
    <3>5. QED BY <2>2, <3>2, <3>3, <3>4 DEF InMemory
  <2>6. QED BY <2>4, <2>5
<1>2. QED BY <1>1, ResidentsInvariant, PTL

-----------------------------------------------------------------------------
(* Who goes, step by step. *)

LEMMA OnlyRemovals ==
  ASSUME Typed, [Next]_vars, NEW id \in residents, id \notin residents'
  PROVE  \/ \E r \in Requests : Evict(r) /\ id = victim[r]
         \/ \E j \in Janitors : /\ RemoveDue(j) /\ swap_lock' = j /\ doing[j] = "due"
                                /\ Due(usage[id])
         \/ \E c \in Commands : /\ RemoveAnyway(c) /\ swap_lock = c /\ swap_lock' = c
                                /\ doing[c] \in {"unload", "companion"}
<1> USE DEF modelVars
<1>1. ASSUME NEW j \in Janitors, RemoveDue(j)
      PROVE  swap_lock' = j /\ doing[j] = "due" /\ Due(usage[id])
  <2>1. PICK i \in todo[j] :
          /\ remove_generation(j, i, Due(usage[i]))
          /\ swap_lock' = IF residents' = residents THEN NoOne ELSE j
    BY <1>1 DEF RemoveDue
  <2>2. residents' # residents  OBVIOUS
  <2>3. id = i /\ Due(usage[i])  BY <2>1, <2>2 DEF remove_generation
  <2>4. QED BY <1>1, <2>1, <2>2, <2>3 DEF RemoveDue
<1>2. ASSUME NEW r \in Requests, Evict(r) PROVE id = victim[r]
  BY <1>2 DEF Evict, remove_generation
<1>3. ASSUME NEW c \in Commands, RemoveAnyway(c)
      PROVE  swap_lock = c /\ swap_lock' = c /\ doing[c] \in {"unload", "companion"}
  BY <1>3 DEF RemoveAnyway
<1>4. ASSUME NEW r \in Requests, ~Evict(r),
             \/ Arrive(r) \/ LockToLoad(r) \/ Wake(r) \/ MakeRoom(r) \/ LoadModel(r)
             \/ Finish(r) \/ TimeIsUp(r) \/ Leave(r) \/ AbandonedLoadEnds(r)
      PROVE  FALSE
  BY <1>4 DEF Arrive, Ask, Warm, LockToLoad, Wake, MakeRoom, Register, LookNoRoom, LookBusy,
              LookWait, LookEvict, LookLoad, Sleep, LoadModel, SizeFits, SizeTooBig, LoadFails,
              LoadShrinks, LoadInstalls, RefuseLoad, Chosen, Finish, TimeIsUp, Leave,
              AbandonedLoadEnds
<1>5. ASSUME NEW i, NEW j, NEW c, NEW ids,
             \/ Retired(i) \/ DeadlinePasses(i) \/ Tick \/ LetGo(j) \/ Expire(c, i)
             \/ Unload(c, ids) \/ LoadCompanion(c) \/ PlanCompanion(c)
      PROVE  FALSE
  BY <1>5 DEF Retired, DeadlinePasses, Tick, LetGo, Expire, Unload, LoadCompanion,
              PlanCompanion
<1>6. UNCHANGED vars => FALSE  BY DEF vars
<1>7. QED BY <1>1, <1>2, <1>3, <1>4, <1>5, <1>6 DEF Next, Command

(* With room for several, only an unload or a companion takes a model from *)
(* under a request: make_room reads in_flight again under the write guard. *)
THEOREM BusyModelsStay == Spec => BusyStays
<1>1. Typed /\ [Next]_vars =>
        \A id \in residents \ residents' :
          usage[id].in_flight > 0 =>
            OneAtATime \/ \E c \in Commands :
                            swap_lock = c /\ doing[c] \in {"unload", "companion"}
  <2> SUFFICES ASSUME Typed, [Next]_vars, NEW id \in residents \ residents',
                      usage[id].in_flight > 0, ~OneAtATime
               PROVE  \E c \in Commands :
                        swap_lock = c /\ doing[c] \in {"unload", "companion"}
    OBVIOUS
  <2>1. ASSUME NEW r \in Requests, Evict(r), id = victim[r] PROVE FALSE
    <3>1. usage[id].in_flight = 0
      BY <2>1 DEF Evict, remove_generation, modelVars
    <3>2. QED BY <3>1
  <2>2. ~Due(usage[id])  BY DEF Due
  <2>3. QED BY <2>1, <2>2, OnlyRemovals
<1>2. Typed /\ [Next]_vars => [\A id \in residents \ residents' :
          usage[id].in_flight > 0 =>
            OneAtATime \/ \E c \in Commands :
                            swap_lock = c /\ doing[c] \in {"unload", "companion"}]_vars
  BY <1>1
<1>3. QED BY <1>2, InitTyped, StepTyped, PTL DEF Spec, BusyStays

(* The idle-unload loop and a request's keep_alive 0 take a model only if  *)
(* it is due when it goes (Removal::IfDue).                                *)
THEOREM KeepAliveIsKept == Spec => KeepAliveKept
<1>1. Typed /\ [Next]_vars =>
        \A id \in residents \ residents' :
          (\E j \in Janitors : j = swap_lock' /\ doing[j] = "due") => Due(usage[id])
  <2> SUFFICES ASSUME Typed, [Next]_vars, NEW id \in residents \ residents',
                      NEW j \in Janitors, j = swap_lock', doing[j] = "due"
               PROVE  Due(usage[id])
    OBVIOUS
  <2>1. ASSUME NEW r \in Requests, Evict(r) PROVE FALSE
    BY <2>1, Apart DEF Evict, Holds
  <2>2. QED BY <2>1, OnlyRemovals
<1>2. Typed /\ [Next]_vars =>
        [\A id \in residents \ residents' :
          (\E j \in Janitors : j = swap_lock' /\ doing[j] = "due") => Due(usage[id])]_vars
  BY <1>1
<1>3. QED BY <1>2, InitTyped, StepTyped, PTL DEF Spec, KeepAliveKept
=============================================================================
