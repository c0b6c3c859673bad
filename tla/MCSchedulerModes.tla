-------------------------- MODULE MCSchedulerModes --------------------------
(* Both ways the scheduler reads prompts (l.2023), each with the slots it  *)
(* has there: whole with one, inside the steps with several.  The slots    *)
(* there are say which.                                                    *)
EXTENDS Scheduler

CONSTANT MoreSlots   (* Slots and others                                   *)

Steps == INSTANCE Scheduler WITH Chunked <- TRUE, Slots <- MoreSlots

InSteps == DOMAIN idle_slots = MoreSlots

ModesInit == Init \/ Steps!Init

(* A prompt that was read whole ends in BeginWhole, and no other does.     *)
ThreadOfMode ==
  \/ ~InSteps /\ Thread
  \/ InSteps /\ Steps!Thread
  \/ \E r \in Requests : BeginWhole(r)

HandlersOfMode ==
  \/ ~InSteps /\ Handlers
  \/ InSteps /\ Steps!Handlers

ModesNext == ThreadOfMode \/ HandlersOfMode

ModesSpec ==
  /\ ModesInit /\ [][ModesNext]_vars
  /\ WF_vars(ThreadOfMode)
  /\ \A r \in Requests : WF_vars(Notify(r)) /\ WF_vars(Receive(r))

(* Service's promise to serve everyone, with as many served at once as     *)
(* there are slots at most (Scheduler!ServesEveryone).                     *)
BothServeEveryone == Steps!ServesEveryone
=============================================================================
