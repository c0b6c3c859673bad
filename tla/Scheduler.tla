----------------------------- MODULE Scheduler -----------------------------
(***************************************************************************)
(* The continuous-batching scheduler: engine/src/inference/scheduler.rs.   *)
(*                                                                         *)
(* Request handlers submit on a bounded queue; one decode thread takes     *)
(* requests off it into slots (llama.cpp sequence ids), reads their        *)
(* prompts inside the decode steps of the answers, hands the sampled       *)
(* tokens to the clients' bounded channels, and gives every slot back.     *)
(*                                                                         *)
(* What is abstracted.  A token, a piece of text and a logit row carry no  *)
(* value: whether a sampled token ends the answer, fails it or continues   *)
(* it is a nondeterministic choice.  What a slot's KV cache holds is the   *)
(* business of module SlotCache; here a reused prefix is any number of     *)
(* leading prompt tokens that leaves one to read.  The speculative step    *)
(* (--mtp) is in SlotCache too.                                            *)
(***************************************************************************)
EXTENDS Naturals, Sequences, FiniteSets, FiniteSetsExt

CONSTANTS
  Requests,       (* the requests handlers may submit, each at most once   *)
  Slots,          (* the sequence ids 0 .. max_batch_size - 1              *)
  NoSlot,         (* not a slot: a request that was never admitted         *)
  QueueCapacity,  (* SchedulerConfig::queue_capacity                       *)
  ChanCapacity,   (* events a response channel holds (256 in the code)     *)
  NBatch,         (* ctx.n_batch(): tokens one decode call takes           *)
  NUBatch,        (* ctx.n_ubatch(): tokens the device reads in one pass   *)
  MaxPrompt,      (* bound: tokens of a prompt                             *)
  MaxTokens,      (* effective_max: tokens of an answer                    *)
  Chunked,        (* prompts are read inside the steps (l.2023)            *)
  KeepStates,     (* a hybrid or recurrent model, which cuts prompt reads  *)
  MayShutdown     (* the handle's owner may call shutdown                  *)

(* clap and batch_for_ubatch keep 32 <= n_ubatch <= n_batch; the queue and *)
(* the channel hold at least one item.                                     *)
ASSUME SizesAssumption ==
  /\ QueueCapacity \in Nat \ {0}
  /\ ChanCapacity \in Nat \ {0}
  /\ NBatch \in Nat /\ NUBatch \in Nat
  /\ 2 <= NUBatch /\ NUBatch <= NBatch
  /\ MaxPrompt \in Nat \ {0}
  /\ MaxTokens \in Nat \ {0}

ASSUME SlotsAssumption ==
  /\ IsFiniteSet(Slots) /\ Slots # {}
  /\ IsFiniteSet(Requests)
  /\ NoSlot \notin Slots

ASSUME FlagsAssumption ==
  Chunked \in BOOLEAN /\ KeepStates \in BOOLEAN /\ MayShutdown \in BOOLEAN

VARIABLES
  (* Shared with the request handlers. *)
  client,         (* what each request's handler is doing                  *)
  req_rx,         (* the queue                                             *)
  chan,           (* each response channel: pieces and a last event in it  *)
  shutdown,       (* the shutdown flag                                     *)
  handles,        (* some SchedulerHandle is alive                         *)
  (* Locals of run_scheduler_loop. *)
  pc,             (* where the loop is                                     *)
  idle_slots,     (* how many times each slot is in idle_slots             *)
  active,         (* requests being answered                               *)
  prefilling,     (* requests whose prompt is being read                   *)
  parts,          (* prompts with a part in the step being processed       *)
  unsampled,      (* active requests step 5 has yet to sample              *)
  seq_id,         (* ActiveSequence::seq_id of a request holding a slot    *)
  generated,      (* ActiveSequence::tokens_generated                      *)
  prompt,         (* PendingPrefill and PromptPart of one being read       *)
  last_events     (* history: Done and Error events sent, or tried         *)

sharedVars == <<client, req_rx, chan, shutdown, handles>>
poolVars   == <<idle_slots, active, prefilling, parts, unsampled>>
seqVars    == <<seq_id, generated, prompt>>
vars == <<sharedVars, pc, poolVars, seqVars, last_events>>

-----------------------------------------------------------------------------
(* The requests in the queue, those holding a slot, and those whose sender *)
(* still exists: a channel is closed when its sender goes.                 *)
Queued   == {req_rx[i] : i \in DOMAIN req_rx}
InSlot   == active \cup prefilling \cup parts
Accepted == {r \in Requests : client[r] \notin {"new", "refused"}}
Over     == Accepted \ (Queued \cup InSlot)

(* The client's receiver is dropped: it left, or has read the last event.  *)
RxDropped(r) == client[r] \in {"left", "ended"}

Events   == [pieces : 0..ChanCapacity, last : {"none", "done", "error"}]
NoEvents == [pieces |-> 0, last |-> "none"]

(* A response channel after `k` try_sends of a piece and, unless `last` is *)
(* "none", one of a last event.  try_send on a full or closed channel      *)
(* leaves it as it is, and nobody looks at the error (send_done, the tail  *)
(* at max_tokens, every Error).                                            *)
TrySend(r, k, last) ==
  LET c      == chan[r]
      closed == IF c.last = "none" THEN 0 ELSE 1
      room   == ChanCapacity - (c.pieces + closed)
      sent   == IF k <= room THEN k ELSE room
  IN  IF RxDropped(r) THEN c
      ELSE [pieces |-> c.pieces + sent,
            last   |-> IF last # "none" /\ sent < room THEN last ELSE c.last]

(* What is known of a prompt being read: its tokens, how many of them are  *)
(* in the KV cache, how far the step in progress reads it, whether it is   *)
(* read on its own, whether its reused prefix may still be given up, and   *)
(* the prompts and answers that `start`ed before it.                       *)
Prompts  == [n : 0..MaxPrompt, cursor : 0..MaxPrompt, to : 0..MaxPrompt,
             apart : BOOLEAN, may_fall_back : BOOLEAN, earlier : SUBSET Requests]
NoPrompt == [n |-> 0, cursor |-> 0, to |-> 0, apart |-> FALSE,
             may_fall_back |-> FALSE, earlier |-> {}]

(* A request's slot is pushed back on idle_slots (finish_clean and         *)
(* finish_wiped as the pool sees them), and its sequence is dropped.       *)
GiveBack(S) ==
  /\ idle_slots' = [s \in Slots |-> IF \E r \in S : seq_id[r] = s
                                      THEN idle_slots[s] + 1 ELSE idle_slots[s]]
  /\ seq_id' = [r \in Requests |-> IF r \in S THEN NoSlot ELSE seq_id[r]]

Forget(S, p) ==
  [r \in Requests |-> IF r \in S THEN NoPrompt
                      ELSE [p[r] EXCEPT !.earlier = @ \ S]]

(* Every request of `S` is sent an Error.                                  *)
FailAll(S) ==
  /\ chan' = [r \in Requests |-> IF r \in S THEN TrySend(r, 0, "error")
                                            ELSE chan[r]]
  /\ last_events' = [r \in Requests |-> IF r \in S THEN last_events[r] + 1
                                                   ELSE last_events[r]]
-----------------------------------------------------------------------------
(* The request handlers. *)

(* Slip: the newest request is served first.                               *)
SubmitInFront(r) ==
  /\ client[r] = "new" /\ handles
  /\ IF pc = "gone" \/ Len(req_rx) = QueueCapacity
       THEN client' = [client EXCEPT ![r] = "refused"] /\ UNCHANGED req_rx
       ELSE /\ client' = [client EXCEPT ![r] = "sending"]
            /\ req_rx' = <<r>> \o req_rx
  /\ UNCHANGED <<chan, shutdown, handles, pc, poolVars, seqVars, last_events>>

(* try_submit, first half: the bounded queue takes the request or refuses  *)
(* it, full (QueueFull) or without its receiver (Unloaded).                *)
Submit(r) ==
  /\ client[r] = "new" /\ handles
  /\ IF pc = "gone" \/ Len(req_rx) = QueueCapacity
       THEN client' = [client EXCEPT ![r] = "refused"] /\ UNCHANGED req_rx
       ELSE /\ client' = [client EXCEPT ![r] = "sending"]
            /\ req_rx' = Append(req_rx, r)
  /\ UNCHANGED <<chan, shutdown, handles, pc, poolVars, seqVars, last_events>>

(* try_submit, second half: notify_one wakes the thread only if it waits.  *)
Notify(r) ==
  /\ client[r] = "sending"
  /\ client' = [client EXCEPT ![r] = "waiting"]
  /\ pc' = IF pc = "asleep" THEN "top" ELSE pc
  /\ UNCHANGED <<req_rx, chan, shutdown, handles, poolVars, seqVars, last_events>>

(* The client reads its next event; with none left and the sender gone, or *)
(* after a last event, its stream is over.                                 *)
Receive(r) ==
  /\ client[r] = "waiting"
  /\ \/ /\ chan[r].pieces > 0
        /\ chan' = [chan EXCEPT ![r].pieces = @ - 1]
        /\ UNCHANGED client
     \/ /\ chan[r].pieces = 0
        /\ chan[r].last # "none" \/ r \in Over
        /\ client' = [client EXCEPT ![r] = "ended"]
        /\ chan' = [chan EXCEPT ![r] = NoEvents]
  /\ UNCHANGED <<req_rx, shutdown, handles, pc, poolVars, seqVars, last_events>>

(* The client goes away: its receiver is dropped.                          *)
Leave(r) ==
  /\ client[r] = "waiting"
  /\ client' = [client EXCEPT ![r] = "left"]
  /\ chan' = [chan EXCEPT ![r] = NoEvents]
  /\ UNCHANGED <<req_rx, shutdown, handles, pc, poolVars, seqVars, last_events>>

(* SchedulerHandle::shutdown: the flag is set and the thread woken.        *)
RequestShutdown ==
  /\ MayShutdown /\ handles /\ ~shutdown
  /\ shutdown' = TRUE
  /\ pc' = IF pc = "asleep" THEN "top" ELSE pc
  /\ UNCHANGED <<client, req_rx, chan, handles, poolVars, seqVars, last_events>>

(* The last handle is dropped: nobody submits any more.                    *)
DropHandles ==
  /\ handles /\ \A r \in Requests : client[r] # "sending"
  /\ handles' = FALSE
  /\ UNCHANGED <<client, req_rx, chan, shutdown, pc, poolVars, seqVars, last_events>>
-----------------------------------------------------------------------------
(* Steps 0 to 2 of the loop: shutdown, admission, waiting.                 *)

(* Step 0: the flag is read; when set, whoever holds a slot gets an Error. *)
Top ==
  /\ pc = "top"
  /\ IF shutdown
       THEN FailAll(active \cup prefilling) /\ pc' = "drain"
       ELSE pc' = "admit" /\ UNCHANGED <<chan, last_events>>
  /\ UNCHANGED <<client, req_rx, shutdown, handles, poolVars, seqVars>>

(* Step 0 goes on: one queued request after the other is told the model    *)
(* was unloaded, until the queue is found empty and the loop returns.      *)
Drain ==
  /\ pc = "drain"
  /\ IF req_rx # <<>>
       THEN /\ FailAll({Head(req_rx)})
            /\ req_rx' = Tail(req_rx)
            /\ UNCHANGED <<pc, active, prefilling>>
       ELSE /\ pc' = "teardown"
            /\ active' = {} /\ prefilling' = {}
            /\ UNCHANGED <<req_rx, chan, last_events>>
  /\ UNCHANGED <<client, shutdown, handles, idle_slots, parts, unsampled,
                 seqVars>>

(* The locals are dropped (context, model), then the parameters: from now  *)
(* on nobody takes from the queue.  What was queued meanwhile stays in it  *)
(* while a handle lives, is never told, and its client waits.              *)
DropReceiver ==
  /\ pc = "teardown"
  /\ pc' = "gone"
  /\ UNCHANGED <<sharedVars, poolVars, seqVars, last_events>>

(* The guard of step 1's loop.                                             *)
HasRoom == Cardinality(active) + Cardinality(prefilling) < Cardinality(Slots)

(* Slip: the request is dropped without a word.                            *)
RefuseSilently ==
  /\ pc = "admit" /\ HasRoom /\ req_rx # <<>>
  /\ req_rx' = Tail(req_rx)
  /\ UNCHANGED <<client, chan, shutdown, handles, pc, poolVars, seqVars, last_events>>

(* Step 1, a request that goes no further: its prompt does not tokenize or *)
(* is empty, or the prefill cannot be set up (finish_wiped: the slot taken *)
(* goes back at once).                                                     *)
RefuseHead ==
  /\ pc = "admit" /\ HasRoom /\ req_rx # <<>>
  /\ FailAll({Head(req_rx)})
  /\ req_rx' = Tail(req_rx)
  /\ UNCHANGED <<client, shutdown, handles, pc, poolVars, seqVars>>

(* Step 1, `r` given slot `s`, `reuse` of its `n` tokens being in the slot *)
(* already.  A reuse the context rejected was replaced by what             *)
(* fall_back_from_reuse restored, and there is no second fall-back.  With  *)
(* one slot, or --mtp, the prompt is read whole (prefill_sequence) and its *)
(* first token handed over before the next request is looked at.           *)
Admit(r, s, n, reuse, fell_back) ==
  /\ idle_slots[s] > 0
  /\ idle_slots' = [idle_slots EXCEPT ![s] = @ - 1]
  /\ seq_id' = [seq_id EXCEPT ![r] = s]
  /\ IF Chunked
       THEN /\ prompt' = [prompt EXCEPT ![r] =
                 [n |-> n, cursor |-> reuse, to |-> 0, apart |-> FALSE,
                  may_fall_back |-> reuse > 0 /\ ~fell_back,
                  earlier |-> prefilling]]
            /\ prefilling' = prefilling \cup {r}
            /\ UNCHANGED <<pc, parts>>
       ELSE /\ parts' = {r}
            /\ pc' = "first"
            /\ UNCHANGED <<prefilling, prompt>>
  /\ UNCHANGED generated

(* Step 1, the next request is taken; should no slot be idle ("should not  *)
(* happen"), it is dropped and the loop left.                              *)
AdmitHead ==
  /\ pc = "admit" /\ HasRoom /\ req_rx # <<>>
  /\ req_rx' = Tail(req_rx)
  /\ IF \A s \in Slots : idle_slots[s] = 0
       THEN /\ pc' = IF active = {} /\ prefilling = {} THEN "lock" ELSE "step"
            /\ UNCHANGED <<idle_slots, prefilling, parts, seqVars>>
       ELSE \E s \in Slots, n \in 1..MaxPrompt, fell_back \in BOOLEAN :
            \E reuse \in 0..(n - 1) : Admit(Head(req_rx), s, n, reuse, fell_back)
  /\ UNCHANGED <<client, chan, shutdown, handles, active, unsampled, last_events>>

(* Step 1 ends: the queue is empty or every slot is taken.  With nothing   *)
(* to do the thread goes on to wait (step 2), else to its next step.       *)
AdmitNone ==
  /\ pc = "admit"
  /\ ~HasRoom \/ (req_rx = <<>> /\ handles)
  /\ pc' = IF active = {} /\ prefilling = {} THEN "lock" ELSE "step"
  /\ UNCHANGED <<sharedVars, poolVars, seqVars, last_events>>

(* Step 1 finds the queue closed: everybody in a slot gets an Error and    *)
(* the loop returns.                                                       *)
Disconnected ==
  /\ pc = "admit" /\ HasRoom /\ req_rx = <<>> /\ ~handles
  /\ FailAll(active \cup prefilling)
  /\ active' = {} /\ prefilling' = {}
  /\ pc' = "gone"
  /\ UNCHANGED <<client, req_rx, shutdown, handles, idle_slots, parts,
                 unsampled, seqVars>>

(* Step 2: the mutex is taken after the queue was found empty, so that a   *)
(* notification sent in between wakes nobody.                              *)
Sleep ==
  /\ pc = "lock"
  /\ pc' = "asleep"
  /\ UNCHANGED <<sharedVars, poolVars, seqVars, last_events>>

(* Slip: the wait has no timeout.                                          *)
WaitForever ==
  /\ pc = "asleep"
  /\ UNCHANGED vars

(* The wait ends by itself after 100 ms.                                   *)
WaitTimeout ==
  /\ pc = "asleep"
  /\ pc' = "top"
  /\ UNCHANGED <<sharedVars, poolVars, seqVars, last_events>>
-----------------------------------------------------------------------------
(* Steps 3 and 4: the decode step.                                         *)

(* prompt_budget: prompt tokens a step reads beside `answering` answers.   *)
NextMultiple(x, m) == ((x + m - 1) \div m) * m
Least(a, b)    == IF a <= b THEN a ELSE b
Greatest(a, b) == IF a >= b THEN a ELSE b
Minus(a, b)    == IF a >= b THEN a - b ELSE 0      (* saturating_sub *)

(* Slip: a prompt is given as much beside answers as without.              *)
PromptBudgetAlone(answering, oldest) ==
  Least(NextMultiple(Greatest(oldest, 1), NUBatch), NBatch)

PromptBudget(answering, oldest) ==
  IF answering = 0
    THEN Least(NextMultiple(Greatest(oldest, 1), NUBatch), NBatch)
    ELSE Least(Greatest(Minus(NUBatch, answering), NUBatch \div 2),
               Minus(NBatch, answering))

Left(r)  == prompt[r].n - prompt[r].cursor
Apart(S) == {r \in S : prompt[r].apart}

(* The prompt of `S` that arrived first: the order of the queue, which     *)
(* every stage restores (sort_by_key start).                               *)
IsFirst(r, S) == r \in S /\ prompt[r].earlier \cap S = {}
First(S)      == CHOOSE r \in S : IsFirst(r, S)

(* The tokens that `f` gives the prompts of `S`.                           *)
Total(f, S) == MapThenSumSet(LAMBDA q : f[q], S)

(* Slip: the prompts are not kept in their order, and a newer one is read  *)
(* first.                                                                  *)
SharesUnsorted(R, budget) ==
  {f \in [R -> 0..MaxPrompt] : \A r \in R :
     LET newer == {q \in R : r \in prompt[q].earlier}
         room  == Minus(budget, Total(f, newer))
     IN  /\ f[r] <= Left(r) /\ f[r] <= room
         /\ IF KeepStates THEN room > 0 => f[r] > 0 ELSE f[r] \in {Left(r), room}}

(* How far each prompt of `R` is read in a step of `budget` prompt tokens: *)
(* oldest first, each as far as the budget left allows.  Where the model's *)
(* state is kept for later prompts a read ends at the next cut (next_cut), *)
(* wherever past the cursor that is.                                       *)
Shares(R, budget) ==
  {f \in [R -> 0..MaxPrompt] : \A r \in R :
     LET before == R \cap prompt[r].earlier
         room   == Minus(budget, Total(f, before))
     IN  /\ f[r] <= Left(r) /\ f[r] <= room
         /\ IF KeepStates THEN room > 0 => f[r] > 0 ELSE f[r] \in {Left(r), room}}

(* The stage after a step's decode: sampling, then the prompts read, then  *)
(* a prompt set apart, each only if there is one.                          *)
Stage(unsampled_, parts_, apart_) ==
  IF unsampled_ # {} THEN "sample"
  ELSE IF parts_ # {} THEN "parts"
  ELSE IF apart_ # {} THEN "apart" ELSE "top"

(* The waiting prompts whose client left: the step wipes them.             *)
Gone == {r \in prefilling : RxDropped(r)}

(* Step 4 goes through: `f` says how far each prompt was read.             *)
Decoded(f) ==
  LET read == {r \in DOMAIN f : f[r] > 0}
      left == Forget(Gone, prompt)
  IN  /\ parts' = read
      /\ prefilling' = (prefilling \ Gone) \ read
      /\ prompt' = [r \in Requests |-> IF r \in read
                     THEN [left[r] EXCEPT !.to = left[r].cursor + f[r]] ELSE left[r]]
      /\ GiveBack(Gone)
      /\ unsampled' = active
      /\ pc' = Stage(active, read, Apart(prefilling \ Gone))
      /\ UNCHANGED <<active, generated, chan, last_events>>

(* Step 4 fails with prompts in it: they go back to be read on their own.  *)
SetApart(f) ==
  LET read == {r \in DOMAIN f : f[r] > 0}
      left == Forget(Gone, prompt)
  IN  /\ prompt' = [r \in Requests |-> IF r \in read
                     THEN [left[r] EXCEPT !.apart = TRUE] ELSE left[r]]
      /\ prefilling' = prefilling \ Gone

(* Slip: the slots of the answers that failed are not given back.          *)
FailAnswersLeaking ==
  /\ FailAll(active)
  /\ GiveBack(Gone)
  /\ generated' = [r \in Requests |-> IF r \in active THEN 0 ELSE generated[r]]
  /\ active' = {}

(* Step 4 fails for good: every answer ends in an Error, and its slot goes *)
(* back with those of the prompts whose client left.                       *)
FailAnswers ==
  /\ FailAll(active)
  /\ GiveBack(Gone \cup active)
  /\ generated' = [r \in Requests |-> IF r \in active THEN 0 ELSE generated[r]]
  /\ active' = {}

(* Step 3: the prompts whose client left are wiped; the others, unless set *)
(* apart, get their part.  Step 4: the batch is decoded, the prompts with  *)
(* it; or it fails, its prompts are set apart and it is decoded again      *)
(* without them; or that fails too (at once, with no prompt in it).  An    *)
(* empty batch is not decoded.                                             *)
Step ==
  /\ pc = "step"
  /\ LET whole  == prefilling \ Apart(prefilling)
         oldest == IF whole = {} THEN 0 ELSE Left(First(whole))
         budget == PromptBudget(Cardinality(active), oldest)
     IN \E f \in Shares(whole \ Gone, budget) :
        \/ Decoded(f)
        \/ /\ \E r \in DOMAIN f : f[r] > 0
           /\ SetApart(f)
           /\ GiveBack(Gone)
           /\ unsampled' = active
           /\ pc' = IF active = {} THEN "apart" ELSE "sample"
           /\ UNCHANGED <<parts, active, generated, chan, last_events>>
        \/ /\ active # {}
           /\ SetApart(f) /\ FailAnswers
           /\ pc' = "top"
           /\ UNCHANGED <<parts, unsampled>>
  /\ UNCHANGED <<client, req_rx, shutdown, handles>>
-----------------------------------------------------------------------------
(* Steps 5 to 7: what was decoded is handed out.                           *)

(* Slip: the slot of a client found gone is not given back.                *)
FinishLeaking(r, k, last) ==
  /\ chan' = [chan EXCEPT ![r] = TrySend(r, k, last)]
  /\ last_events' = [last_events EXCEPT ![r] = IF last = "none" THEN @ ELSE @ + 1]
  /\ GiveBack(IF last = "none" THEN {} ELSE {r})
  /\ generated' = [generated EXCEPT ![r] = 0]
  /\ active' = active \ {r}

(* The answer of `r` ends: `k` pieces and a last event are tried, and the  *)
(* slot goes back.                                                         *)
Finish(r, k, last) ==
  /\ chan' = [chan EXCEPT ![r] = TrySend(r, k, last)]
  /\ last_events' = [last_events EXCEPT ![r] = IF last = "none" THEN @ ELSE @ + 1]
  /\ GiveBack({r})
  /\ generated' = [generated EXCEPT ![r] = 0]
  /\ active' = active \ {r}

(* One sampled token, for begin_generation, step 5 and emit_token: a NaN   *)
(* logit or an undecodable token is an Error; end of generation, or a stop *)
(* sequence with the text before it, a Done; the client found gone, no     *)
(* event at all; the last token allowed, a Done after its piece and the    *)
(* text held back; any other, a piece or none while it is held back.       *)
HandOver(r) ==
  \/ Finish(r, 0, "error")
  \/ \E k \in 0..1 : Finish(r, k, "done")
  \/ RxDropped(r) /\ Finish(r, 0, "none")
  \/ /\ ~RxDropped(r) /\ generated[r] + 1 >= MaxTokens
     /\ \E k \in 0..2 : Finish(r, k, "done")
  \/ /\ ~RxDropped(r) /\ generated[r] + 1 < MaxTokens
     /\ generated' = [generated EXCEPT ![r] = @ + 1]
     /\ \E k \in 0..1 : chan' = [chan EXCEPT ![r] = TrySend(r, k, "none")]
     /\ active' = active \cup {r}
     /\ UNCHANGED <<idle_slots, seq_id, last_events>>

(* Step 5: an answering sequence's token is sampled and handed over.       *)
Sample(r) ==
  /\ pc = "sample" /\ r \in unsampled
  /\ HandOver(r)
  /\ unsampled' = unsampled \ {r}
  /\ pc' = Stage(unsampled', parts, Apart(prefilling))
  /\ UNCHANGED <<client, req_rx, shutdown, handles, prefilling, parts, prompt>>

(* Step 6': a prompt's part was read.  A prompt read whole starts its      *)
(* answer; another waits for its next part.                                *)
FinishPart(r) ==
  /\ pc = "parts" /\ r \in parts
  /\ parts' = parts \ {r}
  /\ IF prompt[r].to < prompt[r].n
       THEN /\ prompt' = [prompt EXCEPT ![r].cursor = prompt[r].to, ![r].to = 0]
            /\ prefilling' = prefilling \cup {r}
            /\ UNCHANGED <<active, idle_slots, seq_id, chan, last_events, generated>>
       ELSE /\ HandOver(r)
            /\ prompt' = Forget({r}, prompt)
            /\ UNCHANGED prefilling
  /\ pc' = Stage({}, parts', Apart(prefilling))
  /\ UNCHANGED <<client, req_rx, shutdown, handles, unsampled>>

(* Step 1 of a scheduler that reads prompts whole: the first token.        *)
BeginWhole(r) ==
  /\ pc = "first" /\ r \in parts
  /\ HandOver(r)
  /\ parts' = {}
  /\ pc' = "admit"
  /\ UNCHANGED <<client, req_rx, shutdown, handles, prefilling, unsampled, prompt>>

(* Slip: a prompt may fall back again and again.                           *)
FallBackAgain(r) ==
  /\ prompt[r].may_fall_back
  /\ \E restored \in 0..(prompt[r].n - 1) :
       prompt' = [prompt EXCEPT ![r].cursor = restored]

(* What is read of a prompt on its own fails: what its slot held of it is  *)
(* given up, once, for nothing or a snapshot that fits.                    *)
FallBack(r) ==
  /\ prompt[r].may_fall_back
  /\ \E restored \in 0..(prompt[r].n - 1) :
       prompt' = [prompt EXCEPT ![r].cursor = restored,
                                ![r].may_fall_back = FALSE]

(* Where the chunk being read ends, next_cut aside, and a prompt read to   *)
(* that point or, where states are kept, to a cut before it.               *)
ChunkEnd(r) ==
  Least(prompt[r].cursor + (IF active = {} THEN NBatch ELSE NUBatch), prompt[r].n)

ReadOn(r) ==
  \E e \in IF KeepStates THEN (prompt[r].cursor + 1)..ChunkEnd(r) ELSE {ChunkEnd(r)} :
    e < prompt[r].n /\ prompt' = [prompt EXCEPT ![r].cursor = e]

StopReading(r) ==
  prefilling' = prefilling \ {r} /\ prompt' = Forget({r}, prompt)

(* Step 7: the next chunk of the first prompt set apart, read on its own.  *)
(* Its client is gone; or it is read on, or to its end; or reading fails,  *)
(* and it falls back, or ends in an Error.                                 *)
ReadApart ==
  /\ pc = "apart"
  /\ \E r \in Requests :
     /\ IsFirst(r, Apart(prefilling))
     /\ \/ /\ RxDropped(r)
           /\ StopReading(r) /\ GiveBack({r})
           /\ UNCHANGED <<active, generated, chan, last_events>>
        \/ /\ ~RxDropped(r)
           /\ ReadOn(r) \/ FallBack(r)
           /\ UNCHANGED <<prefilling, active, idle_slots, seq_id, generated, chan, last_events>>
        \/ /\ ~RxDropped(r) /\ ChunkEnd(r) = prompt[r].n
           /\ StopReading(r) /\ HandOver(r)
        \/ /\ ~RxDropped(r) /\ ~prompt[r].may_fall_back
           /\ StopReading(r) /\ Finish(r, 0, "error")
  /\ pc' = "top"
  /\ UNCHANGED <<client, req_rx, shutdown, handles, parts, unsampled>>
-----------------------------------------------------------------------------
Init ==
  /\ client = [r \in Requests |-> "new"]
  /\ req_rx = <<>>
  /\ chan = [r \in Requests |-> NoEvents]
  /\ shutdown = FALSE /\ handles = TRUE
  /\ pc = "top"
  /\ idle_slots = [s \in Slots |-> 1]
  /\ active = {} /\ prefilling = {} /\ parts = {} /\ unsampled = {}
  /\ seq_id = [r \in Requests |-> NoSlot]
  /\ prompt = [r \in Requests |-> NoPrompt]
  /\ generated = [r \in Requests |-> 0]
  /\ last_events = [r \in Requests |-> 0]

(* What the decode thread does: one of these is enabled until it is gone.  *)
Thread ==
  \/ Top \/ Drain \/ DropReceiver
  \/ RefuseHead \/ AdmitHead \/ AdmitNone \/ Disconnected
  \/ Sleep \/ WaitTimeout
  \/ Step \/ ReadApart
  \/ \E r \in Requests : Sample(r) \/ FinishPart(r) \/ BeginWhole(r)

Handlers ==
  \/ \E r \in Requests : Submit(r) \/ Notify(r) \/ Receive(r) \/ Leave(r)
  \/ RequestShutdown \/ DropHandles

Next == Thread \/ Handlers

Spec == Init /\ [][Next]_vars

(* The operating system runs the decode thread, and a client that stays    *)
(* reads its channel.  Nobody has to submit, leave or shut down, and no    *)
(* notification is relied on.                                              *)
Fairness ==
  /\ WF_vars(Thread)
  /\ \A r \in Requests : WF_vars(Notify(r)) /\ WF_vars(Receive(r))

FairSpec == Spec /\ Fairness
-----------------------------------------------------------------------------
(* Properties. *)

(* Every variable holds what its Rust type and the loop's stages allow.    *)
TypeOK ==
  /\ client \in [Requests -> {"new", "refused", "sending", "waiting", "left", "ended"}]
  /\ req_rx \in Seq(Requests) /\ Len(req_rx) <= QueueCapacity
  /\ chan \in [Requests -> Events]
  /\ shutdown \in BOOLEAN /\ handles \in BOOLEAN
  /\ pc \in {"top", "drain", "teardown", "gone", "admit", "first", "lock",
             "asleep", "step", "sample", "parts", "apart"}
  /\ idle_slots \in [Slots -> Nat]
  /\ active \subseteq Requests /\ prefilling \subseteq Requests
  /\ parts \subseteq Requests /\ unsampled \subseteq Requests
  /\ seq_id \in [Requests -> Slots \cup {NoSlot}]
  /\ prompt \in [Requests -> Prompts]
  /\ generated \in [Requests -> Nat]
  /\ last_events \in [Requests -> Nat]

(* While the loop runs, every slot is in idle_slots exactly once or held   *)
(* by exactly one request: finish_clean, finish_wiped and the error paths  *)
(* of steps 3 to 7 neither leak a slot (l.2621, "a pre-existing leak") nor *)
(* push it twice, which would put two conversations in one KV sequence.    *)
SlotsConserved ==
  pc \notin {"teardown", "gone"} =>
    /\ \A s \in Slots : idle_slots[s] = IF \E r \in InSlot : seq_id[r] = s
                                          THEN 0 ELSE 1
    /\ \A q, r \in InSlot : seq_id[q] = seq_id[r] => q = r

(* Whoever is admitted finds a slot: the silent `break` of l.2195 never    *)
(* drops a request.                                                        *)
NeverOutOfSlots ==
  pc = "admit" /\ HasRoom => \E s \in Slots : idle_slots[s] > 0

(* A request is sent one last event, Done or Error, never two, and none    *)
(* only when its client is gone: whoever took it off the queue answered it *)
(* on every path.                                                          *)
OneLastEvent ==
  \A r \in Requests :
    /\ last_events[r] <= 1
    /\ r \in Over /\ last_events[r] = 0 => RxDropped(r)

(* Nothing follows the last event in a response channel (emit_token's      *)
(* early returns, step 6's removal of finished sequences).                 *)
NothingAfterLast ==
  [][\A r \in Requests : last_events[r] > 0 =>
       /\ chan'[r].pieces <= chan[r].pieces
       /\ chan'[r].last \in {chan[r].last, "none"}]_vars

Readable == {r \in prefilling \ Apart(prefilling) : ~RxDropped(r)}

(* A decode step that goes through with prompts waiting reads some of the  *)
(* one that waits longest: answers never starve a prompt, and a younger    *)
(* prompt never overtakes it.                                              *)
StepServesOldest ==
  [][pc = "step" /\ pc' # "step" /\ Readable # {}
       /\ active' = active /\ (\A r \in Readable : ~prompt'[r].apart)
     => First(Readable) \in parts']_vars

(* A step's tokens fit the batch ("prompt_budget keeps the step within     *)
(* it", l.2950), past which llama.cpp aborts the process (l.3064), and     *)
(* beside an answer it holds at most a micro-batch of prompt (l.2918):     *)
(* each answer's next token waits for no more.                             *)
StepFits ==
  [][pc = "step" =>
       LET part == [r \in parts' |-> prompt'[r].to - prompt[r].cursor]
           read == Total(part, parts')
       IN  /\ Cardinality(active) + read <= NBatch
           /\ active # {} => read <= NUBatch]_vars

(* A prompt being read only moves forward, but for one fall-back from a    *)
(* reused prefix: a failing prompt is not read again for ever.             *)
RereadOnce ==
  [][\A r \in InSlot \cap InSlot' :
       r \notin active' /\ prompt'[r].cursor < prompt[r].cursor =>
         prompt[r].may_fall_back /\ ~prompt'[r].may_fall_back]_vars

(* Under Fairness: a client that waits gets to the end of its stream, or   *)
(* leaves.  The thread's wait may miss the notification of a submission    *)
(* (Sleep), and prompts, answers, retries and failures come to an end.     *)
EveryStreamEnds ==
  \A r \in Requests : (client[r] = "sending") ~> (client[r] \in {"ended", "left"})

(* Under Fairness: unless the thread returns, every slot comes back for    *)
(* good, also those of clients that left at any point.                     *)
SlotsComeBack ==
  <>(pc = "gone" \/ [](\A s \in DOMAIN idle_slots : idle_slots[s] = 1))

(* The scheduler implements Service: its queue is served in order, by at   *)
(* most max_batch_size slots, and nobody is taken or let go of twice.      *)
Promise == INSTANCE Service WITH
  Capacity <- Cardinality(Slots),
  accepted <- Accepted, waiting <- req_rx, serving <- InSlot

ServesInOrder  == Promise!Spec
ServesEveryone == Promise!FairSpec
=============================================================================
