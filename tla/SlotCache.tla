----------------------------- MODULE SlotCache -----------------------------
(***************************************************************************)
(* What the scheduler keeps of the conversations it answered               *)
(* (engine/src/inference/scheduler.rs): the tokens in each slot's memory,  *)
(* the tokens and the text recorded for an idle slot, whole-sequence       *)
(* checkpoints (PromptCheckpoint) and a slot's recurrent states            *)
(* (StateCheckpoint).  A new prompt starts from the longest of them that   *)
(* fits, by text or by tokens, and reads the rest.                         *)
(*                                                                         *)
(* Here tokens have values, since everything turns on which of them a      *)
(* memory holds.  The vocabulary is a constant: what each token spells, in *)
(* bytes, and how the tokenizer cuts a text.  A byte is an ordinary        *)
(* character, or the first or second half of a longer one.  The order of   *)
(* the requests and the channels are module Scheduler's; what a slot does  *)
(* depends on no other, so that the sequences of one decode step take      *)
(* their turns in actions of their own.                                    *)
(*                                                                         *)
(* External (llama.cpp): a memory takes tokens only at the position it has *)
(* reached; a recurrent state cannot be cut back past what its rollback    *)
(* window covers of the last decode; a decode may fail at any time.        *)
(***************************************************************************)
EXTENDS Naturals, Sequences, FiniteSets, SequencesExt

CONSTANTS
  Slots,          (* the sequence ids there may be                         *)
  BatchSizes,     (* the values of max_batch_size                          *)
  NoSeq,          (* a slot nothing is read or answered in                 *)
  Prompts,        (* texts a request may bring                             *)
  Vocab, Bos,     (* the tokens an answer is made of; AddBos::Always       *)
  Spell,          (* the bytes of a token                                  *)
  Tokenize,       (* the tokens of a text                                  *)
  Lead, Cont,     (* the two halves of a long character                    *)
  Replaced,       (* U+FFFD                                                *)
  PerSeqCtx,      (* per_seq_ctx                                           *)
  MaxTokens,      (* GenerateRequest::max_tokens                           *)
  NUBatch,        (* ctx.n_ubatch()                                        *)
  Header,         (* tokens of an answer's header: 4 in checkpoint_cuts    *)
  Hybrid,         (* keeps_states: the memory has a recurrent part         *)
  RsSeq,          (* --rs-seq: the rollback window asked for               *)
  CtxCheckpoints, (* SchedulerConfig::ctx_checkpoints                      *)
  MinStep,        (* SchedulerConfig::checkpoint_min_step                  *)
  MaxDrafts       (* --mtp: the drafts of a step asked for                 *)

ASSUME SlotCacheAssumption ==
  /\ IsFiniteSet(Slots) /\ Slots \subseteq Nat
  /\ BatchSizes \subseteq Nat \ {0}
  /\ \A n \in BatchSizes : 0..(n - 1) \subseteq Slots
  /\ Bos \notin Vocab
  /\ \A p \in Prompts :
       /\ p \in Seq(Range(p))
       /\ \A n \in 1..(Len(p) + 1) : Tokenize[SubSeq(p, n, Len(p))] \in Seq(Vocab)
  /\ PerSeqCtx \in Nat /\ MaxTokens \in Nat \ {0}
  /\ {NUBatch, Header, RsSeq, CtxCheckpoints, MinStep, MaxDrafts} \subseteq Nat
  /\ Hybrid \in BOOLEAN

VARIABLES
  memory,       (* what llama.cpp holds of each slot                       *)
  idle_slots,   (* CachedSlots, the least recently used first              *)
  active,       (* the ActiveSequence or PendingPrefill of each slot       *)
  checkpoints,  (* PromptCheckpoints, the oldest first                     *)
  states,       (* StateCheckpoints of each slot                           *)
  mtp           (* drafts of a step, 0 without an MTP head: never changes  *)

vars == <<memory, idle_slots, active, checkpoints, states, mtp>>
-----------------------------------------------------------------------------
(* Texts and tokens. *)

(* The incremental UTF-8 decoder of a sequence: only whole characters come *)
(* out, half of one is kept, and what fits nothing is replaced.            *)
Feed(d, b) ==
  CASE b = Lead            -> [out |-> IF d.half THEN Append(d.out, Replaced) ELSE d.out,
                               half |-> TRUE]
    [] b = Cont /\ d.half  -> [out |-> d.out \o <<Lead, Cont>>, half |-> FALSE]
    [] b = Cont /\ ~d.half -> [d EXCEPT !.out = Append(@, Replaced)]
    [] OTHER -> [out |-> IF d.half THEN d.out \o <<Replaced, b>> ELSE Append(d.out, b),
                 half |-> FALSE]

(* token_to_piece.                                                         *)
Piece(half, t) == FoldLeft(Feed, [out |-> <<>>, half |-> half], Spell[t])

(* What tokens spell, the mark of the beginning not being text.            *)
Spelled(tokens) ==
  FlattenSeq([i \in DOMAIN tokens |-> IF tokens[i] = Bos THEN <<>> ELSE Spell[tokens[i]]])

(* No token cuts a character in two, and no tokenization loses a byte.     *)
WholeCharacters ==
  /\ \A t \in Vocab : /\ Spell[t] \in Seq(Range(Spell[t]))
                      /\ Piece(FALSE, t) = [out |-> Spell[t], half |-> FALSE]
  /\ \A p \in Prompts : \A n \in 1..(Len(p) + 1) :
       Spelled(Tokenize[SubSeq(p, n, Len(p))]) = SubSeq(p, n, Len(p))

Smaller(a, b) == IF a <= b THEN a ELSE b
Minus(a, b)   == IF a >= b THEN a - b ELSE 0      (* saturating_sub *)
Longest(S)    == CHOOSE x \in S : \A y \in S : y <= x

common_prefix_len(a, b) ==
  Longest({n \in 0..Smaller(Len(a), Len(b)) : SubSeq(a, 1, n) = SubSeq(b, 1, n)})
-----------------------------------------------------------------------------
(* llama.cpp's memory of one sequence: the tokens its attention cache      *)
(* holds, the tokens its recurrent state has read (the same, without one), *)
(* and the earliest position the state can be taken back to.               *)
NoMemory == [att |-> <<>>, rec |-> <<>>, low |-> 0]

Follows(m, at) == Len(m.att) = at /\ Len(m.rec) = at

Window == IF RsSeq >= mtp THEN RsSeq ELSE mtp

Decoded(m, tokens) ==
  [att |-> m.att \o tokens, rec |-> m.rec \o tokens,
   low |-> Len(m.rec) + Minus(Len(tokens), Window)]

CanCut(m, n) == n = 0 \/ ~Hybrid \/ n >= Len(m.rec) \/ n >= m.low

(* clear_kv_cache_seq from position n; refused, it changes nothing.        *)
Cut(m, n) ==
  IF n = 0 THEN NoMemory
  ELSE IF CanCut(m, n)
    THEN [m EXCEPT !.att = SubSeq(@, 1, Smaller(n, Len(@))),
                   !.rec = SubSeq(@, 1, Smaller(n, Len(@)))]
    ELSE m
-----------------------------------------------------------------------------
(* A sequence being read or answered; `at` is PendingPrefill::cursor, then *)
(* ActiveSequence::n_past.                                                 *)
Read == "reading"

(* Slip: the token that ended the answer is recorded too.                  *)
resident_tokens_sampled(seq) == seq.prompt_tokens \o seq.generated

(* resident_tokens: the token that ended the answer was never decoded.     *)
resident_tokens(seq) ==
  LET full == seq.prompt_tokens \o seq.generated
  IN  SubSeq(full, 1, Smaller(seq.at, Len(full)))

(* resident_text: as many pieces less.                                     *)
resident_text(seq) ==
  LET full == Len(seq.prompt_tokens) + Len(seq.generated)
      kept == Minus(Len(seq.pieces), full - seq.at)
  IN  IF seq.at < Len(seq.prompt_tokens) \/ seq.at > full THEN <<>>
      ELSE seq.text \o FlattenSeq(SubSeq(seq.pieces, 1, kept))

(* Slip: a checkpoint may be as long as the prompt.                        *)
best_checkpoint_whole(tokens) ==
  LET fits == {i \in DOMAIN checkpoints : IsPrefix(checkpoints[i].tokens, tokens)}
  IN  {i \in fits : \A j \in fits : Len(checkpoints[j].tokens) <= Len(checkpoints[i].tokens)}

(* best_checkpoint: the longest that is a strict prefix, none being {}.    *)
best_checkpoint(tokens) ==
  LET fits == {i \in DOMAIN checkpoints : IsStrictPrefix(checkpoints[i].tokens, tokens)}
  IN  {i \in fits : \A j \in fits : Len(checkpoints[j].tokens) <= Len(checkpoints[i].tokens)}

(* finish_sequence_clean is due a checkpoint.                              *)
Due(tokens) ==
  \A i \in best_checkpoint(tokens) : Len(tokens) - Len(checkpoints[i].tokens) >= MinStep

(* finish_clean.  The snapshot is best effort.                             *)
FinishClean(s, seq, m) ==
  LET tokens == resident_tokens(seq)
  IN  /\ memory' = [memory EXCEPT ![s] = m]
      /\ active' = [active EXCEPT ![s] = NoSeq]
      /\ idle_slots' = Append(idle_slots, [seq_id |-> s, tokens |-> tokens,
                                           text |-> resident_text(seq)])
      /\ \/ UNCHANGED checkpoints
         \/ /\ CtxCheckpoints > 0 /\ Due(tokens)
            /\ checkpoints' = Append(IF Len(checkpoints) >= CtxCheckpoints
                                       THEN Tail(checkpoints) ELSE checkpoints,
                                     [tokens |-> tokens, state |-> m])

(* finish_wiped.                                                           *)
FinishWiped(s) ==
  /\ memory' = [memory EXCEPT ![s] = NoMemory]
  /\ active' = [active EXCEPT ![s] = NoSeq]
  /\ idle_slots' = Append(idle_slots, [seq_id |-> s, tokens |-> <<>>, text |-> <<>>])
-----------------------------------------------------------------------------
(* Step 1: a request is given a slot. *)

(* text_prefix_match: the idle slots whose text begins the prompt, the     *)
(* longest text first; of equal ones, either.                              *)
text_prefix_match(p) ==
  LET fits == {i \in DOMAIN idle_slots : idle_slots[i].text \in Prefixes(p) \ {<<>>}}
  IN  {i \in fits : \A j \in fits : Len(idle_slots[j].text) <= Len(idle_slots[i].text)}

(* pick_slot: the idle slot that shares most with the prompt, the least    *)
(* recently used of those or, under a tenth of the prompt, of all.         *)
PickSlot(tokens) ==
  LET shared(i) == common_prefix_len(idle_slots[i].tokens, tokens)
      most == Longest({shared(i) : i \in DOMAIN idle_slots})
  IN  IF 10 * most < Len(tokens) THEN 1
      ELSE SelectInSeq(idle_slots, LAMBDA c : common_prefix_len(c.tokens, tokens) = most)

(* At least the last token is read again, for its logits.                  *)
Reuse(shared, tokens) == Smaller(shared, Len(tokens) - 1)

(* prefill_setup: does the prompt fit, and can the slot be cut back.       *)
SetupFails(m, tokens, reuse) == Len(tokens) >= PerSeqCtx \/ ~CanCut(m, reuse)

(* restore_state_checkpoint: a slot's recurrent state goes back to one of  *)
(* its checkpoints, that the prompt and the slot both begin with.          *)
StatesThatFit(s, tokens, reuse) ==
  LET kept == {c \in states[s] : /\ Len(c.tokens) \in 1..reuse
                                 /\ IsStrictPrefix(c.tokens, tokens)}
  IN  {c \in kept : \A d \in kept : Len(d.tokens) <= Len(c.tokens)}

RestoreState(m, c) == [m EXCEPT !.rec = c.state, !.low = Len(c.state)]

(* fall_back_from_reuse: the memory and the position reading starts again  *)
(* from; a checkpoint may not load.                                        *)
FallBack(m, tokens) ==
  {[m |-> NoMemory, at |-> 0]} \cup
  {[m |-> [checkpoints[i].state EXCEPT !.low = Len(checkpoints[i].state.rec)],
    at |-> Len(checkpoints[i].tokens)] : i \in best_checkpoint(tokens)}

(* The ways the slot can be set up for `tokens`: as it is, from one of its *)
(* recurrent states, after falling back, or not at all.                    *)
Setups(s, m, tokens, reuse, keep) ==
  LET ok(r) == ~SetupFails(r.m, tokens, r.at)
      first == [m |-> m, at |-> reuse]
      loads == IF keep /\ reuse > 0
                 THEN {[m |-> RestoreState(m, c), at |-> Len(c.tokens)] :
                         c \in StatesThatFit(s, tokens, reuse)} ELSE {}
      tried(r) == [m |-> Cut(r.m, r.at), at |-> r.at, fell_back |-> FALSE]
      falls == IF reuse > 0
                 THEN {[m |-> Cut(r.m, r.at), at |-> r.at, fell_back |-> TRUE] :
                         r \in {r \in FallBack(m, tokens) : ok(r)}} ELSE {}
  IN  IF ok(first) THEN {tried(first)}
      ELSE {tried(r) : r \in {r \in loads : ok(r)}} \cup falls

(* A request's prompt is given the slot at `i` of idle_slots.              *)
Start(i, p, tokens, reuse, cache_prompt) ==
  LET s    == idle_slots[i].seq_id
      keep == Hybrid /\ cache_prompt
      ways == Setups(s, memory[s], tokens, reuse, keep)
  IN  /\ states' = [states EXCEPT ![s] = {c \in @ : IsPrefix(c.tokens, tokens)}]
      /\ IF ways = {}
           THEN /\ idle_slots' = Append(RemoveAt(idle_slots, i),
                                        [seq_id |-> s, tokens |-> <<>>, text |-> <<>>])
                /\ memory' = [memory EXCEPT ![s] = NoMemory]
                /\ UNCHANGED active
           ELSE \E w \in ways :
                /\ idle_slots' = RemoveAt(idle_slots, i)
                /\ memory' = [memory EXCEPT ![s] = w.m]
                /\ active' = [active EXCEPT ![s] =
                     [stage |-> Read, text |-> p, prompt_tokens |-> tokens,
                      generated |-> <<>>, pieces |-> <<>>, half |-> FALSE,
                      at |-> w.at, may_fall_back |-> w.at > 0 /\ ~w.fell_back,
                      keep_states |-> keep,
                      max_tokens |-> Smaller(MaxTokens, PerSeqCtx - Len(tokens))]]
      /\ UNCHANGED <<checkpoints, mtp>>

(* A request whose text continues a slot's: only the rest is tokenized.    *)
AdmitByText(p) ==
  \E i \in text_prefix_match(p) :
    LET base   == idle_slots[i].tokens
        tokens == base \o Tokenize[SubSeq(p, Len(idle_slots[i].text) + 1, Len(p))]
    IN  Start(i, p, tokens, Reuse(Len(base), tokens), TRUE)

(* Any other: no text fits, what is left of it does not tokenize, or       *)
(* cache_prompt is false.                                                  *)
AdmitByTokens(p, cache_prompt) ==
  LET tokens == <<Bos>> \o Tokenize[p]
      i      == PickSlot(tokens)
      shared == common_prefix_len(idle_slots[i].tokens, tokens)
  IN  /\ idle_slots # <<>>
      /\ Start(i, p, tokens, IF cache_prompt THEN Reuse(shared, tokens) ELSE 0, cache_prompt)
-----------------------------------------------------------------------------
(* Reading and answering. *)

checkpoint_cuts(n) == {Minus(n, Header + NUBatch), Minus(n, Header)}

(* keep_state_checkpoint, after `to` tokens of the prompt: at most two.    *)
(* Each is longer than those before, so that the oldest is the shortest.   *)
KeepState(s, tokens, m) ==
  LET same == {c \in states[s] : IsStrictPrefix(c.tokens, tokens)}
      room == IF Cardinality(same) < 2 THEN same
              ELSE {c \in same : \E d \in same : Len(d.tokens) < Len(c.tokens)}
  IN  states' = [states EXCEPT ![s] = room \cup {[tokens |-> tokens, state |-> m.rec]}]

(* What a sequence has said after more tokens, each spelled after the half *)
(* character the one before it may have left.                              *)
Heard(seq, tokens) ==
  LET piece[i \in 0..Len(tokens)] ==
        IF i = 0 THEN [out |-> <<>>, half |-> seq.half]
        ELSE Piece(piece[i - 1].half, tokens[i])
  IN  [seq EXCEPT !.generated = @ \o tokens,
                  !.pieces = @ \o [i \in DOMAIN tokens |-> piece[i].out],
                  !.half = piece[Len(tokens)].half]

(* emit_token: the sampled token, of a sequence whose memory is `m`, ends  *)
(* the answer (end of generation, a stop sequence, max_tokens), spoils it  *)
(* (corrupt logits, no piece, the client gone), or is its next input.      *)
Emit(s, seq, m, trim_kv) ==
  LET held == IF trim_kv THEN Cut(m, seq.at) ELSE m
  IN  \/ FinishClean(s, seq, held)
      \/ FinishWiped(s) /\ UNCHANGED checkpoints
      \/ \E t \in Vocab :
           LET next == [Heard(seq, <<t>>) EXCEPT !.stage = "answering"]
           IN  \/ FinishClean(s, next, held)
               \/ /\ Len(next.generated) < seq.max_tokens
                  /\ active' = [active EXCEPT ![s] = next]
                  /\ memory' = [memory EXCEPT ![s] = m]
                  /\ UNCHANGED <<idle_slots, checkpoints>>

(* How far a part of a prompt may go: to its end, or to the next place its *)
(* recurrent state is kept.                                                *)
ReadsTo(seq) ==
  LET n    == Len(seq.prompt_tokens)
      cuts == {c \in checkpoint_cuts(n) : c > seq.at}
  IN  {to \in (seq.at + 1)..n : ~seq.keep_states \/ \A c \in cuts : to <= c}

(* A part of a prompt is read; its end gives the answer's first token.     *)
ReadPart(s) ==
  /\ active[s] # NoSeq /\ active[s].stage = Read
  /\ Follows(memory[s], active[s].at)
  /\ UNCHANGED mtp
  /\ \E to \in ReadsTo(active[s]) :
       LET seq == active[s]
           m   == Decoded(memory[s], SubSeq(seq.prompt_tokens, seq.at + 1, to))
       IN  IF to < Len(seq.prompt_tokens)
             THEN /\ active' = [active EXCEPT ![s].at = to]
                  /\ memory' = [memory EXCEPT ![s] = m]
                  /\ \/ UNCHANGED states   \* best effort
                     \/ /\ seq.keep_states /\ to \in checkpoint_cuts(Len(seq.prompt_tokens))
                        /\ KeepState(s, SubSeq(seq.prompt_tokens, 1, to), m)
                  /\ UNCHANGED <<idle_slots, checkpoints>>
             ELSE Emit(s, [seq EXCEPT !.at = to], m, FALSE) /\ UNCHANGED states

(* A part that cannot be read: once, reading starts again from what the    *)
(* fall-back leaves; then the request fails.                               *)
ReadFails(s) ==
  /\ active[s] # NoSeq /\ active[s].stage = Read
  /\ IF active[s].may_fall_back
       THEN /\ \E r \in FallBack(memory[s], active[s].prompt_tokens) :
                 /\ memory' = [memory EXCEPT ![s] = r.m]
                 /\ active' = [active EXCEPT ![s].at = r.at, ![s].may_fall_back = FALSE]
            /\ UNCHANGED idle_slots
       ELSE FinishWiped(s)
  /\ UNCHANGED <<checkpoints, states, mtp>>

(* The client went away while its prompt was read.                         *)
ReaderLeaves(s) ==
  /\ active[s] # NoSeq /\ active[s].stage = Read
  /\ FinishWiped(s)
  /\ UNCHANGED <<checkpoints, states, mtp>>

(* Steps 4 and 5, for one answer: its last token is decoded and the next   *)
(* one sampled.                                                            *)
Answer(s) ==
  /\ mtp = 0
  /\ active[s] # NoSeq /\ active[s].stage = "answering"
  /\ Follows(memory[s], active[s].at)
  /\ LET seq == active[s]
     IN  Emit(s, [seq EXCEPT !.at = @ + 1],
              Decoded(memory[s], <<Last(seq.generated)>>), FALSE)
  /\ UNCHANGED <<states, mtp>>

(* Step 4 fails: every answer's slot is wiped, in the order of the answers *)
(* under way, which is not that of the slots.                              *)
StepFails ==
  LET failed == {s \in Slots : active[s] # NoSeq /\ active[s].stage = "answering"}
  IN  /\ failed # {}
      /\ memory' = [s \in Slots |-> IF s \in failed THEN NoMemory ELSE memory[s]]
      /\ active' = [s \in Slots |-> IF s \in failed THEN NoSeq ELSE active[s]]
      /\ \E order \in Injection(1..Cardinality(failed), failed) :
           idle_slots' = idle_slots \o [i \in DOMAIN order |->
                           [seq_id |-> order[i], tokens |-> <<>>, text |-> <<>>]]
      /\ UNCHANGED <<checkpoints, states, mtp>>
-----------------------------------------------------------------------------
(* mtp_step: drafts are decoded after the last token, the sampler's picks  *)
(* handed over as far as they agree.                                       *)

Drafts(seq) ==
  LET room == Smaller(Minus(PerSeqCtx, seq.at + 1),
                      Minus(seq.max_tokens, Len(seq.generated) + 1))
  IN  UNION {[1..n -> Vocab] : n \in 0..Smaller(room, mtp)}

(* Slip: what was drafted past the end of the answer stays in memory.      *)
NoTrim(m, n) == m

(* trim_kv: an answer that ends within the drafts kept (a stop sequence,   *)
(* max_tokens) leaves no more than it recorded; a refusal is not looked at.*)
TrimPick(m, n) == Cut(m, n)

EmitPick(s, seq, m) == Emit(s, seq, m, TRUE)

(* The first `kept` drafts are what the sampler picks; they are handed     *)
(* over one after the other, and then the pick after them.  The memory may *)
(* refuse to take the others back: the answer is spoilt.                   *)
MtpStep(s) ==
  /\ mtp > 0
  /\ active[s] # NoSeq /\ active[s].stage = "answering"
  /\ Follows(memory[s], active[s].at)
  /\ LET seq  == active[s]
         pos0 == seq.at
     IN  \E drafts \in Drafts(seq) : \E kept \in 0..Len(drafts) :
         LET read == Decoded(memory[s], <<Last(seq.generated)>> \o drafts)
             m    == Cut(read, pos0 + 1 + kept)
             handed(n) == [Heard(seq, SubSeq(drafts, 1, n)) EXCEPT !.at = pos0 + 1 + n]
         IN  \/ kept < Len(drafts) /\ FinishWiped(s) /\ UNCHANGED checkpoints
             \/ /\ kept < Len(drafts) => CanCut(read, pos0 + 1 + kept)
                /\ \/ EmitPick(s, handed(kept), m)
                   \/ \E n \in 1..kept :
                        FinishClean(s, [handed(n) EXCEPT !.at = pos0 + n], TrimPick(m, pos0 + n))
  /\ UNCHANGED <<states, mtp>>
-----------------------------------------------------------------------------
(* mtp_drafts: with several slots, or a model without the layers, none.    *)
mtp_drafts(max_batch_size) == IF max_batch_size = 1 THEN {0, MaxDrafts} ELSE {0}

Init ==
  /\ memory = [s \in Slots |-> NoMemory]
  /\ \E n \in BatchSizes :
       /\ idle_slots = [i \in 1..n |->
                          [seq_id |-> i - 1, tokens |-> <<>>, text |-> <<>>]]
       /\ mtp \in mtp_drafts(n)
  /\ active = [s \in Slots |-> NoSeq]
  /\ checkpoints = <<>>
  /\ states = [s \in Slots |-> {}]

Next ==
  \/ \E p \in Prompts : AdmitByText(p)
  \/ \E p \in Prompts, cache_prompt \in BOOLEAN : AdmitByTokens(p, cache_prompt)
  \/ \E s \in Slots : \/ ReadPart(s)
                      \/ ReadFails(s)
                      \/ ReaderLeaves(s)
                      \/ Answer(s)
                      \/ MtpStep(s)
  \/ StepFails

Spec == Init /\ [][Next]_vars
-----------------------------------------------------------------------------
Busy(s) == active[s] # NoSeq

(* A slot's memory holds exactly the tokens recorded for it: the history   *)
(* of an idle slot, the part of the prompt read so far, the answer up to   *)
(* the token to be decoded next; and a checkpoint or a kept state holds    *)
(* the tokens it is filed under.  Nothing else ties them together, and a   *)
(* slot that holds other tokens answers from another conversation.         *)
MemoryIsRecorded ==
  LET holds(m, tokens) == m.att = tokens /\ (Hybrid => m.rec = tokens)
  IN  /\ \A i \in DOMAIN idle_slots :
           holds(memory[idle_slots[i].seq_id], idle_slots[i].tokens)
      /\ \A s \in Slots : Busy(s) => holds(memory[s], resident_tokens(active[s]))
      /\ \A i \in DOMAIN checkpoints : holds(checkpoints[i].state, checkpoints[i].tokens)
      /\ \A s \in Slots : \A c \in states[s] : c.state = c.tokens

(* Whatever a prompt starts from, its last token is still to be read: the  *)
(* answer's first token is sampled from logits of its own.                 *)
SomethingToRead ==
  \A s \in Slots : Busy(s) /\ active[s].stage = Read
                     => active[s].at < Len(active[s].prompt_tokens)

(* The tokens a prompt is read as spell the prompt, also when most of them *)
(* are what an earlier answer happened to be made of.                      *)
PromptIsItsTokens ==
  \A s \in Slots : Busy(s) => Spelled(active[s].prompt_tokens) = active[s].text
=============================================================================
