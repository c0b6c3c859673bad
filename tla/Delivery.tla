------------------------------ MODULE Delivery ------------------------------
(***************************************************************************)
(* One answer on its way from the decode loop to the client: the loop      *)
(* (scheduler.rs emit_token, or generate_streaming without batching) puts  *)
(* events on a channel, the monitor's task (monitor/mod.rs forward) passes *)
(* them on to a second one, and the handler (routes.rs) reads that, into   *)
(* one response or as a stream.                                            *)
(*                                                                         *)
(* The scheduler never waits for a channel: what does not fit is put back  *)
(* or dropped.  The sequential loop waits.  Events' counts and times are   *)
(* left out, and so is the splitting of reasoning from the answer.         *)
(***************************************************************************)
EXTENDS OutputFilter

CONSTANTS
  Pieces,      (* texts of single tokens                                   *)
  Openings,    (* response prefixes                                        *)
  MaxTokens,   (* max_tokens of the request                                *)
  Capacity,    (* of the loop's channel: 256, or 32 without batching       *)
  Hop          (* of the monitor's: 256                                    *)

Kinds == {<<"batched", "whole">>, <<"batched", "stream">>, <<"sequential", "stream">>}
Nothing == [event |-> "none"]
Token(text)  == [event |-> "token", text |-> text]
Done(reason) == [event |-> "done", reason |-> reason]
Failure      == [event |-> "error"]

Chars == UNION {Range(t) : t \in Pieces \cup Openings \cup Markers}

(* No response prefix holds a stop sequence: one is there for the model's  *)
(* own chat template only, and stops for the built-in ones only.           *)
ASSUME DeliveryAssumption ==
  /\ MaxTokens \in Nat \ {0} /\ Capacity \in Nat \ {0} /\ Hop \in Nat \ {0}
  /\ Pieces \cup Openings \cup Markers \subseteq Seq(Chars)
  /\ \A p \in Pieces : Len(p) > 0
  /\ \A o \in Openings : ~Stopped(o)

VARIABLES
  kind,     (* which loop, and how the handler answers                     *)
  written,  (* all the model wrote                                         *)
  tokens,   (* tokens_generated                                            *)
  pending,  (* text held back                                              *)
  stage,    (* what the loop is about to do                                *)
  out,      (* the text it is about to hand over                           *)
  reason,   (* StopReason of the Done to come                              *)
  up, up_tx, up_rx,       (* its channel, and which ends of it are there   *)
  carried,                (* what the monitor's task is passing on         *)
  down, down_tx, down_rx, (* the second channel                            *)
  book,     (* how the monitor's book has the request                      *)
  got,      (* text the client was given                                   *)
  told,     (* how it was told the answer ended                            *)
  full      (* something found the loop's channel full                     *)

model   == <<written, tokens, pending, stage, out, reason>>
relay   == <<carried, down, down_tx, book>>
client  == <<got, told, down_rx>>
vars    == <<kind, model, up, up_tx, up_rx, relay, client, full>>

Batched == kind[1] = "batched"

-----------------------------------------------------------------------------
(* The decode loop. *)

(* A token is sampled: end of generation, a piece of text, or a failure.   *)
(* The sequential loop ends as at its budget's end when the token has no   *)
(* text or its batch no room.                                              *)
Sample ==
  /\ stage = "ready"
  /\ \/ /\ stage' = "done" /\ reason' = "Stop"
        /\ UNCHANGED <<written, tokens, pending, out>>
     \/ /\ stage' = "error"
        /\ UNCHANGED <<written, tokens, pending, out, reason>>
     \/ /\ ~Batched
        /\ stage' = "tail" /\ out' = pending /\ pending' = <<>>
        /\ reason' = "Length"
        /\ UNCHANGED <<written, tokens>>
     \/ \E piece \in Pieces :
          LET r == ProcessPiece(pending, piece) IN
          /\ written' = written \o piece
          /\ tokens' = tokens + 1
          /\ pending' = r.pending /\ out' = r.out
          /\ stage' = IF r.stop THEN "last" ELSE "piece"
          /\ reason' = IF r.stop THEN "Stop" ELSE "Length"
  /\ UNCHANGED <<kind, up, up_tx, up_rx, relay, client, full>>

Offered ==
  IF stage \in {"piece", "tail", "last"} THEN Token(out)
  ELSE IF stage = "done" THEN Done(reason) ELSE Failure
IsEmpty == stage \in {"piece", "tail", "last"} /\ out = <<>>

(* Slip: the end of the budget drops what is held back.                    *)
ProceedDropping(held) ==
  LET next == IF stage = "piece" THEN (IF tokens >= MaxTokens THEN "done" ELSE "ready")
              ELSE IF stage = "last" THEN "done" ELSE "ended"
  IN
  /\ stage' = next
  /\ out' = <<>> /\ pending' = held
  /\ up_tx' = (next # "ended")

(* What comes after it: more tokens, the text held back once the budget is *)
(* spent, the last event, or the end, when the loop lets go of the channel.*)
Proceed(held) ==
  LET next == IF stage = "piece" THEN (IF tokens >= MaxTokens THEN "tail" ELSE "ready")
              ELSE IF stage \in {"tail", "last"} THEN "done" ELSE "ended"
  IN
  /\ stage' = next
  /\ out' = IF next = "tail" THEN held ELSE <<>>
  /\ pending' = IF next = "tail" THEN <<>> ELSE held
  /\ up_tx' = (next # "ended")

Quit == stage' = "ended" /\ out' = <<>> /\ up_tx' = FALSE /\ UNCHANGED pending

(* Slip: text that comes back goes behind what is held back.               *)
OfferBehind ==
  LET room == Len(up) < Capacity IN
  /\ stage \notin {"ready", "ended"}
  /\ IF IsEmpty \/ (up_rx /\ room)
       THEN /\ Proceed(pending)
            /\ up' = (IF IsEmpty THEN up ELSE Append(up, Offered))
            /\ UNCHANGED full
     ELSE IF ~up_rx THEN Quit /\ UNCHANGED <<up, full>>
     ELSE /\ Batched
          /\ Proceed(IF stage = "piece" THEN pending \o out ELSE pending)
          /\ full' = TRUE /\ UNCHANGED up
  /\ UNCHANGED <<kind, written, tokens, reason, up_rx, relay, client>>

(* It is handed over if there is room.  If there is not, the sequential    *)
(* loop waits; the scheduler goes on, and holds a piece's text back again, *)
(* but drops anything else.  A client that is gone ends the sequence.      *)
Offer ==
  LET room == Len(up) < Capacity
      gone == ~up_rx /\ (IF Batched THEN stage = "piece" ELSE ~IsEmpty)
  IN
  /\ stage \notin {"ready", "ended"}
  /\ IF gone THEN Quit /\ UNCHANGED <<up, full>>
     ELSE IF IsEmpty \/ ~up_rx THEN Proceed(pending) /\ UNCHANGED <<up, full>>
     ELSE IF room THEN Proceed(pending) /\ up' = Append(up, Offered) /\ UNCHANGED full
     ELSE /\ Batched
          /\ Proceed(IF stage = "piece" THEN out \o pending ELSE pending)
          /\ full' = TRUE /\ UNCHANGED up
  /\ UNCHANGED <<kind, written, tokens, reason, up_rx, relay, client>>

-----------------------------------------------------------------------------
(* The monitor's task (forward), which owns the first channel's far end.   *)

Settle(b) == IF b \in {"done", "failed"} THEN b ELSE "failed"

(* The task ends: both channels lose its end, and a request that is not    *)
(* answered counts as failed.                                              *)
ForwardEnds ==
  /\ up_rx' = FALSE /\ down_tx' = FALSE
  /\ carried' = Nothing /\ book' = Settle(book)

(* Slip: any last event counts as an answer.                               *)
ReceiveAny ==
  /\ down_tx /\ carried = Nothing
  /\ IF up # <<>>
       THEN /\ carried' = Head(up) /\ up' = Tail(up)
            /\ book' = IF Head(up).event # "token" THEN "done"
                       ELSE IF book = "reading" THEN "generating" ELSE book
            /\ UNCHANGED <<up_rx, down_tx>>
       ELSE ~up_tx /\ ForwardEnds /\ UNCHANGED up
  /\ UNCHANGED <<kind, model, up_tx, down, client, full>>

(* The next event is taken, and noted; the loop letting go ends the task.  *)
Receive ==
  /\ down_tx /\ carried = Nothing
  /\ IF up # <<>>
       THEN /\ carried' = Head(up) /\ up' = Tail(up)
            /\ book' = IF Head(up).event = "done" THEN "done"
                       ELSE IF Head(up).event = "error" THEN "failed"
                       ELSE IF book = "reading" THEN "generating" ELSE book
            /\ UNCHANGED <<up_rx, down_tx>>
       ELSE ~up_tx /\ ForwardEnds /\ UNCHANGED up
  /\ UNCHANGED <<kind, model, up_tx, down, client, full>>

(* Slip: a reader that is gone is waited for.                              *)
PassWaiting ==
  /\ carried # Nothing /\ down_rx /\ Len(down) < Hop
  /\ down' = Append(down, carried) /\ carried' = Nothing
  /\ UNCHANGED <<kind, model, up, up_tx, up_rx, down_tx, book, client, full>>

(* It waits for room, but not for a reader that is gone.                   *)
Pass ==
  /\ carried # Nothing
  /\ IF down_rx
       THEN /\ Len(down) < Hop
            /\ down' = Append(down, carried) /\ carried' = Nothing
            /\ UNCHANGED <<up_rx, down_tx, book>>
       ELSE ForwardEnds /\ UNCHANGED down
  /\ UNCHANGED <<kind, model, up, up_tx, client, full>>

-----------------------------------------------------------------------------
(* The handler: collect_stream, or a stream's body. *)

Reading == down_rx /\ told = "nothing"
Tell(how) == told' = how /\ down_rx' = FALSE

(* The next event; a channel that ends without a last one is an answer cut *)
(* off, and collect_stream says Length.                                    *)
Read ==
  /\ Reading
  /\ IF down # <<>>
       THEN /\ down' = Tail(down)
            /\ IF Head(down).event = "token"
                 THEN got' = got \o Head(down).text /\ UNCHANGED <<told, down_rx>>
               ELSE /\ Tell(IF Head(down).event = "done" THEN Head(down).reason ELSE "Error")
                    /\ UNCHANGED got
       ELSE /\ ~down_tx
            /\ Tell(IF kind[2] = "whole" THEN "Length" ELSE "cut off")
            /\ UNCHANGED <<got, down>>
  /\ UNCHANGED <<kind, model, up, up_tx, up_rx, carried, down_tx, book, full>>

(* The client leaves, and its handler or stream is dropped.                *)
Leave ==
  /\ Reading
  /\ Tell("left")
  /\ UNCHANGED <<kind, model, up, up_tx, up_rx, relay, got, full>>

-----------------------------------------------------------------------------
Init ==
  /\ kind \in Kinds
  /\ written \in Openings /\ pending = written
  /\ tokens = 0 /\ stage = "ready" /\ out = <<>> /\ reason = "Length"
  /\ up = <<>> /\ up_tx = TRUE /\ up_rx = TRUE
  /\ carried = Nothing /\ down = <<>> /\ down_tx = TRUE /\ down_rx = TRUE
  /\ book = "reading"
  /\ got = <<>> /\ told = "nothing" /\ full = FALSE

Next == Sample \/ Offer \/ Receive \/ Pass \/ Read \/ Leave

(* The loop and the monitor's task run on, and so does a handler: a client *)
(* that neither reads nor leaves may keep its request for ever.            *)
Spec ==
  /\ Init /\ [][Next]_vars
  /\ WF_vars(Sample \/ Offer) /\ WF_vars(Receive \/ Pass) /\ WF_vars(Read)

-----------------------------------------------------------------------------
(* Properties. *)

Texts(events) ==
  FoldLeft(LAMBDA t, e : IF e.event = "token" THEN t \o e.text ELSE t, <<>>, events)

(* Every variable holds what the code can put in it, and no channel more   *)
(* than its capacity.                                                      *)
TypeOK ==
  /\ kind \in Kinds
  /\ tokens \in 0..MaxTokens
  /\ stage \in {"ready", "piece", "last", "tail", "done", "error", "ended"}
  /\ reason \in {"Stop", "Length"}
  /\ Len(up) <= Capacity /\ Len(down) <= Hop
  /\ \A e \in ToSet(up \o down) \cup {carried} :
       e.event \in {"none", "token", "done", "error"}
  /\ \A b \in {up_tx, up_rx, down_tx, down_rx, full} : b \in BOOLEAN
  /\ book \in {"reading", "generating", "done", "failed"}
  /\ told \in {"nothing", "Stop", "Length", "Error", "cut off", "left"}

(* However the text was cut in pieces, held back, or handed back by a full *)
(* channel, the client has the beginning of what it should see: nothing    *)
(* missing in the middle, out of order, or of a marker (a_slow_client_...).*)
NothingMissingBefore ==
  Plain(written) => IsPrefix(got, Shown(written))

(* All it should see of an answer that is over: of one that ended on an    *)
(* end-of-generation token, not the beginning of a marker that was never   *)
(* finished, and nothing if the model wrote nothing.                       *)
Owed ==
  LET text == Shown(written) IN
  IF reason = "Length" \/ Stopped(written) THEN text
  ELSE IF tokens = 0 THEN <<>> ELSE SubSeq(text, 1, Len(text) - Holdback(written))

(* A client told that its answer is over has all of it.                    *)
WholeWhenTold ==
  told \in {"Stop", "Length"} /\ Plain(written) => got = Owed

(* The same while the loop's channel was never full.                       *)
WholeUnlessFull == full \/ WholeWhenTold

(* However slowly a client read, an answer it is told has ended is whole   *)
(* ("no byte may be lost or reordered", scheduler.rs:4251).                *)
NoByteLost == told = "Stop" => WholeWhenTold

(* What the monitor's book says of a request whose client stayed is what   *)
(* the client was told: it is not shown as answered when it was not.       *)
BookAgrees ==
  told \in {"Stop", "Length", "Error", "cut off"} /\ ~full =>
    (book = "done" <=> told \in {"Stop", "Length"})

(* Under fairness: the loop ends, its channels are let go of, the book has *)
(* an outcome, and a client that stays is told one: no two of the three    *)
(* wait for each other, or for a client that left.                         *)
EverybodyEnds ==
  <>[](stage = "ended" /\ ~up_rx /\ ~down_tx /\ told # "nothing"
       /\ book \in {"done", "failed"})
=============================================================================
