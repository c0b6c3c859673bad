--------------------------- MODULE DeliveryProofs ---------------------------
(***************************************************************************)
(* One answer on its way, for every text, budget and channel capacity:     *)
(* every variable holds what the code can put in it, the monitor's book    *)
(* agrees with what the client was told, and the client has what it should *)
(* see.                                                                    *)
(*                                                                         *)
(* DeliveryInv says where the last event is, whatever the texts are.       *)
(* FlowInv says where the text is, for texts without a filter sequence:    *)
(* what follows from there needs what the stop filter does to a text,      *)
(* piece by piece and as a whole, and comes before it.                     *)
(***************************************************************************)
EXTENDS Delivery, SequenceTheorems, WellFoundedInduction, TLAPS

-----------------------------------------------------------------------------
(* A channel is a sequence of whatever was put in it.                      *)

SeqAny(s) == \E S : s \in Seq(S)

LEMMA AppendTo ==
  ASSUME NEW s, SeqAny(s), NEW e
  PROVE  /\ SeqAny(Append(s, e)) /\ Len(s) \in Nat /\ Len(Append(s, e)) = Len(s) + 1
         /\ \A k \in 1..Len(s) : Append(s, e)[k] = s[k]
         /\ Append(s, e)[Len(s) + 1] = e /\ Append(s, e) # <<>>
<1>1. PICK S : s \in Seq(S)  BY DEF SeqAny
<1>2. s \in Seq(S \cup {e})  BY <1>1
<1>3. Append(s, e) \in Seq(S \cup {e})  BY <1>2
<1>4. QED BY <1>2, <1>3 DEF SeqAny

LEMMA TakeFrom ==
  ASSUME NEW s, SeqAny(s), s # <<>>
  PROVE  /\ SeqAny(Tail(s)) /\ Len(s) \in Nat \ {0} /\ Len(Tail(s)) = Len(s) - 1
         /\ Head(s) = s[1] /\ \A k \in 1..Len(Tail(s)) : Tail(s)[k] = s[k + 1]
         /\ (Len(s) = 1 => Tail(s) = <<>>)
<1>1. PICK S : s \in Seq(S)  BY DEF SeqAny
<1>2. Len(s) \in Nat \ {0}  BY <1>1
<1>3. Tail(s) \in Seq(S)  BY <1>1
<1>4. QED BY <1>1, <1>2, <1>3 DEF SeqAny

LEMMA NoneLeft ==
  ASSUME NEW s, SeqAny(s)
  PROVE  Len(s) \in Nat /\ (s = <<>> <=> Len(s) = 0)
BY DEF SeqAny

-----------------------------------------------------------------------------
(* The inductive invariant of the events. *)

Stages == {"ready", "piece", "last", "tail", "done", "error", "ended"}
Books  == {"reading", "generating", "done", "failed"}
Tellings == {"nothing", "Stop", "Length", "Error", "cut off", "left"}

Typed ==
  /\ kind \in Kinds /\ tokens \in 0..MaxTokens /\ stage \in Stages
  /\ reason \in {"Stop", "Length"} /\ book \in Books /\ told \in Tellings
  /\ SeqAny(up) /\ Len(up) <= Capacity /\ SeqAny(down) /\ Len(down) <= Hop
  /\ full \in BOOLEAN /\ down_tx \in BOOLEAN

EventOK(e) ==
  /\ e.event \in {"token", "done", "error"}
  /\ e.event = "done" => e.reason \in {"Stop", "Length"}

LastEvent(e) == e.event \in {"done", "error"}

(* The last event and the book tell the same.                              *)
Settled    == book \in {"done", "failed"}
Matches(e) == (e.event = "done" /\ book = "done") \/ (e.event = "error" /\ book = "failed")

(* Who has let go of which end.                                            *)
EndsOK ==
  /\ up_tx = (stage # "ended") /\ up_rx = down_tx /\ down_rx = (told = "nothing")
  /\ stage = "ready" => tokens < MaxTokens
  /\ ~down_tx => carried = Nothing /\ Settled

(* Nothing follows a last event in the loop's channel, and one is there    *)
(* when the loop has let go of it, or has been taken from it.              *)
UpOK ==
  \A k \in 1..Len(up) :
    EventOK(up[k]) /\ (LastEvent(up[k]) => k = Len(up) /\ stage = "ended")
Handed ==
  stage = "ended" /\ down_tx /\ ~full => Settled \/ (up # <<>> /\ LastEvent(up[Len(up)]))

(* The book is settled with the last event, and that is on its way until   *)
(* the client has it.                                                      *)
Taken == down_tx /\ Settled => up = <<>> /\ stage = "ended"
CarriedOK == carried # Nothing => EventOK(carried) /\ (LastEvent(carried) => Matches(carried))
DownOK ==
  \A k \in 1..Len(down) :
    /\ EventOK(down[k])
    /\ told = "nothing" /\ LastEvent(down[k]) =>
         k = Len(down) /\ carried = Nothing /\ Matches(down[k])
OnItsWay ==
  told = "nothing" /\ ~full /\ Settled =>
    \/ carried # Nothing /\ Matches(carried)
    \/ down # <<>> /\ Matches(down[Len(down)])

ToldOK ==
  told \in {"Stop", "Length", "Error", "cut off"} /\ ~full =>
    Settled /\ told # "cut off" /\ (book = "done" <=> told # "Error")

DeliveryInv ==
  /\ Typed /\ EndsOK /\ UpOK /\ Handed /\ Taken /\ CarriedOK /\ DownOK /\ OnItsWay /\ ToldOK

LEMMA EventsDiffer ==
  /\ \A e : EventOK(e) => e # Nothing
  /\ \A r \in {"Stop", "Length"} : EventOK(Done(r)) /\ LastEvent(Done(r)) /\ Done(r).event = "done"
  /\ \A t : EventOK(Token(t)) /\ ~LastEvent(Token(t))
  /\ EventOK(Failure) /\ LastEvent(Failure)
BY DEF EventOK, LastEvent, Nothing, Done, Token, Failure

LEMMA InitDelivery == Init => DeliveryInv
<1> SUFFICES ASSUME Init PROVE DeliveryInv  OBVIOUS
<1>1. SeqAny(<<>>) /\ Len(<<>>) = 0  BY DEF SeqAny
<1>a. 0 \in 0..MaxTokens /\ 0 < MaxTokens /\ 0 <= Capacity /\ 0 <= Hop  BY DeliveryAssumption
<1>2. Typed  BY <1>1, <1>a DEF Init, Typed, Stages, Books, Tellings
<1>3. EndsOK  BY <1>a DEF Init, EndsOK
<1>4. UpOK /\ DownOK  BY <1>1 DEF Init, UpOK, DownOK
<1>5. Handed /\ Taken /\ CarriedOK /\ OnItsWay /\ ToldOK
  BY DEF Init, Handed, Taken, CarriedOK, OnItsWay, ToldOK, Settled
<1>6. QED BY <1>2, <1>3, <1>4, <1>5 DEF DeliveryInv

(* The loop samples: its channel is open, so nothing last is in it.        *)
LEMMA SampleStep == DeliveryInv /\ Sample => DeliveryInv'
<1> SUFFICES ASSUME DeliveryInv, Sample PROVE DeliveryInv'  OBVIOUS
<1>1. /\ stage = "ready" /\ stage' \in {"done", "error", "tail", "last", "piece"}
      /\ reason' \in {"Stop", "Length"}
      /\ UNCHANGED <<kind, up, up_tx, up_rx, relay, client, full>>
  BY DEF Sample, DeliveryInv, Typed
<1>2. tokens' \in {tokens, tokens + 1}  BY DEF Sample
<1>3. UNCHANGED <<kind, up, up_tx, up_rx, carried, down, down_tx, book, got, told, down_rx, full>>
  BY <1>1 DEF relay, client
<1>4. tokens' \in 0..MaxTokens
  BY <1>1, <1>2, DeliveryAssumption DEF DeliveryInv, Typed, EndsOK
<1>5. Typed' /\ EndsOK'
  BY <1>1, <1>3, <1>4 DEF DeliveryInv, Typed, EndsOK, Stages, Settled
<1>6. UpOK' /\ Handed' /\ Taken'
  BY <1>1, <1>3 DEF DeliveryInv, UpOK, Handed, Taken, Settled
<1>7. CarriedOK' /\ DownOK' /\ OnItsWay' /\ ToldOK'
  BY <1>3 DEF DeliveryInv, CarriedOK, DownOK, OnItsWay, ToldOK, Matches, Settled
<1>8. QED BY <1>5, <1>6, <1>7 DEF DeliveryInv

(* It hands an event over, drops it, or quits: nothing follows a last one. *)
LEMMA OfferStep == DeliveryInv /\ Offer => DeliveryInv'
<1> SUFFICES ASSUME DeliveryInv, Offer PROVE DeliveryInv'  OBVIOUS
<1>1. UNCHANGED <<kind, tokens, reason, up_rx, carried, down, down_tx, book, got, told, down_rx>>
  BY DEF Offer, relay, client
<1>2. stage \in Stages \ {"ready", "ended"} /\ up_rx = down_tx
  BY DEF Offer, DeliveryInv, Typed, EndsOK
<1>3. /\ stage' \in Stages /\ up_tx' = (stage' # "ended")
      /\ stage' = "ready" => tokens < MaxTokens
      /\ stage' = "ended" /\ up_rx => stage \in {"done", "error"}
  <2>1. tokens \in Nat /\ MaxTokens \in Nat  BY DeliveryAssumption DEF DeliveryInv, Typed
  <2>2. CASE Quit /\ (~up_rx)  BY <2>2, <1>2 DEF Quit, Stages
  <2>3. ASSUME NEW held, Proceed(held)
        PROVE  /\ stage' \in Stages /\ up_tx' = (stage' # "ended")
               /\ stage' = "ready" => tokens < MaxTokens
               /\ stage' = "ended" => stage \in {"done", "error"}
    BY <2>1, <2>3, <1>2 DEF Proceed, Stages
  <2>4. \/ Quit /\ (~up_rx)
        \/ Proceed(pending) \/ Proceed(IF stage = "piece" THEN out \o pending ELSE pending)
    BY DEF Offer
  <2>5. QED BY <2>2, <2>3, <2>4
<1>4. SeqAny(up) /\ Len(up) \in Nat  BY NoneLeft DEF DeliveryInv, Typed
<1>5. \/ up' = up /\ full' = full /\ (up_rx => stage \notin {"done", "error"})
      \/ up' = up /\ full' = TRUE
      \/ up' = Append(up, Offered) /\ full' = full /\ up_rx /\ Len(up) < Capacity
  BY <1>2 DEF Offer, Quit, IsEmpty
<1>6. EventOK(Offered) /\ (LastEvent(Offered) <=> stage \in {"done", "error"})
  BY <1>2, EventsDiffer DEF Offered, DeliveryInv, Typed, Stages
<1>7. \A k \in 1..Len(up) : EventOK(up[k]) /\ ~LastEvent(up[k])
  BY <1>2 DEF DeliveryInv, UpOK
<1>8. ~(down_tx /\ Settled)  BY <1>2 DEF DeliveryInv, Taken
<1>9. stage \in {"done", "error"} => stage' = "ended"
  BY <1>2 DEF Offer, Quit, Proceed
<1>10. /\ Len(up') \in Nat /\ Len(up') <= Capacity /\ SeqAny(up') /\ full' \in BOOLEAN
       /\ \A k \in 1..Len(up') :
            EventOK(up'[k]) /\ (LastEvent(up'[k]) => k = Len(up') /\ stage' = "ended")
  <2>1. CASE up' = up
    BY <2>1, <1>4, <1>5, <1>7 DEF DeliveryInv, Typed
  <2>2. CASE up' = Append(up, Offered) /\ full' = full /\ Len(up) < Capacity
    <3>1. /\ SeqAny(up') /\ Len(up') = Len(up) + 1 /\ up'[Len(up) + 1] = Offered
          /\ \A k \in 1..Len(up) : up'[k] = up[k]
      BY <2>2, <1>4, AppendTo
    <3>2. ASSUME NEW k \in 1..Len(up')
          PROVE  EventOK(up'[k]) /\ (LastEvent(up'[k]) => k = Len(up') /\ stage' = "ended")
      <4>1. CASE k \in 1..Len(up)  BY <4>1, <3>1, <1>7
      <4>2. CASE k = Len(up) + 1  BY <4>2, <3>1, <1>6, <1>9
      <4>3. QED BY <4>1, <4>2, <3>1, <1>4
    <3>3. QED BY <2>2, <3>1, <3>2, <1>4, DeliveryAssumption DEF DeliveryInv, Typed
  <2>3. QED BY <1>5, <2>1, <2>2
<1>11. Typed' /\ EndsOK'
  BY <1>1, <1>3, <1>10 DEF DeliveryInv, Typed, EndsOK, Settled
<1>12. UpOK'  BY <1>10 DEF UpOK
<1>13. Handed'
  <2> SUFFICES ASSUME stage' = "ended", down_tx, ~full'
               PROVE  up' # <<>> /\ LastEvent(up'[Len(up')])
    BY <1>1 DEF Handed
  <2>1. stage \in {"done", "error"} /\ up_rx  BY <1>2, <1>3
  <2>2. up' = Append(up, Offered)  BY <2>1, <1>5
  <2>3. QED BY <2>1, <2>2, <1>4, <1>6, AppendTo
<1>14. Taken'  BY <1>1, <1>8 DEF Taken, Settled
<1>15. full => full'  BY <1>5
<1>16. CarriedOK' /\ DownOK'
  BY <1>1 DEF DeliveryInv, CarriedOK, DownOK, Matches
<1>17. OnItsWay' /\ ToldOK'
  BY <1>1, <1>15 DEF DeliveryInv, OnItsWay, ToldOK, Matches, Settled
<1>18. QED BY <1>11, <1>12, <1>13, <1>14, <1>16, <1>17 DEF DeliveryInv

(* The monitor's task ends: with the loop, when the book is settled, or    *)
(* because the client is gone.                                             *)
LEMMA ForwardEndsStep ==
  ASSUME DeliveryInv, ForwardEnds, told # "nothing" \/ (carried = Nothing /\ (full \/ Settled)),
         UNCHANGED <<kind, model, up, up_tx, down, client, full>>
  PROVE  DeliveryInv'
<1>1. /\ UNCHANGED <<kind, tokens, stage, reason, up, up_tx, down, down_rx, got, told, full>>
      /\ ~up_rx' /\ up_rx' = FALSE /\ down_tx' = FALSE /\ carried' = Nothing /\ Settled'
      /\ Settled => book' = book
      /\ book' \in Books
  BY DEF ForwardEnds, Settle, model, client, Settled, Books
<1>2. Typed' /\ EndsOK'  BY <1>1 DEF DeliveryInv, Typed, EndsOK
<1>3. UpOK' /\ Handed' /\ Taken' /\ CarriedOK'
  BY <1>1 DEF DeliveryInv, UpOK, Handed, Taken, CarriedOK
<1>4. ToldOK'
  <2>1. CASE told \in {"Stop", "Length", "Error", "cut off"} /\ ~full
    <3>1. Settled /\ told # "cut off" /\ (book = "done" <=> told # "Error")
      BY <2>1 DEF DeliveryInv, ToldOK
    <3>2. book' = book /\ told' = told  BY <3>1, <1>1
    <3>3. QED BY <3>1, <3>2, <1>1 DEF ToldOK
  <2>2. CASE told \notin {"Stop", "Length", "Error", "cut off"}  BY <2>2, <1>1 DEF ToldOK
  <2>3. CASE full
    <3>1. full' = full  BY <1>1
    <3>2. full'  BY <2>3, <3>1
    <3>3. QED BY <3>2 DEF ToldOK
  <2>4. QED BY <2>1, <2>2, <2>3
<1>5. DownOK'
  <2>1. ASSUME NEW k \in 1..Len(down), told = "nothing", LastEvent(down[k])
        PROVE  Matches(down[k])'
    <3>1. Matches(down[k]) /\ Settled  BY <2>1 DEF DeliveryInv, DownOK, Matches, Settled
    <3>2. QED BY <3>1, <1>1 DEF Matches
  <2>2. QED BY <1>1, <2>1 DEF DeliveryInv, DownOK, Matches
<1>6. OnItsWay'
  <2> SUFFICES ASSUME told = "nothing", ~full PROVE down # <<>> /\ Matches(down[Len(down)])'
    BY <1>1 DEF OnItsWay, Matches
  <2>1. Settled /\ book' = book  BY <1>1
  <2>2. CASE down # <<>> /\ Matches(down[Len(down)])
    BY <2>1, <2>2, <1>1 DEF Matches
  <2>3. QED BY <2>1, <2>2 DEF DeliveryInv, OnItsWay
<1>7. QED BY <1>2, <1>3, <1>4, <1>5, <1>6 DEF DeliveryInv

LEMMA ReceiveStep == DeliveryInv /\ Receive => DeliveryInv'
<1> SUFFICES ASSUME DeliveryInv, Receive PROVE DeliveryInv'  OBVIOUS
<1>1. down_tx /\ carried = Nothing /\ UNCHANGED <<kind, model, up_tx, down, client, full>>
  BY DEF Receive
<1>2. CASE up # <<>>
  <2> DEFINE e == Head(up)
  <2>1. /\ carried' = e /\ up' = Tail(up) /\ UNCHANGED <<up_rx, down_tx>>
        /\ book' = IF e.event = "done" THEN "done"
                   ELSE IF e.event = "error" THEN "failed"
                   ELSE IF book = "reading" THEN "generating" ELSE book
    BY <1>2 DEF Receive
  <2>2. UNCHANGED <<kind, tokens, stage, reason, up_rx, up_tx, down, down_tx, down_rx, got, told, full>>
    BY <1>1, <2>1 DEF model, client
  <2>3. ~Settled  BY <1>1, <1>2 DEF DeliveryInv, Taken
  <2>4. /\ SeqAny(up') /\ Len(up) \in Nat \ {0} /\ Len(up') = Len(up) - 1 /\ e = up[1]
        /\ \A k \in 1..Len(up') : up'[k] = up[k + 1]
        /\ Len(up) = 1 => up' = <<>>
    BY <1>2, <2>1, TakeFrom DEF DeliveryInv, Typed
  <2>5. EventOK(e) /\ (LastEvent(e) => Len(up) = 1 /\ stage = "ended")
    BY <2>4 DEF DeliveryInv, UpOK
  <2> HIDE DEF e
  <2>6. /\ book \in {"reading", "generating"} /\ book' \in Books
        /\ e.event = "done" => book' = "done"
        /\ e.event = "error" => book' = "failed"
        /\ ~LastEvent(e) => book' \in {"reading", "generating"}
    BY <2>1, <2>3, <2>5 DEF LastEvent, EventOK, Settled, DeliveryInv, Typed, Books
  <2>7. Settled' => LastEvent(e)  BY <2>6 DEF Settled
  <2>8. Typed' /\ EndsOK'
    BY <1>1, <2>2, <2>4, <2>6, DeliveryAssumption DEF DeliveryInv, Typed, EndsOK
  <2>9. UpOK'
    <3>1. ASSUME NEW k \in 1..Len(up')
          PROVE  EventOK(up'[k]) /\ (LastEvent(up'[k]) => k = Len(up') /\ stage' = "ended")
      <4>1. up'[k] = up[k + 1] /\ k + 1 \in 1..Len(up)  BY <2>4
      <4>2. EventOK(up[k + 1]) /\ (LastEvent(up[k + 1]) => k + 1 = Len(up) /\ stage = "ended")
        BY <4>1 DEF DeliveryInv, UpOK
      <4>3. QED BY <4>1, <4>2, <2>2, <2>4
    <3>2. QED BY <3>1 DEF UpOK
  <2>10. Taken'  BY <2>2, <2>4, <2>5, <2>7 DEF Taken
  <2>11. Handed'
    <3> SUFFICES ASSUME stage = "ended", ~full, ~Settled'
                 PROVE  up' # <<>> /\ LastEvent(up'[Len(up')])
      BY <2>2 DEF Handed
    <3>1. LastEvent(up[Len(up)])  BY <1>1, <2>3 DEF DeliveryInv, Handed
    <3>2. ~LastEvent(e)  BY <2>5, <2>6 DEF Settled, LastEvent
    <3>3. Len(up) # 1 /\ Len(up') \in 1..Len(up') /\ Len(up') + 1 = Len(up)
      BY <3>1, <3>2, <2>4
    <3>4. up'[Len(up')] = up[Len(up)]  BY <3>3, <2>4
    <3>5. up' # <<>>  BY <3>3, <2>4, NoneLeft
    <3>6. QED BY <3>1, <3>4, <3>5
  <2>12. CarriedOK'  BY <2>1, <2>5, <2>6 DEF CarriedOK, Matches, LastEvent
  <2>13. ASSUME NEW k \in 1..Len(down), told = "nothing" PROVE ~LastEvent(down[k])
    BY <2>3, <2>13 DEF DeliveryInv, DownOK, Matches, Settled
  <2>14. DownOK'
    BY <2>2, <2>13 DEF DeliveryInv, DownOK
  <2>15. OnItsWay'
    BY <2>1, <2>5, <2>6, <2>7, EventsDiffer DEF OnItsWay, Matches, LastEvent, Settled
  <2>16. ToldOK'
    BY <2>2, <2>3 DEF DeliveryInv, ToldOK
  <2>17. QED BY <2>8, <2>9, <2>10, <2>11, <2>12, <2>14, <2>15, <2>16 DEF DeliveryInv
<1>3. CASE up = <<>>
  <2>1. ~up_tx /\ ForwardEnds /\ UNCHANGED up  BY <1>3 DEF Receive
  <2>2. full \/ Settled  BY <1>1, <1>3, <2>1 DEF DeliveryInv, EndsOK, Handed, Typed
  <2>3. QED BY <1>1, <2>1, <2>2, ForwardEndsStep
<1>4. QED BY <1>2, <1>3

LEMMA PassStep == DeliveryInv /\ Pass => DeliveryInv'
<1> SUFFICES ASSUME DeliveryInv, Pass PROVE DeliveryInv'  OBVIOUS
<1>1. carried # Nothing /\ UNCHANGED <<kind, model, up, up_tx, client, full>>  BY DEF Pass
<1>2. CASE down_rx
  <2>1. /\ Len(down) < Hop /\ down' = Append(down, carried) /\ carried' = Nothing
        /\ UNCHANGED <<up_rx, down_tx, book>>
    BY <1>2 DEF Pass
  <2>2. UNCHANGED <<kind, tokens, stage, reason, up, up_rx, up_tx, down_tx, down_rx, got, told, full, book>>
    BY <1>1, <2>1 DEF model, client
  <2>3. /\ SeqAny(down') /\ Len(down) \in Nat /\ Len(down') = Len(down) + 1
        /\ \A k \in 1..Len(down) : down'[k] = down[k]
        /\ down'[Len(down')] = carried /\ down' # <<>>
    BY <2>1, AppendTo DEF DeliveryInv, Typed
  <2>4. told = "nothing"  BY <1>2 DEF DeliveryInv, EndsOK
  <2>5. EventOK(carried) /\ (LastEvent(carried) => Matches(carried))
    BY <1>1 DEF DeliveryInv, CarriedOK
  <2>6. Typed' /\ EndsOK'
    BY <1>1, <2>1, <2>2, <2>3, DeliveryAssumption DEF DeliveryInv, Typed, EndsOK, Settled
  <2>7. UpOK' /\ Handed' /\ Taken'
    BY <2>2 DEF DeliveryInv, UpOK, Handed, Taken, Settled
  <2>8. CarriedOK'  BY <2>1 DEF CarriedOK
  <2>9. DownOK'
    <3>1. ASSUME NEW k \in 1..Len(down')
          PROVE  /\ EventOK(down'[k])
                 /\ LastEvent(down'[k]) => k = Len(down') /\ Matches(down'[k])
      <4>1. CASE k \in 1..Len(down)
        <5>1. EventOK(down[k]) /\ ~LastEvent(down[k])
          BY <1>1, <2>4, <4>1 DEF DeliveryInv, DownOK
        <5>2. QED BY <5>1, <4>1, <2>3
      <4>2. CASE k = Len(down')  BY <4>2, <2>3, <2>5
      <4>3. QED BY <4>1, <4>2, <2>3
    <3>2. QED BY <3>1, <2>1, <2>2 DEF DownOK, Matches
  <2>10. OnItsWay'
    <3> SUFFICES ASSUME ~full, Settled PROVE Matches(carried)
      BY <2>2, <2>3 DEF OnItsWay, Matches, Settled
    <3>1. CASE down # <<>> /\ Matches(down[Len(down)])
      <4>1. Len(down) \in 1..Len(down)  BY <3>1, <2>3, NoneLeft DEF DeliveryInv, Typed
      <4>2. LastEvent(down[Len(down)])  BY <3>1 DEF Matches, LastEvent
      <4>3. QED BY <4>1, <4>2, <1>1, <2>4 DEF DeliveryInv, DownOK
    <3>2. QED BY <3>1, <2>4 DEF DeliveryInv, OnItsWay
  <2>11. ToldOK'  BY <2>2, <2>4 DEF ToldOK
  <2>12. QED BY <2>6, <2>7, <2>8, <2>9, <2>10, <2>11 DEF DeliveryInv
<1>3. CASE ~down_rx
  <2>1. ForwardEnds /\ UNCHANGED down  BY <1>3 DEF Pass
  <2>2. told # "nothing"  BY <1>3 DEF DeliveryInv, EndsOK
  <2>3. QED BY <1>1, <2>1, <2>2, ForwardEndsStep
<1>4. QED BY <1>2, <1>3

(* The client reads: the last event it is given is the last one it reads.  *)
LEMMA ReadStep == DeliveryInv /\ Read => DeliveryInv'
<1> SUFFICES ASSUME DeliveryInv, Read PROVE DeliveryInv'  OBVIOUS
<1>1. /\ told = "nothing" /\ down_rx
      /\ UNCHANGED <<kind, tokens, stage, reason, up, up_rx, up_tx, carried, down_tx, book, full>>
  BY DEF Read, Reading, model
<1>2. UpOK' /\ Handed' /\ Taken' /\ CarriedOK'
  BY <1>1 DEF DeliveryInv, UpOK, Handed, Taken, CarriedOK, Matches, Settled
<1>3. CASE down = <<>>
  <2>1. /\ ~down_tx /\ UNCHANGED down /\ down_rx' = FALSE
        /\ told' \in {"Length", "cut off"}
    BY <1>3 DEF Read, Tell
  <2>2. full  BY <1>1, <1>3, <2>1 DEF DeliveryInv, EndsOK, OnItsWay
  <2>3. Typed' /\ EndsOK'
    BY <1>1, <2>1 DEF DeliveryInv, Typed, EndsOK, Settled, Tellings
  <2>4. DownOK'  BY <1>1, <2>1 DEF DeliveryInv, DownOK
  <2>5. OnItsWay' /\ ToldOK'  BY <1>1, <2>2, <2>1 DEF OnItsWay, ToldOK
  <2>6. QED BY <1>2, <2>3, <2>4, <2>5 DEF DeliveryInv
<1>4. CASE down # <<>>
  <2> DEFINE e == Head(down)
  <2>1. /\ SeqAny(down') /\ Len(down) \in Nat \ {0} /\ Len(down') = Len(down) - 1
        /\ e = down[1] /\ \A k \in 1..Len(down') : down'[k] = down[k + 1]
    BY <1>4, TakeFrom DEF Read, DeliveryInv, Typed
  <2>2. /\ EventOK(e)
        /\ LastEvent(e) => 1 = Len(down) /\ carried = Nothing /\ Matches(e)
    BY <1>1, <2>1 DEF DeliveryInv, DownOK
  <2>3. /\ e.event = "token" => told' = "nothing" /\ down_rx' = down_rx
        /\ e.event # "token" => /\ down_rx' = FALSE
                                /\ told' = IF e.event = "done" THEN e.reason ELSE "Error"
    BY <1>1, <1>4 DEF Read, Tell
  <2> HIDE DEF e
  <2>4. Typed' /\ EndsOK'
    <3>1. told' \in Tellings /\ down_rx' = (told' = "nothing")
      BY <1>1, <2>2, <2>3 DEF EventOK, Tellings, DeliveryInv, EndsOK
    <3>2. Len(down') <= Hop
      BY <2>1, DeliveryAssumption DEF DeliveryInv, Typed
    <3>3. QED BY <1>1, <2>1, <3>1, <3>2 DEF DeliveryInv, Typed, EndsOK, Settled
  <2>5. DownOK'
    <3>1. ASSUME NEW k \in 1..Len(down')
          PROVE  /\ EventOK(down'[k])
                 /\ told' = "nothing" /\ LastEvent(down'[k]) =>
                      k = Len(down') /\ carried = Nothing /\ Matches(down'[k])
      <4>1. down'[k] = down[k + 1] /\ k + 1 \in 1..Len(down)  BY <2>1
      <4>2. /\ EventOK(down[k + 1])
            /\ LastEvent(down[k + 1]) =>
                 k + 1 = Len(down) /\ carried = Nothing /\ Matches(down[k + 1])
        BY <1>1, <4>1 DEF DeliveryInv, DownOK
      <4>3. QED BY <4>1, <4>2, <2>1
    <3>2. QED BY <3>1, <1>1 DEF DownOK, Matches
  <2>6. OnItsWay'
    <3> SUFFICES ASSUME e.event = "token", ~full, Settled
                 PROVE  \/ carried # Nothing /\ Matches(carried)
                        \/ down' # <<>> /\ Matches(down'[Len(down')])
      <4>1. told' = "nothing" => e.event = "token"  BY <2>2, <2>3 DEF EventOK
      <4>2. QED BY <4>1, <1>1 DEF OnItsWay, Matches, Settled
    <3>1. CASE carried # Nothing /\ Matches(carried)  BY <3>1
    <3>2. CASE down # <<>> /\ Matches(down[Len(down)])
      <4>1. Len(down) # 1  BY <3>2, <2>1 DEF Matches
      <4>2. Len(down') \in 1..Len(down') /\ Len(down') + 1 = Len(down)  BY <4>1, <2>1
      <4>3. down'[Len(down')] = down[Len(down)]  BY <4>2, <2>1
      <4>4. down' # <<>>  BY <4>2, <2>1, NoneLeft
      <4>5. QED BY <3>2, <4>3, <4>4
    <3>3. QED BY <3>1, <3>2, <1>1 DEF DeliveryInv, OnItsWay
  <2>7. ToldOK'
    <3>1. CASE e.event = "token"  BY <3>1, <2>3 DEF ToldOK
    <3>2. CASE e.event = "done"
      <4>1. Matches(e) /\ told' \in {"Stop", "Length"}
        BY <3>2, <2>2, <2>3 DEF LastEvent, EventOK
      <4>2. book = "done"  BY <4>1, <3>2 DEF Matches
      <4>3. book' = "done"  BY <4>2, <1>1
      <4>4. QED BY <4>1, <4>3 DEF ToldOK, Settled
    <3>3. CASE e.event = "error"
      <4>1. Matches(e) /\ told' = "Error"
        BY <3>3, <2>2, <2>3 DEF LastEvent
      <4>2. book = "failed"  BY <4>1, <3>3 DEF Matches
      <4>3. book' = "failed"  BY <4>2, <1>1
      <4>4. QED BY <4>1, <4>3 DEF ToldOK, Settled
    <3>4. QED BY <2>2, <3>1, <3>2, <3>3 DEF EventOK
  <2>8. QED BY <1>2, <2>4, <2>5, <2>6, <2>7 DEF DeliveryInv
<1>5. QED BY <1>3, <1>4

LEMMA LeaveStep == DeliveryInv /\ Leave => DeliveryInv'
<1> SUFFICES ASSUME DeliveryInv, Leave PROVE DeliveryInv'  OBVIOUS
<1>1. /\ told' = "left" /\ down_rx' = FALSE
      /\ UNCHANGED <<kind, tokens, stage, reason, up, up_rx, up_tx, carried, down, down_tx, book, full>>
  BY DEF Leave, Tell, model, relay
<1>2. Typed' /\ EndsOK'
  BY <1>1 DEF DeliveryInv, Typed, EndsOK, Settled, Tellings
<1>3. UpOK' /\ Handed' /\ Taken' /\ CarriedOK' /\ DownOK'
  BY <1>1 DEF DeliveryInv, UpOK, Handed, Taken, CarriedOK, DownOK, Matches, Settled
<1>4. OnItsWay' /\ ToldOK'  BY <1>1 DEF OnItsWay, ToldOK
<1>5. QED BY <1>2, <1>3, <1>4 DEF DeliveryInv

LEMMA DeliveryHolds == Spec => []DeliveryInv
<1>1. DeliveryInv /\ [Next]_vars => DeliveryInv'
  <2>1. DeliveryInv /\ UNCHANGED vars => DeliveryInv'
    <3> SUFFICES ASSUME DeliveryInv, UNCHANGED vars PROVE DeliveryInv'  OBVIOUS
    <3>1. /\ UNCHANGED <<kind, tokens, stage, reason, up, up_rx, up_tx, carried, down, down_tx>>
          /\ UNCHANGED <<book, down_rx, told, full>>
      BY DEF vars, model, relay, client
    <3>2. Typed' /\ EndsOK'  BY <3>1 DEF DeliveryInv, Typed, EndsOK, Settled
    <3>3. UpOK' /\ Handed' /\ Taken' /\ CarriedOK'
      BY <3>1 DEF DeliveryInv, UpOK, Handed, Taken, CarriedOK, Matches, Settled
    <3>4. DownOK' /\ OnItsWay'
      BY <3>1 DEF DeliveryInv, DownOK, OnItsWay, Matches, Settled
    <3>5. ToldOK'  BY <3>1 DEF DeliveryInv, ToldOK, Settled
    <3>6. QED BY <3>2, <3>3, <3>4, <3>5 DEF DeliveryInv
  <2>2. QED BY <2>1, SampleStep, OfferStep, ReceiveStep, PassStep, ReadStep, LeaveStep DEF Next
<1>2. QED BY InitDelivery, <1>1, PTL DEF Spec

-----------------------------------------------------------------------------
(* Every variable holds what the code can put in it: no channel ever holds *)
(* more than its capacity, and no more tokens are sampled than the request *)
(* asked for.                                                              *)
THEOREM DeliveryTypeCorrect == Spec => []TypeOK
<1>1. ASSUME DeliveryInv PROVE TypeOK
  <2>1. kind \in Kinds /\ tokens \in 0..MaxTokens /\ reason \in {"Stop", "Length"}
    BY <1>1 DEF DeliveryInv, Typed
  <2>2. /\ stage \in {"ready", "piece", "last", "tail", "done", "error", "ended"}
        /\ book \in {"reading", "generating", "done", "failed"}
        /\ told \in {"nothing", "Stop", "Length", "Error", "cut off", "left"}
        /\ Len(up) <= Capacity /\ Len(down) <= Hop
    BY <1>1 DEF DeliveryInv, Typed, Stages, Books, Tellings
  <2>3. \A b \in {up_tx, up_rx, down_tx, down_rx, full} : b \in BOOLEAN
    BY <1>1 DEF DeliveryInv, Typed, EndsOK
  <2>4. carried.event \in {"none", "token", "done", "error"}
    BY <1>1 DEF DeliveryInv, CarriedOK, EventOK, Nothing
  <2>5. ASSUME NEW e \in ToSet(up \o down) PROVE e.event \in {"none", "token", "done", "error"}
    <3>1. PICK S : up \in Seq(S)  BY <1>1 DEF DeliveryInv, Typed, SeqAny
    <3>2. PICK T : down \in Seq(T)  BY <1>1 DEF DeliveryInv, Typed, SeqAny
    <3>3. up \in Seq(S \cup T) /\ down \in Seq(S \cup T)  BY <3>1, <3>2
    <3>4. PICK k \in DOMAIN (up \o down) : e = (up \o down)[k]  BY <2>5 DEF ToSet
    <3>5. \/ \E j \in 1..Len(up) : e = up[j]
          \/ \E j \in 1..Len(down) : e = down[j]
      <4>1. k \in 1..(Len(up) + Len(down))  BY <3>3, <3>4
      <4>2. CASE k <= Len(up)  BY <3>3, <3>4, <4>1, <4>2
      <4>3. CASE k > Len(up)
        <5>1. k - Len(up) \in 1..Len(down)  BY <3>3, <4>1, <4>3
        <5>2. e = down[k - Len(up)]  BY <3>3, <3>4, <4>1, <4>3
        <5>3. QED BY <5>1, <5>2
      <4>4. QED BY <3>3, <4>1, <4>2, <4>3
    <3>6. QED BY <1>1, <3>5 DEF DeliveryInv, UpOK, DownOK, EventOK
  <2>6. QED BY <2>1, <2>2, <2>3, <2>4, <2>5 DEF TypeOK
<1>2. QED BY <1>1, DeliveryHolds, PTL

(* What the monitor's book says of a request whose client stayed is what   *)
(* the client was told, however the loop, the monitor's task and the       *)
(* handler take turns: forward notes the last event before it hands it on, *)
(* and nothing after it changes the book.                                  *)
THEOREM BookIsRight == Spec => []BookAgrees
<1>1. DeliveryInv => BookAgrees
  BY DEF DeliveryInv, ToldOK, BookAgrees
<1>2. QED BY <1>1, DeliveryHolds, PTL

-----------------------------------------------------------------------------
LEMMA LeastNumber ==
  ASSUME NEW T, T \subseteq Nat, T # {}
  PROVE  \E t \in T : \A u \in T : ~(u < t)
<1>1. \E t \in T : \A u \in T : ~(<<u, t>> \in OpToRel(<, Nat))
  BY NatLessThanWellFounded, WFMin, Zenon
<1>2. \A t \in T, u \in T : u < t => <<u, t>> \in OpToRel(<, Nat)
  BY Zenon DEF OpToRel
<1> QED  BY <1>1, <1>2, Zenon

-----------------------------------------------------------------------------
(* Markers in a text.  A marker begins after the first p characters of it, *)
(* whole, or as far as the text goes.                                      *)

Occurs(w, p, m) ==
  p + Len(m) <= Len(w) /\ \A i \in 1..Len(m) : w[p + i] = m[i]
Begins(w, p, m) ==
  Len(w) < p + Len(m) /\ \A i \in 1..(Len(w) - p) : w[p + i] = m[i]

LEMMA MarkersAre ==
  /\ \A m \in Markers : m \in Seq(Chars) /\ Len(m) \in Nat \ {0}
  /\ Stops \subseteq Markers /\ ToSet(Filters) \subseteq Markers
<1>1. \A m \in Markers : m \in Seq(Chars) /\ Len(m) > 0
  BY DeliveryAssumption, FilterAssumption
<1>2. \A m \in Markers : Len(m) \in Nat  BY <1>1, LenProperties
<1> QED  BY <1>1, <1>2 DEF Markers

LEMMA Within ==
  ASSUME NEW w \in Seq(Chars), NEW a \in 0..Len(w), NEW b \in a..Len(w)
  PROVE  /\ SubSeq(w, a + 1, b) \in Seq(Chars) /\ Len(SubSeq(w, a + 1, b)) = b - a
         /\ \A i \in 1..(b - a) : SubSeq(w, a + 1, b)[i] = w[a + i]
<1>1. Len(w) \in Nat /\ \A i \in 1..Len(w) : w[i] \in Chars  BY LenProperties, ElementOfSeq
<1>2. a + 1 \in Int /\ b \in Int /\ \A i \in (a + 1)..b : w[i] \in Chars  BY <1>1
<1> DEFINE s == SubSeq(w, a + 1, b)
<1>3. /\ s \in Seq(Chars) /\ Len(s) = IF a + 1 <= b THEN b - (a + 1) + 1 ELSE 0
      /\ \A i \in 1..(b - (a + 1) + 1) : s[i] = w[(a + 1) + i - 1]
  BY <1>2, SubSeqProperties
<1> HIDE DEF s
<1>4. Len(s) = b - a  BY <1>1, <1>3
<1>5. \A i \in 1..(b - a) : s[i] = w[a + i]
  <2> TAKE i \in 1..(b - a)
  <2>1. i \in 1..(b - (a + 1) + 1) /\ (a + 1) + i - 1 = a + i  BY <1>1
  <2> QED  BY <1>3, <2>1
<1> QED  BY <1>3, <1>4, <1>5 DEF s

(* A part of a text is a marker where that occurs.                         *)
LEMMA OccursIs ==
  ASSUME NEW w \in Seq(Chars), NEW m \in Seq(Chars), NEW a \in 0..Len(w)
  PROVE  Occurs(w, a, m) <=> \E b \in a..Len(w) : SubSeq(w, a + 1, b) = m
<1>1. Len(w) \in Nat /\ Len(m) \in Nat  BY LenProperties
<1>2. ASSUME Occurs(w, a, m) PROVE \E b \in a..Len(w) : SubSeq(w, a + 1, b) = m
  <2> DEFINE b == a + Len(m)  s == SubSeq(w, a + 1, b)
  <2>1. b \in a..Len(w) /\ b - a = Len(m)  BY <1>1, <1>2 DEF Occurs
  <2>2. s \in Seq(Chars) /\ Len(s) = Len(m) /\ \A i \in 1..Len(m) : s[i] = w[a + i]
    BY <2>1, Within
  <2> HIDE DEF s
  <2>3. \A i \in 1..Len(s) : s[i] = m[i]  BY <1>2, <2>2 DEF Occurs
  <2>4. s = m  BY <2>2, <2>3, SeqEqual
  <2> QED  BY <2>1, <2>4 DEF s
<1>3. ASSUME NEW b \in a..Len(w), SubSeq(w, a + 1, b) = m PROVE Occurs(w, a, m)
  <2>1. Len(m) = b - a /\ \A i \in 1..(b - a) : m[i] = w[a + i]  BY <1>3, Within
  <2> QED  BY <1>1, <2>1 DEF Occurs
<1> QED  BY <1>2, <1>3

LEMMA HasIs ==
  ASSUME NEW w \in Seq(Chars), NEW m \in Markers
  PROVE  Has(w, m) <=> \E p \in 0..Len(w) : Occurs(w, p, m)
<1>1. Len(w) \in Nat /\ m \in Seq(Chars) /\ Len(m) \in Nat \ {0}  BY LenProperties, MarkersAre
<1>2. ASSUME Has(w, m) PROVE \E p \in 0..Len(w) : Occurs(w, p, m)
  <2>1. PICK i \in 0..Len(w), j \in 0..Len(w) : m = SubSeq(w, i + 1, j)
    BY <1>2 DEF Has, SubSeqs
  <2>2. j >= i
    <3> SUFFICES ASSUME j < i PROVE FALSE  BY <1>1
    <3>1. m = <<>>  BY <1>1, <2>1, SubSeqEmpty
    <3> QED  BY <1>1, <3>1
  <2>3. j \in i..Len(w)  BY <1>1, <2>2
  <2> QED  BY <1>1, <2>1, <2>3, OccursIs
<1>3. ASSUME NEW p \in 0..Len(w), Occurs(w, p, m) PROVE Has(w, m)
  <2>1. PICK b \in p..Len(w) : SubSeq(w, p + 1, b) = m  BY <1>1, <1>3, OccursIs
  <2>2. b \in 0..Len(w)  BY <1>1
  <2> QED  BY <2>1, <2>2 DEF Has, SubSeqs
<1> QED  BY <1>2, <1>3

(* IndexFirstSubSeq, as a number of characters before it.                  *)
LEMMA IndexIs ==
  ASSUME NEW w \in Seq(Chars), NEW m \in Markers, Has(w, m)
  PROVE  /\ IndexFirstSubSeq(m, w) \in 1..(Len(w) + 1)
         /\ Occurs(w, IndexFirstSubSeq(m, w) - 1, m)
         /\ \A p \in 0..Len(w) : Occurs(w, p, m) => IndexFirstSubSeq(m, w) - 1 <= p
<1>1. Len(w) \in Nat /\ m \in Seq(Chars) /\ Len(m) \in Nat \ {0}  BY LenProperties, MarkersAre
<1> DEFINE In(i) == m \in SubSeqs(SubSeq(w, 1, i))
           E == {i \in 0..Len(w) : In(i)}
           last == CHOOSE i \in 0..Len(w) : In(i) /\ \A j \in 0..i - 1 : ~In(j)
<1>2. ASSUME NEW i \in 0..Len(w)
      PROVE  In(i) <=> \E p \in 0..Len(w) : Occurs(w, p, m) /\ p + Len(m) <= i
  <2> DEFINE v == SubSeq(w, 1, i)
  <2>1. v \in Seq(Chars) /\ Len(v) = i /\ \A k \in 1..i : v[k] = w[k]
    <3>1. 0 \in 0..Len(w) /\ i \in 0..Len(w) /\ 0 + 1 = 1 /\ i - 0 = i  BY <1>1
    <3>2. /\ SubSeq(w, 0 + 1, i) \in Seq(Chars) /\ Len(SubSeq(w, 0 + 1, i)) = i - 0
          /\ \A k \in 1..(i - 0) : SubSeq(w, 0 + 1, i)[k] = w[0 + k]
      BY <3>1, Within
    <3>3. \A k \in 1..i : 0 + k = k  BY <1>1
    <3> QED  BY <3>1, <3>2, <3>3
  <2> HIDE DEF v
  <2>2. In(i) <=> \E p \in 0..i : Occurs(v, p, m)
    <3>1. In(i) <=> Has(v, m)  BY DEF Has, v
    <3> QED  BY <2>1, <3>1, HasIs
  <2>3. \A p \in 0..i : Occurs(v, p, m) <=> Occurs(w, p, m) /\ p + Len(m) <= i
    <3> TAKE p \in 0..i
    <3>1. CASE p + Len(m) <= i
      <4>1. \A k \in 1..Len(m) : p + k \in 1..i  BY <1>1, <3>1
      <4>2. \A k \in 1..Len(m) : v[p + k] = w[p + k]  BY <2>1, <4>1
      <4>3. p + Len(m) <= Len(w) /\ p + Len(m) <= Len(v)  BY <1>1, <2>1, <3>1
      <4> QED  BY <3>1, <4>2, <4>3 DEF Occurs
    <3>2. CASE ~(p + Len(m) <= i)  BY <2>1, <3>2 DEF Occurs
    <3> QED  BY <3>1, <3>2
  <2>4. \A p \in 0..Len(w) : p + Len(m) <= i => p \in 0..i  BY <1>1
  <2>5. \A p \in 0..i : p \in 0..Len(w)  BY <1>1
  <2> QED  BY <2>2, <2>3, <2>4, <2>5
<1>3. PICK p0 \in 0..Len(w) : Occurs(w, p0, m)  BY HasIs
<1> HIDE DEF In
<1>4. \E i \in 0..Len(w) : In(i) /\ \A j \in 0..i - 1 : ~In(j)
  <2>1. p0 + Len(m) \in E  BY <1>1, <1>2, <1>3 DEF Occurs
  <2>2. E \subseteq Nat
    <3>1. 0..Len(w) \subseteq Nat  BY <1>1
    <3> QED  BY <3>1, Zenon
  <2>3. PICK i \in E : \A j \in E : ~(j < i)
    <3> HIDE DEF E
    <3> QED  BY <2>1, <2>2, LeastNumber
  <2>4. \A j \in 0..i - 1 : j \in 0..Len(w) /\ j < i  BY <1>1
  <2> QED  BY <2>3, <2>4
<1>5. last \in 0..Len(w) /\ In(last) /\ \A j \in 0..last - 1 : ~In(j)
  BY <1>4, Zenon
<1>6. IndexFirstSubSeq(m, w) = last - (Len(m) - 1)
  BY DEF IndexFirstSubSeq, In
<1> HIDE DEF last
<1>7. PICK p \in 0..Len(w) : Occurs(w, p, m) /\ p + Len(m) <= last  BY <1>2, <1>5
<1>8. ASSUME NEW q \in 0..Len(w), Occurs(w, q, m) PROVE last <= q + Len(m)
  <2>1. q + Len(m) \in 0..Len(w)  BY <1>1, <1>8 DEF Occurs
  <2>2. In(q + Len(m))  BY <1>1, <1>2, <1>8, <2>1
  <2> QED  BY <1>1, <1>5, <2>1, <2>2
<1>9. last = p + Len(m)  BY <1>1, <1>5, <1>7, <1>8
<1>10. IndexFirstSubSeq(m, w) = p + 1  BY <1>1, <1>6, <1>9
<1>11. \A q \in 0..Len(w) : Occurs(w, q, m) => p <= q
  <2> SUFFICES ASSUME NEW q \in 0..Len(w), Occurs(w, q, m) PROVE p <= q  OBVIOUS
  <2> QED  BY <1>1, <1>8, <1>9
<1>12. p + 1 \in 1..(Len(w) + 1) /\ (p + 1) - 1 = p  BY <1>1
<1> QED  BY <1>7, <1>10, <1>11, <1>12

StopAt(w, p) == \E m \in Stops : Occurs(w, p, m)

(* The text before the first stop.                                         *)
LEMMA FirstStopIs ==
  ASSUME NEW w \in Seq(Chars), Stopped(w)
  PROVE  /\ FirstStop(w) - 1 \in 0..Len(w) /\ FirstStop(w) \in Nat
         /\ StopAt(w, FirstStop(w) - 1)
         /\ \A p \in 0..Len(w) : StopAt(w, p) => FirstStop(w) - 1 <= p
<1>1. Len(w) \in Nat /\ Stops \subseteq Markers  BY LenProperties, MarkersAre
<1> DEFINE In == {m \in Stops : Has(w, m)}
           T == {IndexFirstSubSeq(m, w) : m \in In}
<1>2. \A m \in In : IndexFirstSubSeq(m, w) \in 1..(Len(w) + 1)  BY <1>1, IndexIs
<1>3. T \subseteq Nat
  <2>1. 1..(Len(w) + 1) \subseteq Nat  BY <1>1
  <2> HIDE DEF In
  <2> QED  BY <1>2, <2>1, Zenon
<1>4. T # {}  BY DEF Stopped
<1>5. PICK t \in T : \A u \in T : ~(u < t)
  <2> HIDE DEF T
  <2> QED  BY <1>3, <1>4, LeastNumber
<1>6. \A m \in Stops : Has(w, m) => t <= IndexFirstSubSeq(m, w)
  <2> SUFFICES ASSUME NEW m \in Stops, Has(w, m) PROVE t <= IndexFirstSubSeq(m, w)  OBVIOUS
  <2>1. IndexFirstSubSeq(m, w) \in T  OBVIOUS
  <2> HIDE DEF T
  <2>2. IndexFirstSubSeq(m, w) \in Nat /\ t \in Nat  BY <1>3, <1>5, <2>1
  <2>3. ~(IndexFirstSubSeq(m, w) < t)  BY <1>5, <2>1
  <2> QED  BY <2>2, <2>3
<1>7. FirstStop(w) \in T /\ \A m \in Stops : Has(w, m) => FirstStop(w) <= IndexFirstSubSeq(m, w)
  <2>1. FirstStop(w) = CHOOSE i \in T : \A m \in Stops : Has(w, m) => i <= IndexFirstSubSeq(m, w)
    BY DEF FirstStop
  <2> HIDE DEF T
  <2> QED  BY <1>5, <1>6, <2>1, Zenon
<1>8. PICK m \in Stops : Has(w, m) /\ FirstStop(w) = IndexFirstSubSeq(m, w)  BY <1>7
<1>9. FirstStop(w) \in 1..(Len(w) + 1) /\ Occurs(w, FirstStop(w) - 1, m)  BY <1>1, <1>8, IndexIs
<1>10. ASSUME NEW p \in 0..Len(w), StopAt(w, p) PROVE FirstStop(w) - 1 <= p
  <2>1. PICK n \in Stops : Occurs(w, p, n)  BY <1>10 DEF StopAt
  <2>2. n \in Markers /\ Has(w, n)  BY <1>1, <2>1, HasIs
  <2>3. /\ IndexFirstSubSeq(n, w) \in 1..(Len(w) + 1) /\ IndexFirstSubSeq(n, w) - 1 <= p
    BY <2>1, <2>2, IndexIs
  <2>4. FirstStop(w) <= IndexFirstSubSeq(n, w)  BY <1>7, <2>2
  <2> QED  BY <1>1, <1>9, <2>3, <2>4
<1>11. FirstStop(w) - 1 \in 0..Len(w) /\ FirstStop(w) \in Nat  BY <1>1, <1>9
<1> QED  BY <1>8, <1>9, <1>10, <1>11 DEF StopAt

LEMMA StoppedIs ==
  ASSUME NEW w \in Seq(Chars)
  PROVE  Stopped(w) <=> \E p \in 0..Len(w) : StopAt(w, p)
BY HasIs, MarkersAre DEF Stopped, StopAt

OpenAt(w, p) == p = Len(w) \/ \E m \in Markers : Begins(w, p, m)

(* Where what is held back begins: the first place at which a marker that  *)
(* may still be completed does, or the end.                                *)
LEMMA HoldbackIs ==
  ASSUME NEW w \in Seq(Chars)
  PROVE  /\ Holdback(w) \in 0..Len(w)
         /\ OpenAt(w, Len(w) - Holdback(w))
         /\ \A p \in 0..Len(w) : OpenAt(w, p) => Len(w) - Holdback(w) <= p
<1>1. Len(w) \in Nat  BY LenProperties
<1> DEFINE P(k) == \E m \in Markers : k < Len(m) /\ SubSeq(w, Len(w) - k + 1, Len(w)) = SubSeq(m, 1, k)
           held == {0} \cup {k \in 0..Len(w) : P(k)}
<1>2. ASSUME NEW k \in 0..Len(w) PROVE k \in held <=> OpenAt(w, Len(w) - k)
  <2> DEFINE p == Len(w) - k
  <2>1. p \in 0..Len(w) /\ Len(w) \in p..Len(w) /\ Len(w) - p = k  BY <1>1
  <2> HIDE DEF p
  <2>2. ASSUME NEW m \in Markers
        PROVE  (k < Len(m) /\ SubSeq(w, p + 1, Len(w)) = SubSeq(m, 1, k)) <=> Begins(w, p, m)
    <3>1. m \in Seq(Chars) /\ Len(m) \in Nat  BY MarkersAre
    <3>2. Len(w) < p + Len(m) <=> k < Len(m)  BY <1>1, <2>1, <3>1
    <3>3. ASSUME k < Len(m)
          PROVE  SubSeq(w, p + 1, Len(w)) = SubSeq(m, 1, k) <=> \A i \in 1..k : w[p + i] = m[i]
      <4> DEFINE s == SubSeq(w, p + 1, Len(w))  t == SubSeq(m, 1, k)
      <4>1. s \in Seq(Chars) /\ Len(s) = k /\ \A i \in 1..k : s[i] = w[p + i]  BY <2>1, Within
      <4>2. t \in Seq(Chars) /\ Len(t) = k /\ \A i \in 1..k : t[i] = m[i]
        <5>1. 0 \in 0..Len(m) /\ k \in 0..Len(m) /\ 0 + 1 = 1 /\ k - 0 = k  BY <1>1, <3>1, <3>3
        <5>2. /\ SubSeq(m, 0 + 1, k) \in Seq(Chars) /\ Len(SubSeq(m, 0 + 1, k)) = k - 0
              /\ \A i \in 1..(k - 0) : SubSeq(m, 0 + 1, k)[i] = m[0 + i]
          BY <3>1, <5>1, Within
        <5>3. \A i \in 1..k : 0 + i = i  OBVIOUS
        <5> QED  BY <5>1, <5>2, <5>3
      <4> HIDE DEF s, t
      <4>3. ASSUME \A i \in 1..k : w[p + i] = m[i] PROVE s = t
        <5>1. \A i \in 1..Len(s) : s[i] = t[i]  BY <4>1, <4>2, <4>3
        <5> QED  BY <4>1, <4>2, <5>1, SeqEqual
      <4>4. s = t => \A i \in 1..k : w[p + i] = m[i]  BY <4>1, <4>2
      <4> QED  BY <4>3, <4>4 DEF s, t
    <3> QED  BY <2>1, <3>2, <3>3 DEF Begins
  <2>3. P(k) <=> \E m \in Markers : Begins(w, p, m)  BY <2>2 DEF p
  <2>4. k = 0 <=> p = Len(w)  BY <1>1, <2>1
  <2> HIDE DEF P
  <2>5. k \in held <=> k = 0 \/ P(k)  OBVIOUS
  <2> QED  BY <2>3, <2>4, <2>5 DEF OpenAt, p
<1>3. held \subseteq 0..Len(w) /\ 0 \in held
  BY <1>1
<1>4. Holdback(w) = CHOOSE k \in held : \A l \in held : l <= k
  BY DEF Holdback
<1> HIDE DEF held
<1>5. \E k \in held : \A l \in held : l <= k
  <2> DEFINE T == {Len(w) - k : k \in held}
  <2>1. T \subseteq Nat /\ T # {}  BY <1>1, <1>3
  <2> HIDE DEF T
  <2>2. PICK t \in T : \A u \in T : ~(u < t)  BY <2>1, LeastNumber
  <2>3. PICK k \in held : t = Len(w) - k  BY <2>2 DEF T
  <2>4. ASSUME NEW l \in held PROVE l <= k
    <3>1. Len(w) - l \in T  BY DEF T
    <3>2. ~(Len(w) - l < t)  BY <2>2, <3>1
    <3>3. l \in 0..Len(w) /\ k \in 0..Len(w)  BY <1>3
    <3> QED  BY <1>1, <2>3, <3>2, <3>3
  <2> QED  BY <2>4
<1>6. Holdback(w) \in held /\ \A l \in held : l <= Holdback(w)  BY <1>4, <1>5, Zenon
<1>7. Holdback(w) \in 0..Len(w)  BY <1>3, <1>6
<1>8. ASSUME NEW p \in 0..Len(w), OpenAt(w, p) PROVE Len(w) - Holdback(w) <= p
  <2>1. Len(w) - p \in 0..Len(w) /\ Len(w) - (Len(w) - p) = p  BY <1>1
  <2>2. Len(w) - p \in held  BY <1>2, <1>8, <2>1
  <2> QED  BY <1>1, <1>6, <1>7, <2>2
<1> QED  BY <1>2, <1>6, <1>7, <1>8

-----------------------------------------------------------------------------
(* A text and its ends. *)

(* The end of a text after h characters holds what the text does there.    *)
LEMMA EndIs ==
  ASSUME NEW y \in Seq(Chars), NEW t \in Seq(Chars), NEW h \in 0..Len(y),
         Len(t) = Len(y) - h, \A i \in 1..Len(t) : t[i] = y[h + i],
         NEW p \in 0..Len(t), NEW m \in Markers
  PROVE  /\ h + p \in 0..Len(y)
         /\ Occurs(t, p, m) <=> Occurs(y, h + p, m)
         /\ Begins(t, p, m) <=> Begins(y, h + p, m)
<1>1. Len(y) \in Nat /\ Len(t) \in Nat /\ Len(m) \in Nat  BY LenProperties, MarkersAre
<1>2. h + p \in 0..Len(y)  BY <1>1
<1>3. Occurs(t, p, m) <=> Occurs(y, h + p, m)
  <2>1. CASE p + Len(m) <= Len(t)
    <3>1. \A i \in 1..Len(m) : p + i \in 1..Len(t) /\ h + (p + i) = (h + p) + i  BY <1>1, <2>1
    <3>2. \A i \in 1..Len(m) : t[p + i] = y[(h + p) + i]  BY <3>1
    <3>3. (h + p) + Len(m) <= Len(y)  BY <1>1, <2>1
    <3> QED  BY <2>1, <3>2, <3>3 DEF Occurs
  <2>2. CASE ~(p + Len(m) <= Len(t))
    <3>1. ~((h + p) + Len(m) <= Len(y))  BY <1>1, <2>2
    <3> QED  BY <2>2, <3>1 DEF Occurs
  <2> QED  BY <2>1, <2>2
<1>4. Begins(t, p, m) <=> Begins(y, h + p, m)
  <2>1. Len(t) < p + Len(m) <=> Len(y) < (h + p) + Len(m)  BY <1>1
  <2>2. Len(t) - p = Len(y) - (h + p)  BY <1>1
  <2>3. \A i \in 1..(Len(t) - p) : t[p + i] = y[(h + p) + i]
    <3> TAKE i \in 1..(Len(t) - p)
    <3>1. p + i \in 1..Len(t) /\ h + (p + i) = (h + p) + i  BY <1>1
    <3> QED  BY <3>1
  <2> QED  BY <2>1, <2>2, <2>3 DEF Begins
<1> QED  BY <1>2, <1>3, <1>4

(* More text leaves what was there, and completes only what had begun.     *)
LEMMA MoreIs ==
  ASSUME NEW w \in Seq(Chars), NEW x \in Seq(Chars), NEW p \in 0..Len(w), NEW m \in Markers
  PROVE  /\ p \in 0..Len(w \o x)
         /\ Occurs(w, p, m) => Occurs(w \o x, p, m)
         /\ Occurs(w \o x, p, m) => Occurs(w, p, m) \/ Begins(w, p, m)
         /\ Begins(w \o x, p, m) => Begins(w, p, m)
<1> DEFINE y == w \o x
<1>1. Len(w) \in Nat /\ Len(x) \in Nat /\ Len(m) \in Nat  BY LenProperties, MarkersAre
<1>2. Len(y) = Len(w) + Len(x) /\ \A i \in 1..(Len(w) + Len(x)) : i <= Len(w) => y[i] = w[i]
  BY ConcatProperties
<1>3. \A i \in 1..Len(w) : y[i] = w[i]  BY <1>1, <1>2
<1> HIDE DEF y
<1>4. p \in 0..Len(y)  BY <1>1, <1>2
<1>5. CASE p + Len(m) <= Len(w)
  <2>1. \A i \in 1..Len(m) : p + i \in 1..Len(w)  BY <1>1, <1>5
  <2>2. \A i \in 1..Len(m) : y[p + i] = w[p + i]  BY <1>3, <2>1
  <2>3. p + Len(m) <= Len(y) /\ ~(Len(y) < p + Len(m))  BY <1>1, <1>2, <1>5
  <2> QED  BY <1>4, <1>5, <2>2, <2>3 DEF Occurs, Begins, y
<1>6. CASE ~(p + Len(m) <= Len(w))
  <2>1. Len(w) < p + Len(m)  BY <1>1, <1>6
  <2>2. \A i \in 1..(Len(w) - p) : p + i \in 1..Len(w)  BY <1>1
  <2>3. \A i \in 1..(Len(w) - p) : y[p + i] = w[p + i]  BY <1>3, <2>2
  <2>4. \A i \in 1..(Len(w) - p) : i \in 1..(Len(y) - p)  BY <1>1, <1>2
  <2>5. ~(Len(y) < p + Len(m)) => \A i \in 1..(Len(w) - p) : i \in 1..Len(m)
    BY <1>1, <1>6
  <2>6. Occurs(y, p, m) => Begins(w, p, m)
    <3> SUFFICES ASSUME Occurs(y, p, m) PROVE Begins(w, p, m)  OBVIOUS
    <3>1. \A i \in 1..(Len(w) - p) : i \in 1..Len(m)  BY <1>1, <2>1
    <3> QED  BY <2>1, <2>3, <3>1 DEF Occurs, Begins
  <2>7. Begins(y, p, m) => Begins(w, p, m)  BY <2>1, <2>3, <2>4 DEF Begins
  <2>8. ~Occurs(w, p, m)  BY <1>6 DEF Occurs
  <2> QED  BY <1>4, <2>6, <2>7, <2>8 DEF y
<1> QED  BY <1>5, <1>6

(* Nothing that may still become a marker begins in the first h characters.*)
Clear(w, h) == \A p \in 0..Len(w) : p < h => \A m \in Markers : ~Begins(w, p, m)

(* process_piece looks at what was held back, with the new piece: that is  *)
(* as good as looking at the whole text.                                   *)
LEMMA HeldIsEnough ==
  ASSUME NEW w \in Seq(Chars), NEW x \in Seq(Chars), NEW t \in Seq(Chars), NEW h \in 0..Len(w),
         ~Stopped(w), Clear(w, h),
         Len(t) = Len(w \o x) - h, \A i \in 1..Len(t) : t[i] = (w \o x)[h + i]
  PROVE  /\ Stopped(t) <=> Stopped(w \o x)
         /\ Stopped(t) => FirstStop(w \o x) = h + FirstStop(t)
         /\ Holdback(t) = Holdback(w \o x)
         /\ Clear(w \o x, h)
<1> DEFINE y == w \o x
<1>1. y \in Seq(Chars) /\ Len(y) = Len(w) + Len(x)  BY ConcatProperties
<1>2. Len(w) \in Nat /\ Len(x) \in Nat /\ Len(t) \in Nat /\ Len(y) \in Nat
  BY <1>1, LenProperties
<1>3. h \in 0..Len(y) /\ \A p \in 0..Len(y) : p < h => p \in 0..Len(w)  BY <1>1, <1>2
<1>4. \A p \in 0..Len(y) : p < h => \A m \in Markers : ~Begins(y, p, m)
  BY <1>3, MoreIs DEF Clear
<1>5. \A p \in 0..Len(y) : p < h => ~StopAt(y, p)
  <2> SUFFICES ASSUME NEW p \in 0..Len(y), p < h, NEW m \in Stops, Occurs(y, p, m) PROVE FALSE
    BY DEF StopAt
  <2>1. p \in 0..Len(w) /\ m \in Markers  BY <1>3, MarkersAre
  <2>2. ~Begins(w, p, m)  BY <2>1 DEF Clear
  <2>3. Occurs(w, p, m)  BY <2>1, <2>2, MoreIs
  <2> QED  BY <2>1, <2>3, StoppedIs DEF StopAt
<1>6. Len(t) = Len(y) - h /\ \A i \in 1..Len(t) : t[i] = y[h + i]  OBVIOUS
<1> HIDE DEF y
<1>7. ASSUME NEW p \in 0..Len(t)
      PROVE  /\ h + p \in 0..Len(y)
             /\ StopAt(t, p) <=> StopAt(y, h + p)
             /\ OpenAt(t, p) <=> OpenAt(y, h + p)
  <2>1. h + p \in 0..Len(y)  BY <1>2, <1>3, <1>6
  <2>2. \A m \in Markers : /\ Occurs(t, p, m) <=> Occurs(y, h + p, m)
                           /\ Begins(t, p, m) <=> Begins(y, h + p, m)
    BY <1>1, <1>3, <1>6, EndIs
  <2>3. p = Len(t) <=> h + p = Len(y)  BY <1>2, <1>6
  <2> QED  BY <2>1, <2>2, <2>3, MarkersAre DEF StopAt, OpenAt
<1>8. \A q \in 0..Len(y) : ~(q < h) => q - h \in 0..Len(t) /\ h + (q - h) = q
  BY <1>2, <1>6
<1>9. \A q \in 0..Len(y) : StopAt(y, q) => q - h \in 0..Len(t) /\ StopAt(t, q - h)
  <2> SUFFICES ASSUME NEW q \in 0..Len(y), StopAt(y, q)
               PROVE  q - h \in 0..Len(t) /\ StopAt(t, q - h)
    OBVIOUS
  <2>1. q - h \in 0..Len(t) /\ h + (q - h) = q  BY <1>5, <1>8
  <2> QED  BY <1>7, <2>1
<1>10. Stopped(t) <=> Stopped(y)
  <2>1. Stopped(t) <=> \E p \in 0..Len(t) : StopAt(t, p)  BY StoppedIs
  <2>2. Stopped(y) <=> \E p \in 0..Len(y) : StopAt(y, p)  BY <1>1, StoppedIs
  <2>3. ASSUME Stopped(t) PROVE Stopped(y)  BY <1>7, <2>1, <2>2, <2>3
  <2>4. ASSUME Stopped(y) PROVE Stopped(t)  BY <1>9, <2>1, <2>2, <2>4
  <2> QED  BY <2>3, <2>4
<1>11. ASSUME Stopped(t) PROVE FirstStop(y) = h + FirstStop(t)
  <2> DEFINE a == FirstStop(t)  b == FirstStop(y)
  <2>1. /\ a - 1 \in 0..Len(t) /\ a \in Nat /\ StopAt(t, a - 1)
        /\ \A p \in 0..Len(t) : StopAt(t, p) => a - 1 <= p
    BY <1>11, FirstStopIs
  <2>2. /\ b - 1 \in 0..Len(y) /\ b \in Nat /\ StopAt(y, b - 1)
        /\ \A p \in 0..Len(y) : StopAt(y, p) => b - 1 <= p
    BY <1>1, <1>10, <1>11, FirstStopIs
  <2> HIDE DEF a, b
  <2>3. h + (a - 1) \in 0..Len(y) /\ StopAt(y, h + (a - 1))  BY <1>7, <2>1
  <2>4. (b - 1) - h \in 0..Len(t) /\ StopAt(t, (b - 1) - h)  BY <1>9, <2>2
  <2>5. b - 1 <= h + (a - 1) /\ a - 1 <= (b - 1) - h  BY <2>1, <2>2, <2>3, <2>4
  <2>6. b = h + a
    <3>1. h \in Nat  BY <1>2
    <3> QED  BY <2>1, <2>2, <2>5, <3>1
  <2> QED  BY <2>6 DEF a, b
<1>12. Holdback(t) = Holdback(y)
  <2> DEFINE a == Holdback(t)  b == Holdback(y)
  <2>1. /\ a \in 0..Len(t) /\ OpenAt(t, Len(t) - a)
        /\ \A p \in 0..Len(t) : OpenAt(t, p) => Len(t) - a <= p
    BY HoldbackIs
  <2>2. /\ b \in 0..Len(y) /\ OpenAt(y, Len(y) - b)
        /\ \A p \in 0..Len(y) : OpenAt(y, p) => Len(y) - b <= p
    BY <1>1, HoldbackIs
  <2> HIDE DEF a, b
  <2>3. Len(t) - a \in 0..Len(t) /\ Len(y) - b \in 0..Len(y)  BY <1>2, <2>1, <2>2
  <2>4. h + (Len(t) - a) \in 0..Len(y) /\ OpenAt(y, h + (Len(t) - a))  BY <1>7, <2>1, <2>3
  <2>5. \A p \in 0..Len(y) : p < h => p # Len(y)  BY <1>2, <1>3
  <2>6. ~(Len(y) - b < h)  BY <1>4, <2>2, <2>3, <2>5 DEF OpenAt
  <2>7. (Len(y) - b) - h \in 0..Len(t) /\ h + ((Len(y) - b) - h) = Len(y) - b
    BY <1>8, <2>3, <2>6
  <2>8. OpenAt(t, (Len(y) - b) - h)  BY <1>7, <2>2, <2>7
  <2>9. Len(y) - b <= h + (Len(t) - a) /\ Len(t) - a <= (Len(y) - b) - h
    BY <2>1, <2>2, <2>4, <2>7, <2>8
  <2>10. a = b  BY <1>2, <1>6, <2>1, <2>2, <2>9
  <2> QED  BY <2>10 DEF a, b
<1> QED  BY <1>4, <1>10, <1>11, <1>12 DEF Clear, y

-----------------------------------------------------------------------------
(* Folds over a text. *)

LEMMA MaxIs ==
  ASSUME NEW N \in Nat, NEW s \in SUBSET (1..N), s # {}
  PROVE  /\ Max(s) \in s /\ \A y \in s : y <= Max(s)
         /\ s \ {Max(s)} \in SUBSET (1..N) /\ s \ {Max(s)} \in SUBSET (1..(Max(s) - 1))
<1>1. \E x \in s : \A y \in s : x >= y
  <2> DEFINE T == {N - x : x \in s}
  <2>1. T \subseteq Nat /\ T # {}
    <3>1. \A x \in s : N - x \in Nat  OBVIOUS
    <3> QED  BY <3>1
  <2> HIDE DEF T
  <2>2. PICK t \in T : \A u \in T : ~(u < t)  BY <2>1, LeastNumber
  <2>3. PICK x \in s : t = N - x  BY <2>2 DEF T
  <2>4. ASSUME NEW y \in s PROVE x >= y
    <3>1. N - y \in T  BY DEF T
    <3>2. ~(N - y < N - x)  BY <2>2, <2>3, <3>1
    <3> QED  BY <3>2
  <2> QED  BY <2>4
<1>2. Max(s) \in s /\ \A y \in s : Max(s) >= y  BY <1>1 DEF Max
<1> DEFINE x == Max(s)
<1> HIDE DEF x
<1>3. x \in s /\ \A y \in s : x >= y  BY <1>2 DEF x
<1>4. \A y \in s \ {x} : y \in 1..(x - 1) /\ y \in 1..N  BY <1>3
<1>5. \A y \in s : y <= x  BY <1>3
<1> QED  BY <1>3, <1>4, <1>5 DEF x

(* Of sets of places, one loses what it has in common with the others      *)
(* when its last place is left out.                                        *)
LEMMA ByLargest ==
  ASSUME NEW N \in Nat, NEW B, B \subseteq SUBSET (1..N), B # {}
  PROVE  \E s \in B : s = {} \/ s \ {Max(s)} \notin B
<1> DEFINE T == {k \in 0..N : \E s \in B : s \subseteq 1..k}
<1>1. N \in T  OBVIOUS
<1>2. T \subseteq Nat
  <2>1. 0..N \subseteq Nat  OBVIOUS
  <2> QED  BY <2>1, Zenon
<1>3. PICK k \in T : \A u \in T : ~(u < k)
  <2> HIDE DEF T
  <2> QED  BY <1>1, <1>2, LeastNumber
<1>4. PICK s \in B : s \subseteq 1..k  BY <1>3
<1>5. CASE s # {} /\ s \ {Max(s)} \in B
  <2>1. k \in Nat /\ k \in 0..N /\ s \in SUBSET (1..k)  BY <1>3, <1>4
  <2>2. Max(s) \in s /\ s \ {Max(s)} \in SUBSET (1..(Max(s) - 1))
    BY <1>5, <2>1, MaxIs
  <2> DEFINE x == Max(s)
  <2> HIDE DEF x
  <2>3. x \in 1..k /\ s \ {x} \subseteq 1..(x - 1) /\ s \ {x} \in B  BY <1>4, <1>5, <2>2 DEF x
  <2>4. x - 1 \in 0..N /\ x - 1 < k  BY <2>1, <2>3
  <2>5. x - 1 \in T  BY <2>3, <2>4
  <2> HIDE DEF T
  <2> QED  BY <1>3, <2>4, <2>5
<1> QED  BY <1>4, <1>5

(* Elide, of one filter.                                                   *)
Without(t, f) == FoldLeft(LAMBDA u, c : ReplaceFirstSubSeq(<<>>, f, u), t, t)

(* Nothing is taken out of a text that has no filter sequence.             *)
LEMMA NoneTaken ==
  ASSUME NEW t \in Seq(Chars), NEW f, ~Has(t, f)
  PROVE  Without(t, f) = t
<1> DEFINE N == Len(t)  R(u) == ReplaceFirstSubSeq(<<>>, f, u)
           Eq(g) == g = [s \in SUBSET DOMAIN t |->
                           IF s = {} THEN t ELSE R(g[s \ {Max(s)}])]
           it == CHOOSE g : Eq(g)
<1>1. N \in Nat /\ DOMAIN t = 1..N  BY LenProperties
<1>2. R(t) = t  BY DEF ReplaceFirstSubSeq, Has
<1>3. Without(t, f) = it[DOMAIN t]
  BY DEF Without, FoldLeft, MapThenFoldSet
<1> HIDE DEF N, R
<1>4. \A s \in SUBSET (1..N) : s # {} => s \ {Max(s)} \in SUBSET (1..N)  BY <1>1, MaxIs
<1>5. Eq([s \in SUBSET DOMAIN t |-> t])  BY <1>1, <1>2, <1>4
<1>6. Eq(it)  BY <1>5, Zenon
<1> HIDE DEF it
<1> DEFINE B == {s \in SUBSET (1..N) : it[s] # t}
<1>7. ASSUME B # {} PROVE FALSE
  <2>1. PICK s \in B : s = {} \/ s \ {Max(s)} \notin B
    <3>1. B \subseteq SUBSET (1..N)  OBVIOUS
    <3> HIDE DEF B
    <3> QED  BY <1>1, <1>7, <3>1, ByLargest
  <2>2. it[s] = IF s = {} THEN t ELSE R(it[s \ {Max(s)}])  BY <1>1, <1>6, <2>1
  <2>3. CASE s = {}  BY <2>1, <2>2, <2>3
  <2>4. CASE s # {}
    <3>1. it[s \ {Max(s)}] = t  BY <1>4, <2>1, <2>4
    <3> QED  BY <1>2, <2>1, <2>2, <2>4, <3>1
  <2> QED  BY <2>3, <2>4
<1> QED  BY <1>1, <1>3, <1>7

Unfiltered(w) == \A f \in ToSet(Filters) : ~Has(w, f)

LEMMA ElideIs ==
  ASSUME NEW t \in Seq(Chars), Unfiltered(t)
  PROVE  Elide(t) = t
<1> DEFINE N == Len(Filters)
           Eq(g) == g = [s \in SUBSET DOMAIN Filters |->
                           IF s = {} THEN t ELSE Without(g[s \ {Max(s)}], Filters[Max(s)])]
           it == CHOOSE g : Eq(g)
<1>1. N \in Nat /\ DOMAIN Filters = 1..N  BY LenProperties, FilterAssumption
<1>2. \A i \in 1..N : Without(t, Filters[i]) = t
  <2> TAKE i \in 1..N
  <2>1. Filters[i] \in ToSet(Filters)  BY <1>1 DEF ToSet
  <2>2. ~Has(t, Filters[i])  BY <2>1 DEF Unfiltered
  <2> QED  BY <2>2, NoneTaken
<1>3. Elide(t) = it[DOMAIN Filters]
  BY DEF Elide, Without, FoldLeft, MapThenFoldSet
<1> HIDE DEF N
<1>4. \A s \in SUBSET (1..N) : s # {} => s \ {Max(s)} \in SUBSET (1..N) /\ Max(s) \in 1..N
  <2> SUFFICES ASSUME NEW s \in SUBSET (1..N), s # {}
               PROVE  s \ {Max(s)} \in SUBSET (1..N) /\ Max(s) \in 1..N
    OBVIOUS
  <2>1. Max(s) \in s /\ s \ {Max(s)} \in SUBSET (1..N)  BY <1>1, MaxIs
  <2> QED  BY <2>1
<1>5. Eq([s \in SUBSET DOMAIN Filters |-> t])  BY <1>1, <1>2, <1>4
<1>6. Eq(it)  BY <1>5, Zenon
<1> HIDE DEF it
<1> DEFINE B == {s \in SUBSET (1..N) : it[s] # t}
<1>7. ASSUME B # {} PROVE FALSE
  <2>1. PICK s \in B : s = {} \/ s \ {Max(s)} \notin B
    <3>1. B \subseteq SUBSET (1..N)  OBVIOUS
    <3> HIDE DEF B
    <3> QED  BY <1>1, <1>7, <3>1, ByLargest
  <2>2. it[s] = IF s = {} THEN t ELSE Without(it[s \ {Max(s)}], Filters[Max(s)])
    BY <1>1, <1>6, <2>1
  <2>3. CASE s = {}  BY <2>1, <2>2, <2>3
  <2>4. CASE s # {}
    <3>1. it[s \ {Max(s)}] = t /\ Max(s) \in 1..N  BY <1>4, <2>1, <2>4
    <3> QED  BY <1>2, <2>1, <2>2, <2>4, <3>1
  <2> QED  BY <2>3, <2>4
<1> QED  BY <1>1, <1>3, <1>7

(* A text that ends with a marker has it.                                  *)
LEMMA EndHas ==
  ASSUME NEW v \in Seq(Chars), NEW n \in 0..Len(v), NEW m \in Markers,
         IsSuffix(m, SubSeq(v, 1, n))
  PROVE  Has(v, m)
<1> DEFINE t == SubSeq(v, 1, n)
<1>1. Len(v) \in Nat /\ m \in Seq(Chars) /\ Len(m) \in Nat \ {0}  BY LenProperties, MarkersAre
<1>2. t \in Seq(Chars) /\ Len(t) = n /\ \A i \in 1..n : t[i] = v[i]
  <2>1. 0 \in 0..Len(v) /\ n \in 0..Len(v) /\ 0 + 1 = 1 /\ n - 0 = n  BY <1>1
  <2>2. /\ SubSeq(v, 0 + 1, n) \in Seq(Chars) /\ Len(SubSeq(v, 0 + 1, n)) = n - 0
        /\ \A i \in 1..(n - 0) : SubSeq(v, 0 + 1, n)[i] = v[0 + i]
    BY <2>1, Within
  <2>3. \A i \in 1..n : 0 + i = i  BY <1>1
  <2> QED  BY <2>1, <2>2, <2>3
<1> DEFINE a == Reverse(m)  b == Reverse(t)
<1>3. /\ a = [i \in 1..Len(m) |-> m[(Len(m) - i) + 1]]
      /\ b = [i \in 1..n |-> t[(n - i) + 1]]
  BY <1>2 DEF Reverse
<1>4. IsPrefix(a, b)  BY DEF IsSuffix
<1> HIDE DEF t
<1>5. a \in Seq(Chars) /\ Len(a) = Len(m) /\ \A i \in 1..Len(m) : a[i] = m[(Len(m) - i) + 1]
  <2>1. \A i \in 1..Len(m) : m[(Len(m) - i) + 1] \in Chars
    <3> TAKE i \in 1..Len(m)
    <3>1. (Len(m) - i) + 1 \in 1..Len(m)  BY <1>1
    <3> QED  BY <1>1, <3>1, ElementOfSeq
  <2> QED  BY <1>1, <1>3, <2>1
<1>6. b \in Seq(Chars) /\ Len(b) = n /\ \A i \in 1..n : b[i] = t[(n - i) + 1]
  <2>1. \A i \in 1..n : t[(n - i) + 1] \in Chars
    <3> TAKE i \in 1..n
    <3>1. (n - i) + 1 \in 1..Len(t)  BY <1>1, <1>2
    <3> QED  BY <1>2, <3>1, ElementOfSeq
  <2> QED  BY <1>1, <1>3, <2>1
<1> HIDE DEF a, b
<1>7. Len(m) <= n /\ SubSeq(a, 1, Len(m)) = SubSeq(b, 1, Len(m))
  BY <1>4, <1>5, <1>6 DEF IsPrefix
<1>8. \A i \in 1..Len(m) : a[i] = b[i]
  <2> TAKE i \in 1..Len(m)
  <2>1. SubSeq(a, 1, Len(m))[i] = a[i] /\ SubSeq(b, 1, Len(m))[i] = b[i]
    <3>1. \A j \in 1..Len(m) : a[j] \in Chars /\ b[j] \in Chars
      BY <1>1, <1>5, <1>6, <1>7, ElementOfSeq
    <3>2. 1 \in Int /\ Len(m) \in Int /\ i \in 1..(Len(m) - 1 + 1) /\ 1 + i - 1 = i  BY <1>1
    <3> QED  BY <3>1, <3>2, SubSeqProperties
  <2> QED  BY <1>7, <2>1
<1> DEFINE p == n - Len(m)
<1>9. p \in 0..Len(v) /\ p + Len(m) <= Len(v)  BY <1>1, <1>7
<1>10. \A i \in 1..Len(m) : v[p + i] = m[i]
  <2> TAKE i \in 1..Len(m)
  <2> DEFINE j == (Len(m) - i) + 1
  <2>1. /\ j \in 1..Len(m) /\ (Len(m) - j) + 1 = i /\ (n - j) + 1 = p + i
        /\ p + i \in 1..n /\ j \in 1..n
    BY <1>1, <1>7
  <2> HIDE DEF j, p
  <2>2. a[j] = m[i] /\ b[j] = t[p + i] /\ t[p + i] = v[p + i]  BY <1>2, <1>5, <1>6, <2>1
  <2> QED  BY <1>8, <2>1, <2>2
<1> HIDE DEF p
<1>11. Occurs(v, p, m)  BY <1>9, <1>10 DEF Occurs
<1> QED  BY <1>9, <1>11, HasIs

(* What of a text may be shown is the text before its first stop.          *)
LEMMA BeforeIs ==
  ASSUME NEW w \in Seq(Chars)
  PROVE  /\ BeforeStop(w) \in Seq(Chars) /\ Len(BeforeStop(w)) \in 0..Len(w)
         /\ BeforeStop(w) = SubSeq(w, 1, Len(BeforeStop(w)))
         /\ Len(BeforeStop(w)) = IF Stopped(w) THEN FirstStop(w) - 1 ELSE Len(w)
         /\ Unfiltered(w) => Unfiltered(BeforeStop(w))
<1> DEFINE n == IF Stopped(w) THEN FirstStop(w) - 1 ELSE Len(w)  v == SubSeq(w, 1, n)
<1>1. Len(w) \in Nat  BY LenProperties
<1>2. n \in 0..Len(w)  BY <1>1, FirstStopIs
<1>3. BeforeStop(w) = v  BY SubSeqFull DEF BeforeStop
<1> HIDE DEF n
<1>4. v \in Seq(Chars) /\ Len(v) = n /\ \A i \in 1..n : v[i] = w[i]
  <2>1. 0 \in 0..Len(w) /\ n \in 0..Len(w) /\ 0 + 1 = 1 /\ n - 0 = n  BY <1>1, <1>2
  <2>2. /\ SubSeq(w, 0 + 1, n) \in Seq(Chars) /\ Len(SubSeq(w, 0 + 1, n)) = n - 0
        /\ \A i \in 1..(n - 0) : SubSeq(w, 0 + 1, n)[i] = w[0 + i]
    BY <1>2, <2>1, Within
  <2>3. \A i \in 1..n : 0 + i = i  BY <1>1, <1>2
  <2> QED  BY <2>1, <2>2, <2>3
<1>5. ASSUME NEW m \in Markers, Has(v, m) PROVE Has(w, m)
  <2>1. Len(m) \in Nat  BY MarkersAre
  <2>2. PICK p \in 0..Len(v) : Occurs(v, p, m)  BY <1>4, <1>5, HasIs
  <2> HIDE DEF v
  <2>3. p + Len(m) <= n /\ \A i \in 1..Len(m) : v[p + i] = m[i]  BY <1>4, <2>2 DEF Occurs
  <2>4. \A i \in 1..Len(m) : p + i \in 1..n  BY <1>2, <1>1, <1>4, <2>1, <2>3
  <2>5. p \in 0..Len(w) /\ p + Len(m) <= Len(w)  BY <1>1, <1>2, <1>4, <2>1, <2>3
  <2>6. Occurs(w, p, m)  BY <1>4, <2>3, <2>4, <2>5 DEF Occurs
  <2> QED  BY <2>5, <2>6, HasIs
<1>6. Unfiltered(w) => Unfiltered(v)  BY <1>5, MarkersAre DEF Unfiltered
<1> HIDE DEF v
<1>7. v = SubSeq(w, 1, Len(v))  BY <1>4 DEF v
<1> QED  BY <1>2, <1>3, <1>4, <1>6, <1>7 DEF n

(* One character more of what is shown.                                    *)
ShowMore(t, c) ==
  LET run == Append(t.run, c)
      done == {f \in ToSet(Filters) : IsSuffix(f, run)}
  IN IF done = {} THEN [shown |-> Append(t.shown, c), run |-> run]
     ELSE [shown |-> SubSeq(t.shown, 1, Len(t.shown) + 1 - Len(CHOOSE f \in done : TRUE)),
           run |-> <<>>]

Shows(v, D, g) ==
  g = [s \in D |-> IF s = {} THEN [shown |-> <<>>, run |-> <<>>]
                   ELSE ShowMore(g[s \ {Max(s)}], v[Max(s)])]

LEMMA ShowsIsThere ==
  ASSUME NEW v, NEW N \in Nat
  PROVE  \E g : Shows(v, SUBSET (1..N), g)
<1> DEFINE Bad == {k \in Nat : ~ \E g : Shows(v, SUBSET (1..k), g)}
<1>1. ASSUME Bad # {} PROVE FALSE
  <2>1. PICK k \in Bad : \A u \in Bad : ~(u < k)
    <3>1. Bad \subseteq Nat  OBVIOUS
    <3> HIDE DEF Bad
    <3> QED  BY <1>1, <3>1, LeastNumber
  <2>2. CASE k = 0
    <3> DEFINE g == [s \in SUBSET (1..0) |-> [shown |-> <<>>, run |-> <<>>]]
    <3>1. \A s \in SUBSET (1..0) : s = {}  OBVIOUS
    <3>2. Shows(v, SUBSET (1..0), g)  BY <3>1 DEF Shows
    <3> QED  BY <2>1, <2>2, <3>2
  <2>3. CASE k # 0
    <3>1. k \in Nat /\ k - 1 \in Nat /\ k - 1 < k  BY <2>1, <2>3
    <3>2. k - 1 \notin Bad  BY <2>1, <3>1
    <3>3. PICK h : Shows(v, SUBSET (1..(k - 1)), h)  BY <3>1, <3>2
    <3> DEFINE Old == SUBSET (1..(k - 1))  New == SUBSET (1..k)
               val(s) == IF s = {} THEN [shown |-> <<>>, run |-> <<>>]
                         ELSE ShowMore(h[s \ {Max(s)}], v[Max(s)])
               g == [s \in New |-> val(s)]
    <3>4. \A s \in New : s # {} => s \ {Max(s)} \in Old
      <4> SUFFICES ASSUME NEW s \in New, s # {} PROVE s \ {Max(s)} \in Old  OBVIOUS
      <4>1. Max(s) \in s /\ s \ {Max(s)} \in SUBSET (1..(Max(s) - 1))  BY <3>1, MaxIs
      <4> DEFINE x == Max(s)
      <4> HIDE DEF x
      <4>2. x \in 1..k /\ s \ {x} \subseteq 1..(x - 1)  BY <4>1 DEF x
      <4>3. 1..(x - 1) \subseteq 1..(k - 1)  BY <3>1, <4>2
      <4>4. s \ {x} \in Old  BY <4>2, <4>3
      <4> QED  BY <4>4 DEF x
    <3>5. \A s \in Old : s \in New
      <4>1. 1..(k - 1) \subseteq 1..k  BY <3>1
      <4> QED  BY <4>1
    <3>6. \A s \in Old : h[s] = val(s)  BY <3>3 DEF Shows
    <3> HIDE DEF Old, New
    <3>7. \A s \in Old : g[s] = h[s]  BY <3>5, <3>6
    <3>8. \A s \in New : val(s) = IF s = {} THEN [shown |-> <<>>, run |-> <<>>]
                                  ELSE ShowMore(g[s \ {Max(s)}], v[Max(s)])
      BY <3>4, <3>7
    <3> HIDE DEF val
    <3>9. \A s \in New : g[s] = IF s = {} THEN [shown |-> <<>>, run |-> <<>>]
                                ELSE ShowMore(g[s \ {Max(s)}], v[Max(s)])
      BY <3>8
    <3>10. g = [s \in New |-> g[s]]  OBVIOUS
    <3> HIDE DEF g
    <3>11. Shows(v, New, g)  BY <3>9, <3>10 DEF Shows
    <3> QED  BY <2>1, <3>11 DEF New
  <2> QED  BY <2>2, <2>3
<1> QED  BY <1>1

LEMMA ShownIs ==
  ASSUME NEW w \in Seq(Chars), Unfiltered(w)
  PROVE  Shown(w) = BeforeStop(w)
<1> DEFINE v == BeforeStop(w)  N == Len(v)
           it == CHOOSE g : Shows(v, SUBSET DOMAIN v, g)
<1>1. v \in Seq(Chars) /\ Unfiltered(v)  BY BeforeIs
<1>2. N \in Nat /\ DOMAIN v = 1..N  BY <1>1, LenProperties
<1>3. Shown(w) = it[DOMAIN v].shown
  BY DEF Shown, FoldLeft, MapThenFoldSet, Shows, ShowMore
<1> HIDE DEF v, N
<1>4. Shows(v, SUBSET (1..N), it)
  <2>1. \E g : Shows(v, SUBSET (1..N), g)  BY <1>2, ShowsIsThere
  <2> QED  BY <1>2, <2>1, Zenon
<1> HIDE DEF it
<1>5. \A s \in SUBSET (1..N) : it[s] = IF s = {} THEN [shown |-> <<>>, run |-> <<>>]
                                       ELSE ShowMore(it[s \ {Max(s)}], v[Max(s)])
  BY <1>4 DEF Shows
<1> DEFINE upto(n) == SubSeq(v, 1, n)
           Bad == {n \in 0..N : it[1..n] # [shown |-> upto(n), run |-> upto(n)]}
<1>6. ASSUME Bad # {} PROVE FALSE
  <2>1. PICK n \in Bad : \A u \in Bad : ~(u < n)
    <3>1. 0..N \subseteq Nat  BY <1>2
    <3>2. Bad \subseteq Nat  BY <3>1, Zenon
    <3> HIDE DEF Bad
    <3> QED  BY <1>6, <3>2, LeastNumber
  <2>2. n \in 0..N /\ 1..n \in SUBSET (1..N)  BY <1>2, <2>1
  <2>3. CASE n = 0
    <3>1. 1..n = {}  BY <2>3
    <3>2. upto(n) = <<>>  BY <2>3, SubSeqEmpty
    <3>3. it[1..n] = [shown |-> <<>>, run |-> <<>>]  BY <1>5, <2>2, <3>1
    <3> QED  BY <2>1, <3>2, <3>3
  <2>4. CASE n # 0
    <3>1. n - 1 \in 0..N /\ n - 1 < n /\ n \in 1..N /\ n \in 1..n  BY <1>2, <2>2, <2>4
    <3>2. it[1..(n - 1)] = [shown |-> upto(n - 1), run |-> upto(n - 1)]
      <4>1. n - 1 \notin Bad  BY <2>1, <3>1
      <4> QED  BY <3>1, <4>1
    <3>3. Max(1..n) = n
      <4>1. Max(1..n) \in 1..n /\ n <= Max(1..n)  BY <1>2, <2>2, <3>1, MaxIs
      <4> DEFINE x == Max(1..n)
      <4> HIDE DEF x
      <4>2. x \in 1..n /\ n <= x  BY <4>1 DEF x
      <4>3. x = n  BY <2>2, <1>2, <4>2
      <4> QED  BY <4>3 DEF x
    <3>4. (1..n) \ {n} = 1..(n - 1)  BY <1>2, <3>1
    <3>5. it[1..n] = ShowMore(it[1..(n - 1)], v[n])
      <4>1. 1..n # {}  BY <3>1
      <4> QED  BY <1>5, <2>2, <3>3, <3>4, <4>1
    <3>6. Append(upto(n - 1), v[n]) = upto(n)
      <4>1. upto(n - 1) \o <<v[n]>> = upto(n)
        <5>1. 1 \in 1..Len(v) /\ n \in 1..Len(v)  BY <1>2, <3>1 DEF N
        <5> QED  BY <1>1, <5>1, SubSeqRecursiveSecond
      <4>2. upto(n - 1) \in Seq(Chars) /\ v[n] \in Chars
        <5>1. \A i \in 1..(n - 1) : v[i] \in Chars  BY <1>1, <1>2, <3>1, ElementOfSeq DEF N
        <5>2. 1 \in Int /\ n - 1 \in Int  BY <1>2, <3>1
        <5>3. v[n] \in Chars  BY <1>1, <3>1, ElementOfSeq DEF N
        <5> QED  BY <5>1, <5>2, <5>3, SubSeqProperties
      <4> DEFINE u == upto(n - 1)
      <4> HIDE DEF u
      <4>3. Append(u, v[n]) = u \o <<v[n]>>  BY <4>2 DEF u
      <4> QED  BY <4>1, <4>3 DEF u
    <3>7. \A f \in ToSet(Filters) : ~IsSuffix(f, upto(n))
      <4> SUFFICES ASSUME NEW f \in ToSet(Filters), IsSuffix(f, upto(n)) PROVE FALSE  OBVIOUS
      <4>1. f \in Markers  BY MarkersAre
      <4>2. Has(v, f)  BY <1>1, <2>2, <4>1, EndHas DEF N
      <4> QED  BY <1>1, <4>2 DEF Unfiltered
    <3> DEFINE u == upto(n - 1)  z == upto(n)
    <3> HIDE DEF u, z
    <3>8. ShowMore([shown |-> u, run |-> u], v[n]) = [shown |-> z, run |-> z]
      <4>1. Append(u, v[n]) = z /\ \A f \in ToSet(Filters) : ~IsSuffix(f, z)
        BY <3>6, <3>7 DEF u, z
      <4> QED  BY <4>1, Zenon DEF ShowMore
    <3> QED  BY <2>1, <3>2, <3>5, <3>8 DEF u, z
  <2> QED  BY <2>3, <2>4
<1>7. it[1..N] = [shown |-> upto(N), run |-> upto(N)]
  <2>1. N \in 0..N  BY <1>2
  <2> QED  BY <1>6, <2>1
<1>8. upto(N) = v  BY <1>1, SubSeqFull DEF N
<1> QED  BY <1>2, <1>3, <1>7, <1>8 DEF v

-----------------------------------------------------------------------------
(* Where the text is: the inductive invariant of the texts. *)

TextOf(e) == IF e.event = "token" THEN e.text ELSE <<>>

(* Events hold what a text has between two places, in its order.           *)
Carries(w, events, a, b) ==
  \E c \in [0..Len(events) -> 0..Len(w)] :
    /\ c[0] = a /\ c[Len(events)] = b
    /\ \A j, k \in 0..Len(events) : j <= k => c[j] <= c[k]
    /\ \A k \in 1..Len(events) : TextOf(events[k]) = SubSeq(w, c[k - 1] + 1, c[k])

(* The client has the text as far as g, the second channel holds it on to  *)
(* d, the monitor's task to c, and the loop's channel to h.                *)
SentOK(g, d, c, h) ==
  /\ g <= d /\ d <= c /\ c <= h
  /\ got = SubSeq(written, 1, g)
  /\ Carries(written, down, g, d)
  /\ up_rx => TextOf(carried) = SubSeq(written, d + 1, c) /\ Carries(written, up, c, h)

(* The loop holds the rest.                                                *)
LoopOK(h) ==
  LET N == Len(written) IN
  /\ stage \in {"ready", "piece", "tail"} => ~Stopped(written) /\ reason = "Length"
  /\ stage = "ready" => pending = SubSeq(written, h + 1, N) /\ Clear(written, h)
  /\ stage = "piece" =>
       \E k \in h..N : /\ out = SubSeq(written, h + 1, k) /\ pending = SubSeq(written, k + 1, N)
                       /\ Clear(written, k) /\ (~full => k = N - Holdback(written))
  /\ stage = "tail" => pending = <<>> /\ out = SubSeq(written, h + 1, N)
  /\ stage = "last" =>
       /\ Stopped(written) /\ h <= FirstStop(written) - 1
       /\ out = SubSeq(written, h + 1, FirstStop(written) - 1)
  /\ stage \in {"done", "error", "ended"} => h <= Len(BeforeStop(written))

(* How far the text of an answer that is over must be sent.                *)
OwedTo ==
  IF reason = "Length" \/ Stopped(written) THEN Len(BeforeStop(written))
  ELSE IF tokens = 0 THEN 0 ELSE Len(written) - Holdback(written)

IsDone(e) == e.event = "done"

(* Nothing was dropped: a Done comes after all of it.                      *)
AllOK(g, d, c, h) ==
  /\ stage = "ready" => h = (IF tokens = 0 THEN 0 ELSE Len(written) - Holdback(written))
  /\ stage = "piece" => tokens > 0
  /\ stage = "done" /\ up_rx => h = OwedTo
  /\ up_rx /\ up # <<>> /\ IsDone(up[Len(up)]) => stage = "ended" /\ h = OwedTo
  /\ IsDone(carried) => stage = "ended" /\ c = OwedTo
  /\ told = "nothing" /\ down # <<>> /\ IsDone(down[Len(down)]) => stage = "ended" /\ d = OwedTo
  /\ told \in {"Stop", "Length"} => stage = "ended" /\ g = OwedTo

FlowOK(g, d, c, h) == SentOK(g, d, c, h) /\ LoopOK(h) /\ (~full => AllOK(g, d, c, h))

FlowInv ==
  /\ written \in Seq(Chars)
  /\ Unfiltered(written) =>
       \E g, d, c, h \in 0..Len(written) : FlowOK(g, d, c, h)

(* A part of a text, in one that goes on.                                  *)
LEMMA PartOfMore ==
  ASSUME NEW w \in Seq(Chars), NEW x \in Seq(Chars), NEW a \in 0..Len(w), NEW b \in a..Len(w)
  PROVE  /\ a \in 0..Len(w \o x) /\ b \in a..Len(w \o x)
         /\ SubSeq(w \o x, a + 1, b) = SubSeq(w, a + 1, b)
<1> DEFINE y == w \o x
<1>1. y \in Seq(Chars) /\ Len(y) = Len(w) + Len(x) /\ Len(w) \in Nat /\ Len(x) \in Nat
      /\ \A i \in 1..(Len(w) + Len(x)) : i <= Len(w) => y[i] = w[i]
  BY ConcatProperties, LenProperties
<1> HIDE DEF y
<1>2. \A i \in 1..Len(w) : y[i] = w[i]  BY <1>1
<1>3. a \in 0..Len(y) /\ b \in a..Len(y)  BY <1>1
<1> DEFINE s == SubSeq(w, a + 1, b)  t == SubSeq(y, a + 1, b)
<1>4. s \in Seq(Chars) /\ Len(s) = b - a /\ \A i \in 1..(b - a) : s[i] = w[a + i]  BY Within
<1>5. t \in Seq(Chars) /\ Len(t) = b - a /\ \A i \in 1..(b - a) : t[i] = y[a + i]
  BY <1>1, <1>3, Within
<1>6. \A i \in 1..(b - a) : a + i \in 1..Len(w)  BY <1>1
<1> HIDE DEF s, t
<1>7. \A i \in 1..Len(t) : t[i] = s[i]  BY <1>2, <1>4, <1>5, <1>6
<1>8. t = s  BY <1>4, <1>5, <1>7, SeqEqual
<1> QED  BY <1>3, <1>8 DEF y, s, t

(* Two parts of a text, one after the other.                               *)
LEMMA PartsMeet ==
  ASSUME NEW w \in Seq(Chars), NEW a \in 0..Len(w), NEW b \in a..Len(w), NEW c \in b..Len(w)
  PROVE  SubSeq(w, a + 1, b) \o SubSeq(w, b + 1, c) = SubSeq(w, a + 1, c)
<1> DEFINE s == SubSeq(w, a + 1, b)  t == SubSeq(w, b + 1, c)  u == SubSeq(w, a + 1, c)
<1>1. Len(w) \in Nat /\ b \in 0..Len(w) /\ c \in a..Len(w)  BY LenProperties
<1>2. s \in Seq(Chars) /\ Len(s) = b - a /\ \A i \in 1..(b - a) : s[i] = w[a + i]  BY Within
<1>3. t \in Seq(Chars) /\ Len(t) = c - b /\ \A i \in 1..(c - b) : t[i] = w[b + i]  BY <1>1, Within
<1>4. u \in Seq(Chars) /\ Len(u) = c - a /\ \A i \in 1..(c - a) : u[i] = w[a + i]  BY <1>1, Within
<1> HIDE DEF s, t, u
<1>5. /\ s \o t \in Seq(Chars) /\ Len(s \o t) = Len(s) + Len(t)
      /\ \A i \in 1..(Len(s) + Len(t)) : (s \o t)[i] = IF i <= Len(s) THEN s[i] ELSE t[i - Len(s)]
  BY <1>2, <1>3, ConcatProperties
<1>6. \A i \in 1..Len(s \o t) : (s \o t)[i] = u[i]
  <2> TAKE i \in 1..Len(s \o t)
  <2>1. i \in 1..(c - a) /\ i \in 1..(Len(s) + Len(t))  BY <1>1, <1>2, <1>3, <1>5
  <2>2. CASE i <= b - a
    <3>1. i \in 1..(b - a)  BY <1>1, <2>1, <2>2
    <3> QED  BY <1>2, <1>4, <1>5, <2>1, <3>1
  <2>3. CASE ~(i <= b - a)
    <3>1. i - (b - a) \in 1..(c - b) /\ b + (i - (b - a)) = a + i  BY <1>1, <2>1, <2>3
    <3>2. t[i - (b - a)] = w[a + i]  BY <1>3, <3>1
    <3> QED  BY <1>2, <1>4, <1>5, <2>1, <2>3, <3>2
  <2> QED  BY <2>2, <2>3
<1>7. s \o t = u
  <2>1. Len(s \o t) = Len(u)  BY <1>1, <1>2, <1>3, <1>4, <1>5
  <2> DEFINE v == s \o t
  <2> HIDE DEF v
  <2>2. v \in Seq(Chars) /\ Len(v) = Len(u) /\ \A i \in 1..Len(v) : v[i] = u[i]
    BY <1>5, <1>6, <2>1 DEF v
  <2>3. v = u  BY <1>4, <2>2, SeqEqual
  <2> QED  BY <2>3 DEF v
<1> QED  BY <1>7 DEF s, t, u

(* A part is nothing only between a place and itself.                      *)
LEMMA NoPart ==
  ASSUME NEW w \in Seq(Chars), NEW a \in 0..Len(w), NEW b \in a..Len(w)
  PROVE  SubSeq(w, a + 1, b) = <<>> <=> a = b
<1>1. Len(SubSeq(w, a + 1, b)) = b - a /\ SubSeq(w, a + 1, b) \in Seq(Chars)  BY Within
<1>2. Len(w) \in Nat  BY LenProperties
<1>3. a \in Nat /\ b \in Nat  BY <1>2
<1>4. SubSeq(w, a + 1, b) = <<>> <=> Len(SubSeq(w, a + 1, b)) = 0
  BY <1>1, EmptySeq
<1> QED  BY <1>1, <1>3, <1>4

(* A part of the end of a text, as a part of the text.                     *)
LEMMA PartOfEnd ==
  ASSUME NEW w \in Seq(Chars), NEW h \in 0..Len(w),
         NEW t \in Seq(Chars), t = SubSeq(w, h + 1, Len(w)),
         NEW a \in 0..Len(t), NEW b \in a..Len(t)
  PROVE  /\ h + a \in h..Len(w) /\ h + b \in (h + a)..Len(w)
         /\ SubSeq(t, a + 1, b) = SubSeq(w, (h + a) + 1, h + b)
<1>1. Len(w) \in Nat /\ Len(w) \in h..Len(w)  BY LenProperties
<1>2. Len(t) = Len(w) - h /\ \A i \in 1..(Len(w) - h) : t[i] = w[h + i]  BY <1>1, Within
<1>3. h + a \in h..Len(w) /\ h + b \in (h + a)..Len(w) /\ h + a \in 0..Len(w)
  BY <1>1, <1>2
<1> DEFINE s == SubSeq(t, a + 1, b)  u == SubSeq(w, (h + a) + 1, h + b)
<1>4. s \in Seq(Chars) /\ Len(s) = b - a /\ \A i \in 1..(b - a) : s[i] = t[a + i]  BY Within
<1>5. /\ u \in Seq(Chars) /\ Len(u) = (h + b) - (h + a)
      /\ \A i \in 1..((h + b) - (h + a)) : u[i] = w[(h + a) + i]
  BY <1>3, Within
<1>6. (h + b) - (h + a) = b - a  BY <1>1, <1>2
<1>7. \A i \in 1..(b - a) : a + i \in 1..(Len(w) - h) /\ h + (a + i) = (h + a) + i
  BY <1>1, <1>2
<1> HIDE DEF s, u
<1>8. \A i \in 1..Len(s) : s[i] = u[i]  BY <1>2, <1>4, <1>5, <1>6, <1>7
<1>9. s = u  BY <1>4, <1>5, <1>6, <1>8, SeqEqual
<1> QED  BY <1>3, <1>9 DEF s, u

-----------------------------------------------------------------------------
(* Events on a channel. *)

LEMMA CarryBounds ==
  ASSUME NEW w \in Seq(Chars), NEW E, SeqAny(E), NEW a, NEW b, Carries(w, E, a, b)
  PROVE  a \in 0..Len(w) /\ b \in a..Len(w)
<1>1. Len(E) \in Nat /\ Len(w) \in Nat  BY NoneLeft, LenProperties
<1>2. PICK c \in [0..Len(E) -> 0..Len(w)] :
        /\ c[0] = a /\ c[Len(E)] = b /\ \A j, k \in 0..Len(E) : j <= k => c[j] <= c[k]
  BY DEF Carries
<1>3. 0 \in 0..Len(E) /\ Len(E) \in 0..Len(E) /\ 0 <= Len(E)  BY <1>1
<1>4. a \in 0..Len(w) /\ b \in 0..Len(w) /\ a <= b  BY <1>2, <1>3
<1> QED  BY <1>1, <1>4

LEMMA CarryNone ==
  ASSUME NEW w \in Seq(Chars), NEW a, NEW b
  PROVE  Carries(w, <<>>, a, b) <=> a \in 0..Len(w) /\ a = b
<1>1. Len(w) \in Nat /\ Len(<<>>) = 0  BY LenProperties
<1>2. ASSUME Carries(w, <<>>, a, b) PROVE a \in 0..Len(w) /\ a = b
  <2>1. PICK c \in [0..Len(<<>>) -> 0..Len(w)] : c[0] = a /\ c[Len(<<>>)] = b
    BY <1>2 DEF Carries
  <2> QED  BY <1>1, <2>1
<1>3. ASSUME a \in 0..Len(w) PROVE Carries(w, <<>>, a, a)
  <2> DEFINE c == [k \in 0..0 |-> a]
  <2>1. /\ c \in [0..0 -> 0..Len(w)] /\ c[0] = a
        /\ \A j, k \in 0..0 : j <= k => c[j] <= c[k]
    BY <1>1, <1>3
  <2>2. \A k \in 1..0 : FALSE  OBVIOUS
  <2> HIDE DEF c
  <2> QED  BY <1>1, <2>1, <2>2 DEF Carries
<1> QED  BY <1>2, <1>3

LEMMA CarryMore ==
  ASSUME NEW w \in Seq(Chars), NEW x \in Seq(Chars), NEW E, SeqAny(E), NEW a, NEW b,
         Carries(w, E, a, b)
  PROVE  Carries(w \o x, E, a, b)
<1>1. Len(E) \in Nat /\ Len(w) \in Nat /\ Len(x) \in Nat /\ Len(w \o x) = Len(w) + Len(x)
  BY NoneLeft, LenProperties, ConcatProperties
<1>2. PICK c \in [0..Len(E) -> 0..Len(w)] :
        /\ c[0] = a /\ c[Len(E)] = b /\ \A j, k \in 0..Len(E) : j <= k => c[j] <= c[k]
        /\ \A k \in 1..Len(E) : TextOf(E[k]) = SubSeq(w, c[k - 1] + 1, c[k])
  BY DEF Carries
<1>3. c \in [0..Len(E) -> 0..Len(w \o x)]
  <2>1. 0..Len(w) \subseteq 0..Len(w \o x)  BY <1>1
  <2> QED  BY <1>2, <2>1
<1>4. \A k \in 1..Len(E) : SubSeq(w \o x, c[k - 1] + 1, c[k]) = SubSeq(w, c[k - 1] + 1, c[k])
  <2> TAKE k \in 1..Len(E)
  <2>1. k - 1 \in 0..Len(E) /\ k \in 0..Len(E) /\ k - 1 <= k  BY <1>1
  <2>2. c[k - 1] \in 0..Len(w) /\ c[k] \in 0..Len(w) /\ c[k - 1] <= c[k]  BY <1>2, <2>1
  <2>3. c[k] \in c[k - 1]..Len(w)  BY <1>1, <2>2
  <2> QED  BY <2>2, <2>3, PartOfMore
<1> QED  BY <1>2, <1>3, <1>4 DEF Carries

LEMMA CarryAppend ==
  ASSUME NEW w \in Seq(Chars), NEW E, SeqAny(E), NEW a, NEW b, Carries(w, E, a, b),
         NEW e, NEW d \in b..Len(w), TextOf(e) = SubSeq(w, b + 1, d)
  PROVE  Carries(w, Append(E, e), a, d)
<1> DEFINE F == Append(E, e)  n == Len(E)
<1>1. n \in Nat /\ Len(w) \in Nat /\ Len(F) = n + 1 /\ F[n + 1] = e
      /\ \A k \in 1..n : F[k] = E[k]
  BY AppendTo, LenProperties
<1> HIDE DEF F
<1>2. PICK c \in [0..n -> 0..Len(w)] :
        /\ c[0] = a /\ c[n] = b /\ \A j, k \in 0..n : j <= k => c[j] <= c[k]
        /\ \A k \in 1..n : TextOf(E[k]) = SubSeq(w, c[k - 1] + 1, c[k])
  BY DEF Carries
<1> HIDE DEF n
<1> DEFINE z == [k \in 0..(n + 1) |-> IF k = n + 1 THEN d ELSE c[k]]
<1>3. b \in 0..Len(w) /\ d \in 0..Len(w) /\ b <= d
  BY <1>1, <1>2
<1>4. z \in [0..(n + 1) -> 0..Len(w)]
  <2>1. \A k \in 0..(n + 1) : k = n + 1 \/ k \in 0..n  BY <1>1
  <2> QED  BY <1>2, <1>3, <2>1
<1>5. z[0] = a /\ z[n + 1] = d /\ \A k \in 0..n : z[k] = c[k]  BY <1>1, <1>2
<1> HIDE DEF z
<1>6. \A j, k \in 0..(n + 1) : j <= k => z[j] <= z[k]
  <2> SUFFICES ASSUME NEW j \in 0..(n + 1), NEW k \in 0..(n + 1), j <= k PROVE z[j] <= z[k]
    OBVIOUS
  <2>1. CASE k = n + 1
    <3>1. CASE j = n + 1  BY <1>3, <1>5, <2>1, <3>1
    <3>2. CASE j # n + 1
      <4>1. j \in 0..n /\ n \in 0..n /\ j <= n  BY <1>1, <3>2
      <4>2. z[j] = c[j] /\ c[j] \in 0..Len(w) /\ c[j] <= b  BY <1>2, <1>5, <4>1
      <4> QED  BY <1>1, <1>3, <1>5, <2>1, <4>2
    <3> QED  BY <3>1, <3>2
  <2>2. CASE k # n + 1
    <3>1. j \in 0..n /\ k \in 0..n  BY <1>1, <2>2
    <3> QED  BY <1>2, <1>5, <3>1
  <2> QED  BY <2>1, <2>2
<1>7. \A k \in 1..(n + 1) : TextOf(F[k]) = SubSeq(w, z[k - 1] + 1, z[k])
  <2> TAKE k \in 1..(n + 1)
  <2>1. CASE k = n + 1
    <3>1. n \in 0..n /\ k - 1 = n  BY <1>1, <2>1
    <3>2. z[n] = b /\ z[k] = d /\ F[k] = e  BY <1>1, <1>2, <1>5, <2>1, <3>1
    <3> QED  BY <3>1, <3>2
  <2>2. CASE k # n + 1
    <3>1. k \in 1..n /\ k \in 0..n /\ k - 1 \in 0..n  BY <1>1, <2>2
    <3>2. z[k] = c[k] /\ z[k - 1] = c[k - 1] /\ F[k] = E[k]  BY <1>1, <1>5, <3>1
    <3> QED  BY <1>2, <3>1, <3>2
  <2> QED  BY <2>1, <2>2
<1>8. Carries(w, F, a, d)  BY <1>1, <1>4, <1>5, <1>6, <1>7 DEF Carries
<1> QED  BY <1>8 DEF F

LEMMA CarryTake ==
  ASSUME NEW w \in Seq(Chars), NEW E, SeqAny(E), E # <<>>, NEW a, NEW b, Carries(w, E, a, b)
  PROVE  \E m \in a..b : TextOf(Head(E)) = SubSeq(w, a + 1, m) /\ Carries(w, Tail(E), m, b)
<1> DEFINE F == Tail(E)  n == Len(E)
<1>1. n \in Nat \ {0} /\ Len(w) \in Nat /\ Len(F) = n - 1 /\ Head(E) = E[1]
      /\ \A k \in 1..(n - 1) : F[k] = E[k + 1]
  BY TakeFrom, LenProperties
<1> HIDE DEF F
<1>2. PICK c \in [0..n -> 0..Len(w)] :
        /\ c[0] = a /\ c[n] = b /\ \A j, k \in 0..n : j <= k => c[j] <= c[k]
        /\ \A k \in 1..n : TextOf(E[k]) = SubSeq(w, c[k - 1] + 1, c[k])
  BY DEF Carries
<1> HIDE DEF n
<1> DEFINE z == [k \in 0..(n - 1) |-> c[k + 1]]  m == c[1]
<1>3. 0 \in 0..n /\ 1 \in 0..n /\ n \in 0..n /\ 1 \in 1..n /\ 0 <= 1 /\ 1 <= n /\ 1 - 1 = 0
  BY <1>1
<1>4. m \in a..b
  <2>1. a \in 0..Len(w) /\ b \in 0..Len(w) /\ c[1] \in 0..Len(w) /\ a <= c[1] /\ c[1] <= b
    BY <1>2, <1>3
  <2> QED  BY <1>1, <2>1
<1>5. TextOf(Head(E)) = SubSeq(w, a + 1, m)
  <2>1. TextOf(E[1]) = SubSeq(w, c[1 - 1] + 1, c[1])  BY <1>2, <1>3
  <2> QED  BY <1>1, <1>2, <1>3, <2>1
<1>6. \A k \in 0..(n - 1) : k + 1 \in 0..n  BY <1>1
<1>7. z \in [0..(n - 1) -> 0..Len(w)]  BY <1>2, <1>6
<1>8. z[0] = m /\ z[n - 1] = b /\ \A k \in 0..(n - 1) : z[k] = c[k + 1]
  <2>1. 0 \in 0..(n - 1) /\ n - 1 \in 0..(n - 1) /\ (n - 1) + 1 = n /\ 0 + 1 = 1  BY <1>1
  <2> QED  BY <1>2, <2>1
<1> HIDE DEF z, m
<1>9. \A j, k \in 0..(n - 1) : j <= k => z[j] <= z[k]
  <2> SUFFICES ASSUME NEW j \in 0..(n - 1), NEW k \in 0..(n - 1), j <= k PROVE z[j] <= z[k]
    OBVIOUS
  <2>1. j + 1 \in 0..n /\ k + 1 \in 0..n /\ j + 1 <= k + 1  BY <1>1
  <2> QED  BY <1>2, <1>8, <2>1
<1>10. \A k \in 1..(n - 1) : TextOf(F[k]) = SubSeq(w, z[k - 1] + 1, z[k])
  <2> TAKE k \in 1..(n - 1)
  <2>1. k + 1 \in 1..n /\ k - 1 \in 0..(n - 1) /\ k \in 0..(n - 1) /\ (k - 1) + 1 = k
        /\ (k + 1) - 1 = k
    BY <1>1
  <2>2. z[k - 1] = c[k] /\ z[k] = c[k + 1] /\ F[k] = E[k + 1]  BY <1>1, <1>8, <2>1
  <2>3. TextOf(E[k + 1]) = SubSeq(w, c[(k + 1) - 1] + 1, c[k + 1])  BY <1>2, <2>1
  <2> QED  BY <2>1, <2>2, <2>3
<1>11. Carries(w, F, m, b)  BY <1>1, <1>7, <1>8, <1>9, <1>10 DEF Carries
<1> QED  BY <1>4, <1>5, <1>11 DEF F

(* What process_piece hands over and holds back, of the whole text.        *)
LEMMA ProcessIs ==
  ASSUME NEW w \in Seq(Chars), NEW x \in Seq(Chars), NEW h \in 0..Len(w),
         ~Stopped(w), Clear(w, h), Unfiltered(w \o x),
         NEW p, p = SubSeq(w, h + 1, Len(w))
  PROVE  LET y == w \o x
             r == ProcessPiece(p, x)
             k == Len(y) - Holdback(y)
         IN /\ h \in 0..Len(y) /\ (r.stop <=> Stopped(y))
            /\ Stopped(y) => /\ h <= FirstStop(y) - 1 /\ r.pending = <<>>
                             /\ r.out = SubSeq(y, h + 1, FirstStop(y) - 1)
            /\ ~Stopped(y) => /\ k \in h..Len(y) /\ Clear(y, k)
                              /\ r.out = SubSeq(y, h + 1, k)
                              /\ r.pending = SubSeq(y, k + 1, Len(y))
<1> DEFINE y == w \o x  t == p \o x  N == Len(y)
<1>1. y \in Seq(Chars) /\ N = Len(w) + Len(x) /\ Len(w) \in Nat /\ Len(x) \in Nat
      /\ \A i \in 1..N : y[i] = IF i <= Len(w) THEN w[i] ELSE x[i - Len(w)]
  BY ConcatProperties, LenProperties
<1>2. /\ p \in Seq(Chars) /\ Len(p) = Len(w) - h /\ \A i \in 1..(Len(w) - h) : p[i] = w[h + i]
  <2>1. Len(w) \in h..Len(w)  BY <1>1
  <2> QED  BY <2>1, Within
<1>3. /\ t \in Seq(Chars) /\ Len(t) = Len(p) + Len(x)
      /\ \A i \in 1..(Len(p) + Len(x)) : t[i] = IF i <= Len(p) THEN p[i] ELSE x[i - Len(p)]
  BY <1>2, ConcatProperties
<1> HIDE DEF y, t, N
<1>4. h \in 0..N /\ N \in h..N /\ Len(t) = N - h  BY <1>1, <1>2, <1>3
<1>a. /\ N \in Nat /\ Len(w) \in Nat /\ Len(x) \in Nat /\ Len(p) \in Nat /\ h \in Nat
      /\ N = Len(w) + Len(x) /\ Len(p) = Len(w) - h /\ Len(t) = Len(p) + Len(x)
  BY <1>1, <1>2, <1>3
<1>5. \A i \in 1..Len(t) : t[i] = y[h + i]
  <2> TAKE i \in 1..Len(t)
  <2>1. h + i \in 1..N /\ i \in 1..(Len(p) + Len(x))  BY <1>a
  <2>2. CASE i <= Len(w) - h
    <3>1. i \in 1..(Len(w) - h) /\ h + i <= Len(w)  BY <1>1, <2>1, <2>2
    <3> QED  BY <1>1, <1>2, <1>3, <2>1, <3>1
  <2>3. CASE ~(i <= Len(w) - h)
    <3>1. ~(h + i <= Len(w)) /\ i - Len(p) = (h + i) - Len(w) /\ ~(i <= Len(p))
      <4> DEFINE n == Len(p)  v == Len(w)
      <4>1. i \in Nat /\ n \in Nat /\ v \in Nat /\ h \in Nat /\ n = v - h /\ ~(i <= v - h)
        BY <1>a, <2>3
      <4> HIDE DEF n, v
      <4>2. ~(h + i <= v) /\ i - n = (h + i) - v /\ ~(i <= n)  BY <4>1
      <4> QED  BY <4>2 DEF n, v
    <3>2. t[i] = x[i - Len(p)]  BY <1>3, <2>1, <3>1
    <3>3. y[h + i] = x[(h + i) - Len(w)]  BY <1>1, <2>1, <3>1
    <3> QED  BY <3>1, <3>2, <3>3
  <2> QED  BY <2>2, <2>3
<1>6. /\ Stopped(t) <=> Stopped(y)
      /\ Stopped(t) => FirstStop(y) = h + FirstStop(t)
      /\ Holdback(t) = Holdback(y) /\ Clear(y, h)
  <2>1. Len(t) = Len(w \o x) - h /\ \A i \in 1..Len(t) : t[i] = (w \o x)[h + i]
    BY <1>4, <1>5 DEF y, N
  <2> QED  BY <1>3, <2>1, HeldIsEnough DEF y
<1>7. Unfiltered(t)
  <2> SUFFICES ASSUME NEW f \in ToSet(Filters), Has(t, f) PROVE FALSE  BY DEF Unfiltered
  <2>1. f \in Markers  BY MarkersAre
  <2>2. PICK q \in 0..Len(t) : Occurs(t, q, f)  BY <1>3, <2>1, HasIs
  <2>3. h + q \in 0..Len(y) /\ Occurs(y, h + q, f)  BY <1>1, <1>3, <1>4, <1>5, <2>1, <2>2, EndIs DEF N
  <2>4. Has(y, f)  BY <1>1, <2>1, <2>3, HasIs
  <2> QED  BY <2>4 DEF Unfiltered, y
<1>8. Elide(t) = t  BY <1>3, <1>7, ElideIs
<1>9. t = SubSeq(y, h + 1, N)
  <2> DEFINE s == SubSeq(y, h + 1, N)
  <2>1. s \in Seq(Chars) /\ Len(s) = N - h /\ \A i \in 1..(N - h) : s[i] = y[h + i]
    BY <1>1, <1>4, Within DEF N
  <2> HIDE DEF s
  <2>2. \A i \in 1..Len(t) : t[i] = s[i]  BY <1>4, <1>5, <2>1
  <2>3. t = s  BY <1>3, <1>4, <2>1, <2>2, SeqEqual
  <2> QED  BY <2>3 DEF s
<1> DEFINE r == ProcessPiece(p, x)  k == N - Holdback(y)
           Goal == /\ h \in 0..Len(y) /\ (r.stop <=> Stopped(y))
                   /\ Stopped(y) => /\ h <= FirstStop(y) - 1 /\ r.pending = <<>>
                                    /\ r.out = SubSeq(y, h + 1, FirstStop(y) - 1)
                   /\ ~Stopped(y) => /\ k \in h..Len(y) /\ Clear(y, k)
                                     /\ r.out = SubSeq(y, h + 1, k)
                                     /\ r.pending = SubSeq(y, k + 1, Len(y))
<1>10. ASSUME Stopped(y) PROVE Goal
  <2>1. /\ FirstStop(t) - 1 \in 0..Len(t) /\ FirstStop(t) \in Nat
        /\ FirstStop(y) - 1 \in 0..N /\ FirstStop(y) \in Nat
    BY <1>1, <1>3, <1>6, <1>10, FirstStopIs DEF N
  <2>2. r = [stop |-> TRUE, out |-> SubSeq(t, 1, FirstStop(t) - 1), pending |-> <<>>]
    BY <1>6, <1>10 DEF ProcessPiece, t
  <2>3. SubSeq(t, 1, FirstStop(t) - 1) = SubSeq(y, h + 1, FirstStop(y) - 1)
    <3> DEFINE e == FirstStop(t) - 1
    <3>1. 0 \in 0..Len(t) /\ e \in 0..Len(t) /\ 0 + 1 = 1 /\ h + 0 = h
          /\ h + e = FirstStop(y) - 1
      BY <1>1, <1>4, <1>6, <1>10, <2>1
    <3> HIDE DEF e
    <3>2. SubSeq(t, 0 + 1, e) = SubSeq(y, (h + 0) + 1, h + e)
      BY <1>1, <1>3, <1>4, <1>9, <3>1, PartOfEnd DEF N
    <3>3. SubSeq(t, 1, e) = SubSeq(y, h + 1, FirstStop(y) - 1)  BY <3>1, <3>2
    <3> QED  BY <3>3 DEF e
  <2>4. h <= FirstStop(y) - 1
    <3>1. h \in Nat  BY <1>1
    <3> QED  BY <1>6, <1>10, <2>1, <3>1
  <2>5. r.stop /\ r.pending = <<>> /\ r.out = SubSeq(y, h + 1, FirstStop(y) - 1)
    <3> HIDE DEF r
    <3> QED  BY <2>2, <2>3
  <2> HIDE DEF r
  <2>6. Goal  BY <1>4, <1>10, <2>4, <2>5 DEF N
  <2> QED  BY <2>6
<1>11. ASSUME ~Stopped(y) PROVE Goal
  <2> DEFINE u == Len(t) - Holdback(t)
  <2>1. Holdback(t) \in 0..Len(t)  BY <1>3, HoldbackIs
  <2>2. r = [stop |-> FALSE, out |-> SubSeq(t, 1, u), pending |-> SubSeq(t, u + 1, Len(t))]
    BY <1>6, <1>8, <1>11 DEF ProcessPiece, t
  <2>3. u \in 0..Len(t) /\ Len(t) \in u..Len(t) /\ h + u = k /\ h + Len(t) = N
        /\ 0 \in 0..Len(t) /\ 0 + 1 = 1 /\ h + 0 = h
    BY <1>1, <1>4, <1>6, <2>1
  <2> HIDE DEF u, k
  <2>4. SubSeq(t, 1, u) = SubSeq(y, h + 1, k)
    <3>1. SubSeq(t, 0 + 1, u) = SubSeq(y, (h + 0) + 1, h + u)
      BY <1>1, <1>3, <1>4, <1>9, <2>3, PartOfEnd DEF N
    <3> QED  BY <2>3, <3>1
  <2>5. SubSeq(t, u + 1, Len(t)) = SubSeq(y, k + 1, N) /\ k \in h..N
    <3>0. y \in Seq(Chars) /\ h \in 0..Len(y) /\ t \in Seq(Chars) /\ t = SubSeq(y, h + 1, Len(y))
      BY <1>1, <1>3, <1>4, <1>9 DEF N
    <3>1. /\ SubSeq(t, u + 1, Len(t)) = SubSeq(y, (h + u) + 1, h + Len(t))
          /\ h + u \in h..Len(y)
      BY <2>3, <3>0, PartOfEnd
    <3> QED  BY <2>3, <3>1 DEF N
  <2>6. Clear(y, k)
    <3> SUFFICES ASSUME NEW q \in 0..Len(y), q < k, NEW m \in Markers, Begins(y, q, m) PROVE FALSE
      BY DEF Clear
    <3>1. OpenAt(y, q)  BY DEF OpenAt
    <3>2. k <= q  BY <1>1, <3>1, HoldbackIs DEF k, N
    <3>3. k \in Nat /\ q \in Nat  BY <1>1, <1>4, <2>5 DEF N
    <3> QED  BY <3>2, <3>3
  <2>7. /\ r.stop = FALSE /\ r.out = SubSeq(y, h + 1, k)
        /\ r.pending = SubSeq(y, k + 1, N)
    <3> HIDE DEF r
    <3> QED  BY <2>2, <2>4, <2>5
  <2> HIDE DEF r
  <2>8. Goal  BY <1>4, <1>11, <2>5, <2>6, <2>7 DEF N
  <2> QED  BY <2>8
<1> QED  BY <1>10, <1>11 DEF y, N

LEMMA InitFlow == Init => FlowInv
<1> SUFFICES ASSUME Init PROVE FlowInv  OBVIOUS
<1>1. written \in Openings /\ written \in Seq(Chars)  BY DeliveryAssumption DEF Init
<1>2. ~Stopped(written)  BY <1>1, DeliveryAssumption
<1>3. Len(written) \in Nat /\ 0 \in 0..Len(written)  BY <1>1, LenProperties
<1>4. SubSeq(written, 0 + 1, 0) = <<>> /\ SubSeq(written, 1, 0) = <<>>
      /\ SubSeq(written, 0 + 1, Len(written)) = written
  <2>1. SubSeq(written, 1, Len(written)) = written  BY <1>1, SubSeqFull
  <2>2. SubSeq(written, 1, 0) = <<>>  BY <1>1, SubSeqEmpty
  <2>3. 0 + 1 = 1  OBVIOUS
  <2> QED  BY <2>1, <2>2, <2>3
<1>5. Carries(written, <<>>, 0, 0)  BY <1>1, <1>3, CarryNone
<1>6. TextOf(Nothing) = <<>>  BY DEF TextOf, Nothing
<1>7. SentOK(0, 0, 0, 0)  BY <1>4, <1>5, <1>6 DEF Init, SentOK
<1>8. Clear(written, 0)  BY <1>3 DEF Clear
<1>9. LoopOK(0)  BY <1>2, <1>4, <1>8 DEF Init, LoopOK
<1>10. AllOK(0, 0, 0, 0)  BY DEF Init, AllOK, IsDone, Nothing
<1>11. FlowOK(0, 0, 0, 0)  BY <1>7, <1>9, <1>10 DEF FlowOK
<1> QED  BY <1>1, <1>3, <1>11 DEF FlowInv

(* What was sent is at most what may be shown.                             *)
LEMMA SentBefore ==
  ASSUME DeliveryInv, written \in Seq(Chars), NEW h \in 0..Len(written), LoopOK(h)
  PROVE  h <= Len(BeforeStop(written))
<1>1. Len(written) \in Nat /\ h <= Len(written)  BY LenProperties
<1>2. Len(BeforeStop(written)) = IF Stopped(written) THEN FirstStop(written) - 1 ELSE Len(written)
  BY BeforeIs
<1>3. stage \in Stages  BY DEF DeliveryInv, Typed
<1> QED  BY <1>1, <1>2, <1>3 DEF LoopOK, Stages

(* A step of the loop leaves what is on its way alone.                     *)
LEMMA LoopStep ==
  ASSUME NEW g, NEW d, NEW c, NEW h, SentOK(g, d, c, h),
         UNCHANGED <<written, got, down, up_rx, carried, up>>
  PROVE  SentOK(g, d, c, h)'
BY DEF SentOK

(* And while the sequence has not ended, nothing told it has.              *)
LEMMA NotOverYet ==
  ASSUME NEW g, NEW d, NEW c, NEW h, AllOK(g, d, c, h), stage # "ended",
         UNCHANGED <<up_rx, carried, down, told>>
  PROVE  /\ up_rx /\ up # <<>> => ~IsDone(up[Len(up)])
         /\ ~IsDone(carried')
         /\ told' = "nothing" /\ down' # <<>> => ~IsDone(down'[Len(down')])
         /\ told' \notin {"Stop", "Length"}
BY DEF AllOK

(* A filter sequence the whole text has not, its beginning has not.        *)
LEMMA FilteredStays ==
  ASSUME NEW w \in Seq(Chars), NEW x \in Seq(Chars), Unfiltered(w \o x)
  PROVE  Unfiltered(w)
<1> SUFFICES ASSUME NEW f \in ToSet(Filters), Has(w, f) PROVE FALSE  BY DEF Unfiltered
<1> DEFINE y == w \o x
<1>1. f \in Markers /\ y \in Seq(Chars) /\ Len(y) = Len(w) + Len(x)
      /\ Len(w) \in Nat /\ Len(x) \in Nat
  BY MarkersAre, ConcatProperties, LenProperties
<1>2. PICK p \in 0..Len(w) : Occurs(w, p, f)  BY <1>1, HasIs
<1>3. Occurs(y, p, f) /\ p \in 0..Len(y)  BY <1>1, <1>2, MoreIs
<1> HIDE DEF y
<1>4. Has(y, f)  BY <1>1, <1>3, HasIs
<1> QED  BY <1>4 DEF Unfiltered, y

(* A token more, or none.                                                  *)
LEMMA SampleFlow ==
  ASSUME DeliveryInv, FlowInv, Sample
  PROVE  FlowInv'
<1>1. /\ stage = "ready" /\ UNCHANGED <<up, up_rx, carried, down, told, got, full>>
  BY DEF Sample, relay, client
<1>2. written \in Seq(Chars)  BY DEF FlowInv
<1>3. Len(written) \in Nat  BY <1>2, LenProperties
<1>4. CASE written' = written
  <2> SUFFICES ASSUME Unfiltered(written)
               PROVE  \E g, d, c, h \in 0..Len(written) : FlowOK(g, d, c, h)'
    BY <1>2, <1>4 DEF FlowInv
  <2>1. PICK g, d, c, h \in 0..Len(written) : FlowOK(g, d, c, h)  BY DEF FlowInv
  <2>2. SentOK(g, d, c, h)'  BY <1>1, <1>4, <2>1, LoopStep DEF FlowOK
  <2>3. /\ ~Stopped(written) /\ reason = "Length" /\ Clear(written, h)
        /\ pending = SubSeq(written, h + 1, Len(written))
    BY <1>1, <2>1 DEF FlowOK, LoopOK
  <2>4. Len(BeforeStop(written)) = Len(written) /\ h <= Len(written)
    BY <1>2, <1>3, <2>3, BeforeIs
  <2>5. tokens' = tokens \/ stage' \notin {"done", "error", "tail"}
    BY DEF Sample
  <2>6. \/ stage' = "done" /\ reason' = "Stop" /\ tokens' = tokens
        \/ stage' = "error"
        \/ stage' = "tail" /\ out' = pending /\ pending' = <<>> /\ reason' = "Length"
    <3>1. ASSUME NEW piece \in Pieces, written' = written \o piece PROVE FALSE
      <4>1. piece \in Seq(Chars) /\ Len(piece) > 0  BY DeliveryAssumption
      <4>2. Len(written \o piece) = Len(written) + Len(piece) /\ Len(piece) \in Nat
        BY <1>2, <4>1, ConcatProperties, LenProperties
      <4> QED  BY <1>3, <1>4, <3>1, <4>1, <4>2
    <3> QED  BY <3>1 DEF Sample
  <2>7. LoopOK(h)'  BY <1>4, <2>3, <2>4, <2>6 DEF LoopOK
  <2>8. ASSUME ~full PROVE AllOK(g, d, c, h)'
    <3>1. AllOK(g, d, c, h)  BY <2>1, <2>8 DEF FlowOK
    <3>2. /\ up_rx' /\ up' # <<>> => ~IsDone(up'[Len(up')])
          /\ ~IsDone(carried')
          /\ told' = "nothing" /\ down' # <<>> => ~IsDone(down'[Len(down')])
          /\ told' \notin {"Stop", "Length"}
      BY <1>1, <3>1, NotOverYet
    <3>3. h = (IF tokens = 0 THEN 0 ELSE Len(written) - Holdback(written))
      BY <1>1, <3>1 DEF AllOK
    <3>4. stage' = "done" => h = OwedTo'  BY <1>4, <2>3, <2>6, <3>3 DEF OwedTo
    <3> QED  BY <2>6, <3>2, <3>4 DEF AllOK
  <2> QED  BY <1>1, <2>2, <2>7, <2>8 DEF FlowOK
<1>5. CASE \E piece \in Pieces :
             LET r == ProcessPiece(pending, piece) IN
             /\ written' = written \o piece
             /\ tokens' = tokens + 1
             /\ pending' = r.pending /\ out' = r.out
             /\ stage' = IF r.stop THEN "last" ELSE "piece"
             /\ reason' = IF r.stop THEN "Stop" ELSE "Length"
  <2>1. PICK piece \in Pieces :
             LET r == ProcessPiece(pending, piece) IN
             /\ written' = written \o piece
             /\ tokens' = tokens + 1
             /\ pending' = r.pending /\ out' = r.out
             /\ stage' = IF r.stop THEN "last" ELSE "piece"
             /\ reason' = IF r.stop THEN "Stop" ELSE "Length"
    BY <1>5
  <2>2. piece \in Seq(Chars)  BY DeliveryAssumption
  <2> DEFINE y == written \o piece
  <2>3. y \in Seq(Chars) /\ Len(y) = Len(written) + Len(piece) /\ Len(piece) \in Nat
    BY <1>2, <2>2, ConcatProperties, LenProperties
  <2> SUFFICES ASSUME Unfiltered(y)
               PROVE  \E g, d, c, h \in 0..Len(y) : FlowOK(g, d, c, h)'
    BY <2>1, <2>3 DEF FlowInv
  <2>4. Unfiltered(written)  BY <1>2, <2>2, FilteredStays
  <2>5. PICK g, d, c, h \in 0..Len(written) : FlowOK(g, d, c, h)  BY <2>4 DEF FlowInv
  <2>6. g \in 0..Len(y) /\ d \in 0..Len(y) /\ c \in 0..Len(y) /\ h \in 0..Len(y)
    BY <1>3, <2>3
  <2>7. SentOK(g, d, c, h)'
    <3>1. SentOK(g, d, c, h)  BY <2>5 DEF FlowOK
    <3>2. SubSeq(y, 1, g) = SubSeq(written, 1, g)
      <4>1. 0 \in 0..Len(written) /\ g \in 0..Len(written) /\ 0 + 1 = 1  BY <1>3
      <4>2. SubSeq(y, 0 + 1, g) = SubSeq(written, 0 + 1, g)  BY <1>2, <2>2, <4>1, PartOfMore
      <4> QED  BY <4>1, <4>2
    <3>3. Carries(y, down, g, d)
      BY <1>2, <2>2, <3>1, CarryMore DEF SentOK, DeliveryInv, Typed
    <3>4. up_rx => Carries(y, up, c, h)
      BY <1>2, <2>2, <3>1, CarryMore DEF SentOK, DeliveryInv, Typed
    <3>5. SubSeq(y, d + 1, c) = SubSeq(written, d + 1, c)
      <4>1. c \in d..Len(written)  BY <1>3, <3>1 DEF SentOK
      <4> QED  BY <1>2, <2>2, <4>1, PartOfMore
    <3> HIDE DEF y
    <3> QED  BY <1>1, <2>1, <3>1, <3>2, <3>3, <3>4, <3>5 DEF SentOK, y
  <2>8. /\ ~Stopped(written) /\ Clear(written, h)
        /\ pending = SubSeq(written, h + 1, Len(written))
    BY <1>1, <2>5 DEF FlowOK, LoopOK
  <2> DEFINE k == Len(y) - Holdback(y)
  <2>9. LET r == ProcessPiece(pending, piece) IN
        /\ h \in 0..Len(y) /\ (r.stop <=> Stopped(y))
        /\ Stopped(y) => /\ h <= FirstStop(y) - 1 /\ r.pending = <<>>
                         /\ r.out = SubSeq(y, h + 1, FirstStop(y) - 1)
        /\ ~Stopped(y) => /\ k \in h..Len(y) /\ Clear(y, k)
                          /\ r.out = SubSeq(y, h + 1, k)
                          /\ r.pending = SubSeq(y, k + 1, Len(y))
    BY <1>2, <2>2, <2>8, ProcessIs
  <2>10. /\ written' = y /\ tokens' = tokens + 1
         /\ Stopped(y) => /\ stage' = "last" /\ h <= FirstStop(y) - 1
                          /\ out' = SubSeq(y, h + 1, FirstStop(y) - 1)
         /\ ~Stopped(y) => /\ stage' = "piece" /\ reason' = "Length"
                           /\ k \in h..Len(y) /\ Clear(y, k)
                           /\ out' = SubSeq(y, h + 1, k) /\ pending' = SubSeq(y, k + 1, Len(y))
    BY <2>1, <2>9
  <2> HIDE DEF y
  <2>11. LoopOK(h)'
    <3>1. CASE Stopped(y)
      <4>1. Stopped(written)'  BY <2>10, <3>1
      <4>2. (h <= FirstStop(written) - 1 /\ out = SubSeq(written, h + 1, FirstStop(written) - 1))'
        BY <2>10, <3>1
      <4> QED  BY <2>10, <3>1, <4>1, <4>2 DEF LoopOK
    <3>2. CASE ~Stopped(y)
      <4>1. ~Stopped(written)'  BY <2>10, <3>2
      <4>2. \E j \in h..Len(y) :
              /\ out' = SubSeq(y, h + 1, j) /\ pending' = SubSeq(y, j + 1, Len(y))
              /\ Clear(y, j) /\ j = Len(y) - Holdback(y)
        BY <2>10, <3>2
      <4> HIDE DEF k
      <4> QED  BY <2>10, <3>2, <4>1, <4>2 DEF LoopOK
    <3> QED  BY <3>1, <3>2
  <2>12. ASSUME ~full PROVE AllOK(g, d, c, h)'
    <3>1. AllOK(g, d, c, h)  BY <2>5, <2>12 DEF FlowOK
    <3>2. /\ up_rx' /\ up' # <<>> => ~IsDone(up'[Len(up')])
          /\ ~IsDone(carried')
          /\ told' = "nothing" /\ down' # <<>> => ~IsDone(down'[Len(down')])
          /\ told' \notin {"Stop", "Length"}
      BY <1>1, <3>1, NotOverYet
    <3>3. stage' \in {"last", "piece"} /\ tokens' > 0
      <4>1. tokens \in Nat
        BY DeliveryAssumption DEF DeliveryInv, Typed
      <4> QED  BY <2>10, <4>1
    <3> QED  BY <3>2, <3>3 DEF AllOK
  <2>13. FlowOK(g, d, c, h)'  BY <1>1, <2>7, <2>11, <2>12 DEF FlowOK
  <2> QED  BY <2>6, <2>13
<1> QED  BY <1>4, <1>5 DEF Sample

(* The text the loop hands over, and what it does next.                    *)
LEMMA ProceedFlow ==
  ASSUME DeliveryInv, written \in Seq(Chars), NEW h \in 0..Len(written), LoopOK(h),
         stage \in {"piece", "tail", "last"}, Proceed(pending),
         UNCHANGED <<written, tokens, reason, full>>
  PROVE  \E k \in h..Len(written) :
           /\ out = SubSeq(written, h + 1, k) /\ LoopOK(k)' /\ stage' \in {"ready", "tail", "done"}
           /\ ~full /\ stage' = "ready" => k = Len(written) - Holdback(written)
           /\ stage' = "done" => k = OwedTo
<1> DEFINE N == Len(written)
<1>1. N \in Nat /\ N \in h..N /\ tokens \in Nat
  BY LenProperties, DeliveryAssumption DEF DeliveryInv, Typed
<1>2. Len(BeforeStop(written)) = IF Stopped(written) THEN FirstStop(written) - 1 ELSE N
  BY BeforeIs
<1>3. CASE stage = "piece"
  <2>1. /\ ~Stopped(written) /\ reason = "Length"
        /\ \E k \in h..N : /\ out = SubSeq(written, h + 1, k)
                           /\ pending = SubSeq(written, k + 1, N)
                           /\ Clear(written, k) /\ (~full => k = N - Holdback(written))
    BY <1>3 DEF LoopOK
  <2>2. PICK k \in h..N : /\ out = SubSeq(written, h + 1, k)
                          /\ pending = SubSeq(written, k + 1, N)
                          /\ Clear(written, k) /\ (~full => k = N - Holdback(written))
    BY <2>1
  <2>3. \/ stage' = "tail" /\ out' = pending /\ pending' = <<>>
        \/ stage' = "ready" /\ pending' = pending
    BY <1>3 DEF Proceed
  <2>4. LoopOK(k)'  BY <2>1, <2>2, <2>3 DEF LoopOK
  <2> QED  BY <2>2, <2>3, <2>4
<1>4. CASE stage = "tail"
  <2>1. ~Stopped(written) /\ reason = "Length" /\ out = SubSeq(written, h + 1, N)
    BY <1>4 DEF LoopOK
  <2>2. stage' = "done"  BY <1>4 DEF Proceed
  <2>3. LoopOK(N)'  BY <1>1, <1>2, <2>1, <2>2 DEF LoopOK
  <2>4. N = OwedTo  BY <1>2, <2>1 DEF OwedTo
  <2> QED  BY <1>1, <2>1, <2>2, <2>3, <2>4
<1>5. CASE stage = "last"
  <2> PICK k : k = FirstStop(written) - 1  OBVIOUS
  <2>1. Stopped(written) /\ h <= k /\ out = SubSeq(written, h + 1, k)
    BY <1>5 DEF LoopOK
  <2>2. stage' = "done"  BY <1>5 DEF Proceed
  <2>3. k \in 0..N  BY <2>1, FirstStopIs
  <2>4. k \in h..N  BY <1>1, <2>1, <2>3
  <2>5. k = Len(BeforeStop(written)) /\ k = OwedTo  BY <1>2, <2>1 DEF OwedTo
  <2>6. LoopOK(k)'
    <3>1. k <= Len(BeforeStop(written))  BY <1>1, <2>3, <2>5
    <3> QED  BY <2>2, <3>1 DEF LoopOK
  <2> QED  BY <2>1, <2>2, <2>4, <2>5, <2>6
<1> QED  BY <1>3, <1>4, <1>5

LEMMA OfferFlow ==
  ASSUME DeliveryInv, FlowInv, Offer
  PROVE  FlowInv'
<1>1. /\ stage \notin {"ready", "ended"}
      /\ UNCHANGED <<written, tokens, reason, up_rx, carried, down, told, got>>
  BY DEF Offer, relay, client
<1>2. written \in Seq(Chars) /\ Len(written) \in Nat  BY LenProperties DEF FlowInv
<1> DEFINE N == Len(written)
<1> SUFFICES ASSUME Unfiltered(written)
             PROVE  \E g, d, c, h \in 0..N : FlowOK(g, d, c, h)'
  BY <1>1, <1>2 DEF FlowInv
<1>3. PICK g, d, c, h \in 0..N : FlowOK(g, d, c, h)  BY DEF FlowInv
<1>4. SentOK(g, d, c, h) /\ LoopOK(h)  BY <1>3 DEF FlowOK
<1>5. h <= Len(BeforeStop(written))  BY <1>2, <1>4, SentBefore
<1>6. /\ full \in BOOLEAN /\ tokens \in Nat /\ SeqAny(up)
      /\ stage \in {"piece", "tail", "last", "done", "error"}
  BY <1>1, DeliveryAssumption DEF DeliveryInv, Typed, Stages
<1>7. ASSUME ~full
      PROVE  /\ AllOK(g, d, c, h)
             /\ up_rx /\ up # <<>> => ~IsDone(up[Len(up)])
             /\ ~IsDone(carried')
             /\ told' = "nothing" /\ down' # <<>> => ~IsDone(down'[Len(down')])
             /\ told' \notin {"Stop", "Length"}
  BY <1>1, <1>3, <1>7, NotOverYet DEF FlowOK
<1>8. full => full'
  BY DEF Offer
(* It lets go of the channel, or says nothing to one that is gone.         *)
<1>9. CASE stage' \in {"done", "ended"} /\ up' = up /\ full' = full /\ ~up_rx
  <2>1. SentOK(g, d, c, h)'  BY <1>1, <1>4, <1>9, LoopStep
  <2>2. LoopOK(h)'  BY <1>1, <1>5, <1>9 DEF LoopOK
  <2>3. ~full => AllOK(g, d, c, h)'  BY <1>1, <1>7, <1>9 DEF AllOK
  <2> QED  BY <1>9, <2>1, <2>2, <2>3 DEF FlowOK
(* A text goes out, or there is none.                                      *)
<1>10. CASE stage \in {"piece", "tail", "last"} /\ Proceed(pending) /\ full' = full
            /\ ((up' = up /\ out = <<>>) \/ (up_rx /\ up' = Append(up, Token(out))))
  <2>1. PICK k \in h..N :
           /\ out = SubSeq(written, h + 1, k) /\ LoopOK(k)' /\ stage' \in {"ready", "tail", "done"}
           /\ ~full /\ stage' = "ready" => k = Len(written) - Holdback(written)
           /\ stage' = "done" => k = OwedTo
    BY <1>1, <1>2, <1>4, <1>10, ProceedFlow
  <2>2. k \in 0..N /\ h <= k  BY <1>2
  <2>3. SentOK(g, d, c, k)'
    <3>1. CASE up' = up /\ out = <<>>
      <4>1. k = h  BY <1>2, <2>1, <3>1, NoPart
      <4> QED  BY <1>1, <1>4, <3>1, <4>1, LoopStep
    <3>2. CASE up_rx /\ up' = Append(up, Token(out))
      <4>1. TextOf(Token(out)) = out  BY DEF TextOf, Token
      <4>2. Carries(written, up, c, h)  BY <1>4, <3>2 DEF SentOK
      <4>3. Carries(written, up', c, k)
        BY <1>2, <1>6, <2>1, <3>2, <4>1, <4>2, CarryAppend
      <4>4. c <= k /\ g <= d /\ d <= c  BY <1>2, <1>4, <2>2 DEF SentOK
      <4> QED  BY <1>1, <1>4, <4>3, <4>4 DEF SentOK
    <3> QED  BY <1>10, <3>1, <3>2
  <2>4. ASSUME ~full PROVE AllOK(g, d, c, k)'
    <3>1. up_rx /\ up' # <<>> => ~IsDone(up'[Len(up')])
      <4>1. CASE up' = up  BY <1>7, <2>4, <4>1
      <4>2. CASE up' = Append(up, Token(out))
        <5>1. up'[Len(up')] = Token(out)  BY <1>6, <4>2, AppendTo
        <5> QED  BY <5>1 DEF IsDone, Token
      <4> QED  BY <1>10, <4>1, <4>2
    <3>2. stage' = "ready" => tokens # 0
      <4>1. stage' = "ready" => stage = "piece"  BY <1>10 DEF Proceed
      <4> QED  BY <1>6, <1>7, <2>4, <4>1 DEF AllOK
    <3>3. stage' = "ready" => k = (IF tokens = 0 THEN 0 ELSE N - Holdback(written))
      BY <2>1, <2>4, <3>2
    <3>4. stage' = "done" => k = OwedTo'  BY <1>1, <2>1 DEF OwedTo
    <3> QED  BY <1>1, <1>7, <2>1, <2>4, <3>1, <3>3, <3>4 DEF AllOK
  <2>5. FlowOK(g, d, c, k)'  BY <1>10, <2>1, <2>3, <2>4 DEF FlowOK
  <2> QED  BY <2>2, <2>5
(* The last event goes out.                                                *)
<1>11. CASE stage \in {"done", "error"} /\ stage' = "ended" /\ full' = full
            /\ up_rx /\ up' = Append(up, Offered)
  <2>1. LoopOK(h)'  BY <1>1, <1>5, <1>11 DEF LoopOK
  <2>2. SentOK(g, d, c, h)'
    <3>1. TextOf(Offered) = <<>>  BY <1>11 DEF TextOf, Offered, Done, Failure
    <3>2. h \in h..N /\ SubSeq(written, h + 1, h) = <<>>
      <4>1. h \in h..N  BY <1>2
      <4> QED  BY <1>2, <4>1, NoPart
    <3>3. Carries(written, up, c, h)  BY <1>4, <1>11 DEF SentOK
    <3>4. Carries(written, up', c, h)  BY <1>2, <1>6, <1>11, <3>1, <3>2, <3>3, CarryAppend
    <3> QED  BY <1>1, <1>4, <3>4 DEF SentOK
  <2>3. ASSUME ~full PROVE AllOK(g, d, c, h)'
    <3>1. up'[Len(up')] = Offered  BY <1>6, <1>11, AppendTo
    <3>2. IsDone(Offered) => stage = "done"  BY <1>11 DEF IsDone, Offered, Done, Failure
    <3>3. stage = "done" => h = OwedTo  BY <1>7, <1>11, <2>3 DEF AllOK
    <3>4. OwedTo' = OwedTo  BY <1>1 DEF OwedTo
    <3> QED  BY <1>1, <1>7, <1>11, <2>3, <3>1, <3>2, <3>3, <3>4 DEF AllOK
  <2> QED  BY <1>11, <2>1, <2>2, <2>3 DEF FlowOK
(* There was no room: a piece is held back again, the rest is lost.        *)
<1>12. CASE Proceed(IF stage = "piece" THEN out \o pending ELSE pending)
            /\ full' = TRUE /\ up' = up
  <2>1. SentOK(g, d, c, h)'  BY <1>1, <1>4, <1>12, LoopStep
  <2>2. LoopOK(h)'
    <3>1. CASE stage = "piece"
      <4>1. ~Stopped(written) /\ reason = "Length"  BY <1>4, <3>1 DEF LoopOK
      <4>2. PICK k \in h..N : /\ out = SubSeq(written, h + 1, k)
                              /\ pending = SubSeq(written, k + 1, N)
                              /\ Clear(written, k)
        BY <1>4, <3>1 DEF LoopOK
      <4>3. out \o pending = SubSeq(written, h + 1, N)
        <5>1. k \in h..N /\ N \in k..N  BY <1>2
        <5> QED  BY <1>2, <4>2, <5>1, PartsMeet
      <4>4. Clear(written, h)
        <5>1. \A p \in 0..N : p < h => p < k  BY <1>2
        <5> QED  BY <4>2, <5>1 DEF Clear
      <4>5. \/ stage' = "tail" /\ out' = out \o pending /\ pending' = <<>>
            \/ stage' = "ready" /\ pending' = out \o pending
        BY <1>12, <3>1 DEF Proceed
      <4> QED  BY <1>1, <1>2, <4>1, <4>3, <4>4, <4>5 DEF LoopOK
    <3>2. CASE stage # "piece"
      <4>1. stage' \in {"done", "ended"}  BY <1>6, <1>12, <3>2 DEF Proceed
      <4> QED  BY <1>1, <1>5, <4>1 DEF LoopOK
    <3> QED  BY <3>1, <3>2
  <2> QED  BY <1>12, <2>1, <2>2 DEF FlowOK
<1>13. \/ stage' \in {"done", "ended"} /\ up' = up /\ full' = full /\ ~up_rx
       \/ stage \in {"piece", "tail", "last"} /\ Proceed(pending) /\ full' = full
            /\ ((up' = up /\ out = <<>>) \/ (up_rx /\ up' = Append(up, Token(out))))
       \/ stage \in {"done", "error"} /\ stage' = "ended" /\ full' = full
            /\ up_rx /\ up' = Append(up, Offered)
       \/ Proceed(IF stage = "piece" THEN out \o pending ELSE pending)
            /\ full' = TRUE /\ up' = up
  <2>1. CASE Quit /\ ~up_rx /\ UNCHANGED <<up, full>>  BY <2>1 DEF Quit
  <2>2. CASE Proceed(pending) /\ UNCHANGED <<up, full>> /\ IsEmpty
    BY <2>2 DEF IsEmpty
  <2>3. CASE Proceed(pending) /\ UNCHANGED <<up, full>> /\ ~up_rx /\ stage # "piece"
    BY <1>6, <2>3 DEF Proceed
  <2>4. CASE Proceed(pending) /\ up_rx /\ up' = Append(up, Offered) /\ UNCHANGED full
    BY <1>6, <2>4 DEF Proceed, Offered
  <2>5. CASE Proceed(IF stage = "piece" THEN out \o pending ELSE pending) /\ full' = TRUE /\ UNCHANGED up
    BY <2>5
  <2>6. \/ Quit /\ ~up_rx /\ UNCHANGED <<up, full>>
        \/ Proceed(pending) /\ UNCHANGED <<up, full>> /\ (IsEmpty \/ (~up_rx /\ stage # "piece"))
        \/ Proceed(pending) /\ up_rx /\ up' = Append(up, Offered) /\ UNCHANGED full
        \/ Proceed(IF stage = "piece" THEN out \o pending ELSE pending) /\ full' = TRUE /\ UNCHANGED up
    BY DEF Offer
  <2> QED  BY <2>1, <2>2, <2>3, <2>4, <2>5, <2>6
<1> QED  BY <1>9, <1>10, <1>11, <1>12, <1>13

(* The monitor's task ends: what it and the loop's channel held is gone.   *)
LEMMA EndsFlow ==
  ASSUME FlowInv, up_rx' = FALSE, carried' = Nothing,
         UNCHANGED <<written, tokens, pending, stage, out, reason, down, got, told, full>>
  PROVE  FlowInv'
<1> SUFFICES ASSUME Unfiltered(written)
             PROVE  \E g, d, c, h \in 0..Len(written) : FlowOK(g, d, c, h)'
  BY DEF FlowInv
<1>1. PICK g, d, c, h \in 0..Len(written) : FlowOK(g, d, c, h)  BY DEF FlowInv
<1>2. SentOK(g, d, c, h)'  BY <1>1 DEF FlowOK, SentOK
<1>3. LoopOK(h)'  BY <1>1 DEF FlowOK, LoopOK
<1>4. OwedTo' = OwedTo /\ ~IsDone(Nothing)  BY DEF OwedTo, IsDone, Nothing
<1>5. ~full => AllOK(g, d, c, h)'  BY <1>1, <1>4 DEF FlowOK, AllOK
<1> QED  BY <1>2, <1>3, <1>5 DEF FlowOK

LEMMA ReceiveFlow ==
  ASSUME DeliveryInv, FlowInv, Receive
  PROVE  FlowInv'
<1>1. /\ carried = Nothing /\ up_rx
      /\ UNCHANGED <<written, tokens, pending, stage, out, reason, down, got, told, full>>
  BY DEF Receive, model, client, DeliveryInv, EndsOK
<1>2. written \in Seq(Chars) /\ Len(written) \in Nat  BY LenProperties DEF FlowInv
<1>3. CASE up = <<>>
  BY <1>1, <1>3, EndsFlow DEF Receive, ForwardEnds
<1>4. CASE up # <<>>
  <2> DEFINE N == Len(written)  e == Head(up)
  <2> SUFFICES ASSUME Unfiltered(written)
               PROVE  \E g, d, c, h \in 0..N : FlowOK(g, d, c, h)'
    BY <1>1, <1>2 DEF FlowInv
  <2>1. PICK g, d, c, h \in 0..N : FlowOK(g, d, c, h)  BY DEF FlowInv
  <2>2. carried' = e /\ up' = Tail(up) /\ up_rx' = up_rx  BY <1>4 DEF Receive
  <2>3. SeqAny(up)  BY DEF DeliveryInv, Typed
  <2>4. SentOK(g, d, c, h)  BY <2>1 DEF FlowOK
  <2>5. /\ g <= d /\ d <= c /\ c <= h /\ got = SubSeq(written, 1, g)
        /\ Carries(written, down, g, d)
        /\ TextOf(carried) = SubSeq(written, d + 1, c) /\ Carries(written, up, c, h)
    BY <1>1, <2>4 DEF SentOK
  <2>6. d = c
    <3>1. TextOf(carried) = <<>>  BY <1>1 DEF TextOf, Nothing
    <3>2. c \in d..N  BY <1>2, <2>5
    <3> QED  BY <1>2, <2>5, <3>1, <3>2, NoPart
  <2>7. PICK m \in c..h : TextOf(e) = SubSeq(written, c + 1, m) /\ Carries(written, Tail(up), m, h)
    BY <1>2, <1>4, <2>3, <2>5, CarryTake
  <2>8. m \in 0..N /\ d <= m /\ m <= h  BY <1>2, <2>5, <2>6
  <2>9. /\ SeqAny(Tail(up)) /\ Len(up) \in Nat \ {0} /\ Len(Tail(up)) = Len(up) - 1
        /\ e = up[1] /\ \A k \in 1..Len(Tail(up)) : Tail(up)[k] = up[k + 1]
        /\ (Len(up) = 1 => Tail(up) = <<>>)
    BY <1>4, <2>3, TakeFrom
  <2> HIDE DEF e
  <2>10. SentOK(g, d, m, h)'
    BY <1>1, <2>2, <2>5, <2>6, <2>7, <2>8 DEF SentOK
  <2>11. LoopOK(h)'  BY <1>1, <2>1 DEF FlowOK, LoopOK
  <2>12. ASSUME ~full PROVE AllOK(g, d, m, h)'
    <3>1. AllOK(g, d, c, h)  BY <2>1, <2>12 DEF FlowOK
    <3>2. OwedTo' = OwedTo  BY <1>1 DEF OwedTo
    <3>3. IsDone(up[Len(up)]) => stage = "ended" /\ h = OwedTo
      BY <1>1, <1>4, <3>1 DEF AllOK
    <3>4. IsDone(e) => stage = "ended" /\ m = OwedTo
      <4> SUFFICES ASSUME IsDone(e) PROVE stage = "ended" /\ m = OwedTo  OBVIOUS
      <4>1. Len(up) = 1
        <5>1. 1 \in 1..Len(up) /\ LastEvent(up[1])  BY <2>9 DEF LastEvent, IsDone
        <5> QED  BY <5>1 DEF DeliveryInv, UpOK
      <4>2. Carries(written, <<>>, m, h)  BY <2>7, <2>9, <4>1
      <4>3. m = h  BY <1>2, <4>2, CarryNone
      <4> QED  BY <2>9, <3>3, <4>1, <4>3
    <3>5. up' # <<>> => up'[Len(up')] = up[Len(up)]
      <4> SUFFICES ASSUME Tail(up) # <<>> PROVE Tail(up)[Len(Tail(up))] = up[Len(up)]
        BY <2>2
      <4>1. Len(Tail(up)) \in 1..Len(Tail(up)) /\ Len(Tail(up)) + 1 = Len(up)  BY <2>9
      <4> QED  BY <2>9, <4>1
    <3> QED  BY <1>1, <2>2, <3>1, <3>2, <3>3, <3>4, <3>5 DEF AllOK
  <2>13. FlowOK(g, d, m, h)'  BY <1>1, <2>10, <2>11, <2>12 DEF FlowOK
  <2> QED  BY <2>8, <2>13
<1> QED  BY <1>3, <1>4

LEMMA PassFlow ==
  ASSUME DeliveryInv, FlowInv, Pass
  PROVE  FlowInv'
<1>1. /\ carried # Nothing /\ up_rx /\ carried' = Nothing
      /\ UNCHANGED <<written, tokens, pending, stage, out, reason, up, got, told, full>>
  BY DEF Pass, ForwardEnds, model, client, DeliveryInv, EndsOK
<1>2. written \in Seq(Chars) /\ Len(written) \in Nat  BY LenProperties DEF FlowInv
<1>3. CASE ~down_rx
  BY <1>1, <1>3, EndsFlow DEF Pass, ForwardEnds
<1>4. CASE down_rx
  <2> DEFINE N == Len(written)
  <2> SUFFICES ASSUME Unfiltered(written)
               PROVE  \E g, d, c, h \in 0..N : FlowOK(g, d, c, h)'
    BY <1>1, <1>2 DEF FlowInv
  <2>1. PICK g, d, c, h \in 0..N : FlowOK(g, d, c, h)  BY DEF FlowInv
  <2>2. down' = Append(down, carried) /\ up_rx' = up_rx  BY <1>4 DEF Pass
  <2>3. SeqAny(down)  BY DEF DeliveryInv, Typed
  <2>4. SentOK(g, d, c, h)  BY <2>1 DEF FlowOK
  <2>5. /\ g <= d /\ d <= c /\ c <= h /\ got = SubSeq(written, 1, g)
        /\ Carries(written, down, g, d)
        /\ TextOf(carried) = SubSeq(written, d + 1, c) /\ Carries(written, up, c, h)
    BY <1>1, <2>4 DEF SentOK
  <2>6. c \in d..N /\ c \in c..N /\ g <= c  BY <1>2, <2>5
  <2>7. Carries(written, down', g, c)  BY <1>2, <2>2, <2>3, <2>5, <2>6, CarryAppend
  <2>8. TextOf(Nothing) = SubSeq(written, c + 1, c)
    <3>1. TextOf(Nothing) = <<>>  BY DEF TextOf, Nothing
    <3>2. SubSeq(written, c + 1, c) = <<>>  BY <1>2, <2>6, NoPart
    <3> QED  BY <3>1, <3>2
  <2>9. SentOK(g, c, c, h)'  BY <1>1, <2>2, <2>5, <2>6, <2>7, <2>8 DEF SentOK
  <2>10. LoopOK(h)'  BY <1>1, <2>1 DEF FlowOK, LoopOK
  <2>11. ASSUME ~full PROVE AllOK(g, c, c, h)'
    <3>1. AllOK(g, d, c, h)  BY <2>1, <2>11 DEF FlowOK
    <3>2. OwedTo' = OwedTo  BY <1>1 DEF OwedTo
    <3>3. ~IsDone(carried')  BY <1>1 DEF IsDone, Nothing
    <3>4. down'[Len(down')] = carried  BY <2>2, <2>3, AppendTo
    <3> QED  BY <1>1, <2>2, <3>1, <3>2, <3>3, <3>4 DEF AllOK
  <2>12. FlowOK(g, c, c, h)'  BY <1>1, <2>9, <2>10, <2>11 DEF FlowOK
  <2> QED  BY <2>12
<1> QED  BY <1>3, <1>4

LEMMA ReadFlow ==
  ASSUME DeliveryInv, FlowInv, Read
  PROVE  FlowInv'
<1>1. /\ told = "nothing" /\ down_rx
      /\ UNCHANGED <<written, tokens, pending, stage, out, reason, up, up_rx, carried, full>>
  BY DEF Read, Reading, model
<1>2. written \in Seq(Chars) /\ Len(written) \in Nat  BY LenProperties DEF FlowInv
<1> DEFINE N == Len(written)
<1> SUFFICES ASSUME Unfiltered(written)
             PROVE  \E g, d, c, h \in 0..N : FlowOK(g, d, c, h)'
  BY <1>1, <1>2 DEF FlowInv
<1>3. PICK g, d, c, h \in 0..N : FlowOK(g, d, c, h)  BY DEF FlowInv
<1>4. SentOK(g, d, c, h)  BY <1>3 DEF FlowOK
<1>5. LoopOK(h)'  BY <1>1, <1>3 DEF FlowOK, LoopOK
<1>6. OwedTo' = OwedTo  BY <1>1 DEF OwedTo
<1>7. SeqAny(down)  BY DEF DeliveryInv, Typed
(* A channel that ends without a last event: something was dropped.        *)
<1>8. CASE down = <<>>
  <2>1. ~down_tx /\ UNCHANGED <<got, down>>  BY <1>8 DEF Read
  <2>2. SentOK(g, d, c, h)'  BY <1>1, <1>4, <2>1, LoopStep
  <2>3. full  BY <1>1, <1>8, <2>1 DEF DeliveryInv, EndsOK, OnItsWay
  <2>4. full'  BY <1>1, <2>3
  <2> QED  BY <1>5, <2>2, <2>4 DEF FlowOK
<1>9. CASE down # <<>>
  <2> DEFINE e == Head(down)
  <2>1. /\ down' = Tail(down)
        /\ e.event = "token" => got' = got \o e.text /\ told' = told
        /\ e.event # "token" => /\ told' = (IF e.event = "done" THEN e.reason ELSE "Error")
                                /\ got' = got
    BY <1>9 DEF Read, Tell
  <2>2. /\ SeqAny(Tail(down)) /\ Len(down) \in Nat \ {0} /\ Len(Tail(down)) = Len(down) - 1
        /\ e = down[1] /\ \A k \in 1..Len(Tail(down)) : Tail(down)[k] = down[k + 1]
        /\ (Len(down) = 1 => Tail(down) = <<>>)
    BY <1>7, <1>9, TakeFrom
  <2>3. EventOK(e) /\ (LastEvent(e) => 1 = Len(down))
    <3>1. 1 \in 1..Len(down)  BY <2>2
    <3> QED  BY <1>1, <2>2, <3>1 DEF DeliveryInv, DownOK
  <2>4. /\ g <= d /\ d <= c /\ c <= h /\ got = SubSeq(written, 1, g)
        /\ Carries(written, down, g, d)
    BY <1>4 DEF SentOK
  <2>5. PICK m \in g..d : TextOf(e) = SubSeq(written, g + 1, m) /\ Carries(written, Tail(down), m, d)
    BY <1>2, <1>7, <1>9, <2>4, CarryTake
  <2>6. m \in 0..N /\ g <= m /\ m <= d /\ m \in g..N  BY <1>2, <2>4
  <2> HIDE DEF e
  <2>7. got' = SubSeq(written, 1, m)
    <3>1. SubSeq(written, 0 + 1, g) \o SubSeq(written, g + 1, m) = SubSeq(written, 0 + 1, m)
      <4>1. 0 \in 0..N /\ g \in 0..N  BY <1>2
      <4> QED  BY <1>2, <2>6, <4>1, PartsMeet
    <3>2. got \o TextOf(e) = SubSeq(written, 1, m)
      <4>1. 0 + 1 = 1  OBVIOUS
      <4> QED  BY <2>4, <2>5, <3>1, <4>1
    <3>3. CASE e.event = "token"  BY <2>1, <3>2, <3>3 DEF TextOf
    <3>4. CASE e.event # "token"
      <4>1. TextOf(e) = <<>>  BY <3>4 DEF TextOf
      <4>2. g = m  BY <1>2, <2>5, <2>6, <4>1, NoPart
      <4> QED  BY <2>1, <2>4, <3>4, <4>2
    <3> QED  BY <3>3, <3>4
  <2>8. SentOK(m, d, c, h)'
    BY <1>1, <1>4, <2>1, <2>4, <2>5, <2>6, <2>7 DEF SentOK
  <2>9. ASSUME ~full PROVE AllOK(m, d, c, h)'
    <3>1. AllOK(g, d, c, h)  BY <1>3, <2>9 DEF FlowOK
    <3>2. IsDone(down[Len(down)]) => stage = "ended" /\ d = OwedTo
      BY <1>1, <1>9, <3>1 DEF AllOK
    <3>3. Tail(down) # <<>> => Tail(down)[Len(Tail(down))] = down[Len(down)]
      <4> SUFFICES ASSUME Tail(down) # <<>> PROVE Tail(down)[Len(Tail(down))] = down[Len(down)]
        OBVIOUS
      <4>1. Len(Tail(down)) \in 1..Len(Tail(down)) /\ Len(Tail(down)) + 1 = Len(down)  BY <2>2
      <4> QED  BY <2>2, <4>1
    <3>4. told' \in {"Stop", "Length"} => stage = "ended" /\ m = OwedTo
      <4> SUFFICES ASSUME told' \in {"Stop", "Length"} PROVE stage = "ended" /\ m = OwedTo
        OBVIOUS
      <4>1. e.event = "done"  BY <1>1, <2>1, <2>3 DEF EventOK
      <4>2. Len(down) = 1 /\ IsDone(down[Len(down)])
        BY <2>2, <2>3, <4>1 DEF LastEvent, IsDone
      <4>3. Carries(written, <<>>, m, d)  BY <2>2, <2>5, <4>2
      <4>4. m = d  BY <1>2, <4>3, CarryNone
      <4> QED  BY <3>2, <4>2, <4>4
    <3> QED  BY <1>1, <1>6, <2>1, <3>1, <3>2, <3>3, <3>4 DEF AllOK
  <2>10. FlowOK(m, d, c, h)'  BY <1>1, <1>5, <2>8, <2>9 DEF FlowOK
  <2> QED  BY <2>6, <2>10
<1> QED  BY <1>8, <1>9

LEMMA LeaveFlow ==
  ASSUME FlowInv, \/ Leave \/ UNCHANGED vars
  PROVE  FlowInv'
<1>1. /\ told' \in {"left", told}
      /\ UNCHANGED <<written, tokens, pending, stage, out, reason, up, up_rx, carried, down>>
      /\ UNCHANGED <<got, full>>
  BY DEF Leave, Tell, vars, model, relay, client
<1> SUFFICES ASSUME Unfiltered(written)
             PROVE  \E g, d, c, h \in 0..Len(written) : FlowOK(g, d, c, h)'
  BY <1>1 DEF FlowInv
<1>2. PICK g, d, c, h \in 0..Len(written) : FlowOK(g, d, c, h)  BY DEF FlowInv
<1>3. SentOK(g, d, c, h)'  BY <1>1, <1>2, LoopStep DEF FlowOK
<1>4. LoopOK(h)'  BY <1>1, <1>2 DEF FlowOK, LoopOK
<1>5. OwedTo' = OwedTo  BY <1>1 DEF OwedTo
<1>6. ~full => AllOK(g, d, c, h)'  BY <1>1, <1>2, <1>5 DEF FlowOK, AllOK
<1> QED  BY <1>1, <1>3, <1>4, <1>6 DEF FlowOK

LEMMA FlowHolds == Spec => []FlowInv
<1>1. DeliveryInv /\ FlowInv /\ [Next]_vars => FlowInv'
  BY SampleFlow, OfferFlow, ReceiveFlow, PassFlow, ReadFlow, LeaveFlow DEF Next
<1>2. Init => FlowInv  BY InitFlow
<1> QED  BY <1>1, <1>2, DeliveryHolds, PTL DEF Spec

(* However an answer without filter sequences was cut in pieces, held back *)
(* or handed back by a full channel, the client has the beginning of what  *)
(* it should see: nothing missing in the middle, out of order, or of a     *)
(* stop sequence (output.rs process_piece, scheduler.rs emit_token).       *)
THEOREM NothingIsMissing == Spec => [](Unfiltered(written) => NothingMissingBefore)
<1>1. ASSUME FlowInv, DeliveryInv, Unfiltered(written) PROVE NothingMissingBefore
  <2>1. written \in Seq(Chars) /\ Len(written) \in Nat  BY <1>1, LenProperties DEF FlowInv
  <2>2. PICK g, d, c, h \in 0..Len(written) : FlowOK(g, d, c, h)  BY <1>1 DEF FlowInv
  <2> DEFINE v == BeforeStop(written)
  <2>3. v \in Seq(Chars) /\ Len(v) \in 0..Len(written) /\ v = SubSeq(written, 1, Len(v))
    BY <2>1, BeforeIs
  <2>4. h <= Len(v)  BY <1>1, <2>1, <2>2, SentBefore DEF FlowOK
  <2>5. g \in 0..Len(v) /\ got = SubSeq(written, 1, g)
    BY <2>1, <2>2, <2>3, <2>4 DEF FlowOK, SentOK
  <2> HIDE DEF v
  <2>6. Len(got) = g
    <3>1. 0 \in 0..Len(written) /\ g \in 0..Len(written) /\ 0 + 1 = 1 /\ g - 0 = g  BY <2>1
    <3>2. Len(SubSeq(written, 0 + 1, g)) = g - 0  BY <2>1, <3>1, Within
    <3> QED  BY <2>5, <3>1, <3>2
  <2>7. SubSeq(v, 1, g) = SubSeq(written, 1, g)
    <3> DEFINE s == SubSeq(v, 1, g)  t == SubSeq(written, 1, g)
    <3>1. 0 \in 0..Len(written) /\ g \in 0..Len(written) /\ 0 + 1 = 1 /\ g - 0 = g
          /\ 0 \in 0..Len(v) /\ g \in 0..Len(v) /\ Len(v) - 0 = Len(v)
      BY <2>1, <2>3, <2>5
    <3>2. /\ SubSeq(v, 0 + 1, g) \in Seq(Chars) /\ Len(SubSeq(v, 0 + 1, g)) = g - 0
          /\ \A i \in 1..(g - 0) : SubSeq(v, 0 + 1, g)[i] = v[0 + i]
      BY <2>3, <3>1, Within
    <3>3. /\ SubSeq(written, 0 + 1, g) \in Seq(Chars) /\ Len(SubSeq(written, 0 + 1, g)) = g - 0
          /\ \A i \in 1..(g - 0) : SubSeq(written, 0 + 1, g)[i] = written[0 + i]
      BY <2>1, <3>1, Within
    <3>4. \A i \in 1..(Len(v) - 0) : SubSeq(written, 0 + 1, Len(v))[i] = written[0 + i]
      BY <2>1, <2>3, <3>1, Within
    <3>5. \A i \in 1..g : 0 + i = i /\ i \in 1..Len(v)  BY <2>3, <2>5
    <3>6. s \in Seq(Chars) /\ t \in Seq(Chars) /\ Len(s) = g /\ Len(t) = g
          /\ \A i \in 1..g : s[i] = v[i] /\ t[i] = written[i] /\ v[i] = written[i]
      BY <2>3, <3>1, <3>2, <3>3, <3>4, <3>5
    <3> HIDE DEF s, t
    <3>7. \A i \in 1..Len(s) : s[i] = t[i]  BY <3>6
    <3>8. s = t  BY <3>6, <3>7, SeqEqual
    <3> QED  BY <3>8 DEF s, t
  <2>8. SubSeq(got, 1, Len(got)) = got
    <3>1. got \in Seq(Chars)
      <4>1. 0 \in 0..Len(written) /\ g \in 0..Len(written) /\ 0 + 1 = 1  BY <2>1
      <4>2. SubSeq(written, 0 + 1, g) \in Seq(Chars)  BY <2>1, <4>1, Within
      <4> QED  BY <2>5, <4>1, <4>2
    <3> QED  BY <3>1, SubSeqFull
  <2>9. g <= Len(v) /\ Len(v) \in Nat  BY <2>3, <2>5, <2>1
  <2>10. IsPrefix(got, v)  BY <2>5, <2>6, <2>7, <2>8, <2>9 DEF IsPrefix
  <2>11. Shown(written) = v  BY <1>1, <2>1, ShownIs DEF v
  <2> QED  BY <2>10, <2>11 DEF NothingMissingBefore
<1> QED  BY <1>1, FlowHolds, DeliveryHolds, PTL

(* And a client told that its answer is over has all it should see of it,  *)
(* while the loop's channel was never full.                                *)
THEOREM WholeAnswer == Spec => [](Unfiltered(written) => WholeUnlessFull)
<1>1. ASSUME FlowInv, DeliveryInv, Unfiltered(written) PROVE WholeUnlessFull
  <2>1. written \in Seq(Chars) /\ Len(written) \in Nat  BY <1>1, LenProperties DEF FlowInv
  <2>2. PICK g, d, c, h \in 0..Len(written) : FlowOK(g, d, c, h)  BY <1>1 DEF FlowInv
  <2> SUFFICES ASSUME ~full, told \in {"Stop", "Length"} PROVE got = Owed
    BY <1>1 DEF WholeUnlessFull, WholeWhenTold, DeliveryInv, Typed
  <2>3. got = SubSeq(written, 1, OwedTo)
    BY <2>2 DEF FlowOK, SentOK, AllOK
  <2>4. Shown(written) = BeforeStop(written)  BY <1>1, <2>1, ShownIs
  <2>5. CASE reason = "Length" \/ Stopped(written)
    <3>1. Owed = BeforeStop(written)  BY <2>4, <2>5 DEF Owed
    <3>2. OwedTo = Len(BeforeStop(written))  BY <2>5 DEF OwedTo
    <3>3. BeforeStop(written) = SubSeq(written, 1, Len(BeforeStop(written)))  BY <2>1, BeforeIs
    <3> QED  BY <2>3, <3>1, <3>2, <3>3, Zenon
  <2>6. CASE ~(reason = "Length" \/ Stopped(written))
    <3>1. Shown(written) = written  BY <2>4, <2>6 DEF BeforeStop
    <3>2. CASE tokens = 0
      <4>1. Owed = <<>> /\ OwedTo = 0  BY <2>6, <3>2 DEF Owed, OwedTo
      <4>2. SubSeq(written, 1, 0) = <<>>  BY <2>1, SubSeqEmpty
      <4> QED  BY <2>3, <4>1, <4>2
    <3>3. CASE tokens # 0
      <4>1. /\ Owed = SubSeq(written, 1, Len(written) - Holdback(written))
            /\ OwedTo = Len(written) - Holdback(written)
        BY <2>6, <3>1, <3>3 DEF Owed, OwedTo
      <4> QED  BY <2>3, <4>1, Zenon
    <3> QED  BY <3>2, <3>3
  <2> QED  BY <2>5, <2>6
<1> QED  BY <1>1, FlowHolds, DeliveryHolds, PTL
=============================================================================
