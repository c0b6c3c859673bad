---------------------------- MODULE OutputFilter ----------------------------
(***************************************************************************)
(* What of a model's text may be handed to the client                      *)
(* (inference/output.rs): stop sequences end the answer, filter sequences  *)
(* are taken out of it, and text that may still become either is held      *)
(* back.  A text is a sequence of characters.                              *)
(***************************************************************************)
EXTENDS Naturals, Sequences, SequencesExt

CONSTANTS
  Stops,    (* stop sequences, a set                                       *)
  Filters   (* filter sequences, in the order they are looked for          *)

Markers == Stops \cup ToSet(Filters)

ASSUME FilterAssumption ==
  /\ Filters \in Seq(Markers)
  /\ \A m \in Markers : Len(m) > 0

Has(text, m) == m \in SubSeqs(text)

(* Where the earliest stop begins.                                         *)
FirstStop(text) ==
  CHOOSE i \in {IndexFirstSubSeq(m, text) : m \in {s \in Stops : Has(text, s)}} :
    \A m \in Stops : Has(text, m) => i <= IndexFirstSubSeq(m, text)
Stopped(text) == \E m \in Stops : Has(text, m)

(* Every occurrence of a filter is taken out, again from the start after   *)
(* each: no text holds more of them than characters.                       *)
Elide(text) ==
  FoldLeft(LAMBDA t, f : FoldLeft(LAMBDA u, c : ReplaceFirstSubSeq(<<>>, f, u), t, t),
           text, Filters)

(* stop_prefix_holdback, of stops and filters: the longest end of a text   *)
(* that is the beginning of one and not all of it; none without any.       *)
Holdback(text) ==
  LET held == {0} \cup
              {k \in 0..Len(text) :
                 \E m \in Markers : k < Len(m) /\ SubSeq(text, Len(text) - k + 1, Len(text))
                                                     = SubSeq(m, 1, k)}
  IN CHOOSE k \in held : \A l \in held : l <= k

(* process_piece: what may go out now, and what is held back.              *)
ProcessPiece(pending, piece) ==
  LET text == pending \o piece
      kept == Elide(text)
      upto == Len(kept) - Holdback(kept)
  IN IF Stopped(text)
       THEN [stop |-> TRUE, out |-> SubSeq(text, 1, FirstStop(text) - 1), pending |-> <<>>]
       ELSE [stop |-> FALSE, out |-> SubSeq(kept, 1, upto),
             pending |-> SubSeq(kept, upto + 1, Len(kept))]

-----------------------------------------------------------------------------
BeforeStop(text) == IF Stopped(text) THEN SubSeq(text, 1, FirstStop(text) - 1) ELSE text

(* What a client should see of a whole text, whatever pieces it came in:   *)
(* the part before the earliest stop, less each filter as it is completed  *)
(* by characters the model wrote in a row.                                 *)
Shown(text) ==
  LET next(t, c) ==
        LET run == Append(t.run, c)
            done == {f \in ToSet(Filters) : IsSuffix(f, run)}
        IN IF done = {} THEN [shown |-> Append(t.shown, c), run |-> run]
           ELSE [shown |-> SubSeq(t.shown, 1, Len(t.shown) + 1 - Len(CHOOSE f \in done : TRUE)),
                 run |-> <<>>]
  IN FoldLeft(next, [shown |-> <<>>, run |-> <<>>], BeforeStop(text)).shown

(* Taking a filter out joins what was around it, and what becomes of a     *)
(* marker made that way depends on where the pieces were cut: a text in    *)
(* which none is made.                                                     *)
Plain(text) == \A m \in Markers : ~Has(Shown(text), m)
=============================================================================
