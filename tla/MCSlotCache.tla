---------------------------- MODULE MCSlotCache ----------------------------
(* Small vocabularies for SlotCache. *)
EXTENDS SlotCache

(* One letter, and a token for one and for two of it: what an answer       *)
(* spelled with two tokens is read as one when tokenized again.            *)
MCVocab == {"A", "AA"}
MCSpell == [A |-> <<"a">>, AA |-> <<"a", "a">>]

As(n) == [i \in 1..n |-> "a"]

(* The tokenizer prefers the longer token.                                 *)
MCTokenize == [text \in {As(n) : n \in 0..7} |->
                 [i \in 1..(Len(text) \div 2) |-> "AA"]
                   \o (IF Len(text) % 2 = 1 THEN <<"A">> ELSE <<>>)]

MCPrompts == {As(2), As(4), As(7)}

ASSUME MCWholeCharacters == WholeCharacters
=============================================================================
