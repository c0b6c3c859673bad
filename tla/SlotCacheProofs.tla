--------------------------- MODULE SlotCacheProofs ---------------------------
(***************************************************************************)
(* Proofs about SlotCache, for every vocabulary, tokenizer, set of slots   *)
(* and bound: what a slot's memory, a checkpoint or a kept recurrent state *)
(* holds is what it is recorded with, a prompt that starts from one of     *)
(* them still has its last token to read, and the tokens it is read as     *)
(* spell it.                                                               *)
(*                                                                         *)
(* None of these is inductive.  A slot's memory is its conversation's      *)
(* up to the position reached, whatever the conversation's stage (SeqOK);  *)
(* the slots in idle_slots are different ones and nobody reads or answers  *)
(* in them (IdleOK), so that two records never claim one memory; an idle   *)
(* slot with a text has tokens, or the reuse by text would read a prompt   *)
(* that it takes to be shared; and llama.cpp's attention and recurrent     *)
(* halves go together (Holds) whether or not the model has both.           *)
(*                                                                         *)
(* The hard steps are those that cut a memory back: a refused cut leaves   *)
(* it whole, so each must be shown to be allowed (CutHolds, SetupHolds),   *)
(* in mtp_step because a decode's rollback window covers all its drafts    *)
(* (DraftsCanGo).                                                          *)
(*                                                                         *)
(* For the texts, TextOK says of each conversation that the pieces it said *)
(* are those of its tokens, one by one; resident_text and resident_tokens  *)
(* cut the two separately, at the same place (RecordedText).               *)
(***************************************************************************)
EXTENDS SlotCache, FiniteSetTheorems, SequenceTheorems, WellFoundedInduction, TLAPS

-----------------------------------------------------------------------------
(* Sequences. *)

LEMMA FrontOf ==
  ASSUME NEW S, NEW a \in Seq(S), NEW n \in 0..Len(a)
  PROVE  /\ SubSeq(a, 1, n) \in Seq(S) /\ Len(SubSeq(a, 1, n)) = n
         /\ \A i \in 1..n : SubSeq(a, 1, n)[i] = a[i]
<1>1. Len(a) \in Nat /\ \A i \in 1..n : a[i] \in S
  BY LenProperties, ElementOfSeq
<1> QED  BY <1>1, SubSeqProperties

LEMMA FrontOfFront ==
  ASSUME NEW S, NEW a \in Seq(S), NEW m \in 0..Len(a), NEW n \in 0..m
  PROVE  SubSeq(SubSeq(a, 1, m), 1, n) = SubSeq(a, 1, n)
<1>1. Len(a) \in Nat  BY LenProperties
<1>2. n \in 0..Len(a)  BY <1>1
<1> DEFINE b == SubSeq(a, 1, m)  l == SubSeq(b, 1, n)  r == SubSeq(a, 1, n)
<1>3. b \in Seq(S) /\ Len(b) = m /\ \A i \in 1..m : b[i] = a[i]  BY FrontOf
<1>4. r \in Seq(S) /\ Len(r) = n /\ \A i \in 1..n : r[i] = a[i]  BY <1>2, FrontOf
<1> HIDE DEF b, r
<1>5. l \in Seq(S) /\ Len(l) = n /\ \A i \in 1..n : l[i] = b[i]  BY <1>3, FrontOf
<1>6. \A i \in 1..n : l[i] = r[i]  BY <1>1, <1>3, <1>4, <1>5
<1> HIDE DEF l
<1>7. l = r  BY <1>4, <1>5, <1>6, SeqEqual
<1> QED  BY <1>7 DEF l, r, b

LEMMA FrontOfConcat ==
  ASSUME NEW S, NEW a \in Seq(S), NEW b \in Seq(S), NEW n \in 0..Len(a)
  PROVE  SubSeq(a \o b, 1, n) = SubSeq(a, 1, n)
<1>1. Len(a) \in Nat /\ Len(b) \in Nat  BY LenProperties
<1>2. /\ a \o b \in Seq(S) /\ Len(a \o b) = Len(a) + Len(b)
      /\ \A i \in 1..n : (a \o b)[i] = a[i]
  BY <1>1, ConcatProperties
<1> DEFINE c == a \o b  l == SubSeq(c, 1, n)  r == SubSeq(a, 1, n)
<1>3. r \in Seq(S) /\ Len(r) = n /\ \A i \in 1..n : r[i] = a[i]  BY FrontOf
<1>4. c \in Seq(S) /\ n \in 0..Len(c) /\ \A i \in 1..n : c[i] = a[i]  BY <1>1, <1>2
<1> HIDE DEF c, r
<1>5. l \in Seq(S) /\ Len(l) = n /\ \A i \in 1..n : l[i] = c[i]  BY <1>4, FrontOf
<1> HIDE DEF l
<1>6. \A i \in 1..n : l[i] = r[i]  BY <1>3, <1>4, <1>5
<1>7. l = r  BY <1>3, <1>5, <1>6, SeqEqual
<1> QED  BY <1>7 DEF l, r, c

LEMMA LastAgain ==
  ASSUME NEW S, NEW a \in Seq(S), a # <<>>
  PROVE  /\ SubSeq(a, 1, Len(a) - 1) \o <<Last(a)>> = a
         /\ Last(a) \in S /\ Len(a) \in Nat \ {0}
<1>1. Len(a) \in Nat \ {0}  BY EmptySeq
<1>2. SubSeq(a, 1, Len(a)) = SubSeq(a, 1, Len(a) - 1) \o <<a[Len(a)]>>
  BY <1>1, SubSeqRecursiveSecond
<1>3. SubSeq(a, 1, Len(a)) = a  BY SubSeqFull
<1>4. a[Len(a)] \in S  BY <1>1, ElementOfSeq
<1> QED  BY <1>1, <1>2, <1>3, <1>4 DEF Last

LEMMA ReadOn ==
  ASSUME NEW S, NEW a \in Seq(S), NEW at \in 0..Len(a), NEW to \in at..Len(a)
  PROVE  /\ SubSeq(a, 1, at) \o SubSeq(a, at + 1, to) = SubSeq(a, 1, to)
         /\ SubSeq(a, at + 1, to) \in Seq(S) /\ Len(SubSeq(a, at + 1, to)) = to - at
<1>1. Len(a) \in Nat  BY LenProperties
<1>2. \A i \in (at + 1)..to : a[i] \in S  BY <1>1, ElementOfSeq
<1>3. SubSeq(a, 1, at) \o SubSeq(a, at + 1, to) = SubSeq(a, 1, to)
  BY <1>1, ConcatAdjacentSubSeq
<1>4. SubSeq(a, at + 1, to) \in Seq(S) /\ Len(SubSeq(a, at + 1, to)) = to - at
  BY <1>1, <1>2, SubSeqProperties
<1> QED  BY <1>3, <1>4

LEMMA PrefixIsFront ==
  ASSUME NEW S, NEW a \in Seq(S), NEW b \in Seq(S), IsPrefix(a, b)
  PROVE  Len(a) \in 0..Len(b) /\ a = SubSeq(b, 1, Len(a))
<1>1. Len(a) \in Nat /\ Len(b) \in Nat /\ SubSeq(a, 1, Len(a)) = a
  BY LenProperties, SubSeqFull
<1> QED  BY <1>1 DEF IsPrefix

LEMMA StrictPrefixIsShorter ==
  ASSUME NEW S, NEW a \in Seq(S), NEW b \in Seq(S), IsStrictPrefix(a, b)
  PROVE  Len(a) \in 0..(Len(b) - 1) /\ a = SubSeq(b, 1, Len(a))
<1>1. Len(a) \in 0..Len(b) /\ a = SubSeq(b, 1, Len(a)) /\ a # b
  BY PrefixIsFront DEF IsStrictPrefix
<1>2. Len(b) \in Nat /\ SubSeq(b, 1, Len(b)) = b  BY LenProperties, SubSeqFull
<1> QED  BY <1>1, <1>2

(* One element taken out, the others keep their order.                     *)
LEMMA OneTakenOut ==
  ASSUME NEW S, NEW a \in Seq(S), NEW i \in 1..Len(a)
  PROVE  /\ RemoveAt(a, i) \in Seq(S) /\ Len(RemoveAt(a, i)) = Len(a) - 1
         /\ \A j \in 1..(Len(a) - 1) :
              RemoveAt(a, i)[j] = IF j < i THEN a[j] ELSE a[j + 1]
<1>1. Len(a) \in Nat /\ \A j \in 1..Len(a) : a[j] \in S  BY LenProperties, ElementOfSeq
<1> DEFINE l == SubSeq(a, 1, i - 1)  r == SubSeq(a, i + 1, Len(a))
<1>2. /\ l \in Seq(S) /\ Len(l) = i - 1
      /\ \A j \in 1..(i - 1) : l[j] = a[j]
  BY <1>1, FrontOf
<1>3. /\ r \in Seq(S) /\ Len(r) = Len(a) - i
      /\ \A j \in 1..(Len(a) - i) : r[j] = a[i + j]
  <2>1. /\ r \in Seq(S) /\ Len(r) = IF i + 1 <= Len(a) THEN Len(a) - (i + 1) + 1 ELSE 0
        /\ \A j \in 1..(Len(a) - (i + 1) + 1) : r[j] = a[(i + 1) + j - 1]
    BY <1>1, SubSeqProperties
  <2> QED  BY <1>1, <2>1
<1> HIDE DEF l, r
<1>4. /\ l \o r \in Seq(S) /\ Len(l \o r) = Len(a) - 1
      /\ \A j \in 1..(Len(a) - 1) : (l \o r)[j] = IF j <= i - 1 THEN l[j] ELSE r[j - (i - 1)]
  <2>1. /\ l \o r \in Seq(S) /\ Len(l \o r) = Len(l) + Len(r)
        /\ \A j \in 1..(Len(l) + Len(r)) :
             (l \o r)[j] = IF j <= Len(l) THEN l[j] ELSE r[j - Len(l)]
    BY <1>2, <1>3, ConcatProperties
  <2>2. Len(l) + Len(r) = Len(a) - 1  BY <1>1, <1>2, <1>3
  <2> QED  BY <1>2, <2>1, <2>2
<1>5. \A j \in 1..(Len(a) - 1) : (l \o r)[j] = IF j < i THEN a[j] ELSE a[j + 1]
  <2> SUFFICES ASSUME NEW j \in 1..(Len(a) - 1)
               PROVE  (l \o r)[j] = IF j < i THEN a[j] ELSE a[j + 1]
    OBVIOUS
  <2>1. CASE j < i  BY <1>1, <1>2, <1>4, <2>1
  <2>2. CASE ~(j < i)
    <3>1. j - (i - 1) \in 1..(Len(a) - i) /\ i + (j - (i - 1)) = j + 1  BY <1>1, <2>2
    <3> QED  BY <1>1, <1>3, <1>4, <2>2, <3>1
  <2> QED  BY <2>1, <2>2
<1>6. RemoveAt(a, i) = l \o r  BY DEF RemoveAt, l, r
<1> QED  BY <1>4, <1>5, <1>6

-----------------------------------------------------------------------------
(* The greatest of some numbers. *)

LEMMA LeastNumber ==
  ASSUME NEW T, T \subseteq Nat, T # {}
  PROVE  \E t \in T : \A u \in T : ~(u < t)
<1>1. \E t \in T : \A u \in T : ~(<<u, t>> \in OpToRel(<, Nat))
  BY NatLessThanWellFounded, WFMin, Zenon
<1>2. \A t \in T, u \in T : u < t => <<u, t>> \in OpToRel(<, Nat)
  BY Zenon DEF OpToRel
<1> QED  BY <1>1, <1>2, Zenon

LEMMA LongestIsThere ==
  ASSUME NEW n \in Nat, NEW S \in SUBSET (0..n), S # {}
  PROVE  Longest(S) \in S /\ \A y \in S : y <= Longest(S)
<1> DEFINE T == {n - x : x \in S}
<1>1. T \subseteq Nat /\ T # {}
  <2>1. \A x \in S : n - x \in Nat  OBVIOUS
  <2> QED  BY <2>1
<1>2. PICK t \in T : \A u \in T : ~(u < t)
  <2> HIDE DEF T
  <2> QED  BY <1>1, LeastNumber
<1>4. PICK x \in S : t = n - x  OBVIOUS
<1>5. \A y \in S : y <= x
  <2> SUFFICES ASSUME NEW y \in S PROVE y <= x  OBVIOUS
  <2>1. n - y \in T  OBVIOUS
  <2>2. ~(n - y < n - x)  BY <1>2, <1>4, <2>1
  <2> QED  BY <2>2
<1> QED  BY <1>4, <1>5 DEF Longest

LEMMA CommonPrefix ==
  ASSUME NEW S, NEW a \in Seq(S), NEW b \in Seq(S)
  PROVE  /\ common_prefix_len(a, b) \in 0..Len(a)
         /\ common_prefix_len(a, b) \in 0..Len(b)
         /\ SubSeq(a, 1, common_prefix_len(a, b)) = SubSeq(b, 1, common_prefix_len(a, b))
<1>1. Len(a) \in Nat /\ Len(b) \in Nat  BY LenProperties
<1> DEFINE k == Smaller(Len(a), Len(b))
           T == {n \in 0..k : SubSeq(a, 1, n) = SubSeq(b, 1, n)}
<1>2. k \in Nat /\ k <= Len(a) /\ k <= Len(b)  BY <1>1 DEF Smaller
<1>3. 0 \in T
  <2>1. SubSeq(a, 1, 0) = << >> /\ SubSeq(b, 1, 0) = << >>  BY SubSeqEmpty
  <2> QED  BY <1>2, <2>1
<1>4. Longest(T) \in T  
  <2> HIDE DEF k
  <2>1. T \in SUBSET (0..k) /\ T # {} BY <1>3
  <2> HIDE DEF T
  <2> QED  BY <1>2, <2>1, LongestIsThere
<1>5. common_prefix_len(a, b) = Longest(T)  BY DEF common_prefix_len
<1> HIDE DEF k
<1>6. /\ Longest(T) \in 0..k
      /\ SubSeq(a, 1, Longest(T)) = SubSeq(b, 1, Longest(T))  BY <1>4
<1> DEFINE m == Longest(T)
<1>7. m \in 0..k /\ SubSeq(a, 1, m) = SubSeq(b, 1, m) /\ common_prefix_len(a, b) = m
  BY <1>5, <1>6
<1> HIDE DEF m
<1> QED  BY <1>1, <1>2, <1>7

-----------------------------------------------------------------------------
(* The inductive invariant. *)

Tokens   == Vocab \cup {Bos}
Memories == [att : Seq(Tokens), rec : Seq(Tokens), low : Nat]
Marked   == [tokens : Seq(Tokens), state : Memories]
Kept     == [tokens : Seq(Tokens), state : Seq(Tokens)]

LEMMA Regrouped ==
  ASSUME NEW a \in Seq(Tokens), NEW b \in Seq(Tokens), NEW c \in Seq(Tokens)
  PROVE  (a \o b) \o c = a \o (b \o c)
  BY ConcatAssociative

(* A memory holds these tokens, and its recurrent state has read them.     *)
Holds(m, tokens) == m.att = tokens /\ m.rec = tokens

(* The fields of a conversation; what of it is text is left open.          *)
Shape(q) ==
  \E X : q \in [stage : {Read, "answering"}, text : X, prompt_tokens : Seq(Tokens),
                generated : Seq(Tokens), pieces : X, half : X, at : Nat,
                may_fall_back : X, keep_states : X, max_tokens : Nat]

(* A conversation that is read or answered: of what it said, all but the   *)
(* last token is in the memory.                                            *)
SeqOK(q) ==
  /\ Shape(q)
  /\ q.stage = Read => q.generated = <<>> /\ q.at < Len(q.prompt_tokens)
  /\ q.stage = "answering" =>
       /\ q.generated # <<>> /\ q.prompt_tokens # <<>>
       /\ q.at = Len(q.prompt_tokens) + Len(q.generated) - 1

(* The part of a conversation that its memory holds.                       *)
InMemory(q) == SubSeq(q.prompt_tokens \o q.generated, 1, q.at)

(* The idle slots `idle`, when memories hold `mem` and sequences `act` are *)
(* under way: each is there once, nothing is read or answered in it, and   *)
(* it holds what it is recorded with.                                      *)
Entry(e) ==
  /\ e.seq_id \in Slots /\ e.tokens \in Seq(Tokens)
  /\ e.text # <<>> => e.tokens # <<>>

IdleOK(idle, mem, act) ==
  /\ \E S : idle \in Seq(S)
  /\ \A i \in 1..Len(idle) :
       /\ Entry(idle[i])
       /\ act[idle[i].seq_id] = NoSeq
       /\ Holds(mem[idle[i].seq_id], idle[i].tokens)
  /\ \A i, j \in 1..Len(idle) : i # j => idle[i].seq_id # idle[j].seq_id

Away(idle, s) == \A i \in 1..Len(idle) : idle[i].seq_id # s

BusyOK ==
  /\ active = [s \in Slots |-> active[s]]
  /\ \A s \in Slots : active[s] # NoSeq =>
       SeqOK(active[s]) /\ Holds(memory[s], InMemory(active[s]))

MemoryOK == mtp \in Nat /\ memory \in [Slots -> Memories]

MarkedOK ==
  /\ checkpoints \in Seq(Marked)
  /\ \A i \in 1..Len(checkpoints) : Holds(checkpoints[i].state, checkpoints[i].tokens)

StatesOK ==
  /\ states \in [Slots -> SUBSET Kept]
  /\ \A s \in Slots : \A c \in states[s] : c.state = c.tokens

CacheInv == MemoryOK /\ IdleOK(idle_slots, memory, active) /\ BusyOK /\ MarkedOK /\ StatesOK

(* What the invariant gives.                                               *)
LEMMA InvGives == CacheInv => MemoryIsRecorded /\ SomethingToRead
<1> SUFFICES ASSUME CacheInv PROVE MemoryIsRecorded /\ SomethingToRead
  OBVIOUS
<1> USE DEF CacheInv
<1>1. \A i \in DOMAIN idle_slots :
        Holds(memory[idle_slots[i].seq_id], idle_slots[i].tokens)
  <2>1. PICK S : idle_slots \in Seq(S)  BY DEF IdleOK
  <2>2. DOMAIN idle_slots = 1..Len(idle_slots)  BY <2>1, LenProperties
  <2> QED  BY <2>2 DEF IdleOK
<1>2. ASSUME NEW s \in Slots, active[s] # NoSeq
      PROVE  /\ Holds(memory[s], resident_tokens(active[s]))
             /\ active[s].stage = Read => active[s].at < Len(active[s].prompt_tokens)
  <2> DEFINE q == active[s]  full == q.prompt_tokens \o q.generated
  <2>1. SeqOK(q) /\ Holds(memory[s], InMemory(q))  BY <1>2 DEF BusyOK
  <2>2. full \in Seq(Tokens) /\ Len(full) = Len(q.prompt_tokens) + Len(q.generated)
    BY <2>1, ConcatProperties DEF SeqOK, Shape
  <2>3. q.at <= Len(full) /\ q.at \in Nat /\ Len(full) \in Nat
    <3>1. Len(q.prompt_tokens) \in Nat /\ Len(q.generated) \in Nat
      BY <2>1, LenProperties DEF SeqOK, Shape
    <3>2. q.at \in Nat /\ (\/ q.at < Len(q.prompt_tokens)
                            \/ q.at = Len(q.prompt_tokens) + Len(q.generated) - 1)
      BY <2>1 DEF SeqOK, Shape
    <3> DEFINE n == Len(q.prompt_tokens)  k == Len(q.generated)  l == Len(full)  at == q.at
    <3>3. n \in Nat /\ k \in Nat /\ l = n + k  BY <2>2, <3>1
    <3>4. at \in Nat /\ (at < n \/ at = n + k - 1)  BY <3>2
    <3> HIDE DEF n, k, l, at
    <3>5. at <= l /\ at \in Nat /\ l \in Nat  BY <3>3, <3>4
    <3> QED  BY <3>5 DEF at, l
  <2>4. Smaller(q.at, Len(full)) = q.at  BY <2>3 DEF Smaller
  <2>5. resident_tokens(q) = InMemory(q)  BY <2>4 DEF resident_tokens, InMemory
  <2> QED  BY <2>1, <2>5 DEF SeqOK, Shape
<1>3. \A i \in DOMAIN checkpoints : Holds(checkpoints[i].state, checkpoints[i].tokens)
  BY LenProperties DEF MarkedOK
<1>4. \A s \in Slots : \A c \in states[s] : c.state = c.tokens  BY DEF StatesOK
<1> QED
  BY <1>1, <1>2, <1>3, <1>4 DEF MemoryIsRecorded, SomethingToRead, Busy, Holds

(* The idle slots, when one is taken, ...                                  *)
LEMMA IdleTaken ==
  ASSUME NEW idle, NEW mem, NEW act, IdleOK(idle, mem, act), NEW i \in 1..Len(idle),
         NEW mem2, NEW act2,
         \A t \in Slots \ {idle[i].seq_id} : mem2[t] = mem[t] /\ act2[t] = act[t]
  PROVE  IdleOK(RemoveAt(idle, i), mem2, act2) /\ Away(RemoveAt(idle, i), idle[i].seq_id)
<1>1. PICK S : idle \in Seq(S)  BY DEF IdleOK
<1> DEFINE r == RemoveAt(idle, i)  old(j) == IF j < i THEN j ELSE j + 1
<1>2. Len(idle) \in Nat  BY <1>1, LenProperties
<1>3. /\ r \in Seq(S) /\ Len(r) = Len(idle) - 1
      /\ \A j \in 1..(Len(idle) - 1) : r[j] = idle[old(j)]
  BY <1>1, OneTakenOut
<1>4. \A j \in 1..(Len(idle) - 1) : old(j) \in 1..Len(idle) /\ old(j) # i
  BY <1>2
<1>5. \A j, k \in 1..(Len(idle) - 1) : j # k => old(j) # old(k)
  BY <1>2
<1> HIDE DEF r, old
<1>6. \A j \in 1..Len(r) :
        Entry(r[j]) /\ r[j].seq_id # idle[i].seq_id /\ act2[r[j].seq_id] = NoSeq
        /\ Holds(mem2[r[j].seq_id], r[j].tokens)
  <2> SUFFICES ASSUME NEW j \in 1..Len(r)
               PROVE  /\ Entry(r[j]) /\ r[j].seq_id # idle[i].seq_id
                      /\ act2[r[j].seq_id] = NoSeq /\ Holds(mem2[r[j].seq_id], r[j].tokens)
    OBVIOUS
  <2>1. r[j] = idle[old(j)] /\ old(j) \in 1..Len(idle) /\ old(j) # i  BY <1>3, <1>4
  <2>2. /\ Entry(r[j]) /\ act[r[j].seq_id] = NoSeq /\ Holds(mem[r[j].seq_id], r[j].tokens)
        /\ r[j].seq_id # idle[i].seq_id
    BY <2>1 DEF IdleOK
  <2>3. r[j].seq_id \in Slots  BY <2>2 DEF Entry
  <2> QED  BY <2>2, <2>3
<1>7. \A j, k \in 1..Len(r) : j # k => r[j].seq_id # r[k].seq_id
  BY <1>3, <1>4, <1>5 DEF IdleOK
<1>8. IdleOK(r, mem2, act2) /\ Away(r, idle[i].seq_id)
  BY <1>3, <1>6, <1>7 DEF IdleOK, Away
<1> QED  BY <1>8 DEF r

(* ... when a slot that is not among them changes, ...                     *)
LEMMA IdleElsewhere ==
  ASSUME NEW idle, NEW mem, NEW act, IdleOK(idle, mem, act), NEW s, Away(idle, s),
         NEW mem2, NEW act2,
         \A t \in Slots \ {s} : mem2[t] = mem[t] /\ act2[t] = act[t]
  PROVE  IdleOK(idle, mem2, act2)
<1>1. \A i \in 1..Len(idle) : idle[i].seq_id \in Slots \ {s}
  BY DEF IdleOK, Away, Entry
<1> QED  BY <1>1 DEF IdleOK

(* ... and when one comes back.                                            *)
LEMMA IdleAdded ==
  ASSUME NEW idle, NEW mem, NEW act, IdleOK(idle, mem, act), NEW e, Entry(e),
         Away(idle, e.seq_id), act[e.seq_id] = NoSeq, Holds(mem[e.seq_id], e.tokens)
  PROVE  IdleOK(Append(idle, e), mem, act)
<1>1. PICK S : idle \in Seq(S)  BY DEF IdleOK
<1> DEFINE T == S \cup {e}  r == Append(idle, e)
<1>2. idle \in Seq(T) /\ Len(idle) \in Nat  BY <1>1, SeqMonotonic, LenProperties
<1>3. /\ r \in Seq(T) /\ Len(r) = Len(idle) + 1
      /\ \A i \in 1..Len(idle) : r[i] = idle[i]
      /\ r[Len(idle) + 1] = e
  BY <1>2, AppendProperties
<1> HIDE DEF r, T
<1>4. \A i \in 1..Len(r) : i \in 1..Len(idle) \/ i = Len(idle) + 1  BY <1>2, <1>3
<1>5. \A i \in 1..Len(r) : /\ Entry(r[i]) /\ act[r[i].seq_id] = NoSeq
                           /\ Holds(mem[r[i].seq_id], r[i].tokens)
  BY <1>3, <1>4 DEF IdleOK
<1>6. \A i, j \in 1..Len(r) : i # j => r[i].seq_id # r[j].seq_id
  BY <1>3, <1>4 DEF IdleOK, Away
<1>7. IdleOK(r, mem, act)  BY <1>3, <1>5, <1>6 DEF IdleOK
<1> QED  BY <1>7 DEF r

-----------------------------------------------------------------------------
(* What is done to memories. *)

LEMMA DecodedHolds ==
  ASSUME NEW m \in Memories, NEW a \in Seq(Tokens), NEW b \in Seq(Tokens), Holds(m, a),
         mtp \in Nat
  PROVE  /\ Decoded(m, b) \in Memories /\ Holds(Decoded(m, b), a \o b)
         /\ Decoded(m, b).low = Len(a) + Minus(Len(b), Window)
         /\ Window \in Nat /\ Window >= mtp
<1>1. Window \in Nat /\ Window >= mtp  BY SlotCacheAssumption DEF Window
<1>2. a \o b \in Seq(Tokens) /\ Len(a) \in Nat /\ Len(b) \in Nat
  BY ConcatProperties, LenProperties
<1>3. Minus(Len(b), Window) \in Nat  BY <1>1, <1>2 DEF Minus
<1> QED  BY <1>1, <1>2, <1>3 DEF Decoded, Holds, Memories

LEMMA CutHolds ==
  ASSUME NEW m \in Memories, NEW a \in Seq(Tokens), Holds(m, a), NEW n \in 0..Len(a),
         CanCut(m, n)
  PROVE  Cut(m, n) \in Memories /\ Holds(Cut(m, n), SubSeq(a, 1, n))
<1>1. Len(a) \in Nat /\ n \in Nat  BY LenProperties
<1>2. SubSeq(a, 1, n) \in Seq(Tokens)  BY FrontOf
<1>3. CASE n = 0
  <2>1. SubSeq(a, 1, n) = <<>>  BY <1>3, SubSeqEmpty
  <2>2. <<>> \in Seq(Tokens)  BY EmptySeq
  <2> QED  BY <1>3, <2>1, <2>2 DEF Cut, NoMemory, Holds, Memories
<1>4. CASE n # 0
  <2>1. m.att = a /\ m.rec = a /\ m.low \in Nat  BY DEF Holds, Memories
  <2>2. Smaller(n, Len(a)) = n  BY <1>1 DEF Smaller
  <2>3. Cut(m, n) = [m EXCEPT !.att = SubSeq(@, 1, Smaller(n, Len(@))),
                             !.rec = SubSeq(@, 1, Smaller(n, Len(@)))]
    BY <1>4 DEF Cut
  <2>4. Cut(m, n) = [att |-> SubSeq(a, 1, n), rec |-> SubSeq(a, 1, n), low |-> m.low]
    BY <2>1, <2>2, <2>3 DEF Memories
  <2> QED  BY <1>2, <2>1, <2>4 DEF Holds, Memories
<1> QED  BY <1>3, <1>4

LEMMA Untouched == NoMemory \in Memories /\ Holds(NoMemory, <<>>)
  BY EmptySeq DEF NoMemory, Memories, Holds

(* What a checkpoint that is a strict prefix of a prompt leaves.           *)
LEMMA BestFits ==
  ASSUME MarkedOK, NEW tokens \in Seq(Tokens), NEW i \in best_checkpoint(tokens)
  PROVE  /\ i \in 1..Len(checkpoints) /\ checkpoints[i] \in Marked
         /\ Holds(checkpoints[i].state, checkpoints[i].tokens)
         /\ Len(checkpoints[i].tokens) \in 0..(Len(tokens) - 1)
         /\ checkpoints[i].tokens = SubSeq(tokens, 1, Len(checkpoints[i].tokens))
<1>1. checkpoints \in Seq(Marked) /\ DOMAIN checkpoints = 1..Len(checkpoints)
  BY LenProperties DEF MarkedOK
<1>2. i \in 1..Len(checkpoints) /\ IsStrictPrefix(checkpoints[i].tokens, tokens)
  BY <1>1 DEF best_checkpoint
<1>3. checkpoints[i] \in Marked  BY <1>1, <1>2, ElementOfSeq
<1>4. checkpoints[i].tokens \in Seq(Tokens)  BY <1>3 DEF Marked
<1>5. /\ Len(checkpoints[i].tokens) \in 0..(Len(tokens) - 1)
      /\ checkpoints[i].tokens = SubSeq(tokens, 1, Len(checkpoints[i].tokens))
  BY <1>2, <1>4, StrictPrefixIsShorter
<1> QED  BY <1>2, <1>3, <1>5 DEF MarkedOK

LEMMA FallBackHolds ==
  ASSUME MarkedOK, NEW tokens \in Seq(Tokens), tokens # <<>>, NEW m,
         NEW r \in FallBack(m, tokens)
  PROVE  /\ r.m \in Memories /\ r.at \in 0..(Len(tokens) - 1)
         /\ Holds(r.m, SubSeq(tokens, 1, r.at)) /\ CanCut(r.m, r.at)
<1>0. Len(tokens) \in Nat \ {0}  BY EmptySeq
<1>1. CASE r = [m |-> NoMemory, at |-> 0]
  <2>1. SubSeq(tokens, 1, 0) = <<>>  BY SubSeqEmpty
  <2>2. r.m = NoMemory /\ r.at = 0  BY <1>1
  <2>3. r.at \in 0..(Len(tokens) - 1)  BY <1>0, <2>2
  <2> QED  BY <2>1, <2>2, <2>3, Untouched DEF CanCut
<1>2. CASE r # [m |-> NoMemory, at |-> 0]
  <2>1. PICK i \in best_checkpoint(tokens) :
          r = [m |-> [checkpoints[i].state EXCEPT !.low = Len(checkpoints[i].state.rec)],
               at |-> Len(checkpoints[i].tokens)]
    BY <1>2 DEF FallBack
  <2> DEFINE c == checkpoints[i]
  <2>2. /\ c \in Marked /\ Holds(c.state, c.tokens)
        /\ Len(c.tokens) \in 0..(Len(tokens) - 1)
        /\ c.tokens = SubSeq(tokens, 1, Len(c.tokens))
    BY BestFits
  <2>3. c.state \in Memories /\ c.tokens \in Seq(Tokens)  BY <2>2 DEF Marked
  <2>4. r.m = [c.state EXCEPT !.low = Len(c.tokens)] /\ r.at = Len(c.tokens)
    BY <2>1, <2>2 DEF Holds
  <2>5. /\ r.m \in Memories /\ Holds(r.m, c.tokens) /\ r.m.rec = c.tokens
    BY <1>0, <2>2, <2>3, <2>4 DEF Memories, Holds
  <2>6. CanCut(r.m, r.at)  BY <1>0, <2>2, <2>4, <2>5 DEF CanCut
  <2> QED  BY <2>2, <2>4, <2>5, <2>6
<1> QED  BY <1>1, <1>2

(* A slot's own memory, cut back to what a prompt shares with it.          *)
LEMMA SharedHolds ==
  ASSUME NEW m \in Memories, NEW base \in Seq(Tokens), Holds(m, base),
         NEW tokens \in Seq(Tokens), tokens # <<>>,
         NEW n \in 0..(Len(tokens) - 1), n <= Len(base),
         SubSeq(base, 1, n) = SubSeq(tokens, 1, n), CanCut(m, n)
  PROVE  Cut(m, n) \in Memories /\ Holds(Cut(m, n), SubSeq(tokens, 1, n))
<1>1. Len(base) \in Nat /\ Len(tokens) \in Nat  BY LenProperties
<1>2. n \in 0..Len(base)  BY <1>1
<1> QED  BY <1>2, CutHolds

LEMMA RestoredIs ==
  ASSUME NEW m \in Memories, NEW x, NEW n
  PROVE  [m EXCEPT !.rec = x, !.low = n] = [att |-> m.att, rec |-> x, low |-> n]
<1>1. [m EXCEPT !.rec = x, !.low = n] = [[m EXCEPT !.rec = x] EXCEPT !.low = n]
  OBVIOUS
<1>2. [m EXCEPT !.rec = x] = [att |-> m.att, rec |-> x, low |-> m.low]  BY DEF Memories
<1>3. [[att |-> m.att, rec |-> x, low |-> m.low] EXCEPT !.low = n]
        = [att |-> m.att, rec |-> x, low |-> n]
  OBVIOUS
<1> QED  BY <1>1, <1>2, <1>3, Zenon

(* The same with its recurrent state taken from one that was kept.         *)
LEMMA RestoredHolds ==
  ASSUME StatesOK, NEW s \in Slots,
         NEW m \in Memories, NEW base \in Seq(Tokens), Holds(m, base),
         NEW tokens \in Seq(Tokens), tokens # <<>>,
         NEW reuse \in 0..(Len(tokens) - 1), reuse <= Len(base),
         SubSeq(base, 1, reuse) = SubSeq(tokens, 1, reuse),
         NEW c \in StatesThatFit(s, tokens, reuse)
  PROVE  /\ Len(c.tokens) \in 0..(Len(tokens) - 1)
         /\ Cut(RestoreState(m, c), Len(c.tokens)) \in Memories
         /\ Holds(Cut(RestoreState(m, c), Len(c.tokens)), SubSeq(tokens, 1, Len(c.tokens)))
<1> DEFINE n == Len(c.tokens)  r == RestoreState(m, c)
<1>1. Len(base) \in Nat /\ Len(tokens) \in Nat  BY LenProperties
<1>2. c \in states[s] /\ n \in 1..reuse /\ IsStrictPrefix(c.tokens, tokens)
  BY DEF StatesThatFit
<1>3. c \in Kept /\ c.state = c.tokens  BY <1>2 DEF StatesOK
<1>4. c.tokens \in Seq(Tokens)  BY <1>3 DEF Kept
<1>5. n \in 0..(Len(tokens) - 1) /\ c.tokens = SubSeq(tokens, 1, n)
  BY <1>2, <1>4, StrictPrefixIsShorter
<1> HIDE DEF n
<1>6. n \in 0..Len(base) /\ n # 0 /\ n \in Nat /\ n \in 0..reuse  BY <1>1, <1>2
<1>7. SubSeq(base, 1, n) = SubSeq(tokens, 1, n)
  <2>1. SubSeq(SubSeq(base, 1, reuse), 1, n) = SubSeq(base, 1, n)
    <3>1. reuse \in 0..Len(base)  BY <1>1
    <3> QED  BY <1>6, <3>1, FrontOfFront
  <2>2. SubSeq(SubSeq(tokens, 1, reuse), 1, n) = SubSeq(tokens, 1, n)
    <3>1. reuse \in 0..Len(tokens)  BY <1>1
    <3> QED  BY <1>6, <3>1, FrontOfFront
  <2> QED  BY <2>1, <2>2
<1>8. r = [att |-> base, rec |-> c.tokens, low |-> n]
  <2>1. r = [m EXCEPT !.rec = c.tokens, !.low = n]  BY <1>3 DEF RestoreState, n
  <2>2. [m EXCEPT !.rec = c.tokens, !.low = n] = [att |-> m.att, rec |-> c.tokens, low |-> n]
    BY RestoredIs
  <2>3. m.att = base  BY DEF Holds
  <2> QED  BY <2>1, <2>2, <2>3, Zenon
<1>9. Len(c.tokens) = n /\ Smaller(n, Len(base)) = n /\ Smaller(n, n) = n
  BY <1>1, <1>6 DEF n, Smaller
<1>10. Cut(r, n) = [att |-> SubSeq(base, 1, n), rec |-> SubSeq(c.tokens, 1, n), low |-> n]
  <2>1. CanCut(r, n)  BY <1>6, <1>8 DEF CanCut
  <2>2. Cut(r, n) = [r EXCEPT !.att = SubSeq(@, 1, Smaller(n, Len(@))),
                             !.rec = SubSeq(@, 1, Smaller(n, Len(@)))]
    BY <1>6, <2>1 DEF Cut
  <2> HIDE DEF r
  <2> QED  BY <1>8, <1>9, <2>2
<1>11. SubSeq(c.tokens, 1, n) = c.tokens  BY <1>4, SubSeqFull DEF n
<1>12. Cut(r, n) = [att |-> c.tokens, rec |-> c.tokens, low |-> n]
  BY <1>5, <1>7, <1>10, <1>11
<1> HIDE DEF r
<1>13. Cut(r, n) \in Memories /\ Holds(Cut(r, n), c.tokens)
  BY <1>4, <1>6, <1>12 DEF Memories, Holds
<1> QED  BY <1>5, <1>13 DEF n, r

(* Whatever way a slot is set up, its memory holds the part of the prompt  *)
(* that is not read again, and something is left to read.                  *)
LEMMA SetupHolds ==
  ASSUME StatesOK, MarkedOK, NEW s \in Slots,
         NEW m \in Memories, NEW base \in Seq(Tokens), Holds(m, base),
         NEW tokens \in Seq(Tokens), tokens # <<>>,
         NEW reuse \in 0..(Len(tokens) - 1), reuse <= Len(base),
         SubSeq(base, 1, reuse) = SubSeq(tokens, 1, reuse),
         NEW keep, NEW w \in Setups(s, m, tokens, reuse, keep)
  PROVE  /\ w.m \in Memories /\ w.at \in 0..(Len(tokens) - 1)
         /\ Holds(w.m, SubSeq(tokens, 1, w.at)) /\ Len(tokens) < PerSeqCtx
<1>0. Len(tokens) \in Nat /\ PerSeqCtx \in Nat  BY LenProperties, SlotCacheAssumption
<1> DEFINE ok(r) == ~SetupFails(r.m, tokens, r.at)
           first == [m |-> m, at |-> reuse]
           loads == IF keep /\ reuse > 0
                 THEN {[m |-> RestoreState(m, c), at |-> Len(c.tokens)] :
                         c \in StatesThatFit(s, tokens, reuse)} ELSE {}
           tried(r) == [m |-> Cut(r.m, r.at), at |-> r.at, fell_back |-> FALSE]
           falls == IF reuse > 0
                 THEN {[m |-> Cut(r.m, r.at), at |-> r.at, fell_back |-> TRUE] :
                         r \in {r \in FallBack(m, tokens) : ok(r)}} ELSE {}
<1>1. \/ ok(first) /\ w = tried(first)
      \/ \E r \in loads : ok(r) /\ w = tried(r)
      \/ w \in falls
  BY DEF Setups
<1>2. ASSUME NEW r, ok(r)
      PROVE  Len(tokens) < PerSeqCtx /\ CanCut(r.m, r.at)
  BY <1>0, <1>2 DEF SetupFails
<1>3. CASE ok(first) /\ w = tried(first)
  <2>1. Len(tokens) < PerSeqCtx /\ CanCut(m, reuse)
    <3>1. Len(tokens) < PerSeqCtx /\ CanCut(first.m, first.at)
      <4> HIDE DEF first
      <4> QED  BY <1>2, <1>3
    <3> QED  BY <3>1
  <2>2. w.m = Cut(m, reuse) /\ w.at = reuse  BY <1>3
  <2> QED  BY <2>1, <2>2, SharedHolds
<1>4. ASSUME NEW r \in loads, ok(r), w = tried(r)
      PROVE  /\ w.m \in Memories /\ w.at \in 0..(Len(tokens) - 1)
             /\ Holds(w.m, SubSeq(tokens, 1, w.at)) /\ Len(tokens) < PerSeqCtx
  <2>1. PICK c \in StatesThatFit(s, tokens, reuse) :
          r = [m |-> RestoreState(m, c), at |-> Len(c.tokens)]
    OBVIOUS
  <2>2. w.m = Cut(RestoreState(m, c), Len(c.tokens)) /\ w.at = Len(c.tokens)
    BY <1>4, <2>1
  <2>3. Len(tokens) < PerSeqCtx  BY <1>2, <1>4
  <2> QED  BY <2>2, <2>3, RestoredHolds
<1>5. CASE w \in falls
  <2>1. PICK r \in FallBack(m, tokens) :
          ok(r) /\ w = [m |-> Cut(r.m, r.at), at |-> r.at, fell_back |-> TRUE]
    BY <1>5
  <2>2. /\ r.m \in Memories /\ r.at \in 0..(Len(tokens) - 1)
        /\ Holds(r.m, SubSeq(tokens, 1, r.at)) /\ CanCut(r.m, r.at)
    BY FallBackHolds
  <2>3. Len(tokens) < PerSeqCtx  BY <1>2, <2>1
  <2>4. w.m = Cut(r.m, r.at) /\ w.at = r.at  BY <2>1
  <2>5. r.at \in 0..Len(tokens)  BY <1>0, <2>2
  <2>6. SubSeq(tokens, 1, r.at) \in Seq(Tokens) /\ Len(SubSeq(tokens, 1, r.at)) = r.at
    BY <2>5, FrontOf
  <2>7. r.at \in 0..Len(SubSeq(tokens, 1, r.at))  BY <1>0, <2>2, <2>6
  <2>8. SubSeq(SubSeq(tokens, 1, r.at), 1, r.at) = SubSeq(tokens, 1, r.at)
    BY <2>6, SubSeqFull
  <2>9. Cut(r.m, r.at) \in Memories /\ Holds(Cut(r.m, r.at), SubSeq(tokens, 1, r.at))
    BY <2>2, <2>6, <2>7, <2>8, CutHolds
  <2> QED  BY <2>2, <2>3, <2>4, <2>9
<1> QED  BY <1>1, <1>3, <1>4, <1>5

-----------------------------------------------------------------------------
(* A slot is chosen. *)

LEMMA PickedIsIdle ==
  ASSUME IdleOK(idle_slots, memory, active), idle_slots # <<>>,
         NEW tokens \in Seq(Tokens)
  PROVE  PickSlot(tokens) \in 1..Len(idle_slots)
<1>1. PICK S : idle_slots \in Seq(S)  BY DEF IdleOK
<1>2. /\ Len(idle_slots) \in Nat \ {0} /\ Len(tokens) \in Nat
      /\ DOMAIN idle_slots = 1..Len(idle_slots)
  BY <1>1, EmptySeq, LenProperties
<1> DEFINE shared(i) == common_prefix_len(idle_slots[i].tokens, tokens)
           all == {shared(i) : i \in DOMAIN idle_slots}
           most == Longest(all)
<1>3. \A i \in 1..Len(idle_slots) : shared(i) \in 0..Len(tokens)
  BY CommonPrefix DEF IdleOK, Entry
<1>4. all \in SUBSET (0..Len(tokens)) /\ all # {}  BY <1>2, <1>3
<1>5. most \in all
  <2> HIDE DEF all
  <2> QED  BY <1>2, <1>4, LongestIsThere
<1> DEFINE I == {i \in 1..Len(idle_slots) : shared(i) = most}
<1>6. I # {} /\ I \subseteq Nat /\ I \subseteq 1..Len(idle_slots)
  <2> HIDE DEF most, shared
  <2>1. PICK i \in DOMAIN idle_slots : most = shared(i)  BY <1>5
  <2> QED  BY <1>2, <2>1
<1>7. Min(I) \in I
  <2> HIDE DEF I
  <2>1. PICK t \in I : \A u \in I : ~(u < t)  BY <1>6, LeastNumber
  <2>2. \A u \in I : t <= u  BY <1>6, <2>1
  <2> QED  BY <2>2 DEF Min
<1>8. PickSlot(tokens) \in {1, Min(I)}
  <2>1. PickSlot(tokens) = IF 10 * most < Len(tokens) THEN 1
                           ELSE IF I # {} THEN Min(I) ELSE 0
    BY DEF PickSlot, SelectInSeq
  <2> HIDE DEF I
  <2> QED  BY <1>6, <2>1
<1> HIDE DEF I
<1>9. 1 \in 1..Len(idle_slots)  BY <1>2
<1>10. Min(I) \in 1..Len(idle_slots)  BY <1>6, <1>7, Zenon
<1> QED  BY <1>8, <1>9, <1>10, Zenon

-----------------------------------------------------------------------------
(* What is done to conversations. *)

LEMMA HeardIs ==
  ASSUME NEW q, Shape(q), NEW t \in Seq(Tokens)
  PROVE  /\ Shape(Heard(q, t))
         /\ Heard(q, t).generated = q.generated \o t
         /\ Heard(q, t).prompt_tokens = q.prompt_tokens
         /\ Heard(q, t).at = q.at /\ Heard(q, t).max_tokens = q.max_tokens
<1>1. PICK x, h : Heard(q, t) = [q EXCEPT !.generated = @ \o t, !.pieces = x, !.half = h]
  BY Zenon DEF Heard
<1>2. PICK X : q \in [stage : {Read, "answering"}, text : X, prompt_tokens : Seq(Tokens),
                generated : Seq(Tokens), pieces : X, half : X, at : Nat,
                may_fall_back : X, keep_states : X, max_tokens : Nat]
  BY DEF Shape
<1> DEFINE Y == X \cup {x, h}  g == Heard(q, t)
<1>3. q.generated \o t \in Seq(Tokens)  BY <1>2, ConcatProperties
<1>4. g \in [stage : {Read, "answering"}, text : Y, prompt_tokens : Seq(Tokens),
             generated : Seq(Tokens), pieces : Y, half : Y, at : Nat,
             may_fall_back : Y, keep_states : Y, max_tokens : Nat]
  BY <1>1, <1>2, <1>3
<1>5. Shape(g)  BY <1>4 DEF Shape
<1> QED  BY <1>1, <1>2, <1>5

LEMMA StagedIs ==
  ASSUME NEW q, Shape(q)
  PROVE  /\ Shape([q EXCEPT !.stage = "answering"])
         /\ [q EXCEPT !.stage = "answering"].stage = "answering"
         /\ [q EXCEPT !.stage = "answering"].generated = q.generated
         /\ [q EXCEPT !.stage = "answering"].prompt_tokens = q.prompt_tokens
         /\ [q EXCEPT !.stage = "answering"].at = q.at
         /\ [q EXCEPT !.stage = "answering"].max_tokens = q.max_tokens
  BY DEF Shape

LEMMA MovedIs ==
  ASSUME NEW q, Shape(q), NEW n \in Nat
  PROVE  /\ Shape([q EXCEPT !.at = n])
         /\ [q EXCEPT !.at = n].stage = q.stage
         /\ [q EXCEPT !.at = n].generated = q.generated
         /\ [q EXCEPT !.at = n].prompt_tokens = q.prompt_tokens
         /\ [q EXCEPT !.at = n].at = n
         /\ [q EXCEPT !.at = n].max_tokens = q.max_tokens
  BY DEF Shape

LEMMA FellBackIs ==
  ASSUME NEW q, Shape(q), NEW n \in Nat
  PROVE  /\ Shape([q EXCEPT !.at = n, !.may_fall_back = FALSE])
         /\ [q EXCEPT !.at = n, !.may_fall_back = FALSE].stage = q.stage
         /\ [q EXCEPT !.at = n, !.may_fall_back = FALSE].generated = q.generated
         /\ [q EXCEPT !.at = n, !.may_fall_back = FALSE].prompt_tokens = q.prompt_tokens
         /\ [q EXCEPT !.at = n, !.may_fall_back = FALSE].at = n
<1>1. PICK X : q \in [stage : {Read, "answering"}, text : X, prompt_tokens : Seq(Tokens),
                generated : Seq(Tokens), pieces : X, half : X, at : Nat,
                may_fall_back : X, keep_states : X, max_tokens : Nat]
  BY DEF Shape
<1> DEFINE Y == X \cup {FALSE}  g == [q EXCEPT !.at = n, !.may_fall_back = FALSE]
<1>2. g \in [stage : {Read, "answering"}, text : Y, prompt_tokens : Seq(Tokens),
             generated : Seq(Tokens), pieces : Y, half : Y, at : Nat,
             may_fall_back : Y, keep_states : Y, max_tokens : Nat]
  BY <1>1
<1>3. Shape(g)  BY <1>2 DEF Shape
<1> QED  BY <1>1, <1>3

(* One slot's memory and conversation change.                              *)
LEMMA BusyChanges ==
  ASSUME MemoryOK, BusyOK, NEW s \in Slots, NEW m \in Memories, NEW q,
         memory' = [memory EXCEPT ![s] = m], active' = [active EXCEPT ![s] = q],
         q # NoSeq => SeqOK(q) /\ Holds(m, InMemory(q))
  PROVE  /\ memory' \in [Slots -> Memories] /\ memory'[s] = m /\ active'[s] = q
         /\ \A t \in Slots \ {s} : memory'[t] = memory[t] /\ active'[t] = active[t]
         /\ BusyOK'
<1>1. /\ memory' \in [Slots -> Memories] /\ memory'[s] = m
      /\ \A t \in Slots \ {s} : memory'[t] = memory[t]
  BY DEF MemoryOK
<1>2. /\ active' = [t \in Slots |-> active'[t]] /\ active'[s] = q
      /\ \A t \in Slots \ {s} : active'[t] = active[t]
  BY DEF BusyOK
<1>3. ASSUME NEW t \in Slots, active'[t] # NoSeq
      PROVE  SeqOK(active'[t]) /\ Holds(memory'[t], InMemory(active'[t]))
  <2>1. CASE t = s  BY <1>1, <1>2, <1>3, <2>1
  <2>2. CASE t # s  BY <1>1, <1>2, <1>3, <2>2 DEF BusyOK
  <2> QED  BY <2>1, <2>2
<1> QED  BY <1>1, <1>2, <1>3 DEF BusyOK

(* A slot under way is not among the idle ones.                            *)
LEMMA BusyIsAway ==
  ASSUME IdleOK(idle_slots, memory, active), NEW s, active[s] # NoSeq
  PROVE  Away(idle_slots, s)
  BY DEF IdleOK, Away

-----------------------------------------------------------------------------
(* A conversation comes to its end. *)

LEMMA WipedKeeps ==
  ASSUME CacheInv, NEW s \in Slots, active[s] # NoSeq, FinishWiped(s),
         UNCHANGED <<checkpoints, states, mtp>>
  PROVE  CacheInv'
<1> USE DEF CacheInv
<1> DEFINE e == [seq_id |-> s, tokens |-> <<>>, text |-> <<>>]
<1>1. /\ memory' = [memory EXCEPT ![s] = NoMemory] /\ active' = [active EXCEPT ![s] = NoSeq]
      /\ idle_slots' = Append(idle_slots, e)
  BY DEF FinishWiped
<1>2. /\ memory' \in [Slots -> Memories] /\ memory'[s] = NoMemory /\ active'[s] = NoSeq
      /\ \A t \in Slots \ {s} : memory'[t] = memory[t] /\ active'[t] = active[t]
      /\ BusyOK'
  BY <1>1, BusyChanges, Untouched
<1>3. Away(idle_slots, s) /\ IdleOK(idle_slots, memory', active')
  BY <1>2, BusyIsAway, IdleElsewhere
<1>4. /\ Entry(e) /\ Away(idle_slots, e.seq_id) /\ active'[e.seq_id] = NoSeq
      /\ Holds(memory'[e.seq_id], e.tokens)
  BY <1>2, <1>3, Untouched, EmptySeq DEF Entry
<1> HIDE DEF e
<1>5. IdleOK(Append(idle_slots, e), memory', active')  BY <1>3, <1>4, IdleAdded
<1>6. IdleOK(idle_slots', memory', active')  BY <1>1, <1>5
<1>7. MemoryOK'  BY <1>2 DEF MemoryOK
<1>8. MarkedOK' /\ StatesOK'  BY DEF MarkedOK, StatesOK
<1> QED  BY <1>2, <1>6, <1>7, <1>8

(* What is recorded for a conversation has a text only if it has tokens.   *)
LEMMA RecordedEntry ==
  ASSUME NEW s \in Slots, NEW q, Shape(q), q.prompt_tokens # <<>>
  PROVE  /\ resident_tokens(q) \in Seq(Tokens)
         /\ Entry([seq_id |-> s, tokens |-> resident_tokens(q), text |-> resident_text(q)])
<1>1. q.prompt_tokens \in Seq(Tokens) /\ q.generated \in Seq(Tokens) /\ q.at \in Nat
  BY DEF Shape
<1> DEFINE full == q.prompt_tokens \o q.generated  k == Smaller(q.at, Len(full))
           np == Len(q.prompt_tokens)  ng == Len(q.generated)
<1>2. np \in Nat \ {0} /\ ng \in Nat  BY <1>1, EmptySeq, LenProperties
<1>3. full \in Seq(Tokens) /\ Len(full) = np + ng  BY <1>1, ConcatProperties
<1>4. k \in 0..Len(full) /\ Len(full) \in Nat
  <2> HIDE DEF full
  <2>1. Len(full) \in Nat  BY <1>3, LenProperties
  <2> QED  BY <1>1, <2>1 DEF Smaller
<1>5. resident_tokens(q) = SubSeq(full, 1, k)  BY DEF resident_tokens
<1> HIDE DEF full, k
<1>6. resident_tokens(q) \in Seq(Tokens) /\ Len(resident_tokens(q)) = k
  BY <1>3, <1>4, <1>5, FrontOf
<1>7. ASSUME resident_text(q) # <<>> PROVE resident_tokens(q) # <<>>
  <2>1. ~(q.at < np \/ q.at > np + ng)  BY <1>7 DEF resident_text
  <2> DEFINE at == q.at
  <2>5. at \in Nat /\ ~(at < np)  BY <1>1, <2>1
  <2>2. at >= np /\ Len(full) >= np
    <3> HIDE DEF at, np, ng
    <3> QED  BY <1>2, <1>3, <2>5
  <2>3. k >= np  BY <2>2 DEF k, Smaller
  <2>4. k # 0  BY <1>2, <1>4, <2>3
  <2> QED  BY <1>6, <2>4, EmptySeq
<1> QED  BY <1>6, <1>7 DEF Entry

LEMMA CleanKeeps ==
  ASSUME CacheInv, NEW s \in Slots, active[s] # NoSeq,
         NEW q, Shape(q), q.prompt_tokens # <<>>,
         NEW m \in Memories, Holds(m, resident_tokens(q)),
         FinishClean(s, q, m), UNCHANGED <<states, mtp>>
  PROVE  CacheInv'
<1> USE DEF CacheInv
<1> DEFINE tokens == resident_tokens(q)
           e == [seq_id |-> s, tokens |-> tokens, text |-> resident_text(q)]
<1>1. /\ memory' = [memory EXCEPT ![s] = m] /\ active' = [active EXCEPT ![s] = NoSeq]
      /\ idle_slots' = Append(idle_slots, e)
  BY DEF FinishClean
<1>2. /\ memory' \in [Slots -> Memories] /\ memory'[s] = m /\ active'[s] = NoSeq
      /\ \A t \in Slots \ {s} : memory'[t] = memory[t] /\ active'[t] = active[t]
      /\ BusyOK'
  BY <1>1, BusyChanges
<1>3. Away(idle_slots, s) /\ IdleOK(idle_slots, memory', active')
  BY <1>2, BusyIsAway, IdleElsewhere
<1>4. tokens \in Seq(Tokens) /\ Entry(e)  BY RecordedEntry
<1>5. /\ Away(idle_slots, e.seq_id) /\ active'[e.seq_id] = NoSeq
      /\ Holds(memory'[e.seq_id], e.tokens)
  BY <1>2, <1>3
<1>6. MarkedOK'
  <2> DEFINE mark == [tokens |-> tokens, state |-> m]
             room == IF Len(checkpoints) >= CtxCheckpoints
                       THEN Tail(checkpoints) ELSE checkpoints
  <2>1. \/ UNCHANGED checkpoints
        \/ CtxCheckpoints > 0 /\ checkpoints' = Append(room, mark)
    BY DEF FinishClean
  <2>2. mark \in Marked /\ Holds(mark.state, mark.tokens)  BY <1>4 DEF Marked
  <2>3. CASE UNCHANGED checkpoints  BY <2>3 DEF MarkedOK
  <2>4. CASE CtxCheckpoints > 0 /\ checkpoints' = Append(room, mark)
    <3>1. checkpoints \in Seq(Marked) /\ Len(checkpoints) \in Nat /\ CtxCheckpoints \in Nat
      BY LenProperties, SlotCacheAssumption DEF MarkedOK
    <3>2. /\ room \in Seq(Marked)
          /\ \A i \in 1..Len(room) : Holds(room[i].state, room[i].tokens)
      <4>1. CASE Len(checkpoints) >= CtxCheckpoints
        <5>1. checkpoints # <<>>  BY <2>4, <3>1, <4>1, EmptySeq
        <5>2. /\ Tail(checkpoints) \in Seq(Marked)
              /\ Len(Tail(checkpoints)) = Len(checkpoints) - 1
              /\ \A i \in 1..Len(Tail(checkpoints)) : Tail(checkpoints)[i] = checkpoints[i + 1]
          BY <3>1, <5>1, HeadTailProperties
        <5>3. \A i \in 1..Len(Tail(checkpoints)) : i + 1 \in 1..Len(checkpoints)
          BY <3>1, <5>2
        <5>4. room = Tail(checkpoints)  BY <4>1
        <5> QED  BY <5>2, <5>3, <5>4 DEF MarkedOK
      <4>2. CASE ~(Len(checkpoints) >= CtxCheckpoints)
        <5>1. room = checkpoints  BY <4>2
        <5> QED  BY <5>1 DEF MarkedOK
      <4> QED  BY <4>1, <4>2
    <3> HIDE DEF room, mark
    <3>3. /\ checkpoints' \in Seq(Marked) /\ Len(checkpoints') = Len(room) + 1
          /\ \A i \in 1..Len(room) : checkpoints'[i] = room[i]
          /\ checkpoints'[Len(room) + 1] = mark
      BY <2>2, <2>4, <3>2, AppendProperties
    <3>4. Len(room) \in Nat  BY <3>2, LenProperties
    <3>5. \A i \in 1..Len(checkpoints') : i \in 1..Len(room) \/ i = Len(room) + 1
      BY <3>3, <3>4
    <3>6. \A i \in 1..Len(checkpoints') :
            Holds(checkpoints'[i].state, checkpoints'[i].tokens)
      BY <2>2, <3>2, <3>3, <3>5
    <3> QED  BY <3>3, <3>6 DEF MarkedOK
  <2> QED  BY <2>1, <2>3, <2>4
<1> HIDE DEF e
<1>7. IdleOK(Append(idle_slots, e), memory', active')  BY <1>3, <1>4, <1>5, IdleAdded
<1>8. IdleOK(idle_slots', memory', active')  BY <1>1, <1>7
<1>9. MemoryOK' /\ StatesOK'  BY <1>2 DEF MemoryOK, StatesOK
<1> QED  BY <1>2, <1>6, <1>8, <1>9

-----------------------------------------------------------------------------
(* The next token. *)

(* A sequence about to be sampled from: all it said is in its memory.      *)
Spoken(q) == q.prompt_tokens \o q.generated

AtEnd(q) ==
  /\ Shape(q) /\ q.prompt_tokens # <<>>
  /\ q.at = Len(q.prompt_tokens) + Len(q.generated)

LEMMA SpokenIs ==
  ASSUME NEW q, AtEnd(q)
  PROVE  /\ Spoken(q) \in Seq(Tokens) /\ Len(Spoken(q)) = q.at /\ q.at \in Nat
         /\ Len(q.prompt_tokens) \in Nat /\ Len(q.generated) \in Nat
         /\ resident_tokens(q) = Spoken(q)
<1>1. q.prompt_tokens \in Seq(Tokens) /\ q.generated \in Seq(Tokens) /\ q.at \in Nat
  BY DEF AtEnd, Shape
<1>2. Spoken(q) \in Seq(Tokens) /\ Len(Spoken(q)) = q.at
  BY <1>1, ConcatProperties DEF AtEnd, Spoken
<1>3. Smaller(q.at, Len(Spoken(q))) = q.at  BY <1>1, <1>2 DEF Smaller
<1>4. resident_tokens(q) = SubSeq(Spoken(q), 1, Len(Spoken(q)))
  BY <1>2, <1>3 DEF resident_tokens, Spoken
<1>5. resident_tokens(q) = Spoken(q)  BY <1>2, <1>4, SubSeqFull
<1> QED  BY <1>1, <1>2, <1>5, LenProperties

(* ... and once it has said more: the memory holds what it did.            *)
LEMMA SaidMore ==
  ASSUME NEW q, AtEnd(q), NEW t \in Seq(Tokens), NEW g, Shape(g),
         g.prompt_tokens = q.prompt_tokens, g.generated = q.generated \o t, g.at = q.at
  PROVE  /\ resident_tokens(g) = Spoken(q) /\ InMemory(g) = Spoken(q)
<1>1. q.prompt_tokens \in Seq(Tokens) /\ q.generated \in Seq(Tokens)
  BY DEF AtEnd, Shape
<1>2. Spoken(q) \in Seq(Tokens) /\ Len(Spoken(q)) = q.at /\ q.at \in Nat
  BY SpokenIs
<1>3. g.prompt_tokens \o g.generated = Spoken(q) \o t
  <2>1. (q.prompt_tokens \o q.generated) \o t = q.prompt_tokens \o (q.generated \o t)
    <3> DEFINE a == q.prompt_tokens  b == q.generated
    <3>1. a \in Seq(Tokens) /\ b \in Seq(Tokens)  BY <1>1
    <3> HIDE DEF a, b
    <3>2. (a \o b) \o t = a \o (b \o t)  BY <3>1, Regrouped
    <3> QED  BY <3>2 DEF a, b
  <2> QED  BY <2>1 DEF Spoken
<1>4. Len(Spoken(q) \o t) = q.at + Len(t) /\ Len(t) \in Nat
  <2>1. Len(Spoken(q) \o t) = Len(Spoken(q)) + Len(t)  BY <1>2, ConcatProperties
  <2> QED  BY <1>2, <2>1, LenProperties
<1>5. Smaller(q.at, Len(Spoken(q) \o t)) = q.at  BY <1>2, <1>4 DEF Smaller
<1>6. q.at \in 0..Len(Spoken(q))  BY <1>2
<1>7. SubSeq(Spoken(q) \o t, 1, q.at) = SubSeq(Spoken(q), 1, q.at)
  BY <1>2, <1>6, FrontOfConcat
<1>8. SubSeq(Spoken(q), 1, q.at) = Spoken(q)
  <2>1. SubSeq(Spoken(q), 1, Len(Spoken(q))) = Spoken(q)  BY <1>2, SubSeqFull
  <2> QED  BY <1>2, <2>1
<1>9. resident_tokens(g) = SubSeq(Spoken(q) \o t, 1, q.at)
  BY <1>3, <1>5 DEF resident_tokens
<1>10. InMemory(g) = SubSeq(Spoken(q) \o t, 1, q.at)
  BY <1>3 DEF InMemory
<1> QED  BY <1>7, <1>8, <1>9, <1>10

LEMMA EmitKeeps ==
  ASSUME CacheInv, NEW s \in Slots, active[s] # NoSeq,
         NEW q, AtEnd(q), NEW m \in Memories, Holds(m, Spoken(q)),
         NEW trim_kv \in BOOLEAN,
         Emit(s, q, m, trim_kv), UNCHANGED <<states, mtp>>
  PROVE  CacheInv'
<1> DEFINE held == IF trim_kv THEN Cut(m, q.at) ELSE m
<1>1. /\ Spoken(q) \in Seq(Tokens) /\ Len(Spoken(q)) = q.at /\ q.at \in Nat
      /\ Len(q.prompt_tokens) \in Nat /\ Len(q.generated) \in Nat
      /\ resident_tokens(q) = Spoken(q)
  BY SpokenIs
<1>2. held \in Memories /\ Holds(held, Spoken(q))
  <2>1. CanCut(m, q.at)
    <3>1. Len(m.rec) = q.at  BY <1>1 DEF Holds
    <3> QED  BY <1>1, <3>1 DEF CanCut
  <2>2. q.at \in 0..Len(Spoken(q))  BY <1>1
  <2>3. SubSeq(Spoken(q), 1, Len(Spoken(q))) = Spoken(q)  BY <1>1, SubSeqFull
  <2>4. Cut(m, q.at) \in Memories /\ Holds(Cut(m, q.at), Spoken(q))
    BY <1>1, <2>1, <2>2, <2>3, CutHolds
  <2> QED  BY <2>4
<1>3. Shape(q) /\ q.prompt_tokens # <<>>  BY DEF AtEnd
<1> DEFINE next(t) == [Heard(q, <<t>>) EXCEPT !.stage = "answering"]
<1>4. \/ FinishClean(s, q, held)
      \/ FinishWiped(s) /\ UNCHANGED checkpoints
      \/ \E t \in Vocab :
           \/ FinishClean(s, next(t), held)
           \/ /\ active' = [active EXCEPT ![s] = next(t)]
              /\ memory' = [memory EXCEPT ![s] = m]
              /\ UNCHANGED <<idle_slots, checkpoints>>
  <2> HIDE DEF held
  <2>1. held = IF trim_kv THEN Cut(m, q.at) ELSE m  BY DEF held
  <2> QED  BY <2>1, Zenon DEF Emit
<1> HIDE DEF held
<1>5. CASE FinishClean(s, q, held)  BY <1>1, <1>2, <1>3, <1>5, CleanKeeps
<1>6. CASE FinishWiped(s) /\ UNCHANGED checkpoints  BY <1>6, WipedKeeps
<1>7. ASSUME NEW t \in Vocab
      PROVE  /\ Shape(next(t)) /\ next(t).prompt_tokens = q.prompt_tokens
             /\ next(t).stage = "answering" /\ next(t).at = q.at
             /\ next(t).generated = q.generated \o <<t>>
             /\ <<t>> \in Seq(Tokens)
             /\ resident_tokens(next(t)) = Spoken(q) /\ InMemory(next(t)) = Spoken(q)
  <2>1. <<t>> \in Seq(Tokens)  BY DEF Tokens
  <2> DEFINE h == Heard(q, <<t>>)
  <2>2. /\ Shape(h) /\ h.generated = q.generated \o <<t>>
        /\ h.prompt_tokens = q.prompt_tokens /\ h.at = q.at
    BY <1>3, <2>1, HeardIs
  <2> HIDE DEF h
  <2> DEFINE g == [h EXCEPT !.stage = "answering"]
  <2>3. /\ Shape(g) /\ g.stage = "answering" /\ g.generated = q.generated \o <<t>>
        /\ g.prompt_tokens = q.prompt_tokens /\ g.at = q.at
    BY <2>2, StagedIs
  <2> HIDE DEF g
  <2>4. resident_tokens(g) = Spoken(q) /\ InMemory(g) = Spoken(q)
    BY <2>1, <2>3, SaidMore
  <2>5. next(t) = g  BY DEF g, h
  <2> HIDE DEF next
  <2> QED  BY <2>1, <2>3, <2>4, <2>5
<1> HIDE DEF next
<1>8. ASSUME NEW t \in Vocab, FinishClean(s, next(t), held)
      PROVE  CacheInv'
  BY <1>2, <1>3, <1>7, <1>8, CleanKeeps
<1>9. ASSUME NEW t \in Vocab, active' = [active EXCEPT ![s] = next(t)],
             memory' = [memory EXCEPT ![s] = m], UNCHANGED <<idle_slots, checkpoints>>
      PROVE  CacheInv'
  <2> USE DEF CacheInv
  <2>1. SeqOK(next(t))
    <3> DEFINE g == next(t)
    <3>1. /\ Shape(g) /\ g.stage = "answering" /\ g.at = q.at
          /\ g.generated = q.generated \o <<t>> /\ g.prompt_tokens = q.prompt_tokens
      BY <1>7
    <3>2. /\ Len(g.generated) = Len(q.generated) + 1 /\ g.generated # <<>>
      <4>1. q.generated \in Seq(Tokens) /\ <<t>> \in Seq(Tokens)  BY <1>3, <1>7 DEF Shape
      <4>2. /\ Len(q.generated \o <<t>>) = Len(q.generated) + Len(<<t>>)
            /\ Len(<<t>>) = 1
        BY <4>1, ConcatProperties
      <4>3. Len(q.generated \o <<t>>) = Len(q.generated) + 1  BY <4>2
      <4> HIDE DEF g
      <4>4. g.generated # <<>>  BY <1>1, <3>1, <4>3, EmptySeq
      <4> QED  BY <3>1, <4>3, <4>4
    <3>3. g.at = Len(g.prompt_tokens) + Len(g.generated) - 1
      <4>1. q.at = Len(q.prompt_tokens) + Len(q.generated)  BY DEF AtEnd
      <4> DEFINE a == Len(q.prompt_tokens)  b == Len(q.generated)
      <4>2. /\ a \in Nat /\ b \in Nat /\ g.at = a + b /\ Len(g.generated) = b + 1
            /\ Len(g.prompt_tokens) = a
        BY <1>1, <3>1, <3>2, <4>1
      <4> HIDE DEF g, a, b
      <4> QED  BY <4>2
    <3> HIDE DEF g
    <3>4. SeqOK(g)  BY <1>3, <3>1, <3>2, <3>3 DEF SeqOK, Read
    <3> QED  BY <3>4 DEF g
  <2>2. Holds(m, InMemory(next(t)))  BY <1>7
  <2>3. /\ memory' \in [Slots -> Memories] /\ BusyOK'
        /\ \A u \in Slots \ {s} : memory'[u] = memory[u] /\ active'[u] = active[u]
    BY <1>9, <2>1, <2>2, BusyChanges
  <2>4. IdleOK(idle_slots, memory', active')
    BY <2>3, BusyIsAway, IdleElsewhere
  <2>5. IdleOK(idle_slots', memory', active')  BY <1>9, <2>4
  <2>6. MemoryOK' /\ StatesOK' /\ MarkedOK'
    BY <1>9, <2>3 DEF MemoryOK, StatesOK, MarkedOK
  <2> QED  BY <2>3, <2>5, <2>6
<1> QED  BY <1>4, <1>5, <1>6, <1>8, <1>9

-----------------------------------------------------------------------------
(* Step 1. *)

LEMMA StartKeeps ==
  ASSUME CacheInv, NEW i \in 1..Len(idle_slots), NEW p \in Prompts,
         NEW tokens \in Seq(Tokens), tokens # <<>>,
         NEW reuse \in 0..(Len(tokens) - 1), reuse <= Len(idle_slots[i].tokens),
         SubSeq(idle_slots[i].tokens, 1, reuse) = SubSeq(tokens, 1, reuse),
         NEW cache_prompt \in BOOLEAN, Start(i, p, tokens, reuse, cache_prompt)
  PROVE  CacheInv'
<1> USE DEF CacheInv
<1> DEFINE e == idle_slots[i]  s == e.seq_id  base == e.tokens
           keep == Hybrid /\ cache_prompt
           ways == Setups(s, memory[s], tokens, reuse, keep)
           blank == [seq_id |-> s, tokens |-> <<>>, text |-> <<>>]
           q(w) == [stage |-> Read, text |-> p, prompt_tokens |-> tokens,
                    generated |-> <<>>, pieces |-> <<>>, half |-> FALSE,
                    at |-> w.at, may_fall_back |-> w.at > 0 /\ ~w.fell_back,
                    keep_states |-> keep,
                    max_tokens |-> Smaller(MaxTokens, PerSeqCtx - Len(tokens))]
<1>0. Len(tokens) \in Nat \ {0}  BY EmptySeq
<1>1. /\ s \in Slots /\ base \in Seq(Tokens) /\ Holds(memory[s], base)
      /\ active[s] = NoSeq /\ memory[s] \in Memories
  BY DEF IdleOK, Entry, MemoryOK
<1>2. /\ states' = [states EXCEPT ![s] = {c \in @ : IsPrefix(c.tokens, tokens)}]
      /\ UNCHANGED <<checkpoints, mtp>>
  BY DEF Start
<1>3. \/ /\ idle_slots' = Append(RemoveAt(idle_slots, i), blank)
         /\ memory' = [memory EXCEPT ![s] = NoMemory]
         /\ UNCHANGED active
      \/ \E w \in ways : /\ idle_slots' = RemoveAt(idle_slots, i)
                         /\ memory' = [memory EXCEPT ![s] = w.m]
                         /\ active' = [active EXCEPT ![s] = q(w)]
  BY DEF Start
<1>4. StatesOK' /\ MarkedOK'
  <2>1. states' \in [Slots -> SUBSET Kept]  BY <1>1, <1>2 DEF StatesOK
  <2>2. \A t \in Slots : states'[t] \subseteq states[t]  BY <1>1, <1>2 DEF StatesOK
  <2> QED  BY <1>2, <2>1, <2>2 DEF StatesOK, MarkedOK
<1>5. CASE /\ idle_slots' = Append(RemoveAt(idle_slots, i), blank)
           /\ memory' = [memory EXCEPT ![s] = NoMemory]
           /\ UNCHANGED active
  <2>1. active' = [active EXCEPT ![s] = NoSeq]  BY <1>1, <1>5 DEF BusyOK
  <2>2. /\ memory' \in [Slots -> Memories] /\ memory'[s] = NoMemory /\ active'[s] = NoSeq
        /\ \A t \in Slots \ {s} : memory'[t] = memory[t] /\ active'[t] = active[t]
        /\ BusyOK'
    <3> HIDE DEF s
    <3> QED  BY <1>1, <1>5, <2>1, BusyChanges, Untouched
  <2>3. IdleOK(RemoveAt(idle_slots, i), memory', active') /\ Away(RemoveAt(idle_slots, i), s)
    <3>1. \A t \in Slots \ {idle_slots[i].seq_id} :
            memory'[t] = memory[t] /\ active'[t] = active[t]
      BY <2>2
    <3> QED  BY <3>1, IdleTaken
  <2>4. /\ Entry(blank) /\ Away(RemoveAt(idle_slots, i), blank.seq_id)
        /\ active'[blank.seq_id] = NoSeq /\ Holds(memory'[blank.seq_id], blank.tokens)
    <3> HIDE DEF s
    <3> QED  BY <1>1, <2>2, <2>3, Untouched, EmptySeq DEF Entry
  <2> HIDE DEF blank
  <2>5. IdleOK(idle_slots', memory', active')  BY <1>5, <2>3, <2>4, IdleAdded
  <2>6. MemoryOK'  BY <1>2, <2>2 DEF MemoryOK
  <2> QED  BY <1>4, <2>2, <2>5, <2>6
<1>6. ASSUME NEW w \in ways, idle_slots' = RemoveAt(idle_slots, i),
             memory' = [memory EXCEPT ![s] = w.m], active' = [active EXCEPT ![s] = q(w)]
      PROVE  CacheInv'
  <2>1. /\ w.m \in Memories /\ w.at \in 0..(Len(tokens) - 1)
        /\ Holds(w.m, SubSeq(tokens, 1, w.at)) /\ Len(tokens) < PerSeqCtx
    <3> HIDE DEF s, base, keep
    <3>1. reuse <= Len(base) /\ SubSeq(base, 1, reuse) = SubSeq(tokens, 1, reuse)
      BY DEF base
    <3> QED  BY <1>1, <3>1, SetupHolds
  <2>2. SeqOK(q(w))
    <3> DEFINE X == {p, <<>>, FALSE, keep, w.at > 0 /\ ~w.fell_back}
               k == Smaller(MaxTokens, PerSeqCtx - Len(tokens))
    <3>1. k \in Nat  BY <1>0, <2>1, SlotCacheAssumption DEF Smaller
    <3>2. w.at \in Nat /\ w.at < Len(tokens)  BY <1>0, <2>1
    <3>3. /\ p \in X /\ <<>> \in X /\ FALSE \in X /\ keep \in X
          /\ (w.at > 0 /\ ~w.fell_back) \in X
      BY Zenon
    <3>4. <<>> \in Seq(Tokens)  BY EmptySeq
    <3> DEFINE mf == w.at > 0 /\ ~w.fell_back  at == w.at
    <3> HIDE DEF X, k, keep, mf, at
    <3>5. mf \in X /\ at \in Nat /\ at < Len(tokens)  BY <3>2, <3>3 DEF mf, at
    <3> DEFINE g == [stage |-> Read, text |-> p, prompt_tokens |-> tokens,
                    generated |-> <<>>, pieces |-> <<>>, half |-> FALSE,
                    at |-> at, may_fall_back |-> mf,
                    keep_states |-> keep, max_tokens |-> k]
    <3>6. g \in [stage : {Read, "answering"}, text : X, prompt_tokens : Seq(Tokens),
                generated : Seq(Tokens), pieces : X, half : X, at : Nat,
                may_fall_back : X, keep_states : X, max_tokens : Nat]
      BY <3>1, <3>3, <3>4, <3>5
    <3>7. Shape(g)
      <4> HIDE DEF g
      <4> QED  BY <3>6 DEF Shape
    <3>8. SeqOK(g)
      <4>1. /\ g.stage = Read /\ g.generated = <<>> /\ g.at < Len(g.prompt_tokens)
        BY <3>5
      <4>2. Read # "answering"  BY DEF Read
      <4> HIDE DEF g
      <4> QED  BY <3>7, <4>1, <4>2 DEF SeqOK
    <3>9. q(w) = g  BY DEF at, mf, k
    <3> QED  BY <3>8, <3>9
  <2>3. InMemory(q(w)) = SubSeq(tokens, 1, w.at)
    <3>1. tokens \o <<>> = tokens  BY ConcatEmptySeq
    <3>2. q(w).prompt_tokens = tokens /\ q(w).generated = <<>> /\ q(w).at = w.at
      OBVIOUS
    <3> HIDE DEF q
    <3> QED  BY <3>1, <3>2 DEF InMemory
  <2>4. Holds(w.m, InMemory(q(w)))  BY <2>1, <2>3
  <2> HIDE DEF q, ways
  <2>5. /\ memory' \in [Slots -> Memories]
        /\ \A t \in Slots \ {s} : memory'[t] = memory[t] /\ active'[t] = active[t]
        /\ BusyOK'
    <3> HIDE DEF s
    <3> QED  BY <1>1, <1>6, <2>1, <2>2, <2>4, BusyChanges
  <2>6. IdleOK(RemoveAt(idle_slots, i), memory', active')
    BY <2>5, IdleTaken
  <2>7. MemoryOK' /\ IdleOK(idle_slots', memory', active')
    BY <1>2, <1>6, <2>5, <2>6 DEF MemoryOK
  <2> QED  BY <1>4, <2>5, <2>7
<1> QED  BY <1>3, <1>5, <1>6

(* What is shared with a prompt, less its last token.                      *)
LEMMA ReuseIs ==
  ASSUME NEW tokens \in Seq(Tokens), tokens # <<>>, NEW base \in Seq(Tokens),
         NEW n \in 0..Len(base), n <= Len(tokens),
         SubSeq(base, 1, n) = SubSeq(tokens, 1, n)
  PROVE  /\ Reuse(n, tokens) \in 0..(Len(tokens) - 1) /\ Reuse(n, tokens) <= Len(base)
         /\ SubSeq(base, 1, Reuse(n, tokens)) = SubSeq(tokens, 1, Reuse(n, tokens))
<1>1. Len(tokens) \in Nat \ {0} /\ Len(base) \in Nat  BY EmptySeq, LenProperties
<1> DEFINE k == Reuse(n, tokens)
<1>2. k \in 0..n /\ k \in 0..(Len(tokens) - 1) /\ k <= Len(base)
  BY <1>1 DEF Reuse, Smaller
<1> HIDE DEF k
<1>3. n \in 0..Len(tokens)  BY <1>1
<1>4. /\ SubSeq(SubSeq(base, 1, n), 1, k) = SubSeq(base, 1, k)
      /\ SubSeq(SubSeq(tokens, 1, n), 1, k) = SubSeq(tokens, 1, k)
  BY <1>2, <1>3, FrontOfFront
<1>5. SubSeq(base, 1, k) = SubSeq(tokens, 1, k)  BY <1>4
<1> QED  BY <1>2, <1>5 DEF k

LEMMA AdmitByTextKeeps ==
  ASSUME CacheInv, NEW p \in Prompts, AdmitByText(p)
  PROVE  CacheInv'
<1>1. PICK i \in text_prefix_match(p) :
        LET base   == idle_slots[i].tokens
            tokens == base \o Tokenize[SubSeq(p, Len(idle_slots[i].text) + 1, Len(p))]
        IN  Start(i, p, tokens, Reuse(Len(base), tokens), TRUE)
  BY DEF AdmitByText
<1>2. IdleOK(idle_slots, memory, active)  BY DEF CacheInv
<1>3. PICK S : idle_slots \in Seq(S)  BY <1>2 DEF IdleOK
<1>4. /\ i \in 1..Len(idle_slots) /\ idle_slots[i].text \in Prefixes(p)
      /\ idle_slots[i].text # <<>>
  BY <1>3, LenProperties DEF text_prefix_match
<1>5. PICK l \in 0..Len(p) : idle_slots[i].text = SubSeq(p, 1, l)
  BY <1>4 DEF Prefixes
<1>6. p \in Seq(Range(p)) /\ Len(p) \in Nat  BY SlotCacheAssumption, LenProperties
<1>7. Len(idle_slots[i].text) = l  BY <1>5, <1>6, FrontOf
<1> DEFINE base == idle_slots[i].tokens
           rest == Tokenize[SubSeq(p, l + 1, Len(p))]
           tokens == base \o rest
<1>8. Start(i, p, tokens, Reuse(Len(base), tokens), TRUE)  BY <1>1, <1>7
<1>9. base \in Seq(Tokens) /\ base # <<>>  BY <1>2, <1>4 DEF IdleOK, Entry
<1>10. rest \in Seq(Tokens)
  <2>1. l + 1 \in 1..(Len(p) + 1)  BY <1>6
  <2>2. rest \in Seq(Vocab)  BY <2>1, SlotCacheAssumption
  <2> QED  BY <2>2, SeqMonotonic DEF Tokens
<1> HIDE DEF base, rest
<1>11. /\ tokens \in Seq(Tokens) /\ Len(tokens) = Len(base) + Len(rest)
       /\ Len(base) \in Nat \ {0} /\ Len(rest) \in Nat
  BY <1>9, <1>10, ConcatProperties, EmptySeq, LenProperties
<1>12. SubSeq(base, 1, Len(base)) = SubSeq(tokens, 1, Len(base))
  <2>1. Len(base) \in 0..Len(base)  BY <1>11
  <2> QED  BY <1>9, <1>10, <2>1, FrontOfConcat
<1> HIDE DEF tokens
<1>13. tokens # <<>>  BY <1>11, EmptySeq
<1>14. Len(base) \in 0..Len(base) /\ Len(base) <= Len(tokens)  BY <1>11
<1> DEFINE reuse == Reuse(Len(base), tokens)
<1>15. /\ reuse \in 0..(Len(tokens) - 1) /\ reuse <= Len(base)
       /\ SubSeq(base, 1, reuse) = SubSeq(tokens, 1, reuse)
  BY <1>9, <1>11, <1>12, <1>13, <1>14, ReuseIs
<1> HIDE DEF reuse
<1>16. Start(i, p, tokens, reuse, TRUE)  BY <1>8 DEF reuse
<1>17. /\ reuse <= Len(idle_slots[i].tokens)
       /\ SubSeq(idle_slots[i].tokens, 1, reuse) = SubSeq(tokens, 1, reuse)
  BY <1>15 DEF base
<1> QED  BY <1>4, <1>11, <1>13, <1>15, <1>16, <1>17, StartKeeps

LEMMA AdmitByTokensKeeps ==
  ASSUME CacheInv, NEW p \in Prompts, NEW cache_prompt \in BOOLEAN,
         AdmitByTokens(p, cache_prompt)
  PROVE  CacheInv'
<1> DEFINE tokens == <<Bos>> \o Tokenize[p]
           i == PickSlot(tokens)
           base == idle_slots[i].tokens
           shared == common_prefix_len(base, tokens)
           reuse == IF cache_prompt THEN Reuse(shared, tokens) ELSE 0
<1>1. idle_slots # <<>> /\ Start(i, p, tokens, reuse, cache_prompt)
  BY DEF AdmitByTokens
<1>2. IdleOK(idle_slots, memory, active)  BY DEF CacheInv
<1>3. Tokenize[p] \in Seq(Tokens)
  <2>1. p \in Seq(Range(p)) /\ Len(p) \in Nat  BY SlotCacheAssumption, LenProperties
  <2>2. 1 \in 1..(Len(p) + 1) /\ SubSeq(p, 1, Len(p)) = p  BY <2>1, SubSeqFull
  <2>3. Tokenize[SubSeq(p, 1, Len(p))] \in Seq(Vocab)  BY <2>2, SlotCacheAssumption
  <2> QED  BY <2>2, <2>3, SeqMonotonic DEF Tokens
<1>4. <<Bos>> \in Seq(Tokens) /\ Len(<<Bos>>) = 1  BY DEF Tokens
<1>5. tokens \in Seq(Tokens) /\ Len(tokens) = 1 + Len(Tokenize[p]) /\ Len(Tokenize[p]) \in Nat
  BY <1>3, <1>4, ConcatProperties, LenProperties
<1> HIDE DEF tokens
<1>6. tokens # <<>> /\ Len(tokens) \in Nat \ {0}  BY <1>5, EmptySeq
<1>7. i \in 1..Len(idle_slots)  BY <1>1, <1>2, <1>5, PickedIsIdle
<1> HIDE DEF i
<1>8. base \in Seq(Tokens)  BY <1>2, <1>7 DEF IdleOK, Entry
<1> HIDE DEF base
<1>9. /\ shared \in 0..Len(base) /\ shared \in 0..Len(tokens)
      /\ SubSeq(base, 1, shared) = SubSeq(tokens, 1, shared)
  BY <1>5, <1>8, CommonPrefix
<1> HIDE DEF shared
<1>10. /\ reuse \in 0..(Len(tokens) - 1) /\ reuse <= Len(base)
       /\ SubSeq(base, 1, reuse) = SubSeq(tokens, 1, reuse)
  <2>1. CASE cache_prompt
    <3>1. shared <= Len(tokens)  BY <1>6, <1>9
    <3>2. reuse = Reuse(shared, tokens)  BY <2>1
    <3> HIDE DEF reuse
    <3> QED  BY <1>5, <1>6, <1>8, <1>9, <3>1, <3>2, ReuseIs
  <2>2. CASE ~cache_prompt
    <3>1. reuse = 0 /\ Len(base) \in Nat  BY <1>8, <2>2, LenProperties
    <3>2. SubSeq(base, 1, 0) = <<>> /\ SubSeq(tokens, 1, 0) = <<>>  BY SubSeqEmpty
    <3> HIDE DEF reuse
    <3> QED  BY <1>6, <3>1, <3>2
  <2> QED  BY <2>1, <2>2
<1> HIDE DEF reuse
<1>11. /\ reuse <= Len(idle_slots[i].tokens)
       /\ SubSeq(idle_slots[i].tokens, 1, reuse) = SubSeq(tokens, 1, reuse)
  BY <1>10 DEF base
<1> QED  BY <1>1, <1>5, <1>6, <1>7, <1>10, <1>11, StartKeeps

-----------------------------------------------------------------------------
(* Reading. *)

(* Of a prompt being read, the memory holds as much as was read.           *)
LEMMA ReadingIs ==
  ASSUME CacheInv, NEW s \in Slots, active[s] # NoSeq, active[s].stage = Read
  PROVE  /\ Shape(active[s]) /\ memory[s] \in Memories
         /\ active[s].prompt_tokens \in Seq(Tokens) /\ active[s].prompt_tokens # <<>>
         /\ active[s].generated = <<>>
         /\ active[s].at \in 0..(Len(active[s].prompt_tokens) - 1)
         /\ Len(active[s].prompt_tokens) \in Nat \ {0}
         /\ Holds(memory[s], SubSeq(active[s].prompt_tokens, 1, active[s].at))
<1> DEFINE q == active[s]
<1>1. SeqOK(q) /\ Holds(memory[s], InMemory(q)) /\ memory[s] \in Memories
  BY DEF CacheInv, BusyOK, MemoryOK
<1>2. Shape(q) /\ q.generated = <<>> /\ q.at < Len(q.prompt_tokens)  BY <1>1 DEF SeqOK
<1>3. q.prompt_tokens \in Seq(Tokens) /\ q.at \in Nat  BY <1>2 DEF Shape
<1>4. Len(q.prompt_tokens) \in Nat  BY <1>3, LenProperties
<1> DEFINE a == q.prompt_tokens  at == q.at
<1>5. at \in 0..(Len(a) - 1) /\ Len(a) \in Nat \ {0}
  <2>1. at \in Nat /\ Len(a) \in Nat /\ at < Len(a)  BY <1>2, <1>3, <1>4
  <2> HIDE DEF at, a
  <2> QED  BY <2>1
<1>6. a # <<>>
  <2>1. a \in Seq(Tokens)  BY <1>3
  <2> HIDE DEF a
  <2> QED  BY <1>5, <2>1, EmptySeq
<1>7. InMemory(q) = SubSeq(a, 1, at)
  <2>1. a \o <<>> = a  BY <1>3, ConcatEmptySeq
  <2> QED  BY <1>2, <2>1 DEF InMemory
<1> QED  BY <1>1, <1>2, <1>3, <1>5, <1>6, <1>7

LEMMA ReaderLeavesKeeps ==
  ASSUME CacheInv, NEW s \in Slots, ReaderLeaves(s) PROVE CacheInv'
  BY WipedKeeps DEF ReaderLeaves

LEMMA ReadFailsKeeps ==
  ASSUME CacheInv, NEW s \in Slots, ReadFails(s) PROVE CacheInv'
<1> DEFINE q == active[s]
<1>1. active[s] # NoSeq /\ q.stage = Read /\ UNCHANGED <<checkpoints, states, mtp>>
  BY DEF ReadFails
<1>2. CASE q.may_fall_back
  <2>1. PICK r \in FallBack(memory[s], q.prompt_tokens) :
          /\ memory' = [memory EXCEPT ![s] = r.m]
          /\ active' = [active EXCEPT ![s].at = r.at, ![s].may_fall_back = FALSE]
    BY <1>2 DEF ReadFails
  <2>2. /\ Shape(q) /\ q.prompt_tokens \in Seq(Tokens) /\ q.prompt_tokens # <<>>
        /\ q.generated = <<>> /\ Len(q.prompt_tokens) \in Nat \ {0}
    BY <1>1, ReadingIs
  <2>3. /\ r.m \in Memories /\ r.at \in 0..(Len(q.prompt_tokens) - 1)
        /\ Holds(r.m, SubSeq(q.prompt_tokens, 1, r.at))
    BY <2>2, FallBackHolds DEF CacheInv
  <2> DEFINE g == [q EXCEPT !.at = r.at, !.may_fall_back = FALSE]
  <2>4. active' = [active EXCEPT ![s] = g]
    <3>1. active' = [[active EXCEPT ![s].at = r.at] EXCEPT ![s].may_fall_back = FALSE]
      BY <2>1
    <3> QED  BY <3>1 DEF CacheInv, BusyOK
  <2>5. /\ Shape(g) /\ g.stage = Read /\ g.generated = <<>>
        /\ g.prompt_tokens = q.prompt_tokens /\ g.at = r.at
    <3>1. r.at \in Nat  BY <2>2, <2>3
    <3> QED  BY <1>1, <2>2, <3>1, FellBackIs
  <2> HIDE DEF g
  <2>6. InMemory(g) = SubSeq(q.prompt_tokens, 1, r.at)
    <3>1. q.prompt_tokens \o <<>> = q.prompt_tokens  BY <2>2, ConcatEmptySeq
    <3> QED  BY <2>5, <3>1 DEF InMemory
  <2>7. SeqOK(g) /\ Holds(r.m, InMemory(g))
    <3>1. r.at < Len(q.prompt_tokens)  BY <2>2, <2>3
    <3>2. g.at < Len(g.prompt_tokens)  BY <2>5, <3>1
    <3> QED  BY <2>3, <2>5, <2>6, <3>2 DEF SeqOK, Read
  <2>8. /\ memory' \in [Slots -> Memories] /\ BusyOK'
        /\ \A t \in Slots \ {s} : memory'[t] = memory[t] /\ active'[t] = active[t]
    BY <2>1, <2>3, <2>4, <2>7, BusyChanges DEF CacheInv
  <2>9. UNCHANGED idle_slots  BY <1>2 DEF ReadFails
  <2>10. IdleOK(idle_slots, memory', active')
    BY <1>1, <2>8, BusyIsAway, IdleElsewhere DEF CacheInv
  <2>11. MemoryOK' /\ StatesOK' /\ MarkedOK'
    BY <1>1, <2>8 DEF CacheInv, MemoryOK, StatesOK, MarkedOK
  <2> QED  BY <2>8, <2>9, <2>10, <2>11 DEF CacheInv
<1>3. CASE ~q.may_fall_back
  <2>1. FinishWiped(s)  BY <1>3 DEF ReadFails
  <2> QED  BY <1>1, <2>1, WipedKeeps
<1> QED  BY <1>2, <1>3

LEMMA ReadPartKeeps ==
  ASSUME CacheInv, NEW s \in Slots, ReadPart(s) PROVE CacheInv'
<1> DEFINE q == active[s]  a == q.prompt_tokens
<1>1. active[s] # NoSeq /\ q.stage = Read /\ UNCHANGED mtp  BY DEF ReadPart
<1>2. PICK to \in ReadsTo(q) :
        LET m == Decoded(memory[s], SubSeq(a, q.at + 1, to))
        IN  IF to < Len(a)
              THEN /\ active' = [active EXCEPT ![s].at = to]
                   /\ memory' = [memory EXCEPT ![s] = m]
                   /\ \/ UNCHANGED states
                      \/ KeepState(s, SubSeq(a, 1, to), m)
                   /\ UNCHANGED <<idle_slots, checkpoints>>
              ELSE Emit(s, [q EXCEPT !.at = to], m, FALSE) /\ UNCHANGED states
  BY DEF ReadPart
<1>3. /\ Shape(q) /\ memory[s] \in Memories /\ a \in Seq(Tokens) /\ a # <<>>
      /\ q.generated = <<>> /\ q.at \in 0..(Len(a) - 1) /\ Len(a) \in Nat \ {0}
      /\ Holds(memory[s], SubSeq(a, 1, q.at))
  BY <1>1, ReadingIs
<1>4. to \in (q.at + 1)..Len(a)  BY <1>2 DEF ReadsTo
<1> DEFINE m == Decoded(memory[s], SubSeq(a, q.at + 1, to))
<1>5. to \in Nat /\ to \in 0..Len(a) /\ to \in q.at..Len(a) /\ q.at \in 0..Len(a)
  BY <1>3, <1>4
<1>6. m \in Memories /\ Holds(m, SubSeq(a, 1, to))
  <2>1. /\ SubSeq(a, 1, q.at) \o SubSeq(a, q.at + 1, to) = SubSeq(a, 1, to)
        /\ SubSeq(a, q.at + 1, to) \in Seq(Tokens)
    BY <1>3, <1>5, ReadOn
  <2>2. SubSeq(a, 1, q.at) \in Seq(Tokens)  BY <1>3, <1>5, FrontOf
  <2>3. mtp \in Nat  BY DEF CacheInv, MemoryOK
  <2> QED  BY <1>3, <2>1, <2>2, <2>3, DecodedHolds
<1> DEFINE g == [q EXCEPT !.at = to]
<1>7. /\ Shape(g) /\ g.stage = Read /\ g.generated = <<>>
      /\ g.prompt_tokens = a /\ g.at = to
  BY <1>1, <1>3, <1>5, MovedIs
<1>8. a \o <<>> = a  BY <1>3, ConcatEmptySeq
<1>9. CASE to < Len(a)
  <2>1. /\ active' = [active EXCEPT ![s].at = to] /\ memory' = [memory EXCEPT ![s] = m]
        /\ UNCHANGED states \/ KeepState(s, SubSeq(a, 1, to), m)
        /\ UNCHANGED <<idle_slots, checkpoints>>
    BY <1>2, <1>9
  <2>2. active' = [active EXCEPT ![s] = g]  BY <2>1
  <2> HIDE DEF g, m
  <2>3. InMemory(g) = SubSeq(a, 1, to)  BY <1>7, <1>8 DEF InMemory
  <2>4. SeqOK(g) /\ Holds(m, InMemory(g))
    <3>1. g.at < Len(g.prompt_tokens)  BY <1>7, <1>9
    <3> QED  BY <1>6, <1>7, <2>3, <3>1 DEF SeqOK, Read
  <2>5. /\ memory' \in [Slots -> Memories] /\ BusyOK'
        /\ \A t \in Slots \ {s} : memory'[t] = memory[t] /\ active'[t] = active[t]
    BY <1>6, <2>1, <2>2, <2>4, BusyChanges DEF CacheInv
  <2>6. IdleOK(idle_slots, memory', active')
    BY <1>1, <2>5, BusyIsAway, IdleElsewhere DEF CacheInv
  <2>7. MemoryOK' /\ MarkedOK'
    BY <1>1, <2>1, <2>5 DEF CacheInv, MemoryOK, MarkedOK
  <2>8. StatesOK'
    <3>0. StatesOK  BY DEF CacheInv
    <3>1. CASE UNCHANGED states  BY <3>0, <3>1 DEF StatesOK
    <3>2. CASE KeepState(s, SubSeq(a, 1, to), m)
      <4> DEFINE new == [tokens |-> SubSeq(a, 1, to), state |-> m.rec]
      <4>1. PICK room \in SUBSET states[s] :
              states' = [states EXCEPT ![s] = room \cup {new}]
        BY <3>2 DEF KeepState
      <4>2. SubSeq(a, 1, to) \in Seq(Tokens)  BY <1>3, <1>5, FrontOf
      <4>3. new \in Kept /\ new.state = new.tokens  BY <1>6, <4>2 DEF Kept, Holds
      <4> HIDE DEF new
      <4>4. states' \in [Slots -> SUBSET Kept]  BY <3>0, <4>1, <4>3 DEF StatesOK
      <4>5. \A t \in Slots : states'[t] \subseteq states[t] \cup {new}
        BY <3>0, <4>1 DEF StatesOK
      <4> QED  BY <3>0, <4>3, <4>4, <4>5 DEF StatesOK
    <3> QED  BY <2>1, <3>1, <3>2
  <2> QED  BY <2>1, <2>5, <2>6, <2>7, <2>8 DEF CacheInv
<1>10. CASE ~(to < Len(a))
  <2>1. Emit(s, g, m, FALSE) /\ UNCHANGED states  BY <1>2, <1>10
  <2>2. to = Len(a)  BY <1>3, <1>5, <1>10
  <2> HIDE DEF g, m
  <2>3. AtEnd(g)
    <3>1. Len(<<>>) = 0  OBVIOUS
    <3>2. g.at = Len(g.prompt_tokens) + Len(g.generated)  BY <1>3, <1>7, <2>2, <3>1
    <3> QED  BY <1>3, <1>7, <3>2 DEF AtEnd
  <2>4. Spoken(g) = a /\ SubSeq(a, 1, to) = a
    BY <1>3, <1>7, <1>8, <2>2, SubSeqFull DEF Spoken
  <2>5. Holds(m, Spoken(g))  BY <1>6, <2>4
  <2> QED  BY <1>1, <1>6, <2>1, <2>3, <2>5, EmitKeeps
<1> QED  BY <1>9, <1>10

-----------------------------------------------------------------------------
(* Answering. *)

(* Of an answer, the memory holds all but the last token.                  *)
LEMMA AnsweringIs ==
  ASSUME CacheInv, NEW s \in Slots, active[s] # NoSeq, active[s].stage = "answering"
  PROVE  /\ Shape(active[s]) /\ memory[s] \in Memories
         /\ active[s].prompt_tokens # <<>>
         /\ active[s].prompt_tokens \in Seq(Tokens) /\ active[s].generated \in Seq(Tokens)
         /\ Spoken(active[s]) \in Seq(Tokens)
         /\ active[s].at \in Nat /\ Len(Spoken(active[s])) = active[s].at + 1
         /\ Len(Spoken(active[s]))
              = Len(active[s].prompt_tokens) + Len(active[s].generated)
         /\ Last(active[s].generated) \in Tokens
         /\ \E b \in Seq(Tokens) :
              /\ Holds(memory[s], b) /\ Len(b) = active[s].at
              /\ b \o <<Last(active[s].generated)>> = Spoken(active[s])
<1> DEFINE q == active[s]  a == q.prompt_tokens  g == q.generated  full == a \o g
<1>1. SeqOK(q) /\ Holds(memory[s], InMemory(q)) /\ memory[s] \in Memories
  BY DEF CacheInv, BusyOK, MemoryOK
<1>2. /\ Shape(q) /\ g # <<>> /\ a # <<>> /\ q.at = Len(a) + Len(g) - 1
  BY <1>1 DEF SeqOK
<1>3. a \in Seq(Tokens) /\ g \in Seq(Tokens) /\ q.at \in Nat  BY <1>2 DEF Shape
<1>4. Spoken(q) = full  BY DEF Spoken
<1> HIDE DEF a, g
<1>5. /\ Len(a) \in Nat \ {0} /\ Len(g) \in Nat \ {0}
  BY <1>2, <1>3, EmptySeq
<1>6. /\ full \in Seq(Tokens) /\ Len(full) = Len(a) + Len(g)
      /\ \A i \in 1..(Len(a) + Len(g)) : full[i] = IF i <= Len(a) THEN a[i] ELSE g[i - Len(a)]
  BY <1>3, ConcatProperties
<1>7. full[Len(full)] = g[Len(g)] /\ full # <<>>
  <2>1. Len(a) + Len(g) \in 1..(Len(a) + Len(g)) /\ ~(Len(a) + Len(g) <= Len(a))
        /\ (Len(a) + Len(g)) - Len(a) = Len(g)
    BY <1>5
  <2>2. full[Len(a) + Len(g)] = g[Len(g)]  BY <1>6, <2>1
  <2>3. Len(full) # 0  BY <1>5, <1>6
  <2> QED  BY <1>6, <2>2, <2>3, EmptySeq
<1> HIDE DEF full
<1>8. /\ SubSeq(full, 1, Len(full) - 1) \o <<Last(full)>> = full /\ Last(full) \in Tokens
      /\ Last(full) = Last(g)
  BY <1>6, <1>7, LastAgain DEF Last
<1> DEFINE at == q.at
<1>9. at \in Nat /\ Len(full) = at + 1 /\ Len(full) - 1 = at /\ at \in 0..Len(full)
  <2>1. at \in Nat /\ at = Len(a) + Len(g) - 1  BY <1>2, <1>3
  <2> HIDE DEF at
  <2> QED  BY <1>5, <1>6, <2>1
<1>10. InMemory(q) = SubSeq(full, 1, at)  BY DEF InMemory, full, a, g
<1>11. SubSeq(full, 1, at) \in Seq(Tokens) /\ Len(SubSeq(full, 1, at)) = at
  BY <1>6, <1>9, FrontOf
<1>12. SubSeq(full, 1, at) \o <<Last(g)>> = full  BY <1>8, <1>9
<1>13. \E b \in Seq(Tokens) : /\ Holds(memory[s], b) /\ Len(b) = at
                              /\ b \o <<Last(g)>> = full
  BY <1>1, <1>10, <1>11, <1>12
<1> QED  BY <1>1, <1>2, <1>3, <1>4, <1>6, <1>8, <1>9, <1>13 DEF a, g

LEMMA AnswerKeeps ==
  ASSUME CacheInv, NEW s \in Slots, Answer(s) PROVE CacheInv'
<1> DEFINE q == active[s]  g == [q EXCEPT !.at = q.at + 1]
           l == <<Last(q.generated)>>  m == Decoded(memory[s], l)
<1>1. /\ active[s] # NoSeq /\ q.stage = "answering"
      /\ Emit(s, g, m, FALSE) /\ UNCHANGED <<states, mtp>>
  BY DEF Answer
<1>2. /\ Shape(q) /\ memory[s] \in Memories /\ q.prompt_tokens # <<>>
      /\ Spoken(q) \in Seq(Tokens) /\ q.at \in Nat /\ Len(Spoken(q)) = q.at + 1
      /\ Len(Spoken(q)) = Len(q.prompt_tokens) + Len(q.generated)
      /\ Last(q.generated) \in Tokens
  BY <1>1, AnsweringIs
<1>3. PICK b \in Seq(Tokens) : Holds(memory[s], b) /\ b \o l = Spoken(q)
  BY <1>1, AnsweringIs
<1>4. l \in Seq(Tokens)  BY <1>2
<1>5. m \in Memories /\ Holds(m, Spoken(q))
  <2>1. mtp \in Nat  BY DEF CacheInv, MemoryOK
  <2> HIDE DEF l
  <2> QED  BY <1>2, <1>3, <1>4, <2>1, DecodedHolds
<1>6. /\ Shape(g) /\ g.generated = q.generated /\ g.prompt_tokens = q.prompt_tokens
      /\ g.at = q.at + 1
  BY <1>2, MovedIs
<1> HIDE DEF g, m
<1>7. AtEnd(g) /\ Spoken(g) = Spoken(q)  BY <1>2, <1>6 DEF AtEnd, Spoken
<1> QED  BY <1>1, <1>5, <1>7, EmitKeeps

-----------------------------------------------------------------------------
(* Drafts. *)

(* What the memory of an answer can be taken back to after its drafts.     *)
LEMMA DraftsCanGo ==
  ASSUME NEW at \in Nat, NEW d \in Nat, NEW w \in Nat, d <= w, NEW n \in Nat, n > at
  PROVE  n >= at + Minus(d + 1, w)
  BY DEF Minus

LEMMA MtpStepKeeps ==
  ASSUME CacheInv, NEW s \in Slots, MtpStep(s) PROVE CacheInv'
<1>1. active[s] # NoSeq /\ active[s].stage = "answering" /\ UNCHANGED <<states, mtp>>
  BY DEF MtpStep
<1>2. /\ Shape(active[s]) /\ memory[s] \in Memories /\ active[s].prompt_tokens # <<>>
      /\ active[s].prompt_tokens \in Seq(Tokens) /\ active[s].generated \in Seq(Tokens)
      /\ Spoken(active[s]) \in Seq(Tokens) /\ active[s].at \in Nat
      /\ Len(Spoken(active[s])) = active[s].at + 1
      /\ Len(Spoken(active[s]))
           = Len(active[s].prompt_tokens) + Len(active[s].generated)
      /\ Last(active[s].generated) \in Tokens
  BY <1>1, AnsweringIs
<1>3. PICK b \in Seq(Tokens) :
        /\ Holds(memory[s], b) /\ Len(b) = active[s].at
        /\ b \o <<Last(active[s].generated)>> = Spoken(active[s])
  BY <1>1, AnsweringIs
<1> DEFINE q == active[s]  pos0 == q.at  full == Spoken(q)
           l == <<Last(q.generated)>>
           handed(d, n) == [Heard(q, SubSeq(d, 1, n)) EXCEPT !.at = pos0 + 1 + n]
           read(d) == Decoded(memory[s], l \o d)
           m(d, k) == Cut(read(d), pos0 + 1 + k)
<1>4. PICK drafts \in Drafts(q) : \E kept \in 0..Len(drafts) :
        \/ kept < Len(drafts) /\ FinishWiped(s) /\ UNCHANGED checkpoints
        \/ EmitPick(s, handed(drafts, kept), m(drafts, kept))
        \/ \E n \in 1..kept :
             FinishClean(s, [handed(drafts, n) EXCEPT !.at = pos0 + n],
                         TrimPick(m(drafts, kept), pos0 + n))
  BY Zenon DEF MtpStep
<1>5. PICK kept \in 0..Len(drafts) :
        \/ kept < Len(drafts) /\ FinishWiped(s) /\ UNCHANGED checkpoints
        \/ EmitPick(s, handed(drafts, kept), m(drafts, kept))
        \/ \E n \in 1..kept :
             FinishClean(s, [handed(drafts, n) EXCEPT !.at = pos0 + n],
                         TrimPick(m(drafts, kept), pos0 + n))
  BY <1>4
<1>6. /\ Shape(q) /\ memory[s] \in Memories /\ q.prompt_tokens # <<>>
      /\ q.prompt_tokens \in Seq(Tokens) /\ q.generated \in Seq(Tokens)
      /\ full \in Seq(Tokens) /\ pos0 \in Nat /\ Len(full) = pos0 + 1
      /\ Len(full) = Len(q.prompt_tokens) + Len(q.generated)
      /\ l \in Seq(Tokens)
  <2>1. l \in Seq(Tokens)  BY <1>2
  <2> QED  BY <1>2, <2>1
<1>7. Holds(memory[s], b) /\ Len(b) = pos0 /\ b \o l = full  BY <1>3
<1>8. mtp \in Nat  BY DEF CacheInv, MemoryOK
<1>9. drafts \in Seq(Tokens) /\ Len(drafts) \in Nat /\ Len(drafts) <= mtp
  <2>1. /\ Len(q.generated) \in Nat /\ q.max_tokens \in Nat /\ PerSeqCtx \in Nat
    BY <1>6, LenProperties, SlotCacheAssumption DEF Shape
  <2> DEFINE room == Smaller(Minus(PerSeqCtx, pos0 + 1),
                             Minus(q.max_tokens, Len(q.generated) + 1))
  <2>2. room \in Nat
    <3> DEFINE x == q.max_tokens  y == Len(q.generated)
    <3>1. x \in Nat /\ y \in Nat  BY <2>1
    <3> HIDE DEF x, y, pos0
    <3>2. Minus(PerSeqCtx, pos0 + 1) \in Nat /\ Minus(x, y + 1) \in Nat
      BY <1>6, <2>1, <3>1 DEF Minus
    <3>3. Smaller(Minus(PerSeqCtx, pos0 + 1), Minus(x, y + 1)) \in Nat
      BY <3>2 DEF Smaller
    <3> QED  BY <3>3 DEF x, y
  <2> HIDE DEF room
  <2>3. PICK n \in 0..Smaller(room, mtp) : drafts \in [1..n -> Vocab]
    BY <1>4 DEF Drafts, room
  <2>4. n \in Nat /\ n <= mtp  BY <1>8, <2>2, <2>3 DEF Smaller
  <2>5. drafts \in Seq(Vocab) /\ Len(drafts) = n  BY <2>3, <2>4
  <2> QED  BY <2>4, <2>5, SeqMonotonic DEF Tokens
<1> HIDE DEF pos0, full, l
<1> DEFINE whole == full \o drafts
<1>10. whole \in Seq(Tokens) /\ Len(whole) = pos0 + 1 + Len(drafts)
  BY <1>6, <1>9, ConcatProperties
<1>11. /\ read(drafts) \in Memories /\ Holds(read(drafts), whole)
      /\ \A n \in Nat : n > pos0 => read(drafts).low <= n
  <2>1. /\ l \o drafts \in Seq(Tokens) /\ Len(l \o drafts) = Len(drafts) + 1
    <3>1. Len(l) = 1  BY DEF l
    <3>2. Len(l \o drafts) = Len(l) + Len(drafts) /\ l \o drafts \in Seq(Tokens)
      BY <1>6, <1>9, ConcatProperties
    <3> QED  BY <1>9, <3>1, <3>2
  <2>2. b \o (l \o drafts) = whole
    <3>0. l \in Seq(Tokens) /\ drafts \in Seq(Tokens)  BY <1>6, <1>9
    <3>1. (b \o l) \o drafts = b \o (l \o drafts)  BY <3>0, Regrouped
    <3> QED  BY <1>7, <3>1
  <2> DEFINE x == l \o drafts
  <2> HIDE DEF x
  <2>3. /\ Decoded(memory[s], x) \in Memories /\ Holds(Decoded(memory[s], x), b \o x)
        /\ Decoded(memory[s], x).low = Len(b) + Minus(Len(x), Window)
        /\ Window \in Nat /\ Window >= mtp
    BY <1>6, <1>7, <1>8, <2>1, DecodedHolds DEF x
  <2>4. Len(drafts) <= Window  BY <1>8, <1>9, <2>3
  <2>5. Decoded(memory[s], x).low = pos0 + Minus(Len(drafts) + 1, Window)
    BY <1>7, <2>1, <2>3 DEF x
  <2>6. \A n \in Nat : n > pos0 => n >= pos0 + Minus(Len(drafts) + 1, Window)
    BY <1>6, <1>9, <2>3, <2>4, DraftsCanGo
  <2>7. \A n \in Nat : n > pos0 => Decoded(memory[s], x).low <= n
    <3>1. pos0 + Minus(Len(drafts) + 1, Window) \in Nat
      BY <1>6, <1>9, <2>3 DEF Minus
    <3> QED  BY <2>5, <2>6, <3>1
  <2> QED  BY <2>2, <2>3, <2>7 DEF x
<1> HIDE DEF read, whole
<1>12. kept \in Nat /\ pos0 + 1 + kept \in 0..Len(whole) /\ pos0 + 1 + kept > pos0
       /\ pos0 + 1 + kept # 0
  BY <1>6, <1>9, <1>10
<1>13. /\ m(drafts, kept) \in Memories
       /\ Holds(m(drafts, kept), SubSeq(whole, 1, pos0 + 1 + kept))
       /\ m(drafts, kept).low = read(drafts).low
  <2>1. CanCut(read(drafts), pos0 + 1 + kept)
    <3>1. read(drafts).low <= pos0 + 1 + kept  BY <1>6, <1>11, <1>12
    <3>2. read(drafts).low \in Nat  BY <1>11 DEF Memories
    <3> QED  BY <1>6, <1>12, <3>1, <3>2 DEF CanCut
  <2>2. Cut(read(drafts), pos0 + 1 + kept).low = read(drafts).low
    BY <1>11, <1>12, <2>1 DEF Cut, Memories
  <2> QED  BY <1>10, <1>11, <1>12, <2>1, <2>2, CutHolds
<1> HIDE DEF m
(* What has been handed over.                                              *)
<1>14. ASSUME NEW n \in 0..Len(drafts)
       PROVE  /\ AtEnd(handed(drafts, n))
              /\ Spoken(handed(drafts, n)) = SubSeq(whole, 1, pos0 + 1 + n)
  <2> DEFINE f == SubSeq(drafts, 1, n)  h == Heard(q, f)  g == [h EXCEPT !.at = pos0 + 1 + n]
  <2>1. f \in Seq(Tokens) /\ Len(f) = n  BY <1>9, FrontOf
  <2> HIDE DEF f
  <2>2. /\ Shape(h) /\ h.generated = q.generated \o f /\ h.prompt_tokens = q.prompt_tokens
    BY <1>6, <2>1, HeardIs
  <2> HIDE DEF h
  <2>3. pos0 + 1 + n \in Nat /\ n \in Nat  BY <1>6, <1>9
  <2>4. /\ Shape(g) /\ g.generated = q.generated \o f /\ g.prompt_tokens = q.prompt_tokens
        /\ g.at = pos0 + 1 + n
    BY <2>2, <2>3, MovedIs
  <2>5. handed(drafts, n) = g  BY DEF g, h, f
  <2> HIDE DEF g, handed
  <2>6. Len(g.generated) = Len(q.generated) + n
    <3> DEFINE y == q.generated
    <3>1. y \in Seq(Tokens) /\ g.generated = y \o f  BY <1>6, <2>4
    <3> HIDE DEF y
    <3>2. Len(y \o f) = Len(y) + n  BY <2>1, <3>1, ConcatProperties
    <3> QED  BY <3>1, <3>2 DEF y
  <2>7. g.at = Len(g.prompt_tokens) + Len(g.generated)
    <3> DEFINE x == Len(q.prompt_tokens)  y == Len(q.generated)
    <3>1. x \in Nat /\ y \in Nat /\ pos0 + 1 = x + y  BY <1>6, LenProperties
    <3>2. g.at = pos0 + 1 + n /\ Len(g.prompt_tokens) = x /\ Len(g.generated) = y + n
      BY <2>4, <2>6
    <3> HIDE DEF x, y
    <3> QED  BY <1>6, <2>3, <3>1, <3>2
  <2>8. AtEnd(g)  BY <1>6, <2>4, <2>7 DEF AtEnd
  <2>9. Spoken(g) = full \o f
    <3> DEFINE x == q.prompt_tokens  y == q.generated
    <3>1. x \in Seq(Tokens) /\ y \in Seq(Tokens)  BY <1>6
    <3>2. full = x \o y  BY DEF full, Spoken
    <3>3. Spoken(g) = x \o (y \o f)  BY <2>4 DEF Spoken
    <3> HIDE DEF x, y
    <3>4. (x \o y) \o f = x \o (y \o f)  BY <2>1, <3>1, Regrouped
    <3> QED  BY <3>2, <3>3, <3>4
  <2>10. full \o f = SubSeq(whole, 1, pos0 + 1 + n)
    <3> DEFINE r == SubSeq(whole, 1, pos0 + 1 + n)  v == full \o f
    <3>1. pos0 + 1 + n \in 0..Len(whole)  BY <1>6, <1>9, <1>10
    <3>2. /\ r \in Seq(Tokens) /\ Len(r) = pos0 + 1 + n
          /\ \A i \in 1..(pos0 + 1 + n) : r[i] = whole[i]
      BY <1>10, <3>1, FrontOf
    <3>3. /\ v \in Seq(Tokens) /\ Len(v) = pos0 + 1 + n
          /\ \A i \in 1..(pos0 + 1 + n) :
               v[i] = IF i <= pos0 + 1 THEN full[i] ELSE f[i - (pos0 + 1)]
      <4>1. /\ v \in Seq(Tokens) /\ Len(v) = Len(full) + Len(f)
            /\ \A i \in 1..(Len(full) + Len(f)) :
                 v[i] = IF i <= Len(full) THEN full[i] ELSE f[i - Len(full)]
        <5>1. full \in Seq(Tokens) /\ f \in Seq(Tokens)  BY <1>6, <2>1
        <5> QED  BY <5>1, ConcatProperties
      <4>2. Len(full) = pos0 + 1 /\ Len(f) = n  BY <1>6, <2>1
      <4> HIDE DEF v
      <4> QED  BY <4>1, <4>2
    <3>4. \A i \in 1..(pos0 + 1 + Len(drafts)) :
            whole[i] = IF i <= pos0 + 1 THEN full[i] ELSE drafts[i - (pos0 + 1)]
      BY <1>6, <1>9, ConcatProperties DEF whole
    <3>5. \A i \in 1..n : f[i] = drafts[i]  BY <1>9, FrontOf DEF f
    <3> HIDE DEF r, v
    <3>6. \A i \in 1..(pos0 + 1 + n) : v[i] = r[i]
      <4> SUFFICES ASSUME NEW i \in 1..(pos0 + 1 + n) PROVE v[i] = r[i]  OBVIOUS
      <4>1. i \in 1..(pos0 + 1 + Len(drafts))  BY <1>6, <1>9
      <4>2. CASE i <= pos0 + 1  BY <3>2, <3>3, <3>4, <4>1, <4>2
      <4>3. CASE ~(i <= pos0 + 1)
        <5>1. i - (pos0 + 1) \in 1..n  BY <1>6, <2>3, <4>3
        <5> QED  BY <3>2, <3>3, <3>4, <3>5, <4>1, <4>3, <5>1
      <4> QED  BY <4>2, <4>3
    <3>7. v = r  BY <3>2, <3>3, <3>6, SeqEqual
    <3> QED  BY <3>7 DEF v, r
  <2> QED  BY <2>5, <2>8, <2>9, <2>10
<1> HIDE DEF handed
<1>15. CASE kept < Len(drafts) /\ FinishWiped(s) /\ UNCHANGED checkpoints
  BY <1>1, <1>15, WipedKeeps
<1>16. CASE EmitPick(s, handed(drafts, kept), m(drafts, kept))
  <2>1. Emit(s, handed(drafts, kept), m(drafts, kept), TRUE)  BY <1>16 DEF EmitPick
  <2> QED  BY <1>1, <1>13, <1>14, <2>1, EmitKeeps
<1>17. ASSUME NEW n \in 1..kept,
              FinishClean(s, [handed(drafts, n) EXCEPT !.at = pos0 + n],
                          TrimPick(m(drafts, kept), pos0 + n))
       PROVE  CacheInv'
  <2> DEFINE h == handed(drafts, n)  g == [h EXCEPT !.at = pos0 + n]
             c == Cut(m(drafts, kept), pos0 + n)
  <2>1. n \in 0..Len(drafts) /\ n \in Nat /\ pos0 + n \in Nat /\ pos0 + n > pos0
        /\ pos0 + n \in 0..(pos0 + 1 + kept) /\ pos0 + n <= pos0 + 1 + n
        /\ pos0 + n \in 0..(pos0 + 1 + n) /\ pos0 + 1 + n \in 0..Len(whole)
    BY <1>6, <1>9, <1>10, <1>12
  <2>2. AtEnd(h) /\ Spoken(h) = SubSeq(whole, 1, pos0 + 1 + n)  BY <1>14, <2>1
  <2> HIDE DEF h
  <2>3. Shape(h) /\ h.prompt_tokens # <<>>  BY <2>2 DEF AtEnd
  <2>4. /\ Shape(g) /\ g.generated = h.generated /\ g.prompt_tokens = h.prompt_tokens
        /\ g.at = pos0 + n
    BY <2>1, <2>3, MovedIs
  <2> HIDE DEF g
  <2>5. /\ SubSeq(whole, 1, pos0 + 1 + kept) \in Seq(Tokens)
        /\ Len(SubSeq(whole, 1, pos0 + 1 + kept)) = pos0 + 1 + kept
    BY <1>10, <1>12, FrontOf
  <2>6. CanCut(m(drafts, kept), pos0 + n)
    <3>1. m(drafts, kept).low <= pos0 + n  BY <1>11, <1>13, <2>1
    <3>2. m(drafts, kept).low \in Nat  BY <1>13 DEF Memories
    <3> QED  BY <2>1, <3>1, <3>2 DEF CanCut
  <2>7. c \in Memories /\ Holds(c, SubSeq(SubSeq(whole, 1, pos0 + 1 + kept), 1, pos0 + n))
    BY <1>13, <2>1, <2>5, <2>6, CutHolds
  <2>8. SubSeq(SubSeq(whole, 1, pos0 + 1 + kept), 1, pos0 + n) = SubSeq(whole, 1, pos0 + n)
    BY <1>10, <1>12, <2>1, FrontOfFront
  <2>9. resident_tokens(g) = SubSeq(whole, 1, pos0 + n)
    <3>1. g.prompt_tokens \o g.generated = SubSeq(whole, 1, pos0 + 1 + n)
      BY <2>2, <2>4 DEF Spoken
    <3>2. Len(SubSeq(whole, 1, pos0 + 1 + n)) = pos0 + 1 + n  BY <1>10, <2>1, FrontOf
    <3>3. Smaller(pos0 + n, pos0 + 1 + n) = pos0 + n  BY <2>1 DEF Smaller
    <3>4. resident_tokens(g) = SubSeq(SubSeq(whole, 1, pos0 + 1 + n), 1, pos0 + n)
      BY <2>4, <3>1, <3>2, <3>3 DEF resident_tokens
    <3>5. SubSeq(SubSeq(whole, 1, pos0 + 1 + n), 1, pos0 + n) = SubSeq(whole, 1, pos0 + n)
      BY <1>10, <2>1, FrontOfFront
    <3> QED  BY <3>4, <3>5
  <2>10. Holds(c, resident_tokens(g)) /\ g.prompt_tokens # <<>>
    BY <2>3, <2>4, <2>7, <2>8, <2>9
  <2>11. FinishClean(s, g, c)  BY <1>17 DEF g, h, TrimPick
  <2> HIDE DEF c
  <2> QED  BY <1>1, <2>4, <2>7, <2>10, <2>11, CleanKeeps
<1> QED  BY <1>5, <1>15, <1>16, <1>17

-----------------------------------------------------------------------------
(* A decode step fails: several slots come back at once. *)

LEMMA IdleJoined ==
  ASSUME NEW idle, NEW mem, NEW act, IdleOK(idle, mem, act), NEW T, NEW more \in Seq(T),
         \A i \in 1..Len(more) :
            /\ Entry(more[i]) /\ Away(idle, more[i].seq_id)
            /\ act[more[i].seq_id] = NoSeq /\ Holds(mem[more[i].seq_id], more[i].tokens),
         \A i, j \in 1..Len(more) : i # j => more[i].seq_id # more[j].seq_id
  PROVE  IdleOK(idle \o more, mem, act)
<1>1. PICK S : idle \in Seq(S)  BY DEF IdleOK
<1> DEFINE U == S \cup T  r == idle \o more  n == Len(idle)  k == Len(more)
<1>2. idle \in Seq(U) /\ more \in Seq(U)  BY <1>1, SeqMonotonic
<1>3. n \in Nat /\ k \in Nat  BY <1>2, LenProperties
<1>4. /\ r \in Seq(U) /\ Len(r) = n + k
      /\ \A i \in 1..(n + k) : r[i] = IF i <= n THEN idle[i] ELSE more[i - n]
  BY <1>2, ConcatProperties
<1> HIDE DEF r, U
<1>5. /\ \A i \in 1..n : /\ Entry(idle[i]) /\ act[idle[i].seq_id] = NoSeq
                         /\ Holds(mem[idle[i].seq_id], idle[i].tokens)
      /\ \A i, j \in 1..n : i # j => idle[i].seq_id # idle[j].seq_id
      /\ \A i \in 1..n, j \in 1..k : idle[i].seq_id # more[j].seq_id
  BY DEF IdleOK, Away
<1>6. \A i \in 1..k : /\ Entry(more[i]) /\ act[more[i].seq_id] = NoSeq
                      /\ Holds(mem[more[i].seq_id], more[i].tokens)
  OBVIOUS
<1>7. \A i, j \in 1..k : i # j => more[i].seq_id # more[j].seq_id
  OBVIOUS
<1> HIDE DEF n, k
<1>8. \A i \in 1..(n + k) : \/ i \in 1..n /\ r[i] = idle[i]
                            \/ i - n \in 1..k /\ r[i] = more[i - n]
  <2> SUFFICES ASSUME NEW i \in 1..(n + k)
               PROVE  \/ i \in 1..n /\ r[i] = idle[i]
                      \/ i - n \in 1..k /\ r[i] = more[i - n]
    OBVIOUS
  <2>1. CASE i <= n  BY <1>3, <1>4, <2>1
  <2>2. CASE ~(i <= n)  BY <1>3, <1>4, <2>2
  <2> QED  BY <2>1, <2>2
<1>9. \A i \in 1..Len(r) : /\ Entry(r[i]) /\ act[r[i].seq_id] = NoSeq
                           /\ Holds(mem[r[i].seq_id], r[i].tokens)
  BY <1>4, <1>5, <1>6, <1>8
<1>10. ASSUME NEW i \in 1..Len(r), NEW j \in 1..Len(r), i # j
       PROVE  r[i].seq_id # r[j].seq_id
  <2>1. i \in 1..(n + k) /\ j \in 1..(n + k)  BY <1>4
  <2>2. CASE i \in 1..n /\ r[i] = idle[i]
    <3>1. CASE j \in 1..n /\ r[j] = idle[j]  BY <1>5, <1>10, <2>2, <3>1
    <3>2. CASE j - n \in 1..k /\ r[j] = more[j - n]  BY <1>5, <2>2, <3>2
    <3> QED  BY <1>8, <2>1, <3>1, <3>2
  <2>3. CASE i - n \in 1..k /\ r[i] = more[i - n]
    <3>1. CASE j \in 1..n /\ r[j] = idle[j]  BY <1>5, <2>3, <3>1
    <3>2. CASE j - n \in 1..k /\ r[j] = more[j - n]
      <4>1. i - n # j - n  BY <1>3, <1>10, <2>1
      <4> QED  BY <1>7, <2>3, <3>2, <4>1
    <3> QED  BY <1>8, <2>1, <3>1, <3>2
  <2> QED  BY <1>8, <2>1, <2>2, <2>3
<1>11. IdleOK(r, mem, act)  BY <1>4, <1>9, <1>10 DEF IdleOK
<1> QED  BY <1>11 DEF r

LEMMA StepFailsKeeps == ASSUME CacheInv, StepFails PROVE CacheInv'
<1> USE DEF CacheInv
<1> DEFINE failed == {s \in Slots : active[s] # NoSeq /\ active[s].stage = "answering"}
           n == Cardinality(failed)
           more(order) == [i \in DOMAIN order |->
                            [seq_id |-> order[i], tokens |-> <<>>, text |-> <<>>]]
<1>1. PICK order \in Injection(1..n, failed) : idle_slots' = idle_slots \o more(order)
  BY DEF StepFails
<1>2. /\ memory' = [s \in Slots |-> IF s \in failed THEN NoMemory ELSE memory[s]]
      /\ active' = [s \in Slots |-> IF s \in failed THEN NoSeq ELSE active[s]]
      /\ UNCHANGED <<checkpoints, states, mtp>>
  BY DEF StepFails
<1>3. n \in Nat
  <2>1. IsFiniteSet(failed)  BY FS_Subset, SlotCacheAssumption
  <2> QED  BY <2>1, FS_CardinalityType
<1>4. /\ order \in [1..n -> failed]
      /\ \A i, j \in 1..n : order[i] = order[j] => i = j
  BY <1>1 DEF Injection, IsInjective
<1>5. \A t \in failed : t \in Slots /\ active[t] # NoSeq  OBVIOUS
<1> HIDE DEF failed, n
<1> DEFINE T == [seq_id : failed, tokens : {<<>>}, text : {<<>>}]  m == more(order)
<1>6. /\ m \in Seq(T) /\ Len(m) = n
      /\ \A i \in 1..n : m[i] = [seq_id |-> order[i], tokens |-> <<>>, text |-> <<>>]
  <2>1. m \in [1..n -> T]  BY <1>4
  <2> HIDE DEF T
  <2>2. m \in Seq(T) /\ Len(m) = n  BY <1>3, <2>1
  <2> QED  BY <1>4, <2>2
<1>7. idle_slots' = idle_slots \o m  BY <1>1
<1> HIDE DEF m, T
(* The slots that were idle.                                               *)
<1>8. IdleOK(idle_slots, memory', active') /\ \A t \in failed : Away(idle_slots, t)
  <2>1. \A i \in 1..Len(idle_slots) :
          /\ idle_slots[i].seq_id \in Slots /\ active[idle_slots[i].seq_id] = NoSeq
          /\ idle_slots[i].seq_id \notin failed
    BY <1>5 DEF IdleOK, Entry
  <2>2. \A i \in 1..Len(idle_slots) :
          /\ memory'[idle_slots[i].seq_id] = memory[idle_slots[i].seq_id]
          /\ active'[idle_slots[i].seq_id] = active[idle_slots[i].seq_id]
    BY <1>2, <2>1
  <2> QED  BY <2>1, <2>2 DEF IdleOK, Away
<1>9. \A i \in 1..Len(m) :
        /\ Entry(m[i]) /\ Away(idle_slots, m[i].seq_id)
        /\ active'[m[i].seq_id] = NoSeq /\ Holds(memory'[m[i].seq_id], m[i].tokens)
  <2> SUFFICES ASSUME NEW i \in 1..n
               PROVE  /\ Entry(m[i]) /\ Away(idle_slots, m[i].seq_id)
                      /\ active'[m[i].seq_id] = NoSeq
                      /\ Holds(memory'[m[i].seq_id], m[i].tokens)
    BY <1>6
  <2>1. /\ m[i].seq_id = order[i] /\ m[i].tokens = <<>> /\ m[i].text = <<>>
        /\ order[i] \in failed /\ order[i] \in Slots
    BY <1>4, <1>5, <1>6
  <2>2. Entry(m[i])  BY <2>1, EmptySeq DEF Entry
  <2>3. active'[order[i]] = NoSeq /\ memory'[order[i]] = NoMemory  BY <1>2, <2>1
  <2> QED  BY <1>8, <2>1, <2>2, <2>3, Untouched
<1>10. \A i, j \in 1..Len(m) : i # j => m[i].seq_id # m[j].seq_id
  BY <1>4, <1>6
<1>11. IdleOK(idle_slots', memory', active')
  BY <1>6, <1>7, <1>8, <1>9, <1>10, IdleJoined
(* The others.                                                             *)
<1>12. BusyOK'
  <2>1. ASSUME NEW s \in Slots, active'[s] # NoSeq
        PROVE  SeqOK(active'[s]) /\ Holds(memory'[s], InMemory(active'[s]))
    <3>1. s \notin failed /\ active'[s] = active[s] /\ memory'[s] = memory[s]
      BY <1>2, <2>1
    <3> QED  BY <2>1, <3>1 DEF BusyOK
  <2>2. active' = [s \in Slots |-> active'[s]]  BY <1>2
  <2> QED  BY <2>1, <2>2 DEF BusyOK
<1>13. MemoryOK'  BY <1>2, Untouched DEF MemoryOK
<1>14. MarkedOK' /\ StatesOK'  BY <1>2 DEF MarkedOK, StatesOK
<1> QED  BY <1>11, <1>12, <1>13, <1>14

-----------------------------------------------------------------------------
(* The theorems. *)

LEMMA InitOK == Init => CacheInv
<1> SUFFICES ASSUME Init PROVE CacheInv  OBVIOUS
<1>1. PICK n \in BatchSizes :
        /\ idle_slots = [i \in 1..n |-> [seq_id |-> i - 1, tokens |-> <<>>, text |-> <<>>]]
        /\ mtp \in mtp_drafts(n)
  BY DEF Init
<1>2. n \in Nat \ {0} /\ 0..(n - 1) \subseteq Slots /\ MaxDrafts \in Nat
  BY SlotCacheAssumption
<1>3. /\ memory = [s \in Slots |-> NoMemory] /\ active = [s \in Slots |-> NoSeq]
      /\ checkpoints = <<>> /\ states = [s \in Slots |-> {}]
  BY DEF Init
<1>4. MemoryOK  BY <1>1, <1>2, <1>3, Untouched DEF MemoryOK, mtp_drafts
<1> DEFINE T == [seq_id : Slots, tokens : {<<>>}, text : {<<>>}]
<1>5. /\ idle_slots \in Seq(T) /\ Len(idle_slots) = n
      /\ \A i \in 1..n : /\ idle_slots[i].seq_id = i - 1 /\ i - 1 \in Slots
                         /\ idle_slots[i].tokens = <<>> /\ idle_slots[i].text = <<>>
  <2>1. \A i \in 1..n : i - 1 \in Slots  BY <1>2
  <2>2. idle_slots \in [1..n -> T]  BY <1>1, <2>1
  <2>3. \A i \in 1..n : idle_slots[i] = [seq_id |-> i - 1, tokens |-> <<>>, text |-> <<>>]
    BY <1>1
  <2> HIDE DEF T
  <2>4. idle_slots \in Seq(T) /\ Len(idle_slots) = n  BY <1>2, <2>2
  <2> QED  BY <2>1, <2>3, <2>4
<1> HIDE DEF T
<1>6. IdleOK(idle_slots, memory, active)
  <2>1. \A i \in 1..Len(idle_slots) :
          /\ Entry(idle_slots[i]) /\ active[idle_slots[i].seq_id] = NoSeq
          /\ Holds(memory[idle_slots[i].seq_id], idle_slots[i].tokens)
    BY <1>3, <1>5, Untouched, EmptySeq DEF Entry
  <2>2. \A i, j \in 1..Len(idle_slots) :
          i # j => idle_slots[i].seq_id # idle_slots[j].seq_id
    BY <1>2, <1>5
  <2> QED  BY <1>5, <2>1, <2>2 DEF IdleOK
<1>7. BusyOK  BY <1>3 DEF BusyOK
<1>8. MarkedOK  BY <1>3, EmptySeq DEF MarkedOK
<1>9. StatesOK  BY <1>3 DEF StatesOK
<1> QED  BY <1>4, <1>6, <1>7, <1>8, <1>9 DEF CacheInv

LEMMA StepOK == CacheInv /\ [Next]_vars => CacheInv'
<1> SUFFICES ASSUME CacheInv, [Next]_vars PROVE CacheInv'  OBVIOUS
<1>1. ASSUME NEW p \in Prompts, AdmitByText(p) PROVE CacheInv'
  BY <1>1, AdmitByTextKeeps
<1>2. ASSUME NEW p \in Prompts, NEW cache_prompt \in BOOLEAN, AdmitByTokens(p, cache_prompt)
      PROVE  CacheInv'
  BY <1>2, AdmitByTokensKeeps
<1>3. ASSUME NEW s \in Slots, ReadPart(s) PROVE CacheInv'  BY <1>3, ReadPartKeeps
<1>4. ASSUME NEW s \in Slots, ReadFails(s) PROVE CacheInv'  BY <1>4, ReadFailsKeeps
<1>5. ASSUME NEW s \in Slots, ReaderLeaves(s) PROVE CacheInv'  BY <1>5, ReaderLeavesKeeps
<1>6. ASSUME NEW s \in Slots, Answer(s) PROVE CacheInv'  BY <1>6, AnswerKeeps
<1>7. ASSUME NEW s \in Slots, MtpStep(s) PROVE CacheInv'  BY <1>7, MtpStepKeeps
<1>8. CASE StepFails  BY <1>8, StepFailsKeeps
<1>9. CASE UNCHANGED vars
  BY <1>9 DEF vars, CacheInv, MemoryOK, IdleOK, Entry, BusyOK, MarkedOK, StatesOK, Holds
<1> QED  BY <1>1, <1>2, <1>3, <1>4, <1>5, <1>6, <1>7, <1>8, <1>9 DEF Next

(* A slot's memory, a checkpoint and a kept state hold exactly the tokens  *)
(* recorded for them, whatever order prompts, parts of prompts, answers,   *)
(* drafts, refusals and failures come in: a prompt that starts from what a *)
(* slot or a checkpoint is filed under continues that very conversation.   *)
THEOREM MemoryIsTheRecord == Spec => []MemoryIsRecorded
<1>1. CacheInv => MemoryIsRecorded  BY InvGives
<1> QED  BY InitOK, StepOK, <1>1, PTL DEF Spec

(* Whatever a prompt starts from - an idle slot, a recurrent state, a      *)
(* checkpoint, nothing - at least its last token is still to be read, so   *)
(* that the answer's first token is sampled from logits of its own.        *)
THEOREM SomethingIsRead == Spec => []SomethingToRead
<1>1. CacheInv => SomethingToRead  BY InvGives
<1> QED  BY InitOK, StepOK, <1>1, PTL DEF Spec

-----------------------------------------------------------------------------
(* Texts: what tokens spell. *)

(* FlattenSeq, as far as each of the sequences it joins.                   *)
LEMMA FlatIs ==
  ASSUME NEW S, NEW a \in Seq(Seq(S))
  PROVE  \E f : /\ f[0] = <<>> /\ \A n \in 0..Len(a) : f[n] \in Seq(S)
                /\ \A n \in 1..Len(a) : f[n] = f[n - 1] \o a[n]
                /\ FlattenSeq(a) = f[Len(a)]
<1> DEFINE N == Len(a)
           P(k, f) == f = [n \in 1..k |-> IF n = 1 THEN a[n] ELSE f[n - 1] \o a[n]]
           Bad == {k \in 0..N : ~ \E f : P(k, f)}
<1>1. N \in Nat /\ \A n \in 1..N : a[n] \in Seq(S)  BY LenProperties, ElementOfSeq
<1>2. a = <<>> <=> N = 0  BY EmptySeq
<1> HIDE DEF N
<1>3. Bad = {}
  <2> SUFFICES ASSUME Bad # {} PROVE FALSE  OBVIOUS
  <2>1. Bad \subseteq Nat
    <3>1. 0..N \subseteq Nat  BY <1>1
    <3> QED  BY <3>1, Zenon
  <2>2. PICK k \in Bad : \A u \in Bad : ~(u < k)
    <3> HIDE DEF Bad
    <3> QED  BY <2>1, LeastNumber
  <2>3. CASE k = 0
    <3> DEFINE f == [n \in 1..0 |-> a]
    <3>1. P(0, f)  OBVIOUS
    <3> QED  BY <2>3, <3>1
  <2>4. CASE k # 0
    <3>1. k \in 1..N /\ k - 1 \in 0..N /\ k - 1 < k  BY <1>1, <2>4
    <3>2. k - 1 \notin Bad  BY <2>2, <3>1
    <3>3. PICK h : P(k - 1, h)  BY <3>1, <3>2
    <3> DEFINE f == [n \in 1..k |-> IF n # k THEN h[n]
                                    ELSE IF n = 1 THEN a[n] ELSE h[k - 1] \o a[n]]
    <3>4. \A n \in 1..(k - 1) : h[n] = IF n = 1 THEN a[n] ELSE h[n - 1] \o a[n]
      BY <3>3
    <3>5. \A n \in 1..k : f[n] = IF n = 1 THEN a[n] ELSE f[n - 1] \o a[n]
      <4> SUFFICES ASSUME NEW n \in 1..k
                   PROVE  f[n] = IF n = 1 THEN a[n] ELSE f[n - 1] \o a[n]
        OBVIOUS
      <4>1. CASE n = 1
        <5>1. CASE k = 1  BY <4>1, <5>1
        <5>2. CASE k # 1
          <6>1. 1 \in 1..(k - 1)  BY <3>1, <5>2
          <6> QED  BY <3>4, <4>1, <5>2, <6>1
        <5> QED  BY <5>1, <5>2
      <4>2. CASE n # 1
        <5>1. n - 1 \in 1..k /\ n - 1 # k  BY <3>1, <4>2
        <5>2. f[n - 1] = h[n - 1]  BY <5>1
        <5>3. CASE n = k  BY <4>2, <5>2, <5>3
        <5>4. CASE n # k
          <6>1. n \in 1..(k - 1) /\ f[n] = h[n]  BY <3>1, <5>4
          <6> QED  BY <3>4, <4>2, <5>2, <6>1
        <5> QED  BY <5>3, <5>4
      <4> QED  BY <4>1, <4>2
    <3>6. f = [n \in 1..k |-> f[n]]  OBVIOUS
    <3> HIDE DEF f
    <3>7. P(k, f)  BY <3>5, <3>6
    <3> QED  BY <3>7
  <2> QED  BY <2>3, <2>4
<1>4. \E f : P(N, f)
  <2>1. N \in 0..N  BY <1>1
  <2> QED  BY <1>3, <2>1, Zenon
<1> DEFINE h == CHOOSE f : P(N, f)
<1>5. P(N, h)  BY <1>4
<1>6. N # 0 => FlattenSeq(a) = h[N]  BY DEF FlattenSeq, N
<1>7. N = 0 => FlattenSeq(a) = a  BY DEF FlattenSeq, N
<1> HIDE DEF h
<1> DEFINE f == [n \in 0..N |-> IF n = 0 THEN <<>> ELSE h[n]]
<1>8. \A n \in 1..N : h[n] = IF n = 1 THEN a[n] ELSE h[n - 1] \o a[n]  BY <1>5
<1>9. f[0] = <<>> /\ \A n \in 1..N : f[n] = f[n - 1] \o a[n]
  <2>1. f[0] = <<>>  BY <1>1
  <2>2. ASSUME NEW n \in 1..N PROVE f[n] = f[n - 1] \o a[n]
    <3>1. n \in 0..N /\ n - 1 \in 0..N /\ n # 0  BY <1>1
    <3>2. f[n] = h[n]  BY <3>1
    <3>3. CASE n = 1
      <4>1. <<>> \o a[n] = a[n]  BY <1>1, ConcatEmptySeq
      <4>2. f[n - 1] = <<>> /\ h[n] = a[n]  BY <1>8, <2>1, <3>3
      <4> QED  BY <3>2, <4>1, <4>2
    <3>4. CASE n # 1
      <4>1. n - 1 # 0  BY <3>4
      <4>2. f[n - 1] = h[n - 1]  BY <3>1, <4>1
      <4> QED  BY <1>8, <3>2, <3>4, <4>2
    <3> QED  BY <3>3, <3>4
  <2> QED  BY <2>1, <2>2
<1>10. FlattenSeq(a) = f[N]  BY <1>1, <1>2, <1>6, <1>7
<1> HIDE DEF f
<1>11. \A n \in 0..N : f[n] \in Seq(S)
  <2> DEFINE Off == {n \in 0..N : f[n] \notin Seq(S)}
  <2> SUFFICES ASSUME Off # {} PROVE FALSE  OBVIOUS
  <2>1. Off \subseteq Nat  BY <1>1
  <2>2. PICK n \in Off : \A u \in Off : ~(u < n)
    <3> HIDE DEF Off
    <3> QED  BY <2>1, LeastNumber
  <2>3. n # 0
    <3>1. <<>> \in Seq(S)  BY EmptySeq
    <3> QED  BY <1>9, <3>1
  <2>4. n \in 1..N /\ n - 1 \in 0..N /\ n - 1 < n  BY <1>1, <2>3
  <2>5. f[n - 1] \in Seq(S) /\ a[n] \in Seq(S)  BY <1>1, <2>2, <2>4
  <2>6. f[n - 1] \o a[n] \in Seq(S)  BY <2>5, ConcatProperties
  <2> QED  BY <1>9, <2>4, <2>6
<1> QED  BY <1>9, <1>10, <1>11 DEF N

LEMMA FlatConcat ==
  ASSUME NEW S, NEW a \in Seq(Seq(S)), NEW b \in Seq(Seq(S))
  PROVE  /\ FlattenSeq(a \o b) = FlattenSeq(a) \o FlattenSeq(b)
         /\ FlattenSeq(a) \in Seq(S)
<1> DEFINE N == Len(a)  K == Len(b)  c == a \o b
<1>1. N \in Nat /\ K \in Nat  BY LenProperties
<1>2. /\ c \in Seq(Seq(S)) /\ Len(c) = N + K
      /\ \A n \in 1..(N + K) : c[n] = IF n <= N THEN a[n] ELSE b[n - N]
  BY ConcatProperties
<1>3. PICK f : /\ f[0] = <<>> /\ \A n \in 0..N : f[n] \in Seq(S)
               /\ \A n \in 1..N : f[n] = f[n - 1] \o a[n]
               /\ FlattenSeq(a) = f[N]
  BY FlatIs
<1>4. PICK g : /\ g[0] = <<>> /\ \A n \in 0..K : g[n] \in Seq(S)
               /\ \A n \in 1..K : g[n] = g[n - 1] \o b[n]
               /\ FlattenSeq(b) = g[K]
  BY FlatIs
<1> HIDE DEF N, K, c
<1>5. PICK h : /\ h[0] = <<>>
               /\ \A n \in 1..(N + K) : h[n] = h[n - 1] \o c[n]
               /\ FlattenSeq(c) = h[N + K]
  <2>1. PICK h : /\ h[0] = <<>>
                 /\ \A n \in 1..Len(c) : h[n] = h[n - 1] \o c[n]
                 /\ FlattenSeq(c) = h[Len(c)]
    BY <1>2, FlatIs
  <2>2. Len(c) = N + K  BY <1>2
  <2> QED  BY <2>1, <2>2
<1>6. \A n \in 0..N : h[n] = f[n]
  <2> DEFINE Off == {n \in 0..N : h[n] # f[n]}
  <2> SUFFICES ASSUME Off # {} PROVE FALSE  OBVIOUS
  <2>1. Off \subseteq Nat
    <3>1. 0..N \subseteq Nat  BY <1>1
    <3> QED  BY <3>1, Zenon
  <2>2. PICK n \in Off : \A u \in Off : ~(u < n)
    <3> HIDE DEF Off
    <3> QED  BY <2>1, LeastNumber
  <2>3. n # 0  BY <1>3, <1>5
  <2>4. /\ n \in 1..N /\ n \in 1..(N + K) /\ n <= N /\ n - 1 \in 0..N /\ n - 1 < n
    BY <1>1, <2>3
  <2>5. h[n - 1] = f[n - 1] /\ c[n] = a[n]  BY <1>2, <2>2, <2>4
  <2> QED  BY <1>3, <1>5, <2>4, <2>5
<1>7. \A n \in 0..K : h[N + n] = f[N] \o g[n]
  <2> DEFINE Off == {n \in 0..K : h[N + n] # f[N] \o g[n]}
  <2> SUFFICES ASSUME Off # {} PROVE FALSE  OBVIOUS
  <2>1. Off \subseteq Nat
    <3>1. 0..K \subseteq Nat  BY <1>1
    <3> QED  BY <3>1, Zenon
  <2>2. PICK n \in Off : \A u \in Off : ~(u < n)
    <3> HIDE DEF Off
    <3> QED  BY <2>1, LeastNumber
  <2>3. N \in 0..N /\ f[N] \in Seq(S)  BY <1>1, <1>3
  <2>4. n # 0
    <3>1. f[N] \o <<>> = f[N] /\ N + 0 = N  BY <1>1, <2>3, ConcatEmptySeq
    <3> QED  BY <1>4, <1>6, <2>3, <3>1
  <2>5. /\ n \in 1..K /\ N + n \in 1..(N + K) /\ ~(N + n <= N) /\ (N + n) - N = n
        /\ n - 1 \in 0..K /\ n - 1 < n /\ (N + n) - 1 = N + (n - 1)
    BY <1>1, <2>4
  <2>6. c[N + n] = b[n] /\ h[N + n] = h[N + (n - 1)] \o c[N + n]  BY <1>2, <1>5, <2>5
  <2>7. h[N + (n - 1)] = f[N] \o g[n - 1]  BY <2>2, <2>5
  <2>8. g[n - 1] \in Seq(S) /\ b[n] \in Seq(S)
    <3>1. b[n] \in Seq(S)  BY <2>5, ElementOfSeq DEF K
    <3> QED  BY <1>4, <2>5, <3>1
  <2>9. (f[N] \o g[n - 1]) \o b[n] = f[N] \o (g[n - 1] \o b[n])
    <3> DEFINE x == f[N]  y == g[n - 1]  z == b[n]
    <3>1. x \in Seq(S) /\ y \in Seq(S) /\ z \in Seq(S)  BY <2>3, <2>8
    <3> HIDE DEF x, y, z
    <3>2. (x \o y) \o z = x \o (y \o z)  BY <3>1, ConcatAssociative
    <3> QED  BY <3>2 DEF x, y, z
  <2> QED  BY <1>4, <2>5, <2>6, <2>7, <2>9
<1>8. K \in 0..K /\ N \in 0..N  BY <1>1
<1> QED  BY <1>3, <1>4, <1>5, <1>7, <1>8 DEF c


(* What tokens spell, one after the other.                                 *)
Bytes         == UNION {Range(Spell[t]) : t \in Vocab}
Pieces(tokens) ==
  [i \in DOMAIN tokens |-> IF tokens[i] = Bos THEN <<>> ELSE Spell[tokens[i]]]

LEMMA PiecesAre ==
  ASSUME WholeCharacters, NEW a \in Seq(Tokens)
  PROVE  /\ Pieces(a) \in Seq(Seq(Bytes)) /\ Len(Pieces(a)) = Len(a)
         /\ \A i \in 1..Len(a) :
              Pieces(a)[i] = IF a[i] = Bos THEN <<>> ELSE Spell[a[i]]
<1>1. Len(a) \in Nat /\ DOMAIN a = 1..Len(a) /\ \A i \in 1..Len(a) : a[i] \in Tokens
  BY LenProperties, ElementOfSeq
<1>2. \A t \in Vocab : Spell[t] \in Seq(Bytes)
  <2> SUFFICES ASSUME NEW t \in Vocab PROVE Spell[t] \in Seq(Bytes)  OBVIOUS
  <2>1. Spell[t] \in Seq(Range(Spell[t]))  BY DEF WholeCharacters
  <2>2. Range(Spell[t]) \subseteq Bytes  BY DEF Bytes
  <2> HIDE DEF Bytes
  <2> QED  BY <2>1, <2>2, SeqMonotonic
<1> DEFINE p == Pieces(a)  T == Seq(Bytes)
<1>3. <<>> \in T  BY EmptySeq
<1>4. \A i \in 1..Len(a) : (IF a[i] = Bos THEN <<>> ELSE Spell[a[i]]) \in T
  <2> HIDE DEF T
  <2> SUFFICES ASSUME NEW i \in 1..Len(a)
               PROVE  (IF a[i] = Bos THEN <<>> ELSE Spell[a[i]]) \in T
    OBVIOUS
  <2>1. CASE a[i] = Bos  BY <1>3, <2>1
  <2>2. CASE a[i] # Bos
    <3>1. a[i] \in Vocab  BY <1>1, <2>2 DEF Tokens
    <3> QED  BY <1>2, <2>2, <3>1 DEF T
  <2> QED  BY <2>1, <2>2
<1> HIDE DEF T
<1>5. p = [i \in 1..Len(a) |-> IF a[i] = Bos THEN <<>> ELSE Spell[a[i]]]
  BY <1>1 DEF Pieces
<1> HIDE DEF p
<1>6. p \in [1..Len(a) -> T]  BY <1>4, <1>5
<1>7. p \in Seq(T) /\ Len(p) = Len(a)  BY <1>1, <1>6
<1>8. \A i \in 1..Len(a) : p[i] = IF a[i] = Bos THEN <<>> ELSE Spell[a[i]]  BY <1>5
<1> QED  BY <1>7, <1>8 DEF p, T

LEMMA SpelledConcat ==
  ASSUME WholeCharacters, NEW a \in Seq(Tokens), NEW b \in Seq(Tokens)
  PROVE  Spelled(a \o b) = Spelled(a) \o Spelled(b) /\ Spelled(a) \in Seq(Bytes)
<1> DEFINE c == a \o b  l == Pieces(c)  r == Pieces(a) \o Pieces(b)
<1>1. /\ Len(a) \in Nat /\ Len(b) \in Nat
      /\ c \in Seq(Tokens) /\ Len(c) = Len(a) + Len(b)
      /\ \A i \in 1..(Len(a) + Len(b)) : c[i] = IF i <= Len(a) THEN a[i] ELSE b[i - Len(a)]
  BY ConcatProperties, LenProperties
<1>2. /\ Pieces(a) \in Seq(Seq(Bytes)) /\ Len(Pieces(a)) = Len(a)
      /\ \A i \in 1..Len(a) : Pieces(a)[i] = IF a[i] = Bos THEN <<>> ELSE Spell[a[i]]
  BY PiecesAre
<1>3. /\ Pieces(b) \in Seq(Seq(Bytes)) /\ Len(Pieces(b)) = Len(b)
      /\ \A i \in 1..Len(b) : Pieces(b)[i] = IF b[i] = Bos THEN <<>> ELSE Spell[b[i]]
  BY PiecesAre
<1> HIDE DEF c
<1>4. /\ l \in Seq(Seq(Bytes)) /\ Len(l) = Len(c)
      /\ \A i \in 1..Len(c) : l[i] = IF c[i] = Bos THEN <<>> ELSE Spell[c[i]]
  BY <1>1, PiecesAre
<1> DEFINE pa == Pieces(a)  pb == Pieces(b)  T == Seq(Bytes)
<1> HIDE DEF pa, pb, T
<1>5. /\ pa \in Seq(T) /\ Len(pa) = Len(a) /\ pb \in Seq(T) /\ Len(pb) = Len(b)
      /\ \A i \in 1..Len(a) : pa[i] = IF a[i] = Bos THEN <<>> ELSE Spell[a[i]]
      /\ \A i \in 1..Len(b) : pb[i] = IF b[i] = Bos THEN <<>> ELSE Spell[b[i]]
  BY <1>2, <1>3 DEF pa, pb, T
<1>6. /\ pa \o pb \in Seq(T) /\ Len(pa \o pb) = Len(a) + Len(b)
      /\ \A i \in 1..(Len(a) + Len(b)) :
           (pa \o pb)[i] = IF i <= Len(a) THEN pa[i] ELSE pb[i - Len(a)]
  BY <1>1, <1>5, ConcatProperties
<1>7. r = pa \o pb /\ l \in Seq(T)  BY <1>4 DEF pa, pb, T
<1> HIDE DEF r, l
<1>8. \A i \in 1..(Len(a) + Len(b)) : l[i] = r[i]
  <2> SUFFICES ASSUME NEW i \in 1..(Len(a) + Len(b)) PROVE l[i] = r[i]  OBVIOUS
  <2>1. CASE i <= Len(a)
    <3>1. i \in 1..Len(a) /\ i \in 1..Len(c)  BY <1>1, <2>1
    <3>2. c[i] = a[i] /\ r[i] = pa[i]  BY <1>1, <1>6, <1>7, <2>1
    <3>3. l[i] = IF a[i] = Bos THEN <<>> ELSE Spell[a[i]]  BY <1>4, <3>1, <3>2
    <3> QED  BY <1>5, <3>1, <3>2, <3>3, Zenon
  <2>2. CASE ~(i <= Len(a))
    <3>1. i - Len(a) \in 1..Len(b) /\ i \in 1..Len(c)  BY <1>1, <2>2
    <3> DEFINE j == i - Len(a)
    <3>2. c[i] = b[j] /\ r[i] = pb[j]  BY <1>1, <1>6, <1>7, <2>2
    <3> HIDE DEF j
    <3>3. l[i] = IF b[j] = Bos THEN <<>> ELSE Spell[b[j]]  BY <1>4, <3>1, <3>2
    <3>4. j \in 1..Len(b)  BY <3>1 DEF j
    <3> QED  BY <1>5, <3>2, <3>3, <3>4, Zenon
  <2> QED  BY <2>1, <2>2
<1>9. l = r
  <2>1. l \in Seq(T) /\ r \in Seq(T) /\ Len(l) = Len(r) /\ Len(l) = Len(a) + Len(b)
    BY <1>1, <1>4, <1>6, <1>7
  <2> QED  BY <1>8, <2>1, SeqEqual
<1>10. /\ FlattenSeq(Pieces(a) \o Pieces(b)) = FlattenSeq(Pieces(a)) \o FlattenSeq(Pieces(b))
       /\ FlattenSeq(Pieces(a)) \in Seq(Bytes)
  BY <1>2, <1>3, FlatConcat
<1>11. \A x : Spelled(x) = FlattenSeq(Pieces(x))  BY Zenon DEF Spelled, Pieces
<1> QED  BY <1>9, <1>10, <1>11 DEF l, r, c

(* What a conversation has said is what the tokens it said spell.          *)
SaysOK(q) ==
  /\ Spelled(q.prompt_tokens) = q.text
  /\ q.half = FALSE /\ q.generated \in Seq(Vocab)
  /\ q.pieces = [i \in 1..Len(q.generated) |-> Spell[q.generated[i]]]

TextIs(e) == e.text # <<>> => Spelled(e.tokens) = e.text

TextOK ==
  /\ \A i \in 1..Len(idle_slots) : TextIs(idle_slots[i])
  /\ \A s \in Slots : active[s] # NoSeq => SaysOK(active[s])

LEMMA FrontOfBoth ==
  ASSUME NEW S, NEW a \in Seq(S), NEW b \in Seq(S), NEW k \in 0..Len(b)
  PROVE  SubSeq(a \o b, 1, Len(a) + k) = a \o SubSeq(b, 1, k)
<1>1. Len(a) \in Nat /\ Len(b) \in Nat  BY LenProperties
<1> DEFINE c == a \o b  f == SubSeq(b, 1, k)  l == SubSeq(c, 1, Len(a) + k)  r == a \o f
<1>2. /\ c \in Seq(S) /\ Len(c) = Len(a) + Len(b)
      /\ \A i \in 1..(Len(a) + Len(b)) : c[i] = IF i <= Len(a) THEN a[i] ELSE b[i - Len(a)]
  BY <1>1, ConcatProperties
<1>3. f \in Seq(S) /\ Len(f) = k /\ \A i \in 1..k : f[i] = b[i]  BY FrontOf
<1> HIDE DEF c, f
<1>4. Len(a) + k \in 0..Len(c) /\ k \in Nat  BY <1>1, <1>2
<1>5. /\ l \in Seq(S) /\ Len(l) = Len(a) + k
      /\ \A i \in 1..(Len(a) + k) : l[i] = c[i]
  BY <1>2, <1>4, FrontOf
<1>6. /\ r \in Seq(S) /\ Len(r) = Len(a) + k
      /\ \A i \in 1..(Len(a) + k) : r[i] = IF i <= Len(a) THEN a[i] ELSE f[i - Len(a)]
  BY <1>1, <1>3, ConcatProperties
<1> HIDE DEF l, r
<1>7. \A i \in 1..(Len(a) + k) : l[i] = r[i]
  <2> SUFFICES ASSUME NEW i \in 1..(Len(a) + k) PROVE l[i] = r[i]  OBVIOUS
  <2>1. i \in 1..(Len(a) + Len(b))  BY <1>1
  <2>2. CASE i <= Len(a)  BY <1>2, <1>5, <1>6, <2>1, <2>2
  <2>3. CASE ~(i <= Len(a))
    <3>1. i - Len(a) \in 1..k  BY <1>1, <1>4, <2>3
    <3> QED  BY <1>2, <1>3, <1>5, <1>6, <2>1, <2>3, <3>1
  <2> QED  BY <2>2, <2>3
<1>8. l = r  BY <1>5, <1>6, <1>7, SeqEqual
<1> QED  BY <1>8 DEF l, r, c, f

(* What a slot is filed under: its text is what its tokens spell, though   *)
(* each was cut on its own.                                                *)
LEMMA RecordedText ==
  ASSUME WholeCharacters, NEW q, Shape(q), SaysOK(q), NEW s
  PROVE  TextIs([seq_id |-> s, tokens |-> resident_tokens(q), text |-> resident_text(q)])
<1> DEFINE a == q.prompt_tokens  g == q.generated  at == q.at  pieces == q.pieces
           full == a \o g  x == q.text
<1>1. a \in Seq(Tokens) /\ g \in Seq(Tokens) /\ at \in Nat  BY DEF Shape
<1>2. /\ Spelled(a) = x /\ g \in Seq(Vocab)
      /\ pieces = [i \in 1..Len(g) |-> Spell[g[i]]]
  BY DEF SaysOK
<1>3. Len(a) \in Nat /\ Len(g) \in Nat  BY <1>1, LenProperties
<1>4. resident_tokens(q) = SubSeq(full, 1, Smaller(at, Len(full)))
  BY DEF resident_tokens
<1>5. Len(full) = Len(a) + Len(g)
  BY <1>1, <1>3, ConcatProperties
<1>6. SUFFICES ASSUME resident_text(q) # <<>>
               PROVE  Spelled(resident_tokens(q)) = resident_text(q)
  BY Zenon DEF TextIs
<1>7. ~(q.at < Len(q.prompt_tokens) \/ q.at > Len(q.prompt_tokens) + Len(q.generated))
  BY <1>6 DEF resident_text
<1>8. resident_text(q) = x \o FlattenSeq(SubSeq(pieces, 1,
                                   Minus(Len(pieces), (Len(a) + Len(g)) - at)))
  BY <1>7, Zenon DEF resident_text
<1>9. ~(at < Len(a)) /\ ~(at > Len(a) + Len(g))  BY <1>7
<1> HIDE DEF a, g, at, pieces, full, x
<1> DEFINE k == at - Len(a)
<1>10. k \in 0..Len(g) /\ at = Len(a) + k /\ Smaller(at, Len(full)) = at
  BY <1>1, <1>3, <1>5, <1>9 DEF Smaller
<1> HIDE DEF k
<1> DEFINE said == SubSeq(g, 1, k)
<1>11. resident_tokens(q) = a \o said
  BY <1>1, <1>4, <1>10, FrontOfBoth DEF full
<1>12. said \in Seq(Tokens) /\ Len(said) = k /\ \A i \in 1..k : said[i] = g[i]
  BY <1>1, <1>10, FrontOf
<1>13. \A i \in 1..Len(g) : g[i] \in Vocab /\ g[i] # Bos
  BY <1>2, ElementOfSeq, SlotCacheAssumption
<1>14. Len(pieces) = Len(g) /\ Minus(Len(pieces), (Len(a) + Len(g)) - at) = k
  <2>1. Len(pieces) = Len(g)  BY <1>2, <1>3
  <2> QED  BY <1>3, <1>10, <2>1 DEF Minus
<1>15. SubSeq(pieces, 1, k) = Pieces(said)
  <2> DEFINE T == {Spell[t] : t \in Vocab}  l == SubSeq(pieces, 1, k)
  <2>1. pieces \in [1..Len(g) -> T]  BY <1>2, <1>13
  <2> HIDE DEF T
  <2>2. pieces \in Seq(T)  BY <1>3, <2>1
  <2>3. l \in Seq(T) /\ Len(l) = k /\ \A i \in 1..k : l[i] = pieces[i]
    BY <1>10, <1>14, <2>2, FrontOf
  <2> DEFINE r == Pieces(said)
  <2> HIDE DEF said, l
  <2>4. /\ r \in Seq(Seq(Bytes)) /\ Len(r) = k
        /\ \A i \in 1..k : r[i] = IF said[i] = Bos THEN <<>> ELSE Spell[said[i]]
    BY <1>12, PiecesAre
  <2> HIDE DEF r
  <2>5. \A i \in 1..k : i \in 1..Len(g)  BY <1>3, <1>10
  <2>6. ASSUME NEW i \in 1..k PROVE l[i] = r[i]
    <3>1. i \in 1..Len(g)  BY <2>5
    <3>2. l[i] = Spell[g[i]]  BY <1>2, <2>3, <3>1
    <3>3. said[i] = g[i] /\ g[i] # Bos  BY <1>12, <1>13, <3>1
    <3>4. r[i] = IF said[i] = Bos THEN <<>> ELSE Spell[said[i]]  BY <2>4
    <3> QED  BY <3>2, <3>3, <3>4, Zenon
  <2>7. l = r  BY <2>3, <2>4, <2>6, SeqEqual
  <2> QED  BY <2>7 DEF l, r
<1> HIDE DEF said
<1>16. Spelled(a \o said) = Spelled(a) \o Spelled(said)  BY <1>1, <1>12, SpelledConcat
<1>17. Spelled(said) = FlattenSeq(Pieces(said))  BY Zenon DEF Spelled, Pieces
<1>18. resident_text(q) = x \o FlattenSeq(SubSeq(pieces, 1, k))
  BY <1>14, <1>8
<1> QED  BY <1>2, <1>11, <1>15, <1>16, <1>17, <1>18


(* What changes of a conversation as it is read or sampled from.           *)
LEMMA SaysOn ==
  ASSUME NEW q, Shape(q), SaysOK(q), NEW n
  PROVE  /\ SaysOK([q EXCEPT !.at = n]) /\ SaysOK([q EXCEPT !.stage = "answering"])
         /\ SaysOK([q EXCEPT !.at = n, !.may_fall_back = FALSE])
<1>1. PICK X : q \in [stage : {Read, "answering"}, text : X, prompt_tokens : Seq(Tokens),
                generated : Seq(Tokens), pieces : X, half : X, at : Nat,
                may_fall_back : X, keep_states : X, max_tokens : Nat]
  BY DEF Shape
<1> DEFINE Same(g) == /\ g.prompt_tokens = q.prompt_tokens /\ g.text = q.text
                      /\ g.half = q.half /\ g.generated = q.generated
                      /\ g.pieces = q.pieces
<1>2. /\ Same([q EXCEPT !.at = n]) /\ Same([q EXCEPT !.stage = "answering"])
      /\ Same([q EXCEPT !.at = n, !.may_fall_back = FALSE])
  BY <1>1
<1>3. ASSUME NEW g, Same(g) PROVE SaysOK(g)  BY <1>3 DEF SaysOK
<1> HIDE DEF Same
<1> QED  BY <1>2, <1>3

LEMMA SaysMore ==
  ASSUME WholeCharacters, NEW q, Shape(q), SaysOK(q), NEW t \in Seq(Vocab)
  PROVE  SaysOK(Heard(q, t))
<1>1. PICK X : q \in [stage : {Read, "answering"}, text : X, prompt_tokens : Seq(Tokens),
                generated : Seq(Tokens), pieces : X, half : X, at : Nat,
                may_fall_back : X, keep_states : X, max_tokens : Nat]
  BY DEF Shape
<1> DEFINE N == Len(t)
           is(f) == f = [i \in 0..N |->
                          IF i = 0 THEN [out |-> <<>>, half |-> q.half]
                          ELSE Piece(f[i - 1].half, t[i])]
           piece == CHOOSE f : is(f)
           h == Heard(q, t)
<1>2. N \in Nat /\ DOMAIN t = 1..N /\ \A i \in 1..N : t[i] \in Vocab
  BY LenProperties, ElementOfSeq
<1>3. h = [q EXCEPT !.generated = @ \o t,
                    !.pieces = @ \o [i \in DOMAIN t |-> piece[i].out],
                    !.half = piece[N].half]
  BY Zenon DEF Heard
<1>4. q.half = FALSE  BY DEF SaysOK
<1>5. \A u \in Vocab : Piece(FALSE, u) = [out |-> Spell[u], half |-> FALSE]
  BY DEF WholeCharacters
<1> HIDE DEF N, h
<1>6. is(piece)
  <2> DEFINE f == [i \in 0..N |-> IF i = 0 THEN [out |-> <<>>, half |-> FALSE]
                                  ELSE [out |-> Spell[t[i]], half |-> FALSE]]
  <2>1. \A i \in 0..N : f[i].half = FALSE  OBVIOUS
  <2>2. ASSUME NEW i \in 0..N, i # 0 PROVE f[i] = Piece(f[i - 1].half, t[i])
    <3>1. i \in 1..N /\ i - 1 \in 0..N  BY <1>2, <2>2
    <3>2. f[i - 1].half = FALSE  BY <2>1, <3>1
    <3>3. Piece(FALSE, t[i]) = [out |-> Spell[t[i]], half |-> FALSE]  BY <1>2, <1>5, <3>1
    <3>4. f[i] = [out |-> Spell[t[i]], half |-> FALSE]  BY <2>2
    <3> QED  BY <3>2, <3>3, <3>4
  <2>3. 0 \in 0..N => f[0] = [out |-> <<>>, half |-> q.half]  BY <1>4
  <2>4. f = [i \in 0..N |-> f[i]]  OBVIOUS
  <2> HIDE DEF f
  <2>5. is(f)  BY <2>2, <2>3, <2>4
  <2> QED  BY <2>5, Zenon
<1> HIDE DEF piece
<1>7. /\ piece[0].half = FALSE
      /\ \A i \in 1..N : piece[i] = Piece(piece[i - 1].half, t[i])
  <2>1. \A i \in 0..N : piece[i] = IF i = 0 THEN [out |-> <<>>, half |-> q.half]
                                   ELSE Piece(piece[i - 1].half, t[i])
    BY <1>6, Zenon
  <2>2. 0 \in 0..N /\ \A i \in 1..N : i \in 0..N /\ i # 0  BY <1>2
  <2>3. piece[0] = [out |-> <<>>, half |-> q.half]  BY <2>1, <2>2, Zenon
  <2>4. \A i \in 1..N : piece[i] = Piece(piece[i - 1].half, t[i])  BY <2>1, <2>2, Zenon
  <2> QED  BY <1>4, <2>3, <2>4
<1>8. \A i \in 0..N : piece[i].half = FALSE
  <2> DEFINE Off == {i \in 0..N : piece[i].half # FALSE}
  <2> SUFFICES ASSUME Off # {} PROVE FALSE  OBVIOUS
  <2>1. Off \subseteq Nat
    <3>1. 0..N \subseteq Nat  BY <1>2
    <3> QED  BY <3>1, Zenon
  <2>2. PICK i \in Off : \A u \in Off : ~(u < i)
    <3> HIDE DEF Off
    <3> QED  BY <2>1, LeastNumber
  <2>3. i \in 0..N /\ piece[i].half # FALSE  BY <2>2, Zenon
  <2>6. i \in 1..N /\ i - 1 \in 0..N /\ i - 1 < i
    <3>1. i # 0  BY <1>7, <2>3, Zenon
    <3> QED  BY <1>2, <2>3, <3>1
  <2>4. piece[i - 1].half = FALSE
    <3>1. i - 1 \notin Off  BY <2>2, <2>6
    <3> QED  BY <2>6, <3>1, Zenon
  <2>5. piece[i] = [out |-> Spell[t[i]], half |-> FALSE]
    BY <1>2, <1>5, <1>7, <2>4, <2>6
  <2>7. piece[i].half = FALSE  BY <2>5
  <2> QED  BY <2>3, <2>7, Zenon
<1>9. \A i \in 1..N : piece[i].out = Spell[t[i]]
  <2> SUFFICES ASSUME NEW i \in 1..N PROVE piece[i].out = Spell[t[i]]  OBVIOUS
  <2>1. i - 1 \in 0..N  BY <1>2
  <2>2. piece[i] = [out |-> Spell[t[i]], half |-> FALSE]
    BY <1>2, <1>5, <1>7, <1>8, <2>1
  <2> QED  BY <2>2
<1> DEFINE said == q.generated  old == q.pieces  more == [i \in DOMAIN t |-> piece[i].out]
<1>10. /\ h.prompt_tokens = q.prompt_tokens /\ h.text = q.text
       /\ h.generated = said \o t /\ h.pieces = old \o more /\ h.half = piece[N].half
  BY <1>1, <1>3
<1>11. h.half = FALSE  BY <1>2, <1>8, <1>10
<1>12. said \in Seq(Vocab) /\ old = [i \in 1..Len(said) |-> Spell[said[i]]]
  BY DEF SaysOK
<1>13. more = [i \in 1..N |-> Spell[t[i]]]  BY <1>2, <1>9
<1>14. Spelled(h.prompt_tokens) = h.text  BY <1>10 DEF SaysOK
<1> HIDE DEF said, old, more
<1>15. Len(said) \in Nat /\ \A i \in 1..Len(said) : said[i] \in Vocab
  BY <1>12, LenProperties, ElementOfSeq
<1> DEFINE T == {Spell[u] : u \in Vocab}
<1>16. /\ old \in [1..Len(said) -> T] /\ more \in [1..N -> T]
  BY <1>2, <1>12, <1>13, <1>15
<1>17. /\ \A i \in 1..Len(said) : old[i] = Spell[said[i]]
       /\ \A i \in 1..N : more[i] = Spell[t[i]]
  BY <1>12, <1>13
<1> HIDE DEF T
<1>18. old \in Seq(T) /\ Len(old) = Len(said) /\ more \in Seq(T) /\ Len(more) = N
  BY <1>2, <1>15, <1>16
<1> DEFINE both == said \o t  pieces == old \o more
<1>19. /\ both \in Seq(Vocab) /\ Len(both) = Len(said) + N
       /\ \A i \in 1..(Len(said) + N) :
            both[i] = IF i <= Len(said) THEN said[i] ELSE t[i - Len(said)]
  BY <1>12, ConcatProperties DEF N
<1>20. /\ pieces \in Seq(T) /\ Len(pieces) = Len(said) + N
       /\ \A i \in 1..(Len(said) + N) :
            pieces[i] = IF i <= Len(said) THEN old[i] ELSE more[i - Len(said)]
  <2>1. /\ old \o more \in Seq(T) /\ Len(old \o more) = Len(old) + Len(more)
        /\ \A i \in 1..(Len(old) + Len(more)) :
             (old \o more)[i] = IF i <= Len(old) THEN old[i] ELSE more[i - Len(old)]
    BY <1>18, ConcatProperties
  <2> QED  BY <1>18, <2>1
<1> HIDE DEF both, pieces
<1>21. ASSUME NEW i \in 1..(Len(said) + N) PROVE pieces[i] = Spell[both[i]]
  <2>1. CASE i <= Len(said)
    <3>1. i \in 1..Len(said)  BY <1>15, <2>1
    <3>2. both[i] = said[i] /\ pieces[i] = old[i]  BY <1>19, <1>20, <2>1
    <3> QED  BY <1>17, <3>1, <3>2
  <2>2. CASE ~(i <= Len(said))
    <3> DEFINE j == i - Len(said)
    <3>1. j \in 1..N  BY <1>2, <1>15, <2>2
    <3>2. both[i] = t[j] /\ pieces[i] = more[j]  BY <1>19, <1>20, <2>2
    <3> HIDE DEF j
    <3> QED  BY <1>17, <3>1, <3>2
  <2> QED  BY <2>1, <2>2
<1>22. pieces = [i \in 1..Len(both) |-> Spell[both[i]]]
  <2>1. pieces = [i \in 1..Len(pieces) |-> pieces[i]]  BY <1>20, LenProperties
  <2> QED  BY <1>19, <1>20, <1>21, <2>1
<1>23. h.generated = both /\ h.pieces = pieces  BY <1>10 DEF both, pieces
<1>24. SaysOK(h)
  <2> HIDE DEF h
  <2> QED  BY <1>11, <1>14, <1>19, <1>22, <1>23 DEF SaysOK
<1> QED  BY <1>24 DEF h


-----------------------------------------------------------------------------
(* What the actions do to texts. *)

LEMMA TurnTaken ==
  ASSUME CacheInv, TextOK, NEW s \in Slots, NEW g, SaysOK(g),
         active' = [active EXCEPT ![s] = g], UNCHANGED idle_slots
  PROVE  TextOK'
<1>1. active = [t \in Slots |-> active[t]]  BY DEF CacheInv, BusyOK
<1>2. \A t \in Slots : active'[t] = IF t = s THEN g ELSE active[t]  BY <1>1
<1> QED  BY <1>2 DEF TextOK

LEMMA SlotBack ==
  ASSUME CacheInv, TextOK, NEW s \in Slots, NEW e, TextIs(e),
         active' = [active EXCEPT ![s] = NoSeq], idle_slots' = Append(idle_slots, e)
  PROVE  TextOK'
<1>1. active = [t \in Slots |-> active[t]]  BY DEF CacheInv, BusyOK
<1>2. \A t \in Slots : active'[t] = IF t = s THEN NoSeq ELSE active[t]  BY <1>1
<1>3. PICK S : idle_slots \in Seq(S)  BY DEF CacheInv, IdleOK
<1> DEFINE T == S \cup {e}  n == Len(idle_slots)
<1>4. idle_slots \in Seq(T) /\ n \in Nat  BY <1>3, SeqMonotonic, LenProperties
<1>5. e \in T  OBVIOUS
<1> HIDE DEF T
<1>6. /\ Len(idle_slots') = n + 1 /\ idle_slots'[n + 1] = e
      /\ \A i \in 1..n : idle_slots'[i] = idle_slots[i]
  BY <1>4, <1>5, AppendProperties
<1>7. \A i \in 1..Len(idle_slots') : i \in 1..n \/ i = n + 1  BY <1>4, <1>6
<1>8. \A i \in 1..n : TextIs(idle_slots[i])  BY DEF TextOK
<1>9. \A i \in 1..Len(idle_slots') : TextIs(idle_slots'[i])  BY <1>6, <1>7, <1>8
<1> QED  BY <1>2, <1>9 DEF TextOK, TextIs

LEMMA WipedText ==
  ASSUME CacheInv, TextOK, NEW s \in Slots, FinishWiped(s)
  PROVE  TextOK'
<1> DEFINE e == [seq_id |-> s, tokens |-> <<>>, text |-> <<>>]
<1>1. TextIs(e)  BY DEF TextIs
<1> QED  BY <1>1, SlotBack DEF FinishWiped

LEMMA CleanText ==
  ASSUME WholeCharacters, CacheInv, TextOK, NEW s \in Slots,
         NEW q, Shape(q), SaysOK(q), NEW m, FinishClean(s, q, m)
  PROVE  TextOK'
<1> DEFINE e == [seq_id |-> s, tokens |-> resident_tokens(q), text |-> resident_text(q)]
<1>1. TextIs(e)  BY RecordedText
<1>2. active' = [active EXCEPT ![s] = NoSeq] /\ idle_slots' = Append(idle_slots, e)
  BY DEF FinishClean
<1> HIDE DEF e
<1> QED  BY <1>1, <1>2, SlotBack

LEMMA EmitText ==
  ASSUME WholeCharacters, CacheInv, TextOK, NEW s \in Slots,
         NEW q, Shape(q), SaysOK(q), NEW m, NEW trim_kv \in BOOLEAN,
         Emit(s, q, m, trim_kv)
  PROVE  TextOK'
<1> DEFINE next(t) == [Heard(q, <<t>>) EXCEPT !.stage = "answering"]
<1>1. PICK held :
        \/ FinishClean(s, q, held)
        \/ FinishWiped(s)
        \/ \E t \in Vocab :
             \/ FinishClean(s, next(t), held)
             \/ active' = [active EXCEPT ![s] = next(t)] /\ UNCHANGED idle_slots
  BY DEF Emit
<1>2. ASSUME NEW t \in Vocab PROVE Shape(next(t)) /\ SaysOK(next(t))
  <2>1. <<t>> \in Seq(Vocab) /\ <<t>> \in Seq(Tokens)  BY DEF Tokens
  <2> DEFINE h == Heard(q, <<t>>)
  <2>2. Shape(h) /\ SaysOK(h)  BY <2>1, HeardIs, SaysMore
  <2> HIDE DEF h
  <2>3. Shape([h EXCEPT !.stage = "answering"]) /\ SaysOK([h EXCEPT !.stage = "answering"])
    BY <2>2, StagedIs, SaysOn
  <2> QED  BY <2>3 DEF h
<1> HIDE DEF next
<1>3. CASE FinishClean(s, q, held)  BY <1>3, CleanText
<1>4. CASE FinishWiped(s)  BY <1>4, WipedText
<1>5. ASSUME NEW t \in Vocab, FinishClean(s, next(t), held) PROVE TextOK'
  BY <1>2, <1>5, CleanText
<1>6. ASSUME NEW t \in Vocab, active' = [active EXCEPT ![s] = next(t)], UNCHANGED idle_slots
      PROVE  TextOK'
  BY <1>2, <1>6, TurnTaken
<1> QED  BY <1>1, <1>3, <1>4, <1>5, <1>6

LEMMA StartText ==
  ASSUME CacheInv, TextOK, NEW i \in 1..Len(idle_slots), NEW p,
         NEW tokens, Spelled(tokens) = p, NEW reuse, NEW cache_prompt,
         Start(i, p, tokens, reuse, cache_prompt)
  PROVE  TextOK'
<1> DEFINE e == idle_slots[i]  s == e.seq_id  r == RemoveAt(idle_slots, i)
           blank == [seq_id |-> s, tokens |-> <<>>, text |-> <<>>]
           keep == Hybrid /\ cache_prompt
           ways == Setups(s, memory[s], tokens, reuse, keep)
           q(w) == [stage |-> Read, text |-> p, prompt_tokens |-> tokens,
                    generated |-> <<>>, pieces |-> <<>>, half |-> FALSE,
                    at |-> w.at, may_fall_back |-> w.at > 0 /\ ~w.fell_back,
                    keep_states |-> keep,
                    max_tokens |-> Smaller(MaxTokens, PerSeqCtx - Len(tokens))]
<1>1. \/ idle_slots' = Append(r, blank) /\ UNCHANGED active
      \/ \E w \in ways : idle_slots' = r /\ active' = [active EXCEPT ![s] = q(w)]
  BY DEF Start
<1>2. PICK S : idle_slots \in Seq(S)  BY DEF CacheInv, IdleOK
<1>3. Len(idle_slots) \in Nat  BY <1>2, LenProperties
<1>4. /\ r \in Seq(S) /\ Len(r) = Len(idle_slots) - 1
      /\ \A j \in 1..(Len(idle_slots) - 1) :
           r[j] = IF j < i THEN idle_slots[j] ELSE idle_slots[j + 1]
  BY <1>2, OneTakenOut
<1> HIDE DEF r
<1>5. \A j \in 1..Len(r) : TextIs(r[j])
  <2> SUFFICES ASSUME NEW j \in 1..Len(r) PROVE TextIs(r[j])  OBVIOUS
  <2>1. j \in 1..(Len(idle_slots) - 1) /\ j \in 1..Len(idle_slots)
        /\ j + 1 \in 1..Len(idle_slots)
    BY <1>3, <1>4
  <2>2. r[j] = idle_slots[j] \/ r[j] = idle_slots[j + 1]  BY <1>4, <2>1
  <2> QED  BY <2>1, <2>2 DEF TextOK
<1>6. CASE idle_slots' = Append(r, blank) /\ UNCHANGED active
  <2> DEFINE T == S \cup {blank}  n == Len(r)
  <2>1. r \in Seq(T) /\ n \in Nat  BY <1>4, SeqMonotonic, LenProperties
  <2>2. blank \in T /\ TextIs(blank)  BY DEF TextIs
  <2> HIDE DEF T, blank
  <2>3. /\ Len(idle_slots') = n + 1 /\ idle_slots'[n + 1] = blank
        /\ \A j \in 1..n : idle_slots'[j] = r[j]
    BY <1>6, <2>1, <2>2, AppendProperties
  <2>4. \A j \in 1..Len(idle_slots') : j \in 1..n \/ j = n + 1  BY <2>1, <2>3
  <2>5. \A j \in 1..Len(idle_slots') : TextIs(idle_slots'[j])  BY <1>5, <2>2, <2>3, <2>4
  <2>6. \A t \in Slots : active'[t] # NoSeq => SaysOK(active'[t])  BY <1>6 DEF TextOK
  <2> QED  BY <2>5, <2>6 DEF TextOK, TextIs
<1>7. ASSUME NEW w \in ways, idle_slots' = r, active' = [active EXCEPT ![s] = q(w)]
      PROVE  TextOK'
  <2>1. SaysOK(q(w))
    <3> DEFINE g == q(w)
    <3>1. /\ g.prompt_tokens = tokens /\ g.text = p /\ g.half = FALSE
          /\ g.generated = <<>> /\ g.pieces = <<>>
      OBVIOUS
    <3> HIDE DEF g
    <3>2. <<>> \in Seq(Vocab) /\ Len(<<>>) = 0  BY EmptySeq
    <3>3. g.pieces = [j \in 1..Len(g.generated) |-> Spell[g.generated[j]]]
      BY <3>1, <3>2
    <3>4. SaysOK(g)  BY <3>1, <3>2, <3>3 DEF SaysOK
    <3> QED  BY <3>4 DEF g
  <2>2. active = [t \in Slots |-> active[t]]  BY DEF CacheInv, BusyOK
  <2> HIDE DEF q, s
  <2>3. \A t \in Slots : active'[t] = IF t = s THEN q(w) ELSE active[t]  BY <1>7, <2>2
  <2>4. \A t \in Slots : active'[t] # NoSeq => SaysOK(active'[t])
    BY <2>1, <2>3 DEF TextOK
  <2>5. \A j \in 1..Len(idle_slots') : TextIs(idle_slots'[j])  BY <1>5, <1>7
  <2> QED  BY <2>4, <2>5 DEF TextOK, TextIs
<1> QED  BY <1>1, <1>6, <1>7


LEMMA AdmittedText ==
  ASSUME WholeCharacters, CacheInv, TextOK, NEW p \in Prompts, AdmitByText(p)
  PROVE  TextOK'
<1>1. PICK i \in text_prefix_match(p) :
        LET base   == idle_slots[i].tokens
            tokens == base \o Tokenize[SubSeq(p, Len(idle_slots[i].text) + 1, Len(p))]
        IN  Start(i, p, tokens, Reuse(Len(base), tokens), TRUE)
  BY DEF AdmitByText
<1>2. IdleOK(idle_slots, memory, active)  BY DEF CacheInv
<1>3. PICK S : idle_slots \in Seq(S)  BY <1>2 DEF IdleOK
<1>4. /\ i \in 1..Len(idle_slots) /\ idle_slots[i].text \in Prefixes(p)
      /\ idle_slots[i].text # <<>>
  BY <1>3, LenProperties DEF text_prefix_match
<1>5. PICK l \in 0..Len(p) : idle_slots[i].text = SubSeq(p, 1, l)
  BY <1>4 DEF Prefixes
<1>6. p \in Seq(Range(p)) /\ Len(p) \in Nat  BY SlotCacheAssumption, LenProperties
<1>7. Len(idle_slots[i].text) = l  BY <1>5, <1>6, FrontOf
<1> DEFINE base == idle_slots[i].tokens
           left == SubSeq(p, l + 1, Len(p))
           rest == Tokenize[left]
           tokens == base \o rest
<1>8. Start(i, p, tokens, Reuse(Len(base), tokens), TRUE)  BY <1>1, <1>7
<1>9. base \in Seq(Tokens)  BY <1>2, <1>4 DEF IdleOK, Entry
<1>10. rest \in Seq(Tokens) /\ Spelled(rest) = left
  <2>1. l + 1 \in 1..(Len(p) + 1)  BY <1>6
  <2>2. rest \in Seq(Vocab)  BY <2>1, SlotCacheAssumption
  <2>3. Spelled(rest) = left  BY <2>1 DEF WholeCharacters
  <2> QED  BY <2>2, <2>3, SeqMonotonic DEF Tokens
<1>11. Spelled(base) = SubSeq(p, 1, l)  BY <1>4, <1>5 DEF TextOK, TextIs
<1> HIDE DEF base, rest
<1>12. Spelled(tokens) = SubSeq(p, 1, l) \o left
  <2>1. Spelled(base \o rest) = Spelled(base) \o Spelled(rest)
    BY <1>9, <1>10, SpelledConcat
  <2> QED  BY <1>10, <1>11, <2>1
<1>13. SubSeq(p, 1, l) \o left = p
  <2>1. l \in 0..Len(p) /\ Len(p) \in l..Len(p) /\ SubSeq(p, 1, Len(p)) = p
    BY <1>6, SubSeqFull
  <2> QED  BY <1>6, <2>1, ReadOn
<1> HIDE DEF tokens, left
<1>14. Spelled(tokens) = p  BY <1>12, <1>13
<1> QED  BY <1>4, <1>8, <1>14, StartText

LEMMA AdmittedTokens ==
  ASSUME WholeCharacters, CacheInv, TextOK, NEW p \in Prompts, NEW cache_prompt \in BOOLEAN,
         AdmitByTokens(p, cache_prompt)
  PROVE  TextOK'
<1> DEFINE tokens == <<Bos>> \o Tokenize[p]  i == PickSlot(tokens)
<1>1. /\ idle_slots # <<>>
      /\ \E reuse : Start(i, p, tokens, reuse, cache_prompt)
  BY Zenon DEF AdmitByTokens
<1>2. IdleOK(idle_slots, memory, active)  BY DEF CacheInv
<1>3. p \in Seq(Range(p)) /\ Len(p) \in Nat  BY SlotCacheAssumption, LenProperties
<1>4. 1 \in 1..(Len(p) + 1) /\ SubSeq(p, 1, Len(p)) = p  BY <1>3, SubSeqFull
<1>5. Tokenize[p] \in Seq(Tokens) /\ Spelled(Tokenize[p]) = p
  <2>1. Tokenize[SubSeq(p, 1, Len(p))] \in Seq(Vocab)  BY <1>4, SlotCacheAssumption
  <2>2. Spelled(Tokenize[SubSeq(p, 1, Len(p))]) = SubSeq(p, 1, Len(p))
    BY <1>4 DEF WholeCharacters
  <2> QED  BY <1>4, <2>1, <2>2, SeqMonotonic DEF Tokens
<1>6. <<Bos>> \in Seq(Tokens)  BY DEF Tokens
<1>7. Spelled(<<Bos>>) = <<>>
  <2> DEFINE b == <<Bos>>  x == Pieces(b)
  <2>1. b \in Seq(Tokens) /\ Len(b) = 1 /\ b[1] = Bos  BY <1>6
  <2> HIDE DEF b
  <2>2. /\ x \in Seq(Seq(Bytes)) /\ Len(x) = Len(b)
        /\ \A j \in 1..Len(b) : x[j] = IF b[j] = Bos THEN <<>> ELSE Spell[b[j]]
    BY <2>1, PiecesAre
  <2> HIDE DEF x
  <2>3. Len(x) = 1 /\ x[1] = <<>>  BY <2>1, <2>2
  <2>4. PICK f : /\ f[0] = <<>> /\ \A n \in 1..Len(x) : f[n] = f[n - 1] \o x[n]
                 /\ FlattenSeq(x) = f[Len(x)]
    BY <2>2, FlatIs
  <2>5. f[1] = f[0] \o x[1] /\ FlattenSeq(x) = f[1]
    <3>1. 1 \in 1..Len(x) /\ 1 - 1 = 0  BY <2>3
    <3>2. f[1] = f[1 - 1] \o x[1]  BY <2>4, <3>1
    <3> QED  BY <2>3, <2>4, <3>1, <3>2
  <2>6. <<>> \o <<>> = <<>>
    <3>1. <<>> \in Seq(Tokens)  BY EmptySeq
    <3> QED  BY <3>1, ConcatEmptySeq
  <2>7. Spelled(b) = FlattenSeq(x)  BY Zenon DEF Spelled, Pieces, x
  <2> QED  BY <2>3, <2>4, <2>5, <2>6, <2>7 DEF b
<1>8. Spelled(tokens) = p
  <2>1. Spelled(tokens) = Spelled(<<Bos>>) \o Spelled(Tokenize[p])
    BY <1>5, <1>6, SpelledConcat
  <2>2. <<>> \o p = p  BY <1>3, ConcatEmptySeq
  <2> QED  BY <1>5, <1>7, <2>1, <2>2
<1>9. tokens \in Seq(Tokens)  BY <1>5, <1>6, ConcatProperties
<1> HIDE DEF tokens
<1>10. i \in 1..Len(idle_slots)  BY <1>1, <1>2, <1>9, PickedIsIdle
<1> HIDE DEF i
<1> QED  BY <1>1, <1>8, <1>10, StartText

LEMMA ReadPartText ==
  ASSUME WholeCharacters, CacheInv, TextOK, NEW s \in Slots, ReadPart(s)
  PROVE  TextOK'
<1> DEFINE q == active[s]
<1>1. active[s] # NoSeq /\ q.stage = Read  BY DEF ReadPart
<1>2. /\ Shape(q) /\ SaysOK(q)
      /\ q.at \in 0..(Len(q.prompt_tokens) - 1) /\ Len(q.prompt_tokens) \in Nat \ {0}
  BY <1>1, ReadingIs DEF TextOK
<1>3. PICK to \in ReadsTo(q) :
        \/ active' = [active EXCEPT ![s].at = to] /\ UNCHANGED idle_slots
        \/ \E m : Emit(s, [q EXCEPT !.at = to], m, FALSE)
  BY DEF ReadPart
<1>4. to \in Nat  BY <1>2 DEF ReadsTo
<1> DEFINE g == [q EXCEPT !.at = to]
<1>5. Shape(g) /\ SaysOK(g)  BY <1>2, <1>4, MovedIs, SaysOn
<1>6. CASE active' = [active EXCEPT ![s].at = to] /\ UNCHANGED idle_slots
  <2>1. active' = [active EXCEPT ![s] = g]  BY <1>6
  <2> HIDE DEF g
  <2> QED  BY <1>5, <1>6, <2>1, TurnTaken
<1>7. CASE \E m : Emit(s, g, m, FALSE)
  <2> HIDE DEF g
  <2> QED  BY <1>5, <1>7, EmitText
<1> QED  BY <1>3, <1>6, <1>7

LEMMA ReadFailsText ==
  ASSUME CacheInv, TextOK, NEW s \in Slots, ReadFails(s)
  PROVE  TextOK'
<1> DEFINE q == active[s]
<1>1. active[s] # NoSeq /\ q.stage = Read  BY DEF ReadFails
<1>2. Shape(q) /\ SaysOK(q)  BY <1>1, ReadingIs DEF TextOK
<1>3. CASE q.may_fall_back
  <2>1. PICK r : active' = [active EXCEPT ![s].at = r.at, ![s].may_fall_back = FALSE]
    BY <1>3 DEF ReadFails
  <2> DEFINE g == [q EXCEPT !.at = r.at, !.may_fall_back = FALSE]
  <2>2. active' = [active EXCEPT ![s] = g] /\ UNCHANGED idle_slots
    <3>1. active' = [[active EXCEPT ![s].at = r.at] EXCEPT ![s].may_fall_back = FALSE]
      BY <2>1
    <3> QED  BY <1>3, <3>1 DEF CacheInv, BusyOK, ReadFails
  <2>3. SaysOK(g)  BY <1>2, SaysOn
  <2> HIDE DEF g
  <2> QED  BY <2>2, <2>3, TurnTaken
<1>4. CASE ~q.may_fall_back
  <2>1. FinishWiped(s)  BY <1>4 DEF ReadFails
  <2> QED  BY <2>1, WipedText
<1> QED  BY <1>3, <1>4

LEMMA AnswerText ==
  ASSUME WholeCharacters, CacheInv, TextOK, NEW s \in Slots, Answer(s)
  PROVE  TextOK'
<1> DEFINE q == active[s]  g == [q EXCEPT !.at = q.at + 1]
<1>1. /\ active[s] # NoSeq /\ q.stage = "answering" /\ \E m : Emit(s, g, m, FALSE)
  BY DEF Answer
<1>2. Shape(q) /\ SaysOK(q) /\ q.at \in Nat  BY <1>1, AnsweringIs DEF TextOK
<1>3. Shape(g) /\ SaysOK(g)
  <2>1. q.at + 1 \in Nat  BY <1>2
  <2> QED  BY <1>2, <2>1, MovedIs, SaysOn
<1> HIDE DEF g
<1> QED  BY <1>1, <1>3, EmitText

LEMMA MtpStepText ==
  ASSUME WholeCharacters, CacheInv, TextOK, NEW s \in Slots, MtpStep(s)
  PROVE  TextOK'
<1> DEFINE q == active[s]  pos0 == q.at
           handed(d, n) == [Heard(q, SubSeq(d, 1, n)) EXCEPT !.at = pos0 + 1 + n]
<1>1. active[s] # NoSeq /\ q.stage = "answering"  BY DEF MtpStep
<1>2. PICK drafts \in Drafts(q) : \E kept \in 0..Len(drafts) :
        \/ FinishWiped(s)
        \/ \E m : EmitPick(s, handed(drafts, kept), m)
        \/ \E n \in 1..kept :
             \E m : FinishClean(s, [handed(drafts, n) EXCEPT !.at = pos0 + n], m)
  BY Zenon DEF MtpStep
<1>3. PICK kept \in 0..Len(drafts) :
        \/ FinishWiped(s)
        \/ \E m : EmitPick(s, handed(drafts, kept), m)
        \/ \E n \in 1..kept :
             \E m : FinishClean(s, [handed(drafts, n) EXCEPT !.at = pos0 + n], m)
  BY <1>2
<1>4. Shape(q) /\ SaysOK(q) /\ pos0 \in Nat  BY <1>1, AnsweringIs DEF TextOK
<1>5. drafts \in Seq(Vocab) /\ Len(drafts) \in Nat
  <2>1. PICK x : drafts \in UNION {[1..n -> Vocab] : n \in 0..Smaller(x, mtp)}
    BY DEF Drafts
  <2>2. PICK n \in 0..Smaller(x, mtp) : drafts \in [1..n -> Vocab]  BY <2>1
  <2>3. n \in Nat  BY <2>2
  <2> QED  BY <2>2, <2>3
<1> HIDE DEF pos0
<1>6. ASSUME NEW n \in 0..Len(drafts)
      PROVE  Shape(handed(drafts, n)) /\ SaysOK(handed(drafts, n))
  <2> DEFINE t == SubSeq(drafts, 1, n)  h == Heard(q, t)
  <2>1. t \in Seq(Vocab) /\ t \in Seq(Tokens)
    <3>1. t \in Seq(Vocab)  BY <1>5, FrontOf
    <3> HIDE DEF t
    <3> QED  BY <3>1, SeqMonotonic DEF Tokens
  <2> HIDE DEF t
  <2>2. Shape(h) /\ SaysOK(h)  BY <1>4, <2>1, HeardIs, SaysMore
  <2>3. pos0 + 1 + n \in Nat  BY <1>4, <1>5
  <2> HIDE DEF h
  <2>4. Shape([h EXCEPT !.at = pos0 + 1 + n]) /\ SaysOK([h EXCEPT !.at = pos0 + 1 + n])
    BY <2>2, <2>3, MovedIs, SaysOn
  <2> QED  BY <2>4 DEF h, t
<1> HIDE DEF handed
<1>7. CASE FinishWiped(s)  BY <1>7, WipedText
<1>8. ASSUME NEW m, EmitPick(s, handed(drafts, kept), m) PROVE TextOK'
  BY <1>6, <1>8, EmitText DEF EmitPick
<1>9. ASSUME NEW n \in 1..kept, NEW c,
             FinishClean(s, [handed(drafts, n) EXCEPT !.at = pos0 + n], c)
      PROVE  TextOK'
  <2>1. n \in 0..Len(drafts) /\ pos0 + n \in Nat  BY <1>4, <1>5
  <2> DEFINE h == handed(drafts, n)  g == [h EXCEPT !.at = pos0 + n]
  <2>2. Shape(h) /\ SaysOK(h)  BY <1>6, <2>1
  <2> HIDE DEF h
  <2>3. Shape(g) /\ SaysOK(g)  BY <2>1, <2>2, MovedIs, SaysOn
  <2>4. FinishClean(s, g, c)  BY <1>9 DEF h
  <2> HIDE DEF g
  <2> QED  BY <2>3, <2>4, CleanText
<1> QED  BY <1>3, <1>7, <1>8, <1>9

LEMMA StepFailsText == ASSUME CacheInv, TextOK, StepFails PROVE TextOK'
<1> DEFINE failed == {s \in Slots : active[s] # NoSeq /\ active[s].stage = "answering"}
           n == Cardinality(failed)
           more(order) == [i \in DOMAIN order |->
                            [seq_id |-> order[i], tokens |-> <<>>, text |-> <<>>]]
<1>1. PICK order \in Injection(1..n, failed) : idle_slots' = idle_slots \o more(order)
  BY DEF StepFails
<1>2. active' = [s \in Slots |-> IF s \in failed THEN NoSeq ELSE active[s]]
  BY DEF StepFails
<1>3. n \in Nat
  <2>1. IsFiniteSet(failed)  BY FS_Subset, SlotCacheAssumption
  <2> QED  BY <2>1, FS_CardinalityType
<1>4. order \in [1..n -> failed]  BY <1>1 DEF Injection
<1> HIDE DEF failed, n
<1> DEFINE T == [seq_id : failed, tokens : {<<>>}, text : {<<>>}]  m == more(order)
<1>5. m \in Seq(T) /\ Len(m) = n /\ \A i \in 1..n : TextIs(m[i])
  <2>1. m \in [1..n -> T]  BY <1>4
  <2>2. \A i \in 1..n : m[i].text = <<>>  BY <1>4
  <2> HIDE DEF T, m
  <2>3. m \in Seq(T) /\ Len(m) = n  BY <1>3, <2>1
  <2> QED  BY <2>2, <2>3 DEF TextIs
<1>6. PICK S : idle_slots \in Seq(S)  BY DEF CacheInv, IdleOK
<1> DEFINE U == S \cup T  k == Len(idle_slots)
<1> HIDE DEF m, T
<1>7. idle_slots \in Seq(U) /\ m \in Seq(U)  BY <1>5, <1>6, SeqMonotonic
<1> HIDE DEF U
<1>8. /\ Len(idle_slots') = k + n /\ k \in Nat
      /\ \A i \in 1..(k + n) : idle_slots'[i] = IF i <= k THEN idle_slots[i] ELSE m[i - k]
  BY <1>1, <1>5, <1>7, ConcatProperties, LenProperties DEF m
<1>9. \A i \in 1..k : TextIs(idle_slots[i])  BY DEF TextOK
<1> HIDE DEF k
<1>10. ASSUME NEW i \in 1..Len(idle_slots') PROVE TextIs(idle_slots'[i])
  <2>1. i \in 1..(k + n)  BY <1>8
  <2>2. CASE i <= k  BY <1>8, <1>9, <2>1, <2>2
  <2>3. CASE ~(i <= k)
    <3>1. i - k \in 1..n  BY <1>3, <1>8, <2>1, <2>3
    <3> QED  BY <1>5, <1>8, <2>1, <2>3, <3>1
  <2> QED  BY <2>2, <2>3
<1>11. \A s \in Slots : active'[s] # NoSeq => SaysOK(active'[s])
  BY <1>2 DEF TextOK
<1> QED  BY <1>10, <1>11 DEF TextOK, TextIs

LEMMA InitText == Init => TextOK
<1> SUFFICES ASSUME Init PROVE TextOK  OBVIOUS
<1>1. PICK n \in BatchSizes :
        idle_slots = [i \in 1..n |-> [seq_id |-> i - 1, tokens |-> <<>>, text |-> <<>>]]
  BY DEF Init
<1>2. n \in Nat /\ Len(idle_slots) = n  BY <1>1, SlotCacheAssumption
<1>3. \A i \in 1..n : idle_slots[i].text = <<>>  BY <1>1
<1>4. \A s \in Slots : active[s] = NoSeq  BY DEF Init
<1> QED  BY <1>2, <1>3, <1>4 DEF TextOK, TextIs

LEMMA StepText ==
  ASSUME WholeCharacters, CacheInv, TextOK, [Next]_vars PROVE TextOK'
<1>1. ASSUME NEW p \in Prompts, AdmitByText(p) PROVE TextOK'
  BY <1>1, AdmittedText
<1>2. ASSUME NEW p \in Prompts, NEW cache_prompt \in BOOLEAN, AdmitByTokens(p, cache_prompt)
      PROVE  TextOK'
  BY <1>2, AdmittedTokens
<1>3. ASSUME NEW s \in Slots, ReadPart(s) PROVE TextOK'  BY <1>3, ReadPartText
<1>4. ASSUME NEW s \in Slots, ReadFails(s) PROVE TextOK'  BY <1>4, ReadFailsText
<1>5. ASSUME NEW s \in Slots, ReaderLeaves(s) PROVE TextOK'
  BY <1>5, WipedText DEF ReaderLeaves
<1>6. ASSUME NEW s \in Slots, Answer(s) PROVE TextOK'  BY <1>6, AnswerText
<1>7. ASSUME NEW s \in Slots, MtpStep(s) PROVE TextOK'  BY <1>7, MtpStepText
<1>8. CASE StepFails  BY <1>8, StepFailsText
<1>9. CASE UNCHANGED vars  BY <1>9 DEF vars, TextOK
<1> QED  BY <1>1, <1>2, <1>3, <1>4, <1>5, <1>6, <1>7, <1>8, <1>9 DEF Next

(* The tokens a prompt is read as spell the prompt, whatever spelling the  *)
(* answers before it happened to choose, if no token cuts a character and  *)
(* the tokenizer loses nothing.                                            *)
THEOREM TokensSpellThePrompt ==
  ASSUME WholeCharacters PROVE Spec => []PromptIsItsTokens
<1>1. CacheInv /\ TextOK /\ [Next]_vars => (CacheInv /\ TextOK)'
  BY StepOK, StepText
<1>2. CacheInv /\ TextOK => PromptIsItsTokens
  BY DEF TextOK, SaysOK, PromptIsItsTokens, Busy
<1> QED  BY InitOK, InitText, <1>1, <1>2, PTL DEF Spec
=============================================================================
