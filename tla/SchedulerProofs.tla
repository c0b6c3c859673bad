-------------------------- MODULE SchedulerProofs --------------------------
(***************************************************************************)
(* What holds of the scheduler for every number of requests and slots,     *)
(* every queue and channel capacity and every size of prompt and batch.    *)
(***************************************************************************)
EXTENDS Scheduler, SequenceTheorems, FiniteSetTheorems, WellFoundedInduction, TLAPS

-----------------------------------------------------------------------------
(* prompt_budget. *)

(* With fewer answers than the batch holds tokens, a step has room for     *)
(* prompt beside them, a micro-batch of it at most, and stays in the batch *)
(* (prompt_budget's comment, l.2913-2928).                                 *)
THEOREM PromptBudgetFits ==
  ASSUME NEW answering \in Nat, NEW oldest \in Nat, answering < NBatch
  PROVE  /\ PromptBudget(answering, oldest) \in 1..(NBatch - answering)
         /\ answering > 0 => PromptBudget(answering, oldest) <= NUBatch
<1>1. CASE answering = 0
  <2> DEFINE m == Greatest(oldest, 1)
             up == NextMultiple(m, NUBatch)
  <2>1. m \in Nat /\ m >= 1  BY DEF Greatest
  <2>2. up \in Nat /\ up >= 1
    <3> DEFINE q == (m + NUBatch - 1) \div NUBatch
    <3>1. q \in Nat /\ q >= 1  BY <2>1, SizesAssumption
    <3>2. up = q * NUBatch  BY DEF NextMultiple
    <3> HIDE DEF q, up
    <3>3. q * NUBatch >= 1 /\ q * NUBatch \in Nat  BY <3>1, SizesAssumption
    <3>4. QED BY <3>2, <3>3
  <2>3. PromptBudget(answering, oldest) = Least(up, NBatch)
    BY <1>1 DEF PromptBudget
  <2> HIDE DEF up, m
  <2>4. QED BY <1>1, <2>2, <2>3, SizesAssumption DEF Least
<1>2. CASE answering > 0
  <2> DEFINE half == NUBatch \div 2
  <2>1. half \in Nat /\ half >= 1 /\ half <= NUBatch  BY SizesAssumption
  <2>2. PromptBudget(answering, oldest)
          = Least(Greatest(Minus(NUBatch, answering), half), Minus(NBatch, answering))
    BY <1>2 DEF PromptBudget
  <2> HIDE DEF half
  <2>3. QED BY <1>2, <2>1, <2>2, SizesAssumption DEF Least, Greatest, Minus
<1>3. QED BY <1>1, <1>2
-----------------------------------------------------------------------------
(* Sums over finite sets. *)

LEMMA LeastNumber ==
  ASSUME NEW T, T \subseteq Nat, T # {}
  PROVE  \E t \in T : \A u \in T : ~(u < t)
<1>1. \E t \in T : \A u \in T : ~(<<u, t>> \in OpToRel(<, Nat))
  BY NatLessThanWellFounded, WFMin, Zenon
<1>2. \A t \in T, u \in T : u < t => <<u, t>> \in OpToRel(<, Nat)
  BY Zenon DEF OpToRel
<1> QED  BY <1>1, <1>2, Zenon

(* Of finite sets, some have the fewest elements.                          *)
LEMMA SmallestSet ==
  ASSUME NEW B, B # {}, \A s \in B : IsFiniteSet(s)
  PROVE  \E s \in B : \A t \in B : ~(Cardinality(t) < Cardinality(s))
<1> DEFINE T == {Cardinality(s) : s \in B}
<1>1. T \subseteq Nat  BY FS_CardinalityType
<1>2. T # {}  OBVIOUS
<1> HIDE DEF T
<1>3. PICK n \in T : \A u \in T : ~(u < n)  BY <1>1, <1>2, LeastNumber
<1>4. PICK s \in B : n = Cardinality(s)  BY <1>3 DEF T
<1>5. \A t \in B : Cardinality(t) \in T  BY DEF T
<1> QED  BY <1>3, <1>4, <1>5

Some(s) == CHOOSE x \in s : TRUE

(* Total's function, on the sets of D.                                     *)
Adds(f, D, g) ==
  g = [s \in D |-> IF s = {} THEN 0 ELSE f[Some(s)] + g[s \ {Some(s)}]]

LEMMA SomeIsIn ==
  ASSUME NEW s, s # {}
  PROVE  Some(s) \in s
BY DEF Some

LEMMA OneLess ==
  ASSUME NEW s, IsFiniteSet(s), NEW x \in s
  PROVE  /\ IsFiniteSet(s \ {x})
         /\ Cardinality(s \ {x}) = Cardinality(s) - 1
         /\ Cardinality(s \ {x}) < Cardinality(s)
         /\ Cardinality(s) \in Nat /\ Cardinality(s \ {x}) \in Nat
<1>1. IsFiniteSet(s \ {x}) /\ Cardinality(s \ {x}) = Cardinality(s) - 1
  BY FS_RemoveElement
<1>2. Cardinality(s) \in Nat /\ Cardinality(s \ {x}) \in Nat  BY <1>1, FS_CardinalityType
<1> QED  BY <1>1, <1>2

LEMMA AddsIsThere ==
  ASSUME NEW f, NEW S, IsFiniteSet(S)
  PROVE  \E g : Adds(f, SUBSET S, g)
<1> DEFINE Upto(k) == {s \in SUBSET S : Cardinality(s) <= k}
           Bad == {k \in Nat : ~ \E g : Adds(f, Upto(k), g)}
<1>1. \A s \in SUBSET S : IsFiniteSet(s) /\ Cardinality(s) \in Nat
  BY FS_Subset, FS_CardinalityType
<1>2. Bad = {}
  <2> SUFFICES ASSUME Bad # {} PROVE FALSE  OBVIOUS
  <2>1. PICK k \in Bad : \A u \in Bad : ~(u < k)
    <3>1. Bad \subseteq Nat  OBVIOUS
    <3> HIDE DEF Bad
    <3> QED  BY <3>1, LeastNumber
  <2>2. CASE k = 0
    <3> DEFINE g == [s \in Upto(0) |-> 0]
    <3>1. \A s \in Upto(0) : s = {}
      <4> TAKE s \in Upto(0)
      <4>1. IsFiniteSet(s) /\ Cardinality(s) = 0  BY <1>1
      <4> QED  BY <4>1, FS_EmptySet
    <3> HIDE DEF Upto
    <3>2. Adds(f, Upto(0), g)  BY <3>1 DEF Adds
    <3> QED  BY <2>2, <3>2
  <2>3. CASE k # 0
    <3>1. k - 1 \in Nat /\ k - 1 < k  BY <2>3
    <3>2. PICK h : Adds(f, Upto(k - 1), h)  BY <2>1, <3>1
    <3> DEFINE v(s) == IF s = {} THEN 0 ELSE f[Some(s)] + h[s \ {Some(s)}]
               g == [s \in Upto(k) |-> v(s)]
    <3>3. \A s \in Upto(k) : s # {} => s \ {Some(s)} \in Upto(k - 1)
      <4> SUFFICES ASSUME NEW s \in Upto(k), s # {} PROVE s \ {Some(s)} \in Upto(k - 1)
        OBVIOUS
      <4>1. Some(s) \in s  BY SomeIsIn
      <4>2. IsFiniteSet(s) /\ Cardinality(s) <= k /\ s \in SUBSET S  BY <1>1
      <4>3. Cardinality(s \ {Some(s)}) = Cardinality(s) - 1 /\ Cardinality(s) \in Nat
        BY <4>1, <4>2, OneLess
      <4>4. s \ {Some(s)} \in SUBSET S  BY <4>2
      <4> QED  BY <4>2, <4>3, <4>4
    <3>4. \A s \in Upto(k - 1) : s \in Upto(k)
      <4> TAKE s \in Upto(k - 1)
      <4>1. Cardinality(s) \in Nat  BY <1>1
      <4> QED  BY <3>1, <4>1
    <3> HIDE DEF Upto
    <3>5. \A s \in Upto(k - 1) : h[s] = v(s)  BY <3>2 DEF Adds
    <3>6. \A s \in Upto(k - 1) : g[s] = h[s]  BY <3>4, <3>5
    <3>7. \A s \in Upto(k) : v(s) = IF s = {} THEN 0 ELSE f[Some(s)] + g[s \ {Some(s)}]
      BY <3>3, <3>6
    <3> HIDE DEF v
    <3>8. \A s \in Upto(k) : g[s] = IF s = {} THEN 0 ELSE f[Some(s)] + g[s \ {Some(s)}]
      BY <3>7
    <3>9. g = [s \in Upto(k) |-> g[s]]  OBVIOUS
    <3> HIDE DEF g
    <3>10. Adds(f, Upto(k), g)  BY <3>8, <3>9 DEF Adds
    <3> QED  BY <3>10
  <2> QED  BY <2>2, <2>3
<1>3. Cardinality(S) \in Nat  BY FS_CardinalityType
<1>4. Upto(Cardinality(S)) = SUBSET S
  <2>1. \A s \in SUBSET S : Cardinality(s) <= Cardinality(S)  BY FS_Subset
  <2> QED  BY <2>1
<1> QED  BY <1>2, <1>3, <1>4

LEMMA TotalIs ==
  ASSUME NEW f, NEW S, IsFiniteSet(S)
  PROVE  \E g : Adds(f, SUBSET S, g) /\ Total(f, S) = g[S]
<1> DEFINE g == CHOOSE g : Adds(f, SUBSET S, g)
<1>1. Adds(f, SUBSET S, g)
  BY AddsIsThere, Zenon
<1>2. Total(f, S) = g[S]
  BY DEF Total, MapThenSumSet, MapThenFoldSet, Adds, Some
<1> QED  BY <1>1, <1>2


(* Total's function is one.                                                *)
Sums(f, S, g) == Adds(f, SUBSET S, g)

LEMMA AddsAgree ==
  ASSUME NEW f, NEW S, IsFiniteSet(S), NEW T, T \subseteq S,
         NEW g, Sums(f, S, g), NEW h, Sums(f, T, h)
  PROVE  g[T] = h[T]
<1> USE DEF Sums
<1> DEFINE Bad == {s \in SUBSET T : g[s] # h[s]}
<1>1. \A s \in SUBSET T : s \in SUBSET S /\ IsFiniteSet(s)  BY FS_Subset
<1>2. Bad = {}
  <2> SUFFICES ASSUME Bad # {} PROVE FALSE  OBVIOUS
  <2>1. PICK s \in Bad : \A t \in Bad : ~(Cardinality(t) < Cardinality(s))
    <3>1. \A t \in Bad : IsFiniteSet(t)  BY <1>1
    <3> HIDE DEF Bad
    <3> QED  BY <3>1, SmallestSet
  <2>2. s \in SUBSET T /\ s \in SUBSET S /\ IsFiniteSet(s) /\ g[s] # h[s]  BY <1>1
  <2>3. CASE s = {}
    <3>1. g[s] = 0 /\ h[s] = 0  BY <2>2, <2>3 DEF Adds
    <3> QED  BY <2>2, <3>1
  <2>4. CASE s # {}
    <3>1. Some(s) \in s  BY <2>4, SomeIsIn
    <3>2. s \ {Some(s)} \notin Bad  BY <2>1, <2>2, <3>1, OneLess
    <3>3. g[s \ {Some(s)}] = h[s \ {Some(s)}]  BY <2>2, <3>2
    <3>4. /\ g[s] = f[Some(s)] + g[s \ {Some(s)}]
          /\ h[s] = f[Some(s)] + h[s \ {Some(s)}]
      BY <2>2, <2>4 DEF Adds
    <3> QED  BY <2>2, <3>3, <3>4
  <2> QED  BY <2>3, <2>4
<1> QED  BY <1>2

LEMMA TotalOfNone == \A f : Total(f, {}) = 0
<1> TAKE f
<1>1. PICK g : Adds(f, SUBSET {}, g) /\ Total(f, {}) = g[{}]  BY TotalIs, FS_EmptySet
<1>2. g[{}] = 0  BY <1>1 DEF Adds
<1> QED  BY <1>1, <1>2

LEMMA TotalOfSome ==
  ASSUME NEW f, NEW S, IsFiniteSet(S), S # {}
  PROVE  Total(f, S) = f[Some(S)] + Total(f, S \ {Some(S)})
<1>1. Some(S) \in S  BY SomeIsIn
<1> DEFINE T == S \ {Some(S)}
<1>2. T \in SUBSET S /\ IsFiniteSet(T)  BY <1>1, OneLess
<1>3. PICK g : Adds(f, SUBSET S, g) /\ Total(f, S) = g[S]  BY TotalIs
<1>4. PICK h : Adds(f, SUBSET T, h) /\ Total(f, T) = h[T]  BY <1>2, TotalIs
<1>5. g[S] = f[Some(S)] + g[T]  BY <1>3 DEF Adds
<1> HIDE DEF T
<1>6. g[T] = h[T]
  <2>1. Sums(f, S, g) /\ Sums(f, T, h) /\ T \subseteq S  BY <1>2, <1>3, <1>4 DEF Sums
  <2> QED  BY <2>1, AddsAgree
<1> QED  BY <1>3, <1>4, <1>5, <1>6 DEF T

(* A sum of natural numbers is one, whichever comes first.                 *)
LEMMA TotalAdds ==
  ASSUME NEW R, IsFiniteSet(R), NEW f, \A x \in R : f[x] \in Nat
  PROVE  \A S \in SUBSET R : /\ Total(f, S) \in Nat
                             /\ \A x \in S : Total(f, S) = f[x] + Total(f, S \ {x})
<1> DEFINE Good(S) == /\ Total(f, S) \in Nat
                      /\ \A x \in S : Total(f, S) = f[x] + Total(f, S \ {x})
           Bad == {S \in SUBSET R : ~Good(S)}
<1>1. \A s \in SUBSET R : IsFiniteSet(s)  BY FS_Subset
<1>2. Bad = {}
  <2> SUFFICES ASSUME Bad # {} PROVE FALSE  OBVIOUS
  <2>1. PICK S \in Bad : \A t \in Bad : ~(Cardinality(t) < Cardinality(S))
    <3>1. \A t \in Bad : IsFiniteSet(t)  BY <1>1
    <3> HIDE DEF Bad
    <3> QED  BY <3>1, SmallestSet
  <2>2. S \in SUBSET R /\ IsFiniteSet(S) /\ ~Good(S)  BY <1>1
  <2>3. CASE S = {}
    <3>1. Good({})  BY TotalOfNone
    <3> QED  BY <2>2, <2>3, <3>1
  <2>4. CASE S # {}
    <3> DEFINE y == Some(S)
               T == S \ {y}
    <3>1. y \in S  BY <2>4, SomeIsIn
    <3>2. T \in SUBSET R /\ IsFiniteSet(T) /\ Cardinality(T) < Cardinality(S)
      BY <2>2, <3>1, OneLess
    <3>3. Total(f, S) = f[y] + Total(f, T)  BY <2>2, <2>4, TotalOfSome
    <3> HIDE DEF y
    <3>4. Good(T)
      <4>1. T \notin Bad  BY <2>1, <3>2
      <4> QED  BY <3>2, <4>1
    <3>5. f[y] \in Nat /\ Total(f, T) \in Nat  BY <2>2, <3>1, <3>4
    <3>6. ASSUME NEW x \in S PROVE Total(f, S) = f[x] + Total(f, S \ {x})
      <4>1. CASE x = y  BY <3>3, <4>1
      <4>2. CASE x # y
        <5> DEFINE U == S \ {x}
        <5>1. U \in SUBSET R /\ IsFiniteSet(U) /\ Cardinality(U) < Cardinality(S)
          BY <2>2, <3>6, OneLess
        <5>2. Good(U)
          <6>1. U \notin Bad  BY <2>1, <5>1
          <6> QED  BY <5>1, <6>1
        <5>3. y \in U /\ x \in T /\ U \ {y} = T \ {x}  BY <3>1, <3>6, <4>2
        <5>4. Total(f, U) = f[y] + Total(f, T \ {x})  BY <5>2, <5>3
        <5>5. Total(f, T) = f[x] + Total(f, T \ {x})  BY <3>4, <5>3
        <5>6. T \ {x} \in SUBSET R /\ IsFiniteSet(T \ {x})
              /\ Cardinality(T \ {x}) < Cardinality(T)
          BY <3>2, <5>3, OneLess
        <5>7. Total(f, T \ {x}) \in Nat
          <6>1. IsFiniteSet(S) /\ Cardinality(S) \in Nat /\ Cardinality(T) \in Nat
                /\ Cardinality(T \ {x}) \in Nat
            BY <2>2, <3>2, <5>6, FS_CardinalityType
          <6>2. Cardinality(T \ {x}) < Cardinality(S)  BY <3>2, <5>6, <6>1
          <6>3. T \ {x} \notin Bad  BY <2>1, <6>2
          <6> QED  BY <5>6, <6>3
        <5>8. f[x] \in Nat  BY <2>2, <3>6
        <5> HIDE DEF U
        <5>9. Total(f, S) = f[x] + Total(f, U)  BY <3>3, <3>5, <5>4, <5>5, <5>7, <5>8
        <5> QED  BY <5>9 DEF U
      <4> QED  BY <4>1, <4>2
    <3>7. Total(f, S) \in Nat  BY <3>3, <3>5
    <3>8. Good(S)  BY <3>6, <3>7
    <3> QED  BY <2>2, <3>8
  <2> QED  BY <2>3, <2>4
<1> QED  BY <1>2


LEMMA TotalGrows ==
  ASSUME NEW R, IsFiniteSet(R), NEW f, \A x \in R : f[x] \in Nat,
         NEW S \in SUBSET R, NEW T \in SUBSET S
  PROVE  Total(f, T) <= Total(f, S)
<1> DEFINE Bad == {U \in SUBSET S : T \subseteq U /\ ~(Total(f, T) <= Total(f, U))}
<1>1. \A U \in SUBSET S : U \in SUBSET R /\ IsFiniteSet(U) /\ Total(f, U) \in Nat
  BY FS_Subset, TotalAdds
<1>2. Bad = {}
  <2> SUFFICES ASSUME Bad # {} PROVE FALSE  OBVIOUS
  <2>1. PICK U \in Bad : \A t \in Bad : ~(Cardinality(t) < Cardinality(U))
    <3>1. \A t \in Bad : IsFiniteSet(t)  BY <1>1
    <3> HIDE DEF Bad
    <3> QED  BY <3>1, SmallestSet
  <2>2. U \in SUBSET S /\ U \in SUBSET R /\ IsFiniteSet(U) /\ T \subseteq U
        /\ ~(Total(f, T) <= Total(f, U))
    BY <1>1
  <2>3. U # T  BY <1>1, <2>2
  <2>4. PICK x \in U : x \notin T  BY <2>2, <2>3
  <2>5. U \ {x} \in SUBSET S /\ T \subseteq U \ {x}
        /\ Cardinality(U \ {x}) < Cardinality(U)
    BY <2>2, <2>4, OneLess
  <2>6. Total(f, T) <= Total(f, U \ {x})  BY <2>1, <2>5
  <2>7. Total(f, U) = f[x] + Total(f, U \ {x}) /\ f[x] \in Nat  BY <2>2, TotalAdds
  <2>8. Total(f, T) \in Nat /\ Total(f, U \ {x}) \in Nat  BY <1>1, <2>5
  <2> QED  BY <2>2, <2>6, <2>7, <2>8
<1> QED  BY <1>2

LEMMA TotalSame ==
  ASSUME NEW f, NEW h, NEW S, IsFiniteSet(S), \A x \in S : f[x] = h[x]
  PROVE  Total(f, S) = Total(h, S)
<1> DEFINE Bad == {U \in SUBSET S : Total(f, U) # Total(h, U)}
<1>1. \A U \in SUBSET S : IsFiniteSet(U)  BY FS_Subset
<1>2. Bad = {}
  <2> SUFFICES ASSUME Bad # {} PROVE FALSE  OBVIOUS
  <2>1. PICK U \in Bad : \A t \in Bad : ~(Cardinality(t) < Cardinality(U))
    <3>1. \A t \in Bad : IsFiniteSet(t)  BY <1>1
    <3> HIDE DEF Bad
    <3> QED  BY <3>1, SmallestSet
  <2>2. U \in SUBSET S /\ IsFiniteSet(U) /\ Total(f, U) # Total(h, U)  BY <1>1
  <2>3. U # {}  BY <2>2, TotalOfNone
  <2>4. Some(U) \in U  BY <2>3, SomeIsIn
  <2>5. Total(f, U \ {Some(U)}) = Total(h, U \ {Some(U)})  BY <2>1, <2>2, <2>4, OneLess
  <2>6. /\ Total(f, U) = f[Some(U)] + Total(f, U \ {Some(U)})
        /\ Total(h, U) = h[Some(U)] + Total(h, U \ {Some(U)})
    BY <2>2, <2>3, TotalOfSome
  <2>7. f[Some(U)] = h[Some(U)]  BY <2>2, <2>4
  <2> QED  BY <2>2, <2>5, <2>6, <2>7
<1> QED  BY <1>2
-----------------------------------------------------------------------------
(* Types. *)

(* A channel never holds more events than it has room for.                 *)
Fits(c)     == c.pieces + (IF c.last = "none" THEN 0 ELSE 1) <= ChanCapacity
ChannelsFit == \A r \in Requests : Fits(chan[r])
Typed       == TypeOK /\ ChannelsFit

LEMMA TrySendFits ==
  ASSUME Typed, NEW r \in Requests, NEW k \in Nat, NEW last \in {"none", "done", "error"}
  PROVE  TrySend(r, k, last) \in Events /\ Fits(TrySend(r, k, last))
<1>1. chan[r] \in Events /\ Fits(chan[r])  BY DEF Typed, TypeOK, ChannelsFit
<1> DEFINE c == chan[r]
           closed == IF c.last = "none" THEN 0 ELSE 1
           room == ChanCapacity - (c.pieces + closed)
<1>2. room \in Nat /\ c.pieces \in Nat /\ c.last \in {"none", "done", "error"}
  BY <1>1, SizesAssumption DEF Events, Fits
<1>3. QED BY <1>1, <1>2, SizesAssumption DEF TrySend, Events, Fits

(* What handing over a sampled token comes to: the answer ends, or goes on.*)
Ends(r) ==
  \E k \in 0..2, last \in {"none", "done", "error"} :
    /\ last = "none" => RxDropped(r)
    /\ Finish(r, k, last)

GoesOn(r) ==
  /\ generated' = [generated EXCEPT ![r] = @ + 1]
  /\ \E k \in 0..2 : chan' = [chan EXCEPT ![r] = TrySend(r, k, "none")]
  /\ active' = active \cup {r}
  /\ UNCHANGED <<idle_slots, seq_id, last_events>>

LEMMA EndsOrGoesOn ==
  ASSUME NEW r \in Requests, HandOver(r)
  PROVE  Ends(r) \/ GoesOn(r)
<1>1. CASE Finish(r, 0, "error")  BY <1>1 DEF Ends
<1>2. ASSUME NEW k \in 0..2, Finish(r, k, "done")
      PROVE  Ends(r)
  BY <1>2 DEF Ends
<1>3. CASE RxDropped(r) /\ Finish(r, 0, "none")  BY <1>3 DEF Ends
<1>4. ASSUME generated' = [generated EXCEPT ![r] = @ + 1],
             NEW k \in 0..1, chan' = [chan EXCEPT ![r] = TrySend(r, k, "none")],
             active' = active \cup {r},
             UNCHANGED <<idle_slots, seq_id, last_events>>
      PROVE  GoesOn(r)
  <2>1. k \in 0..2  OBVIOUS
  <2>2. QED BY <1>4, <2>1, Zenon DEF GoesOn
<1>5. 0..1 \subseteq 0..2  OBVIOUS
<1>6. (\E k \in 0..1 : Finish(r, k, "done")) => Ends(r)  BY <1>2, <1>5, Zenon
<1>7. (\E k \in 0..2 : Finish(r, k, "done")) => Ends(r)  BY <1>2, Zenon
<1>8. QED BY <1>1, <1>3, <1>4, <1>6, <1>7, Zenon DEF HandOver

(* The types of what ending answers and handing tokens over change.        *)
LEMMA GiveBackTyped ==
  ASSUME Typed, NEW S \in SUBSET Requests, GiveBack(S)
  PROVE  /\ idle_slots' \in [Slots -> Nat]
         /\ seq_id' \in [Requests -> Slots \cup {NoSlot}]
<1>1. idle_slots \in [Slots -> Nat] /\ seq_id \in [Requests -> Slots \cup {NoSlot}]
  BY DEF Typed, TypeOK
<1>2. QED BY <1>1 DEF GiveBack

LEMMA FailAllTyped ==
  ASSUME Typed, NEW S \in SUBSET Requests, FailAll(S)
  PROVE  /\ chan' \in [Requests -> Events]
         /\ ChannelsFit'
         /\ last_events' \in [Requests -> Nat]
<1>1. \A r \in Requests : TrySend(r, 0, "error") \in Events /\ Fits(TrySend(r, 0, "error"))
  BY TrySendFits
<1>2. /\ chan \in [Requests -> Events] /\ ChannelsFit
      /\ last_events \in [Requests -> Nat]
  BY DEF Typed, TypeOK
<1>3. QED BY <1>1, <1>2 DEF FailAll, ChannelsFit, Fits

LEMMA FinishTyped ==
  ASSUME Typed, NEW r \in Requests, NEW k \in 0..2,
         NEW last \in {"none", "done", "error"}, Finish(r, k, last)
  PROVE  /\ chan' \in [Requests -> Events] /\ ChannelsFit'
         /\ last_events' \in [Requests -> Nat]
         /\ idle_slots' \in [Slots -> Nat]
         /\ seq_id' \in [Requests -> Slots \cup {NoSlot}]
         /\ generated' \in [Requests -> Nat]
         /\ active' \subseteq Requests
<1>1. TrySend(r, k, last) \in Events /\ Fits(TrySend(r, k, last))  BY TrySendFits
<1>2. /\ chan \in [Requests -> Events] /\ ChannelsFit
      /\ last_events \in [Requests -> Nat] /\ generated \in [Requests -> Nat]
      /\ active \subseteq Requests
  BY DEF Typed, TypeOK
<1>3. chan' = [chan EXCEPT ![r] = TrySend(r, k, last)]  BY DEF Finish
<1>4. chan' \in [Requests -> Events] /\ ChannelsFit'
  BY <1>1, <1>2, <1>3 DEF ChannelsFit, Fits
<1>5. GiveBack({r})  BY DEF Finish
<1>6. /\ idle_slots' \in [Slots -> Nat]
      /\ seq_id' \in [Requests -> Slots \cup {NoSlot}]
  BY <1>5, GiveBackTyped
<1>7. QED BY <1>2, <1>4, <1>6 DEF Finish

LEMMA HandOverTyped ==
  ASSUME Typed, NEW r \in Requests, HandOver(r)
  PROVE  /\ chan' \in [Requests -> Events] /\ ChannelsFit'
         /\ last_events' \in [Requests -> Nat]
         /\ idle_slots' \in [Slots -> Nat]
         /\ seq_id' \in [Requests -> Slots \cup {NoSlot}]
         /\ generated' \in [Requests -> Nat]
         /\ active' \subseteq Requests
         /\ active \ {r} \subseteq active'
<1>1. CASE Ends(r)
  <2>1. PICK k \in 0..2, last \in {"none", "done", "error"} : Finish(r, k, last)
    BY <1>1 DEF Ends
  <2>2. active' = active \ {r}  BY <2>1 DEF Finish
  <2>3. QED BY <2>1, <2>2, FinishTyped
<1>2. CASE GoesOn(r)
  <2>1. PICK k \in 0..2 : chan' = [chan EXCEPT ![r] = TrySend(r, k, "none")]
    BY <1>2 DEF GoesOn
  <2>2. TrySend(r, k, "none") \in Events /\ Fits(TrySend(r, k, "none"))  BY TrySendFits
  <2>3. /\ chan \in [Requests -> Events] /\ ChannelsFit
        /\ last_events \in [Requests -> Nat] /\ generated \in [Requests -> Nat]
        /\ idle_slots \in [Slots -> Nat]
        /\ seq_id \in [Requests -> Slots \cup {NoSlot}]
        /\ active \subseteq Requests
    BY DEF Typed, TypeOK
  <2>4. chan' \in [Requests -> Events] /\ ChannelsFit'
    BY <2>1, <2>2, <2>3 DEF ChannelsFit, Fits
  <2>5. QED BY <1>2, <2>3, <2>4 DEF GoesOn
<1>3. QED BY <1>1, <1>2, EndsOrGoesOn

LEMMA PromptUpdates ==
  ASSUME NEW p \in Prompts, NEW c \in 0..MaxPrompt, NEW b \in BOOLEAN
  PROVE  /\ [p EXCEPT !.cursor = c] \in Prompts
         /\ [p EXCEPT !.to = c] \in Prompts
         /\ [p EXCEPT !.apart = b] \in Prompts
         /\ [p EXCEPT !.may_fall_back = b] \in Prompts
BY DEF Prompts

LEMMA ForgetTyped ==
  ASSUME NEW S, NEW p \in [Requests -> Prompts]
  PROVE  Forget(S, p) \in [Requests -> Prompts]
<1>1. NoPrompt \in Prompts
  BY SizesAssumption DEF NoPrompt, Prompts
<1>2. ASSUME NEW r \in Requests
      PROVE  [p[r] EXCEPT !.earlier = @ \ S] \in Prompts
  <2>1. p[r] \in Prompts  OBVIOUS
  <2>2. QED BY <2>1 DEF Prompts
<1>3. QED BY <1>1, <1>2 DEF Forget

LEMMA InitTyped == Init => Typed
<1> SUFFICES ASSUME Init PROVE Typed  OBVIOUS
<1>1. NoPrompt \in Prompts  BY SizesAssumption DEF NoPrompt, Prompts
<1>2. NoEvents \in Events /\ Fits(NoEvents)
  BY SizesAssumption DEF NoEvents, Events, Fits
<1>3. Len(req_rx) <= QueueCapacity /\ req_rx \in Seq(Requests)
  BY SizesAssumption DEF Init
<1>4. QED BY <1>1, <1>2, <1>3 DEF Init, Typed, TypeOK, ChannelsFit

LEMMA StepTyped == Typed /\ [Next]_vars => Typed'
<1> SUFFICES ASSUME Typed, [Next]_vars PROVE Typed'  OBVIOUS
<1> USE DEF Typed, TypeOK, ChannelsFit, sharedVars, poolVars, seqVars
<1>1. CASE UNCHANGED vars  BY <1>1 DEF vars
<1>2. ASSUME NEW r \in Requests, Submit(r) PROVE Typed'
  <2>1. /\ Append(req_rx, r) \in Seq(Requests)
        /\ Len(Append(req_rx, r)) = Len(req_rx) + 1
    BY AppendProperties
  <2>2. Len(req_rx) \in Nat /\ QueueCapacity \in Nat  BY LenProperties, SizesAssumption
  <2>3. CASE pc = "gone" \/ Len(req_rx) = QueueCapacity  BY <1>2, <2>3 DEF Submit
  <2>4. CASE ~(pc = "gone" \/ Len(req_rx) = QueueCapacity)
    <3>1. Len(req_rx) + 1 <= QueueCapacity  BY <2>2, <2>4
    <3>2. client' \in [Requests -> {"new", "refused", "sending", "waiting", "left", "ended"}]
      BY <1>2, <2>4 DEF Submit
    <3>3. req_rx' \in Seq(Requests) /\ Len(req_rx') <= QueueCapacity
      BY <1>2, <2>1, <2>4, <3>1 DEF Submit
    <3>4. QED BY <1>2, <3>2, <3>3 DEF Submit
  <2>5. QED BY <2>3, <2>4
<1>3. ASSUME NEW r \in Requests, Notify(r) PROVE Typed'  BY <1>3 DEF Notify
<1>4. ASSUME NEW r \in Requests, Receive(r) PROVE Typed'
  <2>1. NoEvents \in Events /\ Fits(NoEvents)
    BY SizesAssumption DEF NoEvents, Events, Fits
  <2>2. ASSUME chan[r].pieces > 0
        PROVE  [chan[r] EXCEPT !.pieces = @ - 1] \in Events
               /\ Fits([chan[r] EXCEPT !.pieces = @ - 1])
    <3>1. chan[r] \in Events /\ Fits(chan[r])  OBVIOUS
    <3>2. QED BY <2>2, <3>1, SizesAssumption DEF Events, Fits
  <2>3. CASE chan[r].pieces > 0 /\ chan' = [chan EXCEPT ![r].pieces = @ - 1] /\ UNCHANGED client
    <3>1. chan' = [chan EXCEPT ![r] = [chan[r] EXCEPT !.pieces = @ - 1]]  BY <2>3
    <3>2. chan' \in [Requests -> Events] /\ ChannelsFit'  BY <2>2, <2>3, <3>1
    <3>3. QED BY <1>4, <2>3, <3>2 DEF Receive
  <2>4. CASE client' = [client EXCEPT ![r] = "ended"] /\ chan' = [chan EXCEPT ![r] = NoEvents]
    BY <1>4, <2>1, <2>4 DEF Receive
  <2>5. QED BY <1>4, <2>3, <2>4 DEF Receive
<1>5. ASSUME NEW r \in Requests, Leave(r) PROVE Typed'
  <2>1. NoEvents \in Events /\ Fits(NoEvents)
    BY SizesAssumption DEF NoEvents, Events, Fits
  <2>2. QED BY <1>5, <2>1 DEF Leave
<1>6. CASE RequestShutdown  BY <1>6 DEF RequestShutdown
<1>7. CASE DropHandles  BY <1>7 DEF DropHandles
<1>8. CASE Top
  <2>1. CASE shutdown  BY <1>8, <2>1, FailAllTyped DEF Top
  <2>2. CASE ~shutdown  BY <1>8, <2>2 DEF Top
  <2>3. QED BY <2>1, <2>2
<1>9. CASE Drain
  <2>1. CASE req_rx # <<>>
    <3>1. /\ Head(req_rx) \in Requests /\ Tail(req_rx) \in Seq(Requests)
          /\ Len(Tail(req_rx)) = Len(req_rx) - 1 /\ Len(req_rx) \in Nat
      BY <2>1, HeadTailProperties, LenProperties
    <3>2. FailAll({Head(req_rx)})  BY <1>9, <2>1 DEF Drain
    <3>3. /\ chan' \in [Requests -> Events] /\ ChannelsFit'
          /\ last_events' \in [Requests -> Nat]
      BY <3>1, <3>2, FailAllTyped
    <3>4. Len(req_rx) - 1 <= QueueCapacity  BY <3>1, SizesAssumption
    <3>5. QED BY <1>9, <2>1, <3>1, <3>3, <3>4 DEF Drain
  <2>2. CASE req_rx = <<>>  BY <1>9, <2>2 DEF Drain
  <2>3. QED BY <2>1, <2>2
<1>10. CASE DropReceiver  BY <1>10 DEF DropReceiver
<1>11. CASE RefuseHead
  <2>1. /\ Head(req_rx) \in Requests /\ Tail(req_rx) \in Seq(Requests)
        /\ Len(Tail(req_rx)) = Len(req_rx) - 1 /\ Len(req_rx) \in Nat
    BY <1>11, HeadTailProperties, LenProperties DEF RefuseHead
  <2>2. FailAll({Head(req_rx)})  BY <1>11 DEF RefuseHead
  <2>3. /\ chan' \in [Requests -> Events] /\ ChannelsFit'
        /\ last_events' \in [Requests -> Nat]
    BY <2>1, <2>2, FailAllTyped
  <2>4. Len(req_rx) - 1 <= QueueCapacity  BY <2>1, SizesAssumption
  <2>5. QED BY <1>11, <2>1, <2>3, <2>4 DEF RefuseHead
<1>12. CASE AdmitHead
  <2>1. /\ Head(req_rx) \in Requests /\ Tail(req_rx) \in Seq(Requests)
        /\ Len(Tail(req_rx)) = Len(req_rx) - 1 /\ Len(req_rx) \in Nat
    BY <1>12, HeadTailProperties, LenProperties DEF AdmitHead
  <2>2. Len(req_rx) - 1 <= QueueCapacity  BY <2>1, SizesAssumption
  <2>3. CASE \A s \in Slots : idle_slots[s] = 0
    BY <1>12, <2>1, <2>2, <2>3 DEF AdmitHead
  <2>4. ASSUME NEW s \in Slots, NEW n \in 1..MaxPrompt, NEW fell_back \in BOOLEAN,
               NEW reuse \in 0..(n - 1), Admit(Head(req_rx), s, n, reuse, fell_back)
        PROVE  Typed'
    <3> DEFINE r == Head(req_rx)
    <3>1. [n |-> n, cursor |-> reuse, to |-> 0, apart |-> FALSE,
           may_fall_back |-> reuse > 0 /\ ~fell_back, earlier |-> prefilling] \in Prompts
      <4>1. n \in 0..MaxPrompt /\ reuse \in 0..MaxPrompt /\ 0 \in 0..MaxPrompt
        BY SizesAssumption
      <4>2. (reuse > 0 /\ ~fell_back) \in BOOLEAN  OBVIOUS
      <4>3. QED BY <4>1, <4>2 DEF Prompts
    <3>2. prompt' \in [Requests -> Prompts]  BY <2>1, <2>4, <3>1 DEF Admit
    <3>3. idle_slots' \in [Slots -> Nat] /\ seq_id' \in [Requests -> Slots \cup {NoSlot}]
      BY <2>1, <2>4 DEF Admit
    <3>4. /\ prefilling' \subseteq Requests /\ parts' \subseteq Requests
          /\ pc' \in {pc, "first"}
      BY <2>1, <2>4 DEF Admit
    <3>5. QED BY <1>12, <2>1, <2>2, <2>4, <3>2, <3>3, <3>4 DEF AdmitHead, Admit
  <2>5. ASSUME \E s \in Slots, n \in 1..MaxPrompt, fell_back \in BOOLEAN :
               \E reuse \in 0..(n - 1) : Admit(Head(req_rx), s, n, reuse, fell_back)
        PROVE  Typed'
    BY <2>4, <2>5, Zenon
  <2>6. \/ \A s \in Slots : idle_slots[s] = 0
        \/ \E s \in Slots, n \in 1..MaxPrompt, fell_back \in BOOLEAN :
           \E reuse \in 0..(n - 1) : Admit(Head(req_rx), s, n, reuse, fell_back)
    BY <1>12, Zenon DEF AdmitHead
  <2>7. QED BY <2>3, <2>5, <2>6, Zenon
<1>13. CASE AdmitNone  BY <1>13 DEF AdmitNone
<1>14. CASE Disconnected
  <2>1. /\ chan' \in [Requests -> Events] /\ ChannelsFit'
        /\ last_events' \in [Requests -> Nat]
    BY <1>14, FailAllTyped DEF Disconnected
  <2>2. QED BY <1>14, <2>1 DEF Disconnected
<1>15. CASE Sleep  BY <1>15 DEF Sleep
<1>16. CASE WaitTimeout  BY <1>16 DEF WaitTimeout
<1>17. CASE Step
  <2> DEFINE whole  == prefilling \ Apart(prefilling)
             oldest == IF whole = {} THEN 0 ELSE Left(First(whole))
             budget == PromptBudget(Cardinality(active), oldest)
             left   == Forget(Gone, prompt)
  <2>1. Gone \subseteq Requests /\ Gone \subseteq prefilling  BY DEF Gone
  <2>2. left \in [Requests -> Prompts]  BY ForgetTyped
  <2>3. ASSUME NEW f \in Shares(whole \ Gone, budget)
        PROVE  /\ f \in [whole \ Gone -> 0..MaxPrompt]
               /\ \A r \in whole \ Gone : f[r] <= Left(r)
    BY DEF Shares
  <2>4. ASSUME NEW f \in Shares(whole \ Gone, budget), Decoded(f)
        PROVE  Typed'
    <3> DEFINE read == {r \in DOMAIN f : f[r] > 0}
    <3>1. read \subseteq whole \ Gone /\ read \subseteq Requests  BY <2>3
    <3>2. ASSUME NEW r \in read
          PROVE  [left[r] EXCEPT !.to = left[r].cursor + f[r]] \in Prompts
      <4>1. r \in Requests /\ r \notin Gone /\ f[r] \in 0..MaxPrompt /\ f[r] <= Left(r)
        BY <2>3, <3>1
      <4>2. left[r] \in Prompts /\ prompt[r] \in Prompts  BY <2>2, <4>1
      <4>3. left[r].cursor = prompt[r].cursor
        <5>1. left[r] = [prompt[r] EXCEPT !.earlier = @ \ Gone]  BY <4>1 DEF Forget
        <5>2. QED BY <4>2, <5>1 DEF Prompts
      <4>4. left[r].cursor + f[r] \in 0..MaxPrompt
        BY <4>1, <4>2, <4>3, SizesAssumption DEF Left, Prompts
      <4>5. QED BY <4>2, <4>4, PromptUpdates
    <3>3. prompt' \in [Requests -> Prompts]  BY <2>2, <2>4, <3>2 DEF Decoded
    <3>4. idle_slots' \in [Slots -> Nat] /\ seq_id' \in [Requests -> Slots \cup {NoSlot}]
      BY <2>1, <2>4, GiveBackTyped DEF Decoded
    <3>5. pc' \in {"sample", "parts", "apart", "top"}  BY <2>4 DEF Decoded, Stage
    <3>6. QED BY <1>17, <2>4, <3>1, <3>3, <3>4, <3>5 DEF Step, Decoded
  <2>5. ASSUME NEW f \in Shares(whole \ Gone, budget), SetApart(f)
        PROVE  prompt' \in [Requests -> Prompts] /\ prefilling' \subseteq Requests
    <3>1. ASSUME NEW r \in Requests PROVE [left[r] EXCEPT !.apart = TRUE] \in Prompts
      <4>1. left[r] \in Prompts  BY <2>2
      <4>2. 0 \in 0..MaxPrompt /\ TRUE \in BOOLEAN  BY SizesAssumption
      <4>3. QED BY <4>1, <4>2, PromptUpdates
    <3>2. QED BY <2>2, <2>5, <3>1 DEF SetApart
  <2>6. ASSUME NEW f \in Shares(whole \ Gone, budget), SetApart(f), GiveBack(Gone),
               unsampled' = active,
               pc' = IF active = {} THEN "apart" ELSE "sample",
               UNCHANGED <<parts, active, generated, chan, last_events>>
        PROVE  Typed'
    <3>1. idle_slots' \in [Slots -> Nat] /\ seq_id' \in [Requests -> Slots \cup {NoSlot}]
      BY <2>1, <2>6, GiveBackTyped
    <3>2. QED BY <1>17, <2>5, <2>6, <3>1 DEF Step
  <2>7. ASSUME NEW f \in Shares(whole \ Gone, budget), SetApart(f), FailAnswers,
               pc' = "top", UNCHANGED <<parts, unsampled>>
        PROVE  Typed'
    <3>1. GiveBack(Gone \cup active) /\ FailAll(active)  BY <2>7 DEF FailAnswers
    <3>2. idle_slots' \in [Slots -> Nat] /\ seq_id' \in [Requests -> Slots \cup {NoSlot}]
      BY <2>1, <3>1, GiveBackTyped
    <3>3. /\ chan' \in [Requests -> Events] /\ ChannelsFit'
          /\ last_events' \in [Requests -> Nat]
      BY <3>1, FailAllTyped
    <3>4. QED BY <1>17, <2>5, <2>7, <3>2, <3>3 DEF Step, FailAnswers
  <2>8. QED BY <1>17, <2>4, <2>6, <2>7 DEF Step
<1>18. ASSUME NEW r \in Requests, Sample(r) PROVE Typed'
  <2>1. HandOver(r)  BY <1>18 DEF Sample
  <2>2. pc' \in {"sample", "parts", "apart", "top"}  BY <1>18 DEF Sample, Stage
  <2>3. QED BY <1>18, <2>1, <2>2, HandOverTyped DEF Sample
<1>19. ASSUME NEW r \in Requests, FinishPart(r) PROVE Typed'
  <2>1. pc' \in {"parts", "apart", "top"}  BY <1>19 DEF FinishPart, Stage
  <2>2. CASE prompt[r].to < prompt[r].n
    <3> DEFINE p == [prompt[r] EXCEPT !.cursor = prompt[r].to]
    <3>1. prompt[r] \in Prompts  OBVIOUS
    <3>2. prompt[r].to \in 0..MaxPrompt /\ 0 \in 0..MaxPrompt
      BY <3>1, SizesAssumption DEF Prompts
    <3>3. p \in Prompts /\ [p EXCEPT !.to = 0] \in Prompts  BY <3>1, <3>2, PromptUpdates
    <3>4. prompt' = [prompt EXCEPT ![r].cursor = prompt[r].to, ![r].to = 0]
      BY <1>19, <2>2 DEF FinishPart
    <3>5. prompt' \in [Requests -> Prompts]  BY <3>3, <3>4
    <3>6. QED BY <1>19, <2>1, <2>2, <3>5 DEF FinishPart
  <2>3. CASE ~(prompt[r].to < prompt[r].n)
    <3>1. HandOver(r) /\ prompt' = Forget({r}, prompt)  BY <1>19, <2>3 DEF FinishPart
    <3>2. prompt' \in [Requests -> Prompts]  BY <3>1, ForgetTyped
    <3>3. QED BY <1>19, <2>1, <2>3, <3>1, <3>2, HandOverTyped DEF FinishPart
  <2>4. QED BY <2>2, <2>3
<1>20. ASSUME NEW r \in Requests, BeginWhole(r) PROVE Typed'
  <2>1. HandOver(r)  BY <1>20 DEF BeginWhole
  <2>2. QED BY <1>20, <2>1, HandOverTyped DEF BeginWhole
<1>21. CASE ReadApart
  <2>1. PICK r \in Requests :
          \/ /\ RxDropped(r)
             /\ StopReading(r) /\ GiveBack({r})
             /\ UNCHANGED <<active, generated, chan, last_events>>
          \/ /\ ReadOn(r) \/ FallBack(r)
             /\ UNCHANGED <<prefilling, active, idle_slots, seq_id, generated, chan, last_events>>
          \/ StopReading(r) /\ HandOver(r)
          \/ StopReading(r) /\ Finish(r, 0, "error")
    BY <1>21, Zenon DEF ReadApart
  <2>2. ASSUME StopReading(r)
        PROVE  prefilling' \subseteq Requests /\ prompt' \in [Requests -> Prompts]
    BY <2>2, ForgetTyped DEF StopReading
  <2>3. ASSUME NEW e \in 0..MaxPrompt, NEW b \in BOOLEAN
        PROVE  /\ [prompt[r] EXCEPT !.cursor = e] \in Prompts
               /\ [[prompt[r] EXCEPT !.cursor = e] EXCEPT !.may_fall_back = b] \in Prompts
    <3>1. prompt[r] \in Prompts  OBVIOUS
    <3>2. QED BY <3>1, PromptUpdates
  <2>4. CASE RxDropped(r) /\ StopReading(r) /\ GiveBack({r})
             /\ UNCHANGED <<active, generated, chan, last_events>>
    <3>1. idle_slots' \in [Slots -> Nat] /\ seq_id' \in [Requests -> Slots \cup {NoSlot}]
      BY <2>4, GiveBackTyped
    <3>2. QED BY <1>21, <2>2, <2>4, <3>1 DEF ReadApart
  <2>5. CASE /\ ReadOn(r) \/ FallBack(r)
             /\ UNCHANGED <<prefilling, active, idle_slots, seq_id, generated, chan, last_events>>
    <3>1. prompt[r] \in Prompts /\ NBatch \in Nat /\ NUBatch \in Nat  BY SizesAssumption
    <3>2. ChunkEnd(r) \in 0..MaxPrompt
      <4>1. prompt[r].cursor \in Nat /\ prompt[r].n \in 0..MaxPrompt  BY <3>1 DEF Prompts
      <4> DEFINE chunk == IF active = {} THEN NBatch ELSE NUBatch
      <4>2. chunk \in Nat  BY <3>1
      <4>3. ChunkEnd(r) = Least(prompt[r].cursor + chunk, prompt[r].n)  BY DEF ChunkEnd
      <4> HIDE DEF chunk
      <4>4. QED BY <4>1, <4>2, <4>3, SizesAssumption DEF Least
    <3>3. ASSUME ReadOn(r) PROVE prompt' \in [Requests -> Prompts]
      <4>1. PICK e \in IF KeepStates THEN (prompt[r].cursor + 1)..ChunkEnd(r) ELSE {ChunkEnd(r)} :
              prompt' = [prompt EXCEPT ![r].cursor = e]
        BY <3>3, Zenon DEF ReadOn
      <4>2. e \in 0..MaxPrompt
        <5>1. prompt[r].cursor \in Nat  BY <3>1 DEF Prompts
        <5>2. CASE KeepStates
          <6>1. e \in (prompt[r].cursor + 1)..ChunkEnd(r)  BY <5>2
          <6>2. QED BY <3>2, <5>1, <6>1, SizesAssumption
        <5>3. CASE ~KeepStates  BY <3>2, <5>3
        <5>4. QED BY <5>2, <5>3
      <4>3. prompt' = [prompt EXCEPT ![r] = [prompt[r] EXCEPT !.cursor = e]]  BY <4>1
      <4>4. QED BY <2>3, <4>2, <4>3
    <3>4. ASSUME FallBack(r) PROVE prompt' \in [Requests -> Prompts]
      <4>1. PICK e \in 0..(prompt[r].n - 1) :
              prompt' = [prompt EXCEPT ![r].cursor = e, ![r].may_fall_back = FALSE]
        BY <3>4, Zenon DEF FallBack
      <4>2. e \in 0..MaxPrompt  BY <3>1, SizesAssumption DEF Prompts
      <4>3. prompt' = [prompt EXCEPT ![r] =
                        [[prompt[r] EXCEPT !.cursor = e] EXCEPT !.may_fall_back = FALSE]]
        BY <4>1
      <4>4. QED BY <2>3, <4>2, <4>3
    <3>5. QED BY <1>21, <2>5, <3>3, <3>4 DEF ReadApart
  <2>6. CASE StopReading(r) /\ HandOver(r)
    BY <1>21, <2>2, <2>6, HandOverTyped DEF ReadApart
  <2>7. CASE StopReading(r) /\ Finish(r, 0, "error")
    BY <1>21, <2>2, <2>7, FinishTyped DEF ReadApart
  <2>8. QED BY <2>1, <2>4, <2>5, <2>6, <2>7
<1>22. QED
  BY <1>1, <1>2, <1>3, <1>4, <1>5, <1>6, <1>7, <1>8, <1>9, <1>10, <1>11, <1>12,
     <1>13, <1>14, <1>15, <1>16, <1>17, <1>18, <1>19, <1>20, <1>21, Zenon
  DEF Next, Thread, Handlers

(* The type invariant, for every value of the constants.                   *)
THEOREM TypeCorrect == Spec => []TypeOK
<1>1. Spec => []Typed  BY InitTyped, StepTyped, PTL DEF Spec
<1>2. Typed => TypeOK  BY DEF Typed
<1>3. QED BY <1>1, <1>2, PTL
-----------------------------------------------------------------------------
(* Where a request can be. *)

(* A request is in one place, and the places are used at their stages.     *)
PoolOK ==
  /\ active \cap prefilling = {} /\ active \cap parts = {} /\ prefilling \cap parts = {}
  /\ parts # {} => pc \in {"sample", "parts", "first"}
  /\ pc = "first" => \A q, r \in parts : q = r
  /\ unsampled \subseteq active
  /\ unsampled # {} => pc = "sample"

(* A queued request is queued once and holds no slot.                      *)
QueueOK ==
  /\ \A i, j \in DOMAIN req_rx : req_rx[i] = req_rx[j] => i = j
  /\ Queued \subseteq Accepted /\ InSlot \subseteq Accepted
  /\ Queued \cap InSlot = {}

LEMMA TakenFromQueue ==
  ASSUME Typed, QueueOK, req_rx # <<>>, req_rx' = Tail(req_rx)
  PROVE  /\ Head(req_rx) \in Queued
         /\ Queued' = Queued \ {Head(req_rx)}
         /\ \A i, j \in DOMAIN req_rx' : req_rx'[i] = req_rx'[j] => i = j
<1> DEFINE q == req_rx
           t == Tail(req_rx)
<1>1. q \in Seq(Requests) /\ q # <<>>  BY DEF Typed, TypeOK
<1>2. /\ Len(q) \in Nat \ {0} /\ DOMAIN q = 1..Len(q)
      /\ t \in Seq(Requests) /\ Len(t) = Len(q) - 1 /\ DOMAIN t = 1..Len(t)
      /\ \A i \in 1..Len(t) : t[i] = q[i + 1]
  BY <1>1, HeadTailProperties, LenProperties, EmptySeq
<1>3. Head(q) = q[1]  BY <1>1
<1>4. \A i, j \in 1..Len(q) : q[i] = q[j] => i = j  BY <1>2 DEF QueueOK
<1> HIDE DEF q, t
<1>5. \A i, j \in DOMAIN t : t[i] = t[j] => i = j
  <2> TAKE i, j \in DOMAIN t
  <2>1. i \in 1..Len(t) /\ j \in 1..Len(t)  BY <1>2
  <2>2. i + 1 \in 1..Len(q) /\ j + 1 \in 1..Len(q) /\ i \in Nat /\ j \in Nat  BY <1>2, <2>1
  <2>3. t[i] = q[i + 1] /\ t[j] = q[j + 1]  BY <1>2, <2>1
  <2>4. ASSUME t[i] = t[j] PROVE i = j
    <3>1. q[i + 1] = q[j + 1]  BY <2>3, <2>4
    <3>2. i + 1 = j + 1  BY <1>4, <2>2, <3>1
    <3>3. QED BY <2>2, <3>2
  <2>5. QED BY <2>4
<1>6. {t[i] : i \in DOMAIN t} = {q[i] : i \in DOMAIN q} \ {Head(q)}
  <2>1. ASSUME NEW i \in DOMAIN t
        PROVE  t[i] \in {q[j] : j \in DOMAIN q} /\ t[i] # Head(q)
    <3>1. i \in Nat /\ i + 1 \in 1..Len(q) /\ 1 \in 1..Len(q) /\ i + 1 # 1 /\ t[i] = q[i + 1]
      BY <1>2, <2>1
    <3>2. QED BY <1>2, <1>3, <1>4, <3>1
  <2>2. ASSUME NEW j \in DOMAIN q, q[j] # Head(q)
        PROVE  q[j] \in {t[i] : i \in DOMAIN t}
    <3>1. j # 1 /\ j \in 1..Len(q)  BY <1>2, <1>3, <2>2
    <3>2. j - 1 \in 1..Len(t) /\ (j - 1) + 1 = j  BY <1>2, <3>1
    <3>3. q[j] = t[j - 1]  BY <1>2, <3>2
    <3>4. QED BY <1>2, <3>2, <3>3
  <2>3. QED BY <2>1, <2>2
<1>7. Head(q) \in {q[i] : i \in DOMAIN q}
  <2>1. 1 \in DOMAIN q  BY <1>2
  <2>2. QED BY <1>3, <2>1
<1>8. QED BY <1>5, <1>6, <1>7 DEF Queued, q, t

LEMMA AddedToQueue ==
  ASSUME Typed, QueueOK, NEW r \in Requests, r \notin Queued, req_rx' = Append(req_rx, r)
  PROVE  /\ Queued' = Queued \cup {r}
         /\ \A i, j \in DOMAIN req_rx' : req_rx'[i] = req_rx'[j] => i = j
<1> DEFINE q == req_rx
           t == Append(req_rx, r)
<1>1. q \in Seq(Requests)  BY DEF Typed, TypeOK
<1>2. /\ Len(q) \in Nat /\ DOMAIN q = 1..Len(q)
      /\ t \in Seq(Requests) /\ Len(t) = Len(q) + 1 /\ DOMAIN t = 1..Len(t)
      /\ \A i \in 1..Len(q) : t[i] = q[i]
      /\ t[Len(q) + 1] = r
  BY <1>1, AppendProperties, LenProperties
<1>3. \A i, j \in 1..Len(q) : q[i] = q[j] => i = j  BY <1>2 DEF QueueOK
<1>4. \A i \in 1..Len(q) : q[i] # r  BY <1>2 DEF Queued
<1> HIDE DEF q, t
<1>5. \A i \in DOMAIN t : i \in 1..Len(q) \/ i = Len(q) + 1  BY <1>2
<1>6. \A i, j \in DOMAIN t : t[i] = t[j] => i = j  BY <1>2, <1>3, <1>4, <1>5
<1>7. {t[i] : i \in DOMAIN t} = {q[i] : i \in DOMAIN q} \cup {r}
  <2>1. Len(q) + 1 \in DOMAIN t /\ DOMAIN q \subseteq DOMAIN t  BY <1>2
  <2>2. QED BY <1>2, <1>5, <2>1
<1>8. QED BY <1>6, <1>7 DEF Queued, q, t

LEMMA HandOverPools ==
  ASSUME NEW r \in Requests, HandOver(r)
  PROVE  active' = active \ {r} \/ active' = active \cup {r}
<1>1. CASE Ends(r)  BY <1>1 DEF Ends, Finish
<1>2. CASE GoesOn(r)  BY <1>2 DEF GoesOn
<1>3. QED BY <1>1, <1>2, EndsOrGoesOn

LEMMA StagePools ==
  ASSUME NEW U, NEW P, NEW A
  PROVE  /\ Stage(U, P, A) \in {"sample", "parts", "apart", "top"}
         /\ U # {} => Stage(U, P, A) = "sample"
         /\ P # {} => Stage(U, P, A) \in {"sample", "parts"}
BY DEF Stage

LEMMA StepPools == Typed /\ QueueOK /\ PoolOK /\ [Next]_vars => PoolOK'
<1> SUFFICES ASSUME Typed, QueueOK, PoolOK, [Next]_vars PROVE PoolOK'  OBVIOUS
<1> USE DEF PoolOK, sharedVars, poolVars, seqVars
<1>1. CASE UNCHANGED vars  BY <1>1 DEF vars
<1>2. CASE Handlers
  BY <1>2 DEF Handlers, Submit, Notify, Receive, Leave, RequestShutdown, DropHandles
<1>3. CASE Top \/ Drain \/ DropReceiver \/ RefuseHead \/ AdmitNone \/ Disconnected
           \/ Sleep \/ WaitTimeout
  BY <1>3 DEF Top, Drain, DropReceiver, RefuseHead, AdmitNone, Disconnected, Sleep, WaitTimeout
<1>4. CASE AdmitHead
  <2>1. parts = {} /\ unsampled = {}  BY <1>4 DEF AdmitHead
  <2>2. CASE \A s \in Slots : idle_slots[s] = 0  BY <1>4, <2>1, <2>2 DEF AdmitHead
  <2>3. ASSUME ~(\A s \in Slots : idle_slots[s] = 0) PROVE PoolOK'
    <3>1. PICK s \in Slots, n \in 1..MaxPrompt, fell_back \in BOOLEAN :
            \E reuse \in 0..(n - 1) : Admit(Head(req_rx), s, n, reuse, fell_back)
      BY <1>4, <2>3, Zenon DEF AdmitHead
    <3>2. Head(req_rx) \notin InSlot
      BY <1>4, TakenFromQueue DEF AdmitHead, QueueOK
    <3>3. \/ prefilling' = prefilling \cup {Head(req_rx)} /\ parts' = parts
          \/ parts' = {Head(req_rx)} /\ pc' = "first" /\ prefilling' = prefilling
      BY <3>1 DEF Admit
    <3>4. UNCHANGED <<active, unsampled>>  BY <1>4 DEF AdmitHead
    <3>5. QED BY <2>1, <3>2, <3>3, <3>4 DEF InSlot
  <2>4. QED BY <2>2, <2>3
<1>5. CASE Step
  <2> DEFINE whole  == prefilling \ Apart(prefilling)
             oldest == IF whole = {} THEN 0 ELSE Left(First(whole))
             budget == PromptBudget(Cardinality(active), oldest)
  <2>1. parts = {} /\ unsampled = {}  BY <1>5 DEF Step
  <2>2. ASSUME NEW f \in Shares(whole \ Gone, budget), Decoded(f)
        PROVE  PoolOK'
    <3> DEFINE read == {r \in DOMAIN f : f[r] > 0}
    <3>1. read \subseteq prefilling  BY DEF Shares
    <3>2. /\ parts' = read /\ prefilling' = (prefilling \ Gone) \ read
          /\ unsampled' = active /\ active' = active
          /\ pc' = Stage(active, read, Apart(prefilling \ Gone))
      BY <2>2 DEF Decoded
    <3>3. QED BY <3>1, <3>2, StagePools
  <2>3. ASSUME NEW f \in Shares(whole \ Gone, budget), SetApart(f), unsampled' = active,
               pc' = IF active = {} THEN "apart" ELSE "sample", UNCHANGED <<parts, active>>
        PROVE  PoolOK'
    BY <2>1, <2>3 DEF SetApart
  <2>4. ASSUME NEW f \in Shares(whole \ Gone, budget), SetApart(f), FailAnswers,
               UNCHANGED <<parts, unsampled>>
        PROVE  PoolOK'
    BY <2>1, <2>4 DEF SetApart, FailAnswers
  <2>5. QED BY <1>5, <2>2, <2>3, <2>4, Zenon DEF Step
<1>6. ASSUME NEW r \in Requests, Sample(r) PROVE PoolOK'
  <2>1. HandOver(r) /\ r \in unsampled /\ unsampled' = unsampled \ {r}
        /\ pc' = Stage(unsampled', parts, Apart(prefilling))
        /\ UNCHANGED <<prefilling, parts>>
    BY <1>6 DEF Sample
  <2>2. QED BY <2>1, HandOverPools, StagePools
<1>7. ASSUME NEW r \in Requests, FinishPart(r) PROVE PoolOK'
  <2>1. /\ r \in parts /\ parts' = parts \ {r} /\ unsampled = {} /\ unsampled' = {}
        /\ pc' = Stage({}, parts', Apart(prefilling))
    BY <1>7 DEF FinishPart
  <2>2. \/ prefilling' = prefilling \cup {r} /\ active' = active
        \/ HandOver(r) /\ prefilling' = prefilling
    BY <1>7 DEF FinishPart
  <2>3. QED BY <2>1, <2>2, HandOverPools, StagePools
<1>8. ASSUME NEW r \in Requests, BeginWhole(r) PROVE PoolOK'
  <2>1. /\ HandOver(r) /\ r \in parts /\ parts' = {} /\ prefilling' = prefilling
        /\ unsampled = {} /\ unsampled' = {}
    BY <1>8 DEF BeginWhole
  <2>2. QED BY <2>1, HandOverPools
<1>9. CASE ReadApart
  <2>1. PICK r \in Requests : r \in prefilling /\ prefilling' \in {prefilling, prefilling \ {r}}
                            /\ (active' = active \/ (prefilling' = prefilling \ {r} /\ HandOver(r))
                                \/ active' = active \ {r})
    BY <1>9 DEF ReadApart, IsFirst, Apart, StopReading, Finish
  <2>2. parts = {} /\ unsampled = {} /\ UNCHANGED <<parts, unsampled>>
    BY <1>9 DEF ReadApart
  <2>3. QED BY <2>1, <2>2, HandOverPools
<1>10. QED
  BY <1>1, <1>2, <1>3, <1>4, <1>5, <1>6, <1>7, <1>8, <1>9, Zenon DEF Next, Thread
-----------------------------------------------------------------------------
(* Slots. *)

(* Every slot is idle once, or held by one request; whoever is in a slot   *)
(* has one.  The last conjunct is what the steps need beside the property. *)
SlotsOK ==
  /\ \A s \in Slots : idle_slots[s] = IF \E r \in InSlot : seq_id[r] = s THEN 0 ELSE 1
  /\ \A q, r \in InSlot : seq_id[q] = seq_id[r] => q = r
  /\ \A r \in InSlot : seq_id[r] \in Slots

LoopSlotsOK == pc \notin {"teardown", "gone"} => SlotsOK

LEMMA RoomCounts ==
  ASSUME Typed, PoolOK, parts = {}, HasRoom
  PROVE  /\ IsFiniteSet(InSlot) /\ Cardinality(InSlot) \in Nat
         /\ Cardinality(Slots) \in Nat
         /\ Cardinality(InSlot) < Cardinality(Slots)
<1>1. InSlot = active \cup prefilling  BY DEF InSlot
<1>2. active \in SUBSET Requests /\ prefilling \in SUBSET Requests
      /\ InSlot \in SUBSET Requests /\ IsFiniteSet(Requests) /\ IsFiniteSet(Slots)
  BY <1>1, SlotsAssumption DEF Typed, TypeOK
<1>3. IsFiniteSet(active) /\ IsFiniteSet(prefilling) /\ IsFiniteSet(InSlot)
  BY <1>2, FS_Subset
<1>4. /\ Cardinality(active) \in Nat /\ Cardinality(prefilling) \in Nat
      /\ Cardinality(InSlot) \in Nat /\ Cardinality(Slots) \in Nat
  BY <1>2, <1>3, FS_CardinalityType
<1>5. Cardinality(InSlot)
        = Cardinality(active) + Cardinality(prefilling) - Cardinality(active \cap prefilling)
  BY <1>1, <1>3, FS_Union
<1>6. Cardinality(active \cap prefilling) = 0
  <2>1. active \cap prefilling = {}  BY DEF PoolOK
  <2>2. Cardinality({}) = 0  BY FS_EmptySet
  <2>3. QED BY <2>1, <2>2
<1>7. Cardinality(InSlot) = Cardinality(active) + Cardinality(prefilling)
  BY <1>4, <1>5, <1>6
<1>8. Cardinality(active) + Cardinality(prefilling) < Cardinality(Slots)  BY DEF HasRoom
<1>9. QED BY <1>3, <1>4, <1>7, <1>8

LEMMA RoomMeansIdle == Typed /\ PoolOK /\ LoopSlotsOK => NeverOutOfSlots
<1> SUFFICES ASSUME Typed, PoolOK, LoopSlotsOK, pc = "admit", HasRoom,
                    \A s \in Slots : ~(idle_slots[s] > 0)
             PROVE  FALSE
  BY DEF NeverOutOfSlots
<1>1. SlotsOK /\ parts = {}  BY DEF LoopSlotsOK, PoolOK
<1>2. \A s \in Slots : \E r \in InSlot : seq_id[r] = s
  <2> TAKE s \in Slots
  <2>1. idle_slots[s] = IF \E r \in InSlot : seq_id[r] = s THEN 0 ELSE 1  BY <1>1 DEF SlotsOK
  <2>2. QED BY <2>1
<1>3. [r \in InSlot |-> seq_id[r]] \in Surjection(InSlot, Slots)
  BY <1>1, <1>2 DEF Surjection, SlotsOK
<1>4. IsFiniteSet(InSlot) /\ Cardinality(InSlot) \in Nat /\ Cardinality(Slots) \in Nat
      /\ Cardinality(InSlot) < Cardinality(Slots)
  BY <1>1, RoomCounts
<1>5. Cardinality(Slots) <= Cardinality(InSlot)  BY <1>3, <1>4, FS_Surjection
<1>6. QED BY <1>4, <1>5

-----------------------------------------------------------------------------
(* What a step does to the queue, to the slots and to who was answered. *)

(* Each request of `S`, and no other, is sent a last event.                *)
Tell(S) ==
  last_events' = [r \in Requests |-> IF r \in S THEN last_events[r] + 1
                                                ELSE last_events[r]]

(* The slots stay as they are.                                             *)
Keep == InSlot' = InSlot /\ UNCHANGED <<idle_slots, seq_id>>

Stay == Keep /\ Tell({}) /\ (pc' = "drain" <=> pc = "drain")

(* A shutdown tells whoever is in a slot.                                  *)
Warn == Keep /\ Tell(InSlot) /\ pc # "drain" /\ pc' = "drain"

(* Requests leave their slots, told so unless their clients left.          *)
Free ==
  \E S \in SUBSET InSlot : \E T \in SUBSET S :
    /\ InSlot' = InSlot \ S /\ GiveBack(S)
    /\ Tell(T) /\ \A r \in S \ T : RxDropped(r)
    /\ pc # "drain" /\ pc' # "drain"

(* The loop returns; whoever is in a slot was told by Warn, or is now.     *)
Stop ==
  /\ InSlot' = {} /\ pc' \in {"teardown", "gone"}
  /\ Tell(IF pc = "drain" THEN {} ELSE InSlot)

Add ==
  \E r \in Requests :
    /\ r \notin Accepted /\ Accepted' = Accepted \cup {r}
    /\ Len(req_rx) < QueueCapacity /\ req_rx' = Append(req_rx, r)
    /\ Stay

(* The oldest request is told that it goes no further.                     *)
Drop ==
  /\ req_rx # <<>> /\ req_rx' = Tail(req_rx)
  /\ Keep /\ Tell({Head(req_rx)})
  /\ pc' = pc

Take ==
  /\ pc = "admit" /\ HasRoom /\ parts = {}
  /\ req_rx # <<>> /\ req_rx' = Tail(req_rx)
  /\ InSlot' = InSlot \cup {Head(req_rx)}
  /\ \E s \in Slots : /\ idle_slots[s] > 0
                      /\ idle_slots' = [idle_slots EXCEPT ![s] = @ - 1]
                      /\ seq_id' = [seq_id EXCEPT ![Head(req_rx)] = s]
  /\ Tell({}) /\ pc' # "drain"

Move ==
  \/ Add
  \/ (Drop \/ Take) /\ Accepted' = Accepted
  \/ (Stay \/ Warn \/ Free \/ Stop) /\ req_rx' = req_rx /\ Accepted' = Accepted

LEMMA TellNobody == Typed /\ last_events' = last_events => Tell({})
BY DEF Typed, TypeOK, Tell

LEMMA FinishTells ==
  ASSUME Typed, NEW r \in Requests, NEW k, NEW last, Finish(r, k, last)
  PROVE  Tell(IF last = "none" THEN {} ELSE {r})
BY DEF Typed, TypeOK, Tell, Finish

LEMMA HandOverMove ==
  ASSUME Typed, PoolOK, NEW r \in InSlot, HandOver(r),
         InSlot' = (InSlot \ {r}) \cup (active' \cap {r}),
         pc # "drain", pc' # "drain"
  PROVE  Stay \/ Free
<1>0. r \in Requests  BY DEF InSlot, Typed, TypeOK
<1>1. CASE Ends(r)
  <2>1. PICK k \in 0..2, last \in {"none", "done", "error"} :
          /\ last = "none" => RxDropped(r)
          /\ Finish(r, k, last)
    BY <1>1 DEF Ends
  <2> DEFINE T == IF last = "none" THEN {} ELSE {r}
  <2>2. active' = active \ {r} /\ GiveBack({r})  BY <2>1 DEF Finish
  <2>3. InSlot' = InSlot \ {r}  BY <2>2
  <2>4. {r} \in SUBSET InSlot /\ T \in SUBSET {r}  OBVIOUS
  <2>5. Tell(T)  BY <1>0, <2>1, FinishTells
  <2>6. \A q \in {r} \ T : RxDropped(q)  BY <2>1
  <2> HIDE DEF T
  <2>7. QED BY <2>2, <2>3, <2>4, <2>5, <2>6 DEF Free
<1>2. CASE GoesOn(r)
  <2>1. active' = active \cup {r} /\ UNCHANGED <<idle_slots, seq_id, last_events>>
    BY <1>2 DEF GoesOn
  <2>2. InSlot' = InSlot  BY <2>1
  <2>3. QED BY <2>1, <2>2, TellNobody DEF Stay, Keep
<1>3. QED BY <1>0, <1>1, <1>2, EndsOrGoesOn

LEMMA Moves == Typed /\ PoolOK /\ QueueOK /\ LoopSlotsOK /\ [Next]_vars => Move
<1> SUFFICES ASSUME Typed, PoolOK, QueueOK, LoopSlotsOK, [Next]_vars PROVE Move  OBVIOUS
<1> USE DEF sharedVars, poolVars, seqVars
<1>1. CASE UNCHANGED vars
  BY <1>1, TellNobody DEF vars, Move, Stay, Keep, InSlot, Accepted
<1>2. ASSUME NEW r \in Requests, Submit(r) PROVE Move
  <2>1. CASE pc = "gone" \/ Len(req_rx) = QueueCapacity
    <3>1. client' = [client EXCEPT ![r] = "refused"] /\ client[r] = "new"
      BY <1>2, <2>1 DEF Submit
    <3>2. Accepted' = Accepted  BY <3>1 DEF Accepted, Typed, TypeOK
    <3>3. QED BY <1>2, <2>1, <3>2, TellNobody DEF Submit, Move, Stay, Keep, InSlot
  <2>2. CASE ~(pc = "gone" \/ Len(req_rx) = QueueCapacity)
    <3>1. client' = [client EXCEPT ![r] = "sending"] /\ client[r] = "new"
      BY <1>2, <2>2 DEF Submit
    <3>2. r \notin Accepted /\ Accepted' = Accepted \cup {r}
      BY <3>1 DEF Accepted, Typed, TypeOK
    <3>3. Len(req_rx) \in Nat /\ Len(req_rx) <= QueueCapacity /\ QueueCapacity \in Nat
      BY LenProperties, SizesAssumption DEF Typed, TypeOK
    <3>4. Len(req_rx) < QueueCapacity  BY <2>2, <3>3
    <3>5. req_rx' = Append(req_rx, r) /\ Stay
      BY <1>2, <2>2, TellNobody DEF Submit, Stay, Keep, InSlot
    <3>6. QED BY <3>2, <3>4, <3>5 DEF Move, Add
  <2>3. QED BY <2>1, <2>2
<1>3. ASSUME NEW r \in Requests, Notify(r) \/ Receive(r) \/ Leave(r) PROVE Move
  <2>1. /\ \/ client' = client
           \/ /\ client[r] \in {"sending", "waiting"}
              /\ \E c \in {"waiting", "left", "ended"} : client' = [client EXCEPT ![r] = c]
        /\ req_rx' = req_rx /\ UNCHANGED poolVars /\ UNCHANGED seqVars
        /\ UNCHANGED last_events /\ (pc' = "drain" <=> pc = "drain")
    BY <1>3 DEF Notify, Receive, Leave
  <2>2. Accepted' = Accepted  BY <2>1 DEF Accepted, Typed, TypeOK
  <2>3. QED BY <2>1, <2>2, TellNobody DEF Move, Stay, Keep, InSlot
<1>4. CASE RequestShutdown \/ DropHandles \/ (Top /\ ~shutdown) \/ DropReceiver
           \/ AdmitNone \/ Sleep \/ WaitTimeout
  BY <1>4, TellNobody DEF RequestShutdown, DropHandles, Top, DropReceiver, AdmitNone, Sleep,
                          WaitTimeout, Move, Stay, Keep, InSlot, Accepted
<1>5a. CASE Top /\ shutdown
  <2>1. FailAll(active \cup prefilling) /\ parts = {}  BY <1>5a DEF Top, PoolOK
  <2>2. Tell(InSlot)  BY <2>1 DEF Tell, FailAll, InSlot
  <2>3. QED BY <1>5a, <2>2 DEF Top, Move, Warn, Keep, InSlot, Accepted
<1>5. CASE Drain
  <2>1. CASE req_rx # <<>>
    BY <1>5, <2>1 DEF Drain, Move, Drop, Keep, InSlot, Accepted, Tell, FailAll
  <2>2. CASE req_rx = <<>>
    <3>1. parts = {}  BY <1>5 DEF Drain, PoolOK
    <3>2. Tell(IF pc = "drain" THEN {} ELSE InSlot)  BY <1>5, <2>2, TellNobody DEF Drain
    <3>3. QED BY <1>5, <2>2, <3>1, <3>2 DEF Drain, Move, Stop, InSlot, Accepted
  <2>3. QED BY <2>1, <2>2
<1>6. CASE Disconnected
  <2>1. parts = {}  BY <1>6 DEF Disconnected, PoolOK
  <2>2. pc # "drain" /\ FailAll(active \cup prefilling)  BY <1>6 DEF Disconnected
  <2>3. Tell(IF pc = "drain" THEN {} ELSE InSlot)  BY <2>1, <2>2 DEF Tell, FailAll, InSlot
  <2>4. QED BY <1>6, <2>1, <2>3 DEF Disconnected, Move, Stop, InSlot, Accepted
<1>7. CASE RefuseHead
  BY <1>7 DEF RefuseHead, Move, Drop, Keep, InSlot, Accepted, Tell, FailAll
<1>8. CASE AdmitHead
  <2>1. /\ req_rx # <<>> /\ req_rx' = Tail(req_rx) /\ Accepted' = Accepted
        /\ pc = "admit" /\ HasRoom /\ active' = active /\ parts = {} /\ Tell({})
    BY <1>8, TellNobody DEF AdmitHead, Accepted, PoolOK
  <2>2. ~(\A s \in Slots : idle_slots[s] = 0)  BY <2>1, RoomMeansIdle DEF NeverOutOfSlots
  <2>3. QED
    <3>1. PICK s \in Slots, n \in 1..MaxPrompt, fell_back \in BOOLEAN :
            \E reuse \in 0..(n - 1) : Admit(Head(req_rx), s, n, reuse, fell_back)
      BY <1>8, <2>2, Zenon DEF AdmitHead
    <3>2. /\ idle_slots[s] > 0 /\ idle_slots' = [idle_slots EXCEPT ![s] = @ - 1]
          /\ seq_id' = [seq_id EXCEPT ![Head(req_rx)] = s]
          /\ \/ prefilling' = prefilling \cup {Head(req_rx)} /\ parts' = parts
             \/ parts' = {Head(req_rx)} /\ prefilling' = prefilling
          /\ pc' \in {pc, "first"}
      BY <3>1 DEF Admit
    <3>3. InSlot' = InSlot \cup {Head(req_rx)}  BY <2>1, <3>2 DEF InSlot
    <3>4. Take  BY <2>1, <3>2, <3>3 DEF Take
    <3>5. QED BY <2>1, <3>4 DEF Move
<1>9. CASE Step
  <2> DEFINE whole  == prefilling \ Apart(prefilling)
             oldest == IF whole = {} THEN 0 ELSE Left(First(whole))
             budget == PromptBudget(Cardinality(active), oldest)
  <2>1. parts = {} /\ req_rx' = req_rx /\ Accepted' = Accepted /\ pc # "drain"
    BY <1>9 DEF Step, PoolOK, Accepted
  <2>2. Gone \subseteq InSlot /\ Gone \cup active \subseteq InSlot /\ Gone \cap active = {}
    BY DEF Gone, InSlot, PoolOK
  <2>2a. \A r \in Gone : RxDropped(r)  BY DEF Gone
  <2>3. ASSUME NEW f \in Shares(whole \ Gone, budget), Decoded(f) PROVE Free
    <3> DEFINE read == {r \in DOMAIN f : f[r] > 0}
    <3>1. read \subseteq prefilling \ Gone  BY DEF Shares
    <3>2. /\ parts' = read /\ prefilling' = (prefilling \ Gone) \ read
          /\ active' = active /\ GiveBack(Gone) /\ last_events' = last_events
          /\ pc' # "drain"
      BY <2>3, StagePools DEF Decoded
    <3>3. InSlot' = InSlot \ Gone  BY <2>1, <2>2, <3>1, <3>2 DEF InSlot
    <3>4. Gone \in SUBSET InSlot /\ {} \in SUBSET Gone /\ Tell({})
      BY <2>2, <3>2, TellNobody
    <3>5. QED BY <2>1, <2>2a, <3>2, <3>3, <3>4 DEF Free
  <2>4. ASSUME NEW f \in Shares(whole \ Gone, budget), SetApart(f), GiveBack(Gone),
               pc' = IF active = {} THEN "apart" ELSE "sample",
               UNCHANGED <<parts, active, last_events>>
        PROVE  Free
    <3>1. InSlot' = InSlot \ Gone  BY <2>1, <2>2, <2>4 DEF InSlot, SetApart
    <3>2. Gone \in SUBSET InSlot /\ {} \in SUBSET Gone /\ Tell({}) /\ pc' # "drain"
      BY <2>2, <2>4, TellNobody
    <3>3. QED BY <2>1, <2>2a, <2>4, <3>1, <3>2 DEF Free
  <2>5. ASSUME NEW f \in Shares(whole \ Gone, budget), SetApart(f), FailAnswers,
               UNCHANGED parts, pc' = "top"
        PROVE  Free
    <3>1. active' = {} /\ GiveBack(Gone \cup active) /\ Tell(active)
      BY <2>5 DEF FailAnswers, FailAll, Tell
    <3>2. InSlot' = InSlot \ (Gone \cup active)
      BY <2>1, <2>2, <2>5, <3>1 DEF InSlot, SetApart, PoolOK
    <3>3. /\ Gone \cup active \in SUBSET InSlot /\ active \in SUBSET (Gone \cup active)
          /\ \A r \in (Gone \cup active) \ active : RxDropped(r)
      BY <2>2, <2>2a
    <3>4. QED BY <2>1, <2>5, <3>1, <3>2, <3>3 DEF Free
  <2>6. Free  BY <1>9, <2>3, <2>4, <2>5, Zenon DEF Step
  <2>7. QED BY <2>1, <2>6 DEF Move
<1>10. ASSUME NEW r \in Requests, Sample(r) PROVE Move
  <2>1. HandOver(r) /\ r \in active /\ UNCHANGED <<client, req_rx, prefilling, parts>>
    BY <1>10 DEF Sample, PoolOK
  <2>2. r \in InSlot /\ InSlot' = (InSlot \ {r}) \cup (active' \cap {r})
    BY <2>1, HandOverPools DEF InSlot, PoolOK
  <2>3. pc # "drain" /\ pc' # "drain"  BY <1>10, StagePools DEF Sample
  <2>4. QED BY <2>1, <2>2, <2>3, HandOverMove DEF Move, Accepted
<1>11. ASSUME NEW r \in Requests, FinishPart(r) PROVE Move
  <2>1. r \in parts /\ parts' = parts \ {r} /\ UNCHANGED <<client, req_rx>>
        /\ pc # "drain" /\ pc' # "drain"
    BY <1>11, StagePools DEF FinishPart
  <2>2. CASE prompt[r].to < prompt[r].n
    <3>1. prefilling' = prefilling \cup {r} /\ UNCHANGED <<active, idle_slots, seq_id, last_events>>
      BY <1>11, <2>2 DEF FinishPart
    <3>2. QED BY <2>1, <3>1, TellNobody DEF Move, Stay, Keep, InSlot, Accepted
  <2>3. CASE ~(prompt[r].to < prompt[r].n)
    <3>1. HandOver(r) /\ prefilling' = prefilling  BY <1>11, <2>3 DEF FinishPart
    <3>2. r \in InSlot /\ InSlot' = (InSlot \ {r}) \cup (active' \cap {r})
      BY <2>1, <3>1, HandOverPools DEF InSlot, PoolOK
    <3>3. QED BY <2>1, <3>1, <3>2, HandOverMove DEF Move, Accepted
  <2>4. QED BY <2>2, <2>3
<1>12. ASSUME NEW r \in Requests, BeginWhole(r) PROVE Move
  <2>1. HandOver(r) /\ parts' = {} /\ r \in parts /\ UNCHANGED <<client, req_rx, prefilling>>
    BY <1>12 DEF BeginWhole
  <2>2. parts = {r}  BY <1>12, <2>1 DEF BeginWhole, PoolOK
  <2>3. r \in InSlot /\ InSlot' = (InSlot \ {r}) \cup (active' \cap {r})
    BY <2>1, <2>2, HandOverPools DEF InSlot, PoolOK
  <2>4. pc # "drain" /\ pc' # "drain"  BY <1>12 DEF BeginWhole
  <2>5. QED BY <2>1, <2>3, <2>4, HandOverMove DEF Move, Accepted
<1>13. CASE ReadApart
  <2>1. PICK r \in Requests :
          /\ IsFirst(r, Apart(prefilling))
          /\ \/ /\ RxDropped(r) /\ StopReading(r) /\ GiveBack({r})
                /\ UNCHANGED <<active, last_events>>
             \/ UNCHANGED <<prefilling, active, idle_slots, seq_id, last_events>>
             \/ StopReading(r) /\ HandOver(r)
             \/ StopReading(r) /\ Finish(r, 0, "error")
    BY <1>13, Zenon DEF ReadApart
  <2>2. r \in prefilling /\ r \in InSlot /\ r \notin active /\ parts = {} /\ parts' = parts
        /\ req_rx' = req_rx /\ Accepted' = Accepted /\ pc # "drain" /\ pc' # "drain"
    BY <1>13, <2>1 DEF IsFirst, Apart, InSlot, PoolOK, ReadApart, Accepted
  <2>3. ASSUME StopReading(r), GiveBack({r}), active' = active, NEW T \in SUBSET {r},
               Tell(T), T = {} => RxDropped(r)
        PROVE  Move
    <3>1. InSlot' = InSlot \ {r}  BY <2>2, <2>3 DEF InSlot, StopReading
    <3>2. {r} \in SUBSET InSlot /\ \A q \in {r} \ T : RxDropped(q)  BY <2>2, <2>3
    <3>3. QED BY <2>2, <2>3, <3>1, <3>2 DEF Move, Free
  <2>3a. CASE RxDropped(r) /\ StopReading(r) /\ GiveBack({r}) /\ UNCHANGED <<active, last_events>>
    <3>1. Tell({}) /\ {} \in SUBSET {r}  BY <2>3a, TellNobody
    <3>2. QED BY <2>3, <2>3a, <3>1
  <2>3b. CASE StopReading(r) /\ Finish(r, 0, "error")
    <3>1. Tell({r})
      <4>1. Tell(IF "error" = "none" THEN {} ELSE {r})  BY <2>3b, FinishTells
      <4>2. QED BY <4>1
    <3>2. GiveBack({r}) /\ active' = active  BY <2>2, <2>3b DEF Finish
    <3>3. QED BY <2>3, <2>3b, <3>1, <3>2
  <2>4. CASE UNCHANGED <<prefilling, active, idle_slots, seq_id, last_events>>
    BY <2>2, <2>4, TellNobody DEF Move, Stay, Keep, InSlot
  <2>5. CASE StopReading(r) /\ HandOver(r)
    <3>1. InSlot' = (InSlot \ {r}) \cup (active' \cap {r})
      BY <2>2, <2>5, HandOverPools DEF InSlot, StopReading
    <3>2. QED BY <2>2, <2>5, <3>1, HandOverMove DEF Move
  <2>6. QED BY <2>1, <2>3a, <2>3b, <2>4, <2>5
<1>14. QED
  BY <1>1, <1>2, <1>3, <1>4, <1>5, <1>5a, <1>6, <1>7, <1>8, <1>9, <1>10, <1>11, <1>12,
     <1>13, Zenon
  DEF Next, Thread, Handlers

LEMMA StepQueue == Typed /\ QueueOK /\ Move => QueueOK'
<1> SUFFICES ASSUME Typed, QueueOK, Move PROVE QueueOK'  OBVIOUS
<1>1. CASE Add
  <2>1. PICK r \in Requests :
          /\ r \notin Accepted /\ Accepted' = Accepted \cup {r}
          /\ req_rx' = Append(req_rx, r) /\ InSlot' = InSlot
    BY <1>1 DEF Add, Stay, Keep
  <2>2. r \notin Queued /\ r \notin InSlot  BY <2>1 DEF QueueOK
  <2>3. QED BY <2>1, <2>2, AddedToQueue DEF QueueOK
<1>2. CASE (Drop \/ Take) /\ Accepted' = Accepted
  <2>1. req_rx # <<>> /\ req_rx' = Tail(req_rx)  BY <1>2 DEF Drop, Take
  <2>2. InSlot' \in {InSlot, InSlot \cup {Head(req_rx)}}  BY <1>2 DEF Drop, Take, Keep
  <2>3. QED BY <1>2, <2>1, <2>2, TakenFromQueue DEF QueueOK
<1>3. CASE (Stay \/ Warn \/ Free \/ Stop) /\ req_rx' = req_rx /\ Accepted' = Accepted
  <2>1. InSlot' \subseteq InSlot  BY <1>3 DEF Stay, Warn, Keep, Free, Stop
  <2>2. Queued' = Queued  BY <1>3 DEF Queued
  <2>3. QED BY <1>3, <2>1, <2>2 DEF QueueOK
<1>4. QED BY <1>1, <1>2, <1>3 DEF Move

(* Once the loop has returned it does not start again.                     *)
LEMMA StaysReturned ==
  ASSUME [Next]_vars, pc \in {"teardown", "gone"}
  PROVE  pc' \in {"teardown", "gone"}
<1>1. CASE UNCHANGED vars  BY <1>1 DEF vars
<1>2. CASE Handlers
  BY <1>2 DEF Handlers, Submit, Notify, Receive, Leave, RequestShutdown, DropHandles
<1>3. CASE Thread
  BY <1>3 DEF Thread, Top, Drain, DropReceiver, RefuseHead, AdmitHead, AdmitNone,
              Disconnected, Sleep, WaitTimeout, Step, ReadApart, Sample, FinishPart, BeginWhole
<1>4. QED BY <1>1, <1>2, <1>3 DEF Next
LEMMA GiveBackConserves ==
  ASSUME Typed, QueueOK, SlotsOK, NEW S \in SUBSET InSlot, InSlot' = InSlot \ S, GiveBack(S)
  PROVE  SlotsOK'
<1>1. \A s \in Slots : idle_slots'[s] = IF \E r \in S : seq_id[r] = s
                                          THEN idle_slots[s] + 1 ELSE idle_slots[s]
  BY DEF GiveBack
<1>2. \A r \in InSlot' : r \in InSlot /\ r \notin S /\ seq_id'[r] = seq_id[r]
  BY DEF GiveBack, QueueOK, Accepted
<1>3. \A s \in Slots : idle_slots'[s] = IF \E r \in InSlot' : seq_id'[r] = s THEN 0 ELSE 1
  <2> TAKE s \in Slots
  <2>1. CASE \E r \in S : seq_id[r] = s
    <3>1. PICK r \in S : seq_id[r] = s  BY <2>1
    <3>2. idle_slots[s] = 0  BY <3>1 DEF SlotsOK
    <3>3. ~ \E q \in InSlot' : seq_id'[q] = s  BY <1>2, <3>1 DEF SlotsOK
    <3>4. QED BY <1>1, <2>1, <3>2, <3>3
  <2>2. CASE ~ \E r \in S : seq_id[r] = s
    <3>1. (\E q \in InSlot' : seq_id'[q] = s) <=> (\E q \in InSlot : seq_id[q] = s)
      BY <1>2, <2>2
    <3>2. QED BY <1>1, <2>2, <3>1 DEF SlotsOK
  <2>3. QED BY <2>1, <2>2
<1>4. QED BY <1>2, <1>3 DEF SlotsOK

LEMMA TakeConserves ==
  ASSUME Typed, QueueOK, SlotsOK, Take
  PROVE  SlotsOK'
<1> DEFINE h == Head(req_rx)
<1>1. h \in Requests /\ h \notin InSlot
  BY TakenFromQueue DEF Take, QueueOK, Accepted
<1>2. PICK s \in Slots : /\ idle_slots[s] > 0
                         /\ idle_slots' = [idle_slots EXCEPT ![s] = @ - 1]
                         /\ seq_id' = [seq_id EXCEPT ![h] = s]
  BY DEF Take
<1>3. InSlot' = InSlot \cup {h}  BY DEF Take
<1>4. seq_id'[h] = s /\ \A r \in InSlot : seq_id'[r] = seq_id[r]
  BY <1>1, <1>2 DEF Typed, TypeOK, QueueOK, Accepted
<1>5. idle_slots[s] = 1 /\ \A r \in InSlot : seq_id[r] # s  BY <1>2 DEF SlotsOK
<1>6. /\ idle_slots'[s] = 0
      /\ \A t \in Slots : t # s => idle_slots'[t] = idle_slots[t]
  BY <1>2, <1>5 DEF Typed, TypeOK
<1> HIDE DEF h
<1>7. ASSUME NEW t \in Slots
      PROVE  idle_slots'[t] = IF \E r \in InSlot' : seq_id'[r] = t THEN 0 ELSE 1
  <2>1. CASE t = s  BY <1>3, <1>4, <1>6, <2>1
  <2>2. CASE t # s
    <3>1. (\E r \in InSlot' : seq_id'[r] = t) <=> (\E r \in InSlot : seq_id[r] = t)
      BY <1>3, <1>4, <2>2
    <3>2. QED BY <1>6, <2>2, <3>1 DEF SlotsOK
  <2>3. QED BY <2>1, <2>2
<1>8. QED BY <1>3, <1>4, <1>5, <1>7 DEF SlotsOK

LEMMA StepSlots ==
  Typed /\ QueueOK /\ LoopSlotsOK /\ Move /\ [Next]_vars => LoopSlotsOK'
<1> SUFFICES ASSUME Typed, QueueOK, LoopSlotsOK, Move, [Next]_vars,
                    pc' \notin {"teardown", "gone"}
             PROVE  SlotsOK'
  BY DEF LoopSlotsOK
<1>1. SlotsOK  BY StaysReturned DEF LoopSlotsOK
<1>2. CASE Keep  BY <1>1, <1>2 DEF Keep, SlotsOK
<1>3. CASE Free  BY <1>1, <1>3, GiveBackConserves DEF Free
<1>4. CASE Take  BY <1>1, <1>4, TakeConserves
<1>5. QED BY <1>2, <1>3, <1>4 DEF Move, Add, Drop, Stay, Warn, Stop

-----------------------------------------------------------------------------
(* The safety of the pools, together. *)

PoolsInv == Typed /\ PoolOK /\ QueueOK /\ LoopSlotsOK

LEMMA InitPools == Init => PoolsInv
<1> SUFFICES ASSUME Init PROVE PoolsInv  OBVIOUS
<1>1. InSlot = {} /\ Queued = {} /\ req_rx = <<>>  BY DEF Init, InSlot, Queued
<1>2. DOMAIN req_rx = {}  BY <1>1
<1>3. PoolOK /\ QueueOK  BY <1>1, <1>2 DEF Init, PoolOK, QueueOK
<1>4. LoopSlotsOK  BY <1>1 DEF Init, LoopSlotsOK, SlotsOK
<1>5. QED BY <1>3, <1>4, InitTyped DEF PoolsInv

LEMMA StepPoolsInv == PoolsInv /\ [Next]_vars => PoolsInv'
<1> SUFFICES ASSUME PoolsInv, [Next]_vars PROVE PoolsInv'  OBVIOUS
<1>1. Move  BY Moves DEF PoolsInv
<1>2. QED BY <1>1, StepTyped, StepPools, StepQueue, StepSlots DEF PoolsInv

LEMMA PoolsInvariant == Spec => []PoolsInv
BY InitPools, StepPoolsInv, PTL DEF Spec

(* finish_clean, finish_wiped and the error paths of the loop neither leak *)
(* a slot nor put it back twice: every slot is in idle_slots once or held  *)
(* by one request.                                                         *)
THEOREM SlotsAreConserved == Spec => []SlotsConserved
<1>1. PoolsInv => SlotsConserved
  BY DEF PoolsInv, LoopSlotsOK, SlotsOK, SlotsConserved
<1>2. QED BY <1>1, PoolsInvariant, PTL

(* Step 1's count of answers and prompts being read always leaves an idle  *)
(* slot for pick_slot: the break that drops a request is dead code.        *)
THEOREM AlwaysASlot == Spec => []NeverOutOfSlots
<1>1. PoolsInv => NeverOutOfSlots  BY RoomMeansIdle DEF PoolsInv
<1>2. QED BY <1>1, PoolsInvariant, PTL
-----------------------------------------------------------------------------
(* Last events. *)

(* A request is told nothing final while it waits or holds a slot, unless  *)
(* a shutdown told it already; once over it was, or its client had left.   *)
EventsOK ==
  \A r \in Requests :
    /\ r \notin Accepted \/ r \in Queued => last_events[r] = 0
    /\ r \in InSlot => last_events[r] = IF pc = "drain" THEN 1 ELSE 0
    /\ r \in Over => last_events[r] = 1 \/ (last_events[r] = 0 /\ RxDropped(r))

(* A receiver that was dropped stays dropped.                              *)
LEMMA StaysDropped ==
  ASSUME Typed, [Next]_vars, NEW r \in Requests, RxDropped(r)
  PROVE  RxDropped(r)'
<1> USE DEF sharedVars
<1>1. CASE UNCHANGED vars  BY <1>1 DEF vars, RxDropped
<1>2. CASE Handlers
  BY <1>2 DEF Handlers, Submit, Notify, Receive, Leave, RequestShutdown, DropHandles,
              RxDropped, Typed, TypeOK
<1>3. CASE Thread
  <2>1. client' = client
    BY <1>3 DEF Thread, Top, Drain, DropReceiver, RefuseHead, AdmitHead, AdmitNone,
                Disconnected, Sleep, WaitTimeout, Step, ReadApart, Sample, FinishPart, BeginWhole
  <2>2. QED BY <2>1 DEF RxDropped
<1>4. QED BY <1>1, <1>2, <1>3 DEF Next

LEMMA StepEvents ==
  ASSUME Typed, QueueOK, QueueOK', EventsOK, Move, [Next]_vars
  PROVE  EventsOK'
<1>1. ASSUME NEW r \in Requests PROVE last_events[r] \in Nat  BY DEF Typed, TypeOK
<1>2. CASE Add
  <2>1. PICK q \in Requests :
          /\ q \notin Accepted /\ Accepted' = Accepted \cup {q}
          /\ req_rx' = Append(req_rx, q) /\ InSlot' = InSlot
          /\ Tell({}) /\ (pc' = "drain" <=> pc = "drain")
    BY <1>2 DEF Add, Stay, Keep
  <2>2. Queued' = Queued \cup {q} /\ q \notin InSlot
    BY <2>1, AddedToQueue DEF QueueOK
  <2>3. \A r \in Requests : last_events'[r] = last_events[r]  BY <2>1 DEF Tell
  <2>4. QED BY <2>1, <2>2, <2>3, StaysDropped DEF EventsOK, Over
<1>3. CASE Drop /\ Accepted' = Accepted
  <2> DEFINE h == Head(req_rx)
  <2>1. h \in Queued /\ Queued' = Queued \ {h} /\ InSlot' = InSlot /\ pc' = pc
    BY <1>3, TakenFromQueue DEF Drop, Keep
  <2>2. /\ h \in Requests /\ h \notin InSlot /\ last_events'[h] = last_events[h] + 1
        /\ \A r \in Requests \ {h} : last_events'[r] = last_events[r]
    BY <1>3, <2>1 DEF Drop, Tell, QueueOK, Accepted
  <2> HIDE DEF h
  <2>3. last_events'[h] = 1  BY <1>1, <2>1, <2>2 DEF EventsOK
  <2>4. Over' = Over \cup {h}  BY <1>3, <2>1, <2>2 DEF Over, QueueOK
  <2>5. \A r \in Requests : RxDropped(r) => RxDropped(r)'  BY StaysDropped
  <2>6. h \in Accepted  BY <2>1 DEF QueueOK
  <2>7. ASSUME NEW r \in Requests \ {h}
        PROVE  /\ r \notin Accepted' \/ r \in Queued' => last_events'[r] = 0
               /\ r \in InSlot' => last_events'[r] = IF pc' = "drain" THEN 1 ELSE 0
               /\ r \in Over' => last_events'[r] = 1
                                 \/ (last_events'[r] = 0 /\ RxDropped(r)')
    BY <1>3, <2>1, <2>2, <2>4, <2>5 DEF EventsOK
  <2>8. /\ h \in Accepted' /\ h \notin Queued' /\ h \notin InSlot' /\ last_events'[h] = 1
    BY <1>3, <2>1, <2>2, <2>3, <2>6
  <2>9. QED BY <2>7, <2>8 DEF EventsOK
<1>4. CASE Take /\ Accepted' = Accepted
  <2> DEFINE h == Head(req_rx)
  <2>1. h \in Queued /\ Queued' = Queued \ {h} /\ InSlot' = InSlot \cup {h}
        /\ pc # "drain" /\ pc' # "drain"
    BY <1>4, TakenFromQueue DEF Take
  <2>2. \A r \in Requests : last_events'[r] = last_events[r]  BY <1>4 DEF Take, Tell
  <2> HIDE DEF h
  <2>3. Over' = Over  BY <1>4, <2>1 DEF Over
  <2>4. \A r \in Requests : RxDropped(r) => RxDropped(r)'  BY StaysDropped
  <2>5. QED BY <1>4, <2>1, <2>2, <2>3, <2>4 DEF EventsOK
<1>5. ASSUME req_rx' = req_rx, Accepted' = Accepted, Stay \/ Warn \/ Free \/ Stop
      PROVE  EventsOK'
  <2>1. Queued' = Queued  BY <1>5 DEF Queued
  <2>2. CASE Stay
    <3>1. \A r \in Requests : last_events'[r] = last_events[r]  BY <2>2 DEF Stay, Tell
    <3>2. QED BY <1>5, <2>1, <2>2, <3>1, StaysDropped DEF Stay, Keep, EventsOK, Over
  <2>3. CASE Warn
    <3>1. InSlot' = InSlot /\ pc # "drain" /\ pc' = "drain"  BY <2>3 DEF Warn, Keep
    <3>2. \A r \in Requests :
            last_events'[r] = IF r \in InSlot THEN last_events[r] + 1 ELSE last_events[r]
      BY <2>3 DEF Warn, Tell
    <3>3. \A r \in InSlot : r \in Requests /\ r \notin Queued /\ r \in Accepted
      BY DEF QueueOK, Accepted
    <3>4. QED BY <1>5, <2>1, <3>1, <3>2, <3>3, StaysDropped DEF EventsOK, Over
  <2>4. CASE Free
    <3>1. PICK S \in SUBSET InSlot : \E T \in SUBSET S :
            /\ InSlot' = InSlot \ S /\ Tell(T) /\ \A r \in S \ T : RxDropped(r)
            /\ pc # "drain" /\ pc' # "drain"
      BY <2>4 DEF Free
    <3>2. PICK T \in SUBSET S :
            /\ InSlot' = InSlot \ S /\ Tell(T) /\ \A r \in S \ T : RxDropped(r)
            /\ pc # "drain" /\ pc' # "drain"
      BY <3>1
    <3>3. \A r \in Requests :
            last_events'[r] = IF r \in T THEN last_events[r] + 1 ELSE last_events[r]
      BY <3>2 DEF Tell
    <3>4. \A r \in InSlot : r \in Requests /\ r \notin Queued /\ r \in Accepted
      BY DEF QueueOK, Accepted
    <3>5. \A r \in Requests : RxDropped(r) => RxDropped(r)'  BY StaysDropped
    <3>6. QED BY <1>5, <2>1, <3>2, <3>3, <3>4, <3>5 DEF EventsOK, Over
  <2>5. CASE Stop
    <3>1. InSlot' = {} /\ pc' # "drain"  BY <2>5 DEF Stop
    <3>2. \A r \in Requests :
            last_events'[r] = IF pc # "drain" /\ r \in InSlot THEN last_events[r] + 1
                                                             ELSE last_events[r]
      BY <2>5 DEF Stop, Tell
    <3>3. \A r \in InSlot : r \in Requests /\ r \notin Queued /\ r \in Accepted
      BY DEF QueueOK, Accepted
    <3>4. \A r \in Requests : RxDropped(r) => RxDropped(r)'  BY StaysDropped
    <3>5. QED BY <1>5, <2>1, <3>1, <3>2, <3>3, <3>4 DEF EventsOK, Over
  <2>6. QED BY <1>5, <2>2, <2>3, <2>4, <2>5
<1>6. QED BY <1>2, <1>3, <1>4, <1>5 DEF Move

EventsInv == PoolsInv /\ EventsOK

LEMMA EventsInvariant == Spec => []EventsInv
<1>1. Init => EventsInv
  <2> SUFFICES ASSUME Init PROVE EventsOK  BY InitPools DEF EventsInv
  <2>1. Accepted = {} /\ InSlot = {}  BY DEF Init, Accepted, InSlot
  <2>2. QED BY <2>1 DEF Init, EventsOK, Over
<1>2. EventsInv /\ [Next]_vars => EventsInv'
  <2> SUFFICES ASSUME EventsInv, [Next]_vars PROVE EventsInv'  OBVIOUS
  <2>1. PoolsInv /\ PoolsInv'  BY StepPoolsInv DEF EventsInv
  <2>2. Move  BY <2>1, Moves DEF PoolsInv
  <2>3. QED BY <2>1, <2>2, StepEvents DEF EventsInv, PoolsInv
<1>3. QED BY <1>1, <1>2, PTL DEF Spec

(* Whoever submitted gets one Done or Error, never two, on every path of   *)
(* the loop, and none only when its client is gone.                        *)
THEOREM AnsweredOnce == Spec => []OneLastEvent
<1>1. EventsInv => OneLastEvent
  <2> SUFFICES ASSUME EventsInv, NEW r \in Requests
               PROVE  /\ last_events[r] <= 1
                      /\ r \in Over /\ last_events[r] = 0 => RxDropped(r)
    BY DEF OneLastEvent
  <2>1. r \notin Accepted \/ r \in Queued \/ r \in InSlot \/ r \in Over  BY DEF Over
  <2>2. QED BY <2>1 DEF EventsInv, EventsOK
<1>2. QED BY <1>1, EventsInvariant, PTL

LEMMA FailAllSends ==
  ASSUME Typed, NEW S, FailAll(S), NEW r \in Requests, chan'[r] # chan[r]
  PROVE  r \in S
BY DEF FailAll

LEMMA FinishSends ==
  ASSUME Typed, NEW q \in Requests, NEW k, NEW last, Finish(q, k, last),
         NEW r \in Requests, chan'[r] # chan[r]
  PROVE  r = q
BY DEF Finish, Typed, TypeOK

LEMMA HandOverSends ==
  ASSUME Typed, NEW q \in Requests, HandOver(q), NEW r \in Requests, chan'[r] # chan[r]
  PROVE  r = q
<1>1. CASE Ends(q)
  <2>1. PICK k \in 0..2, last \in {"none", "done", "error"} : Finish(q, k, last)
    BY <1>1 DEF Ends
  <2>2. QED BY <2>1, FinishSends
<1>2. CASE GoesOn(q)
  <2>1. PICK k \in 0..2 : chan' = [chan EXCEPT ![q] = TrySend(q, k, "none")]
    BY <1>2 DEF GoesOn
  <2>2. QED BY <2>1 DEF Typed, TypeOK
<1>3. QED BY <1>1, <1>2, EndsOrGoesOn

(* A channel changes as its client reads it or leaves, or as something is  *)
(* sent on it: by the loop, to a request that waits or holds a slot.       *)
LEMMA WhoIsSentTo ==
  ASSUME Typed, PoolOK, QueueOK, [Next]_vars, NEW r \in Requests, chan'[r] # chan[r]
  PROVE  Receive(r) \/ Leave(r) \/ r \in Queued \/ (r \in InSlot /\ pc # "drain")
<1> USE DEF sharedVars
<1>1. CASE UNCHANGED vars  BY <1>1 DEF vars
<1>2. ASSUME NEW q \in Requests, Receive(q) PROVE r = q
  <2>1. chan' = [chan EXCEPT ![q].pieces = @ - 1] \/ chan' = [chan EXCEPT ![q] = NoEvents]
    BY <1>2 DEF Receive
  <2>2. QED BY <2>1 DEF Typed, TypeOK
<1>3. ASSUME NEW q \in Requests, Leave(q) PROVE r = q
  BY <1>3 DEF Leave, Typed, TypeOK
<1>4. CASE Handlers
  BY <1>2, <1>3, <1>4 DEF Handlers, Submit, Notify, RequestShutdown, DropHandles
<1>5. CASE DropReceiver \/ AdmitHead \/ AdmitNone \/ Sleep \/ WaitTimeout
  BY <1>5 DEF DropReceiver, AdmitHead, AdmitNone, Sleep, WaitTimeout
<1>6. CASE Top \/ Disconnected
  <2>1. pc # "drain" /\ FailAll(active \cup prefilling)  BY <1>6 DEF Top, Disconnected
  <2>2. QED BY <2>1, FailAllSends DEF InSlot
<1>7. CASE Drain \/ RefuseHead
  <2>1. req_rx # <<>> /\ req_rx' = Tail(req_rx) /\ FailAll({Head(req_rx)})
    BY <1>7 DEF Drain, RefuseHead
  <2>2. Head(req_rx) \in Queued  BY <2>1, TakenFromQueue
  <2>3. QED BY <2>1, <2>2, FailAllSends
<1>8. CASE Step
  <2>1. (chan' = chan) \/ FailAll(active)  BY <1>8 DEF Step, Decoded, FailAnswers
  <2>2. pc # "drain"  BY <1>8 DEF Step
  <2>3. QED BY <2>1, <2>2, FailAllSends DEF InSlot
<1>9. ASSUME NEW q \in Requests, Sample(q) \/ FinishPart(q) \/ BeginWhole(q)
      PROVE  r \in InSlot /\ pc # "drain"
  <2>1. q \in InSlot /\ pc # "drain"
    BY <1>9 DEF Sample, FinishPart, BeginWhole, InSlot, PoolOK
  <2>2. HandOver(q) \/ chan' = chan  BY <1>9 DEF Sample, FinishPart, BeginWhole
  <2>3. QED BY <2>1, <2>2, HandOverSends
<1>10. CASE ReadApart
  <2>1. PICK q \in Requests : /\ q \in prefilling
                              /\ chan' = chan \/ HandOver(q) \/ Finish(q, 0, "error")
    BY <1>10 DEF ReadApart, IsFirst, Apart
  <2>2. q \in InSlot /\ pc # "drain"  BY <1>10, <2>1 DEF ReadApart, InSlot
  <2>3. QED BY <2>1, <2>2, HandOverSends, FinishSends
<1>11. QED
  BY <1>1, <1>4, <1>5, <1>6, <1>7, <1>8, <1>9, <1>10, Zenon DEF Next, Thread

(* No piece follows a request's last event, and no second last event.      *)
THEOREM LastIsLast == Spec => NothingAfterLast
<1>1. EventsInv /\ [Next]_vars =>
        [\A r \in Requests : last_events[r] > 0 =>
           /\ chan'[r].pieces <= chan[r].pieces
           /\ chan'[r].last \in {chan[r].last, "none"}]_vars
  <2> SUFFICES ASSUME EventsInv, [Next]_vars, NEW r \in Requests, last_events[r] > 0
               PROVE  /\ chan'[r].pieces <= chan[r].pieces
                      /\ chan'[r].last \in {chan[r].last, "none"}
    OBVIOUS
  <2>1. chan \in [Requests -> Events] /\ chan[r].pieces \in Nat
    BY DEF EventsInv, PoolsInv, Typed, TypeOK, Events
  <2>2. CASE chan'[r] = chan[r]  BY <2>1, <2>2
  <2>3. CASE chan'[r] # chan[r]
    <3>1. r \notin Queued /\ ~(r \in InSlot /\ pc # "drain")
      <4>1. last_events[r] # 0  OBVIOUS
      <4>2. QED BY <4>1 DEF EventsInv, EventsOK
    <3>2. Receive(r) \/ Leave(r)
      BY <2>3, <3>1, WhoIsSentTo DEF EventsInv, PoolsInv
    <3>3. \/ chan' = [chan EXCEPT ![r].pieces = @ - 1] /\ chan[r].pieces > 0
          \/ chan' = [chan EXCEPT ![r] = NoEvents]
      BY <2>3, <3>2 DEF Receive, Leave
    <3>4. CASE chan' = [chan EXCEPT ![r].pieces = @ - 1] /\ chan[r].pieces > 0
      <4>1. chan'[r] = [chan[r] EXCEPT !.pieces = @ - 1]  BY <2>1, <3>4
      <4>2. chan[r] \in Events  BY <2>1
      <4>3. QED BY <2>1, <4>1, <4>2 DEF Events
    <3>5. CASE chan' = [chan EXCEPT ![r] = NoEvents]  BY <2>1, <3>5 DEF NoEvents
    <3>6. QED BY <3>3, <3>4, <3>5
  <2>4. QED BY <2>2, <2>3
<1>2. QED BY <1>1, EventsInvariant, PTL DEF Spec, NothingAfterLast
-----------------------------------------------------------------------------
(* Prompts being read. *)

(* The part of a prompt in the step reads it forwards.                     *)
PartsOK == pc \in {"sample", "parts"} => \A r \in parts : prompt[r].cursor <= prompt[r].to

LEMMA ForgetKeeps ==
  ASSUME NEW S, NEW p \in [Requests -> Prompts], NEW r \in Requests, r \notin S
  PROVE  /\ Forget(S, p)[r] \in Prompts
         /\ Forget(S, p)[r].n = p[r].n
         /\ Forget(S, p)[r].cursor = p[r].cursor
         /\ Forget(S, p)[r].to = p[r].to
         /\ Forget(S, p)[r].apart = p[r].apart
         /\ Forget(S, p)[r].earlier = p[r].earlier \ S
<1>1. Forget(S, p)[r] = [p[r] EXCEPT !.earlier = @ \ S]  BY DEF Forget
<1>2. p[r] \in Prompts  OBVIOUS
<1>3. QED BY <1>1, <1>2 DEF Prompts

(* What a decode step does to the prompts that stay.                       *)
LEMMA StepPrompts ==
  ASSUME Typed, PoolOK, Step
  PROVE  \A r \in InSlot' :
           /\ prompt'[r].cursor = prompt[r].cursor
           /\ r \in parts' => prompt'[r].cursor <= prompt'[r].to
<1> DEFINE whole  == prefilling \ Apart(prefilling)
           oldest == IF whole = {} THEN 0 ELSE Left(First(whole))
           budget == PromptBudget(Cardinality(active), oldest)
           left   == Forget(Gone, prompt)
<1>1. prompt \in [Requests -> Prompts] /\ parts = {}  BY DEF Typed, TypeOK, PoolOK, Step
<1>2. \A r \in Requests \ Gone : left[r] \in Prompts /\ left[r].cursor = prompt[r].cursor
  BY <1>1, ForgetKeeps
<1>3. Gone \subseteq prefilling /\ Gone \cap active = {} /\ prefilling \subseteq Requests
      /\ active \subseteq Requests
  BY DEF Gone, PoolOK, Typed, TypeOK
<1> HIDE DEF left, budget
<1>4. ASSUME NEW f \in Shares(whole \ Gone, budget), Decoded(f)
      PROVE  \A r \in InSlot' : /\ prompt'[r].cursor = prompt[r].cursor
                                /\ r \in parts' => prompt'[r].cursor <= prompt'[r].to
  <2> DEFINE read == {r \in DOMAIN f : f[r] > 0}
  <2>1. /\ parts' = read /\ prefilling' = (prefilling \ Gone) \ read /\ active' = active
        /\ prompt' = [r \in Requests |-> IF r \in read
             THEN [left[r] EXCEPT !.to = left[r].cursor + f[r]] ELSE left[r]]
    BY <1>4 DEF Decoded, left
  <2>2. read \subseteq prefilling \ Gone /\ \A r \in read : f[r] \in Nat
    BY SizesAssumption DEF Shares
  <2>3. InSlot' \subseteq Requests \ Gone  BY <1>1, <1>3, <2>1, <2>2 DEF InSlot
  <2> HIDE DEF read
  <2>4. TAKE r \in InSlot'
  <2>5. left[r] \in Prompts /\ left[r].cursor = prompt[r].cursor /\ left[r].cursor \in Nat
    BY <1>2, <2>3 DEF Prompts
  <2>6. CASE r \in read
    <3>1. prompt'[r] = [left[r] EXCEPT !.to = left[r].cursor + f[r]]  BY <2>1, <2>3, <2>6
    <3>2. prompt'[r].cursor = left[r].cursor /\ prompt'[r].to = left[r].cursor + f[r]
      BY <2>5, <3>1 DEF Prompts
    <3>3. QED BY <2>2, <2>5, <2>6, <3>2
  <2>7. CASE r \notin read  BY <2>1, <2>3, <2>5, <2>7
  <2>8. QED BY <2>6, <2>7
<1>5. ASSUME NEW f \in Shares(whole \ Gone, budget), SetApart(f), parts' = parts,
             active' \subseteq active
      PROVE  \A r \in InSlot' : prompt'[r].cursor = prompt[r].cursor /\ r \notin parts'
  <2> DEFINE read == {r \in DOMAIN f : f[r] > 0}
  <2>1. prompt' = [r \in Requests |-> IF r \in read THEN [left[r] EXCEPT !.apart = TRUE]
                                                    ELSE left[r]]
        /\ prefilling' = prefilling \ Gone
    BY <1>5 DEF SetApart, left
  <2>2. InSlot' \subseteq Requests \ Gone  BY <1>1, <1>3, <1>5, <2>1 DEF InSlot
  <2> HIDE DEF read
  <2>3. TAKE r \in InSlot'
  <2>4. left[r] \in Prompts /\ left[r].cursor = prompt[r].cursor  BY <1>2, <2>2
  <2>5. [left[r] EXCEPT !.apart = TRUE].cursor = left[r].cursor  BY <2>4 DEF Prompts
  <2>6. QED BY <1>1, <1>5, <2>1, <2>2, <2>4, <2>5
<1>6. PICK f \in Shares(whole \ Gone, budget) :
        Decoded(f) \/ (SetApart(f) /\ parts' = parts /\ active' \subseteq active)
  <2>1. \E f \in Shares(whole \ Gone, budget) :
          \/ Decoded(f)
          \/ SetApart(f) /\ UNCHANGED <<parts, active>>
          \/ SetApart(f) /\ FailAnswers /\ UNCHANGED <<parts, unsampled>>
    BY Zenon DEF Step, budget
  <2>2. FailAnswers => active' \subseteq active  BY DEF FailAnswers
  <2>3. QED BY <2>1, <2>2
<1>7. QED BY <1>4, <1>5, <1>6

LEMMA StepParts == Typed /\ PoolOK /\ PartsOK /\ [Next]_vars => PartsOK'
<1> SUFFICES ASSUME Typed, PoolOK, PartsOK, [Next]_vars, pc' \in {"sample", "parts"}
             PROVE  \A r \in parts' : prompt'[r].cursor <= prompt'[r].to
  BY DEF PartsOK
<1> USE DEF sharedVars, poolVars, seqVars
<1>1. CASE UNCHANGED vars  BY <1>1 DEF vars, PartsOK
<1>2. CASE Handlers
  BY <1>2 DEF Handlers, Submit, Notify, Receive, Leave, RequestShutdown, DropHandles, PartsOK
<1>3. CASE Top \/ Drain \/ DropReceiver \/ RefuseHead \/ AdmitHead \/ AdmitNone
           \/ Disconnected \/ Sleep \/ WaitTimeout \/ ReadApart
  <2>1. pc' \notin {"sample", "parts"}
    BY <1>3 DEF Top, Drain, DropReceiver, RefuseHead, AdmitHead, Admit, AdmitNone,
                Disconnected, Sleep, WaitTimeout, ReadApart
  <2>2. QED BY <2>1
<1>4. CASE Step  BY <1>4, StepPrompts DEF InSlot
<1>5. ASSUME NEW q \in Requests, Sample(q) \/ BeginWhole(q)
      PROVE  \A r \in parts' : prompt'[r].cursor <= prompt'[r].to
  BY <1>5 DEF Sample, BeginWhole, PartsOK
<1>6. ASSUME NEW q \in Requests, FinishPart(q)
      PROVE  \A r \in parts' : prompt'[r].cursor <= prompt'[r].to
  <2>1. pc = "parts" /\ parts' = parts \ {q} /\ parts \subseteq Requests
        /\ prompt \in [Requests -> Prompts]
    BY <1>6 DEF FinishPart, Typed, TypeOK
  <2>2. \/ prompt' = [prompt EXCEPT ![q].cursor = prompt[q].to, ![q].to = 0]
        \/ prompt' = Forget({q}, prompt)
    BY <1>6 DEF FinishPart
  <2>3. ASSUME NEW r \in parts'
        PROVE  prompt'[r].cursor = prompt[r].cursor /\ prompt'[r].to = prompt[r].to
    <3>1. r \in Requests /\ r # q  BY <2>1
    <3>2. CASE prompt' = Forget({q}, prompt)  BY <2>1, <3>1, <3>2, ForgetKeeps
    <3>3. CASE prompt' = [prompt EXCEPT ![q].cursor = prompt[q].to, ![q].to = 0]
      BY <2>1, <3>1, <3>3
    <3>4. QED BY <2>2, <3>2, <3>3
  <2>4. QED BY <2>1, <2>3 DEF PartsOK
<1>7. QED BY <1>1, <1>2, <1>3, <1>4, <1>5, <1>6, Zenon DEF Next, Thread

(* Where a prompt is read backwards, it fell back.                         *)
FallsBack(r) == prompt[r].may_fall_back /\ ~prompt'[r].may_fall_back

LEMMA StepRereads ==
  ASSUME Typed, PoolOK, QueueOK, PartsOK, [Next]_vars,
         NEW r \in InSlot, r \in InSlot', r \notin active',
         prompt'[r].cursor < prompt[r].cursor
  PROVE  FallsBack(r)
<1> USE DEF sharedVars, poolVars, seqVars
<1>1. r \in Requests /\ prompt \in [Requests -> Prompts] /\ prompt[r] \in Prompts
      /\ prompt[r].cursor \in Nat /\ ~(prompt[r].cursor < prompt[r].cursor)
      /\ prompt'[r].cursor # prompt[r].cursor
  BY DEF InSlot, Typed, TypeOK, Prompts
<1>2. CASE UNCHANGED vars  BY <1>1, <1>2 DEF vars
<1>3. CASE Handlers
  BY <1>1, <1>3 DEF Handlers, Submit, Notify, Receive, Leave, RequestShutdown, DropHandles
<1>4. CASE Top \/ Drain \/ DropReceiver \/ RefuseHead \/ AdmitNone
           \/ Disconnected \/ Sleep \/ WaitTimeout
  BY <1>1, <1>4 DEF Top, Drain, DropReceiver, RefuseHead, AdmitNone, Disconnected, Sleep,
                    WaitTimeout
<1>5. CASE AdmitHead
  <2>1. Head(req_rx) \notin InSlot  BY <1>5, TakenFromQueue DEF AdmitHead, QueueOK
  <2>2. \/ prompt' = prompt
        \/ \E p : prompt' = [prompt EXCEPT ![Head(req_rx)] = p]
    BY <1>5 DEF AdmitHead, Admit
  <2>3. prompt'[r] = prompt[r]  BY <1>1, <2>1, <2>2
  <2>4. QED BY <1>1, <2>3
<1>6. CASE Step  BY <1>1, <1>6, StepPrompts
<1>7. ASSUME NEW q \in Requests, Sample(q) \/ BeginWhole(q) PROVE FALSE
  BY <1>1, <1>7 DEF Sample, BeginWhole
<1>8. ASSUME NEW q \in Requests, FinishPart(q) PROVE FALSE
  <2>1. pc = "parts" /\ q \in parts /\ parts' = parts \ {q}  BY <1>8 DEF FinishPart
  <2>2. CASE prompt' = [prompt EXCEPT ![q].cursor = prompt[q].to, ![q].to = 0]
    <3>1. q = r  BY <1>1, <2>2
    <3>2. prompt'[r].cursor = prompt[r].to  BY <1>1, <2>2, <3>1 DEF Prompts
    <3>3. prompt[r].cursor <= prompt[r].to /\ prompt[r].to \in Nat
      BY <1>1, <2>1, <3>1 DEF PartsOK, Prompts
    <3>4. QED BY <1>1, <3>2, <3>3
  <2>3. CASE prompt' = Forget({q}, prompt) /\ prefilling' = prefilling
    <3>1. r = q  BY <1>1, <2>3, ForgetKeeps
    <3>2. r \notin prefilling' /\ r \notin parts'  BY <2>1, <2>3, <3>1 DEF PoolOK
    <3>3. QED BY <3>2 DEF InSlot
  <2>4. QED BY <1>8, <2>2, <2>3 DEF FinishPart
<1>9. CASE ReadApart
  <2>1. PICK q \in Requests :
          /\ q \in prefilling /\ parts' = parts
          /\ StopReading(q) \/ ReadOn(q) \/ FallBack(q)
    BY <1>9 DEF ReadApart, IsFirst, Apart
  <2>2. CASE StopReading(q)
    <3>1. r = q  BY <1>1, <2>2, ForgetKeeps DEF StopReading
    <3>2. r \notin prefilling' /\ r \notin parts'  BY <2>1, <2>2, <3>1 DEF PoolOK, StopReading
    <3>3. QED BY <3>2 DEF InSlot
  <2>3. CASE ReadOn(q)
    <3>1. PICK e \in IF KeepStates THEN (prompt[q].cursor + 1)..ChunkEnd(q) ELSE {ChunkEnd(q)} :
            e < prompt[q].n /\ prompt' = [prompt EXCEPT ![q].cursor = e]
      BY <2>3, Zenon DEF ReadOn
    <3>2. q = r /\ prompt'[r].cursor = e  BY <1>1, <3>1 DEF Prompts
    <3>3. CASE KeepStates
      <4>1. e \in (prompt[r].cursor + 1)..ChunkEnd(r)  BY <3>1, <3>2, <3>3
      <4>2. prompt[r].cursor < e  BY <1>1, <4>1
      <4>3. QED BY <1>1, <3>2, <4>2
    <3>4. CASE ~KeepStates
      <4> DEFINE chunk == IF active = {} THEN NBatch ELSE NUBatch
      <4>1. e = Least(prompt[r].cursor + chunk, prompt[r].n) /\ e < prompt[r].n
        BY <3>1, <3>2, <3>4 DEF ChunkEnd
      <4>2. chunk \in Nat /\ prompt[r].n \in Nat  BY <1>1, SizesAssumption DEF Prompts
      <4> HIDE DEF chunk
      <4>3. e = prompt[r].cursor + chunk  BY <1>1, <4>1, <4>2 DEF Least
      <4>4. QED BY <1>1, <3>2, <4>2, <4>3
    <3>5. QED BY <3>3, <3>4
  <2>4. CASE FallBack(q)
    <3>1. prompt[q].may_fall_back
          /\ \E e \in 0..(prompt[q].n - 1) :
               prompt' = [prompt EXCEPT ![q].cursor = e, ![q].may_fall_back = FALSE]
      BY <2>4 DEF FallBack
    <3>2. PICK e : prompt' = [prompt EXCEPT ![q].cursor = e, ![q].may_fall_back = FALSE]
      BY <3>1, Zenon
    <3>3. q = r  BY <1>1, <3>2
    <3>4. prompt'[r].may_fall_back = FALSE  BY <1>1, <3>2, <3>3 DEF Prompts
    <3>5. QED BY <3>1, <3>3, <3>4 DEF FallsBack
  <2>5. QED BY <2>1, <2>2, <2>3, <2>4
<1>10. QED
  BY <1>2, <1>3, <1>4, <1>5, <1>6, <1>7, <1>8, <1>9, Zenon DEF Next, Thread

LEMMA PartsInvariant == Spec => [](PoolsInv /\ PartsOK)
<1>1. Init => PoolsInv /\ PartsOK  BY InitPools DEF Init, PartsOK
<1>2. PoolsInv /\ PartsOK /\ [Next]_vars => PoolsInv' /\ PartsOK'
  BY StepPoolsInv, StepParts DEF PoolsInv
<1>3. QED BY <1>1, <1>2, PTL DEF Spec

(* fall_back_from_reuse is taken at most once for a prompt, and nothing    *)
(* else makes the loop read part of a prompt again.                        *)
THEOREM PromptsGoForward == Spec => RereadOnce
<1>1. PoolsInv /\ PartsOK /\ [Next]_vars =>
        [\A r \in InSlot \cap InSlot' :
           r \notin active' /\ prompt'[r].cursor < prompt[r].cursor =>
             prompt[r].may_fall_back /\ ~prompt'[r].may_fall_back]_vars
  BY StepRereads DEF PoolsInv, FallsBack
<1>2. QED BY <1>1, PartsInvariant, PTL DEF Spec, RereadOnce
-----------------------------------------------------------------------------
(* The order of the prompts. *)

(* Of any two prompts of S one came first.                                 *)
InOrder(S) ==
  /\ \A r \in S : r \notin prompt[r].earlier
  /\ \A q, r \in S : q # r => q \in prompt[r].earlier \/ r \in prompt[q].earlier
  /\ \A q, r \in S : q \in prompt[r].earlier =>
       r \notin prompt[q].earlier /\ prompt[q].earlier \cap S \subseteq prompt[r].earlier

LEMMA FirstIs ==
  ASSUME NEW S, IsFiniteSet(S), S # {}, InOrder(S)
  PROVE  IsFirst(First(S), S) /\ \A r : IsFirst(r, S) => r = First(S)
<1> DEFINE B == {prompt[r].earlier \cap S : r \in S}
<1>1. \E r \in S : IsFirst(r, S)
  <2>1. B # {} /\ \A s \in B : IsFiniteSet(s)
    <3>1. \A r \in S : IsFiniteSet(prompt[r].earlier \cap S)  BY FS_Subset
    <3> QED  BY <3>1
  <2> HIDE DEF B
  <2>2. PICK s \in B : \A t \in B : ~(Cardinality(t) < Cardinality(s))  BY <2>1, SmallestSet
  <2>3. PICK r \in S : s = prompt[r].earlier \cap S  BY <2>2 DEF B
  <2>4. s = {}
    <3> SUFFICES ASSUME NEW q \in s PROVE FALSE  OBVIOUS
    <3> DEFINE t == prompt[q].earlier \cap S
    <3>1. q \in S /\ q \in prompt[r].earlier  BY <2>3
    <3>2. t \subseteq s \ {q}  BY <2>3, <3>1 DEF InOrder
    <3>3. t \in B  BY <3>1 DEF B
    <3>4. IsFiniteSet(s) /\ IsFiniteSet(t)  BY <2>1, <3>3
    <3> HIDE DEF t
    <3>5. Cardinality(s \ {q}) < Cardinality(s) /\ Cardinality(s) \in Nat
          /\ Cardinality(s \ {q}) \in Nat /\ IsFiniteSet(s \ {q})
      BY <3>4, OneLess
    <3>6. Cardinality(t) <= Cardinality(s \ {q}) /\ Cardinality(t) \in Nat
      BY <3>2, <3>4, <3>5, FS_Subset, FS_CardinalityType
    <3>7. Cardinality(t) < Cardinality(s)  BY <3>5, <3>6
    <3> QED  BY <2>2, <3>3, <3>7
  <2> QED  BY <2>3, <2>4 DEF IsFirst
<1>2. IsFirst(First(S), S)  BY <1>1 DEF First
<1>3. ASSUME NEW r, IsFirst(r, S) PROVE r = First(S)
  <2> DEFINE q == First(S)
  <2>1. IsFirst(q, S)  BY <1>2
  <2> HIDE DEF q
  <2>2. q = r  BY <1>3, <2>1 DEF IsFirst, InOrder
  <2> QED  BY <2>2 DEF q
<1> QED  BY <1>2, <1>3

(* Some prompt of S came after all the others.                             *)
LEMMA LastIs ==
  ASSUME NEW S, IsFiniteSet(S), S # {}, InOrder(S)
  PROVE  \E r \in S : S \ {r} \subseteq prompt[r].earlier
<1> DEFINE B == {S \ prompt[r].earlier : r \in S}
<1>1. B # {} /\ \A s \in B : IsFiniteSet(s)
  <2>1. \A r \in S : IsFiniteSet(S \ prompt[r].earlier)  BY FS_Subset
  <2> QED  BY <2>1
<1> HIDE DEF B
<1>2. PICK s \in B : \A t \in B : ~(Cardinality(t) < Cardinality(s))  BY <1>1, SmallestSet
<1>3. PICK r \in S : s = S \ prompt[r].earlier  BY <1>2 DEF B
<1>4. ASSUME NEW q \in S, q # r, q \notin prompt[r].earlier PROVE FALSE
  <2> DEFINE t == S \ prompt[q].earlier
  <2>1. r \in prompt[q].earlier  BY <1>4 DEF InOrder
  <2>2. t \subseteq s \ {r} /\ r \in s  BY <1>3, <2>1 DEF InOrder
  <2>3. t \in B  BY DEF B
  <2>4. IsFiniteSet(s) /\ IsFiniteSet(t)  BY <1>1, <2>3
  <2> HIDE DEF t
  <2>5. Cardinality(s \ {r}) < Cardinality(s) /\ Cardinality(s) \in Nat
        /\ Cardinality(s \ {r}) \in Nat /\ IsFiniteSet(s \ {r})
    BY <2>2, <2>4, OneLess
  <2>6. Cardinality(t) <= Cardinality(s \ {r}) /\ Cardinality(t) \in Nat
    BY <2>2, <2>4, <2>5, FS_Subset, FS_CardinalityType
  <2>7. Cardinality(t) < Cardinality(s)  BY <2>5, <2>6
  <2> QED  BY <1>2, <2>3, <2>7
<1> QED  BY <1>4

LEMMA PartOfOrder ==
  ASSUME NEW S, InOrder(S), NEW T, T \subseteq S
  PROVE  InOrder(T)
BY DEF InOrder

(* Together, the shares are no more than was to be shared.                 *)
LEMMA SharesFit ==
  ASSUME Typed, NEW R \in SUBSET Requests, InOrder(R), NEW budget \in Nat,
         NEW f \in Shares(R, budget)
  PROVE  Total(f, {r \in R : f[r] > 0}) <= budget
<1> DEFINE P == {r \in R : f[r] > 0}
<1>1. IsFiniteSet(R) /\ IsFiniteSet(P) /\ P \in SUBSET R  BY SlotsAssumption, FS_Subset
<1>2. \A r \in R : f[r] \in Nat  BY SizesAssumption DEF Shares
<1>3. CASE P = {}  BY <1>3, TotalOfNone
<1>4. CASE P # {}
  <2> HIDE DEF P
  <2>1. PICK r \in P : P \ {r} \subseteq prompt[r].earlier
    BY <1>1, <1>4, LastIs, PartOfOrder
  <2> DEFINE before == R \cap prompt[r].earlier
             upto == before \cup {r}
  <2>2. r \in R /\ f[r] > 0  BY <1>1, <2>1 DEF P
  <2>3. r \notin before /\ upto \in SUBSET R /\ before \in SUBSET R /\ P \in SUBSET upto
    BY <1>1, <2>1, <2>2 DEF InOrder
  <2>4. f[r] <= Minus(budget, Total(f, before))  BY <2>2 DEF Shares
  <2> HIDE DEF before
  <2>5. Total(f, upto) = f[r] + Total(f, upto \ {r}) /\ upto \ {r} = before
        /\ Total(f, before) \in Nat
    BY <1>1, <1>2, <2>3, TotalAdds
  <2>6. f[r] + Total(f, before) <= budget  BY <1>2, <2>2, <2>4, <2>5 DEF Minus
  <2> HIDE DEF upto
  <2>7. Total(f, P) <= Total(f, upto)  BY <1>1, <1>2, <2>3, TotalGrows
  <2>8. Total(f, P) \in Nat /\ Total(f, upto) \in Nat /\ f[r] \in Nat
    BY <1>1, <1>2, <2>2, <2>3, TotalAdds
  <2>9. Total(f, upto) = f[r] + Total(f, before)  BY <2>5
  <2>10. Total(f, P) <= budget  BY <2>6, <2>7, <2>8, <2>9
  <2> QED  BY <2>10 DEF P
<1> QED  BY <1>3, <1>4

(* Some of the first prompt is read.                                       *)
LEMMA FirstIsRead ==
  ASSUME Typed, NEW R \in SUBSET Requests, InOrder(R), R # {},
         NEW budget \in Nat \ {0}, NEW f \in Shares(R, budget),
         \A r \in R : prompt[r].cursor < prompt[r].n
  PROVE  First(R) \in R /\ f[First(R)] > 0
<1> DEFINE r == First(R)
<1>1. IsFiniteSet(R)  BY SlotsAssumption, FS_Subset
<1>2. r \in R /\ prompt[r].earlier \cap R = {}  BY <1>1, FirstIs DEF IsFirst
<1> HIDE DEF r
<1>3. Left(r) \in Nat /\ Left(r) > 0
  <2>1. prompt[r] \in Prompts  BY <1>2 DEF Typed, TypeOK
  <2> QED  BY <1>2, <2>1 DEF Left, Prompts
<1>4. Total(f, R \cap prompt[r].earlier) = 0
  <2>1. R \cap prompt[r].earlier = {}  BY <1>2
  <2> QED  BY <2>1, TotalOfNone
<1>5. Minus(budget, 0) = budget  BY DEF Minus
<1>6. IF KeepStates THEN budget > 0 => f[r] > 0 ELSE f[r] \in {Left(r), budget}
  BY <1>2, <1>4, <1>5 DEF Shares
<1>7. f[r] > 0  BY <1>3, <1>6
<1> QED  BY <1>2, <1>7 DEF r

(* What is being read, and what the loop knows of it: a prompt that waits  *)
(* has tokens left, and each knows of those being read that came before.   *)
Reading == prefilling \cup parts

WaitOK == \A r \in prefilling : prompt[r].cursor < prompt[r].n

OrderOK ==
  IF Chunked
    THEN /\ pc # "first"
         /\ InOrder(Reading)
         /\ \A r \in Reading : prompt[r].earlier \subseteq Reading
    ELSE prefilling = {} /\ (parts # {} => pc = "first")

(* What a step does to the prompts being read: some are read no more, or   *)
(* one comes after all the others.                                         *)
FewerRead ==
  \E S : /\ Reading' = Reading \ S
         /\ \A r \in Reading' : prompt'[r].earlier = prompt[r].earlier \ S

OneMoreRead ==
  \E x : /\ x \notin Reading /\ Reading' = Reading \cup {x}
         /\ prompt'[x].earlier = Reading
         /\ \A r \in Reading : prompt'[r].earlier = prompt[r].earlier

LEMMA OrderStays ==
  ASSUME InOrder(Reading), \A r \in Reading : prompt[r].earlier \subseteq Reading,
         FewerRead \/ OneMoreRead
  PROVE  InOrder(Reading)' /\ \A r \in Reading' : prompt'[r].earlier \subseteq Reading'
<1>1. CASE FewerRead
  <2>1. PICK S : /\ Reading' = Reading \ S
                 /\ \A r \in Reading' : prompt'[r].earlier = prompt[r].earlier \ S
    BY <1>1 DEF FewerRead
  <2>2. \A r \in Reading' : prompt'[r].earlier \subseteq Reading'  BY <2>1
  <2>3. InOrder(Reading)'  BY <2>1 DEF InOrder
  <2> QED  BY <2>2, <2>3
<1>2. CASE OneMoreRead
  <2>1. PICK x : /\ x \notin Reading /\ Reading' = Reading \cup {x}
                 /\ prompt'[x].earlier = Reading
                 /\ \A r \in Reading : prompt'[r].earlier = prompt[r].earlier
    BY <1>2 DEF OneMoreRead
  <2>2. \A r \in Reading' : r \in Reading \/ r = x  BY <2>1
  <2>3. \A r \in Reading' : prompt'[r].earlier \subseteq Reading'  BY <2>1, <2>2
  <2>4. \A r \in Reading' : r \notin prompt'[r].earlier  BY <2>1, <2>2 DEF InOrder
  <2>5. \A q, r \in Reading' : q # r => q \in prompt'[r].earlier \/ r \in prompt'[q].earlier
    BY <2>1, <2>2 DEF InOrder
  <2>6. ASSUME NEW q \in Reading', NEW r \in Reading', q \in prompt'[r].earlier
        PROVE  r \notin prompt'[q].earlier
               /\ prompt'[q].earlier \cap Reading' \subseteq prompt'[r].earlier
    <3>1. CASE r = x
      <4>1. q \in Reading /\ prompt'[q].earlier = prompt[q].earlier
        BY <2>1, <2>6, <3>1
      <4> QED  BY <2>1, <3>1, <4>1
    <3>2. CASE r # x
      <4>1. r \in Reading /\ prompt'[r].earlier = prompt[r].earlier  BY <2>1, <2>2, <3>2
      <4>2. q \in Reading /\ prompt'[q].earlier = prompt[q].earlier  BY <2>1, <2>6, <4>1
      <4>3. prompt[q].earlier \subseteq Reading  BY <4>2
      <4> QED  BY <2>6, <4>1, <4>2, <4>3 DEF InOrder
    <3> QED  BY <3>1, <3>2
  <2>7. InOrder(Reading)'  BY <2>4, <2>5, <2>6 DEF InOrder
  <2> QED  BY <2>3, <2>7
<1> QED  BY <1>1, <1>2

(* What a decode step does to the prompts that are read on.                *)
LEMMA StepKeeps ==
  ASSUME Typed, PoolOK, Step
  PROVE  /\ Reading' = Reading \ Gone
         /\ prefilling' \subseteq prefilling
         /\ prefilling = {} => parts' = {}
         /\ \A r \in Reading' : /\ prompt'[r].earlier = prompt[r].earlier \ Gone
                                /\ prompt'[r].n = prompt[r].n
                                /\ prompt'[r].cursor = prompt[r].cursor
<1> DEFINE whole  == prefilling \ Apart(prefilling)
           oldest == IF whole = {} THEN 0 ELSE Left(First(whole))
           budget == PromptBudget(Cardinality(active), oldest)
           left   == Forget(Gone, prompt)
<1>1. prompt \in [Requests -> Prompts] /\ parts = {} /\ prefilling \subseteq Requests
  BY DEF Typed, TypeOK, PoolOK, Step
<1>2. \A r \in Requests \ Gone :
        /\ left[r] \in Prompts
        /\ left[r].earlier = prompt[r].earlier \ Gone
        /\ left[r].n = prompt[r].n
        /\ left[r].cursor = prompt[r].cursor
  BY <1>1, ForgetKeeps
<1>3. Reading = prefilling  BY <1>1 DEF Reading
<1> HIDE DEF left, budget
<1>4. ASSUME NEW f \in Shares(whole \ Gone, budget), Decoded(f)
      PROVE  /\ Reading' = Reading \ Gone
             /\ prefilling' \subseteq prefilling
             /\ prefilling = {} => parts' = {}
             /\ \A r \in Requests \ Gone :
                  prompt'[r] = left[r] \/ \E t : prompt'[r] = [left[r] EXCEPT !.to = t]
  <2> DEFINE read == {r \in DOMAIN f : f[r] > 0}
  <2>1. /\ parts' = read /\ prefilling' = (prefilling \ Gone) \ read
        /\ prompt' = [r \in Requests |-> IF r \in read
             THEN [left[r] EXCEPT !.to = left[r].cursor + f[r]] ELSE left[r]]
    BY <1>4 DEF Decoded, left
  <2>2. read \subseteq prefilling \ Gone  BY DEF Shares
  <2> HIDE DEF read
  <2>3. Reading' = Reading \ Gone  BY <1>3, <2>1, <2>2 DEF Reading
  <2> QED  BY <2>1, <2>2, <2>3
<1>5. ASSUME NEW f \in Shares(whole \ Gone, budget), SetApart(f), parts' = parts
      PROVE  /\ Reading' = Reading \ Gone
             /\ prefilling' \subseteq prefilling
             /\ prefilling = {} => parts' = {}
             /\ \A r \in Requests \ Gone :
                  prompt'[r] = left[r] \/ prompt'[r] = [left[r] EXCEPT !.apart = TRUE]
  <2> DEFINE read == {r \in DOMAIN f : f[r] > 0}
  <2>1. prompt' = [r \in Requests |-> IF r \in read THEN [left[r] EXCEPT !.apart = TRUE]
                                                    ELSE left[r]]
        /\ prefilling' = prefilling \ Gone
    BY <1>5 DEF SetApart, left
  <2> HIDE DEF read
  <2>2. Reading' = Reading \ Gone  BY <1>1, <1>3, <1>5, <2>1 DEF Reading
  <2> QED  BY <1>1, <1>5, <2>1, <2>2
<1>6. PICK f \in Shares(whole \ Gone, budget) :
        Decoded(f) \/ (SetApart(f) /\ parts' = parts)
  BY Zenon DEF Step, budget
<1>7. /\ Reading' = Reading \ Gone /\ prefilling' \subseteq prefilling
      /\ prefilling = {} => parts' = {}
  BY <1>4, <1>5, <1>6
<1>8. ASSUME NEW r \in Reading'
      PROVE  /\ prompt'[r].earlier = prompt[r].earlier \ Gone
             /\ prompt'[r].n = prompt[r].n
             /\ prompt'[r].cursor = prompt[r].cursor
  <2>1. r \in Requests \ Gone  BY <1>1, <1>3, <1>7
  <2>2. \/ prompt'[r] = left[r]
        \/ \E t : prompt'[r] = [left[r] EXCEPT !.to = t]
        \/ prompt'[r] = [left[r] EXCEPT !.apart = TRUE]
    BY <1>4, <1>5, <1>6, <2>1
  <2>3. left[r] \in Prompts  BY <1>2, <2>1
  <2>4. /\ prompt'[r].earlier = left[r].earlier /\ prompt'[r].n = left[r].n
        /\ prompt'[r].cursor = left[r].cursor
    BY <2>2, <2>3 DEF Prompts
  <2> QED  BY <1>2, <2>1, <2>4
<1> QED  BY <1>7, <1>8

LEMMA StepOrder == Typed /\ PoolOK /\ QueueOK /\ OrderOK /\ [Next]_vars => OrderOK'
<1> SUFFICES ASSUME Typed, PoolOK, QueueOK, OrderOK, [Next]_vars PROVE OrderOK'  OBVIOUS
<1> USE DEF sharedVars, poolVars, seqVars
<1>1. ASSUME Chunked, pc' # "first", FewerRead \/ OneMoreRead PROVE OrderOK'
  BY <1>1, OrderStays DEF OrderOK
<1>2. ASSUME Chunked, pc' # "first", UNCHANGED <<prefilling, parts, prompt>> PROVE OrderOK'
  BY <1>2 DEF OrderOK, Reading, InOrder
<1>3. ASSUME ~Chunked, prefilling' = {}, parts' # {} => pc' = "first" PROVE OrderOK'
  BY <1>3 DEF OrderOK
<1>4. prompt \in [Requests -> Prompts] /\ prefilling \subseteq Requests /\ parts \subseteq Requests
  BY DEF Typed, TypeOK
<1>5. Chunked => pc # "first" /\ InOrder(Reading)
                 /\ \A r \in Reading : prompt[r].earlier \subseteq Reading
  BY DEF OrderOK
<1>6. ~Chunked => prefilling = {} /\ (parts # {} => pc = "first")  BY DEF OrderOK
<1>7. CASE UNCHANGED vars  BY <1>2, <1>3, <1>5, <1>6, <1>7 DEF vars
<1>8. CASE Handlers
  <2>1. UNCHANGED <<prefilling, parts, prompt>> /\ pc' \in {pc, "top"}
        /\ (pc = "first" => pc' = pc)
    BY <1>8 DEF Handlers, Submit, Notify, Receive, Leave, RequestShutdown, DropHandles
  <2> QED  BY <1>2, <1>3, <1>5, <1>6, <2>1
<1>9. CASE Top \/ DropReceiver \/ RefuseHead \/ AdmitNone \/ Sleep \/ WaitTimeout
  <2>1. UNCHANGED <<prefilling, parts, prompt>> /\ pc # "first" /\ pc' # "first"
    BY <1>9 DEF Top, DropReceiver, RefuseHead, AdmitNone, Sleep, WaitTimeout
  <2> QED  BY <1>2, <1>3, <1>6, <2>1
<1>10. CASE Drain \/ Disconnected
  <2>1. /\ prompt' = prompt /\ parts' = parts /\ pc # "first" /\ pc' # "first"
        /\ prefilling' = prefilling \/ prefilling' = {}
    BY <1>10 DEF Drain, Disconnected
  <2>2. parts = {}  BY <1>10 DEF Drain, Disconnected, PoolOK
  <2>3. CASE prefilling' = prefilling  BY <1>2, <1>3, <1>6, <2>1, <2>3
  <2>4. CASE prefilling' = {}
    <3>1. Reading' = Reading \ Reading  BY <2>1, <2>2, <2>4 DEF Reading
    <3>2. FewerRead
      <4>1. \A r \in Reading' : prompt'[r].earlier = prompt[r].earlier \ Reading  BY <3>1
      <4> QED  BY <3>1, <4>1, Zenon DEF FewerRead
    <3> QED  BY <1>1, <1>3, <2>1, <2>2, <2>4, <3>2
  <2> QED  BY <2>1, <2>3, <2>4
<1>11. CASE AdmitHead
  <2>1. parts = {} /\ pc # "first"  BY <1>11 DEF AdmitHead, PoolOK
  <2>2. CASE \A s \in Slots : idle_slots[s] = 0
    <3>1. UNCHANGED <<prefilling, parts, prompt>> /\ pc' # "first"
      BY <1>11, <2>2 DEF AdmitHead
    <3> QED  BY <1>2, <1>3, <1>6, <2>1, <3>1
  <2>3. CASE ~(\A s \in Slots : idle_slots[s] = 0)
    <3> DEFINE h == Head(req_rx)
    <3>1. PICK s \in Slots, n \in 1..MaxPrompt, fell_back \in BOOLEAN :
            \E reuse \in 0..(n - 1) : Admit(h, s, n, reuse, fell_back)
      BY <1>11, <2>3, Zenon DEF AdmitHead
    <3>2. PICK reuse \in 0..(n - 1) : Admit(h, s, n, reuse, fell_back)  BY <3>1
    <3>3. h \notin InSlot /\ h \in Requests
      BY <1>11, TakenFromQueue DEF AdmitHead, QueueOK, Accepted
    <3> HIDE DEF h
    <3>4. CASE Chunked
      <4> DEFINE p == [n |-> n, cursor |-> reuse, to |-> 0, apart |-> FALSE,
                       may_fall_back |-> reuse > 0 /\ ~fell_back, earlier |-> prefilling]
      <4>1. prompt' = [prompt EXCEPT ![h] = p] /\ prefilling' = prefilling \cup {h}
            /\ pc' = pc /\ parts' = parts
        BY <3>2, <3>4 DEF Admit
      <4>2. p.earlier = prefilling  OBVIOUS
      <4> HIDE DEF p
      <4>3. h \notin Reading /\ Reading' = Reading \cup {h} /\ Reading = prefilling
        BY <2>1, <3>3, <4>1 DEF Reading, InSlot
      <4>4. prompt'[h].earlier = Reading  BY <1>4, <3>3, <4>1, <4>2, <4>3
      <4>5. \A r \in Reading : prompt'[r].earlier = prompt[r].earlier
        BY <1>4, <4>1, <4>3
      <4>6. OneMoreRead  BY <4>3, <4>4, <4>5 DEF OneMoreRead
      <4> QED  BY <1>1, <2>1, <3>4, <4>1, <4>6
    <3>5. CASE ~Chunked
      <4>1. pc' = "first" /\ prefilling' = prefilling  BY <3>2, <3>5 DEF Admit
      <4> QED  BY <1>3, <1>6, <3>5, <4>1
    <3> QED  BY <3>4, <3>5
  <2> QED  BY <2>2, <2>3
<1>12. CASE Step
  <2>1. pc # "first" /\ pc' # "first"
    BY <1>12, StagePools DEF Step, Decoded, Stage
  <2>2. FewerRead  BY <1>12, StepKeeps, Zenon DEF FewerRead
  <2>3. prefilling = {} => prefilling' = {} /\ parts' = {}  BY <1>12, StepKeeps
  <2> QED  BY <1>1, <1>3, <1>6, <2>1, <2>2, <2>3
<1>13. ASSUME NEW q \in Requests, Sample(q) PROVE OrderOK'
  <2>1. UNCHANGED <<prefilling, parts, prompt>> /\ pc = "sample" /\ pc' # "first"
    BY <1>13 DEF Sample, Stage
  <2> QED  BY <1>2, <1>3, <1>6, <2>1
<1>14. ASSUME NEW q \in Requests, BeginWhole(q) PROVE OrderOK'
  <2>1. pc = "first" /\ prefilling' = prefilling /\ parts' = {}  BY <1>14 DEF BeginWhole
  <2> QED  BY <1>3, <1>5, <1>6, <2>1
<1>15. ASSUME NEW q \in Requests, FinishPart(q) PROVE OrderOK'
  <2>1. /\ pc = "parts" /\ q \in parts /\ parts' = parts \ {q}
        /\ pc' = Stage({}, parts', Apart(prefilling))
    BY <1>15 DEF FinishPart
  <2>2. Chunked /\ pc' # "first"  BY <1>6, <2>1 DEF Stage
  <2>3. CASE prompt' = [prompt EXCEPT ![q].cursor = prompt[q].to, ![q].to = 0]
             /\ prefilling' = prefilling \cup {q}
    <3>1. Reading' = Reading \ {}  BY <2>1, <2>3 DEF Reading
    <3>2. \A r \in Requests : prompt'[r].earlier = prompt[r].earlier
      BY <1>4, <2>3 DEF Prompts
    <3>3. \A r \in Reading' : prompt'[r].earlier = prompt[r].earlier \ {}
      BY <1>4, <3>1, <3>2 DEF Reading
    <3>4. FewerRead  BY <3>1, <3>3, Zenon DEF FewerRead
    <3> QED  BY <1>1, <2>2, <3>4
  <2>4. CASE prompt' = Forget({q}, prompt) /\ prefilling' = prefilling
    <3>1. Reading' = Reading \ {q}  BY <2>1, <2>4 DEF Reading, PoolOK
    <3>2. \A r \in Reading' : prompt'[r].earlier = prompt[r].earlier \ {q}
      BY <1>4, <2>4, <3>1, ForgetKeeps DEF Reading
    <3>3. FewerRead  BY <3>1, <3>2, Zenon DEF FewerRead
    <3> QED  BY <1>1, <2>2, <3>3
  <2> QED  BY <1>15, <2>3, <2>4 DEF FinishPart
<1>16. CASE ReadApart
  <2>1. PICK q \in Requests :
          /\ q \in prefilling /\ parts' = parts /\ pc = "apart" /\ pc' = "top"
          /\ \/ StopReading(q)
             \/ prefilling' = prefilling /\ (ReadOn(q) \/ FallBack(q))
    BY <1>16 DEF ReadApart, IsFirst, Apart
  <2>2. Chunked /\ parts = {}  BY <1>6, <2>1 DEF PoolOK
  <2>3. CASE StopReading(q)
    <3>1. Reading' = Reading \ {q}  BY <2>1, <2>2, <2>3 DEF Reading, StopReading
    <3>2. \A r \in Reading' : prompt'[r].earlier = prompt[r].earlier \ {q}
      BY <1>4, <2>3, <3>1, ForgetKeeps DEF Reading, StopReading
    <3>3. FewerRead  BY <3>1, <3>2, Zenon DEF FewerRead
    <3> QED  BY <1>1, <2>1, <2>2, <3>3
  <2>4. CASE prefilling' = prefilling /\ (ReadOn(q) \/ FallBack(q))
    <3>1. Reading' = Reading \ {}  BY <2>1, <2>4 DEF Reading
    <3>2. \/ \E e : prompt' = [prompt EXCEPT ![q].cursor = e]
          \/ \E e : prompt' = [prompt EXCEPT ![q].cursor = e, ![q].may_fall_back = FALSE]
      BY <2>4, Zenon DEF ReadOn, FallBack
    <3>3. \A r \in Requests : prompt'[r].earlier = prompt[r].earlier
      <4>1. \A r \in Requests : r # q => prompt'[r] = prompt[r]  BY <1>4, <3>2
      <4>2. \/ \E e : prompt'[q] = [prompt[q] EXCEPT !.cursor = e]
            \/ \E e : prompt'[q] = [prompt[q] EXCEPT !.cursor = e, !.may_fall_back = FALSE]
        BY <1>4, <3>2
      <4>3. prompt[q] \in Prompts  BY <1>4
      <4>4. prompt'[q].earlier = prompt[q].earlier  BY <4>2, <4>3 DEF Prompts
      <4> QED  BY <4>1, <4>4
    <3>4. \A r \in Reading' : prompt'[r].earlier = prompt[r].earlier \ {}
      BY <1>4, <3>1, <3>3 DEF Reading
    <3>5. FewerRead  BY <3>1, <3>4, Zenon DEF FewerRead
    <3> QED  BY <1>1, <2>1, <2>2, <3>5
  <2> QED  BY <2>1, <2>3, <2>4
<1> QED
  BY <1>7, <1>8, <1>9, <1>10, <1>11, <1>12, <1>13, <1>14, <1>15, <1>16, Zenon DEF Next, Thread

LEMMA StepWait == Typed /\ PoolOK /\ QueueOK /\ WaitOK /\ [Next]_vars => WaitOK'
<1> SUFFICES ASSUME Typed, PoolOK, QueueOK, WaitOK, [Next]_vars,
                    NEW r \in prefilling'
             PROVE  prompt'[r].cursor < prompt'[r].n
  BY DEF WaitOK
<1> USE DEF sharedVars, poolVars, seqVars
<1>1. prompt \in [Requests -> Prompts] /\ prefilling \subseteq Requests /\ parts \subseteq Requests
  BY DEF Typed, TypeOK
<1>2. ASSUME r \in prefilling, prompt'[r] = prompt[r] PROVE prompt'[r].cursor < prompt'[r].n
  BY <1>2 DEF WaitOK
<1>3. CASE UNCHANGED vars  BY <1>2, <1>3 DEF vars
<1>4. CASE Handlers
  BY <1>2, <1>4 DEF Handlers, Submit, Notify, Receive, Leave, RequestShutdown, DropHandles
<1>5. CASE Top \/ Drain \/ DropReceiver \/ RefuseHead \/ AdmitNone \/ Disconnected
           \/ Sleep \/ WaitTimeout
  BY <1>2, <1>5 DEF Top, Drain, DropReceiver, RefuseHead, AdmitNone, Disconnected, Sleep,
                    WaitTimeout
<1>6. CASE AdmitHead
  <2>1. CASE \A s \in Slots : idle_slots[s] = 0  BY <1>2, <1>6, <2>1 DEF AdmitHead
  <2>2. CASE ~(\A s \in Slots : idle_slots[s] = 0)
    <3> DEFINE h == Head(req_rx)
    <3>1. PICK s \in Slots, n \in 1..MaxPrompt, fell_back \in BOOLEAN :
            \E reuse \in 0..(n - 1) : Admit(h, s, n, reuse, fell_back)
      BY <1>6, <2>2, Zenon DEF AdmitHead
    <3>2. PICK reuse \in 0..(n - 1) : Admit(h, s, n, reuse, fell_back)  BY <3>1
    <3>3. h \notin InSlot /\ h \in Requests
      BY <1>6, TakenFromQueue DEF AdmitHead, QueueOK, Accepted
    <3> HIDE DEF h
    <3>4. CASE Chunked
      <4> DEFINE p == [n |-> n, cursor |-> reuse, to |-> 0, apart |-> FALSE,
                       may_fall_back |-> reuse > 0 /\ ~fell_back, earlier |-> prefilling]
      <4>1. prompt' = [prompt EXCEPT ![h] = p] /\ prefilling' = prefilling \cup {h}
        BY <3>2, <3>4 DEF Admit
      <4>2. p.cursor = reuse /\ p.n = n  OBVIOUS
      <4> HIDE DEF p
      <4>3. reuse < n  BY SizesAssumption
      <4>4. CASE r = h
        <5>1. prompt'[r] = p  BY <1>1, <3>3, <4>1, <4>4
        <5> QED  BY <4>2, <4>3, <5>1
      <4>5. CASE r # h
        <5>1. r \in prefilling /\ prompt'[r] = prompt[r]  BY <1>1, <4>1, <4>5
        <5> QED  BY <1>2, <5>1
      <4> QED  BY <4>4, <4>5
    <3>5. CASE ~Chunked
      <4>1. prefilling' = prefilling /\ prompt' = prompt  BY <3>2, <3>5 DEF Admit
      <4> QED  BY <1>2, <4>1
    <3> QED  BY <3>4, <3>5
  <2> QED  BY <2>1, <2>2
<1>7. CASE Step
  <2>1. r \in prefilling /\ r \in Reading'  BY <1>7, StepKeeps DEF Reading
  <2>2. prompt'[r].n = prompt[r].n /\ prompt'[r].cursor = prompt[r].cursor
    BY <1>7, <2>1, StepKeeps
  <2> QED  BY <2>1, <2>2 DEF WaitOK
<1>8. ASSUME NEW q \in Requests, Sample(q) \/ BeginWhole(q)
      PROVE  prompt'[r].cursor < prompt'[r].n
  BY <1>2, <1>8 DEF Sample, BeginWhole
<1>9. ASSUME NEW q \in Requests, FinishPart(q)
      PROVE  prompt'[r].cursor < prompt'[r].n
  <2>1. q \in parts /\ q \notin prefilling  BY <1>9 DEF FinishPart, PoolOK
  <2>2. CASE /\ prompt[q].to < prompt[q].n /\ prefilling' = prefilling \cup {q}
             /\ prompt' = [prompt EXCEPT ![q].cursor = prompt[q].to, ![q].to = 0]
    <3>1. CASE r = q
      <4>1. prompt'[r].cursor = prompt[q].to /\ prompt'[r].n = prompt[q].n
        BY <1>1, <2>2, <3>1 DEF Prompts
      <4> QED  BY <2>2, <4>1
    <3>2. CASE r # q
      <4>1. r \in prefilling /\ prompt'[r] = prompt[r]  BY <1>1, <2>2, <3>2
      <4> QED  BY <1>2, <4>1
    <3> QED  BY <3>1, <3>2
  <2>3. CASE prompt' = Forget({q}, prompt) /\ prefilling' = prefilling
    <3>1. r \in Requests /\ r \in prefilling /\ r \notin {q}  BY <1>1, <2>1, <2>3
    <3>2. prompt'[r].n = prompt[r].n /\ prompt'[r].cursor = prompt[r].cursor
      BY <1>1, <2>3, <3>1, ForgetKeeps
    <3> QED  BY <3>1, <3>2 DEF WaitOK
  <2> QED  BY <1>9, <2>2, <2>3 DEF FinishPart
<1>10. CASE ReadApart
  <2>1. PICK q \in Requests :
          /\ q \in prefilling
          /\ \/ StopReading(q)
             \/ prefilling' = prefilling /\ (ReadOn(q) \/ FallBack(q))
    BY <1>10 DEF ReadApart, IsFirst, Apart
  <2>2. CASE StopReading(q)
    <3>1. r \in Requests /\ r \in prefilling /\ r \notin {q}  BY <1>1, <2>2 DEF StopReading
    <3>2. prompt'[r].n = prompt[r].n /\ prompt'[r].cursor = prompt[r].cursor
      BY <1>1, <2>2, <3>1, ForgetKeeps DEF StopReading
    <3> QED  BY <3>1, <3>2 DEF WaitOK
  <2>3. CASE prefilling' = prefilling /\ (ReadOn(q) \/ FallBack(q))
    <3>1. PICK e : /\ e < prompt[q].n
                   /\ \/ prompt' = [prompt EXCEPT ![q].cursor = e]
                      \/ prompt' = [prompt EXCEPT ![q].cursor = e, ![q].may_fall_back = FALSE]
      <4>1. CASE ReadOn(q)  BY <4>1, Zenon DEF ReadOn
      <4>2. CASE FallBack(q)
        <5>1. PICK e \in 0..(prompt[q].n - 1) :
                prompt' = [prompt EXCEPT ![q].cursor = e, ![q].may_fall_back = FALSE]
          BY <4>2 DEF FallBack
        <5>2. prompt[q].n \in Nat  BY <1>1 DEF Prompts
        <5>3. e < prompt[q].n  BY <5>2
        <5> QED  BY <5>1, <5>3
      <4> QED  BY <2>3, <4>1, <4>2
    <3>2. CASE r = q
      <4>1. prompt'[r].cursor = e /\ prompt'[r].n = prompt[q].n
        BY <1>1, <3>1, <3>2 DEF Prompts
      <4> QED  BY <3>1, <4>1
    <3>3. CASE r # q
      <4>1. r \in prefilling /\ prompt'[r] = prompt[r]  BY <1>1, <2>3, <3>1, <3>3
      <4> QED  BY <1>2, <4>1
    <3> QED  BY <3>2, <3>3
  <2> QED  BY <2>1, <2>2, <2>3
<1> QED
  BY <1>3, <1>4, <1>5, <1>6, <1>7, <1>8, <1>9, <1>10, Zenon DEF Next, Thread

LEMMA WaitingInvariant == Spec => [](PoolsInv /\ OrderOK /\ WaitOK)
<1>1. Init => PoolsInv /\ OrderOK /\ WaitOK
  BY InitPools DEF Init, OrderOK, WaitOK, Reading, InOrder
<1>2. PoolsInv /\ OrderOK /\ WaitOK /\ [Next]_vars => PoolsInv' /\ OrderOK' /\ WaitOK'
  BY StepPoolsInv, StepOrder, StepWait DEF PoolsInv
<1>3. QED BY <1>1, <1>2, PTL DEF Spec

(* Before a step, who has a slot is answering or waiting to be read, and   *)
(* there are no more of them than slots.                                   *)
LEMMA RoomToRead ==
  ASSUME PoolsInv, pc = "step", Cardinality(Slots) <= NBatch
  PROVE  /\ Cardinality(active) \in Nat /\ Cardinality(active) <= NBatch
         /\ prefilling # {} => Cardinality(active) < NBatch
<1>1. /\ SlotsOK /\ parts = {} /\ active \cap prefilling = {}
      /\ active \subseteq Requests /\ prefilling \subseteq Requests
  BY DEF PoolsInv, LoopSlotsOK, PoolOK, Typed, TypeOK
<1>2. InSlot = active \cup prefilling  BY <1>1 DEF InSlot
<1>3. IsFiniteSet(active) /\ IsFiniteSet(prefilling) /\ IsFiniteSet(InSlot)
  BY <1>1, <1>2, SlotsAssumption, FS_Subset, FS_Union
<1>4. /\ Cardinality(active) \in Nat /\ Cardinality(prefilling) \in Nat
      /\ Cardinality(InSlot) \in Nat /\ Cardinality(Slots) \in Nat
  BY <1>3, SlotsAssumption, FS_CardinalityType
<1>5. Cardinality(InSlot) = Cardinality(active) + Cardinality(prefilling)
  <2>1. Cardinality(InSlot)
          = Cardinality(active) + Cardinality(prefilling) - Cardinality(active \cap prefilling)
    BY <1>2, <1>3, FS_Union
  <2>2. Cardinality(active \cap prefilling) = 0  BY <1>1, FS_EmptySet
  <2> QED  BY <1>4, <2>1, <2>2
<1>6. Cardinality(InSlot) <= Cardinality(Slots)
  <2> DEFINE f == [r \in InSlot |-> seq_id[r]]
  <2>1. f \in Injection(InSlot, Slots)  BY <1>1 DEF SlotsOK, Injection, IsInjective
  <2> HIDE DEF f
  <2> QED  BY <2>1, SlotsAssumption, FS_Injection
<1>7. prefilling # {} => Cardinality(prefilling) # 0  BY <1>3, FS_EmptySet
<1> QED  BY <1>4, <1>5, <1>6, <1>7, SizesAssumption

(* What a decode step makes of its shares: it reads them, or else sets     *)
(* some prompt apart or fails the answers.                                 *)
Whole == prefilling \ Apart(prefilling)

StepBudget == PromptBudget(Cardinality(active), IF Whole = {} THEN 0 ELSE Left(First(Whole)))

LEMMA StepShares ==
  ASSUME Typed, PoolOK, Step
  PROVE  \E f \in Shares(Whole \ Gone, StepBudget) :
           \/ /\ parts' = {r \in Whole \ Gone : f[r] > 0}
              /\ \A r \in parts' : prompt'[r].to = prompt[r].cursor + f[r]
           \/ /\ parts' = {}
              /\ active' = active => \E r \in Whole \ Gone : prompt'[r].apart
<1> DEFINE left == Forget(Gone, prompt)
<1>1. prompt \in [Requests -> Prompts] /\ parts = {} /\ prefilling \subseteq Requests
  BY DEF Typed, TypeOK, PoolOK, Step
<1>2. \A r \in Requests \ Gone : left[r] \in Prompts /\ left[r].cursor = prompt[r].cursor
  BY <1>1, ForgetKeeps
<1>3. Whole \ Gone \subseteq Requests \ Gone  BY <1>1 DEF Whole
<1> HIDE DEF left
<1>4. PICK f \in Shares(Whole \ Gone, StepBudget) :
        \/ Decoded(f)
        \/ /\ \E r \in DOMAIN f : f[r] > 0
           /\ SetApart(f) /\ parts' = parts
        \/ active # {} /\ FailAnswers /\ parts' = parts
  BY Zenon DEF Step, StepBudget, Whole
<1>5. DOMAIN f = Whole \ Gone  BY DEF Shares
<1>6. CASE Decoded(f)
  <2>1. parts' = {r \in Whole \ Gone : f[r] > 0}  BY <1>5, <1>6 DEF Decoded
  <2>2. ASSUME NEW r \in parts' PROVE prompt'[r].to = prompt[r].cursor + f[r]
    <3>1. r \in Requests \ Gone /\ f[r] > 0 /\ r \in DOMAIN f  BY <1>3, <1>5, <2>1
    <3>2. prompt'[r] = [left[r] EXCEPT !.to = left[r].cursor + f[r]]
      BY <1>6, <3>1 DEF Decoded, left
    <3>3. left[r] \in Prompts /\ left[r].cursor = prompt[r].cursor  BY <1>2, <3>1
    <3> QED  BY <3>2, <3>3 DEF Prompts
  <2> QED  BY <2>1, <2>2
<1>7. CASE (\E r \in DOMAIN f : f[r] > 0) /\ SetApart(f) /\ parts' = parts
  <2>1. PICK r \in DOMAIN f : f[r] > 0  BY <1>7
  <2>2. r \in Requests \ Gone /\ r \in Whole \ Gone  BY <1>3, <1>5, <2>1
  <2>3. prompt'[r] = [left[r] EXCEPT !.apart = TRUE]
    BY <1>7, <2>1, <2>2 DEF SetApart, left
  <2>4. left[r] \in Prompts  BY <1>2, <2>2
  <2>5. prompt'[r].apart  BY <2>3, <2>4 DEF Prompts
  <2> QED  BY <1>1, <1>7, <2>2, <2>5
<1>8. CASE active # {} /\ FailAnswers /\ parts' = parts
  <2>1. active' # active  BY <1>8 DEF FailAnswers
  <2> QED  BY <1>1, <1>8, <2>1
<1> QED  BY <1>4, <1>6, <1>7, <1>8

(* What is to be shared, when a prompt waits.                              *)
LEMMA BudgetIs ==
  ASSUME PoolsInv, OrderOK, WaitOK, pc = "step", Cardinality(Slots) <= NBatch,
         prefilling # {}
  PROVE  /\ StepBudget \in 1..(NBatch - Cardinality(active))
         /\ active # {} => StepBudget <= NUBatch
         /\ InOrder(prefilling)
<1>1. Typed /\ parts = {} /\ prefilling \subseteq Requests /\ active \subseteq Requests
  BY DEF PoolsInv, PoolOK, Typed, TypeOK
<1>2. InOrder(prefilling)  BY <1>1 DEF OrderOK, Reading
<1> DEFINE oldest == IF Whole = {} THEN 0 ELSE Left(First(Whole))
<1>3. oldest \in Nat
  <2>1. CASE Whole = {}  BY <2>1
  <2>2. CASE Whole # {}
    <3>1. Whole \subseteq prefilling /\ Whole \in SUBSET Requests  BY <1>1 DEF Whole
    <3>2. IsFiniteSet(Whole) /\ InOrder(Whole)
      BY <1>2, <3>1, SlotsAssumption, FS_Subset, PartOfOrder
    <3>3. First(Whole) \in Whole  BY <2>2, <3>2, FirstIs DEF IsFirst
    <3> DEFINE r == First(Whole)
    <3>4. prompt[r] \in Prompts /\ r \in prefilling  BY <1>1, <3>1, <3>3 DEF Typed, TypeOK
    <3> HIDE DEF r
    <3>5. Left(r) \in Nat
      <4>1. prompt[r].n \in Nat /\ prompt[r].cursor \in Nat /\ prompt[r].cursor < prompt[r].n
        BY <3>4 DEF Prompts, WaitOK
      <4> QED  BY <4>1 DEF Left
    <3> QED  BY <2>2, <3>5 DEF r
  <2> QED  BY <2>1, <2>2
<1>4. Cardinality(active) \in Nat /\ Cardinality(active) < NBatch  BY RoomToRead
<1>5. active # {} => Cardinality(active) > 0
  <2>1. IsFiniteSet(active)  BY <1>1, SlotsAssumption, FS_Subset
  <2>2. active # {} => Cardinality(active) # 0  BY <2>1, FS_EmptySet
  <2> QED  BY <1>4, <2>2
<1> HIDE DEF oldest
<1>6. /\ PromptBudget(Cardinality(active), oldest) \in 1..(NBatch - Cardinality(active))
      /\ Cardinality(active) > 0 => PromptBudget(Cardinality(active), oldest) <= NUBatch
  BY <1>3, <1>4, PromptBudgetFits
<1> QED  BY <1>2, <1>5, <1>6 DEF StepBudget, oldest

LEMMA StepReadsWithin ==
  ASSUME PoolsInv, OrderOK, WaitOK, Step, Cardinality(Slots) <= NBatch,
         NEW part, part = [r \in parts' |-> prompt'[r].to - prompt[r].cursor]
  PROVE  /\ Cardinality(active) + Total(part, parts') <= NBatch
         /\ active # {} => Total(part, parts') <= NUBatch
<1>1. Typed /\ PoolOK /\ pc = "step" /\ prefilling \subseteq Requests
  BY DEF PoolsInv, Typed, TypeOK, Step
<1>2. Cardinality(active) \in Nat /\ Cardinality(active) <= NBatch  BY <1>1, RoomToRead
<1>3. CASE parts' = {}
  <2>1. Total(part, parts') = 0  BY <1>3, TotalOfNone
  <2> QED  BY <1>2, <2>1, SizesAssumption
<1>4. CASE parts' # {}
  <2>1. PICK f \in Shares(Whole \ Gone, StepBudget) :
          /\ parts' = {r \in Whole \ Gone : f[r] > 0}
          /\ \A r \in parts' : prompt'[r].to = prompt[r].cursor + f[r]
    BY <1>1, <1>4, StepShares
  <2> DEFINE R == Whole \ Gone
  <2>2. R \in SUBSET Requests /\ R \subseteq prefilling /\ prefilling # {}
        /\ parts' \in SUBSET R
    BY <1>1, <1>4, <2>1 DEF Whole
  <2>3. /\ StepBudget \in 1..(NBatch - Cardinality(active))
        /\ active # {} => StepBudget <= NUBatch
        /\ InOrder(prefilling)
    BY <1>1, <2>2, BudgetIs
  <2>4. InOrder(R)  BY <2>2, <2>3, PartOfOrder
  <2>5. StepBudget \in Nat  BY <2>3
  <2>6. IsFiniteSet(parts') /\ IsFiniteSet(R)  BY <2>2, SlotsAssumption, FS_Subset
  <2>7. \A r \in R : f[r] \in Nat  BY <2>1, SizesAssumption DEF Shares
  <2> HIDE DEF R
  <2>8. Total(f, parts') <= StepBudget
    <3>1. f \in Shares(R, StepBudget) /\ parts' = {r \in R : f[r] > 0}  BY <2>1 DEF R
    <3> QED  BY <1>1, <2>2, <2>4, <2>5, <3>1, SharesFit
  <2>9. \A r \in parts' : f[r] = part[r]
    <3> TAKE r \in parts'
    <3>1. prompt[r] \in Prompts  BY <1>1, <2>2 DEF Typed, TypeOK
    <3>2. prompt[r].cursor \in Nat /\ f[r] \in Nat  BY <2>2, <2>7, <3>1 DEF Prompts
    <3>3. prompt'[r].to = prompt[r].cursor + f[r]  BY <2>1
    <3> QED  BY <3>2, <3>3
  <2>10. Total(part, parts') = Total(f, parts')  BY <2>6, <2>9, TotalSame
  <2>11. Total(f, parts') \in Nat  BY <2>2, <2>6, <2>7, TotalAdds
  <2> QED  BY <1>2, <2>3, <2>8, <2>10, <2>11, SizesAssumption
<1> QED  BY <1>3, <1>4

(* prompt_budget keeps a step within what one decode call takes            *)
(* (scheduler.rs l.2950), and beside an answer within a micro-batch of     *)
(* prompt, when there are no more slots than tokens in a batch.            *)
THEOREM StepsFit ==
  ASSUME Cardinality(Slots) <= NBatch
  PROVE  Spec => StepFits
<1> DEFINE Fit ==
      pc = "step" =>
        LET part == [r \in parts' |-> prompt'[r].to - prompt[r].cursor]
            read == Total(part, parts')
        IN  /\ Cardinality(active) + read <= NBatch
            /\ active # {} => read <= NUBatch
<1>1. PoolsInv /\ OrderOK /\ WaitOK /\ [Next]_vars => Fit
  <2> SUFFICES ASSUME PoolsInv, OrderOK, WaitOK, [Next]_vars, pc = "step" PROVE Fit
    OBVIOUS
  <2>1. Step \/ parts' = parts
    BY DEF Next, Thread, Handlers, vars, poolVars, Top, Drain, DropReceiver, RefuseHead,
           AdmitHead, AdmitNone, Disconnected, Sleep, WaitTimeout, ReadApart, Sample,
           FinishPart, BeginWhole, Submit, Notify, Receive, Leave, RequestShutdown, DropHandles
  <2>2. CASE Step  BY <2>2, StepReadsWithin
  <2>3. CASE parts' = parts
    <3>1. parts' = {}  BY <2>3 DEF PoolsInv, PoolOK
    <3>2. \A f : Total(f, parts') = 0  BY <3>1, TotalOfNone
    <3>3. Cardinality(active) \in Nat /\ Cardinality(active) <= NBatch  BY RoomToRead
    <3> QED  BY <3>2, <3>3, SizesAssumption
  <2> QED  BY <2>1, <2>2, <2>3
<1>2. PoolsInv /\ OrderOK /\ WaitOK /\ [Next]_vars =>
        [pc = "step" =>
           LET part == [r \in parts' |-> prompt'[r].to - prompt[r].cursor]
               read == Total(part, parts')
           IN  /\ Cardinality(active) + read <= NBatch
               /\ active # {} => read <= NUBatch]_vars
  BY <1>1
<1>3. QED BY <1>2, WaitingInvariant, PTL DEF Spec, StepFits

(* A decode step that goes through reads some of the prompt that waits     *)
(* longest, when there are no more slots than tokens in a batch: neither   *)
(* the answers nor a younger prompt take its place (the sorts of           *)
(* scheduler.rs by `start`, and prompt_budget's share beside answers).     *)
THEOREM OldestIsServed ==
  ASSUME Cardinality(Slots) <= NBatch
  PROVE  Spec => StepServesOldest
<1>1. ASSUME PoolsInv, OrderOK, WaitOK, [Next]_vars,
             pc = "step", pc' # "step", Readable # {}, active' = active,
             \A r \in Readable : ~prompt'[r].apart
      PROVE  First(Readable) \in parts'
  <2>1. Typed /\ PoolOK /\ prefilling \subseteq Requests
    BY <1>1 DEF PoolsInv, Typed, TypeOK
  <2>2. Step
    BY <1>1 DEF Next, Thread, Handlers, vars, Top, Drain, DropReceiver, RefuseHead,
           AdmitHead, AdmitNone, Disconnected, Sleep, WaitTimeout, ReadApart, Sample,
           FinishPart, BeginWhole, Submit, Notify, Receive, Leave, RequestShutdown, DropHandles
  <2>3. Whole \ Gone = Readable  BY DEF Whole, Gone, Readable
  <2> DEFINE R == Readable
  <2>4. R \in SUBSET Requests /\ R \subseteq prefilling /\ prefilling # {} /\ R # {}
    BY <1>1, <2>1 DEF Readable
  <2>5. StepBudget \in Nat \ {0} /\ InOrder(prefilling)
    <3>1. Cardinality(active) \in Nat  BY <1>1, RoomToRead
    <3>2. StepBudget \in 1..(NBatch - Cardinality(active)) /\ InOrder(prefilling)
      BY <1>1, <2>4, BudgetIs
    <3> QED  BY <3>1, <3>2, SizesAssumption
  <2>6. InOrder(R)  BY <2>4, <2>5, PartOfOrder
  <2>7. \A r \in R : prompt[r].cursor < prompt[r].n  BY <1>1, <2>4 DEF WaitOK
  <2>8. \A r \in Whole \ Gone : ~prompt'[r].apart  BY <1>1, <2>3
  <2>9. PICK f \in Shares(Whole \ Gone, StepBudget) :
          \/ parts' = {r \in Whole \ Gone : f[r] > 0}
          \/ active' = active => \E r \in Whole \ Gone : prompt'[r].apart
    BY <2>1, <2>2, StepShares
  <2>10. f \in Shares(R, StepBudget) /\ parts' = {r \in R : f[r] > 0}
    BY <1>1, <2>3, <2>8, <2>9
  <2> HIDE DEF R
  <2>11. First(R) \in R /\ f[First(R)] > 0
    BY <2>1, <2>4, <2>5, <2>6, <2>7, <2>10, FirstIsRead
  <2> QED  BY <2>10, <2>11 DEF R
<1>2. PoolsInv /\ OrderOK /\ WaitOK /\ [Next]_vars =>
        [pc = "step" /\ pc' # "step" /\ Readable # {}
           /\ active' = active /\ (\A r \in Readable : ~prompt'[r].apart)
         => First(Readable) \in parts']_vars
  BY <1>1
<1>3. QED BY <1>2, WaitingInvariant, PTL DEF Spec, StepServesOldest
-----------------------------------------------------------------------------
(* The scheduler implements Service. *)

LEMMA StepServes ==
  ASSUME Typed, PoolOK, QueueOK, Move
  PROVE  [Promise!Next]_(Promise!vars)
<1> USE DEF Promise!Next, Promise!vars
<1>1. CASE Add
  <2>1. PICK r \in Requests : Promise!Accept(r)
    BY <1>1, Zenon DEF Add, Stay, Keep, Promise!Accept
  <2>2. QED BY <2>1
<1>2. CASE Drop /\ Accepted' = Accepted
  <2>1. Promise!TakeHead  BY <1>2 DEF Drop, Keep, Promise!TakeHead
  <2>2. QED BY <2>1
<1>3. CASE Take /\ Accepted' = Accepted
  <2>1. Cardinality(InSlot) < Cardinality(Slots)  BY <1>3, RoomCounts DEF Take
  <2>2. /\ req_rx # <<>> /\ req_rx' = Tail(req_rx) /\ Accepted' = Accepted
        /\ InSlot' = InSlot \cup {Head(req_rx)}
    BY <1>3 DEF Take
  <2>3. Promise!Cardinality(InSlot) = Cardinality(InSlot)
    BY DEF Promise!Cardinality, Cardinality
  <2>4. Promise!TakeHead  BY <2>1, <2>2, <2>3 DEF Promise!TakeHead
  <2>5. QED BY <2>4
<1>4. ASSUME req_rx' = req_rx, Accepted' = Accepted, Stay \/ Warn
      PROVE  UNCHANGED Promise!vars
  BY <1>4 DEF Stay, Warn, Keep
<1>5. ASSUME req_rx' = req_rx, Accepted' = Accepted, Free \/ Stop
      PROVE  [Promise!Next]_(Promise!vars)
  <2>1. PICK S \in SUBSET InSlot : InSlot' = InSlot \ S
    <3>1. CASE Free  BY <3>1 DEF Free
    <3>2. CASE Stop
      <4>1. InSlot' = InSlot \ InSlot  BY <3>2 DEF Stop
      <4>2. QED BY <4>1
    <3>3. QED BY <1>5, <3>1, <3>2
  <2>2. S \in SUBSET Requests  BY <2>1 DEF InSlot, Typed, TypeOK
  <2>3. CASE S = {}  BY <1>5, <2>1, <2>3
  <2>4. CASE S # {}
    <3>1. Promise!End(S)  BY <1>5, <2>1, <2>4 DEF Promise!End
    <3>2. QED BY <2>2, <3>1
  <2>5. QED BY <2>3, <2>4
<1>6. QED BY <1>1, <1>2, <1>3, <1>4, <1>5 DEF Move

(* The queue is served in the order of its arrivals, by no more than       *)
(* max_batch_size slots, and nobody is taken or let go of twice.           *)
THEOREM ImplementsService == Spec => ServesInOrder
<1>1. Init => Promise!Init
  BY DEF Init, Promise!Init, Accepted, InSlot
<1>2. PoolsInv /\ [Next]_vars => [Promise!Next]_(Promise!vars)
  BY Moves, StepServes DEF PoolsInv
<1>3. QED BY <1>1, <1>2, PoolsInvariant, PTL DEF Spec, ServesInOrder, Promise!Spec
=============================================================================
