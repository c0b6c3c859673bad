--------------------------- MODULE DecisionsProofs ---------------------------
(***************************************************************************)
(* Proofs about Decisions, for every set of requests, workload and bound:  *)
(* no message is lost or repeated, what is put back keeps its place, and   *)
(* llama.cpp's sequences hold what the worker takes them to hold.          *)
(*                                                                         *)
(* The queue.  That each awaited message is in one place is not inductive: *)
(* a gathered group could take twice what waits twice.  The invariant says *)
(* that what waits and the group are, without repetition and with nothing  *)
(* in common, exactly the messages somebody still waits for (InOnePlace),  *)
(* and that a reply is there only for the job its request is at.  Gather   *)
(* is a fold; what it makes of the first n messages (Gathered) is carried  *)
(* from each to the next by taking the least n at which it would not hold. *)
(* The same lemmas say that the messages left are in their old order       *)
(* (Follows), which is all that KeepsOrder needs.                          *)
(*                                                                         *)
(* The sequences.  What is on them between jobs depends on what the stages *)
(* before left there: a state half read holds its first calls (StagesOK),  *)
(* several states are one to a sequence with the ones after them empty,    *)
(* and a kept state is alone until a question fails half-way (KeptOK).     *)
(* Questions are put on numbered sequences, and there are enough of them   *)
(* (NextAsksAre, Numbered): a round takes no more than Round.              *)
(***************************************************************************)
EXTENDS Decisions, FiniteSetTheorems, FunctionTheorems, SequenceTheorems, TLAPS

-----------------------------------------------------------------------------
(* The inductive invariant. *)

Outcomes == {"ok", "failed", "cancelled"}
Stages   == {"evaluate", "alone", "read", "ask", "together", "rounds"}
Single   == {"evaluate", "alone", "read", "ask"}

Waiting == later \o chan

(* What waits for the worker: a message sent and not answered.             *)
Current(m) ==
  IF m \in Releasers THEN pc[m] = "main"
  ELSE m \in Jobs /\ pc[m[1]] = m[2] /\ reply[m] = "none"

Distinct(s) == \A i, j \in 1..Len(s) : s[i] = s[j] => i = j

(* Every message waits or is evaluated, and is there once.                 *)
QueueTyped ==
  /\ asked \in Workloads
  /\ pc \in [Requests \cup Releasers -> {"new", "prior", "main", "ended"}]
  /\ cancel \subseteq Requests
  /\ eval_lock \in Requests \cup {NoOne}
  /\ prior_cache \subseteq Modes \X Questions
  /\ missing \in [Requests -> SUBSET Questions]
  /\ chan \in Seq(Messages) /\ later \in Seq(Messages) /\ group \in Seq(Jobs)
  /\ Len(group) <= MaxTogether
  /\ reply \in [Jobs -> Outcomes \cup {"none"}]
  /\ stage \in Stages \cup {"idle"}
  /\ left \subseteq Jobs \X Questions
  /\ dropped \subseteq Jobs

Pending == {m \in Messages : Current(m)}

Placed(waiting, jobs, pending) ==
  /\ Distinct(waiting) /\ Distinct(jobs)
  /\ ToSet(waiting) \cap ToSet(jobs) = {}
  /\ ToSet(waiting) \cup ToSet(jobs) = pending

InOnePlace ==
  /\ Placed(Waiting, group, Pending)
  /\ \A j \in Jobs : reply[j] # "none" => pc[j[1]] = j[2]

(* The stage goes with the group, and the questions left are its jobs'.    *)
StageOK ==
  /\ stage = "idle" <=> group = <<>>
  /\ stage \in Single => Len(group) = 1
  /\ \A a \in left : a[1] \in ToSet(group)

QueueInv == QueueTyped /\ InOnePlace /\ StageOK

-----------------------------------------------------------------------------
(* What is asked. *)

LEMMA MessagesAre ==
  /\ \A m \in Jobs : m \notin Releasers /\ m[1] \in Requests /\ m[2] \in {"prior", "main"}
                     /\ m = <<m[1], m[2]>>
  /\ \A r \in Requests : r \notin Releasers
  BY DecisionsAssumption DEF Jobs

LEMMA AskedIs ==
  ASSUME asked \in Workloads
  PROVE  /\ \A r \in Requests : /\ asked[r] \in Asking /\ asked[r].cells \in Nat
                                /\ asked[r].mode \in Modes /\ asked[r].asks \subseteq Questions
                                /\ asked[r].state \in States /\ Missing(r) \subseteq Questions
         /\ \A j \in Jobs : /\ StateOf(j) \in Shared /\ StateOf(j) # NoState
                            /\ asked[j[1]].asks \subseteq Questions /\ Mode(j) \in Modes
<1>1. asked \in [Requests -> Asking]  BY DecisionsAssumption
<1>2. \A r \in Requests :
        /\ asked[r] \in Asking /\ asked[r].cells \in Nat
        /\ asked[r].mode \in Modes /\ asked[r].asks \subseteq Questions
        /\ asked[r].state \in States /\ Missing(r) \subseteq Questions
  BY <1>1 DEF Asking, Missing
<1>3. \A j \in Jobs : StateOf(j) \in Shared /\ StateOf(j) # NoState
  BY <1>2, MessagesAre, DecisionsAssumption DEF StateOf, Shared
<1>4. \A j \in Jobs : asked[j[1]].asks \subseteq Questions /\ Mode(j) \in Modes
  BY <1>2, MessagesAre DEF Mode
<1> QED  BY <1>2, <1>3, <1>4

LEMMA ToSetIs ==
  ASSUME NEW S, NEW s \in Seq(S)
  PROVE  /\ ToSet(s) = {s[i] : i \in 1..Len(s)} /\ ToSet(s) \subseteq S
         /\ Len(s) \in Nat /\ IsFiniteSet(ToSet(s))
<1>1. DOMAIN s = 1..Len(s) /\ Len(s) \in Nat /\ \A i \in 1..Len(s) : s[i] \in S
  BY LenProperties, ElementOfSeq
<1>2. ToSet(s) = {s[i] : i \in 1..Len(s)} /\ ToSet(s) \subseteq S  BY <1>1 DEF ToSet
<1>3. IsFiniteSet(ToSet(s))
  <2> DEFINE f == [i \in 1..Len(s) |-> s[i]]
  <2>1. f \in Surjection(1..Len(s), ToSet(s))  BY <1>2 DEF Surjection
  <2>2. IsFiniteSet(1..Len(s))  BY <1>1, FS_Interval
  <2> HIDE DEF f
  <2> QED  BY <2>1, <2>2, FS_Surjection
<1> QED  BY <1>1, <1>2, <1>3

LEMMA Distinctly ==
  ASSUME NEW S, NEW s \in Seq(S), NEW m, m \notin ToSet(s), Distinct(s)
  PROVE  /\ Distinct(Append(s, m)) /\ ToSet(Append(s, m)) = ToSet(s) \cup {m}
         /\ Append(s, m) \in Seq(S \cup {m}) /\ Len(Append(s, m)) = Len(s) + 1
         /\ \A i \in 1..Len(s) : Append(s, m)[i] = s[i]
         /\ Append(s, m)[Len(s) + 1] = m
<1> DEFINE T == S \cup {m}  r == Append(s, m)
<1>1. s \in Seq(T) /\ Len(s) \in Nat /\ m \in T  BY SeqMonotonic, LenProperties
<1>2. /\ r \in Seq(T) /\ Len(r) = Len(s) + 1
      /\ \A i \in 1..Len(s) : r[i] = s[i]
      /\ r[Len(s) + 1] = m
  BY <1>1, AppendProperties
<1> HIDE DEF r, T
<1>3. ToSet(r) = {r[i] : i \in 1..Len(r)} /\ ToSet(s) = {s[i] : i \in 1..Len(s)}
  BY <1>1, <1>2, ToSetIs
<1>4. 1..Len(r) = 1..Len(s) \cup {Len(s) + 1}  BY <1>1, <1>2
<1>5. ToSet(r) = ToSet(s) \cup {m}  BY <1>2, <1>3, <1>4
<1>6. \A i \in 1..Len(s) : r[i] # m  BY <1>2, <1>3
<1>7. \A i, j \in 1..Len(r) : r[i] = r[j] => i = j
  BY <1>2, <1>4, <1>6 DEF Distinct
<1>8. Distinct(r)  BY <1>7 DEF Distinct
<1> QED  BY <1>2, <1>5, <1>8 DEF r, T

-----------------------------------------------------------------------------
(* Gathering a group. *)

LEMMA LeastNumber ==
  ASSUME NEW T, T \subseteq Nat, T # {}
  PROVE  \E t \in T : \A u \in T : ~(u < t)
<1>1. \E t \in T : \A u \in T : ~(<<u, t>> \in OpToRel(<, Nat))
  BY NatLessThanWellFounded, WFMin, Zenon
<1>2. \A t \in T, u \in T : u < t => <<u, t>> \in OpToRel(<, Nat)
  BY Zenon DEF OpToRel
<1> QED  BY <1>1, <1>2, Zenon

Alone(first) == [group |-> <<first>>, cells |-> asked[first[1]].cells, rest |-> <<>>]

(* Gather's function is there, and goes from one message to the next.      *)
LEMMA GatheredIs ==
  ASSUME NEW first, NEW waiting, Len(waiting) \in Nat
  PROVE  \E f : /\ f[0] = Alone(first)
                /\ \A n \in 1..Len(waiting) : f[n] = Join(f[n - 1], waiting[n])
                /\ Gather(first, waiting) = f[Len(waiting)]
<1> DEFINE N == Len(waiting)
           P(k, f) == f = [n \in 0..k |-> IF n = 0 THEN Alone(first)
                                          ELSE Join(f[n - 1], waiting[n])]
           Bad == {k \in 0..N : ~ \E f : P(k, f)}
<1>1. N \in Nat  OBVIOUS
<1> HIDE DEF N
<1>2. Bad = {}
  <2> SUFFICES ASSUME Bad # {} PROVE FALSE  OBVIOUS
  <2>1. Bad \subseteq Nat  BY <1>1
  <2>2. PICK k \in Bad : \A u \in Bad : ~(u < k)
    <3> HIDE DEF Bad
    <3> QED  BY <2>1, LeastNumber
  <2>3. CASE k = 0
    <3> DEFINE f == [n \in 0..0 |-> Alone(first)]
    <3>1. P(0, f)  OBVIOUS
    <3> QED  BY <2>3, <3>1
  <2>4. CASE k # 0
    <3>1. k \in 1..N /\ k - 1 \in 0..N /\ k - 1 < k  BY <1>1, <2>4
    <3>2. k - 1 \notin Bad  BY <2>2, <3>1
    <3>3. PICK h : P(k - 1, h)  BY <3>1, <3>2
    <3> DEFINE f == [n \in 0..k |-> IF n = k THEN Join(h[k - 1], waiting[k]) ELSE h[n]]
    <3>4. \A n \in 0..(k - 1) : h[n] = IF n = 0 THEN Alone(first) ELSE Join(h[n - 1], waiting[n])
      BY <3>3
    <3>5. \A n \in 0..k : f[n] = IF n = 0 THEN Alone(first) ELSE Join(f[n - 1], waiting[n])
      <4> SUFFICES ASSUME NEW n \in 0..k
                   PROVE  f[n] = IF n = 0 THEN Alone(first) ELSE Join(f[n - 1], waiting[n])
        OBVIOUS
      <4>1. CASE n = k
        <5>1. f[n] = Join(h[k - 1], waiting[k]) /\ f[k - 1] = h[k - 1] /\ n # 0
          BY <3>1, <4>1
        <5> QED  BY <4>1, <5>1
      <4>2. CASE n # k /\ n = 0
        <5>1. n \in 0..(k - 1) /\ f[n] = h[n]  BY <3>1, <4>2
        <5> QED  BY <3>4, <4>2, <5>1
      <4>3. CASE n # k /\ n # 0
        <5>1. n \in 0..(k - 1) /\ f[n] = h[n] /\ n - 1 \in 0..k /\ n - 1 # k
          BY <3>1, <4>3
        <5>2. f[n - 1] = h[n - 1]  BY <5>1
        <5> QED  BY <3>4, <4>3, <5>1, <5>2
      <4> QED  BY <4>1, <4>2, <4>3
    <3>6. P(k, f)
      <4>1. f = [n \in 0..k |-> f[n]]  OBVIOUS
      <4> HIDE DEF f
      <4> QED  BY <3>5, <4>1
    <3> QED  BY <3>6
  <2> QED  BY <2>3, <2>4
<1>3. \E f : P(N, f)  BY <1>1, <1>2
<1> DEFINE g == CHOOSE f : P(N, f)
<1>4. P(N, g)
  <2> HIDE DEF P
  <2> QED  BY <1>3
<1>5. Gather(first, waiting) = g[N]  BY DEF Gather, Alone, N
<1> HIDE DEF g
<1>6. /\ g[0] = Alone(first)
      /\ \A n \in 1..N : g[n] = Join(g[n - 1], waiting[n])
  BY <1>1, <1>4
<1> QED  BY <1>5, <1>6 DEF N

(* What Gather has made of the first n waiting messages.                   *)
Gathered(acc, first, waiting, n) ==
  /\ acc \in [group : Seq(Jobs), cells : Nat, rest : Seq(Messages)]
  /\ Len(acc.group) \in 1..MaxTogether
  /\ Distinct(acc.group) /\ Distinct(acc.rest)
  /\ ToSet(acc.group) \cap ToSet(acc.rest) = {}
  /\ ToSet(acc.group) \cup ToSet(acc.rest) = {first} \cup {waiting[i] : i \in 1..n}
  /\ \A a \in 1..Len(acc.rest) : \E x \in 1..n : acc.rest[a] = waiting[x]
  /\ \A a, b \in 1..Len(acc.rest) : a < b =>
       \E x, y \in 1..n : x < y /\ acc.rest[a] = waiting[x] /\ acc.rest[b] = waiting[y]

LEMMA AloneIsGathered ==
  ASSUME asked \in Workloads, NEW first \in Jobs, NEW waiting
  PROVE  Gathered(Alone(first), first, waiting, 0)
<1>1. asked[first[1]].cells \in Nat  BY AskedIs, MessagesAre
<1> DEFINE g == <<first>>
<1>2. g \in Seq(Jobs) /\ Len(g) = 1 /\ g[1] = first  OBVIOUS
<1>3. ToSet(g) = {first}
  <2>1. ToSet(g) = {g[i] : i \in 1..Len(g)}  BY <1>2, ToSetIs
  <2> HIDE DEF g
  <2> QED  BY <1>2, <2>1
<1>4. Distinct(g)  BY <1>2 DEF Distinct
<1>5. /\ <<>> \in Seq(Messages) /\ Len(<<>>) = 0
      /\ ToSet(<<>>) = {} /\ Distinct(<<>>)
  BY EmptySeq DEF Distinct, ToSet
<1>6. Len(g) \in 1..MaxTogether  BY <1>2, DecisionsAssumption
<1>7. Alone(first) = [group |-> g, cells |-> asked[first[1]].cells, rest |-> <<>>]
  BY DEF Alone
<1> HIDE DEF g
<1>8. /\ Alone(first) \in [group : Seq(Jobs), cells : Nat, rest : Seq(Messages)]
      /\ Alone(first).group = g /\ Alone(first).rest = <<>>
  BY <1>1, <1>2, <1>5, <1>7
<1> QED  BY <1>3, <1>4, <1>5, <1>6, <1>8 DEF Gathered

LEMMA JoinKeeps ==
  ASSUME asked \in Workloads, NEW first, NEW waiting \in Seq(Messages), Distinct(waiting),
         first \notin ToSet(waiting), NEW n \in 1..Len(waiting), NEW acc,
         Gathered(acc, first, waiting, n - 1)
  PROVE  Gathered(Join(acc, waiting[n]), first, waiting, n)
<1> DEFINE m == waiting[n]  g == acc.group  r == acc.rest
           was == {first} \cup {waiting[i] : i \in 1..(n - 1)}
           is == {first} \cup {waiting[i] : i \in 1..n}
<1>1. Len(waiting) \in Nat /\ m \in Messages  BY LenProperties, ElementOfSeq
<1>2. is = was \cup {m}
  <2>1. 1..n = 1..(n - 1) \cup {n}  BY <1>1
  <2> QED  BY <2>1
<1>3. m \notin was
  <2>1. m # first  BY <1>1, ToSetIs
  <2>2. \A i \in 1..(n - 1) : waiting[i] # m  BY <1>1 DEF Distinct
  <2> QED  BY <2>1, <2>2
<1>4. /\ acc \in [group : Seq(Jobs), cells : Nat, rest : Seq(Messages)]
      /\ Len(g) \in 1..MaxTogether /\ Distinct(g) /\ Distinct(r)
      /\ ToSet(g) \cap ToSet(r) = {} /\ ToSet(g) \cup ToSet(r) = was
      /\ \A a \in 1..Len(r) : \E x \in 1..(n - 1) : r[a] = waiting[x]
      /\ \A a, b \in 1..Len(r) : a < b =>
           \E x, y \in 1..(n - 1) : x < y /\ r[a] = waiting[x] /\ r[b] = waiting[y]
  BY DEF Gathered
<1>5. g \in Seq(Jobs) /\ r \in Seq(Messages) /\ acc.cells \in Nat /\ Len(g) \in Nat
      /\ Len(r) \in Nat /\ MaxTogether \in Nat
  BY <1>4, LenProperties, DecisionsAssumption
<1>6. m \notin ToSet(g) /\ m \notin ToSet(r)  BY <1>3, <1>4
<1>7. \A x \in 1..(n - 1) : x \in 1..n /\ x < n  BY <1>1
<1>8. CASE Groupable(m) /\ Len(g) < MaxTogether /\ acc.cells + asked[m[1]].cells <= MaxCells
  <2> DEFINE c == acc.cells + asked[m[1]].cells  h == Append(g, m)
  <2>1. m \in Jobs  BY <1>8 DEF Groupable
  <2>2. Join(acc, m) = [group |-> h, cells |-> c, rest |-> r]  BY <1>8 DEF Join
  <2>3. c \in Nat  BY <1>5, <2>1, AskedIs, MessagesAre
  <2>4. /\ h \in Seq(Jobs) /\ Len(h) = Len(g) + 1 /\ Distinct(h)
        /\ ToSet(h) = ToSet(g) \cup {m}
    <3> HIDE DEF g, r, m
    <3>1. h \in Seq(Jobs)  BY <1>5, <2>1, AppendProperties
    <3>2. g \in Seq(Jobs) /\ Distinct(g) /\ m \notin ToSet(g)  BY <1>4, <1>5, <1>6
    <3> QED  BY <3>1, <3>2, Distinctly
  <2>5. Len(h) \in 1..MaxTogether  BY <1>5, <1>8, <2>4
  <2> HIDE DEF h, c, g, r, was, is, m
  <2>6. /\ Join(acc, m) \in [group : Seq(Jobs), cells : Nat, rest : Seq(Messages)]
        /\ Join(acc, m).group = h /\ Join(acc, m).rest = r
    BY <1>5, <2>2, <2>3, <2>4
  <2>7. ToSet(h) \cap ToSet(r) = {} /\ ToSet(h) \cup ToSet(r) = is
    BY <1>2, <1>4, <1>6, <2>4
  <2>8. /\ \A a \in 1..Len(r) : \E x \in 1..n : r[a] = waiting[x]
        /\ \A a, b \in 1..Len(r) : a < b =>
             \E x, y \in 1..n : x < y /\ r[a] = waiting[x] /\ r[b] = waiting[y]
    BY <1>4, <1>7
  <2> QED  BY <1>4, <2>4, <2>5, <2>6, <2>7, <2>8 DEF Gathered, is, m
<1>9. CASE ~(Groupable(m) /\ Len(g) < MaxTogether /\ acc.cells + asked[m[1]].cells <= MaxCells)
  <2> DEFINE h == Append(r, m)
  <2>1. Join(acc, m) = [acc EXCEPT !.rest = Append(@, m)]  BY <1>9 DEF Join
  <2>2. Join(acc, m) = [group |-> g, cells |-> acc.cells, rest |-> h]  BY <1>4, <2>1
  <2>3. /\ h \in Seq(Messages) /\ Len(h) = Len(r) + 1 /\ Distinct(h)
        /\ ToSet(h) = ToSet(r) \cup {m}
        /\ \A i \in 1..Len(r) : h[i] = r[i]
        /\ h[Len(r) + 1] = m
    <3> HIDE DEF g, r, m
    <3>1. h \in Seq(Messages)  BY <1>1, <1>5, AppendProperties
    <3>2. r \in Seq(Messages) /\ Distinct(r) /\ m \notin ToSet(r)  BY <1>4, <1>5, <1>6
    <3> QED  BY <3>1, <3>2, Distinctly
  <2> HIDE DEF h, g, r, was, is, m
  <2>4. /\ Join(acc, m) \in [group : Seq(Jobs), cells : Nat, rest : Seq(Messages)]
        /\ Join(acc, m).group = g /\ Join(acc, m).rest = h
    BY <1>5, <2>2, <2>3
  <2>5. ToSet(g) \cap ToSet(h) = {} /\ ToSet(g) \cup ToSet(h) = is
    BY <1>2, <1>4, <1>6, <2>3
  <2>6. \A a \in 1..Len(h) : a \in 1..Len(r) \/ a = Len(r) + 1  BY <1>5, <2>3
  <2>7. n \in 1..n /\ waiting[n] = m  BY <1>1 DEF m
  <2>8. \A a \in 1..Len(h) : \E x \in 1..n : h[a] = waiting[x]
    <3> SUFFICES ASSUME NEW a \in 1..Len(h) PROVE \E x \in 1..n : h[a] = waiting[x]
      OBVIOUS
    <3>1. CASE a \in 1..Len(r)
      <4>1. PICK x \in 1..(n - 1) : r[a] = waiting[x]  BY <1>4, <3>1
      <4> QED  BY <1>7, <2>3, <3>1, <4>1
    <3>2. CASE a = Len(r) + 1  BY <2>3, <2>7, <3>2
    <3> QED  BY <2>6, <3>1, <3>2
  <2>9. ASSUME NEW a \in 1..Len(h), NEW b \in 1..Len(h), a < b
        PROVE  \E x, y \in 1..n : x < y /\ h[a] = waiting[x] /\ h[b] = waiting[y]
    <3>1. a \in 1..Len(r)  BY <1>5, <2>3, <2>9
    <3>2. CASE b \in 1..Len(r)
      <4>1. h[a] = r[a] /\ h[b] = r[b]  BY <2>3, <3>1, <3>2
      <4>2. PICK x \in 1..(n - 1), y \in 1..(n - 1) :
              x < y /\ r[a] = waiting[x] /\ r[b] = waiting[y]
        BY <1>4, <2>9, <3>1, <3>2
      <4> QED  BY <1>7, <4>1, <4>2
    <3>3. CASE b = Len(r) + 1
      <4>1. h[a] = r[a] /\ h[b] = waiting[n]  BY <2>3, <2>7, <3>1, <3>3
      <4>2. PICK x \in 1..(n - 1) : r[a] = waiting[x]  BY <1>4, <3>1
      <4> QED  BY <1>7, <2>7, <4>1, <4>2
    <3> QED  BY <2>6, <3>2, <3>3
  <2>10. \A a, b \in 1..Len(h) : a < b =>
           \E x, y \in 1..n : x < y /\ h[a] = waiting[x] /\ h[b] = waiting[y]
    BY <2>9
  <2>11. Distinct(g) /\ Len(g) \in 1..MaxTogether  BY <1>4
  <2> DEFINE J == Join(acc, m)
  <2>12. /\ J \in [group : Seq(Jobs), cells : Nat, rest : Seq(Messages)]
         /\ J.group = g /\ J.rest = h
    BY <2>4
  <2> HIDE DEF J
  <2>13. /\ Len(J.group) \in 1..MaxTogether /\ Distinct(J.group) /\ Distinct(J.rest)
         /\ ToSet(J.group) \cap ToSet(J.rest) = {}
         /\ ToSet(J.group) \cup ToSet(J.rest) = is
    BY <2>3, <2>5, <2>11, <2>12
  <2>14. /\ \A a \in 1..Len(J.rest) : \E x \in 1..n : J.rest[a] = waiting[x]
         /\ \A a, b \in 1..Len(J.rest) : a < b =>
              \E x, y \in 1..n : x < y /\ J.rest[a] = waiting[x] /\ J.rest[b] = waiting[y]
    <3>1. J.rest = h  BY <2>12
    <3>2. /\ \A a \in 1..Len(h) : \E x \in 1..n : h[a] = waiting[x]
          /\ \A a, b \in 1..Len(h) : a < b =>
               \E x, y \in 1..n : x < y /\ h[a] = waiting[x] /\ h[b] = waiting[y]
      BY <2>8, <2>10
    <3> QED  BY <3>1, <3>2
  <2>15. Gathered(J, first, waiting, n)  BY <2>12, <2>13, <2>14 DEF Gathered, is
  <2> QED  BY <2>15 DEF J, m
<1> QED  BY <1>8, <1>9

LEMMA GatherIs ==
  ASSUME asked \in Workloads, NEW first \in Jobs, NEW waiting \in Seq(Messages),
         Distinct(waiting), first \notin ToSet(waiting)
  PROVE  Gathered(Gather(first, waiting), first, waiting, Len(waiting))
<1> DEFINE N == Len(waiting)
<1>1. N \in Nat  BY LenProperties
<1>2. PICK f : /\ f[0] = Alone(first)
               /\ \A n \in 1..N : f[n] = Join(f[n - 1], waiting[n])
               /\ Gather(first, waiting) = f[N]
  BY <1>1, GatheredIs
<1> DEFINE Bad == {n \in 0..N : ~Gathered(f[n], first, waiting, n)}
<1>3. Bad = {}
  <2> SUFFICES ASSUME Bad # {} PROVE FALSE  OBVIOUS
  <2> HIDE DEF N
  <2>1. Bad \subseteq Nat  BY <1>1
  <2>2. PICK k \in Bad : \A u \in Bad : ~(u < k)
    <3> HIDE DEF Bad
    <3> QED  BY <2>1, LeastNumber
  <2>3. k # 0  BY <1>2, AloneIsGathered
  <2>4. k \in 1..N /\ k - 1 \in 0..N /\ k - 1 < k  BY <1>1, <2>3
  <2>5. Gathered(f[k - 1], first, waiting, k - 1)  BY <2>2, <2>4
  <2>6. Gathered(Join(f[k - 1], waiting[k]), first, waiting, k)
    BY <2>4, <2>5, JoinKeeps DEF N
  <2> QED  BY <1>2, <2>4, <2>6
<1> QED  BY <1>1, <1>2, <1>3

-----------------------------------------------------------------------------
(* Rounds of questions. *)

(* A round is as many of the questions left as go into it, at most: the    *)
(* order it takes them in is total, so that each has a rank of its own.    *)
LEMMA NextAsksAre ==
  ASSUME QueueTyped, StageOK, NEW n \in Nat
  PROVE  /\ NextAsks(n) \subseteq left /\ IsFiniteSet(NextAsks(n))
         /\ Cardinality(NextAsks(n)) \in Nat /\ Cardinality(NextAsks(n)) <= n
<1> DEFINE at(j) == CHOOSE x \in 1..Len(group) : group[x] = j
           before(a, b) == a[2] < b[2] \/ (a[2] = b[2] /\ at(a[1]) < at(b[1]))
           under(a) == {b \in left : before(b, a)}
           asks == NextAsks(n)
<1>1. asks = {a \in left : Cardinality(under(a)) < n}  BY DEF NextAsks
<1>2. /\ left \subseteq Jobs \X Questions /\ group \in Seq(Jobs) /\ Len(group) \in Nat
      /\ \A a \in left : a[1] \in ToSet(group)
      /\ Questions \subseteq Nat /\ IsFiniteSet(Questions)
      /\ IsFiniteSet(ToSet(group))
  BY DecisionsAssumption, ToSetIs DEF QueueTyped, StageOK
<1>3. IsFiniteSet(left)
  <2>1. left \in SUBSET (ToSet(group) \X Questions)  BY <1>2
  <2>2. IsFiniteSet(ToSet(group) \X Questions)  BY <1>2, FS_Product
  <2> QED  BY <2>1, <2>2, FS_Subset
<1>4. \A a \in left : at(a[1]) \in 1..Len(group) /\ group[at(a[1])] = a[1]
  <2> SUFFICES ASSUME NEW a \in left
               PROVE  at(a[1]) \in 1..Len(group) /\ group[at(a[1])] = a[1]
    OBVIOUS
  <2>1. \E x \in 1..Len(group) : group[x] = a[1]  BY <1>2, ToSetIs
  <2> QED  BY <2>1
<1> HIDE DEF at
<1>5. \A a \in left : a[2] \in Nat /\ at(a[1]) \in Nat /\ a = <<a[1], a[2]>>
  <2>1. \A a \in Jobs \X Questions : a[2] \in Questions /\ a = <<a[1], a[2]>>  OBVIOUS
  <2>2. \A a \in left : at(a[1]) \in Nat  BY <1>2, <1>4
  <2> QED  BY <1>2, <2>1, <2>2
<1>6. \A a, b \in left : at(a[1]) = at(b[1]) => a[1] = b[1]  BY <1>4
<1>7. \A a, b \in left : a # b => before(a, b) \/ before(b, a)
  <2> SUFFICES ASSUME NEW a \in left, NEW b \in left, a # b, ~before(a, b), ~before(b, a)
               PROVE  FALSE
    OBVIOUS
  <2>1. a[2] = b[2] /\ at(a[1]) = at(b[1])  BY <1>5
  <2> QED  BY <1>5, <1>6, <2>1
<1>8. \A a \in left : ~before(a, a)  BY <1>5
<1>9. \A a, b, c \in left : before(a, b) /\ before(b, c) => before(a, c)  BY <1>5
<1> HIDE DEF before
<1>10. \A a \in left : IsFiniteSet(under(a)) /\ Cardinality(under(a)) \in Nat
  BY <1>3, FS_Subset, FS_CardinalityType
<1>11. ASSUME NEW a \in left, NEW b \in left, before(a, b)
       PROVE  Cardinality(under(a)) # Cardinality(under(b))
  <2>1. under(a) \in SUBSET under(b)  BY <1>9, <1>11
  <2>2. a \in under(b) /\ a \notin under(a)  BY <1>8, <1>11
  <2> HIDE DEF under
  <2> QED  BY <1>10, <2>1, <2>2, FS_Subset
<1> HIDE DEF under, asks
<1>12. asks \subseteq left /\ IsFiniteSet(asks) /\ Cardinality(asks) \in Nat
  BY <1>1, <1>3, FS_Subset, FS_CardinalityType
<1> DEFINE rank == [a \in asks |-> Cardinality(under(a))]
<1>13. rank \in Injection(asks, 0..(n - 1))
  <2>1. \A a \in asks : Cardinality(under(a)) \in 0..(n - 1)  BY <1>1, <1>10, <1>12
  <2>2. \A a, b \in asks : a # b => Cardinality(under(a)) # Cardinality(under(b))
    BY <1>7, <1>11, <1>12
  <2> QED  BY <2>1, <2>2 DEF Injection, IsInjective
<1> HIDE DEF rank
<1>14. IsFiniteSet(0..(n - 1)) /\ Cardinality(0..(n - 1)) = n
  <2>1. 0 \in Int /\ n - 1 \in Int  OBVIOUS
  <2> QED  BY <2>1, FS_Interval
<1>15. Cardinality(asks) <= n  BY <1>13, <1>14, FS_Injection
<1> QED  BY <1>12, <1>15 DEF asks

(* The sequences a round uses: one for each question, from `low` on.       *)
LEMMA Numbered ==
  ASSUME NEW S, IsFiniteSet(S), NEW low \in Nat, NEW high \in Int,
         high = low + Cardinality(S) - 1
  PROVE  \E f \in [S -> low..high] : IsInjective(f)
<1>1. Cardinality(S) \in Nat /\ ExistsBijection(1..Cardinality(S), S)
  BY FS_CardinalityType
<1> DEFINE k == Cardinality(S)
<1> DEFINE T == 1..k
<1>2. PICK g : g \in Bijection(S, T)
  <2>1. ExistsBijection(S, T)  BY <1>1, Fun_ExistsBijSymmetric
  <2> QED  BY <2>1, Fun_ExistsBij
<1> HIDE DEF k, T
<1>8. g \in [S -> T] /\ \A a, b \in S : g[a] = g[b] => a = b
  <2>1. g \in Injection(S, T)  BY <1>2, Fun_BijectionProperties
  <2> QED  BY <2>1, Fun_InjectionProperties
<1>3. g \in [S -> 1..k] /\ \A a, b \in S : g[a] = g[b] => a = b  BY <1>8 DEF T
<1> DEFINE f == [a \in S |-> low + g[a] - 1]
<1>4. k \in Nat /\ high = low + k - 1  BY <1>1 DEF k
<1>5. \A a \in S : g[a] \in 1..k /\ low + g[a] - 1 \in low..high  BY <1>3, <1>4
<1>6. \A a, b \in S : low + g[a] - 1 = low + g[b] - 1 => a = b  BY <1>3, <1>5
<1>7. f \in [S -> low..high] /\ IsInjective(f)  BY <1>5, <1>6 DEF IsInjective
<1> QED  BY <1>7

-----------------------------------------------------------------------------
(* The queue of messages. *)

LEMMA FirstTaken ==
  ASSUME NEW S, NEW s \in Seq(S), s # <<>>, Distinct(s)
  PROVE  /\ Head(s) \in S /\ Tail(s) \in Seq(S) /\ Len(s) \in Nat
         /\ Len(Tail(s)) = Len(s) - 1
         /\ \A i \in 1..Len(Tail(s)) : i + 1 \in 1..Len(s) /\ Tail(s)[i] = s[i + 1]
         /\ Head(s) \notin ToSet(Tail(s)) /\ Distinct(Tail(s))
         /\ ToSet(s) = {Head(s)} \cup ToSet(Tail(s))
<1> DEFINE h == Head(s)  t == Tail(s)
<1>1. Len(s) \in Nat /\ Len(s) # 0  BY EmptySeq
<1>2. /\ h \in S /\ t \in Seq(S) /\ Len(t) = Len(s) - 1
      /\ h = s[1] /\ \A i \in 1..Len(t) : t[i] = s[i + 1]
  BY <1>1, HeadTailProperties
<1> HIDE DEF h, t
<1>3. \A i \in 1..Len(t) : i + 1 \in 1..Len(s) /\ i + 1 # 1  BY <1>1, <1>2
<1>4. ToSet(t) = {t[i] : i \in 1..Len(t)} /\ ToSet(s) = {s[i] : i \in 1..Len(s)}
  BY <1>2, ToSetIs
<1>5. 1 \in 1..Len(s)  BY <1>1
<1>6. h \notin ToSet(t)
  <2>1. \A i \in 1..Len(t) : t[i] # h  BY <1>2, <1>3, <1>5 DEF Distinct
  <2> QED  BY <1>4, <2>1
<1>7. Distinct(t)
  <2>1. ASSUME NEW i \in 1..Len(t), NEW j \in 1..Len(t), t[i] = t[j] PROVE i = j
    <3>1. i + 1 = j + 1  BY <1>2, <1>3, <2>1 DEF Distinct
    <3> QED  BY <3>1
  <2> QED  BY <2>1 DEF Distinct
<1>8. ToSet(s) = {h} \cup ToSet(t)
  <2>1. \A i \in 1..Len(s) : i = 1 \/ (i - 1 \in 1..Len(t) /\ (i - 1) + 1 = i)
    BY <1>1, <1>2
  <2>2. \A i \in 1..Len(s) : s[i] = h \/ \E k \in 1..Len(t) : s[i] = t[k]
    BY <1>2, <2>1
  <2>3. \A k \in 1..Len(t) : t[k] \in ToSet(s)  BY <1>2, <1>3, <1>4
  <2>4. h \in ToSet(s)  BY <1>2, <1>4, <1>5
  <2>5. \A k \in 1..Len(t) : t[k] \in ToSet(t)  BY <1>4
  <2>6. ToSet(s) \subseteq {h} \cup ToSet(t)  BY <1>4, <2>2, <2>5
  <2>7. ToSet(t) \subseteq ToSet(s)  BY <1>4, <2>3
  <2> QED  BY <2>4, <2>6, <2>7
<1> QED  BY <1>1, <1>2, <1>3, <1>6, <1>7, <1>8 DEF h, t

(* The oldest message is the first of those put back.                      *)
LEMMA OldestIs ==
  ASSUME NEW S, NEW a \in Seq(S), NEW b \in Seq(S)
  PROVE  /\ a # <<>> => /\ Head(a \o b) = Head(a) /\ Tail(a \o b) = Tail(a) \o b
                        /\ a \o b # <<>>
         /\ a = <<>> => a \o b = b
         /\ \A m \in S : a \o Append(b, m) = Append(a \o b, m)
         /\ a \o b \in Seq(S)
<1>1. a = <<>> => a \o b = b  BY ConcatEmptySeq
<1>2. a \o b \in Seq(S)  BY ConcatProperties
<1>3. ASSUME NEW m \in S PROVE a \o Append(b, m) = Append(a \o b, m)
  <2>1. <<m>> \in Seq(S)  OBVIOUS
  <2>2. Append(b, m) = b \o <<m>> /\ Append(a \o b, m) = (a \o b) \o <<m>>
    BY <1>2, AppendIsConcat
  <2> DEFINE c == <<m>>
  <2> HIDE DEF c
  <2>3. (a \o b) \o c = a \o (b \o c)  BY <2>1, ConcatAssociative DEF c
  <2> QED  BY <2>2, <2>3 DEF c
<1>4. ASSUME a # <<>>
      PROVE  Head(a \o b) = Head(a) /\ Tail(a \o b) = Tail(a) \o b /\ a \o b # <<>>
  <2> DEFINE c == a \o b  t == Tail(a)  l == Tail(c)  r == t \o b  n == Len(a)  k == Len(b)
  <2>1. n \in Nat /\ n # 0 /\ k \in Nat  BY <1>4, EmptySeq, LenProperties
  <2>2. /\ c \in Seq(S) /\ Len(c) = n + k
        /\ \A i \in 1..(n + k) : c[i] = IF i <= n THEN a[i] ELSE b[i - n]
    BY ConcatProperties
  <2>3. /\ t \in Seq(S) /\ Len(t) = n - 1 /\ Head(a) = a[1]
        /\ \A i \in 1..(n - 1) : t[i] = a[i + 1]
    BY <1>4, HeadTailProperties
  <2> HIDE DEF c, t
  <2>4. /\ r \in Seq(S) /\ Len(r) = (n - 1) + k
        /\ \A i \in 1..((n - 1) + k) : r[i] = IF i <= n - 1 THEN t[i] ELSE b[i - (n - 1)]
    <3>1. /\ r \in Seq(S) /\ Len(r) = Len(t) + k
          /\ \A i \in 1..(Len(t) + k) : r[i] = IF i <= Len(t) THEN t[i] ELSE b[i - Len(t)]
      <4>1. t \in Seq(S)  BY <2>3
      <4> QED  BY <4>1, ConcatProperties
    <3> HIDE DEF r
    <3>2. Len(t) = n - 1  BY <2>3
    <3> QED  BY <3>1, <3>2
  <2> HIDE DEF r, n, k
  <2>5. c # <<>>  BY <2>1, <2>2, EmptySeq
  <2>6. /\ l \in Seq(S) /\ Len(l) = (n + k) - 1 /\ Head(c) = c[1]
        /\ \A i \in 1..((n + k) - 1) : l[i] = c[i + 1]
    BY <2>2, <2>5, HeadTailProperties
  <2> HIDE DEF l
  <2>7. Head(c) = Head(a)  BY <2>1, <2>2, <2>3, <2>6
  <2>8. \A i \in 1..((n + k) - 1) : l[i] = r[i]
    <3> SUFFICES ASSUME NEW i \in 1..((n + k) - 1) PROVE l[i] = r[i]  OBVIOUS
    <3>1. i + 1 \in 1..(n + k) /\ i \in 1..((n - 1) + k)  BY <2>1
    <3>2. CASE i <= n - 1
      <4>1. i \in 1..(n - 1) /\ i + 1 <= n  BY <2>1, <3>2
      <4> QED  BY <2>2, <2>3, <2>4, <2>6, <3>1, <3>2, <4>1
    <3>3. CASE ~(i <= n - 1)
      <4>1. ~(i + 1 <= n) /\ (i + 1) - n = i - (n - 1)  BY <2>1, <3>3
      <4> QED  BY <2>2, <2>4, <2>6, <3>1, <3>3, <4>1
    <3> QED  BY <3>2, <3>3
  <2>9. l = r
    <3>1. Len(l) = Len(r)  BY <2>1, <2>4, <2>6
    <3> QED  BY <2>4, <2>6, <2>8, <3>1, SeqEqual
  <2> QED  BY <2>5, <2>7, <2>9 DEF l, r, c, t
<1> QED  BY <1>1, <1>2, <1>3, <1>4

(* One queue comes from another: what was there keeps its order, and what  *)
(* is new is last.                                                         *)
Follows(new, old) ==
  \A a, b \in 1..Len(new) : a < b =>
    \/ new[b] \notin ToSet(old)
    \/ \E x, y \in 1..Len(old) : x < y /\ new[a] = old[x] /\ new[b] = old[y]

LEMMA NothingThere == <<>> \in Seq(Jobs) /\ ToSet(<<>>) = {} /\ Distinct(<<>>) /\ Len(<<>>) = 0
  BY EmptySeq DEF ToSet, Distinct

LEMMA FollowsItself ==
  ASSUME NEW S, NEW w \in Seq(S) PROVE Follows(w, w)
  BY DEF Follows

(* A message is sent, ...                                                  *)
LEMMA PlacedSent ==
  ASSUME NEW w \in Seq(Messages), NEW g, NEW c, Placed(w, g, c), NEW m \in Messages, m \notin c
  PROVE  Placed(Append(w, m), g, c \cup {m}) /\ Follows(Append(w, m), w)
<1> DEFINE v == Append(w, m)
<1>1. m \notin ToSet(w) /\ m \notin ToSet(g) /\ Distinct(w)  BY DEF Placed
<1>2. /\ Distinct(v) /\ ToSet(v) = ToSet(w) \cup {m} /\ Len(v) = Len(w) + 1
      /\ \A i \in 1..Len(w) : v[i] = w[i]
      /\ v[Len(w) + 1] = m
  BY <1>1, Distinctly
<1> HIDE DEF v
<1>3. Placed(v, g, c \cup {m})  BY <1>1, <1>2 DEF Placed
<1>4. Len(w) \in Nat  BY LenProperties
<1>5. Follows(v, w)
  <2> SUFFICES ASSUME NEW a \in 1..Len(v), NEW b \in 1..Len(v), a < b
               PROVE  \/ v[b] \notin ToSet(w)
                      \/ \E x, y \in 1..Len(w) : x < y /\ v[a] = w[x] /\ v[b] = w[y]
    BY DEF Follows
  <2>1. CASE b = Len(w) + 1  BY <1>1, <1>2, <2>1
  <2>2. CASE b # Len(w) + 1
    <3>1. a \in 1..Len(w) /\ b \in 1..Len(w)  BY <1>2, <1>4, <2>2
    <3> QED  BY <1>2, <3>1
  <2> QED  BY <2>1, <2>2
<1> QED  BY <1>3, <1>5 DEF v

(* ... taken, ...                                                          *)
LEMMA PlacedTaken ==
  ASSUME NEW w \in Seq(Messages), w # <<>>, NEW c, Placed(w, <<>>, c)
  PROVE  /\ Placed(Tail(w), <<Head(w)>>, c)
         /\ Placed(Tail(w), <<>>, c \ {Head(w)}) /\ Head(w) \in c
         /\ Follows(Tail(w), w)
<1> DEFINE t == Tail(w)  h == Head(w)  g == <<h>>
<1>1. Distinct(w) /\ ToSet(w) = c  BY NothingThere DEF Placed
<1>2. /\ h \in Messages /\ t \in Seq(Messages) /\ Len(t) = Len(w) - 1
      /\ \A i \in 1..Len(t) : i + 1 \in 1..Len(w) /\ t[i] = w[i + 1]
      /\ h \notin ToSet(t) /\ Distinct(t) /\ ToSet(w) = {h} \cup ToSet(t)
  BY <1>1, FirstTaken
<1> HIDE DEF t, h
<1>3. g \in Seq(Messages) /\ Len(g) = 1 /\ g[1] = h  BY <1>2
<1>4. ToSet(g) = {h} /\ Distinct(g)
  <2> HIDE DEF g
  <2>1. ToSet(g) = {g[i] : i \in 1..Len(g)}  BY <1>3, ToSetIs
  <2> QED  BY <1>3, <2>1 DEF Distinct
<1> HIDE DEF g
<1>5. Placed(t, g, c)  BY <1>1, <1>2, <1>4 DEF Placed
<1>6. Placed(t, <<>>, c \ {h})  BY <1>1, <1>2, NothingThere DEF Placed
<1>7. Follows(t, w)
  <2> SUFFICES ASSUME NEW a \in 1..Len(t), NEW b \in 1..Len(t), a < b
               PROVE  \E x, y \in 1..Len(w) : x < y /\ t[a] = w[x] /\ t[b] = w[y]
    BY DEF Follows
  <2>1. a + 1 \in 1..Len(w) /\ b + 1 \in 1..Len(w) /\ a + 1 < b + 1  BY <1>2
  <2> QED  BY <1>2, <2>1
<1>8. h \in c  BY <1>1, <1>2
<1> QED  BY <1>5, <1>6, <1>7, <1>8 DEF t, h, g

(* ... taken with others, ...                                              *)
LEMMA PlacedGathered ==
  ASSUME NEW w \in Seq(Messages), w # <<>>, NEW c, Placed(w, <<>>, c), NEW acc,
         Gathered(acc, Head(w), Tail(w), Len(Tail(w)))
  PROVE  Placed(acc.rest, acc.group, c) /\ Follows(acc.rest, w)
<1> DEFINE t == Tail(w)  h == Head(w)  r == acc.rest
<1>1. Distinct(w) /\ ToSet(w) = c  BY NothingThere DEF Placed
<1>2. /\ h \in Messages /\ t \in Seq(Messages) /\ Len(t) = Len(w) - 1 /\ Len(w) \in Nat
      /\ \A i \in 1..Len(t) : i + 1 \in 1..Len(w) /\ t[i] = w[i + 1]
      /\ h \notin ToSet(t) /\ Distinct(t) /\ ToSet(w) = {h} \cup ToSet(t)
  BY <1>1, FirstTaken
<1> HIDE DEF t, h
<1>3. Gathered(acc, h, t, Len(t))  BY DEF t, h
<1>4. ToSet(t) = {t[i] : i \in 1..Len(t)}  BY <1>2, ToSetIs
<1>5. /\ Distinct(acc.group) /\ Distinct(r) /\ ToSet(acc.group) \cap ToSet(r) = {}
      /\ ToSet(acc.group) \cup ToSet(r) = {h} \cup {t[i] : i \in 1..Len(t)}
      /\ \A a, b \in 1..Len(r) : a < b =>
           \E x, y \in 1..Len(t) : x < y /\ r[a] = t[x] /\ r[b] = t[y]
  BY <1>3 DEF Gathered
<1> HIDE DEF r
<1>6. Placed(r, acc.group, c)  BY <1>1, <1>2, <1>4, <1>5 DEF Placed
<1>7. Follows(r, w)
  <2> SUFFICES ASSUME NEW a \in 1..Len(r), NEW b \in 1..Len(r), a < b
               PROVE  \E x, y \in 1..Len(w) : x < y /\ r[a] = w[x] /\ r[b] = w[y]
    BY DEF Follows
  <2>1. PICK x \in 1..Len(t), y \in 1..Len(t) : x < y /\ r[a] = t[x] /\ r[b] = t[y]
    BY <1>5
  <2>2. x + 1 \in 1..Len(w) /\ y + 1 \in 1..Len(w) /\ x + 1 < y + 1  BY <1>2, <2>1
  <2> QED  BY <1>2, <2>1, <2>2
<1> QED  BY <1>6, <1>7 DEF r

(* ... and answered.                                                       *)
LEMMA PlacedAnswered ==
  ASSUME NEW w, NEW g, NEW c, Placed(w, g, c) PROVE Placed(w, <<>>, c \ ToSet(g))
  BY NothingThere DEF Placed

-----------------------------------------------------------------------------
(* What each step does to the queue. *)

LEMMA StartKeeps ==
  ASSUME QueueInv, NEW r \in Requests, Start(r) PROVE QueueInv' /\ Follows(Waiting', Waiting)
<1> USE DEF QueueInv
<1>1. /\ pc[r] = "new" /\ UNCHANGED <<asked, prior_cache, later, reply, group, stage, left, dropped>>
      /\ missing' \in [Requests -> SUBSET Questions]
  BY AskedIs DEF Start, QueueTyped
<1>2. Waiting \in Seq(Messages)  BY OldestIs DEF QueueTyped, Waiting
<1>3. \A j \in Jobs : j[1] = r => reply[j] = "none"
  BY <1>1, MessagesAre DEF InOnePlace
<1>4. StageOK'  BY <1>1 DEF StageOK
<1>5. CASE Ends(r) /\ UNCHANGED chan
  <2>1. pc' = [pc EXCEPT ![r] = "ended"] /\ UNCHANGED <<chan, later>>  BY <1>1, <1>5 DEF Ends
  <2>2. QueueTyped'  BY <1>1, <1>5, <2>1 DEF QueueTyped, Ends
  <2>3. \A m \in Messages : Current(m)' <=> Current(m)
    BY <1>1, <2>1, MessagesAre DEF Current, QueueTyped
  <2>4. Pending' = Pending  BY <2>3 DEF Pending
  <2>5. InOnePlace'
    <3>1. Waiting' = Waiting  BY <2>1 DEF Waiting
    <3>2. Placed(Waiting, group, Pending)'  BY <1>1, <2>4, <3>1 DEF InOnePlace
    <3>3. \A j \in Jobs : reply'[j] # "none" => pc'[j[1]] = j[2]
      BY <1>1, <1>3, <2>1, MessagesAre DEF InOnePlace, QueueTyped
    <3> QED  BY <3>2, <3>3 DEF InOnePlace
  <2>6. Follows(Waiting', Waiting)  BY <1>2, <2>1, FollowsItself DEF Waiting
  <2> QED  BY <1>4, <2>2, <2>5, <2>6
<1>6. ASSUME NEW k \in {"prior", "main"}, pc' = [pc EXCEPT ![r] = k],
             eval_lock' = IF asked[r].mode = "batched" THEN eval_lock ELSE r,
             Send(<<r, k>>), UNCHANGED cancel
      PROVE  QueueInv' /\ Follows(Waiting', Waiting)
  <2> DEFINE m == <<r, k>>
  <2>1. m \in Messages /\ m \in Jobs /\ m[1] = r /\ m[2] = k  BY DEF Messages, Jobs
  <2> HIDE DEF m
  <2>2. chan' = Append(chan, m) /\ chan' \in Seq(Messages)
    <3>1. chan' = Append(chan, m)  BY <1>6 DEF Send, m
    <3> QED  BY <2>1, <3>1, AppendProperties DEF QueueTyped
  <2>3. Waiting' = Append(Waiting, m)
    BY <1>1, <2>1, <2>2, OldestIs DEF Waiting, QueueTyped
  <2>4. m \notin Pending  BY <1>1, <2>1, MessagesAre DEF Pending, Current
  <2>5. \A x \in Messages : Current(x)' <=> Current(x) \/ x = m
    BY <1>1, <1>3, <1>6, <2>1, MessagesAre DEF Current, QueueTyped
  <2>6. Pending' = Pending \cup {m}  BY <2>1, <2>5 DEF Pending
  <2>7. Placed(Waiting, group, Pending)' /\ Follows(Waiting', Waiting)
    BY <1>1, <1>2, <2>1, <2>3, <2>4, <2>6, PlacedSent DEF InOnePlace
  <2>8. \A j \in Jobs : reply'[j] # "none" => pc'[j[1]] = j[2]
    BY <1>1, <1>3, <1>6, MessagesAre DEF InOnePlace, QueueTyped
  <2>9. QueueTyped'  BY <1>1, <1>6, <2>2 DEF QueueTyped
  <2> QED  BY <1>4, <2>7, <2>8, <2>9 DEF InOnePlace
<1>7. CASE ~(Ends(r) /\ UNCHANGED chan)
  <2> DEFINE k == IF Missing(r) # {} THEN "prior" ELSE "main"
  <2>1. /\ k \in {"prior", "main"} /\ pc' = [pc EXCEPT ![r] = k]
        /\ eval_lock' = IF asked[r].mode = "batched" THEN eval_lock ELSE r
        /\ Send(<<r, k>>) /\ UNCHANGED cancel
    BY <1>7 DEF Start
  <2> HIDE DEF k
  <2> QED  BY <1>6, <2>1
<1> QED  BY <1>5, <1>7

LEMMA AbandonKeeps ==
  ASSUME QueueInv, NEW r \in Requests, Abandon(r) PROVE QueueInv' /\ Follows(Waiting', Waiting)
<1> USE DEF QueueInv
<1>1. /\ cancel' = cancel \cup {r}
      /\ UNCHANGED <<asked, pc, eval_lock, prior_cache, missing, chan, later, reply, group, stage,
                     left, dropped>>
  BY DEF Abandon
<1>2. Waiting \in Seq(Messages)  BY OldestIs DEF QueueTyped, Waiting
<1>3. QueueTyped'  BY <1>1 DEF QueueTyped
<1>4. StageOK'  BY <1>1 DEF StageOK
<1>5. Waiting' = Waiting /\ Pending' = Pending  BY <1>1 DEF Waiting, Pending, Current
<1>6. InOnePlace'  BY <1>1, <1>5 DEF InOnePlace
<1> QED  BY <1>2, <1>3, <1>4, <1>5, <1>6, FollowsItself

LEMMA AskReleaseKeeps ==
  ASSUME QueueInv, NEW m \in Releasers, AskRelease(m)
  PROVE  QueueInv' /\ Follows(Waiting', Waiting)
<1> USE DEF QueueInv
<1>1. /\ pc[m] = "new" /\ pc' = [pc EXCEPT ![m] = "main"] /\ chan' = Append(chan, m)
      /\ UNCHANGED <<asked, cancel, eval_lock, prior_cache, missing, later, reply, group, stage,
                     left, dropped>>
  BY DEF AskRelease, Send
<1>2. m \in Messages /\ Waiting \in Seq(Messages) /\ chan' \in Seq(Messages)
  BY <1>1, OldestIs, AppendProperties DEF QueueTyped, Waiting, Messages
<1>3. Waiting' = Append(Waiting, m)  BY <1>1, <1>2, OldestIs DEF Waiting, QueueTyped
<1>4. m \notin Pending  BY <1>1 DEF Pending, Current
<1>5. \A x \in Messages : Current(x)' <=> Current(x) \/ x = m
  BY <1>1, MessagesAre DEF Current, QueueTyped
<1>6. Pending' = Pending \cup {m}  BY <1>2, <1>5 DEF Pending
<1>7. Placed(Waiting, group, Pending)' /\ Follows(Waiting', Waiting)
  BY <1>1, <1>2, <1>3, <1>4, <1>6, PlacedSent DEF InOnePlace
<1>8. \A j \in Jobs : reply'[j] # "none" => pc'[j[1]] = j[2]
  BY <1>1, MessagesAre DEF InOnePlace, QueueTyped
<1>9. QueueTyped'  BY <1>1, <1>2 DEF QueueTyped
<1>10. StageOK'  BY <1>1 DEF StageOK
<1> QED  BY <1>7, <1>8, <1>9, <1>10 DEF InOnePlace

LEMMA ReceiveKeeps ==
  ASSUME QueueInv, NEW r \in Requests, Receive(r) PROVE QueueInv' /\ Follows(Waiting', Waiting)
<1> USE DEF QueueInv
<1> DEFINE j == <<r, pc[r]>>
<1>1. /\ j \in Jobs /\ reply[j] # "none" /\ reply' = [reply EXCEPT ![j] = "none"]
      /\ UNCHANGED <<asked, later, group, stage, left, dropped>>
      /\ missing' \in [Requests -> SUBSET Questions] /\ prior_cache' \subseteq Modes \X Questions
  <2>1. missing' \in [Requests -> SUBSET Questions]  BY DEF Receive, QueueTyped
  <2>2. Remember(r) \/ UNCHANGED prior_cache  BY DEF Receive
  <2>3. {asked[r].mode} \X missing[r] \subseteq Modes \X Questions  BY AskedIs DEF QueueTyped
  <2>4. prior_cache' \subseteq Modes \X Questions  BY <2>2, <2>3 DEF Remember, QueueTyped
  <2> QED  BY <2>1, <2>4 DEF Receive
<1>2. /\ Waiting \in Seq(Messages) /\ j \in Messages /\ j[1] = r /\ j[2] = pc[r]
      /\ ~Current(j) /\ j \notin Releasers
  BY <1>1, OldestIs, MessagesAre DEF QueueTyped, Waiting, Messages, Current
<1>3. \A x \in Jobs : x[1] = r /\ x # j => reply[x] = "none"
  <2> SUFFICES ASSUME NEW x \in Jobs, x[1] = r, x # j, reply[x] # "none" PROVE FALSE
    OBVIOUS
  <2>1. pc[r] = x[2] /\ x = <<x[1], x[2]>>  BY MessagesAre DEF InOnePlace
  <2> QED  BY <2>1
<1>4. pc[r] \in {"prior", "main"}  BY <1>1, <1>2, MessagesAre
<1> HIDE DEF j
<1>5. reply' \in [Jobs -> Outcomes \cup {"none"}] /\ \A x \in Jobs : x[1] = r => reply'[x] = "none"
  BY <1>1, <1>3 DEF QueueTyped
<1>6. \A x \in Jobs : x[1] # r => reply'[x] = reply[x]
  BY <1>1, <1>2 DEF QueueTyped
<1>7. StageOK'  BY <1>1 DEF StageOK
<1>8. CASE Ends(r) /\ UNCHANGED chan
  <2>1. pc' = [pc EXCEPT ![r] = "ended"]  BY <1>8 DEF Ends
  <2>2. QueueTyped'  BY <1>1, <1>5, <1>8, <2>1 DEF QueueTyped, Ends
  <2>3. \A m \in Messages : Current(m)' <=> Current(m)
    <3> SUFFICES ASSUME NEW m \in Messages PROVE Current(m)' <=> Current(m)  OBVIOUS
    <3>1. CASE m \in Releasers  BY <2>1, <3>1, MessagesAre DEF Current, QueueTyped
    <3>2. CASE m \in Jobs /\ m[1] = r
      <4>1. ~Current(m)'
        BY <2>1, <3>2, MessagesAre DEF Current, QueueTyped
      <4>2. ~Current(m)
        <5>1. CASE m = j  BY <1>2, <5>1
        <5>2. CASE m # j
          <6>1. pc[r] # m[2]  BY <1>2, <1>1, <3>2, <5>2, MessagesAre
          <6> QED  BY <3>2, <6>1, MessagesAre DEF Current
        <5> QED  BY <5>1, <5>2
      <4> QED  BY <4>1, <4>2
    <3>3. CASE m \in Jobs /\ m[1] # r
      BY <1>6, <2>1, <3>3, MessagesAre DEF Current, QueueTyped
    <3> QED  BY <3>1, <3>2, <3>3 DEF Messages
  <2>4. Pending' = Pending  BY <2>3 DEF Pending
  <2>5. Waiting' = Waiting  BY <1>1, <1>8 DEF Waiting
  <2>6. Placed(Waiting, group, Pending)'  BY <1>1, <2>4, <2>5 DEF InOnePlace
  <2>7. \A x \in Jobs : reply'[x] # "none" => pc'[x[1]] = x[2]
    BY <1>5, <1>6, <2>1, MessagesAre DEF InOnePlace, QueueTyped
  <2>8. InOnePlace'  BY <2>6, <2>7 DEF InOnePlace
  <2>9. Follows(Waiting', Waiting)  BY <1>2, <2>5, FollowsItself
  <2> QED  BY <1>7, <2>2, <2>8, <2>9
<1>9. CASE /\ j[2] = "prior" /\ reply[j] = "ok"
           /\ pc' = [pc EXCEPT ![r] = "main"]
           /\ Send(<<r, "main">>)
           /\ UNCHANGED <<eval_lock, cancel>>
  <2> DEFINE m == <<r, "main">>
  <2>1. m \in Messages /\ m \in Jobs /\ m[1] = r /\ m[2] = "main"  BY DEF Messages, Jobs
  <2> HIDE DEF m
  <2>2. chan' = Append(chan, m) /\ chan' \in Seq(Messages)
    <3>1. chan' = Append(chan, m)  BY <1>9 DEF Send, m
    <3> QED  BY <2>1, <3>1, AppendProperties DEF QueueTyped
  <2>3. Waiting' = Append(Waiting, m)
    BY <1>1, <2>1, <2>2, OldestIs DEF Waiting, QueueTyped
  <2>4. m \notin Pending  BY <1>2, <1>9, <2>1, MessagesAre DEF Pending, Current
  <2>5. \A x \in Messages : Current(x)' <=> Current(x) \/ x = m
    <3> SUFFICES ASSUME NEW x \in Messages PROVE Current(x)' <=> Current(x) \/ x = m  OBVIOUS
    <3>1. CASE x \in Releasers  BY <1>9, <2>1, <3>1, MessagesAre DEF Current, QueueTyped
    <3>2. CASE x \in Jobs /\ x[1] = r
      <4>1. Current(x)' <=> x[2] = "main"
        BY <1>5, <1>9, <3>2, MessagesAre DEF Current, QueueTyped
      <4>2. x[2] = "main" <=> x = m  BY <2>1, <3>2, MessagesAre
      <4>3. ~Current(x)
        <5>1. CASE x = j  BY <1>2, <5>1
        <5>2. CASE x # j
          <6>1. pc[r] # x[2]  BY <1>2, <1>1, <3>2, <5>2, MessagesAre
          <6> QED  BY <3>2, <6>1, MessagesAre DEF Current
        <5> QED  BY <5>1, <5>2
      <4> QED  BY <4>1, <4>2, <4>3
    <3>3. CASE x \in Jobs /\ x[1] # r
      BY <1>6, <1>9, <2>1, <3>3, MessagesAre DEF Current, QueueTyped
    <3> QED  BY <3>1, <3>2, <3>3 DEF Messages
  <2>6. Pending' = Pending \cup {m}  BY <2>1, <2>5 DEF Pending
  <2>7. Placed(Waiting, group, Pending)' /\ Follows(Waiting', Waiting)
    BY <1>1, <1>2, <2>1, <2>3, <2>4, <2>6, PlacedSent DEF InOnePlace
  <2>8. \A x \in Jobs : reply'[x] # "none" => pc'[x[1]] = x[2]
    BY <1>5, <1>6, <1>9, MessagesAre DEF InOnePlace, QueueTyped
  <2>9. QueueTyped'
    <3>1. pc' \in [Requests \cup Releasers -> {"new", "prior", "main", "ended"}]
      BY <1>9 DEF QueueTyped
    <3> QED  BY <1>1, <1>5, <1>9, <2>2, <3>1 DEF QueueTyped
  <2> QED  BY <1>7, <2>7, <2>8, <2>9 DEF InOnePlace
<1>10. \/ Ends(r) /\ UNCHANGED chan
       \/ /\ j[2] = "prior" /\ reply[j] = "ok"
          /\ pc' = [pc EXCEPT ![r] = "main"]
          /\ Send(<<r, "main">>)
          /\ UNCHANGED <<eval_lock, cancel>>
  BY DEF Receive, j
<1> QED  BY <1>8, <1>9, <1>10

(* A group begins: its jobs were waiting.                                  *)
LEMMA BeginKeeps ==
  ASSUME QueueInv, stage = "idle", NEW jobs \in Seq(Jobs), Len(jobs) \in 1..MaxTogether,
         Begin(jobs), Placed(later' \o chan', jobs, Pending),
         chan' \in Seq(Messages), later' \in Seq(Messages), UNCHANGED <<client, dropped>>
  PROVE  QueueInv'
<1> USE DEF QueueInv
<1>1. /\ group' = jobs /\ left' = UNION {{j} \X Asks(j) : j \in ToSet(jobs)}
      /\ stage' = IF Len(jobs) = 1 THEN "evaluate" ELSE "together"
      /\ UNCHANGED <<asked, pc, cancel, eval_lock, prior_cache, missing, reply, dropped>>
  BY DEF Begin, client
<1>2. ToSet(jobs) \subseteq Jobs  BY ToSetIs
<1>3. left' \subseteq Jobs \X Questions /\ \A a \in left' : a[1] \in ToSet(jobs)
  <2>1. \A j \in ToSet(jobs) : Asks(j) \subseteq Questions
    BY <1>2, AskedIs, MessagesAre DEF QueueTyped, Asks
  <2>2. \A a \in left' : \E j \in ToSet(jobs) : a \in {j} \X Asks(j)  BY <1>1
  <2> QED  BY <1>2, <2>1, <2>2
<1>4. QueueTyped'
  <2>1. Len(jobs) <= MaxTogether  OBVIOUS
  <2>2. stage' \in Stages \cup {"idle"}  BY <1>1 DEF Stages
  <2> QED  BY <1>1, <1>3, <2>1, <2>2 DEF QueueTyped
<1>5. Pending' = Pending  BY <1>1 DEF Pending, Current
<1>6. InOnePlace'  BY <1>1, <1>5 DEF InOnePlace, Waiting
<1>7. jobs # <<>> /\ Len(jobs) \in Nat  BY EmptySeq
<1>8. StageOK'  BY <1>1, <1>3, <1>7 DEF StageOK, Single
<1> QED  BY <1>4, <1>6, <1>8

LEMMA TakeGroupKeeps == ASSUME QueueInv, TakeGroup PROVE QueueInv' /\ Follows(Waiting', Waiting)
<1> USE DEF QueueInv
<1> DEFINE first == Head(Waiting)  g == Gather(first, Tail(Waiting))
<1>1. /\ stage = "idle" /\ Waiting # <<>> /\ Groupable(first) /\ Begin(g.group)
      /\ later' = g.rest /\ chan' = <<>> /\ UNCHANGED <<client, dropped>>
  BY DEF TakeGroup, Waiting
<1>2. Waiting \in Seq(Messages)  BY OldestIs DEF QueueTyped, Waiting
<1>3. group = <<>> /\ Placed(Waiting, <<>>, Pending) /\ Distinct(Waiting)
  BY <1>1 DEF StageOK, InOnePlace, Placed
<1>4. first \in Jobs  BY <1>1 DEF Groupable
<1>5. /\ Tail(Waiting) \in Seq(Messages) /\ Distinct(Tail(Waiting))
      /\ first \notin ToSet(Tail(Waiting))
  BY <1>1, <1>2, <1>3, FirstTaken
<1> HIDE DEF first
<1>6. Gathered(g, first, Tail(Waiting), Len(Tail(Waiting)))
  BY <1>4, <1>5, GatherIs DEF QueueTyped
<1> HIDE DEF g
<1>7. Placed(g.rest, g.group, Pending) /\ Follows(g.rest, Waiting)
  BY <1>1, <1>2, <1>3, <1>6, PlacedGathered DEF first
<1>8. /\ g.group \in Seq(Jobs) /\ Len(g.group) \in 1..MaxTogether /\ g.rest \in Seq(Messages)
  BY <1>6 DEF Gathered
<1>9. later' \o chan' = g.rest /\ <<>> \in Seq(Messages)  BY <1>1, <1>8, ConcatEmptySeq, EmptySeq
<1>10. QueueInv'  BY <1>1, <1>7, <1>8, <1>9, BeginKeeps
<1>11. Waiting' = g.rest  BY <1>9 DEF Waiting
<1> QED  BY <1>7, <1>10, <1>11

LEMMA PopIs ==
  ASSUME QueueInv, NEW m, Pop(m)
  PROVE  /\ stage = "idle" /\ Waiting # <<>> /\ m = Head(Waiting) /\ Waiting' = Tail(Waiting)
         /\ chan' \in Seq(Messages) /\ later' \in Seq(Messages)
<1>1. chan \in Seq(Messages) /\ later \in Seq(Messages)  BY DEF QueueInv, QueueTyped
<1>2. CASE later # <<>> /\ m = Head(later) /\ later' = Tail(later) /\ UNCHANGED chan
  <2>1. Tail(later) \in Seq(Messages)  BY <1>1, <1>2, HeadTailProperties
  <2> QED  BY <1>1, <1>2, <2>1, OldestIs DEF Pop, Waiting
<1>3. CASE later = <<>> /\ chan # <<>> /\ m = Head(chan) /\ chan' = Tail(chan) /\ UNCHANGED later
  <2>1. Tail(chan) \in Seq(Messages)  BY <1>1, <1>3, HeadTailProperties
  <2>2. later \o chan = chan /\ later' \o chan' = chan'  BY <1>1, <1>3, <2>1, OldestIs
  <2> QED  BY <1>1, <1>3, <2>1, <2>2 DEF Pop, Waiting
<1> QED  BY <1>2, <1>3 DEF Pop

LEMMA TakeOneKeeps == ASSUME QueueInv, TakeOne PROVE QueueInv' /\ Follows(Waiting', Waiting)
<1> USE DEF QueueInv
<1>1. PICK m \in Jobs : Pop(m) /\ Begin(<<m>>) /\ UNCHANGED <<client, dropped>>
  BY DEF TakeOne
<1>2. /\ stage = "idle" /\ Waiting # <<>> /\ m = Head(Waiting) /\ Waiting' = Tail(Waiting)
      /\ chan' \in Seq(Messages) /\ later' \in Seq(Messages)
  BY <1>1, PopIs
<1>3. Waiting \in Seq(Messages) /\ Placed(Waiting, <<>>, Pending)
  BY <1>2, OldestIs DEF QueueTyped, Waiting, StageOK, InOnePlace
<1>4. Placed(Waiting', <<m>>, Pending) /\ Follows(Waiting', Waiting)
  BY <1>2, <1>3, PlacedTaken
<1> DEFINE jobs == <<m>>
<1>5. jobs \in Seq(Jobs) /\ Len(jobs) = 1  OBVIOUS
<1>6. Len(jobs) \in 1..MaxTogether  BY <1>5, DecisionsAssumption
<1>7. Begin(jobs) /\ Placed(later' \o chan', jobs, Pending)  BY <1>1, <1>4 DEF Waiting
<1> HIDE DEF jobs
<1>8. QueueInv'  BY <1>1, <1>2, <1>5, <1>6, <1>7, BeginKeeps
<1> QED  BY <1>4, <1>8

LEMMA TakeReleaseKeeps ==
  ASSUME QueueInv, TakeRelease PROVE QueueInv' /\ Follows(Waiting', Waiting)
<1> USE DEF QueueInv
<1>1. PICK m \in Releasers :
        /\ Pop(m) /\ pc' = [pc EXCEPT ![m] = "ended"]
        /\ UNCHANGED <<asked, cancel, eval_lock, prior_cache, missing, reply, group, stage, left, dropped>>
  BY DEF TakeRelease
<1>2. /\ stage = "idle" /\ Waiting # <<>> /\ m = Head(Waiting) /\ Waiting' = Tail(Waiting)
      /\ chan' \in Seq(Messages) /\ later' \in Seq(Messages)
  BY <1>1, PopIs
<1>3. Waiting \in Seq(Messages) /\ Placed(Waiting, <<>>, Pending) /\ group = <<>>
  BY <1>2, OldestIs DEF QueueTyped, Waiting, StageOK, InOnePlace
<1>4. Placed(Waiting', <<>>, Pending \ {m}) /\ Follows(Waiting', Waiting)
  BY <1>2, <1>3, PlacedTaken
<1>5. \A x \in Messages : Current(x)' <=> Current(x) /\ x # m
  BY <1>1, MessagesAre DEF Current, QueueTyped
<1>6. Pending' = Pending \ {m}  BY <1>5 DEF Pending
<1>7. Placed(Waiting, group, Pending)'  BY <1>1, <1>3, <1>4, <1>6
<1>8. \A j \in Jobs : reply'[j] # "none" => pc'[j[1]] = j[2]
  BY <1>1, MessagesAre DEF InOnePlace, QueueTyped
<1>9. QueueTyped'  BY <1>1, <1>2 DEF QueueTyped
<1>10. StageOK'  BY <1>1 DEF StageOK
<1> QED  BY <1>4, <1>7, <1>8, <1>9, <1>10 DEF InOnePlace

(* A step of the evaluation answers every job of the group, or goes on     *)
(* with the same jobs and no more questions.                               *)
GoesOn ==
  /\ UNCHANGED <<reply, group>> /\ left' \subseteq left /\ dropped' \subseteq Jobs
  /\ stage' \in Stages /\ (stage' \in Single => stage \in Single)

WorksOn ==
  /\ stage # "idle" /\ UNCHANGED Others
  /\ GoesOn \/ \E how \in [Jobs -> Outcomes] : Answer(how)

LEMMA AnswerAllIs ==
  ASSUME NEW x \in Outcomes, AnswerAll(x)
  PROVE  \E how \in [Jobs -> Outcomes] : Answer(how)
<1>1. [j \in Jobs |-> x] \in [Jobs -> Outcomes]  OBVIOUS
<1> QED  BY <1>1 DEF AnswerAll

LEMMA WorkKeeps == ASSUME QueueInv, WorksOn PROVE QueueInv' /\ Follows(Waiting', Waiting)
<1> USE DEF QueueInv
<1>1. /\ stage # "idle"
      /\ UNCHANGED <<asked, pc, cancel, eval_lock, prior_cache, missing, chan, later>>
  BY DEF WorksOn, Others, client
<1>2. Waiting' = Waiting /\ Waiting \in Seq(Messages)
  BY <1>1, OldestIs DEF QueueTyped, Waiting
<1>3. Follows(Waiting', Waiting)  BY <1>2, FollowsItself
<1>4. CASE GoesOn
  <2>1. QueueTyped'  BY <1>1, <1>4 DEF GoesOn, QueueTyped
  <2>2. Pending' = Pending  BY <1>1, <1>4 DEF GoesOn, Pending, Current
  <2>3. InOnePlace'  BY <1>1, <1>2, <1>4, <2>2 DEF GoesOn, InOnePlace
  <2>4. StageOK'  BY <1>1, <1>4 DEF GoesOn, StageOK, Stages
  <2> QED  BY <1>3, <2>1, <2>3, <2>4
<1>5. ASSUME NEW how \in [Jobs -> Outcomes], Answer(how) PROVE QueueInv'
  <2>1. /\ reply' = [j \in Jobs |-> IF j \in ToSet(group) THEN how[j] ELSE reply[j]]
        /\ group' = <<>> /\ left' = {} /\ dropped' = {} /\ stage' = "idle"
    BY <1>5 DEF Answer
  <2>2. QueueTyped'
    <3>1. reply' \in [Jobs -> Outcomes \cup {"none"}]  BY <2>1 DEF QueueTyped
    <3>2. Len(<<>>) <= MaxTogether  BY NothingThere, DecisionsAssumption
    <3> QED  BY <1>1, <2>1, <3>1, <3>2, NothingThere DEF QueueTyped
  <2>3. ToSet(group) \subseteq Pending  BY DEF InOnePlace, Placed
  <2>4. \A m \in Messages : Current(m)' <=> Current(m) /\ m \notin ToSet(group)
    <3> SUFFICES ASSUME NEW m \in Messages
                 PROVE  Current(m)' <=> Current(m) /\ m \notin ToSet(group)
      OBVIOUS
    <3>1. ToSet(group) \subseteq Jobs  BY ToSetIs DEF QueueTyped
    <3>2. CASE m \in Releasers  BY <1>1, <3>1, <3>2, MessagesAre DEF Current
    <3>3. CASE m \in Jobs
      <4>1. CASE m \in ToSet(group)
        <5>1. reply'[m] # "none"  BY <2>1, <3>3, <4>1 DEF Outcomes
        <5> QED  BY <3>3, <4>1, <5>1, MessagesAre DEF Current
      <4>2. CASE m \notin ToSet(group)
        <5>1. reply'[m] = reply[m]  BY <2>1, <3>3, <4>2
        <5> QED  BY <1>1, <3>3, <4>2, <5>1, MessagesAre DEF Current
      <4> QED  BY <4>1, <4>2
    <3> QED  BY <3>2, <3>3 DEF Messages
  <2>5. Pending' = Pending \ ToSet(group)  BY <2>4 DEF Pending
  <2>6. Placed(Waiting, group, Pending)'
    <3>1. Placed(Waiting, <<>>, Pending \ ToSet(group))  BY PlacedAnswered DEF InOnePlace
    <3> QED  BY <1>2, <2>1, <2>5, <3>1
  <2>7. \A j \in Jobs : reply'[j] # "none" => pc'[j[1]] = j[2]
    <3> SUFFICES ASSUME NEW j \in Jobs, reply'[j] # "none" PROVE pc'[j[1]] = j[2]  OBVIOUS
    <3>1. CASE j \in ToSet(group)
      BY <1>1, <2>3, <3>1, MessagesAre DEF Pending, Current
    <3>2. CASE j \notin ToSet(group)  BY <1>1, <2>1, <3>2 DEF InOnePlace
    <3> QED  BY <3>1, <3>2
  <2>8. StageOK'  BY <2>1 DEF StageOK, Single
  <2> QED  BY <2>2, <2>6, <2>7, <2>8 DEF InOnePlace
<1> QED  BY <1>3, <1>4, <1>5 DEF WorksOn

(* Every step of the evaluation is one.                                    *)
LEMMA WorkIs ==
  ASSUME QueueInv,
         Evaluate \/ ReadState \/ AskAlone \/ AskRound \/ ReadStates \/ AskTogether \/ Panic
  PROVE  WorksOn
<1> USE DEF QueueInv
<1>1. {"ok", "failed", "cancelled"} \subseteq Outcomes /\ Finish \subseteq Outcomes
      /\ dropped \subseteq Jobs /\ ToSet(group) \subseteq Jobs
  BY ToSetIs DEF Outcomes, Finish, QueueTyped
<1>2. ASSUME Evaluate PROVE WorksOn
  <2>1. /\ stage = "evaluate" /\ UNCHANGED Others
        /\ \/ AnswerAll("cancelled") \/ AnswerAll("failed")
           \/ UNCHANGED <<reply, group, left, dropped>> /\ stage' \in {"alone", "ask", "read"}
    BY <1>2 DEF Evaluate
  <2> QED  BY <1>1, <2>1, AnswerAllIs DEF WorksOn, GoesOn, Stages, Single
<1>3. ASSUME ReadState PROVE WorksOn
  <2>1. /\ stage = "read" /\ UNCHANGED Others
        /\ \/ AnswerAll("cancelled") \/ AnswerAll("failed")
           \/ UNCHANGED <<reply, group, left, dropped>> /\ stage' \in {"read", "ask"}
    BY <1>3 DEF ReadState
  <2> QED  BY <1>1, <2>1, AnswerAllIs DEF WorksOn, GoesOn, Stages, Single
<1>4. ASSUME AskAlone PROVE WorksOn
  <2>1. /\ stage = "alone" /\ UNCHANGED Others
        /\ \/ AnswerAll("cancelled") \/ AnswerAll("failed")
           \/ \E how \in Finish : AnswerAll(how)
           \/ UNCHANGED <<reply, group, stage, dropped>> /\ left' \subseteq left
    BY <1>4 DEF AskAlone
  <2> QED  BY <1>1, <2>1, AnswerAllIs DEF WorksOn, GoesOn, Stages, Single
<1>5. ASSUME AskRound PROVE WorksOn
  <2>1. /\ stage = "ask" /\ UNCHANGED Others
        /\ \/ AnswerAll("cancelled") \/ AnswerAll("failed")
           \/ \E how \in Finish : AnswerAll(how)
           \/ UNCHANGED <<reply, group, stage, dropped>> /\ left' \subseteq left
    BY <1>5 DEF AskRound
  <2> QED  BY <1>1, <2>1, AnswerAllIs DEF WorksOn, GoesOn, Stages, Single
<1>6. ASSUME ReadStates PROVE WorksOn
  <2>1. /\ stage = "together" /\ UNCHANGED Others
        /\ \/ AnswerAll("failed")
           \/ UNCHANGED <<reply, group, left, dropped>> /\ stage' = "rounds"
    BY <1>6 DEF ReadStates
  <2> QED  BY <1>1, <2>1, AnswerAllIs DEF WorksOn, GoesOn, Stages, Single
<1>7. ASSUME AskTogether PROVE WorksOn
  <2> DEFINE gone == dropped \cup {j \in ToSet(group) : j[1] \in cancel}
             told(how) == [j \in Jobs |-> IF j \in DOMAIN how THEN how[j] ELSE "cancelled"]
  <2>1. /\ stage = "rounds" /\ UNCHANGED Others
        /\ \/ AnswerAll("failed")
           \/ \E how \in [ToSet(group) \ gone -> Finish] : Answer(told(how))
           \/ UNCHANGED <<reply, group, stage>> /\ left' \subseteq left /\ dropped' = gone
    BY <1>7 DEF AskTogether
  <2>2. gone \subseteq Jobs  BY <1>1
  <2>3. \A how \in [ToSet(group) \ gone -> Finish] : told(how) \in [Jobs -> Outcomes]
    BY <1>1
  <2> HIDE DEF gone, told
  <2> QED  BY <1>1, <2>1, <2>2, <2>3, AnswerAllIs DEF WorksOn, GoesOn, Stages, Single
<1>8. ASSUME Panic PROVE WorksOn
  BY <1>1, <1>8, AnswerAllIs DEF Panic, WorksOn
<1> QED  BY <1>2, <1>3, <1>4, <1>5, <1>6, <1>7, <1>8

LEMMA QueueInit == Init => QueueInv
<1> SUFFICES ASSUME Init PROVE QueueInv  OBVIOUS
<1>1. /\ asked \in Workloads /\ pc = [x \in Requests \cup Releasers |-> "new"] /\ cancel = {}
      /\ eval_lock = NoOne /\ prior_cache = {} /\ missing = [r \in Requests |-> {}] /\ chan = <<>> /\ later = <<>>
      /\ reply = [j \in Jobs |-> "none"] /\ group = <<>> /\ stage = "idle" /\ left = {}
      /\ dropped = {}
  BY DEF Init
<1>2. <<>> \in Seq(Messages) /\ <<>> \o <<>> = <<>>  BY EmptySeq, ConcatEmptySeq
<1>3. Len(<<>>) <= MaxTogether  BY NothingThere, DecisionsAssumption
<1>4. QueueTyped  BY <1>1, <1>2, <1>3, NothingThere DEF QueueTyped
<1>5. \A m \in Messages : ~Current(m)
  BY <1>1, MessagesAre DEF Current, Messages
<1>6. Pending = {}  BY <1>5 DEF Pending
<1>7. Placed(Waiting, group, Pending)  BY <1>1, <1>2, <1>6, NothingThere DEF Placed, Waiting
<1>8. InOnePlace  BY <1>1, <1>7 DEF InOnePlace
<1>9. StageOK  BY <1>1 DEF StageOK, Single
<1> QED  BY <1>4, <1>8, <1>9 DEF QueueInv

LEMMA QueueStep == QueueInv /\ [Next]_vars => QueueInv' /\ Follows(Waiting', Waiting)
<1> SUFFICES ASSUME QueueInv, [Next]_vars PROVE QueueInv' /\ Follows(Waiting', Waiting)
  OBVIOUS
<1>1. CASE Worker
  BY <1>1, TakeGroupKeeps, TakeOneKeeps, TakeReleaseKeeps, WorkIs, WorkKeeps DEF Worker
<1>2. ASSUME NEW r \in Requests, Start(r) \/ Receive(r) \/ Abandon(r)
      PROVE  QueueInv' /\ Follows(Waiting', Waiting)
  BY <1>2, StartKeeps, ReceiveKeeps, AbandonKeeps
<1>3. ASSUME NEW m \in Releasers, AskRelease(m) PROVE QueueInv' /\ Follows(Waiting', Waiting)
  BY <1>3, AskReleaseKeeps
<1>4. CASE UNCHANGED vars
  <2>1. Waiting' = Waiting /\ Pending' = Pending
    BY <1>4 DEF vars, client, Waiting, Pending, Current
  <2>2. QueueInv'
    BY <1>4, <2>1 DEF vars, client, QueueInv, QueueTyped, InOnePlace, StageOK
  <2>3. Waiting \in Seq(Messages)  BY OldestIs DEF QueueInv, QueueTyped, Waiting
  <2> QED  BY <2>1, <2>2, <2>3, FollowsItself
<1> QED  BY <1>1, <1>2, <1>3, <1>4 DEF Next

(* A releaser is never where a request waits for its priors.               *)
ReleasersOK == \A m \in Releasers : pc[m] # "prior"

LEMMA ReleasersStep == QueueInv /\ ReleasersOK /\ [Next]_vars => ReleasersOK'
<1> SUFFICES ASSUME QueueInv, ReleasersOK, [Next]_vars PROVE ReleasersOK'  OBVIOUS
<1> USE DEF QueueInv, QueueTyped
<1>1. ASSUME NEW r \in Requests, NEW k, pc' = [pc EXCEPT ![r] = k] PROVE ReleasersOK'
  BY <1>1, MessagesAre DEF ReleasersOK
<1>2. ASSUME NEW m \in Releasers, NEW k, k # "prior", pc' = [pc EXCEPT ![m] = k]
      PROVE  ReleasersOK'
  BY <1>2 DEF ReleasersOK
<1>3. CASE UNCHANGED pc  BY <1>3 DEF ReleasersOK
<1>4. CASE Worker
  <2>1. CASE TakeGroup \/ TakeOne  BY <1>3, <2>1 DEF TakeGroup, TakeOne, client
  <2>2. CASE TakeRelease  BY <1>2, <2>2 DEF TakeRelease
  <2>3. CASE Evaluate \/ ReadState \/ AskAlone \/ AskRound \/ ReadStates \/ AskTogether \/ Panic
    BY <1>3, <2>3, WorkIs DEF WorksOn, Others, client
  <2> QED  BY <1>4, <2>1, <2>2, <2>3 DEF Worker
<1>5. ASSUME NEW r \in Requests, Start(r) PROVE ReleasersOK'
  BY <1>1, <1>5 DEF Start, Ends
<1>6. ASSUME NEW r \in Requests, Receive(r) PROVE ReleasersOK'
  BY <1>1, <1>6 DEF Receive, Ends
<1>7. ASSUME NEW r \in Requests, Abandon(r) PROVE ReleasersOK'
  BY <1>3, <1>7 DEF Abandon
<1>8. ASSUME NEW m \in Releasers, AskRelease(m) PROVE ReleasersOK'
  BY <1>2, <1>8 DEF AskRelease
<1>9. CASE UNCHANGED vars  BY <1>3, <1>9 DEF vars, client
<1> QED  BY <1>4, <1>5, <1>6, <1>7, <1>8, <1>9 DEF Next

-----------------------------------------------------------------------------
(* What that gives. *)

(* Where a message is in a sequence that holds it once.                    *)
LEMMA FoundOnce ==
  ASSUME NEW S, NEW s \in Seq(S), NEW t \in Seq(S), Distinct(s), Distinct(t),
         ToSet(s) \cap ToSet(t) = {}, NEW m
  PROVE  Cardinality({i \in DOMAIN (s \o t) : (s \o t)[i] = m})
           = IF m \in ToSet(s) \cup ToSet(t) THEN 1 ELSE 0
<1> DEFINE u == s \o t
           found == {i \in DOMAIN u : u[i] = m}
<1>1. /\ ToSet(s) = {s[i] : i \in 1..Len(s)} /\ ToSet(t) = {t[i] : i \in 1..Len(t)}
      /\ Len(s) \in Nat /\ Len(t) \in Nat
  BY ToSetIs
<1>2. /\ u \in Seq(S) /\ Len(u) = Len(s) + Len(t)
      /\ \A i \in 1..Len(u) : u[i] = IF i <= Len(s) THEN s[i] ELSE t[i - Len(s)]
  BY ConcatProperties
<1>3. DOMAIN u = 1..Len(u)  BY <1>2, LenProperties
<1> HIDE DEF u
<1>4. \A i, j \in 1..Len(u) : u[i] = u[j] => i = j
  <2> SUFFICES ASSUME NEW i \in 1..Len(u), NEW j \in 1..Len(u), u[i] = u[j] PROVE i = j
    OBVIOUS
  <2>1. CASE i <= Len(s) /\ j <= Len(s)
    <3>1. i \in 1..Len(s) /\ j \in 1..Len(s) /\ s[i] = s[j]  BY <1>1, <1>2, <2>1
    <3> QED  BY <3>1 DEF Distinct
  <2>2. CASE i <= Len(s) /\ ~(j <= Len(s))
    <3>1. i \in 1..Len(s) /\ j - Len(s) \in 1..Len(t) /\ s[i] = t[j - Len(s)]
      BY <1>1, <1>2, <2>2
    <3> QED  BY <1>1, <3>1
  <2>3. CASE ~(i <= Len(s)) /\ j <= Len(s)
    <3>1. j \in 1..Len(s) /\ i - Len(s) \in 1..Len(t) /\ s[j] = t[i - Len(s)]
      BY <1>1, <1>2, <2>3
    <3> QED  BY <1>1, <3>1
  <2>4. CASE ~(i <= Len(s)) /\ ~(j <= Len(s))
    <3>1. i - Len(s) \in 1..Len(t) /\ j - Len(s) \in 1..Len(t) /\ t[i - Len(s)] = t[j - Len(s)]
      BY <1>1, <1>2, <2>4
    <3>2. i - Len(s) = j - Len(s)  BY <3>1 DEF Distinct
    <3> QED  BY <1>1, <1>2, <3>2
  <2> QED  BY <2>1, <2>2, <2>3, <2>4
<1>5. \A i, j \in found : i = j  BY <1>3, <1>4
<1>6. (\E i \in 1..Len(u) : u[i] = m) <=> m \in ToSet(s) \cup ToSet(t)
  <2>1. ASSUME NEW i \in 1..Len(u), u[i] = m PROVE m \in ToSet(s) \cup ToSet(t)
    <3>1. CASE i <= Len(s)
      <4>1. i \in 1..Len(s) /\ s[i] = m  BY <1>1, <1>2, <2>1, <3>1
      <4> QED  BY <1>1, <4>1
    <3>2. CASE ~(i <= Len(s))
      <4>1. i - Len(s) \in 1..Len(t) /\ t[i - Len(s)] = m  BY <1>1, <1>2, <2>1, <3>2
      <4> QED  BY <1>1, <4>1
    <3> QED  BY <3>1, <3>2
  <2>2. ASSUME NEW k \in 1..Len(s), s[k] = m PROVE \E i \in 1..Len(u) : u[i] = m
    <3>1. k \in 1..Len(u) /\ u[k] = m  BY <1>1, <1>2, <2>2
    <3> QED  BY <3>1
  <2>3. ASSUME NEW k \in 1..Len(t), t[k] = m PROVE \E i \in 1..Len(u) : u[i] = m
    <3>1. k + Len(s) \in 1..Len(u) /\ ~(k + Len(s) <= Len(s)) /\ (k + Len(s)) - Len(s) = k
      BY <1>1, <1>2
    <3>2. u[k + Len(s)] = m  BY <1>2, <2>3, <3>1
    <3> QED  BY <3>1, <3>2
  <2> QED  BY <1>1, <2>1, <2>2, <2>3
<1>7. CASE m \in ToSet(s) \cup ToSet(t)
  <2>1. PICK i \in 1..Len(u) : u[i] = m  BY <1>6, <1>7
  <2>2. i \in found  BY <1>3, <2>1
  <2>3. found = {i}  BY <1>5, <2>2
  <2>4. Cardinality(found) = 1  BY <2>3, FS_Singleton
  <2> QED  BY <1>7, <2>4 DEF u
<1>8. CASE m \notin ToSet(s) \cup ToSet(t)
  <2>1. found = {}  BY <1>3, <1>6, <1>8
  <2>2. Cardinality(found) = 0  BY <2>1, FS_EmptySet
  <2> QED  BY <1>8, <2>2 DEF u
<1> QED  BY <1>7, <1>8

LEMMA OnePlaceGives == QueueInv /\ ReleasersOK => NoneLost
<1> SUFFICES ASSUME QueueInv, ReleasersOK,
                    NEW x \in Requests \cup Releasers, pc[x] \in {"prior", "main"}
             PROVE  LET m == IF x \in Releasers THEN x ELSE <<x, pc[x]>>
                        places == later \o chan \o group
                    IN Cardinality({i \in DOMAIN places : places[i] = m})
                         = (IF m \in Jobs /\ reply[m] # "none" THEN 0 ELSE 1)
  BY DEF NoneLost
<1> USE DEF QueueInv
<1> DEFINE m == IF x \in Releasers THEN x ELSE <<x, pc[x]>>
<1>1. m \in Messages /\ (m \in Pending <=> ~(m \in Jobs /\ reply[m] # "none"))
  <2>1. CASE x \in Releasers
    <3>1. m = x /\ m \notin Jobs /\ m \in Messages /\ pc[x] = "main"
      BY <2>1, MessagesAre DEF Messages, ReleasersOK
    <3> QED  BY <2>1, <3>1 DEF Pending, Current
  <2>2. CASE x \notin Releasers
    <3>1. m = <<x, pc[x]>> /\ m \in Jobs /\ m[1] = x /\ m[2] = pc[x]  BY <2>2 DEF Jobs
    <3> HIDE DEF m
    <3>2. m \in Messages /\ m \notin Releasers  BY <3>1, MessagesAre DEF Messages
    <3> QED  BY <3>1, <3>2 DEF Pending, Current
  <2> QED  BY <2>1, <2>2
<1>2. /\ Waiting \in Seq(Messages) /\ group \in Seq(Messages)
      /\ Distinct(Waiting) /\ Distinct(group)
      /\ ToSet(Waiting) \cap ToSet(group) = {} /\ ToSet(Waiting) \cup ToSet(group) = Pending
  <2>1. Jobs \subseteq Messages  BY DEF Messages
  <2>2. group \in Seq(Messages)  BY <2>1, SeqMonotonic DEF QueueTyped
  <2> QED  BY <2>2, OldestIs DEF QueueTyped, Waiting, InOnePlace, Placed
<1> HIDE DEF m
<1>3. Cardinality({i \in DOMAIN (Waiting \o group) : (Waiting \o group)[i] = m})
        = IF m \in Pending THEN 1 ELSE 0
  BY <1>2, FoundOnce
<1> QED  BY <1>1, <1>3, Zenon DEF m, Waiting

(* What is followed is in order.                                           *)
LEMMA FollowingIs ==
  ASSUME NEW s \in Seq(Messages), NEW t, Distinct(s), Distinct(t), Follows(t, s),
         NEW m, NEW n, Before(s, m, n)
  PROVE  ~Before(t, n, m)
<1> SUFFICES ASSUME NEW a \in 1..Len(t), NEW b \in 1..Len(t), a < b, t[a] = n, t[b] = m
             PROVE  FALSE
  BY DEF Before
<1>1. PICK x \in 1..Len(s), y \in 1..Len(s) : x < y /\ s[x] = m /\ s[y] = n  BY DEF Before
<1>2. m \in ToSet(s) /\ Len(s) \in Nat  BY <1>1, ToSetIs
<1>3. PICK c \in 1..Len(s), d \in 1..Len(s) : c < d /\ t[a] = s[c] /\ t[b] = s[d]
  BY <1>2 DEF Follows
<1>4. c = y /\ d = x  BY <1>1, <1>3 DEF Distinct
<1> QED  BY <1>1, <1>2, <1>3, <1>4


-----------------------------------------------------------------------------
(* What no request, release or panic does to the queue. *)

(* On every run: of what somebody waits for, exactly one message waits,    *)
(* is evaluated or has its answer sent, whatever the worker drains, puts   *)
(* back, fails together or panics over (NoneLost).                         *)
THEOREM NoneIsLost == Spec => []NoneLost
<1>1. Init => QueueInv /\ ReleasersOK
  BY QueueInit DEF Init, ReleasersOK
<1>2. QueueInv /\ ReleasersOK /\ [Next]_vars => (QueueInv /\ ReleasersOK)'
  BY QueueStep, ReleasersStep
<1>3. QueueInv /\ ReleasersOK => NoneLost  BY OnePlaceGives
<1> QED  BY <1>1, <1>2, <1>3, PTL DEF Spec

(* On every run: of two waiting messages the younger never comes before    *)
(* the older, for what the worker puts back keeps its place (KeepsOrder).  *)
THEOREM OrderIsKept == Spec => KeepsOrder
<1>1. ASSUME QueueInv, [Next]_vars, NEW m \in Messages, NEW n \in Messages,
             Before(later \o chan, m, n)
      PROVE  ~Before(later' \o chan', n, m)
  <2>1. QueueInv' /\ Follows(Waiting', Waiting)  BY <1>1, QueueStep
  <2>2. Waiting \in Seq(Messages) /\ Distinct(Waiting) /\ Distinct(Waiting')
    BY <1>1, <2>1, OldestIs DEF QueueInv, QueueTyped, InOnePlace, Placed, Waiting
  <2>3. Before(Waiting, m, n)  BY <1>1 DEF Waiting
  <2>4. ~Before(Waiting', n, m)  BY <2>1, <2>2, <2>3, FollowingIs
  <2> QED  BY <2>4 DEF Waiting
<1>2. QueueInv /\ [Next]_vars =>
        \A m, n \in Messages :
          Before(later \o chan, m, n) => ~Before(later' \o chan', n, m)
  BY <1>1
<1> QED  BY <1>2, QueueInit, QueueStep, PTL DEF Spec, KeepsOrder


-----------------------------------------------------------------------------
(* What the sequences hold. *)

Clean(h, from) == \A s \in from..MaxSeq : h[s] = {}

HeldTyped ==
  /\ ctx \in 0..MaxSeq
  /\ prefix \in Shared \cup {NoState}
  /\ held \in [0..MaxSeq -> SUBSET Segments]
  /\ wrong \subseteq Jobs /\ spoiled \in BOOLEAN

(* A kept state is on sequence 0, and alone there unless a question has    *)
(* failed half-way.                                                        *)
KeptOK ==
  prefix # NoState =>
    /\ ctx > 0 /\ held[0] = Whole(prefix)
    /\ ~spoiled => Clean(held, 1)

(* What the sequences hold at each stage at which questions are asked.     *)
StagesOK ==
  /\ stage = "alone" => prefix = NoState
  /\ stage = "read" =>
       /\ ctx > 0 /\ prefix = NoState /\ Clean(held, 1)
       /\ \E n \in 0..(Calls - 1) : held[0] = {StateOf(job)} \X (1..n)
  /\ stage = "ask" => prefix = StateOf(job)
  /\ stage = "rounds" =>
       /\ prefix = NoState /\ Clean(held, Len(group))
       /\ \A x \in 1..Len(group) : held[x - 1] = Whole(StateOf(group[x]))

HeldInv == HeldTyped /\ KeptOK /\ StagesOK /\ OwnUntilFailed

LEMMA Sizes ==
  /\ MaxSeq \in Nat /\ MaxTogether \in Nat \ {0} /\ Round \in Nat \ {0} /\ Calls \in Nat \ {0}
  /\ MaxSeq = MaxTogether + Round
  BY DecisionsAssumption DEF MaxSeq

LEMMA EmptyIs ==
  Empty \in [0..MaxSeq -> SUBSET Segments] /\ \A s \in 0..MaxSeq : Empty[s] = {}
  BY DEF Empty

LEMMA WholeIs ==
  ASSUME asked \in Workloads, NEW j \in Jobs
  PROVE  /\ Whole(StateOf(j)) = {StateOf(j)} \X (1..Calls) /\ Whole(StateOf(j)) \subseteq Segments
         /\ \A k \in 1..Calls : <<StateOf(j), k>> \in Segments
<1>1. StateOf(j) \in Shared /\ StateOf(j) # NoState  BY AskedIs
<1> QED  BY <1>1 DEF Whole, Segments

(* The job evaluated alone is the one whose questions are left.            *)
LEMMA JobIs ==
  ASSUME QueueInv, stage \in Single
  PROVE  job \in Jobs /\ job \in ToSet(group) /\ \A a \in left : a[1] = job
<1>1. group \in Seq(Jobs) /\ Len(group) = 1 /\ \A a \in left : a[1] \in ToSet(group)
  BY DEF QueueInv, QueueTyped, StageOK
<1>2. ToSet(group) = {group[i] : i \in 1..Len(group)} /\ ToSet(group) \subseteq Jobs
  BY <1>1, ToSetIs
<1>3. ToSet(group) = {group[1]}  BY <1>1, <1>2
<1> QED  BY <1>1, <1>2, <1>3 DEF job

(* A worker with no context, or an idle one, takes nothing to be there.    *)
LEMMA ClearedHeld ==
  ASSUME HeldInv, ctx' \in 0..MaxSeq, prefix' = NoState, held' = Empty,
         stage' \notin {"read", "ask", "rounds"}, UNCHANGED <<wrong, spoiled>>
  PROVE  HeldInv'
<1>1. HeldTyped'  BY EmptyIs DEF HeldInv, HeldTyped
<1>2. KeptOK'  BY DEF KeptOK
<1>3. StagesOK'  BY DEF StagesOK
<1> QED  BY <1>1, <1>2, <1>3 DEF HeldInv, OwnUntilFailed

LEMMA IdleHeld ==
  ASSUME HeldInv, UNCHANGED <<cache, wrong, spoiled>>,
         stage' \in {"idle", "evaluate", "together"}
  PROVE  HeldInv'
<1>1. HeldTyped' /\ KeptOK'  BY DEF HeldInv, HeldTyped, KeptOK, cache, Clean
<1>2. StagesOK'  BY DEF StagesOK
<1> QED  BY <1>1, <1>2 DEF HeldInv, OwnUntilFailed

LEMMA SameHeld ==
  ASSUME HeldInv, UNCHANGED <<cache, wrong, spoiled, asked, group, stage>>
  PROVE  HeldInv'
<1>1. HeldTyped' /\ KeptOK'  BY DEF HeldInv, HeldTyped, KeptOK, cache, Clean
<1>2. \A j : StateOf(j)' = StateOf(j)  BY DEF StateOf
<1>3. job' = job  BY DEF job
<1>4. StagesOK'  BY <1>2, <1>3 DEF HeldInv, StagesOK, cache, Clean
<1> QED  BY <1>1, <1>4 DEF HeldInv, OwnUntilFailed

LEMMA ClientsHeld ==
  ASSUME HeldInv,
         \/ \E r \in Requests : Start(r) \/ Receive(r) \/ Abandon(r)
         \/ \E m \in Releasers : AskRelease(m)
  PROVE  HeldInv'
  BY SameHeld DEF Start, Receive, Abandon, AskRelease

LEMMA TakeHeld == ASSUME HeldInv, TakeGroup \/ TakeOne \/ TakeRelease PROVE HeldInv'
<1>1. CASE TakeGroup \/ TakeOne
  <2>1. stage' \in {"evaluate", "together"} /\ UNCHANGED <<cache, wrong, spoiled>>
    BY <1>1 DEF TakeGroup, TakeOne, Begin
  <2> QED  BY <2>1, IdleHeld
<1>2. CASE TakeRelease
  <2>1. /\ stage = "idle" /\ ctx' = 0 /\ prefix' = NoState /\ held' = Empty
        /\ UNCHANGED <<stage, wrong, spoiled>>
    BY <1>2 DEF TakeRelease, Pop
  <2>2. 0 \in 0..MaxSeq  BY Sizes
  <2> QED  BY <2>1, <2>2, ClearedHeld
<1> QED  BY <1>1, <1>2

LEMMA EvaluateHeld == ASSUME QueueInv, HeldInv, Evaluate PROVE HeldInv'
<1> DEFINE s == StateOf(job)
           one == Cardinality(Left(job)) = 1
           alone == Mode(job) = "separate" \/ (Mode(job) = "batched" /\ one)
           n == IF alone THEN 1 ELSE IF Mode(job) = "shared" THEN 2
                ELSE 1 + (IF Cardinality(Left(job)) < Round THEN Cardinality(Left(job)) ELSE Round)
           kept == Keeps(n) /\ prefix = s
<1>1. /\ stage = "evaluate" /\ UNCHANGED <<asked, wrong, spoiled>>
      /\ \/ AnswerAll("cancelled") /\ UNCHANGED cache
         \/ AnswerAll("failed") /\ UNCHANGED cache
         \/ AnswerAll("failed") /\ ctx' = 0 /\ prefix' = NoState /\ held' = Empty
         \/ /\ IF Keeps(n) THEN prefix' = NoState /\ UNCHANGED <<ctx, held>> ELSE Cleared(n)
            /\ stage' = "alone"
         \/ kept /\ stage' = "ask" /\ UNCHANGED <<group, cache>>
         \/ Cleared(n) /\ stage' \in {"alone", "read"} /\ UNCHANGED group
  BY DEF Evaluate, Others, client
<1>2. job \in Jobs /\ asked \in Workloads
  BY <1>1, JobIs DEF Single, QueueInv, QueueTyped
<1>3. n \in 1..MaxSeq
  <2>1. Left(job) \subseteq Questions /\ IsFiniteSet(Questions)
    BY DecisionsAssumption DEF Left
  <2>2. Cardinality(Left(job)) \in Nat  BY <2>1, FS_Subset, FS_CardinalityType
  <2> QED  BY <2>2, Sizes
<1>4. ctx \in 0..MaxSeq /\ 0 \in 0..MaxSeq  BY Sizes DEF HeldInv, HeldTyped
<1> HIDE DEF n
<1>5. Cleared(n) => /\ ctx' \in 1..MaxSeq /\ ctx' > 0 /\ ctx' \in 0..MaxSeq
                    /\ prefix' = NoState /\ held' = Empty
  BY <1>3, <1>4, Sizes DEF Cleared, Keeps
<1>6. CASE (AnswerAll("cancelled") \/ AnswerAll("failed")) /\ UNCHANGED cache
  <2>1. stage' = "idle"  BY <1>6 DEF AnswerAll, Answer
  <2> QED  BY <1>1, <1>6, <2>1, IdleHeld
<1>7. CASE AnswerAll("failed") /\ ctx' = 0 /\ prefix' = NoState /\ held' = Empty
  <2>1. stage' = "idle"  BY <1>7 DEF AnswerAll, Answer
  <2> QED  BY <1>1, <1>4, <1>7, <2>1, ClearedHeld
<1>8. CASE /\ IF Keeps(n) THEN prefix' = NoState /\ UNCHANGED <<ctx, held>> ELSE Cleared(n)
           /\ stage' = "alone"
  <2>1. CASE Cleared(n)  BY <1>1, <1>5, <1>8, <2>1, ClearedHeld
  <2>2. CASE prefix' = NoState /\ UNCHANGED <<ctx, held>>
    <3>1. HeldTyped'  BY <1>1, <2>2 DEF HeldInv, HeldTyped
    <3>2. KeptOK' /\ StagesOK'  BY <1>8, <2>2 DEF KeptOK, StagesOK
    <3> QED  BY <1>1, <3>1, <3>2 DEF HeldInv, OwnUntilFailed
  <2> QED  BY <1>8, <2>1, <2>2
<1>9. CASE kept /\ stage' = "ask" /\ UNCHANGED <<group, cache>>
  <2>1. HeldTyped' /\ KeptOK'  BY <1>1, <1>9 DEF HeldInv, HeldTyped, KeptOK, cache, Clean
  <2>2. prefix' = StateOf(job)'  BY <1>1, <1>9 DEF cache, StateOf, job
  <2>3. StagesOK'  BY <1>9, <2>2 DEF StagesOK
  <2> QED  BY <1>1, <2>1, <2>3 DEF HeldInv, OwnUntilFailed
<1>10. CASE Cleared(n) /\ stage' \in {"alone", "read"} /\ UNCHANGED group
  <2>1. CASE stage' = "alone"  BY <1>1, <1>5, <1>10, <2>1, ClearedHeld
  <2>2. CASE stage' = "read"
    <3>1. HeldTyped'  BY <1>1, <1>5, <1>10, EmptyIs DEF HeldInv, HeldTyped
    <3>2. KeptOK'  BY <1>5, <1>10 DEF KeptOK
    <3>3. Clean(held', 1) /\ held'[0] = {}  BY <1>5, <1>10, EmptyIs, Sizes DEF Clean
    <3>4. 0 \in 0..(Calls - 1) /\ 1..0 = {}  BY Sizes
    <3>5. \E k \in 0..(Calls - 1) : held'[0] = {StateOf(job)'} \X (1..k)
      BY <3>3, <3>4
    <3>6. StagesOK'  BY <1>5, <1>10, <2>2, <3>3, <3>5 DEF StagesOK, Clean
    <3> QED  BY <1>1, <3>1, <3>2, <3>6 DEF HeldInv, OwnUntilFailed
  <2> QED  BY <1>10, <2>1, <2>2
<1> QED  BY <1>1, <1>6, <1>7, <1>8, <1>9, <1>10


LEMMA ReadStateHeld == ASSUME QueueInv, HeldInv, ReadState PROVE HeldInv'
<1> DEFINE s == StateOf(job)
           n == Cardinality(held[0])
           more == [held EXCEPT ![0] = @ \cup {<<s, n + 1>>}]
<1>1. /\ stage = "read" /\ UNCHANGED <<asked, ctx, wrong, spoiled>>
      /\ \/ AnswerAll("cancelled") /\ UNCHANGED <<prefix, held>>
         \/ AnswerAll("failed") /\ UNCHANGED prefix /\ held' \in {held, more}
         \/ /\ held' = more /\ UNCHANGED group
            /\ IF n + 1 = Calls THEN prefix' = s /\ stage' = "ask" ELSE UNCHANGED <<prefix, stage>>
  BY DEF ReadState, Others, client, cache
<1>2. job \in Jobs /\ asked \in Workloads
  BY <1>1, JobIs DEF Single, QueueInv, QueueTyped
<1>3. /\ ctx > 0 /\ prefix = NoState /\ Clean(held, 1) /\ 0 \in 0..MaxSeq
      /\ held \in [0..MaxSeq -> SUBSET Segments]
  BY <1>1, Sizes DEF HeldInv, StagesOK, HeldTyped
<1>4. PICK k \in 0..(Calls - 1) : held[0] = {s} \X (1..k)
  BY <1>1 DEF HeldInv, StagesOK
<1>5. n = k
  <2>1. IsFiniteSet(1..k) /\ Cardinality(1..k) = k  BY <1>4, Sizes, FS_Interval
  <2>2. IsFiniteSet({s}) /\ Cardinality({s}) = 1  BY FS_Singleton
  <2>3. Cardinality({s} \X (1..k)) = Cardinality({s}) * Cardinality(1..k)
    BY <2>1, <2>2, FS_Product
  <2>4. Cardinality({s} \X (1..k)) = 1 * k  BY <2>1, <2>2, <2>3, Zenon
  <2>5. 1 * k = k  BY <1>4, Sizes
  <2> QED  BY <1>4, <2>4, <2>5, Zenon
<1>6. n + 1 \in 1..Calls /\ 1..(n + 1) = 1..n \cup {n + 1}  BY <1>4, <1>5, Sizes
<1>7. <<s, n + 1>> \in Segments  BY <1>2, <1>6, WholeIs
<1> HIDE DEF n, s
<1>8. more \in [0..MaxSeq -> SUBSET Segments]  BY <1>3, <1>7
<1>9. more[0] = {s} \X (1..(n + 1)) /\ Clean(more, 1)
  <2>1. held[0] = {s} \X (1..n)  BY <1>4, <1>5
  <2>2. {s} \X (1..(n + 1)) = {s} \X (1..n) \cup {<<s, n + 1>>}  BY <1>6
  <2>3. more[0] = held[0] \cup {<<s, n + 1>>}  BY <1>3
  <2>4. Clean(more, 1)  BY <1>3, Sizes DEF Clean
  <2> QED  BY <2>1, <2>2, <2>3, <2>4
<1>10. (UNCHANGED job /\ s' = s) \/ stage' = "idle"
  BY <1>1 DEF job, StateOf, s, AnswerAll, Answer
<1>11. CASE (AnswerAll("cancelled") \/ AnswerAll("failed")) /\ UNCHANGED prefix
            /\ held' \in {held, more}
  <2>1. stage' = "idle"  BY <1>11 DEF AnswerAll, Answer
  <2>2. HeldTyped'  BY <1>1, <1>3, <1>8, <1>11 DEF HeldInv, HeldTyped
  <2>3. KeptOK' /\ StagesOK'  BY <1>3, <1>11, <2>1 DEF KeptOK, StagesOK
  <2> QED  BY <1>1, <2>2, <2>3 DEF HeldInv, OwnUntilFailed
<1>12. CASE held' = more /\ UNCHANGED group /\ n + 1 = Calls /\ prefix' = s /\ stage' = "ask"
  <2>1. s \in Shared /\ s # NoState /\ Whole(s) = {s} \X (1..Calls)
    BY <1>2, AskedIs, WholeIs DEF s
  <2>2. HeldTyped'  BY <1>1, <1>8, <1>12, <2>1 DEF HeldInv, HeldTyped
  <2>3. KeptOK'  BY <1>1, <1>3, <1>9, <1>12, <2>1 DEF KeptOK, Clean
  <2>4. prefix' = StateOf(job)'  BY <1>10, <1>12 DEF s
  <2>5. StagesOK'  BY <1>12, <2>4 DEF StagesOK
  <2> QED  BY <1>1, <2>2, <2>3, <2>5 DEF HeldInv, OwnUntilFailed
<1>13. CASE held' = more /\ UNCHANGED group /\ n + 1 # Calls /\ UNCHANGED <<prefix, stage>>
  <2>1. HeldTyped'  BY <1>1, <1>8, <1>13 DEF HeldInv, HeldTyped
  <2>2. KeptOK'  BY <1>3, <1>13 DEF KeptOK
  <2>3. n + 1 \in 0..(Calls - 1)  BY <1>6, <1>13, Sizes
  <2>4. StateOf(job)' = s  BY <1>1, <1>10, <1>13 DEF s
  <2>5. StagesOK'  BY <1>1, <1>3, <1>9, <1>13, <2>3, <2>4 DEF StagesOK, Clean
  <2> QED  BY <1>1, <2>1, <2>2, <2>5 DEF HeldInv, OwnUntilFailed
<1> QED  BY <1>1, <1>11, <1>12, <1>13

LEMMA AskAloneHeld == ASSUME QueueInv, HeldInv, AskAlone PROVE HeldInv'
<1>1. PICK a \in NextAsks(1) :
        /\ stage = "alone" /\ UNCHANGED <<asked, ctx, prefix, wrong>>
        /\ \/ AnswerAll("cancelled") /\ UNCHANGED <<held, spoiled>>
           \/ /\ AnswerAll("failed") /\ spoiled' = TRUE
              /\ held' = [Empty EXCEPT ![0] = Whole(StateOf(job)) \cup {a}]
           \/ /\ held' = Empty /\ UNCHANGED spoiled
              /\ \/ \E how \in Finish : AnswerAll(how)
                 \/ UNCHANGED stage
  BY DEF AskAlone, Others, client, cache
<1>2. stage' \in {"alone", "idle"}  BY <1>1 DEF AnswerAll, Answer
<1>3. prefix = NoState  BY <1>1 DEF HeldInv, StagesOK
<1>4. KeptOK' /\ StagesOK'  BY <1>1, <1>2, <1>3 DEF KeptOK, StagesOK
<1>5. HeldTyped'
  <2>1. a \in left /\ left \subseteq Jobs \X Questions
    BY NextAsksAre DEF QueueInv, QueueTyped
  <2>2. a \in Segments  BY <2>1 DEF Segments
  <2>3. Whole(StateOf(job)) \subseteq Segments
    BY <1>1, JobIs, WholeIs DEF Single, QueueInv, QueueTyped
  <2>4. [Empty EXCEPT ![0] = Whole(StateOf(job)) \cup {a}] \in [0..MaxSeq -> SUBSET Segments]
    BY <2>2, <2>3, EmptyIs
  <2>5. held' \in [0..MaxSeq -> SUBSET Segments]
    BY <1>1, <2>4, EmptyIs DEF HeldInv, HeldTyped
  <2> QED  BY <1>1, <2>5 DEF HeldInv, HeldTyped
<1>6. OwnUntilFailed'  BY <1>1 DEF HeldInv, HeldTyped, OwnUntilFailed
<1> QED  BY <1>4, <1>5, <1>6 DEF HeldInv

(* What questions put on numbered sequences.                               *)
LEMMA PutOn ==
  ASSUME QueueInv, HeldInv, NEW asks \in SUBSET left, NEW seqOf \in [asks -> 0..MaxSeq],
         NEW on, \A a \in asks : on[a] \in SUBSET Segments
  PROVE  [s \in 0..MaxSeq |-> held[s] \cup UNION {on[a] : a \in {b \in asks : seqOf[b] = s}}]
           \in [0..MaxSeq -> SUBSET Segments]
  BY DEF HeldInv, HeldTyped

LEMMA AskRoundHeld == ASSUME QueueInv, HeldInv, AskRound PROVE HeldInv'
<1> DEFINE asks == NextAsks(IF Mode(job) = "shared" THEN 1 ELSE Round)
           seqOf == CHOOSE f \in [asks -> 1..Cardinality(asks)] : IsInjective(f)
           on == [a \in asks |-> held[seqOf[a]] \cup held[0] \cup {a}]
           put == [s \in 0..MaxSeq |->
                     held[s] \cup UNION {on[a] : a \in {b \in asks : seqOf[b] = s}}]
           swept == [s \in 0..MaxSeq |-> IF s \in 1..Cardinality(asks) THEN {} ELSE held[s]]
<1>1. /\ stage = "ask" /\ UNCHANGED <<asked, ctx, prefix>>
      /\ \/ AnswerAll("cancelled") /\ UNCHANGED <<held, wrong, spoiled>>
         \/ AnswerAll("failed") /\ held' = put /\ spoiled' = TRUE /\ UNCHANGED wrong
         \/ /\ wrong' = wrong \cup Misread(asks, on) /\ held' = swept /\ UNCHANGED spoiled
            /\ \/ \E how \in Finish : AnswerAll(how)
               \/ UNCHANGED <<stage, group>>
  BY DEF AskRound, Others, client, cache
<1>2. /\ asks \subseteq left /\ IsFiniteSet(asks) /\ Cardinality(asks) \in 0..Round
      /\ Cardinality(asks) \in Nat
  <2> DEFINE n == IF Mode(job) = "shared" THEN 1 ELSE Round
  <2>1. n \in Nat /\ n <= Round  BY Sizes
  <2> HIDE DEF n
  <2>2. /\ NextAsks(n) \subseteq left /\ IsFiniteSet(NextAsks(n))
        /\ Cardinality(NextAsks(n)) \in Nat /\ Cardinality(NextAsks(n)) <= n
    BY <2>1, NextAsksAre DEF QueueInv
  <2> QED  BY <2>1, <2>2, Sizes DEF n
<1> HIDE DEF asks
<1>3. seqOf \in [asks -> 1..Cardinality(asks)]
  <2>1. \E f \in [asks -> 1..Cardinality(asks)] : IsInjective(f)
    <3>1. 1 \in Nat /\ Cardinality(asks) \in Int /\ Cardinality(asks) = 1 + Cardinality(asks) - 1
      BY <1>2
    <3> QED  BY <1>2, <3>1, Numbered
  <2> QED  BY <2>1
<1> HIDE DEF seqOf
<1>4. /\ 1..Cardinality(asks) \subseteq 1..MaxSeq /\ 1..MaxSeq \subseteq 0..MaxSeq
      /\ 0 \in 0..MaxSeq /\ 0 \notin 1..Cardinality(asks)
  BY <1>2, Sizes
<1>5. \A a \in asks : seqOf[a] \in 1..MaxSeq /\ seqOf[a] \in 0..MaxSeq /\ seqOf[a] # 0
  BY <1>3, <1>4
<1>6. \A a \in asks : a \in Segments /\ a[1] = job
  BY <1>1, <1>2, JobIs DEF Single, Segments, QueueInv, QueueTyped
<1>7. held \in [0..MaxSeq -> SUBSET Segments]  BY DEF HeldInv, HeldTyped
<1>8. \A a \in asks : on[a] \in SUBSET Segments  BY <1>4, <1>5, <1>6, <1>7
<1>9. /\ prefix = StateOf(job) /\ prefix # NoState /\ ctx > 0 /\ held[0] = Whole(StateOf(job))
      /\ ~spoiled => Clean(held, 1)
      /\ job \in Jobs
  <2>1. job \in Jobs /\ asked \in Workloads
    BY <1>1, JobIs DEF Single, QueueInv, QueueTyped
  <2>2. prefix = StateOf(job)  BY <1>1 DEF HeldInv, StagesOK
  <2> QED  BY <2>1, <2>2, AskedIs DEF HeldInv, KeptOK
<1>10. ~spoiled => Misread(asks, on) = {}
  <2> SUFFICES ASSUME ~spoiled, NEW a \in asks
               PROVE  on[a] = Whole(StateOf(a[1])) \cup {a}
    BY DEF Misread
  <2>1. held[seqOf[a]] = {}  BY <1>5, <1>9 DEF Clean
  <2> QED  BY <1>6, <1>9, <2>1
<1>11. put \in [0..MaxSeq -> SUBSET Segments] /\ put[0] = held[0]
  <2>1. asks \in SUBSET left /\ seqOf \in [asks -> 0..MaxSeq]  BY <1>2, <1>3, <1>5
  <2> HIDE DEF on
  <2>2. put \in [0..MaxSeq -> SUBSET Segments]  BY <1>8, <2>1, PutOn
  <2>3. {b \in asks : seqOf[b] = 0} = {}  BY <1>5
  <2>4. put[0] = held[0]  BY <1>4, <2>3
  <2> QED  BY <2>2, <2>4
<1>12. swept \in [0..MaxSeq -> SUBSET Segments] /\ swept[0] = held[0]
  BY <1>4, <1>7
<1>13. ~spoiled => Clean(swept, 1)
  BY <1>4, <1>9 DEF Clean
<1>14. Misread(asks, on) \subseteq Jobs
  BY <1>6, <1>9 DEF Misread
<1> HIDE DEF on, put, swept
<1>15. prefix' = StateOf(job)' \/ stage' = "idle"
  BY <1>1, <1>9 DEF StateOf, job, AnswerAll, Answer
<1>16. stage' \in {"ask", "idle"}  BY <1>1 DEF AnswerAll, Answer
<1>17. StagesOK'  BY <1>15, <1>16 DEF StagesOK
<1>18. HeldTyped'  BY <1>1, <1>11, <1>12, <1>14 DEF HeldInv, HeldTyped
<1>19. KeptOK'
  <2>1. held'[0] = held[0]  BY <1>1, <1>11, <1>12
  <2>2. ~spoiled' => \A s \in 1..MaxSeq : held'[s] = {}
    <3>1. CASE held' = held /\ UNCHANGED spoiled  BY <1>9, <3>1 DEF Clean
    <3>2. CASE spoiled' = TRUE  BY <3>2
    <3>3. CASE held' = swept /\ UNCHANGED spoiled  BY <1>13, <3>3 DEF Clean
    <3> QED  BY <1>1, <3>1, <3>2, <3>3
  <2> QED  BY <1>1, <1>9, <2>1, <2>2 DEF KeptOK, Clean
<1>20. OwnUntilFailed'
  BY <1>1, <1>10 DEF HeldInv, HeldTyped, OwnUntilFailed
<1> QED  BY <1>17, <1>18, <1>19, <1>20 DEF HeldInv


LEMMA ReadStatesHeld == ASSUME QueueInv, HeldInv, ReadStates PROVE HeldInv'
<1> DEFINE n == Len(group) + Round
           states == [s \in 0..MaxSeq |->
                        IF s < Len(group) THEN Whole(StateOf(group[s + 1])) ELSE {}]
<1>1. /\ stage = "together" /\ UNCHANGED <<asked, wrong, spoiled>>
      /\ \/ AnswerAll("failed") /\ ctx' = 0 /\ prefix' = NoState /\ held' = Empty
         \/ /\ ctx' = (IF Keeps(n) THEN ctx ELSE n) /\ prefix' = NoState /\ held' = states
            /\ \/ AnswerAll("failed")
               \/ stage' = "rounds" /\ UNCHANGED group
  BY DEF ReadStates, Others, client
<1>2. /\ group \in Seq(Jobs) /\ Len(group) \in Nat /\ Len(group) <= MaxTogether
      /\ asked \in Workloads
  BY LenProperties DEF QueueInv, QueueTyped
<1>3. n \in 0..MaxSeq /\ 0 \in 0..MaxSeq /\ ctx \in 0..MaxSeq
  BY <1>2, Sizes DEF HeldInv, HeldTyped
<1>4. \A x \in 1..Len(group) : /\ group[x] \in Jobs /\ x - 1 \in 0..MaxSeq
                               /\ x - 1 < Len(group) /\ (x - 1) + 1 = x
  BY <1>2, ElementOfSeq, Sizes
<1>5. \A s \in 0..MaxSeq : s < Len(group) => Whole(StateOf(group[s + 1])) \subseteq Segments
  <2> SUFFICES ASSUME NEW s \in 0..MaxSeq, s < Len(group)
               PROVE  Whole(StateOf(group[s + 1])) \subseteq Segments
    OBVIOUS
  <2>1. s + 1 \in 1..Len(group)  BY <1>2, Sizes
  <2> QED  BY <1>2, <1>4, <2>1, WholeIs
<1>6. states \in [0..MaxSeq -> SUBSET Segments]  BY <1>5
<1>7. \A s \in Len(group)..MaxSeq : states[s] = {}  BY <1>2, Sizes
<1>8. \A x \in 1..Len(group) : states[x - 1] = Whole(StateOf(group[x]))  BY <1>4
<1> HIDE DEF n, states
<1>9. CASE AnswerAll("failed") /\ ctx' = 0 /\ prefix' = NoState /\ held' = Empty
  <2>1. stage' = "idle"  BY <1>9 DEF AnswerAll, Answer
  <2> QED  BY <1>1, <1>3, <1>9, <2>1, ClearedHeld
<1>10. CASE /\ ctx' = (IF Keeps(n) THEN ctx ELSE n) /\ prefix' = NoState /\ held' = states
            /\ AnswerAll("failed") \/ (stage' = "rounds" /\ UNCHANGED group)
  <2>1. HeldTyped'  BY <1>1, <1>3, <1>6, <1>10 DEF HeldInv, HeldTyped
  <2>2. KeptOK'  BY <1>10 DEF KeptOK
  <2>3. CASE AnswerAll("failed")
    <3>1. StagesOK'  BY <2>3 DEF StagesOK, AnswerAll, Answer
    <3> QED  BY <1>1, <2>1, <2>2, <3>1 DEF HeldInv, OwnUntilFailed
  <2>4. CASE stage' = "rounds" /\ UNCHANGED group
    <3>1. \A x \in 1..Len(group) : held'[x - 1] = Whole(StateOf(group[x])')
      BY <1>1, <1>8, <1>10, <2>4 DEF StateOf
    <3>2. StagesOK'  BY <1>7, <1>10, <2>4, <3>1 DEF StagesOK, Clean, StateOf
    <3> QED  BY <1>1, <2>1, <2>2, <3>2 DEF HeldInv, OwnUntilFailed
  <2> QED  BY <1>10, <2>3, <2>4
<1> QED  BY <1>1, <1>9, <1>10

LEMMA AskTogetherHeld == ASSUME QueueInv, HeldInv, AskTogether PROVE HeldInv'
<1> DEFINE asks == NextAsks(Round)
           gone == dropped \cup {j \in ToSet(group) : j[1] \in cancel}
           live == {a \in asks : a[1] \notin gone}
           of(j) == (CHOOSE x \in 1..Len(group) : group[x] = j) - 1
           seqOf == CHOOSE f \in [live -> Len(group)..(Len(group) + Cardinality(live) - 1)] :
                      IsInjective(f)
           on == [a \in live |-> held[seqOf[a]] \cup held[of(a[1])] \cup {a}]
           put == [s \in 0..MaxSeq |->
                     held[s] \cup UNION {on[a] : a \in {b \in live : seqOf[b] = s}}]
           told(how) == [j \in Jobs |-> IF j \in DOMAIN how THEN how[j] ELSE "cancelled"]
<1>1. /\ stage = "rounds" /\ UNCHANGED <<asked, ctx, prefix>>
      /\ \/ AnswerAll("failed") /\ held' = put /\ spoiled' = TRUE /\ UNCHANGED wrong
         \/ /\ wrong' = wrong \cup Misread(live, on) /\ UNCHANGED spoiled
            /\ \/ held' = Empty /\ \E how \in [ToSet(group) \ gone -> Finish] : Answer(told(how))
               \/ UNCHANGED <<held, group, stage>>
  BY DEF AskTogether, Others, client, cache
<1>2. /\ group \in Seq(Jobs) /\ Len(group) \in Nat /\ Len(group) <= MaxTogether
      /\ asked \in Workloads /\ left \subseteq Jobs \X Questions
      /\ \A a \in left : a[1] \in ToSet(group)
      /\ ToSet(group) = {group[i] : i \in 1..Len(group)}
  BY LenProperties, ToSetIs DEF QueueInv, QueueTyped, StageOK
<1>3. /\ prefix = NoState /\ Clean(held, Len(group))
      /\ \A x \in 1..Len(group) : held[x - 1] = Whole(StateOf(group[x]))
      /\ held \in [0..MaxSeq -> SUBSET Segments]
  BY <1>1 DEF HeldInv, StagesOK, HeldTyped
<1>4. /\ live \subseteq left /\ IsFiniteSet(live) /\ Cardinality(live) \in Nat
      /\ Cardinality(live) <= Round
  <2>1. /\ asks \subseteq left /\ IsFiniteSet(asks) /\ Cardinality(asks) \in Nat
        /\ Cardinality(asks) <= Round
    BY Sizes, NextAsksAre DEF QueueInv
  <2>2. live \subseteq asks  OBVIOUS
  <2> HIDE DEF live, asks
  <2>3. IsFiniteSet(live) /\ Cardinality(live) <= Cardinality(asks) /\ Cardinality(live) \in Nat
    BY <2>1, <2>2, FS_Subset, FS_CardinalityType
  <2> QED  BY <2>1, <2>2, <2>3, Sizes
<1> HIDE DEF live, asks, gone
<1> DEFINE high == Len(group) + Cardinality(live) - 1
<1>5. seqOf \in [live -> Len(group)..high]
  <2>1. high \in Int  BY <1>2, <1>4
  <2>2. \E f \in [live -> Len(group)..high] : IsInjective(f)
    BY <1>2, <1>4, <2>1, Numbered
  <2> QED  BY <2>2
<1> HIDE DEF seqOf
<1>6. Len(group)..high \subseteq Len(group)..MaxSeq /\ Len(group)..MaxSeq \subseteq 0..MaxSeq
  BY <1>2, <1>4, Sizes
<1> HIDE DEF high
<1>7. \A a \in live : seqOf[a] \in Len(group)..MaxSeq /\ seqOf[a] \in 0..MaxSeq
  BY <1>5, <1>6
<1>8. \A a \in live : held[seqOf[a]] = {}  BY <1>3, <1>7 DEF Clean
<1>9. \A a \in live : /\ a \in Segments /\ a[1] \in Jobs
                      /\ held[of(a[1])] = Whole(StateOf(a[1]))
                      /\ Whole(StateOf(a[1])) \subseteq Segments
  <2> SUFFICES ASSUME NEW a \in live
               PROVE  /\ a \in Segments /\ a[1] \in Jobs
                      /\ held[of(a[1])] = Whole(StateOf(a[1]))
                      /\ Whole(StateOf(a[1])) \subseteq Segments
    OBVIOUS
  <2>1. a \in Segments /\ a[1] \in Jobs /\ a[1] \in ToSet(group)
    BY <1>2, <1>4 DEF Segments
  <2> DEFINE x == CHOOSE i \in 1..Len(group) : group[i] = a[1]
  <2>2. x \in 1..Len(group) /\ group[x] = a[1]  BY <1>2, <2>1
  <2>3. of(a[1]) = x - 1  OBVIOUS
  <2> HIDE DEF x, of
  <2>4. held[of(a[1])] = Whole(StateOf(a[1]))  BY <1>3, <2>2, <2>3
  <2> QED  BY <1>2, <2>1, <2>4, WholeIs
<1> HIDE DEF of
<1>10. \A a \in live : on[a] = Whole(StateOf(a[1])) \cup {a} /\ on[a] \in SUBSET Segments
  BY <1>8, <1>9
<1> HIDE DEF on
<1>11. Misread(live, on) = {}  BY <1>10 DEF Misread
<1>12. put \in [0..MaxSeq -> SUBSET Segments]
  <2>1. live \in SUBSET left /\ seqOf \in [live -> 0..MaxSeq]  BY <1>4, <1>5, <1>7
  <2>2. \A a \in live : on[a] \in SUBSET Segments  BY <1>10
  <2> QED  BY <2>1, <2>2, PutOn
<1> HIDE DEF put, told
<1>13. HeldTyped'
  <2>1. held' \in [0..MaxSeq -> SUBSET Segments]  BY <1>1, <1>3, <1>12, EmptyIs
  <2> QED  BY <1>1, <1>11, <2>1 DEF HeldInv, HeldTyped
<1>14. KeptOK'  BY <1>1, <1>3 DEF KeptOK
<1>15. OwnUntilFailed'  BY <1>1, <1>11 DEF HeldInv, HeldTyped, OwnUntilFailed
<1>16. StagesOK'
  <2>1. CASE stage' = "idle"  BY <2>1 DEF StagesOK
  <2>2. CASE UNCHANGED <<held, group, stage>>
    <3>1. \A j : StateOf(j)' = StateOf(j)  BY <1>1 DEF StateOf
    <3> QED  BY <1>1, <1>3, <2>2, <3>1 DEF StagesOK, Clean
  <2>3. stage' = "idle" \/ UNCHANGED <<held, group, stage>>
    BY <1>1 DEF AnswerAll, Answer
  <2> QED  BY <2>1, <2>2, <2>3
<1> QED  BY <1>13, <1>14, <1>15, <1>16 DEF HeldInv

LEMMA HeldInit == Init => HeldInv
<1> SUFFICES ASSUME Init PROVE HeldInv  OBVIOUS
<1>1. /\ ctx = 0 /\ prefix = NoState /\ held = Empty /\ stage = "idle"
      /\ wrong = {} /\ spoiled = FALSE
  BY DEF Init
<1>2. 0 \in 0..MaxSeq  BY Sizes
<1>3. HeldTyped  BY <1>1, <1>2, EmptyIs DEF HeldTyped
<1> QED  BY <1>1, <1>3 DEF HeldInv, KeptOK, StagesOK, OwnUntilFailed

LEMMA HeldStep == QueueInv /\ HeldInv /\ [Next]_vars => HeldInv'
<1> SUFFICES ASSUME QueueInv, HeldInv, [Next]_vars PROVE HeldInv'  OBVIOUS
<1>1. CASE Panic
  <2>1. /\ stage' = "idle" /\ ctx' = 0 /\ prefix' = NoState /\ held' = Empty
        /\ UNCHANGED <<wrong, spoiled>>
    BY <1>1 DEF Panic, AnswerAll, Answer
  <2>2. 0 \in 0..MaxSeq  BY Sizes
  <2> QED  BY <2>1, <2>2, ClearedHeld
<1>2. CASE Worker
  BY <1>1, <1>2, TakeHeld, EvaluateHeld, ReadStateHeld, AskAloneHeld, AskRoundHeld,
     ReadStatesHeld, AskTogetherHeld
  DEF Worker
<1>3. CASE UNCHANGED vars  BY <1>3, SameHeld DEF vars, client
<1> QED  BY <1>2, <1>3, ClientsHeld DEF Next

(* Every variable holds what the code can put in it.                       *)
THEOREM DecisionsTypeCorrect == Spec => []TypeOK
<1>1. Init => QueueInv /\ HeldInv  BY QueueInit, HeldInit
<1>2. QueueInv /\ HeldInv /\ [Next]_vars => (QueueInv /\ HeldInv)'  BY QueueStep, HeldStep
<1>3. QueueInv /\ HeldInv => TypeOK
  BY DEF QueueInv, QueueTyped, HeldInv, HeldTyped, TypeOK, Outcomes, Stages
<1> QED  BY <1>1, <1>2, <1>3, PTL DEF Spec

(* On every run: between jobs sequence 0 holds exactly the state the       *)
(* worker takes it to hold, whatever was abandoned, failed, panicked or    *)
(* released before; and until a question has failed half-way every one is  *)
(* asked on a sequence with its state and nothing else                     *)
(* (SequencesHoldTheirs).                                                  *)
THEOREM SequencesAreTheirs == Spec => []SequencesHoldTheirs
<1>1. Init => QueueInv /\ HeldInv  BY QueueInit, HeldInit
<1>2. QueueInv /\ HeldInv /\ [Next]_vars => (QueueInv /\ HeldInv)'  BY QueueStep, HeldStep
<1>3. QueueInv /\ HeldInv => SequencesHoldTheirs
  BY DEF HeldInv, KeptOK, SequencesHoldTheirs, KeptIsHeld
<1> QED  BY <1>1, <1>2, <1>3, PTL DEF Spec
=============================================================================
