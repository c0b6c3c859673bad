------------------------------ MODULE Decisions ------------------------------
(***************************************************************************)
(* Decision requests (inference/decision.rs) and the worker thread that    *)
(* evaluates them (inference/decision/engine.rs).                          *)
(*                                                                         *)
(* A request holds eval_lock, unless it is batched, and sends the worker   *)
(* one job or two: the priors of a content-free state, if it wants them    *)
(* and they are not known, and its questions about its state.  The worker  *)
(* answers jobs one at a time, batched ones that wait together in shared   *)
(* calls, in a context it keeps from one job to the next.                  *)
(*                                                                         *)
(* What is abstracted.  A context is as many sequences as it was made for; *)
(* its cells and outputs grow as its sequences do.  What a sequence holds  *)
(* is a set of segments: the calls a state is decoded in, and questions.   *)
(* What llama.cpp makes of a question whose sequence holds more than its   *)
(* state, an answer or a refusal, is its own: the model notes that one was *)
(* asked so.                                                               *)
(***************************************************************************)
EXTENDS Naturals, Sequences, FiniteSets, SequencesExt

CONSTANTS
  Requests,
  Releasers,    (* calls of release_context                                *)
  Questions,    (* numbers: the shorter a question, the smaller            *)
  States,
  ContentFree,  (* the state priors are measured on                        *)
  NoState,      (* nothing shared                                          *)
  Aligned,      (* states that end where a micro-batch does                *)
  Workloads,    (* what the requests may ask, one of these                 *)
  MaxTogether,  (* MAX_TOGETHER                                            *)
  MaxCells,     (* max_ctx                                                 *)
  Round,        (* Protocol::group, questions of one round                 *)
  Calls,        (* calls a state is decoded in                             *)
  MaxPriors,    (* MAX_PRIOR_CACHE                                         *)
  NoOne, NoJob

Modes    == {"separate", "shared", "batched"}
Asking   == [mode : Modes, state : States, asks : SUBSET Questions,
             prior : BOOLEAN, cells : Nat]
Jobs     == Requests \X {"prior", "main"}
Messages == Jobs \cup Releasers
Shared   == States \cup {ContentFree}
Segments == (Shared \X (1..Calls)) \cup (Jobs \X Questions)
MaxSeq   == MaxTogether + Round

ASSUME DecisionsAssumption ==
  /\ Questions \subseteq Nat /\ IsFiniteSet(Questions)
  /\ Workloads \subseteq [Requests -> Asking]
  /\ \A w \in Workloads, r \in Requests :
       w[r].asks # {} /\ w[r].cells \in 1..MaxCells
  /\ ContentFree \notin States /\ NoState \notin Shared /\ Aligned \subseteq Shared
  /\ (Requests \cup Jobs) \cap Releasers = {} /\ NoOne \notin Requests /\ NoJob \notin Messages
  /\ MaxTogether \in Nat \ {0} /\ Round \in Nat \ {0} /\ Calls \in Nat \ {0}
  /\ MaxPriors \in Nat

VARIABLES
  asked,     (* what each request asks                                     *)
  pc,        (* where each request and releaser is                         *)
  cancel,    (* requests whose client has left                             *)
  eval_lock, (* who holds it                                               *)
  prior_cache, (* the priors known: mode and question                      *)
  missing,   (* the questions each request found no prior of, and sent     *)
  chan,      (* the worker's channel                                       *)
  later,     (* messages it took off and put back                          *)
  reply,     (* what was sent on a job's reply channel                     *)
  group,     (* the jobs it evaluates                                      *)
  stage,     (* what it is doing                                           *)
  left,      (* the questions of the group still to be asked               *)
  dropped,   (* jobs of the group seen to be cancelled                     *)
  ctx,       (* sequences of the kept context, 0 if there is none          *)
  prefix,    (* Cached::prefix, what it takes sequence 0 to hold           *)
  held,      (* what each sequence holds                                   *)
  wrong,     (* jobs with a question asked on a sequence that held more    *)
  spoiled    (* a question has failed half-way                             *)

client == <<asked, pc, cancel, eval_lock, prior_cache, missing>>
cache  == <<ctx, prefix, held>>
vars == <<client, chan, later, reply, group, stage, left, dropped, cache, wrong, spoiled>>

Empty == [s \in 0..MaxSeq |-> {}]

Mode(j)  == asked[j[1]].mode
(* The questions of a job: of priors, those not known when it was sent,    *)
(* also if another request has had them measured meanwhile.                *)
Asks(j)  == IF j[2] = "prior" THEN missing[j[1]] ELSE asked[j[1]].asks
(* What it shares (DecisionModel::evaluate).                               *)
StateOf(j) == IF j[2] = "prior" THEN ContentFree ELSE asked[j[1]].state
Whole(s) == IF s = NoState THEN {} ELSE {s} \X (1..Calls)

-----------------------------------------------------------------------------
(* A request: DecisionModel::decide. *)

Send(m) == chan' = Append(chan, m)

(* It comes to its end, however, and its guard and flag are dropped.       *)
Ends(r) ==
  /\ pc' = [pc EXCEPT ![r] = "ended"]
  /\ eval_lock' = IF eval_lock = r THEN NoOne ELSE eval_lock
  /\ cancel' = cancel \ {r}

Missing(r) ==
  IF asked[r].prior THEN {q \in asked[r].asks : <<asked[r].mode, q>> \notin prior_cache} ELSE {}

(* The worker is held, unless batched.  A request abandoned meanwhile, or  *)
(* with a prompt too long for the model, sends nothing; what it sends      *)
(* first depends on the priors known.                                      *)
Start(r) ==
  /\ pc[r] = "new"
  /\ asked[r].mode = "batched" \/ eval_lock = NoOne
  /\ \/ Ends(r) /\ UNCHANGED <<missing, chan>>
     \/ /\ r \notin cancel
        /\ LET k == IF Missing(r) # {} THEN "prior" ELSE "main" IN
             /\ pc' = [pc EXCEPT ![r] = k]
             /\ missing' = [missing EXCEPT ![r] = Missing(r)]
             /\ eval_lock' = IF asked[r].mode = "batched" THEN eval_lock ELSE r
             /\ Send(<<r, k>>)
             /\ UNCHANGED cancel
  /\ UNCHANGED <<asked, prior_cache, later, reply, group, stage, left,
                 dropped, cache, wrong, spoiled>>

(* Priors measured are kept; a cache they would not fit in is emptied.     *)
Remember(r) ==
  LET measured == {asked[r].mode} \X missing[r] IN
  prior_cache' = IF Cardinality(prior_cache) + Cardinality(missing[r]) > MaxPriors
                   THEN measured ELSE prior_cache \cup measured

(* The reply of its job is received.  After that of the priors the         *)
(* questions are sent, unless a prompt is too long; an error ends it.      *)
Receive(r) ==
  LET j == <<r, pc[r]>>
      measured == j[2] = "prior" /\ reply[j] = "ok"
  IN
  /\ j \in Jobs /\ reply[j] # "none"
  /\ reply' = [reply EXCEPT ![j] = "none"]
  /\ missing' = [missing EXCEPT ![r] = {}]
  /\ IF measured THEN Remember(r) ELSE UNCHANGED prior_cache
  /\ \/ /\ measured
        /\ pc' = [pc EXCEPT ![r] = "main"]
        /\ Send(<<r, "main">>)
        /\ UNCHANGED <<eval_lock, cancel>>
     \/ Ends(r) /\ UNCHANGED chan
  /\ UNCHANGED <<asked, later, group, stage, left, dropped, cache,
                 wrong, spoiled>>

(* The client leaves, and the dropped handler sets the flag.               *)
Abandon(r) ==
  /\ pc[r] \in {"new", "prior", "main"} /\ r \notin cancel
  /\ cancel' = cancel \cup {r}
  /\ UNCHANGED <<asked, pc, eval_lock, prior_cache, missing, chan, later, reply, group,
                 stage, left, dropped, cache, wrong, spoiled>>

(* release_context, before a generation model is sized.                    *)
AskRelease(m) ==
  /\ pc[m] = "new"
  /\ pc' = [pc EXCEPT ![m] = "main"]
  /\ Send(m)
  /\ UNCHANGED <<asked, cancel, eval_lock, prior_cache, missing, later, reply, group,
                 stage, left, dropped, cache, wrong, spoiled>>

-----------------------------------------------------------------------------
(* The worker takes messages: Worker::run. *)

Groupable(m) == m \in Jobs /\ Mode(m) = "batched"

(* A waiting message goes with the group if it may and there is room.      *)
Join(acc, m) ==
  IF /\ Groupable(m) /\ Len(acc.group) < MaxTogether
     /\ acc.cells + asked[m[1]].cells <= MaxCells
    THEN [group |-> Append(acc.group, m), cells |-> acc.cells + asked[m[1]].cells,
          rest |-> acc.rest]
    ELSE [acc EXCEPT !.rest = Append(@, m)]

(* They are gone through in order for those that go with the first.        *)
Gather(first, waiting) ==
  LET upto[n \in 0..Len(waiting)] ==
        IF n = 0 THEN [group |-> <<first>>, cells |-> asked[first[1]].cells, rest |-> <<>>]
        ELSE Join(upto[n - 1], waiting[n])
  IN  upto[Len(waiting)]

Begin(jobs) ==
  /\ group' = jobs
  /\ left' = UNION {{j} \X Asks(j) : j \in ToSet(jobs)}
  /\ stage' = IF Len(jobs) = 1 THEN "evaluate" ELSE "together"
  /\ UNCHANGED reply

(* Slip: what was put back before is forgotten.                            *)
TakeGroupLosing ==
  LET first == Head(later \o chan)
      g == Gather(first, Tail(later \o chan))
  IN
  /\ stage = "idle" /\ later \o chan # <<>> /\ Groupable(first)
  /\ Begin(g.group)
  /\ later' = SelectSeq(g.rest, LAMBDA m : m \notin ToSet(later))
  /\ chan' = <<>>
  /\ UNCHANGED <<client, dropped, cache, wrong, spoiled>>

(* Slip: what is put back goes behind what is on the channel.              *)
TakeGroupBehind ==
  LET first == Head(later \o chan)
      g == Gather(first, Tail(later \o chan))
  IN
  /\ stage = "idle" /\ later \o chan # <<>> /\ Groupable(first)
  /\ Begin(g.group)
  /\ later' = Reverse(g.rest)
  /\ chan' = <<>>
  /\ UNCHANGED <<client, dropped, cache, wrong, spoiled>>

(* A batched job: every batched request that waits goes with it, as long   *)
(* as all fit what one request may use; the others are put back.           *)
TakeGroup ==
  LET first == Head(later \o chan)
      g == Gather(first, Tail(later \o chan))
  IN
  /\ stage = "idle" /\ later \o chan # <<>> /\ Groupable(first)
  /\ Begin(g.group)
  /\ later' = g.rest
  /\ chan' = <<>>
  /\ UNCHANGED <<client, dropped, cache, wrong, spoiled>>

(* The oldest message leaves the queue.                                    *)
Pop(m) ==
  /\ stage = "idle"
  /\ \/ later # <<>> /\ m = Head(later) /\ later' = Tail(later) /\ UNCHANGED chan
     \/ later = <<>> /\ chan # <<>> /\ m = Head(chan) /\ chan' = Tail(chan) /\ UNCHANGED later

TakeOne ==
  \E m \in Jobs :
    /\ Pop(m) /\ ~Groupable(m)
    /\ Begin(<<m>>)
    /\ UNCHANGED <<client, dropped, cache, wrong, spoiled>>

(* The context is freed, and the caller told.                              *)
TakeRelease ==
  \E m \in Releasers :
    /\ Pop(m)
    /\ ctx' = 0 /\ prefix' = NoState /\ held' = Empty
    /\ pc' = [pc EXCEPT ![m] = "ended"]
    /\ UNCHANGED <<asked, cancel, eval_lock, prior_cache, missing, reply, group, stage,
                   left, dropped, wrong, spoiled>>

-----------------------------------------------------------------------------
(* One job, or a group of them, is evaluated. *)

job == group[1]
Left(j) == {q \in Questions : <<j, q>> \in left}

(* Slip: a failure reaches only the first job of the group.                *)
AnswerFirst(how) ==
  /\ reply' = [reply EXCEPT ![job] = how[job]]
  /\ group' = <<>> /\ left' = {} /\ dropped' = {}
  /\ stage' = "idle"

(* Every job of the group gets its reply, and the worker is idle.          *)
Answer(how) ==
  /\ reply' = [j \in Jobs |-> IF j \in ToSet(group) THEN how[j] ELSE reply[j]]
  /\ group' = <<>> /\ left' = {} /\ dropped' = {}
  /\ stage' = "idle"
AnswerAll(how) == Answer([j \in Jobs |-> how])

Others == <<client, chan, later>>
Abandoned == job[1] \in cancel

(* context: kept if it has the sequences asked for, or else made anew and  *)
(* larger, with nothing in it; that may fail, and nothing is kept then.    *)
Keeps(n) == ctx >= n
Cleared(n) == /\ ctx' = (IF Keeps(n) THEN ctx ELSE n)
              /\ prefix' = NoState /\ held' = Empty

(* evaluate: which way a single job goes.  A kept state of its own is not  *)
(* read again; one question about an aligned state is decoded in one go.   *)
Evaluate ==
  LET s == StateOf(job)
      one == Cardinality(Left(job)) = 1
      alone == Mode(job) = "separate" \/ (Mode(job) = "batched" /\ one)
      n == IF alone THEN 1 ELSE IF Mode(job) = "shared" THEN 2
           ELSE 1 + (IF Cardinality(Left(job)) < Round THEN Cardinality(Left(job)) ELSE Round)
      kept == Keeps(n) /\ prefix = s
  IN
  /\ stage = "evaluate"
  /\ \/ Abandoned /\ AnswerAll("cancelled") /\ UNCHANGED cache
     \/ /\ ~Abandoned
        /\ \/ AnswerAll("failed")   \* it does not fit
              /\ UNCHANGED cache
           \/ /\ ~Keeps(n)          \* no context can be made
              /\ ctx' = 0 /\ prefix' = NoState /\ held' = Empty
              /\ AnswerAll("failed")
           \/ /\ alone
              /\ IF Keeps(n) THEN prefix' = NoState /\ UNCHANGED <<ctx, held>> ELSE Cleared(n)
              /\ stage' = "alone"
              /\ UNCHANGED <<reply, group, left, dropped>>
           \/ /\ ~alone /\ kept
              /\ stage' = "ask"
              /\ UNCHANGED <<reply, group, left, dropped, cache>>
           \/ /\ ~alone /\ ~kept /\ Cleared(n)
              /\ stage' = IF Mode(job) = "shared" /\ one /\ s \in Aligned THEN "alone" ELSE "read"
              /\ UNCHANGED <<reply, group, left, dropped>>
  /\ UNCHANGED <<Others, wrong, spoiled>>

(* prefix: the state is read into sequence 0, call by call, unless the     *)
(* request is abandoned or a call fails; only then is it known to be there.*)
ReadState ==
  LET s == StateOf(job)
      n == Cardinality(held[0])
  IN
  /\ stage = "read"
  /\ \/ /\ Abandoned /\ AnswerAll("cancelled")
        /\ UNCHANGED cache
     \/ /\ ~Abandoned /\ AnswerAll("failed")
        /\ \E h \in {held, [held EXCEPT ![0] = @ \cup {<<s, n + 1>>}]} : held' = h
        /\ UNCHANGED <<ctx, prefix>>
     \/ /\ ~Abandoned
        /\ held' = [held EXCEPT ![0] = @ \cup {<<s, n + 1>>}]
        /\ IF n + 1 = Calls THEN prefix' = s /\ stage' = "ask" ELSE UNCHANGED <<prefix, stage>>
        /\ UNCHANGED <<ctx, reply, group, left, dropped>>
  /\ UNCHANGED <<Others, wrong, spoiled>>

(* The next questions to be asked: the shortest, so many at a time.        *)
NextAsks(n) ==
  LET at(j) == CHOOSE x \in 1..Len(group) : group[x] = j
      before(a, b) == a[2] < b[2] \/ (a[2] = b[2] /\ at(a[1]) < at(b[1]))
  IN {a \in left : Cardinality({b \in left : before(b, a)}) < n}

(* What is read from the outputs of all questions (finish).                *)
Finish == {"ok", "failed"}

(* Of the questions asked, each on what `on` holds, those whose sequence   *)
(* does not hold exactly its state and it.                                 *)
Misread(asks, on) ==
  {a[1] : a \in {b \in asks : on[b] # Whole(StateOf(b[1])) \cup {b}}}

(* separate, and a question decoded with its state in one go: the cache is *)
(* cleared before each, and after the last.                                *)
AskAlone ==
  LET checks == Mode(job) # "shared" IN  \* in one go: nothing to stop between
  /\ stage = "alone"
  /\ \E a \in NextAsks(1) :
    /\ \/ /\ Abandoned /\ checks /\ AnswerAll("cancelled")
          /\ UNCHANGED <<cache, spoiled>>
       \/ /\ ~(Abandoned /\ checks) /\ AnswerAll("failed")
          /\ held' = [Empty EXCEPT ![0] = Whole(StateOf(job)) \cup {a}]
          /\ spoiled' = TRUE
          /\ UNCHANGED <<ctx, prefix>>
       \/ /\ ~(Abandoned /\ checks)
          /\ held' = Empty
          /\ IF left = {a} THEN \E how \in Finish : AnswerAll(how)
             ELSE left' = left \ {a} /\ UNCHANGED <<reply, group, stage, dropped>>
          /\ UNCHANGED <<ctx, prefix, spoiled>>
    /\ UNCHANGED <<Others, wrong>>

(* isolated and batched: the next round's questions, each on a copy of     *)
(* sequence 0 that is dropped again.  A call that fails leaves the copies. *)
AskRound ==
  LET asks == NextAsks(IF Mode(job) = "shared" THEN 1 ELSE Round)
      seqOf == CHOOSE f \in [asks -> 1..Cardinality(asks)] : IsInjective(f)
      on == [a \in asks |-> held[seqOf[a]] \cup held[0] \cup {a}]
  IN
  /\ stage = "ask"
  /\ \/ /\ Abandoned /\ AnswerAll("cancelled")
        /\ UNCHANGED <<cache, wrong, spoiled>>
     \/ /\ ~Abandoned /\ AnswerAll("failed")
        /\ held' = [s \in 0..MaxSeq |->
             held[s] \cup UNION {on[a] : a \in {b \in asks : seqOf[b] = s}}]
        /\ spoiled' = TRUE
        /\ UNCHANGED <<ctx, prefix, wrong>>
     \/ /\ ~Abandoned
        /\ wrong' = wrong \cup Misread(asks, on)
        /\ held' = [s \in 0..MaxSeq |-> IF s \in 1..Cardinality(asks) THEN {} ELSE held[s]]
        /\ IF left = asks THEN \E how \in Finish : AnswerAll(how)
           ELSE left' = left \ asks /\ UNCHANGED <<reply, group, stage, dropped>>
        /\ UNCHANGED <<ctx, prefix, spoiled>>
  /\ UNCHANGED Others

(* batched_together: the state of every job, abandoned or not, into a      *)
(* sequence of its own.                                                    *)
ReadStates ==
  LET n == Len(group) + Round
      states == [s \in 0..MaxSeq |->
                   IF s < Len(group) THEN Whole(StateOf(group[s + 1])) ELSE {}]
  IN
  /\ stage = "together"
  /\ \/ /\ ~Keeps(n) /\ AnswerAll("failed")
        /\ ctx' = 0 /\ prefix' = NoState /\ held' = Empty
     \/ /\ ctx' = (IF Keeps(n) THEN ctx ELSE n)
        /\ prefix' = NoState /\ held' = states
        /\ \/ AnswerAll("failed")
           \/ stage' = "rounds" /\ UNCHANGED <<reply, group, left, dropped>>
  /\ UNCHANGED <<Others, wrong, spoiled>>

(* A round of their questions: those of abandoned jobs are left out, and   *)
(* the rest each on a copy of its state.  After the last the cache is      *)
(* cleared, and every job gets its own reply.                              *)
AskTogether ==
  LET asks == NextAsks(Round)
      gone == dropped \cup {j \in ToSet(group) : j[1] \in cancel}
      live == {a \in asks : a[1] \notin gone}
      of(j) == (CHOOSE x \in 1..Len(group) : group[x] = j) - 1
      seqOf == CHOOSE f \in [live -> Len(group)..(Len(group) + Cardinality(live) - 1)] :
                 IsInjective(f)
      on == [a \in live |-> held[seqOf[a]] \cup held[of(a[1])] \cup {a}]
  IN
  /\ stage = "rounds"
  /\ \/ /\ live # {} /\ AnswerAll("failed")
        /\ held' = [s \in 0..MaxSeq |->
             held[s] \cup UNION {on[a] : a \in {b \in live : seqOf[b] = s}}]
        /\ spoiled' = TRUE
        /\ UNCHANGED <<ctx, prefix, wrong>>
     \/ /\ wrong' = wrong \cup Misread(live, on)
        /\ IF left = asks
             THEN /\ held' = Empty
                  /\ \E how \in [ToSet(group) \ gone -> Finish] :
                       Answer([j \in Jobs |-> IF j \in DOMAIN how THEN how[j] ELSE "cancelled"])
             ELSE /\ left' = left \ asks /\ dropped' = gone
                  /\ UNCHANGED <<held, reply, group, stage>>
        /\ UNCHANGED <<ctx, prefix, spoiled>>
  /\ UNCHANGED Others

(* Slip: the context is kept over a panic.                                 *)
PanicKeeping ==
  /\ stage # "idle"
  /\ AnswerAll("failed")
  /\ \E h \in [0..1 -> {{}, Whole(StateOf(job))}] :
       held' = [s \in 0..MaxSeq |-> IF s \in 0..1 THEN h[s] ELSE {}]
  /\ UNCHANGED <<Others, ctx, prefix, wrong, spoiled>>

(* guarded: a panic anywhere fails the whole group, and the context, whose *)
(* state is not known, is dropped.                                         *)
Panic ==
  /\ stage # "idle"
  /\ AnswerAll("failed")
  /\ ctx' = 0 /\ prefix' = NoState /\ held' = Empty
  /\ UNCHANGED <<Others, wrong, spoiled>>

-----------------------------------------------------------------------------
Init ==
  /\ asked \in Workloads
  /\ pc = [x \in Requests \cup Releasers |-> "new"]
  /\ cancel = {}
  /\ eval_lock = NoOne
  /\ prior_cache = {} /\ missing = [r \in Requests |-> {}]
  /\ chan = <<>> /\ later = <<>>
  /\ reply = [j \in Jobs |-> "none"]
  /\ group = <<>> /\ stage = "idle" /\ left = {} /\ dropped = {}
  /\ ctx = 0 /\ prefix = NoState /\ held = Empty
  /\ wrong = {} /\ spoiled = FALSE

Worker ==
  \/ TakeGroup \/ TakeOne \/ TakeRelease
  \/ Evaluate \/ ReadState \/ AskAlone \/ AskRound \/ ReadStates \/ AskTogether
  \/ Panic

Next ==
  \/ Worker
  \/ \E r \in Requests : Start(r) \/ Receive(r) \/ Abandon(r)
  \/ \E m \in Releasers : AskRelease(m)

(* The worker's thread runs on, and a request's blocking task goes on when *)
(* its reply or the lock is there: each asks once, so nobody is kept from  *)
(* the lock for ever.                                                      *)
Spec ==
  /\ Init /\ [][Next]_vars
  /\ WF_vars(Worker)
  /\ \A r \in Requests : WF_vars(Start(r)) /\ WF_vars(Receive(r))

-----------------------------------------------------------------------------
(* Properties. *)

(* Every variable holds what the code can put in it.                       *)
TypeOK ==
  /\ asked \in Workloads
  /\ pc \in [Requests \cup Releasers -> {"new", "prior", "main", "ended"}]
  /\ cancel \subseteq Requests
  /\ eval_lock \in Requests \cup {NoOne}
  /\ prior_cache \subseteq Modes \X Questions
  /\ missing \in [Requests -> SUBSET Questions]
  /\ chan \in Seq(Messages) /\ later \in Seq(Messages) /\ group \in Seq(Jobs)
  /\ Len(group) <= MaxTogether
  /\ reply \in [Jobs -> {"none", "ok", "failed", "cancelled"}]
  /\ stage \in {"idle", "evaluate", "alone", "read", "ask", "together", "rounds"}
  /\ left \subseteq Jobs \X Questions
  /\ dropped \subseteq Jobs
  /\ ctx \in 0..MaxSeq
  /\ prefix \in Shared \cup {NoState}
  /\ held \in [0..MaxSeq -> SUBSET Segments]
  /\ wrong \subseteq Jobs /\ spoiled \in BOOLEAN

(* What somebody waits for is in one place, on the channel, put back, in  *)
(* the group or answered, and never twice: draining, putting back and      *)
(* failing together lose and repeat nothing.                               *)
NoneLost ==
  \A x \in Requests \cup Releasers :
    LET m == IF x \in Releasers THEN x ELSE <<x, pc[x]>>
        places == later \o chan \o group
    IN pc[x] \in {"prior", "main"} =>
         Cardinality({i \in DOMAIN places : places[i] = m})
           = (IF m \in Jobs /\ reply[m] # "none" THEN 0 ELSE 1)

(* Between jobs, sequence 0 holds exactly the state the worker takes it to *)
(* hold, after cancellations between its calls, failures, panics and       *)
(* releases: the next request about it starts from there.                  *)
KeptIsHeld ==
  prefix # NoState => ctx > 0 /\ held[0] = Whole(prefix)

(* Every question is asked on a sequence that holds its state and nothing  *)
(* else (what another left behind would sit in its way: drop_sequence),    *)
(* until a question has failed half-way.                                   *)
OwnUntilFailed == spoiled \/ wrong = {}

(* The two together: llama.cpp's sequences hold what the worker, which     *)
(* never looks, takes them to hold.                                        *)
SequencesHoldTheirs == KeptIsHeld /\ OwnUntilFailed

Before(s, m, n) == \E x, y \in 1..Len(s) : x < y /\ s[x] = m /\ s[y] = n

(* What is put back keeps its place: of two waiting messages the older is  *)
(* never behind the younger, though batched ones overtake both.            *)
KeepsOrder ==
  [][\A m, n \in Messages :
        Before(later \o chan, m, n) => ~Before(later' \o chan', n, m)]_vars

(* Under fairness: every request and every release comes to its end.       *)
EveryDecisionEnds ==
  \A x \in Requests \cup Releasers :
    (pc[x] \in {"prior", "main"}) ~> (pc[x] = "ended")
=============================================================================
