------------------------------- MODULE Sizing -------------------------------
(***************************************************************************)
(* How a model is fitted to the card: the window of --ctx-size auto, where *)
(* projector, layers and experts go (fit.rs), and what the load then finds *)
(* of it: the probe of the window, and the expert cache that grows into    *)
(* what was left (inference/mod.rs).  The first reckons with estimates,    *)
(* the second measures.                                                    *)
(*                                                                         *)
(* Bytes and tokens are small numbers.  A layer's share of the model, a    *)
(* fraction in the code, is kept whole by multiplying by the layers.       *)
(* Left out: several cards, reading ahead, the MTP head's reserve, and the *)
(* scheduler's second attempt with another cache type.                     *)
(***************************************************************************)
EXTENDS Integers, Sequences, FiniteSetsExt

CONSTANTS
  Loads,       (* what is loaded, and with which flags: see LoadsAreSound  *)
  Reserve,     (* --vram-reserve                                           *)
  Compute,     (* COMPUTE_BUFFER_RESERVE_BYTES                             *)
  Larger,      (* ubatch_reserve_bytes of MOE_CACHE_N_UBATCH               *)
  CacheStep, CacheMin, Margin, Headroom,
  Pinnable,    (* experts in RAM the machine can pin                       *)
  Floor, RefineStep, AutoFloor, AutoCeiling,
  Errors       (* what the compute buffer takes beyond its estimate        *)

All  == 1000   (* --gpu-layers -1                                          *)
CtxAuto == 0   (* CTX_AUTO                                                 *)

(* `experts` of a model: what those of its first n layers take, for each n. *)
ModelIsSound(m) ==
  /\ {m.layers, m.interval} \subseteq Nat \ {0}
  /\ {m.rest, m.table, m.kv, m.trained} \subseteq Nat
  /\ m.experts \in [0..m.layers -> Nat] /\ m.experts[0] = 0
  /\ \A i, j \in 0..m.layers : i <= j => m.experts[i] <= m.experts[j]

LoadsAreSound ==
  \A l \in Loads :
    /\ ModelIsSound(l.model)
    /\ {l.free, l.companions, l.projector, l.ceiling, l.n_cpu_moe, l.slots, l.asked,
        l.cache.mib} \subseteq Nat
    /\ {l.readable, l.cpu_moe, l.large_ubatch} \subseteq BOOLEAN
    /\ l.align \in Nat \ {0}
    /\ l.offload \in {"auto", "cpu", "gpu"}
    /\ l.cache.kind \in {"off", "auto", "default", "mib"}

ASSUME SizingAssumption ==
  /\ LoadsAreSound
  /\ {Reserve, Larger, Margin, Headroom, Pinnable} \subseteq Nat /\ Errors \subseteq Int
  /\ {Compute, CacheStep, CacheMin, Floor, RefineStep, AutoFloor, AutoCeiling} \subseteq Nat \ {0}

VARIABLES
  load,    (* the model, its flags, and the card it comes to               *)
  ctx,     (* the window                                                   *)
  span,    (* the windows auto_context still bisects, in steps             *)
  plan,    (* the OffloadPlan                                              *)
  error,   (* what more than its estimate the load takes                   *)
  known_bad,  (* the least window the probe refused, 0 for none            *)
  cache,   (* moe_cache_bytes                                              *)
  stage

sizing == <<load, ctx, span, plan, error, known_bad, cache, stage>>

Less(a, b) == IF a > b THEN a - b ELSE 0   (* saturating_sub *)
Least(a, b) == IF a < b THEN a ELSE b
CeilDiv(a, b) == (a + b - 1) \div b
StepDown(bytes) == (bytes \div CacheStep) * CacheStep
-----------------------------------------------------------------------------
(* The model, as its header describes it. *)

Experts(m, n) == m.experts[Least(n, m.layers)]   (* of the first n layers *)
AllExperts(m) == Experts(m, m.layers)
ExpertsFrom(m, n) == AllExperts(m) - Experts(m, n)
IsMoe(m) == AllExperts(m) > 0
FileSize(m) == m.rest + AllExperts(m) + m.table   (* table: host-only *)

(* A hybrid model pays for a cache only in some of its layers.             *)
Paying(m, n) == CeilDiv(n, m.interval)
Kv(m, n, c)  == Paying(m, n) * m.kv * c

Usable(room) == Less(room, Reserve + Compute)
-----------------------------------------------------------------------------
(* compute_fit: the layers that fit, each with its share of bytes.         *)
ComputeFit(m, bytes, c, room) ==
  Max({n \in 0..m.layers :
         n * bytes + m.layers * Kv(m, n, c) <= m.layers * Usable(room)})

(* moe_budget: what cannot leave the card.                                 *)
Fixed(m, c) == m.rest + Kv(m, m.layers, c)

(* compute_moe_fit: the fewest first layers whose experts go to RAM, so    *)
(* that the others' fit in what is left of the room.                       *)
SplitFor(m, c, room, left) ==
  IF left <= 0
    THEN [basis |-> "partial", layers |-> ComputeFit(m, m.rest, c, room), out |-> m.layers]
    ELSE [basis |-> "experts", layers |-> m.layers,
          out |-> Min({n \in 0..m.layers : ExpertsFrom(m, n) <= left})]
ComputeMoeFit(m, c, room) == SplitFor(m, c, room, Usable(room) - Fixed(m, c))
HasExpertsOut(fit) == fit.basis = "experts" /\ fit.out > 0

(* Slip: the larger micro-batch is taken beside the split of the smaller.  *)
LargerUncharged(auto, first, again) ==
  IF auto /\ HasExpertsOut(first)
    THEN [fit |-> first, larger |-> TRUE] ELSE [fit |-> first, larger |-> FALSE]

(* compute_moe_fit_plan: a split is made again for the larger micro-batch. *)
LargerIfItHolds(auto, first, again) ==
  IF auto /\ HasExpertsOut(first) /\ HasExpertsOut(again)
    THEN [fit |-> again, larger |-> TRUE] ELSE [fit |-> first, larger |-> FALSE]
MoeFitPlan(m, c, room, auto) ==
  LargerIfItHolds(auto, ComputeMoeFit(m, c, room), ComputeMoeFit(m, c, Less(room, Larger)))
-----------------------------------------------------------------------------
(* plan_moe_cache: the experts in RAM, and a cache for some of them.       *)

Out(l) == IF l.cpu_moe \/ l.n_cpu_moe = 0 THEN l.model.layers ELSE l.n_cpu_moe
InRam(l) == Experts(l.model, Out(l))

(* By itself the cache comes on where 25% to 85% of the experts are out.   *)
InBand(out, experts) == 100 * out \in (25 * experts)..(85 * experts)

(* The cache a room for at most so many bytes holds, 0 for none, and       *)
(* whether it is what was asked for.                                       *)
SizeCache(l, most) ==
  IF l.cache.kind = "mib" /\ l.cache.mib <= most THEN l.cache.mib
  ELSE IF most <= 0 \/ (l.cache.kind # "mib" /\ StepDown(most) < CacheMin) THEN 0
  ELSE StepDown(most)
AsAsked(l, bytes) == l.cache.kind = "mib" => bytes = l.cache.mib

(* What the room may hold beside the cache, in the order it is tried.      *)
Beside(auto, slots) ==
  (IF slots > 0 THEN <<[larger |-> auto, slots |-> slots]>> ELSE <<>>)
    \o (IF auto THEN <<[larger |-> TRUE, slots |-> 0]>> ELSE <<>>)
    \o <<[larger |-> FALSE, slots |-> 0]>>

NoCache == [bytes |-> 0]

(* The first that leaves a cache, and only the last may cut it.            *)
CacheBeside(l, beside, bytes) ==
  LET taken == {i \in DOMAIN beside :
                  bytes[i] > 0 /\ (i = Len(beside) \/ AsAsked(l, bytes[i]))}
  IN  IF taken = {} THEN NoCache
      ELSE LET i == Min(taken)
           IN  [bytes |-> bytes[i], larger |-> beside[i].larger,
                slots |-> beside[i].slots, grow |-> l.cache.kind # "mib"]

CacheIn(l, left, in_ram, beside) ==
  CacheBeside(l, beside,
    [i \in DOMAIN beside |->
       SizeCache(l, Least(left - (IF beside[i].larger THEN Larger ELSE 0)
                               - beside[i].slots, in_ram))])

PlanMoeCache(l, c, room, in_ram, experts) ==
  IF \/ l.cache.kind = "off" \/ experts = 0
     \/ /\ ~l.cpu_moe /\ l.n_cpu_moe = 0
        /\ Fixed(l.model, c) + experts <= Usable(room)
     \/ /\ l.cache.kind = "default"
        /\ ~InBand(Fixed(l.model, c) + experts - Usable(room), experts)
     \/ in_ram = 0
    THEN NoCache
    ELSE CacheIn(l, Usable(room) - Fixed(l.model, c) - (experts - in_ram), in_ram,
                 Beside(~l.large_ubatch, IF in_ram <= Pinnable THEN l.slots ELSE 0))
-----------------------------------------------------------------------------
(* place_mmproj: on the card only if the whole text model fits beside it.  *)
FitsWhole(m, c, room) ==
  IF IsMoe(m) THEN ComputeMoeFit(m, c, room).out = 0
              ELSE ComputeFit(m, FileSize(m), c, room) = m.layers

(* Slip: the text model alone is weighed.                                  *)
PlaceMmprojAlone(l, c, room) ==
  IF FitsWhole(l.model, c, room) THEN "gpu" ELSE "cpu"

PlaceMmproj(l, c, room) ==
  IF FitsWhole(l.model, c, Less(room, l.projector)) THEN "gpu" ELSE "cpu"

(* Spoken for, and not yet taken from the free memory: the companions'     *)
(* contexts, and the larger buffer of a micro-batch the flags ask for.     *)
Spoken(l) == l.companions + (IF l.large_ubatch THEN Larger ELSE 0)

Mmproj(l, c) ==
  IF l.offload = "auto" /\ l.projector > 0
    THEN PlaceMmproj(l, c, Less(l.free, Spoken(l)))
    ELSE IF l.offload = "auto" THEN "follow" ELSE l.offload

Room(l, mmproj) ==
  Less(l.free, Spoken(l) + (IF mmproj = "cpu" THEN 0 ELSE l.projector))

(* plan_offload, once it knows where the projector goes, and what a cache  *)
(* and a split of the experts would come to.                               *)
PlanFor(l, c, mmproj, room, cached, moe) ==
  LET m == l.model
      flagged == l.cpu_moe \/ l.n_cpu_moe > 0
      Entry(basis, layers, out, larger) ==
        [basis |-> basis, window |-> c, sized |-> layers,
         layers |-> Least(layers, l.ceiling), out |-> out,
         larger |-> larger, mmproj |-> mmproj, cache |-> cached]
  IN  CASE cached # NoCache -> Entry("cache", m.layers, Out(l), cached.larger)
        [] cached = NoCache /\ IsMoe(m) /\ ~flagged /\ moe.fit.out > 0 ->
             Entry(moe.fit.basis, moe.fit.layers, moe.fit.out, moe.larger)
        [] OTHER ->
             Entry("dense", ComputeFit(m, FileSize(m), c, room),
                   IF flagged THEN Out(l) ELSE 0, FALSE)

PlanIn(l, c, mmproj, room) ==
  PlanFor(l, c, mmproj, room,
          PlanMoeCache(l, c, room, InRam(l), AllExperts(l.model)),
          MoeFitPlan(l.model, c, room, ~l.large_ubatch))

(* Without a card or a header to read, the flags stand.                    *)
PlanUnknown(l, c) ==
  [basis |-> "unknown", window |-> c, sized |-> l.model.layers,
   layers |-> Least(l.model.layers, l.ceiling),
   out |-> IF l.cpu_moe \/ l.n_cpu_moe > 0 THEN Out(l) ELSE 0, larger |-> FALSE,
   mmproj |-> IF l.offload = "auto" THEN "follow" ELSE l.offload, cache |-> NoCache]

PlanPlaced(l, c, mmproj) == PlanIn(l, c, mmproj, Room(l, mmproj))
PlanOffload(l, c) == IF l.readable THEN PlanPlaced(l, c, Mmproj(l, c)) ELSE PlanUnknown(l, c)

RefusedByStrict(l, p) ==
  p.basis = "unknown" \/ (p.basis = "dense" /\ p.sized < l.model.layers)
-----------------------------------------------------------------------------
(* What a load really takes: its layers are the last, their experts on the *)
(* card but for those of the first p.out.                                  *)
Weights(l, p) ==
  LET m == l.model
  IN  CeilDiv(m.rest * p.layers, m.layers) + ExpertsFrom(m, Max({m.layers - p.layers, p.out}))
Projector(l, p) == IF p.mmproj = "cpu" \/ p.layers = 0 THEN 0 ELSE l.projector
Buffer(l, p) == Compute + (IF l.large_ubatch \/ p.larger THEN Larger ELSE 0)

(* The memory free once a context is made, below 0 when it cannot be.      *)
FreeWith(c, bytes, more) ==
  load.free - Weights(load, plan) - Projector(load, plan)
    - Buffer(load, plan) - Kv(load.model, plan.layers, c) - bytes - more

(* A model with a projector is probed with an image's micro-batch.         *)
ProbeError == IF load.projector > 0 THEN error + 1 ELSE error
ProbeFits(c) == FreeWith(c, plan.cache.bytes, ProbeError) >= Reserve
-----------------------------------------------------------------------------
(* The window of --ctx-size auto. *)

AutoLow(l)  == CeilDiv(AutoFloor, l.align) * l.align
AutoHigh(l) ==
  LET most == (Least(l.model.trained, AutoCeiling) \div l.align) * l.align
  IN  IF most > AutoLow(l) THEN most ELSE AutoLow(l)

(* Slip: the projector's room is not counted.                              *)
AutoReserveTextOnly(l) == Spoken(l)

(* What the launch has spoken for besides weights and cache.               *)
AutoReserve(l) == Spoken(l) + (IF l.offload = "cpu" THEN 0 ELSE l.projector)

WholeAt(l, c) ==
  ComputeFit(l.model, FileSize(l.model), c, Less(l.free, AutoReserve(l))) = l.model.layers

(* resolve_auto_context, and auto_context up to its loop.                  *)
Resolve ==
  /\ stage = "launch"
  /\ IF load.asked # CtxAuto
       THEN ctx' = load.asked /\ stage' = "plan" /\ UNCHANGED span
     ELSE IF IsMoe(load.model) \/ ~load.readable
       THEN ctx' = AutoFloor /\ stage' = "plan" /\ UNCHANGED span
     ELSE IF ~WholeAt(load, AutoLow(load))
       THEN ctx' = AutoLow(load) /\ stage' = "plan" /\ UNCHANGED span
     ELSE /\ span' = [lo |-> 0, hi |-> (AutoHigh(load) - AutoLow(load)) \div load.align]
          /\ stage' = "bisect" /\ UNCHANGED ctx
  /\ UNCHANGED <<load, plan, error, known_bad, cache>>

(* One turn of its loop.                                                   *)
Bisect ==
  /\ stage = "bisect"
  /\ IF span.lo < span.hi
       THEN LET mid == span.lo + CeilDiv(span.hi - span.lo, 2)
            IN  /\ span' = IF WholeAt(load, AutoLow(load) + mid * load.align)
                             THEN [span EXCEPT !.lo = mid] ELSE [span EXCEPT !.hi = mid - 1]
                /\ UNCHANGED <<ctx, stage>>
       ELSE /\ ctx' = AutoLow(load) + span.lo * load.align
            /\ stage' = "plan" /\ UNCHANGED span
  /\ UNCHANGED <<load, plan, error, known_bad, cache>>
-----------------------------------------------------------------------------
(* The load. *)

Plan ==
  /\ stage = "plan"
  /\ plan' = PlanOffload(load, ctx)
  /\ cache' = plan'.cache.bytes
  /\ stage' = "load"
  /\ UNCHANGED <<load, ctx, span, error, known_bad>>

(* The weights are loaded, unless --fit-strict refuses the plan.  What the *)
(* compute buffer really takes is now settled.  A model with a projector   *)
(* is served one request at a time.                                        *)
Load ==
  /\ stage = "load"
  /\ \/ RefusedByStrict(load, plan) /\ stage' = "refused" /\ UNCHANGED error
     \/ /\ error' \in Errors
        /\ stage' \in (IF load.projector > 0 THEN {"probe"} ELSE {"probe", "allocate"})
  /\ UNCHANGED <<load, ctx, span, plan, known_bad, cache>>

(* Slip: halving starts over without noting what failed.                   *)
HalveUnnoted ==
  /\ stage = "probe"
  /\ IF ProbeFits(ctx) THEN stage' = "refine" /\ UNCHANGED ctx
     ELSE IF ctx <= Floor THEN stage' = "failed" /\ UNCHANGED ctx
     ELSE /\ ctx' = Max({ctx \div 2, Floor}) /\ UNCHANGED stage
  /\ UNCHANGED <<load, span, plan, error, known_bad, cache>>

(* probe_and_shrink_context, its first loop: halve until it fits.          *)
Halve ==
  /\ stage = "probe"
  /\ IF ProbeFits(ctx) THEN stage' = "refine" /\ UNCHANGED <<ctx, known_bad>>
     ELSE IF ctx <= Floor THEN stage' = "failed" /\ UNCHANGED <<ctx, known_bad>>
     ELSE /\ known_bad' = ctx
          /\ ctx' = Max({ctx \div 2, Floor}) /\ UNCHANGED stage
  /\ UNCHANGED <<load, span, plan, error, cache>>

(* Its second: step by step back up to what is known to fail.              *)
Refine ==
  /\ stage = "refine"
  /\ LET next == ctx + RefineStep
     IN  IF next < known_bad /\ ProbeFits(next)
           THEN ctx' = next /\ UNCHANGED stage
           ELSE stage' = "grow" /\ UNCHANGED ctx
  /\ UNCHANGED <<load, span, plan, error, known_bad, cache>>

(* The scheduler makes its context without a probe, after it has let the   *)
(* cache grow.                                                             *)
Allocate ==
  /\ stage = "made"
  /\ stage' = IF FreeWith(ctx, cache, error) >= 0 THEN "serving" ELSE "failed"
  /\ UNCHANGED <<load, ctx, span, plan, error, known_bad, cache>>

Kept(keep) ==
  IF keep > 0 THEN Max({keep + Headroom + Margin, Reserve + Margin}) ELSE Reserve + Margin

(* grow_moe_cache: what a context leaves free goes to the cache; a cache   *)
(* may take more than its bytes, so a second context is measured.          *)
Grow ==
  /\ stage \in {"grow", "allocate"}
  /\ stage' = IF stage = "grow" THEN "ready" ELSE "made"
  /\ LET planned == plan.cache.bytes
         kept    == Kept(plan.cache.slots)
         free    == FreeWith(ctx, planned, error)
         target  == Least(planned + StepDown(Less(free, kept)), StepDown(InRam(load)))
     IN  \/ /\ planned > 0 /\ plan.cache.grow /\ free >= 0 /\ target > planned
            /\ \E more \in 0..(Margin + 1) :
                 /\ FreeWith(ctx, target, error + more) >= kept - Margin
                 /\ cache' = target /\ error' = error + more
         \/ UNCHANGED <<cache, error>>
  /\ UNCHANGED <<load, ctx, span, plan, known_bad>>
-----------------------------------------------------------------------------
SizingInit ==
  /\ load \in Loads
  /\ ctx = 0 /\ span = [lo |-> 0, hi |-> 0]
  /\ plan = [cache |-> NoCache] /\ error = 0
  /\ known_bad = 0 /\ cache = 0
  /\ stage = "launch"

SizingNext == Resolve \/ Bisect \/ Plan \/ Load \/ Halve \/ Refine \/ Grow \/ Allocate

SizingSpec == SizingInit /\ [][SizingNext]_sizing
-----------------------------------------------------------------------------
(* Properties. *)

Sized   == plan.basis # "unknown"
Settled == stage \in {"ready", "serving", "failed"}

(* A partial split by flags or for a host-only table is charged a layer's  *)
(* average; layers that hold more experts than that are not covered.       *)
ChargedInFull ==
  \/ plan.basis # "dense" \/ plan.sized = load.model.layers
  \/ \A n \in 0..load.model.layers :
       Experts(load.model, n) * load.model.layers = n * AllExperts(load.model)

(* "The sizer and this probe cannot disagree" (inference/mod.rs l.2074):   *)
(* where the buffers take no more than their estimates, and the card has   *)
(* the reserve and one buffer to give at all, what was sized is loaded, at *)
(* the window asked for, and leaves the reserve free; and what companions  *)
(* need beside it, unless the cache grew.                                  *)
SizedFits ==
  /\ Settled /\ Sized /\ ChargedInFull /\ ProbeError <= 0
  /\ Room(load, plan.mmproj) >= Reserve + Compute
  => /\ stage # "failed" /\ ctx = plan.window
     /\ FreeWith(ctx, cache, error)
          >= Reserve + (IF cache > plan.cache.bytes THEN 0 ELSE load.companions)

(* "The projector gets the GPU only when that costs the text model         *)
(* nothing" (fit.rs l.2638): no layer, and no expert the flags left there, *)
(* though flags and cache are weighed after it is placed.  Not so for a    *)
(* model with a host-only table.                                           *)
ProjectorIsFree ==
  stage = "load" /\ load.offload = "auto" /\ load.projector > 0 /\ plan.mmproj = "gpu"
    /\ load.model.table = 0
  => /\ plan.layers = Least(load.model.layers, load.ceiling)
     /\ plan.out = IF load.cpu_moe THEN load.model.layers ELSE load.n_cpu_moe

(* --ctx-size auto is the largest window whose plan leaves every layer on  *)
(* the card and does not send the projector away; if there is one.         *)
AutoIsMost ==
  stage = "load" /\ load.asked = CtxAuto /\ load.readable /\ ~IsMoe(load.model) =>
    LET Whole(c) == LET p == PlanOffload(load, c)
                    IN  /\ p.sized = load.model.layers
                        /\ load.offload = "auto" => p.mmproj # "cpu"
        windows == {c \in AutoLow(load)..AutoHigh(load) : c % load.align = 0}
    IN  ctx = Max({c \in windows : Whole(c)} \cup {AutoLow(load)})

(* A model served one request at a time leaves the reserve free, whatever  *)
(* the load took, also when its cache has grown; and its window was not    *)
(* cut by a step more than it had to be.                                   *)
ContextIsTight ==
  stage = "ready" =>
    /\ FreeWith(ctx, cache, error) >= Reserve
    /\ ctx < plan.window => ~ProbeFits(Least(ctx + RefineStep, plan.window))
=============================================================================
