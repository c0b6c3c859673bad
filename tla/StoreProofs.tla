---------------------------- MODULE StoreProofs ----------------------------
(***************************************************************************)
(* The model store, for every number of pulls, models, shards and ranges:  *)
(* types whatever overlaps, and, while no model is pulled or removed       *)
(* during a pull of it, what is on disk is whole.                          *)
(***************************************************************************)
EXTENDS Store, TLAPS

-----------------------------------------------------------------------------
(* Types, and what a pull's place says of its plan: they need nothing of   *)
(* the other pulls.                                                        *)

Ends     == {"present", "done", "failed", "killed"}
Fetching == {"create", "fetch", "stream", "verify", "rename", "cleanup"}
PCs      == Working \cup {"idle", "present", "done", "failed", "killed"}
Plans    == [leaf : Leaves, linked : Ids \cup {NoId}, created : BOOLEAN,
             refresh : BOOLEAN, mmproj : BOOLEAN]
Fetches  == [got : SUBSET Chunks, tries : [Chunks -> 0..MaxAttempts],
             open : [Chunks -> Inodes \cup {NoFile}]]
Files    == [Ids -> [Leaves -> Inodes \cup {NoFile}]]

(* The files of a model.                                                   *)
Own(i) == Weights(i) \cup {Projector}

ShapeOf(at, i, pl, f) ==
  /\ at \notin Working => pl = NoPlan
  /\ at # "idle" => i \in Ids
  /\ at \notin {"fetch", "stream"} => f = NoFetch
  /\ at = "stream" => \A c \in Chunks \ f.got : f.open[c] # NoFile
  /\ at \in {"resolve", "reuse"} => pl = [NoPlan EXCEPT !.leaf = 1]
  /\ at \in {"link", "undo"} => pl.leaf \in Weights(i) /\ pl.linked # NoId
  /\ at \in Fetching => pl.leaf \in Own(i)
  /\ pl.refresh => /\ at \in Fetching \cup {"manifest"}
                   /\ pl.leaf = Projector /\ pl.linked = NoId
  /\ pl.linked # NoId => pl.linked # i /\ Source[pl.linked] = Source[i]

Shape == \A p \in Pulls : ShapeOf(pc[p], wish[p], plan[p], fetch[p])

ShapeInv == TypeOK /\ Shape

LEMMA TypeParts ==
  TypeOK <=> /\ dirs \subseteq Ids /\ file \in Files /\ part \in Files
             /\ data \in [Inodes -> SUBSET Chunks] /\ manifest \in [Ids -> Manifests]
             /\ removing \subseteq Ids /\ pc \in [Pulls -> PCs] /\ wish \in [Pulls -> Ids \cup {NoId}]
             /\ plan \in [Pulls -> Plans] /\ fetch \in [Pulls -> Fetches]
             /\ result \in [Pulls -> Ids \cup {NoId}]
BY DEF TypeOK, Files, PCs, Plans, Fetches

LEMMA OwnLeaves ==
  ASSUME NEW i \in Ids
  PROVE  /\ Own(i) \subseteq Leaves /\ Weights(i) \subseteq Own(i)
         /\ Shards[Source[i]] \in Nat \ {0} /\ 1 \in Weights(i) /\ Projector \notin Weights(i)
         /\ Weights(i) = 1..Shards[Source[i]]
BY StoreAssumption DEF Own, Weights, Leaves, Projector

LEMMA NothingsTyped ==
  /\ NoPlan \in Plans /\ NoFetch \in Fetches /\ NoManifest \in Manifests
  /\ NoPlan.refresh = FALSE /\ NoPlan.linked = NoId /\ NoPlan.leaf = Projector
  /\ [l \in Leaves |-> NoFile] \in [Leaves -> Inodes \cup {NoFile}]
<1>1. 0 \in 0..MaxAttempts  BY StoreAssumption
<1>2. Projector \in Leaves  BY DEF Leaves
<1>3. QED BY <1>1, <1>2 DEF NoPlan, Plans, NoFetch, Fetches, NoManifest, Manifests

(* One pull's step, in its own variables.                                  *)
Acts(p, at, i, pl, f) ==
  /\ pc' = [pc EXCEPT ![p] = at] /\ wish' = [wish EXCEPT ![p] = i]
  /\ plan' = [plan EXCEPT ![p] = pl] /\ fetch' = [fetch EXCEPT ![p] = f]

(* The disk and the results stay well formed.                              *)
DiskTyped ==
  /\ dirs' \subseteq Ids /\ file' \in Files /\ part' \in Files
  /\ data' \in [Inodes -> SUBSET Chunks] /\ manifest' \in [Ids -> Manifests]
  /\ result' \in [Pulls -> Ids \cup {NoId}]

LEMMA ShapeKept ==
  ASSUME ShapeInv, removing' \subseteq Ids, NEW p \in Pulls, NEW at \in PCs, NEW i \in Ids \cup {NoId},
         NEW pl \in Plans, NEW f \in Fetches, Acts(p, at, i, pl, f), ShapeOf(at, i, pl, f),
         DiskTyped
  PROVE  ShapeInv'
<1>1. /\ pc \in [Pulls -> PCs] /\ wish \in [Pulls -> Ids \cup {NoId}]
      /\ plan \in [Pulls -> Plans] /\ fetch \in [Pulls -> Fetches]
  BY TypeParts DEF ShapeInv
<1>2. /\ pc' \in [Pulls -> PCs] /\ wish' \in [Pulls -> Ids \cup {NoId}]
      /\ plan' \in [Pulls -> Plans] /\ fetch' \in [Pulls -> Fetches]
  BY <1>1 DEF Acts
<1>3. TypeOK'  BY <1>2 DEF DiskTyped, TypeOK, Files, PCs, Plans, Fetches
<1>4. ASSUME NEW q \in Pulls PROVE ShapeOf(pc'[q], wish'[q], plan'[q], fetch'[q])
  <2>1. CASE q = p
    <3>1. pc'[q] = at /\ wish'[q] = i /\ plan'[q] = pl /\ fetch'[q] = f
      BY <1>1, <2>1 DEF Acts
    <3>2. QED BY <3>1
  <2>2. CASE q # p
    <3>1. /\ pc'[q] = pc[q] /\ wish'[q] = wish[q] /\ plan'[q] = plan[q] /\ fetch'[q] = fetch[q]
      BY <1>1, <2>2 DEF Acts
    <3>2. QED BY <3>1 DEF ShapeInv, Shape
  <2>3. QED BY <2>1, <2>2
<1>5. Shape'  BY <1>4 DEF Shape
<1>6. QED BY <1>3, <1>5 DEF ShapeInv

LEMMA InitShape == Init => ShapeInv
<1> SUFFICES ASSUME Init PROVE ShapeInv  OBVIOUS
<1>1. TypeOK  BY NothingsTyped, TypeParts DEF Init, Files, PCs
<1>2. \A p \in Pulls : ShapeOf("idle", NoId, NoPlan, NoFetch)
  BY NothingsTyped DEF ShapeOf, Working, Fetching
<1>3. Shape  BY <1>2 DEF Init, Shape
<1>4. QED BY <1>1, <1>3 DEF ShapeInv

(* A pull starts, or has nothing to do.                                    *)
LEMMA BeginShape ==
  ASSUME ShapeInv, removing' \subseteq Ids, NEW p \in Pulls, NEW i \in Ids,
         PullPresent(p, i) \/ PullProjector(p, i) \/ PullNew(p, i)
  PROVE  ShapeInv'
<1>t. /\ pc \in [Pulls -> PCs] /\ wish \in [Pulls -> Ids \cup {NoId}]
      /\ plan \in [Pulls -> Plans] /\ fetch \in [Pulls -> Fetches] /\ result \in [Pulls -> Ids \cup {NoId}]
      /\ plan[p] \in Plans /\ fetch[p] \in Fetches
  BY TypeParts DEF ShapeInv
<1>0. pc[p] = "idle" /\ wish' = [wish EXCEPT ![p] = i] /\ UNCHANGED <<disk, fetch>>
  BY DEF PullPresent, PullProjector, PullNew, Begin
<1>1. plan[p] = NoPlan /\ fetch[p] = NoFetch  BY <1>0 DEF ShapeInv, Shape, ShapeOf, Working
<1>2. fetch' = [fetch EXCEPT ![p] = NoFetch]  BY <1>0, <1>1, <1>t
<1>o. 1 \in Own(i) /\ Projector \in Own(i) /\ Own(i) \subseteq Leaves  BY OwnLeaves DEF Own
<1>3. CASE PullPresent(p, i)
  <2>1. Acts(p, "present", i, NoPlan, NoFetch)  BY <1>0, <1>2, <1>3 DEF PullPresent, Finished, Goto, Acts
  <2>2. DiskTyped
    BY <1>0, <1>3, <1>t, TypeParts DEF PullPresent, Finished, DiskTyped, ShapeInv, disk
  <2>3. ShapeOf("present", i, NoPlan, NoFetch)  BY NothingsTyped DEF ShapeOf, Working, Fetching
  <2>4. QED BY <2>1, <2>2, <2>3, NothingsTyped, ShapeKept DEF PCs
<1>4. CASE PullProjector(p, i)
  <2> DEFINE pl == [NoPlan EXCEPT !.refresh = TRUE]
  <2>1. Acts(p, "create", i, pl, NoFetch)
    BY <1>0, <1>1, <1>2, <1>4, <1>t DEF PullProjector, Goto, Acts
  <2>2. DiskTyped  BY <1>0, <1>4, <1>t, TypeParts DEF PullProjector, DiskTyped, ShapeInv, disk
  <2>3. pl \in Plans  BY NothingsTyped DEF Plans
  <2>4. ShapeOf("create", i, pl, NoFetch)
    BY <1>o, NothingsTyped DEF ShapeOf, Working, Fetching, NoPlan
  <2> HIDE DEF pl
  <2>5. QED BY <2>1, <2>2, <2>3, <2>4, NothingsTyped, ShapeKept DEF PCs, Working
<1>5. CASE PullNew(p, i)
  <2> DEFINE pl == [NoPlan EXCEPT !.leaf = 1]
  <2>1. Acts(p, "resolve", i, pl, NoFetch)
    BY <1>0, <1>1, <1>2, <1>5, <1>t DEF PullNew, Goto, Acts
  <2>2. DiskTyped  BY <1>0, <1>5, <1>t, TypeParts DEF PullNew, DiskTyped, ShapeInv, disk
  <2>3. pl \in Plans  BY <1>o, NothingsTyped DEF Plans
  <2>4. ShapeOf("resolve", i, pl, NoFetch)
    BY <1>o, NothingsTyped DEF ShapeOf, Working, Fetching, NoPlan
  <2> HIDE DEF pl
  <2>5. QED BY <2>1, <2>2, <2>3, <2>4, NothingsTyped, ShapeKept DEF PCs, Working
<1>6. QED BY <1>3, <1>4, <1>5

(* A pull that goes on, or ends, with its download untouched.              *)
LEMMA GoesOn ==
  ASSUME ShapeInv, removing' \subseteq Ids, NEW p \in Pulls, NEW at \in PCs, NEW pl \in Plans,
         pc' = [pc EXCEPT ![p] = at], plan' = [plan EXCEPT ![p] = pl],
         UNCHANGED <<wish, fetch>>, ShapeOf(at, wish[p], pl, fetch[p]), DiskTyped
  PROVE  ShapeInv'
<1>t. /\ pc \in [Pulls -> PCs] /\ wish \in [Pulls -> Ids \cup {NoId}]
      /\ plan \in [Pulls -> Plans] /\ fetch \in [Pulls -> Fetches]
      /\ wish[p] \in Ids \cup {NoId} /\ fetch[p] \in Fetches
  BY TypeParts DEF ShapeInv
<1>1. wish' = [wish EXCEPT ![p] = wish[p]] /\ fetch' = [fetch EXCEPT ![p] = fetch[p]]
  BY <1>t
<1>2. Acts(p, at, wish[p], pl, fetch[p])  BY <1>1 DEF Acts
<1>3. QED BY <1>t, <1>2, ShapeKept

(* A pull that says how it ended.                                          *)
LEMMA FinishedShape ==
  ASSUME ShapeInv, removing' \subseteq Ids, NEW p \in Pulls, pc[p] \in Working \ {"fetch", "stream"},
         NEW end \in Ends, NEW i \in Ids \cup {NoId}, Finished(p, end, i),
         dirs' \subseteq Ids, file' \in Files, part' \in Files,
         manifest' \in [Ids -> Manifests], UNCHANGED <<data, wish, fetch>>
  PROVE  ShapeInv'
<1>t. /\ result \in [Pulls -> Ids \cup {NoId}] /\ data \in [Inodes -> SUBSET Chunks]
      /\ pc[p] # "idle" /\ wish[p] \in Ids /\ fetch[p] = NoFetch
  BY TypeParts DEF ShapeInv, Shape, ShapeOf, Working
<1>1. DiskTyped  BY <1>t DEF Finished, DiskTyped
<1>2. ShapeOf(end, wish[p], NoPlan, fetch[p])
  BY <1>t, NothingsTyped DEF ShapeOf, Ends, Working, Fetching
<1>3. end \in PCs  BY DEF Ends, PCs
<1>4. pc' = [pc EXCEPT ![p] = end] /\ plan' = [plan EXCEPT ![p] = NoPlan]
  BY DEF Finished, Goto
<1>5. QED BY <1>1, <1>2, <1>3, <1>4, NothingsTyped, GoesOn

(* The steps before a pull downloads.                                      *)
LEMMA LinkShape ==
  ASSUME ShapeInv, removing' \subseteq Ids, NEW p \in Pulls, Resolve(p) \/ Reuse(p) \/ LinkNext(p) \/ UndoLinks(p)
  PROVE  ShapeInv'
<1>t. /\ pc \in [Pulls -> PCs] /\ plan \in [Pulls -> Plans] /\ plan[p] \in Plans
      /\ dirs \subseteq Ids /\ file \in Files /\ part \in Files
      /\ data \in [Inodes -> SUBSET Chunks] /\ manifest \in [Ids -> Manifests]
      /\ result \in [Pulls -> Ids \cup {NoId}]
      /\ ShapeOf(pc[p], wish[p], plan[p], fetch[p])
  BY TypeParts DEF ShapeInv, Shape
<1>p. pc[p] \in {"resolve", "reuse", "link", "undo"}  BY DEF Resolve, Reuse, LinkNext, UndoLinks
<1>i. wish[p] \in Ids /\ fetch[p] = NoFetch  BY <1>t, <1>p DEF ShapeOf
<1>o. 1 \in Own(wish[p]) /\ Own(wish[p]) \subseteq Leaves /\ Weights(wish[p]) \subseteq Own(wish[p])
  BY <1>i, OwnLeaves
<1>1. CASE Resolve(p)
  <2>1. CASE Finished(p, "failed", NoId)
    BY <1>1, <1>t, <2>1, <1>p, FinishedShape DEF Resolve, disk, Working, Ends
  <2>2. CASE /\ Goto(p, IF Kind[wish[p]] = "url" THEN "create" ELSE "reuse")
             /\ UNCHANGED <<plan, result>>
    <3>1. PICK at \in {"create", "reuse"} : pc' = [pc EXCEPT ![p] = at]
      BY <2>2 DEF Goto
    <3>2. plan' = [plan EXCEPT ![p] = plan[p]] /\ UNCHANGED <<disk, wish, fetch>>
      BY <1>1, <1>t, <2>2 DEF Resolve
    <3>3. DiskTyped  BY <1>t, <2>2, <3>2 DEF DiskTyped, disk
    <3>4. plan[p] = [NoPlan EXCEPT !.leaf = 1]  BY <1>t, <1>1 DEF Resolve, ShapeOf
    <3>5. ShapeOf(at, wish[p], plan[p], fetch[p])
      BY <1>i, <1>o, <3>1, <3>4 DEF ShapeOf, Working, Fetching, NoPlan
    <3>6. QED BY <1>t, <3>1, <3>2, <3>3, <3>5, GoesOn DEF PCs, Working
  <2>3. QED BY <1>1, <2>1, <2>2 DEF Resolve
<1>2. CASE Reuse(p)
  <2>0. plan[p] = [NoPlan EXCEPT !.leaf = 1]  BY <1>t, <1>2 DEF Reuse, ShapeOf
  <2>1. CASE Holders(wish[p]) = {} /\ Goto(p, "create") /\ UNCHANGED <<dirs, plan>>
    <3>1. /\ plan' = [plan EXCEPT ![p] = plan[p]] /\ pc' = [pc EXCEPT ![p] = "create"]
          /\ UNCHANGED <<wish, fetch>>
      BY <1>2, <1>t, <2>1 DEF Reuse, Goto
    <3>2. DiskTyped  BY <1>2, <1>t, <2>1 DEF DiskTyped, Reuse
    <3>3. ShapeOf("create", wish[p], plan[p], fetch[p])
      BY <1>i, <1>o, <2>0 DEF ShapeOf, Working, Fetching, NoPlan
    <3>4. QED BY <1>t, <3>1, <3>2, <3>3, GoesOn DEF PCs, Working
  <2>2. ASSUME NEW h \in Holders(wish[p]),
               plan' = [plan EXCEPT ![p].linked = h, ![p].created = wish[p] \notin dirs],
               dirs' = dirs \cup {wish[p]}, Goto(p, "link")
        PROVE  ShapeInv'
    <3> DEFINE pl == [plan[p] EXCEPT !.linked = h, !.created = wish[p] \notin dirs]
    <3>0. h \in Ids /\ h # wish[p] /\ Source[h] = Source[wish[p]]  BY <2>2 DEF Holders
    <3>1. plan' = [plan EXCEPT ![p] = pl]  BY <2>2, <1>t
    <3>2. pl \in Plans  BY <3>0, <1>t DEF Plans
    <3>3. pc' = [pc EXCEPT ![p] = "link"] /\ UNCHANGED <<wish, fetch>>
      BY <1>2, <2>2 DEF Reuse, Goto
    <3>4. DiskTyped  BY <1>2, <1>t, <1>i, <2>2 DEF DiskTyped, Reuse
    <3>5. ShapeOf("link", wish[p], pl, fetch[p])
      <4>1. pl.leaf = 1 /\ pl.linked = h /\ pl.refresh = FALSE
        BY <2>0, <1>t, NothingsTyped DEF Plans, NoPlan
      <4>2. 1 \in Weights(wish[p]) /\ h # NoId  BY <1>i, <3>0, OwnLeaves, StoreAssumption
      <4> HIDE DEF pl
      <4>3. QED BY <4>1, <4>2, <1>i, <3>0 DEF ShapeOf, Working, Fetching
    <3> HIDE DEF pl
    <3>6. QED BY <3>1, <3>2, <3>3, <3>4, <3>5, GoesOn DEF PCs, Working
  <2>3. QED BY <1>2, <2>1, <2>2 DEF Reuse
<1>3. CASE LinkNext(p)
  <2>0. /\ plan[p].leaf \in Weights(wish[p]) /\ plan[p].linked # NoId /\ plan[p].linked \in Ids
        /\ ~plan[p].refresh /\ plan[p].linked # wish[p] /\ Source[plan[p].linked] = Source[wish[p]]
    BY <1>t, <1>3 DEF LinkNext, ShapeOf, Plans, Fetching
  <2> DEFINE l == plan[p].leaf  n == file[plan[p].linked][l]
  <2>1. n \in Inodes \cup {NoFile} /\ l \in Leaves  BY <1>t, <1>o, <2>0 DEF Files
  <2>2. UNCHANGED <<dirs, part, data, manifest, wish, fetch, result>>  BY <1>3 DEF LinkNext
  <2>3. file' \in Files
    <3>1. file' = file \/ file' = [file EXCEPT ![wish[p]][l] = n]  BY <1>3 DEF LinkNext
    <3> HIDE DEF l, n
    <3>2. [file[wish[p]] EXCEPT ![l] = n] \in [Leaves -> Inodes \cup {NoFile}]
      BY <2>1, <1>t, <1>i DEF Files
    <3>3. [file EXCEPT ![wish[p]][l] = n] = [file EXCEPT ![wish[p]] = [file[wish[p]] EXCEPT ![l] = n]]
      BY <1>t, <1>i DEF Files
    <3>4. [file EXCEPT ![wish[p]] = [file[wish[p]] EXCEPT ![l] = n]] \in Files
      BY <3>2, <1>t, <1>i DEF Files
    <3>5. CASE file' = file  BY <3>5, <1>t
    <3>6. CASE file' = [file EXCEPT ![wish[p]][l] = n]  BY <3>3, <3>4, <3>6
    <3>7. QED BY <3>1, <3>5, <3>6
  <2>4. DiskTyped  BY <2>2, <2>3, <1>t DEF DiskTyped
  <2>5. CASE /\ pc' = [pc EXCEPT ![p] = "link"] /\ l # Shards[Source[wish[p]]]
             /\ plan' = [plan EXCEPT ![p] = [plan[p] EXCEPT !.leaf = l + 1]]
    <3> DEFINE pl == [plan[p] EXCEPT !.leaf = l + 1]
    <3>1. l + 1 \in Weights(wish[p])  BY <1>i, <2>0, <2>5, OwnLeaves
    <3>2. pl \in Plans /\ pl.leaf = l + 1 /\ pl.linked = plan[p].linked /\ ~pl.refresh
      BY <1>t, <1>o, <2>0, <3>1 DEF Plans
    <3> HIDE DEF pl
    <3>3. ShapeOf("link", wish[p], pl, fetch[p])
      BY <1>i, <2>0, <3>1, <3>2 DEF ShapeOf, Working, Fetching
    <3>4. plan' = [plan EXCEPT ![p] = pl]  BY <2>5 DEF pl
    <3>5. QED BY <2>2, <2>4, <2>5, <3>2, <3>3, <3>4, GoesOn DEF PCs, Working
  <2>6. ASSUME NEW at \in {"projector", "undo"}, pc' = [pc EXCEPT ![p] = at], plan' = plan
        PROVE  ShapeInv'
    <3>1. plan' = [plan EXCEPT ![p] = plan[p]]  BY <2>6, <1>t
    <3>2. ShapeOf(at, wish[p], plan[p], fetch[p])
      BY <1>i, <2>0, <2>6 DEF ShapeOf, Working, Fetching
    <3>3. QED BY <1>t, <2>2, <2>4, <2>6, <3>1, <3>2, GoesOn DEF PCs, Working
  <2>7. QED
    <3>1. CASE Goto(p, "undo") /\ UNCHANGED plan  BY <3>1, <2>6 DEF Goto
    <3>2. CASE Goto(p, "projector") /\ UNCHANGED plan  BY <3>2, <2>6 DEF Goto
    <3>3. CASE plan' = [plan EXCEPT ![p].leaf = l + 1] /\ UNCHANGED pc /\ l # Shards[Source[wish[p]]]
      <4>1. pc[p] = "link"  BY <1>3 DEF LinkNext
      <4>2. pc' = [pc EXCEPT ![p] = "link"]  BY <3>3, <4>1, <1>t
      <4>3. plan' = [plan EXCEPT ![p] = [plan[p] EXCEPT !.leaf = l + 1]]  BY <3>3, <1>t
      <4>4. QED BY <3>3, <4>2, <4>3, <2>5
    <3>4. QED BY <1>3, <3>1, <3>2, <3>3 DEF LinkNext
<1>4. CASE UndoLinks(p)
  <2>1. file' \in Files /\ dirs' \subseteq Ids
    <3>1. file' = [file EXCEPT ![wish[p]] = [l \in Leaves |->
                    IF l \in 1..(plan[p].leaf - 1) THEN NoFile ELSE file[wish[p]][l]]]
      BY <1>4, <1>i, <1>t DEF UndoLinks, Files
    <3>2. file' \in Files  BY <3>1, <1>t, <1>i DEF Files
    <3>3. QED BY <3>2, <1>t, <1>4 DEF UndoLinks
  <2>2. plan[p].linked \in Ids \cup {NoId}  BY <1>t DEF Plans
  <2>3. QED BY <1>4, <1>t, <1>p, <2>1, <2>2, FinishedShape DEF UndoLinks, Ends, Working
<1>5. QED BY <1>1, <1>2, <1>3, <1>4

(* A file of one model gets a name, or loses it.                           *)
LEMMA OneFileTyped ==
  ASSUME NEW fs \in Files, NEW i \in Ids, NEW l \in Leaves, NEW n \in Inodes \cup {NoFile}
  PROVE  [fs EXCEPT ![i][l] = n] \in Files
<1>1. [fs[i] EXCEPT ![l] = n] \in [Leaves -> Inodes \cup {NoFile}]  BY DEF Files
<1>2. [fs EXCEPT ![i][l] = n] = [fs EXCEPT ![i] = [fs[i] EXCEPT ![l] = n]]  BY DEF Files
<1>3. [fs EXCEPT ![i] = [fs[i] EXCEPT ![l] = n]] \in Files  BY <1>1 DEF Files
<1>4. QED BY <1>2, <1>3

(* A name of a directory goes, or the directory.                           *)
LEMMA UnlinkTyped ==
  ASSUME TypeOK, NEW i \in Ids, Unlink(i) \/ RemoveDir(i)
  PROVE  /\ dirs' \subseteq Ids /\ file' \in Files /\ part' \in Files
         /\ manifest' \in [Ids -> Manifests] /\ UNCHANGED data
<1>t. dirs \subseteq Ids /\ file \in Files /\ part \in Files /\ manifest \in [Ids -> Manifests]
  BY TypeParts
<1>1. \A l \in Leaves : /\ [file EXCEPT ![i][l] = NoFile] \in Files
                        /\ [part EXCEPT ![i][l] = NoFile] \in Files
  BY <1>t, OneFileTyped
<1>2. [manifest EXCEPT ![i] = NoManifest] \in [Ids -> Manifests]  BY <1>t, NothingsTyped
<1>3. CASE Unlink(i)  BY <1>t, <1>1, <1>2, <1>3 DEF Unlink
<1>4. CASE RemoveDir(i)  BY <1>t, <1>4 DEF RemoveDir
<1>5. QED BY <1>3, <1>4

(* The download of one file, up to its end.                                *)
LEMMA FetchShape ==
  ASSUME ShapeInv, removing' \subseteq Ids, NEW p \in Pulls,
         \/ Create(p) \/ Stream(p)
         \/ \E c \in Chunks : OpenChunk(p, c) \/ WriteChunk(p, c) \/ FailChunk(p, c)
  PROVE  ShapeInv'
<1>t. /\ pc \in [Pulls -> PCs] /\ plan \in [Pulls -> Plans] /\ plan[p] \in Plans
      /\ wish \in [Pulls -> Ids \cup {NoId}] /\ fetch \in [Pulls -> Fetches] /\ fetch[p] \in Fetches
      /\ dirs \subseteq Ids /\ file \in Files /\ part \in Files
      /\ data \in [Inodes -> SUBSET Chunks] /\ manifest \in [Ids -> Manifests]
      /\ result \in [Pulls -> Ids \cup {NoId}]
      /\ ShapeOf(pc[p], wish[p], plan[p], fetch[p])
  BY TypeParts DEF ShapeInv, Shape
<1>p. pc[p] \in {"create", "fetch", "stream"}
  BY DEF Create, Stream, OpenChunk, WriteChunk, FailChunk
<1>i. wish[p] \in Ids /\ plan[p].leaf \in Own(wish[p])  BY <1>t, <1>p DEF ShapeOf, Fetching
<1>o. Own(wish[p]) \subseteq Leaves  BY <1>i, OwnLeaves
<1> DEFINE i == wish[p]  l == plan[p].leaf
<1>w. wish' = [wish EXCEPT ![p] = i] /\ plan' = [plan EXCEPT ![p] = plan[p]]
      /\ UNCHANGED <<file, manifest, result>>
  BY <1>t DEF Create, Stream, OpenChunk, WriteChunk, FailChunk, disk, Got, Goto, EndFetch
(* A step to a place where the shape says the same of the plan.            *)
<1>g. ASSUME NEW at \in Fetching, NEW f \in Fetches,
             pc' = [pc EXCEPT ![p] = at], fetch' = [fetch EXCEPT ![p] = f],
             at \notin {"fetch", "stream"} => f = NoFetch,
             at = "stream" => \A c \in Chunks \ f.got : f.open[c] # NoFile,
             dirs' \subseteq Ids, part' \in Files, data' \in [Inodes -> SUBSET Chunks]
      PROVE  ShapeInv'
  <2>1. DiskTyped  BY <1>g, <1>t, <1>w DEF DiskTyped
  <2>2. ShapeOf(at, i, plan[p], f)
    BY <1>g, <1>t, <1>p, <1>i DEF ShapeOf, Working, Fetching
  <2>3. Acts(p, at, i, plan[p], f)  BY <1>g, <1>w DEF Acts
  <2>4. at \in PCs  BY DEF PCs, Working, Fetching
  <2>5. QED BY <1>t, <1>g, <2>1, <2>2, <2>3, <2>4, ShapeKept
<1>e. ASSUME NEW at \in {"verify", "cleanup"}, Goto(p, at), EndFetch(p),
             dirs' \subseteq Ids, part' \in Files, data' \in [Inodes -> SUBSET Chunks]
      PROVE  ShapeInv'
  BY <1>e, <1>g, NothingsTyped DEF Goto, EndFetch, Fetching
<1>1. CASE Create(p)
  <2> DEFINE n == IF part[i][l] = NoFile THEN <<p, l>> ELSE part[i][l]
  <2>0. pc[p] = "create" /\ fetch[p] = NoFetch  BY <1>1, <1>t DEF Create, ShapeOf
  <2>1. n \in Inodes /\ n # NoFile /\ l \in Leaves
    BY <1>t, <1>i, <1>o, StoreAssumption DEF Inodes, Files
  <2>2. CASE /\ dirs' = dirs \cup {i} /\ part' = [part EXCEPT ![i][l] = n]
             /\ data' = [data EXCEPT ![n] = {}]
             /\ \/ Goto(p, "fetch") /\ UNCHANGED fetch
                \/ /\ Goto(p, "stream")
                   /\ fetch' = [fetch EXCEPT ![p].open = [c \in Chunks |-> n]]
    <3>1. dirs' \subseteq Ids /\ part' \in Files /\ data' \in [Inodes -> SUBSET Chunks]
      <4> HIDE DEF n, l
      <4>1. QED BY <2>1, <2>2, <1>t, <1>i, OneFileTyped
    <3>2. CASE Goto(p, "fetch") /\ UNCHANGED fetch
      <4>1. fetch' = [fetch EXCEPT ![p] = NoFetch]  BY <2>0, <3>2, <1>t
      <4>2. QED BY <3>1, <3>2, <4>1, <1>g, NothingsTyped DEF Goto, Fetching
    <3>3. CASE Goto(p, "stream") /\ fetch' = [fetch EXCEPT ![p].open = [c \in Chunks |-> n]]
      <4> DEFINE f == [NoFetch EXCEPT !.open = [c \in Chunks |-> n]]
      <4>1. fetch' = [fetch EXCEPT ![p] = f]  BY <2>0, <3>3, <1>t
      <4>2. f \in Fetches /\ \A c \in Chunks \ f.got : f.open[c] # NoFile
        BY <2>1, NothingsTyped DEF Fetches, NoFetch
      <4> HIDE DEF f, n
      <4>3. QED BY <3>1, <3>3, <4>1, <4>2, <1>g DEF Goto, Fetching
    <3>4. QED BY <2>2, <3>2, <3>3
  <2>3. CASE /\ Goto(p, "cleanup") /\ dirs' \in {dirs, dirs \cup {i}}
             /\ UNCHANGED <<part, data, fetch>>
    <3>1. fetch' = [fetch EXCEPT ![p] = NoFetch]  BY <2>0, <2>3, <1>t
    <3>2. dirs' \subseteq Ids  BY <2>3, <1>t, <1>i
    <3>3. QED BY <2>3, <3>1, <3>2, <1>t, <1>g, NothingsTyped DEF Goto, Fetching
  <2>4. QED BY <1>1, <2>2, <2>3 DEF Create
(* The download of a chunk, of what is open for it.                        *)
<1>c. ASSUME NEW c \in Chunks, pc[p] \in {"fetch", "stream"}, fetch[p].open[c] # NoFile,
             data' = [data EXCEPT ![fetch[p].open[c]] = data[fetch[p].open[c]] \cup {c}],
             Got(p, c), UNCHANGED <<dirs, part>>
      PROVE  ShapeInv'
  <2>1. data' \in [Inodes -> SUBSET Chunks]
    <3>1. fetch[p].open[c] \in Inodes  BY <1>c, <1>t DEF Fetches
    <3>2. data[fetch[p].open[c]] \cup {c} \in SUBSET Chunks  BY <3>1, <1>t
    <3>3. QED BY <1>c, <3>1, <3>2, <1>t
  <2>2. CASE Goto(p, "verify") /\ EndFetch(p)  BY <1>c, <2>1, <2>2, <1>t, <1>e
  <2>3. CASE /\ fetch' = [fetch EXCEPT ![p].got = fetch[p].got \cup {c}, ![p].open[c] = NoFile]
             /\ UNCHANGED pc
    <3> DEFINE f == [fetch[p] EXCEPT !.got = fetch[p].got \cup {c}, !.open = [@ EXCEPT ![c] = NoFile]]
    <3>0. pc' = [pc EXCEPT ![p] = pc[p]]  BY <2>3, <1>t
    <3>1. fetch' = [fetch EXCEPT ![p] = f] /\ pc' = [pc EXCEPT ![p] = pc[p]]
      <4>1. DOMAIN fetch = Pulls  BY <1>t
      <4>2. fetch' = [fetch EXCEPT ![p] = f]  BY <2>3, <4>1
      <4>3. QED BY <4>2, <3>0
    <3>2. [fetch[p].open EXCEPT ![c] = NoFile] \in [Chunks -> Inodes \cup {NoFile}]
      BY <1>t DEF Fetches
    <3>3. f \in Fetches  BY <1>t, <3>2 DEF Fetches
    <3>4. pc[p] = "stream" => \A d \in Chunks \ f.got : f.open[d] # NoFile
      BY <1>t DEF ShapeOf, Fetches
    <3> HIDE DEF f
    <3>5. QED BY <1>c, <3>1, <3>3, <3>4, <1>t, <1>g DEF Fetching
  <2>4. QED BY <1>c, <2>2, <2>3 DEF Got
<1>2. CASE Stream(p)
  <2>1. ASSUME NEW c \in Chunks \ fetch[p].got,
               data' = [data EXCEPT ![fetch[p].open[c]] = data[fetch[p].open[c]] \cup {c}], Got(p, c)
        PROVE  ShapeInv'
    <3>1. fetch[p].open[c] # NoFile  BY <1>2, <2>1, <1>t DEF Stream, ShapeOf
    <3>2. QED BY <1>2, <2>1, <3>1, <1>c DEF Stream
  <2>2. CASE Goto(p, "cleanup") /\ EndFetch(p) /\ UNCHANGED data
    BY <1>2, <2>2, <1>t, <1>e DEF Stream
  <2>3. QED BY <1>2, <2>1, <2>2 DEF Stream
<1>3. ASSUME NEW c \in Chunks, OpenChunk(p, c) PROVE ShapeInv'
  <2> DEFINE n == part[i][l]
             f == [fetch[p] EXCEPT !.open = [@ EXCEPT ![c] = n]]
  <2>1. /\ fetch' = [fetch EXCEPT ![p] = f] /\ pc' = [pc EXCEPT ![p] = "fetch"]
        /\ UNCHANGED <<dirs, part, data>>
    BY <1>3, <1>t DEF OpenChunk, disk
  <2>2. n \in Inodes \cup {NoFile}  BY <1>t, <1>i, <1>o DEF Files
  <2>3. [fetch[p].open EXCEPT ![c] = n] \in [Chunks -> Inodes \cup {NoFile}]
    BY <2>2, <1>t DEF Fetches
  <2>4. f \in Fetches  BY <1>t, <2>3 DEF Fetches
  <2> HIDE DEF f
  <2>5. QED BY <2>1, <2>4, <1>t, <1>g DEF Fetching
<1>4. ASSUME NEW c \in Chunks, WriteChunk(p, c) PROVE ShapeInv'
  BY <1>4, <1>c DEF WriteChunk
<1>5. ASSUME NEW c \in Chunks, FailChunk(p, c) PROVE ShapeInv'
  <2>1. CASE Goto(p, "cleanup") /\ EndFetch(p)
    BY <1>5, <2>1, <1>t, <1>e DEF FailChunk, disk
  <2>2. CASE /\ fetch[p].tries[c] + 1 < MaxAttempts /\ UNCHANGED pc
             /\ fetch' = [fetch EXCEPT ![p].tries[c] = @ + 1, ![p].open[c] = NoFile]
    <3> DEFINE f == [fetch[p] EXCEPT !.tries = [@ EXCEPT ![c] = fetch[p].tries[c] + 1],
                                    !.open = [@ EXCEPT ![c] = NoFile]]
    <3>1. fetch' = [fetch EXCEPT ![p] = f] /\ pc' = [pc EXCEPT ![p] = "fetch"]
          /\ UNCHANGED <<dirs, part, data>>
      <4>1. fetch[p] = [got |-> fetch[p].got, tries |-> fetch[p].tries, open |-> fetch[p].open]
            /\ fetch[p].tries \in [Chunks -> 0..MaxAttempts]
            /\ fetch[p].open \in [Chunks -> Inodes \cup {NoFile}]
        BY <1>t DEF Fetches
      <4>2. fetch' = [fetch EXCEPT ![p] = f]  BY <2>2, <4>1, <1>t
      <4>3. pc[p] = "fetch" /\ UNCHANGED disk  BY <1>5 DEF FailChunk
      <4>4. QED BY <2>2, <4>2, <4>3, <1>t DEF disk
    <3>2. [fetch[p].open EXCEPT ![c] = NoFile] \in [Chunks -> Inodes \cup {NoFile}]
      BY <1>t DEF Fetches
    <3>3. fetch[p].tries[c] + 1 \in 0..MaxAttempts
      BY <1>t, <2>2, StoreAssumption DEF Fetches
    <3>4. [fetch[p].tries EXCEPT ![c] = fetch[p].tries[c] + 1] \in [Chunks -> 0..MaxAttempts]
      BY <1>t, <3>3 DEF Fetches
    <3>5. f \in Fetches  BY <1>t, <3>2, <3>4 DEF Fetches
    <3> HIDE DEF f
    <3>6. QED BY <3>1, <3>5, <1>t, <1>g DEF Fetching
  <2>3. CASE fetch[p].tries[c] + 1 >= MaxAttempts  BY <1>5, <2>1, <2>3 DEF FailChunk
  <2>4. CASE ~(fetch[p].tries[c] + 1 >= MaxAttempts)
    <3>1. fetch[p].tries[c] + 1 < MaxAttempts
      BY <1>t, <2>4, StoreAssumption DEF Fetches
    <3>2. QED BY <1>5, <2>2, <2>4, <3>1 DEF FailChunk
  <2>5. QED BY <2>3, <2>4
<1>6. QED BY <1>1, <1>2, <1>3, <1>4, <1>5

(* The downloaded file gets its name, or is thrown away.                   *)
LEMMA NameShape ==
  ASSUME ShapeInv, removing' \subseteq Ids, NEW p \in Pulls, Verify(p) \/ Rename(p) \/ Cleanup(p)
  PROVE  ShapeInv'
<1>t. /\ pc \in [Pulls -> PCs] /\ plan \in [Pulls -> Plans] /\ plan[p] \in Plans
      /\ dirs \subseteq Ids /\ file \in Files /\ part \in Files
      /\ data \in [Inodes -> SUBSET Chunks] /\ manifest \in [Ids -> Manifests]
      /\ result \in [Pulls -> Ids \cup {NoId}]
      /\ ShapeOf(pc[p], wish[p], plan[p], fetch[p])
  BY TypeParts DEF ShapeInv, Shape
<1>p. pc[p] \in {"verify", "rename", "cleanup"}  BY DEF Verify, Rename, Cleanup
<1>i. wish[p] \in Ids /\ fetch[p] = NoFetch /\ plan[p].leaf \in Own(wish[p])
  BY <1>t, <1>p DEF ShapeOf, Fetching
<1>o. Own(wish[p]) \subseteq Leaves  BY <1>i, OwnLeaves
<1> DEFINE i == wish[p]  l == plan[p].leaf  n == part[i][l]
<1>n. n \in Inodes \cup {NoFile} /\ NoFile \in Inodes \cup {NoFile}  BY <1>t, <1>i, <1>o DEF Files
<1>k. [part EXCEPT ![i][l] = NoFile] \in Files  BY <1>t, <1>i, <1>o, OneFileTyped
<1>1. CASE Verify(p)
  <2>1. PICK at \in {"cleanup", "rename"} : pc' = [pc EXCEPT ![p] = at]  BY <1>1 DEF Verify, Goto
  <2>2. plan' = [plan EXCEPT ![p] = plan[p]] /\ UNCHANGED <<wish, fetch>>  BY <1>1, <1>t DEF Verify
  <2>3. DiskTyped  BY <1>1, <1>t DEF Verify, DiskTyped, disk
  <2>4. ShapeOf(at, wish[p], plan[p], fetch[p])
    BY <1>t, <1>p, <1>i, <2>1 DEF ShapeOf, Working, Fetching
  <2>5. QED BY <2>1, <2>2, <2>3, <2>4, <1>t, GoesOn DEF PCs, Working
<1>2. CASE Rename(p)
  <2>1. part' \in Files /\ UNCHANGED <<dirs, data, manifest, wish, fetch, result>>
    BY <1>2, <1>k DEF Rename
  <2>2. CASE n = NoFile
    <3>1. DiskTyped  BY <1>2, <1>t, <2>1, <2>2 DEF Rename, DiskTyped
    <3>2. pc' = [pc EXCEPT ![p] = "cleanup"] /\ plan' = [plan EXCEPT ![p] = plan[p]]
      BY <1>2, <1>t, <2>2 DEF Rename, Goto
    <3>3. ShapeOf("cleanup", wish[p], plan[p], fetch[p])
      BY <1>t, <1>p, <1>i DEF ShapeOf, Working, Fetching
    <3>4. QED BY <2>1, <3>1, <3>2, <3>3, <1>t, GoesOn DEF PCs, Working
  <2>3. CASE n # NoFile
    <3> DEFINE next == IF l = Projector THEN "manifest"
                       ELSE IF l = Shards[Source[i]] THEN "projector" ELSE "create"
               pl == [plan[p] EXCEPT !.mmproj = (l = Projector),
                                     !.leaf = IF next = "create" THEN l + 1 ELSE l]
    <3>1. DiskTyped
      <4>1. file' = [file EXCEPT ![i][l] = n]  BY <1>2, <2>3 DEF Rename
      <4>2. file' \in Files
        <5> HIDE DEF n, i, l
        <5>1. i \in Ids /\ l \in Leaves  BY <1>i, <1>o DEF i, l
        <5>2. QED BY <4>1, <5>1, <1>n, <1>t, OneFileTyped
      <4>3. QED BY <2>1, <4>2, <1>t DEF DiskTyped
    <3>2. pc' = [pc EXCEPT ![p] = next]  BY <1>2, <2>3 DEF Rename, Goto
    <3>3. plan' = [plan EXCEPT ![p] = pl]  BY <1>2, <1>t, <2>3 DEF Rename
    <3>4. (next = "create" => l + 1 \in Weights(i)) /\ l \in Leaves
      BY <1>i, <1>o, OwnLeaves DEF Own
    <3>5. pl \in Plans /\ pl.linked = plan[p].linked /\ pl.refresh = plan[p].refresh
          /\ pl.leaf = IF next = "create" THEN l + 1 ELSE l
      <4>1. IF next = "create" THEN l + 1 \in Leaves ELSE l \in Leaves
        BY <3>4, <1>o, <1>i, OwnLeaves
      <4> HIDE DEF next, l
      <4>2. QED BY <4>1, <1>t DEF Plans
    <3>6. next \in {"manifest", "projector", "create"} /\ (l = Projector => next = "manifest")
      OBVIOUS
    <3>7. ShapeOf(next, i, pl, fetch[p])
      <4>1. plan[p].refresh => l = Projector /\ plan[p].linked = NoId  BY <1>t DEF ShapeOf
      <4>2. plan[p].linked # NoId => plan[p].linked # i /\ Source[plan[p].linked] = Source[i]
        BY <1>t DEF ShapeOf
      <4>3. next = "create" => pl.leaf \in Own(i)  BY <3>4, <3>5, <1>i, OwnLeaves
      <4>4. pl.refresh => next = "manifest" /\ pl.leaf = Projector /\ pl.linked = NoId
        BY <3>5, <3>6, <4>1
      <4> HIDE DEF next, pl
      <4>5. QED BY <1>i, <3>5, <3>6, <4>2, <4>3, <4>4 DEF ShapeOf, Working, Fetching
    <3> HIDE DEF next, pl
    <3>8. QED BY <2>1, <3>1, <3>2, <3>3, <3>5, <3>6, <3>7, GoesOn DEF PCs, Working
  <2>4. QED BY <2>2, <2>3
<1>3. CASE Cleanup(p)
  <2>1. part' \in Files /\ UNCHANGED <<dirs, file, data, manifest, wish, fetch>>
    BY <1>3, <1>k DEF Cleanup
  <2>2. CASE plan[p].refresh
    BY <1>3, <1>t, <1>p, <1>i, <2>1, <2>2, FinishedShape DEF Cleanup, Working, Ends
  <2>3. CASE ~plan[p].refresh
    <3>1. PICK at \in {"manifest", "delete"} : pc' = [pc EXCEPT ![p] = at]
      BY <1>3, <2>3 DEF Cleanup, Goto
    <3>2. plan' = [plan EXCEPT ![p] = plan[p]] /\ UNCHANGED result
      BY <1>3, <1>t, <2>3 DEF Cleanup
    <3>3. DiskTyped  BY <1>t, <2>1, <3>2 DEF DiskTyped
    <3>4. ShapeOf(at, wish[p], plan[p], fetch[p])
      BY <1>t, <1>p, <1>i, <2>3, <3>1 DEF ShapeOf, Working, Fetching
    <3>5. QED BY <2>1, <3>1, <3>2, <3>3, <3>4, <1>t, GoesOn DEF PCs, Working
  <2>4. QED BY <2>2, <2>3
<1>4. QED BY <1>1, <1>2, <1>3

(* A pull ends.                                                            *)
LEMMA EndShape ==
  ASSUME ShapeInv, removing' \subseteq Ids, NEW p \in Pulls,
         FindProjector(p) \/ WriteManifest(p) \/ ManifestFails(p) \/ Delete(p)
  PROVE  ShapeInv'
<1>t. /\ pc \in [Pulls -> PCs] /\ plan \in [Pulls -> Plans] /\ plan[p] \in Plans
      /\ dirs \subseteq Ids /\ file \in Files /\ part \in Files
      /\ data \in [Inodes -> SUBSET Chunks] /\ manifest \in [Ids -> Manifests]
      /\ result \in [Pulls -> Ids \cup {NoId}]
      /\ ShapeOf(pc[p], wish[p], plan[p], fetch[p])
  BY TypeParts DEF ShapeInv, Shape
<1>p. pc[p] \in {"projector", "manifest", "delete"}
  BY DEF FindProjector, WriteManifest, ManifestFails, Delete
<1>i. wish[p] \in Ids /\ fetch[p] = NoFetch  BY <1>t, <1>p DEF ShapeOf
<1> DEFINE i == wish[p]
<1>o. Projector \in Own(i) /\ Own(i) \subseteq Leaves  BY <1>i, OwnLeaves DEF Own
<1>1. CASE FindProjector(p)
  <2>0. UNCHANGED <<dirs, part, data, manifest, wish, fetch, result>> /\ ~plan[p].refresh
    BY <1>1, <1>t DEF FindProjector, ShapeOf, Fetching
  <2>1. CASE file' \in Files /\ pc' = [pc EXCEPT ![p] = "manifest"]
             /\ \E has \in BOOLEAN : plan' = [plan EXCEPT ![p] = [plan[p] EXCEPT !.mmproj = has]]
    <3>1. PICK has \in BOOLEAN : plan' = [plan EXCEPT ![p] = [plan[p] EXCEPT !.mmproj = has]]
      BY <2>1
    <3> DEFINE pl == [plan[p] EXCEPT !.mmproj = has]
    <3>2. pl \in Plans /\ pl.linked = plan[p].linked /\ pl.refresh = plan[p].refresh
      BY <1>t DEF Plans
    <3>3. plan' = [plan EXCEPT ![p] = pl]  BY <3>1
    <3> HIDE DEF pl
    <3>4. ShapeOf("manifest", i, pl, fetch[p])
      BY <1>t, <1>p, <1>i, <2>0, <3>2 DEF ShapeOf, Working, Fetching
    <3>5. DiskTyped  BY <1>t, <2>0, <2>1 DEF DiskTyped
    <3>6. QED BY <2>0, <2>1, <3>2, <3>3, <3>4, <3>5, GoesOn DEF PCs, Working
  <2>2. CASE Goto(p, "manifest") /\ UNCHANGED <<file, plan>>
    <3>1. plan[p] = [plan[p] EXCEPT !.mmproj = plan[p].mmproj] /\ plan[p].mmproj \in BOOLEAN
      BY <1>t DEF Plans
    <3>2. plan' = [plan EXCEPT ![p] = plan[p]]  BY <2>2, <1>t
    <3>3. QED BY <2>1, <2>2, <3>1, <3>2, <1>t DEF Goto
  <2>3. CASE /\ CanLinkProjector(p) /\ Goto(p, "manifest")
             /\ file' = [file EXCEPT ![i][Projector] = file[plan[p].linked][Projector]]
             /\ plan' = [plan EXCEPT ![p].mmproj = TRUE]
    <3>1. plan[p].linked \in Ids  BY <2>3, <1>t DEF CanLinkProjector, Plans
    <3>2. file[plan[p].linked][Projector] \in Inodes \cup {NoFile}
      BY <3>1, <1>o, <1>t DEF Files
    <3>3. file' \in Files  BY <2>3, <3>2, <1>i, <1>o, <1>t, OneFileTyped
    <3>4. plan' = [plan EXCEPT ![p] = [plan[p] EXCEPT !.mmproj = TRUE]]  BY <2>3, <1>t
    <3>5. QED BY <2>1, <2>3, <3>3, <3>4 DEF Goto
  <2>4. CASE plan' = [plan EXCEPT ![p].mmproj = TRUE] /\ Goto(p, "manifest") /\ UNCHANGED file
    <3>1. plan' = [plan EXCEPT ![p] = [plan[p] EXCEPT !.mmproj = TRUE]]  BY <2>4, <1>t
    <3>2. QED BY <2>1, <2>4, <3>1, <1>t DEF Goto
  <2>5. CASE plan' = [plan EXCEPT ![p].leaf = Projector] /\ Goto(p, "create") /\ UNCHANGED file
    <3> DEFINE pl == [plan[p] EXCEPT !.leaf = Projector]
    <3>1. plan' = [plan EXCEPT ![p] = pl]  BY <2>5, <1>t
    <3>2. pl \in Plans /\ pl.linked = plan[p].linked /\ pl.refresh = plan[p].refresh
          /\ pl.leaf = Projector
      BY <1>t, <1>o DEF Plans
    <3> HIDE DEF pl
    <3>3. ShapeOf("create", i, pl, fetch[p])
      BY <1>t, <1>p, <1>i, <1>o, <2>0, <3>2 DEF ShapeOf, Working, Fetching
    <3>4. DiskTyped  BY <1>t, <2>0, <2>5 DEF DiskTyped
    <3>5. QED BY <2>0, <2>5, <3>1, <3>2, <3>3, <3>4, GoesOn DEF Goto, PCs, Working
  <2>6. QED BY <1>1, <2>2, <2>3, <2>4, <2>5 DEF FindProjector
<1>2. CASE WriteManifest(p)
  <2>1. manifest' \in [Ids -> Manifests]
    <3>1. plan[p].mmproj \in BOOLEAN  BY <1>t DEF Plans
    <3>2. QED BY <1>2, <1>t, <1>i, <3>1 DEF WriteManifest, Manifests
  <2>2. dirs' \subseteq Ids /\ UNCHANGED <<file, part, data, wish, fetch>>
    BY <1>2, <1>t, <1>i DEF WriteManifest
  <2>3. Finished(p, IF plan[p].refresh THEN "present" ELSE "done", i)  BY <1>2 DEF WriteManifest
  <2>4. QED BY <1>t, <1>p, <1>i, <2>1, <2>2, <2>3, FinishedShape DEF Working, Ends
<1>3. CASE ManifestFails(p)
  <2>1. UNCHANGED <<disk, wish, fetch>>  BY <1>3 DEF ManifestFails
  <2>2. ASSUME NEW end \in Ends, NEW h \in Ids \cup {NoId}, Finished(p, end, h) PROVE ShapeInv'
    BY <1>t, <1>p, <2>1, <2>2, FinishedShape DEF disk, Working
  <2>3. CASE plan[p].linked # NoId /\ Goto(p, "delete") /\ UNCHANGED <<plan, result>>
    <3>1. plan' = [plan EXCEPT ![p] = plan[p]]  BY <2>3, <1>t
    <3>2. DiskTyped  BY <1>t, <2>1, <2>3 DEF DiskTyped, disk
    <3>3. ShapeOf("delete", i, plan[p], fetch[p])
      BY <1>t, <1>i, <2>3 DEF ShapeOf, Working, Fetching
    <3>4. QED BY <1>t, <2>1, <2>3, <3>1, <3>2, <3>3, GoesOn DEF Goto, PCs, Working
  <2>4. QED BY <1>3, <1>i, <2>2, <2>3 DEF ManifestFails, Ends
<1>4. CASE Delete(p)
  <2>1. /\ dirs' \subseteq Ids /\ file' \in Files /\ part' \in Files
        /\ manifest' \in [Ids -> Manifests] /\ UNCHANGED <<data, wish, fetch>>
    BY <1>4, <1>i, UnlinkTyped DEF Delete, ShapeInv
  <2>2. CASE Finished(p, "failed", NoId)
    BY <1>4, <1>t, <1>p, <2>1, <2>2, FinishedShape DEF Delete, Working, Ends
  <2>3. CASE UNCHANGED <<pc, plan, result>>
    <3>1. pc' = [pc EXCEPT ![p] = pc[p]] /\ plan' = [plan EXCEPT ![p] = plan[p]] /\ pc[p] \in PCs
      BY <2>3, <1>t
    <3>2. DiskTyped  BY <1>t, <2>1, <2>3 DEF DiskTyped
    <3>3. QED BY <1>t, <2>1, <3>1, <3>2, GoesOn
  <2>4. QED BY <1>4, <2>2, <2>3 DEF Delete
<1>5. QED BY <1>1, <1>2, <1>3, <1>4

LEMMA KillShape ==
  ASSUME ShapeInv, removing' \subseteq Ids, NEW p \in Pulls, Kill(p)
  PROVE  ShapeInv'
<1>t. /\ wish \in [Pulls -> Ids \cup {NoId}] /\ wish[p] \in Ids
      /\ dirs \subseteq Ids /\ file \in Files /\ part \in Files
      /\ data \in [Inodes -> SUBSET Chunks] /\ manifest \in [Ids -> Manifests]
      /\ result \in [Pulls -> Ids \cup {NoId}]
  BY TypeParts DEF ShapeInv, Shape, ShapeOf, Kill, Working
<1>1. Acts(p, "killed", wish[p], NoPlan, NoFetch)
  BY <1>t DEF Kill, Finished, Goto, EndFetch, Acts
<1>2. DiskTyped  BY <1>t DEF Kill, Finished, DiskTyped, disk
<1>3. ShapeOf("killed", wish[p], NoPlan, NoFetch)
  BY <1>t, NothingsTyped DEF ShapeOf, Working, Fetching
<1>4. QED BY <1>t, <1>1, <1>2, <1>3, NothingsTyped, ShapeKept DEF PCs

LEMMA StepShape == ShapeInv /\ [Next]_vars => ShapeInv'
<1> SUFFICES ASSUME ShapeInv, [Next]_vars PROVE ShapeInv'  OBVIOUS
<1>1. CASE UNCHANGED vars
  BY <1>1, TypeParts DEF vars, disk, ShapeInv, Shape, TypeOK, Files, PCs, Plans, Fetches
<1>r. removing \subseteq Ids  BY TypeParts DEF ShapeInv
<1>2. ASSUME NEW p \in Pulls, Pull(p) PROVE ShapeInv'
  <2>1. removing' \subseteq Ids  BY <1>2, <1>r DEF Pull
  <2>2. QED BY <1>2, <2>1, LinkShape, FetchShape, NameShape, EndShape DEF Pull
<1>3. ASSUME NEW i \in Ids, Remove(i) \/ RemoveOn(i) PROVE ShapeInv'
  <2>1. /\ dirs' \subseteq Ids /\ file' \in Files /\ part' \in Files
        /\ manifest' \in [Ids -> Manifests] /\ UNCHANGED data
    BY <1>3, UnlinkTyped DEF Remove, RemoveOn, ShapeInv
  <2>2. UNCHANGED <<pc, wish, plan, fetch, result>> /\ removing' \subseteq Ids
    BY <1>3, <1>r DEF Remove, RemoveOn
  <2>3. Shape'  BY <2>2 DEF ShapeInv, Shape
  <2>4. TypeOK'  BY <2>1, <2>2 DEF ShapeInv, TypeOK, Files
  <2>5. QED BY <2>3, <2>4 DEF ShapeInv
<1>4. ASSUME NEW p \in Pulls, Kill(p) PROVE ShapeInv'
  BY <1>4, <1>r, KillShape DEF Kill
<1>5. ASSUME NEW p \in Pulls, NEW i \in Ids, PullPresent(p, i) \/ PullProjector(p, i) \/ PullNew(p, i)
      PROVE  ShapeInv'
  <2>1. removing' \subseteq Ids  BY <1>5, <1>r DEF PullPresent, PullProjector, PullNew, Begin
  <2>2. QED BY <1>5, <2>1, BeginShape
<1>6. QED BY <1>1, <1>2, <1>3, <1>4, <1>5 DEF Next

(* Every variable holds what the code can put in it, however pulls overlap.*)
THEOREM StoreTypeCorrect == Spec => []TypeOK
<1>1. Spec => []ShapeInv  BY InitShape, StepShape, PTL DEF Spec
<1>2. ShapeInv => TypeOK  BY DEF ShapeInv
<1>3. QED BY <1>1, <1>2, PTL

-----------------------------------------------------------------------------
(* The disk, while no model is pulled or removed during a pull of it.      *)

(* The pull has made this file of its model, or will not make it any more. *)
PastAt(at, pl, l) ==
  \/ at \in Ends \cup {"manifest", "delete"}
  \/ l # Projector /\ at = "projector"
  \/ l # Projector /\ at \in Fetching /\ (pl.leaf = Projector \/ l < pl.leaf)

Past(p, l) == PastAt(pc[p], plan[p], l)

(* A final name is a whole file of that model, that nobody writes again:   *)
(* whoever made it is past it, and it has no .part name.                   *)
FileOK(i, l) ==
  file[i][l] # NoFile =>
    /\ Whole(i, l, file[i][l]) /\ l \in Own(i) /\ Past(file[i][l][1], l)
    /\ \A j \in Ids : part[j][l] # file[i][l]

(* A .part name is the file that a pull of that model began.               *)
PartOK(i, l) ==
  part[i][l] # NoFile => /\ part[i][l][2] = l
                         /\ wish[part[i][l][1]] = i /\ pc[part[i][l][1]] # "idle"

(* How far a pull's model is there, and how far its .part file.            *)
ProgressOf(at, i, pl, f) ==
  /\ ~pl.refresh => manifest[i] = NoManifest
  /\ at \in {"resolve", "reuse"} => ~Present(i)
  /\ at \in {"link", "undo"} => \A m \in Leaves : file[i][m] # NoFile <=> m \in 1..(pl.leaf - 1)
  /\ at \in Fetching /\ pl.leaf # Projector => \A m \in 1..(pl.leaf - 1) : file[i][m] # NoFile
  /\ at \in {"projector", "manifest"} \/ (at \in Fetching /\ pl.leaf = Projector) => Usable(i)
  /\ at \in {"fetch", "stream"} =>
       /\ part[i][pl.leaf] # NoFile /\ f.got \subseteq data[part[i][pl.leaf]]
       /\ \A c \in Chunks : f.open[c] \in {NoFile, part[i][pl.leaf]}
  /\ at \in {"verify", "rename"} =>
       part[i][pl.leaf] # NoFile /\ data[part[i][pl.leaf]] = Chunks

ProgressOK(p) == pc[p] \in Working => ProgressOf(pc[p], wish[p], plan[p], fetch[p])

(* A manifest means weights that can be loaded; files without them mean a  *)
(* pull that is running or was killed; but for a model that is removed,    *)
(* and that nobody pulls.                                                  *)
ManifestOK(i) == manifest[i] # NoManifest => Usable(i) \/ i \in removing
HalfOK(i) ==
  Present(i) => \/ Usable(i) \/ i \in removing
                \/ \E p \in Pulls : wish[p] = i /\ pc[p] \in Working \cup {"killed"}

Alone ==
  \A p, q \in Pulls : pc[p] \in Working /\ pc[q] \in Working /\ wish[p] = wish[q] => p = q

Apart == \A i \in removing : ~Pulling(i)

StoreInv ==
  /\ ShapeInv /\ Alone /\ Apart
  /\ \A i \in Ids, l \in Leaves : FileOK(i, l) /\ PartOK(i, l)
  /\ \A p \in Pulls : ProgressOK(p)
  /\ \A i \in Ids : ManifestOK(i) /\ HalfOK(i)

LEMMA RemovingTyped == StoreInv /\ UNCHANGED removing => removing' \subseteq Ids
BY TypeParts DEF StoreInv, ShapeInv

LEMMA InitStore == Init => StoreInv
<1> SUFFICES ASSUME Init PROVE StoreInv  OBVIOUS
<1>1. ShapeInv  BY InitShape
<1>2. QED
  BY <1>1 DEF Init, StoreInv, Alone, Apart, FileOK, PartOK, ProgressOK, ManifestOK, HalfOK, Present, Working

-----------------------------------------------------------------------------
(* What a step leaves of it.  A step of pull `p` leaves the other pulls    *)
(* where they are, takes `p` no way back, empties no file that has a final *)
(* name, and makes no .part name but of its own new file.                  *)

Mine(p) ==
  /\ \A q \in Pulls \ {p} :
       pc'[q] = pc[q] /\ wish'[q] = wish[q] /\ plan'[q] = plan[q] /\ fetch'[q] = fetch[q]
  /\ pc'[p] # "idle" /\ (pc[p] # "idle" => wish'[p] = wish[p])
  /\ removing' = removing
  /\ \A l \in Leaves : Past(p, l) => Past(p, l)'

InFile(n) == \E i \in Ids, l \in Leaves : file[i][l] = n

DataStays == \A n \in Inodes : InFile(n) => data[n] \subseteq data'[n]

PartsStay(p) ==
  \A i \in Ids, l \in Leaves :
    \/ part'[i][l] \in {NoFile, part[i][l]}
    \/ /\ part'[i][l] = <<p, l>> /\ ~Past(p, l)
       /\ i = wish[p] /\ pc[p] # "idle"

LEMMA FileStays ==
  ASSUME StoreInv, ShapeInv', NEW p \in Pulls, Mine(p), DataStays, PartsStay(p),
         NEW i \in Ids, NEW l \in Leaves, file'[i][l] \in {file[i][l], NoFile}
  PROVE  FileOK(i, l)'
<1>0. SUFFICES ASSUME NEW n, file[i][l] = n, file'[i][l] = n, n # NoFile PROVE FileOK(i, l)'
  BY DEF FileOK
<1>1. n \in Inodes /\ n[1] \in Pulls /\ data[n] \in SUBSET Chunks /\ data'[n] \in SUBSET Chunks
  BY <1>0, TypeParts DEF StoreInv, ShapeInv, Files, Inodes, TypeOK
<1>2. /\ data[n] = Chunks /\ n[2] = l /\ Source[wish[n[1]]] = Source[i]
      /\ l \in Own(i) /\ Past(n[1], l) /\ \A j \in Ids : part[j][l] # n
  BY <1>0 DEF StoreInv, FileOK, Whole
<1>3. data'[n] = Chunks  BY <1>0, <1>1, <1>2 DEF DataStays, InFile
<1>4. pc[n[1]] # "idle"  BY <1>2 DEF Past, PastAt, Ends, Fetching
<1>5. wish'[n[1]] = wish[n[1]]  BY <1>1, <1>4 DEF Mine
<1>6. Past(n[1], l)'
  <2>1. CASE n[1] = p  BY <1>2, <2>1 DEF Mine
  <2>2. CASE n[1] # p
    <3>1. pc'[n[1]] = pc[n[1]] /\ plan'[n[1]] = plan[n[1]]  BY <1>1, <2>2 DEF Mine
    <3>2. QED BY <1>2, <3>1 DEF Past
  <2>3. QED BY <2>1, <2>2
<1>7. ASSUME NEW j \in Ids PROVE part'[j][l] # n
  <2>1. CASE part'[j][l] \in {NoFile, part[j][l]}  BY <1>0, <1>2, <2>1
  <2>2. CASE part'[j][l] = <<p, l>> /\ ~Past(p, l)  BY <1>2, <2>2
  <2>3. QED BY <2>1, <2>2 DEF PartsStay
<1>8. QED
  <2>1. Whole(i, l, n)'  BY <1>0, <1>2, <1>3, <1>5 DEF Whole
  <2>2. Past(file[i][l][1], l)' /\ Whole(i, l, file[i][l])'  BY <1>0, <1>6, <2>1
  <2>3. \A j \in Ids : part'[j][l] # file'[i][l]  BY <1>0, <1>7
  <2>4. QED BY <1>2, <2>2, <2>3 DEF FileOK, Own, Weights

LEMMA PartStays ==
  ASSUME StoreInv, NEW p \in Pulls, Mine(p), PartsStay(p), NEW i \in Ids, NEW l \in Leaves
  PROVE  PartOK(i, l)'
<1>1. CASE part'[i][l] = NoFile  BY <1>1 DEF PartOK
<1>2. CASE part'[i][l] = part[i][l] /\ part[i][l] # NoFile
  <2>1. part[i][l] \in Inodes /\ part[i][l][1] \in Pulls
    BY <1>2, TypeParts DEF StoreInv, ShapeInv, Files, Inodes
  <2>2. part[i][l][2] = l /\ wish[part[i][l][1]] = i /\ pc[part[i][l][1]] # "idle"
    BY <1>2 DEF StoreInv, PartOK
  <2>3. wish'[part[i][l][1]] = i /\ pc'[part[i][l][1]] # "idle"  BY <2>1, <2>2 DEF Mine
  <2>4. QED BY <1>2, <2>2, <2>3 DEF PartOK
<1>3. CASE part'[i][l] = <<p, l>> /\ i = wish[p] /\ pc[p] # "idle"
  BY <1>3 DEF PartOK, Mine
<1>4. QED BY <1>1, <1>2, <1>3 DEF PartsStay

LEMMA UsableStays ==
  ASSUME StoreInv, ShapeInv', NEW p \in Pulls, Mine(p), DataStays,
         NEW i \in Ids, Usable(i), \A l \in Weights(i) : file'[i][l] = file[i][l]
  PROVE  Usable(i)'
<1>1. ASSUME NEW l \in Weights(i) PROVE Whole(i, l, file[i][l])'
  <2> DEFINE n == file[i][l]
  <2>1. l \in Leaves  BY OwnLeaves
  <2>2. n # NoFile /\ data[n] = Chunks /\ n[2] = l /\ Source[wish[n[1]]] = Source[i]
    BY DEF Usable, Whole
  <2>3. n \in Inodes /\ n[1] \in Pulls /\ data'[n] \in SUBSET Chunks
    BY <2>1, <2>2, TypeParts DEF StoreInv, ShapeInv, Files, Inodes, TypeOK
  <2>4. data'[n] = Chunks  BY <2>1, <2>2, <2>3 DEF DataStays, InFile
  <2>5. Past(n[1], l)  BY <2>1, <2>2 DEF StoreInv, FileOK
  <2>6. wish'[n[1]] = wish[n[1]]  BY <2>3, <2>5 DEF Mine, Past, PastAt, Ends, Fetching
  <2>7. file'[i][l] = n  OBVIOUS
  <2> HIDE DEF n
  <2>8. QED BY <2>2, <2>4, <2>6, <2>7 DEF Whole
<1>2. QED BY <1>1 DEF Usable, Weights

(* Another pull's model and .part file are as they were.                   *)
LEMMA OtherPull ==
  ASSUME StoreInv, ShapeInv', NEW p \in Pulls, Mine(p), DataStays,
         NEW q \in Pulls, q # p, NEW i \in Ids, i = wish[q],
         \A m \in Leaves : file'[i][m] = file[i][m] /\ part'[i][m] = part[i][m],
         manifest'[i] = manifest[i],
         part[i][plan[q].leaf] # NoFile =>
           data[part[i][plan[q].leaf]] \subseteq data'[part[i][plan[q].leaf]]
  PROVE  ProgressOK(q)'
<1>1. /\ pc'[q] = pc[q] /\ wish'[q] = i /\ plan'[q] = plan[q] /\ fetch'[q] = fetch[q]
  BY DEF Mine
<1>2. SUFFICES ASSUME pc[q] \in Working, NEW at, NEW pl, NEW f,
                      at = pc[q], pl = plan[q], f = fetch[q]
               PROVE  ProgressOf(at, i, pl, f)'
  BY <1>1 DEF ProgressOK
<1>3. ProgressOf(at, i, pl, f)  BY <1>2 DEF StoreInv, ProgressOK
<1>4. pl.leaf \in Leaves
  BY <1>2, TypeParts DEF StoreInv, ShapeInv, Plans
<1>5. Present(i)' = Present(i)  BY DEF Present
<1>6. Usable(i) => Usable(i)'  BY UsableStays, OwnLeaves
<1>7. part[i][pl.leaf] # NoFile =>
        /\ data'[part[i][pl.leaf]] \in SUBSET Chunks
        /\ data[part[i][pl.leaf]] \subseteq data'[part[i][pl.leaf]]
  BY <1>2, <1>4, TypeParts DEF StoreInv, ShapeInv, Files, TypeOK
<1>8. part'[i][pl.leaf] = part[i][pl.leaf] /\ manifest'[i] = manifest[i]  BY <1>4
<1>9. \A m \in Leaves : file'[i][m] = file[i][m]  OBVIOUS
<1>10. ASSUME at \in Fetching, pl.leaf # Projector PROVE 1..(pl.leaf - 1) \subseteq Leaves
  <2>1. pl.leaf \in Weights(i)  BY <1>2, <1>10 DEF StoreInv, ShapeInv, Shape, ShapeOf, Own
  <2>2. QED BY <2>1, OwnLeaves
<1>11. /\ ~pl.refresh => manifest'[i] = NoManifest
       /\ at \in {"resolve", "reuse"} => ~Present(i)'
       /\ at \in {"projector", "manifest"} \/ (at \in Fetching /\ pl.leaf = Projector) => Usable(i)'
  BY <1>3, <1>5, <1>6, <1>8 DEF ProgressOf
<1>12. /\ at \in {"link", "undo"} => \A m \in Leaves : file'[i][m] # NoFile <=> m \in 1..(pl.leaf - 1)
       /\ at \in Fetching /\ pl.leaf # Projector => \A m \in 1..(pl.leaf - 1) : file'[i][m] # NoFile
  BY <1>3, <1>9, <1>10 DEF ProgressOf
<1>13. at \in {"fetch", "stream"} =>
         /\ part'[i][pl.leaf] # NoFile /\ f.got \subseteq data'[part'[i][pl.leaf]]
         /\ \A c \in Chunks : f.open[c] \in {NoFile, part'[i][pl.leaf]}
  <2> SUFFICES ASSUME at \in {"fetch", "stream"}
               PROVE  /\ part'[i][pl.leaf] # NoFile /\ f.got \subseteq data'[part'[i][pl.leaf]]
                      /\ \A c \in Chunks : f.open[c] \in {NoFile, part'[i][pl.leaf]}
    OBVIOUS
  <2>1. /\ part[i][pl.leaf] # NoFile /\ f.got \subseteq data[part[i][pl.leaf]]
        /\ \A c \in Chunks : f.open[c] \in {NoFile, part[i][pl.leaf]}
    BY <1>3 DEF ProgressOf
  <2>2. QED BY <2>1, <1>7, <1>8
<1>14. at \in {"verify", "rename"} =>
         part'[i][pl.leaf] # NoFile /\ data'[part'[i][pl.leaf]] = Chunks
  <2> SUFFICES ASSUME at \in {"verify", "rename"}
               PROVE  part'[i][pl.leaf] # NoFile /\ data'[part'[i][pl.leaf]] = Chunks
    OBVIOUS
  <2>1. part[i][pl.leaf] # NoFile /\ data[part[i][pl.leaf]] = Chunks  BY <1>3 DEF ProgressOf
  <2>2. data'[part[i][pl.leaf]] \subseteq Chunks /\ Chunks \subseteq data'[part[i][pl.leaf]]
    BY <2>1, <1>7
  <2>3. QED BY <2>1, <2>2, <1>8
<1>15. QED
  BY <1>11, <1>12, <1>13, <1>14 DEF ProgressOf

(* All models but the pull's own are as they were, and so is that one, if  *)
(* the pull was not working on it.                                         *)
Same(j) ==
  /\ \A m \in Leaves : file'[j][m] = file[j][m] /\ part'[j][m] = part[j][m]
  /\ manifest'[j] = manifest[j]
  /\ \A m \in Leaves : part[j][m] # NoFile => data[part[j][m]] \subseteq data'[part[j][m]]

LEMMA Rest ==
  ASSUME StoreInv, ShapeInv', NEW p \in Pulls, Mine(p), DataStays, PartsStay(p),
         NEW i \in Ids, i = wish'[p],
         \A j \in Ids \ {i} : Same(j), pc[p] \in Working \/ Same(i),
         pc'[p] \in Working => pc[p] \in Working \/ (~Pulling(i) /\ i \notin removing),
         \A l \in Leaves : FileOK(i, l)',
         ProgressOK(p)', ManifestOK(i)', HalfOK(i)'
  PROVE  StoreInv'
<1>t. wish \in [Pulls -> Ids \cup {NoId}] /\ pc \in [Pulls -> PCs]
  BY TypeParts DEF StoreInv, ShapeInv
<1>w. pc[p] \in Working => wish[p] = i  BY DEF Mine, Working
<1>1. Alone'
  <2> SUFFICES ASSUME NEW q \in Pulls, NEW r \in Pulls, pc'[q] \in Working, pc'[r] \in Working,
                      wish'[q] = wish'[r], q # r
               PROVE  FALSE
    BY DEF Alone
  <2>1. CASE q # p /\ r # p  BY <2>1 DEF Mine, StoreInv, Alone
  <2>2. ASSUME NEW s \in Pulls, s # p, pc'[s] \in Working, wish'[s] = i, pc'[p] \in Working PROVE FALSE
    <3>1. pc[s] \in Working /\ wish[s] = i  BY <2>2 DEF Mine
    <3>2. Pulling(i)  BY <3>1 DEF Pulling
    <3>3. pc[p] \in Working  BY <2>2, <3>2
    <3>4. QED BY <2>2, <3>1, <3>3, <1>w DEF StoreInv, Alone
  <2>3. QED BY <2>1, <2>2
<1>2. ASSUME NEW j \in Ids, NEW l \in Leaves PROVE FileOK(j, l)' /\ PartOK(j, l)'
  <2>1. PartOK(j, l)'  BY PartStays
  <2>2. CASE j = i  BY <2>1, <2>2
  <2>3. CASE j # i
    <3>1. file'[j][l] = file[j][l]  BY <2>3 DEF Same
    <3>2. QED BY <2>1, <3>1, FileStays
  <2>4. QED BY <2>2, <2>3
<1>3. ASSUME NEW q \in Pulls PROVE ProgressOK(q)'
  <2>1. CASE q = p  BY <2>1
  <2>2. CASE q # p /\ pc[q] \notin Working
    BY <2>2 DEF Mine, ProgressOK
  <2>3. CASE q # p /\ pc[q] \in Working
    <3>1. wish[q] \in Ids /\ plan[q].leaf \in Leaves
      BY <2>3, TypeParts DEF StoreInv, ShapeInv, Shape, ShapeOf, Plans, Working
    <3>2. wish[q] # i \/ pc[p] \notin Working  BY <2>3, <1>w DEF StoreInv, Alone
    <3>3. Same(wish[q])  BY <3>1, <3>2
    <3>4. QED BY <2>3, <3>1, <3>3, OtherPull DEF Same
  <2>4. QED BY <2>1, <2>2, <2>3
<1>4. ASSUME NEW j \in Ids PROVE ManifestOK(j)' /\ HalfOK(j)'
  <2>1. CASE j = i  BY <2>1
  <2>2. CASE j # i
    <3>1. Usable(j) => Usable(j)'
      <4>1. \A l \in Weights(j) : file'[j][l] = file[j][l]  BY <2>2, OwnLeaves DEF Same
      <4>2. QED BY <4>1, UsableStays
    <3>2. manifest'[j] = manifest[j] /\ (Present(j)' = Present(j))
      BY <2>2 DEF Same, Present
    <3>3. ManifestOK(j)'  BY <3>1, <3>2 DEF StoreInv, ManifestOK, Mine
    <3>4. ASSUME NEW q \in Pulls, wish[q] = j, pc[q] \in Working \cup {"killed"}
          PROVE  wish'[q] = j /\ pc'[q] \in Working \cup {"killed"}
      <4>1. q # p
        BY <2>2, <3>4 DEF Mine, Working
      <4>2. QED BY <3>4, <4>1 DEF Mine
    <3>5. HalfOK(j)'  BY <3>1, <3>2, <3>4 DEF StoreInv, HalfOK, Mine
    <3>6. QED BY <3>3, <3>5
  <2>3. QED BY <2>1, <2>2
<1>5. Apart'
  <2> SUFFICES ASSUME NEW j \in removing, NEW q \in Pulls, pc'[q] \in Working, wish'[q] = j
               PROVE  FALSE
    BY DEF Apart, Pulling, Mine
  <2>1. CASE q # p  BY <2>1 DEF Mine, StoreInv, Apart, Pulling
  <2>2. CASE q = p
    <3>1. pc[p] \in Working /\ wish[p] = i  BY <2>2, <1>w
    <3>2. QED BY <2>2, <3>1 DEF StoreInv, Apart, Pulling
  <2>3. QED BY <2>1, <2>2
<1>6. QED BY <1>1, <1>2, <1>3, <1>4, <1>5 DEF StoreInv

-----------------------------------------------------------------------------
(* Each step, with a model that only one pull works on.                    *)

(* A pull goes on with its model, or ends.                                 *)
LEMMA Moves ==
  ASSUME StoreInv, UNCHANGED removing, NEW p \in Pulls, pc[p] \in Working,
         NEW at \in PCs \ {"idle"}, NEW pl \in Plans, NEW f \in Fetches,
         pc' = [pc EXCEPT ![p] = at], plan' = [plan EXCEPT ![p] = pl],
         fetch' = [fetch EXCEPT ![p] = f], wish' = wish,
         \A l \in Leaves : Past(p, l) => PastAt(at, pl, l)
  PROVE  /\ Mine(p) /\ wish[p] \in Ids
         /\ pc'[p] = at /\ plan'[p] = pl /\ fetch'[p] = f /\ wish'[p] = wish[p]
<1>t. /\ pc \in [Pulls -> PCs] /\ plan \in [Pulls -> Plans] /\ fetch \in [Pulls -> Fetches]
      /\ ShapeOf(pc[p], wish[p], plan[p], fetch[p])
  BY TypeParts DEF StoreInv, ShapeInv, Shape
<1>1. wish[p] \in Ids  BY <1>t DEF ShapeOf, Working
<1>2. pc'[p] = at /\ plan'[p] = pl /\ fetch'[p] = f /\ wish'[p] = wish[p]  BY <1>t
<1>3. \A q \in Pulls \ {p} :
        pc'[q] = pc[q] /\ wish'[q] = wish[q] /\ plan'[q] = plan[q] /\ fetch'[q] = fetch[q]
  BY <1>t
<1>4. \A l \in Leaves : Past(p, l) => Past(p, l)'  BY <1>2 DEF Past
<1>5. QED BY <1>1, <1>2, <1>3, <1>4 DEF Mine

(* A step that only adds to what is on disk.                               *)
LEMMA DiskStill ==
  ASSUME StoreInv, ShapeInv', NEW p \in Pulls, Mine(p), UNCHANGED <<file, part, manifest>>,
         \A n \in Inodes : data[n] \subseteq data'[n],
         NEW i \in Ids, i = wish'[p], pc[p] \in Working \cup {"idle"},
         pc'[p] \in Working => pc[p] \in Working \/ (~Pulling(i) /\ i \notin removing),
         Present(i) /\ pc[p] \in Working => Usable(i) \/ pc'[p] \in Working \cup {"killed"},
         ProgressOK(p)'
  PROVE  StoreInv'
<1>1. DataStays  BY DEF DataStays
<1>2. PartsStay(p)  BY DEF PartsStay
<1>3. ASSUME NEW j \in Ids PROVE Same(j)
  <2>1. \A m \in Leaves : part[j][m] # NoFile => part[j][m] \in Inodes
    BY TypeParts DEF StoreInv, ShapeInv, Files
  <2>2. QED BY <2>1 DEF Same
<1>4. \A l \in Leaves : FileOK(i, l)'  BY <1>1, <1>2, FileStays
<1>5. Usable(i) => Usable(i)'  BY <1>1, UsableStays
<1>6. ManifestOK(i)'  BY <1>5 DEF StoreInv, ManifestOK, Mine
<1>7. HalfOK(i)'
  <2> SUFFICES ASSUME Present(i), ~Usable(i), i \notin removing
               PROVE  \E q \in Pulls : wish'[q] = i /\ pc'[q] \in Working \cup {"killed"}
    BY <1>5 DEF HalfOK, Present, Mine
  <2>1. PICK q \in Pulls : wish[q] = i /\ pc[q] \in Working \cup {"killed"}
    BY DEF StoreInv, HalfOK
  <2>2. CASE q # p  BY <2>1, <2>2 DEF Mine
  <2>3. CASE q = p  BY <2>1, <2>3 DEF Working
  <2>4. QED BY <2>2, <2>3
<1>8. QED BY <1>1, <1>2, <1>3, <1>4, <1>6, <1>7, Rest

(* A pull goes on, and has changed files of its model.                     *)
LEMMA Onward ==
  ASSUME StoreInv, ShapeInv', NEW p \in Pulls, Mine(p), DataStays, PartsStay(p),
         pc[p] \in Working, pc'[p] \in Working,
         NEW i \in Ids, i = wish[p], \A j \in Ids \ {i} : Same(j),
         \A l \in Leaves : FileOK(i, l)', ProgressOK(p)', manifest'[i] = manifest[i],
         manifest[i] = NoManifest \/ \A l \in Weights(i) : file'[i][l] = file[i][l]
  PROVE  StoreInv'
<1>1. wish'[p] = i  BY DEF Mine, Working
<1>2. ManifestOK(i)'
  <2> SUFFICES ASSUME manifest[i] # NoManifest PROVE Usable(i)'  BY DEF ManifestOK
  <2>1. Usable(i)  BY DEF StoreInv, ManifestOK, Apart, Pulling
  <2>2. QED BY <2>1, UsableStays
<1>3. HalfOK(i)'  BY <1>1 DEF HalfOK
<1>4. QED BY <1>1, <1>2, <1>3, Rest

LEMMA UsablePresent ==
  ASSUME NEW i \in Ids, Usable(i)
  PROVE  Present(i)
BY OwnLeaves DEF Usable, Present, Whole

(* A model that is there is not pulled again; and of a catalog model, one  *)
(* file is all its weights.                                                *)
LEMMA BeginStore ==
  ASSUME StoreInv, ~Overlap, NEW p \in Pulls, NEW i \in Ids,
         PullPresent(p, i) \/ PullProjector(p, i) \/ PullNew(p, i)
  PROVE  StoreInv'
<1>r. removing' \subseteq Ids
  BY TypeParts DEF StoreInv, ShapeInv, PullPresent, PullProjector, PullNew, Begin
<1>s. ShapeInv /\ ShapeInv'  BY <1>r, BeginShape DEF StoreInv
<1>t. /\ pc \in [Pulls -> PCs] /\ wish \in [Pulls -> Ids \cup {NoId}]
      /\ plan \in [Pulls -> Plans] /\ fetch \in [Pulls -> Fetches]
  BY <1>s, TypeParts DEF ShapeInv
<1>0. /\ pc[p] = "idle" /\ wish' = [wish EXCEPT ![p] = i] /\ UNCHANGED <<disk, fetch>>
      /\ ~Pulling(i) /\ i \notin removing /\ removing' = removing
  BY DEF PullPresent, PullProjector, PullNew, Begin
<1>1. plan[p] = NoPlan  BY <1>0, <1>s DEF ShapeInv, Shape, ShapeOf, Working
<1>2. PICK at \in {"present", "create", "resolve"}, pl \in Plans :
        pc' = [pc EXCEPT ![p] = at] /\ plan' = [plan EXCEPT ![p] = pl]
  <2>1. CASE PullPresent(p, i)  BY <2>1, NothingsTyped DEF PullPresent, Finished, Goto
  <2>2. CASE PullProjector(p, i)
    <3>1. [NoPlan EXCEPT !.refresh = TRUE] \in Plans  BY NothingsTyped DEF Plans
    <3>2. QED BY <2>2, <3>1, <1>1, <1>t DEF PullProjector, Goto
  <2>3. CASE PullNew(p, i)
    <3>1. [NoPlan EXCEPT !.leaf = 1] \in Plans  BY NothingsTyped, OwnLeaves DEF Plans
    <3>2. QED BY <2>3, <3>1, <1>1, <1>t DEF PullNew, Goto
  <2>4. QED BY <2>1, <2>2, <2>3
<1>3. pc'[p] = at /\ plan'[p] = pl /\ wish'[p] = i /\ fetch'[p] = fetch[p]  BY <1>0, <1>2, <1>t
<1>4. Mine(p)
  <2>1. \A q \in Pulls \ {p} :
          pc'[q] = pc[q] /\ wish'[q] = wish[q] /\ plan'[q] = plan[q] /\ fetch'[q] = fetch[q]
    BY <1>0, <1>2, <1>t
  <2>2. \A l \in Leaves : ~Past(p, l)  BY <1>0 DEF Past, PastAt, Ends, Fetching
  <2>3. QED BY <1>0, <1>3, <2>1, <2>2 DEF Mine
<1>5. ProgressOK(p)'
  <2>1. CASE PullPresent(p, i)
    <3>1. pc'[p] = "present"  BY <2>1, <1>t DEF PullPresent, Finished, Goto
    <3>2. QED BY <3>1 DEF ProgressOK, Working
  <2>2. CASE PullProjector(p, i)
    <3>1. pc'[p] = "create" /\ plan'[p].refresh /\ plan'[p].leaf = Projector
      BY <2>2, <1>t, <1>1, NothingsTyped DEF PullProjector, Goto, Plans
    <3>2. Usable(i)
      <4>1. PICK l \in Leaves : file[i][l] # NoFile  BY <2>2 DEF PullProjector, Present
      <4>2. l # Projector /\ Whole(i, l, file[i][l]) /\ l \in Own(i)
        BY <2>2, <4>1 DEF PullProjector, LacksProjector, StoreInv, FileOK
      <4>3. Shards[Source[i]] = 1
        BY <2>2, StoreAssumption DEF PullProjector, LacksProjector
      <4>4. Weights(i) = {1}  BY <4>3, OwnLeaves
      <4>5. QED BY <4>2, <4>4 DEF Usable, Own
    <3>3. Usable(i)'
      <4>1. DataStays  BY <1>0 DEF DataStays, disk
      <4>2. QED BY <1>0, <1>4, <1>s, <3>2, <4>1, UsableStays DEF disk
    <3>4. QED BY <1>3, <3>1, <3>3 DEF ProgressOK, ProgressOf, Fetching
  <2>3. CASE PullNew(p, i)
    <3>1. pc'[p] = "resolve"  BY <2>3, <1>t DEF PullNew, Goto
    <3>2. ~Present(i)  BY <2>3 DEF PullNew
    <3>3. manifest[i] = NoManifest  BY <1>0, <3>2, UsablePresent DEF StoreInv, ManifestOK
    <3>4. ~Present(i)' /\ manifest'[i] = NoManifest  BY <1>0, <3>2, <3>3 DEF disk, Present
    <3>5. QED BY <1>3, <3>1, <3>4 DEF ProgressOK, ProgressOf, Fetching
  <2>4. QED BY <2>1, <2>2, <2>3
<1>6. UNCHANGED <<file, part, manifest>> /\ \A n \in Inodes : data[n] \subseteq data'[n]
  BY <1>0 DEF disk
<1>7. QED BY <1>0, <1>3, <1>4, <1>5, <1>6, <1>s, DiskStill DEF Working

(* What is known of a pull that is at work.                                *)
LEMMA AtWork ==
  ASSUME StoreInv, NEW p \in Pulls, pc[p] \in Working
  PROVE  /\ wish[p] \in Ids /\ plan[p] \in Plans /\ fetch[p] \in Fetches
         /\ plan[p].leaf \in Leaves /\ plan[p].linked \in Ids \cup {NoId}
         /\ plan = [plan EXCEPT ![p] = plan[p]] /\ fetch = [fetch EXCEPT ![p] = fetch[p]]
         /\ plan \in [Pulls -> Plans] /\ fetch \in [Pulls -> Fetches] /\ pc \in [Pulls -> PCs]
         /\ file \in Files /\ part \in Files /\ data \in [Inodes -> SUBSET Chunks]
         /\ manifest \in [Ids -> Manifests]
         /\ ShapeOf(pc[p], wish[p], plan[p], fetch[p])
         /\ ProgressOf(pc[p], wish[p], plan[p], fetch[p])
<1>1. /\ plan \in [Pulls -> Plans] /\ fetch \in [Pulls -> Fetches] /\ pc \in [Pulls -> PCs]
      /\ file \in Files /\ part \in Files /\ data \in [Inodes -> SUBSET Chunks]
      /\ manifest \in [Ids -> Manifests] /\ ShapeOf(pc[p], wish[p], plan[p], fetch[p])
  BY TypeParts DEF StoreInv, ShapeInv, Shape
<1>2. wish[p] \in Ids  BY <1>1 DEF ShapeOf, Working
<1>3. plan[p] \in Plans /\ fetch[p] \in Fetches  BY <1>1
<1>4. plan[p].leaf \in Leaves /\ plan[p].linked \in Ids \cup {NoId}  BY <1>3 DEF Plans
<1>5. plan = [plan EXCEPT ![p] = plan[p]] /\ fetch = [fetch EXCEPT ![p] = fetch[p]]  BY <1>1
<1>6. ProgressOf(pc[p], wish[p], plan[p], fetch[p])  BY DEF StoreInv, ProgressOK
<1>7. QED BY <1>1, <1>2, <1>3, <1>4, <1>5, <1>6

(* A pull that touches no file goes on, or says how it ended.              *)
LEMMA PlanOnly ==
  ASSUME StoreInv, ShapeInv', UNCHANGED removing, NEW p \in Pulls, pc[p] \in Working,
         NEW at \in PCs \ {"idle"}, NEW pl \in Plans, NEW f \in Fetches,
         pc' = [pc EXCEPT ![p] = at], plan' = [plan EXCEPT ![p] = pl],
         fetch' = [fetch EXCEPT ![p] = f], UNCHANGED <<wish, file, part, manifest, data>>,
         \A l \in Leaves : Past(p, l) => PastAt(at, pl, l),
         Present(wish[p]) => Usable(wish[p]) \/ at \in Working \cup {"killed"},
         at \in Working => ProgressOf(at, wish[p], pl, f)
  PROVE  StoreInv'
<1>1. /\ Mine(p) /\ wish[p] \in Ids
      /\ pc'[p] = at /\ plan'[p] = pl /\ fetch'[p] = f /\ wish'[p] = wish[p]
  BY Moves
<1>2. ProgressOK(p)'
  <2> SUFFICES ASSUME at \in Working, NEW i, i = wish[p] PROVE ProgressOf(at, i, pl, f)'
    BY <1>1 DEF ProgressOK
  <2>1. ProgressOf(at, i, pl, f)  OBVIOUS
  <2>2. (Usable(i)' <=> Usable(i)) /\ (Present(i)' <=> Present(i))
    BY DEF Usable, Whole, Weights, Present
  <2>3. QED BY <2>1, <2>2 DEF ProgressOf
<1>3. QED BY <1>1, <1>2, DiskStill

(* Data added to takes no model away.                                      *)
LEMMA SameUsable ==
  ASSUME StoreInv, ShapeInv', NEW p \in Pulls, Mine(p), UNCHANGED file,
         \A n \in Inodes : data[n] \subseteq data'[n], NEW i \in Ids, Usable(i)
  PROVE  Usable(i)'
<1>1. DataStays  BY DEF DataStays
<1>2. QED BY <1>1, UsableStays

(* The steps before a pull links or downloads.                             *)
LEMMA ResolveStore ==
  ASSUME StoreInv, UNCHANGED removing, NEW p \in Pulls, Resolve(p) \/ Reuse(p)
  PROVE  StoreInv'
<1>s. ShapeInv'  BY RemovingTyped, LinkShape DEF StoreInv
<1>p. pc[p] \in {"resolve", "reuse"} /\ pc[p] \in Working  BY DEF Resolve, Reuse, Working
<1>w. /\ wish[p] \in Ids /\ plan[p] \in Plans /\ fetch[p] \in Fetches
      /\ plan = [plan EXCEPT ![p] = plan[p]] /\ fetch = [fetch EXCEPT ![p] = fetch[p]]
      /\ plan \in [Pulls -> Plans]
      /\ ProgressOf(pc[p], wish[p], plan[p], fetch[p])
      /\ ShapeOf(pc[p], wish[p], plan[p], fetch[p])
  BY <1>p, AtWork
<1>1. /\ manifest[wish[p]] = NoManifest /\ ~Present(wish[p])
      /\ plan[p] = [NoPlan EXCEPT !.leaf = 1] /\ plan[p].leaf = 1 /\ ~plan[p].refresh
  BY <1>p, <1>w, NothingsTyped DEF ProgressOf, ShapeOf, NoPlan
<1>2. \A l \in Leaves : ~Past(p, l)
  BY <1>p DEF Past, PastAt, Ends, Fetching
<1>3. UNCHANGED <<wish, file, part, manifest, data, fetch>>  BY DEF Resolve, Reuse, disk
<1>4. ASSUME NEW at \in {"create", "reuse", "link", "failed"}, NEW pl \in Plans,
             pl.leaf = 1, ~pl.refresh,
             pc' = [pc EXCEPT ![p] = at], plan' = [plan EXCEPT ![p] = pl]
      PROVE  StoreInv'
  <2>1. at \in PCs \ {"idle"}  BY <1>4 DEF PCs, Working
  <2>2. at \in Working => ProgressOf(at, wish[p], pl, fetch[p])
    <3>1. \A m \in Leaves : file[wish[p]][m] = NoFile  BY <1>1 DEF Present
    <3>2. 1..(1 - 1) = {} /\ 1 # Projector  BY DEF Projector
    <3>3. QED BY <1>1, <1>4, <3>1, <3>2 DEF ProgressOf, Fetching, Working
  <2>3. QED BY <1>1, <1>2, <1>3, <1>4, <1>p, <1>s, <1>w, <2>1, <2>2, PlanOnly
<1>5. CASE Resolve(p)
  <2>1. CASE Finished(p, "failed", NoId)
    <3>1. /\ pc' = [pc EXCEPT ![p] = "failed"] /\ plan' = [plan EXCEPT ![p] = NoPlan]
          /\ fetch' = [fetch EXCEPT ![p] = fetch[p]]
      BY <2>1, <1>3, <1>w DEF Finished, Goto
    <3>2. QED BY <3>1, <1>1, <1>2, <1>3, <1>p, <1>s, <1>w, NothingsTyped, PlanOnly DEF PCs, Working
  <2>2. CASE Goto(p, IF Kind[wish[p]] = "url" THEN "create" ELSE "reuse") /\ UNCHANGED plan
    BY <2>2, <1>1, <1>4, <1>w DEF Goto
  <2>3. QED BY <1>5, <2>1, <2>2 DEF Resolve
<1>6. CASE Reuse(p)
  <2>1. CASE Goto(p, "create") /\ UNCHANGED plan
    BY <2>1, <1>1, <1>4, <1>w DEF Goto
  <2>2. ASSUME NEW h \in Holders(wish[p]), Goto(p, "link"),
               plan' = [plan EXCEPT ![p].linked = h, ![p].created = wish[p] \notin dirs]
        PROVE  StoreInv'
    <3> DEFINE pl == [plan[p] EXCEPT !.linked = h, !.created = wish[p] \notin dirs]
    <3>1. plan' = [plan EXCEPT ![p] = pl]  BY <2>2, <1>w
    <3>2. pl \in Plans /\ pl.leaf = 1 /\ ~pl.refresh  BY <1>1, <1>w DEF Plans, Holders
    <3> HIDE DEF pl
    <3>3. QED BY <2>2, <3>1, <3>2, <1>4 DEF Goto
  <2>3. QED BY <1>6, <2>1, <2>2 DEF Reuse
<1>7. QED BY <1>5, <1>6

(* A model of which every file has its final name can be loaded.           *)
LEMMA AllNamed ==
  ASSUME NEW i \in Ids, \A l \in Weights(i) : file'[i][l] # NoFile /\ FileOK(i, l)'
  PROVE  Usable(i)'
BY DEF FileOK, Usable, Weights

(* One file of a model gets a name, and nothing else on disk changes but   *)
(* .part names that go.                                                    *)
LEMMA OneNamed ==
  ASSUME StoreInv, ShapeInv', NEW p \in Pulls, Mine(p), pc[p] \in Working,
         NEW i \in Ids, i = wish[p], NEW l \in Leaves, NEW n \in Inodes,
         file' = [file EXCEPT ![i][l] = n],
         part' \in {part, [part EXCEPT ![i][l] = NoFile]}, UNCHANGED <<data, manifest>>,
         FileOK(i, l)', ProgressOK(p)', pc'[p] \in Working,
         manifest[i] = NoManifest \/ l = Projector
  PROVE  StoreInv'
<1>t. file \in Files /\ part \in Files  BY TypeParts DEF StoreInv, ShapeInv
<1>1. \A j \in Ids, m \in Leaves : file'[j][m] = IF j = i /\ m = l THEN n ELSE file[j][m]
  BY <1>t DEF Files
<1>2. \A j \in Ids, m \in Leaves :
        /\ part'[j][m] \in {part[j][m], NoFile}
        /\ j # i => part'[j][m] = part[j][m]
  BY <1>t DEF Files
<1>3. DataStays /\ PartsStay(p)  BY <1>2 DEF DataStays, PartsStay
<1>4. \A j \in Ids \ {i} : Same(j)  BY <1>1, <1>2 DEF Same
<1>5. ASSUME NEW m \in Leaves PROVE FileOK(i, m)'
  <2>1. CASE m = l  BY <2>1
  <2>2. CASE m # l
    <3>1. file'[i][m] = file[i][m]  BY <1>1, <2>2
    <3>2. QED BY <3>1, <1>3, FileStays
  <2>3. QED BY <2>1, <2>2
<1>6. manifest[i] = NoManifest \/ \A m \in Weights(i) : file'[i][m] = file[i][m]
  BY <1>1, OwnLeaves
<1>7. QED BY <1>3, <1>4, <1>5, <1>6, Onward

(* A file with its final name gets another: that of a model with the same  *)
(* source.                                                                 *)
LEMMA LinkedFile ==
  ASSUME StoreInv, ShapeInv', NEW p \in Pulls, Mine(p), UNCHANGED <<data, part>>,
         NEW h \in Ids, NEW i \in Ids, Source[h] = Source[i], NEW l \in Leaves,
         NEW n \in Inodes, file[h][l] = n, file'[i][l] = n
  PROVE  FileOK(i, l)'
<1>1. /\ Whole(h, l, n) /\ l \in Own(h) /\ Past(n[1], l) /\ \A j \in Ids : part[j][l] # n
      /\ n # NoFile /\ n[1] \in Pulls
  BY StoreAssumption DEF StoreInv, FileOK, Inodes
<1>2. Own(i) = Own(h)  BY DEF Own, Weights
<1>3. wish'[n[1]] = wish[n[1]]
  BY <1>1 DEF Mine, Past, PastAt, Ends, Fetching
<1>4. Past(n[1], l)'
  <2>1. CASE n[1] = p  BY <1>1, <2>1 DEF Mine
  <2>2. CASE n[1] # p
    <3>1. pc'[n[1]] = pc[n[1]] /\ plan'[n[1]] = plan[n[1]]  BY <1>1, <2>2 DEF Mine
    <3>2. QED BY <1>1, <3>1 DEF Past
  <2>3. QED BY <2>1, <2>2
<1>5. Whole(i, l, n)'  BY <1>1, <1>3 DEF Whole
<1>6. Past(file[i][l][1], l)' /\ Whole(i, l, file[i][l])'  BY <1>4, <1>5
<1>7. QED BY <1>1, <1>2, <1>6 DEF FileOK, Own, Weights

LEMMA LinkStore ==
  ASSUME StoreInv, UNCHANGED removing, NEW p \in Pulls, LinkNext(p)
  PROVE  StoreInv'
<1>s. ShapeInv'  BY RemovingTyped, LinkShape DEF StoreInv
<1>p. pc[p] = "link" /\ pc[p] \in Working  BY DEF LinkNext, Working
<1>w. /\ wish[p] \in Ids /\ plan[p] \in Plans /\ fetch[p] \in Fetches
      /\ plan = [plan EXCEPT ![p] = plan[p]] /\ fetch = [fetch EXCEPT ![p] = fetch[p]]
      /\ plan \in [Pulls -> Plans] /\ file \in Files /\ pc \in [Pulls -> PCs]
      /\ plan[p].linked \in Ids \cup {NoId}
      /\ ProgressOf(pc[p], wish[p], plan[p], fetch[p])
      /\ ShapeOf(pc[p], wish[p], plan[p], fetch[p])
  BY <1>p, AtWork
<1>1. PICK i \in Ids, l \in Nat, h \in Ids, n \in Inodes \cup {NoFile} :
        i = wish[p] /\ l = plan[p].leaf /\ h = plan[p].linked /\ n = file[h][l]
  <2>1. plan[p].linked \in Ids /\ plan[p].leaf \in Weights(wish[p])
    BY <1>p, <1>w DEF ShapeOf
  <2>2. plan[p].leaf \in Nat /\ plan[p].leaf \in Leaves  BY <2>1, <1>w, OwnLeaves
  <2>3. QED BY <2>1, <2>2, <1>w DEF Files
<1>2. /\ l \in Weights(i) /\ l \in Leaves /\ Source[h] = Source[i] /\ ~plan[p].refresh
      /\ l \in 1..Shards[Source[i]] /\ Shards[Source[i]] \in Nat /\ l # Projector
  BY <1>p, <1>w, <1>1, OwnLeaves DEF ShapeOf, Fetching
<1>3. /\ manifest[i] = NoManifest
      /\ \A m \in Leaves : file[i][m] # NoFile <=> m \in 1..(l - 1)
  <2>1. /\ manifest[wish[p]] = NoManifest
        /\ \A m \in Leaves : file[wish[p]][m] # NoFile <=> m \in 1..(plan[p].leaf - 1)
    BY <1>p, <1>w, <1>2 DEF ProgressOf
  <2>2. QED BY <2>1, <1>1
<1>4. \A m \in Leaves : ~Past(p, m)  BY <1>p DEF Past, PastAt, Ends, Fetching
<1>5. UNCHANGED <<part, data, manifest, wish, fetch>>  BY DEF LinkNext
<1>6. CASE /\ n # NoFile /\ file' = [file EXCEPT ![i][l] = n]
           /\ IF l = Shards[Source[i]] THEN Goto(p, "projector") /\ UNCHANGED plan
              ELSE plan' = [plan EXCEPT ![p].leaf = l + 1] /\ UNCHANGED pc
  <2>1. PICK at \in {"link", "projector"}, pl \in Plans :
          /\ pc' = [pc EXCEPT ![p] = at] /\ plan' = [plan EXCEPT ![p] = pl] /\ ~pl.refresh
          /\ IF l = Shards[Source[i]] THEN at = "projector" ELSE at = "link" /\ pl.leaf = l + 1
    <3>1. CASE l = Shards[Source[i]]
      BY <3>1, <1>6, <1>w, <1>2 DEF Goto
    <3>2. CASE l # Shards[Source[i]]
      <4> DEFINE pl == [plan[p] EXCEPT !.leaf = l + 1]
      <4>1. l + 1 \in Leaves  BY <1>2, <3>2, OwnLeaves
      <4>2. pl \in Plans /\ pl.leaf = l + 1 /\ ~pl.refresh  BY <4>1, <1>w, <1>2 DEF Plans
      <4>3. plan' = [plan EXCEPT ![p] = pl] /\ pc' = [pc EXCEPT ![p] = "link"]
        BY <1>6, <1>w, <1>p, <3>2
      <4> HIDE DEF pl
      <4>4. QED BY <4>2, <4>3, <3>2
    <3>3. QED BY <3>1, <3>2
  <2>2. /\ Mine(p) /\ pc'[p] = at /\ plan'[p] = pl /\ fetch'[p] = fetch[p] /\ wish'[p] = i
    <3>1. at \in PCs \ {"idle"} /\ fetch' = [fetch EXCEPT ![p] = fetch[p]]
      BY <1>5, <1>w DEF PCs, Working
    <3>2. QED BY <1>1, <1>4, <1>5, <1>p, <1>w, <2>1, <3>1, Moves
  <2>3. n \in Inodes  BY <1>6
  <2>4. \A m \in Leaves : file'[i][m] = IF m = l THEN n ELSE file[i][m]
    BY <1>6, <1>w DEF Files
  <2>5. FileOK(i, l)'  BY <1>1, <1>2, <1>5, <1>s, <2>2, <2>3, <2>4, LinkedFile
  <2>6. DataStays /\ PartsStay(p)  BY <1>5 DEF DataStays, PartsStay
  <2>7. \A m \in Leaves : file'[i][m] # NoFile <=> m \in 1..l
    BY <1>2, <1>3, <1>6, <2>4
  <2>8. ProgressOK(p)'
    <3>1. CASE at = "link"
      <4>1. pl.leaf - 1 = l  BY <2>1, <3>1
      <4>2. QED BY <1>3, <1>5, <2>1, <2>2, <2>7, <3>1, <4>1 DEF ProgressOK, ProgressOf, Fetching
    <3>2. CASE at = "projector"
      <4>1. ASSUME NEW m \in Weights(i) PROVE file'[i][m] # NoFile /\ FileOK(i, m)'
        <5>1. m \in Leaves /\ m \in 1..l  BY <1>2, <2>1, <3>2, OwnLeaves
        <5>2. file'[i][m] # NoFile  BY <5>1, <2>7
        <5>3. CASE m = l  BY <5>2, <5>3, <2>5
        <5>4. CASE m # l
          <6>1. file'[i][m] = file[i][m]  BY <5>1, <5>4, <2>4
          <6>2. QED BY <5>1, <5>2, <6>1, <2>2, <2>6, <1>s, FileStays
        <5>5. QED BY <5>3, <5>4
      <4>2. Usable(i)'  BY <4>1, AllNamed
      <4>3. QED BY <1>3, <1>5, <2>1, <2>2, <4>2, <3>2 DEF ProgressOK, ProgressOf, Fetching
    <3>3. QED BY <3>1, <3>2
  <2>9. pc'[p] \in Working  BY <2>1, <2>2 DEF Working
  <2>10. QED BY <1>1, <1>2, <1>3, <1>5, <1>6, <1>p, <1>s, <2>2, <2>3, <2>5, <2>8, <2>9, OneNamed
<1>7. CASE Goto(p, "undo") /\ UNCHANGED <<file, plan>>
  <2>1. ProgressOf("undo", wish[p], plan[p], fetch[p])
    BY <1>1, <1>2, <1>3 DEF ProgressOf, Fetching
  <2>2. pc' = [pc EXCEPT ![p] = "undo"]  BY <1>7 DEF Goto
  <2>3. QED BY <1>4, <1>5, <1>7, <1>p, <1>s, <1>w, <2>1, <2>2, PlanOnly DEF PCs, Working
<1>8. QED BY <1>1, <1>6, <1>7 DEF LinkNext

(* Names of the model may go, its manifest may change.                     *)
LEMMA NamesGo ==
  ASSUME StoreInv, ShapeInv', NEW p \in Pulls, Mine(p), pc[p] \in Working,
         NEW i \in Ids, i = wish[p], UNCHANGED data,
         \A j \in Ids, m \in Leaves :
            /\ file'[j][m] \in {file[j][m], NoFile} /\ part'[j][m] \in {part[j][m], NoFile}
            /\ j # i => /\ file'[j][m] = file[j][m] /\ part'[j][m] = part[j][m]
                        /\ manifest'[j] = manifest[j],
         ProgressOK(p)', ManifestOK(i)', HalfOK(i)'
  PROVE  StoreInv'
<1>1. wish'[p] = i  BY DEF Mine, Working
<1>2. DataStays /\ PartsStay(p)  BY DEF DataStays, PartsStay
<1>3. \A m \in Leaves : FileOK(i, m)'  BY <1>2, FileStays
<1>4. 0 \in Leaves  BY DEF Leaves, Projector
<1>5. \A j \in Ids \ {i} : Same(j)  BY <1>4 DEF Same
<1>6. QED BY <1>1, <1>2, <1>3, <1>5, Rest

LEMMA UndoStore ==
  ASSUME StoreInv, UNCHANGED removing, NEW p \in Pulls, UndoLinks(p)
  PROVE  StoreInv'
<1>s. ShapeInv'  BY RemovingTyped, LinkShape DEF StoreInv
<1>p. pc[p] = "undo" /\ pc[p] \in Working  BY DEF UndoLinks, Working
<1>w. /\ wish[p] \in Ids /\ plan[p] \in Plans /\ fetch[p] \in Fetches
      /\ fetch = [fetch EXCEPT ![p] = fetch[p]] /\ file \in Files /\ part \in Files
      /\ ProgressOf(pc[p], wish[p], plan[p], fetch[p])
      /\ ShapeOf(pc[p], wish[p], plan[p], fetch[p])
  BY <1>p, AtWork
<1>1. UNCHANGED <<part, data, manifest, wish, fetch>>  BY DEF UndoLinks
<1>2. pc' = [pc EXCEPT ![p] = "done"] /\ plan' = [plan EXCEPT ![p] = NoPlan]
  BY DEF UndoLinks, Finished, Goto
<1>3. PICK i \in Ids : i = wish[p]  BY <1>w
<1>4. /\ manifest[i] = NoManifest
      /\ \A m \in Leaves : file[i][m] # NoFile <=> m \in 1..(plan[p].leaf - 1)
  BY <1>p, <1>w, <1>3 DEF ProgressOf, ShapeOf, Fetching
<1>5. /\ \A m \in Leaves : file'[i][m] = NoFile
      /\ \A j \in Ids \ {i} : file'[j] = file[j]
  BY <1>3, <1>4, <1>w DEF UndoLinks, Files
<1>6. Mine(p) /\ pc'[p] = "done"
  <2>1. \A m \in Leaves : ~Past(p, m)  BY <1>p DEF Past, PastAt, Ends, Fetching
  <2>2. "done" \in PCs \ {"idle"}  BY DEF PCs, Working
  <2>3. \A m \in Leaves : Past(p, m) => PastAt("done", NoPlan, m)  BY <2>1
  <2>4. fetch' = [fetch EXCEPT ![p] = fetch[p]] /\ wish' = wish  BY <1>1, <1>w
  <2>5. NoPlan \in Plans /\ fetch[p] \in Fetches  BY <1>w, NothingsTyped
  <2>6. QED BY <1>2, <1>p, <2>2, <2>3, <2>4, <2>5, Moves
<1>7. ProgressOK(p)' /\ ManifestOK(i)' /\ HalfOK(i)'
  BY <1>1, <1>4, <1>5, <1>6 DEF ProgressOK, ManifestOK, HalfOK, Present, Working
<1>8. QED BY <1>1, <1>3, <1>5, <1>6, <1>7, <1>p, <1>s, NamesGo

(* One name goes at most, and it is of this model.                         *)
LEMMA NamesUnlinked ==
  ASSUME file \in Files, part \in Files, NEW i \in Ids, Unlink(i) \/ RemoveDir(i)
  PROVE  /\ \A j \in Ids, m \in Leaves :
              /\ file'[j][m] \in {file[j][m], NoFile} /\ part'[j][m] \in {part[j][m], NoFile}
              /\ j # i => /\ file'[j][m] = file[j][m] /\ part'[j][m] = part[j][m]
         /\ \A j \in Ids \ {i} : manifest'[j] = manifest[j]
<1>1. ASSUME NEW l \in Leaves, NEW fs \in Files, NEW j \in Ids, NEW m \in Leaves
      PROVE  [fs EXCEPT ![i][l] = NoFile][j][m] = IF j = i /\ m = l THEN NoFile ELSE fs[j][m]
  BY DEF Files
<1>2. CASE RemoveDir(i)  BY <1>2 DEF RemoveDir
<1>3. ASSUME NEW l \in Leaves, file' = [file EXCEPT ![i][l] = NoFile], UNCHANGED <<part, manifest>>
      PROVE  /\ \A j \in Ids, m \in Leaves :
                  /\ file'[j][m] \in {file[j][m], NoFile} /\ part'[j][m] \in {part[j][m], NoFile}
                  /\ j # i => /\ file'[j][m] = file[j][m] /\ part'[j][m] = part[j][m]
             /\ \A j \in Ids \ {i} : manifest'[j] = manifest[j]
  BY <1>1, <1>3
<1>4. ASSUME NEW l \in Leaves, part' = [part EXCEPT ![i][l] = NoFile], UNCHANGED <<file, manifest>>
      PROVE  /\ \A j \in Ids, m \in Leaves :
                  /\ file'[j][m] \in {file[j][m], NoFile} /\ part'[j][m] \in {part[j][m], NoFile}
                  /\ j # i => /\ file'[j][m] = file[j][m] /\ part'[j][m] = part[j][m]
             /\ \A j \in Ids \ {i} : manifest'[j] = manifest[j]
  BY <1>1, <1>4
<1>5. CASE manifest' = [manifest EXCEPT ![i] = NoManifest] /\ UNCHANGED <<file, part>>
  BY <1>5
<1>6. QED BY <1>2, <1>3, <1>4, <1>5 DEF Unlink

(* A failed pull leaves nothing of its model.                              *)
LEMMA DeleteStore ==
  ASSUME StoreInv, ~Overlap, UNCHANGED removing, NEW p \in Pulls, Delete(p)
  PROVE  StoreInv'
<1>s. ShapeInv'  BY RemovingTyped, EndShape DEF StoreInv
<1>p. pc[p] = "delete" /\ pc[p] \in Working  BY DEF Delete, Working
<1>w. /\ wish[p] \in Ids /\ plan[p] \in Plans /\ fetch[p] \in Fetches
      /\ fetch = [fetch EXCEPT ![p] = fetch[p]] /\ file \in Files /\ part \in Files
      /\ manifest \in [Ids -> Manifests] /\ pc \in [Pulls -> PCs] /\ plan \in [Pulls -> Plans]
  BY <1>p, AtWork
<1>1. UNCHANGED <<data, wish, fetch>>  BY DEF Delete, Unlink, RemoveDir
<1>2. PICK i \in Ids : i = wish[p]  BY <1>w
<1>3. PICK at \in {"delete", "failed"}, pl \in Plans :
        pc' = [pc EXCEPT ![p] = at] /\ plan' = [plan EXCEPT ![p] = pl]
        /\ (at = "delete" => pl = plan[p]) /\ (at = "failed" => RemoveDir(i))
  <2>1. CASE RemoveDir(i) /\ Finished(p, "failed", NoId)
    <3>1. pc' = [pc EXCEPT ![p] = "failed"] /\ plan' = [plan EXCEPT ![p] = NoPlan]
      BY <2>1 DEF Finished, Goto
    <3>2. QED BY <2>1, <3>1, NothingsTyped
  <2>2. CASE UNCHANGED <<pc, plan>>
    <3>1. pc' = [pc EXCEPT ![p] = "delete"] /\ plan' = [plan EXCEPT ![p] = plan[p]]
      BY <2>2, <1>p, <1>w
    <3>2. QED BY <3>1, <1>w
  <2>3. QED BY <2>1, <2>2, <1>2 DEF Delete
<1>4. \A j \in Ids, m \in Leaves :
        /\ file'[j][m] \in {file[j][m], NoFile} /\ part'[j][m] \in {part[j][m], NoFile}
        /\ j # i => /\ file'[j][m] = file[j][m] /\ part'[j][m] = part[j][m]
                    /\ manifest'[j] = manifest[j]
  BY <1>2, <1>w, NamesUnlinked DEF Delete
<1>5. Mine(p) /\ pc'[p] = at /\ plan'[p] = pl /\ wish'[p] = i
  <2>1. \A m \in Leaves : PastAt(at, pl, m)  BY DEF PastAt, Ends
  <2>2. at \in PCs \ {"idle"}  BY DEF PCs, Working
  <2>3. fetch' = [fetch EXCEPT ![p] = fetch[p]] /\ wish' = wish  BY <1>1, <1>w
  <2>4. \A m \in Leaves : Past(p, m) => PastAt(at, pl, m)  BY <2>1
  <2>5. pc' = [pc EXCEPT ![p] = at] /\ plan' = [plan EXCEPT ![p] = pl]  BY <1>3
  <2>6. QED BY <2>2, <2>3, <2>4, <2>5, <1>2, <1>p, <1>w, Moves
<1>6. manifest[i] = NoManifest /\ manifest'[i] = NoManifest /\ ~plan[p].refresh
  <2>1. manifest[i] = NoManifest /\ ~plan[p].refresh
    BY <1>2, <1>p, AtWork DEF ShapeOf, ProgressOf, Fetching
  <2>2. QED BY <2>1, <1>2, <1>w DEF Delete, Unlink, RemoveDir
<1>7. ProgressOK(p)' /\ ManifestOK(i)' /\ HalfOK(i)'
  <2>1. CASE at = "delete"
    BY <2>1, <1>3, <1>5, <1>6 DEF ProgressOK, ProgressOf, Fetching, ManifestOK, HalfOK, Working
  <2>2. CASE at = "failed"
    <3>1. Bare(i) /\ file' = file  BY <2>2, <1>3 DEF RemoveDir
    <3>2. ~Present(i)'  BY <3>1 DEF Bare, Present
    <3>3. QED BY <2>2, <3>2, <1>5, <1>6 DEF ProgressOK, ManifestOK, HalfOK, Working
  <2>3. QED BY <2>1, <2>2
<1>8. QED BY <1>1, <1>2, <1>4, <1>5, <1>7, <1>p, <1>s, NamesGo

(* The model can be loaded when its manifest is written.                   *)
LEMMA ManifestStore ==
  ASSUME StoreInv, UNCHANGED removing, NEW p \in Pulls, WriteManifest(p) \/ ManifestFails(p)
  PROVE  StoreInv'
<1>s. ShapeInv'  BY RemovingTyped, EndShape DEF StoreInv
<1>p. pc[p] = "manifest" /\ pc[p] \in Working  BY DEF WriteManifest, ManifestFails, Working
<1>w. /\ wish[p] \in Ids /\ plan[p] \in Plans /\ fetch[p] \in Fetches
      /\ plan = [plan EXCEPT ![p] = plan[p]] /\ fetch = [fetch EXCEPT ![p] = fetch[p]]
      /\ manifest \in [Ids -> Manifests]
      /\ ProgressOf(pc[p], wish[p], plan[p], fetch[p])
      /\ ShapeOf(pc[p], wish[p], plan[p], fetch[p])
  BY <1>p, AtWork
<1>1. PICK i \in Ids : i = wish[p]  BY <1>w
<1>2. Usable(i)  BY <1>1, <1>p, <1>w DEF ProgressOf
<1>3. UNCHANGED <<file, part, data, wish, fetch>>  BY DEF WriteManifest, ManifestFails, disk
<1>4. ASSUME NEW end \in {"present", "done", "failed"}, pc' = [pc EXCEPT ![p] = end],
             plan' = [plan EXCEPT ![p] = NoPlan],
             \A j \in Ids \ {i} : manifest'[j] = manifest[j]
      PROVE  StoreInv'
  <2>1. Mine(p) /\ pc'[p] = end
    <3>1. \A m \in Leaves : PastAt(end, NoPlan, m)  BY <1>4 DEF PastAt, Ends
    <3>2. end \in PCs \ {"idle"}  BY <1>4 DEF PCs
    <3>3. fetch' = [fetch EXCEPT ![p] = fetch[p]] /\ wish' = wish  BY <1>3, <1>w
    <3>4. /\ NoPlan \in Plans /\ fetch[p] \in Fetches
          /\ pc' = [pc EXCEPT ![p] = end] /\ plan' = [plan EXCEPT ![p] = NoPlan]
      BY <1>4, <1>w, NothingsTyped
    <3>5. QED BY <3>1, <3>2, <3>3, <3>4, <1>p, Moves
  <2>2. Usable(i)'  BY <1>2, <1>3 DEF Usable, Whole, Weights
  <2>3. ProgressOK(p)' /\ ManifestOK(i)' /\ HalfOK(i)'
    BY <1>4, <2>1, <2>2 DEF ProgressOK, ManifestOK, HalfOK, Working
  <2>4. QED BY <1>1, <1>3, <1>4, <1>p, <1>s, <2>1, <2>3, NamesGo
<1>5. CASE WriteManifest(p)
  <2>1. \A j \in Ids \ {i} : manifest'[j] = manifest[j]  BY <1>1, <1>5, <1>w DEF WriteManifest
  <2>2. QED BY <1>4, <1>5, <2>1 DEF WriteManifest, Finished, Goto
<1>6. CASE ManifestFails(p)
  <2>1. UNCHANGED manifest  BY <1>6 DEF ManifestFails, disk
  <2>2. CASE plan[p].linked # NoId /\ Goto(p, "delete") /\ UNCHANGED plan
    <3>1. ~plan[p].refresh  BY <1>w, <2>2 DEF ShapeOf
    <3>2. ProgressOf("delete", wish[p], plan[p], fetch[p])
      BY <1>p, <1>w, <3>1 DEF ProgressOf, Fetching
    <3>3. pc' = [pc EXCEPT ![p] = "delete"] /\ plan' = [plan EXCEPT ![p] = plan[p]]
      BY <1>w, <2>2 DEF Goto
    <3>4. \A m \in Leaves : PastAt("delete", plan[p], m)  BY DEF PastAt
    <3>5. "delete" \in PCs \ {"idle"} /\ "delete" \in Working  BY DEF PCs, Working
    <3>6. QED BY <1>3, <1>p, <1>s, <1>w, <2>1, <3>2, <3>3, <3>4, <3>5, PlanOnly
  <2>3. QED BY <1>4, <1>6, <2>1, <2>2 DEF ManifestFails, Finished, Goto
<1>7. QED BY <1>5, <1>6

(* A killed pull leaves everything where it is.                            *)
LEMMA KillStore ==
  ASSUME StoreInv, UNCHANGED removing, NEW p \in Pulls, Kill(p)
  PROVE  StoreInv'
<1>s. ShapeInv'  BY RemovingTyped, KillShape DEF StoreInv
<1>1. /\ pc[p] \in Working /\ UNCHANGED <<disk, wish>>
      /\ pc' = [pc EXCEPT ![p] = "killed"] /\ plan' = [plan EXCEPT ![p] = NoPlan]
      /\ fetch' = [fetch EXCEPT ![p] = NoFetch]
  BY DEF Kill, Finished, Goto, EndFetch
<1>2. \A m \in Leaves : PastAt("killed", NoPlan, m)  BY DEF PastAt, Ends
<1>3. "killed" \in PCs \ {"idle"} /\ "killed" \notin Working  BY DEF PCs, Working
<1>4. UNCHANGED <<wish, file, part, manifest, data>>  BY <1>1 DEF disk
<1>5. QED BY <1>1, <1>2, <1>3, <1>4, <1>s, NothingsTyped, PlanOnly

(* The .part file a pull begins, or empties, is none that has a final name *)
(* and none of another model.                                              *)
LEMMA CreateStore ==
  ASSUME StoreInv, UNCHANGED removing, NEW p \in Pulls, Create(p)
  PROVE  StoreInv'
<1>s. ShapeInv'  BY RemovingTyped, FetchShape DEF StoreInv
<1>p. pc[p] = "create" /\ pc[p] \in Working  BY DEF Create, Working
<1>w. /\ wish[p] \in Ids /\ plan[p] \in Plans /\ fetch[p] \in Fetches
      /\ plan = [plan EXCEPT ![p] = plan[p]] /\ fetch = [fetch EXCEPT ![p] = fetch[p]]
      /\ plan[p].leaf \in Leaves /\ part \in Files /\ data \in [Inodes -> SUBSET Chunks]
      /\ fetch \in [Pulls -> Fetches] /\ file \in Files
      /\ ProgressOf(pc[p], wish[p], plan[p], fetch[p])
      /\ ShapeOf(pc[p], wish[p], plan[p], fetch[p])
  BY <1>p, AtWork
<1>1. PICK i \in Ids, l \in Leaves : i = wish[p] /\ l = plan[p].leaf  BY <1>w
<1>l. l \in Nat /\ l \in Own(i)
  <2>1. l \in Own(i)  BY <1>1, <1>p, <1>w DEF ShapeOf, Fetching
  <2>2. QED BY <2>1, OwnLeaves DEF Own, Projector
<1>2. PICK n \in Inodes : n = IF part[i][l] = NoFile THEN <<p, l>> ELSE part[i][l]
  <2>1. <<p, l>> \in Inodes  BY DEF Inodes
  <2>2. part[i][l] \in Inodes \cup {NoFile}  BY <1>w DEF Files
  <2>3. QED BY <2>1, <2>2
<1>3. UNCHANGED <<file, manifest, wish, plan>>  BY DEF Create
<1>4. ASSUME NEW at \in Fetching, NEW m \in Leaves, Past(p, m) PROVE PastAt(at, plan[p], m)
  BY <1>4, <1>p DEF Past, PastAt, Ends
<1>5. CASE Goto(p, "cleanup") /\ UNCHANGED <<part, data, fetch>>
  <2>1. ProgressOf("cleanup", wish[p], plan[p], fetch[p])
    BY <1>p, <1>w DEF ProgressOf, Fetching
  <2>2. "cleanup" \in Fetching /\ "cleanup" \in Working /\ "cleanup" \in PCs \ {"idle"}
    BY DEF Fetching, Working, PCs
  <2>3. pc' = [pc EXCEPT ![p] = "cleanup"]  BY <1>5 DEF Goto
  <2>4. \A m \in Leaves : Past(p, m) => PastAt("cleanup", plan[p], m)  BY <1>4, <2>2
  <2>5. QED BY <1>3, <1>5, <1>p, <1>s, <1>w, <2>1, <2>2, <2>3, <2>4, PlanOnly
<1>6. ASSUME NEW at \in {"fetch", "stream"}, NEW f \in Fetches,
             pc' = [pc EXCEPT ![p] = at], fetch' = [fetch EXCEPT ![p] = f],
             f.got = {}, \A c \in Chunks : f.open[c] \in {NoFile, n},
             part' = [part EXCEPT ![i][l] = n], data' = [data EXCEPT ![n] = {}]
      PROVE  StoreInv'
  <2>1. at \in Fetching /\ at \in Working /\ at \in PCs \ {"idle"}
    BY <1>6 DEF Fetching, Working, PCs
  <2>2. Mine(p) /\ pc'[p] = at /\ wish'[p] = i /\ plan'[p] = plan[p] /\ fetch'[p] = f
    <3>1. \A m \in Leaves : Past(p, m) => PastAt(at, plan[p], m)  BY <1>4, <2>1
    <3>2. plan' = [plan EXCEPT ![p] = plan[p]] /\ wish' = wish  BY <1>3, <1>w
    <3>3. QED BY <1>1, <1>6, <1>p, <1>w, <2>1, <3>1, <3>2, Moves
  <2>3. \A j \in Ids, m \in Leaves : part'[j][m] = IF j = i /\ m = l THEN n ELSE part[j][m]
    BY <1>6, <1>w DEF Files
  <2>4. ~Past(p, l)
    BY <1>1, <1>l, <1>p DEF Past, PastAt, Ends
  <2>5. PartsStay(p)
    BY <1>1, <1>2, <1>p, <2>3, <2>4 DEF PartsStay
  <2>6. ~InFile(n)
    <3> SUFFICES ASSUME NEW j \in Ids, NEW m \in Leaves, file[j][m] = n PROVE FALSE
      BY DEF InFile
    <3>1. n # NoFile  BY StoreAssumption
    <3>2. n[2] = m /\ Past(n[1], m) /\ \A k \in Ids : part[k][m] # n
      BY <3>1 DEF StoreInv, FileOK, Whole
    <3>3. n[2] = l  BY <1>2 DEF StoreInv, PartOK
    <3>4. n = <<p, l>>  BY <1>2, <3>2, <3>3
    <3>5. QED BY <2>4, <3>2, <3>3, <3>4
  <2>7. \A k \in Inodes : k # n => data'[k] = data[k]  BY <1>6, <1>w
  <2>8. DataStays  BY <2>6, <2>7 DEF DataStays
  <2>9. ASSUME NEW j \in Ids \ {i} PROVE Same(j)
    <3>1. ASSUME NEW m \in Leaves, part[j][m] # NoFile PROVE part[j][m] # n
      <4>1. wish[part[j][m][1]] = j  BY <3>1 DEF StoreInv, PartOK
      <4>2. wish[n[1]] = i
        BY <1>1, <1>2 DEF StoreInv, PartOK
      <4>3. QED BY <4>1, <4>2
    <3>2. \A m \in Leaves : part[j][m] # NoFile => part[j][m] \in Inodes  BY <1>w DEF Files
    <3>3. QED BY <1>3, <2>3, <2>7, <3>1, <3>2 DEF Same
  <2>10. \A m \in Leaves : FileOK(i, m)'  BY <1>3, <1>s, <2>2, <2>5, <2>8, FileStays
  <2>11. ProgressOK(p)'
    <3> SUFFICES ASSUME NEW pl, pl = plan[p] PROVE ProgressOf(at, i, pl, f)'
      BY <2>2 DEF ProgressOK
    <3>1. Usable(i) => Usable(i)'  BY <1>3, <1>s, <2>2, <2>8, UsableStays
    <3>2. part'[i][l] = n /\ n # NoFile  BY <2>3, StoreAssumption
    <3>3. ProgressOf("create", i, pl, fetch[p])  BY <1>1, <1>p, <1>w
    <3>4. pl.leaf = l  BY <1>1
    <3>5. QED BY <1>3, <1>6, <3>1, <3>2, <3>3, <3>4 DEF ProgressOf, Fetching
  <2>12. pc'[p] \in Working /\ manifest'[i] = manifest[i] /\ \A m \in Weights(i) : file'[i][m] = file[i][m]
    BY <1>3, <2>1, <2>2
  <2>13. QED BY <1>1, <1>p, <1>s, <2>2, <2>5, <2>8, <2>9, <2>10, <2>11, <2>12, Onward
<1>7. CASE /\ part' = [part EXCEPT ![i][l] = n] /\ data' = [data EXCEPT ![n] = {}]
           /\ \/ Goto(p, "fetch") /\ UNCHANGED fetch
              \/ Goto(p, "stream") /\ fetch' = [fetch EXCEPT ![p].open = [c \in Chunks |-> n]]
  <2>1. fetch[p] = NoFetch  BY <1>p, <1>w DEF ShapeOf
  <2>2. CASE Goto(p, "fetch") /\ UNCHANGED fetch
    <3>1. fetch' = [fetch EXCEPT ![p] = fetch[p]]  BY <2>2, <1>w
    <3>2. fetch[p].got = {} /\ \A c \in Chunks : fetch[p].open[c] \in {NoFile, n}
      BY <2>1 DEF NoFetch
    <3>3. PICK f \in Fetches : f = fetch[p]  BY <1>w
    <3>4. f = fetch'[p]  BY <2>2, <3>3
    <3>5. QED BY <1>6, <1>7, <2>2, <3>1, <3>2, <3>3, <3>4 DEF Goto
  <2>3. CASE Goto(p, "stream") /\ fetch' = [fetch EXCEPT ![p].open = [c \in Chunks |-> n]]
    <3>1. PICK f \in Fetches : f = [fetch[p] EXCEPT !.open = [c \in Chunks |-> n]]
      BY <1>w DEF Fetches
    <3>2. fetch' = [fetch EXCEPT ![p] = f]  BY <2>3, <3>1, <1>w
    <3>3. fetch'[p] = f  BY <3>2, <1>w
    <3>4. f.got = {} /\ \A c \in Chunks : f.open[c] \in {NoFile, n}
      BY <2>1, <3>1 DEF NoFetch
    <3>5. QED BY <1>6, <1>7, <2>3, <3>2, <3>3, <3>4 DEF Goto
  <2>4. QED BY <1>7, <2>2, <2>3
<1>8. QED BY <1>1, <1>2, <1>5, <1>7 DEF Create

(* What a pull has written is in its .part file.                           *)
LEMMA GotStore ==
  ASSUME StoreInv, ShapeInv', UNCHANGED removing, NEW p \in Pulls, pc[p] \in {"fetch", "stream"},
         NEW c \in Chunks, NEW n \in Inodes, n = part[wish[p]][plan[p].leaf],
         data' = [data EXCEPT ![n] = data[n] \cup {c}], Got(p, c),
         UNCHANGED <<file, part, manifest, wish, plan>>
  PROVE  StoreInv'
<1>p. pc[p] \in Working  BY DEF Working
<1>w. /\ wish[p] \in Ids /\ plan[p] \in Plans /\ fetch[p] \in Fetches
      /\ plan = [plan EXCEPT ![p] = plan[p]] /\ pc \in [Pulls -> PCs]
      /\ plan[p].leaf \in Leaves /\ data \in [Inodes -> SUBSET Chunks]
      /\ fetch \in [Pulls -> Fetches]
      /\ ProgressOf(pc[p], wish[p], plan[p], fetch[p])
  BY <1>p, AtWork
<1>1. PICK i \in Ids, l \in Leaves : i = wish[p] /\ l = plan[p].leaf  BY <1>w
<1>2. fetch[p].got \subseteq data[n]
  BY <1>w DEF ProgressOf
<1>3. \A k \in Inodes : data'[k] = IF k = n THEN data[n] \cup {c} ELSE data[k]  BY <1>w
<1>4. \A k \in Inodes : data[k] \subseteq data'[k]  BY <1>3
<1>5. ASSUME NEW at \in Fetching, NEW m \in Leaves, Past(p, m) PROVE PastAt(at, plan[p], m)
  BY <1>5 DEF Past, PastAt, Ends
<1>6. ASSUME NEW at \in {"fetch", "stream", "verify"}, NEW f \in Fetches,
             pc' = [pc EXCEPT ![p] = at], fetch' = [fetch EXCEPT ![p] = f],
             at = "verify" => data'[n] = Chunks,
             at # "verify" => f.got \subseteq data'[n] /\ \A d \in Chunks : f.open[d] \in {NoFile, n}
      PROVE  StoreInv'
  <2>1. at \in Fetching /\ at \in Working /\ at \in PCs \ {"idle"}
    BY <1>6 DEF Fetching, Working, PCs
  <2>2. Mine(p) /\ pc'[p] = at /\ wish'[p] = i /\ plan'[p] = plan[p] /\ fetch'[p] = f
    <3>1. \A m \in Leaves : Past(p, m) => PastAt(at, plan[p], m)  BY <1>5, <2>1
    <3>2. plan' = [plan EXCEPT ![p] = plan[p]] /\ wish' = wish  BY <1>w
    <3>3. QED BY <1>1, <1>6, <1>p, <1>w, <2>1, <3>1, <3>2, Moves
  <2>3. Usable(i) => Usable(i)'  BY <1>4, <2>2, SameUsable
  <2>4. ProgressOK(p)'
    <3> SUFFICES ASSUME NEW pl, pl = plan[p] PROVE ProgressOf(at, i, pl, f)'
      BY <2>2 DEF ProgressOK
    <3>1. part'[i][pl.leaf] = n /\ n # NoFile  BY <1>1, StoreAssumption
    <3>2. ProgressOf(pc[p], i, pl, fetch[p])  BY <1>1, <1>w
    <3>3. QED BY <1>6, <2>3, <3>1, <3>2 DEF ProgressOf, Fetching
  <2>5. QED BY <1>1, <1>4, <1>p, <2>1, <2>2, <2>4, DiskStill
<1>7. CASE fetch[p].got \cup {c} = Chunks /\ Goto(p, "verify") /\ EndFetch(p)
  <2>1. data'[n] = Chunks
    <3>1. data[n] \in SUBSET Chunks  BY <1>w
    <3>2. QED BY <1>2, <1>3, <1>7, <3>1
  <2>2. QED BY <1>6, <1>7, <2>1, NothingsTyped DEF Goto, EndFetch
<1>8. CASE /\ fetch' = [fetch EXCEPT ![p].got = @ \cup {c}, ![p].open[c] = NoFile]
           /\ UNCHANGED pc
  <2>1. PICK f \in Fetches : f = [fetch[p] EXCEPT !.got = fetch[p].got \cup {c},
                                                 !.open = [fetch[p].open EXCEPT ![c] = NoFile]]
    BY <1>w DEF Fetches
  <2>2. fetch' = [fetch EXCEPT ![p] = f]  BY <1>8, <2>1, <1>w DEF Fetches
  <2>3. f.got \subseteq data'[n]  BY <1>2, <1>3, <2>1, <1>w DEF Fetches
  <2>4. \A d \in Chunks : fetch[p].open[d] \in {NoFile, n}  BY <1>w DEF ProgressOf
  <2>5. \A d \in Chunks : f.open[d] \in {NoFile, n}  BY <2>1, <2>4, <1>w DEF Fetches
  <2>6. pc' = [pc EXCEPT ![p] = pc[p]]  BY <1>8, <1>w
  <2>7. QED BY <1>6, <2>2, <2>3, <2>5, <2>6
<1>9. QED BY <1>7, <1>8 DEF Got

LEMMA FetchStore ==
  ASSUME StoreInv, UNCHANGED removing, NEW p \in Pulls,
         Stream(p) \/ \E c \in Chunks : OpenChunk(p, c) \/ WriteChunk(p, c) \/ FailChunk(p, c)
  PROVE  StoreInv'
<1>s. ShapeInv'  BY RemovingTyped, FetchShape DEF StoreInv
<1>p. pc[p] \in {"fetch", "stream"} /\ pc[p] \in Working
  BY DEF Stream, OpenChunk, WriteChunk, FailChunk, Working
<1>w. /\ wish[p] \in Ids /\ plan[p] \in Plans /\ fetch[p] \in Fetches
      /\ plan = [plan EXCEPT ![p] = plan[p]] /\ pc \in [Pulls -> PCs]
      /\ plan[p].leaf \in Leaves /\ part \in Files /\ fetch \in [Pulls -> Fetches]
      /\ ProgressOf(pc[p], wish[p], plan[p], fetch[p])
      /\ ShapeOf(pc[p], wish[p], plan[p], fetch[p])
  BY <1>p, AtWork
<1>1. PICK n \in Inodes : n = part[wish[p]][plan[p].leaf]
  <2>1. part[wish[p]][plan[p].leaf] # NoFile  BY <1>p, <1>w DEF ProgressOf
  <2>2. QED BY <2>1, <1>w DEF Files
<1>2. fetch[p].got \subseteq data[n] /\ \A c \in Chunks : fetch[p].open[c] \in {NoFile, n}
  BY <1>1, <1>p, <1>w DEF ProgressOf
<1>3. ASSUME NEW at \in Fetching, NEW m \in Leaves, Past(p, m) PROVE PastAt(at, plan[p], m)
  BY <1>3, <1>p DEF Past, PastAt, Ends
(* The file failed, or an attempt began or failed.                         *)
<1>4. ASSUME NEW at \in {"fetch", "stream", "cleanup"}, NEW f \in Fetches,
             at \in {pc[p], "cleanup"},
             pc' = [pc EXCEPT ![p] = at], fetch' = [fetch EXCEPT ![p] = f],
             at # "cleanup" => f.got = fetch[p].got /\ \A d \in Chunks : f.open[d] \in {NoFile, n},
             UNCHANGED <<disk, wish, plan>>
      PROVE  StoreInv'
  <2>1. at \in Fetching /\ at \in Working /\ at \in PCs \ {"idle"}
    BY <1>4 DEF Fetching, Working, PCs
  <2>2. \A m \in Leaves : Past(p, m) => PastAt(at, plan[p], m)  BY <1>3, <2>1
  <2>3. UNCHANGED <<wish, file, part, manifest, data>> /\ plan' = [plan EXCEPT ![p] = plan[p]]
    BY <1>4, <1>w DEF disk
  <2>4. ProgressOf(at, wish[p], plan[p], f)
    <3>1. pc[p] \in Fetching  BY <1>p DEF Fetching
    <3>2. QED BY <1>1, <1>2, <1>4, <1>w, <2>1, <3>1 DEF ProgressOf
  <2>5. QED BY <1>4, <1>p, <1>s, <1>w, <2>1, <2>2, <2>3, <2>4, PlanOnly
<1>5. CASE Stream(p)
  <2>1. ASSUME NEW c \in Chunks \ fetch[p].got, Got(p, c),
               data' = [data EXCEPT ![fetch[p].open[c]] = @ \cup {c}]
        PROVE  StoreInv'
    <3>1. fetch[p].open[c] = n  BY <1>2, <1>5, <1>w, <2>1 DEF Stream, ShapeOf
    <3>2. data' = [data EXCEPT ![n] = data[n] \cup {c}]  BY <2>1, <3>1
    <3>3. UNCHANGED <<file, part, manifest, wish, plan>>  BY <1>5 DEF Stream
    <3>4. QED BY <1>1, <1>p, <1>s, <2>1, <3>2, <3>3, GotStore
  <2>2. CASE Goto(p, "cleanup") /\ EndFetch(p) /\ UNCHANGED data
    <3>1. UNCHANGED <<disk, wish, plan>>  BY <1>5, <2>2 DEF Stream, disk
    <3>2. QED BY <1>4, <2>2, <3>1, NothingsTyped DEF Goto, EndFetch
  <2>3. QED BY <1>5, <2>1, <2>2 DEF Stream
<1>6. ASSUME NEW c \in Chunks, WriteChunk(p, c) PROVE StoreInv'
  <2>1. fetch[p].open[c] = n  BY <1>2, <1>6 DEF WriteChunk
  <2>2. data' = [data EXCEPT ![n] = data[n] \cup {c}]  BY <1>6, <2>1 DEF WriteChunk
  <2>3. UNCHANGED <<file, part, manifest, wish, plan>> /\ Got(p, c)  BY <1>6 DEF WriteChunk
  <2>4. QED BY <1>1, <1>p, <1>s, <2>2, <2>3, GotStore
<1>7. ASSUME NEW c \in Chunks, OpenChunk(p, c) PROVE StoreInv'
  <2>1. PICK f \in Fetches : f = [fetch[p] EXCEPT !.open = [fetch[p].open EXCEPT ![c] = n]]
    BY <1>w DEF Fetches
  <2>2. fetch' = [fetch EXCEPT ![p] = f] /\ f.got = fetch[p].got
    BY <1>1, <1>7, <2>1, <1>w DEF OpenChunk, Fetches
  <2>3. \A d \in Chunks : f.open[d] \in {NoFile, n}  BY <1>2, <2>1, <1>w DEF Fetches
  <2>4. pc' = [pc EXCEPT ![p] = pc[p]] /\ UNCHANGED <<disk, wish, plan>>
    BY <1>7, <1>w DEF OpenChunk
  <2>5. QED BY <1>4, <1>p, <2>2, <2>3, <2>4
<1>8. ASSUME NEW c \in Chunks, FailChunk(p, c) PROVE StoreInv'
  <2>0. UNCHANGED <<disk, wish, plan>>  BY <1>8 DEF FailChunk
  <2>1. CASE Goto(p, "cleanup") /\ EndFetch(p)
    BY <1>4, <2>0, <2>1, NothingsTyped DEF Goto, EndFetch
  <2>2. CASE /\ fetch[p].tries[c] + 1 < MaxAttempts
             /\ fetch' = [fetch EXCEPT ![p].tries[c] = @ + 1, ![p].open[c] = NoFile]
             /\ UNCHANGED pc
    <3>1. fetch[p].tries[c] + 1 \in 0..MaxAttempts
      BY <1>w, <2>2, StoreAssumption DEF Fetches
    <3>2. [fetch[p].tries EXCEPT ![c] = fetch[p].tries[c] + 1] \in [Chunks -> 0..MaxAttempts]
      BY <3>1, <1>w DEF Fetches
    <3>3. PICK f \in Fetches :
            f = [fetch[p] EXCEPT !.tries = [fetch[p].tries EXCEPT ![c] = fetch[p].tries[c] + 1],
                                 !.open = [fetch[p].open EXCEPT ![c] = NoFile]]
      BY <3>2, <1>w DEF Fetches
    <3>4. fetch' = [fetch EXCEPT ![p] = f] /\ f.got = fetch[p].got
      BY <2>2, <3>3, <1>w DEF Fetches
    <3>5. \A d \in Chunks : f.open[d] \in {NoFile, n}  BY <1>2, <3>3, <1>w DEF Fetches
    <3>6. pc' = [pc EXCEPT ![p] = pc[p]]  BY <2>2, <1>w
    <3>7. QED BY <1>4, <1>p, <2>0, <3>4, <3>5, <3>6
  <2>3. fetch[p].tries[c] \in 0..MaxAttempts  BY <1>w DEF Fetches
  <2>4. ~(fetch[p].tries[c] + 1 >= MaxAttempts) => fetch[p].tries[c] + 1 < MaxAttempts
    BY <2>3, StoreAssumption
  <2>5. QED BY <1>8, <2>1, <2>2, <2>4 DEF FailChunk
<1>9. QED BY <1>5, <1>6, <1>7, <1>8

(* A whole .part file becomes the file: whoever made it is past it.        *)
LEMMA RenameStore ==
  ASSUME StoreInv, UNCHANGED removing, NEW p \in Pulls, Rename(p)
  PROVE  StoreInv'
<1>s. ShapeInv'  BY RemovingTyped, NameShape DEF StoreInv
<1>p. pc[p] = "rename" /\ pc[p] \in Working  BY DEF Rename, Working
<1>w. /\ wish[p] \in Ids /\ plan[p] \in Plans /\ fetch[p] \in Fetches
      /\ fetch = [fetch EXCEPT ![p] = fetch[p]] /\ plan \in [Pulls -> Plans]
      /\ plan[p].leaf \in Leaves /\ part \in Files /\ file \in Files /\ pc \in [Pulls -> PCs]
      /\ ProgressOf(pc[p], wish[p], plan[p], fetch[p])
      /\ ShapeOf(pc[p], wish[p], plan[p], fetch[p])
  BY <1>p, AtWork
<1>1. PICK i \in Ids, l \in Leaves : i = wish[p] /\ l = plan[p].leaf  BY <1>w
<1>l. /\ l \in Nat /\ l \in Own(i) /\ (l # Projector => l \in Weights(i))
      /\ Weights(i) = 1..Shards[Source[i]] /\ Shards[Source[i]] \in Nat
  <2>1. l \in Own(i)  BY <1>1, <1>p, <1>w DEF ShapeOf, Fetching
  <2>2. QED BY <2>1, OwnLeaves DEF Own, Projector
<1>2. PICK n \in Inodes : n = part[i][l] /\ n # NoFile /\ data[n] = Chunks
  <2>1. part[i][l] # NoFile /\ data[part[i][l]] = Chunks  BY <1>1, <1>p, <1>w DEF ProgressOf
  <2>2. QED BY <2>1, <1>w DEF Files
<1>3. n[1] \in Pulls /\ n[2] = l /\ wish[n[1]] = i /\ pc[n[1]] # "idle"
  BY <1>2 DEF StoreInv, PartOK, Inodes
<1>4. UNCHANGED <<data, manifest, wish, fetch>>  BY DEF Rename
<1> DEFINE next == IF l = Projector THEN "manifest"
                   ELSE IF l = Shards[Source[i]] THEN "projector" ELSE "create"
           pl0 == [plan[p] EXCEPT !.mmproj = (l = Projector),
                                  !.leaf = IF next = "create" THEN l + 1 ELSE l]
<1>5. /\ file' = [file EXCEPT ![i][l] = n] /\ part' = [part EXCEPT ![i][l] = NoFile]
      /\ pc' = [pc EXCEPT ![p] = next] /\ plan' = [plan EXCEPT ![p] = pl0]
  BY <1>1, <1>2, <1>w DEF Rename, Goto
<1>6. PICK pl \in Plans : /\ pl = pl0 /\ pl.refresh = plan[p].refresh
                          /\ pl.leaf = IF next = "create" THEN l + 1 ELSE l
  <2>1. next = "create" => l + 1 \in Leaves  BY <1>l, OwnLeaves
  <2>2. PICK k \in Leaves : k = IF next = "create" THEN l + 1 ELSE l
    <3> HIDE DEF next
    <3>1. QED BY <2>1
  <2>3. pl0 = [plan[p] EXCEPT !.mmproj = (l = Projector), !.leaf = k]  BY <2>2
  <2> HIDE DEF next, pl0
  <2>4. pl0 \in Plans /\ pl0.refresh = plan[p].refresh /\ pl0.leaf = k
    BY <2>3, <1>w DEF Plans
  <2>5. QED BY <2>2, <2>4
<1>7. PICK at \in {"manifest", "projector", "create"} : at = next  OBVIOUS
<1>8. /\ l = Projector => at = "manifest"
      /\ l # Projector /\ l = Shards[Source[i]] => at = "projector"
      /\ l # Projector /\ l # Shards[Source[i]] => at = "create"
      /\ pl.leaf = IF at = "create" THEN l + 1 ELSE l
  BY <1>6, <1>7
<1>9. pc' = [pc EXCEPT ![p] = at] /\ plan' = [plan EXCEPT ![p] = pl]  BY <1>5, <1>6, <1>7
<1> HIDE DEF next, pl0
<1>10. \A m \in Leaves : Past(p, m) => PastAt(at, pl, m)
  <2> SUFFICES ASSUME NEW m \in Leaves, Past(p, m) PROVE PastAt(at, pl, m)  OBVIOUS
  <2>1. m # Projector /\ (l = Projector \/ m < l)  BY <1>1, <1>p DEF Past, PastAt, Ends
  <2>2. m \in Nat  BY StoreAssumption DEF Leaves, Projector
  <2>3. CASE at \in {"manifest", "projector"}  BY <2>1, <2>3 DEF PastAt
  <2>4. CASE at = "create"
    <3>1. m < pl.leaf  BY <1>8, <1>l, <2>1, <2>2, <2>4
    <3>2. QED BY <2>1, <2>4, <3>1 DEF PastAt, Fetching
  <2>5. QED BY <2>3, <2>4
<1>11. /\ Mine(p) /\ pc'[p] = at /\ plan'[p] = pl /\ fetch'[p] = fetch[p] /\ wish'[p] = i
  <2>1. at \in PCs \ {"idle"}  BY DEF PCs, Working
  <2>2. fetch' = [fetch EXCEPT ![p] = fetch[p]] /\ wish' = wish  BY <1>4, <1>w
  <2>3. QED BY <1>1, <1>9, <1>10, <1>p, <1>w, <2>1, <2>2, Moves
<1>12. /\ \A j \in Ids, m \in Leaves : file'[j][m] = IF j = i /\ m = l THEN n ELSE file[j][m]
       /\ \A j \in Ids, m \in Leaves : part'[j][m] = IF j = i /\ m = l THEN NoFile ELSE part[j][m]
  BY <1>5, <1>w DEF Files
<1>13. FileOK(i, l)'
  <2>1. Whole(i, l, n)'  BY <1>2, <1>3, <1>4 DEF Whole
  <2>2. Past(n[1], l)'
    <3>1. CASE n[1] = p
      <4>1. PastAt(at, pl, l)  BY <1>8, <1>l DEF PastAt, Fetching
      <4>2. QED BY <3>1, <4>1, <1>11 DEF Past
    <3>2. CASE n[1] # p
      <4>1. pc[n[1]] \notin Working  BY <1>1, <1>3, <1>p, <3>2 DEF StoreInv, Alone
      <4>2. pc[n[1]] \in Ends  BY <4>1, <1>3, <1>w DEF PCs, Ends
      <4>3. pc'[n[1]] \in Ends  BY <4>2, <1>3, <1>11, <3>2 DEF Mine
      <4>4. QED BY <4>3 DEF Past, PastAt
    <3>3. QED BY <3>1, <3>2
  <2>3. ASSUME NEW j \in Ids PROVE part'[j][l] # n
    <3>1. CASE j = i  BY <3>1, <1>2, <1>12
    <3>2. CASE j # i
      <4>1. part[j][l] = n => wish[n[1]] = j  BY <1>2 DEF StoreInv, PartOK
      <4>2. QED BY <3>2, <4>1, <1>3, <1>12
    <3>3. QED BY <3>1, <3>2
  <2>4. file'[i][l] = n  BY <1>12
  <2>5. Past(file[i][l][1], l)' /\ Whole(i, l, file[i][l])'  BY <2>1, <2>2, <2>4
  <2>6. QED BY <2>3, <2>4, <2>5, <1>l DEF FileOK, Own, Weights
<1>14. DataStays /\ PartsStay(p)  BY <1>4, <1>12 DEF DataStays, PartsStay
<1>15. ProgressOK(p)'
  <2>0. ~plan[p].refresh => manifest[i] = NoManifest  BY <1>1, <1>p, <1>w DEF ProgressOf
  <2>1. CASE at = "manifest"
    <3>1. l = Projector /\ Usable(i)
      BY <1>1, <1>8, <1>p, <1>w, <2>1 DEF ProgressOf, Fetching
    <3>2. \A m \in Weights(i) : file'[i][m] = file[i][m]  BY <1>12, <3>1, OwnLeaves
    <3>3. Usable(i)'  BY <1>11, <1>14, <1>s, <3>1, <3>2, UsableStays
    <3>4. QED BY <1>4, <1>6, <1>11, <2>0, <2>1, <3>3 DEF ProgressOK, ProgressOf, Fetching
  <2>2. CASE at # "manifest"
    <3>1. l \in Weights(i)  BY <1>8, <1>l, <2>2
    <3>2. ASSUME NEW m \in 1..l PROVE m \in Leaves /\ file'[i][m] # NoFile /\ FileOK(i, m)'
      <4>1. m \in Leaves  BY <1>l, <3>1, OwnLeaves
      <4>2. CASE m = l  BY <4>1, <4>2, <1>12, <1>13, <1>2
      <4>3. CASE m # l
        <5>1. m \in 1..(plan[p].leaf - 1) /\ plan[p].leaf # Projector  BY <4>3, <1>1, <1>8, <1>l, <2>2
        <5>2. file[wish[p]][m] # NoFile  BY <5>1, <1>p, <1>w DEF ProgressOf, Fetching
        <5>3. file'[i][m] = file[i][m] /\ file[i][m] # NoFile  BY <4>1, <4>3, <5>2, <1>1, <1>12
        <5>4. FileOK(i, m)'  BY <4>1, <5>3, <1>11, <1>14, <1>s, FileStays
        <5>5. QED BY <4>1, <5>3, <5>4
      <4>4. QED BY <4>2, <4>3
    <3>3. CASE at = "projector"
      <4>1. Weights(i) = 1..l  BY <1>8, <1>l, <2>2, <3>3
      <4>2. Usable(i)'  BY <3>2, <4>1, AllNamed
      <4>3. QED BY <1>4, <1>6, <1>11, <2>0, <3>3, <4>2 DEF ProgressOK, ProgressOf, Fetching
    <3>4. CASE at = "create"
      <4>1. pl.leaf = l + 1 /\ pl.leaf # Projector /\ pl.leaf - 1 = l
        BY <1>8, <1>l, <3>4 DEF Projector
      <4>2. \A m \in 1..l : file'[i][m] # NoFile  BY <3>2
      <4>3. QED BY <1>4, <1>6, <1>11, <2>0, <3>4, <4>1, <4>2 DEF ProgressOK, ProgressOf, Fetching
    <3>5. QED BY <3>3, <3>4, <2>2
  <2>3. QED BY <2>1, <2>2
<1>16. manifest[i] = NoManifest \/ l = Projector
  BY <1>1, <1>p, <1>w DEF ProgressOf, ShapeOf
<1>17. pc'[p] \in Working  BY <1>11 DEF Working
<1>18. QED BY <1>1, <1>4, <1>5, <1>11, <1>13, <1>15, <1>16, <1>17, <1>p, <1>s, OneNamed

LEMMA VerifyStore ==
  ASSUME StoreInv, UNCHANGED removing, NEW p \in Pulls, Verify(p)
  PROVE  StoreInv'
<1>s. ShapeInv'  BY RemovingTyped, NameShape DEF StoreInv
<1>p. pc[p] = "verify" /\ pc[p] \in Working  BY DEF Verify, Working
<1>w. /\ wish[p] \in Ids /\ plan[p] \in Plans /\ fetch[p] \in Fetches
      /\ plan = [plan EXCEPT ![p] = plan[p]] /\ fetch = [fetch EXCEPT ![p] = fetch[p]]
      /\ ProgressOf(pc[p], wish[p], plan[p], fetch[p])
  BY <1>p, AtWork
<1>1. PICK at \in {"cleanup", "rename"} : pc' = [pc EXCEPT ![p] = at]  BY DEF Verify, Goto
<1>2. at \in Fetching /\ at \in Working /\ at \in PCs \ {"idle"}  BY DEF Fetching, Working, PCs
<1>3. \A m \in Leaves : Past(p, m) => PastAt(at, plan[p], m)
  BY <1>2, <1>p DEF Past, PastAt, Ends
<1>4. ProgressOf(at, wish[p], plan[p], fetch[p])
  BY <1>p, <1>w DEF ProgressOf, Fetching
<1>5. /\ UNCHANGED <<wish, file, part, manifest, data>>
      /\ plan' = [plan EXCEPT ![p] = plan[p]] /\ fetch' = [fetch EXCEPT ![p] = fetch[p]]
  BY <1>w DEF Verify, disk
<1>6. QED BY <1>1, <1>2, <1>3, <1>4, <1>5, <1>p, <1>s, <1>w, PlanOnly

(* A file that could not be fetched: a refreshed model, or one that lacks  *)
(* only its projector, can be loaded without.                              *)
LEMMA CleanupStore ==
  ASSUME StoreInv, UNCHANGED removing, NEW p \in Pulls, Cleanup(p)
  PROVE  StoreInv'
<1>s. ShapeInv'  BY RemovingTyped, NameShape DEF StoreInv
<1>p. pc[p] = "cleanup" /\ pc[p] \in Working  BY DEF Cleanup, Working
<1>w. /\ wish[p] \in Ids /\ plan[p] \in Plans /\ fetch[p] \in Fetches
      /\ plan = [plan EXCEPT ![p] = plan[p]] /\ fetch = [fetch EXCEPT ![p] = fetch[p]]
      /\ plan[p].leaf \in Leaves /\ part \in Files
      /\ ProgressOf(pc[p], wish[p], plan[p], fetch[p])
      /\ ShapeOf(pc[p], wish[p], plan[p], fetch[p])
  BY <1>p, AtWork
<1>1. PICK i \in Ids, l \in Leaves : i = wish[p] /\ l = plan[p].leaf  BY <1>w
<1>2. UNCHANGED <<file, data, manifest, wish, fetch>> /\ part' = [part EXCEPT ![i][l] = NoFile]
  BY <1>1 DEF Cleanup
<1>3. \A j \in Ids, m \in Leaves : part'[j][m] = IF j = i /\ m = l THEN NoFile ELSE part[j][m]
  BY <1>2, <1>w DEF Files
<1>4. /\ ~plan[p].refresh => manifest[i] = NoManifest
      /\ l = Projector => Usable(i)
      /\ plan[p].refresh => l = Projector
  BY <1>1, <1>p, <1>w DEF ProgressOf, ShapeOf, Fetching
<1>5. Usable(i)' <=> Usable(i)  BY <1>2 DEF Usable, Whole, Weights
<1>6. PICK at \in {"present", "manifest", "delete"}, pl \in Plans :
        /\ pc' = [pc EXCEPT ![p] = at] /\ plan' = [plan EXCEPT ![p] = pl]
        /\ at # "present" => pl = plan[p] /\ ~plan[p].refresh
        /\ at # "delete" => l = Projector
  <2>1. CASE plan[p].refresh
    <3>1. pc' = [pc EXCEPT ![p] = "present"] /\ plan' = [plan EXCEPT ![p] = NoPlan]
      BY <2>1 DEF Cleanup, Finished, Goto
    <3>2. QED BY <3>1, <2>1, <1>4, NothingsTyped
  <2>2. CASE ~plan[p].refresh
    <3>1. /\ pc' = [pc EXCEPT ![p] = IF plan[p].leaf = Projector THEN "manifest" ELSE "delete"]
          /\ plan' = [plan EXCEPT ![p] = plan[p]]
      BY <2>2, <1>w DEF Cleanup, Goto
    <3>2. QED BY <3>1, <2>2, <1>1, <1>w
  <2>3. QED BY <2>1, <2>2
<1>7. /\ Mine(p) /\ pc'[p] = at /\ plan'[p] = pl /\ fetch'[p] = fetch[p] /\ wish'[p] = i
  <2>1. at \in PCs \ {"idle"}  BY DEF PCs, Working
  <2>2. \A m \in Leaves : Past(p, m) => PastAt(at, pl, m)  BY DEF PastAt, Ends
  <2>3. fetch' = [fetch EXCEPT ![p] = fetch[p]] /\ wish' = wish  BY <1>2, <1>w
  <2>4. pc' = [pc EXCEPT ![p] = at] /\ plan' = [plan EXCEPT ![p] = pl]  BY <1>6
  <2>5. fetch[p] \in Fetches  BY <1>w
  <2>6. /\ Mine(p) /\ pc'[p] = at /\ plan'[p] = pl
        /\ fetch'[p] = fetch[p] /\ wish'[p] = wish[p]
    BY <1>p, <2>1, <2>2, <2>3, <2>4, <2>5, Moves
  <2>7. QED BY <1>1, <2>6
<1>8. ProgressOK(p)'
  BY <1>2, <1>4, <1>5, <1>6, <1>7 DEF ProgressOK, ProgressOf, Fetching, Working
<1>9. ManifestOK(i)'  BY <1>2, <1>4, <1>5 DEF ManifestOK
<1>10. HalfOK(i)'
  <2>1. CASE at = "present"  BY <2>1, <1>4, <1>5, <1>6 DEF HalfOK
  <2>2. CASE at # "present"
    <3>1. at \in Working  BY <2>2 DEF Working
    <3>2. QED BY <3>1, <1>7 DEF HalfOK
  <2>3. QED BY <2>1, <2>2
<1>11. QED BY <1>1, <1>2, <1>3, <1>7, <1>8, <1>9, <1>10, <1>p, <1>s, NamesGo

LEMMA ProjectorStore ==
  ASSUME StoreInv, UNCHANGED removing, NEW p \in Pulls, FindProjector(p)
  PROVE  StoreInv'
<1>s. ShapeInv'  BY RemovingTyped, EndShape DEF StoreInv
<1>p. pc[p] = "projector" /\ pc[p] \in Working  BY DEF FindProjector, Working
<1>w. /\ wish[p] \in Ids /\ plan[p] \in Plans /\ fetch[p] \in Fetches
      /\ plan = [plan EXCEPT ![p] = plan[p]] /\ fetch = [fetch EXCEPT ![p] = fetch[p]]
      /\ plan[p].linked \in Ids \cup {NoId} /\ file \in Files /\ plan \in [Pulls -> Plans]
      /\ ProgressOf(pc[p], wish[p], plan[p], fetch[p])
      /\ ShapeOf(pc[p], wish[p], plan[p], fetch[p])
  BY <1>p, AtWork
<1>1. PICK i \in Ids : i = wish[p]  BY <1>w
<1>2. UNCHANGED <<part, data, manifest, wish, fetch>>  BY DEF FindProjector
<1>3. Usable(i) /\ ~plan[p].refresh /\ manifest[i] = NoManifest
  BY <1>1, <1>p, <1>w DEF ProgressOf, ShapeOf, Fetching
<1>4. Projector \in Leaves /\ Projector \notin Weights(i)  BY OwnLeaves DEF Leaves
<1>5. ASSUME NEW at \in {"manifest", "create"}, NEW pl \in Plans,
             at = "create" => pl.leaf = Projector
      PROVE  \A m \in Leaves : Past(p, m) => PastAt(at, pl, m)
  BY <1>5, <1>p DEF Past, PastAt, Ends, Fetching
<1>6. ASSUME NEW at \in {"manifest", "create"}, NEW pl \in Plans,
             at = "create" => pl.leaf = Projector, ~pl.refresh, UNCHANGED file,
             pc' = [pc EXCEPT ![p] = at], plan' = [plan EXCEPT ![p] = pl]
      PROVE  StoreInv'
  <2>1. ProgressOf(at, wish[p], pl, fetch[p])
    BY <1>1, <1>3, <1>6 DEF ProgressOf, Fetching
  <2>2. at \in PCs \ {"idle"} /\ at \in Working  BY DEF PCs, Working
  <2>3. \A m \in Leaves : Past(p, m) => PastAt(at, pl, m)  BY <1>5, <1>6
  <2>4. fetch' = [fetch EXCEPT ![p] = fetch[p]]  BY <1>2, <1>w
  <2>5. QED BY <1>2, <1>6, <1>p, <1>s, <1>w, <2>1, <2>2, <2>3, <2>4, PlanOnly
<1>7. PICK has \in Plans : /\ has = [plan[p] EXCEPT !.mmproj = TRUE] /\ ~has.refresh
                          /\ [plan EXCEPT ![p].mmproj = TRUE] = [plan EXCEPT ![p] = has]
  <2>1. [plan[p] EXCEPT !.mmproj = TRUE] \in Plans  BY <1>w DEF Plans
  <2>2. QED BY <2>1, <1>3, <1>w DEF Plans
<1>8. CASE Goto(p, "manifest") /\ UNCHANGED <<file, plan>>
  BY <1>8, <1>3, <1>6, <1>w DEF Goto
<1>9. CASE UNCHANGED file /\ plan' = [plan EXCEPT ![p].mmproj = TRUE] /\ Goto(p, "manifest")
  BY <1>9, <1>6, <1>7 DEF Goto
<1>10. CASE /\ UNCHANGED file /\ plan' = [plan EXCEPT ![p].leaf = Projector] /\ Goto(p, "create")
  <2>1. PICK pl \in Plans : pl = [plan[p] EXCEPT !.leaf = Projector]  BY <1>4, <1>w DEF Plans
  <2>2. plan' = [plan EXCEPT ![p] = pl] /\ pl.leaf = Projector /\ ~pl.refresh
    BY <1>3, <1>10, <1>w, <2>1 DEF Plans
  <2>3. QED BY <1>6, <1>10, <2>2 DEF Goto
<1>11. CASE /\ CanLinkProjector(p)
            /\ file' = [file EXCEPT ![i][Projector] = file[plan[p].linked][Projector]]
            /\ plan' = [plan EXCEPT ![p].mmproj = TRUE] /\ Goto(p, "manifest")
  <2>1. PICK h \in Ids, n \in Inodes : h = plan[p].linked /\ n = file[h][Projector]
    BY <1>4, <1>11, <1>w DEF CanLinkProjector, Files
  <2>2. Source[h] = Source[i]  BY <1>1, <1>w, <1>11, <2>1 DEF ShapeOf, CanLinkProjector
  <2>3. pc' = [pc EXCEPT ![p] = "manifest"] /\ plan' = [plan EXCEPT ![p] = has]
    BY <1>7, <1>11 DEF Goto
  <2>4. /\ Mine(p) /\ pc'[p] = "manifest" /\ plan'[p] = has /\ fetch'[p] = fetch[p] /\ wish'[p] = i
    <3>1. "manifest" \in PCs \ {"idle"}  BY DEF PCs, Working
    <3>2. \A m \in Leaves : Past(p, m) => PastAt("manifest", has, m)  BY <1>5
    <3>3. fetch' = [fetch EXCEPT ![p] = fetch[p]] /\ wish' = wish  BY <1>2, <1>w
    <3>4. QED BY <1>1, <1>p, <1>w, <2>3, <3>1, <3>2, <3>3, Moves
  <2>5. file' = [file EXCEPT ![i][Projector] = n]  BY <1>11, <2>1
  <2>6. \A m \in Leaves : file'[i][m] = IF m = Projector THEN n ELSE file[i][m]
    BY <2>5, <1>4, <1>w DEF Files
  <2>7. FileOK(i, Projector)'
    BY <1>2, <1>4, <1>s, <2>1, <2>2, <2>4, <2>6, LinkedFile
  <2>8. ProgressOK(p)'
    <3>1. DataStays  BY <1>2 DEF DataStays
    <3>2. \A m \in Weights(i) : file'[i][m] = file[i][m]  BY <1>4, <2>6, OwnLeaves
    <3>3. Usable(i)'  BY <1>3, <1>s, <2>4, <3>1, <3>2, UsableStays
    <3>4. QED BY <1>2, <1>3, <2>4, <3>3 DEF ProgressOK, ProgressOf, Fetching
  <2>9. "manifest" \in Working  BY DEF Working
  <2>10. QED BY <1>1, <1>2, <1>3, <1>4, <1>p, <1>s, <2>4, <2>5, <2>7, <2>8, <2>9, OneNamed
<1>12. QED BY <1>1, <1>8, <1>9, <1>10, <1>11 DEF FindProjector

(* A model is removed that nobody pulls.                                   *)
LEMMA RemoveStore ==
  ASSUME StoreInv, ~Overlap, NEW i \in Ids, Remove(i) \/ RemoveOn(i)
  PROVE  StoreInv'
<1>s. ShapeInv'
  BY StepShape DEF StoreInv, Next
<1>t. file \in Files /\ part \in Files /\ manifest \in [Ids -> Manifests] /\ removing \subseteq Ids
  BY TypeParts DEF StoreInv, ShapeInv
<1>0. Unlink(i) \/ RemoveDir(i)  BY DEF Remove, RemoveOn
<1>1. UNCHANGED <<data, pc, wish, plan, fetch>> /\ ~Pulling(i)
  BY <1>0 DEF Remove, RemoveOn, Unlink, RemoveDir, StoreInv, Apart
<1>2. \A j \in Ids, m \in Leaves :
        /\ file'[j][m] \in {file[j][m], NoFile} /\ part'[j][m] \in {part[j][m], NoFile}
        /\ j # i => /\ file'[j][m] = file[j][m] /\ part'[j][m] = part[j][m]
  BY <1>0, <1>t, NamesUnlinked
<1>3. \A j \in Ids \ {i} : manifest'[j] = manifest[j]  BY <1>0, <1>t, NamesUnlinked
<1>r. removing \ {i} \subseteq removing' /\ removing' \subseteq removing \cup {i}
  BY DEF Remove, RemoveOn
<1>b. i \in removing' \/ (Bare(i) /\ UNCHANGED <<file, manifest>>)
  BY DEF Remove, RemoveOn, RemoveDir
<1>4. Alone' /\ Apart'
  <2>1. Alone'  BY <1>1 DEF StoreInv, Alone
  <2>2. \A j \in removing' : ~Pulling(j)  BY <1>1, <1>r DEF StoreInv, Apart
  <2>3. QED BY <1>1, <2>1, <2>2 DEF Apart, Pulling
<1>5. \A n, l, q, j : Whole(j, l, n)' = Whole(j, l, n) /\ Past(q, l)' = Past(q, l)
  BY <1>1 DEF Whole, Past
<1>6. ASSUME NEW j \in Ids, NEW l \in Leaves PROVE FileOK(j, l)' /\ PartOK(j, l)'
  <2>1. FileOK(j, l) /\ PartOK(j, l)  BY DEF StoreInv
  <2>2. PartOK(j, l)'  BY <1>1, <1>2, <2>1 DEF PartOK
  <2>3. FileOK(j, l)'
    <3> SUFFICES ASSUME NEW n, n = file'[j][l], n # NoFile PROVE FileOK(j, l)'
      BY DEF FileOK
    <3>1. n = file[j][l]  BY <1>2
    <3>2. Whole(j, l, n)' /\ Past(n[1], l)' /\ l \in Own(j)
      BY <1>1, <2>1, <3>1 DEF FileOK, Whole, Past
    <3>3. \A k \in Ids : part'[k][l] # n  BY <1>2, <2>1, <3>1 DEF FileOK
    <3>4. Past(file[j][l][1], l)' /\ Whole(j, l, file[j][l])'  BY <3>1, <3>2
    <3>5. file'[j][l] = file[j][l]  BY <3>1
    <3>6. QED BY <3>1, <3>2, <3>3, <3>4, <3>5 DEF FileOK, Own, Weights
  <2>4. QED BY <2>2, <2>3
<1>7. ASSUME NEW j \in Ids \ {i} PROVE (Usable(j)' <=> Usable(j)) /\ (Present(j)' <=> Present(j))
  <2>1. \A l \in Weights(j) : file'[j][l] = file[j][l]  BY <1>2, OwnLeaves
  <2>2. QED BY <1>1, <1>2, <2>1 DEF Usable, Whole, Weights, Present
<1>8. ASSUME NEW q \in Pulls PROVE ProgressOK(q)'
  <2> SUFFICES ASSUME pc[q] \in Working, NEW at, NEW j, NEW pl, NEW f,
                      at = pc[q], j = wish[q], pl = plan[q], f = fetch[q]
               PROVE  ProgressOf(at, j, pl, f)'
    BY <1>1 DEF ProgressOK
  <2>1. ProgressOf(at, j, pl, f) /\ pl.leaf \in Leaves /\ j \in Ids /\ ShapeOf(at, j, pl, f)
    BY AtWork
  <2>2. j # i  BY <1>1 DEF Pulling
  <2>3. at \in Fetching /\ pl.leaf # Projector => 1..(pl.leaf - 1) \subseteq Leaves
    <3> SUFFICES ASSUME at \in Fetching, pl.leaf # Projector PROVE 1..(pl.leaf - 1) \subseteq Leaves
      OBVIOUS
    <3>1. pl.leaf \in Weights(j)  BY <2>1 DEF ShapeOf, Own
    <3>2. QED BY <3>1, <2>1, OwnLeaves
  <2>4. \A m \in Leaves : file'[j][m] = file[j][m] /\ part'[j][m] = part[j][m]
    BY <1>2, <2>1, <2>2
  <2>5. manifest'[j] = manifest[j] /\ data' = data  BY <1>1, <1>3, <2>1, <2>2
  <2>6. (Usable(j)' <=> Usable(j)) /\ (Present(j)' <=> Present(j))  BY <1>7, <2>1, <2>2
  <2>7. QED BY <2>1, <2>3, <2>4, <2>5, <2>6 DEF ProgressOf
<1>9. ASSUME NEW j \in Ids PROVE ManifestOK(j)' /\ HalfOK(j)'
  <2>1. CASE j = i  BY <2>1, <1>b DEF ManifestOK, HalfOK, Present, Bare
  <2>2. CASE j # i
    <3>1. ManifestOK(j) /\ HalfOK(j)  BY DEF StoreInv
    <3>2. /\ Usable(j)' <=> Usable(j)
          /\ Present(j)' <=> Present(j)
          /\ manifest'[j] = manifest[j] /\ (j \in removing' <=> j \in removing)
      BY <2>2, <1>3, <1>7, <1>r
    <3>3. QED BY <1>1, <3>1, <3>2 DEF ManifestOK, HalfOK
  <2>3. QED BY <2>1, <2>2
<1>10. QED BY <1>s, <1>4, <1>6, <1>8, <1>9 DEF StoreInv

LEMMA StepStore == ~Overlap /\ StoreInv /\ [Next]_vars => StoreInv'
<1> SUFFICES ASSUME ~Overlap, StoreInv, [Next]_vars PROVE StoreInv'  OBVIOUS
<1>1. CASE UNCHANGED vars
  <2>1. ShapeInv'  BY StepShape DEF StoreInv
  <2>2. UNCHANGED <<file, part, data, manifest, removing, pc, wish, plan, fetch>>
    BY <1>1 DEF vars, disk
  <2>3. Alone' /\ Apart'  BY <2>2 DEF StoreInv, Alone, Apart, Pulling
  <2>4. \A i \in Ids, l \in Leaves : FileOK(i, l)' /\ PartOK(i, l)'
    BY <2>2 DEF StoreInv, FileOK, PartOK, Whole, Past, Own, Weights
  <2>5. \A p \in Pulls : ProgressOK(p)'
    BY <2>2 DEF StoreInv, ProgressOK, ProgressOf, Usable, Present, Whole, Weights
  <2>6. \A i \in Ids : ManifestOK(i)' /\ HalfOK(i)'
    BY <2>2 DEF StoreInv, ManifestOK, HalfOK, Usable, Present, Whole, Weights
  <2>7. QED BY <2>1, <2>3, <2>4, <2>5, <2>6 DEF StoreInv
<1>2. ASSUME NEW p \in Pulls, Pull(p) PROVE StoreInv'
  BY <1>2, ResolveStore, LinkStore, UndoStore, CreateStore, FetchStore, VerifyStore, RenameStore,
     CleanupStore, ProjectorStore, ManifestStore, DeleteStore DEF Pull
<1>3. ASSUME NEW p \in Pulls, Kill(p) PROVE StoreInv'
  BY <1>3, KillStore DEF Kill
<1>4. QED BY <1>1, <1>2, <1>3, BeginStore, RemoveStore DEF Next

-----------------------------------------------------------------------------
(* What can be relied on.                                                  *)

LEMMA StoreHolds ==
  ASSUME ~Overlap
  PROVE  Spec => []StoreInv
<1>1. StoreInv /\ [Next]_vars => StoreInv'  BY StepStore
<1>2. QED BY InitStore, <1>1, PTL DEF Spec

(* Whatever has its final name is the whole file: download_file renames a  *)
(* .part file only when every range was written to it, and no later pull   *)
(* writes to it again.                                                     *)
THEOREM NamedAreWhole ==
  ASSUME ~Overlap
  PROVE  Spec => []NamedIsWhole
<1>1. StoreInv => NamedIsWhole  BY DEF StoreInv, FileOK, NamedIsWhole
<1>2. QED BY <1>1, StoreHolds, PTL

(* Half a model is only there while it is pulled or removed, or after a    *)
(* kill: every failure path removes it.                                    *)
THEOREM NoHalfIsLeft ==
  ASSUME ~Overlap
  PROVE  Spec => []NoHalfModel
<1>1. StoreInv => NoHalfModel  BY DEF StoreInv, HalfOK, NoHalfModel
<1>2. QED BY <1>1, StoreHolds, PTL

(* Only its own removal takes a finished model away: a failed pull deletes *)
(* a directory only before its manifest is there.                          *)
THEOREM RemovalOnly ==
  ASSUME ~Overlap
  PROVE  Spec => OnlyRemovalRemoves
<1>1. ASSUME StoreInv, StoreInv', [Next]_vars, NEW i \in Ids, Complete(i), ~Complete(i)'
      PROVE  i \in removing'
  <2> SUFFICES ASSUME i \notin removing' PROVE FALSE  OBVIOUS
  <2>t. manifest \in [Ids -> Manifests] /\ file \in Files /\ part \in Files
    BY <1>1, TypeParts DEF StoreInv, ShapeInv
  <2>1. manifest'[i] = NoManifest /\ manifest[i] # NoManifest
    BY <1>1 DEF StoreInv, ManifestOK, Complete
  <2>2. manifest' # manifest  BY <2>1
  <2>3. ASSUME NEW p \in Pulls, Delete(p) PROVE FALSE
    <3>1. pc[p] = "delete" /\ pc[p] \in Working  BY <2>3 DEF Delete, Working
    <3>2. manifest[wish[p]] = NoManifest /\ wish[p] \in Ids
      BY <1>1, <3>1, AtWork DEF ShapeOf, ProgressOf, Fetching
    <3>3. Unlink(wish[p]) \/ RemoveDir(wish[p])  BY <2>3 DEF Delete
    <3>4. manifest'[i] = manifest[i]  BY <2>1, <2>t, <3>2, <3>3, NamesUnlinked
    <3>5. QED BY <3>4, <2>1
  <2>4. ASSUME NEW p \in Pulls, WriteManifest(p) PROVE FALSE
    <3>1. manifest'[i].is # "none" \/ manifest'[i] = manifest[i]
      BY <2>4, <2>t, <1>1 DEF WriteManifest
    <3>2. QED BY <3>1, <2>1 DEF NoManifest
  <2>5. ASSUME NEW j \in Ids, Remove(j) \/ RemoveOn(j) PROVE FALSE
    <3>1. Unlink(j) \/ RemoveDir(j)  BY <2>5 DEF Remove, RemoveOn
    <3>2. j = i  BY <2>1, <2>t, <3>1, NamesUnlinked
    <3>3. RemoveDir(i)  BY <2>5, <3>2 DEF Remove, RemoveOn
    <3>4. QED BY <2>2, <3>3 DEF RemoveDir
  <2>6. ASSUME NEW p \in Pulls, Pull(p) \/ Kill(p) PROVE Delete(p) \/ WriteManifest(p)
    BY <2>6, <2>2 DEF Pull, Kill, Resolve, Reuse, LinkNext, UndoLinks, Create, Stream, Verify,
       Rename, Cleanup, OpenChunk, WriteChunk, FailChunk, FindProjector, ManifestFails, disk
  <2>7. ASSUME NEW p \in Pulls, NEW j \in Ids, PullPresent(p, j) \/ PullProjector(p, j) \/ PullNew(p, j)
        PROVE  FALSE
    BY <2>7, <2>2 DEF PullPresent, PullProjector, PullNew, Begin, disk
  <2>8. ~UNCHANGED vars  BY <2>2 DEF vars, disk
  <2>9. QED BY <1>1, <2>3, <2>4, <2>5, <2>6, <2>7, <2>8 DEF Next
<1>2. StoreInv /\ StoreInv' /\ [Next]_vars =>
        [\A i \in Ids : Complete(i) /\ ~Complete(i)' => i \in removing']_vars
  BY <1>1
<1>3. QED BY <1>2, StoreHolds, PTL DEF Spec, OnlyRemovalRemoves

(* A pull that says Done names a model that can be loaded, or the holder   *)
(* of its weights, whose removal has begun meanwhile.                      *)
THEOREM DoneNamesUsable ==
  ASSUME ~Overlap
  PROVE  Spec => DoneIsUsable
<1>1. ASSUME StoreInv, StoreInv', [Next]_vars, NEW p \in Pulls, NEW i \in Ids,
             pc[p] # "done", pc'[p] = "done", result'[p] = i
      PROVE  Usable(i)' \/ (i # wish[p] /\ (i \in removing' \/ manifest'[i] = NoManifest))
  <2>t. /\ pc \in [Pulls -> PCs] /\ result \in [Pulls -> Ids \cup {NoId}]
        /\ manifest \in [Ids -> Manifests]
    BY <1>1, TypeParts DEF StoreInv, ShapeInv
  <2>1. ASSUME NEW q \in Pulls, Kill(q) \/ \E j \in Ids : PullPresent(q, j) \/ PullProjector(q, j) \/ PullNew(q, j)
        PROVE  FALSE
    BY <2>1, <2>t, <1>1 DEF Kill, PullPresent, PullProjector, PullNew, Finished, Goto
  <2>2. ASSUME NEW q \in Pulls, Pull(q) PROVE UndoLinks(p) \/ WriteManifest(p) \/ ManifestFails(p)
    <3>1. CASE UndoLinks(q) \/ WriteManifest(q) \/ ManifestFails(q)
      <4>1. q = p
        BY <3>1, <2>t, <1>1 DEF UndoLinks, WriteManifest, ManifestFails, Finished, Goto
      <4>2. QED BY <3>1, <4>1
    <3>2. CASE Resolve(q) \/ Reuse(q) \/ LinkNext(q) \/ Create(q) \/ Delete(q)
      BY <3>2, <2>t, <1>1 DEF Resolve, Reuse, LinkNext, Create, Delete, Finished, Goto
    <3>3. CASE Stream(q) \/ \E c \in Chunks : OpenChunk(q, c) \/ WriteChunk(q, c) \/ FailChunk(q, c)
      BY <3>3, <2>t, <1>1 DEF Stream, OpenChunk, WriteChunk, FailChunk, Got, Goto
    <3>4. CASE Verify(q) \/ Rename(q) \/ Cleanup(q) \/ FindProjector(q)
      BY <3>4, <2>t, <1>1 DEF Verify, Rename, Cleanup, FindProjector, Finished, Goto
    <3>5. QED BY <2>2, <3>1, <3>2, <3>3, <3>4 DEF Pull
  <2>3. (UndoLinks(p) \/ WriteManifest(p) \/ ManifestFails(p)) /\ UNCHANGED removing
    <3>1. ~UNCHANGED vars  BY <1>1 DEF vars
    <3>2. ~\E j \in Ids : Remove(j) \/ RemoveOn(j)  BY <1>1 DEF Remove, RemoveOn
    <3>3. PICK q \in Pulls : Pull(q)  BY <1>1, <2>1, <3>1, <3>2 DEF Next
    <3>4. UNCHANGED removing  BY <3>3 DEF Pull
    <3>5. QED BY <2>2, <3>3, <3>4
  <2>4. pc[p] \in {"undo", "manifest"} /\ pc[p] \in Working
    BY <2>3 DEF UndoLinks, WriteManifest, ManifestFails, Working
  <2>5. /\ ShapeOf(pc[p], wish[p], plan[p], fetch[p]) /\ ProgressOf(pc[p], wish[p], plan[p], fetch[p])
        /\ wish[p] \in Ids
    BY <1>1, <2>4, AtWork
  <2>6. manifest'[i] # NoManifest => Usable(i)' \/ i \in removing'
    BY <1>1 DEF StoreInv, ManifestOK
  <2>7. CASE UndoLinks(p)
    <3>1. i = plan[p].linked  BY <1>1, <2>7, <2>t DEF UndoLinks, Finished
    <3>2. i # wish[p]  BY <2>5, <2>7, <3>1 DEF UndoLinks, ShapeOf
    <3>3. QED BY <2>6, <3>2
  <2>8. CASE WriteManifest(p)
    <3>1. i = wish[p]  BY <1>1, <2>8, <2>t DEF WriteManifest, Finished
    <3>2. manifest'[i].is # "none"  BY <2>8, <2>t, <3>1, <2>5 DEF WriteManifest
    <3>3. i \notin removing'  BY <1>1, <2>3, <2>4, <3>1 DEF StoreInv, Apart, Pulling
    <3>4. QED BY <2>6, <3>2, <3>3 DEF NoManifest
  <2>9. CASE ManifestFails(p)
    <3>1. i = wish[p]  BY <1>1, <2>9, <2>t DEF ManifestFails, Finished, Goto
    <3>2. Usable(i)  BY <2>5, <2>9, <3>1 DEF ManifestFails, ProgressOf
    <3>3. UNCHANGED <<file, data, wish>>  BY <2>9 DEF ManifestFails, disk
    <3>4. QED BY <3>2, <3>3 DEF Usable, Whole, Weights
  <2>10. QED BY <2>3, <2>7, <2>8, <2>9
<1>2. StoreInv /\ StoreInv' /\ [Next]_vars =>
        [\A p \in Pulls, i \in Ids :
           pc[p] # "done" /\ pc'[p] = "done" /\ result'[p] = i =>
             \/ Usable(i)'
             \/ i # wish[p] /\ (i \in removing' \/ manifest'[i] = NoManifest)]_vars
  BY <1>1
<1>3. QED BY <1>2, StoreHolds, PTL DEF Spec, DoneIsUsable
=============================================================================
