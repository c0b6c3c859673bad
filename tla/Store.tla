------------------------------- MODULE Store -------------------------------
(***************************************************************************)
(* The model store on disk and the pulls that fill it: registry/mod.rs     *)
(* (download of one file), models/pull.rs and the pull commands of main.rs *)
(* (the sequence of a pull), models/store.rs (lookup, links, removal).     *)
(*                                                                         *)
(* A model is a directory named by its id: one or more weight files        *)
(* (shards), maybe a projector, a manifest.  Pulls run in the server or in *)
(* commands of their own, and share nothing but the disk: every access to  *)
(* it that another pull could see the middle of is an action.              *)
(*                                                                         *)
(* What is abstracted.  A file is what its name points to (an inode, known *)
(* by the pull and the file it was made for) and the chunks of it that     *)
(* hold data; the rest are holes left by set_len.  The remote side is a    *)
(* choice: a request is answered, refused or cut off.                      *)
(***************************************************************************)
EXTENDS Naturals, FiniteSets

CONSTANTS
  Pulls,       (* each pulls one model, once                               *)
  Ids,         (* model ids, the names of the directories                  *)
  Kind,        (* how an id is pulled: "hub", "catalog" or "url"           *)
  Source,      (* the remote file an id's weights are                      *)
  Shards,      (* how many files the weights of a source are split in      *)
  Vision,      (* sources with a projector beside the weights              *)
  Digests,     (* catalog ids with a SHA-256 to verify                     *)
  Chunks,      (* byte ranges of a file (split_ranges)                     *)
  MaxAttempts, (* CHUNK_MAX_ATTEMPTS                                       *)
  NoFile, NoId,
  Overlap,     (* BOOLEAN: a model is pulled or removed while a pull of it *)
               (* is running                                               *)
  Kills,       (* BOOLEAN: a pull's process may be killed                  *)
  Removals     (* BOOLEAN: models are removed                              *)

Projector == 0
Leaves    == {Projector} \cup UNION {1..Shards[s] : s \in {Source[i] : i \in Ids}}
Inodes    == Pulls \X Leaves

ASSUME StoreAssumption ==
  /\ IsFiniteSet(Chunks) /\ Chunks # {}
  /\ Kind \in [Ids -> {"hub", "catalog", "url"}]
  /\ \A i \in Ids : Shards[Source[i]] \in Nat \ {0}
  /\ \A i \in Ids : Kind[i] # "hub" => Shards[Source[i]] = 1
  /\ Digests \subseteq {i \in Ids : Kind[i] = "catalog"}
  /\ MaxAttempts \in Nat \ {0}
  /\ NoFile \notin Inodes /\ NoId \notin Ids
  /\ Overlap \in BOOLEAN /\ Kills \in BOOLEAN /\ Removals \in BOOLEAN

VARIABLES
  (* The disk. *)
  dirs,      (* model directories that exist                               *)
  file,      (* what each final name in a directory points to              *)
  part,      (* what each .gguf.part name points to                        *)
  data,      (* the chunks of each inode that hold data                    *)
  manifest,  (* manifest.json: whether it is there and names the source,   *)
             (* and whether it records a projector                         *)
  removing,  (* models whose removal has begun and is not over             *)
  (* The pulls. *)
  pc,        (* where each is                                              *)
  wish,      (* the id it pulls                                            *)
  plan,      (* what it does: the file it is linking or fetching; the id   *)
             (* its weights are linked from, and whether link_files made   *)
             (* the directory; the model was there and only a projector is *)
             (* fetched (refresh); mmproj_stored                           *)
  fetch,     (* its download: the chunks it has written, the failed        *)
             (* attempts for each, what it has open to write each to       *)
  result     (* the id it said the model can be run as                     *)

disk == <<dirs, file, part, data, manifest>>
vars == <<disk, removing, pc, wish, plan, fetch, result>>

NoFetch == [got |-> {}, tries |-> [c \in Chunks |-> 0], open |-> [c \in Chunks |-> NoFile]]
NoPlan  == [leaf |-> Projector, linked |-> NoId, created |-> FALSE,
            refresh |-> FALSE, mmproj |-> FALSE]
NoManifest == [is |-> "none", mmproj |-> FALSE]
Manifests  == [is : {"none", "plain", "sourced"}, mmproj : BOOLEAN]

-----------------------------------------------------------------------------
(* Looking a model up. *)

Weights(i) == 1..Shards[Source[i]]

(* gguf_path: the manifest's file, or else any .gguf of the directory.     *)
Present(i) == \E l \in Leaves : file[i][l] # NoFile

(* reuse_stored_weights: other ids whose manifest records the same file,   *)
(* with all its shards there.                                              *)
Holders(i) ==
  {h \in Ids \ {i} : /\ manifest[h].is = "sourced" /\ Source[h] = Source[i]
                     /\ \A l \in Weights(i) : file[h][l] # NoFile}

Working == {"resolve", "reuse", "link", "undo", "create", "fetch", "stream",
            "verify", "rename", "cleanup", "projector", "manifest", "delete"}

Pulling(i) == \E p \in Pulls : wish[p] = i /\ pc[p] \in Working

(* The content of file `l` of model `i`, whole, is what `n` points to.     *)
Whole(i, l, n) ==
  n # NoFile /\ data[n] = Chunks /\ n[2] = l /\ Source[wish[n[1]]] = Source[i]

(* The weights of `i` can be loaded.                                       *)
Usable(i) == \A l \in Weights(i) : Whole(i, l, file[i][l])

Goto(p, s)   == pc' = [pc EXCEPT ![p] = s]
Finished(p, s, i) ==
  /\ Goto(p, s)
  /\ result' = [result EXCEPT ![p] = i]
  /\ plan' = [plan EXCEPT ![p] = NoPlan]

(* The ranges are done with.                                               *)
EndFetch(p) == fetch' = [fetch EXCEPT ![p] = NoFetch]

Bare(i) == /\ \A l \in Leaves : file[i][l] = NoFile /\ part[i][l] = NoFile
           /\ manifest[i] = NoManifest

(* remove_dir_all takes one name away after another, in any order,         *)
Unlink(i) ==
  /\ \/ \E l \in Leaves : /\ file[i][l] # NoFile
                          /\ file' = [file EXCEPT ![i][l] = NoFile]
                          /\ UNCHANGED <<part, manifest>>
     \/ \E l \in Leaves : /\ part[i][l] # NoFile
                          /\ part' = [part EXCEPT ![i][l] = NoFile]
                          /\ UNCHANGED <<file, manifest>>
     \/ /\ manifest[i] # NoManifest
        /\ manifest' = [manifest EXCEPT ![i] = NoManifest]
        /\ UNCHANGED <<file, part>>
  /\ UNCHANGED <<dirs, data>>

(* and then the directory, which stays if a pull has put something there   *)
(* meanwhile.                                                              *)
RemoveDir(i) ==
  /\ Overlap \/ Bare(i)
  /\ dirs' = IF Bare(i) THEN dirs \ {i} ELSE dirs
  /\ UNCHANGED <<file, part, data, manifest>>

-----------------------------------------------------------------------------
(* A pull decides what to do. *)

Begin(p, i) ==
  /\ pc[p] = "idle"
  /\ Overlap \/ (~Pulling(i) /\ i \notin removing)
  /\ wish' = [wish EXCEPT ![p] = i]
  /\ UNCHANGED <<disk, removing, fetch>>

LacksProjector(i) ==
  Kind[i] = "catalog" /\ Source[i] \in Vision /\ file[i][Projector] = NoFile

(* The id is looked up: a model that is there is not pulled again.         *)
PullPresent(p, i) ==
  /\ Begin(p, i) /\ Present(i) /\ ~LacksProjector(i)
  /\ Finished(p, "present", i)

(* Of a catalog model only the projector it lacks is fetched.              *)
PullProjector(p, i) ==
  /\ Begin(p, i) /\ Present(i) /\ LacksProjector(i)
  /\ plan' = [plan EXCEPT ![p].refresh = TRUE]
  /\ Goto(p, "create")
  /\ UNCHANGED result

PullNew(p, i) ==
  /\ Begin(p, i) /\ ~Present(i)
  /\ plan' = [plan EXCEPT ![p].leaf = 1]
  /\ Goto(p, "resolve")
  /\ UNCHANGED result

(* The ref is resolved to files; the remote may not answer.                *)
Resolve(p) ==
  /\ pc[p] = "resolve"
  /\ \/ Goto(p, IF Kind[wish[p]] = "url" THEN "create" ELSE "reuse")
        /\ UNCHANGED <<plan, result>>
     \/ Kind[wish[p]] = "hub" /\ Finished(p, "failed", NoId)
  /\ UNCHANGED <<disk, wish, fetch>>

(* reuse_stored_weights and link_files up to the first link: which of      *)
(* several holders is left open.                                           *)
Reuse(p) ==
  LET i == wish[p] IN
  /\ pc[p] = "reuse"
  /\ \/ /\ Holders(i) = {}
        /\ Goto(p, "create")
        /\ UNCHANGED <<dirs, plan>>
     \/ \E h \in Holders(i) :
          /\ plan' = [plan EXCEPT ![p].linked = h, ![p].created = i \notin dirs]
          /\ dirs' = dirs \cup {i}
          /\ Goto(p, "link")
  /\ UNCHANGED <<file, part, data, manifest, wish, fetch, result>>

(* Slip: only the first file of a split is linked.                         *)
LinkFirst(p) ==
  LET i == wish[p] l == plan[p].leaf n == file[plan[p].linked][l] IN
  /\ pc[p] = "link"
  /\ \/ /\ n # NoFile /\ file[i][l] = NoFile /\ i \in dirs
        /\ file' = [file EXCEPT ![i][l] = n]
        /\ Goto(p, "projector")
     \/ Goto(p, "undo") /\ UNCHANGED file
  /\ UNCHANGED <<dirs, part, data, manifest, wish, plan, fetch, result>>

(* One hard link: the name exists already, its source has gone, or the     *)
(* file system cannot link, and what was linked is undone.                 *)
LinkNext(p) ==
  LET i == wish[p] l == plan[p].leaf n == file[plan[p].linked][l] IN
  /\ pc[p] = "link"
  /\ \/ /\ n # NoFile /\ file[i][l] = NoFile /\ i \in dirs
        /\ file' = [file EXCEPT ![i][l] = n]
        /\ IF l = Shards[Source[i]] THEN Goto(p, "projector") /\ UNCHANGED plan
           ELSE plan' = [plan EXCEPT ![p].leaf = l + 1] /\ UNCHANGED pc
     \/ Goto(p, "undo") /\ UNCHANGED <<file, plan>>
  /\ UNCHANGED <<dirs, part, data, manifest, wish, fetch, result>>

(* The links made are removed, and the directory if this call created it   *)
(* and nothing is in it.  The model is the holder's.                       *)
UndoLinks(p) ==
  LET i == wish[p] IN
  /\ pc[p] = "undo"
  /\ file' = [file EXCEPT ![i] = [l \in Leaves |-> IF l \in 1..(plan[p].leaf - 1)
                                                     THEN NoFile ELSE @[l]]]
  /\ dirs' = IF /\ plan[p].created /\ manifest[i] = NoManifest
                /\ \A l \in Leaves : file'[i][l] = NoFile /\ part[i][l] = NoFile
               THEN dirs \ {i} ELSE dirs
  /\ Finished(p, "done", plan[p].linked)
  /\ UNCHANGED <<part, data, manifest, wish, fetch>>

-----------------------------------------------------------------------------
(* One file is downloaded. *)

(* download_file makes the directory; the server is asked for ranges; the  *)
(* .part file is created, or emptied if it is there, and with ranges given *)
(* its length.                                                             *)
Create(p) ==
  LET i == wish[p]
      l == plan[p].leaf
      n == IF part[i][l] = NoFile THEN <<p, l>> ELSE part[i][l]
  IN
  /\ pc[p] = "create"
  /\ \/ /\ dirs' = dirs \cup {i}
        /\ part' = [part EXCEPT ![i][l] = n]
        /\ data' = [data EXCEPT ![n] = {}]
        /\ \/ /\ Goto(p, "fetch")
              /\ UNCHANGED fetch
           \/ /\ Goto(p, "stream")
              /\ fetch' = [fetch EXCEPT ![p].open = [c \in Chunks |-> n]]
     \/ /\ Goto(p, "cleanup") /\ dirs' \in {dirs, dirs \cup {i}}
        /\ UNCHANGED <<part, data, fetch>>
  /\ UNCHANGED <<file, manifest, wish, plan, result>>

(* fetch_chunk_once: a range is answered, and the .part file opened by its *)
(* name to write it at its place.                                          *)
OpenChunk(p, c) ==
  LET n == part[wish[p]][plan[p].leaf] IN
  /\ pc[p] = "fetch" /\ c \notin fetch[p].got /\ fetch[p].open[c] = NoFile
  /\ n # NoFile
  /\ fetch' = [fetch EXCEPT ![p].open[c] = n]
  /\ UNCHANGED <<disk, pc, wish, plan, result>>

(* A chunk is on disk; with the last one the file is.                      *)
Got(p, c) ==
  IF fetch[p].got \cup {c} = Chunks THEN Goto(p, "verify") /\ EndFetch(p)
  ELSE /\ fetch' = [fetch EXCEPT ![p].got = @ \cup {c}, ![p].open[c] = NoFile]
       /\ UNCHANGED pc

(* The range has been written to its end.  That a 206 brings the range     *)
(* asked for, and a body cut short is an error, is left to the server and  *)
(* the HTTP library: the code does not count the bytes.                    *)
WriteChunk(p, c) ==
  /\ pc[p] = "fetch" /\ fetch[p].open[c] # NoFile
  /\ data' = [data EXCEPT ![fetch[p].open[c]] = @ \cup {c}]
  /\ Got(p, c)
  /\ UNCHANGED <<dirs, file, part, manifest, wish, plan, result>>

(* Slip: a range that was cut off counts as fetched.                       *)
FailChunkCounted(p, c) ==
  /\ pc[p] = "fetch" /\ c \notin fetch[p].got
  /\ Got(p, c)
  /\ UNCHANGED <<disk, wish, plan, result>>


(* An attempt fails: refused, timed out, cut off, or the .part file gone.  *)
(* A range that failed too often fails the file, and the other ranges are  *)
(* dropped where they are.                                                 *)
FailChunk(p, c) ==
  /\ pc[p] = "fetch" /\ c \notin fetch[p].got
  /\ IF fetch[p].tries[c] + 1 >= MaxAttempts
       THEN Goto(p, "cleanup") /\ EndFetch(p)
       ELSE /\ fetch' = [fetch EXCEPT ![p].tries[c] = @ + 1, ![p].open[c] = NoFile]
            /\ UNCHANGED pc
  /\ UNCHANGED <<disk, wish, plan, result>>

(* download_stream: the file arrives in one piece after the other, or the  *)
(* stream breaks.  An end that comes early without an error, possible when *)
(* no length was announced, is not told from the file's own and left out.  *)
Stream(p) ==
  /\ pc[p] = "stream"
  /\ \/ \E c \in Chunks \ fetch[p].got :
          /\ data' = [data EXCEPT ![fetch[p].open[c]] = @ \cup {c}]
          /\ Got(p, c)
     \/ Goto(p, "cleanup") /\ EndFetch(p) /\ UNCHANGED data
  /\ UNCHANGED <<dirs, file, part, manifest, wish, plan, result>>

(* verify_digest_if_present: only a catalog model's weights have one.      *)
Verify(p) ==
  LET i == wish[p] l == plan[p].leaf
      wrong == i \in Digests /\ l # Projector /\ ~Whole(i, l, part[i][l])
  IN
  /\ pc[p] = "verify"
  /\ Goto(p, IF wrong THEN "cleanup" ELSE "rename")
  /\ UNCHANGED <<disk, wish, plan, fetch, result>>

(* The file gets its name, unless another pull has taken the .part away,   *)
(* and the pull goes on with the next.                                     *)
Rename(p) ==
  LET i == wish[p]
      l == plan[p].leaf
      n == part[i][l]
      next == IF l = Projector THEN "manifest"
              ELSE IF l = Shards[Source[i]] THEN "projector" ELSE "create"
  IN
  /\ pc[p] = "rename"
  /\ file' = IF n = NoFile THEN file ELSE [file EXCEPT ![i][l] = n]
  /\ part' = [part EXCEPT ![i][l] = NoFile]
  /\ Goto(p, IF n = NoFile THEN "cleanup" ELSE next)
  /\ plan' = IF n = NoFile THEN plan
             ELSE [plan EXCEPT ![p].mmproj = (l = Projector),
                               ![p].leaf = IF next = "create" THEN l + 1 ELSE l]
  /\ UNCHANGED <<dirs, data, manifest, wish, fetch, result>>

(* Slip: a refresh whose projector cannot be fetched fails the pull.       *)
CleanupFailing(p) ==
  /\ pc[p] = "cleanup"
  /\ part' = [part EXCEPT ![wish[p]][plan[p].leaf] = NoFile]
  /\ Goto(p, IF plan[p].leaf = Projector /\ ~plan[p].refresh THEN "manifest" ELSE "delete")
  /\ UNCHANGED <<dirs, file, data, manifest, wish, plan, fetch, result>>

(* A file could not be fetched: its .part file is removed.  Weights fail   *)
(* the pull, a projector only costs the projector.                         *)
Cleanup(p) ==
  LET i == wish[p] IN
  /\ pc[p] = "cleanup"
  /\ part' = [part EXCEPT ![i][plan[p].leaf] = NoFile]
  /\ IF plan[p].refresh THEN Finished(p, "present", i)
     ELSE /\ Goto(p, IF plan[p].leaf = Projector THEN "manifest" ELSE "delete")
          /\ UNCHANGED <<plan, result>>
  /\ UNCHANGED <<dirs, file, data, manifest, wish, fetch>>

-----------------------------------------------------------------------------
(* The pull ends. *)

(* link_stored_projector: linked weights bring the holder's along.         *)
CanLinkProjector(p) ==
  LET i == wish[p] h == plan[p].linked IN
  /\ h # NoId /\ i \in dirs
  /\ manifest[h] = [is |-> "sourced", mmproj |-> TRUE]
  /\ file[h][Projector] # NoFile /\ file[i][Projector] = NoFile

(* The projector: none, or not found out; linked with the weights; already *)
(* there; or to be fetched.                                                *)
FindProjector(p) ==
  LET i == wish[p]
      has == plan' = [plan EXCEPT ![p].mmproj = TRUE]
      there == Kind[i] = "catalog" /\ file[i][Projector] # NoFile
  IN
  /\ pc[p] = "projector"
  /\ \/ /\ Source[i] \notin Vision \/ Kind[i] # "catalog"
        /\ Goto(p, "manifest") /\ UNCHANGED <<file, plan>>
     \/ /\ Source[i] \in Vision /\ CanLinkProjector(p)
        /\ file' = [file EXCEPT ![i][Projector] = file[plan[p].linked][Projector]]
        /\ has /\ Goto(p, "manifest")
     \/ /\ Source[i] \in Vision /\ Kind[i] # "url" /\ ~CanLinkProjector(p)
        /\ IF there THEN has /\ Goto(p, "manifest")
           ELSE plan' = [plan EXCEPT ![p].leaf = Projector] /\ Goto(p, "create")
        /\ UNCHANGED file
  /\ UNCHANGED <<dirs, part, data, manifest, wish, fetch, result>>

(* The manifest is written beside and renamed, so it is never half there.  *)
(* A refreshed one keeps what it knew of its source, and a digest of the   *)
(* catalog's says as much (recorded_hf_file).                              *)
WriteManifest(p) ==
  LET i == wish[p] IN
  /\ pc[p] = "manifest"
  /\ manifest' = [manifest EXCEPT ![i] =
       [is |-> IF \/ Kind[i] = "url"
                  \/ plan[p].refresh /\ @.is # "sourced" /\ i \notin Digests
                 THEN "plain" ELSE "sourced",
        mmproj |-> plan[p].mmproj]]
  /\ dirs' = dirs \cup {i}
  /\ Finished(p, IF plan[p].refresh THEN "present" ELSE "done", i)
  /\ UNCHANGED <<file, part, data, wish, fetch>>

(* It cannot be written.  A Hub pull fails with its files in place, linked *)
(* catalog weights are let go of, and anything else is done with a warning.*)
ManifestFails(p) ==
  LET i == wish[p] IN
  /\ pc[p] = "manifest"
  /\ \/ Kind[i] = "hub" /\ Finished(p, "failed", NoId)
     \/ /\ Kind[i] # "hub" /\ plan[p].linked # NoId
        /\ Goto(p, "delete") /\ UNCHANGED <<plan, result>>
     \/ /\ Kind[i] # "hub" /\ plan[p].linked = NoId
        /\ Finished(p, IF plan[p].refresh THEN "present" ELSE "done", i)
  /\ UNCHANGED <<disk, wish, fetch>>

(* Slip: a failed pull removes nothing.                                    *)
DeleteNothing(p) ==
  /\ pc[p] = "delete"
  /\ Finished(p, "failed", NoId)
  /\ UNCHANGED <<disk, wish, fetch>>

(* A failed pull removes the directory and what is in it.                  *)
Delete(p) ==
  /\ pc[p] = "delete"
  /\ \/ Unlink(wish[p]) /\ UNCHANGED <<pc, plan, result>>
     \/ RemoveDir(wish[p]) /\ Finished(p, "failed", NoId)
  /\ UNCHANGED <<wish, fetch>>

(* The process of a pull is killed wherever it is.                         *)
Kill(p) ==
  /\ Kills /\ pc[p] \in Working
  /\ Finished(p, "killed", NoId)
  /\ EndFetch(p)
  /\ UNCHANGED <<disk, removing, wish>>

(* eullm rm, or the API's delete: only of a model with a manifest.  A      *)
(* process killed in the middle of it is a removal that goes no further.   *)
Remove(i) ==
  /\ Removals /\ manifest[i] # NoManifest /\ i \notin removing
  /\ Overlap \/ ~Pulling(i)
  /\ Unlink(i)
  /\ removing' = removing \cup {i}
  /\ UNCHANGED <<pc, wish, plan, fetch, result>>

RemoveOn(i) ==
  /\ i \in removing
  /\ \/ Unlink(i) /\ UNCHANGED removing
     \/ RemoveDir(i) /\ removing' = removing \ {i}
  /\ UNCHANGED <<pc, wish, plan, fetch, result>>

-----------------------------------------------------------------------------
Init ==
  /\ dirs = {}
  /\ file = [i \in Ids |-> [l \in Leaves |-> NoFile]]
  /\ part = [i \in Ids |-> [l \in Leaves |-> NoFile]]
  /\ data = [n \in Inodes |-> {}]
  /\ manifest = [i \in Ids |-> NoManifest]
  /\ removing = {}
  /\ pc = [p \in Pulls |-> "idle"]
  /\ wish = [p \in Pulls |-> NoId]
  /\ plan = [p \in Pulls |-> NoPlan]
  /\ fetch = [p \in Pulls |-> NoFetch]
  /\ result = [p \in Pulls |-> NoId]

(* What a pull does once it has started.                                   *)
Pull(p) ==
  /\ \/ Resolve(p) \/ Reuse(p) \/ LinkNext(p) \/ UndoLinks(p)
     \/ Create(p) \/ Stream(p) \/ Verify(p) \/ Rename(p) \/ Cleanup(p)
     \/ \E c \in Chunks : OpenChunk(p, c) \/ WriteChunk(p, c) \/ FailChunk(p, c)
     \/ FindProjector(p) \/ WriteManifest(p) \/ ManifestFails(p) \/ Delete(p)
  /\ UNCHANGED removing

Next ==
  \/ \E p \in Pulls :
       \/ Pull(p) \/ Kill(p)
       \/ \E i \in Ids : PullPresent(p, i) \/ PullProjector(p, i) \/ PullNew(p, i)
  \/ \E i \in Ids : Remove(i) \/ RemoveOn(i)

Spec == Init /\ [][Next]_vars

(* Requests, attempts and backoffs are bounded (CHUNK_REQUEST_TIMEOUT), so *)
(* a pull that is not killed goes on.                                      *)
FairSpec == Spec /\ \A p \in Pulls : WF_vars(Pull(p))

-----------------------------------------------------------------------------
(* Properties. *)

(* Every variable holds what the code can put in it.                       *)
TypeOK ==
  /\ dirs \subseteq Ids
  /\ file \in [Ids -> [Leaves -> Inodes \cup {NoFile}]]
  /\ part \in [Ids -> [Leaves -> Inodes \cup {NoFile}]]
  /\ data \in [Inodes -> SUBSET Chunks]
  /\ manifest \in [Ids -> Manifests]
  /\ removing \subseteq Ids
  /\ pc \in [Pulls -> Working \cup {"idle", "present", "done", "failed", "killed"}]
  /\ wish \in [Pulls -> Ids \cup {NoId}]
  /\ plan \in [Pulls -> [leaf : Leaves, linked : Ids \cup {NoId}, created : BOOLEAN,
                         refresh : BOOLEAN, mmproj : BOOLEAN]]
  /\ fetch \in [Pulls -> [got : SUBSET Chunks, tries : [Chunks -> 0..MaxAttempts],
                          open : [Chunks -> Inodes \cup {NoFile}]]]
  /\ result \in [Pulls -> Ids \cup {NoId}]

(* Whatever has its final name is the whole file, also without a digest,   *)
(* after retries, kills and .part files left by a killed pull: only        *)
(* download_file renames, and only what every range was written to.        *)
NamedIsWhole ==
  \A i \in Ids, l \in Leaves : file[i][l] # NoFile => Whole(i, l, file[i][l])

(* Half a model is only there while it is pulled or removed or after a     *)
(* kill: every failure path removes it (pull.rs l.175).                    *)
NoHalfModel ==
  \A i \in Ids : Present(i) =>
    \/ Usable(i) \/ i \in removing
    \/ \E p \in Pulls : wish[p] = i /\ pc[p] \in Working \cup {"killed"}

(* A model whose pull is finished.                                         *)
Complete(i) == Usable(i) /\ manifest[i] # NoManifest

(* Only its own removal takes a finished model away: not that of an id it  *)
(* shares files with, nor a pull that fails or is killed.                  *)
OnlyRemovalRemoves ==
  [][\A i \in Ids : Complete(i) /\ ~Complete(i)' => i \in removing']_vars

(* A pull that says Done names a model that can be loaded.  One it would   *)
(* have linked from, and names instead, may be half removed by now, or     *)
(* gone and on its way back: then it has no manifest.                      *)
DoneIsUsable ==
  [][\A p \in Pulls, i \in Ids :
        pc[p] # "done" /\ pc'[p] = "done" /\ result'[p] = i =>
          \/ Usable(i)'
          \/ i # wish[p] /\ (i \in removing' \/ manifest'[i] = NoManifest)]_vars

=============================================================================
