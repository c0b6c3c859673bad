------------------------------- MODULE MCStore -------------------------------
(* An instance of Store for TLC: "hub" and "cat" are the same file of one      *)
(* repository, with a projector; "split" and "split2" the same two shards.     *)
EXTENDS Store, TLC

MCKind   == [i \in Ids |-> IF i = "cat" THEN "catalog" ELSE IF i = "url" THEN "url" ELSE "hub"]
MCSource == [i \in Ids |-> IF i \in {"hub", "cat"} THEN "one"
                           ELSE IF i \in {"split", "split2"} THEN "split" ELSE i]
MCShards == [s \in {"one", "url", "split"} |-> IF s = "split" THEN 2 ELSE 1]

Symmetry == Permutations(Pulls) \cup Permutations(Chunks)
=============================================================================
