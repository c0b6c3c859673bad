------------------------------ MODULE MCSizing ------------------------------
(* Instances of Sizing for TLC: a dense and a hybrid model, MoE models     *)
(* with even and uneven layers, and one with a host-only table.            *)
EXTENDS Sizing

(* `experts`: of each layer.                                               *)
Model(rest, experts, table, kv, interval, trained) ==
  [layers |-> Len(experts), rest |-> rest,
   experts |-> [n \in 0..Len(experts) |-> MapThenSumSet(LAMBDA i : experts[i], 1..n)],
   table |-> table, kv |-> kv, interval |-> interval, trained |-> trained]

dense  == Model(16, <<0, 0, 0, 0>>, 0, 1, 1, 16)
hybrid == Model(16, <<0, 0, 0, 0>>, 0, 2, 2, 9)
even   == Model(8, <<6, 6, 6, 6>>, 0, 1, 4, 16)
uneven == Model(8, <<2, 2, 8, 8>>, 0, 2, 4, 16)
tabled == Model(8, <<4, 4, 4, 4>>, 20, 1, 4, 16)

MCErrors == {-1, 0, 3, 8}

Off == [kind |-> "off", mib |-> 0]
Caches == {Off} \cup {[kind |-> k, mib |-> n] : k \in {"auto", "default"}, n \in {0}}
            \cup {[kind |-> "mib", mib |-> 9]}

MCLoads ==
  {l \in [model : {dense, hybrid}, free : {2, 9, 24, 36, 45, 57, 70}, readable : {TRUE},
          companions : {0, 3}, projector : {0, 4}, offload : {"auto", "cpu", "gpu"},
          ceiling : {2, All}, cpu_moe : {FALSE}, n_cpu_moe : {0}, cache : {Off},
          large_ubatch : {FALSE, TRUE}, slots : {0}, asked : {CtxAuto, 1, 4, 12}, align : {1, 3}] :
     /\ l.projector = 0 => l.offload = "auto"
     /\ l.asked # CtxAuto => l.align = 1}
  \cup
  {l \in [model : {even, uneven, tabled}, free : {8, 14, 21, 26, 33, 42, 47}, readable : {TRUE},
          companions : {0, 3}, projector : {0, 4}, offload : {"auto", "cpu"},
          ceiling : {All}, cpu_moe : BOOLEAN, n_cpu_moe : {0, 2}, cache : Caches,
          large_ubatch : BOOLEAN, slots : {0, 2}, asked : {CtxAuto, 8}, align : {1}] :
     /\ l.projector = 0 => l.offload = "auto"
     /\ l.cpu_moe => l.n_cpu_moe = 0
     /\ l.cache.kind = "default" => ~l.cpu_moe /\ l.n_cpu_moe = 0
     /\ l.cache.kind \in {"off", "mib"} => l.slots = 0}
  \cup
  [model : {dense, even}, free : {40}, readable : {FALSE}, companions : {0},
   projector : {0, 4}, offload : {"auto"}, ceiling : {2, All}, cpu_moe : {FALSE},
   n_cpu_moe : {0}, cache : {Off}, large_ubatch : {FALSE}, slots : {0},
   asked : {CtxAuto, 8}, align : {1}]
=============================================================================
