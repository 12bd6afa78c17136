------------------------------- MODULE MCPruner -------------------------------
(***************************************************************************)
(* Four blocks, snapshot at block 2.  Block 1 (old) shares account a with  *)
(* genesis and the snapshot, and alone holds account b with storage Y;     *)
(* block 3 (kept) reuses the snapshot's account c.  Index tries share j    *)
(* (blocks 1 and 2) and k (blocks 2 and 3).                                *)
(***************************************************************************)
EXTENDS Pruner, TLC

MCStateNode == {"g", "o", "s", "n", "a", "b", "c"}
MCStorageNode == {"X", "x1", "Y", "y1"}
MCIndexNode == {"I0", "I1", "I2", "I3", "j", "k"}

MCKids ==
  [n \in MCStateNode \cup MCStorageNode \cup MCIndexNode |->
     CASE n = "g" -> <<"a">>
       [] n = "o" -> <<"a", "b">>
       [] n = "s" -> <<"a", "c">>
       [] n = "n" -> <<"c">>
       [] n = "X" -> <<"x1">>
       [] n = "Y" -> <<"y1">>
       [] n = "I1" -> <<"j">>
       [] n = "I2" -> <<"j", "k">>
       [] n = "I3" -> <<"k">>
       [] OTHER -> <<>>]

MCStorageOf ==
  [n \in MCStateNode \cup MCStorageNode \cup MCIndexNode |->
     CASE n \in {"a", "c"} -> "X"
       [] n = "b" -> "Y"
       [] OTHER -> NoStorage]

MCStateRoot == 0 :> "g" @@ 1 :> "o" @@ 2 :> "s" @@ 3 :> "n"
MCIndexRoot == 0 :> "I0" @@ 1 :> "I1" @@ 2 :> "I2" @@ 3 :> "I3"
==============================================================================
