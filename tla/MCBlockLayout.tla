--------------------------- MODULE MCBlockLayout ---------------------------
(***************************************************************************)
(* Small instances of BlockLayout, for an object in memory and in a disk   *)
(* block, and of DiskStore, for the disk blocks of several objects in      *)
(* their files: a directory with two files, one whose file is no multiple  *)
(* of a block, one without room for a block, and three directories with    *)
(* unequal weights for the router.                                         *)
(***************************************************************************)
EXTENDS BlockLayout, DiskStore, TLC

VARIABLE part              \* which of the two; it never changes

SmallQuotas == {<<7, 2>>, <<3, 1>>, <<2, 1, 2>>}

\* The part that is not looked at starts in one state and stays there.
LayoutInit == /\ part \in {"object", "files"}
              /\ Init /\ StoreInit
              /\ part = "object" => quota = <<7, 2>> /\ checked

LayoutNext == /\ UNCHANGED part
              /\ \/ part = "object" /\ Next /\ UNCHANGED storeVars
                 \/ part = "files" /\ StoreNext /\ UNCHANGED vars

LayoutSpec == LayoutInit /\ [][LayoutNext]_<<part, vars, storeVars>>
=============================================================================
