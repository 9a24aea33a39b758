-------------------------- MODULE MCMsgCopyService --------------------------
(***************************************************************************)
(* Instances of MsgCopyService for TLC.                                    *)
(***************************************************************************)
EXTENDS MsgCopyService, TLC

CONSTANTS f0, f1, f2, f3, f4, p1, p2, none, file1, file2, a, b, nn

(* Plain folders: the names and parents matter to folder copies only. *)
FlatParent == [f \in Folder |-> NoFolder]
FlatLeaf == [f \in Folder |-> a]

(* Two parents: p1, with a subfolder of either name, and p2, with one of   *)
(* name a; f0 and f1 are folders elsewhere.                                *)
TreeParent == [f \in Folder |-> IF f \in {f2, f3} THEN p1
                                ELSE IF f = f4 THEN p2 ELSE NoFolder]
TreeLeaf == [f \in Folder |-> IF f \in {f1, f2, f4} THEN a ELSE b]

(* Folders and files of the flat instance are interchangeable. *)
Interchangeable == Permutations(Folder) \cup Permutations(File)
=============================================================================
