------------------------ MODULE MCMessageDispatcher ------------------------
(***************************************************************************)
(* Instances of MessageDispatcher for TLC: a file that fits a chunk, one   *)
(* that does not; the cfg files choose directories and missing paths.      *)
(***************************************************************************)
EXTENDS MessageDispatcher, TLC

MCFileSize == "page" :> 1 @@ "film" :> 3
=============================================================================
