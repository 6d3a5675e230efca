---------------------------- MODULE MCSftpFiles -----------------------------
(* Instances of SftpFiles for TLC. *)
EXTENDS SftpFiles, TLC

(* A buffer of one unit and one of two. *)
TwoBuffers == <<1, 2>>

(* Two coroutines read the directory. *)
Interchangeable == Permutations(Readers)
=============================================================================
