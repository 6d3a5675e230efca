--------------------------- MODULE MCSftpClient ----------------------------
(* Instances of SftpClient for TLC. *)
EXTENDS SftpClient, TLC

Packet(type, code, shape) == [type |-> type, code |-> code, shape |-> shape]

(* What open and close are answered with. *)
HandleReplies == {Packet("HANDLE", "SSH_FX_OK", "whole"), Packet("STATUS", "SSH_FX_OK", "whole")}

(* A status without a message, and a name cut after what readlink reads,   *)
(* which is a success for readlink and a bad message for unlink.           *)
MixedReplies == {Packet("STATUS", "SSH_FX_FAILURE", "bare"), Packet("NAME", "SSH_FX_OK", "short")}

(* One success and one failure of the operations that wait with a status. *)
StatusReplies == {Packet("STATUS", "SSH_FX_OK", "whole"), Packet("STATUS", "SSH_FX_FAILURE", "whole")}

Interchangeable == Permutations(Calls) \cup Permutations(Frames)
=============================================================================
