---------------------------- MODULE SftpReplies ----------------------------
(***************************************************************************)
(* What the reply packets of an SFTP server look like to corosh's client,  *)
(* and what each class of detail::response (src/sftp.cpp) makes of one.    *)
(*                                                                         *)
(* A reply is abstracted to what the response classes tell apart: its      *)
(* packet type, the status code it carries, and whether the bytes after    *)
(* the request id hold every field the class reads.                        *)
(***************************************************************************)

(* The packet types the response classes compare with. *)
Types == {"STATUS", "HANDLE", "NAME", "DATA", "ATTRS", "EXTENDED_REPLY"}

(* Status codes: success, end of file, and one for every other code. *)
Codes == {"SSH_FX_OK", "SSH_FX_EOF", "SSH_FX_FAILURE"}

(***************************************************************************)
(* The shape of a payload: "whole", every field is there; "short", it is   *)
(* cut after the part every reader needs (the code of a STATUS, the first  *)
(* filename of a NAME) and before its end; "bare", a STATUS that ends with *)
(* its code; "headless", it is cut before what every reader needs;         *)
(* "empty", a NAME that announces no entries.                              *)
(***************************************************************************)
Shapes == {"whole", "short", "bare", "headless", "empty"}

(* Only a STATUS has a code, and only a NAME a count. *)
Body == {b \in [type : Types, code : Codes, shape : Shapes] :
            /\ b.type # "STATUS" => b.code = "SSH_FX_OK"
            /\ b.shape = "bare" => b.type = "STATUS"
            /\ b.shape = "empty" => b.type = "NAME"}

(* The classes derived from detail::response. *)
Kinds == {"status", "handle", "dir_entry", "data", "attrs", "name"}

(* Error codes that come off the stream or the mutex, not out of a reply. *)
TransportErrors == {"connection_lost", "canceled", "broken_pipe"}

(* Values of a std::error_code; "success" is the default-constructed one. *)
ErrorCodes == {"success", "SSH_FX_EOF", "SSH_FX_FAILURE", "SSH_FX_BAD_MESSAGE",
               "eof"} \cup TransportErrors

(* ec.assign(code, sftp_category()) when the code is not SSH_FX_OK. *)
CodeError(code) == IF code = "SSH_FX_OK" THEN "success" ELSE code

(* take_*: ec, unless the type is wrong or the bytes run out. *)
Parsed(good, ec) == IF good THEN ec ELSE "SSH_FX_BAD_MESSAGE"

(***************************************************************************)
(* The ec that X::complete({}, type, payload) stores, for each class X.    *)
(***************************************************************************)

(* Only a STATUS will do; if anything follows its code, that must be the   *)
(* message and the language tag.                                           *)
status_response(b) ==
    Parsed(b.type = "STATUS" /\ b.shape \in {"whole", "bare"}, CodeError(b.code))

(* The other classes read no more than the code of a STATUS. *)
OnStatus(b) == Parsed(b.shape # "headless", CodeError(b.code))

handle_response(b) ==
    IF b.type = "STATUS" THEN OnStatus(b)
    ELSE Parsed(b.type = "HANDLE" /\ b.shape = "whole", "success")

(* Every entry is parsed, and there must be one. *)
dir_entry_response(b) ==
    IF b.type = "STATUS" THEN OnStatus(b)
    ELSE Parsed(b.type = "NAME" /\ b.shape = "whole", "success")

(* SSH_FX_EOF becomes the stream's own error eof. *)
data_response(b) ==
    CASE b.type # "STATUS" -> Parsed(b.type = "DATA" /\ b.shape = "whole", "success")
      [] b.type = "STATUS" /\ b.code = "SSH_FX_EOF" -> Parsed(b.shape # "headless", "eof")
      [] OTHER -> OnStatus(b)

attrs_response(b) ==
    IF b.type = "STATUS" THEN OnStatus(b)
    ELSE Parsed(b.type = "ATTRS" /\ b.shape = "whole", "success")

(* Of a NAME only the first filename is read: what follows may be cut. *)
name_response(b) ==
    IF b.type = "STATUS" THEN OnStatus(b)
    ELSE Parsed(\/ b.type = "NAME" /\ b.shape \in {"whole", "short"}
                \/ b.type = "EXTENDED_REPLY" /\ b.shape = "whole", "success")

(* The virtual call response::complete, without a transport error. *)
Outcome(kind, b) ==
    CASE kind = "status"    -> status_response(b)
      [] kind = "handle"    -> handle_response(b)
      [] kind = "dir_entry" -> dir_entry_response(b)
      [] kind = "data"      -> data_response(b)
      [] kind = "attrs"     -> attrs_response(b)
      [] kind = "name"      -> name_response(b)
=============================================================================
