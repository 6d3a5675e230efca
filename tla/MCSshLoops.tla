----------------------------- MODULE MCSshLoops -----------------------------
(* Instances of SshLoops for TLC. *)
EXTENDS SshLoops, TLC

CONSTANTS t1, t2

(* One operation for each loop and each thing to wait for, beside one that *)
(* waits with a timer and one that waits on the socket.                    *)
EachBesideTwo ==
    t1 :> {"connect", "userauth_none", "handle_key_exchange", "listen_forward",
           "get_message", "open_session", "write_eof", "service_reply_success",
           "get_exit_state", "read_some", "write_some", "read", "write"}
    @@ t2 :> {"read_some", "handle_key_exchange"}

(* One coroutine, which reads a whole buffer. *)
OneReads == t1 :> {"read"}
=============================================================================
