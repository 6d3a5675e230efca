----------------------------- MODULE SftpCalls ------------------------------
(***************************************************************************)
(* What an application may rely on when it calls corosh::sftp, with the    *)
(* queue, the mutexes and the stream out of sight: a call returns what its *)
(* own response class makes of the one answer the server gave to it, or it *)
(* fails with a transport error.                                           *)
(***************************************************************************)
EXTENDS SftpReplies

CONSTANTS Calls, Replies, NoAnswer

VARIABLES
    phase,    \* of each call: idle, pending or done
    kind,     \* the response class it waits with
    answer,   \* the server's answer to it
    result    \* what it returned

vars == <<phase, kind, answer, result>>

Init ==
    /\ phase = [c \in Calls |-> "idle"]
    /\ kind \in [Calls -> Kinds]
    /\ answer = [c \in Calls |-> NoAnswer]
    /\ result = [c \in Calls |-> "success"]

Invoke(c) ==
    /\ phase[c] = "idle"
    /\ phase' = [phase EXCEPT ![c] = "pending"]
    /\ \E k \in Kinds : kind' = [kind EXCEPT ![c] = k]
    /\ UNCHANGED <<answer, result>>

(* Closing what is not open succeeds without asking the server. *)
Skip(c) ==
    /\ phase[c] = "idle"
    /\ phase' = [phase EXCEPT ![c] = "done"]
    /\ kind' = [kind EXCEPT ![c] = "status"]
    /\ UNCHANGED <<answer, result>>

(* The answer may be too late for the call, but there is only one. *)
Answer(c, b) ==
    /\ phase[c] # "idle"
    /\ answer[c] = NoAnswer
    /\ answer' = [answer EXCEPT ![c] = b]
    /\ UNCHANGED <<phase, kind, result>>

Finish(c) ==
    /\ phase[c] = "pending"
    /\ answer[c] # NoAnswer
    /\ phase' = [phase EXCEPT ![c] = "done"]
    /\ result' = [result EXCEPT ![c] = Outcome(kind[c], answer[c])]
    /\ UNCHANGED <<kind, answer>>

Abort(c) ==
    /\ phase[c] = "pending"
    /\ phase' = [phase EXCEPT ![c] = "done"]
    /\ \E ec \in TransportErrors : result' = [result EXCEPT ![c] = ec]
    /\ UNCHANGED <<kind, answer>>

Next ==
    \E c \in Calls :
        \/ Invoke(c) \/ Skip(c) \/ Finish(c) \/ Abort(c)
        \/ \E b \in Replies : Answer(c, b)

Spec == Init /\ [][Next]_vars
=============================================================================
