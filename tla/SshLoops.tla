------------------------------ MODULE SshLoops ------------------------------
(***************************************************************************)
(* The operations of session, channel and message: libssh does not block,  *)
(* so each is a loop that calls libssh, and when it is told SSH_AGAIN asks *)
(* ssh_get_poll_flags what to wait for, waits and calls again.             *)
(*                                                                         *)
(* Several coroutines (Tasks) use one session, each its own channel, on    *)
(* one socket and one thread.  Whoever calls libssh makes it process all   *)
(* that has arrived on the socket, for everyone.  An action is a turn of   *)
(* a loop: from one suspension to the next.                                *)
(***************************************************************************)
EXTENDS Integers, Sequences, FiniteSets

CONSTANTS
    Tasks,       \* the coroutines that use the session
    OpsOf,       \* the operations each uses
    BufLen,      \* the size of the buffers that are read and written
    MaxStarts,   \* bound on the operations each coroutine makes
    MaxUnits,    \* bound on what the peer sends to each
    NULL         \* no coroutine

(* userauth_gssapi_keyex is there with libssh 0.12 or later. *)
Auths == {"userauth_none", "userauth_password", "userauth_gssapi",
          "userauth_gssapi_keyex", "userauth_try_publickey", "userauth_publickey",
          "userauth_agent", "userauth_publickey_auto", "userauth_kbdint"}
SessionOps == {"cancel_forward", "handle_key_exchange"}
Opens == {"open_session", "open_auth_agent", "open_forward", "open_forward_unix",
          "open_x11", "open_reverse_forward"}
Requests == {"request_env", "request_exec", "request_pty", "request_pty_size",
             "request_pty_size_modes", "request_shell", "request_sftp",
             "request_subsystem", "request_x11", "request_auth_agent"}
Notices == {"request_send_signal", "request_send_break", "request_send_exit_status",
            "request_send_exit_signal", "change_pty_size", "write_eof"}
MessageReplies == {"reply_default", "auth_reply_success", "auth_reply_pk_ok",
                   "auth_reply_pk_ok_simple", "auth_interactive_request",
                   "service_reply_success", "global_request_reply_success",
                   "channel_request_open_reply_accept_channel",
                   "channel_request_reply_success"}
Transfers == {"read", "write"}
AllOps == Auths \cup SessionOps \cup Opens \cup Requests \cup Notices \cup MessageReplies
          \cup Transfers
          \cup {"connect", "listen_forward", "get_exit_state", "get_message",
                "read_some", "write_some"}

(* The loop an operation runs. *)
LoopOf(o) ==
    CASE o \in Auths -> "do_auth_"
      [] o \in SessionOps -> "do_op_"
      [] o \in Opens \cup Requests \cup Notices -> "do_open_"
      [] o \in MessageReplies -> "message_do_op_"
      [] o \in {"read_some", "write_some"} -> "do_some_io_"
      [] o \in Transfers -> "do_io_"
      [] OTHER -> o

(* What it waits for: an answer, something sent to it, room to send. *)
Needs(o) ==
    CASE o \in Notices \cup MessageReplies \cup {"write_some", "write"} -> "room"
      [] o \in {"read_some", "read", "get_message"} -> "data"
      [] OTHER -> "answer"

ASSUME LoopsAssumption ==
    /\ NULL \notin Tasks
    /\ OpsOf \in [Tasks -> SUBSET AllOps]
    /\ BufLen \in Nat \ {0}
    /\ MaxStarts \in Nat
    /\ MaxUnits \in Nat

VARIABLES
    op,         \* the operation each coroutine runs
    running,    \* whether it has not returned yet
    waits,      \* what its suspended coroutine waits for
    m,          \* how much a read or write has moved so far
    result,     \* the error code it returned
    spinning,   \* the coroutine whose loop turns without suspending
    got,        \* history: what was put into the caller's buffers
    starts,     \* how many operations it has made
    \* libssh
    box,        \* what libssh holds for each coroutine
    handed,     \* whether libssh was given its request
    unsent,     \* whose output libssh has not got rid of
    alive,      \* libssh believes the connection to be up
    \* the socket and the peer
    socket,     \* what has arrived on the socket, for each coroutine
    writable,   \* the socket takes output
    congested,  \* history: there was a time when it did not
    atPeer,     \* whose request the peer has yet to answer
    dataSent,   \* how many units the peer has sent to each
    eofSent,    \* to whom it has sent EOF
    hungUp,     \* the peer has closed the connection
    robbed      \* history: who sleeps while another has read its packet

taskVars == <<op, running, waits, m, result, got, starts>>
sshVars == <<box, handed, unsent, alive>>
peerVars == <<atPeer, dataSent, eofSent, hungUp>>
vars == <<taskVars, spinning, sshVars, socket, writable, congested, peerVars, robbed>>

Units == 1 .. MaxUnits
Answers == {"yes", "no"}

(* What came for one coroutine: an answer, data or messages, EOF. *)
Box == [answer : Answers \cup {"none"}, data : Seq(Units), eof : BOOLEAN]
Empty == [answer |-> "none", data |-> <<>>, eof |-> FALSE]
Waits == (SUBSET {"read", "write"}) \cup {{"timer"}, {"connect"}}
ErrorCodes == {"success", "ssh_error", "not_connected", "broken_pipe", "eof", "wait_failed"}

TypeOK ==
    /\ op \in [Tasks -> AllOps \cup {"none"}]
    /\ running \in [Tasks -> BOOLEAN]
    /\ waits \in [Tasks -> Waits]
    /\ m \in [Tasks -> 0 .. BufLen]
    /\ result \in [Tasks -> ErrorCodes]
    /\ spinning \in Tasks \cup {NULL}
    /\ got \in [Tasks -> Seq(Units)]
    /\ starts \in [Tasks -> 0 .. MaxStarts]
    /\ box \in [Tasks -> Box]
    /\ handed \in [Tasks -> BOOLEAN]
    /\ unsent \subseteq Tasks
    /\ alive \in BOOLEAN
    /\ socket \in [Tasks -> Box]
    /\ writable \in BOOLEAN
    /\ congested \in BOOLEAN
    /\ atPeer \subseteq Tasks
    /\ dataSent \in [Tasks -> 0 .. MaxUnits]
    /\ eofSent \subseteq Tasks
    /\ hungUp \in BOOLEAN
    /\ robbed \subseteq Tasks

Init ==
    /\ op = [t \in Tasks |-> "none"]
    /\ running = [t \in Tasks |-> FALSE]
    /\ waits = [t \in Tasks |-> {}]
    /\ m = [t \in Tasks |-> 0]
    /\ result = [t \in Tasks |-> "success"]
    /\ spinning = NULL
    /\ got = [t \in Tasks |-> <<>>]
    /\ starts = [t \in Tasks |-> 0]
    /\ box = [t \in Tasks |-> Empty]
    /\ handed = [t \in Tasks |-> FALSE]
    /\ unsent = {}
    /\ alive = TRUE
    /\ socket = [t \in Tasks |-> Empty]
    /\ writable = TRUE
    /\ congested = FALSE
    /\ atPeer = {}
    /\ dataSent = [t \in Tasks |-> 0]
    /\ eofSent = {}
    /\ hungUp = FALSE
    /\ robbed = {}

-----------------------------------------------------------------------------
(* libssh. *)

(* What libssh holds for t once it has processed the socket. *)
Processed(t) ==
    [answer |-> IF socket[t].answer = "none" THEN box[t].answer ELSE socket[t].answer,
     data   |-> box[t].data \o socket[t].data,
     eof    |-> box[t].eof \/ socket[t].eof]

StillAlive == alive /\ ~hungUp

(* What it returns for what is not there yet: on a lost connection an      *)
(* error, unless the operation's own state has not noticed.                *)
Unsettled == IF StillAlive THEN {"SSH_AGAIN"} ELSE {"SSH_ERROR", "SSH_AGAIN"}

(* Its output: with t's request, if t's operation has one to hand over. *)
Output(t) ==
    IF Needs(op[t]) # "data" /\ ~handed[t] /\ StillAlive THEN unsent \cup {t} ELSE unsent
Flushed(t) == IF writable THEN {} ELSE Output(t)

(* The requests in it that the peer answers. *)
Asked(t) == {u \in Output(t) : Needs(op[u]) = "answer" /\ (u = t \/ handed[u])}

(* SSH_READ_PENDING, SSH_WRITE_PENDING, both, or none without a connection. *)
ssh_get_poll_flags(left) ==
    IF ~StillAlive THEN {{}}
    ELSE IF left = {} THEN {{"read"}} ELSE {{"read", "write"}, {"write"}}

Least(a, b) == IF a < b THEN a ELSE b

(***************************************************************************)
(* The call f() of each operation: what it returns and how many units it   *)
(* moves.  "zero" and "count" are results of reads and writes.             *)
(***************************************************************************)
Reply(rc, n) == [rc |-> rc, n |-> n]

AnsweredAgain(t) ==  \* mutant: a refusal is taken for SSH_AGAIN
    {Reply(IF Processed(t).answer = "yes" THEN "SSH_OK" ELSE "SSH_AGAIN", 0)}
Answered(t) ==
    LET a == Processed(t).answer
    IN  IF a = "none" THEN {Reply(rc, 0) : rc \in Unsettled}
        ELSE {Reply(IF a = "yes" \/ op[t] \in Auths THEN "SSH_OK" ELSE "SSH_ERROR", 0)}

Notified(t) ==
    IF StillAlive /\ writable THEN {Reply("SSH_OK", 0)}
    ELSE {Reply(rc, 0) : rc \in Unsettled}

message_get(t) ==
    IF Processed(t).data = <<>> THEN {Reply("SSH_AGAIN", 0)} ELSE {Reply("SSH_OK", 1)}

read_some(t) ==
    LET data == Processed(t).data
    IN  IF data # <<>>
        THEN {Reply("count", n) : n \in 1 .. Least(Len(data), BufLen)}
        ELSE IF Processed(t).eof THEN {Reply("SSH_EOF", 0)}
        ELSE {Reply(rc, 0) : rc \in Unsettled}

(* Nothing moved: the lambda returns m. *)
Total(t) == Reply(IF m[t] = 0 THEN "zero" ELSE "count", 0)

(* buffer.size() - m: what read and write ask libssh for. *)
RemainingAll(t) == BufLen  \* mutant: the buffer's whole size every time
Remaining(t) == BufLen - m[t]

read(t) ==
    LET data == Processed(t).data
    IN  IF m[t] = BufLen THEN {Total(t)}
        ELSE IF data # <<>>
        THEN {Reply("SSH_AGAIN", n) : n \in 1 .. Least(Len(data), Remaining(t))}
        ELSE IF Processed(t).eof THEN {Total(t)}
        ELSE {Reply(rc, 0) : rc \in Unsettled}

write_some(t) ==
    IF ~StillAlive THEN {Reply(rc, 0) : rc \in Unsettled}
    ELSE {Reply("count", n) : n \in 1 .. BufLen}
         \cup (IF writable THEN {} ELSE {Reply("zero", 0)})

write(t) ==
    IF m[t] = BufLen THEN {Total(t)}
    ELSE IF ~StillAlive THEN {Reply(rc, 0) : rc \in Unsettled}
    ELSE {Reply("SSH_AGAIN", n) : n \in 1 .. Remaining(t)}
         \cup (IF writable THEN {} ELSE {Total(t)})

Call(t) ==
    CASE op[t] = "read_some" -> read_some(t)
      [] op[t] = "read" -> read(t)
      [] op[t] = "write_some" -> write_some(t)
      [] op[t] = "write" -> write(t)
      [] op[t] = "get_message" -> message_get(t)
      [] op[t] \in Notices \cup MessageReplies -> Notified(t)
      [] OTHER -> Answered(t)

-----------------------------------------------------------------------------
(* The loops. *)

(* The error code of an SSH_ERROR is what libssh has recorded, which may   *)
(* be none: only do_op_ of session looks at that.                          *)
AnyCode(loop, code) == IF code = 0 THEN "success" ELSE "ssh_error"  \* mutant: no check
ErrorCode(loop, code) == IF code = 0 /\ loop # "do_op_" THEN "success" ELSE "ssh_error"

(* The error code with which the loop ends on rc; none if it goes on. *)
Verdict(loop, rc) ==
    CASE rc = "SSH_OK" -> {"success"}
      [] rc = "SSH_ERROR" -> {ErrorCode(loop, code) : code \in {0, 2}}
      [] rc = "zero" -> {"eof"}
      [] rc = "count" /\ loop = "do_some_io_" -> {"success"}
      [] OTHER -> {}

(* What the loop waits for when these flags are pending: do_some_io_ takes *)
(* a timer of 1 ms for a read.                                             *)
AwaitSocket(loop, flags) == flags  \* mutant: the line that is commented out
AwaitUnset(loop, flags) ==  \* mutant: the timer is never set
    IF loop = "do_some_io_" /\ flags = {"read"} THEN {"unset timer"} ELSE flags
Await(loop, flags) ==
    IF loop = "do_some_io_" /\ flags = {"read"} THEN {"timer"} ELSE flags

(* Without any flag: the error to return, or none and the loop turns.      *)
(* get_message returns if the session is no longer open; that libssh has   *)
(* no flag only then (it polls for reading as long as it is connected) is  *)
(* an assumption about libssh, without which this loop would turn as well. *)
UncheckedQuiet(loop) ==  \* mutant: no else branch
    IF loop = "get_message" THEN {"broken_pipe"} ELSE {}
Quiet(loop) ==
    CASE loop = "get_message" -> {"broken_pipe"}
      [] loop \in {"get_exit_state", "do_some_io_", "do_io_"} -> {}
      [] OTHER -> {"not_connected"}

Return(t, ec) ==
    /\ running' = [running EXCEPT ![t] = FALSE]
    /\ result' = [result EXCEPT ![t] = ec]
    /\ spinning' = NULL
    /\ UNCHANGED waits

Suspend(t, flags) ==
    /\ waits' = [waits EXCEPT ![t] = Await(LoopOf(op[t]), flags)]
    /\ spinning' = IF flags = {} THEN t ELSE NULL
    /\ UNCHANGED <<running, result>>

(* buffer += n: what is read goes after what this read has put there. *)
PlaceAtStart(t, units) == SubSeq(got[t], 1, Len(got[t]) - m[t]) \o units  \* mutant
Place(t, units) == got[t] \o units

Start(t, o) ==
    /\ spinning = NULL
    /\ ~running[t]
    /\ result[t] # "wait_failed"
    /\ starts[t] < MaxStarts
    /\ op' = [op EXCEPT ![t] = o]
    /\ running' = [running EXCEPT ![t] = TRUE]
    /\ waits' = [waits EXCEPT ![t] = IF o = "connect" THEN {"connect"} ELSE {}]
    /\ m' = [m EXCEPT ![t] = 0]
    /\ starts' = [starts EXCEPT ![t] = @ + 1]
    /\ handed' = [handed EXCEPT ![t] = FALSE]
    /\ box' = [box EXCEPT ![t].answer = "none"]
    /\ UNCHANGED <<result, got, spinning, unsent, alive, socket, writable, congested,
                   peerVars, robbed>>

(* Whose packet this turn of t takes off the socket they wait for. *)
Robbed(t) ==
    {u \in Tasks \ {t} : "read" \in waits[u] /\ socket[u] # Empty}

(***************************************************************************)
(* One turn: libssh is called, and the coroutine returns, suspends, or     *)
(* keeps the thread.                                                       *)
(***************************************************************************)
Turn(t) ==
    /\ spinning \in {NULL, t}
    /\ running[t]
    /\ waits[t] = {}
    /\ \E r \in Call(t) :
        LET arrived == Processed(t).data
            moved == IF Needs(op[t]) = "data" THEN r.n ELSE 0
        IN  /\ got' = [got EXCEPT ![t] = Place(t, SubSeq(arrived, 1, moved))]
            /\ box' = [u \in Tasks |->
                          IF u # t THEN Processed(u)
                          ELSE [Processed(t) EXCEPT
                                   !.data = SubSeq(arrived, moved + 1, Len(arrived))]]
            /\ m' = [m EXCEPT ![t] = IF op[t] \in Transfers THEN @ + r.n ELSE @]
            /\ \/ \E ec \in Verdict(LoopOf(op[t]), r.rc) : Return(t, ec)
               \/ /\ Verdict(LoopOf(op[t]), r.rc) = {}
                  /\ \E flags \in ssh_get_poll_flags(Flushed(t)) :
                        \/ flags = {} /\ \E ec \in Quiet(LoopOf(op[t])) : Return(t, ec)
                        \/ flags = {} /\ Quiet(LoopOf(op[t])) = {} /\ Suspend(t, flags)
                        \/ flags # {} /\ Suspend(t, flags)
    /\ handed' = [handed EXCEPT ![t] = Needs(op[t]) # "data"]
    /\ unsent' = Flushed(t)
    /\ atPeer' = IF writable THEN atPeer \cup Asked(t) ELSE atPeer
    /\ socket' = [u \in Tasks |-> Empty]
    /\ alive' = StillAlive
    /\ robbed' = (robbed \cup Robbed(t)) \ {t}
    /\ UNCHANGED <<op, starts, writable, congested, dataSent, eofSent, hungUp>>

(* One of the things a coroutine waits for happens; it resumes after all.  *)
Happens(w) ==
    CASE w = "read" -> (\E t \in Tasks : socket[t] # Empty) \/ hungUp
      [] w = "write" -> writable \/ hungUp
      [] w \in {"timer", "connect"} -> TRUE
      [] OTHER -> FALSE

Ready(t, w) ==
    /\ spinning = NULL
    /\ w \in waits[t]
    /\ Happens(w)
    /\ waits' = [waits EXCEPT ![t] = @ \ {w}]
    /\ UNCHANGED <<op, running, m, result, got, starts, spinning, sshVars, socket,
                   writable, congested, peerVars, robbed>>

(* It is cancelled, or the socket reports an error: if (ec) co_return ec;  *)
WaitFails(t) ==
    /\ spinning = NULL
    /\ waits[t] # {}
    /\ waits' = [waits EXCEPT ![t] = {}]
    /\ running' = [running EXCEPT ![t] = FALSE]
    /\ result' = [result EXCEPT ![t] = "wait_failed"]
    /\ robbed' = robbed \ {t}
    /\ UNCHANGED <<op, m, got, starts, spinning, sshVars, socket, writable, congested,
                   peerVars>>

-----------------------------------------------------------------------------
(* The peer and the network.  The peer sends to the channels that are read. *)

Send(t, packet) ==
    /\ ~hungUp
    /\ socket' = [socket EXCEPT ![t] = packet]
    /\ UNCHANGED <<taskVars, spinning, sshVars, writable, congested, hungUp, robbed>>

PeerAnswers(t, answer) ==
    /\ t \in atPeer
    /\ Send(t, [socket[t] EXCEPT !.answer = answer])
    /\ atPeer' = atPeer \ {t}
    /\ UNCHANGED <<dataSent, eofSent>>

PeerSends(t) ==
    /\ Needs(op[t]) = "data"
    /\ t \notin eofSent
    /\ dataSent[t] < MaxUnits
    /\ Send(t, [socket[t] EXCEPT !.data = Append(@, dataSent[t] + 1)])
    /\ dataSent' = [dataSent EXCEPT ![t] = @ + 1]
    /\ UNCHANGED <<atPeer, eofSent>>

PeerEof(t) ==
    /\ op[t] \in {"read_some", "read"}
    /\ t \notin eofSent
    /\ Send(t, [socket[t] EXCEPT !.eof = TRUE])
    /\ eofSent' = eofSent \cup {t}
    /\ UNCHANGED <<atPeer, dataSent>>

PeerHangsUp ==
    /\ ~hungUp
    /\ hungUp' = TRUE
    /\ UNCHANGED <<taskVars, spinning, sshVars, socket, writable, congested, atPeer,
                   dataSent, eofSent, robbed>>

(* The socket's send buffer fills up (once, to bound the runs), and is     *)
(* emptied.                                                                *)
Block ==
    /\ ~congested /\ ~hungUp
    /\ writable' = FALSE
    /\ congested' = TRUE
    /\ UNCHANGED <<taskVars, spinning, sshVars, socket, peerVars, robbed>>

Unblock ==
    /\ ~writable
    /\ writable' = TRUE
    /\ UNCHANGED <<taskVars, spinning, sshVars, socket, congested, peerVars, robbed>>

-----------------------------------------------------------------------------
Resume(t) == Turn(t) \/ \E w \in waits[t] : Ready(t, w)

Next ==
    \/ \E t \in Tasks :
        \/ \E o \in OpsOf[t] : Start(t, o)
        \/ Resume(t)
        \/ WaitFails(t)
        \/ \E answer \in Answers : PeerAnswers(t, answer)
        \/ PeerSends(t)
        \/ PeerEof(t)
    \/ PeerHangsUp \/ Block \/ Unblock

Spec == Init /\ [][Next]_vars

(* The executor resumes what is ready, timers fire, the reactor reports    *)
(* what is so for good, and a full send buffer is emptied.  The peer and   *)
(* the application owe nothing.                                            *)
Fairness == WF_vars(Unblock) /\ \A t \in Tasks : WF_vars(Resume(t))

FairSpec == Spec /\ Fairness

-----------------------------------------------------------------------------
(* Properties. *)

(***************************************************************************)
(* What the callers' buffers hold, libssh holds and the socket holds for a *)
(* channel is what the peer has sent to it, in order, each unit once:      *)
(* whichever coroutine makes libssh read it, however reads split it, and   *)
(* also when a read is cut short (the lambdas of read_some and read).      *)
(***************************************************************************)
BytesInOrder ==
    \A t \in Tasks :
        got[t] \o box[t].data \o socket[t].data = [k \in 1 .. dataSent[t] |-> k]

(***************************************************************************)
(* A loop turns without suspending, and keeps the thread from every other  *)
(* coroutine, only in get_exit_state, do_some_io_ and do_io_, which have   *)
(* no else branch for the poll flags, and only once the connection is      *)
(* gone.                                                                   *)
(***************************************************************************)
OnlyIoSpins ==
    spinning # NULL =>
        /\ ~alive
        /\ LoopOf(op[spinning]) \in {"get_exit_state", "do_some_io_", "do_io_"}

(***************************************************************************)
(* "do_some_io_ waits on a short timer": no coroutine takes from the       *)
(* socket what would have woken a reader, as long as output leaves (with   *)
(* output left over the reader waits on the socket after all).             *)
(***************************************************************************)
ReaderNotRobbed ==
    \A t \in robbed : LoopOf(op[t]) = "do_some_io_" => congested

(* A key exchange or a cancel_forward that returns success was granted by  *)
(* the peer, though libssh may report an error without an error code.      *)
SuccessEarned ==
    \A t \in Tasks :
        /\ op[t] \in SessionOps
        /\ ~running[t]
        /\ result[t] = "success"
        => box[t].answer = "yes"

(* What the operation of t needs has come. *)
Due(t) ==
    /\ running[t]
    /\ \/ Needs(op[t]) = "answer" /\ Processed(t).answer # "none"
       \/ op[t] \in {"read_some", "get_message"} /\ Processed(t).data # <<>>

(***************************************************************************)
(* An operation whose answer, data or message has arrived returns: the     *)
(* retry loops do not sleep through it, unless another coroutine's call    *)
(* into libssh took it from the socket the loop was waiting on.            *)
(***************************************************************************)
DueReturns ==
    \A t \in Tasks : Due(t) ~> (~running[t] \/ t \in robbed \/ spinning # NULL)

(* When the peer hangs up every operation ends, or a loop keeps the thread *)
(* (OnlyIoSpins says which).                                               *)
EndsAfterHangUp ==
    \A t \in Tasks : hungUp /\ running[t] ~> (~running[t] \/ spinning # NULL)

(***************************************************************************)
(* "channel exposes the full read_some / read / write_some / write family" *)
(* and is a capy::ReadSource and WriteSink: a read or write whose whole    *)
(* buffer is moved returns, unless a loop keeps the thread.                *)
(***************************************************************************)
WholeBufferReturns ==
    \A t \in Tasks :
        op[t] \in Transfers /\ running[t] /\ m[t] = BufLen
            ~> (~running[t] \/ spinning # NULL)
=============================================================================
