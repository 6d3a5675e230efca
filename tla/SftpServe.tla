----------------------------- MODULE SftpServe ------------------------------
(***************************************************************************)
(* corosh::sftp::serve: after the handshake several workers share one      *)
(* stream.  A worker takes a packet off the stream under read_mutex,       *)
(* leaving what it read too much in the shared buffer, calls the backend   *)
(* without a lock, and writes the reply under write_mutex.                 *)
(*                                                                         *)
(* A packet is two units on the stream, so that reads and writes can end   *)
(* in the middle of one.  The k-th request the client sends has id k, and  *)
(* the packet it begins with, INIT if all is well, is written with id 0.   *)
(***************************************************************************)
EXTENDS Integers, Sequences, FiniteSets, SftpReplies

CONSTANTS
    worker_count,    \* the parameter of serve
    Requests,        \* the requests the client chooses from
    MaxRequests,     \* bound on how many it sends
    FailureCancels,  \* whether a worker's error cancels the others (when_any): what may be
    MayHangUp        \* whether the client may hang up

StatusOpcodes == {"CLOSE", "WRITE", "SETSTAT", "FSETSTAT", "REMOVE", "MKDIR", "RMDIR",
                  "RENAME", "SYMLINK", "hardlink"}
Opcodes == StatusOpcodes \cup
           {"OPEN", "OPENDIR", "READ", "LSTAT", "FSTAT", "STAT", "READDIR", "REALPATH",
            "READLINK", "expand-path", "other extension", "unknown"}

(***************************************************************************)
(* Of a request: its opcode (the extensions have one each); whether the    *)
(* fields parse ("whole"), do not ("cut"), or not even the request id does *)
(* ("runt"); and whether a READ or a WRITE moves more than 1 GB.           *)
(***************************************************************************)
Forms == {"whole", "cut", "runt"}
Request == [opcode : Opcodes, form : Forms, over1GB : BOOLEAN]

ASSUME ServeAssumption ==
    /\ worker_count \in Nat
    /\ Requests \subseteq Request
    /\ MaxRequests \in Nat
    /\ FailureCancels \subseteq BOOLEAN /\ FailureCancels # {}
    /\ MayHangUp \in BOOLEAN

VARIABLES
    handshake,    \* how far init_server is
    init_buffer,  \* its own buffer
    greeting,     \* the type of the client's first packet
    asked,        \* history: the requests the client has sent
    inbound,      \* units on the stream towards the server
    outbound,     \* history: units of replies the server has written
    buffer,       \* serve's buffer, shared by the workers
    read_mutex, write_mutex,   \* owner and waiters, in order
    pc,           \* where each worker is suspended
    my_buffer,    \* each worker's own units
    request_id,   \* the id of the packet it took
    response,     \* the reply it has built
    taken,        \* history: the pairs of units workers took as packets
    stop,         \* the workers' stop token
    hungUp        \* the client has hung up

initVars == <<handshake, init_buffer, greeting>>
vars == <<initVars, asked, inbound, outbound, buffer, read_mutex, write_mutex, pc, my_buffer,
          request_id, response, taken, stop, hungUp>>
workerVars == <<my_buffer, request_id, response>>
clientVars == <<initVars, asked, hungUp>>

(* for (auto i = 0u; i <= worker_count; i++) workers.push_back(...) *)
Workers == 0 .. worker_count

Ids == 1 .. MaxRequests
Units == (Ids \cup {0}) \X {1, 2}
PCs == {"lock_read", "reading", "handling", "lock_write", "writing", "ended"}

(* The reply: framed unless its packet header is missing. *)
Response == [request_id : Ids, body : Body, framed : BOOLEAN]
NoResponse == [request_id |-> 0]

TypeOK ==
    /\ handshake \in {"reading", "writing", "done", "failed"}
    /\ init_buffer \in Seq(Units)
    /\ greeting \in {"INIT", "other"}
    /\ asked \in Seq(Requests) /\ Len(asked) <= MaxRequests
    /\ inbound \in Seq(Units)
    /\ outbound \in Seq(Response \X {1, 2})
    /\ buffer \in Seq(Units)
    /\ read_mutex \in Seq(Workers)
    /\ write_mutex \in Seq(Workers)
    /\ pc \in [Workers -> PCs]
    /\ my_buffer \in [Workers -> Seq(Units)]
    /\ request_id \in [Workers -> Ids \cup {0}]
    /\ response \in [Workers -> Response \cup {NoResponse}]
    /\ taken \in Seq(Units \X Units)
    /\ stop \in BOOLEAN
    /\ hungUp \in BOOLEAN

Greeting == <<<<0, 1>>, <<0, 2>>>>

(* The client has sent its first packet, or part of it and hung up.  Once  *)
(* init_server has returned, every worker runs to its first lock().        *)
Init ==
    /\ handshake = "reading" /\ init_buffer = <<>>
    /\ greeting \in {"INIT", "other"}
    /\ asked = <<>> /\ outbound = <<>> /\ buffer = <<>>
    /\ \/ inbound = Greeting /\ hungUp = FALSE
       \/ MayHangUp /\ hungUp = TRUE /\ inbound \in {<<>>, SubSeq(Greeting, 1, 1)}
    /\ read_mutex = [k \in 1 .. worker_count + 1 |-> k - 1]
    /\ write_mutex = <<>>
    /\ pc = [w \in Workers |-> "lock_read"]
    /\ my_buffer = [w \in Workers |-> <<>>]
    /\ request_id = [w \in Workers |-> 0]
    /\ response = [w \in Workers |-> NoResponse]
    /\ taken = <<>>
    /\ stop = FALSE

-----------------------------------------------------------------------------
(* The client. *)

(* init: the client makes no request before it has got the VERSION packet. *)
AskEarly == TRUE  \* mutant: it does not wait for it
MayAsk == handshake = "done"

Ask(r) ==
    /\ ~hungUp
    /\ MayAsk
    /\ Len(asked) < MaxRequests
    /\ asked' = Append(asked, r)
    /\ inbound' = inbound \o <<<<Len(asked'), 1>>, <<Len(asked'), 2>>>>
    /\ UNCHANGED <<initVars, outbound, buffer, read_mutex, write_mutex, pc, workerVars,
                   taken, stop, hungUp>>

HangUp ==
    /\ MayHangUp
    /\ ~hungUp
    /\ hungUp' = TRUE
    /\ UNCHANGED <<initVars, asked, inbound, outbound, buffer, read_mutex, write_mutex, pc,
                   workerVars, taken, stop>>

-----------------------------------------------------------------------------
(* init_server. *)

InitStep ==
    UNCHANGED <<greeting, asked, outbound, buffer, read_mutex, write_mutex, pc, workerVars,
                taken, stop, hungUp>>

InitReads(n) ==
    /\ handshake = "reading"
    /\ Len(init_buffer) < 2
    /\ init_buffer' = init_buffer \o SubSeq(inbound, 1, n)
    /\ inbound' = SubSeq(inbound, n + 1, Len(inbound))
    /\ UNCHANGED handshake
    /\ InitStep

(* The packet has to be an INIT; what is left in the buffer goes with it. *)
InitTakes ==
    /\ handshake = "reading"
    /\ Len(init_buffer) >= 2
    /\ handshake' = IF greeting = "INIT" THEN "writing" ELSE "failed"
    /\ init_buffer' = <<>>
    /\ UNCHANGED inbound
    /\ InitStep

(* The VERSION packet is written, and the workers begin. *)
InitWrites ==
    /\ handshake = "writing"
    /\ handshake' = "done"
    /\ UNCHANGED <<init_buffer, inbound>>
    /\ InitStep

InitFails ==
    /\ hungUp
    /\ \/ handshake = "reading" /\ Len(init_buffer) < 2 /\ inbound = <<>>
       \/ handshake = "writing"
    /\ handshake' = "failed"
    /\ UNCHANGED <<init_buffer, inbound>>
    /\ InitStep

init_server ==
    \/ \E n \in 1 .. Len(inbound) : InitReads(n)
    \/ InitTakes \/ InitWrites \/ InitFails

-----------------------------------------------------------------------------
(* Taking a packet. *)

Queued(mutex, w) == \E k \in 1 .. Len(mutex) : mutex[k] = w  \* mutant of Owns: no waiting
Owns(mutex, w) == mutex # <<>> /\ Head(mutex) = w

(* The owner lets go, or a waiter gives up: it is in the queue once. *)
Leave(mutex, w) ==
    IF Queued(mutex, w)
    THEN LET k == CHOOSE k \in 1 .. Len(mutex) : mutex[k] = w
         IN  SubSeq(mutex, 1, k - 1) \o SubSeq(mutex, k + 1, Len(mutex))
    ELSE mutex

(* co_return with an error: the scoped locks let go, when_any is told. *)
End(w) ==
    /\ pc' = [pc EXCEPT ![w] = "ended"]
    /\ read_mutex' = Leave(read_mutex, w)
    /\ write_mutex' = Leave(write_mutex, w)
    /\ \E cancels \in FailureCancels : stop' = (stop \/ cancels)
    /\ UNCHANGED <<initVars, asked, inbound, outbound, buffer, workerVars, taken,
                   hungUp>>

(* read_mutex is ours: go on with what the last reader left. *)
StartEmpty(w) == <<>>  \* mutant: what is in the shared buffer is forgotten
StartWith(w) == buffer

StartRead(w) ==
    /\ pc[w] = "lock_read"
    /\ Owns(read_mutex, w)
    /\ pc' = [pc EXCEPT ![w] = "reading"]
    /\ my_buffer' = [my_buffer EXCEPT ![w] = StartWith(w)]
    /\ UNCHANGED <<clientVars, inbound, outbound, buffer, read_mutex, write_mutex,
                   request_id, response, taken, stop>>

(* read_until asks for more while it has no packet; it gets what there is. *)
ReadSome(w, n) ==
    /\ pc[w] = "reading"
    /\ Len(my_buffer[w]) < 2
    /\ my_buffer' = [my_buffer EXCEPT ![w] = @ \o SubSeq(inbound, 1, n)]
    /\ inbound' = SubSeq(inbound, n + 1, Len(inbound))
    /\ UNCHANGED <<clientVars, outbound, buffer, read_mutex, write_mutex, pc,
                   request_id, response, taken, stop>>

ReadRetries(w) ==  \* mutant: the error is not looked at, read_until is called again
    /\ pc[w] = "reading"
    /\ Len(my_buffer[w]) < 2
    /\ inbound = <<>>
    /\ hungUp
    /\ UNCHANGED vars
ReadFails(w) ==
    /\ pc[w] = "reading"
    /\ Len(my_buffer[w]) < 2
    /\ inbound = <<>>
    /\ hungUp
    /\ End(w)

RestAll(b) == b  \* mutant: the packet stays in the shared buffer
Rest(b) == SubSeq(b, 3, Len(b))

(* read_until returns a packet; the rest goes back, the lock is released. *)
TakePacket(w) ==
    /\ pc[w] = "reading"
    /\ Len(my_buffer[w]) >= 2
    /\ buffer' = Rest(my_buffer[w])
    /\ my_buffer' = [my_buffer EXCEPT ![w] = SubSeq(@, 1, 2)]
    /\ request_id' = [request_id EXCEPT ![w] = my_buffer[w][1][1]]
    /\ taken' = Append(taken, <<my_buffer[w][1], my_buffer[w][2]>>)
    /\ pc' = [pc EXCEPT ![w] = "handling"]
    /\ read_mutex' = Leave(read_mutex, w)
    /\ UNCHANGED <<clientVars, inbound, outbound, write_mutex, response, stop>>

-----------------------------------------------------------------------------
(* The switch: the backend is called, returns, and the reply is built. *)

(* Whatever error the backend reports, as a STATUS packet. *)
build_statusRaw(ec) ==  \* mutant: the error's value is sent as it is
    [type |-> "STATUS", code |-> ec, shape |-> "whole"]
build_status(ec) ==
    [type |-> "STATUS",
     code |-> CASE ec = "success" -> "SSH_FX_OK"
                [] ec = "eof" -> "SSH_FX_EOF"
                [] OTHER -> "SSH_FX_FAILURE",
     shape |-> "whole"]

(* The packet that a case builds when the backend succeeds. *)
Success(type) == [type |-> type, code |-> "SSH_FX_OK", shape |-> "whole"]

BackendErrors == {"eof", "failure"}

Respond(w, b, framed) ==
    /\ response' = [response EXCEPT ![w] = [request_id |-> request_id[w], body |-> b,
                                            framed |-> framed]]
    /\ pc' = [pc EXCEPT ![w] = "lock_write"]
    /\ write_mutex' = Append(write_mutex, w)
    /\ UNCHANGED <<clientVars, inbound, outbound, buffer, read_mutex, my_buffer,
                   request_id, taken, stop>>

Handling(w, opcode) ==
    /\ pc[w] = "handling"
    /\ asked[request_id[w]].opcode = opcode
    /\ asked[request_id[w]].form # "runt"

(* The fields of request r do not parse, or it moves too much. *)
Refused(r) ==
    \/ r.form = "cut"
    \/ r.opcode \in {"READ", "WRITE"} /\ r.over1GB

(* The shape of almost every case. *)
Case(w, opcode, bodies) ==
    /\ Handling(w, opcode)
    /\ \/ /\ Refused(asked[request_id[w]])
          /\ Respond(w, build_status("bad_message"), TRUE)
       \/ /\ ~Refused(asked[request_id[w]])
          /\ \E b \in bodies \cup {build_status(ec) : ec \in BackendErrors} :
                Respond(w, b, TRUE)

SSH_FXP_OPEN(w)     == Case(w, "OPEN", {Success("HANDLE")})
SSH_FXP_CLOSE(w)    == Case(w, "CLOSE", {Success("STATUS")})
SSH_FXP_WRITE(w)    == Case(w, "WRITE", {Success("STATUS")})
SSH_FXP_LSTAT(w)    == Case(w, "LSTAT", {Success("ATTRS")})
SSH_FXP_FSTAT(w)    == Case(w, "FSTAT", {Success("ATTRS")})
SSH_FXP_SETSTAT(w)  == Case(w, "SETSTAT", {Success("STATUS")})
SSH_FXP_FSETSTAT(w) == Case(w, "FSETSTAT", {Success("STATUS")})
SSH_FXP_OPENDIR(w)  == Case(w, "OPENDIR", {Success("HANDLE")})
SSH_FXP_REMOVE(w)   == Case(w, "REMOVE", {Success("STATUS")})
SSH_FXP_MKDIR(w)    == Case(w, "MKDIR", {Success("STATUS")})
SSH_FXP_RMDIR(w)    == Case(w, "RMDIR", {Success("STATUS")})
SSH_FXP_REALPATH(w) == Case(w, "REALPATH", {Success("NAME")})
SSH_FXP_STAT(w)     == Case(w, "STAT", {Success("ATTRS")})
SSH_FXP_RENAME(w)   == Case(w, "RENAME", {Success("STATUS")})
SSH_FXP_READLINK(w) == Case(w, "READLINK", {Success("NAME")})
SSH_FXP_SYMLINK(w)  == Case(w, "SYMLINK", {Success("STATUS")})

(* The backend may return no entries. *)
SSH_FXP_READDIR(w) ==
    Case(w, "READDIR", {Success("NAME"), [Success("NAME") EXCEPT !.shape = "empty"]})

SSH_FXP_EXTENDED(w) ==
    \/ Case(w, "hardlink", {Success("STATUS")})
    \/ Case(w, "expand-path", {Success("NAME")})
    \/ /\ Handling(w, "other extension")
       /\ Respond(w, build_status("SSH_FX_OP_UNSUPPORTED"), TRUE)

(* make_buffer(mb): mb has moved past the header that was put into it. *)
SSH_FXP_READ(w) ==
    LET r == asked[request_id[w]]
    IN  /\ Handling(w, "READ")
        /\ \/ /\ Refused(r)
              /\ Respond(w, build_status("bad_message"), TRUE)
           \/ /\ ~Refused(r)
              /\ \/ Respond(w, Success("DATA"), FALSE)
                 \/ \E ec \in BackendErrors : Respond(w, build_status(ec), TRUE)

(* default:, and a request without an id, whose reply cannot be built. *)
Terminate(w) ==
    /\ pc[w] = "handling"
    /\ \/ asked[request_id[w]].opcode = "unknown"
       \/ asked[request_id[w]].form = "runt"
    /\ End(w)

Switch(w) ==
    \/ SSH_FXP_OPEN(w) \/ SSH_FXP_CLOSE(w) \/ SSH_FXP_READ(w) \/ SSH_FXP_WRITE(w)
    \/ SSH_FXP_LSTAT(w) \/ SSH_FXP_FSTAT(w) \/ SSH_FXP_SETSTAT(w) \/ SSH_FXP_FSETSTAT(w)
    \/ SSH_FXP_OPENDIR(w) \/ SSH_FXP_READDIR(w) \/ SSH_FXP_REMOVE(w) \/ SSH_FXP_MKDIR(w)
    \/ SSH_FXP_RMDIR(w) \/ SSH_FXP_REALPATH(w) \/ SSH_FXP_STAT(w) \/ SSH_FXP_RENAME(w)
    \/ SSH_FXP_READLINK(w) \/ SSH_FXP_SYMLINK(w) \/ SSH_FXP_EXTENDED(w) \/ Terminate(w)

-----------------------------------------------------------------------------
(* Writing the reply. *)

(* write_mutex is ours: the stream takes the reply in two pieces. *)
StartWrite(w) ==
    /\ pc[w] = "lock_write"
    /\ Owns(write_mutex, w)
    /\ pc' = [pc EXCEPT ![w] = "writing"]
    /\ outbound' = Append(outbound, <<response[w], 1>>)
    /\ UNCHANGED <<clientVars, inbound, buffer, read_mutex, write_mutex, workerVars,
                   taken, stop>>

(* The write is done: ll goes, and the loop asks for the next packet. *)
FinishWrite(w) ==
    /\ pc[w] = "writing"
    /\ outbound' = Append(outbound, <<response[w], 2>>)
    /\ write_mutex' = Leave(write_mutex, w)
    /\ my_buffer' = [my_buffer EXCEPT ![w] = <<>>]
    /\ request_id' = [request_id EXCEPT ![w] = 0]
    /\ response' = [response EXCEPT ![w] = NoResponse]
    /\ IF stop
       THEN /\ pc' = [pc EXCEPT ![w] = "ended"]
            /\ UNCHANGED read_mutex
       ELSE /\ pc' = [pc EXCEPT ![w] = "lock_read"]
            /\ read_mutex' = Append(read_mutex, w)
    /\ UNCHANGED <<clientVars, inbound, buffer, taken, stop>>

WriteFails(w) ==
    /\ pc[w] = "writing" \/ (pc[w] = "lock_write" /\ Owns(write_mutex, w))
    /\ hungUp
    /\ End(w)

(* Whatever a worker awaits ends with an error once it is to stop. *)
Stopped(w) ==
    /\ stop
    /\ pc[w] \in {"lock_read", "reading", "lock_write", "writing"}
    /\ End(w)

-----------------------------------------------------------------------------
serve_worker(w) ==
    /\ handshake = "done"
    /\ \/ StartRead(w)
       \/ \E n \in 1 .. Len(inbound) : ReadSome(w, n)
       \/ ReadFails(w)
       \/ TakePacket(w)
       \/ Switch(w)
       \/ StartWrite(w)
       \/ FinishWrite(w)
       \/ WriteFails(w)
       \/ Stopped(w)

AllEnded == handshake = "failed" \/ \A w \in Workers : pc[w] = "ended"

(* serve returns. *)
Done == AllEnded /\ UNCHANGED vars

Next ==
    \/ \E r \in Requests : Ask(r)
    \/ HangUp
    \/ init_server
    \/ \E w \in Workers : serve_worker(w)
    \/ Done

Spec == Init /\ [][Next]_vars

(* What a worker awaits, the backend included, is resumed in the end. *)
Fairness == WF_vars(init_server) /\ \A w \in Workers : WF_vars(serve_worker(w))

FairSpec == Spec /\ Fairness

-----------------------------------------------------------------------------
(* Properties. *)

(***************************************************************************)
(* What the workers take as packets are the client's packets, each whole   *)
(* and once, in the order sent, however reads split them and whichever     *)
(* worker reads: the shared buffer hands over exactly what the last reader *)
(* read too much (serve_worker's buffer and my_buffer under read_mutex).   *)
(* Until the workers are stopped: a reader that is drops what it has read. *)
(***************************************************************************)
WholeInOrder ==
    ~stop => \A k \in 1 .. Len(taken) : taken[k] = <<<<k, 1>>, <<k, 2>>>>

(* The place of a unit in what the client writes after its first packet. *)
Position(unit) == 2 * (unit[1] - 1) + unit[2]

(* held and then what is under way are what was asked for and not taken. *)
InLine(held) ==
    /\ 2 * Len(taken) + Len(held) + Len(inbound) = 2 * Len(asked)
    /\ \A j \in 1 .. Len(held) : Position(held[j]) = 2 * Len(taken) + j
    /\ \A j \in 1 .. Len(inbound) :
            Position(inbound[j]) = 2 * Len(taken) + Len(held) + j

(***************************************************************************)
(* No request is lost or overtaken between the client, the stream,         *)
(* init_server, the shared buffer and the workers: what a reader or the    *)
(* shared buffer holds, followed by what is under way, are the units of    *)
(* what was asked and not taken, each once and in order.                   *)
(* (init_server drops what it has read beyond INIT: nothing may have been  *)
(* sent yet.  The shared buffer is stale while a reader has a copy of it;  *)
(* a reader that gives up takes with it what it read.)                     *)
(***************************************************************************)
Reading == {w \in Workers : pc[w] = "reading"}
NothingLost ==
    handshake = "done" /\ (\A w \in Workers : pc[w] # "ended") =>
        /\ Reading = {} => InLine(buffer)
        /\ \A w \in Reading : InLine(my_buffer[w])

(***************************************************************************)
(* The replies on the stream are whole and one after the other: while the  *)
(* client listens and no worker was told to stop, no two workers' replies  *)
(* are interleaved (write_mutex held over the whole of capy::write).       *)
(***************************************************************************)
RepliesUnmixed ==
    ~stop /\ ~hungUp =>
        \A k \in 1 .. Len(outbound) :
            IF k % 2 = 1 THEN outbound[k][2] = 1
            ELSE outbound[k] = <<outbound[k - 1][1], 2>>

ReplyTo(id) == {k \in 1 .. Len(outbound) :
                    outbound[k][2] = 1 /\ outbound[k][1].request_id = id}

(* The packet type of a successful reply, for each opcode. *)
ReplyType(opcode) ==
    CASE opcode \in {"OPEN", "OPENDIR"} -> "HANDLE"
      [] opcode = "READ" -> "DATA"
      [] opcode \in {"LSTAT", "FSTAT", "STAT"} -> "ATTRS"
      [] opcode \in {"READDIR", "REALPATH", "READLINK", "expand-path"} -> "NAME"
      [] OTHER -> "STATUS"

(***************************************************************************)
(* A request is replied to at most once, by one worker only, and with a    *)
(* STATUS or the packet that the client's response class for that          *)
(* operation waits for, though the reply is built in the buffer the        *)
(* request was in and other workers take and reply to requests in between. *)
(* (That a reply also says whose it is, is RepliesIdentified: the one to a *)
(* successful READ is counted here by what it was built as.)               *)
(***************************************************************************)
OneReply ==
    \A id \in 1 .. Len(asked) :
        /\ Cardinality(ReplyTo(id)) <= 1
        /\ \A k \in ReplyTo(id) :
              outbound[k][1].body.type \in {"STATUS", ReplyType(asked[id].opcode)}

(***************************************************************************)
(* A request that has an opcode and an id is replied to in the end, unless *)
(* the client hangs up, the workers are stopped or none is left.  That     *)
(* other requests end workers is no excuse while one remains.              *)
(***************************************************************************)
EveryRequestAnswered ==
    \A id \in Ids :
        (/\ id <= Len(asked)
         /\ asked[id].opcode # "unknown"
         /\ asked[id].form # "runt")
            ~> (ReplyTo(id) # {} \/ hungUp \/ stop \/ AllEnded)

(***************************************************************************)
(* serve returns after the client hangs up or a failed worker has stopped  *)
(* the others: every worker ends, whichever lock it holds or waits for.    *)
(***************************************************************************)
ServeReturns == (hungUp \/ stop) ~> AllEnded

(***************************************************************************)
(* "every request gets exactly one response, identified by a `request_id`" *)
(* every reply on the stream has the header with the request's id.         *)
(***************************************************************************)
RepliesIdentified == \A k \in 1 .. Len(outbound) : outbound[k][1].framed
=============================================================================
