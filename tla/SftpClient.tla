----------------------------- MODULE SftpClient -----------------------------
(***************************************************************************)
(* corosh::sftp::session: many coroutines share one SFTP stream, without a *)
(* reader coroutine of their own.  Every operation puts a detail::response *)
(* that lives in its coroutine frame on the session's response_queue,      *)
(* writes its request under read_mutex_, and then reads packets for        *)
(* everyone, under write_mutex_, until its own response is completed.      *)
(* (The code's names for the two mutexes are the other way round from what *)
(* they guard.)                                                            *)
(*                                                                         *)
(* Coroutines run on one thread and interleave only where they co_await;   *)
(* an action is the code between two such points.  The queue is modelled   *)
(* with its pointers: Frames are the addresses coroutine frames get, a     *)
(* frame is free again when its call returns, and the queue may still      *)
(* point to it.                                                            *)
(***************************************************************************)
EXTENDS Integers, Sequences, FiniteSets, SftpReplies

CONSTANTS
    Calls,        \* invocations of operations, each used once
    Frames,       \* addresses of coroutine frames, recycled
    Files, Dirs,  \* objects of class file and dir
    Replies,      \* the reply bodies the server chooses from
    Ops,          \* the operations the application uses
    Events,       \* the failures that may happen, a subset of AllEvents
    MaxInFlight,  \* bound on the calls in progress at one time
    NULL          \* nullptr

AllEvents == {"break", "cancel", "runt", "destroy"}

Objs == Files \cup Dirs

ASSUME ClientAssumption ==
    /\ NULL \notin Frames \cup Objs \cup Body
    /\ Files \cap Dirs = {}
    /\ IsFiniteSet(Frames)
    /\ Replies \subseteq Body
    /\ Events \subseteq AllEvents
    /\ MaxInFlight \in Nat

VARIABLES
    pc,              \* where each call is suspended
    op,              \* its operation: name, response class, file or dir
    id,              \* its local id
    frame,           \* the address of its coroutine frame
    result,          \* the error code it returned
    heap,            \* the response object at each address
    first, last, request_id_gen,   \* response_queue
    read_mutex_, write_mutex_,     \* owner and waiters, in order
    sess_,           \* whether a file or dir has its session pointer
    toServer,        \* ids of requests the server has not answered
    fromServer,      \* packets on the way to, or in, buffer_
    sent,            \* history: every reply the server has sent
    up,              \* the stream works
    fate,            \* of the process
    stale            \* history: the queue has accessed a freed response

callVars   == <<pc, op, id, frame, result>>
queueVars  == <<heap, first, last, request_id_gen>>
streamVars == <<toServer, fromServer, sent, up>>
vars == <<callVars, queueVars, read_mutex_, write_mutex_, sess_, streamVars,
          fate, stale>>

NoId == -1
Ids == Nat

(* A packet whose body is too short to hold a type and a request id. *)
Runt == [request_id |-> NoId, body |-> NULL]
Packets == [request_id : Ids, body : Body]

Closes == {"file_close", "dir_close"}
Opens  == {"open", "opendir"}
HandleOps == {"read_some_at", "write_some_at", "do_read_"} \cup Closes
PathOps == {"unlink", "mkdir", "rmdir", "rename", "chmod", "chown", "symlink",
            "hardlink", "setstat", "stat", "lstat", "readlink",
            "canonicalize_path", "expand_path", "home_directory"}
AllOps == PathOps \cup Opens \cup HandleOps

Operation == [name : AllOps, response : Kinds, obj : Objs \cup {NULL}]
Response  == [request_id : Ids \cup {NoId}, next : Frames \cup {NULL},
              kind : Kinds, completed : BOOLEAN, ec : ErrorCodes]

PCs == {"idle", "lock_write", "writing", "written", "lock_read", "reading",
        "returned"}

TypeOK ==
    /\ pc \in [Calls -> PCs]
    /\ op \in [Calls -> Operation]
    /\ id \in [Calls -> Ids \cup {NoId}]
    /\ frame \in [Calls -> Frames \cup {NULL}]
    /\ result \in [Calls -> ErrorCodes]
    /\ heap \in [Frames -> Response]
    /\ first \in Frames \cup {NULL}
    /\ last \in Frames \cup {NULL}
    /\ request_id_gen \in Nat
    /\ read_mutex_ \in Seq(Calls)
    /\ write_mutex_ \in Seq(Calls)
    /\ sess_ \in [Objs -> BOOLEAN]
    /\ toServer \subseteq Ids
    /\ fromServer \in Seq(Packets \cup {Runt})
    /\ sent \subseteq Packets
    /\ up \in BOOLEAN
    /\ fate \in {"running", "spinning", "crashed", "destroyed"}
    /\ stale \in BOOLEAN

Init ==
    /\ pc = [c \in Calls |-> "idle"]
    /\ op = [c \in Calls |-> [name |-> "stat", response |-> "attrs", obj |-> NULL]]
    /\ id = [c \in Calls |-> NoId]
    /\ frame = [c \in Calls |-> NULL]
    /\ result = [c \in Calls |-> "success"]
    /\ heap = [f \in Frames |-> [request_id |-> NoId, next |-> NULL,
                                 kind |-> "attrs", completed |-> FALSE,
                                 ec |-> "success"]]
    /\ first = NULL
    /\ last = NULL
    /\ request_id_gen = 0
    /\ read_mutex_ = <<>>
    /\ write_mutex_ = <<>>
    /\ sess_ = [h \in Objs |-> FALSE]
    /\ toServer = {}
    /\ fromServer = <<>>
    /\ sent = {}
    /\ up = TRUE
    /\ fate = "running"
    /\ stale = FALSE

-----------------------------------------------------------------------------
(* Memory. *)

Live == {c \in Calls : pc[c] \notin {"idle", "returned"}}
Held == {frame[c] : c \in Live}

(***************************************************************************)
(* The code dereferences the responses at fs.  The frame of a call that    *)
(* has returned was given back to the allocator: its bytes are what they   *)
(* were until the address is used again, or the access faults.             *)
(***************************************************************************)
Touch(fs) ==
    IF fs \subseteq Held
    THEN UNCHANGED <<fate, stale>>
    ELSE /\ stale' = TRUE
         /\ fate' \in {"running", "crashed"}

-----------------------------------------------------------------------------
(* response_queue. *)

Steps == 0 .. Cardinality(Frames)

(* Where `it` is after n steps of the loop from first along next. *)
hop[n \in Steps] ==
    IF n = 0 THEN first
    ELSE IF hop[n - 1] = NULL THEN NULL ELSE heap[hop[n - 1]].next

Chain == {f \in Frames : \E n \in Steps : hop[n] = f}

(* More steps than addresses and still no nullptr: the list is a cycle. *)
Endless == hop[Cardinality(Frames)] # NULL

(* The positions at which the loop would find request_id. *)
HitsAny(request_id) == {n \in Steps : hop[n] \in Frames}  \* mutant: ids ignored
Hits(request_id) ==
    {n \in Steps : hop[n] \in Frames /\ heap[hop[n]].request_id = request_id}

Visited(n) == {f \in Frames : \E m \in 0 .. n : hop[m] = f}

(* The constructor of a response, in the frame at f, for class kind. *)
SelfLinked(f, kind) ==  \* mutant: next begins as `this`
    [heap EXCEPT ![f] = [request_id |-> request_id_gen, next |-> f,
                         kind |-> kind, completed |-> FALSE, ec |-> "success"]]
Construct(f, kind) ==
    [heap EXCEPT ![f] = [request_id |-> request_id_gen, next |-> NULL,
                         kind |-> kind, completed |-> FALSE, ec |-> "success"]]

(* first after enqueue_response puts the response at f on the list. *)
FirstTested(f) == IF first = NULL THEN f ELSE first  \* mutant: the wrong pointer
NewFirst(f) == IF last = NULL THEN f ELSE first

(* get_request_id, the constructor, and enqueue_response. *)
enqueue_response(f, kind) ==
    /\ request_id_gen' = request_id_gen + 1
    /\ first' = NewFirst(f)
    /\ last' = f
    /\ heap' = IF last = NULL THEN Construct(f, kind)
               ELSE [Construct(f, kind) EXCEPT ![last].next = f]
    /\ Touch({last} \ {f, NULL})

(* last after complete has found the response at `it`. *)
NewLast(it) == IF it = last THEN NULL ELSE last

(***************************************************************************)
(* response_queue::complete.  No code assigns response::prev, so only the  *)
(* else branch runs: a response is never taken off the list, it is at most *)
(* forgotten as the last one.                                              *)
(***************************************************************************)
complete(p) ==
    \/ \E n \in Hits(p.request_id) :
        /\ \A m \in Hits(p.request_id) : n <= m
        /\ LET it == hop[n]
           IN  /\ last' = NewLast(it)
               /\ heap' = [heap EXCEPT ![it].completed = TRUE,
                                       ![it].ec = Outcome(heap[it].kind, p.body)]
        /\ Touch(Visited(n))
        /\ UNCHANGED <<first, request_id_gen>>
    \/ /\ Hits(p.request_id) = {}
       /\ ~Endless
       /\ Touch(Chain)
       /\ UNCHANGED queueVars

cancel_all(ec) ==
    /\ ~Endless
    /\ heap' = [f \in Frames |->
                   IF f \in Chain THEN [heap[f] EXCEPT !.completed = TRUE, !.ec = ec]
                                  ELSE heap[f]]
    /\ first' = NULL
    /\ last' = NULL
    /\ UNCHANGED request_id_gen

-----------------------------------------------------------------------------
(* The operations, up to their first co_await. *)

Request(c, f, name, response, obj) ==
    /\ fate = "running"
    /\ name \in Ops
    /\ pc[c] = "idle"
    /\ Cardinality(Live) < MaxInFlight
    /\ f \notin Held
    /\ op' = [op EXCEPT ![c] = [name |-> name, response |-> response, obj |-> obj]]
    /\ id' = [id EXCEPT ![c] = request_id_gen]
    /\ frame' = [frame EXCEPT ![c] = f]
    /\ enqueue_response(f, response)
    /\ pc' = [pc EXCEPT ![c] = "lock_write"]
    /\ read_mutex_' = Append(read_mutex_, c)
    /\ UNCHANGED <<result, write_mutex_, sess_, streamVars>>

unlink(c, f)   == Request(c, f, "unlink", "status", NULL)
mkdir(c, f)    == Request(c, f, "mkdir", "status", NULL)
rmdir(c, f)    == Request(c, f, "rmdir", "status", NULL)
rename(c, f)   == Request(c, f, "rename", "status", NULL)
chmod(c, f)    == Request(c, f, "chmod", "status", NULL)
chown(c, f)    == Request(c, f, "chown", "status", NULL)
symlink(c, f)  == Request(c, f, "symlink", "status", NULL)
hardlink(c, f) == Request(c, f, "hardlink", "status", NULL)
setstat(c, f)  == Request(c, f, "setstat", "status", NULL)
stat(c, f)     == Request(c, f, "stat", "attrs", NULL)
lstat(c, f)    == Request(c, f, "lstat", "attrs", NULL)
readlink(c, f) == Request(c, f, "readlink", "name", NULL)
canonicalize_path(c, f) == Request(c, f, "canonicalize_path", "name", NULL)
expand_path(c, f)       == Request(c, f, "expand_path", "name", NULL)
home_directory(c, f)    == Request(c, f, "home_directory", "name", NULL)

(* The object that will be the result is not in use. *)
Unused(h) == ~sess_[h] /\ \A d \in Live : op[d].obj # h

open(c, f, h)    == h \in Files /\ Unused(h) /\ Request(c, f, "open", "handle", h)
opendir(c, f, h) == h \in Dirs /\ Unused(h) /\ Request(c, f, "opendir", "handle", h)

(* On a handle that is not open these dereference a null session. *)
read_some_at(c, f, h)  == h \in Files /\ sess_[h] /\ Request(c, f, "read_some_at", "data", h)
write_some_at(c, f, h) == h \in Files /\ sess_[h] /\ Request(c, f, "write_some_at", "status", h)
do_read_(c, f, h)      == h \in Dirs /\ sess_[h] /\ Request(c, f, "do_read_", "dir_entry", h)

file_close(c, f, h) == h \in Files /\ sess_[h] /\ Request(c, f, "file_close", "status", h)
dir_close(c, f, h)  == h \in Dirs /\ sess_[h] /\ Request(c, f, "dir_close", "status", h)

(* if (!sess_) co_return {}; *)
CloseNull(c, name, h) ==
    /\ fate = "running"
    /\ name \in Ops
    /\ pc[c] = "idle"
    /\ ~sess_[h]
    /\ op' = [op EXCEPT ![c] = [name |-> name, response |-> "status", obj |-> h]]
    /\ pc' = [pc EXCEPT ![c] = "returned"]
    /\ UNCHANGED <<id, frame, result, queueVars, read_mutex_, write_mutex_, sess_,
                   streamVars, fate, stale>>

Invoke(c) ==
    \/ \E f \in Frames :
        \/ unlink(c, f) \/ mkdir(c, f) \/ rmdir(c, f) \/ rename(c, f)
        \/ chmod(c, f) \/ chown(c, f) \/ symlink(c, f) \/ hardlink(c, f)
        \/ setstat(c, f) \/ stat(c, f) \/ lstat(c, f) \/ readlink(c, f)
        \/ canonicalize_path(c, f) \/ expand_path(c, f) \/ home_directory(c, f)
        \/ \E h \in Objs :
            \/ open(c, f, h) \/ opendir(c, f, h)
            \/ read_some_at(c, f, h) \/ write_some_at(c, f, h) \/ do_read_(c, f, h)
            \/ file_close(c, f, h) \/ dir_close(c, f, h)
    \/ \E h \in Files : CloseNull(c, "file_close", h)
    \/ \E h \in Dirs  : CloseNull(c, "dir_close", h)

-----------------------------------------------------------------------------
(* The rest of every operation: it is the same code in each of them. *)

(* sess_-> is dereferenced after every co_await of a file or dir operation. *)
Valid(c) == op[c].name \in HandleOps => sess_[op[c].obj]

(* co_return ec from inside the operation. *)
Early(c, ec) ==
    /\ pc' = [pc EXCEPT ![c] = "returned"]
    /\ result' = [result EXCEPT ![c] = ec]
    /\ UNCHANGED sess_

(* What follows the loop: a close gives its handle up, an open makes one. *)
ReturnSuccess(c, ec) ==  \* mutant: response.ec is dropped
    /\ pc' = [pc EXCEPT ![c] = "returned"]
    /\ UNCHANGED result
    /\ sess_' = IF op[c].name \in Opens
                THEN [sess_ EXCEPT ![op[c].obj] = TRUE] ELSE sess_
ReturnKeeps(c, ec) ==  \* mutant: a close keeps the session pointer
    /\ pc' = [pc EXCEPT ![c] = "returned"]
    /\ result' = [result EXCEPT ![c] = ec]
    /\ sess_' = IF op[c].name \in Opens /\ ec = "success"
                THEN [sess_ EXCEPT ![op[c].obj] = TRUE] ELSE sess_
Return(c, ec) ==
    /\ pc' = [pc EXCEPT ![c] = "returned"]
    /\ result' = [result EXCEPT ![c] = ec]
    /\ sess_' = IF op[c].name \in Closes THEN [sess_ EXCEPT ![op[c].obj] = FALSE]
                ELSE IF op[c].name \in Opens /\ ec = "success"
                THEN [sess_ EXCEPT ![op[c].obj] = TRUE]
                ELSE sess_

(* The call whose lock() has returned; async_mutex is first come, first served. *)
OwnsQueued(mutex, c) == mutex # <<>>  \* mutant: lock() does not wait
Owns(mutex, c) == Head(mutex) = c

(* co_await read_mutex_.lock() resumes and the write starts. *)
StartWrite(c) ==
    /\ fate = "running"
    /\ pc[c] = "lock_write"
    /\ Owns(read_mutex_, c)
    /\ Valid(c)
    /\ pc' = [pc EXCEPT ![c] = "writing"]
    /\ UNCHANGED <<op, id, frame, result, queueVars, read_mutex_, write_mutex_,
                   sess_, streamVars, fate, stale>>

SendsPrevious(c) == toServer \cup {id[c] - 1}  \* mutant: off by one
Sends(c) == toServer \cup {id[c]}

(* The last byte of the request leaves; the coroutine is still suspended. *)
Transmit(c) ==
    /\ fate = "running"
    /\ pc[c] = "writing"
    /\ up
    /\ pc' = [pc EXCEPT ![c] = "written"]
    /\ toServer' = Sends(c)
    /\ UNCHANGED <<op, id, frame, result, queueVars, read_mutex_, write_mutex_,
                   sess_, fromServer, sent, up, fate, stale>>

(* capy::write resumes, read_mutex_.unlock(), and the loop condition. *)
FinishWrite(c) ==
    /\ fate = "running"
    /\ pc[c] = "written"
    /\ Valid(c)
    /\ read_mutex_' = Tail(read_mutex_)
    /\ \/ /\ heap[frame[c]].completed
          /\ Return(c, heap[frame[c]].ec)
          /\ UNCHANGED write_mutex_
       \/ /\ ~heap[frame[c]].completed
          /\ pc' = [pc EXCEPT ![c] = "lock_read"]
          /\ write_mutex_' = Append(write_mutex_, c)
          /\ UNCHANGED <<result, sess_>>
    /\ UNCHANGED <<op, id, frame, queueVars, streamVars, fate, stale>>

(* capy::write fails: unlock and return, the response still on the queue. *)
WriteFails(c, ec) ==
    /\ fate = "running"
    /\ pc[c] = "writing"
    /\ \/ ~up /\ ec = "connection_lost"
       \/ "cancel" \in Events /\ ec = "canceled"
    /\ Valid(c)
    /\ read_mutex_' = Tail(read_mutex_)
    /\ Early(c, ec)
    /\ UNCHANGED <<op, id, frame, queueVars, write_mutex_, streamVars, fate, stale>>

(* A waiter leaves the middle of a mutex's queue. *)
WithoutNone(mutex, k) == mutex  \* mutant: it stays queued
Without(mutex, k) == SubSeq(mutex, 1, k - 1) \o SubSeq(mutex, k + 1, Len(mutex))

(* lock() returns an error to a call that was cancelled while it waited. *)
LockFails(c) ==
    /\ fate = "running"
    /\ "cancel" \in Events
    /\ \/ /\ pc[c] = "lock_write"
          /\ \E k \in 2 .. Len(read_mutex_) :
                read_mutex_[k] = c /\ read_mutex_' = Without(read_mutex_, k)
          /\ UNCHANGED write_mutex_
       \/ /\ pc[c] = "lock_read"
          /\ \E k \in 2 .. Len(write_mutex_) :
                write_mutex_[k] = c /\ write_mutex_' = Without(write_mutex_, k)
          /\ UNCHANGED read_mutex_
    /\ Early(c, "canceled")
    /\ UNCHANGED <<op, id, frame, queueVars, streamVars, fate, stale>>

(* co_await write_mutex_.lock() resumes, and somebody has read our reply. *)
WakeAnswered(c) ==
    /\ fate = "running"
    /\ pc[c] = "lock_read"
    /\ Owns(write_mutex_, c)
    /\ Valid(c)
    /\ heap[frame[c]].completed
    /\ write_mutex_' = Tail(write_mutex_)
    /\ Return(c, heap[frame[c]].ec)
    /\ UNCHANGED <<op, id, frame, queueVars, read_mutex_, streamVars, fate, stale>>

(* The second check of the loop, under the lock. *)
Unchecked(c) == TRUE  \* mutant: the check is left out
Unanswered(c) == ~heap[frame[c]].completed

(* It resumes and nobody has: read_one_ starts. *)
StartRead(c) ==
    /\ fate = "running"
    /\ pc[c] = "lock_read"
    /\ Owns(write_mutex_, c)
    /\ Valid(c)
    /\ Unanswered(c)
    /\ pc' = [pc EXCEPT ![c] = "reading"]
    /\ UNCHANGED <<op, id, frame, result, queueVars, read_mutex_, write_mutex_,
                   sess_, streamVars, fate, stale>>

Reading(c) ==
    /\ fate = "running"
    /\ pc[c] = "reading"
    /\ Valid(c)

(* read_one_ returns success: unlock, and around the loop again. *)
LoopOnce(c) ==  \* mutant: no second round
    /\ write_mutex_' = Tail(write_mutex_)
    /\ Return(c, heap'[frame[c]].ec)
Loop(c) ==
    \/ /\ heap'[frame[c]].completed
       /\ write_mutex_' = Tail(write_mutex_)
       /\ Return(c, heap'[frame[c]].ec)
    \/ /\ ~heap'[frame[c]].completed
       /\ write_mutex_' = Append(Tail(write_mutex_), c)
       /\ pc' = [pc EXCEPT ![c] = "lock_read"]
       /\ UNCHANGED <<result, sess_>>

(* read_one_: a packet arrives, is dispatched, and consumed. *)
ReadPacket(c) ==
    /\ Reading(c)
    /\ fromServer # <<>>
    /\ Head(fromServer) # Runt
    /\ complete(Head(fromServer))
    /\ fromServer' = Tail(fromServer)
    /\ Loop(c)
    /\ UNCHANGED <<op, id, frame, read_mutex_, toServer, sent, up>>

(* read_one_ returns an error: unlock, and the loop ends. *)
BreakLoop(c) ==
    /\ write_mutex_' = Tail(write_mutex_)
    /\ Return(c, heap'[frame[c]].ec)

(* read_one_ cannot parse the packet: it is not consumed, nothing completes. *)
ReadRunt(c) ==
    /\ Reading(c)
    /\ fromServer # <<>>
    /\ Head(fromServer) = Runt
    /\ UNCHANGED queueVars
    /\ BreakLoop(c)
    /\ UNCHANGED <<op, id, frame, read_mutex_, streamVars, fate, stale>>

(* The errors read_until can report. *)
ReadError(ec) ==
    \/ ~up /\ fromServer = <<>> /\ ec = "connection_lost"
    \/ "cancel" \in Events /\ fromServer = <<>> /\ ec = "canceled"

(* read_one_: the stream fails, and so does every response on the queue. *)
ReadFails(c, ec) ==
    /\ Reading(c)
    /\ ReadError(ec)
    /\ cancel_all(ec)
    /\ Touch(Chain)
    /\ BreakLoop(c)
    /\ UNCHANGED <<op, id, frame, read_mutex_, streamVars>>

(* complete or cancel_all along a list that has become a cycle never ends. *)
Spin(c, ec) ==
    /\ Reading(c)
    /\ Endless
    /\ \/ /\ fromServer # <<>>
          /\ Head(fromServer) # Runt
          /\ Hits(Head(fromServer).request_id) = {}
       \/ ReadError(ec)
    /\ fate' = "spinning"
    /\ UNCHANGED <<callVars, queueVars, read_mutex_, write_mutex_, sess_,
                   streamVars, stale>>

(* A call resumes after its file or dir was closed under it. *)
NullDeref(c) ==
    /\ fate = "running"
    /\ ~Valid(c)
    /\ \/ pc[c] = "lock_write" /\ Owns(read_mutex_, c)
       \/ pc[c] = "writing" /\ (~up \/ "cancel" \in Events)
       \/ pc[c] = "written"
       \/ pc[c] = "lock_read" /\ Owns(write_mutex_, c)
       \/ pc[c] = "reading" /\ (fromServer # <<>> \/ ~up \/ "cancel" \in Events)
    /\ fate' = "crashed"
    /\ UNCHANGED <<callVars, queueVars, read_mutex_, write_mutex_, sess_,
                   streamVars, stale>>

-----------------------------------------------------------------------------
(* The session's end, the stream and the server. *)

(* ~response_queue; nobody uses the session any more. *)
Destroy ==
    /\ fate = "running"
    /\ "destroy" \in Events
    /\ Live = {}
    /\ \/ /\ cancel_all("broken_pipe")
          /\ stale' = (stale \/ Chain # {})
          /\ fate' \in {"destroyed"} \cup (IF Chain # {} THEN {"crashed"} ELSE {})
       \/ /\ Endless
          /\ fate' = "spinning"
          /\ stale' = TRUE
          /\ UNCHANGED queueVars
    /\ UNCHANGED <<callVars, read_mutex_, write_mutex_, sess_, streamVars>>

(* The connection is lost, and with it what has not arrived yet. *)
Break ==
    /\ fate = "running"
    /\ "break" \in Events
    /\ up
    /\ up' = FALSE
    /\ toServer' = {}
    /\ \E n \in 0 .. Len(fromServer) : fromServer' = SubSeq(fromServer, 1, n)
    /\ UNCHANGED <<callVars, queueVars, read_mutex_, write_mutex_, sess_, sent,
                   fate, stale>>

(* The server answers each request once, in any order. *)
ServerReply(i, b) ==
    /\ fate = "running"
    /\ up
    /\ i \in toServer
    /\ toServer' = toServer \ {i}
    /\ fromServer' = Append(fromServer, [request_id |-> i, body |-> b])
    /\ sent' = sent \cup {[request_id |-> i, body |-> b]}
    /\ UNCHANGED <<callVars, queueVars, read_mutex_, write_mutex_, sess_, up,
                   fate, stale>>

(* It sends a packet too short for a request id (at most one is of interest). *)
ServerRunt ==
    /\ fate = "running"
    /\ "runt" \in Events
    /\ up
    /\ \A k \in 1 .. Len(fromServer) : fromServer[k] # Runt
    /\ fromServer' = Append(fromServer, Runt)
    /\ UNCHANGED <<callVars, queueVars, read_mutex_, write_mutex_, sess_,
                   toServer, sent, up, fate, stale>>

(* The program has ended, or every call it makes has returned. *)
Done ==
    /\ \/ fate # "running"
       \/ \A c \in Calls : pc[c] = "returned"
    /\ UNCHANGED vars

Resume(c) ==
    \/ StartWrite(c) \/ Transmit(c) \/ FinishWrite(c)
    \/ WakeAnswered(c) \/ StartRead(c) \/ ReadPacket(c) \/ ReadRunt(c)
    \/ NullDeref(c) \/ Spin(c, "connection_lost")
    \/ WriteFails(c, "connection_lost") \/ ReadFails(c, "connection_lost")

Cancel(c) ==
    \/ LockFails(c) \/ WriteFails(c, "canceled") \/ ReadFails(c, "canceled")
    \/ Spin(c, "canceled")

Reply == \E i \in toServer, b \in Replies : ServerReply(i, b)

Next ==
    \/ \E c \in Calls : Invoke(c) \/ Resume(c) \/ Cancel(c)
    \/ Reply \/ ServerRunt \/ Break \/ Destroy \/ Done

Spec == Init /\ [][Next]_vars

(***************************************************************************)
(* The executor resumes every coroutine that is ready, a working stream    *)
(* moves bytes, and the server answers what it was asked.  Nothing obliges *)
(* the application to make a call, the stream to break or anyone to cancel.*)
(***************************************************************************)
Fairness ==
    /\ \A c \in Calls : WF_vars(Resume(c))
    /\ WF_vars(Reply)

FairSpec == Spec /\ Fairness

-----------------------------------------------------------------------------
(* Safety. *)

(* The answer to call c, as response class would read it, was ec. *)
Answered(c, ec) ==
    \E p \in sent : p.request_id = id[c] /\ ec = Outcome(op[c].response, p.body)

(***************************************************************************)
(* No cross-talk: whatever order packets come in, whoever reads them and   *)
(* whatever the queue's pointers have become, a completed response holds   *)
(* the outcome of the server's answer to its own request id, and so does   *)
(* an error a call returns, unless it is a transport error (read_one_ and  *)
(* response_queue::complete dispatch by request id).                       *)
(***************************************************************************)
AnswerIsOwn ==
    \A c \in Calls :
        /\ /\ c \in Live
           /\ heap[frame[c]].completed
           /\ heap[frame[c]].ec \notin TransportErrors
           => Answered(c, heap[frame[c]].ec)
        /\ /\ pc[c] = "returned"
           /\ result[c] \notin TransportErrors \cup {"success"}
           => Answered(c, result[c])

(* A call that put a request on the stream returns success only if the     *)
(* server said so: for write_some_at, "success means every byte landed".   *)
SuccessIsAnswered ==
    \A c \in Calls :
        pc[c] = "returned" /\ result[c] = "success" /\ id[c] # NoId
            => Answered(c, "success")

(* read_one_ runs only for a call whose own reply is still to come: the    *)
(* second check of completed, under the lock, is there for this.           *)
ReaderIsUnanswered ==
    \A c \in Calls : pc[c] = "reading" => ~heap[frame[c]].completed

(* Two requests are never on the stream in pieces, and two calls never     *)
(* read it at once (the read-mutex / write-mutex split).                   *)
StreamExclusive ==
    \A c, d \in Calls :
        /\ pc[c] \in {"writing", "written"} /\ pc[d] \in {"writing", "written"} => c = d
        /\ pc[c] = "reading" /\ pc[d] = "reading" => c = d

(* While anyone waits for the read lock its owner is a call that is about  *)
(* to read or reading: no early return, cancellation or failure leaves the *)
(* stream without a reader.                                                *)
SomeoneReads ==
    (\E c \in Calls : pc[c] = "lock_read")
        => /\ write_mutex_ # <<>>
           /\ pc[Head(write_mutex_)] \in {"lock_read", "reading"}

(* Every response that is still pending is on the list that complete and   *)
(* cancel_all walk.                                                        *)
PendingIsQueued ==
    \A c \in Live : ~heap[frame[c]].completed => frame[c] \in Chain

(* No response that has been freed, and no session through a closed file   *)
(* or dir, is dereferenced.                                                *)
MemorySafe == ~stale /\ fate # "crashed"

-----------------------------------------------------------------------------
(* Action properties. *)

(* What a response was completed with stays until its call returns it,     *)
(* while the stream works (cancel_all overwrites every response it finds): *)
(* no other packet and no other call's response in a recycled frame        *)
(* changes it.                                                             *)
AnswerStays ==
    [][\A c \in Calls :
        /\ c \in Live /\ c \in Live'
        /\ heap[frame[c]].completed
        /\ up'
        => /\ heap'[frame[c]].completed
           /\ heap'[frame[c]].ec = heap[frame[c]].ec]_vars

(* When a close returns, the file or dir has given up its session.         *)
CloseReleases ==
    [][\A c \in Calls :
        /\ pc[c] # "returned" /\ pc'[c] = "returned"
        /\ op'[c].name \in Closes
        => ~sess_'[op'[c].obj]]_vars

-----------------------------------------------------------------------------
(* Liveness. *)

(* Every call returns, unless the process dies of a bad dereference first. *)
CallsReturn ==
    \A c \in Calls : c \in Live ~> (pc[c] = "returned" \/ fate = "crashed")

-----------------------------------------------------------------------------
(* Refinement. *)

PhaseBar ==
    [c \in Calls |-> CASE pc[c] = "idle" -> "idle"
                       [] pc[c] = "returned" -> "done"
                       [] OTHER -> "pending"]

KindBar == [c \in Calls |-> op[c].response]

AnswerBar ==
    [c \in Calls |->
        IF \E p \in sent : p.request_id = id[c]
        THEN (CHOOSE p \in sent : p.request_id = id[c]).body
        ELSE NULL]

Abstract == INSTANCE SftpCalls WITH
    phase <- PhaseBar, kind <- KindBar, answer <- AnswerBar, NoAnswer <- NULL

(* Seen from outside, the shared queue is a set of independent calls, each *)
(* of which returns its own answer or fails with a transport error.        *)
RefinesCalls == Abstract!Spec
=============================================================================
