-------------------------- MODULE SftpClientProofs --------------------------
(* Theorems about SftpClient, for any calls, frames, replies and failures. *)
EXTENDS SftpClient, TLAPS

(* Requests and closes, without the names of the operations. *)
AnyRequest(c) ==
    \E f \in Frames, name \in AllOps, response \in Kinds, obj \in Objs \cup {NULL} :
        Request(c, f, name, response, obj)

AnyCloseNull(c) == \E name \in Closes, h \in Objs : CloseNull(c, name, h)

(* Every operation of the session, of a file and of a dir is a Request with *)
(* a response class and an object of the right type, or does nothing.       *)
LEMMA InvokeCases ==
    ASSUME NEW c \in Calls, Invoke(c)
    PROVE  AnyRequest(c) \/ AnyCloseNull(c)
<1> USE DEF AllOps, PathOps, Opens, HandleOps, Closes, Kinds, Objs
<1>1. CASE \E f \in Frames :
                \/ unlink(c, f) \/ mkdir(c, f) \/ rmdir(c, f) \/ rename(c, f)
                \/ chmod(c, f) \/ chown(c, f) \/ symlink(c, f) \/ hardlink(c, f)
                \/ setstat(c, f)
  BY <1>1 DEF AnyRequest, unlink, mkdir, rmdir, rename, chmod, chown, symlink,
              hardlink, setstat
<1>2. CASE \E f \in Frames :
                \/ stat(c, f) \/ lstat(c, f) \/ readlink(c, f)
                \/ canonicalize_path(c, f) \/ expand_path(c, f) \/ home_directory(c, f)
  BY <1>2 DEF AnyRequest, stat, lstat, readlink, canonicalize_path, expand_path,
              home_directory
<1>3. CASE \E f \in Frames, h \in Objs :
                \/ open(c, f, h) \/ opendir(c, f, h)
                \/ read_some_at(c, f, h) \/ write_some_at(c, f, h) \/ do_read_(c, f, h)
                \/ file_close(c, f, h) \/ dir_close(c, f, h)
  BY <1>3 DEF AnyRequest, open, opendir, read_some_at, write_some_at, do_read_,
              file_close, dir_close
<1>4. CASE \/ \E h \in Files : CloseNull(c, "file_close", h)
           \/ \E h \in Dirs : CloseNull(c, "dir_close", h)
  BY <1>4 DEF AnyCloseNull
<1>5. QED
  BY <1>1, <1>2, <1>3, <1>4 DEF Invoke

(* The steps of Next that a proof has to consider, one per handler. *)
CallStep(c) ==
    \/ AnyRequest(c) \/ AnyCloseNull(c)
    \/ StartWrite(c) \/ Transmit(c) \/ FinishWrite(c) \/ LockFails(c)
    \/ WakeAnswered(c) \/ StartRead(c) \/ ReadPacket(c) \/ ReadRunt(c) \/ NullDeref(c)
    \/ \E ec \in {"connection_lost", "canceled"} :
            WriteFails(c, ec) \/ ReadFails(c, ec) \/ Spin(c, ec)

WorldStep ==
    \/ \E i \in toServer, b \in Replies : ServerReply(i, b)
    \/ ServerRunt \/ Break \/ Destroy \/ Done

(* Next is made of these steps. *)
LEMMA NextCases ==
    ASSUME Next
    PROVE  (\E c \in Calls : CallStep(c)) \/ WorldStep
<1>1. CASE \E c \in Calls : Invoke(c)
  BY <1>1, InvokeCases DEF CallStep
<1>2. CASE \E c \in Calls : Resume(c) \/ Cancel(c)
  BY <1>2 DEF Resume, Cancel, CallStep
<1>3. CASE Reply \/ ServerRunt \/ Break \/ Destroy \/ Done
  BY <1>3 DEF Reply, WorldStep
<1>4. QED
  BY <1>1, <1>2, <1>3 DEF Next

(* Every response class turns every reply into an error code. *)
LEMMA OutcomeType ==
    ASSUME NEW k \in Kinds, NEW b \in Body
    PROVE  Outcome(k, b) \in ErrorCodes
<1>1. b.code \in Codes
  BY DEF Body
<1>2. /\ CodeError(b.code) \in ErrorCodes
      /\ OnStatus(b) \in ErrorCodes
  BY <1>1 DEF CodeError, OnStatus, Parsed, ErrorCodes, Codes
<1>3. /\ status_response(b) \in ErrorCodes
      /\ handle_response(b) \in ErrorCodes
      /\ dir_entry_response(b) \in ErrorCodes
      /\ attrs_response(b) \in ErrorCodes
      /\ name_response(b) \in ErrorCodes
  BY <1>2 DEF status_response, handle_response, dir_entry_response, attrs_response,
              name_response, Parsed, ErrorCodes
<1>4. data_response(b) \in ErrorCodes
  BY <1>2 DEF data_response, Parsed, ErrorCodes
<1>5. QED
  BY <1>3, <1>4 DEF Outcome, Kinds

-----------------------------------------------------------------------------
(* Type correctness. *)

CallTypes ==
    /\ pc \in [Calls -> PCs]
    /\ op \in [Calls -> Operation]
    /\ id \in [Calls -> Ids \cup {NoId}]
    /\ frame \in [Calls -> Frames \cup {NULL}]
    /\ result \in [Calls -> ErrorCodes]
    /\ sess_ \in [Objs -> BOOLEAN]

QueueTypes ==
    /\ heap \in [Frames -> Response]
    /\ first \in Frames \cup {NULL}
    /\ last \in Frames \cup {NULL}
    /\ request_id_gen \in Nat

MutexTypes ==
    /\ read_mutex_ \in Seq(Calls)
    /\ write_mutex_ \in Seq(Calls)

StreamTypes ==
    /\ toServer \subseteq Ids
    /\ fromServer \in Seq(Packets \cup {Runt})
    /\ sent \subseteq Packets
    /\ up \in BOOLEAN

FateTypes ==
    /\ fate \in {"running", "spinning", "crashed", "destroyed"}
    /\ stale \in BOOLEAN

(* TypeOK, by the part of the state. *)
LEMMA TypeParts ==
    TypeOK <=> CallTypes /\ QueueTypes /\ MutexTypes /\ StreamTypes /\ FateTypes
BY DEF TypeOK, CallTypes, QueueTypes, MutexTypes, StreamTypes, FateTypes

(* Dereferencing responses leaves a fate and a history. *)
LEMMA TouchType ==
    ASSUME FateTypes, NEW fs, Touch(fs)
    PROVE  FateTypes'
BY DEF Touch, FateTypes

(* Both kinds of return keep the types of what they assign. *)
LEMMA ReturnType ==
    ASSUME CallTypes, NEW c \in Calls, NEW ec \in ErrorCodes,
           Return(c, ec) \/ Early(c, ec),
           UNCHANGED <<op, id, frame>>
    PROVE  CallTypes'
<1>1. pc' \in [Calls -> PCs] /\ result' \in [Calls -> ErrorCodes]
  BY DEF CallTypes, Return, Early, PCs
<1>2. sess_' \in [Objs -> BOOLEAN]
  BY DEF CallTypes, Return, Early
<1>3. QED
  BY <1>1, <1>2 DEF CallTypes

(* A new response is a response, and so is the one it is linked to. *)
LEMMA EnqueueType ==
    ASSUME QueueTypes, NEW f \in Frames, NEW kind \in Kinds, enqueue_response(f, kind)
    PROVE  QueueTypes'
<1>1. Construct(f, kind) \in [Frames -> Response]
  BY DEF QueueTypes, Construct, Response, Ids, NoId, ErrorCodes
<1>2. heap' \in [Frames -> Response]
  <2>1. CASE last = NULL
    BY <1>1, <2>1 DEF enqueue_response
  <2>2. CASE last # NULL
    <3> DEFINE h == Construct(f, kind)
    <3>1. heap' = [h EXCEPT ![last].next = f]
      BY <2>2 DEF enqueue_response
    <3>2. last \in Frames /\ h \in [Frames -> Response]
      BY <1>1, <2>2 DEF QueueTypes
    <3> HIDE DEF h
    <3>3. QED
      BY <3>1, <3>2 DEF Response
  <2>3. QED
    BY <2>1, <2>2
<1>3. QED
  BY <1>2 DEF QueueTypes, enqueue_response, NewFirst

(* Completing a response stores an error code in it. *)
LEMMA CompleteType ==
    ASSUME QueueTypes, NEW p \in Packets, complete(p)
    PROVE  QueueTypes'
<1>1. CASE UNCHANGED queueVars
  BY <1>1 DEF QueueTypes, queueVars
<1>2. CASE \E n \in Hits(p.request_id) :
             /\ last' = NewLast(hop[n])
             /\ heap' = [heap EXCEPT ![hop[n]].completed = TRUE,
                                     ![hop[n]].ec = Outcome(heap[hop[n]].kind, p.body)]
             /\ UNCHANGED <<first, request_id_gen>>
  <2>1. PICK n \in Hits(p.request_id) :
             /\ last' = NewLast(hop[n])
             /\ heap' = [heap EXCEPT ![hop[n]].completed = TRUE,
                                     ![hop[n]].ec = Outcome(heap[hop[n]].kind, p.body)]
             /\ UNCHANGED <<first, request_id_gen>>
    BY <1>2
  <2> DEFINE it == hop[n]
  <2> DEFINE ec == Outcome(heap[it].kind, p.body)
  <2>2. it \in Frames
    BY DEF Hits
  <2>3. ec \in ErrorCodes
    BY <2>2, OutcomeType DEF QueueTypes, Response, Packets
  <2>4. heap' = [heap EXCEPT ![it].completed = TRUE, ![it].ec = ec]
    BY <2>1
  <2>5. last' \in Frames \cup {NULL}
    BY <2>1 DEF NewLast, QueueTypes
  <2> HIDE DEF it, ec
  <2>6. heap' \in [Frames -> Response]
    BY <2>2, <2>3, <2>4 DEF QueueTypes, Response
  <2>7. QED
    BY <2>1, <2>5, <2>6 DEF QueueTypes
<1>3. QED
  BY <1>1, <1>2 DEF complete

(* So does cancelling them all. *)
LEMMA CancelType ==
    ASSUME QueueTypes, NEW ec \in ErrorCodes, cancel_all(ec)
    PROVE  QueueTypes'
<1>1. heap' \in [Frames -> Response]
  BY DEF QueueTypes, cancel_all, Response
<1>2. QED
  BY <1>1 DEF QueueTypes, cancel_all

-----------------------------------------------------------------------------
(* The mutexes. *)

(* A call holds, or waits for, a mutex exactly while its pc says so.        *)
Writers == {c \in Calls : pc[c] \in {"lock_write", "writing", "written"}}
Readers == {c \in Calls : pc[c] \in {"lock_read", "reading"}}

(* m lists the members of S, each once. *)
Lists(m, S) ==
    /\ m \in Seq(Calls)
    /\ \A c \in Calls : c \in S <=> \E k \in 1 .. Len(m) : m[k] = c
    /\ \A j, k \in 1 .. Len(m) : m[j] = m[k] => j = k

(* The first of the list is the only call that is past its lock(). *)
MutexInv ==
    /\ Lists(read_mutex_, Writers)
    /\ Lists(write_mutex_, Readers)
    /\ \A c \in Calls :
        /\ pc[c] \in {"writing", "written"} => c = read_mutex_[1]
        /\ pc[c] = "reading" => c = write_mutex_[1]

(* A call joins at the end. *)
LEMMA ListsAppend ==
    ASSUME NEW m, NEW S, NEW c \in Calls, Lists(m, S), S \subseteq Calls, c \notin S
    PROVE  /\ Lists(Append(m, c), S \cup {c})
           /\ S # {} => Append(m, c)[1] = m[1]
<1>1. m \in Seq(Calls) /\ Append(m, c) \in Seq(Calls)
  BY DEF Lists
<1>2. /\ Len(Append(m, c)) = Len(m) + 1
      /\ \A k \in 1 .. Len(m) : Append(m, c)[k] = m[k]
      /\ Append(m, c)[Len(m) + 1] = c
      /\ Len(m) \in Nat
  BY <1>1
<1>3. \A d \in Calls : d \in S \cup {c} =>
            \E k \in 1 .. Len(m) + 1 : Append(m, c)[k] = d
  <2>1. Len(m) + 1 \in 1 .. Len(m) + 1 /\ 1 .. Len(m) \subseteq 1 .. Len(m) + 1
    BY <1>2
  <2>2. QED
    BY <1>2, <2>1 DEF Lists
<1>4. \A k \in 1 .. Len(m) + 1 : Append(m, c)[k] \in S \cup {c}
  BY <1>1, <1>2 DEF Lists
<1>5. \A j, k \in 1 .. Len(m) + 1 : Append(m, c)[j] = Append(m, c)[k] => j = k
  BY <1>1, <1>2 DEF Lists
<1>6. S # {} => Append(m, c)[1] = m[1]
  <2>1. S # {} => Len(m) >= 1
    BY <1>2 DEF Lists
  <2>2. QED
    BY <1>2, <2>1
<1>7. QED
  BY <1>1, <1>2, <1>3, <1>4, <1>5, <1>6 DEF Lists

(* The owner leaves its mutex. *)
LEMMA ListsTail ==
    ASSUME NEW m, NEW S, NEW c \in S, Lists(m, S), S \subseteq Calls, c = m[1]
    PROVE  Lists(Tail(m), S \ {c})
<1>1. /\ m \in Seq(Calls)
      /\ Len(m) \in Nat /\ Len(m) >= 1
  BY DEF Lists
<1>2. /\ Tail(m) \in Seq(Calls)
      /\ Len(Tail(m)) = Len(m) - 1
      /\ \A k \in 1 .. Len(m) - 1 : Tail(m)[k] = m[k + 1]
  BY <1>1
<1>3. \A d \in Calls : d \in S \ {c} => \E k \in 1 .. Len(m) - 1 : m[k + 1] = d
  <2> SUFFICES ASSUME NEW d \in S, d # c
               PROVE  \E k \in 1 .. Len(m) - 1 : m[k + 1] = d
    OBVIOUS
  <2>1. PICK j \in 1 .. Len(m) : m[j] = d
    BY DEF Lists
  <2>2. j # 1 /\ (j - 1) + 1 = j /\ j - 1 \in 1 .. Len(m) - 1
    BY <1>1, <2>1
  <2>3. QED
    BY <2>1, <2>2
<1>4. \A k \in 1 .. Len(m) - 1 : m[k + 1] \in S \ {c}
  BY <1>1 DEF Lists
<1>5. \A j, k \in 1 .. Len(m) - 1 : m[j + 1] = m[k + 1] => j = k
  BY <1>1 DEF Lists
<1>6. QED
  BY <1>2, <1>3, <1>4, <1>5 DEF Lists

(* A waiter leaves, the owner stays. *)
LEMMA ListsWithout ==
    ASSUME NEW m, NEW S, Lists(m, S), S \subseteq Calls, NEW k \in 2 .. Len(m)
    PROVE  /\ Lists(Without(m, k), S \ {m[k]})
           /\ Without(m, k)[1] = m[1]
<1>1. /\ m \in Seq(Calls)
      /\ Len(m) \in Nat /\ Len(m) >= 2
  BY DEF Lists
<1>2. /\ Without(m, k) \in Seq(Calls)
      /\ Len(Without(m, k)) = Len(m) - 1
      /\ \A j \in 1 .. Len(m) - 1 : Without(m, k)[j] = IF j < k THEN m[j] ELSE m[j + 1]
  BY <1>1 DEF Without
<1>3. \A d \in Calls : d \in S \ {m[k]} =>
            \E j \in 1 .. Len(m) - 1 : Without(m, k)[j] = d
  <2> SUFFICES ASSUME NEW d \in S, d # m[k]
               PROVE  \E j \in 1 .. Len(m) - 1 : Without(m, k)[j] = d
    OBVIOUS
  <2>1. PICK j \in 1 .. Len(m) : m[j] = d
    BY DEF Lists
  <2>2. CASE j < k
    <3>1. j \in 1 .. Len(m) - 1
      BY <1>1, <2>2
    <3>2. QED
      BY <1>2, <2>1, <2>2, <3>1
  <2>3. CASE j > k
    <3>1. j - 1 \in 1 .. Len(m) - 1 /\ ~(j - 1 < k) /\ (j - 1) + 1 = j
      BY <1>1, <2>3
    <3>2. QED
      BY <1>2, <2>1, <3>1
  <2>4. QED
    BY <2>1, <2>2, <2>3
<1>4. \A j \in 1 .. Len(m) - 1 : Without(m, k)[j] \in S \ {m[k]}
  BY <1>1, <1>2 DEF Lists
<1>5. \A i, j \in 1 .. Len(m) - 1 : Without(m, k)[i] = Without(m, k)[j] => i = j
  BY <1>1, <1>2 DEF Lists
<1>6. Without(m, k)[1] = m[1]
  BY <1>1, <1>2
<1>7. QED
  BY <1>2, <1>3, <1>4, <1>5, <1>6 DEF Lists

(* A step that moves one call from place to place. *)
Moves(c, to) == pc' = [pc EXCEPT ![c] = to]

(* The mutexes and pc agree after every step of a call. *)
LEMMA MutexCallStep ==
    ASSUME pc \in [Calls -> PCs], MutexInv, NEW c \in Calls, CallStep(c)
    PROVE  MutexInv'
<1> DEFINE R == read_mutex_
<1> DEFINE W == write_mutex_
<1>0. /\ Writers \subseteq Calls /\ Readers \subseteq Calls
      /\ Lists(R, Writers) /\ Lists(W, Readers)
      /\ pc[c] \in {"writing", "written"} => c = R[1]
      /\ pc[c] = "reading" => c = W[1]
  BY DEF Writers, Readers, MutexInv
<1>h. /\ c \in Writers => (R # <<>> /\ Head(R) = R[1])
      /\ c \in Readers => (W # <<>> /\ Head(W) = W[1])
  BY <1>0 DEF Lists
(* pc moves within the calls that hold or want the same mutex. *)
<1>stay. ASSUME NEW to, Moves(c, to), UNCHANGED <<read_mutex_, write_mutex_>>,
                \/ pc[c] \in {"lock_write", "writing"} /\ to \in {"writing", "written"}
                                                       /\ c = R[1]
                \/ pc[c] = "lock_read" /\ to = "reading" /\ c = W[1]
                \/ pc[c] = "idle" /\ to = "returned"
         PROVE  MutexInv'
  <2>1. Writers' = Writers /\ Readers' = Readers
    BY <1>stay DEF Writers, Readers, Moves
  <2>2. QED
    BY <1>0, <1>stay, <2>1 DEF MutexInv, Moves
(* The owner of read_mutex_ unlocks it, and returns or wants write_mutex_. *)
<1>written. ASSUME pc[c] \in {"writing", "written"}, read_mutex_' = Tail(read_mutex_),
                   \/ Moves(c, "returned") /\ UNCHANGED write_mutex_
                   \/ Moves(c, "lock_read") /\ write_mutex_' = Append(write_mutex_, c)
            PROVE  MutexInv'
  <2>1. c \in Writers /\ c \notin Readers
    BY <1>written DEF Writers, Readers
  <2>2. Writers' = Writers \ {c}
    BY <1>written DEF Writers, Moves
  <2>3. Lists(read_mutex_', Writers')
    BY <1>0, <1>written, <2>1, <2>2, ListsTail
  <2>4. \A d \in Calls : pc'[d] \notin {"writing", "written"}
    BY <1>written DEF MutexInv, Moves
  <2>5. CASE Moves(c, "returned") /\ UNCHANGED write_mutex_
    <3>1. Readers' = Readers
      BY <1>written, <2>5 DEF Readers, Moves
    <3>2. QED
      BY <2>3, <2>4, <2>5, <3>1 DEF MutexInv, Moves
  <2>6. CASE Moves(c, "lock_read") /\ write_mutex_' = Append(write_mutex_, c)
    <3>1. Readers' = Readers \cup {c}
      BY <1>written, <2>6 DEF Readers, Moves
    <3>2. Lists(write_mutex_', Readers') /\ (Readers # {} => write_mutex_'[1] = W[1])
      BY <1>0, <2>1, <2>6, <3>1, ListsAppend
    <3>3. \A d \in Calls : pc'[d] = "reading" => d = write_mutex_'[1]
      <4>1. \A d \in Calls : pc'[d] = "reading" => pc[d] = "reading" /\ d \in Readers
        BY <2>6 DEF Moves, Readers
      <4>2. QED
        BY <3>2, <4>1 DEF MutexInv
    <3>4. QED
      BY <2>3, <2>4, <3>2, <3>3 DEF MutexInv
  <2>7. QED
    BY <1>written, <2>5, <2>6
(* The owner of write_mutex_ unlocks it, and returns or queues again. *)
<1>read. ASSUME c \in Readers, c = W[1], UNCHANGED read_mutex_,
                \/ Moves(c, "returned") /\ write_mutex_' = Tail(write_mutex_)
                \/ Moves(c, "lock_read") /\ write_mutex_' = Append(Tail(write_mutex_), c)
         PROVE  MutexInv'
  <2>1. Writers' = Writers
    BY <1>read DEF Writers, Readers, Moves
  <2>2. \A d \in Calls : pc'[d] # "reading"
    BY <1>read DEF MutexInv, Moves
  <2>3. Lists(Tail(W), Readers \ {c})
    BY <1>0, <1>read, ListsTail
  <2>4. Lists(write_mutex_', Readers')
    <3>1. CASE Moves(c, "returned") /\ write_mutex_' = Tail(write_mutex_)
      <4>1. Readers' = Readers \ {c}
        BY <3>1 DEF Readers, Moves
      <4>2. QED
        BY <2>3, <3>1, <4>1
    <3>2. CASE Moves(c, "lock_read") /\ write_mutex_' = Append(Tail(write_mutex_), c)
      <4>1. Readers' = (Readers \ {c}) \cup {c}
        BY <1>read, <3>2 DEF Readers, Moves
      <4>2. QED
        BY <1>0, <2>3, <3>2, <4>1, ListsAppend
    <3>3. QED
      BY <1>read, <3>1, <3>2
  <2>5. \A d \in Calls : pc'[d] \in {"writing", "written"} => d = read_mutex_'[1]
    BY <1>read DEF MutexInv, Moves
  <2>6. QED
    BY <1>read, <1>0, <2>1, <2>2, <2>4, <2>5 DEF MutexInv
<1>1. CASE AnyRequest(c)
  <2>1. /\ pc[c] = "idle" /\ Moves(c, "lock_write")
        /\ read_mutex_' = Append(read_mutex_, c) /\ UNCHANGED write_mutex_
    BY <1>1 DEF AnyRequest, Request, Moves
  <2>2. Writers' = Writers \cup {c} /\ Readers' = Readers /\ c \notin Writers
    BY <2>1 DEF Writers, Readers, Moves
  <2>3. Lists(read_mutex_', Writers') /\ (Writers # {} => read_mutex_'[1] = R[1])
    BY <1>0, <2>1, <2>2, ListsAppend
  <2>4. \A d \in Calls : pc'[d] \in {"writing", "written"} => d = read_mutex_'[1]
    <3>1. \A d \in Calls : pc'[d] \in {"writing", "written"} =>
                pc[d] \in {"writing", "written"} /\ d \in Writers
      BY <2>1 DEF Moves, Writers
    <3>2. QED
      BY <2>3, <3>1 DEF MutexInv
  <2>5. \A d \in Calls : pc'[d] = "reading" => d = write_mutex_'[1]
    BY <2>1 DEF MutexInv, Moves
  <2>6. QED
    BY <1>0, <2>1, <2>2, <2>3, <2>4, <2>5 DEF MutexInv
<1>2. CASE AnyCloseNull(c)
  BY <1>2, <1>stay DEF AnyCloseNull, CloseNull, Moves
<1>3. CASE StartWrite(c)
  BY <1>3, <1>stay, <1>h DEF StartWrite, Moves, Owns, Writers
<1>4. CASE Transmit(c)
  BY <1>4, <1>0, <1>stay DEF Transmit, Moves
<1>5. CASE FinishWrite(c)
  BY <1>5, <1>written DEF FinishWrite, Return, Moves
<1>6. CASE \E ec \in {"connection_lost", "canceled"} : WriteFails(c, ec)
  BY <1>6, <1>written DEF WriteFails, Early, Moves
<1>7. CASE LockFails(c)
  <2>1. Moves(c, "returned")
    BY <1>7 DEF LockFails, Early, Moves
  <2>2. CASE pc[c] = "lock_write" /\ UNCHANGED write_mutex_ /\
             \E k \in 2 .. Len(read_mutex_) :
                read_mutex_[k] = c /\ read_mutex_' = Without(read_mutex_, k)
    <3>1. Writers' = Writers \ {c} /\ Readers' = Readers
      BY <2>1, <2>2 DEF Writers, Readers, Moves
    <3>2. Lists(read_mutex_', Writers') /\ read_mutex_'[1] = R[1]
      BY <1>0, <2>2, <3>1, ListsWithout
    <3>3. QED
      BY <1>0, <2>1, <2>2, <3>1, <3>2 DEF MutexInv, Moves
  <2>3. CASE pc[c] = "lock_read" /\ UNCHANGED read_mutex_ /\
             \E k \in 2 .. Len(write_mutex_) :
                write_mutex_[k] = c /\ write_mutex_' = Without(write_mutex_, k)
    <3>1. Writers' = Writers /\ Readers' = Readers \ {c}
      BY <2>1, <2>3 DEF Writers, Readers, Moves
    <3>2. Lists(write_mutex_', Readers') /\ write_mutex_'[1] = W[1]
      BY <1>0, <2>3, <3>1, ListsWithout
    <3>3. QED
      BY <1>0, <2>1, <2>3, <3>1, <3>2 DEF MutexInv, Moves
  <2>4. QED
    BY <1>7, <2>2, <2>3 DEF LockFails
<1>8. CASE WakeAnswered(c)
  BY <1>8, <1>h, <1>read DEF WakeAnswered, Return, Moves, Owns, Readers
<1>9. CASE StartRead(c)
  BY <1>9, <1>stay, <1>h DEF StartRead, Moves, Owns, Readers
<1>10. CASE ReadPacket(c)
  BY <1>10, <1>0, <1>read DEF ReadPacket, Reading, Loop, Return, Moves, Readers
<1>11. CASE ReadRunt(c)
  BY <1>11, <1>0, <1>read DEF ReadRunt, Reading, BreakLoop, Return, Moves, Readers
<1>12. CASE \E ec \in {"connection_lost", "canceled"} : ReadFails(c, ec)
  BY <1>12, <1>0, <1>read DEF ReadFails, Reading, BreakLoop, Return, Moves, Readers
<1>13. CASE NullDeref(c) \/ \E ec \in {"connection_lost", "canceled"} : Spin(c, ec)
  <2>1. UNCHANGED <<pc, read_mutex_, write_mutex_>>
    BY <1>13 DEF NullDeref, Spin, callVars
  <2>2. QED
    BY <2>1 DEF MutexInv, Writers, Readers
<1>14. QED
  BY <1>1, <1>2, <1>3, <1>4, <1>5, <1>6, <1>7, <1>8, <1>9, <1>10, <1>11, <1>12, <1>13
     DEF CallStep

(* What is left of the steps moves no call and no mutex. *)
LEMMA WorldKeepsCalls ==
    ASSUME WorldStep \/ UNCHANGED vars
    PROVE  UNCHANGED <<callVars, read_mutex_, write_mutex_, sess_>>
BY DEF WorldStep, ServerReply, ServerRunt, Break, Destroy, Done, vars

(* The mutexes and pc always agree. *)
LEMMA MutexStep ==
    ASSUME pc \in [Calls -> PCs], MutexInv, [Next]_vars
    PROVE  MutexInv'
<1>1. CASE \E c \in Calls : CallStep(c)
  BY <1>1, MutexCallStep
<1>2. CASE WorldStep \/ UNCHANGED vars
  <2>1. UNCHANGED <<pc, read_mutex_, write_mutex_>>
    BY <1>2, WorldKeepsCalls DEF callVars
  <2>2. QED
    BY <2>1 DEF MutexInv, Writers, Readers
<1>3. QED
  BY <1>1, <1>2, NextCases

-----------------------------------------------------------------------------
(* The types again. *)

(* The initial state has the types. *)
LEMMA TypeInit == Init => TypeOK
<1> SUFFICES ASSUME Init PROVE TypeOK
  OBVIOUS
<1>1. CallTypes
  <2>1. [name |-> "stat", response |-> "attrs", obj |-> NULL] \in Operation
    BY DEF Operation, AllOps, PathOps, Kinds
  <2>2. /\ pc \in [Calls -> PCs] /\ op \in [Calls -> Operation]
        /\ id \in [Calls -> Ids \cup {NoId}] /\ frame \in [Calls -> Frames \cup {NULL}]
        /\ result \in [Calls -> ErrorCodes] /\ sess_ \in [Objs -> BOOLEAN]
    BY <2>1 DEF Init, PCs, ErrorCodes
  <2>3. QED
    BY <2>2 DEF CallTypes
<1>2. QueueTypes
  BY DEF Init, QueueTypes, Response, Kinds, ErrorCodes
<1>3. MutexTypes
  BY DEF Init, MutexTypes
<1>4. StreamTypes
  BY DEF Init, StreamTypes
<1>5. FateTypes
  BY DEF Init, FateTypes
<1>6. QED
  BY <1>1, <1>2, <1>3, <1>4, <1>5, TypeParts

(* Nobody holds a mutex, or wants one. *)
LEMMA MutexInit == Init => MutexInv
BY DEF Init, MutexInv, Lists, Writers, Readers

(* A call in progress has a frame and an id. *)
FrameType == \A c \in Live : frame[c] \in Frames /\ id[c] \in Ids

(* A call gets its frame with its request and keeps it. *)
LEMMA FrameStep ==
    ASSUME CallTypes, QueueTypes, FrameType, [Next]_vars
    PROVE  FrameType'
<1>1. ASSUME NEW c \in Calls, CallStep(c)
      PROVE  FrameType'
  <2>1. CASE AnyRequest(c)
    <3>1. PICK f \in Frames : frame' = [frame EXCEPT ![c] = f]
      BY <2>1 DEF AnyRequest, Request
    <3>2. /\ pc' = [pc EXCEPT ![c] = "lock_write"]
          /\ id' = [id EXCEPT ![c] = request_id_gen]
          /\ request_id_gen \in Ids
      BY <2>1 DEF AnyRequest, Request, QueueTypes, Ids
    <3>3. QED
      BY <3>1, <3>2 DEF FrameType, Live, CallTypes
  <2>2. CASE AnyCloseNull(c)
    BY <2>2 DEF AnyCloseNull, CloseNull, FrameType, Live, CallTypes
  <2>3. CASE UNCHANGED <<frame, id>> /\ Live' \subseteq Live
    BY <2>3 DEF FrameType
  <2>4. CASE \/ StartWrite(c) \/ Transmit(c) \/ FinishWrite(c) \/ LockFails(c)
             \/ WakeAnswered(c) \/ StartRead(c) \/ NullDeref(c)
             \/ \E ec \in {"connection_lost", "canceled"} : WriteFails(c, ec)
    <3>1. UNCHANGED <<frame, id>> /\ Live' \subseteq Live
      BY <2>4 DEF StartWrite, Transmit, FinishWrite, LockFails, WakeAnswered, StartRead,
                  NullDeref, WriteFails, Early, Return, Live, CallTypes, callVars
    <3>2. QED
      BY <2>3, <3>1
  <2>5. CASE \/ ReadPacket(c) \/ ReadRunt(c)
             \/ \E ec \in {"connection_lost", "canceled"} : ReadFails(c, ec) \/ Spin(c, ec)
    <3>1. UNCHANGED <<frame, id>> /\ Live' \subseteq Live
      BY <2>5 DEF ReadPacket, ReadRunt, ReadFails, Spin, Reading, Loop, BreakLoop, Return,
                  Live, CallTypes, callVars
    <3>2. QED
      BY <2>3, <3>1
  <2>6. QED
    BY <1>1, <2>1, <2>2, <2>4, <2>5 DEF CallStep
<1>2. CASE WorldStep \/ UNCHANGED vars
  BY <1>2, WorldKeepsCalls DEF callVars, FrameType, Live
<1>3. QED
  BY <1>1, <1>2, NextCases

(* A step of a call keeps the types of the calls, ... *)
LEMMA CallTypesStep ==
    ASSUME TypeOK, FrameType, NEW c \in Calls, CallStep(c), QueueTypes'
    PROVE  CallTypes'
<1>0. CallTypes /\ QueueTypes
  BY TypeParts
<1>ec. /\ c \in Live => heap[frame[c]].ec \in ErrorCodes
       /\ c \in Live => heap'[frame[c]].ec \in ErrorCodes
  BY <1>0 DEF QueueTypes, FrameType, Response
<1>move. ASSUME NEW to \in PCs, pc' = [pc EXCEPT ![c] = to],
                UNCHANGED <<op, id, frame, result, sess_>>
         PROVE  CallTypes'
  BY <1>0, <1>move DEF CallTypes
<1>1. CASE AnyRequest(c)
  <2>1. PICK f \in Frames, name \in AllOps, response \in Kinds, obj \in Objs \cup {NULL} :
            Request(c, f, name, response, obj)
    BY <1>1 DEF AnyRequest
  <2>2. /\ [name |-> name, response |-> response, obj |-> obj] \in Operation
        /\ request_id_gen \in Ids
    BY <1>0 DEF Operation, QueueTypes, Ids
  <2>3. QED
    BY <1>0, <2>1, <2>2 DEF Request, CallTypes, PCs
<1>2. CASE AnyCloseNull(c)
  <2>1. PICK name \in Closes, h \in Objs : CloseNull(c, name, h)
    BY <1>2 DEF AnyCloseNull
  <2>2. [name |-> name, response |-> "status", obj |-> h] \in Operation
    BY DEF Operation, AllOps, HandleOps, Kinds
  <2>3. QED
    BY <1>0, <2>1, <2>2 DEF CloseNull, CallTypes, PCs
<1>3. CASE StartWrite(c) \/ Transmit(c) \/ StartRead(c)
  BY <1>3, <1>move DEF StartWrite, Transmit, StartRead, PCs
<1>4. CASE FinishWrite(c)
  <2>1. c \in Live /\ UNCHANGED <<op, id, frame>>
    BY <1>4 DEF FinishWrite, Live
  <2>2. CASE Return(c, heap[frame[c]].ec)
    BY <1>0, <1>ec, <2>1, <2>2, ReturnType
  <2>3. CASE pc' = [pc EXCEPT ![c] = "lock_read"] /\ UNCHANGED <<result, sess_>>
    BY <1>move, <2>1, <2>3 DEF PCs
  <2>4. QED
    BY <1>4, <2>2, <2>3 DEF FinishWrite
<1>5. CASE WakeAnswered(c)
  <2>1. c \in Live /\ UNCHANGED <<op, id, frame>> /\ Return(c, heap[frame[c]].ec)
    BY <1>5 DEF WakeAnswered, Live
  <2>2. QED
    BY <1>0, <1>ec, <2>1, ReturnType
<1>6. CASE LockFails(c) \/ \E ec \in {"connection_lost", "canceled"} : WriteFails(c, ec)
  <2>1. PICK ec \in {"connection_lost", "canceled"} : Early(c, ec) /\ UNCHANGED <<op, id, frame>>
    BY <1>6 DEF LockFails, WriteFails
  <2>2. ec \in ErrorCodes
    BY DEF ErrorCodes, TransportErrors
  <2>3. QED
    BY <1>0, <2>1, <2>2, ReturnType
<1>7. CASE \/ ReadPacket(c) \/ ReadRunt(c)
           \/ \E ec \in {"connection_lost", "canceled"} : ReadFails(c, ec)
  <2>1. c \in Live /\ UNCHANGED <<op, id, frame>> /\ (Loop(c) \/ BreakLoop(c))
    BY <1>7 DEF ReadPacket, ReadRunt, ReadFails, Reading, Live
  <2>2. CASE Return(c, heap'[frame[c]].ec)
    BY <1>0, <1>ec, <2>1, <2>2, ReturnType
  <2>3. CASE pc' = [pc EXCEPT ![c] = "lock_read"] /\ UNCHANGED <<result, sess_>>
    BY <1>move, <2>1, <2>3 DEF PCs
  <2>4. QED
    BY <2>1, <2>2, <2>3 DEF Loop, BreakLoop
<1>8. CASE NullDeref(c) \/ \E ec \in {"connection_lost", "canceled"} : Spin(c, ec)
  BY <1>0, <1>8 DEF NullDeref, Spin, CallTypes, callVars
<1>9. QED
  BY <1>1, <1>2, <1>3, <1>4, <1>5, <1>6, <1>7, <1>8 DEF CallStep

(* ... of the queue and the fate, ... *)
LEMMA QueueTypesStep ==
    ASSUME TypeOK, NEW c \in Calls, CallStep(c)
    PROVE  QueueTypes' /\ FateTypes'
<1>0. QueueTypes /\ StreamTypes /\ FateTypes
  BY TypeParts
<1>1. CASE AnyRequest(c)
  <2>1. PICK f \in Frames, kind \in Kinds :
            enqueue_response(f, kind)
    BY <1>1 DEF AnyRequest, Request
  <2>2. FateTypes'
    BY <1>0, <2>1, TouchType DEF enqueue_response
  <2>3. QED
    BY <1>0, <2>1, <2>2, EnqueueType
<1>2. CASE ReadPacket(c)
  <2>1. Head(fromServer) \in Packets
    BY <1>0, <1>2 DEF StreamTypes, ReadPacket
  <2>2. complete(Head(fromServer))
    BY <1>2 DEF ReadPacket
  <2>3. QED
    BY <1>0, <2>1, <2>2, CompleteType, TouchType DEF complete
<1>3. CASE \E ec \in {"connection_lost", "canceled"} : ReadFails(c, ec)
  <2>1. PICK ec \in {"connection_lost", "canceled"} : cancel_all(ec) /\ Touch(Chain)
    BY <1>3 DEF ReadFails
  <2>2. ec \in ErrorCodes
    BY DEF ErrorCodes, TransportErrors
  <2>3. QED
    BY <1>0, <2>1, <2>2, CancelType, TouchType
<1>4. CASE NullDeref(c) \/ \E ec \in {"connection_lost", "canceled"} : Spin(c, ec)
  BY <1>0, <1>4 DEF NullDeref, Spin, QueueTypes, FateTypes, queueVars
<1>5. CASE UNCHANGED <<queueVars, fate, stale>>
  BY <1>0, <1>5 DEF QueueTypes, FateTypes, queueVars
<1>6. QED
  BY <1>1, <1>2, <1>3, <1>4, <1>5
     DEF CallStep, AnyCloseNull, CloseNull, StartWrite, Transmit, FinishWrite, LockFails,
         WakeAnswered, StartRead, ReadRunt, WriteFails

(* ... and of the stream. *)
LEMMA StreamTypesStep ==
    ASSUME TypeOK, FrameType, NEW c \in Calls, CallStep(c)
    PROVE  StreamTypes'
<1>0. StreamTypes
  BY TypeParts
<1>1. CASE Transmit(c)
  <2>1. id[c] \in Ids
    BY <1>1 DEF Transmit, FrameType, Live
  <2>2. QED
    BY <1>0, <1>1, <2>1 DEF Transmit, Sends, StreamTypes
<1>2. CASE ReadPacket(c)
  <2>1. Tail(fromServer) \in Seq(Packets \cup {Runt})
    BY <1>0, <1>2 DEF StreamTypes, ReadPacket
  <2>2. QED
    BY <1>0, <1>2, <2>1 DEF ReadPacket, StreamTypes
<1>3. CASE UNCHANGED streamVars
  BY <1>0, <1>3 DEF StreamTypes, streamVars
<1>4. QED
  BY <1>1, <1>2, <1>3
     DEF CallStep, AnyRequest, Request, AnyCloseNull, CloseNull, StartWrite, FinishWrite,
         LockFails, WakeAnswered, StartRead, ReadRunt, WriteFails, ReadFails, Spin,
         NullDeref, streamVars

(* The server, a lost connection and the end of the session keep them too. *)
LEMMA WorldTypesStep ==
    ASSUME TypeOK, WorldStep \/ UNCHANGED vars
    PROVE  CallTypes' /\ QueueTypes' /\ StreamTypes' /\ FateTypes'
<1>0. CallTypes /\ QueueTypes /\ StreamTypes /\ FateTypes
  BY TypeParts
<1>1. CallTypes'
  BY <1>0, WorldKeepsCalls DEF CallTypes, callVars
<1>2. CASE Destroy
  <2>1. QueueTypes'
    <3>1. "broken_pipe" \in ErrorCodes
      BY DEF ErrorCodes, TransportErrors
    <3>2. QED
      BY <1>0, <1>2, <3>1, CancelType DEF Destroy, QueueTypes, queueVars
  <2>2. StreamTypes'
    BY <1>0, <1>2 DEF Destroy, StreamTypes, streamVars
  <2>3. fate' \in {"running", "spinning", "crashed", "destroyed"}
    BY <1>2 DEF Destroy
  <2>4. stale' \in BOOLEAN
    BY <1>2 DEF Destroy
  <2>5. QED
    BY <1>1, <2>1, <2>2, <2>3, <2>4 DEF FateTypes
<1>3. CASE \/ \E i \in toServer, b \in Replies : ServerReply(i, b)
           \/ ServerRunt \/ Break
  <2>1. QueueTypes' /\ FateTypes'
    BY <1>0, <1>3 DEF ServerReply, ServerRunt, Break, QueueTypes, FateTypes, queueVars
  <2>2. CASE \E i \in toServer, b \in Replies : ServerReply(i, b)
    <3>1. PICK i \in toServer, b \in Replies : ServerReply(i, b)
      BY <2>2
    <3> DEFINE p == [request_id |-> i, body |-> b]
    <3>2. p \in Packets
      BY <1>0, ClientAssumption DEF Packets, StreamTypes
    <3>3. Append(fromServer, p) \in Seq(Packets \cup {Runt})
      BY <1>0, <3>2 DEF StreamTypes
    <3>4. StreamTypes'
      BY <1>0, <3>1, <3>2, <3>3 DEF ServerReply, StreamTypes
    <3>5. QED
      BY <1>1, <2>1, <3>4
  <2>3. CASE ServerRunt
    <3>1. Append(fromServer, Runt) \in Seq(Packets \cup {Runt})
      BY <1>0 DEF StreamTypes
    <3>2. StreamTypes'
      BY <1>0, <2>3, <3>1 DEF ServerRunt, StreamTypes
    <3>3. QED
      BY <1>1, <2>1, <3>2
  <2>4. CASE Break
    <3>1. fromServer' \in Seq(Packets \cup {Runt})
      BY <1>0, <2>4 DEF Break, StreamTypes
    <3>2. StreamTypes'
      BY <1>0, <2>4, <3>1 DEF Break, StreamTypes
    <3>3. QED
      BY <1>1, <2>1, <3>2
  <2>5. QED
    BY <1>3, <2>2, <2>3, <2>4
<1>4. CASE UNCHANGED vars
  BY <1>0, <1>1, <1>4 DEF vars, QueueTypes, StreamTypes, FateTypes, queueVars, streamVars
<1>5. QED
  BY <1>2, <1>3, <1>4 DEF WorldStep, Done

(* Types, mutexes and frames are preserved together. *)
LEMMA TypeStep ==
    ASSUME TypeOK, MutexInv, FrameType, [Next]_vars
    PROVE  TypeOK' /\ MutexInv' /\ FrameType'
<1>0. CallTypes /\ QueueTypes
  BY TypeParts
<1>1. MutexInv' /\ MutexTypes'
  BY <1>0, MutexStep DEF CallTypes, MutexInv, Lists, MutexTypes
<1>2. FrameType'
  BY <1>0, FrameStep
<1>3. CallTypes' /\ QueueTypes' /\ StreamTypes' /\ FateTypes'
  BY NextCases, WorldTypesStep, CallTypesStep, QueueTypesStep, StreamTypesStep
<1>4. TypeOK'
  BY <1>1, <1>3 DEF TypeOK, CallTypes, QueueTypes, MutexTypes, StreamTypes, FateTypes
<1>5. QED
  BY <1>1, <1>2, <1>4

(* Every variable of the client keeps its type: in particular unlock() is   *)
(* never called on a mutex that nobody holds, and the ids and responses     *)
(* that resumed coroutines use exist.                                       *)
THEOREM TypeCorrect == Spec => [](TypeOK /\ MutexInv /\ FrameType)
<1>1. Init => TypeOK /\ MutexInv /\ FrameType
  BY TypeInit, MutexInit DEF Init, FrameType, Live
<1>2. TypeOK /\ MutexInv /\ FrameType /\ [Next]_vars => (TypeOK /\ MutexInv /\ FrameType)'
  BY TypeStep
<1>3. QED
  BY <1>1, <1>2, PTL DEF Spec

-----------------------------------------------------------------------------
(* The stream is shared correctly. *)

(* One call writes and one reads, whatever the other calls do or fail at:   *)
(* only the first in a mutex's queue is past its lock().                    *)
THEOREM StreamIsExclusive == Spec => []StreamExclusive
<1>1. MutexInv => StreamExclusive
  BY DEF MutexInv, StreamExclusive
<1>2. QED
  BY <1>1, TypeCorrect, PTL

(* There is always a reader while anyone waits to read: the owner of the    *)
(* lock is never a call that has returned.                                  *)
THEOREM SomeoneAlwaysReads == Spec => []SomeoneReads
<1>1. MutexInv => SomeoneReads
  <2> SUFFICES ASSUME MutexInv, NEW c \in Calls, pc[c] = "lock_read"
               PROVE  /\ write_mutex_ # <<>>
                      /\ pc[Head(write_mutex_)] \in {"lock_read", "reading"}
    BY DEF SomeoneReads
  <2>1. Lists(write_mutex_, Readers) /\ c \in Readers
    BY DEF MutexInv, Readers
  <2>2. /\ write_mutex_ \in Seq(Calls) /\ Len(write_mutex_) >= 1
        /\ Head(write_mutex_) = write_mutex_[1]
    BY <2>1 DEF Lists
  <2>3. write_mutex_[1] \in Calls /\ 1 \in 1 .. Len(write_mutex_)
    BY <2>2
  <2>4. write_mutex_[1] \in Readers
    BY <2>1, <2>3 DEF Lists
  <2>5. QED
    BY <2>2, <2>4 DEF Readers
<1>2. QED
  BY <1>1, TypeCorrect, PTL

-----------------------------------------------------------------------------
(* No cross-talk. *)

(* The response r belongs to call c: it waits for c's id with c's class,    *)
(* and what it was completed with, if it was, is c's own answer.            *)
OwnResponse(c, r) ==
    /\ r.request_id = id[c]
    /\ r.kind = op[c].response
    /\ r.completed /\ r.ec \notin TransportErrors => Answered(c, r.ec)
    /\ ~r.completed => r.ec = "success"

ResponsesOwn == \A c \in Live : OwnResponse(c, heap[frame[c]])

(* What is on its way to the client was sent by the server. *)
PacketsSent == \A k \in 1 .. Len(fromServer) :
                    fromServer[k] = Runt \/ fromServer[k] \in sent

ResultsOwn ==
    \A c \in Calls : pc[c] = "returned" /\ result[c] \notin TransportErrors \cup {"success"}
                        => Answered(c, result[c])

(* A call that was not made has no result. *)
IdleFresh == \A c \in Calls : pc[c] = "idle" => result[c] = "success" /\ id[c] = NoId

(* AnswerIsOwn, made inductive. *)
AnswerInv == ResponsesOwn /\ PacketsSent /\ ResultsOwn /\ IdleFresh

(* A step leaves the responses of the calls in progress their own. *)
KeepsOwn == \A c \in Live : OwnResponse(c, heap'[frame[c]])

(* A new response is built in a frame that no call in progress has. *)
LEMMA EnqueueKeepsOwn ==
    ASSUME TypeOK, FrameType, ResponsesOwn, NEW f \in Frames, f \notin Held,
           NEW kind \in Kinds, enqueue_response(f, kind)
    PROVE  /\ KeepsOwn
           /\ heap'[f].request_id = request_id_gen
           /\ heap'[f].kind = kind
           /\ ~heap'[f].completed
           /\ heap'[f].ec = "success"
<1> DEFINE h == Construct(f, kind)
<1>1. /\ h \in [Frames -> Response]
      /\ h[f] = [request_id |-> request_id_gen, next |-> NULL, kind |-> kind,
                 completed |-> FALSE, ec |-> "success"]
      /\ \A g \in Frames : g # f => h[g] = heap[g]
  BY DEF TypeOK, Construct, Response, Ids, ErrorCodes
<1>2. \A g \in Frames : /\ heap'[g].request_id = h[g].request_id
                        /\ heap'[g].kind = h[g].kind
                        /\ heap'[g].completed = h[g].completed
                        /\ heap'[g].ec = h[g].ec
  <2> HIDE DEF h
  <2>1. CASE last = NULL
    <3>1. heap' = h
      BY <2>1 DEF enqueue_response, h
    <3>2. QED
      BY <3>1
  <2>2. CASE last # NULL
    <3>1. heap' = [h EXCEPT ![last].next = f]
      BY <2>2 DEF enqueue_response, h
    <3>2. last \in Frames
      BY <2>2 DEF TypeOK
    <3>3. QED
      BY <1>1, <3>1, <3>2 DEF Response
  <2>3. QED
    BY <2>1, <2>2
<1>3. \A c \in Live : frame[c] \in Frames /\ frame[c] # f
  BY DEF FrameType, Held
<1> HIDE DEF h
<1>4. KeepsOwn
  BY <1>1, <1>2, <1>3 DEF KeepsOwn, ResponsesOwn, OwnResponse
<1>5. QED
  BY <1>1, <1>2, <1>4

(* A packet completes a response only if it carries the response's id. *)
LEMMA CompleteKeepsOwn ==
    ASSUME TypeOK, FrameType, ResponsesOwn, NEW p \in sent, complete(p)
    PROVE  KeepsOwn
<1>1. CASE UNCHANGED queueVars
  BY <1>1 DEF queueVars, ResponsesOwn, KeepsOwn
<1>2. CASE \E n \in Hits(p.request_id) :
             heap' = [heap EXCEPT ![hop[n]].completed = TRUE,
                                  ![hop[n]].ec = Outcome(heap[hop[n]].kind, p.body)]
  <2>1. PICK n \in Hits(p.request_id) :
             heap' = [heap EXCEPT ![hop[n]].completed = TRUE,
                                  ![hop[n]].ec = Outcome(heap[hop[n]].kind, p.body)]
    BY <1>2
  <2> DEFINE it == hop[n]
  <2>2. it \in Frames /\ heap[it].request_id = p.request_id
    BY DEF Hits
  <2>3. heap' = [heap EXCEPT ![it].completed = TRUE,
                             ![it].ec = Outcome(heap[it].kind, p.body)]
    BY <2>1
  <2> HIDE DEF it
  <2>4. /\ heap'[it].completed /\ heap'[it].ec = Outcome(heap[it].kind, p.body)
        /\ heap'[it].request_id = heap[it].request_id /\ heap'[it].kind = heap[it].kind
        /\ \A g \in Frames : g # it => heap'[g] = heap[g]
    BY <2>2, <2>3 DEF TypeOK, Response
  <2>5. ASSUME NEW c \in Live PROVE OwnResponse(c, heap'[frame[c]])
    <3>1. CASE frame[c] = it
      <4>1. heap[it].request_id = id[c] /\ heap[it].kind = op[c].response
        BY <3>1 DEF ResponsesOwn, OwnResponse
      <4>2. Answered(c, heap'[it].ec)
        BY <2>2, <2>4, <4>1 DEF Answered
      <4>3. QED
        BY <2>4, <3>1, <4>1, <4>2 DEF OwnResponse
    <3>2. CASE frame[c] # it
      BY <2>4, <3>2 DEF FrameType, ResponsesOwn
    <3>3. QED
      BY <3>1, <3>2
  <2>6. QED
    BY <2>5 DEF KeepsOwn
<1>3. QED
  BY <1>1, <1>2 DEF complete

(* cancel_all completes responses with transport errors only. *)
LEMMA CancelKeepsOwn ==
    ASSUME TypeOK, FrameType, ResponsesOwn, NEW ec \in TransportErrors, cancel_all(ec)
    PROVE  KeepsOwn
<1>1. ASSUME NEW f \in Frames
      PROVE  /\ heap'[f].request_id = heap[f].request_id /\ heap'[f].kind = heap[f].kind
             /\ \/ heap'[f].completed /\ heap'[f].ec = ec
                \/ heap'[f].completed = heap[f].completed /\ heap'[f].ec = heap[f].ec
  BY DEF cancel_all, TypeOK, Response
<1>2. QED
  BY <1>1 DEF FrameType, ResponsesOwn, OwnResponse, KeepsOwn

(* Steps of calls that already have their response. *)
OldCallStep(c) == CallStep(c) /\ ~AnyRequest(c) /\ ~AnyCloseNull(c)

(* They keep their operation, their id and what the server has sent. *)
LEMMA OldCallStepKeeps ==
    ASSUME NEW c \in Calls, OldCallStep(c)
    PROVE  UNCHANGED <<op, id, frame, sent>> /\ c \in Live
<1>1. CASE \/ StartWrite(c) \/ Transmit(c) \/ FinishWrite(c) \/ LockFails(c)
           \/ WakeAnswered(c) \/ StartRead(c) \/ NullDeref(c)
           \/ \E ec \in {"connection_lost", "canceled"} : WriteFails(c, ec)
  BY <1>1 DEF StartWrite, Transmit, FinishWrite, LockFails, WakeAnswered, StartRead,
              NullDeref, WriteFails, Live, callVars, streamVars
<1>2. CASE \/ ReadPacket(c) \/ ReadRunt(c)
           \/ \E ec \in {"connection_lost", "canceled"} : ReadFails(c, ec) \/ Spin(c, ec)
  BY <1>2 DEF ReadPacket, ReadRunt, ReadFails, Spin, Reading, Live, callVars, streamVars
<1>3. QED
  BY <1>1, <1>2 DEF OldCallStep, CallStep

(* They leave every response its owner's. *)
LEMMA OldCallStepKeepsOwn ==
    ASSUME TypeOK, FrameType, AnswerInv, NEW c \in Calls, OldCallStep(c)
    PROVE  KeepsOwn
<1>1. CASE ReadPacket(c)
  <2>1. Head(fromServer) \in sent
    BY <1>1 DEF ReadPacket, AnswerInv, PacketsSent, TypeOK
  <2>2. complete(Head(fromServer))
    BY <1>1 DEF ReadPacket
  <2>3. QED
    BY <2>1, <2>2, CompleteKeepsOwn DEF AnswerInv
<1>2. CASE \E ec \in {"connection_lost", "canceled"} : ReadFails(c, ec)
  <2>1. PICK ec \in TransportErrors : cancel_all(ec)
    BY <1>2 DEF ReadFails, TransportErrors
  <2>2. QED
    BY <2>1, CancelKeepsOwn DEF AnswerInv
<1>3. CASE UNCHANGED heap
  BY <1>3 DEF AnswerInv, ResponsesOwn, KeepsOwn
<1>4. QED
  BY <1>1, <1>2, <1>3
     DEF OldCallStep, CallStep, StartWrite, Transmit, FinishWrite, LockFails, WakeAnswered,
         StartRead, NullDeref, WriteFails, ReadRunt, Spin, queueVars

(* What they return is a transport error or what the response holds. *)
LEMMA OldCallStepReturns ==
    ASSUME TypeOK, NEW c \in Calls, OldCallStep(c)
    PROVE  /\ \A d \in Calls : d # c => pc'[d] = pc[d] /\ result'[d] = result[d]
           /\ pc'[c] \notin {"idle"}
           /\ pc'[c] = "returned" =>
                 result'[c] \in TransportErrors \cup {heap'[frame[c]].ec}
<1>1. CASE StartWrite(c) \/ Transmit(c) \/ StartRead(c)
  BY <1>1 DEF StartWrite, Transmit, StartRead, TypeOK
<1>2. CASE FinishWrite(c) \/ WakeAnswered(c)
  BY <1>2 DEF FinishWrite, WakeAnswered, Return, TypeOK, queueVars
<1>3. CASE LockFails(c) \/ \E ec \in {"connection_lost", "canceled"} : WriteFails(c, ec)
  BY <1>3 DEF LockFails, WriteFails, Early, TypeOK, TransportErrors
<1>4. CASE \/ ReadPacket(c) \/ ReadRunt(c)
           \/ \E ec \in {"connection_lost", "canceled"} : ReadFails(c, ec)
  <2>1. Loop(c) \/ BreakLoop(c)
    BY <1>4 DEF ReadPacket, ReadRunt, ReadFails
  <2>2. QED
    BY <2>1 DEF Loop, BreakLoop, Return, TypeOK
<1>5. CASE NullDeref(c) \/ \E ec \in {"connection_lost", "canceled"} : Spin(c, ec)
  BY <1>5 DEF NullDeref, Spin, Reading, callVars
<1>6. QED
  BY <1>1, <1>2, <1>3, <1>4, <1>5 DEF OldCallStep, CallStep

(* Packets stay packets that were sent. *)
LEMMA PacketsSentStep ==
    ASSUME TypeOK, PacketsSent, [Next]_vars
    PROVE  PacketsSent' /\ sent \subseteq sent'
<1>1. CASE UNCHANGED <<fromServer, sent>>
  BY <1>1 DEF PacketsSent
<1>2. CASE \E c \in Calls : ReadPacket(c)
  <2>1. /\ fromServer \in Seq(Packets \cup {Runt}) /\ fromServer # <<>>
        /\ fromServer' = Tail(fromServer) /\ sent' = sent
    BY <1>2 DEF ReadPacket, TypeOK
  <2>2. QED
    BY <2>1 DEF PacketsSent
<1>3. CASE \E i \in toServer, b \in Replies : ServerReply(i, b)
  <2>1. PICK q : /\ fromServer' = Append(fromServer, q)
                 /\ sent' = sent \cup {q}
    BY <1>3 DEF ServerReply
  <2>2. QED
    BY <2>1 DEF PacketsSent, TypeOK
<1>4. CASE ServerRunt
  <2>1. fromServer' = Append(fromServer, Runt) /\ sent' = sent
    BY <1>4 DEF ServerRunt
  <2>2. /\ fromServer \in Seq(Packets \cup {Runt})
        /\ Len(fromServer') = Len(fromServer) + 1
        /\ \A k \in 1 .. Len(fromServer) : fromServer'[k] = fromServer[k]
        /\ fromServer'[Len(fromServer) + 1] = Runt
    BY <2>1 DEF TypeOK
  <2>3. ASSUME NEW k \in 1 .. Len(fromServer) + 1
        PROVE  fromServer'[k] = Runt \/ fromServer'[k] \in sent
    <3>1. CASE k \in 1 .. Len(fromServer)
      BY <2>2, <3>1 DEF PacketsSent
    <3>2. CASE k = Len(fromServer) + 1
      BY <2>2, <3>2
    <3>3. QED
      BY <2>2, <3>1, <3>2
  <2>4. QED
    BY <2>1, <2>2, <2>3 DEF PacketsSent
<1>5. CASE Break
  <2>1. PICK n \in 0 .. Len(fromServer) : fromServer' = SubSeq(fromServer, 1, n)
    BY <1>5 DEF Break
  <2>2. sent' = sent
    BY <1>5 DEF Break
  <2>3. QED
    BY <2>1, <2>2 DEF PacketsSent, TypeOK
<1>6. CASE \E c \in Calls :
             \/ AnyRequest(c) \/ AnyCloseNull(c) \/ StartWrite(c) \/ Transmit(c)
             \/ FinishWrite(c) \/ LockFails(c) \/ WakeAnswered(c) \/ StartRead(c)
  BY <1>1, <1>6
     DEF AnyRequest, Request, AnyCloseNull, CloseNull, StartWrite, Transmit, FinishWrite,
         LockFails, WakeAnswered, StartRead, streamVars
<1>7. CASE \E c \in Calls :
             \/ ReadRunt(c) \/ NullDeref(c)
             \/ \E ec \in {"connection_lost", "canceled"} :
                    WriteFails(c, ec) \/ ReadFails(c, ec) \/ Spin(c, ec)
  BY <1>1, <1>7 DEF ReadRunt, WriteFails, ReadFails, Spin, NullDeref, streamVars
<1>8. CASE Destroy \/ Done \/ UNCHANGED vars
  BY <1>1, <1>8 DEF Destroy, Done, vars, streamVars
<1>9. QED
  BY <1>2, <1>3, <1>4, <1>5, <1>6, <1>7, <1>8, NextCases DEF CallStep, WorldStep

(* Later answers do not unsay earlier ones. *)
LEMMA AnsweredStays ==
    ASSUME NEW c \in Calls, NEW ec, Answered(c, ec), sent \subseteq sent',
           id'[c] = id[c], op'[c] = op[c]
    PROVE  Answered(c, ec)'
BY DEF Answered

(* The inductive step of AnswerIsOwn. *)
LEMMA AnswerStep ==
    ASSUME TypeOK, FrameType, AnswerInv, [Next]_vars
    PROVE  AnswerInv'
<1>p. PacketsSent' /\ sent \subseteq sent'
  BY PacketsSentStep DEF AnswerInv
<1>1. ASSUME NEW c \in Calls, AnyRequest(c)
      PROVE  ResponsesOwn' /\ ResultsOwn' /\ IdleFresh'
  <2>1. PICK f \in Frames, name \in AllOps, response \in Kinds, obj \in Objs \cup {NULL} :
            Request(c, f, name, response, obj)
    BY <1>1 DEF AnyRequest
  <2>2. /\ op' = [op EXCEPT ![c] = [name |-> name, response |-> response, obj |-> obj]]
        /\ id' = [id EXCEPT ![c] = request_id_gen]
        /\ frame' = [frame EXCEPT ![c] = f]
        /\ pc' = [pc EXCEPT ![c] = "lock_write"]
        /\ UNCHANGED <<result, sent>>
        /\ f \notin Held /\ c \notin Live /\ enqueue_response(f, response)
    BY <2>1 DEF Request, Live, streamVars
  <2>3. /\ KeepsOwn
        /\ heap'[f].request_id = request_id_gen /\ heap'[f].kind = response
        /\ ~heap'[f].completed /\ heap'[f].ec = "success"
    BY <2>2, EnqueueKeepsOwn DEF AnswerInv
  <2>4. ASSUME NEW d \in Live' PROVE OwnResponse(d, heap[frame[d]])'
    <3>1. CASE d = c
      <4>1. frame'[c] = f /\ id'[c] = request_id_gen /\ op'[c].response = response
        BY <2>2 DEF TypeOK
      <4>2. QED
        BY <2>3, <3>1, <4>1 DEF OwnResponse
    <3>2. CASE d # c
      <4>1. d \in Live /\ frame'[d] = frame[d] /\ id'[d] = id[d] /\ op'[d] = op[d]
        BY <2>2, <3>2 DEF Live, TypeOK
      <4>2. OwnResponse(d, heap'[frame[d]])
        BY <2>3, <4>1 DEF KeepsOwn
      <4>3. QED
        BY <1>p, <4>1, <4>2, AnsweredStays DEF OwnResponse, Live
    <3>3. QED
      BY <3>1, <3>2
  <2>5. ASSUME NEW d \in Calls, pc'[d] = "returned",
               result'[d] \notin TransportErrors \cup {"success"}
        PROVE  Answered(d, result[d])'
    <3>1. /\ d # c /\ pc[d] = "returned" /\ result'[d] = result[d]
          /\ id'[d] = id[d] /\ op'[d] = op[d]
      BY <2>2, <2>5 DEF TypeOK
    <3>2. Answered(d, result[d])
      BY <2>5, <3>1 DEF AnswerInv, ResultsOwn
    <3>3. Answered(d, result'[d])
      BY <3>1, <3>2
    <3>4. QED
      BY <1>p, <3>1, <3>3 DEF Answered
  <2>6. IdleFresh'
    BY <2>2 DEF AnswerInv, IdleFresh, TypeOK
  <2>7. QED
    BY <2>4, <2>5, <2>6 DEF ResponsesOwn, ResultsOwn
<1>2. ASSUME NEW c \in Calls, AnyCloseNull(c)
      PROVE  ResponsesOwn' /\ ResultsOwn' /\ IdleFresh'
  <2>1. /\ pc[c] = "idle" /\ pc' = [pc EXCEPT ![c] = "returned"]
        /\ \A d \in Calls : d # c => op'[d] = op[d]
        /\ UNCHANGED <<id, frame, result, heap, sent>>
    BY <1>2 DEF AnyCloseNull, CloseNull, queueVars, streamVars, TypeOK
  <2>2. Live' = Live /\ c \notin Live /\ result[c] = "success"
    BY <2>1 DEF Live, TypeOK, AnswerInv, IdleFresh
  <2>3. ASSUME NEW d \in Live PROVE OwnResponse(d, heap[frame[d]])'
    <3>1. d \in Calls /\ d # c /\ op'[d] = op[d] /\ OwnResponse(d, heap[frame[d]])
      BY <2>1, <2>2 DEF Live, AnswerInv, ResponsesOwn
    <3>2. QED
      BY <2>1, <3>1 DEF OwnResponse, Answered
  <2>4. ASSUME NEW d \in Calls, pc'[d] = "returned",
               result'[d] \notin TransportErrors \cup {"success"}
        PROVE  Answered(d, result[d])'
    <3>1. d # c /\ pc[d] = "returned" /\ op'[d] = op[d] /\ Answered(d, result[d])
      BY <2>1, <2>2, <2>4 DEF AnswerInv, ResultsOwn, TypeOK
    <3>2. QED
      BY <2>1, <3>1 DEF Answered
  <2>5. IdleFresh'
    BY <2>1 DEF AnswerInv, IdleFresh, TypeOK
  <2>6. QED
    BY <2>2, <2>3, <2>4, <2>5 DEF ResponsesOwn, ResultsOwn
<1>3. ASSUME NEW c \in Calls, OldCallStep(c)
      PROVE  ResponsesOwn' /\ ResultsOwn' /\ IdleFresh'
  <2>1. UNCHANGED <<op, id, frame, sent>> /\ c \in Live /\ KeepsOwn
    BY <1>3, OldCallStepKeeps, OldCallStepKeepsOwn
  <2>2. /\ \A d \in Calls : d # c => pc'[d] = pc[d] /\ result'[d] = result[d]
        /\ pc'[c] # "idle"
        /\ pc'[c] = "returned" => result'[c] \in TransportErrors \cup {heap'[frame[c]].ec}
    BY <1>3, OldCallStepReturns
  <2>3. Live' \subseteq Live
    BY <2>1, <2>2 DEF Live
  <2>4. ASSUME NEW d \in Live' PROVE OwnResponse(d, heap[frame[d]])'
    <3>1. OwnResponse(d, heap'[frame[d]])
      BY <2>1, <2>3 DEF KeepsOwn
    <3>2. QED
      BY <2>1, <3>1 DEF OwnResponse, Answered
  <2>5. ASSUME NEW d \in Calls, pc'[d] = "returned",
               result'[d] \notin TransportErrors \cup {"success"}
        PROVE  Answered(d, result[d])'
    <3>1. Answered(d, result'[d])
      <4>1. CASE d = c
        BY <2>1, <2>2, <2>5, <4>1 DEF KeepsOwn, OwnResponse
      <4>2. CASE d # c
        BY <2>2, <2>5, <4>2 DEF AnswerInv, ResultsOwn
      <4>3. QED
        BY <4>1, <4>2
    <3>2. QED
      BY <2>1, <3>1 DEF Answered
  <2>6. IdleFresh'
    BY <2>1, <2>2 DEF AnswerInv, IdleFresh
  <2>7. QED
    BY <2>4, <2>5, <2>6 DEF ResponsesOwn, ResultsOwn
<1>4. CASE WorldStep \/ UNCHANGED vars
  <2>1. UNCHANGED <<pc, op, id, frame, result>>
    BY <1>4, WorldKeepsCalls DEF callVars
  <2>2. \A d \in Live : heap'[frame[d]] = heap[frame[d]]
    BY <1>4 DEF WorldStep, ServerReply, ServerRunt, Break, Destroy, Done, vars, queueVars
  <2>3. ASSUME NEW d \in Live PROVE OwnResponse(d, heap[frame[d]])'
    <3>1. OwnResponse(d, heap[frame[d]]) /\ d \in Calls
      BY DEF AnswerInv, ResponsesOwn, Live
    <3>2. QED
      BY <1>p, <2>1, <2>2, <3>1 DEF OwnResponse, Answered
  <2>4. ResultsOwn'
    BY <1>p, <2>1 DEF AnswerInv, ResultsOwn, Answered
  <2>5. ResponsesOwn' /\ IdleFresh'
    BY <2>1, <2>3 DEF AnswerInv, ResponsesOwn, IdleFresh, Live
  <2>6. QED
    BY <1>p, <2>4, <2>5 DEF AnswerInv
<1>5. QED
  BY <1>p, <1>1, <1>2, <1>3, <1>4, NextCases DEF AnswerInv, OldCallStep

(* No reply ever reaches the wrong call: for any number of calls, frames    *)
(* and replies, in any order, with lost connections, cancellations, short   *)
(* packets and recycled frames.                                             *)
THEOREM NoCrossTalk == Spec => []AnswerIsOwn
<1>1. Init => AnswerInv
  BY DEF Init, AnswerInv, ResponsesOwn, PacketsSent, ResultsOwn, IdleFresh, Live
<1>2. TypeOK /\ FrameType /\ AnswerInv /\ [Next]_vars => AnswerInv'
  BY AnswerStep
<1>3. AnswerInv => AnswerIsOwn
  BY DEF AnswerInv, ResponsesOwn, OwnResponse, ResultsOwn, AnswerIsOwn
<1>4. QED
  BY <1>1, <1>2, <1>3, TypeCorrect, PTL DEF Spec

-----------------------------------------------------------------------------
(* The reader. *)

(* The step of ReaderIsUnanswered. *)
LEMMA ReaderStep ==
    ASSUME TypeOK, MutexInv, FrameType, AnswerInv, ReaderIsUnanswered, [Next]_vars
    PROVE  ReaderIsUnanswered'
<1>1. ASSUME NEW c \in Calls, AnyRequest(c)
      PROVE  ReaderIsUnanswered'
  <2>1. PICK f \in Frames, kind \in Kinds :
            /\ f \notin Held /\ enqueue_response(f, kind)
            /\ pc' = [pc EXCEPT ![c] = "lock_write"]
            /\ frame' = [frame EXCEPT ![c] = f]
    BY <1>1 DEF AnyRequest, Request
  <2>2. ASSUME NEW g \in Frames, g # f
        PROVE  heap'[g].completed = heap[g].completed
    BY <2>1, <2>2 DEF enqueue_response, Construct, TypeOK, Response
  <2>3. ASSUME NEW d \in Calls, pc'[d] = "reading"
        PROVE  ~heap'[frame'[d]].completed
    <3>1. d # c /\ pc[d] = "reading" /\ frame'[d] = frame[d] /\ d \in Live
      BY <2>1, <2>3 DEF TypeOK, Live
    <3>2. frame[d] \in Frames /\ frame[d] # f
      BY <2>1, <3>1 DEF FrameType, Held
    <3>3. QED
      BY <2>2, <3>1, <3>2 DEF ReaderIsUnanswered
  <2>4. QED
    BY <2>3 DEF ReaderIsUnanswered
<1>2. ASSUME NEW c \in Calls, AnyCloseNull(c)
      PROVE  ReaderIsUnanswered'
  BY <1>2 DEF AnyCloseNull, CloseNull, ReaderIsUnanswered, TypeOK, queueVars
<1>3. ASSUME NEW c \in Calls, OldCallStep(c)
      PROVE  ReaderIsUnanswered'
  <2>1. UNCHANGED frame /\ \A d \in Calls : d # c => pc'[d] = pc[d]
    BY <1>3, OldCallStepKeeps, OldCallStepReturns
  <2>2. CASE \/ ReadPacket(c) \/ ReadRunt(c)
             \/ \E ec \in {"connection_lost", "canceled"} : ReadFails(c, ec)
    <3>1. pc[c] = "reading" /\ (Loop(c) \/ BreakLoop(c))
      BY <2>2 DEF ReadPacket, ReadRunt, ReadFails, Reading
    <3>2. pc'[c] # "reading"
      BY <3>1 DEF Loop, BreakLoop, Return, TypeOK
    <3>3. \A d \in Calls : d # c => pc[d] # "reading"
      BY <3>1 DEF MutexInv
    <3>4. QED
      BY <2>1, <3>2, <3>3 DEF ReaderIsUnanswered
  <2>3. CASE StartRead(c)
    BY <2>1, <2>3 DEF StartRead, Unanswered, ReaderIsUnanswered, queueVars
  <2>4. CASE UNCHANGED heap /\ (pc'[c] = "reading" => pc[c] = "reading")
    BY <2>1, <2>4 DEF ReaderIsUnanswered
  <2>5. CASE \/ StartWrite(c) \/ Transmit(c) \/ FinishWrite(c) \/ LockFails(c)
             \/ WakeAnswered(c) \/ \E ec \in {"connection_lost", "canceled"} : WriteFails(c, ec)
    BY <2>4, <2>5 DEF StartWrite, Transmit, FinishWrite, LockFails, WakeAnswered, WriteFails,
                      Return, Early, TypeOK, queueVars
  <2>6. CASE NullDeref(c) \/ \E ec \in {"connection_lost", "canceled"} : Spin(c, ec)
    BY <2>4, <2>6 DEF NullDeref, Spin, callVars, queueVars
  <2>7. QED
    BY <1>3, <2>2, <2>3, <2>5, <2>6 DEF OldCallStep, CallStep
<1>4. CASE WorldStep \/ UNCHANGED vars
  <2>1. UNCHANGED <<pc, frame>>
    BY <1>4, WorldKeepsCalls DEF callVars
  <2>2. \A d \in Live : heap'[frame[d]] = heap[frame[d]]
    BY <1>4 DEF WorldStep, ServerReply, ServerRunt, Break, Destroy, Done, vars, queueVars
  <2>3. QED
    BY <2>1, <2>2 DEF ReaderIsUnanswered, Live
<1>5. QED
  BY <1>1, <1>2, <1>3, <1>4, NextCases DEF OldCallStep

(* A call never blocks in read_one_ with its own reply already in hand: it  *)
(* checks under the lock, and nobody else completes responses meanwhile.    *)
THEOREM ReaderAlwaysUnanswered == Spec => []ReaderIsUnanswered
<1> DEFINE I == TypeOK /\ MutexInv /\ FrameType /\ AnswerInv /\ ReaderIsUnanswered
<1>1. Init => I
  <2>1. Init => FrameType /\ AnswerInv /\ ReaderIsUnanswered
    BY DEF Init, AnswerInv, ResponsesOwn, PacketsSent, ResultsOwn, IdleFresh, Live,
           FrameType, ReaderIsUnanswered
  <2>2. QED
    BY <2>1, TypeInit, MutexInit
<1>2. I /\ [Next]_vars => I'
  BY TypeStep, AnswerStep, ReaderStep
<1>3. QED
  BY <1>1, <1>2, PTL DEF Spec

-----------------------------------------------------------------------------
(* Without failures. *)

(* The stream works, no short packet is on it, and no response or call ends *)
(* with a transport error or before its answer.                             *)
Calm ==
    /\ up
    /\ \A k \in 1 .. Len(fromServer) : fromServer[k] # Runt
    /\ \A c \in Live : heap[frame[c]].completed => heap[frame[c]].ec \notin TransportErrors

(* A reply is never read as a transport error. *)
LEMMA OutcomeNotTransport ==
    ASSUME NEW k \in Kinds, NEW b \in Body
    PROVE  Outcome(k, b) \notin TransportErrors
<1>1. b.code \in Codes
  BY DEF Body
<1> DEFINE Good == {"success", "SSH_FX_EOF", "SSH_FX_FAILURE", "SSH_FX_BAD_MESSAGE", "eof"}
<1>2. OnStatus(b) \in Good /\ CodeError(b.code) \in Good
  BY <1>1 DEF CodeError, OnStatus, Parsed, Codes
<1>3. /\ status_response(b) \in Good
      /\ handle_response(b) \in Good
      /\ dir_entry_response(b) \in Good
      /\ attrs_response(b) \in Good
      /\ name_response(b) \in Good
  BY <1>2 DEF status_response, handle_response, dir_entry_response, attrs_response,
              name_response, Parsed
<1>4. data_response(b) \in Good
  BY <1>2 DEF data_response, Parsed
<1>5. Outcome(k, b) \in Good
  BY <1>3, <1>4 DEF Outcome, Kinds
<1>6. QED
  BY <1>5 DEF TransportErrors

(* A calm stream stays calm. *)
LEMMA CalmStreamStep ==
    ASSUME Events \subseteq {"destroy"}, TypeOK, Calm, [Next]_vars
    PROVE  up' /\ \A k \in 1 .. Len(fromServer') : fromServer'[k] # Runt
<1>0. fromServer \in Seq(Packets \cup {Runt})
  BY DEF TypeOK
<1>1. CASE UNCHANGED <<up, fromServer>>
  BY <1>1 DEF Calm
<1>2. CASE \E c \in Calls : ReadPacket(c)
  <2>1. fromServer # <<>> /\ fromServer' = Tail(fromServer) /\ up' = up
    BY <1>2 DEF ReadPacket
  <2>2. QED
    BY <1>0, <2>1 DEF Calm
<1>3. CASE \E i \in toServer, b \in Replies : ServerReply(i, b)
  <2>1. PICK i \in toServer, b \in Replies :
            fromServer' = Append(fromServer, [request_id |-> i, body |-> b]) /\ up' = up
    BY <1>3 DEF ServerReply
  <2> DEFINE q == [request_id |-> i, body |-> b]
  <2>2. q # Runt
    <3>1. q.request_id \in Nat /\ Runt.request_id = -1
      BY DEF TypeOK, Ids, Runt, NoId
    <3>2. QED
      BY <3>1
  <2>3. fromServer' = Append(fromServer, q)
    BY <2>1
  <2> HIDE DEF q
  <2>4. QED
    BY <1>0, <2>1, <2>2, <2>3 DEF Calm
<1>4. CASE \E c \in Calls :
             \/ AnyRequest(c) \/ AnyCloseNull(c) \/ StartWrite(c) \/ Transmit(c)
             \/ FinishWrite(c) \/ LockFails(c) \/ WakeAnswered(c) \/ StartRead(c)
  BY <1>1, <1>4
     DEF AnyRequest, Request, AnyCloseNull, CloseNull, StartWrite, Transmit, FinishWrite,
         LockFails, WakeAnswered, StartRead, streamVars
<1>5. CASE \E c \in Calls :
             \/ ReadRunt(c) \/ NullDeref(c)
             \/ \E ec \in {"connection_lost", "canceled"} :
                    WriteFails(c, ec) \/ ReadFails(c, ec) \/ Spin(c, ec)
  BY <1>1, <1>5 DEF ReadRunt, WriteFails, ReadFails, Spin, NullDeref, streamVars
<1>6. CASE ServerRunt \/ Break \/ Destroy \/ Done \/ UNCHANGED vars
  BY <1>1, <1>6 DEF ServerRunt, Break, Destroy, Done, vars, streamVars
<1>7. QED
  BY <1>2, <1>3, <1>4, <1>5, <1>6, NextCases DEF CallStep, WorldStep

(* The responses stay free of transport errors, and a call returns what a   *)
(* completed response holds.                                                *)
LEMMA CalmCallStep ==
    ASSUME Events \subseteq {"destroy"}, TypeOK, FrameType, AnswerInv, Calm,
           NEW c \in Calls, OldCallStep(c)
    PROVE  /\ \A d \in Live : heap'[frame[d]].completed =>
                                   heap'[frame[d]].ec \notin TransportErrors
           /\ pc'[c] = "returned" =>
                 heap'[frame[c]].completed /\ result'[c] = heap'[frame[c]].ec
<1>1. CASE StartWrite(c) \/ Transmit(c) \/ StartRead(c)
  BY <1>1 DEF StartWrite, Transmit, StartRead, TypeOK, Calm, queueVars
<1>2. CASE FinishWrite(c) \/ WakeAnswered(c)
  BY <1>2 DEF FinishWrite, WakeAnswered, Return, TypeOK, Calm, queueVars
<1>3. CASE NullDeref(c) \/ \E ec \in {"connection_lost", "canceled"} : Spin(c, ec)
  BY <1>3 DEF NullDeref, Spin, Reading, Calm, callVars, queueVars
<1>4. CASE ReadPacket(c)
  <2>1. ASSUME NEW d \in Live, heap'[frame[d]].completed
        PROVE  heap'[frame[d]].ec \notin TransportErrors
    <3>1. frame[d] \in Frames
      BY DEF FrameType
    <3> DEFINE p == Head(fromServer)
    <3>2. complete(p) /\ p \in Packets
      BY <1>4 DEF ReadPacket, TypeOK
    <3> HIDE DEF p
    <3>3. CASE UNCHANGED queueVars
      BY <2>1, <3>3 DEF Calm, queueVars
    <3>4. CASE \E n \in Hits(p.request_id) :
                 heap' = [heap EXCEPT ![hop[n]].completed = TRUE,
                                      ![hop[n]].ec = Outcome(heap[hop[n]].kind, p.body)]
      <4>1. PICK n \in Hits(p.request_id) :
                 heap' = [heap EXCEPT ![hop[n]].completed = TRUE,
                                      ![hop[n]].ec = Outcome(heap[hop[n]].kind, p.body)]
        BY <3>4
      <4> DEFINE it == hop[n]
      <4> DEFINE ec == Outcome(heap[it].kind, p.body)
      <4>2. it \in Frames
        BY DEF Hits
      <4>3. ec \notin TransportErrors
        BY <3>2, <4>2, OutcomeNotTransport DEF TypeOK, Response, Packets
      <4>4. heap' = [heap EXCEPT ![it].completed = TRUE, ![it].ec = ec]
        BY <4>1
      <4> HIDE DEF it, ec
      <4>5. heap'[it].ec = ec /\ \A g \in Frames : g # it => heap'[g] = heap[g]
        BY <4>2, <4>4 DEF TypeOK, Response
      <4>6. QED
        BY <2>1, <3>1, <4>3, <4>5 DEF Calm
    <3>5. QED
      BY <3>2, <3>3, <3>4 DEF complete
  <2>2. pc'[c] = "returned" =>
                 heap'[frame[c]].completed /\ result'[c] = heap'[frame[c]].ec
    BY <1>4 DEF ReadPacket, Loop, Return, TypeOK
  <2>3. QED
    BY <2>1, <2>2
<1>5. ~ReadRunt(c)
  <2>1. fromServer # <<>> => Head(fromServer) # Runt
    BY DEF Calm, TypeOK
  <2>2. QED
    BY <2>1 DEF ReadRunt
<1>6. /\ ~LockFails(c)
      /\ \A ec \in {"connection_lost", "canceled"} : ~WriteFails(c, ec) /\ ~ReadFails(c, ec)
  BY DEF Calm, LockFails, WriteFails, ReadFails, ReadError
<1>7. QED
  BY <1>1, <1>2, <1>3, <1>4, <1>5, <1>6 DEF OldCallStep, CallStep

(* The step of SuccessIsAnswered. *)
LEMMA CalmStep ==
    ASSUME Events \subseteq {"destroy"}, TypeOK, FrameType, AnswerInv, Calm,
           SuccessIsAnswered, [Next]_vars
    PROVE  Calm' /\ SuccessIsAnswered'
<1>p. sent \subseteq sent'
  BY PacketsSentStep DEF AnswerInv
<1>s. up' /\ \A k \in 1 .. Len(fromServer') : fromServer'[k] # Runt
  BY CalmStreamStep
<1>1. ASSUME NEW c \in Calls, AnyRequest(c)
      PROVE  Calm' /\ SuccessIsAnswered'
  <2>1. PICK f \in Frames, kind \in Kinds :
            /\ f \notin Held /\ enqueue_response(f, kind)
            /\ pc' = [pc EXCEPT ![c] = "lock_write"]
            /\ frame' = [frame EXCEPT ![c] = f]
    BY <1>1 DEF AnyRequest, Request
  <2>2. ASSUME NEW g \in Frames
        PROVE  /\ g # f => heap'[g].completed = heap[g].completed /\ heap'[g].ec = heap[g].ec
               /\ g = f => ~heap'[g].completed
    BY <2>1 DEF enqueue_response, Construct, TypeOK, Response
  <2>3. ASSUME NEW d \in Live', heap'[frame'[d]].completed
        PROVE  heap'[frame'[d]].ec \notin TransportErrors
    <3>1. CASE d = c
      BY <2>1, <2>2, <2>3, <3>1 DEF TypeOK
    <3>2. CASE d # c
      <4>1. d \in Live /\ frame'[d] = frame[d] /\ frame[d] \in Frames /\ frame[d] # f
        BY <2>1, <3>2 DEF Live, TypeOK, FrameType, Held
      <4>2. QED
        BY <2>2, <2>3, <4>1 DEF Calm
    <3>3. QED
      BY <3>1, <3>2
  <2>4. \A d \in Calls : pc'[d] = "returned" =>
            /\ pc[d] = "returned" /\ result'[d] = result[d]
            /\ id'[d] = id[d] /\ op'[d] = op[d]
    BY <1>1 DEF AnyRequest, Request, TypeOK
  <2>5. SuccessIsAnswered'
    BY <1>p, <2>4 DEF SuccessIsAnswered, Answered
  <2>6. QED
    BY <1>s, <2>3, <2>5 DEF Calm
<1>2. ASSUME NEW c \in Calls, AnyCloseNull(c)
      PROVE  Calm' /\ SuccessIsAnswered'
  <2>1. /\ pc[c] = "idle" /\ pc' = [pc EXCEPT ![c] = "returned"]
        /\ \A d \in Calls : d # c => op'[d] = op[d]
        /\ UNCHANGED <<id, frame, result, heap, sent>>
    BY <1>2 DEF AnyCloseNull, CloseNull, queueVars, streamVars, TypeOK
  <2>2. Live' = Live /\ id[c] = NoId
    BY <2>1 DEF Live, TypeOK, AnswerInv, IdleFresh
  <2>3. SuccessIsAnswered'
    BY <2>1, <2>2 DEF SuccessIsAnswered, Answered, TypeOK
  <2>4. QED
    BY <1>s, <2>1, <2>2, <2>3 DEF Calm
<1>3. ASSUME NEW c \in Calls, OldCallStep(c)
      PROVE  Calm' /\ SuccessIsAnswered'
  <2>1. UNCHANGED <<op, id, frame, sent>> /\ c \in Live /\ KeepsOwn
    BY <1>3, OldCallStepKeeps, OldCallStepKeepsOwn
  <2>2. /\ \A d \in Calls : d # c => pc'[d] = pc[d] /\ result'[d] = result[d]
        /\ pc'[c] # "idle"
    BY <1>3, OldCallStepReturns
  <2>3. /\ \A d \in Live : heap'[frame[d]].completed =>
                                   heap'[frame[d]].ec \notin TransportErrors
        /\ pc'[c] = "returned" =>
                 heap'[frame[c]].completed /\ result'[c] = heap'[frame[c]].ec
    BY <1>3, CalmCallStep
  <2>4. Live' \subseteq Live
    BY <2>1, <2>2 DEF Live
  <2>5. Calm'
    BY <1>s, <2>1, <2>3, <2>4 DEF Calm
  <2>6. ASSUME NEW d \in Calls, pc'[d] = "returned", result'[d] = "success", id'[d] # NoId
        PROVE  Answered(d, "success")
    <3>1. CASE d = c
      BY <2>1, <2>3, <2>6, <3>1 DEF KeepsOwn, OwnResponse
    <3>2. CASE d # c
      BY <2>1, <2>2, <2>6, <3>2 DEF SuccessIsAnswered
    <3>3. QED
      BY <3>1, <3>2
  <2>7. SuccessIsAnswered'
    BY <2>1, <2>6 DEF SuccessIsAnswered, Answered
  <2>8. QED
    BY <2>5, <2>7
<1>4. CASE WorldStep \/ UNCHANGED vars
  <2>1. UNCHANGED <<pc, op, id, frame, result>>
    BY <1>4, WorldKeepsCalls DEF callVars
  <2>2. \A d \in Live : heap'[frame[d]] = heap[frame[d]]
    BY <1>4 DEF WorldStep, ServerReply, ServerRunt, Break, Destroy, Done, vars, queueVars
  <2>3. Calm'
    BY <1>s, <2>1, <2>2 DEF Calm, Live
  <2>4. SuccessIsAnswered'
    BY <1>p, <2>1 DEF SuccessIsAnswered, Answered
  <2>5. QED
    BY <2>3, <2>4
<1>5. QED
  BY <1>1, <1>2, <1>3, <1>4, NextCases DEF OldCallStep

(* While nothing fails, every success the application sees is one the       *)
(* server granted to that very request, however many calls share the        *)
(* stream and even when the queue's list is broken.                         *)
THEOREM SuccessIsReal ==
    ASSUME Events \subseteq {"destroy"}
    PROVE  Spec => []SuccessIsAnswered
<1> DEFINE I == TypeOK /\ MutexInv /\ FrameType /\ AnswerInv /\ Calm /\ SuccessIsAnswered
<1>1. Init => I
  <2>1. Init => FrameType /\ AnswerInv /\ Calm /\ SuccessIsAnswered
    BY DEF Init, AnswerInv, ResponsesOwn, PacketsSent, ResultsOwn, IdleFresh, Live,
           FrameType, Calm, SuccessIsAnswered
  <2>2. QED
    BY <2>1, TypeInit, MutexInit
<1>2. I /\ [Next]_vars => I'
  BY TypeStep, AnswerStep, CalmStep
<1>3. QED
  BY <1>1, <1>2, PTL DEF Spec
=============================================================================
