------------------------ MODULE SftpSequentialProofs ------------------------
(* SftpClient used by one call at a time, with nothing failing. *)
EXTENDS SftpCallsProofs, FiniteSetTheorems, WellFoundedInduction

(* A set of naturals has a least element. *)
LEMMA LeastElement ==
    ASSUME NEW T, T \subseteq Nat, T # {}
    PROVE  \E x \in T : \A y \in T : ~(y < x)
<1> DEFINE R == OpToRel(<, Nat)
<1>1. IsWellFoundedOn(R, Nat)
  BY NatLessThanWellFounded, Zenon
<1>2. \A x, y \in Nat : y < x => <<y, x>> \in R
  BY Zenon DEF OpToRel
<1> HIDE DEF R
<1>3. PICK x \in T : \A y \in T : ~(<<y, x>> \in R)
  BY <1>1, WFMin
<1>4. QED
  BY <1>2, <1>3

(* 0 is a step of the loop over the list. *)
LEMMA StepsNat == Cardinality(Frames) \in Nat /\ Steps \subseteq Nat /\ 0 \in Steps
<1>1. Cardinality(Frames) \in Nat
  BY FS_CardinalityType, ClientAssumption
<1>2. QED
  BY <1>1 DEF Steps

(* The loop over a list of one. *)
LEMMA HopOne ==
    ASSUME first \in Frames, heap[first].next = NULL
    PROVE  hop[0] = first /\ \A n \in Steps : n # 0 => hop[n] = NULL
<1>0. first # NULL
  BY ClientAssumption
<1> DEFINE h == [n \in Steps |-> IF n = 0 THEN first ELSE NULL]
<1>1. h = [n \in Steps |-> IF n = 0 THEN first
                           ELSE IF h[n - 1] = NULL THEN NULL ELSE heap[h[n - 1]].next]
  <2>1. ASSUME NEW n \in Steps, n # 0
        PROVE  NULL = IF h[n - 1] = NULL THEN NULL ELSE heap[h[n - 1]].next
    <3>1. n - 1 \in Steps
      BY <2>1, StepsNat DEF Steps
    <3>2. QED
      BY <3>1
  <2>2. QED
    BY <2>1
<1>2. hop = [n \in Steps |-> IF n = 0 THEN first
                             ELSE IF hop[n - 1] = NULL THEN NULL ELSE heap[hop[n - 1]].next]
  <2> HIDE DEF h
  <2>1. QED
    BY <1>1 DEF hop
<1>3. hop[0] = first
  BY <1>2, StepsNat
<1> DEFINE T == {n \in Steps : n # 0 /\ hop[n] # NULL}
<1>4. T = {}
  <2> SUFFICES ASSUME T # {} PROVE FALSE
    OBVIOUS
  <2>1. PICK m \in T : \A n \in T : ~(n < m)
    <3>1. T \subseteq Nat
      BY StepsNat
    <3> HIDE DEF T
    <3>2. QED
      BY <3>1, LeastElement
  <2>2. m \in Steps /\ m \in Nat /\ m # 0 /\ m - 1 \in Steps
    BY StepsNat DEF Steps
  <2>3. hop[m] = IF hop[m - 1] = NULL THEN NULL ELSE heap[hop[m - 1]].next
    BY <1>2, <2>2
  <2>4. hop[m - 1] # NULL
    BY <2>3
  <2>5. m - 1 = 0
    BY <2>1, <2>2, <2>4
  <2>6. QED
    BY <1>3, <2>3, <2>5
<1>5. QED
  BY <1>3, <1>4

-----------------------------------------------------------------------------
(* The list and the memory. *)

(* One call at a time: the list holds its response, and last points to it   *)
(* until it is completed; its file or dir, if it uses one, is open.         *)
Sequential ==
    /\ \A c, d \in Live : c = d
    /\ Live = {} => last = NULL
    /\ \A c \in Live :
        /\ first = frame[c]
        /\ heap[frame[c]].next = NULL
        /\ last = IF heap[frame[c]].completed THEN NULL ELSE frame[c]
        /\ Valid(c)
    /\ MemorySafe

(* A call starts only when no other is in progress. *)
LEMMA RequestAlone ==
    ASSUME MaxInFlight = 1, Sequential, NEW c \in Calls, AnyRequest(c)
    PROVE  Live = {}
<1>1. Cardinality(Live) < 1
  BY DEF AnyRequest, Request
<1>2. ASSUME NEW d \in Live PROVE FALSE
  <2>1. Live = {d}
    BY DEF Sequential
  <2>2. Cardinality(Live) = 1
    BY <2>1, FS_Singleton
  <2>3. QED
    BY <1>1, <2>2
<1>3. QED
  BY <1>2

(* An operation of a file or dir that is in progress starts with it open. *)
LEMMA InvokeValid ==
    ASSUME TypeOK, NEW c \in Calls, Invoke(c), pc'[c] # "returned"
    PROVE  Valid(c)'
<1> USE DEF Objs
<1>1. ASSUME NEW f, NEW name, NEW response, NEW obj, Request(c, f, name, response, obj)
      PROVE  op'[c].name = name /\ op'[c].obj = obj /\ sess_' = sess_
  BY <1>1 DEF Request, TypeOK
<1>2. CASE \E f \in Frames :
                \/ unlink(c, f) \/ mkdir(c, f) \/ rmdir(c, f) \/ rename(c, f)
                \/ chmod(c, f) \/ chown(c, f) \/ symlink(c, f) \/ hardlink(c, f)
                \/ setstat(c, f) \/ stat(c, f) \/ lstat(c, f) \/ readlink(c, f)
                \/ canonicalize_path(c, f) \/ expand_path(c, f) \/ home_directory(c, f)
  <2>1. \E f, response : \E name \in PathOps : Request(c, f, name, response, NULL)
    BY <1>2 DEF PathOps, unlink, mkdir, rmdir, rename, chmod, chown, symlink, hardlink,
                setstat, stat, lstat, readlink, canonicalize_path, expand_path,
                home_directory
  <2>2. op'[c].name \in PathOps
    BY <1>1, <2>1
  <2>3. QED
    BY <2>2 DEF PathOps, HandleOps, Closes, Valid
<1>3. CASE \E f \in Frames, h \in Objs : open(c, f, h) \/ opendir(c, f, h)
  <2>1. \E f, response, h : \E name \in Opens : Request(c, f, name, response, h)
    BY <1>3 DEF open, opendir, Opens
  <2>2. op'[c].name \in Opens
    BY <1>1, <2>1
  <2>3. QED
    BY <2>2 DEF Opens, HandleOps, Closes, Valid
<1>4. CASE \E f \in Frames, h \in Objs :
                \/ read_some_at(c, f, h) \/ write_some_at(c, f, h) \/ do_read_(c, f, h)
                \/ file_close(c, f, h) \/ dir_close(c, f, h)
  <2>1. \E f, name, response : \E h \in Objs : sess_[h] /\ Request(c, f, name, response, h)
    BY <1>4 DEF read_some_at, write_some_at, do_read_, file_close, dir_close
  <2>2. sess_'[op'[c].obj]
    BY <1>1, <2>1
  <2>3. QED
    BY <2>2 DEF Valid
<1>5. CASE \/ \E h \in Files : CloseNull(c, "file_close", h)
           \/ \E h \in Dirs : CloseNull(c, "dir_close", h)
  <2>1. pc' = [pc EXCEPT ![c] = "returned"]
    BY <1>5 DEF CloseNull
  <2>2. QED
    BY <2>1 DEF TypeOK
<1>6. QED
  BY <1>2, <1>3, <1>4, <1>5 DEF Invoke

(* Starting a call alone makes a list of one. *)
LEMMA InvokeSequential ==
    ASSUME MaxInFlight = 1, TypeOK, Sequential, NEW c \in Calls, Invoke(c)
    PROVE  Sequential'
<1>1. CASE AnyRequest(c)
  <2>1. Live = {} /\ last = NULL
    BY <1>1, RequestAlone DEF Sequential
  <2>2. PICK f \in Frames, kind \in Kinds :
            /\ enqueue_response(f, kind)
            /\ pc' = [pc EXCEPT ![c] = "lock_write"]
            /\ frame' = [frame EXCEPT ![c] = f]
    BY <1>1 DEF AnyRequest, Request
  <2>3. /\ first' = f /\ last' = f /\ heap' = Construct(f, kind)
        /\ Touch({})
    <3>1. {last} \ {f, NULL} = {}
      BY <2>1
    <3>2. QED
      BY <2>1, <2>2, <3>1 DEF enqueue_response, NewFirst
  <2>4. ~heap'[f].completed /\ heap'[f].next = NULL
    BY <2>3 DEF Construct, TypeOK
  <2>5. Live' = {c} /\ frame'[c] = f
    BY <2>1, <2>2 DEF Live, TypeOK
  <2>6. Valid(c)'
    <3>1. pc'[c] # "returned"
      BY <2>2 DEF TypeOK
    <3>2. QED
      BY <3>1, InvokeValid
  <2>7. MemorySafe'
    BY <2>3 DEF Touch, Sequential, MemorySafe
  <2>8. QED
    BY <2>3, <2>4, <2>5, <2>6, <2>7 DEF Sequential
<1>2. CASE AnyCloseNull(c)
  <2>1. /\ pc[c] = "idle" /\ pc' = [pc EXCEPT ![c] = "returned"]
        /\ \A d \in Calls : d # c => op'[d] = op[d]
        /\ UNCHANGED <<frame, heap, first, last, sess_, fate, stale>>
    BY <1>2 DEF AnyCloseNull, CloseNull, queueVars, TypeOK
  <2>2. Live' = Live /\ c \notin Live
    BY <2>1 DEF Live, TypeOK
  <2>3. \A d \in Live : Valid(d)'
    <3>1. \A d \in Live : op'[d] = op[d] /\ Valid(d)
      BY <2>1, <2>2 DEF Live, Sequential
    <3>2. QED
      BY <2>1, <3>1 DEF Valid
  <2>4. QED
    BY <2>1, <2>2, <2>3 DEF Sequential, MemorySafe
<1>3. QED
  BY <1>1, <1>2, InvokeCases

(* A packet is read along a list of one: it completes the call's response,  *)
(* and last forgets it, or nothing.                                         *)
LEMMA CompleteSequential ==
    ASSUME TypeOK, FrameType, Sequential, NEW c \in Live, ~heap[frame[c]].completed,
           NEW p, complete(p)
    PROVE  /\ UNCHANGED <<first, fate, stale>>
           /\ heap'[frame[c]].next = NULL
           /\ last' = IF heap'[frame[c]].completed THEN NULL ELSE frame[c]
<1>1. /\ first = frame[c] /\ first \in Frames /\ heap[first].next = NULL
      /\ last = first /\ first \in Held
  BY DEF Sequential, FrameType, Held
<1>2. hop[0] = first /\ \A n \in Steps : n # 0 => hop[n] = NULL
  BY <1>1, HopOne
<1>3. \A n \in Steps : hop[n] \in Frames => n = 0 /\ hop[n] = first
  BY <1>2, ClientAssumption
<1>4. CASE \E n \in Hits(p.request_id) :
            LET it == hop[n]
            IN  /\ last' = NewLast(it)
                /\ heap' = [heap EXCEPT ![it].completed = TRUE,
                                        ![it].ec = Outcome(heap[it].kind, p.body)]
                /\ Touch(Visited(n))
                /\ first' = first
  <2>1. PICK n \in Hits(p.request_id) :
            LET it == hop[n]
            IN  /\ last' = NewLast(it)
                /\ heap' = [heap EXCEPT ![it].completed = TRUE,
                                        ![it].ec = Outcome(heap[it].kind, p.body)]
                /\ Touch(Visited(n))
                /\ first' = first
    BY <1>4
  <2>2. n = 0 /\ hop[n] = first
    BY <1>3 DEF Hits
  <2>3. /\ last' = NULL /\ first' = first
        /\ heap' = [heap EXCEPT ![first].completed = TRUE,
                                ![first].ec = Outcome(heap[first].kind, p.body)]
    BY <1>1, <2>1, <2>2 DEF NewLast
  <2>4. heap'[first].completed /\ heap'[first].next = NULL
    BY <1>1, <2>3 DEF TypeOK, Response
  <2>5. Visited(n) \subseteq Held
    <3>1. Visited(0) \subseteq {first}
      BY <1>2 DEF Visited
    <3>2. QED
      BY <1>1, <2>2, <3>1
  <2>6. UNCHANGED <<fate, stale>>
    BY <2>1, <2>5 DEF Touch
  <2>7. QED
    BY <1>1, <2>3, <2>4, <2>6
<1>5. CASE Touch(Chain) /\ UNCHANGED queueVars
  <2>1. Chain \subseteq Held
    BY <1>1, <1>3 DEF Chain
  <2>2. QED
    BY <1>1, <1>5, <2>1 DEF Touch, queueVars
<1>6. QED
  BY <1>4, <1>5 DEF complete

(* What one call does keeps its list of one, until it returns. *)
LEMMA OldCallSequential ==
    ASSUME Events = {}, TypeOK, FrameType, AnswerInv, Calm, ReaderIsUnanswered, Sequential,
           NEW c \in Calls, OldCallStep(c)
    PROVE  Sequential'
<1>1. UNCHANGED <<op, frame>> /\ c \in Live
  BY OldCallStepKeeps
<1>2. Live = {c}
  BY <1>1 DEF Sequential
<1>3. pc'[c] # "idle" /\ \A d \in Calls : d # c => pc'[d] = pc[d]
  BY OldCallStepReturns
<1>4. Live' = IF pc'[c] = "returned" THEN {} ELSE {c}
  BY <1>2, <1>3 DEF Live
<1>5. /\ first' = first /\ MemorySafe'
      /\ heap'[frame[c]].next = NULL
      /\ last' = IF heap'[frame[c]].completed THEN NULL ELSE frame[c]
  <2>1. CASE ReadPacket(c)
    <3>1. ~heap[frame[c]].completed /\ complete(Head(fromServer))
      BY <2>1 DEF ReadPacket, Reading, ReaderIsUnanswered
    <3>2. QED
      BY <1>1, <3>1, CompleteSequential DEF Sequential, MemorySafe
  <2>2. CASE UNCHANGED <<heap, first, last, stale>> /\ fate' # "crashed"
    BY <1>1, <2>2 DEF Sequential, MemorySafe
  <2>3. CASE \/ StartWrite(c) \/ Transmit(c) \/ FinishWrite(c) \/ WakeAnswered(c)
             \/ StartRead(c)
    BY <2>2, <2>3 DEF StartWrite, Transmit, FinishWrite, WakeAnswered, StartRead, queueVars,
                      Sequential, MemorySafe
  <2>4. CASE \E ec \in {"connection_lost", "canceled"} : Spin(c, ec)
    BY <2>2, <2>4 DEF Spin, queueVars
  <2>5. ~NullDeref(c)
    BY <1>1 DEF NullDeref, Sequential
  <2>6. ~ReadRunt(c)
    <3>1. fromServer # <<>> => Head(fromServer) # Runt
      BY DEF Calm, TypeOK
    <3>2. QED
      BY <3>1 DEF ReadRunt
  <2>7. /\ ~LockFails(c)
        /\ \A ec \in {"connection_lost", "canceled"} : ~WriteFails(c, ec) /\ ~ReadFails(c, ec)
    BY DEF Calm, LockFails, WriteFails, ReadFails, ReadError
  <2>8. QED
    BY <2>1, <2>3, <2>4, <2>5, <2>6, <2>7 DEF OldCallStep, CallStep
<1>6. CASE pc'[c] = "returned"
  <2>1. heap'[frame[c]].completed
    BY <1>6, CalmCallStep
  <2>2. QED
    BY <1>4, <1>5, <1>6, <2>1 DEF Sequential
<1>7. CASE pc'[c] # "returned"
  <2>1. sess_' = sess_
    BY <1>7, OldCallStepWaits
  <2>2. Valid(c)'
    BY <1>1, <2>1 DEF Sequential, Valid
  <2>3. QED
    BY <1>1, <1>4, <1>5, <1>7, <2>2 DEF Sequential
<1>8. QED
  BY <1>6, <1>7

(* The step of Sequential. *)
LEMMA SequentialStep ==
    ASSUME MaxInFlight = 1, Events = {}, TypeOK, FrameType, AnswerInv, Calm,
           ReaderIsUnanswered, Sequential, [Next]_vars
    PROVE  Sequential'
<1>1. ASSUME NEW c \in Calls, Invoke(c) PROVE Sequential'
  BY <1>1, InvokeSequential
<1>2. ASSUME NEW c \in Calls, OldCallStep(c) PROVE Sequential'
  BY <1>2, OldCallSequential
<1>3. CASE WorldStep \/ UNCHANGED vars
  <2>1. UNCHANGED <<pc, op, frame>>
    BY <1>3, WorldKeepsCalls DEF callVars
  <2>2. UNCHANGED <<heap, first, last, sess_, fate, stale>>
    BY <1>3 DEF WorldStep, ServerReply, ServerRunt, Break, Destroy, Done, vars, queueVars
  <2>3. Live' = Live
    BY <2>1 DEF Live
  <2>4. QED
    BY <2>1, <2>2, <2>3 DEF Sequential, MemorySafe, Valid
<1>4. QED
  BY <1>1, <1>2, <1>3, NextByInvoke

(* Sequential is an invariant of sequential use. *)
LEMMA SequentialUse ==
    ASSUME MaxInFlight = 1, Events = {}
    PROVE  Spec => [](TypeOK /\ FrameType /\ Sequential)
<1> DEFINE I == /\ TypeOK /\ MutexInv /\ FrameType /\ AnswerInv /\ Calm
                /\ SuccessIsAnswered /\ ReaderIsUnanswered /\ Sequential
<1>1. Init => I
  <2>1. Init => /\ FrameType /\ AnswerInv /\ Calm /\ SuccessIsAnswered
                /\ ReaderIsUnanswered /\ Sequential
    BY DEF Init, AnswerInv, ResponsesOwn, PacketsSent, ResultsOwn, IdleFresh, Live,
           FrameType, Calm, SuccessIsAnswered, ReaderIsUnanswered, Sequential, MemorySafe
  <2>2. QED
    BY <2>1, TypeInit, MutexInit
<1>2. I /\ [Next]_vars => I'
  BY TypeStep, AnswerStep, CalmStep, ReaderStep, SequentialStep
<1>3. QED
  BY <1>1, <1>2, PTL DEF Spec

(* An application that makes one call at a time, whatever it calls and      *)
(* whatever the server answers, never makes the queue touch a response that *)
(* was freed, nor an operation use a file or dir that was closed, as long   *)
(* as nothing fails: last has forgotten each response before its call       *)
(* returns.  (With two calls at a time, a failed write, a short packet, or  *)
(* in the destructor of the session, it does.)                              *)
THEOREM SequentialMemorySafe ==
    ASSUME MaxInFlight = 1, Events = {}
    PROVE  Spec => []MemorySafe
<1>1. Sequential => MemorySafe
  BY DEF Sequential
<1>2. QED
  BY <1>1, SequentialUse, PTL

(* The response of a call made alone is on the list that complete walks     *)
(* until it is completed: its reply cannot get lost.                        *)
THEOREM SequentialQueued ==
    ASSUME MaxInFlight = 1, Events = {}
    PROVE  Spec => []PendingIsQueued
<1>1. TypeOK /\ FrameType /\ Sequential => PendingIsQueued
  <2> SUFFICES ASSUME TypeOK, FrameType, Sequential, NEW c \in Live
               PROVE  frame[c] \in Chain
    BY DEF PendingIsQueued
  <2>1. first = frame[c] /\ first \in Frames /\ heap[first].next = NULL
    BY DEF Sequential, FrameType
  <2>2. hop[0] = first
    BY <2>1, HopOne
  <2>3. QED
    BY <2>1, <2>2, StepsNat DEF Chain
<1>2. QED
  BY <1>1, SequentialUse, PTL
=============================================================================
