--------------------------- MODULE SftpCallsProofs --------------------------
(* SftpClient implements SftpCalls, and what else an application sees. *)
EXTENDS SftpClientProofs

-----------------------------------------------------------------------------
(* Request ids. *)

(* Each call that has an id has one of its own. *)
IdsOwn ==
    /\ \A c \in Calls : id[c] # NoId => id[c] < request_id_gen
    /\ \A c, d \in Calls : id[c] # NoId /\ id[c] = id[d] => c = d

(* The ids the server has been asked, answered already or not. *)
Asked == toServer \cup {p.request_id : p \in sent}

(* Every one of them was asked by a call that has written its request. *)
AskedByCalls ==
    \A i \in Asked :
        \E c \in Calls : id[c] = i /\ pc[c] \notin {"idle", "lock_write", "writing"}

(* The server answers what it was asked, once. *)
AnsweredOnce ==
    /\ \A p \in sent : p.request_id \notin toServer
    /\ \A p, q \in sent : p.request_id = q.request_id => p = q

IdInv == IdsOwn /\ AskedByCalls /\ AnsweredOnce

(* A call that has not written its request was not answered. *)
LEMMA UnwrittenUnasked ==
    ASSUME TypeOK, IdInv, NEW c \in Calls, pc[c] \in {"idle", "lock_write", "writing"},
           id[c] # NoId
    PROVE  id[c] \notin Asked
BY DEF IdInv, IdsOwn, AskedByCalls, TypeOK

(* The id the next request gets has not been used. *)
LEMMA NextIdUnasked ==
    ASSUME TypeOK, IdInv
    PROVE  request_id_gen \notin Asked /\ NoId \notin Asked
<1>1. \A i \in Asked : i \in Nat
  BY DEF Asked, TypeOK, Packets, Ids
<1>2. \A i \in Asked : i # NoId
  BY <1>1 DEF NoId
<1>3. \A i \in Asked : i < request_id_gen
  BY <1>2 DEF IdInv, IdsOwn, AskedByCalls
<1>4. QED
  BY <1>1, <1>2, <1>3 DEF TypeOK

(* Only requests hand out ids, and each hands out the next one. *)
LEMMA IdsOwnStep ==
    ASSUME TypeOK, IdsOwn, [Next]_vars
    PROVE  IdsOwn'
<1>0. id \in [Calls -> Int] /\ request_id_gen \in Nat
  BY DEF TypeOK, Ids, NoId
<1>1. CASE UNCHANGED <<id, request_id_gen>>
  BY <1>1 DEF IdsOwn
<1>2. CASE \E c \in Calls : AnyRequest(c)
  <2>1. PICK c \in Calls : /\ id' = [id EXCEPT ![c] = request_id_gen]
                           /\ request_id_gen' = request_id_gen + 1
    BY <1>2 DEF AnyRequest, Request, enqueue_response
  <2>2. /\ id'[c] = request_id_gen
        /\ \A d \in Calls : d # c => id'[d] = id[d]
    BY <1>0, <2>1
  <2>3. \A d \in Calls : id'[d] # NoId => id'[d] < request_id_gen'
    BY <1>0, <2>1, <2>2 DEF IdsOwn
  <2>4. \A d, e \in Calls : id'[d] # NoId /\ id'[d] = id'[e] => d = e
    BY <1>0, <2>2 DEF IdsOwn
  <2>5. QED
    BY <2>3, <2>4 DEF IdsOwn
<1>3. CASE \E c \in Calls : AnyCloseNull(c)
  BY <1>1, <1>3 DEF AnyCloseNull, CloseNull, queueVars
<1>4. CASE \E c \in Calls : OldCallStep(c)
  <2>1. PICK c \in Calls : OldCallStep(c)
    BY <1>4
  <2>2. UNCHANGED id
    BY <2>1, OldCallStepKeeps
  <2>3. UNCHANGED request_id_gen
    BY <2>1 DEF OldCallStep, CallStep, StartWrite, Transmit, FinishWrite, LockFails,
                WakeAnswered, StartRead, ReadPacket, ReadRunt, NullDeref, WriteFails,
                ReadFails, Spin, complete, cancel_all, queueVars
  <2>4. QED
    BY <1>1, <2>2, <2>3
<1>5. CASE WorldStep \/ UNCHANGED vars
  BY <1>1, <1>5 DEF WorldStep, ServerReply, ServerRunt, Break, Destroy, Done, cancel_all,
                    vars, callVars, queueVars
<1>6. QED
  BY <1>2, <1>3, <1>4, <1>5, NextCases DEF OldCallStep

(* Which step changes what the server has been asked, and what it answered. *)
LEMMA AskedStep ==
    ASSUME TypeOK, [Next]_vars
    PROVE  \/ toServer' \subseteq toServer /\ sent' = sent
           \/ \E c \in Calls : Transmit(c)
           \/ \E i \in toServer, b \in Replies : ServerReply(i, b)
<1>1. CASE \E c \in Calls :
             \/ AnyRequest(c) \/ AnyCloseNull(c) \/ StartWrite(c)
             \/ FinishWrite(c) \/ LockFails(c) \/ WakeAnswered(c) \/ StartRead(c)
  BY <1>1 DEF AnyRequest, Request, AnyCloseNull, CloseNull, StartWrite, FinishWrite,
              LockFails, WakeAnswered, StartRead, streamVars
<1>2. CASE \E c \in Calls :
             \/ ReadPacket(c) \/ ReadRunt(c) \/ NullDeref(c)
             \/ \E ec \in {"connection_lost", "canceled"} :
                    WriteFails(c, ec) \/ ReadFails(c, ec) \/ Spin(c, ec)
  BY <1>2 DEF ReadPacket, ReadRunt, WriteFails, ReadFails, Spin, NullDeref, streamVars
<1>3. CASE ServerRunt \/ Break \/ Destroy \/ Done \/ UNCHANGED vars
  BY <1>3 DEF ServerRunt, Break, Destroy, Done, vars, streamVars
<1>4. QED
  BY <1>1, <1>2, <1>3, NextCases DEF CallStep, WorldStep

(* A call that has written its request stays past writing it, with its id. *)
LEMMA PastWritingStep ==
    ASSUME TypeOK, [Next]_vars, NEW c \in Calls,
           pc[c] \notin {"idle", "lock_write", "writing"}
    PROVE  pc'[c] \notin {"idle", "lock_write", "writing"} /\ id'[c] = id[c]
<1>1. ASSUME NEW d \in Calls, AnyRequest(d) \/ AnyCloseNull(d) \/ StartWrite(d) \/ Transmit(d)
      PROVE  pc'[c] \notin {"idle", "lock_write", "writing"} /\ id'[c] = id[c]
  <2>1. /\ pc[d] \in {"idle", "lock_write", "writing"}
        /\ \A e \in Calls : e # d => pc'[e] = pc[e] /\ id'[e] = id[e]
    BY <1>1 DEF AnyRequest, Request, AnyCloseNull, CloseNull, StartWrite, Transmit, TypeOK
  <2>2. QED
    BY <2>1
<1>2. ASSUME NEW d \in Calls, FinishWrite(d) \/ LockFails(d) \/ WakeAnswered(d) \/ StartRead(d)
             \/ \E ec \in {"connection_lost", "canceled"} : WriteFails(d, ec)
      PROVE  pc'[c] \notin {"idle", "lock_write", "writing"} /\ id'[c] = id[c]
  BY <1>2 DEF FinishWrite, LockFails, WakeAnswered, StartRead, WriteFails, Return, Early, TypeOK
<1>3. ASSUME NEW d \in Calls, ReadPacket(d) \/ ReadRunt(d)
             \/ \E ec \in {"connection_lost", "canceled"} : ReadFails(d, ec)
      PROVE  pc'[c] \notin {"idle", "lock_write", "writing"} /\ id'[c] = id[c]
  <2>1. (Loop(d) \/ BreakLoop(d)) /\ id' = id
    BY <1>3 DEF ReadPacket, ReadRunt, ReadFails
  <2>2. QED
    BY <2>1 DEF Loop, BreakLoop, Return, TypeOK
<1>4. CASE \/ \E d \in Calls : \/ NullDeref(d)
                               \/ \E ec \in {"connection_lost", "canceled"} : Spin(d, ec)
           \/ WorldStep \/ UNCHANGED vars
  <2>1. UNCHANGED callVars
    BY <1>4, WorldKeepsCalls DEF NullDeref, Spin
  <2>2. QED
    BY <2>1 DEF callVars
<1>5. QED
  BY <1>1, <1>2, <1>3, <1>4, NextCases DEF CallStep

(* The step of IdInv. *)
LEMMA IdStep ==
    ASSUME TypeOK, FrameType, IdInv, [Next]_vars
    PROVE  IdInv'
<1>1. IdsOwn'
  BY IdsOwnStep DEF IdInv
<1>2. CASE toServer' \subseteq toServer /\ sent' = sent
  <2>1. Asked' \subseteq Asked
    BY <1>2 DEF Asked
  <2>2. AskedByCalls'
    BY <2>1, PastWritingStep DEF IdInv, AskedByCalls
  <2>3. AnsweredOnce'
    BY <1>2 DEF IdInv, AnsweredOnce
  <2>4. QED
    BY <1>1, <2>2, <2>3 DEF IdInv
<1>3. CASE \E c \in Calls : Transmit(c)
  <2>1. PICK c \in Calls : Transmit(c)
    BY <1>3
  <2>2. /\ pc[c] = "writing" /\ pc'[c] = "written" /\ id' = id
        /\ toServer' = toServer \cup {id[c]} /\ sent' = sent
    BY <2>1 DEF Transmit, Sends, TypeOK
  <2>3. id[c] \notin Asked
    <3>1. id[c] # NoId
      BY <2>2 DEF FrameType, Live, NoId, Ids
    <3>2. QED
      BY <2>2, <3>1, UnwrittenUnasked
  <2>4. Asked' = Asked \cup {id[c]}
    BY <2>2 DEF Asked
  <2>5. AskedByCalls'
    BY <2>2, <2>4, PastWritingStep DEF IdInv, AskedByCalls
  <2>6. AnsweredOnce'
    BY <2>2, <2>3 DEF IdInv, AnsweredOnce, Asked
  <2>7. QED
    BY <1>1, <2>5, <2>6 DEF IdInv
<1>4. CASE \E i \in toServer, b \in Replies : ServerReply(i, b)
  <2>1. PICK i \in toServer, b \in Replies : ServerReply(i, b)
    BY <1>4
  <2> DEFINE q == [request_id |-> i, body |-> b]
  <2>2. toServer' = toServer \ {i} /\ sent' = sent \cup {q} /\ q.request_id = i
    BY <2>1 DEF ServerReply
  <2> HIDE DEF q
  <2>3. Asked' = Asked
    BY <2>2 DEF Asked
  <2>4. AskedByCalls'
    BY <2>3, PastWritingStep DEF IdInv, AskedByCalls
  <2>5. AnsweredOnce'
    BY <2>2 DEF IdInv, AnsweredOnce
  <2>6. QED
    BY <1>1, <2>4, <2>5 DEF IdInv
<1>5. QED
  BY <1>2, <1>3, <1>4, AskedStep

-----------------------------------------------------------------------------
(* Refinement. *)

(* The abstract calls read an answer the way the response classes do. *)
LEMMA SameOutcome ==
    /\ Abstract!Kinds = Kinds
    /\ \A k, b : Abstract!Outcome(k, b) = Outcome(k, b)
<1>1. Abstract!Kinds = Kinds
  BY DEF Kinds, Abstract!Kinds
<1>2. ASSUME NEW b
      PROVE  /\ Abstract!status_response(b) = status_response(b)
             /\ Abstract!handle_response(b) = handle_response(b)
             /\ Abstract!dir_entry_response(b) = dir_entry_response(b)
             /\ Abstract!data_response(b) = data_response(b)
             /\ Abstract!attrs_response(b) = attrs_response(b)
             /\ Abstract!name_response(b) = name_response(b)
  BY DEF status_response, Abstract!status_response,
         handle_response, Abstract!handle_response,
         dir_entry_response, Abstract!dir_entry_response,
         data_response, Abstract!data_response,
         attrs_response, Abstract!attrs_response,
         name_response, Abstract!name_response,
         OnStatus, Abstract!OnStatus, CodeError, Abstract!CodeError,
         Parsed, Abstract!Parsed
<1>3. ASSUME NEW k, NEW b PROVE Abstract!Outcome(k, b) = Outcome(k, b)
  BY <1>2 DEF Outcome, Abstract!Outcome
<1>4. QED
  BY <1>1, <1>3

(* The answer to a call is the body of the one packet with its id. *)
LEMMA AnswerBarOf ==
    ASSUME IdInv, NEW c \in Calls
    PROVE  /\ \A p \in sent : p.request_id = id[c] => AnswerBar[c] = p.body
           /\ (\A p \in sent : p.request_id # id[c]) => AnswerBar[c] = NULL
<1>1. ASSUME NEW p \in sent, p.request_id = id[c]
      PROVE  AnswerBar[c] = p.body
  <2> DEFINE q == CHOOSE q \in sent : q.request_id = id[c]
  <2>1. q \in sent /\ q.request_id = id[c]
    BY <1>1
  <2>2. q = p
    BY <1>1, <2>1 DEF IdInv, AnsweredOnce
  <2>3. QED
    BY <1>1, <2>2 DEF AnswerBar
<1>2. QED
  BY <1>1 DEF AnswerBar

(* A request is an Invoke: its new id has no answer yet. *)
LEMMA RequestRefines ==
    ASSUME TypeOK, IdInv, IdInv', AnswerInv, NEW c \in Calls, AnyRequest(c)
    PROVE  Abstract!Invoke(c)
<1>1. PICK f \in Frames, name \in AllOps, response \in Kinds, obj \in Objs \cup {NULL} :
          Request(c, f, name, response, obj)
  BY DEF AnyRequest
<1>2. /\ pc[c] = "idle" /\ pc' = [pc EXCEPT ![c] = "lock_write"]
      /\ op' = [op EXCEPT ![c] = [name |-> name, response |-> response, obj |-> obj]]
      /\ id' = [id EXCEPT ![c] = request_id_gen]
      /\ UNCHANGED <<result, sent>>
  BY <1>1 DEF Request, streamVars
<1>3. PhaseBar[c] = "idle" /\ PhaseBar' = [PhaseBar EXCEPT ![c] = "pending"]
  BY <1>2 DEF PhaseBar, TypeOK
<1>4. KindBar' = [KindBar EXCEPT ![c] = response]
  BY <1>2 DEF KindBar, TypeOK
<1>5. AnswerBar' = AnswerBar
  <2>1. ASSUME NEW d \in Calls PROVE AnswerBar'[d] = AnswerBar[d]
    <3>1. CASE d # c
      <4>1. id'[d] = id[d] /\ sent' = sent
        BY <1>2, <3>1 DEF TypeOK
      <4>2. QED
        BY <4>1 DEF AnswerBar
    <3>2. CASE d = c
      <4>1. id[c] = NoId /\ id'[c] = request_id_gen
        BY <1>2 DEF AnswerInv, IdleFresh, TypeOK
      <4>2. \A p \in sent : p.request_id # id[c] /\ p.request_id # id'[c]
        BY <4>1, NextIdUnasked DEF Asked
      <4>3. AnswerBar[c] = NULL
        BY <4>2 DEF AnswerBar
      <4>4. AnswerBar'[c] = NULL
        BY <1>2, <4>2 DEF AnswerBar
      <4>5. QED
        BY <3>2, <4>3, <4>4
    <3>3. QED
      BY <3>1, <3>2
  <2>2. QED
    BY <2>1 DEF AnswerBar
<1>6. QED
  BY <1>2, <1>3, <1>4, <1>5, SameOutcome DEF Abstract!Invoke

(* A close of what is not open is a Skip. *)
LEMMA CloseNullRefines ==
    ASSUME TypeOK, NEW c \in Calls, AnyCloseNull(c)
    PROVE  Abstract!Skip(c)
<1>1. /\ pc[c] = "idle" /\ pc' = [pc EXCEPT ![c] = "returned"]
      /\ \E name \in Closes, h \in Objs :
            op' = [op EXCEPT ![c] = [name |-> name, response |-> "status", obj |-> h]]
      /\ UNCHANGED <<id, result, sent>>
  BY DEF AnyCloseNull, CloseNull, streamVars
<1>2. PhaseBar[c] = "idle" /\ PhaseBar' = [PhaseBar EXCEPT ![c] = "done"]
  BY <1>1 DEF PhaseBar, TypeOK
<1>3. KindBar' = [KindBar EXCEPT ![c] = "status"]
  <2>1. PICK name \in Closes, h \in Objs :
            op' = [op EXCEPT ![c] = [name |-> name, response |-> "status", obj |-> h]]
    BY <1>1
  <2>2. op'[c].response = "status" /\ \A d \in Calls : d # c => op'[d] = op[d]
    BY <2>1 DEF TypeOK
  <2>3. QED
    BY <2>2 DEF KindBar
<1>4. AnswerBar' = AnswerBar
  BY <1>1 DEF AnswerBar
<1>5. QED
  BY <1>1, <1>2, <1>3, <1>4 DEF Abstract!Skip

(* A call has no result, and opens and closes nothing, before it returns. *)
LEMMA OldCallStepWaits ==
    ASSUME TypeOK, NEW c \in Calls, OldCallStep(c), pc'[c] # "returned"
    PROVE  UNCHANGED <<result, sess_>>
<1>1. CASE StartWrite(c) \/ Transmit(c) \/ StartRead(c) \/ FinishWrite(c) \/ WakeAnswered(c)
  BY <1>1 DEF StartWrite, Transmit, StartRead, FinishWrite, WakeAnswered, Return, TypeOK
<1>2. CASE LockFails(c) \/ \E ec \in {"connection_lost", "canceled"} : WriteFails(c, ec)
  BY <1>2 DEF LockFails, WriteFails, Early, TypeOK
<1>3. CASE \/ ReadPacket(c) \/ ReadRunt(c)
           \/ \E ec \in {"connection_lost", "canceled"} : ReadFails(c, ec)
  <2>1. Loop(c) \/ BreakLoop(c)
    BY <1>3 DEF ReadPacket, ReadRunt, ReadFails
  <2>2. QED
    BY <2>1 DEF Loop, BreakLoop, Return, TypeOK
<1>4. CASE NullDeref(c) \/ \E ec \in {"connection_lost", "canceled"} : Spin(c, ec)
  BY <1>4 DEF NullDeref, Spin, callVars
<1>5. QED
  BY <1>1, <1>2, <1>3, <1>4 DEF OldCallStep, CallStep

(* What a call does between the request and its return is not seen, and it  *)
(* returns what its response class makes of its answer.                     *)
LEMMA OldCallRefines ==
    ASSUME Events \subseteq {"destroy"}, TypeOK, TypeOK', FrameType, AnswerInv, Calm, IdInv,
           NEW c \in Calls, OldCallStep(c)
    PROVE  Abstract!Finish(c) \/ UNCHANGED Abstract!vars
<1>1. UNCHANGED <<op, id, frame, sent>> /\ c \in Live /\ KeepsOwn
  BY OldCallStepKeeps, OldCallStepKeepsOwn
<1>2. /\ \A d \in Calls : d # c => pc'[d] = pc[d] /\ result'[d] = result[d]
      /\ pc'[c] # "idle"
  BY OldCallStepReturns
<1>3. KindBar' = KindBar /\ AnswerBar' = AnswerBar
  BY <1>1 DEF KindBar, AnswerBar
<1>4. CASE pc'[c] # "returned"
  <2>1. UNCHANGED result
    BY <1>4, OldCallStepWaits
  <2>2. PhaseBar' = PhaseBar
    BY <1>1, <1>2, <1>4 DEF PhaseBar, Live
  <2>3. QED
    BY <1>3, <2>1, <2>2 DEF Abstract!vars
<1>5. CASE pc'[c] = "returned"
  <2>1. PhaseBar[c] = "pending" /\ PhaseBar' = [PhaseBar EXCEPT ![c] = "done"]
    BY <1>1, <1>2, <1>5 DEF PhaseBar, Live
  <2>2. /\ heap'[frame[c]].completed /\ result'[c] = heap'[frame[c]].ec
        /\ heap'[frame[c]].ec \notin TransportErrors
    BY <1>1, <1>5, CalmCallStep
  <2>3. Answered(c, result'[c])
    BY <1>1, <2>2 DEF KeepsOwn, OwnResponse
  <2>4. PICK p \in sent : p.request_id = id[c] /\ result'[c] = Outcome(op[c].response, p.body)
    BY <2>3 DEF Answered
  <2>5. AnswerBar[c] = p.body /\ p.body \in Body
    BY <2>4, AnswerBarOf DEF TypeOK, Packets
  <2>6. AnswerBar[c] # NULL
    BY <2>5, ClientAssumption
  <2>7. result'[c] = Abstract!Outcome(KindBar[c], AnswerBar[c])
    BY <2>4, <2>5, SameOutcome DEF KindBar
  <2>8. result' = [result EXCEPT ![c] = Abstract!Outcome(KindBar[c], AnswerBar[c])]
    BY <1>2, <2>7 DEF TypeOK
  <2>9. QED
    BY <1>3, <2>1, <2>6, <2>8 DEF Abstract!Finish
<1>6. QED
  BY <1>4, <1>5

(* The server's reply is the call's one answer; nothing else around the     *)
(* calls is seen.                                                           *)
LEMMA WorldRefines ==
    ASSUME TypeOK, IdInv, IdInv', WorldStep \/ UNCHANGED vars
    PROVE  \/ \E c \in Calls, b \in Replies : Abstract!Answer(c, b)
           \/ UNCHANGED Abstract!vars
<1>1. UNCHANGED <<pc, op, id, result>> /\ PhaseBar' = PhaseBar /\ KindBar' = KindBar
  <2>1. UNCHANGED <<pc, op, id, result>>
    BY WorldKeepsCalls DEF callVars
  <2>2. QED
    BY <2>1 DEF PhaseBar, KindBar
<1>2. ASSUME NEW i \in toServer, NEW b \in Replies, ServerReply(i, b)
      PROVE  \E c \in Calls : Abstract!Answer(c, b)
  <2> DEFINE q == [request_id |-> i, body |-> b]
  <2>1. sent' = sent \cup {q} /\ q.request_id = i /\ q.body = b
    BY <1>2 DEF ServerReply
  <2> HIDE DEF q
  <2>2. PICK c \in Calls : id[c] = i /\ pc[c] # "idle"
    BY DEF IdInv, AskedByCalls, Asked
  <2>3. \A p \in sent : p.request_id # i
    BY DEF IdInv, AnsweredOnce
  <2>4. AnswerBar[c] = NULL
    BY <2>2, <2>3 DEF AnswerBar
  <2>5. AnswerBar'[c] = b
    <3>1. \A p \in sent' : p.request_id = i <=> p = q
      BY <2>1, <2>3
    <3>2. (CHOOSE p \in sent' : p.request_id = i) = q /\ \E p \in sent' : p.request_id = i
      BY <2>1, <3>1
    <3>3. QED
      BY <1>1, <2>1, <2>2, <3>2 DEF AnswerBar
  <2>6. ASSUME NEW d \in Calls, d # c PROVE AnswerBar'[d] = AnswerBar[d]
    <3>1. id[d] # i
      <4>1. i # NoId
        BY DEF TypeOK, Ids, NoId
      <4>2. QED
        BY <2>2, <2>6, <4>1 DEF IdInv, IdsOwn
    <3>2. \A p : p \in sent' /\ p.request_id = id[d] <=> p \in sent /\ p.request_id = id[d]
      BY <2>1, <3>1
    <3>3. CASE \E p \in sent : p.request_id = id[d]
      <4>1. PICK p \in sent : p.request_id = id[d]
        BY <3>3
      <4>2. AnswerBar[d] = p.body
        BY <4>1, AnswerBarOf
      <4>3. p \in sent' /\ \A r \in sent' : r.request_id = id[d] => r = p
        BY <3>2, <4>1 DEF IdInv, AnsweredOnce
      <4>4. AnswerBar'[d] = p.body
        BY <1>1, <4>1, <4>3 DEF AnswerBar
      <4>5. QED
        BY <4>2, <4>4
    <3>4. CASE \A p \in sent : p.request_id # id[d]
      BY <1>1, <3>2, <3>4 DEF AnswerBar
    <3>5. QED
      BY <3>3, <3>4
  <2>7. AnswerBar' = [AnswerBar EXCEPT ![c] = b]
    <3>1. /\ AnswerBar = [d \in Calls |-> AnswerBar[d]]
          /\ AnswerBar' = [d \in Calls |-> AnswerBar'[d]]
      BY DEF AnswerBar
    <3> HIDE DEF AnswerBar
    <3>2. QED
      BY <2>5, <2>6, <3>1
  <2>8. PhaseBar[c] # "idle"
    BY <2>2 DEF PhaseBar, TypeOK, PCs
  <2>9. QED
    BY <1>1, <2>4, <2>7, <2>8 DEF Abstract!Answer
<1>3. CASE ServerRunt \/ Break \/ Destroy \/ Done \/ UNCHANGED vars
  <2>1. sent' = sent
    BY <1>3 DEF ServerRunt, Break, Destroy, Done, vars, streamVars
  <2>2. AnswerBar' = AnswerBar
    BY <1>1, <2>1 DEF AnswerBar
  <2>3. QED
    BY <1>1, <2>2 DEF Abstract!vars
<1>4. QED
  BY <1>2, <1>3 DEF WorldStep

(* Seen from outside, the session is a set of independent calls, each of    *)
(* which returns what its own response class makes of the one answer the    *)
(* server gave to it: for any number of calls that share the stream, in any *)
(* interleaving, with any number of pending responses, while the stream     *)
(* works and nothing is cancelled.  (Short packets, a lost connection and   *)
(* cancellation are excluded because the code then returns success to calls *)
(* that were never answered.)                                               *)
THEOREM ImplementsCalls ==
    ASSUME Events \subseteq {"destroy"}
    PROVE  Spec => RefinesCalls
<1> DEFINE I == /\ TypeOK /\ MutexInv /\ FrameType /\ AnswerInv /\ Calm
                /\ SuccessIsAnswered /\ IdInv
<1>1. Init => I
  <2>1. Init => FrameType /\ AnswerInv /\ Calm /\ SuccessIsAnswered
    BY DEF Init, AnswerInv, ResponsesOwn, PacketsSent, ResultsOwn, IdleFresh, Live,
           FrameType, Calm, SuccessIsAnswered
  <2>2. Init => IdInv
    BY DEF Init, IdInv, IdsOwn, AskedByCalls, Asked, AnsweredOnce
  <2>3. QED
    BY <2>1, <2>2, TypeInit, MutexInit
<1>2. I /\ [Next]_vars => I'
  BY TypeStep, AnswerStep, CalmStep, IdStep
<1>3. Init => Abstract!Init
  <2> SUFFICES ASSUME Init PROVE Abstract!Init
    OBVIOUS
  <2>1. PhaseBar = [c \in Calls |-> "idle"] /\ AnswerBar = [c \in Calls |-> NULL]
    BY DEF Init, PhaseBar, AnswerBar
  <2>2. KindBar \in [Calls -> Kinds]
    BY DEF Init, KindBar, Kinds
  <2>3. QED
    BY <2>1, <2>2, SameOutcome DEF Init, Abstract!Init
<1>4. I /\ I' /\ [Next]_vars => [Abstract!Next]_(Abstract!vars)
  <2> SUFFICES ASSUME I, I', [Next]_vars PROVE [Abstract!Next]_(Abstract!vars)
    OBVIOUS
  <2>1. ASSUME NEW c \in Calls, AnyRequest(c) PROVE Abstract!Invoke(c)
    BY <2>1, RequestRefines
  <2>2. ASSUME NEW c \in Calls, AnyCloseNull(c) PROVE Abstract!Skip(c)
    BY <2>2, CloseNullRefines
  <2>3. ASSUME NEW c \in Calls, OldCallStep(c)
        PROVE  Abstract!Finish(c) \/ UNCHANGED Abstract!vars
    BY <2>3, OldCallRefines
  <2>4. CASE WorldStep \/ UNCHANGED vars
    BY <2>4, WorldRefines DEF Abstract!Next
  <2>5. QED
    BY <2>1, <2>2, <2>3, <2>4, NextCases DEF Abstract!Next, OldCallStep
<1>5. QED
  BY <1>1, <1>2, <1>3, <1>4, PTL DEF Spec, RefinesCalls, Abstract!Spec

-----------------------------------------------------------------------------
(* An answer stays. *)

(* The packets that have not been read. *)
InTransit == {fromServer[k] : k \in 1 .. Len(fromServer)}

(* No reply is on its way twice. *)
NoDuplicates ==
    \A j, k \in 1 .. Len(fromServer) :
        fromServer[j] = fromServer[k] /\ fromServer[j] # Runt => j = k

(* While the stream works, a response is completed by reading its packet. *)
Delivered ==
    up => \A c \in Live :
            heap[frame[c]].completed =>
                \E p \in sent \ InTransit : p.request_id = id[c]

(* Which step changes what is on its way. *)
LEMMA TransitStep ==
    ASSUME TypeOK, [Next]_vars
    PROVE  \/ UNCHANGED <<fromServer, sent, up>>
           \/ \E c \in Calls : ReadPacket(c)
           \/ \E i \in toServer, b \in Replies : ServerReply(i, b)
           \/ ServerRunt \/ Break
<1>1. CASE \E c \in Calls :
             \/ AnyRequest(c) \/ AnyCloseNull(c) \/ StartWrite(c) \/ Transmit(c)
             \/ FinishWrite(c) \/ LockFails(c) \/ WakeAnswered(c) \/ StartRead(c)
  BY <1>1 DEF AnyRequest, Request, AnyCloseNull, CloseNull, StartWrite, Transmit,
              FinishWrite, LockFails, WakeAnswered, StartRead, streamVars
<1>2. CASE \E c \in Calls :
             \/ ReadRunt(c) \/ NullDeref(c)
             \/ \E ec \in {"connection_lost", "canceled"} :
                    WriteFails(c, ec) \/ ReadFails(c, ec) \/ Spin(c, ec)
  BY <1>2 DEF ReadRunt, WriteFails, ReadFails, Spin, NullDeref, streamVars
<1>3. CASE Destroy \/ Done \/ UNCHANGED vars
  BY <1>3 DEF Destroy, Done, vars, streamVars
<1>4. QED
  BY <1>1, <1>2, <1>3, NextCases DEF CallStep, WorldStep

(* A reply the server sends is not one of those it has sent. *)
LEMMA ReplyIsNew ==
    ASSUME TypeOK, PacketsSent, IdInv, NEW i \in toServer, NEW b
    PROVE  LET q == [request_id |-> i, body |-> b]
           IN  q \notin sent /\ q \notin InTransit /\ q # Runt
<1> DEFINE q == [request_id |-> i, body |-> b]
<1>1. q.request_id = i
  OBVIOUS
<1> HIDE DEF q
<1>2. q \notin sent
  BY <1>1 DEF IdInv, AnsweredOnce
<1>3. q # Runt
  <2>1. i \in Nat /\ Runt.request_id = -1
    BY DEF TypeOK, Ids, Runt, NoId
  <2>2. QED
    BY <1>1, <2>1
<1>4. q \notin InTransit
  BY <1>2, <1>3 DEF InTransit, PacketsSent
<1>5. QED
  BY <1>2, <1>3, <1>4 DEF q

(* The step of NoDuplicates. *)
LEMMA NoDuplicatesStep ==
    ASSUME TypeOK, PacketsSent, IdInv, NoDuplicates, [Next]_vars
    PROVE  NoDuplicates'
<1>0. fromServer \in Seq(Packets \cup {Runt})
  BY DEF TypeOK
<1>1. CASE UNCHANGED <<fromServer, sent, up>>
  BY <1>1 DEF NoDuplicates
<1>2. CASE \E c \in Calls : ReadPacket(c)
  <2>1. fromServer # <<>> /\ fromServer' = Tail(fromServer)
    BY <1>2 DEF ReadPacket
  <2>2. Len(fromServer') = Len(fromServer) - 1 /\ Len(fromServer) \in Nat
    BY <1>0, <2>1
  <2>3. \A k \in 1 .. Len(fromServer') :
            fromServer'[k] = fromServer[k + 1] /\ k + 1 \in 1 .. Len(fromServer)
    BY <1>0, <2>1, <2>2
  <2>4. ASSUME NEW j \in 1 .. Len(fromServer'), NEW k \in 1 .. Len(fromServer'),
               fromServer'[j] = fromServer'[k], fromServer'[j] # Runt
        PROVE  j = k
    <3>1. j + 1 = k + 1
      BY <2>3, <2>4 DEF NoDuplicates
    <3>2. QED
      BY <2>2, <3>1
  <2>5. QED
    BY <2>4 DEF NoDuplicates
<1>3. CASE \E i \in toServer, b \in Replies : ServerReply(i, b)
  <2>1. PICK q : fromServer' = Append(fromServer, q) /\ q \notin InTransit
    BY <1>3, ReplyIsNew DEF ServerReply
  <2>2. /\ Len(fromServer') = Len(fromServer) + 1 /\ Len(fromServer) \in Nat
        /\ \A k \in 1 .. Len(fromServer) : fromServer'[k] = fromServer[k] /\ fromServer[k] # q
        /\ fromServer'[Len(fromServer) + 1] = q
    BY <1>0, <2>1 DEF InTransit
  <2>3. \A k \in 1 .. Len(fromServer') :
            k \in 1 .. Len(fromServer) \/ k = Len(fromServer) + 1
    BY <2>2
  <2>4. QED
    BY <2>2, <2>3 DEF NoDuplicates
<1>4. CASE ServerRunt
  <2>1. fromServer' = Append(fromServer, Runt)
    BY <1>4 DEF ServerRunt
  <2>2. /\ Len(fromServer') = Len(fromServer) + 1 /\ Len(fromServer) \in Nat
        /\ \A k \in 1 .. Len(fromServer) : fromServer'[k] = fromServer[k]
        /\ fromServer'[Len(fromServer) + 1] = Runt
    BY <1>0, <2>1
  <2>3. \A k \in 1 .. Len(fromServer') :
            k \in 1 .. Len(fromServer) \/ k = Len(fromServer) + 1
    BY <2>2
  <2>4. QED
    BY <2>2, <2>3 DEF NoDuplicates
<1>5. CASE Break
  <2>1. PICK n \in 0 .. Len(fromServer) : fromServer' = SubSeq(fromServer, 1, n)
    BY <1>5 DEF Break
  <2>2. /\ Len(fromServer') <= Len(fromServer) /\ Len(fromServer') \in Nat
        /\ \A k \in 1 .. Len(fromServer') : fromServer'[k] = fromServer[k]
    BY <1>0, <2>1
  <2>3. \A k \in 1 .. Len(fromServer') : k \in 1 .. Len(fromServer)
    BY <1>0, <2>2
  <2>4. QED
    BY <2>2, <2>3 DEF NoDuplicates
<1>6. QED
  BY <1>1, <1>2, <1>3, <1>4, <1>5, TransitStep

(* Which step of a call changes the responses: reading. *)
LEMMA OldCallStepHeap ==
    ASSUME NEW c \in Calls, OldCallStep(c), "cancel" \notin Events, up
    PROVE  \/ UNCHANGED heap
           \/ ReadPacket(c)
BY DEF OldCallStep, CallStep, StartWrite, Transmit, FinishWrite, LockFails, WakeAnswered,
       StartRead, NullDeref, WriteFails, ReadRunt, ReadFails, ReadError, Spin, queueVars

(* A packet completes the responses with its id, and no others. *)
LEMMA CompleteHits ==
    ASSUME TypeOK, NEW p, complete(p), NEW f \in Frames
    PROVE  heap'[f] = heap[f] \/ heap[f].request_id = p.request_id
<1>1. CASE UNCHANGED queueVars
  BY <1>1 DEF queueVars
<1>2. CASE \E n \in Hits(p.request_id) :
             heap' = [heap EXCEPT ![hop[n]].completed = TRUE,
                                  ![hop[n]].ec = Outcome(heap[hop[n]].kind, p.body)]
  <2>1. PICK n \in Hits(p.request_id) :
             heap' = [heap EXCEPT ![hop[n]].completed = TRUE,
                                  ![hop[n]].ec = Outcome(heap[hop[n]].kind, p.body)]
    BY <1>2
  <2> DEFINE it == hop[n]
  <2>2. it \in Frames /\ heap[it].request_id = p.request_id
    BY DEF Hits
  <2>3. heap' = [heap EXCEPT ![it].completed = TRUE,
                             ![it].ec = Outcome(heap[it].kind, p.body)]
    BY <2>1
  <2> HIDE DEF it
  <2>4. QED
    BY <2>2, <2>3 DEF TypeOK
<1>3. QED
  BY <1>1, <1>2 DEF complete

(* A new response is not completed, and building it completes no other. *)
LEMMA EnqueueCompletes ==
    ASSUME TypeOK, NEW f \in Frames, NEW kind, enqueue_response(f, kind), NEW g \in Frames
    PROVE  /\ g # f => heap'[g].completed = heap[g].completed /\ heap'[g].ec = heap[g].ec
           /\ g = f => ~heap'[g].completed
BY DEF enqueue_response, Construct, TypeOK, Response

(* The packet a call reads was sent, and is not on its way again. *)
LEMMA HeadLeaves ==
    ASSUME TypeOK, PacketsSent, NoDuplicates, NEW c \in Calls, ReadPacket(c)
    PROVE  /\ Head(fromServer) \in sent \ InTransit'
           /\ Head(fromServer) \in InTransit
           /\ InTransit' \subseteq InTransit
<1>1. /\ fromServer \in Seq(Packets \cup {Runt}) /\ fromServer # <<>>
      /\ fromServer' = Tail(fromServer) /\ Head(fromServer) # Runt
  BY DEF ReadPacket, TypeOK
<1>2. /\ Head(fromServer) = fromServer[1] /\ 1 \in 1 .. Len(fromServer)
      /\ Len(fromServer') = Len(fromServer) - 1 /\ Len(fromServer) \in Nat
  BY <1>1
<1>3. \A k \in 1 .. Len(fromServer') :
          fromServer'[k] = fromServer[k + 1] /\ k + 1 \in 1 .. Len(fromServer) /\ k + 1 # 1
  BY <1>1, <1>2
<1>4. InTransit' \subseteq InTransit
  BY <1>3 DEF InTransit
<1>5. Head(fromServer) \notin InTransit'
  BY <1>1, <1>2, <1>3 DEF InTransit, NoDuplicates
<1>6. Head(fromServer) \in sent /\ Head(fromServer) \in InTransit
  BY <1>1, <1>2 DEF PacketsSent, InTransit
<1>7. QED
  BY <1>4, <1>5, <1>6

(* A packet on its way is for a response that is not completed. *)
LEMMA UnreadIsPending ==
    ASSUME IdInv, PacketsSent, Delivered, up, NEW c \in Live, NEW p \in InTransit \cap sent,
           p.request_id = id[c]
    PROVE  ~heap[frame[c]].completed
BY DEF Delivered, IdInv, AnsweredOnce

(* The step of Delivered. *)
LEMMA DeliveredStep ==
    ASSUME "cancel" \notin Events, TypeOK, FrameType, AnswerInv, IdInv, NoDuplicates,
           Delivered, [Next]_vars
    PROVE  Delivered'
<1> SUFFICES ASSUME up' PROVE Delivered'
  BY DEF Delivered
<1>p. PacketsSent /\ sent \subseteq sent'
  BY PacketsSentStep DEF AnswerInv
<1>u. up
  BY TransitStep DEF ReadPacket, ServerReply, ServerRunt, Break
<1>s. \/ UNCHANGED <<fromServer, sent>>
      \/ \E c \in Calls : ReadPacket(c)
      \/ \E i \in toServer, b \in Replies : ServerReply(i, b)
      \/ ServerRunt
  BY TransitStep DEF Break
<1>1. ASSUME NEW c \in Calls, AnyRequest(c)
      PROVE  Delivered'
  <2>1. PICK f \in Frames, kind \in Kinds :
            /\ f \notin Held /\ enqueue_response(f, kind)
            /\ pc' = [pc EXCEPT ![c] = "lock_write"]
            /\ frame' = [frame EXCEPT ![c] = f]
            /\ \A d \in Calls : d # c => id'[d] = id[d]
            /\ UNCHANGED <<fromServer, sent>>
    BY <1>1 DEF AnyRequest, Request, streamVars, TypeOK
  <2>2. InTransit' = InTransit
    BY <2>1 DEF InTransit
  <2>3. ASSUME NEW d \in Live', heap'[frame'[d]].completed
        PROVE  \E p \in sent' \ InTransit' : p.request_id = id'[d]
    <3>1. CASE d = c
      BY <2>1, <2>3, <3>1, EnqueueCompletes DEF TypeOK
    <3>2. CASE d # c
      <4>1. d \in Live /\ frame'[d] = frame[d] /\ frame[d] \in Frames /\ frame[d] # f
        BY <2>1, <3>2 DEF Live, TypeOK, FrameType, Held
      <4>2. heap[frame[d]].completed
        BY <2>1, <2>3, <4>1, EnqueueCompletes
      <4>3. id'[d] = id[d]
        BY <2>1, <3>2, <4>1 DEF Live
      <4>4. QED
        BY <1>u, <2>1, <2>2, <4>1, <4>2, <4>3 DEF Delivered
    <3>3. QED
      BY <3>1, <3>2
  <2>4. QED
    BY <2>3 DEF Delivered
<1>2. ASSUME NEW c \in Calls, OldCallStep(c), ReadPacket(c)
      PROVE  Delivered'
  <2>1. UNCHANGED <<op, id, frame, sent>> /\ Live' \subseteq Live
    <3>1. \A d \in Calls : d # c => pc'[d] = pc[d]
      BY <1>2, OldCallStepReturns
    <3>2. UNCHANGED <<op, id, frame, sent>> /\ c \in Live
      BY <1>2, OldCallStepKeeps
    <3>3. QED
      BY <3>1, <3>2 DEF Live
  <2>2. /\ Head(fromServer) \in sent \ InTransit'
        /\ InTransit' \subseteq InTransit
    BY <1>2, <1>p, HeadLeaves
  <2>3. complete(Head(fromServer))
    BY <1>2 DEF ReadPacket
  <2>4. ASSUME NEW d \in Live, heap'[frame[d]].completed
        PROVE  \E p \in sent \ InTransit' : p.request_id = id[d]
    <3>1. frame[d] \in Frames /\ heap[frame[d]].request_id = id[d]
      BY DEF FrameType, AnswerInv, ResponsesOwn, OwnResponse
    <3>2. CASE heap'[frame[d]] = heap[frame[d]]
      BY <1>u, <2>2, <2>4, <3>2 DEF Delivered
    <3>3. CASE heap[frame[d]].request_id = Head(fromServer).request_id
      BY <2>2, <3>1, <3>3
    <3>4. QED
      BY <2>3, <3>1, <3>2, <3>3, CompleteHits
  <2>5. QED
    BY <2>1, <2>4 DEF Delivered
<1>3. CASE /\ Live' \subseteq Live /\ UNCHANGED <<id, frame>>
           /\ \A d \in Live : heap'[frame[d]] = heap[frame[d]]
  <2>1. \A p \in sent : p \notin InTransit => p \notin InTransit'
    <3>1. CASE UNCHANGED <<fromServer, sent>>
      BY <3>1 DEF InTransit
    <3>2. CASE \E i \in toServer, b \in Replies : ServerReply(i, b)
      <4>1. PICK q : q \notin sent /\ fromServer' = Append(fromServer, q)
        BY <1>p, <3>2, ReplyIsNew DEF ServerReply
      <4>2. InTransit' \subseteq InTransit \cup {q}
        BY <4>1 DEF InTransit, TypeOK
      <4>3. QED
        BY <4>1, <4>2
    <3>3. CASE ServerRunt
      <4>1. Runt \notin sent
        <5>1. Runt.request_id = -1
          BY DEF Runt, NoId
        <5>2. \A p \in sent : p.request_id \in Nat
          BY DEF TypeOK, Packets, Ids
        <5>3. QED
          BY <5>1, <5>2
      <4>2. fromServer' = Append(fromServer, Runt)
        BY <3>3 DEF ServerRunt
      <4>3. fromServer \in Seq(Packets \cup {Runt})
        BY DEF TypeOK
      <4>4. InTransit' \subseteq InTransit \cup {Runt}
        BY <4>2, <4>3 DEF InTransit
      <4>5. QED
        BY <4>1, <4>4
    <3>4. CASE \E c \in Calls : ReadPacket(c)
      BY <1>p, <3>4, HeadLeaves
    <3>5. QED
      BY <1>s, <3>1, <3>2, <3>3, <3>4
  <2>2. QED
    BY <1>p, <1>u, <1>3, <2>1 DEF Delivered
<1>4. ASSUME NEW c \in Calls, AnyCloseNull(c)
      PROVE  Delivered'
  <2>1. /\ pc[c] = "idle" /\ pc' = [pc EXCEPT ![c] = "returned"]
        /\ UNCHANGED <<id, frame, heap, fromServer, sent>>
    BY <1>4 DEF AnyCloseNull, CloseNull, queueVars, streamVars
  <2>2. Live' = Live /\ InTransit' = InTransit
    BY <2>1 DEF Live, InTransit, TypeOK
  <2>3. QED
    BY <1>u, <2>1, <2>2 DEF Delivered
<1>5. ASSUME NEW c \in Calls, OldCallStep(c), ~ReadPacket(c)
      PROVE  Delivered'
  <2>1. UNCHANGED <<id, frame>> /\ c \in Live
    BY <1>5, OldCallStepKeeps
  <2>2. \A d \in Calls : d # c => pc'[d] = pc[d]
    BY <1>5, OldCallStepReturns
  <2>3. UNCHANGED heap
    BY <1>5, <1>u, OldCallStepHeap
  <2>4. Live' \subseteq Live
    BY <2>1, <2>2 DEF Live
  <2>5. QED
    BY <1>3, <2>1, <2>3, <2>4
<1>6. CASE WorldStep \/ UNCHANGED vars
  <2>1. UNCHANGED <<pc, id, frame>>
    BY <1>6, WorldKeepsCalls DEF callVars
  <2>2. \A d \in Live : heap'[frame[d]] = heap[frame[d]]
    BY <1>6 DEF WorldStep, ServerReply, ServerRunt, Break, Destroy, Done, vars, queueVars
  <2>3. Live' = Live
    BY <2>1 DEF Live
  <2>4. QED
    BY <1>3, <2>1, <2>2, <2>3
<1>7. QED
  BY <1>1, <1>2, <1>4, <1>5, <1>6, NextCases DEF OldCallStep

(* What a response was completed with stays until its call returns it, for  *)
(* any number of calls that share the stream, while the stream works: the   *)
(* server's answers have one packet each, and a packet that is still to be  *)
(* read is for a response that is still pending.  (Cancelling a reader is   *)
(* excluded: cancel_all overwrites the answers of everyone on the list.)    *)
THEOREM AnswersStay ==
    ASSUME "cancel" \notin Events
    PROVE  Spec => AnswerStays
<1> DEFINE I == /\ TypeOK /\ MutexInv /\ FrameType /\ AnswerInv /\ IdInv
                /\ NoDuplicates /\ Delivered
<1>1. Init => I
  <2>1. Init => FrameType /\ AnswerInv /\ NoDuplicates /\ Delivered
    BY DEF Init, AnswerInv, ResponsesOwn, PacketsSent, ResultsOwn, IdleFresh, Live,
           FrameType, NoDuplicates, Delivered
  <2>2. Init => IdInv
    BY DEF Init, IdInv, IdsOwn, AskedByCalls, Asked, AnsweredOnce
  <2>3. QED
    BY <2>1, <2>2, TypeInit, MutexInit
<1>2. I /\ [Next]_vars => I'
  <2> SUFFICES ASSUME I, [Next]_vars PROVE I'
    OBVIOUS
  <2>1. PacketsSent
    BY DEF AnswerInv
  <2>2. QED
    BY <2>1, TypeStep, AnswerStep, IdStep, NoDuplicatesStep, DeliveredStep
<1> DEFINE Stays(c) ==
        /\ c \in Live /\ c \in Live'
        /\ heap[frame[c]].completed
        /\ up'
        => /\ heap'[frame[c]].completed
           /\ heap'[frame[c]].ec = heap[frame[c]].ec
<1>3. I /\ [Next]_vars => [\A c \in Calls : Stays(c)]_vars
  <2> SUFFICES ASSUME I, [Next]_vars, NEW c \in Live, heap[frame[c]].completed, up'
               PROVE  /\ heap'[frame[c]].completed
                      /\ heap'[frame[c]].ec = heap[frame[c]].ec
    BY DEF Live
  <2>u. up
    BY TransitStep DEF ReadPacket, ServerReply, ServerRunt, Break
  <2>f. frame[c] \in Frames /\ heap[frame[c]].request_id = id[c] /\ frame[c] \in Held
    BY DEF FrameType, AnswerInv, ResponsesOwn, OwnResponse, Held
  <2>1. CASE \E d \in Calls : AnyRequest(d)
    <3>1. PICK f \in Frames, kind \in Kinds : f \notin Held /\ enqueue_response(f, kind)
      BY <2>1 DEF AnyRequest, Request
    <3>2. QED
      BY <2>f, <3>1, EnqueueCompletes
  <2>2. CASE \E d \in Calls : ReadPacket(d)
    <3>1. PICK d \in Calls : ReadPacket(d)
      BY <2>2
    <3> DEFINE p == Head(fromServer)
    <3>2. p \in InTransit \cap sent /\ complete(p)
      BY <3>1, HeadLeaves DEF AnswerInv, ReadPacket
    <3> HIDE DEF p
    <3>3. p.request_id # id[c]
      BY <2>u, <3>2, UnreadIsPending DEF AnswerInv
    <3>4. heap'[frame[c]] = heap[frame[c]]
      BY <2>f, <3>2, <3>3, CompleteHits
    <3>5. QED
      BY <3>4
  <2>3. CASE heap'[frame[c]] = heap[frame[c]]
    BY <2>3
  <2>4. CASE \E d \in Calls : OldCallStep(d)
    BY <2>u, <2>2, <2>3, <2>4, OldCallStepHeap
  <2>5. CASE \E d \in Calls : AnyCloseNull(d)
    BY <2>3, <2>5 DEF AnyCloseNull, CloseNull, queueVars
  <2>6. CASE WorldStep \/ UNCHANGED vars
    BY <2>3, <2>6 DEF WorldStep, ServerReply, ServerRunt, Break, Destroy, Done, vars, queueVars
  <2>7. QED
    BY <2>1, <2>4, <2>5, <2>6, NextCases DEF OldCallStep
<1>4. QED
  BY <1>1, <1>2, <1>3, PTL DEF Spec, AnswerStays

-----------------------------------------------------------------------------
(* Closing. *)

(* The object of a close is a file or a dir. *)
ClosesObjects ==
    \A c \in Live : op[c].name \in Closes => op[c].obj \in Objs

(* The two operations that close take an object. *)
LEMMA InvokeCloses ==
    ASSUME TypeOK, NEW c \in Calls, Invoke(c), op'[c].name \in Closes
    PROVE  op'[c].obj \in Objs
<1> USE DEF Objs
<1>1. ASSUME NEW f, NEW name, NEW response, NEW obj, Request(c, f, name, response, obj)
      PROVE  op'[c].name = name /\ op'[c].obj = obj
  BY <1>1 DEF Request, TypeOK
<1>2. CASE \E f \in Frames :
                \/ unlink(c, f) \/ mkdir(c, f) \/ rmdir(c, f) \/ rename(c, f)
                \/ chmod(c, f) \/ chown(c, f) \/ symlink(c, f) \/ hardlink(c, f)
                \/ setstat(c, f) \/ stat(c, f) \/ lstat(c, f) \/ readlink(c, f)
                \/ canonicalize_path(c, f) \/ expand_path(c, f) \/ home_directory(c, f)
  <2>1. \E f, response : \E name \in PathOps : Request(c, f, name, response, NULL)
    BY <1>2 DEF PathOps, unlink, mkdir, rmdir, rename, chmod, chown, symlink, hardlink,
                setstat, stat, lstat, readlink, canonicalize_path, expand_path,
                home_directory
  <2>2. op'[c].name \in PathOps
    BY <1>1, <2>1
  <2>3. QED
    BY <2>2 DEF PathOps, Closes
<1>3. CASE \E f \in Frames, h \in Objs :
                \/ open(c, f, h) \/ opendir(c, f, h)
                \/ read_some_at(c, f, h) \/ write_some_at(c, f, h) \/ do_read_(c, f, h)
                \/ file_close(c, f, h) \/ dir_close(c, f, h)
  <2>1. \E f, name, response : \E h \in Objs : Request(c, f, name, response, h)
    BY <1>3 DEF open, opendir, read_some_at, write_some_at, do_read_, file_close, dir_close
  <2>2. QED
    BY <1>1, <2>1
<1>4. CASE \/ \E h \in Files : CloseNull(c, "file_close", h)
           \/ \E h \in Dirs : CloseNull(c, "dir_close", h)
  <2>1. \E name : \E h \in Objs : CloseNull(c, name, h)
    BY <1>4
  <2>2. QED
    BY <2>1 DEF CloseNull, TypeOK
<1>5. QED
  BY <1>2, <1>3, <1>4 DEF Invoke

(* A call that is resumed or cancelled has its response already. *)
LEMMA ResumeIsOld ==
    ASSUME NEW c \in Calls, Resume(c) \/ Cancel(c)
    PROVE  OldCallStep(c)
<1>1. CallStep(c)
  BY DEF CallStep, Resume, Cancel
<1>2. CASE \/ StartWrite(c) \/ Transmit(c) \/ FinishWrite(c) \/ LockFails(c)
           \/ WakeAnswered(c) \/ StartRead(c) \/ NullDeref(c)
           \/ \E ec \in {"connection_lost", "canceled"} : WriteFails(c, ec)
  <2>1. pc[c] # "idle"
    BY <1>2 DEF StartWrite, Transmit, FinishWrite, LockFails, WakeAnswered, StartRead,
                NullDeref, WriteFails
  <2>2. QED
    BY <1>1, <2>1 DEF OldCallStep, AnyRequest, Request, AnyCloseNull, CloseNull
<1>3. CASE \/ ReadPacket(c) \/ ReadRunt(c)
           \/ \E ec \in {"connection_lost", "canceled"} : ReadFails(c, ec) \/ Spin(c, ec)
  <2>1. pc[c] # "idle"
    BY <1>3 DEF ReadPacket, ReadRunt, ReadFails, Spin, Reading
  <2>2. QED
    BY <1>1, <2>1 DEF OldCallStep, AnyRequest, Request, AnyCloseNull, CloseNull
<1>4. QED
  BY <1>2, <1>3 DEF Resume, Cancel

(* The steps of Next, with the names of the operations. *)
LEMMA NextByInvoke ==
    ASSUME [Next]_vars
    PROVE  \/ \E c \in Calls : Invoke(c) \/ OldCallStep(c)
           \/ WorldStep \/ UNCHANGED vars
<1>1. CASE \E c \in Calls : Resume(c) \/ Cancel(c)
  BY <1>1, ResumeIsOld
<1>2. QED
  BY <1>1 DEF Next, Reply, WorldStep

(* The step of ClosesObjects. *)
LEMMA ClosesObjectsStep ==
    ASSUME TypeOK, ClosesObjects, [Next]_vars
    PROVE  ClosesObjects'
<1>1. ASSUME NEW c \in Calls, Invoke(c)
      PROVE  ClosesObjects'
  <2>1. \A d \in Calls : d # c => pc'[d] = pc[d] /\ op'[d] = op[d]
    BY <1>1, InvokeCases DEF AnyRequest, Request, AnyCloseNull, CloseNull, TypeOK
  <2>2. op'[c].name \in Closes => op'[c].obj \in Objs
    BY <1>1, InvokeCloses
  <2>3. QED
    BY <2>1, <2>2 DEF ClosesObjects, Live
<1>2. ASSUME NEW c \in Calls, OldCallStep(c)
      PROVE  ClosesObjects'
  <2>1. UNCHANGED op /\ c \in Live
    BY <1>2, OldCallStepKeeps
  <2>2. \A d \in Calls : d # c => pc'[d] = pc[d]
    BY <1>2, OldCallStepReturns
  <2>3. QED
    BY <2>1, <2>2 DEF ClosesObjects, Live
<1>3. CASE WorldStep \/ UNCHANGED vars
  <2>1. UNCHANGED <<pc, op>>
    BY <1>3, WorldKeepsCalls DEF callVars
  <2>2. QED
    BY <2>1 DEF ClosesObjects, Live
<1>4. QED
  BY <1>1, <1>2, <1>3, NextByInvoke

(* While the stream works and nothing is cancelled, a call returns from the *)
(* end of its operation.                                                    *)
LEMMA ReturnsAtEnd ==
    ASSUME TypeOK, "cancel" \notin Events, up, NEW c \in Calls, OldCallStep(c),
           pc'[c] = "returned"
    PROVE  \E ec : Return(c, ec)
<1>1. pc[c] # "returned"
  BY OldCallStepKeeps DEF Live
<1>2. CASE StartWrite(c) \/ Transmit(c) \/ StartRead(c) \/ FinishWrite(c) \/ WakeAnswered(c)
  BY <1>2 DEF StartWrite, Transmit, StartRead, FinishWrite, WakeAnswered, TypeOK
<1>3. CASE \/ ReadPacket(c) \/ ReadRunt(c)
           \/ \E ec \in {"connection_lost", "canceled"} : ReadFails(c, ec)
  <2>1. Loop(c) \/ BreakLoop(c)
    BY <1>3 DEF ReadPacket, ReadRunt, ReadFails
  <2>2. QED
    BY <2>1 DEF Loop, BreakLoop, TypeOK
<1>4. CASE NullDeref(c) \/ \E ec \in {"connection_lost", "canceled"} : Spin(c, ec)
  BY <1>1, <1>4 DEF NullDeref, Spin, callVars
<1>5. ~LockFails(c) /\ \A ec \in {"connection_lost", "canceled"} : ~WriteFails(c, ec)
  BY DEF LockFails, WriteFails
<1>6. QED
  BY <1>2, <1>3, <1>4, <1>5 DEF OldCallStep, CallStep

(* When a close returns, whatever the server said to it and however many    *)
(* other calls use the file or dir, it has given up its session: while the  *)
(* stream works and nothing is cancelled.  (A close whose write or lock     *)
(* fails returns early and keeps it.)                                       *)
THEOREM ClosesRelease ==
    ASSUME {"break", "cancel"} \cap Events = {}
    PROVE  Spec => CloseReleases
<1>0. "break" \notin Events /\ "cancel" \notin Events
  OBVIOUS
<1> DEFINE I == TypeOK /\ MutexInv /\ FrameType /\ ClosesObjects /\ up
<1>1. Init => I
  <2>1. Init => FrameType /\ ClosesObjects /\ up
    BY DEF Init, FrameType, ClosesObjects, Live
  <2>2. QED
    BY <2>1, TypeInit, MutexInit
<1>2. I /\ [Next]_vars => I'
  <2> SUFFICES ASSUME I, [Next]_vars PROVE I'
    OBVIOUS
  <2>1. up'
    BY <1>0, TransitStep DEF ReadPacket, ServerReply, ServerRunt, Break
  <2>2. QED
    BY <2>1, TypeStep, ClosesObjectsStep
<1> DEFINE Releases(c) ==
        /\ pc[c] # "returned" /\ pc'[c] = "returned"
        /\ op'[c].name \in Closes
        => ~sess_'[op'[c].obj]
<1>3. I /\ [Next]_vars => [\A c \in Calls : Releases(c)]_vars
  <2> SUFFICES ASSUME I, [Next]_vars, NEW c \in Calls, pc[c] # "returned",
                      pc'[c] = "returned", op'[c].name \in Closes
               PROVE  ~sess_'[op'[c].obj]
    OBVIOUS
  <2>1. ASSUME NEW d \in Calls, Invoke(d) PROVE ~sess_'[op'[c].obj]
    <3>1. CASE AnyRequest(d)
      <4>1. pc' = [pc EXCEPT ![d] = "lock_write"]
        BY <3>1 DEF AnyRequest, Request
      <4>2. QED
        BY <4>1 DEF TypeOK
    <3>2. CASE AnyCloseNull(d)
      <4>1. PICK name, h : CloseNull(d, name, h)
        BY <3>2 DEF AnyCloseNull
      <4>2. c = d
        BY <4>1 DEF CloseNull, TypeOK
      <4>3. op'[c].obj = h /\ ~sess_[h] /\ sess_' = sess_
        BY <4>1, <4>2 DEF CloseNull, TypeOK
      <4>4. QED
        BY <4>3
    <3>3. QED
      BY <2>1, <3>1, <3>2, InvokeCases
  <2>2. ASSUME NEW d \in Calls, OldCallStep(d) PROVE ~sess_'[op'[c].obj]
    <3>1. c = d
      BY <2>2, OldCallStepReturns
    <3>2. PICK ec : Return(c, ec)
      BY <1>0, <2>2, <3>1, ReturnsAtEnd
    <3>3. op' = op /\ c \in Live
      BY <2>2, <3>1, OldCallStepKeeps
    <3>4. op[c].obj \in Objs /\ op[c].name \in Closes
      BY <3>3 DEF ClosesObjects
    <3>5. sess_' = [sess_ EXCEPT ![op[c].obj] = FALSE]
      BY <3>2, <3>4 DEF Return
    <3>6. QED
      BY <3>3, <3>4, <3>5 DEF TypeOK
  <2>3. CASE WorldStep \/ UNCHANGED vars
    BY <2>3, WorldKeepsCalls DEF callVars
  <2>4. QED
    BY <2>1, <2>2, <2>3, NextByInvoke
<1>4. QED
  BY <1>1, <1>2, <1>3, PTL DEF Spec, CloseReleases
=============================================================================
