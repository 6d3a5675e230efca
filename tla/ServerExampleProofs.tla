------------------------- MODULE ServerExampleProofs ------------------------
(* Theorems about ServerExample. *)
EXTENDS ServerExample, FiniteSetTheorems, TLAPS

(* Before ssh_main takes messages the client cannot open a channel. *)
NoneEarly == main \in {"accept", "handle_key_exchange"} => Running = {}

(* Messages wait that were sent. *)
QueuedSent == queued["service"] + queued["other"] <= sent

IInv ==
    /\ TypeOK /\ QueuedSent
    /\ WorkCounted /\ ErrorExitJoins /\ NoMissedEvent /\ NoneEarly

-----------------------------------------------------------------------------
(* The number of channels in use. *)

LEMMA RunningFinite ==
    /\ IsFiniteSet(Running)
    /\ Cardinality(Running) \in Nat
    /\ Cardinality(Running) = 0 <=> Running = {}
BY ServerAssumption, FS_Subset, FS_CardinalityType, FS_EmptySet DEF Running

(* A coroutine that starts is one more. *)
LEMMA RunningGrows ==
    ASSUME TypeOK, NEW c \in Channels, chan[c] = "none",
           chan' = [chan EXCEPT ![c] = "waiting"]
    PROVE  Cardinality(Running') = Cardinality(Running) + 1
<1>1. Running' = Running \cup {c} /\ c \notin Running
  BY DEF Running, TypeOK
<1>2. QED
  BY <1>1, RunningFinite, FS_AddElement

(* A coroutine that ends is one less, and there was one. *)
LEMMA RunningShrinks ==
    ASSUME TypeOK, NEW c \in Channels, c \in Running,
           chan' = [chan EXCEPT ![c] = "done"]
    PROVE  /\ Cardinality(Running') = Cardinality(Running) - 1
           /\ Cardinality(Running) > 0
           /\ Running' \subseteq Running
<1>1. Running' = Running \ {c}
  BY DEF Running, TypeOK
<1>2. Cardinality(Running) # 0
  BY RunningFinite
<1>3. QED
  BY <1>1, <1>2, RunningFinite, FS_RemoveElement

(* A coroutine that begins to serve or to spin is still there. *)
LEMMA RunningStays ==
    ASSUME TypeOK, NEW c \in Channels, chan[c] \in {"waiting", "serving"},
           chan' = [chan EXCEPT ![c] = "serving"] \/ chan' = [chan EXCEPT ![c] = "spinning"]
    PROVE  Running' = Running
BY DEF Running, TypeOK

-----------------------------------------------------------------------------
(* The steps, by what they do to the channels. *)

(* The end of a coroutine: its token goes, and wait() is told. *)
LEMMA Ends ==
    ASSUME IInv, NEW c \in Channels, c \in Running,
           chan' = [chan EXCEPT ![c] = "done"], Complete,
           UNCHANGED <<main, open, stop, queued, sent, cancelled, work, closed, accepted>>
    PROVE  IInv'
<1> USE DEF IInv
<1>1. working' = working - 1 /\ event' = TRUE
  BY DEF Complete
<1>2. working = Cardinality(Running) /\ working \in Nat
  BY RunningFinite DEF WorkCounted
<1>3. WorkCounted' /\ working' \in Nat
  <2>1. Cardinality(Running') = Cardinality(Running) - 1 /\ Cardinality(Running) > 0
    BY RunningShrinks
  <2>2. QED
    BY <1>1, <1>2, <2>1 DEF WorkCounted
<1>4. TypeOK'
  BY <1>1, <1>3 DEF TypeOK, Stages
<1>5. (ErrorExitJoins /\ NoneEarly)'
  BY RunningShrinks DEF ErrorExitJoins, NoneEarly
<1>6. NoMissedEvent' /\ QueuedSent'
  BY <1>1 DEF NoMissedEvent, QueuedSent
<1>7. QED
  BY <1>3, <1>4, <1>5, <1>6

(* Steps that leave tracked_work and the channels alone. *)
LEMMA Untouched ==
    ASSUME IInv, TypeOK', QueuedSent', UNCHANGED <<working, event, chan>>,
           main' = "exit_error" => main' = main \/ working = 0,
           main' = "wait" => main' = main \/ working > 0,
           main' \in {"accept", "handle_key_exchange"} =>
                main \in {"accept", "handle_key_exchange"}
    PROVE  IInv'
<1> USE DEF IInv
<1>1. Running' = Running
  BY DEF Running
<1>2. WorkCounted'
  BY <1>1 DEF WorkCounted
<1>3. ErrorExitJoins'
  BY <1>1, RunningFinite DEF ErrorExitJoins, WorkCounted
<1>4. NoMissedEvent'
  BY DEF NoMissedEvent, TypeOK
<1>5. NoneEarly'
  BY <1>1 DEF NoneEarly
<1>6. QED
  BY <1>2, <1>3, <1>4, <1>5

(* ssh_main. *)
LEMMA MainStep ==
    ASSUME IInv, ssh_main
    PROVE  IInv'
<1> USE DEF IInv
<1>1. CASE Accept
  <2>1. TypeOK'
    BY <1>1 DEF Accept, TypeOK, Mains, Exits, chanVars
  <2>2. working = 0
    BY <1>1, RunningFinite DEF Accept, NoneEarly, WorkCounted
  <2>3. QED
    BY <1>1, <2>1, <2>2, Untouched DEF Accept, chanVars, QueuedSent
<1>2. CASE Kex
  <2>1. TypeOK'
    BY <1>2 DEF Kex, TypeOK, Mains, Exits, chanVars
  <2>2. working = 0
    BY <1>2, RunningFinite DEF Kex, NoneEarly, WorkCounted
  <2>3. QED
    BY <1>2, <2>1, <2>2, Untouched DEF Kex, chanVars, QueuedSent
<1>3. ASSUME NEW k \in Kinds, TakeMessage(k)
      PROVE  IInv'
  <2>1. queued[k] - 1 \in 0 .. MaxMessages
    BY <1>3, ServerAssumption DEF TakeMessage, TypeOK
  <2>2. queued' \in [Kinds -> 0 .. MaxMessages]
    BY <1>3, <2>1 DEF TakeMessage, TypeOK
  <2>3. main' \in {"reply", "get_message", "exit_ok"}
    BY <1>3 DEF TakeMessage, LoopTest
  <2>4. TypeOK'
    BY <1>3, <2>2, <2>3 DEF TakeMessage, TypeOK, Mains, Exits, chanVars
  <2>5. QueuedSent'
    BY <1>3, <2>1 DEF TakeMessage, TypeOK, QueuedSent, Kinds
  <2>6. QED
    BY <1>3, <2>3, <2>4, <2>5, Untouched DEF TakeMessage, chanVars
<1>4. CASE MessageError
  <2>1. TypeOK'
    BY <1>4 DEF MessageError, Error, TypeOK, Mains, Exits, chanVars
  <2>2. QED
    BY <1>4, <2>1, Untouched DEF MessageError, Error, StillWorking, chanVars, TypeOK,
                                      QueuedSent
<1>5. CASE Replied
  <2>1. TypeOK'
    BY <1>5 DEF Replied, LoopTest, TypeOK, Mains, Exits, chanVars
  <2>2. QED
    BY <1>5, <2>1, Untouched DEF Replied, LoopTest, chanVars, QueuedSent
<1>6. CASE ReplyFails
  <2>1. TypeOK'
    BY <1>6 DEF ReplyFails, Error, TypeOK, Mains, Exits, chanVars
  <2>2. QED
    BY <1>6, <2>1, Untouched DEF ReplyFails, Error, StillWorking, chanVars, TypeOK,
                                      QueuedSent
<1>7. CASE Wakes
  <2>1. Running' = Running
    BY <1>7 DEF Wakes, Running
  <2>2. TypeOK'
    BY <1>7 DEF Wakes, TypeOK, Mains, Exits
  <2>3. WorkCounted'
    BY <1>7, <2>1 DEF Wakes, WorkCounted
  <2>4. ErrorExitJoins'
    BY <1>7, <2>1, RunningFinite DEF Wakes, StillWorking, ErrorExitJoins, WorkCounted
  <2>5. NoMissedEvent'
    BY <1>7 DEF Wakes, StillWorking, NoMissedEvent
  <2>6. NoneEarly'
    BY <1>7 DEF Wakes, NoneEarly
  <2>7. QueuedSent'
    BY <1>7 DEF Wakes, QueuedSent
  <2>8. QED
    BY <2>2, <2>3, <2>4, <2>5, <2>6, <2>7
<1>8. QED
  BY <1>1, <1>2, <1>3, <1>4, <1>5, <1>6, <1>7 DEF ssh_main

(* The channels. *)
LEMMA ChannelStep ==
    ASSUME IInv, NEW c \in Channels,
           \/ channel_open_request_session(c)
           \/ shell_request(c) \/ exec_request(c) \/ subsystem_request(c) \/ close(c)
           \/ wait_for_channel_request(c)
    PROVE  IInv'
<1> USE DEF IInv
<1>1. CASE channel_open_request_session(c)
  <2>1. working' = working + 1 /\ Cardinality(Running') = Cardinality(Running) + 1
    BY <1>1, RunningGrows DEF channel_open_request_session, Track
  <2>2. WorkCounted' /\ working' \in Nat /\ working' # 0
    BY <2>1, RunningFinite DEF WorkCounted, TypeOK
  <2>3. TypeOK'
    BY <1>1, <2>2 DEF channel_open_request_session, TypeOK, Stages
  <2>4. main' \in {"get_message", "reply", "wait"}
    BY <1>1 DEF channel_open_request_session
  <2>5. QueuedSent'
    BY <1>1 DEF channel_open_request_session, QueuedSent
  <2>6. QED
    BY <2>2, <2>3, <2>4, <2>5 DEF ErrorExitJoins, NoMissedEvent, NoneEarly
<1>2. CASE shell_request(c) \/ exec_request(c) \/ subsystem_request(c) \/ close(c)
  <2>1. TypeOK'
    BY <1>2 DEF shell_request, exec_request, subsystem_request, close, Callback, Grant,
                Refuse, TypeOK, Handlers
  <2>2. UNCHANGED <<main, queued, sent, working, event, chan>>
    BY <1>2 DEF shell_request, exec_request, subsystem_request, close, Callback
  <2>3. QED
    BY <2>1, <2>2, Untouched DEF QueuedSent
<1>3. CASE RequestWaited(c)
  <2>1. CASE work[c] \in {"run_shell", "run_sftp"}
    <3>1. Running' = Running
      BY <1>3, <2>1, RunningStays DEF RequestWaited
    <3>2. TypeOK'
      BY <1>3, <2>1 DEF RequestWaited, TypeOK, Stages
    <3>3. UNCHANGED <<main, queued, sent, working, event>>
      BY <1>3, <2>1 DEF RequestWaited
    <3>4. QED
      BY <3>1, <3>2, <3>3
         DEF WorkCounted, ErrorExitJoins, NoMissedEvent, NoneEarly, QueuedSent
  <2>2. CASE work[c] \notin {"run_shell", "run_sftp"}
    BY <1>3, <2>2, Ends DEF RequestWaited, Running
  <2>3. QED
    BY <2>1, <2>2
<1>4. CASE Served(c)
  BY <1>4, Ends DEF Served, Running
<1>5. CASE Spins(c)
  <2>1. Running' = Running
    BY <1>5, RunningStays DEF Spins
  <2>2. TypeOK'
    BY <1>5 DEF Spins, TypeOK, Stages
  <2>3. UNCHANGED <<main, queued, sent, working, event>>
    BY <1>5 DEF Spins
  <2>4. QED
    BY <2>1, <2>2, <2>3
       DEF WorkCounted, ErrorExitJoins, NoMissedEvent, NoneEarly, QueuedSent
<1>6. QED
  BY <1>1, <1>2, <1>3, <1>4, <1>5 DEF wait_for_channel_request

-----------------------------------------------------------------------------
LEMMA Initially == Init => IInv
<1> SUFFICES ASSUME Init PROVE IInv
  OBVIOUS
<1>1. TypeOK /\ QueuedSent
  <2>1. MaxMessages \in Nat
    BY ServerAssumption
  <2>2. queued \in [Kinds -> 0 .. MaxMessages] /\ sent \in 0 .. MaxMessages
    BY <2>1 DEF Init
  <2>3. queued["service"] = 0 /\ queued["other"] = 0
    BY DEF Init, Kinds
  <2>4. main \in Mains /\ working \in Nat
    BY DEF Init, Mains
  <2>5. /\ chan \in [Channels -> Stages]
        /\ work \in [Channels -> Handlers]
        /\ accepted \in [Channels -> Handlers]
    BY DEF Init, Handlers, Stages
  <2>6. /\ open \in BOOLEAN /\ stop \in BOOLEAN /\ event \in BOOLEAN
        /\ cancelled \in [Channels -> BOOLEAN]
        /\ closed \in [Channels -> BOOLEAN]
    BY DEF Init
  <2>7. QueuedSent
    BY <2>3 DEF Init, QueuedSent
  <2>8. QED
    BY <2>2, <2>4, <2>5, <2>6, <2>7 DEF TypeOK
<1>2. Running = {}
  BY DEF Init, Running
<1>3. QED
  BY <1>1, <1>2, FS_EmptySet
     DEF Init, IInv, WorkCounted, ErrorExitJoins, NoMissedEvent, NoneEarly

LEMMA Inductive == IInv /\ [Next]_vars => IInv'
<1> SUFFICES ASSUME IInv, [Next]_vars PROVE IInv'
  OBVIOUS
<1>1. CASE ssh_main
  BY <1>1, MainStep
<1>2. CASE \E c \in Channels :
              \/ channel_open_request_session(c)
              \/ shell_request(c) \/ exec_request(c) \/ subsystem_request(c) \/ close(c)
              \/ wait_for_channel_request(c)
  BY <1>2, ChannelStep
<1>3. ASSUME NEW k \in Kinds, ClientSends(k)
      PROVE  IInv'
  <2>1. queued[k] + 1 \in 0 .. MaxMessages
    BY <1>3, ServerAssumption DEF ClientSends, IInv, TypeOK, QueuedSent, Kinds
  <2>2. sent + 1 \in 0 .. MaxMessages
    BY <1>3, ServerAssumption DEF ClientSends, IInv, TypeOK
  <2>3. TypeOK'
    BY <1>3, <2>1, <2>2 DEF ClientSends, IInv, TypeOK, chanVars
  <2>4. QueuedSent'
    BY <1>3, ServerAssumption DEF ClientSends, IInv, TypeOK, QueuedSent, Kinds
  <2>5. QED
    BY <1>3, <2>3, <2>4, Untouched DEF ClientSends, chanVars
<1>4. CASE Disconnects
  <2>1. TypeOK'
    BY <1>4 DEF Disconnects, IInv, TypeOK, chanVars
  <2>2. QED
    BY <1>4, <2>1, Untouched DEF Disconnects, chanVars, IInv, QueuedSent
<1>5. CASE Done \/ UNCHANGED vars
  <2>1. UNCHANGED vars
    BY <1>5 DEF Done
  <2>2. TypeOK'
    BY <2>1 DEF vars, IInv, TypeOK
  <2>3. QED
    BY <2>1, <2>2, Untouched DEF vars, IInv, QueuedSent
<1>6. QED
  BY <1>1, <1>2, <1>3, <1>4, <1>5 DEF Next

LEMMA Always == Spec => []IInv
BY Initially, Inductive, PTL DEF Spec

(* The type invariant, for any finite set of channels. *)
THEOREM TypeCorrect == Spec => []TypeOK
BY Always, PTL DEF IInv

(* tracked_work counts exactly the coroutines that hold a channel. *)
THEOREM WorkIsCounted == Spec => []WorkCounted
BY Always, PTL DEF IInv

(* ssh_main's way out by an error leaves no coroutine with a channel. *)
THEOREM ErrorJoins == Spec => []ErrorExitJoins
BY Always, PTL DEF IInv

(* No completion is missed by wait(). *)
THEOREM EventNotMissed == Spec => []NoMissedEvent
BY Always, PTL DEF IInv
=============================================================================
