--------------------------- MODULE ServerExample ----------------------------
(***************************************************************************)
(* The example server: ssh_main accepts one session and takes its          *)
(* messages; a callback of libssh spawns a coroutine for every channel the *)
(* client opens, which waits for a request and then serves the channel.    *)
(* tracked_work counts those coroutines, so that ssh_main can wait for     *)
(* them before the session, which they use, goes out of scope.             *)
(*                                                                         *)
(* libssh may call the callbacks whenever any coroutine calls libssh; all  *)
(* coroutines run on one thread, and an action is what runs from one       *)
(* suspension to the next.                                                 *)
(***************************************************************************)
EXTENDS Integers, FiniteSets

CONSTANTS
    Channels,      \* the channels the client may open
    MaxMessages    \* bound on the messages it sends

ASSUME ServerAssumption ==
    /\ IsFiniteSet(Channels)
    /\ MaxMessages \in Nat

VARIABLES
    main,       \* where ssh_main is suspended, or how it has returned
    open,       \* s.is_open()
    stop,       \* ss: the channels' coroutines are to stop
    queued,     \* the messages libssh has for get_message
    sent,       \* how many messages the client has sent
    working, event,   \* tracked_work
    chan,       \* each channel's coroutine
    cancelled,  \* whether the timer of its channel_callbacks is cancelled
    work,       \* the handler that channel_callbacks has chosen
    closed,     \* whether the client has closed the channel
    accepted    \* history: the handler of the last request that was granted

vars == <<main, open, stop, queued, sent, working, event, chan, cancelled, work,
          closed, accepted>>
chanVars == <<working, event, chan, cancelled, work, closed, accepted>>

Exits == {"exit_ok", "exit_error"}
Mains == {"accept", "handle_key_exchange", "get_message", "reply", "wait"} \cup Exits
Kinds == {"service", "other"}
Stages == {"none", "waiting", "serving", "spinning", "done"}
Handlers == {"on_timeout", "on_closed", "run_shell", "run_sftp"}

TypeOK ==
    /\ main \in Mains
    /\ open \in BOOLEAN
    /\ stop \in BOOLEAN
    /\ queued \in [Kinds -> 0 .. MaxMessages]
    /\ sent \in 0 .. MaxMessages
    /\ working \in Nat
    /\ event \in BOOLEAN
    /\ chan \in [Channels -> Stages]
    /\ cancelled \in [Channels -> BOOLEAN]
    /\ work \in [Channels -> Handlers]
    /\ closed \in [Channels -> BOOLEAN]
    /\ accepted \in [Channels -> Handlers]

Init ==
    /\ main = "accept"
    /\ open = TRUE
    /\ stop = FALSE
    /\ queued = [k \in Kinds |-> 0]
    /\ sent = 0
    /\ working = 0
    /\ event = FALSE
    /\ chan = [c \in Channels |-> "none"]
    /\ cancelled = [c \in Channels |-> FALSE]
    /\ work = [c \in Channels |-> "on_timeout"]
    /\ closed = [c \in Channels |-> FALSE]
    /\ accepted = [c \in Channels |-> "on_timeout"]

(* The coroutines that hold a channel of the session. *)
Running == {c \in Channels : chan[c] \in {"waiting", "serving", "spinning"}}

(* A handler turns without a co_await, and keeps the only thread. *)
ThreadKept == \E c \in Channels : chan[c] = "spinning"

(* ssh_main has returned, and with it the session is gone. *)
Returned == main \in Exits

-----------------------------------------------------------------------------
(* tracked_work. *)

(* track(), and the copy of the token in the coroutine's frame. *)
TrackOnce == working  \* mutant: a copy of a token is not counted, its end is
Track == working + 1

(* ~work: complete(). *)
CompleteQuietly ==  \* mutant: nobody is told
    /\ working' = working - 1
    /\ UNCHANGED event
Complete ==
    /\ working' = working - 1
    /\ event' = TRUE

(* while (working > 0u): whether wait() goes on. *)
StillOnce == working > 0 /\ ~event  \* mutant: if in the place of while
StillWorking == working > 0

-----------------------------------------------------------------------------
(* ssh_main. *)

Accept ==
    /\ main = "accept"
    /\ main' \in {"handle_key_exchange", "exit_error"}
    /\ UNCHANGED <<open, stop, queued, sent, chanVars>>

(* s.handle_key_exchange(), install_server_callbacks and the first test. *)
Kex ==
    /\ main = "handle_key_exchange"
    /\ \/ open /\ main' = "get_message"
       \/ ~open /\ main' = "exit_ok"
       \/ main' = "exit_error"
    /\ UNCHANGED <<open, stop, queued, sent, chanVars>>

(* while (s.is_open()), and co_return 0. *)
LoopTest == main' = IF open THEN "get_message" ELSE "exit_ok"

(* error: request_stop and wait(), which returns at once if nobody works. *)
ErrorNoStop ==  \* mutant: nobody is told to stop
    /\ UNCHANGED stop
    /\ main' = IF StillWorking THEN "wait" ELSE "exit_error"
Error ==
    /\ stop' = TRUE
    /\ main' = IF StillWorking THEN "wait" ELSE "exit_error"

TakeMessage(k) ==
    /\ main = "get_message"
    /\ queued[k] > 0
    /\ queued' = [queued EXCEPT ![k] = @ - 1]
    /\ IF k = "service" THEN main' = "reply" ELSE LoopTest
    /\ UNCHANGED <<open, stop, sent, chanVars>>

(* get_message returns an error: the session has ended, or the wait failed. *)
MessageError ==
    /\ main = "get_message"
    /\ \A k \in Kinds : queued[k] = 0
    /\ Error
    /\ UNCHANGED <<open, queued, sent, chanVars>>

(* service_reply_success or reply_default returns. *)
Replied ==
    /\ main = "reply"
    /\ LoopTest
    /\ UNCHANGED <<open, stop, queued, sent, chanVars>>

ReplyFails ==
    /\ main = "reply"
    /\ Error
    /\ UNCHANGED <<open, queued, sent, chanVars>>

(* event.wait() returns, event.clear(), and the condition is tested.       *)
(* (event.wait() has no error to return: main() starts ssh_main without a  *)
(* stop token.)                                                            *)
Wakes ==
    /\ main = "wait"
    /\ event
    /\ event' = FALSE
    /\ main' = IF StillWorking THEN "wait" ELSE "exit_error"
    /\ UNCHANGED <<open, stop, queued, sent, working, chan, cancelled, work, closed,
                   accepted>>

-----------------------------------------------------------------------------
(* The channels. *)

(* channel_open_request_session: the coroutine starts, with its callbacks  *)
(* and a timer of 1 s.  Its frame has a copy of the token; the end of the  *)
(* original sets the event.                                                *)
channel_open_request_session(c) ==
    /\ open
    /\ main \in {"get_message", "reply", "wait"}
    /\ chan[c] = "none"
    /\ chan' = [chan EXCEPT ![c] = "waiting"]
    /\ working' = Track
    /\ event' = TRUE
    /\ UNCHANGED <<main, open, stop, queued, sent, cancelled, work, closed, accepted>>

(* libssh calls channel_callbacks of c, while they exist. *)
Callback(c) ==
    /\ open
    /\ ~Returned
    /\ chan[c] = "waiting"
    /\ ~closed[c]
    /\ UNCHANGED <<main, open, stop, queued, sent, working, event, chan>>

(* timeout.cancel(); work = handler; return true; *)
Grant(c, handler) ==
    /\ work' = [work EXCEPT ![c] = handler]
    /\ accepted' = [accepted EXCEPT ![c] = handler]

shell_request(c) ==
    /\ Callback(c)
    /\ cancelled' = [cancelled EXCEPT ![c] = TRUE]
    /\ Grant(c, "run_shell")
    /\ UNCHANGED closed

(* A command that is not "echo" is refused, but the timer is cancelled. *)
RefuseResets(c) ==  \* mutant: a refusal forgets what was granted
    /\ work' = [work EXCEPT ![c] = "on_timeout"]
    /\ UNCHANGED accepted
Refuse(c) == UNCHANGED <<work, accepted>>

exec_request(c) ==
    /\ Callback(c)
    /\ cancelled' = [cancelled EXCEPT ![c] = TRUE]
    /\ Grant(c, "run_shell") \/ Refuse(c)
    /\ UNCHANGED closed

(* The timer goes on. *)
subsystem_request(c) ==
    /\ Callback(c)
    /\ Grant(c, "run_sftp")
    /\ UNCHANGED <<cancelled, closed>>

close(c) ==
    /\ Callback(c)
    /\ cancelled' = [cancelled EXCEPT ![c] = TRUE]
    /\ work' = [work EXCEPT ![c] = "on_closed"]
    /\ closed' = [closed EXCEPT ![c] = TRUE]
    /\ UNCHANGED accepted

(***************************************************************************)
(* wait_for_channel_request goes on: the timer has expired, was cancelled, *)
(* or the coroutine is to stop.  A handler of corosh runs; the other two   *)
(* return at once.                                                         *)
(***************************************************************************)
RequestWaited(c) ==
    /\ chan[c] = "waiting"
    /\ IF work[c] \in {"run_shell", "run_sftp"}
       THEN /\ chan' = [chan EXCEPT ![c] = "serving"]
            /\ UNCHANGED <<working, event>>
       ELSE /\ chan' = [chan EXCEPT ![c] = "done"]
            /\ Complete
    /\ UNCHANGED <<main, open, stop, queued, sent, cancelled, work, closed, accepted>>

(* echo or serve returns: the stream fails or the coroutine is to stop. *)
Served(c) ==
    /\ chan[c] = "serving"
    /\ chan' = [chan EXCEPT ![c] = "done"]
    /\ Complete
    /\ UNCHANGED <<main, open, stop, queued, sent, cancelled, work, closed, accepted>>

(* When the session is gone libssh may have neither a result nor a poll    *)
(* flag for the handler's channel: do_some_io_ then asks again at once,    *)
(* and for ever (OnlyIoSpins in SshLoops).                                 *)
Spins(c) ==
    /\ chan[c] = "serving"
    /\ ~open
    /\ chan' = [chan EXCEPT ![c] = "spinning"]
    /\ UNCHANGED <<main, open, stop, queued, sent, working, event, cancelled, work, closed,
                   accepted>>

-----------------------------------------------------------------------------
(* The client, by way of libssh. *)

ClientSends(k) ==
    /\ open
    /\ main \in {"get_message", "reply", "wait"}
    /\ sent < MaxMessages
    /\ sent' = sent + 1
    /\ queued' = [queued EXCEPT ![k] = @ + 1]
    /\ UNCHANGED <<main, open, stop, chanVars>>

Disconnects ==
    /\ open
    /\ main \notin Exits \cup {"accept"}
    /\ open' = FALSE
    /\ UNCHANGED <<main, stop, queued, sent, chanVars>>

(* The io_context runs out of work, or its thread never comes back to it. *)
Done == ((Returned /\ Running = {}) \/ ThreadKept) /\ UNCHANGED vars

ssh_main ==
    /\ ~ThreadKept
    /\ \/ Accept \/ Kex
       \/ \E k \in Kinds : TakeMessage(k)
       \/ MessageError \/ Replied \/ ReplyFails \/ Wakes

wait_for_channel_request(c) ==
    ~ThreadKept /\ (RequestWaited(c) \/ Served(c) \/ Spins(c))

Next ==
    \/ ssh_main
    \/ \E c \in Channels :
        \/ channel_open_request_session(c)
        \/ shell_request(c) \/ exec_request(c) \/ subsystem_request(c) \/ close(c)
        \/ wait_for_channel_request(c)
    \/ \E k \in Kinds : ClientSends(k)
    \/ Disconnects \/ Done

Spec == Init /\ [][Next]_vars

(***************************************************************************)
(* The executor resumes what is ready and timers expire, as long as no     *)
(* handler keeps the thread.  A handler ends once it is to stop, if it     *)
(* suspends at all; until then it may serve for ever, and the client owes  *)
(* nothing.                                                                *)
(***************************************************************************)
Fairness ==
    /\ WF_vars(~ThreadKept /\ (Accept \/ Kex \/ Replied \/ ReplyFails \/ Wakes))
    /\ WF_vars(~ThreadKept /\ \E k \in Kinds : TakeMessage(k))
    /\ WF_vars(~ThreadKept /\ ~open /\ MessageError)
    /\ \A c \in Channels :
        /\ WF_vars(~ThreadKept /\ RequestWaited(c))
        /\ WF_vars(~ThreadKept /\ stop /\ Served(c))

FairSpec == Spec /\ Fairness

-----------------------------------------------------------------------------
(* Properties. *)

(* The counter is the number of coroutines that hold a channel, through    *)
(* copies of the token, callbacks in any order and early returns.          *)
WorkCounted == working = Cardinality(Running)

(* After an error ssh_main returns only when no coroutine holds a channel: *)
(* no completion is missed between event.wait() and event.clear().         *)
ErrorExitJoins == main = "exit_error" => Running = {}

(* While wait() is suspended and nobody works any more, the event is set:  *)
(* the completion that wait() has to see is never cleared away.            *)
NoMissedEvent == main = "wait" /\ working = 0 => event

(* What the client was told is granted is what runs, whatever was refused  *)
(* before or after, unless the client closed the channel first, or the     *)
(* session has ended and another channel's handler keeps the thread.       *)
GrantedServed ==
    \A c \in Channels :
        chan[c] = "waiting" /\ accepted[c] # "on_timeout" ~>
            \/ chan[c] = "serving" /\ work[c] = accepted[c]
            \/ closed[c]
            \/ ThreadKept

(* When the session ends ssh_main returns, through wait() if coroutines    *)
(* hold channels; unless a handler keeps the thread.                       *)
MainReturns == ~open ~> (Returned \/ ThreadKept)

(***************************************************************************)
(* "this needs to wait for the channels, so session doesn't go out of      *)
(* scope before channel": ssh_main returns when no coroutine holds one.    *)
(***************************************************************************)
SessionOutlivesChannels == Returned => Running = {}
=============================================================================
