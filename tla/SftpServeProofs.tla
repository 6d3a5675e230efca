-------------------------- MODULE SftpServeProofs ---------------------------
(* Theorems about SftpServe, for any number of workers and requests. *)
EXTENDS SftpServe, SequenceTheorems, FiniteSetTheorems, TLAPS

(* The inductive invariant, by subject. *)

(* A worker has a request, and a reply to it. *)
Busy(w) == pc[w] \in {"handling", "lock_write", "writing"}
Ready(w) == pc[w] \in {"lock_write", "writing"}

(* No worker has begun before the handshake is done, and nothing is on the *)
(* stream then.                                                            *)
HandshakeInv ==
    /\ handshake # "done" =>
          /\ asked = <<>> /\ outbound = <<>> /\ buffer = <<>> /\ taken = <<>> /\ stop = FALSE
          /\ \A w \in Workers : pc[w] = "lock_read"
    /\ handshake = "reading" => Len(init_buffer) + Len(inbound) <= 2
    /\ handshake = "writing" => inbound = <<>>

(* The queue m of a mutex lists the workers in S, each once. *)
Lists(m, S) ==
    /\ m \in Seq(Workers)
    /\ \A i \in 1 .. Len(m) : m[i] \in S
    /\ \A i, j \in 1 .. Len(m) : m[i] = m[j] => i = j
    /\ \A w \in S : \E i \in 1 .. Len(m) : m[i] = w

Readers == {w \in Workers : pc[w] \in {"lock_read", "reading"}}
Writers == {w \in Workers : pc[w] \in {"lock_write", "writing"}}

(* Who reads or writes is first in the queue of those who want to. *)
MutexInv ==
    /\ Lists(read_mutex, Readers)
    /\ Lists(write_mutex, Writers)
    /\ \A w \in Workers : pc[w] = "reading" => Owns(read_mutex, w)
    /\ \A w \in Workers : pc[w] = "writing" => Owns(write_mutex, w)

(* The requests that no worker has and none has replied to. *)
Untaken ==
    {id \in 1 .. Len(asked) :
        /\ \A w \in Workers : Busy(w) => request_id[w] < id
        /\ \A k \in 1 .. Len(outbound) : outbound[k][1].request_id < id}

(* Units of these, in order. *)
Rising(s) == \A i, j \in 1 .. Len(s) : i < j => Position(s[i]) < Position(s[j])
Precedes(s, t) ==
    \A i \in 1 .. Len(s), j \in 1 .. Len(t) : Position(s[i]) < Position(t[j])
Waiting(s) ==
    /\ Rising(s)
    /\ \A i \in 1 .. Len(s) : s[i][1] \in Untaken

(* The shared buffer and what a reader has come before what is under way. *)
StreamInv ==
    handshake = "done" =>
        /\ Waiting(inbound)
        /\ Waiting(buffer)
        /\ Precedes(buffer, inbound)
        /\ \A w \in Workers :
              pc[w] = "reading" => Waiting(my_buffer[w]) /\ Precedes(my_buffer[w], inbound)

(* A reply that the client's response class for its request waits for. *)
Suits(r) ==
    /\ r.request_id \in 1 .. Len(asked)
    /\ r.body.type \in {"STATUS", ReplyType(asked[r.request_id].opcode)}

(* Workers have different requests and reply to their own, not before they *)
(* are first in the queue, and nobody has replied to it before.            *)
RequestInv ==
    /\ \A w \in Workers : Busy(w) => request_id[w] \in 1 .. Len(asked)
    /\ \A v, w \in Workers : Busy(v) /\ Busy(w) /\ request_id[v] = request_id[w] => v = w
    /\ \A w \in Workers :
          Ready(w) => /\ response[w] \in Response
                      /\ response[w].request_id = request_id[w]
                      /\ Suits(response[w])

ReplyInv ==
    /\ \A w \in Workers :
          pc[w] \in {"handling", "lock_write"} =>
              \A k \in 1 .. Len(outbound) : outbound[k][1].request_id # request_id[w]
    /\ \A k \in 1 .. Len(outbound) : Suits(outbound[k][1])
    /\ \A j, k \in 1 .. Len(outbound) :
          /\ outbound[j][2] = 1 /\ outbound[k][2] = 1
          /\ outbound[j][1].request_id = outbound[k][1].request_id
          => j = k

(* Nothing will come any more, and what is left of a packet is not one. *)
Dry(held) ==
    /\ hungUp /\ inbound = <<>> /\ Len(held) < 2
    /\ \E w \in Workers : pc[w] = "ended"

(* Requests are taken in order; what follows them is in line, unless a     *)
(* reader has given up.                                                    *)
OrderInv ==
    /\ WholeInOrder
    /\ stop => \E w \in Workers : pc[w] = "ended"
    /\ handshake = "done" /\ ~stop =>
          /\ (\A w \in Workers : pc[w] # "reading") => InLine(buffer) \/ Dry(buffer)
          /\ \A w \in Workers :
                pc[w] = "reading" =>
                    /\ InLine(my_buffer[w]) \/ Dry(my_buffer[w])
                    /\ Len(buffer) <= Len(my_buffer[w])

(* Half a reply is on the stream when a worker is writing, its own. *)
UnmixedInv ==
    /\ RepliesUnmixed
    /\ ~stop /\ ~hungUp =>
          /\ \A w \in Workers :
                pc[w] = "writing" => /\ Len(outbound) % 2 = 1
                                     /\ outbound[Len(outbound)] = <<response[w], 1>>
          /\ (\A w \in Workers : pc[w] # "writing") => Len(outbound) % 2 = 0

IInv ==
    /\ TypeOK /\ HandshakeInv /\ MutexInv /\ StreamInv /\ RequestInv /\ ReplyInv
    /\ OrderInv /\ UnmixedInv

-----------------------------------------------------------------------------
(* The queues of the mutexes. *)

(* A worker joins at the end. *)
LEMMA ListsAppend ==
    ASSUME NEW m, NEW S, NEW w \in Workers, Lists(m, S), w \notin S
    PROVE  /\ Lists(Append(m, w), S \cup {w})
           /\ \A v \in Workers : Owns(m, v) => Owns(Append(m, w), v)
<1>1. m \in Seq(Workers) /\ Append(m, w) \in Seq(Workers)
  BY DEF Lists
<1>2. /\ Len(Append(m, w)) = Len(m) + 1
      /\ \A k \in 1 .. Len(m) : Append(m, w)[k] = m[k]
      /\ Append(m, w)[Len(m) + 1] = w
      /\ Len(m) \in Nat
  BY <1>1
<1>3. \A v \in S \cup {w} : \E k \in 1 .. Len(m) + 1 : Append(m, w)[k] = v
  <2>1. Len(m) + 1 \in 1 .. Len(m) + 1 /\ 1 .. Len(m) \subseteq 1 .. Len(m) + 1
    BY <1>2
  <2>2. QED
    BY <1>2, <2>1 DEF Lists
<1>4. \A k \in 1 .. Len(m) + 1 : Append(m, w)[k] \in S \cup {w}
  BY <1>1, <1>2 DEF Lists
<1>5. \A j, k \in 1 .. Len(m) + 1 : Append(m, w)[j] = Append(m, w)[k] => j = k
  BY <1>1, <1>2 DEF Lists
<1>6. \A v \in Workers : Owns(m, v) => Owns(Append(m, w), v)
  BY <1>1, <1>2, HeadTailAppend, AppendProperties DEF Owns
<1>7. QED
  BY <1>1, <1>2, <1>3, <1>4, <1>5, <1>6 DEF Lists

(* What is left of a queue without its k-th. *)
Without(m, k) == SubSeq(m, 1, k - 1) \o SubSeq(m, k + 1, Len(m))

LEMMA WithoutKth ==
    ASSUME NEW m \in Seq(Workers), NEW k \in 1 .. Len(m)
    PROVE  /\ Without(m, k) \in Seq(Workers)
           /\ Len(Without(m, k)) = Len(m) - 1
           /\ \A j \in 1 .. Len(m) - 1 :
                 Without(m, k)[j] = IF j < k THEN m[j] ELSE m[j + 1]
<1>1. Len(m) \in Nat /\ m # <<>>
  OBVIOUS
<1>2. CASE k = 1
  <2>1. SubSeq(m, 1, 0) = <<>> /\ SubSeq(m, 2, Len(m)) = Tail(m)
    BY <1>1, SubSeqEmpty, TailIsSubSeq
  <2>2. Tail(m) \in Seq(Workers) /\ <<>> \o Tail(m) = Tail(m)
    BY <1>1, ConcatEmptySeq
  <2>3. Without(m, k) = Tail(m)
    BY <1>2, <2>1, <2>2 DEF Without
  <2>4. QED
    BY <1>1, <1>2, <2>3
<1>3. CASE k \in 2 .. Len(m)
  BY <1>1, <1>3 DEF Without
<1>4. QED
  BY <1>1, <1>2, <1>3

(* A worker leaves, from wherever it is: the owner stays unless it is it. *)
LEMMA ListsLeave ==
    ASSUME NEW m, NEW S, NEW w \in Workers, Lists(m, S)
    PROVE  /\ Lists(Leave(m, w), S \ {w})
           /\ \A v \in Workers : Owns(m, v) /\ v # w => Owns(Leave(m, w), v)
<1>1. m \in Seq(Workers) /\ Len(m) \in Nat
  BY DEF Lists
<1>2. CASE ~Queued(m, w)
  <2>1. Leave(m, w) = m /\ w \notin S
    BY <1>2 DEF Leave, Queued, Lists
  <2>2. QED
    BY <2>1 DEF Lists
<1>3. CASE Queued(m, w)
  <2> DEFINE n == Leave(m, w)
  <2>0. PICK k \in 1 .. Len(m) : m[k] = w /\ n = Without(m, k)
    BY <1>3 DEF Queued, Leave, Without
  <2>1. k \in 1 .. Len(m) /\ m[k] = w
    BY <2>0
  <2> HIDE DEF n
  <2>3. /\ n \in Seq(Workers)
        /\ Len(n) = Len(m) - 1
        /\ \A j \in 1 .. Len(m) - 1 : n[j] = IF j < k THEN m[j] ELSE m[j + 1]
    BY <1>1, <2>0, WithoutKth
  <2>4. \A v \in S \ {w} : \E j \in 1 .. Len(m) - 1 : n[j] = v
    <3> SUFFICES ASSUME NEW v \in S, v # w
                 PROVE  \E j \in 1 .. Len(m) - 1 : n[j] = v
      OBVIOUS
    <3>1. PICK j \in 1 .. Len(m) : m[j] = v
      BY DEF Lists
    <3>2. CASE j < k
      BY <1>1, <2>1, <2>3, <3>1, <3>2
    <3>3. CASE j > k
      <4>1. j - 1 \in 1 .. Len(m) - 1 /\ ~(j - 1 < k) /\ (j - 1) + 1 = j
        BY <1>1, <2>1, <3>3
      <4>2. QED
        BY <2>3, <3>1, <4>1
    <3>4. QED
      BY <2>1, <3>1, <3>2, <3>3
  <2>5. \A j \in 1 .. Len(m) - 1 : n[j] \in S \ {w}
    <3> TAKE j \in 1 .. Len(m) - 1
    <3>1. PICK i \in 1 .. Len(m) : i # k /\ n[j] = m[i]
      BY <1>1, <2>1, <2>3
    <3>2. QED
      BY <2>1, <3>1 DEF Lists
  <2>6. \A i, j \in 1 .. Len(m) - 1 : n[i] = n[j] => i = j
    BY <1>1, <2>1, <2>3 DEF Lists
  <2>7. ASSUME NEW v \in Workers, Owns(m, v), v # w
        PROVE  Owns(n, v)
    <3>1. Len(m) >= 1 /\ m[1] = v /\ k # 1
      BY <1>1, <2>1, <2>7 DEF Owns
    <3>2. Len(n) >= 1 /\ n[1] = v
      BY <1>1, <2>1, <2>3, <3>1
    <3>3. QED
      BY <2>3, <3>2 DEF Owns
  <2>8. QED
    BY <2>3, <2>4, <2>5, <2>6, <2>7 DEF Lists, n
<1>4. QED
  BY <1>2, <1>3

(* A mutex has one owner. *)
LEMMA OwnerUnique ==
    ASSUME NEW m, NEW v, NEW w, Owns(m, v), Owns(m, w)
    PROVE  v = w
BY DEF Owns

-----------------------------------------------------------------------------
(* The steps a proof has to consider. *)

(* The switch ends with a reply that suits the request. *)
Answering(w) ==
    /\ pc[w] = "handling"
    /\ \E b \in Body, framed \in BOOLEAN :
          /\ b.type \in {"STATUS", ReplyType(asked[request_id[w]].opcode)}
          /\ Respond(w, b, framed)

(* A worker returns: with a request it cannot handle, because it is to     *)
(* stop, or because the client is gone.                                    *)
Ending(w) ==
    /\ End(w)
    /\ pc[w] = "handling" \/ stop \/ hungUp
    /\ pc[w] = "reading" /\ ~stop => inbound = <<>> /\ Len(my_buffer[w]) < 2

WorkerStep(w) ==
    \/ StartRead(w)
    \/ \E n \in 1 .. Len(inbound) : ReadSome(w, n)
    \/ TakePacket(w) \/ Answering(w) \/ StartWrite(w) \/ FinishWrite(w) \/ Ending(w)

(* Whatever the error, it is sent as a STATUS packet. *)
LEMMA StatusBody ==
    ASSUME NEW ec
    PROVE  build_status(ec) \in Body /\ build_status(ec).type = "STATUS"
BY DEF build_status, Body, Types, Codes, Shapes

LEMMA SuccessBody ==
    ASSUME NEW type \in Types
    PROVE  Success(type) \in Body /\ Success(type).type = type
BY DEF Success, Body, Types, Codes, Shapes

(* Each case of the switch that is shaped as Case replies with bodies of   *)
(* the type that its opcode calls for.                                     *)
LEMMA CaseAnswers ==
    ASSUME NEW w \in Workers, NEW opcode, NEW bodies,
           \A b \in bodies : b \in Body /\ b.type = ReplyType(opcode),
           Case(w, opcode, bodies)
    PROVE  Answering(w)
<1> DEFINE r == asked[request_id[w]]
<1>1. pc[w] = "handling" /\ r.opcode = opcode
  BY DEF Case, Handling
<1>2. \E b \in Body : b.type \in {"STATUS", ReplyType(r.opcode)} /\ Respond(w, b, TRUE)
  <2>1. CASE Respond(w, build_status("bad_message"), TRUE)
    BY <2>1, StatusBody
  <2>2. CASE \E b \in bodies \cup {build_status(ec) : ec \in BackendErrors} :
                Respond(w, b, TRUE)
    <3>1. PICK b \in bodies \cup {build_status(ec) : ec \in BackendErrors} :
                Respond(w, b, TRUE)
      BY <2>2
    <3>2. b \in Body /\ b.type \in {"STATUS", ReplyType(r.opcode)}
      BY <1>1, StatusBody
    <3>3. QED
      BY <3>1, <3>2
  <2>3. QED
    BY <2>1, <2>2 DEF Case
<1>3. QED
  BY <1>1, <1>2 DEF Answering

(* The switch replies as it should, or ends the worker. *)
LEMMA SwitchCases ==
    ASSUME NEW w \in Workers, Switch(w)
    PROVE  Answering(w) \/ Terminate(w)
<1> DEFINE Suiting(opcode, bodies) ==
        \A b \in bodies : b \in Body /\ b.type = ReplyType(opcode)
<1>1. \A opcode \in StatusOpcodes : Suiting(opcode, {Success("STATUS")})
  BY SuccessBody DEF ReplyType, Types, StatusOpcodes
<1>2. \A opcode \in {"OPEN", "OPENDIR"} : Suiting(opcode, {Success("HANDLE")})
  BY SuccessBody DEF ReplyType, Types
<1>3. \A opcode \in {"LSTAT", "FSTAT", "STAT"} : Suiting(opcode, {Success("ATTRS")})
  BY SuccessBody DEF ReplyType, Types
<1>4. \A opcode \in {"REALPATH", "READLINK", "expand-path"} :
            Suiting(opcode, {Success("NAME")})
  BY SuccessBody DEF ReplyType, Types
<1>5. Suiting("READDIR", {Success("NAME"), [Success("NAME") EXCEPT !.shape = "empty"]})
  BY DEF ReplyType, Success, Body, Types, Codes, Shapes
<1> HIDE DEF Suiting
<1>6. \A opcode, bodies : Case(w, opcode, bodies) /\ Suiting(opcode, bodies) => Answering(w)
  BY CaseAnswers DEF Suiting
<1>7. CASE \/ SSH_FXP_CLOSE(w) \/ SSH_FXP_WRITE(w) \/ SSH_FXP_SETSTAT(w)
           \/ SSH_FXP_FSETSTAT(w) \/ SSH_FXP_REMOVE(w) \/ SSH_FXP_MKDIR(w)
           \/ SSH_FXP_RMDIR(w) \/ SSH_FXP_RENAME(w) \/ SSH_FXP_SYMLINK(w)
  BY <1>1, <1>6, <1>7 DEF StatusOpcodes, SSH_FXP_CLOSE, SSH_FXP_WRITE, SSH_FXP_SETSTAT,
        SSH_FXP_FSETSTAT, SSH_FXP_REMOVE, SSH_FXP_MKDIR, SSH_FXP_RMDIR, SSH_FXP_RENAME,
        SSH_FXP_SYMLINK
<1>8. CASE \/ SSH_FXP_OPEN(w) \/ SSH_FXP_OPENDIR(w) \/ SSH_FXP_LSTAT(w)
           \/ SSH_FXP_FSTAT(w) \/ SSH_FXP_STAT(w) \/ SSH_FXP_REALPATH(w)
           \/ SSH_FXP_READLINK(w) \/ SSH_FXP_READDIR(w)
  BY <1>2, <1>3, <1>4, <1>5, <1>6, <1>8 DEF SSH_FXP_OPEN, SSH_FXP_OPENDIR, SSH_FXP_LSTAT,
        SSH_FXP_FSTAT, SSH_FXP_STAT, SSH_FXP_REALPATH, SSH_FXP_READLINK, SSH_FXP_READDIR
<1>9. CASE SSH_FXP_EXTENDED(w)
  <2>1. CASE Case(w, "hardlink", {Success("STATUS")})
    BY <1>1, <1>6, <2>1 DEF StatusOpcodes
  <2>2. CASE Case(w, "expand-path", {Success("NAME")})
    BY <1>4, <1>6, <2>2
  <2>3. CASE /\ Handling(w, "other extension")
             /\ Respond(w, build_status("SSH_FX_OP_UNSUPPORTED"), TRUE)
    BY <2>3, StatusBody DEF Answering, Handling
  <2>4. QED
    BY <1>9, <2>1, <2>2, <2>3 DEF SSH_FXP_EXTENDED
<1>10. CASE SSH_FXP_READ(w)
  <2>1. Handling(w, "READ") /\ ReplyType("READ") = "DATA"
    BY <1>10 DEF SSH_FXP_READ, ReplyType
  <2>2. pc[w] = "handling" /\ ReplyType(asked[request_id[w]].opcode) = "DATA"
    BY <2>1 DEF Handling
  <2>3. \/ Respond(w, Success("DATA"), FALSE)
        \/ \E ec : Respond(w, build_status(ec), TRUE)
    BY <1>10 DEF SSH_FXP_READ
  <2>4. CASE Respond(w, Success("DATA"), FALSE)
    BY <2>2, <2>4, SuccessBody DEF Answering, Types
  <2>5. CASE \E ec : Respond(w, build_status(ec), TRUE)
    BY <2>2, <2>5, StatusBody DEF Answering
  <2>6. QED
    BY <2>3, <2>4, <2>5
<1>11. QED
  BY <1>7, <1>8, <1>9, <1>10 DEF Switch

LEMMA NextCases ==
    ASSUME TypeOK, Next
    PROVE  \/ \E r \in Requests : Ask(r)
           \/ HangUp
           \/ init_server
           \/ handshake = "done" /\ \E w \in Workers : WorkerStep(w)
           \/ UNCHANGED vars
<1>1. ASSUME NEW w \in Workers, serve_worker(w)
      PROVE  handshake = "done" /\ WorkerStep(w)
  <2>1. CASE ReadFails(w)
    BY <1>1, <2>1 DEF serve_worker, WorkerStep, Ending, ReadFails
  <2>2. CASE Switch(w)
    <3>1. Terminate(w) => Ending(w)
      BY DEF Terminate, Ending
    <3>2. QED
      BY <1>1, <2>2, <3>1, SwitchCases DEF serve_worker, WorkerStep
  <2>3. CASE WriteFails(w)
    BY <1>1, <2>3 DEF serve_worker, WorkerStep, Ending, WriteFails
  <2>4. CASE Stopped(w)
    BY <1>1, <2>4 DEF serve_worker, WorkerStep, Ending, Stopped
  <2>5. QED
    BY <1>1, <2>1, <2>2, <2>3, <2>4 DEF serve_worker, WorkerStep
<1>2. QED
  BY <1>1 DEF Next, Done

-----------------------------------------------------------------------------
(* Type correctness. *)

LEMMA UnitType ==
    ASSUME NEW u \in Units
    PROVE  u[1] \in Int /\ u[1] \in Ids \cup {0} /\ u[2] \in {1, 2} /\ u = <<u[1], u[2]>>
BY DEF Units, Ids

(* Reading from the front of a stream. *)
LEMMA Cut ==
    ASSUME NEW s \in Seq(Units), NEW n \in 1 .. Len(s)
    PROVE  /\ SubSeq(s, 1, n) \in Seq(Units)
           /\ Len(SubSeq(s, 1, n)) = n
           /\ \A i \in 1 .. n : SubSeq(s, 1, n)[i] = s[i]
           /\ SubSeq(s, n + 1, Len(s)) \in Seq(Units)
           /\ Len(SubSeq(s, n + 1, Len(s))) = Len(s) - n
           /\ \A i \in 1 .. Len(s) - n : SubSeq(s, n + 1, Len(s))[i] = s[n + i]
<1>1. Len(s) \in Nat /\ \A i \in 1 .. Len(s) : s[i] \in Units
  BY LenProperties, ElementOfSeq
<1>2. \A i \in n + 1 .. Len(s) : s[i] \in Units
  BY <1>1
<1>3. n \in Int /\ n + 1 \in Int /\ Len(s) \in Int
  BY <1>1
<1>4. /\ SubSeq(s, n + 1, Len(s)) \in Seq(Units)
      /\ Len(SubSeq(s, n + 1, Len(s))) = IF n + 1 <= Len(s) THEN Len(s) - (n + 1) + 1 ELSE 0
      /\ \A i \in 1 .. Len(s) - (n + 1) + 1 : SubSeq(s, n + 1, Len(s))[i] = s[n + 1 + i - 1]
  BY <1>2, <1>3, SubSeqProperties
<1>5. /\ SubSeq(s, 1, n) \in Seq(Units)
      /\ Len(SubSeq(s, 1, n)) = IF 1 <= n THEN n - 1 + 1 ELSE 0
      /\ \A i \in 1 .. n - 1 + 1 : SubSeq(s, 1, n)[i] = s[1 + i - 1]
  BY <1>1, <1>3, SubSeqProperties
<1>6. QED
  BY <1>1, <1>3, <1>4, <1>5

(* What is on the stream after a packet is asked for. *)
LEMMA Sent ==
    ASSUME NEW s \in Seq(Units), NEW u \in Units, NEW v \in Units
    PROVE  /\ s \o <<u, v>> \in Seq(Units)
           /\ Len(s \o <<u, v>>) = Len(s) + 2
           /\ \A i \in 1 .. Len(s) : (s \o <<u, v>>)[i] = s[i]
           /\ (s \o <<u, v>>)[Len(s) + 1] = u
           /\ (s \o <<u, v>>)[Len(s) + 2] = v
OBVIOUS

(* What is left after a packet was taken. *)
LEMMA RestProperties ==
    ASSUME NEW s \in Seq(Units), Len(s) >= 2
    PROVE  /\ Rest(s) \in Seq(Units)
           /\ Len(Rest(s)) = Len(s) - 2
           /\ \A i \in 1 .. Len(s) - 2 : Rest(s)[i] = s[i + 2]
           /\ SubSeq(s, 1, 2) \in Seq(Units)
<1>1. Len(s) \in Nat /\ 2 \in 1 .. Len(s) /\ 2 + 1 = 3
  OBVIOUS
<1>2. /\ SubSeq(s, 2 + 1, Len(s)) \in Seq(Units)
      /\ Len(SubSeq(s, 2 + 1, Len(s))) = Len(s) - 2
      /\ \A i \in 1 .. Len(s) - 2 : SubSeq(s, 2 + 1, Len(s))[i] = s[2 + i]
      /\ SubSeq(s, 1, 2) \in Seq(Units)
  BY <1>1, Cut
<1>3. QED
  BY <1>1, <1>2 DEF Rest

LEMMA InitType == Init => TypeOK
<1> SUFFICES ASSUME Init PROVE TypeOK
  OBVIOUS
<1>1. inbound \in Seq(Units)
  <2>1. Greeting \in Seq(Units) /\ Len(Greeting) = 2 /\ <<>> \in Seq(Units)
    BY DEF Greeting, Units
  <2>2. SubSeq(Greeting, 1, 1) \in Seq(Units)
    BY <2>1, Cut
  <2>3. QED
    BY <2>1, <2>2 DEF Init
<1>2. read_mutex \in Seq(Workers)
  <2>1. worker_count + 1 \in Nat /\ \A k \in 1 .. worker_count + 1 : k - 1 \in Workers
    BY ServeAssumption DEF Workers
  <2>2. QED
    BY <2>1 DEF Init
<1>3. /\ asked \in Seq(Requests) /\ Len(asked) = 0 /\ outbound \in Seq(Response \X {1, 2})
      /\ taken \in Seq(Units \X Units) /\ <<>> \in Seq(Units) /\ <<>> \in Seq(Workers)
  BY DEF Init
<1>4. hungUp \in BOOLEAN /\ stop \in BOOLEAN
  BY DEF Init
<1>5. QED
  BY <1>1, <1>2, <1>3, <1>4, ServeAssumption DEF Init, TypeOK, PCs, Ids

(* What the client and init_server keep, and what the workers keep. *)
ClientTypes ==
    /\ handshake \in {"reading", "writing", "done", "failed"}
    /\ init_buffer \in Seq(Units)
    /\ greeting \in {"INIT", "other"}
    /\ asked \in Seq(Requests) /\ Len(asked) <= MaxRequests
    /\ inbound \in Seq(Units)
    /\ hungUp \in BOOLEAN

WorkerTypes ==
    /\ pc \in [Workers -> PCs]
    /\ my_buffer \in [Workers -> Seq(Units)]
    /\ request_id \in [Workers -> Ids \cup {0}]
    /\ response \in [Workers -> Response \cup {NoResponse}]

SharedTypes ==
    /\ outbound \in Seq(Response \X {1, 2})
    /\ buffer \in Seq(Units)
    /\ read_mutex \in Seq(Workers)
    /\ write_mutex \in Seq(Workers)
    /\ taken \in Seq(Units \X Units)
    /\ stop \in BOOLEAN

LEMMA TypeParts == TypeOK <=> ClientTypes /\ WorkerTypes /\ SharedTypes
BY DEF TypeOK, ClientTypes, WorkerTypes, SharedTypes

(* The ids of the requests that were sent. *)
LEMMA AskedIds ==
    ASSUME TypeOK
    PROVE  Len(asked) \in Nat /\ 1 .. Len(asked) \subseteq Ids
BY ServeAssumption DEF TypeOK, Ids

LEMMA AskType ==
    ASSUME TypeOK, NEW r \in Requests, Ask(r)
    PROVE  /\ TypeOK'
           /\ Len(asked') = Len(asked) + 1
           /\ \A k \in 1 .. Len(asked) : asked'[k] = asked[k]
           /\ Len(inbound') = Len(inbound) + 2
           /\ \A i \in 1 .. Len(inbound) : inbound'[i] = inbound[i]
           /\ inbound'[Len(inbound) + 1] = <<Len(asked) + 1, 1>>
           /\ inbound'[Len(inbound) + 2] = <<Len(asked) + 1, 2>>
<1>1. asked \in Seq(Requests) /\ Len(asked) \in Nat /\ Len(asked) < MaxRequests
  BY DEF Ask, TypeOK
<1>2. /\ asked' \in Seq(Requests)
      /\ Len(asked') = Len(asked) + 1
      /\ \A k \in 1 .. Len(asked) : asked'[k] = asked[k]
  BY <1>1 DEF Ask
<1>3. <<Len(asked'), 1>> \in Units /\ <<Len(asked'), 2>> \in Units
  BY <1>1, <1>2, ServeAssumption DEF Units, Ids
<1>4. inbound' = inbound \o <<<<Len(asked'), 1>>, <<Len(asked'), 2>>>> /\ inbound \in Seq(Units)
  BY DEF Ask, TypeOK
<1>5. /\ inbound' \in Seq(Units)
      /\ Len(inbound') = Len(inbound) + 2
      /\ \A i \in 1 .. Len(inbound) : inbound'[i] = inbound[i]
      /\ inbound'[Len(inbound) + 1] = <<Len(asked'), 1>>
      /\ inbound'[Len(inbound) + 2] = <<Len(asked'), 2>>
  BY <1>3, <1>4, Sent
<1>6. ClientTypes'
  BY <1>1, <1>2, <1>5, ServeAssumption, TypeParts DEF Ask, ClientTypes, initVars
<1>7. WorkerTypes' /\ SharedTypes'
  BY TypeParts DEF Ask, WorkerTypes, SharedTypes, workerVars
<1>8. TypeOK'
  BY <1>6, <1>7 DEF TypeOK, ClientTypes, WorkerTypes, SharedTypes
<1>9. QED
  BY <1>2, <1>5, <1>8

LEMMA InitServerType ==
    ASSUME TypeOK, init_server
    PROVE  TypeOK'
<1> USE TypeParts
<1>1. WorkerTypes' /\ SharedTypes'
  BY DEF init_server, InitReads, InitTakes, InitWrites, InitFails, InitStep,
         WorkerTypes, SharedTypes, workerVars
<1>2. CASE \E n \in 1 .. Len(inbound) : InitReads(n)
  <2>1. PICK n \in 1 .. Len(inbound) : InitReads(n)
    BY <1>2
  <2>2. /\ SubSeq(inbound, 1, n) \in Seq(Units)
        /\ SubSeq(inbound, n + 1, Len(inbound)) \in Seq(Units)
    BY Cut DEF ClientTypes
  <2>3. init_buffer' \in Seq(Units) /\ inbound' \in Seq(Units)
    BY <2>1, <2>2, ConcatProperties DEF InitReads, ClientTypes
  <2>4. ClientTypes'
    BY <2>1, <2>3 DEF InitReads, InitStep, ClientTypes
  <2>5. QED
    BY <1>1, <2>4 DEF TypeOK, ClientTypes, WorkerTypes, SharedTypes
<1>3. CASE InitTakes \/ InitWrites \/ InitFails
  <2>1. init_buffer' \in Seq(Units)
    BY <1>3, EmptySeq DEF InitTakes, InitWrites, InitFails, ClientTypes
  <2>2. handshake' \in {"reading", "writing", "done", "failed"}
    BY <1>3 DEF InitTakes, InitWrites, InitFails
  <2>3. ClientTypes'
    BY <1>3, <2>1, <2>2 DEF InitTakes, InitWrites, InitFails, InitStep, ClientTypes
  <2>4. QED
    BY <1>1, <2>3 DEF TypeOK, ClientTypes, WorkerTypes, SharedTypes
<1>4. QED
  BY <1>2, <1>3 DEF init_server

LEMMA LeaveType ==
    ASSUME NEW m \in Seq(Workers), NEW w
    PROVE  Leave(m, w) \in Seq(Workers)
<1>1. CASE Queued(m, w)
  <2>1. PICK k \in 1 .. Len(m) : Leave(m, w) = Without(m, k)
    BY <1>1 DEF Queued, Leave, Without
  <2>2. QED
    BY <2>1, WithoutKth
<1>2. QED
  BY <1>1 DEF Leave

(* What a reader has after it has read, and what it has left. *)
LEMMA ReadEffect ==
    ASSUME TypeOK, NEW w \in Workers, NEW n \in 1 .. Len(inbound), ReadSome(w, n)
    PROVE  /\ my_buffer' = [my_buffer EXCEPT ![w] = my_buffer[w] \o SubSeq(inbound, 1, n)]
           /\ my_buffer'[w] \in Seq(Units)
           /\ inbound' \in Seq(Units)
           /\ n <= Len(inbound)
           /\ Len(my_buffer'[w]) = Len(my_buffer[w]) + n
           /\ \A i \in 1 .. Len(my_buffer[w]) : my_buffer'[w][i] = my_buffer[w][i]
           /\ \A i \in 1 .. n : my_buffer'[w][Len(my_buffer[w]) + i] = inbound[i]
           /\ Len(inbound') = Len(inbound) - n
           /\ \A i \in 1 .. Len(inbound) - n : inbound'[i] = inbound[n + i]
<1>1. /\ my_buffer[w] \in Seq(Units) /\ Len(my_buffer[w]) \in Nat
      /\ inbound \in Seq(Units) /\ Len(inbound) \in Nat
  BY DEF TypeOK
<1> DEFINE a == my_buffer[w]
           b == SubSeq(inbound, 1, n)
<1>2. /\ b \in Seq(Units) /\ Len(b) = n
      /\ \A i \in 1 .. n : b[i] = inbound[i]
      /\ inbound' \in Seq(Units)
      /\ Len(inbound') = Len(inbound) - n
      /\ \A i \in 1 .. Len(inbound) - n : inbound'[i] = inbound[n + i]
  BY <1>1, Cut DEF ReadSome
<1>3. my_buffer' = [my_buffer EXCEPT ![w] = a \o b]
  BY DEF ReadSome
<1>4. my_buffer'[w] = a \o b
  BY <1>3 DEF TypeOK
<1> HIDE DEF a, b
<1>5. /\ a \in Seq(Units) /\ Len(a) \in Nat
  BY <1>1 DEF a
<1>6. /\ a \o b \in Seq(Units)
      /\ Len(a \o b) = Len(a) + n
      /\ \A i \in 1 .. Len(a) : (a \o b)[i] = a[i]
      /\ \A i \in 1 .. n : (a \o b)[Len(a) + i] = b[i]
  <2>1. /\ a \o b \in Seq(Units)
        /\ Len(a \o b) = Len(a) + Len(b)
        /\ \A i \in 1 .. Len(a) + Len(b) :
              (a \o b)[i] = IF i <= Len(a) THEN a[i] ELSE b[i - Len(a)]
    BY <1>2, <1>5, ConcatProperties
  <2>2. ASSUME NEW i \in 1 .. n
        PROVE  (a \o b)[Len(a) + i] = b[i]
    <3>1. /\ Len(a) + i \in 1 .. Len(a) + Len(b)
          /\ ~(Len(a) + i <= Len(a)) /\ (Len(a) + i) - Len(a) = i
      BY <1>2, <1>5
    <3>2. QED
      BY <2>1, <3>1
  <2>3. QED
    BY <1>2, <1>5, <2>1, <2>2
<1>7. /\ my_buffer'[w] \in Seq(Units)
      /\ Len(my_buffer'[w]) = Len(a) + n
      /\ \A i \in 1 .. Len(a) : my_buffer'[w][i] = a[i]
      /\ \A i \in 1 .. n : my_buffer'[w][Len(a) + i] = inbound[i]
  BY <1>2, <1>4, <1>6, Zenon
<1>8. n <= Len(inbound)
  BY <1>1
<1>9. QED
  BY <1>2, <1>3, <1>7, <1>8, Zenon DEF a, b

LEMMA WorkerType ==
    ASSUME TypeOK, RequestInv, NEW w \in Workers, WorkerStep(w)
    PROVE  TypeOK'
<1> USE TypeParts
<1>1. CASE StartRead(w)
  <2>1. WorkerTypes'
    BY <1>1 DEF StartRead, StartWith, WorkerTypes, SharedTypes, PCs
  <2>2. ClientTypes' /\ SharedTypes'
    BY <1>1 DEF StartRead, clientVars, initVars, ClientTypes, SharedTypes
  <2>3. QED
    BY <2>1, <2>2 DEF TypeOK, ClientTypes, WorkerTypes, SharedTypes
<1>2. CASE \E n \in 1 .. Len(inbound) : ReadSome(w, n)
  <2>1. PICK n \in 1 .. Len(inbound) : ReadSome(w, n)
    BY <1>2
  <2>2. /\ my_buffer' = [my_buffer EXCEPT ![w] = my_buffer[w] \o SubSeq(inbound, 1, n)]
        /\ my_buffer'[w] \in Seq(Units) /\ inbound' \in Seq(Units)
    BY <2>1, ReadEffect
  <2>3. WorkerTypes'
    BY <2>1, <2>2 DEF ReadSome, WorkerTypes
  <2>4. ClientTypes' /\ SharedTypes'
    BY <2>1, <2>2 DEF ReadSome, clientVars, initVars, ClientTypes, SharedTypes
  <2>5. QED
    BY <2>3, <2>4 DEF TypeOK, ClientTypes, WorkerTypes, SharedTypes
<1>3. CASE TakePacket(w)
  <2>1. my_buffer[w] \in Seq(Units) /\ Len(my_buffer[w]) \in Nat /\ Len(my_buffer[w]) >= 2
    BY <1>3 DEF TakePacket, WorkerTypes
  <2>2. Rest(my_buffer[w]) \in Seq(Units) /\ SubSeq(my_buffer[w], 1, 2) \in Seq(Units)
    BY <2>1, RestProperties
  <2>3. my_buffer[w][1] \in Units /\ my_buffer[w][2] \in Units
    BY <2>1
  <2>4. WorkerTypes'
    BY <1>3, <2>2, <2>3, UnitType DEF TakePacket, WorkerTypes, PCs
  <2>5. taken' \in Seq(Units \X Units)
    BY <1>3, <2>3 DEF TakePacket, SharedTypes
  <2>6. ClientTypes' /\ SharedTypes'
    BY <1>3, <2>2, <2>5, LeaveType
       DEF TakePacket, clientVars, initVars, ClientTypes, SharedTypes
  <2>7. QED
    BY <2>4, <2>6 DEF TypeOK, ClientTypes, WorkerTypes, SharedTypes
<1>4. CASE Answering(w)
  <2>1. PICK b \in Body, framed \in BOOLEAN : Respond(w, b, framed)
    BY <1>4 DEF Answering
  <2>2. request_id[w] \in Ids
    BY <1>4, AskedIds DEF Answering, RequestInv, Busy
  <2>3. [request_id |-> request_id[w], body |-> b, framed |-> framed] \in Response
    BY <2>2 DEF Response
  <2>4. WorkerTypes'
    BY <2>1, <2>3 DEF Respond, WorkerTypes, PCs
  <2>5. ClientTypes' /\ SharedTypes'
    BY <2>1 DEF Respond, clientVars, initVars, ClientTypes, SharedTypes
  <2>6. QED
    BY <2>4, <2>5 DEF TypeOK, ClientTypes, WorkerTypes, SharedTypes
<1>5. CASE StartWrite(w)
  <2>1. response[w] \in Response
    BY <1>5 DEF StartWrite, RequestInv, Ready
  <2>2. outbound' \in Seq(Response \X {1, 2})
    BY <1>5, <2>1 DEF StartWrite, SharedTypes
  <2>3. WorkerTypes'
    BY <1>5 DEF StartWrite, workerVars, WorkerTypes, PCs
  <2>4. ClientTypes' /\ SharedTypes'
    BY <1>5, <2>2 DEF StartWrite, clientVars, initVars, ClientTypes, SharedTypes
  <2>5. QED
    BY <2>3, <2>4 DEF TypeOK, ClientTypes, WorkerTypes, SharedTypes
<1>6. CASE FinishWrite(w)
  <2>1. response[w] \in Response
    BY <1>6 DEF FinishWrite, RequestInv, Ready
  <2>2. outbound' \in Seq(Response \X {1, 2})
    BY <1>6, <2>1 DEF FinishWrite, SharedTypes
  <2>3. <<>> \in Seq(Units)
    OBVIOUS
  <2>4. WorkerTypes'
    BY <1>6, <2>3 DEF FinishWrite, WorkerTypes, PCs
  <2>5. read_mutex' \in Seq(Workers) /\ write_mutex' \in Seq(Workers)
    <3>1. write_mutex' \in Seq(Workers)
      BY <1>6, LeaveType DEF FinishWrite, SharedTypes
    <3>2. Append(read_mutex, w) \in Seq(Workers)
      BY AppendProperties DEF SharedTypes
    <3>3. QED
      BY <1>6, <3>1, <3>2 DEF FinishWrite, SharedTypes
  <2>6. ClientTypes' /\ SharedTypes'
    BY <1>6, <2>2, <2>5 DEF FinishWrite, clientVars, initVars, ClientTypes, SharedTypes
  <2>7. QED
    BY <2>4, <2>6 DEF TypeOK, ClientTypes, WorkerTypes, SharedTypes
<1>7. CASE Ending(w)
  <2>1. End(w)
    BY <1>7 DEF Ending
  <2>2. stop' \in BOOLEAN
    BY <2>1, ServeAssumption DEF End, SharedTypes
  <2>3. WorkerTypes'
    BY <2>1 DEF End, workerVars, WorkerTypes, PCs
  <2>4. ClientTypes' /\ SharedTypes'
    BY <2>1, <2>2, LeaveType DEF End, initVars, ClientTypes, SharedTypes
  <2>5. QED
    BY <2>3, <2>4 DEF TypeOK, ClientTypes, WorkerTypes, SharedTypes
<1>8. QED
  BY <1>1, <1>2, <1>3, <1>4, <1>5, <1>6, <1>7 DEF WorkerStep

LEMMA StepType ==
    ASSUME TypeOK, RequestInv, [Next]_vars
    PROVE  TypeOK'
<1>1. CASE \E r \in Requests : Ask(r)
  BY <1>1, AskType
<1>2. CASE HangUp
  BY <1>2 DEF HangUp, TypeOK, initVars, workerVars
<1>3. CASE init_server
  BY <1>3, InitServerType
<1>4. CASE \E w \in Workers : WorkerStep(w)
  BY <1>4, WorkerType
<1>5. CASE UNCHANGED vars
  BY <1>5 DEF vars, initVars, TypeOK
<1>6. QED
  BY <1>1, <1>2, <1>3, <1>4, <1>5, NextCases

-----------------------------------------------------------------------------
(* The handshake. *)

LEMMA InitHandshake == Init => HandshakeInv
<1> SUFFICES ASSUME Init PROVE HandshakeInv
  OBVIOUS
<1>1. Len(init_buffer) = 0 /\ Len(inbound) \in Nat /\ Len(inbound) <= 2
  <2>1. Greeting \in Seq(Units) /\ Len(Greeting) = 2 /\ <<>> \in Seq(Units)
    BY DEF Greeting, Units
  <2>2. Len(SubSeq(Greeting, 1, 1)) = 1
    BY <2>1, Cut
  <2>3. /\ init_buffer = <<>>
        /\ inbound = Greeting \/ inbound = <<>> \/ inbound = SubSeq(Greeting, 1, 1)
    BY DEF Init
  <2>4. Len(<<>>) = 0
    OBVIOUS
  <2>5. \/ Len(inbound) = 0 \/ Len(inbound) = 1 \/ Len(inbound) = 2
    BY <2>1, <2>2, <2>3, <2>4, Zenon
  <2>6. QED
    BY <2>3, <2>4, <2>5
<1>2. QED
  BY <1>1 DEF Init, HandshakeInv

LEMMA StepHandshake ==
    ASSUME TypeOK, HandshakeInv, [Next]_vars
    PROVE  HandshakeInv'
<1>1. CASE \E r \in Requests : Ask(r)
  BY <1>1 DEF Ask, MayAsk, HandshakeInv, initVars
<1>2. CASE HangUp \/ UNCHANGED vars
  BY <1>2 DEF HangUp, HandshakeInv, vars, initVars, workerVars
<1>3. CASE init_server
  <2>1. UNCHANGED <<asked, outbound, buffer, taken, stop, pc>>
    BY <1>3 DEF init_server, InitReads, InitTakes, InitWrites, InitFails, InitStep
  <2>2. handshake # "done"
    BY <1>3 DEF init_server, InitReads, InitTakes, InitWrites, InitFails
  <2>3. CASE \E n \in 1 .. Len(inbound) : InitReads(n)
    <3>1. PICK n \in 1 .. Len(inbound) : InitReads(n)
      BY <2>3
    <3>2. /\ init_buffer \in Seq(Units) /\ inbound \in Seq(Units)
          /\ Len(init_buffer) \in Nat /\ Len(inbound) \in Nat
      BY DEF TypeOK
    <3>3. /\ SubSeq(inbound, 1, n) \in Seq(Units)
          /\ Len(SubSeq(inbound, 1, n)) = n
          /\ Len(inbound') = Len(inbound) - n
      BY <3>1, <3>2, Cut DEF InitReads
    <3>4. Len(init_buffer') = Len(init_buffer) + n
      BY <3>1, <3>2, <3>3, ConcatProperties DEF InitReads
    <3>5. QED
      <4>1. handshake' = "reading" /\ Len(init_buffer) + Len(inbound) <= 2
        BY <3>1 DEF InitReads, HandshakeInv
      <4>2. Len(init_buffer') + Len(inbound') <= 2
        BY <3>2, <3>3, <3>4, <4>1
      <4>3. QED
        BY <2>1, <2>2, <4>1, <4>2 DEF HandshakeInv
  <2>4. CASE InitTakes
    <3>1. Len(inbound) = 0 /\ inbound \in Seq(Units)
      BY <2>4 DEF InitTakes, HandshakeInv, TypeOK
    <3>2. inbound = <<>>
      BY <3>1
    <3>3. QED
      BY <2>1, <2>2, <2>4, <3>2 DEF InitTakes, HandshakeInv
  <2>5. CASE InitWrites
    BY <2>1, <2>2, <2>5 DEF InitWrites, HandshakeInv
  <2>6. CASE InitFails
    BY <2>1, <2>2, <2>6 DEF InitFails, HandshakeInv
  <2>7. QED
    BY <1>3, <2>3, <2>4, <2>5, <2>6 DEF init_server
<1>4. CASE handshake = "done" /\ \E w \in Workers : WorkerStep(w)
  <2>1. handshake' = handshake
    BY <1>4 DEF WorkerStep, StartRead, ReadSome, TakePacket, Answering, Respond, StartWrite,
          FinishWrite, Ending, End, clientVars, initVars
  <2>2. QED
    BY <1>4, <2>1 DEF HandshakeInv
<1>5. QED
  BY <1>1, <1>2, <1>3, <1>4, NextCases

-----------------------------------------------------------------------------
(* The mutexes. *)

LEMMA InitMutex == Init => MutexInv
<1> SUFFICES ASSUME Init PROVE MutexInv
  OBVIOUS
<1>1. worker_count \in Nat
  BY ServeAssumption
<1>2. Readers = Workers /\ Writers = {}
  BY DEF Init, Readers, Writers
<1>3. /\ read_mutex \in Seq(Workers) /\ Len(read_mutex) = worker_count + 1
      /\ \A k \in 1 .. worker_count + 1 : read_mutex[k] = k - 1
  BY <1>1 DEF Init, Workers
<1>4. \A w \in Workers : \E i \in 1 .. worker_count + 1 : read_mutex[i] = w
  <2> TAKE w \in Workers
  <2>1. w + 1 \in 1 .. worker_count + 1 /\ (w + 1) - 1 = w
    BY <1>1 DEF Workers
  <2>2. QED
    BY <1>3, <2>1
<1>5. Lists(read_mutex, Workers)
  <2>1. \A k \in 1 .. worker_count + 1 : read_mutex[k] \in Workers
    BY <1>1, <1>3 DEF Workers
  <2>2. \A i, j \in 1 .. worker_count + 1 : read_mutex[i] = read_mutex[j] => i = j
    BY <1>1, <1>3
  <2>3. QED
    BY <1>3, <1>4, <2>1, <2>2 DEF Lists
<1>6. Lists(write_mutex, {})
  <2>1. <<>> \in Seq(Workers) /\ Len(<<>>) = 0
    BY EmptySeq
  <2>2. QED
    BY <2>1 DEF Init, Lists
<1>7. QED
  BY <1>2, <1>5, <1>6 DEF MutexInv, Init

LEMMA WorkerMutex ==
    ASSUME TypeOK, MutexInv, NEW w \in Workers, WorkerStep(w)
    PROVE  MutexInv'
<1>0. pc \in [Workers -> PCs]
  BY DEF TypeOK
<1>1. CASE StartRead(w)
  <2>1. Readers' = Readers /\ Writers' = Writers
    BY <1>0, <1>1 DEF StartRead, Readers, Writers
  <2>2. QED
    BY <1>0, <1>1, <2>1 DEF StartRead, MutexInv
<1>2. CASE \E n \in 1 .. Len(inbound) : ReadSome(w, n)
  BY <1>2 DEF ReadSome, MutexInv, Readers, Writers
<1>3. CASE TakePacket(w)
  <2>1. Readers' = Readers \ {w} /\ Writers' = Writers
    BY <1>0, <1>3 DEF TakePacket, Readers, Writers
  <2>2. QED
    BY <1>0, <1>3, <2>1, ListsLeave DEF TakePacket, MutexInv
<1>4. CASE Answering(w)
  <2>1. /\ pc[w] = "handling" /\ pc' = [pc EXCEPT ![w] = "lock_write"]
        /\ write_mutex' = Append(write_mutex, w) /\ read_mutex' = read_mutex
    BY <1>4 DEF Answering, Respond
  <2>2. Readers' = Readers /\ Writers' = Writers \cup {w} /\ w \notin Writers
    BY <1>0, <2>1 DEF Readers, Writers
  <2>3. QED
    BY <1>0, <2>1, <2>2, ListsAppend DEF MutexInv
<1>5. CASE StartWrite(w)
  <2>1. Readers' = Readers /\ Writers' = Writers
    BY <1>0, <1>5 DEF StartWrite, Readers, Writers
  <2>2. QED
    BY <1>0, <1>5, <2>1 DEF StartWrite, MutexInv
<1>6. CASE FinishWrite(w)
  <2>1. w \notin Readers /\ Writers' = Writers \ {w}
    BY <1>0, <1>6 DEF FinishWrite, Readers, Writers
  <2>2. /\ Lists(write_mutex', Writers')
        /\ \A v \in Workers : pc'[v] = "writing" => Owns(write_mutex', v)
    BY <1>0, <1>6, <2>1, ListsLeave DEF FinishWrite, MutexInv
  <2>3. CASE stop
    <3>1. read_mutex' = read_mutex /\ Readers' = Readers
      BY <1>0, <1>6, <2>3 DEF FinishWrite, Readers
    <3>2. QED
      BY <1>0, <1>6, <2>2, <2>3, <3>1 DEF FinishWrite, MutexInv
  <2>4. CASE ~stop
    <3>1. read_mutex' = Append(read_mutex, w) /\ Readers' = Readers \cup {w}
      BY <1>0, <1>6, <2>4 DEF FinishWrite, Readers
    <3>2. Lists(read_mutex', Readers')
      BY <2>1, <3>1, ListsAppend DEF MutexInv
    <3>3. \A v \in Workers : pc'[v] = "reading" => Owns(read_mutex', v)
      BY <1>0, <1>6, <2>1, <2>4, <3>1, ListsAppend DEF FinishWrite, MutexInv
    <3>4. QED
      BY <2>2, <3>2, <3>3 DEF MutexInv
  <2>5. QED
    BY <2>3, <2>4
<1>7. CASE Ending(w)
  <2>1. Readers' = Readers \ {w} /\ Writers' = Writers \ {w}
    BY <1>0, <1>7 DEF Ending, End, Readers, Writers
  <2>2. Lists(read_mutex', Readers') /\ Lists(write_mutex', Writers')
    BY <1>7, <2>1, ListsLeave DEF Ending, End, MutexInv
  <2>3. \A v \in Workers : pc'[v] = "reading" => Owns(read_mutex', v)
    BY <1>0, <1>7, ListsLeave DEF Ending, End, MutexInv
  <2>4. \A v \in Workers : pc'[v] = "writing" => Owns(write_mutex', v)
    BY <1>0, <1>7, ListsLeave DEF Ending, End, MutexInv
  <2>5. QED
    BY <2>2, <2>3, <2>4 DEF MutexInv
<1>8. QED
  BY <1>1, <1>2, <1>3, <1>4, <1>5, <1>6, <1>7 DEF WorkerStep

LEMMA StepMutex ==
    ASSUME TypeOK, MutexInv, [Next]_vars
    PROVE  MutexInv'
<1>1. CASE UNCHANGED <<pc, read_mutex, write_mutex>>
  BY <1>1 DEF MutexInv, Readers, Writers
<1>2. CASE \E r \in Requests : Ask(r)
  BY <1>1, <1>2 DEF Ask
<1>3. CASE HangUp \/ UNCHANGED vars
  BY <1>1, <1>3 DEF HangUp, vars
<1>4. CASE init_server
  BY <1>1, <1>4 DEF init_server, InitReads, InitTakes, InitWrites, InitFails, InitStep
<1>5. CASE \E w \in Workers : WorkerStep(w)
  BY <1>5, WorkerMutex
<1>6. QED
  BY <1>2, <1>3, <1>4, <1>5, NextCases

-----------------------------------------------------------------------------
(* The requests on the stream. *)

LEMMA PositionType ==
    ASSUME NEW u \in Units
    PROVE  /\ Position(u) \in Int
           /\ Position(u) <= 2 * u[1]
           /\ Position(u) > 2 * (u[1] - 1)
<1>1. u[1] \in Int /\ u[2] \in {1, 2}
  BY UnitType
<1>2. QED
  BY <1>1 DEF Position

(* Two units later, it is another request. *)
LEMMA NextRequest ==
    ASSUME NEW u \in Units, NEW v \in Units, NEW x \in Units,
           Position(u) < Position(v), Position(v) < Position(x)
    PROVE  u[1] < x[1]
<1>1. /\ u[1] \in Int /\ v[1] \in Int /\ x[1] \in Int
      /\ u[2] \in {1, 2} /\ v[2] \in {1, 2} /\ x[2] \in {1, 2}
  BY UnitType
<1>2. QED
  BY <1>1 DEF Position

(* What was there before is a prefix of what is there after a write. *)
LEMMA Written ==
    ASSUME TypeOK, NEW r \in Response, NEW h \in {1, 2}, outbound' = Append(outbound, <<r, h>>)
    PROVE  /\ Len(outbound) \in Nat
           /\ Len(outbound') = Len(outbound) + 1
           /\ \A k \in 1 .. Len(outbound) : outbound'[k] = outbound[k]
           /\ outbound'[Len(outbound) + 1] = <<r, h>>
<1>1. outbound \in Seq(Response \X {1, 2}) /\ <<r, h>> \in Response \X {1, 2}
  BY DEF TypeOK
<1>2. QED
  BY <1>1

(* A worker's steps use up no request but the one it takes. *)
LEMMA WorkerUntaken ==
    ASSUME TypeOK, RequestInv, NEW w \in Workers, WorkerStep(w)
    PROVE  \/ TakePacket(w)
           \/ Untaken \subseteq Untaken'
<1>0. pc \in [Workers -> PCs] /\ request_id \in [Workers -> Ids \cup {0}]
  BY DEF TypeOK
<1>1. CASE UNCHANGED <<asked, outbound, request_id>> /\ \A v \in Workers : Busy(v)' => Busy(v)
  BY <1>1 DEF Untaken
<1>2. CASE StartRead(w)
  BY <1>0, <1>1, <1>2 DEF StartRead, Busy, clientVars
<1>3. CASE \E n \in 1 .. Len(inbound) : ReadSome(w, n)
  BY <1>0, <1>1, <1>3 DEF ReadSome, Busy, clientVars
<1>4. CASE Answering(w)
  BY <1>0, <1>1, <1>4 DEF Answering, Respond, Busy, clientVars
<1>5. CASE Ending(w)
  BY <1>0, <1>1, <1>5 DEF Ending, End, Busy, workerVars
<1>6. CASE StartWrite(w) \/ FinishWrite(w)
  <2>1. /\ Busy(w) /\ response[w] \in Response
        /\ response[w].request_id = request_id[w]
    BY <1>6 DEF StartWrite, FinishWrite, RequestInv, Ready, Busy
  <2>2. PICK h \in {1, 2} : outbound' = Append(outbound, <<response[w], h>>)
    BY <1>6 DEF StartWrite, FinishWrite
  <2>3. /\ Len(outbound) \in Nat
        /\ Len(outbound') = Len(outbound) + 1
        /\ \A k \in 1 .. Len(outbound) : outbound'[k] = outbound[k]
        /\ outbound'[Len(outbound) + 1][1] = response[w]
    BY <2>1, <2>2, Written
  <2>4. asked' = asked
    BY <1>6 DEF StartWrite, FinishWrite, clientVars
  <2>5. \A v \in Workers : Busy(v)' => Busy(v) /\ request_id'[v] = request_id[v]
    <3>1. CASE StartWrite(w)
      BY <1>0, <3>1 DEF StartWrite, Busy, workerVars
    <3>2. CASE FinishWrite(w)
      BY <1>0, <3>2 DEF FinishWrite, Busy
    <3>3. QED
      BY <1>6, <3>1, <3>2
  <2>6. ASSUME NEW id \in Untaken
        PROVE  id \in Untaken'
    <3>1. \A k \in 1 .. Len(outbound') : outbound'[k][1].request_id < id
      BY <2>1, <2>3, <2>6 DEF Untaken
    <3>2. QED
      BY <2>4, <2>5, <2>6, <3>1 DEF Untaken
  <2>7. QED
    BY <2>6
<1>7. QED
  BY <1>2, <1>3, <1>4, <1>5, <1>6 DEF WorkerStep

LEMMA InitStream == Init => StreamInv
BY DEF Init, StreamInv

LEMMA AskStream ==
    ASSUME TypeOK, RequestInv, ReplyInv, StreamInv, NEW r \in Requests, Ask(r)
    PROVE  StreamInv'
<1>0. Len(asked) \in Nat /\ inbound \in Seq(Units) /\ Len(inbound) \in Nat
  BY DEF TypeOK
<1>1. /\ Len(asked) \in Nat
      /\ Len(asked') = Len(asked) + 1
      /\ inbound \in Seq(Units) /\ Len(inbound) \in Nat
      /\ Len(inbound') = Len(inbound) + 2
      /\ \A i \in 1 .. Len(inbound) : inbound'[i] = inbound[i]
      /\ inbound'[Len(inbound) + 1] = <<Len(asked) + 1, 1>>
      /\ inbound'[Len(inbound) + 2] = <<Len(asked) + 1, 2>>
  BY <1>0, AskType
<1>2. /\ handshake = "done"
      /\ UNCHANGED <<outbound, buffer, pc, my_buffer, request_id>>
  BY DEF Ask, MayAsk, workerVars
<1>3. Untaken \subseteq Untaken'
  BY <1>1, <1>2 DEF Untaken, Busy
<1>4. Len(asked) + 1 \in Untaken'
  BY <1>1, <1>2 DEF Untaken, Busy, RequestInv, ReplyInv, Suits
<1>5. Position(<<Len(asked) + 1, 1>>) = 2 * Len(asked) + 1
  BY <1>1 DEF Position
<1>6. Position(<<Len(asked) + 1, 2>>) = 2 * Len(asked) + 2
  BY <1>1 DEF Position
<1>7. ASSUME NEW u \in Units, u[1] \in Untaken
      PROVE  Position(u) < 2 * Len(asked) + 1
  <2>1. u[1] \in Int /\ u[1] <= Len(asked)
    BY <1>7, UnitType DEF Untaken
  <2>2. QED
    BY <1>1, <2>1, PositionType
<1>8. \A i \in 1 .. Len(inbound) : inbound[i] \in Units /\ inbound[i][1] \in Untaken
  BY <1>1, <1>2 DEF StreamInv, Waiting
<1>9. Rising(inbound)'
  <2> SUFFICES ASSUME NEW i \in 1 .. Len(inbound) + 2, NEW j \in 1 .. Len(inbound) + 2, i < j
               PROVE  Position(inbound'[i]) < Position(inbound'[j])
    BY <1>1 DEF Rising
  <2>1. CASE j <= Len(inbound)
    <3>1. i \in 1 .. Len(inbound) /\ j \in 1 .. Len(inbound)
      BY <1>1, <2>1
    <3>2. QED
      BY <1>1, <1>2, <3>1 DEF StreamInv, Waiting, Rising
  <2>2. CASE i <= Len(inbound) /\ j > Len(inbound)
    <3>1. i \in 1 .. Len(inbound) /\ (j = Len(inbound) + 1 \/ j = Len(inbound) + 2)
      BY <1>1, <2>2
    <3>2. Position(inbound'[i]) < 2 * Len(asked) + 1
      BY <1>1, <1>7, <1>8, <3>1
    <3>3. Position(inbound'[i]) \in Int
      BY <1>1, <1>8, <3>1, PositionType
    <3>4. \/ Position(inbound'[j]) = 2 * Len(asked) + 1
          \/ Position(inbound'[j]) = 2 * Len(asked) + 2
      BY <1>1, <1>5, <1>6, <3>1, Zenon
    <3>5. QED
      BY <1>0, <3>2, <3>3, <3>4
  <2>3. CASE i > Len(inbound)
    <3>1. i = Len(inbound) + 1 /\ j = Len(inbound) + 2
      BY <1>1, <2>3
    <3>2. /\ Position(inbound'[i]) = 2 * Len(asked) + 1
          /\ Position(inbound'[j]) = 2 * Len(asked) + 2
      BY <1>1, <1>5, <1>6, <3>1, Zenon
    <3>3. QED
      BY <1>0, <3>2
  <2>4. QED
    BY <1>1, <2>1, <2>2, <2>3
<1>10. \A i \in 1 .. Len(inbound) + 2 : inbound'[i][1] \in Untaken'
  <2> TAKE i \in 1 .. Len(inbound) + 2
  <2>1. CASE i \in 1 .. Len(inbound)
    BY <1>1, <1>3, <1>8, <2>1, UnitType
  <2>2. CASE i = Len(inbound) + 1 \/ i = Len(inbound) + 2
    <3>1. inbound'[i][1] = Len(asked) + 1
      BY <1>1, <2>2
    <3>2. QED
      BY <1>4, <3>1
  <2>3. QED
    BY <1>1, <2>1, <2>2
<1>11. ASSUME NEW s \in Seq(Units), Waiting(s), Precedes(s, inbound)
       PROVE  /\ Rising(s)
              /\ \A i \in 1 .. Len(s) : s[i][1] \in Untaken'
              /\ \A i \in 1 .. Len(s), j \in 1 .. Len(inbound) + 2 :
                    Position(s[i]) < Position(inbound'[j])
  <2>1. \A i \in 1 .. Len(s) : s[i] \in Units /\ s[i][1] \in Untaken
    BY <1>11 DEF Waiting
  <2>2. \A i \in 1 .. Len(s) : Position(s[i]) < 2 * Len(asked) + 1 /\ Position(s[i]) \in Int
    BY <1>7, <2>1, PositionType
  <2>3. ASSUME NEW i \in 1 .. Len(s), NEW j \in 1 .. Len(inbound) + 2
        PROVE  Position(s[i]) < Position(inbound'[j])
    <3>1. CASE j \in 1 .. Len(inbound)
      BY <1>1, <1>11, <3>1 DEF Precedes
    <3>2. CASE j = Len(inbound) + 1 \/ j = Len(inbound) + 2
      <4>1. \/ Position(inbound'[j]) = 2 * Len(asked) + 1
            \/ Position(inbound'[j]) = 2 * Len(asked) + 2
        BY <1>1, <1>5, <1>6, <3>2, Zenon
      <4>2. QED
        BY <1>0, <2>2, <4>1
    <3>3. QED
      BY <1>1, <3>1, <3>2
  <2>4. \A i \in 1 .. Len(s) : s[i][1] \in Untaken'
    BY <1>3, <2>1, UnitType
  <2>5. QED
    BY <1>11, <2>3, <2>4 DEF Waiting
<1>12. Waiting(inbound)'
  BY <1>1, <1>9, <1>10 DEF Waiting
<1>13. Waiting(buffer)' /\ Precedes(buffer, inbound)'
  <2>1. buffer \in Seq(Units) /\ Waiting(buffer) /\ Precedes(buffer, inbound)
    BY <1>2 DEF TypeOK, StreamInv
  <2>2. QED
    BY <1>1, <1>2, <1>11, <2>1 DEF Waiting, Rising, Precedes
<1>14. ASSUME NEW w \in Workers, pc'[w] = "reading"
       PROVE  Waiting(my_buffer[w])' /\ Precedes(my_buffer[w], inbound)'
  <2>1. my_buffer[w] \in Seq(Units) /\ Waiting(my_buffer[w]) /\ Precedes(my_buffer[w], inbound)
    BY <1>2, <1>14 DEF TypeOK, StreamInv
  <2>2. QED
    BY <1>1, <1>2, <1>11, <2>1 DEF Waiting, Rising, Precedes
<1>15. QED
  BY <1>12, <1>13, <1>14 DEF StreamInv

(* A step that leaves the stream and the buffers as they are. *)
LEMMA QuietStream ==
    ASSUME StreamInv, handshake = "done", UNCHANGED <<inbound, buffer>>,
           Untaken \subseteq Untaken',
           \A v \in Workers : pc'[v] = "reading" => pc[v] = "reading" /\ my_buffer'[v] = my_buffer[v]
    PROVE  StreamInv'
<1>1. Waiting(inbound)' /\ Waiting(buffer)' /\ Precedes(buffer, inbound)'
  BY DEF StreamInv, Waiting, Rising, Precedes
<1>2. ASSUME NEW v \in Workers, pc'[v] = "reading"
      PROVE  Waiting(my_buffer[v])' /\ Precedes(my_buffer[v], inbound)'
  <2>1. /\ my_buffer'[v] = my_buffer[v]
        /\ Waiting(my_buffer[v]) /\ Precedes(my_buffer[v], inbound)
    BY <1>2 DEF StreamInv
  <2>2. QED
    BY <2>1 DEF Waiting, Rising, Precedes
<1>3. QED
  BY <1>1, <1>2 DEF StreamInv

(* Only one worker reads. *)
LEMMA OneReader ==
    ASSUME MutexInv, NEW v \in Workers, NEW w \in Workers,
           pc[v] = "reading", pc[w] = "reading"
    PROVE  v = w
BY OwnerUnique DEF MutexInv

LEMMA ReadStream ==
    ASSUME TypeOK, MutexInv, StreamInv, handshake = "done",
           NEW w \in Workers, NEW n \in 1 .. Len(inbound), ReadSome(w, n),
           Untaken \subseteq Untaken'
    PROVE  StreamInv'
<1> DEFINE b == my_buffer[w]
           c == my_buffer'[w]
<1>1. /\ b \in Seq(Units) /\ Len(b) \in Nat
      /\ inbound \in Seq(Units) /\ Len(inbound) \in Nat /\ n <= Len(inbound)
      /\ Len(c) = Len(b) + n
      /\ \A i \in 1 .. Len(b) : c[i] = b[i]
      /\ \A i \in 1 .. n : c[Len(b) + i] = inbound[i]
      /\ Len(inbound') = Len(inbound) - n
      /\ \A i \in 1 .. Len(inbound) - n : inbound'[i] = inbound[n + i]
  <2>1. b \in Seq(Units) /\ inbound \in Seq(Units)
    BY DEF TypeOK
  <2>2. QED
    BY <2>1, ReadEffect
<1>2. pc[w] = "reading" /\ UNCHANGED <<pc, buffer>>
  BY DEF ReadSome
<1>3. /\ Waiting(inbound) /\ Waiting(buffer) /\ Precedes(buffer, inbound)
      /\ Waiting(b) /\ Precedes(b, inbound)
  BY <1>2 DEF StreamInv
<1> HIDE DEF b, c
<1>4. \A i \in 1 .. Len(b) + n :
          \/ i \in 1 .. Len(b) /\ c[i] = b[i]
          \/ \E k \in 1 .. n : i = Len(b) + k /\ c[i] = inbound[k] /\ k \in 1 .. Len(inbound)
  <2> TAKE i \in 1 .. Len(b) + n
  <2>1. CASE i <= Len(b)
    BY <1>1, <2>1
  <2>2. CASE i > Len(b)
    <3>1. i - Len(b) \in 1 .. n /\ i = Len(b) + (i - Len(b)) /\ i - Len(b) \in 1 .. Len(inbound)
      BY <1>1, <2>2
    <3>2. QED
      BY <1>1, <3>1
  <2>3. QED
    BY <1>1, <2>1, <2>2
<1>5. \A i, j \in 1 .. Len(c) : i < j => Position(c[i]) < Position(c[j])
  <2> SUFFICES ASSUME NEW i \in 1 .. Len(b) + n, NEW j \in 1 .. Len(b) + n, i < j
               PROVE  Position(c[i]) < Position(c[j])
    BY <1>1
  <2>1. CASE j \in 1 .. Len(b)
    <3>1. i \in 1 .. Len(b)
      BY <2>1
    <3>2. QED
      BY <1>1, <1>3, <2>1, <3>1 DEF Waiting, Rising
  <2>2. CASE j \notin 1 .. Len(b)
    <3>1. PICK k \in 1 .. n : j = Len(b) + k /\ c[j] = inbound[k] /\ k \in 1 .. Len(inbound)
      BY <1>4, <2>2
    <3>2. CASE i \in 1 .. Len(b)
      BY <1>1, <1>3, <3>1, <3>2 DEF Precedes
    <3>3. CASE i \notin 1 .. Len(b)
      <4>1. PICK l \in 1 .. n : i = Len(b) + l /\ c[i] = inbound[l] /\ l \in 1 .. Len(inbound)
        BY <1>4, <3>3
      <4>2. l < k
        BY <1>1, <3>1, <4>1
      <4>3. QED
        BY <1>3, <3>1, <4>1, <4>2 DEF Waiting, Rising
    <3>4. QED
      BY <3>2, <3>3
  <2>3. QED
    BY <2>1, <2>2
<1>6. \A i \in 1 .. Len(c) : c[i][1] \in Untaken'
  <2>1. /\ \A i \in 1 .. Len(b) : b[i][1] \in Untaken'
        /\ \A k \in 1 .. Len(inbound) : inbound[k][1] \in Untaken'
    BY <1>3 DEF Waiting
  <2> TAKE i \in 1 .. Len(c)
  <2>2. i \in 1 .. Len(b) + n
    BY <1>1
  <2>3. CASE i \in 1 .. Len(b) /\ c[i] = b[i]
    BY <2>1, <2>3
  <2>4. CASE \E k \in 1 .. n : c[i] = inbound[k] /\ k \in 1 .. Len(inbound)
    BY <2>1, <2>4
  <2>5. QED
    BY <1>4, <2>2, <2>3, <2>4
<1>7. \A j \in 1 .. Len(inbound') :
          n + j \in 1 .. Len(inbound) /\ inbound'[j] = inbound[n + j]
  BY <1>1
<1>8. \A i \in 1 .. Len(c), j \in 1 .. Len(inbound') : Position(c[i]) < Position(inbound'[j])
  <2> TAKE i \in 1 .. Len(c), j \in 1 .. Len(inbound')
  <2>1. CASE i \in 1 .. Len(b)
    BY <1>1, <1>3, <1>7, <2>1 DEF Precedes
  <2>2. CASE i \notin 1 .. Len(b)
    <3>1. PICK k \in 1 .. n : i = Len(b) + k /\ c[i] = inbound[k] /\ k \in 1 .. Len(inbound)
      BY <1>1, <1>4, <2>2
    <3>2. k < n + j
      BY <1>1
    <3>3. QED
      BY <1>3, <1>7, <3>1, <3>2 DEF Waiting, Rising
  <2>3. QED
    BY <2>1, <2>2
<1>9. Waiting(inbound)'
  <2>1. \A j \in 1 .. Len(inbound') : inbound'[j][1] \in Untaken'
    BY <1>3, <1>7 DEF Waiting
  <2>2. ASSUME NEW i \in 1 .. Len(inbound'), NEW j \in 1 .. Len(inbound'), i < j
        PROVE  Position(inbound'[i]) < Position(inbound'[j])
    <3>1. n + i < n + j
      BY <2>2
    <3>2. QED
      BY <1>3, <1>7, <3>1 DEF Waiting, Rising
  <2>3. QED
    BY <2>1, <2>2 DEF Waiting, Rising
<1>10. Waiting(buffer)' /\ Precedes(buffer, inbound)'
  BY <1>2, <1>3, <1>7 DEF Waiting, Rising, Precedes
<1>11. ASSUME NEW v \in Workers, pc'[v] = "reading"
       PROVE  Waiting(my_buffer[v])' /\ Precedes(my_buffer[v], inbound)'
  <2>1. v = w
    BY <1>2, <1>11, OneReader
  <2>2. QED
    BY <1>5, <1>6, <1>8, <2>1 DEF Waiting, Rising, Precedes, c
<1>12. QED
  BY <1>9, <1>10, <1>11 DEF StreamInv

(* Taking a packet uses up its request, and it comes before the rest. *)
LEMMA TakeStream ==
    ASSUME TypeOK, MutexInv, RequestInv, StreamInv, handshake = "done",
           NEW w \in Workers, TakePacket(w)
    PROVE  StreamInv'
<1> DEFINE b == my_buffer[w]
<1>1. b \in Seq(Units) /\ Len(b) \in Nat /\ Len(b) >= 2
  BY DEF TypeOK, TakePacket
<1>2. /\ pc[w] = "reading" /\ pc' = [pc EXCEPT ![w] = "handling"]
      /\ buffer' = Rest(b)
      /\ request_id' = [request_id EXCEPT ![w] = b[1][1]]
      /\ UNCHANGED <<asked, inbound, outbound>>
  BY DEF TakePacket, clientVars
<1>3. /\ Waiting(inbound) /\ Waiting(b) /\ Precedes(b, inbound)
  BY <1>2 DEF StreamInv
<1>4. /\ Len(buffer') = Len(b) - 2
      /\ \A i \in 1 .. Len(b) - 2 : buffer'[i] = b[i + 2]
  BY <1>1, <1>2, RestProperties
<1>5. /\ pc \in [Workers -> PCs] /\ request_id \in [Workers -> Ids \cup {0}]
      /\ inbound \in Seq(Units) /\ Len(inbound) \in Nat
  BY DEF TypeOK
<1> HIDE DEF b
<1>6. 1 \in 1 .. Len(b) /\ 2 \in 1 .. Len(b) /\ b[1] \in Units /\ b[2] \in Units
  BY <1>1
<1>7. ASSUME NEW id \in Untaken, b[1][1] < id
      PROVE  id \in Untaken'
  BY <1>2, <1>5, <1>7 DEF Untaken, Busy
<1>8. \A i \in 1 .. Len(buffer') : i + 2 \in 1 .. Len(b) /\ buffer'[i] = b[i + 2]
  BY <1>1, <1>4
<1>9. Waiting(buffer)'
  <2>1. ASSUME NEW i \in 1 .. Len(buffer')
        PROVE  buffer'[i][1] \in Untaken'
    <3>1. b[i + 2] \in Units /\ b[i + 2][1] \in Untaken
      BY <1>1, <1>3, <1>8 DEF Waiting
    <3>2. Position(b[1]) < Position(b[2]) /\ Position(b[2]) < Position(b[i + 2])
      <4>1. 1 < 2 /\ 2 < i + 2
        OBVIOUS
      <4>2. QED
        BY <1>3, <1>6, <1>8, <4>1 DEF Waiting, Rising
    <3>3. b[1][1] < b[i + 2][1]
      BY <1>6, <3>1, <3>2, NextRequest
    <3>4. QED
      BY <1>7, <1>8, <3>1, <3>3
  <2>2. ASSUME NEW i \in 1 .. Len(buffer'), NEW j \in 1 .. Len(buffer'), i < j
        PROVE  Position(buffer'[i]) < Position(buffer'[j])
    <3>1. i + 2 < j + 2
      BY <2>2
    <3>2. QED
      BY <1>3, <1>8, <3>1 DEF Waiting, Rising
  <2>3. QED
    BY <2>1, <2>2 DEF Waiting, Rising
<1>10. Waiting(inbound)'
  <2>1. ASSUME NEW i \in 1 .. Len(inbound)
        PROVE  inbound[i][1] \in Untaken'
    <3>1. inbound[i] \in Units /\ inbound[i][1] \in Untaken
      BY <1>3, <1>5 DEF Waiting
    <3>2. Position(b[1]) < Position(b[2]) /\ Position(b[2]) < Position(inbound[i])
      BY <1>3, <1>6 DEF Waiting, Rising, Precedes
    <3>3. b[1][1] < inbound[i][1]
      BY <1>6, <3>1, <3>2, NextRequest
    <3>4. QED
      BY <1>7, <3>1, <3>3
  <2>2. QED
    BY <1>2, <1>3, <2>1 DEF Waiting, Rising
<1>11. Precedes(buffer, inbound)'
  BY <1>2, <1>3, <1>8 DEF Precedes
<1>12. \A v \in Workers : pc'[v] # "reading"
  BY <1>2, <1>5, OneReader
<1>13. QED
  BY <1>9, <1>10, <1>11, <1>12 DEF StreamInv

LEMMA WorkerStream ==
    ASSUME TypeOK, MutexInv, RequestInv, StreamInv, handshake = "done",
           NEW w \in Workers, WorkerStep(w)
    PROVE  StreamInv'
<1>0. pc \in [Workers -> PCs] /\ my_buffer \in [Workers -> Seq(Units)]
  BY DEF TypeOK
<1>1. CASE TakePacket(w)
  BY <1>1, TakeStream
<1>2. CASE Untaken \subseteq Untaken'
  <2>1. CASE StartRead(w)
    <3>1. /\ pc' = [pc EXCEPT ![w] = "reading"] /\ my_buffer' = [my_buffer EXCEPT ![w] = buffer]
          /\ UNCHANGED <<inbound, buffer>>
      BY <2>1 DEF StartRead, StartWith
    <3>2. Waiting(inbound)' /\ Waiting(buffer)' /\ Precedes(buffer, inbound)'
      BY <1>2, <3>1 DEF StreamInv, Waiting, Rising, Precedes
    <3>3. ASSUME NEW v \in Workers, pc'[v] = "reading"
          PROVE  Waiting(my_buffer[v])' /\ Precedes(my_buffer[v], inbound)'
      <4>1. CASE v = w
        <5>1. my_buffer'[v] = buffer'
          BY <1>0, <3>1, <4>1
        <5>2. QED
          BY <3>2, <5>1 DEF Waiting, Rising, Precedes
      <4>2. CASE v # w
        <5>1. /\ my_buffer'[v] = my_buffer[v]
              /\ Waiting(my_buffer[v]) /\ Precedes(my_buffer[v], inbound)
          BY <1>0, <3>1, <3>3, <4>2 DEF StreamInv
        <5>2. QED
          BY <1>2, <3>1, <5>1 DEF Waiting, Rising, Precedes
      <4>3. QED
        BY <4>1, <4>2
    <3>4. QED
      BY <3>2, <3>3 DEF StreamInv
  <2>2. CASE \E n \in 1 .. Len(inbound) : ReadSome(w, n)
    BY <1>2, <2>2, ReadStream
  <2>3. CASE Answering(w)
    BY <1>0, <1>2, <2>3, QuietStream DEF Answering, Respond
  <2>4. CASE StartWrite(w)
    BY <1>0, <1>2, <2>4, QuietStream DEF StartWrite, workerVars
  <2>5. CASE FinishWrite(w)
    BY <1>0, <1>2, <2>5, QuietStream DEF FinishWrite
  <2>6. CASE Ending(w)
    BY <1>0, <1>2, <2>6, QuietStream DEF Ending, End, workerVars
  <2>7. QED
    BY <1>1, <2>1, <2>2, <2>3, <2>4, <2>5, <2>6 DEF WorkerStep
<1>3. QED
  BY <1>1, <1>2, WorkerUntaken

LEMMA StepStream ==
    ASSUME TypeOK, HandshakeInv, MutexInv, RequestInv, ReplyInv, StreamInv, [Next]_vars
    PROVE  StreamInv'
<1>1. CASE \E r \in Requests : Ask(r)
  BY <1>1, AskStream
<1>2. CASE HangUp \/ UNCHANGED vars
  <2>1. UNCHANGED <<handshake, asked, inbound, outbound, buffer, pc, my_buffer, request_id>>
    BY <1>2 DEF HangUp, vars, initVars, workerVars
  <2>2. Untaken' = Untaken
    BY <2>1 DEF Untaken, Busy
  <2>3. CASE handshake = "done"
    BY <2>1, <2>2, <2>3, QuietStream
  <2>4. CASE handshake # "done"
    BY <2>1, <2>4 DEF StreamInv
  <2>5. QED
    BY <2>3, <2>4
<1>3. CASE init_server
  <2>1. CASE InitWrites
    <3>1. inbound' = <<>> /\ buffer' = <<>> /\ \A w \in Workers : pc'[w] = "lock_read"
      BY <2>1 DEF InitWrites, InitStep, HandshakeInv
    <3>2. Len(inbound') = 0 /\ Len(buffer') = 0
      BY <3>1
    <3>3. QED
      BY <3>1, <3>2 DEF StreamInv, Waiting, Rising, Precedes
  <2>2. CASE ~InitWrites
    <3>1. handshake' # "done"
      BY <1>3, <2>2 DEF init_server, InitReads, InitTakes, InitFails
    <3>2. QED
      BY <3>1 DEF StreamInv
  <2>3. QED
    BY <2>1, <2>2
<1>4. CASE handshake = "done" /\ \E w \in Workers : WorkerStep(w)
  BY <1>4, WorkerStream
<1>5. QED
  BY <1>1, <1>2, <1>3, <1>4, NextCases

-----------------------------------------------------------------------------
(* The workers' requests and their replies. *)

LEMMA InitRequest == Init => RequestInv /\ ReplyInv
<1> SUFFICES ASSUME Init PROVE RequestInv /\ ReplyInv
  OBVIOUS
<1>1. Len(outbound) = 0 /\ \A w \in Workers : pc[w] = "lock_read"
  BY DEF Init
<1>2. QED
  BY <1>1 DEF RequestInv, ReplyInv, Busy, Ready

(* What suits a request goes on doing so when more is asked. *)
LEMMA SuitsKept ==
    ASSUME TypeOK,
           asked' = asked \/ \E r \in Requests : Ask(r)
    PROVE  /\ \A k \in 1 .. Len(asked) : k \in 1 .. Len(asked')
           /\ \A r \in Response : Suits(r) => Suits(r)'
<1>1. CASE asked' = asked
  BY <1>1 DEF Suits
<1>2. CASE \E r \in Requests : Ask(r)
  <2>1. /\ Len(asked) \in Nat
        /\ Len(asked') = Len(asked) + 1
        /\ \A k \in 1 .. Len(asked) : asked'[k] = asked[k]
    BY <1>2, AskType, AskedIds
  <2>2. \A k \in 1 .. Len(asked) : k \in 1 .. Len(asked')
    BY <2>1
  <2>3. QED
    BY <2>1, <2>2 DEF Suits
<1>3. QED
  BY <1>1, <1>2

(* A step that gives no worker a request or a reply. *)
LEMMA QuietRequest ==
    ASSUME TypeOK, RequestInv, asked' = asked \/ \E r \in Requests : Ask(r),
           \A v \in Workers : Busy(v)' => Busy(v) /\ request_id'[v] = request_id[v],
           \A v \in Workers : Ready(v)' => Ready(v) /\ response'[v] = response[v]
    PROVE  RequestInv'
<1>1. /\ \A k \in 1 .. Len(asked) : k \in 1 .. Len(asked')
      /\ \A r \in Response : Suits(r) => Suits(r)'
  BY SuitsKept
<1>2. \A v \in Workers : Busy(v)' => request_id'[v] \in 1 .. Len(asked')
  BY <1>1 DEF RequestInv
<1>3. \A v, w \in Workers :
          Busy(v)' /\ Busy(w)' /\ request_id'[v] = request_id'[w] => v = w
  BY DEF RequestInv
<1>4. ASSUME NEW v \in Workers, Ready(v)'
      PROVE  /\ response'[v] \in Response
             /\ response'[v].request_id = request_id'[v]
             /\ Suits(response[v])'
  <2>1. Busy(v)'
    BY <1>4 DEF Busy, Ready
  <2>2. /\ response'[v] \in Response /\ response'[v] = response[v]
        /\ response[v].request_id = request_id[v] /\ request_id'[v] = request_id[v]
        /\ Suits(response[v])
    BY <1>4, <2>1 DEF RequestInv
  <2>3. QED
    BY <1>1, <2>2 DEF Suits
<1>5. QED
  BY <1>2, <1>3, <1>4 DEF RequestInv

LEMMA TakeRequest ==
    ASSUME TypeOK, RequestInv, StreamInv, handshake = "done",
           NEW w \in Workers, TakePacket(w)
    PROVE  RequestInv'
<1> DEFINE id == my_buffer[w][1][1]
<1>1. /\ pc[w] = "reading" /\ pc' = [pc EXCEPT ![w] = "handling"]
      /\ request_id' = [request_id EXCEPT ![w] = id]
      /\ UNCHANGED <<asked, response>>
  BY DEF TakePacket, clientVars
<1>2. id \in Untaken
  <2>1. my_buffer[w] \in Seq(Units) /\ Len(my_buffer[w]) >= 2
    BY DEF TypeOK, TakePacket
  <2>2. 1 \in 1 .. Len(my_buffer[w])
    BY <2>1
  <2>3. QED
    BY <1>1, <2>2 DEF StreamInv, Waiting
<1> HIDE DEF id
<1>3. id \in 1 .. Len(asked) /\ \A v \in Workers : Busy(v) => request_id[v] < id
  BY <1>2 DEF Untaken
<1>4. pc \in [Workers -> PCs] /\ request_id \in [Workers -> Ids \cup {0}]
  BY DEF TypeOK
<1>5. /\ request_id'[w] = id
      /\ \A v \in Workers : v # w => request_id'[v] = request_id[v] /\ pc'[v] = pc[v]
      /\ pc'[w] = "handling"
  BY <1>1, <1>4
<1>6. \A v \in Workers : Busy(v)' => request_id'[v] \in 1 .. Len(asked')
  BY <1>1, <1>3, <1>5 DEF RequestInv, Busy
<1>7. ASSUME NEW v \in Workers, NEW x \in Workers, Busy(v)', Busy(x)',
             request_id'[v] = request_id'[x]
      PROVE  v = x
  <2>1. \A y \in Workers : y # w /\ Busy(y)' => request_id'[y] # id
    <3> TAKE y \in Workers
    <3>1. y # w /\ Busy(y)' => Busy(y) /\ request_id'[y] = request_id[y]
      BY <1>5 DEF Busy
    <3>2. Busy(y) => request_id[y] \in Int
      BY <1>3 DEF RequestInv
    <3>3. QED
      BY <1>3, <3>1, <3>2
  <2>2. CASE v = w \/ x = w
    BY <1>5, <1>7, <2>1, <2>2
  <2>3. CASE v # w /\ x # w
    BY <1>5, <1>7, <2>3 DEF RequestInv, Busy
  <2>4. QED
    BY <2>2, <2>3
<1>8. ASSUME NEW v \in Workers, Ready(v)'
      PROVE  /\ response'[v] \in Response
             /\ response'[v].request_id = request_id'[v]
             /\ Suits(response[v])'
  <2>1. v # w
    BY <1>5, <1>8 DEF Ready
  <2>2. QED
    BY <1>1, <1>5, <1>8, <2>1 DEF RequestInv, Ready, Suits
<1>9. QED
  BY <1>6, <1>7, <1>8 DEF RequestInv

LEMMA AnswerRequest ==
    ASSUME TypeOK, RequestInv, NEW w \in Workers, Answering(w)
    PROVE  RequestInv'
<1>1. PICK b \in Body, framed \in BOOLEAN :
          /\ b.type \in {"STATUS", ReplyType(asked[request_id[w]].opcode)}
          /\ Respond(w, b, framed)
  BY DEF Answering
<1> DEFINE r == [request_id |-> request_id[w], body |-> b, framed |-> framed]
<1>2. /\ pc[w] = "handling" /\ pc' = [pc EXCEPT ![w] = "lock_write"]
      /\ response' = [response EXCEPT ![w] = r]
      /\ UNCHANGED <<asked, request_id>>
  BY <1>1 DEF Answering, Respond, clientVars
<1>3. pc \in [Workers -> PCs] /\ response \in [Workers -> Response \cup {NoResponse}]
  BY DEF TypeOK
<1>4. request_id[w] \in 1 .. Len(asked) /\ request_id[w] \in Ids
  BY <1>2, AskedIds DEF RequestInv, Busy
<1>5. /\ r \in Response /\ r.request_id = request_id[w] /\ Suits(r)
  BY <1>1, <1>4 DEF Response, Suits
<1> HIDE DEF r
<1>6. /\ pc'[w] = "lock_write" /\ response'[w] = r
      /\ \A v \in Workers : v # w => pc'[v] = pc[v] /\ response'[v] = response[v]
  BY <1>2, <1>3
<1>7. \A v \in Workers : Busy(v)' => Busy(v)
  BY <1>2, <1>6 DEF Busy
<1>8. ASSUME NEW v \in Workers, Ready(v)'
      PROVE  /\ response'[v] \in Response
             /\ response'[v].request_id = request_id'[v]
             /\ Suits(response[v])'
  <2>1. CASE v = w
    BY <1>2, <1>5, <1>6, <2>1 DEF Suits
  <2>2. CASE v # w
    BY <1>2, <1>6, <1>8, <2>2 DEF RequestInv, Ready, Suits
  <2>3. QED
    BY <2>1, <2>2
<1>9. QED
  BY <1>2, <1>7, <1>8 DEF RequestInv

LEMMA StepRequest ==
    ASSUME TypeOK, RequestInv, StreamInv, [Next]_vars
    PROVE  RequestInv'
<1>0. /\ pc \in [Workers -> PCs] /\ request_id \in [Workers -> Ids \cup {0}]
      /\ response \in [Workers -> Response \cup {NoResponse}]
  BY DEF TypeOK
<1>1. CASE /\ UNCHANGED <<pc, request_id, response>>
           /\ asked' = asked \/ \E r \in Requests : Ask(r)
  BY <1>1, QuietRequest DEF Busy, Ready
<1>2. CASE \E r \in Requests : Ask(r)
  BY <1>1, <1>2 DEF Ask, workerVars
<1>3. CASE HangUp \/ UNCHANGED vars
  BY <1>1, <1>3 DEF HangUp, vars, workerVars
<1>4. CASE init_server
  BY <1>1, <1>4 DEF init_server, InitReads, InitTakes, InitWrites, InitFails, InitStep, workerVars
<1>5. ASSUME handshake = "done", NEW w \in Workers, WorkerStep(w)
      PROVE  RequestInv'
  <2>1. CASE StartRead(w) \/ \E n \in 1 .. Len(inbound) : ReadSome(w, n)
    BY <1>0, <2>1, QuietRequest DEF StartRead, ReadSome, Busy, Ready, clientVars
  <2>2. CASE TakePacket(w)
    BY <1>5, <2>2, TakeRequest
  <2>3. CASE Answering(w)
    BY <2>3, AnswerRequest
  <2>4. CASE StartWrite(w)
    BY <1>0, <2>4, QuietRequest DEF StartWrite, Busy, Ready, clientVars, workerVars
  <2>5. CASE FinishWrite(w)
    BY <1>0, <2>5, QuietRequest DEF FinishWrite, Busy, Ready, clientVars
  <2>6. CASE Ending(w)
    BY <1>0, <2>6, QuietRequest DEF Ending, End, Busy, Ready, workerVars
  <2>7. QED
    BY <1>5, <2>1, <2>2, <2>3, <2>4, <2>5, <2>6 DEF WorkerStep
<1>6. QED
  BY <1>2, <1>3, <1>4, <1>5, NextCases

(* A step that writes nothing. *)
LEMMA QuietReply ==
    ASSUME TypeOK, ReplyInv, outbound' = outbound,
           asked' = asked \/ \E r \in Requests : Ask(r),
           \A v \in Workers :
               pc'[v] \in {"handling", "lock_write"} =>
                   /\ pc[v] \in {"handling", "lock_write"}
                   /\ request_id'[v] = request_id[v]
    PROVE  ReplyInv'
<1>1. \A k \in 1 .. Len(outbound) : outbound[k][1] \in Response
  BY DEF TypeOK
<1>2. \A r \in Response : Suits(r) => Suits(r)'
  BY SuitsKept
<1>3. \A k \in 1 .. Len(outbound) : Suits(outbound[k][1])'
  <2> TAKE k \in 1 .. Len(outbound)
  <2>1. outbound[k][1] \in Response /\ Suits(outbound[k][1])
    BY <1>1 DEF ReplyInv
  <2>2. QED
    BY <1>2, <2>1 DEF Suits
<1>4. QED
  BY <1>3 DEF ReplyInv

(* The two pieces of a reply. *)
LEMMA WriteReply ==
    ASSUME TypeOK, MutexInv, RequestInv, ReplyInv, NEW w \in Workers,
           StartWrite(w) \/ FinishWrite(w)
    PROVE  ReplyInv'
<1>0. /\ pc \in [Workers -> PCs] /\ request_id \in [Workers -> Ids \cup {0}]
      /\ asked' = asked
  BY DEF TypeOK, StartWrite, FinishWrite, clientVars
<1>1. /\ Busy(w) /\ response[w] \in Response /\ Suits(response[w])
      /\ response[w].request_id = request_id[w]
  BY DEF StartWrite, FinishWrite, RequestInv, Ready, Busy
<1>2. PICK h \in {1, 2} : /\ outbound' = Append(outbound, <<response[w], h>>)
                          /\ h = 1 => pc[w] = "lock_write"
  BY DEF StartWrite, FinishWrite
<1>3. /\ Len(outbound) \in Nat
      /\ Len(outbound') = Len(outbound) + 1
      /\ \A k \in 1 .. Len(outbound) : outbound'[k] = outbound[k]
      /\ outbound'[Len(outbound) + 1] = <<response[w], h>>
  BY <1>1, <1>2, Written
<1>4. \A v \in Workers :
          pc'[v] \in {"handling", "lock_write"} =>
              /\ v # w
              /\ pc[v] \in {"handling", "lock_write"}
              /\ request_id'[v] = request_id[v]
  <2>1. CASE StartWrite(w)
    BY <1>0, <2>1 DEF StartWrite, workerVars
  <2>2. CASE FinishWrite(w)
    BY <1>0, <2>2 DEF FinishWrite
  <2>3. QED
    BY <2>1, <2>2
<1>5. ASSUME NEW v \in Workers, pc'[v] \in {"handling", "lock_write"},
             NEW k \in 1 .. Len(outbound')
      PROVE  outbound'[k][1].request_id # request_id'[v]
  <2>1. CASE k \in 1 .. Len(outbound)
    BY <1>3, <1>4, <1>5, <2>1 DEF ReplyInv
  <2>2. CASE k = Len(outbound) + 1
    <3>1. Busy(v) /\ v # w /\ request_id'[v] = request_id[v]
      BY <1>4, <1>5 DEF Busy
    <3>2. outbound'[k][1].request_id = request_id[w]
      BY <1>1, <1>3, <2>2
    <3>3. QED
      BY <1>1, <3>1, <3>2 DEF RequestInv
  <2>3. QED
    BY <1>3, <1>5, <2>1, <2>2
<1>6. ASSUME NEW k \in 1 .. Len(outbound')
      PROVE  Suits(outbound[k][1])'
  <2>1. CASE k \in 1 .. Len(outbound)
    BY <1>0, <1>3, <2>1 DEF ReplyInv, Suits
  <2>2. CASE k = Len(outbound) + 1
    BY <1>0, <1>1, <1>3, <2>2 DEF Suits
  <2>3. QED
    BY <1>3, <2>1, <2>2
<1>7. ASSUME NEW j \in 1 .. Len(outbound'), NEW k \in 1 .. Len(outbound'),
             outbound'[j][2] = 1, outbound'[k][2] = 1,
             outbound'[j][1].request_id = outbound'[k][1].request_id
      PROVE  j = k
  <2>1. CASE j \in 1 .. Len(outbound) /\ k \in 1 .. Len(outbound)
    BY <1>3, <1>7, <2>1 DEF ReplyInv
  <2>2. ASSUME NEW i \in 1 .. Len(outbound), h = 1
        PROVE  outbound'[i][1].request_id # request_id[w]
    BY <1>2, <1>3, <2>2 DEF ReplyInv
  <2>3. outbound'[Len(outbound) + 1][1].request_id = request_id[w]
    BY <1>1, <1>3
  <2>4. outbound'[Len(outbound) + 1][2] = h
    BY <1>3
  <2>5. QED
    BY <1>3, <1>7, <2>1, <2>2, <2>3, <2>4
<1>8. QED
  BY <1>5, <1>6, <1>7 DEF ReplyInv

LEMMA StepReply ==
    ASSUME TypeOK, MutexInv, RequestInv, ReplyInv, StreamInv, [Next]_vars
    PROVE  ReplyInv'
<1>0. pc \in [Workers -> PCs] /\ request_id \in [Workers -> Ids \cup {0}]
  BY DEF TypeOK
<1>1. CASE /\ UNCHANGED <<pc, request_id, outbound>>
           /\ asked' = asked \/ \E r \in Requests : Ask(r)
  BY <1>1, QuietReply
<1>2. CASE \E r \in Requests : Ask(r)
  BY <1>1, <1>2 DEF Ask, workerVars
<1>3. CASE HangUp \/ UNCHANGED vars
  BY <1>1, <1>3 DEF HangUp, vars, workerVars
<1>4. CASE init_server
  BY <1>1, <1>4 DEF init_server, InitReads, InitTakes, InitWrites, InitFails, InitStep, workerVars
<1>5. ASSUME handshake = "done", NEW w \in Workers, WorkerStep(w)
      PROVE  ReplyInv'
  <2>1. CASE StartRead(w) \/ \E n \in 1 .. Len(inbound) : ReadSome(w, n)
    BY <1>0, <2>1, QuietReply DEF StartRead, ReadSome, clientVars
  <2>2. CASE TakePacket(w)
    <3>1. /\ pc[w] = "reading" /\ pc' = [pc EXCEPT ![w] = "handling"]
          /\ request_id' = [request_id EXCEPT ![w] = my_buffer[w][1][1]]
          /\ UNCHANGED <<asked, outbound>>
      BY <2>2 DEF TakePacket, clientVars
    <3>2. my_buffer[w][1][1] \in Untaken
      <4>1. my_buffer[w] \in Seq(Units) /\ Len(my_buffer[w]) >= 2
        BY <2>2 DEF TypeOK, TakePacket
      <4>2. 1 \in 1 .. Len(my_buffer[w])
        BY <4>1
      <4>3. QED
        BY <1>5, <3>1, <4>2 DEF StreamInv, Waiting
    <3>3. \A k \in 1 .. Len(outbound) :
              /\ outbound[k][1].request_id < my_buffer[w][1][1]
              /\ outbound[k][1].request_id \in Int
      BY <3>2 DEF Untaken, ReplyInv, Suits
    <3>4. ASSUME NEW v \in Workers, pc'[v] \in {"handling", "lock_write"},
                 NEW k \in 1 .. Len(outbound)
          PROVE  outbound[k][1].request_id # request_id'[v]
      <4>1. CASE v = w
        <5>1. request_id'[v] = my_buffer[w][1][1] /\ my_buffer[w][1][1] \in Int
          BY <1>0, <3>1, <3>2, <4>1 DEF Untaken
        <5>2. QED
          BY <3>3, <5>1
      <4>2. CASE v # w
        BY <1>0, <3>1, <3>4, <4>2 DEF ReplyInv
      <4>3. QED
        BY <4>1, <4>2
    <3>5. QED
      BY <3>1, <3>4 DEF ReplyInv, Suits
  <2>3. CASE Answering(w)
    BY <1>0, <2>3, QuietReply DEF Answering, Respond, clientVars
  <2>4. CASE StartWrite(w) \/ FinishWrite(w)
    BY <2>4, WriteReply
  <2>5. CASE Ending(w)
    BY <1>0, <2>5, QuietReply DEF Ending, End, workerVars
  <2>6. QED
    BY <1>5, <2>1, <2>2, <2>3, <2>4, <2>5 DEF WorkerStep
<1>6. QED
  BY <1>2, <1>3, <1>4, <1>5, NextCases

-----------------------------------------------------------------------------
(* The order of the requests. *)

LEMMA InitOrder == Init => OrderInv
<1> SUFFICES ASSUME Init PROVE OrderInv
  OBVIOUS
<1>1. Len(taken) = 0 /\ handshake = "reading" /\ stop = FALSE
  BY DEF Init
<1>2. QED
  BY <1>1 DEF OrderInv, WholeInOrder

(* A step that moves no unit: who has ended stays so, and who reads reads on. *)
LEMMA QuietOrder ==
    ASSUME OrderInv, handshake = "done",
           UNCHANGED <<handshake, asked, inbound, taken, stop, buffer>>,
           hungUp => hungUp',
           \A v \in Workers : pc[v] = "ended" => pc'[v] = "ended",
           \A v \in Workers :
               /\ pc'[v] = "reading" <=> pc[v] = "reading"
               /\ pc[v] = "reading" => my_buffer'[v] = my_buffer[v]
    PROVE  OrderInv'
<1>1. WholeInOrder' /\ (stop' => \E v \in Workers : pc'[v] = "ended")
  BY DEF OrderInv, WholeInOrder
<1>2. CASE stop
  BY <1>1, <1>2 DEF OrderInv
<1>3. CASE ~stop
  <2>1. (\A v \in Workers : pc'[v] # "reading") => (InLine(buffer) \/ Dry(buffer))'
    BY <1>3 DEF OrderInv, InLine, Dry
  <2>2. ASSUME NEW v \in Workers, pc'[v] = "reading"
        PROVE  /\ (InLine(my_buffer[v]) \/ Dry(my_buffer[v]))'
               /\ Len(buffer') <= Len(my_buffer'[v])
    <3>1. /\ InLine(my_buffer[v]) \/ Dry(my_buffer[v])
          /\ Len(buffer) <= Len(my_buffer[v]) /\ my_buffer'[v] = my_buffer[v]
      BY <1>3, <2>2 DEF OrderInv
    <3>2. QED
      BY <3>1 DEF InLine, Dry
  <2>3. QED
    BY <1>1, <2>1, <2>2 DEF OrderInv
<1>4. QED
  BY <1>2, <1>3

(* What is asked for comes last. *)
LEMMA AskOrder ==
    ASSUME TypeOK, OrderInv, NEW r \in Requests, Ask(r)
    PROVE  OrderInv'
<1>0. /\ Len(asked) \in Nat /\ inbound \in Seq(Units) /\ Len(inbound) \in Nat
      /\ Len(taken) \in Nat
  BY DEF TypeOK
<1>1. /\ Len(asked') = Len(asked) + 1
      /\ Len(inbound') = Len(inbound) + 2
      /\ \A i \in 1 .. Len(inbound) : inbound'[i] = inbound[i]
      /\ inbound'[Len(inbound) + 1] = <<Len(asked) + 1, 1>>
      /\ inbound'[Len(inbound) + 2] = <<Len(asked) + 1, 2>>
  BY AskType
<1>2. /\ handshake = "done" /\ ~hungUp
      /\ UNCHANGED <<handshake, buffer, pc, my_buffer, taken, stop>>
  BY DEF Ask, MayAsk, workerVars, initVars
<1>3. /\ Position(inbound'[Len(inbound) + 1]) = 2 * Len(asked) + 1
      /\ Position(inbound'[Len(inbound) + 2]) = 2 * Len(asked) + 2
  BY <1>0, <1>1 DEF Position
<1>4. ASSUME NEW s \in Seq(Units), InLine(s)
      PROVE  /\ 2 * Len(taken) + Len(s) + Len(inbound') = 2 * Len(asked')
             /\ \A j \in 1 .. Len(s) : Position(s[j]) = 2 * Len(taken) + j
             /\ \A j \in 1 .. Len(inbound') :
                    Position(inbound'[j]) = 2 * Len(taken) + Len(s) + j
  <2>1. /\ Len(s) \in Nat
        /\ 2 * Len(taken) + Len(s) + Len(inbound) = 2 * Len(asked)
        /\ \A j \in 1 .. Len(s) : Position(s[j]) = 2 * Len(taken) + j
        /\ \A j \in 1 .. Len(inbound) :
              Position(inbound[j]) = 2 * Len(taken) + Len(s) + j
    BY <1>4 DEF InLine
  <2>2. 2 * Len(taken) + Len(s) + Len(inbound') = 2 * Len(asked')
    BY <1>0, <1>1, <2>1
  <2>3. ASSUME NEW j \in 1 .. Len(inbound) + 2
        PROVE  Position(inbound'[j]) = 2 * Len(taken) + Len(s) + j
    <3>1. CASE j \in 1 .. Len(inbound)
      BY <1>1, <2>1, <3>1
    <3>2. CASE j = Len(inbound) + 1
      <4>1. 2 * Len(taken) + Len(s) + j = 2 * Len(asked) + 1
        BY <1>0, <2>1, <3>2
      <4>2. QED
        BY <1>3, <3>2, <4>1
    <3>3. CASE j = Len(inbound) + 2
      <4>0. 2 * Len(taken) + Len(s) + Len(inbound) = 2 * Len(asked) /\ Len(s) \in Nat
        BY <2>1
      <4>1. 2 * Len(taken) + Len(s) + j = 2 * Len(asked) + 2
        BY <1>0, <3>3, <4>0
      <4>2. QED
        BY <1>3, <3>3, <4>1
    <3>4. QED
      BY <1>0, <3>1, <3>2, <3>3
  <2>4. QED
    BY <1>1, <2>1, <2>2, <2>3
<1>5. \A s : ~Dry(s)
  BY <1>2 DEF Dry
<1>6. CASE stop
  BY <1>2, <1>6 DEF OrderInv, WholeInOrder
<1>7. CASE ~stop
  <2>1. (\A v \in Workers : pc'[v] # "reading") => InLine(buffer)'
    <3>1. buffer \in Seq(Units)
      BY DEF TypeOK
    <3>2. (\A v \in Workers : pc'[v] # "reading") => InLine(buffer)
      BY <1>2, <1>5, <1>7 DEF OrderInv
    <3>3. QED
      BY <1>2, <1>4, <3>1, <3>2 DEF InLine
  <2>2. ASSUME NEW v \in Workers, pc'[v] = "reading"
        PROVE  InLine(my_buffer[v])' /\ Len(buffer') <= Len(my_buffer'[v])
    <3>1. my_buffer[v] \in Seq(Units)
      BY DEF TypeOK
    <3>2. InLine(my_buffer[v]) /\ Len(buffer) <= Len(my_buffer[v])
      BY <1>2, <1>5, <1>7, <2>2 DEF OrderInv
    <3>3. QED
      BY <1>2, <1>4, <3>1, <3>2 DEF InLine
  <2>3. QED
    BY <1>2, <1>7, <2>1, <2>2 DEF OrderInv, WholeInOrder
<1>8. QED
  BY <1>6, <1>7

(* A reader takes from the front of the stream what follows what it has. *)
LEMMA ReadOrder ==
    ASSUME TypeOK, MutexInv, OrderInv, handshake = "done",
           NEW w \in Workers, NEW n \in 1 .. Len(inbound), ReadSome(w, n)
    PROVE  OrderInv'
<1> DEFINE b == my_buffer[w]
           c == my_buffer'[w]
<1>1. /\ b \in Seq(Units) /\ Len(b) \in Nat
      /\ inbound \in Seq(Units) /\ Len(inbound) \in Nat /\ n <= Len(inbound)
      /\ Len(c) = Len(b) + n
      /\ \A i \in 1 .. Len(b) : c[i] = b[i]
      /\ \A i \in 1 .. n : c[Len(b) + i] = inbound[i]
      /\ Len(inbound') = Len(inbound) - n
      /\ \A i \in 1 .. Len(inbound) - n : inbound'[i] = inbound[n + i]
      /\ Len(taken) \in Nat /\ Len(buffer) \in Nat
  <2>1. b \in Seq(Units) /\ inbound \in Seq(Units) /\ Len(taken) \in Nat /\ Len(buffer) \in Nat
    BY DEF TypeOK
  <2>2. QED
    BY <2>1, ReadEffect
<1>2. /\ pc[w] = "reading"
      /\ UNCHANGED <<handshake, asked, hungUp, buffer, pc, taken, stop>>
  BY DEF ReadSome, clientVars, initVars
<1>3. inbound # <<>>
  BY <1>1
<1>4. CASE stop
  BY <1>2, <1>4 DEF OrderInv, WholeInOrder
<1>5. CASE ~stop
  <2>1. InLine(b) /\ Len(buffer) <= Len(b)
    BY <1>2, <1>3, <1>5 DEF OrderInv, Dry
  <2> HIDE DEF b, c
  <2>2. /\ 2 * Len(taken) + Len(b) + Len(inbound) = 2 * Len(asked)
        /\ \A j \in 1 .. Len(b) : Position(b[j]) = 2 * Len(taken) + j
        /\ \A j \in 1 .. Len(inbound) : Position(inbound[j]) = 2 * Len(taken) + Len(b) + j
    BY <2>1 DEF InLine
  <2>3. ASSUME NEW j \in 1 .. Len(c)
        PROVE  Position(c[j]) = 2 * Len(taken) + j
    <3>1. CASE j <= Len(b)
      BY <1>1, <2>2, <3>1
    <3>2. CASE j > Len(b)
      <4>1. /\ j - Len(b) \in 1 .. n /\ j - Len(b) \in 1 .. Len(inbound)
            /\ Len(b) + (j - Len(b)) = j
            /\ 2 * Len(taken) + Len(b) + (j - Len(b)) = 2 * Len(taken) + j
        BY <1>1, <3>2
      <4>2. c[j] = inbound[j - Len(b)]
        BY <1>1, <4>1
      <4>3. QED
        BY <2>2, <4>1, <4>2
    <3>3. QED
      BY <1>1, <3>1, <3>2
  <2>4. ASSUME NEW j \in 1 .. Len(inbound')
        PROVE  Position(inbound'[j]) = 2 * Len(taken) + Len(c) + j
    <3>1. /\ n + j \in 1 .. Len(inbound) /\ inbound'[j] = inbound[n + j]
          /\ 2 * Len(taken) + Len(b) + (n + j) = 2 * Len(taken) + Len(c) + j
      BY <1>1
    <3>2. QED
      BY <2>2, <3>1
  <2>5. 2 * Len(taken) + Len(c) + Len(inbound') = 2 * Len(asked)
    <3>1. /\ Len(c) = Len(b) + n /\ Len(inbound') = Len(inbound) - n
          /\ Len(b) \in Nat /\ Len(inbound) \in Nat /\ Len(taken) \in Nat /\ n \in Int
          /\ 2 * Len(taken) + Len(b) + Len(inbound) = 2 * Len(asked)
      BY <1>1, <2>2
    <3>2. QED
      BY <3>1
  <2>6. InLine(my_buffer[w])' /\ Len(buffer') <= Len(my_buffer'[w])
    <3>1. Len(buffer') <= Len(my_buffer'[w])
      BY <1>1, <1>2, <2>1 DEF c
    <3>2. QED
      BY <1>2, <2>3, <2>4, <2>5, <3>1 DEF InLine, c
  <2>7. \A v \in Workers : pc'[v] = "reading" => v = w
    BY <1>2, OneReader
  <2>8. QED
    BY <1>2, <1>5, <2>6, <2>7 DEF OrderInv, WholeInOrder
<1>6. QED
  BY <1>4, <1>5

(* The first two units of the line are a packet. *)
LEMMA TakeOrder ==
    ASSUME TypeOK, MutexInv, OrderInv, handshake = "done", NEW w \in Workers, TakePacket(w)
    PROVE  OrderInv'
<1> DEFINE b == my_buffer[w]
<1>1. /\ b \in Seq(Units) /\ Len(b) \in Nat /\ Len(b) >= 2
      /\ taken \in Seq(Units \X Units) /\ Len(taken) \in Nat /\ Len(inbound) \in Nat
      /\ pc \in [Workers -> PCs]
  BY DEF TypeOK, TakePacket
<1>2. /\ pc[w] = "reading" /\ pc' = [pc EXCEPT ![w] = "handling"]
      /\ buffer' = Rest(b)
      /\ taken' = Append(taken, <<b[1], b[2]>>)
      /\ UNCHANGED <<handshake, asked, inbound, stop, hungUp>>
  BY DEF TakePacket, clientVars, initVars
<1>3. \A v \in Workers : pc'[v] # "reading"
  BY <1>1, <1>2, OneReader
<1>4. stop => \E v \in Workers : pc'[v] = "ended"
  BY <1>1, <1>2 DEF OrderInv
<1>5. CASE stop
  BY <1>2, <1>4, <1>5 DEF OrderInv, WholeInOrder
<1>6. CASE ~stop
  <2>1. InLine(b) /\ \A k \in 1 .. Len(taken) : taken[k] = <<<<k, 1>>, <<k, 2>>>>
    BY <1>1, <1>2, <1>6 DEF OrderInv, Dry, WholeInOrder
  <2>2. /\ Len(buffer') = Len(b) - 2
        /\ \A i \in 1 .. Len(b) - 2 : buffer'[i] = b[i + 2]
    BY <1>1, <1>2, RestProperties
  <2> HIDE DEF b
  <2>3. /\ 2 * Len(taken) + Len(b) + Len(inbound) = 2 * Len(asked)
        /\ \A j \in 1 .. Len(b) : Position(b[j]) = 2 * Len(taken) + j
        /\ \A j \in 1 .. Len(inbound) : Position(inbound[j]) = 2 * Len(taken) + Len(b) + j
    BY <2>1 DEF InLine
  <2>4. /\ Len(taken') = Len(taken) + 1
        /\ \A k \in 1 .. Len(taken) : taken'[k] = taken[k]
        /\ taken'[Len(taken) + 1] = <<b[1], b[2]>>
    <3>1. <<b[1], b[2]>> \in Units \X Units
      BY <1>1
    <3>2. QED
      BY <1>1, <1>2, <3>1
  <2>5. b[1] = <<Len(taken) + 1, 1>> /\ b[2] = <<Len(taken) + 1, 2>>
    <3>1. b[1] \in Units /\ b[2] \in Units
      BY <1>1
    <3>2. Position(b[1]) = 2 * Len(taken) + 1 /\ Position(b[2]) = 2 * Len(taken) + 2
      BY <1>1, <2>3
    <3>3. /\ b[1][1] \in Int /\ b[1][2] \in {1, 2} /\ b[1] = <<b[1][1], b[1][2]>>
          /\ b[2][1] \in Int /\ b[2][2] \in {1, 2} /\ b[2] = <<b[2][1], b[2][2]>>
      BY <3>1, UnitType
    <3>4. /\ b[1][1] = Len(taken) + 1 /\ b[1][2] = 1
          /\ b[2][1] = Len(taken) + 1 /\ b[2][2] = 2
      <4>1. /\ 2 * (b[1][1] - 1) + b[1][2] = 2 * Len(taken) + 1
            /\ 2 * (b[2][1] - 1) + b[2][2] = 2 * Len(taken) + 2
        BY <3>2 DEF Position
      <4>2. Len(taken) \in Nat
        BY <1>1
      <4>3. b[1][2] = 1 /\ b[1][1] = Len(taken) + 1
        BY <3>3, <4>1, <4>2
      <4>4. b[2][2] = 2 /\ b[2][1] = Len(taken) + 1
        BY <3>3, <4>1, <4>2
      <4>5. QED
        BY <4>3, <4>4
    <3>5. QED
      BY <3>3, <3>4
  <2>6. \A k \in 1 .. Len(taken') : taken'[k] = <<<<k, 1>>, <<k, 2>>>>
    <3> TAKE k \in 1 .. Len(taken')
    <3>1. k \in 1 .. Len(taken) \/ k = Len(taken) + 1
      BY <1>1, <2>4
    <3>2. CASE k \in 1 .. Len(taken)
      BY <2>1, <2>4, <3>2
    <3>3. CASE k = Len(taken) + 1
      BY <2>4, <2>5, <3>3, Zenon
    <3>4. QED
      BY <3>1, <3>2, <3>3
  <2>7. \A j \in 1 .. Len(buffer') : Position(buffer'[j]) = 2 * Len(taken') + j
    <3> TAKE j \in 1 .. Len(buffer')
    <3>1. /\ j + 2 \in 1 .. Len(b) /\ buffer'[j] = b[j + 2]
          /\ 2 * Len(taken) + (j + 2) = 2 * Len(taken') + j
      BY <1>1, <2>2, <2>4
    <3>2. QED
      BY <2>3, <3>1
  <2>8. /\ 2 * Len(taken') + Len(buffer') = 2 * Len(taken) + Len(b)
        /\ 2 * Len(taken') + Len(buffer') \in Int
    BY <1>1, <2>2, <2>4
  <2>9. InLine(buffer)'
    BY <1>2, <2>3, <2>7, <2>8 DEF InLine
  <2>10. QED
    BY <1>2, <1>3, <1>6, <2>6, <2>9 DEF OrderInv, WholeInOrder
<1>7. QED
  BY <1>5, <1>6

(* A reader that gives up leaves less than a packet, for good, unless all  *)
(* are stopped.                                                            *)
LEMMA EndOrder ==
    ASSUME TypeOK, MutexInv, OrderInv, handshake = "done", NEW w \in Workers, Ending(w)
    PROVE  OrderInv'
<1>1. /\ pc \in [Workers -> PCs] /\ Len(buffer) \in Nat /\ Len(my_buffer[w]) \in Nat
  BY DEF TypeOK
<1>2. /\ pc' = [pc EXCEPT ![w] = "ended"]
      /\ UNCHANGED <<handshake, asked, inbound, buffer, my_buffer, taken, hungUp>>
      /\ stop => stop'
  BY DEF Ending, End, initVars, workerVars
<1>3. /\ pc'[w] = "ended"
      /\ \A v \in Workers : v # w => pc'[v] = pc[v]
  BY <1>1, <1>2
<1>4. CASE stop'
  BY <1>2, <1>3, <1>4 DEF OrderInv, WholeInOrder
<1>5. CASE ~stop' /\ pc[w] = "reading"
  <2>1. ~stop /\ inbound = <<>> /\ hungUp /\ Len(my_buffer[w]) < 2
    BY <1>2, <1>5 DEF Ending
  <2>2. Len(buffer) <= Len(my_buffer[w])
    BY <1>5, <2>1 DEF OrderInv
  <2>3. Dry(buffer)'
    BY <1>1, <1>2, <1>3, <2>1, <2>2 DEF Dry
  <2>4. \A v \in Workers : pc'[v] # "reading"
    BY <1>3, <1>5, OneReader
  <2>5. QED
    BY <1>2, <1>5, <2>1, <2>3, <2>4 DEF OrderInv, WholeInOrder
<1>6. CASE ~stop' /\ pc[w] # "reading"
  <2>1. ~stop
    BY <1>2, <1>6
  <2>2. stop \in BOOLEAN /\ stop' = stop
    BY <1>6, <2>1, ServeAssumption DEF Ending, End, TypeOK
  <2>3. QED
    BY <1>2, <1>3, <1>6, <2>2, QuietOrder
<1>7. QED
  BY <1>4, <1>5, <1>6

LEMMA StepOrder ==
    ASSUME TypeOK, HandshakeInv, MutexInv, OrderInv, [Next]_vars
    PROVE  OrderInv'
<1>0. pc \in [Workers -> PCs] /\ my_buffer \in [Workers -> Seq(Units)]
  BY DEF TypeOK
<1>1. CASE \E r \in Requests : Ask(r)
  BY <1>1, AskOrder
<1>2. CASE HangUp \/ UNCHANGED vars
  <2>1. /\ UNCHANGED <<handshake, asked, inbound, taken, stop, buffer, pc, my_buffer>>
        /\ hungUp => hungUp'
    BY <1>2 DEF HangUp, vars, initVars, workerVars
  <2>2. CASE handshake = "done"
    BY <2>1, <2>2, QuietOrder
  <2>3. CASE handshake # "done"
    BY <2>1, <2>3 DEF OrderInv, WholeInOrder
  <2>4. QED
    BY <2>2, <2>3
<1>3. CASE init_server
  <2>1. /\ handshake # "done" /\ UNCHANGED <<asked, buffer, pc, my_buffer, taken, stop>>
    BY <1>3 DEF init_server, InitReads, InitTakes, InitWrites, InitFails, InitStep, workerVars
  <2>2. CASE InitWrites
    <3>1. /\ inbound' = <<>> /\ buffer' = <<>> /\ taken' = <<>> /\ asked' = <<>>
          /\ stop' = FALSE /\ \A w \in Workers : pc'[w] = "lock_read"
      BY <2>1, <2>2 DEF InitWrites, HandshakeInv
    <3>2. Len(inbound') = 0 /\ Len(buffer') = 0 /\ Len(taken') = 0 /\ Len(asked') = 0
      BY <3>1
    <3>3. InLine(buffer)'
      BY <3>2 DEF InLine
    <3>4. QED
      BY <3>1, <3>2, <3>3 DEF OrderInv, WholeInOrder
  <2>3. CASE ~InitWrites
    <3>1. handshake' # "done"
      BY <1>3, <2>3 DEF init_server, InitReads, InitTakes, InitFails
    <3>2. QED
      BY <2>1, <3>1 DEF OrderInv, WholeInOrder
  <2>4. QED
    BY <2>2, <2>3
<1>4. ASSUME handshake = "done", NEW w \in Workers, WorkerStep(w)
      PROVE  OrderInv'
  <2>1. CASE StartRead(w)
    <3>1. /\ pc[w] = "lock_read" /\ Owns(read_mutex, w)
          /\ pc' = [pc EXCEPT ![w] = "reading"] /\ my_buffer' = [my_buffer EXCEPT ![w] = buffer]
          /\ UNCHANGED <<handshake, asked, hungUp, inbound, buffer, taken, stop>>
      BY <2>1 DEF StartRead, StartWith, clientVars, initVars
    <3>2. \A v \in Workers : pc[v] # "reading"
      BY <3>1, OwnerUnique DEF MutexInv
    <3>3. \A v \in Workers : pc'[v] = "reading" => v = w
      BY <1>0, <3>1, <3>2
    <3>4. \A v \in Workers : pc[v] = "ended" => pc'[v] = "ended"
      BY <1>0, <3>1
    <3>5. my_buffer'[w] = buffer /\ Len(buffer) \in Nat
      BY <1>0, <3>1 DEF TypeOK
    <3>6. ~stop => (InLine(my_buffer[w]) \/ Dry(my_buffer[w]))'
      <4>1. ~stop => InLine(buffer) \/ Dry(buffer)
        BY <1>4, <3>2 DEF OrderInv
      <4>2. QED
        BY <3>1, <3>4, <3>5, <4>1 DEF InLine, Dry
    <3>7. WholeInOrder' /\ (stop' => \E v \in Workers : pc'[v] = "ended")
      BY <3>1, <3>4 DEF OrderInv, WholeInOrder
    <3>8. w \in Workers /\ pc'[w] = "reading" /\ Len(buffer') <= Len(my_buffer'[w])
      BY <1>0, <3>1, <3>5
    <3>9. QED
      BY <3>1, <3>3, <3>6, <3>7, <3>8 DEF OrderInv
  <2>2. CASE \E n \in 1 .. Len(inbound) : ReadSome(w, n)
    BY <1>4, <2>2, ReadOrder
  <2>3. CASE TakePacket(w)
    BY <1>4, <2>3, TakeOrder
  <2>4. CASE Answering(w)
    BY <1>0, <1>4, <2>4, QuietOrder DEF Answering, Respond, clientVars, initVars
  <2>5. CASE StartWrite(w)
    BY <1>0, <1>4, <2>5, QuietOrder DEF StartWrite, clientVars, initVars, workerVars
  <2>6. CASE FinishWrite(w)
    BY <1>0, <1>4, <2>6, QuietOrder DEF FinishWrite, clientVars, initVars
  <2>7. CASE Ending(w)
    BY <1>4, <2>7, EndOrder
  <2>8. QED
    BY <1>4, <2>1, <2>2, <2>3, <2>4, <2>5, <2>6, <2>7 DEF WorkerStep
<1>5. QED
  BY <1>1, <1>2, <1>3, <1>4, NextCases

-----------------------------------------------------------------------------
(* The replies on the stream. *)

LEMMA InitUnmixed == Init => UnmixedInv
<1> SUFFICES ASSUME Init PROVE UnmixedInv
  OBVIOUS
<1>1. Len(outbound) = 0 /\ 0 % 2 = 0 /\ \A w \in Workers : pc[w] = "lock_read"
  BY DEF Init
<1>2. QED
  BY <1>1 DEF UnmixedInv, RepliesUnmixed

(* A step that writes nothing, and leaves who writes as it is. *)
LEMMA QuietUnmixed ==
    ASSUME UnmixedInv, outbound' = outbound,
           ~stop' /\ ~hungUp' =>
               /\ ~stop /\ ~hungUp
               /\ \A v \in Workers :
                     /\ pc'[v] = "writing" <=> pc[v] = "writing"
                     /\ pc[v] = "writing" => response'[v] = response[v]
    PROVE  UnmixedInv'
BY DEF UnmixedInv, RepliesUnmixed

(* The stream gets the first half of a reply when it has whole ones. *)
LEMMA StartUnmixed ==
    ASSUME TypeOK, MutexInv, RequestInv, UnmixedInv, NEW w \in Workers, StartWrite(w)
    PROVE  UnmixedInv'
<1>1. /\ pc[w] = "lock_write" /\ Owns(write_mutex, w)
      /\ pc' = [pc EXCEPT ![w] = "writing"] /\ pc \in [Workers -> PCs]
      /\ outbound' = Append(outbound, <<response[w], 1>>)
      /\ UNCHANGED <<response, stop, hungUp>>
  BY DEF StartWrite, TypeOK, clientVars, workerVars
<1>2. response[w] \in Response
  BY <1>1 DEF RequestInv, Ready
<1>3. /\ Len(outbound) \in Nat
      /\ Len(outbound') = Len(outbound) + 1
      /\ \A k \in 1 .. Len(outbound) : outbound'[k] = outbound[k]
      /\ outbound'[Len(outbound) + 1] = <<response[w], 1>>
  BY <1>1, <1>2, Written
<1>4. \A v \in Workers : pc[v] # "writing"
  BY <1>1, OwnerUnique DEF MutexInv
<1>5. \A v \in Workers : pc'[v] = "writing" <=> v = w
  BY <1>1, <1>4
<1>6. CASE stop \/ hungUp
  BY <1>1, <1>6 DEF UnmixedInv, RepliesUnmixed
<1>7. CASE ~stop /\ ~hungUp
  <2>1. Len(outbound) % 2 = 0
    BY <1>4, <1>7 DEF UnmixedInv
  <2>2. (Len(outbound) + 1) % 2 = 1
    BY <1>3, <2>1
  <2>3. ASSUME NEW k \in 1 .. Len(outbound')
        PROVE  IF k % 2 = 1 THEN outbound'[k][2] = 1
               ELSE outbound'[k] = <<outbound'[k - 1][1], 2>>
    <3>1. CASE k \in 1 .. Len(outbound)
      <4>1. IF k % 2 = 1 THEN outbound[k][2] = 1
            ELSE outbound[k] = <<outbound[k - 1][1], 2>>
        BY <1>7, <3>1 DEF UnmixedInv, RepliesUnmixed
      <4>2. k % 2 # 1 => k - 1 \in 1 .. Len(outbound)
        BY <1>3, <3>1
      <4>3. QED
        BY <1>3, <3>1, <4>1, <4>2
    <3>2. CASE k = Len(outbound) + 1
      <4>1. k % 2 = 1 /\ outbound'[k][2] = 1
        BY <1>3, <2>2, <3>2
      <4>2. QED
        BY <4>1
    <3>3. QED
      BY <1>3, <3>1, <3>2
  <2>4. Len(outbound') % 2 = 1 /\ outbound'[Len(outbound')] = <<response'[w], 1>>
    BY <1>1, <1>3, <2>2
  <2>5. QED
    BY <1>5, <2>3, <2>4 DEF UnmixedInv, RepliesUnmixed
<1>8. QED
  BY <1>6, <1>7

(* The second half follows its first. *)
LEMMA FinishUnmixed ==
    ASSUME TypeOK, MutexInv, RequestInv, UnmixedInv, NEW w \in Workers, FinishWrite(w)
    PROVE  UnmixedInv'
<1>1. /\ pc[w] = "writing" /\ pc \in [Workers -> PCs]
      /\ pc' = [pc EXCEPT ![w] = "ended"] \/ pc' = [pc EXCEPT ![w] = "lock_read"]
      /\ outbound' = Append(outbound, <<response[w], 2>>)
      /\ UNCHANGED <<stop, hungUp>>
  BY DEF FinishWrite, TypeOK, clientVars
<1>2. response[w] \in Response
  BY <1>1 DEF RequestInv, Ready
<1>3. /\ Len(outbound) \in Nat
      /\ Len(outbound') = Len(outbound) + 1
      /\ \A k \in 1 .. Len(outbound) : outbound'[k] = outbound[k]
      /\ outbound'[Len(outbound) + 1] = <<response[w], 2>>
  BY <1>1, <1>2, Written
<1>4. \A v \in Workers : pc'[v] # "writing"
  BY <1>1, OwnerUnique DEF MutexInv
<1>5. CASE stop \/ hungUp
  BY <1>1, <1>5 DEF UnmixedInv, RepliesUnmixed
<1>6. CASE ~stop /\ ~hungUp
  <2>1. Len(outbound) % 2 = 1 /\ outbound[Len(outbound)] = <<response[w], 1>>
    BY <1>1, <1>6 DEF UnmixedInv
  <2>2. (Len(outbound) + 1) % 2 = 0 /\ Len(outbound) \in 1 .. Len(outbound)
    BY <1>3, <2>1
  <2>3. ASSUME NEW k \in 1 .. Len(outbound')
        PROVE  IF k % 2 = 1 THEN outbound'[k][2] = 1
               ELSE outbound'[k] = <<outbound'[k - 1][1], 2>>
    <3>1. CASE k \in 1 .. Len(outbound)
      <4>1. IF k % 2 = 1 THEN outbound[k][2] = 1
            ELSE outbound[k] = <<outbound[k - 1][1], 2>>
        BY <1>6, <3>1 DEF UnmixedInv, RepliesUnmixed
      <4>2. k % 2 # 1 => k - 1 \in 1 .. Len(outbound)
        BY <1>3, <3>1
      <4>3. QED
        BY <1>3, <3>1, <4>1, <4>2
    <3>2. CASE k = Len(outbound) + 1
      <4>1. k % 2 = 0 /\ k - 1 = Len(outbound)
        BY <1>3, <2>2, <3>2
      <4>2. outbound'[k - 1] = <<response[w], 1>>
        BY <1>3, <2>1, <2>2, <4>1
      <4>3. outbound'[k - 1][1] = response[w] /\ outbound'[k] = <<response[w], 2>>
        BY <1>3, <3>2, <4>2
      <4>4. QED
        BY <4>1, <4>3
    <3>3. QED
      BY <1>3, <3>1, <3>2
  <2>4. QED
    BY <1>3, <1>4, <2>2, <2>3 DEF UnmixedInv, RepliesUnmixed
<1>7. QED
  BY <1>5, <1>6

LEMMA StepUnmixed ==
    ASSUME TypeOK, MutexInv, RequestInv, UnmixedInv, [Next]_vars
    PROVE  UnmixedInv'
<1>0. /\ pc \in [Workers -> PCs] /\ response \in [Workers -> Response \cup {NoResponse}]
      /\ stop \in BOOLEAN /\ hungUp \in BOOLEAN
  BY DEF TypeOK
<1>1. CASE \E r \in Requests : Ask(r)
  BY <1>1, QuietUnmixed DEF Ask, workerVars
<1>2. CASE HangUp \/ UNCHANGED vars
  BY <1>2, QuietUnmixed DEF HangUp, vars, workerVars
<1>3. CASE init_server
  BY <1>3, QuietUnmixed
     DEF init_server, InitReads, InitTakes, InitWrites, InitFails, InitStep, workerVars
<1>4. ASSUME NEW w \in Workers, WorkerStep(w)
      PROVE  UnmixedInv'
  <2>1. CASE StartRead(w) \/ \E n \in 1 .. Len(inbound) : ReadSome(w, n)
    BY <1>0, <2>1, QuietUnmixed DEF StartRead, ReadSome, clientVars
  <2>2. CASE TakePacket(w)
    BY <1>0, <2>2, QuietUnmixed DEF TakePacket, clientVars
  <2>3. CASE Answering(w)
    BY <1>0, <2>3, QuietUnmixed DEF Answering, Respond, clientVars
  <2>4. CASE StartWrite(w)
    BY <2>4, StartUnmixed
  <2>5. CASE FinishWrite(w)
    BY <2>5, FinishUnmixed
  <2>6. CASE Ending(w)
    <3>1. /\ pc' = [pc EXCEPT ![w] = "ended"]
          /\ pc[w] = "handling" \/ stop \/ hungUp
          /\ stop => stop'
          /\ UNCHANGED <<outbound, response, hungUp>>
      BY <2>6 DEF Ending, End, workerVars
    <3>2. QED
      BY <1>0, <3>1, QuietUnmixed
  <2>7. QED
    BY <1>4, <2>1, <2>2, <2>3, <2>4, <2>5, <2>6 DEF WorkerStep
<1>5. QED
  BY <1>1, <1>2, <1>3, <1>4, NextCases

-----------------------------------------------------------------------------
(* The theorems. *)

(* The conjuncts of IInv depend on one another: that workers have different *)
(* requests on the order of the stream, the order on who owns read_mutex,   *)
(* what is written on who owns write_mutex.                                 *)
LEMMA Inductive == Spec => []IInv
<1>1. Init => IInv
  BY InitType, InitHandshake, InitMutex, InitStream, InitRequest, InitOrder, InitUnmixed
     DEF IInv
<1>2. IInv /\ [Next]_vars => IInv'
  <2> SUFFICES ASSUME IInv, [Next]_vars PROVE IInv'
    OBVIOUS
  <2>1. /\ TypeOK /\ HandshakeInv /\ MutexInv /\ StreamInv /\ RequestInv /\ ReplyInv
        /\ OrderInv /\ UnmixedInv
    BY DEF IInv
  <2>2. TypeOK' /\ HandshakeInv' /\ MutexInv'
    BY <2>1, StepType, StepHandshake, StepMutex
  <2>3. StreamInv' /\ RequestInv' /\ ReplyInv'
    BY <2>1, StepStream, StepRequest, StepReply
  <2>4. OrderInv' /\ UnmixedInv'
    BY <2>1, StepOrder, StepUnmixed
  <2>5. QED
    BY <2>2, <2>3, <2>4 DEF IInv
<1>3. QED
  BY <1>1, <1>2, PTL DEF Spec

(* Type correctness: in particular no worker replies with an id that is not *)
(* a request's, though it takes the id from bytes that readers share.       *)
THEOREM TypeCorrect == Spec => []TypeOK
<1>1. IInv => TypeOK
  BY DEF IInv
<1>2. QED
  BY <1>1, Inductive, PTL

(* The workers take the client's packets whole, once and in order, for any  *)
(* number of workers and requests and any split of the reads.               *)
THEOREM TakenWholeInOrder == Spec => []WholeInOrder
<1>1. IInv => WholeInOrder
  BY DEF IInv, OrderInv
<1>2. QED
  BY <1>1, Inductive, PTL

(* No unit is lost between init_server, the shared buffer, the reader and   *)
(* the stream while every worker runs.                                      *)
THEOREM NoRequestLost == Spec => []NothingLost
<1>1. ASSUME IInv PROVE NothingLost
  <2> SUFFICES ASSUME handshake = "done", \A w \in Workers : pc[w] # "ended"
               PROVE  /\ Reading = {} => InLine(buffer)
                      /\ \A w \in Reading : InLine(my_buffer[w])
    BY DEF NothingLost
  <2>1. OrderInv /\ ~stop /\ \A s : ~Dry(s)
    BY <1>1 DEF IInv, OrderInv, Dry
  <2>2. QED
    BY <2>1 DEF OrderInv, Reading
<1>2. QED
  BY <1>1, Inductive, PTL

(* Replies are never interleaved on the stream. *)
THEOREM WritesUnmixed == Spec => []RepliesUnmixed
<1>1. IInv => RepliesUnmixed
  BY DEF IInv, UnmixedInv
<1>2. QED
  BY <1>1, Inductive, PTL

(* A request is replied to at most once and with the right type of packet,  *)
(* also after workers were stopped in the middle of a packet.               *)
THEOREM RepliedOnce == Spec => []OneReply
<1>1. ASSUME IInv PROVE OneReply
  <2> SUFFICES ASSUME NEW id \in 1 .. Len(asked)
               PROVE  /\ Cardinality(ReplyTo(id)) <= 1
                      /\ \A k \in ReplyTo(id) :
                            outbound[k][1].body.type \in
                                {"STATUS", ReplyType(asked[id].opcode)}
    BY DEF OneReply
  <2>1. ReplyInv
    BY <1>1 DEF IInv
  <2>2. \A j, k \in ReplyTo(id) : j = k
    BY <2>1 DEF ReplyInv, ReplyTo
  <2>3. Cardinality(ReplyTo(id)) <= 1
    <3>1. CASE ReplyTo(id) = {}
      BY <3>1, FS_EmptySet
    <3>2. CASE ReplyTo(id) # {}
      <4>1. PICK k \in ReplyTo(id) : TRUE
        BY <3>2
      <4>2. ReplyTo(id) = {k}
        BY <2>2, <4>1
      <4>3. QED
        BY <4>2, FS_Singleton
    <3>3. QED
      BY <3>1, <3>2
  <2>4. \A k \in ReplyTo(id) :
            outbound[k][1].body.type \in {"STATUS", ReplyType(asked[id].opcode)}
    <3> TAKE k \in ReplyTo(id)
    <3>1. k \in 1 .. Len(outbound) /\ outbound[k][1].request_id = id
      BY DEF ReplyTo
    <3>2. QED
      BY <2>1, <3>1 DEF ReplyInv, Suits
  <2>5. QED
    BY <2>3, <2>4
<1>2. QED
  BY <1>1, Inductive, PTL
=============================================================================
