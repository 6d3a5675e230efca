--------------------------- MODULE SshLoopsProofs ---------------------------
(* Theorems about SshLoops. *)
EXTENDS SshLoops, SequenceTheorems, TLAPS

(* The socket's send buffer has been full if it is. *)
FullNoted == ~writable => congested

(* Who waits has not returned. *)
WaitersRun == \A t \in Tasks : waits[t] # {} => running[t]

(* Only who runs is robbed. *)
RobbedRun == \A t \in robbed : running[t]

(* do_some_io_ waits on the socket only with output left over. *)
IoWaitsOnTimer ==
    \A t \in Tasks : "read" \in waits[t] /\ LoopOf(op[t]) = "do_some_io_" => congested

(* A read or write of a whole buffer never gets to tell its caller that it *)
(* is done: the lambda returns the total when nothing is left, do_io_      *)
(* knows no positive result and asks libssh again.  It succeeds only by an *)
(* error of libssh that has no code, on a lost connection.                 *)
TransferNeverDone ==
    \A t \in Tasks :
        op[t] \in Transfers /\ ~running[t] /\ result[t] = "success" => ~alive

IInv ==
    /\ TypeOK /\ FullNoted /\ WaitersRun /\ RobbedRun /\ IoWaitsOnTimer
    /\ BytesInOrder /\ OnlyIoSpins /\ ReaderNotRobbed /\ TransferNeverDone

-----------------------------------------------------------------------------
(* Sequences and boxes. *)

LEMMA BoxFields ==
    ASSUME NEW b \in Box
    PROVE  b.data \in Seq(Units) /\ b.eof \in BOOLEAN /\ b.answer \in Answers \cup {"none"}
BY DEF Box

LEMMA EmptyIsBox == Empty \in Box /\ Empty.data = <<>>
BY DEF Empty, Box

(* libssh has what it had and what was on the socket. *)
LEMMA ProcessedBox ==
    ASSUME TypeOK, NEW t \in Tasks
    PROVE  /\ Processed(t) \in Box
           /\ Processed(t).data = box[t].data \o socket[t].data
           /\ Processed(t).data \in Seq(Units)
           /\ Len(Processed(t).data) \in Nat
<1>1. box[t] \in Box /\ socket[t] \in Box
  BY DEF TypeOK
<1>2. box[t].data \in Seq(Units) /\ socket[t].data \in Seq(Units)
  BY <1>1, BoxFields
<1>3. box[t].data \o socket[t].data \in Seq(Units)
  BY <1>2, ConcatProperties
<1>4. (box[t].eof \/ socket[t].eof) \in BOOLEAN
  BY <1>1, BoxFields
<1>5. (IF socket[t].answer = "none" THEN box[t].answer ELSE socket[t].answer)
          \in Answers \cup {"none"}
  BY <1>1, BoxFields
<1>6. Processed(t) \in Box
  BY <1>3, <1>4, <1>5 DEF Processed, Box
<1>7. QED
  BY <1>3, <1>6, LenProperties DEF Processed

LEMMA UnitsAssociative ==
    \A s, u, v \in Seq(Units) : (s \o u) \o v = s \o (u \o v)
<1> TAKE s, u, v \in Seq(Units)
<1> QED
  BY ConcatAssociative

(* A sequence cut in two. *)
LEMMA Cut ==
    ASSUME NEW S, NEW s \in Seq(S), NEW k \in 0 .. Len(s)
    PROVE  /\ SubSeq(s, 1, k) \in Seq(S)
           /\ SubSeq(s, k + 1, Len(s)) \in Seq(S)
           /\ SubSeq(s, 1, k) \o SubSeq(s, k + 1, Len(s)) = s
<1>1. Len(s) \in Nat /\ \A i \in 1 .. Len(s) : s[i] \in S
  BY LenProperties, ElementOfSeq
<1>2. /\ SubSeq(s, 1, k) \in Seq(S)
      /\ Len(SubSeq(s, 1, k)) = k
      /\ \A i \in 1 .. k : SubSeq(s, 1, k)[i] = s[i]
  BY <1>1, SubSeqProperties
<1>3. /\ SubSeq(s, k + 1, Len(s)) \in Seq(S)
      /\ Len(SubSeq(s, k + 1, Len(s))) = Len(s) - k
      /\ \A i \in 1 .. Len(s) - k : SubSeq(s, k + 1, Len(s))[i] = s[k + i]
  BY <1>1, SubSeqProperties
<1> DEFINE a == SubSeq(s, 1, k)
           b == SubSeq(s, k + 1, Len(s))
           c == a \o b
<1> HIDE DEF a, b
<1>4. /\ c \in Seq(S) /\ Len(c) = Len(s)
      /\ \A i \in 1 .. Len(s) : c[i] = IF i <= k THEN a[i] ELSE b[i - k]
  <2>1. a \in Seq(S) /\ b \in Seq(S) /\ Len(a) = k /\ Len(b) = Len(s) - k
    BY <1>2, <1>3 DEF a, b
  <2>2. Len(a) + Len(b) = Len(s)
    BY <1>1, <2>1
  <2>3. QED
    BY <2>1, <2>2, ConcatProperties
<1>5. \A i \in 1 .. Len(s) : c[i] = s[i]
  <2>1. \A i \in 1 .. k : a[i] = s[i]
    BY <1>2 DEF a
  <2>2. \A i \in 1 .. Len(s) - k : b[i] = s[k + i]
    BY <1>3 DEF b
  <2>3. QED
    BY <1>1, <1>4, <2>1, <2>2
<1>6. c = s
  BY <1>4, <1>5, SeqEqual
<1>7. QED
  BY <1>2, <1>3, <1>6 DEF a, b

(* The first n units the peer sends. *)
Sent(n) == [k \in 1 .. n |-> k]

(* One unit more of what the peer has sent. *)
LEMMA OneMore ==
    ASSUME NEW S, NEW s \in Seq(S), NEW r \in Seq(S), NEW d \in Nat, d + 1 \in S,
           s \o r = Sent(d)
    PROVE  s \o Append(r, d + 1) = Sent(d + 1)
<1>1. /\ s \o r \in Seq(S) /\ Len(s \o r) = Len(s) + Len(r)
      /\ DOMAIN (s \o r) = 1 .. Len(s) + Len(r)
      /\ Len(s) \in Nat /\ Len(r) \in Nat
      /\ \A i \in 1 .. Len(s) + Len(r) :
            (s \o r)[i] = IF i <= Len(s) THEN s[i] ELSE r[i - Len(s)]
  <2>1. /\ s \o r \in Seq(S) /\ Len(s \o r) = Len(s) + Len(r)
        /\ \A i \in 1 .. Len(s) + Len(r) :
              (s \o r)[i] = IF i <= Len(s) THEN s[i] ELSE r[i - Len(s)]
    BY ConcatProperties
  <2>2. DOMAIN (s \o r) = 1 .. Len(s \o r) /\ Len(s) \in Nat /\ Len(r) \in Nat
    BY <2>1, LenProperties
  <2>3. QED
    BY <2>1, <2>2
<1>2. Len(s) + Len(r) = d
  <2>1. DOMAIN Sent(d) = 1 .. d
    BY DEF Sent
  <2>2. 1 .. d = 1 .. Len(s) + Len(r)
    BY <1>1, <2>1
  <2>3. QED
    BY <1>1, <2>2
<1>3. /\ Append(r, d + 1) \in Seq(S) /\ Len(Append(r, d + 1)) = Len(r) + 1
      /\ \A i \in 1 .. Len(r) + 1 : Append(r, d + 1)[i] = IF i <= Len(r) THEN r[i] ELSE d + 1
  BY <1>1, AppendProperties
<1> DEFINE c == s \o Append(r, d + 1)
<1>4. /\ c \in Seq(S) /\ Len(c) = d + 1 /\ DOMAIN c = 1 .. d + 1
      /\ \A i \in 1 .. d + 1 :
            c[i] = IF i <= Len(s) THEN s[i] ELSE Append(r, d + 1)[i - Len(s)]
  <2>1. /\ c \in Seq(S) /\ Len(c) = Len(s) + (Len(r) + 1)
        /\ \A i \in 1 .. Len(s) + (Len(r) + 1) :
              c[i] = IF i <= Len(s) THEN s[i] ELSE Append(r, d + 1)[i - Len(s)]
    <3>1. Append(r, d + 1) \in Seq(S)
      BY <1>3
    <3>2. /\ c \in Seq(S) /\ Len(c) = Len(s) + Len(Append(r, d + 1))
          /\ \A i \in 1 .. Len(s) + Len(Append(r, d + 1)) :
                c[i] = IF i <= Len(s) THEN s[i] ELSE Append(r, d + 1)[i - Len(s)]
      BY <3>1, ConcatProperties
    <3>3. QED
      BY <1>3, <3>2
  <2>2. DOMAIN c = 1 .. Len(c)
    BY <2>1, LenProperties
  <2>3. Len(s) + (Len(r) + 1) = d + 1
    BY <1>1, <1>2 DEF Sent
  <2>4. QED
    BY <2>1, <2>2, <2>3
<1>5. \A i \in 1 .. d : (s \o r)[i] = i
  BY DEF Sent
<1>6. \A i \in 1 .. d + 1 : c[i] = i
  <2> TAKE i \in 1 .. d + 1
  <2>1. CASE i <= Len(s)
    BY <1>1, <1>2, <1>4, <1>5, <2>1
  <2>2. CASE i > Len(s) /\ i <= d
    BY <1>1, <1>2, <1>3, <1>4, <1>5, <2>2
  <2>3. CASE i > Len(s) /\ i = d + 1
    BY <1>1, <1>2, <1>3, <1>4, <2>3 DEF Sent
  <2>4. QED
    BY <2>1, <2>2, <2>3, <1>1 DEF Sent
<1>7. c = [i \in 1 .. d + 1 |-> c[i]]
  BY <1>4, LenProperties
<1>8. QED
  BY <1>6, <1>7 DEF Sent

-----------------------------------------------------------------------------
(* libssh and the loops. *)

(* What each operation calls. *)
LEMMA CallOf ==
    ASSUME NEW t
    PROVE  /\ op[t] = "read_some" => Call(t) = read_some(t)
           /\ op[t] = "read" => Call(t) = read(t)
           /\ op[t] = "write_some" => Call(t) = write_some(t)
           /\ op[t] = "write" => Call(t) = write(t)
           /\ op[t] = "get_message" => Call(t) = message_get(t)
           /\ op[t] \notin {"read_some", "read", "write_some", "write", "get_message"} =>
                Call(t) = Notified(t) \/ Call(t) = Answered(t)
<1>1. op[t] = "read_some" => Call(t) = read_some(t)
  BY DEF Call, Notices, MessageReplies
<1>2. op[t] = "read" => Call(t) = read(t)
  BY DEF Call, Notices, MessageReplies
<1>3. op[t] = "write_some" => Call(t) = write_some(t)
  BY DEF Call, Notices, MessageReplies
<1>4. op[t] = "write" => Call(t) = write(t)
  BY DEF Call, Notices, MessageReplies
<1>5. op[t] = "get_message" => Call(t) = message_get(t)
  BY DEF Call, Notices, MessageReplies
<1>6. op[t] \notin {"read_some", "read", "write_some", "write", "get_message"} =>
         Call(t) = Notified(t) \/ Call(t) = Answered(t)
  BY DEF Call, Notices, MessageReplies
<1>7. QED
  BY <1>1, <1>2, <1>3, <1>4, <1>5, <1>6

(* A read moves no more than there is, a transfer no more than is left. *)
LEMMA CallBounds ==
    ASSUME TypeOK, NEW t \in Tasks, NEW r \in Call(t)
    PROVE  /\ r.n \in Nat
           /\ Needs(op[t]) = "data" => r.n <= Len(Processed(t).data)
           /\ op[t] \in Transfers => m[t] + r.n <= BufLen
<1> DEFINE d == Processed(t).data
<1>1. d \in Seq(Units) /\ Len(d) \in Nat /\ BufLen \in Nat /\ m[t] \in 0 .. BufLen
  BY ProcessedBox, LoopsAssumption DEF TypeOK
<1>2. d # <<>> => Len(d) > 0
  BY <1>1, EmptySeq
<1> HIDE DEF d
<1>3. CASE op[t] = "read_some"
  <2>1. r \in read_some(t)
    BY <1>3, CallOf
  <2>2. r.n \in 0 .. Len(d)
    <3>1. (\E n \in 1 .. Least(Len(d), BufLen) : r = Reply("count", n) /\ d # <<>>) \/ r.n = 0
      BY <2>1 DEF read_some, d, Reply
    <3>2. QED
      BY <1>1, <3>1 DEF Least, Reply
  <2>3. QED
    BY <1>1, <1>3, <2>2 DEF Transfers, d
<1>4. CASE op[t] = "read"
  <2>1. r \in read(t)
    BY <1>4, CallOf
  <2>2. \/ \E n \in 1 .. Least(Len(d), Remaining(t)) : r = Reply("SSH_AGAIN", n)
        \/ r.n = 0
    BY <2>1 DEF read, d, Reply, Total
  <2>3. r.n \in 0 .. Len(d) /\ m[t] + r.n <= BufLen
    BY <1>1, <2>2 DEF Least, Reply, Remaining
  <2>4. QED
    BY <1>1, <2>3 DEF d
<1>5. CASE op[t] = "write"
  <2>1. r \in write(t)
    BY <1>5, CallOf
  <2>2. (\E n \in 1 .. Remaining(t) : r = Reply("SSH_AGAIN", n)) \/ r.n = 0
    BY <2>1 DEF write, Reply, Total
  <2>3. r.n \in Nat /\ m[t] + r.n <= BufLen
    BY <1>1, <2>2 DEF Reply, Remaining
  <2>4. Needs(op[t]) = "room"
    BY <1>5 DEF Needs
  <2>5. QED
    BY <2>3, <2>4
<1>6. CASE op[t] = "write_some"
  <2>1. r \in write_some(t)
    BY <1>6, CallOf
  <2>2. (\E n \in 1 .. BufLen : r = Reply("count", n)) \/ r.n = 0
    BY <2>1 DEF write_some, Reply
  <2>3. r.n \in Nat
    BY <1>1, <2>2 DEF Reply
  <2>4. Needs(op[t]) = "room" /\ op[t] \notin Transfers
    BY <1>6 DEF Needs, Transfers
  <2>5. QED
    BY <2>3, <2>4
<1>7. CASE op[t] = "get_message"
  <2>1. r \in message_get(t)
    BY <1>7, CallOf
  <2>2. r.n = 0 \/ (r.n = 1 /\ d # <<>>)
    BY <2>1 DEF message_get, Reply, d
  <2>3. QED
    BY <1>1, <1>2, <1>7, <2>2 DEF Transfers, d
<1>8. CASE op[t] \notin {"read_some", "read", "write_some", "write", "get_message"}
  <2>1. r \in Notified(t) \/ r \in Answered(t)
    BY <1>8, CallOf
  <2>2. r.n = 0
    BY <2>1 DEF Notified, Answered, Reply
  <2>3. Needs(op[t]) # "data" /\ op[t] \notin Transfers
    BY <1>8 DEF Needs, Transfers
  <2>4. QED
    BY <2>2, <2>3
<1>9. QED
  BY <1>3, <1>4, <1>5, <1>6, <1>7, <1>8

(* do_io_ ends well only on an error that has no code. *)
LEMMA TransferVerdict ==
    ASSUME TypeOK, NEW t \in Tasks, NEW r \in Call(t), op[t] \in Transfers,
           "success" \in Verdict(LoopOf(op[t]), r.rc)
    PROVE  ~StillAlive
<1>1. r \in read(t) \/ r \in write(t)
  BY CallOf DEF Transfers
<1>2. r.rc \in {"zero", "count", "SSH_AGAIN"} \/ (r.rc = "SSH_ERROR" /\ ~StillAlive)
  BY <1>1 DEF read, write, Total, Reply, Unsettled
<1>3. LoopOf(op[t]) = "do_io_"
  BY DEF LoopOf, Transfers, Auths, SessionOps, Opens, Requests, Notices, MessageReplies
<1>4. QED
  BY <1>2, <1>3 DEF Verdict

(* The codes of a verdict. *)
LEMMA VerdictCodes ==
    ASSUME NEW loop, NEW rc
    PROVE  Verdict(loop, rc) \subseteq ErrorCodes /\ Quiet(loop) \subseteq ErrorCodes
BY DEF Verdict, Quiet, ErrorCode, ErrorCodes

(* What a loop waits for. *)
LEMMA AwaitType ==
    ASSUME NEW loop, NEW left, NEW flags \in ssh_get_poll_flags(left)
    PROVE  /\ Await(loop, flags) \in Waits
           /\ flags = {} => Await(loop, flags) = {} /\ ~StillAlive
           /\ "read" \in Await(loop, flags) /\ loop = "do_some_io_" => left # {}
<1>1. \/ flags = {} /\ ~StillAlive
      \/ flags = {"read"} /\ left = {}
      \/ flags \in {{"read", "write"}, {"write"}} /\ left # {}
  BY DEF ssh_get_poll_flags
<1>2. Await(loop, flags) \in Waits
  <2>1. CASE flags = {"read"}
    <3>1. Await(loop, flags) = {"timer"} \/ Await(loop, flags) = {"read"}
      BY <2>1 DEF Await
    <3>2. {"timer"} \in {{"timer"}, {"connect"}}
      OBVIOUS
    <3>3. {"read"} \in SUBSET {"read", "write"}
      OBVIOUS
    <3>4. {"timer"} \in Waits /\ {"read"} \in Waits
      BY <3>2, <3>3, Zenon DEF Waits
    <3>5. QED
      BY <3>1, <3>4
  <2>2. CASE flags # {"read"}
    BY <1>1, <2>2 DEF Await, Waits
  <2>3. QED
    BY <2>1, <2>2
<1>3. flags = {} => Await(loop, flags) = {} /\ ~StillAlive
  BY <1>1 DEF Await
<1>4. "read" \in Await(loop, flags) /\ loop = "do_some_io_" => left # {}
  BY <1>1 DEF Await
<1>5. QED
  BY <1>2, <1>3, <1>4

-----------------------------------------------------------------------------
(* The invariant holds initially. *)

LEMMA InitIInv == Init => IInv
<1> SUFFICES ASSUME Init PROVE IInv
  OBVIOUS
<1>1. TypeOK
  <2>1. box \in [Tasks -> Box] /\ socket \in [Tasks -> Box]
    BY EmptyIsBox DEF Init
  <2>2. got \in [Tasks -> Seq(Units)]
    BY EmptySeq DEF Init
  <2>3. waits \in [Tasks -> Waits] /\ result \in [Tasks -> ErrorCodes]
    BY DEF Init, Waits, ErrorCodes
  <2>4. /\ m \in [Tasks -> 0 .. BufLen] /\ starts \in [Tasks -> 0 .. MaxStarts]
        /\ dataSent \in [Tasks -> 0 .. MaxUnits]
    BY LoopsAssumption DEF Init
  <2>5. /\ op \in [Tasks -> AllOps \cup {"none"}] /\ running \in [Tasks -> BOOLEAN]
        /\ spinning \in Tasks \cup {NULL} /\ handed \in [Tasks -> BOOLEAN]
    BY DEF Init
  <2>6. /\ unsent \subseteq Tasks /\ alive \in BOOLEAN /\ writable \in BOOLEAN
        /\ congested \in BOOLEAN /\ atPeer \subseteq Tasks /\ eofSent \subseteq Tasks
        /\ hungUp \in BOOLEAN /\ robbed \subseteq Tasks
    BY DEF Init
  <2>7. QED
    BY <2>1, <2>2, <2>3, <2>4, <2>5, <2>6 DEF TypeOK
<1>2. BytesInOrder
  <2> SUFFICES ASSUME NEW t \in Tasks
               PROVE  got[t] \o box[t].data \o socket[t].data = [k \in 1 .. dataSent[t] |-> k]
    BY DEF BytesInOrder
  <2>1. got[t] = <<>> /\ box[t].data = <<>> /\ socket[t].data = <<>> /\ dataSent[t] = 0
    BY EmptyIsBox DEF Init
  <2>2. <<>> \o <<>> \o <<>> = <<>>
    BY ConcatEmptySeq, EmptySeq
  <2>3. [k \in 1 .. 0 |-> k] = <<>>
    OBVIOUS
  <2>4. QED
    BY <2>1, <2>2, <2>3
<1>3. FullNoted /\ WaitersRun /\ RobbedRun /\ IoWaitsOnTimer
  BY DEF Init, FullNoted, WaitersRun, RobbedRun, IoWaitsOnTimer
<1>4. OnlyIoSpins /\ ReaderNotRobbed
  BY DEF Init, OnlyIoSpins, ReaderNotRobbed
<1>5. TransferNeverDone
  BY DEF Init, TransferNeverDone, Transfers
<1>6. QED
  BY <1>1, <1>2, <1>3, <1>4, <1>5 DEF IInv

-----------------------------------------------------------------------------
(* What the steps do to the bytes. *)

(* The steps that move no bytes. *)
LEMMA BytesStay ==
    ASSUME BytesInOrder, TypeOK, UNCHANGED <<got, dataSent>>,
           \A t \in Tasks : box'[t].data = box[t].data /\ socket'[t].data = socket[t].data
    PROVE  BytesInOrder'
BY DEF BytesInOrder

(* A turn takes them off the socket and hands some of them out. *)
LEMMA TurnBytes ==
    ASSUME IInv, NEW t \in Tasks, Turn(t)
    PROVE  /\ BytesInOrder'
           /\ got' \in [Tasks -> Seq(Units)]
           /\ box' \in [Tasks -> Box]
           /\ socket' \in [Tasks -> Box]
           /\ m' \in [Tasks -> 0 .. BufLen]
           /\ \A u \in Tasks : box'[u].answer = Processed(u).answer
<1> USE DEF IInv
<1>1. PICK r \in Call(t) :
        LET arrived == Processed(t).data
            moved == IF Needs(op[t]) = "data" THEN r.n ELSE 0
        IN  /\ got' = [got EXCEPT ![t] = Place(t, SubSeq(arrived, 1, moved))]
            /\ box' = [u \in Tasks |->
                          IF u # t THEN Processed(u)
                          ELSE [Processed(t) EXCEPT
                                   !.data = SubSeq(arrived, moved + 1, Len(arrived))]]
            /\ m' = [m EXCEPT ![t] = IF op[t] \in Transfers THEN @ + r.n ELSE @]
  BY DEF Turn
<1>2. socket' = [u \in Tasks |-> Empty] /\ dataSent' = dataSent
  BY DEF Turn
<1> DEFINE a == Processed(t).data
           k == IF Needs(op[t]) = "data" THEN r.n ELSE 0
           front == SubSeq(a, 1, k)
           rest == SubSeq(a, k + 1, Len(a))
<1>3. a \in Seq(Units) /\ Len(a) \in Nat /\ k \in 0 .. Len(a)
  <2>1. a \in Seq(Units) /\ Len(a) \in Nat
    BY ProcessedBox
  <2>2. r.n \in Nat /\ (Needs(op[t]) = "data" => r.n <= Len(a))
    BY CallBounds
  <2>3. QED
    BY <2>1, <2>2
<1> HIDE DEF k
<1>4. front \in Seq(Units) /\ rest \in Seq(Units) /\ front \o rest = a
  BY <1>3, Cut
<1>5. got' = [got EXCEPT ![t] = got[t] \o front]
  BY <1>1 DEF Place, k
<1>6. box' = [u \in Tasks |-> IF u # t THEN Processed(u)
                              ELSE [Processed(t) EXCEPT !.data = rest]]
  BY <1>1 DEF k
<1> HIDE DEF front, rest
<1>7. \A u \in Tasks : got[u] \in Seq(Units) /\ box[u] \in Box /\ socket[u] \in Box
  BY DEF TypeOK
<1>8. got[t] \o front \in Seq(Units)
  BY <1>4, <1>7, ConcatProperties
<1>9. got' \in [Tasks -> Seq(Units)]
  BY <1>5, <1>8 DEF TypeOK
<1>10. [Processed(t) EXCEPT !.data = rest] \in Box
       /\ [Processed(t) EXCEPT !.data = rest].data = rest
  BY <1>4, ProcessedBox DEF Box
<1>11. box' \in [Tasks -> Box]
  BY <1>6, <1>10, ProcessedBox
<1>12. socket' \in [Tasks -> Box]
  BY <1>2, EmptyIsBox
<1>13. m' \in [Tasks -> 0 .. BufLen]
  <2>1. m[t] \in 0 .. BufLen /\ BufLen \in Nat /\ m \in [Tasks -> 0 .. BufLen]
    BY LoopsAssumption DEF TypeOK
  <2>2. (IF op[t] \in Transfers THEN m[t] + r.n ELSE m[t]) \in 0 .. BufLen
    BY <2>1, CallBounds
  <2>3. QED
    BY <1>1, <2>1, <2>2
<1>14. BytesInOrder'
  <2> SUFFICES ASSUME NEW u \in Tasks
               PROVE  got'[u] \o box'[u].data \o socket'[u].data
                        = [i \in 1 .. dataSent'[u] |-> i]
    BY DEF BytesInOrder
  <2>1. box[u].data \in Seq(Units) /\ socket[u].data \in Seq(Units) /\ got[u] \in Seq(Units)
    BY <1>7, BoxFields
  <2>2. got[u] \o (box[u].data \o socket[u].data) = [i \in 1 .. dataSent'[u] |-> i]
    <3>1. (got[u] \o box[u].data) \o socket[u].data = [i \in 1 .. dataSent[u] |-> i]
      BY DEF BytesInOrder
    <3>2. (got[u] \o box[u].data) \o socket[u].data
            = got[u] \o (box[u].data \o socket[u].data)
      BY <2>1, UnitsAssociative
    <3>3. QED
      BY <1>2, <3>1, <3>2
  <2>3. socket'[u].data = <<>>
    BY <1>2, EmptyIsBox
  <2>4. got'[u] \o box'[u].data = got[u] \o Processed(u).data
    <3>1. CASE u # t
      BY <1>5, <1>6, <3>1 DEF TypeOK
    <3>2. CASE u = t
      <4>1. got'[t] = got[t] \o front /\ box'[t].data = rest
        BY <1>5, <1>6, <1>10 DEF TypeOK
      <4>2. (got[t] \o front) \o rest = got[t] \o (front \o rest)
        <5>1. got[t] \in Seq(Units) /\ front \in Seq(Units) /\ rest \in Seq(Units)
          BY <1>4, <1>7
        <5>2. QED
          BY <5>1, UnitsAssociative
      <4>3. QED
        BY <3>2, <4>1, <4>2, <1>4
    <3>3. QED
      BY <3>1, <3>2
  <2>5. got[u] \o Processed(u).data \in Seq(Units)
    BY <2>1, ProcessedBox, ConcatProperties
  <2>6. got'[u] \o box'[u].data \o socket'[u].data = got[u] \o Processed(u).data
    BY <2>3, <2>4, <2>5, ConcatEmptySeq
  <2>7. QED
    BY <2>2, <2>6, ProcessedBox
<1>15. \A u \in Tasks : box'[u].answer = Processed(u).answer
  <2>1. [Processed(t) EXCEPT !.data = rest].answer = Processed(t).answer
    BY ProcessedBox DEF Box
  <2>2. QED
    BY <1>6, <2>1
<1>16. QED
  BY <1>9, <1>11, <1>12, <1>13, <1>14, <1>15

-----------------------------------------------------------------------------
(* The invariant is preserved. *)

LEMMA StartIInv ==
    ASSUME IInv, NEW t \in Tasks, NEW o \in OpsOf[t], Start(t, o)
    PROVE  IInv'
<1> USE DEF IInv
<1>1. o \in AllOps
  BY LoopsAssumption
<1>2. box' \in [Tasks -> Box] /\ \A u \in Tasks : box'[u].data = box[u].data
  <2>1. box' = [box EXCEPT ![t].answer = "none"] /\ box \in [Tasks -> Box]
    BY DEF Start, TypeOK
  <2>2. QED
    BY <2>1 DEF Box
<1>3. waits' \in [Tasks -> Waits]
  <2>1. {"connect"} \in Waits /\ {} \in Waits
    BY Zenon DEF Waits
  <2>2. QED
    BY <2>1 DEF Start, TypeOK
<1>4. starts' \in [Tasks -> 0 .. MaxStarts] /\ m' \in [Tasks -> 0 .. BufLen]
  BY LoopsAssumption DEF Start, TypeOK
<1>5. TypeOK'
  BY <1>1, <1>2, <1>3, <1>4 DEF Start, TypeOK, peerVars
<1>6. BytesInOrder'
  BY <1>2, BytesStay DEF Start, peerVars
<1>7. (FullNoted /\ WaitersRun /\ RobbedRun)'
  BY DEF Start, TypeOK, FullNoted, WaitersRun, RobbedRun
<1>8. IoWaitsOnTimer' /\ ReaderNotRobbed'
  BY DEF Start, TypeOK, IoWaitsOnTimer, ReaderNotRobbed, RobbedRun
<1>9. OnlyIoSpins'
  BY DEF Start, OnlyIoSpins
<1>10. TransferNeverDone'
  BY DEF Start, TypeOK, TransferNeverDone
<1>11. QED
  BY <1>5, <1>6, <1>7, <1>8, <1>9, <1>10

(* How a turn ends: it returns, suspends, or goes on without the thread's leave. *)
LEMMA TurnEnds ==
    ASSUME IInv, NEW t \in Tasks, Turn(t)
    PROVE  \/ \E ec \in ErrorCodes :
                /\ Return(t, ec)
                /\ op[t] \in Transfers /\ ec = "success" => ~StillAlive
           \/ \E flags \in ssh_get_poll_flags(Flushed(t)) :
                /\ Suspend(t, flags)
                /\ flags = {} => Quiet(LoopOf(op[t])) = {}
<1> USE DEF IInv
<1>1. PICK r \in Call(t) :
        \/ \E ec \in Verdict(LoopOf(op[t]), r.rc) : Return(t, ec)
        \/ \E flags \in ssh_get_poll_flags(Flushed(t)) :
              \/ flags = {} /\ \E ec \in Quiet(LoopOf(op[t])) : Return(t, ec)
              \/ flags = {} /\ Quiet(LoopOf(op[t])) = {} /\ Suspend(t, flags)
              \/ flags # {} /\ Suspend(t, flags)
  BY DEF Turn
<1>2. CASE \E ec \in Verdict(LoopOf(op[t]), r.rc) : Return(t, ec)
  BY <1>2, VerdictCodes, TransferVerdict
<1>3. CASE \E ec \in Quiet(LoopOf(op[t])) : Return(t, ec)
  <2>1. "success" \notin Quiet(LoopOf(op[t]))
    BY DEF Quiet
  <2>2. QED
    BY <1>3, <2>1, VerdictCodes
<1>4. QED
  BY <1>1, <1>2, <1>3

LEMMA TurnIInv ==
    ASSUME IInv, NEW t \in Tasks, Turn(t)
    PROVE  IInv'
<1> USE DEF IInv
<1>1. /\ running[t] /\ waits[t] = {} /\ spinning \in {NULL, t}
      /\ handed' = [handed EXCEPT ![t] = Needs(op[t]) # "data"]
      /\ unsent' = Flushed(t)
      /\ atPeer' = IF writable THEN atPeer \cup Asked(t) ELSE atPeer
      /\ alive' = StillAlive
      /\ robbed' = (robbed \cup Robbed(t)) \ {t}
      /\ UNCHANGED <<op, starts, writable, congested, dataSent, eofSent, hungUp>>
  BY DEF Turn
<1>2. Flushed(t) \subseteq Tasks /\ Asked(t) \subseteq Tasks /\ Robbed(t) \subseteq Tasks
      /\ (Flushed(t) # {} => ~writable)
  BY DEF Flushed, Asked, Output, Robbed, TypeOK
<1>3. /\ BytesInOrder'
      /\ got' \in [Tasks -> Seq(Units)] /\ box' \in [Tasks -> Box]
      /\ socket' \in [Tasks -> Box] /\ m' \in [Tasks -> 0 .. BufLen]
  BY TurnBytes
<1>4. FullNoted'
  BY <1>1 DEF FullNoted
<1>5. /\ unsent' \subseteq Tasks /\ atPeer' \subseteq Tasks /\ robbed' \subseteq Tasks
      /\ handed' \in [Tasks -> BOOLEAN] /\ alive' \in BOOLEAN
  BY <1>1, <1>2 DEF TypeOK, StillAlive
<1> DEFINE EndTypes ==
             /\ running' \in [Tasks -> BOOLEAN] /\ result' \in [Tasks -> ErrorCodes]
             /\ waits' \in [Tasks -> Waits] /\ spinning' \in Tasks \cup {NULL}
             /\ \A u \in Tasks \ {t} : running'[u] = running[u]
           EndInv == WaitersRun' /\ IoWaitsOnTimer' /\ OnlyIoSpins' /\ TransferNeverDone'
<1>6. EndTypes /\ EndInv
  <2>1. ASSUME NEW ec \in ErrorCodes, Return(t, ec),
               op[t] \in Transfers /\ ec = "success" => ~StillAlive
        PROVE  EndTypes /\ EndInv
    <3>1. /\ running' = [running EXCEPT ![t] = FALSE] /\ result' = [result EXCEPT ![t] = ec]
          /\ spinning' = NULL /\ waits' = waits
      BY <2>1 DEF Return
    <3>2. /\ running' \in [Tasks -> BOOLEAN] /\ result' \in [Tasks -> ErrorCodes]
          /\ waits' \in [Tasks -> Waits] /\ spinning' \in Tasks \cup {NULL}
          /\ \A u \in Tasks \ {t} : running'[u] = running[u]
      BY <3>1 DEF TypeOK
    <3>3. WaitersRun' /\ IoWaitsOnTimer' /\ OnlyIoSpins'
      BY <1>1, <3>1 DEF TypeOK, WaitersRun, IoWaitsOnTimer, OnlyIoSpins
    <3>4. TransferNeverDone'
      BY <1>1, <2>1, <3>1 DEF TypeOK, TransferNeverDone, StillAlive
    <3>5. QED
      BY <3>2, <3>3, <3>4
  <2>2. ASSUME NEW flags \in ssh_get_poll_flags(Flushed(t)), Suspend(t, flags),
               flags = {} => Quiet(LoopOf(op[t])) = {}
        PROVE  EndTypes /\ EndInv
    <3>1. /\ waits' = [waits EXCEPT ![t] = Await(LoopOf(op[t]), flags)]
          /\ spinning' = IF flags = {} THEN t ELSE NULL
          /\ running' = running /\ result' = result
      BY <2>2 DEF Suspend
    <3>2. /\ Await(LoopOf(op[t]), flags) \in Waits
          /\ flags = {} => ~StillAlive
          /\ "read" \in Await(LoopOf(op[t]), flags) /\ LoopOf(op[t]) = "do_some_io_" =>
                ~writable
      BY <1>2, AwaitType
    <3>3. /\ running' \in [Tasks -> BOOLEAN] /\ result' \in [Tasks -> ErrorCodes]
          /\ waits' \in [Tasks -> Waits] /\ spinning' \in Tasks \cup {NULL}
          /\ \A u \in Tasks \ {t} : running'[u] = running[u]
      BY <3>1, <3>2 DEF TypeOK
    <3>4. WaitersRun' /\ IoWaitsOnTimer'
      BY <1>1, <3>1, <3>2 DEF TypeOK, WaitersRun, IoWaitsOnTimer, FullNoted
    <3>5. OnlyIoSpins'
      <4>1. flags = {} => LoopOf(op[t]) \in {"get_exit_state", "do_some_io_", "do_io_"}
        BY <2>2 DEF Quiet
      <4>2. QED
        BY <1>1, <3>1, <3>2, <4>1 DEF OnlyIoSpins
    <3>6. TransferNeverDone'
      BY <1>1, <3>1 DEF TypeOK, TransferNeverDone, StillAlive
    <3>7. QED
      BY <3>3, <3>4, <3>5, <3>6
  <2>3. QED
    BY <2>1, <2>2, TurnEnds
<1>7. TypeOK'
  BY <1>1, <1>3, <1>5, <1>6 DEF TypeOK
<1>8. RobbedRun'
  <2> SUFFICES ASSUME NEW u \in robbed' PROVE running'[u]
    BY DEF RobbedRun
  <2>1. u \in Tasks \ {t} /\ (u \in robbed \/ u \in Robbed(t))
    BY <1>1, <1>2 DEF TypeOK
  <2>2. running[u]
    BY <2>1 DEF RobbedRun, Robbed, WaitersRun
  <2>3. QED
    BY <1>6, <2>1, <2>2
<1>9. ReaderNotRobbed'
  BY <1>1 DEF ReaderNotRobbed, Robbed, IoWaitsOnTimer
<1>10. QED
  BY <1>3, <1>4, <1>6, <1>7, <1>8, <1>9

LEMMA WaitIInv ==
    ASSUME IInv, NEW t \in Tasks, (\E w \in waits[t] : Ready(t, w)) \/ WaitFails(t)
    PROVE  IInv'
<1> USE DEF IInv
<1>1. CASE \E w \in waits[t] : Ready(t, w)
  <2>1. PICK w \in waits[t] : Ready(t, w)
    BY <1>1
  <2>2. /\ waits' = [waits EXCEPT ![t] = @ \ {w}]
        /\ UNCHANGED <<op, running, m, result, got, starts, spinning, sshVars, socket,
                       writable, congested, peerVars, robbed>>
    BY <2>1 DEF Ready
  <2>3. waits[t] \ {w} \in Waits
    <3>1. waits[t] \in Waits
      BY DEF TypeOK
    <3>2. waits[t] \subseteq {"read", "write"} => waits[t] \ {w} \subseteq {"read", "write"}
      OBVIOUS
    <3>3. waits[t] \in {{"timer"}, {"connect"}} => waits[t] \ {w} = {}
      BY <2>1
    <3>4. QED
      BY <3>1, <3>2, <3>3, Zenon DEF Waits
  <2>4. TypeOK'
    BY <2>2, <2>3 DEF TypeOK, sshVars, peerVars
  <2>5. BytesInOrder'
    BY <2>2, BytesStay DEF sshVars, peerVars
  <2>6. (FullNoted /\ WaitersRun /\ RobbedRun)'
    BY <2>1, <2>2 DEF TypeOK, FullNoted, WaitersRun, RobbedRun
  <2>7. (IoWaitsOnTimer /\ ReaderNotRobbed /\ OnlyIoSpins /\ TransferNeverDone)'
    BY <2>2 DEF TypeOK, IoWaitsOnTimer, ReaderNotRobbed, OnlyIoSpins, TransferNeverDone,
                sshVars
  <2>8. QED
    BY <2>4, <2>5, <2>6, <2>7
<1>2. CASE WaitFails(t)
  <2>1. /\ waits' = [waits EXCEPT ![t] = {}]
        /\ running' = [running EXCEPT ![t] = FALSE]
        /\ result' = [result EXCEPT ![t] = "wait_failed"]
        /\ robbed' = robbed \ {t}
        /\ UNCHANGED <<op, m, got, starts, spinning, sshVars, socket, writable, congested,
                       peerVars>>
    BY <1>2 DEF WaitFails
  <2>2. {} \in Waits /\ "wait_failed" \in ErrorCodes
    BY Zenon DEF Waits, ErrorCodes
  <2>3. TypeOK'
    BY <2>1, <2>2 DEF TypeOK, sshVars, peerVars
  <2>4. BytesInOrder'
    BY <2>1, BytesStay DEF sshVars, peerVars
  <2>5. (FullNoted /\ WaitersRun /\ RobbedRun)'
    BY <2>1 DEF TypeOK, FullNoted, WaitersRun, RobbedRun
  <2>6. (IoWaitsOnTimer /\ ReaderNotRobbed /\ OnlyIoSpins /\ TransferNeverDone)'
    BY <2>1 DEF TypeOK, IoWaitsOnTimer, ReaderNotRobbed, OnlyIoSpins, TransferNeverDone,
                sshVars
  <2>7. QED
    BY <2>3, <2>4, <2>5, <2>6
<1>3. QED
  BY <1>1, <1>2

(* Steps of the peer and of the socket that leave the coroutines alone. *)
LEMMA OutsideKeeps ==
    ASSUME IInv, UNCHANGED <<taskVars, spinning, sshVars, robbed>>,
           congested => congested'
    PROVE  /\ WaitersRun' /\ RobbedRun' /\ IoWaitsOnTimer' /\ OnlyIoSpins'
           /\ ReaderNotRobbed' /\ TransferNeverDone'
BY DEF IInv, taskVars, sshVars, WaitersRun, RobbedRun, IoWaitsOnTimer, OnlyIoSpins,
       ReaderNotRobbed, TransferNeverDone

LEMMA PeerSendsIInv ==
    ASSUME IInv, NEW t \in Tasks, PeerSends(t)
    PROVE  IInv'
<1> USE DEF IInv
<1> DEFINE d == dataSent[t]
           packet == [socket[t] EXCEPT !.data = Append(@, d + 1)]
<1>1. /\ d < MaxUnits /\ socket' = [socket EXCEPT ![t] = packet]
      /\ dataSent' = [dataSent EXCEPT ![t] = d + 1]
      /\ UNCHANGED <<taskVars, spinning, sshVars, writable, congested, hungUp, robbed,
                     atPeer, eofSent>>
  BY DEF PeerSends, Send
<1>2. d \in Nat /\ d + 1 \in Units /\ d + 1 \in 0 .. MaxUnits
  BY <1>1, LoopsAssumption DEF TypeOK, Units
<1>3. socket[t] \in Box /\ socket[t].data \in Seq(Units)
  BY BoxFields DEF TypeOK
<1>4. Append(socket[t].data, d + 1) \in Seq(Units)
  BY <1>2, <1>3, AppendProperties
<1>5. packet \in Box /\ packet.data = Append(socket[t].data, d + 1)
  BY <1>3, <1>4 DEF Box
<1> HIDE DEF packet, d
<1>6. TypeOK'
  <2>1. socket' \in [Tasks -> Box] /\ dataSent' \in [Tasks -> 0 .. MaxUnits]
    BY <1>1, <1>2, <1>5 DEF TypeOK
  <2>2. QED
    BY <1>1, <2>1 DEF TypeOK, taskVars, sshVars
<1>7. BytesInOrder'
  <2> SUFFICES ASSUME NEW u \in Tasks
               PROVE  got[u] \o box[u].data \o socket'[u].data
                        = [k \in 1 .. dataSent'[u] |-> k]
    BY <1>1 DEF BytesInOrder, taskVars, sshVars
  <2>1. CASE u # t
    BY <1>1, <2>1 DEF BytesInOrder, TypeOK
  <2>2. CASE u = t
    <3> DEFINE s == got[t] \o box[t].data
               r == socket[t].data
    <3>1. s \in Seq(Units) /\ r \in Seq(Units)
      <4>1. got[t] \in Seq(Units) /\ box[t].data \in Seq(Units)
        BY BoxFields DEF TypeOK
      <4>2. QED
        BY <1>3, <4>1, ConcatProperties
    <3>2. s \o r = Sent(d)
      BY DEF BytesInOrder, d, Sent
    <3> HIDE DEF s, r, Sent
    <3>3. s \o Append(r, d + 1) = Sent(d + 1)
      BY <1>2, <3>1, <3>2, OneMore
    <3>4. socket'[t].data = Append(socket[t].data, d + 1) /\ dataSent'[t] = d + 1
      BY <1>1, <1>5 DEF TypeOK
    <3>5. QED
      BY <2>2, <3>3, <3>4 DEF s, r, Sent
  <2>3. QED
    BY <2>1, <2>2
<1>8. FullNoted'
  BY <1>1 DEF FullNoted
<1>9. QED
  BY <1>1, <1>6, <1>7, <1>8, OutsideKeeps

LEMMA OutsideIInv ==
    ASSUME IInv,
           \/ \E t \in Tasks : PeerEof(t) \/ \E answer \in Answers : PeerAnswers(t, answer)
           \/ PeerHangsUp \/ Block \/ Unblock
    PROVE  IInv'
<1> USE DEF IInv
<1>1. ASSUME NEW t \in Tasks, PeerEof(t) \/ \E answer \in Answers : PeerAnswers(t, answer)
      PROVE  IInv'
  <2>1. PICK packet :
          /\ socket' = [socket EXCEPT ![t] = packet]
          /\ \/ packet = [socket[t] EXCEPT !.eof = TRUE]
             \/ \E answer \in Answers : packet = [socket[t] EXCEPT !.answer = answer]
    BY <1>1 DEF PeerEof, PeerAnswers, Send
  <2>2. /\ UNCHANGED <<taskVars, spinning, sshVars, writable, congested, hungUp, robbed,
                       dataSent>>
        /\ atPeer' \subseteq Tasks /\ eofSent' \subseteq Tasks
    BY <1>1 DEF PeerEof, PeerAnswers, Send, TypeOK
  <2>3. socket[t] \in Box
    BY DEF TypeOK
  <2>4. packet \in Box /\ packet.data = socket[t].data
    BY <2>1, <2>3 DEF Box
  <2>5. TypeOK'
    BY <2>1, <2>2, <2>4 DEF TypeOK, taskVars, sshVars
  <2>6. BytesInOrder'
    <3>1. \A u \in Tasks : socket'[u].data = socket[u].data /\ box' = box
      BY <2>1, <2>2, <2>4 DEF TypeOK, sshVars
    <3>2. QED
      BY <2>2, <3>1, BytesStay DEF taskVars
  <2>7. FullNoted'
    BY <2>2 DEF FullNoted
  <2>8. QED
    BY <2>2, <2>5, <2>6, <2>7, OutsideKeeps
<1>2. CASE PeerHangsUp \/ Block \/ Unblock
  <2>1. /\ UNCHANGED <<taskVars, spinning, sshVars, socket, dataSent, robbed, atPeer, eofSent>>
        /\ congested => congested'
        /\ hungUp' \in BOOLEAN /\ writable' \in BOOLEAN /\ congested' \in BOOLEAN
        /\ FullNoted'
    BY <1>2 DEF PeerHangsUp, Block, Unblock, peerVars, FullNoted, TypeOK
  <2>2. TypeOK'
    BY <2>1 DEF TypeOK, taskVars, sshVars
  <2>3. BytesInOrder'
    BY <2>1, BytesStay DEF taskVars, sshVars
  <2>4. QED
    BY <2>1, <2>2, <2>3, OutsideKeeps
<1>3. QED
  BY <1>1, <1>2

LEMMA NextIInv == IInv /\ [Next]_vars => IInv'
<1> SUFFICES ASSUME IInv, [Next]_vars PROVE IInv'
  OBVIOUS
<1>1. CASE Next
  <2>1. ASSUME NEW t \in Tasks, NEW o \in OpsOf[t], Start(t, o) PROVE IInv'
    BY <2>1, StartIInv
  <2>2. ASSUME NEW t \in Tasks, Resume(t) \/ WaitFails(t) PROVE IInv'
    BY <2>2, TurnIInv, WaitIInv DEF Resume
  <2>3. ASSUME NEW t \in Tasks, PeerSends(t) PROVE IInv'
    BY <2>3, PeerSendsIInv
  <2>4. ASSUME \/ \E t \in Tasks : PeerEof(t) \/ \E answer \in Answers : PeerAnswers(t, answer)
               \/ PeerHangsUp \/ Block \/ Unblock
        PROVE  IInv'
    BY <2>4, OutsideIInv
  <2>5. QED
    BY <1>1, <2>1, <2>2, <2>3, <2>4 DEF Next
<1>2. CASE UNCHANGED vars
  <2>1. /\ UNCHANGED <<taskVars, spinning, sshVars, socket, writable, congested, peerVars,
                       robbed>>
    BY <1>2 DEF vars
  <2>2. TypeOK' /\ FullNoted'
    BY <2>1 DEF IInv, TypeOK, FullNoted, taskVars, sshVars, peerVars
  <2>3. BytesInOrder'
    BY <2>1, BytesStay DEF IInv, taskVars, sshVars, peerVars
  <2>4. QED
    BY <2>1, <2>2, <2>3, OutsideKeeps DEF IInv
<1>3. QED
  BY <1>1, <1>2

-----------------------------------------------------------------------------
(* Answers: there is one to each request. *)

(* The connection is lost because the peer hung up. *)
LostHungUp == ~alive => hungUp

(* t has asked and has no answer yet. *)
Pending(t) ==
    /\ Needs(op[t]) = "answer" /\ handed[t] /\ box[t].answer = "none"
    /\ running[t] \/ result[t] = "wait_failed"

(* A request is on its way, at the peer, or answered, and no two of these. *)
AnswerOnce(t) ==
    /\ t \in atPeer /\ ~hungUp => Pending(t) /\ socket[t].answer = "none"
    /\ socket[t].answer # "none" => Pending(t)
    /\ t \in unsent /\ handed[t] /\ Needs(op[t]) = "answer" /\ ~hungUp =>
            Pending(t) /\ socket[t].answer = "none" /\ t \notin atPeer
    /\ ~handed[t] \/ Needs(op[t]) # "answer" => box[t].answer = "none"

AnswersOnce == \A t \in Tasks : AnswerOnce(t)

SInv == LostHungUp /\ AnswersOnce /\ SuccessEarned

LEMMA SessionOpsAsk ==
    ASSUME NEW o \in SessionOps
    PROVE  Needs(o) = "answer" /\ LoopOf(o) = "do_op_"
<1>1. o \notin Auths /\ o \notin Notices \cup MessageReplies \cup {"write_some", "write"}
  BY DEF SessionOps, Auths, Notices, MessageReplies
<1>2. o \notin {"read_some", "read", "get_message"}
  BY DEF SessionOps
<1>3. o \notin Opens \cup Requests \cup Notices
  BY DEF SessionOps, Opens, Requests, Notices
<1>4. Needs(o) = "answer"
  BY <1>1, <1>2 DEF Needs
<1>5. LoopOf(o) = "do_op_"
  BY <1>1, <1>2, <1>3 DEF LoopOf, SessionOps, Transfers
<1>6. QED
  BY <1>4, <1>5

(* An operation that asks does not return without an answer while the      *)
(* connection is up, and do_op_ returns success only on "yes".             *)
LEMMA AnsweredTurn ==
    ASSUME IInv, NEW t \in Tasks, Turn(t), ~running'[t], Needs(op[t]) = "answer"
    PROVE  /\ StillAlive => Processed(t).answer # "none"
           /\ op[t] \in SessionOps /\ result'[t] = "success" => Processed(t).answer = "yes"
<1> USE DEF IInv
<1>1. PICK r \in Call(t) :
        \/ \E ec \in Verdict(LoopOf(op[t]), r.rc) : Return(t, ec)
        \/ \E flags \in ssh_get_poll_flags(Flushed(t)) :
              \/ flags = {} /\ \E ec \in Quiet(LoopOf(op[t])) : Return(t, ec)
              \/ Suspend(t, flags)
  BY DEF Turn
<1>2. r \in Answered(t)
  <2>1. op[t] \notin Notices \cup MessageReplies
          /\ op[t] \notin {"read_some", "read", "write_some", "write", "get_message"}
    BY DEF Needs
  <2>2. QED
    BY <2>1 DEF Call
<1>3. /\ r.rc = "SSH_OK" => Processed(t).answer # "none"
      /\ r.rc = "SSH_OK" /\ op[t] \notin Auths => Processed(t).answer = "yes"
      /\ r.rc \in {"SSH_OK", "SSH_ERROR", "SSH_AGAIN"}
      /\ r.rc # "SSH_OK" => Processed(t).answer # "none" \/ r.rc \in Unsettled
  BY <1>2 DEF Answered, Reply, Unsettled
<1>4. running[t] /\ running \in [Tasks -> BOOLEAN] /\ result \in [Tasks -> ErrorCodes]
  BY DEF Turn, TypeOK
<1>5. CASE \E ec \in Verdict(LoopOf(op[t]), r.rc) : Return(t, ec)
  <2>1. PICK ec \in Verdict(LoopOf(op[t]), r.rc) : Return(t, ec)
    BY <1>5
  <2>2. result'[t] = ec
    BY <1>4, <2>1 DEF Return
  <2>3. StillAlive => Processed(t).answer # "none"
    <3>1. r.rc # "SSH_AGAIN"
      BY <2>1 DEF Verdict
    <3>2. QED
      BY <1>3, <3>1 DEF Unsettled
  <2>4. op[t] \in SessionOps /\ ec = "success" => Processed(t).answer = "yes"
    <3> SUFFICES ASSUME op[t] \in SessionOps, ec = "success"
                 PROVE  Processed(t).answer = "yes"
      OBVIOUS
    <3>1. LoopOf(op[t]) = "do_op_" /\ op[t] \notin Auths
      BY SessionOpsAsk DEF SessionOps, Auths
    <3>2. r.rc = "SSH_OK"
      BY <1>3, <2>1, <3>1 DEF Verdict, ErrorCode
    <3>3. QED
      BY <1>3, <3>1, <3>2
  <2>5. QED
    BY <2>2, <2>3, <2>4
<1>6. ASSUME NEW flags \in ssh_get_poll_flags(Flushed(t)), flags = {},
             NEW ec \in Quiet(LoopOf(op[t])), Return(t, ec)
      PROVE  ~StillAlive /\ result'[t] # "success"
  <2>1. result'[t] = ec /\ ec # "success"
    BY <1>4, <1>6 DEF Return, Quiet
  <2>2. QED
    BY <1>6, <2>1, AwaitType
<1>7. ASSUME NEW flags, Suspend(t, flags) PROVE FALSE
  BY <1>4, <1>7 DEF Suspend
<1>8. QED
  BY <1>1, <1>5, <1>6, <1>7

LEMMA InitSInv == Init => SInv
BY DEF Init, SInv, LostHungUp, AnswersOnce, AnswerOnce, SuccessEarned, Empty, SessionOps

LEMMA TurnSInv ==
    ASSUME IInv, SInv, NEW t \in Tasks, Turn(t)
    PROVE  SInv'
<1> USE DEF SInv
<1>1. /\ running[t] /\ waits[t] = {} /\ TypeOK
      /\ handed' = [handed EXCEPT ![t] = Needs(op[t]) # "data"]
      /\ unsent' = Flushed(t)
      /\ atPeer' = IF writable THEN atPeer \cup Asked(t) ELSE atPeer
      /\ alive' = StillAlive
      /\ socket' = [u \in Tasks |-> Empty]
      /\ UNCHANGED <<op, hungUp>>
  BY DEF Turn, IInv
<1>2. LostHungUp'
  BY <1>1 DEF LostHungUp, StillAlive, TypeOK
<1>3. \A u \in Tasks : box'[u].answer = Processed(u).answer
  BY TurnBytes
<1>4. \A u \in Tasks : socket[u].answer = "none" => Processed(u).answer = box[u].answer
  BY DEF Processed
<1>5. \A u \in Tasks : socket'[u].answer = "none"
  BY <1>1 DEF Empty
<1>6. \A u \in Tasks \ {t} : running'[u] = running[u] /\ result'[u] = result[u]
  <2>1. ASSUME NEW ec, Return(t, ec)
        PROVE  \A u \in Tasks \ {t} : running'[u] = running[u] /\ result'[u] = result[u]
    BY <1>1, <2>1 DEF Return, TypeOK
  <2>2. ASSUME NEW flags, Suspend(t, flags)
        PROVE  \A u \in Tasks \ {t} : running'[u] = running[u] /\ result'[u] = result[u]
    BY <2>2 DEF Suspend
  <2>3. QED
    BY <2>1, <2>2, TurnEnds
<1>7. ASSUME NEW u \in Tasks \ {t}
      PROVE  AnswerOnce(u)' /\ (op[u] \in SessionOps /\ ~running'[u] /\ result'[u] = "success"
                                  => box'[u].answer = "yes")
  <2>1. /\ handed'[u] = handed[u] /\ op'[u] = op[u] /\ hungUp' = hungUp
        /\ running'[u] = running[u] /\ result'[u] = result[u] /\ socket'[u].answer = "none"
        /\ socket[u].answer = "none" => box'[u].answer = box[u].answer
    BY <1>1, <1>3, <1>4, <1>5, <1>6 DEF TypeOK
  <2>2. AnswerOnce(u)
    BY DEF AnswersOnce
  <2>3. u \in unsent' => u \in unsent /\ ~writable
    BY <1>1 DEF Flushed, Output
  <2>4. u \in atPeer' =>
           \/ u \in atPeer
           \/ writable /\ u \in unsent /\ handed[u] /\ Needs(op[u]) = "answer"
    BY <1>1 DEF Asked, Output
  <2>5. u \in atPeer' /\ ~writable => u \in atPeer
    BY <1>1
  <2>6. AnswerOnce(u)'
    BY <2>1, <2>2, <2>3, <2>4, <2>5 DEF AnswerOnce, Pending
  <2>7. op[u] \in SessionOps /\ ~running'[u] /\ result'[u] = "success" =>
            box'[u].answer = "yes"
    BY <2>1, <2>2 DEF AnswerOnce, Pending, SuccessEarned
  <2>8. QED
    BY <2>6, <2>7
<1>8. AnswerOnce(t)'
  <2>1. AnswerOnce(t)
    BY DEF AnswersOnce
  <2>2. /\ handed'[t] = (Needs(op[t]) # "data") /\ op'[t] = op[t] /\ hungUp' = hungUp
        /\ socket'[t].answer = "none" /\ box'[t].answer = Processed(t).answer
        /\ socket[t].answer = "none" => box'[t].answer = box[t].answer
    BY <1>1, <1>3, <1>4, <1>5 DEF TypeOK
  <2>3. CASE Needs(op[t]) # "answer"
    <3>1. t \notin Asked(t)
      BY <2>3 DEF Asked
    <3>2. t \in atPeer' => t \in atPeer
      BY <1>1, <3>1
    <3>3. QED
      BY <2>1, <2>2, <2>3, <3>2 DEF AnswerOnce, Pending
  <2>4. CASE Needs(op[t]) = "answer"
    <3>1. ~hungUp /\ Processed(t).answer = "none" => running'[t]
      BY <2>4, AnsweredTurn DEF StillAlive, LostHungUp
    <3>2. t \in atPeer' \/ t \in unsent' => t \in atPeer \/ ~handed[t] \/ t \in unsent
      BY <1>1 DEF Asked, Output, Flushed
    <3>3. t \in atPeer' /\ ~hungUp => socket[t].answer = "none" /\ box[t].answer = "none"
      BY <1>1, <2>1, <2>4, <3>2 DEF AnswerOnce, Pending
    <3>4. t \in unsent' /\ ~hungUp => /\ socket[t].answer = "none" /\ box[t].answer = "none"
                                      /\ t \notin atPeer'
      <4> SUFFICES ASSUME t \in unsent', ~hungUp
                   PROVE  /\ socket[t].answer = "none" /\ box[t].answer = "none"
                          /\ t \notin atPeer'
        OBVIOUS
      <4>1. ~writable /\ atPeer' = atPeer /\ (t \in unsent \/ ~handed[t])
        BY <1>1 DEF Flushed, Output
      <4>2. QED
        BY <2>1, <2>4, <4>1 DEF AnswerOnce, Pending
    <3>5. QED
      BY <2>2, <2>4, <3>1, <3>3, <3>4 DEF AnswerOnce, Pending
  <2>5. QED
    BY <2>3, <2>4
<1>9. op[t] \in SessionOps /\ ~running'[t] /\ result'[t] = "success" => box'[t].answer = "yes"
  BY <1>3, AnsweredTurn, SessionOpsAsk
<1>10. AnswersOnce'
  BY <1>7, <1>8 DEF AnswersOnce
<1>11. SuccessEarned'
  BY <1>1, <1>7, <1>9 DEF SuccessEarned
<1>12. QED
  BY <1>2, <1>10, <1>11

LEMMA StartSInv ==
    ASSUME IInv, SInv, NEW t \in Tasks, NEW o \in OpsOf[t], Start(t, o)
    PROVE  SInv'
<1> USE DEF SInv
<1>1. /\ ~running[t] /\ result[t] # "wait_failed" /\ TypeOK
      /\ op' = [op EXCEPT ![t] = o] /\ running' = [running EXCEPT ![t] = TRUE]
      /\ handed' = [handed EXCEPT ![t] = FALSE] /\ box' = [box EXCEPT ![t].answer = "none"]
      /\ UNCHANGED <<result, unsent, alive, socket, atPeer, hungUp>>
  BY DEF Start, IInv, peerVars
<1>2. box'[t].answer = "none"
  BY <1>1 DEF TypeOK, Box
<1>3. AnswerOnce(t)'
  BY <1>1, <1>2 DEF AnswersOnce, AnswerOnce, Pending, TypeOK
<1>4. \A u \in Tasks \ {t} : AnswerOnce(u)'
  BY <1>1 DEF AnswersOnce, AnswerOnce, Pending, TypeOK
<1>5. SuccessEarned'
  BY <1>1 DEF SuccessEarned, TypeOK
<1>6. QED
  BY <1>1, <1>3, <1>4, <1>5 DEF LostHungUp, AnswersOnce

LEMMA OtherSInv ==
    ASSUME IInv, SInv,
           \/ \E t \in Tasks : \/ \E w \in waits[t] : Ready(t, w)
                               \/ WaitFails(t) \/ PeerSends(t) \/ PeerEof(t)
           \/ PeerHangsUp \/ Block \/ Unblock \/ UNCHANGED vars
    PROVE  SInv'
<1> USE DEF SInv
<1>1. ASSUME UNCHANGED <<op, running, result, handed, box, unsent, alive, atPeer>>,
             hungUp => hungUp', \A u \in Tasks : socket'[u].answer = socket[u].answer
      PROVE  SInv'
  BY <1>1 DEF LostHungUp, AnswersOnce, AnswerOnce, Pending, SuccessEarned
<1>2. ASSUME NEW t \in Tasks, PeerSends(t) \/ PeerEof(t) PROVE SInv'
  <2>1. PICK packet : /\ socket' = [socket EXCEPT ![t] = packet]
                      /\ \/ packet = [socket[t] EXCEPT !.eof = TRUE]
                         \/ \E d : packet = [socket[t] EXCEPT !.data = d]
    BY <1>2 DEF PeerSends, PeerEof, Send
  <2>2. packet.answer = socket[t].answer
    BY <2>1 DEF IInv, TypeOK, Box
  <2>3. \A u \in Tasks : socket'[u].answer = socket[u].answer
    BY <2>1, <2>2 DEF IInv, TypeOK
  <2>4. QED
    BY <1>1, <1>2, <2>3 DEF PeerSends, PeerEof, Send, taskVars, sshVars
<1>3. ASSUME NEW t \in Tasks, \E w \in waits[t] : Ready(t, w) PROVE SInv'
  BY <1>1, <1>3 DEF Ready, sshVars, peerVars
<1>4. ASSUME NEW t \in Tasks, WaitFails(t) PROVE SInv'
  <2>1. /\ running' = [running EXCEPT ![t] = FALSE]
        /\ result' = [result EXCEPT ![t] = "wait_failed"]
        /\ UNCHANGED <<op, handed, box, unsent, alive, atPeer, socket, hungUp>>
    BY <1>4 DEF WaitFails, sshVars, peerVars
  <2>2. AnswersOnce'
    BY <2>1 DEF AnswersOnce, AnswerOnce, Pending, IInv, TypeOK
  <2>3. SuccessEarned' /\ LostHungUp'
    BY <2>1 DEF SuccessEarned, LostHungUp, IInv, TypeOK
  <2>4. QED
    BY <2>2, <2>3
<1>5. CASE PeerHangsUp \/ Block \/ Unblock \/ UNCHANGED vars
  BY <1>1, <1>5 DEF PeerHangsUp, Block, Unblock, vars, taskVars, sshVars, peerVars
<1>6. QED
  BY <1>2, <1>3, <1>4, <1>5

LEMMA AnswersSInv ==
    ASSUME IInv, SInv, NEW t \in Tasks, NEW answer \in Answers, PeerAnswers(t, answer)
    PROVE  SInv'
<1> USE DEF SInv
<1>1. /\ t \in atPeer /\ ~hungUp /\ atPeer' = atPeer \ {t}
      /\ socket' = [socket EXCEPT ![t] = [socket[t] EXCEPT !.answer = answer]]
      /\ UNCHANGED <<op, running, result, handed, box, unsent, alive, hungUp>>
  BY DEF PeerAnswers, Send, taskVars, sshVars
<1>2. \A u \in Tasks \ {t} : AnswerOnce(u)'
  BY <1>1 DEF AnswersOnce, AnswerOnce, Pending, IInv, TypeOK
<1>3. AnswerOnce(t)'
  BY <1>1 DEF AnswersOnce, AnswerOnce, Pending
<1>4. SuccessEarned' /\ LostHungUp'
  BY <1>1 DEF SuccessEarned, LostHungUp
<1>5. QED
  BY <1>2, <1>3, <1>4 DEF AnswersOnce

LEMMA NextSInv == IInv /\ SInv /\ [Next]_vars => SInv'
<1> SUFFICES ASSUME IInv, SInv, [Next]_vars PROVE SInv'
  OBVIOUS
<1>1. ASSUME NEW t \in Tasks, NEW o \in OpsOf[t], Start(t, o) PROVE SInv'
  BY <1>1, StartSInv
<1>2. ASSUME NEW t \in Tasks, Turn(t) PROVE SInv'
  BY <1>2, TurnSInv
<1>3. ASSUME NEW t \in Tasks, NEW answer \in Answers, PeerAnswers(t, answer) PROVE SInv'
  BY <1>3, AnswersSInv
<1>4. QED
  BY <1>1, <1>2, <1>3, OtherSInv DEF Next, Resume

-----------------------------------------------------------------------------
(* Theorems. *)

(* The inductive invariant holds in every state the loops can reach. *)
THEOREM Invariance == Spec => []IInv
BY InitIInv, NextIInv, PTL DEF Spec

(***************************************************************************)
(* The variables have their types: in particular read and write never move *)
(* more than the buffer they were given, whatever sizes libssh returns.    *)
(***************************************************************************)
THEOREM TypeCorrect == Spec => []TypeOK
<1>1. IInv => TypeOK
  BY DEF IInv
<1>2. QED
  BY Invariance, <1>1, PTL

(* No byte of a channel is lost, doubled or reordered by read_some and     *)
(* read, whoever makes libssh read the socket.                             *)
THEOREM BytesKept == Spec => []BytesInOrder
<1>1. IInv => BytesInOrder
  BY DEF IInv
<1>2. QED
  BY Invariance, <1>1, PTL

(* Only get_exit_state, do_some_io_ and do_io_ can keep the thread, and    *)
(* only without a connection.                                              *)
THEOREM OthersDoNotSpin == Spec => []OnlyIoSpins
<1>1. IInv => OnlyIoSpins
  BY DEF IInv
<1>2. QED
  BY Invariance, <1>1, PTL

(* The timer of do_some_io_ keeps other coroutines from taking the wake-up *)
(* of a reader, as long as the socket takes output.                        *)
THEOREM TimerSavesReader == Spec => []ReaderNotRobbed
<1>1. IInv => ReaderNotRobbed
  BY DEF IInv
<1>2. QED
  BY Invariance, <1>1, PTL

(* That WholeBufferReturns fails is no matter of the instance: whatever    *)
(* the buffer and the peer, a read or write of a whole buffer does not     *)
(* succeed on a connection that is up (the lambdas of channel::read and    *)
(* write, and do_io_).                                                     *)
THEOREM WholeBufferNeverDone == Spec => []TransferNeverDone
<1>1. IInv => TransferNeverDone
  BY DEF IInv
<1>2. QED
  BY Invariance, <1>1, PTL

(* A key exchange or a cancel_forward that reports success was granted:    *)
(* the check of do_op_ for an error without a code is what it takes.       *)
THEOREM SuccessIsEarned == Spec => []SuccessEarned
<1>1. SInv => SuccessEarned
  BY DEF SInv
<1>2. QED
  BY Invariance, InitSInv, NextSInv, <1>1, PTL DEF Spec
=============================================================================
