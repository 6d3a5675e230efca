------------------------- MODULE SftpListingProofs --------------------------
(* Theorems about reading a directory: no entry is lost or read twice, and *)
(* reads that take turns see them in order.                                *)
EXTENDS SftpFilesProofs, FiniteSetTheorems

-----------------------------------------------------------------------------
(* Where an entry is, by kind of place. *)

Sent(e) == {q \in requests : q.op = "readdir" /\ q.opening = opens
                               /\ \E i \in 1 .. Len(q.data) : q.data[i] = e}
Taken(e) == {q \in Sent(e) : reader[q.by].at = "waiting"}
Held(e) == {i \in 1 .. Len(buffer_) : buffer_[i] = e}
Given(e) == {i \in 1 .. Len(listed) : listed[i].entry = e}

Nowhere(e) == Sent(e) = {} /\ Held(e) = {} /\ Given(e) = {}

Once(e) ==
    \/ (\E q : Sent(e) = {q}) /\ Held(e) = {} /\ Given(e) = {}
    \/ Sent(e) = {} /\ (\E i : Held(e) = {i}) /\ Given(e) = {}
    \/ Sent(e) = {} /\ Held(e) = {} /\ \E i : Given(e) = {i}

(* To be somewhere once is to have one place, or none if the answer that  *)
(* has the entry is one nobody waits for.                                  *)
LEMMA OnceIsOne ==
    ASSUME NEW e, Once(e)
    PROVE  /\ Cardinality(Places(e)) \in {0, 1}
           /\ Taken(e) = Sent(e) => Cardinality(Places(e)) = 1
<1>1. Places(e) = {<<"sent", q>> : q \in Taken(e)} \cup {<<"held", i>> : i \in Held(e)}
                    \cup {<<"listed", i>> : i \in Given(e)}
  <2>1. Taken(e) = {q \in requests : q.op = "readdir" /\ q.opening = opens
                                     /\ reader[q.by].at = "waiting"
                                     /\ \E i \in 1 .. Len(q.data) : q.data[i] = e}
    BY DEF Taken, Sent
  <2>2. QED
    BY <2>1 DEF Places, Held, Given
<1>2. Taken(e) \subseteq Sent(e)
  BY DEF Taken
<1>3. \/ \E x : Places(e) = {x}
      \/ Places(e) = {} /\ Taken(e) # Sent(e)
  <2> HIDE DEF Sent, Held, Given, Taken
  <2>1. CASE (\E q : Sent(e) = {q}) /\ Held(e) = {} /\ Given(e) = {}
    <3>1. PICK q : Sent(e) = {q}
      BY <2>1
    <3>2. CASE Taken(e) = {}
      BY <1>1, <2>1, <3>1, <3>2
    <3>3. CASE Taken(e) # {}
      <4>1. Taken(e) = {q}
        BY <1>2, <3>1, <3>3
      <4>2. Places(e) = {<<"sent", q>>}
        BY <1>1, <2>1, <4>1
      <4>3. QED
        BY <4>2
    <3>4. QED
      BY <3>2, <3>3
  <2>2. CASE Sent(e) = {} /\ (\E i : Held(e) = {i}) /\ Given(e) = {}
    <3>1. PICK i : Held(e) = {i}
      BY <2>2
    <3>2. Places(e) = {<<"held", i>>}
      BY <1>1, <1>2, <2>2, <3>1
    <3>3. QED
      BY <3>2
  <2>3. CASE Sent(e) = {} /\ Held(e) = {} /\ \E i : Given(e) = {i}
    <3>1. PICK i : Given(e) = {i}
      BY <2>3
    <3>2. Places(e) = {<<"listed", i>>}
      BY <1>1, <1>2, <2>3, <3>1
    <3>3. QED
      BY <3>2
  <2>4. QED
    BY <2>1, <2>2, <2>3 DEF Once
<1>4. QED
  BY <1>3, FS_Singleton, FS_EmptySet

-----------------------------------------------------------------------------
(* The inductive invariant. *)

(* Entries that the iterator of the directory has passed are somewhere,    *)
(* once, and the others are nowhere yet.                                   *)
Passed(h) ==
    /\ \A e \in dirs[h].next .. Entries : Nowhere(e)
    /\ \A e \in 1 .. dirs[h].next - 1 : Once(e)

(* Reads belong to the last opening, which is open if none was cut off. *)
WhileOpen == \A r \in Readers : Busy(r) => app # "opening" /\ (cutOff \/ app = "dir")

EntryInv ==
    /\ WhileOpen
    /\ app = "opening" => /\ buffer_ = <<>> /\ listed = <<>>
                          /\ \A q \in requests : q.op = "readdir" => q.opening # opens
    /\ \A q \in requests : q.op \in {"open", "opendir"} /\ q.at = "link" =>
                             \A h \in DOMAIN dirs : dirs[h].opening # opens
    /\ \A g, h \in DOMAIN dirs : dirs[g].opening = dirs[h].opening => g = h
    /\ \A q \in requests : q.op = "readdir" =>
                             \A i, j \in 1 .. Len(q.data) : q.data[i] = q.data[j] => i = j
    /\ ~scanFailed => \A h \in DOMAIN dirs : dirs[h].opening = opens => Passed(h)

ListInv == FilesInv /\ EntryInv

-----------------------------------------------------------------------------
(* Steps that move no entry. *)

(* Requests without entries are no places. *)
LEMMA SamePlaces ==
    ASSUME UNCHANGED <<opens, buffer_, listed>>,
           \A q : q.op = "readdir" /\ q.data # <<>> => (q \in requests' <=> q \in requests)
    PROVE  \A e : (Nowhere(e)' <=> Nowhere(e)) /\ (Once(e)' <=> Once(e))
<1> SUFFICES ASSUME NEW e PROVE (Nowhere(e)' <=> Nowhere(e)) /\ (Once(e)' <=> Once(e))
  OBVIOUS
<1>1. \A q : (\E i \in 1 .. Len(q.data) : q.data[i] = e) => q.data # <<>>
  OBVIOUS
<1>2. Sent(e)' = Sent(e)
  BY <1>1 DEF Sent
<1>3. Held(e)' = Held(e) /\ Given(e)' = Given(e)
  BY DEF Held, Given
<1>4. QED
  BY <1>2, <1>3 DEF Nowhere, Once

LEMMA SameEntries ==
    ASSUME EntryInv, UNCHANGED <<opens, buffer_, listed, scanFailed>>,
           DOMAIN dirs' \subseteq DOMAIN dirs,
           \A h \in DOMAIN dirs' : dirs'[h] = dirs[h],
           \A q : q.op = "readdir" /\ q.data # <<>> => (q \in requests' <=> q \in requests),
           \A q \in requests' : q.op \in {"open", "opendir"} /\ q.at = "link" => q \in requests,
           WhileOpen',
           app' = "opening" => /\ app = "opening"
                               /\ \A q \in requests' : q.op = "readdir" => q.opening # opens
    PROVE  EntryInv'
<1>1. \A e : (Nowhere(e)' <=> Nowhere(e)) /\ (Once(e)' <=> Once(e))
  BY SamePlaces
<1>2. \A q \in requests' : q.op = "readdir" =>
                             \A i, j \in 1 .. Len(q.data) : q.data[i] = q.data[j] => i = j
  BY DEF EntryInv
<1>3. ASSUME ~scanFailed, NEW h \in DOMAIN dirs', dirs'[h].opening = opens
      PROVE  Passed(h)'
  <2>1. Passed(h) /\ dirs'[h] = dirs[h]
    BY <1>3 DEF EntryInv
  <2>2. QED
    BY <1>1, <2>1 DEF Passed
<1>4. \A q \in requests' : q.op \in {"open", "opendir"} /\ q.at = "link" =>
                             \A h \in DOMAIN dirs' : dirs'[h].opening # opens
  BY DEF EntryInv
<1>5. \A g, h \in DOMAIN dirs' : dirs'[g].opening = dirs'[h].opening => g = h
  BY DEF EntryInv
<1>6. app' = "opening" => buffer_ = <<>> /\ listed = <<>>
  BY DEF EntryInv
<1>7. QED
  BY <1>2, <1>3, <1>4, <1>5, <1>6 DEF EntryInv

(* The calls of the application, and what becomes of its transfers. *)
LEMMA AppRequests ==
    ASSUME FilesInv,
           \/ Close \/ TransferReturns \/ TransferCancelled
           \/ \E q \in requests : \/ Opened(q) \/ Closed(q)
                                  \/ \E k \in Pieces : PieceReturns(k, q)
    PROVE  /\ \A q : q.op = "readdir" => (q \in requests' <=> q \in requests)
           /\ \A q \in requests' : q.op \in {"open", "opendir"} => q \in requests
<1>1. CASE Close
  <2>1. Ask(App, "close", 0, 0, <<>>).op = "close"
    BY DEF Ask
  <2>2. QED
    BY <1>1, <2>1 DEF Close
<1>2. CASE TransferReturns \/ TransferCancelled
  BY <1>2 DEF TransferReturns, TransferCancelled
<1>3. ASSUME NEW q \in requests, \/ Opened(q) \/ Closed(q)
                                 \/ \E k \in Pieces : PieceReturns(k, q)
      PROVE  q.op # "readdir" /\ requests' = requests \ {q}
  <2>1. q.by = App \/ q.by \in Pieces
    BY <1>3 DEF Opened, Closed, PieceReturns
  <2>2. GoodRequest(q)
    BY DEF FilesInv, RequestInv
  <2>3. QED
    BY <1>3, <2>1, <2>2 DEF Opened, Closed, PieceReturns, Answered, GoodRequest, AppOps, FileOps
<1>4. QED
  BY <1>1, <1>2, <1>3

LEMMA AppEntries ==
    ASSUME ListInv,
           \/ Close \/ TransferReturns \/ TransferCancelled
           \/ \E q \in requests : \/ Opened(q) \/ Closed(q)
                                  \/ \E k \in Pieces : PieceReturns(k, q)
    PROVE  EntryInv'
<1>1. FilesInv /\ EntryInv
  BY DEF ListInv
<1>2. /\ UNCHANGED <<opens, reader, buffer_, listed, dirs, scanFailed>>
      /\ app' = "opening" => app = "opening" /\ requests' \subseteq requests
  BY DEF Close, TransferReturns, TransferCancelled, Opened, Closed, PieceReturns, Answered,
         dirVars, fileVars, serverVars
<1>3. /\ \A q : q.op = "readdir" => (q \in requests' <=> q \in requests)
      /\ \A q \in requests' : q.op \in {"open", "opendir"} => q \in requests
  BY <1>1, AppRequests
<1>4. ASSUME NEW r \in Readers, Busy(r)' PROVE app' # "opening" /\ (cutOff' \/ app' = "dir")
  <2>1. Busy(r) /\ app # "opening" /\ (cutOff \/ app = "dir")
    BY <1>1, <1>2, <1>4 DEF Busy, EntryInv, WhileOpen
  <2>2. CASE Close
    BY <2>1, <2>2 DEF Close
  <2>3. CASE TransferReturns \/ TransferCancelled
    BY <2>1, <2>3 DEF TransferReturns, TransferCancelled
  <2>4. ASSUME NEW q \in requests, \/ Opened(q) \/ Closed(q)
                                   \/ \E k \in Pieces : PieceReturns(k, q)
        PROVE  app' # "opening" /\ (cutOff' \/ app' = "dir")
    BY <2>1, <2>4 DEF Opened, Closed, PieceReturns
  <2>5. QED
    BY <2>2, <2>3, <2>4
<1>5. app' = "opening" => /\ app = "opening"
                          /\ \A q \in requests' : q.op = "readdir" => q.opening # opens
  BY <1>1, <1>2 DEF EntryInv
<1>6. QED
  BY <1>1, <1>2, <1>3, <1>4, <1>5, SameEntries DEF WhileOpen

LEMMA StartTransferEntries ==
    ASSUME ListInv, NEW kind \in {"read", "write"}, NEW offset \in Offsets,
           StartTransfer(kind, offset)
    PROVE  EntryInv'
<1>1. FilesInv /\ EntryInv
  BY DEF ListInv
<1>2. UNCHANGED <<app, opens, reader, buffer_, listed, dirs, scanFailed, cutOff>> /\ app = "file"
  BY DEF StartTransfer, dirVars, serverVars
<1>3. PICK P : /\ requests' = requests \cup {P[k] : k \in Pieces}
               /\ \A k \in Pieces : P[k].op = kind
  BY <1>1, PieceRequests
<1>4. /\ \A q : q.op = "readdir" => (q \in requests' <=> q \in requests)
      /\ \A q \in requests' : q.op \in {"open", "opendir"} => q \in requests
  BY <1>3
<1>5. WhileOpen'
  BY <1>1, <1>2 DEF WhileOpen, Busy, EntryInv
<1>6. QED
  BY <1>1, <1>2, <1>4, <1>5, SameEntries

LEMMA ReadFetchesEntries ==
    ASSUME ListInv, NEW r \in Readers, ReadFetches(r)
    PROVE  EntryInv'
<1>1. FilesInv /\ EntryInv
  BY DEF ListInv
<1>2. UNCHANGED <<app, opens, buffer_, listed, dirs, scanFailed>> /\ app = "dir"
  BY DEF ReadFetches, serverVars
<1>3. PICK c : c = Ask(r, "readdir", 0, 0, <<>>)
  OBVIOUS
<1>4. requests' = requests \cup {c} /\ c.op = "readdir" /\ c.data = <<>>
  BY <1>3 DEF ReadFetches, Ask
<1>5. /\ \A q : q.op = "readdir" /\ q.data # <<>> => (q \in requests' <=> q \in requests)
      /\ \A q \in requests' : q.op \in {"open", "opendir"} => q \in requests
  BY <1>4
<1>6. WhileOpen'
  BY <1>2 DEF WhileOpen
<1>7. QED
  BY <1>1, <1>2, <1>5, <1>6, SameEntries

(* The server answers or serves a request, without entries. *)
LEMMA FurtherEntries ==
    ASSUME ListInv, NEW q \in requests, NEW c, Further(c, q), Becomes(q, c),
           q.op = "readdir" => q.data = <<>> /\ c.data = <<>>,
           UNCHANGED scanFailed, DOMAIN dirs' \subseteq DOMAIN dirs,
           \A h \in DOMAIN dirs' : dirs'[h] = dirs[h]
    PROVE  EntryInv'
<1>1. FilesInv /\ EntryInv
  BY DEF ListInv
<1>2. /\ UNCHANGED <<app, opens, reader, buffer_, listed, cutOff>>
      /\ requests' = (requests \ {q}) \cup {c}
  BY DEF Becomes, dirVars
<1>3. c.op = q.op /\ c.opening = q.opening /\ c.at # "link"
  BY DEF Further
<1>4. /\ \A p : p.op = "readdir" /\ p.data # <<>> => (p \in requests' <=> p \in requests)
      /\ \A p \in requests' : p.op \in {"open", "opendir"} /\ p.at = "link" => p \in requests
  BY <1>2, <1>3
<1>5. WhileOpen'
  BY <1>1, <1>2 DEF WhileOpen, Busy, EntryInv
<1>6. app = "opening" => \A p \in requests' : p.op = "readdir" => p.opening # opens
  BY <1>1, <1>2, <1>3 DEF EntryInv
<1>7. QED
  BY <1>1, <1>2, <1>4, <1>5, <1>6, SameEntries

LEMMA OpenEntries ==
    ASSUME ListInv, NEW op \in {"open", "opendir"}, Open(op)
    PROVE  EntryInv'
<1>1. FilesInv /\ EntryInv
  BY DEF ListInv
<1>2. PICK c : c = [Ask(App, op, 0, 0, <<>>) EXCEPT
                       !.opening = opens', !.transfer = 0, !.handle = NoHandle]
  OBVIOUS
<1>3. /\ c.op = op /\ reader' = NotReading /\ buffer_' = <<>> /\ listed' = <<>>
      /\ requests' = {q \in requests : q.at # "answered"} \cup {c}
      /\ opens' = opens + 1 /\ UNCHANGED <<dirs, scanFailed>>
  BY <1>2 DEF Open, Ask, serverVars
<1>4. ASSUME NEW h \in DOMAIN dirs PROVE dirs[h].opening # opens'
  <2>1. opens \in Nat
    BY <1>1, FilesAssumption DEF FilesInv, TypeOK
  <2>2. dirs[h].opening \in 1 .. opens
    BY <1>1 DEF FilesInv, HandleInv
  <2>3. QED
    BY <1>3, <2>1, <2>2
<1>5. ASSUME NEW q \in requests PROVE q.opening # opens'
  <2>1. opens \in Nat
    BY <1>1, FilesAssumption DEF FilesInv, TypeOK
  <2>2. q.opening \in Nat /\ q.opening <= opens
    BY <1>1 DEF FilesInv, TypeOK, Request, RequestInv, GoodRequest
  <2>3. QED
    BY <1>3, <2>1, <2>2
<1>6. WhileOpen'
  BY <1>3 DEF WhileOpen, Busy, NotReading
<1>7. QED
  BY <1>1, <1>3, <1>4, <1>5, <1>6 DEF EntryInv

(* A request that is answered without entries. *)
LEMMA ReplyEntries ==
    ASSUME ListInv, NEW q \in requests, q.at # "answered", NEW ec \in Errors, Reply(q, ec),
           UNCHANGED scanFailed, DOMAIN dirs' \subseteq DOMAIN dirs,
           \A h \in DOMAIN dirs' : dirs'[h] = dirs[h]
    PROVE  EntryInv'
<1>1. FilesInv /\ q \in Request /\ GoodRequest(q)
  BY DEF ListInv, FilesInv, TypeOK, RequestInv
<1>2. PICK c : c = [q EXCEPT !.at = "answered", !.ec = ec]
  OBVIOUS
<1>3. Further(c, q) /\ Becomes(q, c)
  BY <1>1, <1>2, ReplyFurther DEF Reply
<1>4. c.data = q.data
  BY <1>1, <1>2 DEF Request
<1>5. q.op = "readdir" => q.data = <<>>
  <2>1. q.at \in {"link", "serving"}
    BY <1>1 DEF Request
  <2>2. QED
    BY <1>1, <2>1 DEF GoodRequest, FileOps
<1>6. QED
  BY <1>3, <1>4, <1>5, FurtherEntries

(* Serving a file changes one request, of a file. *)
LEMMA FileServedRequests ==
    ASSUME FilesInv, NEW q \in requests, find(q) \/ read_at(q) \/ write_at(q)
    PROVE  /\ \A p : p.op \notin FileOps => (p \in requests' <=> p \in requests)
           /\ UNCHANGED <<app, handle_, dirVars, opens, cutOff, dirs, scanFailed>>
<1>1. q \in Request
  BY DEF FilesInv, TypeOK
<1>2. q.op \in FileOps /\ UNCHANGED <<dirs, scanFailed>>
  BY DEF find, read_at, write_at, Begin, Serving, FileOps, serverVars
<1>3. \E c : Becomes(q, c) /\ c.op = q.op
  <2>1. ASSUME NEW ec, Reply(q, ec) PROVE \E c : Becomes(q, c) /\ c.op = q.op
    <3>1. [q EXCEPT !.at = "answered", !.ec = ec].op = q.op
      BY <1>1 DEF Request
    <3>2. QED
      BY <2>1, <3>1 DEF Reply
  <2>2. CASE find(q)
    <3>1. [q EXCEPT !.at = "serving"].op = q.op
      BY <1>1 DEF Request
    <3>2. Reply(q, "error") \/ Becomes(q, [q EXCEPT !.at = "serving"])
      BY <2>2 DEF find
    <3>3. QED
      BY <2>1, <3>1, <3>2
  <2>3. CASE read_at(q)
    <3>1. \/ \E ec : Reply(q, ec)
          \/ \E n : Becomes(q, [q EXCEPT !.total = @ + n,
                                !.data = @ \o SubSeq(disk, Position(q) + 1, Position(q) + n)])
      BY <2>3 DEF read_at
    <3>2. ASSUME NEW n, Becomes(q, [q EXCEPT !.total = @ + n,
                                !.data = @ \o SubSeq(disk, Position(q) + 1, Position(q) + n)])
          PROVE  \E c : Becomes(q, c) /\ c.op = q.op
      <4>1. PICK c : c = [q EXCEPT !.total = @ + n,
                             !.data = @ \o SubSeq(disk, Position(q) + 1, Position(q) + n)]
        OBVIOUS
      <4>2. c.op = q.op
        BY <1>1, <4>1 DEF Request
      <4>3. QED
        BY <3>2, <4>1, <4>2
    <3>3. QED
      BY <2>1, <3>1, <3>2
  <2>4. CASE write_at(q)
    <3>1. (\E ec : Reply(q, ec)) \/ \E n : Becomes(q, [q EXCEPT !.total = @ + n])
      BY <2>4 DEF write_at
    <3>2. ASSUME NEW n, Becomes(q, [q EXCEPT !.total = @ + n])
          PROVE  \E c : Becomes(q, c) /\ c.op = q.op
      <4>1. PICK c : c = [q EXCEPT !.total = @ + n]
        OBVIOUS
      <4>2. c.op = q.op
        BY <1>1, <4>1 DEF Request
      <4>3. QED
        BY <3>2, <4>1, <4>2
    <3>3. QED
      BY <2>1, <3>1, <3>2
  <2>5. QED
    BY <2>2, <2>3, <2>4
<1>4. QED
  BY <1>2, <1>3 DEF Becomes

LEMMA FileServedEntries ==
    ASSUME ListInv, NEW q \in requests, find(q) \/ read_at(q) \/ write_at(q)
    PROVE  EntryInv'
<1>1. FilesInv /\ EntryInv
  BY DEF ListInv
<1>2. /\ \A p : p.op \notin FileOps => (p \in requests' <=> p \in requests)
      /\ UNCHANGED <<app, opens, reader, buffer_, listed, dirs, scanFailed, cutOff>>
  BY <1>1, FileServedRequests DEF dirVars
<1>3. WhileOpen'
  BY <1>1, <1>2 DEF WhileOpen, Busy, EntryInv
<1>4. \A p : p.op \in {"open", "opendir", "readdir"} => (p \in requests' <=> p \in requests)
  BY <1>2 DEF FileOps
<1>5. app = "opening" => \A p \in requests' : p.op = "readdir" => p.opening # opens
  BY <1>1, <1>4 DEF EntryInv
<1>6. QED
  BY <1>1, <1>2, <1>3, <1>4, <1>5, SameEntries

LEMMA CloseServedEntries ==
    ASSUME ListInv, NEW q \in requests, close(q)
    PROVE  EntryInv'
<1>1. PICK ec \in Errors : Reply(q, ec)
  BY DEF close, Errors
<1>2. q.at # "answered" /\ UNCHANGED scanFailed
  BY DEF close, Begin
<1>3. DOMAIN dirs' \subseteq DOMAIN dirs /\ \A h \in DOMAIN dirs' : dirs'[h] = dirs[h]
  BY DEF close, Erase
<1>4. QED
  BY <1>1, <1>2, <1>3, ReplyEntries

(* A new directory starts with none of its entries anywhere. *)
LEMMA OpenServedEntries ==
    ASSUME ListInv, NEW q \in requests, open(q)
    PROVE  EntryInv'
<1>1. FilesInv /\ EntryInv
  BY DEF ListInv
<1>2. q.op \in {"open", "opendir"} /\ q.at = "link" /\ UNCHANGED scanFailed
  BY <1>1, OpenCases
<1>3. CASE Reply(q, "error") /\ UNCHANGED <<handle_gen, open_files, dirs>>
  BY <1>2, <1>3, ReplyEntries DEF Errors
<1>4. ASSUME NEW h \in Handles,
             \/ dirs' = dirs
             \/ dirs' = Insert(dirs, h, [opening |-> q.opening, next |-> 1]),
             Becomes(q, [q EXCEPT !.at = "answered", !.handle = h])
      PROVE  EntryInv'
  <2>1. PICK c : c = [q EXCEPT !.at = "answered", !.handle = h]
    OBVIOUS
  <2>2. Further(c, q) /\ Becomes(q, c) /\ c.op = q.op /\ c.at = "answered"
    BY <1>1, <1>2, <1>4, <2>1, HandleFurther DEF Further
  <2>3. CASE dirs' = dirs
    BY <1>2, <2>2, <2>3, FurtherEntries
  <2>4. CASE dirs' = Insert(dirs, h, [opening |-> q.opening, next |-> 1])
    <3>1. /\ UNCHANGED <<app, opens, reader, buffer_, listed, cutOff>>
          /\ requests' = (requests \ {q}) \cup {c}
      BY <2>2 DEF Becomes, dirVars
    <3>2. /\ app = "opening" /\ q.opening = opens /\ buffer_ = <<>> /\ listed = <<>>
          /\ \A p \in requests : p.op = "readdir" => p.opening # opens
          /\ \A g \in DOMAIN dirs : dirs[g].opening # opens
      BY <1>1, <1>2 DEF EntryInv, FilesInv, RequestInv, GoodRequest
    <3>3. /\ DOMAIN dirs' = DOMAIN dirs \cup {h}
          /\ dirs'[h] = [opening |-> opens, next |-> 1]
          /\ \A g \in DOMAIN dirs : g # h => dirs'[g] = dirs[g]
      BY <2>4, <3>2 DEF Insert
    <3>4. \A p \in requests' : p.op = "readdir" => p \in requests
      BY <1>2, <2>2, <3>1
    <3>5. \A g \in DOMAIN dirs' : dirs'[g].opening = opens => g = h
      BY <3>2, <3>3
    <3>6. Passed(h)'
      <4>1. \A e : Sent(e)' = {}
        BY <3>1, <3>2, <3>4 DEF Sent
      <4>2. \A e : Held(e)' = {} /\ Given(e)' = {}
        BY <3>1, <3>2 DEF Held, Given
      <4>3. dirs'[h].next = 1 /\ 1 .. (1 - 1) = {}
        BY <3>3
      <4>4. QED
        BY <4>1, <4>2, <4>3 DEF Passed, Nowhere
    <3>7. ASSUME NEW p \in requests', p.op \in {"open", "opendir"}, p.at = "link"
          PROVE  FALSE
      <4>1. p \in requests /\ p # q
        BY <2>2, <3>1, <3>7
      <4>2. QED
        BY <1>1, <1>2, <3>7, <4>1 DEF FilesInv, OneAppRequest, AppOps
    <3>8. \A f, g \in DOMAIN dirs' : dirs'[f].opening = dirs'[g].opening => f = g
      BY <1>1, <3>2, <3>3 DEF EntryInv
    <3>9. WhileOpen'
      BY <1>1, <3>1 DEF WhileOpen, Busy, EntryInv
    <3>10. \A p \in requests' : p.op = "readdir" =>
                             \A i, j \in 1 .. Len(p.data) : p.data[i] = p.data[j] => i = j
      BY <1>1, <3>4 DEF EntryInv
    <3>11. QED
      BY <3>1, <3>2, <3>4, <3>5, <3>6, <3>7, <3>8, <3>9, <3>10 DEF EntryInv
  <2>5. QED
    BY <1>4, <2>3, <2>4
<1>5. QED
  BY <1>1, <1>3, <1>4, OpenCases

-----------------------------------------------------------------------------
(* Steps that move entries. *)

(* A batch: its entries were nowhere, and are in it once. *)
LEMMA ReaddirEntries ==
    ASSUME ListInv, NEW q \in requests, readdir(q)
    PROVE  EntryInv'
<1>1. FilesInv /\ EntryInv /\ q \in Request /\ GoodRequest(q)
  BY DEF ListInv, FilesInv, TypeOK, RequestInv
<1>2. q.op = "readdir" /\ q.at = "link" /\ q.data = <<>>
  BY <1>1, ReaddirCases DEF GoodRequest
<1>3. CASE \E ec \in Errors : Reply(q, ec) /\ UNCHANGED <<dirs, scanFailed>>
  BY <1>2, <1>3, ReplyEntries
<1>4. CASE /\ q.handle \in DOMAIN dirs
           /\ dirs[q.handle].next \in 1 .. Entries
           /\ \E last \in dirs[q.handle].next .. Entries, fails \in BOOLEAN :
                 /\ dirs' = [dirs EXCEPT ![q.handle].next =
                                IF fails THEN Entries + 1 ELSE last + 1]
                 /\ scanFailed' = (scanFailed \/ fails)
                 /\ Becomes(q, [q EXCEPT !.at = "answered",
                                         !.data = Batch(dirs[q.handle].next, last)])
  <2>1. PICK next, h : next = dirs[q.handle].next /\ h = q.handle
    OBVIOUS
  <2>2. PICK last \in next .. Entries, fails \in BOOLEAN :
             /\ dirs' = [dirs EXCEPT ![h].next = IF fails THEN Entries + 1 ELSE last + 1]
             /\ scanFailed' = (scanFailed \/ fails)
             /\ Becomes(q, [q EXCEPT !.at = "answered", !.data = Batch(next, last)])
    BY <1>4, <2>1
  <2>3. PICK d, c : d = Batch(next, last) /\ c = [q EXCEPT !.at = "answered", !.data = d]
    OBVIOUS
  <2>4. next \in 1 .. Entries /\ h \in DOMAIN dirs
    BY <1>4, <2>1
  <2>5. /\ d \in Seq(1 .. Entries) /\ d \in Seq(Units) /\ Len(d) = last - next + 1
        /\ \A i \in 1 .. last - next + 1 : d[i] = next + i - 1
    BY <2>3, <2>4, BatchType
  <2>6. next \in Nat /\ last \in Nat /\ next <= last /\ last <= Entries
    BY <2>4, FilesAssumption
  <2>7. /\ Further(c, q) /\ c.data = d /\ c.at = "answered" /\ c.op = "readdir"
        /\ c.opening = q.opening /\ c.handle = q.handle
    <3>1. /\ Further(c, q) /\ c.handle = q.handle
          /\ c.at = "answered" /\ c.data = d
      BY <1>1, <1>2, <2>3, <2>5, BatchFurther
    <3>2. QED
      BY <1>2, <3>1 DEF Further
  <2>8. /\ UNCHANGED <<app, opens, reader, buffer_, listed, cutOff>>
        /\ requests' = (requests \ {q}) \cup {c}
    BY <2>2, <2>3 DEF Becomes, dirVars
  <2>9. /\ DOMAIN dirs' = DOMAIN dirs
        /\ dirs'[h] = [dirs[h] EXCEPT !.next = IF fails THEN Entries + 1 ELSE last + 1]
        /\ \A g \in DOMAIN dirs : g # h => dirs'[g] = dirs[g]
    BY <2>2, <2>4
  <2>10. /\ dirs[h] \in [opening : 1 .. opens, next : 1 .. Entries + 1]
         /\ dirs[h].opening = q.opening
    BY <1>1, <2>1, <2>4 DEF FilesInv, HandleInv, Owned
  <2>11. dirs'[h].opening = dirs[h].opening /\ (~fails => dirs'[h].next = last + 1)
    BY <2>9, <2>10
  <2>12. \A i, j \in 1 .. Len(d) : d[i] = d[j] => i = j
    BY <2>5, <2>6
  <2>13. \A p \in requests' : p.op = "readdir" =>
                             \A i, j \in 1 .. Len(p.data) : p.data[i] = p.data[j] => i = j
    BY <1>1, <2>7, <2>8, <2>12 DEF EntryInv
  <2>14. \A p \in requests' : p.op \in {"open", "opendir"} /\ p.at = "link" =>
                             \A g \in DOMAIN dirs' : dirs'[g].opening # opens
    <3>1. \A g \in DOMAIN dirs' : dirs'[g].opening = dirs[g].opening
      BY <2>9, <2>11
    <3>2. \A p \in requests' : p.op \in {"open", "opendir"} /\ p.at = "link" => p \in requests
      BY <2>7, <2>8
    <3>3. QED
      BY <1>1, <2>9, <3>1, <3>2 DEF EntryInv
  <2>15. \A f, g \in DOMAIN dirs' : dirs'[f].opening = dirs'[g].opening => f = g
    BY <1>1, <2>9, <2>11 DEF EntryInv
  <2>16. app = "opening" => \A p \in requests' : p.op = "readdir" => p.opening # opens
    BY <1>1, <1>2, <2>7, <2>8 DEF EntryInv
  <2>17. WhileOpen'
    BY <1>1, <2>8 DEF WhileOpen, Busy, EntryInv
  <2>18. ASSUME NEW e PROVE /\ Held(e)' = Held(e) /\ Given(e)' = Given(e)
                            /\ q \notin Sent(e)
    BY <1>2, <2>8 DEF Held, Given, Sent
  <2>19. ASSUME NEW e, \A i \in 1 .. Len(d) : d[i] # e
         PROVE  Sent(e)' = Sent(e)
    BY <1>2, <2>7, <2>8, <2>19 DEF Sent
  <2>20. ASSUME ~scanFailed', NEW g \in DOMAIN dirs', dirs'[g].opening = opens
         PROVE  Passed(g)'
    <3>1. ~scanFailed /\ ~fails
      BY <2>2, <2>20
    <3>2. dirs[g].opening = opens /\ Passed(g) /\ g \in DOMAIN dirs
      BY <1>1, <2>9, <2>11, <2>20, <3>1 DEF EntryInv
    <3>3. CASE g # h
      <4>1. q.opening # opens
        BY <1>1, <2>4, <2>10, <3>2, <3>3 DEF EntryInv
      <4>2. \A e : Sent(e)' = Sent(e)
        BY <2>7, <2>8, <4>1 DEF Sent
      <4>3. QED
        BY <2>9, <2>18, <3>2, <3>3, <4>2 DEF Passed, Nowhere, Once
    <3>4. CASE g = h
      <4>1. dirs[h].next = next /\ dirs'[h].next = last + 1 /\ q.opening = opens
        BY <2>1, <2>10, <2>11, <3>1, <3>2, <3>4
      <4>2. ASSUME NEW e \in last + 1 .. Entries PROVE Nowhere(e)'
        <5>1. Nowhere(e) /\ \A i \in 1 .. Len(d) : d[i] # e
          <6>1. e \in next .. Entries
            BY <2>6, <4>2
          <6>2. \A i \in 1 .. Len(d) : d[i] # e
            BY <2>5, <2>6, <4>2
          <6>3. QED
            BY <3>2, <3>4, <4>1, <6>1, <6>2 DEF Passed
        <5>2. QED
          BY <2>18, <2>19, <5>1 DEF Nowhere
      <4>3. ASSUME NEW e \in 1 .. last PROVE Once(e)'
        <5>1. CASE e < next
          <6>1. Once(e) /\ \A i \in 1 .. Len(d) : d[i] # e
            <7>1. e \in 1 .. next - 1
              BY <2>6, <4>3, <5>1
            <7>2. \A i \in 1 .. Len(d) : d[i] # e
              BY <2>5, <2>6, <4>3, <5>1
            <7>3. QED
              BY <3>2, <3>4, <4>1, <7>1, <7>2 DEF Passed
          <6>2. QED
            BY <2>18, <2>19, <6>1 DEF Once
        <5>2. CASE ~(e < next)
          <6>1. e \in next .. Entries /\ e - next + 1 \in 1 .. Len(d)
            <7>1. e \in Nat /\ e >= next /\ e <= last /\ Len(d) = last - next + 1
              BY <2>5, <2>6, <4>3, <5>2
            <7>2. Entries \in Nat
              BY FilesAssumption
            <7>3. QED
              BY <2>6, <7>1, <7>2
          <6>2. d[e - next + 1] = e
            BY <2>5, <2>6, <4>3, <6>1
          <6>3. Nowhere(e)
            BY <3>2, <3>4, <4>1, <6>1 DEF Passed
          <6>4. Sent(e)' = {c}
            BY <2>7, <2>8, <4>1, <6>1, <6>2, <6>3 DEF Sent, Nowhere
          <6>5. QED
            BY <2>18, <6>3, <6>4 DEF Once, Nowhere
        <5>3. QED
          BY <5>1, <5>2
      <4>4. 1 .. dirs'[h].next - 1 = 1 .. last
        BY <2>6, <4>1
      <4>5. QED
        BY <3>4, <4>1, <4>2, <4>3, <4>4 DEF Passed
    <3>5. QED
      BY <3>3, <3>4
  <2>21. QED
    BY <1>1, <2>8, <2>13, <2>14, <2>15, <2>16, <2>17, <2>20 DEF EntryInv
<1>5. QED
  BY <1>1, <1>3, <1>4, ReaddirCases

(* The packet arrives: its entries move to the end of the buffer. *)
LEMMA EntriesArriveEntries ==
    ASSUME ListInv, NEW r \in Readers, NEW q \in requests, EntriesArrive(r, q)
    PROVE  EntryInv'
<1>1. FilesInv /\ EntryInv /\ q \in Request /\ GoodRequest(q)
  BY DEF ListInv, FilesInv, TypeOK, RequestInv
<1>2. /\ UNCHANGED <<app, opens, listed, dirs, scanFailed>> /\ requests' = requests \ {q}
      /\ buffer_' = buffer_ \o q.data /\ q.by = r /\ q.opening = opens
      /\ reader[r].at = "waiting"
      /\ reader' = [reader EXCEPT ![r] = [at |-> "completed", ec |-> q.ec]]
  BY DEF EntriesArrive, Answered, Push, serverVars
<1>3. q.op = "readdir" /\ q.data \in Seq(1 .. Entries) /\ buffer_ \in Seq(1 .. Entries)
      /\ \A i, j \in 1 .. Len(q.data) : q.data[i] = q.data[j] => i = j
  BY <1>1, <1>2 DEF GoodRequest, EntryInv, FilesInv, TypeOK
<1>4. WhileOpen' /\ app # "opening"
  <2>1. cutOff' = cutOff /\ Busy(r)
    BY <1>2 DEF EntriesArrive, Busy
  <2>2. \A s \in Readers : Busy(s)' => Busy(s)
    BY <1>1, <1>2, <2>1 DEF Busy, FilesInv, TypeOK
  <2>3. QED
    BY <1>1, <1>2, <2>1, <2>2 DEF EntryInv, WhileOpen
<1>5. PICK b, d : b = Len(buffer_) /\ d = Len(q.data)
  OBVIOUS
<1>6. b \in Nat /\ d \in Nat
  BY <1>3, <1>5
<1>7. /\ Len(buffer_') = b + d
      /\ \A i \in 1 .. b : buffer_'[i] = buffer_[i]
      /\ \A i \in 1 .. d : buffer_'[b + i] = q.data[i]
  BY <1>2, <1>3, <1>5, ConcatProperties
<1>8. ASSUME NEW e
      PROVE  /\ Sent(e)' = Sent(e) \ {q} /\ Given(e)' = Given(e)
             /\ \A i \in Held(e) : i \in Held(e)'
             /\ \A i \in Held(e)' : \/ i \in Held(e)
                                    \/ i - b \in 1 .. d /\ q.data[i - b] = e
             /\ \A i \in 1 .. d : q.data[i] = e => b + i \in Held(e)' /\ q \in Sent(e)
  <2>1. Sent(e)' = Sent(e) \ {q} /\ Given(e)' = Given(e)
    BY <1>2 DEF Sent, Given
  <2>2. \A i \in Held(e) : i \in Held(e)'
    BY <1>5, <1>6, <1>7 DEF Held
  <2>3. ASSUME NEW i \in Held(e)' PROVE i \in Held(e) \/ (i - b \in 1 .. d /\ q.data[i - b] = e)
    <3>1. i \in 1 .. b + d /\ buffer_'[i] = e
      BY <1>7, <2>3 DEF Held
    <3>2. CASE i <= b
      <4>1. i \in 1 .. b
        BY <1>6, <3>1, <3>2
      <4>2. QED
        BY <1>5, <1>7, <3>1, <4>1 DEF Held
    <3>3. CASE ~(i <= b)
      <4>1. i - b \in 1 .. d /\ b + (i - b) = i
        BY <1>6, <3>1, <3>3
      <4>2. QED
        BY <1>7, <3>1, <4>1
    <3>4. QED
      BY <3>2, <3>3
  <2>4. ASSUME NEW i \in 1 .. d, q.data[i] = e PROVE b + i \in Held(e)' /\ q \in Sent(e)
    <3>1. b + i \in 1 .. b + d
      BY <1>6
    <3>2. QED
      BY <1>2, <1>3, <1>5, <1>7, <2>4, <3>1 DEF Held, Sent
  <2>5. QED
    BY <2>1, <2>2, <2>3, <2>4
<1>9. ASSUME NEW e, Nowhere(e) PROVE Nowhere(e)'
  BY <1>8, <1>9 DEF Nowhere
<1>10. ASSUME NEW e, Once(e) PROVE Once(e)'
  <2>1. CASE (\E p : Sent(e) = {p}) /\ Held(e) = {} /\ Given(e) = {}
    <3>1. CASE q \in Sent(e)
      <4>1. Sent(e)' = {} /\ Given(e)' = {}
        BY <1>8, <2>1, <3>1
      <4>2. PICK i \in 1 .. d : q.data[i] = e
        BY <1>5, <3>1 DEF Sent
      <4>3. Held(e)' = {b + i}
        <5>1. b + i \in Held(e)'
          BY <1>8, <4>2
        <5>2. ASSUME NEW j \in Held(e)' PROVE j = b + i
          <6>1. j - b \in 1 .. d /\ q.data[j - b] = e /\ j \in Int
            <7>1. j \in Held(e) \/ (j - b \in 1 .. d /\ q.data[j - b] = e)
              BY <1>8, <5>2
            <7>2. j \notin Held(e)
              BY <2>1
            <7>3. j \in Int
              BY <5>2 DEF Held
            <7>4. QED
              BY <7>1, <7>2, <7>3
          <6>2. j - b = i
            BY <1>3, <1>5, <4>2, <6>1
          <6>3. QED
            BY <1>6, <6>1, <6>2
        <5>3. QED
          BY <5>1, <5>2
      <4>4. QED
        BY <4>1, <4>3 DEF Once
    <3>2. CASE q \notin Sent(e)
      BY <1>8, <2>1, <3>2 DEF Once
    <3>3. QED
      BY <3>1, <3>2
  <2>2. CASE Sent(e) = {} /\ (\E i : Held(e) = {i}) /\ Given(e) = {}
    <3>1. Held(e)' = Held(e)
      BY <1>8, <2>2
    <3>2. QED
      BY <1>8, <2>2, <3>1 DEF Once
  <2>3. CASE Sent(e) = {} /\ Held(e) = {} /\ \E i : Given(e) = {i}
    <3>1. Held(e)' = {}
      BY <1>8, <2>3
    <3>2. QED
      BY <1>8, <2>3, <3>1 DEF Once
  <2>4. QED
    BY <1>10, <2>1, <2>2, <2>3 DEF Once
<1>11. ASSUME ~scanFailed, NEW h \in DOMAIN dirs, dirs[h].opening = opens PROVE Passed(h)'
  BY <1>1, <1>2, <1>9, <1>10, <1>11 DEF EntryInv, Passed
<1>12. QED
  BY <1>1, <1>2, <1>4, <1>11 DEF EntryInv

(* An entry is taken from the buffer and returned. *)
LEMMA ResumeEntries ==
    ASSUME ListInv, NEW r \in Readers,
           ReadBuffered(r) \/ ReadReturns(r) \/ ReadCancelled(r)
    PROVE  EntryInv'
<1>1. FilesInv /\ EntryInv
  BY DEF ListInv
<1>2. /\ UNCHANGED <<app, opens, requests, dirs, scanFailed>> /\ app # "opening"
      /\ cutOff => cutOff'
  BY <1>1 DEF ReadBuffered, ReadReturns, ReadCancelled, serverVars, EntryInv, WhileOpen, Busy
<1>3. PICK ec \in Errors : await_resume(r, ec)
  <2>1. reader[r].ec \in Errors
    BY <1>1 DEF FilesInv, TypeOK
  <2>2. QED
    BY <2>1 DEF ReadBuffered, ReadReturns, ReadCancelled, Errors
<1>4. buffer_ \in Seq(1 .. Entries) /\ listed \in Seq(Listing)
  BY <1>1 DEF FilesInv, TypeOK
<1>5. PICK l, m : l = [ec |-> ec, entry |-> IF buffer_ = <<>> THEN 0 ELSE Head(buffer_)]
                  /\ m = Len(listed)
  OBVIOUS
<1>6. listed' = Append(listed, l) /\ buffer_' = DropFront(buffer_) /\ m \in Nat
  BY <1>3, <1>4, <1>5 DEF await_resume
<1>7. /\ Len(listed') = m + 1 /\ listed'[m + 1] = l
      /\ \A i \in 1 .. m : listed'[i] = listed[i]
  BY <1>4, <1>5, <1>6, AppendProperties
<1>8. ASSUME NEW e PROVE Sent(e)' = Sent(e)
  BY <1>2 DEF Sent
<1>9. ASSUME NEW e PROVE Given(e)' = Given(e) \cup (IF l.entry = e THEN {m + 1} ELSE {})
  <2>1. \A i \in 1 .. m + 1 : i \in 1 .. m \/ i = m + 1
    BY <1>6
  <2>2. 1 .. m \subseteq 1 .. m + 1 /\ m + 1 \in 1 .. m + 1
    BY <1>6
  <2>3. QED
    BY <1>5, <1>7, <2>1, <2>2 DEF Given
<1>10. ASSUME NEW e \in 1 .. Entries
       PROVE  /\ Nowhere(e) => Nowhere(e)'
              /\ Once(e) => Once(e)'
  <2>1. CASE buffer_ = <<>>
    <3>1. buffer_' = buffer_ /\ l.entry # e
      BY <1>5, <1>6, <1>10, <2>1 DEF DropFront
    <3>2. Held(e)' = Held(e)
      BY <3>1 DEF Held
    <3>3. Given(e)' = Given(e)
      BY <1>9, <3>1
    <3>4. QED
      BY <1>8, <3>2, <3>3 DEF Nowhere, Once
  <2>2. CASE buffer_ # <<>>
    <3>1. PICK b : b = Len(buffer_)
      OBVIOUS
    <3>2. b \in Nat /\ b >= 1
      BY <1>4, <2>2, <3>1
    <3>3. /\ Len(buffer_') = b - 1
          /\ \A i \in 1 .. b - 1 : buffer_'[i] = buffer_[i + 1]
          /\ l.entry = buffer_[1]
      <4>1. buffer_' = Tail(buffer_)
        BY <1>6, <2>2 DEF DropFront
      <4>2. l.entry = Head(buffer_) /\ Head(buffer_) = buffer_[1]
        BY <1>4, <1>5, <2>2
      <4>3. QED
        BY <1>4, <2>2, <3>1, <4>1, <4>2, HeadTailProperties
    <3>4. \A i : i \in Held(e)' <=> i \in 1 .. b - 1 /\ i + 1 \in Held(e)
      <4>1. ASSUME NEW i PROVE i \in Held(e)' <=> i \in 1 .. b - 1 /\ buffer_[i + 1] = e
        BY <3>2, <3>3 DEF Held
      <4>2. \A i \in 1 .. b - 1 : i + 1 \in 1 .. b
        BY <3>2
      <4>3. QED
        BY <3>1, <4>1, <4>2 DEF Held
    <3>5. 1 \in Held(e) <=> l.entry = e
      BY <3>1, <3>2, <3>3 DEF Held
    <3>6. Held(e) \subseteq 1 .. b
      BY <3>1 DEF Held
    <3>7. Held(e) = {} => Held(e)' = {} /\ Given(e)' = Given(e)
      BY <1>9, <3>4, <3>5
    <3>8. ASSUME NEW j, Held(e) = {j}, Given(e) = {}
          PROVE  \/ Held(e)' = {} /\ Given(e)' = {m + 1}
                 \/ Held(e)' = {j - 1} /\ Given(e)' = {}
      <4>1. j \in 1 .. b
        BY <3>6, <3>8
      <4>2. CASE j = 1
        <5>1. ASSUME NEW i \in Held(e)' PROVE FALSE
          <6>1. i \in 1 .. b - 1 /\ i + 1 = 1
            BY <3>4, <3>8, <4>2, <5>1
          <6>2. QED
            BY <3>2, <6>1
        <5>2. Given(e)' = {m + 1}
          BY <1>9, <3>5, <3>8, <4>2
        <5>3. QED
          BY <5>1, <5>2
      <4>3. CASE j # 1
        <5>1. j - 1 \in 1 .. b - 1 /\ (j - 1) + 1 = j
          BY <3>2, <4>1, <4>3
        <5>2. j - 1 \in Held(e)'
          BY <3>4, <3>8, <5>1
        <5>3. ASSUME NEW i \in Held(e)' PROVE i = j - 1
          <6>1. i \in 1 .. b - 1 /\ i + 1 = j
            BY <3>4, <3>8, <5>3
          <6>2. QED
            BY <3>2, <6>1
        <5>4. Given(e)' = {}
          BY <1>9, <3>5, <3>8, <4>3
        <5>5. QED
          BY <5>2, <5>3, <5>4
      <4>4. QED
        BY <4>2, <4>3
    <3>9. Nowhere(e) => Nowhere(e)'
      BY <1>8, <3>7 DEF Nowhere
    <3>10. Once(e) => Once(e)'
      <4>1. CASE Held(e) = {}
        BY <1>8, <3>7, <4>1 DEF Once
      <4>2. CASE Held(e) # {} /\ Once(e)
        <5>1. PICK j : Sent(e) = {} /\ Held(e) = {j} /\ Given(e) = {}
          BY <4>2 DEF Once
        <5>2. QED
          BY <1>8, <3>8, <5>1 DEF Once
      <4>3. QED
        BY <4>1, <4>2
    <3>11. QED
      BY <3>9, <3>10
  <2>3. QED
    BY <2>1, <2>2
<1>11. ASSUME ~scanFailed, NEW h \in DOMAIN dirs, dirs[h].opening = opens PROVE Passed(h)'
  <2>1. Passed(h) /\ dirs[h].next \in 1 .. Entries + 1
    BY <1>1, <1>11 DEF EntryInv, FilesInv, HandleInv
  <2>2. PICK next : next = dirs[h].next
    OBVIOUS
  <2>3. next .. Entries \subseteq 1 .. Entries /\ 1 .. next - 1 \subseteq 1 .. Entries
    BY <2>1, <2>2, FilesAssumption
  <2>4. QED
    BY <1>2, <1>10, <2>1, <2>2, <2>3 DEF Passed
<1>12. WhileOpen'
  <2>1. \A s \in Readers : Busy(s)' => Busy(s)
    BY <1>1, <1>3 DEF await_resume, Busy, FilesInv, TypeOK
  <2>2. QED
    BY <1>1, <1>2, <2>1 DEF EntryInv, WhileOpen
<1>13. QED
  BY <1>1, <1>2, <1>11, <1>12 DEF EntryInv

-----------------------------------------------------------------------------
LEMMA ListInit == Init => ListInv
<1> SUFFICES ASSUME Init PROVE ListInv
  OBVIOUS
<1>1. requests = {} /\ DOMAIN dirs = {} /\ app = "nothing" /\ \A r \in Readers : ~Busy(r)
  BY DEF Init, Busy, NotReading
<1>2. EntryInv
  BY <1>1 DEF EntryInv, WhileOpen
<1>3. QED
  BY <1>2, FilesInit DEF ListInv

LEMMA ListStep == ListInv /\ [Next]_vars => ListInv'
<1> SUFFICES ASSUME ListInv, [Next]_vars PROVE EntryInv'
  BY FilesStep DEF ListInv
<1>1. ASSUME NEW op \in {"open", "opendir"}, Open(op) PROVE EntryInv'
  BY <1>1, OpenEntries
<1>2. CASE Close \/ TransferReturns \/ TransferCancelled
  BY <1>2, AppEntries
<1>3. ASSUME NEW r \in Readers,
             ReadBuffered(r) \/ ReadFetches(r) \/ ReadReturns(r) \/ ReadCancelled(r)
      PROVE  EntryInv'
  BY <1>3, ResumeEntries, ReadFetchesEntries
<1>4. ASSUME NEW kind \in {"read", "write"}, NEW offset \in Offsets,
             StartTransfer(kind, offset)
      PROVE  EntryInv'
  BY <1>4, StartTransferEntries
<1>5. ASSUME NEW q \in requests,
             \/ Opened(q) \/ Closed(q)
             \/ \E k \in Pieces : PieceReturns(k, q)
      PROVE  EntryInv'
  BY <1>5, AppEntries
<1>6. ASSUME NEW q \in requests, NEW r \in Readers, EntriesArrive(r, q) PROVE EntryInv'
  BY <1>6, EntriesArriveEntries
<1>7. ASSUME NEW q \in requests,
             open(q) \/ close(q) \/ readdir(q) \/ find(q) \/ read_at(q) \/ write_at(q)
      PROVE  EntryInv'
  BY <1>7, OpenServedEntries, CloseServedEntries, ReaddirEntries, FileServedEntries
<1>8. CASE UNCHANGED vars
  <2>1. /\ UNCHANGED <<opens, reader, buffer_, listed, dirs, scanFailed, app, requests, cutOff>>
        /\ EntryInv
    BY <1>8 DEF vars, dirVars, serverVars, ListInv
  <2>2. WhileOpen'
    BY <2>1 DEF WhileOpen, Busy, EntryInv
  <2>3. app' = "opening" => \A q \in requests' : q.op = "readdir" => q.opening # opens
    BY <2>1 DEF EntryInv
  <2>4. QED
    BY <2>1, <2>2, <2>3, SameEntries
<1>9. QED
  BY <1>1, <1>2, <1>3, <1>4, <1>5, <1>6, <1>7, <1>8 DEF Next

(* ListInv holds always. *)
LEMMA ListAlways == Spec => []ListInv
BY ListInit, ListStep, PTL DEF Spec

-----------------------------------------------------------------------------
(* The order in which entries are listed. *)

Asked == {q \in requests : q.op = "readdir"}

(* A directory that is open is known to the server, and starts at its      *)
(* first entry.                                                            *)
StartInv ==
    /\ app = "dir" => handle_ \in DOMAIN dirs
    /\ \A q \in requests : q.op = "opendir" /\ q.at = "answered" /\ q.ec = "success" =>
          q.handle \in DOMAIN dirs /\ dirs[q.handle].next = 1

(* As long as no call is cut off, the readers that wait have asked.        *)
Waiting ==
    /\ \A q \in Asked : /\ reader[q.by].at = "waiting"
                        /\ q.opening = opens /\ q.handle = handle_
                        /\ q.at = "link" => q.ec = "success"
    /\ \A p, q \in Asked : p.by = q.by => p = q

(* Where the server's iterator is when n entries were sent.                *)
Reached(n) ==
    /\ dirs[handle_].next <= Entries => dirs[handle_].next = n + 1
    /\ dirs[handle_].next > Entries /\ ~scanFailed => n >= Entries

(* These entries are the ones to be listed next. *)
Numbered(s) == \A i \in 1 .. Len(s) : s[i] = Len(listed) + i

(* An answer has entries, or there are none left. *)
Answer(ec, s) ==
    \/ ec = "success" /\ s # <<>>
    \/ ec = "SSH_FX_EOF" /\ s = <<>> /\ dirs[handle_].next > Entries

InOrder ==
    \A i \in 1 .. Len(listed) :
        /\ listed[i].ec = "success" => listed[i].entry = i
        /\ ~scanFailed => listed[i].ec = IF i <= Entries THEN "success" ELSE "SSH_FX_EOF"

(* One read at a time: the entries are in the one answer or in the buffer, *)
(* which is empty while a reader waits.                                    *)
InTurn ==
    /\ \A r, s \in Readers : Busy(r) /\ Busy(s) => r = s
    /\ \A r \in Readers : /\ reader[r].at = "waiting" => buffer_ = <<>>
                          /\ reader[r].at = "completed" => Answer(reader[r].ec, buffer_)
    /\ \A q \in Asked : /\ Numbered(q.data) /\ Reached(Len(listed) + Len(q.data))
                        /\ q.at = "answered" => Answer(q.ec, q.data)
    /\ Numbered(buffer_)
    /\ app = "dir" /\ Asked = {} => Reached(Len(listed) + Len(buffer_))
    /\ InOrder

TurnInv == ~cutOff => Waiting /\ (~overlapped => InTurn)

OrderInv == ListInv /\ StartInv /\ TurnInv

(* Readers that wait or return have the directory open. *)
LEMMA NobodyAsks ==
    ASSUME OrderInv, ~cutOff, \A r \in Readers : reader[r].at # "waiting"
    PROVE  Asked = {}
<1>1. \A q \in Asked : q.by \in Readers /\ reader[q.by].at = "waiting"
  BY DEF OrderInv, ListInv, FilesInv, RequestInv, GoodRequest, TurnInv, Waiting, Asked
<1>2. QED
  BY <1>1

LEMMA NobodyReads ==
    ASSUME OrderInv, app # "dir", ~cutOff \/ app = "opening"
    PROVE  \A r \in Readers : ~Busy(r) /\ reader[r].at # "waiting"
BY DEF OrderInv, ListInv, EntryInv, WhileOpen, Busy

-----------------------------------------------------------------------------
(* Every step keeps StartInv. *)

LEMMA SameStart ==
    ASSUME StartInv, UNCHANGED dirs, app' = "dir" => app = "dir" /\ handle_' = handle_,
           \A q \in requests' : q.op = "opendir" /\ q.at = "answered" /\ q.ec = "success" =>
                                  q \in requests
    PROVE  StartInv'
BY DEF StartInv

LEMMA ReplyStart ==
    ASSUME OrderInv, NEW q \in requests, NEW ec, Reply(q, ec), UNCHANGED dirs,
           q.op = "opendir" => ec # "success"
    PROVE  StartInv'
<1>1. q \in Request
  BY DEF OrderInv, ListInv, FilesInv, TypeOK
<1>2. PICK c : c = [q EXCEPT !.at = "answered", !.ec = ec]
  OBVIOUS
<1>3. c.op = q.op /\ c.ec = ec
  BY <1>1, <1>2 DEF Request
<1>4. requests' = (requests \ {q}) \cup {c} /\ UNCHANGED <<app, handle_>>
  BY <1>2 DEF Reply, Becomes
<1>5. QED
  BY <1>3, <1>4, SameStart DEF OrderInv

LEMMA AppStart ==
    ASSUME OrderInv,
           \/ Close \/ TransferReturns \/ TransferCancelled
           \/ \E op \in {"open", "opendir"} : Open(op)
           \/ \E q \in requests : \/ Opened(q) \/ Closed(q)
                                  \/ \E k \in Pieces : PieceReturns(k, q)
    PROVE  StartInv'
<1>1. FilesInv /\ StartInv
  BY DEF OrderInv, ListInv
<1>2. ASSUME NEW op \in {"open", "opendir"}, Open(op) PROVE StartInv'
  <2>1. PICK c : c = [Ask(App, op, 0, 0, <<>>) EXCEPT
                         !.opening = opens', !.transfer = 0, !.handle = NoHandle]
    OBVIOUS
  <2>2. /\ requests' = {q \in requests : q.at # "answered"} \cup {c} /\ c.at = "link"
        /\ UNCHANGED dirs /\ app' = "opening"
    BY <1>2, <2>1 DEF Open, Ask, serverVars
  <2>3. QED
    BY <1>1, <2>2, SameStart
<1>3. ASSUME NEW q \in requests, Opened(q) PROVE StartInv'
  <2>1. /\ UNCHANGED dirs /\ requests' = requests \ {q} /\ handle_' = q.handle
        /\ q.at = "answered" /\ q.by = App
        /\ app' = "dir" => q.ec = "success" /\ q.op # "open"
    BY <1>3 DEF Opened, Answered, serverVars
  <2>2. app' = "dir" => q.op = "opendir"
    BY <1>1, <1>3, <2>1 DEF Opened, FilesInv, RequestInv, GoodRequest, AppOps
  <2>3. QED
    BY <1>1, <2>1, <2>2 DEF StartInv
<1>4. CASE \/ Close \/ TransferReturns \/ TransferCancelled
           \/ \E q \in requests : Closed(q) \/ \E k \in Pieces : PieceReturns(k, q)
  <2>1. UNCHANGED dirs /\ (app' = "dir" => app = "dir" /\ handle_' = handle_)
    BY <1>4 DEF Close, TransferReturns, TransferCancelled, Closed, PieceReturns, serverVars
  <2>2. \A q \in requests' : q.op = "opendir" => q \in requests
    BY <1>1, <1>4, AppRequests
  <2>3. QED
    BY <1>1, <2>1, <2>2, SameStart
<1>5. QED
  BY <1>2, <1>3, <1>4

LEMMA StartTransferStart ==
    ASSUME OrderInv, NEW kind \in {"read", "write"}, NEW offset \in Offsets,
           StartTransfer(kind, offset)
    PROVE  StartInv'
<1>1. FilesInv /\ StartInv
  BY DEF OrderInv, ListInv
<1>2. PICK P : /\ requests' = requests \cup {P[k] : k \in Pieces}
               /\ \A k \in Pieces : P[k].op = kind
  BY <1>1, PieceRequests
<1>3. \A q \in requests' : q.op = "opendir" => q \in requests
  BY <1>2
<1>4. UNCHANGED <<app, handle_, dirs>>
  BY DEF StartTransfer, serverVars
<1>5. QED
  BY <1>1, <1>3, <1>4, SameStart

LEMMA ReaderStart ==
    ASSUME OrderInv, NEW r \in Readers,
           \/ ReadBuffered(r) \/ ReadFetches(r) \/ ReadReturns(r) \/ ReadCancelled(r)
           \/ \E q \in requests : EntriesArrive(r, q)
    PROVE  StartInv'
<1>1. UNCHANGED <<app, handle_, dirs>> /\ StartInv
  BY DEF ReadBuffered, ReadFetches, ReadReturns, ReadCancelled, EntriesArrive, serverVars, OrderInv
<1>2. \A q \in requests' : q.op = "opendir" => q \in requests
  <2>1. Ask(r, "readdir", 0, 0, <<>>).op = "readdir"
    BY DEF Ask
  <2>2. QED
    BY <2>1 DEF ReadBuffered, ReadFetches, ReadReturns, ReadCancelled, EntriesArrive, Answered
<1>3. QED
  BY <1>1, <1>2, SameStart

LEMMA FileServedStart ==
    ASSUME OrderInv, NEW q \in requests, find(q) \/ read_at(q) \/ write_at(q)
    PROVE  StartInv'
<1>1. /\ \A p : p.op \notin FileOps => (p \in requests' <=> p \in requests)
      /\ UNCHANGED <<app, handle_, dirs>> /\ StartInv
  BY FileServedRequests DEF OrderInv, ListInv
<1>2. \A p \in requests' : p.op = "opendir" => p \in requests
  BY <1>1 DEF FileOps
<1>3. QED
  BY <1>1, <1>2, SameStart

LEMMA OpenServedStart ==
    ASSUME OrderInv, NEW q \in requests, open(q)
    PROVE  StartInv'
<1>1. FilesInv /\ StartInv /\ q \in Request /\ q.op \in {"open", "opendir"} /\ q.at = "link"
  BY OpenCases DEF OrderInv, ListInv, FilesInv, TypeOK
<1>2. app = "opening"
  BY <1>1 DEF FilesInv, RequestInv, GoodRequest
<1>3. CASE Reply(q, "error") /\ UNCHANGED <<handle_gen, open_files, dirs>>
  BY <1>3, ReplyStart
<1>4. ASSUME NEW h \in Handles,
             \/ dirs' = dirs /\ q.op = "open"
             \/ dirs' = Insert(dirs, h, [opening |-> q.opening, next |-> 1]),
             Becomes(q, [q EXCEPT !.at = "answered", !.handle = h])
      PROVE  StartInv'
  <2>1. PICK c : c = [q EXCEPT !.at = "answered", !.handle = h]
    OBVIOUS
  <2>2. c.op = q.op /\ c.handle = h
    BY <1>1, <2>1 DEF Request
  <2>3. requests' = (requests \ {q}) \cup {c} /\ UNCHANGED <<app, handle_>>
    BY <1>4, <2>1 DEF Becomes
  <2>4. \A p \in requests \ {q} : p.op # "opendir"
    BY <1>1 DEF FilesInv, OneAppRequest, AppOps
  <2>5. dirs' = Insert(dirs, h, [opening |-> q.opening, next |-> 1]) =>
          h \in DOMAIN dirs' /\ dirs'[h].next = 1
    BY DEF Insert
  <2>6. QED
    BY <1>2, <1>4, <2>2, <2>3, <2>4, <2>5 DEF StartInv
<1>5. QED
  BY <1>1, <1>3, <1>4, OpenCases

LEMMA CloseServedStart ==
    ASSUME OrderInv, NEW q \in requests, close(q)
    PROVE  StartInv'
<1>1. FilesInv /\ q \in Request /\ q.op = "close"
  BY DEF OrderInv, ListInv, FilesInv, TypeOK, close, Begin
<1>2. app = "closing" /\ \A p \in requests : p.op # "opendir"
  BY <1>1 DEF FilesInv, RequestInv, GoodRequest, OneAppRequest, AppOps
<1>3. PICK ec : Reply(q, ec)
  BY DEF close
<1>4. PICK c : c = [q EXCEPT !.at = "answered", !.ec = ec]
  OBVIOUS
<1>5. c.op = "close" /\ requests' = (requests \ {q}) \cup {c} /\ UNCHANGED app
  <2>1. c.op = "close"
    BY <1>1, <1>4 DEF Request
  <2>2. QED
    BY <1>3, <1>4, <2>1 DEF Reply, Becomes
<1>6. QED
  BY <1>2, <1>5 DEF StartInv

LEMMA ReaddirStart ==
    ASSUME OrderInv, NEW q \in requests, readdir(q)
    PROVE  StartInv'
<1>1. FilesInv /\ EntryInv /\ StartInv /\ q \in Request /\ q.op = "readdir"
  BY ReaddirCases DEF OrderInv, ListInv, FilesInv, TypeOK
<1>2. CASE \E ec \in Errors \ {"success"} : Reply(q, ec) /\ UNCHANGED <<dirs, scanFailed>>
  BY <1>2, ReplyStart
<1>3. ASSUME q.handle \in DOMAIN dirs, NEW n, NEW d,
             dirs' = [dirs EXCEPT ![q.handle].next = n],
             Becomes(q, [q EXCEPT !.at = "answered", !.data = d])
      PROVE  StartInv'
  <2>1. PICK c : c = [q EXCEPT !.at = "answered", !.data = d]
    OBVIOUS
  <2>2. c.op = "readdir" /\ requests' = (requests \ {q}) \cup {c} /\ UNCHANGED <<app, handle_>>
    <3>1. c.op = "readdir"
      BY <1>1, <2>1 DEF Request
    <3>2. QED
      BY <1>3, <2>1, <3>1 DEF Becomes
  <2>3. DOMAIN dirs' = DOMAIN dirs /\ \A h \in DOMAIN dirs : h # q.handle => dirs'[h] = dirs[h]
    BY <1>3
  <2>4. ASSUME NEW p \in requests, p.op = "opendir", p.at = "answered", p.ec = "success"
        PROVE  p.handle # q.handle
    <3>1. p.handle \in DOMAIN dirs /\ p.opening = opens /\ app = "opening"
      BY <1>1, <2>4 DEF StartInv, FilesInv, RequestInv, GoodRequest
    <3>2. dirs[p.handle].opening = opens /\ dirs[q.handle].opening = q.opening
      BY <1>1, <1>3, <3>1 DEF FilesInv, HandleInv, Owned
    <3>3. q.opening # opens
      BY <1>1, <3>1 DEF EntryInv
    <3>4. QED
      BY <3>2, <3>3
  <2>5. QED
    BY <1>1, <2>2, <2>3, <2>4 DEF StartInv
<1>4. QED
  BY <1>1, <1>2, <1>3, ReaddirCases

-----------------------------------------------------------------------------
(* Every step keeps TurnInv. *)

(* A step that leaves the directory and its readers alone. *)
LEMMA SameTurn ==
    ASSUME TurnInv,
           UNCHANGED <<app, handle_, opens, reader, buffer_, listed, overlapped, scanFailed, dirs>>,
           ~cutOff' => ~cutOff,
           \A q : q.op = "readdir" => (q \in requests' <=> q \in requests)
    PROVE  TurnInv'
<1>1. Asked' = Asked
  BY DEF Asked
<1>2. QED
  BY <1>1 DEF TurnInv, Waiting, InTurn, Busy, Answer, Numbered, Reached, InOrder

(* A step while nobody reads, after which no directory is open. *)
LEMMA QuietTurn ==
    ASSUME OrderInv, \A r \in Readers : ~Busy(r), app' # "dir",
           UNCHANGED <<reader, buffer_, listed, overlapped, scanFailed>>,
           ~cutOff' => ~cutOff,
           \A q \in requests' : q.op = "readdir" /\ ~cutOff => q \in requests
    PROVE  TurnInv'
<1> SUFFICES ASSUME ~cutOff' PROVE Waiting' /\ (~overlapped' => InTurn')
  BY DEF TurnInv
<1>1. TurnInv /\ Asked = {}
  BY NobodyAsks DEF OrderInv, Busy
<1>2. Asked' = {}
  BY <1>1 DEF Asked
<1>3. \A r \in Readers : ~Busy(r)' /\ reader'[r].at \notin {"waiting", "completed"}
  BY DEF Busy
<1>4. ~overlapped => Numbered(buffer_)' /\ InOrder'
  BY <1>1 DEF TurnInv, InTurn, Numbered, InOrder
<1>5. QED
  BY <1>2, <1>3, <1>4 DEF Waiting, InTurn

(* Calls of the application. *)
LEMMA OpenTurn ==
    ASSUME OrderInv, NEW op \in {"open", "opendir"}, Open(op)
    PROVE  TurnInv'
<1> SUFFICES ASSUME ~cutOff' PROVE Waiting' /\ InTurn'
  BY DEF TurnInv
<1>1. PICK c : c = [Ask(App, op, 0, 0, <<>>) EXCEPT
                       !.opening = opens', !.transfer = 0, !.handle = NoHandle]
  OBVIOUS
<1>2. /\ c.op = op /\ reader' = NotReading /\ buffer_' = <<>> /\ listed' = <<>>
      /\ requests' = {q \in requests : q.at # "answered"} \cup {c}
      /\ app = "nothing" /\ app' = "opening" /\ UNCHANGED cutOff
  BY <1>1 DEF Open, Ask
<1>3. Asked = {}
  BY <1>2, NobodyAsks, NobodyReads
<1>4. Asked' = {}
  BY <1>2, <1>3 DEF Asked
<1>5. \A r \in Readers : ~Busy(r)' /\ reader'[r].at \notin {"waiting", "completed"}
  BY <1>2 DEF Busy, NotReading
<1>6. Numbered(buffer_)' /\ InOrder'
  BY <1>2 DEF Numbered, InOrder
<1>7. QED
  BY <1>2, <1>4, <1>5, <1>6 DEF Waiting, InTurn

(* A directory that was just opened: nothing was read of it. *)
LEMMA OpenedTurn ==
    ASSUME OrderInv, NEW q \in requests, Opened(q)
    PROVE  TurnInv'
<1>1. /\ app = "opening" /\ requests' = requests \ {q} /\ handle_' = q.handle
      /\ UNCHANGED <<opens, reader, buffer_, listed, overlapped, scanFailed, dirs, cutOff>>
      /\ q.at = "answered" /\ q.by = App /\ q \in requests
      /\ app' = "dir" => q.ec = "success" /\ q.op # "open"
  BY DEF Opened, Answered, dirVars, serverVars
<1>2. CASE app' # "dir"
  BY <1>1, <1>2, NobodyReads, QuietTurn
<1>3. CASE app' = "dir"
  <2> SUFFICES ASSUME ~cutOff PROVE Waiting' /\ InTurn'
    BY <1>1 DEF TurnInv
  <2>1. Asked = {}
    BY <1>1, NobodyAsks, NobodyReads
  <2>2. Asked' = {}
    BY <1>1, <2>1 DEF Asked
  <2>3. \A r \in Readers : ~Busy(r)' /\ reader'[r].at \notin {"waiting", "completed"}
    BY <1>1, NobodyReads DEF Busy
  <2>4. buffer_ = <<>> /\ listed = <<>>
    BY <1>1 DEF OrderInv, ListInv, EntryInv
  <2>5. q.op = "opendir"
    BY <1>1, <1>3 DEF OrderInv, ListInv, FilesInv, RequestInv, GoodRequest, AppOps
  <2>6. dirs[q.handle].next = 1
    BY <1>1, <1>3, <2>5 DEF OrderInv, StartInv
  <2>7. Reached(Len(listed) + Len(buffer_))'
    BY <1>1, <2>4, <2>6, FilesAssumption DEF Reached
  <2>8. Numbered(buffer_)' /\ InOrder'
    BY <1>1, <2>4 DEF Numbered, InOrder
  <2>9. QED
    BY <2>2, <2>3, <2>7, <2>8 DEF Waiting, InTurn
<1>4. QED
  BY <1>2, <1>3

LEMMA AppTurn ==
    ASSUME OrderInv,
           \/ Close \/ TransferReturns \/ TransferCancelled
           \/ \E q \in requests : Closed(q) \/ \E k \in Pieces : PieceReturns(k, q)
    PROVE  TurnInv'
<1>1. FilesInv /\ TurnInv
  BY DEF OrderInv, ListInv
<1>2. /\ \A q : q.op = "readdir" => (q \in requests' <=> q \in requests)
      /\ UNCHANGED <<opens, reader, buffer_, listed, overlapped, scanFailed, dirs>>
      /\ ~cutOff' => ~cutOff
  <2>1. \A q : q.op = "readdir" => (q \in requests' <=> q \in requests)
    BY <1>1, AppRequests
  <2>2. UNCHANGED <<opens, reader, buffer_, listed, overlapped, scanFailed, dirs>>
    BY DEF Close, TransferReturns, TransferCancelled, Closed, PieceReturns, dirVars, serverVars
  <2>3. ~cutOff' => ~cutOff
    BY DEF Close, TransferReturns, TransferCancelled, Closed, PieceReturns
  <2>4. QED
    BY <2>1, <2>2, <2>3
<1>3. CASE Close \/ \E q \in requests : Closed(q)
  <2> SUFFICES ASSUME ~cutOff' PROVE TurnInv'
    BY DEF TurnInv
  <2>1. app' # "dir" /\ \A r \in Readers : ~Busy(r)
    <3>1. CASE Close
      BY <3>1 DEF Close
    <3>2. CASE \E q \in requests : Closed(q)
      BY <1>2, <3>2, NobodyReads DEF Closed
    <3>3. QED
      BY <1>3, <3>1, <3>2
  <2>2. QED
    BY <1>2, <2>1, QuietTurn
<1>4. CASE \/ TransferReturns \/ TransferCancelled
           \/ \E q \in requests : \E k \in Pieces : PieceReturns(k, q)
  <2>1. UNCHANGED <<app, handle_>>
    BY <1>4 DEF TransferReturns, TransferCancelled, PieceReturns
  <2>2. QED
    BY <1>1, <1>2, <2>1, SameTurn
<1>5. QED
  BY <1>3, <1>4

LEMMA StartTransferTurn ==
    ASSUME OrderInv, NEW kind \in {"read", "write"}, NEW offset \in Offsets,
           StartTransfer(kind, offset)
    PROVE  TurnInv'
<1>1. FilesInv /\ TurnInv
  BY DEF OrderInv, ListInv
<1>2. PICK P : /\ requests' = requests \cup {P[k] : k \in Pieces}
               /\ \A k \in Pieces : P[k].op = kind
  BY <1>1, PieceRequests
<1>3. \A q : q.op = "readdir" => (q \in requests' <=> q \in requests)
  BY <1>2
<1>4. UNCHANGED <<app, handle_, opens, reader, buffer_, listed, overlapped, scanFailed, dirs, cutOff>>
  BY DEF StartTransfer, dirVars, serverVars
<1>5. QED
  BY <1>1, <1>3, <1>4, SameTurn

(* The server's steps, other than readdir. *)
LEMMA FileServedTurn ==
    ASSUME OrderInv, NEW q \in requests, find(q) \/ read_at(q) \/ write_at(q)
    PROVE  TurnInv'
<1>1. /\ \A p : p.op \notin FileOps => (p \in requests' <=> p \in requests)
      /\ UNCHANGED <<app, handle_, dirVars, opens, cutOff, dirs, scanFailed>> /\ TurnInv
  BY FileServedRequests DEF OrderInv, ListInv
<1>2. \A p : p.op = "readdir" => (p \in requests' <=> p \in requests)
  BY <1>1 DEF FileOps
<1>3. QED
  BY <1>1, <1>2, SameTurn DEF dirVars

LEMMA HandleServedTurn ==
    ASSUME OrderInv, NEW q \in requests, open(q) \/ close(q)
    PROVE  TurnInv'
<1>1. FilesInv /\ q \in Request /\ q.op \in AppOps
  BY DEF OrderInv, ListInv, FilesInv, TypeOK, open, close, Begin, AppOps
<1>2. app # "dir"
  BY <1>1 DEF FilesInv, RequestInv, GoodRequest, AppOps
<1>3. PICK c : Becomes(q, c) /\ c.op = q.op
  <2>1. ASSUME NEW ec PROVE [q EXCEPT !.at = "answered", !.ec = ec].op = q.op
    BY <1>1 DEF Request
  <2>2. ASSUME NEW h PROVE [q EXCEPT !.at = "answered", !.handle = h].op = q.op
    BY <1>1 DEF Request
  <2>3. \/ \E ec : Becomes(q, [q EXCEPT !.at = "answered", !.ec = ec])
        \/ \E h : Becomes(q, [q EXCEPT !.at = "answered", !.handle = h])
    BY DEF open, close, Reply
  <2>4. QED
    BY <2>1, <2>2, <2>3
<1>4. /\ UNCHANGED <<app, reader, buffer_, listed, overlapped, cutOff>>
      /\ requests' = (requests \ {q}) \cup {c}
  BY <1>3 DEF Becomes, dirVars
<1>5. scanFailed' = scanFailed
  BY DEF open, close
<1>6. CASE cutOff
  BY <1>4, <1>6 DEF TurnInv
<1>7. CASE ~cutOff
  BY <1>1, <1>2, <1>3, <1>4, <1>5, <1>7, NobodyReads, QuietTurn DEF AppOps
<1>8. QED
  BY <1>6, <1>7

(* A reader asks: nobody else does, and the buffer is empty. *)
LEMMA ReadFetchesTurn ==
    ASSUME OrderInv, NEW r \in Readers, ReadFetches(r)
    PROVE  TurnInv'
<1>1. FilesInv /\ TurnInv
  BY DEF OrderInv, ListInv
<1>2. PICK c : c = Ask(r, "readdir", 0, 0, <<>>)
  OBVIOUS
<1>3. /\ requests' = requests \cup {c} /\ app = "dir" /\ reader[r].at = "idle"
      /\ UNCHANGED <<app, handle_, buffer_, listed, opens, cutOff, dirs, scanFailed>>
      /\ buffer_ = <<>>
      /\ overlapped' = (overlapped \/ \E s \in Readers \ {r} : Busy(s))
  BY <1>2 DEF ReadFetches, serverVars, MustFetch, eof_
<1>4. /\ c.by = r /\ c.op = "readdir" /\ c.data = <<>> /\ c.opening = opens
      /\ c.handle = handle_ /\ c.at = "link" /\ c.ec = "success"
  BY <1>2 DEF Ask
<1>5. /\ reader'[r].at = "waiting"
      /\ \A s \in Readers \ {r} : reader'[s] = reader[s]
  <2>1. DOMAIN reader = Readers
    BY <1>1 DEF FilesInv, TypeOK
  <2>2. QED
    BY <2>1 DEF ReadFetches
<1>6. Asked' = Asked \cup {c}
  BY <1>3, <1>4 DEF Asked
<1> SUFFICES ASSUME ~cutOff PROVE Waiting' /\ (~overlapped' => InTurn')
  BY <1>3 DEF TurnInv
<1>7. \A q \in Asked : q.by \in Readers /\ q.by # r /\ reader[q.by].at = "waiting"
  BY <1>1, <1>3 DEF FilesInv, RequestInv, GoodRequest, TurnInv, Waiting, Asked
<1>8. Waiting'
  BY <1>1, <1>3, <1>4, <1>5, <1>6, <1>7 DEF TurnInv, Waiting
<1>9. ASSUME ~overlapped' PROVE InTurn'
  <2>1. InTurn /\ \A s \in Readers \ {r} : ~Busy(s)
    BY <1>1, <1>3, <1>9 DEF TurnInv
  <2>2. Asked = {} /\ Asked' = {c}
    BY <1>6, <1>7, <2>1 DEF Busy
  <2>3. \A s \in Readers : Busy(s)' => s = r
    BY <1>5, <2>1 DEF Busy
  <2>4. \A s \in Readers : reader'[s].at # "completed"
    BY <1>5, <2>1 DEF Busy
  <2>5. Reached(Len(listed) + Len(c.data))'
    BY <1>3, <1>4, <2>1, <2>2 DEF InTurn, Reached
  <2>6. Numbered(c.data)' /\ Numbered(buffer_)' /\ InOrder'
    BY <1>3, <1>4, <2>1 DEF InTurn, Numbered, InOrder
  <2>7. QED
    BY <1>3, <1>4, <2>2, <2>3, <2>4, <2>5, <2>6 DEF InTurn
<1>10. QED
  BY <1>8, <1>9

(* The answer arrives: the buffer was empty, and now holds it. *)
LEMMA EntriesArriveTurn ==
    ASSUME OrderInv, NEW r \in Readers, NEW q \in requests, EntriesArrive(r, q)
    PROVE  TurnInv'
<1>1. FilesInv /\ TurnInv /\ GoodRequest(q)
  BY DEF OrderInv, ListInv, FilesInv, RequestInv
<1>2. /\ UNCHANGED <<app, handle_, opens, listed, dirs, scanFailed, overlapped, cutOff>>
      /\ requests' = requests \ {q}
      /\ buffer_' = buffer_ \o q.data /\ q.by = r /\ q.at = "answered"
      /\ reader[r].at = "waiting"
  BY DEF EntriesArrive, Answered, Push, serverVars
<1>3. q \in Asked /\ q.data \in Seq(1 .. Entries)
  BY <1>1, <1>2 DEF GoodRequest, Asked
<1>4. /\ reader'[r].at = "completed" /\ reader'[r].ec = q.ec
      /\ \A s \in Readers \ {r} : reader'[s] = reader[s]
  <2>1. DOMAIN reader = Readers
    BY <1>1 DEF FilesInv, TypeOK
  <2>2. QED
    BY <2>1 DEF EntriesArrive
<1>5. Asked' = Asked \ {q}
  BY <1>2 DEF Asked
<1> SUFFICES ASSUME ~cutOff PROVE Waiting' /\ (~overlapped' => InTurn')
  BY <1>2 DEF TurnInv
<1>6. \A p \in Asked : p.by \in Readers /\ reader[p.by].at = "waiting" /\ (p.by = r => p = q)
  BY <1>1, <1>2, <1>3 DEF FilesInv, RequestInv, GoodRequest, TurnInv, Waiting, Asked
<1>7. Waiting'
  BY <1>1, <1>2, <1>4, <1>5, <1>6 DEF TurnInv, Waiting
<1>8. ASSUME ~overlapped' PROVE InTurn'
  <2>1. InTurn
    BY <1>1, <1>2, <1>8 DEF TurnInv
  <2>2. \A s \in Readers \ {r} : ~Busy(s)
    BY <1>2, <2>1 DEF InTurn, Busy
  <2>3. Asked' = {}
    BY <1>5, <1>6, <2>2 DEF Busy
  <2>4. buffer_' = q.data
    <3>1. buffer_ = <<>>
      BY <1>2, <2>1 DEF InTurn
    <3>2. QED
      BY <1>2, <1>3, <3>1
  <2>5. \A s \in Readers : Busy(s)' => s = r
    BY <1>4, <2>2 DEF Busy
  <2>6. \A s \in Readers : reader'[s].at # "waiting"
    BY <1>4, <2>2 DEF Busy
  <2>7. Answer(reader[r].ec, buffer_)'
    BY <1>2, <1>3, <1>4, <2>1, <2>4 DEF InTurn, Answer
  <2>8. Reached(Len(listed) + Len(buffer_))'
    BY <1>2, <1>3, <2>1, <2>4 DEF InTurn, Reached
  <2>9. Numbered(buffer_)' /\ InOrder'
    BY <1>2, <1>3, <2>1, <2>4 DEF InTurn, Numbered, InOrder
  <2>10. QED
    <3>1. \A s \in Readers : reader'[s].at = "completed" => s = r
      BY <2>5 DEF Busy
    <3>2. QED
      BY <2>3, <2>5, <2>6, <2>7, <2>8, <2>9, <3>1 DEF InTurn
<1>9. QED
  BY <1>7, <1>8

(* A read returns, from the buffer or with an answer's error. *)
LEMMA ResumeTurn ==
    ASSUME OrderInv, NEW r \in Readers, ReadBuffered(r) \/ ReadReturns(r)
    PROVE  TurnInv'
<1>1. FilesInv /\ TurnInv /\ EntryInv
  BY DEF OrderInv, ListInv
<1>2. /\ UNCHANGED <<app, handle_, opens, requests, dirs, scanFailed, cutOff>>
      /\ reader[r].at \in {"idle", "completed"} /\ (~cutOff => app = "dir")
  BY <1>1 DEF ReadBuffered, ReadReturns, serverVars, EntryInv, WhileOpen, Busy
<1>3. PICK ec \in Errors :
           /\ await_resume(r, ec)
           /\ \/ ec = "success" /\ buffer_ # <<>>
              \/ ec = reader[r].ec /\ reader[r].at = "completed"
  <2>1. reader[r].ec \in Errors
    BY <1>1 DEF FilesInv, TypeOK
  <2>2. QED
    BY <2>1 DEF ReadBuffered, ReadReturns, Errors, MustFetch, eof_
<1>4. /\ reader'[r].at \in {"idle", "stopped"}
      /\ \A s \in Readers \ {r} : reader'[s] = reader[s]
  <2>1. DOMAIN reader = Readers
    BY <1>1 DEF FilesInv, TypeOK
  <2>2. QED
    BY <1>3, <2>1 DEF await_resume
<1>5. overlapped' = (overlapped \/ \E s \in Readers \ {r} : Busy(s))
  BY <1>3 DEF await_resume
<1>6. Asked' = Asked
  BY <1>2 DEF Asked
<1> SUFFICES ASSUME ~cutOff PROVE Waiting' /\ (~overlapped' => InTurn')
  BY <1>2 DEF TurnInv
<1>7. \A q \in Asked : q.by \in Readers /\ q.by # r /\ reader[q.by].at = "waiting"
  BY <1>1, <1>2 DEF FilesInv, RequestInv, GoodRequest, TurnInv, Waiting, Asked
<1>8. Waiting'
  BY <1>1, <1>2, <1>4, <1>6, <1>7 DEF TurnInv, Waiting
<1>9. ASSUME ~overlapped' PROVE InTurn'
  <2>1. InTurn /\ \A s \in Readers \ {r} : ~Busy(s)
    BY <1>1, <1>5, <1>9 DEF TurnInv
  <2>2. Asked = {} /\ Asked' = {}
    BY <1>6, <1>7, <2>1 DEF Busy
  <2>3. \A s \in Readers : ~Busy(s)' /\ reader'[s].at \notin {"waiting", "completed"}
    BY <1>4, <2>1 DEF Busy
  <2>4. buffer_ \in Seq(1 .. Entries) /\ listed \in Seq(Listing)
    BY <1>1 DEF FilesInv, TypeOK
  <2>5. PICK l, m : l = [ec |-> ec, entry |-> IF buffer_ = <<>> THEN 0 ELSE Head(buffer_)]
                    /\ m = Len(listed)
    OBVIOUS
  <2>6. listed' = Append(listed, l) /\ buffer_' = DropFront(buffer_) /\ m \in Nat
        /\ l.ec = ec
    BY <1>3, <2>4, <2>5 DEF await_resume
  <2>7. /\ Len(listed') = m + 1 /\ listed'[m + 1] = l
        /\ \A i \in 1 .. m : listed'[i] = listed[i]
    BY <2>4, <2>5, <2>6, AppendProperties
  <2>8. Reached(m + Len(buffer_)) /\ Numbered(buffer_) /\ InOrder
    BY <1>2, <2>1, <2>2, <2>5 DEF InTurn
  <2>9. ASSUME l.ec = "success" => l.entry = m + 1,
               ~scanFailed => l.ec = IF m + 1 <= Entries THEN "success" ELSE "SSH_FX_EOF"
        PROVE  InOrder'
    <3>1. \A i \in 1 .. m + 1 : i \in 1 .. m \/ i = m + 1
      BY <2>6
    <3>2. QED
      BY <1>2, <2>5, <2>7, <2>8, <2>9, <3>1 DEF InOrder
  <2>10. CASE ec = "success" /\ buffer_ # <<>>
    <3>1. PICK b : b = Len(buffer_)
      OBVIOUS
    <3>2. b \in Nat /\ b >= 1
      BY <2>4, <2>10, <3>1
    <3>3. /\ Len(buffer_') = b - 1
          /\ \A i \in 1 .. b - 1 : buffer_'[i] = buffer_[i + 1]
          /\ l.entry = buffer_[1]
      <4>1. buffer_' = Tail(buffer_)
        BY <2>6, <2>10 DEF DropFront
      <4>2. l.entry = Head(buffer_) /\ Head(buffer_) = buffer_[1]
        BY <2>4, <2>5, <2>10
      <4>3. QED
        BY <2>4, <2>10, <3>1, <4>1, <4>2, HeadTailProperties
    <3>4. l.entry = m + 1 /\ m + 1 \in 1 .. Entries
      <4>1. 1 \in 1 .. b /\ buffer_[1] \in 1 .. Entries
        <5>1. 1 \in 1 .. b
          BY <3>2
        <5>2. \A i \in 1 .. Len(buffer_) : buffer_[i] \in 1 .. Entries
          BY <2>4, ElementOfSeq
        <5>3. QED
          BY <3>1, <5>1, <5>2
      <4>2. QED
        BY <2>5, <2>8, <3>1, <3>3, <4>1 DEF Numbered
    <3>5. InOrder'
      <4>1. m + 1 <= Entries
        BY <3>4, FilesAssumption
      <4>2. QED
        BY <2>6, <2>9, <2>10, <3>4, <4>1
    <3>6. Numbered(buffer_)'
      <4>1. ASSUME NEW i \in 1 .. b - 1 PROVE buffer_'[i] = (m + 1) + i
        <5>1. i + 1 \in 1 .. b
          BY <3>2
        <5>2. buffer_[i + 1] = m + (i + 1)
          BY <2>5, <2>8, <3>1, <5>1 DEF Numbered
        <5>3. QED
          BY <2>6, <3>3, <5>2
      <4>2. QED
        BY <2>7, <3>3, <4>1 DEF Numbered
    <3>7. Reached(Len(listed) + Len(buffer_))'
      <4>1. (m + 1) + (b - 1) = m + b
        BY <2>6, <3>2
      <4>2. Reached(m + b)'
        BY <1>2, <2>8, <3>1 DEF Reached
      <4>3. QED
        BY <2>7, <3>3, <4>1, <4>2 DEF Reached
    <3>8. QED
      BY <2>2, <2>3, <3>5, <3>6, <3>7 DEF InTurn
  <2>11. CASE ~(ec = "success" /\ buffer_ # <<>>)
    <3>1. ec = "SSH_FX_EOF" /\ buffer_ = <<>> /\ dirs[handle_].next > Entries
      BY <1>3, <2>1, <2>11 DEF InTurn, Answer
    <3>2. buffer_' = <<>> /\ Len(buffer_) = 0
      BY <2>6, <3>1 DEF DropFront
    <3>3. ~scanFailed => m >= Entries
      BY <2>6, <2>8, <3>1, <3>2 DEF Reached
    <3>4. InOrder'
      <4>1. ~scanFailed => ~(m + 1 <= Entries)
        BY <2>6, <3>3, FilesAssumption
      <4>2. QED
        BY <2>6, <2>9, <3>1, <4>1
    <3>5. Numbered(buffer_)'
      BY <3>2 DEF Numbered
    <3>6. Reached(Len(listed) + Len(buffer_))'
      <4>1. dirs[handle_].next \in Nat
        BY <1>1, <1>2, FilesAssumption DEF OrderInv, StartInv, FilesInv, HandleInv
      <4>2. ~(dirs[handle_].next <= Entries)
        BY <3>1, <4>1, FilesAssumption
      <4>3. ~scanFailed => m + 1 + 0 >= Entries
        BY <2>6, <3>3, FilesAssumption
      <4>4. Len(listed') + Len(buffer_') = m + 1 + 0
        BY <2>7, <3>2
      <4>5. QED
        BY <1>2, <4>2, <4>3, <4>4 DEF Reached
    <3>7. QED
      BY <2>2, <2>3, <3>4, <3>5, <3>6 DEF InTurn
  <2>12. QED
    BY <2>10, <2>11
<1>10. QED
  BY <1>8, <1>9

(* The server answers: with the entries that come next, or that there are  *)
(* no more.                                                                *)
LEMMA ReaddirTurn ==
    ASSUME OrderInv, NEW q \in requests, readdir(q)
    PROVE  TurnInv'
<1>1. /\ FilesInv /\ TurnInv /\ StartInv /\ EntryInv /\ GoodRequest(q) /\ q \in Request
      /\ q.op = "readdir" /\ q.at = "link"
  BY ReaddirCases DEF OrderInv, ListInv, FilesInv, RequestInv, TypeOK
<1>2. q \in Asked /\ q.data = <<>> /\ q.by \in Readers
  BY <1>1 DEF GoodRequest, Asked
<1>3. \E c : Becomes(q, c)
  BY <1>1, ReaddirCases DEF Reply
<1>4. /\ UNCHANGED <<app, handle_, opens, reader, buffer_, listed, overlapped, cutOff>>
  BY <1>3 DEF Becomes, dirVars
<1> SUFFICES ASSUME ~cutOff PROVE Waiting' /\ (~overlapped => InTurn')
  BY <1>4 DEF TurnInv
<1>5. /\ reader[q.by].at = "waiting" /\ q.opening = opens /\ q.handle = handle_
      /\ q.ec = "success" /\ \A p \in Asked : p.by = q.by => p = q
  BY <1>1, <1>2 DEF TurnInv, Waiting
<1>6. app = "dir" /\ handle_ \in DOMAIN dirs
  BY <1>1, <1>2, <1>5 DEF EntryInv, WhileOpen, Busy, StartInv
<1>7. dirs[handle_] \in [opening : 1 .. opens, next : 1 .. Entries + 1]
  BY <1>1, <1>6 DEF FilesInv, HandleInv
<1>8. ~overlapped => /\ InTurn /\ Asked = {q} /\ Reached(Len(listed))
                     /\ \A r \in Readers : reader[r].at # "completed"
  <2> SUFFICES ASSUME ~overlapped
               PROVE  /\ InTurn /\ Asked = {q} /\ Reached(Len(listed))
                      /\ \A r \in Readers : reader[r].at # "completed"
    OBVIOUS
  <2>1. InTurn
    BY <1>1 DEF TurnInv
  <2>2. \A p \in Asked : p.by \in Readers /\ reader[p.by].at = "waiting"
    BY <1>1 DEF TurnInv, Waiting, Asked, FilesInv, RequestInv, GoodRequest
  <2>3. \A r \in Readers : Busy(r) => r = q.by
    BY <1>2, <1>5, <2>1 DEF InTurn, Busy
  <2>4. Asked = {q}
    BY <1>2, <1>5, <2>2, <2>3 DEF Busy
  <2>5. Reached(Len(listed))
    <3>1. Len(listed) + Len(q.data) = Len(listed)
      BY <1>1, <1>2 DEF FilesInv, TypeOK
    <3>2. QED
      BY <1>2, <2>1, <3>1 DEF InTurn
  <2>6. QED
    BY <1>5, <2>1, <2>3, <2>4, <2>5 DEF Busy
<1>9. ASSUME NEW c, Becomes(q, c), c.by = q.by, c.op = q.op, c.opening = q.opening,
             c.handle = q.handle, c.at = "answered"
      PROVE  Waiting' /\ Asked' = (Asked \ {q}) \cup {c}
  <2>1. Asked' = (Asked \ {q}) \cup {c}
    BY <1>1, <1>9 DEF Becomes, Asked
  <2>2. Waiting
    BY <1>1 DEF TurnInv
  <2>3. QED
    BY <1>4, <1>5, <1>9, <2>1, <2>2 DEF Waiting
<1>10. ASSUME ~overlapped, NEW c, Asked' = {c}, Numbered(c.data)', Answer(c.ec, c.data)',
              Reached(Len(listed) + Len(c.data))', scanFailed => scanFailed'
       PROVE  InTurn'
  <2>1. InTurn /\ \A r \in Readers : reader[r].at # "completed"
    BY <1>8, <1>10
  <2>2. Numbered(buffer_)' /\ InOrder'
    BY <1>4, <1>10, <2>1 DEF InTurn, Numbered, InOrder
  <2>3. QED
    BY <1>4, <1>10, <2>1, <2>2 DEF InTurn, Busy
<1>11. ASSUME NEW ec \in Errors \ {"success"}, Reply(q, ec), UNCHANGED <<dirs, scanFailed>>,
              ec = "SSH_FX_EOF", dirs[handle_].next > Entries
       PROVE  Waiting' /\ (~overlapped => InTurn')
  <2>1. PICK c : c = [q EXCEPT !.at = "answered", !.ec = ec]
    OBVIOUS
  <2>2. /\ c.by = q.by /\ c.op = q.op /\ c.opening = q.opening /\ c.handle = q.handle
        /\ c.at = "answered" /\ c.ec = ec /\ c.data = <<>>
    BY <1>1, <1>2, <2>1 DEF Request
  <2>3. Waiting' /\ Asked' = (Asked \ {q}) \cup {c}
    BY <1>9, <1>11, <2>1, <2>2 DEF Reply
  <2>4. ASSUME ~overlapped PROVE InTurn'
    <3>1. Asked' = {c} /\ Reached(Len(listed))
      BY <1>8, <2>3, <2>4
    <3>2. Numbered(c.data)' /\ Answer(c.ec, c.data)'
      BY <1>4, <1>11, <2>2 DEF Numbered, Answer
    <3>3. Len(listed') + Len(c.data) = Len(listed)
      BY <1>1, <1>4, <2>2 DEF FilesInv, TypeOK
    <3>4. Reached(Len(listed) + Len(c.data))'
      BY <1>4, <1>11, <3>1, <3>3 DEF Reached
    <3>5. QED
      BY <1>10, <1>11, <2>4, <3>1, <3>2, <3>4
  <2>5. QED
    BY <2>3, <2>4
<1>12. ASSUME NEW last \in dirs[handle_].next .. Entries, NEW fails \in BOOLEAN,
              dirs[handle_].next \in 1 .. Entries,
              dirs' = [dirs EXCEPT ![handle_].next = IF fails THEN Entries + 1 ELSE last + 1],
              scanFailed' = (scanFailed \/ fails),
              Becomes(q, [q EXCEPT !.at = "answered", !.data = Batch(dirs[handle_].next, last)])
       PROVE  Waiting' /\ (~overlapped => InTurn')
  <2>1. PICK next, d : next = dirs[handle_].next /\ d = Batch(next, last)
    OBVIOUS
  <2>2. PICK c : c = [q EXCEPT !.at = "answered", !.data = d]
    OBVIOUS
  <2>3. /\ c.by = q.by /\ c.op = q.op /\ c.opening = q.opening /\ c.handle = q.handle
        /\ c.at = "answered" /\ c.ec = "success" /\ c.data = d
    BY <1>1, <1>5, <2>2 DEF Request
  <2>4. Waiting' /\ Asked' = (Asked \ {q}) \cup {c}
    BY <1>9, <1>12, <2>1, <2>2, <2>3
  <2>5. /\ d \in Seq(1 .. Entries) /\ Len(d) = last - next + 1
        /\ \A i \in 1 .. last - next + 1 : d[i] = next + i - 1
    BY <1>12, <2>1, BatchType
  <2>6. next \in Nat /\ last \in Nat /\ next <= last /\ last <= Entries /\ Entries \in Nat
    BY <1>12, <2>1, FilesAssumption
  <2>7. dirs'[handle_].next = IF fails THEN Entries + 1 ELSE last + 1
    BY <1>6, <1>7, <1>12
  <2>8. ASSUME ~overlapped PROVE InTurn'
    <3>1. PICK m : m = Len(listed)
      OBVIOUS
    <3>2. m \in Nat
      BY <1>1, <3>1 DEF FilesInv, TypeOK
    <3>3. Asked' = {c} /\ next = m + 1
      BY <1>8, <2>1, <2>4, <2>6, <2>8, <3>1 DEF Reached
    <3>4. Numbered(c.data)'
      <4>1. ASSUME NEW i \in 1 .. Len(d) PROVE d[i] = m + i
        BY <2>5, <2>6, <3>2, <3>3
      <4>2. QED
        BY <1>4, <2>3, <3>1, <4>1 DEF Numbered
    <3>5. Answer(c.ec, c.data)'
      <4>1. Len(d) >= 1
        BY <2>5, <2>6
      <4>2. d # <<>>
        BY <4>1
      <4>3. QED
        BY <2>3, <4>2 DEF Answer
    <3>6. Reached(Len(listed) + Len(c.data))'
      <4>1. Len(listed') + Len(c.data) = last
        BY <1>4, <2>3, <2>5, <2>6, <3>1, <3>2, <3>3
      <4>2. CASE fails
        <5>1. dirs'[handle_].next = Entries + 1 /\ scanFailed'
          BY <1>12, <2>7, <4>2
        <5>2. QED
          BY <1>4, <2>6, <5>1 DEF Reached
      <4>3. CASE ~fails
        <5>1. dirs'[handle_].next = last + 1
          BY <2>7, <4>3
        <5>2. QED
          BY <1>4, <2>6, <4>1, <5>1 DEF Reached
      <4>4. QED
        BY <4>2, <4>3
    <3>7. QED
      BY <1>10, <1>12, <2>8, <3>3, <3>4, <3>5, <3>6
  <2>9. QED
    BY <2>4, <2>8
<1>13. QED
  BY <1>1, <1>5, <1>6, <1>11, <1>12, ReaddirCases

-----------------------------------------------------------------------------
LEMMA OrderInit == Init => OrderInv
<1> SUFFICES ASSUME Init PROVE OrderInv
  OBVIOUS
<1>1. /\ requests = {} /\ app = "nothing" /\ listed = <<>> /\ buffer_ = <<>>
      /\ \A r \in Readers : reader[r].at = "idle"
  BY DEF Init, NotReading
<1>2. StartInv
  BY <1>1 DEF StartInv
<1>3. Asked = {} /\ Numbered(buffer_) /\ InOrder
  BY <1>1 DEF Asked, Numbered, InOrder
<1>4. TurnInv
  BY <1>1, <1>3 DEF TurnInv, Waiting, InTurn, Busy
<1>5. QED
  BY <1>2, <1>4, ListInit DEF OrderInv

LEMMA OrderStep == OrderInv /\ [Next]_vars => OrderInv'
<1> SUFFICES ASSUME OrderInv, [Next]_vars PROVE StartInv' /\ TurnInv'
  BY ListStep DEF OrderInv
<1>1. ASSUME NEW op \in {"open", "opendir"}, Open(op) PROVE StartInv' /\ TurnInv'
  BY <1>1, AppStart, OpenTurn
<1>2. CASE Close \/ TransferReturns \/ TransferCancelled
  BY <1>2, AppStart, AppTurn
<1>3. ASSUME NEW r \in Readers,
             ReadBuffered(r) \/ ReadFetches(r) \/ ReadReturns(r) \/ ReadCancelled(r)
      PROVE  StartInv' /\ TurnInv'
  <2>1. StartInv'
    BY <1>3, ReaderStart
  <2>2. CASE ReadCancelled(r)
    BY <2>1, <2>2 DEF ReadCancelled, TurnInv
  <2>3. QED
    BY <1>3, <2>1, <2>2, ReadFetchesTurn, ResumeTurn
<1>4. ASSUME NEW kind \in {"read", "write"}, NEW offset \in Offsets,
             StartTransfer(kind, offset)
      PROVE  StartInv' /\ TurnInv'
  BY <1>4, StartTransferStart, StartTransferTurn
<1>5. ASSUME NEW q \in requests,
             \/ Opened(q) \/ Closed(q)
             \/ \E k \in Pieces : PieceReturns(k, q)
      PROVE  StartInv' /\ TurnInv'
  BY <1>5, AppStart, AppTurn, OpenedTurn
<1>6. ASSUME NEW q \in requests, NEW r \in Readers, EntriesArrive(r, q)
      PROVE  StartInv' /\ TurnInv'
  BY <1>6, ReaderStart, EntriesArriveTurn
<1>7. ASSUME NEW q \in requests, open(q) \/ close(q) \/ readdir(q)
      PROVE  StartInv' /\ TurnInv'
  BY <1>7, OpenServedStart, CloseServedStart, ReaddirStart, HandleServedTurn, ReaddirTurn
<1>8. ASSUME NEW q \in requests, find(q) \/ read_at(q) \/ write_at(q)
      PROVE  StartInv' /\ TurnInv'
  BY <1>8, FileServedStart, FileServedTurn
<1>9. CASE UNCHANGED vars
  <2>1. /\ UNCHANGED <<app, handle_, opens, reader, buffer_, listed, overlapped, scanFailed,
                       dirs, cutOff, requests>>
        /\ StartInv /\ TurnInv
    BY <1>9 DEF vars, dirVars, serverVars, OrderInv
  <2>2. QED
    BY <2>1, SameStart, SameTurn
<1>10. QED
  BY <1>1, <1>2, <1>3, <1>4, <1>5, <1>6, <1>7, <1>8, <1>9 DEF Next

LEMMA OrderAlways == Spec => []OrderInv
BY OrderInit, OrderStep, PTL DEF Spec

(***************************************************************************)
(* Reads of a directory that do not overlap return its entries in order,   *)
(* each once, and SSH_FX_EOF after the last, not before: for every size of *)
(* the directory and of the batches, and any number of coroutines that     *)
(* take turns.                                                             *)
(***************************************************************************)
THEOREM ReadInOrder == Spec => []ListedInOrder
<1>1. OrderInv => ListedInOrder
  BY DEF OrderInv, TurnInv, InTurn, InOrder, ListedInOrder
<1>2. QED
  BY <1>1, OrderAlways, PTL

(***************************************************************************)
(* Between the server's iterator and the readers no entry is handed out    *)
(* twice, and none is lost unless a read was cut off: in whatever batches  *)
(* readdir cuts the directory, in whatever order the packets arrive and    *)
(* however many coroutines share buffer_.                                  *)
(***************************************************************************)
THEOREM NoEntryLost == Spec => []EntriesKept
<1>1. OrderInv => EntriesKept
  <2> SUFFICES ASSUME OrderInv, NEW h \in DOMAIN dirs, dirs[h].opening = opens, ~scanFailed,
                      NEW e \in 1 .. dirs[h].next - 1
               PROVE  Cardinality(Places(e)) \in IF cutOff THEN {0, 1} ELSE {1}
    BY DEF EntriesKept
  <2>1. Once(e)
    BY DEF OrderInv, ListInv, EntryInv, Passed
  <2>2. ~cutOff => Taken(e) = Sent(e)
    BY DEF OrderInv, TurnInv, Waiting, Asked, Taken, Sent
  <2>3. QED
    BY <2>1, <2>2, OnceIsOne
<1>2. QED
  BY <1>1, OrderAlways, PTL
=============================================================================
