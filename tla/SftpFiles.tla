----------------------------- MODULE SftpFiles ------------------------------
(***************************************************************************)
(* The files and directories of the SFTP client, and the example server's  *)
(* sftp_server that keeps them: a directory is read packet by packet into  *)
(* dir's buffer_ and handed out entry by entry, a transfer over several    *)
(* buffers is one request per buffer, and the server answers requests      *)
(* from several workers, by handle.                                        *)
(*                                                                         *)
(* The link between the two (session, serve) is taken by what it promises: *)
(* a request reaches the server once, and its answer the call that made    *)
(* it, in any order.  SftpClient and SftpServe show when it keeps that.    *)
(***************************************************************************)
EXTENDS Integers, Sequences, FiniteSets, FiniteSetsExt

CONSTANTS
    Readers,        \* the coroutines that read the directory
    Entries,        \* how many entries it has
    max_batch,      \* how many entries readdir returns at most
    Buffers,        \* the sizes of the buffers of a transfer
    Offsets,        \* the offsets of transfers
    FileSize,       \* the size of the file at the start
    MaxOpens,       \* bound on how often something is opened
    MaxTransfers    \* bound on the transfers of a file

(* Who makes requests: the readers, a transfer for each of its buffers,    *)
(* and the application itself.                                             *)
Pieces == 1 .. Len(Buffers)
App == 0
Callers == Readers \cup Pieces \cup {App}

ASSUME FilesAssumption ==
    /\ Readers \cap (Pieces \cup {App}) = {}
    /\ Entries \in Nat /\ FileSize \in Nat
    /\ max_batch \in Nat \ {0}
    /\ Buffers \in Seq(Nat \ {0})
    /\ Offsets \subseteq Nat
    /\ MaxOpens \in Nat /\ MaxTransfers \in Nat

VARIABLES
    \* the client
    app,         \* what the application has open, or what it waits for
    handle_,     \* the handle of the file or dir
    buffer_,     \* dir::buffer_: entries not handed out yet
    reader,      \* each reader's read_op
    transfer,    \* the transfer of the file, and what it returned
    piece,       \* its requests, one for each buffer
    \* the link
    requests,    \* what was asked for and not yet answered
    \* sftp_server
    handle_gen, open_files, dirs,
    disk,        \* the file's content
    \* history
    opens,       \* how often something was opened
    transfers,   \* how many transfers there were of it
    listed,      \* what the reads of the directory returned
    overlapped,  \* whether two coroutines read the directory at once
    cutOff,      \* whether a call was cancelled, or lost its file or dir to a close
    scanFailed   \* whether the directory iterator reported an error

dirVars == <<buffer_, reader, listed, overlapped>>
fileVars == <<transfer, piece, transfers>>
serverVars == <<handle_gen, open_files, dirs, disk, scanFailed>>
vars == <<app, handle_, dirVars, fileVars, requests, serverVars, opens, cutOff>>

NoHandle == <<"none", 0>>
Handles == {"f", "d"} \X (1 .. MaxOpens)
Errors == {"success", "SSH_FX_EOF", "error"}
Units == Int

(* A read of the directory that returned: its error and its entry, or 0. *)
Listing == [ec : Errors, entry : 0 .. Entries]

(***************************************************************************)
(* A request: who made it, for which opening, where, how much; whether a   *)
(* worker has begun it, how far it has come, and its answer.               *)
(***************************************************************************)
Request ==
    [by : Callers, opening : 1 .. MaxOpens, transfer : 0 .. MaxTransfers,
     op : {"open", "opendir", "close", "readdir", "read", "write"},
     handle : Handles \cup {NoHandle}, offset : Nat, size : Nat, data : Seq(Units),
     at : {"link", "serving", "answered"}, total : Nat, ec : Errors]

TypeOK ==
    /\ app \in {"nothing", "opening", "file", "dir", "closing"}
    /\ handle_ \in Handles \cup {NoHandle}
    /\ buffer_ \in Seq(1 .. Entries)
    /\ reader \in [Readers ->
                      [at : {"idle", "waiting", "completed", "stopped"}, ec : Errors]]
    /\ transfer \in [kind : {"none", "read", "write"}, offset : Nat, running : BOOLEAN,
                     n : Nat]
    /\ piece \in [Pieces -> [done : BOOLEAN, ec : Errors, n : Nat, into : Seq(Units)]]
    /\ requests \subseteq Request
    /\ handle_gen \in 0 .. MaxOpens
    /\ DOMAIN open_files \subseteq {"f"} \X (1 .. MaxOpens)
    /\ DOMAIN dirs \subseteq {"d"} \X (1 .. MaxOpens)
    /\ disk \in Seq(Units)
    /\ opens \in 0 .. MaxOpens
    /\ transfers \in 0 .. MaxTransfers
    /\ listed \in Seq(Listing)
    /\ overlapped \in BOOLEAN /\ cutOff \in BOOLEAN /\ scanFailed \in BOOLEAN

NotReading == [r \in Readers |-> [at |-> "idle", ec |-> "success"]]
NoTransfer == [kind |-> "none", offset |-> 0, running |-> FALSE, n |-> 0]
NoPieces == [k \in Pieces |-> [done |-> FALSE, ec |-> "success", n |-> 0, into |-> <<>>]]

Init ==
    /\ app = "nothing" /\ handle_ = NoHandle
    /\ buffer_ = <<>> /\ reader = NotReading
    /\ transfer = NoTransfer /\ piece = NoPieces
    /\ requests = {}
    /\ handle_gen = 0 /\ open_files = <<>> /\ dirs = <<>>
    /\ disk = [i \in 1 .. FileSize |-> i]
    /\ opens = 0 /\ transfers = 0
    /\ listed = <<>>
    /\ overlapped = FALSE /\ cutOff = FALSE /\ scanFailed = FALSE

-----------------------------------------------------------------------------
(* The client's calls. *)

Ask(by, op, offset, size, data) ==
    [by |-> by, opening |-> opens, transfer |-> transfers, op |-> op, handle |-> handle_,
     offset |-> offset, size |-> size, data |-> data, at |-> "link", total |-> 0,
     ec |-> "success"]

(* The answer q reaches the call that made the request. *)
Answered(q) ==
    /\ q \in requests
    /\ q.at = "answered"
    /\ q.opening = opens /\ q.transfer = transfers
    /\ requests' = requests \ {q}

(* session::open and session::opendir: a new file or dir.  (Answers to     *)
(* calls that were cancelled reach nobody, and what calls of the last one  *)
(* return, if they still wait, is not followed any further; their requests *)
(* are.)                                                                   *)
Open(op) ==
    /\ app = "nothing"
    /\ opens < MaxOpens
    /\ app' = "opening"
    /\ handle_' = NoHandle
    /\ opens' = opens + 1
    /\ buffer_' = <<>> /\ reader' = NotReading /\ listed' = <<>> /\ overlapped' = FALSE
    /\ transfer' = NoTransfer /\ piece' = NoPieces /\ transfers' = 0
    /\ requests' = {q \in requests : q.at # "answered"} \cup
                     {[Ask(App, op, 0, 0, <<>>) EXCEPT
                         !.opening = opens', !.transfer = 0, !.handle = NoHandle]}
    /\ UNCHANGED <<serverVars, cutOff>>

Opened(q) ==
    /\ app = "opening"
    /\ q.by = App
    /\ Answered(q)
    /\ app' = IF q.ec # "success" THEN "nothing"
              ELSE IF q.op = "open" THEN "file" ELSE "dir"
    /\ handle_' = q.handle
    /\ UNCHANGED <<dirVars, fileVars, serverVars, opens, cutOff>>

Busy(r) == reader[r].at \in {"waiting", "completed"}

(* file::close and dir::close, whatever other calls wait for an answer.    *)
Close ==
    /\ app \in {"file", "dir"}
    /\ app' = "closing"
    /\ requests' = requests \cup {Ask(App, "close", 0, 0, <<>>)}
    /\ cutOff' = (cutOff \/ transfer.running \/ \E r \in Readers : Busy(r))
    /\ UNCHANGED <<handle_, dirVars, fileVars, serverVars, opens>>

(* sess_ = nullptr; handle_.clear(); *)
Closed(q) ==
    /\ app = "closing"
    /\ q.by = App
    /\ Answered(q)
    /\ app' = "nothing"
    /\ handle_' = NoHandle
    /\ UNCHANGED <<dirVars, fileVars, serverVars, opens, cutOff>>

-----------------------------------------------------------------------------
(* dir::read_op. *)

(* bool eof_ = false; nothing sets it. *)
eof_ == FALSE

(* Whether read has to ask the server: await_ready. *)
MustFetchMore == Len(buffer_) < 2  \* mutant: ask for more ahead of time
MustFetch == buffer_ = <<>> \/ eof_

(* await_resume: the error and the entry, which leaves the buffer. *)
KeepLast(b) == IF Len(b) > 1 THEN Tail(b) ELSE b  \* mutant: the last one stays
DropFront(b) == IF b = <<>> THEN b ELSE Tail(b)
await_resume(r, ec) ==
    /\ listed' = Append(listed, [ec |-> ec,
                                 entry |-> IF buffer_ = <<>> THEN 0 ELSE Head(buffer_)])
    /\ buffer_' = DropFront(buffer_)
    /\ reader' = [reader EXCEPT ![r] = [at |-> IF ec = "success" THEN "idle" ELSE "stopped",
                                        ec |-> ec]]
    /\ overlapped' = (overlapped \/ \E s \in Readers \ {r} : Busy(s))

(* read(): from the buffer, or with do_read_. *)
ReadBuffered(r) ==
    /\ app = "dir"
    /\ reader[r].at = "idle"
    /\ ~MustFetch
    /\ await_resume(r, IF eof_ THEN "SSH_FX_EOF" ELSE "success")
    /\ UNCHANGED <<app, handle_, fileVars, requests, serverVars, opens, cutOff>>

ReadFetches(r) ==
    /\ app = "dir"
    /\ reader[r].at = "idle"
    /\ MustFetch
    /\ reader' = [reader EXCEPT ![r] = [at |-> "waiting", ec |-> "success"]]
    /\ overlapped' = (overlapped \/ \E s \in Readers \ {r} : Busy(s))
    /\ requests' = requests \cup {Ask(r, "readdir", 0, 0, <<>>)}
    /\ UNCHANGED <<app, handle_, buffer_, listed, fileVars, serverVars, opens, cutOff>>

(* ssh_fxp_dir_entry_response: the entries are put behind those in the     *)
(* buffer; an answer without any is an error.                              *)
Push(entries) == buffer_ \o entries
EntriesArrive(r, q) ==
    /\ q.by = r
    /\ reader[r].at = "waiting"
    /\ Answered(q)
    /\ buffer_' = Push(q.data)
    /\ reader' = [reader EXCEPT ![r] = [at |-> "completed", ec |-> q.ec]]
    /\ UNCHANGED <<app, handle_, listed, overlapped, fileVars, serverVars, opens,
                   cutOff>>

(* The coroutine that awaits do_read_ goes on. *)
ReadReturns(r) ==
    /\ reader[r].at = "completed"
    /\ await_resume(r, reader[r].ec)
    /\ UNCHANGED <<app, handle_, fileVars, requests, serverVars, opens, cutOff>>

ReadCancelled(r) ==
    /\ reader[r].at = "waiting"
    /\ await_resume(r, "error")
    /\ cutOff' = TRUE
    /\ UNCHANGED <<app, handle_, fileVars, requests, serverVars, opens>>

-----------------------------------------------------------------------------
(* file::read_some_at and write_some_at with several buffers. *)

(* The sums of the first k of a sequence of numbers. *)
Sums(s) ==
    LET sum[k \in 0 .. Len(s)] == IF k = 0 THEN 0 ELSE sum[k - 1] + s[k]
    IN  sum

(* The sizes of the buffers before the k-th: offset += buf.size(); *)
NoneBefore(k) == 0  \* mutant: offset stays
Before(k) == Sums(Buffers)[k - 1]

(* What a write puts into the file, from the k-th buffer. *)
Written == 100
Content(k) ==
    [j \in 1 .. Buffers[k] |-> Written + Sums(Buffers)[k - 1] + j]

StartTransfer(kind, offset) ==
    /\ app = "file"
    /\ ~transfer.running
    /\ transfers < MaxTransfers
    /\ transfers' = transfers + 1
    /\ transfer' = [kind |-> kind, offset |-> offset, running |-> TRUE, n |-> 0]
    /\ piece' = NoPieces
    /\ requests' = requests \cup
          {[Ask(k, kind, offset + Before(k), Buffers[k],
                IF kind = "read" THEN <<>> ELSE Content(k)) EXCEPT !.transfer = transfers']
           : k \in Pieces}
    /\ UNCHANGED <<app, handle_, dirVars, serverVars, opens, cutOff>>

(* One of them is answered: ssh_fxp_data_response copies what it got; a    *)
(* write counts its whole buffer or nothing.                               *)
PieceReturns(k, q) ==
    /\ transfer.running
    /\ q.by = k
    /\ Answered(q)
    /\ ~piece[k].done
    /\ piece' = [piece EXCEPT ![k] =
                    [done |-> TRUE, ec |-> q.ec,
                     n |-> IF q.ec = "success" THEN Len(q.data) ELSE 0,
                     into |-> IF q.op = "read" /\ q.ec = "success" THEN q.data ELSE <<>>]]
    /\ UNCHANGED <<app, handle_, dirVars, transfer, transfers, serverVars, opens,
                   cutOff>>

(* when_all. *)
AllDone == \A k \in Pieces : piece[k].done

(* n += n_ for every result; the first error is found too, and not returned. *)
TransferReturns ==
    /\ transfer.running
    /\ AllDone
    /\ transfer' = [transfer EXCEPT !.running = FALSE,
                                    !.n = Sums([k \in Pieces |-> piece[k].n])[Len(Buffers)]]
    /\ UNCHANGED <<app, handle_, dirVars, piece, transfers, requests, serverVars, opens,
                   cutOff>>

(* The calls that wait are cancelled; the server does not learn of it. *)
TransferCancelled ==
    /\ transfer.running
    /\ ~AllDone
    /\ piece' = [k \in Pieces |-> IF piece[k].done THEN piece[k]
                                  ELSE [piece[k] EXCEPT !.done = TRUE, !.ec = "error"]]
    /\ cutOff' = TRUE
    /\ UNCHANGED <<app, handle_, dirVars, transfer, transfers, requests, serverVars, opens>>

-----------------------------------------------------------------------------
(* sftp_server: a worker of serve calls it, and sends what it returns. *)

Becomes(q, changed) ==
    /\ requests' = (requests \ {q}) \cup {changed}
    /\ UNCHANGED <<app, handle_, dirVars, fileVars, opens, cutOff>>

Reply(q, ec) == Becomes(q, [q EXCEPT !.at = "answered", !.ec = ec])

Begin(q, ops) ==
    /\ q \in requests
    /\ q.at = "link"
    /\ q.op \in ops

(* std::to_string(++handle_gen), with a "d" for a directory. *)
NewHandleBySize == Cardinality(DOMAIN open_files \cup DOMAIN dirs) + 1  \* mutant
NewHandle == handle_gen + 1

Insert(f, h, v) == [g \in DOMAIN f \cup {h} |-> IF g = h THEN v ELSE f[g]]

open(q) ==
    /\ Begin(q, {"open", "opendir"})
    /\ UNCHANGED <<disk, scanFailed>>
    /\ LET h == <<IF q.op = "open" THEN "f" ELSE "d", NewHandle>>
       IN  \/ /\ handle_gen' = NewHandle
              /\ open_files' = IF q.op = "open" THEN Insert(open_files, h, q.opening)
                               ELSE open_files
              /\ dirs' = IF q.op = "opendir"
                         THEN Insert(dirs, h, [opening |-> q.opening, next |-> 1]) ELSE dirs
              /\ Becomes(q, [q EXCEPT !.at = "answered", !.handle = h])
           \/ /\ Reply(q, "error")
              /\ UNCHANGED <<handle_gen, open_files, dirs>>

Erase(f, h) == [g \in DOMAIN f \ {h} |-> f[g]]

close(q) ==
    /\ Begin(q, {"close"})
    /\ IF q.handle \in DOMAIN open_files
       THEN open_files' = Erase(open_files, q.handle) /\ UNCHANGED dirs
       ELSE dirs' = Erase(dirs, q.handle) /\ UNCHANGED open_files
    /\ Reply(q, IF q.handle \in DOMAIN open_files \cup DOMAIN dirs THEN "success"
                ELSE "error")
    /\ UNCHANGED <<handle_gen, disk, scanFailed>>

(* The last entry of a batch that starts with this one. *)
LastUnchecked(next) == next + max_batch - 1  \* mutant: the end is not tested
LastOf(next) == Min({next + max_batch - 1, Entries})

(* A batch of entries; eof if there are none left.  An iterator that       *)
(* reports an error ends the batch, and has become the end iterator.       *)
readdir(q) ==
    /\ Begin(q, {"readdir"})
    /\ UNCHANGED <<handle_gen, open_files, disk>>
    /\ IF q.handle \notin DOMAIN dirs
       THEN Reply(q, "error") /\ UNCHANGED <<dirs, scanFailed>>
       ELSE LET next == dirs[q.handle].next
            IN  IF next > Entries
                THEN Reply(q, "SSH_FX_EOF") /\ UNCHANGED <<dirs, scanFailed>>
                ELSE \E last \in next .. LastOf(next), fails \in BOOLEAN :
                       /\ fails \/ last = LastOf(next)
                       /\ dirs' = [dirs EXCEPT ![q.handle].next =
                                      IF fails THEN Entries + 1 ELSE last + 1]
                       /\ scanFailed' = (scanFailed \/ fails)
                       /\ Becomes(q, [q EXCEPT !.at = "answered",
                                               !.data = [i \in 1 .. last - next + 1 |->
                                                            next + i - 1]])

(* read_at and write_at look the file up once, and keep a reference to it  *)
(* while they wait.  If a close erases it then, the file's destructor      *)
(* cancels the wait, an error; or the wait was already over, and the loop  *)
(* goes on with whatever the reference now refers to.                      *)
find(q) ==
    /\ Begin(q, {"read", "write"})
    /\ IF q.handle \in DOMAIN open_files
       THEN Becomes(q, [q EXCEPT !.at = "serving"])
       ELSE Reply(q, "error")
    /\ UNCHANGED serverVars

Serving(q, op) ==
    /\ q \in requests
    /\ q.at = "serving"
    /\ q.op = op

(* Where the file is read and written next: offset + total. *)
AtOffset(q) == q.offset  \* mutant: total is forgotten
Position(q) == q.offset + q.total

(* The loop of read_at: as much as there is, up to the size asked for. *)
read_at(q) ==
    /\ Serving(q, "read")
    /\ LET there == Min({q.size - q.total, Max({0, Len(disk) - Position(q)})})
       IN \/ there = 0 /\ Reply(q, "success")
          \/ \E n \in 1 .. there :
                Becomes(q, [q EXCEPT
                               !.total = @ + n,
                               !.data = @ \o SubSeq(disk, Position(q) + 1, Position(q) + n)])
          \/ q.total < q.size /\ Reply(q, "error")
    /\ UNCHANGED serverVars

(* The file with units from position on, and zeros before it if need be. *)
Put(d, position, units) ==
    [i \in 1 .. Max({Len(d), position + Len(units)}) |->
        IF i \in position + 1 .. position + Len(units) THEN units[i - position]
        ELSE IF i <= Len(d) THEN d[i] ELSE 0]

(* The loop of write_at: a write of nothing is an error. *)
write_at(q) ==
    /\ Serving(q, "write")
    /\ UNCHANGED <<handle_gen, open_files, dirs, scanFailed>>
    /\ \/ /\ q.total = q.size
          /\ Reply(q, "success")
          /\ UNCHANGED disk
       \/ \E n \in 1 .. q.size - q.total :
            /\ disk' = Put(disk, Position(q), SubSeq(q.data, q.total + 1, q.total + n))
            /\ Becomes(q, [q EXCEPT !.total = @ + n])
       \/ /\ q.total < q.size
          /\ Reply(q, "error")
          /\ UNCHANGED disk

-----------------------------------------------------------------------------
Next ==
    \/ \E op \in {"open", "opendir"} : Open(op)
    \/ Close
    \/ \E r \in Readers :
        ReadBuffered(r) \/ ReadFetches(r) \/ ReadReturns(r) \/ ReadCancelled(r)
    \/ \E kind \in {"read", "write"}, offset \in Offsets : StartTransfer(kind, offset)
    \/ TransferReturns \/ TransferCancelled
    \/ \E q \in requests :
        \/ Opened(q) \/ Closed(q)
        \/ \E r \in Readers : EntriesArrive(r, q)
        \/ \E k \in Pieces : PieceReturns(k, q)
        \/ open(q) \/ close(q) \/ readdir(q) \/ find(q) \/ read_at(q) \/ write_at(q)

Spec == Init /\ [][Next]_vars

-----------------------------------------------------------------------------
(* Properties. *)

(***************************************************************************)
(* The loop "co_await dir.read(); if (ec) break;" sees the entries of the  *)
(* directory in order, each once and none that is not there, and is told   *)
(* SSH_FX_EOF when it has seen them all, not earlier: over packets of any  *)
(* size, and also when several coroutines take turns.  Not when two of     *)
(* them read at once (one may get an empty entry, or an entry with its     *)
(* error), nor after a call was cut off; and if the server's iterator      *)
(* fails, which readdir does not report, the end may come too soon.        *)
(***************************************************************************)
ListedInOrder ==
    ~overlapped /\ ~cutOff =>
        \A i \in 1 .. Len(listed) :
            /\ listed[i].ec = "success" => listed[i].entry = i
            /\ ~scanFailed =>
                  listed[i].ec = IF i <= Entries THEN "success" ELSE "SSH_FX_EOF"

(* Where entry e is: on its way to a reader that waits, in the buffer, or  *)
(* handed to a reader, be it with an error.                                *)
Places(e) ==
    {<<"sent", q>> : q \in {q \in requests : q.op = "readdir" /\ q.opening = opens
                                           /\ reader[q.by].at = "waiting"
                                           /\ \E i \in 1 .. Len(q.data) : q.data[i] = e}}
    \cup {<<"held", i>> : i \in {i \in 1 .. Len(buffer_) : buffer_[i] = e}}
    \cup {<<"listed", i>> : i \in {i \in 1 .. Len(listed) : listed[i].entry = e}}

(***************************************************************************)
(* Between the server's iterator and the readers no entry is lost and none *)
(* handed out twice, even when they read at once (buffer_ is shared).      *)
(* When a read is cancelled, the entries of its answer are lost to all:    *)
(* the iterator has passed them; but still none comes twice.               *)
(***************************************************************************)
EntriesKept ==
    \A h \in DOMAIN dirs :
        dirs[h].opening = opens /\ ~scanFailed =>
            \A e \in 1 .. dirs[h].next - 1 :
                Cardinality(Places(e)) \in IF cutOff THEN {0, 1} ELSE {1}

Total == Sums(Buffers)[Len(Buffers)]

(***************************************************************************)
(* A read over several buffers that returns n, none of whose requests      *)
(* failed, has put the first n units of the file at its offset into the    *)
(* first n places of the buffers, in whatever order the requests were      *)
(* served and answered.  (Unless a call was cut off: its write may be      *)
(* served at any later time.)                                              *)
(***************************************************************************)
ReadIsPrefix ==
    /\ transfer.kind = "read" /\ ~transfer.running
    /\ \A k \in Pieces : piece[k].ec = "success"
    /\ ~cutOff
    => \A k \in Pieces : \A j \in 1 .. Buffers[k] :
          LET i == Sums(Buffers)[k - 1] + j
          IN  i <= transfer.n =>
                 /\ j <= Len(piece[k].into) /\ transfer.offset + i <= Len(disk)
                 /\ piece[k].into[j] = disk[transfer.offset + i]

(* A write over several buffers that returns their size has put all of     *)
(* them into the file, though its requests are served in any order and the *)
(* error of a failed one is not returned.                                  *)
WriteLanded ==
    transfer.kind = "write" /\ ~transfer.running /\ transfer.n = Total /\ ~cutOff =>
        \A i \in 1 .. Total :
            transfer.offset + i <= Len(disk) /\ disk[transfer.offset + i] = Written + i

(***************************************************************************)
(* A request names, by its handle, what it was made for or nothing, never  *)
(* a file or directory that was opened later: though it may be served long *)
(* after its call was cancelled, the handle closed and another opened.     *)
(***************************************************************************)
OwnHandle ==
    \A q \in requests :
        /\ q.handle \in DOMAIN open_files => open_files[q.handle] = q.opening
        /\ q.handle \in DOMAIN dirs => dirs[q.handle].opening = q.opening
=============================================================================
