# corosh: TLA+ models, checks and proofs

corosh is a C++20 coroutine library over libssh. This directory holds TLA+
models of its core logic, TLC configurations that check them on small
instances, and TLAPS proofs of what matters most for every instance. Source
paths below are relative to `src/`.

## The system

| Part | Source | State | Operations |
| --- | --- | --- | --- |
| response queue | `include/corosh/sftp.hpp:40-115` | intrusive list (`first`, `last`, `next`) of responses in coroutine frames, `request_id_gen` | `get_request_id`, `enqueue_response`, `complete`, `cancel_all`, destructor |
| SFTP client | `src/sftp.cpp:306-1812`, `include/corosh/sftp.hpp:116-330` | `stream_`, `buffer_`, `read_mutex_`, `write_mutex_`, the queue; `sess_` and `handle_` of every `file` and `dir`, `dir`'s entries | 22 requests (`open`, `stat`, `file::write_some_at`, ...), `read_one_`, `dir::read`, transfers over several buffers |
| SFTP server | `src/sftp.cpp:1819-2474` | `buffer` shared by the workers, `read_mutex`, `write_mutex`; each worker's `my_buffer` | `serve`, `serve_worker` with one case per opcode, `build_status` |
| SFTP handshake | `src/sftp.cpp:233-285`, `1883-1943` | buffers of its own | `init`, `init_server` |
| wire codec | `src/sftp.cpp:40-228` | none | `take_*`, `put_*`, `match_packet` |
| session, channel, message | `src/session.cpp`, `src/channel.cpp`, `src/message.cpp` | libssh objects, one socket for all | libssh calls repeated until they stop returning `SSH_AGAIN` |
| acceptor, options, errors | `src/acceptor.cpp`, `src/error.cpp`, option headers | libssh objects | thin wrappers |
| example server | `example/server.cpp` | `tracked_work`, a handler for each channel, `open_files`, `dirs` | `ssh_main`, callbacks, `sftp_server` |
| example client | `example/client.cpp` | none | a demonstration |

**How the parts interact.** The application calls a client operation. It
constructs a `response` in its own coroutine frame, puts a pointer to it on
the session's queue, writes the request under one mutex, and then reads
packets, for everyone, under the other, until its own response has been
completed. There is no reader coroutine: whoever holds the lock dispatches
whatever packet comes to whichever response has its id. On the other side
`serve` has several workers on one stream; each takes a packet under
`read_mutex`, leaving what it read too much in the shared buffer, calls the
backend without a lock and writes the reply under `write_mutex`. Both sides
use any stream, commonly a channel of an SSH session. The channels of a session
share one socket and one libssh session: whichever coroutine calls libssh makes
it process what has arrived for all of them, and those that wait do so on the
socket, or on a timer. In the example server a callback spawns a coroutine for
every channel, and `ssh_main` is to outlive them all.

**What is hard.** Replies arrive in any order and are read by other calls;
the list points into frames that are freed and recycled; a read error, a
cancellation or an unparsable packet hits several calls at different points;
files are closed under running operations; workers hand partial packets to
each other, end one by one, and are stopped while they wait; a coroutine reads
from the socket what another sleeps for; a loop that finds nothing to wait for
keeps the thread; a session ends while coroutines still hold its channels.
`PROJECT.json` lists these hazards at their lines.

**What makes it correct.** Client: a call returns the outcome of its own
answer or a transport error; success is never made up; every call returns;
somebody reads while anybody waits; only live and pending responses are on the
list; a directory is listed whole, and transfers put the right bytes in the
right place. Server: packets are taken whole, once and in order; one reply per
request, never mixed with another; every request that can be answered is;
`serve` returns. Loops: an operation returns when what it waits for has come
and when the connection is lost; no byte is lost or doubled. Example: the
session outlives its channels.

## Modules

| Module | What it is |
| --- | --- |
| `SftpReplies` | reply bodies as the client's response classes tell them apart, and what each class makes of one; the server's replies use the same bodies |
| `SftpCalls` | abstract specification: independent calls, each returning its own answer's outcome or a transport error |
| `SftpClient` | session, file, dir and response queue; refines `SftpCalls` |
| `SftpServe` | the handshake, `serve` and its workers |
| `SftpFiles` | what sits on both ends of that link: `dir::read` and transfers over several buffers at the client, the example's `sftp_server` at the server |
| `SshLoops` | the retry loops of session, channel and message over libssh and one socket |
| `ServerExample` | `ssh_main`, `tracked_work`, and the channels' coroutines and callbacks |
| `SftpClientProofs`, `SftpServeProofs`, `SftpFilesProofs`, `SshLoopsProofs`, `ServerExampleProofs` | theorems about those modules |
| `SftpCallsProofs` | that `SftpClient` implements `SftpCalls`; what becomes of answers and closed objects |
| `SftpSequentialProofs` | `SftpClient` used by one call at a time |
| `SftpListingProofs` | reading a directory, in `SftpFiles` |
| `MC...` | sets of replies, requests and operations, and symmetry, for TLC |

### SftpClient

Coroutines run on one thread, so an action is the code between two `co_await`s.
`pc` is where a call is suspended: waiting for the write lock (`lock_write`;
the code calls that mutex `read_mutex_`), inside `capy::write` before
(`writing`) and after (`written`) its last byte has left, waiting for the read
lock (`lock_read`, the code's `write_mutex_`), inside `read_until`
(`reading`). A mutex is the sequence of its owner and waiters. `Frames` are
addresses: `heap[f]` is the response at `f`, a frame is free when its call
has returned, and a new call may get it. The queue is modelled with the
pointers the code has. `prev` is left out because nothing assigns it: in
`complete` only the `else` branch can run.

An access to a freed response (`Touch`) either sees the bytes that were there,
which are those of another call once the address is used again, or faults.
A loop over a list that has become a cycle never ends (`Spin`). A file or dir
operation that resumes after its object was closed faults (`NullDeref`).

The 22 operations differ in the response class they wait with and in the
object they act on; their common tail is modelled once. Failures are switched
on by `Events`: `break` (the connection is lost with whatever is under way),
`cancel` (any awaited lock, read or write ends with an error), `runt` (a packet
too short for a type and an id), `destroy` (the session ends when nobody uses
it).

Abstracted: names, attributes, data and the packet layout; a reply is its
type, its status code (ok, eof, any other) and whether its fields are all
there (a STATUS may end with its code). Left out: moving a session while it is in use, the wrap of
`request_id_gen` at 2^32, and how much of a request has left when a write
fails or is cancelled (the model sends all of it or none).

### SftpServe

A packet is two units, so that a read can end inside one and replies can be
mixed if nothing prevents it. The k-th request has id k, and the packet the
client begins with is written with id 0. `asked`, `taken` and `outbound` are
histories. `init_server` reads the first packet into a buffer of its own and
drops that buffer with whatever else is in it; that nothing is lost rests on
the client's `init`, which makes no request before it has the VERSION packet
(`MayAsk`). The client may hang up before the handshake, with its first packet
sent, in part or not at all. A worker that ends leaves the mutexes it waits for
(`Leave`). Every case of the switch is an action. A request is its opcode,
whether its fields parse, whether it has an id at all, and whether a READ or
WRITE is of more than 1 GB. (A packet of size
zero, which also trips the assertion at `src/sftp.cpp:1972` in a debug build, is
one without an id: the model is of the release build.) The backend, the mutexes and
`read_until` (which is taken to look at what it already has before it reads)
are external. Whether an error of one worker cancels the others is `when_any`'s
business, which is not in the repository: the comment at `src/sftp.cpp:2466`
says it does, and `FailureCancels` allows either. What a worker awaits once it
is told to stop may still succeed, so what is read and written after that is
not constrained by the properties. The reply of a successful `READ` is not
`framed`: its header is written but not sent.

### SftpFiles

The link between client and server is a set of requests, each served once and
answered to its caller, in any order: what `SftpClient` and `SftpServe` show of
themselves, where they do. At the client, readers share `dir`'s buffer of
entries, and a transfer is one request per buffer, joined by `when_all`. At the
server, `open_files` and `dirs` are maps by handle, a handle is never used
twice, `readdir` returns batches, and `read_at` and `write_at` are loops that
are suspended in every turn and hold on to the element they found. A file is a
sequence of units; directory entries are numbers; where a buffer lies in a
transfer, and what a transfer returns, are partial sums (`Sums`). A close may
be sent while a transfer or a read of the directory is under way, as in the
code: the server may then erase the element that `read_at` or `write_at` of
another worker refers to, and that call ends in an error or goes on with the
file it had. `overlapped`, `cutOff` and `scanFailed` record that two coroutines
read the directory at once, that a call was cancelled or lost its file or
directory to a close, that the iterator failed: the cases in which the code
promises less, named in the properties. The answer to a call that was cut off
reaches nobody, and the entries in it are lost. Left out: the operations on
paths.

### SshLoops

`Turn` is one turn of a loop, from one suspension to the next: libssh
processes the socket for everyone (`Processed`), does what it was asked for
(`Call`), and the loop returns (`Verdict`), asks for the poll flags and
suspends (`Suspend`, `Await`), returns without a connection (`Quiet`) or, where
it has no branch for that, keeps the thread (`spinning`). The ten loops differ
in these operators only: `do_auth_`, `do_op_`, `do_open_`, `message::do_op_`,
`do_some_io_`, `do_io_`, and those of `connect`, `listen_forward`,
`get_exit_state` and `get_message`. libssh, the socket and the peer are
external: libssh returns `SSH_AGAIN` or, once the connection is lost, an error
with or without a code. It is assumed to have a poll flag as long as the session
is open, since it polls for reading while it is connected: `get_message` tests
`is_open()` where there is none (`src/session.cpp:420`), and without that
assumption its loop could turn without suspending as well. The operations of one set (`Auths`,
`Opens`, `Requests`, `Notices`, `MessageReplies`) are one lambda each around a
different libssh call and are treated alike; the run takes one of each set, the
proofs take all. `robbed`
records who sleeps on the socket while another coroutine has read its packet.
Data is numbered by the peer, per channel. A read or write moves any number of
units up to what is there. Left out: window sizes (a full socket stands for
them), stderr as a stream of its own, the libssh callbacks that forward to the
application.

### ServerExample

`main` is where `ssh_main` is suspended or how it has returned; `chan[c]` is the
coroutine of a channel, `work[c]` the handler its callbacks have chosen. The
callbacks come whenever libssh is called by anyone; the timer may expire at any
time. `accepted` records what the client was told is granted. The handlers are
abstract: they serve until their stream ends or they are told to stop, or, once
the session is gone, keep the only thread (`Spins`): `do_some_io_` may then turn
without suspending, as `SshLoops` shows.

## Runs

Passing:

| Run | Instance | Shows |
| --- | --- | --- |
| `client_operations` | 2 calls at once or in turn, 2 frames, all 22 operations, connection may break, deadlock checked | `PendingIsQueued`, `CallsReturn`, `RefinesCalls` |
| `client_concurrent` | 4 calls, 3 in flight, 3 frames, one file | `SuccessIsAnswered`, `AnswerStays`, `CloseReleases` |
| `client_faults` | 3 calls, 2 in flight, 2 frames, two response classes, cut replies, every failure | `TypeOK`, `AnswerIsOwn`, `ReaderIsUnanswered`, `StreamExclusive`, `SomeoneReads` |
| `files` | 2 readers, 3 entries in batches of 2, a file of 3 units, buffers of 1 and 2 units, 2 openings | `TypeOK`, `ListedInOrder`, `EntriesKept`, `ReadIsPrefix`, `WriteLanded`, `OwnHandle` |
| `serve_opcodes` | 1 worker, 2 of all requests | `TypeOK`, `OneReply` |
| `serve_workers` | handshake, 3 workers, 3 requests, answered or deadly, hang-ups, both meanings of `when_any`, deadlock checked | `WholeInOrder`, `NothingLost`, `RepliesUnmixed`, `OneReply`, `EveryRequestAnswered`, `ServeReturns` |
| `ssh_loops` | 2 coroutines: one operation of each loop and each thing to wait for, beside one that waits with a timer and one that waits on the socket; 2 units to each, buffers of 2 | `TypeOK`, `BytesInOrder`, `OnlyIoSpins`, `ReaderNotRobbed`, `SuccessEarned`, `DueReturns`, `EndsAfterHangUp` |
| `server_example` | 2 channels, 2 messages, deadlock checked | `TypeOK`, `WorkCounted`, `ErrorExitJoins`, `NoMissedEvent`, `GrantedServed`, `MainReturns` |

Violations, each the disagreement of the code with a line of the repository
that `PROJECT.json` quotes:

| Run | Property | What happens |
| --- | --- | --- |
| `lost_response` | `PendingIsQueued` | three calls, two at a time: `first` still points to the frame of the call that has returned, the third call's response is constructed there with `next` null, and the second call's is no longer on the list (nor would it be if `last` had been cleared, when the next request overwrites `first`) |
| `read_without_header` | `RepliesIdentified` | the reply to a READ is sent without length, type and id |
| `session_outlived` | `SessionOutlivesChannels` | the session ends while `ssh_main` replies to a message; the loop's test fails, and `ssh_main` returns without waiting for the channels |
| `whole_buffer` | `WholeBufferReturns` | a `channel::read` has filled its buffer and does not return: the lambda says `SSH_AGAIN` after the last piece too, `do_io_` sleeps on the socket, and when it asks again takes the positive total for one more `SSH_AGAIN` |

**Bounds.** With as many frames as calls in flight, responses are not recycled
among live ones; with fewer frames than calls, an address comes back while the
queue still points to it, which is where the queue goes wrong. Three calls, two
of them in flight, are the fewest for which a response is lost; two calls with
none after them lose none. `OneReply` is checked with one worker over all
opcodes, for the types of the replies, and with three workers, for replies out
of order. Two units per packet are the fewest that can be split; three
requests let one be in the buffer of the reader, one in the shared buffer and
one with the backend. Three workers let two go on after one has ended.
Three entries in batches of two make a full and a short batch; a write at 1 of
three units grows the file, and a second opening lets a request
of the first one arrive late. Two coroutines are enough for one to take the
other's packet; two units let a buffer be filled in two pieces. The loops'
`IInv` and `SInv` were also checked with two operations per coroutine
(`MaxStarts = 2`). `MaxRequests`, `MaxInFlight`, `MaxOpens`, `MaxTransfers`,
`MaxStarts`, `MaxUnits`, `MaxMessages` and the single `Block` of the socket are
the bounds in guards; `Calls` bounds the client. Symmetry is used only in runs
without liveness.
`CHECK_DEADLOCK FALSE` is set in `client_concurrent` and `client_faults`,
where a lost response leaves calls waiting for good (what `lost_response`
shows), in `serve_opcodes` and `read_without_header`, where a client that
stays connected and is silent leaves the workers waiting for it, in `files` and
`ssh_loops`, which end when the application has used up its operations, and in
`lost_response` and `whole_buffer`, which are about something else.

**Fairness.** `SftpClient`: the executor resumes every coroutine that is ready
and a working stream moves bytes (weak fairness of each call's `Resume`), and
the server answers what it was asked (weak fairness of `Reply`). Nothing obliges
the application to call, the stream to break or anyone to cancel.
`SftpServe`: weak fairness of `init_server` and of each worker, which includes
the backend returning; the client owes nothing. Mutexes are first come, first
served, so weak fairness is enough. `SshLoops`: weak fairness of each
coroutine's `Resume` (the executor, timers, and a reactor that reports what is
so for good) and of `Unblock` (a full send buffer is emptied); the peer owes
nothing, so `DueReturns` is about what has arrived. `ServerExample`: weak
fairness of `ssh_main`'s steps and of the coroutine that waits with a timer; a
handler ends only once it is told to stop. All of this only as long as no
handler keeps the thread (`ThreadKept`), the way out that `GrantedServed` and
`MainReturns` name.

**Further observations** that have no run of their own.

- `src/sftp.cpp:325`: a packet without an id ends the reader's call with the
  default `response.ec`, success (with `runt` among the events of the model,
  `SuccessIsAnswered` fails; compare the comment at `src/sftp.cpp:1404`).
- The session's destructor completes every response on the queue, those of
  calls that have returned included (`MemorySafe` fails with `destroy`, as it
  does with two calls in flight; for calls made one at a time it is proved).
- When a response has fallen off the list and then the connection is lost or
  a reader cancelled, a call that was never answered returns success
  (`RefinesCalls` fails with `break` or `cancel` then, with three calls).
- `cancel_all` completes responses that already have their answer:
  `AnswerStays` holds only while the stream does (compare `readme.md:330-331`).
- A `close` whose lock or write fails returns with the handle still open
  (`CloseReleases` fails then; compare the comment at `src/sftp.cpp:1238`).
- `src/sftp.cpp:2040`: a READ resizes the buffer that `handle` is a view of
  before it passes the view to `read_at` (compare `readme.md:476-477`).
- `serve` starts `worker_count + 1` workers. READ is limited at 1 GB where the
  comment says 1 MB.
- `init` sends the INIT packet's type as a 32-bit word in host order.
- The overloads of `channel::read` and `write` for several buffers in
  `channel.hpp` would return 0 whatever was moved. A read that is cancelled
  reports 0 after it has moved bytes. A write of which libssh takes nothing is
  reported as end of file. A `read_some` at the end of a channel polls every
  millisecond.
- `do_op_` of message, `do_auth_` and the loops of channel report an error of
  libssh without a code as success; only `do_op_` of session checks
  (`src/message.cpp:108` says "Mirrors session::do_op_").
- With output left over, loops wait for the socket to be readable *and*
  writable.
- The error of one request of a transfer over several buffers is found and not
  returned (`co_return n`).
- `dir::eof_` is never set. Two coroutines that read a directory at once may
  get an empty entry, or an entry with an error. An error of the server's
  directory iterator truncates the listing silently.
- A client that closes a file while the server reads or writes it, or that is
  told that its read was cancelled and closes the file, erases the element of
  `open_files` that the server still uses (`example/server.cpp:133`, `154`).
- When a read of a directory is cancelled, the entries in its answer are lost to
  every reader: the server's iterator has passed them.

## Proofs

Eight modules hold proofs, for every value of the constants. Where a theorem
needs the absence of a failure, it says so as an assumption on `Events`, and
the observations above say what goes wrong otherwise.

### The client

`SftpClientProofs`, for any sets of calls, frames, objects and replies
and any bound on the calls in flight:

| Theorem | Statement |
| --- | --- |
| `TypeCorrect` | `TypeOK`, with `MutexInv` and `FrameType` |
| `StreamIsExclusive` | `StreamExclusive` |
| `SomeoneAlwaysReads` | `SomeoneReads` |
| `NoCrossTalk` | `AnswerIsOwn` |
| `ReaderAlwaysUnanswered` | `ReaderIsUnanswered` |
| `SuccessIsReal` | `SuccessIsAnswered`, if `Events` is at most `{"destroy"}` |

All but the last allow every failure. The assumptions are those of
`ClientAssumption`: `NULL` is no address, object or reply, files are no dirs,
there are finitely many frames.

*The argument.* `TypeOK` alone is not inductive: `Tail` of a mutex needs that
somebody owns it. `MutexInv` says that each mutex lists exactly the calls whose
`pc` says that they hold it or want it, each once, and that only the first is
past its `lock()`. With that, exclusiveness and the presence of a reader
follow. `FrameType` says that a call in progress has an address and an id.
`AnswerInv` is what dispatch by id needs: the response of a call in
progress has the call's id and class and, if completed, holds the outcome of an
answer to that id or a transport error (`ResponsesOwn`); every packet under way was sent by the server
(`PacketsSent`); the same holds of results (`ResultsOwn`); and a call that was not
made has no id and no result (`IdleFresh`). It says nothing of the list: whatever `first`,
`last` and `next` have become, `complete` writes to a response only if the id
in it is the packet's, and that id was written by the call that now has the
address. That is why cross-talk is impossible although the list is wrong. For
`SuccessIsReal`, `Calm` adds that without failures there are no transport
errors, no runts and no broken stream.

`SftpCallsProofs`, for the same constants:

| Theorem | Statement |
| --- | --- |
| `ImplementsCalls` | `RefinesCalls`, if `Events` is at most `{"destroy"}` |
| `AnswersStay` | `AnswerStays`, unless calls are cancelled |
| `ClosesRelease` | `CloseReleases`, unless the stream breaks or calls are cancelled |

*The argument.* Under the refinement mapping, starting a request is `Invoke`,
the server's reply `Answer`, the return of a call `Finish`, a call on a closed
object `Skip`, and every other step (locks, reading, dispatch, each with all
the list does) changes nothing that an application sees. That `Answer` happens
once and before `Finish` needs `IdInv`: calls have ids of their own (`IdsOwn`),
what the server was asked was written by a call (`AskedByCalls`), and it
answers once (`AnsweredOnce`). With `break` or `cancel` the refinement is false
for three calls: one whose response has fallen off the list returns the default
`ec`, success, that nobody wrote. For `AnswersStay`, a
packet still to be read is the only one with its id, for a response
that is still pending (`Delivered`).

`SftpSequentialProofs`, for any operations, replies, calls and frames
(`MemorySafe` has no run: it holds only of calls made one at a time):

| Theorem | Statement |
| --- | --- |
| `SequentialMemorySafe` | `MemorySafe`, if `MaxInFlight = 1` and `Events = {}` |
| `SequentialQueued` | `PendingIsQueued`, under the same assumptions |

*The argument.* No response is ever taken off the list, but alone a call is all
of it: `last` is cleared when its answer is dispatched, before it returns, and
so the next call overwrites `first`, which nobody has followed since. What the
loop over the list (`hop`, a recursive function) finds in a list of one is shown
by taking the least step at which it would find something else. The assumption
cannot be dropped: with two calls in flight and a third after them
`lost_response` refutes `PendingIsQueued`, and freed responses are accessed.

### The server

`SftpServeProofs`, for any number of workers, any set of requests and either
meaning of `when_any` (`ServeAssumption`):

| Theorem | Statement |
| --- | --- |
| `TypeCorrect` | `TypeOK` |
| `TakenWholeInOrder` | `WholeInOrder` |
| `NoRequestLost` | `NothingLost` |
| `WritesUnmixed` | `RepliesUnmixed` |
| `RepliedOnce` | `OneReply` |

*The argument.* They are parts of one inductive invariant, `IInv`.
`HandshakeInv`: no worker has begun before the handshake is done, and until
then the client has asked nothing. `MutexInv`: each mutex lists exactly the
workers that want it or have it. `StreamInv`: the units in the shared buffer or
with the reader come before those under way, in strictly rising position, and
belong to requests nobody has taken or answered; this is what survives when
workers are stopped in the middle of a packet, and makes replies unique then
(`RequestInv`, `ReplyInv`). `OrderInv`: until then, what is held is exactly
what follows the requests taken (`InLine`), or it is less than a packet and
nothing will come any more (`Dry`). `UnmixedInv`: half a reply is on the
stream if and only if a worker is writing, and it is that worker's.

### Files and directories

`SftpFilesProofs` and `SftpListingProofs`, for any number of readers, entries,
buffers, offsets, openings and transfers, any batch size and buffer sizes
(`FilesAssumption`: no buffer is empty, a batch is at least one entry):

| Theorem | Statement |
| --- | --- |
| `TypeCorrect` | `TypeOK` |
| `HandlesNotReused` | `OwnHandle` |
| `WrittenWhole` | `WriteLanded` |
| `ReadPrefix` | `ReadIsPrefix` |
| `NoEntryLost` (`SftpListingProofs`) | `EntriesKept` |
| `ReadInOrder` (`SftpListingProofs`) | `ListedInOrder` |

*The argument.* `FilesInv` is about requests and handles: who makes which
request and what it carries (`RequestInv`), that the application waits for one
opening or closing at a time (`OneAppRequest`), that a handle is given to one
opening and never again (`HandleInv`), and that, while no call is cut off,
the requests for a file are those of the running transfer, one for each buffer
still waited for, and that the file they are served from is open
(`TransferInv`). `OwnHandle` follows from `HandleInv`, whatever is closed or cancelled.

For transfers, `DataInv` says that what a request has moved so far is in the
file at the place of its buffer (`InPlace`), and so is what a task that is done
has reported (`Arrived`). A write keeps it because buffers lie
apart (`BuffersApart`). `WriteLanded` then is a counting argument: every task
reports its whole buffer or nothing, so a sum as large as possible leaves none
out (`SumsSmaller`). For `ReadIsPrefix`, a buffer that came back short is
followed only by buffers that got nothing, because the file ends there. The
lemmas on `Sums` (that partial sums exist, grow, are bounded, cover every
place) are proved by induction in the form of sets (`SetInduction`): a set of
naturals with 0 and closed under successor has them all.

For directories, `EntryInv` says that each entry the server's iterator has
passed is somewhere, once, an answer that nobody takes included, and that the
others are nowhere yet; the three steps that move entries (a batch, its arrival,
a read) take them from one place to the next. That somebody takes every answer
as long as no call is cut off is part of `OrderInv` (`Waiting`). For reads that
take turns `OrderInv` also says: while a reader waits the buffer is empty and its answer holds what comes next (`Numbered`), the iterator
is behind exactly what was sent (`Reached`), and an answer without entries
means that there are no more (`Answer`).

### Session, channel and message

`SshLoopsProofs`, for any number of coroutines, any operations of each, any
buffer size and any number of units (`LoopsAssumption`):

| Theorem | Statement |
| --- | --- |
| `TypeCorrect` | `TypeOK` |
| `BytesKept` | `BytesInOrder` |
| `OthersDoNotSpin` | `OnlyIoSpins` |
| `TimerSavesReader` | `ReaderNotRobbed` |
| `WholeBufferNeverDone` | `TransferNeverDone`: the finding of `whole_buffer`, for every buffer size and number of coroutines |
| `SuccessIsEarned` | `SuccessEarned` |

*The argument.* `BytesInOrder` is inductive with the types: a turn cuts what
libssh holds in two and appends the first part, and concatenation is
associative. `ReaderNotRobbed` is not: that nobody is robbed needs that
`do_some_io_` sleeps on the socket only with output left over
(`IoWaitsOnTimer`), which needs that a socket that takes none has been noted
(`FullNoted`); that a coroutine that has returned and starts something else is
no longer robbed needs `RobbedRun` and `WaitersRun`. `SuccessEarned` needs that
the answer it speaks of is the only one: a request is on its way, at the peer or
answered, and no two of these (`AnswersOnce`), which a lost connection leaves
alone because only the peer's hanging up loses it (`LostHungUp`); with
`SuccessEarned` itself they are `SInv`.

### The example server

`ServerExampleProofs`, for any finite set of channels and any number of
messages (`ServerAssumption`):

| Theorem | Statement |
| --- | --- |
| `TypeCorrect` | `TypeOK` |
| `WorkIsCounted` | `WorkCounted` |
| `ErrorJoins` | `ErrorExitJoins` |
| `EventNotMissed` | `NoMissedEvent` |

*The argument.* `working` is the cardinality of the coroutines that hold a
channel; each start adds one and each end takes one away. `ErrorExitJoins`
follows from that count at the two ways to the exit, and from `NoneEarly`:
before messages are taken no channel can be opened, so that an error of accept
or key exchange, which does not wait, leaves none behind. `QueuedSent` bounds
what waits for `get_message`, which the types need.

### Only model-checked

Liveness (`CallsReturn`, `EveryRequestAnswered`, `ServeReturns`, `DueReturns`,
`EndsAfterHangUp`, `GrantedServed`, `MainReturns`), which is beyond this
prover; `PendingIsQueued` and `RefinesCalls` for two calls at once on a stream
that may break (`client_operations`), where the list has up to two elements
and a failed write leaves one of them behind.

## Not modelled

The codec's byte layout; the libssh callbacks that forward to the application
and the getters and setters of session, channel and message (`auth_set_methods`
among them); the reads and writes over
several buffers in `channel.hpp`; moving a session in use; the example's
operations on paths, which are calls of the file system; the example client,
which is sequential. The acceptor (but for `accept`), options and error
categories are straight-line wrappers without state.

## Plan

1. Compose client and server: `SftpServe` in the place of `SftpClient`'s
   `ServerReply`, to show what the client makes of the server's replies.
2. `WireCodec`: `match_packet` with its 32-bit sizes, attributes and their
   lengths, against a reference definition.
3. Proofs: two calls at once and none after them (`PendingIsQueued`,
   `RefinesCalls` with `break`), which needs an invariant on the shape of a
   list of two.
