# Verification of asio_client

TLA+ models of the clients and servers of this repository, the TLC runs that
check them, and TLAPS proofs. The repository is a set of small programs on top
of asio. Each has one or two classes with asynchronous operations, and what is
hard in them is not the code of a handler but the order in which handlers,
threads, failures and calls meet.

## 1. Inventory

| part | state | operations | who runs what | hard behaviour |
|---|---|---|---|---|
| `asio-1.28` TcpClient | `reconnect_`, `is_connected_`, `send_msgs_`, socket, timer | connect, send, close; handlers of connect, read, write, timer | handlers on one io thread; `close()` works on the socket from the caller's thread | failures of one connection reported by several handlers; `close()` against reconnection; handlers that arrive after the connection they belong to |
| `udp-asio-1.28` UdpClient, Session | `run_`, `msg_queue_`, mutex, condition variable | start, stop, send; worker loop | one worker thread, any number of senders | lost wakeups, what is sent after stop |
| `asio-1.28_async_client` AsyncClient | `stop_` (true: go on), `write_msgs_`, socket, `timer_` | open, send, close; handlers | one io thread; close and send are posted | timers that outlive `close()`, timers that replace each other, a failed write that leaves its message, a synchronous `resolve()` that throws in a handler |
| `asio-1.28_server_multi` Session, StatisticsHandler | `write_queue_`, socket, counters, statistics map | start, safe_write, read and write handlers, destructor | completion handlers on the thread of `main_io_ctx_`, posted lambdas on a pool thread | data race on the queue; close reported several times |
| `asio-1.28_server_multi` Server, IOContextPool, SessionIdGenerator, main() | acceptor, `sessions_`, `next_index_`, guards, `threads_` | run, stop, accept handler, get_next_io_context | console thread, server thread, pool threads | stop during startup, stop against handlers that post |
| `asio-1.28_server_multi` EchoHandler, CalculatorHandler | none | process | - | none (stateless) |
| `asio-1.28_server_multi_protocol` Session, protocols, detector, Server | `write_queue_`, `read_buffer_`, `protocol_`, sessions | as above, plus process_data and prepare_send of three protocols | N threads in one io_context, no strand | races, workers that start before there is work, bounded read buffer, frames split and joined, 32-bit lengths |
| `asio-1.28`, `asio-1.10` ConnectionBuffer (identical) | `buffer_`, `read_index_`, `write_index_` | append, retrieve*, adjustInternal | io thread | index arithmetic at the ends, overlapping `memcpy` |
| `asio-1.28`, `asio-1.10` TcpConnection | `sending_`, `receiving_`, `state_`, two buffers | startReceive, sendMessage, forceClose, handlers | io thread | buffer moved under a write in flight, repeated close callback |
| `asio-1.10` TcpClient, AsioTimer | `conn_`, `reconnect_`, `interval_`, `timer_` | connect, closeClient, sendMessage, resolve, connect and timer handlers | io thread | chain of retries that ends silently |
| `asio-1.28_server_single` | socket, 1 KiB buffer | read, write, accept | one thread | little: one operation per session at any time |

The parts share no code but asio. Within a part the components interact through
completion handlers and posted lambdas (the queue of an io_context), callbacks
into the application, and state shared between threads without a lock.

What makes each part correct, in the order of importance: no operation or
message is handled twice or forgotten; a client that is to reconnect always
does and a closed one never does; buffers live as long as the write that uses
them; `stop()` and `close()` end what they promise to end.

## 2. Plan

1. `TcpClient`, with `IoContext` (done; proofs `IoContextLemmas`,
   `TcpClientProofs`).
2. `UdpClient` (done; proofs `UdpClientProofs`).
3. `AsyncClient` (done; proofs `AsyncClientProofs`).
4. `MultiSession` (done; proofs `MultiSessionProofs`) and `MultiServer` (done;
   proofs `MultiServerProofs`).
5. `ConnectionBuffer`, `TcpConnection` on top of it and `Asio110Client` on top of
   both (done; proofs of all in `Asio110ClientProofs`).
6. `Framing` and `ProtocolSession` on top of it (done; proofs
   `ProtocolSessionProofs`), and `ProtocolServer` (done; model-checked).
7. `Channel`, the abstract specification of the three message queues (done).
   `TcpClient`, `UdpClient` and `AsyncClient` are proved to implement it.

Every safety property that a passing run checks is also a theorem; what is left
is liveness.

## 3. Modules

Every handler runs from its beginning to its end in one step, unless another
thread can see the middle of it; then it is one step for each statement the
other thread can observe. Messages are numbers in the order of `send()`.
History variables are declared apart from the state: nothing but their own
updates and a bound reads them.

**IoContext** is asio as the clients use it (external). An operation is
outstanding in two forms: in the set `pending`, started and not finished; or as
a record in the sequence `ready`, finished with an error code and waiting to be
run. `post` appends to `ready` too. Closing a socket moves its pending
operations to `ready` as aborted, in any order.

**Channel** is what the clients promise about messages. `waiting` is the set of
the messages, as numbers in the order of acceptance, that may still be
delivered: `Accept` adds one, `Deliver` takes the oldest, `Lose` takes any. The
refinement mappings say what of a client that set is. For `UdpClient` it is the
message in the worker's hand and those in `msg_queue_` (`Waiting`). For
`TcpClient` and `AsyncClient` it is what their deque and the posts of `send()`
hold, without what was written already (`InFlight`): a message stays in the deque
while it is written, so delivery is the end of the write and not the
`pop_front()`. The channel loses what a reconnect clears, what a failed write
leaves or drops, and what is posted to a socket that is closed by then.

**TcpClient** (`src/asio-1.28/src/tcp_client.cpp`). `caller` says how far the
application is in `close()`, one step for each of its statements, and `sender`
how far another thread is in `send()`, between its test of `is_connected_` and
its post. Handlers: `Connected`, `ConnectFailed`, `Received`, `ReceiveFailed`,
`Enqueue`, `Sent`, `SendFailed`, `Reconnect`. `doReconnect()` reads
`reconnect_` in the handler and sets the timer in a step of its own,
`ArmTimer`, so that `close()` can come between. `clearSendMsgs()` and
`socket_.close()` before that are one step: only the io thread uses `send_msgs_`,
so a step of `close()` between them has the same outcome as before both. `SentNothingQueued` is
`pop_front()` on an empty deque: undefined, so the model stops in the io state
`"undefined"` and claims nothing about what follows. `socket` is `"closed"`,
`"opening"`, `"refused"` (open, not connected), `"connected"` or `"broken"`.

**AsyncClient** (`src/asio-1.28_async_client/src/async_client.cpp`). The same
shape; `close()` is `CloseDisarms` (stop_ = false) and `ClosePosts`, and the
handlers are single steps because application threads share only `stop_`.
`schedule_reconnect` replaces `timer_`, which aborts the wait of the old one if it
is pending. A timer expires at any time, also while other handlers wait
(`OsTimer`); one that has expired is not aborted any more, and its handler
connects although `timer_` was replaced. The handler of a write that failed can
be ready beside it: then there are two lives, the connection that the old
timer's handler makes and the new timer, which will close it. With two lives a
second read can be started while the first is outstanding: `"recv again"`.
The synchronous `resolve()` of `connect()` may throw: out of `open()` to the
caller (`OpenThrows`), and out of the handler of the timer through `run()`, which
ends the process (`ReconnectThrows`).

**UdpClient** (`src/udp-asio-1.28/include/udp_client.hpp`). The worker's states
follow `cv_.wait`: `test` evaluates the predicate under the mutex, `block` is
between the test and the wait set, `waiting` is in it, `woken` locks again.
`run_` is changed by `StopClears` without the mutex.

**MultiSession** (`src/asio-1.28_server_multi/src/test.cpp`, Session and
StatisticsHandler). The socket of a session was accepted by an acceptor of
`main_io_ctx_`, so the completion handlers run on its thread (`main`), while
what `start()` and `safe_write()` post to `io_ctx_` runs on a pool thread
(`pool`). Every use of `write_queue_` is a step: `PoolTests`, `PoolPushes`,
`PoolWrites` against `SentPops`, `SentTests`, `SentWritesNext`,
`SendFailedClears`; between the last of these and `SendFailedCloses` the pool
thread may push and start a write, which the close then aborts. `async_write` may send at once on the calling thread and
queue its completion only then (`PoolWrites`, `PoolCompletes`). `Race` holds
when the next steps of the two threads both use the queue and one changes it.
The deque calls themselves are atomic in the model: it shows what goes wrong
even then, and says nothing of deques torn by a race.

**MultiServer** (same file, Server, IOContextPool, main()). The console thread
goes through `stop()` a statement at a time, the server thread through
`IOContextPool::run()` a thread at a time and through the accept handler in
four steps; `posted` counts what waits in each pool context. `StartThrows` is the
exception of `Session::start()` for a client that has reset its connection: it
leaves the server thread and ends the process (`"crashed"`) at any moment,
during `stop()` too. The join loop runs
over the threads that are there when it begins; that another thread may grow
the vector meanwhile (a data race in the code) is left at that.

**ConnectionBuffer** (`connection_buffer.h`, `connection_buffer.cpp`; translated
from `src/asio-1.10`, and `src/asio-1.28` has the same files). No state of its
own: a buffer is a record, a member function an operator. `Compact` and `Resize`
are the two ways in which the bytes move; `Overlaps` says when the `memcpy` of
the first is undefined.

**TcpConnection** (`src/asio-1.10/src/tcp_connection.cpp`) has the state of the
connection that the client holds and one action for each posted function and
each outcome of a handler. A write in flight refers to `writing` bytes from
`readPtr()` on, so an `append` that moves the buffer then is
`sendInServiceUnsafe`, and the model stops there.

**Asio110Client** (`tcp_client.cpp`, `asio_timer.cpp` of `src/asio-1.10`) extends
it with resolve, connect, timer and the calls of the application. A failed
connect replaces `conn_`; handlers still bound to the old connection become
`"orphan"`, which has no effect the client can see. The branch of
`handleConnect()` for a further endpoint is not modelled: `async_connect` reports
an error with endpoints left only when the socket was closed meanwhile, and
nothing closes it.

**Framing** (`src/asio-1.28_server_multi_protocol/src/test.cpp`, the three
protocols). `process_data` of each is an operator from the bytes in the buffer to
how many it processed, the frames it handed over, and whether it read behind the
buffer. The loop of the line protocol is the recursive function `LineLoop`, one
`LineByte` for each byte. The binary protocol computes `4 + payload_length` modulo
`Width`, which stands for 2^32. `Split` is the reference: it takes a whole stream
byte by byte, with no buffer and unbounded numbers; `SplitAt` says what the first
`n` bytes of a stream are split into.

**ProtocolSession** (same file, Session with the EchoHandler). Any thread of the
io_context may run any handler. The handler of a read shares no data with the
others, and there is one read at a time, so it is one step: it splits the bytes
with `Framing`, posts the responses, moves the rest of the buffer down and reads
again. The lambda of `safe_write()` and the completion of a write both use
`write_queue_`, and each use is a step of the thread that took the handler: `Tests`,
`Pushes`, `start_writing` for the first, `WrotePops`, `WroteLooks`, `start_writing`
for the second, `WriteFailed`, `Closes` after a failure. The threads interleave
between these steps as they like. A test, then a pop on another thread, then the
push leaves a response that nobody writes; two lambdas that both find the queue
empty start two writes. `front()` or `pop_front()` of an empty queue, and a write
whose response was popped meanwhile, end in `"undefined"`. `Inside` says that a
thread has begun to use the queue and is not done with it, `Meet` that two are so
at once; what the code guarantees about responses it guarantees while `Meet` does
not happen. As in `MultiSession` a single call of the deque is atomic. With no room in the buffer the read is of no bytes and done at
once (`ReceivedNothing`): the session spins, and sees neither data nor the end of
the stream. `Init` chooses a protocol that is registered. The server never does
(next module); the class is modelled for one that would.

**ProtocolServer** (same file, Server, ProtocolFactory's names and main(), for one
client). The constructor starts the workers and only then the first accept;
`io_context::run()` that finds no work outstanding stops the io_context, for the
other workers and for work that is started later. The accept handler tests
`is_open()` and accepts again in two steps (`TestOpen`, `AcceptAgain`), so that
`stop()` can come between. It constructs
a Session for the protocol `"detect"`, which is not registered: `create` returns
a null pointer, the constructor throws, and the process ends.

The MC modules only extend these; the bounds are constants.

## 4. Runs

| run | checks | result |
|---|---|---|
| `tcp` | `OneLife`, `WriteBufferAlive`, `CloseIsFinal`, `ImplementsChannel`, `LossReportedBetweenConnects`, types; liveness `DisconnectLeadsToConnect`, `FrontIsWritten`, `CloseEndsRun`; 4 messages | holds, 168,710 states |
| `tcp_close_throws` | `CloseReturns` | violated: `cancel()` on the socket that `doReconnect()` has closed |
| `udp` | `NoLostWakeup`, `AtMostOneAfterStop`, `ImplementsChannel`, types; liveness `QueuedIsTaken`, `StopReturnsUnlessBlocking`; 2 senders, 4 messages | holds, 5,884 states |
| `udp_stop` | `StopReturns` | violated: lost wakeup |
| `async` | `OneLife`, `OnlyFailureStrands`, `ImplementsChannel`, types; liveness `Reconnects`, `CloseEndsRunUnlessArmed`; 4 messages | holds, 142,538 states |
| `async_close` | `CloseEndsRun` | violated: the timer reconnects after `close()` |
| `session` | `PatientInOrder`, `EntryIsTransient`, types; liveness `PatientIsAnswered`, `LeaveIsReported`; patient and other clients, 4 requests, up to 2 ahead | holds, 58,889 states |
| `session_lost` | `RequestIsAnswered`; one request at a time | violated: a response stays in the queue |
| `server` | `KeepsAccepting`, `LostAtMostOne`, types; liveness `LateStopIsClean`, `StopEnds`; 3 contexts, 4 sessions | holds, 22,215 states |
| `asio110` | `OutputInOrder`, types; liveness `RetriesUnlessUnresolved`, `WriterGoesOn`, `CloseEndsRunIfReading`; messages of 3, 1 and 1 bytes, buffers of 5 | holds, 139,106 states |
| `protocol` | `SplitsTheStream`, types; liveness `LeaveIsReportedUnlessFull`, `ResponseIsWritten`; 2 threads, the 3 protocols, all streams of 4 bytes cut in all ways | holds, 366,485 states |
| `protocol_accept` | `ClientIsServed`; 2 workers | violated: a worker's `run()` comes before the first accept and stops the io_context |

### What the violations say

Each states what a comment, a message or a calling program of the repository
says, and `PROJECT.json` quotes it. The two that bite most easily: a UDP client
whose `stop()` never returns, and a server session whose queue stops for ever
because two threads use it. The race needs no pipelining: the pool thread sends
a reply inside `async_write`, the client answers before that thread has queued
the completion, and the handler of the completion then meets the lambda of the
next response.

More that the models show and no run states:

- `stop()` of `asio-1.28_server_multi` that overtakes `run()` at startup joins
  only the threads that are there, and destroying the others ends `main()` in
  `std::terminate()` (`MultiServer`; `LateStopIsClean` is about a later `stop()`).
- A client that resets its connection before `Session::start()` ends the whole
  server process: `remote_endpoint()` throws and nothing catches it
  (`StartThrows`). `LateStopIsClean` says that this is all that keeps a late `stop()`
  from ending normally.
- After a failed write the asynchronous client may have two lives: the timer that
  the write set closes the connection that an expired one made (`OneLife` says
  that it never has three, and never none).
- In a protocol session the queue loses responses in the same way as in
  `MultiSession`: without the condition `[]~Meet` the property `ResponseIsWritten`
  is violated.
- `on_session_closed` is called by the read loop or a failed write and again by
  the destructor, so the count of active sessions, a `size_t`, wraps below zero.
- `AsyncClient::send()` says `Socket not connected. Message dropped.` under the
  condition `!is_open()`, which does not hold while a connect is in progress or
  after one was refused: such a message is queued, and if its write fails it stays
  at the front and no later connection writes anything (`OnlyFailureStrands`: this
  happens exactly when a write has failed).
- `append()` of `ConnectionBuffer` moves the bytes of a write in flight as soon as
  the data does not fit behind them. No large amount is needed: one byte queued
  behind a write is enough in a small buffer.
- In a protocol session two lambdas of `safe_write()` may reach the queue in the
  other order, so that the responses to pipelined frames change places.
- The fixed-length and binary protocols handle one frame for each read. A second
  frame that came with the first stays in the buffer until more data comes
  (`SplitsTheStream` counts it among the frames still there).

### Bounds, and why they are enough

Messages matter up to: one being written, one behind it, one posted and not yet
run, one that `send()` has tested and not posted. Hence 4.
The number of connections, timers, reads and failures is not bounded: the state
space is finite because at most one life is in progress, or two in `AsyncClient`. `MaxSends` and
`MaxRequests` bound the messages, `MaxSessions` the connections of the server
(one more than its 3 contexts, so that the round wraps), `MaxPosts` the handlers
that wait in a context. `MaxIn` is the size at
which the receive buffer of `Asio110Client` no longer grows, and `Short` says by how
many bytes a read may fall short of the room in it: 0 or 1, a buffer that is filled
and one with a byte of room (the proofs are for every `Short`, so for reads of any
length); the lengths 3, 1, 1
with a buffer of 5 are the smallest with which `append` takes each of its three
branches, with and without a write in flight. `Window` is how
many requests a client that is not patient may have unanswered. `SizeMax` stands
for the largest `size_t`; only the step from 0 to it matters.

`ProtocolSession` scales the sizes. A byte has `Base` = 3 values (LF, CR and one
more), a header `Header` = 2 of them, so lengths go from 0 to 8 and `Width` is 9;
the lengths 7 and 8 wrap. `BufferSize` = 3 holds three frames of `FrameSize` = 1,
of which one read handles one and leaves two waiting; three empty lines; and a binary
frame with no payload and the first byte of the next. A line or a binary frame of 4
bytes does not fit. Frames cut by a read are those of the line and binary protocols.
`MaxBytes` = 4 is one byte more than the buffer, and `MaxFrames` = 2
stops the client when that many frames were handled (one read may bring more
lines than that). Two threads are enough for any pair of handlers to meet.
`WorkerCount` = 2 gives `ProtocolServer` a worker that is late beside one that is
early.

Deadlock is not checked: a client that was closed, a server that was stopped
and a model that has met undefined behaviour really stop.

### Fairness

All passing runs check the specification with fairness; safety does not depend
on it. Weak fairness for every thread that runs handlers or a loop, since the operating
system schedules it; for a thread that has entered `close()` or `stop()`; for
the operating system to end connects and writes, to expire timers and to report
a connection that is broken. None for calls of the application, data from the
peer, the loss of a connection or spurious wakeups. `CloseEndsRun` therefore
never relies on a peer that happens to disconnect.
The same holds for the workers of the protocol server and its session. Only
`ProtocolServer` uses strong fairness, for `OsAccepts`: an accept may fail and be
repeated any number of times, and not for ever; without it the violation of
`protocol_accept` could be a run of failing accepts.

### Assumptions

- One thread runs each io_context, and takes handlers first in, first out; in the
  protocol server several threads do, and take them first in, first out too.
- A write on a socket whose connect is in progress waits for it.
- `AsyncClient`: a name has one endpoint, so that a connect is one attempt.
- `patient` in `MultiSession`, chosen in `Init`, states besides the waiting that a
  reply takes longer to reach the client than the sending call takes to return;
  the run has both kinds of client, and only the properties named `Patient...`
  assume that kind.
- A request reaches the server in one piece (two pieces are two requests).
- `Asio110Client`: a name has one endpoint, the callbacks are set, and the
  receive callback takes what there is or leaves one byte.
- `connect()`/`open()` and `close()` are called once, in this order, and
  callbacks do not call back into the client.

## 5. Proofs

All for every value of the constants.

`IoContextLemmas`: what taking a handler, appending one, and moving a set of
operations from `pending` to `ready` does to `Outstanding` and `AtMostOne`, and
to the members of a queue and their order. `Pairs(q, R)` says that every two
members stand in the relation `R`, which is how the proofs say "the posts wait in
the order of `send()`"; `Quieter` collects the changes of a queue that keep such
an order and add none of the handlers it is about. `Ordered` is the invariant of
`Channel`: what was delivered is increasing, bounded by what was accepted, and
older than everything waiting. Accepting, losing and delivering the oldest keep
it, so a client that implements the channel delivers in order and at most once:
each client's `InOrderTheorem` is this argument under its refinement mapping.

`TcpClientProofs`: `TypeCorrect`, `OneLifeTheorem` (from `SingleChainTheorem` and
`ChainAliveTheorem`), `ConnectedIsWatchedTheorem`, `CloseIsFinalTheorem`,
`LossReportedTheorem`, `WriteBufferAliveTheorem`, `ImplementsChannelTheorem` and
`InOrderTheorem`, all from `Invariance`, whose invariant is `IInv`: `Shape`
(types, with the fact that a timer handler is never an aborted one), `LifeCycle`
and `Written`. None of the parts is inductive alone.

- `SingleChain` needs to know that a timer is only outstanding while the socket is
  closed, since otherwise closing it would add handlers beside the timer's.
  `CloseIsFinal` needs that after `cancel()` of an open socket no timer can be
  outstanding, which comes from the same fact together with `reconnect_` being
  false by then. `LossReportedBetweenConnects` needs that the last notification
  `CONNECTED` implies a read loop still outstanding, so that the next connect
  cannot happen before it has failed and been reported.
- `WriteBufferAlive` says that the string given to `async_write` stays at the front
  of the deque until the write has finished. What threatens it is the handler of
  an earlier connection's write, which removes the front whatever that is by then.
  `FrontIsSafe` excludes it: beside a write there is no finished one, because the
  handler of a finished write is in front of the timer's, so it has run before the
  next connect is even started.
- For the refinement, `InLine` keeps three groups of numbers apart: those written
  are older than those in the deque, but for a front that is written and not yet
  removed, and both are older than those posted. `Simulation` is then a split into
  steps that leave the messages alone or lose some (`Quietly`), `SendPosts`
  (accepts), `Enqueue` and `Sent` (move or remove what the mapping does not see),
  and `OsWriteDone` (delivers).

Assumption: `MaxSends` is a natural number.

`UdpClientProofs`: `TypeCorrect`, `NoLostWakeupTheorem`,
`AtMostOneAfterStopTheorem`, `ImplementsChannelTheorem`, `InOrderTheorem`. `IInv`
adds to the properties: who holds the mutex in each state of the worker (a message
cannot be queued between the test and the wait set), that a worker that took a
message after the stop is not at the queue again (`Stopping`), that the worker
holds no message while it is at the queue (`EmptyHanded`), and that the hand is
older than the queue and the queue in order (`InLine`). `Simulation` is the step
of the refinement: queuing a message is `Accept`; taking one moves it from the
queue to the hand, which the mapping does not tell apart, but only because the
hand was empty; the end of the worker's send is `Deliver`, or `Lose` when it failed
or the message is empty. Assumptions: `MaxSends` is a natural number and the
senders are none of the words that `mtx_` uses for the worker and for free.

`AsyncClientProofs`: `TypeCorrect`, `OneLifeTheorem`, `OnlyFailureStrandsTheorem`,
`ImplementsChannelTheorem`, `InOrderTheorem`. `LifeCycle` counts what leads to the
next connect: `Count` is the number of pending connects, reads and timers and of
their handlers in the queue, without those of timers that were aborted. Every
handler that takes one of these starts at most one; only the handler of a failed
write starts one without taking any, and a write fails once in the life of the
client, because no later one is started (`OneWriter`). Hence one, and after the failed
write two. That replacing a timer does not add one is because an aborted wait
does not count, and one that has expired stays what it was. The lemmas about
`Places` in `IoContextLemmas` say how a count changes with each way of taking,
appending and aborting.
`OneWriter` ties the write that is outstanding to the front of the deque. `InLine`
is as for `TcpClient`, though here the deque survives a reconnect: while it holds
messages only the handler of a write starts the next one, and that of a
successful write removes its message first, so no front is written twice.
Assumption: `MaxSends` is a natural number.

`MultiServerProofs`: `TypeCorrect`, `KeepsAcceptingTheorem`,
`LostAtMostOneTheorem`, `HowItEndsTheorem`. A pool thread ends only when its
guard is gone; by then `main_io_ctx_` is stopped and takes no further handler
(`Stopping`), so only the accept handler that `stop()` met can still post to a
context whose thread has ended, and it posts once (`OneStranded`). `Joining` and
`Spawning` say when the join loop misses a thread: only when `run()` was still
creating threads as `main_io_ctx_` was stopped, so that no handler of it ever
runs and no session is ever created. Hence `HowItEndsTheorem`: `main()` ends
normally only with all threads joined; it ends at a thread that was not joined only
after so early a `stop()`; and the exception of `start()` strikes before the joins
begin or with all threads found, since it needs a handler of `main_io_ctx_`.
Assumptions: `PoolSize` and `MaxPosts`
are positive and `MaxSessions` is a natural number.

`Asio110ClientProofs` is first about `ConnectionBuffer`: `AppendIsFifo`,
`RetrieveReadIsFifo`, `RetrieveWriteLeavesRoom`, `AdjustKeeps`. The buffer is a
queue of bytes for every `buf_size`, buffer and length: each call keeps `IsBuffer`
(indices in order, room for one byte) and does to `Content` what it should. They
rest on a lemma for each way of changing the vector (`PutAppends`, `CompactKeeps`,
`ResizeKeeps`) and on `GrowthExceeds`, that `append` grows the vector by more than
the data. Then, about the client: `TypeCorrect`, `OutputInOrderTheorem`,
`OneOperationTheorem`. `TypeOK` includes
`IsBuffer` of both buffers, so it is not about types alone: `retrieveWriteIndex`
is called with the count of a read that was started on a buffer of an earlier
moment. `IInv` has these parts.

- `OneChain`: of resolve, connect, timer, the posted `receiveInService` and the
  read at most one is outstanding. `OneWrite`: a write only with `sending_` set, and
  none beside an attempt to connect. Together they say that the connection which
  replaces another after a failed connect meets no completion of the old one that
  would move its indices.
- `Reading`: the count of a finished read is at most the room in `buf_in_`. It
  needs `OneChain`: only the handler of that one read uses the buffer.
- `InOrder`: there are bytes `p`, written and removed, and a number `k`, the bytes
  written whose handler has not run, such that `given` is `p` followed by the
  content of `buf_out_`, and `wire` is `p` followed by the first `k` bytes of that
  content (`Streaming`). `append` extends the content (`AppendIsFifo`), the end of
  a write sets `k`, `handleSend` moves `k` bytes from the content to `p`
  (`RetrieveReadIsFifo`), for which the one write must be the one that `k` counts.

Assumptions: `BufSize` is positive, 0 and the numbers of the messages are bytes,
`Sizes` is a sequence of natural numbers, `MaxIn` is one; nothing is assumed of `Short`.

`MultiSessionProofs`: `TypeCorrect`, `EntryIsTransientTheorem`,
`PatientInOrderTheorem`. `IInv` has these parts.

- `OneRead`: the lambda that enters the read loop, a read and the handler of one
  exclude each other, and while the session has its entry in `session_stats_` there
  is one of them. A read may start the next only because its own handler is
  gone from the queue by then.
- `Seen`: what a thread found in a queue from which only it takes is still there
  when it comes to use it: the front of `write_queue_` for the main thread, the
  posted lambda for the pool thread. The pool thread has no such certainty about
  `write_queue_`, and where it then takes the front of an empty one the model stops.
- `Turns`, for a patient client in the sense of section 4 only: the session goes through the phases
  `Between`, `Answering`, `Writing`, `Written` for each request, and ends in `Failing`
  or `Lost` when a write has failed. Each phase fixes both threads, the queue, the
  writes and the handlers that wait, so that the two threads are never both at
  the queue, and the reply written is the one to the last request. The next request
  may come as soon as the reply is written, before the handler of the write has
  run; `ReplyFirst` says that this handler is then in front of that of the request,
  so the queue is empty again when the next response comes to it. Without `patient`
  the phases overlap: that is the violation of `session_lost`.

Assumptions: `MaxRequests` is a natural number, `SizeMax` and `Window` are positive.

`ProtocolSessionProofs`: `ProcessDataRight`, `TypeCorrect`,
`SplitsTheStreamTheorem`, `OneWriteTheorem`, for any number of workers and every
size of a byte, a header, a frame and the buffer.

- The prover has no rule of induction whose predicate is an operator. `Least` takes
  the least number of a set from the well-foundedness of `<`, and `Induction`, from
  that, says that a set with 0 and with each number up to `L` the next has them
  all. `Recursion` gives the existence of a recursive function, from which
  `SplitAtDef`, `LineLoopDef` and `NumberDef` get the equations of the three that
  `Framing` defines.
- `Along`: two streams that go on with the same bytes, of which the first is ahead by
  the frames `h`, stay so: what came before matters only through the bytes of
  the frame that is not complete. `SplitGoesOn` (a read adds the same bytes to the
  stream and to the buffer) and `SplitDrops` (the processed bytes leave the
  buffer) follow.
- `ProcessDataRight`: what `process_data` returns is a place where the splitting has
  exactly the frames handed over and nothing begun. For the fixed and the binary
  protocol this is `FirstFrame`; for lines `LineAt` is the invariant of the loop,
  with the fact that the byte before a line is an LF, so that a CR is never taken
  from an empty line. Otherwise the sum of a binary length wrapped (`Wraps`).
- `Stream`, the part of `IInv` about the reads: the stream is split as the
  buffer is, behind the frames handed over; and every frame took at least a byte,
  which bounds the numbers of the responses.
- `OneWriteTheorem` is about the writes, and under the condition that no two threads
  meet in the queue (`Spec /\ []~Meet`): at most one of an `async_write`, a waiting
  handler of one, and a thread that runs that handler (`OneWrite`); the response is
  the front of the queue; and with none the queue is empty, so nothing waits
  without a writer. A thread that has tested the queue still finds what it found,
  because another can use the queue meanwhile only by meeting it. Hence `Defined`:
  no `front()` or `pop_front()` of an empty queue. The theorem says nothing from the
  first meeting on, where it is false; `TypeCorrect` and `SplitsTheStreamTheorem`
  hold through all meetings.

Assumptions: a byte has at least two values, headers and frames are positive and
fit in the buffer, and the buffer is smaller than `Width` (in the code 4096 and
2^32); `MaxBytes` and `MaxFrames` are natural numbers.

Only model-checked:

- everything about liveness (fairness and ENABLED are out of the prover's reach);
- `ProtocolServer`, whose one property is about liveness and does not hold.

## 6. Not modelled

- `asio-1.28_server_single`: one thread, and one operation of a session at any
  time, so there is nothing to interleave and no order to explore.
- `EchoHandler` and `CalculatorHandler` of `asio-1.28_server_multi`: stateless text
  processing.
- `ProtocolDetector`, `set_protocol()` and the metadata of a session: the detector
  is commented out in `main()`, and the others are called by nobody else. What
  `prepare_send()` adds to a response, and the destructor of a protocol session.
- `TcpConnection` of `asio-1.28`, which no other file there uses; it is the class
  that `TcpConnection` models from `asio-1.10`.
- The lifetime of objects: `send()` of TcpClient captures a bare `this`, the
  destructors of the clients. The data race on `socket_` between `close()` and
  the handlers is modelled at the level of whole socket calls.
- What a program does after undefined behaviour.
- Contents of messages, logging and the statistics' byte counts.
