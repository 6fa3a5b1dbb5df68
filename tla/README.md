# TLA+ models of the freeopcua binary client

This directory holds TLA+ models of the OPC UA binary client engine in
`src/src/client/binary_client.cpp`, the TLC configurations that check them,
and `PROJECT.json`, which maps every definition to the source lines it
translates and lists the runs, mutants, findings and hazards.

## 1. Inventory

### Components and their state

| Component | Code | State | Operations |
|---|---|---|---|
| Request correlator | `BinaryClient::Send<Response>`, `Send<Request>`, `CreateRequestHeader`, `CreateSequenceHeader`, `RequestCallback` | `RequestHandle`, `SequenceNumber`, `RequestNumber` (atomics), `Callbacks` (map handle -> callback, guarded by `Mutex`), per call a stack `RequestCallback` (Data, header, mutex, condition variable) | register slot, frame + write under `send_mutex`, wait with 10 s timeout, erase on failed write / timeout |
| Receive loop | `Receive()`, the `ReceiveThread` lambda | the input side of `Stream`, `Finished` | read header, branch on type (open / error / message), size check, read body, look up handle under `Mutex`, run callback, erase |
| Publish path | `Publish` and its `ResponseCallback` | a slot per outstanding publish (no timeout) | register, write, on response decode and post a dispatch lambda |
| Notification dispatcher | `CallbackThread` | `Queue`, `Mutex`, `Condition`, `StopRequest` | `post`, `Run` (predicate wait, drain, call outside the lock), `Stop` |
| Subscription registry | `PublishCallbacks`, `CreateSubscription`, `RemoveSelfReferences` | map sub id -> callback, **no lock** | insert/overwrite, clear on `CloseSession` / `AbortSession` |
| Browse continuation | `Browse`, `BrowseNext`, `Release` | `ContinuationPoints` (mutable member, **no lock**) | clear and refill after each response |
| Handshake / secure channel | `HelloServer`, `OpenSecureChannel`, `CloseSecureChannel`, `Send<OpenSecureChannelRequest>` | `ChannelSecurityToken`, `AuthenticationToken` | hello/ack, open (stores token), close (best effort) |
| Lifecycle | constructor, `~BinaryClient` | the two threads, `Finished` | start worker, hello, start receive thread; set `Finished`, stop + join worker, stop channel, join receive thread |
| Socket channel | `src/src/core/socket_channel.cpp` | a socket fd | `Receive`, `Send`, `Stop` |
| Server application | `src/exe/src/server.cpp` | `Addons` | `Start`, `GetAddonsManager`, `Stop` |
| Server options, interfaces | `server_options.cpp`, `computer.h`, `opc_tcp_processor.h` | none | argv / XML parsing, declarations |

### How they interact

Any number of caller threads call the typed wrappers (Read, Browse, ...),
each of which is `Send<Response>`: it takes a fresh handle, inserts a slot
into `Callbacks`, takes a sequence number, writes the frame under
`send_mutex` and waits on its `RequestCallback`. The one receive thread reads
frames and runs the slot registered under the response's handle while holding
`Mutex`, then erases it. A Publish slot's callback, instead of waking a
caller, posts a lambda to `CallbackThread`, whose single worker looks the
subscription up in `PublishCallbacks` and runs the user's callback. The
application thread writes `PublishCallbacks` (CreateSubscription) and clears
it (CloseSession, AbortSession). The destructor stops and joins the worker,
then stops the channel and joins the receive thread.

### What is hard

* Interleavings of callers, the receive thread and the worker around three
  condition variables, two of which are notified without their mutex
  (`RequestCallback::OnData`, `CallbackThread::Stop`).
* Responses that are late, duplicated, reordered or lost; the receive loop
  dying on a bad frame; writes that fail half way through a call.
* Timeouts racing late responses.
* Counters at their width (`RequestHandle` is a `uint32_t`).
* Shared maps without locks (`PublishCallbacks`, `ContinuationPoints`).
* Teardown order between the three threads.

### Properties each component needs

* Correlator: a caller receives only its own response; no slot outlives its
  call; a response runs a slot at most once; every call returns; a stored
  response wakes its caller; handles are not reused while live; frames go out
  in sequence order.
* Dispatcher: the worker never sleeps with work queued; every posted
  notification is run; stop makes join return; no callback after the session
  is closed; a publish response cannot end the process.
* Browse: the continuation points used are those of the latest response.
* Secure channel: frames are never interleaved on the wire; every frame
  carries the current token.
* Lifecycle: the destructor terminates; it joins both threads before it
  returns; stopping the channel releases the receive thread.

The hazards, each at its source line, are listed in `PROJECT.json`
("hazards"), with the properties that cover them.

## 2. Modules

### `Correlator.tla` (request correlator, Publish registration, receive loop)

Constants: `Callers` (caller threads), `Pub` (owner tag of a Publish slot),
`NoData`, `Statuses`, `Good`, `HandleBits` (width of `RequestHandle`),
`MaxRequests`, `MaxResponses` (bounds), `SpuriousWakeups`.

Variables correspond to the code: `RequestHandle`, `SequenceNumber`,
`Callbacks` (a function from handle to owner: a caller or `Pub`), per caller
`pc`, `kind`, `handle`, `sequence` and `Data` (the caller's current
`RequestCallback::Data`). `wire` is the sequence of frames written, `inbox`
the frames the server wrote and the receive thread has not read, `rxAlive`
whether the receive loop runs, `posted` what the publish callback posted. The
history variables `issued`, `responses`, `deliveries` bound the model and feed
the properties.

Each caller step is one statement group of `Send<Response>` / `Publish`:
`SendRegister` / `PublishRegister` (take handle, insert slot with
`map::insert` semantics), `CreateSequenceHeader` (before `send_mutex`),
`WriteFrame` (under `send_mutex`), `SendWriteFailed` (catch: erase, return
default) and `PublishWriteFailed` (exception escapes, nothing erased),
`BeginWait` (`wait_for` blocks), `SpuriousWakeup`, `ReturnData`, `TimeOut`,
`EraseOnTimeout`. The `RequestCallback` condition variable is the caller's pc:
`OnData`'s `notify_all` wakes the caller only in `"waiting"`. The receive
thread reads a frame when it does not hold `Mutex` (`ReadNext`, `rxSlot` is
`NoData`) and handles it in one step: `ReceiveError`, `ReceiveMalformed` (both
end the loop), `ReceiveUnmatched`, `ReceiveDeliver` (takes `Mutex`, runs
`OnData`: store and `notify_all`) or `ReceivePublish` (takes `Mutex`, posts).
The last two leave `rxSlot` set: Receive still holds `Mutex`, and
`ReceiveErase` erases the slot and releases it. Caller steps that lock
`Mutex` (register, the two erases) wait for `rxSlot = NoData`; the woken
caller does not, since `wait_for` reacquires only the `RequestCallback`
mutex, so `Send` can return before its slot is erased. The server is an environment that answers any frame on the wire in any
order, any number of times, or never, and may write an error or malformed
frame. Message contents are abstracted to the response's handle and status.

The end of the module maps `Correlator` onto `RequestResponse`
(`RR == INSTANCE RequestResponse WITH ...`). A caller is in a call while it
is inside `Send<Response>` (`InCall`), the call's ticket is its handle, and its
answer is `Data`. Publish steps are stuttering steps of the abstract
specification.

### `RequestResponse.tla` (what `Send<Response>` promises)

An abstract specification with no handles, slots, frames or condition
variables. Per caller it has `state` (idle or busy), `ticket` and `answer`.
Its actions:

* `Call`: start a call under a ticket.
* `Answer`: the call's own answer arrives, at most once.
* `Return`: go back to idle, with the answer or without one (a default
  response).

`Return` is weakly fair, so every call returns.

### `Lifecycle.tla` (constructor, receive loop, destructor, socket)

This module composes the Dispatcher: it declares the Dispatcher's constants
and variables and takes `D == INSTANCE Dispatcher`. It adds:

* `lpc`: the owning thread's position in the constructor or destructor.
* `rx`: the receive thread.
* `sock`: the socket, which is open, shut by us, or closed by the peer.
* `Finished`, and the count `frames` of frames the server sent.

The steps:

* Constructor: `StartCallbackThread` (the worker's steps are enabled from
  here on), `HelloServer` and `StartReceiveThread`. `HelloServer` succeeds on
  an open socket, whatever header the server sends. Or it throws, and the
  process ends because `callback_thread` is still joinable.
* Receive thread: `RxCheck` is the `while (!Finished)` test. `Finished` is a
  plain `bool` written by another thread, so the read may return the old
  value.
* `RxFrame`: a publish response posts to the worker (`D!Post`), any other
  frame continues the loop, and an error frame ends it.
* `RxClosed`: `recv` returns 0 after a shutdown or a peer close, and
  `Receive` throws.
* `RxShort`: the fault at `socket_channel.cpp:70`. The socket is shut down
  or closed while a frame is in transit. `recv` returns the bytes it got,
  and `SocketChannel::Receive` returns the requested size all the same. The
  partly filled buffer goes on to `Receive` with any outcome a frame can
  have (`FrameHandled`, shared with `RxFrame`). It adds no distinct states:
  at this level of detail a cut-short frame behaves like a whole frame
  followed by the close. So the two teardown properties also hold with
  short reads.
* `PeerClose`: the server closes the connection.
* Application: `CreateSubscription`, `CloseSession`, `AbortSession` of the
  Dispatcher, while the client is running.
* Destructor: `Destroy` (`Finished = true`), `StopWorker` (`D!Stop`),
  `JoinWorker` (`D!Join`), `StopChannel` (`SocketChannel::Stop`: `shutdown`)
  and `JoinReceive`.

### `Dispatcher.tla` (CallbackThread, dispatch lambda, PublishCallbacks)

Constants: `SubIds` (with 0, the id of a default response), `Statuses`,
`Good`, `BadSessionClosed`, `NoCallback`, `MaxPosts`, `MaxSubscriptions`.

The worker's pc follows `CallbackThread::Run`: `Lock` (`"top"` -> `"check"`),
`Check` (predicate and `if (StopRequest) return`), `Block` (the wait that
releases the mutex), `Drain` (pop under the lock), `Dispatch` (the lambda:
Good -> find, BadSessionClosed -> throw, which terminates the process, other ->
nothing), `Invoke` (call the found callback, exceptions caught). The worker
holds `Mutex` in `"check"`, `"blocking"`, `"drain"`; `Post` is one step that
needs the mutex; `Stop` needs none. `CreateSubscription`, `CloseSession`,
`AbortSession` (via `RemoveSelfReferences`) act on `PublishCallbacks` without
a lock. `Join` is the destructor's `callback_thread.join()`. Using a
`std::function` that was destroyed after the worker found it is undefined; the
outcome modelled is that the callback still runs.

### `Browse.tla` (Browse, BrowseNext, ContinuationPoints)

Constants: `Callers`, `Points` (continuation points as model values),
`NodesPerQuery`, `MaxCalls`. `ContinuationPoints` is the member vector. Per
caller, `pc`, `op`, `request` (the points the request carries), `results`
and `pushed` follow the method. `live` and `issued` are the server's
continuation points. `lastResult`, `expected` and `responses` (the point
list of every response received) are history variables for the properties. The steps of a call are:

* `Browse` / `BrowseNext`: build the request. BrowseNext copies the vector,
  and when the vector is empty it returns at once, which is a stutter.
* `Respond`: the outcome of `Send<Response>`. It is the server's response, or
  the default response after a failed write or a timeout. The server may
  have processed the request even when the response is lost.
* `Clear`.
* One `Push` per `push_back`.
* `Return`.

The vector is written without a lock, so every one of these is a separate
step. `Release` is a private method that nothing calls, so it is left out.

### `SecureChannel.tla` (frame writers and the security token)

Constants: `Callers`, `NoHolder`, `MaxTokens`, `MaxOps`, and the environment
switches `Renewals` and `CloseWhileSending`. Three writers build headers from
`ChannelSecurityToken` and write the chain
`Stream << hdr << algorithmHeader << sequence << request << flush`, one
`WritePart` per `<<`:

* `SendRequest`, then `LockSend` (`send_mutex`);
* `OpenSecureChannel` (the `Send<OpenSecureChannelRequest>` specialisation,
  no lock), then `OpenResponse`, which stores the response's token, or the
  default one after a failed or timed-out `Send`;
* `CloseSecureChannel` (no lock).
* `WriteFails`: any `<<` may throw, when `SocketChannel::Send` sends fewer
  bytes than asked. The parts already written stay on the wire. In
  `Send<Request>`, the `std::unique_lock` releases `send_mutex` as the stack
  unwinds. `Send<Response>` returns the default response, which
  `OpenSecureChannel` stores as the token, and `CloseSecureChannel` catches
  and logs.

`stream` records every part written with its caller, call, part and token.
`FramesCarryLiveToken` states spec 4.2: every message frame carries a token
the server issued. `LockGranted` says that every thread waiting for
`send_mutex` eventually holds it. Each caller's own steps are weakly fair:
taking a free mutex, writing or failing to write the next part, and
getting the open's response.
The application opens the channel once, then makes calls, then closes it when
the other threads are done. The two switches let it reopen the channel, or
close it while others send.

### MC modules

`MCCorrelator`, `MCDispatcher`, `MCBrowse`, `MCSecureChannel` and
`MCLifecycle` give model values to the sets:

* `MCCorrelator` and `MCSecureChannel`: two callers.
* `MCDispatcher` and `MCLifecycle`: statuses Good, BadSessionClosed and a third bad status;
  subscription ids {0, 1}.
* `MCBrowse`: one or two callers and four continuation points.

## 3. Runs

| Run | cfg | Expect | Checks |
|---|---|---|---|
| correlator_safety | `Correlator.cfg` | pass | `TypeOK`, `OwnResponseOnly`, `DeliveredAtMostOnce`, `CallbackTargetsLiveCall` |
| correlator_liveness | `CorrelatorLive.cfg` | pass | `SendReturns` |
| request_response | `RequestResponse.cfg` | pass | `RequestResponseSpec` (refinement) |
| lost_wakeup | `LostWakeup.cfg` | violation | `ResponseWakesCaller` |
| browse | `Browse.cfg` | pass | `TypeOK`, `BrowseNextUsesLatest` |
| browse_merge | `BrowseMerge.cfg` | violation | `NoPartialRefill` |
| secure_channel | `SecureChannel.cfg` | pass | `NoInterleavedFrames`, `LockGranted` |
| close_interleave | `CloseInterleave.cfg` | violation | `NoInterleavedFrames` |
| default_token | `DefaultToken.cfg` | violation | `FramesCarryLiveToken` |
| callback_after_close | `CallbackAfterClose.cfg` | violation | `NoCallbackAfterClose` |
| lifecycle | `Lifecycle.cfg` | pass | `TypeOK`, `NoSleepWithWork`, `ReceiveJoinReturns`, `NotificationsDispatched` |
| destructor_hang | `DestructorHang.cfg` | violation | `DestructorReturns` |

What the runs show:

* **Correlation holds** under two concurrent callers mixing Send and Publish,
  a server that duplicates, reorders, delays and drops answers, failed writes
  and a receive loop killed by a bad frame: a `RequestCallback` only ever holds
  its own response, and no slot runs twice. A caller may return before
  Receive erases its slot, but no callback ever runs for a returned `Send`
  (`CallbackTargetsLiveCall`: its stack `RequestCallback` is gone); keeping
  the slot on timeout breaks it (3.3 M distinct states). Every `Send` returns, even with spurious wakeups
  of `wait_for` enabled, but only
  because of the timeout: with `wait` instead of `wait_for` (the mutant of
  `TimeOut`) callers hang.
* **Lost wakeup in Send (code bug).** `OnData` notifies without the waiter's
  mutex and `wait_for` has no predicate. When the response arrives between
  the write and `wait_for`, the caller sleeps with its response stored, times
  out after 10 s and returns an empty response. On a fast link this is an
  ordinary schedule.
* **Send implements RequestResponse.** Take two callers, and a server that
  duplicates, delays, drops and corrupts frames. Every step of `Correlator` is
  then a step of the abstract specification, or leaves its state unchanged. A
  call gets only its own answer, at most once and only while it is in
  progress, and every call returns. Each of these mutants breaks the
  refinement: keeping the slot on timeout, keeping it after delivery, or
  waiting without a timeout.
* **Browse is correct on one thread.** With lost responses, failed writes
  and empty results, every BrowseNext sends exactly the points of the latest
  response, never a remnant of an earlier one. A clear that is skipped on an
  empty response breaks it.
* **Browse is not thread-safe (code bug).** On two threads, a BrowseNext
  copies the vector while another call is between `clear` and its last
  `push_back`, and sends the first point of a two-point response: a
  partially updated set, which spec 4.7 rules out (`NoPartialRefill`).
* **Frames stay whole under send_mutex, and the mutex is always released.**
  This holds with writes that may throw at any part (75,385 states). With the
  lock left out, two service calls interleave. If the failing writer kept
  the mutex, as a `lock()`/`unlock()` pair skipped by the exception would,
  every later call blocks and `LockGranted` fails.
* **Unlocked close (code bug).** `CloseSecureChannel` takes no
  `send_mutex`, so its frame interleaves with a concurrent service call.
* **A failed open is not an error (spec/code divergence).** When the
  `Send` of `OpenSecureChannel` fails or times out, the default token is
  stored and the call returns normally. The next service call's frame then
  carries channel id 0 and token id 0 (`default_token`, 10 states). Spec 4.2
  says the open must succeed before any message frame is sent.
* **Dispatcher posting is safe.** This is checked inside the `lifecycle`
  run: the receive thread posts publish responses, and the destructor stops
  the worker. `post` notifies under the mutex, so the worker never sleeps on
  a non-empty queue. Every notification is taken unless a stop was
  requested. The mutant that drops `notify_one` breaks both properties.
* **Teardown is sound apart from Stop.** This holds for a client that is
  built, or that fails in `HelloServer`, then used and destroyed, while the
  server sends publish responses, other frames or error frames, whole or
  cut short, or closes the connection:
  * Once the channel is stopped, `ReceiveThread.join()` returns. This holds
    even when the receive loop missed the racy `Finished` store, because
    `shutdown` makes the blocked `recv` return 0.

  A `Channel->Stop` without `shutdown` breaks the join property.
* **The destructor can hang (code bug).** `CallbackService.Stop()` stores the
  flag and notifies without the mutex. If that happens between the worker's
  predicate check and its wait, the worker sleeps forever, and
  `~BinaryClient` hangs in `callback_thread.join()`. This run is in the
  composed `Lifecycle` model.
* **Callbacks after close.** `PublishCallbacks` has no lock, so a callback
  found before `CloseSession` clears the map runs after it.

### Reached by the models, not kept as runs

The models reach the following states, but no run asserts them. Each is a
hazard in `PROJECT.json`.

* **Sequence numbers out of order.** They are taken in `CreateSequenceHeader`
  before `send_mutex`, so frames can reach the wire in decreasing
  sequence-number order (`Correlator`).
* **Orphan slot after a spurious wakeup.** `wait_for` without a predicate can
  return spuriously. `Send` then returns, and its slot, which captures a stack
  object, stays registered. With `SpuriousWakeups = TRUE`, TLC finds
  `RequestResponseSpec` violated: the first call's late response lands in the
  same caller's next `RequestCallback`. `CallbackTargetsLiveCall` is violated too: a late response runs the
  callback of the returned call.
  These are left out of the runs because spurious wakeups are rare.
* **Publish leaks its slot** when its write throws. `PublishWriteFailed`
  leaves the `Pub` slot with no request on the wire.
* **Handle wrap.** `RequestHandle` is a `uint32_t`. Publish slots never time
  out, and `map::insert` keeps the old slot, so after the counter wraps, a new
  request's slot can be the live Publish slot. With `HandleBits = 1`,
  `Correlator` reaches this in 3 requests.
* **One continuation point used twice.** Two concurrent BrowseNext calls copy
  the same points, and the second sends points the first consumed
  (`Browse` with two callers).
* **Unlocked open.** `Send<OpenSecureChannelRequest>` takes no `send_mutex`
  (`SecureChannel` with `Renewals`).
* **A failed write leaves a fragment on the wire.** `WriteFails` after a
  `WritePart` leaves the first parts of a frame on the stream, and the next
  frame follows them. The server then loses the framing of the whole
  channel, not only the failed call's (`SecureChannel`).
  `NoInterleavedFrames` does not forbid a truncated frame.
* **BadSessionClosed ends the process.** The throw escapes the worker's thread
  function and calls `std::terminate` (`Dispatcher`, variable `terminated`).

### Bounds, and why they are enough

* Correlator safety: 2 callers, 3 requests, 3 server frames, 3-bit handles
  (no wrap). Three requests give two overlapping calls plus one more after a
  timeout, which a stale slot needs to meet a later call. Three frames give a
  duplicate, a late answer and a fatal frame.
* Liveness uses 2 requests and 2 server frames, with spurious wakeups
  enabled. The property holds even when `wait_for` returns early.
* RequestResponse uses 2 callers, 2 requests and 2 server frames. The
  refinement's mapping is evaluated on every transition, and these bounds
  keep the run to seconds. They still allow two overlapping calls, a
  duplicate answer, and a late answer after a timeout.
* Lifecycle: 3 posts, 1 subscription and 3 frames (285,782 states). That
  allows a post during a callback, a post in the worker's predicate window,
  a post after `Stop`, an error frame, and a peer close or a short read at
  every point of teardown. A second subscription would allow a
  re-registration under one id, but it triples the run (650,000 states in
  2.5 min without coverage), which is past the time budget once the checks
  run in parallel with coverage on. Nothing in the lifecycle properties
  depends on a second subscription.
* Violation runs use the smallest bounds that reach the violation.
* Browse: 4 calls, 2 nodes per query and 4 points. That allows a Browse, a
  BrowseNext that gets new points, a lost response and one more BrowseNext.
* SecureChannel: 2 threads, 4 calls and 2 tokens. That allows an open, two
  overlapping calls and a close, or a reopen.
* Dispatcher (`callback_after_close`): 2 posts and 1 subscription. That is
  enough for a close during a dispatch.
* Symmetry is not used: the liveness runs would make it unsound.

### Fairness

* Each caller's steps after it registers are weakly fair, timeout included.
  `wait_for(10000 ms)` always returns, and the other steps are local.
* The receive thread is weakly fair: it always runs while it has a frame.
* The worker and `join` are weakly fair.
* In `SecureChannel`, each caller's steps after it has begun a call are
  weakly fair. The application's calls are not. Weak fairness is enough for
  `send_mutex`: the callers make at most `MaxOps` calls, so once the others
  are done, a free mutex stays free. A mutex taken again and again without
  bound would need strong fairness.
* In `Lifecycle`, every step a thread takes in its own code is weakly fair:
  the constructor, each step of the destructor once it has begun, the worker,
  and the receive loop's test and its reaction to a closed socket.
* These are not fair: the server (frames, closing the connection), and the
  application's decisions to call, to subscribe, to close the session, or
  to destroy the client.

`CHECK_DEADLOCK FALSE` is set everywhere because the bounds make every
behaviour stop once its requests, frames or posts run out, or once the
client is destroyed or its construction failed (`Lifecycle`). The liveness
properties check that no thread hangs before then.

## 4. Plan

Done:

* `Correlator`, with its refinement of `RequestResponse`.
* `Dispatcher`.
* `Browse`.
* `SecureChannel`, with failing writes and the liveness of `send_mutex`.
* `Lifecycle`, which composes the Dispatcher with the constructor, the
  receive loop, the destructor and the socket, including short reads. It
  also carries the Dispatcher's safety and liveness properties.

Next:

1. Feed `Correlator`'s `posted` and a `CreateSubscription` result into the
   composition. The callback registered under id 0 after a failed
   `CreateSubscription` then becomes visible.
2. The run budget is full. A new violation run would need a slot. The
   candidates are the wire sequence order, the handshake failure that
   terminates the process, the subscription registered under id 0, and
   the truncated frame after a failed write.

## 5. Not modelled

* Message encoding and decoding: abstracted to handle, status and
  subscription id.
* Multi-chunk messages: the code handles single chunks only.
* Logging and debug output.
* The addon manager: it lives outside this repository.
* `OpcUaServer` (`server.cpp`): spec 1 puts the server application and the
  addon framework out of scope. `Start`, `GetAddonsManager` and `Stop` are
  sequential calls on one thread around that external manager. There is no
  interleaving or protocol for a model checker to explore.
* `BufferInputChannel` and `Release`. The first is a bounds-checked copy
  behind the decoding, which is abstracted. `Release` is a private method
  that nothing calls.
* `server_options.cpp`: argv/XML parsing with no state machine.
* `computer.h`, `opc_tcp_processor.h`: declarations only.
* The typed service wrappers: each one is an instance of `Send<Response>`.
* The `fopen` / `fprintf` of `responseCallback.txt` in every
  `ResponseCallback`. It crashes the receive thread when the working
  directory is not writable. That depends on the file system, not on an
  interleaving. It is listed as a hazard.
* `RequestNumber`: it is incremented next to `SequenceNumber` and no property
  distinguishes the two.
