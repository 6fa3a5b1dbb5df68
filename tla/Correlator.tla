----------------------------- MODULE Correlator -----------------------------
(***************************************************************************)
(* Request/response correlation of BinaryClient                           *)
(* (src/src/client/binary_client.cpp).                                     *)
(*                                                                         *)
(* Caller threads run Send<Response> (register a slot in Callbacks, frame  *)
(* and write the request, wait on the RequestCallback's condition          *)
(* variable) or Publish (register a slot whose callback posts to the       *)
(* notification thread, write, return).  The single receive thread reads   *)
(* one frame at a time and hands it to the slot registered under the       *)
(* frame's RequestHandle.  The server is the environment: it answers any   *)
(* request it has read, in any order, any number of times (duplicates and  *)
(* late answers), or never (lost), and may write an error or a malformed   *)
(* frame.                                                                  *)
(*                                                                         *)
(* The condition variable of RequestCallback is modelled by the caller's   *)
(* pc: a notify_all reaches the caller only when it is in "waiting"; a     *)
(* notify issued before the caller reached wait_for is lost (OnData does   *)
(* not take the RequestCallback mutex and wait_for has no predicate).      *)
(***************************************************************************)
EXTENDS Naturals, Sequences, FiniteSets, Functions, TLC

CONSTANTS
  Callers,          \* caller threads invoking Send<Response> and Publish
  Pub,              \* owner tag of a slot registered by Publish
  NoData,           \* RequestCallback::Data before OnData (default response)
  Statuses,         \* ServiceResult values the server puts in a publish response
  Good,             \* StatusCode::Good
  HandleBits,       \* width of the RequestHandle counter (uint32_t: 32)
  MaxRequests,      \* bound: requests a behaviour issues
  MaxResponses,     \* bound: frames the server writes
  SpuriousWakeups   \* may condition_variable::wait_for return without a notify?

ASSUME /\ Callers # {} /\ Pub \notin Callers /\ Good \in Statuses
       /\ HandleBits \in Nat \ {0}
       /\ MaxRequests \in Nat /\ MaxResponses \in Nat
       /\ SpuriousWakeups \in BOOLEAN

HandleSpace == 2 ^ HandleBits
Handles     == 0 .. (HandleSpace - 1)
Owners      == Callers \cup {Pub}

VARIABLES
  RequestHandle,   \* BinaryClient::RequestHandle (atomic)
  SequenceNumber,  \* BinaryClient::SequenceNumber (atomic)
  Callbacks,       \* BinaryClient::Callbacks: handle -> owner of the slot
  pc,              \* program counter of each caller thread
  kind,            \* "req" (Send<Response>) or "pub" (Publish) per caller
  handle,          \* request.Header.RequestHandle of the caller's request
  sequence,        \* SequenceHeader::SequenceNumber of the caller's frame
  Data,            \* RequestCallback::Data of the caller's current call
  wire,            \* frames written to the transport, in order
  inbox,           \* frames written by the server, not yet read
  rxAlive,         \* the receive thread's loop is still running
  posted,          \* publish responses posted to the CallbackThread
  issued,          \* requests issued so far (bounded by MaxRequests)
  responses,       \* frames the server wrote (bounded by MaxResponses)
  deliveries,      \* number of OnData / publish callbacks run per handle
  rxSlot           \* handle whose callback Receive has run and whose slot it
                   \* has yet to erase, holding Mutex; NoData otherwise

callerVars == <<pc, kind, handle, sequence, Data>>
serverVars == <<inbox, responses>>
vars == <<RequestHandle, SequenceNumber, Callbacks, callerVars, wire,
          serverVars, rxAlive, posted, issued, deliveries, rxSlot>>

Frames   == [seq : Nat, handle : Handles, kind : {"req", "pub"}]
InFrames == [type : {"msg", "error", "malformed"}, handle : Handles,
             status : Statuses]

-----------------------------------------------------------------------------
(* Helpers for the std::map Callbacks.                                     *)

\* std::map::insert: does nothing when the key is already present.
Insert(h, o) ==
  IF h \in DOMAIN Callbacks THEN Callbacks ELSE Callbacks @@ (h :> o)

\* Mutant: the slot is reset to an empty callback instead of erased.
EraseKeepKey(h) == [Callbacks EXCEPT ![h] = NoData]

\* std::map::erase by key.
Erase(h) == Restrict(Callbacks, DOMAIN Callbacks \ {h})

-----------------------------------------------------------------------------
Init ==
  /\ RequestHandle = 0
  /\ SequenceNumber = 1
  /\ Callbacks = <<>>
  /\ pc = [c \in Callers |-> "idle"]
  /\ kind = [c \in Callers |-> "req"]
  /\ handle = [c \in Callers |-> 0]
  /\ sequence = [c \in Callers |-> 0]
  /\ Data = [c \in Callers |-> NoData]
  /\ wire = <<>>
  /\ inbox = <<>>
  /\ rxAlive = TRUE
  /\ posted = <<>>
  /\ issued = 0
  /\ responses = 0
  /\ deliveries = [h \in Handles |-> 0]
  /\ rxSlot = NoData

-----------------------------------------------------------------------------
(* Caller thread.                                                          *)

\* Send<Response>: CreateRequestHeader takes ++RequestHandle, the
\* RequestCallback is constructed and its slot inserted under Mutex.
SendRegister(c) ==
  LET h == (RequestHandle + 1) % HandleSpace IN
  /\ pc[c] = "idle"
  /\ rxSlot = NoData
  /\ issued < MaxRequests
  /\ RequestHandle' = h
  /\ Callbacks' = Insert(h, c)
  /\ pc' = [pc EXCEPT ![c] = "alloc"]
  /\ kind' = [kind EXCEPT ![c] = "req"]
  /\ handle' = [handle EXCEPT ![c] = h]
  /\ Data' = [Data EXCEPT ![c] = NoData]
  /\ issued' = issued + 1
  /\ UNCHANGED <<SequenceNumber, sequence, wire, serverVars, rxAlive,
                 posted, deliveries, rxSlot>>

\* Publish: CreateRequestHeader, then the publish ResponseCallback is
\* inserted under Mutex.
PublishRegister(c) ==
  LET h == (RequestHandle + 1) % HandleSpace IN
  /\ pc[c] = "idle"
  /\ rxSlot = NoData
  /\ issued < MaxRequests
  /\ RequestHandle' = h
  /\ Callbacks' = Insert(h, Pub)
  /\ pc' = [pc EXCEPT ![c] = "alloc"]
  /\ kind' = [kind EXCEPT ![c] = "pub"]
  /\ handle' = [handle EXCEPT ![c] = h]
  /\ issued' = issued + 1
  /\ UNCHANGED <<SequenceNumber, sequence, Data, wire, serverVars, rxAlive,
                 posted, deliveries, rxSlot>>

\* The void Send builds the SecureHeader, the algorithm header and the
\* SequenceHeader (++SequenceNumber) before it takes send_mutex.
CreateSequenceHeader(c) ==
  /\ pc[c] = "alloc"
  /\ SequenceNumber' = SequenceNumber + 1
  /\ sequence' = [sequence EXCEPT ![c] = SequenceNumber + 1]
  /\ pc' = [pc EXCEPT ![c] = "write"]
  /\ UNCHANGED <<RequestHandle, Callbacks, kind, handle, Data, wire,
                 serverVars, rxAlive, posted, issued, deliveries, rxSlot>>

\* Under send_mutex the whole frame is written.  A Publish returns.
WriteFrame(c) ==
  /\ pc[c] = "write"
  /\ wire' = Append(wire, [seq |-> sequence[c], handle |-> handle[c],
                           kind |-> kind[c]])
  /\ pc' = [pc EXCEPT ![c] = IF kind[c] = "req" THEN "sent" ELSE "idle"]
  /\ UNCHANGED <<RequestHandle, SequenceNumber, Callbacks, kind, handle,
                 sequence, Data, serverVars, rxAlive, posted, issued,
                 deliveries, rxSlot>>

\* Mutant: the catch of a failed write forgets to erase the slot.
SendWriteFailedKeepSlot(c) ==
  /\ pc[c] = "write"
  /\ kind[c] = "req"
  /\ pc' = [pc EXCEPT ![c] = "idle"]
  /\ UNCHANGED <<RequestHandle, SequenceNumber, Callbacks, kind, handle,
                 sequence, Data, wire, serverVars, rxAlive, posted, issued,
                 deliveries, rxSlot>>

\* The write throws in Send<Response>: the slot is erased under Mutex and
\* the default-constructed response is returned.
SendWriteFailed(c) ==
  /\ pc[c] = "write"
  /\ rxSlot = NoData
  /\ kind[c] = "req"
  /\ Callbacks' = Erase(handle[c])
  /\ pc' = [pc EXCEPT ![c] = "idle"]
  /\ UNCHANGED <<RequestHandle, SequenceNumber, kind, handle, sequence, Data,
                 wire, serverVars, rxAlive, posted, issued, deliveries, rxSlot>>

\* The write throws in Publish: the exception leaves Publish; nothing
\* erases the slot it inserted.
PublishWriteFailed(c) ==
  /\ pc[c] = "write"
  /\ kind[c] = "pub"
  /\ pc' = [pc EXCEPT ![c] = "idle"]
  /\ UNCHANGED <<RequestHandle, SequenceNumber, Callbacks, kind, handle,
                 sequence, Data, wire, serverVars, rxAlive, posted, issued,
                 deliveries, rxSlot>>

\* WaitForData: doneEvent.wait_for releases the RequestCallback mutex and
\* blocks.
BeginWait(c) ==
  /\ pc[c] = "sent"
  /\ pc' = [pc EXCEPT ![c] = "waiting"]
  /\ UNCHANGED <<RequestHandle, SequenceNumber, Callbacks, kind, handle,
                 sequence, Data, wire, serverVars, rxAlive, posted, issued,
                 deliveries, rxSlot>>

\* wait_for returns without timeout and without a notify.
SpuriousWakeup(c) ==
  /\ SpuriousWakeups
  /\ pc[c] = "waiting"
  /\ pc' = [pc EXCEPT ![c] = "notified"]
  /\ UNCHANGED <<RequestHandle, SequenceNumber, Callbacks, kind, handle,
                 sequence, Data, wire, serverVars, rxAlive, posted, issued,
                 deliveries, rxSlot>>

\* wait_for returned no_timeout: the result is decoded from Data and
\* Send<Response> returns it.
ReturnData(c) ==
  /\ pc[c] = "notified"
  /\ pc' = [pc EXCEPT ![c] = "idle"]
  /\ UNCHANGED <<RequestHandle, SequenceNumber, Callbacks, kind, handle,
                 sequence, Data, wire, serverVars, rxAlive, posted, issued,
                 deliveries, rxSlot>>

\* Mutant: WaitForData uses wait() without a timeout.
WaitWithoutTimeout(c) == FALSE

\* wait_for returned cv_status::timeout: WaitForData throws.
TimeOut(c) ==
  /\ pc[c] = "waiting"
  /\ pc' = [pc EXCEPT ![c] = "timedout"]
  /\ UNCHANGED <<RequestHandle, SequenceNumber, Callbacks, kind, handle,
                 sequence, Data, wire, serverVars, rxAlive, posted, issued,
                 deliveries, rxSlot>>

\* Mutant: the catch of the timeout forgets to erase the slot.
EraseOnTimeoutKeepSlot(c) ==
  /\ pc[c] = "timedout"
  /\ pc' = [pc EXCEPT ![c] = "idle"]
  /\ UNCHANGED <<RequestHandle, SequenceNumber, Callbacks, kind, handle,
                 sequence, Data, wire, serverVars, rxAlive, posted, issued,
                 deliveries, rxSlot>>

\* Send<Response> catches the timeout, erases the slot under Mutex and
\* returns the default-constructed response.
EraseOnTimeout(c) ==
  /\ pc[c] = "timedout"
  /\ rxSlot = NoData
  /\ Callbacks' = Erase(handle[c])
  /\ pc' = [pc EXCEPT ![c] = "idle"]
  /\ UNCHANGED <<RequestHandle, SequenceNumber, kind, handle, sequence, Data,
                 wire, serverVars, rxAlive, posted, issued, deliveries, rxSlot>>

-----------------------------------------------------------------------------
(* Receive thread: one iteration of Receive() per frame.                   *)

\* Receive reads the next frame; Mutex is free (no erase is pending).
ReadNext ==
  /\ rxAlive
  /\ rxSlot = NoData
  /\ inbox # <<>>

\* An MT_ERROR frame is raised as an exception; the thread's catch ends
\* the loop.
ReceiveError ==
  /\ ReadNext
  /\ Head(inbox).type = "error"
  /\ inbox' = Tail(inbox)
  /\ rxAlive' = FALSE
  /\ UNCHANGED <<RequestHandle, SequenceNumber, Callbacks, callerVars, wire,
                 responses, posted, issued, deliveries, rxSlot>>

\* The declared size does not exceed the headers read: the loop ends.
ReceiveMalformed ==
  /\ ReadNext
  /\ Head(inbox).type = "malformed"
  /\ inbox' = Tail(inbox)
  /\ rxAlive' = FALSE
  /\ UNCHANGED <<RequestHandle, SequenceNumber, Callbacks, callerVars, wire,
                 responses, posted, issued, deliveries, rxSlot>>

\* No slot under the response's RequestHandle: the frame is dropped.
ReceiveUnmatched ==
  /\ ReadNext
  /\ Head(inbox).type = "msg"
  /\ Head(inbox).handle \notin DOMAIN Callbacks
  /\ inbox' = Tail(inbox)
  /\ UNCHANGED <<RequestHandle, SequenceNumber, Callbacks, callerVars, wire,
                 responses, rxAlive, posted, issued, deliveries, rxSlot>>

\* Under Mutex the slot's callback runs.  For a Send<Response> slot it is
\* RequestCallback::OnData: it stores the data and notify_all()s, which
\* wakes the caller only if it already waits.  The caller's wait_for
\* reacquires the RequestCallback mutex, not Mutex, so it may return while
\* Receive still holds Mutex and has not erased the slot.
ReceiveDeliver ==
  LET f == Head(inbox)
      c == Callbacks[f.handle]
  IN
  /\ ReadNext
  /\ f.type = "msg"
  /\ f.handle \in DOMAIN Callbacks
  /\ c \in Callers
  /\ inbox' = Tail(inbox)
  /\ Data' = [Data EXCEPT ![c] = f.handle]
  /\ pc' = [pc EXCEPT ![c] = IF @ = "waiting" THEN "notified" ELSE @]
  /\ deliveries' = [deliveries EXCEPT ![f.handle] = @ + 1]
  /\ rxSlot' = f.handle
  /\ UNCHANGED <<RequestHandle, SequenceNumber, Callbacks, kind, handle,
                 sequence, wire, responses, rxAlive, posted, issued>>

\* The publish ResponseCallback decodes the response (or keeps only its
\* header when the status is not Good) and posts the dispatch lambda to the
\* CallbackThread.
ReceivePublish ==
  LET f == Head(inbox) IN
  /\ ReadNext
  /\ f.type = "msg"
  /\ f.handle \in DOMAIN Callbacks
  /\ Callbacks[f.handle] = Pub
  /\ inbox' = Tail(inbox)
  /\ posted' = Append(posted, [handle |-> f.handle, status |-> f.status])
  /\ deliveries' = [deliveries EXCEPT ![f.handle] = @ + 1]
  /\ rxSlot' = f.handle
  /\ UNCHANGED <<RequestHandle, SequenceNumber, Callbacks, callerVars, wire,
                 responses, rxAlive, issued>>

\* Mutant: the slot is left in Callbacks after its callback ran.
ReceiveEraseKeepSlot ==
  /\ rxSlot # NoData
  /\ rxSlot' = NoData
  /\ UNCHANGED <<RequestHandle, SequenceNumber, Callbacks, callerVars, wire,
                 serverVars, rxAlive, posted, issued, deliveries>>

\* After the callback returns, Callbacks.erase(callbackIt) and the end of
\* the iteration release Mutex.
ReceiveErase ==
  /\ rxSlot # NoData
  /\ Callbacks' = Erase(rxSlot)
  /\ rxSlot' = NoData
  /\ UNCHANGED <<RequestHandle, SequenceNumber, callerVars, wire,
                 serverVars, rxAlive, posted, issued, deliveries>>

-----------------------------------------------------------------------------
(* Server (environment).                                                   *)

\* Answer the i-th frame on the wire: again, late, or out of order.
ServerRespond(i, st) ==
  /\ responses < MaxResponses
  /\ st = Good \/ wire[i].kind = "pub"
  /\ inbox' = Append(inbox, [type |-> "msg", handle |-> wire[i].handle,
                             status |-> st])
  /\ responses' = responses + 1
  /\ UNCHANGED <<RequestHandle, SequenceNumber, Callbacks, callerVars, wire,
                 rxAlive, posted, issued, deliveries, rxSlot>>

\* An MT_ERROR frame, or a frame whose declared size is too small.
ServerBadFrame(t) ==
  /\ responses < MaxResponses
  /\ inbox' = Append(inbox, [type |-> t, handle |-> 0, status |-> Good])
  /\ responses' = responses + 1
  /\ UNCHANGED <<RequestHandle, SequenceNumber, Callbacks, callerVars, wire,
                 rxAlive, posted, issued, deliveries, rxSlot>>

-----------------------------------------------------------------------------
Caller(c) ==
  \/ SendRegister(c)
  \/ PublishRegister(c)
  \/ CreateSequenceHeader(c)
  \/ WriteFrame(c)
  \/ SendWriteFailed(c)
  \/ PublishWriteFailed(c)
  \/ BeginWait(c)
  \/ SpuriousWakeup(c)
  \/ ReturnData(c)
  \/ TimeOut(c)
  \/ EraseOnTimeout(c)

Receive ==
  \/ ReceiveError
  \/ ReceiveMalformed
  \/ ReceiveUnmatched
  \/ ReceiveDeliver
  \/ ReceivePublish
  \/ ReceiveErase

Server ==
  \/ \E i \in DOMAIN wire, st \in Statuses : ServerRespond(i, st)
  \/ \E t \in {"error", "malformed"} : ServerBadFrame(t)

Next ==
  \/ \E c \in Callers : Caller(c)
  \/ Receive
  \/ Server

\* The caller thread's steps after it registered are all local or bounded
\* (wait_for(10000 ms) always returns); the receive thread runs while it
\* has a frame.  The server and a caller's decision to call are not fair.
Fairness ==
  /\ \A c \in Callers :
       /\ WF_vars(CreateSequenceHeader(c))
       /\ WF_vars(WriteFrame(c) \/ SendWriteFailed(c) \/ PublishWriteFailed(c))
       /\ WF_vars(BeginWait(c))
       /\ WF_vars(ReturnData(c))
       /\ WF_vars(TimeOut(c))
       /\ WF_vars(EraseOnTimeout(c))
  /\ WF_vars(Receive)

Spec == Init /\ [][Next]_vars /\ Fairness

-----------------------------------------------------------------------------
(* Properties.                                                             *)

TypeOK ==
  /\ RequestHandle \in Handles
  /\ SequenceNumber \in Nat
  /\ DOMAIN Callbacks \subseteq Handles
  /\ \A h \in DOMAIN Callbacks : Callbacks[h] \in Owners
  /\ pc \in [Callers -> {"idle", "alloc", "write", "sent", "waiting",
                         "notified", "timedout"}]
  /\ kind \in [Callers -> {"req", "pub"}]
  /\ handle \in [Callers -> Handles]
  /\ sequence \in [Callers -> Nat]
  /\ Data \in [Callers -> Handles \cup {NoData}]
  /\ wire \in Seq(Frames)
  /\ inbox \in Seq(InFrames)
  /\ rxAlive \in BOOLEAN
  /\ posted \in Seq([handle : Handles, status : Statuses])
  /\ deliveries \in [Handles -> Nat]

\* Correlation: the RequestCallback of a caller only ever receives the
\* response whose header carries the caller's own RequestHandle, whatever
\* order, duplication or lateness the server's answers have (Receive's
\* lookup, OnData, the erase on timeout and on failed write).
OwnResponseOnly ==
  \A c \in Callers : kind[c] = "req" => Data[c] \in {NoData, handle[c]}

\* The callback a response frame runs belongs to a call still in
\* progress: Receive never runs OnData through the reference a returned
\* Send<Response> left in Callbacks (its RequestCallback was a stack object
\* of that call).  A late or duplicated answer finds no slot because the
\* failed write, the timeout and Receive itself erase it under Mutex.
CallbackTargetsLiveCall ==
  [][\A h \in Handles :
       deliveries'[h] > deliveries[h] /\ Callbacks[h] \in Callers =>
         LET c == Callbacks[h] IN handle[c] = h /\ pc[c] # "idle"]_vars

\* Exactly-once delivery: a duplicate or late response frame never runs a
\* slot's callback a second time (Receive erases the slot before it
\* releases Mutex and reads the next frame).
DeliveredAtMostOnce ==
  \A h \in Handles : deliveries[h] <= 1

\* Every Send<Response> that was entered eventually returns, whether its
\* response arrives, is lost, arrives too early to be noticed, or the
\* receive thread has died (wait_for's timeout).
SendReturns ==
  \A c \in Callers : (pc[c] # "idle") ~> (pc[c] = "idle")

\* A response delivered to a caller's RequestCallback wakes the caller:
\* no caller sits in wait_for while its response is already stored
\* (spec 8: the receive loop delivers the response, the caller unblocks
\* with that payload).
ResponseWakesCaller ==
  \A c \in Callers : pc[c] = "waiting" => Data[c] = NoData

-----------------------------------------------------------------------------
(* Refinement of RequestResponse.  A caller is in a call while it is       *)
(* inside Send<Response>; the call's ticket is its RequestHandle and its   *)
(* answer is what RequestCallback::Data holds.  Publish is not a call of   *)
(* RequestResponse: its steps are stuttering steps there.                  *)

InCall(c) == kind[c] = "req" /\ pc[c] # "idle"

RR == INSTANCE RequestResponse
        WITH Tickets <- Handles, NoTicket <- NoData, NoAnswer <- NoData,
             state  <- [c \in Callers |-> IF InCall(c) THEN "busy" ELSE "idle"],
             ticket <- [c \in Callers |-> IF InCall(c) THEN handle[c] ELSE NoData],
             answer <- [c \in Callers |-> IF InCall(c) THEN Data[c] ELSE NoData]

\* Send<Response> implements RequestResponse: a call receives its own
\* response at most once and only while it is in progress, a response
\* never changes once received, and every call returns (Receive's lookup
\* and erase in one Mutex section, the erase on timeout and on failed
\* write, wait_for's timeout).
RequestResponseSpec == RR!Spec
=============================================================================
