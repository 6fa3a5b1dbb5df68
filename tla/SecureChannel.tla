---------------------------- MODULE SecureChannel ----------------------------
(***************************************************************************)
(* The frames BinaryClient writes on its one Stream and the security token *)
(* they carry (src/src/client/binary_client.cpp).  Three writers build a   *)
(* frame header from ChannelSecurityToken and then write it as a chain    *)
(* Stream << hdr << algorithmHeader << sequence << request << flush:       *)
(*   - Send<Request> (every service call) takes send_mutex for the chain;  *)
(*   - Send<OpenSecureChannelRequest> (reached from OpenSecureChannel      *)
(*     through Send<Response>) takes no lock;                              *)
(*   - CloseSecureChannel takes no lock.                                   *)
(* Each << is one write of the shared stream, so a frame is a sequence of  *)
(* Parts and unsynchronised writers can interleave them.                   *)
(*                                                                         *)
(* OpenSecureChannel stores response.ChannelSecurityToken after            *)
(* Send<Response> returns; when that Send failed or timed out it returns a *)
(* default-constructed response, so the stored token is the default one.   *)
(* The round trip of the open request is one step (OpenResponse); the      *)
(* Correlator module models it.  The application calls OpenSecureChannel   *)
(* first, then service calls, then CloseSecureChannel; the constants       *)
(* Renewals and CloseWhileSending let it also reopen the channel and close *)
(* it while other threads still send.                                      *)
(***************************************************************************)
EXTENDS Naturals, Sequences

CONSTANTS
  Callers,           \* application threads using one client
  NoHolder,          \* send_mutex is free
  MaxTokens,         \* bound on tokens the server issues
  MaxOps,            \* bound on calls made
  Renewals,          \* OpenSecureChannel may be called on an open channel
  CloseWhileSending  \* CloseSecureChannel may race other threads' sends

ASSUME NoHolder \notin Callers /\ MaxTokens \in Nat /\ MaxOps \in Nat
ASSUME Renewals \in BOOLEAN /\ CloseWhileSending \in BOOLEAN

\* The writes of one frame: header, algorithm header, sequence header,
\* request (and flush).
Parts == 1..4
LastPart == 4

\* SecurityToken: the default-constructed one has channel and token id 0.
NoToken == [channel |-> 0, id |-> 0]
Tokens == {NoToken} \cup [channel : {1}, id : 1..MaxTokens]

Kinds == {"msg", "open", "close"}

VARIABLES
  ChannelSecurityToken, \* the member
  sendLock,             \* holder of send_mutex
  pc,                   \* per caller: idle, lock, write, wait
  kind,                 \* per caller: the frame it writes
  tok,                  \* per caller: the token read into its headers
  part,                 \* per caller: next part of its frame to write
  call,                 \* per caller: number of its current call
  stream,               \* the parts written, in order
  issued,               \* token ids the server issued so far
  opened,               \* an OpenSecureChannel call has returned
  closed,               \* CloseSecureChannel has been called
  ops                   \* calls made

vars == <<ChannelSecurityToken, sendLock, pc, kind, tok, part, call, stream,
          issued, opened, closed, ops>>

Written == [caller : Callers, call : 1..MaxOps, kind : Kinds, part : Parts,
            token : Tokens]

Init ==
  /\ ChannelSecurityToken = NoToken
  /\ sendLock = NoHolder
  /\ pc = [c \in Callers |-> "idle"]
  /\ kind = [c \in Callers |-> "msg"]
  /\ tok = [c \in Callers |-> NoToken]
  /\ part = [c \in Callers |-> 1]
  /\ call = [c \in Callers |-> 1]
  /\ stream = <<>>
  /\ issued = 0
  /\ opened = FALSE
  /\ closed = FALSE
  /\ ops = 0

OthersIdle(c) == \A d \in Callers \ {c} : pc[d] = "idle"

\* A call of kind k starts: the headers are built from the token as it is
\* now.
Start(c, k) ==
  /\ pc[c] = "idle"
  /\ ops < MaxOps
  /\ ~closed
  /\ kind' = [kind EXCEPT ![c] = k]
  /\ tok' = [tok EXCEPT ![c] = ChannelSecurityToken]
  /\ part' = [part EXCEPT ![c] = 1]
  /\ call' = [call EXCEPT ![c] = ops + 1]
  /\ ops' = ops + 1

\* Send<Request>: SecureHeader with ChannelSecurityToken.SecureChannelId,
\* CreateAlgorithmHeader with its TokenId, CreateSequenceHeader; then it
\* waits for send_mutex.  The application sends only after opening.
SendRequest(c) ==
  /\ opened
  /\ Start(c, "msg")
  /\ pc' = [pc EXCEPT ![c] = "lock"]
  /\ UNCHANGED <<ChannelSecurityToken, sendLock, stream, issued, opened,
                 closed>>

\* Mutant: the chain is written without taking send_mutex.
LockSendSkip(c) ==
  /\ pc[c] = "lock"
  /\ pc' = [pc EXCEPT ![c] = "write"]
  /\ UNCHANGED <<ChannelSecurityToken, sendLock, kind, tok, part, call, stream,
                 issued, opened, closed, ops>>

\* std::unique_lock<std::mutex> send_lock(send_mutex)
LockSend(c) ==
  /\ pc[c] = "lock"
  /\ sendLock = NoHolder
  /\ sendLock' = c
  /\ pc' = [pc EXCEPT ![c] = "write"]
  /\ UNCHANGED <<ChannelSecurityToken, kind, tok, part, call, stream, issued,
                 opened, closed, ops>>

\* OpenSecureChannel: Send<OpenSecureChannelResponse> reaches
\* Send<OpenSecureChannelRequest>, which builds the header and the
\* asymmetric algorithm header and writes them without send_mutex.  The
\* application opens the channel once, before anything else.
OpenSecureChannel(c) ==
  /\ (~opened /\ OthersIdle(c)) \/ Renewals
  /\ Start(c, "open")
  /\ pc' = [pc EXCEPT ![c] = "write"]
  /\ UNCHANGED <<ChannelSecurityToken, sendLock, stream, issued, opened,
                 closed>>

\* CloseSecureChannel: builds the headers and writes without send_mutex;
\* any exception is caught and only reported.
CloseSecureChannel(c) ==
  /\ opened
  /\ CloseWhileSending \/ OthersIdle(c)
  /\ Start(c, "close")
  /\ closed' = TRUE
  /\ pc' = [pc EXCEPT ![c] = "write"]
  /\ UNCHANGED <<ChannelSecurityToken, sendLock, stream, issued, opened>>

\* Where a caller goes after the last part of its frame: Send<Request>
\* releases send_mutex and returns, OpenSecureChannel waits for its
\* response, CloseSecureChannel returns.
AfterFrame(c) ==
  /\ pc' = [pc EXCEPT ![c] = IF kind[c] = "open" THEN "wait" ELSE "idle"]
  /\ sendLock' = IF kind[c] = "msg" THEN NoHolder ELSE sendLock

\* One << of the chain; the last one is followed by flush.
WritePart(c) ==
  /\ pc[c] = "write"
  /\ stream' = Append(stream, [caller |-> c, call |-> call[c], kind |-> kind[c],
                               part |-> part[c], token |-> tok[c]])
  /\ IF part[c] = LastPart
       THEN AfterFrame(c) /\ UNCHANGED part
       ELSE part' = [part EXCEPT ![c] = @ + 1] /\ UNCHANGED <<pc, sendLock>>
  /\ UNCHANGED <<ChannelSecurityToken, kind, tok, call, issued, opened,
                 closed, ops>>

\* Mutant: the failing writer keeps send_mutex (a lock()/unlock() pair in
\* place of the std::unique_lock, skipped by the exception).
WriteFailsKeepLock(c) ==
  /\ pc[c] = "write"
  /\ pc' = [pc EXCEPT ![c] = "idle"]
  /\ IF kind[c] = "open"
       THEN ChannelSecurityToken' = NoToken /\ opened' = TRUE
       ELSE UNCHANGED <<ChannelSecurityToken, opened>>
  /\ UNCHANGED <<sendLock, kind, tok, part, call, stream, issued, closed, ops>>

\* One << throws (SocketChannel::Send could not send the bytes).  The parts
\* already written stay on the wire.  Send<Request> unwinds and its
\* std::unique_lock releases send_mutex; Send<Response> catches, erases
\* its slot and returns the default response, which OpenSecureChannel
\* stores as the token; CloseSecureChannel catches and logs.
WriteFails(c) ==
  /\ pc[c] = "write"
  /\ pc' = [pc EXCEPT ![c] = "idle"]
  /\ sendLock' = IF kind[c] = "msg" THEN NoHolder ELSE sendLock
  /\ IF kind[c] = "open"
       THEN ChannelSecurityToken' = NoToken /\ opened' = TRUE
       ELSE UNCHANGED <<ChannelSecurityToken, opened>>
  /\ UNCHANGED <<kind, tok, part, call, stream, issued, closed, ops>>

\* Send<OpenSecureChannelResponse> returns and OpenSecureChannel stores
\* response.ChannelSecurityToken: a new token from the server, or the
\* default one when the call failed or timed out.
OpenResponse(c) ==
  /\ pc[c] = "wait"
  /\ \/ /\ issued < MaxTokens
        /\ issued' = issued + 1
        /\ ChannelSecurityToken' = [channel |-> 1, id |-> issued + 1]
     \/ /\ ChannelSecurityToken' = NoToken
        /\ UNCHANGED issued
  /\ opened' = TRUE
  /\ pc' = [pc EXCEPT ![c] = "idle"]
  /\ UNCHANGED <<sendLock, kind, tok, part, call, stream, closed, ops>>

Caller(c) ==
  \/ SendRequest(c)
  \/ LockSend(c)
  \/ OpenSecureChannel(c)
  \/ CloseSecureChannel(c)
  \/ WritePart(c)
  \/ WriteFails(c)
  \/ OpenResponse(c)

Next == \E c \in Callers : Caller(c)

\* Each thread runs its own steps once it has begun a call: taking
\* send_mutex when it is free, writing (or failing to write) the next
\* part, and getting the open's response (wait_for always returns).  The
\* application's decisions to call, open and close are not fair.  Weak
\* fairness is enough for the mutex: the callers make at most MaxOps calls,
\* so a free mutex stays free once the others are done.
Fairness ==
  \A c \in Callers :
    /\ WF_vars(LockSend(c))
    /\ WF_vars(WritePart(c) \/ WriteFails(c))
    /\ WF_vars(OpenResponse(c))

Spec == Init /\ [][Next]_vars /\ Fairness

-----------------------------------------------------------------------------

\* Frames are never interleaved on the wire: every part after a header is
\* the next part of the same call's frame (spec 4.3 step 3 and 5: one frame
\* fully written before the next begins).  send_mutex is what makes the
\* service calls' chains atomic.
NoInterleavedFrames ==
  \A i \in 2..Len(stream) :
    stream[i].part > 1 =>
      /\ stream[i - 1].caller = stream[i].caller
      /\ stream[i - 1].call = stream[i].call
      /\ stream[i - 1].part = stream[i].part - 1

\* Every thread that waits for send_mutex eventually holds it: the mutex
\* is released on every path out of Send<Request>, a write that throws
\* included, and no other writer takes it.
LockGranted ==
  \A c \in Callers : (pc[c] = "lock") ~> (pc[c] = "write")

\* Every message frame carries a token the server issued: the channel must
\* be opened successfully before any message frame is sent, since its
\* token id is embedded in every later frame header (spec 4.2).
\* OpenSecureChannel stores whatever Send<OpenSecureChannelResponse>
\* returned, so a failed or timed-out open leaves the default token and the
\* next service call is stamped with channel 0, token 0.
FramesCarryLiveToken ==
  \A i \in 1..Len(stream) : stream[i].kind = "msg" => stream[i].token # NoToken

=============================================================================
