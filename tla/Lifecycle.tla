------------------------------ MODULE Lifecycle ------------------------------
(***************************************************************************)
(* Construction and destruction of a BinaryClient                          *)
(* (src/src/client/binary_client.cpp) over a SocketChannel                 *)
(* (src/src/core/socket_channel.cpp), composed with the notification       *)
(* worker of the Dispatcher module.                                        *)
(*                                                                         *)
(* The constructor starts callback_thread (CallbackThread::Run), runs      *)
(* HelloServer on its own thread and then starts ReceiveThread, whose loop *)
(* is while (!Finished) Receive().  Receive blocks in SocketChannel::recv; *)
(* a publish response makes it post to the worker, an error frame or a    *)
(* closed socket makes it throw, which ends the loop.  The destructor     *)
(* sets Finished, stops and joins the worker, stops the channel (shutdown) *)
(* and joins the receive thread.  The server is an environment that sends *)
(* frames and may close the connection; the application subscribes and    *)
(* closes the session through the Dispatcher's actions and decides when to *)
(* destroy the client.                                                     *)
(***************************************************************************)
EXTENDS Naturals, Sequences

CONSTANTS SubIds, Statuses, Good, BadSessionClosed, NoCallback, MaxPosts,
          MaxSubscriptions,
          MaxFrames  \* bound on frames the server sends after the hello

VARIABLES Queue, StopRequest, wpc, current, found, PublishCallbacks,
          registered, sessionClosed, joined, terminated, posts, taken,
          lateCall

D == INSTANCE Dispatcher

VARIABLES
  lpc,        \* constructor / destructor: where the owning thread is
  rx,         \* ReceiveThread: none, check, recv, exited
  sock,       \* the socket: open, shut (our shutdown), closed (by the peer)
  Finished,   \* BinaryClient::Finished
  frames      \* frames the server sent

dvars == <<Queue, StopRequest, wpc, current, found, PublishCallbacks,
           registered, sessionClosed, joined, terminated, posts, taken,
           lateCall>>
lvars == <<lpc, rx, sock, Finished, frames>>
vars == <<dvars, lvars>>

Init ==
  /\ D!Init
  /\ lpc = "startWorker"
  /\ rx = "none"
  /\ sock = "open"
  /\ Finished = FALSE
  /\ frames = 0

-----------------------------------------------------------------------------
(* Constructor.                                                            *)

\* callback_thread = std::thread([&](){ CallbackService.Run(); })
StartCallbackThread ==
  /\ lpc = "startWorker"
  /\ lpc' = "hello"
  /\ UNCHANGED <<dvars, rx, sock, Finished, frames>>

\* HelloServer: write Hello, read a header and an Acknowledge.  The reads
\* go through SocketChannel::Receive, which throws when recv returns 0 or
\* fails; the exception leaves the constructor while callback_thread is
\* still joinable, and destroying a joinable std::thread calls
\* std::terminate.
HelloServer ==
  /\ lpc = "hello"
  /\ \/ /\ sock = "open"
        /\ lpc' = "startReceive"
        /\ UNCHANGED terminated
     \/ /\ lpc' = "failed"
        /\ terminated' = TRUE
  /\ UNCHANGED <<Queue, StopRequest, wpc, current, found, PublishCallbacks,
                 registered, sessionClosed, joined, posts, taken, lateCall,
                 rx, sock, Finished, frames>>

\* ReceiveThread = std::thread(...): the constructor returns.
StartReceiveThread ==
  /\ lpc = "startReceive"
  /\ lpc' = "running"
  /\ rx' = "check"
  /\ UNCHANGED <<dvars, sock, Finished, frames>>

-----------------------------------------------------------------------------
(* ReceiveThread: while (!Finished) Receive(); catch: log and end.         *)

\* The loop condition.  Finished is a plain bool written by the destructor
\* without synchronisation (a data race): once it is set the read may still
\* return the old value.
RxCheck ==
  /\ ~terminated
  /\ rx = "check"
  /\ rx' \in IF Finished THEN {"exited", "recv"} ELSE {"recv"}
  /\ UNCHANGED <<dvars, lpc, sock, Finished, frames>>

\* What Receive does with the frame it read: a publish response (its
\* ResponseCallback posts to the worker), any other response, or an error
\* frame or a malformed one (Receive throws and the loop ends).
FrameHandled ==
  \/ /\ \E n \in D!Notifications : D!Post(n)
     /\ rx' = "check"
  \/ /\ rx' = "check"
     /\ UNCHANGED dvars
  \/ /\ rx' = "exited"
     /\ UNCHANGED dvars

\* recv (MSG_WAITALL) returns a whole frame.
RxFrame ==
  /\ ~terminated
  /\ rx = "recv"
  /\ sock = "open"
  /\ frames < MaxFrames
  /\ frames' = frames + 1
  /\ FrameHandled
  /\ UNCHANGED <<lpc, sock, Finished>>

\* The socket is shut down or closed while a frame is in transit: recv
\* returns the bytes it got so far, and SocketChannel::Receive returns the
\* requested size all the same, so Receive goes on with a partly filled
\* buffer, which decodes as anything a frame can be.
RxShort ==
  /\ ~terminated
  /\ rx = "recv"
  /\ sock # "open"
  /\ frames < MaxFrames
  /\ frames' = frames + 1
  /\ FrameHandled
  /\ UNCHANGED <<lpc, sock, Finished>>

\* SocketChannel::Receive: recv returns 0 (shut down or closed by the peer)
\* and it throws "Connection was closed by host".
RxClosed ==
  /\ ~terminated
  /\ rx = "recv"
  /\ sock # "open"
  /\ rx' = "exited"
  /\ UNCHANGED <<dvars, lpc, sock, Finished, frames>>

\* The server closes the connection.
PeerClose ==
  /\ sock = "open"
  /\ sock' = "closed"
  /\ UNCHANGED <<dvars, lpc, rx, Finished, frames>>

-----------------------------------------------------------------------------
(* Destructor.                                                             *)

\* The owner destroys the client: Finished = true.
Destroy ==
  /\ ~terminated
  /\ lpc = "running"
  /\ Finished' = TRUE
  /\ lpc' = "stopWorker"
  /\ UNCHANGED <<dvars, rx, sock, frames>>

\* CallbackService.Stop()
StopWorker ==
  /\ lpc = "stopWorker"
  /\ D!Stop
  /\ lpc' = "joinWorker"
  /\ UNCHANGED <<rx, sock, Finished, frames>>

\* callback_thread.join()
JoinWorker ==
  /\ lpc = "joinWorker"
  /\ D!Join
  /\ lpc' = "stopChannel"
  /\ UNCHANGED <<rx, sock, Finished, frames>>

\* Mutant: SocketChannel::Stop without the shutdown.
StopChannelNoShutdown ==
  /\ lpc = "stopChannel"
  /\ lpc' = "joinReceive"
  /\ UNCHANGED <<dvars, rx, sock, Finished, frames>>

\* Channel->Stop(): SocketChannel::Stop, shutdown(Socket, 2); a failure is
\* only logged (it fails when the peer already closed the socket).
StopChannel ==
  /\ lpc = "stopChannel"
  /\ sock' = IF sock = "open" THEN "shut" ELSE sock
  /\ lpc' = "joinReceive"
  /\ UNCHANGED <<dvars, rx, Finished, frames>>

\* ReceiveThread.join()
JoinReceive ==
  /\ lpc = "joinReceive"
  /\ rx = "exited"
  /\ lpc' = "done"
  /\ UNCHANGED <<dvars, rx, sock, Finished, frames>>

-----------------------------------------------------------------------------

\* The worker runs once its thread exists.
Worker == lpc # "startWorker" /\ D!Worker /\ UNCHANGED lvars

Application ==
  /\ lpc = "running"
  /\ \/ \E s \in SubIds : D!CreateSubscription(s)
     \/ D!CloseSession
     \/ D!AbortSession
  /\ UNCHANGED lvars

Constructor == StartCallbackThread \/ HelloServer \/ StartReceiveThread

Destructor ==
  StopWorker \/ JoinWorker \/ StopChannel \/ JoinReceive

Receiver == RxCheck \/ RxClosed

Next ==
  \/ Constructor
  \/ Worker
  \/ Receiver
  \/ RxFrame
  \/ RxShort
  \/ PeerClose
  \/ Application
  \/ Destroy
  \/ Destructor

\* Every thread runs its own code: the constructor and destructor steps,
\* the worker, and the receive thread's loop and its reaction to a closed
\* socket.  The server (frames, frames cut short, closing) and the application (subscribing,
\* closing the session, destroying the client) are not fair.
Fairness ==
  /\ WF_vars(Constructor)
  /\ WF_vars(Worker)
  /\ WF_vars(Receiver)
  /\ WF_vars(StopWorker) /\ WF_vars(JoinWorker)
  /\ WF_vars(StopChannel) /\ WF_vars(JoinReceive)

Spec == Init /\ [][Next]_vars /\ Fairness

-----------------------------------------------------------------------------

\* The Dispatcher's variables keep their types, and every thread of the
\* client is at one of its places.
TypeOK ==
  /\ D!TypeOK
  /\ lpc \in {"startWorker", "hello", "failed", "startReceive", "running",
              "stopWorker", "joinWorker", "stopChannel", "joinReceive", "done"}
  /\ rx \in {"none", "check", "recv", "exited"}
  /\ sock \in {"open", "shut", "closed"}
  /\ Finished \in BOOLEAN
  /\ frames \in 0 .. MaxFrames

\* CallbackThread::Run never sleeps on its condition variable while the
\* queue holds work, with the receive thread posting publish responses
\* and the destructor stopping the worker (a lost notify would leave a
\* posted notification undelivered until the next post).
NoSleepWithWork == D!NoSleepWithWork

\* Every notification the receive thread posts is eventually taken by the
\* worker, unless the destructor requested a stop or the process ended.
NotificationsDispatched == D!NotificationsDispatched

\* Once the destructor has stopped the channel, ReceiveThread.join()
\* returns: shutdown makes the blocked recv return 0, whatever the server
\* does (spec 5: close the transport, which forces the blocked read to
\* fail, then join).
ReceiveJoinReturns ==
  (lpc = "joinReceive") ~> (lpc = "done")

\* Once the owner destroys the client, ~BinaryClient returns (or the
\* process has ended).
DestructorReturns ==
  (lpc = "stopWorker") ~> (lpc = "done" \/ terminated)

=============================================================================
