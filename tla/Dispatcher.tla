----------------------------- MODULE Dispatcher -----------------------------
(***************************************************************************)
(* The notification pipeline of BinaryClient                               *)
(* (src/src/client/binary_client.cpp): CallbackThread (post, Run, Stop),   *)
(* the dispatch lambda that Publish's ResponseCallback posts, and the      *)
(* subscription registry PublishCallbacks written by CreateSubscription    *)
(* and cleared by CloseSession / AbortSession (RemoveSelfReferences).      *)
(*                                                                         *)
(* Threads: the receive thread posts publish results; the single worker    *)
(* runs CallbackThread::Run; an application thread creates subscriptions   *)
(* and closes or aborts the session; the destructor thread calls Stop and  *)
(* joins the worker.  CallbackThread::Mutex is held by the worker in       *)
(* states "check", "blocking" and "drain"; post is one step that needs it. *)
(* Stop sets StopRequest and notifies without taking the Mutex.           *)
(* PublishCallbacks is accessed by the worker and the application thread   *)
(* without any lock.                                                       *)
(***************************************************************************)
EXTENDS Naturals, Sequences, Functions, TLC

CONSTANTS
  SubIds,            \* subscription ids (0: id of a default response)
  Statuses,          \* ServiceResult of a publish response
  Good,              \* StatusCode::Good
  BadSessionClosed,  \* StatusCode::BadSessionClosed
  NoCallback,        \* std::function with no target / PublishCallbacks.end()
  MaxPosts,          \* bound: publish results posted
  MaxSubscriptions   \* bound: CreateSubscription calls

ASSUME /\ {Good, BadSessionClosed} \subseteq Statuses
       /\ MaxPosts \in Nat /\ MaxSubscriptions \in Nat

\* Each registered callback is a distinct std::function object.
Versions == 1 .. MaxSubscriptions
Notifications == [status : Statuses, sub : SubIds]

VARIABLES
  Queue,             \* CallbackThread::Queue
  StopRequest,       \* CallbackThread::StopRequest (atomic)
  wpc,               \* program counter of the worker thread
  current,           \* the callback the worker popped
  found,             \* callbackIt->second as looked up by the worker
  PublishCallbacks,  \* BinaryClient::PublishCallbacks: sub -> callback
  registered,        \* callbacks created so far
  sessionClosed,     \* RemoveSelfReferences has run
  joined,            \* the destructor's callback_thread.join() returned
  terminated,        \* std::terminate: an exception left the worker
  posts,             \* notifications posted so far
  taken,             \* notifications popped by the worker so far
  lateCall           \* a callback ran after RemoveSelfReferences

vars == <<Queue, StopRequest, wpc, current, found, PublishCallbacks,
          registered, sessionClosed, joined, terminated, posts, taken,
          lateCall>>

\* The worker holds CallbackThread::Mutex.
WorkerHoldsMutex == wpc \in {"check", "blocking", "drain"}

Init ==
  /\ Queue = <<>>
  /\ StopRequest = FALSE
  /\ wpc = "top"
  /\ current = [status |-> Good, sub |-> CHOOSE s \in SubIds : TRUE]
  /\ found = NoCallback
  /\ PublishCallbacks = <<>>
  /\ registered = 0
  /\ sessionClosed = FALSE
  /\ joined = FALSE
  /\ terminated = FALSE
  /\ posts = 0
  /\ taken = 0
  /\ lateCall = FALSE

-----------------------------------------------------------------------------
(* CallbackThread::post, called by the receive thread.                     *)

\* Mutant: the notify_one is forgotten.
PostWithoutNotify(n) ==
  /\ ~terminated
  /\ ~WorkerHoldsMutex
  /\ posts < MaxPosts
  /\ Queue' = Append(Queue, n)
  /\ posts' = posts + 1
  /\ UNCHANGED <<StopRequest, wpc, current, found, PublishCallbacks,
                 registered, sessionClosed, joined, terminated, taken,
                 lateCall>>

\* Under Mutex: push, notify_one.
Post(n) ==
  /\ ~terminated
  /\ ~WorkerHoldsMutex
  /\ posts < MaxPosts
  /\ Queue' = Append(Queue, n)
  /\ wpc' = IF wpc = "waiting" THEN "top" ELSE wpc
  /\ posts' = posts + 1
  /\ UNCHANGED <<StopRequest, current, found, PublishCallbacks, registered,
                 sessionClosed, joined, terminated, taken, lateCall>>

-----------------------------------------------------------------------------
(* CallbackThread::Run, the worker.                                        *)

\* unique_lock(Mutex) at the top of the loop, or re-acquired by a woken
\* Condition.wait.
Lock ==
  /\ ~terminated
  /\ wpc = "top"
  /\ wpc' = "check"
  /\ UNCHANGED <<Queue, StopRequest, current, found, PublishCallbacks,
                 registered, sessionClosed, joined, terminated, posts, taken,
                 lateCall>>

\* The predicate of Condition.wait, then "if (StopRequest) return".
Check ==
  /\ ~terminated
  /\ wpc = "check"
  /\ wpc' = CASE StopRequest   -> "exited"
              [] Queue # <<>>  -> "drain"
              [] OTHER         -> "blocking"
  /\ UNCHANGED <<Queue, StopRequest, current, found, PublishCallbacks,
                 registered, sessionClosed, joined, terminated, posts, taken,
                 lateCall>>

\* The predicate was false: wait releases Mutex and blocks.  A notify sent
\* between the predicate and this step is lost.
Block ==
  /\ ~terminated
  /\ wpc = "blocking"
  /\ wpc' = "waiting"
  /\ UNCHANGED <<Queue, StopRequest, current, found, PublishCallbacks,
                 registered, sessionClosed, joined, terminated, posts, taken,
                 lateCall>>

\* Inner loop: copy and pop the front callback, unlock and call it; or,
\* with the queue empty, leave the loop body (releasing Mutex).
Drain ==
  /\ ~terminated
  /\ wpc = "drain"
  /\ IF Queue # <<>>
       THEN /\ current' = Head(Queue)
            /\ Queue' = Tail(Queue)
            /\ taken' = taken + 1
            /\ wpc' = "dispatch"
       ELSE /\ wpc' = "top"
            /\ UNCHANGED <<Queue, current, taken>>
  /\ UNCHANGED <<StopRequest, found, PublishCallbacks, registered,
                 sessionClosed, joined, terminated, posts, lateCall>>

\* The dispatch lambda posted by Publish.  Good: find the subscription's
\* callback.  BadSessionClosed: throw, which nothing in Run catches, so
\* the process ends in std::terminate.  Any other status: nothing (TODO).
Dispatch ==
  /\ ~terminated
  /\ wpc = "dispatch"
  /\ CASE current.status = Good ->
            IF current.sub \in DOMAIN PublishCallbacks
              THEN /\ found' = PublishCallbacks[current.sub]
                   /\ wpc' = "invoke"
                   /\ UNCHANGED terminated
              ELSE /\ wpc' = "drain"
                   /\ UNCHANGED <<found, terminated>>
       [] current.status = BadSessionClosed ->
            /\ terminated' = TRUE
            /\ UNCHANGED <<wpc, found>>
       [] OTHER ->
            /\ wpc' = "drain"
            /\ UNCHANGED <<found, terminated>>
  /\ UNCHANGED <<Queue, StopRequest, current, PublishCallbacks, registered,
                 sessionClosed, joined, posts, taken, lateCall>>

\* callbackIt->second(...) under try/catch, then lock.lock().  When the map
\* was cleared or the entry reassigned since the find, this is a use of a
\* destroyed std::function (undefined): the outcome modelled is that the
\* callback found still runs.
Invoke ==
  /\ ~terminated
  /\ wpc = "invoke"
  /\ wpc' = "drain"
  /\ lateCall' = (lateCall \/ sessionClosed)
  /\ UNCHANGED <<Queue, StopRequest, current, found, PublishCallbacks,
                 registered, sessionClosed, joined, terminated, posts, taken>>

-----------------------------------------------------------------------------
(* Application thread: subscription registry.                              *)

\* CreateSubscription: after Send returns, PublishCallbacks[id] = callback
\* (operator[]: a new entry or a reassignment).  The id is the server's, or
\* 0 from a default response after a timeout or failed write.
CreateSubscription(s) ==
  /\ ~terminated
  /\ ~sessionClosed
  /\ registered < MaxSubscriptions
  /\ PublishCallbacks' = [x \in DOMAIN PublishCallbacks \cup {s} |->
                            IF x = s THEN registered + 1
                                     ELSE PublishCallbacks[x]]
  /\ registered' = registered + 1
  /\ UNCHANGED <<Queue, StopRequest, wpc, current, found, sessionClosed,
                 joined, terminated, posts, taken, lateCall>>

\* Mutant: RemoveSelfReferences resets each callback instead of clearing.
ClearKeepKeys ==
  [x \in DOMAIN PublishCallbacks |-> NoCallback]

\* RemoveSelfReferences: PublishCallbacks.clear().
RemoveSelfReferences == <<>>

\* CloseSession: Send<CloseSessionResponse>, then RemoveSelfReferences.
CloseSession ==
  /\ ~terminated
  /\ ~sessionClosed
  /\ PublishCallbacks' = RemoveSelfReferences
  /\ sessionClosed' = TRUE
  /\ UNCHANGED <<Queue, StopRequest, wpc, current, found, registered, joined,
                 terminated, posts, taken, lateCall>>

\* AbortSession: RemoveSelfReferences only.
AbortSession ==
  /\ ~terminated
  /\ ~sessionClosed
  /\ PublishCallbacks' = RemoveSelfReferences
  /\ sessionClosed' = TRUE
  /\ UNCHANGED <<Queue, StopRequest, wpc, current, found, registered, joined,
                 terminated, posts, taken, lateCall>>

-----------------------------------------------------------------------------
(* Destructor thread.                                                      *)

\* CallbackThread::Stop: StopRequest = true; Condition.notify_all(), with
\* no Mutex.
Stop ==
  /\ ~terminated
  /\ ~StopRequest
  /\ StopRequest' = TRUE
  /\ wpc' = IF wpc = "waiting" THEN "top" ELSE wpc
  /\ UNCHANGED <<Queue, current, found, PublishCallbacks, registered,
                 sessionClosed, joined, terminated, posts, taken, lateCall>>

\* callback_thread.join() returns once Run has returned.
Join ==
  /\ ~terminated
  /\ StopRequest
  /\ wpc = "exited"
  /\ ~joined
  /\ joined' = TRUE
  /\ UNCHANGED <<Queue, StopRequest, wpc, current, found, PublishCallbacks,
                 registered, sessionClosed, terminated, posts, taken,
                 lateCall>>

-----------------------------------------------------------------------------
Worker == Lock \/ Check \/ Block \/ Drain \/ Dispatch \/ Invoke

Next ==
  \/ \E n \in Notifications : Post(n)
  \/ Worker
  \/ \E s \in SubIds : CreateSubscription(s)
  \/ CloseSession
  \/ AbortSession
  \/ Stop
  \/ Join

\* The worker runs whenever it can (its only contention is post, which is
\* bounded); join returns once the worker has exited.  Posting,
\* subscribing, closing and the decision to destroy the client are not
\* fair.
Fairness == WF_vars(Worker) /\ WF_vars(Join)

Spec == Init /\ [][Next]_vars /\ Fairness

-----------------------------------------------------------------------------
(* Properties.                                                             *)

TypeOK ==
  /\ Queue \in Seq(Notifications)
  /\ StopRequest \in BOOLEAN
  /\ wpc \in {"top", "check", "blocking", "waiting", "drain", "dispatch",
              "invoke", "exited"}
  /\ current \in Notifications
  /\ found \in Versions \cup {NoCallback}
  /\ DOMAIN PublishCallbacks \subseteq SubIds
  /\ \A s \in DOMAIN PublishCallbacks : PublishCallbacks[s] \in Versions
  /\ registered \in 0 .. MaxSubscriptions
  /\ {sessionClosed, joined, terminated, lateCall} \subseteq BOOLEAN
  /\ posts \in 0 .. MaxPosts /\ taken \in 0 .. posts

\* The worker never sleeps on a non-empty queue: post pushes and notifies
\* under the Mutex, so its notify cannot fall between the worker's
\* predicate check and its wait.
NoSleepWithWork ==
  wpc = "waiting" => Queue = <<>>

\* Every posted notification is eventually taken by the worker, unless a
\* stop was requested or the process was terminated.
NotificationsDispatched ==
  \A k \in 1 .. MaxPosts :
    (posts >= k) ~> (taken >= k \/ StopRequest \/ terminated)

\* After CloseSession / AbortSession, no subscription callback runs
\* (spec 8), even for a notification already being dispatched.
NoCallbackAfterClose ==
  ~lateCall

=============================================================================
