------------------------------- MODULE Browse -------------------------------
(***************************************************************************)
(* Continuation points of BinaryClient::Browse and BinaryClient::BrowseNext *)
(* (src/src/client/binary_client.cpp).  Both are const methods that write  *)
(* the mutable member ContinuationPoints (a std::vector) without any lock: *)
(* after Send<Response> returns they clear the vector and push_back the    *)
(* non-empty continuation point of every result.  BrowseNext sends the     *)
(* vector's current contents.                                              *)
(*                                                                         *)
(* The round trip itself is one step (Respond): the Correlator module      *)
(* models its mechanics; here only its outcome matters, which is either   *)
(* the server's response or the default-constructed response Send returns  *)
(* after a failed write or a timeout (no results at all).  A continuation *)
(* point is a model value; a result without a continuation point is left  *)
(* out, since the code skips it.  The server keeps the points it issued   *)
(* alive until a BrowseNext consumes them.                                 *)
(***************************************************************************)
EXTENDS Naturals, Sequences, FiniteSets, SequencesExt

CONSTANTS
  Callers,        \* threads calling Browse / BrowseNext on one client
  Points,         \* continuation points the server can issue
  NodesPerQuery,  \* nodes in one Browse query: results per response
  MaxCalls        \* bound on Browse + BrowseNext calls

ASSUME NodesPerQuery \in Nat \ {0} /\ MaxCalls \in Nat

VARIABLES
  ContinuationPoints, \* the member vector
  pc,                 \* per caller: idle, sending, clear, push
  op,                 \* per caller: "browse" or "next"
  request,            \* per caller: points carried by its request
  results,            \* per caller: points of the response it got
  pushed,             \* per caller: how many of them it pushed back
  live,               \* points the server issued and not yet consumed
  issued,             \* points the server ever issued
  calls,              \* number of calls made
  lastResult,         \* points of the last response fully stored
  expected,           \* per caller: lastResult when its BrowseNext read
  responses           \* history: point lists of every response received

vars == <<ContinuationPoints, pc, op, request, results, pushed, live, issued,
          calls, lastResult, expected, responses>>

Init ==
  /\ ContinuationPoints = <<>>
  /\ pc = [c \in Callers |-> "idle"]
  /\ op = [c \in Callers |-> "browse"]
  /\ request = [c \in Callers |-> <<>>]
  /\ results = [c \in Callers |-> <<>>]
  /\ pushed = [c \in Callers |-> 0]
  /\ live = {}
  /\ issued = {}
  /\ calls = 0
  /\ lastResult = <<>>
  /\ expected = [c \in Callers |-> <<>>]
  /\ responses = {}

\* Browse: a fresh BrowseRequest with the caller's query, sent by
\* Send<BrowseResponse>.  It carries no continuation point.
Browse(c) ==
  /\ pc[c] = "idle"
  /\ calls < MaxCalls
  /\ pc' = [pc EXCEPT ![c] = "sending"]
  /\ op' = [op EXCEPT ![c] = "browse"]
  /\ request' = [request EXCEPT ![c] = <<>>]
  /\ calls' = calls + 1
  /\ UNCHANGED <<ContinuationPoints, results, pushed, live, issued,
                 lastResult, expected, responses>>

\* BrowseNext: returns at once when the vector is empty (nothing changes,
\* so that case is a stutter and not an action); otherwise copies the
\* vector into the request.  ReleaseContinuationPoints is computed after
\* the emptiness check and so is always false: the server is never asked
\* to release.
BrowseNext(c) ==
  /\ pc[c] = "idle"
  /\ calls < MaxCalls
  /\ ContinuationPoints # <<>>
  /\ pc' = [pc EXCEPT ![c] = "sending"]
  /\ op' = [op EXCEPT ![c] = "next"]
  /\ request' = [request EXCEPT ![c] = ContinuationPoints]
  /\ expected' = [expected EXCEPT ![c] = lastResult]
  /\ calls' = calls + 1
  /\ UNCHANGED <<ContinuationPoints, results, pushed, live, issued,
                 lastResult, responses>>

\* Fresh continuation points for n results, in some order.
FreshPoints(n) ==
  { SetToSeq(S) : S \in { S \in SUBSET (Points \ issued) : Cardinality(S) <= n } }

\* Send<Response> returns.  Either the server processed the request
\* (consuming the points it carried and issuing fresh ones, at most one per
\* node browsed or per point continued) or it did not (the write failed).
\* Either way the response may be lost, in which case Send returns the
\* default response after its timeout: no results.
Respond(c) ==
  /\ pc[c] = "sending"
  /\ LET n == IF op[c] = "browse" THEN NodesPerQuery ELSE Len(request[c]) IN
     \/ /\ live' = live
        /\ results' = [results EXCEPT ![c] = <<>>]
        /\ UNCHANGED issued
     \/ \E r \in FreshPoints(n), delivered \in BOOLEAN :
          /\ live' = (live \ ToSet(request[c])) \cup ToSet(r)
          /\ issued' = issued \cup ToSet(r)
          /\ results' = [results EXCEPT ![c] = IF delivered THEN r ELSE <<>>]
  /\ responses' = responses \cup {results'[c]}
  /\ pc' = [pc EXCEPT ![c] = "clear"]
  /\ pushed' = [pushed EXCEPT ![c] = 0]
  /\ UNCHANGED <<ContinuationPoints, op, request, calls, lastResult, expected>>

\* Mutant: the clear is left out, so the new points are appended.
ClearKeep(c) ==
  /\ pc[c] = "clear"
  /\ pc' = [pc EXCEPT ![c] = "push"]
  /\ UNCHANGED <<ContinuationPoints, op, request, results, pushed, live,
                 issued, calls, lastResult, expected, responses>>

\* Mutant: the vector is only replaced when the response has results.
ClearIfResults(c) ==
  /\ pc[c] = "clear"
  /\ ContinuationPoints' = IF results[c] = <<>> THEN ContinuationPoints ELSE <<>>
  /\ pc' = [pc EXCEPT ![c] = "push"]
  /\ UNCHANGED <<op, request, results, pushed, live, issued, calls,
                 lastResult, expected, responses>>

\* ContinuationPoints.clear()
Clear(c) ==
  /\ pc[c] = "clear"
  /\ ContinuationPoints' = <<>>
  /\ pc' = [pc EXCEPT ![c] = "push"]
  /\ UNCHANGED <<op, request, results, pushed, live, issued, calls,
                 lastResult, expected, responses>>

\* One iteration of the loop over response.Results: push_back of the next
\* non-empty continuation point.
Push(c) ==
  /\ pc[c] = "push"
  /\ pushed[c] < Len(results[c])
  /\ ContinuationPoints' = Append(ContinuationPoints, results[c][pushed[c] + 1])
  /\ pushed' = [pushed EXCEPT ![c] = @ + 1]
  /\ UNCHANGED <<pc, op, request, results, live, issued, calls, lastResult,
                 expected, responses>>

\* The loop ends and Browse / BrowseNext returns the results.
Return(c) ==
  /\ pc[c] = "push"
  /\ pushed[c] = Len(results[c])
  /\ pc' = [pc EXCEPT ![c] = "idle"]
  /\ lastResult' = results[c]
  /\ UNCHANGED <<ContinuationPoints, op, request, results, pushed, live,
                 issued, calls, expected, responses>>

Caller(c) ==
  \/ Browse(c)
  \/ BrowseNext(c)
  \/ Respond(c)
  \/ Clear(c)
  \/ Push(c)
  \/ Return(c)

Next == \E c \in Callers : Caller(c)

Spec == Init /\ [][Next]_vars

-----------------------------------------------------------------------------

\* Every variable has its type; the vector never holds more points than one
\* response carries.
TypeOK ==
  /\ ContinuationPoints \in BoundedSeq(Points, NodesPerQuery)
  /\ pc \in [Callers -> {"idle", "sending", "clear", "push"}]
  /\ op \in [Callers -> {"browse", "next"}]
  /\ request \in [Callers -> BoundedSeq(Points, NodesPerQuery)]
  /\ results \in [Callers -> BoundedSeq(Points, NodesPerQuery)]
  /\ live \subseteq issued /\ issued \subseteq Points
  /\ calls \in 0..MaxCalls

\* The continuation points a BrowseNext sends are exactly those of the
\* latest Browse / BrowseNext response stored, never a merge with or a
\* remnant of an earlier one (ContinuationPoints is cleared and refilled
\* after every Send, including one that failed or timed out).
BrowseNextUsesLatest ==
  \A c \in Callers :
    op[c] = "next" /\ pc[c] = "sending" => request[c] = expected[c]

\* Spec 4.7: the continuation set is never partially updated, always
\* cleared then repopulated.  So the points a BrowseNext sends are the
\* complete point list of one response, never the prefix of a vector
\* another thread is still refilling, nor points of two responses pushed
\* after one clear.  Browse and BrowseNext write ContinuationPoints with no
\* lock, so with two callers this takes the interleaving of two handlers.
NoPartialRefill ==
  \A c \in Callers :
    op[c] = "next" /\ pc[c] = "sending" => request[c] \in responses

=============================================================================
