----------------------------- MODULE WorkQueue -----------------------------
(***************************************************************************)
(* What the queue of CREAM_Client/src/queue.c gives its callers.           *)
(*                                                                         *)
(* As long as no enqueue runs while another operation is in flight, it is  *)
(* a FIFO queue.  An enqueue that overlaps another operation may discard   *)
(* what is queued, or its own item, and from then on an operation may      *)
(* fail (the process dereferences a null pointer).  Whatever is handed out *)
(* is handed out in the order it was put in, and nothing is handed out     *)
(* once the queue is closed.                                               *)
(*                                                                         *)
(* Closing destroys "all items in the queue" (queue.h:36-37) only if no    *)
(* call is in flight, which is less than queue.h promises: each call in    *)
(* flight may save one, the newest ones, and nobody destroys those later.  *)
(***************************************************************************)
EXTENDS Naturals, Sequences

VARIABLES
  pending,     \* the items that are in the queue, oldest first
  issued,      \* how many items were put in; item n is the n-th one
  inFlight,    \* the puts that have not returned, and the takes under way
  delivered,   \* the items handed out, oldest first
  destroyed,   \* the items destroyed, oldest first
  closed,      \* the queue was invalidated
  overlapped,  \* some put took effect while a call was in flight
  failed       \* an operation failed, and the process with it

wvars == <<pending, issued, inFlight, delivered, destroyed, closed, overlapped, failed>>

Init ==
  /\ pending = <<>> /\ issued = 0 /\ inFlight = 0
  /\ delivered = <<>> /\ destroyed = <<>>
  /\ closed = FALSE /\ overlapped = FALSE /\ failed = FALSE

\* An item is put in.  If the call overlaps another one, or an earlier put
\* did, the item may replace everything pending or be lost itself.
Put ==
  /\ ~closed /\ ~failed
  /\ issued' = issued + 1
  /\ inFlight' = inFlight + 1
  /\ overlapped' = (overlapped \/ inFlight > 0)
  /\ \/ pending' = Append(pending, issued')
     \/ overlapped' /\ pending' \in {<<issued'>>, pending}
  /\ UNCHANGED <<delivered, destroyed, closed, failed>>

\* A put that took effect returns, or a take from a closed queue with nothing.
Return ==
  /\ ~failed
  /\ inFlight > 0 /\ inFlight' = inFlight - 1
  /\ UNCHANGED <<pending, issued, delivered, destroyed, closed, overlapped, failed>>

\* A take gets under way.
Ask ==
  /\ ~failed
  /\ inFlight' = inFlight + 1
  /\ UNCHANGED <<pending, issued, delivered, destroyed, closed, overlapped, failed>>

\* The oldest pending item is handed out.
Take ==
  /\ ~closed /\ ~failed
  /\ inFlight > 0 /\ inFlight' = inFlight - 1
  /\ pending # <<>>
  /\ delivered' = Append(delivered, Head(pending))
  /\ pending' = Tail(pending)
  /\ UNCHANGED <<issued, destroyed, closed, overlapped, failed>>

\* The queue is invalidated and its items are destroyed, the oldest first:
\* all of them if nothing is in flight.
Close ==
  /\ ~closed /\ ~failed
  /\ closed' = TRUE
  /\ \E n \in 0 .. Len(pending) :
       /\ Len(pending) - n <= inFlight
       /\ destroyed' = destroyed \o SubSeq(pending, 1, n)
       /\ pending' = SubSeq(pending, n + 1, Len(pending))
  /\ UNCHANGED <<issued, inFlight, delivered, overlapped, failed>>

\* An operation fails, which needs an earlier overlap.
Fail ==
  /\ overlapped /\ ~failed
  /\ failed' = TRUE
  /\ UNCHANGED <<pending, issued, inFlight, delivered, destroyed, closed, overlapped>>

Next == Put \/ Return \/ Ask \/ Take \/ Close \/ Fail

Spec == Init /\ [][Next]_wvars
=============================================================================
