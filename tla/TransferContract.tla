--------------------------- MODULE TransferContract ---------------------------
(***************************************************************************)
(* What an outgoing connection promises about its file transfers, seen     *)
(* from where the events go: the controller and, behind it, the page.  A   *)
(* batch keeps the connection busy, and the page keeps its send button     *)
(* locked, until one event says that nothing is left to wait for           *)
(* (TransferInfo::batchEnd).  The contract is that this event comes        *)
(* exactly once per busy period, last, and never out of nothing.           *)
(*                                                                         *)
(* ClientSocket implements it: see ImplementsContract there.               *)
(***************************************************************************)
EXTENDS Integers, Sequences

VARIABLES
  busy,     \* a file of some batch is being sent
  dropped,  \* the controller has let go of the connection
  out       \* the events the last handler reported, in order

vars == <<busy, dropped, out>>

\* A handler that leaves work pending reports no end of batch.
NoEnd(events) == \A i \in 1..Len(events) : ~events[i].end

\* A handler that leaves nothing pending says so once, with its last event,
\* and that event is the outcome of a file.
OneEnd(events) ==
  /\ Len(events) > 0
  /\ events[Len(events)].end
  /\ events[Len(events)].stage \in {"done", "failed"}
  /\ \A i \in 1..Len(events) - 1 : ~events[i].end

Init == /\ busy = FALSE
        /\ dropped = FALSE
        /\ out = <<>>

Accept == /\ ~busy /\ busy'
          /\ ~dropped /\ ~dropped'
          /\ NoEnd(out')

Reject == /\ ~busy /\ ~busy'
          /\ ~dropped /\ ~dropped'
          /\ OneEnd(out')

Work == /\ busy /\ busy'
        /\ dropped' = dropped
        /\ NoEnd(out')

Finish == /\ busy /\ ~busy'
          /\ dropped => dropped'
          /\ OneEnd(out')

\* Everything else: messages, connection set-up, handlers that come too late.
Rest == /\ ~busy /\ ~busy'
        /\ dropped => dropped'
        /\ out' = <<>>

Next == Accept \/ Reject \/ Work \/ Finish \/ Rest

Spec == Init /\ [][Next]_vars
=============================================================================
