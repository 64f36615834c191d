--------------------------- MODULE EventQueueSpec ---------------------------
(***************************************************************************)
(* What the event interface of NovaVM promises a host: a queue of at most   *)
(* Room events in the order they happened.  An event that finds the queue   *)
(* full pushes the oldest one out.                                         *)
(***************************************************************************)
EXTENDS Naturals, Sequences

CONSTANTS Room, Events

VARIABLE queue

Init == queue = <<>>

Happens(event) ==
  LET longer == Append(queue, event)
  IN  queue' = IF Len(longer) > Room THEN Tail(longer) ELSE longer

Poll == queue # <<>> /\ queue' = Tail(queue)
Reset == queue' = <<>>

Next == (\E event \in Events : Happens(event)) \/ Poll \/ Reset
Spec == Init /\ [][Next]_queue
=============================================================================
