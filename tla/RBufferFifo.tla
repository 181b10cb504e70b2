---------------------------- MODULE RBufferFifo ----------------------------
(***************************************************************************)
(* What base/rbuffer.h promises: a first-in first-out queue of             *)
(* whole messages between one writer and one reader.  Peek hands out the   *)
(* oldest message; Consume removes the message that was handed out last.   *)
(***************************************************************************)
EXTENDS Naturals, Sequences

CONSTANT Messages
VARIABLES queue, handed

Init == queue = <<>> /\ handed = <<>>

Enqueue(m) ==
  /\ Len(m) > 0
  /\ queue' = Append(queue, m)
  /\ UNCHANGED handed

Peek ==
  /\ queue # <<>>
  /\ handed' = Head(queue)
  /\ UNCHANGED queue

Consume ==
  /\ queue # <<>>
  /\ handed = Head(queue)
  /\ queue' = Tail(queue)
  /\ UNCHANGED handed

Next == (\E m \in Messages : Enqueue(m)) \/ Peek \/ Consume
Spec == Init /\ [][Next]_<<queue, handed>>
=============================================================================
