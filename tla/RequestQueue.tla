---------------------------- MODULE RequestQueue ----------------------------
(***************************************************************************)
(* What a virtqueue promises its device: requests come out one at a time,  *)
(* each once, in the order the driver posted them; a malformed one is      *)
(* answered with an error in its turn and does not block the next.         *)
(* The abstract specification of VirtQueue (DescriptorChain::pop).         *)
(***************************************************************************)
EXTENDS Naturals, Sequences

CONSTANTS
  Requests,    \* the well-formed requests
  Failed,      \* a malformed request, and the answer to one
  NoRequest,   \* the answer Ok(None)
  Depth        \* how many requests may be pending

\* Failed, NoRequest and the requests are told apart, and Depth is a natural
\* number: VirtQueue instantiates them with chains and its queue size.

VARIABLES
  pending,   \* posted, not yet taken
  inHand,    \* taken, not yet answered; NoRequest when there is none
  answer     \* what the last pop returned

Init == pending = << >> /\ inHand = NoRequest /\ answer = NoRequest

\* One more request at the end, while there is room.
Post ==
  /\ UNCHANGED <<answer, inHand>>
  /\ Len(pending') = Len(pending) + 1 /\ Len(pending) < Depth
  /\ SubSeq(pending', 1, Len(pending)) = pending
  /\ pending'[Len(pending')] \in Requests \cup {Failed}

Take ==
  /\ inHand = NoRequest
  /\ pending # << >>
  /\ inHand' = Head(pending)
  /\ pending' = Tail(pending)
  /\ UNCHANGED answer

Answer ==
  /\ inHand # NoRequest
  /\ answer' = inHand
  /\ inHand' = NoRequest
  /\ UNCHANGED pending

AnswerNone ==
  /\ inHand = NoRequest
  /\ pending = << >>
  /\ answer' = NoRequest
  /\ UNCHANGED <<pending, inHand>>

\* The queue itself cannot be read: an error that takes no request.
AnswerUnreadable ==
  /\ inHand = NoRequest
  /\ answer' = Failed
  /\ UNCHANGED <<pending, inHand>>

Next == Post \/ Take \/ Answer \/ AnswerNone \/ AnswerUnreadable

Spec == Init /\ [][Next]_<<pending, inHand, answer>>

=============================================================================
