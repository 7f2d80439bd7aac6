---------------------------- MODULE BoundedDeque ----------------------------
(***************************************************************************)
(* What a mailbox promises: a queue of at most N messages, posted at       *)
(* either end and fetched from the front, which a reset empties.           *)
(***************************************************************************)
EXTENDS Integers, Sequences

CONSTANTS Messages, N

VARIABLE content

Init == content = <<>>

Post(m) ==
  /\ Len(content) < N
  /\ content' = Append(content, m)

PostAhead(m) ==
  /\ Len(content) < N
  /\ content' = <<m>> \o content

Fetch ==
  /\ content # <<>>
  /\ content' = Tail(content)

Reset == content' = <<>>

Next ==
  \/ Reset
  \/ Fetch
  \/ \E m \in Messages : Post(m) \/ PostAhead(m)

Spec == Init /\ [][Next]_content

=============================================================================
