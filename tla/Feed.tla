-------------------------------- MODULE Feed --------------------------------
(***************************************************************************)
(* What the live alert feed promises its subscribers: from the alert after *)
(* its subscription on, a subscriber gets every published alert, in order, *)
(* once, until it is cut off; nobody gets an alert before it is published. *)
(***************************************************************************)
EXTENDS Integers, Sequences

CONSTANT Subscribers

VARIABLES
  published,  \* number of alerts published
  first,      \* per subscriber, the first alert it is entitled to (0: none)
  got         \* per subscriber, the alerts it got

vars == <<published, first, got>>

Init ==
  /\ published = 0
  /\ first = [c \in Subscribers |-> 0]
  /\ got = [c \in Subscribers |-> << >>]

Publish ==
  /\ published' = published + 1
  /\ UNCHANGED <<first, got>>

Subscribe(c) ==
  /\ first[c] = 0
  /\ first' = [first EXCEPT ![c] = published + 1]
  /\ UNCHANGED <<published, got>>

Receive(c) ==
  LET next == first[c] + Len(got[c])
  IN  /\ first[c] # 0
      /\ next <= published
      /\ got' = [got EXCEPT ![c] = Append(@, next)]
      /\ UNCHANGED <<published, first>>

Next == Publish \/ \E c \in Subscribers : Subscribe(c) \/ Receive(c)

Spec == Init /\ [][Next]_vars
=============================================================================
