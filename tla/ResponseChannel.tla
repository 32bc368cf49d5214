--------------------------- MODULE ResponseChannel ---------------------------
(***************************************************************************)
(* What a server owes its clients: a request that was processed is         *)
(* answered once, on the connection it came from, or never, because the    *)
(* connection is gone.                                                     *)
(***************************************************************************)
EXTENDS Sequences, Functions

CONSTANTS
  Sockets,
  Requests,
  Ordered   \* whether a connection is answered in the order of its requests

VARIABLES
  open,  \* the connections
  owed,  \* per connection, the requests that still need their answer
  out    \* per connection, the requests answered by the last step

vars == <<open, owed, out>>

Init ==
  /\ open = {}
  /\ owed = [s \in Sockets |-> <<>>]
  /\ out = [s \in Sockets |-> <<>>]

\* The same requests, in the same order if order counts.
Same(before, after) ==
  IF Ordered THEN before = after
  ELSE Len(before) = Len(after) /\ Range(before) = Range(after)

\* The connection brings at most one new request, and none disappears.
Serve(s) ==
  /\ s \in open'
  /\ \E new \in {<<>>} \cup {<<r>> : r \in Requests} :
       Same(owed[s] \o new, out'[s] \o owed'[s])

Gone(s) == s \notin open' /\ owed'[s] = <<>> /\ out'[s] = <<>>

Next == open' \subseteq Sockets /\ \A s \in Sockets : Serve(s) \/ Gone(s)

Spec == Init /\ [][Next]_vars
=============================================================================
