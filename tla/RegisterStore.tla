---------------------------- MODULE RegisterStore ----------------------------
(***************************************************************************)
(* What the simulator promises to views and Modbus clients together: one   *)
(* value per mapped register, whatever connection it is reached through.   *)
(***************************************************************************)
CONSTANTS Devs, NoDev, Cells, Vals, Absent

VARIABLES
  store,   \* the value of every register, Absent where none is mapped
  answer   \* the last reply to a client

vars == <<store, answer>>

Nothing == [c \in Cells |-> Absent]

Init ==
  /\ store = [d \in Devs |-> Nothing]
  /\ answer = [dev |-> NoDev, values |-> Nothing]

\* A write changes registers that are mapped and keeps them mapped; a reply
\* it causes carries either nothing or registers as the write left them.
Carries(reply, d, cells) ==
  /\ reply.dev = d
  /\ \A c \in Cells : reply.values[c] \in {Absent, cells[c]}

Write(d) ==
  /\ \A e \in Devs \ {d} : store'[e] = store[e]
  /\ \A c \in Cells : (store[d][c] = Absent) <=> (store'[d][c] = Absent)
  /\ \/ UNCHANGED answer
     \/ Carries(answer', d, store'[d])

\* A read reports current values only and changes nothing.
Read(d) ==
  /\ UNCHANGED store
  /\ Carries(answer', d, store[d])

\* Views come and go: a register that stays mapped keeps its value.
Remap ==
  /\ \A d \in Devs, c \in Cells :
       store'[d][c] # store[d][c] => Absent \in {store[d][c], store'[d][c]}
  /\ UNCHANGED answer

Next == Remap \/ \E d \in Devs : Read(d) \/ Write(d)

Spec == Init /\ [][Next]_vars
=============================================================================
