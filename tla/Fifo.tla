-------------------------------- MODULE Fifo --------------------------------
(***************************************************************************)
(* What a connection of the ipc library promises: messages come out whole, *)
(* once, and in the order in which they went in, until it is closed.       *)
(***************************************************************************)
EXTENDS Sequences

CONSTANT Message
VARIABLES queue, delivered

vars == <<queue, delivered>>

Init == queue = <<>> /\ delivered = <<>>

Send(m) == queue' = Append(queue, m) /\ UNCHANGED delivered

Deliver ==
    /\ queue # <<>>
    /\ delivered' = Append(delivered, Head(queue))
    /\ queue' = Tail(queue)

Next == (\E m \in Message : Send(m)) \/ Deliver

Spec == Init /\ [][Next]_vars
=============================================================================
