----------------------------- MODULE IpcStream -----------------------------
(***************************************************************************)
(* Messages on a stream socket: find_msg of src/ipc/ipc_base.c and its two *)
(* users, the server's ipc_common_socket_handler (cloning) and the         *)
(* subscriber's ipc_subscriber_process.  The socket delivers bytes in      *)
(* pieces of any size; the receive buffer cuts them into messages, copies  *)
(* messages that must be aligned or that the handler may overwrite, and    *)
(* moves an incomplete message to its start when it is full.               *)
(*                                                                         *)
(* A byte is <<n, i>>, byte i of the n-th message; Junk stands for bytes a *)
(* handler wrote.  memcpy copies overlapping regions downwards correctly,  *)
(* as the C library of the build does.                                     *)
(***************************************************************************)
EXTENDS Integers, Sequences, FiniteSets

CONSTANTS HdrLen,     \* IPC_MSG_HDRLEN
          Align,      \* IPC_MSG_ALIGN
          Payload,    \* the payload lengths in use
          BufLen,     \* the argument of alloc_buf
          MaxMsg

\* alloc_buf: room for a header, rounded up.
alloc_buf(n) ==
    LET len == n + HdrLen
    IN  IF len % Align = 0 THEN len ELSE len + Align - (len % Align)

size == alloc_buf(BufLen)

ASSUME StreamAssumption ==
    /\ HdrLen \in Nat \ {0} /\ Align \in Nat \ {0} /\ BufLen \in Nat
    /\ \A p \in Payload : p \in Nat /\ p + HdrLen <= size

VARIABLES cloning,    \* core->clone is there: the server
          sent,       \* history: [len, friendly] of each message sent
          net,        \* bytes in the socket
          data, head, tail,
          at,         \* "recv", "more" (recv without a reset), "scan", "closed"
          out         \* history: messages handed to the handler, 0 if damaged

vars == <<cloning, sent, net, data, head, tail, at, out>>

Junk == <<0, 0>>
Bytes(n) == [i \in 1..sent[n].len |-> <<n, i - 1>>]

Init ==
    /\ cloning \in BOOLEAN
    /\ sent = <<>> /\ net = <<>> /\ out = <<>>
    /\ data = [i \in 0..(size - 1) |-> Junk]
    /\ head = 0 /\ tail = 0 /\ at = "recv"

\* send_msg puts a whole message into the socket.  A message without the token
\* is not friendly.
send_msg(p, token) ==
    /\ Len(sent) < MaxMsg /\ at # "closed"
    /\ sent' = Append(sent, [len |-> p + HdrLen, friendly |-> token])
    /\ net' = net \o [i \in 1..(p + HdrLen) |-> <<Len(sent) + 1, i - 1>>]
    /\ UNCHANGED <<cloning, data, head, tail, at, out>>

Room(from) == size - from

\* recv of k bytes behind the ones there are; the server begins every event
\* with an empty buffer.
Recv(k) ==
    LET from == IF cloning /\ at = "recv" THEN 0 ELSE tail
    IN  /\ at \in {"recv", "more"}
        /\ k <= Len(net) /\ k <= Room(from)
        /\ data' = [i \in DOMAIN data |->
                      IF i \in from..(from + k - 1) THEN net[i - from + 1] ELSE data[i]]
        /\ head' = IF cloning /\ at = "recv" THEN 0 ELSE head
        /\ tail' = from + k
        /\ net' = SubSeq(net, k + 1, Len(net))
        /\ at' = "scan"
        /\ UNCHANGED <<cloning, sent, out>>

\* The message at head; its length is known once the header is there.  Bytes
\* that do not begin a message are taken for one all the same.
First == data[head][1]
Framed == data[head][2] = 0 /\ First # 0
msg_len == IF Framed THEN sent[First].len ELSE HdrLen
friendly == Framed => sent[First].friendly

Complete == tail - head >= HdrLen /\ tail - head >= msg_len

\* Mutants: full one byte late; the bytes stay where they are.
FullLate(t) == t > size
KeepPlace(d) == d

ipc_buf_full(t) == t >= size

\* memcpy(buf->data, buf->data + buf->head, left)
MovedDown(d) ==
    [i \in DOMAIN d |-> IF i < tail - head THEN d[head + i] ELSE d[i]]

\* find_msg returns NULL: nothing is left, or an incomplete message, which is
\* moved to the start if the buffer is full.
NotFound ==
    LET move == head < tail /\ ipc_buf_full(tail) /\ head > 0
        end  == IF move THEN tail - head ELSE tail
    IN  /\ at = "scan" /\ ~ (head < tail /\ Complete)
        /\ data' = IF move THEN MovedDown(data) ELSE data
        /\ \/ /\ ~ ipc_buf_full(end)
              /\ head' = (IF move THEN 0 ELSE head) /\ tail' = end
              /\ at' = IF cloning THEN "more" ELSE "recv"
           \/ /\ ipc_buf_full(end)
              /\ head' = 0 /\ tail' = 0
              /\ at' = IF cloning THEN "closed" ELSE "recv"
        /\ UNCHANGED <<cloning, sent, net, out>>

\* A message without the token is stepped over inside find_msg.
Unfriendly ==
    /\ at = "scan" /\ head < tail /\ Complete
    /\ ~ friendly
    /\ head' = head + msg_len
    /\ UNCHANGED <<cloning, sent, net, data, tail, at, out>>

\* Mutant: a message in the middle of the buffer is not copied.
NotSticky == FALSE

\* The server's handler works on a copy unless the message is alone.
Sticky == tail - head > msg_len \/ head > 0

ipc_buf_pending(h) == h < tail

\* find_msg returns a message and the handler runs.  The server's handler may
\* overwrite the whole buffer it got; the subscriber's message is moved to the
\* start when its place is not aligned.
Found ==
    LET content == [i \in 1..msg_len |-> data[head + i - 1]]
        intact  == Framed /\ content = Bytes(First)
        begin   == IF ~ cloning /\ head % Align # 0 THEN 0 ELSE head
    IN  /\ at = "scan" /\ head < tail /\ Complete /\ friendly
        /\ out' = Append(out, IF intact THEN First ELSE 0)
        /\ IF cloning
           THEN data' = IF Sticky THEN data ELSE [i \in DOMAIN data |-> Junk]
           ELSE data' = [i \in DOMAIN data |->
                           IF i \in begin..(begin + msg_len - 1)
                           THEN content[i - begin + 1] ELSE data[i]]
        /\ IF ipc_buf_pending(head + msg_len)
           THEN head' = head + msg_len /\ UNCHANGED <<tail, at>>
           ELSE head' = 0 /\ tail' = 0 /\ at' = "recv"
        /\ UNCHANGED <<cloning, sent, net>>

\* The server gives up on a message that does not get complete in time.
recv_wait_timeout ==
    /\ cloning /\ at = "more"
    /\ at' = "closed"
    /\ UNCHANGED <<cloning, sent, net, data, head, tail, out>>

Scan == NotFound \/ Unfriendly \/ Found

Receive == (\E k \in 1..size : Recv(k)) \/ Scan

Next ==
    \/ \E p \in Payload, f \in BOOLEAN : send_msg(p, f)
    \/ Receive
    \/ recv_wait_timeout

Spec == Init /\ [][Next]_vars
FairSpec == Spec /\ WF_vars(Receive)

-----------------------------------------------------------------------------
Friendly == SelectSeq([n \in 1..Len(sent) |-> n], LAMBDA n : sent[n].friendly)

\* The buffer's indices are in range.
TypeOK ==
    /\ cloning \in BOOLEAN
    /\ head \in 0..size /\ tail \in 0..size /\ head <= tail
    /\ at \in {"recv", "more", "scan", "closed"}
    /\ Len(sent) <= MaxMsg

\* A connection is a queue of the friendly messages.
Channel == INSTANCE Fifo WITH
    Message <- 1..MaxMsg,
    queue <- SubSeq(Friendly, Len(out) + 1, Len(Friendly)),
    delivered <- out

\* Framing, alignment, moving and cloning lose, damage, repeat and reorder
\* nothing: the receiver implements the queue, and stays inside its buffer.
DeliversInOrder == Channel!Spec /\ []TypeOK

\* Every friendly message reaches the subscriber's handler.
AllDelivered ==
    \A k \in 1..MaxMsg : ~ cloning /\ Len(Friendly) >= k ~> Len(out) >= k
=============================================================================

