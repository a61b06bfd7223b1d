---------------------------- MODULE IpcSubscribe ----------------------------
(***************************************************************************)
(* Subscription: the select loop of src/ipc/ipc_server.c and the           *)
(* subscribers of src/ipc/ipc_client.c, over stream sockets.               *)
(*                                                                         *)
(* A connection is one socket pair; c2s and s2c hold what was written and  *)
(* not yet read.  A side that closed is seen by the other one as EOF once  *)
(* everything written before has been read, and writing to it fails.       *)
(* Message framing is the subject of IpcStream: here a read returns whole  *)
(* messages, any number of them at once.                                   *)
(***************************************************************************)
EXTENDS Integers, Sequences, FiniteSets

CONSTANTS Client, Topic,
          mask,          \* the topics of each client
          EagerUnregister,   \* unregister while the callback task (re)connects
          Cap,           \* messages a socket buffer holds before send() fails
          MaxConn, MaxPub, MaxExit   \* bounds on connections, publications, exits

ASSUME SubscribeAssumption ==
    /\ mask \in [Client -> SUBSET Topic]
    /\ \A i \in Client : mask[i] # {}
    /\ EagerUnregister \in BOOLEAN
    /\ Cap \in Nat \ {0} /\ MaxConn \in Nat /\ MaxPub \in Nat /\ MaxExit \in Nat

Conn == 1..MaxConn

VARIABLES
    \* the server
    running, exits,
    handle,      \* of each connection: none, backlog, live or freed
    core_head,   \* core->head: the live handles in the order of their creation
    synced,      \* connections whose nodes are linked
    node_hb,     \* core->node_hb: the nodes of each topic
    round,       \* readfds: what select() reported and is still to be handled
    serving, buf,    \* the handle in ipc_common_socket_handler, its messages
    manager,     \* history: the commands the manager got for each handle
    stale,       \* the server used a handle it had released
    \* the sockets
    nconn, owner, c2s, s2c, cclosed,
    \* the clients
    app,         \* the application thread: out, registering, registered, unregister
    task,        \* the thread that connects or receives
    sock,        \* client.sock; 0 is -1
    unmasked,    \* clients whose subscriber->mask was cleared
    got,         \* history: publications passed to the callback
    npub

server  == <<running, exits, handle, core_head, synced, node_hb, round,
             serving, buf, manager, stale>>
sockets == <<nconn, owner, c2s, s2c, cclosed>>
clients == <<app, task, sock, unmasked, got>>
vars    == <<server, sockets, clients, npub>>

NOTIFY == "NOTIFY"
Msg(id) == [id |-> id]
Notify(t, n) == [id |-> NOTIFY, topic |-> t, n |-> n]

Init ==
    /\ running = TRUE /\ exits = 0
    /\ handle = [c \in Conn |-> "none"] /\ core_head = <<>> /\ synced = {}
    /\ node_hb = [t \in Topic |-> <<>>]
    /\ round = {} /\ serving = 0 /\ buf = <<>>
    /\ manager = [c \in Conn |-> <<>>] /\ stale = FALSE
    /\ nconn = 0 /\ owner = <<>>
    /\ c2s = [c \in Conn |-> <<>>] /\ s2c = [c \in Conn |-> <<>>] /\ cclosed = {}
    /\ app = [i \in Client |-> "out"] /\ task = [i \in Client |-> "none"]
    /\ sock = [i \in Client |-> 0] /\ unmasked = {}
    /\ got = [i \in Client |-> <<>>] /\ npub = 0

Without(s, c) == SelectSeq(s, LAMBDA x : x # c)

\* Suffixes of what is left once the first message has been read: recv_msg
\* drops whatever it read behind the message.
Dropped(s) == {SubSeq(s, n + 1, Len(s)) : n \in 1..Len(s)}

-----------------------------------------------------------------------------
(* Clients. *)

\* send_msg on the client's socket: it fails on -1 and when the server closed.
SendToServer(i, id) ==
    LET c == sock[i]
    IN  IF c # 0 /\ handle[c] # "freed"
        THEN c2s' = [c2s EXCEPT ![c] = Append(@, Msg(id))]
        ELSE UNCHANGED c2s

Closed(i) == IF sock[i] = 0 THEN cclosed ELSE cclosed \cup {sock[i]}

\* ipc_subscriber_register: the application thread connects by itself.
ipc_subscriber_register(i) ==
    /\ app[i] = "out"
    /\ app' = [app EXCEPT ![i] = "registering"]
    /\ task' = [task EXCEPT ![i] = "connect"]
    /\ unmasked' = unmasked \ {i}
    /\ UNCHANGED <<server, sockets, sock, got, npub>>

\* The __error label of ipc_subscriber_connect: registration returns NULL, the
\* repair loop of the callback task sleeps and tries again.
ConnectError(i) ==
    /\ cclosed' = Closed(i)
    /\ sock' = [sock EXCEPT ![i] = 0]
    /\ IF app[i] = "registering"
       THEN /\ app' = [app EXCEPT ![i] = "out"]
            /\ task' = [task EXCEPT ![i] = "none"]
       ELSE /\ task' = [task EXCEPT ![i] = "connect"]
            /\ UNCHANGED app

\* ipc_connect.
ipc_connect(i) ==
    /\ task[i] = "connect"
    /\ \/ /\ running /\ nconn < MaxConn
          /\ nconn' = nconn + 1
          /\ owner' = Append(owner, i)
          /\ handle' = [handle EXCEPT ![nconn + 1] = "backlog"]
          /\ sock' = [sock EXCEPT ![i] = nconn + 1]
          /\ task' = [task EXCEPT ![i] = "send"]
          /\ UNCHANGED <<cclosed, app>>
       \/ /\ ~running
          /\ ConnectError(i)
          /\ UNCHANGED <<nconn, owner, handle>>
    /\ UNCHANGED <<running, exits, core_head, synced, node_hb, round, serving,
                   buf, manager, stale, c2s, s2c, unmasked, got, npub>>

\* ipc_subscriber_connect sends IPC_SDK_MSG_REGISTER...
SendRegister(i) ==
    /\ task[i] = "send"
    /\ SendToServer(i, "REGISTER")
    /\ IF handle[sock[i]] = "freed"
       THEN ConnectError(i)
       ELSE /\ task' = [task EXCEPT ![i] = "reply"]
            /\ UNCHANGED <<cclosed, sock, app>>
    /\ UNCHANGED <<server, nconn, owner, s2c, unmasked, got, npub>>

\* ... and waits for the answer, IPC_MSG_SDK_TIMEOUT seconds at most.
ReceiveReply(i) ==
    LET c == sock[i]
    IN  /\ task[i] = "reply" /\ s2c[c] # <<>>
        /\ \E rest \in Dropped(s2c[c]) : s2c' = [s2c EXCEPT ![c] = rest]
        /\ IF Head(s2c[c]).id = "SUCCESS"
           THEN /\ task' = [task EXCEPT ![i] = "sync"]
                /\ app' = [app EXCEPT ![i] = IF @ = "registering" THEN "registered"
                                             ELSE @]
                /\ UNCHANGED <<cclosed, sock>>
           ELSE ConnectError(i)
        /\ UNCHANGED <<server, nconn, owner, c2s, unmasked, got, npub>>

\* No answer: timeout, or EOF.
NoReply(i) ==
    /\ task[i] = "reply" /\ s2c[sock[i]] = <<>>
    /\ ConnectError(i)
    /\ UNCHANGED <<server, nconn, owner, c2s, s2c, unmasked, got, npub>>

\* ipc_subscriber_sync, by the callback task: its result is not looked at.
ipc_subscriber_sync(i) ==
    /\ task[i] = "sync"
    /\ SendToServer(i, "SYNC")
    /\ task' = [task EXCEPT ![i] = "recv"]
    /\ UNCHANGED <<server, nconn, owner, s2c, cclosed, app, sock, unmasked, got, npub>>

\* Mutant: a notification is left in the buffer.
ProcessTwice(i) ==
    LET c == sock[i]
        m == Head(s2c[c])
    IN  /\ task[i] = "recv" /\ s2c[c] # <<>> /\ Len(got[i]) < 2 * MaxPub
        /\ m.id = NOTIFY
        /\ got' = [got EXCEPT ![i] = Append(@, m.n)]
        /\ task' = [task EXCEPT ![i] = "handler"]
        /\ UNCHANGED <<server, sockets, app, sock, unmasked, npub>>

\* ipc_subscriber_process, one message.
ipc_subscriber_process(i) ==
    LET c == sock[i]
        m == Head(s2c[c])
    IN  /\ task[i] = "recv" /\ s2c[c] # <<>>
        /\ s2c' = [s2c EXCEPT ![c] = Tail(@)]
        /\ \/ /\ m.id = NOTIFY
              /\ got' = IF i \notin unmasked /\ m.topic \in mask[i]
                        THEN [got EXCEPT ![i] = Append(@, m.n)] ELSE got
              /\ task' = [task EXCEPT ![i] = "handler"]
              /\ UNCHANGED unmasked
           \/ /\ m.id = "UNREGISTER"
              /\ unmasked' = unmasked \cup {i}
              /\ task' = [task EXCEPT ![i] = "exited"]
              /\ UNCHANGED got
        /\ UNCHANGED <<server, nconn, owner, c2s, cclosed, app, sock, npub>>

\* The user's callback returns.
HandlerReturns(i) ==
    /\ task[i] = "handler"
    /\ task' = [task EXCEPT ![i] = "recv"]
    /\ UNCHANGED <<server, sockets, app, sock, unmasked, got, npub>>

\* ipc_subscriber_task sees EOF or an error: ipc_subscriber_repair.
ipc_subscriber_repair(i) ==
    /\ task[i] = "recv" /\ s2c[sock[i]] = <<>> /\ handle[sock[i]] = "freed"
    /\ cclosed' = Closed(i)
    /\ sock' = [sock EXCEPT ![i] = 0]
    /\ task' = [task EXCEPT ![i] = "connect"]
    /\ UNCHANGED <<server, nconn, owner, c2s, s2c, app, unmasked, got, npub>>

\* ipc_subscriber_unregister from an application thread, up to its usleep.
ipc_subscriber_unregister(i) ==
    /\ app[i] = "registered" /\ i \notin unmasked
    /\ EagerUnregister \/ task[i] \in {"recv", "handler"}
    /\ SendToServer(i, "UNREGISTER")
    /\ app' = [app EXCEPT ![i] = "unregister"]
    /\ UNCHANGED <<server, nconn, owner, s2c, cclosed, task, sock, unmasked, got, npub>>

\* The rest of it: cancel the task unless it is gone, join it, and destroy the
\* handle, which closes the socket.
UnregisterJoin(i) ==
    /\ app[i] = "unregister"
    /\ app' = [app EXCEPT ![i] = "out"]
    /\ task' = [task EXCEPT ![i] = "none"]
    /\ cclosed' = Closed(i)
    /\ sock' = [sock EXCEPT ![i] = 0]
    /\ UNCHANGED <<server, nconn, owner, c2s, s2c, unmasked, got, npub>>

\* ipc_subscriber_unregister called by the callback itself.
UnregisterInCallback(i) ==
    /\ task[i] = "handler" /\ app[i] = "registered"
    /\ SendToServer(i, "UNREGISTER")
    /\ app' = [app EXCEPT ![i] = "out"]
    /\ task' = [task EXCEPT ![i] = "none"]
    /\ cclosed' = Closed(i)
    /\ sock' = [sock EXCEPT ![i] = 0]
    /\ UNCHANGED <<server, nconn, owner, s2c, unmasked, got, npub>>

ipc_subscriber_task(i) ==
    \/ ipc_connect(i) \/ SendRegister(i) \/ ReceiveReply(i) \/ NoReply(i)
    \/ ipc_subscriber_sync(i) \/ ipc_subscriber_process(i) \/ HandlerReturns(i)
    \/ ipc_subscriber_repair(i)

-----------------------------------------------------------------------------
(* The server. *)

\* send() on the server's end: it fails when the client closed, or is slow and
\* the buffer full; the callers only log it.
CanSend(c) == c \notin cclosed /\ Len(s2c[c]) < Cap
Sent(c, m) == IF CanSend(c) THEN [s2c EXCEPT ![c] = Append(@, m)] ELSE s2c

\* Mutant: ipc_release leaves the nodes linked.
ReleaseKeepsNodes(c, cmds) ==
    /\ manager' = [manager EXCEPT ![c] = @ \o cmds \o <<"RELEASE">>]
    /\ handle' = [handle EXCEPT ![c] = "freed"]
    /\ core_head' = Without(core_head, c)
    /\ UNCHANGED <<synced, node_hb>>

\* ipc_release of a subscriber, after the manager got cmds: the manager is
\* told, the linked nodes are unlinked, the socket is closed.
ipc_release(c, cmds) ==
    /\ manager' = [manager EXCEPT ![c] = @ \o cmds \o <<"RELEASE">>]
    /\ handle' = [handle EXCEPT ![c] = "freed"]
    /\ core_head' = Without(core_head, c)
    /\ synced' = synced \ {c}
    /\ node_hb' = [t \in Topic |-> Without(node_hb[t], c)]

Backlog == {c \in Conn : handle[c] = "backlog"}

\* Mutant: EOF does not make a socket readable.
ReadableData(c) == handle[c] = "live" /\ c2s[c] # <<>>

Readable(c) == handle[c] = "live" /\ (c2s[c] # <<>> \/ c \in cclosed)

\* select(): 0 stands for the master socket.
Select ==
    /\ running /\ round = {} /\ serving = 0
    /\ round' = {c \in Conn : Readable(c)} \cup (IF Backlog = {} THEN {} ELSE {0})
    /\ round' # {}
    /\ UNCHANGED <<running, exits, handle, core_head, synced, node_hb, serving,
                   buf, manager, stale, sockets, clients, npub>>

\* ipc_server_register: the manager may refuse, and the client may be gone.
ipc_server_register(c) ==
    \/ /\ s2c' = Sent(c, Msg("REGISTER"))
       /\ ipc_release(c, <<"REGISTER">>)
    \/ /\ CanSend(c)
       /\ s2c' = Sent(c, Msg("SUCCESS"))
       /\ handle' = [handle EXCEPT ![c] = "live"]
       /\ core_head' = Append(core_head, c)
       /\ manager' = [manager EXCEPT ![c] = <<"REGISTER">>]
       /\ UNCHANGED <<synced, node_hb>>
    \/ /\ ~CanSend(c)
       /\ ipc_release(c, <<"REGISTER", "SHUTDOWN">>)
       /\ UNCHANGED s2c

FirstIsRegister(c) == c2s[c] # <<>> /\ Head(c2s[c]).id = "REGISTER"

\* ipc_master_socket_handler: accept the oldest connection and read its first
\* message; without one within a second, or with another one, close it.
ipc_master_socket_handler ==
    LET c == CHOOSE x \in Backlog : \A y \in Backlog : x <= y
    IN  /\ running /\ 0 \in round /\ Backlog # {}
        /\ round' = round \ {0}
        /\ \/ /\ FirstIsRegister(c)
              /\ \E rest \in Dropped(c2s[c]) : c2s' = [c2s EXCEPT ![c] = rest]
              /\ ipc_server_register(c)
           \/ /\ ~FirstIsRegister(c)
              /\ handle' = [handle EXCEPT ![c] = "freed"]
              /\ UNCHANGED <<core_head, synced, node_hb, manager, c2s, s2c>>
        /\ UNCHANGED <<running, exits, serving, buf, stale, nconn, owner, cclosed,
                       clients, npub>>

\* The next handle of core->head that select() reported.
NextReady(c) ==
    /\ running /\ serving = 0 /\ 0 \notin round /\ c \in round
    /\ \E k \in DOMAIN core_head :
         /\ core_head[k] = c
         /\ \A j \in 1..(k - 1) : core_head[j] \notin round

\* ipc_common_socket_handler: recv() returns some of what was sent...
ReceiveFrom(c) ==
    /\ NextReady(c) /\ c2s[c] # <<>>
    /\ \E n \in 1..Len(c2s[c]) :
         /\ buf' = SubSeq(c2s[c], 1, n)
         /\ c2s' = [c2s EXCEPT ![c] = SubSeq(@, n + 1, Len(@))]
    /\ serving' = c
    /\ UNCHANGED <<running, exits, handle, core_head, synced, node_hb, round,
                   manager, stale, nconn, owner, s2c, cclosed, clients, npub>>

\* ... or 0: the client shut down.
ClientShutdown(c) ==
    /\ NextReady(c) /\ c2s[c] = <<>> /\ c \in cclosed
    /\ ipc_release(c, <<"SHUTDOWN">>)
    /\ round' = round \ {c}
    /\ UNCHANGED <<running, exits, serving, buf, stale, sockets, clients, npub>>

\* ipc_server_sync: the nodes of the handle are linked.
ipc_server_sync(c) ==
    /\ Head(buf).id = "SYNC"
    /\ synced' = synced \cup {c}
    /\ node_hb' = [t \in Topic |-> IF t \in mask[owner[c]]
                                   THEN Append(node_hb[t], c) ELSE node_hb[t]]
    /\ manager' = [manager EXCEPT ![c] = Append(@, "SYNC")]
    /\ UNCHANGED <<handle, core_head, s2c>>

\* Mutant: the manager is told of a shutdown as well.
UnregisterShutsDown(c) ==
    /\ Head(buf).id = "UNREGISTER"
    /\ s2c' = Sent(c, Msg("UNREGISTER"))
    /\ ipc_release(c, <<"UNREGISTER", "SHUTDOWN">>)

\* ipc_server_unregister: the message is echoed and the handle released.
ipc_server_unregister(c) ==
    /\ Head(buf).id = "UNREGISTER"
    /\ s2c' = Sent(c, Msg("UNREGISTER"))
    /\ ipc_release(c, <<"UNREGISTER">>)

\* The next message of the buffer.  The loop runs on after a release.
HandleMessage ==
    LET c == serving
    IN  /\ running /\ serving # 0
        /\ IF handle[c] = "live"
           THEN /\ ipc_server_sync(c) \/ ipc_server_unregister(c)
                /\ buf' = Tail(buf)
                /\ UNCHANGED stale
           ELSE /\ stale' = TRUE
                /\ buf' = <<>>
                /\ UNCHANGED <<handle, core_head, synced, node_hb, manager, s2c>>
        /\ IF buf' = <<>> THEN serving' = 0 /\ round' = round \ {c}
           ELSE UNCHANGED <<serving, round>>
        /\ UNCHANGED <<running, exits, nconn, owner, c2s, cclosed, clients, npub>>

\* A message sent to every handle of a list.
Broadcast(list, m) ==
    s2c' = [c \in Conn |-> IF c \in {list[k] : k \in DOMAIN list} /\ CanSend(c)
                           THEN Append(s2c[c], m) ELSE s2c[c]]

\* ipc_server_publish with IPC_TO_BROADCAST, by any thread.
ipc_server_publish(t) ==
    /\ running /\ npub < MaxPub
    /\ npub' = npub + 1
    /\ Broadcast(node_hb[t], Notify(t, npub + 1))
    /\ UNCHANGED <<server, nconn, owner, c2s, cclosed, clients>>

\* ... to one identity: the first node of the topic with that identity.
PublishTo(t, i) ==
    LET mine == SelectSeq(node_hb[t], LAMBDA c : owner[c] = i)
    IN  /\ running /\ npub < MaxPub /\ mine # <<>>
        /\ npub' = npub + 1
        /\ s2c' = Sent(Head(mine), Notify(t, npub + 1))
        /\ UNCHANGED <<server, nconn, owner, c2s, cclosed, clients>>

\* Mutant: no test whether the client has synchronized.
NotifyUnsynced(c, t) ==
    /\ running /\ npub < MaxPub /\ handle[c] = "live" /\ t \in mask[owner[c]]
    /\ npub' = npub + 1
    /\ s2c' = Sent(c, Notify(t, npub + 1))
    /\ UNCHANGED <<server, nconn, owner, c2s, cclosed, clients>>

\* ipc_server_notify, from the core thread.
ipc_server_notify(c, t) ==
    /\ running /\ npub < MaxPub /\ handle[c] = "live" /\ t \in mask[owner[c]]
    /\ c \in synced
    /\ npub' = npub + 1
    /\ s2c' = Sent(c, Notify(t, npub + 1))
    /\ UNCHANGED <<server, nconn, owner, c2s, cclosed, clients>>

\* ipc_server_exit: every handle is released, the master socket closed.
ipc_server_exit ==
    /\ running /\ serving = 0 /\ exits < MaxExit
    /\ running' = FALSE /\ exits' = exits + 1
    /\ handle' = [c \in Conn |-> IF handle[c] = "none" THEN "none" ELSE "freed"]
    /\ manager' = [c \in Conn |-> IF handle[c] = "live"
                                  THEN Append(manager[c], "RELEASE") ELSE manager[c]]
    /\ core_head' = <<>> /\ synced' = {} /\ round' = {}
    /\ node_hb' = [t \in Topic |-> <<>>]
    /\ UNCHANGED <<serving, buf, stale, sockets, clients, npub>>

\* The server is started again.
ipc_server_init ==
    /\ ~running
    /\ running' = TRUE
    /\ UNCHANGED <<exits, handle, core_head, synced, node_hb, round, serving, buf,
                   manager, stale, sockets, clients, npub>>

ipc_loop ==
    \/ Select \/ ipc_master_socket_handler \/ HandleMessage
    \/ \E c \in Conn : ReceiveFrom(c) \/ ClientShutdown(c)

Next ==
    \/ \E i \in Client :
         \/ ipc_subscriber_register(i) \/ ipc_subscriber_task(i)
         \/ ipc_subscriber_unregister(i) \/ UnregisterJoin(i)
         \/ UnregisterInCallback(i)
    \/ ipc_loop
    \/ \E t \in Topic : ipc_server_publish(t)
    \/ \E t \in Topic, i \in Client : PublishTo(t, i)
    \/ \E t \in Topic, c \in Conn : ipc_server_notify(c, t)
    \/ ipc_server_exit \/ ipc_server_init

Spec == Init /\ [][Next]_vars

\* The core thread and the callback tasks run, callbacks return, and a thread
\* that is unregistering goes on.
Fairness ==
    /\ WF_vars(ipc_loop)
    /\ \A i \in Client :
         WF_vars(ipc_subscriber_task(i)) /\ WF_vars(UnregisterJoin(i))
    /\ WF_vars(ipc_server_init)

FairSpec == Spec /\ Fairness

-----------------------------------------------------------------------------
(* Properties. *)

Cmd == {"REGISTER", "SYNC", "UNREGISTER", "SHUTDOWN", "RELEASE"}
Messages == {Msg(id) : id \in {"REGISTER", "SUCCESS", "SYNC", "UNREGISTER"}}
            \cup {Notify(t, n) : t \in Topic, n \in 1..MaxPub}

TypeOK ==
    /\ running \in BOOLEAN /\ exits \in 0..MaxExit
    /\ handle \in [Conn -> {"none", "backlog", "live", "freed"}]
    /\ core_head \in Seq(Conn) /\ synced \subseteq Conn
    /\ node_hb \in [Topic -> Seq(Conn)]
    /\ round \subseteq 0..MaxConn /\ serving \in 0..MaxConn
    /\ buf \in Seq(Messages)
    /\ manager \in [Conn -> Seq(Cmd)] /\ stale \in BOOLEAN
    /\ nconn \in 0..MaxConn /\ owner \in Seq(Client) /\ Len(owner) = nconn
    /\ c2s \in [Conn -> Seq(Messages)] /\ s2c \in [Conn -> Seq(Messages)]
    /\ cclosed \subseteq Conn
    /\ app \in [Client -> {"out", "registering", "registered", "unregister"}]
    /\ task \in [Client -> {"none", "connect", "send", "reply", "sync", "recv",
                            "handler", "exited"}]
    /\ sock \in [Client -> 0..MaxConn] /\ unmasked \subseteq Client
    /\ got \in [Client -> Seq(1..MaxPub)] /\ npub \in 0..MaxPub

\* A topic's list holds exactly the live handles that synchronized and asked
\* for the topic, each once: a publisher thread never meets a released handle.
\* Nor does the loop of ipc_common_handler, unless a client unregisters while
\* its callback task (re)connects.
NodesLive ==
    /\ TypeOK
    /\ ~EagerUnregister => ~stale
    /\ \A t \in Topic :
        /\ \A c \in Conn : (\E k \in DOMAIN node_hb[t] : node_hb[t][k] = c)
             <=> handle[c] = "live" /\ c \in synced /\ t \in mask[owner[c]]
        /\ \A j, k \in DOMAIN node_hb[t] : node_hb[t][j] = node_hb[t][k] => j = k

\* While a client waits for the answer to its registration nothing follows the
\* answer on the socket, so that recv_msg cannot swallow a notification.
RegisterReplyAlone ==
    \A i \in Client : task[i] = "reply" => Len(s2c[sock[i]]) <= 1

\* A callback sees the publications in the order they were made, none of them
\* twice, across reconnections too.
NotifyOrder ==
    \A i \in Client : \A j, k \in DOMAIN got[i] : j < k => got[i][j] < got[i][k]

\* What the manager is told about a handle: registered, perhaps synchronized,
\* perhaps unregistered or shut down but not both, and released exactly once.
ManagerProtocol ==
    \A c \in Conn :
        /\ manager[c] \in
             {s \o e \o r : s \in {<<"REGISTER">>, <<"REGISTER", "SYNC">>},
                            e \in {<<>>, <<"UNREGISTER">>, <<"SHUTDOWN">>},
                            r \in {<<>>, <<"RELEASE">>}} \cup {<<>>}
        /\ manager[c] # <<>> =>
             (handle[c] = "freed" <=> manager[c][Len(manager[c])] = "RELEASE")

\* A handle whose client closed its socket is eventually released.
ClosedReleased ==
    \A c \in Conn : (c \in cclosed) ~> (handle[c] = "freed")
=============================================================================
