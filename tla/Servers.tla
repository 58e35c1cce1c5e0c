------------------------------ MODULE Servers ------------------------------
(***************************************************************************)
(* lecture_examples/9_aio: 4_client.c and the four servers that serve many *)
(* clients from one thread, with select(), poll(), kqueue or epoll.  Each  *)
(* number a client sends is answered.                                      *)
(*                                                                         *)
(* Sockets block: a read() that finds nothing stops the server for all its *)
(* clients.  A step of the server is one turn of its inner loop; a client  *)
(* may act between any two.  An accepted socket is named by its client.    *)
(***************************************************************************)
EXTENDS Integers, Sequences, SequencesExt, FiniteSets

CONSTANTS Clients,
          MaxNumbers,       \* bound: how many numbers a client sends
          FdLimit           \* how many client sockets a server may have open

Server == "server"          \* the listening socket

VARIABLES
    api,                    \* the program
    srv,                    \* the server's next step
    table,                  \* the sockets it watches, in the order of its array
    ready, eof,             \* what the last call reported: sockets, and EV_EOF of the event
    nfds, i,                \* the reports still to serve, the loop's index
    open,                   \* client sockets the server has open
    backlog,                \* connections not yet accepted
    cli, left,              \* a client's state, and how many numbers it has left
    unread, fin, rst,       \* at the server's socket: numbers, end of stream, reset
    reply                   \* answers the client has not read

net == <<cli, left, unread, fin, rst, reply, backlog>>
loop == <<table, ready, eof, nfds, i>>
vars == <<api, srv, loop, open, net>>

InitWith(a) ==
    /\ api = a /\ srv = "start"
    /\ table = <<>> /\ ready = {} /\ eof = FALSE /\ nfds = 0 /\ i = 1
    /\ open = {} /\ backlog = <<>>
    /\ cli = [c \in Clients |-> "new"]
    /\ left = [c \in Clients |-> MaxNumbers]
    /\ unread = [c \in Clients |-> 0] /\ reply = unread
    /\ fin = [c \in Clients |-> FALSE] /\ rst = fin
Init == \E a \in {"select", "poll", "kqueue", "epoll"} : InitWith(a)

Up == srv \notin {"start", "ended"}

-----------------------------------------------------------------------------
(* 4_client.c; its connect() succeeds before the server accepts.           *)
Connect(c) ==
    /\ cli[c] = "new"
    /\ cli' = [cli EXCEPT ![c] = IF Up THEN "connected" ELSE "closed"]
    /\ backlog' = IF Up THEN Append(backlog, c) ELSE backlog
    /\ UNCHANGED <<api, srv, loop, open, left, unread, fin, rst, reply>>

Send(c) ==
    /\ Up /\ cli[c] = "connected" /\ left[c] > 0
    /\ left' = [left EXCEPT ![c] = @ - 1]
    /\ unread' = [unread EXCEPT ![c] = @ + 1]
    /\ cli' = [cli EXCEPT ![c] = "waiting"]
    /\ UNCHANGED <<api, srv, loop, open, fin, rst, reply, backlog>>

Receive(c) ==
    /\ cli[c] = "waiting" /\ reply[c] > 0
    /\ reply' = [reply EXCEPT ![c] = @ - 1]
    /\ cli' = [cli EXCEPT ![c] = "connected"]
    /\ UNCHANGED <<api, srv, loop, open, left, unread, fin, rst, backlog>>

(* The input ends, or the process is killed while it waits.  A socket      *)
(* closed with an answer unread is reset.                                  *)
Close(c) ==
    /\ Up /\ cli[c] \in {"connected", "waiting"}
    /\ cli' = [cli EXCEPT ![c] = "closed"]
    /\ IF reply[c] > 0
       THEN rst' = [rst EXCEPT ![c] = TRUE] /\ UNCHANGED fin
       ELSE fin' = [fin EXCEPT ![c] = TRUE] /\ UNCHANGED rst
    /\ reply' = [reply EXCEPT ![c] = 0]
    /\ left' = [left EXCEPT ![c] = 0]
    /\ UNCHANGED <<api, srv, loop, open, unread, backlog>>

(* "Closed connection": the server has gone.                               *)
Lose(c) ==
    /\ srv = "ended" /\ cli[c] \in {"connected", "waiting"}
    /\ cli' = [cli EXCEPT ![c] = "closed"]
    /\ UNCHANGED <<api, srv, loop, open, left, unread, fin, rst, reply, backlog>>

-----------------------------------------------------------------------------
Readable(s) == IF s = Server THEN backlog # <<>> ELSE unread[s] > 0 \/ fin[s] \/ rst[s]

(* What interact() returns: -1 for the listening socket, which is not      *)
(* connected, and once for a reset; 0 at the end of the stream; NEVER when *)
(* read() blocks.                                                          *)
NEVER == -2
interact(s) == CASE s = Server -> -1
                 [] s # Server /\ rst[s] -> -1
                 [] s # Server /\ ~rst[s] /\ unread[s] > 0 -> 4
                 [] s # Server /\ ~rst[s] /\ unread[s] = 0 /\ fin[s] -> 0
                 [] OTHER -> NEVER

(* What it does to the connection; the answer to a dead client is lost.    *)
Interact(s) ==
    /\ IF s # Server /\ rst[s]
       THEN rst' = [rst EXCEPT ![s] = FALSE] /\ fin' = [fin EXCEPT ![s] = TRUE]
       ELSE UNCHANGED <<rst, fin>>
    /\ IF interact(s) = 4
       THEN /\ unread' = [unread EXCEPT ![s] = @ - 1]
            /\ reply' = [reply EXCEPT ![s] = IF fin[s] THEN 0 ELSE @ + 1]
       ELSE UNCHANGED <<unread, reply>>
    /\ UNCHANGED <<cli, left, backlog>>

(* socket(), bind() and listen(): one of them fails, or the server waits.  *)
Start(a, watched) ==
    /\ api = a /\ srv = "start"
    /\ \/ srv' = "wait" /\ table' = watched
       \/ srv' = "ended" /\ UNCHANGED table
    /\ UNCHANGED <<api, ready, eof, nfds, i, open, net>>
select_start == Start("select", <<>>)
poll_start == Start("poll", <<Server>>)
kqueue_start == Start("kqueue", <<Server>>)
epoll_start == Start("epoll", <<Server>>)

(* The last close() calls, and those of the process that ends.             *)
End ==
    /\ srv' = "ended"
    /\ open' = {} /\ table' = <<>> /\ ready' = {} /\ eof' = FALSE /\ nfds' = 0 /\ i' = 1
    /\ backlog' = <<>>
    /\ unread' = [c \in Clients |-> 0]
    /\ fin' = [c \in Clients |-> FALSE] /\ rst' = fin'
    /\ UNCHANGED <<api, cli, left, reply>>

(* accept(), and the new socket watched; it fails when there is no         *)
(* descriptor left, and the server ends.                                   *)
Accept(next) ==
    IF Cardinality(open) = FdLimit THEN End
    ELSE /\ table' = Append(table, Head(backlog))
         /\ open' = open \cup {Head(backlog)}
         /\ backlog' = Tail(backlog)
         /\ srv' = next
         /\ UNCHANGED <<api, cli, left, unread, fin, rst, reply>>

-----------------------------------------------------------------------------
(* select() and poll(): all that is readable is reported, then served in   *)
(* the order of the array.                                                 *)
Report(a, sockets) ==
    /\ api = a /\ srv = "wait"
    /\ ready' = sockets
    /\ nfds' = Cardinality(ready') /\ i' = 1
    /\ srv' = IF Server \in ready' THEN "accept" ELSE "scan"
    /\ UNCHANGED <<api, table, eof, open, net>>
Wait(a, watched) ==
    LET readable == {s \in watched : Readable(s)}
    IN  readable # {} /\ Report(a, readable)
(* Mutant: when any socket is readable, each client is taken as readable.  *)
select_wait_any ==
    \E s \in {Server} \cup Range(table) : Readable(s) /\ Report("select", Range(table) \cup {s})
select_wait == Wait("select", {Server} \cup Range(table))
poll_wait == Wait("poll", Range(table))

select_accept ==
    /\ api = "select" /\ srv = "accept"
    /\ Accept("scan")
    /\ srv' # "ended" => nfds' = nfds - 1 /\ UNCHANGED <<ready, eof, i>>

(* revents of the new entry are what realloc() found there.                *)
poll_accept ==
    /\ api = "poll" /\ srv = "accept"
    /\ Accept("scan")
    /\ srv' # "ended" =>
        /\ nfds' = nfds - 1 /\ UNCHANGED <<eof, i>>
        /\ ready' \in {ready, ready \cup {Head(backlog)}}

(* Mutant: one client too few is copied.                                   *)
select_remove_client_short(k) ==
    table' = RemoveAt(IF k < Len(table) THEN Front(table) ELSE table, k)
select_remove_client(k) == table' = RemoveAt(table, k)
poll_remove_client(k) == table' = RemoveAt(table, k)

(* The loop over the array, to its end or to an error; an entry behind a   *)
(* removed one is skipped.                                                 *)
Scan(a, remove_client(_)) ==
    /\ api = a /\ srv = "scan"
    /\ IF i > Len(table) \/ nfds = 0
       THEN srv' = "wait" /\ ready' = {} /\ nfds' = 0 /\ i' = 1
            /\ UNCHANGED <<table, net>>
       ELSE IF table[i] \notin ready
       THEN i' = i + 1 /\ UNCHANGED <<srv, table, ready, nfds, net>>
       ELSE LET rc == interact(table[i])
            IN  /\ Interact(table[i])
                /\ nfds' = nfds - 1 /\ i' = i + 1
                /\ srv' = CASE rc = NEVER -> "blocked" [] rc = -1 -> "wait" [] OTHER -> srv
                /\ IF rc = 0 THEN remove_client(i) ELSE UNCHANGED table
                /\ UNCHANGED ready
    /\ UNCHANGED <<api, eof, open>>
select_scan == Scan("select", select_remove_client)
poll_scan == Scan("poll", poll_remove_client)

-----------------------------------------------------------------------------
(* kevent() and epoll_wait() report one socket; which one is the kernel's  *)
(* choice.                                                                 *)
WaitOne(a) ==
    /\ api = a /\ srv = "wait"
    /\ \E s \in Range(table) :
        /\ Readable(s)
        /\ ready' = {s}
        /\ eof' = (s # Server /\ (fin[s] \/ rst[s]))
    /\ srv' = "serve"
    /\ UNCHANGED <<api, table, nfds, i, open, net>>
kqueue_wait == WaitOne("kqueue")
epoll_wait == WaitOne("epoll")

Serve(a, gone(_)) ==
    /\ api = a /\ srv = "serve"
    /\ IF ready = {Server} THEN Accept("wait")
       ELSE \E c \in ready :
        LET rc == interact(c)
        IN  IF rc = -1 THEN End
            ELSE /\ Interact(c)
                 /\ srv' = IF rc = NEVER THEN "blocked" ELSE "wait"
                 /\ IF gone(rc)
                    THEN /\ open' = open \ {c}
                         /\ \E k \in DOMAIN table :
                                table[k] = c /\ table' = RemoveAt(table, k)
                    ELSE UNCHANGED <<open, table>>
                 /\ UNCHANGED api
    /\ srv' # "ended" => ready' = {} /\ eof' = FALSE /\ UNCHANGED <<nfds, i>>
kqueue_serve == Serve("kqueue", LAMBDA rc : eof)
epoll_serve == Serve("epoll", LAMBDA rc : rc = 0)

-----------------------------------------------------------------------------
Client(c) == Connect(c) \/ Send(c) \/ Receive(c) \/ Close(c) \/ Lose(c)
Serving == \/ select_start \/ select_wait \/ select_accept \/ select_scan
           \/ poll_start \/ poll_wait \/ poll_accept \/ poll_scan
           \/ kqueue_start \/ kqueue_wait \/ kqueue_serve
           \/ epoll_start \/ epoll_wait \/ epoll_serve
Next == Serving \/ \E c \in Clients : Client(c)

(* All processes are scheduled, but what a client sends, and when it ends, *)
(* is up to its user.  Since clients send a bounded number of numbers, no  *)
(* order in which the kernel reports or schedules them starves one.        *)
Fairness == WF_vars(Serving) /\ WF_vars(\E c \in Clients : Receive(c) \/ Lose(c))
Spec == Init /\ [][Next]_vars /\ Fairness
-----------------------------------------------------------------------------
(* No server reads from a socket that has nothing to read, whatever was    *)
(* left in the reports by closed sockets, removed entries or fresh memory. *)
NeverBlocks == srv # "blocked"

(* A client's number is answered, whichever clients come, go or are killed *)
(* in the same round, and although one of them may be skipped in it or the *)
(* round be broken off; or the server has ended, and the client notices:   *)
(* when all numbers are sent, the time comes when no client waits.  And a  *)
(* client that has gone leaves the table for good; with kqueue and epoll   *)
(* its descriptor is closed as well, with select() and poll() it never is. *)
EveryClientServed ==
    <>[](\A c \in Clients :
            /\ cli[c] # "waiting"
            /\ cli[c] = "closed" =>
                c \notin Range(table) /\ (api \in {"kqueue", "epoll"} => c \notin open))
=============================================================================
