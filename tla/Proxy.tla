------------------------------- MODULE Proxy -------------------------------
(***************************************************************************)
(* lab3: an HTTP/1.0 proxy.  The main thread accepts connections and       *)
(* starts a detached thread for each; that thread reads the request once,  *)
(* parses it, connects to the host, forwards what it has read and relays   *)
(* the answer until the host closes.                                       *)
(*                                                                         *)
(* main:    init -> accept -> create -> accept ... -> return               *)
(* thread:  start -> read -> parse -> resolve -> socket -> connect ->      *)
(*          forward -> relay -> write -> relay ... -> close_client ->      *)
(*          close_host -> done                                             *)
(*                                                                         *)
(* All threads share one table of descriptors, in which every call that    *)
(* opens one takes the lowest that is free.  Requests and answers are      *)
(* sequences of pieces; a piece is <<c, k>>, the k-th of connection c.     *)
(* Clients and hosts are modelled from what the proxy's calls return.      *)
(***************************************************************************)
EXTENDS Naturals, Sequences, FiniteSetsExt

CONSTANTS
  Client,    \* the connections that may come
  Limits,    \* how many descriptors a process may be allowed
  ReqLen,    \* pieces of a request
  LineEnd,   \* of each connection: pieces its method and path take
  RespLen,   \* bound: pieces of an answer
  NONE

FD == 1 .. Max(Limits)

ASSUME ProxyAssumption ==
  /\ Limits \subseteq Nat /\ Limits # {} /\ IsFiniteSet(Limits)
  /\ RespLen \in Nat
  /\ ReqLen \in Nat \ {0}
  /\ LineEnd \in [Client -> 1 .. ReqLen]
  /\ NONE \notin Client \cup FD

VARIABLES
  limit,          \* the limit on open descriptors
  table,          \* what each descriptor is open on
  acceptor,       \* where the main thread is
  clientSocketFD, \* main's local of that name
  args,           \* the block malloc'ed for each connection's thread
  pc,             \* of each connection's thread
  cfd, hfd,       \* the thread's clientSocketFD and hostSocketFD
  buffer,         \* the part of its buffer that holds data
  status,         \* "running", or what ended the process
  net             \* each connection beyond the proxy

main    == <<acceptor, clientSocketFD>>
locals  == <<cfd, hfd, buffer>>
vars    == <<limit, table, main, args, pc, locals, status, net>>

Free == <<"free", NONE>>
Listener == <<"listener", NONE>>

(* The peers of a connection; what they have sent that is not read yet and *)
(* how many pieces they have sent at all; what was written for them.       *)
Apart == [client |-> "away", host |-> "away", up |-> <<>>, down |-> <<>>,
          asked |-> 0, answered |-> 0, hostGot |-> <<>>, clientGot |-> <<>>]

Init ==
  /\ limit \in Limits
  /\ table = [d \in FD |-> Free]
  /\ acceptor = "init" /\ clientSocketFD = NONE
  /\ args = [c \in Client |-> NONE]
  /\ pc = [c \in Client |-> "none"]
  /\ cfd = [c \in Client |-> NONE]
  /\ hfd = [c \in Client |-> NONE]
  /\ buffer = [c \in Client |-> <<>>]
  /\ status = "running"
  /\ net = [c \in Client |-> Apart]

(* The kernel gives out the lowest free descriptor, or none. *)
FreeFd == {d \in 1 .. limit : table[d] = Free}
Open(entry) == table' = [table EXCEPT ![Min(FreeFd)] = entry]
Close(d) == table' = [table EXCEPT ![d] = Free]

-----------------------------------------------------------------------------
(* execHttpProxy *)

InitSocketListener ==
  /\ status = "running" /\ acceptor = "init"
  /\ FreeFd # {}
  /\ Open(Listener)
  /\ acceptor' = "accept"
  /\ UNCHANGED <<limit, clientSocketFD, args, pc, locals, status, net>>

InitFails ==
  /\ status = "running" /\ acceptor = "init"
  /\ status' = "no_listener"
  /\ UNCHANGED <<limit, table, main, args, pc, locals, net>>

Waiting(c) == pc[c] = "none" /\ net[c].client # "away"

Accept(c) ==
  /\ status = "running" /\ acceptor = "accept"
  /\ Waiting(c) /\ FreeFd # {}
  /\ Open(<<"client", c>>)
  /\ clientSocketFD' = Min(FreeFd)
  /\ acceptor' = "create"
  /\ pc' = [pc EXCEPT ![c] = "accepted"]
  /\ UNCHANGED <<limit, args, locals, status, net>>

(* accept fails, for want of a descriptor or else: it is called again.     *)
AcceptFails ==
  /\ status = "running" /\ acceptor = "accept"
  /\ UNCHANGED vars

(* pthread_attr_init fails: the listener is closed, the client is not. *)
AcceptorGivesUp ==
  /\ status = "running" /\ acceptor = "create"
  /\ acceptor' = "return"
  /\ \E d \in FD : table[d] = Listener /\ Close(d)
  /\ UNCHANGED <<limit, clientSocketFD, args, pc, locals, status, net>>

(* The connection that has just been accepted. *)
Accepted(c) == acceptor = "create" /\ table[clientSocketFD] = <<"client", c>>

(* pthread_attr_setdetachstate or malloc fails: the client is closed, the  *)
(* listener is not.                                                        *)
AcceptorTurnsAway(c) ==
  /\ status = "running" /\ Accepted(c)
  /\ acceptor' = "return"
  /\ Close(clientSocketFD)
  /\ pc' = [pc EXCEPT ![c] = "turned_away"]
  /\ UNCHANGED <<limit, clientSocketFD, args, locals, status, net>>

(* main returns, and the process ends with all its threads. *)
AcceptorReturns ==
  /\ status = "running" /\ acceptor = "return"
  /\ status' = "gave_up"
  /\ UNCHANGED <<limit, table, main, args, pc, locals, net>>

CreateThread(c) ==
  /\ status = "running" /\ Accepted(c)
  /\ args' = [args EXCEPT ![c] = clientSocketFD]
  /\ pc' = [pc EXCEPT ![c] = "start"]
  /\ acceptor' = "accept"
  /\ UNCHANGED <<limit, table, clientSocketFD, locals, status, net>>

(* pthread_create fails: nobody closes the client's socket. *)
CreateThreadFails(c) ==
  /\ status = "running" /\ Accepted(c)
  /\ pc' = [pc EXCEPT ![c] = "leaked"]
  /\ acceptor' = "accept"
  /\ UNCHANGED <<limit, table, clientSocketFD, args, locals, status, net>>

Acceptor == \/ InitSocketListener \/ AcceptorReturns
            \/ \E c \in Client : Accept(c) \/ CreateThread(c)

AcceptorFails == \/ InitFails \/ AcceptFails \/ AcceptorGivesUp
                 \/ \E c \in Client : AcceptorTurnsAway(c) \/ CreateThreadFails(c)

-----------------------------------------------------------------------------
(* handleRequestConnection *)

Step(c, from, to) ==
  /\ status = "running"
  /\ pc[c] = from
  /\ pc' = [pc EXCEPT ![c] = to]

(* Mutants of Start: the block is freed too early; the thread is given the *)
(* address of main's local.                                                *)
StartFreed(c) ==
  /\ Step(c, "start", "read")
  /\ args' = [args EXCEPT ![c] = NONE]
  /\ cfd' = [cfd EXCEPT ![c] = args'[c]]
  /\ UNCHANGED <<limit, table, main, hfd, buffer, status, net>>

StartShared(c) ==
  /\ Step(c, "start", "read")
  /\ cfd' = [cfd EXCEPT ![c] = clientSocketFD]
  /\ args' = [args EXCEPT ![c] = NONE]
  /\ UNCHANGED <<limit, table, main, hfd, buffer, status, net>>

(* clientSocketFD = *args; free(args).  calloc gives a buffer or not. *)
Start(c) ==
  /\ Step(c, "start", "read") \/ Step(c, "start", "close_client")
  /\ cfd' = [cfd EXCEPT ![c] = args[c]]
  /\ args' = [args EXCEPT ![c] = NONE]
  /\ UNCHANGED <<limit, table, main, hfd, buffer, status, net>>

(* The first k pieces of s, and the others. *)
Front(s, k) == SubSeq(s, 1, k)
Rest(s, k)  == SubSeq(s, k + 1, Len(s))

(* One read takes some of what has arrived; there is no second. *)
Read(c) ==
  /\ Step(c, "read", "parse")
  /\ \E d \in Client :
       /\ table[cfd[c]] = <<"client", d>>
       /\ \E k \in 1 .. Len(net[d].up) :
            /\ buffer' = [buffer EXCEPT ![c] = Front(net[d].up, k)]
            /\ net' = [net EXCEPT ![d].up = Rest(@, k)]
  /\ UNCHANGED <<limit, table, main, args, cfd, hfd, status>>

(* The client has closed: read returns 0, or -1 if it did so with a reset. *)
ReadEnds(c) ==
  /\ Step(c, "read", "close_client")
  /\ \A d \in Client : table[cfd[c]] = <<"client", d>> => net[d].client = "gone"
  /\ UNCHANGED <<limit, table, main, args, locals, status, net>>

(* The request's method and path are complete, the one is GET; whether the *)
(* headers are complete does not matter (phr_parse_request returns -2).    *)
ParseHttpRequest(c) ==
  /\ Step(c, "parse", "resolve")
  /\ Len(buffer[c]) >= LineEnd[c]
  /\ UNCHANGED <<limit, table, main, args, locals, status, net>>

(* No memory, no HTTP request, or another method. *)
ParseRefuses(c) ==
  /\ Step(c, "parse", "close_client")
  /\ UNCHANGED <<limit, table, main, args, locals, status, net>>

(* phr_parse_request has not got as far as the path, or the method: the    *)
(* pointer is null and is followed nevertheless.                           *)
ParseCrashes(c) ==
  /\ status = "running" /\ pc[c] = "parse"
  /\ Len(buffer[c]) < LineEnd[c]
  /\ status' = "segfault"
  /\ UNCHANGED <<limit, table, main, args, pc, locals, net>>

(* getaddrinfo and inet_ntop find the host's address, or do not. *)
ResolveDomainName(c) ==
  /\ Step(c, "resolve", "socket") \/ Step(c, "resolve", "close_client")
  /\ UNCHANGED <<limit, table, main, args, locals, status, net>>

Socket(c) ==
  /\ Step(c, "socket", "connect")
  /\ FreeFd # {}
  /\ Open(<<"host", c>>)
  /\ hfd' = [hfd EXCEPT ![c] = Min(FreeFd)]
  /\ UNCHANGED <<limit, main, args, cfd, buffer, status, net>>

SocketFails(c) ==
  /\ Step(c, "socket", "close_client")
  /\ UNCHANGED <<limit, table, main, args, locals, status, net>>

Connect(c) ==
  /\ Step(c, "connect", "forward")
  /\ net' = [net EXCEPT ![c].host = "here"]
  /\ UNCHANGED <<limit, table, main, args, locals, status>>

ConnectFails(c) ==
  /\ Step(c, "connect", "close_client")
  /\ UNCHANGED <<limit, table, main, args, locals, status, net>>

-----------------------------------------------------------------------------
(* exchangeData *)

(* A write to a peer that is gone: the bytes vanish, or the call fails, or *)
(* SIGPIPE, which nobody handles, ends the process.                        *)
WriteToNobody(c, next) ==
  \/ Step(c, pc[c], next) /\ UNCHANGED status
  \/ Step(c, pc[c], "close_client") /\ UNCHANGED status
  \/ status = "running" /\ status' = "sigpipe" /\ UNCHANGED pc

Forward(c) ==
  /\ Step(c, "forward", "relay")
  /\ \E d \in Client :
       /\ table[hfd[c]] = <<"host", d>> /\ net[d].host = "here"
       /\ net' = [net EXCEPT ![d].hostGot = @ \o buffer[c]]
  /\ buffer' = [buffer EXCEPT ![c] = <<>>]
  /\ UNCHANGED <<limit, table, main, args, cfd, hfd, status>>

ForwardToNobody(c) ==
  /\ pc[c] = "forward"
  /\ \A d \in Client : table[hfd[c]] = <<"host", d>> => net[d].host = "gone"
  /\ WriteToNobody(c, "relay")
  /\ UNCHANGED <<limit, table, main, args, locals, net>>

RelayRead(c) ==
  /\ Step(c, "relay", "write")
  /\ \E d \in Client :
       /\ table[hfd[c]] = <<"host", d>>
       /\ \E k \in 1 .. Len(net[d].down) :
            /\ buffer' = [buffer EXCEPT ![c] = Front(net[d].down, k)]
            /\ net' = [net EXCEPT ![d].down = Rest(@, k)]
  /\ UNCHANGED <<limit, table, main, args, cfd, hfd, status>>

(* The host has closed: read returns 0, or -1 if it did so with a reset. *)
RelayEnds(c) ==
  /\ Step(c, "relay", "close_client")
  /\ \A d \in Client : table[hfd[c]] = <<"host", d>> => net[d].host = "gone"
  /\ UNCHANGED <<limit, table, main, args, locals, status, net>>

(* Mutant of RelayWrite: each write begins with the first byte again. *)
RelayWriteFirst(c) ==
  /\ Step(c, "write", "relay")
  /\ \E d \in Client :
       /\ table[cfd[c]] = <<"client", d>> /\ net[d].client = "here"
       /\ net' = [net EXCEPT ![d].clientGot = Append(@, buffer[c][1])]
  /\ buffer' = [buffer EXCEPT ![c] = <<>>]
  /\ UNCHANGED <<limit, table, main, args, cfd, hfd, status>>

RelayWrite(c) ==
  /\ Step(c, "write", "relay")
  /\ \E d \in Client :
       /\ table[cfd[c]] = <<"client", d>> /\ net[d].client = "here"
       /\ net' = [net EXCEPT ![d].clientGot = @ \o buffer[c]]
  /\ buffer' = [buffer EXCEPT ![c] = <<>>]
  /\ UNCHANGED <<limit, table, main, args, cfd, hfd, status>>

RelayToNobody(c) ==
  /\ pc[c] = "write"
  /\ \A d \in Client : table[cfd[c]] = <<"client", d>> => net[d].client = "gone"
  /\ WriteToNobody(c, "relay")
  /\ UNCHANGED <<limit, table, main, args, locals, net>>

-----------------------------------------------------------------------------
(* The ends of handleRequestConnection. *)

(* Mutant of CloseClient: the thread ends with its sockets open. *)
CloseNothing(c) ==
  /\ Step(c, "close_client", "done")
  /\ UNCHANGED <<limit, table, main, args, locals, status, net>>

CloseClient(c) ==
  /\ Step(c, "close_client", IF hfd[c] = NONE THEN "done" ELSE "close_host")
  /\ Close(cfd[c])
  /\ UNCHANGED <<limit, main, args, locals, status, net>>

CloseHost(c) ==
  /\ Step(c, "close_host", "done")
  /\ Close(hfd[c])
  /\ UNCHANGED <<limit, main, args, locals, status, net>>

HandleRequestConnection(c) ==
  \/ Start(c) \/ Read(c) \/ ReadEnds(c)
  \/ ParseHttpRequest(c) \/ ParseRefuses(c) \/ ParseCrashes(c)
  \/ ResolveDomainName(c)
  \/ Socket(c) \/ SocketFails(c) \/ Connect(c) \/ ConnectFails(c)
  \/ Forward(c) \/ ForwardToNobody(c)
  \/ RelayRead(c) \/ RelayEnds(c) \/ RelayWrite(c) \/ RelayToNobody(c)
  \/ CloseClient(c) \/ CloseHost(c)

-----------------------------------------------------------------------------
(* Clients and hosts. *)

(* The kernel completes the connection; it waits to be accepted. *)
ClientComes(c) ==
  /\ status = "running" /\ \E d \in FD : table[d] = Listener
  /\ net[c].client = "away"
  /\ net' = [net EXCEPT ![c].client = "here"]
  /\ UNCHANGED <<limit, table, main, args, pc, locals, status>>

(* What a client sends after the proxy has closed is not of interest. *)
ClientAsks(c) ==
  /\ status = "running" /\ net[c].client = "here"
  /\ pc[c] \notin {"leaked", "turned_away", "close_host", "done"}
  /\ net[c].asked < ReqLen
  /\ net' = [net EXCEPT ![c].asked = @ + 1,
                         ![c].up = Append(@, <<c, net[c].asked + 1>>)]
  /\ UNCHANGED <<limit, table, main, args, pc, locals, status>>

ClientLeaves(c) ==
  /\ status = "running" /\ net[c].client = "here"
  /\ net' = [net EXCEPT ![c].client = "gone"]
  /\ UNCHANGED <<limit, table, main, args, pc, locals, status>>

(* A host answers when it has the whole request. *)
HostAnswers(c) ==
  /\ status = "running" /\ net[c].host = "here"
  /\ pc[c] # "done"
  /\ Len(net[c].hostGot) = ReqLen /\ net[c].answered < RespLen
  /\ net' = [net EXCEPT ![c].answered = @ + 1,
                         ![c].down = Append(@, <<c, net[c].answered + 1>>)]
  /\ UNCHANGED <<limit, table, main, args, pc, locals, status>>

(* It closes after the answer, or before for reasons of its own. *)
HostCloses(c) ==
  /\ status = "running" /\ net[c].host = "here"
  /\ net' = [net EXCEPT ![c].host = "gone"]
  /\ UNCHANGED <<limit, table, main, args, pc, locals, status>>

Peers(c) == \/ ClientComes(c) \/ ClientAsks(c) \/ ClientLeaves(c)
            \/ HostAnswers(c) \/ HostCloses(c)

-----------------------------------------------------------------------------

Ended == status # "running"

Next == \/ Acceptor \/ AcceptorFails
        \/ \E c \in Client : HandleRequestConnection(c) \/ Peers(c)
        \/ Ended /\ UNCHANGED vars

Spec == Init /\ [][Next]_vars

(* Threads run when they can, a client that stays sends its whole request, *)
(* and every host closes some time.                                        *)
FairSpec == /\ Spec
            /\ WF_vars(Acceptor)
            /\ \A c \in Client : /\ WF_vars(HandleRequestConnection(c))
                                /\ WF_vars(ClientAsks(c))
                                /\ WF_vars(HostCloses(c))

-----------------------------------------------------------------------------

Pieces == Seq(Client \X (1 .. ReqLen + RespLen))

(* Every variable has its declared type, and a thread that is past its     *)
(* start has a descriptor.                                                 *)
TypeOK ==
  /\ limit \in Limits
  /\ table \in [FD -> {Free, Listener} \cup ({"client", "host"} \X Client)]
  /\ acceptor \in {"init", "accept", "create", "return"}
  /\ clientSocketFD \in FD \cup {NONE}
  /\ args \in [Client -> FD \cup {NONE}]
  /\ pc \in [Client -> {"none", "accepted", "leaked", "turned_away", "start", "read",
       "parse", "resolve", "socket", "connect", "forward", "relay", "write",
       "close_client", "close_host", "done"}]
  /\ cfd \in [Client -> FD \cup {NONE}]
  /\ \A c \in Client :
       cfd[c] = NONE => pc[c] \in {"none", "accepted", "leaked", "turned_away", "start"}
  /\ hfd \in [Client -> FD \cup {NONE}]
  /\ buffer \in [Client -> Pieces]
  /\ status \in {"running", "no_listener", "gave_up", "segfault", "sigpipe"}
  /\ net \in [Client ->
       [client : {"away", "here", "gone"}, host : {"away", "here", "gone"},
        up : Pieces, down : Pieces, asked : 0 .. ReqLen, answered : 0 .. RespLen,
        hostGot : Pieces, clientGot : Pieces]]

(* The descriptors that connection c has been given and must give back,    *)
(* wherever the number is kept at the moment.                              *)
ClientFds(c) ==
  IF pc[c] = "accepted" THEN {clientSocketFD}
  ELSE IF pc[c] = "start" THEN {args[c]}
  ELSE IF pc[c] \in {"none", "leaked", "turned_away", "close_host", "done"} THEN {}
  ELSE {cfd[c]}

HostFds(c) == IF pc[c] = "done" THEN {} ELSE {hfd[c]} \ {NONE}

(* Although all threads share one table, whose descriptors are reused at   *)
(* once, and although every failure has its own closing code: every number *)
(* a thread uses stands for its own open socket, every open socket is in   *)
(* one thread's hands, but for those whose thread could not be created,    *)
(* and nobody closes the listener but a main that is about to return.      *)
DescriptorsOwned ==
  /\ acceptor \notin {"init", "return"} => \E d \in FD : table[d] = Listener
  /\ \A c \in Client :
       /\ {d \in FD : table[d] = <<"host", c>>} = HostFds(c)
       /\ pc[c] # "leaked" => {d \in FD : table[d] = <<"client", c>>} = ClientFds(c)

Stream(c, n) == [k \in 1 .. n |-> <<c, k>>]

(* Connections do not mix and nothing of an answer is lost on the way: as  *)
(* long as the client is there, what its host has sent is with the client, *)
(* in the thread's buffer or still to be read, in that order.  A host gets *)
(* the beginning of its client's request, as far as the one read went.     *)
StreamsAreRelayed ==
  \A c \in Client :
    /\ net[c].client # "gone" =>
         net[c].clientGot \o (IF pc[c] = "write" THEN buffer[c] ELSE <<>>) \o net[c].down
           = Stream(c, net[c].answered)
    /\ net[c].clientGot = Stream(c, Len(net[c].clientGot))
    /\ net[c].hostGot = Stream(c, Len(net[c].hostGot))

(* A client that has come is accepted, and its thread comes to an end,     *)
(* however few descriptors there are, unless the process ends or sockets   *)
(* have been leaked: on every way out of handleRequestConnection they are  *)
(* given back for the next connection.                                     *)
ClientsAreServed ==
  \A c \in Client :
    Waiting(c) ~> (pc[c] = "done" \/ Ended \/ \E d \in Client : pc[d] = "leaked")
=============================================================================
