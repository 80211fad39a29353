---------------------------- MODULE ProxyProofs ----------------------------
(***************************************************************************)
(* The safety of the proxy for every number of connections, every limit on *)
(* descriptors and every length of requests and answers: types, the        *)
(* ownership of the descriptors, and the streams between the peers.        *)
(***************************************************************************)
EXTENDS Proxy, SequenceTheorems, FiniteSetTheorems, WellFoundedInduction, TLAPS

(* The table of descriptors. *)

LEMMA LeastOne ==
  ASSUME NEW S \in SUBSET Nat, S # {}
  PROVE  Min(S) \in S
<1>1. PICK x \in S : \A y \in S : ~ (<<y, x>> \in OpToRel(<, Nat))
  BY NatLessThanWellFounded, WFMin
<1>2. \A y \in S : ~ (y < x)
  BY <1>1 DEF OpToRel
<1>3. \A y \in S : x <= y
  BY <1>2
<1> QED
  BY <1>3 DEF Min

(* A finite set of naturals has a largest element: the one whose set of    *)
(* greater or equal ones is smallest.                                      *)
LEMMA LargestOne ==
  ASSUME NEW S \in SUBSET Nat, S # {}, IsFiniteSet(S)
  PROVE  Max(S) \in S /\ \A y \in S : y <= Max(S)
<1> DEFINE Up(x) == {y \in S : x <= y}
           T == {Up(x) : x \in S}
<1>1. T \subseteq SUBSET S /\ T # {}
  OBVIOUS
<1>2. PICK U \in T : \A V \in T : ~ (<<V, U>> \in StrictSubsetOrdering(S))
  <2> HIDE DEF T
  <2>1. IsWellFoundedOn(StrictSubsetOrdering(S), SUBSET S)
    BY FS_FiniteSubsetsOfFinite, FS_StrictSubsetOrderingWellFounded
  <2> QED
    BY <1>1, <2>1, WFMin
<1>3. PICK m \in S : U = Up(m)
  OBVIOUS
<1>4. ASSUME NEW y \in S, m < y PROVE FALSE
  <2>1. Up(y) \in T
    OBVIOUS
  <2>2. /\ Up(y) \subseteq Up(m)
        /\ m \in Up(m) /\ m \notin Up(y)
    <3>1. m \in Nat /\ y \in Nat
      OBVIOUS
    <3>2. \A z \in S : z \in Nat /\ (y <= z => m <= z)
      BY <3>1, <1>4
    <3>3. m <= m /\ ~ (y <= m)
      BY <3>1, <1>4
    <3> QED
      BY <3>2, <3>3
  <2>3. <<Up(y), Up(m)>> \in StrictSubsetOrdering(S)
    BY <2>2 DEF StrictSubsetOrdering
  <2> QED
    BY <1>2, <1>3, <2>1, <2>3
<1>5. \A y \in S : y <= m
  BY <1>4
<1> QED
  BY <1>5 DEF Max

(* Every descriptor a process may be allowed is in the table, and what     *)
(* Open takes is a free one.                                               *)
LEMMA OpenFacts ==
  ASSUME limit \in Limits, FreeFd # {}
  PROVE  Min(FreeFd) \in FD /\ table[Min(FreeFd)] = Free
<1>1. limit \in Nat /\ limit <= Max(Limits) /\ Max(Limits) \in Nat
  BY ProxyAssumption, LargestOne
<1>2. FreeFd \subseteq FD /\ FreeFd \subseteq Nat
  BY <1>1 DEF FreeFd, FD
<1>3. Min(FreeFd) \in FreeFd
  BY <1>2, LeastOne
<1> QED
  BY <1>2, <1>3 DEF FreeFd

-----------------------------------------------------------------------------
(* Who owns which descriptor. *)

(* The control points of a connection, and the types of what is shared.    *)
Points == {"none", "accepted", "leaked", "turned_away", "start", "read", "parse",
           "resolve", "socket", "connect", "forward", "relay", "write",
           "close_client", "close_host", "done"}

TableTypeOK ==
  /\ limit \in Limits
  /\ table \in [FD -> {Free, Listener} \cup ({"client", "host"} \X Client)]
  /\ acceptor \in {"init", "accept", "create", "return"}
  /\ clientSocketFD \in FD \cup {NONE}
  /\ args \in [Client -> FD \cup {NONE}]
  /\ pc \in [Client -> Points]
  /\ cfd \in [Client -> FD \cup {NONE}]
  /\ \A c \in Client :
       cfd[c] = NONE => pc[c] \in {"none", "accepted", "leaked", "turned_away", "start"}
  /\ hfd \in [Client -> FD \cup {NONE}]
  /\ status \in {"running", "no_listener", "gave_up", "segfault", "sigpipe"}

(* main has one accepted connection in its hands while it starts a thread, *)
(* and keeps it when it returns instead without having closed it.          *)
AcceptorInv ==
  /\ acceptor = "create" => \E c \in Client : pc[c] = "accepted"
  /\ \A c \in Client : pc[c] = "accepted" => acceptor \in {"create", "return"}

(* The points at which a connection has no socket to its host, or has one. *)
WithoutHost == {"none", "accepted", "leaked", "turned_away", "start", "read", "parse",
                "resolve", "socket"}
WithHost    == {"connect", "forward", "relay", "write", "close_host"}

HostInv == \A c \in Client :
  /\ pc[c] \in WithoutHost => hfd[c] = NONE
  /\ pc[c] \in WithHost    => hfd[c] # NONE

(* DescriptorsOwned, one descriptor at a time. *)
OwnInv ==
  /\ acceptor \notin {"init", "return"} => \E d \in FD : table[d] = Listener
  /\ \A c \in Client :
       /\ HostFds(c) \subseteq FD
       /\ \A d \in FD : table[d] = <<"host", c>> <=> d \in HostFds(c)
       /\ pc[c] # "leaked" =>
            /\ ClientFds(c) \subseteq FD
            /\ \A d \in FD : table[d] = <<"client", c>> <=> d \in ClientFds(c)

(* The strengthening of DescriptorsOwned.                                  *)
TableInv == TableTypeOK /\ AcceptorInv /\ HostInv /\ OwnInv

LEMMA TableInitially == Init => TableInv
<1> SUFFICES ASSUME Init PROVE TableInv
  OBVIOUS
<1> USE DEF Init
<1>1. TableTypeOK
  BY DEF TableTypeOK, Points
<1>2. AcceptorInv /\ HostInv
  BY DEF AcceptorInv, HostInv, WithHost, WithoutHost
<1>3. OwnInv
  BY DEF OwnInv, HostFds, ClientFds, Free
<1> QED
  BY <1>1, <1>2, <1>3 DEF TableInv

LEMMA OwnersAreRight == TableInv => DescriptorsOwned
BY DEF TableInv, OwnInv, DescriptorsOwned

(* The entries of the table are told apart by what they are and whose.     *)
LEMMA Entries ==
  /\ Free # Listener
  /\ \A c : /\ <<"client", c>> \notin {Free, Listener}
            /\ <<"host", c>> \notin {Free, Listener}
  /\ \A c, d : /\ <<"client", c>> # <<"host", d>>
               /\ <<"client", c>> = <<"client", d>> => c = d
               /\ <<"host", c>> = <<"host", d>> => c = d
BY DEF Free, Listener

(* A step that opens and closes nothing, within the middle of a thread.    *)
Middle == {"read", "parse", "resolve", "socket", "connect", "forward", "relay", "write"}

LEMMA QuietKeepsTable ==
  ASSUME TableInv, NEW c \in Client, NEW to,
         UNCHANGED <<limit, table, main, args, cfd, hfd, status>>,
         pc' = [pc EXCEPT ![c] = to], pc[c] \in Middle,
         \/ to = "close_client"
         \/ to \in Middle /\ (to \in WithHost <=> pc[c] \in WithHost)
  PROVE  TableInv'
<1> USE DEF Middle, WithHost, WithoutHost, main
<1>1. TableTypeOK'
  BY DEF TableInv, TableTypeOK, Points
<1>2. AcceptorInv' /\ HostInv'
  BY DEF TableInv, TableTypeOK, AcceptorInv, HostInv
<1>3. \A d \in Client : HostFds(d)' = HostFds(d) /\ ClientFds(d)' = ClientFds(d)
  BY DEF TableInv, TableTypeOK, HostFds, ClientFds
<1>4. \A d \in Client : pc'[d] = "leaked" <=> pc[d] = "leaked"
  BY DEF TableInv, TableTypeOK
<1>5. OwnInv'
  BY <1>3, <1>4 DEF TableInv, OwnInv
<1> QED
  BY <1>1, <1>2, <1>5 DEF TableInv

(* A step that touches neither the table nor who uses it. *)
LEMMA RestKeepsTable ==
  ASSUME TableInv, UNCHANGED <<limit, table, main, args, pc, cfd, hfd>>,
         status' \in {"running", "no_listener", "gave_up", "segfault", "sigpipe"}
  PROVE  TableInv'
BY DEF TableInv, TableTypeOK, AcceptorInv, HostInv, OwnInv, HostFds, ClientFds, main

LEMMA ListenerKeepsTable ==
  ASSUME TableInv, InitSocketListener
  PROVE  TableInv'
<1> USE DEF InitSocketListener, Open, TableInv, locals
<1>1. Min(FreeFd) \in FD /\ table[Min(FreeFd)] = Free
  BY OpenFacts DEF TableTypeOK
<1>2. TableTypeOK'
  BY <1>1 DEF TableTypeOK
<1>3. AcceptorInv' /\ HostInv'
  BY DEF AcceptorInv, HostInv
<1>4. \A c \in Client : HostFds(c)' = HostFds(c) /\ ClientFds(c)' = ClientFds(c)
  BY DEF HostFds, ClientFds
<1>5. OwnInv'
  <2>1. \A d \in FD : table'[d] = IF d = Min(FreeFd) THEN Listener ELSE table[d]
    BY DEF TableTypeOK
  <2>2. \A d \in FD : \A c : /\ table'[d] = <<"host", c>> <=> table[d] = <<"host", c>>
                             /\ table'[d] = <<"client", c>> <=> table[d] = <<"client", c>>
    BY <1>1, <2>1, Entries
  <2> QED
    BY <1>1, <1>4, <2>1, <2>2 DEF OwnInv
<1> QED
  BY <1>2, <1>3, <1>5

LEMMA AcceptKeepsTable ==
  ASSUME TableInv, NEW c \in Client, Accept(c)
  PROVE  TableInv'
<1> USE DEF Accept, Waiting, Open, TableInv
<1>1. Min(FreeFd) \in FD /\ table[Min(FreeFd)] = Free
  BY OpenFacts DEF TableTypeOK
<1>2. TableTypeOK'
  BY <1>1 DEF TableTypeOK, Points, locals
<1>3. AcceptorInv' /\ HostInv'
  BY DEF TableTypeOK, AcceptorInv, HostInv, WithHost, WithoutHost, locals
<1>4. \A d \in Client : /\ HostFds(d)' = HostFds(d)
                        /\ d # c => pc'[d] = pc[d] /\ ClientFds(d)' = ClientFds(d)
  BY DEF TableTypeOK, AcceptorInv, HostFds, ClientFds, locals
<1>5. ClientFds(c) = {} /\ ClientFds(c)' = {Min(FreeFd)}
  BY DEF TableTypeOK, ClientFds
<1>6. OwnInv'
  BY SMTT(20), <1>1, <1>4, <1>5, Entries DEF TableTypeOK, OwnInv
<1> QED
  BY <1>2, <1>3, <1>6

(* The connection main finds in its hands is the one it has accepted. *)
LEMMA AcceptedFacts ==
  ASSUME TableInv, NEW c \in Client, Accepted(c)
  PROVE  /\ pc[c] = "accepted" /\ clientSocketFD \in FD
         /\ \A d \in Client : pc[d] = "accepted" => d = c
<1>1. ASSUME NEW d \in Client, pc[d] = "accepted"
      PROVE  clientSocketFD \in FD /\ table[clientSocketFD] = <<"client", d>>
  BY <1>1 DEF TableInv, OwnInv, ClientFds
<1>2. \A d \in Client : pc[d] = "accepted" => d = c
  BY <1>1, Entries DEF Accepted
<1> QED
  BY <1>1, <1>2 DEF Accepted, TableInv, AcceptorInv

LEMMA CreateThreadKeepsTable ==
  ASSUME TableInv, NEW c \in Client, CreateThread(c) \/ CreateThreadFails(c)
  PROVE  TableInv'
<1> USE DEF CreateThread, CreateThreadFails, TableInv
<1>1. /\ pc[c] = "accepted" /\ clientSocketFD \in FD
      /\ \A d \in Client : pc[d] = "accepted" => d = c
  BY AcceptedFacts
<1>2. TableTypeOK'
  BY <1>1 DEF TableTypeOK, Points, locals
<1>3. AcceptorInv' /\ HostInv'
  BY <1>1 DEF TableTypeOK, AcceptorInv, HostInv, WithHost, WithoutHost, locals
<1>4. \A d \in Client : /\ HostFds(d)' = HostFds(d)
                        /\ d # c => pc'[d] = pc[d] /\ ClientFds(d)' = ClientFds(d)
  BY <1>1 DEF TableTypeOK, HostFds, ClientFds, locals
<1>5. pc'[c] # "leaked" => ClientFds(c)' = ClientFds(c)
  BY <1>1 DEF TableTypeOK, ClientFds
<1>6. OwnInv'
  BY <1>1, <1>4, <1>5 DEF TableTypeOK, OwnInv, Accepted
<1> QED
  BY <1>2, <1>3, <1>6

LEMMA GivesUpKeepsTable ==
  ASSUME TableInv, AcceptorGivesUp
  PROVE  TableInv'
<1> USE DEF AcceptorGivesUp, Close, TableInv, locals
<1>1. PICK l \in FD : table[l] = Listener /\ table' = [table EXCEPT ![l] = Free]
  OBVIOUS
<1>2. TableTypeOK'
  BY <1>1 DEF TableTypeOK
<1>3. AcceptorInv' /\ HostInv'
  BY DEF AcceptorInv, HostInv
<1>4. \A d \in Client : HostFds(d)' = HostFds(d) /\ ClientFds(d)' = ClientFds(d)
  BY DEF HostFds, ClientFds
<1>5. \A d \in FD : \A e \in Client :
        /\ table'[d] = <<"host", e>> <=> table[d] = <<"host", e>>
        /\ table'[d] = <<"client", e>> <=> table[d] = <<"client", e>>
  BY <1>1, Entries DEF TableTypeOK
<1>6. OwnInv'
  BY <1>4, <1>5 DEF OwnInv
<1> QED
  BY <1>2, <1>3, <1>6

LEMMA TurnsAwayKeepsTable ==
  ASSUME TableInv, NEW c \in Client, AcceptorTurnsAway(c)
  PROVE  TableInv'
<1> USE DEF AcceptorTurnsAway, Close, TableInv, locals
<1>1. /\ pc[c] = "accepted" /\ clientSocketFD \in FD
      /\ \A d \in Client : pc[d] = "accepted" => d = c
      /\ table[clientSocketFD] = <<"client", c>>
  BY AcceptedFacts DEF Accepted
<1>2. TableTypeOK'
  BY <1>1 DEF TableTypeOK, Points
<1>3. AcceptorInv' /\ HostInv'
  BY <1>1 DEF TableTypeOK, AcceptorInv, HostInv, WithHost, WithoutHost
<1>4. \A d \in Client : /\ HostFds(d)' = HostFds(d)
                        /\ d # c => pc'[d] = pc[d] /\ ClientFds(d)' = ClientFds(d)
  BY <1>1 DEF TableTypeOK, HostFds, ClientFds
<1>5. ClientFds(c) = {clientSocketFD} /\ ClientFds(c)' = {}
  BY <1>1 DEF TableTypeOK, ClientFds
<1>6. \A d \in FD : \A e \in Client :
        /\ table'[d] = <<"host", e>> <=> table[d] = <<"host", e>>
        /\ table'[d] = <<"client", e>>
             <=> table[d] = <<"client", e>> /\ d # clientSocketFD
  BY <1>1, Entries DEF TableTypeOK
<1>7. OwnInv'
  BY <1>1, <1>4, <1>5, <1>6 DEF OwnInv
<1> QED
  BY <1>2, <1>3, <1>7

LEMMA StartKeepsTable ==
  ASSUME TableInv, NEW c \in Client, Start(c)
  PROVE  TableInv'
<1> USE DEF Start, Step, TableInv, main
<1>1. pc[c] = "start" /\ args[c] \in FD /\ args[c] # NONE
  BY ProxyAssumption DEF OwnInv, ClientFds
<1>2. TableTypeOK'
  BY <1>1 DEF TableTypeOK, Points
<1>3. AcceptorInv' /\ HostInv'
  BY DEF TableTypeOK, AcceptorInv, HostInv, WithHost, WithoutHost
<1>4. \A d \in Client : /\ HostFds(d)' = HostFds(d) /\ ClientFds(d)' = ClientFds(d)
                        /\ pc'[d] = "leaked" <=> pc[d] = "leaked"
  BY DEF TableTypeOK, HostFds, ClientFds
<1>5. OwnInv'
  BY <1>4 DEF OwnInv
<1> QED
  BY <1>2, <1>3, <1>5

LEMMA SocketKeepsTable ==
  ASSUME TableInv, NEW c \in Client, Socket(c)
  PROVE  TableInv'
<1> USE DEF Socket, Step, Open, TableInv, main
<1>1. Min(FreeFd) \in FD /\ table[Min(FreeFd)] = Free
  BY OpenFacts DEF TableTypeOK
<1>2. TableTypeOK'
  BY <1>1 DEF TableTypeOK, Points
<1>3. AcceptorInv' /\ HostInv'
  BY <1>1, ProxyAssumption
  DEF TableTypeOK, AcceptorInv, HostInv, WithHost, WithoutHost
<1>4. \A d \in Client : /\ ClientFds(d)' = ClientFds(d)
                        /\ pc'[d] = "leaked" <=> pc[d] = "leaked"
                        /\ d # c => HostFds(d)' = HostFds(d)
  BY DEF TableTypeOK, HostFds, ClientFds
<1>5. HostFds(c) = {} /\ HostFds(c)' = {Min(FreeFd)}
  BY <1>1, ProxyAssumption DEF TableTypeOK, HostInv, WithoutHost, HostFds
<1>6. OwnInv'
  BY SMTT(20), <1>1, <1>4, <1>5, Entries DEF TableTypeOK, OwnInv
<1> QED
  BY <1>2, <1>3, <1>6

LEMMA CloseClientKeepsTable ==
  ASSUME TableInv, NEW c \in Client, CloseClient(c)
  PROVE  TableInv'
<1> USE DEF CloseClient, Step, Close, TableInv, main, locals
<1>1. cfd[c] \in FD /\ table[cfd[c]] = <<"client", c>>
  BY DEF OwnInv, ClientFds
<1>2. TableTypeOK'
  BY <1>1 DEF TableTypeOK, Points
<1>3. AcceptorInv' /\ HostInv'
  BY DEF TableTypeOK, AcceptorInv, HostInv, WithHost, WithoutHost
<1>4. \A d \in Client : /\ HostFds(d)' = HostFds(d)
                        /\ d # c => pc'[d] = pc[d] /\ ClientFds(d)' = ClientFds(d)
  BY DEF TableTypeOK, HostFds, ClientFds
<1>5. ClientFds(c) = {cfd[c]} /\ ClientFds(c)' = {}
  BY DEF TableTypeOK, ClientFds
<1>6. OwnInv'
  <2>1. \A d \in FD : table'[d] = IF d = cfd[c] THEN Free ELSE table[d]
    BY DEF TableTypeOK
  <2>2. (acceptor \notin {"init", "return"} => \E d \in FD : table[d] = Listener)'
    BY <1>1, <2>1, Entries DEF OwnInv
  <2>3. \A d \in FD : \A e \in Client :
          /\ table'[d] = <<"host", e>> <=> table[d] = <<"host", e>>
          /\ table'[d] = <<"client", e>> <=> table[d] = <<"client", e>> /\ d # cfd[c]
    BY <1>1, <2>1, Entries
  <2> QED
    BY <1>1, <1>4, <1>5, <2>2, <2>3 DEF OwnInv
<1> QED
  BY <1>2, <1>3, <1>6

LEMMA CloseHostKeepsTable ==
  ASSUME TableInv, NEW c \in Client, CloseHost(c)
  PROVE  TableInv'
<1> USE DEF CloseHost, Step, Close, TableInv, main, locals
<1>1. hfd[c] \in FD /\ table[hfd[c]] = <<"host", c>>
  BY DEF OwnInv, HostFds, HostInv, WithHost
<1>2. TableTypeOK'
  BY <1>1 DEF TableTypeOK, Points
<1>3. AcceptorInv' /\ HostInv'
  BY DEF TableTypeOK, AcceptorInv, HostInv, WithHost, WithoutHost
<1>4. \A d \in Client : /\ ClientFds(d)' = ClientFds(d)
                        /\ d # c => HostFds(d)' = HostFds(d)
                        /\ pc'[d] = "leaked" <=> pc[d] = "leaked"
  BY DEF TableTypeOK, HostFds, ClientFds
<1>5. HostFds(c) = {hfd[c]} /\ HostFds(c)' = {}
  BY DEF TableTypeOK, HostFds, HostInv, WithHost
<1>6. OwnInv'
  <2>1. \A d \in FD : table'[d] = IF d = hfd[c] THEN Free ELSE table[d]
    BY DEF TableTypeOK
  <2>2. (acceptor \notin {"init", "return"} => \E d \in FD : table[d] = Listener)'
    BY <1>1, <2>1, Entries DEF OwnInv
  <2>3. \A d \in FD : \A e \in Client :
          /\ table'[d] = <<"client", e>> <=> table[d] = <<"client", e>>
          /\ table'[d] = <<"host", e>> <=> table[d] = <<"host", e>> /\ d # hfd[c]
    BY <1>1, <2>1, Entries
  <2> QED
    BY <1>1, <1>4, <1>5, <2>2, <2>3 DEF OwnInv
<1> QED
  BY <1>2, <1>3, <1>6

(* What the thread of a connection does between opening and closing. *)
LEMMA ConversationKeepsTable ==
  ASSUME TableInv, NEW c \in Client,
         \/ Read(c) \/ ReadEnds(c)
         \/ ParseHttpRequest(c) \/ ParseRefuses(c) \/ ParseCrashes(c)
         \/ ResolveDomainName(c) \/ SocketFails(c) \/ Connect(c) \/ ConnectFails(c)
         \/ Forward(c) \/ ForwardToNobody(c)
         \/ RelayRead(c) \/ RelayEnds(c) \/ RelayWrite(c) \/ RelayToNobody(c)
  PROVE  TableInv'
<1>1. UNCHANGED <<limit, table, main, args, cfd, hfd>>
  BY DEF Read, ReadEnds, ParseHttpRequest, ParseRefuses, ParseCrashes,
     ResolveDomainName, SocketFails, Connect, ConnectFails, Forward, ForwardToNobody,
     RelayRead, RelayEnds, RelayWrite, RelayToNobody, locals
<1>2. CASE UNCHANGED pc /\ status' \in {"segfault", "sigpipe"}
  BY <1>1, <1>2, RestKeepsTable
<1>3. CASE /\ UNCHANGED status
           /\ \/ /\ pc[c] \in {"read", "parse", "resolve", "socket"}
                 /\ \E to \in {"parse", "resolve", "socket", "close_client"} :
                      pc' = [pc EXCEPT ![c] = to]
              \/ /\ pc[c] \in {"connect", "forward", "relay", "write"}
                 /\ \E to \in {"forward", "relay", "write", "close_client"} :
                      pc' = [pc EXCEPT ![c] = to]
  BY <1>1, <1>3, QuietKeepsTable DEF Middle, WithHost
<1>4. CASE \/ Read(c) \/ ReadEnds(c) \/ ParseHttpRequest(c) \/ ParseRefuses(c)
           \/ ParseCrashes(c) \/ ResolveDomainName(c) \/ SocketFails(c)
  BY <1>4, <1>2, <1>3
  DEF Read, ReadEnds, ParseHttpRequest, ParseRefuses, ParseCrashes, ResolveDomainName,
      SocketFails, Step
<1>5. CASE \/ Connect(c) \/ ConnectFails(c) \/ Forward(c) \/ ForwardToNobody(c)
           \/ RelayRead(c) \/ RelayEnds(c) \/ RelayWrite(c) \/ RelayToNobody(c)
  BY <1>5, <1>2, <1>3
  DEF Connect, ConnectFails, Forward, ForwardToNobody, RelayRead, RelayEnds, RelayWrite,
      RelayToNobody, WriteToNobody, Step
<1> QED
  BY <1>4, <1>5

LEMMA ThreadKeepsTable ==
  ASSUME TableInv, NEW c \in Client, HandleRequestConnection(c)
  PROVE  TableInv'
<1>1. CASE Start(c) \/ Socket(c) \/ CloseClient(c) \/ CloseHost(c)
  BY <1>1, StartKeepsTable, SocketKeepsTable, CloseClientKeepsTable, CloseHostKeepsTable
<1> QED
  BY <1>1, ConversationKeepsTable DEF HandleRequestConnection

LEMMA PeersKeepTable ==
  ASSUME TableInv, NEW c \in Client, Peers(c)
  PROVE  TableInv'
<1>1. UNCHANGED <<limit, table, main, args, pc, cfd, hfd, status>>
  BY DEF Peers, ClientComes, ClientAsks, ClientLeaves, HostAnswers, HostCloses, locals
<1> QED
  BY <1>1, RestKeepsTable DEF TableInv, TableTypeOK

LEMMA NextKeepsTable == TableInv /\ [Next]_vars => TableInv'
<1> SUFFICES ASSUME TableInv, [Next]_vars PROVE TableInv'
  OBVIOUS
<1>1. CASE Acceptor
  <2>1. CASE AcceptorReturns
    BY <2>1, RestKeepsTable DEF AcceptorReturns, locals, TableInv, TableTypeOK
  <2> QED
    BY <1>1, <2>1, ListenerKeepsTable, AcceptKeepsTable, CreateThreadKeepsTable
    DEF Acceptor
<1>2. CASE AcceptorFails
  <2>1. CASE \E c \in Client : AcceptorTurnsAway(c) \/ CreateThreadFails(c)
    BY <2>1, TurnsAwayKeepsTable, CreateThreadKeepsTable
  <2>2. CASE InitFails \/ AcceptFails
    BY <2>2, RestKeepsTable
    DEF InitFails, AcceptFails, vars, locals, TableInv, TableTypeOK
  <2> QED
    BY <1>2, <2>1, <2>2, GivesUpKeepsTable DEF AcceptorFails
<1>3. ASSUME NEW c \in Client, HandleRequestConnection(c) \/ Peers(c) PROVE TableInv'
  BY <1>3, ThreadKeepsTable, PeersKeepTable
<1>4. CASE UNCHANGED vars
  BY <1>4, RestKeepsTable DEF vars, locals, TableInv, TableTypeOK
<1> QED
  BY <1>1, <1>2, <1>3, <1>4 DEF Next

LEMMA TableInvariance == Spec => []TableInv
BY TableInitially, NextKeepsTable, PTL DEF Spec

(* However the accept loop and the threads of all connections interleave,  *)
(* and wherever one of their calls fails: a descriptor a thread uses is    *)
(* its own socket, an open socket is in one thread's hands or was leaked   *)
(* when its thread could not be created, and the listener stays open until *)
(* main gives up.                                                          *)
THEOREM DescriptorsAreOwned == Spec => []DescriptorsOwned
BY TableInvariance, OwnersAreRight, PTL

-----------------------------------------------------------------------------
(* What is in the buffers and with the peers. *)

(* What a connection is beyond the proxy.                                  *)
Net == [client : {"away", "here", "gone"}, host : {"away", "here", "gone"},
        up : Pieces, down : Pieces, asked : 0 .. ReqLen, answered : 0 .. RespLen,
        hostGot : Pieces, clientGot : Pieces]

DataTypeOK == buffer \in [Client -> Pieces] /\ net \in [Client -> Net]

LEMMA DataInitially == Init => DataTypeOK
<1>1. <<>> \in Pieces
  BY EmptySeq DEF Pieces
<1> QED
  BY <1>1, ProxyAssumption DEF Init, DataTypeOK, Net, Apart

(* A read takes a sequence apart and loses nothing. *)
LEMMA TakenApart ==
  ASSUME NEW s \in Pieces, NEW k \in 1 .. Len(s)
  PROVE  /\ Front(s, k) \in Pieces /\ Rest(s, k) \in Pieces
         /\ Front(s, k) \o Rest(s, k) = s
<1> DEFINE S == Client \X (1 .. ReqLen + RespLen)
<1>1. s \in Seq(S) /\ Len(s) \in Nat /\ \A j \in 1 .. Len(s) : s[j] \in S
  BY ElementOfSeq, LenProperties DEF Pieces
<1> HIDE DEF S
<1>2. Front(s, k) \in Seq(S) /\ Rest(s, k) \in Seq(S)
  BY <1>1, SubSeqProperties DEF Front, Rest
<1>3. SubSeq(s, 1, k) \o SubSeq(s, k + 1, Len(s)) = SubSeq(s, 1, Len(s))
  BY <1>1, ConcatAdjacentSubSeq
<1>4. SubSeq(s, 1, Len(s)) = s
  BY <1>1, SubSeqFull
<1> QED
  BY <1>2, <1>3, <1>4 DEF Front, Rest, S, Pieces

LEMMA Joined ==
  ASSUME NEW s \in Pieces, NEW t \in Pieces
  PROVE  s \o t \in Pieces
BY ConcatProperties DEF Pieces

LEMMA Regrouped ==
  ASSUME NEW a \in Pieces, NEW b \in Pieces, NEW d \in Pieces
  PROVE  a \o b \o d = a \o (b \o d)
<1> DEFINE S == Client \X (1 .. ReqLen + RespLen)
<1>1. a \in Seq(S) /\ b \in Seq(S) /\ d \in Seq(S)
  BY DEF Pieces
<1> HIDE DEF S
<1> QED
  BY <1>1, ConcatAssociative

LEMMA NextKeepsDataType == DataTypeOK /\ [Next]_vars => DataTypeOK'
<1> SUFFICES ASSUME DataTypeOK, [Next]_vars PROVE DataTypeOK'
  OBVIOUS
<1>1. ASSUME NEW c \in Client, Read(c) \/ RelayRead(c) PROVE DataTypeOK'
  <2>1. PICK d \in Client, k \in Nat :
          \/ /\ k \in 1 .. Len(net[d].up)
             /\ buffer' = [buffer EXCEPT ![c] = Front(net[d].up, k)]
             /\ net' = [net EXCEPT ![d].up = Rest(net[d].up, k)]
          \/ /\ k \in 1 .. Len(net[d].down)
             /\ buffer' = [buffer EXCEPT ![c] = Front(net[d].down, k)]
             /\ net' = [net EXCEPT ![d].down = Rest(net[d].down, k)]
    BY <1>1 DEF Read, RelayRead
  <2>2. net[d].up \in Pieces /\ net[d].down \in Pieces
    BY DEF DataTypeOK, Net
  <2>3. /\ k \in 1 .. Len(net[d].up) =>
             Front(net[d].up, k) \in Pieces /\ Rest(net[d].up, k) \in Pieces
        /\ k \in 1 .. Len(net[d].down) =>
             Front(net[d].down, k) \in Pieces /\ Rest(net[d].down, k) \in Pieces
    BY <2>2, TakenApart
  <2>4. buffer' \in [Client -> Pieces]
    BY <2>1, <2>3 DEF DataTypeOK
  <2>5. net' \in [Client -> Net]
    <3>1. CASE /\ k \in 1 .. Len(net[d].up)
               /\ net' = [net EXCEPT ![d].up = Rest(net[d].up, k)]
      BY ZenonT(30), <2>3, <3>1 DEF DataTypeOK, Net
    <3>2. CASE /\ k \in 1 .. Len(net[d].down)
               /\ net' = [net EXCEPT ![d].down = Rest(net[d].down, k)]
      BY ZenonT(30), <2>3, <3>2 DEF DataTypeOK, Net
    <3> QED
      BY <2>1, <3>1, <3>2
  <2> QED
    BY <2>4, <2>5 DEF DataTypeOK
<1>2. ASSUME NEW c \in Client, Forward(c) \/ RelayWrite(c) PROVE DataTypeOK'
  <2>1. <<>> \in Pieces
    BY EmptySeq DEF Pieces
  <2>2. PICK d \in Client :
          \/ net' = [net EXCEPT ![d].hostGot = net[d].hostGot \o buffer[c]]
          \/ net' = [net EXCEPT ![d].clientGot = net[d].clientGot \o buffer[c]]
    BY <1>2 DEF Forward, RelayWrite
  <2>3. /\ net[d].hostGot \o buffer[c] \in Pieces
        /\ net[d].clientGot \o buffer[c] \in Pieces
    BY Joined DEF DataTypeOK, Net
  <2>4. buffer' \in [Client -> Pieces]
    BY <1>2, <2>1 DEF Forward, RelayWrite, DataTypeOK
  <2>5. CASE net' = [net EXCEPT ![d].hostGot = net[d].hostGot \o buffer[c]]
    BY ZenonT(30), <2>3, <2>4, <2>5 DEF DataTypeOK, Net
  <2>6. CASE net' = [net EXCEPT ![d].clientGot = net[d].clientGot \o buffer[c]]
    BY ZenonT(30), <2>3, <2>4, <2>6 DEF DataTypeOK, Net
  <2> QED
    BY <2>2, <2>5, <2>6
<1>3. ASSUME NEW c \in Client, Connect(c) \/ ClientComes(c) \/ ClientLeaves(c) \/ HostCloses(c)
      PROVE  DataTypeOK'
  <2>1. /\ buffer' = buffer
        /\ \E h \in {"here", "gone"} : \/ net' = [net EXCEPT ![c].host = h]
                                     \/ net' = [net EXCEPT ![c].client = h]
    BY <1>3 DEF Connect, ClientComes, ClientLeaves, HostCloses, locals
  <2> QED
    BY <2>1 DEF DataTypeOK, Net
<1>4. ASSUME NEW c \in Client, ClientAsks(c) PROVE DataTypeOK'
  <2>1. /\ <<c, net[c].asked + 1>> \in Client \X (1 .. ReqLen + RespLen)
        /\ net[c].asked + 1 \in 0 .. ReqLen
    BY <1>4, ProxyAssumption DEF ClientAsks, DataTypeOK, Net
  <2>2. Append(net[c].up, <<c, net[c].asked + 1>>) \in Pieces
    BY <2>1, AppendProperties DEF DataTypeOK, Net, Pieces
  <2> QED
    BY <1>4, <2>1, <2>2 DEF ClientAsks, locals, DataTypeOK, Net
<1>5. ASSUME NEW c \in Client, HostAnswers(c) PROVE DataTypeOK'
  <2>1. /\ <<c, net[c].answered + 1>> \in Client \X (1 .. ReqLen + RespLen)
        /\ net[c].answered + 1 \in 0 .. RespLen
    BY <1>5, ProxyAssumption DEF HostAnswers, DataTypeOK, Net
  <2>2. Append(net[c].down, <<c, net[c].answered + 1>>) \in Pieces
    BY <2>1, AppendProperties DEF DataTypeOK, Net, Pieces
  <2> QED
    BY <1>5, <2>1, <2>2 DEF HostAnswers, locals, DataTypeOK, Net
<1>6. CASE UNCHANGED <<buffer, net>>
  BY <1>6 DEF DataTypeOK
<1>7. ASSUME NEW c \in Client, HandleRequestConnection(c) PROVE DataTypeOK'
  BY <1>1, <1>2, <1>3, <1>6, <1>7
  DEF HandleRequestConnection, Start, ReadEnds, ParseHttpRequest, ParseRefuses,
      ParseCrashes, ResolveDomainName, Socket, SocketFails, ConnectFails,
      ForwardToNobody, RelayEnds, RelayToNobody, CloseClient, CloseHost, locals
<1>8. CASE Acceptor \/ AcceptorFails
  BY <1>6, <1>8
  DEF Acceptor, AcceptorFails, InitSocketListener, Accept, CreateThread, InitFails,
      AcceptFails, AcceptorGivesUp, AcceptorTurnsAway, AcceptorReturns,
      CreateThreadFails, locals, vars
<1> QED
  BY <1>3, <1>4, <1>5, <1>6, <1>7, <1>8 DEF Next, Peers, vars, locals

LEMMA DataInvariance == Spec => []DataTypeOK
BY DataInitially, NextKeepsDataType, PTL DEF Spec

(* The variables keep their types, and a thread past its start never works *)
(* on a descriptor it has not been given.                                  *)
THEOREM TypeCorrect == Spec => []TypeOK
<1>1. TableInv /\ DataTypeOK => TypeOK
  BY DEF TableInv, TableTypeOK, Points, DataTypeOK, Net, TypeOK
<1> QED
  BY <1>1, TableInvariance, DataInvariance, PTL

-----------------------------------------------------------------------------
(* What the peers of a connection get. *)

Early  == {"none", "accepted", "leaked", "turned_away", "start", "read"}
Asking == {"parse", "resolve", "socket", "connect", "forward"}

(* What the thread has read of the answer and not yet written.             *)
InTransit(c) == IF pc[c] = "write" THEN buffer[c] ELSE <<>>

(* Until the one read the request waits whole; then the buffer holds its   *)
(* beginning, and the host gets it once.  The answer is with the client,   *)
(* in transit and still to be read.                                        *)
StreamInv(c) ==
  /\ pc[c] \in Early => net[c].up = Stream(c, net[c].asked)
  /\ pc[c] \in Early \cup Asking => net[c].hostGot = <<>>
  /\ pc[c] \in Asking => buffer[c] = Stream(c, Len(buffer[c]))
  /\ net[c].client # "gone" =>
       net[c].clientGot \o InTransit(c) \o net[c].down = Stream(c, net[c].answered)
  /\ net[c].clientGot = Stream(c, Len(net[c].clientGot))
  /\ net[c].hostGot = Stream(c, Len(net[c].hostGot))

LEMMA StreamFacts ==
  ASSUME NEW c, NEW n \in Nat
  PROVE  /\ Len(Stream(c, n)) = n /\ DOMAIN Stream(c, n) = 1 .. n
         /\ \A k \in 1 .. n : Stream(c, n)[k] = <<c, k>>
         /\ Stream(c, n) \in Seq({<<c, k>> : k \in Nat})
         /\ Stream(c, 0) = <<>>
<1>1. Stream(c, n) \in Seq({<<c, k>> : k \in Nat})
  BY IsASeq DEF Stream
<1>2. Len(Stream(c, n)) = n /\ DOMAIN Stream(c, n) = 1 .. n
  BY <1>1, LenProperties DEF Stream
<1>3. \A k \in 1 .. n : Stream(c, n)[k] = <<c, k>>
  BY DEF Stream
<1>4. Stream(c, 0) = <<>>
  BY DEF Stream
<1> QED
  BY <1>1, <1>2, <1>3, <1>4

(* A sequence that has a stream's pieces at a stream's places is one. *)
LEMMA IsStream ==
  ASSUME NEW c, NEW s \in Pieces, \A k \in 1 .. Len(s) : s[k] = <<c, k>>
  PROVE  s = Stream(c, Len(s))
<1>1. Len(s) \in Nat /\ s = [k \in 1 .. Len(s) |-> s[k]]
  BY LenProperties DEF Pieces
<1> QED
  BY <1>1 DEF Stream

(* The next piece continues a stream. *)
LEMMA StreamGrows ==
  ASSUME NEW c \in Client, NEW n \in 0 .. ReqLen + RespLen - 1,
         NEW s \in Pieces, s = Stream(c, n)
  PROVE  Append(s, <<c, n + 1>>) = Stream(c, n + 1)
<1> DEFINE S == Client \X (1 .. ReqLen + RespLen)
           e == <<c, n + 1>>
<1>1. e \in S /\ s \in Seq(S) /\ n \in Nat
  BY ProxyAssumption DEF Pieces
<1>2. Len(s) = n /\ \A k \in 1 .. n : s[k] = <<c, k>>
  BY <1>1, StreamFacts
<1>3. /\ Append(s, e) \in Seq(S) /\ Len(Append(s, e)) = n + 1
      /\ \A k \in 1 .. n : Append(s, e)[k] = s[k]
      /\ Append(s, e)[n + 1] = e
  <2> HIDE DEF S, e
  <2> QED
    BY <1>1, <1>2, AppendProperties
<1>4. \A k \in 1 .. n + 1 : Append(s, e)[k] = <<c, k>>
  BY <1>1, <1>2, <1>3
<1> QED
  BY <1>3, <1>4, IsStream DEF Pieces

(* The beginning of a stream is a stream. *)
LEMMA StreamBegins ==
  ASSUME NEW c, NEW n \in Nat, NEW s \in Pieces, NEW t \in Pieces,
         s \o t = Stream(c, n)
  PROVE  s = Stream(c, Len(s))
<1>1. Len(s) \in Nat /\ Len(t) \in Nat
  BY LenProperties DEF Pieces
<1>2. /\ Len(s \o t) = Len(s) + Len(t)
      /\ \A k \in 1 .. Len(s) : (s \o t)[k] = s[k]
  BY <1>1, ConcatProperties DEF Pieces
<1>3. /\ Len(Stream(c, n)) = n
      /\ \A k \in 1 .. n : Stream(c, n)[k] = <<c, k>>
  BY StreamFacts
<1>4. \A k \in 1 .. Len(s) : s[k] = <<c, k>>
  BY <1>1, <1>2, <1>3
<1> QED
  BY <1>4, IsStream

LEMMA StreamsInitially ==
  ASSUME Init, NEW c \in Client
  PROVE  StreamInv(c)
<1>1. Stream(c, 0) = <<>> /\ Len(<<>>) = 0
  BY StreamFacts, EmptySeq
<1>2. <<>> \o <<>> \o <<>> = <<>>
  BY EmptySeq, ConcatEmptySeq
<1> QED
  BY <1>1, <1>2 DEF Init, Apart, StreamInv, InTransit, Early, Asking

(* A step that leaves the pieces of a connection where they are. *)
LEMMA MoveKeepsStream ==
  ASSUME NEW c \in Client, StreamInv(c), UNCHANGED <<buffer[c], net[c]>>,
         \/ pc'[c] = pc[c]
         \/ pc[c] \in Early /\ pc'[c] \in Early
         \/ pc[c] \in Asking /\ pc'[c] \in Asking
         \/ /\ pc'[c] \in {"relay", "close_client", "close_host", "done"}
            /\ pc[c] = "write" => net[c].client = "gone"
  PROVE  StreamInv(c)'
BY DEF StreamInv, InTransit, Early, Asking

(* The sockets a thread works on are those of its own connection. *)
LEMMA OwnSockets ==
  ASSUME TableInv, NEW c \in Client
  PROVE  /\ pc[c] \in Middle \cup {"close_client"} =>
              \A d \in Client : table[cfd[c]] = <<"client", d>> <=> d = c
         /\ pc[c] \in WithHost =>
              \A d \in Client : table[hfd[c]] = <<"host", d>> <=> d = c
<1>1. pc[c] \in Middle \cup {"close_client"} =>
        cfd[c] \in FD /\ table[cfd[c]] = <<"client", c>>
  BY DEF TableInv, OwnInv, ClientFds, Middle
<1>2. pc[c] \in WithHost => hfd[c] \in FD /\ table[hfd[c]] = <<"host", c>>
  BY DEF TableInv, OwnInv, HostInv, HostFds, WithHost
<1> QED
  BY <1>1, <1>2, Entries

LEMMA TypeFacts ==
  ASSUME TableInv, DataTypeOK, NEW c \in Client
  PROVE  /\ pc \in [Client -> Points] /\ buffer \in [Client -> Pieces]
         /\ net \in [Client -> Net]
         /\ net[c].up \in Pieces /\ net[c].down \in Pieces /\ net[c].hostGot \in Pieces
         /\ net[c].clientGot \in Pieces /\ buffer[c] \in Pieces
         /\ net[c].asked \in Nat /\ net[c].answered \in Nat
BY ProxyAssumption DEF TableInv, TableTypeOK, DataTypeOK, Net

LEMMA ReadKeepsStream ==
  ASSUME TableInv, DataTypeOK, NEW c \in Client, StreamInv(c), Read(c)
  PROVE  StreamInv(c)'
<1> USE TypeFacts
<1>1. PICK k \in 1 .. Len(net[c].up) :
        /\ buffer' = [buffer EXCEPT ![c] = Front(net[c].up, k)]
        /\ net' = [net EXCEPT ![c].up = Rest(net[c].up, k)]
  BY OwnSockets DEF Read, Step, Middle
<1>2. pc[c] = "read" /\ pc'[c] = "parse"
  BY DEF Read, Step
<1>3. /\ Front(net[c].up, k) \in Pieces /\ Rest(net[c].up, k) \in Pieces
      /\ Front(net[c].up, k) \o Rest(net[c].up, k) = net[c].up
  BY TakenApart
<1>4. net[c].up = Stream(c, net[c].asked)
  BY <1>2 DEF StreamInv, Early
<1>5. Front(net[c].up, k) = Stream(c, Len(Front(net[c].up, k)))
  BY <1>3, <1>4, StreamBegins
<1>6. buffer'[c] = Front(net[c].up, k)
  BY <1>1
<1>7. /\ net'[c].hostGot = net[c].hostGot /\ net'[c].clientGot = net[c].clientGot
      /\ net'[c].client = net[c].client /\ net'[c].answered = net[c].answered
      /\ net'[c].down = net[c].down
  BY <1>1 DEF Net
<1> QED
  BY <1>2, <1>5, <1>6, <1>7 DEF StreamInv, InTransit, Early, Asking

LEMMA ForwardKeepsStream ==
  ASSUME TableInv, DataTypeOK, NEW c \in Client, StreamInv(c), Forward(c)
  PROVE  StreamInv(c)'
<1> USE TypeFacts
<1>1. net' = [net EXCEPT ![c].hostGot = net[c].hostGot \o buffer[c]]
  <2>1. PICK d \in Client :
          /\ table[hfd[c]] = <<"host", d>>
          /\ net' = [net EXCEPT ![d].hostGot = net[d].hostGot \o buffer[c]]
    BY DEF Forward
  <2>2. d = c
    BY <2>1, OwnSockets DEF Forward, Step, WithHost
  <2> QED
    BY <2>1, <2>2
<1>2. pc[c] = "forward" /\ pc'[c] = "relay"
  BY DEF Forward, Step
<1>3. net[c].hostGot \o buffer[c] = buffer[c]
  BY <1>2, ConcatEmptySeq DEF StreamInv, Asking, Pieces
<1>4. net'[c].hostGot = buffer[c] /\ buffer[c] = Stream(c, Len(buffer[c]))
  BY <1>1, <1>2, <1>3 DEF StreamInv, Asking, Net
<1>5. /\ net'[c].clientGot = net[c].clientGot /\ net'[c].down = net[c].down
      /\ net'[c].client = net[c].client /\ net'[c].answered = net[c].answered
  BY <1>1 DEF Net
<1> QED
  BY <1>2, <1>4, <1>5 DEF StreamInv, InTransit, Early, Asking

LEMMA RelayReadKeepsStream ==
  ASSUME TableInv, DataTypeOK, NEW c \in Client, StreamInv(c), RelayRead(c)
  PROVE  StreamInv(c)'
<1> USE TypeFacts
<1>1. PICK k \in 1 .. Len(net[c].down) :
        /\ buffer' = [buffer EXCEPT ![c] = Front(net[c].down, k)]
        /\ net' = [net EXCEPT ![c].down = Rest(net[c].down, k)]
  BY OwnSockets DEF RelayRead, Step, WithHost
<1>2. pc[c] = "relay" /\ pc'[c] = "write"
  BY DEF RelayRead, Step
<1>3. /\ Front(net[c].down, k) \in Pieces /\ Rest(net[c].down, k) \in Pieces
      /\ Front(net[c].down, k) \o Rest(net[c].down, k) = net[c].down
  BY TakenApart
<1>4. buffer'[c] = Front(net[c].down, k) /\ net'[c].down = Rest(net[c].down, k)
  BY <1>1 DEF Net
<1>5. net[c].clientGot \o <<>> = net[c].clientGot
  BY ConcatEmptySeq DEF Pieces
<1>6. net[c].clientGot \o buffer'[c] \o net'[c].down = net[c].clientGot \o net[c].down
  <2>1. net[c].clientGot \o Front(net[c].down, k) \o Rest(net[c].down, k)
          = net[c].clientGot \o net[c].down
    <3> DEFINE a == net[c].clientGot
               x == Front(net[c].down, k)
               y == Rest(net[c].down, k)
    <3>1. a \in Pieces /\ x \in Pieces /\ y \in Pieces /\ x \o y = net[c].down
      BY <1>3
    <3> HIDE DEF a, x, y
    <3>2. a \o x \o y = a \o (x \o y)
      BY <3>1, Regrouped
    <3> QED
      BY <3>1, <3>2 DEF a, x, y
  <2> QED
    BY <1>4, <2>1
<1>7. /\ net'[c].hostGot = net[c].hostGot /\ net'[c].clientGot = net[c].clientGot
      /\ net'[c].client = net[c].client /\ net'[c].answered = net[c].answered
  BY <1>1 DEF Net
<1> QED
  BY <1>2, <1>5, <1>6, <1>7 DEF StreamInv, InTransit, Early, Asking

LEMMA RelayWriteKeepsStream ==
  ASSUME TableInv, DataTypeOK, NEW c \in Client, StreamInv(c), RelayWrite(c)
  PROVE  StreamInv(c)'
<1> USE TypeFacts
<1>1. /\ net' = [net EXCEPT ![c].clientGot = net[c].clientGot \o buffer[c]]
      /\ net[c].client = "here"
  <2>1. PICK d \in Client :
          /\ table[cfd[c]] = <<"client", d>> /\ net[d].client = "here"
          /\ net' = [net EXCEPT ![d].clientGot = net[d].clientGot \o buffer[c]]
    BY DEF RelayWrite
  <2>2. d = c
    BY <2>1, OwnSockets DEF RelayWrite, Step, Middle
  <2> QED
    BY <2>1, <2>2
<1>2. pc[c] = "write" /\ pc'[c] = "relay"
  BY DEF RelayWrite, Step
<1>3. net'[c].clientGot = net[c].clientGot \o buffer[c]
  BY <1>1 DEF Net
<1>4. /\ net'[c].hostGot = net[c].hostGot /\ net'[c].down = net[c].down
      /\ net'[c].client = net[c].client /\ net'[c].answered = net[c].answered
  BY <1>1 DEF Net
<1>5. net[c].clientGot \o buffer[c] \o net[c].down = Stream(c, net[c].answered)
  BY <1>1, <1>2 DEF StreamInv, InTransit
<1>6. net[c].clientGot \o buffer[c] \in Pieces
  BY Joined
<1>7. net'[c].clientGot = Stream(c, Len(net'[c].clientGot))
  BY <1>3, <1>5, <1>6, StreamBegins
<1>8. net'[c].clientGot \o <<>> = net'[c].clientGot
  BY <1>3, <1>6, ConcatEmptySeq DEF Pieces
<1> QED
  BY <1>2, <1>3, <1>4, <1>5, <1>7, <1>8 DEF StreamInv, InTransit, Early, Asking

LEMMA PeersKeepStream ==
  ASSUME TableInv, DataTypeOK, NEW c \in Client, StreamInv(c), Peers(c)
  PROVE  StreamInv(c)'
<1> USE TypeFacts
<1>0. pc'[c] = pc[c] /\ buffer'[c] = buffer[c]
  BY DEF Peers, ClientComes, ClientAsks, ClientLeaves, HostAnswers, HostCloses, locals
<1>1. CASE ClientComes(c) \/ ClientLeaves(c) \/ HostCloses(c)
  <2>1. /\ net'[c].up = net[c].up /\ net'[c].down = net[c].down
        /\ net'[c].asked = net[c].asked /\ net'[c].answered = net[c].answered
        /\ net'[c].hostGot = net[c].hostGot /\ net'[c].clientGot = net[c].clientGot
        /\ net'[c].client # "gone" => net[c].client # "gone"
    BY <1>1 DEF ClientComes, ClientLeaves, HostCloses, Net
  <2> QED
    BY <1>0, <2>1 DEF StreamInv, InTransit
<1>2. CASE ClientAsks(c)
  <2>1. /\ net'[c].up = Append(net[c].up, <<c, net[c].asked + 1>>)
        /\ net'[c].asked = net[c].asked + 1
        /\ net'[c].down = net[c].down /\ net'[c].answered = net[c].answered
        /\ net'[c].hostGot = net[c].hostGot /\ net'[c].clientGot = net[c].clientGot
        /\ net'[c].client = net[c].client
    BY <1>2 DEF ClientAsks, Net
  <2>2. pc[c] \in Early => net'[c].up = Stream(c, net'[c].asked)
    <3>1. net[c].asked \in 0 .. ReqLen + RespLen - 1
      BY <1>2, ProxyAssumption DEF ClientAsks
    <3> QED
      BY <2>1, <3>1, StreamGrows DEF StreamInv
  <2> QED
    BY <1>0, <2>1, <2>2 DEF StreamInv, InTransit
<1>3. CASE HostAnswers(c)
  <2> DEFINE e == <<c, net[c].answered + 1>>
  <2>1. /\ net'[c].down = Append(net[c].down, e)
        /\ net'[c].answered = net[c].answered + 1
        /\ net'[c].up = net[c].up /\ net'[c].asked = net[c].asked
        /\ net'[c].hostGot = net[c].hostGot /\ net'[c].clientGot = net[c].clientGot
        /\ net'[c].client = net[c].client
    BY <1>3 DEF HostAnswers, Net
  <2>2. /\ InTransit(c) \in Pieces
        /\ net[c].clientGot \o InTransit(c) \in Pieces
        /\ net[c].clientGot \o InTransit(c) \o net[c].down \in Pieces
    BY Joined, EmptySeq DEF InTransit, Pieces
  <2>3. e \in Client \X (1 .. ReqLen + RespLen)
    BY <1>3, ProxyAssumption DEF HostAnswers
  <2>4. net[c].clientGot \o InTransit(c) \o Append(net[c].down, e)
          = Append(net[c].clientGot \o InTransit(c) \o net[c].down, e)
    <3> DEFINE S == Client \X (1 .. ReqLen + RespLen)
               a == net[c].clientGot \o InTransit(c)
               b == net[c].down
    <3>1. a \in Seq(S) /\ b \in Seq(S) /\ a \o b \in Seq(S) /\ e \in S
      BY <2>2, <2>3 DEF Pieces
    <3> HIDE DEF S, a, b, e
    <3>2. Append(b, e) = b \o <<e>> /\ Append(a \o b, e) = a \o b \o <<e>> /\ <<e>> \in Seq(S)
      BY <3>1, AppendIsConcat
    <3>3. a \o (b \o <<e>>) = (a \o b) \o <<e>>
      BY <3>1, <3>2, ConcatAssociative
    <3> QED
      BY <3>2, <3>3 DEF a, b
  <2>5. net[c].client # "gone" =>
          Append(net[c].clientGot \o InTransit(c) \o net[c].down, e)
            = Stream(c, net[c].answered + 1)
    <3>1. net[c].answered \in 0 .. ReqLen + RespLen - 1
      BY <1>3, ProxyAssumption DEF HostAnswers
    <3> QED
      BY <2>2, <3>1, StreamGrows DEF StreamInv
  <2>6. InTransit(c)' = InTransit(c)
    BY <1>0 DEF InTransit
  <2> QED
    BY <1>0, <2>1, <2>4, <2>5, <2>6 DEF StreamInv
<1> QED
  BY <1>1, <1>2, <1>3 DEF Peers

(* A thread that meets nobody at its client's socket has lost its client.  *)
LEMMA ThreadKeepsStream ==
  ASSUME TableInv, DataTypeOK, NEW c \in Client, StreamInv(c),
         HandleRequestConnection(c)
  PROVE  StreamInv(c)'
<1> USE TypeFacts
<1>1. CASE Read(c) \/ Forward(c) \/ RelayRead(c) \/ RelayWrite(c)
  BY <1>1, ReadKeepsStream, ForwardKeepsStream, RelayReadKeepsStream,
     RelayWriteKeepsStream
<1>2. CASE Start(c) \/ ReadEnds(c) \/ ParseHttpRequest(c) \/ ParseRefuses(c) \/ ParseCrashes(c)
  BY <1>2, MoveKeepsStream
  DEF Start, ReadEnds, ParseHttpRequest, ParseRefuses, ParseCrashes, Step, locals,
      Early, Asking
<1>3. CASE ResolveDomainName(c) \/ Socket(c) \/ SocketFails(c) \/ ConnectFails(c)
  BY <1>3, MoveKeepsStream
  DEF ResolveDomainName, Socket, SocketFails, ConnectFails, Step, locals, Early, Asking
<1>4. CASE Connect(c)
  <2>1. /\ net'[c].up = net[c].up /\ net'[c].down = net[c].down
        /\ net'[c].asked = net[c].asked /\ net'[c].answered = net[c].answered
        /\ net'[c].hostGot = net[c].hostGot /\ net'[c].clientGot = net[c].clientGot
        /\ net'[c].client = net[c].client
    BY <1>4 DEF Connect, Net
  <2>2. pc[c] = "connect" /\ pc'[c] = "forward" /\ buffer'[c] = buffer[c]
    BY <1>4 DEF Connect, Step, locals
  <2> QED
    BY <2>1, <2>2 DEF StreamInv, InTransit, Early, Asking
<1>5. CASE ForwardToNobody(c) \/ RelayEnds(c)
  BY <1>5, MoveKeepsStream DEF ForwardToNobody, RelayEnds, WriteToNobody, Step, locals
<1>6. CASE RelayToNobody(c)
  <2>1. net[c].client = "gone"
    BY <1>6, OwnSockets DEF RelayToNobody, Middle
  <2> QED
    BY <1>6, <2>1, MoveKeepsStream DEF RelayToNobody, WriteToNobody, Step, locals
<1>7. CASE CloseClient(c) \/ CloseHost(c)
  BY <1>7, MoveKeepsStream DEF CloseClient, CloseHost, Step, locals
<1> QED
  BY <1>1, <1>2, <1>3, <1>4, <1>5, <1>6, <1>7 DEF HandleRequestConnection

(* A connection is left alone by the thread and the peers of another. *)
LEMMA OthersKept ==
  ASSUME TableInv, DataTypeOK, NEW c \in Client, NEW d \in Client, d # c,
         HandleRequestConnection(d) \/ Peers(d)
  PROVE  UNCHANGED <<pc[c], buffer[c], net[c]>>
<1> USE TypeFacts
<1>1. CASE Peers(d)
  BY <1>1 DEF Peers, ClientComes, ClientAsks, ClientLeaves, HostAnswers, HostCloses, locals
<1>2. CASE Read(d) \/ RelayRead(d)
  <2>1. pc'[c] = pc[c] /\ buffer'[c] = buffer[c]
    BY <1>2 DEF Read, RelayRead, Step
  <2>2. CASE Read(d)
    <3>1. PICK e \in Client : /\ table[cfd[d]] = <<"client", e>>
                              /\ \E v : net' = [net EXCEPT ![e].up = v]
      BY <2>2 DEF Read
    <3>2. e = d
      BY <2>2, <3>1, OwnSockets DEF Read, Step, Middle, WithHost
    <3> QED
      BY <2>1, <3>1, <3>2
  <2>3. CASE RelayRead(d)
    <3>1. PICK e \in Client : /\ table[hfd[d]] = <<"host", e>>
                              /\ \E v : net' = [net EXCEPT ![e].down = v]
      BY <2>3 DEF RelayRead
    <3>2. e = d
      BY <2>3, <3>1, OwnSockets DEF RelayRead, Step, Middle, WithHost
    <3> QED
      BY <2>1, <3>1, <3>2
  <2> QED
    BY <1>2, <2>2, <2>3
<1>3. CASE Forward(d) \/ RelayWrite(d)
  <2>1. pc'[c] = pc[c] /\ buffer'[c] = buffer[c]
    BY <1>3 DEF Forward, RelayWrite, Step
  <2>2. CASE Forward(d)
    <3>1. PICK e \in Client : /\ table[hfd[d]] = <<"host", e>>
                              /\ \E v : net' = [net EXCEPT ![e].hostGot = v]
      BY <2>2 DEF Forward
    <3>2. e = d
      BY <2>2, <3>1, OwnSockets DEF Forward, Step, Middle, WithHost
    <3> QED
      BY <2>1, <3>1, <3>2
  <2>3. CASE RelayWrite(d)
    <3>1. PICK e \in Client : /\ table[cfd[d]] = <<"client", e>>
                              /\ \E v : net' = [net EXCEPT ![e].clientGot = v]
      BY <2>3 DEF RelayWrite
    <3>2. e = d
      BY <2>3, <3>1, OwnSockets DEF RelayWrite, Step, Middle, WithHost
    <3> QED
      BY <2>1, <3>1, <3>2
  <2> QED
    BY <1>3, <2>2, <2>3
<1>4. CASE \/ Start(d) \/ ReadEnds(d) \/ ParseHttpRequest(d) \/ ParseRefuses(d)
           \/ ParseCrashes(d) \/ ResolveDomainName(d) \/ Socket(d) \/ SocketFails(d)
           \/ Connect(d) \/ ConnectFails(d)
  BY <1>4 DEF Start, ReadEnds, ParseHttpRequest, ParseRefuses, ParseCrashes,
     ResolveDomainName, Socket, SocketFails, Connect, ConnectFails, Step, locals
<1>5. CASE \/ ForwardToNobody(d) \/ RelayEnds(d) \/ RelayToNobody(d)
           \/ CloseClient(d) \/ CloseHost(d)
  BY <1>5 DEF ForwardToNobody, RelayEnds, RelayToNobody, WriteToNobody, CloseClient,
     CloseHost, Step, locals
<1> QED
  BY <1>1, <1>2, <1>3, <1>4, <1>5 DEF HandleRequestConnection

LEMMA AcceptorKeepsStream ==
  ASSUME TableInv, DataTypeOK, NEW c \in Client, StreamInv(c), Acceptor \/ AcceptorFails
  PROVE  StreamInv(c)'
<1> USE TypeFacts
<1>1. UNCHANGED <<buffer[c], net[c]>>
  BY DEF Acceptor, AcceptorFails, InitSocketListener, Accept, CreateThread, InitFails,
     AcceptFails, AcceptorGivesUp, AcceptorTurnsAway, AcceptorReturns,
     CreateThreadFails, vars, locals
<1>2. pc'[c] = pc[c] \/ (pc[c] \in Early /\ pc'[c] \in Early)
  <2>1. CASE \E d \in Client : Accept(d)
    BY <2>1 DEF Accept, Waiting, Early
  <2>2. CASE \E d \in Client :
               CreateThread(d) \/ CreateThreadFails(d) \/ AcceptorTurnsAway(d)
    BY <2>2, AcceptedFacts DEF CreateThread, CreateThreadFails, AcceptorTurnsAway, Early
  <2>3. CASE InitSocketListener \/ InitFails \/ AcceptFails \/ AcceptorGivesUp
               \/ AcceptorReturns
    BY <2>3 DEF InitSocketListener, InitFails, AcceptFails, AcceptorGivesUp,
                AcceptorReturns, vars
  <2> QED
    BY <2>1, <2>2, <2>3 DEF Acceptor, AcceptorFails
<1> QED
  BY <1>1, <1>2, MoveKeepsStream

Streams == \A c \in Client : StreamInv(c)

LEMMA NextKeepsStreams == TableInv /\ DataTypeOK /\ Streams /\ [Next]_vars => Streams'
<1> SUFFICES ASSUME TableInv, DataTypeOK, Streams, [Next]_vars, NEW c \in Client
             PROVE  StreamInv(c)'
  BY DEF Streams
<1>1. StreamInv(c)
  BY DEF Streams
<1>2. CASE Acceptor \/ AcceptorFails
  BY <1>1, <1>2, AcceptorKeepsStream
<1>3. CASE HandleRequestConnection(c) \/ Peers(c)
  BY <1>1, <1>3, ThreadKeepsStream, PeersKeepStream
<1>4. ASSUME NEW d \in Client, d # c, HandleRequestConnection(d) \/ Peers(d)
      PROVE  StreamInv(c)'
  <2>1. UNCHANGED <<pc[c], buffer[c], net[c]>>
    BY <1>4, OthersKept
  <2> QED
    BY <1>1, <2>1, MoveKeepsStream
<1>5. CASE UNCHANGED vars
  BY <1>1, <1>5, MoveKeepsStream DEF vars, locals
<1> QED
  BY <1>2, <1>3, <1>4, <1>5 DEF Next

(* The answers and requests of any number of connections never mix, and    *)
(* what a client that stays is sent by its host is with it, in its         *)
(* thread's buffer or still to be read, complete and in order.             *)
THEOREM StreamsKept == Spec => []StreamsAreRelayed
<1>1. Init => Streams
  BY StreamsInitially DEF Streams
<1>2. Streams => StreamsAreRelayed
  BY DEF Streams, StreamInv, InTransit, StreamsAreRelayed
<1> QED
  BY <1>1, <1>2, NextKeepsStreams, TableInvariance, DataInvariance, PTL DEF Spec
=============================================================================
