--------------------------- MODULE StartUpProofs ---------------------------
(***************************************************************************)
(* Theorems about StartUp, for every configuration, every number of ports    *)
(* and every set of descriptors the process was started with.                *)
(*                                                                         *)
(* The numbers handed out grow because the lowest free one is taken: that is  *)
(* what fills port_info without a gap, and what puts the numbers of clients   *)
(* behind its end.                                                           *)
(***************************************************************************)
EXTENDS StartUp, ConfigParserProofs, WellFoundedInduction

\* What the parser leaves: a default server on every port, and no other name.
PortsRead ==
  /\ DOMAIN ports \subseteq Ports
  /\ \A p \in DOMAIN ports : DOMAIN ports[p] \subseteq Names \cup {"localhost"}
  /\ OneDefaultPerPort

\* Every entry is the entry of its socket, which is not before it; no port has two.
EntriesOwn ==
  /\ \A i \in DOMAIN port_info :
       /\ i <= port_info[i].listen_sd + 1 /\ port_info[i].listen_sd < Len(port_info)
       /\ port_info[port_info[i].listen_sd + 1] = port_info[i]
  /\ \A i, j \in DOMAIN port_info :
       port_info[i].my_port = port_info[j].my_port => port_info[i] = port_info[j]

\* What is open: what was, and the sockets; no number below the last socket is free.
DescriptorsKnown ==
  /\ phase = "reading" => port_info = <<>> /\ socket_size = -1
  /\ phase = "sockets" => Len(port_info) = socket_size + 1
  /\ phase \in {"sockets", "kqueue"} => open = held \cup Listening /\ held \cap Listening = {}
  /\ phase \in {"sockets", "kqueue", "serving"} =>
       \A d \in Descriptors : d < Len(port_info) => d \in open
  /\ phase = "exited" => open = held
  /\ phase # "no_default"

StartInv ==
  /\ phase = "reading" => Typed
  /\ PortsRead /\ EntriesOwn /\ DescriptorsKnown /\ StartUpTypeOK

-----------------------------------------------------------------------------
LEMMA LeastOfNaturals ==
  ASSUME NEW S, S \subseteq Nat, S # {}
  PROVE  Min(S) \in S /\ \A n \in S : Min(S) <= n
<1>. DEFINE R == {ss \in Nat \X Nat : ss[1] < ss[2]}
<1>1. IsWellFoundedOn(R, Nat)
  BY NatLessThanWellFounded, Zenon DEF OpToRel
<1>2. PICK m \in S : \A n \in S : <<n, m>> \notin R
  <2>. HIDE DEF R
  <2>. QED
    BY <1>1, WFMin
<1>3. ASSUME NEW n \in S PROVE m <= n
  <2>1. n \in Nat /\ m \in Nat /\ <<n, m>> \in Nat \X Nat
    OBVIOUS
  <2>2. ~(<<n, m>>[1] < <<n, m>>[2])
    BY <1>2, <2>1, Zenon
  <2>. QED
    BY <2>1, <2>2
<1>. QED
  BY <1>3 DEF Min

\* The port whose turn it is has a default server.
LEMMA TurnHasDefault ==
  ASSUME PortsRead, Unopened # {}
  PROVE  /\ NextPort \in Unopened
         /\ DefaultServers(NextPort) # {}
         /\ DefaultServers(NextPort) \subseteq Names \cup {"localhost"}
<1>1. Unopened \subseteq DOMAIN ports /\ Unopened \subseteq Nat
  BY StartUpAssumption DEF PortsRead, Unopened
<1>2. NextPort \in Unopened
  BY <1>1, LeastOfNaturals DEF NextPort
<1>3. Cardinality(DefaultServers(NextPort)) = 1
  BY <1>1, <1>2 DEF PortsRead, OneDefaultPerPort, DefaultServers
<1>4. DefaultServers(NextPort) # {}
  BY <1>3, FS_EmptySet
<1>. QED
  BY <1>1, <1>2, <1>4 DEF DefaultServers, PortsRead

LEMMA TypedPortsRead == Typed => PortsRead
  BY DEF Typed, TypeOK, SavedOK, PortsRead

LEMMA StartInvInit == StartUpInit => StartInv
<1>. SUFFICES ASSUME StartUpInit PROVE StartInv
  OBVIOUS
<1>1. Typed
  BY InitTyped DEF StartUpInit
<1>2. /\ phase = "reading" /\ held = {} /\ open = {} /\ port_info = <<>>
      /\ socket_size = -1 /\ first_socket = -1
  BY DEF StartUpInit
<1>3. EntriesOwn /\ DescriptorsKnown
  BY <1>2 DEF EntriesOwn, DescriptorsKnown
<1>4. StartUpTypeOK
  <2>1. port_info \in Seq(Entries)
    BY <1>2
  <2>. QED
    BY <1>2, <2>1 DEF StartUpTypeOK
<1>. QED
  BY <1>1, <1>3, <1>4, TypedPortsRead DEF StartInv

LEMMA ReadInv == StartInv /\ Read => StartInv'
<1>. SUFFICES ASSUME StartInv, Read PROVE StartInv'
  OBVIOUS
<1>1. Typed'
  BY NextTyped DEF StartInv, Read
<1>2. UNCHANGED <<phase, held, open, port_info, socket_size, first_socket>>
  BY DEF Read, sockets
<1>3. PortsRead'
  BY <1>1 DEF Typed, TypeOK, SavedOK, PortsRead
<1>4. EntriesOwn' /\ DescriptorsKnown' /\ StartUpTypeOK'
  BY <1>2 DEF StartInv, EntriesOwn, DescriptorsKnown, StartUpTypeOK, Listening
<1>. QED
  BY <1>1, <1>3, <1>4 DEF StartInv

LEMMA ConfigReadInv == StartInv /\ ConfigRead => StartInv'
<1>. SUFFICES ASSUME StartInv, ConfigRead PROVE StartInv'
  OBVIOUS
<1>1. /\ phase = "reading" /\ phase' = "sockets" /\ held' \in Inherited /\ open' = held'
      /\ UNCHANGED <<ports, port_info, socket_size, first_socket>>
  BY DEF ConfigRead
<1>2. port_info = <<>> /\ socket_size = -1
  BY <1>1 DEF StartInv, DescriptorsKnown
<1>3. PortsRead' /\ EntriesOwn'
  BY <1>1 DEF StartInv, PortsRead, OneDefaultPerPort, EntriesOwn
<1>4. DescriptorsKnown'
  BY <1>1, <1>2, StartUpAssumption DEF DescriptorsKnown, Listening
<1>5. StartUpTypeOK'
  BY <1>1, StartUpAssumption DEF StartInv, StartUpTypeOK
<1>. QED
  BY <1>1, <1>3, <1>4, <1>5 DEF StartInv

\* The socket's number is not below the end of port_info, and becomes its last.
LEMMA OpenSocketInv == StartInv /\ OpenSocket => StartInv'
<1>. SUFFICES ASSUME StartInv, OpenSocket PROVE StartInv'
  OBVIOUS
<1>. DEFINE sd    == LowestFree
            entry == [listen_sd |-> sd, my_port |-> NextPort, default |-> DefaultServers(NextPort)]
            copies == [i \in 1 .. Copies(socket_size, sd) |-> entry]
<1>1. /\ phase = "sockets" /\ Unopened # {} /\ Descriptors \ open # {}
      /\ open' = open \cup {sd} /\ port_info' = port_info \o copies /\ socket_size' = sd
      /\ first_socket' = sd \/ first_socket' = first_socket
      /\ UNCHANGED <<phase, held, ports>>
  BY DEF OpenSocket, vars
<1>2. /\ port_info \in Seq(Entries) /\ Len(port_info) \in Nat
      /\ Len(port_info) = socket_size + 1 /\ socket_size \in Int
      /\ \A d \in Descriptors : d < Len(port_info) => d \in open
  BY <1>1 DEF StartInv, StartUpTypeOK, DescriptorsKnown
<1>3. /\ sd \in Descriptors /\ sd \in Nat /\ sd \notin open
      /\ \A d \in Descriptors : d < sd => d \in open
  <2>1. Descriptors \ open \subseteq Nat
    BY StartUpAssumption
  <2>2. sd \in Descriptors \ open /\ \A d \in Descriptors \ open : sd <= d
    BY <1>1, <2>1, LeastOfNaturals DEF LowestFree
  <2>. QED
    BY <2>1, <2>2, StartUpAssumption
<1>4. sd >= Len(port_info)
  BY <1>2, <1>3
<1>5. NextPort \in Unopened /\ entry \in Entries
  BY <1>1, <1>3, TurnHasDefault DEF StartInv, PortsRead, Unopened, Entries
<1>. HIDE DEF sd, entry
<1>6. /\ port_info' \in Seq(Entries) /\ Len(port_info') = sd + 1
      /\ \A i \in 1 .. Len(port_info) : port_info'[i] = port_info[i]
      /\ \A i \in Len(port_info) + 1 .. sd + 1 : port_info'[i] = entry
  <2>1. Copies(socket_size, sd) \in Nat /\ Len(port_info) + Copies(socket_size, sd) = sd + 1
    BY <1>2, <1>3, <1>4 DEF Copies
  <2>2. copies \in Seq(Entries) /\ Len(copies) = Copies(socket_size, sd)
    BY <1>5, <2>1
  <2>. QED
    BY <1>1, <1>2, <1>3, <2>1, <2>2
<1>7. entry.listen_sd = sd /\ entry.my_port = NextPort
  BY DEF entry
<1>8. \A i \in DOMAIN port_info : port_info[i].my_port # NextPort
  BY <1>5 DEF Unopened
<1>9. PortsRead'
  BY <1>1 DEF StartInv, PortsRead, OneDefaultPerPort
<1>10. EntriesOwn'
  <2>1. DOMAIN port_info' = 1 .. sd + 1 /\ DOMAIN port_info = 1 .. Len(port_info)
    BY <1>2, <1>3, <1>6
  <2>2. ASSUME NEW i \in 1 .. sd + 1
        PROVE  /\ i <= port_info'[i].listen_sd + 1 /\ port_info'[i].listen_sd < sd + 1
               /\ port_info'[port_info'[i].listen_sd + 1] = port_info'[i]
    <3>1. CASE i <= Len(port_info)
      <4>1. port_info'[i] = port_info[i] /\ i \in DOMAIN port_info
        BY <1>6, <2>1, <3>1
      <4>2. /\ i <= port_info[i].listen_sd + 1 /\ port_info[i].listen_sd < Len(port_info)
            /\ port_info[port_info[i].listen_sd + 1] = port_info[i] /\ port_info[i].listen_sd \in Nat
        <5>1. port_info[i] \in Entries
          BY <1>2, <4>1
        <5>. QED
          BY <4>1, <5>1, StartUpAssumption DEF StartInv, EntriesOwn, Entries
      <4>. QED
        BY <4>1, <4>2, <1>2, <1>3, <1>4, <1>6
    <3>2. CASE i > Len(port_info)
      BY <3>2, <1>2, <1>3, <1>4, <1>6, <1>7
    <3>. QED
      BY <3>1, <3>2, <1>2
  <2>3. ASSUME NEW i \in 1 .. sd + 1, NEW j \in 1 .. sd + 1, port_info'[i].my_port = port_info'[j].my_port
        PROVE  port_info'[i] = port_info'[j]
    <3>1. \A k \in 1 .. sd + 1 : \/ k \in DOMAIN port_info /\ port_info'[k] = port_info[k]
                                 \/ port_info'[k] = entry
      BY <1>2, <1>3, <1>6, <2>1
    <3>. QED
      BY <2>3, <3>1, <1>7, <1>8 DEF StartInv, EntriesOwn
  <2>. QED
    BY <2>1, <2>2, <2>3, <1>6 DEF EntriesOwn
<1>11. DescriptorsKnown'
  <2>1. Listening' = Listening \cup {sd}
    <3>1. Listening' = {fd \in 0 .. sd : port_info'[fd + 1].listen_sd = fd}
      BY <1>3, <1>6 DEF Listening
    <3>2. \A fd \in 0 .. Len(port_info) - 1 : port_info'[fd + 1] = port_info[fd + 1]
      BY <1>2, <1>6
    <3>3. \A fd \in Len(port_info) .. sd : port_info'[fd + 1] = entry
      BY <1>2, <1>3, <1>6
    <3>. QED
      BY <3>1, <3>2, <3>3, <1>2, <1>3, <1>4, <1>7 DEF Listening
  <2>2. open = held \cup Listening /\ held \cap Listening = {}
    BY <1>1 DEF StartInv, DescriptorsKnown
  <2>3. ASSUME NEW d \in Descriptors, d < Len(port_info') PROVE d \in open'
    <3>1. d < sd \/ d = sd
      BY <1>3, <1>6, <2>3, StartUpAssumption
    <3>. QED
      BY <1>1, <1>3, <3>1
  <2>. QED
    BY <1>1, <1>3, <1>6, <2>1, <2>2, <2>3 DEF DescriptorsKnown
<1>12. StartUpTypeOK'
  BY <1>1, <1>3, <1>6 DEF StartInv, StartUpTypeOK
<1>. QED
  BY <1>1, <1>9, <1>10, <1>11, <1>12 DEF StartInv

\* Closing what the entries own leaves what was open before.
LEMMA ExitInv ==
  ASSUME StartInv, phase \in {"sockets", "kqueue"}, CloseAndExit(Len(port_info) - 1, "exited")
  PROVE  StartInv'
<1>1. /\ phase' = "exited" /\ open' = open \ Listening
      /\ UNCHANGED <<held, port_info, socket_size, first_socket, ports>>
  BY DEF CloseAndExit, ListeningUpTo, Listening, vars
<1>2. open' = held
  BY <1>1 DEF StartInv, DescriptorsKnown
<1>3. DescriptorsKnown' /\ StartUpTypeOK'
  BY <1>1, <1>2 DEF StartInv, DescriptorsKnown, StartUpTypeOK
<1>4. PortsRead' /\ EntriesOwn'
  BY <1>1 DEF StartInv, PortsRead, OneDefaultPerPort, EntriesOwn
<1>. QED
  BY <1>1, <1>3, <1>4 DEF StartInv

LEMMA SocketFailsInv == StartInv /\ (SocketFails \/ QueueFails) => StartInv'
<1>1. ASSUME StartInv, SocketFails PROVE StartInv'
  <2>1. phase = "sockets" /\ DefaultServers(NextPort) # {}
    BY <1>1, TurnHasDefault DEF SocketFails, StartInv
  <2>2. socket_size = Len(port_info) - 1
    BY <1>1, <2>1 DEF StartInv, DescriptorsKnown, StartUpTypeOK
  <2>3. CloseAndExit(Len(port_info) - 1, "exited")
    BY <1>1, <2>1, <2>2 DEF SocketFails
  <2>. QED
    BY <1>1, <2>1, <2>3, ExitInv
<1>2. ASSUME StartInv, QueueFails PROVE StartInv'
  BY <1>2, ExitInv DEF QueueFails
<1>. QED
  BY <1>1, <1>2

LEMMA SocketsDoneInv == StartInv /\ SocketsDone => StartInv'
<1>. SUFFICES ASSUME StartInv, SocketsDone PROVE StartInv'
  OBVIOUS
<1>1. /\ phase = "sockets" /\ phase' \in {"size_error", "kqueue"}
      /\ UNCHANGED <<held, open, port_info, first_socket>>
      /\ socket_size' \in {socket_size, socket_size + 1}
      /\ ports' = ports \/ ports' = Empty
  BY DEF SocketsDone
<1>2. PortsRead'
  BY <1>1 DEF StartInv, PortsRead, OneDefaultPerPort, Empty
<1>3. EntriesOwn'
  BY <1>1 DEF StartInv, EntriesOwn
<1>4. DescriptorsKnown'
  <2>1. Listening' = Listening
    BY <1>1 DEF Listening
  <2>. QED
    BY <1>1, <2>1 DEF StartInv, DescriptorsKnown
<1>5. StartUpTypeOK'
  BY <1>1 DEF StartInv, StartUpTypeOK
<1>. QED
  BY <1>1, <1>2, <1>3, <1>4, <1>5 DEF StartInv

LEMMA OpenQueueInv == StartInv /\ OpenQueue => StartInv'
<1>. SUFFICES ASSUME StartInv, OpenQueue PROVE StartInv'
  OBVIOUS
<1>1. /\ phase = "kqueue" /\ phase' = "serving" /\ Descriptors \ open # {}
      /\ open' = open \cup {LowestFree}
      /\ UNCHANGED <<held, port_info, socket_size, first_socket, ports>>
  BY DEF OpenQueue, vars
<1>2. LowestFree \in Descriptors
  BY <1>1, LeastOfNaturals, StartUpAssumption DEF LowestFree
<1>3. DescriptorsKnown' /\ StartUpTypeOK'
  BY <1>1, <1>2 DEF StartInv, DescriptorsKnown, StartUpTypeOK
<1>4. PortsRead' /\ EntriesOwn'
  BY <1>1 DEF StartInv, PortsRead, OneDefaultPerPort, EntriesOwn
<1>. QED
  BY <1>1, <1>3, <1>4 DEF StartInv

LEMMA StartInvNext == StartInv /\ [StartUpNext]_allVars => StartInv'
<1>1. ASSUME StartInv, UNCHANGED allVars PROVE StartInv'
  <2>1. UNCHANGED vars /\ UNCHANGED <<phase, held, open, port_info, socket_size, first_socket>>
    BY <1>1 DEF allVars, sockets
  <2>2. phase' = "reading" => Typed'
    BY <1>1, <2>1, NextTyped DEF StartInv
  <2>3. ports' = ports
    BY <2>1 DEF vars
  <2>4. PortsRead' /\ EntriesOwn'
    BY <1>1, <2>1, <2>3 DEF StartInv, PortsRead, OneDefaultPerPort, EntriesOwn
  <2>5. DescriptorsKnown' /\ StartUpTypeOK'
    BY <1>1, <2>1 DEF StartInv, DescriptorsKnown, StartUpTypeOK, Listening
  <2>. QED
    BY <2>2, <2>4, <2>5 DEF StartInv
<1>. QED
  BY <1>1, ReadInv, ConfigReadInv, OpenSocketInv, SocketFailsInv, SocketsDoneInv, OpenQueueInv
     DEF StartUpNext

-----------------------------------------------------------------------------
(* The theorems.                                                             *)

\* A socket is found at its own number and nowhere else, every port has one, and a
\* start that fails closes exactly the sockets it opened.
THEOREM SocketsIndexed == StartUpSpec => []ListenersIndexed
<1>1. StartInv => ListenersIndexed
  <2>. SUFFICES ASSUME StartInv PROVE ListenersIndexed
    OBVIOUS
  <2>1. phase # "no_default" /\ (phase = "exited" => open = held)
    BY DEF StartInv, DescriptorsKnown
  <2>2. phase \in {"sockets", "kqueue"} => open = held \cup Listening
    BY DEF StartInv, DescriptorsKnown
  <2>3. port_info \in Seq(Entries) /\ Len(port_info) \in Nat /\ DOMAIN port_info = 1 .. Len(port_info)
    BY DEF StartInv, StartUpTypeOK
  <2>4. ASSUME NEW fd \in Listening, NEW gd \in Listening,
               port_info[fd + 1].my_port = port_info[gd + 1].my_port
        PROVE  fd = gd
    <3>1. fd + 1 \in DOMAIN port_info /\ gd + 1 \in DOMAIN port_info
      BY <2>3 DEF Listening
    <3>2. port_info[fd + 1] = port_info[gd + 1]
      BY <2>4, <3>1 DEF StartInv, EntriesOwn
    <3>. QED
      BY <3>2 DEF Listening
  <2>5. ASSUME NEW i \in DOMAIN port_info
        PROVE  \E fd \in Listening : port_info[i].my_port = port_info[fd + 1].my_port
    <3>. DEFINE fd == port_info[i].listen_sd
    <3>1. fd \in Nat
      <4>1. port_info[i] \in Entries
        BY <2>3
      <4>. QED
        BY <4>1, StartUpAssumption DEF Entries
    <3>2. fd < Len(port_info) /\ port_info[fd + 1] = port_info[i]
      BY DEF StartInv, EntriesOwn
    <3>3. fd \in Listening
      BY <2>3, <3>1, <3>2 DEF Listening
    <3>. QED
      BY <3>2, <3>3
  <2>. QED
    BY <2>1, <2>2, <2>4, <2>5 DEF ListenersIndexed
<1>. QED
  BY <1>1, StartInvInit, StartInvNext, PTL DEF StartUpSpec

\* Whatever descriptors the process was started with, the numbers that are free
\* once it serves are behind the end of port_info.
THEOREM ClientsBehind == StartUpSpec => []ClientsBeyondListeners
<1>1. StartInv => ClientsBeyondListeners
  BY StartUpAssumption DEF StartInv, DescriptorsKnown, StartUpTypeOK, ClientsBeyondListeners
<1>. QED
  BY <1>1, StartInvInit, StartInvNext, PTL DEF StartUpSpec

\* The variables of the sockets have the types they are declared with.
THEOREM StartUpTypeCorrect == StartUpSpec => []StartUpTypeOK
<1>1. StartInv => StartUpTypeOK
  BY DEF StartInv
<1>. QED
  BY <1>1, StartInvInit, StartInvNext, PTL DEF StartUpSpec

\* The parser's default servers are there until the last socket has been opened.
THEOREM DefaultsUntilOpened == StartUpSpec => []OneDefaultPerPort
<1>1. StartInv => OneDefaultPerPort
  BY DEF StartInv, PortsRead
<1>. QED
  BY <1>1, StartInvInit, StartInvNext, PTL DEF StartUpSpec
=============================================================================
