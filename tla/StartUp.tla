------------------------------ MODULE StartUp ------------------------------
(***************************************************************************)
(* The start of the program: the configuration is read (ConfigParser), then  *)
(* socket_init_and_build_port_info opens one listening socket per port and   *)
(* fills port_info, one entry for every number up to the last socket.  Entry   *)
(* fd is the port fd listens on when its listen_sd is fd; the others are       *)
(* copies.  kqueue_module and close_socket_and_exit__ go by listen_sd, but     *)
(* read_event_handler and kevent_error_handler take every descriptor that has  *)
(* an entry for a socket: no client, file or pipe may have one (EventLoop).    *)
(***************************************************************************)
EXTENDS ConfigParser, Integers, FiniteSetsExt

CONSTANTS
  Descriptors,   \* the descriptors the process may have, 0 ..
  Inherited      \* the sets of descriptors that may be open when it starts

ASSUME StartUpAssumption ==
  /\ Descriptors \subseteq Nat
  /\ Inherited \subseteq SUBSET Descriptors
  /\ Ports \subseteq Nat

VARIABLES
  phase,         \* where main is, or how it left
  held,          \* the descriptors that were open before the sockets
  open,          \* the descriptors open now
  port_info,     \* port_info[fd + 1] is entry fd
  socket_size,
  first_socket

sockets == <<phase, held, open, port_info, socket_size, first_socket>>
allVars == <<vars, sockets>>

Entries == [listen_sd : Descriptors, my_port : Ports, default : SUBSET (Names \cup {"localhost"})]

StartUpTypeOK ==
  /\ phase \in {"reading", "sockets", "kqueue", "serving", "exited", "no_default", "size_error"}
  /\ held \subseteq Descriptors /\ open \subseteq Descriptors
  /\ port_info \in Seq(Entries)
  /\ socket_size \in Int /\ first_socket \in Int

StartUpInit ==
  /\ Init
  /\ phase = "reading"
  /\ held = {} /\ open = {}
  /\ port_info = <<>>
  /\ socket_size = -1 /\ first_socket = -1

Read == phase = "reading" /\ Next /\ UNCHANGED sockets

\* The checker returns: its variables are gone, the servers are left.
ConfigRead ==
  /\ phase = "reading" /\ state = "conf_done"
  /\ phase' = "sockets"
  /\ held' \in Inherited /\ open' = held'
  /\ it' = {"end"} /\ server_count' = 0 /\ ClearBlock
  /\ prev_state' = "conf_zero" /\ next_state' = "conf_start"
  /\ UNCHANGED <<file, state, ports, plain, port_info, socket_size, first_socket>>

-----------------------------------------------------------------------------
\* The port whose turn it is: the map is walked in the order of its keys.
Unopened == DOMAIN ports \ {port_info[i].my_port : i \in DOMAIN port_info}
NextPort == Min(Unopened)

DefaultServers(p) == {n \in DOMAIN ports[p] : ports[p][n].default}

LowestFree == Min(Descriptors \ open)

\* The sockets close_socket_and_exit__ finds among the entries up to n.
ListeningUpTo(n) == {fd \in 0 .. n : port_info[fd + 1].listen_sd = fd}

\* mutants: one copy of the entry, whatever numbers lie between; one too many
OneCopy(prev, sd) == 1
CopyMore(prev, sd) == sd - prev + 1

\* How often the entry of the socket sd is pushed.
Copies(prev, sd) == sd - prev

\* A socket for the next port, and its entry for every number since the last one.
OpenSocket ==
  /\ phase = "sockets" /\ Unopened # {}
  /\ DefaultServers(NextPort) # {} /\ Descriptors \ open # {}
  /\ LET sd    == LowestFree
         entry == [listen_sd |-> sd, my_port |-> NextPort, default |-> DefaultServers(NextPort)]
     IN  /\ open' = open \cup {sd}
         /\ port_info' = port_info \o [i \in 1 .. Copies(socket_size, sd) |-> entry]
         /\ first_socket' = IF socket_size = -1 THEN sd ELSE first_socket
         /\ socket_size' = sd
  /\ UNCHANGED <<phase, held, vars>>

CloseAndExit(n, how) ==
  /\ phase' = how
  /\ open' = open \ ListeningUpTo(n)
  /\ UNCHANGED <<held, port_info, socket_size, first_socket, vars>>

\* The port has no default server; or socket, setsockopt, fcntl, bind or listen
\* fails and the new socket, if there is one, is closed.  Then the others are
\* closed and the program exits.
SocketFails ==
  /\ phase = "sockets" /\ Unopened # {}
  /\ CloseAndExit(socket_size, IF DefaultServers(NextPort) = {} THEN "no_default" ELSE "exited")

\* A socket that is number 0 is taken for none.
SocketsDone ==
  /\ phase = "sockets" /\ Unopened = {}
  /\ \/ /\ socket_size = 0
        /\ phase' = "size_error"
        /\ UNCHANGED <<socket_size, ports>>
     \/ /\ socket_size # 0
        /\ phase' = "kqueue"
        /\ socket_size' = socket_size + 1
        /\ ports' = Empty
  /\ UNCHANGED <<held, open, port_info, first_socket>>
  /\ UNCHANGED <<file, it, state, prev_state, next_state, counts, settings, location, saved, plain>>

\* kqueue_module: the queue, and a READ change for every entry that is its own.
OpenQueue ==
  /\ phase = "kqueue" /\ Descriptors \ open # {}
  /\ phase' = "serving"
  /\ open' = open \cup {LowestFree}
  /\ UNCHANGED <<held, port_info, socket_size, first_socket, vars>>

QueueFails == phase = "kqueue" /\ CloseAndExit(Len(port_info) - 1, "exited")

StartUpNext ==
  \/ Read \/ ConfigRead
  \/ OpenSocket \/ SocketFails \/ SocketsDone
  \/ OpenQueue \/ QueueFails

StartUpSpec == StartUpInit /\ [][StartUpNext]_allVars

-----------------------------------------------------------------------------
(* Properties.                                                               *)

Listening == {fd \in 0 .. Len(port_info) - 1 : port_info[fd + 1].listen_sd = fd}

\* Every port whose turn has come has exactly one socket, found at its own number
\* in port_info, and no number in between passes for a socket (kqueue_module:
\* port_info[i].listen_sd == i): the parser has left no port without a default
\* server, and a program that fails closes them all.
ListenersIndexed ==
  /\ phase # "no_default"
  /\ phase = "exited" => open = held
  /\ phase \in {"sockets", "kqueue"} =>
       /\ open = held \cup Listening
       /\ \A fd, gd \in Listening :
            port_info[fd + 1].my_port = port_info[gd + 1].my_port => fd = gd
       /\ \A i \in DOMAIN port_info :
            \E fd \in Listening : port_info[i].my_port = port_info[fd + 1].my_port

\* Whatever was open when the program started, the number of a client, a file or a
\* pipe is behind the end of port_info, where read_event_handler (ident <
\* port_info.size()) does not take its READ events for connections to accept.
ClientsBeyondListeners ==
  phase = "serving" => \A fd \in Descriptors \ open : fd >= Len(port_info)
=============================================================================
