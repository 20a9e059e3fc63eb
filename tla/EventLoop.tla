----------------------------- MODULE EventLoop -----------------------------
(***************************************************************************)
(* kqueue_module: the one loop that waits for events, hands each to the     *)
(* client object its udata points at, and deletes at the end of a round the  *)
(* clients whose peers are gone.                                            *)
(*                                                                         *)
(* Connection models what one client does with its bytes; here a request is  *)
(* only the descriptors it opens and the changes it asks for, and the        *)
(* subject is the many clients of one loop: descriptor numbers the kernel    *)
(* hands out again as soon as they are closed, changes that wait for the     *)
(* next kevent(), events already reported that wait for their handler, and   *)
(* objects that may be deleted meanwhile.                                    *)
(***************************************************************************)
EXTENDS Naturals, Sequences, FiniteSets

CONSTANTS
  Clients,    \* addresses at which a Client object may live
  Fd,         \* descriptor numbers, listening sockets left out
  NoFd,       \* -1 or 0 in a field
  MaxEvents,  \* MAX_EVENT_LIST: events one kevent() may report
  Requests    \* the requests peers send: a subset of RequestKinds

RequestKinds == {"answer", "page", "program", "feed", "upload"}

ASSUME EventLoopAssumption ==
  /\ NoFd \notin Fd \cup Clients
  /\ MaxEvents \in Nat \ {0}
  /\ Requests \subseteq RequestKinds

Closed == [who |-> "nobody", kind |-> "closed", end |-> "closed"]

VARIABLES
  phase,      \* Client: "none" (no object here), "idle", or what its request waits for
  sock,       \* Client: _client_fd
  body,       \* Client: _res._body_fd, _req._body_fd or _cgi._read_from_cgi_fd
  feed,       \* Client: _cgi._write_to_cgi_fd
  file,       \* kernel: what each number is open on, for whom, and whether the peer is gone
  knotes,     \* kernel: the filters registered, with their udata
  changes,    \* change_list
  batch,      \* events of this round still to be handled
  for_close,  \* clients to be deleted at the end of the round
  pc,         \* "apply", "wait", "handle", "delete"; "undefined" after a use of a deleted client
  calm        \* ghost: no excuse so far (see Disturbed, Wait, ProgramFailed)

client == <<phase, sock, body, feed>>
kernel == <<file, knotes>>
vars   == <<phase, sock, body, feed, file, knotes, changes, batch, for_close, pc, calm>>

Phases == {"none", "idle", "page", "post", "cgi", "upload", "respond"}
Kinds  == {"sock", "page", "pipe", "feed", "upload"}
Ends   == {"open", "fin", "reset"}

Knote  == [f : Fd, flt : {"READ", "WRITE"}, ud : Clients]
Exit   == [f : {NoFd}, flt : {"PROC"}, ud : Clients]
Change == [op : {"ADD", "DELETE"}, k : Knote \cup Exit]
Event  == [k : Knote \cup Exit, flag : {"", "EOF", "ERR"}]
Accept == [k |-> [f |-> NoFd, flt |-> "LISTEN", ud |-> NoFd], flag |-> ""]

OnRead(f, c)  == [f |-> f, flt |-> "READ", ud |-> c]
OnWrite(f, c) == [f |-> f, flt |-> "WRITE", ud |-> c]
OnExit(c)     == [f |-> NoFd, flt |-> "PROC", ud |-> c]
Add(k)        == [op |-> "ADD", k |-> k]
Delete(k)     == [op |-> "DELETE", k |-> k]

Live      == {c \in Clients : phase[c] # "none"}
Free      == {f \in Fd : file[f] = Closed}
Opened(c, kind) == [who |-> c, kind |-> kind, end |-> "open"]

TypeOK ==
  /\ phase \in [Clients -> Phases]
  /\ sock \in [Clients -> Fd \cup {NoFd}]
  /\ body \in [Clients -> Fd \cup {NoFd}]
  /\ feed \in [Clients -> Fd \cup {NoFd}]
  /\ file \in [Fd -> [who : Clients, kind : Kinds, end : Ends] \cup {Closed}]
  /\ knotes \subseteq Knote \cup Exit
  /\ changes \in Seq(Change)
  /\ batch \subseteq Event \cup {Accept}
  /\ for_close \in Seq(Clients)
  /\ pc \in {"apply", "wait", "handle", "delete", "undefined"}
  /\ calm \in BOOLEAN

Init ==
  /\ phase = [c \in Clients |-> "none"]
  /\ sock = [c \in Clients |-> NoFd]
  /\ body = [c \in Clients |-> NoFd]
  /\ feed = [c \in Clients |-> NoFd]
  /\ file = [f \in Fd |-> Closed]
  /\ knotes = {}
  /\ changes = <<>>
  /\ batch = {}
  /\ for_close = <<>>
  /\ pc = "apply"
  /\ calm = TRUE

-----------------------------------------------------------------------------
(* The kernel.  close(2) forgets the number's filters, not the changes that  *)
(* wait for the next kevent() nor the events it has reported.               *)

CloseAll(F) ==
  /\ file' = [f \in Fd |-> IF f \in F THEN Closed ELSE file[f]]
  /\ knotes' = {k \in knotes : k.f \notin F}

\* An event or a change that still says something of the number f.
Mentioned(f, events) ==
  \/ \E e \in events : e # Accept /\ e.k.f = f
  \/ \E i \in DOMAIN changes : changes[i].k.f = f

\* A request under way keeps f in a field, though the descriptor was closed.
Remembered(f, clients) ==
  \E c \in clients : phase[c] \notin {"none", "idle"} /\ f \in {sock[c], body[c], feed[c]}

\* Client c is handed numbers something else in the program still holds on to.
Disturbed(F, c, events) ==
  \E f \in F : Mentioned(f, events) \/ Remembered(f, Clients \ {c})

\* kevent(), the changes: one that cannot be made is reported as an error.  (The
\* error of a program that has already ended would have no effect: left out.)
SameFilter(k, l) == IF k.flt = "PROC" THEN k = l ELSE k.f = l.f /\ k.flt = l.flt

Applies(ch) ==
  CASE ch.op = "DELETE"   -> \E k \in knotes : SameFilter(k, ch.k)
    [] ch.k.flt = "PROC"  -> TRUE
    [] OTHER              -> file[ch.k.f] # Closed

ApplyChange ==
  /\ pc = "apply"
  /\ changes # <<>>
  /\ LET ch    == Head(changes)
         other == {k \in knotes : ~SameFilter(k, ch.k)}
     IN  IF Applies(ch)
         THEN /\ knotes' = IF ch.op = "ADD" THEN other \cup {ch.k} ELSE other
              /\ UNCHANGED batch
         ELSE /\ batch' = batch \cup {[k |-> ch.k, flag |-> "ERR"]}
              /\ UNCHANGED knotes
  /\ changes' = Tail(changes)
  /\ UNCHANGED <<client, file, for_close, pc, calm>>

\* kevent() returns at once when changes failed, and waits when none did.
ChangesApplied ==
  /\ pc = "apply"
  /\ changes = <<>>
  /\ pc' = IF batch = {} THEN "wait" ELSE "handle"
  /\ UNCHANGED <<client, kernel, changes, batch, for_close, calm>>

\* What a filter may report now: the end of the other side certainly, data perhaps.
\* Of programs only failed exits are reported; the others have no effect.
Report(k) ==
  IF k.flt = "PROC" THEN {[k |-> k, flag |-> "EOF"]}
  ELSE LET end == file[k.f].end
       IN  IF end = "reset" \/ (end = "fin" /\ k.flt = "READ")
           THEN {[k |-> k, flag |-> "EOF"]} ELSE {[k |-> k, flag |-> ""]}

Due(k) ==
  /\ k.flt # "PROC"
  /\ \/ file[k.f].kind \in {"page", "upload"}
     \/ [k |-> k, flag |-> "EOF"] \in Report(k)

Wait ==
  /\ pc = "wait"
  /\ \E B \in SUBSET ((UNION {Report(k) : k \in knotes}) \cup {Accept}) :
        /\ B # {}
        /\ Cardinality(B) <= MaxEvents
        /\ Cardinality(B) < MaxEvents => \A k \in knotes : Due(k) => Report(k) \subseteq B
        /\ batch' = B
        /\ knotes' = {k \in knotes : ~(k.flt = "PROC" /\ Report(k) \subseteq B)}
        /\ calm' = (calm /\ Cardinality(B) < MaxEvents)
  /\ pc' = "handle"
  /\ UNCHANGED <<client, file, changes, for_close>>

\* A peer closes its side or resets; a program ends.  Only Wait looks at it.
\* The program waits for its body, so it ends once the loop feeds it.
OtherSideEnds ==
  /\ pc = "wait"
  /\ \E f \in Fd \ Free :
        /\ file[f].end = "open"
        /\ LET c == file[f].who
           IN  \/ /\ file[f].kind = "sock"
                  /\ \E end \in {"fin", "reset"} : file' = [file EXCEPT ![f].end = end]
               \/ /\ file[f].kind = "pipe"
                  /\ phase[c] # "post"
                  /\ file' = [g \in Fd |->
                       IF g = f THEN [file[g] EXCEPT !.end = "fin"]
                       ELSE IF file[g] # Closed /\ file[g].who = c /\ file[g].kind = "feed"
                            THEN [file[g] EXCEPT !.end = "reset"] ELSE file[g]]
  /\ UNCHANGED <<client, knotes, changes, batch, for_close, pc, calm>>

-----------------------------------------------------------------------------
(* The handlers.  Each takes one event out of the batch, in any order.       *)

Handled(e) ==
  /\ pc = "handle"
  /\ e \in batch
  /\ batch' = batch \ {e}

\* The client of e is live and e is a plain, an end or an error event of filter flt.
For(e, flt, flag) ==
  /\ Handled(e)
  /\ e.k.flt = flt
  /\ e.flag = flag

ToLive(e, flt, flag) == For(e, flt, flag) /\ e.k.ud \in Live

\* mutant: a field the request does not use keeps its number
BeginStale(c, ph, b, kind, w, asked) ==
  /\ phase' = [phase EXCEPT ![c] = ph]
  /\ body' = [body EXCEPT ![c] = IF b = NoFd THEN @ ELSE b]
  /\ feed' = [feed EXCEPT ![c] = IF w = NoFd THEN @ ELSE w]
  /\ file' = [g \in Fd |-> IF g = b THEN Opened(c, kind)
                           ELSE IF g = w THEN Opened(c, "feed") ELSE file[g]]
  /\ changes' = asked
  /\ calm' = (calm /\ ~Disturbed({b, w} \ {NoFd}, c, batch'))

\* Client c, its fields reset, waits for ph with b and w open and asks for more.
Begin(c, ph, b, kind, w, asked) ==
  /\ phase' = [phase EXCEPT ![c] = ph]
  /\ body' = [body EXCEPT ![c] = b]
  /\ feed' = [feed EXCEPT ![c] = w]
  /\ file' = [g \in Fd |-> IF g = b THEN Opened(c, kind)
                           ELSE IF g = w THEN Opened(c, "feed") ELSE file[g]]
  /\ changes' = asked
  /\ calm' = (calm /\ ~Disturbed({b, w} \ {NoFd}, c, batch'))

\* req_res_controller_ on a client that has nothing under way.
NextRequest(c, asked) ==
  LET wr == Add(OnWrite(sock[c], c))
  IN  \/ Begin(c, "idle", NoFd, "page", NoFd, asked)
      \/ /\ "answer" \in Requests
         /\ Begin(c, "respond", NoFd, "page", NoFd, Append(asked, wr))
      \/ \E b \in Free :
           \/ /\ "page" \in Requests
              /\ Begin(c, "page", b, "page", NoFd, Append(asked, Add(OnRead(b, c))))
           \/ /\ "program" \in Requests
              /\ Begin(c, "cgi", b, "pipe", NoFd,
                       asked \o <<Add(OnRead(b, c)), Add(OnExit(c))>>)
           \/ /\ "feed" \in Requests
              /\ \E w \in Free \ {b} :
                   \/ Begin(c, "post", b, "pipe", w,
                            asked \o <<Add(OnRead(b, c)), Add(OnExit(c))>>)
                   \/ Begin(c, "cgi", b, "pipe", w,
                            asked \o <<Add(OnRead(b, c)), Add(OnExit(c)), Add(OnWrite(w, c))>>)
           \/ /\ "upload" \in Requests
              /\ \E more \in {<<>>, <<Add(OnRead(sock[c], c))>>} :
                   Begin(c, "upload", b, "upload", NoFd,
                         asked \o <<Add(OnWrite(b, c))>> \o more)

AcceptedUnchecked == Free \cup {NoFd}     \* mutant: accept's -1 is taken for a socket

\* What accept may return, its failure left aside.
Accepted == Free

\* create_client_event: accept fails, or a new object gets the number.
CreateClient ==
  /\ Handled(Accept)
  /\ \/ UNCHANGED <<client, kernel, changes, calm>>
     \/ \E f \in Accepted, c \in Clients \ Live :
          /\ phase' = [phase EXCEPT ![c] = "idle"]
          /\ sock' = [sock EXCEPT ![c] = f]
          /\ file' = [file EXCEPT ![f] = Opened(c, "sock")]
          /\ changes' = Append(changes, Add(OnRead(f, c)))
          /\ calm' = (calm /\ ~Disturbed({f}, c, batch'))
          /\ UNCHANGED <<body, feed, knotes>>
  /\ UNCHANGED <<for_close, pc>>

\* read_to_client_buffer_: the next request, the body of a program, or nothing.
ReadSocket ==
  /\ \E e \in batch :
       LET c == e.k.ud
       IN  /\ ToLive(e, "READ", "")
           /\ e.k.f = sock[c]
           /\ \/ /\ phase[c] = "idle"
                 /\ e.k.f \notin Free
                 /\ NextRequest(c, changes)
              \/ /\ phase[c] = "post"
                 /\ e.k.f \notin Free
                 /\ phase' = [phase EXCEPT ![c] = "cgi"]
                 /\ changes' = Append(changes, Add(OnWrite(feed[c], c)))
                 /\ UNCHANGED <<body, feed, file, calm>>
              \/ UNCHANGED <<phase, body, feed, file, changes, calm>>
  /\ UNCHANGED <<sock, knotes, for_close, pc>>

\* read_to_res_buffer_ and read_to_cgi_buffer_: only the end of a page matters.
ReadBody ==
  /\ \E e \in batch :
       LET c == e.k.ud
       IN  /\ ToLive(e, "READ", "")
           /\ e.k.f # sock[c]
           /\ \/ UNCHANGED <<phase, kernel, changes>>
              \/ /\ phase[c] = "page"
                 /\ e.k.f \notin Free
                 /\ CloseAll({e.k.f})
                 /\ changes' = Append(changes, Add(OnWrite(sock[c], c)))
                 /\ phase' = [phase EXCEPT ![c] = "respond"]
  /\ UNCHANGED <<sock, body, feed, for_close, pc, calm>>

\* write_response_: part of it, or the rest and the request behind it.
WriteSocket ==
  /\ \E e \in batch :
       LET c == e.k.ud
       IN  /\ ToLive(e, "WRITE", "")
           /\ e.k.f = sock[c]
           /\ \/ UNCHANGED <<phase, body, feed, file, changes, calm>>
              \/ /\ phase[c] = "respond"
                 /\ e.k.f \notin Free
                 /\ NextRequest(c, Append(changes, Delete(e.k)))
  /\ UNCHANGED <<sock, knotes, for_close, pc>>

\* write_for_upload_ and write_to_cgi_: part of the body, or the rest of it.
WriteBody ==
  /\ \E e \in batch :
       LET c == e.k.ud
       IN  /\ ToLive(e, "WRITE", "")
           /\ e.k.f # sock[c]
           /\ \/ UNCHANGED <<phase, kernel, changes>>
              \/ /\ e.k.f \notin Free
                 /\ CloseAll({e.k.f})
                 /\ IF phase[c] = "upload" /\ e.k.f = body[c]
                    THEN /\ changes' = changes \o <<Delete(e.k), Add(OnWrite(sock[c], c))>>
                         /\ phase' = [phase EXCEPT ![c] = "respond"]
                    ELSE /\ changes' = Append(changes, Delete(e.k))
                         /\ UNCHANGED phase
  /\ UNCHANGED <<sock, body, feed, for_close, pc, calm>>

HeldSocket(c) == {sock[c]}     \* mutant: disconnect_client_ is not called

\* What disconnect_client_ and the close after it close, by the fields' values.
Held(c) == {sock[c], body[c], feed[c]} \ {NoFd}

\* mutant: the object is deleted while its events wait
DisconnectNow(c) ==
  /\ CloseAll(Held(c))
  /\ phase' = [phase EXCEPT ![c] = "none"]
  /\ UNCHANGED <<sock, body, feed, changes, for_close>>

\* mutant: the object is not put on the list
DisconnectKept(c) ==
  /\ CloseAll(Held(c))
  /\ UNCHANGED <<client, changes, for_close>>

\* disconnect_client_ and the close of the socket; the object stays to the round's end.
Disconnect(c) ==
  /\ CloseAll(Held(c))
  /\ changes' = IF feed[c] = NoFd THEN changes
                ELSE Append(changes, Delete(OnWrite(feed[c], c)))
  /\ for_close' = Append(for_close, c)
  /\ UNCHANGED client

\* kevent_eof_handler on the client's own socket.
SocketEnds ==
  /\ \E e \in batch :
       /\ ToLive(e, "READ", "EOF")
       /\ e.k.f = sock[e.k.ud]
       /\ Disconnect(e.k.ud)
  /\ UNCHANGED <<pc, calm>>

\* kevent_eof_handler on the program's output: an answer unless its header is broken.
PipeEnds ==
  /\ \E e \in batch :
       LET c == e.k.ud
       IN  /\ ToLive(e, "READ", "EOF")
           /\ e.k.f # sock[c]
           /\ CloseAll({e.k.f})
           /\ \/ UNCHANGED <<phase, changes>>
              \/ /\ phase[c] \in {"post", "cgi"}
                 /\ e.k.f \notin Free
                 /\ phase' = [phase EXCEPT ![c] = "respond"]
                 /\ changes' = Append(changes, Add(OnWrite(sock[c], c)))
  /\ UNCHANGED <<sock, body, feed, for_close, pc, calm>>

\* mutant: a socket that can no longer be written disconnects its client
CloseWrittenGone(e) == Disconnect(e.k.ud)

\* kevent_eof_handler, EVFILT_WRITE: the number is closed whosever it is.
CloseWritten(e) == CloseAll({e.k.f}) /\ UNCHANGED <<client, changes, for_close>>

WriteEnds ==
  /\ \E e \in batch : For(e, "WRITE", "EOF") /\ CloseWritten(e)
  /\ UNCHANGED <<pc, calm>>

\* proc_event_wait_pid, exit status 256: a second answer, whatever the client does.
ProgramFailed ==
  /\ \E e \in batch :
       LET c == e.k.ud
       IN  /\ ToLive(e, "PROC", "EOF")
           /\ phase' = [phase EXCEPT ![c] = "respond"]
           /\ changes' = Append(changes, Add(OnWrite(sock[c], c)))
  /\ calm' = FALSE
  /\ UNCHANGED <<sock, body, feed, kernel, for_close, pc>>

\* kevent_error_handler looks at its client unless it was the last to disconnect.
LooksAtClient(e) == ~(for_close # <<>> /\ for_close[Len(for_close)] = e.k.ud)

ChangeFailed ==
  /\ \E e \in batch :
       \/ /\ ToLive(e, "READ", "ERR")
          /\ IF LooksAtClient(e) /\ e.k.f = sock[e.k.ud]
             THEN Disconnect(e.k.ud)
             ELSE UNCHANGED <<client, kernel, changes, for_close>>
       \/ /\ For(e, "WRITE", "ERR")
          /\ UNCHANGED <<client, kernel, changes, for_close>>
  /\ UNCHANGED <<pc, calm>>

\* Any other handler that is given a deleted client.
UseAfterDelete ==
  /\ \E e \in batch :
       /\ \/ For(e, "READ", "") \/ For(e, "WRITE", "")
          \/ For(e, "READ", "EOF") \/ For(e, "PROC", "EOF")
          \/ For(e, "READ", "ERR") /\ LooksAtClient(e)
       /\ e.k.ud \notin Live
  /\ pc' = "undefined"
  /\ UNCHANGED <<client, kernel, changes, for_close, calm>>

EndOfRound ==
  /\ pc = "handle"
  /\ batch = {}
  /\ pc' = "delete"
  /\ UNCHANGED <<client, kernel, changes, batch, for_close, calm>>

\* delete for_close.back(); for_close.pop_back().
DeleteClient ==
  /\ pc = "delete"
  /\ IF for_close = <<>>
     THEN pc' = "apply" /\ UNCHANGED <<client, for_close>>
     ELSE LET c == for_close[Len(for_close)]
          IN  /\ for_close' = SubSeq(for_close, 1, Len(for_close) - 1)
              /\ phase' = [phase EXCEPT ![c] = "none"]
              /\ sock' = [sock EXCEPT ![c] = NoFd]
              /\ body' = [body EXCEPT ![c] = NoFd]
              /\ feed' = [feed EXCEPT ![c] = NoFd]
              /\ pc' = IF c \in Live THEN "delete" ELSE "undefined"
  /\ UNCHANGED <<kernel, changes, batch, calm>>

Loop ==
  \/ ApplyChange \/ ChangesApplied \/ Wait
  \/ CreateClient \/ ReadSocket \/ ReadBody \/ WriteSocket \/ WriteBody
  \/ SocketEnds \/ PipeEnds \/ WriteEnds \/ ProgramFailed \/ ChangeFailed
  \/ UseAfterDelete \/ EndOfRound \/ DeleteClient

Next == Loop \/ OtherSideEnds

Spec     == Init /\ [][Next]_vars
FairSpec == Spec /\ WF_vars(Loop)

-----------------------------------------------------------------------------
(* Properties, while the loop is calm: no number was handed out that pending *)
(* changes, reported events or another client still mention, kevent() never  *)
(* filled its array, and no failed program was reported.                     *)

\* An event other than a failed change or a program's exit reaches a client
\* that still exists, and a number that is closed or that client's own: no
\* handler reads, writes or closes for another client.
EventsMeetTheirOwner ==
  calm => \A e \in batch :
            (e # Accept /\ e.flag # "ERR" /\ e.k.flt # "PROC") =>
              /\ e.k.ud \in Live
              /\ e.k.f \in Free \/ file[e.k.f].who = e.k.ud

\* No client is put twice on the list of those to delete, and all exist.
DeletedOnce ==
  calm => \A i, j \in DOMAIN for_close :
            /\ for_close[i] \in Live
            /\ for_close[i] = for_close[j] => i = j

\* When the loop waits, every client has its socket and is listened to: its
\* peer's end will be noticed.
NobodyForgotten ==
  (calm /\ pc = "wait") =>
     \A c \in Live : /\ sock[c] \notin Free
                     /\ file[sock[c]].who = c
                     /\ OnRead(sock[c], c) \in knotes

\* Every open number is in a field of a client that exists, which will close it.
NoDescriptorLost ==
  calm => \A f \in Fd \ Free :
            /\ file[f].who \in Live
            /\ f \in {sock[file[f].who], body[file[f].who], feed[file[f].who]}

\* A step that handles an event closes nothing that belongs to another client.
ClosesOnlyItsOwn ==
  [][\A e \in batch \ batch' : \A f \in Fd \ Free :
        (calm /\ e # Accept /\ file'[f] = Closed) => file[f].who = e.k.ud]_vars

\* A client whose peer is gone is deleted, unless a use of a deleted client
\* stopped the program first.
GoneClientsAreDeleted ==
  \A c \in Clients :
    (c \in Live /\ sock[c] \notin Free /\ file[sock[c]].end # "open")
      ~> (c \notin Live \/ ~calm \/ pc = "undefined")

=============================================================================
