-------------------------- MODULE EventLoopProofs --------------------------
(***************************************************************************)
(* Theorems about EventLoop, for every number of clients and descriptors.    *)
(*                                                                         *)
(* The invariant says, of every open number, which client it is for and at    *)
(* which stage (FilesKept); of every filter, change and event, that its        *)
(* number is closed or its client's own (FiltersKept); and of the events of    *)
(* one round, which must still be there together (EndsTogether, Listened).    *)
(***************************************************************************)
EXTENDS EventLoop, TLAPS

Pending == {changes[i] : i \in DOMAIN changes}
Leaving == {for_close[i] : i \in DOMAIN for_close}

\* The events that say something of a descriptor.
Told == {e \in batch : e # Accept /\ e.flag # "ERR" /\ e.k.flt # "PROC"}

EndRead(f, c)  == [k |-> OnRead(f, c), flag |-> "EOF"]
EndWrite(f, c) == [k |-> OnWrite(f, c), flag |-> "EOF"]

Is(f, kind)  == file[f] # Closed /\ file[f].kind = kind
Feeds(f, c)  == Is(f, "feed") /\ file[f].who = c

Fits(flt, f) ==
  IF flt = "READ" THEN file[f].kind \in {"sock", "page", "pipe"}
  ELSE file[f].kind \in {"sock", "feed", "upload"}

\* What k filters is closed, or its client's and of a kind it is for.
Ours(k) == file[k.f] = Closed \/ (file[k.f].who = k.ud /\ Fits(k.flt, k.f))

-----------------------------------------------------------------------------
(* What holds of every state, calm or not.                                   *)

FieldsKnown ==
  /\ \A c \in Clients : phase[c] # "none" => sock[c] \in Fd
  /\ \A c \in Clients : phase[c] = "none" => sock[c] = NoFd
  /\ \A c \in Clients : phase[c] \in {"none", "idle"} => body[c] = NoFd /\ feed[c] = NoFd
  /\ \A c \in Clients : phase[c] = "post" => feed[c] \in Fd
  /\ \A c \in Clients : feed[c] # NoFd => feed[c] \notin {sock[c], body[c]}

RoundKnown ==
  /\ pc \in {"apply", "wait"} => for_close = <<>>
  /\ pc = "wait" => batch = {} /\ changes = <<>>
  /\ pc = "delete" => batch = {}
  /\ pc = "apply" => \A e \in batch : e.flag = "ERR"
  /\ \A d, e \in batch : d.flag = "ERR" => e.flag = "ERR"
  /\ \A d, e \in Told : d.k = e.k => d = e
  /\ \A ch \in Pending : ch.op = "DELETE" => ch.k.flt = "WRITE"

Shaped == TypeOK /\ FieldsKnown /\ RoundKnown

-----------------------------------------------------------------------------
(* What holds as long as the loop is calm.                                   *)

\* Every open number is in the field for its kind, of a client that stays and is
\* at a stage that needs it; the loop will feed a program it has begun to feed.
FilesKept ==
  \A f \in Fd \ Free :
    LET c == file[f].who
    IN  /\ c \in Live \ Leaving
        /\ Is(f, "sock")   => f = sock[c]
        /\ Is(f, "page")   => f = body[c] /\ phase[c] = "page"
        /\ Is(f, "upload") => f = body[c] /\ phase[c] = "upload"
        /\ Is(f, "pipe")   => f = body[c] /\ phase[c] \in {"post", "cgi"}
        /\ Is(f, "feed")   => f = feed[c] /\ phase[c] \in {"post", "cgi", "respond"}
        /\ Is(f, "feed") /\ phase[c] = "respond" => EndWrite(f, c) \in batch
        /\ Is(f, "feed") /\ phase[c] = "cgi" =>
             OnWrite(f, c) \in knotes \/ Add(OnWrite(f, c)) \in Pending

\* A filter, a change or an event speaks of a closed number or of its own client's.
FiltersKept ==
  /\ \A k \in knotes : k.flt # "PROC" => file[k.f] # Closed /\ Ours(k)
  /\ \A ch \in Pending : ch.k.flt # "PROC" => Ours(ch.k)
  /\ \A ch \in Pending : ch.op = "DELETE" => file[ch.k.f] = Closed \/ Is(ch.k.f, "sock")
  /\ \A e \in Told : e.k.ud \in Live /\ Ours(e.k)

\* No field of a client that stays holds the number of another's descriptor.
FieldsOwn ==
  \A c \in Live \ Leaving : \A f \in Held(c) : file[f] = Closed \/ file[f].who = c

\* A client that stays is listened to, or has its peer's end in this round.
Listened ==
  \A c \in Live \ Leaving :
    \/ EndRead(sock[c], c) \in batch
    \/ /\ Is(sock[c], "sock") /\ file[sock[c]].who = c
       /\ OnRead(sock[c], c) \in knotes \/ Add(OnRead(sock[c], c)) \in Pending

LeavingOnce ==
  /\ \A i, j \in DOMAIN for_close : for_close[i] \in Live /\ (for_close[i] = for_close[j] => i = j)
  /\ \A c \in Leaving : \A e \in batch : e # Accept /\ e.k = OnRead(sock[c], c) => e.flag = ""

\* The end of a socket is told to both its filters in one round, and the end of a
\* program to its output and its input; it ends only once it is fed.
EndsTogether ==
  /\ \A e \in Told : (e.flag = "EOF" /\ e.k.flt = "WRITE" /\ Is(e.k.f, "sock")) =>
        EndRead(e.k.f, e.k.ud) \in batch
  /\ \A e \in Told : (e.flag = "EOF" /\ e.k.flt = "READ" /\ Is(e.k.f, "pipe")) =>
        /\ phase[e.k.ud] = "cgi"
        /\ \A f \in Fd : Feeds(f, e.k.ud) => EndWrite(f, e.k.ud) \in batch
  /\ \A f \in Fd : (Is(f, "pipe") /\ file[f].end # "open") =>
        /\ phase[file[f].who] # "post"
        /\ \A g \in Fd : Feeds(g, file[f].who) => file[g].end = "reset"

\* With the filters K and the changes s still to be made, k will not be among them.
Gone(k, K, s) ==
  \/ k \notin K /\ \A i \in DOMAIN s : s[i] # Add(k)
  \/ \E j \in DOMAIN s : s[j] = Delete(k) /\ \A i \in DOMAIN s : i > j => s[i] # Add(k)

\* The socket is written for a response only, and nothing else is open by then.
WritesResponses ==
  /\ \A c \in Live : (phase[c] # "respond" /\ Is(sock[c], "sock") /\ file[sock[c]].who = c) =>
        Gone(OnWrite(sock[c], c), knotes, changes)
  /\ \A e \in Told : (e.k.flt = "WRITE" /\ Is(e.k.f, "sock")) =>
       /\ phase[e.k.ud] = "respond"
       /\ \A f \in Fd : ~Feeds(f, e.k.ud)

CalmInv ==
  /\ FilesKept /\ FiltersKept /\ FieldsOwn /\ Listened
  /\ LeavingOnce /\ EndsTogether /\ WritesResponses

IInv == Shaped /\ (calm => CalmInv)

-----------------------------------------------------------------------------
(* Filters, changes and events as records; what is asked of the kernel.      *)

LEMMA Records ==
  /\ \A k \in Knote \cup Exit : k.flt # "PROC" =>
       k \in Knote /\ k.f \in Fd /\ k.ud \in Clients /\ k.flt \in {"READ", "WRITE"}
  /\ \A k \in Knote : k.flt = "READ" => k = OnRead(k.f, k.ud)
  /\ \A k \in Knote : k.flt = "WRITE" => k = OnWrite(k.f, k.ud)
  /\ \A k \in Exit : k.flt = "PROC" /\ k.f = NoFd
  /\ \A e \in Event : e # Accept /\ e = [k |-> e.k, flag |-> e.flag] /\ e.k \in Knote \cup Exit
  /\ \A ch \in Change : ch = [op |-> ch.op, k |-> ch.k] /\ ch.k \in Knote \cup Exit
<1>1. \A k \in Knote \cup Exit : k.flt # "PROC" =>
        k \in Knote /\ k.f \in Fd /\ k.ud \in Clients /\ k.flt \in {"READ", "WRITE"}
  BY DEF Knote, Exit
<1>2. \A k \in Knote : k.flt = "READ" => k = OnRead(k.f, k.ud)
  BY DEF Knote, OnRead
<1>3. \A k \in Knote : k.flt = "WRITE" => k = OnWrite(k.f, k.ud)
  BY DEF Knote, OnWrite
<1>4. \A k \in Exit : k.flt = "PROC" /\ k.f = NoFd
  BY DEF Exit
<1>5. ASSUME NEW e \in Event
      PROVE  e # Accept /\ e = [k |-> e.k, flag |-> e.flag] /\ e.k \in Knote \cup Exit
  <2>1. e = [k |-> e.k, flag |-> e.flag] /\ e.k \in Knote \cup Exit
    BY DEF Event
  <2>2. e.k.flt # "LISTEN"
    BY <2>1 DEF Knote, Exit
  <2>3. Accept.k.flt = "LISTEN"
    BY DEF Accept
  <2>. QED
    BY <2>1, <2>2, <2>3, Zenon
<1>6. \A ch \in Change : ch = [op |-> ch.op, k |-> ch.k] /\ ch.k \in Knote \cup Exit
  BY DEF Change
<1>. QED
  BY <1>1, <1>2, <1>3, <1>4, <1>5, <1>6

LEMMA Asked ==
  ASSUME NEW c \in Clients, NEW f \in Fd
  PROVE  /\ OnRead(f, c) \in Knote /\ OnWrite(f, c) \in Knote /\ OnExit(c) \in Exit
         /\ Add(OnRead(f, c)) \in Change /\ Add(OnWrite(f, c)) \in Change
         /\ Add(OnExit(c)) \in Change /\ Delete(OnWrite(f, c)) \in Change
<1>1. OnRead(f, c) \in Knote /\ OnWrite(f, c) \in Knote /\ OnExit(c) \in Exit
  BY DEF OnRead, OnWrite, OnExit, Knote, Exit
<1>. QED
  BY <1>1 DEF Add, Delete, Change

\* Changes are asked for behind those that wait.
LEMMA PendingAppend ==
  ASSUME changes \in Seq(Change), NEW s \in Seq(Change), changes' = changes \o s
  PROVE  /\ changes' \in Seq(Change)
         /\ Pending' = Pending \cup {s[i] : i \in DOMAIN s}
<1>1. /\ changes' \in Seq(Change)
      /\ DOMAIN changes' = 1 .. Len(changes) + Len(s)
      /\ \A i \in 1 .. Len(changes) : changes'[i] = changes[i]
      /\ \A i \in 1 .. Len(s) : changes'[Len(changes) + i] = s[i]
  OBVIOUS
<1>2. ASSUME NEW i \in DOMAIN changes' PROVE changes'[i] \in Pending \cup {s[j] : j \in DOMAIN s}
  <2>1. CASE i <= Len(changes)
    BY <1>1, <2>1 DEF Pending
  <2>2. CASE i > Len(changes)
    <3>1. i - Len(changes) \in 1 .. Len(s) /\ i = Len(changes) + (i - Len(changes))
      BY <1>1, <2>2
    <3>. QED
      BY <1>1, <3>1
  <2>. QED
    BY <1>1, <2>1, <2>2
<1>3. \A i \in DOMAIN changes : changes[i] \in Pending'
  BY <1>1 DEF Pending
<1>4. ASSUME NEW i \in DOMAIN s PROVE s[i] \in Pending'
  <2>1. Len(changes) + i \in DOMAIN changes' /\ changes'[Len(changes) + i] = s[i]
    BY <1>1
  <2>. QED
    BY <2>1 DEF Pending
<1>5. Pending' = {changes'[i] : i \in DOMAIN changes'}
  BY DEF Pending
<1>6. Pending' \subseteq Pending \cup {s[i] : i \in DOMAIN s}
  BY <1>2, <1>5
<1>7. Pending \cup {s[i] : i \in DOMAIN s} \subseteq Pending'
  <2>1. Pending \subseteq Pending'
    BY <1>3, Zenon DEF Pending
  <2>. QED
    BY <1>4, <2>1
<1>. QED
  BY <1>1, <1>6, <1>7

LEMMA PendingOne ==
  ASSUME changes \in Seq(Change), NEW ch \in Change, changes' = Append(changes, ch)
  PROVE  changes' \in Seq(Change) /\ Pending' = Pending \cup {ch}
<1>1. <<ch>> \in Seq(Change) /\ changes' = changes \o <<ch>>
  OBVIOUS
<1>2. {<<ch>>[i] : i \in DOMAIN <<ch>>} = {ch}
  OBVIOUS
<1>. QED
  BY <1>1, <1>2, PendingAppend

-----------------------------------------------------------------------------
(* What a request opens and asks for.                                        *)

Fresh(c, ph, b, kind, w, s) ==
  /\ s \in Seq(Change)
  /\ \/ ph \in {"idle", "respond"} /\ b = NoFd /\ w = NoFd
     \/ ph \in {"page", "upload"} /\ kind = ph /\ b \in Free /\ w = NoFd
     \/ /\ ph \in {"post", "cgi"} /\ kind = "pipe" /\ b \in Free
        /\ w \in (Free \ {b}) \cup {NoFd} /\ (ph = "post" => w # NoFd)
  /\ \A i \in DOMAIN s :
       \/ s[i] \in {Add(OnExit(c)), Add(OnRead(sock[c], c))}
       \/ s[i] = Add(OnWrite(sock[c], c)) /\ ph = "respond"
       \/ s[i] = Add(OnRead(b, c)) /\ b \in Free /\ kind \in {"page", "pipe"}
       \/ s[i] = Add(OnWrite(b, c)) /\ b \in Free /\ kind = "upload"
       \/ s[i] = Add(OnWrite(w, c)) /\ w \in Free
  /\ (ph = "cgi" /\ w # NoFd) => \E i \in DOMAIN s : s[i] = Add(OnWrite(w, c))

LEMMA Requested ==
  ASSUME NEW c \in Clients, sock[c] \in Fd, NEW asked \in Seq(Change), NextRequest(c, asked)
  PROVE  \E ph, b, kind, w, s : /\ Begin(c, ph, b, kind, w, asked \o s)
                                /\ Fresh(c, ph, b, kind, w, s)
<1>. DEFINE wr == Add(OnWrite(sock[c], c))
            rd == Add(OnRead(sock[c], c))
            ex == Add(OnExit(c))
<1>1. wr \in Change /\ rd \in Change /\ ex \in Change
  BY Asked
<1>2. \A f \in Free : Add(OnRead(f, c)) \in Change /\ Add(OnWrite(f, c)) \in Change
  BY Asked DEF Free
<1>3. NoFd \notin Free
  BY EventLoopAssumption DEF Free
<1>4. CASE Begin(c, "idle", NoFd, "page", NoFd, asked)
  <2>1. asked = asked \o <<>> /\ <<>> \in Seq(Change)
    OBVIOUS
  <2>2. Begin(c, "idle", NoFd, "page", NoFd, asked \o <<>>)
    BY <1>4, <2>1
  <2>3. Fresh(c, "idle", NoFd, "page", NoFd, <<>>)
    BY <2>1 DEF Fresh
  <2>. QED
    BY <2>2, <2>3
<1>5. CASE Begin(c, "respond", NoFd, "page", NoFd, Append(asked, wr))
  <2>1. Append(asked, wr) = asked \o <<wr>> /\ <<wr>> \in Seq(Change)
    BY <1>1
  <2>2. Begin(c, "respond", NoFd, "page", NoFd, asked \o <<wr>>)
    BY <1>5, <2>1
  <2>3. Fresh(c, "respond", NoFd, "page", NoFd, <<wr>>)
    BY <2>1 DEF Fresh
  <2>. QED
    BY <2>2, <2>3
<1>6. ASSUME NEW b \in Free, Begin(c, "page", b, "page", NoFd, Append(asked, Add(OnRead(b, c))))
      PROVE  \E ph, bb, kind, w, s : Begin(c, ph, bb, kind, w, asked \o s) /\ Fresh(c, ph, bb, kind, w, s)
  <2>. DEFINE s == <<Add(OnRead(b, c))>>
  <2>1. Append(asked, Add(OnRead(b, c))) = asked \o s /\ s \in Seq(Change)
    BY <1>2
  <2>2. Begin(c, "page", b, "page", NoFd, asked \o s)
    BY <1>6, <2>1
  <2>3. Fresh(c, "page", b, "page", NoFd, s)
    BY <2>1 DEF Fresh
  <2>. QED
    BY <2>2, <2>3
<1>7. ASSUME NEW b \in Free, Begin(c, "cgi", b, "pipe", NoFd, asked \o <<Add(OnRead(b, c)), ex>>)
      PROVE  \E ph, bb, kind, w, s : Begin(c, ph, bb, kind, w, asked \o s) /\ Fresh(c, ph, bb, kind, w, s)
  <2>. DEFINE s == <<Add(OnRead(b, c)), ex>>
  <2>1. s \in Seq(Change)
    BY <1>1, <1>2
  <2>2. Fresh(c, "cgi", b, "pipe", NoFd, s)
    BY <2>1 DEF Fresh
  <2>. QED
    BY <1>7, <2>2
<1>8. ASSUME NEW b \in Free, NEW w \in Free \ {b},
             Begin(c, "post", b, "pipe", w, asked \o <<Add(OnRead(b, c)), ex>>)
      PROVE  \E ph, bb, kind, ww, s : Begin(c, ph, bb, kind, ww, asked \o s) /\ Fresh(c, ph, bb, kind, ww, s)
  <2>. DEFINE s == <<Add(OnRead(b, c)), ex>>
  <2>1. s \in Seq(Change)
    BY <1>1, <1>2
  <2>2. Fresh(c, "post", b, "pipe", w, s)
    BY <1>3, <2>1 DEF Fresh
  <2>. QED
    BY <1>8, <2>2
<1>9. ASSUME NEW b \in Free, NEW w \in Free \ {b},
             Begin(c, "cgi", b, "pipe", w, asked \o <<Add(OnRead(b, c)), ex, Add(OnWrite(w, c))>>)
      PROVE  \E ph, bb, kind, ww, s : Begin(c, ph, bb, kind, ww, asked \o s) /\ Fresh(c, ph, bb, kind, ww, s)
  <2>. DEFINE s == <<Add(OnRead(b, c)), ex, Add(OnWrite(w, c))>>
  <2>1. s \in Seq(Change) /\ 3 \in DOMAIN s /\ s[3] = Add(OnWrite(w, c))
    BY <1>1, <1>2
  <2>2. Fresh(c, "cgi", b, "pipe", w, s)
    BY <1>3, <2>1 DEF Fresh
  <2>. QED
    BY <1>9, <2>2
<1>10. ASSUME NEW b \in Free, NEW more \in {<<>>, <<rd>>},
              Begin(c, "upload", b, "upload", NoFd, asked \o <<Add(OnWrite(b, c))>> \o more)
       PROVE  \E ph, bb, kind, w, s : Begin(c, ph, bb, kind, w, asked \o s) /\ Fresh(c, ph, bb, kind, w, s)
  <2>. DEFINE x == Add(OnWrite(b, c))
  <2>1. CASE more = <<>>
    <3>1. asked \o <<x>> \o more = asked \o <<x>> /\ <<x>> \in Seq(Change)
      BY <1>2, <2>1
    <3>2. Fresh(c, "upload", b, "upload", NoFd, <<x>>)
      BY <3>1 DEF Fresh
    <3>. QED
      BY <1>10, <3>1, <3>2
  <2>2. CASE more = <<rd>>
    <3>1. asked \o <<x>> \o more = asked \o <<x, rd>> /\ <<x, rd>> \in Seq(Change)
      BY <1>1, <1>2, <2>2
    <3>2. Fresh(c, "upload", b, "upload", NoFd, <<x, rd>>)
      BY <3>1 DEF Fresh
    <3>. QED
      BY <1>10, <3>1, <3>2
  <2>. QED
    BY <2>1, <2>2
<1>. QED
  BY <1>4, <1>5, <1>6, <1>7, <1>8, <1>9, <1>10 DEF NextRequest

-----------------------------------------------------------------------------
(* The shape of a state is kept.                                             *)

File == [who : Clients, kind : Kinds, end : Ends] \cup {Closed}

LEMMA HandlerShape ==
  ASSUME Shaped, pc = "handle", batch' \subseteq batch, pc' \in {"handle", "undefined"},
         phase' \in [Clients -> Phases], sock' \in [Clients -> Fd \cup {NoFd}],
         body' \in [Clients -> Fd \cup {NoFd}], feed' \in [Clients -> Fd \cup {NoFd}],
         file' \in [Fd -> File], knotes' \subseteq knotes, changes' \in Seq(Change),
         \A ch \in Pending' \ Pending : ch.op = "DELETE" => ch.k.flt = "WRITE",
         for_close' \in Seq(Clients), calm' \in BOOLEAN, FieldsKnown'
  PROVE  Shaped'
<1>1. TypeOK'
  BY DEF Shaped, TypeOK, File
<1>2. Told' \subseteq Told
  BY DEF Told
<1>3. RoundKnown'
  BY <1>2 DEF Shaped, RoundKnown
<1>. QED
  BY <1>1, <1>3 DEF Shaped

\* A live client has its socket's number in its field.
LEMMA LiveSocket ==
  ASSUME Shaped, NEW c \in Live
  PROVE  c \in Clients /\ sock[c] \in Fd /\ phase[c] # "none" /\ NoFd \notin Fd
  BY EventLoopAssumption DEF Live, Shaped, FieldsKnown

\* The event a handler has taken: what its filter is.
LEMMA Taken ==
  ASSUME Shaped, NEW e, NEW flt \in {"READ", "WRITE"}, NEW flag, For(e, flt, flag)
  PROVE  /\ pc = "handle" /\ e \in batch /\ batch' = batch \ {e}
         /\ e \in Event /\ e # Accept /\ e.k.flt = flt /\ e.flag = flag
         /\ e.k \in Knote /\ e.k.f \in Fd /\ e.k.ud \in Clients
         /\ flt = "READ" => e.k = OnRead(e.k.f, e.k.ud)
         /\ flt = "WRITE" => e.k = OnWrite(e.k.f, e.k.ud)
         /\ flag # "ERR" => e \in Told
<1>1. pc = "handle" /\ e \in batch /\ batch' = batch \ {e} /\ e.k.flt = flt /\ e.flag = flag
  BY DEF For, Handled
<1>2. e # Accept
  <2>1. Accept.k.flt = "LISTEN"
    BY DEF Accept
  <2>. QED
    BY <1>1, <2>1
<1>3. e \in Event
  BY <1>1, <1>2 DEF Shaped, TypeOK
<1>4. e.k \in Knote /\ e.k.f \in Fd /\ e.k.ud \in Clients
  BY <1>1, <1>3, Records
<1>. QED
  BY <1>1, <1>2, <1>3, <1>4, Records DEF Told

LEMMA ClosedShape ==
  ASSUME Shaped, NEW F, CloseAll(F)
  PROVE  file' \in [Fd -> File] /\ knotes' \subseteq knotes
  BY DEF CloseAll, Shaped, TypeOK, File

LEMMA BeginShape ==
  ASSUME Shaped, NEW c \in Live, NEW asked \in Seq(Change), pc = "handle", pc' = "handle",
         batch' \subseteq batch, UNCHANGED <<sock, knotes, for_close>>, NextRequest(c, asked),
         sock[c] \notin Free,
         \A i \in DOMAIN asked : asked[i] \in Pending \cup {Delete(OnWrite(sock[c], c))}
  PROVE  Shaped'
<1>1. PICK ph, b, kind, w, s : Begin(c, ph, b, kind, w, asked \o s) /\ Fresh(c, ph, b, kind, w, s)
  BY Requested, LiveSocket
<1>2. /\ phase' = [phase EXCEPT ![c] = ph] /\ body' = [body EXCEPT ![c] = b]
      /\ feed' = [feed EXCEPT ![c] = w] /\ changes' = asked \o s
      /\ file' = [g \in Fd |-> IF g = b THEN Opened(c, kind)
                               ELSE IF g = w THEN Opened(c, "feed") ELSE file[g]]
  BY <1>1 DEF Begin
<1>3. calm' \in BOOLEAN
  BY <1>1, Zenon DEF Begin
<1>4. c \in Clients /\ s \in Seq(Change)
  BY <1>1, LiveSocket DEF Fresh
<1>5. /\ ph \in Phases \ {"none"} /\ b \in Fd \cup {NoFd} /\ w \in Fd \cup {NoFd}
      /\ ph = "idle" => b = NoFd /\ w = NoFd
      /\ ph = "post" => w \in Fd
      /\ b \in Fd => kind \in Kinds
      /\ w # NoFd => w \notin {sock[c], b}
  BY <1>1, LiveSocket, EventLoopAssumption DEF Fresh, Phases, Kinds, Free
<1>6. phase' \in [Clients -> Phases] /\ body' \in [Clients -> Fd \cup {NoFd}]
      /\ feed' \in [Clients -> Fd \cup {NoFd}]
  BY <1>2, <1>4, <1>5 DEF Shaped, TypeOK
<1>7. file' \in [Fd -> File]
  <2>1. Opened(c, "feed") \in File /\ (b \in Fd => Opened(c, kind) \in File)
    BY <1>4, <1>5 DEF Opened, File, Kinds, Ends
  <2>. QED
    BY <1>2, <2>1 DEF Shaped, TypeOK, File
<1>8. changes' \in Seq(Change)
  BY <1>2, <1>4
<1>9. \A ch \in Pending' \ Pending : ch.op = "DELETE" => ch.k.flt = "WRITE"
  <2>1. \A i \in DOMAIN s : s[i].op = "ADD"
    BY <1>1 DEF Fresh, Add
  <2>2. Delete(OnWrite(sock[c], c)).k.flt = "WRITE"
    BY DEF Delete, OnWrite
  <2>3. ASSUME NEW i \in DOMAIN changes'
        PROVE  changes'[i] \in {asked[j] : j \in DOMAIN asked} \cup {s[j] : j \in DOMAIN s}
    <3>1. i \in 1 .. Len(asked) + Len(s)
      BY <1>2, <1>4
    <3>2. CASE i <= Len(asked)
      BY <1>2, <1>4, <3>1, <3>2
    <3>3. CASE i > Len(asked)
      <4>1. i - Len(asked) \in DOMAIN s /\ changes'[i] = s[i - Len(asked)]
        BY <1>2, <1>4, <3>1, <3>3
      <4>. QED
        BY <4>1
    <3>. QED
      BY <3>1, <3>2, <3>3
  <2>. QED
    BY <2>1, <2>2, <2>3 DEF Pending
<1>10. FieldsKnown'
  <2>1. sock[c] \in Fd
    BY LiveSocket
  <2>2. phase'[c] = ph /\ body'[c] = b /\ feed'[c] = w
    BY <1>2, <1>4 DEF Shaped, TypeOK
  <2>3. \A d \in Clients \ {c} : phase'[d] = phase[d] /\ body'[d] = body[d] /\ feed'[d] = feed[d]
    BY <1>2, <1>4 DEF Shaped, TypeOK
  <2>. QED
    BY <1>5, <2>1, <2>2, <2>3 DEF Shaped, FieldsKnown
<1>. QED
  BY <1>3, <1>6, <1>7, <1>8, <1>9, <1>10, HandlerShape DEF Shaped, TypeOK

\* A handler that only moves a client on and asks for changes.
LEMMA MovedShape ==
  ASSUME Shaped, pc = "handle", batch' \subseteq batch, pc' \in {"handle", "undefined"},
         UNCHANGED <<sock, body, feed>>,
         NEW c \in Live, phase' = phase \/ \E ph \in {"cgi", "respond"} : phase' = [phase EXCEPT ![c] = ph],
         NEW s \in Seq(Change), changes' = changes \o s,
         \A i \in DOMAIN s : s[i].op = "DELETE" => s[i].k.flt = "WRITE",
         file' \in [Fd -> File], knotes' \subseteq knotes,
         for_close' \in Seq(Clients), calm' \in BOOLEAN
  PROVE  Shaped'
<1>1. c \in Clients /\ phase[c] \notin {"none"} /\ sock[c] \in Fd
  BY LiveSocket
<1>2. changes' \in Seq(Change) /\ Pending' = Pending \cup {s[i] : i \in DOMAIN s}
  BY PendingAppend DEF Shaped, TypeOK
<1>3. phase' \in [Clients -> Phases]
  BY <1>1 DEF Shaped, TypeOK, Phases
<1>4. FieldsKnown'
  <2>1. CASE phase' = phase
    BY <2>1 DEF Shaped, FieldsKnown
  <2>2. ASSUME NEW ph \in {"cgi", "respond"}, phase' = [phase EXCEPT ![c] = ph] PROVE FieldsKnown'
    <3>1. phase'[c] = ph /\ \A d \in Clients \ {c} : phase'[d] = phase[d]
      BY <2>2, <1>1 DEF Shaped, TypeOK
    <3>. QED
      BY <3>1, <1>1 DEF Shaped, FieldsKnown
  <2>. QED
    BY <2>1, <2>2
<1>5. \A ch \in Pending' \ Pending : ch.op = "DELETE" => ch.k.flt = "WRITE"
  BY <1>2
<1>. QED
  BY <1>2, <1>3, <1>4, <1>5, HandlerShape DEF Shaped, TypeOK

\* A handler that does nothing more.
LEMMA QuietShape ==
  ASSUME Shaped, pc = "handle", batch' \subseteq batch, pc' \in {"handle", "undefined"},
         UNCHANGED <<client, kernel, changes, for_close>>, calm' \in BOOLEAN
  PROVE  Shaped'
<1>1. UNCHANGED <<phase, sock, body, feed, file, knotes, changes, for_close>>
  BY DEF client, kernel
<1>2. FieldsKnown' /\ Pending' = Pending
  BY <1>1 DEF Shaped, FieldsKnown, Pending
<1>. QED
  BY <1>1, <1>2, HandlerShape DEF Shaped, TypeOK, File

\* What is appended is one change, two or none.
LEMMA Appended ==
  ASSUME changes \in Seq(Change)
  PROVE  /\ changes = changes \o <<>> /\ <<>> \in Seq(Change)
         /\ \A ch \in Change : Append(changes, ch) = changes \o <<ch>> /\ <<ch>> \in Seq(Change)
         /\ \A ch, di \in Change : <<ch, di>> \in Seq(Change)
  OBVIOUS

\* Changes asked for by a handler other than NextRequest: the kinds they may have.
Extended ==
  \E s \in Seq(Change) : /\ changes' = changes \o s
                         /\ \A i \in DOMAIN s : s[i].op = "DELETE" => s[i].k.flt = "WRITE"

LEMMA ExtendedByNone ==
  ASSUME changes \in Seq(Change), UNCHANGED changes
  PROVE  Extended
<1>. DEFINE s == <<>>
<1>1. changes' = changes \o s /\ s \in Seq(Change)
  BY Appended
<1>2. \A i \in DOMAIN s : s[i].op = "DELETE" => s[i].k.flt = "WRITE"
  OBVIOUS
<1>. HIDE DEF s
<1>. QED
  BY <1>1, <1>2 DEF Extended

LEMMA ExtendedByOne ==
  ASSUME changes \in Seq(Change), NEW ch \in Change, ch.op = "DELETE" => ch.k.flt = "WRITE",
         changes' = Append(changes, ch)
  PROVE  Extended
<1>. DEFINE s == <<ch>>
<1>1. changes' = changes \o s /\ s \in Seq(Change)
  BY Appended
<1>2. \A i \in DOMAIN s : s[i].op = "DELETE" => s[i].k.flt = "WRITE"
  OBVIOUS
<1>. HIDE DEF s
<1>. QED
  BY <1>1, <1>2 DEF Extended

LEMMA ExtendedByTwo ==
  ASSUME changes \in Seq(Change), NEW ch \in Change, NEW di \in Change,
         ch.op = "DELETE" => ch.k.flt = "WRITE", di.op = "DELETE" => di.k.flt = "WRITE",
         changes' = changes \o <<ch, di>>
  PROVE  Extended
<1>. DEFINE s == <<ch, di>>
<1>1. changes' = changes \o s /\ s \in Seq(Change)
  BY Appended
<1>2. \A i \in DOMAIN s : s[i].op = "DELETE" => s[i].k.flt = "WRITE"
  OBVIOUS
<1>. HIDE DEF s
<1>. QED
  BY <1>1, <1>2 DEF Extended

LEMMA DisconnectShape ==
  ASSUME Shaped, NEW c \in Live, pc = "handle", batch' \subseteq batch, Disconnect(c),
         UNCHANGED <<pc, calm>>
  PROVE  Shaped'
<1>1. UNCHANGED <<phase, sock, body, feed>> /\ for_close' \in Seq(Clients)
  BY LiveSocket DEF Disconnect, client, Shaped, TypeOK
<1>2. file' \in [Fd -> File] /\ knotes' \subseteq knotes
  BY ClosedShape DEF Disconnect
<1>3. Extended
  <2>1. CASE feed[c] = NoFd
    BY <2>1, ExtendedByNone DEF Disconnect, Shaped, TypeOK
  <2>2. CASE feed[c] # NoFd
    <3>1. Delete(OnWrite(feed[c], c)) \in Change
      BY <2>2, LiveSocket, Asked DEF Shaped, TypeOK
    <3>2. Delete(OnWrite(feed[c], c)).k.flt = "WRITE"
      BY DEF Delete, OnWrite
    <3>. QED
      BY <2>2, <3>1, <3>2, ExtendedByOne DEF Disconnect, Shaped, TypeOK
  <2>. QED
    BY <2>1, <2>2
<1>. QED
  BY <1>1, <1>2, <1>3, MovedShape DEF Extended, Shaped, TypeOK

LEMMA HandlersShaped ==
  Shaped /\ (CreateClient \/ ReadSocket \/ ReadBody \/ WriteSocket \/ WriteBody \/ SocketEnds
             \/ PipeEnds \/ WriteEnds \/ ProgramFailed \/ ChangeFailed \/ UseAfterDelete) => Shaped'
<1>. SUFFICES ASSUME Shaped PROVE
       (CreateClient \/ ReadSocket \/ ReadBody \/ WriteSocket \/ WriteBody \/ SocketEnds
        \/ PipeEnds \/ WriteEnds \/ ProgramFailed \/ ChangeFailed \/ UseAfterDelete) => Shaped'
  OBVIOUS
<1>. calm \in BOOLEAN /\ changes \in Seq(Change) /\ for_close \in Seq(Clients) /\ file \in [Fd -> File]
  BY DEF Shaped, TypeOK, File
<1>1. ASSUME CreateClient PROVE Shaped'
  <2>1. pc = "handle" /\ pc' = pc /\ batch' \subseteq batch /\ UNCHANGED for_close
    BY <1>1 DEF CreateClient, Handled
  <2>2. CASE UNCHANGED <<client, kernel, changes, calm>>
    BY <2>1, <2>2, QuietShape
  <2>3. ASSUME NEW f \in Free, NEW c \in Clients \ Live,
               phase' = [phase EXCEPT ![c] = "idle"], sock' = [sock EXCEPT ![c] = f],
               file' = [file EXCEPT ![f] = Opened(c, "sock")],
               changes' = Append(changes, Add(OnRead(f, c))),
               calm' = (calm /\ ~Disturbed({f}, c, batch')), UNCHANGED <<body, feed, knotes>>
        PROVE  Shaped'
    <3>1. f \in Fd /\ phase[c] = "none"
      BY DEF Free, Live
    <3>2. phase' \in [Clients -> Phases] /\ sock' \in [Clients -> Fd \cup {NoFd}]
      BY <2>3, <3>1 DEF Shaped, TypeOK, Phases
    <3>3. file' \in [Fd -> File]
      <4>1. Opened(c, "sock") \in File
        BY DEF Opened, File, Kinds, Ends
      <4>. QED
        BY <2>3, <4>1
    <3>4. calm' \in BOOLEAN
      BY <2>3, Zenon
    <3>5. Add(OnRead(f, c)) \in Change /\ Add(OnRead(f, c)).op # "DELETE"
      BY <3>1, Asked DEF Add
    <3>6. changes' \in Seq(Change) /\ Pending' = Pending \cup {Add(OnRead(f, c))}
      BY <2>3, <3>5, PendingOne
    <3>7. FieldsKnown'
      <4>1. phase'[c] = "idle" /\ sock'[c] = f /\ f \in Fd /\ body'[c] = NoFd /\ feed'[c] = NoFd
        BY <2>3, <3>1 DEF Shaped, TypeOK, FieldsKnown
      <4>2. \A d \in Clients \ {c} : phase'[d] = phase[d] /\ sock'[d] = sock[d]
        BY <2>3 DEF Shaped, TypeOK
      <4>. QED
        BY <2>3, <4>1, <4>2 DEF Shaped, FieldsKnown
    <3>. QED
      BY <2>1, <2>3, <3>2, <3>3, <3>4, <3>5, <3>6, <3>7, HandlerShape DEF Shaped, TypeOK
  <2>. QED
    BY <1>1, <2>2, <2>3 DEF CreateClient, Accepted
<1>2. ASSUME ReadSocket PROVE Shaped'
  <2>1. PICK e \in batch :
          LET c == e.k.ud
          IN  /\ ToLive(e, "READ", "")
              /\ e.k.f = sock[c]
              /\ \/ e.k.f \notin Free /\ NextRequest(c, changes)
                 \/ /\ phase[c] = "post"
                    /\ phase' = [phase EXCEPT ![c] = "cgi"]
                    /\ changes' = Append(changes, Add(OnWrite(feed[c], c)))
                    /\ UNCHANGED <<body, feed, file, calm>>
                 \/ UNCHANGED <<phase, body, feed, file, changes, calm>>
    BY <1>2 DEF ReadSocket
  <2>. DEFINE c == e.k.ud
  <2>2. c \in Live /\ For(e, "READ", "")
    BY <2>1 DEF ToLive
  <2>3. UNCHANGED <<sock, knotes, for_close, pc>>
    BY <1>2 DEF ReadSocket
  <2>4. pc = "handle" /\ pc' = "handle" /\ batch' \subseteq batch
    BY <2>2, <2>3, Taken
  <2>5. CASE sock[c] \notin Free /\ NextRequest(c, changes)
    BY <2>2, <2>3, <2>4, <2>5, BeginShape DEF Pending
  <2>6. CASE /\ phase[c] = "post" /\ phase' = [phase EXCEPT ![c] = "cgi"]
             /\ changes' = Append(changes, Add(OnWrite(feed[c], c)))
             /\ UNCHANGED <<body, feed, file, calm>>
    <3>1. Add(OnWrite(feed[c], c)) \in Change /\ Add(OnWrite(feed[c], c)).op # "DELETE"
      BY <2>2, <2>6, LiveSocket, Asked DEF Shaped, FieldsKnown, Add
    <3>. DEFINE s == <<Add(OnWrite(feed[c], c))>>
    <3>2. changes' = changes \o s /\ s \in Seq(Change) /\ \A i \in DOMAIN s : s[i].op # "DELETE"
      BY <2>6, <3>1, Appended
    <3>. HIDE DEF s
    <3>. QED
      BY <2>2, <2>3, <2>4, <2>6, <3>2, MovedShape
  <2>7. CASE UNCHANGED <<phase, body, feed, file, changes, calm>>
    BY <2>3, <2>4, <2>7, QuietShape DEF client, kernel
  <2>. QED
    BY <2>1, <2>5, <2>6, <2>7
<1>3. ASSUME ReadBody PROVE Shaped'
  <2>1. PICK e \in batch :
          LET c == e.k.ud
          IN  /\ ToLive(e, "READ", "")
              /\ \/ UNCHANGED <<phase, kernel, changes>>
                 \/ /\ CloseAll({e.k.f})
                    /\ changes' = Append(changes, Add(OnWrite(sock[c], c)))
                    /\ phase' = [phase EXCEPT ![c] = "respond"]
    BY <1>3 DEF ReadBody
  <2>. DEFINE c == e.k.ud
  <2>2. c \in Live /\ For(e, "READ", "")
    BY <2>1 DEF ToLive
  <2>3. UNCHANGED <<sock, body, feed, for_close, pc, calm>>
    BY <1>3 DEF ReadBody
  <2>4. pc = "handle" /\ pc' = "handle" /\ batch' \subseteq batch
    BY <2>2, <2>3, Taken
  <2>5. CASE UNCHANGED <<phase, kernel, changes>>
    BY <2>3, <2>4, <2>5, QuietShape DEF client
  <2>6. CASE /\ CloseAll({e.k.f})
             /\ changes' = Append(changes, Add(OnWrite(sock[c], c)))
             /\ phase' = [phase EXCEPT ![c] = "respond"]
    <3>1. Add(OnWrite(sock[c], c)) \in Change /\ Add(OnWrite(sock[c], c)).op # "DELETE"
      BY <2>2, LiveSocket, Asked DEF Add
    <3>. DEFINE s == <<Add(OnWrite(sock[c], c))>>
    <3>2. changes' = changes \o s /\ s \in Seq(Change) /\ \A i \in DOMAIN s : s[i].op # "DELETE"
      BY <2>6, <3>1, Appended
    <3>. HIDE DEF s
    <3>3. file' \in [Fd -> File] /\ knotes' \subseteq knotes
      BY <2>6, ClosedShape
    <3>. QED
      BY <2>2, <2>3, <2>4, <2>6, <3>2, <3>3, MovedShape
  <2>. QED
    BY <2>1, <2>5, <2>6
<1>4. ASSUME WriteSocket PROVE Shaped'
  <2>1. PICK e \in batch :
          LET c == e.k.ud
          IN  /\ ToLive(e, "WRITE", "")
              /\ e.k.f = sock[c]
              /\ \/ UNCHANGED <<phase, body, feed, file, changes, calm>>
                 \/ e.k.f \notin Free /\ NextRequest(c, Append(changes, Delete(e.k)))
    BY <1>4 DEF WriteSocket
  <2>. DEFINE c == e.k.ud
  <2>2. c \in Live /\ For(e, "WRITE", "")
    BY <2>1 DEF ToLive
  <2>3. UNCHANGED <<sock, knotes, for_close, pc>>
    BY <1>4 DEF WriteSocket
  <2>4. /\ pc = "handle" /\ pc' = "handle" /\ batch' \subseteq batch
        /\ e.k = OnWrite(sock[c], c)
    BY <2>1, <2>2, <2>3, Taken
  <2>5. CASE UNCHANGED <<phase, body, feed, file, changes, calm>>
    BY <2>3, <2>4, <2>5, QuietShape DEF client, kernel
  <2>6. CASE sock[c] \notin Free /\ NextRequest(c, Append(changes, Delete(e.k)))
    <3>. DEFINE asked == Append(changes, Delete(e.k))
    <3>1. Delete(e.k) \in Change
      BY <2>2, <2>4, LiveSocket, Asked
    <3>2. asked \in Seq(Change)
      BY <3>1
    <3>3. \A i \in DOMAIN asked : asked[i] \in Pending \cup {Delete(OnWrite(sock[c], c))}
      BY <2>4, <3>1 DEF Pending
    <3>. HIDE DEF asked
    <3>4. NextRequest(c, asked)
      BY <2>6 DEF asked
    <3>. QED
      BY <2>2, <2>3, <2>4, <2>6, <3>2, <3>3, <3>4, BeginShape
  <2>. QED
    BY <2>1, <2>5, <2>6
<1>5. ASSUME WriteBody PROVE Shaped'
  <2>1. PICK e \in batch :
          LET c == e.k.ud
          IN  /\ ToLive(e, "WRITE", "")
              /\ \/ UNCHANGED <<phase, kernel, changes>>
                 \/ /\ CloseAll({e.k.f})
                    /\ IF phase[c] = "upload" /\ e.k.f = body[c]
                       THEN /\ changes' = changes \o <<Delete(e.k), Add(OnWrite(sock[c], c))>>
                            /\ phase' = [phase EXCEPT ![c] = "respond"]
                       ELSE /\ changes' = Append(changes, Delete(e.k))
                            /\ UNCHANGED phase
    BY <1>5 DEF WriteBody
  <2>. DEFINE c == e.k.ud
  <2>2. c \in Live /\ For(e, "WRITE", "")
    BY <2>1 DEF ToLive
  <2>3. UNCHANGED <<sock, body, feed, for_close, pc, calm>>
    BY <1>5 DEF WriteBody
  <2>4. /\ pc = "handle" /\ pc' = "handle" /\ batch' \subseteq batch
        /\ e.k = OnWrite(e.k.f, c) /\ e.k.f \in Fd
    BY <2>2, <2>3, Taken
  <2>5. CASE UNCHANGED <<phase, kernel, changes>>
    BY <2>3, <2>4, <2>5, QuietShape DEF client
  <2>6. CASE CloseAll({e.k.f}) /\ ~UNCHANGED <<phase, kernel, changes>>
    <3>1. Delete(e.k) \in Change /\ Delete(e.k).k.flt = "WRITE"
      <4>1. c \in Clients
        BY <2>2, LiveSocket
      <4>2. Delete(e.k) \in Change
        BY <2>4, <4>1, Asked
      <4>3. Delete(e.k).k.flt = "WRITE"
        BY <2>4 DEF Delete, OnWrite
      <4>. QED
        BY <4>2, <4>3
    <3>2. Add(OnWrite(sock[c], c)) \in Change /\ Add(OnWrite(sock[c], c)).op # "DELETE"
      BY <2>2, LiveSocket, Asked DEF Add
    <3>3. Extended
      <4>1. CASE changes' = changes \o <<Delete(e.k), Add(OnWrite(sock[c], c))>>
        BY <3>1, <3>2, <4>1, ExtendedByTwo
      <4>2. CASE changes' = Append(changes, Delete(e.k))
        BY <3>1, <4>2, ExtendedByOne
      <4>. QED
        BY <2>1, <2>6, <4>1, <4>2
    <3>4. phase' = phase \/ phase' = [phase EXCEPT ![c] = "respond"]
      BY <2>1
    <3>5. file' \in [Fd -> File] /\ knotes' \subseteq knotes
      BY <2>6, ClosedShape
    <3>. QED
      BY <2>2, <2>3, <2>4, <3>3, <3>4, <3>5, MovedShape DEF Extended
  <2>. QED
    BY <2>1, <2>5, <2>6
<1>6. ASSUME SocketEnds PROVE Shaped'
  <2>1. PICK e \in batch : ToLive(e, "READ", "EOF") /\ Disconnect(e.k.ud)
    BY <1>6 DEF SocketEnds
  <2>2. e.k.ud \in Live /\ For(e, "READ", "EOF") /\ UNCHANGED <<pc, calm>>
    BY <1>6, <2>1 DEF ToLive, SocketEnds
  <2>. QED
    BY <2>1, <2>2, Taken, DisconnectShape
<1>7. ASSUME PipeEnds PROVE Shaped'
  <2>1. PICK e \in batch :
          LET c == e.k.ud
          IN  /\ ToLive(e, "READ", "EOF")
              /\ CloseAll({e.k.f})
              /\ \/ UNCHANGED <<phase, changes>>
                 \/ /\ phase' = [phase EXCEPT ![c] = "respond"]
                    /\ changes' = Append(changes, Add(OnWrite(sock[c], c)))
    BY <1>7 DEF PipeEnds
  <2>. DEFINE c == e.k.ud
  <2>2. c \in Live /\ For(e, "READ", "EOF")
    BY <2>1 DEF ToLive
  <2>3. UNCHANGED <<sock, body, feed, for_close, pc, calm>>
    BY <1>7 DEF PipeEnds
  <2>4. pc = "handle" /\ pc' = "handle" /\ batch' \subseteq batch
    BY <2>2, <2>3, Taken
  <2>5. file' \in [Fd -> File] /\ knotes' \subseteq knotes
    BY <2>1, ClosedShape
  <2>6. Add(OnWrite(sock[c], c)) \in Change /\ Add(OnWrite(sock[c], c)).op # "DELETE"
    BY <2>2, LiveSocket, Asked DEF Add
  <2>7. Extended
    <3>1. CASE UNCHANGED changes
      BY <3>1, ExtendedByNone
    <3>2. CASE changes' = Append(changes, Add(OnWrite(sock[c], c)))
      BY <3>2, <2>6, ExtendedByOne
    <3>. QED
      BY <2>1, <3>1, <3>2
  <2>8. phase' = phase \/ phase' = [phase EXCEPT ![c] = "respond"]
    BY <2>1
  <2>. QED
    BY <2>2, <2>3, <2>4, <2>5, <2>7, <2>8, MovedShape DEF Extended
<1>8. ASSUME WriteEnds PROVE Shaped'
  <2>1. PICK e \in batch : For(e, "WRITE", "EOF") /\ CloseWritten(e)
    BY <1>8 DEF WriteEnds
  <2>2. UNCHANGED <<phase, sock, body, feed, changes, for_close, pc, calm>> /\ CloseAll({e.k.f})
    BY <1>8, <2>1 DEF WriteEnds, CloseWritten, client
  <2>3. FieldsKnown' /\ Pending' = Pending
    BY <2>2 DEF Shaped, FieldsKnown, Pending
  <2>. QED
    BY <2>1, <2>2, <2>3, Taken, ClosedShape, HandlerShape DEF Shaped, TypeOK
<1>9. ASSUME ProgramFailed PROVE Shaped'
  <2>1. PICK e \in batch :
          LET c == e.k.ud
          IN  /\ ToLive(e, "PROC", "EOF")
              /\ phase' = [phase EXCEPT ![c] = "respond"]
              /\ changes' = Append(changes, Add(OnWrite(sock[c], c)))
    BY <1>9 DEF ProgramFailed
  <2>. DEFINE c == e.k.ud
  <2>2. c \in Live /\ pc = "handle" /\ batch' \subseteq batch
    BY <2>1 DEF ToLive, For, Handled
  <2>3. UNCHANGED <<sock, body, feed, file, knotes, for_close, pc>> /\ calm' \in BOOLEAN
    BY <1>9 DEF ProgramFailed, kernel
  <2>4. Add(OnWrite(sock[c], c)) \in Change /\ Add(OnWrite(sock[c], c)).op # "DELETE"
    BY <2>2, LiveSocket, Asked DEF Add
  <2>. DEFINE s == <<Add(OnWrite(sock[c], c))>>
  <2>5. changes' = changes \o s /\ s \in Seq(Change) /\ \A i \in DOMAIN s : s[i].op # "DELETE"
    BY <2>1, <2>4, Appended
  <2>. HIDE DEF s
  <2>. QED
    BY <2>1, <2>2, <2>3, <2>5, MovedShape
<1>10. ASSUME ChangeFailed PROVE Shaped'
  <2>1. UNCHANGED <<pc, calm>>
    BY <1>10 DEF ChangeFailed
  <2>2. ASSUME NEW e \in batch, For(e, "READ", "ERR"), e.k.ud \in Live, Disconnect(e.k.ud) PROVE Shaped'
    BY <2>1, <2>2, Taken, DisconnectShape
  <2>3. ASSUME NEW e \in batch, Handled(e), UNCHANGED <<client, kernel, changes, for_close>> PROVE Shaped'
    BY <2>1, <2>3, QuietShape DEF Handled
  <2>. QED
    BY <1>10, <2>2, <2>3 DEF ChangeFailed, ToLive, For
<1>11. ASSUME UseAfterDelete PROVE Shaped'
  BY <1>11, QuietShape DEF UseAfterDelete, For, Handled
<1>. QED
  BY <1>1, <1>2, <1>3, <1>4, <1>5, <1>6, <1>7, <1>8, <1>9, <1>10, <1>11

LEMMA ApplyShaped == Shaped /\ ApplyChange => Shaped'
<1>. SUFFICES ASSUME Shaped, ApplyChange PROVE Shaped'
  OBVIOUS
<1>. DEFINE ch    == Head(changes)
            other == {k \in knotes : ~SameFilter(k, ch.k)}
<1>1. /\ pc = "apply" /\ pc' = pc /\ changes # <<>> /\ changes' = Tail(changes)
      /\ UNCHANGED <<phase, sock, body, feed, file, for_close, calm>>
      /\ \/ /\ knotes' = IF ch.op = "ADD" THEN other \cup {ch.k} ELSE other
            /\ UNCHANGED batch
         \/ /\ batch' = batch \cup {[k |-> ch.k, flag |-> "ERR"]}
            /\ UNCHANGED knotes
  BY DEF ApplyChange, client
<1>2. ch \in Change /\ ch \in Pending /\ changes' \in Seq(Change) /\ Pending' \subseteq Pending
  <2>1. changes \in Seq(Change) /\ changes # <<>>
    BY <1>1 DEF Shaped, TypeOK
  <2>2. /\ ch \in Change /\ ch = changes[1] /\ 1 \in DOMAIN changes /\ changes' \in Seq(Change)
        /\ \A i \in DOMAIN changes' : i + 1 \in DOMAIN changes /\ changes'[i] = changes[i + 1]
    BY <1>1, <2>1
  <2>. QED
    BY <2>2 DEF Pending
<1>3. ch.k \in Knote \cup Exit
  BY <1>2 DEF Change
<1>4. TypeOK'
  <2>1. knotes' \subseteq Knote \cup Exit
    BY <1>1, <1>3 DEF Shaped, TypeOK
  <2>2. batch' \subseteq Event \cup {Accept}
    <3>1. [k |-> ch.k, flag |-> "ERR"] \in Event
      BY <1>3 DEF Event
    <3>. QED
      BY <1>1, <3>1 DEF Shaped, TypeOK
  <2>. QED
    BY <1>1, <1>2, <2>1, <2>2 DEF Shaped, TypeOK
<1>5. \A e \in batch' : e.flag = "ERR"
  BY <1>1 DEF Shaped, RoundKnown
<1>6. RoundKnown'
  BY <1>1, <1>2, <1>5 DEF Shaped, RoundKnown, Told
<1>7. FieldsKnown'
  BY <1>1 DEF Shaped, FieldsKnown
<1>. QED
  BY <1>4, <1>6, <1>7 DEF Shaped

\* What one filter reports is one event of its own.
LEMMA ReportShape ==
  ASSUME TypeOK, NEW k \in knotes
  PROVE  /\ Report(k) \subseteq Event
         /\ \A e \in Report(k) : e.k = k /\ e.flag \in {"", "EOF"} /\ Report(k) = {e}
<1>1. k \in Knote \cup Exit
  BY DEF TypeOK
<1>2. Report(k) = {[k |-> k, flag |-> "EOF"]} \/ Report(k) = {[k |-> k, flag |-> ""]}
  BY DEF Report
<1>3. [k |-> k, flag |-> "EOF"] \in Event /\ [k |-> k, flag |-> ""] \in Event
  BY <1>1 DEF Event
<1>4. ASSUME NEW flag \in {"", "EOF"}, Report(k) = {[k |-> k, flag |-> flag]}
      PROVE  /\ Report(k) \subseteq Event
             /\ \A e \in Report(k) : e.k = k /\ e.flag \in {"", "EOF"} /\ Report(k) = {e}
  <2>. DEFINE d == [k |-> k, flag |-> flag]
  <2>1. d.k = k /\ d.flag \in {"", "EOF"} /\ d \in Event
    BY <1>3
  <2>. HIDE DEF d
  <2>2. Report(k) = {d}
    BY <1>4 DEF d
  <2>. QED
    BY <2>1, <2>2, Zenon
<1>. QED
  BY <1>2, <1>4

LEMMA WaitShaped == Shaped /\ Wait => Shaped'
<1>. SUFFICES ASSUME Shaped, Wait PROVE Shaped'
  OBVIOUS
<1>1. PICK B \in SUBSET ((UNION {Report(k) : k \in knotes}) \cup {Accept}) :
        /\ batch' = B
        /\ knotes' = {k \in knotes : ~(k.flt = "PROC" /\ Report(k) \subseteq B)}
        /\ calm' = (calm /\ Cardinality(B) < MaxEvents)
  BY DEF Wait
<1>2. calm' \in BOOLEAN
  BY <1>1, Zenon
<1>3. /\ pc = "wait" /\ pc' = "handle"
      /\ UNCHANGED <<phase, sock, body, feed, file, changes, for_close>>
  BY DEF Wait, client
<1>4. ASSUME NEW e \in batch' \ {Accept} PROVE \E k \in knotes : e \in Report(k)
  <2>1. e \in (UNION {Report(k) : k \in knotes}) \cup {Accept} /\ e # Accept
    BY <1>1, Zenon
  <2>. QED
    BY <2>1, Zenon
<1>5. \A e \in batch' \ {Accept} : e \in Event /\ e.flag # "ERR" /\ e.k \in knotes /\ Report(e.k) = {e}
  BY <1>4, ReportShape DEF Shaped
<1>6. Accept.flag = ""
  BY DEF Accept
<1>7. TypeOK'
  <2>1. batch' \subseteq Event \cup {Accept}
    BY <1>5
  <2>. QED
    BY <1>1, <1>2, <1>3, <2>1 DEF Shaped, TypeOK
<1>8. \A d, e \in Told' : d.k = e.k => d = e
  BY <1>5 DEF Told
<1>9. \A e \in batch' : e.flag # "ERR"
  BY <1>5, <1>6
<1>10. RoundKnown'
  BY <1>3, <1>8, <1>9 DEF Shaped, RoundKnown, Pending
<1>11. FieldsKnown'
  BY <1>3 DEF Shaped, FieldsKnown
<1>. QED
  BY <1>7, <1>10, <1>11 DEF Shaped

LEMMA OtherSideShaped == Shaped /\ OtherSideEnds => Shaped'
<1>. SUFFICES ASSUME Shaped, OtherSideEnds PROVE Shaped'
  OBVIOUS
<1>1. /\ pc = "wait" /\ pc' = pc
      /\ UNCHANGED <<phase, sock, body, feed, knotes, changes, batch, for_close, calm>>
  BY DEF OtherSideEnds, client
<1>2. PICK f \in Fd \ Free :
        \/ \E end \in {"fin", "reset"} : file' = [file EXCEPT ![f].end = end]
        \/ file' = [g \in Fd |->
             IF g = f THEN [file[g] EXCEPT !.end = "fin"]
             ELSE IF file[g] # Closed /\ file[g].who = file[f].who /\ file[g].kind = "feed"
                  THEN [file[g] EXCEPT !.end = "reset"] ELSE file[g]]
  BY DEF OtherSideEnds
<1>3. file \in [Fd -> File]
  BY DEF Shaped, TypeOK, File
<1>4. \A g \in Fd : file[g] # Closed =>
        \A end \in {"fin", "reset"} : [file[g] EXCEPT !.end = end] \in File
  BY <1>3 DEF File, Ends
<1>5. file[f] # Closed
  BY DEF Free
<1>6. file' \in [Fd -> File]
  <2>1. CASE \E end \in {"fin", "reset"} : file' = [file EXCEPT ![f].end = end]
    BY <1>3, <1>4, <1>5, <2>1
  <2>2. CASE file' = [g \in Fd |->
             IF g = f THEN [file[g] EXCEPT !.end = "fin"]
             ELSE IF file[g] # Closed /\ file[g].who = file[f].who /\ file[g].kind = "feed"
                  THEN [file[g] EXCEPT !.end = "reset"] ELSE file[g]]
    BY <1>3, <1>4, <1>5, <2>2
  <2>. QED
    BY <1>2, <2>1, <2>2
<1>7. TypeOK'
  BY <1>1, <1>6 DEF Shaped, TypeOK, File
<1>8. FieldsKnown' /\ RoundKnown'
  BY <1>1 DEF Shaped, FieldsKnown, RoundKnown, Told, Pending
<1>. QED
  BY <1>7, <1>8 DEF Shaped

LEMMA DeleteShaped == Shaped /\ DeleteClient => Shaped'
<1>. SUFFICES ASSUME Shaped, DeleteClient PROVE Shaped'
  OBVIOUS
<1>1. /\ pc = "delete" /\ pc' \in {"apply", "delete", "undefined"}
      /\ UNCHANGED <<file, knotes, changes, batch, calm>>
  BY DEF DeleteClient, kernel
<1>2. CASE for_close = <<>>
  <2>1. UNCHANGED <<phase, sock, body, feed, for_close>> /\ pc' = "apply"
    BY <1>2 DEF DeleteClient, client
  <2>. QED
    BY <1>1, <1>2, <2>1 DEF Shaped, TypeOK, FieldsKnown, RoundKnown, Told, Pending
<1>3. CASE for_close # <<>>
  <2>. DEFINE c == for_close[Len(for_close)]
  <2>1. /\ for_close' = SubSeq(for_close, 1, Len(for_close) - 1)
        /\ phase' = [phase EXCEPT ![c] = "none"] /\ sock' = [sock EXCEPT ![c] = NoFd]
        /\ body' = [body EXCEPT ![c] = NoFd] /\ feed' = [feed EXCEPT ![c] = NoFd]
        /\ pc' \in {"delete", "undefined"}
    BY <1>3 DEF DeleteClient
  <2>2. for_close \in Seq(Clients)
    BY DEF Shaped, TypeOK
  <2>3. c \in Clients /\ for_close' \in Seq(Clients)
    BY <1>3, <2>1, <2>2
  <2>. HIDE DEF c
  <2>4. TypeOK'
    BY <1>1, <2>1, <2>3 DEF Shaped, TypeOK, Phases
  <2>5. phase'[c] = "none" /\ sock'[c] = NoFd /\ body'[c] = NoFd /\ feed'[c] = NoFd
    BY <2>1, <2>3 DEF Shaped, TypeOK
  <2>6. \A d \in Clients \ {c} : /\ phase'[d] = phase[d] /\ sock'[d] = sock[d]
                                 /\ body'[d] = body[d] /\ feed'[d] = feed[d]
    BY <2>1, <2>3 DEF Shaped, TypeOK
  <2>7. FieldsKnown'
    BY <2>5, <2>6 DEF Shaped, FieldsKnown
  <2>8. RoundKnown'
    BY <1>1, <2>1 DEF Shaped, RoundKnown, Told, Pending
  <2>. QED
    BY <2>4, <2>7, <2>8 DEF Shaped
<1>. QED
  BY <1>2, <1>3

LEMMA RoundShaped ==
  ASSUME Shaped, ChangesApplied \/ EndOfRound \/ UNCHANGED vars
  PROVE  Shaped'
<1>1. UNCHANGED <<phase, sock, body, feed, file, knotes, changes, batch, for_close, calm>>
  BY DEF ChangesApplied, EndOfRound, vars, client, kernel
<1>2. pc' \in {"apply", "wait", "handle", "delete", "undefined"}
  BY DEF ChangesApplied, EndOfRound, vars, Shaped, TypeOK
<1>3. TypeOK' /\ FieldsKnown'
  BY <1>1, <1>2 DEF Shaped, TypeOK, FieldsKnown
<1>4. RoundKnown'
  <2>1. CASE ChangesApplied
    <3>1. pc' = "handle" \/ (pc' = "wait" /\ batch = {})
      BY <2>1 DEF ChangesApplied
    <3>. QED
      BY <1>1, <2>1, <3>1 DEF ChangesApplied, Shaped, RoundKnown, Told, Pending
  <2>2. CASE EndOfRound
    BY <1>1, <2>2 DEF EndOfRound, Shaped, RoundKnown, Told, Pending
  <2>3. CASE UNCHANGED vars
    BY <1>1, <2>3 DEF vars, Shaped, RoundKnown, Told, Pending
  <2>. QED
    BY <2>1, <2>2, <2>3
<1>. QED
  BY <1>3, <1>4 DEF Shaped

LEMMA InitShaped == Init => Shaped
<1>. SUFFICES ASSUME Init PROVE Shaped
  OBVIOUS
<1>1. TypeOK
  BY DEF Init, TypeOK, Phases
<1>2. FieldsKnown /\ RoundKnown
  BY DEF Init, FieldsKnown, RoundKnown, Told, Pending
<1>. QED
  BY <1>1, <1>2 DEF Shaped

LEMMA StepShaped == Shaped /\ [Next]_vars => Shaped'
<1>. QED
  BY HandlersShaped, ApplyShaped, WaitShaped, OtherSideShaped, DeleteShaped, RoundShaped
     DEF Next, Loop

\* The fields, the filters, the lists and the events of the loop are well-formed,
\* whatever happened: calm or not.
THEOREM TypeCorrect == Spec => []TypeOK
<1>1. Init => Shaped
  BY InitShaped
<1>2. Shaped /\ [Next]_vars => Shaped'
  BY StepShaped
<1>3. Shaped => TypeOK
  BY DEF Shaped
<1>. QED
  BY <1>1, <1>2, <1>3, PTL DEF Spec

-----------------------------------------------------------------------------
(* The loop while it is calm.                                                *)

\* What an open number is, by its kind.
LEMMA Owned ==
  ASSUME Shaped, CalmInv, NEW f \in Fd, file[f] # Closed
  PROVE  /\ f \notin Free
         /\ file[f].who \in Live /\ file[f].who \notin Leaving /\ file[f].who \in Clients
         /\ file[f].kind \in Kinds
         /\ f \in {sock[file[f].who], body[file[f].who], feed[file[f].who]}
         /\ f \in Held(file[f].who)
<1>1. f \notin Free /\ f # NoFd
  BY EventLoopAssumption DEF Free
<1>2. file[f] \in [who : Clients, kind : Kinds, end : Ends]
  BY DEF Shaped, TypeOK
<1>3. file[f].who \in Clients /\ file[f].kind \in Kinds
  BY <1>2
<1>4. file[f].who \in Live \ Leaving
  BY <1>1 DEF CalmInv, FilesKept
<1>5. f \in {sock[file[f].who], body[file[f].who], feed[file[f].who]}
  BY <1>1, <1>3 DEF CalmInv, FilesKept, Is, Kinds
<1>. QED
  BY <1>1, <1>3, <1>4, <1>5 DEF Held

\* What an event says it says of a closed number or of its client's own.
LEMMA Reported ==
  ASSUME Shaped, CalmInv, NEW e \in Told
  PROVE  /\ e \in batch /\ e \in Event /\ e.k \in Knote /\ e.k.f \in Fd
         /\ e.k.flt \in {"READ", "WRITE"} /\ e.flag \in {"", "EOF"}
         /\ e = [k |-> e.k, flag |-> e.flag]
         /\ e.k.flt = "READ" => e.k = OnRead(e.k.f, e.k.ud)
         /\ e.k.flt = "WRITE" => e.k = OnWrite(e.k.f, e.k.ud)
         /\ e.k.ud \in Live /\ Ours(e.k)
<1>1. e \in batch /\ e # Accept /\ e.flag # "ERR" /\ e.k.flt # "PROC"
  BY DEF Told
<1>2. e \in Event
  BY <1>1 DEF Shaped, TypeOK
<1>3. e.flag \in {"", "EOF", "ERR"}
  BY <1>2 DEF Event
<1>. QED
  BY <1>1, <1>2, <1>3, Records DEF CalmInv, FiltersKept

\* An end of a client's own descriptor is one of the events told.
LEMMA EndTold ==
  ASSUME NEW f, NEW c
  PROVE  /\ EndRead(f, c) \in batch => EndRead(f, c) \in Told
         /\ EndWrite(f, c) \in batch => EndWrite(f, c) \in Told
         /\ EndRead(f, c).k = OnRead(f, c) /\ EndRead(f, c).flag = "EOF"
         /\ EndWrite(f, c).k = OnWrite(f, c) /\ EndWrite(f, c).flag = "EOF"
         /\ OnRead(f, c).f = f /\ OnRead(f, c).flt = "READ" /\ OnRead(f, c).ud = c
         /\ OnWrite(f, c).f = f /\ OnWrite(f, c).flt = "WRITE" /\ OnWrite(f, c).ud = c
<1>1. /\ EndRead(f, c).k = OnRead(f, c) /\ EndRead(f, c).flag = "EOF"
      /\ EndWrite(f, c).k = OnWrite(f, c) /\ EndWrite(f, c).flag = "EOF"
  BY DEF EndRead, EndWrite
<1>2. /\ OnRead(f, c).f = f /\ OnRead(f, c).flt = "READ" /\ OnRead(f, c).ud = c
      /\ OnWrite(f, c).f = f /\ OnWrite(f, c).flt = "WRITE" /\ OnWrite(f, c).ud = c
  BY DEF OnRead, OnWrite
<1>3. Accept.flag = ""
  BY DEF Accept
<1>4. EndRead(f, c) # Accept /\ EndWrite(f, c) # Accept
  BY <1>1, <1>3
<1>. QED
  BY <1>1, <1>2, <1>4 DEF Told

\* A step that changes no more than the events still to be handled, and takes no end.
LEMMA QuietCalm ==
  ASSUME Shaped, CalmInv, batch' \subseteq batch,
         \A e \in batch \ batch' : e.flag # "EOF" \/ e.k.flt = "PROC",
         UNCHANGED <<client, kernel, changes, for_close>>
  PROVE  CalmInv'
<1>1. UNCHANGED <<phase, sock, body, feed, file, knotes, changes, for_close>>
  BY DEF client, kernel
<1>2. Told' \subseteq Told
  BY DEF Told
<1>3. \A f, c : /\ EndRead(f, c) \in batch => EndRead(f, c) \in batch'
                /\ EndWrite(f, c) \in batch => EndWrite(f, c) \in batch'
  BY EndTold
<1>4. Pending' = Pending /\ Leaving' = Leaving /\ Live' = Live /\ Free' = Free
  BY <1>1 DEF Pending, Leaving, Live, Free
<1>5. FilesKept'
  BY <1>1, <1>3, <1>4 DEF CalmInv, FilesKept, Is
<1>6. FiltersKept'
  BY <1>1, <1>2, <1>4 DEF CalmInv, FiltersKept, Ours, Fits, Is
<1>7. FieldsOwn'
  BY <1>1, <1>4 DEF CalmInv, FieldsOwn, Held
<1>8. Listened'
  BY <1>1, <1>3, <1>4 DEF CalmInv, Listened, Is
<1>9. LeavingOnce'
  BY <1>1, <1>4 DEF CalmInv, LeavingOnce
<1>10. EndsTogether'
  BY <1>1, <1>2, <1>3 DEF CalmInv, EndsTogether, Is, Feeds
<1>11. WritesResponses'
  BY <1>1, <1>2, <1>4 DEF CalmInv, WritesResponses, Is, Feeds
<1>. QED
  BY <1>5, <1>6, <1>7, <1>8, <1>9, <1>10, <1>11 DEF CalmInv

\* What waits to be changed, once more is appended, for a filter that is not asked for.
LEMMA GoneKept ==
  ASSUME changes \in Seq(Change), NEW s \in Seq(Change), changes' = changes \o s,
         knotes' \subseteq knotes, NEW k, Gone(k, knotes, changes),
         \A i \in DOMAIN s : s[i] # Add(k)
  PROVE  Gone(k, knotes', changes')
<1>1. /\ DOMAIN changes' = 1 .. Len(changes) + Len(s)
      /\ \A i \in 1 .. Len(changes) : changes'[i] = changes[i]
      /\ DOMAIN changes = 1 .. Len(changes) /\ DOMAIN s = 1 .. Len(s)
      /\ Len(changes) \in Nat /\ Len(s) \in Nat
  OBVIOUS
<1>2. ASSUME NEW i \in DOMAIN changes', i \notin DOMAIN changes PROVE changes'[i] # Add(k)
  <2>1. i - Len(changes) \in DOMAIN s /\ changes'[i] = s[i - Len(changes)]
    BY <1>1, <1>2
  <2>. QED
    BY <2>1
<1>3. CASE k \notin knotes /\ \A i \in DOMAIN changes : changes[i] # Add(k)
  BY <1>1, <1>2, <1>3 DEF Gone
<1>4. ASSUME NEW j \in DOMAIN changes, changes[j] = Delete(k),
             \A i \in DOMAIN changes : i > j => changes[i] # Add(k)
      PROVE  Gone(k, knotes', changes')
  <2>1. j \in DOMAIN changes' /\ changes'[j] = Delete(k)
    BY <1>1, <1>4
  <2>2. \A i \in DOMAIN changes' : i > j => changes'[i] # Add(k)
    BY <1>1, <1>2, <1>4
  <2>. QED
    BY <2>1, <2>2 DEF Gone
<1>. QED
  BY <1>3, <1>4 DEF Gone

\* A handler closes the descriptor of its event, and its client may now answer.
LEMMA ClosedCalm ==
  ASSUME Shaped, CalmInv, NEW e \in Told, batch' = batch \ {e},
         UNCHANGED <<sock, body, feed, for_close>>, CloseAll({e.k.f}),
         e.k.f # sock[e.k.ud] \/ e = EndWrite(e.k.f, e.k.ud),
         NEW s \in Seq(Change), changes' = changes \o s,
         \A i \in DOMAIN s : \/ s[i] = Delete(e.k) /\ e.k.flt = "WRITE"
                             \/ s[i] = Add(OnWrite(sock[e.k.ud], e.k.ud)) /\ phase' # phase,
         \/ phase' = phase
         \/ /\ phase' = [phase EXCEPT ![e.k.ud] = "respond"]
            /\ e.k.f # sock[e.k.ud] /\ e.k.f = body[e.k.ud] /\ file[e.k.f] # Closed
            /\ phase[e.k.ud] \in {"page", "upload", "post", "cgi"}
            /\ \A g \in Fd : Feeds(g, e.k.ud) => EndWrite(g, e.k.ud) \in batch
  PROVE  CalmInv'
<1>. DEFINE f == e.k.f
            c == e.k.ud
<1>1. /\ e \in batch /\ f \in Fd /\ c \in Live /\ c \in Clients /\ Ours(e.k)
      /\ e.k = OnRead(f, c) \/ e.k = OnWrite(f, c)
  BY Reported DEF Live
<1>2. /\ file'[f] = Closed
      /\ \A g \in Fd \ {f} : file'[g] = file[g]
      /\ knotes' = {k \in knotes : k.f # f}
  BY <1>1 DEF CloseAll
<1>3. Told' \subseteq Told
  BY DEF Told
<1>4. /\ \A g, d : g # f /\ EndRead(g, d) \in batch => EndRead(g, d) \in batch'
      /\ \A g, d : g # f /\ EndWrite(g, d) \in batch => EndWrite(g, d) \in batch'
  BY EndTold
<1>5. \A d : EndRead(sock[d], d) \in batch => EndRead(sock[d], d) \in batch'
  <2>1. ASSUME NEW d, EndRead(sock[d], d) = e PROVE FALSE
    <3>1. d = c /\ sock[d] = f
      BY <2>1, EndTold
    <3>2. e = EndWrite(f, c)
      BY <3>1
    <3>. QED
      BY <2>1, <3>2, EndTold
  <2>. QED
    BY <2>1
<1>6. /\ changes' \in Seq(Change) /\ Pending' = Pending \cup {s[i] : i \in DOMAIN s}
      /\ changes \in Seq(Change)
  BY PendingAppend DEF Shaped, TypeOK
<1>7. /\ \A d \in Clients \ {c} : phase'[d] = phase[d]
      /\ phase'[c] = phase[c] \/ phase'[c] = "respond"
      /\ phase[c] # "none"
  BY <1>1 DEF Shaped, TypeOK, Live
<1>8. Leaving' = Leaving /\ Live' = Live
  BY <1>7 DEF Leaving, Live
<1>9. ASSUME phase' # phase
      PROVE  /\ c \notin Leaving /\ phase'[c] = "respond" /\ f # sock[c]
             /\ phase[c] \in {"page", "upload", "post", "cgi"}
             /\ \A g \in Fd : Feeds(g, c) => EndWrite(g, c) \in batch
             /\ \A g \in Fd \ {f} : (file[g] # Closed /\ file[g].who = c) => file[g].kind \in {"sock", "feed"}
  <2>1. f = body[c] /\ file[f] # Closed /\ phase[c] \in {"page", "upload", "post", "cgi"}
    BY <1>9
  <2>2. c \notin Leaving
    BY <1>1, <2>1, Owned DEF Ours
  <2>3. \A g \in Fd \ {f} : (file[g] # Closed /\ file[g].who = c) => file[g].kind \in {"sock", "feed"}
    BY <2>1, Owned DEF CalmInv, FilesKept, Is, Kinds
  <2>4. phase'[c] = "respond"
    BY <1>1, <1>9 DEF Shaped, TypeOK
  <2>. QED
    BY <1>9, <2>1, <2>2, <2>3, <2>4
<1>10. FilesKept'
  <2>. SUFFICES ASSUME NEW g \in Fd, file'[g] # Closed
                PROVE  LET d == file[g].who
                       IN  /\ d \in Live \ Leaving
                           /\ Is(g, "sock")   => g = sock[d]
                           /\ Is(g, "page")   => g = body[d] /\ phase'[d] = "page"
                           /\ Is(g, "upload") => g = body[d] /\ phase'[d] = "upload"
                           /\ Is(g, "pipe")   => g = body[d] /\ phase'[d] \in {"post", "cgi"}
                           /\ Is(g, "feed")   => g = feed[d] /\ phase'[d] \in {"post", "cgi", "respond"}
                           /\ Is(g, "feed") /\ phase'[d] = "respond" => EndWrite(g, d) \in batch'
                           /\ Is(g, "feed") /\ phase'[d] = "cgi" =>
                                OnWrite(g, d) \in knotes' \/ Add(OnWrite(g, d)) \in Pending'
                       /\ file'[g] = file[g]
    BY <1>8 DEF FilesKept, Is, Free
  <2>1. g # f /\ file'[g] = file[g] /\ file[g] # Closed /\ g \in Fd \ Free
    BY <1>2 DEF Free
  <2>2. OnWrite(g, file[g].who) \in knotes => OnWrite(g, file[g].who) \in knotes'
    BY <1>2, <2>1, EndTold
  <2>3. EndWrite(g, file[g].who) \in batch => EndWrite(g, file[g].who) \in batch'
    BY <1>4, <2>1
  <2>4. CASE phase'[file[g].who] = phase[file[g].who]
    BY <1>6, <2>1, <2>2, <2>3, <2>4 DEF CalmInv, FilesKept, Is
  <2>5. CASE phase'[file[g].who] # phase[file[g].who]
    <3>1. file[g].who = c /\ phase' # phase
      BY <1>7, <2>1, <2>5, Owned
    <3>2. file[g].kind \in {"sock", "feed"} /\ phase'[c] = "respond"
      BY <1>9, <2>1, <3>1
    <3>3. Is(g, "feed") => EndWrite(g, c) \in batch'
      BY <1>9, <2>3, <3>1 DEF Feeds
    <3>. QED
      BY <1>6, <1>9, <2>1, <3>1, <3>2, <3>3 DEF CalmInv, FilesKept, Is
  <2>. QED
    BY <2>4, <2>5
<1>11. FiltersKept'
  <2>1. \A k \in knotes' : k.flt # "PROC" => file'[k.f] # Closed /\ Ours(k)'
    <3>. SUFFICES ASSUME NEW k \in knotes', k.flt # "PROC" PROVE file'[k.f] # Closed /\ Ours(k)'
      OBVIOUS
    <3>1. k \in knotes /\ k.f # f
      BY <1>2
    <3>2. k.f \in Fd
      BY <3>1, Records DEF Shaped, TypeOK
    <3>3. file'[k.f] = file[k.f]
      BY <1>2, <3>1, <3>2
    <3>. QED
      BY <3>1, <3>3 DEF CalmInv, FiltersKept, Ours, Fits
  <2>2. \A k \in Knote : Ours(k) => Ours(k)'
    BY <1>2, Records DEF Ours, Fits, Knote
  <2>3. \A ch \in Pending : ch.k.flt # "PROC" => ch.k \in Knote
    BY Records DEF Pending, Shaped, TypeOK
  <2>4. ASSUME NEW i \in DOMAIN s
        PROVE  /\ s[i].k.flt # "PROC" => Ours(s[i].k)'
               /\ s[i].op = "DELETE" => file'[s[i].k.f] = Closed
    <3>1. CASE s[i] = Delete(e.k)
      BY <1>2, <3>1 DEF Delete, Ours
    <3>2. CASE s[i] = Add(OnWrite(sock[c], c)) /\ phase' # phase
      <4>1. sock[c] \in Fd /\ sock[c] # f /\ sock[c] # NoFd
        BY <1>1, <1>9, <3>2, LiveSocket
      <4>2. file'[sock[c]] = file[sock[c]]
        BY <1>2, <4>1
      <4>3. file[sock[c]] = Closed \/ file[sock[c]].who = c
        BY <1>1, <1>9, <3>2, <4>1 DEF CalmInv, FieldsOwn, Held
      <4>4. file[sock[c]] = Closed \/ file[sock[c]].kind \in {"sock", "feed"}
        BY <1>9, <3>2, <4>1, <4>3
      <4>5. Ours(OnWrite(sock[c], c))'
        BY <4>2, <4>3, <4>4 DEF Ours, Fits, OnWrite
      <4>. QED
        BY <3>2, <4>5 DEF Add
    <3>. QED
      BY <3>1, <3>2
  <2>5. \A ch \in Pending' : ch.k.flt # "PROC" => Ours(ch.k)'
    BY <1>6, <2>2, <2>3, <2>4 DEF CalmInv, FiltersKept
  <2>6. \A ch \in Pending : ch.op = "DELETE" => ch.k \in Knote /\ ch.k.f \in Fd
    BY Records, <2>3 DEF Shaped, RoundKnown
  <2>7. \A ch \in Pending' : ch.op = "DELETE" => file'[ch.k.f] = Closed \/ Is(ch.k.f, "sock")'
    BY <1>2, <1>6, <2>4, <2>6 DEF CalmInv, FiltersKept, Is
  <2>8. \A d \in Told' : d.k.ud \in Live' /\ Ours(d.k)'
    BY <1>3, <1>8, <2>2, Reported
  <2>. QED
    BY <2>1, <2>5, <2>7, <2>8 DEF FiltersKept
<1>12. FieldsOwn'
  <2>. SUFFICES ASSUME NEW d \in Live \ Leaving, NEW g \in Held(d)
                PROVE  file'[g] = Closed \/ file'[g].who = d
    BY <1>8 DEF FieldsOwn, Held
  <2>1. g \in Fd
    BY DEF Held, Live, Shaped, TypeOK
  <2>. QED
    BY <1>2, <2>1 DEF CalmInv, FieldsOwn
<1>13. Listened'
  <2>. SUFFICES ASSUME NEW d \in Live \ Leaving
                PROVE  \/ EndRead(sock[d], d) \in batch'
                       \/ /\ Is(sock[d], "sock")' /\ file'[sock[d]].who = d
                          /\ OnRead(sock[d], d) \in knotes' \/ Add(OnRead(sock[d], d)) \in Pending'
    BY <1>8 DEF Listened
  <2>1. CASE EndRead(sock[d], d) \in batch
    BY <1>5, <2>1
  <2>2. CASE EndRead(sock[d], d) \notin batch
    <3>1. /\ Is(sock[d], "sock") /\ file[sock[d]].who = d
          /\ OnRead(sock[d], d) \in knotes \/ Add(OnRead(sock[d], d)) \in Pending
      BY <2>2 DEF CalmInv, Listened
    <3>2. sock[d] \in Fd
      BY LiveSocket
    <3>3. sock[d] # f
      <4>1. ASSUME sock[d] = f PROVE FALSE
        <5>1. d = c /\ f = sock[c] /\ e = EndWrite(f, c)
          BY <1>1, <3>1, <4>1 DEF Ours, Is
        <5>2. e.flag = "EOF" /\ e.k.flt = "WRITE"
          BY <5>1, EndTold
        <5>3. EndRead(f, c) \in batch
          BY <3>1, <4>1, <5>2 DEF CalmInv, EndsTogether
        <5>. QED
          BY <2>2, <5>1, <5>3
      <4>. QED
        BY <4>1
    <3>4. file'[sock[d]] = file[sock[d]]
      BY <1>2, <3>2, <3>3
    <3>5. OnRead(sock[d], d) \in knotes => OnRead(sock[d], d) \in knotes'
      BY <1>2, <3>3, EndTold
    <3>. QED
      BY <1>6, <3>1, <3>4, <3>5 DEF Is
  <2>. QED
    BY <2>1, <2>2
<1>14. LeavingOnce'
  BY <1>8 DEF CalmInv, LeavingOnce
<1>15. EndsTogether'
  <2>1. \A g \in Fd : \A d : /\ Feeds(g, d)' => Feeds(g, d) /\ g # f
                             /\ \A kind : Is(g, kind)' => Is(g, kind) /\ g # f
    BY <1>2 DEF Feeds, Is
  <2>2. ASSUME NEW d \in Told', d.flag = "EOF", d.k.flt = "WRITE", Is(d.k.f, "sock")'
        PROVE  EndRead(d.k.f, d.k.ud) \in batch'
    <3>1. d \in Told /\ d.k.f \in Fd
      BY <1>3, Reported
    <3>2. Is(d.k.f, "sock") /\ d.k.f # f
      BY <2>1, <2>2, <3>1
    <3>. QED
      BY <1>4, <2>2, <3>1, <3>2 DEF CalmInv, EndsTogether
  <2>3. ASSUME NEW d \in Told', d.flag = "EOF", d.k.flt = "READ", Is(d.k.f, "pipe")'
        PROVE  /\ phase'[d.k.ud] = "cgi"
               /\ \A g \in Fd : Feeds(g, d.k.ud)' => EndWrite(g, d.k.ud) \in batch'
    <3>1. d \in Told /\ d.k.f \in Fd /\ d.k.ud \in Clients /\ Ours(d.k)
      BY <1>3, Reported DEF Live
    <3>2. Is(d.k.f, "pipe") /\ d.k.f # f
      BY <2>1, <2>3, <3>1
    <3>3. /\ phase[d.k.ud] = "cgi"
          /\ \A g \in Fd : Feeds(g, d.k.ud) => EndWrite(g, d.k.ud) \in batch
      BY <2>3, <3>1, <3>2 DEF CalmInv, EndsTogether
    <3>4. phase'[d.k.ud] = phase[d.k.ud]
      BY <1>7, <1>9, <3>1, <3>2 DEF Ours, Is
    <3>. QED
      BY <1>4, <2>1, <3>3, <3>4
  <2>4. ASSUME NEW p \in Fd, Is(p, "pipe")', file'[p].end # "open"
        PROVE  /\ phase'[file'[p].who] # "post"
               /\ \A g \in Fd : Feeds(g, file[p].who)' => file'[g].end = "reset"
    <3>1. Is(p, "pipe") /\ file'[p] = file[p] /\ file[p] # Closed
      BY <1>2, <2>1, <2>4 DEF Is
    <3>2. /\ phase[file[p].who] # "post"
          /\ \A g \in Fd : Feeds(g, file[p].who) => file[g].end = "reset"
      BY <2>4, <3>1 DEF CalmInv, EndsTogether
    <3>3. file[p].who \in Clients
      BY <3>1, Owned
    <3>4. phase'[file[p].who] # "post"
      BY <1>7, <3>2, <3>3
    <3>5. ASSUME NEW g \in Fd, Feeds(g, file[p].who)' PROVE file'[g].end = "reset"
      <4>1. Feeds(g, file[p].who) /\ file'[g] = file[g]
        BY <1>2, <3>1, <3>5 DEF Feeds, Is
      <4>. QED
        BY <3>2, <4>1
    <3>. QED
      BY <3>1, <3>4, <3>5
  <2>. QED
    BY <2>2, <2>3, <2>4 DEF EndsTogether, Is, Feeds
<1>16. WritesResponses'
  <2>1. ASSUME NEW d \in Live, phase'[d] # "respond", Is(sock[d], "sock")', file'[sock[d]].who = d
        PROVE  Gone(OnWrite(sock[d], d), knotes', changes')
    <3>1. sock[d] \in Fd /\ d \in Clients
      BY LiveSocket
    <3>2. Is(sock[d], "sock") /\ file[sock[d]].who = d
      BY <1>2, <2>1, <3>1 DEF Is
    <3>3. phase[d] # "respond"
      BY <1>7, <2>1, <3>1
    <3>4. Gone(OnWrite(sock[d], d), knotes, changes)
      BY <3>2, <3>3 DEF CalmInv, WritesResponses
    <3>5. PICK k : k = OnWrite(sock[d], d)
      OBVIOUS
    <3>6. ASSUME NEW i \in DOMAIN s PROVE s[i] # Add(k)
      <4>1. CASE s[i] = Delete(e.k)
        BY <4>1 DEF Add, Delete
      <4>2. CASE s[i] = Add(OnWrite(sock[c], c)) /\ phase' # phase
        <5>1. c # d
          BY <1>9, <2>1, <4>2
        <5>2. OnWrite(sock[c], c) # k
          BY <3>5, <5>1, EndTold
        <5>. QED
          BY <4>2, <5>2 DEF Add
      <4>. QED
        BY <4>1, <4>2
    <3>7. knotes' \subseteq knotes
      BY <1>2
    <3>8. Gone(k, knotes', changes')
      BY <1>6, <3>4, <3>5, <3>6, <3>7, GoneKept
    <3>. QED
      BY <3>5, <3>8
  <2>2. ASSUME NEW d \in Told', d.k.flt = "WRITE", Is(d.k.f, "sock")'
        PROVE  phase'[d.k.ud] = "respond" /\ \A g \in Fd : ~Feeds(g, d.k.ud)'
    <3>1. d \in Told /\ d.k.f \in Fd /\ d.k.ud \in Clients
      BY <1>3, Reported DEF Live
    <3>2. Is(d.k.f, "sock")
      BY <1>2, <2>2, <3>1 DEF Is
    <3>3. phase[d.k.ud] = "respond" /\ \A g \in Fd : ~Feeds(g, d.k.ud)
      BY <2>2, <3>1, <3>2 DEF CalmInv, WritesResponses
    <3>4. phase'[d.k.ud] = "respond"
      BY <1>7, <3>1, <3>3
    <3>. QED
      BY <1>2, <3>3, <3>4 DEF Feeds, Is
  <2>. QED
    BY <1>8, <2>1, <2>2 DEF WritesResponses
<1>. QED
  BY <1>10, <1>11, <1>12, <1>13, <1>14, <1>15, <1>16 DEF CalmInv

\* A client is disconnected, because its peer's end was told or its filter refused.
LEMMA DisconnectCalm ==
  ASSUME Shaped, CalmInv, NEW c \in Live, NEW e \in batch, e \in Event,
         e.k = OnRead(sock[c], c), e.flag \in {"EOF", "ERR"}, batch' = batch \ {e}, Disconnect(c)
  PROVE  CalmInv'
<1>1. /\ UNCHANGED <<phase, sock, body, feed>> /\ for_close' = Append(for_close, c)
      /\ CloseAll(Held(c))
  BY DEF Disconnect, client
<1>2. c \in Clients /\ sock[c] \in Fd /\ sock[c] \in Held(c) /\ Held(c) \subseteq Fd
  BY LiveSocket DEF Held, Shaped, TypeOK
<1>3. c \notin Leaving
  BY Records DEF CalmInv, LeavingOnce
<1>4. /\ \A g \in Held(c) : file'[g] = Closed
      /\ \A g \in Fd \ Held(c) : file'[g] = file[g]
      /\ knotes' = {k \in knotes : k.f \notin Held(c)}
  BY <1>1, <1>2 DEF CloseAll
<1>5. \A g \in Fd : file'[g] # Closed =>
        file[g] # Closed /\ g \notin Held(c) /\ file'[g] = file[g] /\ file[g].who # c
  BY <1>4, Owned
<1>6. \A d \in Live \ Leaving : d # c => \A g \in Held(d) : file'[g] = file[g] \/ file'[g] = Closed
  BY <1>4 DEF Held, Live, Shaped, TypeOK
<1>7. Told' \subseteq Told
  BY DEF Told
<1>8. /\ \A g, d : g # sock[c] /\ EndRead(g, d) \in batch => EndRead(g, d) \in batch'
      /\ \A g, d : d # c /\ EndRead(g, d) \in batch => EndRead(g, d) \in batch'
      /\ \A g, d : EndWrite(g, d) \in batch => EndWrite(g, d) \in batch'
  BY EndTold
<1>9. PICK s \in Seq(Change) : /\ changes' = changes \o s
                               /\ \A i \in DOMAIN s : s[i] = Delete(OnWrite(feed[c], c)) /\ feed[c] # NoFd
  <2>1. changes \in Seq(Change)
    BY DEF Shaped, TypeOK
  <2>2. CASE feed[c] = NoFd
    <3>1. changes' = changes \o <<>> /\ <<>> \in Seq(Change)
      BY <2>1, <2>2, Appended DEF Disconnect
    <3>2. \A i \in DOMAIN <<>> : <<>>[i] = Delete(OnWrite(feed[c], c)) /\ feed[c] # NoFd
      OBVIOUS
    <3>. QED
      BY <3>1, <3>2
  <2>3. CASE feed[c] # NoFd
    <3>. DEFINE ch == Delete(OnWrite(feed[c], c))
                t  == <<ch>>
    <3>1. ch \in Change
      BY <1>2, <2>3, Asked DEF Shaped, TypeOK
    <3>2. changes' = changes \o t /\ t \in Seq(Change)
      BY <2>1, <2>3, <3>1, Appended DEF Disconnect
    <3>3. \A i \in DOMAIN t : t[i] = ch /\ feed[c] # NoFd
      BY <2>3
    <3>. HIDE DEF t
    <3>. QED
      BY <3>2, <3>3
  <2>. QED
    BY <2>2, <2>3
<1>10. /\ changes' \in Seq(Change) /\ Pending' = Pending \cup {s[i] : i \in DOMAIN s}
       /\ changes \in Seq(Change) /\ for_close \in Seq(Clients)
  BY <1>9, PendingAppend DEF Shaped, TypeOK
<1>11. /\ Live' = Live
       /\ DOMAIN for_close' = 1 .. Len(for_close) + 1
       /\ DOMAIN for_close = 1 .. Len(for_close) /\ Len(for_close) \in Nat
       /\ \A i \in DOMAIN for_close : for_close'[i] = for_close[i]
       /\ for_close'[Len(for_close) + 1] = c
  BY <1>1, <1>2, <1>10 DEF Live
<1>12. Leaving' = Leaving \cup {c}
  <2>1. \A i \in DOMAIN for_close' : for_close'[i] \in Leaving \cup {c}
    BY <1>11 DEF Leaving
  <2>2. Len(for_close) + 1 \in DOMAIN for_close'
    BY <1>11
  <2>3. \A i \in DOMAIN for_close : i \in DOMAIN for_close'
    BY <1>11
  <2>4. Leaving \cup {c} \subseteq {for_close'[i] : i \in DOMAIN for_close'}
    BY <1>11, <2>2, <2>3 DEF Leaving
  <2>. QED
    BY <2>1, <2>4 DEF Leaving
<1>13. FilesKept'
  <2>. SUFFICES ASSUME NEW g \in Fd, file'[g] # Closed
                PROVE  LET d == file[g].who
                       IN  /\ d \in Live \ Leaving /\ d # c
                           /\ Is(g, "sock")   => g = sock[d]
                           /\ Is(g, "page")   => g = body[d] /\ phase[d] = "page"
                           /\ Is(g, "upload") => g = body[d] /\ phase[d] = "upload"
                           /\ Is(g, "pipe")   => g = body[d] /\ phase[d] \in {"post", "cgi"}
                           /\ Is(g, "feed")   => g = feed[d] /\ phase[d] \in {"post", "cgi", "respond"}
                           /\ Is(g, "feed") /\ phase[d] = "respond" => EndWrite(g, d) \in batch'
                           /\ Is(g, "feed") /\ phase[d] = "cgi" =>
                                OnWrite(g, d) \in knotes' \/ Add(OnWrite(g, d)) \in Pending'
                       /\ file'[g] = file[g]
    BY <1>1, <1>11, <1>12 DEF FilesKept, Is, Free
  <2>1. g \notin Held(c) /\ file'[g] = file[g] /\ file[g] # Closed /\ g \in Fd \ Free /\ file[g].who # c
    BY <1>5 DEF Free
  <2>2. OnWrite(g, file[g].who) \in knotes => OnWrite(g, file[g].who) \in knotes'
    BY <1>4, <2>1, EndTold
  <2>. QED
    BY <1>8, <1>10, <2>1, <2>2 DEF CalmInv, FilesKept, Is
<1>14. FiltersKept'
  <2>1. \A k \in Knote : Ours(k) => Ours(k)'
    BY <1>4, Records DEF Ours, Fits, Knote
  <2>2. \A k \in knotes' : k.flt # "PROC" => file'[k.f] # Closed /\ Ours(k)'
    <3>. SUFFICES ASSUME NEW k \in knotes', k.flt # "PROC" PROVE file'[k.f] # Closed /\ Ours(k)'
      OBVIOUS
    <3>1. k \in knotes /\ k.f \notin Held(c)
      BY <1>4
    <3>2. k \in Knote /\ k.f \in Fd
      BY <3>1, Records DEF Shaped, TypeOK
    <3>3. file'[k.f] = file[k.f]
      BY <1>4, <3>1, <3>2
    <3>. QED
      BY <2>1, <3>1, <3>2, <3>3 DEF CalmInv, FiltersKept
  <2>3. \A ch \in Pending : ch.k.flt # "PROC" => ch.k \in Knote
    BY Records DEF Pending, Shaped, TypeOK
  <2>4. ASSUME NEW i \in DOMAIN s
        PROVE  Ours(s[i].k)' /\ file'[s[i].k.f] = Closed
    <3>1. s[i].k.f = feed[c] /\ feed[c] \in Held(c)
      BY <1>9 DEF Delete, OnWrite, Held
    <3>. QED
      BY <1>4, <3>1 DEF Ours
  <2>5. \A ch \in Pending' : ch.k.flt # "PROC" => Ours(ch.k)'
    BY <1>10, <2>1, <2>3, <2>4 DEF CalmInv, FiltersKept
  <2>6. \A ch \in Pending : ch.op = "DELETE" => ch.k \in Knote /\ ch.k.f \in Fd
    BY Records, <2>3 DEF Shaped, RoundKnown
  <2>7. \A ch \in Pending' : ch.op = "DELETE" => file'[ch.k.f] = Closed \/ Is(ch.k.f, "sock")'
    BY <1>4, <1>10, <2>4, <2>6 DEF CalmInv, FiltersKept, Is
  <2>8. \A d \in Told' : d.k.ud \in Live' /\ Ours(d.k)'
    BY <1>7, <1>11, <2>1, Reported
  <2>. QED
    BY <2>2, <2>5, <2>7, <2>8 DEF FiltersKept
<1>15. FieldsOwn'
  BY <1>1, <1>6, <1>11, <1>12 DEF CalmInv, FieldsOwn, Held
<1>16. Listened'
  <2>. SUFFICES ASSUME NEW d \in Live \ Leaving, d # c
                PROVE  \/ EndRead(sock[d], d) \in batch'
                       \/ /\ Is(sock[d], "sock")' /\ file'[sock[d]].who = d
                          /\ OnRead(sock[d], d) \in knotes' \/ Add(OnRead(sock[d], d)) \in Pending'
    BY <1>1, <1>11, <1>12 DEF Listened
  <2>1. CASE EndRead(sock[d], d) \in batch
    BY <1>8, <2>1
  <2>2. CASE EndRead(sock[d], d) \notin batch
    <3>1. /\ Is(sock[d], "sock") /\ file[sock[d]].who = d
          /\ OnRead(sock[d], d) \in knotes \/ Add(OnRead(sock[d], d)) \in Pending
      BY <2>2 DEF CalmInv, Listened
    <3>2. sock[d] \in Fd
      BY LiveSocket
    <3>3. sock[d] \notin Held(c)
      BY <1>3, <3>1 DEF CalmInv, FieldsOwn, Is
    <3>4. file'[sock[d]] = file[sock[d]]
      BY <1>4, <3>2, <3>3
    <3>5. OnRead(sock[d], d) \in knotes => OnRead(sock[d], d) \in knotes'
      BY <1>4, <3>3, EndTold
    <3>. QED
      BY <1>1, <1>10, <3>1, <3>4, <3>5 DEF Is
  <2>. QED
    BY <2>1, <2>2
<1>17. LeavingOnce'
  <2>1. ASSUME NEW i \in DOMAIN for_close', NEW j \in DOMAIN for_close', for_close'[i] = for_close'[j]
        PROVE  i = j
    <3>1. \A n \in DOMAIN for_close' : n \in DOMAIN for_close \/ n = Len(for_close) + 1
      BY <1>11
    <3>2. \A n \in DOMAIN for_close : for_close'[n] # c
      BY <1>3, <1>11 DEF Leaving
    <3>. QED
      BY <1>11, <2>1, <3>1, <3>2 DEF CalmInv, LeavingOnce
  <2>2. \A i \in DOMAIN for_close' : for_close'[i] \in Live'
    <3>1. \A n \in DOMAIN for_close' : n \in DOMAIN for_close \/ n = Len(for_close) + 1
      BY <1>11
    <3>. QED
      BY <1>11, <3>1 DEF CalmInv, LeavingOnce
  <2>3. ASSUME NEW d \in batch', d # Accept, d.k = OnRead(sock[c], c) PROVE d.flag = ""
    <3>1. d \in batch /\ d # e /\ d \in Event
      BY <2>3 DEF Shaped, TypeOK
    <3>2. d = [k |-> d.k, flag |-> d.flag] /\ e = [k |-> e.k, flag |-> e.flag] /\ e # Accept
      BY <3>1, Records
    <3>3. d.flag # e.flag
      BY <2>3, <3>1, <3>2
    <3>4. d.flag = "ERR" <=> e.flag = "ERR"
      BY <3>1 DEF Shaped, RoundKnown
    <3>5. d \in Told /\ e \in Told
      <4>1. d.k.flt = "READ" /\ e.k.flt = "READ"
        BY <2>3, EndTold
      <4>. QED
        BY <2>3, <3>1, <3>2, <3>3, <3>4, <4>1 DEF Told
    <3>6. d = e
      BY <2>3, <3>5 DEF Shaped, RoundKnown
    <3>. QED
      BY <3>1, <3>6
  <2>4. \A d \in Leaving' : \A x \in batch' : x # Accept /\ x.k = OnRead(sock'[d], d) => x.flag = ""
    BY <1>1, <1>12, <2>3 DEF CalmInv, LeavingOnce
  <2>. QED
    BY <2>1, <2>2, <2>4 DEF LeavingOnce
<1>18. EndsTogether'
  <2>1. \A g \in Fd : \A d : /\ Feeds(g, d)' => Feeds(g, d)
                             /\ \A kind : Is(g, kind)' => Is(g, kind) /\ g # sock[c]
    BY <1>2, <1>5 DEF Feeds, Is
  <2>2. ASSUME NEW d \in Told', d.flag = "EOF", d.k.flt = "WRITE", Is(d.k.f, "sock")'
        PROVE  EndRead(d.k.f, d.k.ud) \in batch'
    <3>1. d \in Told /\ d.k.f \in Fd
      BY <1>7, Reported
    <3>2. Is(d.k.f, "sock") /\ d.k.f # sock[c]
      BY <2>1, <2>2, <3>1
    <3>. QED
      BY <1>8, <2>2, <3>1, <3>2 DEF CalmInv, EndsTogether
  <2>3. ASSUME NEW d \in Told', d.flag = "EOF", d.k.flt = "READ", Is(d.k.f, "pipe")'
        PROVE  /\ phase'[d.k.ud] = "cgi"
               /\ \A g \in Fd : Feeds(g, d.k.ud)' => EndWrite(g, d.k.ud) \in batch'
    <3>1. d \in Told /\ d.k.f \in Fd
      BY <1>7, Reported
    <3>2. Is(d.k.f, "pipe")
      BY <2>1, <2>3, <3>1
    <3>3. /\ phase[d.k.ud] = "cgi"
          /\ \A g \in Fd : Feeds(g, d.k.ud) => EndWrite(g, d.k.ud) \in batch
      BY <2>3, <3>1, <3>2 DEF CalmInv, EndsTogether
    <3>. QED
      BY <1>1, <1>8, <2>1, <3>3
  <2>4. ASSUME NEW p \in Fd, Is(p, "pipe")', file'[p].end # "open"
        PROVE  /\ phase'[file'[p].who] # "post"
               /\ \A g \in Fd : Feeds(g, file[p].who)' => file'[g].end = "reset"
               /\ file'[p] = file[p]
    <3>1. Is(p, "pipe") /\ file'[p] = file[p] /\ file[p] # Closed
      BY <1>5, <2>1, <2>4 DEF Is
    <3>2. /\ phase[file[p].who] # "post"
          /\ \A g \in Fd : Feeds(g, file[p].who) => file[g].end = "reset"
      BY <2>4, <3>1 DEF CalmInv, EndsTogether
    <3>3. ASSUME NEW g \in Fd, Feeds(g, file[p].who)' PROVE file'[g].end = "reset"
      <4>1. Feeds(g, file[p].who) /\ file'[g] = file[g]
        BY <1>5, <3>1, <3>3 DEF Feeds, Is
      <4>. QED
        BY <3>2, <4>1
    <3>. QED
      BY <1>1, <3>1, <3>2, <3>3
  <2>. QED
    BY <2>2, <2>3, <2>4 DEF EndsTogether, Is, Feeds
<1>19. WritesResponses'
  <2>1. ASSUME NEW d \in Live, phase'[d] # "respond", Is(sock[d], "sock")', file'[sock[d]].who = d
        PROVE  Gone(OnWrite(sock[d], d), knotes', changes')
    <3>1. sock[d] \in Fd /\ d \in Clients
      BY LiveSocket
    <3>2. Is(sock[d], "sock") /\ file[sock[d]].who = d
      BY <1>1, <1>5, <2>1, <3>1 DEF Is
    <3>3. Gone(OnWrite(sock[d], d), knotes, changes)
      BY <1>1, <2>1, <3>2 DEF CalmInv, WritesResponses
    <3>4. PICK k : k = OnWrite(sock[d], d)
      OBVIOUS
    <3>5. \A i \in DOMAIN s : s[i] # Add(k)
      BY <1>9 DEF Add, Delete
    <3>6. knotes' \subseteq knotes
      BY <1>4
    <3>7. Gone(k, knotes', changes')
      BY <1>9, <1>10, <3>3, <3>4, <3>5, <3>6, GoneKept
    <3>. QED
      BY <3>4, <3>7
  <2>2. ASSUME NEW d \in Told', d.k.flt = "WRITE", Is(d.k.f, "sock")'
        PROVE  phase'[d.k.ud] = "respond" /\ \A g \in Fd : ~Feeds(g, d.k.ud)'
    <3>1. d \in Told /\ d.k.f \in Fd
      BY <1>7, Reported
    <3>2. Is(d.k.f, "sock")
      BY <1>5, <2>2, <3>1 DEF Is
    <3>3. phase[d.k.ud] = "respond" /\ \A g \in Fd : ~Feeds(g, d.k.ud)
      BY <2>2, <3>1, <3>2 DEF CalmInv, WritesResponses
    <3>. QED
      BY <1>1, <1>5, <3>3 DEF Feeds, Is
  <2>. QED
    BY <1>1, <1>11, <2>1, <2>2 DEF WritesResponses
<1>. QED
  BY <1>13, <1>14, <1>15, <1>16, <1>17, <1>18, <1>19 DEF CalmInv

\* A client that has nothing but its socket open begins its next request.
LEMMA BeginCalm ==
  ASSUME Shaped, CalmInv, calm', NEW c \in Live, NEW e \in Told, e.flag # "EOF",
         e.k.f = sock[c], e.k.ud = c, sock[c] \notin Free, batch' = batch \ {e},
         UNCHANGED <<sock, knotes, for_close>>, NEW asked \in Seq(Change), NextRequest(c, asked),
         \/ phase[c] = "idle" /\ asked = changes
         \/ phase[c] = "respond" /\ e.k.flt = "WRITE" /\ asked = Append(changes, Delete(e.k))
  PROVE  CalmInv'
<1>1. c \in Clients /\ sock[c] \in Fd /\ NoFd \notin Fd /\ file[sock[c]] # Closed
  BY LiveSocket DEF Free
<1>2. /\ e.k = OnRead(sock[c], c) \/ e.k = OnWrite(sock[c], c)
      /\ e.k.flt = "WRITE" => e.k = OnWrite(sock[c], c)
      /\ e \in batch /\ Ours(e.k)
  BY Reported
<1>3. Is(sock[c], "sock") /\ file[sock[c]].who = c /\ c \notin Leaving
  <2>1. file[sock[c]].who = c /\ c \notin Leaving
    BY <1>1, <1>2, Owned DEF Ours
  <2>2. file[sock[c]].kind \notin {"page", "upload", "pipe"}
    BY <1>1, <2>1 DEF CalmInv, FilesKept, Is
  <2>3. ASSUME file[sock[c]].kind = "feed" PROVE FALSE
    <3>1. e.k.flt = "WRITE"
      BY <1>1, <1>2, <2>3, EndTold DEF Ours, Fits
    <3>2. EndWrite(sock[c], c) \in batch
      BY <1>1, <2>1, <2>3 DEF CalmInv, FilesKept, Is
    <3>3. EndWrite(sock[c], c) \in Told /\ EndWrite(sock[c], c).k = e.k
      BY <1>2, <3>1, <3>2, EndTold
    <3>4. e = EndWrite(sock[c], c)
      BY <3>3 DEF Shaped, RoundKnown
    <3>. QED
      BY <3>4, EndTold
  <2>. QED
    BY <1>1, <2>1, <2>2, <2>3, Owned DEF Is, Kinds
<1>4. ASSUME NEW g \in Fd, file[g] # Closed, file[g].who = c PROVE g = sock[c] /\ file[g].kind = "sock"
  <2>1. file[g].kind \in {"sock", "feed"}
    BY <1>1, <1>4, Owned DEF CalmInv, FilesKept, Is, Kinds
  <2>2. ASSUME file[g].kind = "feed" PROVE FALSE
    <3>1. phase[c] = "respond" /\ Feeds(g, c)
      BY <1>1, <1>4, <2>2, Owned DEF CalmInv, FilesKept, Feeds, Is
    <3>. QED
      BY <1>3, <3>1 DEF CalmInv, WritesResponses
  <2>. QED
    BY <1>1, <1>4, <2>1, <2>2, Owned DEF CalmInv, FilesKept, Is
<1>5. PICK ph, b, kind, w, s : Begin(c, ph, b, kind, w, asked \o s) /\ Fresh(c, ph, b, kind, w, s)
  BY <1>1, Requested
<1>. DEFINE New == {b, w} \ {NoFd}
<1>6. /\ phase' = [phase EXCEPT ![c] = ph] /\ body' = [body EXCEPT ![c] = b]
      /\ feed' = [feed EXCEPT ![c] = w] /\ changes' = asked \o s
      /\ file' = [g \in Fd |-> IF g = b THEN Opened(c, kind)
                               ELSE IF g = w THEN Opened(c, "feed") ELSE file[g]]
  BY <1>5 DEF Begin
<1>7. ~Disturbed(New, c, batch')
  <2>1. calm' = (calm /\ ~Disturbed(New, c, batch'))
    BY <1>5 DEF Begin
  <2>. QED
    BY <2>1, Zenon
<1>8. /\ New \subseteq Free /\ New \subseteq Fd /\ sock[c] \notin New
      /\ \A g \in Fd \ New : file'[g] = file[g]
      /\ \A g \in New : file'[g].who = c /\ file'[g] # Closed /\ file'[g].end = "open"
      /\ b \in New => file'[b].kind = kind
      /\ w \in New => file'[w].kind = "feed" /\ w # b
  <2>1. b \in Free \cup {NoFd} /\ w \in Free \cup {NoFd} /\ (w # NoFd => w # b)
    BY <1>5 DEF Fresh
  <2>2. New \subseteq Free /\ New \subseteq Fd /\ sock[c] \notin New
    BY <2>1 DEF Free
  <2>3. \A kd \in {kind, "feed"} : /\ Opened(c, kd).who = c /\ Opened(c, kd).end = "open"
                                   /\ Opened(c, kd).kind = kd /\ Opened(c, kd) # Closed
    BY DEF Opened, Closed
  <2>. QED
    BY <1>1, <1>6, <2>1, <2>2, <2>3
<1>9. /\ \A g \in New, x \in batch' : x # Accept => x.k.f # g
      /\ \A g \in New, ch \in Pending : ch.k.f # g
      /\ \A g \in New, d \in Clients \ {c} : phase[d] \notin {"none", "idle"} =>
            g \notin {sock[d], body[d], feed[d]}
  BY <1>7 DEF Disturbed, Mentioned, Remembered, Pending
<1>10. Told' \subseteq Told
  BY DEF Told
<1>11. \A g, d : /\ EndRead(g, d) \in batch => EndRead(g, d) \in batch'
                 /\ EndWrite(g, d) \in batch => EndWrite(g, d) \in batch'
  BY EndTold
<1>12. /\ \A d \in Clients \ {c} : phase'[d] = phase[d] /\ body'[d] = body[d] /\ feed'[d] = feed[d]
       /\ phase'[c] = ph /\ body'[c] = b /\ feed'[c] = w
       /\ phase[c] # "none" /\ ph # "none"
  <2>1. ph # "none"
    BY <1>5 DEF Fresh
  <2>. QED
    BY <1>1, <1>6, <2>1 DEF Shaped, TypeOK, Live
<1>13. Leaving' = Leaving /\ Live' = Live
  BY <1>1, <1>12 DEF Leaving, Live
<1>14. ASSUME NEW d \in Live \ Leaving, d # c, NEW g \in New PROVE g \notin Held(d)
  <2>1. d \in Clients /\ phase[d] # "none" /\ g # NoFd /\ g \in Fd /\ file[g] = Closed
    BY <1>1, <1>8 DEF Live, Free
  <2>2. CASE phase[d] # "idle"
    BY <1>9, <1>14, <2>1, <2>2 DEF Held
  <2>3. CASE phase[d] = "idle"
    <3>1. body[d] = NoFd /\ feed[d] = NoFd
      BY <2>1, <2>3 DEF Shaped, FieldsKnown
    <3>2. ASSUME g = sock[d] PROVE FALSE
      <4>1. EndRead(g, d) \in batch
        BY <2>1, <3>2 DEF CalmInv, Listened, Is
      <4>2. EndRead(g, d) \in batch' /\ EndRead(g, d) # Accept
        BY <1>11, <4>1, EndTold DEF Told
      <4>3. EndRead(g, d).k.f # g
        BY <1>9, <4>2
      <4>. QED
        BY <4>3, EndTold
    <3>. QED
      BY <2>1, <3>1, <3>2 DEF Held
  <2>. QED
    BY <2>2, <2>3
<1>15. PICK t \in Seq(Change) :
         /\ changes' = changes \o t
         /\ \A i \in DOMAIN s : \E j \in DOMAIN t : t[j] = s[i]
         /\ \A i \in DOMAIN t : \/ t[i] = Delete(OnWrite(sock[c], c)) /\ phase[c] = "respond"
                                \/ \E j \in DOMAIN s : t[i] = s[j]
  <2>1. s \in Seq(Change) /\ changes \in Seq(Change)
    BY <1>5 DEF Fresh, Shaped, TypeOK
  <2>2. CASE asked = changes
    BY <1>6, <2>1, <2>2
  <2>3. CASE phase[c] = "respond" /\ e.k.flt = "WRITE" /\ asked = Append(changes, Delete(e.k))
    <3>. DEFINE x == Delete(OnWrite(sock[c], c))
                t == <<x>> \o s
    <3>1. e.k = OnWrite(sock[c], c) /\ x \in Change
      BY <1>1, <1>2, <2>3, Asked
    <3>. HIDE DEF x
    <3>2. t \in Seq(Change) /\ DOMAIN t = 1 .. Len(s) + 1 /\ t[1] = x
          /\ (\A i \in DOMAIN s : i + 1 \in DOMAIN t /\ t[i + 1] = s[i])
          /\ DOMAIN s = 1 .. Len(s) /\ Len(s) \in Nat
      BY <2>1, <3>1
    <3>3. asked = Append(changes, x)
      BY <2>3, <3>1 DEF x
    <3>4. changes' = changes \o t
      BY <1>6, <2>1, <3>1, <3>3
    <3>5. \A i \in DOMAIN t : t[i] = x \/ \E j \in DOMAIN s : t[i] = s[j]
      <4>1. ASSUME NEW i \in DOMAIN t, i # 1 PROVE i - 1 \in DOMAIN s /\ t[i] = s[i - 1]
        BY <3>2, <4>1
      <4>. QED
        BY <3>2, <4>1
    <3>. HIDE DEF t
    <3>. QED
      BY <2>3, <3>2, <3>4, <3>5 DEF x
  <2>. QED
    BY <2>2, <2>3
<1>16. /\ changes' \in Seq(Change) /\ Pending' = Pending \cup {t[i] : i \in DOMAIN t}
       /\ changes \in Seq(Change) /\ Pending \subseteq Pending'
       /\ \A i \in DOMAIN s : s[i] \in Pending'
  <2>1. changes' \in Seq(Change) /\ Pending' = Pending \cup {t[i] : i \in DOMAIN t} /\ changes \in Seq(Change)
    BY <1>15, PendingAppend DEF Shaped, TypeOK
  <2>. QED
    BY <1>15, <2>1
<1>17. FilesKept'
  <2>. SUFFICES ASSUME NEW g \in Fd, file'[g] # Closed
                PROVE  LET d == file'[g].who
                           kd == file'[g].kind
                       IN  /\ d \in Live \ Leaving
                           /\ kd = "sock"   => g = sock[d]
                           /\ kd = "page"   => g = body'[d] /\ phase'[d] = "page"
                           /\ kd = "upload" => g = body'[d] /\ phase'[d] = "upload"
                           /\ kd = "pipe"   => g = body'[d] /\ phase'[d] \in {"post", "cgi"}
                           /\ kd = "feed"   => g = feed'[d] /\ phase'[d] \in {"post", "cgi", "respond"}
                           /\ kd = "feed" /\ phase'[d] = "respond" => EndWrite(g, d) \in batch'
                           /\ kd = "feed" /\ phase'[d] = "cgi" =>
                                OnWrite(g, d) \in knotes' \/ Add(OnWrite(g, d)) \in Pending'
    BY <1>13 DEF FilesKept, Is, Free
  <2>1. CASE g \in New
    <3>1. file'[g].who = c /\ c \in Live \ Leaving
      BY <1>3, <1>8, <2>1
    <3>2. CASE g = b
      <4>1. \/ kind \in {"page", "upload"} /\ ph = kind
            \/ kind = "pipe" /\ ph \in {"post", "cgi"}
        BY <1>5, <2>1, <3>2 DEF Fresh
      <4>. QED
        BY <1>8, <1>12, <2>1, <3>1, <3>2, <4>1
    <3>3. CASE g = w
      <4>1. ph \in {"post", "cgi"} /\ (ph = "cgi" => Add(OnWrite(w, c)) \in Pending')
        BY <1>5, <1>16, <2>1, <3>3 DEF Fresh
      <4>. QED
        BY <1>8, <1>12, <2>1, <3>1, <3>3, <4>1
    <3>. QED
      BY <2>1, <3>2, <3>3
  <2>2. CASE g \notin New
    <3>1. file'[g] = file[g] /\ file[g] # Closed /\ g \in Fd \ Free
      BY <1>8, <2>2 DEF Free
    <3>2. CASE file[g].who = c
      BY <1>1, <1>3, <1>4, <3>1, <3>2
    <3>3. CASE file[g].who # c
      <4>1. file[g].who \in Clients
        BY <3>1, Owned
      <4>. QED
        BY <1>11, <1>12, <1>16, <3>1, <3>3, <4>1 DEF CalmInv, FilesKept, Is
    <3>. QED
      BY <3>2, <3>3
  <2>. QED
    BY <2>1, <2>2
<1>18. FiltersKept'
  <2>1. \A k \in Knote : (Ours(k) /\ k.f \notin New) => Ours(k)'
    BY <1>8 DEF Ours, Fits, Knote
  <2>2. ASSUME NEW k \in knotes', k.flt # "PROC" PROVE file'[k.f] # Closed /\ Ours(k)'
    <3>1. k \in Knote /\ k.f \in Fd /\ file[k.f] # Closed /\ Ours(k)
      BY <2>2, Records DEF Shaped, TypeOK, CalmInv, FiltersKept
    <3>2. k.f \notin New
      BY <1>8, <3>1 DEF Free
    <3>. QED
      BY <1>8, <2>1, <3>1, <3>2
  <2>3. \A ch \in Pending : ch.k.flt # "PROC" => ch.k \in Knote
    BY Records DEF Pending, Shaped, TypeOK
  <2>4. Ours(OnRead(sock[c], c))' /\ Ours(OnWrite(sock[c], c))' /\ Is(sock[c], "sock")'
    <3>1. file'[sock[c]] = file[sock[c]]
      BY <1>1, <1>8
    <3>. QED
      BY <1>3, <3>1, EndTold DEF Ours, Fits, Is
  <2>5. ASSUME NEW i \in DOMAIN s
        PROVE  s[i].op = "ADD" /\ (s[i].k.flt # "PROC" => Ours(s[i].k)')
    <3>1. CASE s[i] = Add(OnExit(c))
      BY <3>1 DEF Add, OnExit
    <3>2. CASE s[i] = Add(OnRead(sock[c], c)) \/ s[i] = Add(OnWrite(sock[c], c))
      BY <2>4, <3>2 DEF Add
    <3>3. CASE s[i] = Add(OnRead(b, c)) /\ b \in Free /\ kind \in {"page", "pipe"}
      <4>1. b \in New
        BY <1>1, <3>3 DEF Free
      <4>2. Ours(OnRead(b, c))'
        BY <1>8, <3>3, <4>1, EndTold DEF Ours, Fits
      <4>. QED
        BY <3>3, <4>2 DEF Add
    <3>4. CASE s[i] = Add(OnWrite(b, c)) /\ b \in Free /\ kind = "upload"
      <4>1. b \in New
        BY <1>1, <3>4 DEF Free
      <4>2. Ours(OnWrite(b, c))'
        BY <1>8, <3>4, <4>1, EndTold DEF Ours, Fits
      <4>. QED
        BY <3>4, <4>2 DEF Add
    <3>5. CASE s[i] = Add(OnWrite(w, c)) /\ w \in Free
      <4>1. w \in New
        BY <1>1, <3>5 DEF Free
      <4>2. Ours(OnWrite(w, c))'
        BY <1>8, <3>5, <4>1, EndTold DEF Ours, Fits
      <4>. QED
        BY <3>5, <4>2 DEF Add
    <3>. QED
      BY <1>5, <3>1, <3>2, <3>3, <3>4, <3>5 DEF Fresh
  <2>6. ASSUME NEW i \in DOMAIN t
        PROVE  /\ t[i].k.flt # "PROC" => Ours(t[i].k)'
               /\ t[i].op = "DELETE" => Is(t[i].k.f, "sock")'
    <3>1. CASE t[i] = Delete(OnWrite(sock[c], c))
      BY <2>4, <3>1, EndTold DEF Delete, Is
    <3>2. CASE \E j \in DOMAIN s : t[i] = s[j]
      BY <2>5, <3>2
    <3>. QED
      BY <1>15, <3>1, <3>2
  <2>7. ASSUME NEW ch \in Pending', ch.k.flt # "PROC" PROVE Ours(ch.k)'
    <3>1. CASE ch \in Pending
      <4>1. ch.k \in Knote /\ ch.k.f \notin New /\ Ours(ch.k)
        BY <1>9, <2>3, <2>7, <3>1 DEF CalmInv, FiltersKept
      <4>. QED
        BY <2>1, <4>1
    <3>. QED
      BY <1>16, <2>6, <2>7, <3>1
  <2>8. ASSUME NEW ch \in Pending', ch.op = "DELETE" PROVE file'[ch.k.f] = Closed \/ Is(ch.k.f, "sock")'
    <3>1. CASE ch \in Pending
      <4>1. ch.k.f \in Fd /\ ch.k.f \notin New
        BY <1>9, <2>3, <2>8, <3>1, Records DEF Shaped, RoundKnown
      <4>. QED
        BY <1>8, <2>8, <3>1, <4>1 DEF CalmInv, FiltersKept, Is
    <3>. QED
      BY <1>16, <2>6, <2>8, <3>1
  <2>9. ASSUME NEW d \in Told' PROVE d.k.ud \in Live' /\ Ours(d.k)'
    <3>1. d \in Told /\ d \in batch' /\ d # Accept
      BY <1>10 DEF Told
    <3>. QED
      BY <1>9, <1>13, <2>1, <3>1, Reported
  <2>. QED
    BY <2>2, <2>7, <2>8, <2>9 DEF FiltersKept
<1>19. FieldsOwn'
  <2>. SUFFICES ASSUME NEW d \in Live \ Leaving, NEW g \in Held(d)'
                PROVE  file'[g] = Closed \/ file'[g].who = d
    BY <1>13 DEF FieldsOwn
  <2>1. CASE d = c
    <3>1. g \in {sock[c], b, w} \ {NoFd}
      BY <1>12, <2>1 DEF Held
    <3>. QED
      BY <1>1, <1>3, <1>8, <2>1, <3>1
  <2>2. CASE d # c
    <3>1. g \in Held(d) /\ g \in Fd
      BY <1>12, <2>2 DEF Held, Live, Shaped, TypeOK
    <3>2. g \notin New
      BY <1>14, <2>2, <3>1
    <3>. QED
      BY <1>8, <3>1, <3>2 DEF CalmInv, FieldsOwn
  <2>. QED
    BY <2>1, <2>2
<1>20. Listened'
  <2>. SUFFICES ASSUME NEW d \in Live \ Leaving
                PROVE  \/ EndRead(sock[d], d) \in batch'
                       \/ /\ Is(sock[d], "sock")' /\ file'[sock[d]].who = d
                          /\ OnRead(sock[d], d) \in knotes' \/ Add(OnRead(sock[d], d)) \in Pending'
    BY <1>13 DEF Listened
  <2>1. CASE EndRead(sock[d], d) \in batch
    BY <1>11, <2>1
  <2>2. CASE EndRead(sock[d], d) \notin batch
    <3>1. /\ Is(sock[d], "sock") /\ file[sock[d]].who = d
          /\ OnRead(sock[d], d) \in knotes \/ Add(OnRead(sock[d], d)) \in Pending
      BY <2>2 DEF CalmInv, Listened
    <3>2. sock[d] \in Fd /\ sock[d] \notin New
      BY <1>8, <3>1, LiveSocket DEF Is, Free
    <3>3. file'[sock[d]] = file[sock[d]]
      BY <1>8, <3>2
    <3>. QED
      BY <1>16, <3>1, <3>3 DEF Is
  <2>. QED
    BY <2>1, <2>2
<1>21. LeavingOnce'
  BY <1>13 DEF CalmInv, LeavingOnce
<1>22. ASSUME NEW d \in Told'
       PROVE  /\ d \in Told /\ d.k.f \in Fd /\ d.k.ud \in Clients /\ Ours(d.k)
              /\ file'[d.k.f] = file[d.k.f]
  <2>1. d \in Told /\ d \in batch' /\ d # Accept
    BY <1>10 DEF Told
  <2>2. d.k.f \notin New
    BY <1>9, <2>1
  <2>. QED
    BY <1>8, <2>1, <2>2, Reported DEF Live
<1>23. \A g \in Fd : \A d : Feeds(g, d)' /\ d # c => Feeds(g, d) /\ file'[g] = file[g]
  BY <1>8 DEF Feeds, Is
<1>24. EndsTogether'
  <2>1. ASSUME NEW d \in Told', d.flag = "EOF", d.k.flt = "WRITE", Is(d.k.f, "sock")'
        PROVE  EndRead(d.k.f, d.k.ud) \in batch'
    BY <1>11, <1>22, <2>1 DEF CalmInv, EndsTogether, Is
  <2>2. ASSUME NEW d \in Told', d.flag = "EOF", d.k.flt = "READ", Is(d.k.f, "pipe")'
        PROVE  /\ phase'[d.k.ud] = "cgi"
               /\ \A g \in Fd : Feeds(g, d.k.ud)' => EndWrite(g, d.k.ud) \in batch'
    <3>1. d \in Told /\ d.k.ud \in Clients /\ Is(d.k.f, "pipe")
      BY <1>22, <2>2 DEF Is
    <3>2. /\ phase[d.k.ud] = "cgi"
          /\ \A g \in Fd : Feeds(g, d.k.ud) => EndWrite(g, d.k.ud) \in batch
      BY <2>2, <3>1 DEF CalmInv, EndsTogether
    <3>3. d.k.ud # c
      BY <3>2
    <3>. QED
      BY <1>11, <1>12, <1>23, <3>1, <3>2, <3>3
  <2>3. ASSUME NEW p \in Fd, Is(p, "pipe")', file'[p].end # "open"
        PROVE  /\ phase'[file'[p].who] # "post"
               /\ \A g \in Fd : Feeds(g, file[p].who)' => file'[g].end = "reset"
               /\ file'[p] = file[p]
    <3>1. p \notin New
      BY <1>8, <2>3
    <3>2. file'[p] = file[p] /\ Is(p, "pipe")
      BY <1>8, <2>3, <3>1 DEF Is
    <3>3. file[p].who # c /\ file[p].who \in Clients
      BY <1>4, <3>2, Owned DEF Is
    <3>4. /\ phase[file[p].who] # "post"
          /\ \A g \in Fd : Feeds(g, file[p].who) => file[g].end = "reset"
      BY <2>3, <3>2 DEF CalmInv, EndsTogether
    <3>. QED
      BY <1>12, <1>23, <3>2, <3>3, <3>4
  <2>. QED
    BY <2>1, <2>2, <2>3 DEF EndsTogether, Is, Feeds
<1>25. ASSUME ph # "respond" PROVE Gone(OnWrite(sock[c], c), knotes', changes')
  <2>1. PICK k : k = OnWrite(sock[c], c)
    OBVIOUS
  <2>2. ASSUME NEW i \in DOMAIN s PROVE s[i] # Add(k)
    <3>1. \A g \in Free : OnWrite(g, c) # k
      BY <2>1, EndTold
    <3>2. \A x : OnRead(x, c) # k
      BY <2>1, EndTold
    <3>3. OnExit(c) # k
      BY <2>1, EndTold DEF OnExit
    <3>. QED
      BY <1>5, <1>25, <3>1, <3>2, <3>3 DEF Fresh, Add
  <2>3. CASE phase[c] = "idle" /\ asked = changes
    <3>1. Gone(k, knotes, changes)
      BY <1>3, <2>1, <2>3 DEF CalmInv, WritesResponses
    <3>2. s \in Seq(Change) /\ changes' = changes \o s /\ knotes' \subseteq knotes
      BY <1>5, <1>6, <2>3 DEF Fresh
    <3>. QED
      BY <1>16, <2>1, <2>2, <3>1, <3>2, GoneKept
  <2>4. CASE phase[c] = "respond" /\ e.k.flt = "WRITE" /\ asked = Append(changes, Delete(e.k))
    <3>. DEFINE n == Len(changes) + 1
    <3>1. asked = Append(changes, Delete(k)) /\ s \in Seq(Change)
      BY <1>2, <1>5, <2>1, <2>4 DEF Fresh
    <3>2. /\ n \in DOMAIN changes' /\ changes'[n] = Delete(k)
          /\ \A i \in DOMAIN changes' : i > n => i - n \in DOMAIN s /\ changes'[i] = s[i - n]
      BY <1>6, <1>16, <3>1
    <3>3. \A i \in DOMAIN changes' : i > n => changes'[i] # Add(k)
      BY <2>2, <3>2
    <3>. QED
      BY <2>1, <3>2, <3>3 DEF Gone
  <2>. QED
    BY <2>3, <2>4
<1>26. WritesResponses'
  <2>1. ASSUME NEW d \in Live, phase'[d] # "respond", Is(sock[d], "sock")', file'[sock[d]].who = d
        PROVE  Gone(OnWrite(sock[d], d), knotes', changes')
    <3>1. CASE d = c
      BY <1>12, <1>25, <2>1, <3>1
    <3>2. CASE d # c
      <4>1. sock[d] \in Fd /\ d \in Clients
        BY LiveSocket
      <4>2. file'[sock[d]] = file[sock[d]]
        BY <1>8, <2>1, <3>2, <4>1
      <4>3. Gone(OnWrite(sock[d], d), knotes, changes)
        BY <1>12, <2>1, <3>2, <4>1, <4>2 DEF CalmInv, WritesResponses, Is
      <4>4. PICK k : k = OnWrite(sock[d], d)
        OBVIOUS
      <4>5. /\ \A x : OnWrite(x, c) # k /\ OnRead(x, c) # k
            /\ OnExit(c) # k
        BY <3>2, <4>4, EndTold DEF OnExit
      <4>6. ASSUME NEW i \in DOMAIN t PROVE t[i] # Add(k)
        <5>1. CASE t[i] = Delete(OnWrite(sock[c], c))
          BY <5>1 DEF Add, Delete
        <5>2. ASSUME NEW j \in DOMAIN s, t[i] = s[j] PROVE t[i] # Add(k)
          BY <1>5, <4>5, <5>2 DEF Fresh, Add
        <5>. QED
          BY <1>15, <5>1, <5>2
      <4>7. Gone(k, knotes', changes')
        BY <1>15, <1>16, <4>3, <4>4, <4>6, GoneKept
      <4>. QED
        BY <4>4, <4>7
    <3>. QED
      BY <3>1, <3>2
  <2>2. ASSUME NEW d \in Told', d.k.flt = "WRITE", Is(d.k.f, "sock")'
        PROVE  phase'[d.k.ud] = "respond" /\ \A g \in Fd : ~Feeds(g, d.k.ud)'
    <3>1. d \in Told /\ d.k.ud \in Clients /\ Is(d.k.f, "sock") /\ Ours(d.k) /\ d.k.f \in Fd
      BY <1>22, <2>2 DEF Is
    <3>2. phase[d.k.ud] = "respond" /\ \A g \in Fd : ~Feeds(g, d.k.ud)
      BY <2>2, <3>1 DEF CalmInv, WritesResponses
    <3>3. ASSUME d.k.ud = c PROVE FALSE
      <4>1. d.k.f = sock[c]
        BY <1>4, <3>1, <3>3 DEF Ours, Is
      <4>2. d.k = OnWrite(sock[c], c) /\ d \in batch'
        BY <2>2, <3>1, <3>3, <4>1, Reported DEF Told
      <4>3. e.k = d.k
        BY <1>2, <3>2, <3>3, <4>2
      <4>4. e = d
        BY <3>1, <4>3 DEF Shaped, RoundKnown
      <4>. QED
        BY <4>2, <4>4
    <3>. QED
      BY <1>12, <1>23, <3>1, <3>2, <3>3
  <2>. QED
    BY <1>13, <2>1, <2>2 DEF WritesResponses
<1>. QED
  BY <1>17, <1>18, <1>19, <1>20, <1>21, <1>24, <1>26 DEF CalmInv

\* A client is made for the number accept has returned.
LEMMA CreateCalm ==
  ASSUME Shaped, CalmInv, calm', NEW f \in Free, NEW c \in Clients \ Live, batch' = batch \ {Accept},
         phase' = [phase EXCEPT ![c] = "idle"], sock' = [sock EXCEPT ![c] = f],
         file' = [file EXCEPT ![f] = Opened(c, "sock")],
         changes' = Append(changes, Add(OnRead(f, c))),
         calm' = (calm /\ ~Disturbed({f}, c, batch')), UNCHANGED <<body, feed, knotes, for_close>>
  PROVE  CalmInv'
<1>1. f \in Fd /\ file[f] = Closed /\ f # NoFd /\ c \in Clients /\ phase[c] = "none"
  BY EventLoopAssumption DEF Free, Live
<1>2. c \notin Leaving
  BY DEF CalmInv, LeavingOnce, Leaving
<1>3. /\ \A g \in Fd \ {f} : file'[g] = file[g]
      /\ file'[f].who = c /\ file'[f].kind = "sock" /\ file'[f].end = "open" /\ file'[f] # Closed
  <2>1. file'[f] = Opened(c, "sock") /\ \A g \in Fd \ {f} : file'[g] = file[g]
    BY <1>1 DEF Shaped, TypeOK
  <2>. QED
    BY <2>1 DEF Opened, Closed
<1>4. /\ \A d \in Clients \ {c} : phase'[d] = phase[d] /\ sock'[d] = sock[d]
      /\ phase'[c] = "idle" /\ sock'[c] = f /\ body[c] = NoFd /\ feed[c] = NoFd
  BY <1>1 DEF Shaped, TypeOK, FieldsKnown
<1>5. ~Disturbed({f}, c, batch')
  BY Zenon
<1>6. /\ \A x \in batch' : x # Accept => x.k.f # f
      /\ \A ch \in Pending : ch.k.f # f
      /\ \A d \in Clients \ {c} : phase[d] \notin {"none", "idle"} =>
            f \notin {sock[d], body[d], feed[d]}
  BY <1>5 DEF Disturbed, Mentioned, Remembered, Pending
<1>7. Told' \subseteq Told
  BY DEF Told
<1>8. \A g, d : /\ EndRead(g, d) \in batch => EndRead(g, d) \in batch' /\ EndRead(g, d) # Accept
                /\ EndWrite(g, d) \in batch => EndWrite(g, d) \in batch'
  BY EndTold DEF Told
<1>9. Leaving' = Leaving /\ Live' = Live \cup {c} /\ c \notin Live
  BY <1>1, <1>4 DEF Leaving, Live
<1>10. /\ Add(OnRead(f, c)) \in Change /\ changes' \in Seq(Change)
       /\ Pending' = Pending \cup {Add(OnRead(f, c))} /\ changes \in Seq(Change)
  <2>1. Add(OnRead(f, c)) \in Change /\ changes \in Seq(Change)
    BY <1>1, Asked DEF Shaped, TypeOK
  <2>. QED
    BY <2>1, PendingOne
<1>11. ASSUME NEW d \in Live \ Leaving PROVE f \notin Held(d) /\ d \in Clients /\ d # c
  <2>1. d \in Clients /\ phase[d] # "none" /\ d # c
    BY <1>9 DEF Live
  <2>2. CASE phase[d] # "idle"
    BY <1>6, <2>1, <2>2 DEF Held
  <2>3. CASE phase[d] = "idle"
    <3>1. body[d] = NoFd /\ feed[d] = NoFd
      BY <2>1, <2>3 DEF Shaped, FieldsKnown
    <3>2. ASSUME f = sock[d] PROVE FALSE
      <4>1. EndRead(f, d) \in batch
        BY <1>1, <3>2 DEF CalmInv, Listened, Is
      <4>2. EndRead(f, d) \in batch' /\ EndRead(f, d) # Accept
        BY <1>8, <4>1
      <4>3. EndRead(f, d).k.f # f
        BY <1>6, <4>2
      <4>. QED
        BY <4>3, EndTold
    <3>. QED
      BY <1>1, <2>1, <3>1, <3>2 DEF Held
  <2>. QED
    BY <2>1, <2>2, <2>3
<1>12. \A g \in Fd \ {f} : file[g] # Closed =>
         /\ file[g].who \in Clients \ {c} /\ file[g].who \in Live \ Leaving /\ g \notin Free
  BY <1>9, Owned
<1>13. FilesKept'
  <2>. SUFFICES ASSUME NEW g \in Fd, file'[g] # Closed
                PROVE  LET d == file'[g].who
                           kd == file'[g].kind
                       IN  /\ d \in (Live \cup {c}) \ Leaving
                           /\ kd = "sock"   => g = sock'[d]
                           /\ kd = "page"   => g = body[d] /\ phase'[d] = "page"
                           /\ kd = "upload" => g = body[d] /\ phase'[d] = "upload"
                           /\ kd = "pipe"   => g = body[d] /\ phase'[d] \in {"post", "cgi"}
                           /\ kd = "feed"   => g = feed[d] /\ phase'[d] \in {"post", "cgi", "respond"}
                           /\ kd = "feed" /\ phase'[d] = "respond" => EndWrite(g, d) \in batch'
                           /\ kd = "feed" /\ phase'[d] = "cgi" =>
                                OnWrite(g, d) \in knotes' \/ Add(OnWrite(g, d)) \in Pending'
    BY <1>9 DEF FilesKept, Is, Free
  <2>1. CASE g = f
    BY <1>2, <1>3, <1>4, <2>1
  <2>2. CASE g # f
    <3>1. file'[g] = file[g] /\ file[g].who \in Clients \ {c} /\ g \in Fd \ Free /\ file[g] # Closed
      BY <1>3, <1>12, <2>2
    <3>. QED
      BY <1>4, <1>8, <1>10, <3>1 DEF CalmInv, FilesKept, Is
  <2>. QED
    BY <2>1, <2>2
<1>14. FiltersKept'
  <2>1. \A k \in Knote : (Ours(k) /\ k.f # f) => Ours(k)'
    BY <1>3 DEF Ours, Fits, Knote
  <2>2. ASSUME NEW k \in knotes', k.flt # "PROC" PROVE file'[k.f] # Closed /\ Ours(k)'
    <3>1. k \in Knote /\ k.f \in Fd /\ file[k.f] # Closed /\ Ours(k)
      BY <2>2, Records DEF Shaped, TypeOK, CalmInv, FiltersKept
    <3>2. k.f # f
      BY <1>1, <3>1
    <3>. QED
      BY <1>3, <2>1, <3>1, <3>2
  <2>3. \A ch \in Pending : ch.k.flt # "PROC" => ch.k \in Knote
    BY Records DEF Pending, Shaped, TypeOK
  <2>4. Add(OnRead(f, c)).op # "DELETE" /\ Add(OnRead(f, c)).k = OnRead(f, c)
    BY DEF Add
  <2>5. Ours(OnRead(f, c))'
    BY <1>3, EndTold DEF Ours, Fits
  <2>6. ASSUME NEW ch \in Pending', ch.k.flt # "PROC" PROVE Ours(ch.k)'
    <3>1. CASE ch \in Pending
      <4>1. ch.k \in Knote /\ ch.k.f # f /\ Ours(ch.k)
        BY <1>6, <2>3, <2>6, <3>1 DEF CalmInv, FiltersKept
      <4>. QED
        BY <2>1, <4>1
    <3>2. CASE ch = Add(OnRead(f, c))
      BY <2>4, <2>5, <3>2
    <3>. QED
      BY <1>10, <3>1, <3>2
  <2>7. ASSUME NEW ch \in Pending', ch.op = "DELETE" PROVE file'[ch.k.f] = Closed \/ Is(ch.k.f, "sock")'
    <3>1. ch \in Pending
      BY <1>10, <2>4, <2>7
    <3>2. ch.k.f \in Fd /\ ch.k.f # f
      BY <1>6, <2>3, <2>7, <3>1, Records DEF Shaped, RoundKnown
    <3>. QED
      BY <1>3, <2>7, <3>1, <3>2 DEF CalmInv, FiltersKept, Is
  <2>8. ASSUME NEW d \in Told' PROVE d.k.ud \in Live' /\ Ours(d.k)'
    <3>1. d \in Told /\ d \in batch' /\ d # Accept
      BY <1>7 DEF Told
    <3>. QED
      BY <1>6, <1>9, <2>1, <3>1, Reported
  <2>. QED
    BY <2>2, <2>6, <2>7, <2>8 DEF FiltersKept
<1>15. FieldsOwn'
  <2>. SUFFICES ASSUME NEW d \in (Live \cup {c}) \ Leaving, NEW g \in Held(d)'
                PROVE  file'[g] = Closed \/ file'[g].who = d
    BY <1>9 DEF FieldsOwn
  <2>1. CASE d = c
    BY <1>3, <1>4, <2>1 DEF Held
  <2>2. CASE d # c
    <3>1. d \in Live \ Leaving /\ f \notin Held(d) /\ d \in Clients
      BY <1>11, <2>2
    <3>2. g \in Held(d) /\ g \in Fd /\ g # f
      BY <1>4, <2>2, <3>1 DEF Held, Shaped, TypeOK
    <3>. QED
      BY <1>3, <3>1, <3>2 DEF CalmInv, FieldsOwn
  <2>. QED
    BY <2>1, <2>2
<1>16. Listened'
  <2>. SUFFICES ASSUME NEW d \in (Live \cup {c}) \ Leaving
                PROVE  \/ EndRead(sock'[d], d) \in batch'
                       \/ /\ file'[sock'[d]] # Closed /\ file'[sock'[d]].kind = "sock"
                          /\ file'[sock'[d]].who = d
                          /\ OnRead(sock'[d], d) \in knotes' \/ Add(OnRead(sock'[d], d)) \in Pending'
    BY <1>9 DEF Listened, Is
  <2>1. CASE d = c
    BY <1>3, <1>4, <1>10, <2>1
  <2>2. CASE d # c
    <3>1. d \in Live \ Leaving /\ sock'[d] = sock[d] /\ sock[d] \in Fd
      BY <1>4, <1>11, <2>2, LiveSocket
    <3>2. CASE EndRead(sock[d], d) \in batch
      BY <1>8, <3>1, <3>2
    <3>3. CASE EndRead(sock[d], d) \notin batch
      <4>1. /\ Is(sock[d], "sock") /\ file[sock[d]].who = d
            /\ OnRead(sock[d], d) \in knotes \/ Add(OnRead(sock[d], d)) \in Pending
        BY <3>1, <3>3 DEF CalmInv, Listened
      <4>2. file'[sock[d]] = file[sock[d]]
        BY <1>1, <1>3, <3>1, <4>1 DEF Is
      <4>. QED
        BY <1>10, <3>1, <4>1, <4>2 DEF Is
    <3>. QED
      BY <3>2, <3>3
  <2>. QED
    BY <2>1, <2>2
<1>17. LeavingOnce'
  <2>1. \A d \in Leaving : d \in Clients /\ sock'[d] = sock[d]
    BY <1>2, <1>4 DEF CalmInv, LeavingOnce, Leaving, Live
  <2>. QED
    BY <1>9, <2>1 DEF CalmInv, LeavingOnce
<1>18. ASSUME NEW d \in Told'
       PROVE  /\ d \in Told /\ d.k.f \in Fd /\ d.k.ud \in Clients \ {c}
              /\ file'[d.k.f] = file[d.k.f]
  <2>1. d \in Told /\ d \in batch' /\ d # Accept
    BY <1>7 DEF Told
  <2>2. d.k.f # f
    BY <1>6, <2>1
  <2>. QED
    BY <1>3, <1>9, <2>1, <2>2, Reported DEF Live
<1>19. \A g \in Fd : \A d : Feeds(g, d)' => Feeds(g, d) /\ file'[g] = file[g]
  BY <1>3 DEF Feeds, Is
<1>20. EndsTogether'
  <2>1. ASSUME NEW d \in Told', d.flag = "EOF", d.k.flt = "WRITE", Is(d.k.f, "sock")'
        PROVE  EndRead(d.k.f, d.k.ud) \in batch'
    BY <1>8, <1>18, <2>1 DEF CalmInv, EndsTogether, Is
  <2>2. ASSUME NEW d \in Told', d.flag = "EOF", d.k.flt = "READ", Is(d.k.f, "pipe")'
        PROVE  /\ phase'[d.k.ud] = "cgi"
               /\ \A g \in Fd : Feeds(g, d.k.ud)' => EndWrite(g, d.k.ud) \in batch'
    <3>1. d \in Told /\ d.k.ud \in Clients \ {c} /\ Is(d.k.f, "pipe")
      BY <1>18, <2>2 DEF Is
    <3>2. /\ phase[d.k.ud] = "cgi"
          /\ \A g \in Fd : Feeds(g, d.k.ud) => EndWrite(g, d.k.ud) \in batch
      BY <2>2, <3>1 DEF CalmInv, EndsTogether
    <3>. QED
      BY <1>4, <1>8, <1>19, <3>1, <3>2
  <2>3. ASSUME NEW p \in Fd, Is(p, "pipe")', file'[p].end # "open"
        PROVE  /\ phase'[file'[p].who] # "post"
               /\ \A g \in Fd : Feeds(g, file[p].who)' => file'[g].end = "reset"
               /\ file'[p] = file[p]
    <3>1. p # f
      BY <1>3, <2>3
    <3>2. file'[p] = file[p] /\ Is(p, "pipe")
      BY <1>3, <2>3, <3>1 DEF Is
    <3>3. file[p].who \in Clients \ {c}
      BY <1>12, <3>1, <3>2 DEF Is
    <3>4. /\ phase[file[p].who] # "post"
          /\ \A g \in Fd : Feeds(g, file[p].who) => file[g].end = "reset"
      BY <2>3, <3>2 DEF CalmInv, EndsTogether
    <3>. QED
      BY <1>4, <1>19, <3>2, <3>3, <3>4
  <2>. QED
    BY <2>1, <2>2, <2>3 DEF EndsTogether, Is, Feeds
<1>21. WritesResponses'
  <2>1. ASSUME NEW d \in Live \cup {c}, phase'[d] # "respond", file'[sock'[d]] # Closed,
               file'[sock'[d]].kind = "sock", file'[sock'[d]].who = d
        PROVE  Gone(OnWrite(sock'[d], d), knotes', changes')
    <3>1. PICK k : k = OnWrite(sock'[d], d)
      OBVIOUS
    <3>2. Gone(k, knotes, changes)
      <4>1. CASE d = c
        <5>1. k.f = f /\ k.flt # "PROC"
          BY <1>4, <3>1, <4>1, EndTold
        <5>2. k \notin knotes
          BY <1>1, <5>1 DEF CalmInv, FiltersKept
        <5>3. Add(k) \notin Pending
          BY <1>6, <5>1 DEF Add
        <5>. QED
          BY <5>2, <5>3 DEF Gone, Pending
      <4>2. CASE d # c
        <5>1. d \in Live /\ d \in Clients /\ sock[d] \in Fd /\ sock'[d] = sock[d] /\ phase'[d] = phase[d]
          BY <1>4, <4>2, LiveSocket
        <5>2. file'[sock[d]] = file[sock[d]]
          BY <1>3, <2>1, <4>2, <5>1
        <5>. QED
          BY <2>1, <3>1, <5>1, <5>2 DEF CalmInv, WritesResponses, Is
      <4>. QED
        BY <4>1, <4>2
    <3>. DEFINE s == <<Add(OnRead(f, c))>>
    <3>3. s \in Seq(Change) /\ changes' = changes \o s
      BY <1>10, Appended
    <3>4. \A i \in DOMAIN s : s[i] # Add(k)
      <4>1. OnRead(f, c) # k
        BY <3>1, EndTold
      <4>2. Add(OnRead(f, c)) # Add(k)
        BY <4>1 DEF Add
      <4>. QED
        BY <4>2
    <3>. HIDE DEF s
    <3>5. Gone(k, knotes', changes')
      BY <1>10, <3>2, <3>3, <3>4, GoneKept
    <3>. QED
      BY <3>1, <3>5
  <2>2. ASSUME NEW d \in Told', d.k.flt = "WRITE", Is(d.k.f, "sock")'
        PROVE  phase'[d.k.ud] = "respond" /\ \A g \in Fd : ~Feeds(g, d.k.ud)'
    <3>1. d \in Told /\ d.k.ud \in Clients \ {c} /\ Is(d.k.f, "sock")
      BY <1>18, <2>2 DEF Is
    <3>2. phase[d.k.ud] = "respond" /\ \A g \in Fd : ~Feeds(g, d.k.ud)
      BY <2>2, <3>1 DEF CalmInv, WritesResponses
    <3>. QED
      BY <1>4, <1>19, <3>1, <3>2
  <2>. QED
    BY <1>9, <2>1, <2>2 DEF WritesResponses, Is
<1>. QED
  BY <1>13, <1>14, <1>15, <1>16, <1>17, <1>20, <1>21 DEF CalmInv

\* A program's body has been read whole: its input is to be written.
LEMMA FedCalm ==
  ASSUME Shaped, CalmInv, NEW c \in Live, NEW e \in Told, e.flag # "EOF",
         e.k.f = sock[c], e.k.ud = c, e.k.flt = "READ", sock[c] \notin Free, batch' = batch \ {e},
         phase[c] = "post", phase' = [phase EXCEPT ![c] = "cgi"],
         changes' = Append(changes, Add(OnWrite(feed[c], c))),
         UNCHANGED <<sock, body, feed, file, knotes, for_close>>
  PROVE  CalmInv'
<1>. DEFINE ch == Add(OnWrite(feed[c], c))
<1>1. /\ c \in Clients /\ sock[c] \in Fd /\ file[sock[c]] # Closed /\ feed[c] \in Fd /\ feed[c] # NoFd
      /\ feed[c] # sock[c] /\ feed[c] # body[c]
  BY LiveSocket DEF Free, Shaped, FieldsKnown
<1>2. c \notin Leaving
  BY <1>1, Reported, Owned DEF Ours
<1>3. /\ ch \in Change /\ changes' \in Seq(Change) /\ changes \in Seq(Change)
      /\ Pending' = Pending \cup {ch} /\ ch.op # "DELETE" /\ ch.k = OnWrite(feed[c], c)
  <2>1. ch \in Change /\ changes \in Seq(Change)
    BY <1>1, Asked DEF Shaped, TypeOK
  <2>2. ch.op # "DELETE" /\ ch.k = OnWrite(feed[c], c)
    BY DEF Add
  <2>. QED
    BY <2>1, <2>2, PendingOne
<1>4. Told' \subseteq Told
  BY DEF Told
<1>5. \A g, d : /\ EndRead(g, d) \in batch => EndRead(g, d) \in batch'
                /\ EndWrite(g, d) \in batch => EndWrite(g, d) \in batch'
  BY EndTold
<1>6. phase'[c] = "cgi" /\ \A d \in Clients \ {c} : phase'[d] = phase[d]
  BY <1>1 DEF Shaped, TypeOK
<1>7. Leaving' = Leaving /\ Live' = Live /\ Free' = Free
  BY <1>1, <1>6 DEF Leaving, Live, Free
<1>8. FilesKept'
  <2>. SUFFICES ASSUME NEW g \in Fd, file[g] # Closed
                PROVE  LET d == file[g].who
                       IN  /\ d \in Live \ Leaving
                           /\ Is(g, "sock")   => g = sock[d]
                           /\ Is(g, "page")   => g = body[d] /\ phase'[d] = "page"
                           /\ Is(g, "upload") => g = body[d] /\ phase'[d] = "upload"
                           /\ Is(g, "pipe")   => g = body[d] /\ phase'[d] \in {"post", "cgi"}
                           /\ Is(g, "feed")   => g = feed[d] /\ phase'[d] \in {"post", "cgi", "respond"}
                           /\ Is(g, "feed") /\ phase'[d] = "respond" => EndWrite(g, d) \in batch'
                           /\ Is(g, "feed") /\ phase'[d] = "cgi" =>
                                OnWrite(g, d) \in knotes \/ Add(OnWrite(g, d)) \in Pending'
    BY <1>7 DEF FilesKept, Is, Free
  <2>1. g \in Fd \ Free /\ file[g].who \in Clients
    BY Owned
  <2>2. CASE file[g].who = c
    BY <1>3, <1>6, <2>1, <2>2 DEF CalmInv, FilesKept, Is
  <2>3. CASE file[g].who # c
    BY <1>3, <1>5, <1>6, <2>1, <2>3 DEF CalmInv, FilesKept, Is
  <2>. QED
    BY <2>2, <2>3
<1>9. FiltersKept'
  <2>1. Ours(OnWrite(feed[c], c))
    <3>1. file[feed[c]] = Closed \/ file[feed[c]].who = c
      BY <1>1, <1>2 DEF CalmInv, FieldsOwn, Held
    <3>2. file[feed[c]] # Closed => file[feed[c]].kind \in {"sock", "feed"}
      BY <1>1, <3>1, Owned DEF CalmInv, FilesKept, Is, Kinds
    <3>. QED
      BY <3>1, <3>2, EndTold DEF Ours, Fits
  <2>2. \A k : Ours(k)' <=> Ours(k)
    BY DEF Ours, Fits
  <2>3. \A di \in Pending' : di.k.flt # "PROC" => Ours(di.k)
    BY <1>3, <2>1 DEF CalmInv, FiltersKept
  <2>4. \A di \in Pending' : di.op = "DELETE" => file[di.k.f] = Closed \/ Is(di.k.f, "sock")
    BY <1>3 DEF CalmInv, FiltersKept
  <2>. QED
    BY <1>4, <1>7, <2>2, <2>3, <2>4 DEF CalmInv, FiltersKept, Is
<1>10. FieldsOwn'
  BY <1>7 DEF CalmInv, FieldsOwn, Held
<1>11. Listened'
  BY <1>3, <1>5, <1>7 DEF CalmInv, Listened, Is
<1>12. LeavingOnce'
  BY <1>7 DEF CalmInv, LeavingOnce
<1>13. EndsTogether'
  <2>1. ASSUME NEW d \in Told', d.flag = "EOF", d.k.flt = "WRITE", Is(d.k.f, "sock")
        PROVE  EndRead(d.k.f, d.k.ud) \in batch'
    BY <1>4, <1>5, <2>1 DEF CalmInv, EndsTogether
  <2>2. ASSUME NEW d \in Told', d.flag = "EOF", d.k.flt = "READ", Is(d.k.f, "pipe")
        PROVE  /\ phase'[d.k.ud] = "cgi"
               /\ \A g \in Fd : Feeds(g, d.k.ud) => EndWrite(g, d.k.ud) \in batch'
    <3>1. d \in Told /\ d.k.ud \in Clients
      BY <1>4, Reported DEF Live
    <3>. QED
      BY <1>5, <1>6, <2>2, <3>1 DEF CalmInv, EndsTogether
  <2>3. ASSUME NEW p \in Fd, Is(p, "pipe"), file[p].end # "open"
        PROVE  /\ phase'[file[p].who] # "post"
               /\ \A g \in Fd : Feeds(g, file[p].who) => file[g].end = "reset"
    <3>1. file[p].who \in Clients
      BY <2>3, Owned DEF Is
    <3>. QED
      BY <1>6, <2>3, <3>1 DEF CalmInv, EndsTogether
  <2>. QED
    BY <2>1, <2>2, <2>3 DEF EndsTogether, Is, Feeds
<1>14. WritesResponses'
  <2>1. ASSUME NEW d \in Live, phase'[d] # "respond", Is(sock[d], "sock"), file[sock[d]].who = d
        PROVE  Gone(OnWrite(sock[d], d), knotes', changes')
    <3>1. PICK k : k = OnWrite(sock[d], d)
      OBVIOUS
    <3>2. d \in Clients /\ phase[d] # "respond"
      BY <1>6, <2>1, LiveSocket
    <3>3. Gone(k, knotes, changes)
      BY <2>1, <3>1, <3>2 DEF CalmInv, WritesResponses
    <3>4. ch # Add(k)
      <4>1. OnWrite(feed[c], c) # k
        BY <1>1, <3>1, EndTold
      <4>. QED
        BY <4>1 DEF Add
    <3>. DEFINE s == <<ch>>
    <3>. HIDE DEF ch
    <3>5. s \in Seq(Change) /\ changes' = changes \o s /\ \A i \in DOMAIN s : s[i] # Add(k)
      BY <1>3, <3>4, Appended DEF ch
    <3>. HIDE DEF s
    <3>6. Gone(k, knotes', changes')
      BY <1>3, <3>3, <3>5, GoneKept
    <3>. QED
      BY <3>1, <3>6
  <2>2. ASSUME NEW d \in Told', d.k.flt = "WRITE", Is(d.k.f, "sock")
        PROVE  phase'[d.k.ud] = "respond" /\ \A g \in Fd : ~Feeds(g, d.k.ud)
    <3>1. d \in Told /\ d.k.ud \in Clients
      BY <1>4, Reported DEF Live
    <3>. QED
      BY <1>6, <2>2, <3>1 DEF CalmInv, WritesResponses
  <2>. QED
    BY <1>7, <2>1, <2>2 DEF WritesResponses, Is, Feeds
<1>. QED
  BY <1>8, <1>9, <1>10, <1>11, <1>12, <1>13, <1>14 DEF CalmInv

\* kevent() makes one change, or reports that it cannot.
LEMMA ApplyCalm == Shaped /\ CalmInv /\ ApplyChange => CalmInv'
<1>. SUFFICES ASSUME Shaped, CalmInv, ApplyChange PROVE CalmInv'
  OBVIOUS
<1>. DEFINE ch    == Head(changes)
            other == {k \in knotes : ~SameFilter(k, ch.k)}
<1>1. /\ pc = "apply" /\ changes # <<>> /\ changes' = Tail(changes) /\ changes \in Seq(Change)
      /\ UNCHANGED <<phase, sock, body, feed, file, for_close>>
      /\ Applies(ch) => knotes' = IF ch.op = "ADD" THEN other \cup {ch.k} ELSE other
      /\ ~Applies(ch) => UNCHANGED knotes
      /\ batch' \subseteq batch \cup {[k |-> ch.k, flag |-> "ERR"]}
  BY DEF ApplyChange, client, Shaped, TypeOK
<1>2. /\ ch \in Change /\ ch \in Pending /\ ch = changes[1] /\ 1 \in DOMAIN changes
      /\ changes' \in Seq(Change)
      /\ \A i \in DOMAIN changes' : i + 1 \in DOMAIN changes /\ changes'[i] = changes[i + 1]
      /\ \A i \in DOMAIN changes : i # 1 => i - 1 \in DOMAIN changes' /\ changes[i] = changes'[i - 1]
  <2>1. /\ ch \in Change /\ ch = changes[1] /\ 1 \in DOMAIN changes /\ changes' \in Seq(Change)
        /\ \A i \in DOMAIN changes' : i + 1 \in DOMAIN changes /\ changes'[i] = changes[i + 1]
        /\ \A i \in DOMAIN changes : i # 1 => i - 1 \in DOMAIN changes' /\ changes[i] = changes'[i - 1]
    BY <1>1
  <2>. QED
    BY <2>1 DEF Pending
<1>3. Pending' \subseteq Pending /\ Pending \subseteq Pending' \cup {ch}
  BY <1>2 DEF Pending
<1>. HIDE DEF ch
<1>4. /\ ch.k \in Knote \cup Exit /\ ch.op \in {"ADD", "DELETE"} /\ ch = [op |-> ch.op, k |-> ch.k]
      /\ ch.k.flt # "PROC" => ch.k \in Knote /\ ch.k.f \in Fd /\ Ours(ch.k)
      /\ ch.op = "DELETE" => ch.k.flt = "WRITE" /\ (file[ch.k.f] = Closed \/ Is(ch.k.f, "sock"))
  <2>1. ch.k \in Knote \cup Exit /\ ch.op \in {"ADD", "DELETE"} /\ ch = [op |-> ch.op, k |-> ch.k]
    BY <1>2 DEF Change
  <2>. QED
    BY <1>2, <2>1, Records DEF CalmInv, FiltersKept, Shaped, RoundKnown
<1>5. Leaving = {} /\ Leaving' = {} /\ Live' = Live /\ Free' = Free /\ for_close = <<>>
  <2>1. for_close = <<>>
    BY <1>1 DEF Shaped, RoundKnown
  <2>. QED
    BY <1>1, <2>1 DEF Leaving, Live, Free
<1>6. Told = {} /\ Told' = {}
  <2>1. \A e \in batch : e.flag = "ERR"
    BY <1>1 DEF Shaped, RoundKnown
  <2>2. \A e \in batch' : e.flag = "ERR"
    BY <1>1, <2>1
  <2>. QED
    BY <2>1, <2>2 DEF Told
<1>7. \A f, c : EndRead(f, c) \notin batch /\ EndWrite(f, c) \notin batch
  BY <1>6, EndTold
\* A filter of an open descriptor stays, unless its owner's own change replaces it.
<1>8. ASSUME NEW k \in Knote, k \in knotes \/ Add(k) \in Pending, file[k.f] # Closed,
             file[k.f].who = k.ud, k.flt = "WRITE" => ~Is(k.f, "sock")
      PROVE  k \in knotes' \/ Add(k) \in Pending'
  <2>1. k.flt \in {"READ", "WRITE"} /\ k.flt # "PROC" /\ k.f \in Fd
    BY DEF Knote
  <2>2. CASE ch = Add(k)
    <3>1. ch.k = k /\ ch.op = "ADD"
      BY <2>2 DEF Add
    <3>2. Applies(ch)
      BY <1>8, <2>1, <3>1 DEF Applies
    <3>. QED
      BY <1>1, <3>1, <3>2
  <2>3. CASE ch # Add(k) /\ Add(k) \in Pending
    BY <1>3, <2>3
  <2>4. CASE k \in knotes /\ SameFilter(k, ch.k)
    <3>1. ch.k.flt # "PROC" /\ ch.k.f = k.f /\ ch.k.flt = k.flt
      BY <2>1, <2>4 DEF SameFilter
    <3>2. ch.op = "ADD"
      BY <1>4, <1>8, <3>1
    <3>3. ch.k.ud = k.ud
      BY <1>4, <1>8, <3>1 DEF Ours
    <3>4. ch.k = k
      BY <1>4, <3>1, <3>3 DEF Knote
    <3>5. Applies(ch)
      BY <1>8, <3>1, <3>2 DEF Applies
    <3>. QED
      BY <1>1, <3>2, <3>4, <3>5
  <2>5. CASE k \in knotes /\ ~SameFilter(k, ch.k)
    BY <1>1, <2>5
  <2>. QED
    BY <1>8, <2>2, <2>3, <2>4, <2>5
<1>9. FilesKept'
  <2>. SUFFICES ASSUME NEW f \in Fd, file[f] # Closed
                PROVE  LET c == file[f].who
                       IN  /\ c \in Live
                           /\ Is(f, "sock")   => f = sock[c]
                           /\ Is(f, "page")   => f = body[c] /\ phase[c] = "page"
                           /\ Is(f, "upload") => f = body[c] /\ phase[c] = "upload"
                           /\ Is(f, "pipe")   => f = body[c] /\ phase[c] \in {"post", "cgi"}
                           /\ Is(f, "feed")   => f = feed[c] /\ phase[c] \in {"post", "cgi"}
                           /\ Is(f, "feed") /\ phase[c] = "cgi" =>
                                OnWrite(f, c) \in knotes' \/ Add(OnWrite(f, c)) \in Pending'
    BY <1>1, <1>5 DEF FilesKept, Is, Free
  <2>1. f \in Fd \ Free /\ file[f].who \in Clients
    BY Owned
  <2>2. ASSUME Is(f, "feed"), phase[file[f].who] = "cgi"
        PROVE  OnWrite(f, file[f].who) \in knotes' \/ Add(OnWrite(f, file[f].who)) \in Pending'
    <3>1. PICK k : k = OnWrite(f, file[f].who)
      OBVIOUS
    <3>2. k \in knotes \/ Add(k) \in Pending
      BY <2>1, <2>2, <3>1 DEF CalmInv, FilesKept
    <3>3. k \in Knote /\ k.f = f /\ k.ud = file[f].who
      BY <2>1, <3>1, Asked, EndTold
    <3>4. ~Is(k.f, "sock")
      BY <2>2, <3>3 DEF Is
    <3>. QED
      BY <1>8, <3>1, <3>2, <3>3, <3>4
  <2>. QED
    BY <1>7, <2>1, <2>2 DEF CalmInv, FilesKept, Is
<1>10. FiltersKept'
  <2>1. \A k : Ours(k)' <=> Ours(k)
    BY <1>1 DEF Ours, Fits
  <2>2. ASSUME NEW k \in knotes', k.flt # "PROC" PROVE file[k.f] # Closed /\ Ours(k)
    <3>1. CASE k \in knotes
      BY <2>2, <3>1 DEF CalmInv, FiltersKept
    <3>2. CASE k \notin knotes
      <4>1. k = ch.k /\ ch.op = "ADD" /\ Applies(ch)
        BY <1>1, <2>2, <3>2
      <4>. QED
        BY <1>4, <2>2, <4>1 DEF Applies
    <3>. QED
      BY <3>1, <3>2
  <2>3. \A di \in Pending' : di.k.flt # "PROC" => Ours(di.k)
    BY <1>3 DEF CalmInv, FiltersKept
  <2>4. \A di \in Pending' : di.op = "DELETE" => file[di.k.f] = Closed \/ Is(di.k.f, "sock")
    BY <1>3 DEF CalmInv, FiltersKept
  <2>. QED
    BY <1>1, <1>6, <2>1, <2>2, <2>3, <2>4 DEF FiltersKept, Is
<1>11. FieldsOwn'
  BY <1>1, <1>5 DEF CalmInv, FieldsOwn, Held
<1>12. Listened'
  <2>. SUFFICES ASSUME NEW c \in Live
                PROVE  /\ Is(sock[c], "sock") /\ file[sock[c]].who = c
                       /\ OnRead(sock[c], c) \in knotes' \/ Add(OnRead(sock[c], c)) \in Pending'
    BY <1>1, <1>5 DEF Listened, Is
  <2>1. /\ Is(sock[c], "sock") /\ file[sock[c]].who = c
        /\ OnRead(sock[c], c) \in knotes \/ Add(OnRead(sock[c], c)) \in Pending
    BY <1>5, <1>7 DEF CalmInv, Listened
  <2>2. PICK k : k = OnRead(sock[c], c)
    OBVIOUS
  <2>3. k \in Knote /\ k.f = sock[c] /\ k.ud = c /\ k.flt # "WRITE"
    BY <2>2, LiveSocket, Asked, EndTold
  <2>4. file[k.f] # Closed
    BY <2>1, <2>3 DEF Is
  <2>. QED
    BY <1>8, <2>1, <2>2, <2>3, <2>4
<1>13. LeavingOnce'
  <2>1. for_close' = <<>>
    BY <1>1, <1>5
  <2>. QED
    BY <1>5, <2>1 DEF LeavingOnce
<1>14. EndsTogether'
  BY <1>1, <1>6 DEF CalmInv, EndsTogether, Is, Feeds
<1>15. WritesResponses'
  <2>1. ASSUME NEW c \in Live, phase[c] # "respond", Is(sock[c], "sock"), file[sock[c]].who = c
        PROVE  Gone(OnWrite(sock[c], c), knotes', changes')
    <3>1. PICK k : k = OnWrite(sock[c], c)
      OBVIOUS
    <3>2. k \in Knote /\ k.flt = "WRITE" /\ k.flt # "PROC"
      BY <3>1, LiveSocket, Asked, EndTold
    <3>3. Gone(k, knotes, changes)
      BY <2>1, <3>1 DEF CalmInv, WritesResponses
    <3>4. k \in knotes' => k \in knotes \/ (ch.k = k /\ ch.op = "ADD")
      BY <1>1
    <3>5. ch.k = k /\ ch.op = "ADD" => ch = Add(k)
      BY <1>4 DEF Add
    <3>6. ASSUME k \notin knotes, \A i \in DOMAIN changes : changes[i] # Add(k)
          PROVE  Gone(k, knotes', changes')
      <4>1. k \notin knotes'
        BY <1>2, <3>4, <3>5, <3>6
      <4>2. \A i \in DOMAIN changes' : changes'[i] # Add(k)
        BY <1>2, <3>6
      <4>. QED
        BY <4>1, <4>2 DEF Gone
    <3>7. ASSUME NEW j \in DOMAIN changes, changes[j] = Delete(k),
                 \A i \in DOMAIN changes : i > j => changes[i] # Add(k)
          PROVE  Gone(k, knotes', changes')
      <4>1. j \in Nat /\ j >= 1 /\ \A i \in DOMAIN changes' : i \in Nat
        BY <1>1, <1>2
      <4>2. CASE j = 1
        <5>1. ch = Delete(k)
          BY <1>2, <3>7, <4>2
        <5>2. ch.op = "DELETE" /\ ch.k = k
          BY <5>1 DEF Delete
        <5>3. k \notin knotes'
          <6>1. SameFilter(k, k)
            BY DEF SameFilter
          <6>2. CASE Applies(ch)
            BY <1>1, <5>2, <6>1, <6>2
          <6>3. CASE ~Applies(ch)
            BY <1>1, <5>2, <6>1, <6>3 DEF Applies
          <6>. QED
            BY <6>2, <6>3
        <5>4. \A i \in DOMAIN changes' : changes'[i] # Add(k)
          BY <1>2, <3>7, <4>1, <4>2
        <5>. QED
          BY <5>3, <5>4 DEF Gone
      <4>3. CASE j # 1
        <5>1. j - 1 \in DOMAIN changes' /\ changes'[j - 1] = Delete(k)
          BY <1>2, <3>7, <4>3
        <5>2. \A i \in DOMAIN changes' : i > j - 1 => changes'[i] # Add(k)
          BY <1>2, <3>7, <4>1
        <5>. QED
          BY <5>1, <5>2 DEF Gone
      <4>. QED
        BY <4>2, <4>3
    <3>8. \/ k \notin knotes /\ \A i \in DOMAIN changes : changes[i] # Add(k)
          \/ \E j \in DOMAIN changes : /\ changes[j] = Delete(k)
                                       /\ \A i \in DOMAIN changes : i > j => changes[i] # Add(k)
      BY <3>3 DEF Gone
    <3>9. Gone(k, knotes', changes')
      BY <3>6, <3>7, <3>8
    <3>. QED
      BY <3>1, <3>9
  <2>. QED
    BY <1>1, <1>5, <1>6, <2>1 DEF WritesResponses, Is
<1>. QED
  BY <1>9, <1>10, <1>11, <1>12, <1>13, <1>14, <1>15 DEF CalmInv

\* What is reported when the array is not filled.
LEMMA WaitCalm == Shaped /\ CalmInv /\ Wait /\ calm' => CalmInv'
<1>. SUFFICES ASSUME Shaped, CalmInv, Wait, calm' PROVE CalmInv'
  OBVIOUS
<1>1. PICK B \in SUBSET ((UNION {Report(k) : k \in knotes}) \cup {Accept}) :
        /\ Cardinality(B) < MaxEvents => \A k \in knotes : Due(k) => Report(k) \subseteq B
        /\ batch' = B
        /\ knotes' = {k \in knotes : ~(k.flt = "PROC" /\ Report(k) \subseteq B)}
        /\ calm' = (calm /\ Cardinality(B) < MaxEvents)
  BY DEF Wait
<1>2. Cardinality(B) < MaxEvents
  <2>1. calm' = (calm /\ Cardinality(B) < MaxEvents)
    BY <1>1
  <2>. QED
    BY <2>1, Zenon
<1>3. \A k \in knotes : Due(k) => Report(k) \subseteq batch'
  BY <1>1, <1>2
<1>4. /\ pc = "wait" /\ batch = {} /\ changes = <<>> /\ for_close = <<>>
      /\ UNCHANGED <<phase, sock, body, feed, file, changes, for_close>>
  BY DEF Wait, client, Shaped, RoundKnown
<1>5. /\ Pending = {} /\ Pending' = {} /\ Leaving = {} /\ Leaving' = {}
      /\ Live' = Live /\ Free' = Free
  BY <1>4 DEF Pending, Leaving, Live, Free
<1>6. knotes' \subseteq knotes /\ \A k \in knotes : k.flt # "PROC" => k \in knotes'
  BY <1>1
<1>7. ASSUME NEW e \in Told'
      PROVE  /\ e.k \in knotes /\ e.k.flt # "PROC" /\ e \in Report(e.k) /\ e \in batch'
             /\ file[e.k.f] # Closed /\ Ours(e.k) /\ e.k \in Knote /\ e.k.f \in Fd
             /\ file[e.k.f].who = e.k.ud /\ e.k.ud \in Live
  <2>1. e \in batch' /\ e # Accept /\ e.k.flt # "PROC"
    BY DEF Told
  <2>2. e \in (UNION {Report(k) : k \in knotes}) \cup {Accept}
    BY <1>1, <2>1
  <2>3. PICK k \in knotes : e \in Report(k)
    BY <2>1, <2>2, Zenon
  <2>4. e.k = k
    BY <2>3, ReportShape DEF Shaped
  <2>5. /\ e.k \in knotes /\ e \in Report(e.k) /\ file[e.k.f] # Closed /\ Ours(e.k)
        /\ e.k \in Knote /\ e.k.f \in Fd
    BY <2>1, <2>3, <2>4, Records DEF CalmInv, FiltersKept, Shaped, TypeOK
  <2>6. file[e.k.f].who = e.k.ud
    BY <2>5 DEF Ours
  <2>. QED
    BY <2>1, <2>5, <2>6, Owned
\* An end that is there is reported.
<1>8. /\ \A f, c : /\ OnRead(f, c) \in knotes /\ file[f].end \in {"fin", "reset"}
                   => EndRead(f, c) \in batch'
      /\ \A f, c : /\ OnWrite(f, c) \in knotes /\ file[f].end = "reset"
                   => EndWrite(f, c) \in batch'
  <2>1. ASSUME NEW f, NEW c, OnRead(f, c) \in knotes, file[f].end \in {"fin", "reset"}
        PROVE  EndRead(f, c) \in batch'
    <3>1. PICK k : k = OnRead(f, c)
      OBVIOUS
    <3>2. k.f = f /\ k.flt = "READ" /\ EndRead(f, c) = [k |-> k, flag |-> "EOF"]
      <4>1. k.f = f /\ k.flt = "READ"
        BY <3>1, EndTold
      <4>2. EndRead(f, c) = [k |-> k, flag |-> "EOF"]
        BY <3>1 DEF EndRead
      <4>. QED
        BY <4>1, <4>2
    <3>3. Report(k) = {EndRead(f, c)}
      BY <2>1, <3>2 DEF Report
    <3>4. Due(k)
      BY <3>2, <3>3 DEF Due
    <3>. QED
      BY <1>3, <2>1, <3>1, <3>3, <3>4
  <2>2. ASSUME NEW f, NEW c, OnWrite(f, c) \in knotes, file[f].end = "reset"
        PROVE  EndWrite(f, c) \in batch'
    <3>1. PICK k : k = OnWrite(f, c)
      OBVIOUS
    <3>2. k.f = f /\ k.flt = "WRITE" /\ EndWrite(f, c) = [k |-> k, flag |-> "EOF"]
      <4>1. k.f = f /\ k.flt = "WRITE"
        BY <3>1, EndTold
      <4>2. EndWrite(f, c) = [k |-> k, flag |-> "EOF"]
        BY <3>1 DEF EndWrite
      <4>. QED
        BY <4>1, <4>2
    <3>3. Report(k) = {EndWrite(f, c)}
      BY <2>2, <3>2 DEF Report
    <3>4. Due(k)
      BY <3>2, <3>3 DEF Due
    <3>. QED
      BY <1>3, <2>2, <3>1, <3>3, <3>4
  <2>. QED
    BY <2>1, <2>2
\* An end that is reported is there.
<1>9. ASSUME NEW e \in Told', e.flag = "EOF"
      PROVE  /\ file[e.k.f].end = "reset" \/ (file[e.k.f].end = "fin" /\ e.k.flt = "READ")
  <2>1. e \in Report(e.k) /\ e.k.flt # "PROC"
    BY <1>7
  <2>2. [k |-> e.k, flag |-> ""].flag # "EOF"
    OBVIOUS
  <2>. QED
    BY <1>9, <2>1, <2>2 DEF Report
<1>10. FilesKept'
  <2>. SUFFICES ASSUME NEW f \in Fd, file[f] # Closed
                PROVE  LET c == file[f].who
                       IN  /\ c \in Live
                           /\ Is(f, "sock")   => f = sock[c]
                           /\ Is(f, "page")   => f = body[c] /\ phase[c] = "page"
                           /\ Is(f, "upload") => f = body[c] /\ phase[c] = "upload"
                           /\ Is(f, "pipe")   => f = body[c] /\ phase[c] \in {"post", "cgi"}
                           /\ Is(f, "feed")   => f = feed[c] /\ phase[c] \in {"post", "cgi"}
                           /\ Is(f, "feed") /\ phase[c] = "cgi" => OnWrite(f, c) \in knotes'
    BY <1>4, <1>5 DEF FilesKept, Is, Free
  <2>1. f \in Fd \ Free
    BY Owned
  <2>2. OnWrite(f, file[f].who) \in knotes => OnWrite(f, file[f].who) \in knotes'
    <3>1. OnWrite(f, file[f].who).flt # "PROC"
      BY EndTold
    <3>. QED
      BY <1>6, <3>1
  <2>. QED
    BY <1>4, <1>5, <2>1, <2>2 DEF CalmInv, FilesKept, Is
<1>11. FiltersKept'
  <2>1. \A k : Ours(k)' <=> Ours(k)
    BY <1>4 DEF Ours, Fits
  <2>2. \A k \in knotes' : k.flt # "PROC" => file[k.f] # Closed /\ Ours(k)
    BY <1>6 DEF CalmInv, FiltersKept
  <2>3. \A e \in Told' : e.k.ud \in Live /\ Ours(e.k)
    BY <1>7
  <2>. QED
    BY <1>4, <1>5, <2>1, <2>2, <2>3 DEF FiltersKept
<1>12. FieldsOwn'
  BY <1>4, <1>5 DEF CalmInv, FieldsOwn, Held
<1>13. ASSUME NEW c \in Live
       PROVE  Is(sock[c], "sock") /\ file[sock[c]].who = c /\ OnRead(sock[c], c) \in knotes
  BY <1>4, <1>5 DEF CalmInv, Listened
<1>14. Listened'
  <2>1. ASSUME NEW c \in Live PROVE OnRead(sock[c], c) \in knotes'
    <3>1. OnRead(sock[c], c).flt # "PROC"
      BY EndTold
    <3>. QED
      BY <1>6, <1>13, <3>1
  <2>. QED
    BY <1>4, <1>5, <1>13, <2>1 DEF Listened, Is
<1>15. LeavingOnce'
  BY <1>4, <1>5 DEF LeavingOnce
<1>16. EndsTogether'
  <2>1. ASSUME NEW e \in Told', e.flag = "EOF", e.k.flt = "WRITE", Is(e.k.f, "sock")
        PROVE  EndRead(e.k.f, e.k.ud) \in batch'
    <3>1. file[e.k.f].end = "reset"
      BY <1>9, <2>1
    <3>2. e.k.f = sock[e.k.ud]
      BY <1>7, <2>1, Owned DEF CalmInv, FilesKept
    <3>3. OnRead(e.k.f, e.k.ud) \in knotes
      BY <1>7, <1>13, <3>2
    <3>. QED
      BY <1>8, <3>1, <3>3
  <2>2. ASSUME NEW e \in Told', e.flag = "EOF", e.k.flt = "READ", Is(e.k.f, "pipe")
        PROVE  /\ phase[e.k.ud] = "cgi"
               /\ \A g \in Fd : Feeds(g, e.k.ud) => EndWrite(g, e.k.ud) \in batch'
    <3>1. file[e.k.f].end # "open" /\ file[e.k.f].who = e.k.ud /\ e.k.f \in Fd \ Free
      BY <1>7, <1>9, <2>2, Owned
    <3>2. phase[e.k.ud] # "post" /\ \A g \in Fd : Feeds(g, e.k.ud) => file[g].end = "reset"
      BY <2>2, <3>1 DEF CalmInv, EndsTogether
    <3>3. phase[e.k.ud] = "cgi"
      BY <2>2, <3>1, <3>2 DEF CalmInv, FilesKept
    <3>4. ASSUME NEW g \in Fd, Feeds(g, e.k.ud) PROVE EndWrite(g, e.k.ud) \in batch'
      <4>1. file[g] # Closed /\ file[g].who = e.k.ud /\ Is(g, "feed")
        BY <3>4 DEF Feeds, Is
      <4>2. OnWrite(g, e.k.ud) \in knotes
        BY <1>5, <3>3, <4>1, Owned DEF CalmInv, FilesKept
      <4>. QED
        BY <1>8, <3>2, <3>4, <4>2
    <3>. QED
      BY <3>3, <3>4
  <2>. QED
    BY <1>4, <2>1, <2>2 DEF CalmInv, EndsTogether, Is, Feeds
<1>17. WritesResponses'
  <2>1. ASSUME NEW c \in Live, phase[c] # "respond", Is(sock[c], "sock"), file[sock[c]].who = c
        PROVE  OnWrite(sock[c], c) \notin knotes
    <3>1. Gone(OnWrite(sock[c], c), knotes, changes)
      BY <2>1 DEF CalmInv, WritesResponses
    <3>. QED
      BY <1>4, <3>1 DEF Gone
  <2>2. ASSUME NEW c \in Live, phase[c] # "respond", Is(sock[c], "sock"), file[sock[c]].who = c
        PROVE  Gone(OnWrite(sock[c], c), knotes', changes')
    BY <1>4, <1>6, <2>1, <2>2 DEF Gone
  <2>3. ASSUME NEW e \in Told', e.k.flt = "WRITE", Is(e.k.f, "sock")
        PROVE  phase[e.k.ud] = "respond" /\ \A g \in Fd : ~Feeds(g, e.k.ud)
    <3>1. e.k.f = sock[e.k.ud] /\ e.k.ud \in Live /\ file[sock[e.k.ud]].who = e.k.ud
      BY <1>7, <2>3, Owned DEF CalmInv, FilesKept
    <3>2. OnWrite(sock[e.k.ud], e.k.ud) \in knotes
      BY <1>7, <2>3, <3>1, Records
    <3>3. phase[e.k.ud] = "respond"
      BY <2>1, <2>3, <3>1, <3>2
    <3>4. ASSUME NEW g \in Fd, Feeds(g, e.k.ud) PROVE FALSE
      BY <1>4, <3>3, <3>4, Owned DEF CalmInv, FilesKept, Feeds, Is
    <3>. QED
      BY <3>3, <3>4
  <2>. QED
    BY <1>4, <1>5, <2>2, <2>3 DEF WritesResponses, Is, Feeds
<1>. QED
  BY <1>10, <1>11, <1>12, <1>14, <1>15, <1>16, <1>17 DEF CalmInv

\* A peer or a program ends: nothing but the ends of descriptors changes.
LEMMA OtherSideCalm == Shaped /\ CalmInv /\ OtherSideEnds => CalmInv'
<1>. SUFFICES ASSUME Shaped, CalmInv, OtherSideEnds PROVE CalmInv'
  OBVIOUS
<1>1. /\ pc = "wait" /\ UNCHANGED <<phase, sock, body, feed, knotes, changes, batch, for_close>>
      /\ batch = {}
  BY DEF OtherSideEnds, client, Shaped, RoundKnown
<1>2. PICK f \in Fd \ Free :
        \/ /\ file[f].kind = "sock"
           /\ \E end \in {"fin", "reset"} : file' = [file EXCEPT ![f].end = end]
        \/ /\ file[f].kind = "pipe" /\ phase[file[f].who] # "post"
           /\ file' = [g \in Fd |->
                IF g = f THEN [file[g] EXCEPT !.end = "fin"]
                ELSE IF file[g] # Closed /\ file[g].who = file[f].who /\ file[g].kind = "feed"
                     THEN [file[g] EXCEPT !.end = "reset"] ELSE file[g]]
  BY DEF OtherSideEnds
<1>3. f \in Fd /\ file[f] # Closed /\ file \in [Fd -> File]
  BY DEF Free, Shaped, TypeOK, File
<1>4. \A g \in Fd : file[g] # Closed =>
        \A end \in Ends : LET new == [file[g] EXCEPT !.end = end]
                          IN  /\ new.who = file[g].who /\ new.kind = file[g].kind /\ new.end = end
                              /\ new # Closed
  <2>. SUFFICES ASSUME NEW g \in Fd, file[g] # Closed, NEW end \in Ends
                PROVE  LET new == [file[g] EXCEPT !.end = end]
                       IN  /\ new.who = file[g].who /\ new.kind = file[g].kind /\ new.end = end
                           /\ new # Closed
    OBVIOUS
  <2>1. file[g] \in [who : Clients, kind : Kinds, end : Ends]
    BY <1>3 DEF File
  <2>. QED
    BY <2>1 DEF Kinds, Ends, Closed
<1>5. /\ \A g \in Fd : (file'[g] = Closed <=> file[g] = Closed)
      /\ \A g \in Fd : file[g] # Closed => file'[g].who = file[g].who /\ file'[g].kind = file[g].kind
      /\ \A g \in Fd : file[g] # Closed /\ file[g].kind = "pipe" /\ g # f => file'[g].end = file[g].end
      /\ \A g \in Fd : file[g] # Closed /\ file[g].kind = "feed" =>
           file'[g].end = file[g].end \/ file'[g].end = "reset"
      /\ file[f].kind = "pipe" => \A g \in Fd : Feeds(g, file[f].who) => file'[g].end = "reset"
  <2>1. CASE /\ file[f].kind = "sock"
             /\ \E end \in {"fin", "reset"} : file' = [file EXCEPT ![f].end = end]
    <3>1. PICK end \in {"fin", "reset"} : file' = [file EXCEPT ![f].end = end]
      BY <2>1
    <3>2. /\ file'[f] = [file[f] EXCEPT !.end = end] /\ end \in Ends
          /\ \A g \in Fd \ {f} : file'[g] = file[g]
      BY <1>3, <3>1 DEF Ends
    <3>. QED
      BY <1>3, <1>4, <2>1, <3>2
  <2>2. CASE /\ file[f].kind = "pipe"
             /\ file' = [g \in Fd |->
                  IF g = f THEN [file[g] EXCEPT !.end = "fin"]
                  ELSE IF file[g] # Closed /\ file[g].who = file[f].who /\ file[g].kind = "feed"
                       THEN [file[g] EXCEPT !.end = "reset"] ELSE file[g]]
    <3>1. "fin" \in Ends /\ "reset" \in Ends
      BY DEF Ends
    <3>2. file'[f] = [file[f] EXCEPT !.end = "fin"]
      BY <1>3, <2>2
    <3>3. \A g \in Fd \ {f} : file'[g] = file[g] \/ (file[g] # Closed /\ file[g].kind = "feed"
                                                     /\ file'[g] = [file[g] EXCEPT !.end = "reset"])
      BY <2>2
    <3>4. \A g \in Fd : Feeds(g, file[f].who) =>
            g # f /\ file'[g] = [file[g] EXCEPT !.end = "reset"]
      BY <2>2 DEF Feeds, Is
    <3>. QED
      BY <1>3, <1>4, <2>2, <3>1, <3>2, <3>3, <3>4 DEF Feeds, Is
  <2>. QED
    BY <1>2, <2>1, <2>2
<1>6. /\ Pending' = Pending /\ Leaving' = Leaving /\ Live' = Live /\ Told' = {} /\ Free' = Free
  BY <1>1, <1>5 DEF Pending, Leaving, Live, Told, Free
<1>7. /\ \A g \in Fd : \A kind : Is(g, kind)' <=> Is(g, kind)
      /\ \A g \in Fd : \A c : Feeds(g, c)' <=> Feeds(g, c)
      /\ \A k : k.f \in Fd => (Ours(k)' <=> Ours(k))
  BY <1>5 DEF Is, Feeds, Ours, Fits
<1>8. FilesKept'
  <2>. SUFFICES ASSUME NEW g \in Fd, file[g] # Closed
                PROVE  LET c == file[g].who
                       IN  /\ c \in Live \ Leaving
                           /\ Is(g, "sock")   => g = sock[c]
                           /\ Is(g, "page")   => g = body[c] /\ phase[c] = "page"
                           /\ Is(g, "upload") => g = body[c] /\ phase[c] = "upload"
                           /\ Is(g, "pipe")   => g = body[c] /\ phase[c] \in {"post", "cgi"}
                           /\ Is(g, "feed")   => g = feed[c] /\ phase[c] \in {"post", "cgi", "respond"}
                           /\ Is(g, "feed") /\ phase[c] = "respond" => EndWrite(g, c) \in batch
                           /\ Is(g, "feed") /\ phase[c] = "cgi" =>
                                OnWrite(g, c) \in knotes \/ Add(OnWrite(g, c)) \in Pending
    BY <1>1, <1>5, <1>6 DEF FilesKept, Is, Free
  <2>. QED
    BY Owned DEF CalmInv, FilesKept
<1>9. FiltersKept'
  <2>1. \A k \in knotes : k.flt # "PROC" => k.f \in Fd
    BY Records DEF Shaped, TypeOK
  <2>2. \A ch \in Pending : ch.k.flt # "PROC" => ch.k.f \in Fd
    BY Records DEF Pending, Shaped, TypeOK
  <2>3. \A ch \in Pending : ch.op = "DELETE" => ch.k.f \in Fd
    BY <2>2 DEF Shaped, RoundKnown
  <2>4. \A k \in knotes' : k.flt # "PROC" => file'[k.f] # Closed /\ Ours(k)'
    BY <1>1, <1>5, <1>7, <2>1 DEF CalmInv, FiltersKept
  <2>5. \A ch \in Pending' : ch.k.flt # "PROC" => Ours(ch.k)'
    BY <1>6, <1>7, <2>2 DEF CalmInv, FiltersKept
  <2>6. \A ch \in Pending' : ch.op = "DELETE" => file'[ch.k.f] = Closed \/ Is(ch.k.f, "sock")'
    BY <1>5, <1>6, <1>7, <2>3 DEF CalmInv, FiltersKept
  <2>. QED
    BY <1>6, <2>4, <2>5, <2>6 DEF FiltersKept
<1>10. FieldsOwn'
  <2>1. \A c \in Live : Held(c) \subseteq Fd
    BY DEF Held, Live, Shaped, TypeOK
  <2>. QED
    BY <1>1, <1>5, <1>6, <2>1 DEF CalmInv, FieldsOwn, Held
<1>11. Listened'
  <2>. SUFFICES ASSUME NEW c \in Live \ Leaving
                PROVE  \/ EndRead(sock[c], c) \in batch
                       \/ /\ Is(sock[c], "sock")' /\ file'[sock[c]].who = c
                          /\ OnRead(sock[c], c) \in knotes \/ Add(OnRead(sock[c], c)) \in Pending
    BY <1>1, <1>6 DEF Listened
  <2>1. sock[c] \in Fd
    BY LiveSocket
  <2>. QED
    BY <1>1, <1>5, <2>1 DEF CalmInv, Listened, Is
<1>12. LeavingOnce'
  BY <1>1, <1>6 DEF CalmInv, LeavingOnce
<1>13. EndsTogether'
  <2>1. ASSUME NEW p \in Fd, Is(p, "pipe"), file'[p].end # "open"
        PROVE  /\ phase[file[p].who] # "post" /\ file'[p].who = file[p].who
               /\ \A g \in Fd : Feeds(g, file[p].who) => file'[g].end = "reset"
    <3>1. file[p] # Closed /\ file[p].kind = "pipe" /\ file'[p].who = file[p].who
      BY <1>5, <2>1 DEF Is
    <3>2. CASE p = f
      BY <1>2, <1>5, <3>1, <3>2
    <3>3. CASE p # f
      <4>1. /\ phase[file[p].who] # "post"
            /\ \A g \in Fd : Feeds(g, file[p].who) => file[g].end = "reset"
        BY <1>5, <2>1, <3>1, <3>3 DEF CalmInv, EndsTogether
      <4>. QED
        BY <1>5, <3>1, <4>1 DEF Feeds, Is
    <3>. QED
      BY <3>2, <3>3
  <2>2. ASSUME NEW p \in Fd, Is(p, "pipe")', file'[p].end # "open"
        PROVE  /\ phase'[file'[p].who] # "post" /\ file'[p].who = file[p].who
               /\ \A g \in Fd : Feeds(g, file[p].who)' => file'[g].end = "reset"
    BY <1>1, <1>7, <2>1, <2>2
  <2>. QED
    BY <1>6, <2>2 DEF EndsTogether, Is, Feeds
<1>14. WritesResponses'
  <2>1. ASSUME NEW c \in Live, phase[c] # "respond", Is(sock[c], "sock")', file'[sock[c]].who = c
        PROVE  Gone(OnWrite(sock[c], c), knotes, changes)
    <3>1. sock[c] \in Fd
      BY LiveSocket
    <3>2. Is(sock[c], "sock") /\ file[sock[c]].who = c
      BY <1>1, <1>5, <2>1, <3>1 DEF Is
    <3>. QED
      BY <2>1, <3>2 DEF CalmInv, WritesResponses
  <2>. QED
    BY <1>1, <1>6, <2>1 DEF WritesResponses, Is, Feeds
<1>. QED
  BY <1>8, <1>9, <1>10, <1>11, <1>12, <1>13, <1>14 DEF CalmInv

\* The last client of the list is deleted: it had let go of everything.
LEMMA DeleteCalm == Shaped /\ CalmInv /\ DeleteClient => CalmInv'
<1>. SUFFICES ASSUME Shaped, CalmInv, DeleteClient PROVE CalmInv'
  OBVIOUS
<1>1. /\ pc = "delete" /\ batch = {} /\ UNCHANGED <<file, knotes, changes, batch>>
  BY DEF DeleteClient, kernel, Shaped, RoundKnown
<1>2. CASE for_close = <<>>
  <2>1. UNCHANGED <<client, kernel, changes, for_close>> /\ batch' \subseteq batch
    BY <1>1, <1>2 DEF DeleteClient, client, kernel
  <2>. QED
    BY <1>1, <2>1, QuietCalm
<1>3. CASE for_close # <<>>
  <2>. DEFINE c == for_close[Len(for_close)]
  <2>1. /\ for_close' = SubSeq(for_close, 1, Len(for_close) - 1)
        /\ phase' = [phase EXCEPT ![c] = "none"] /\ sock' = [sock EXCEPT ![c] = NoFd]
        /\ body' = [body EXCEPT ![c] = NoFd] /\ feed' = [feed EXCEPT ![c] = NoFd]
    BY <1>3 DEF DeleteClient
  <2>2. for_close \in Seq(Clients)
    BY DEF Shaped, TypeOK
  <2>3. /\ c \in Clients /\ Len(for_close) \in DOMAIN for_close
        /\ \A i \in DOMAIN for_close' : /\ i \in DOMAIN for_close /\ i # Len(for_close)
                                        /\ for_close'[i] = for_close[i]
        /\ \A i \in DOMAIN for_close : i # Len(for_close) =>
             i \in DOMAIN for_close' /\ for_close'[i] = for_close[i]
    BY <1>3, <2>1, <2>2
  <2>. HIDE DEF c
  <2>4. c \in Leaving /\ c \in Live /\ \A i \in DOMAIN for_close' : for_close'[i] # c
    BY <2>3 DEF CalmInv, LeavingOnce, Leaving, c
  <2>5. Leaving' = Leaving \ {c}
    <3>1. \A i \in DOMAIN for_close' : for_close'[i] \in Leaving \ {c}
      BY <2>3, <2>4 DEF Leaving
    <3>2. \A i \in DOMAIN for_close : for_close[i] # c => for_close[i] \in Leaving'
      BY <2>3 DEF Leaving, c
    <3>3. Leaving' \subseteq Leaving \ {c}
      BY <3>1 DEF Leaving
    <3>4. Leaving \ {c} \subseteq Leaving'
      BY <3>2, Zenon DEF Leaving
    <3>. QED
      BY <3>3, <3>4
  <2>6. /\ phase'[c] = "none"
        /\ \A d \in Clients \ {c} : /\ phase'[d] = phase[d] /\ sock'[d] = sock[d]
                                    /\ body'[d] = body[d] /\ feed'[d] = feed[d]
    BY <2>1, <2>3 DEF Shaped, TypeOK
  <2>7. /\ Live' = Live \ {c} /\ Live' \ Leaving' = Live \ Leaving /\ Pending' = Pending
        /\ Free' = Free /\ Told = {} /\ Told' = {} /\ Leaving' \subseteq Clients
        /\ \A d \in Live \ Leaving : d \in Clients \ {c}
    BY <1>1, <2>4, <2>5, <2>6 DEF Live, Pending, Free, Told, CalmInv, LeavingOnce, Leaving
  <2>8. FilesKept'
    <3>. SUFFICES ASSUME NEW g \in Fd, file[g] # Closed
                  PROVE  LET d == file[g].who
                         IN  /\ d \in Live \ Leaving
                             /\ Is(g, "sock")   => g = sock'[d]
                             /\ Is(g, "page")   => g = body'[d] /\ phase'[d] = "page"
                             /\ Is(g, "upload") => g = body'[d] /\ phase'[d] = "upload"
                             /\ Is(g, "pipe")   => g = body'[d] /\ phase'[d] \in {"post", "cgi"}
                             /\ Is(g, "feed")   => g = feed'[d] /\ phase'[d] \in {"post", "cgi", "respond"}
                             /\ Is(g, "feed") /\ phase'[d] = "respond" => EndWrite(g, d) \in batch
                             /\ Is(g, "feed") /\ phase'[d] = "cgi" =>
                                  OnWrite(g, d) \in knotes \/ Add(OnWrite(g, d)) \in Pending
      BY <1>1, <2>7 DEF FilesKept, Is, Free
    <3>1. file[g].who \in Live \ Leaving /\ g \in Fd \ Free
      BY Owned
    <3>. QED
      BY <2>6, <2>7, <3>1 DEF CalmInv, FilesKept
  <2>9. FiltersKept'
    BY <1>1, <2>7 DEF CalmInv, FiltersKept, Ours, Fits, Is
  <2>10. FieldsOwn'
    BY <1>1, <2>6, <2>7 DEF CalmInv, FieldsOwn, Held
  <2>11. Listened'
    BY <1>1, <2>6, <2>7 DEF CalmInv, Listened, Is
  <2>12. LeavingOnce'
    <3>1. ASSUME NEW i \in DOMAIN for_close', NEW j \in DOMAIN for_close'
          PROVE  for_close'[i] \in Live' /\ (for_close'[i] = for_close'[j] => i = j)
      BY <2>3, <2>4, <2>7 DEF CalmInv, LeavingOnce
    <3>. QED
      BY <1>1, <3>1 DEF LeavingOnce
  <2>13. EndsTogether'
    <3>1. \A p \in Fd : Is(p, "pipe") => file[p].who \in Clients \ {c}
      BY <2>7, Owned DEF Is
    <3>. QED
      BY <1>1, <2>6, <2>7, <3>1 DEF CalmInv, EndsTogether, Is, Feeds
  <2>14. WritesResponses'
    <3>1. \A d \in Live' : d \in Live /\ phase'[d] = phase[d] /\ sock'[d] = sock[d]
      BY <2>6, <2>7 DEF Live
    <3>. QED
      BY <1>1, <2>7, <3>1 DEF CalmInv, WritesResponses, Is
  <2>. QED
    BY <2>8, <2>9, <2>10, <2>11, <2>12, <2>13, <2>14 DEF CalmInv
<1>. QED
  BY <1>2, <1>3

LEMMA InitCalm == Init => CalmInv
<1>. SUFFICES ASSUME Init PROVE CalmInv
  OBVIOUS
<1>1. Live = {} /\ Leaving = {} /\ Pending = {} /\ Told = {} /\ Fd \ Free = {}
  BY DEF Init, Live, Leaving, Pending, Told, Free
<1>2. \A f \in Fd : ~Is(f, "pipe")
  BY DEF Init, Is
<1>. QED
  BY <1>1, <1>2 DEF Init, CalmInv, FilesKept, FiltersKept, FieldsOwn, Listened, LeavingOnce,
                    EndsTogether, WritesResponses

\* Every handler, as one of the steps above.
LEMMA HandlersCalm ==
  ASSUME Shaped, CalmInv, calm',
         CreateClient \/ ReadSocket \/ ReadBody \/ WriteSocket \/ WriteBody \/ SocketEnds
           \/ PipeEnds \/ WriteEnds \/ ChangeFailed \/ UseAfterDelete
  PROVE  CalmInv'
<1>. changes \in Seq(Change)
  BY DEF Shaped, TypeOK
<1>1. ASSUME CreateClient PROVE CalmInv'
  <2>1. Handled(Accept) /\ UNCHANGED for_close
    BY <1>1 DEF CreateClient
  <2>2. CASE UNCHANGED <<client, kernel, changes, calm>>
    <3>1. Accept.flag # "EOF"
      BY DEF Accept
    <3>. QED
      BY <2>1, <2>2, <3>1, QuietCalm DEF Handled
  <2>3. CASE ~UNCHANGED <<client, kernel, changes, calm>>
    BY <1>1, <2>1, <2>3, CreateCalm DEF CreateClient, Accepted, Handled
  <2>. QED
    BY <2>2, <2>3
<1>2. ASSUME ReadSocket PROVE CalmInv'
  <2>1. PICK e \in batch :
          LET c == e.k.ud
          IN  /\ ToLive(e, "READ", "")
              /\ e.k.f = sock[c]
              /\ \/ /\ phase[c] = "idle" /\ e.k.f \notin Free /\ NextRequest(c, changes)
                 \/ /\ phase[c] = "post" /\ e.k.f \notin Free
                    /\ phase' = [phase EXCEPT ![c] = "cgi"]
                    /\ changes' = Append(changes, Add(OnWrite(feed[c], c)))
                    /\ UNCHANGED <<body, feed, file, calm>>
                 \/ UNCHANGED <<phase, body, feed, file, changes, calm>>
    BY <1>2 DEF ReadSocket
  <2>. DEFINE c == e.k.ud
  <2>2. c \in Live /\ For(e, "READ", "")
    BY <2>1 DEF ToLive
  <2>3. e \in Told /\ batch' = batch \ {e} /\ e.k.flt = "READ"
    BY <2>2, Taken
  <2>4. e.flag # "EOF"
    BY <2>2 DEF For
  <2>5. UNCHANGED <<sock, knotes, for_close>>
    BY <1>2 DEF ReadSocket
  <2>6. CASE UNCHANGED <<phase, body, feed, file, changes, calm>>
    BY <2>3, <2>4, <2>5, <2>6, QuietCalm DEF client, kernel
  <2>7. CASE phase[c] = "idle" /\ sock[c] \notin Free /\ NextRequest(c, changes)
    BY <2>1, <2>2, <2>3, <2>4, <2>5, <2>7, BeginCalm
  <2>8. CASE /\ phase[c] = "post" /\ sock[c] \notin Free
             /\ phase' = [phase EXCEPT ![c] = "cgi"]
             /\ changes' = Append(changes, Add(OnWrite(feed[c], c)))
             /\ UNCHANGED <<body, feed, file, calm>>
    BY <2>1, <2>2, <2>3, <2>4, <2>5, <2>8, FedCalm
  <2>. QED
    BY <2>1, <2>6, <2>7, <2>8
<1>3. ASSUME ReadBody PROVE CalmInv'
  <2>1. PICK e \in batch :
          LET c == e.k.ud
          IN  /\ ToLive(e, "READ", "")
              /\ e.k.f # sock[c]
              /\ \/ UNCHANGED <<phase, kernel, changes>>
                 \/ /\ phase[c] = "page"
                    /\ e.k.f \notin Free
                    /\ CloseAll({e.k.f})
                    /\ changes' = Append(changes, Add(OnWrite(sock[c], c)))
                    /\ phase' = [phase EXCEPT ![c] = "respond"]
    BY <1>3 DEF ReadBody
  <2>. DEFINE c == e.k.ud
              f == e.k.f
  <2>2. c \in Live /\ For(e, "READ", "") /\ c \in Clients
    BY <2>1 DEF ToLive, Live
  <2>3. e \in Told /\ batch' = batch \ {e} /\ e.k.flt = "READ" /\ f \in Fd /\ Ours(e.k)
    BY <2>2, Taken, Reported
  <2>4. e.flag # "EOF"
    BY <2>2 DEF For
  <2>5. UNCHANGED <<sock, body, feed, for_close>>
    BY <1>3 DEF ReadBody
  <2>6. CASE UNCHANGED <<phase, kernel, changes>>
    BY <2>3, <2>4, <2>5, <2>6, QuietCalm DEF client
  <2>7. CASE /\ phase[c] = "page" /\ f \notin Free /\ CloseAll({f})
             /\ changes' = Append(changes, Add(OnWrite(sock[c], c)))
             /\ phase' = [phase EXCEPT ![c] = "respond"]
    <3>1. file[f] # Closed /\ file[f].who = c
      BY <2>3, <2>7 DEF Free, Ours
    <3>2. f = body[c]
      BY <2>1, <2>3, <2>7, <3>1, Owned DEF CalmInv, FilesKept, Is, Kinds
    <3>3. \A g \in Fd : ~Feeds(g, c)
      BY <2>7, Owned DEF CalmInv, FilesKept, Feeds, Is
    <3>4. phase' # phase
      BY <2>2, <2>7 DEF Shaped, TypeOK
    <3>. DEFINE s == <<Add(OnWrite(sock[c], c))>>
    <3>5. s \in Seq(Change) /\ changes' = changes \o s
      BY <2>2, <2>7, LiveSocket, Asked, Appended
    <3>6. \A i \in DOMAIN s : s[i] = Add(OnWrite(sock[c], c))
      OBVIOUS
    <3>. HIDE DEF s
    <3>. QED
      BY <2>1, <2>3, <2>5, <2>7, <3>1, <3>2, <3>3, <3>4, <3>5, <3>6, ClosedCalm
  <2>. QED
    BY <2>1, <2>6, <2>7
<1>4. ASSUME WriteSocket PROVE CalmInv'
  <2>1. PICK e \in batch :
          LET c == e.k.ud
          IN  /\ ToLive(e, "WRITE", "")
              /\ e.k.f = sock[c]
              /\ \/ UNCHANGED <<phase, body, feed, file, changes, calm>>
                 \/ /\ phase[c] = "respond"
                    /\ e.k.f \notin Free
                    /\ NextRequest(c, Append(changes, Delete(e.k)))
    BY <1>4 DEF WriteSocket
  <2>. DEFINE c == e.k.ud
  <2>2. c \in Live /\ For(e, "WRITE", "")
    BY <2>1 DEF ToLive
  <2>3. /\ e \in Told /\ batch' = batch \ {e} /\ e.k.flt = "WRITE" /\ e.k.f \in Fd
        /\ e.k = OnWrite(e.k.f, c) /\ c \in Clients
    BY <2>2, Taken
  <2>4. e.flag # "EOF"
    BY <2>2 DEF For
  <2>5. UNCHANGED <<sock, knotes, for_close>>
    BY <1>4 DEF WriteSocket
  <2>6. CASE UNCHANGED <<phase, body, feed, file, changes, calm>>
    BY <2>3, <2>4, <2>5, <2>6, QuietCalm DEF client, kernel
  <2>7. CASE /\ phase[c] = "respond" /\ sock[c] \notin Free
             /\ NextRequest(c, Append(changes, Delete(e.k)))
    <3>1. Delete(e.k) \in Change
      BY <2>3, Asked
    <3>. DEFINE asked == Append(changes, Delete(e.k))
    <3>2. asked \in Seq(Change)
      BY <3>1
    <3>. HIDE DEF asked
    <3>3. NextRequest(c, asked) /\ asked = Append(changes, Delete(e.k))
      BY <2>7 DEF asked
    <3>. QED
      BY <2>1, <2>2, <2>3, <2>4, <2>5, <2>7, <3>2, <3>3, BeginCalm
  <2>. QED
    BY <2>1, <2>6, <2>7
<1>5. ASSUME WriteBody PROVE CalmInv'
  <2>1. PICK e \in batch :
          LET c == e.k.ud
          IN  /\ ToLive(e, "WRITE", "")
              /\ e.k.f # sock[c]
              /\ \/ UNCHANGED <<phase, kernel, changes>>
                 \/ /\ e.k.f \notin Free
                    /\ CloseAll({e.k.f})
                    /\ IF phase[c] = "upload" /\ e.k.f = body[c]
                       THEN /\ changes' = changes \o <<Delete(e.k), Add(OnWrite(sock[c], c))>>
                            /\ phase' = [phase EXCEPT ![c] = "respond"]
                       ELSE /\ changes' = Append(changes, Delete(e.k))
                            /\ UNCHANGED phase
    BY <1>5 DEF WriteBody
  <2>. DEFINE c == e.k.ud
              f == e.k.f
  <2>2. c \in Live /\ For(e, "WRITE", "") /\ c \in Clients
    BY <2>1 DEF ToLive, Live
  <2>3. e \in Told /\ batch' = batch \ {e} /\ e.k.flt = "WRITE" /\ f \in Fd /\ e.k = OnWrite(f, c)
    BY <2>2, Taken
  <2>4. e.flag # "EOF"
    BY <2>2 DEF For
  <2>5. UNCHANGED <<sock, body, feed, for_close>>
    BY <1>5 DEF WriteBody
  <2>6. Delete(e.k) \in Change
    BY <2>2, <2>3, Asked
  <2>7. CASE UNCHANGED <<phase, kernel, changes>>
    BY <2>3, <2>4, <2>5, <2>7, QuietCalm DEF client
  <2>8. CASE /\ f \notin Free /\ CloseAll({f}) /\ phase[c] = "upload" /\ f = body[c]
             /\ changes' = changes \o <<Delete(e.k), Add(OnWrite(sock[c], c))>>
             /\ phase' = [phase EXCEPT ![c] = "respond"]
    <3>1. file[f] # Closed
      BY <2>3, <2>8 DEF Free
    <3>2. \A g \in Fd : ~Feeds(g, c)
      BY <2>8, Owned DEF CalmInv, FilesKept, Feeds, Is
    <3>3. phase' # phase
      BY <2>2, <2>8 DEF Shaped, TypeOK
    <3>. DEFINE s == <<Delete(e.k), Add(OnWrite(sock[c], c))>>
    <3>4. Add(OnWrite(sock[c], c)) \in Change
      BY <2>2, LiveSocket, Asked
    <3>5. s \in Seq(Change) /\ changes' = changes \o s
      BY <2>6, <2>8, <3>4, Appended
    <3>6. \A i \in DOMAIN s : s[i] = Delete(e.k) \/ s[i] = Add(OnWrite(sock[c], c))
      OBVIOUS
    <3>. HIDE DEF s
    <3>. QED
      BY <2>1, <2>3, <2>5, <2>8, <3>1, <3>2, <3>3, <3>5, <3>6, ClosedCalm
  <2>9. CASE CloseAll({f}) /\ changes' = Append(changes, Delete(e.k)) /\ UNCHANGED phase
    <3>. DEFINE s == <<Delete(e.k)>>
    <3>1. s \in Seq(Change) /\ changes' = changes \o s
      BY <2>6, <2>9, Appended
    <3>2. \A i \in DOMAIN s : s[i] = Delete(e.k)
      OBVIOUS
    <3>. HIDE DEF s
    <3>. QED
      BY <2>1, <2>3, <2>5, <2>9, <3>1, <3>2, ClosedCalm
  <2>. QED
    BY <2>1, <2>7, <2>8, <2>9
<1>6. ASSUME SocketEnds PROVE CalmInv'
  <2>1. PICK e \in batch : ToLive(e, "READ", "EOF") /\ e.k.f = sock[e.k.ud] /\ Disconnect(e.k.ud)
    BY <1>6 DEF SocketEnds
  <2>2. e.k.ud \in Live /\ For(e, "READ", "EOF")
    BY <2>1 DEF ToLive
  <2>3. /\ e \in Event /\ e.k = OnRead(sock[e.k.ud], e.k.ud) /\ e.flag = "EOF"
        /\ batch' = batch \ {e}
    BY <2>1, <2>2, Taken
  <2>. QED
    BY <2>1, <2>2, <2>3, DisconnectCalm
<1>7. ASSUME PipeEnds PROVE CalmInv'
  <2>1. PICK e \in batch :
          LET c == e.k.ud
          IN  /\ ToLive(e, "READ", "EOF")
              /\ e.k.f # sock[c]
              /\ CloseAll({e.k.f})
              /\ \/ UNCHANGED <<phase, changes>>
                 \/ /\ phase[c] \in {"post", "cgi"}
                    /\ e.k.f \notin Free
                    /\ phase' = [phase EXCEPT ![c] = "respond"]
                    /\ changes' = Append(changes, Add(OnWrite(sock[c], c)))
    BY <1>7 DEF PipeEnds
  <2>. DEFINE c == e.k.ud
              f == e.k.f
  <2>2. c \in Live /\ For(e, "READ", "EOF") /\ c \in Clients
    BY <2>1 DEF ToLive, Live
  <2>3. /\ e \in Told /\ batch' = batch \ {e} /\ e.k.flt = "READ" /\ e.flag = "EOF"
        /\ f \in Fd /\ Ours(e.k)
    BY <2>2, Taken, Reported
  <2>4. UNCHANGED <<sock, body, feed, for_close>>
    BY <1>7 DEF PipeEnds
  <2>5. CASE UNCHANGED <<phase, changes>>
    <3>. DEFINE s == <<>>
    <3>1. s \in Seq(Change) /\ changes' = changes \o s
      BY <2>5, Appended
    <3>2. \A i \in DOMAIN s : FALSE
      OBVIOUS
    <3>. HIDE DEF s
    <3>. QED
      BY <2>1, <2>3, <2>4, <2>5, <3>1, <3>2, ClosedCalm
  <2>6. CASE /\ phase[c] \in {"post", "cgi"} /\ f \notin Free
             /\ phase' = [phase EXCEPT ![c] = "respond"]
             /\ changes' = Append(changes, Add(OnWrite(sock[c], c)))
    <3>1. file[f] # Closed /\ file[f].who = c /\ Fits("READ", f)
      BY <2>3, <2>6 DEF Free, Ours
    <3>2. f = body[c] /\ Is(f, "pipe")
      BY <2>1, <2>3, <2>6, <3>1, Owned DEF CalmInv, FilesKept, Is, Fits
    <3>3. \A g \in Fd : Feeds(g, c) => EndWrite(g, c) \in batch
      BY <2>3, <3>2 DEF CalmInv, EndsTogether
    <3>4. phase' # phase
      BY <2>2, <2>6 DEF Shaped, TypeOK
    <3>. DEFINE s == <<Add(OnWrite(sock[c], c))>>
    <3>5. s \in Seq(Change) /\ changes' = changes \o s
      BY <2>2, <2>6, LiveSocket, Asked, Appended
    <3>6. \A i \in DOMAIN s : s[i] = Add(OnWrite(sock[c], c))
      OBVIOUS
    <3>. HIDE DEF s
    <3>. QED
      BY <2>1, <2>3, <2>4, <2>6, <3>1, <3>2, <3>3, <3>4, <3>5, <3>6, ClosedCalm
  <2>. QED
    BY <2>1, <2>5, <2>6
<1>8. ASSUME WriteEnds PROVE CalmInv'
  <2>1. PICK e \in batch : For(e, "WRITE", "EOF") /\ CloseWritten(e)
    BY <1>8 DEF WriteEnds
  <2>2. e \in Told /\ batch' = batch \ {e} /\ e.k = OnWrite(e.k.f, e.k.ud) /\ e.flag = "EOF" /\ e \in Event
    BY <2>1, Taken
  <2>3. e = EndWrite(e.k.f, e.k.ud)
    BY <2>2, Records DEF EndWrite
  <2>4. UNCHANGED <<phase, sock, body, feed, changes, for_close>> /\ CloseAll({e.k.f})
    BY <2>1 DEF CloseWritten, client
  <2>. DEFINE s == <<>>
  <2>5. s \in Seq(Change) /\ changes' = changes \o s
    BY <2>4, Appended
  <2>6. \A i \in DOMAIN s : FALSE
    OBVIOUS
  <2>. HIDE DEF s
  <2>. QED
    BY <2>2, <2>3, <2>4, <2>5, <2>6, ClosedCalm
<1>9. ASSUME ChangeFailed PROVE CalmInv'
  <2>1. ASSUME NEW e \in batch, For(e, "READ", "ERR"), e.k.ud \in Live, e.k.f = sock[e.k.ud],
               Disconnect(e.k.ud)
        PROVE  CalmInv'
    <3>1. e \in Event /\ e.k = OnRead(sock[e.k.ud], e.k.ud) /\ e.flag = "ERR" /\ batch' = batch \ {e}
      BY <2>1, Taken
    <3>. QED
      BY <2>1, <3>1, DisconnectCalm
  <2>2. ASSUME NEW e \in batch, Handled(e), e.flag = "ERR",
               UNCHANGED <<client, kernel, changes, for_close>>
        PROVE  CalmInv'
    BY <2>2, QuietCalm DEF Handled
  <2>. QED
    BY <1>9, <2>1, <2>2 DEF ChangeFailed, ToLive, For
<1>10. ASSUME UseAfterDelete PROVE CalmInv'
  <2>1. PICK e \in batch : /\ \/ For(e, "READ", "") \/ For(e, "WRITE", "")
                              \/ For(e, "READ", "EOF") \/ For(e, "PROC", "EOF")
                              \/ For(e, "READ", "ERR")
                           /\ e.k.ud \notin Live
    BY <1>10 DEF UseAfterDelete
  <2>2. UNCHANGED <<client, kernel, changes, for_close>>
    BY <1>10 DEF UseAfterDelete
  <2>3. ~For(e, "READ", "EOF")
    BY <2>1, Taken, Reported
  <2>4. batch' = batch \ {e} /\ (e.flag # "EOF" \/ e.k.flt = "PROC")
    BY <2>1, <2>3 DEF For, Handled
  <2>. QED
    BY <2>2, <2>4, QuietCalm
<1>. QED
  BY <1>1, <1>2, <1>3, <1>4, <1>5, <1>6, <1>7, <1>8, <1>9, <1>10

\* No step makes the loop calm again.
LEMMA BegunCalm ==
  ASSUME NEW c, NEW asked, NextRequest(c, asked), calm'
  PROVE  calm
<1>1. ASSUME NEW ph, NEW b, NEW kind, NEW w, NEW s, Begin(c, ph, b, kind, w, s) PROVE calm
  <2>1. calm' = (calm /\ ~Disturbed({b, w} \ {NoFd}, c, batch'))
    BY <1>1 DEF Begin
  <2>. QED
    BY <2>1, Zenon
<1>. QED
  BY <1>1, Zenon DEF NextRequest

LEMMA CalmBefore ==
  ASSUME [Next]_vars, calm'
  PROVE  calm
<1>1. ASSUME UNCHANGED calm PROVE calm
  BY <1>1, Zenon
<1>2. ASSUME Wait PROVE calm
  BY <1>2, Zenon DEF Wait
<1>3. ASSUME CreateClient PROVE calm
  <2>1. \/ UNCHANGED calm
        \/ \E f, c : calm' = (calm /\ ~Disturbed({f}, c, batch'))
    BY <1>3 DEF CreateClient
  <2>. QED
    BY <1>1, <2>1, Zenon
<1>4. ASSUME ReadSocket PROVE calm
  <2>1. UNCHANGED calm \/ \E c : NextRequest(c, changes)
    BY <1>4 DEF ReadSocket
  <2>. QED
    BY <1>1, <2>1, BegunCalm
<1>5. ASSUME WriteSocket PROVE calm
  <2>1. UNCHANGED calm \/ \E c, asked : NextRequest(c, asked)
    BY <1>5, Zenon DEF WriteSocket
  <2>. QED
    BY <1>1, <2>1, BegunCalm
<1>6. ~ProgramFailed
  BY Zenon DEF ProgramFailed
<1>7. CASE ApplyChange \/ ChangesApplied \/ EndOfRound \/ DeleteClient \/ OtherSideEnds \/ UNCHANGED vars
  BY <1>1, <1>7, Zenon DEF ApplyChange, ChangesApplied, EndOfRound, DeleteClient, OtherSideEnds, vars
<1>8. CASE ReadBody \/ WriteBody \/ SocketEnds \/ PipeEnds \/ WriteEnds \/ ChangeFailed \/ UseAfterDelete
  BY <1>1, <1>8, Zenon DEF ReadBody, WriteBody, SocketEnds, PipeEnds, WriteEnds, ChangeFailed, UseAfterDelete
<1>. QED
  BY <1>2, <1>3, <1>4, <1>5, <1>6, <1>7, <1>8 DEF Next, Loop

LEMMA InitKept == Init => IInv
  BY InitShaped, InitCalm DEF IInv

LEMMA StepKept == IInv /\ [Next]_vars => IInv'
<1>. SUFFICES ASSUME IInv, [Next]_vars PROVE IInv'
  OBVIOUS
<1>1. Shaped /\ Shaped'
  BY StepShaped DEF IInv
<1>2. ASSUME calm' PROVE CalmInv'
  <2>1. ~ProgramFailed
    BY <1>2, Zenon DEF ProgramFailed
  <2>2. CASE CreateClient \/ ReadSocket \/ ReadBody \/ WriteSocket \/ WriteBody \/ SocketEnds
               \/ PipeEnds \/ WriteEnds \/ ChangeFailed \/ UseAfterDelete
    <3>1. calm
      BY <1>2, <2>2, CalmBefore
    <3>. QED
      BY <1>1, <1>2, <2>2, <3>1, HandlersCalm DEF IInv
  <2>3. CASE ApplyChange \/ ChangesApplied \/ Wait \/ EndOfRound \/ DeleteClient \/ OtherSideEnds
               \/ UNCHANGED vars
    <3>1. calm
      BY <1>2, <2>3, CalmBefore
    <3>2. CalmInv
      BY <3>1 DEF IInv
    <3>3. ASSUME ChangesApplied \/ EndOfRound \/ UNCHANGED vars PROVE CalmInv'
      <4>1. UNCHANGED <<client, kernel, changes, for_close>> /\ batch' = batch
        BY <3>3 DEF ChangesApplied, EndOfRound, vars, client, kernel
      <4>. QED
        BY <1>1, <3>2, <4>1, QuietCalm
    <3>. QED
      BY <1>1, <1>2, <2>3, <3>2, <3>3, ApplyCalm, WaitCalm, OtherSideCalm, DeleteCalm
  <2>. QED
    BY <2>1, <2>2, <2>3 DEF Next, Loop
<1>. QED
  BY <1>1, <1>2 DEF IInv

LEMMA Inductive == Spec => []IInv
  BY InitKept, StepKept, PTL DEF Spec

\* While the loop is calm an event reaches a client that exists, and a descriptor
\* that is closed or that client's own: kevent's udata is never a dangling pointer.
THEOREM EventsOwned == Spec => []EventsMeetTheirOwner
<1>1. IInv => EventsMeetTheirOwner
  <2>. SUFFICES ASSUME IInv, calm, NEW e \in batch, e # Accept /\ e.flag # "ERR" /\ e.k.flt # "PROC"
                PROVE  e.k.ud \in Live /\ (e.k.f \in Free \/ file[e.k.f].who = e.k.ud)
    BY Zenon DEF EventsMeetTheirOwner
  <2>1. e \in Told /\ Shaped /\ CalmInv
    BY DEF Told, IInv
  <2>. QED
    BY <2>1, Reported DEF Ours, Free
<1>. QED
  BY <1>1, Inductive, PTL

\* While the loop is calm no client is on the list of those to delete twice.
THEOREM Deletions == Spec => []DeletedOnce
<1>1. IInv => DeletedOnce
  BY DEF IInv, CalmInv, LeavingOnce, DeletedOnce
<1>. QED
  BY <1>1, Inductive, PTL

\* While the loop is calm no client is left without its socket and its read filter
\* when the loop waits again.
THEOREM Listening == Spec => []NobodyForgotten
<1>1. IInv => NobodyForgotten
  <2>. SUFFICES ASSUME IInv, calm, pc = "wait", NEW c \in Live
                PROVE  /\ sock[c] \notin Free /\ file[sock[c]].who = c
                       /\ OnRead(sock[c], c) \in knotes
    BY Zenon DEF NobodyForgotten
  <2>1. Shaped /\ CalmInv
    BY DEF IInv
  <2>2. batch = {} /\ Pending = {} /\ Leaving = {}
    BY <2>1 DEF Shaped, RoundKnown, Pending, Leaving
  <2>. QED
    BY <2>1, <2>2 DEF CalmInv, Listened, Is, Free
<1>. QED
  BY <1>1, Inductive, PTL

\* While the loop is calm every open descriptor is in a field of a client that
\* exists: none is leaked.
THEOREM DescriptorsKept == Spec => []NoDescriptorLost
<1>1. IInv => NoDescriptorLost
  <2>. SUFFICES ASSUME IInv, calm, NEW f \in Fd \ Free
                PROVE  /\ file[f].who \in Live
                       /\ f \in {sock[file[f].who], body[file[f].who], feed[file[f].who]}
    BY Zenon DEF NoDescriptorLost
  <2>. QED
    BY Owned DEF IInv, Free
<1>. QED
  BY <1>1, Inductive, PTL

\* A request that begins opens descriptors and closes none.
LEMMA BegunOpens ==
  ASSUME NEW c, NEW asked, NextRequest(c, asked), NEW f \in Fd, file[f] # Closed
  PROVE  file'[f] # Closed
<1>1. ASSUME NEW ph, NEW b, NEW kind, NEW w, NEW s, Begin(c, ph, b, kind, w, s)
      PROVE  file'[f] # Closed
  <2>1. Opened(c, kind) # Closed /\ Opened(c, "feed") # Closed
    BY DEF Opened, Closed
  <2>. QED
    BY <1>1, <2>1 DEF Begin
<1>. QED
  BY <1>1, Zenon DEF NextRequest

LEMMA Closing ==
  ASSUME IInv, Next, calm, NEW e \in batch \ batch', e # Accept, NEW f \in Fd \ Free,
         file'[f] = Closed
  PROVE  file[f].who = e.k.ud
<1>1. Shaped /\ CalmInv /\ file[f] # Closed
  BY DEF IInv, Free
<1>2. ~UNCHANGED file /\ ~UNCHANGED kernel
  BY <1>1 DEF kernel
<1>3. ASSUME NEW d \in Told, batch' = batch \ {d}, CloseAll({d.k.f})
      PROVE  file[f].who = e.k.ud
  <2>1. e = d /\ f = d.k.f
    BY <1>1, <1>3 DEF CloseAll
  <2>. QED
    BY <1>1, <1>3, <2>1, Reported DEF Ours
<1>4. ASSUME NEW d \in batch, NEW flag \in {"EOF", "ERR"}, For(d, "READ", flag), d.k.ud \in Live,
             d.k.f = sock[d.k.ud], Disconnect(d.k.ud)
      PROVE  file[f].who = e.k.ud
  <2>1. batch' = batch \ {d} /\ d # Accept /\ d.k = OnRead(sock[d.k.ud], d.k.ud) /\ d.flag = flag
    BY <1>1, <1>4, Taken
  <2>2. e = d
    BY <2>1
  <2>3. d.k.ud \notin Leaving
    BY <1>1, <1>4, <2>1 DEF CalmInv, LeavingOnce
  <2>4. f \in Held(d.k.ud)
    BY <1>1, <1>4 DEF Disconnect, CloseAll
  <2>. QED
    BY <1>1, <1>4, <2>2, <2>3, <2>4 DEF CalmInv, FieldsOwn
<1>5. pc # "wait" /\ ~(batch \subseteq batch')
  BY <1>1 DEF Shaped, RoundKnown
<1>6. ~(ApplyChange \/ ChangesApplied \/ Wait \/ EndOfRound \/ DeleteClient \/ OtherSideEnds
        \/ ProgramFailed \/ UseAfterDelete)
  BY <1>2, <1>5 DEF ApplyChange, ChangesApplied, Wait, EndOfRound, DeleteClient, OtherSideEnds,
                    ProgramFailed, UseAfterDelete, kernel
<1>7. ~CreateClient
  <2>1. ASSUME NEW g \in Free, NEW c, file' = [file EXCEPT ![g] = Opened(c, "sock")] PROVE FALSE
    <3>1. g # f
      BY <1>1 DEF Free
    <3>. QED
      BY <1>1, <2>1, <3>1 DEF Shaped, TypeOK
  <2>. QED
    BY <1>2, <2>1 DEF CreateClient, Accepted
<1>8. ~ReadSocket
  BY <1>1, <1>2, BegunOpens DEF ReadSocket
<1>9. ~WriteSocket
  <2>1. WriteSocket => UNCHANGED file \/ \E c, asked : NextRequest(c, asked)
    BY Zenon DEF WriteSocket
  <2>. QED
    BY <1>1, <1>2, <2>1, BegunOpens
<1>10. CASE ReadBody
  <2>1. PICK d \in batch : For(d, "READ", "") /\ CloseAll({d.k.f})
    BY <1>2, <1>10 DEF ReadBody, ToLive
  <2>. QED
    BY <1>1, <1>3, <2>1, Taken
<1>11. CASE WriteBody
  <2>1. PICK d \in batch : For(d, "WRITE", "") /\ CloseAll({d.k.f})
    BY <1>2, <1>11 DEF WriteBody, ToLive
  <2>. QED
    BY <1>1, <1>3, <2>1, Taken
<1>12. CASE SocketEnds
  <2>1. PICK d \in batch : For(d, "READ", "EOF") /\ d.k.ud \in Live /\ d.k.f = sock[d.k.ud]
                            /\ Disconnect(d.k.ud)
    BY <1>12 DEF SocketEnds, ToLive
  <2>. QED
    BY <1>4, <2>1
<1>13. CASE PipeEnds
  <2>1. PICK d \in batch : For(d, "READ", "EOF") /\ CloseAll({d.k.f})
    BY <1>13 DEF PipeEnds, ToLive
  <2>. QED
    BY <1>1, <1>3, <2>1, Taken
<1>14. CASE WriteEnds
  <2>1. PICK d \in batch : For(d, "WRITE", "EOF") /\ CloseAll({d.k.f})
    BY <1>14 DEF WriteEnds, CloseWritten
  <2>. QED
    BY <1>1, <1>3, <2>1, Taken
<1>15. CASE ChangeFailed
  <2>1. PICK d \in batch : For(d, "READ", "ERR") /\ d.k.ud \in Live /\ d.k.f = sock[d.k.ud]
                            /\ Disconnect(d.k.ud)
    BY <1>2, <1>15 DEF ChangeFailed, ToLive
  <2>. QED
    BY <1>4, <2>1
<1>. QED
  BY <1>6, <1>7, <1>8, <1>9, <1>10, <1>11, <1>12, <1>13, <1>14, <1>15 DEF Next, Loop

\* While the loop is calm a handler closes only what belongs to the client of its
\* event, kevent_eof_handler's unconditional close included.
THEOREM ClosingOwn == Spec => ClosesOnlyItsOwn
<1>. DEFINE Closes == \A e \in batch \ batch' : \A f \in Fd \ Free :
                        (calm /\ e # Accept /\ file'[f] = Closed) => file[f].who = e.k.ud
<1>1. IInv /\ [Next]_vars => [Closes]_vars
  <2>1. IInv /\ Next => Closes
    BY Closing, Zenon
  <2>. QED
    BY <2>1
<1>. QED
  BY <1>1, Inductive, PTL DEF Spec, ClosesOnlyItsOwn
=============================================================================
