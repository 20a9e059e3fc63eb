----------------------------- MODULE Connection -----------------------------
(***************************************************************************)
(* One client connection of the server: class Client with its ReqField,    *)
(* ResField, ChunkedField and CgiField, driven by the events kqueue_module *)
(* dispatches to it.                                                       *)
(*                                                                         *)
(* The server is one thread and a handler runs to completion, so a step    *)
(* that waits for an event is taken only when pc = "wait".  The loops of a *)
(* handler (header lines, chunks, the fall-through cases of                *)
(* req_res_controller_) are its successive steps, taken while pc = "ctl".  *)
(* pc = "gone" once the client has been disconnected.                      *)
(***************************************************************************)
EXTENDS Conversation, FiniteSets

CONSTANTS
  PageSize,   \* size of the configured error page, NoPage if there is none
  GenSize,    \* size of the page generator_error_page_ builds
  Fd, NoFd    \* descriptors the connection may hold; -1 (or 0) in the code

NoPage == -1

ASSUME SizesAssumption == PageSize \in Nat \cup {NoPage} /\ GenSize \in Nat \ {0}
ASSUME FdAssumption    == NoFd \notin Fd

\* Nothing fails in a framed talk: there is room for the two pipes of a CGI.
ASSUME RoomAssumption  == (\E p \in Peers : Talks[p].framed) => \E r, w \in Fd : r # w

VARIABLES
  peer,       \* who is at the other end
  rcvd,       \* how many of its bytes read_ has put into _buf
  pos,        \* how many have left _buf again: _buf is bytes[pos+1 .. rcvd]
  pc,         \* "wait", "ctl" or "gone"
  state,      \* _state
  req,        \* _req
  res,        \* _res
  chnkd,      \* _chnkd
  cgi,        \* _cgi
  skip_size,  \* _skip_size
  fds,        \* the descriptors, with the knotes on them
  client_w,   \* an EVFILT_WRITE knote is on _client_fd
  failing,    \* NOTE_EXIT knotes of children that will exit with status 1
  disk,       \* the file of the latest upload: the bytes write_for_upload_ has
              \* stored, the limit when it was opened, and what _body_buf held then
  wire        \* the responses the peer has received

inputVars == <<peer, rcvd>>
vars == <<peer, rcvd, pos, pc, state, req, res, chnkd, cgi, skip_size, fds,
          client_w, failing, disk, wire>>

-----------------------------------------------------------------------------
(* The fields, as the constructors and clear_ leave them.                  *)

NoHeader == [length |-> Unset, te |-> FALSE, close |-> FALSE, badhost |-> FALSE]

\* is_cgi is _uri_resolv.is_cgi_, which clear_ does not reset.
NewReq(is_cgi, body_buf) ==
  [mthd |-> "NONE", uri |-> NoTarget, header |-> NoHeader, body_size |-> 0,
   body_read |-> 0, body_limit |-> Unset, cnt_len |-> Unset, body_fd |-> NoFd,
   body_buf |-> body_buf, is_chnkd |-> FALSE, is_cgi |-> is_cgi]

\* hdr: the header blocks in _res_header; cut: part of it has been written.
NewRes == [hdr |-> <<>>, cut |-> FALSE, buf |-> 0, body_read |-> 0, body_write |-> 0,
           body_size |-> 0, body_fd |-> NoFd, header_sent |-> FALSE,
           write_finished |-> FALSE]

NewChnkd == [body |-> 0, size |-> 0, first |-> TRUE, last |-> FALSE]

NewCgi == [from |-> 0, to |-> 0, cgi_read |-> 0, wfd |-> NoFd, rfd |-> NoFd,
           cgi_state |-> "CGI_HEADER", cgi_done |-> FALSE]

NoFile == [st |-> "none", stored |-> 0, cap |-> 0, carried |-> 0]

\* A file that has just been opened for the body of r.
NewFile(r) == [st |-> "partial", stored |-> 0, cap |-> r.body_limit, carried |-> r.body_buf]

-----------------------------------------------------------------------------
(* Descriptors.  `ev': the filters registered on it; `n': the bytes left   *)
(* to read; `run' and `peer': the child at a pipe and its other pipe.      *)

FreeFd == [kind |-> "free", ev |-> {}, n |-> 0, peer |-> NoFd, run |-> NoScript]
Page(n)     == [FreeFd EXCEPT !.kind = "page", !.n = n]
Upload      == [FreeFd EXCEPT !.kind = "upload"]
Pipe(s, w)  == [FreeFd EXCEPT !.kind = "pipe", !.ev = {"R"}, !.run = s, !.peer = w,
                              !.n = s.out + (IF s.form = "none" THEN 0 ELSE 1)]
Stdin(s, r) == [FreeFd EXCEPT !.kind = "stdin", !.run = s, !.peer = r]

FreeIn(tbl) == {f \in Fd : tbl[f].kind = "free"}

\* add_change_list(fd, e, EV_ADD): an error on a closed descriptor, which
\* kevent_error_handler ignores.
Watch(tbl, f, e) ==
  IF f \in Fd \ FreeIn(tbl) THEN [tbl EXCEPT ![f].ev = @ \cup {e}] ELSE tbl

\* close(2) also removes the knotes.
CloseFds(tbl, gone) == [f \in Fd |-> IF f \in gone THEN FreeFd ELSE tbl[f]]

\* The child that writes to pipe r still waits for the end of its input.
AwaitsInput(tbl, r) ==
  /\ tbl[r].kind = "pipe" /\ tbl[r].run.reads
  /\ tbl[r].peer \in Fd
  /\ tbl[tbl[r].peer].kind = "stdin"
  /\ tbl[tbl[r].peer].peer = r

-----------------------------------------------------------------------------
(* The responses.  Each operator gives the possible outcomes of the call:  *)
(* _res and the descriptors after it, and whether it registers the WRITE   *)
(* knote of the client.                                                    *)

\* len: the body bytes the peer will wait for.
HeaderBlock(r, status, len) ==
  <<[status |-> status, len |-> IF r.mthd = "HEAD" THEN 0 ELSE len, got |-> 0]>>

Generated(r) == IF r.mthd = "HEAD" THEN 0 ELSE GenSize

make_error_response_(code, r, a, tbl) ==
  IF PageSize = NoPage \/ FreeIn(tbl) = {}
  THEN {[res |-> [a EXCEPT !.hdr = @ \o HeaderBlock(r, code, GenSize), !.body_size = GenSize,
                           !.buf = @ + Generated(r)],
         fds |-> tbl, w |-> TRUE]}
  ELSE LET b == [a EXCEPT !.hdr = @ \o HeaderBlock(r, code, PageSize), !.body_size = PageSize]
       IN  IF r.mthd = "HEAD"
           THEN {[res |-> [b EXCEPT !.body_fd = NoFd], fds |-> tbl, w |-> TRUE]}
           ELSE {[res |-> [b EXCEPT !.body_fd = f],
                  fds |-> [tbl EXCEPT ![f] = Page(PageSize)], w |-> FALSE] : f \in FreeIn(tbl)}

make_response_header_(r, a, tbl) ==
  LET loc == Location[r.uri]
      Plain(status, len, body, buf) ==
        {[res |-> [a EXCEPT !.hdr = @ \o HeaderBlock(r, status, len), !.body_size = body, !.buf = @ + buf],
          fds |-> tbl, w |-> a.body_fd = NoFd]}
  IN  CASE loc.redirect ->
             {[res |-> [a EXCEPT !.hdr = @ \o HeaderBlock(r, 301, 0)], fds |-> tbl, w |-> TRUE]}
        [] ~loc.redirect /\ r.mthd \notin {"GET", "HEAD"} ->
             Plain(200, 0, a.body_size, 0)
        [] ~loc.redirect /\ r.mthd \in {"GET", "HEAD"} /\ loc.kind = "denied" ->
             make_error_response_(403, r, a, tbl)
        [] ~loc.redirect /\ r.mthd = "HEAD" /\ loc.kind = "file" /\ FreeIn(tbl) # {} ->
             {[res |-> [a EXCEPT !.hdr = @ \o HeaderBlock(r, 200, loc.size), !.body_size = 0,
                                 !.body_fd = NoFd],
               fds |-> tbl, w |-> TRUE]}
        [] ~loc.redirect /\ r.mthd = "GET" /\ loc.kind = "file" /\ FreeIn(tbl) # {} ->
             {[res |-> [a EXCEPT !.hdr = @ \o HeaderBlock(r, 200, loc.size), !.body_size = loc.size,
                                 !.body_fd = f],
               fds |-> [tbl EXCEPT ![f] = Page(loc.size)], w |-> FALSE] : f \in FreeIn(tbl)}
        [] OTHER ->      \* file_open_ gave -1
             IF ~loc.autoindex THEN make_error_response_(404, r, a, tbl)
             ELSE IF loc.kind = "dir"
             THEN Plain(200, loc.size, IF r.mthd = "HEAD" THEN 0 ELSE loc.size, loc.size)
             ELSE make_error_response_(403, r, a, tbl)

make_cgi_response_header_(r, a, from, form) ==
  IF form = "length"
  THEN [a EXCEPT !.hdr = @ \o HeaderBlock(r, 200, from)]
  ELSE [a EXCEPT !.hdr = @ \o HeaderBlock(r, 200, from), !.body_size = from]

-----------------------------------------------------------------------------
(* error_response_keep_alive_ and the state it leaves _state in.           *)

SkipStateUnread(r) == "REQ_HOLD"      \* mutant: the body of the request is not skipped

SkipState(r) ==
  CASE r.is_chnkd \/ (r.mthd \notin Bodiless /\ r.cnt_len = Unset) -> "REQ_SKIP_BODY_CHUNKED"
    [] ~r.is_chnkd /\ r.cnt_len = 0                                -> "REQ_HOLD"
    [] ~r.is_chnkd /\ r.cnt_len = Unset /\ r.mthd \in Bodiless     -> "REQ_HOLD"
    [] OTHER                                                       -> "REQ_SKIP_BODY"

error_response_keep_alive_(code, r, tbl) ==
  /\ state' = SkipState(r)
  /\ req' = IF SkipState(r) = "REQ_SKIP_BODY_CHUNKED" THEN [r EXCEPT !.body_size = Unset] ELSE r
  /\ \E o \in make_error_response_(code, r, res, tbl) :
       /\ res' = o.res
       /\ fds' = Watch(o.fds, o.res.body_fd, "R")
       /\ client_w' = (client_w \/ o.w)

-----------------------------------------------------------------------------
(* req_res_controller_: the steps of REQ_CLEAR, REQ_LINE_PARSING and       *)
(* REQ_HEADER_PARSING.                                                     *)

talk  == Talks[peer]
avail == rcvd - pos
\* get_crlf_line_(talk.bytes, pos, rcvd), so said that TLC evaluates talk.bytes once.
line  == CHOOSE l \in {get_crlf_line_(b, pos, rcvd) : b \in {talk.bytes}} : TRUE

In(s)       == pc = "ctl" /\ state = s
Wait        == pc' = "wait"
LeastUnbounded(a, b) == a              \* mutant: all there is
Least(a, b) == IF a <= b THEN a ELSE b

reset_ ==
  /\ In("REQ_CLEAR")
  /\ req' = NewReq(req.is_cgi, req.body_buf)
  /\ res' = NewRes /\ chnkd' = NewChnkd /\ cgi' = NewCgi
  /\ state' = "REQ_LINE_PARSING"
  /\ UNCHANGED <<inputVars, pos, pc, skip_size, fds, client_w, failing, disk, wire>>

\* Both parsers give up until the next event when there is no whole line.
ReadMore ==
  /\ \/ In("REQ_LINE_PARSING") /\ line.got # "line"
     \/ In("REQ_HEADER_PARSING") /\ line.got = "none"
  /\ Wait
  /\ UNCHANGED <<inputVars, pos, state, req, res, chnkd, cgi, skip_size, fds, client_w,
                 failing, disk, wire>>

request_line_parser_ ==
  /\ In("REQ_LINE_PARSING") /\ line.got = "line"
  /\ pos' = line.end
  /\ \/ /\ line.text = Blank
        /\ UNCHANGED <<pc, state, req, res, fds, client_w>>
     \/ /\ line.text.t = "req"
        /\ req' = [req EXCEPT !.mthd = line.text.m, !.uri = line.text.u]
        /\ state' = "REQ_HEADER_PARSING"
        /\ UNCHANGED <<pc, res, fds, client_w>>
     \/ /\ line.text # Blank /\ line.text.t # "req"
        /\ error_response_keep_alive_(400, [req EXCEPT !.mthd = "UNDEFINED"], fds)
        /\ Wait
  /\ UNCHANGED <<inputVars, chnkd, cgi, skip_size, failing, disk, wire>>

header_field_parser_ ==
  /\ In("REQ_HEADER_PARSING") /\ line.got = "line" /\ line.text # Blank
  /\ pos' = line.end
  /\ req' = [req EXCEPT !.header =
               [length  |-> IF line.text.t = "length" THEN line.text.n ELSE @.length,
                te      |-> @.te \/ line.text.t = "te",
                close   |-> @.close \/ line.text.t = "close",
                badhost |-> @.badhost \/ line.text.t = "badhost"]]
  /\ UNCHANGED <<inputVars, pc, state, res, chnkd, cgi, skip_size, fds, client_w, failing,
                 disk, wire>>

\* The end of the header: an empty line, or a bare LF, which is left in _buf.
HeaderEnds ==
  /\ In("REQ_HEADER_PARSING")
  /\ \/ line.got = "bare"
     \/ line.got = "line" /\ line.text = Blank
  /\ pos' = line.end
  /\ UNCHANGED <<inputVars, wire>>

\* _req with the framing headers applied, and then with its location.
Framed  == [req EXCEPT !.cnt_len = req.header.length, !.is_chnkd = req.header.te]
Located ==
  LET loc == Location[req.uri]
  IN  [Framed EXCEPT !.body_limit = IF loc.found THEN loc.limit ELSE @,
                     !.is_cgi = loc.found /\ loc.cgi /\ req.mthd # "DELETE"]
Served  == Location[req.uri].found /\ req.mthd \in Location[req.uri].allow

BadHostRequest ==
  /\ HeaderEnds /\ req.header.badhost
  /\ req' = Framed
  /\ \E o \in make_error_response_(400, Framed, res, fds) :
       res' = o.res /\ fds' = o.fds /\ client_w' = (client_w \/ o.w)
  /\ state' = "E_BAD_REQ" /\ Wait
  /\ UNCHANGED <<chnkd, cgi, skip_size, failing, disk>>

NotServed ==
  /\ HeaderEnds /\ ~req.header.badhost /\ ~Served
  /\ error_response_keep_alive_(IF Location[req.uri].found THEN 405 ELSE 404,
                                [Located EXCEPT !.is_cgi = FALSE], fds)
  /\ Wait
  /\ UNCHANGED <<chnkd, cgi, skip_size, failing, disk>>

res_for_get_head_req_ ==
  /\ HeaderEnds /\ ~req.header.badhost /\ Served /\ ~Located.is_cgi
  /\ req.mthd \in {"GET", "HEAD"}
  /\ req' = Located
  /\ \E o \in make_response_header_(Located, res, fds) :
       IF o.res.body_fd \in Fd /\ o.res.body_size = 0
       THEN /\ res' = [o.res EXCEPT !.body_fd = NoFd]
            /\ fds' = CloseFds(o.fds, {o.res.body_fd})
            /\ client_w' = TRUE
       ELSE /\ res' = o.res
            /\ fds' = Watch(o.fds, o.res.body_fd, "R")
            /\ client_w' = (client_w \/ o.w)
  /\ state' = SkipState(Located)
  /\ skip_size' = IF SkipState(Located) = "REQ_SKIP_BODY" THEN Located.cnt_len ELSE skip_size
  /\ Wait
  /\ UNCHANGED <<chnkd, cgi, failing, disk>>

res_for_delete_req_ ==
  /\ HeaderEnds /\ ~req.header.badhost /\ Served /\ req.mthd = "DELETE"
  /\ \E o \in IF Location[req.uri].kind = "file"
              THEN make_response_header_(Located, res, fds)
              ELSE make_error_response_(404, Located, res, fds) :
       /\ res' = o.res
       /\ fds' = IF Location[req.uri].kind = "file" THEN o.fds
                 ELSE Watch(o.fds, o.res.body_fd, "R")
       /\ client_w' = (client_w \/ o.w)
  /\ req' = IF Location[req.uri].kind # "file" /\ Located.is_chnkd
            THEN [Located EXCEPT !.body_size = Unset] ELSE Located
  /\ state' = SkipState(Located)
  /\ skip_size' = IF SkipState(Located) = "REQ_SKIP_BODY" THEN Located.cnt_len ELSE skip_size
  /\ Wait
  /\ UNCHANGED <<chnkd, cgi, failing, disk>>

\* Without Content-Length a body is read as chunked.  The first step of the
\* body follows at once: chunked_body_ or state_req_body_.
res_for_post_put_req_ ==
  /\ HeaderEnds /\ ~req.header.badhost /\ Served /\ ~Located.is_cgi
  /\ req.mthd \in {"POST", "PUT"}
  /\ \/ /\ Location[req.uri].kind \in {"dir", "denied"} \/ FreeIn(fds) = {}
        /\ error_response_keep_alive_(404, Located, fds)
        /\ Wait /\ UNCHANGED disk
     \/ /\ Location[req.uri].kind \in {"file", "missing"}
        /\ \E f \in FreeIn(fds) :
             LET r == [Located EXCEPT !.body_fd = f]
             IN  CASE r.is_chnkd \/ r.cnt_len = Unset ->
                        /\ req' = [r EXCEPT !.body_size = 0, !.cnt_len = Unset]
                        /\ fds' = [fds EXCEPT ![f] = Upload]
                        /\ state' = "REQ_BODY_CHUNKED" /\ disk' = NewFile(r)
                        /\ UNCHANGED <<pc, res, client_w>>
                   [] ~r.is_chnkd /\ r.cnt_len > r.body_limit ->
                        /\ error_response_keep_alive_(416, r, fds)
                        /\ disk' = [NewFile(r) EXCEPT !.st = "removed"] /\ Wait
                   [] OTHER ->
                        /\ req' = r
                        /\ fds' = Watch([fds EXCEPT ![f] = Upload], f, "W")
                        /\ state' = "REQ_BODY" /\ disk' = NewFile(r)
                        /\ UNCHANGED <<pc, res, client_w>>
  /\ UNCHANGED <<chnkd, cgi, skip_size, failing>>

\* do_cgi_ and cgi_handler_: fork, keep one end of each pipe, and go on with
\* req_res_controller_ in the new state.
do_cgi_ ==
  /\ HeaderEnds /\ ~req.header.badhost /\ Served /\ Located.is_cgi
  /\ \/ /\ "fork" \in talk.faults \/ ~ \E r, w \in FreeIn(fds) : r # w
        /\ error_response_keep_alive_(500, Located, fds)
        /\ Wait /\ UNCHANGED <<cgi, failing>>
     \/ \E s \in talk.scripts, r, w \in FreeIn(fds) :
          /\ r # w
          /\ IF req.mthd \in Bodiless
             THEN /\ fds' = [fds EXCEPT ![r] = Pipe(s, NoFd)]
                  /\ cgi' = [cgi EXCEPT !.rfd = r]
             ELSE /\ fds' = [fds EXCEPT ![r] = Pipe(s, w), ![w] = Stdin(s, r)]
                  /\ cgi' = [cgi EXCEPT !.rfd = r, !.wfd = w]
          /\ failing' = failing + (IF s.fails THEN 1 ELSE 0)
          /\ req' = Located
          /\ state' = CASE Located.is_chnkd /\ req.mthd \in Bodiless    -> "REQ_SKIP_BODY_CHUNKED"
                        [] Located.is_chnkd /\ req.mthd \notin Bodiless -> "REQ_CGI_BODY_CHUNKED"
                        [] ~Located.is_chnkd /\ Located.cnt_len = 0     -> "REQ_HOLD"
                        [] OTHER -> IF req.mthd \in Bodiless THEN "REQ_SKIP_BODY" ELSE "REQ_CGI_BODY"
          /\ UNCHANGED <<pc, res, client_w>>
  /\ UNCHANGED <<chnkd, skip_size, disk>>

-----------------------------------------------------------------------------
(* req_res_controller_: the states that take a body out of _buf.           *)

\* The size_t cnt_len - body_read may be huge (no length): then all there is.
UptoTheEnd(k) == avail                 \* mutant: the next message is taken as well
Upto(k) == IF k < 0 THEN avail ELSE Least(avail, k)

state_req_body_ ==
  /\ In("REQ_BODY")
  /\ LET n == Upto(req.cnt_len - req.body_read)
     IN  /\ req' = [req EXCEPT !.body_buf = @ + n, !.body_read = @ + n]
         /\ pos' = pos + n
         /\ state' = IF req.body_read + n = req.cnt_len THEN "REQ_HOLD" ELSE state
  /\ Wait
  /\ UNCHANGED <<inputVars, res, chnkd, cgi, skip_size, fds, client_w, failing, disk, wire>>

CgiBody ==
  /\ In("REQ_CGI_BODY")
  /\ LET n == Upto(req.cnt_len - req.body_read)
     IN  /\ req' = [req EXCEPT !.body_read = @ + n]
         /\ cgi' = [cgi EXCEPT !.to = @ + n]
         /\ pos' = pos + n
         /\ IF req.body_read + n = req.cnt_len
            THEN state' = "REQ_HOLD" /\ fds' = Watch(fds, cgi.wfd, "W")
            ELSE UNCHANGED <<state, fds>>
  /\ Wait
  /\ UNCHANGED <<inputVars, res, chnkd, skip_size, client_w, failing, disk, wire>>

SkipBody ==
  /\ In("REQ_SKIP_BODY")
  /\ LET n == Least(avail, skip_size)
     IN  pos' = pos + n /\ skip_size' = skip_size - n
  /\ Wait
  /\ UNCHANGED <<inputVars, state, req, res, chnkd, cgi, fds, client_w, failing, disk, wire>>

\* REQ_HOLD and E_BAD_REQ leave _buf alone.
HoldBody ==
  /\ In("REQ_HOLD") \/ In("E_BAD_REQ")
  /\ Wait
  /\ UNCHANGED <<inputVars, pos, state, req, res, chnkd, cgi, skip_size, fds, client_w,
                 failing, disk, wire>>

-----------------------------------------------------------------------------
(* ChunkedField::chunked_body_: one pass of its loop per step.  size is    *)
(* _chnkd_size, a uint32_t: what is left of a chunk with the CRLF after    *)
(* it, 0 between chunks.  A size of fffffffe makes it 0 and one of ffffffff *)
(* makes it 1.                                                             *)

InChunks == In("REQ_BODY_CHUNKED") \/ In("REQ_CGI_BODY_CHUNKED")

FirstChunk ==
  /\ InChunks /\ chnkd.first
  /\ chnkd' = [chnkd EXCEPT !.first = FALSE]
  /\ fds' = Watch(fds, IF req.is_cgi THEN cgi.wfd ELSE req.body_fd, "W")
  /\ UNCHANGED <<inputVars, pos, pc, state, req, res, cgi, skip_size, client_w, failing,
                 disk, wire>>

\* The data of a chunk: to _chnkd_body, and from there to _to_cgi for a CGI.
ChunkData ==
  /\ InChunks /\ ~chnkd.first /\ chnkd.size > 2
  /\ LET n == Least(avail, chnkd.size - 2)
     IN  /\ pos' = pos + n
         /\ pc' = IF chnkd.size - n = 2 THEN pc ELSE "wait"
         /\ IF state = "REQ_BODY_CHUNKED"
            THEN chnkd' = [chnkd EXCEPT !.size = @ - n, !.body = @ + n] /\ UNCHANGED cgi
            ELSE chnkd' = [chnkd EXCEPT !.size = @ - n] /\ cgi' = [cgi EXCEPT !.to = @ + n]
  /\ UNCHANGED <<inputVars, state, req, res, skip_size, fds, client_w, failing, disk, wire>>

AfterChunk == [chnkd EXCEPT !.size = (@ + Modulus - 2) % Modulus]

\* Two bytes after the data, whatever they are.  Had the size wrapped to 1, it
\* wraps again: chunked_body_ returns with almost all of 2^32 bytes to come.
ChunkEnd ==
  /\ InChunks /\ ~chnkd.first /\ chnkd.size \in {1, 2}
  /\ IF avail < 2
     THEN Wait /\ UNCHANGED <<pos, state, req, chnkd>>
     ELSE /\ pos' = pos + 2
          /\ chnkd' = AfterChunk
          /\ IF chnkd.last
             THEN req' = [req EXCEPT !.cnt_len = req.body_size] /\ state' = "REQ_HOLD" /\ Wait
             ELSE pc' = (IF chnkd.size = 2 THEN pc ELSE "wait") /\ UNCHANGED <<state, req>>
  /\ UNCHANGED <<inputVars, res, cgi, skip_size, fds, client_w, failing, disk, wire>>

AtChunkLine == InChunks /\ ~chnkd.first /\ chnkd.size = 0

ChunkLineMissing ==
  /\ AtChunkLine /\ line.got # "line"
  /\ Wait
  /\ UNCHANGED <<inputVars, pos, state, req, res, chnkd, cgi, skip_size, fds, client_w,
                 failing, disk, wire>>

\* operator>> stops at the largest number there is.
ReadSize(n) == IF n < Modulus THEN n ELSE Modulus - 1

\* mutant: the LF that ended the size line is counted once more
NextChunkLong(n) == [chnkd EXCEPT !.size = (n + 3) % Modulus, !.last = @ \/ n = 0]
NextChunk(n) == [chnkd EXCEPT !.size = (n + 2) % Modulus, !.last = @ \/ n = 0]

WithinLimitLate(r) == req.body_size <= r.body_limit   \* mutant: before it is counted
WithinLimit(r) == r.body_size <= r.body_limit

ChunkLine ==
  /\ AtChunkLine /\ line.got = "line" /\ line.text.t = "size"
  /\ pos' = line.end
  /\ chnkd' = NextChunk(ReadSize(line.text.n))
  /\ LET r == [req EXCEPT !.body_size = @ + ReadSize(line.text.n)]
     IN  IF WithinLimit(r)
         THEN req' = r /\ UNCHANGED <<pc, state, res, fds, client_w, disk>>
         ELSE /\ error_response_keep_alive_(413, r, CloseFds(fds, {req.body_fd}))
              /\ disk' = IF req.is_cgi THEN disk ELSE [disk EXCEPT !.st = "removed"]
              /\ Wait
  /\ UNCHANGED <<inputVars, cgi, skip_size, failing, wire>>

\* The 400 of a malformed chunk: its page, if any, gets no READ knote.
BadChunk ==
  /\ \E o \in make_error_response_(400, req, res, fds) :
       res' = o.res /\ fds' = o.fds /\ client_w' = (client_w \/ o.w)
  /\ state' = "E_BAD_REQ" /\ Wait

BadChunkLine ==
  /\ AtChunkLine /\ line.got = "line" /\ line.text.t # "size"
  /\ pos' = line.end
  /\ BadChunk
  /\ UNCHANGED <<inputVars, req, chnkd, cgi, skip_size, failing, disk, wire>>

-----------------------------------------------------------------------------
(* ChunkedField::skip_chunked_body_.                                       *)

InSkip == In("REQ_SKIP_BODY_CHUNKED")

SkipChunkData ==
  /\ InSkip /\ chnkd.size > 2
  /\ LET n == Least(avail, chnkd.size - 2)
     IN  /\ pos' = pos + n
         /\ pc' = IF chnkd.size - n = 2 THEN pc ELSE "wait"
         /\ chnkd' = [chnkd EXCEPT !.size = @ - n]
  /\ UNCHANGED <<inputVars, state, req, res, cgi, skip_size, fds, client_w, failing, disk, wire>>

\* The end of a skipped chunk is only passed once the response is written.
SkipChunkEnd ==
  /\ InSkip /\ chnkd.size \in {1, 2}
  /\ IF ~res.write_finished \/ avail < 2
     THEN Wait /\ UNCHANGED <<pos, state, req, res, chnkd, fds, client_w>>
     ELSE IF talk.bytes[pos+1] # CR \/ talk.bytes[pos+2] # LF
     THEN BadChunk /\ UNCHANGED <<pos, req, chnkd>>
     ELSE /\ pos' = pos + 2
          /\ chnkd' = AfterChunk
          /\ IF chnkd.last
             THEN req' = [req EXCEPT !.cnt_len = req.body_size] /\ state' = "REQ_CLEAR" /\ Wait
             ELSE pc' = (IF chnkd.size = 2 THEN pc ELSE "wait") /\ UNCHANGED <<state, req>>
          /\ UNCHANGED <<res, fds, client_w>>
  /\ UNCHANGED <<inputVars, cgi, skip_size, failing, disk, wire>>

SkipChunkLine ==
  /\ InSkip /\ chnkd.size = 0
  /\ pos' = line.end
  /\ CASE line.got # "line" ->
            Wait /\ UNCHANGED <<state, req, res, chnkd, fds, client_w>>
       [] line.got = "line" /\ line.text.t = "size" ->
            /\ chnkd' = NextChunk(ReadSize(line.text.n))
            /\ req' = [req EXCEPT !.body_size = @ + ReadSize(line.text.n)]
            /\ UNCHANGED <<pc, state, res, fds, client_w>>
       [] OTHER -> BadChunk /\ UNCHANGED <<req, chnkd>>
  /\ UNCHANGED <<inputVars, cgi, skip_size, failing, disk, wire>>

-----------------------------------------------------------------------------
(* Events on the client's socket.                                          *)

Idle == pc = "wait"

\* After a handler of the client's socket the controller runs unless HOLD.
Resume(s) == pc' = IF s = "REQ_HOLD" THEN "wait" ELSE "ctl"

read_to_client_buffer_ ==
  /\ Idle
  /\ \E r \in talk.cuts : r > rcvd /\ r <= Len(talk.bytes) /\ rcvd' = r
  /\ Resume(state)
  /\ UNCHANGED <<peer, pos, state, req, res, chnkd, cgi, skip_size, fds, client_w, failing,
                 disk, wire>>

\* mutant: a request that is already in _buf waits for the next read
ResponseDoneWaits(a) ==
  /\ client_w' = FALSE /\ res' = [a EXCEPT !.write_finished = TRUE] /\ pc' = "wait"
  /\ state' = IF state = "REQ_SKIP_BODY_CHUNKED" THEN state ELSE "REQ_CLEAR"

\* The response is out: the knote goes, and the next request may come.
ResponseDone(a) ==
  LET s == IF state = "REQ_SKIP_BODY_CHUNKED" THEN state ELSE "REQ_CLEAR"
  IN  /\ client_w' = FALSE
      /\ res' = [a EXCEPT !.write_finished = TRUE]
      /\ state' = s
      /\ Resume(s)

\* mutant: the request is cleared after a short write
ResponseCutShort(a) ==
  res' = a /\ state' = "REQ_CLEAR" /\ Resume("REQ_CLEAR") /\ UNCHANGED client_w

ResponseGoesOn(a) == res' = a /\ Resume(state) /\ UNCHANGED <<state, client_w>>

\* write_response_, header first.  A short write leaves the rest for later.
WriteHeader ==
  /\ Idle /\ client_w /\ ~res.header_sent
  /\ \/ /\ res.hdr # <<>> /\ ~res.cut
        /\ ResponseGoesOn([res EXCEPT !.cut = TRUE])
        /\ UNCHANGED wire
     \/ /\ wire' = wire \o res.hdr
        /\ LET a == [res EXCEPT !.hdr = <<>>, !.header_sent = TRUE]
           IN  IF res.body_size = 0 \/ req.mthd = "HEAD" THEN ResponseDone(a)
               ELSE ResponseGoesOn(a)
  /\ UNCHANGED <<inputVars, pos, req, chnkd, cgi, skip_size, fds, failing, disk>>

WriteBody ==
  /\ Idle /\ client_w /\ res.header_sent
  /\ LET left == IF req.is_cgi THEN cgi.from ELSE res.buf
     IN  \E n \in (IF left = 0 THEN {0} ELSE 1 .. left) :
           LET a == [res EXCEPT !.body_write = @ + n, !.buf = IF req.is_cgi THEN @ ELSE @ - n]
           IN  /\ cgi' = IF req.is_cgi THEN [cgi EXCEPT !.from = @ - n] ELSE cgi
               /\ wire' = IF wire = <<>> THEN wire ELSE [wire EXCEPT ![Len(wire)].got = @ + n]
               /\ IF a.body_write = res.body_size THEN ResponseDone(a) ELSE ResponseGoesOn(a)
  /\ UNCHANGED <<inputVars, pos, req, chnkd, skip_size, fds, failing, disk>>

HeldFiles == {req.body_fd, res.body_fd}               \* mutant: the pipes are forgotten
Held      == {req.body_fd, res.body_fd, cgi.rfd, cgi.wfd}

\* READ|EOF on the socket: disconnect_client_, close, delete.
HangUp ==
  /\ Idle /\ "hangup" \in talk.faults
  /\ pc' = "gone"
  /\ fds' = CloseFds(fds, Held)
  /\ client_w' = FALSE
  /\ disk' = IF req.body_fd \in Fd THEN [disk EXCEPT !.st = "removed"] ELSE disk
  /\ UNCHANGED <<inputVars, pos, state, req, res, chnkd, cgi, skip_size, failing, wire>>

-----------------------------------------------------------------------------
(* Events on the other descriptors.  read_event_handler tells a page from  *)
(* a pipe by is_cgi alone; write_event_handler an upload by _req._body_fd. *)

\* Something to read that is not the end of a pipe.
Readable(f) ==
  /\ Idle /\ "R" \in fds[f].ev /\ fds[f].n > 0
  /\ fds[f].kind \in {"page", "pipe"} /\ ~AwaitsInput(fds, f)

read_to_res_buffer_(f) ==
  /\ Readable(f) /\ ~req.is_cgi
  /\ \E n \in 1 .. fds[f].n :
       /\ res' = [res EXCEPT !.buf = @ + n, !.body_read = @ + n]
       /\ IF res.body_read + n = res.body_size
          THEN fds' = CloseFds(fds, {f}) /\ client_w' = TRUE
          ELSE fds' = [fds EXCEPT ![f].n = @ - n] /\ UNCHANGED client_w
  /\ UNCHANGED <<inputVars, pos, pc, state, req, chnkd, cgi, skip_size, failing, disk, wire>>

\* cgi_controller_ does nothing here: _cgi_done is set at the end of the pipe.
read_to_cgi_buffer_(f) ==
  /\ Readable(f) /\ req.is_cgi
  /\ \E n \in 1 .. fds[f].n :
       /\ cgi' = [cgi EXCEPT !.from = @ + n]
       /\ fds' = [fds EXCEPT ![f].n = @ - n]
  /\ UNCHANGED <<inputVars, pos, pc, state, req, res, chnkd, skip_size, client_w, failing,
                 disk, wire>>

\* READ|EOF on a pipe: read what fits; once all of it is read, cgi_controller_.
PipeEof(f) ==
  /\ Idle /\ fds[f].kind = "pipe" /\ ~AwaitsInput(fds, f)
  /\ \E n \in (IF fds[f].n = 0 THEN {0} ELSE 1 .. fds[f].n) :
       IF n < fds[f].n
       THEN /\ cgi' = [cgi EXCEPT !.from = @ + n]
            /\ fds' = [fds EXCEPT ![f].n = @ - n]
            /\ UNCHANGED <<res, client_w>>
       ELSE /\ fds' = CloseFds(fds, {f})
            /\ IF fds[f].run.form # "none" /\ cgi.from + n > fds[f].run.out
               THEN /\ cgi' = [cgi EXCEPT !.from = @ + n - 1, !.cgi_done = TRUE,
                                          !.cgi_state = "CGI_HOLD"]
                    /\ res' = make_cgi_response_header_(req, res, cgi.from + n - 1,
                                                        fds[f].run.form)
                    /\ client_w' = TRUE
               ELSE /\ cgi' = [cgi EXCEPT !.from = @ + n, !.cgi_done = TRUE,
                                          !.cgi_state = "CGI_HEADER"]
                    /\ UNCHANGED <<res, client_w>>
  /\ UNCHANGED <<inputVars, pos, pc, state, req, chnkd, skip_size, failing, disk, wire>>

\* WRITE|EOF on a pipe whose child has gone without reading its input.
StdinEof(f) ==
  /\ Idle /\ fds[f].kind = "stdin" /\ "W" \in fds[f].ev /\ ~fds[f].run.reads
  /\ fds' = CloseFds(fds, {f})
  /\ UNCHANGED <<inputVars, pos, pc, state, req, res, chnkd, cgi, skip_size, client_w,
                 failing, disk, wire>>

Writable(f) == Idle /\ "W" \in fds[f].ev

\* mutant: the file is not closed
UploadDoneOpen(f, r) ==
  /\ state' = "REQ_HOLD" /\ client_w' = TRUE
  /\ \E o \in make_response_header_(r, res, fds) : res' = o.res /\ fds' = o.fds

\* The upload is complete: close the file and make the response header.
UploadDone(f, r) ==
  /\ state' = IF ~Location[r.uri].redirect /\ r.header.close THEN "E_BAD_REQ" ELSE "REQ_HOLD"
  /\ \E o \in make_response_header_(r, res, CloseFds(fds, {f})) : res' = o.res /\ fds' = o.fds
  /\ client_w' = TRUE

BodyRead(r)   == r.body_read = r.cnt_len               \* mutant: what is buffered is not stored
BodyStored(r) == r.body_read = r.cnt_len /\ (r.is_chnkd \/ r.body_buf = 0)

write_for_upload_(f) ==
  /\ Writable(f) /\ f = req.body_fd
  /\ LET left == IF req.is_chnkd THEN chnkd.body ELSE req.body_buf
     IN  \E n \in (IF left = 0 THEN {0} ELSE 1 .. left) :
           LET r == IF req.is_chnkd THEN [req EXCEPT !.body_read = @ + n]
                    ELSE [req EXCEPT !.body_buf = @ - n]
               done == BodyStored(r)
           IN  /\ req' = r
               /\ chnkd' = IF req.is_chnkd THEN [chnkd EXCEPT !.body = @ - n] ELSE chnkd
               /\ disk' = [disk EXCEPT !.stored = @ + n, !.st = IF done THEN "whole" ELSE @]
               /\ IF done THEN UploadDone(f, r) ELSE UNCHANGED <<state, fds, res, client_w>>
  /\ UNCHANGED <<inputVars, pos, pc, cgi, skip_size, failing, wire>>

\* Any other descriptor is taken for the CGI's input.
write_to_cgi_(f) ==
  /\ Writable(f) /\ f # req.body_fd
  /\ \E n \in (IF cgi.to = 0 THEN {0} ELSE 1 .. cgi.to) :
       /\ cgi' = [cgi EXCEPT !.to = @ - n, !.cgi_read = @ + n,
                             !.cgi_state = IF cgi.cgi_read + n = req.cnt_len
                                           THEN "CGI_HEADER" ELSE @]
       /\ IF cgi.cgi_read + n = req.cnt_len
          THEN fds' = CloseFds(fds, {f}) /\ state' = "REQ_HOLD"
          ELSE UNCHANGED <<fds, state>>
  /\ UNCHANGED <<inputVars, pos, pc, req, res, chnkd, skip_size, client_w, failing, disk, wire>>

\* NOTE_EXIT with status 256, for whatever request the client is at by then.
\* (With any other status the event does nothing.)
proc_event_wait_pid ==
  /\ Idle /\ failing > 0
  /\ failing' = failing - 1
  /\ error_response_keep_alive_(500, req, fds)
  /\ UNCHANGED <<inputVars, pos, pc, chnkd, cgi, skip_size, disk, wire>>

-----------------------------------------------------------------------------

Init ==
  /\ peer \in Peers
  /\ rcvd = 0 /\ pos = 0 /\ pc = "wait" /\ state = "REQ_LINE_PARSING"
  /\ req = NewReq(FALSE, 0) /\ res = NewRes /\ chnkd = NewChnkd /\ cgi = NewCgi
  /\ skip_size = 0
  /\ fds = [f \in Fd |-> FreeFd]
  /\ client_w = FALSE /\ failing = 0 /\ disk = NoFile /\ wire = <<>>

Route == \/ BadHostRequest \/ NotServed \/ do_cgi_
         \/ res_for_get_head_req_ \/ res_for_post_put_req_ \/ res_for_delete_req_

ChunkedBody == \/ FirstChunk \/ ChunkData \/ ChunkEnd
               \/ ChunkLineMissing \/ ChunkLine \/ BadChunkLine

SkipChunkedBody == SkipChunkData \/ SkipChunkEnd \/ SkipChunkLine

req_res_controller_ ==
  \/ reset_ \/ ReadMore \/ request_line_parser_ \/ header_field_parser_ \/ Route
  \/ state_req_body_ \/ CgiBody \/ SkipBody \/ HoldBody
  \/ ChunkedBody \/ SkipChunkedBody

write_response_ == WriteHeader \/ WriteBody

FdEvent(f) ==
  \/ read_to_res_buffer_(f) \/ read_to_cgi_buffer_(f) \/ PipeEof(f) \/ StdinEof(f)
  \/ write_for_upload_(f) \/ write_to_cgi_(f)

\* What the event loop has to handle, or a handler in progress to finish.
Handled ==
  \/ req_res_controller_
  \/ read_to_client_buffer_ \/ write_response_
  \/ \E f \in Fd : FdEvent(f)
  \/ proc_event_wait_pid

Next == Handled \/ HangUp

\* kevent reports a level-triggered condition until it is handled, scripts end
\* and peers send what they have: the loop does not stop while an event is due.
Fairness == WF_vars(Handled)

Spec     == Init /\ [][Next]_vars
FairSpec == Spec /\ Fairness

-----------------------------------------------------------------------------
(* What must hold of every conversation.                                   *)

States == {"REQ_CLEAR", "REQ_LINE_PARSING", "REQ_HEADER_PARSING", "REQ_BODY",
           "REQ_BODY_CHUNKED", "REQ_SKIP_BODY", "REQ_SKIP_BODY_CHUNKED", "REQ_CGI_BODY",
           "REQ_CGI_BODY_CHUNKED", "REQ_HOLD", "E_BAD_REQ"}

SizeType == Nat \cup {Unset}

ReqType ==
  [mthd : Methods \cup {"NONE", "UNDEFINED"}, uri : Targets \cup {NoTarget},
   header : [length : SizeType, te : BOOLEAN, close : BOOLEAN, badhost : BOOLEAN],
   body_size : SizeType, body_read : Nat, body_limit : SizeType, cnt_len : SizeType,
   body_fd : Fd \cup {NoFd}, body_buf : Nat, is_chnkd : BOOLEAN, is_cgi : BOOLEAN]

ResponseType == [status : Nat, len : Nat, got : Nat]

ResType ==
  [hdr : Seq(ResponseType), cut : BOOLEAN, buf : Nat, body_read : Nat, body_write : Nat,
   body_size : Nat, body_fd : Fd \cup {NoFd}, header_sent : BOOLEAN, write_finished : BOOLEAN]

FdType ==
  [kind : {"free", "page", "upload"}, ev : SUBSET {"R", "W"}, n : Nat,
   peer : {NoFd}, run : {NoScript}] \cup
  [kind : {"pipe", "stdin"}, ev : SUBSET {"R", "W"}, n : Nat,
   peer : Fd \cup {NoFd}, run : Scripts]

ChnkdType == [body : Nat, size : 0 .. Modulus - 1, first : BOOLEAN, last : BOOLEAN]

CgiType ==
  [from : Nat, to : Nat, cgi_read : Nat, wfd : Fd \cup {NoFd}, rfd : Fd \cup {NoFd},
   cgi_state : {"CGI_HEADER", "CGI_HOLD"}, cgi_done : BOOLEAN]

DiskType ==
  [st : {"none", "partial", "whole", "removed"}, stored : Nat, cap : Nat, carried : Nat]

\* A closed descriptor has no knote.
TableType == {tbl \in [Fd -> FdType] : \A f \in Fd : tbl[f].kind = "free" => tbl[f] = FreeFd}

\* _buf gives no more than it holds, and what is taken out of it is no more
\* than its count: where the data of a chunk is taken, _chnkd_size stays at
\* least 2, though a size line may have wrapped it to 0 or 1 before.
TypeOK ==
  /\ peer \in Peers
  /\ rcvd \in 0 .. Len(talk.bytes) /\ pos \in 0 .. rcvd
  /\ pc \in {"wait", "ctl", "gone"} /\ state \in States
  /\ req \in ReqType
  /\ state = "REQ_HEADER_PARSING" \/ req.body_fd \in Fd => req.uri \in Targets
  /\ res \in ResType
  /\ chnkd \in ChnkdType
  /\ cgi \in CgiType
  /\ skip_size \in Nat
  /\ fds \in TableType
  /\ client_w \in BOOLEAN /\ failing \in Nat
  /\ disk \in DiskType
  /\ wire \in Seq(ResponseType)

\* No upload ever stores more than its location's client_max_body_size, other
\* than bytes an earlier, abandoned upload left in _body_buf, which clear_
\* keeps.  (Chunks are counted before their data, the data is written later,
\* from another event, and errors and responses may come in between.)
UploadWithinLimit == disk.stored <= disk.cap + disk.carried

\* Why: the inductive form of UploadWithinLimit.  Pending is what
\* write_for_upload_ will take from, Ahead what a chunk has still to bring.
Pending == IF req.is_chnkd THEN chnkd.body ELSE req.body_buf
Ahead   == CASE chnkd.size > 2 -> chnkd.size - 2
             [] chnkd.size = 1 -> Modulus - 3
             [] OTHER          -> 0

\* No part of an earlier request is left where the next one begins.
FreshRequest ==
  state \in {"REQ_LINE_PARSING", "REQ_HEADER_PARSING"} =>
    /\ chnkd = NewChnkd
    /\ req.body_fd = NoFd /\ req.body_read = 0

CgiHasNoUpload ==
  state \in {"REQ_CGI_BODY", "REQ_CGI_BODY_CHUNKED"} => req.body_fd = NoFd

\* A chunk is counted before its data comes, and the limit checked against it.
ChunksAccounted ==
  state = "REQ_BODY_CHUNKED" =>
    /\ req.body_size \in 0 .. req.body_limit /\ req.body_limit = disk.cap
    /\ IF req.is_chnkd THEN disk.stored + chnkd.body + Ahead <= req.body_size
       ELSE disk.stored + req.body_buf <= disk.carried

LengthAccounted ==
  state = "REQ_BODY" =>
    /\ ~req.is_chnkd
    /\ req.cnt_len \in req.body_read .. req.body_limit /\ req.body_limit = disk.cap
    /\ disk.stored + req.body_buf <= disk.carried + req.body_read

\* Whatever becomes of the request, the file may still be written to.
WriterAccounted ==
  req.body_fd \in Fd /\ "W" \in fds[req.body_fd].ev =>
    disk.stored + Pending <= disk.cap + disk.carried

UploadAccounted ==
  /\ FreshRequest /\ CgiHasNoUpload
  /\ ChunksAccounted /\ LengthAccounted /\ WriterAccounted
  /\ UploadWithinLimit

\* What REQ_BODY takes from _buf never exceeds the Content-Length it was
\* checked against: the unsigned _cnt_len - _body_read never wraps.
BodyWithinLength == state = "REQ_BODY" => req.body_read <= req.cnt_len /\ req.cnt_len <= req.body_limit

-----------------------------------------------------------------------------
(* What must hold of the conversations whose framing the server keeps.     *)

\* The errors after which it does not: a malformed chunk, an error page made
\* while is_cgi_ is set, and a script that fails, announces a length or does not
\* read its input.
GoodScript(d) == ~d.run.fails /\ d.run.form # "length" /\ (d.peer \in Fd => d.run.reads)

Orderly ==
  /\ pc = "ctl" /\ state' = "E_BAD_REQ" =>
       state \notin {"REQ_BODY_CHUNKED", "REQ_CGI_BODY_CHUNKED", "REQ_SKIP_BODY_CHUNKED"}
  /\ pc = "ctl" /\ req'.is_cgi => res'.hdr = res.hdr
  /\ \A f \in Fd : fds'[f].kind = "pipe" => GoodScript(fds'[f])

\* In a conversation of well-formed requests none of them occurs, however it is
\* cut: no byte of a body is taken for a chunk-size line, no request for a body.
FramedIsOrderly == [][talk.framed => Orderly]_vars

\* The peer gets the responses it is due, in the order of its requests.
AnswersInOrder ==
  talk.framed =>
    /\ Len(wire) <= Len(talk.answers)
    /\ \A i \in 1 .. Len(wire) : wire[i].status = talk.answers[i]

\* Every response has as many body bytes as its header announced before the
\* next one begins, and never more.
ResponsesWellFramed ==
  talk.framed =>
    \A i \in 1 .. Len(wire) : /\ wire[i].got <= wire[i].len
                              /\ i < Len(wire) => wire[i].got = wire[i].len

\* An upload is acknowledged when the file has exactly the body of the message
\* the server is at the end of, whatever the order of reads and writes.
BodyBytes(k) ==
  Cardinality({i \in 1 .. talk.ends[k] :
                 talk.bytes[i] = Byte /\ (k = 1 \/ i > talk.ends[k-1])})
AckedUploadIsWhole ==
  [][talk.framed /\ disk.st # "whole" /\ disk'.st = "whole" =>
       \E k \in 1 .. Len(talk.ends) : pos = talk.ends[k] /\ disk'.stored = BodyBytes(k)]_vars

\* When the next request is awaited nothing of the last one is left: no
\* descriptor, no knote, no byte in _body_buf.
NothingLeftBehind ==
  talk.framed /\ state = "REQ_LINE_PARSING" =>
    FreeIn(fds) = Fd /\ ~client_w /\ failing = 0 /\ req.body_buf = 0

\* A disconnect closes every descriptor of the client and leaves no part of an
\* upload in the file system.
DisconnectCleansUp ==
  talk.framed /\ pc = "gone" => FreeIn(fds) = Fd /\ disk.st # "partial"

\* Every request is answered in full, however its bytes are split.
AllAnswered ==
  <>(/\ Len(wire) = Len(talk.answers)
     /\ \A i \in 1 .. Len(wire) : wire[i].got = wire[i].len)

-----------------------------------------------------------------------------
(* What comments of the source say.                                        *)

\* spx_client.cpp:64: "bad request will return false and disconnect client."
\* Nothing then follows the 400 the peer is sent.
BadRequestDisconnects == \A i \in 1 .. Len(wire) - 1 : wire[i].status # 400

\* spx_req_res_field.cpp:112: "405 not allowed error with keep-alive
\* connection."  An upload that is refused is answered, and so is the request
\* that follows it on the connection.
RefusedUploadKeepsAlive ==
  <>(Len(wire) = 2 /\ wire[2].status = 200 /\ wire[2].got = wire[2].len)

\* spx_kqueue_module.cpp:184: "cgi_process error exit case" is answered with a
\* 500, the whole of it.
CgiErrorExitAnswered ==
  <>(\E i \in 1 .. Len(wire) : wire[i].status = 500 /\ wire[i].got = wire[i].len)

=============================================================================
