-------------------------- MODULE ConnectionProofs --------------------------
(***************************************************************************)
(* Theorems about Connection, for every site, every set of scripts, every  *)
(* set of peers with a reading of their talk and any number of             *)
(* descriptors: its types (TypeCorrect), the accounting of the bytes of an *)
(* upload (UploadSafe) and what it implies; and of a framed conversation   *)
(* that it is orderly (FramedOrderly), that each message gets the answer   *)
(* it is due (AnswersDue), that responses are well framed, that an upload  *)
(* is acknowledged when the file has all of its body (AckedWhole), and     *)
(* that nothing of a request outlives it or the connection.  The inductive *)
(* invariant is OInv (what is open and what is said agree), Talked (the    *)
(* server reads where the talk has it read, and has answered what it       *)
(* should have) and Stores (what is stored, and waits to be, is what has   *)
(* been read of the body).                                                 *)
(***************************************************************************)
EXTENDS Connection, SequenceTheorems, FiniteSetTheorems, TLAPS

-----------------------------------------------------------------------------
(* The lines get_crlf_line_ finds.                                         *)

LEMMA LineTyped ==
  ASSUME NEW b \in Seq(SymbolType), NEW p \in Nat, NEW r \in p .. Len(b)
  PROVE  /\ get_crlf_line_(b, p, r).end \in p .. r
         /\ get_crlf_line_(b, p, r).text \in SymbolType
<1>1. Blank \in SymbolType /\ Junk \in SymbolType
  BY DEF Blank, Junk, Sym, SymbolType
<1>2. CASE ~ \E e \in p+1 .. r : IsFirstLF(b, p, e)
  BY <1>1, <1>2 DEF get_crlf_line_
<1>3. CASE \E e \in p+1 .. r : IsFirstLF(b, p, e)
  <2> DEFINE e == CHOOSE e \in p+1 .. r : IsFirstLF(b, p, e)
  <2>1. e \in p+1 .. r /\ e \in p .. r
    BY <1>3
  <2>2. e \in p+3 .. r => b[p+1] \in SymbolType
    OBVIOUS
  <2> HIDE DEF e
  <2>3. CASE e = p+1 \/ b[e-1] # CR
    BY <1>1, <1>3, <2>3 DEF get_crlf_line_, e
  <2>4. CASE ~(e = p+1 \/ b[e-1] # CR)
    <3>1. get_crlf_line_(b, p, r) =
            [got |-> "line", end |-> e,
             text |-> CASE e = p+2 -> Blank [] e = p+3 -> b[p+1] [] OTHER -> Junk]
      BY <1>3, <2>4 DEF get_crlf_line_, e
    <3>2. CASE e = p+2
      BY <1>1, <2>1, <3>1, <3>2
    <3>3. CASE e = p+3
      BY <2>1, <2>2, <3>1, <3>3
    <3>4. CASE e # p+2 /\ e # p+3
      BY <1>1, <2>1, <3>1, <3>4
    <3> QED BY <3>2, <3>3, <3>4
  <2> QED BY <2>3, <2>4
<1> QED BY <1>2, <1>3

LEMMA TalkTyped == TypeOK => talk \in TalkType
BY TalksAssumption DEF TypeOK, talk

\* There is only one line to choose.
LEMMA LineIs == line = get_crlf_line_(talk.bytes, pos, rcvd)
<1> DEFINE l == get_crlf_line_(talk.bytes, pos, rcvd)
<1>1. {get_crlf_line_(b, pos, rcvd) : b \in {talk.bytes}} = {l}
  OBVIOUS
<1> HIDE DEF l
<1>2. (CHOOSE x \in {l} : TRUE) = l
  OBVIOUS
<1> QED BY <1>1, <1>2 DEF line, l

LEMMA LineOK ==
  ASSUME TypeOK
  PROVE  line.end \in pos .. rcvd /\ line.end \in 0 .. rcvd /\ line.text \in SymbolType
<1>1. talk.bytes \in Seq(SymbolType)
  BY TalkTyped DEF TalkType
<1>2. pos \in Nat /\ rcvd \in pos .. Len(talk.bytes)
  BY <1>1 DEF TypeOK
<1> QED BY <1>1, <1>2, LineIs, LineTyped

-----------------------------------------------------------------------------
(* The descriptor table.  NoNewWriter(old, new): no WRITE knote that was   *)
(* not there.                                                              *)

NoNewWriter(old, new) == \A f \in Fd : "W" \in new[f].ev => "W" \in old[f].ev

LEMMA FreeFdTyped == FreeFd \in FdType
BY DEF FreeFd, FdType

LEMMA WatchTyped ==
  ASSUME NEW tbl \in TableType, NEW f, NEW e \in {"R", "W"}
  PROVE  /\ Watch(tbl, f, e) \in TableType
         /\ e = "R" => NoNewWriter(tbl, Watch(tbl, f, e))
         /\ \A g \in Fd : g # f => Watch(tbl, f, e)[g] = tbl[g]
<1>1. CASE f \in Fd \ FreeIn(tbl)
  <2>1. Watch(tbl, f, e) = [tbl EXCEPT ![f].ev = @ \cup {e}]
    BY <1>1 DEF Watch
  <2>2. tbl[f] \in FdType /\ tbl[f].kind # "free"
    BY <1>1 DEF TableType, FreeIn
  <2>3. [tbl[f] EXCEPT !.ev = @ \cup {e}] \in FdType
    BY <2>2 DEF FdType
  <2> QED BY <1>1, <2>1, <2>2, <2>3 DEF TableType, FdType, NoNewWriter
<1>2. CASE f \notin Fd \ FreeIn(tbl)
  BY <1>2 DEF Watch, NoNewWriter
<1> QED BY <1>1, <1>2

LEMMA CloseTyped ==
  ASSUME NEW tbl \in TableType, NEW gone
  PROVE  CloseFds(tbl, gone) \in TableType /\ NoNewWriter(tbl, CloseFds(tbl, gone))
BY FreeFdTyped DEF TableType, CloseFds, NoNewWriter, FreeFd

LEMMA OpenTyped ==
  ASSUME NEW tbl \in TableType, NEW f \in Fd, NEW d \in FdType, d.kind # "free",
         "W" \notin d.ev
  PROVE  [tbl EXCEPT ![f] = d] \in TableType /\ NoNewWriter(tbl, [tbl EXCEPT ![f] = d])
BY DEF TableType, NoNewWriter

LEMMA PageTyped ==
  ASSUME NEW n \in Nat
  PROVE  Page(n) \in FdType /\ Page(n).kind # "free" /\ "W" \notin Page(n).ev
BY DEF Page, FreeFd, FdType

-----------------------------------------------------------------------------
(* The responses.                                                          *)

OutcomeTyped(o, tbl) ==
  o.res \in ResType /\ o.fds \in TableType /\ o.w \in BOOLEAN /\ NoNewWriter(tbl, o.fds)

LEMMA HeaderBlockTyped ==
  ASSUME NEW r, NEW status \in Nat, NEW len \in Nat
  PROVE  HeaderBlock(r, status, len) \in Seq(ResponseType)
BY DEF HeaderBlock, ResponseType

\* A response gets a header block, the size of its body and maybe its text.
LEMMA HdrTyped ==
  ASSUME NEW a \in ResType, NEW h \in Seq(ResponseType)
  PROVE  [a EXCEPT !.hdr = @ \o h] \in ResType
<1>1. a.hdr \o h \in Seq(ResponseType)
  BY DEF ResType
<1> QED BY <1>1 DEF ResType

LEMMA HdrSizeTyped ==
  ASSUME NEW a \in ResType, NEW h \in Seq(ResponseType), NEW n \in Nat
  PROVE  [a EXCEPT !.hdr = @ \o h, !.body_size = n] \in ResType
<1>1. a.hdr \o h \in Seq(ResponseType)
  BY DEF ResType
<1> QED BY <1>1 DEF ResType

LEMMA HdrSizeBufTyped ==
  ASSUME NEW a \in ResType, NEW h \in Seq(ResponseType), NEW n \in Nat, NEW g \in Nat
  PROVE  [a EXCEPT !.hdr = @ \o h, !.body_size = n, !.buf = @ + g] \in ResType
<1>1. a.hdr \o h \in Seq(ResponseType) /\ a.buf + g \in Nat
  BY DEF ResType
<1> QED BY <1>1 DEF ResType

LEMMA ErrorOutcome ==
  ASSUME NEW code \in Nat, NEW r \in ReqType, NEW a \in ResType, NEW tbl \in TableType,
         NEW o \in make_error_response_(code, r, a, tbl)
  PROVE  OutcomeTyped(o, tbl)
<1>1. NoNewWriter(tbl, tbl)
  BY DEF NoNewWriter
<1>2. GenSize \in Nat /\ (PageSize # NoPage => PageSize \in Nat)
  BY SizesAssumption
<1>3. CASE PageSize = NoPage \/ FreeIn(tbl) = {}
  <2>1. HeaderBlock(r, code, GenSize) \in Seq(ResponseType)
    BY <1>2, HeaderBlockTyped
  <2> DEFINE b == [a EXCEPT !.hdr = @ \o HeaderBlock(r, code, GenSize), !.body_size = GenSize,
                            !.buf = @ + Generated(r)]
  <2>2. o = [res |-> b, fds |-> tbl, w |-> TRUE]
    BY <1>3 DEF make_error_response_
  <2>3. Generated(r) \in Nat
    BY <1>2 DEF Generated
  <2>4. b \in ResType
    BY <1>2, <2>1, <2>3, HdrSizeBufTyped
  <2> HIDE DEF b
  <2> QED BY <1>1, <2>2, <2>4 DEF OutcomeTyped
<1>4. CASE ~(PageSize = NoPage \/ FreeIn(tbl) = {})
  <2>1. HeaderBlock(r, code, PageSize) \in Seq(ResponseType)
    BY <1>2, <1>4, HeaderBlockTyped
  <2> DEFINE b == [a EXCEPT !.hdr = @ \o HeaderBlock(r, code, PageSize), !.body_size = PageSize]
  <2>2. b \in ResType
    BY <1>2, <1>4, <2>1, HdrSizeTyped
  <2> HIDE DEF b
  <2>3. CASE r.mthd = "HEAD"
    <3>1. o = [res |-> [b EXCEPT !.body_fd = NoFd], fds |-> tbl, w |-> TRUE]
      BY <1>4, <2>3 DEF make_error_response_, b
    <3> QED BY <1>1, <2>2, <3>1 DEF OutcomeTyped, ResType
  <2>4. CASE r.mthd # "HEAD"
    <3>1. PICK f \in FreeIn(tbl) :
            o = [res |-> [b EXCEPT !.body_fd = f], fds |-> [tbl EXCEPT ![f] = Page(PageSize)],
                 w |-> FALSE]
      BY <1>4, <2>4 DEF make_error_response_, b
    <3>2. f \in Fd
      BY DEF FreeIn
    <3>3. o.fds \in TableType /\ NoNewWriter(tbl, o.fds)
      BY <1>2, <1>4, <3>1, <3>2, PageTyped, OpenTyped
    <3> QED BY <2>2, <3>1, <3>2, <3>3 DEF OutcomeTyped, ResType
  <2> QED BY <2>3, <2>4
<1> QED BY <1>3, <1>4

LEMMA LocationTyped ==
  ASSUME NEW u \in Targets
  PROVE  /\ Location[u] \in LocationType
         /\ Location[u].size \in Nat /\ Location[u].limit \in Nat
BY LocationAssumption DEF LocationType

LEMMA HeaderOutcome ==
  ASSUME NEW r \in ReqType, r.uri \in Targets, NEW a \in ResType, NEW tbl \in TableType,
         NEW o \in make_response_header_(r, a, tbl)
  PROVE  OutcomeTyped(o, tbl)
<1> DEFINE loc == Location[r.uri]
           Plain(status, len, body, buf) ==
             {[res |-> [a EXCEPT !.hdr = @ \o HeaderBlock(r, status, len), !.body_size = body, !.buf = @ + buf],
               fds |-> tbl, w |-> a.body_fd = NoFd]}
<1>1. loc.size \in Nat
  BY LocationTyped
<1>2. NoNewWriter(tbl, tbl)
  BY DEF NoNewWriter
<1>3. ASSUME NEW status \in Nat, NEW len \in Nat, NEW body \in Nat, NEW buf \in Nat,
             o \in Plain(status, len, body, buf)
      PROVE  OutcomeTyped(o, tbl)
  <2> DEFINE b == [a EXCEPT !.hdr = @ \o HeaderBlock(r, status, len), !.body_size = body, !.buf = @ + buf]
  <2>1. b \in ResType
    BY HeaderBlockTyped, HdrSizeBufTyped
  <2>2. o = [res |-> b, fds |-> tbl, w |-> a.body_fd = NoFd]
    BY <1>3
  <2> HIDE DEF b
  <2> QED BY <1>2, <2>1, <2>2 DEF OutcomeTyped
<1>4. CASE loc.redirect
  <2> DEFINE b == [a EXCEPT !.hdr = @ \o HeaderBlock(r, 301, 0)]
  <2>1. b \in ResType
    <3>1. HeaderBlock(r, 301, 0) \in Seq(ResponseType)
      BY HeaderBlockTyped
    <3> QED BY <3>1, HdrTyped, Zenon
  <2>2. o = [res |-> b, fds |-> tbl, w |-> TRUE]
    BY <1>4 DEF make_response_header_
  <2> HIDE DEF b
  <2> QED BY <1>2, <2>1, <2>2 DEF OutcomeTyped
<1>5. CASE ~loc.redirect /\ r.mthd \notin {"GET", "HEAD"}
  <2>1. o \in Plain(200, 0, a.body_size, 0)
    BY <1>5 DEF make_response_header_
  <2>2. a.body_size \in Nat
    BY DEF ResType
  <2> HIDE DEF Plain
  <2> QED BY <1>3, <2>1, <2>2
<1>6. CASE ~loc.redirect /\ r.mthd \in {"GET", "HEAD"} /\ loc.kind = "denied"
  <2>1. o \in make_error_response_(403, r, a, tbl)
    BY <1>6 DEF make_response_header_
  <2> QED BY <2>1, ErrorOutcome
<1> DEFINE File(m) == /\ ~loc.redirect /\ r.mthd = m
                      /\ loc.kind = "file" /\ FreeIn(tbl) # {}
<1>7. CASE File("HEAD")
  <2> DEFINE b == [a EXCEPT !.hdr = @ \o HeaderBlock(r, 200, loc.size), !.body_size = 0]
  <2>1. b \in ResType
    BY <1>1, HeaderBlockTyped, HdrSizeTyped
  <2>2. o = [res |-> [b EXCEPT !.body_fd = NoFd], fds |-> tbl, w |-> TRUE]
    BY <1>7 DEF make_response_header_
  <2> HIDE DEF b
  <2> QED BY <1>2, <2>1, <2>2 DEF OutcomeTyped, ResType
<1>8. CASE File("GET")
  <2> DEFINE b == [a EXCEPT !.hdr = @ \o HeaderBlock(r, 200, loc.size), !.body_size = loc.size]
  <2>1. b \in ResType
    BY <1>1, HeaderBlockTyped, HdrSizeTyped
  <2>2. PICK f \in FreeIn(tbl) :
          o = [res |-> [b EXCEPT !.body_fd = f], fds |-> [tbl EXCEPT ![f] = Page(loc.size)],
               w |-> FALSE]
    BY <1>8 DEF make_response_header_
  <2> HIDE DEF b
  <2>3. f \in Fd
    BY DEF FreeIn
  <2>4. o.fds \in TableType /\ NoNewWriter(tbl, o.fds)
    BY <1>1, <2>2, <2>3, PageTyped, OpenTyped
  <2> QED BY <2>1, <2>2, <2>3, <2>4 DEF OutcomeTyped, ResType
<1>9. CASE ~(loc.redirect \/ r.mthd \notin {"GET", "HEAD"} \/ loc.kind = "denied"
             \/ File("HEAD") \/ File("GET"))
  <2>1. CASE ~loc.autoindex
    <3>1. o \in make_error_response_(404, r, a, tbl)
      BY <1>9, <2>1 DEF make_response_header_
    <3> QED BY <3>1, ErrorOutcome
  <2>2. CASE loc.autoindex /\ loc.kind # "dir"
    <3>1. o \in make_error_response_(403, r, a, tbl)
      BY <1>9, <2>2 DEF make_response_header_
    <3> QED BY <3>1, ErrorOutcome
  <2>3. CASE loc.autoindex /\ loc.kind = "dir"
    <3>1. o \in Plain(200, loc.size, IF r.mthd = "HEAD" THEN 0 ELSE loc.size, loc.size)
      BY <1>9, <2>3 DEF make_response_header_
    <3> HIDE DEF Plain
    <3> QED BY <1>1, <1>3, <3>1
  <2> QED BY <2>1, <2>2, <2>3
<1> QED BY <1>4, <1>5, <1>6, <1>7, <1>8, <1>9

-----------------------------------------------------------------------------
(* What the steps have in common.                                          *)

Refused == {"REQ_SKIP_BODY_CHUNKED", "REQ_HOLD", "REQ_SKIP_BODY"}

LEMMA SkipStateIn == ASSUME NEW r PROVE SkipState(r) \in Refused
BY DEF SkipState, Refused

\* error_response_keep_alive_ changes body_size only, and goes on in Refused.
LEMMA ErrorResponse ==
  ASSUME TypeOK, NEW code \in Nat, NEW r \in ReqType, NEW tbl \in TableType,
         error_response_keep_alive_(code, r, tbl)
  PROVE  /\ req' \in ReqType
         /\ req'.body_fd = r.body_fd /\ req'.uri = r.uri /\ req'.is_chnkd = r.is_chnkd
         /\ req'.body_buf = r.body_buf
         /\ state' \in Refused
         /\ res' \in ResType /\ client_w' \in BOOLEAN
         /\ fds' \in TableType /\ NoNewWriter(tbl, fds')
<1>1. state' \in Refused
  BY SkipStateIn DEF error_response_keep_alive_
<1>2. /\ req' \in ReqType
      /\ req'.body_fd = r.body_fd /\ req'.uri = r.uri /\ req'.is_chnkd = r.is_chnkd
      /\ req'.body_buf = r.body_buf
  BY DEF error_response_keep_alive_, ReqType, SizeType
<1>3. PICK o \in make_error_response_(code, r, res, tbl) :
        /\ res' = o.res
        /\ fds' = Watch(o.fds, o.res.body_fd, "R")
        /\ client_w' = (client_w \/ o.w)
  BY DEF error_response_keep_alive_
<1>4. OutcomeTyped(o, tbl)
  BY ErrorOutcome DEF TypeOK
<1>5. fds' \in TableType /\ NoNewWriter(o.fds, fds')
  BY <1>3, <1>4, WatchTyped DEF OutcomeTyped
<1>6. NoNewWriter(tbl, fds')
  BY <1>4, <1>5 DEF OutcomeTyped, NoNewWriter
<1>7. client_w' \in BOOLEAN /\ res' \in ResType
  BY <1>3, <1>4 DEF OutcomeTyped, TypeOK
<1> QED BY <1>1, <1>2, <1>5, <1>6, <1>7

\* The 400 of a malformed chunk.
LEMMA BadChunkResponse ==
  ASSUME TypeOK, BadChunk
  PROVE  /\ state' = "E_BAD_REQ" /\ pc' = "wait"
         /\ res' \in ResType /\ client_w' \in BOOLEAN
         /\ fds' \in TableType /\ NoNewWriter(fds, fds')
<1>1. PICK o \in make_error_response_(400, req, res, fds) :
        res' = o.res /\ fds' = o.fds /\ client_w' = (client_w \/ o.w)
  BY DEF BadChunk
<1>2. OutcomeTyped(o, fds)
  BY ErrorOutcome DEF TypeOK
<1> QED BY <1>1, <1>2 DEF BadChunk, Wait, OutcomeTyped, TypeOK

-----------------------------------------------------------------------------
(* Every action keeps the types.                                           *)

LEMMA NewTyped ==
  /\ \A c \in BOOLEAN, n \in Nat : NewReq(c, n) \in ReqType
  /\ NewRes \in ResType /\ NewChnkd \in ChnkdType /\ NewCgi \in CgiType
  /\ NoFile \in DiskType
<1>1. \A c \in BOOLEAN, n \in Nat : NewReq(c, n) \in ReqType
  BY DEF NewReq, NoHeader, ReqType, SizeType
<1>2. 0 \in 0 .. Modulus - 1
  BY ModulusAssumption
<1> QED BY <1>1, <1>2 DEF NewRes, ResType, NewChnkd, ChnkdType, NewCgi, CgiType, NoFile, DiskType

LEMMA Typed ==
  TypeOK => /\ req \in ReqType /\ res \in ResType /\ chnkd \in ChnkdType /\ cgi \in CgiType
            /\ fds \in TableType /\ disk \in DiskType
BY DEF TypeOK

LEMMA InitTyped == Init => TypeOK
<1> SUFFICES ASSUME Init PROVE TypeOK
  OBVIOUS
<1>1. talk \in TalkType
  BY TalksAssumption DEF Init, talk
<1>2. rcvd \in 0 .. Len(talk.bytes)
  BY <1>1 DEF Init, TalkType
<1>3. fds \in TableType
  BY FreeFdTyped DEF Init, TableType
<1>4. req \in ReqType /\ req.body_fd = NoFd
  BY NewTyped DEF Init, NewReq
<1>5. state \in States
  BY DEF Init, States
<1>6. res \in ResType /\ chnkd \in ChnkdType /\ cgi \in CgiType /\ disk \in DiskType
  BY NewTyped DEF Init
<1>7. pos \in 0 .. rcvd /\ wire \in Seq(ResponseType)
  BY DEF Init
<1>8. state = "REQ_HEADER_PARSING" \/ req.body_fd \in Fd => req.uri \in Targets
  BY <1>4, FdAssumption DEF Init
<1> QED BY <1>2, <1>3, <1>4, <1>5, <1>6, <1>7, <1>8 DEF Init, TypeOK

LEMMA ResetTyped == TypeOK /\ reset_ => TypeOK'
<1> SUFFICES ASSUME TypeOK, reset_ PROVE TypeOK'
  OBVIOUS
<1>1. req' \in ReqType /\ req'.body_fd = NoFd
  <2>1. req.is_cgi \in BOOLEAN /\ req.body_buf \in Nat
    BY DEF TypeOK, ReqType
  <2> QED BY <2>1, NewTyped DEF reset_, NewReq
<1>2. talk' = talk
  BY DEF reset_, inputVars, talk
<1>3. state' = "REQ_LINE_PARSING" /\ state' \in States
  BY DEF reset_, States
<1> QED BY <1>1, <1>2, <1>3, NewTyped, FdAssumption DEF reset_, TypeOK, inputVars

LEMMA LineTypes ==
  /\ TypeOK /\ ReadMore => TypeOK'
  /\ TypeOK /\ request_line_parser_ => TypeOK'
  /\ TypeOK /\ header_field_parser_ => TypeOK'
<1>1. ASSUME TypeOK, ReadMore PROVE TypeOK'
  <2>1. talk' = talk
    BY <1>1 DEF ReadMore, inputVars, talk
  <2> QED BY <1>1, <2>1 DEF ReadMore, Wait, TypeOK, inputVars
<1>2. ASSUME TypeOK, request_line_parser_ PROVE TypeOK'
  <2>1. talk' = talk /\ pos' \in 0 .. rcvd
    BY <1>2, LineOK DEF request_line_parser_, inputVars, talk
  <2>2. CASE UNCHANGED <<pc, state, req, res, fds, client_w>>
    BY <1>2, <2>1, <2>2 DEF request_line_parser_, TypeOK, inputVars
  <2>3. CASE /\ line.text.t = "req"
             /\ req' = [req EXCEPT !.mthd = line.text.m, !.uri = line.text.u]
             /\ state' = "REQ_HEADER_PARSING"
             /\ UNCHANGED <<pc, res, fds, client_w>>
    <3>1. line.text.m \in Methods /\ line.text.u \in Targets
      BY <1>2, <2>3, LineOK DEF SymbolType
    <3>2. req' \in ReqType /\ req'.uri \in Targets
      BY <1>2, <2>3, <3>1 DEF TypeOK, ReqType
    <3>3. state' \in States
      BY <2>3 DEF States
    <3> QED BY <1>2, <2>1, <2>3, <3>2, <3>3 DEF request_line_parser_, TypeOK, inputVars
  <2>4. CASE /\ error_response_keep_alive_(400, [req EXCEPT !.mthd = "UNDEFINED"], fds)
             /\ Wait
    <3> DEFINE r == [req EXCEPT !.mthd = "UNDEFINED"]
    <3>1. r \in ReqType /\ r.body_fd = req.body_fd /\ r.uri = req.uri /\ fds \in TableType
      BY <1>2 DEF TypeOK, ReqType
    <3> HIDE DEF r
    <3>4. error_response_keep_alive_(400, r, fds)
      BY <2>4 DEF r
    <3>2. state' \in States /\ state' # "REQ_HEADER_PARSING"
      BY <1>2, <3>4, <3>1, ErrorResponse DEF Refused, States
    <3>3. /\ req' \in ReqType /\ (req'.body_fd \in Fd => req'.uri \in Targets)
          /\ res' \in ResType /\ client_w' \in BOOLEAN /\ fds' \in TableType
      BY <1>2, <3>4, <3>1, ErrorResponse DEF TypeOK
    <3> QED BY <1>2, <2>1, <2>4, <3>2, <3>3 DEF request_line_parser_, Wait, TypeOK, inputVars
  <2> QED BY <1>2, <2>2, <2>3, <2>4 DEF request_line_parser_
<1>3. ASSUME TypeOK, header_field_parser_ PROVE TypeOK'
  <2>1. talk' = talk /\ pos' \in 0 .. rcvd
    BY <1>3, LineOK DEF header_field_parser_, inputVars, talk
  <2>2. line.text.n \in Nat
    BY <1>3, LineOK DEF SymbolType
  <2> DEFINE h == [length  |-> IF line.text.t = "length" THEN line.text.n ELSE req.header.length,
                   te      |-> req.header.te \/ line.text.t = "te",
                   close   |-> req.header.close \/ line.text.t = "close",
                   badhost |-> req.header.badhost \/ line.text.t = "badhost"]
  <2>4. h \in [length : SizeType, te : BOOLEAN, close : BOOLEAN, badhost : BOOLEAN]
    BY <1>3, <2>2 DEF TypeOK, ReqType, SizeType
  <2>5. req' = [req EXCEPT !.header = h]
    BY <1>3 DEF header_field_parser_
  <2> HIDE DEF h
  <2>3. req' \in ReqType /\ req'.uri = req.uri /\ req'.body_fd = req.body_fd
    BY <1>3, <2>4, <2>5 DEF TypeOK, ReqType
  <2> QED BY <1>3, <2>1, <2>3 DEF header_field_parser_, TypeOK, inputVars
<1> QED BY <1>1, <1>2, <1>3

LEMMA HeaderEndsOK ==
  ASSUME TypeOK, HeaderEnds
  PROVE  /\ peer' = peer /\ rcvd' = rcvd /\ talk' = talk /\ pos' \in 0 .. rcvd /\ wire' = wire
         /\ pc = "ctl" /\ state = "REQ_HEADER_PARSING" /\ req.uri \in Targets
BY LineOK DEF HeaderEnds, In, inputVars, talk, TypeOK

\* What _req is when its header has been read.
LEMMA LocatedTyped ==
  ASSUME TypeOK, req.uri \in Targets
  PROVE  /\ Framed \in ReqType /\ Located \in ReqType
         /\ Framed.uri = req.uri /\ Framed.body_fd = req.body_fd
         /\ Framed.body_buf = req.body_buf
         /\ Located.uri = req.uri /\ Located.body_fd = req.body_fd
         /\ Located.body_buf = req.body_buf /\ Located.body_read = req.body_read
         /\ Located.mthd = req.mthd
         /\ Served => Located.body_limit \in Nat
<1>1. req \in ReqType /\ req.header.length \in SizeType /\ req.header.te \in BOOLEAN
  BY DEF TypeOK, ReqType
<1>2. /\ Framed \in ReqType /\ Framed.uri = req.uri /\ Framed.body_fd = req.body_fd
      /\ Framed.body_buf = req.body_buf /\ Framed.body_read = req.body_read
      /\ Framed.mthd = req.mthd
  BY <1>1 DEF Framed, ReqType
<1> DEFINE loc == Location[req.uri]
           limit == IF loc.found THEN loc.limit ELSE Framed.body_limit
           is_cgi == loc.found /\ loc.cgi /\ req.mthd # "DELETE"
<1>3. limit \in SizeType /\ is_cgi \in BOOLEAN /\ (Served => limit \in Nat)
  <2>1. loc \in LocationType /\ Framed.body_limit \in SizeType
    BY <1>2, LocationTyped DEF ReqType
  <2> QED BY <2>1 DEF LocationType, SizeType, Served
<1>4. Located = [Framed EXCEPT !.body_limit = limit, !.is_cgi = is_cgi]
  BY DEF Located
<1> HIDE DEF limit, is_cgi
<1>5. Located \in ReqType /\ Located.body_limit = limit
  BY <1>2, <1>3, <1>4 DEF ReqType
<1>6. /\ Located.uri = req.uri /\ Located.body_fd = req.body_fd
      /\ Located.body_buf = req.body_buf /\ Located.body_read = req.body_read
      /\ Located.mthd = req.mthd
  BY <1>2, <1>4 DEF ReqType
<1> QED BY <1>2, <1>3, <1>5, <1>6

LEMMA BadHostTyped == TypeOK /\ BadHostRequest => TypeOK'
<1> SUFFICES ASSUME TypeOK, BadHostRequest PROVE TypeOK'
  OBVIOUS
<1>1. HeaderEnds
  BY DEF BadHostRequest
<1>2. Framed \in ReqType /\ Framed.uri \in Targets
  BY <1>1, HeaderEndsOK, LocatedTyped
<1>3. PICK o \in make_error_response_(400, Framed, res, fds) :
        res' = o.res /\ fds' = o.fds /\ client_w' = (client_w \/ o.w)
  BY DEF BadHostRequest
<1>4. OutcomeTyped(o, fds)
  BY <1>2, ErrorOutcome DEF TypeOK
<1>5. state' \in States
  BY DEF BadHostRequest, States
<1> QED BY <1>1, <1>2, <1>3, <1>4, <1>5, HeaderEndsOK
        DEF BadHostRequest, Wait, OutcomeTyped, TypeOK

LEMMA NotServedTyped == TypeOK /\ NotServed => TypeOK'
<1> SUFFICES ASSUME TypeOK, NotServed PROVE TypeOK'
  OBVIOUS
<1> DEFINE r == [Located EXCEPT !.is_cgi = FALSE]
           code == IF Location[req.uri].found THEN 405 ELSE 404
<1>1. HeaderEnds
  BY DEF NotServed
<1>2. r \in ReqType /\ r.uri \in Targets
  BY <1>1, HeaderEndsOK, LocatedTyped DEF ReqType
<1>3. error_response_keep_alive_(code, r, fds) /\ code \in Nat
  BY DEF NotServed
<1> HIDE DEF r, code
<1>4. /\ req' \in ReqType /\ req'.uri \in Targets /\ state' \in States
      /\ res' \in ResType /\ client_w' \in BOOLEAN /\ fds' \in TableType
  BY <1>2, <1>3, ErrorResponse DEF TypeOK, Refused, States
<1> QED BY <1>1, <1>4, HeaderEndsOK DEF NotServed, Wait, TypeOK

LEMMA GetHeadTyped == TypeOK /\ res_for_get_head_req_ => TypeOK'
<1> SUFFICES ASSUME TypeOK, res_for_get_head_req_ PROVE TypeOK'
  OBVIOUS
<1>1. HeaderEnds
  BY DEF res_for_get_head_req_
<1>2. Located \in ReqType /\ Located.uri \in Targets
  BY <1>1, HeaderEndsOK, LocatedTyped
<1>3. PICK o \in make_response_header_(Located, res, fds) :
        IF o.res.body_fd \in Fd /\ o.res.body_size = 0
        THEN /\ res' = [o.res EXCEPT !.body_fd = NoFd]
             /\ fds' = CloseFds(o.fds, {o.res.body_fd})
             /\ client_w' = TRUE
        ELSE /\ res' = o.res
             /\ fds' = Watch(o.fds, o.res.body_fd, "R")
             /\ client_w' = (client_w \/ o.w)
  BY DEF res_for_get_head_req_
<1>4. OutcomeTyped(o, fds)
  BY <1>2, HeaderOutcome DEF TypeOK
<1>5. fds' \in TableType
  BY <1>3, <1>4, CloseTyped, WatchTyped DEF OutcomeTyped
<1>6. res' \in ResType /\ client_w' \in BOOLEAN
  BY <1>3, <1>4 DEF OutcomeTyped, TypeOK, ResType
<1>7. state' \in States
  BY SkipStateIn DEF res_for_get_head_req_, Refused, States
<1>8. skip_size' \in Nat
  BY <1>2 DEF res_for_get_head_req_, SkipState, TypeOK, ReqType, SizeType
<1>9. req' = Located
  BY DEF res_for_get_head_req_
<1> QED BY <1>1, <1>2, <1>5, <1>6, <1>7, <1>8, <1>9, HeaderEndsOK
        DEF res_for_get_head_req_, Wait, TypeOK

LEMMA DeleteTyped == TypeOK /\ res_for_delete_req_ => TypeOK'
<1> SUFFICES ASSUME TypeOK, res_for_delete_req_ PROVE TypeOK'
  OBVIOUS
<1>1. HeaderEnds
  BY DEF res_for_delete_req_
<1>2. Located \in ReqType /\ Located.uri \in Targets
  BY <1>1, HeaderEndsOK, LocatedTyped
<1>3. PICK o \in IF Location[req.uri].kind = "file"
                 THEN make_response_header_(Located, res, fds)
                 ELSE make_error_response_(404, Located, res, fds) :
        /\ res' = o.res
        /\ fds' = IF Location[req.uri].kind = "file" THEN o.fds
                  ELSE Watch(o.fds, o.res.body_fd, "R")
        /\ client_w' = (client_w \/ o.w)
  BY DEF res_for_delete_req_
<1>4. OutcomeTyped(o, fds)
  BY <1>2, HeaderOutcome, ErrorOutcome DEF TypeOK
<1>5. fds' \in TableType
  BY <1>3, <1>4, WatchTyped DEF OutcomeTyped
<1>6. res' \in ResType /\ client_w' \in BOOLEAN
  BY <1>3, <1>4 DEF OutcomeTyped, TypeOK
<1>7. state' \in States
  BY SkipStateIn DEF res_for_delete_req_, Refused, States
<1>8. skip_size' \in Nat
  BY <1>2 DEF res_for_delete_req_, SkipState, TypeOK, ReqType, SizeType
<1>9. req' \in ReqType /\ req'.uri \in Targets
  BY <1>2 DEF res_for_delete_req_, ReqType, SizeType
<1> QED BY <1>1, <1>5, <1>6, <1>7, <1>8, <1>9, HeaderEndsOK
        DEF res_for_delete_req_, Wait, TypeOK

LEMMA UploadFdTyped == Upload \in FdType /\ Upload.kind # "free" /\ Upload.ev = {}
BY DEF Upload, FreeFd, FdType

LEMMA NewFileTyped ==
  ASSUME NEW r \in ReqType, r.body_limit \in Nat
  PROVE  /\ NewFile(r) \in DiskType
         /\ [NewFile(r) EXCEPT !.st = "removed"] \in DiskType
BY DEF NewFile, DiskType, ReqType

LEMMA PostPutTyped == TypeOK /\ res_for_post_put_req_ => TypeOK'
<1> SUFFICES ASSUME TypeOK, res_for_post_put_req_ PROVE TypeOK'
  OBVIOUS
<1>1. HeaderEnds
  BY DEF res_for_post_put_req_
<1>2. Located \in ReqType /\ Located.uri \in Targets /\ Located.body_limit \in Nat
  BY <1>1, HeaderEndsOK, LocatedTyped DEF res_for_post_put_req_
<1>3. CASE error_response_keep_alive_(404, Located, fds) /\ Wait /\ UNCHANGED disk
  <2>1. /\ req' \in ReqType /\ req'.uri \in Targets /\ state' \in States
        /\ res' \in ResType /\ client_w' \in BOOLEAN /\ fds' \in TableType
    BY <1>2, <1>3, ErrorResponse DEF TypeOK, Refused, States
  <2> QED BY <1>1, <1>3, <2>1, HeaderEndsOK DEF res_for_post_put_req_, Wait, TypeOK
<1>4. ASSUME NEW f \in FreeIn(fds), NEW r, r = [Located EXCEPT !.body_fd = f]
      PROVE  /\ r \in ReqType /\ r.uri \in Targets /\ r.body_limit \in Nat
             /\ [fds EXCEPT ![f] = Upload] \in TableType
             /\ NewFile(r) \in DiskType /\ [NewFile(r) EXCEPT !.st = "removed"] \in DiskType
  <2>1. f \in Fd
    BY DEF FreeIn
  <2>2. r \in ReqType /\ r.uri \in Targets /\ r.body_limit \in Nat
    BY <1>2, <1>4, <2>1 DEF ReqType
  <2>3. [fds EXCEPT ![f] = Upload] \in TableType
    BY <2>1, UploadFdTyped, OpenTyped DEF TypeOK
  <2> QED BY <2>2, <2>3, NewFileTyped
<1>5. ASSUME NEW f \in FreeIn(fds), NEW r, r = [Located EXCEPT !.body_fd = f],
             /\ req' = [r EXCEPT !.body_size = 0, !.cnt_len = Unset]
             /\ fds' = [fds EXCEPT ![f] = Upload]
             /\ state' = "REQ_BODY_CHUNKED" /\ disk' = NewFile(r)
             /\ UNCHANGED <<pc, res, client_w>>
      PROVE  TypeOK'
  <2>1. req' \in ReqType /\ req'.uri \in Targets
    <3>1. r \in ReqType /\ r.uri \in Targets
      BY <1>4, <1>5
    <3>2. req' = [r EXCEPT !.body_size = 0, !.cnt_len = Unset]
      BY <1>5
    <3> QED BY <3>1, <3>2 DEF ReqType, SizeType
  <2>2. state' \in States
    BY <1>5 DEF States
  <2> QED BY <1>1, <1>4, <1>5, <2>1, <2>2, HeaderEndsOK DEF res_for_post_put_req_, TypeOK
<1>6. ASSUME NEW f \in FreeIn(fds), NEW r, r = [Located EXCEPT !.body_fd = f],
             /\ error_response_keep_alive_(416, r, fds)
             /\ disk' = [NewFile(r) EXCEPT !.st = "removed"] /\ Wait
      PROVE  TypeOK'
  <2>1. /\ req' \in ReqType /\ req'.uri \in Targets /\ state' \in States
        /\ res' \in ResType /\ client_w' \in BOOLEAN /\ fds' \in TableType
    <3>1. r \in ReqType /\ r.uri \in Targets /\ fds \in TableType
      BY <1>4, <1>6 DEF TypeOK
    <3>2. error_response_keep_alive_(416, r, fds)
      BY <1>6
    <3> QED BY <3>1, <3>2, ErrorResponse DEF Refused, States
  <2> QED BY <1>1, <1>4, <1>6, <2>1, HeaderEndsOK DEF res_for_post_put_req_, Wait, TypeOK
<1>7. ASSUME NEW f \in FreeIn(fds), NEW r, r = [Located EXCEPT !.body_fd = f],
             /\ req' = r
             /\ fds' = Watch([fds EXCEPT ![f] = Upload], f, "W")
             /\ state' = "REQ_BODY" /\ disk' = NewFile(r)
             /\ UNCHANGED <<pc, res, client_w>>
      PROVE  TypeOK'
  <2>1. fds' \in TableType
    BY <1>4, <1>7, WatchTyped
  <2>2. state' \in States
    BY <1>7 DEF States
  <2> QED BY <1>1, <1>4, <1>7, <2>1, <2>2, HeaderEndsOK DEF res_for_post_put_req_, TypeOK
<1> QED BY <1>3, <1>5, <1>6, <1>7 DEF res_for_post_put_req_

LEMMA PipeTyped ==
  ASSUME NEW s \in Scripts, NEW w \in Fd \cup {NoFd}
  PROVE  /\ Pipe(s, w) \in FdType /\ Pipe(s, w).kind # "free" /\ "W" \notin Pipe(s, w).ev
         /\ Stdin(s, w) \in FdType /\ Stdin(s, w).kind # "free" /\ "W" \notin Stdin(s, w).ev
<1>1. s.out + (IF s.form = "none" THEN 0 ELSE 1) \in Nat
  BY ScriptsAssumption DEF ScriptType
<1> QED BY <1>1 DEF Pipe, Stdin, FreeFd, FdType

LEMMA CgiTyped == TypeOK /\ do_cgi_ => TypeOK'
<1> SUFFICES ASSUME TypeOK, do_cgi_ PROVE TypeOK'
  OBVIOUS
<1>1. HeaderEnds
  BY DEF do_cgi_
<1>2. Located \in ReqType /\ Located.uri \in Targets
  BY <1>1, HeaderEndsOK, LocatedTyped
<1>3. CASE error_response_keep_alive_(500, Located, fds) /\ Wait /\ UNCHANGED <<cgi, failing>>
  <2>1. /\ req' \in ReqType /\ req'.uri \in Targets /\ state' \in States
        /\ res' \in ResType /\ client_w' \in BOOLEAN /\ fds' \in TableType
    BY <1>2, <1>3, ErrorResponse DEF TypeOK, Refused, States
  <2> QED BY <1>1, <1>3, <2>1, HeaderEndsOK DEF do_cgi_, Wait, TypeOK
<1>4. CASE \E s \in talk.scripts, r, w \in FreeIn(fds) :
          /\ r # w
          /\ IF req.mthd \in Bodiless
             THEN /\ fds' = [fds EXCEPT ![r] = Pipe(s, NoFd)]
                  /\ cgi' = [cgi EXCEPT !.rfd = r]
             ELSE /\ fds' = [fds EXCEPT ![r] = Pipe(s, w), ![w] = Stdin(s, r)]
                  /\ cgi' = [cgi EXCEPT !.rfd = r, !.wfd = w]
          /\ failing' = failing + (IF s.fails THEN 1 ELSE 0)
          /\ req' = Located
          /\ state' \in States
          /\ UNCHANGED <<pc, res, client_w>>
  <2>1. PICK s \in talk.scripts, r \in FreeIn(fds), w \in FreeIn(fds) :
          /\ IF req.mthd \in Bodiless
             THEN /\ fds' = [fds EXCEPT ![r] = Pipe(s, NoFd)]
                  /\ cgi' = [cgi EXCEPT !.rfd = r]
             ELSE /\ fds' = [fds EXCEPT ![r] = Pipe(s, w), ![w] = Stdin(s, r)]
                  /\ cgi' = [cgi EXCEPT !.rfd = r, !.wfd = w]
          /\ failing' = failing + (IF s.fails THEN 1 ELSE 0)
          /\ req' = Located
          /\ state' \in States
          /\ UNCHANGED <<pc, res, client_w>>
    BY <1>4
  <2>2. s \in Scripts /\ r \in Fd /\ w \in Fd
    BY TalkTyped DEF TalkType, FreeIn
  <2>3. fds' \in TableType
    <3>1. fds \in TableType
      BY DEF TypeOK
    <3>2. CASE req.mthd \in Bodiless
      BY <2>1, <2>2, <3>1, <3>2, PipeTyped, OpenTyped
    <3>3. CASE req.mthd \notin Bodiless
      <4> DEFINE t == [fds EXCEPT ![r] = Pipe(s, w)]
      <4>1. t \in TableType
        BY <2>2, <3>1, PipeTyped, OpenTyped
      <4>2. fds' = [t EXCEPT ![w] = Stdin(s, r)]
        BY <2>1, <3>3
      <4> HIDE DEF t
      <4> QED BY <2>2, <4>1, <4>2, PipeTyped, OpenTyped
    <3> QED BY <3>2, <3>3
  <2>4. cgi' \in CgiType
    BY <2>1, <2>2 DEF TypeOK, CgiType
  <2>5. failing' \in Nat
    BY <2>1 DEF TypeOK
  <2> QED BY <1>1, <1>2, <2>1, <2>3, <2>4, <2>5, HeaderEndsOK DEF do_cgi_, TypeOK
<1>5. ASSUME NEW s \in talk.scripts, NEW r \in FreeIn(fds), NEW w \in FreeIn(fds),
             state' = CASE Located.is_chnkd /\ req.mthd \in Bodiless    -> "REQ_SKIP_BODY_CHUNKED"
                        [] Located.is_chnkd /\ req.mthd \notin Bodiless -> "REQ_CGI_BODY_CHUNKED"
                        [] ~Located.is_chnkd /\ Located.cnt_len = 0     -> "REQ_HOLD"
                        [] OTHER -> IF req.mthd \in Bodiless THEN "REQ_SKIP_BODY" ELSE "REQ_CGI_BODY"
      PROVE  state' \in States
  BY <1>5 DEF States
<1> QED BY <1>3, <1>4, <1>5, Zenon DEF do_cgi_

\* No more leaves _buf than it holds, or than is asked for.
LEMMA TakeOK ==
  ASSUME TypeOK, NEW k \in Int
  PROVE  /\ avail \in Nat /\ pos + avail = rcvd /\ pos \in Nat /\ rcvd \in Nat
         /\ Upto(k) \in 0 .. avail /\ (k >= 0 => Upto(k) <= k)
         /\ k >= 0 => Least(avail, k) \in 0 .. avail /\ Least(avail, k) <= k
BY TalkTyped DEF TypeOK, TalkType, avail, Upto, Least

LEMMA SameTalk == inputVars' = inputVars => talk' = talk
BY DEF inputVars, talk

LEMMA BodyTyped ==
  /\ TypeOK /\ state_req_body_ => TypeOK'
  /\ TypeOK /\ CgiBody => TypeOK'
  /\ TypeOK /\ SkipBody => TypeOK'
  /\ TypeOK /\ HoldBody => TypeOK'
<1> DEFINE n == Upto(req.cnt_len - req.body_read)
<1>1. TypeOK => req.cnt_len - req.body_read \in Int /\ req.body_read \in Nat /\ req.body_buf \in Nat
  BY DEF TypeOK, ReqType, SizeType, Unset
<1>2. TypeOK => n \in Nat /\ pos + n \in 0 .. rcvd
  BY <1>1, TakeOK
<1> HIDE DEF n
<1>3. ASSUME TypeOK, state_req_body_ PROVE TypeOK'
  <2>1. /\ req' = [req EXCEPT !.body_buf = @ + n, !.body_read = @ + n] /\ pos' = pos + n
        /\ state' = IF req.body_read + n = req.cnt_len THEN "REQ_HOLD" ELSE state
    BY <1>3 DEF state_req_body_, n
  <2>2. /\ req' \in ReqType /\ req'.uri = req.uri /\ req'.body_fd = req.body_fd
    <3>1. req.body_buf + n \in Nat /\ req.body_read + n \in Nat
      BY <1>1, <1>2, <1>3
    <3> QED BY <1>3, <2>1, <3>1, Typed DEF ReqType
  <2>3. state' \in States /\ state' # "REQ_HEADER_PARSING"
    BY <1>3, <2>1 DEF state_req_body_, In, States
  <2> QED BY <1>2, <1>3, <2>1, <2>2, <2>3, SameTalk DEF state_req_body_, Wait, TypeOK, inputVars
<1>4. ASSUME TypeOK, CgiBody PROVE TypeOK'
  <2>1. /\ req' = [req EXCEPT !.body_read = @ + n]
        /\ cgi' = [cgi EXCEPT !.to = @ + n] /\ pos' = pos + n
        /\ \/ state' = "REQ_HOLD" /\ fds' = Watch(fds, cgi.wfd, "W")
           \/ UNCHANGED <<state, fds>>
    BY <1>4 DEF CgiBody, n
  <2>2. /\ req' \in ReqType /\ req'.uri = req.uri /\ req'.body_fd = req.body_fd
    BY <1>1, <1>2, <1>4, <2>1, Typed DEF ReqType
  <2>3. state' \in States /\ state' # "REQ_HEADER_PARSING"
    BY <1>4, <2>1 DEF CgiBody, In, States
  <2>4. fds' \in TableType
    BY <1>4, <2>1, WatchTyped DEF TypeOK
  <2>5. cgi' \in CgiType
    BY <1>2, <1>4, <2>1, Typed DEF CgiType
  <2> QED BY <1>2, <1>4, <2>1, <2>2, <2>3, <2>4, <2>5, SameTalk DEF CgiBody, Wait, TypeOK, inputVars
<1>5. ASSUME TypeOK, SkipBody PROVE TypeOK'
  <2>1. skip_size \in Nat
    BY <1>5 DEF TypeOK
  <2>2. pos' \in 0 .. rcvd /\ skip_size' \in Nat
    BY <1>5, <2>1, TakeOK DEF SkipBody
  <2> QED BY <1>5, <2>2, SameTalk DEF SkipBody, Wait, TypeOK, inputVars
<1>6. ASSUME TypeOK, HoldBody PROVE TypeOK'
  BY <1>6, SameTalk DEF HoldBody, Wait, TypeOK, inputVars
<1> QED BY <1>3, <1>4, <1>5, <1>6

-----------------------------------------------------------------------------
(* Chunked bodies, read or skipped.                                        *)

(* Counting modulo 2^32.                                                   *)

LEMMA ReadSizeTyped ==
  ASSUME NEW n \in Nat
  PROVE  ReadSize(n) \in 0 .. Modulus - 1 /\ (n + 2 < Modulus => ReadSize(n) = n)
BY ModulusAssumption DEF ReadSize

LEMMA TwoMore ==
  ASSUME NEW n \in 0 .. Modulus - 1
  PROVE  /\ (n + 2) % Modulus \in 0 .. Modulus - 1
         /\ n + 2 < Modulus => (n + 2) % Modulus = n + 2
         /\ n = Modulus - 2 => (n + 2) % Modulus = 0
         /\ n = Modulus - 1 => (n + 2) % Modulus = 1
<1>1. Modulus \in Nat /\ 4 < Modulus
  BY ModulusAssumption
<1>2. (n + 2) % Modulus \in 0 .. Modulus - 1
  BY <1>1
<1>3. n + 2 < Modulus => (n + 2) % Modulus = n + 2
  BY <1>1
<1>4. n = Modulus - 2 => (n + 2) % Modulus = 0
  BY <1>1
<1>5. n = Modulus - 1 => (n + 2) % Modulus = 1
  BY <1>1
<1> QED BY <1>2, <1>3, <1>4, <1>5

LEMMA TwoLess ==
  (2 + Modulus - 2) % Modulus = 0 /\ (1 + Modulus - 2) % Modulus = Modulus - 1
BY ModulusAssumption

LEMMA ChunkEndIs ==
  ASSUME TypeOK, chnkd.size \in {1, 2}
  PROVE  /\ AfterChunk \in ChnkdType
         /\ AfterChunk.body = chnkd.body /\ AfterChunk.last = chnkd.last
         /\ chnkd.size = 2 => AfterChunk = [chnkd EXCEPT !.size = 0] /\ AfterChunk.size = 0
         /\ chnkd.size = 1 => AfterChunk.size = Modulus - 1
<1>1. chnkd \in ChnkdType
  BY DEF TypeOK
<1>2. 0 \in 0 .. Modulus - 1 /\ Modulus - 1 \in 0 .. Modulus - 1
  BY ModulusAssumption
<1>3. CASE chnkd.size = 2
  <2>1. AfterChunk = [chnkd EXCEPT !.size = 0]
    BY <1>3, TwoLess DEF AfterChunk
  <2> QED BY <1>1, <1>2, <1>3, <2>1 DEF ChnkdType
<1>4. CASE chnkd.size = 1
  <2>1. AfterChunk = [chnkd EXCEPT !.size = Modulus - 1]
    BY <1>4, TwoLess DEF AfterChunk
  <2> QED BY <1>1, <1>2, <1>4, <2>1 DEF ChnkdType
<1> QED BY <1>3, <1>4

\* What a chunk has still to bring is no more than what was counted for it.
LEMMA NextChunkIs ==
  ASSUME TypeOK, NEW n \in 0 .. Modulus - 1
  PROVE  /\ NextChunk(n) \in ChnkdType /\ NextChunk(n).body = chnkd.body
         /\ NextChunk(n).last = (chnkd.last \/ n = 0)
         /\ n + 2 < Modulus => NextChunk(n).size = n + 2
         /\ n + 2 >= Modulus => n >= Modulus - 2 /\ NextChunk(n).size \in {0, 1}
         /\ NextChunk(n).size = 1 => n = Modulus - 1
<1>1. chnkd \in ChnkdType
  BY DEF TypeOK
<1>2. NextChunk(n) = [chnkd EXCEPT !.size = (n + 2) % Modulus, !.last = chnkd.last \/ n = 0]
  BY DEF NextChunk
<1>3. /\ NextChunk(n) \in ChnkdType /\ NextChunk(n).body = chnkd.body
      /\ NextChunk(n).last = (chnkd.last \/ n = 0) /\ NextChunk(n).size = (n + 2) % Modulus
  BY <1>1, <1>2, TwoMore DEF ChnkdType
<1>4. n + 2 >= Modulus => n = Modulus - 2 \/ n = Modulus - 1
  BY ModulusAssumption
<1>5. CASE n + 2 < Modulus
  BY <1>3, <1>5, TwoMore, ModulusAssumption
<1>6. CASE n + 2 >= Modulus
  <2>1. (n + 2) % Modulus \in {0, 1} /\ ((n + 2) % Modulus = 1 => n = Modulus - 1)
    BY <1>4, <1>6, TwoMore
  <2> QED BY <1>3, <1>4, <1>6, <2>1, ModulusAssumption
<1>7. n + 2 < Modulus \/ n + 2 >= Modulus
  BY ModulusAssumption
<1> QED BY <1>5, <1>6, <1>7

LEMMA NextChunkTyped ==
  ASSUME TypeOK, line.text.t = "size"
  PROVE  /\ line.text.n \in Nat /\ ReadSize(line.text.n) \in 0 .. Modulus - 1
         /\ NextChunk(ReadSize(line.text.n)) \in ChnkdType
         /\ req.body_size + ReadSize(line.text.n) \in SizeType
<1>1. line.text.n \in Nat
  BY LineOK DEF SymbolType
<1>2. ReadSize(line.text.n) \in 0 .. Modulus - 1 /\ ReadSize(line.text.n) \in Nat
  BY <1>1, ReadSizeTyped, ModulusAssumption
<1>3. req.body_size \in SizeType
  BY DEF TypeOK, ReqType
<1>4. req.body_size + ReadSize(line.text.n) \in SizeType
  BY <1>2, <1>3 DEF SizeType, Unset
<1> QED BY <1>1, <1>2, <1>4, NextChunkIs

\* The data of a chunk leaves _buf up to the CRLF that belongs to the chunk.
LEMMA ChunkTake ==
  ASSUME TypeOK, chnkd.size > 2, NEW n, n = Least(avail, chnkd.size - 2)
  PROVE  /\ n \in Nat /\ pos + n \in 0 .. rcvd
         /\ chnkd.size - n \in Nat /\ chnkd.size - n >= 2 /\ chnkd.size - n \in 0 .. Modulus - 1
         /\ chnkd.size \in Nat /\ chnkd.body \in Nat
<1>1. chnkd.size \in Nat /\ chnkd.body \in Nat /\ chnkd.size <= Modulus - 1 /\ Modulus \in Nat
  BY ModulusAssumption DEF TypeOK, ChnkdType
<1>2. chnkd.size - 2 \in Int /\ chnkd.size - 2 >= 0
  BY <1>1
<1> QED BY <1>1, <1>2, TakeOK

LEMMA ChunkStepTyped ==
  /\ TypeOK /\ FirstChunk => TypeOK'
  /\ TypeOK /\ ChunkData => TypeOK'
  /\ TypeOK /\ ChunkEnd => TypeOK'
  /\ TypeOK /\ ChunkLineMissing => TypeOK'
<1>1. ASSUME TypeOK, FirstChunk PROVE TypeOK'
  <2>1. fds' \in TableType
    BY <1>1, WatchTyped DEF FirstChunk, TypeOK
  <2>2. chnkd' \in ChnkdType
    BY <1>1 DEF FirstChunk, TypeOK, ChnkdType
  <2> QED BY <1>1, <2>1, <2>2, SameTalk DEF FirstChunk, TypeOK, inputVars
<1>2. ASSUME TypeOK, ChunkData PROVE TypeOK'
  <2> DEFINE n == Least(avail, chnkd.size - 2)
  <2>1. /\ n \in Nat /\ pos + n \in 0 .. rcvd
        /\ chnkd.size - n \in 0 .. Modulus - 1 /\ chnkd.body \in Nat
    BY <1>2, ChunkTake DEF ChunkData
  <2>2. /\ pos' = pos + n /\ pc' \in {pc, "wait"}
        /\ \/ chnkd' = [chnkd EXCEPT !.size = @ - n, !.body = @ + n] /\ UNCHANGED cgi
           \/ chnkd' = [chnkd EXCEPT !.size = @ - n] /\ cgi' = [cgi EXCEPT !.to = @ + n]
    BY <1>2 DEF ChunkData
  <2> HIDE DEF n
  <2>3. chnkd' \in ChnkdType
    <3>1. chnkd.size - n \in 0 .. Modulus - 1 /\ chnkd.body + n \in Nat
      BY <2>1
    <3> QED BY <1>2, <2>2, <3>1, Typed DEF ChnkdType
  <2>4. cgi' \in CgiType
    BY <1>2, <2>1, <2>2, Typed DEF CgiType
  <2> QED BY <1>2, <2>1, <2>2, <2>3, <2>4, SameTalk DEF ChunkData, TypeOK, inputVars
<1>3. ASSUME TypeOK, ChunkEnd PROVE TypeOK'
  <2>1. pos' \in 0 .. rcvd
    <3>1. avail \in Nat /\ pos + avail = rcvd /\ pos \in Nat /\ rcvd \in Nat
      BY <1>3, TakeOK
    <3> QED BY <1>3, <3>1 DEF ChunkEnd
  <2>5. pc' \in {"ctl", "wait"}
    BY <1>3 DEF ChunkEnd, InChunks, In, Wait
  <2>2. chnkd' \in ChnkdType
    BY <1>3, ChunkEndIs, Typed DEF ChunkEnd
  <2>3. req' \in ReqType /\ req'.uri = req.uri /\ req'.body_fd = req.body_fd
    BY <1>3 DEF ChunkEnd, TypeOK, ReqType
  <2>4. state' \in States /\ state' # "REQ_HEADER_PARSING"
    BY <1>3 DEF ChunkEnd, InChunks, In, States
  <2> QED BY <1>3, <2>1, <2>2, <2>3, <2>4, <2>5, SameTalk DEF ChunkEnd, TypeOK, inputVars
<1>4. ASSUME TypeOK, ChunkLineMissing PROVE TypeOK'
  BY <1>4, SameTalk DEF ChunkLineMissing, Wait, TypeOK, inputVars
<1> QED BY <1>1, <1>2, <1>3, <1>4

LEMMA ChunkLineTyped ==
  /\ TypeOK /\ ChunkLine => TypeOK'
  /\ TypeOK /\ BadChunkLine => TypeOK'
<1>1. ASSUME TypeOK, ChunkLine PROVE TypeOK'
  <2> DEFINE r == [req EXCEPT !.body_size = @ + ReadSize(line.text.n)]
  <2>1. pos' \in 0 .. rcvd /\ chnkd' \in ChnkdType
    BY <1>1, LineOK, NextChunkTyped DEF ChunkLine
  <2>2. req.body_size + ReadSize(line.text.n) \in SizeType
    BY <1>1, NextChunkTyped DEF ChunkLine
  <2>3. r \in ReqType /\ r.uri = req.uri /\ r.body_fd = req.body_fd
    BY <1>1, <2>2, Typed DEF ReqType
  <2>4. state \in {"REQ_BODY_CHUNKED", "REQ_CGI_BODY_CHUNKED"}
    BY <1>1 DEF ChunkLine, AtChunkLine, InChunks, In
  <2>5. CASE req' = r /\ UNCHANGED <<pc, state, res, fds, client_w, disk>>
    BY <1>1, <2>1, <2>3, <2>4, <2>5, SameTalk DEF ChunkLine, TypeOK, inputVars
  <2>6. CASE /\ error_response_keep_alive_(413, r, CloseFds(fds, {req.body_fd}))
             /\ disk' = IF req.is_cgi THEN disk ELSE [disk EXCEPT !.st = "removed"]
             /\ Wait
    <3> HIDE DEF r
    <3>1. CloseFds(fds, {req.body_fd}) \in TableType
      BY <1>1, CloseTyped, Typed
    <3>2. /\ req' \in ReqType /\ req'.uri = req.uri /\ req'.body_fd = req.body_fd
          /\ state' \in Refused
          /\ res' \in ResType /\ client_w' \in BOOLEAN /\ fds' \in TableType
      BY <1>1, <2>3, <2>6, <3>1, ErrorResponse
    <3>3. disk' \in DiskType
      BY <1>1, <2>6, Typed DEF DiskType
    <3>4. state' \in States /\ state' # "REQ_HEADER_PARSING"
      BY <3>2 DEF Refused, States
    <3> QED BY <1>1, <2>1, <2>6, <3>2, <3>3, <3>4, SameTalk DEF ChunkLine, Wait, TypeOK, inputVars
  <2> QED BY <1>1, <2>5, <2>6 DEF ChunkLine
<1>2. ASSUME TypeOK, BadChunkLine PROVE TypeOK'
  <2>1. pos' \in 0 .. rcvd
    BY <1>2, LineOK DEF BadChunkLine
  <2>2. BadChunk
    BY <1>2 DEF BadChunkLine
  <2>3. state' \in States /\ state' # "REQ_HEADER_PARSING"
    BY <1>2, <2>2, BadChunkResponse DEF States
  <2> QED BY <1>2, <2>1, <2>2, <2>3, BadChunkResponse, SameTalk DEF BadChunkLine, TypeOK, inputVars
<1> QED BY <1>1, <1>2

LEMMA SkipChunkTyped ==
  /\ TypeOK /\ SkipChunkData => TypeOK'
  /\ TypeOK /\ SkipChunkEnd => TypeOK'
  /\ TypeOK /\ SkipChunkLine => TypeOK'
<1>1. ASSUME TypeOK, SkipChunkData PROVE TypeOK'
  <2> DEFINE n == Least(avail, chnkd.size - 2)
  <2>1. pos + n \in 0 .. rcvd /\ chnkd.size - n \in 0 .. Modulus - 1
    BY <1>1, ChunkTake DEF SkipChunkData
  <2>2. pos' = pos + n /\ pc' \in {pc, "wait"} /\ chnkd' = [chnkd EXCEPT !.size = @ - n]
    BY <1>1 DEF SkipChunkData
  <2> HIDE DEF n
  <2>3. chnkd' \in ChnkdType
    BY <1>1, <2>1, <2>2, Typed DEF ChnkdType
  <2> QED BY <1>1, <2>1, <2>2, <2>3, SameTalk DEF SkipChunkData, TypeOK, inputVars
<1>2. ASSUME TypeOK, SkipChunkEnd PROVE TypeOK'
  <2>1. avail \in Nat /\ pos + avail = rcvd /\ pos \in Nat /\ rcvd \in Nat
    BY <1>2, TakeOK
  <2>2. pc = "ctl" /\ state = "REQ_SKIP_BODY_CHUNKED"
    BY <1>2 DEF SkipChunkEnd, InSkip, In
  <2>3. CASE Wait /\ UNCHANGED <<pos, state, req, res, chnkd, fds, client_w>>
    BY <1>2, <2>3, SameTalk DEF SkipChunkEnd, Wait, TypeOK, inputVars
  <2>4. CASE BadChunk /\ UNCHANGED <<pos, req, chnkd>>
    <3>1. state' \in States /\ state' # "REQ_HEADER_PARSING"
      BY <1>2, <2>4, BadChunkResponse DEF States
    <3> QED BY <1>2, <2>4, <3>1, BadChunkResponse, SameTalk DEF SkipChunkEnd, TypeOK, inputVars
  <2>5. CASE /\ ~(~res.write_finished \/ avail < 2)
             /\ pos' = pos + 2
             /\ chnkd' = AfterChunk
             /\ \/ req' = [req EXCEPT !.cnt_len = req.body_size] /\ state' = "REQ_CLEAR" /\ Wait
                \/ pc' \in {pc, "wait"} /\ UNCHANGED <<state, req>>
             /\ UNCHANGED <<res, fds, client_w>>
    <3>1. pos' \in 0 .. rcvd
      BY <2>1, <2>5
    <3>2. chnkd' \in ChnkdType
      BY <1>2, <2>5, ChunkEndIs DEF SkipChunkEnd
    <3>3. req' \in ReqType /\ req'.uri = req.uri /\ req'.body_fd = req.body_fd
      BY <1>2, <2>5, Typed DEF ReqType
    <3>4. state' \in States /\ state' # "REQ_HEADER_PARSING" /\ pc' \in {"ctl", "wait"}
      BY <2>2, <2>5 DEF States, Wait
    <3> QED BY <1>2, <2>5, <3>1, <3>2, <3>3, <3>4, SameTalk DEF SkipChunkEnd, TypeOK, inputVars
  <2> QED BY <1>2, <2>3, <2>4, <2>5 DEF SkipChunkEnd
<1>3. ASSUME TypeOK, SkipChunkLine PROVE TypeOK'
  <2>1. pos' \in 0 .. rcvd
    BY <1>3, LineOK DEF SkipChunkLine
  <2>2. CASE Wait /\ UNCHANGED <<state, req, res, chnkd, fds, client_w>>
    BY <1>3, <2>1, <2>2, SameTalk DEF SkipChunkLine, Wait, TypeOK, inputVars
  <2>3. CASE /\ line.text.t = "size"
             /\ chnkd' = NextChunk(ReadSize(line.text.n))
             /\ req' = [req EXCEPT !.body_size = @ + ReadSize(line.text.n)]
             /\ UNCHANGED <<pc, state, res, fds, client_w>>
    <3>1. chnkd' \in ChnkdType /\ req.body_size + ReadSize(line.text.n) \in SizeType
      BY <1>3, <2>3, NextChunkTyped
    <3>2. req' \in ReqType /\ req'.uri = req.uri /\ req'.body_fd = req.body_fd
      BY <1>3, <2>3, <3>1, Typed DEF ReqType
    <3> QED BY <1>3, <2>1, <2>3, <3>1, <3>2, SameTalk DEF SkipChunkLine, TypeOK, inputVars
  <2>4. CASE BadChunk /\ UNCHANGED <<req, chnkd>>
    <3>1. state' \in States /\ state' # "REQ_HEADER_PARSING"
      BY <1>3, <2>4, BadChunkResponse DEF States
    <3> QED BY <1>3, <2>1, <2>4, <3>1, BadChunkResponse, SameTalk DEF SkipChunkLine, TypeOK, inputVars
  <2> QED BY <1>3, <2>2, <2>3, <2>4 DEF SkipChunkLine
<1> QED BY <1>1, <1>2, <1>3

-----------------------------------------------------------------------------
(* Events.                                                                 *)

LEMMA ReadTyped == TypeOK /\ read_to_client_buffer_ => TypeOK'
<1> SUFFICES ASSUME TypeOK, read_to_client_buffer_ PROVE TypeOK'
  OBVIOUS
<1>1. talk' = talk /\ peer' = peer
  BY DEF read_to_client_buffer_, talk
<1>2. rcvd' \in 0 .. Len(talk.bytes) /\ pos \in 0 .. rcvd'
  <2>1. Len(talk.bytes) \in Nat /\ talk.cuts \subseteq Nat
    BY TalkTyped DEF TalkType
  <2> QED BY <2>1 DEF read_to_client_buffer_, TypeOK
<1>3. pc' \in {"wait", "ctl"}
  BY DEF read_to_client_buffer_, Resume
<1> QED BY <1>1, <1>2, <1>3 DEF read_to_client_buffer_, TypeOK

\* ResponseDone and ResponseGoesOn.
LEMMA AfterWrite ==
  ASSUME TypeOK, NEW a \in ResType, ResponseDone(a) \/ ResponseGoesOn(a)
  PROVE  /\ res' \in ResType /\ client_w' \in BOOLEAN /\ pc' \in {"wait", "ctl"}
         /\ state' \in States /\ state' \in {state, "REQ_CLEAR"}
<1>1. state \in States /\ client_w \in BOOLEAN
  BY DEF TypeOK
<1>2. CASE ResponseDone(a)
  BY <1>1, <1>2 DEF ResponseDone, Resume, ResType, States
<1>3. CASE ResponseGoesOn(a)
  BY <1>1, <1>3 DEF ResponseGoesOn, Resume
<1> QED BY <1>2, <1>3

LEMMA WriteHeaderTyped == TypeOK /\ WriteHeader => TypeOK'
<1> SUFFICES ASSUME TypeOK, WriteHeader PROVE TypeOK'
  OBVIOUS
<1>1. CASE ResponseGoesOn([res EXCEPT !.cut = TRUE]) /\ UNCHANGED wire
  <2>1. [res EXCEPT !.cut = TRUE] \in ResType
    BY Typed DEF ResType
  <2> QED BY <1>1, <2>1, AfterWrite, SameTalk DEF WriteHeader, TypeOK, inputVars
<1>2. CASE /\ wire' = wire \o res.hdr
           /\ \/ ResponseDone([res EXCEPT !.hdr = <<>>, !.header_sent = TRUE])
              \/ ResponseGoesOn([res EXCEPT !.hdr = <<>>, !.header_sent = TRUE])
  <2>1. [res EXCEPT !.hdr = <<>>, !.header_sent = TRUE] \in ResType
    <3>1. <<>> \in Seq(ResponseType)
      OBVIOUS
    <3> QED BY <3>1, Typed DEF ResType
  <2>2. wire' \in Seq(ResponseType)
    BY <1>2 DEF TypeOK, ResType
  <2> QED BY <1>2, <2>1, <2>2, AfterWrite, SameTalk DEF WriteHeader, TypeOK, inputVars
<1> QED BY <1>1, <1>2 DEF WriteHeader

LEMMA WriteBodyTyped == TypeOK /\ WriteBody => TypeOK'
<1> SUFFICES ASSUME TypeOK, WriteBody PROVE TypeOK'
  OBVIOUS
<1> DEFINE left == IF req.is_cgi THEN cgi.from ELSE res.buf
           a(n) == [res EXCEPT !.body_write = @ + n, !.buf = IF req.is_cgi THEN @ ELSE @ - n]
<1>1. left \in Nat
  BY Typed DEF CgiType, ResType
<1>2. PICK n \in (IF left = 0 THEN {0} ELSE 1 .. left) :
        /\ cgi' = IF req.is_cgi THEN [cgi EXCEPT !.from = @ - n] ELSE cgi
        /\ wire' = IF wire = <<>> THEN wire ELSE [wire EXCEPT ![Len(wire)].got = @ + n]
        /\ ResponseDone(a(n)) \/ ResponseGoesOn(a(n))
  BY DEF WriteBody
<1>3. n \in Nat /\ n <= left
  BY <1>1, <1>2
<1>4. a(n) \in ResType
  <2>1. res.body_write + n \in Nat /\ (IF req.is_cgi THEN res.buf ELSE res.buf - n) \in Nat
    BY <1>1, <1>3, Typed DEF ResType
  <2> DEFINE k == IF req.is_cgi THEN res.buf ELSE res.buf - n
  <2>2. a(n) = [res EXCEPT !.body_write = @ + n, !.buf = k]
    OBVIOUS
  <2> HIDE DEF k
  <2>3. k \in Nat
    BY <2>1 DEF k
  <2> QED BY <2>1, <2>2, <2>3, Typed DEF ResType
<1>5. cgi' \in CgiType
  BY <1>1, <1>2, <1>3, Typed DEF CgiType
<1>6. wire' \in Seq(ResponseType)
  <2>1. wire \in Seq(ResponseType)
    BY DEF TypeOK
  <2>2. CASE wire # <<>>
    <3>1. Len(wire) \in DOMAIN wire /\ wire[Len(wire)] \in ResponseType
      BY <2>1, <2>2
    <3>2. [wire[Len(wire)] EXCEPT !.got = @ + n] \in ResponseType
      BY <1>3, <3>1 DEF ResponseType
    <3>3. wire' = [wire EXCEPT ![Len(wire)] = [wire[Len(wire)] EXCEPT !.got = @ + n]]
      BY <1>2, <2>2
    <3> QED BY <2>1, <3>1, <3>2, <3>3
  <2> QED BY <1>2, <2>1, <2>2
<1> HIDE DEF a
<1> QED BY <1>2, <1>4, <1>5, <1>6, AfterWrite, SameTalk DEF WriteBody, TypeOK, inputVars

LEMMA HangUpTyped == TypeOK /\ HangUp => TypeOK'
<1> SUFFICES ASSUME TypeOK, HangUp PROVE TypeOK'
  OBVIOUS
<1>1. fds' \in TableType
  BY Typed, CloseTyped DEF HangUp
<1>2. disk' \in DiskType
  BY Typed DEF HangUp, DiskType
<1> QED BY <1>1, <1>2, SameTalk DEF HangUp, TypeOK, inputVars

\* A descriptor is read: bytes go, or it is closed.
LEMMA DrainTyped ==
  ASSUME NEW tbl \in TableType, NEW f \in Fd, NEW n \in Nat, n <= tbl[f].n, tbl[f].n \in Nat
  PROVE  LET t == [tbl EXCEPT ![f].n = @ - n] IN t \in TableType /\ NoNewWriter(tbl, t)
<1> DEFINE d == [tbl[f] EXCEPT !.n = @ - n]
<1>1. tbl[f] \in FdType /\ tbl[f].n - n \in Nat
  BY DEF TableType
<1>2. d \in FdType /\ d.kind = tbl[f].kind /\ d.ev = tbl[f].ev
  BY <1>1 DEF FdType
<1>3. tbl[f].kind = "free" => d = tbl[f]
  <2> SUFFICES ASSUME tbl[f].kind = "free" PROVE d = tbl[f]
    OBVIOUS
  <2>1. tbl[f] = FreeFd
    BY DEF TableType
  <2>2. n = 0
    BY <2>1 DEF FreeFd
  <2> QED BY <2>1, <2>2 DEF FreeFd
<1>4. [tbl EXCEPT ![f].n = @ - n] = [tbl EXCEPT ![f] = d]
  BY DEF TableType
<1> HIDE DEF d
<1> QED BY <1>2, <1>3, <1>4 DEF TableType, NoNewWriter

LEMMA FdCount ==
  ASSUME TypeOK, NEW f \in Fd PROVE fds[f] \in FdType /\ fds[f].n \in Nat
BY Typed DEF TableType, FdType

LEMMA ReadPageTyped == \A f \in Fd : TypeOK /\ read_to_res_buffer_(f) => TypeOK'
<1> SUFFICES ASSUME NEW f \in Fd, TypeOK, read_to_res_buffer_(f) PROVE TypeOK'
  OBVIOUS
<1>1. PICK n \in 1 .. fds[f].n :
        /\ res' = [res EXCEPT !.buf = @ + n, !.body_read = @ + n]
        /\ IF res.body_read + n = res.body_size
           THEN fds' = CloseFds(fds, {f}) /\ client_w' = TRUE
           ELSE fds' = [fds EXCEPT ![f].n = @ - n] /\ UNCHANGED client_w
  BY DEF read_to_res_buffer_
<1>2. n \in Nat /\ n <= fds[f].n
  BY <1>1, FdCount
<1>3. res' \in ResType
  <2>1. res.buf + n \in Nat /\ res.body_read + n \in Nat
    BY <1>2, Typed DEF ResType
  <2> QED BY <1>1, <2>1, Typed DEF ResType
<1>4. fds' \in TableType
  BY <1>1, <1>2, FdCount, Typed, CloseTyped, DrainTyped
<1> QED BY <1>1, <1>3, <1>4, SameTalk DEF read_to_res_buffer_, TypeOK, inputVars

LEMMA ReadPipeTyped == \A f \in Fd : TypeOK /\ read_to_cgi_buffer_(f) => TypeOK'
<1> SUFFICES ASSUME NEW f \in Fd, TypeOK, read_to_cgi_buffer_(f) PROVE TypeOK'
  OBVIOUS
<1>1. PICK n \in 1 .. fds[f].n :
        cgi' = [cgi EXCEPT !.from = @ + n] /\ fds' = [fds EXCEPT ![f].n = @ - n]
  BY DEF read_to_cgi_buffer_
<1>2. n \in Nat /\ n <= fds[f].n
  BY <1>1, FdCount
<1>3. cgi' \in CgiType
  BY <1>1, <1>2, Typed DEF CgiType
<1>4. fds' \in TableType
  BY <1>1, <1>2, FdCount, Typed, DrainTyped
<1> QED BY <1>3, <1>4, SameTalk DEF read_to_cgi_buffer_, TypeOK, inputVars

LEMMA PipeEofTyped == \A f \in Fd : TypeOK /\ PipeEof(f) => TypeOK'
<1> SUFFICES ASSUME NEW f \in Fd, TypeOK, PipeEof(f) PROVE TypeOK'
  OBVIOUS
<1>1. PICK n \in (IF fds[f].n = 0 THEN {0} ELSE 1 .. fds[f].n) :
       IF n < fds[f].n
       THEN /\ cgi' = [cgi EXCEPT !.from = @ + n]
            /\ fds' = [fds EXCEPT ![f].n = @ - n]
            /\ UNCHANGED <<res, client_w>>
       ELSE /\ fds' = CloseFds(fds, {f})
            /\ IF fds[f].run.form # "none" /\ cgi.from + n > fds[f].run.out
               THEN /\ cgi' = [cgi EXCEPT !.from = @ + n - 1, !.cgi_done = TRUE,
                                          !.cgi_state = "CGI_HOLD"]
                    /\ res' = make_cgi_response_header_(req, res, cgi.from + n - 1,
                                                        fds[f].run.form)
                    /\ client_w' = TRUE
               ELSE /\ cgi' = [cgi EXCEPT !.from = @ + n, !.cgi_done = TRUE,
                                          !.cgi_state = "CGI_HEADER"]
                    /\ UNCHANGED <<res, client_w>>
  BY DEF PipeEof
<1>2. n \in Nat /\ n <= fds[f].n
  BY <1>1, FdCount
<1>3. fds' \in TableType
  BY <1>1, <1>2, FdCount, Typed, CloseTyped, DrainTyped
<1>4. cgi \in CgiType /\ cgi.from \in Nat /\ res \in ResType
  BY Typed DEF CgiType
<1>5. CASE UNCHANGED <<res, client_w>> /\ cgi' \in CgiType
  BY <1>3, <1>5, SameTalk DEF PipeEof, TypeOK, inputVars
<1>6. CASE /\ fds[f].run.form # "none" /\ cgi.from + n > fds[f].run.out
           /\ cgi' = [cgi EXCEPT !.from = @ + n - 1, !.cgi_done = TRUE, !.cgi_state = "CGI_HOLD"]
           /\ res' = make_cgi_response_header_(req, res, cgi.from + n - 1, fds[f].run.form)
           /\ client_w' = TRUE
  <2> DEFINE k == cgi.from + n - 1
  <2>1. fds[f].run \in Scripts
    BY FdCount DEF PipeEof, FdType
  <2>2. k \in Nat
    BY <1>2, <1>4, <1>6, <2>1, ScriptsAssumption DEF ScriptType
  <2>3. cgi' = [cgi EXCEPT !.from = k, !.cgi_done = TRUE, !.cgi_state = "CGI_HOLD"]
        /\ res' = make_cgi_response_header_(req, res, k, fds[f].run.form)
    BY <1>6
  <2> HIDE DEF k
  <2>4. cgi' \in CgiType
    BY <1>4, <2>2, <2>3 DEF CgiType
  <2> DEFINE h == HeaderBlock(req, 200, k)
  <2>5. h \in Seq(ResponseType)
    BY <2>2, HeaderBlockTyped
  <2>6. res' = [res EXCEPT !.hdr = @ \o h] \/ res' = [res EXCEPT !.hdr = @ \o h, !.body_size = k]
    BY <2>3 DEF make_cgi_response_header_
  <2> HIDE DEF h
  <2>7. [res EXCEPT !.hdr = @ \o h] \in ResType
    BY <1>4, <2>5, HdrTyped, Zenon
  <2>8. [res EXCEPT !.hdr = @ \o h, !.body_size = k] \in ResType
    BY <1>4, <2>2, <2>5, HdrSizeTyped, Zenon
  <2> QED BY <1>3, <1>6, <2>4, <2>6, <2>7, <2>8, SameTalk DEF PipeEof, TypeOK, inputVars
<1>7. cgi.from + n \in Nat
  BY <1>2, <1>4
<1>8. ASSUME cgi' = [cgi EXCEPT !.from = @ + n] PROVE cgi' \in CgiType
  BY <1>4, <1>7, <1>8 DEF CgiType
<1>9. ASSUME cgi' = [cgi EXCEPT !.from = @ + n, !.cgi_done = TRUE, !.cgi_state = "CGI_HEADER"]
      PROVE  cgi' \in CgiType
  BY <1>4, <1>7, <1>9 DEF CgiType
<1> QED BY <1>1, <1>5, <1>6, <1>8, <1>9

LEMMA StdinEofTyped == \A f \in Fd : TypeOK /\ StdinEof(f) => TypeOK'
<1> SUFFICES ASSUME NEW f \in Fd, TypeOK, StdinEof(f) PROVE TypeOK'
  OBVIOUS
<1>1. fds' \in TableType
  BY Typed, CloseTyped DEF StdinEof
<1> QED BY <1>1, SameTalk DEF StdinEof, TypeOK, inputVars

LEMMA UploadTyped == \A f \in Fd : TypeOK /\ write_for_upload_(f) => TypeOK'
<1> SUFFICES ASSUME NEW f \in Fd, TypeOK, write_for_upload_(f) PROVE TypeOK'
  OBVIOUS
<1>1. req.uri \in Targets
  BY DEF write_for_upload_, TypeOK
<1> DEFINE left == IF req.is_chnkd THEN chnkd.body ELSE req.body_buf
           r(n) == IF req.is_chnkd THEN [req EXCEPT !.body_read = @ + n]
                   ELSE [req EXCEPT !.body_buf = @ - n]
           done(n) == BodyStored(r(n))
<1>2. PICK n \in (IF left = 0 THEN {0} ELSE 1 .. left) :
        /\ req' = r(n)
        /\ chnkd' = IF req.is_chnkd THEN [chnkd EXCEPT !.body = @ - n] ELSE chnkd
        /\ disk' = [disk EXCEPT !.stored = @ + n, !.st = IF done(n) THEN "whole" ELSE @]
        /\ IF done(n) THEN UploadDone(f, r(n)) ELSE UNCHANGED <<state, fds, res, client_w>>
  BY DEF write_for_upload_
<1>3. left \in Nat /\ (~req.is_chnkd => left = req.body_buf) /\ (req.is_chnkd => left = chnkd.body)
  BY Typed DEF ChnkdType, ReqType
<1>4. n \in Nat /\ n <= left
  BY <1>2, <1>3
<1>5. r(n) \in ReqType /\ r(n).uri = req.uri /\ r(n).body_fd = req.body_fd
  <2>1. req.body_read + n \in Nat /\ (~req.is_chnkd => req.body_buf - n \in Nat)
    BY <1>3, <1>4, Typed DEF ReqType
  <2> QED BY <2>1, Typed DEF ReqType
<1>6. chnkd' \in ChnkdType
  <2>1. req.is_chnkd => chnkd.body - n \in Nat
    BY <1>3, <1>4
  <2> QED BY <1>2, <2>1, Typed DEF ChnkdType
<1> HIDE DEF r, done
<1>7. disk' \in DiskType
  <2> DEFINE st == IF done(n) THEN "whole" ELSE disk.st
  <2>1. disk.stored + n \in Nat /\ st \in {"none", "partial", "whole", "removed"}
    BY <1>4, Typed DEF DiskType
  <2>2. disk' = [disk EXCEPT !.stored = @ + n, !.st = st]
    BY <1>2
  <2> HIDE DEF st
  <2> QED BY <2>1, <2>2, Typed DEF DiskType
<1>8. CASE UNCHANGED <<state, fds, res, client_w>>
  BY <1>1, <1>2, <1>5, <1>6, <1>7, <1>8, SameTalk DEF write_for_upload_, TypeOK, inputVars
<1>9. CASE UploadDone(f, r(n))
  <2>1. PICK o \in make_response_header_(r(n), res, CloseFds(fds, {f})) :
          res' = o.res /\ fds' = o.fds
    BY <1>9 DEF UploadDone
  <2>2. OutcomeTyped(o, CloseFds(fds, {f}))
    BY <1>1, <1>5, Typed, CloseTyped, HeaderOutcome
  <2>3. state' \in States /\ client_w' = TRUE
    BY <1>9 DEF UploadDone, States
  <2> QED BY <1>1, <1>2, <1>5, <1>6, <1>7, <2>1, <2>2, <2>3, SameTalk
          DEF write_for_upload_, OutcomeTyped, TypeOK, inputVars
<1> QED BY <1>2, <1>8, <1>9

LEMMA WriteCgiTyped == \A f \in Fd : TypeOK /\ write_to_cgi_(f) => TypeOK'
<1> SUFFICES ASSUME NEW f \in Fd, TypeOK, write_to_cgi_(f) PROVE TypeOK'
  OBVIOUS
<1>1. PICK n \in (IF cgi.to = 0 THEN {0} ELSE 1 .. cgi.to) :
       /\ cgi' = [cgi EXCEPT !.to = @ - n, !.cgi_read = @ + n,
                             !.cgi_state = IF cgi.cgi_read + n = req.cnt_len
                                           THEN "CGI_HEADER" ELSE @]
       /\ \/ fds' = CloseFds(fds, {f}) /\ state' = "REQ_HOLD"
          \/ UNCHANGED <<fds, state>>
  BY DEF write_to_cgi_
<1>2. cgi \in CgiType /\ cgi.to - n \in Nat /\ cgi.cgi_read + n \in Nat
  BY <1>1, Typed DEF CgiType
<1>3. cgi' \in CgiType
  <2> DEFINE s == IF cgi.cgi_read + n = req.cnt_len THEN "CGI_HEADER" ELSE cgi.cgi_state
  <2>1. s \in {"CGI_HEADER", "CGI_HOLD"}
    BY <1>2 DEF CgiType
  <2>2. cgi' = [cgi EXCEPT !.to = @ - n, !.cgi_read = @ + n, !.cgi_state = s]
    BY <1>1
  <2> HIDE DEF s
  <2> QED BY <1>2, <2>1, <2>2 DEF CgiType
<1>4. fds' \in TableType
  BY <1>1, Typed, CloseTyped
<1>5. state' \in States /\ state' \in {state, "REQ_HOLD"}
  BY <1>1 DEF TypeOK, States
<1> QED BY <1>3, <1>4, <1>5, SameTalk DEF write_to_cgi_, TypeOK, inputVars

LEMMA ExitTyped == TypeOK /\ proc_event_wait_pid => TypeOK'
<1> SUFFICES ASSUME TypeOK, proc_event_wait_pid PROVE TypeOK'
  OBVIOUS
<1>1. /\ req' \in ReqType /\ req'.uri = req.uri /\ req'.body_fd = req.body_fd
      /\ state' \in Refused
      /\ res' \in ResType /\ client_w' \in BOOLEAN /\ fds' \in TableType
  BY Typed, ErrorResponse DEF proc_event_wait_pid
<1>2. state' \in States /\ state' # "REQ_HEADER_PARSING"
  BY <1>1 DEF Refused, States
<1>3. failing' \in Nat
  BY DEF proc_event_wait_pid, TypeOK
<1> QED BY <1>1, <1>2, <1>3, SameTalk DEF proc_event_wait_pid, TypeOK, inputVars

-----------------------------------------------------------------------------
(* Types are kept: every field of the client always has a value of its     *)
(* kind, so no count of bytes goes below zero (the C++ counts are          *)
(* unsigned), _buf never gives more than it holds, a request that is       *)
(* routed, or that has a file open for its body, has a location, and a     *)
(* closed descriptor has no knote.                                         *)
THEOREM TypeCorrect == Spec => []TypeOK
<1>1. Init => TypeOK
  BY InitTyped
<1>2. TypeOK /\ [Next]_vars => TypeOK'
  <2> SUFFICES ASSUME TypeOK, [Next]_vars PROVE TypeOK'
    OBVIOUS
  <2>1. CASE req_res_controller_
    BY <2>1, ResetTyped, LineTypes, BadHostTyped, NotServedTyped, GetHeadTyped, DeleteTyped,
       PostPutTyped, CgiTyped, BodyTyped, ChunkStepTyped, ChunkLineTyped, SkipChunkTyped
       DEF req_res_controller_, Route, ChunkedBody, SkipChunkedBody
  <2>2. CASE read_to_client_buffer_ \/ write_response_ \/ HangUp \/ proc_event_wait_pid
    BY <2>2, ReadTyped, WriteHeaderTyped, WriteBodyTyped, HangUpTyped, ExitTyped
       DEF write_response_
  <2>3. CASE \E f \in Fd : FdEvent(f)
    BY <2>3, ReadPageTyped, ReadPipeTyped, PipeEofTyped, StdinEofTyped, UploadTyped, WriteCgiTyped
       DEF FdEvent
  <2>4. CASE UNCHANGED vars
    BY <2>4, SameTalk DEF vars, inputVars, TypeOK
  <2> QED BY <2>1, <2>2, <2>3, <2>4 DEF Next, Handled
<1> QED BY <1>1, <1>2, PTL DEF Spec

-----------------------------------------------------------------------------
(* The bytes of an upload.  UploadAccounted is inductive relative to TypeOK.*)
(* A step that leaves the file alone either leaves the request where it is *)
(* (Still), or takes it to a state in which nothing more is read for the   *)
(* file (Away), or happens when no file is open (NoFile).                  *)

SameFile ==
  disk'.stored = disk.stored /\ disk'.cap = disk.cap /\ disk'.carried = disk.carried

AwayStates == Refused \cup {"REQ_CLEAR", "E_BAD_REQ"}

LEMMA Counts ==
  TypeOK => /\ disk.stored \in Nat /\ disk.cap \in Nat /\ disk.carried \in Nat
            /\ chnkd.body \in Nat /\ chnkd.size \in 0 .. Modulus - 1 /\ chnkd.size \in Nat
            /\ req.body_buf \in Nat /\ req.body_read \in Nat
            /\ req.body_size \in SizeType /\ req.cnt_len \in SizeType
            /\ req.body_limit \in SizeType /\ req.body_fd \in Fd \cup {NoFd}
BY Typed DEF DiskType, ChnkdType, ReqType

LEMMA AheadTyped == TypeOK => Ahead \in Nat
BY Counts, ModulusAssumption DEF Ahead

LEMMA StillSafe ==
  ASSUME UploadAccounted, UNCHANGED <<state, req, chnkd>>, SameFile, NoNewWriter(fds, fds')
  PROVE  UploadAccounted'
BY DEF UploadAccounted, FreshRequest, CgiHasNoUpload, ChunksAccounted, LengthAccounted,
       WriterAccounted, UploadWithinLimit, Pending, Ahead, SameFile, NoNewWriter

LEMMA AwaySafe ==
  ASSUME UploadAccounted, state' \in AwayStates, req'.body_fd = req.body_fd,
         Pending' = Pending, SameFile, NoNewWriter(fds, fds')
  PROVE  UploadAccounted'
BY DEF UploadAccounted, FreshRequest, CgiHasNoUpload, ChunksAccounted, LengthAccounted,
       WriterAccounted, UploadWithinLimit, SameFile, NoNewWriter, AwayStates, Refused

LEMMA NoFileSafe ==
  ASSUME UploadAccounted, SameFile, req'.body_fd = NoFd,
         \/ state' \in AwayStates \cup {"REQ_CGI_BODY", "REQ_CGI_BODY_CHUNKED"}
         \/ /\ state' \in {"REQ_LINE_PARSING", "REQ_HEADER_PARSING"}
            /\ chnkd' = NewChnkd /\ req'.body_read = 0
  PROVE  UploadAccounted'
BY FdAssumption
   DEF UploadAccounted, FreshRequest, CgiHasNoUpload, ChunksAccounted, LengthAccounted,
       WriterAccounted, UploadWithinLimit, SameFile, AwayStates, Refused

LEMMA InitSafe == Init => UploadAccounted
BY FdAssumption
   DEF Init, UploadAccounted, FreshRequest, CgiHasNoUpload, ChunksAccounted, LengthAccounted,
       WriterAccounted, UploadWithinLimit, NoFile, NewReq

LEMMA RequestSafe ==
  ASSUME TypeOK, UploadAccounted,
         \/ reset_ \/ ReadMore \/ request_line_parser_ \/ header_field_parser_
         \/ BadHostRequest \/ NotServed \/ res_for_get_head_req_ \/ res_for_delete_req_ \/ do_cgi_
  PROVE  UploadAccounted'
<1> SameFile
  BY DEF SameFile, reset_, ReadMore, request_line_parser_, header_field_parser_,
         BadHostRequest, NotServed, res_for_get_head_req_, res_for_delete_req_, do_cgi_
<1>1. CASE reset_
  BY <1>1, NoFileSafe DEF reset_, NewReq
<1>2. CASE ReadMore
  BY <1>2, StillSafe DEF ReadMore, NoNewWriter
<1>3. ASSUME state \in {"REQ_LINE_PARSING", "REQ_HEADER_PARSING"}
      PROVE  req.body_fd = NoFd /\ chnkd = NewChnkd /\ req.body_read = 0
  BY <1>3 DEF UploadAccounted, FreshRequest
<1>4. CASE request_line_parser_
  <2>1. state = "REQ_LINE_PARSING" /\ req \in ReqType /\ fds \in TableType
    BY <1>4, Typed DEF request_line_parser_, In
  <2>2. CASE UNCHANGED <<pc, state, req, res, fds, client_w>>
    BY <1>4, <2>2, StillSafe DEF request_line_parser_, NoNewWriter
  <2>3. CASE /\ req' = [req EXCEPT !.mthd = line.text.m, !.uri = line.text.u]
             /\ state' = "REQ_HEADER_PARSING"
    <3>1. req'.body_fd = req.body_fd /\ req'.body_read = req.body_read
      BY <2>1, <2>3 DEF ReqType
    <3> QED BY <1>3, <1>4, <2>1, <2>3, <3>1, NoFileSafe DEF request_line_parser_
  <2>4. CASE error_response_keep_alive_(400, [req EXCEPT !.mthd = "UNDEFINED"], fds)
    <3> DEFINE r == [req EXCEPT !.mthd = "UNDEFINED"]
    <3>1. r \in ReqType /\ r.body_fd = req.body_fd
      BY <2>1 DEF ReqType
    <3> HIDE DEF r
    <3>2. error_response_keep_alive_(400, r, fds)
      BY <2>4 DEF r
    <3>3. req'.body_fd = req.body_fd /\ state' \in Refused
      BY <2>1, <3>1, <3>2, ErrorResponse
    <3> QED BY <1>3, <2>1, <3>3, NoFileSafe DEF AwayStates
  <2> QED BY <1>4, <2>2, <2>3, <2>4 DEF request_line_parser_
<1>5. CASE header_field_parser_
  <2>1. req'.body_fd = req.body_fd /\ req'.body_read = req.body_read
    BY <1>5, Typed DEF header_field_parser_, ReqType
  <2>2. state = "REQ_HEADER_PARSING" /\ state' = state /\ chnkd' = chnkd
    BY <1>5 DEF header_field_parser_, In
  <2> QED BY <1>3, <2>1, <2>2, NoFileSafe
<1>6. ASSUME HeaderEnds
      PROVE  /\ req.body_fd = NoFd /\ Framed.body_fd = NoFd
             /\ Located.body_fd = NoFd /\ Located \in ReqType
  BY <1>3, <1>6, HeaderEndsOK, LocatedTyped
<1>7. CASE BadHostRequest
  BY <1>6, <1>7, NoFileSafe DEF BadHostRequest, AwayStates
<1>8. CASE NotServed
  <2> DEFINE r == [Located EXCEPT !.is_cgi = FALSE]
             code == IF Location[req.uri].found THEN 405 ELSE 404
  <2>1. HeaderEnds
    BY <1>8 DEF NotServed
  <2>2. r \in ReqType /\ r.body_fd = NoFd
    BY <1>6, <2>1 DEF ReqType
  <2>3. error_response_keep_alive_(code, r, fds) /\ code \in Nat
    BY <1>8 DEF NotServed
  <2> HIDE DEF r, code
  <2>4. req'.body_fd = NoFd /\ state' \in Refused
    BY <2>2, <2>3, ErrorResponse, Typed
  <2> QED BY <2>4, NoFileSafe DEF AwayStates
<1>9. CASE res_for_get_head_req_
  BY <1>6, <1>9, SkipStateIn, NoFileSafe DEF res_for_get_head_req_, AwayStates
<1>10. CASE res_for_delete_req_
  <2>1. req'.body_fd = NoFd
    BY <1>6, <1>10 DEF res_for_delete_req_, ReqType
  <2> QED BY <1>10, <2>1, SkipStateIn, NoFileSafe DEF res_for_delete_req_, AwayStates
<1>11. CASE do_cgi_
  <2>1. HeaderEnds
    BY <1>11 DEF do_cgi_
  <2>2. CASE error_response_keep_alive_(500, Located, fds)
    <3>1. req'.body_fd = NoFd /\ state' \in Refused
      BY <1>6, <2>1, <2>2, ErrorResponse, Typed
    <3> QED BY <3>1, NoFileSafe DEF AwayStates
  <2>3. CASE /\ req' = Located
             /\ state' = CASE Located.is_chnkd /\ req.mthd \in Bodiless    -> "REQ_SKIP_BODY_CHUNKED"
                           [] Located.is_chnkd /\ req.mthd \notin Bodiless -> "REQ_CGI_BODY_CHUNKED"
                           [] ~Located.is_chnkd /\ Located.cnt_len = 0     -> "REQ_HOLD"
                           [] OTHER -> IF req.mthd \in Bodiless THEN "REQ_SKIP_BODY" ELSE "REQ_CGI_BODY"
    <3>1. state' \in AwayStates \cup {"REQ_CGI_BODY", "REQ_CGI_BODY_CHUNKED"}
      BY <2>3 DEF AwayStates, Refused
    <3> QED BY <1>6, <2>1, <2>3, <3>1, NoFileSafe
  <2> QED BY <1>11, <2>2, <2>3, Zenon DEF do_cgi_
<1> QED BY <1>1, <1>2, <1>4, <1>5, <1>7, <1>8, <1>9, <1>10, <1>11

LEMMA PostPutSafe ==
  ASSUME TypeOK, UploadAccounted, res_for_post_put_req_
  PROVE  UploadAccounted'
<1>1. HeaderEnds /\ Served /\ chnkd' = chnkd
  BY DEF res_for_post_put_req_
<1>2. state = "REQ_HEADER_PARSING" /\ req.uri \in Targets
  BY <1>1, HeaderEndsOK
<1>3. req.body_fd = NoFd /\ chnkd = NewChnkd /\ req.body_read = 0
  BY <1>2 DEF UploadAccounted, FreshRequest
<1>4. /\ Located \in ReqType /\ Located.body_limit \in Nat
      /\ Located.body_fd = NoFd /\ Located.body_read = 0
  BY <1>1, <1>2, <1>3, LocatedTyped
<1>5. CASE error_response_keep_alive_(404, Located, fds) /\ UNCHANGED disk
  <2>1. req'.body_fd = NoFd /\ state' \in Refused
    BY <1>4, <1>5, ErrorResponse, Typed
  <2> QED BY <1>5, <2>1, NoFileSafe DEF AwayStates, SameFile
<1>6. ASSUME NEW f \in FreeIn(fds), NEW r, r = [Located EXCEPT !.body_fd = f]
      PROVE  /\ r \in ReqType /\ r.body_fd = f /\ f \in Fd
             /\ r.body_limit \in Nat /\ r.body_buf \in Nat /\ r.body_read = 0
             /\ r.cnt_len \in SizeType
             /\ "W" \notin [fds EXCEPT ![f] = Upload][f].ev
  <2>1. f \in Fd
    BY DEF FreeIn
  <2>2. r \in ReqType /\ r.body_fd = f /\ r.body_limit \in Nat /\ r.body_read = 0
    BY <1>4, <1>6, <2>1 DEF ReqType
  <2>3. [fds EXCEPT ![f] = Upload][f].ev = {}
    BY <2>1, UploadFdTyped, Typed DEF TableType
  <2> QED BY <2>1, <2>2, <2>3 DEF ReqType
<1>7. ASSUME NEW f \in FreeIn(fds), NEW r, r = [Located EXCEPT !.body_fd = f],
             /\ req' = [r EXCEPT !.body_size = 0, !.cnt_len = Unset]
             /\ fds' = [fds EXCEPT ![f] = Upload]
             /\ state' = "REQ_BODY_CHUNKED" /\ disk' = NewFile(r)
      PROVE  UploadAccounted'
  <2>1. /\ req'.body_size = 0 /\ req'.body_fd = f /\ req'.body_limit = r.body_limit
        /\ req'.body_buf = r.body_buf
    BY <1>6, <1>7 DEF ReqType
  <2>2. /\ disk'.stored = 0 /\ disk'.cap = r.body_limit /\ disk'.carried = r.body_buf
    BY <1>7 DEF NewFile
  <2>3. "W" \notin fds'[f].ev /\ chnkd'.body = 0 /\ chnkd'.size = 0
    BY <1>1, <1>3, <1>6, <1>7 DEF NewChnkd
  <2>4. Ahead' = 0
    BY <2>3 DEF Ahead
  <2>5. r.body_limit \in Nat /\ r.body_buf \in Nat
    BY <1>6, <1>7
  <2>6. ChunksAccounted'
    BY <2>1, <2>2, <2>3, <2>4, <2>5 DEF ChunksAccounted
  <2>7. WriterAccounted' /\ UploadWithinLimit'
    BY <2>1, <2>2, <2>3, <2>5 DEF WriterAccounted, UploadWithinLimit
  <2>8. FreshRequest' /\ CgiHasNoUpload' /\ LengthAccounted'
    BY <1>7 DEF FreshRequest, CgiHasNoUpload, LengthAccounted
  <2> QED BY <2>6, <2>7, <2>8 DEF UploadAccounted
<1>8. ASSUME NEW f \in FreeIn(fds), NEW r, r = [Located EXCEPT !.body_fd = f],
             /\ error_response_keep_alive_(416, r, fds)
             /\ disk' = [NewFile(r) EXCEPT !.st = "removed"]
      PROVE  UploadAccounted'
  <2>1. r \in ReqType /\ r.body_fd = f /\ r.body_limit \in Nat /\ r.body_buf \in Nat /\ f \in Fd
    BY <1>6, <1>8
  <2>2. error_response_keep_alive_(416, r, fds)
    BY <1>8
  <2>3. /\ req'.body_fd = f /\ state' \in Refused /\ NoNewWriter(fds, fds')
    BY <2>1, <2>2, ErrorResponse, Typed
  <2>4. "W" \notin fds[f].ev
    BY Typed DEF FreeIn, TableType, FreeFd
  <2>5. "W" \notin fds'[f].ev
    BY <2>1, <2>3, <2>4 DEF NoNewWriter
  <2>6. disk'.stored = 0 /\ disk'.cap = r.body_limit /\ disk'.carried = r.body_buf
    BY <1>8 DEF NewFile
  <2>7. WriterAccounted' /\ UploadWithinLimit'
    BY <2>1, <2>3, <2>5, <2>6 DEF WriterAccounted, UploadWithinLimit
  <2>8. FreshRequest' /\ CgiHasNoUpload' /\ ChunksAccounted' /\ LengthAccounted'
    BY <2>3 DEF FreshRequest, CgiHasNoUpload, ChunksAccounted, LengthAccounted, Refused
  <2> QED BY <2>7, <2>8 DEF UploadAccounted
<1>9. ASSUME NEW f \in FreeIn(fds), NEW r, r = [Located EXCEPT !.body_fd = f],
             /\ ~(r.is_chnkd \/ r.cnt_len = Unset)
             /\ ~(~r.is_chnkd /\ r.cnt_len > r.body_limit)
             /\ req' = r
             /\ state' = "REQ_BODY" /\ disk' = NewFile(r)
      PROVE  UploadAccounted'
  <2>1. /\ r.body_limit \in Nat /\ r.body_buf \in Nat /\ r.body_read = 0 /\ r.cnt_len \in SizeType
    BY <1>6, <1>9
  <2>2. disk'.stored = 0 /\ disk'.cap = r.body_limit /\ disk'.carried = r.body_buf
    BY <1>9 DEF NewFile
  <2>3. r.cnt_len \in 0 .. r.body_limit /\ ~r.is_chnkd
    BY <1>9, <2>1 DEF SizeType
  <2>4. LengthAccounted'
    BY <1>9, <2>1, <2>2, <2>3 DEF LengthAccounted
  <2>5. WriterAccounted' /\ UploadWithinLimit'
    BY <1>9, <2>1, <2>2, <2>3 DEF WriterAccounted, UploadWithinLimit, Pending
  <2>6. FreshRequest' /\ CgiHasNoUpload' /\ ChunksAccounted'
    BY <1>9 DEF FreshRequest, CgiHasNoUpload, ChunksAccounted
  <2> QED BY <2>4, <2>5, <2>6 DEF UploadAccounted
<1> QED BY <1>5, <1>7, <1>8, <1>9 DEF res_for_post_put_req_

LEMMA BodySafe ==
  ASSUME TypeOK, UploadAccounted, state_req_body_ \/ CgiBody \/ SkipBody \/ HoldBody
  PROVE  UploadAccounted'
<1> SameFile
  BY DEF SameFile, state_req_body_, CgiBody, SkipBody, HoldBody
<1>1. CASE state_req_body_
  <2> DEFINE n == Upto(req.cnt_len - req.body_read)
  <2>1. /\ ~req.is_chnkd /\ req.body_limit = disk.cap
        /\ req.cnt_len \in req.body_read .. req.body_limit
        /\ disk.stored + req.body_buf <= disk.carried + req.body_read
    BY <1>1 DEF UploadAccounted, LengthAccounted, state_req_body_, In
  <2>2. n \in Nat /\ n <= req.cnt_len - req.body_read
    BY <2>1, Counts, TakeOK DEF SizeType, Unset
  <2>3. /\ req' = [req EXCEPT !.body_buf = @ + n, !.body_read = @ + n]
        /\ state' = IF req.body_read + n = req.cnt_len THEN "REQ_HOLD" ELSE state
        /\ state = "REQ_BODY"
        /\ UNCHANGED <<chnkd, fds>>
    BY <1>1 DEF state_req_body_, In
  <2> HIDE DEF n
  <2>4. /\ req'.body_buf = req.body_buf + n /\ req'.body_read = req.body_read + n
        /\ req'.cnt_len = req.cnt_len /\ req'.body_limit = req.body_limit
        /\ req'.is_chnkd = req.is_chnkd /\ req'.body_fd = req.body_fd
    BY <2>3, Typed DEF ReqType
  <2>5. LengthAccounted'
    BY <2>1, <2>2, <2>4, Counts DEF LengthAccounted, SameFile
  <2>6. WriterAccounted' /\ UploadWithinLimit'
    BY <2>1, <2>2, <2>4, Counts DEF WriterAccounted, Pending, UploadWithinLimit, SameFile
  <2>7. FreshRequest' /\ CgiHasNoUpload' /\ ChunksAccounted'
    BY <2>3 DEF FreshRequest, CgiHasNoUpload, ChunksAccounted
  <2> QED BY <2>5, <2>6, <2>7 DEF UploadAccounted
<1>2. CASE CgiBody
  <2>1. req.body_fd = NoFd /\ state = "REQ_CGI_BODY"
    BY <1>2 DEF UploadAccounted, CgiHasNoUpload, CgiBody, In
  <2>2. req'.body_fd = NoFd /\ state' \in {state, "REQ_HOLD"}
    BY <1>2, <2>1, Typed DEF CgiBody, ReqType
  <2> QED BY <2>1, <2>2, NoFileSafe DEF AwayStates, Refused
<1>3. CASE SkipBody \/ HoldBody
  BY <1>3, StillSafe DEF SkipBody, HoldBody, NoNewWriter
<1> QED BY <1>1, <1>2, <1>3

\* In the chunk states the accounts are those of ChunksAccounted, or no file
\* is open.
LEMMA InChunksFacts ==
  ASSUME TypeOK, UploadAccounted, InChunks
  PROVE  \/ /\ state = "REQ_BODY_CHUNKED"
            /\ req.body_size \in 0 .. req.body_limit /\ req.body_limit = disk.cap
            /\ req.is_chnkd => disk.stored + chnkd.body + Ahead <= req.body_size
            /\ ~req.is_chnkd => disk.stored + req.body_buf <= disk.carried
         \/ state = "REQ_CGI_BODY_CHUNKED" /\ req.body_fd = NoFd
BY DEF InChunks, In, UploadAccounted, ChunksAccounted, CgiHasNoUpload

LEMMA ChunkStepSafe ==
  ASSUME TypeOK, UploadAccounted, FirstChunk \/ ChunkData \/ ChunkEnd \/ ChunkLineMissing
  PROVE  UploadAccounted'
<1> SameFile
  BY DEF SameFile, FirstChunk, ChunkData, ChunkEnd, ChunkLineMissing
<1>1. InChunks
  BY DEF FirstChunk, ChunkData, ChunkEnd, ChunkLineMissing, AtChunkLine
<1>2. CASE state = "REQ_CGI_BODY_CHUNKED" /\ req.body_fd = NoFd
  <2>1. req'.body_fd = NoFd
    BY <1>2, Typed DEF FirstChunk, ChunkData, ChunkEnd, ChunkLineMissing, ReqType
  <2>2. state' \in {state, "REQ_HOLD"}
    BY DEF FirstChunk, ChunkData, ChunkEnd, ChunkLineMissing
  <2> QED BY <1>2, <2>1, <2>2, NoFileSafe DEF AwayStates, Refused
<1>3. CASE /\ state = "REQ_BODY_CHUNKED"
           /\ req.body_size \in 0 .. req.body_limit /\ req.body_limit = disk.cap
           /\ req.is_chnkd => disk.stored + chnkd.body + Ahead <= req.body_size
           /\ ~req.is_chnkd => disk.stored + req.body_buf <= disk.carried
  <2>1. CASE ChunkLineMissing
    BY <2>1, StillSafe DEF ChunkLineMissing, NoNewWriter
  <2>2. CASE FirstChunk
    <3>1. UNCHANGED <<state, req>> /\ chnkd'.body = chnkd.body /\ chnkd'.size = chnkd.size
      BY <2>2, Typed DEF FirstChunk, ChnkdType
    <3>2. Ahead' = Ahead
      BY <3>1 DEF Ahead
    <3>3. ChunksAccounted'
      BY <1>3, <3>1, <3>2 DEF ChunksAccounted, SameFile
    <3>4. WriterAccounted' /\ UploadWithinLimit'
      BY <1>3, <3>1, <3>2, AheadTyped, Counts DEF WriterAccounted, Pending, SameFile, UploadWithinLimit,
         UploadAccounted
    <3>5. FreshRequest' /\ CgiHasNoUpload' /\ LengthAccounted'
      BY <1>3, <3>1 DEF FreshRequest, CgiHasNoUpload, LengthAccounted
    <3> QED BY <3>3, <3>4, <3>5 DEF UploadAccounted
  <2>3. CASE ChunkData
    <3> DEFINE n == Least(avail, chnkd.size - 2)
    <3>1. chnkd.size > 2 /\ UNCHANGED <<state, req, fds>>
      BY <2>3 DEF ChunkData
    <3>2. chnkd' = [chnkd EXCEPT !.size = @ - n, !.body = @ + n]
      BY <1>3, <2>3 DEF ChunkData
    <3>3. n \in Nat /\ chnkd.size - n >= 2
      BY <3>1, ChunkTake
    <3> HIDE DEF n
    <3>4. chnkd'.size = chnkd.size - n /\ chnkd'.body = chnkd.body + n
      BY <3>2, Typed DEF ChnkdType
    <3>5. chnkd'.body + Ahead' = chnkd.body + Ahead /\ Ahead' \in Nat
      BY <3>1, <3>3, <3>4, Counts DEF Ahead
    <3>6. /\ req' = req /\ disk'.stored = disk.stored /\ disk'.cap = disk.cap
          /\ disk'.carried = disk.carried /\ state' = state
      BY <3>1 DEF SameFile
    <3>7. /\ req.is_chnkd => disk.stored + (chnkd'.body + Ahead') <= req.body_size
          /\ req.is_chnkd => disk.stored + chnkd'.body <= disk.cap + disk.carried
      <4>1. Ahead \in Nat /\ chnkd'.body \in Nat
        BY <3>3, <3>4, Counts DEF Ahead
      <4> QED BY <1>3, <3>5, <4>1, Counts DEF SizeType
    <3>8. ChunksAccounted'
      <4>1. req.is_chnkd => disk.stored + chnkd'.body + Ahead' <= req.body_size
        BY <3>3, <3>4, <3>5, <3>7, Counts
      <4> QED BY <1>3, <3>6, <4>1 DEF ChunksAccounted
    <3>9. WriterAccounted' /\ UploadWithinLimit'
      <4>1. disk.stored <= disk.cap + disk.carried
        BY DEF UploadAccounted, UploadWithinLimit
      <4>2. ~req.is_chnkd => disk.stored + req.body_buf <= disk.cap + disk.carried
        BY <1>3, Counts DEF SizeType, Unset
      <4> QED BY <3>6, <3>7, <4>1, <4>2 DEF WriterAccounted, Pending, UploadWithinLimit
    <3>10. FreshRequest' /\ CgiHasNoUpload' /\ LengthAccounted'
      BY <1>3, <3>1 DEF FreshRequest, CgiHasNoUpload, LengthAccounted
    <3> QED BY <3>8, <3>9, <3>10 DEF UploadAccounted
  <2>4. CASE ChunkEnd
    <3>1. chnkd'.body = chnkd.body /\ Ahead' = Ahead /\ UNCHANGED fds
      <4>1. chnkd' = chnkd \/ (chnkd.size \in {1, 2} /\ chnkd' = AfterChunk)
        BY <2>4 DEF ChunkEnd
      <4>2. CASE chnkd' = chnkd
        BY <2>4, <4>2 DEF ChunkEnd, Ahead
      <4>3. CASE chnkd.size \in {1, 2} /\ chnkd' = AfterChunk
        <5>1. chnkd'.body = chnkd.body
          BY <4>3, ChunkEndIs
        <5>2. \/ chnkd.size = 2 /\ chnkd'.size = 0
              \/ chnkd.size = 1 /\ chnkd'.size = Modulus - 1
          BY <4>3, ChunkEndIs
        <5>3. Ahead' = Ahead
          BY <5>2, ModulusAssumption DEF Ahead
        <5> QED BY <2>4, <5>1, <5>3 DEF ChunkEnd
      <4> QED BY <4>1, <4>2, <4>3
    <3>2. CASE UNCHANGED <<state, req>>
      <4>1. ChunksAccounted'
        BY <1>3, <3>1, <3>2 DEF ChunksAccounted, SameFile
      <4>2. WriterAccounted' /\ UploadWithinLimit'
        BY <3>1, <3>2 DEF WriterAccounted, Pending, SameFile, UploadWithinLimit, UploadAccounted
      <4>3. FreshRequest' /\ CgiHasNoUpload' /\ LengthAccounted'
        BY <1>3, <3>2 DEF FreshRequest, CgiHasNoUpload, LengthAccounted
      <4> QED BY <4>1, <4>2, <4>3 DEF UploadAccounted
    <3>3. CASE req' = [req EXCEPT !.cnt_len = req.body_size] /\ state' = "REQ_HOLD"
      <4>1. /\ req'.body_fd = req.body_fd /\ req'.is_chnkd = req.is_chnkd
            /\ req'.body_buf = req.body_buf
        BY <3>3, Typed DEF ReqType
      <4> QED BY <3>1, <3>3, <4>1, AwaySafe DEF AwayStates, Refused, Pending, NoNewWriter
    <3> QED BY <2>4, <3>2, <3>3 DEF ChunkEnd
  <2> QED BY <2>1, <2>2, <2>3, <2>4
<1> QED BY <1>1, <1>2, <1>3, InChunksFacts

LEMMA ChunkLineSafe ==
  ASSUME TypeOK, UploadAccounted, ChunkLine \/ BadChunkLine
  PROVE  UploadAccounted'
<1> SameFile
  BY Typed DEF SameFile, ChunkLine, BadChunkLine, DiskType
<1>1. InChunks /\ chnkd.size = 0
  BY DEF ChunkLine, BadChunkLine, AtChunkLine
<1>2. CASE BadChunkLine
  <2>1. BadChunk /\ UNCHANGED <<req, chnkd>>
    BY <1>2 DEF BadChunkLine
  <2>2. Pending' = Pending /\ req'.body_fd = req.body_fd
    BY <2>1 DEF Pending
  <2> QED BY <2>1, <2>2, BadChunkResponse, AwaySafe DEF AwayStates
<1>3. CASE ChunkLine
  <2> DEFINE n == ReadSize(line.text.n)
             r == [req EXCEPT !.body_size = @ + n]
  <2>1. /\ n \in 0 .. Modulus - 1 /\ n \in Nat /\ req.body_size + n \in SizeType
        /\ chnkd' = NextChunk(n)
    BY <1>3, NextChunkTyped, ModulusAssumption DEF ChunkLine
  <2>2. /\ r \in ReqType /\ r.body_size = req.body_size + n /\ r.body_limit = req.body_limit
        /\ r.body_fd = req.body_fd /\ r.is_chnkd = req.is_chnkd /\ r.body_buf = req.body_buf
    BY <2>1, Typed DEF ReqType
  <2> HIDE DEF n, r
  <2>3. chnkd'.body = chnkd.body /\ Ahead' \in 0 .. n
    <3>1. /\ chnkd'.body = chnkd.body /\ chnkd'.size \in Nat
          /\ n + 2 < Modulus => chnkd'.size = n + 2
          /\ n + 2 >= Modulus => chnkd'.size \in {0, 1}
          /\ chnkd'.size = 1 => n = Modulus - 1
      BY <2>1, NextChunkIs, ModulusAssumption DEF ChnkdType
    <3>2. CASE n + 2 < Modulus
      BY <2>1, <3>1, <3>2, ModulusAssumption DEF Ahead
    <3>3. CASE n + 2 >= Modulus
      BY <2>1, <3>1, <3>3, ModulusAssumption DEF Ahead
    <3> QED BY <2>1, <3>1, <3>2, <3>3, ModulusAssumption
  <2>4. CASE /\ error_response_keep_alive_(413, r, CloseFds(fds, {req.body_fd}))
    <3> DEFINE tbl == CloseFds(fds, {req.body_fd})
    <3>1. tbl \in TableType /\ NoNewWriter(fds, tbl)
      BY CloseTyped, Typed
    <3> HIDE DEF tbl
    <3>2. error_response_keep_alive_(413, r, tbl) /\ r \in ReqType /\ 413 \in Nat
      BY <2>2, <2>4 DEF tbl
    <3>3. /\ req'.body_fd = r.body_fd /\ req'.is_chnkd = r.is_chnkd
          /\ req'.body_buf = r.body_buf /\ state' \in Refused /\ NoNewWriter(tbl, fds')
      BY <3>1, <3>2, ErrorResponse
    <3>4. /\ req'.body_fd = req.body_fd /\ req'.is_chnkd = req.is_chnkd
          /\ req'.body_buf = req.body_buf /\ NoNewWriter(fds, fds')
      BY <2>2, <3>1, <3>3 DEF NoNewWriter
    <3> QED BY <2>3, <3>3, <3>4, AwaySafe DEF AwayStates, Pending
  <2>5. CASE r.body_size <= req.body_limit /\ req' = r /\ UNCHANGED <<state, fds>>
    <3>1. CASE state = "REQ_CGI_BODY_CHUNKED" /\ req.body_fd = NoFd
      BY <2>2, <2>5, <3>1, NoFileSafe DEF AwayStates
    <3>2. CASE /\ state = "REQ_BODY_CHUNKED"
               /\ req.body_size \in 0 .. req.body_limit /\ req.body_limit = disk.cap
               /\ req.is_chnkd => disk.stored + chnkd.body + Ahead <= req.body_size
               /\ ~req.is_chnkd => disk.stored + req.body_buf <= disk.carried
      <4>1. Ahead' \in 0 .. n /\ Ahead = 0
        BY <1>1, <2>3 DEF Ahead
      <4>2. req.body_limit \in Nat /\ req'.body_size \in 0 .. req'.body_limit
        BY <2>1, <2>2, <2>5, <3>2, Counts DEF SizeType, Unset
      <4>3. ChunksAccounted'
        BY <2>1, <2>2, <2>3, <2>5, <3>2, <4>1, <4>2, Counts DEF ChunksAccounted, SameFile
      <4>4. WriterAccounted' /\ UploadWithinLimit'
        BY <2>2, <2>3, <2>5 DEF WriterAccounted, Pending, SameFile, UploadWithinLimit, UploadAccounted
      <4>5. FreshRequest' /\ CgiHasNoUpload' /\ LengthAccounted'
        BY <2>5, <3>2 DEF FreshRequest, CgiHasNoUpload, LengthAccounted
      <4> QED BY <4>3, <4>4, <4>5 DEF UploadAccounted
    <3> QED BY <1>1, <3>1, <3>2, InChunksFacts
  <2> QED BY <1>3, <2>2, <2>4, <2>5 DEF ChunkLine, WithinLimit, n, r
<1> QED BY <1>2, <1>3

LEMMA SkipChunkSafe ==
  ASSUME TypeOK, UploadAccounted, SkipChunkedBody
  PROVE  UploadAccounted'
<1> SameFile
  BY DEF SameFile, SkipChunkedBody, SkipChunkData, SkipChunkEnd, SkipChunkLine
<1>1. state = "REQ_SKIP_BODY_CHUNKED"
  BY DEF SkipChunkedBody, SkipChunkData, SkipChunkEnd, SkipChunkLine, InSkip, In
<1>2. chnkd'.body = chnkd.body
  BY Typed DEF SkipChunkedBody, SkipChunkData, SkipChunkEnd, SkipChunkLine, ChnkdType, NextChunk,
     AfterChunk
<1>3. /\ req'.body_fd = req.body_fd /\ req'.is_chnkd = req.is_chnkd
      /\ req'.body_buf = req.body_buf
  BY Typed DEF SkipChunkedBody, SkipChunkData, SkipChunkEnd, SkipChunkLine, ReqType
<1>4. state' \in AwayStates
  BY <1>1 DEF SkipChunkedBody, SkipChunkData, SkipChunkEnd, SkipChunkLine, BadChunk, AwayStates,
     Refused
<1>5. NoNewWriter(fds, fds')
  <2>1. UNCHANGED fds \/ BadChunk
    BY DEF SkipChunkedBody, SkipChunkData, SkipChunkEnd, SkipChunkLine
  <2> QED BY <2>1, BadChunkResponse DEF NoNewWriter
<1> QED BY <1>2, <1>3, <1>4, <1>5, AwaySafe DEF Pending

LEMMA SocketSafe ==
  ASSUME TypeOK, UploadAccounted, read_to_client_buffer_ \/ write_response_ \/ HangUp
  PROVE  UploadAccounted'
<1>1. SameFile
  BY Typed DEF SameFile, read_to_client_buffer_, write_response_, WriteHeader, WriteBody, HangUp,
     DiskType
<1>2. UNCHANGED <<req, chnkd>>
  BY DEF read_to_client_buffer_, write_response_, WriteHeader, WriteBody, HangUp
<1>3. NoNewWriter(fds, fds')
  <2>1. UNCHANGED fds \/ HangUp
    BY DEF read_to_client_buffer_, write_response_, WriteHeader, WriteBody
  <2> QED BY <2>1, CloseTyped, Typed DEF HangUp, NoNewWriter
<1>4. UNCHANGED state \/ state' \in AwayStates
  BY DEF read_to_client_buffer_, write_response_, WriteHeader, WriteBody, HangUp, ResponseDone,
     ResponseGoesOn, AwayStates
<1>5. CASE UNCHANGED state
  BY <1>1, <1>2, <1>3, <1>5, StillSafe
<1>6. CASE state' \in AwayStates
  BY <1>1, <1>2, <1>3, <1>6, AwaySafe DEF Pending
<1> QED BY <1>4, <1>5, <1>6

LEMMA UploadStepSafe ==
  ASSUME TypeOK, UploadAccounted, NEW f \in Fd, write_for_upload_(f)
  PROVE  UploadAccounted'
<1> DEFINE left == IF req.is_chnkd THEN chnkd.body ELSE req.body_buf
           r(n) == IF req.is_chnkd THEN [req EXCEPT !.body_read = @ + n]
                   ELSE [req EXCEPT !.body_buf = @ - n]
           done(n) == BodyStored(r(n))
<1>1. PICK n \in (IF left = 0 THEN {0} ELSE 1 .. left) :
        /\ req' = r(n)
        /\ chnkd' = IF req.is_chnkd THEN [chnkd EXCEPT !.body = @ - n] ELSE chnkd
        /\ disk' = [disk EXCEPT !.stored = @ + n, !.st = IF done(n) THEN "whole" ELSE @]
        /\ IF done(n) THEN UploadDone(f, r(n)) ELSE UNCHANGED <<state, fds, res, client_w>>
  BY DEF write_for_upload_
<1>2. left = Pending /\ left \in Nat
  BY Counts DEF Pending
<1>3. n \in Nat /\ n <= Pending
  BY <1>1, <1>2
<1>4. /\ req'.body_fd = f /\ req.body_fd = f /\ req'.is_chnkd = req.is_chnkd
      /\ req'.cnt_len = req.cnt_len /\ req'.body_limit = req.body_limit
      /\ req'.body_size = req.body_size /\ r(n).uri = req.uri
  BY <1>1, Typed DEF write_for_upload_, ReqType
<1>5. /\ req.is_chnkd => /\ chnkd'.body = chnkd.body - n /\ chnkd'.size = chnkd.size
                         /\ req'.body_buf = req.body_buf
      /\ ~req.is_chnkd => /\ req'.body_buf = req.body_buf - n /\ req'.body_read = req.body_read
                          /\ chnkd' = chnkd
  BY <1>1, Typed DEF ChnkdType, ReqType
<1>6. /\ disk'.stored = disk.stored + n /\ disk'.cap = disk.cap /\ disk'.carried = disk.carried
  BY <1>1, Typed DEF DiskType
<1>7. disk.stored + Pending <= disk.cap + disk.carried
  BY <1>4 DEF write_for_upload_, Writable, UploadAccounted, WriterAccounted
<1>8. Pending' = Pending - n /\ Pending \in Nat
  BY <1>2, <1>4, <1>5 DEF Pending
<1>9. WriterAccounted' /\ UploadWithinLimit'
  BY <1>3, <1>6, <1>7, <1>8, Counts DEF WriterAccounted, UploadWithinLimit
<1>10. req.body_fd # NoFd
  BY <1>4, FdAssumption
<1>11. CASE UNCHANGED <<state, fds>>
  <2>1. FreshRequest' /\ CgiHasNoUpload'
    BY <1>10, <1>11 DEF UploadAccounted, FreshRequest, CgiHasNoUpload
  <2>2. ChunksAccounted'
    <3> SUFFICES ASSUME state = "REQ_BODY_CHUNKED"
                 PROVE  ChunksAccounted'
      BY <1>11 DEF ChunksAccounted
    <3>1. /\ req.body_size \in 0 .. req.body_limit /\ req.body_limit = disk.cap
          /\ req.is_chnkd => disk.stored + chnkd.body + Ahead <= req.body_size
          /\ ~req.is_chnkd => disk.stored + req.body_buf <= disk.carried
      BY DEF UploadAccounted, ChunksAccounted
    <3>2. Ahead' = Ahead /\ Ahead \in Nat
      BY <1>5, AheadTyped DEF Ahead
    <3>3. req.is_chnkd => disk'.stored + chnkd'.body = disk.stored + chnkd.body
      BY <1>3, <1>5, <1>6, Counts
    <3>4. ~req.is_chnkd => disk'.stored + req'.body_buf = disk.stored + req.body_buf
      BY <1>3, <1>5, <1>6, Counts
    <3> QED BY <1>4, <1>6, <3>1, <3>2, <3>3, <3>4 DEF ChunksAccounted
  <2>3. LengthAccounted'
    <3> SUFFICES ASSUME state = "REQ_BODY"
                 PROVE  LengthAccounted'
      BY <1>11 DEF LengthAccounted
    <3>1. /\ ~req.is_chnkd
          /\ req.cnt_len \in req.body_read .. req.body_limit /\ req.body_limit = disk.cap
          /\ disk.stored + req.body_buf <= disk.carried + req.body_read
      BY DEF UploadAccounted, LengthAccounted
    <3>2. disk'.stored + req'.body_buf = disk.stored + req.body_buf
      BY <1>3, <1>5, <1>6, <3>1, Counts
    <3> QED BY <1>4, <1>5, <1>6, <3>1, <3>2 DEF LengthAccounted
  <2> QED BY <1>9, <2>1, <2>2, <2>3 DEF UploadAccounted
<1>12. CASE UploadDone(f, r(n))
  <2>1. state' \in {"E_BAD_REQ", "REQ_HOLD"}
    BY <1>12 DEF UploadDone
  <2>2. FreshRequest' /\ CgiHasNoUpload' /\ ChunksAccounted' /\ LengthAccounted'
    BY <2>1 DEF FreshRequest, CgiHasNoUpload, ChunksAccounted, LengthAccounted
  <2> QED BY <1>9, <2>2 DEF UploadAccounted
<1> QED BY <1>1, <1>11, <1>12

LEMMA FdEventSafe ==
  ASSUME TypeOK, UploadAccounted, NEW f \in Fd, FdEvent(f)
  PROVE  UploadAccounted'
<1>1. CASE write_for_upload_(f)
  BY <1>1, UploadStepSafe
<1>2. ASSUME NEW n \in Nat, n <= fds[f].n
      PROVE  NoNewWriter(fds, [fds EXCEPT ![f].n = @ - n])
  BY DrainTyped, FdCount, Typed, <1>2
<1>3. NoNewWriter(fds, CloseFds(fds, {f})) /\ NoNewWriter(fds, fds)
  BY CloseTyped, Typed DEF NoNewWriter
<1>4. CASE read_to_res_buffer_(f) \/ read_to_cgi_buffer_(f) \/ PipeEof(f) \/ StdinEof(f)
  <2>1. UNCHANGED <<state, req, chnkd>> /\ SameFile
    BY <1>4 DEF read_to_res_buffer_, read_to_cgi_buffer_, PipeEof, StdinEof, SameFile
  <2>2. \/ \E n \in Nat : n <= fds[f].n /\ fds' = [fds EXCEPT ![f].n = @ - n]
        \/ fds' = CloseFds(fds, {f})
    <3>1. CASE read_to_res_buffer_(f)
      <4>1. PICK n \in 1 .. fds[f].n :
              fds' = CloseFds(fds, {f}) \/ fds' = [fds EXCEPT ![f].n = @ - n]
        BY <3>1, Zenon DEF read_to_res_buffer_
      <4>2. n \in Nat /\ n <= fds[f].n
        BY FdCount
      <4> QED BY <4>1, <4>2
    <3>2. CASE read_to_cgi_buffer_(f)
      <4>1. PICK n \in 1 .. fds[f].n : fds' = [fds EXCEPT ![f].n = @ - n]
        BY <3>2, Zenon DEF read_to_cgi_buffer_
      <4>2. n \in Nat /\ n <= fds[f].n
        BY FdCount
      <4> QED BY <4>1, <4>2
    <3>3. CASE PipeEof(f)
      <4>1. PICK n \in (IF fds[f].n = 0 THEN {0} ELSE 1 .. fds[f].n) :
              fds' = CloseFds(fds, {f}) \/ fds' = [fds EXCEPT ![f].n = @ - n]
        BY <3>3, Zenon DEF PipeEof
      <4>2. n \in Nat /\ n <= fds[f].n
        BY FdCount
      <4> QED BY <4>1, <4>2
    <3>4. CASE StdinEof(f)
      BY <3>4 DEF StdinEof
    <3> QED BY <1>4, <3>1, <3>2, <3>3, <3>4
  <2> QED BY <1>2, <1>3, <2>1, <2>2, StillSafe
<1>5. CASE write_to_cgi_(f)
  <2>1. UNCHANGED <<req, chnkd>> /\ SameFile
    BY <1>5 DEF write_to_cgi_, SameFile
  <2>2. \/ UNCHANGED <<fds, state>>
        \/ fds' = CloseFds(fds, {f}) /\ state' = "REQ_HOLD"
    BY <1>5 DEF write_to_cgi_
  <2> QED BY <1>3, <2>1, <2>2, StillSafe, AwaySafe DEF AwayStates, Refused, Pending
<1> QED BY <1>1, <1>4, <1>5 DEF FdEvent

LEMMA ExitSafe ==
  ASSUME TypeOK, UploadAccounted, proc_event_wait_pid
  PROVE  UploadAccounted'
<1>1. /\ req'.body_fd = req.body_fd /\ state' \in Refused /\ NoNewWriter(fds, fds')
      /\ req'.is_chnkd = req.is_chnkd /\ req'.body_buf = req.body_buf
  BY Typed, ErrorResponse DEF proc_event_wait_pid
<1> QED BY <1>1, AwaySafe DEF proc_event_wait_pid, SameFile, Pending, AwayStates

-----------------------------------------------------------------------------
(* The accounts of an upload balance in every state: what has been counted *)
(* against client_max_body_size, what is buffered, what a chunk has still  *)
(* to bring and what is stored; and while a file is open for writing what  *)
(* is stored and what is buffered together stay within the limit it was    *)
(* opened with and the bytes that were in _body_buf then.                  *)
THEOREM UploadBalances == Spec => []UploadAccounted
<1>1. Init => UploadAccounted
  BY InitSafe
<1>2. TypeOK /\ UploadAccounted /\ [Next]_vars => UploadAccounted'
  <2> SUFFICES ASSUME TypeOK, UploadAccounted, [Next]_vars PROVE UploadAccounted'
    OBVIOUS
  <2>1. CASE req_res_controller_
    BY <2>1, RequestSafe, PostPutSafe, BodySafe, ChunkStepSafe, ChunkLineSafe, SkipChunkSafe
       DEF req_res_controller_, Route, ChunkedBody
  <2>2. CASE read_to_client_buffer_ \/ write_response_ \/ HangUp
    BY <2>2, SocketSafe
  <2>3. CASE \E f \in Fd : FdEvent(f)
    BY <2>3, FdEventSafe
  <2>4. CASE proc_event_wait_pid
    BY <2>4, ExitSafe
  <2>5. CASE UNCHANGED vars
    BY <2>5, StillSafe DEF vars, SameFile, NoNewWriter
  <2> QED BY <2>1, <2>2, <2>3, <2>4, <2>5 DEF Next, Handled
<1> QED BY <1>1, <1>2, TypeCorrect, PTL DEF Spec

\* Whatever the peer sends and however reads, writes, errors and hang-ups
\* interleave, write_for_upload_ never stores more than the limit of the
\* location and what an earlier upload had left in _body_buf.
THEOREM UploadSafe == Spec => []UploadWithinLimit
<1>1. UploadAccounted => UploadWithinLimit
  BY DEF UploadAccounted
<1> QED BY <1>1, UploadBalances, PTL

\* state_req_body_ never asks _buf for more than the rest of the message: its
\* unsigned _cnt_len - _body_read does not wrap, and the length is within the
\* limit of the location.
THEOREM LengthSafe == Spec => []BodyWithinLength
<1>1. TypeOK /\ UploadAccounted => BodyWithinLength
  BY Counts DEF UploadAccounted, LengthAccounted, BodyWithinLength, SizeType, Unset
<1> QED BY <1>1, UploadBalances, TypeCorrect, PTL

-----------------------------------------------------------------------------
(* Orderly conversations: what a request holds and what it has answered.   *)

AllFree(tbl)  == \A f \in Fd : tbl[f].kind = "free"
Alone(tbl, f) == \A g \in Fd : g # f => tbl[g].kind = "free"
Open(f, kind) == f \in Fd /\ fds[f].kind = kind
NoWriter(tbl, f) == "W" \notin tbl[f].ev

Start == {"REQ_LINE_PARSING", "REQ_HEADER_PARSING"}
Fresh == state \in Start \cup {"REQ_CLEAR"}

\* Every descriptor is in the field for its kind, and what has a page or an
\* upload has nothing else.
PageOwned(f) ==
  fds[f].kind = "page" => f = res.body_fd /\ ~req.is_cgi /\ NoWriter(fds, f) /\ Alone(fds, f)
UploadOwned(f) ==
  fds[f].kind = "upload" => f = req.body_fd /\ ~req.is_cgi /\ Alone(fds, f)
                              /\ req.mthd \in {"POST", "PUT"}
PipeOwned(f) ==
  fds[f].kind = "pipe" => f = cgi.rfd /\ req.is_cgi /\ NoWriter(fds, f) /\ GoodScript(fds[f])
StdinOwned(f) ==
  fds[f].kind = "stdin" =>
    /\ f = cgi.wfd /\ req.is_cgi /\ req.body_fd = NoFd /\ Open(cgi.rfd, "pipe")
    /\ fds[cgi.rfd].peer = f /\ fds[f].peer = cgi.rfd /\ fds[f].run.reads
Owners == \A f \in Fd : PageOwned(f) /\ UploadOwned(f) /\ PipeOwned(f) /\ StdinOwned(f)

\* While a response is written, and when it is, everything is closed.
Quiet ==
  /\ client_w \/ res.write_finished \/ Fresh => AllFree(fds)
  /\ res.write_finished \/ Fresh => ~client_w

\* A body is read for as long as what takes it is open.
Taken ==
  /\ state \in {"REQ_BODY", "REQ_BODY_CHUNKED"} => Open(req.body_fd, "upload")
  /\ state \in {"REQ_CGI_BODY", "REQ_CGI_BODY_CHUNKED"} => Open(cgi.wfd, "stdin")
  /\ disk.st = "partial" => Open(req.body_fd, "upload")
  /\ req.body_buf # 0 =>
       Open(req.body_fd, "upload") /\ ~req.is_chnkd /\ state # "REQ_BODY_CHUNKED"

\* Until it is answered, nothing of a response is there.
Unanswered ==
  state \in Start \/ (\E f \in Fd : fds[f].kind \in {"upload", "pipe"}) => res = NewRes

\* One header has been made, for as many bytes as the body will have.
Headed(a) ==
  /\ ~a.header_sent /\ ~a.write_finished /\ a.body_write = 0
  /\ Len(a.hdr) = 1 /\ a.hdr[1].got = 0
\* left: what is there of the body.
Complete(r, a, left) ==
  IF r.mthd = "HEAD" \/ a.body_size = 0 THEN a.hdr[1].len = 0
  ELSE a.hdr[1].len = a.body_size /\ left = a.body_size

PageRead ==
  \A f \in Fd : fds[f].kind = "page" =>
    /\ Headed(res) /\ res.buf = res.body_read
    /\ res.hdr[1].len = res.body_size /\ req.mthd # "HEAD"

Left == IF req.is_cgi THEN cgi.from ELSE res.buf
Whole(n) == \A i \in 1 .. n : wire[i].got = wire[i].len

Writing ==
  /\ client_w /\ ~res.header_sent => Headed(res) /\ Complete(req, res, Left)
  /\ client_w /\ res.header_sent =>
       /\ wire # <<>> /\ Whole(Len(wire) - 1)
       /\ wire[Len(wire)].got = res.body_write /\ wire[Len(wire)].len = res.body_size
       /\ res.body_write + Left = res.body_size
  /\ ~(client_w /\ res.header_sent) => Whole(Len(wire))

Kept == Owners /\ Quiet /\ Taken /\ failing = 0
Said == Unanswered /\ PageRead /\ Writing

\* What a disconnect leaves.
Done ==
  /\ AllFree(fds) /\ disk.st # "partial" /\ ~client_w /\ failing = 0
  /\ Fresh => req.body_buf = 0

WellFramed ==
  \A i \in 1 .. Len(wire) : /\ wire[i].got <= wire[i].len
                            /\ i < Len(wire) => wire[i].got = wire[i].len

OInv == IF pc = "gone" THEN Done /\ WellFramed ELSE Kept /\ Said

-----------------------------------------------------------------------------
(* The response to a request that holds nothing.                           *)

\* It is ready to be written, or its page is open.
Ready(r, o, tbl) ==
  o.w /\ o.fds = tbl /\ o.res.body_fd = NoFd /\ Complete(r, o.res, o.res.buf)
OnPage(r, o) ==
  /\ ~o.w /\ o.res.body_fd \in Fd /\ o.fds[o.res.body_fd].kind = "page"
  /\ NoWriter(o.fds, o.res.body_fd) /\ Alone(o.fds, o.res.body_fd)
  /\ o.res.buf = o.res.body_read /\ o.res.hdr[1].len = o.res.body_size /\ r.mthd # "HEAD"
Answer(r, o, tbl) == Headed(o.res) /\ (Ready(r, o, tbl) \/ OnPage(r, o))

LEMMA OneHeader ==
  ASSUME NEW r, NEW status, NEW len, r.mthd = "HEAD" \/ len \in Nat
  PROVE  /\ NewRes.hdr \o HeaderBlock(r, status, len) = HeaderBlock(r, status, len)
         /\ Len(HeaderBlock(r, status, len)) = 1
         /\ HeaderBlock(r, status, len)[1].got = 0
         /\ HeaderBlock(r, status, len)[1].len = IF r.mthd = "HEAD" THEN 0 ELSE len
BY DEF HeaderBlock, NewRes

LEMMA PageAlone ==
  ASSUME NEW tbl \in TableType, AllFree(tbl), NEW f \in Fd, NEW n
  PROVE  LET t == [tbl EXCEPT ![f] = Page(n)]
         IN  t[f].kind = "page" /\ NoWriter(t, f) /\ Alone(t, f)
BY DEF TableType, AllFree, Alone, NoWriter, Page, FreeFd

LEMMA ErrorAnswer ==
  ASSUME NEW code, NEW r, NEW tbl \in TableType, AllFree(tbl),
         NEW o \in make_error_response_(code, r, NewRes, tbl)
  PROVE  Answer(r, o, tbl)
<1>1. GenSize \in Nat /\ (PageSize # NoPage => PageSize \in Nat)
  BY SizesAssumption
<1>2. CASE PageSize = NoPage \/ FreeIn(tbl) = {}
  <2> DEFINE h == HeaderBlock(r, code, GenSize)
             b == [NewRes EXCEPT !.hdr = @ \o h, !.body_size = GenSize, !.buf = @ + Generated(r)]
  <2>1. o = [res |-> b, fds |-> tbl, w |-> TRUE]
    BY <1>2 DEF make_error_response_
  <2>2. /\ NewRes.hdr \o h = h /\ Len(h) = 1 /\ h[1].got = 0
        /\ h[1].len = IF r.mthd = "HEAD" THEN 0 ELSE GenSize
    BY <1>1, OneHeader
  <2> HIDE DEF h
  <2>3. /\ b.hdr = h /\ b.body_size = GenSize /\ b.buf = Generated(r) /\ b.body_fd = NoFd
        /\ ~b.header_sent /\ ~b.write_finished /\ b.body_write = 0
    BY <1>1, <2>2 DEF NewRes, Generated
  <2> HIDE DEF b
  <2> QED BY <1>1, <2>1, <2>2, <2>3 DEF Answer, Ready, Headed, Complete, Generated
<1>3. CASE ~(PageSize = NoPage \/ FreeIn(tbl) = {})
  <2> DEFINE h == HeaderBlock(r, code, PageSize)
             b == [NewRes EXCEPT !.hdr = @ \o h, !.body_size = PageSize]
  <2>1. /\ NewRes.hdr \o h = h /\ Len(h) = 1 /\ h[1].got = 0
        /\ h[1].len = IF r.mthd = "HEAD" THEN 0 ELSE PageSize
    BY <1>1, <1>3, OneHeader
  <2> HIDE DEF h
  <2>2. /\ b.hdr = h /\ b.body_size = PageSize /\ b.buf = 0 /\ b.body_read = 0
        /\ ~b.header_sent /\ ~b.write_finished /\ b.body_write = 0
        /\ DOMAIN b = DOMAIN NewRes
        /\ \A f : LET c == [b EXCEPT !.body_fd = f]
                  IN  /\ c.body_fd = f /\ c.hdr = h /\ c.body_size = PageSize /\ c.buf = 0
                      /\ c.body_read = 0 /\ ~c.header_sent /\ ~c.write_finished
                      /\ c.body_write = 0
    BY <2>1 DEF NewRes
  <2>3. CASE r.mthd = "HEAD"
    <3>1. o = [res |-> [b EXCEPT !.body_fd = NoFd], fds |-> tbl, w |-> TRUE]
      BY <1>3, <2>3 DEF make_error_response_, h
    <3> HIDE DEF b
    <3> QED BY <2>1, <2>2, <2>3, <3>1 DEF Answer, Ready, Headed, Complete
  <2>4. CASE r.mthd # "HEAD"
    <3>1. PICK f \in FreeIn(tbl) :
            o = [res |-> [b EXCEPT !.body_fd = f], fds |-> [tbl EXCEPT ![f] = Page(PageSize)],
                 w |-> FALSE]
      BY <1>3, <2>4 DEF make_error_response_, h
    <3> HIDE DEF b
    <3>2. f \in Fd
      BY DEF FreeIn
    <3>3. o.fds[f].kind = "page" /\ NoWriter(o.fds, f) /\ Alone(o.fds, f)
      BY <3>1, <3>2, PageAlone
    <3>4. /\ o.res.body_fd = f /\ o.res.hdr = h /\ o.res.body_size = PageSize /\ o.res.buf = 0
          /\ o.res.body_read = 0 /\ ~o.res.header_sent /\ ~o.res.write_finished
          /\ o.res.body_write = 0 /\ ~o.w
      BY <2>2, <3>1
    <3> QED BY <2>1, <2>4, <3>2, <3>3, <3>4 DEF Answer, OnPage, Headed
  <2> QED BY <2>3, <2>4
<1> QED BY <1>2, <1>3

LEMMA HeaderAnswer ==
  ASSUME NEW r, r.uri \in Targets, NEW tbl \in TableType, AllFree(tbl),
         NEW o \in make_response_header_(r, NewRes, tbl)
  PROVE  Answer(r, o, tbl) /\ (r.mthd \notin {"GET", "HEAD"} => Ready(r, o, tbl))
<1> DEFINE loc == Location[r.uri]
           Plain(status, len, body, buf) ==
             {[res |-> [NewRes EXCEPT !.hdr = @ \o HeaderBlock(r, status, len), !.body_size = body,
                                      !.buf = @ + buf],
               fds |-> tbl, w |-> NewRes.body_fd = NoFd]}
<1>1. loc.size \in Nat
  BY LocationTyped
<1>2. ASSUME NEW status, NEW len \in Nat, NEW body \in Nat, NEW buf \in Nat,
             r.mthd = "HEAD" \/ (body = len /\ buf = len), r.mthd = "HEAD" => body = 0,
             o \in Plain(status, len, body, buf)
      PROVE  Answer(r, o, tbl) /\ Ready(r, o, tbl)
  <2> DEFINE h == HeaderBlock(r, status, len)
             b == [NewRes EXCEPT !.hdr = @ \o h, !.body_size = body, !.buf = @ + buf]
  <2>1. o = [res |-> b, fds |-> tbl, w |-> TRUE]
    BY <1>2 DEF NewRes
  <2>2. /\ NewRes.hdr \o h = h /\ Len(h) = 1 /\ h[1].got = 0
        /\ h[1].len = IF r.mthd = "HEAD" THEN 0 ELSE len
    BY OneHeader
  <2> HIDE DEF h
  <2>3. /\ b.hdr = h /\ b.body_size = body /\ b.buf = buf /\ b.body_fd = NoFd
        /\ ~b.header_sent /\ ~b.write_finished /\ b.body_write = 0
    BY <2>2 DEF NewRes
  <2> HIDE DEF b
  <2> QED BY <1>2, <2>1, <2>2, <2>3 DEF Answer, Ready, Headed, Complete
<1>3. CASE loc.redirect
  <2> DEFINE h == HeaderBlock(r, 301, 0)
             b == [NewRes EXCEPT !.hdr = @ \o h]
  <2>1. o = [res |-> b, fds |-> tbl, w |-> TRUE]
    BY <1>3 DEF make_response_header_
  <2>2. NewRes.hdr \o h = h /\ Len(h) = 1 /\ h[1].got = 0 /\ h[1].len = 0
    BY OneHeader
  <2> HIDE DEF h
  <2>3. /\ b.hdr = h /\ b.body_size = 0 /\ b.body_fd = NoFd
        /\ ~b.header_sent /\ ~b.write_finished /\ b.body_write = 0
    BY <2>2 DEF NewRes
  <2> HIDE DEF b
  <2> QED BY <2>1, <2>2, <2>3 DEF Answer, Ready, Headed, Complete
<1>4. CASE ~loc.redirect /\ r.mthd \notin {"GET", "HEAD"}
  <2>1. o \in Plain(200, 0, 0, 0)
    BY <1>4 DEF make_response_header_, NewRes
  <2> HIDE DEF Plain
  <2> QED BY <1>2, <1>4, <2>1
<1>5. CASE ~loc.redirect /\ r.mthd \in {"GET", "HEAD"} /\ loc.kind = "denied"
  <2>1. o \in make_error_response_(403, r, NewRes, tbl)
    BY <1>5 DEF make_response_header_
  <2> QED BY <1>5, <2>1, ErrorAnswer
<1> DEFINE File(m) == /\ ~loc.redirect /\ r.mthd = m
                      /\ loc.kind = "file" /\ FreeIn(tbl) # {}
<1>6. CASE File("HEAD")
  <2>0. PICK m \in Nat : m = loc.size
    BY <1>1
  <2> DEFINE h == HeaderBlock(r, 200, m)
             b == [NewRes EXCEPT !.hdr = @ \o h, !.body_size = 0, !.body_fd = NoFd]
  <2>1. o = [res |-> b, fds |-> tbl, w |-> TRUE]
    BY <1>6, <2>0 DEF make_response_header_
  <2>2. NewRes.hdr \o h = h /\ Len(h) = 1 /\ h[1].got = 0 /\ h[1].len = 0
    <3>1. r.mthd = "HEAD"
      BY <1>6
    <3> QED BY <3>1, OneHeader
  <2> HIDE DEF h
  <2>3. /\ b.hdr = h /\ b.body_size = 0 /\ b.body_fd = NoFd
        /\ ~b.header_sent /\ ~b.write_finished /\ b.body_write = 0
    BY <2>2 DEF NewRes
  <2> HIDE DEF b
  <2> QED BY <1>6, <2>1, <2>2, <2>3 DEF Answer, Ready, Headed, Complete
<1>7. CASE File("GET")
  <2>0. PICK m \in Nat : m = loc.size
    BY <1>1
  <2> DEFINE h == HeaderBlock(r, 200, m)
             b(f) == [NewRes EXCEPT !.hdr = @ \o h, !.body_size = m, !.body_fd = f]
  <2>1. PICK f \in FreeIn(tbl) :
          o = [res |-> b(f), fds |-> [tbl EXCEPT ![f] = Page(loc.size)], w |-> FALSE]
    BY <1>7, <2>0 DEF make_response_header_
  <2>2. f \in Fd
    BY DEF FreeIn
  <2>3. NewRes.hdr \o h = h /\ Len(h) = 1 /\ h[1].got = 0 /\ h[1].len = m
    <3>1. r.mthd # "HEAD"
      BY <1>7
    <3> QED BY <3>1, OneHeader
  <2>4. o.fds[f].kind = "page" /\ NoWriter(o.fds, f) /\ Alone(o.fds, f)
    BY <2>1, <2>2, PageAlone
  <2> HIDE DEF h
  <2>5. /\ b(f).hdr = h /\ b(f).body_size = m /\ b(f).body_fd = f
        /\ ~b(f).header_sent /\ ~b(f).write_finished /\ b(f).body_write = 0
        /\ b(f).buf = 0 /\ b(f).body_read = 0
    BY <2>3 DEF NewRes
  <2>6. o.res = b(f) /\ ~o.w
    BY <2>1
  <2> HIDE DEF b
  <2> QED BY <1>7, <2>2, <2>3, <2>4, <2>5, <2>6 DEF Answer, OnPage, Headed
<1>8. CASE ~(loc.redirect \/ r.mthd \notin {"GET", "HEAD"} \/ loc.kind = "denied"
             \/ File("HEAD") \/ File("GET"))
  <2>1. CASE ~loc.autoindex
    <3>1. o \in make_error_response_(404, r, NewRes, tbl)
      BY <1>8, <2>1 DEF make_response_header_
    <3> QED BY <1>8, <3>1, ErrorAnswer
  <2>2. CASE loc.autoindex /\ loc.kind # "dir"
    <3>1. o \in make_error_response_(403, r, NewRes, tbl)
      BY <1>8, <2>2 DEF make_response_header_
    <3> QED BY <1>8, <3>1, ErrorAnswer
  <2>3. CASE loc.autoindex /\ loc.kind = "dir"
    <3>1. o \in Plain(200, loc.size, IF r.mthd = "HEAD" THEN 0 ELSE loc.size, loc.size)
      BY <1>8, <2>3 DEF make_response_header_
    <3> DEFINE body == IF r.mthd = "HEAD" THEN 0 ELSE loc.size
    <3>2. body \in Nat /\ (r.mthd = "HEAD" => body = 0) /\ (r.mthd # "HEAD" => body = loc.size)
      BY <1>1
    <3>3. o \in Plain(200, loc.size, body, loc.size)
      BY <3>1
    <3> HIDE DEF Plain, body, loc
    <3> QED BY <1>1, <1>2, <1>8, <3>2, <3>3
  <2> QED BY <2>1, <2>2, <2>3
<1> QED BY <1>3, <1>4, <1>5, <1>6, <1>7, <1>8

LEMMA WatchKeeps ==
  ASSUME NEW tbl \in TableType, NEW f, NEW e \in {"R", "W"}
  PROVE  LET t == Watch(tbl, f, e)
         IN  /\ t \in TableType
             /\ \A g \in Fd : /\ t[g].kind = tbl[g].kind /\ t[g].peer = tbl[g].peer
                              /\ t[g].run = tbl[g].run /\ t[g].n = tbl[g].n
                              /\ e = "R" \/ g # f => (NoWriter(tbl, g) => NoWriter(t, g))
<1>1. CASE f \in Fd \ FreeIn(tbl)
  <2>1. Watch(tbl, f, e) = [tbl EXCEPT ![f].ev = @ \cup {e}]
    BY <1>1 DEF Watch
  <2>2. tbl[f] \in FdType
    BY <1>1 DEF TableType
  <2> DEFINE d == [tbl[f] EXCEPT !.ev = @ \cup {e}]
  <2>3. /\ d.kind = tbl[f].kind /\ d.peer = tbl[f].peer /\ d.run = tbl[f].run
        /\ d.n = tbl[f].n /\ d.ev = tbl[f].ev \cup {e}
    BY <2>2 DEF FdType
  <2>4. Watch(tbl, f, e) = [tbl EXCEPT ![f] = d]
    BY <2>1
  <2> HIDE DEF d
  <2>5. \A g \in Fd : Watch(tbl, f, e)[g] = IF g = f THEN d ELSE tbl[g]
    BY <2>4 DEF TableType
  <2> QED BY <1>1, <2>3, <2>5, WatchTyped DEF NoWriter
<1>2. CASE f \notin Fd \ FreeIn(tbl)
  BY <1>2 DEF Watch
<1> QED BY <1>1, <1>2

LEMMA Closed ==
  ASSUME NEW tbl \in TableType, NEW gone
  PROVE  LET t == CloseFds(tbl, gone)
         IN  \A g \in Fd : IF g \in gone THEN t[g] = FreeFd /\ t[g].kind = "free" ELSE t[g] = tbl[g]
BY DEF CloseFds, FreeFd

-----------------------------------------------------------------------------
(* Steps that neither open nor close, nor make or send a response.         *)

\* Only what is read off a descriptor, and who watches it, may change.
SameFds(old, new) ==
  \A f \in Fd : /\ new[f].kind = old[f].kind /\ new[f].peer = old[f].peer
                /\ new[f].run = old[f].run
                /\ old[f].kind \in {"page", "pipe"} => (NoWriter(old, f) => NoWriter(new, f))

SameRequest ==
  /\ req'.is_cgi = req.is_cgi /\ req'.body_fd = req.body_fd /\ req'.is_chnkd = req.is_chnkd
  /\ req'.mthd = req.mthd \/ Fresh
  /\ \/ req'.body_buf = req.body_buf
     \/ Open(req.body_fd, "upload") /\ ~req.is_chnkd /\ state # "REQ_BODY_CHUNKED"
  /\ disk'.st = disk.st /\ failing' = failing

SameResponse ==
  /\ res' = res /\ client_w' = client_w /\ wire' = wire
  /\ cgi'.rfd = cgi.rfd /\ cgi'.wfd = cgi.wfd
  /\ cgi'.from = cgi.from \/ Open(cgi.rfd, "pipe")

GoesOn ==
  \/ state' = state \/ (state \in Start /\ state' \in Start) \/ state' \in {"REQ_HOLD", "E_BAD_REQ"}
  \/ state' = "REQ_CLEAR" /\ res.write_finished

LEMMA NothingHappens ==
  ASSUME TypeOK, Kept, Said, SameFds(fds, fds'), SameRequest, SameResponse, GoesOn
  PROVE  Kept' /\ Said'
<1>1. /\ \A f \in Fd : fds'[f].kind = fds[f].kind
      /\ \A f : Open(f, "upload") => Open(f, "upload")'
      /\ \A f : Open(f, "stdin") => Open(f, "stdin")'
      /\ \A f : Open(f, "pipe") => Open(f, "pipe")'
  BY DEF SameFds, Open
<1>2. AllFree(fds) => AllFree(fds')
  BY <1>1 DEF AllFree
<1>3. \A f \in Fd : Alone(fds, f) => Alone(fds', f)
  BY <1>1 DEF Alone
<1>4. Fresh' => Fresh \/ res.write_finished
  BY DEF GoesOn, Fresh, Start
<1>5. Owners'
  <2> SUFFICES ASSUME NEW f \in Fd
               PROVE  PageOwned(f)' /\ UploadOwned(f)' /\ PipeOwned(f)' /\ StdinOwned(f)'
    BY DEF Owners
  <2>1. PageOwned(f) /\ UploadOwned(f) /\ PipeOwned(f) /\ StdinOwned(f)
    BY DEF Kept, Owners
  <2>2. PageOwned(f)'
    BY <1>1, <1>3, <2>1 DEF PageOwned, SameFds, SameRequest, SameResponse
  <2>3. UploadOwned(f)'
    <3> SUFFICES ASSUME fds'[f].kind = "upload" PROVE UploadOwned(f)'
      BY DEF UploadOwned
    <3>1. fds[f].kind = "upload" /\ ~Fresh
      BY <1>1 DEF Kept, Quiet, AllFree
    <3> QED BY <1>3, <2>1, <3>1 DEF UploadOwned, SameRequest
  <2>4. PipeOwned(f)'
    BY <1>1, <2>1 DEF PipeOwned, SameFds, SameRequest, SameResponse, GoodScript
  <2>5. StdinOwned(f)'
    <3> SUFFICES ASSUME fds'[f].kind = "stdin" PROVE StdinOwned(f)'
      BY DEF StdinOwned
    <3>1. fds[f].kind = "stdin"
      BY <1>1
    <3>2. cgi'.rfd = cgi.rfd /\ cgi.rfd \in Fd
      BY <2>1, <3>1 DEF StdinOwned, Open, SameResponse
    <3> QED BY <2>1, <3>1, <3>2 DEF StdinOwned, Open, SameFds, SameRequest, SameResponse
  <2> QED BY <2>2, <2>3, <2>4, <2>5
<1>6. Quiet'
  BY <1>2, <1>4 DEF Quiet, Kept, SameResponse
<1>7. Taken'
  <2>1. state' \in {"REQ_BODY", "REQ_BODY_CHUNKED", "REQ_CGI_BODY", "REQ_CGI_BODY_CHUNKED"}
          => state' = state
    BY DEF GoesOn, Start
  <2>2. Taken
    BY DEF Kept
  <2>3. /\ state' \in {"REQ_BODY", "REQ_BODY_CHUNKED"} => Open(req.body_fd, "upload")'
        /\ state' \in {"REQ_CGI_BODY", "REQ_CGI_BODY_CHUNKED"} => Open(cgi.wfd, "stdin")'
    BY <1>1, <2>1, <2>2 DEF Taken, SameRequest, SameResponse, Open
  <2>4. disk'.st = "partial" => Open(req.body_fd, "upload")'
    BY <1>1, <2>2 DEF Taken, SameRequest, Open
  <2>5. req'.body_buf # 0 =>
          Open(req.body_fd, "upload")' /\ ~req'.is_chnkd /\ state' # "REQ_BODY_CHUNKED"
    BY <1>1, <2>2 DEF Taken, SameRequest, Open, GoesOn, Start
  <2> QED BY <2>3, <2>4, <2>5 DEF Taken
<1>8. Unanswered'
  <2>1. state' \in Start => state \in Start
    BY DEF GoesOn, Start
  <2> QED BY <1>1, <2>1 DEF Unanswered, Said, SameResponse
<1>9. PageRead'
  <2> SUFFICES ASSUME NEW f \in Fd, fds'[f].kind = "page"
               PROVE  /\ Headed(res') /\ res'.buf = res'.body_read
                      /\ res'.hdr[1].len = res'.body_size /\ req'.mthd # "HEAD"
    BY DEF PageRead
  <2>1. fds[f].kind = "page" /\ ~Fresh
    BY <1>1 DEF Kept, Quiet, AllFree
  <2> QED BY <2>1 DEF PageRead, Said, SameRequest, SameResponse
<1>10. Writing'
  <2>1. client_w => ~Fresh /\ AllFree(fds)
    BY DEF Kept, Quiet
  <2>2. client_w => req'.mthd = req.mthd /\ Left' = Left
    BY <2>1 DEF SameRequest, SameResponse, Left, AllFree, Open
  <2>3. \A n : Whole(n)' = Whole(n)
    BY DEF Whole, SameResponse
  <2>4. Complete(req, res, Left) /\ client_w => Complete(req', res', Left')
    BY <2>2 DEF Complete, SameResponse
  <2> QED BY <2>2, <2>3, <2>4 DEF Writing, Said, SameResponse
<1> QED BY <1>5, <1>6, <1>7, <1>8, <1>9, <1>10 DEF Kept, Said, SameRequest

-----------------------------------------------------------------------------
(* The controller answers.                                                 *)

LEMMA AnswerMade ==
  ASSUME TypeOK, NEW r, NEW tbl \in TableType, NEW o, Answer(r, o, tbl), o.fds \in TableType,
         AllFree(tbl),
         fds' = o.fds \/ fds' = Watch(o.fds, o.res.body_fd, "R"),
         res' = o.res, client_w' = o.w, wire' = wire, Whole(Len(wire)), failing' = 0,
         req'.mthd = r.mthd, ~req'.is_cgi, req'.body_buf = 0, disk'.st # "partial",
         state' \in Refused \cup {"E_BAD_REQ"}
  PROVE  Kept' /\ Said'
<1>1. \A f \in Fd : fds'[f].kind = o.fds[f].kind /\ (NoWriter(o.fds, f) => NoWriter(fds', f))
  BY WatchKeeps
<1>2. ~Fresh' /\ ~(state' \in Start)
      /\ state' \notin {"REQ_BODY", "REQ_BODY_CHUNKED", "REQ_CGI_BODY", "REQ_CGI_BODY_CHUNKED"}
  BY DEF Refused, Fresh, Start
<1>3. Taken'
  BY <1>2 DEF Taken
<1>4. \A n : Whole(n)' = Whole(n)
  BY DEF Whole
<1>5. Headed(res') /\ ~res'.write_finished /\ ~res'.header_sent
  BY DEF Answer, Headed
<1>6. CASE Ready(r, o, tbl)
  <2>1. AllFree(fds')
    BY <1>1, <1>6 DEF Ready, AllFree
  <2>2. Owners' /\ Unanswered' /\ PageRead'
    BY <1>2, <2>1 DEF Owners, PageOwned, UploadOwned, PipeOwned, StdinOwned, AllFree,
                      Unanswered, PageRead
  <2>3. Quiet'
    BY <1>2, <1>5, <2>1 DEF Quiet
  <2>4. Complete(req', res', Left')
    BY <1>6 DEF Ready, Complete, Left
  <2>5. Writing'
    BY <1>4, <1>5, <2>4 DEF Writing
  <2> QED BY <1>3, <2>2, <2>3, <2>5 DEF Kept, Said
<1>7. CASE OnPage(r, o)
  <2> DEFINE p == o.res.body_fd
  <2>1. /\ p \in Fd /\ fds'[p].kind = "page" /\ NoWriter(fds', p) /\ Alone(fds', p)
        /\ ~client_w' /\ res'.body_fd = p
    BY <1>1, <1>7 DEF OnPage, Alone
  <2>2. \A f \in Fd : f # p => fds'[f].kind = "free"
    BY <2>1 DEF Alone
  <2>3. Owners'
    BY <2>1, <2>2 DEF Owners, PageOwned, UploadOwned, PipeOwned, StdinOwned
  <2>4. Unanswered' /\ Quiet'
    BY <1>2, <1>5, <2>1, <2>2 DEF Unanswered, Quiet
  <2>5. PageRead'
    BY <1>5, <1>7 DEF PageRead, OnPage
  <2>6. Writing'
    BY <1>4, <2>1 DEF Writing
  <2> QED BY <1>3, <2>3, <2>4, <2>5, <2>6 DEF Kept, Said
<1> QED BY <1>6, <1>7 DEF Answer

-----------------------------------------------------------------------------
(* The controller reads on.                                                *)

LEMMA FdsUntouched == ASSUME fds' = fds PROVE SameFds(fds, fds')
BY DEF SameFds

\* A knote on what takes the body of the request.
LEMMA TakerWatched ==
  ASSUME TypeOK, NEW f, fds' = Watch(fds, f, "W"),
         Open(f, "upload") \/ Open(f, "stdin")
  PROVE  SameFds(fds, fds')
<1>1. \A g \in Fd : fds[g].kind \in {"page", "pipe"} => g # f
  BY DEF Open
<1>2. \A g \in Fd : /\ fds'[g].kind = fds[g].kind /\ fds'[g].peer = fds[g].peer
                    /\ fds'[g].run = fds[g].run
                    /\ g # f => (NoWriter(fds, g) => NoWriter(fds', g))
  BY WatchKeeps DEF TypeOK
<1> QED BY <1>1, <1>2 DEF SameFds

LEMMA HeaderSteps ==
  ASSUME TypeOK, Kept, Said,
         ReadMore \/ header_field_parser_ \/ SkipBody \/ HoldBody
  PROVE  Kept' /\ Said'
<1>1. SameFds(fds, fds') /\ SameResponse
  <2>1. fds' = fds /\ SameResponse
    BY DEF ReadMore, header_field_parser_, SkipBody, HoldBody, SameResponse
  <2> QED BY <2>1, FdsUntouched
<1>2. SameRequest /\ GoesOn
  <2>1. CASE header_field_parser_
    BY <2>1 DEF header_field_parser_, SameRequest, GoesOn, TypeOK, ReqType
  <2>2. CASE ReadMore \/ SkipBody \/ HoldBody
    BY <2>2 DEF ReadMore, SkipBody, HoldBody, SameRequest, GoesOn
  <2> QED BY <2>1, <2>2
<1> QED BY <1>1, <1>2, NothingHappens

LEMMA RequestLineRead ==
  ASSUME TypeOK, Kept, Said, request_line_parser_, line.text = Blank \/ line.text.t = "req"
  PROVE  Kept' /\ Said'
<1>1. /\ fds' = fds /\ res' = res /\ client_w' = client_w /\ wire' = wire /\ cgi' = cgi
      /\ disk' = disk /\ failing' = failing
      /\ \/ req' = req /\ state' = state
         \/ /\ req' = [req EXCEPT !.mthd = line.text.m, !.uri = line.text.u]
            /\ state' = "REQ_HEADER_PARSING"
  BY DEF request_line_parser_, Blank, Sym
<1>2. state = "REQ_LINE_PARSING"
  BY DEF request_line_parser_, In
<1>3. SameRequest /\ GoesOn /\ SameResponse
  BY <1>1, <1>2 DEF SameRequest, GoesOn, SameResponse, Fresh, Start, TypeOK, ReqType
<1> QED BY <1>1, <1>3, FdsUntouched, NothingHappens

LEMMA BodySteps ==
  ASSUME TypeOK, UploadAccounted, Kept, Said, state_req_body_ \/ CgiBody
  PROVE  Kept' /\ Said'
<1>0. Taken
  BY DEF Kept
<1>1. CASE state_req_body_
  <2>1. state = "REQ_BODY" /\ Open(req.body_fd, "upload") /\ ~req.is_chnkd
    BY <1>0, <1>1 DEF state_req_body_, In, Taken, UploadAccounted, LengthAccounted
  <2>2. SameRequest
    BY <1>1, <2>1 DEF state_req_body_, SameRequest, TypeOK, ReqType
  <2>3. GoesOn /\ SameResponse /\ fds' = fds
    BY <1>1 DEF state_req_body_, GoesOn, SameResponse
  <2> QED BY <2>2, <2>3, FdsUntouched, NothingHappens
<1>2. CASE CgiBody
  <2>1. Open(cgi.wfd, "stdin")
    BY <1>0, <1>2 DEF CgiBody, In, Taken
  <2>2. SameFds(fds, fds')
    <3>1. fds' = fds \/ fds' = Watch(fds, cgi.wfd, "W")
      BY <1>2 DEF CgiBody
    <3> QED BY <2>1, <3>1, FdsUntouched, TakerWatched
  <2>3. SameRequest
    BY <1>2 DEF CgiBody, SameRequest, TypeOK, ReqType
  <2>4. GoesOn /\ SameResponse
    BY <1>2 DEF CgiBody, GoesOn, SameResponse, TypeOK, CgiType
  <2> QED BY <2>2, <2>3, <2>4, NothingHappens
<1> QED BY <1>1, <1>2

LEMMA FirstChunkStep ==
  ASSUME TypeOK, Kept, Said, FirstChunk
  PROVE  Kept' /\ Said'
<1> DEFINE f == IF req.is_cgi THEN cgi.wfd ELSE req.body_fd
<1>1. fds' = Watch(fds, f, "W")
  BY DEF FirstChunk
<1>2. Open(f, "upload") \/ Open(f, "stdin")
  <2>1. CASE state = "REQ_BODY_CHUNKED"
    <3>1. Open(req.body_fd, "upload")
      BY <2>1 DEF Kept, Taken
    <3>2. ~req.is_cgi
      BY <3>1 DEF Kept, Owners, UploadOwned, Open
    <3> QED BY <3>1, <3>2
  <2>2. CASE state = "REQ_CGI_BODY_CHUNKED"
    <3>1. Open(cgi.wfd, "stdin")
      BY <2>2 DEF Kept, Taken
    <3>2. req.is_cgi
      BY <3>1 DEF Kept, Owners, StdinOwned, Open
    <3> QED BY <3>1, <3>2
  <2> QED BY <2>1, <2>2 DEF FirstChunk, InChunks, In
<1> HIDE DEF f
<1>3. SameFds(fds, fds')
  BY <1>1, <1>2, TakerWatched
<1>4. SameRequest /\ SameResponse /\ GoesOn
  BY DEF FirstChunk, SameRequest, SameResponse, GoesOn
<1> QED BY <1>3, <1>4, NothingHappens

LEMMA ChunkSteps ==
  ASSUME TypeOK, Kept, Said, ChunkData \/ ChunkEnd \/ ChunkLineMissing
  PROVE  Kept' /\ Said'
<1>1. fds' = fds
  BY DEF ChunkData, ChunkEnd, ChunkLineMissing
<1>2. SameRequest /\ GoesOn
  BY DEF ChunkData, ChunkEnd, ChunkLineMissing, SameRequest, GoesOn, TypeOK, ReqType
<1>3. SameResponse
  BY DEF ChunkData, ChunkEnd, ChunkLineMissing, SameResponse, TypeOK, CgiType
<1> QED BY <1>1, <1>2, <1>3, FdsUntouched, NothingHappens

LEMMA ChunkLineRead ==
  ASSUME TypeOK, Kept, Said, ChunkLine, state' = state, fds' = fds, res' = res,
         client_w' = client_w, disk' = disk,
         req' = [req EXCEPT !.body_size = @ + ReadSize(line.text.n)]
  PROVE  Kept' /\ Said'
<1>1. SameRequest /\ GoesOn /\ SameResponse
  BY DEF ChunkLine, SameRequest, GoesOn, SameResponse, TypeOK, ReqType
<1> QED BY <1>1, FdsUntouched, NothingHappens

LEMMA SkipSteps ==
  ASSUME TypeOK, Kept, Said, Orderly, SkipChunkedBody
  PROVE  Kept' /\ Said'
<1>1. ~(state' = "E_BAD_REQ") /\ state = "REQ_SKIP_BODY_CHUNKED"
  BY DEF Orderly, SkipChunkedBody, SkipChunkData, SkipChunkEnd, SkipChunkLine, InSkip, In
<1>2. ~BadChunk
  BY <1>1 DEF BadChunk
<1>3. /\ fds' = fds /\ res' = res /\ client_w' = client_w /\ wire' = wire /\ cgi' = cgi
      /\ disk' = disk /\ failing' = failing
  BY <1>2 DEF SkipChunkedBody, SkipChunkData, SkipChunkEnd, SkipChunkLine
<1>4. GoesOn
  BY <1>2 DEF SkipChunkedBody, SkipChunkData, SkipChunkEnd, SkipChunkLine, GoesOn
<1>5. SameRequest
  BY <1>2, <1>3 DEF SkipChunkedBody, SkipChunkData, SkipChunkEnd, SkipChunkLine, SameRequest, TypeOK, ReqType
<1>6. SameResponse
  BY <1>3 DEF SameResponse
<1> QED BY <1>3, <1>4, <1>5, <1>6, FdsUntouched, NothingHappens

LEMMA SocketRead ==
  ASSUME TypeOK, Kept, Said, read_to_client_buffer_
  PROVE  Kept' /\ Said'
<1>1. SameRequest /\ GoesOn /\ SameResponse /\ fds' = fds
  BY DEF read_to_client_buffer_, SameRequest, GoesOn, SameResponse
<1> QED BY <1>1, FdsUntouched, NothingHappens

LEMMA Stutters == ASSUME TypeOK, Kept, Said, UNCHANGED vars PROVE Kept' /\ Said'
<1>1. SameRequest /\ GoesOn /\ SameResponse /\ fds' = fds
  BY DEF vars, inputVars, SameRequest, GoesOn, SameResponse
<1> QED BY <1>1, FdsUntouched, NothingHappens

-----------------------------------------------------------------------------
(* The controller begins a request, or answers it at once.                 *)

\* Nothing is held and nothing has been said yet.
Unheld ==
  /\ AllFree(fds) /\ res = NewRes /\ ~client_w /\ Whole(Len(wire))
  /\ req.body_buf = 0 /\ disk.st # "partial" /\ failing = 0

LEMMA StartUnheld ==
  ASSUME Kept, Said
  PROVE  /\ state \in Start => Unheld
         /\ Fresh => /\ AllFree(fds) /\ ~client_w /\ Whole(Len(wire))
                     /\ req.body_buf = 0 /\ disk.st # "partial" /\ failing = 0
<1>1. Fresh => /\ AllFree(fds) /\ ~client_w /\ Whole(Len(wire)) /\ failing = 0
  BY DEF Kept, Said, Quiet, Writing
<1>2. AllFree(fds) => \A f, kind : kind # "free" => ~Open(f, kind)
  BY DEF AllFree, Open
<1>3. Fresh => req.body_buf = 0 /\ disk.st # "partial"
  BY <1>1, <1>2 DEF Kept, Taken
<1>4. state \in Start => Fresh /\ res = NewRes
  BY DEF Fresh, Said, Unanswered
<1> QED BY <1>1, <1>3, <1>4 DEF Unheld

LEMMA ResetStep == ASSUME TypeOK, Kept, Said, reset_ PROVE Kept' /\ Said'
<1>1. /\ AllFree(fds) /\ ~client_w /\ Whole(Len(wire))
      /\ req.body_buf = 0 /\ disk.st # "partial" /\ failing = 0
  BY StartUnheld DEF reset_, In, Fresh
<1>2. /\ fds' = fds /\ client_w' = client_w /\ wire' = wire /\ disk' = disk /\ failing' = failing
      /\ res' = NewRes /\ state' = "REQ_LINE_PARSING" /\ req'.body_buf = req.body_buf
  BY DEF reset_, NewReq
<1>3. AllFree(fds') /\ Whole(Len(wire))'
  BY <1>1, <1>2 DEF Whole
<1>4. Owners' /\ Unanswered' /\ PageRead'
  BY <1>2, <1>3 DEF Owners, PageOwned, UploadOwned, PipeOwned, StdinOwned, AllFree,
                    Unanswered, PageRead
<1>5. Quiet' /\ Taken' /\ Writing' /\ failing' = 0
  BY <1>1, <1>2, <1>3 DEF Quiet, Taken, Writing
<1> QED BY <1>4, <1>5 DEF Kept, Said

LEMMA ErrorSays ==
  ASSUME NEW code, NEW r, NEW tbl, NEW o \in make_error_response_(code, r, NewRes, tbl)
  PROVE  o.res.hdr # NewRes.hdr
<1>1. \A n : LET h == NewRes.hdr \o HeaderBlock(r, code, n) IN Len(h) = 1 /\ h # NewRes.hdr
  BY DEF HeaderBlock, NewRes
<1>2. CASE PageSize = NoPage \/ FreeIn(tbl) = {}
  <2> DEFINE h == NewRes.hdr \o HeaderBlock(r, code, GenSize)
             b == [NewRes EXCEPT !.hdr = @ \o HeaderBlock(r, code, GenSize),
                                 !.body_size = GenSize, !.buf = @ + Generated(r)]
  <2>1. o = [res |-> b, fds |-> tbl, w |-> TRUE]
    BY <1>2 DEF make_error_response_
  <2>3. b = [NewRes EXCEPT !.hdr = h, !.body_size = GenSize, !.buf = @ + Generated(r)]
    OBVIOUS
  <2>2. h # NewRes.hdr
    BY <1>1
  <2> HIDE DEF h
  <2>4. b.hdr = h
    BY <2>3 DEF NewRes
  <2> HIDE DEF b
  <2> QED BY <2>1, <2>2, <2>4
<1>3. CASE ~(PageSize = NoPage \/ FreeIn(tbl) = {})
  <2> DEFINE h == NewRes.hdr \o HeaderBlock(r, code, PageSize)
             b == [NewRes EXCEPT !.hdr = @ \o HeaderBlock(r, code, PageSize),
                                 !.body_size = PageSize]
  <2>1. PICK f : o.res = [b EXCEPT !.body_fd = f]
    <3>1. CASE r.mthd = "HEAD"
      <4>1. o = [res |-> [b EXCEPT !.body_fd = NoFd], fds |-> tbl, w |-> TRUE]
        BY <1>3, <3>1 DEF make_error_response_
      <4> QED BY <4>1
    <3>2. CASE r.mthd # "HEAD"
      <4>1. PICK f \in FreeIn(tbl) :
              o = [res |-> [b EXCEPT !.body_fd = f], fds |-> [tbl EXCEPT ![f] = Page(PageSize)],
                   w |-> FALSE]
        BY <1>3, <3>2 DEF make_error_response_
      <4>2. o.res = [b EXCEPT !.body_fd = f]
        BY <4>1
      <4> QED BY <4>2
    <3> QED BY <3>1, <3>2
  <2>2. h # NewRes.hdr
    BY <1>1
  <2>3. b = [NewRes EXCEPT !.hdr = h, !.body_size = PageSize]
    OBVIOUS
  <2> HIDE DEF h
  <2>4. [b EXCEPT !.body_fd = f].hdr = h
    BY <2>3 DEF NewRes
  <2> HIDE DEF b
  <2> QED BY <2>1, <2>2, <2>4
<1> QED BY <1>2, <1>3

\* No error page is made while is_cgi_ is set.
LEMMA ErrorMade ==
  ASSUME TypeOK, NEW code \in Nat, NEW r \in ReqType, NEW tbl \in TableType, AllFree(tbl),
         error_response_keep_alive_(code, r, tbl), Orderly, pc = "ctl",
         res = NewRes, ~client_w, wire' = wire, Whole(Len(wire)), failing' = 0,
         r.body_buf = 0, disk'.st # "partial"
  PROVE  Kept' /\ Said'
<1>1. PICK o \in make_error_response_(code, r, NewRes, tbl) :
        /\ res' = o.res
        /\ fds' = Watch(o.fds, o.res.body_fd, "R")
        /\ client_w' = o.w
  <2>1. \A o \in make_error_response_(code, r, res, tbl) : o.w \in BOOLEAN
    BY ErrorOutcome DEF OutcomeTyped, TypeOK
  <2> QED BY <2>1 DEF error_response_keep_alive_
<1>2. Answer(r, o, tbl) /\ o.fds \in TableType
  BY ErrorAnswer, ErrorOutcome, NewTyped DEF OutcomeTyped
<1>3. ~req'.is_cgi
  BY <1>1, ErrorSays DEF Orderly
<1>4. req'.mthd = r.mthd /\ req'.body_buf = 0
  BY DEF error_response_keep_alive_, ReqType
<1>5. state' \in Refused \cup {"E_BAD_REQ"}
  BY ErrorResponse
<1> QED BY <1>1, <1>2, <1>3, <1>4, <1>5, AnswerMade

LEMMA RequestLineRefused ==
  ASSUME TypeOK, Kept, Said, Orderly, request_line_parser_,
         line.text # Blank /\ line.text.t # "req"
  PROVE  Kept' /\ Said'
<1> DEFINE r == [req EXCEPT !.mthd = "UNDEFINED"]
<1>1. /\ error_response_keep_alive_(400, r, fds) /\ wire' = wire /\ failing' = failing
      /\ disk' = disk /\ state = "REQ_LINE_PARSING" /\ pc = "ctl"
  BY DEF request_line_parser_, In
<1>2. r \in ReqType /\ r.body_buf = req.body_buf
  BY DEF TypeOK, ReqType
<1> HIDE DEF r
<1>3. Unheld
  BY <1>1, StartUnheld DEF Start
<1>4. fds \in TableType
  BY DEF TypeOK
<1> QED BY <1>1, <1>2, <1>3, <1>4, ErrorMade DEF Unheld

LEMMA HeaderUnheld ==
  ASSUME TypeOK, Kept, Said, HeaderEnds
  PROVE  /\ Unheld /\ wire' = wire /\ pc = "ctl" /\ req.uri \in Targets /\ fds \in TableType
         /\ Framed \in ReqType /\ Framed.body_buf = 0 /\ Framed.mthd = req.mthd
         /\ Located \in ReqType /\ Located.body_buf = 0 /\ Located.mthd = req.mthd
         /\ Located.uri = req.uri
<1>1. wire' = wire /\ pc = "ctl" /\ state = "REQ_HEADER_PARSING" /\ req.uri \in Targets
  BY HeaderEndsOK
<1>2. Unheld
  BY <1>1, StartUnheld DEF Start
<1>3. Framed.mthd = req.mthd
  BY DEF Framed, TypeOK, ReqType
<1> QED BY <1>1, <1>2, <1>3, LocatedTyped DEF Unheld, TypeOK

LEMMA BadHostStep ==
  ASSUME TypeOK, Kept, Said, Orderly, BadHostRequest
  PROVE  Kept' /\ Said'
<1>1. HeaderEnds
  BY DEF BadHostRequest
<1>2. /\ Unheld /\ wire' = wire /\ pc = "ctl" /\ fds \in TableType
      /\ Framed \in ReqType /\ Framed.body_buf = 0
  BY <1>1, HeaderUnheld
<1>3. PICK o \in make_error_response_(400, Framed, res, fds) :
        res' = o.res /\ fds' = o.fds /\ client_w' = (client_w \/ o.w)
  BY DEF BadHostRequest
<1>4. o \in make_error_response_(400, Framed, NewRes, fds) /\ AllFree(fds)
  BY <1>2, <1>3 DEF Unheld
<1>5. Answer(Framed, o, fds) /\ o.fds \in TableType /\ o.w \in BOOLEAN
  BY <1>2, <1>4, ErrorAnswer, ErrorOutcome, NewTyped DEF OutcomeTyped
<1>6. ~req'.is_cgi
  BY <1>2, <1>3, <1>4, ErrorSays DEF Orderly, Unheld
<1>7. /\ client_w' = o.w /\ req' = Framed /\ state' = "E_BAD_REQ" /\ failing' = 0
      /\ disk'.st # "partial" /\ Whole(Len(wire))
  BY <1>2, <1>3, <1>5 DEF BadHostRequest, Unheld
<1> QED BY <1>2, <1>3, <1>4, <1>5, <1>6, <1>7, AnswerMade

LEMMA NotServedStep ==
  ASSUME TypeOK, Kept, Said, Orderly, NotServed
  PROVE  Kept' /\ Said'
<1>1. HeaderEnds
  BY DEF NotServed
<1>2. /\ Unheld /\ wire' = wire /\ pc = "ctl" /\ fds \in TableType
      /\ Located \in ReqType /\ Located.body_buf = 0
  BY <1>1, HeaderUnheld
<1> DEFINE code == IF Location[req.uri].found THEN 405 ELSE 404
           r == [Located EXCEPT !.is_cgi = FALSE]
<1>3. r \in ReqType /\ r.body_buf = 0
  BY <1>2 DEF ReqType
<1>5. code \in Nat
  OBVIOUS
<1>4. error_response_keep_alive_(code, r, fds) /\ failing' = failing /\ disk' = disk
  BY DEF NotServed
<1> HIDE DEF r, code
<1> QED BY <1>2, <1>3, <1>4, <1>5, ErrorMade DEF Unheld

LEMMA DeleteStep ==
  ASSUME TypeOK, Kept, Said, res_for_delete_req_
  PROVE  Kept' /\ Said'
<1>1. HeaderEnds /\ req.mthd = "DELETE"
  BY DEF res_for_delete_req_
<1>2. /\ Unheld /\ wire' = wire /\ fds \in TableType /\ req.uri \in Targets
      /\ Located \in ReqType /\ Located.body_buf = 0 /\ Located.mthd = "DELETE"
      /\ Located.uri = req.uri
  BY <1>1, HeaderUnheld
<1>3. PICK o \in IF Location[req.uri].kind = "file"
                 THEN make_response_header_(Located, NewRes, fds)
                 ELSE make_error_response_(404, Located, NewRes, fds) :
        /\ res' = o.res
        /\ fds' = o.fds \/ fds' = Watch(o.fds, o.res.body_fd, "R")
        /\ client_w' = (client_w \/ o.w)
  BY <1>2 DEF res_for_delete_req_, Unheld
<1>4. Answer(Located, o, fds) /\ o.fds \in TableType /\ o.w \in BOOLEAN
  BY <1>2, <1>3, ErrorAnswer, HeaderAnswer, ErrorOutcome, HeaderOutcome, NewTyped
     DEF OutcomeTyped, Unheld
<1>5. ~Located.is_cgi
  BY <1>1 DEF Located, Framed, TypeOK, ReqType
<1>6. req'.mthd = Located.mthd /\ ~req'.is_cgi /\ req'.body_buf = 0
  BY <1>2, <1>5 DEF res_for_delete_req_, ReqType
<1>7. /\ client_w' = o.w /\ failing' = 0 /\ disk'.st # "partial" /\ Whole(Len(wire))
      /\ AllFree(fds)
  BY <1>2, <1>3, <1>4 DEF res_for_delete_req_, Unheld
<1>8. state' \in Refused \cup {"E_BAD_REQ"}
  BY SkipStateIn DEF res_for_delete_req_
<1> QED BY <1>2, <1>3, <1>4, <1>6, <1>7, <1>8, AnswerMade

LEMMA GetHeadStep ==
  ASSUME TypeOK, Kept, Said, res_for_get_head_req_
  PROVE  Kept' /\ Said'
<1>1. HeaderEnds
  BY DEF res_for_get_head_req_
<1>2. /\ Unheld /\ wire' = wire /\ fds \in TableType /\ req.uri \in Targets
      /\ Located \in ReqType /\ Located.body_buf = 0 /\ Located.uri = req.uri
  BY <1>1, HeaderUnheld
<1>3. PICK o \in make_response_header_(Located, NewRes, fds) :
       IF o.res.body_fd \in Fd /\ o.res.body_size = 0
       THEN /\ res' = [o.res EXCEPT !.body_fd = NoFd]
            /\ fds' = CloseFds(o.fds, {o.res.body_fd})
            /\ client_w' = TRUE
       ELSE /\ res' = o.res
            /\ fds' = Watch(o.fds, o.res.body_fd, "R")
            /\ client_w' = (client_w \/ o.w)
  BY <1>2 DEF res_for_get_head_req_, Unheld
<1>4. /\ Answer(Located, o, fds) /\ o.fds \in TableType /\ o.w \in BOOLEAN /\ o.res \in ResType
      /\ AllFree(fds) /\ Whole(Len(wire))
  BY <1>2, <1>3, HeaderAnswer, HeaderOutcome, NewTyped DEF OutcomeTyped, Unheld
<1>5. /\ req' = Located /\ ~req'.is_cgi /\ failing' = 0 /\ disk'.st # "partial"
      /\ state' \in Refused \cup {"E_BAD_REQ"}
  BY <1>2, SkipStateIn DEF res_for_get_head_req_, Unheld
<1>6. CASE o.res.body_fd \in Fd /\ o.res.body_size = 0
  <2> DEFINE tbl == CloseFds(o.fds, {o.res.body_fd})
             a == [o.res EXCEPT !.body_fd = NoFd]
             e == [res |-> a, fds |-> tbl, w |-> TRUE]
  <2>1. OnPage(Located, o) /\ Headed(o.res)
    BY <1>4, <1>6, FdAssumption DEF Answer, Ready
  <2>2. AllFree(tbl) /\ tbl \in TableType
    BY <1>4, <1>6, <2>1, Closed, CloseTyped DEF OnPage, Alone, AllFree
  <2>3. /\ a.body_fd = NoFd /\ a.hdr = o.res.hdr /\ a.body_size = 0 /\ a.buf = o.res.buf
        /\ a.header_sent = o.res.header_sent /\ a.write_finished = o.res.write_finished
        /\ a.body_write = o.res.body_write
    BY <1>4, <1>6 DEF ResType
  <2>4. res' = a /\ fds' = tbl /\ client_w' = TRUE
    BY <1>3, <1>6
  <2> HIDE DEF tbl, a
  <2>5. Headed(a) /\ Complete(Located, a, a.buf)
    BY <1>6, <2>1, <2>3 DEF Headed, Complete, OnPage
  <2>6. Answer(Located, e, tbl)
    BY <2>3, <2>5 DEF Answer, Ready
  <2>7. e.res = a /\ e.fds = tbl /\ e.w = TRUE
    OBVIOUS
  <2> HIDE DEF e
  <2> QED BY <1>2, <1>4, <1>5, <2>2, <2>4, <2>6, <2>7, AnswerMade
<1>7. CASE ~(o.res.body_fd \in Fd /\ o.res.body_size = 0)
  <2>1. /\ res' = o.res /\ fds' = Watch(o.fds, o.res.body_fd, "R") /\ client_w' = o.w
    BY <1>2, <1>3, <1>4, <1>7 DEF Unheld
  <2> QED BY <1>2, <1>4, <1>5, <2>1, AnswerMade
<1> QED BY <1>6, <1>7

-----------------------------------------------------------------------------
(* The controller opens an upload or runs a script.                        *)

LEMMA UploadOpened ==
  ASSUME TypeOK, Unheld, NEW f \in Fd,
         fds'[f].kind = "upload", \A g \in Fd : g # f => fds'[g].kind = "free",
         req'.body_fd = f, ~req'.is_cgi, req'.mthd \in {"POST", "PUT"}, req'.body_buf = 0,
         state' \in {"REQ_BODY", "REQ_BODY_CHUNKED"},
         res' = res, client_w' = client_w, wire' = wire, failing' = failing
  PROVE  Kept' /\ Said'
<1>1. res' = NewRes /\ ~client_w' /\ Whole(Len(wire))' /\ failing' = 0
  BY DEF Unheld, Whole
<1>2. Alone(fds', f)
  BY DEF Alone
<1>3. Owners'
  BY <1>2 DEF Owners, PageOwned, UploadOwned, PipeOwned, StdinOwned
<1>4. Quiet' /\ Taken'
  BY <1>1 DEF Quiet, Taken, Open, Fresh, Start, NewRes
<1>5. Unanswered' /\ PageRead' /\ Writing'
  BY <1>1 DEF Unanswered, PageRead, Writing
<1> QED BY <1>1, <1>3, <1>4, <1>5 DEF Kept, Said

LEMMA PostPutStep ==
  ASSUME TypeOK, Kept, Said, Orderly, res_for_post_put_req_
  PROVE  Kept' /\ Said'
<1>1. HeaderEnds /\ req.mthd \in {"POST", "PUT"} /\ ~Located.is_cgi
  BY DEF res_for_post_put_req_
<1>2. /\ Unheld /\ wire' = wire /\ pc = "ctl" /\ fds \in TableType
      /\ Located \in ReqType /\ Located.body_buf = 0 /\ Located.mthd = req.mthd
      /\ failing' = failing /\ AllFree(fds) /\ failing' = 0
  BY <1>1, HeaderUnheld DEF res_for_post_put_req_, Unheld
<1>3. CASE error_response_keep_alive_(404, Located, fds) /\ UNCHANGED disk
  BY <1>2, <1>3, ErrorMade DEF Unheld
<1>4. ASSUME NEW f \in FreeIn(fds),
             LET r == [Located EXCEPT !.body_fd = f]
             IN  CASE r.is_chnkd \/ r.cnt_len = Unset ->
                        /\ req' = [r EXCEPT !.body_size = 0, !.cnt_len = Unset]
                        /\ fds' = [fds EXCEPT ![f] = Upload]
                        /\ state' = "REQ_BODY_CHUNKED" /\ disk' = NewFile(r)
                        /\ UNCHANGED <<pc, res, client_w>>
                   [] ~r.is_chnkd /\ r.cnt_len > r.body_limit ->
                        /\ error_response_keep_alive_(416, r, fds)
                        /\ disk' = [NewFile(r) EXCEPT !.st = "removed"] /\ Wait
                   [] OTHER ->
                        /\ req' = r
                        /\ fds' = Watch([fds EXCEPT ![f] = Upload], f, "W")
                        /\ state' = "REQ_BODY" /\ disk' = NewFile(r)
                        /\ UNCHANGED <<pc, res, client_w>>
      PROVE  Kept' /\ Said'
  <2> DEFINE r == [Located EXCEPT !.body_fd = f]
             tbl == [fds EXCEPT ![f] = Upload]
  <2>1. /\ r \in ReqType /\ r.body_fd = f /\ r.body_buf = 0 /\ r.mthd = req.mthd
        /\ ~r.is_cgi /\ f \in Fd
    BY <1>1, <1>2 DEF ReqType, FreeIn
  <2>2. /\ tbl \in TableType /\ tbl[f].kind = "upload"
        /\ \A g \in Fd : g # f => tbl[g].kind = "free"
    BY <1>2, <2>1, UploadFdTyped, OpenTyped DEF AllFree, TableType, Upload, FreeFd
  <2>3. \/ /\ req' = [r EXCEPT !.body_size = 0, !.cnt_len = Unset] /\ fds' = tbl
           /\ state' = "REQ_BODY_CHUNKED" /\ UNCHANGED <<res, client_w>>
        \/ /\ error_response_keep_alive_(416, r, fds)
           /\ disk' = [NewFile(r) EXCEPT !.st = "removed"]
        \/ /\ req' = r /\ fds' = Watch(tbl, f, "W")
           /\ state' = "REQ_BODY" /\ UNCHANGED <<res, client_w>>
    BY <1>4
  <2> HIDE DEF r, tbl
  <2>4. CASE /\ error_response_keep_alive_(416, r, fds)
             /\ disk' = [NewFile(r) EXCEPT !.st = "removed"]
    <3>1. disk'.st = "removed"
      BY <2>4 DEF NewFile
    <3>2. res = NewRes /\ ~client_w /\ Whole(Len(wire))
      BY <1>2 DEF Unheld
    <3>3. PICK code \in Nat : error_response_keep_alive_(code, r, fds)
      BY <2>4
    <3> QED BY <1>2, <2>1, <3>1, <3>2, <3>3, ErrorMade
  <2>5. CASE /\ req' = [r EXCEPT !.body_size = 0, !.cnt_len = Unset] /\ fds' = tbl
             /\ state' = "REQ_BODY_CHUNKED" /\ UNCHANGED <<res, client_w>>
    <3>1. req'.body_fd = f /\ ~req'.is_cgi /\ req'.mthd = req.mthd /\ req'.body_buf = 0
      BY <2>1, <2>5 DEF ReqType
    <3> QED BY <1>1, <1>2, <2>1, <2>2, <2>5, <3>1, UploadOpened
  <2>6. CASE /\ req' = r /\ fds' = Watch(tbl, f, "W")
             /\ state' = "REQ_BODY" /\ UNCHANGED <<res, client_w>>
    <3>1. fds'[f].kind = "upload" /\ \A g \in Fd : g # f => fds'[g].kind = "free"
      BY <2>1, <2>2, <2>6, WatchKeeps
    <3> QED BY <1>1, <1>2, <2>1, <2>6, <3>1, UploadOpened
  <2> QED BY <2>3, <2>4, <2>5, <2>6
<1> QED BY <1>3, <1>4 DEF res_for_post_put_req_

LEMMA PipeFds ==
  ASSUME NEW s, NEW p
  PROVE  /\ Pipe(s, p).kind = "pipe" /\ Pipe(s, p).ev = {"R"} /\ Pipe(s, p).run = s
         /\ Pipe(s, p).peer = p
         /\ Stdin(s, p).kind = "stdin" /\ Stdin(s, p).run = s /\ Stdin(s, p).peer = p
BY DEF Pipe, Stdin, FreeFd

LEMMA ScriptRuns ==
  ASSUME TypeOK, Unheld, Orderly, NEW s, NEW r \in Fd, NEW w \in Fd, r # w,
         req'.is_cgi, req'.body_buf = 0, req'.body_fd = NoFd, disk' = disk,
         res' = res, client_w' = client_w, wire' = wire,
         failing' = failing + (IF s.fails THEN 1 ELSE 0), cgi'.rfd = r,
         \/ /\ fds' = [fds EXCEPT ![r] = Pipe(s, NoFd)]
            /\ state' \in {"REQ_HOLD", "REQ_SKIP_BODY", "REQ_SKIP_BODY_CHUNKED"}
         \/ /\ fds' = [fds EXCEPT ![r] = Pipe(s, w), ![w] = Stdin(s, r)] /\ cgi'.wfd = w
            /\ state' \in {"REQ_HOLD", "REQ_CGI_BODY", "REQ_CGI_BODY_CHUNKED"}
  PROVE  Kept' /\ Said'
<1>1. /\ fds'[r].kind = "pipe" /\ fds'[r].ev = {"R"} /\ fds'[r].run = s
      /\ \A g \in Fd \ {r, w} : fds'[g].kind = "free"
      /\ \/ /\ fds'[w].kind = "free"
            /\ state' \in {"REQ_HOLD", "REQ_SKIP_BODY", "REQ_SKIP_BODY_CHUNKED"}
         \/ /\ fds'[r].peer = w /\ fds'[w].kind = "stdin" /\ fds'[w].run = s
            /\ fds'[w].peer = r /\ cgi'.wfd = w
            /\ state' \in {"REQ_HOLD", "REQ_CGI_BODY", "REQ_CGI_BODY_CHUNKED"}
  BY PipeFds DEF Unheld, AllFree, TypeOK, TableType
<1>2. GoodScript(fds'[r])
  BY <1>1 DEF Orderly
<1>3. ~s.fails /\ (fds'[r].peer = w => s.reads)
  BY <1>1, <1>2 DEF GoodScript
<1>4. res' = NewRes /\ ~client_w' /\ Whole(Len(wire))' /\ failing' = 0 /\ disk'.st # "partial"
  BY <1>3 DEF Unheld, Whole
<1>5. Owners'
  <2> SUFFICES ASSUME NEW f \in Fd
               PROVE  PageOwned(f)' /\ UploadOwned(f)' /\ PipeOwned(f)' /\ StdinOwned(f)'
    BY DEF Owners
  <2>1. CASE f = r
    BY <1>1, <1>2, <2>1 DEF PageOwned, UploadOwned, PipeOwned, StdinOwned, NoWriter
  <2>2. CASE f = w
    BY <1>1, <1>3, <2>2 DEF PageOwned, UploadOwned, PipeOwned, StdinOwned, Open
  <2>3. CASE f \notin {r, w}
    BY <1>1, <2>3 DEF PageOwned, UploadOwned, PipeOwned, StdinOwned
  <2> QED BY <2>1, <2>2, <2>3
<1>6. Quiet'
  BY <1>1, <1>4 DEF Quiet, Fresh, Start, NewRes
<1>7. Taken'
  BY <1>1, <1>4 DEF Taken, Open
<1>8. Unanswered' /\ Writing'
  BY <1>4 DEF Unanswered, Writing
<1>9. PageRead'
  BY <1>1 DEF PageRead
<1> QED BY <1>4, <1>5, <1>6, <1>7, <1>8, <1>9 DEF Kept, Said

LEMMA CgiStep ==
  ASSUME TypeOK, UploadAccounted, Kept, Said, Orderly, do_cgi_
  PROVE  Kept' /\ Said'
<1>1. HeaderEnds /\ Located.is_cgi
  BY DEF do_cgi_
<1>2. /\ Unheld /\ wire' = wire /\ pc = "ctl" /\ disk' = disk
      /\ Located \in ReqType /\ Located.body_buf = 0
  BY <1>1, HeaderUnheld DEF do_cgi_
<1>9. Located.body_fd = NoFd
  BY <1>1, HeaderEndsOK, LocatedTyped DEF UploadAccounted, FreshRequest
<1>3. ~ error_response_keep_alive_(500, Located, fds)
  <2> SUFFICES ASSUME error_response_keep_alive_(500, Located, fds) PROVE FALSE
    OBVIOUS
  <2>1. req'.is_cgi
    BY <1>1, <1>2 DEF error_response_keep_alive_, ReqType
  <2>2. PICK o \in make_error_response_(500, Located, NewRes, fds) : res' = o.res
    BY <1>2 DEF error_response_keep_alive_, Unheld
  <2> QED BY <1>2, <2>1, <2>2, ErrorSays DEF Orderly, Unheld
<1>4. PICK s \in talk.scripts, r \in FreeIn(fds), w \in FreeIn(fds) :
          /\ r # w
          /\ IF req.mthd \in Bodiless
             THEN /\ fds' = [fds EXCEPT ![r] = Pipe(s, NoFd)]
                  /\ cgi' = [cgi EXCEPT !.rfd = r]
             ELSE /\ fds' = [fds EXCEPT ![r] = Pipe(s, w), ![w] = Stdin(s, r)]
                  /\ cgi' = [cgi EXCEPT !.rfd = r, !.wfd = w]
          /\ failing' = failing + (IF s.fails THEN 1 ELSE 0)
          /\ req' = Located
          /\ state' = CASE Located.is_chnkd /\ req.mthd \in Bodiless    -> "REQ_SKIP_BODY_CHUNKED"
                        [] Located.is_chnkd /\ req.mthd \notin Bodiless -> "REQ_CGI_BODY_CHUNKED"
                        [] ~Located.is_chnkd /\ Located.cnt_len = 0     -> "REQ_HOLD"
                        [] OTHER -> IF req.mthd \in Bodiless THEN "REQ_SKIP_BODY" ELSE "REQ_CGI_BODY"
          /\ UNCHANGED <<pc, res, client_w>>
  BY <1>3 DEF do_cgi_
<1>5. r \in Fd /\ w \in Fd
  BY DEF FreeIn
<1>6. cgi'.rfd = r /\ (req.mthd \notin Bodiless => cgi'.wfd = w)
  BY <1>4 DEF TypeOK, CgiType
<1>7. \/ /\ fds' = [fds EXCEPT ![r] = Pipe(s, NoFd)]
         /\ state' \in {"REQ_HOLD", "REQ_SKIP_BODY", "REQ_SKIP_BODY_CHUNKED"}
      \/ /\ fds' = [fds EXCEPT ![r] = Pipe(s, w), ![w] = Stdin(s, r)] /\ cgi'.wfd = w
         /\ state' \in {"REQ_HOLD", "REQ_CGI_BODY", "REQ_CGI_BODY_CHUNKED"}
  BY <1>4, <1>6
<1>8. /\ req'.is_cgi /\ req'.body_buf = 0 /\ req'.body_fd = NoFd
      /\ res' = res /\ client_w' = client_w
  BY <1>1, <1>2, <1>4, <1>9
<1> QED BY <1>2, <1>4, <1>5, <1>6, <1>7, <1>8, ScriptRuns

\* A chunk beyond client_max_body_size: the upload is closed and removed.
LEMMA ChunkLineStep ==
  ASSUME TypeOK, Kept, Said, Orderly, ChunkLine
  PROVE  Kept' /\ Said'
<1> DEFINE r == [req EXCEPT !.body_size = @ + ReadSize(line.text.n)]
           tbl == CloseFds(fds, {req.body_fd})
<1>1. CASE WithinLimit(r)
  <2>1. req' = r /\ UNCHANGED <<pc, state, res, fds, client_w, disk>>
    BY <1>1 DEF ChunkLine
  <2> QED BY <2>1, ChunkLineRead
<1>2. CASE ~WithinLimit(r)
  <2>1. /\ error_response_keep_alive_(413, r, tbl) /\ pc = "ctl"
        /\ disk' = IF req.is_cgi THEN disk ELSE [disk EXCEPT !.st = "removed"]
        /\ state \in {"REQ_BODY_CHUNKED", "REQ_CGI_BODY_CHUNKED"}
        /\ wire' = wire /\ failing' = failing /\ line.text.t = "size"
    BY <1>2 DEF ChunkLine, AtChunkLine, InChunks, In
  <2>2. r \in ReqType /\ r.is_cgi = req.is_cgi /\ r.body_buf = req.body_buf
    <3>1. req.body_size + ReadSize(line.text.n) \in SizeType /\ req \in ReqType
      BY <2>1, NextChunkTyped DEF TypeOK
    <3> QED BY <3>1 DEF ReqType
  <2>3. fds \in TableType /\ tbl \in TableType
    BY CloseTyped DEF TypeOK
  <2> HIDE DEF r
  <2>4. CASE state = "REQ_CGI_BODY_CHUNKED"
    <3>1. Open(cgi.wfd, "stdin")
      BY <2>4 DEF Kept, Taken
    <3>2. req.is_cgi /\ Open(cgi.rfd, "pipe")
      BY <3>1 DEF Kept, Owners, StdinOwned, Open
    <3>3. res = NewRes
      BY <3>2 DEF Said, Unanswered, Open
    <3>4. PICK o \in make_error_response_(413, r, NewRes, tbl) : res' = o.res
      BY <2>1, <3>3 DEF error_response_keep_alive_
    <3>5. req'.is_cgi
      BY <2>1, <2>2, <3>2 DEF error_response_keep_alive_, ReqType
    <3> QED BY <2>1, <3>3, <3>4, <3>5, ErrorSays DEF Orderly
  <2>5. CASE state = "REQ_BODY_CHUNKED"
    <3>1. Open(req.body_fd, "upload")
      BY <2>5 DEF Kept, Taken
    <3>2. Alone(fds, req.body_fd) /\ ~req.is_cgi /\ req.body_fd \in Fd
      BY <3>1 DEF Kept, Owners, UploadOwned, Open
    <3>3. res = NewRes
      BY <3>1 DEF Said, Unanswered, Open
    <3>4. AllFree(tbl)
      BY <2>3, <3>2, Closed DEF Alone, AllFree
    <3>5. ~client_w /\ Whole(Len(wire)) /\ failing' = 0
      <4>1. ~AllFree(fds)
        BY <3>1 DEF AllFree, Open
      <4> QED BY <2>1, <4>1 DEF Kept, Said, Quiet, Writing
    <3>6. disk'.st # "partial"
      BY <2>1, <3>2 DEF TypeOK, DiskType
    <3>7. r.body_buf = 0
      BY <2>2, <2>5 DEF Kept, Taken
    <3> HIDE DEF tbl
    <3>8. PICK code \in Nat : error_response_keep_alive_(code, r, tbl)
      BY <2>1
    <3> QED BY <2>1, <2>2, <2>3, <3>3, <3>4, <3>5, <3>6, <3>7, <3>8, ErrorMade
  <2> QED BY <2>1, <2>4, <2>5
<1> QED BY <1>1, <1>2

-----------------------------------------------------------------------------
(* The response is written.                                                *)

LEMMA ResponseStep ==
  ASSUME TypeOK, Kept, AllFree(fds), fds' = fds, req' = req, disk' = disk, failing' = failing,
         Writing',
         \/ state' = state /\ client_w' /\ ~res'.write_finished /\ ~Fresh
         \/ state' \in {"REQ_CLEAR", "REQ_SKIP_BODY_CHUNKED"} /\ ~client_w'
  PROVE  Kept' /\ Said'
<1>1. \A f, kind : kind # "free" => ~Open(f, kind)
  BY DEF AllFree, Open
<1>2. Owners' /\ PageRead'
  BY DEF Owners, PageOwned, UploadOwned, PipeOwned, StdinOwned, AllFree, PageRead
<1>3. Quiet'
  BY DEF Quiet, Fresh
<1>4. Taken'
  BY <1>1 DEF Kept, Taken
<1>5. Unanswered'
  BY DEF Unanswered, AllFree, Fresh, Start
<1> QED BY <1>2, <1>3, <1>4, <1>5 DEF Kept, Said

LEMMA WritingNow ==
  ASSUME Kept, Said, client_w
  PROVE  AllFree(fds) /\ ~Fresh /\ ~res.write_finished /\ Writing /\ failing = 0
BY DEF Kept, Said, Quiet

LEMMA Appended ==
  ASSUME NEW S, NEW w \in Seq(S), NEW h \in Seq(S), Len(h) = 1
  PROVE  /\ Len(w) \in Nat /\ Len(w \o h) = Len(w) + 1 /\ w \o h # <<>>
         /\ (w \o h)[Len(w) + 1] = h[1]
         /\ \A i \in 1 .. Len(w) : (w \o h)[i] = w[i]
<1>1. /\ Len(w) \in Nat /\ Len(w \o h) = Len(w) + Len(h) /\ w \o h \in Seq(S)
      /\ \A i \in 1 .. Len(w) + Len(h) :
           (w \o h)[i] = IF i <= Len(w) THEN w[i] ELSE h[i - Len(w)]
  BY LenProperties, ConcatProperties
<1> DEFINE v == w \o h
           n == Len(w)
<1>2. v # <<>>
  BY <1>1
<1> HIDE DEF v, n
<1>3. v[n + 1] = h[1] /\ \A i \in 1 .. n : v[i] = w[i]
  BY <1>1 DEF v, n
<1> QED BY <1>1, <1>2, <1>3 DEF v, n

LEMMA GotMore ==
  ASSUME NEW w \in ResponseType, NEW n \in Nat
  PROVE  LET v == [w EXCEPT !.got = @ + n]
         IN  v \in ResponseType /\ v.len = w.len /\ v.got = w.got + n
BY DEF ResponseType

LEMMA WriteHeaderStep == ASSUME TypeOK, Kept, Said, WriteHeader PROVE Kept' /\ Said'
<1>1. client_w /\ ~res.header_sent
  BY DEF WriteHeader
<1>2. /\ AllFree(fds) /\ ~Fresh /\ ~res.write_finished
      /\ Headed(res) /\ Complete(req, res, Left) /\ Whole(Len(wire))
  BY <1>1, WritingNow DEF Writing
<1>3. /\ fds' = fds /\ req' = req /\ disk' = disk /\ failing' = failing /\ cgi' = cgi
  BY DEF WriteHeader
<1>4. res \in ResType /\ wire \in Seq(ResponseType) /\ res.hdr \in Seq(ResponseType)
  BY DEF TypeOK, ResType
<1>5. CASE ResponseGoesOn([res EXCEPT !.cut = TRUE]) /\ wire' = wire
  <2>1. /\ res' = [res EXCEPT !.cut = TRUE] /\ state' = state /\ client_w' = client_w
    BY <1>5 DEF ResponseGoesOn
  <2>2. /\ res'.hdr = res.hdr /\ res'.header_sent = res.header_sent
        /\ res'.write_finished = res.write_finished /\ res'.body_write = res.body_write
        /\ res'.body_size = res.body_size /\ res'.buf = res.buf
    BY <1>4, <2>1 DEF ResType
  <2>3. Headed(res') /\ Complete(req', res', Left')
    BY <1>2, <1>3, <2>2 DEF Headed, Complete, Left
  <2>4. Writing'
    BY <1>1, <1>2, <1>5, <2>2, <2>3 DEF Writing, Whole
  <2> QED BY <1>1, <1>2, <1>3, <2>1, <2>2, <2>4, ResponseStep
<1> DEFINE a == [res EXCEPT !.hdr = <<>>, !.header_sent = TRUE]
<1>6. ASSUME wire' = wire \o res.hdr,
             IF res.body_size = 0 \/ req.mthd = "HEAD" THEN ResponseDone(a)
             ELSE ResponseGoesOn(a)
      PROVE  Kept' /\ Said'
  <2>1. /\ a.header_sent /\ a.body_write = 0 /\ a.body_size = res.body_size /\ a.buf = res.buf
        /\ ~a.write_finished
    BY <1>2, <1>4 DEF Headed, ResType
  <2>2. /\ Len(wire') = Len(wire) + 1 /\ Len(wire) \in Nat /\ wire' # <<>>
        /\ wire'[Len(wire) + 1].got = 0 /\ wire'[Len(wire) + 1].len = res.hdr[1].len
        /\ \A i \in 1 .. Len(wire) : wire'[i] = wire[i]
    BY <1>2, <1>4, <1>6, Appended DEF Headed
  <2>3. \A i \in 1 .. Len(wire) : wire'[i].got = wire'[i].len
    BY <1>2, <2>2 DEF Whole
  <2> HIDE DEF a
  <2>4. CASE res.body_size = 0 \/ req.mthd = "HEAD"
    <3>1. /\ ~client_w' /\ state' \in {"REQ_CLEAR", "REQ_SKIP_BODY_CHUNKED"}
      BY <1>6, <2>4 DEF ResponseDone
    <3>2. res.hdr[1].len = 0
      BY <1>2, <2>4 DEF Complete
    <3>3. \A i \in 1 .. Len(wire') : i \in 1 .. Len(wire) \/ i = Len(wire) + 1
      BY <2>2
    <3>4. Writing'
      BY <2>2, <2>3, <3>1, <3>2, <3>3 DEF Writing, Whole
    <3> QED BY <1>2, <1>3, <3>1, <3>4, ResponseStep
  <2>5. CASE ~(res.body_size = 0 \/ req.mthd = "HEAD")
    <3>1. res' = a /\ state' = state /\ client_w' = client_w
      BY <1>6, <2>5 DEF ResponseGoesOn
    <3>2. res.hdr[1].len = res.body_size /\ Left = res.body_size
      BY <1>2, <2>5 DEF Complete
    <3>3. Left' = Left /\ res.body_size \in Nat
      BY <1>3, <1>4, <2>1, <3>1 DEF Left, ResType
    <3>4. Len(wire') - 1 = Len(wire)
      BY <2>2
    <3>5. Writing'
      BY <1>1, <2>1, <2>2, <2>3, <3>1, <3>2, <3>3, <3>4 DEF Writing, Whole
    <3> QED BY <1>1, <1>2, <1>3, <2>1, <3>1, <3>5, ResponseStep
  <2> QED BY <2>4, <2>5
<1> QED BY <1>5, <1>6 DEF WriteHeader

LEMMA WriteBodyStep == ASSUME TypeOK, Kept, Said, WriteBody PROVE Kept' /\ Said'
<1>1. client_w /\ res.header_sent
  BY DEF WriteBody
<1>2. /\ AllFree(fds) /\ ~Fresh /\ ~res.write_finished
      /\ wire # <<>> /\ Whole(Len(wire) - 1)
      /\ wire[Len(wire)].got = res.body_write /\ wire[Len(wire)].len = res.body_size
      /\ res.body_write + Left = res.body_size
  BY <1>1, WritingNow DEF Writing
<1>3. /\ fds' = fds /\ req' = req /\ disk' = disk /\ failing' = failing
  BY DEF WriteBody
<1>4. PICK n \in (IF Left = 0 THEN {0} ELSE 1 .. Left) :
           LET a == [res EXCEPT !.body_write = @ + n, !.buf = IF req.is_cgi THEN @ ELSE @ - n]
           IN  /\ cgi' = IF req.is_cgi THEN [cgi EXCEPT !.from = @ - n] ELSE cgi
               /\ wire' = IF wire = <<>> THEN wire ELSE [wire EXCEPT ![Len(wire)].got = @ + n]
               /\ IF a.body_write = res.body_size THEN ResponseDone(a) ELSE ResponseGoesOn(a)
  BY DEF WriteBody, Left
<1> DEFINE a == [res EXCEPT !.body_write = @ + n, !.buf = IF req.is_cgi THEN @ ELSE @ - n]
<1>5. /\ res \in ResType /\ cgi \in CgiType /\ wire \in Seq(ResponseType)
      /\ res.body_write \in Nat /\ res.buf \in Nat /\ cgi.from \in Nat /\ res.body_size \in Nat
      /\ Left \in Nat
  BY DEF TypeOK, ResType, CgiType, Left
<1>6. n \in 0 .. Left
  BY <1>5
<1>7. /\ a.body_write = res.body_write + n /\ a.body_size = res.body_size
      /\ a.header_sent = res.header_sent /\ ~a.write_finished
      /\ a.buf = IF req.is_cgi THEN res.buf ELSE res.buf - n
  BY <1>2, <1>5 DEF ResType
<1>8. IF req.is_cgi THEN cgi'.from = cgi.from - n ELSE cgi' = cgi
  BY <1>4, <1>5 DEF CgiType
<1>9. IF a.body_write = res.body_size THEN ResponseDone(a) ELSE ResponseGoesOn(a)
  BY <1>4
<1> HIDE DEF a
<1> DEFINE l == Len(wire)
<1>10. /\ Len(wire') = l /\ l \in Nat /\ l # 0 /\ wire' # <<>>
       /\ \A i \in 1 .. l : i # l => wire'[i] = wire[i]
       /\ wire'[l].got = res.body_write + n /\ wire'[l].len = res.body_size
  <2>1. wire' = [wire EXCEPT ![l].got = @ + n]
    BY <1>2, <1>4
  <2>2. l \in 1 .. l /\ l \in Nat
    BY <1>2, <1>5
  <2>3. wire[l] \in ResponseType
    BY <1>5, <2>2
  <2>4. wire' \in Seq(ResponseType) /\ Len(wire') = l
    <3>1. [wire[l] EXCEPT !.got = @ + n] \in ResponseType
      BY <1>5, <1>6, <2>3, GotMore
    <3> QED BY <1>5, <2>1, <2>2, <3>1
  <2>5. wire'[l] = [wire[l] EXCEPT !.got = @ + n] /\ \A i \in 1 .. l : i # l => wire'[i] = wire[i]
    BY <1>5, <2>1, <2>2
  <2> QED BY <1>2, <2>2, <2>3, <2>4, <2>5 DEF ResponseType
<1>11. \A i \in 1 .. l - 1 : wire'[i].got = wire'[i].len
  BY <1>2, <1>10 DEF Whole
<1>12. CASE a.body_write = res.body_size
  <2>1. /\ ~client_w' /\ state' \in {"REQ_CLEAR", "REQ_SKIP_BODY_CHUNKED"}
    BY <1>9, <1>12 DEF ResponseDone
  <2>2. wire'[l].got = wire'[l].len
    BY <1>7, <1>10, <1>12
  <2>3. \A i \in 1 .. Len(wire') : i \in 1 .. l - 1 \/ i = l
    BY <1>10
  <2>4. Writing'
    BY <1>11, <2>1, <2>2, <2>3 DEF Writing, Whole
  <2> QED BY <1>2, <1>3, <2>1, <2>4, ResponseStep
<1>13. CASE a.body_write # res.body_size
  <2>1. res' = a /\ state' = state /\ client_w' = client_w
    BY <1>9, <1>13 DEF ResponseGoesOn
  <2>2. Left' = Left - n
    BY <1>3, <1>5, <1>7, <1>8, <2>1 DEF Left
  <2>3. res'.body_write + Left' = res'.body_size
    BY <1>2, <1>5, <1>6, <1>7, <2>1, <2>2
  <2>4. Writing'
    BY <1>1, <1>7, <1>10, <1>11, <2>1, <2>3 DEF Writing, Whole
  <2> QED BY <1>1, <1>2, <1>3, <1>7, <2>1, <2>4, ResponseStep
<1> QED BY <1>12, <1>13

-----------------------------------------------------------------------------
(* Events on the other descriptors.                                        *)

\* While something is open nothing is being written.
LEMMA Holding ==
  ASSUME TypeOK, Kept, Said, NEW f \in Fd, fds[f].kind # "free"
  PROVE  /\ ~client_w /\ ~res.write_finished /\ ~Fresh /\ Whole(Len(wire)) /\ failing = 0
         /\ PageOwned(f) /\ UploadOwned(f) /\ PipeOwned(f) /\ StdinOwned(f)
         /\ fds[f] \in FdType /\ fds[f].n \in Nat
         /\ fds[f].kind \in {"upload", "pipe", "stdin"} => res = NewRes
         /\ fds[f].kind # "upload" => req.body_buf = 0
<1>1. ~client_w /\ ~res.write_finished /\ ~Fresh
  BY DEF Kept, Quiet, AllFree
<1>2. Whole(Len(wire)) /\ failing = 0
  BY <1>1 DEF Said, Writing, Kept
<1>3. PageOwned(f) /\ UploadOwned(f) /\ PipeOwned(f) /\ StdinOwned(f)
  BY DEF Kept, Owners
<1>4. fds[f] \in FdType /\ fds[f].n \in Nat
  BY DEF TypeOK, TableType, FdType
<1>5. fds[f].kind \in {"upload", "pipe", "stdin"} => res = NewRes
  BY <1>3 DEF Said, Unanswered, StdinOwned, Open
<1>6. ASSUME fds[f].kind # "upload", req.body_buf # 0 PROVE FALSE
  <2>1. Open(req.body_fd, "upload")
    BY <1>6 DEF Kept, Taken
  <2>2. Alone(fds, req.body_fd)
    BY <2>1 DEF Kept, Owners, UploadOwned, Open
  <2> QED BY <1>6, <2>1, <2>2 DEF Alone, Open
<1> QED BY <1>1, <1>2, <1>3, <1>4, <1>5, <1>6

LEMMA ReadPageStep ==
  ASSUME TypeOK, Kept, Said, NEW f \in Fd, read_to_res_buffer_(f)
  PROVE  Kept' /\ Said'
<1>1. fds[f].kind \in {"page", "pipe"} /\ ~req.is_cgi
  BY DEF read_to_res_buffer_, Readable
<1>2. /\ ~client_w /\ ~res.write_finished /\ ~Fresh /\ Whole(Len(wire)) /\ failing = 0
      /\ PageOwned(f) /\ PipeOwned(f) /\ fds[f] \in FdType
      /\ fds[f].kind # "upload" => req.body_buf = 0
  BY <1>1, Holding
<1>3. fds[f].kind = "page" /\ f = res.body_fd /\ NoWriter(fds, f) /\ Alone(fds, f)
      /\ req.body_buf = 0
  BY <1>1, <1>2 DEF PipeOwned, PageOwned
<1>4. /\ Headed(res) /\ res.buf = res.body_read
      /\ res.hdr[1].len = res.body_size /\ req.mthd # "HEAD"
  BY <1>3 DEF Said, PageRead
<1>5. PICK n \in 1 .. fds[f].n :
       /\ res' = [res EXCEPT !.buf = @ + n, !.body_read = @ + n]
       /\ IF res.body_read + n = res.body_size
          THEN fds' = CloseFds(fds, {f}) /\ client_w' = TRUE
          ELSE fds' = [fds EXCEPT ![f].n = @ - n] /\ UNCHANGED client_w
  BY DEF read_to_res_buffer_
<1>6. /\ req' = req /\ state' = state /\ disk' = disk /\ failing' = failing /\ wire' = wire
      /\ cgi' = cgi
  BY DEF read_to_res_buffer_
<1>7. res \in ResType /\ fds \in TableType
  BY DEF TypeOK
<1>8. /\ res'.buf = res.buf + n /\ res'.body_read = res.body_read + n
      /\ res'.hdr = res.hdr /\ res'.body_size = res.body_size /\ res'.body_fd = res.body_fd
      /\ res'.header_sent = res.header_sent /\ res'.write_finished = res.write_finished
      /\ res'.body_write = res.body_write
  BY <1>5, <1>7 DEF ResType
<1>9. Headed(res') /\ res'.buf = res'.body_read /\ res'.hdr[1].len = res'.body_size
  BY <1>4, <1>8 DEF Headed
<1>10. /\ disk.st # "partial"
       /\ state \notin {"REQ_BODY", "REQ_BODY_CHUNKED", "REQ_CGI_BODY", "REQ_CGI_BODY_CHUNKED"}
  <2>1. \A g : ~Open(g, "upload") /\ ~Open(g, "stdin")
    BY <1>3 DEF Open, Alone
  <2> QED BY <2>1 DEF Kept, Taken
<1>11. Taken'
  BY <1>3, <1>6, <1>10 DEF Taken
<1>12. ~Fresh' /\ ~(state' \in Start) /\ Whole(Len(wire))'
  BY <1>2, <1>6 DEF Fresh, Whole
<1>13. CASE res.body_read + n = res.body_size
  <2>1. fds' = CloseFds(fds, {f}) /\ client_w'
    BY <1>5, <1>13
  <2>2. AllFree(fds')
    BY <1>3, <1>7, <2>1, Closed DEF Alone, AllFree
  <2>3. Owners' /\ Unanswered' /\ PageRead'
    BY <1>12, <2>2 DEF Owners, PageOwned, UploadOwned, PipeOwned, StdinOwned, AllFree,
                       Unanswered, PageRead
  <2>4. Quiet'
    BY <1>2, <1>8, <1>12, <2>2 DEF Quiet
  <2>5. Complete(req', res', Left')
    BY <1>1, <1>4, <1>6, <1>8, <1>9, <1>13 DEF Complete, Left
  <2>6. Writing'
    BY <1>9, <1>12, <2>5 DEF Writing, Headed
  <2> QED BY <1>2, <1>6, <1>11, <2>3, <2>4, <2>6 DEF Kept, Said
<1>14. CASE res.body_read + n # res.body_size
  <2>1. fds' = [fds EXCEPT ![f].n = @ - n] /\ client_w' = client_w
    BY <1>5, <1>14
  <2>2. /\ fds'[f].kind = "page" /\ fds'[f].ev = fds[f].ev
        /\ \A g \in Fd : g # f => fds'[g].kind = "free"
    BY <1>2, <1>3, <1>7, <2>1 DEF TableType, FdType, Alone
  <2>3. NoWriter(fds', f) /\ Alone(fds', f)
    BY <1>3, <2>2 DEF NoWriter, Alone
  <2>4. Owners'
    BY <1>1, <1>3, <1>6, <1>8, <2>2, <2>3 DEF Owners, PageOwned, UploadOwned, PipeOwned, StdinOwned
  <2>5. Unanswered' /\ Quiet'
    BY <1>2, <1>8, <1>12, <2>1, <2>2 DEF Unanswered, Quiet
  <2>6. PageRead'
    BY <1>4, <1>6, <1>9 DEF PageRead
  <2>7. Writing'
    BY <1>2, <1>12, <2>1 DEF Writing
  <2> QED BY <1>2, <1>6, <1>11, <2>4, <2>5, <2>6, <2>7 DEF Kept, Said
<1> QED BY <1>13, <1>14

\* Part of what a script writes is read.
LEMMA PipeDrained ==
  ASSUME TypeOK, Kept, Said, NEW f \in Fd, fds[f].kind = "pipe", NEW n,
         fds' = [fds EXCEPT ![f].n = @ - n], cgi' = [cgi EXCEPT !.from = @ + n],
         UNCHANGED <<state, req, res, client_w, failing, disk, wire>>
  PROVE  Kept' /\ Said'
<1>1. PipeOwned(f) /\ fds[f] \in FdType
  BY Holding
<1>2. fds \in TableType /\ cgi \in CgiType
  BY DEF TypeOK
<1>3. SameFds(fds, fds')
  BY <1>1, <1>2 DEF SameFds, TableType, FdType, NoWriter
<1>4. SameResponse
  BY <1>1, <1>2 DEF SameResponse, PipeOwned, Open, CgiType
<1>5. SameRequest /\ GoesOn
  BY DEF SameRequest, GoesOn
<1> QED BY <1>3, <1>4, <1>5, NothingHappens

LEMMA ReadPipeStep ==
  ASSUME TypeOK, Kept, Said, NEW f \in Fd, read_to_cgi_buffer_(f)
  PROVE  Kept' /\ Said'
<1>1. fds[f].kind \in {"page", "pipe"} /\ req.is_cgi
  BY DEF read_to_cgi_buffer_, Readable
<1>2. fds[f].kind = "pipe"
  BY <1>1, Holding DEF PageOwned
<1>3. PICK n \in 1 .. fds[f].n :
       /\ cgi' = [cgi EXCEPT !.from = @ + n]
       /\ fds' = [fds EXCEPT ![f].n = @ - n]
  BY DEF read_to_cgi_buffer_
<1>4. UNCHANGED <<state, req, res, client_w, failing, disk, wire>>
  BY DEF read_to_cgi_buffer_
<1> QED BY <1>2, <1>3, <1>4, PipeDrained

\* Once all a script wrote is read its pipe was the last descriptor: a script
\* that reads its input has had the end of it.
LEMMA PipeWasLast ==
  ASSUME TypeOK, Kept, Said, NEW f \in Fd, fds[f].kind = "pipe", ~AwaitsInput(fds, f)
  PROVE  /\ AllFree(CloseFds(fds, {f})) /\ disk.st # "partial" /\ req.body_buf = 0
         /\ state \notin {"REQ_BODY", "REQ_BODY_CHUNKED", "REQ_CGI_BODY", "REQ_CGI_BODY_CHUNKED"}
<1>1. PipeOwned(f) /\ req.body_buf = 0
  BY Holding
<1>2. f = cgi.rfd /\ req.is_cgi /\ GoodScript(fds[f])
  BY <1>1 DEF PipeOwned
<1>3. fds \in TableType
  BY DEF TypeOK
<1>4. ASSUME NEW g \in Fd, g # f, fds[g].kind # "free" PROVE FALSE
  <2>1. /\ PageOwned(g) /\ UploadOwned(g) /\ PipeOwned(g) /\ StdinOwned(g) /\ fds[g] \in FdType
    BY <1>4, Holding
  <2>2. fds[g].kind = "stdin"
    BY <1>2, <1>4, <2>1 DEF PageOwned, UploadOwned, PipeOwned, FdType
  <2>3. fds[f].peer = g /\ fds[g].peer = f
    BY <1>2, <2>1, <2>2 DEF StdinOwned
  <2>4. fds[f].run.reads
    BY <1>2, <2>3 DEF GoodScript
  <2> QED BY <2>2, <2>3, <2>4 DEF AwaitsInput
<1>5. AllFree(CloseFds(fds, {f}))
  BY <1>3, <1>4, Closed DEF AllFree
<1>6. \A g : ~Open(g, "upload") /\ ~Open(g, "stdin")
  BY <1>4 DEF Open
<1> QED BY <1>1, <1>5, <1>6 DEF Kept, Taken

LEMMA PipeEofStep ==
  ASSUME TypeOK, Kept, Said, NEW f \in Fd, PipeEof(f)
  PROVE  Kept' /\ Said'
<1>1. fds[f].kind = "pipe" /\ ~AwaitsInput(fds, f)
  BY DEF PipeEof
<1>2. /\ ~client_w /\ ~res.write_finished /\ ~Fresh /\ Whole(Len(wire)) /\ failing = 0
      /\ PipeOwned(f) /\ fds[f] \in FdType /\ fds[f].n \in Nat /\ res = NewRes
  BY <1>1, Holding
<1>3. UNCHANGED <<state, req, failing, disk, wire>>
  BY DEF PipeEof
<1>4. PICK n \in (IF fds[f].n = 0 THEN {0} ELSE 1 .. fds[f].n) :
       IF n < fds[f].n
       THEN /\ cgi' = [cgi EXCEPT !.from = @ + n]
            /\ fds' = [fds EXCEPT ![f].n = @ - n]
            /\ UNCHANGED <<res, client_w>>
       ELSE /\ fds' = CloseFds(fds, {f})
            /\ IF fds[f].run.form # "none" /\ cgi.from + n > fds[f].run.out
               THEN /\ cgi' = [cgi EXCEPT !.from = @ + n - 1, !.cgi_done = TRUE,
                                          !.cgi_state = "CGI_HOLD"]
                    /\ res' = make_cgi_response_header_(req, res, cgi.from + n - 1,
                                                        fds[f].run.form)
                    /\ client_w' = TRUE
               ELSE /\ cgi' = [cgi EXCEPT !.from = @ + n, !.cgi_done = TRUE,
                                          !.cgi_state = "CGI_HEADER"]
                    /\ UNCHANGED <<res, client_w>>
  BY DEF PipeEof
<1>5. CASE n < fds[f].n
  BY <1>1, <1>3, <1>4, <1>5, PipeDrained
<1>6. CASE ~(n < fds[f].n)
  <2>1. /\ AllFree(fds') /\ disk.st # "partial" /\ req.body_buf = 0
        /\ state \notin {"REQ_BODY", "REQ_BODY_CHUNKED", "REQ_CGI_BODY", "REQ_CGI_BODY_CHUNKED"}
    BY <1>1, <1>4, <1>6, PipeWasLast
  <2>2. Owners' /\ Taken' /\ PageRead' /\ Unanswered' /\ ~Fresh' /\ Whole(Len(wire))'
    BY <1>2, <1>3, <2>1 DEF Owners, PageOwned, UploadOwned, PipeOwned, StdinOwned, AllFree,
                            Taken, PageRead, Unanswered, Fresh, Whole
  <2>3. CASE fds[f].run.form # "none" /\ cgi.from + n > fds[f].run.out
    <3> DEFINE k == cgi.from + n - 1
               h == HeaderBlock(req, 200, k)
    <3>1. /\ cgi' = [cgi EXCEPT !.from = @ + n - 1, !.cgi_done = TRUE, !.cgi_state = "CGI_HOLD"]
          /\ res' = make_cgi_response_header_(req, NewRes, k, fds[f].run.form)
          /\ client_w'
      BY <1>2, <1>4, <1>6, <2>3
    <3>2. fds[f].run.form # "length" /\ req.is_cgi
      BY <1>1, <1>2 DEF PipeOwned, GoodScript
    <3>3. k \in Nat
      <4>1. cgi.from \in Nat /\ n \in Nat /\ fds[f].run.out \in Nat
        BY <1>1, <1>2, ScriptsAssumption DEF TypeOK, CgiType, FdType, ScriptType
      <4> QED BY <2>3, <4>1
    <3>4. cgi'.from = k
      BY <3>1 DEF TypeOK, CgiType
    <3> HIDE DEF k
    <3>5. res' = [NewRes EXCEPT !.hdr = @ \o h, !.body_size = k]
      BY <3>1, <3>2 DEF make_cgi_response_header_
    <3>6. /\ NewRes.hdr \o h = h /\ Len(h) = 1 /\ h[1].got = 0
          /\ h[1].len = IF req.mthd = "HEAD" THEN 0 ELSE k
      BY <3>3, OneHeader
    <3> HIDE DEF h
    <3>7. /\ res'.hdr = h /\ res'.body_size = k /\ ~res'.header_sent /\ ~res'.write_finished
          /\ res'.body_write = 0
      BY <3>5, <3>6 DEF NewRes
    <3>8. Headed(res') /\ Complete(req', res', Left')
      BY <1>3, <3>2, <3>4, <3>6, <3>7 DEF Headed, Complete, Left
    <3>9. Writing'
      BY <2>2, <3>7, <3>8 DEF Writing
    <3>10. Quiet'
      BY <2>1, <2>2, <3>7 DEF Quiet
    <3> QED BY <1>2, <1>3, <2>2, <3>9, <3>10 DEF Kept, Said
  <2>4. CASE ~(fds[f].run.form # "none" /\ cgi.from + n > fds[f].run.out)
    <3>1. res' = res /\ client_w' = client_w
      BY <1>4, <1>6, <2>4
    <3>2. Quiet' /\ Writing'
      BY <1>2, <2>1, <2>2, <3>1 DEF Quiet, Writing
    <3> QED BY <1>2, <1>3, <2>2, <3>2 DEF Kept, Said
  <2> QED BY <2>3, <2>4
<1> QED BY <1>5, <1>6

LEMMA StdinEofStep ==
  ASSUME TypeOK, Kept, Said, NEW f \in Fd
  PROVE  ~StdinEof(f)
<1> SUFFICES ASSUME StdinEof(f) PROVE FALSE
  OBVIOUS
<1>1. fds[f].kind = "stdin" /\ ~fds[f].run.reads
  BY DEF StdinEof
<1> QED BY <1>1, Holding DEF StdinOwned

LEMMA WriterKind ==
  ASSUME TypeOK, Kept, Said, NEW f \in Fd, "W" \in fds[f].ev
  PROVE  \/ fds[f].kind = "upload" /\ f = req.body_fd
         \/ fds[f].kind = "stdin" /\ f # req.body_fd
<1>1. fds[f].kind # "free"
  BY DEF TypeOK, TableType, FreeFd
<1> QED BY <1>1, Holding, FdAssumption
     DEF PageOwned, PipeOwned, UploadOwned, StdinOwned, NoWriter, FdType

LEMMA UploadStep ==
  ASSUME TypeOK, Kept, Said, NEW f \in Fd, write_for_upload_(f)
  PROVE  Kept' /\ Said'
<1>1. fds[f].kind = "upload" /\ f = req.body_fd
  BY WriterKind DEF write_for_upload_, Writable
<1>2. /\ ~client_w /\ ~res.write_finished /\ ~Fresh /\ Whole(Len(wire)) /\ failing = 0
      /\ UploadOwned(f) /\ res = NewRes
  BY <1>1, Holding
<1>3. Alone(fds, f) /\ ~req.is_cgi /\ req.mthd \in {"POST", "PUT"} /\ req.uri \in Targets
  BY <1>1, <1>2 DEF UploadOwned, TypeOK
<1> DEFINE left == IF req.is_chnkd THEN chnkd.body ELSE req.body_buf
           r(n) == IF req.is_chnkd THEN [req EXCEPT !.body_read = @ + n]
                   ELSE [req EXCEPT !.body_buf = @ - n]
<1>4. PICK n \in (IF left = 0 THEN {0} ELSE 1 .. left) :
        /\ req' = r(n)
        /\ disk' = [disk EXCEPT !.stored = @ + n, !.st = IF BodyStored(r(n)) THEN "whole" ELSE @]
        /\ IF BodyStored(r(n)) THEN UploadDone(f, r(n))
           ELSE UNCHANGED <<state, fds, res, client_w>>
  BY DEF write_for_upload_
<1>5. wire' = wire /\ cgi' = cgi /\ failing' = failing
  BY DEF write_for_upload_
<1>6. req \in ReqType /\ req.body_buf \in Nat /\ fds \in TableType /\ chnkd.body \in Nat
      /\ disk \in DiskType
  BY DEF TypeOK, ReqType, ChnkdType
<1>7. n \in Nat /\ (~req.is_chnkd => n \in 0 .. req.body_buf)
  BY <1>6
<1>8. /\ req'.is_cgi = req.is_cgi /\ req'.body_fd = req.body_fd /\ req'.is_chnkd = req.is_chnkd
      /\ req'.mthd = req.mthd /\ req'.uri = req.uri
      /\ req'.body_buf = IF req.is_chnkd THEN req.body_buf ELSE req.body_buf - n
  BY <1>4, <1>6 DEF ReqType
<1>9. req' \in ReqType
  <2>1. req.body_read \in Nat
    BY <1>6 DEF ReqType
  <2>2. req.body_read + n \in Nat /\ (~req.is_chnkd => req.body_buf - n \in Nat)
    BY <1>6, <1>7, <2>1
  <2> QED BY <1>4, <1>6, <2>2 DEF ReqType
<1>10. req.body_buf # 0 => ~req.is_chnkd /\ state # "REQ_BODY_CHUNKED"
  BY DEF Kept, Taken
<1>11. /\ IF BodyStored(req') THEN UploadDone(f, req')
          ELSE UNCHANGED <<state, fds, res, client_w>>
       /\ disk' = [disk EXCEPT !.stored = @ + n, !.st = IF BodyStored(req') THEN "whole" ELSE @]
  BY <1>4
<1> HIDE DEF r, left
<1>12. CASE ~BodyStored(req')
  <2>1. fds' = fds /\ state' = state /\ res' = res /\ client_w' = client_w /\ disk'.st = disk.st
    BY <1>6, <1>11, <1>12 DEF DiskType
  <2>2. SameRequest
    <3>1. req.body_buf = 0 => req'.body_buf = req.body_buf
      BY <1>6, <1>7, <1>8
    <3> QED BY <1>1, <1>5, <1>8, <1>10, <2>1, <3>1 DEF SameRequest, Open
  <2>3. SameResponse /\ GoesOn
    BY <1>5, <2>1 DEF SameResponse, GoesOn
  <2> QED BY <2>1, <2>2, <2>3, FdsUntouched, NothingHappens
<1>13. CASE BodyStored(req')
  <2> DEFINE tbl == CloseFds(fds, {f})
  <2>1. UploadDone(f, req') /\ disk'.st # "partial"
    BY <1>6, <1>11, <1>13 DEF DiskType
  <2>2. tbl \in TableType /\ AllFree(tbl)
    BY <1>3, <1>6, Closed, CloseTyped DEF Alone, AllFree
  <2>3. PICK rr : rr = req'
    OBVIOUS
  <2>4. PICK o \in make_response_header_(rr, NewRes, tbl) : res' = o.res /\ fds' = o.fds
    BY <1>2, <2>1, <2>3 DEF UploadDone
  <2>5. rr \in ReqType /\ rr.uri \in Targets /\ rr.mthd \in {"POST", "PUT"}
    BY <1>3, <1>8, <1>9, <2>3
  <2> HIDE DEF tbl
  <2>6. /\ Answer(rr, o, tbl) /\ Ready(rr, o, tbl) /\ o.fds \in TableType
    BY <2>2, <2>4, <2>5, HeaderAnswer, HeaderOutcome, NewTyped DEF OutcomeTyped
  <2>7. client_w' = o.w
    BY <2>1, <2>6 DEF UploadDone, Ready
  <2>8. state' \in Refused \cup {"E_BAD_REQ"}
    BY <2>1 DEF UploadDone, Refused
  <2>9. req'.body_buf = 0
    BY <1>8, <1>10, <1>13 DEF BodyStored
  <2>10. req'.mthd = rr.mthd /\ ~req'.is_cgi /\ failing' = 0
    BY <1>2, <1>3, <1>5, <1>8, <2>3
  <2> QED BY <1>2, <1>5, <2>1, <2>2, <2>4, <2>6, <2>7, <2>8, <2>9, <2>10, AnswerMade
<1> QED BY <1>12, <1>13

LEMMA WriteCgiStep ==
  ASSUME TypeOK, Kept, Said, NEW f \in Fd, write_to_cgi_(f)
  PROVE  Kept' /\ Said'
<1>1. fds[f].kind = "stdin" /\ f # req.body_fd
  BY WriterKind DEF write_to_cgi_, Writable
<1>2. /\ ~client_w /\ ~res.write_finished /\ ~Fresh /\ Whole(Len(wire)) /\ failing = 0
      /\ StdinOwned(f) /\ res = NewRes /\ req.body_buf = 0
  BY <1>1, Holding
<1>3. /\ req' = req /\ res' = res /\ client_w' = client_w /\ failing' = failing /\ disk' = disk
      /\ wire' = wire
  BY DEF write_to_cgi_
<1>4. /\ cgi'.rfd = cgi.rfd /\ cgi'.wfd = cgi.wfd /\ cgi'.from = cgi.from
      /\ \/ fds' = CloseFds(fds, {f}) /\ state' = "REQ_HOLD"
         \/ UNCHANGED <<fds, state>>
  BY DEF write_to_cgi_, TypeOK, CgiType
<1>5. CASE UNCHANGED <<fds, state>>
  <2>1. SameRequest /\ SameResponse /\ GoesOn /\ fds' = fds
    BY <1>3, <1>4, <1>5 DEF SameRequest, SameResponse, GoesOn
  <2> QED BY <2>1, FdsUntouched, NothingHappens
<1>6. CASE fds' = CloseFds(fds, {f}) /\ state' = "REQ_HOLD"
  <2>1. fds'[f].kind = "free" /\ \A g \in Fd : g # f => fds'[g] = fds[g]
    BY <1>6, Closed DEF TypeOK
  <2>2. f = cgi.wfd
    BY <1>1, <1>2 DEF StdinOwned
  <2>3. \A g : ~Open(g, "upload")
    BY <1>1 DEF Kept, Owners, UploadOwned, Alone, Open
  <2>4. ASSUME NEW g \in Fd
        PROVE  PageOwned(g)' /\ UploadOwned(g)' /\ PipeOwned(g)' /\ StdinOwned(g)'
    <3>1. CASE g = f
      BY <2>1, <3>1 DEF PageOwned, UploadOwned, PipeOwned, StdinOwned
    <3>2. CASE g # f
      <4>1. PageOwned(g) /\ UploadOwned(g) /\ PipeOwned(g) /\ StdinOwned(g)
        BY DEF Kept, Owners
      <4>2. fds[g].kind \notin {"page", "upload", "stdin"}
        BY <1>1, <2>2, <3>2, <4>1 DEF PageOwned, UploadOwned, StdinOwned, Alone
      <4> QED BY <1>3, <1>4, <2>1, <3>2, <4>1, <4>2
              DEF PageOwned, UploadOwned, PipeOwned, StdinOwned, NoWriter
    <3> QED BY <3>1, <3>2
  <2>5. Quiet'
    BY <1>2, <1>3, <1>6 DEF Quiet, Fresh, Start
  <2>6. Taken'
    BY <1>2, <1>3, <1>6, <2>3 DEF Kept, Taken
  <2>7. Unanswered'
    BY <1>2, <1>3 DEF Unanswered
  <2>8. PageRead'
    BY <1>3, <2>1 DEF PageRead, Said
  <2>9. Writing'
    BY <1>2, <1>3 DEF Writing, Whole
  <2> QED BY <1>2, <1>3, <2>4, <2>5, <2>6, <2>7, <2>8, <2>9 DEF Kept, Said, Owners
<1> QED BY <1>4, <1>5, <1>6

LEMMA FramingKept == ASSUME TypeOK, Said PROVE WellFramed
<1>1. /\ \A i \in 1 .. Len(wire) : wire[i].got \in Nat /\ wire[i].len \in Nat
      /\ Len(wire) \in Nat
      /\ res.body_write \in Nat /\ res.body_size \in Nat /\ Left \in Nat
  <2>1. wire \in Seq(ResponseType)
    BY DEF TypeOK
  <2>2. \A i \in 1 .. Len(wire) : wire[i] \in ResponseType
    BY <2>1
  <2>3. \A v \in ResponseType : v.got \in Nat /\ v.len \in Nat
    BY DEF ResponseType
  <2>4. res.body_write \in Nat /\ res.body_size \in Nat /\ Left \in Nat
    BY DEF TypeOK, ResType, CgiType, Left
  <2> QED BY <2>1, <2>2, <2>3, <2>4
<1> DEFINE l == Len(wire)
<1>2. \A i \in 1 .. l - 1 : wire[i].got = wire[i].len
  BY <1>1 DEF Said, Writing, Whole
<1>3. l # 0 => wire[l].got <= wire[l].len
  <2>1. CASE client_w /\ res.header_sent
    <3>1. /\ wire[l].got = res.body_write /\ wire[l].len = res.body_size
          /\ res.body_write + Left = res.body_size
      BY <2>1 DEF Said, Writing
    <3> QED BY <1>1, <3>1
  <2>2. CASE ~(client_w /\ res.header_sent)
    <3>1. \A i \in 1 .. l : wire[i].got = wire[i].len
      BY <2>2 DEF Said, Writing, Whole
    <3>2. l # 0 => l \in 1 .. l
      BY <1>1
    <3> QED BY <1>1, <3>1, <3>2
  <2> QED BY <2>1, <2>2
<1>4. \A i \in 1 .. l : i \in 1 .. l - 1 \/ (i = l /\ l # 0)
  BY <1>1
<1>5. \A i \in 1 .. l : i < l => i \in 1 .. l - 1
  BY <1>1
<1>6. \A i \in 1 .. l : wire[i].got <= wire[i].len
  BY <1>1, <1>2, <1>3, <1>4
<1> QED BY <1>2, <1>5, <1>6 DEF WellFramed

LEMMA HangUpStep == ASSUME TypeOK, Kept, Said, HangUp PROVE Done' /\ WellFramed'
<1>1. /\ fds' = CloseFds(fds, Held) /\ ~client_w' /\ failing' = failing /\ state' = state
      /\ req' = req /\ wire' = wire
      /\ disk' = IF req.body_fd \in Fd THEN [disk EXCEPT !.st = "removed"] ELSE disk
  BY DEF HangUp
<1>2. AllFree(fds')
  <2> SUFFICES ASSUME NEW f \in Fd PROVE fds'[f].kind = "free"
    BY DEF AllFree
  <2>1. CASE fds[f].kind = "free"
    BY <1>1, <2>1, Closed DEF TypeOK
  <2>2. CASE fds[f].kind # "free"
    <3>1. f \in Held
      BY <2>2, Holding DEF PageOwned, UploadOwned, PipeOwned, StdinOwned, FdType, Held
    <3> QED BY <1>1, <3>1, Closed DEF TypeOK
  <2> QED BY <2>1, <2>2
<1>3. disk'.st # "partial"
  <2>1. disk.st = "partial" => req.body_fd \in Fd
    BY DEF Kept, Taken, Open
  <2> QED BY <1>1, <2>1 DEF TypeOK, DiskType
<1>4. Fresh' => req'.body_buf = 0
  BY <1>1, StartUnheld DEF Fresh
<1>5. WellFramed
  BY FramingKept
<1>6. WellFramed' /\ failing' = 0
  BY <1>1, <1>5 DEF WellFramed, Kept
<1> QED BY <1>1, <1>2, <1>3, <1>4, <1>6 DEF Done

-----------------------------------------------------------------------------
(* Orderly conversations leave nothing behind and keep the framing.        *)

LEMMA InitOrderly == ASSUME TypeOK, Init PROVE OInv
<1>1. AllFree(fds)
  BY DEF Init, AllFree, FreeFd
<1>2. wire = <<>> /\ Len(wire) = 0
  BY DEF Init
<1>3. /\ res = NewRes /\ ~client_w /\ failing = 0 /\ disk.st = "none" /\ req.body_buf = 0
      /\ state = "REQ_LINE_PARSING" /\ pc = "wait"
  BY DEF Init, NewReq, NoFile
<1>4. Owners /\ PageRead
  BY <1>1 DEF Owners, PageOwned, UploadOwned, PipeOwned, StdinOwned, AllFree, PageRead
<1>5. Quiet /\ Taken /\ Unanswered
  BY <1>1, <1>3 DEF Quiet, Taken, Unanswered
<1>6. Writing
  BY <1>2, <1>3 DEF Writing, Whole
<1> QED BY <1>3, <1>4, <1>5, <1>6 DEF OInv, Kept, Said

LEMMA ControllerOrderly ==
  ASSUME TypeOK, UploadAccounted, Kept, Said, Orderly, req_res_controller_
  PROVE  Kept' /\ Said'
<1>1. CASE reset_ \/ ReadMore \/ header_field_parser_ \/ SkipBody \/ HoldBody
  BY <1>1, ResetStep, HeaderSteps
<1>2. CASE request_line_parser_
  BY <1>2, RequestLineRead, RequestLineRefused
<1>3. CASE Route
  BY <1>3, BadHostStep, NotServedStep, CgiStep, GetHeadStep, PostPutStep, DeleteStep DEF Route
<1>4. CASE state_req_body_ \/ CgiBody
  BY <1>4, BodySteps
<1>5. CASE ChunkedBody
  <2>1. ~BadChunkLine
    BY DEF BadChunkLine, BadChunk, AtChunkLine, InChunks, In, Orderly
  <2> QED BY <1>5, <2>1, FirstChunkStep, ChunkSteps, ChunkLineStep DEF ChunkedBody
<1>6. CASE SkipChunkedBody
  BY <1>6, SkipSteps
<1> QED BY <1>1, <1>2, <1>3, <1>4, <1>5, <1>6 DEF req_res_controller_

LEMMA EventOrderly ==
  ASSUME TypeOK, Kept, Said, NEW f \in Fd, FdEvent(f)
  PROVE  Kept' /\ Said'
BY ReadPageStep, ReadPipeStep, PipeEofStep, StdinEofStep, UploadStep, WriteCgiStep DEF FdEvent

\* A client that is gone does nothing, and one is gone by HangUp only.
LEMMA Gone ==
  ASSUME TypeOK, Handled
  PROVE  pc # "gone" /\ pc' # "gone"
<1>1. pc # "gone"
  BY DEF Handled, req_res_controller_, reset_, ReadMore, request_line_parser_,
         header_field_parser_, Route, BadHostRequest, NotServed, res_for_get_head_req_,
         res_for_delete_req_, res_for_post_put_req_, do_cgi_, HeaderEnds, state_req_body_,
         CgiBody, SkipBody, HoldBody, ChunkedBody, FirstChunk, ChunkData, ChunkEnd,
         ChunkLineMissing, ChunkLine, BadChunkLine, AtChunkLine, InChunks, SkipChunkedBody,
         SkipChunkData, SkipChunkEnd, SkipChunkLine, InSkip, In, Idle, Writable, Readable,
         read_to_client_buffer_, write_response_, WriteHeader, WriteBody, FdEvent,
         read_to_res_buffer_, read_to_cgi_buffer_, PipeEof, StdinEof, write_for_upload_,
         write_to_cgi_, proc_event_wait_pid
<1>2. CASE req_res_controller_
  <2>1. pc' = pc \/ Wait
    BY <1>2 DEF req_res_controller_, reset_, ReadMore, request_line_parser_,
         header_field_parser_, Route, BadHostRequest, NotServed, res_for_get_head_req_,
         res_for_delete_req_, res_for_post_put_req_, do_cgi_, state_req_body_,
         CgiBody, SkipBody, HoldBody, ChunkedBody, FirstChunk, ChunkData, ChunkEnd,
         ChunkLineMissing, ChunkLine, BadChunkLine, SkipChunkedBody,
         SkipChunkData, SkipChunkEnd, SkipChunkLine, BadChunk, Wait
  <2> QED BY <1>1, <2>1 DEF Wait
<1>3. CASE read_to_client_buffer_ \/ write_response_
  <2>1. \A s : Resume(s) => pc' # "gone"
    BY DEF Resume
  <2>2. \A a : ResponseDone(a) \/ ResponseGoesOn(a) => \E s : Resume(s)
    BY DEF ResponseDone, ResponseGoesOn
  <2>3. read_to_client_buffer_ => Resume(state)
    BY DEF read_to_client_buffer_
  <2>4. WriteHeader \/ WriteBody => \E a : ResponseDone(a) \/ ResponseGoesOn(a)
    BY DEF WriteHeader, WriteBody
  <2> QED BY <1>1, <1>3, <2>1, <2>2, <2>3, <2>4 DEF write_response_
<1>4. CASE (\E f \in Fd : FdEvent(f)) \/ proc_event_wait_pid
  BY <1>1, <1>4 DEF FdEvent, read_to_res_buffer_, read_to_cgi_buffer_, PipeEof, StdinEof,
              write_for_upload_, write_to_cgi_, proc_event_wait_pid
<1> QED BY <1>1, <1>2, <1>3, <1>4 DEF Handled

LEMMA StepOrderly ==
  ASSUME TypeOK, UploadAccounted, OInv, [Next]_vars, [Orderly]_vars
  PROVE  OInv'
<1>1. CASE Handled /\ Orderly
  <2>1. pc # "gone" /\ pc' # "gone" /\ Kept /\ Said
    BY <1>1, Gone DEF OInv
  <2>2. failing = 0
    BY <2>1 DEF Kept
  <2>3. ~proc_event_wait_pid
    BY <2>2 DEF proc_event_wait_pid
  <2>4. Kept' /\ Said'
    BY <1>1, <2>1, <2>3, ControllerOrderly, SocketRead, WriteHeaderStep, WriteBodyStep,
       EventOrderly DEF Handled, write_response_
  <2> QED BY <2>1, <2>4 DEF OInv
<1>2. CASE HangUp
  <2>1. pc = "wait" /\ pc' = "gone"
    BY <1>2 DEF HangUp, Idle
  <2>2. Done' /\ WellFramed'
    BY <1>2, <2>1, HangUpStep DEF OInv
  <2> QED BY <2>1, <2>2 DEF OInv
<1>3. CASE UNCHANGED vars
  <2>1. CASE pc = "gone"
    <3>1. Done' /\ WellFramed'
      BY <1>3, <2>1 DEF OInv, vars, inputVars, Done, AllFree, Fresh, WellFramed
    <3> QED BY <1>3, <2>1, <3>1 DEF OInv, vars
  <2>2. CASE pc # "gone"
    <3>1. Kept' /\ Said'
      BY <1>3, <2>2, Stutters DEF OInv
    <3> QED BY <1>3, <2>2, <3>1 DEF OInv, vars
  <2> QED BY <2>1, <2>2
<1> QED BY <1>1, <1>2, <1>3 DEF Next

LEMMA OrderlyMeans ==
  ASSUME TypeOK, OInv
  PROVE  /\ state = "REQ_LINE_PARSING" =>
              FreeIn(fds) = Fd /\ ~client_w /\ failing = 0 /\ req.body_buf = 0
         /\ pc = "gone" => FreeIn(fds) = Fd /\ disk.st # "partial"
         /\ WellFramed
<1>1. AllFree(fds) => FreeIn(fds) = Fd
  BY DEF AllFree, FreeIn
<1>2. CASE pc = "gone"
  BY <1>1, <1>2 DEF OInv, Done, Fresh, Start
<1>3. CASE pc # "gone"
  <2>1. Kept /\ Said
    BY <1>3 DEF OInv
  <2> QED BY <1>1, <1>3, <2>1, StartUnheld, FramingKept DEF Start, Unheld
<1> QED BY <1>2, <1>3

LEMMA SamePeer == ASSUME [Next]_vars PROVE talk' = talk
<1>1. peer' = peer
  BY DEF Next, vars, inputVars, Handled, req_res_controller_, reset_, ReadMore,
         request_line_parser_, header_field_parser_, Route, BadHostRequest, NotServed,
         res_for_get_head_req_, res_for_delete_req_, res_for_post_put_req_, do_cgi_, HeaderEnds,
         state_req_body_, CgiBody, SkipBody, HoldBody, ChunkedBody, FirstChunk, ChunkData,
         ChunkEnd, ChunkLineMissing, ChunkLine, BadChunkLine, SkipChunkedBody, SkipChunkData,
         SkipChunkEnd, SkipChunkLine, read_to_client_buffer_, write_response_, WriteHeader,
         WriteBody, FdEvent, read_to_res_buffer_, read_to_cgi_buffer_, PipeEof, StdinEof,
         write_for_upload_, write_to_cgi_, proc_event_wait_pid, HangUp
<1> QED BY <1>1 DEF talk

-----------------------------------------------------------------------------
(* The reading of a framed talk at the place the server has got to.        *)

At(i) == Readings[peer][i]
Here  == At(pos)

LEMMA SymbolsDiffer ==
  /\ CR # LF /\ CR # Byte /\ LF # Byte /\ Blank # Byte
  /\ Blank.t = "blank" /\ CR.t = "cr" /\ LF.t = "lf" /\ Byte.t = "byte"
<1>1. Blank.t = "blank" /\ CR.t = "cr" /\ LF.t = "lf" /\ Byte.t = "byte"
  BY DEF Blank, CR, LF, Byte, Sym
<1> QED BY <1>1

\* An empty line is found when its two bytes are there.
LEMMA EmptyLineRead ==
  ASSUME NEW b \in Seq(SymbolType), NEW p \in Nat, NEW r \in p .. Len(b), EmptyAt(b, p)
  PROVE  LET l == get_crlf_line_(b, p, r)
         IN  IF r < p + 2 THEN l.got = "none"
             ELSE l.got = "line" /\ l.end = p + 2 /\ l.text = Blank
<1>1. b[p+1] # LF /\ b[p+2] = LF /\ b[p+1] = CR
  BY SymbolsDiffer DEF EmptyAt
<1>2. CASE r < p + 2
  <2>1. \A e \in p+1 .. r : b[e] # LF
    BY <1>1, <1>2
  <2> QED BY <1>2, <2>1 DEF get_crlf_line_, IsFirstLF
<1>3. CASE r >= p + 2
  <2>1. p + 2 \in p+1 .. r /\ IsFirstLF(b, p, p + 2)
    BY <1>1, <1>3 DEF IsFirstLF
  <2>2. \A e \in p+1 .. r : IsFirstLF(b, p, e) => e = p + 2
    BY <1>1, <1>3 DEF IsFirstLF
  <2> DEFINE e == CHOOSE e \in p+1 .. r : IsFirstLF(b, p, e)
  <2>3. e = p + 2
    BY <2>1, <2>2
  <2> HIDE DEF e
  <2>4. get_crlf_line_(b, p, r) =
           IF e = p+1 \/ b[e-1] # CR
           THEN [got |-> "bare", end |-> p, text |-> Blank]
           ELSE [got  |-> "line", end |-> e,
                 text |-> CASE e = p+2 -> Blank
                            [] e = p+3 -> b[p+1]
                            [] OTHER   -> Junk]
    BY <2>1 DEF get_crlf_line_, e
  <2>5. e - 1 = p + 1 /\ e # p + 1
    BY <2>3
  <2>6. b[e-1] = CR
    BY <1>1, <2>5
  <2>7. get_crlf_line_(b, p, r) = [got |-> "line", end |-> p + 2, text |-> Blank]
    BY <2>3, <2>4, <2>5, <2>6
  <2> QED BY <1>3, <2>7
<1> QED BY <1>2, <1>3

\* So is a line of text, when its last byte is.
LEMMA TextLineRead ==
  ASSUME NEW b \in Seq(SymbolType), NEW p \in Nat, NEW r \in p .. Len(b), TextAt(b, p),
         b[p+1] # LF
  PROVE  LET l == get_crlf_line_(b, p, r)
         IN  IF r < p + 3 THEN l.got = "none"
             ELSE l.got = "line" /\ l.end = p + 3 /\ l.text = b[p+1]
<1>1. b[p+1] # LF /\ b[p+2] # LF /\ b[p+3] = LF /\ b[p+2] = CR
  BY SymbolsDiffer DEF TextAt
<1>2. CASE r < p + 3
  <2>1. \A e \in p+1 .. r : b[e] # LF
    BY <1>1, <1>2
  <2> QED BY <1>2, <2>1 DEF get_crlf_line_, IsFirstLF
<1>3. CASE r >= p + 3
  <2>1. p + 3 \in p+1 .. r /\ IsFirstLF(b, p, p + 3)
    BY <1>1, <1>3 DEF IsFirstLF
  <2>2. \A e \in p+1 .. r : IsFirstLF(b, p, e) => e = p + 3
    BY <1>1, <1>3 DEF IsFirstLF
  <2> DEFINE e == CHOOSE e \in p+1 .. r : IsFirstLF(b, p, e)
  <2>3. e = p + 3
    BY <2>1, <2>2
  <2> HIDE DEF e
  <2>4. get_crlf_line_(b, p, r) =
           IF e = p+1 \/ b[e-1] # CR
           THEN [got |-> "bare", end |-> p, text |-> Blank]
           ELSE [got  |-> "line", end |-> e,
                 text |-> CASE e = p+2 -> Blank
                            [] e = p+3 -> b[p+1]
                            [] OTHER   -> Junk]
    BY <2>1 DEF get_crlf_line_, e
  <2>5. e - 1 = p + 2 /\ e # p + 1 /\ e # p + 2
    BY <2>3
  <2>6. b[e-1] = CR
    BY <1>1, <2>5
  <2>7. get_crlf_line_(b, p, r) = [got |-> "line", end |-> p + 3, text |-> b[p+1]]
    BY <2>3, <2>4, <2>5, <2>6
  <2> QED BY <1>3, <2>7
<1> QED BY <1>2, <1>3

LEMMA FramedTalk ==
  ASSUME TypeOK, talk.framed
  PROVE  /\ WellFormed(talk, Readings[peer])
         /\ "fork" \notin talk.faults
         /\ \A s \in talk.scripts : s.reads /\ ~s.fails /\ s.form # "length"
BY FramedAssumption DEF TypeOK, talk

LEMMA PlaceRead ==
  ASSUME TypeOK, talk.framed, NEW i \in 0 .. Len(talk.bytes)
  PROVE  /\ At(i) \in PlaceType
         /\ ReadsOn(talk, Readings[peer], i) /\ AnswersAt(talk, At(i)) /\ ScriptFed(At(i))
<1>1. WellFormed(talk, Readings[peer])
  BY FramedTalk
<1> QED BY <1>1 DEF WellFormed, At

\* The step from the place at pos to the place q at j.
Moves(j, q) == At(j) = q /\ (q.n # Here.n => talk.ends[q.n] = j)

LEMMA InPlace ==
  ASSUME TypeOK, talk.framed
  PROVE  /\ Here \in PlaceType /\ pos \in 0 .. Len(talk.bytes) /\ pos \in Nat
         /\ rcvd \in pos .. Len(talk.bytes) /\ talk.bytes \in Seq(SymbolType)
         /\ ReadsOn(talk, Readings[peer], pos) /\ AnswersAt(talk, Here) /\ ScriptFed(Here)
<1>1. talk.bytes \in Seq(SymbolType)
  BY TalkTyped DEF TalkType
<1>2. pos \in 0 .. Len(talk.bytes) /\ pos \in Nat /\ rcvd \in pos .. Len(talk.bytes)
  BY <1>1 DEF TypeOK
<1> QED BY <1>1, <1>2, PlaceRead DEF Here

\* Where a line is due the server finds none yet, or an empty line, or a text
\* of the kind that belongs there.
LEMMA LineDue ==
  ASSUME TypeOK, talk.framed, Here.part \in {"between", "head", "size"}
  PROVE  \/ line.got = "none"
         \/ /\ line.got = "line" /\ line.text = Blank /\ line.end = pos + 2
            /\ Here.part # "size" /\ (Here.part = "head" => Fit(Here))
            /\ Moves(line.end, AfterEmptyLine(Here))
            /\ EmptyAt(talk.bytes, pos)
         \/ /\ line.got = "line" /\ line.text.t \in TextsAt(Here.part) /\ line.end = pos + 3
            /\ Moves(line.end, AfterText(Here, line.text))
            /\ TextAt(talk.bytes, pos) /\ line.text = talk.bytes[pos+1]
            /\ Here.part = "size" => line.text.n + 2 < Modulus
<1> DEFINE b == talk.bytes
<1>1. /\ pos \in Nat /\ rcvd \in pos .. Len(b) /\ b \in Seq(SymbolType)
      /\ ReadsOn(talk, Readings[peer], pos)
  BY InPlace
<1>2. CASE Here.part = "between" /\ pos = Len(b)
  <2>1. rcvd = pos
    BY <1>1, <1>2
  <2>2. ~ \E e \in pos+1 .. rcvd : IsFirstLF(b, pos, e)
    BY <1>1, <2>1
  <2> QED BY <2>2, LineIs DEF get_crlf_line_
<1>3. CASE /\ Here.part # "size" /\ EmptyAt(b, pos) /\ (Here.part = "head" => Fit(Here))
           /\ Moves(pos + 2, AfterEmptyLine(Here))
  <2>1. CASE rcvd < pos + 2
    BY <1>1, <1>3, <2>1, EmptyLineRead, LineIs
  <2>2. CASE ~(rcvd < pos + 2)
    <3>1. line.got = "line" /\ line.end = pos + 2 /\ line.text = Blank
      BY <1>1, <1>3, <2>2, EmptyLineRead, LineIs
    <3> QED BY <1>3, <3>1
  <2> QED BY <2>1, <2>2
<1>4. CASE /\ TextAt(b, pos) /\ b[pos+1].t \in TextsAt(Here.part)
           /\ Moves(pos + 3, AfterText(Here, b[pos+1]))
           /\ Here.part = "size" => b[pos+1].n + 2 < Modulus
  <2>1. b[pos+1] # LF
    BY <1>4, SymbolsDiffer DEF TextsAt
  <2>2. CASE rcvd < pos + 3
    BY <1>1, <1>4, <2>1, <2>2, TextLineRead, LineIs
  <2>3. CASE ~(rcvd < pos + 3)
    <3>1. line.got = "line" /\ line.end = pos + 3 /\ line.text = b[pos+1]
      BY <1>1, <1>4, <2>1, <2>3, TextLineRead, LineIs
    <3> QED BY <1>4, <3>1
  <2> QED BY <2>2, <2>3
<1> QED BY <1>1, <1>2, <1>3, <1>4 DEF ReadsOn, Reaches, Moves, Here, At

\* In a body, or in a chunk, every byte there is may be taken.
LEMMA BytesDue ==
  ASSUME TypeOK, talk.framed, Here.part \in {"body", "data"}, NEW k \in 1 .. Here.left
  PROVE  /\ Moves(pos + k, AfterBytes(Here, k))
         /\ Here.left > 0 /\ pos + k <= Len(talk.bytes)
         /\ \A j \in 1 .. k : talk.bytes[pos+j] = Byte
<1>1. /\ pos \in Nat /\ talk.bytes \in Seq(SymbolType) /\ Here.left \in Nat
      /\ ReadsOn(talk, Readings[peer], pos)
  BY InPlace DEF PlaceType
<1>2. /\ Here.left > 0 /\ pos + Here.left <= Len(talk.bytes)
      /\ \A j \in 1 .. Here.left :
           /\ talk.bytes[pos+j] = Byte
           /\ Reaches(talk, Readings[peer], pos, pos + j, AfterBytes(Here, j))
  BY <1>1 DEF ReadsOn, TextsAt, Here, At
<1>3. \A j \in 1 .. k : j \in 1 .. Here.left
  BY <1>1
<1>4. pos + k <= Len(talk.bytes)
  BY <1>1, <1>2
<1> QED BY <1>2, <1>3, <1>4 DEF Reaches, Moves, Here, At

\* After a chunk there is an empty line.
LEMMA ChunkOver ==
  ASSUME TypeOK, talk.framed, Here.part = "crlf"
  PROVE  EmptyAt(talk.bytes, pos) /\ Moves(pos + 2, AfterEmptyLine(Here))
<1>1. ReadsOn(talk, Readings[peer], pos)
  BY InPlace
<1> QED BY <1>1 DEF ReadsOn, TextsAt, Reaches, Moves, Here, At

\* The place of the next state is that of the next position.
LEMMA HereNext == ASSUME peer' = peer PROVE Here' = At(pos')
BY DEF Here, At

-----------------------------------------------------------------------------
(* Where the server has got to.                                            *)

Idling    == {"REQ_CLEAR", "REQ_LINE_PARSING", "REQ_HOLD", "REQ_SKIP_BODY", "E_BAD_REQ"}
Storing   == {"REQ_BODY", "REQ_BODY_CHUNKED"}
Feeding   == {"REQ_CGI_BODY", "REQ_CGI_BODY_CHUNKED"}
Sized     == {"REQ_BODY", "REQ_CGI_BODY"}
Chunks    == {"REQ_BODY_CHUNKED", "REQ_CGI_BODY_CHUNKED", "REQ_SKIP_BODY_CHUNKED"}

\* Nothing of a message has been read, or all of it.
AtMessage ==
  /\ state \in Idling => Here.part = "between"
  /\ state = "REQ_LINE_PARSING" => req.header = NoHeader /\ req.body_size = 0
  /\ state \notin {"REQ_CLEAR", "REQ_LINE_PARSING"} => Here.m = req.mthd /\ Here.u = req.uri
  /\ skip_size = 0

\* Its header has been read to a line's end.
AtHeader ==
  state = "REQ_HEADER_PARSING" =>
    /\ Here.part = "head" /\ Here.length = req.header.length /\ Here.te = req.header.te
    /\ ~req.header.badhost /\ req.body_size = 0 /\ Here.total = 0 /\ ~Here.last

\* A body of known length lacks what _cnt_len - _body_read says.
AtBody ==
  state \in Sized =>
    /\ ~Here.te /\ ~req.is_chnkd
    /\ IF req.body_read = req.cnt_len THEN Here.part = "between"
       ELSE Here.part = "body" /\ Here.left = req.cnt_len - req.body_read

\* Of a chunk _chnkd_size - 2 bytes are to come, and its CRLF.
AtChunk ==
  state \in Chunks =>
    /\ Here.te /\ chnkd.last = Here.last
    /\ CASE chnkd.size = 0 -> Here.part = "size" /\ ~Here.last
         [] chnkd.size = 2 -> Here.part = "crlf"
         [] OTHER          -> Here.part = "data" /\ Here.left = chnkd.size - 2

\* Who takes the body, and that it is not refused.
ForWhom ==
  /\ state \in {"REQ_BODY_CHUNKED", "REQ_CGI_BODY_CHUNKED"} =>
       /\ Here.total = req.body_size /\ req.cnt_len = Unset /\ req.is_chnkd
       /\ req.body_limit = Location[req.uri].limit
  /\ state \in Storing => ToFile(Here)
  /\ state \in Feeding => ToScript(Here) /\ Here.m \notin Bodiless
  /\ state = "REQ_SKIP_BODY_CHUNKED" =>
       ~ToFile(Here) \/ (TooLong(Here) /\ Here.u \in Targets)
  /\ state = "REQ_HOLD" => ~TooLong(Here)

Position == AtMessage /\ AtHeader /\ AtBody /\ AtChunk /\ ForWhom

\* An upload or a CGI's input is open while its body is read, and until all
\* of it has been passed on.
Holders ==
  \A f \in Fd :
    /\ fds[f].kind = "upload" => state \in Storing \cup {"REQ_HOLD"} /\ ToFile(Here)
    /\ fds[f].kind = "stdin"  => /\ state \in Feeding \cup {"REQ_HOLD"}
                                 /\ state = "REQ_CGI_BODY" => NoWriter(fds, f)
    /\ fds[f].kind = "pipe"   => ToScript(Here)

Reads == Position /\ Holders

\* The message at hand: the one that is read, or the last that was.
Number(p) == IF p.part = "between" THEN p.n ELSE p.n + 1

LEMMA SameTarget ==
  ASSUME NEW p, NEW q, p.m = q.m, p.u = q.u
  PROVE  ToFile(p) = ToFile(q) /\ ToScript(p) = ToScript(q)
BY DEF ToFile, ToScript, Allowed

LEMMA SameDue ==
  ASSUME NEW p, NEW q, p.m = q.m, p.u = q.u, p.te = q.te, p.total = q.total
  PROVE  TooLong(p) = TooLong(q) /\ Due(p) = Due(q)
<1>1. TooLong(p) = TooLong(q) /\ ToFile(p) = ToFile(q) /\ ToScript(p) = ToScript(q)
      /\ Allowed(p) = Allowed(q)
  BY SameTarget DEF TooLong, Allowed
<1> QED BY <1>1 DEF Due

\* The fields that place the request.
SamePlace ==
  /\ req'.mthd = req.mthd /\ req'.uri = req.uri /\ req'.header = req.header
  /\ req'.body_size = req.body_size /\ req'.cnt_len = req.cnt_len
  /\ req'.is_chnkd = req.is_chnkd /\ req'.body_limit = req.body_limit
  /\ req'.body_read = req.body_read \/ req.is_chnkd
  /\ chnkd'.size = chnkd.size /\ chnkd'.last = chnkd.last

LEMMA PositionStays ==
  ASSUME Position, SamePlace, peer' = peer, pos' = pos, state' = state, skip_size' = skip_size
  PROVE  Position'
<1>1. Here' = Here
  BY HereNext DEF Here
<1>2. AtMessage' /\ AtHeader'
  BY <1>1 DEF Position, AtMessage, AtHeader, SamePlace
<1>3. AtBody'
  BY <1>1 DEF Position, AtBody, SamePlace
<1>4. AtChunk'
  BY <1>1 DEF Position, AtChunk, SamePlace
<1>5. ForWhom'
  BY <1>1 DEF Position, ForWhom, SamePlace
<1> QED BY <1>2, <1>3, <1>4, <1>5 DEF Position

\* Nothing is opened, and nothing that is open stays open where it may not be.
NoneOpened ==
  \A f \in Fd : fds'[f].kind \in {"upload", "stdin", "pipe"} =>
                  /\ fds[f].kind = fds'[f].kind
                  /\ state' = "REQ_CGI_BODY" /\ NoWriter(fds, f) => NoWriter(fds', f)

LEMMA HoldersStay ==
  ASSUME Holders, NoneOpened, ToFile(Here') = ToFile(Here), ToScript(Here') = ToScript(Here),
         state' = state \/ state' = "REQ_HOLD"
  PROVE  Holders'
<1> SUFFICES ASSUME NEW f \in Fd
             PROVE  /\ fds'[f].kind = "upload" => state' \in Storing \cup {"REQ_HOLD"} /\ ToFile(Here')
                    /\ fds'[f].kind = "stdin" => /\ state' \in Feeding \cup {"REQ_HOLD"}
                                                 /\ state' = "REQ_CGI_BODY" => NoWriter(fds', f)
                    /\ fds'[f].kind = "pipe" => ToScript(Here')
  BY DEF Holders
<1> QED BY DEF Holders, NoneOpened

\* What the steps of the reading keep.
SameMessage(p, q) ==
  q.m = p.m /\ q.u = p.u /\ q.te = p.te /\ q.length = p.length /\ q.last = p.last

LEMMA OverIs ==
  ASSUME NEW p \in PlaceType
  PROVE  LET q == Over(p)
         IN  q.part = "between" /\ q.n = p.n + 1 /\ SameMessage(p, q) /\ q.total = p.total
BY DEF Over, PlaceType, SameMessage

LEMMA AfterBytesIs ==
  ASSUME NEW p \in PlaceType, p.part \in {"body", "data"}, NEW k \in 1 .. p.left
  PROVE  LET q == AfterBytes(p, k)
         IN  /\ SameMessage(p, q) /\ q.total = p.total
             /\ k < p.left => q.part = p.part /\ q.left = p.left - k /\ q.n = p.n
             /\ k = p.left => \/ p.part = "body" /\ q.part = "between" /\ q.n = p.n + 1
                              \/ p.part = "data" /\ q.part = "crlf" /\ q.n = p.n
<1>1. CASE k < p.left
  BY <1>1 DEF AfterBytes, PlaceType, SameMessage
<1>2. CASE k = p.left
  BY <1>2, OverIs DEF AfterBytes, PlaceType, SameMessage
<1> QED BY <1>1, <1>2 DEF PlaceType

LEMMA AfterHeaderIs ==
  ASSUME NEW p \in PlaceType, p.part = "head"
  PROVE  LET q == AfterEmptyLine(p)
         IN  /\ SameMessage(p, q) /\ q.total = p.total
             /\ p.te => q.part = "size" /\ q.n = p.n
             /\ ~p.te /\ p.length > 0 => q.part = "body" /\ q.left = p.length /\ q.n = p.n
             /\ ~p.te /\ ~(p.length > 0) => q.part = "between" /\ q.n = p.n + 1
<1>1. CASE p.te
  BY <1>1 DEF AfterEmptyLine, PlaceType, SameMessage
<1>2. CASE ~p.te /\ p.length > 0
  BY <1>2 DEF AfterEmptyLine, PlaceType, SameMessage
<1>3. CASE ~p.te /\ ~(p.length > 0)
  BY <1>3, OverIs DEF AfterEmptyLine, PlaceType
<1> QED BY <1>1, <1>2, <1>3

LEMMA AfterChunkIs ==
  ASSUME NEW p \in PlaceType, p.part = "crlf"
  PROVE  LET q == AfterEmptyLine(p)
         IN  /\ SameMessage(p, q) /\ q.total = p.total
             /\ IF p.last THEN q.part = "between" /\ q.n = p.n + 1
                ELSE q.part = "size" /\ q.n = p.n
<1>1. CASE p.last
  BY <1>1, OverIs DEF AfterEmptyLine
<1>2. CASE ~p.last
  BY <1>2 DEF AfterEmptyLine, PlaceType, SameMessage
<1> QED BY <1>1, <1>2

LEMMA AfterSizeIs ==
  ASSUME NEW p \in PlaceType, p.part = "size", NEW s \in SymbolType
  PROVE  LET q == AfterText(p, s)
         IN  /\ q.m = p.m /\ q.u = p.u /\ q.te = p.te /\ q.length = p.length /\ q.n = p.n
             /\ q.total = p.total + s.n /\ q.last = (s.n = 0)
             /\ IF s.n = 0 THEN q.part = "crlf" ELSE q.part = "data" /\ q.left = s.n
<1>1. s.n \in Nat
  BY DEF SymbolType
<1> QED BY <1>1 DEF AfterText, PlaceType

LEMMA AfterRequestLineIs ==
  ASSUME NEW p \in PlaceType, p.part = "between", NEW s
  PROVE  LET q == AfterText(p, s)
         IN  /\ q.part = "head" /\ q.n = p.n /\ q.m = s.m /\ q.u = s.u /\ q.length = Unset
             /\ q.te = FALSE /\ q.total = 0 /\ ~q.last
BY DEF AfterText, Opening

LEMMA AfterFieldIs ==
  ASSUME NEW p \in PlaceType, p.part = "head", NEW s
  PROVE  LET q == AfterText(p, s)
         IN  /\ q.part = "head" /\ q.n = p.n /\ q.m = p.m /\ q.u = p.u /\ q.total = p.total
             /\ q.last = p.last /\ q.te = (p.te \/ s.t = "te")
             /\ q.length = IF s.t = "length" THEN s.n ELSE p.length
BY DEF AfterText, PlaceType

-----------------------------------------------------------------------------
(* Steps on the header.                                                    *)

\* Where nothing is open there is nothing to hold.
LEMMA FreeHolders == ASSUME AllFree(fds) PROVE Holders
BY DEF AllFree, Holders

LEMMA ResetReads == ASSUME TypeOK, talk.framed, Kept, Reads, reset_ PROVE Reads'
<1>1. /\ state = "REQ_CLEAR" /\ state' = "REQ_LINE_PARSING" /\ peer' = peer /\ pos' = pos
      /\ fds' = fds /\ skip_size' = skip_size
      /\ req'.header = NoHeader /\ req'.body_size = 0
  BY DEF reset_, In, NewReq, inputVars
<1>2. Here' = Here
  BY <1>1, HereNext DEF Here
<1>3. Position'
  BY <1>1, <1>2 DEF Reads, Position, AtMessage, AtHeader, AtBody, AtChunk, ForWhom, Idling, Sized,
                    Storing, Feeding, Chunks
<1>4. AllFree(fds')
  BY <1>1 DEF Kept, Quiet, Fresh
<1>5. Holders'
  BY <1>4 DEF AllFree, Holders
<1> QED BY <1>3, <1>5 DEF Reads

LEMMA SameReads ==
  ASSUME Reads, SamePlace, NoneOpened, UNCHANGED <<peer, pos, state, skip_size>>
  PROVE  Reads'
<1>1. Here' = Here
  BY HereNext DEF Here
<1>2. Position'
  BY PositionStays DEF Reads
<1>3. Holders'
  BY <1>1, HoldersStay DEF Reads
<1> QED BY <1>2, <1>3 DEF Reads

LEMMA FdsSame == ASSUME fds' = fds PROVE NoneOpened
BY DEF NoneOpened

LEMMA ReqSame == ASSUME req' = req, chnkd' = chnkd PROVE SamePlace
BY DEF SamePlace

LEMMA WaitingReads ==
  ASSUME Reads, ReadMore \/ HoldBody \/ ChunkLineMissing \/ read_to_client_buffer_
  PROVE  Reads'
<1>1. req' = req /\ chnkd' = chnkd /\ fds' = fds /\ UNCHANGED <<peer, pos, state, skip_size>>
  BY DEF ReadMore, HoldBody, ChunkLineMissing, read_to_client_buffer_, inputVars
<1> QED BY <1>1, SameReads, FdsSame, ReqSame

LEMMA RequestLineDue ==
  ASSUME TypeOK, talk.framed, Reads, request_line_parser_
  PROVE  /\ Here.part = "between"
         /\ \/ line.text = Blank /\ req' = req /\ state' = state /\ Here' = Here
            \/ /\ line.text.t = "req" /\ line.text \in SymbolType
               /\ req' = [req EXCEPT !.mthd = line.text.m, !.uri = line.text.u]
               /\ state' = "REQ_HEADER_PARSING" /\ Here' = AfterText(Here, line.text)
<1>1. /\ state = "REQ_LINE_PARSING" /\ line.got = "line" /\ peer' = peer /\ pos' = line.end
  BY DEF request_line_parser_, In, inputVars
<1>2. Here.part = "between"
  BY <1>1 DEF Reads, Position, AtMessage, Idling
<1>3. Here' = At(line.end)
  BY <1>1, HereNext
<1>4. CASE line.text = Blank /\ Moves(line.end, AfterEmptyLine(Here))
  <2>1. line.text.t # "req"
    BY <1>4, SymbolsDiffer
  <2>2. req' = req /\ state' = state
    BY <1>4, <2>1 DEF request_line_parser_
  <2>3. Here' = Here
    BY <1>2, <1>3, <1>4 DEF Moves, AfterEmptyLine
  <2> QED BY <1>2, <1>4, <2>2, <2>3
<1>5. CASE line.text.t \in TextsAt(Here.part) /\ Moves(line.end, AfterText(Here, line.text))
  <2>1. line.text.t = "req" /\ line.text # Blank
    BY <1>2, <1>5, SymbolsDiffer DEF TextsAt
  <2>2. /\ req' = [req EXCEPT !.mthd = line.text.m, !.uri = line.text.u]
        /\ state' = "REQ_HEADER_PARSING"
    BY <2>1 DEF request_line_parser_
  <2> QED BY <1>2, <1>3, <1>5, <2>1, <2>2, LineOK DEF Moves
<1> QED BY <1>1, <1>2, <1>4, <1>5, LineDue

LEMMA RequestLineReads ==
  ASSUME TypeOK, talk.framed, Kept, Reads, request_line_parser_
  PROVE  Reads'
<1>1. /\ state = "REQ_LINE_PARSING" /\ peer' = peer /\ skip_size' = skip_size /\ chnkd' = chnkd
  BY DEF request_line_parser_, In, inputVars
<1>2. CASE line.text = Blank /\ req' = req /\ state' = state /\ Here' = Here
  <2>1. fds' = fds /\ AllFree(fds)
    BY <1>1, <1>2 DEF request_line_parser_, Blank, Sym, Kept, Quiet, Fresh, Start
  <2>2. Position'
    BY <1>1, <1>2 DEF Reads, Position, AtMessage, AtHeader, AtBody, AtChunk, ForWhom, Idling,
                      Sized, Storing, Feeding, Chunks
  <2>3. Holders'
    BY <2>1 DEF AllFree, Holders
  <2> QED BY <2>2, <2>3 DEF Reads
<1>3. CASE /\ line.text.t = "req" /\ line.text \in SymbolType
           /\ req' = [req EXCEPT !.mthd = line.text.m, !.uri = line.text.u]
           /\ state' = "REQ_HEADER_PARSING" /\ Here' = AfterText(Here, line.text)
  <2>1. fds' = fds /\ AllFree(fds)
    BY <1>1, <1>3, SymbolsDiffer DEF request_line_parser_, Kept, Quiet, Fresh, Start
  <2>2. /\ Here'.part = "head" /\ Here'.m = line.text.m /\ Here'.u = line.text.u
        /\ Here'.length = Unset /\ Here'.te = FALSE /\ Here'.total = 0 /\ ~Here'.last
    BY <1>3, InPlace, RequestLineDue, AfterRequestLineIs
  <2>3. /\ req'.mthd = line.text.m /\ req'.uri = line.text.u
        /\ req'.header = NoHeader /\ req'.body_size = 0
    BY <1>1, <1>3 DEF Reads, Position, AtMessage, TypeOK, ReqType
  <2>4. Position'
    <3>1. AtMessage'
      BY <1>1, <1>3, <2>2, <2>3 DEF Reads, Position, AtMessage, Idling
    <3>2. /\ NoHeader.length = Unset /\ NoHeader.te = FALSE /\ ~NoHeader.badhost
      BY DEF NoHeader
    <3>3. AtHeader'
      BY <2>2, <2>3, <3>2 DEF AtHeader
    <3> QED BY <1>3, <3>1, <3>3 DEF Position, AtBody, AtChunk, ForWhom, Sized, Storing, Feeding,
                                    Chunks
  <2>5. Holders'
    BY <2>1 DEF AllFree, Holders
  <2> QED BY <2>4, <2>5 DEF Reads
<1> QED BY <1>2, <1>3, RequestLineDue

LEMMA HeaderFieldReads ==
  ASSUME TypeOK, talk.framed, Kept, Reads, header_field_parser_
  PROVE  Reads' /\ Here'.part = "head" /\ Here'.n = Here.n
<1>1. /\ state = "REQ_HEADER_PARSING" /\ state' = state /\ line.got = "line" /\ line.text # Blank
      /\ peer' = peer /\ pos' = line.end /\ skip_size' = skip_size /\ fds' = fds
      /\ req' = [req EXCEPT !.header =
               [length  |-> IF line.text.t = "length" THEN line.text.n ELSE @.length,
                te      |-> @.te \/ line.text.t = "te",
                close   |-> @.close \/ line.text.t = "close",
                badhost |-> @.badhost \/ line.text.t = "badhost"]]
  BY DEF header_field_parser_, In, inputVars
<1>2. Here.part = "head" /\ AtHeader /\ AtMessage
  BY <1>1 DEF Reads, Position, AtHeader
<1>3. line.text.t \in TextsAt("head") /\ Here' = AfterText(Here, line.text)
  BY <1>1, <1>2, LineDue, HereNext DEF Moves
<1>4. /\ Here'.part = "head" /\ Here'.m = Here.m /\ Here'.u = Here.u /\ Here'.total = Here.total
      /\ Here'.last = Here.last /\ Here'.te = (Here.te \/ line.text.t = "te")
      /\ Here'.length = (IF line.text.t = "length" THEN line.text.n ELSE Here.length)
      /\ Here'.n = Here.n
  BY <1>2, <1>3, InPlace, AfterFieldIs
<1>5. /\ req'.mthd = req.mthd /\ req'.uri = req.uri /\ req'.body_size = req.body_size
      /\ req'.header.length = (IF line.text.t = "length" THEN line.text.n ELSE req.header.length)
      /\ req'.header.te = (req.header.te \/ line.text.t = "te")
      /\ req'.header.badhost = (req.header.badhost \/ line.text.t = "badhost")
  BY <1>1 DEF TypeOK, ReqType
<1>6. line.text.t # "badhost"
  BY <1>3 DEF TextsAt
<1>7. AtMessage'
  BY <1>1, <1>2, <1>4, <1>5 DEF AtMessage, Idling
<1>8. AtHeader'
  BY <1>1, <1>2, <1>4, <1>5, <1>6 DEF AtHeader
<1>9. Position'
  BY <1>1, <1>7, <1>8 DEF Position, AtBody, AtChunk, ForWhom, Sized, Storing, Feeding, Chunks
<1>10. AllFree(fds')
  BY <1>1 DEF Kept, Quiet, Fresh, Start
<1>11. Holders'
  BY <1>10 DEF AllFree, Holders
<1> QED BY <1>4, <1>9, <1>11 DEF Reads

-----------------------------------------------------------------------------
(* The end of the header.                                                  *)

\* _req has what the header says of the body.
LocatedAt(r, p) ==
  /\ r.mthd = p.m /\ r.uri = p.u /\ r.cnt_len = p.length /\ r.is_chnkd = p.te
  /\ r.body_size = 0

LEMMA LocatedIs ==
  ASSUME TypeOK, req.uri \in Targets, Here.m = req.mthd, Here.u = req.uri,
         Here.length = req.header.length, Here.te = req.header.te, req.body_size = 0
  PROVE  /\ LocatedAt(Located, Here)
         /\ Located.is_cgi = (Location[Here.u].found /\ Location[Here.u].cgi /\ Here.m # "DELETE")
         /\ Served = Allowed(Here)
         /\ Served => Located.body_limit = Location[Here.u].limit
         /\ Located.header = req.header
<1> DEFINE limit == IF Location[req.uri].found THEN Location[req.uri].limit ELSE Framed.body_limit
           cgis == Location[req.uri].found /\ Location[req.uri].cgi /\ req.mthd # "DELETE"
<1>1. /\ Framed \in ReqType /\ Framed.mthd = req.mthd /\ Framed.uri = req.uri
      /\ Framed.cnt_len = req.header.length /\ Framed.is_chnkd = req.header.te
      /\ Framed.body_size = req.body_size /\ Framed.header = req.header
  BY DEF Framed, TypeOK, ReqType
<1>2. Located = [Framed EXCEPT !.body_limit = limit, !.is_cgi = cgis]
  BY DEF Located
<1>3. Served => limit = Location[req.uri].limit
  BY DEF Served
<1> HIDE DEF limit, cgis
<1>4. /\ Located.mthd = req.mthd /\ Located.uri = req.uri
      /\ Located.cnt_len = req.header.length /\ Located.is_chnkd = req.header.te
      /\ Located.body_size = req.body_size /\ Located.header = req.header
      /\ Located.body_limit = limit /\ Located.is_cgi = cgis
  BY <1>1, <1>2 DEF ReqType
<1>5. LocatedAt(Located, Here)
  BY <1>4 DEF LocatedAt
<1> QED BY <1>3, <1>4, <1>5 DEF Served, Allowed, cgis

LEMMA HeaderOver ==
  ASSUME TypeOK, talk.framed, Reads, HeaderEnds
  PROVE  /\ state = "REQ_HEADER_PARSING" /\ peer' = peer /\ req.uri \in Targets
         /\ ~req.header.badhost /\ skip_size = 0
         /\ Here \in PlaceType /\ Here.part = "head" /\ Fit(Here)
         /\ Here' = AfterEmptyLine(Here) /\ Moves(pos', AfterEmptyLine(Here))
         /\ LocatedAt(Located, Here) /\ Here.total = 0 /\ ~Here.last
         /\ Located.is_cgi = (Location[Here.u].found /\ Location[Here.u].cgi /\ Here.m # "DELETE")
         /\ Served = Allowed(Here)
         /\ Served => Located.body_limit = Location[Here.u].limit
         /\ Located.header = req.header
<1>1. /\ state = "REQ_HEADER_PARSING" /\ peer' = peer /\ req.uri \in Targets /\ pos' = line.end
      /\ line.got = "bare" \/ (line.got = "line" /\ line.text = Blank)
  BY HeaderEndsOK DEF HeaderEnds
<1>2. /\ ~req.header.badhost /\ Here.part = "head" /\ skip_size = 0
      /\ Here.m = req.mthd /\ Here.u = req.uri /\ Here.length = req.header.length
      /\ Here.te = req.header.te /\ req.body_size = 0 /\ Here.total = 0 /\ ~Here.last
  BY <1>1 DEF Reads, Position, AtMessage, AtHeader
<1>3. Fit(Here) /\ Moves(pos', AfterEmptyLine(Here))
  BY <1>1, <1>2, LineDue, SymbolsDiffer DEF TextsAt
<1>4. Here' = AfterEmptyLine(Here)
  BY <1>1, <1>3, HereNext DEF Moves
<1>5. Here \in PlaceType
  BY InPlace
<1> QED BY <1>1, <1>2, <1>3, <1>4, <1>5, LocatedIs

\* A request without a body that goes anywhere: what there is of it is skipped.
LEMMA SkipStateAt ==
  ASSUME NEW p \in PlaceType, Fit(p), ~ToScript(p), ~ToFile(p), NEW r,
         r.mthd = p.m, r.cnt_len = p.length, r.is_chnkd = p.te
  PROVE  /\ SkipState(r) = IF p.te THEN "REQ_SKIP_BODY_CHUNKED" ELSE "REQ_HOLD"
         /\ ~p.te => ~(p.length > 0)
<1>1. p.length \in Nat \cup {-1} /\ p.te \in BOOLEAN
  BY DEF PlaceType, Unset
<1>2. ~p.te => ~(p.length > 0) /\ (p.m \notin Bodiless => p.length = 0)
  BY <1>1 DEF Fit, Unset
<1>3. ~p.te => p.length = 0 \/ (p.length = Unset /\ p.m \in Bodiless)
  BY <1>1, <1>2 DEF Unset
<1>4. Unset # 0
  BY DEF Unset
<1> QED BY <1>1, <1>2, <1>3, <1>4 DEF SkipState

\* No descriptor on which a body could be passed on, or come back.
Bare(tbl) == \A f \in Fd : tbl[f].kind \notin {"upload", "stdin", "pipe"}

LEMMA BareHolders == ASSUME Bare(fds') PROVE Holders'
BY DEF Bare, Holders

\* The body is skipped, or there is none.
LEMMA PassedOver ==
  ASSUME TypeOK, UploadAccounted, talk.framed, Reads, HeaderEnds, ~ToFile(Here),
         IF Here.te THEN state' = "REQ_SKIP_BODY_CHUNKED"
         ELSE state' \in {"REQ_HOLD", "REQ_SKIP_BODY"} /\ ~(Here.length > 0),
         req'.mthd = req.mthd, req'.uri = req.uri, chnkd' = chnkd, skip_size' = skip_size
  PROVE  Position'
<1>1. /\ state = "REQ_HEADER_PARSING" /\ skip_size = 0
      /\ Here \in PlaceType /\ Here.part = "head" /\ Fit(Here)
      /\ Here' = AfterEmptyLine(Here) /\ LocatedAt(Located, Here) /\ Here.total = 0 /\ ~Here.last
      /\ req.uri \in Targets
  BY HeaderOver
<1>2. /\ SameMessage(Here, Here') /\ Here'.total = 0
      /\ Here.te => Here'.part = "size"
      /\ ~Here.te /\ ~(Here.length > 0) => Here'.part = "between"
  BY <1>1, AfterHeaderIs
<1>4. /\ Here'.m = req.mthd /\ Here'.u = req.uri /\ Here'.te = Here.te /\ Here'.last = FALSE
  BY <1>1, <1>2, LocatedTyped DEF SameMessage, LocatedAt, PlaceType
<1>5. chnkd'.size = 0 /\ chnkd'.last = FALSE
  BY <1>1 DEF UploadAccounted, FreshRequest, NewChnkd
<1>6. ~ToFile(Here')
  BY <1>2, SameTarget DEF SameMessage
<1>7. AtMessage'
  BY <1>1, <1>2, <1>4 DEF AtMessage, Idling
<1>8. AtChunk'
  <2> SUFFICES ASSUME state' \in Chunks PROVE AtChunk'
    BY DEF AtChunk
  <2>1. Here.te
    BY DEF Chunks
  <2>2. Here'.te /\ chnkd'.last = Here'.last /\ Here'.part = "size"
    BY <1>2, <1>4, <1>5, <2>1
  <2> QED BY <1>5, <2>2 DEF AtChunk
<1>9. AtHeader' /\ AtBody' /\ ForWhom'
  BY <1>6 DEF AtHeader, AtBody, ForWhom, Sized, Storing, Feeding, TooLong
<1> QED BY <1>7, <1>8, <1>9 DEF Position

LEMMA RefusedReads ==
  ASSUME TypeOK, UploadAccounted, talk.framed, Reads, HeaderEnds,
         ~ToScript(Here), ~ToFile(Here), NEW r, LocatedAt(r, Here),
         state' = SkipState(r), req'.mthd = req.mthd, req'.uri = req.uri,
         chnkd' = chnkd, skip_size' = skip_size \/ state' = "REQ_SKIP_BODY", Bare(fds')
  PROVE  Reads'
<1>1. Here \in PlaceType /\ Fit(Here)
  BY HeaderOver
<1>2. /\ state' = IF Here.te THEN "REQ_SKIP_BODY_CHUNKED" ELSE "REQ_HOLD"
      /\ ~Here.te => ~(Here.length > 0)
  BY <1>1, SkipStateAt DEF LocatedAt
<1>3. skip_size' = skip_size
  BY <1>2
<1>4. Position'
  BY <1>2, <1>3, PassedOver
<1> QED BY <1>4, BareHolders DEF Reads

\* The body is read for a file or for a script.
LEMMA BodyAwaited ==
  ASSUME TypeOK, UploadAccounted, talk.framed, Reads, HeaderEnds,
         chnkd' = chnkd, skip_size' = skip_size,
         req'.mthd = req.mthd, req'.uri = req.uri, req'.is_chnkd = Here.te,
         req'.cnt_len = Here.length, req'.body_size = 0, req'.body_read = 0,
         Here.te => req'.body_limit = Location[req.uri].limit,
         \/ /\ ToFile(Here)
            /\ state' = IF Here.te THEN "REQ_BODY_CHUNKED" ELSE "REQ_BODY"
            /\ ~Here.te => Here.length \in Nat
         \/ /\ ToScript(Here) /\ Here.m \notin Bodiless
            /\ state' = IF Here.te THEN "REQ_CGI_BODY_CHUNKED" ELSE "REQ_CGI_BODY"
            /\ ~Here.te => Here.length \in Nat
  PROVE  Position'
<1>1. /\ state = "REQ_HEADER_PARSING" /\ skip_size = 0
      /\ Here \in PlaceType /\ Here.part = "head" /\ Fit(Here)
      /\ Here' = AfterEmptyLine(Here) /\ LocatedAt(Located, Here) /\ Here.total = 0 /\ ~Here.last
      /\ req.uri \in Targets
  BY HeaderOver
<1>2. /\ SameMessage(Here, Here') /\ Here'.total = 0
      /\ Here.te => Here'.part = "size"
      /\ ~Here.te /\ Here.length > 0 => Here'.part = "body" /\ Here'.left = Here.length
      /\ ~Here.te /\ ~(Here.length > 0) => Here'.part = "between"
  BY <1>1, AfterHeaderIs
<1>3. /\ Here'.m = req.mthd /\ Here'.u = req.uri /\ Here'.te = Here.te /\ Here'.last = FALSE
  BY <1>1, <1>2, LocatedTyped DEF SameMessage, LocatedAt, PlaceType
<1>4. chnkd'.size = 0 /\ chnkd'.last = FALSE
  BY <1>1 DEF UploadAccounted, FreshRequest, NewChnkd
<1>5. ToFile(Here') = ToFile(Here) /\ ToScript(Here') = ToScript(Here)
  BY <1>2, SameTarget DEF SameMessage
<1>6. AtMessage' /\ AtHeader'
  BY <1>1, <1>3 DEF AtMessage, AtHeader, Idling
<1>7. AtBody'
  <2> SUFFICES ASSUME state' \in Sized PROVE AtBody'
    BY DEF AtBody
  <2>1. ~Here.te /\ Here.length \in Nat
    BY DEF Sized
  <2>2. ~Here'.te /\ ~req'.is_chnkd
    BY <1>3, <2>1
  <2>3. IF Here.length = 0 THEN Here'.part = "between"
        ELSE Here'.part = "body" /\ Here'.left = Here.length - 0
    BY <1>2, <2>1
  <2> QED BY <2>2, <2>3 DEF AtBody
<1>8. AtChunk'
  <2> SUFFICES ASSUME state' \in Chunks PROVE AtChunk'
    BY DEF AtChunk
  <2>1. Here.te
    BY DEF Chunks
  <2>2. Here'.te /\ chnkd'.last = Here'.last /\ Here'.part = "size"
    BY <1>2, <1>3, <1>4, <2>1
  <2> QED BY <1>4, <2>2 DEF AtChunk
<1>9. ForWhom'
  <2>1. ASSUME state' \in {"REQ_BODY_CHUNKED", "REQ_CGI_BODY_CHUNKED"}
        PROVE  /\ Here'.total = req'.body_size /\ req'.cnt_len = Unset /\ req'.is_chnkd
               /\ req'.body_limit = Location[req'.uri].limit
    <3>1. Here.te
      BY <2>1
    <3>2. Here.length = Unset
      BY <1>1, <3>1 DEF Fit
    <3> QED BY <1>2, <3>1, <3>2
  <2>2. state' \in Storing => ToFile(Here')
    BY <1>5 DEF Storing
  <2>3. state' \in Feeding => ToScript(Here') /\ Here'.m \notin Bodiless
    BY <1>2, <1>5 DEF Feeding, SameMessage
  <2> QED BY <2>1, <2>2, <2>3 DEF ForWhom
<1> QED BY <1>6, <1>7, <1>8, <1>9 DEF Position

LEMMA AnswerBare ==
  ASSUME NEW r, NEW o, NEW tbl, AllFree(tbl), Answer(r, o, tbl), o.fds \in TableType, NEW t,
         t = o.fds \/ t = Watch(o.fds, o.res.body_fd, "R")
  PROVE  Bare(t)
<1>1. \A f \in Fd : o.fds[f].kind \in {"free", "page"}
  BY DEF Answer, Ready, OnPage, Alone, AllFree
<1>2. \A f \in Fd : t[f].kind = o.fds[f].kind
  BY WatchKeeps
<1> QED BY <1>1, <1>2 DEF Bare

LEMMA ErrorLeaves ==
  ASSUME TypeOK, NEW code \in Nat, NEW r \in ReqType, NEW tbl \in TableType, AllFree(tbl),
         res = NewRes, error_response_keep_alive_(code, r, tbl)
  PROVE  /\ state' = SkipState(r) /\ Bare(fds')
         /\ req'.mthd = r.mthd /\ req'.uri = r.uri /\ req'.is_chnkd = r.is_chnkd
         /\ req'.cnt_len = r.cnt_len
<1>1. PICK o \in make_error_response_(code, r, NewRes, tbl) :
        fds' = Watch(o.fds, o.res.body_fd, "R")
  BY DEF error_response_keep_alive_
<1>2. Answer(r, o, tbl) /\ o.fds \in TableType
  BY <1>1, ErrorAnswer, ErrorOutcome, NewTyped DEF OutcomeTyped
<1>3. Bare(fds')
  BY <1>1, <1>2, AnswerBare
<1>4. /\ state' = SkipState(r) /\ req'.mthd = r.mthd /\ req'.uri = r.uri
      /\ req'.is_chnkd = r.is_chnkd /\ req'.cnt_len = r.cnt_len
  BY DEF error_response_keep_alive_, ReqType
<1> QED BY <1>3, <1>4

LEMMA NotServedReads ==
  ASSUME TypeOK, UploadAccounted, talk.framed, Kept, Said, Reads, NotServed
  PROVE  Reads'
<1>1. HeaderEnds /\ ~Served
  BY DEF NotServed
<1>2. LocatedAt(Located, Here) /\ ~Allowed(Here)
  BY <1>1, HeaderOver
<1>3. /\ Unheld /\ fds \in TableType /\ Located \in ReqType
      /\ Located.mthd = req.mthd /\ Located.uri = req.uri
  BY <1>1, HeaderUnheld
<1> DEFINE code == IF Location[req.uri].found THEN 405 ELSE 404
           r == [Located EXCEPT !.is_cgi = FALSE]
<1>4. /\ r \in ReqType /\ code \in Nat /\ r.mthd = req.mthd /\ r.uri = req.uri
      /\ LocatedAt(r, Here)
  <2>1. /\ r \in ReqType /\ r.mthd = Located.mthd /\ r.uri = Located.uri
        /\ r.cnt_len = Located.cnt_len /\ r.is_chnkd = Located.is_chnkd
        /\ r.body_size = Located.body_size
    BY <1>3 DEF ReqType
  <2>2. code \in Nat
    OBVIOUS
  <2> HIDE DEF r, code
  <2> QED BY <1>2, <1>3, <2>1, <2>2 DEF LocatedAt
<1>5. /\ error_response_keep_alive_(code, r, fds) /\ chnkd' = chnkd /\ skip_size' = skip_size
  BY DEF NotServed
<1> HIDE DEF r, code
<1>6. state' = SkipState(r) /\ Bare(fds') /\ req'.mthd = req.mthd /\ req'.uri = req.uri
  BY <1>3, <1>4, <1>5, ErrorLeaves DEF Unheld
<1>7. ~ToScript(Here) /\ ~ToFile(Here)
  BY <1>2 DEF ToScript, ToFile
<1> QED BY <1>1, <1>4, <1>5, <1>6, <1>7, RefusedReads

LEMMA GetHeadReads ==
  ASSUME TypeOK, UploadAccounted, talk.framed, Kept, Said, Reads, res_for_get_head_req_
  PROVE  Reads'
<1>1. HeaderEnds /\ Served /\ ~Located.is_cgi /\ req.mthd \in {"GET", "HEAD"}
  BY DEF res_for_get_head_req_
<1>2. /\ LocatedAt(Located, Here)
      /\ Located.is_cgi = (Location[Here.u].found /\ Location[Here.u].cgi /\ Here.m # "DELETE")
  BY <1>1, HeaderOver
<1>3. /\ Unheld /\ fds \in TableType /\ Located \in ReqType /\ req.uri \in Targets
      /\ Located.mthd = req.mthd /\ Located.uri = req.uri /\ AllFree(fds)
  BY <1>1, HeaderUnheld DEF Unheld
<1>4. ~ToScript(Here) /\ ~ToFile(Here)
  BY <1>1, <1>2, <1>3 DEF ToScript, ToFile, Allowed, LocatedAt
<1>5. PICK o \in make_response_header_(Located, NewRes, fds) :
        \/ fds' = CloseFds(o.fds, {o.res.body_fd})
        \/ fds' = Watch(o.fds, o.res.body_fd, "R")
  BY <1>3 DEF res_for_get_head_req_, Unheld
<1>6. Answer(Located, o, fds) /\ o.fds \in TableType
  BY <1>3, <1>5, HeaderAnswer, HeaderOutcome, NewTyped DEF OutcomeTyped
<1>7. Bare(fds')
  <2>1. Bare(o.fds)
    BY <1>3, <1>6, AnswerBare
  <2>2. CASE fds' = CloseFds(o.fds, {o.res.body_fd})
    BY <1>6, <2>1, <2>2, Closed DEF Bare
  <2> QED BY <1>3, <1>5, <1>6, <2>2, AnswerBare
<1>8. /\ req' = Located /\ state' = SkipState(Located) /\ chnkd' = chnkd
      /\ skip_size' = skip_size \/ state' = "REQ_SKIP_BODY"
  BY DEF res_for_get_head_req_
<1> QED BY <1>1, <1>2, <1>3, <1>4, <1>7, <1>8, RefusedReads

LEMMA DeleteReads ==
  ASSUME TypeOK, UploadAccounted, talk.framed, Kept, Said, Reads, res_for_delete_req_
  PROVE  Reads'
<1>1. HeaderEnds /\ req.mthd = "DELETE"
  BY DEF res_for_delete_req_
<1>2. LocatedAt(Located, Here)
  BY <1>1, HeaderOver
<1>3. /\ Unheld /\ fds \in TableType /\ Located \in ReqType /\ req.uri \in Targets
      /\ Located.mthd = req.mthd /\ Located.uri = req.uri /\ AllFree(fds)
  BY <1>1, HeaderUnheld DEF Unheld
<1>4. ~ToScript(Here) /\ ~ToFile(Here)
  BY <1>1, <1>2, <1>3 DEF ToScript, ToFile, LocatedAt
<1>5. PICK o \in IF Location[req.uri].kind = "file"
                 THEN make_response_header_(Located, NewRes, fds)
                 ELSE make_error_response_(404, Located, NewRes, fds) :
        fds' = o.fds \/ fds' = Watch(o.fds, o.res.body_fd, "R")
  BY <1>3 DEF res_for_delete_req_, Unheld
<1>6. Answer(Located, o, fds) /\ o.fds \in TableType
  BY <1>3, <1>5, ErrorAnswer, HeaderAnswer, ErrorOutcome, HeaderOutcome, NewTyped
     DEF OutcomeTyped
<1>7. Bare(fds')
  BY <1>3, <1>5, <1>6, AnswerBare
<1>8. /\ req'.mthd = Located.mthd /\ req'.uri = Located.uri /\ state' = SkipState(Located)
      /\ chnkd' = chnkd
      /\ skip_size' = skip_size \/ state' = "REQ_SKIP_BODY"
  BY <1>3 DEF res_for_delete_req_, ReqType
<1>9. req'.mthd = req.mthd /\ req'.uri = req.uri /\ state' = SkipState(Located)
  BY <1>3, <1>8
<1> QED BY <1>1, <1>2, <1>4, <1>7, <1>8, <1>9, RefusedReads

LEMMA Room ==
  ASSUME TypeOK, talk.framed, NEW tbl, AllFree(tbl)
  PROVE  \E r, w \in FreeIn(tbl) : r # w
<1>1. \E r, w \in Fd : r # w
  BY RoomAssumption DEF TypeOK, talk
<1> QED BY <1>1 DEF AllFree, FreeIn

LEMMA PostPutReads ==
  ASSUME TypeOK, UploadAccounted, talk.framed, Kept, Said, Reads, res_for_post_put_req_
  PROVE  /\ Reads' /\ pc' \in {pc, "wait"} /\ state' # "E_BAD_REQ"
         /\ \/ res' = res /\ state' \in Storing
            \/ ~ToFile(Here) /\ error_response_keep_alive_(404, Located, fds)
<1>1. /\ HeaderEnds /\ Served /\ ~Located.is_cgi /\ req.mthd \in {"POST", "PUT"}
      /\ chnkd' = chnkd /\ skip_size' = skip_size
  BY DEF res_for_post_put_req_
<1>2. /\ LocatedAt(Located, Here) /\ Allowed(Here) /\ Fit(Here) /\ Here \in PlaceType
      /\ Located.is_cgi = (Location[Here.u].found /\ Location[Here.u].cgi /\ Here.m # "DELETE")
      /\ Located.body_limit = Location[Here.u].limit /\ state = "REQ_HEADER_PARSING"
  BY <1>1, HeaderOver
<1>3. /\ Unheld /\ fds \in TableType /\ Located \in ReqType /\ req.uri \in Targets
      /\ Located.mthd = req.mthd /\ Located.uri = req.uri /\ AllFree(fds)
  BY <1>1, HeaderUnheld DEF Unheld
<1>4. ~ToScript(Here) /\ Here.m = req.mthd /\ Here.u = req.uri /\ Here.m \notin Bodiless
  BY <1>1, <1>2, <1>3 DEF ToScript, Allowed, LocatedAt, Bodiless
<1>5. FreeIn(fds) # {}
  BY <1>3, Room
<1>6. CASE /\ Location[req.uri].kind \in {"dir", "denied"}
           /\ error_response_keep_alive_(404, Located, fds) /\ Wait
  <2>1. ~ToFile(Here)
    BY <1>4, <1>6 DEF ToFile
  <2>2. PICK code \in Nat : error_response_keep_alive_(code, Located, fds)
    BY <1>6
  <2>3. state' = SkipState(Located) /\ Bare(fds') /\ req'.mthd = req.mthd /\ req'.uri = req.uri
    BY <1>3, <2>2, ErrorLeaves DEF Unheld
  <2>4. Reads'
    BY <1>1, <1>2, <1>4, <2>1, <2>3, RefusedReads
  <2> QED BY <1>6, <2>1, <2>3, <2>4, SkipStateIn DEF Wait, Refused
<1>7. ASSUME NEW f \in FreeIn(fds), Location[req.uri].kind \in {"file", "missing"},
             LET r == [Located EXCEPT !.body_fd = f]
             IN  CASE r.is_chnkd \/ r.cnt_len = Unset ->
                        /\ req' = [r EXCEPT !.body_size = 0, !.cnt_len = Unset]
                        /\ fds' = [fds EXCEPT ![f] = Upload]
                        /\ state' = "REQ_BODY_CHUNKED" /\ disk' = NewFile(r)
                        /\ UNCHANGED <<pc, res, client_w>>
                   [] ~r.is_chnkd /\ r.cnt_len > r.body_limit ->
                        /\ error_response_keep_alive_(416, r, fds)
                        /\ disk' = [NewFile(r) EXCEPT !.st = "removed"] /\ Wait
                   [] OTHER ->
                        /\ req' = r
                        /\ fds' = Watch([fds EXCEPT ![f] = Upload], f, "W")
                        /\ state' = "REQ_BODY" /\ disk' = NewFile(r)
                        /\ UNCHANGED <<pc, res, client_w>>
      PROVE  /\ Reads' /\ pc' \in {pc, "wait"} /\ state' # "E_BAD_REQ"
             /\ res' = res /\ state' \in Storing
  <2> DEFINE r == [Located EXCEPT !.body_fd = f]
             tbl == [fds EXCEPT ![f] = Upload]
  <2>1. /\ r \in ReqType /\ r.mthd = Located.mthd /\ r.uri = Located.uri
        /\ r.cnt_len = Located.cnt_len /\ r.is_chnkd = Located.is_chnkd
        /\ r.body_size = Located.body_size /\ r.body_limit = Located.body_limit
        /\ r.body_read = Located.body_read /\ f \in Fd
    BY <1>3 DEF ReqType, FreeIn
  <2>2. tbl \in TableType /\ \A g \in Fd : tbl[g].kind = IF g = f THEN "upload" ELSE "free"
    BY <1>3, <2>1, UploadFdTyped, OpenTyped DEF AllFree, TableType, Upload, FreeFd
  <2>3. \/ /\ r.is_chnkd \/ r.cnt_len = Unset
           /\ req' = [r EXCEPT !.body_size = 0, !.cnt_len = Unset] /\ fds' = tbl
           /\ state' = "REQ_BODY_CHUNKED"
           /\ pc' = pc /\ res' = res
        \/ ~r.is_chnkd /\ r.cnt_len # Unset /\ r.cnt_len > r.body_limit
        \/ /\ ~r.is_chnkd /\ r.cnt_len # Unset
           /\ req' = r /\ fds' = Watch(tbl, f, "W")
           /\ state' = "REQ_BODY"
           /\ pc' = pc /\ res' = res
    <3>1. CASE r.is_chnkd \/ r.cnt_len = Unset
      <4>0. ~(~r.is_chnkd /\ r.cnt_len > r.body_limit)
        <5> HIDE DEF r
        <5>1. r.body_limit \in Nat
          BY <1>1, <1>3, <2>1, LocatedTyped
        <5> QED BY <3>1, <5>1 DEF Unset
      <4>1. /\ req' = [r EXCEPT !.body_size = 0, !.cnt_len = Unset] /\ fds' = tbl
            /\ state' = "REQ_BODY_CHUNKED"
            /\ pc' = pc /\ res' = res
        BY <1>7, <3>1, <4>0
      <4> HIDE DEF r, tbl
      <4> QED BY <3>1, <4>1
    <3>2. CASE ~(r.is_chnkd \/ r.cnt_len = Unset) /\ r.cnt_len > r.body_limit
      BY <3>2
    <3>3. CASE ~(r.is_chnkd \/ r.cnt_len = Unset) /\ ~(r.cnt_len > r.body_limit)
      BY <1>7, <3>3
    <3> QED BY <3>1, <3>2, <3>3
  <2> HIDE DEF r, tbl
  <2>4. ToFile(Here)
    BY <1>1, <1>2, <1>4, <1>7 DEF ToFile
  <2>5. /\ r.mthd = req.mthd /\ r.uri = req.uri /\ r.cnt_len = Here.length
        /\ r.is_chnkd = Here.te /\ r.body_limit = Location[req.uri].limit /\ r.body_size = 0
        /\ r.body_read = 0
    BY <1>2, <1>3, <1>4, <2>1, LocatedTyped DEF LocatedAt, UploadAccounted, FreshRequest
  <2>6. Here.length \in Nat \cup {Unset} /\ Here.te \in BOOLEAN
    BY <1>2 DEF PlaceType
  <2>7. ~Here.te => Here.length \in Nat
    BY <1>2, <1>4, <2>6 DEF Fit
  <2>8. Holders' \/ ~(\A g \in Fd : fds'[g].kind = tbl[g].kind)
           \/ ~(state' \in Storing) \/ ~ToFile(Here')
    BY <2>2 DEF Holders
  <2>9. \A q : SameMessage(Here, q) => ToFile(q)
    BY <2>4, SameTarget DEF SameMessage
  <2>10. ToFile(Here')
    BY <1>1, <2>9, HeaderOver, AfterHeaderIs
  <2>11. CASE /\ r.is_chnkd \/ r.cnt_len = Unset
              /\ req' = [r EXCEPT !.body_size = 0, !.cnt_len = Unset] /\ fds' = tbl
              /\ state' = "REQ_BODY_CHUNKED"
              /\ pc' = pc /\ res' = res
    <3>1. Here.te /\ Here.length = Unset
      BY <1>2, <2>5, <2>7, <2>11 DEF Fit, Unset
    <3>2. /\ req'.mthd = req.mthd /\ req'.uri = req.uri /\ req'.cnt_len = Here.length
          /\ req'.is_chnkd = Here.te /\ req'.body_limit = Location[req.uri].limit
          /\ req'.body_size = 0 /\ req'.body_read = 0
      BY <2>1, <2>5, <2>11, <3>1 DEF ReqType
    <3>3. Position'
      BY <1>1, <2>4, <2>11, <3>1, <3>2, BodyAwaited
    <3> QED BY <2>8, <2>10, <2>11, <3>3 DEF Reads, Storing
  <2>12. ~(~r.is_chnkd /\ r.cnt_len # Unset /\ r.cnt_len > r.body_limit)
    <3>1. Location[req.uri].limit \in Nat
      BY <1>3, LocationTyped DEF LocationType
    <3> QED BY <1>2, <1>4, <2>5, <2>6, <2>7, <3>1 DEF Fit
  <2>13. CASE /\ ~r.is_chnkd /\ r.cnt_len # Unset
              /\ req' = r /\ fds' = Watch(tbl, f, "W")
              /\ state' = "REQ_BODY"
              /\ pc' = pc /\ res' = res
    <3>1. ~Here.te /\ Here.length \in Nat
      BY <2>5, <2>7, <2>13
    <3>2. Position'
      BY <1>1, <2>4, <2>5, <2>13, <3>1, BodyAwaited
    <3>3. \A g \in Fd : fds'[g].kind = tbl[g].kind
      BY <2>2, <2>13, WatchKeeps
    <3> QED BY <2>8, <2>10, <2>13, <3>2, <3>3 DEF Reads, Storing
  <2> QED BY <2>3, <2>11, <2>12, <2>13
<1> QED BY <1>5, <1>6, <1>7 DEF res_for_post_put_req_

LEMMA CgiReads ==
  ASSUME TypeOK, UploadAccounted, talk.framed, Kept, Said, Reads, do_cgi_
  PROVE  /\ Reads' /\ state' \notin Start \cup {"REQ_CLEAR", "E_BAD_REQ"} /\ res' = res
         /\ \A f \in Fd : fds'[f].kind = "pipe" => GoodScript(fds'[f])
<1>1. /\ HeaderEnds /\ Served /\ Located.is_cgi /\ chnkd' = chnkd /\ skip_size' = skip_size
  BY DEF do_cgi_
<1>2. /\ LocatedAt(Located, Here) /\ Allowed(Here) /\ Fit(Here) /\ Here \in PlaceType
      /\ Located.is_cgi = (Location[Here.u].found /\ Location[Here.u].cgi /\ Here.m # "DELETE")
      /\ Located.body_limit = Location[Here.u].limit /\ Here' = AfterEmptyLine(Here)
      /\ Here.part = "head"
  BY <1>1, HeaderOver
<1>3. /\ Unheld /\ fds \in TableType /\ Located \in ReqType /\ req.uri \in Targets
      /\ Located.mthd = req.mthd /\ Located.uri = req.uri /\ AllFree(fds)
  BY <1>1, HeaderUnheld DEF Unheld
<1>4. ToScript(Here) /\ Here.m = req.mthd /\ Here.u = req.uri /\ ~ToFile(Here)
  BY <1>1, <1>2, <1>3 DEF ToScript, ToFile, LocatedAt
<1>5. "fork" \notin talk.faults /\ \E r, w \in FreeIn(fds) : r # w
  BY <1>3, Room, FramedTalk
<1>6. PICK s \in talk.scripts, r \in FreeIn(fds), w \in FreeIn(fds) :
          /\ r # w
          /\ IF req.mthd \in Bodiless
             THEN /\ fds' = [fds EXCEPT ![r] = Pipe(s, NoFd)]
                  /\ cgi' = [cgi EXCEPT !.rfd = r]
             ELSE /\ fds' = [fds EXCEPT ![r] = Pipe(s, w), ![w] = Stdin(s, r)]
                  /\ cgi' = [cgi EXCEPT !.rfd = r, !.wfd = w]
          /\ failing' = failing + (IF s.fails THEN 1 ELSE 0)
          /\ req' = Located
          /\ state' = CASE Located.is_chnkd /\ req.mthd \in Bodiless    -> "REQ_SKIP_BODY_CHUNKED"
                        [] Located.is_chnkd /\ req.mthd \notin Bodiless -> "REQ_CGI_BODY_CHUNKED"
                        [] ~Located.is_chnkd /\ Located.cnt_len = 0     -> "REQ_HOLD"
                        [] OTHER -> IF req.mthd \in Bodiless THEN "REQ_SKIP_BODY" ELSE "REQ_CGI_BODY"
          /\ UNCHANGED <<pc, res, client_w>>
  BY <1>5 DEF do_cgi_
<1>7. r \in Fd /\ w \in Fd
  BY DEF FreeIn
<1>8. /\ \A g \in Fd : fds'[g].kind \in {"free", "pipe", "stdin"}
      /\ \A g \in Fd : fds'[g].kind = "pipe" => GoodScript(fds'[g])
      /\ \A g \in Fd : fds'[g].kind = "stdin" => NoWriter(fds', g) /\ req.mthd \notin Bodiless
  <2>1. s.reads /\ ~s.fails /\ s.form # "length"
    BY FramedTalk
  <2>2. Stdin(s, r).ev = {}
    BY DEF Stdin, FreeFd
  <2>3. CASE fds' = [fds EXCEPT ![r] = Pipe(s, NoFd)]
    BY <1>3, <1>7, <2>1, <2>3, PipeFds DEF AllFree, TableType, GoodScript
  <2>4. CASE fds' = [fds EXCEPT ![r] = Pipe(s, w), ![w] = Stdin(s, r)] /\ req.mthd \notin Bodiless
    <3>1. \A g \in Fd : fds'[g] = IF g = w THEN Stdin(s, r) ELSE IF g = r THEN Pipe(s, w) ELSE fds[g]
      BY <1>3, <1>7, <2>4 DEF TableType
    <3>2. /\ Stdin(s, r).kind = "stdin" /\ Pipe(s, w).kind = "pipe" /\ Pipe(s, w).run = s
      BY PipeFds
    <3>3. GoodScript(Pipe(s, w))
      BY <2>1, <3>2 DEF GoodScript
    <3>4. \A g \in Fd : fds[g].kind = "free"
      BY <1>3 DEF AllFree
    <3>5. \A g \in Fd : fds'[g].kind = "stdin" => g = w
      BY <3>1, <3>2, <3>4
    <3>6. NoWriter(fds', w)
      BY <1>7, <2>2, <3>1 DEF NoWriter
    <3> QED BY <2>4, <3>1, <3>2, <3>3, <3>4, <3>5, <3>6
  <2> QED BY <1>6, <2>3, <2>4
<1>9. /\ Here.length \in Nat \cup {Unset} /\ Here.te \in BOOLEAN
      /\ Located.is_chnkd = Here.te /\ Located.cnt_len = Here.length
  BY <1>2 DEF PlaceType, LocatedAt
<1>10. state' = IF Here.te
                THEN IF Here.m \in Bodiless THEN "REQ_SKIP_BODY_CHUNKED" ELSE "REQ_CGI_BODY_CHUNKED"
                ELSE IF Here.length = 0 THEN "REQ_HOLD"
                ELSE IF Here.m \in Bodiless THEN "REQ_SKIP_BODY" ELSE "REQ_CGI_BODY"
  BY <1>4, <1>6, <1>9
<1>11. Here.m \notin Bodiless /\ ~Here.te => Here.length \in Nat
  BY <1>2, <1>9 DEF Fit
<1>12. Here.m \in Bodiless /\ ~Here.te => ~(Here.length > 0)
  BY <1>2 DEF Fit
<1>13. Position'
  <2>1. req'.mthd = req.mthd /\ req'.uri = req.uri
    BY <1>3, <1>6
  <2>2. CASE Here.te /\ Here.m \in Bodiless
    BY <1>1, <1>4, <1>10, <2>1, <2>2, PassedOver
  <2>3. CASE ~Here.te /\ (Here.length = 0 \/ Here.m \in Bodiless)
    <3>1. state' \in {"REQ_HOLD", "REQ_SKIP_BODY"} /\ ~(Here.length > 0)
      BY <1>10, <1>12, <2>3
    <3> QED BY <1>1, <1>4, <2>1, <2>3, <3>1, PassedOver
  <2>4. CASE Here.m \notin Bodiless /\ (Here.te \/ Here.length # 0)
    <3>1. /\ req'.is_chnkd = Here.te
          /\ req'.cnt_len = Here.length /\ req'.body_size = 0 /\ req'.body_read = 0
          /\ req'.body_limit = Location[req.uri].limit
      BY <1>1, <1>2, <1>3, <1>4, <1>6, <1>9, HeaderOver, LocatedTyped
         DEF LocatedAt, UploadAccounted, FreshRequest
    <3>2. state' = IF Here.te THEN "REQ_CGI_BODY_CHUNKED" ELSE "REQ_CGI_BODY"
      BY <1>10, <2>4
    <3> QED BY <1>1, <1>4, <1>11, <2>1, <2>4, <3>1, <3>2, BodyAwaited
  <2> QED BY <1>9, <2>2, <2>3, <2>4
<1>14. Holders'
  <2>1. ToScript(Here')
    BY <1>2, <1>4, AfterHeaderIs, SameTarget DEF SameMessage
  <2>2. ASSUME req.mthd \notin Bodiless PROVE state' \in Feeding \cup {"REQ_HOLD"}
    BY <1>4, <1>10, <2>2 DEF Feeding
  <2> QED BY <1>8, <2>1, <2>2 DEF Holders
<1>15. state' \notin Start \cup {"REQ_CLEAR", "E_BAD_REQ"}
  BY <1>10 DEF Start
<1> QED BY <1>6, <1>8, <1>13, <1>14, <1>15 DEF Reads

-----------------------------------------------------------------------------
(* Steps on a body.                                                        *)

LEMMA TypedPlace ==
  ASSUME TypeOK, talk.framed
  PROVE  Here \in PlaceType /\ Here.left \in Nat /\ Here.n \in Nat /\ Here.total \in Nat
         /\ Here.te \in BOOLEAN /\ Here.last \in BOOLEAN
<1>1. Here \in PlaceType
  BY InPlace
<1> QED BY <1>1 DEF PlaceType

\* Of a body of known length no more is taken than belongs to it.
LEMMA BodyTaken ==
  ASSUME TypeOK, talk.framed, Position, state \in Sized, NEW n,
         n = Upto(req.cnt_len - req.body_read), peer' = peer, pos' = pos + n,
         req'.mthd = req.mthd, req'.uri = req.uri, req'.cnt_len = req.cnt_len,
         req'.is_chnkd = req.is_chnkd, req'.body_read = req.body_read + n,
         state' = (IF req.body_read + n = req.cnt_len THEN "REQ_HOLD" ELSE state),
         skip_size' = skip_size
  PROVE  /\ Position' /\ Number(Here') = Number(Here)
         /\ ToFile(Here') = ToFile(Here) /\ ToScript(Here') = ToScript(Here)
<1>1. /\ Here.te = FALSE /\ ~req.is_chnkd
      /\ IF req.body_read = req.cnt_len THEN Here.part = "between"
         ELSE Here.part = "body" /\ Here.left = req.cnt_len - req.body_read
  BY TypedPlace DEF Position, AtBody
<1>2. /\ Here.m = req.mthd /\ Here.u = req.uri /\ skip_size = 0
      /\ (state \in Storing => ToFile(Here))
      /\ (state \in Feeding => ToScript(Here) /\ Here.m \notin Bodiless)
  BY DEF Position, AtMessage, ForWhom, Sized
<1>3. req.body_read \in Nat /\ req.cnt_len \in Int
  BY DEF TypeOK, ReqType, SizeType, Unset
<1> DEFINE k == req.cnt_len - req.body_read
<1>4. k \in Nat /\ (k = 0 => Here.part = "between") /\ (k # 0 => Here.part = "body" /\ Here.left = k)
  BY <1>1, <1>3, TypedPlace
<1>5. n \in Nat /\ n <= k
  BY <1>4, TakeOK
<1>6. Here' = At(pos + n)
  BY HereNext
<1>7. /\ SameMessage(Here, Here') /\ Number(Here') = Number(Here)
      /\ n < k => Here'.part = "body" /\ Here'.left = k - n
      /\ n = k => Here'.part = "between"
  <2>1. CASE n = 0
    <3>1. pos + n = pos
      BY <2>1, InPlace
    <3>2. Here' = Here
      BY <1>6, <3>1 DEF Here
    <3> QED BY <1>4, <2>1, <3>2 DEF SameMessage
  <2>2. CASE n # 0
    <3>1. n \in 1 .. Here.left /\ Here.part = "body" /\ Here.left = k
      BY <1>4, <1>5, <2>2
    <3>2. Here' = AfterBytes(Here, n)
      BY <1>6, <3>1, BytesDue DEF Moves
    <3> QED BY <3>1, <3>2, TypedPlace, AfterBytesIs DEF Number
  <2> QED BY <2>1, <2>2
<1>8. ToFile(Here') = ToFile(Here) /\ ToScript(Here') = ToScript(Here)
  BY <1>7, SameTarget DEF SameMessage
<1>9. n = k <=> req.body_read + n = req.cnt_len
  BY <1>3, <1>5
<1>10. AtMessage'
  BY <1>2, <1>7, <1>9 DEF AtMessage, SameMessage, Idling, Sized
<1>11. AtBody'
  <2> SUFFICES ASSUME state' \in Sized PROVE AtBody'
    BY DEF AtBody
  <2>1. n # k /\ req'.body_read # req'.cnt_len
    BY <1>9 DEF Sized
  <2>2. Here'.part = "body" /\ Here'.left = req'.cnt_len - req'.body_read
    BY <1>3, <1>5, <1>7, <2>1
  <2> QED BY <1>1, <1>7, <2>1, <2>2 DEF AtBody, SameMessage
<1>12. AtHeader' /\ AtChunk'
  BY DEF AtHeader, AtChunk, Sized, Chunks
<1>13. ForWhom'
  BY <1>1, <1>2, <1>7, <1>8 DEF ForWhom, SameMessage, Sized, Storing, Feeding, TooLong
<1> QED BY <1>7, <1>8, <1>10, <1>11, <1>12, <1>13 DEF Position

LEMMA BodyReads ==
  ASSUME TypeOK, talk.framed, Kept, Reads, state_req_body_ \/ CgiBody
  PROVE  Reads' /\ Number(Here') = Number(Here)
<1>1. CASE state_req_body_
  <2>1. /\ state = "REQ_BODY" /\ peer' = peer /\ skip_size' = skip_size /\ fds' = fds
        /\ req' = [req EXCEPT !.body_buf = @ + Upto(req.cnt_len - req.body_read),
                              !.body_read = @ + Upto(req.cnt_len - req.body_read)]
        /\ pos' = pos + Upto(req.cnt_len - req.body_read)
        /\ state' = (IF req.body_read + Upto(req.cnt_len - req.body_read) = req.cnt_len
                     THEN "REQ_HOLD" ELSE state)
    BY <1>1 DEF state_req_body_, In, inputVars
  <2>2. PICK n : n = Upto(req.cnt_len - req.body_read)
    OBVIOUS
  <2>3. /\ req'.mthd = req.mthd /\ req'.uri = req.uri /\ req'.cnt_len = req.cnt_len
        /\ req'.is_chnkd = req.is_chnkd /\ req'.body_read = req.body_read + n
    BY <2>1, <2>2 DEF TypeOK, ReqType
  <2>4. /\ Position' /\ Number(Here') = Number(Here)
        /\ ToFile(Here') = ToFile(Here) /\ ToScript(Here') = ToScript(Here)
    BY <2>1, <2>2, <2>3, BodyTaken DEF Reads, Sized
  <2>5. state' = state \/ state' = "REQ_HOLD"
    BY <2>1
  <2> QED BY <2>1, <2>4, <2>5, FdsSame, HoldersStay DEF Reads
<1>2. CASE CgiBody
  <2>1. /\ state = "REQ_CGI_BODY" /\ peer' = peer /\ skip_size' = skip_size
        /\ req' = [req EXCEPT !.body_read = @ + Upto(req.cnt_len - req.body_read)]
        /\ pos' = pos + Upto(req.cnt_len - req.body_read)
        /\ state' = (IF req.body_read + Upto(req.cnt_len - req.body_read) = req.cnt_len
                     THEN "REQ_HOLD" ELSE state)
        /\ fds' = fds \/ (fds' = Watch(fds, cgi.wfd, "W") /\ state' = "REQ_HOLD")
    BY <1>2 DEF CgiBody, In, inputVars
  <2>2. PICK n : n = Upto(req.cnt_len - req.body_read)
    OBVIOUS
  <2>3. /\ req'.mthd = req.mthd /\ req'.uri = req.uri /\ req'.cnt_len = req.cnt_len
        /\ req'.is_chnkd = req.is_chnkd /\ req'.body_read = req.body_read + n
    BY <2>1, <2>2 DEF TypeOK, ReqType
  <2>4. /\ Position' /\ Number(Here') = Number(Here)
        /\ ToFile(Here') = ToFile(Here) /\ ToScript(Here') = ToScript(Here)
    BY <2>1, <2>2, <2>3, BodyTaken DEF Reads, Sized
  <2>5. state' = state \/ state' = "REQ_HOLD"
    BY <2>1
  <2>6. NoneOpened
    <3>1. fds' = Watch(fds, cgi.wfd, "W") => \A f \in Fd : fds'[f].kind = fds[f].kind
      BY WatchKeeps DEF TypeOK
    <3> QED BY <2>1, <3>1, FdsSame DEF NoneOpened
  <2> QED BY <2>1, <2>4, <2>5, <2>6, HoldersStay DEF Reads
<1> QED BY <1>1, <1>2

\* In a framed talk there is nothing to skip but chunks.
LEMMA SkipBodyReads ==
  ASSUME TypeOK, Reads, SkipBody
  PROVE  Reads' /\ pos' = pos
<1>1. skip_size = 0
  BY DEF Reads, Position, AtMessage
<1>2. Least(avail, skip_size) = 0
  BY <1>1, TakeOK DEF Least
<1>3. pos \in Nat
  BY TakeOK
<1>4. pos' = pos /\ skip_size' = skip_size
  BY <1>1, <1>2, <1>3 DEF SkipBody
<1>5. req' = req /\ chnkd' = chnkd /\ fds' = fds /\ UNCHANGED <<peer, state>>
  BY DEF SkipBody, inputVars
<1> QED BY <1>4, <1>5, SameReads, FdsSame, ReqSame

-----------------------------------------------------------------------------
(* Steps on chunks.                                                        *)

LEMMA FirstChunkReads ==
  ASSUME TypeOK, Reads, FirstChunk
  PROVE  Reads'
<1>1. /\ InChunks /\ req' = req /\ UNCHANGED <<peer, pos, state, skip_size>>
      /\ chnkd' = [chnkd EXCEPT !.first = FALSE]
      /\ \E f : fds' = Watch(fds, f, "W")
  BY DEF FirstChunk, inputVars
<1>2. SamePlace
  BY <1>1 DEF SamePlace, TypeOK, ChnkdType
<1>3. NoneOpened
  <2>1. \A f \in Fd : fds'[f].kind = fds[f].kind
    BY <1>1, WatchKeeps DEF TypeOK
  <2> QED BY <1>1, <2>1 DEF NoneOpened, InChunks, In
<1> QED BY <1>1, <1>2, <1>3, SameReads

\* The data of a chunk is taken up to its CRLF.
LEMMA ChunkTaken ==
  ASSUME TypeOK, talk.framed, Reads, state \in Chunks, chnkd.size > 2, NEW n,
         n = Least(avail, chnkd.size - 2), peer' = peer, pos' = pos + n, req' = req, fds' = fds,
         state' = state, skip_size' = skip_size,
         chnkd'.size = chnkd.size - n, chnkd'.last = chnkd.last
  PROVE  Reads' /\ Number(Here') = Number(Here)
<1>1. /\ Here.te /\ chnkd.last = Here.last
      /\ Here.part = "data" /\ Here.left = chnkd.size - 2
  BY DEF Reads, Position, AtChunk, TypeOK, ChnkdType
<1>2. /\ Here.m = req.mthd /\ Here.u = req.uri /\ skip_size = 0 /\ ForWhom
  BY DEF Reads, Position, AtMessage, Chunks
<1>3. n \in Nat /\ n <= Here.left /\ chnkd.size \in Nat
  <2>1. chnkd.size - 2 \in Nat /\ chnkd.size \in Nat
    BY DEF TypeOK, ChnkdType
  <2> QED BY <1>1, <2>1, TakeOK
<1>4. Here' = At(pos + n)
  BY HereNext
<1>5. /\ SameMessage(Here, Here') /\ Here'.total = Here.total /\ Number(Here') = Number(Here)
      /\ n < Here.left => Here'.part = "data" /\ Here'.left = Here.left - n
      /\ n = Here.left => Here'.part = "crlf"
  <2>1. CASE n = 0
    <3>1. pos + n = pos
      BY <2>1, InPlace
    <3>2. Here' = Here
      BY <1>4, <3>1 DEF Here
    <3>3. SameMessage(Here, Here') /\ Here'.total = Here.total
      BY <3>2 DEF SameMessage
    <3>4. Here.left # 0 /\ Here.left - 0 = Here.left
      BY <1>1, <1>3, TypedPlace
    <3> QED BY <1>1, <2>1, <3>2, <3>3, <3>4
  <2>2. CASE n # 0
    <3>1. n \in 1 .. Here.left
      BY <1>3, <2>2, TypedPlace
    <3>2. Here' = AfterBytes(Here, n)
      BY <1>1, <1>4, <3>1, BytesDue DEF Moves
    <3> QED BY <1>1, <3>1, <3>2, TypedPlace, AfterBytesIs DEF Number
  <2> QED BY <2>1, <2>2
<1>6. ToFile(Here') = ToFile(Here) /\ ToScript(Here') = ToScript(Here)
      /\ TooLong(Here') = TooLong(Here)
  BY <1>5, SameTarget, SameDue DEF SameMessage
<1>7. AtMessage'
  BY <1>2, <1>5 DEF AtMessage, SameMessage, Idling, Chunks
<1>8. AtChunk'
  <2>1. /\ Here'.te /\ chnkd'.last = Here'.last
    BY <1>1, <1>5 DEF SameMessage
  <2>2. CASE n < Here.left
    <3>1. /\ chnkd'.size # 0 /\ chnkd'.size # 2 /\ Here'.part = "data"
          /\ Here'.left = chnkd'.size - 2
      BY <1>1, <1>3, <1>5, <2>2
    <3> QED BY <2>1, <3>1 DEF AtChunk
  <2>3. CASE n = Here.left
    <3>1. chnkd'.size = 2 /\ Here'.part = "crlf"
      BY <1>1, <1>3, <1>5, <2>3
    <3> QED BY <2>1, <3>1 DEF AtChunk
  <2> QED BY <1>3, <2>2, <2>3, TypedPlace
<1>9. ForWhom'
  BY <1>2, <1>5, <1>6 DEF ForWhom, SameMessage, Chunks, Storing, Feeding
<1>10. AtHeader' /\ AtBody'
  BY DEF AtHeader, AtBody, Sized, Chunks
<1>11. Holders'
  BY <1>6, FdsSame, HoldersStay DEF Reads
<1> QED BY <1>5, <1>7, <1>8, <1>9, <1>10, <1>11 DEF Reads, Position

LEMMA ChunkDataReads ==
  ASSUME TypeOK, talk.framed, Reads, ChunkData \/ SkipChunkData
  PROVE  Reads' /\ Number(Here') = Number(Here)
<1> DEFINE n == Least(avail, chnkd.size - 2)
<1>1. /\ state \in Chunks /\ chnkd.size > 2 /\ peer' = peer /\ pos' = pos + n /\ req' = req
      /\ fds' = fds /\ state' = state /\ skip_size' = skip_size
  BY DEF ChunkData, SkipChunkData, InChunks, InSkip, In, Chunks, inputVars
<1>2. \/ chnkd' = [chnkd EXCEPT !.size = @ - n, !.body = @ + n]
      \/ chnkd' = [chnkd EXCEPT !.size = @ - n]
  BY DEF ChunkData, SkipChunkData
<1> HIDE DEF n
<1>3. chnkd'.size = chnkd.size - n /\ chnkd'.last = chnkd.last
  BY <1>2 DEF TypeOK, ChnkdType
<1> QED BY <1>1, <1>3, ChunkTaken DEF n

\* The CRLF after the data: the next size line, or the end of the message.
LEMMA ChunkPassed ==
  ASSUME TypeOK, UploadAccounted, Kept, talk.framed, Reads, state \in Chunks, chnkd.size = 2,
         peer' = peer, pos' = pos + 2, skip_size' = skip_size, fds' = fds,
         req' = req \/ (chnkd.last /\ req' = [req EXCEPT !.cnt_len = req.body_size]),
         chnkd' = [chnkd EXCEPT !.size = 0],
         IF chnkd.last
         THEN state' = IF state = "REQ_SKIP_BODY_CHUNKED" THEN "REQ_CLEAR" ELSE "REQ_HOLD"
         ELSE state' = state,
         state' = "REQ_CLEAR" => Bare(fds)
  PROVE  Reads' /\ Number(Here') = Number(Here)
<1>1. Here.te /\ chnkd.last = Here.last /\ Here.part = "crlf"
  BY DEF Reads, Position, AtChunk
<1>2. /\ Here.m = req.mthd /\ Here.u = req.uri /\ skip_size = 0 /\ ForWhom
  BY DEF Reads, Position, AtMessage, Chunks
<1>3. Here' = AfterEmptyLine(Here)
  BY <1>1, HereNext, ChunkOver DEF Moves
<1>4. /\ SameMessage(Here, Here') /\ Here'.total = Here.total
      /\ IF Here.last THEN Here'.part = "between" ELSE Here'.part = "size"
      /\ Number(Here') = Number(Here)
  BY <1>1, <1>3, TypedPlace, AfterChunkIs DEF Number
<1>5. ToFile(Here') = ToFile(Here) /\ ToScript(Here') = ToScript(Here)
      /\ TooLong(Here') = TooLong(Here)
  BY <1>4, SameTarget, SameDue DEF SameMessage
<1>6. /\ req'.mthd = req.mthd /\ req'.uri = req.uri /\ chnkd'.size = 0 /\ chnkd'.last = chnkd.last
  BY DEF TypeOK, ReqType, ChnkdType
<1>7. CASE Here.last
  <2>1. state' \in {"REQ_CLEAR", "REQ_HOLD"} /\ (state' = "REQ_CLEAR" => Bare(fds))
    BY <1>1, <1>7
  <2>2. AtMessage'
    BY <1>2, <1>4, <1>6, <1>7, <2>1 DEF AtMessage, SameMessage
  <2>5. state' = "REQ_HOLD" => ~TooLong(Here')
    <3>1. CASE state = "REQ_BODY_CHUNKED"
      <4>1. Here.total <= Location[Here.u].limit
        BY <1>2, <3>1 DEF ForWhom, UploadAccounted, ChunksAccounted
      <4>2. Here.u \in Targets
        BY <1>2, <3>1 DEF Kept, Taken, Open, TypeOK
      <4>3. Here.total \in Nat /\ Location[Here.u].limit \in Nat
        BY <4>2, TypedPlace, LocationTyped DEF LocationType
      <4> QED BY <1>5, <4>1, <4>3 DEF TooLong
    <3>2. CASE state = "REQ_CGI_BODY_CHUNKED"
      BY <1>2, <1>5, <3>2 DEF ForWhom, Feeding, TooLong, ToFile
    <3> QED BY <1>7, <3>1, <3>2 DEF Chunks
  <2>3. AtHeader' /\ AtBody' /\ AtChunk' /\ ForWhom'
    BY <2>1, <2>5 DEF AtHeader, AtBody, AtChunk, ForWhom, Sized, Chunks, Storing, Feeding
  <2>4. Holders'
    <3>1. CASE state' = "REQ_CLEAR"
      BY <2>1, <3>1, BareHolders DEF Bare
    <3>2. CASE state' = "REQ_HOLD"
      BY <1>5, <3>2, FdsSame, HoldersStay DEF Reads
    <3> QED BY <2>1, <3>1, <3>2
  <2> QED BY <1>4, <2>2, <2>3, <2>4 DEF Reads, Position
<1>8. CASE ~Here.last
  <2>1. state' = state /\ req' = req
    BY <1>1, <1>8
  <2>2. AtMessage'
    BY <1>2, <1>4, <1>6, <2>1 DEF AtMessage, SameMessage, Idling, Chunks
  <2>3. AtChunk'
    BY <1>1, <1>4, <1>6, <1>8 DEF AtChunk, SameMessage
  <2>4. ForWhom'
    BY <1>2, <1>4, <1>5, <2>1 DEF ForWhom, SameMessage, Chunks, Storing, Feeding
  <2>5. AtHeader' /\ AtBody'
    BY <2>1 DEF AtHeader, AtBody, Sized, Chunks
  <2>6. Holders'
    BY <1>5, <2>1, FdsSame, HoldersStay DEF Reads
  <2> QED BY <1>4, <2>2, <2>3, <2>4, <2>5, <2>6 DEF Reads, Position
<1> QED BY <1>7, <1>8

\* The size of a chunk of a framed talk does not wrap.
LEMMA FramedChunk ==
  ASSUME TypeOK, talk.framed, Reads, state \in Chunks, chnkd.size \in {1, 2}
  PROVE  chnkd.size = 2 /\ AfterChunk = [chnkd EXCEPT !.size = 0]
<1>1. chnkd.size # 1
  <2> SUFFICES ASSUME chnkd.size = 1 PROVE FALSE
    OBVIOUS
  <2>1. Here.left = -1
    BY DEF Reads, Position, AtChunk
  <2> QED BY <2>1, TypedPlace
<1> QED BY <1>1, ChunkEndIs

LEMMA ChunkEndReads ==
  ASSUME TypeOK, UploadAccounted, talk.framed, Kept, Reads, ChunkEnd
  PROVE  Reads' /\ state' # "E_BAD_REQ" /\ Number(Here') = Number(Here)
<1>0. /\ state \in Chunks /\ state # "REQ_SKIP_BODY_CHUNKED" /\ chnkd.size \in {1, 2}
      /\ peer' = peer /\ skip_size' = skip_size /\ fds' = fds
  BY DEF ChunkEnd, InChunks, In, Chunks, inputVars
<1>1. /\ state \in Chunks /\ state # "REQ_SKIP_BODY_CHUNKED" /\ chnkd.size = 2
      /\ AfterChunk = [chnkd EXCEPT !.size = 0]
      /\ peer' = peer /\ skip_size' = skip_size /\ fds' = fds
  BY <1>0, FramedChunk
<1>2. CASE avail < 2
  <2>1. req' = req /\ chnkd' = chnkd /\ UNCHANGED <<peer, pos, state, skip_size>>
    BY <1>1, <1>2 DEF ChunkEnd
  <2>2. Here' = Here
    BY <2>1, HereNext DEF Here
  <2> QED BY <1>1, <2>1, <2>2, SameReads, FdsSame, ReqSame DEF Chunks
<1>3. CASE ~(avail < 2)
  <2>1. /\ pos' = pos + 2 /\ chnkd' = [chnkd EXCEPT !.size = 0]
        /\ IF chnkd.last
           THEN req' = [req EXCEPT !.cnt_len = req.body_size] /\ state' = "REQ_HOLD"
           ELSE req' = req /\ state' = state
    BY <1>1, <1>3 DEF ChunkEnd
  <2> QED BY <1>1, <2>1, ChunkPassed DEF Chunks
<1> QED BY <1>2, <1>3

LEMMA SkipChunkEndReads ==
  ASSUME TypeOK, UploadAccounted, talk.framed, Kept, Reads, SkipChunkEnd
  PROVE  /\ Reads' /\ state' # "E_BAD_REQ" /\ res' = res /\ fds' = fds
         /\ Number(Here') = Number(Here)
<1>0. /\ state \in Chunks /\ state = "REQ_SKIP_BODY_CHUNKED" /\ chnkd.size \in {1, 2}
      /\ peer' = peer /\ skip_size' = skip_size
  BY DEF SkipChunkEnd, InSkip, In, Chunks, inputVars
<1>1. /\ state \in Chunks /\ state = "REQ_SKIP_BODY_CHUNKED" /\ chnkd.size = 2
      /\ AfterChunk = [chnkd EXCEPT !.size = 0]
      /\ peer' = peer /\ skip_size' = skip_size
  BY <1>0, FramedChunk
<1>2. CASE ~res.write_finished \/ avail < 2
  <2>1. /\ req' = req /\ chnkd' = chnkd /\ fds' = fds /\ res' = res
        /\ UNCHANGED <<peer, pos, state, skip_size>>
    BY <1>1, <1>2 DEF SkipChunkEnd
  <2>2. Here' = Here
    BY <2>1, HereNext DEF Here
  <2> QED BY <1>1, <2>1, <2>2, SameReads, FdsSame, ReqSame
<1>3. CASE ~(~res.write_finished \/ avail < 2)
  <2>1. talk.bytes[pos+1] = CR /\ talk.bytes[pos+2] = LF
    <3>1. Here.part = "crlf"
      BY <1>1 DEF Reads, Position, AtChunk
    <3> QED BY <3>1, ChunkOver DEF EmptyAt
  <2>2. /\ pos' = pos + 2 /\ chnkd' = [chnkd EXCEPT !.size = 0] /\ fds' = fds /\ res' = res
        /\ IF chnkd.last
           THEN req' = [req EXCEPT !.cnt_len = req.body_size] /\ state' = "REQ_CLEAR"
           ELSE req' = req /\ state' = state
    BY <1>1, <1>3, <2>1 DEF SkipChunkEnd
  <2>3. Bare(fds)
    BY <1>3 DEF Kept, Quiet, AllFree, Bare
  <2> QED BY <1>1, <2>2, <2>3, ChunkPassed
<1> QED BY <1>2, <1>3

\* The place after a size line.
LEMMA SizeRead ==
  ASSUME TypeOK, talk.framed, Reads, state \in Chunks, chnkd.size = 0, line.got = "line",
         peer' = peer, pos' = line.end
  PROVE  /\ line.text.t = "size" /\ line.text \in SymbolType /\ line.text.n \in Nat
         /\ Here'.m = Here.m /\ Here'.u = Here.u /\ Here'.te /\ Here'.n = Here.n
         /\ Here'.total = Here.total + line.text.n /\ Here'.last = (line.text.n = 0)
         /\ Here'.part \in InChunk
         /\ IF line.text.n = 0 THEN Here'.part = "crlf"
            ELSE Here'.part = "data" /\ Here'.left = line.text.n
         /\ ToFile(Here') = ToFile(Here) /\ ToScript(Here') = ToScript(Here)
         /\ chnkd.last = FALSE /\ Here.te /\ Number(Here') = Number(Here)
         /\ line.text.n + 2 < Modulus /\ ReadSize(line.text.n) = line.text.n
<1>1. Here.te /\ chnkd.last = Here.last /\ Here.part = "size" /\ ~Here.last
  BY DEF Reads, Position, AtChunk
<1>2. /\ line.text.t \in TextsAt("size") /\ Moves(line.end, AfterText(Here, line.text))
      /\ line.text.n + 2 < Modulus
  BY <1>1, LineDue
<1>3. line.text.t = "size" /\ Here' = AfterText(Here, line.text)
  BY <1>2, HereNext DEF TextsAt, Moves
<1>4. line.text \in SymbolType /\ line.text.n \in Nat
  <2>1. line.text # Blank
    BY <1>3, SymbolsDiffer
  <2> QED BY <2>1, LineOK DEF SymbolType
<1>5. /\ Here'.m = Here.m /\ Here'.u = Here.u /\ Here'.te = Here.te /\ Here'.n = Here.n
      /\ Here'.total = Here.total + line.text.n /\ Here'.last = (line.text.n = 0)
      /\ IF line.text.n = 0 THEN Here'.part = "crlf"
         ELSE Here'.part = "data" /\ Here'.left = line.text.n
  BY <1>1, <1>3, <1>4, TypedPlace, AfterSizeIs
<1>6. ToFile(Here') = ToFile(Here) /\ ToScript(Here') = ToScript(Here)
  BY <1>5, SameTarget
<1>7. chnkd.last = FALSE
  BY <1>1, TypedPlace
<1>8. Number(Here') = Number(Here)
  BY <1>1, <1>5 DEF Number
<1>9. ReadSize(line.text.n) = line.text.n
  BY <1>2, <1>4, ReadSizeTyped
<1> QED BY <1>1, <1>2, <1>3, <1>4, <1>5, <1>6, <1>7, <1>8, <1>9 DEF InChunk

LEMMA AtNewChunk ==
  ASSUME TypeOK, talk.framed, Reads, state \in Chunks, chnkd.size = 0, line.got = "line",
         peer' = peer, pos' = line.end, chnkd' = NextChunk(ReadSize(line.text.n))
  PROVE  AtChunk'
<1>1. /\ line.text.n + 2 < Modulus /\ ReadSize(line.text.n) = line.text.n
      /\ Here'.te /\ Here'.last = (line.text.n = 0) /\ line.text.n \in Nat /\ chnkd.last = FALSE
      /\ IF line.text.n = 0 THEN Here'.part = "crlf"
         ELSE Here'.part = "data" /\ Here'.left = line.text.n
  BY SizeRead
<1>2. chnkd'.size = line.text.n + 2 /\ chnkd'.last = (line.text.n = 0)
  <2>1. line.text.n \in 0 .. Modulus - 1
    BY <1>1, ModulusAssumption
  <2> QED BY <1>1, <2>1, NextChunkIs
<1>3. chnkd'.last = Here'.last
  BY <1>1, <1>2
<1>4. CASE line.text.n = 0
  <2>1. chnkd'.size = 2 /\ Here'.part = "crlf"
    BY <1>1, <1>2, <1>4
  <2> QED BY <1>1, <1>3, <2>1 DEF AtChunk
<1>5. CASE line.text.n # 0
  <2>1. chnkd'.size # 0 /\ chnkd'.size # 2 /\ Here'.part = "data" /\ Here'.left = chnkd'.size - 2
    BY <1>1, <1>2, <1>5
  <2> QED BY <1>1, <1>3, <2>1 DEF AtChunk
<1> QED BY <1>4, <1>5

\* A size line is counted; one that goes beyond the limit of an upload is the
\* beginning of a chunk that is skipped, and no input of a script does.
LEMMA ChunkLineReads ==
  ASSUME TypeOK, talk.framed, Kept, Said, Reads, ChunkLine
  PROVE  /\ Reads' /\ state' # "E_BAD_REQ" /\ (res' = res \/ ~req'.is_cgi)
         /\ Number(Here') = Number(Here)
         /\ fds' = fds \/ Bare(fds')
         /\ \/ res' = res /\ state' = state
            \/ /\ state' = "REQ_SKIP_BODY_CHUNKED" /\ TooLong(Here') /\ Here'.part \in InChunk
               /\ res = NewRes
               /\ \E r : \E tbl \in TableType :
                    AllFree(tbl) /\ \E o \in make_error_response_(413, r, NewRes, tbl) : res' = o.res
<1>1. /\ state \in {"REQ_BODY_CHUNKED", "REQ_CGI_BODY_CHUNKED"} /\ state \in Chunks
      /\ chnkd.size = 0 /\ line.got = "line" /\ peer' = peer /\ pos' = line.end
      /\ chnkd' = NextChunk(ReadSize(line.text.n)) /\ skip_size' = skip_size
  BY DEF ChunkLine, AtChunkLine, InChunks, In, Chunks, inputVars
<1>2. /\ Here.total = req.body_size /\ req.cnt_len = Unset /\ req.is_chnkd
      /\ req.body_limit = Location[req.uri].limit
      /\ Here.m = req.mthd /\ Here.u = req.uri /\ skip_size = 0
      /\ state = "REQ_BODY_CHUNKED" => ToFile(Here)
      /\ state = "REQ_CGI_BODY_CHUNKED" => ToScript(Here) /\ Here.m \notin Bodiless
  BY <1>1 DEF Reads, Position, AtMessage, ForWhom, Storing, Feeding
<1>3. /\ line.text \in SymbolType /\ line.text.n \in Nat
      /\ Here'.m = Here.m /\ Here'.u = Here.u /\ Here'.te /\ Here'.part \in InChunk
      /\ Here'.total = Here.total + line.text.n
      /\ ToFile(Here') = ToFile(Here) /\ ToScript(Here') = ToScript(Here)
      /\ Number(Here') = Number(Here)
      /\ ReadSize(line.text.n) = line.text.n
  BY <1>1, SizeRead
<1>4. AtChunk'
  BY <1>1, AtNewChunk
<1> DEFINE r == [req EXCEPT !.body_size = @ + ReadSize(line.text.n)]
           tbl == CloseFds(fds, {req.body_fd})
<1>5. /\ r \in ReqType /\ r.body_size = Here'.total /\ r.mthd = req.mthd /\ r.uri = req.uri
      /\ r.cnt_len = req.cnt_len /\ r.is_chnkd = req.is_chnkd /\ r.body_limit = req.body_limit
      /\ r.is_cgi = req.is_cgi
  <2>1. /\ req.body_size \in Nat
        /\ req.body_size + ReadSize(line.text.n) = Here'.total /\ Here'.total \in Nat
    BY <1>2, <1>3, TypedPlace
  <2>2. req \in ReqType
    BY DEF TypeOK
  <2> HIDE DEF Here
  <2> QED BY <2>1, <2>2 DEF ReqType, SizeType
<1>6. WithinLimit(r) <=> Here'.total <= Location[req.uri].limit
  BY <1>2, <1>5 DEF WithinLimit
<1>7. CASE WithinLimit(r)
  <2>1. req' = r /\ state' = state /\ fds' = fds /\ res' = res
    BY <1>7 DEF ChunkLine
  <2> HIDE DEF r
  <2>2. AtMessage'
    BY <1>1, <1>2, <1>3, <1>5, <2>1 DEF AtMessage, Idling, Chunks
  <2>3. ForWhom'
    BY <1>1, <1>2, <1>3, <1>5, <2>1 DEF ForWhom, Storing, Feeding
  <2>4. AtHeader' /\ AtBody'
    BY <1>1, <2>1 DEF AtHeader, AtBody, Sized
  <2>5. Holders'
    BY <1>3, <2>1, FdsSame, HoldersStay DEF Reads
  <2> QED BY <1>1, <1>3, <1>4, <2>1, <2>2, <2>3, <2>4, <2>5 DEF Reads, Position
<1>8. CASE ~WithinLimit(r)
  <2>1. error_response_keep_alive_(413, r, tbl)
    BY <1>8 DEF ChunkLine
  <2>2. state = "REQ_BODY_CHUNKED"
    <3> SUFFICES ASSUME state = "REQ_CGI_BODY_CHUNKED" PROVE FALSE
      BY <1>1
    <3>1. pos' \in 0 .. Len(talk.bytes)
      <4>1. rcvd \in 0 .. Len(talk.bytes) /\ line.end \in 0 .. rcvd /\ Len(talk.bytes) \in Nat
        BY LineOK, TalkTyped DEF TypeOK, TalkType
      <4> QED BY <1>1, <4>1
    <3>2. ScriptFed(Here')
      BY <1>1, <3>1, HereNext, PlaceRead
    <3>3. Here'.total <= Location[req.uri].limit
      BY <1>2, <1>3, <3>2 DEF ScriptFed
    <3> QED BY <1>6, <1>8, <3>3
  <2>3. Open(req.body_fd, "upload")
    BY <2>2 DEF Kept, Taken
  <2>4. Alone(fds, req.body_fd) /\ ~req.is_cgi /\ req.body_fd \in Fd
    BY <2>3 DEF Kept, Owners, UploadOwned, Open
  <2>5. res = NewRes
    BY <2>3 DEF Said, Unanswered, Open
  <2>6. AllFree(tbl) /\ tbl \in TableType
    BY <2>4, Closed, CloseTyped DEF TypeOK, Alone, AllFree
  <2> HIDE DEF r, tbl
  <2>7. PICK code \in Nat : error_response_keep_alive_(code, r, tbl)
    BY <2>1
  <2>8. state' = SkipState(r) /\ Bare(fds') /\ req'.mthd = req.mthd /\ req'.uri = req.uri
    BY <1>5, <2>5, <2>6, <2>7, ErrorLeaves
  <2>9. state' = "REQ_SKIP_BODY_CHUNKED"
    BY <1>2, <1>5, <2>8 DEF SkipState
  <2>10. ~req'.is_cgi
    BY <1>5, <2>4, <2>7 DEF error_response_keep_alive_, ReqType
  <2>11. TooLong(Here') /\ Here'.u \in Targets
    <3>0. req.uri \in Targets
      BY <2>4 DEF TypeOK
    <3>1. Location[req.uri].limit \in Nat
      BY <3>0, LocationTyped DEF LocationType
    <3>2. Here'.total > Location[req.uri].limit
      BY <1>3, <1>6, <1>8, <3>1, TypedPlace
    <3> QED BY <1>2, <1>3, <2>2, <3>0, <3>2 DEF TooLong
  <2>12. AtMessage'
    BY <1>1, <1>2, <1>3, <2>8, <2>9 DEF AtMessage, Idling
  <2>13. AtHeader' /\ AtBody' /\ ForWhom'
    BY <2>9, <2>11 DEF AtHeader, AtBody, ForWhom, Sized, Storing, Feeding
  <2>14. \E o \in make_error_response_(413, r, NewRes, tbl) : res' = o.res
    BY <2>1, <2>5 DEF error_response_keep_alive_
  <2>15. Reads'
    BY <1>4, <2>8, <2>12, <2>13, BareHolders DEF Reads, Position
  <2> QED BY <1>3, <2>5, <2>6, <2>8, <2>9, <2>10, <2>11, <2>14, <2>15
<1> QED BY <1>7, <1>8

LEMMA SkipChunkLineReads ==
  ASSUME TypeOK, talk.framed, Reads, SkipChunkLine
  PROVE  /\ Reads' /\ state' # "E_BAD_REQ" /\ res' = res /\ fds' = fds
         /\ Number(Here') = Number(Here)
<1>1. /\ state = "REQ_SKIP_BODY_CHUNKED" /\ state \in Chunks /\ chnkd.size = 0
      /\ peer' = peer /\ pos' = line.end /\ skip_size' = skip_size
  BY DEF SkipChunkLine, InSkip, In, Chunks, inputVars
<1>2. CASE line.got # "line"
  <2>1. line.end = pos
    BY <1>2, LineIs DEF get_crlf_line_
  <2>2. /\ req' = req /\ chnkd' = chnkd /\ fds' = fds /\ res' = res
        /\ UNCHANGED <<peer, pos, state, skip_size>>
    BY <1>1, <1>2, <2>1 DEF SkipChunkLine
  <2>3. Here' = Here
    BY <2>2, HereNext DEF Here
  <2> QED BY <1>1, <2>2, <2>3, SameReads, FdsSame, ReqSame
<1>3. CASE line.got = "line"
  <2>1. /\ line.text \in SymbolType /\ line.text.n \in Nat /\ line.text.t = "size"
        /\ Here'.m = Here.m /\ Here'.u = Here.u /\ Here'.te /\ Here.te
        /\ Here'.total = Here.total + line.text.n
        /\ ToFile(Here') = ToFile(Here) /\ ToScript(Here') = ToScript(Here)
        /\ Number(Here') = Number(Here) /\ ReadSize(line.text.n) = line.text.n
    BY <1>1, <1>3, SizeRead
  <2>2. /\ chnkd' = NextChunk(ReadSize(line.text.n))
        /\ req' = [req EXCEPT !.body_size = @ + ReadSize(line.text.n)]
        /\ state' = state /\ fds' = fds /\ res' = res
    BY <1>3, <2>1 DEF SkipChunkLine
  <2>3. req'.mthd = req.mthd /\ req'.uri = req.uri
    BY <2>2 DEF TypeOK, ReqType
  <2>4. AtChunk'
    BY <1>1, <1>3, <2>2, AtNewChunk
  <2>5. AtMessage'
    BY <1>1, <2>1, <2>2, <2>3 DEF AtMessage, Reads, Position, Idling
  <2>6. ~ToFile(Here') \/ (TooLong(Here') /\ Here'.u \in Targets)
    <3> SUFFICES ASSUME ToFile(Here') PROVE TooLong(Here') /\ Here'.u \in Targets
      OBVIOUS
    <3>1. TooLong(Here) /\ Here.u \in Targets
      BY <1>1, <2>1 DEF Reads, Position, ForWhom
    <3>2. Location[Here.u].limit \in Nat /\ Here.total \in Nat
      BY <3>1, LocationTyped, TypedPlace DEF LocationType
    <3> QED BY <2>1, <3>1, <3>2 DEF TooLong
  <2>7. AtHeader' /\ AtBody' /\ ForWhom'
    BY <1>1, <2>2, <2>6 DEF AtHeader, AtBody, ForWhom, Sized, Storing, Feeding
  <2>8. Holders'
    BY <2>1, <2>2, FdsSame, HoldersStay DEF Reads
  <2> QED BY <1>1, <2>1, <2>2, <2>4, <2>5, <2>7, <2>8 DEF Reads, Position
<1> QED BY <1>2, <1>3

-----------------------------------------------------------------------------
(* The response, and the other descriptors.                                *)

\* While a response is written no body is being read.
LEMMA WritingPlace ==
  ASSUME TypeOK, Kept, Said, Reads, client_w
  PROVE  /\ Bare(fds) /\ state \in Idling \cup {"REQ_SKIP_BODY_CHUNKED"}
         /\ state # "REQ_SKIP_BODY_CHUNKED" => Here.part = "between"
<1>1. AllFree(fds) /\ ~Fresh
  BY WritingNow
<1>2. \A f, kind : kind # "free" => ~Open(f, kind)
  BY <1>1 DEF AllFree, Open
<1>3. state \notin {"REQ_BODY", "REQ_BODY_CHUNKED", "REQ_CGI_BODY", "REQ_CGI_BODY_CHUNKED"}
  BY <1>2 DEF Kept, Taken
<1>4. state \in Idling \cup {"REQ_SKIP_BODY_CHUNKED"}
  BY <1>1, <1>3 DEF Fresh, Start, TypeOK, States, Idling
<1> QED BY <1>1, <1>4 DEF AllFree, Bare, Reads, Position, AtMessage

LEMMA WriteReads ==
  ASSUME TypeOK, Kept, Said, Reads, write_response_
  PROVE  Reads'
<1>1. /\ client_w /\ req' = req /\ chnkd' = chnkd /\ fds' = fds
      /\ peer' = peer /\ pos' = pos /\ skip_size' = skip_size
  BY DEF write_response_, WriteHeader, WriteBody, inputVars
<1>2. state' = state \/ (state # "REQ_SKIP_BODY_CHUNKED" /\ state' = "REQ_CLEAR")
  BY DEF write_response_, WriteHeader, WriteBody, ResponseDone, ResponseGoesOn
<1>3. CASE state' = state
  BY <1>1, <1>3, SameReads, FdsSame, ReqSame
<1>4. CASE state # "REQ_SKIP_BODY_CHUNKED" /\ state' = "REQ_CLEAR"
  <2>1. Here.part = "between" /\ Bare(fds)
    BY <1>1, <1>4, WritingPlace
  <2>2. Here' = Here /\ skip_size = 0
    BY <1>1, HereNext DEF Here, Reads, Position, AtMessage
  <2>3. AtMessage'
    BY <1>1, <1>4, <2>1, <2>2 DEF AtMessage
  <2>4. AtHeader' /\ AtBody' /\ AtChunk' /\ ForWhom'
    BY <1>4 DEF AtHeader, AtBody, AtChunk, ForWhom, Sized, Chunks, Storing, Feeding
  <2>5. Bare(fds')
    BY <1>1, <2>1
  <2> QED BY <2>3, <2>4, <2>5, BareHolders DEF Reads, Position
<1> QED BY <1>2, <1>3, <1>4

LEMMA DrainReads ==
  ASSUME TypeOK, Reads, NEW f \in Fd,
         read_to_res_buffer_(f) \/ read_to_cgi_buffer_(f) \/ PipeEof(f) \/ StdinEof(f)
  PROVE  Reads'
<1>1. /\ req' = req /\ chnkd' = chnkd /\ UNCHANGED <<peer, pos, state, skip_size>>
      /\ \/ fds' = CloseFds(fds, {f})
         \/ \E n : fds' = [fds EXCEPT ![f].n = @ - n]
  BY DEF read_to_res_buffer_, read_to_cgi_buffer_, PipeEof, StdinEof, inputVars
<1>2. fds \in TableType /\ fds[f] \in FdType
  BY DEF TypeOK, TableType
<1>3. CASE fds' = CloseFds(fds, {f})
  <2>1. NoneOpened
    BY <1>2, <1>3, Closed DEF NoneOpened, NoWriter
  <2> QED BY <1>1, <2>1, SameReads, ReqSame
<1>4. ASSUME NEW n, fds' = [fds EXCEPT ![f].n = @ - n] PROVE Reads'
  <2>1. \A g \in Fd : fds'[g].kind = fds[g].kind /\ fds'[g].ev = fds[g].ev
    BY <1>2, <1>4 DEF TableType, FdType
  <2>2. NoneOpened
    BY <2>1 DEF NoneOpened, NoWriter
  <2> QED BY <1>1, <2>2, SameReads, ReqSame
<1> QED BY <1>1, <1>3, <1>4

\* The file of an upload is complete, or the input of a script, only when all of
\* the body has left _buf.
LEMMA HeldUntil ==
  ASSUME Reads, SamePlace, UNCHANGED <<peer, pos, skip_size>>,
         state' \in {"REQ_HOLD", "E_BAD_REQ"}, ~Fresh, Here.part = "between", ~TooLong(Here),
         state' = "REQ_HOLD" => NoneOpened, state' = "E_BAD_REQ" => Bare(fds')
  PROVE  Reads'
<1>1. Here' = Here
  BY HereNext DEF Here
<1>2. AtMessage'
  <2>1. skip_size = 0 /\ Here.m = req.mthd /\ Here.u = req.uri
    BY DEF Reads, Position, AtMessage, Start, Fresh
  <2> QED BY <1>1, <2>1 DEF AtMessage, SamePlace
<1>3. AtHeader' /\ AtBody' /\ AtChunk' /\ ForWhom'
  BY <1>1 DEF AtHeader, AtBody, AtChunk, ForWhom, Sized, Chunks, Storing, Feeding
<1>4. Holders'
  <2>1. CASE state' = "REQ_HOLD"
    BY <1>1, <2>1, HoldersStay DEF Reads
  <2> QED BY <2>1, BareHolders
<1> QED BY <1>2, <1>3, <1>4 DEF Reads, Position

LEMMA UploadReads ==
  ASSUME TypeOK, Kept, Said, Reads, NEW f \in Fd, write_for_upload_(f)
  PROVE  /\ Reads' /\ ~Fresh /\ UNCHANGED <<peer, pos, wire>>
         /\ \/ res' = res /\ state' = state
            \/ /\ state' \in {"REQ_HOLD", "E_BAD_REQ"}
               /\ Here.part = "between" /\ ToFile(Here) /\ ~TooLong(Here) /\ res = NewRes
               /\ \E r \in ReqType : \E tbl \in TableType :
                    /\ r.uri \in Targets /\ r.uri = Here.u /\ r.mthd = Here.m /\ AllFree(tbl)
                    /\ \E o \in make_response_header_(r, NewRes, tbl) : res' = o.res
<1>1. fds[f].kind = "upload" /\ f = req.body_fd
  BY WriterKind DEF write_for_upload_, Writable
<1>2. ~Fresh /\ UploadOwned(f) /\ res = NewRes
  BY <1>1, Holding
<1>3. Alone(fds, f) /\ req.mthd \in {"POST", "PUT"} /\ req.uri \in Targets
  BY <1>1, <1>2 DEF UploadOwned, TypeOK
<1>4. state \in Storing \cup {"REQ_HOLD"} /\ ToFile(Here)
  BY <1>1 DEF Reads, Holders
<1> DEFINE left == IF req.is_chnkd THEN chnkd.body ELSE req.body_buf
           r(n) == IF req.is_chnkd THEN [req EXCEPT !.body_read = @ + n]
                   ELSE [req EXCEPT !.body_buf = @ - n]
<1>5. PICK n \in (IF left = 0 THEN {0} ELSE 1 .. left) :
        /\ req' = r(n)
        /\ chnkd' = IF req.is_chnkd THEN [chnkd EXCEPT !.body = @ - n] ELSE chnkd
        /\ IF BodyStored(r(n)) THEN UploadDone(f, r(n))
           ELSE UNCHANGED <<state, fds, res, client_w>>
  BY DEF write_for_upload_
<1>6. UNCHANGED <<peer, pos, skip_size, wire>>
  BY DEF write_for_upload_, inputVars
<1>7. /\ req \in ReqType /\ req.body_buf \in Nat /\ req.body_read \in Nat /\ fds \in TableType
      /\ chnkd \in ChnkdType /\ chnkd.body \in Nat
  BY DEF TypeOK, ReqType, ChnkdType
<1>8. n \in Nat /\ (~req.is_chnkd => n \in 0 .. req.body_buf)
  BY <1>7
<1>9. req' \in ReqType
  <2>1. req.body_read + n \in Nat /\ (~req.is_chnkd => req.body_buf - n \in Nat)
    BY <1>7, <1>8
  <2> QED BY <1>5, <1>7, <2>1 DEF ReqType
<1>10. SamePlace
  <2>1. chnkd'.size = chnkd.size /\ chnkd'.last = chnkd.last
    BY <1>5, <1>7 DEF ChnkdType
  <2>2. CASE req.is_chnkd
    <3>1. req' = [req EXCEPT !.body_read = @ + n]
      BY <1>5, <2>2
    <3> QED BY <1>7, <2>1, <2>2, <3>1 DEF SamePlace, ReqType
  <2>3. CASE ~req.is_chnkd
    <3>1. req' = [req EXCEPT !.body_buf = @ - n]
      BY <1>5, <2>3
    <3> QED BY <1>7, <2>1, <2>3, <3>1 DEF SamePlace, ReqType
  <2> QED BY <2>2, <2>3
<1>11. IF BodyStored(req') THEN UploadDone(f, req') ELSE UNCHANGED <<state, fds, res, client_w>>
  BY <1>5
<1> HIDE DEF r, left
<1>12. CASE ~BodyStored(req')
  BY <1>2, <1>6, <1>10, <1>11, <1>12, SameReads, FdsSame
<1>13. CASE BodyStored(req')
  <2> DEFINE tbl == CloseFds(fds, {f})
  <2>1. UploadDone(f, req') /\ req'.body_read = req'.cnt_len
    BY <1>11, <1>13 DEF BodyStored
  <2>2. tbl \in TableType /\ AllFree(tbl)
    BY <1>3, <1>7, Closed, CloseTyped DEF Alone, AllFree
  <2>3. PICK rr : rr = req'
    OBVIOUS
  <2>4. PICK o \in make_response_header_(rr, NewRes, tbl) : res' = o.res /\ fds' = o.fds
    BY <1>2, <2>1, <2>3 DEF UploadDone
  <2>5. /\ rr \in ReqType /\ rr.uri \in Targets /\ rr.uri = Here.u /\ rr.mthd = Here.m
    <3>1. Here.m = req.mthd /\ Here.u = req.uri
      BY <1>4 DEF Reads, Position, AtMessage, Storing
    <3> QED BY <1>3, <1>9, <1>10, <2>3, <3>1 DEF SamePlace
  <2> HIDE DEF tbl
  <2>6. Bare(fds')
    <3>1. Answer(rr, o, tbl) /\ o.fds \in TableType
      BY <2>2, <2>4, <2>5, HeaderAnswer, HeaderOutcome, NewTyped DEF OutcomeTyped
    <3> QED BY <2>2, <2>4, <3>1, AnswerBare
  <2>7. state' \in {"REQ_HOLD", "E_BAD_REQ"}
    BY <2>1 DEF UploadDone
  <2>8. NoneOpened
    BY <2>6 DEF Bare, NoneOpened
  <2>9. Here.part = "between" /\ ~TooLong(Here)
    <3>1. CASE state = "REQ_HOLD"
      BY <3>1 DEF Reads, Position, AtMessage, Idling, ForWhom
    <3>2. CASE state = "REQ_BODY"
      <4>1. AtBody /\ ~req.is_chnkd /\ req.body_read = req.cnt_len
        BY <1>10, <2>1, <3>2 DEF Reads, Position, AtBody, Sized, SamePlace
      <4> QED BY <3>2, <4>1 DEF AtBody, Sized, TooLong
    <3>3. CASE state = "REQ_BODY_CHUNKED"
      <4>1. req'.cnt_len = Unset /\ req'.body_read \in Nat
        BY <1>9, <1>10, <3>3 DEF Reads, Position, ForWhom, SamePlace, ReqType
      <4> QED BY <2>1, <4>1 DEF Unset
    <3> QED BY <1>4, <3>1, <3>2, <3>3 DEF Storing
  <2>10. Reads'
    BY <1>2, <1>6, <1>10, <2>6, <2>7, <2>8, <2>9, HeldUntil
  <2> QED BY <1>2, <1>4, <1>6, <2>2, <2>4, <2>5, <2>7, <2>9, <2>10
<1> QED BY <1>12, <1>13

LEMMA WriteCgiReads ==
  ASSUME TypeOK, Kept, Said, Reads, NEW f \in Fd, write_to_cgi_(f)
  PROVE  Reads'
<1>1. fds[f].kind = "stdin" /\ f # req.body_fd /\ "W" \in fds[f].ev
  BY WriterKind DEF write_to_cgi_, Writable
<1>2. ~Fresh
  BY <1>1, Holding
<1>3. state \in {"REQ_CGI_BODY_CHUNKED", "REQ_HOLD"}
  BY <1>1 DEF Reads, Holders, Feeding, NoWriter
<1>4. UNCHANGED <<peer, pos, skip_size, req, chnkd>>
  BY DEF write_to_cgi_, inputVars
<1>5. SamePlace
  BY <1>4, ReqSame
<1>6. CASE UNCHANGED <<fds, state>>
  BY <1>4, <1>5, <1>6, SameReads, FdsSame
<1>7. ASSUME NEW n \in (IF cgi.to = 0 THEN {0} ELSE 1 .. cgi.to), cgi.cgi_read + n = req.cnt_len,
             fds' = CloseFds(fds, {f}), state' = "REQ_HOLD"
      PROVE  Reads'
  <2>1. req.cnt_len \in Nat
    <3>1. cgi.cgi_read \in Nat /\ cgi.to \in Nat
      BY DEF TypeOK, CgiType
    <3> QED BY <1>7, <3>1
  <2>2. state = "REQ_HOLD"
    BY <1>3, <2>1 DEF Reads, Position, ForWhom, Unset
  <2>3. Here.part = "between" /\ ~TooLong(Here)
    BY <2>2 DEF Reads, Position, AtMessage, Idling, ForWhom
  <2>4. NoneOpened
    BY <1>7, Closed DEF NoneOpened, TypeOK
  <2> QED BY <1>2, <1>4, <1>5, <1>7, <2>3, <2>4, HeldUntil
<1>8. \E n \in (IF cgi.to = 0 THEN {0} ELSE 1 .. cgi.to) :
        IF cgi.cgi_read + n = req.cnt_len
        THEN fds' = CloseFds(fds, {f}) /\ state' = "REQ_HOLD"
        ELSE UNCHANGED <<fds, state>>
  BY DEF write_to_cgi_
<1> QED BY <1>6, <1>7, <1>8

-----------------------------------------------------------------------------
(* Every step goes on with the reading, and is orderly.                    *)

\* A request that is not for a script starts none.
LEMMA NoScriptStarted ==
  ASSUME TypeOK, talk.framed, Reads, HeaderEnds, Reads', ~ToScript(Here)
  PROVE  \A f \in Fd : fds'[f].kind # "pipe"
<1>1. /\ Here \in PlaceType /\ Here.part = "head" /\ Here' = AfterEmptyLine(Here)
  BY HeaderOver
<1>2. SameMessage(Here, Here')
  BY <1>1, AfterHeaderIs
<1>3. ~ToScript(Here')
  BY <1>2, SameTarget DEF SameMessage
<1> QED BY <1>3 DEF Reads, Holders

LEMMA RouteOrderly ==
  ASSUME TypeOK, UploadAccounted, talk.framed, Kept, Said, Reads, Route
  PROVE  Orderly /\ Reads'
<1>1. HeaderEnds
  BY DEF Route, BadHostRequest, NotServed, do_cgi_, res_for_get_head_req_,
         res_for_post_put_req_, res_for_delete_req_
<1>2. /\ state = "REQ_HEADER_PARSING" /\ ~req.header.badhost /\ req.uri \in Targets
      /\ Located.is_cgi = (Location[Here.u].found /\ Location[Here.u].cgi /\ Here.m # "DELETE")
      /\ Served = Allowed(Here) /\ LocatedAt(Located, Here) /\ Located \in ReqType
      /\ Located.mthd = req.mthd
  BY <1>1, HeaderOver, HeaderUnheld
<1>3. ~BadHostRequest
  BY <1>2 DEF BadHostRequest
<1>4. CASE do_cgi_
  BY <1>2, <1>4, CgiReads DEF Orderly
<1>5. ASSUME Reads', ~ToScript(Here), ~req'.is_cgi PROVE Orderly /\ Reads'
  <2>1. \A f \in Fd : fds'[f].kind # "pipe"
    BY <1>1, <1>5, NoScriptStarted
  <2> QED BY <1>2, <1>5, <2>1 DEF Orderly
<1>6. CASE NotServed
  <2>1. ~ToScript(Here)
    BY <1>2, <1>6 DEF NotServed, ToScript
  <2>2. PICK code \in Nat : error_response_keep_alive_(code, [Located EXCEPT !.is_cgi = FALSE], fds)
    BY <1>6 DEF NotServed
  <2>3. ~req'.is_cgi
    BY <1>2, <2>2 DEF error_response_keep_alive_, ReqType
  <2> QED BY <1>5, <1>6, <2>1, <2>3, NotServedReads
<1>7. CASE res_for_get_head_req_
  <2>1. req' = Located /\ ~Located.is_cgi
    BY <1>7 DEF res_for_get_head_req_
  <2> QED BY <1>2, <1>5, <1>7, <2>1, GetHeadReads DEF ToScript, Allowed
<1>8. CASE res_for_post_put_req_
  <2>1. ~Located.is_cgi
    BY <1>8 DEF res_for_post_put_req_
  <2>2. ~req'.is_cgi
    BY <1>8, <1>2, <2>1 DEF res_for_post_put_req_, error_response_keep_alive_, ReqType
  <2> QED BY <1>2, <1>5, <1>8, <2>1, <2>2, PostPutReads DEF ToScript, Allowed
<1>9. CASE res_for_delete_req_
  <2>1. req.mthd = "DELETE"
    BY <1>9 DEF res_for_delete_req_
  <2>2. ~Located.is_cgi
    BY <1>2, <2>1 DEF LocatedAt
  <2>3. req'.is_cgi = Located.is_cgi
    BY <1>2, <1>9 DEF res_for_delete_req_, ReqType
  <2> QED BY <1>2, <1>5, <1>9, <2>2, <2>3, DeleteReads DEF ToScript, Allowed
<1> QED BY <1>3, <1>4, <1>6, <1>7, <1>8, <1>9 DEF Route

-----------------------------------------------------------------------------
(* What has been sent.                                                     *)

\* The header block leaves _res_header when it is sent, and only a request whose
\* response is out is cleared.
Sent ==
  /\ res.header_sent => res.hdr = <<>>
  /\ res.write_finished \/ state = "REQ_CLEAR" => res.header_sent

\* The responses sent are those due to the messages read before the one at hand,
\* and to it if its own has gone; and the header made for it is the one it is due.
InTurn ==
  /\ Len(wire) = IF Fresh THEN Here.n
                 ELSE IF res.header_sent THEN Number(Here) ELSE Number(Here) - 1
  /\ \A i \in 1 .. Len(wire) : wire[i].status = talk.answers[i]
  /\ ~Fresh /\ res.hdr # <<>> => res.hdr[1].status = talk.answers[Number(Here)]

Answers == Sent /\ InTurn

LEMMA PipesGood ==
  ASSUME Kept'
  PROVE  \A f \in Fd : fds'[f].kind = "pipe" => GoodScript(fds'[f])
BY DEF Kept, Owners, PipeOwned

LEMMA SamePipes ==
  ASSUME Kept, fds' = fds \/ Bare(fds')
  PROVE  \A f \in Fd : fds'[f].kind = "pipe" => GoodScript(fds'[f])
BY DEF Kept, Owners, PipeOwned, Bare

LEMMA ControllerReads ==
  ASSUME TypeOK, UploadAccounted, talk.framed, Kept, Said, Reads, Sent, req_res_controller_
  PROVE  Orderly /\ Reads'
<1>1. CASE reset_
  <2>1. Reads' /\ Kept'
    BY <1>1, ResetReads, ResetStep
  <2>2. res'.hdr = <<>> /\ state' = "REQ_LINE_PARSING" /\ res.hdr = <<>>
    BY <1>1 DEF reset_, NewRes, In, Sent
  <2> QED BY <2>1, <2>2, PipesGood DEF Orderly
<1>2. CASE request_line_parser_
  <2>1. state = "REQ_LINE_PARSING"
    BY <1>2 DEF request_line_parser_, In
  <2>2. line.text = Blank \/ line.text.t = "req"
    BY <1>2, RequestLineDue
  <2>3. res' = res
    BY <1>2, <2>2, SymbolsDiffer DEF request_line_parser_
  <2>4. Reads' /\ Kept'
    BY <1>2, <2>2, RequestLineReads, RequestLineRead
  <2> QED BY <2>1, <2>3, <2>4, PipesGood DEF Orderly, Chunks
<1>3. CASE ReadMore \/ header_field_parser_ \/ SkipBody \/ HoldBody \/ ChunkLineMissing
  <2>1. res' = res /\ state' = state /\ fds' = fds
    BY <1>3 DEF ReadMore, header_field_parser_, SkipBody, HoldBody, ChunkLineMissing
  <2>2. state' = "E_BAD_REQ" => state = "E_BAD_REQ"
    BY <2>1
  <2>3. Reads'
    BY <1>3, WaitingReads, HeaderFieldReads, SkipBodyReads
  <2> QED BY <2>1, <2>2, <2>3, SamePipes DEF Orderly
<1>4. CASE Route
  BY <1>4, RouteOrderly
<1>5. CASE state_req_body_ \/ CgiBody
  <2>1. res' = res /\ state \in Sized
    BY <1>5 DEF state_req_body_, CgiBody, Sized, In
  <2>2. Reads' /\ Kept'
    BY <1>5, BodyReads, BodySteps
  <2> QED BY <2>1, <2>2, PipesGood DEF Orderly, Sized
<1>6. CASE FirstChunk \/ ChunkData \/ ChunkEnd
  <2>1. res' = res /\ state' # "E_BAD_REQ"
    BY <1>6 DEF FirstChunk, ChunkData, ChunkEnd, InChunks, In
  <2>2. Reads' /\ Kept'
    BY <1>6, FirstChunkReads, ChunkDataReads, ChunkEndReads, FirstChunkStep, ChunkSteps
  <2> QED BY <2>1, <2>2, PipesGood DEF Orderly
<1>7. CASE ChunkLine
  BY <1>7, ChunkLineReads, SamePipes DEF Orderly
<1>8. CASE BadChunkLine
  <2>1. /\ state \in Chunks /\ chnkd.size = 0 /\ line.got = "line" /\ line.text.t # "size"
        /\ peer' = peer /\ pos' = line.end
    BY <1>8 DEF BadChunkLine, AtChunkLine, InChunks, In, Chunks, inputVars
  <2> QED BY <2>1, SizeRead
<1>9. CASE SkipChunkedBody
  <2>1. Reads' /\ state' # "E_BAD_REQ" /\ res' = res /\ fds' = fds
    <3>1. CASE SkipChunkData
      <4>1. res' = res /\ fds' = fds /\ state' # "E_BAD_REQ"
        BY <3>1 DEF SkipChunkData, InSkip, In
      <4> QED BY <3>1, <4>1, ChunkDataReads
    <3> QED BY <1>9, <3>1, SkipChunkEndReads, SkipChunkLineReads DEF SkipChunkedBody
  <2> QED BY <2>1, SamePipes DEF Orderly
<1> QED BY <1>1, <1>2, <1>3, <1>4, <1>5, <1>6, <1>7, <1>8, <1>9 DEF req_res_controller_, ChunkedBody

\* Outside the controller nothing starts a script.
LEMMA EventReads ==
  ASSUME TypeOK, UploadAccounted, talk.framed, Kept, Said, Reads,
         \/ read_to_client_buffer_ \/ write_response_
         \/ \E f \in Fd : FdEvent(f)
  PROVE  Orderly /\ Reads'
<1>1. pc # "ctl"
  BY DEF read_to_client_buffer_, write_response_, WriteHeader, WriteBody, FdEvent, Idle,
         read_to_res_buffer_, read_to_cgi_buffer_, PipeEof, StdinEof, write_for_upload_,
         write_to_cgi_, Readable, Writable
<1>2. CASE read_to_client_buffer_
  BY <1>1, <1>2, WaitingReads, SamePipes DEF Orderly, read_to_client_buffer_
<1>3. CASE write_response_
  <2>1. fds' = fds
    BY <1>3 DEF write_response_, WriteHeader, WriteBody
  <2> QED BY <1>1, <1>3, <2>1, WriteReads, SamePipes DEF Orderly
<1>4. ASSUME NEW f \in Fd, FdEvent(f) PROVE Orderly /\ Reads'
  <2>1. Kept'
    BY <1>4, EventOrderly
  <2>2. Reads'
    BY <1>4, DrainReads, UploadReads, WriteCgiReads DEF FdEvent
  <2> QED BY <1>1, <2>1, <2>2, PipesGood DEF Orderly
<1> QED BY <1>2, <1>3, <1>4

-----------------------------------------------------------------------------
(* What a message is due, case by case.                                    *)

LEMMA DueIs ==
  ASSUME NEW p
  PROVE  /\ ~Location[p.u].found => Due(p) = 404
         /\ Location[p.u].found /\ p.m \notin Location[p.u].allow => Due(p) = 405
         /\ ToScript(p) => Due(p) = 200
         /\ Allowed(p) /\ ~ToScript(p) /\ p.m \in {"GET", "HEAD"} =>
              Due(p) = IF Location[p.u].redirect THEN 301 ELSE Shown(Location[p.u])
         /\ Allowed(p) /\ p.m = "DELETE" =>
              Due(p) = IF Location[p.u].kind # "file" THEN 404
                       ELSE IF Location[p.u].redirect THEN 301 ELSE 200
         /\ Allowed(p) /\ ~ToScript(p) /\ p.m \in {"POST", "PUT"} =>
              Due(p) = IF ~ToFile(p) THEN 404 ELSE IF TooLong(p) THEN 413
                       ELSE IF Location[p.u].redirect THEN 301 ELSE 200
<1>1. CASE ~Location[p.u].found
  BY <1>1 DEF Due, Allowed, ToScript
<1>2. CASE Location[p.u].found /\ p.m \notin Location[p.u].allow
  BY <1>2 DEF Due, Allowed, ToScript
<1>3. CASE Allowed(p)
  <2>1. CASE ToScript(p)
    BY <1>3, <2>1 DEF Due, Allowed, ToScript
  <2>2. CASE ~ToScript(p)
    <3>1. CASE p.m \in {"GET", "HEAD"}
      BY <1>3, <2>2, <3>1 DEF Due, Allowed
    <3>2. CASE p.m = "DELETE"
      BY <1>3, <2>2, <3>2 DEF Due, Allowed
    <3>3. CASE p.m \in {"POST", "PUT"}
      BY <1>3, <2>2, <3>3 DEF Due, Allowed
    <3> QED BY <1>3, <2>2, <3>1, <3>2, <3>3 DEF Allowed
  <2> QED BY <2>1, <2>2
<1> QED BY <1>1, <1>2, <1>3 DEF Allowed

LEMMA DueUnserved ==
  ASSUME NEW p, ~Allowed(p)
  PROVE  Due(p) = IF Location[p.u].found THEN 405 ELSE 404
BY DueIs DEF Allowed

LEMMA DueShown ==
  ASSUME NEW p, Allowed(p), ~ToScript(p), p.m \in {"GET", "HEAD"}
  PROVE  Due(p) = IF Location[p.u].redirect THEN 301 ELSE Shown(Location[p.u])
BY DueIs

LEMMA DueDeleted ==
  ASSUME NEW p, Allowed(p), p.m = "DELETE"
  PROVE  Due(p) = IF Location[p.u].kind # "file" THEN 404
                  ELSE IF Location[p.u].redirect THEN 301 ELSE 200
BY DueIs

LEMMA DueStored ==
  ASSUME NEW p, Allowed(p), ~ToScript(p), p.m \in {"POST", "PUT"}
  PROVE  Due(p) = IF ~ToFile(p) THEN 404 ELSE IF TooLong(p) THEN 413
                  ELSE IF Location[p.u].redirect THEN 301 ELSE 200
BY DueIs

LEMMA BlockStatus ==
  ASSUME NEW r, NEW status, NEW len
  PROVE  /\ NewRes.hdr \o HeaderBlock(r, status, len) = HeaderBlock(r, status, len)
         /\ HeaderBlock(r, status, len)[1].status = status
BY DEF HeaderBlock, NewRes

LEMMA ErrorStatus ==
  ASSUME NEW code, NEW r, NEW tbl, NEW o \in make_error_response_(code, r, NewRes, tbl)
  PROVE  o.res.hdr[1].status = code
<1>1. CASE PageSize = NoPage \/ FreeIn(tbl) = {}
  <2> DEFINE h == HeaderBlock(r, code, GenSize)
             b == [NewRes EXCEPT !.hdr = @ \o h, !.body_size = GenSize, !.buf = @ + Generated(r)]
  <2>1. o = [res |-> b, fds |-> tbl, w |-> TRUE]
    BY <1>1 DEF make_error_response_
  <2>2. NewRes.hdr \o h = h /\ h[1].status = code
    BY BlockStatus
  <2> HIDE DEF h
  <2>3. b.hdr = h
    BY <2>2 DEF NewRes
  <2> HIDE DEF b
  <2> QED BY <2>1, <2>2, <2>3
<1>2. CASE ~(PageSize = NoPage \/ FreeIn(tbl) = {})
  <2> DEFINE h == HeaderBlock(r, code, PageSize)
             b == [NewRes EXCEPT !.hdr = @ \o h, !.body_size = PageSize]
  <2>1. NewRes.hdr \o h = h /\ h[1].status = code
    BY BlockStatus
  <2>2. \E f : o.res = [b EXCEPT !.body_fd = f]
    <3>1. CASE r.mthd = "HEAD"
      <4>1. o = [res |-> [b EXCEPT !.body_fd = NoFd], fds |-> tbl, w |-> TRUE]
        BY <1>2, <3>1 DEF make_error_response_
      <4> HIDE DEF b
      <4> QED BY <4>1
    <3>2. CASE r.mthd # "HEAD"
      <4>1. PICK f \in FreeIn(tbl) :
              o = [res |-> [b EXCEPT !.body_fd = f], fds |-> [tbl EXCEPT ![f] = Page(PageSize)],
                   w |-> FALSE]
        BY <1>2, <3>2 DEF make_error_response_
      <4> HIDE DEF b
      <4> QED BY <4>1
    <3> QED BY <3>1, <3>2
  <2> HIDE DEF h
  <2>3. b.hdr = h /\ \A f : [b EXCEPT !.body_fd = f].hdr = h
    BY <2>1 DEF NewRes
  <2> HIDE DEF b
  <2> QED BY <2>1, <2>2, <2>3
<1> QED BY <1>1, <1>2

\* What the header of a response says when nothing fails to open.
LEMMA HeaderStatus ==
  ASSUME NEW r, r.uri \in Targets, NEW tbl, FreeIn(tbl) # {},
         NEW o \in make_response_header_(r, NewRes, tbl)
  PROVE  o.res.hdr[1].status =
           IF Location[r.uri].redirect THEN 301
           ELSE IF r.mthd \notin {"GET", "HEAD"} THEN 200 ELSE Shown(Location[r.uri])
<1> DEFINE loc == Location[r.uri]
           Plain(status, len, body, buf) ==
             {[res |-> [NewRes EXCEPT !.hdr = @ \o HeaderBlock(r, status, len), !.body_size = body,
                                      !.buf = @ + buf],
               fds |-> tbl, w |-> NewRes.body_fd = NoFd]}
<1>1. loc.kind \in Kinds /\ loc.redirect \in BOOLEAN /\ loc.autoindex \in BOOLEAN
  BY LocationTyped DEF LocationType
<1>2. ASSUME NEW status, NEW len, NEW body, NEW buf, o \in Plain(status, len, body, buf)
      PROVE  o.res.hdr[1].status = status
  <2> DEFINE h == HeaderBlock(r, status, len)
             b == [NewRes EXCEPT !.hdr = @ \o h, !.body_size = body, !.buf = @ + buf]
  <2>1. o.res = b
    BY <1>2
  <2>2. NewRes.hdr \o h = h /\ h[1].status = status
    BY BlockStatus
  <2> HIDE DEF h
  <2>3. b.hdr = h
    BY <2>2 DEF NewRes
  <2> HIDE DEF b
  <2> QED BY <2>1, <2>2, <2>3
<1>3. CASE loc.redirect
  <2> DEFINE h == HeaderBlock(r, 301, 0)
             b == [NewRes EXCEPT !.hdr = @ \o h]
  <2>1. o.res = b
    BY <1>3 DEF make_response_header_
  <2>2. NewRes.hdr \o h = h /\ h[1].status = 301
    BY BlockStatus
  <2> HIDE DEF h
  <2>3. b.hdr = h
    BY <2>2 DEF NewRes
  <2> HIDE DEF b
  <2> QED BY <1>3, <2>1, <2>2, <2>3
<1>4. CASE ~loc.redirect /\ r.mthd \notin {"GET", "HEAD"}
  <2>1. o \in Plain(200, 0, NewRes.body_size, 0)
    BY <1>4 DEF make_response_header_
  <2> HIDE DEF Plain
  <2> QED BY <1>2, <1>4, <2>1
<1>5. CASE ~loc.redirect /\ r.mthd \in {"GET", "HEAD"} /\ loc.kind = "denied"
  <2>1. o \in make_error_response_(403, r, NewRes, tbl)
    BY <1>5 DEF make_response_header_
  <2> QED BY <1>5, <2>1, ErrorStatus DEF Shown
<1>6. CASE ~loc.redirect /\ r.mthd \in {"GET", "HEAD"} /\ loc.kind = "file"
  <2>0. PICK m : m = loc.size
    OBVIOUS
  <2> DEFINE h == HeaderBlock(r, 200, m)
             b(n, f) == [NewRes EXCEPT !.hdr = @ \o h, !.body_size = n, !.body_fd = f]
  <2>1. \E n, f : o.res = b(n, f)
    <3>1. CASE r.mthd = "HEAD"
      <4>1. o = [res |-> b(0, NoFd), fds |-> tbl, w |-> TRUE]
        BY <1>6, <2>0, <3>1 DEF make_response_header_
      <4> HIDE DEF b
      <4> QED BY <4>1
    <3>2. CASE r.mthd = "GET"
      <4>1. PICK f \in FreeIn(tbl) :
              o = [res |-> b(m, f), fds |-> [tbl EXCEPT ![f] = Page(loc.size)], w |-> FALSE]
        BY <1>6, <2>0, <3>2 DEF make_response_header_
      <4> HIDE DEF b
      <4> QED BY <4>1
    <3> QED BY <1>6, <3>1, <3>2
  <2>2. NewRes.hdr \o h = h /\ h[1].status = 200
    BY BlockStatus
  <2> HIDE DEF h
  <2>3. \A n, f : b(n, f).hdr = h
    BY <2>2 DEF NewRes
  <2> HIDE DEF b
  <2> QED BY <1>6, <2>1, <2>2, <2>3 DEF Shown
<1>7. CASE ~loc.redirect /\ r.mthd \in {"GET", "HEAD"} /\ loc.kind \in {"dir", "missing"}
  <2>1. CASE ~loc.autoindex
    <3>1. o \in make_error_response_(404, r, NewRes, tbl)
      BY <1>7, <2>1 DEF make_response_header_
    <3> QED BY <1>7, <2>1, <3>1, ErrorStatus DEF Shown
  <2>2. CASE loc.autoindex /\ loc.kind = "missing"
    <3>1. o \in make_error_response_(403, r, NewRes, tbl)
      BY <1>7, <2>2 DEF make_response_header_
    <3> QED BY <1>7, <2>2, <3>1, ErrorStatus DEF Shown
  <2>3. CASE loc.autoindex /\ loc.kind = "dir"
    <3>1. o \in Plain(200, loc.size, IF r.mthd = "HEAD" THEN 0 ELSE loc.size, loc.size)
      BY <1>7, <2>3 DEF make_response_header_
    <3> HIDE DEF Plain
    <3> QED BY <1>2, <1>7, <2>3, <3>1 DEF Shown
  <2> QED BY <1>7, <2>1, <2>2, <2>3
<1> QED BY <1>1, <1>3, <1>4, <1>5, <1>6, <1>7 DEF Kinds

-----------------------------------------------------------------------------
(* The steps keep the answers in turn.                                     *)

\* No response is made or sent, and the message at hand is the same.
LEMMA AnswersStay ==
  ASSUME Answers, ~Fresh, state' \notin Start \cup {"REQ_CLEAR"}, peer' = peer, wire' = wire,
         res'.hdr = res.hdr, res'.header_sent = res.header_sent,
         res'.write_finished = res.write_finished, Number(Here') = Number(Here)
  PROVE  Answers'
<1>1. talk' = talk
  BY DEF talk
<1>2. Sent'
  BY DEF Answers, Sent
<1>3. InTurn'
  BY <1>1 DEF Answers, InTurn, Fresh
<1> QED BY <1>2, <1>3 DEF Answers

\* Nor while a request is awaited or its header read.
LEMMA FreshAnswersStay ==
  ASSUME Answers, state \in Start, state' \in Start, peer' = peer, wire' = wire, res' = res,
         Here'.n = Here.n
  PROVE  Answers'
<1>1. talk' = talk
  BY DEF talk
<1>2. Sent'
  BY DEF Answers, Sent, Start
<1>3. InTurn'
  BY <1>1 DEF Answers, InTurn, Fresh
<1> QED BY <1>2, <1>3 DEF Answers

LEMMA NoHeaderYet ==
  /\ NewRes.hdr = <<>> /\ NewRes.header_sent = FALSE /\ NewRes.write_finished = FALSE
BY DEF NewRes

\* The message at hand is a new one, and its body is awaited.
LEMMA AnswersAwaited ==
  ASSUME Answers, state \in Start, state' \notin Start \cup {"REQ_CLEAR"},
         peer' = peer, wire' = wire, res = NewRes, res' = res,
         Here \in PlaceType, Number(Here') = Here.n + 1
  PROVE  Answers'
<1>1. talk' = talk
  BY DEF talk
<1>2. Sent'
  BY NoHeaderYet DEF Answers, Sent
<1>3. Here.n \in Nat
  BY DEF PlaceType
<1>4. InTurn'
  BY <1>1, <1>3, NoHeaderYet DEF Answers, InTurn, Fresh
<1> QED BY <1>2, <1>4 DEF Answers

\* A place a message can be answered at.
Answerable(p) == p.part = "between" \/ (p.part \in InChunk /\ (~ToFile(p) \/ TooLong(p)))

\* The response to the message at hand is made.
LEMMA Responded ==
  ASSUME TypeOK, TypeOK', talk.framed, Answers, res = NewRes, peer' = peer, wire' = wire,
         Headed(res'), res'.hdr[1].status = Due(Here'), state' \notin Start \cup {"REQ_CLEAR"},
         Number(Here') = IF Fresh THEN Here.n + 1 ELSE Number(Here), Answerable(Here')
  PROVE  Answers'
<1>1. talk' = talk /\ talk'.framed
  BY DEF talk
<1>2. Here' \in PlaceType /\ AnswersAt(talk', Here') /\ Here \in PlaceType
  <2>1. pos' \in 0 .. Len(talk'.bytes)
    <3>1. rcvd' \in 0 .. Len(talk'.bytes) /\ pos' \in 0 .. rcvd' /\ Len(talk'.bytes) \in Nat
      BY <1>1, TalkTyped DEF TypeOK, TalkType
    <3> QED BY <3>1
  <2>2. At(pos') = Here'
    BY HereNext
  <2> QED BY <1>1, <2>1, <2>2, PlaceRead, InPlace
<1>3. Sent'
  BY DEF Sent, Headed
<1>4. Len(wire') = Number(Here') - 1 /\ Len(wire) \in Nat
  <2>1. Number(Here) \in Nat /\ Here.n \in Nat /\ Len(wire) \in Nat
    BY <1>2 DEF PlaceType, Number, TypeOK
  <2> QED BY <2>1, NoHeaderYet DEF Answers, InTurn
<1>5. talk'.answers[Number(Here')] = Due(Here')
  <2>1. CASE Here'.part = "between"
    <3>1. Here'.n > 0
      BY <1>2, <1>4, <2>1 DEF PlaceType, Number
    <3> QED BY <1>2, <2>1, <3>1 DEF AnswersAt, Number
  <2>2. CASE Here'.part \in InChunk /\ (~ToFile(Here') \/ TooLong(Here'))
    BY <1>2, <2>2 DEF AnswersAt, Number, InChunk
  <2> QED BY <2>1, <2>2 DEF Answerable
<1>6. InTurn'
  BY <1>1, <1>4, <1>5 DEF Answers, InTurn, Fresh, Headed
<1> QED BY <1>3, <1>6 DEF Answers

-----------------------------------------------------------------------------
(* What was answered and what is being answered, action by action.         *)

LEMMA SameAnswers ==
  ASSUME Answers, UNCHANGED <<peer, pos, wire, state>>, res'.hdr = res.hdr,
         res'.header_sent = res.header_sent, res'.write_finished = res.write_finished
  PROVE  Answers'
<1>1. talk' = talk /\ Here' = Here
  BY HereNext DEF talk, Here
<1>2. Sent'
  BY DEF Answers, Sent
<1>3. InTurn'
  BY <1>1 DEF Answers, InTurn, Fresh
<1> QED BY <1>2, <1>3 DEF Answers

LEMMA ResetAnswers == ASSUME Answers, reset_ PROVE Answers'
<1>1. /\ state = "REQ_CLEAR" /\ state' = "REQ_LINE_PARSING" /\ peer' = peer /\ pos' = pos
      /\ wire' = wire /\ res' = NewRes
  BY DEF reset_, In, inputVars
<1>2. talk' = talk /\ Here' = Here
  BY <1>1, HereNext DEF talk, Here
<1>3. Sent'
  BY <1>1, NoHeaderYet DEF Sent
<1>4. InTurn'
  BY <1>1, <1>2 DEF Answers, InTurn, Fresh, Start
<1> QED BY <1>3, <1>4 DEF Answers

LEMMA WaitingAnswers ==
  ASSUME TypeOK, Reads, Answers,
         ReadMore \/ HoldBody \/ ChunkLineMissing \/ read_to_client_buffer_ \/ SkipBody
  PROVE  Answers'
<1>1. UNCHANGED <<peer, wire, res, state>>
  BY DEF ReadMore, HoldBody, ChunkLineMissing, read_to_client_buffer_, SkipBody, inputVars
<1>2. pos' = pos
  BY SkipBodyReads DEF ReadMore, HoldBody, ChunkLineMissing, read_to_client_buffer_
<1> QED BY <1>1, <1>2, SameAnswers

\* The request line and the header fields are read before any response is made.
LEMMA LineAnswers ==
  ASSUME TypeOK, talk.framed, Kept, Reads, Answers, request_line_parser_ \/ header_field_parser_
  PROVE  Answers'
<1>1. peer' = peer /\ wire' = wire /\ state \in Start
  BY DEF request_line_parser_, header_field_parser_, In, Start, inputVars
<1>2. CASE request_line_parser_
  <2>1. Here.part = "between" /\ Here \in PlaceType
    BY <1>2, RequestLineDue, InPlace
  <2>2. res' = res
    BY <1>2, RequestLineDue, SymbolsDiffer DEF request_line_parser_
  <2>3. CASE Here' = Here /\ state' = state
    BY <1>1, <2>3, <2>2, FreshAnswersStay
  <2>4. CASE Here' = AfterText(Here, line.text) /\ state' = "REQ_HEADER_PARSING"
    <3>1. Here'.n = Here.n /\ state' \in Start
      BY <2>1, <2>4, AfterRequestLineIs DEF Start
    <3> QED BY <1>1, <3>1, <2>2, FreshAnswersStay
  <2> QED BY <1>2, <2>3, <2>4, RequestLineDue
<1>3. CASE header_field_parser_
  <2>1. res' = res /\ state' = state
    BY <1>3 DEF header_field_parser_
  <2> QED BY <1>1, <1>3, <2>1, HeaderFieldReads, FreshAnswersStay
<1> QED BY <1>2, <1>3

\* At the end of its header a message is one more, due what it asks for.
LEMMA HeaderDue ==
  ASSUME TypeOK, talk.framed, Reads, HeaderEnds
  PROVE  /\ SameMessage(Here, Here') /\ Here'.total = 0 /\ Number(Here') = Here.n + 1
         /\ ~TooLong(Here') /\ Due(Here') = Due(Here)
         /\ ~ToScript(Here) /\ ~ToFile(Here) => Answerable(Here')
<1>1. /\ Here \in PlaceType /\ Here.part = "head" /\ Fit(Here) /\ Here.total = 0
      /\ Here' = AfterEmptyLine(Here) /\ LocatedAt(Located, Here) /\ req.uri \in Targets
  BY HeaderOver
<1>2. /\ SameMessage(Here, Here') /\ Here'.total = 0
      /\ Here.te => Here'.part = "size" /\ Here'.n = Here.n
      /\ ~Here.te /\ Here.length > 0 => Here'.part = "body" /\ Here'.n = Here.n
      /\ ~Here.te /\ ~(Here.length > 0) => Here'.part = "between" /\ Here'.n = Here.n + 1
  BY <1>1, AfterHeaderIs
<1>3. Number(Here') = Here.n + 1
  BY <1>2 DEF Number
<1>4. Here.u \in Targets /\ Location[Here.u].limit \in Nat
  <2>1. Here.u = req.uri
    BY <1>1, LocatedTyped DEF LocatedAt
  <2> QED BY <1>1, <2>1, LocationTyped DEF LocationType
<1>5. ~TooLong(Here') /\ Due(Here') = Due(Here)
  <2>1. Here'.u = Here.u /\ Due(Here') = Due(Here)
    BY <1>1, <1>2, SameDue DEF SameMessage
  <2> QED BY <1>2, <1>4, <2>1 DEF TooLong
<1>6. ASSUME ~ToScript(Here), ~ToFile(Here) PROVE Answerable(Here')
  <2>1. PICK r : r = [mthd |-> Here.m, cnt_len |-> Here.length, is_chnkd |-> Here.te]
    OBVIOUS
  <2>2. ~Here.te => ~(Here.length > 0)
    BY <1>1, <1>6, <2>1, SkipStateAt
  <2>3. ~ToFile(Here')
    BY <1>2, <1>6, SameTarget DEF SameMessage
  <2> QED BY <1>2, <2>2, <2>3 DEF Answerable, InChunk
<1> QED BY <1>2, <1>3, <1>5, <1>6

\* The response to a request that is passed over.
LEMMA PassedOverAnswers ==
  ASSUME TypeOK, TypeOK', talk.framed, Said, Reads, Answers, HeaderEnds,
         ~ToScript(Here), ~ToFile(Here), NEW r, LocatedAt(r, Here), state' = SkipState(r),
         Headed(res'), res'.hdr[1].status = Due(Here)
  PROVE  Answers'
<1>1. state = "REQ_HEADER_PARSING" /\ Here \in PlaceType /\ Fit(Here)
  BY HeaderOver
<1>2. Fresh /\ res = NewRes
  BY <1>1 DEF Fresh, Start, Said, Unanswered
<1>3. state' \notin Start \cup {"REQ_CLEAR"}
  BY <1>1, SkipStateAt DEF LocatedAt, Start
<1>4. peer' = peer /\ wire' = wire
  BY DEF HeaderEnds, inputVars
<1> QED BY <1>2, <1>3, <1>4, HeaderDue, Responded

\* A request for nothing the server has, or by a method its location forbids.
LEMMA NotServedAnswers ==
  ASSUME TypeOK, TypeOK', talk.framed, Kept, Said, Reads, Answers, NotServed
  PROVE  Answers'
<1>1. HeaderEnds /\ ~Served
  BY DEF NotServed
<1>2. LocatedAt(Located, Here) /\ ~Allowed(Here) /\ Located.uri = Here.u /\ Located.mthd = Here.m
  BY <1>1, HeaderOver DEF LocatedAt
<1>3. /\ Unheld /\ fds \in TableType /\ Located \in ReqType
      /\ Located.mthd = req.mthd /\ Located.uri = req.uri
  BY <1>1, HeaderUnheld
<1> DEFINE code == IF Location[req.uri].found THEN 405 ELSE 404
           r == [Located EXCEPT !.is_cgi = FALSE]
<1>4. LocatedAt(r, Here) /\ code = Due(Here)
  <2>1. LocatedAt(r, Here)
    BY <1>2, <1>3 DEF ReqType, LocatedAt
  <2>2. code = Due(Here)
    <3>1. Due(Here) = IF Location[Here.u].found THEN 405 ELSE 404
      BY <1>2, DueUnserved
    <3>2. Here.u = req.uri
      BY <1>2, <1>3
    <3> QED BY <3>1, <3>2
  <2> QED BY <2>1, <2>2
<1>5. error_response_keep_alive_(code, r, fds)
  BY DEF NotServed
<1> HIDE DEF r, code
<1>6. PICK o \in make_error_response_(code, r, NewRes, fds) : res' = o.res
  BY <1>3, <1>5 DEF error_response_keep_alive_, Unheld
<1>7. Headed(res') /\ res'.hdr[1].status = code
  BY <1>3, <1>6, ErrorAnswer, ErrorStatus DEF Answer, Unheld
<1>8. state' = SkipState(r)
  BY <1>5 DEF error_response_keep_alive_
<1> QED BY <1>1, <1>2, <1>4, <1>7, <1>8, PassedOverAnswers DEF ToScript, ToFile

LEMMA GetHeadAnswers ==
  ASSUME TypeOK, TypeOK', talk.framed, Kept, Said, Reads, Answers, res_for_get_head_req_
  PROVE  Answers'
<1>1. HeaderEnds /\ Served /\ ~Located.is_cgi /\ req.mthd \in {"GET", "HEAD"}
  BY DEF res_for_get_head_req_
<1>2. /\ LocatedAt(Located, Here) /\ Located.uri = Here.u /\ Located.mthd = Here.m
      /\ Located.is_cgi = (Location[Here.u].found /\ Location[Here.u].cgi /\ Here.m # "DELETE")
      /\ Allowed(Here)
  BY <1>1, HeaderOver DEF LocatedAt
<1>3. /\ Unheld /\ fds \in TableType /\ Located \in ReqType /\ req.uri \in Targets
      /\ Located.mthd = req.mthd /\ Located.uri = req.uri /\ AllFree(fds)
  BY <1>1, HeaderUnheld DEF Unheld
<1>4. ~ToScript(Here) /\ ~ToFile(Here)
  BY <1>1, <1>2, <1>3 DEF ToScript, ToFile, Allowed
<1>5. PICK o \in make_response_header_(Located, NewRes, fds) :
        res' = o.res \/ res' = [o.res EXCEPT !.body_fd = NoFd]
  BY <1>3 DEF res_for_get_head_req_, Unheld
<1>6. FreeIn(fds) # {}
  BY <1>3, Room
<1>7. Answer(Located, o, fds) /\ o.res \in ResType
  BY <1>3, <1>5, HeaderAnswer, HeaderOutcome, NewTyped DEF OutcomeTyped
<1>8. o.res.hdr[1].status = Due(Here)
  <2>1. o.res.hdr[1].status = IF Location[Here.u].redirect THEN 301 ELSE Shown(Location[Here.u])
    BY <1>1, <1>2, <1>3, <1>5, <1>6, HeaderStatus
  <2> QED BY <1>1, <1>2, <1>3, <1>4, <2>1, DueShown
<1>9. Headed(res') /\ res'.hdr = o.res.hdr
  BY <1>5, <1>7 DEF Answer, Headed, ResType
<1>10. state' = SkipState(Located)
  BY DEF res_for_get_head_req_
<1> QED BY <1>1, <1>2, <1>4, <1>8, <1>9, <1>10, PassedOverAnswers

LEMMA DeleteAnswers ==
  ASSUME TypeOK, TypeOK', talk.framed, Kept, Said, Reads, Answers, res_for_delete_req_
  PROVE  Answers'
<1>1. HeaderEnds /\ req.mthd = "DELETE" /\ Served
  BY DEF res_for_delete_req_
<1>2. /\ LocatedAt(Located, Here) /\ Located.uri = Here.u /\ Located.mthd = Here.m
      /\ Allowed(Here)
  BY <1>1, HeaderOver DEF LocatedAt
<1>3. /\ Unheld /\ fds \in TableType /\ Located \in ReqType /\ req.uri \in Targets
      /\ Located.mthd = req.mthd /\ Located.uri = req.uri /\ AllFree(fds)
  BY <1>1, HeaderUnheld DEF Unheld
<1>4. ~ToScript(Here) /\ ~ToFile(Here)
  BY <1>1, <1>2, <1>3 DEF ToScript, ToFile
<1>5. PICK o \in IF Location[req.uri].kind = "file"
                 THEN make_response_header_(Located, NewRes, fds)
                 ELSE make_error_response_(404, Located, NewRes, fds) : res' = o.res
  BY <1>3 DEF res_for_delete_req_, Unheld
<1>6. FreeIn(fds) # {}
  BY <1>3, Room
<1>7. Answer(Located, o, fds)
  BY <1>3, <1>5, ErrorAnswer, HeaderAnswer
<1>8. o.res.hdr[1].status = Due(Here)
  <2>1. CASE Location[req.uri].kind = "file"
    <3>1. o.res.hdr[1].status = IF Location[Here.u].redirect THEN 301 ELSE 200
      BY <1>1, <1>3, <1>2, <1>5, <1>6, <2>1, HeaderStatus
    <3>2. Here.m = "DELETE" /\ Location[Here.u].kind = "file"
      BY <1>1, <1>2, <1>3, <2>1
    <3>3. Due(Here) = IF Location[Here.u].redirect THEN 301 ELSE 200
      BY <1>2, <3>2, DueDeleted
    <3> QED BY <3>1, <3>3
  <2>2. CASE Location[req.uri].kind # "file"
    <3>1. o.res.hdr[1].status = 404
      BY <1>5, <2>2, ErrorStatus
    <3>2. Here.m = "DELETE" /\ Location[Here.u].kind # "file"
      BY <1>1, <1>2, <1>3, <2>2
    <3>3. Due(Here) = 404
      BY <1>2, <3>2, DueDeleted
    <3> QED BY <3>1, <3>3
  <2> QED BY <2>1, <2>2
<1>9. Headed(res') /\ state' = SkipState(Located)
  BY <1>5, <1>7 DEF Answer, res_for_delete_req_
<1> QED BY <1>1, <1>2, <1>4, <1>5, <1>8, <1>9, PassedOverAnswers

\* An upload is opened, or its target cannot be written to.
LEMMA PostPutAnswers ==
  ASSUME TypeOK, TypeOK', UploadAccounted, talk.framed, Kept, Said, Reads, Answers,
         res_for_post_put_req_
  PROVE  Answers'
<1>1. /\ HeaderEnds /\ Served /\ ~Located.is_cgi /\ req.mthd \in {"POST", "PUT"}
  BY DEF res_for_post_put_req_
<1>2. /\ LocatedAt(Located, Here) /\ Located.uri = Here.u /\ Located.mthd = Here.m
      /\ Located.is_cgi = (Location[Here.u].found /\ Location[Here.u].cgi /\ Here.m # "DELETE")
      /\ Allowed(Here) /\ state = "REQ_HEADER_PARSING" /\ Here \in PlaceType
  BY <1>1, HeaderOver DEF LocatedAt
<1>3. /\ Unheld /\ fds \in TableType /\ Located \in ReqType
      /\ Located.mthd = req.mthd /\ AllFree(fds)
  BY <1>1, HeaderUnheld DEF Unheld
<1>4. ~ToScript(Here)
  BY <1>1, <1>2 DEF ToScript, Allowed
<1>5. CASE res' = res /\ state' \in Storing
  <2>1. state \in Start /\ state' \notin Start \cup {"REQ_CLEAR"}
    BY <1>2, <1>5 DEF Storing, Start
  <2>2. peer' = peer /\ wire' = wire
    BY <1>1 DEF HeaderEnds, inputVars
  <2> QED BY <1>1, <1>2, <1>3, <1>5, <2>1, <2>2, HeaderDue, AnswersAwaited DEF Unheld
<1>6. CASE ~ToFile(Here) /\ error_response_keep_alive_(404, Located, fds)
  <2>1. PICK o \in make_error_response_(404, Located, NewRes, fds) : res' = o.res
    BY <1>3, <1>6 DEF error_response_keep_alive_, Unheld
  <2>2. Headed(res') /\ res'.hdr[1].status = 404
    BY <1>3, <2>1, ErrorAnswer, ErrorStatus DEF Answer
  <2>3. Due(Here) = 404
    <3>1. Here.m \in {"POST", "PUT"}
      BY <1>1, <1>2, <1>3
    <3> QED BY <1>2, <1>4, <1>6, <3>1, DueStored
  <2>4. state' = SkipState(Located)
    BY <1>6 DEF error_response_keep_alive_
  <2> QED BY <1>1, <1>2, <1>4, <1>6, <2>2, <2>3, <2>4, PassedOverAnswers
<1> QED BY <1>5, <1>6, PostPutReads

LEMMA CgiAnswers ==
  ASSUME TypeOK, UploadAccounted, talk.framed, Kept, Said, Reads, Answers, do_cgi_
  PROVE  Answers'
<1>1. HeaderEnds
  BY DEF do_cgi_
<1>2. state \in Start /\ Here \in PlaceType /\ res = NewRes /\ peer' = peer /\ wire' = wire
  BY <1>1, HeaderOver, HeaderUnheld DEF Unheld, Start
<1> QED BY <1>1, <1>2, CgiReads, HeaderDue, AnswersAwaited

LEMMA RouteAnswers ==
  ASSUME TypeOK, TypeOK', UploadAccounted, talk.framed, Kept, Said, Reads, Answers, Route
  PROVE  Answers'
<1>1. ~BadHostRequest
  BY HeaderOver DEF BadHostRequest
<1> QED BY <1>1, NotServedAnswers, CgiAnswers, GetHeadAnswers, PostPutAnswers, DeleteAnswers
        DEF Route

-----------------------------------------------------------------------------
(* The body and the response.                                              *)

\* A body is taken, byte by byte or chunk by chunk.
LEMMA BodyAnswers ==
  ASSUME TypeOK, UploadAccounted, talk.framed, Kept, Reads, Answers,
         \/ state_req_body_ \/ CgiBody
         \/ FirstChunk \/ ChunkData \/ ChunkEnd \/ SkipChunkData
  PROVE  Answers'
<1>1. /\ peer' = peer /\ wire' = wire /\ res' = res /\ state \in Sized \cup Chunks
      /\ state' \in {state, "REQ_HOLD"}
  BY DEF state_req_body_, CgiBody, FirstChunk, ChunkData, ChunkEnd, SkipChunkData, InChunks,
         InSkip, In, Sized, Chunks, inputVars
<1>2. ~Fresh /\ state' \notin Start \cup {"REQ_CLEAR"}
  BY <1>1 DEF Fresh, Start, Sized, Chunks
<1>3. Number(Here') = Number(Here)
  <2>1. CASE FirstChunk
    <3>1. Here' = Here
      BY <2>1, HereNext DEF FirstChunk, inputVars, Here
    <3> QED BY <3>1
  <2> QED BY <2>1, BodyReads, ChunkDataReads, ChunkEndReads
<1> QED BY <1>1, <1>2, <1>3, AnswersStay

\* The message has been answered and is cleared.
LEMMA AnswersCleared ==
  ASSUME Answers, ~Fresh, state' = "REQ_CLEAR", peer' = peer, wire' = wire, res' = res,
         res.header_sent, Here'.part = "between", Number(Here') = Number(Here)
  PROVE  Answers'
<1>1. talk' = talk /\ Number(Here') = Here'.n
  BY DEF talk, Number
<1>2. Sent'
  BY DEF Answers, Sent
<1>3. InTurn'
  BY <1>1 DEF Answers, InTurn, Fresh
<1> QED BY <1>2, <1>3 DEF Answers

LEMMA SkipAnswers ==
  ASSUME TypeOK, UploadAccounted, talk.framed, Kept, Reads, Answers, SkipChunkEnd \/ SkipChunkLine
  PROVE  Answers'
<1>1. /\ state = "REQ_SKIP_BODY_CHUNKED" /\ peer' = peer /\ wire' = wire /\ ~Fresh
      /\ state' \in {state, "E_BAD_REQ", "REQ_CLEAR"}
      /\ state' = "REQ_CLEAR" => res.write_finished
  BY DEF SkipChunkEnd, SkipChunkLine, InSkip, In, inputVars, BadChunk, Fresh, Start
<1>2. Reads' /\ state' # "E_BAD_REQ" /\ res' = res /\ Number(Here') = Number(Here)
  BY SkipChunkEndReads, SkipChunkLineReads
<1>3. CASE state' = state
  BY <1>1, <1>2, <1>3, AnswersStay DEF Start
<1>4. CASE state' = "REQ_CLEAR"
  <2>1. Here'.part = "between"
    BY <1>2, <1>4 DEF Reads, Position, AtMessage, Idling
  <2>2. res.header_sent
    BY <1>1, <1>4 DEF Answers, Sent
  <2> QED BY <1>1, <1>2, <1>4, <2>1, <2>2, AnswersCleared
<1> QED BY <1>1, <1>2, <1>3, <1>4

\* A chunk that is too long is answered where it is announced.
LEMMA ChunkLineAnswers ==
  ASSUME TypeOK, TypeOK', talk.framed, Kept, Said, Reads, Answers, ChunkLine
  PROVE  Answers'
<1>1. /\ state \in Chunks /\ chnkd.size = 0 /\ line.got = "line"
      /\ peer' = peer /\ wire' = wire /\ pos' = line.end /\ ~Fresh
  BY DEF ChunkLine, AtChunkLine, InChunks, In, inputVars, Chunks, Fresh, Start
<1>2. Number(Here') = Number(Here)
  BY ChunkLineReads
<1>3. CASE res' = res /\ state' = state
  BY <1>1, <1>2, <1>3, AnswersStay DEF Chunks, Start
<1>4. CASE /\ state' = "REQ_SKIP_BODY_CHUNKED" /\ TooLong(Here') /\ Here'.part \in InChunk
           /\ res = NewRes
           /\ \E r : \E tbl \in TableType :
                AllFree(tbl) /\ \E o \in make_error_response_(413, r, NewRes, tbl) : res' = o.res
  <2>1. Headed(res') /\ res'.hdr[1].status = 413
    BY <1>4, ErrorAnswer, ErrorStatus DEF Answer
  <2>2. Due(Here') = 413
    <3>1. ToFile(Here') /\ Allowed(Here') /\ ~ToScript(Here') /\ Here'.m \in {"POST", "PUT"}
      BY <1>4 DEF TooLong, ToFile
    <3> QED BY <1>4, <3>1, DueStored
  <2>3. Answerable(Here') /\ state' \notin Start \cup {"REQ_CLEAR"}
    BY <1>4 DEF Answerable, Start
  <2> QED BY <1>1, <1>2, <1>4, <2>1, <2>2, <2>3, Responded
<1> QED BY <1>3, <1>4, ChunkLineReads

LEMMA ControllerAnswers ==
  ASSUME TypeOK, TypeOK', UploadAccounted, talk.framed, Kept, Said, Reads, Answers,
         req_res_controller_
  PROVE  Answers'
<1>1. CASE ChunkedBody \/ SkipChunkedBody
  <2>1. ~BadChunkLine
    <3> SUFFICES ASSUME BadChunkLine PROVE FALSE
      OBVIOUS
    <3>1. /\ state \in Chunks /\ chnkd.size = 0 /\ line.got = "line" /\ line.text.t # "size"
          /\ peer' = peer /\ pos' = line.end
      BY DEF BadChunkLine, AtChunkLine, InChunks, In, Chunks, inputVars
    <3> QED BY <3>1, SizeRead
  <2> QED BY <1>1, <2>1, BodyAnswers, WaitingAnswers, ChunkLineAnswers, SkipAnswers
          DEF ChunkedBody, SkipChunkedBody
<1>2. CASE ~(ChunkedBody \/ SkipChunkedBody)
  BY <1>2, ResetAnswers, WaitingAnswers, LineAnswers, RouteAnswers, BodyAnswers
     DEF req_res_controller_
<1> QED BY <1>1, <1>2

\* Once the header is out the message is answered, and may be cleared.
LEMMA Answered ==
  ASSUME ~Fresh, state' = state \/ (state' = "REQ_CLEAR" /\ Here.part = "between"),
         peer' = peer, pos' = pos, res'.hdr = <<>>, res'.header_sent, Len(wire') = Number(Here),
         \A i \in 1 .. Len(wire') : wire'[i].status = talk.answers[i]
  PROVE  Answers'
<1>1. talk' = talk /\ Here' = Here
  BY HereNext DEF talk, Here
<1>2. Sent'
  BY DEF Sent
<1>3. Number(Here) = Here.n \/ Here.part # "between"
  BY DEF Number
<1>4. InTurn'
  BY <1>1, <1>3 DEF InTurn, Fresh
<1> QED BY <1>2, <1>4 DEF Answers

LEMMA WriteHeaderAnswers ==
  ASSUME TypeOK, talk.framed, Kept, Said, Reads, Answers, WriteHeader
  PROVE  Answers'
<1>1. client_w /\ ~res.header_sent /\ peer' = peer /\ pos' = pos
  BY DEF WriteHeader, inputVars
<1>2. ~Fresh /\ Headed(res) /\ ~res.write_finished
  BY <1>1, WritingNow DEF Writing
<1>3. res \in ResType /\ wire \in Seq(ResponseType) /\ res.hdr \in Seq(ResponseType)
  BY DEF TypeOK, ResType
<1>4. Here' = Here
  BY <1>1, HereNext DEF Here
<1>5. CASE ResponseGoesOn([res EXCEPT !.cut = TRUE]) /\ wire' = wire
  <2>1. res' = [res EXCEPT !.cut = TRUE] /\ state' = state
    BY <1>5 DEF ResponseGoesOn
  <2>2. /\ res'.hdr = res.hdr /\ res'.header_sent = res.header_sent
        /\ res'.write_finished = res.write_finished
    BY <1>3, <2>1 DEF ResType
  <2> QED BY <1>1, <1>2, <1>4, <1>5, <2>1, <2>2, AnswersStay DEF Fresh
<1> DEFINE a == [res EXCEPT !.hdr = <<>>, !.header_sent = TRUE]
<1>6. ASSUME wire' = wire \o res.hdr,
             IF res.body_size = 0 \/ req.mthd = "HEAD" THEN ResponseDone(a)
             ELSE ResponseGoesOn(a)
      PROVE  Answers'
  <2>1. res'.hdr = <<>> /\ res'.header_sent = TRUE
    <3>1. res' = a \/ res' = [a EXCEPT !.write_finished = TRUE]
      BY <1>6 DEF ResponseDone, ResponseGoesOn
    <3> QED BY <1>3, <3>1 DEF ResType
  <2>2. state' = state \/ (state' = "REQ_CLEAR" /\ Here.part = "between")
    <3> HIDE DEF a
    <3>1. state' = state \/ (state' = "REQ_CLEAR" /\ state # "REQ_SKIP_BODY_CHUNKED")
      BY <1>6 DEF ResponseDone, ResponseGoesOn
    <3> QED BY <1>1, <3>1, WritingPlace
  <2>3. /\ Len(wire') = Len(wire) + 1 /\ Len(wire) \in Nat
        /\ wire'[Len(wire) + 1] = res.hdr[1]
        /\ \A i \in 1 .. Len(wire) : wire'[i] = wire[i]
    BY <1>2, <1>3, <1>6, Appended DEF Headed
  <2>4. Len(wire') = Number(Here) /\ Number(Here) \in Nat
    <3>1. Number(Here) \in Nat
      BY TypedPlace DEF Number
    <3>2. Len(wire) = Number(Here) - 1
      BY <1>1, <1>2 DEF Answers, InTurn
    <3> QED BY <2>3, <3>1, <3>2
  <2>5. res.hdr[1].status = talk.answers[Number(Here)]
    <3>1. res.hdr # <<>>
      BY <1>2 DEF Headed
    <3> QED BY <1>2, <3>1 DEF Answers, InTurn
  <2>6. \A i \in 1 .. Len(wire') : wire'[i].status = talk.answers[i]
    <3>1. \A i \in 1 .. Len(wire') : i \in 1 .. Len(wire) \/ i = Len(wire) + 1
      BY <2>3
    <3>2. \A i \in 1 .. Len(wire) : wire'[i].status = talk.answers[i]
      BY <2>3 DEF Answers, InTurn
    <3>3. wire'[Len(wire) + 1].status = talk.answers[Len(wire) + 1]
      BY <2>3, <2>4, <2>5
    <3> QED BY <3>1, <3>2, <3>3
  <2> QED BY <1>1, <1>2, <2>1, <2>2, <2>4, <2>6, Answered
<1> QED BY <1>5, <1>6 DEF WriteHeader

LEMMA WriteBodyAnswers ==
  ASSUME TypeOK, Kept, Said, Reads, Answers, WriteBody
  PROVE  Answers'
<1>1. client_w /\ res.header_sent /\ peer' = peer /\ pos' = pos
  BY DEF WriteBody, inputVars
<1>2. ~Fresh /\ wire # <<>> /\ res \in ResType /\ wire \in Seq(ResponseType)
  BY <1>1, WritingNow DEF Writing, TypeOK
<1>3. PICK n \in (IF Left = 0 THEN {0} ELSE 1 .. Left) :
           LET a == [res EXCEPT !.body_write = @ + n, !.buf = IF req.is_cgi THEN @ ELSE @ - n]
           IN  /\ wire' = IF wire = <<>> THEN wire ELSE [wire EXCEPT ![Len(wire)].got = @ + n]
               /\ IF a.body_write = res.body_size THEN ResponseDone(a) ELSE ResponseGoesOn(a)
  BY DEF WriteBody, Left
<1> DEFINE a == [res EXCEPT !.body_write = @ + n, !.buf = IF req.is_cgi THEN @ ELSE @ - n]
<1>4. res' = a \/ res' = [a EXCEPT !.write_finished = TRUE]
  BY <1>3 DEF ResponseDone, ResponseGoesOn
<1>5. res'.hdr = <<>> /\ res'.header_sent
  <2>1. res.hdr = <<>>
    BY <1>1 DEF Answers, Sent
  <2> QED BY <1>1, <1>2, <1>4, <2>1 DEF ResType
<1>6. IF a.body_write = res.body_size THEN ResponseDone(a) ELSE ResponseGoesOn(a)
  BY <1>3
<1> HIDE DEF a
<1>7. state' = state \/ (state' = "REQ_CLEAR" /\ Here.part = "between")
  <2>1. state' = state \/ (state' = "REQ_CLEAR" /\ state # "REQ_SKIP_BODY_CHUNKED")
    BY <1>6 DEF ResponseDone, ResponseGoesOn
  <2> QED BY <1>1, <2>1, WritingPlace
<1> DEFINE l == Len(wire)
<1>8. l = Number(Here) /\ \A i \in 1 .. l : wire[i].status = talk.answers[i]
  BY <1>1, <1>2 DEF Answers, InTurn
<1>9. Len(wire') = l /\ \A i \in 1 .. l : wire'[i].status = wire[i].status
  <2>1. wire' = [wire EXCEPT ![l].got = @ + n]
    BY <1>2, <1>3
  <2>2. l \in 1 .. l /\ l \in Nat
    BY <1>2
  <2>3. wire[l] \in ResponseType
    BY <1>2, <2>2
  <2>4. PICK v : v = [wire[l] EXCEPT !.got = @ + n]
    OBVIOUS
  <2>5. v.status = wire[l].status
    BY <2>3, <2>4 DEF ResponseType
  <2>6. wire' = [wire EXCEPT ![l] = v]
    BY <2>1, <2>4
  <2>7. DOMAIN wire' = DOMAIN wire /\ wire'[l] = v /\ \A i \in 1 .. l : i # l => wire'[i] = wire[i]
    BY <1>2, <2>2, <2>6
  <2>8. Len(wire') = l
    BY <1>2, <2>6, <2>7
  <2> QED BY <2>5, <2>7, <2>8
<1> QED BY <1>1, <1>2, <1>5, <1>7, <1>8, <1>9, Answered

LEMMA DrainAnswers ==
  ASSUME TypeOK, talk.framed, Kept, Said, Reads, Answers, NEW f \in Fd,
         read_to_res_buffer_(f) \/ read_to_cgi_buffer_(f)
  PROVE  Answers'
<1>1. UNCHANGED <<peer, pos, wire, state>>
  BY DEF read_to_res_buffer_, read_to_cgi_buffer_, inputVars
<1>2. /\ res'.hdr = res.hdr /\ res'.header_sent = res.header_sent
      /\ res'.write_finished = res.write_finished
  <2>1. res \in ResType
    BY DEF TypeOK
  <2> QED BY <2>1 DEF read_to_res_buffer_, read_to_cgi_buffer_, ResType
<1> QED BY <1>1, <1>2, SameAnswers

\* A script's output is answered with when its input has been read to the end.
LEMMA PipeEofAnswers ==
  ASSUME TypeOK, TypeOK', talk.framed, Kept, Said, Reads, Answers, NEW f \in Fd, PipeEof(f)
  PROVE  Answers'
<1>1. /\ fds[f].kind = "pipe" /\ ~AwaitsInput(fds, f) /\ UNCHANGED <<peer, pos, wire, state>>
  BY DEF PipeEof, inputVars
<1>2. ~Fresh /\ PipeOwned(f) /\ fds[f] \in FdType /\ fds[f].n \in Nat /\ res = NewRes
  BY <1>1, Holding
<1>3. Here' = Here
  BY <1>1, HereNext DEF Here
<1>4. CASE res' = res
  BY <1>1, <1>4, SameAnswers
<1>5. ASSUME NEW n \in Nat, fds[f].run.form # "none", cgi.from + n > fds[f].run.out,
             res' = make_cgi_response_header_(req, res, cgi.from + n - 1, fds[f].run.form)
      PROVE  Answers'
  <2> DEFINE k == cgi.from + n - 1
             h == HeaderBlock(req, 200, k)
  <2>1. fds[f].run.form # "length"
    BY <1>1, <1>2 DEF PipeOwned, GoodScript
  <2>2. k \in Nat
    <3>1. cgi.from \in Nat /\ fds[f].run.out \in Nat
      BY <1>1, <1>2, ScriptsAssumption DEF TypeOK, CgiType, FdType, ScriptType
    <3> QED BY <1>5, <3>1
  <2>3. res' = make_cgi_response_header_(req, NewRes, k, fds[f].run.form)
    BY <1>2, <1>5
  <2> HIDE DEF k
  <2>4. res' = [NewRes EXCEPT !.hdr = @ \o h, !.body_size = k]
    BY <2>1, <2>3 DEF make_cgi_response_header_
  <2>5. NewRes.hdr \o h = h /\ Len(h) = 1 /\ h[1].got = 0 /\ h[1].status = 200
    BY <2>2, OneHeader, BlockStatus
  <2> HIDE DEF h
  <2>6. Headed(res') /\ res'.hdr[1].status = 200
    BY <2>4, <2>5 DEF NewRes, Headed
  <2>7. ToScript(Here)
    BY <1>1 DEF Reads, Holders
  <2>8. Due(Here) = 200 /\ ~ToFile(Here)
    BY <2>7, DueIs DEF ToFile
  <2>9. Answerable(Here)
    <3>1. state \notin {"REQ_BODY", "REQ_BODY_CHUNKED", "REQ_CGI_BODY", "REQ_CGI_BODY_CHUNKED"}
      BY <1>1, PipeWasLast
    <3>2. state \in Idling \cup {"REQ_SKIP_BODY_CHUNKED"}
      BY <1>2, <3>1 DEF TypeOK, States, Fresh, Start, Idling
    <3>3. CASE state \in Idling
      BY <3>3 DEF Reads, Position, AtMessage, Answerable
    <3>4. CASE state = "REQ_SKIP_BODY_CHUNKED"
      <4>1. Here.part \in InChunk
        BY <3>4 DEF Reads, Position, AtChunk, Chunks, InChunk
      <4> QED BY <2>8, <4>1 DEF Answerable
    <3> QED BY <3>2, <3>3, <3>4
  <2>10. state' \notin Start \cup {"REQ_CLEAR"}
    BY <1>1, <1>2 DEF Fresh
  <2> QED BY <1>1, <1>2, <1>3, <2>6, <2>8, <2>9, <2>10, Responded
<1>6. PICK n \in (IF fds[f].n = 0 THEN {0} ELSE 1 .. fds[f].n) :
        \/ res' = res
        \/ /\ fds[f].run.form # "none" /\ cgi.from + n > fds[f].run.out
           /\ res' = make_cgi_response_header_(req, res, cgi.from + n - 1, fds[f].run.form)
  BY DEF PipeEof
<1>7. n \in Nat
  BY <1>2
<1> QED BY <1>4, <1>5, <1>6, <1>7

LEMMA UploadAnswers ==
  ASSUME TypeOK, TypeOK', talk.framed, Kept, Said, Reads, Answers,
         NEW f \in Fd, write_for_upload_(f)
  PROVE  Answers'
<1>1. ~Fresh /\ UNCHANGED <<peer, pos, wire>>
  BY UploadReads
<1>2. Here' = Here
  BY <1>1, HereNext DEF Here
<1>3. CASE res' = res /\ state' = state
  BY <1>1, <1>3, SameAnswers
<1>4. CASE /\ state' \in {"REQ_HOLD", "E_BAD_REQ"}
           /\ Here.part = "between" /\ ToFile(Here) /\ ~TooLong(Here) /\ res = NewRes
           /\ \E r \in ReqType : \E tbl \in TableType :
                /\ r.uri \in Targets /\ r.uri = Here.u /\ r.mthd = Here.m /\ AllFree(tbl)
                /\ \E o \in make_response_header_(r, NewRes, tbl) : res' = o.res
  <2>1. PICK r \in ReqType, tbl \in TableType :
          /\ r.uri \in Targets /\ r.uri = Here.u /\ r.mthd = Here.m /\ AllFree(tbl)
          /\ \E o \in make_response_header_(r, NewRes, tbl) : res' = o.res
    BY <1>4
  <2>2. Here.m \in {"POST", "PUT"} /\ Allowed(Here) /\ ~ToScript(Here)
    BY <1>4 DEF ToFile
  <2>3. FreeIn(tbl) # {}
    BY <2>1, Room
  <2>4. Headed(res') /\ res'.hdr[1].status = IF Location[Here.u].redirect THEN 301 ELSE 200
    BY <2>1, <2>2, <2>3, HeaderAnswer, HeaderStatus DEF Answer
  <2>5. res'.hdr[1].status = Due(Here)
    <3>1. Due(Here) = IF Location[Here.u].redirect THEN 301 ELSE 200
      BY <1>4, <2>2, DueStored
    <3> QED BY <2>4, <3>1
  <2>6. Answerable(Here) /\ state' \notin Start \cup {"REQ_CLEAR"}
    BY <1>4 DEF Answerable, Start
  <2> QED BY <1>1, <1>2, <1>4, <2>4, <2>5, <2>6, Responded
<1> QED BY <1>3, <1>4, UploadReads

LEMMA WriteCgiAnswers ==
  ASSUME TypeOK, Kept, Said, Answers, NEW f \in Fd, write_to_cgi_(f)
  PROVE  Answers'
<1>1. ~Fresh
  <2>1. fds[f].kind # "free"
    BY WriterKind DEF write_to_cgi_, Writable
  <2> QED BY <2>1, Holding
<1>2. UNCHANGED <<peer, pos, wire, res>> /\ state' \in {state, "REQ_HOLD"}
  BY DEF write_to_cgi_, inputVars
<1>3. Here' = Here
  BY <1>2, HereNext DEF Here
<1>4. state' \notin Start \cup {"REQ_CLEAR"}
  BY <1>1, <1>2 DEF Fresh, Start
<1> QED BY <1>1, <1>2, <1>3, <1>4, AnswersStay

LEMMA EventAnswers ==
  ASSUME TypeOK, TypeOK', talk.framed, Kept, Said, Reads, Answers,
         \/ read_to_client_buffer_ \/ write_response_
         \/ \E f \in Fd : FdEvent(f)
  PROVE  Answers'
BY WaitingAnswers, WriteHeaderAnswers, WriteBodyAnswers, DrainAnswers, PipeEofAnswers,
   StdinEofStep, UploadAnswers, WriteCgiAnswers DEF write_response_, FdEvent

-----------------------------------------------------------------------------
(* Framed talks are orderly and answered in order.                         *)

\* The responses received are those due, whatever is at hand.
Prompt ==
  /\ Len(wire) <= Len(talk.answers)
  /\ \A i \in 1 .. Len(wire) : wire[i].status = talk.answers[i]

Talked == IF pc = "gone" THEN Prompt ELSE Reads /\ Answers

LEMMA InitTalked == ASSUME TypeOK, Init, talk.framed PROVE Talked
<1>1. /\ pos = 0 /\ pc = "wait" /\ state = "REQ_LINE_PARSING" /\ req = NewReq(FALSE, 0)
      /\ res = NewRes /\ skip_size = 0 /\ wire = <<>>
  BY DEF Init
<1>2. Here = Opening
  BY <1>1, FramedTalk DEF WellFormed, Here, At
<1>3. Here.part = "between" /\ Here.n = 0
  BY <1>2 DEF Opening
<1>4. req.header = NoHeader /\ req.body_size = 0
  BY <1>1 DEF NewReq
<1>5. Position
  BY <1>1, <1>3, <1>4 DEF Position, AtMessage, AtHeader, AtBody, AtChunk, ForWhom, Idling, Sized,
                          Storing, Feeding, Chunks
<1>6. Holders
  BY DEF Init, FreeFd, Holders
<1>7. Len(wire) = 0
  BY <1>1
<1>8. Sent
  BY <1>1, NoHeaderYet DEF Sent
<1>9. InTurn
  BY <1>1, <1>3, <1>7 DEF InTurn, Fresh, Start
<1> QED BY <1>1, <1>5, <1>6, <1>8, <1>9 DEF Talked, Reads, Answers

LEMMA AnswersPrompt ==
  ASSUME TypeOK, talk.framed, Reads, Answers
  PROVE  Prompt
<1>1. Here \in PlaceType /\ AnswersAt(talk, Here) /\ Len(talk.answers) \in Nat
  <2>1. talk.answers \in Seq(Nat)
    BY TalkTyped DEF TalkType
  <2> QED BY <2>1, InPlace
<1>2. Len(wire) \in {Here.n, Number(Here), Number(Here) - 1}
      /\ (Here.part # "between" => Fresh \/ Len(wire) \in {Number(Here), Number(Here) - 1})
  BY DEF Answers, InTurn
<1>3. Here.part # "inside"
  <2>1. state \in Idling \cup {"REQ_HEADER_PARSING"} \cup Sized \cup Chunks
    BY DEF TypeOK, States, Idling, Sized, Chunks
  <2>2. state \in Idling \cup {"REQ_HEADER_PARSING"} \cup Sized => Here.part # "inside"
    BY DEF Reads, Position, AtMessage, AtHeader, AtBody
  <2>3. state \in Chunks => Here.part # "inside"
    BY DEF Reads, Position, AtChunk
  <2> QED BY <2>1, <2>2, <2>3
<1>4. Here.n \in Nat
  BY <1>1 DEF PlaceType
<1>5. CASE Here.part = "between"
  <2>1. Here.n <= Len(talk.answers) /\ Number(Here) = Here.n
    BY <1>1, <1>5 DEF AnswersAt, Number
  <2> QED BY <1>1, <1>2, <1>4, <2>1 DEF Answers, InTurn, Prompt
<1>6. CASE Here.part # "between"
  <2>1. Here.n < Len(talk.answers)
    BY <1>1, <1>3, <1>6 DEF AnswersAt
  <2>2. Number(Here) = Here.n + 1
    BY <1>6 DEF Number
  <2> QED BY <1>1, <1>2, <1>4, <2>1, <2>2 DEF Answers, InTurn, Prompt
<1> QED BY <1>5, <1>6

LEMMA StepTalked ==
  ASSUME TypeOK, TypeOK', UploadAccounted, talk.framed, OInv, Talked, [Next]_vars
  PROVE  [Orderly]_vars /\ OInv' /\ Talked'
<1>1. CASE Handled
  <2>1. pc # "gone" /\ pc' # "gone"
    BY <1>1, Gone
  <2>2. Kept /\ Said /\ Reads /\ Answers
    BY <2>1 DEF OInv, Talked
  <2>3. ~proc_event_wait_pid
    BY <2>2 DEF Kept, proc_event_wait_pid
  <2>4. Orderly /\ Reads'
    BY <1>1, <2>2, <2>3, ControllerReads, EventReads DEF Handled, Answers
  <2>5. Answers'
    BY <1>1, <2>2, <2>3, ControllerAnswers, EventAnswers DEF Handled
  <2>6. OInv'
    BY <2>4, StepOrderly
  <2> QED BY <2>1, <2>4, <2>5, <2>6 DEF Talked
<1>2. CASE HangUp
  <2>1. pc = "wait" /\ pc' = "gone" /\ wire' = wire /\ peer' = peer
    BY <1>2 DEF HangUp, Idle, inputVars
  <2>2. Orderly
    <3>1. AllFree(fds')
      BY <1>2, <2>1, HangUpStep DEF OInv, Done
    <3> QED BY <2>1, <3>1 DEF Orderly, AllFree
  <2>3. OInv'
    BY <2>2, StepOrderly
  <2>4. Prompt
    BY <2>1, AnswersPrompt DEF Talked
  <2>5. Prompt'
    BY <2>1, <2>4 DEF Prompt, talk
  <2> QED BY <2>1, <2>2, <2>3, <2>5 DEF Talked
<1>3. CASE UNCHANGED vars
  <2>1. UNCHANGED <<peer, pos, wire, state, pc, fds, req, chnkd, skip_size, res>>
    BY <1>3 DEF vars, inputVars
  <2>2. CASE pc = "gone"
    <3>1. Prompt
      BY <2>2 DEF Talked
    <3>2. Prompt'
      BY <2>1, <3>1 DEF Prompt, talk
    <3> QED BY <1>3, <2>1, <2>2, <3>2, StepOrderly DEF Talked
  <2>3. CASE pc # "gone"
    <3>1. Reads'
      BY <2>1, <2>3, SameReads, ReqSame, FdsSame DEF Talked
    <3>2. Answers'
      BY <2>1, <2>3, SameAnswers DEF Talked
    <3> QED BY <1>3, <2>1, <2>3, <3>1, <3>2, StepOrderly DEF Talked
  <2> QED BY <2>2, <2>3
<1> QED BY <1>1, <1>2, <1>3 DEF Next

-----------------------------------------------------------------------------
(* What the file of an upload holds.                                       *)

\* The bytes of message k's body among the first i of a talk.
BodyOf(t, k, i) == {j \in 1 .. i : t.bytes[j] = Byte /\ (k = 1 \/ j > t.ends[k-1])}

\* How much of the message at hand the server has taken out of _buf.
Got == Cardinality(BodyOf(talk, Number(Here), pos))

LEMMA BodyCounted ==
  ASSUME NEW t, NEW k, NEW i \in Nat
  PROVE  IsFiniteSet(BodyOf(t, k, i)) /\ Cardinality(BodyOf(t, k, i)) \in Nat
<1>1. IsFiniteSet(1 .. i)
  BY FS_Interval
<1>2. BodyOf(t, k, i) \in SUBSET (1 .. i)
  BY DEF BodyOf
<1> QED BY <1>1, <1>2, FS_Subset, FS_CardinalityType

\* A line is no part of a body.
LEMMA BodySame ==
  ASSUME NEW t, NEW k, NEW i \in Nat, NEW e \in Nat, i <= e,
         \A j \in i+1 .. e : t.bytes[j] # Byte
  PROVE  BodyOf(t, k, e) = BodyOf(t, k, i)
BY DEF BodyOf

LEMMA BodyMore ==
  ASSUME NEW t, NEW k, NEW i \in Nat, NEW n \in Nat, k = 1 \/ t.ends[k-1] \in 0 .. i,
         \A j \in 1 .. n : t.bytes[i+j] = Byte
  PROVE  Cardinality(BodyOf(t, k, i + n)) = Cardinality(BodyOf(t, k, i)) + n
<1> DEFINE S == BodyOf(t, k, i)
           T == i+1 .. i+n
<1>1. \A j \in T : j - i \in 1 .. n /\ i + (j - i) = j
  OBVIOUS
<1>2. \A j \in T : t.bytes[j] = Byte
  BY <1>1
<1>3. \A j \in T : j \in 1 .. i + n /\ (k = 1 \/ j > t.ends[k-1])
  OBVIOUS
<1>4. BodyOf(t, k, i + n) = S \cup T
  BY <1>2, <1>3 DEF BodyOf
<1>5. S \cap T = {}
  BY DEF BodyOf
<1>6. IsFiniteSet(T) /\ Cardinality(T) = n
  <2>1. i + 1 \in Int /\ i + n \in Int /\ (i + 1 > i + n <=> n = 0) /\ (i + n) - (i + 1) + 1 = n
    OBVIOUS
  <2> QED BY <2>1, FS_Interval
<1>7. IsFiniteSet(S) /\ Cardinality(S) \in Nat
  BY BodyCounted
<1>8. Cardinality(S \cap T) = 0
  BY <1>5, FS_EmptySet
<1>9. Cardinality(S \cup T) = Cardinality(S) + Cardinality(T) - Cardinality(S \cap T)
  BY <1>6, <1>7, FS_Union
<1> HIDE DEF S, T
<1>10. Cardinality(S \cup T) = Cardinality(S) + n
  BY <1>6, <1>7, <1>8, <1>9
<1> QED BY <1>4, <1>10 DEF S

\* The next message begins where one ends.
LEMMA BodyBegins ==
  ASSUME NEW t, NEW k \in Nat \ {0}, NEW i \in Nat, t.ends[k] = i
  PROVE  BodyOf(t, k + 1, i) = {}
<1>1. (k + 1) - 1 = k /\ k + 1 # 1
  OBVIOUS
<1> QED BY <1>1 DEF BodyOf

\* The talk says where the messages that are over ended.
Marks ==
  /\ Here.n > 0 => talk.ends[Here.n] \in 0 .. pos
  /\ ~Fresh /\ Here.part = "between" => Here.n > 0 /\ pos = talk.ends[Here.n]
  /\ Fresh => BodyOf(talk, Here.n + 1, pos) = {}

\* What has been stored and what waits to be is what has been taken; chunks are
\* counted before they come.
InFile ==
  IF req.is_chnkd
  THEN /\ disk.stored + chnkd.body = Got /\ req.body_read = disk.stored
       /\ state = "REQ_BODY_CHUNKED" => req.body_size = Got + Ahead
       /\ state = "REQ_HOLD" => req.cnt_len = Got
  ELSE disk.stored + req.body_buf = Got

NoUpload(tbl) == \A f \in Fd : tbl[f].kind # "upload"
Filed  == NoUpload(fds) \/ InFile
Stores == Marks /\ Filed

\* An upload is acknowledged when it is stored.
Acked ==
  disk.st # "whole" /\ disk'.st = "whole" =>
    \E k \in 1 .. Len(talk.ends) : pos = talk.ends[k] /\ disk'.stored = BodyBytes(k)

LEMMA MarksStay ==
  ASSUME TypeOK, talk.framed, Marks, UNCHANGED <<peer, pos>>, Fresh => Fresh',
         ~Fresh /\ Fresh' => Here.part = "between"
  PROVE  Marks' /\ Got' = Got
<1>1. Here' = Here /\ talk' = talk /\ pos' = pos
  BY HereNext DEF Here, talk
<1>2. ~Fresh /\ Fresh' => BodyOf(talk, Here.n + 1, pos) = {}
  <2> SUFFICES ASSUME ~Fresh, Fresh' PROVE BodyOf(talk, Here.n + 1, pos) = {}
    OBVIOUS
  <2>1. Here.n \in Nat /\ Here.n > 0 /\ pos = talk.ends[Here.n] /\ pos \in Nat
    BY TypedPlace, InPlace DEF Marks
  <2> QED BY <2>1, BodyBegins
<1> QED BY <1>1, <1>2 DEF Marks, Got

LEMMA MarksMove ==
  ASSUME TypeOK, TypeOK', talk.framed, Marks, peer' = peer, pos <= pos',
         Moves(pos', Here'), Here'.n \in {Here.n, Here.n + 1},
         Fresh' \/ (Here'.part = "between" => Here'.n # Here.n),
         Fresh' => Here'.n # Here.n \/ (Fresh /\ BodyOf(talk, Here.n + 1, pos') = BodyOf(talk, Here.n + 1, pos))
  PROVE  Marks'
<1>1. talk' = talk /\ pos \in Nat /\ pos' \in Nat /\ Here.n \in Nat /\ Here'.n \in Nat
  BY TypedPlace, InPlace DEF talk, TypeOK
<1>2. Here'.n # Here.n => Here'.n > 0 /\ talk.ends[Here'.n] = pos'
  BY <1>1 DEF Moves
<1>3. Here'.n > 0 => talk.ends[Here'.n] \in 0 .. pos'
  BY <1>1, <1>2 DEF Marks
<1>4. ~Fresh' /\ Here'.part = "between" => Here'.n > 0 /\ pos' = talk.ends[Here'.n]
  BY <1>2
<1>5. Fresh' => BodyOf(talk, Here'.n + 1, pos') = {}
  <2>1. Here'.n # Here.n => BodyOf(talk, Here'.n + 1, pos') = {}
    BY <1>1, <1>2, BodyBegins
  <2> QED BY <2>1 DEF Marks
<1> QED BY <1>1, <1>3, <1>4, <1>5 DEF Marks

\* A line is passed: nothing is taken.
LEMMA LineTakes ==
  ASSUME TypeOK, talk.framed, Here.part \in {"between", "head", "size"}, line.got = "line"
  PROVE  \A k : BodyOf(talk, k, line.end) = BodyOf(talk, k, pos)
<1>1. pos \in Nat /\ line.end \in Nat /\ pos <= line.end
  BY InPlace, LineOK DEF TypeOK
<1>2. CASE line.end = pos + 2 /\ EmptyAt(talk.bytes, pos)
  <2>1. \A j \in pos+1 .. line.end : j = pos + 1 \/ j = pos + 2
    BY <1>1, <1>2
  <2>2. \A j \in pos+1 .. line.end : talk.bytes[j] # Byte
    BY <1>2, <2>1, SymbolsDiffer DEF EmptyAt
  <2> QED BY <1>1, <2>2, BodySame
<1>3. CASE /\ line.end = pos + 3 /\ TextAt(talk.bytes, pos) /\ line.text = talk.bytes[pos+1]
           /\ line.text.t \in TextsAt(Here.part)
  <2>1. \A j \in pos+1 .. line.end : j = pos + 1 \/ j = pos + 2 \/ j = pos + 3
    BY <1>1, <1>3
  <2>2. talk.bytes[pos+1] # Byte
    BY <1>3, SymbolsDiffer DEF TextsAt
  <2>3. \A j \in pos+1 .. line.end : talk.bytes[j] # Byte
    BY <1>3, <2>1, <2>2, SymbolsDiffer DEF TextAt
  <2> QED BY <1>1, <2>3, BodySame
<1> QED BY <1>2, <1>3, LineDue

LEMMA CrlfTakes ==
  ASSUME TypeOK, talk.framed, Here.part = "crlf"
  PROVE  \A k : BodyOf(talk, k, pos + 2) = BodyOf(talk, k, pos)
<1>1. pos \in Nat /\ EmptyAt(talk.bytes, pos)
  BY InPlace, ChunkOver
<1>2. \A j \in pos+1 .. pos+2 : j = pos + 1 \/ j = pos + 2
  BY <1>1
<1>3. \A j \in pos+1 .. pos+2 : talk.bytes[j] # Byte
  BY <1>1, <1>2, SymbolsDiffer DEF EmptyAt
<1> QED BY <1>1, <1>3, BodySame

\* Bytes of a body are taken.
LEMMA BytesTake ==
  ASSUME TypeOK, talk.framed, Marks, Here.part \in {"body", "data"},
         NEW n \in Nat, n <= Here.left
  PROVE  Cardinality(BodyOf(talk, Number(Here), pos + n)) = Got + n
<1>1. pos \in Nat /\ Here.n \in Nat /\ Number(Here) = Here.n + 1 /\ Here.left \in Nat
  BY InPlace, TypedPlace DEF Number
<1>2. (Here.n + 1) - 1 = Here.n /\ (Here.n = 0 \/ Here.n > 0)
  BY <1>1
<1>3. Number(Here) = 1 \/ talk.ends[Number(Here) - 1] \in 0 .. pos
  BY <1>1, <1>2 DEF Marks
<1>4. \A j \in 1 .. n : talk.bytes[pos+j] = Byte
  <2>1. \A j \in 1 .. n : j \in 1 .. Here.left /\ j \in 1 .. j
    BY <1>1
  <2> QED BY <2>1, BytesDue
<1> QED
  <2>1. PICK k : k = Number(Here)
    OBVIOUS
  <2>2. Cardinality(BodyOf(talk, k, pos + n)) = Cardinality(BodyOf(talk, k, pos)) + n
    BY <1>1, <1>3, <1>4, <2>1, BodyMore
  <2> QED BY <2>1, <2>2 DEF Got

-----------------------------------------------------------------------------
(* Steps that neither take nor store.                                      *)

SameStore ==
  /\ disk'.stored = disk.stored /\ req' = req
  /\ chnkd'.body = chnkd.body /\ chnkd'.size = chnkd.size
  /\ \A f \in Fd : fds'[f].kind = "upload" => fds[f].kind = "upload"

LEMMA FiledStays ==
  ASSUME Filed, SameStore, Got' = Got, state' = state
  PROVE  Filed'
<1>1. NoUpload(fds) => NoUpload(fds')
  BY DEF SameStore, NoUpload
<1>2. Ahead' = Ahead
  BY DEF SameStore, Ahead
<1>3. InFile => InFile'
  BY <1>2 DEF SameStore, InFile
<1> QED BY <1>1, <1>3 DEF Filed

\* No file is open where none may be.
LEMMA NotFiling ==
  ASSUME Reads', state' \notin Storing \cup {"REQ_HOLD"}
  PROVE  Filed'
BY DEF Reads, Holders, Filed, NoUpload

LEMMA FreshFiles == ASSUME Reads', Fresh' PROVE Filed'
BY NotFiling DEF Fresh, Start, Storing

LEMMA WaitingStores ==
  ASSUME TypeOK, talk.framed, Stores,
         \/ ReadMore \/ HoldBody \/ ChunkLineMissing \/ read_to_client_buffer_ \/ FirstChunk
         \/ \E f \in Fd : read_to_res_buffer_(f) \/ read_to_cgi_buffer_(f) \/ PipeEof(f) \/ StdinEof(f)
  PROVE  Stores'
<1>1. /\ UNCHANGED <<peer, pos, state, req, disk>>
      /\ chnkd' = chnkd \/ chnkd' = [chnkd EXCEPT !.first = FALSE]
  BY DEF ReadMore, HoldBody, ChunkLineMissing, read_to_client_buffer_, FirstChunk,
         read_to_res_buffer_, read_to_cgi_buffer_, PipeEof, StdinEof, inputVars
<1>2. chnkd'.body = chnkd.body /\ chnkd'.size = chnkd.size
  BY <1>1 DEF TypeOK, ChnkdType
<1>3. fds \in TableType
  BY DEF TypeOK
<1>4. \A f \in Fd : fds'[f].kind = "upload" => fds[f].kind = "upload"
  <2>1. CASE fds' = fds
    BY <2>1
  <2>2. CASE FirstChunk
    <3>1. \E f : fds' = Watch(fds, f, "W")
      BY <2>2 DEF FirstChunk
    <3> QED BY <1>3, <3>1, WatchKeeps
  <2>3. ASSUME NEW f \in Fd,
               read_to_res_buffer_(f) \/ read_to_cgi_buffer_(f) \/ PipeEof(f) \/ StdinEof(f)
        PROVE  \A g \in Fd : fds'[g].kind = "upload" => fds[g].kind = "upload"
    <3>1. \/ fds' = CloseFds(fds, {f})
          \/ \E n : fds' = [fds EXCEPT ![f].n = @ - n]
      BY <2>3 DEF read_to_res_buffer_, read_to_cgi_buffer_, PipeEof, StdinEof
    <3>2. CASE fds' = CloseFds(fds, {f})
      BY <1>3, <3>2, Closed
    <3>3. ASSUME NEW n, fds' = [fds EXCEPT ![f].n = @ - n]
          PROVE  \A g \in Fd : fds'[g].kind = fds[g].kind
      <4>1. fds \in [Fd -> FdType] /\ fds[f] \in FdType
        BY <1>3 DEF TableType
      <4> QED BY <3>3, <4>1 DEF FdType
    <3> QED BY <3>1, <3>2, <3>3
  <2> QED BY <2>1, <2>2, <2>3 DEF ReadMore, HoldBody, ChunkLineMissing, read_to_client_buffer_
<1>5. SameStore
  BY <1>1, <1>2, <1>4 DEF SameStore
<1>6. Marks' /\ Got' = Got
  BY <1>1, MarksStay DEF Stores, Fresh
<1> QED BY <1>1, <1>5, <1>6, FiledStays DEF Stores

LEMMA ResetStores == ASSUME TypeOK, talk.framed, Stores, Reads', reset_ PROVE Stores'
<1>1. UNCHANGED <<peer, pos>> /\ Fresh /\ Fresh'
  BY DEF reset_, In, inputVars, Fresh, Start
<1> QED BY <1>1, MarksStay, FreshFiles DEF Stores

-----------------------------------------------------------------------------
(* The lines of a request.                                                 *)

LEMMA LineStores ==
  ASSUME TypeOK, TypeOK', talk.framed, Kept, Reads, Reads', Stores,
         request_line_parser_ \/ header_field_parser_
  PROVE  Stores'
<1>1. /\ peer' = peer /\ pos' = line.end /\ line.got = "line" /\ state \in Start /\ Fresh
  BY DEF request_line_parser_, header_field_parser_, In, inputVars, Start, Fresh
<1>2. Here.part \in {"between", "head"} /\ Here'.n = Here.n /\ Fresh'
  <2>1. CASE request_line_parser_
    <3>1. Here.part = "between"
      BY <2>1, RequestLineDue
    <3>2. Here'.n = Here.n
      <4>1. Here' = Here \/ Here' = AfterText(Here, line.text)
        BY <2>1, RequestLineDue
      <4>2. Here' = Here => Here'.n = Here.n
        OBVIOUS
      <4>3. AfterText(Here, line.text).n = Here.n
        BY <3>1, InPlace, AfterRequestLineIs
      <4> QED BY <4>1, <4>2, <4>3
    <3> QED BY <2>1, <3>1, <3>2, <1>1, RequestLineDue DEF Fresh, Start
  <2>2. CASE header_field_parser_
    <3>1. state = "REQ_HEADER_PARSING" /\ state' = state
      BY <2>2 DEF header_field_parser_, In
    <3>2. Here.part = "head" /\ Here'.n = Here.n
      BY <2>2, <3>1, HeaderFieldReads DEF Reads, Position, AtHeader
    <3> QED BY <3>1, <3>2 DEF Fresh, Start
  <2> QED BY <2>1, <2>2
<1>3. BodyOf(talk, Here.n + 1, pos') = BodyOf(talk, Here.n + 1, pos)
  BY <1>1, <1>2, LineTakes
<1>4. Moves(pos', Here') /\ pos <= pos'
  BY <1>1, <1>2, LineOK, HereNext DEF Moves, TypeOK
<1> QED BY <1>1, <1>2, <1>3, <1>4, MarksMove, FreshFiles DEF Stores

-----------------------------------------------------------------------------
(* The end of the header.                                                  *)

LEMMA RouteLeaves ==
  ASSUME TypeOK, UploadAccounted, talk.framed, Kept, Said, Reads, Route
  PROVE  HeaderEnds /\ ~Fresh' /\ (do_cgi_ \/ state' \in Refused \cup Storing)
<1>1. HeaderEnds
  BY DEF Route, BadHostRequest, NotServed, do_cgi_, res_for_get_head_req_,
         res_for_post_put_req_, res_for_delete_req_
<1>2. ~req.header.badhost
  BY <1>1, HeaderOver
<1>3. CASE do_cgi_
  BY <1>1, <1>3, CgiReads DEF Fresh
<1>4. CASE NotServed \/ res_for_get_head_req_ \/ res_for_delete_req_
  <2>1. \E r : state' = SkipState(r)
    BY <1>4 DEF NotServed, res_for_get_head_req_, res_for_delete_req_, error_response_keep_alive_
  <2> QED BY <1>1, <2>1, SkipStateIn DEF Refused, Fresh, Start
<1>5. CASE res_for_post_put_req_
  <2>1. state' \in Storing \/ \E r : state' = SkipState(r)
    BY <1>5, PostPutReads DEF error_response_keep_alive_
  <2> QED BY <1>1, <2>1, SkipStateIn DEF Refused, Fresh, Start, Storing
<1> QED BY <1>2, <1>3, <1>4, <1>5 DEF Route, BadHostRequest

LEMMA HeaderMarks ==
  ASSUME TypeOK, TypeOK', talk.framed, Marks, Reads, HeaderEnds, ~Fresh'
  PROVE  Marks' /\ Got' = 0
<1>1. /\ state = "REQ_HEADER_PARSING" /\ peer' = peer /\ Here \in PlaceType /\ Here.part = "head"
      /\ Moves(pos', AfterEmptyLine(Here)) /\ Here' = AfterEmptyLine(Here)
  BY HeaderOver
<1>2. pos' = line.end /\ line.got = "line"
  BY <1>1, LineDue DEF HeaderEnds
<1>3. pos <= pos' /\ talk' = talk /\ Here.n \in Nat
  BY <1>1, <1>2, LineOK, TypedPlace DEF TypeOK, talk
<1>4. /\ Here'.n \in {Here.n, Here.n + 1} /\ Number(Here') = Here.n + 1
      /\ Here'.part = "between" => Here'.n # Here.n
  BY <1>1, <1>3, AfterHeaderIs DEF Number
<1>5. BodyOf(talk, Here.n + 1, pos') = BodyOf(talk, Here.n + 1, pos)
  BY <1>1, <1>2, LineTakes
<1>6. BodyOf(talk, Here.n + 1, pos) = {}
  BY <1>1 DEF Marks, Fresh, Start
<1>7. Marks'
  BY <1>1, <1>3, <1>4, MarksMove
<1>8. Got' = Cardinality({})
  BY <1>3, <1>4, <1>5, <1>6 DEF Got
<1> QED BY <1>7, <1>8, FS_EmptySet

\* Only a request that stores its body opens a file, and it has stored nothing.
LEMMA RouteStores ==
  ASSUME TypeOK, TypeOK', UploadAccounted, talk.framed, Kept, Said, Reads, Reads', Stores, Route
  PROVE  Stores'
<1>1. HeaderEnds /\ ~Fresh' /\ (do_cgi_ \/ state' \in Refused \cup Storing)
  BY RouteLeaves
<1>2. Marks' /\ Got' = 0
  BY <1>1, HeaderMarks DEF Stores
<1>3. CASE NoUpload(fds')
  BY <1>2, <1>3 DEF Stores, Filed
<1>4. CASE ~NoUpload(fds')
  <2>1. PICK f \in Fd : fds'[f].kind = "upload"
    BY <1>4 DEF NoUpload
  <2>2. ToFile(Here')
    BY <2>1 DEF Reads, Holders
  <2>3. /\ Here \in PlaceType /\ Here.part = "head" /\ Here' = AfterEmptyLine(Here) /\ Fit(Here)
        /\ ~req.header.badhost /\ req.uri \in Targets /\ LocatedAt(Located, Here)
        /\ Located.is_cgi = (Location[Here.u].found /\ Location[Here.u].cgi /\ Here.m # "DELETE")
        /\ Served = Allowed(Here) /\ state = "REQ_HEADER_PARSING"
        /\ Located.body_limit = Location[Here.u].limit \/ ~Served
    BY <1>1, HeaderOver
  <2>4. /\ Unheld /\ Located \in ReqType /\ Located.mthd = req.mthd /\ Located.uri = req.uri
        /\ Located.body_buf = 0 /\ AllFree(fds)
    BY <1>1, HeaderUnheld DEF Unheld
  <2>5. SameMessage(Here, Here')
    BY <2>3, AfterHeaderIs
  <2>6. ToFile(Here)
    BY <2>2, <2>5, SameTarget DEF SameMessage
  <2>7. /\ Served /\ ~Located.is_cgi /\ req.mthd \in {"POST", "PUT"}
    BY <2>3, <2>4, <2>6 DEF ToFile, ToScript, LocatedAt
  <2>8. res_for_post_put_req_
    BY <2>3, <2>7 DEF Route, BadHostRequest, NotServed, do_cgi_, res_for_get_head_req_,
                      res_for_delete_req_
  <2>9. state' \in Storing
    BY <2>6, <2>8, PostPutReads
  <2>10. PICK g \in FreeIn(fds) :
            LET r == [Located EXCEPT !.body_fd = g]
            IN  \/ /\ req' = [r EXCEPT !.body_size = 0, !.cnt_len = Unset]
                   /\ state' = "REQ_BODY_CHUNKED" /\ disk' = NewFile(r)
                \/ req' = r /\ state' = "REQ_BODY" /\ disk' = NewFile(r)
    <3>0. \A r : state' # SkipState(r)
      BY <2>9, SkipStateIn DEF Refused, Storing
    <3>1. ~error_response_keep_alive_(404, Located, fds)
      BY <3>0 DEF error_response_keep_alive_
    <3>2. PICK g \in FreeIn(fds) :
             LET r == [Located EXCEPT !.body_fd = g]
             IN  CASE r.is_chnkd \/ r.cnt_len = Unset ->
                        /\ req' = [r EXCEPT !.body_size = 0, !.cnt_len = Unset]
                        /\ fds' = [fds EXCEPT ![g] = Upload]
                        /\ state' = "REQ_BODY_CHUNKED" /\ disk' = NewFile(r)
                        /\ UNCHANGED <<pc, res, client_w>>
                   [] ~r.is_chnkd /\ r.cnt_len > r.body_limit ->
                        /\ error_response_keep_alive_(416, r, fds)
                        /\ disk' = [NewFile(r) EXCEPT !.st = "removed"] /\ Wait
                   [] OTHER ->
                        /\ req' = r
                        /\ fds' = Watch([fds EXCEPT ![g] = Upload], g, "W")
                        /\ state' = "REQ_BODY" /\ disk' = NewFile(r)
                        /\ UNCHANGED <<pc, res, client_w>>
      BY <2>8, <3>1 DEF res_for_post_put_req_
    <3> DEFINE r == [Located EXCEPT !.body_fd = g]
    <3>3. ~error_response_keep_alive_(416, r, fds)
      BY <3>0 DEF error_response_keep_alive_
    <3>4. r.cnt_len = Located.cnt_len /\ r.is_chnkd = Located.is_chnkd /\ r.body_limit = Located.body_limit
      BY <2>4 DEF ReqType
    <3>5. CASE r.is_chnkd \/ r.cnt_len = Unset
      <4>0. ~(~r.is_chnkd /\ r.cnt_len > r.body_limit)
        <5> HIDE DEF r
        <5>1. r.body_limit \in Nat
          BY <2>3, <2>4, <2>7, <3>4, LocationTyped DEF LocationType, LocatedAt
        <5> QED BY <3>5, <5>1 DEF Unset
      <4> QED BY <3>2, <3>5, <4>0
    <3>6. CASE ~(r.is_chnkd \/ r.cnt_len = Unset) /\ r.cnt_len > r.body_limit
      BY <3>2, <3>3, <3>6
    <3>7. CASE ~(r.is_chnkd \/ r.cnt_len = Unset) /\ ~(r.cnt_len > r.body_limit)
      BY <3>2, <3>7
    <3> QED BY <3>5, <3>6, <3>7
  <2>11. Located.body_read = 0 /\ chnkd = NewChnkd
    BY <2>3, LocatedTyped DEF UploadAccounted, FreshRequest
  <2> DEFINE r == [Located EXCEPT !.body_fd = g]
  <2>12. r \in ReqType /\ r.body_buf = 0 /\ r.body_read = 0
    BY <2>4, <2>11 DEF ReqType, FreeIn
  <2>13. disk'.stored = 0
    BY <2>10 DEF NewFile
  <2>14. req' = [r EXCEPT !.body_size = 0, !.cnt_len = Unset] \/ (req' = r /\ state' = "REQ_BODY")
    BY <2>10
  <2> HIDE DEF r
  <2>15. /\ req'.body_buf = 0 /\ req'.body_read = 0
         /\ state' # "REQ_BODY" => req'.body_size = 0
    BY <2>12, <2>14 DEF ReqType
  <2>16. chnkd' = chnkd /\ chnkd'.body = 0 /\ Ahead' = 0
    <3>1. chnkd' = chnkd
      BY <2>8 DEF res_for_post_put_req_
    <3> QED BY <2>11, <3>1 DEF NewChnkd, Ahead
  <2>17. InFile'
    BY <1>2, <2>9, <2>13, <2>15, <2>16 DEF InFile, Storing
  <2> QED BY <1>2, <2>17 DEF Stores, Filed
<1> QED BY <1>3, <1>4

-----------------------------------------------------------------------------
(* Steps on the body.                                                      *)

LEMMA BodyStores ==
  ASSUME TypeOK, TypeOK', talk.framed, Kept, Reads, Reads', Stores, state_req_body_ \/ CgiBody
  PROVE  Stores'
<1>1. PICK n : n = Upto(req.cnt_len - req.body_read)
  OBVIOUS
<1>2. /\ state \in Sized /\ peer' = peer /\ pos' = pos + n /\ disk' = disk /\ chnkd' = chnkd
      /\ state' \in {state, "REQ_HOLD"}
  BY <1>1 DEF state_req_body_, CgiBody, In, Sized, inputVars
<1>3. /\ req.is_chnkd = FALSE
      /\ IF req.body_read = req.cnt_len THEN Here.part = "between"
         ELSE Here.part = "body" /\ Here.left = req.cnt_len - req.body_read
  <2>1. req.is_chnkd \in BOOLEAN
    BY DEF TypeOK, ReqType
  <2> QED BY <1>2, <2>1 DEF Reads, Position, AtBody
<1>4. req.body_read \in Nat /\ req.cnt_len \in Int /\ Here.left \in Nat /\ pos \in Nat
  BY TypedPlace, InPlace DEF TypeOK, ReqType, SizeType, Unset
<1>5. /\ n \in Nat /\ (Here.part = "between" => n = 0)
      /\ n # 0 => Here.part = "body" /\ n <= Here.left
  <2>1. req.cnt_len - req.body_read \in Nat
    BY <1>3, <1>4
  <2>2. n \in Nat /\ n <= req.cnt_len - req.body_read
    BY <1>1, <2>1, TakeOK
  <2> QED BY <1>3, <1>4, <2>2
<1>6. Marks' /\ Got' = Got + n
  <2>1. CASE n = 0
    <3>1. pos' = pos /\ ~Fresh' /\ ~Fresh
      BY <1>2, <1>4, <2>1 DEF Fresh, Start, Sized
    <3>2. Got \in Nat
      BY <1>4, BodyCounted DEF Got
    <3> QED BY <1>2, <2>1, <3>1, <3>2, MarksStay DEF Stores
  <2>2. CASE n # 0
    <3>1. n \in 1 .. Here.left /\ Here.part = "body"
      BY <1>4, <1>5, <2>2
    <3>2. Here' = AfterBytes(Here, n) /\ Moves(pos', Here')
      BY <1>2, <3>1, BytesDue, HereNext DEF Moves
    <3>3. /\ Here'.n \in {Here.n, Here.n + 1} /\ Number(Here') = Number(Here)
          /\ Here'.part = "between" => Here'.n # Here.n
      BY <3>1, <3>2, TypedPlace, AfterBytesIs DEF Number
    <3>4. ~Fresh' /\ pos <= pos' /\ talk' = talk
      BY <1>2, <1>4, <1>5 DEF Fresh, Start, Sized, talk
    <3>5. Marks'
      BY <1>2, <3>2, <3>3, <3>4, MarksMove DEF Stores
    <3>6. Cardinality(BodyOf(talk, Number(Here), pos + n)) = Got + n
      BY <1>5, <2>2, BytesTake DEF Stores
    <3> QED BY <1>2, <3>3, <3>4, <3>5, <3>6 DEF Got
  <2> QED BY <2>1, <2>2
<1>7. CASE state_req_body_
  <2>1. fds' = fds /\ req' = [req EXCEPT !.body_buf = @ + n, !.body_read = @ + n]
    BY <1>1, <1>7 DEF state_req_body_
  <2>2. req'.is_chnkd = FALSE /\ req'.body_buf = req.body_buf + n /\ req.body_buf \in Nat
    BY <1>3, <2>1 DEF TypeOK, ReqType
  <2>3. NoUpload(fds) => NoUpload(fds')
    BY <2>1
  <2>4. InFile => InFile'
    <3>1. disk.stored \in Nat /\ Got \in Nat
      BY <1>4, BodyCounted DEF Got, TypeOK, DiskType
    <3>2. InFile => disk.stored + req.body_buf = Got
      BY <1>3 DEF InFile
    <3> QED BY <1>2, <1>5, <1>6, <2>2, <3>1, <3>2 DEF InFile
  <2> QED BY <1>6, <2>3, <2>4 DEF Stores, Filed
<1>8. CASE CgiBody
  <2>1. state = "REQ_CGI_BODY" /\ (fds' = fds \/ fds' = Watch(fds, cgi.wfd, "W"))
    BY <1>8 DEF CgiBody, In
  <2>2. NoUpload(fds)
    BY <2>1 DEF Reads, Holders, NoUpload, Storing
  <2>3. \A f \in Fd : fds'[f].kind = fds[f].kind
    BY <2>1, WatchKeeps DEF TypeOK
  <2>4. NoUpload(fds')
    BY <2>2, <2>3 DEF NoUpload
  <2> QED BY <1>6, <2>4 DEF Stores, Filed
<1> QED BY <1>7, <1>8

LEMMA SkipBodyStores ==
  ASSUME TypeOK, talk.framed, Reads, Reads', Stores, SkipBody
  PROVE  Stores'
<1>1. UNCHANGED <<peer, state>> /\ pos' = pos /\ state = "REQ_SKIP_BODY"
  BY SkipBodyReads DEF SkipBody, In, inputVars
<1> QED BY <1>1, MarksStay, NotFiling DEF Stores, Fresh, Storing

-----------------------------------------------------------------------------
(* Steps on chunks.                                                        *)

LEMMA ChunkDataStores ==
  ASSUME TypeOK, TypeOK', talk.framed, Kept, Reads, Reads', Stores, ChunkData \/ SkipChunkData
  PROVE  Stores'
<1>1. PICK n : n = Least(avail, chnkd.size - 2)
  OBVIOUS
<1>2. /\ state \in Chunks /\ chnkd.size > 2 /\ peer' = peer /\ pos' = pos + n /\ req' = req
      /\ disk' = disk /\ fds' = fds /\ state' = state
  BY <1>1 DEF ChunkData, SkipChunkData, InChunks, InSkip, In, Chunks, inputVars
<1>3. /\ Here.part = "data" /\ Here.left = chnkd.size - 2 /\ chnkd.size \in Nat /\ Here.left \in Nat
      /\ pos \in Nat
  <2>1. chnkd.size \in Nat /\ Here.left \in Nat /\ pos \in Nat
    BY TypedPlace, InPlace DEF TypeOK, ChnkdType
  <2> QED BY <1>2, <2>1 DEF Reads, Position, AtChunk
<1>4. n \in Nat /\ n <= Here.left
  BY <1>1, <1>3, TakeOK
<1>5. Cardinality(BodyOf(talk, Number(Here), pos + n)) = Got + n
  BY <1>3, <1>4, BytesTake DEF Stores
<1>6. Number(Here') = Number(Here) /\ talk' = talk /\ ~Fresh /\ ~Fresh'
  BY <1>2, ChunkDataReads DEF talk, Fresh, Start, Chunks
<1>7. Got' = Got + n
  BY <1>2, <1>5, <1>6 DEF Got
<1>8. Marks'
  <2>1. CASE n = 0
    <3>1. pos' = pos
      BY <1>2, <1>3, <2>1
    <3> QED BY <1>2, <1>6, <3>1, MarksStay DEF Stores
  <2>2. CASE n # 0
    <3>1. n \in 1 .. Here.left
      BY <1>3, <1>4, <2>2
    <3>2. Here' = AfterBytes(Here, n) /\ Moves(pos', Here')
      BY <1>2, <1>3, <3>1, BytesDue, HereNext DEF Moves
    <3>3. Here'.n = Here.n /\ Here'.part # "between"
      BY <1>3, <3>1, <3>2, TypedPlace, AfterBytesIs
    <3> QED BY <1>2, <1>3, <1>4, <1>6, <3>2, <3>3, MarksMove DEF Stores
  <2> QED BY <2>1, <2>2
<1>9. CASE state # "REQ_BODY_CHUNKED"
  <2>1. NoUpload(fds)
    BY <1>2, <1>9 DEF Reads, Holders, NoUpload, Storing, Chunks
  <2> QED BY <1>2, <1>8, <2>1 DEF Stores, Filed
<1>10. CASE state = "REQ_BODY_CHUNKED"
  <2>1. ChunkData
    BY <1>10 DEF SkipChunkData, InSkip, In
  <2>2. chnkd' = [chnkd EXCEPT !.size = @ - n, !.body = @ + n] /\ req.is_chnkd
    BY <1>1, <1>10, <2>1 DEF ChunkData, Reads, Position, ForWhom
  <2>3. chnkd'.size = chnkd.size - n /\ chnkd'.body = chnkd.body + n /\ chnkd.body \in Nat
    BY <2>2 DEF TypeOK, ChnkdType
  <2>4. disk.stored \in Nat /\ Got \in Nat
    BY <1>3, BodyCounted DEF Got, TypeOK, DiskType
  <2>5. Ahead = chnkd.size - 2 /\ Ahead' = chnkd.size - 2 - n
    BY <1>2, <1>3, <1>4, <2>3 DEF Ahead
  <2>6. InFile => InFile'
    BY <1>2, <1>3, <1>4, <1>7, <1>10, <2>2, <2>3, <2>4, <2>5 DEF InFile
  <2> QED BY <1>2, <1>8, <2>6 DEF Stores, Filed
<1> QED BY <1>9, <1>10

\* The CRLF after a chunk; after the last one, what was counted was taken.
LEMMA ChunkEndStores ==
  ASSUME TypeOK, TypeOK', UploadAccounted, talk.framed, Kept, Reads, Reads', Stores,
         ChunkEnd \/ SkipChunkEnd
  PROVE  Stores'
<1>0. /\ state \in Chunks /\ chnkd.size \in {1, 2} /\ peer' = peer /\ disk' = disk /\ fds' = fds
  BY SkipChunkEndReads DEF ChunkEnd, SkipChunkEnd, InChunks, InSkip, In, Chunks, inputVars
<1>1. /\ state \in Chunks /\ chnkd.size = 2 /\ peer' = peer /\ disk' = disk /\ fds' = fds
      /\ AfterChunk = [chnkd EXCEPT !.size = 0]
  BY <1>0, FramedChunk
<1>2. /\ Here.part = "crlf" /\ Here.last = chnkd.last /\ pos \in Nat
  BY <1>1, InPlace DEF Reads, Position, AtChunk
<1>3. talk.bytes[pos+1] = CR /\ talk.bytes[pos+2] = LF
  BY <1>2, ChunkOver DEF EmptyAt
<1>4. \/ UNCHANGED <<pos, state, req, chnkd>>
      \/ /\ pos' = pos + 2 /\ chnkd' = [chnkd EXCEPT !.size = 0]
         /\ IF chnkd.last
            THEN /\ req' = [req EXCEPT !.cnt_len = req.body_size]
                 /\ state' = IF state = "REQ_SKIP_BODY_CHUNKED" THEN "REQ_CLEAR" ELSE "REQ_HOLD"
            ELSE req' = req /\ state' = state
  BY <1>1, <1>3 DEF ChunkEnd, SkipChunkEnd, InChunks, InSkip, In
<1>5. CASE UNCHANGED <<pos, state, req, chnkd>>
  <2>1. SameStore
    BY <1>1, <1>5 DEF SameStore
  <2>2. Marks' /\ Got' = Got
    BY <1>1, <1>5, MarksStay DEF Stores, Fresh
  <2> QED BY <1>5, <2>1, <2>2, FiledStays DEF Stores
<1>6. CASE /\ pos' = pos + 2 /\ chnkd' = [chnkd EXCEPT !.size = 0]
           /\ IF chnkd.last
              THEN /\ req' = [req EXCEPT !.cnt_len = req.body_size]
                   /\ state' = IF state = "REQ_SKIP_BODY_CHUNKED" THEN "REQ_CLEAR" ELSE "REQ_HOLD"
              ELSE req' = req /\ state' = state
  <2>1. Here' = AfterEmptyLine(Here) /\ Moves(pos', Here')
    BY <1>1, <1>2, <1>6, ChunkOver, HereNext DEF Moves
  <2>2. /\ Number(Here') = Number(Here)
        /\ IF Here.last THEN Here'.part = "between" /\ Here'.n = Here.n + 1
           ELSE Here'.part = "size" /\ Here'.n = Here.n
    BY <1>2, <2>1, TypedPlace, AfterChunkIs DEF Number
  <2>3. talk' = talk /\ pos <= pos' /\ Here.n \in Nat
    BY <1>1, <1>2, <1>6, TypedPlace DEF talk
  <2>4. Fresh' => Here'.n # Here.n
    BY <1>1, <1>2, <1>6, <2>2, <2>3 DEF Fresh, Start, Chunks
  <2>5. Marks'
    BY <1>1, <2>1, <2>2, <2>3, <2>4, MarksMove DEF Stores
  <2>6. Got' = Got
    BY <1>2, <1>6, <2>2, <2>3, CrlfTakes DEF Got
  <2>7. CASE state # "REQ_BODY_CHUNKED"
    <3>1. NoUpload(fds)
      BY <1>1, <2>7 DEF Reads, Holders, NoUpload, Storing, Chunks
    <3> QED BY <1>1, <2>5, <3>1 DEF Stores, Filed
  <2>8. CASE state = "REQ_BODY_CHUNKED"
    <3>1. chnkd'.body = chnkd.body /\ chnkd'.size = 0 /\ Ahead = 0 /\ Ahead' = 0
      BY <1>1, <1>6 DEF TypeOK, ChnkdType, Ahead
    <3>2. /\ req'.is_chnkd = req.is_chnkd /\ req'.body_read = req.body_read
          /\ req'.body_size = req.body_size /\ req'.body_buf = req.body_buf
          /\ state' = "REQ_HOLD" => req'.cnt_len = req.body_size
      BY <1>6, <2>8 DEF TypeOK, ReqType
    <3>3. req.is_chnkd
      BY <2>8 DEF Reads, Position, ForWhom
    <3>4. Got \in Nat
      BY <1>2, BodyCounted DEF Got
    <3>5. InFile => InFile'
      BY <1>1, <2>6, <2>8, <3>1, <3>2, <3>3, <3>4 DEF InFile
    <3> QED BY <1>1, <2>5, <3>5 DEF Stores, Filed
  <2> QED BY <2>7, <2>8
<1> QED BY <1>4, <1>5, <1>6

LEMMA ChunkLineStores ==
  ASSUME TypeOK, TypeOK', talk.framed, Kept, Said, Reads, Reads', Stores,
         ChunkLine \/ SkipChunkLine
  PROVE  Stores'
<1>1. /\ state \in Chunks /\ chnkd.size = 0 /\ peer' = peer /\ pos' = line.end /\ pos \in Nat
  BY InPlace DEF ChunkLine, SkipChunkLine, AtChunkLine, InChunks, InSkip, In, Chunks, inputVars
<1>2. ~Fresh /\ ~Fresh'
  <2>1. SkipChunkLine => state' \in {state, "E_BAD_REQ"}
    BY DEF SkipChunkLine, BadChunk, InSkip, In
  <2>2. ChunkLine => ~Fresh'
    BY <1>1, ChunkLineReads DEF Fresh, Start, Chunks
  <2> QED BY <1>1, <2>1, <2>2 DEF Fresh, Start, Chunks
<1>3. CASE line.got # "line"
  <2>1. SkipChunkLine /\ line.end = pos
    BY <1>3, LineIs DEF ChunkLine, get_crlf_line_
  <2>2. state' = state /\ state = "REQ_SKIP_BODY_CHUNKED"
    BY <1>3, <2>1 DEF SkipChunkLine, InSkip, In
  <2> QED BY <1>1, <1>2, <2>1, <2>2, MarksStay, NotFiling DEF Stores, Storing
<1>4. CASE line.got = "line"
  <2>1. /\ line.text.t = "size" /\ line.text.n \in Nat /\ Here'.n = Here.n
        /\ Number(Here') = Number(Here) /\ Here'.part \in InChunk
        /\ line.text.n + 2 < Modulus /\ ReadSize(line.text.n) = line.text.n
    BY <1>1, <1>4, SizeRead
  <2>2. Here.part = "size"
    BY <1>1 DEF Reads, Position, AtChunk
  <2>3. talk' = talk /\ pos <= pos' /\ Moves(pos', Here') /\ Here'.part # "between"
    BY <1>1, <2>1, LineOK, HereNext DEF talk, TypeOK, Moves, InChunk
  <2>4. Marks'
    BY <1>1, <1>2, <2>1, <2>3, MarksMove DEF Stores
  <2>5. Got' = Got
    BY <1>1, <1>4, <2>1, <2>2, <2>3, LineTakes DEF Got
  <2>6. CASE state' # "REQ_BODY_CHUNKED"
    <3>1. \/ state' \notin Storing \cup {"REQ_HOLD"}
          \/ state = "REQ_CGI_BODY_CHUNKED" /\ state' = state
      <4>1. ChunkLine => state' \in {state, "REQ_SKIP_BODY_CHUNKED"}
        BY ChunkLineReads
      <4>2. SkipChunkLine => state' \in {state, "E_BAD_REQ"}
        BY DEF SkipChunkLine, BadChunk, InSkip, In
      <4> QED BY <1>1, <2>6, <4>1, <4>2 DEF Chunks, Storing
    <3> QED BY <2>4, <3>1, NotFiling DEF Stores, Storing
  <2>7. CASE state' = "REQ_BODY_CHUNKED"
    <3>1. ChunkLine /\ state = "REQ_BODY_CHUNKED" /\ req.is_chnkd
      <4>1. ChunkLine
        BY <2>7 DEF SkipChunkLine, BadChunk, InSkip, In
      <4>2. state = "REQ_BODY_CHUNKED"
        BY <2>7, <4>1, ChunkLineReads
      <4> QED BY <4>1, <4>2 DEF Reads, Position, ForWhom
    <3> DEFINE r == [req EXCEPT !.body_size = @ + ReadSize(line.text.n)]
    <3>2. WithinLimit(r)
      <4> SUFFICES ASSUME ~WithinLimit(r) PROVE FALSE
        OBVIOUS
      <4>1. state' = SkipState(r)
        BY <3>1 DEF ChunkLine, error_response_keep_alive_
      <4> QED BY <2>7, <4>1, SkipStateIn DEF Refused
    <3>3. /\ req' = r /\ fds' = fds /\ disk' = disk /\ chnkd' = NextChunk(ReadSize(line.text.n))
      BY <3>1, <3>2 DEF ChunkLine
    <3>4. /\ req'.is_chnkd = req.is_chnkd /\ req'.body_read = req.body_read
          /\ req'.body_size = req.body_size + line.text.n
      BY <2>1, <3>3 DEF TypeOK, ReqType
    <3>5. chnkd'.body = chnkd.body /\ chnkd'.size = line.text.n + 2
      <4>1. line.text.n \in 0 .. Modulus - 1
        BY <2>1, ModulusAssumption
      <4> QED BY <2>1, <3>3, <4>1, NextChunkIs
    <3>6. Ahead = 0 /\ Ahead' = line.text.n
      BY <1>1, <2>1, <3>5 DEF Ahead
    <3>7. Got \in Nat
      BY <1>1, BodyCounted DEF Got
    <3>8. InFile => InFile'
      BY <2>1, <2>5, <2>7, <3>1, <3>3, <3>4, <3>5, <3>6, <3>7 DEF InFile
    <3> QED BY <2>4, <3>3, <3>8 DEF Stores, Filed
  <2> QED BY <2>6, <2>7
<1> QED BY <1>3, <1>4

-----------------------------------------------------------------------------
(* The response, and the other descriptors.                                *)

LEMMA WriteStores ==
  ASSUME TypeOK, talk.framed, Kept, Said, Reads, Stores, write_response_
  PROVE  Stores'
<1>1. client_w /\ fds' = fds /\ UNCHANGED <<peer, pos>>
  BY DEF write_response_, WriteHeader, WriteBody, inputVars
<1>2. state' = state \/ (state # "REQ_SKIP_BODY_CHUNKED" /\ state' = "REQ_CLEAR")
  BY DEF write_response_, WriteHeader, WriteBody, ResponseDone, ResponseGoesOn
<1>3. AllFree(fds) /\ ~Fresh
  BY <1>1, WritingNow
<1>4. ~Fresh /\ Fresh' => Here.part = "between"
  BY <1>1, <1>2, WritingPlace DEF Fresh
<1>5. NoUpload(fds')
  BY <1>1, <1>3 DEF AllFree, NoUpload
<1> QED BY <1>1, <1>3, <1>4, <1>5, MarksStay DEF Stores, Filed

LEMMA WriteCgiStores ==
  ASSUME TypeOK, talk.framed, Kept, Said, Reads, Stores, NEW f \in Fd, write_to_cgi_(f)
  PROVE  Stores'
<1>1. fds[f].kind = "stdin"
  BY WriterKind DEF write_to_cgi_, Writable
<1>2. req.is_cgi /\ ~Fresh
  BY <1>1, Holding DEF StdinOwned
<1>3. NoUpload(fds)
  BY <1>2 DEF Kept, Owners, UploadOwned, NoUpload
<1>4. UNCHANGED <<peer, pos>> /\ state' \in {state, "REQ_HOLD"}
      /\ (fds' = fds \/ fds' = CloseFds(fds, {f}))
  BY DEF write_to_cgi_, inputVars
<1>5. NoUpload(fds')
  <2>1. \A g \in Fd : CloseFds(fds, {f})[g].kind \in {fds[g].kind, "free"}
    BY DEF CloseFds, FreeFd
  <2> QED BY <1>3, <1>4, <2>1 DEF NoUpload
<1>6. ~Fresh'
  BY <1>2, <1>4 DEF Fresh, Start
<1> QED BY <1>2, <1>4, <1>5, <1>6, MarksStay DEF Stores, Filed

\* What is stored waits no more; and when all of it is, all of it was taken.
LEMMA UploadStores ==
  ASSUME TypeOK, TypeOK', talk.framed, Kept, Said, Kept', Said', Reads, Stores,
         NEW f \in Fd, write_for_upload_(f)
  PROVE  Stores' /\ Acked
<1>1. fds[f].kind = "upload" /\ f = req.body_fd
  BY WriterKind DEF write_for_upload_, Writable
<1>2. ~Fresh /\ InFile /\ res = NewRes
  BY <1>1, Holding DEF Stores, Filed, NoUpload
<1>3. /\ UNCHANGED <<peer, pos>>
      /\ \/ res' = res /\ state' = state
         \/ state' \in {"REQ_HOLD", "E_BAD_REQ"} /\ Here.part = "between"
  BY UploadReads
<1>4. ~Fresh'
  BY <1>2, <1>3 DEF Fresh, Start
<1>5. Marks' /\ Got' = Got
  BY <1>2, <1>3, <1>4, MarksStay DEF Stores
<1> DEFINE left == IF req.is_chnkd THEN chnkd.body ELSE req.body_buf
           r(n) == IF req.is_chnkd THEN [req EXCEPT !.body_read = @ + n]
                   ELSE [req EXCEPT !.body_buf = @ - n]
<1>6. PICK n \in (IF left = 0 THEN {0} ELSE 1 .. left) :
        /\ req' = r(n)
        /\ chnkd' = IF req.is_chnkd THEN [chnkd EXCEPT !.body = @ - n] ELSE chnkd
        /\ disk' = [disk EXCEPT !.stored = @ + n, !.st = IF BodyStored(r(n)) THEN "whole" ELSE @]
        /\ IF BodyStored(r(n)) THEN UploadDone(f, r(n)) ELSE UNCHANGED <<state, fds, res, client_w>>
  BY DEF write_for_upload_
<1>7. /\ req \in ReqType /\ req.body_buf \in Nat /\ req.body_read \in Nat
      /\ chnkd \in ChnkdType /\ chnkd.body \in Nat /\ disk \in DiskType /\ disk.stored \in Nat
      /\ Got \in Nat /\ pos \in Nat
  BY InPlace, BodyCounted DEF TypeOK, ReqType, ChnkdType, DiskType, Got
<1>8. n \in Nat
  BY <1>6, <1>7
<1>9. /\ disk'.stored = disk.stored + n
      /\ disk'.st = IF BodyStored(req') THEN "whole" ELSE disk.st
  BY <1>6, <1>7 DEF DiskType
<1>10. /\ req'.is_chnkd = req.is_chnkd /\ req'.cnt_len = req.cnt_len
       /\ req'.body_size = req.body_size
       /\ req.is_chnkd => /\ req'.body_read = req.body_read + n /\ chnkd'.body = chnkd.body - n
                          /\ chnkd'.size = chnkd.size
       /\ ~req.is_chnkd => req'.body_buf = req.body_buf - n
  BY <1>6, <1>7 DEF ReqType, ChnkdType
<1>11. IF BodyStored(req') THEN UploadDone(f, req') ELSE UNCHANGED <<state, fds, res, client_w>>
  BY <1>6
<1> HIDE DEF r, left
<1>12. CASE ~BodyStored(req')
  <2>1. state' = state /\ fds' = fds /\ disk'.st = disk.st
    BY <1>9, <1>11, <1>12
  <2>2. InFile'
    <3>1. CASE req.is_chnkd
      <4>1. Ahead' = Ahead
        BY <1>10, <3>1 DEF Ahead
      <4>2. disk'.stored + chnkd'.body = Got' /\ req'.body_read = disk'.stored
        BY <1>2, <1>5, <1>7, <1>8, <1>9, <1>10, <3>1 DEF InFile
      <4> QED BY <1>2, <1>5, <1>10, <2>1, <3>1, <4>1, <4>2 DEF InFile
    <3>2. CASE ~req.is_chnkd
      <4>1. disk'.stored + req'.body_buf = Got'
        BY <1>2, <1>5, <1>7, <1>8, <1>9, <1>10, <3>2 DEF InFile
      <4> QED BY <1>10, <3>2, <4>1 DEF InFile
    <3> QED BY <3>1, <3>2
  <2> QED BY <1>5, <2>1, <2>2 DEF Stores, Filed, Acked
<1>13. CASE BodyStored(req')
  <2>1. client_w' /\ UploadDone(f, req') /\ req'.body_read = req'.cnt_len
        /\ (req'.is_chnkd \/ req'.body_buf = 0)
    BY <1>11, <1>13 DEF UploadDone, BodyStored
  <2>2. NoUpload(fds')
    BY <2>1 DEF Kept, Quiet, AllFree, NoUpload
  <2>3. Here.part = "between"
    <3> SUFFICES ASSUME res' = res, state' = state PROVE FALSE
      BY <1>3
    <3>1. res'.hdr = <<>> /\ ~res'.header_sent
      BY <1>2 DEF NewRes
    <3>2. Len(res'.hdr) = 1
      BY <2>1, <3>1 DEF Said, Writing, Headed
    <3> QED BY <3>1, <3>2
  <2>4. /\ Here.n \in Nat /\ Here.n > 0 /\ pos = talk.ends[Here.n] /\ Number(Here) = Here.n
        /\ Here.n <= Len(talk.ends)
    BY <1>2, <2>3, TypedPlace, InPlace DEF Stores, Marks, Number, AnswersAt
  <2>5. Got = BodyBytes(Here.n)
    BY <2>4 DEF Got, BodyOf, BodyBytes
  <2>6. disk'.stored = Got
    <3>1. CASE req.is_chnkd
      <4>1. state \in Storing \cup {"REQ_HOLD"}
        BY <1>1 DEF Reads, Holders
      <4>2. state # "REQ_BODY"
        BY <3>1 DEF Reads, Position, AtBody, Sized
      <4>3. state # "REQ_BODY_CHUNKED"
        <5> SUFFICES ASSUME state = "REQ_BODY_CHUNKED" PROVE FALSE
          OBVIOUS
        <5>1. req.cnt_len = -1
          BY DEF Reads, Position, ForWhom, Unset
        <5> QED BY <1>7, <1>8, <1>10, <2>1, <3>1, <5>1
      <4>4. req.cnt_len = Got /\ req.body_read = disk.stored
        BY <1>2, <3>1, <4>1, <4>2, <4>3 DEF InFile, Storing
      <4> QED BY <1>9, <1>10, <2>1, <3>1, <4>4
    <3>2. CASE ~req.is_chnkd
      <4>1. disk.stored + req.body_buf = Got /\ req.body_buf - n = 0
        BY <1>2, <1>10, <2>1, <3>2 DEF InFile
      <4> QED BY <1>7, <1>8, <1>9, <4>1
    <3> QED BY <3>1, <3>2
  <2>7. Len(talk.ends) \in Nat
    BY TalkTyped DEF TalkType
  <2>8. Here.n \in 1 .. Len(talk.ends)
    BY <2>4, <2>7
  <2>9. Acked
    BY <2>4, <2>5, <2>6, <2>8 DEF Acked
  <2> QED BY <1>5, <2>2, <2>9 DEF Stores, Filed
<1> QED BY <1>12, <1>13

-----------------------------------------------------------------------------
(* Every step.                                                             *)

LEMMA InitStores == ASSUME TypeOK, Init, talk.framed PROVE Stores
<1>1. pos = 0 /\ state = "REQ_LINE_PARSING"
  BY DEF Init
<1>2. Here = Opening
  BY <1>1, FramedTalk DEF WellFormed, Here, At
<1>3. Here.n = 0 /\ Fresh
  BY <1>1, <1>2 DEF Opening, Fresh, Start
<1>4. BodyOf(talk, Here.n + 1, pos) = {}
  BY <1>1 DEF BodyOf
<1>5. NoUpload(fds)
  BY DEF Init, FreeFd, NoUpload
<1> QED BY <1>3, <1>4, <1>5 DEF Stores, Marks, Filed

\* Nothing but write_for_upload_ completes a file.
LEMMA OthersNotWhole ==
  ASSUME TypeOK, Handled \/ HangUp \/ UNCHANGED vars, ~ \E f \in Fd : write_for_upload_(f)
  PROVE  Acked
<1>1. disk' = disk \/ disk'.st # "whole"
  <2>1. CASE res_for_post_put_req_
    <3>1. \A r : NewFile(r).st = "partial" /\ [NewFile(r) EXCEPT !.st = "removed"].st = "removed"
      BY DEF NewFile
    <3>2. \/ disk' = disk
          \/ \E r : disk' = NewFile(r) \/ disk' = [NewFile(r) EXCEPT !.st = "removed"]
      BY <2>1 DEF res_for_post_put_req_
    <3> QED BY <3>1, <3>2
  <2>2. CASE ChunkLine
    <3>1. disk' = disk \/ disk' = [disk EXCEPT !.st = "removed"]
      BY <2>2 DEF ChunkLine
    <3> QED BY <3>1 DEF TypeOK, DiskType
  <2>3. CASE HangUp
    <3>1. disk' = disk \/ disk' = [disk EXCEPT !.st = "removed"]
      BY <2>3 DEF HangUp
    <3> QED BY <3>1 DEF TypeOK, DiskType
  <2>4. CASE ~res_for_post_put_req_ /\ ~ChunkLine /\ ~HangUp
    BY <2>4 DEF vars, Handled, req_res_controller_, reset_, ReadMore, request_line_parser_,
         header_field_parser_, Route, BadHostRequest, NotServed, res_for_get_head_req_,
         res_for_delete_req_, do_cgi_, HeaderEnds, state_req_body_, CgiBody, SkipBody, HoldBody,
         ChunkedBody, FirstChunk, ChunkData, ChunkEnd, ChunkLineMissing, BadChunkLine,
         SkipChunkedBody, SkipChunkData, SkipChunkEnd, SkipChunkLine, read_to_client_buffer_,
         write_response_, WriteHeader, WriteBody, FdEvent, read_to_res_buffer_,
         read_to_cgi_buffer_, PipeEof, StdinEof, write_to_cgi_, proc_event_wait_pid
  <2> QED BY <2>1, <2>2, <2>3, <2>4
<1> QED BY <1>1 DEF Acked

LEMMA StepStores ==
  ASSUME TypeOK, TypeOK', UploadAccounted, talk.framed, Kept, Said, Kept', Said', Reads, Reads',
         Stores, Handled, ~proc_event_wait_pid
  PROVE  Stores' /\ Acked
<1>1. ASSUME NEW f \in Fd, write_for_upload_(f) PROVE Stores' /\ Acked
  BY <1>1, UploadStores
<1>2. CASE ~ \E f \in Fd : write_for_upload_(f)
  <2>1. Acked
    BY <1>2, OthersNotWhole
  <2>2. CASE ChunkedBody \/ SkipChunkedBody
    <3>1. ~BadChunkLine
      <4> SUFFICES ASSUME BadChunkLine PROVE FALSE
        OBVIOUS
      <4>1. /\ state \in Chunks /\ chnkd.size = 0 /\ line.got = "line" /\ line.text.t # "size"
            /\ peer' = peer /\ pos' = line.end
        BY DEF BadChunkLine, AtChunkLine, InChunks, In, Chunks, inputVars
      <4> QED BY <4>1, SizeRead
    <3>2. Stores'
      BY <2>2, <3>1, WaitingStores, ChunkDataStores, ChunkEndStores, ChunkLineStores
         DEF ChunkedBody, SkipChunkedBody
    <3> QED BY <2>1, <3>2
  <2>3. CASE req_res_controller_ /\ ~(ChunkedBody \/ SkipChunkedBody)
    <3>1. Stores'
      BY <2>3, ResetStores, WaitingStores, LineStores, RouteStores, BodyStores, SkipBodyStores
         DEF req_res_controller_
    <3> QED BY <2>1, <3>1
  <2>4. CASE read_to_client_buffer_ \/ write_response_
    BY <2>1, <2>4, WaitingStores, WriteStores
  <2>5. ASSUME NEW f \in Fd, FdEvent(f) PROVE Stores'
    BY <1>2, <2>5, WaitingStores, WriteCgiStores DEF FdEvent
  <2> QED BY <2>1, <2>2, <2>3, <2>4, <2>5 DEF Handled
<1> QED BY <1>1, <1>2

LEMMA StepAcked ==
  ASSUME TypeOK, TypeOK', UploadAccounted, talk.framed, OInv, OInv', Talked, Talked',
         pc # "gone" => Stores, [Next]_vars
  PROVE  (pc' # "gone" => Stores') /\ Acked
<1>1. CASE Handled
  <2>1. pc # "gone" /\ pc' # "gone"
    BY <1>1, Gone
  <2>2. Kept /\ Said /\ Kept' /\ Said' /\ Reads /\ Reads' /\ Stores
    BY <2>1 DEF OInv, Talked
  <2>3. ~proc_event_wait_pid
    BY <2>2 DEF Kept, proc_event_wait_pid
  <2> QED BY <1>1, <2>1, <2>2, <2>3, StepStores
<1>2. CASE HangUp
  <2>1. pc' = "gone" /\ pc = "wait"
    BY <1>2 DEF HangUp, Idle
  <2>2. ~ \E f \in Fd : write_for_upload_(f)
    BY <2>1 DEF write_for_upload_
  <2> QED BY <1>2, <2>1, <2>2, OthersNotWhole
<1>3. CASE UNCHANGED vars
  <2>1. UNCHANGED <<peer, pos, state, pc, fds, req, chnkd, disk>>
    BY <1>3 DEF vars, inputVars
  <2>2. Acked
    BY <2>1 DEF Acked
  <2>3. ASSUME pc # "gone" PROVE Stores'
    <3>1. Marks' /\ Got' = Got
      BY <2>1, <2>3, MarksStay DEF Stores, Fresh
    <3>2. SameStore
      BY <2>1 DEF SameStore
    <3> QED BY <2>1, <2>3, <3>1, <3>2, FiledStays DEF Stores
  <2> QED BY <2>1, <2>2, <2>3
<1> QED BY <1>1, <1>2, <1>3 DEF Next

-----------------------------------------------------------------------------
(* What holds of a conversation that is framed: a condition on the talk    *)
(* of the peer alone.                                                      *)

\* A framed conversation is orderly at every step, and at every moment what is
\* open, what is said, where in the talk the server reads and what it answered
\* agree: whatever the order of reads of the socket, the files and the pipes, of
\* writes and of a disconnect.
THEOREM TalkKept ==
  Spec => [](talk.framed => OInv /\ Talked) /\ [][talk.framed => Orderly]_vars
<1> DEFINE I == talk.framed => OInv /\ Talked
           Step == talk.framed => Orderly
<1>1. TypeOK /\ Init => I
  BY InitOrderly, InitTalked
<1>2. TypeOK /\ TypeOK' /\ UploadAccounted /\ I /\ [Next]_vars => I' /\ [Step]_vars
  BY StepTalked, SamePeer
<1> QED BY <1>1, <1>2, TypeCorrect, UploadBalances, PTL DEF Spec

\* No step of a framed conversation is disorderly: no byte of a body is taken for
\* a chunk-size line, no error page is begun for a request that is given to a
\* program, and every program that runs answers in form.
THEOREM FramedOrderly == Spec => FramedIsOrderly
BY TalkKept, PTL DEF FramedIsOrderly

\* The responses to a framed talk are the answers due, one a message and in the
\* order of the messages, however the bytes arrive and whatever is open.
THEOREM AnswersDue == Spec => []AnswersInOrder
<1>1. TypeOK /\ (talk.framed => OInv /\ Talked) => AnswersInOrder
  BY AnswersPrompt DEF Talked, Prompt, AnswersInOrder
<1> QED BY <1>1, TypeCorrect, TalkKept, PTL

\* When clear_ has prepared the next request of a framed conversation no
\* descriptor, no WRITE knote of the client, no failing child and no byte of
\* _body_buf is left of the last one.
THEOREM NothingStays == Spec => []NothingLeftBehind
<1>1. TypeOK /\ (talk.framed => OInv /\ Talked) => NothingLeftBehind
  BY OrderlyMeans DEF NothingLeftBehind
<1> QED BY <1>1, TypeCorrect, TalkKept, PTL

\* disconnect_client_ closes everything a framed conversation has open, whenever
\* the peer hangs up, and removes an upload that is not complete.
THEOREM HangUpCleans == Spec => []DisconnectCleansUp
<1>1. TypeOK /\ (talk.framed => OInv /\ Talked) => DisconnectCleansUp
  BY OrderlyMeans DEF DisconnectCleansUp
<1> QED BY <1>1, TypeCorrect, TalkKept, PTL

\* write_response_ sends exactly the body its header announced before the next
\* header, however short the writes are and wherever the body comes from.
THEOREM FramingHolds == Spec => []ResponsesWellFramed
<1>1. TypeOK /\ (talk.framed => OInv /\ Talked) => ResponsesWellFramed
  BY OrderlyMeans DEF ResponsesWellFramed, WellFramed
<1> QED BY <1>1, TypeCorrect, TalkKept, PTL

\* An upload of a framed conversation is acknowledged when the file has the whole
\* body of the message the server is at the end of, and nothing else: whatever the
\* order in which bytes are read, counted and stored, and however short the writes.
THEOREM AckedWhole == Spec => AckedUploadIsWhole
<1> DEFINE I == talk.framed => OInv /\ Talked
           J == talk.framed /\ pc # "gone" => Stores
           Step == talk.framed /\ disk.st # "whole" /\ disk'.st = "whole" =>
                     \E k \in 1 .. Len(talk.ends) : pos = talk.ends[k] /\ disk'.stored = BodyBytes(k)
<1>1. TypeOK /\ Init => J
  BY InitStores
<1>2. TypeOK /\ TypeOK' /\ UploadAccounted /\ I /\ I' /\ J /\ [Next]_vars => J' /\ [Step]_vars
  <2>1. [Next]_vars => (talk.framed => talk'.framed) /\ (talk'.framed => talk.framed)
    BY SamePeer
  <2> QED BY <2>1, StepAcked DEF Acked
<1>3. AckedUploadIsWhole <=> [][Step]_vars
  BY DEF AckedUploadIsWhole
<1> QED BY <1>1, <1>2, <1>3, TypeCorrect, UploadBalances, TalkKept, PTL DEF Spec
=============================================================================
