---------------------------- MODULE MCConnection ----------------------------
(***************************************************************************)
(* Connection on a small site: eight locations, bodies of up to three bytes, *)
(* and the conversations a peer may hold with it.  Modulus is 6 in the     *)
(* configurations: a chunk of 4 or 5 bytes is one of 2^32 - 2 or 2^32 - 1. *)
(***************************************************************************)
EXTENDS Connection, SequencesExt

MCTargets == {"page", "empty", "dir", "store", "script", "moved", "secret", "nowhere"}

Loc(allow, kind, size) ==
  [found |-> TRUE, allow |-> allow, cgi |-> FALSE, redirect |-> FALSE,
   autoindex |-> FALSE, limit |-> 3, kind |-> kind, size |-> size]

MCLocation ==
  [u \in MCTargets |->
     CASE u = "page"    -> Loc({"GET", "HEAD", "DELETE"}, "file", 2)
       [] u = "empty"   -> [Loc({"GET", "POST"}, "file", 0) EXCEPT !.limit = 99]
       [] u = "dir"     -> [Loc({"GET", "POST"}, "dir", 1) EXCEPT !.autoindex = TRUE]
       [] u = "store"   -> [Loc({"POST", "PUT", "DELETE"}, "missing", 0) EXCEPT !.limit = 2]
       [] u = "script"  -> [Loc({"GET", "POST"}, "file", 1) EXCEPT !.cgi = TRUE]
       [] u = "moved"   -> [Loc({"GET"}, "file", 1) EXCEPT !.redirect = TRUE]
       [] u = "secret"  -> Loc({"GET", "HEAD", "POST"}, "denied", 1)
       [] u = "nowhere" -> [Loc({}, "missing", 0) EXCEPT !.found = FALSE]]

\* Messages: a request line, header lines, an empty line, a body.
Msg(m, u, headers, body) == Line(ReqLine(m, u)) \o headers \o EmptyLine \o body
Bytes(n)  == [i \in 1 .. n |-> Byte]
Chunk(n)  == Line(Size(n)) \o Bytes(n) \o EmptyLine

\* What a size the server cannot count lets the peer send after it, and the
\* server still read on: nothing, or any two bytes and all but two of the rest.
Wraps0    == Line(Size(4))
Wraps1    == Line(Size(5)) \o EmptyLine \o Bytes(3) \o EmptyLine

Get(u)    == Msg("GET", u, <<>>, <<>>)
Sized(m, u, n)        == Msg(m, u, Line(Length(n)), Bytes(n))
InChunks_(m, u, body) == Msg(m, u, Line(Chunked), body \o Chunk(0))

PlainScript(out)  == [form |-> "plain", out |-> out, reads |-> TRUE, fails |-> FALSE]
LengthScript(out) == [form |-> "length", out |-> out, reads |-> FALSE, fails |-> TRUE]
DeadScript        == [form |-> "none", out |-> 0, reads |-> FALSE, fails |-> TRUE]

PatientScripts == {PlainScript(2)}
FailingScripts == {PlainScript(1), LengthScript(1), DeadScript}
AllScripts     == PatientScripts \cup FailingScripts

\* A conversation of at most three messages, cut everywhere.
Talk(msgs, answers) ==
  LET part(i) == IF i <= Len(msgs) THEN msgs[i] ELSE <<>>
      bytes   == part(1) \o part(2) \o part(3)
  IN  [bytes |-> bytes, cuts |-> 1 .. Len(bytes), answers |-> answers,
       ends |-> SubSeq(<<Len(part(1)), Len(part(1) \o part(2)), Len(bytes)>>, 1, Len(msgs)),
       scripts |-> PatientScripts, faults |-> {}, framed |-> TRUE]

\* The peer may hang up in it.
Fickle(t) == [t EXCEPT !.faults = {"hangup"}]

\* Some of its messages are not what the server keeps the framing of.
Unframed(t) == [t EXCEPT !.framed = FALSE]

\* Nor is any fork sure to succeed in it, or any script.
Odd(t) == [Unframed(t) EXCEPT !.scripts = FailingScripts, !.faults = {"fork"}]

\* Cut only where it makes a difference to the framing: at a message's end,
\* before its last line, and after any byte of its body.
Coarse(t) ==
  [t EXCEPT !.cuts = {i \in 1 .. Len(t.bytes) :
                        \/ i \in Range(t.ends) \/ i + 2 \in Range(t.ends)
                        \/ t.bytes[i] = Byte}]

Each(Op(_), talks) == [i \in DOMAIN talks |-> Op(talks[i])]

\* Requests whose framing the server keeps: bodies only where it reads them.
AnsweredTalks ==
  << Talk(<<Get("page"), Get("empty"), Get("dir")>>, <<200, 200, 200>>),
     Talk(<<Msg("HEAD", "page", <<>>, <<>>), Msg("DELETE", "page", Line(Close), <<>>)>>, <<200, 200>>),
     Talk(<<Get("nowhere"), Get("store"), Get("moved")>>, <<404, 405, 301>>),
     Talk(<<Get("secret"), Msg("HEAD", "secret", <<>>, <<>>)>>, <<403, 403>>),
     Talk(<<Sized("POST", "store", 2), Get("page")>>, <<200, 200>>),
     Talk(<<InChunks_("PUT", "store", Chunk(1) \o Chunk(1)), Get("empty")>>, <<200, 200>>),
     Talk(<<Get("script"), Sized("POST", "script", 2), Get("page")>>, <<200, 200, 200>>),
     Talk(<<InChunks_("POST", "script", Chunk(2)), Get("page")>>, <<200, 200>>) >>

\* After a refused chunked upload the next request may stall (see README).
RefusedUploads ==
  << Talk(<<InChunks_("POST", "store", Chunk(2) \o Chunk(1)), Get("page")>>, <<413, 200>>),
     Talk(<<InChunks_("POST", "dir", Chunk(1)), Get("page")>>, <<404, 200>>),
     Talk(<<InChunks_("POST", "nowhere", Chunk(1)), InChunks_("PUT", "store", Chunk(1))>>, <<404, 200>>) >>

\* Chunked bodies of requests that take none, bodies of no byte, headers that
\* come twice and empty lines before a request.
UnusualTalks ==
  << Talk(<<InChunks_("GET", "page", Chunk(1)), InChunks_("GET", "script", Chunk(1)),
            Sized("POST", "script", 0)>>, <<200, 200, 200>>),
     Talk(<<InChunks_("DELETE", "page", Chunk(1)), InChunks_("PUT", "store", <<>>),
            InChunks_("POST", "script", <<>>)>>, <<200, 200, 200>>),
     Talk(<<EmptyLine \o Sized("PUT", "store", 1), InChunks_("HEAD", "page", Chunk(1)),
            EmptyLine \o InChunks_("DELETE", "store", Chunk(1))>>, <<200, 200, 404>>),
     Talk(<<Sized("PUT", "nowhere", 0),
            Msg("PUT", "store", Line(Length(2)) \o Line(Close) \o Line(Length(1)), Bytes(1)),
            Sized("POST", "store", 0)>>, <<404, 200, 200>>) >>

OrderlyTalks == AnsweredTalks \o RefusedUploads \o UnusualTalks

\* Anything else a peer may send: lines that do not parse, bodies of the wrong
\* size or where none is read, chunks that break off.
StrangeTalks ==
  << Talk(<<Line(Junk), Get("page")>>, <<400, 200>>),
     Talk(<<EmptyLine \o Msg("GET", "page", Line(BadHost), <<>>)>>, <<400>>),
     Talk(<<Msg("GET", "page", Line(Field), <<LF>>), <<LF>>, Get("page")>>, <<200, 200>>),
     Talk(<<Line(ReqLine("GET", "moved")) \o <<Field, LF>>, EmptyLine>>, <<301>>),
     Talk(<<Sized("GET", "page", 2), Get("script")>>, <<200, 200>>),
     Talk(<<InChunks_("GET", "dir", Wraps0), Get("page")>>, <<200, 200>>),
     Talk(<<Msg("GET", "page", Line(Chunked), Line(Size(1)) \o Bytes(3)), Get("page")>>, <<200, 400>>),
     Talk(<<Sized("POST", "store", 3), Get("page")>>, <<416, 200>>),
     Talk(<<Sized("PUT", "store", 1) \o <<Byte>>, Line(Junk)>>, <<200, 400>>),
     Talk(<<Sized("DELETE", "store", 1), Get("page")>>, <<404, 200>>),
     Talk(<<Msg("POST", "empty", <<>>, Wraps0 \o Chunk(1) \o Chunk(0))>>, <<200>>),
     Talk(<<InChunks_("POST", "store", Chunk(2) \o Chunk(1)), Sized("PUT", "store", 2)>>, <<413, 200>>),
     Talk(<<InChunks_("DELETE", "empty", Wraps1), Get("page")>>, <<405, 200>>) >>

\* Conversations in which a CGI script and its pipes outlive the request.
ScriptTalks ==
  << Talk(<<InChunks_("POST", "script", Chunk(3) \o Chunk(1)), Sized("PUT", "store", 2)>>, <<413, 200>>),
     Talk(<<Sized("POST", "script", 1), Sized("PUT", "store", 1), Sized("PUT", "store", 1)>>,
          <<200, 200, 200>>),
     Talk(<<Msg("POST", "store", Line(Chunked), Line(Size(2)) \o Bytes(4) \o Line(Junk)),
            Sized("POST", "script", 1)>>, <<400, 200>>),
     Talk(<<InChunks_("GET", "script", Chunk(1)), Sized("DELETE", "page", 0)>>, <<200, 200>>),
     Talk(<<InChunks_("POST", "empty", Wraps1)>>, <<200>>) >>

RefusedTalks == << Unframed(Talk(<<Sized("POST", "dir", 2), Get("page")>>, <<404, 200>>)) >>
BadRequestTalks == << Unframed(Talk(<<Line(Junk), Get("page")>>, <<400>>)) >>
ScriptTalk == << [Unframed(Talk(<<Get("script")>>, <<500>>)) EXCEPT !.scripts = {DeadScript}] >>

\* Strange requests are cut everywhere, conversations with scripts coarsely.
OddTalks == StrangeTalks \o Each(Coarse, ScriptTalks)
AllTalks == Each(Fickle, OrderlyTalks) \o Each(Odd, OddTalks)

AnsweredPeers == DOMAIN AnsweredTalks
AllPeers      == DOMAIN AllTalks
OnePeer       == {1}

NoErrorPage == NoPage
FdSymmetry  == Permutations(Fd)
=============================================================================
