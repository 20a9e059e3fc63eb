---------------------------- MODULE RequestBytes ----------------------------
(***************************************************************************)
(* The bytes a peer sends, at the granularity the server tells them apart: *)
(* CR, LF, one body byte, and one symbol for the text of a line that the   *)
(* parsers accept (a request line, a header field they act on, a chunk     *)
(* size).  Any other text of a line is Junk.                               *)
(***************************************************************************)
EXTENDS Integers, Sequences

Sym(t, m, u, n) == [t |-> t, m |-> m, u |-> u, n |-> n]

CR           == Sym("cr", "", "", 0)
LF           == Sym("lf", "", "", 0)
Byte         == Sym("byte", "", "", 0)      \* a byte of a message body
Junk         == Sym("junk", "", "", 0)      \* text no parser accepts
Blank        == Sym("blank", "", "", 0)     \* the text of an empty line
ReqLine(m,u) == Sym("req", m, u, 0)         \* "<m> <u> HTTP/1.1"
Length(n)    == Sym("length", "", "", n)    \* Content-Length: n
Chunked      == Sym("te", "", "", 0)        \* Transfer-Encoding: chunked
Close        == Sym("close", "", "", 0)     \* Connection: close
BadHost      == Sym("badhost", "", "", 0)   \* a Host value with a blank in it
Field        == Sym("field", "", "", 0)     \* a header the server ignores
Size(n)      == Sym("size", "", "", n)      \* the size line of a chunk

Line(s)      == <<s, CR, LF>>
EmptyLine    == <<CR, LF>>

(***************************************************************************)
(* SpxBuffer::get_crlf_line_ on a buffer that holds b[p+1] .. b[r].  It    *)
(* answers "none" (no LF yet), "bare" (an LF that no CR precedes: returns  *)
(* -1 and consumes nothing) or "line"; only then is `end' where the line   *)
(* ends and `text' what it says.                                           *)
(***************************************************************************)
IsFirstLF(b, p, e) == b[e] = LF /\ \A i \in p+1 .. e-1 : b[i] # LF

get_crlf_line_(b, p, r) ==
  IF ~ \E e \in p+1 .. r : IsFirstLF(b, p, e)
  THEN [got |-> "none", end |-> p, text |-> Blank]
  ELSE LET e == CHOOSE e \in p+1 .. r : IsFirstLF(b, p, e)
       IN  IF e = p+1 \/ b[e-1] # CR
           THEN [got |-> "bare", end |-> p, text |-> Blank]
           ELSE [got  |-> "line", end |-> e,
                 text |-> CASE e = p+2 -> Blank
                            [] e = p+3 -> b[p+1]
                            [] OTHER   -> Junk]
=============================================================================
