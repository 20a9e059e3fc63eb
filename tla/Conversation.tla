---------------------------- MODULE Conversation ----------------------------
(***************************************************************************)
(* The site a connection serves, what its peers send, and what they are    *)
(* due: a reading of a conversation that knows nothing of the server, only *)
(* of RFC 7230's framing and of the configuration.                         *)
(*                                                                         *)
(* A talk is "framed" when it is a sequence of whole requests, each with a *)
(* body only where the server reads one and no chunk longer than it can    *)
(* count, and when nothing else fails.  For those talks the server's own,  *)
(* incremental reading must agree with this one, wherever the bytes are    *)
(* cut.                                                                    *)
(***************************************************************************)
EXTENDS RequestBytes

CONSTANTS
  Targets,    \* what a request line can name
  Location,   \* [Targets -> what get_uri_location_t_ and stat find there]
  NoTarget,   \* before a request line has been read
  Scripts,    \* what CGI children may do
  NoScript,
  Peers,      \* the peers a connection may have
  Talks,      \* [Peers -> what that peer sends], see TalkType
  Modulus     \* 2^32: the server counts a chunk, with its CRLF, in a uint32_t

Unset  == -1                                                  \* SIZE_T_MAX

Methods == {"GET", "HEAD", "POST", "PUT", "DELETE"}
Bodiless == {"GET", "HEAD", "DELETE"}

Kinds == {"file",      \* a regular file of Location[u].size bytes
          "dir",       \* a directory whose listing has that many bytes
          "missing",   \* nothing there, but it can be created
          "denied"}    \* exists and cannot be opened

LocationType ==
  [found : BOOLEAN, allow : SUBSET Methods, cgi : BOOLEAN, redirect : BOOLEAN,
   autoindex : BOOLEAN, limit : Nat, kind : Kinds, size : Nat]

\* A script writes `out' bytes after its header block: `form' is "plain",
\* "length" (the block has a Content-Length) or "none" (no header block the
\* parser accepts).  `reads': it reads its input to the end before it answers.
\* `fails': its exit status is 1, which NOTE_EXITSTATUS reports as 256.
ScriptType ==
  [form : {"plain", "length", "none"}, out : Nat, reads : BOOLEAN, fails : BOOLEAN]

SymbolType ==
  [t : {"req"}, m : Methods, u : Targets, n : Nat] \cup
  [t : {"cr", "lf", "byte", "junk", "blank", "length", "te", "close", "badhost", "field",
        "size"},
   m : {""}, u : {""}, n : Nat]

\* The bytes, the positions at which the network may cut them, where each
\* message ends, the statuses the messages should be answered with, what the
\* scripts they run do, what fails meanwhile, and whether the talk is framed.
TalkType ==
  [bytes : Seq(SymbolType), cuts : SUBSET Nat, ends : Seq(Nat), answers : Seq(Nat),
   scripts : SUBSET Scripts, faults : SUBSET {"fork", "hangup"}, framed : BOOLEAN]

ASSUME LocationAssumption == Location \in [Targets -> LocationType]
ASSUME ScriptsAssumption  == Scripts \subseteq ScriptType /\ NoScript \notin Scripts
ASSUME TalksAssumption    == Talks \in [Peers -> TalkType]
ASSUME ModulusAssumption  == Modulus \in Nat /\ 4 < Modulus

-----------------------------------------------------------------------------
(* The places of a conversation: between messages, in the header of one,   *)
(* in a body of known length, before a chunk-size line, in the data of a   *)
(* chunk or before the CRLF after it; or inside a line.  A place knows how *)
(* many messages have ended (n), what the message at hand, or the last one *)
(* that ended, asks for and how it is framed, how much is left of its body *)
(* or chunk, how much its chunks announce in total and whether the one at  *)
(* hand is the last.                                                       *)

Parts == {"between", "head", "body", "size", "data", "crlf", "inside"}
InChunk == {"size", "data", "crlf"}

PlaceType ==
  [part : Parts, n : Nat, m : Methods \cup {"NONE"}, u : Targets \cup {NoTarget},
   length : Nat \cup {Unset}, te : BOOLEAN, left : Nat, total : Nat, last : BOOLEAN]

Opening == [part |-> "between", n |-> 0, m |-> "NONE", u |-> NoTarget, length |-> Unset,
            te |-> FALSE, left |-> 0, total |-> 0, last |-> FALSE]
Inside  == [Opening EXCEPT !.part = "inside"]
Over(p) == [p EXCEPT !.part = "between", !.n = @ + 1, !.left = 0]

AfterText(p, s) ==
  CASE p.part = "between" -> [Opening EXCEPT !.part = "head", !.n = p.n, !.m = s.m, !.u = s.u]
    [] p.part = "head"    -> [p EXCEPT !.length = IF s.t = "length" THEN s.n ELSE @,
                                       !.te = @ \/ s.t = "te"]
    [] p.part = "size"    -> [p EXCEPT !.part = IF s.n = 0 THEN "crlf" ELSE "data",
                                       !.left = s.n, !.total = @ + s.n, !.last = s.n = 0]
    [] OTHER              -> Inside

AfterEmptyLine(p) ==
  CASE p.part = "between"                -> p
    [] p.part = "head" /\ p.te           -> [p EXCEPT !.part = "size"]
    [] p.part = "head" /\ ~p.te          -> IF p.length > 0
                                            THEN [p EXCEPT !.part = "body", !.left = p.length]
                                            ELSE Over(p)
    [] p.part = "crlf"                   -> IF p.last THEN Over(p) ELSE [p EXCEPT !.part = "size"]
    [] OTHER                             -> Inside

AfterBytes(p, k) ==
  CASE k < p.left                      -> [p EXCEPT !.left = @ - k]
    [] k = p.left /\ p.part = "body"   -> Over(p)
    [] k = p.left /\ p.part = "data"   -> [p EXCEPT !.part = "crlf", !.left = 0]
    [] OTHER                           -> Inside

\* The place after every byte of b.
Reading(b) ==
  LET at[i \in 0 .. Len(b)] ==
        CASE i = 0                                                  -> Opening
          [] i > 0 /\ b[i] = Byte                                   -> AfterBytes(at[i-1], 1)
          [] i > 1 /\ b[i] = LF /\ at[i-2].part # "inside"          -> AfterEmptyLine(at[i-2])
          [] i > 2 /\ b[i] = LF /\ at[i-2].part = "inside"          -> AfterText(at[i-3], b[i-2])
          [] OTHER                                                  -> Inside
  IN  at

Readings == [p \in Peers |-> Reading(Talks[p].bytes)]

-----------------------------------------------------------------------------
(* What a message is due.                                                  *)

Allowed(p)  == Location[p.u].found /\ p.m \in Location[p.u].allow
ToScript(p) == Allowed(p) /\ Location[p.u].cgi /\ p.m # "DELETE"
ToFile(p)   == /\ Allowed(p) /\ ~ToScript(p) /\ p.m \in {"POST", "PUT"}
               /\ Location[p.u].kind \in {"file", "missing"}
TooLong(p)  == p.te /\ ToFile(p) /\ p.total > Location[p.u].limit

Shown(loc) ==
  CASE loc.kind = "denied"  -> 403
    [] loc.kind = "file"    -> 200
    [] loc.kind = "dir"     -> IF loc.autoindex THEN 200 ELSE 404
    [] loc.kind = "missing" -> IF loc.autoindex THEN 403 ELSE 404

Due(p) ==
  LET loc == Location[p.u]
      Moved(status) == IF loc.redirect THEN 301 ELSE status
  IN  CASE ~loc.found                     -> 404
        [] loc.found /\ p.m \notin loc.allow -> 405
        [] ToScript(p)                    -> 200
        [] Allowed(p) /\ ~ToScript(p) /\ p.m \in {"GET", "HEAD"} -> Moved(Shown(loc))
        [] Allowed(p) /\ ~ToScript(p) /\ p.m = "DELETE" ->
             IF loc.kind = "file" THEN Moved(200) ELSE 404
        [] Allowed(p) /\ ~ToScript(p) /\ p.m \in {"POST", "PUT"} ->
             IF ~ToFile(p) THEN 404 ELSE IF TooLong(p) THEN 413 ELSE Moved(200)

-----------------------------------------------------------------------------
(* Framed talks.                                                           *)

\* A header whose body the server reads: chunked, or of a length that its
\* target takes.
Fit(p) ==
  /\ p.te => p.length = Unset
  /\ p.m \notin Bodiless /\ ~p.te => p.length # Unset
  /\ ~p.te /\ p.length > 0 =>
       /\ p.m \notin Bodiless
       /\ ToScript(p) \/ (ToFile(p) /\ p.length <= Location[p.u].limit)

TextsAt(part) ==
  CASE part = "between" -> {"req"}
    [] part = "head"    -> {"length", "te", "close", "field"}
    [] part = "size"    -> {"size"}
    [] OTHER            -> {}

TextAt(b, i)  == i + 3 <= Len(b) /\ b[i+2] = CR /\ b[i+3] = LF
EmptyAt(b, i) == i + 2 <= Len(b) /\ b[i+1] = CR /\ b[i+2] = LF

\* q is the place at j, and if a message ends there the talk says so.
Reaches(t, at, i, j, q) == at[j] = q /\ (q.n # at[i].n => t.ends[q.n] = j)

\* What follows the place at i has the form it must have, and is read so.
ReadsOn(t, at, i) ==
  LET p == at[i]
      b == t.bytes
  IN  \/ p.part = "inside"
      \/ p.part = "between" /\ i = Len(b)
      \/ /\ p.part \in {"between", "head", "crlf"} /\ EmptyAt(b, i)
         /\ p.part = "head" => Fit(p)
         /\ Reaches(t, at, i, i + 2, AfterEmptyLine(p))
      \/ /\ TextAt(b, i) /\ b[i+1].t \in TextsAt(p.part)
         /\ p.part = "size" => b[i+1].n + 2 < Modulus
         /\ Reaches(t, at, i, i + 3, AfterText(p, b[i+1]))
      \/ /\ p.part \in {"body", "data"} /\ p.left > 0 /\ i + p.left <= Len(b)
         /\ \A k \in 1 .. p.left :
              b[i+k] = Byte /\ Reaches(t, at, i, i + k, AfterBytes(p, k))

\* The answers are those the messages are due: one that is not read, or is too
\* long, from the moment that is known; any other when it has ended.
AnswersAt(t, p) ==
  CASE p.part = "inside"  -> TRUE
    [] p.part = "between" -> /\ p.n <= Len(t.answers) /\ p.n <= Len(t.ends)
                             /\ p.n > 0 => t.answers[p.n] = Due(p)
    [] OTHER              -> /\ p.n < Len(t.answers) /\ p.n < Len(t.ends)
                             /\ p.part \in InChunk /\ (~ToFile(p) \/ TooLong(p)) =>
                                  t.answers[p.n+1] = Due(p)

\* A script's input keeps to the limit of its location.
ScriptFed(p) ==
  p.te /\ p.part \in InChunk /\ ToScript(p) /\ p.m \notin Bodiless =>
    p.total <= Location[p.u].limit

WellFormed(t, at) ==
  /\ at \in [0 .. Len(t.bytes) -> PlaceType] /\ at[0] = Opening
  /\ \A i \in 0 .. Len(t.bytes) :
       ReadsOn(t, at, i) /\ AnswersAt(t, at[i]) /\ ScriptFed(at[i])

ASSUME FramedAssumption ==
  \A p \in Peers : Talks[p].framed =>
    /\ WellFormed(Talks[p], Readings[p])
    /\ "fork" \notin Talks[p].faults
    /\ \A s \in Talks[p].scripts : s.reads /\ ~s.fails /\ s.form # "length"
=============================================================================
