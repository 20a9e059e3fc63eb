----------------------------- MODULE StartLine -----------------------------
(***************************************************************************)
(* spx_http_syntax_start_line (spx_syntax_checker.cpp) and its caller      *)
(* Client::request_line_check_: the switch that walks over a request line  *)
(* and, when it accepts, the target that is cut out of the line.           *)
(*                                                                         *)
(* A line is a sequence of tokens: a space, a slash, '%', '?', '#', a      *)
(* hexadecimal digit, another letter or digit ("alnum"), a run of capitals *)
(* (a method name or not), "HTTP/1.1", and an octet that is not printable. *)
(***************************************************************************)
EXTENDS Naturals, Sequences

CONSTANTS
    Lines,       \* the request lines get_crlf_line_ hands over
    MaxLength    \* 8192 octets in the code

(* No octet of a line is taken for the end of it, see At. *)
ASSUME StartLineAssumption ==
    Lines \subseteq Seq(STRING \ {"end"}) /\ MaxLength \in Nat

SUPPORTED == {"GET", "PUT", "POST", "HEAD", "DELETE"}

VARIABLES
    line, it,
    state,       \* where the switch stands; "returned" after it
    ret,         \* what spx_http_syntax_start_line returned
    req_type,
    _uri         \* _req._uri

vars == <<line, it, state, ret, req_type, _uri>>

At(i) == IF i <= Len(line) THEN line[i] ELSE "end"

(* The character tables of spx_core_type.hpp. (Mutation: the space among the *)
(* usual characters.)                                                        *)
alpha_upper_case_ == SUPPORTED \union {"WORD"}
digit_alpha_ == alpha_upper_case_ \union {"hex", "alnum"}
UsualAndSpace == digit_alpha_ \union {"/", "%", "?", "#", "HTTP/1.1", "SP"}
usual_ == digit_alpha_ \union {"/", "%", "?", "#", "HTTP/1.1"}

Past(i, table) ==
    CHOOSE j \in i .. Len(line) + 1 :
        /\ j > Len(line) \/ line[j] \notin table
        /\ \A k \in i .. j - 1 : line[k] \in table

Init ==
    /\ line \in Lines
    /\ it = 1
    /\ state = "start_line__start"
    /\ ret = "none" /\ req_type = "REQ_UNDEFINED"
    /\ _uri = <<>>

(* error_flag__ *)
Reject ==
    /\ ret' = "spx_error" /\ req_type' = "REQ_UNDEFINED"
    /\ state' = "returned"
    /\ UNCHANGED <<it, line, _uri>>

Goto(next, i) ==
    /\ state' = next /\ it' = i
    /\ UNCHANGED <<line, ret, _uri>>

start_line__start ==
    /\ state = "start_line__start"
    /\ \/ /\ Len(line) <= MaxLength /\ At(it) \in alpha_upper_case_
          /\ Goto("start_line__method", it) /\ UNCHANGED req_type
       \/ (Len(line) > MaxLength \/ At(it) \notin alpha_upper_case_) /\ Reject

start_line__method ==
    /\ state = "start_line__method"
    /\ LET after == Past(it, alpha_upper_case_)
           supported == after = it + 1 /\ At(it) \in SUPPORTED
       IN  \/ supported /\ req_type' = At(it) /\ Goto("start_line__sp_before_uri", after)
           \/ ~supported /\ Reject

start_line__sp_before_uri ==
    /\ state = "start_line__sp_before_uri"
    /\ \/ At(it) = "SP" /\ Goto("start_line__uri_start", it + 1) /\ UNCHANGED req_type
       \/ At(it) # "SP" /\ Reject

start_line__uri_start ==
    /\ state = "start_line__uri_start"
    /\ \/ At(it) = "/" /\ Goto("start_line__uri", it + 1) /\ UNCHANGED req_type
       \/ At(it) # "/" /\ Reject

(* The loop passes over everything of usual_, '%', '?' and '#' with it, so   *)
(* that of the switch behind it only the space and the default are entered. *)
start_line__uri ==
    /\ state = "start_line__uri"
    /\ LET i == Past(it, usual_)
       IN  \/ At(i) = "SP" /\ Goto("start_line__http_protocol_version", i + 1) /\ UNCHANGED req_type
           \/ At(i) # "SP" /\ Reject

start_line__http_protocol_version ==
    /\ state = "start_line__http_protocol_version"
    /\ \/ At(it) = "HTTP/1.1" /\ Goto("start_line__almost_done", it + 1) /\ UNCHANGED req_type
       \/ At(it) # "HTTP/1.1" /\ Reject

(* request_line_check_ takes what stands between the first and the last     *)
(* space of an accepted line.                                               *)
Spaces == {i \in DOMAIN line : line[i] = "SP"}
BetweenSpaces ==
    LET l_pos == CHOOSE i \in Spaces : \A j \in Spaces : i <= j
        r_pos == CHOOSE i \in Spaces : \A j \in Spaces : j <= i
    IN  SubSeq(line, l_pos + 1, r_pos - 1)

(* (Mutation: what follows the version is not looked at.) *)
AcceptAtOnce ==
    /\ state = "start_line__almost_done"
    /\ state' = "returned" /\ ret' = "spx_ok" /\ _uri' = BetweenSpaces
    /\ UNCHANGED <<line, it, req_type>>
start_line__almost_done ==
    /\ state = "start_line__almost_done"
    /\ \/ /\ At(it) = "end"
          /\ state' = "returned" /\ ret' = "spx_ok" /\ _uri' = BetweenSpaces
          /\ UNCHANGED <<line, it, req_type>>
       \/ At(it) # "end" /\ Reject

Next ==
    \/ start_line__start \/ start_line__method \/ start_line__sp_before_uri
    \/ start_line__uri_start \/ start_line__uri
    \/ start_line__http_protocol_version \/ start_line__almost_done

Spec == Init /\ [][Next]_vars
-----------------------------------------------------------------------------
(***************************************************************************)
(* Properties                                                              *)
(***************************************************************************)

(* Method SP target SP HTTP/1.1, the target a slash and printable octets.   *)
HasTheShape ==
    /\ Len(line) \in 5 .. MaxLength
    /\ line[1] \in SUPPORTED /\ line[2] = "SP" /\ line[3] = "/"
    /\ \A i \in 4 .. Len(line) - 2 : line[i] \in usual_
    /\ line[Len(line) - 1] = "SP" /\ line[Len(line)] = "HTTP/1.1"

(* Behind every '%' stand two letters or digits. (Whether they are          *)
(* hexadecimal is not asked, and any run of capitals will do.)              *)
PercentMatched ==
    \A i \in DOMAIN line :
        line[i] = "%" => \/ At(i + 1) \in alpha_upper_case_
                         \/ {At(i + 1), At(i + 2)} \subseteq digit_alpha_

(* The lines of the grammar.                                                *)
IsRequestLine == HasTheShape /\ PercentMatched

(* Every request line of the grammar is accepted with the method it names,  *)
(* and nothing is accepted that differs from one in more than its percent   *)
(* encoding; in particular the walk does not read past the end of a line    *)
(* that stops early, and nothing follows the version.                       *)
AcceptsTheGrammar ==
    state = "returned" =>
        /\ IsRequestLine => ret = "spx_ok"
        /\ ret = "spx_ok" => HasTheShape
        /\ req_type = IF ret = "spx_ok" THEN line[1] ELSE "REQ_UNDEFINED"

(* The comment "% HEXDIG HEXDIG process" and the error "unmatched percent   *)
(* encoding" of the case '%': a '%' without two octets behind it that a     *)
(* code could be made of is refused. The code accepts it.                   *)
PercentEncodingMatched == state = "returned" /\ ret = "spx_ok" => PercentMatched

(* The walk and request_line_check_ find the target independently; they     *)
(* agree: what is cut out between the spaces begins with the slash the walk *)
(* saw, holds no space and is followed by the version only.                 *)
UriIsTheTarget ==
    state = "returned" /\ ret = "spx_ok" =>
        /\ _uri # <<>> /\ _uri[1] = "/"
        /\ \A i \in DOMAIN _uri : _uri[i] # "SP"
        /\ line = <<req_type, "SP">> \o _uri \o <<"SP", "HTTP/1.1">>
=============================================================================
