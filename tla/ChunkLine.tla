----------------------------- MODULE ChunkLine -----------------------------
(***************************************************************************)
(* spx_chunked_syntax_start_line (spx_syntax_checker.cpp), which walks over *)
(* the line in front of a chunk, and what chunked_body_ and                *)
(* skip_chunked_body_ (spx_cgi_chunked.cpp) make of the size it returns.   *)
(* The lines of StartLine are walked over here as well: which of the two   *)
(* functions is called is settled by the line chosen.                      *)
(*                                                                         *)
(* A chunk line is a sequence of tokens: a digit, white space, a semicolon, *)
(* an equals sign, a quotation mark, a name, and an octet no name holds.   *)
(***************************************************************************)
EXTENDS StartLine

CONSTANTS
    ChunkLines,
    Digits,       \* the tokens that are digits of a size, a function to their values
    Base,         \* 16 in the code
    Modulus,      \* 2^32: chunk_size and _chnkd_size are uint32_t
    BodyLimits,   \* of locations; one without client_max_body_size has 2^64 - 1
    BodyBefore    \* octets of the chunks before the one at hand

ASSUME ChunkLineAssumption ==
    /\ ChunkLines \subseteq Seq(STRING \ {"end"}) /\ "end" \notin DOMAIN Digits
    /\ Base \in Nat /\ Modulus \in Nat /\ 2 < Modulus
    /\ BodyLimits \subseteq Nat /\ BodyBefore \subseteq Nat
    /\ \A d \in DOMAIN Digits : Digits[d] \in 0 .. Base - 1

VARIABLES
    chunk_size,
    f_quoted_open,   \* its bit 2
    chunk_ext,       \* whether an extension went into _req._header
    skipping,        \* the caller is skip_chunked_body_
    _body_limit,
    _body_size,      \* of the chunks before
    _chnkd_size      \* what the caller counts down from

chunkVars == <<chunk_size, f_quoted_open, chunk_ext, skipping, _body_limit, _body_size,
               _chnkd_size>>
allVars   == <<vars, chunkVars>>

hexdigit_   == DOMAIN Digits
ows_        == {"SP"}
name_token_ == DOMAIN Digits \union {"name"}

\* operator>> stops at the largest number there is.
Value(digits) ==
    LET v[k \in 0 .. Len(digits)] == IF k = 0 THEN 0 ELSE Base * v[k - 1] + Digits[digits[k]]
    IN  v[Len(digits)]
Least(a, b)   == IF a < b THEN a ELSE b
Read(digits)  == Least(Value(digits), Modulus - 1)

ChunkInit ==
    /\ _body_limit \in BodyLimits
    /\ \/ Init /\ skipping = FALSE /\ _body_size = 0
       \/ /\ line \in ChunkLines /\ it = 1
          /\ state = "chunked_start"
          /\ ret = "none" /\ req_type = "REQ_UNDEFINED" /\ _uri = <<>>
          /\ skipping \in BOOLEAN
          /\ _body_size \in BodyBefore /\ (skipping \/ _body_size <= _body_limit)
    /\ chunk_size = 0 /\ f_quoted_open = FALSE /\ chunk_ext = FALSE
    /\ _chnkd_size = 0

-----------------------------------------------------------------------------
To(next, i) ==
    /\ Goto(next, i)
    /\ UNCHANGED <<req_type, f_quoted_open, skipping, _body_limit, _body_size, _chnkd_size>>

\* error__
ChunkError ==
    /\ ret' = "spx_error" /\ state' = "chunk_returned"
    /\ UNCHANGED <<line, it, req_type, _uri, chunk_size, f_quoted_open, chunk_ext, skipping,
                   _body_limit, _body_size, _chnkd_size>>

chunked_start ==
    /\ state = "chunked_start"
    /\ \/ At(it) \in hexdigit_ /\ To("chunked_size", it) /\ UNCHANGED <<chunk_size, chunk_ext>>
       \/ At(it) \notin hexdigit_ /\ ChunkError

\* The only way to spx_ok: nothing follows the size.
chunked_size ==
    /\ state = "chunked_size"
    /\ LET after == Past(it, hexdigit_)
       IN  \/ /\ At(after) \in {"end", "semicolon"} \union ows_
              /\ chunk_size' = Read(SubSeq(line, it, after - 1))
              /\ it' = after
              /\ \/ At(after) = "end" /\ state' = "chunk_returned" /\ ret' = "spx_ok"
                 \/ At(after) = "semicolon" /\ state' = "chunked_semicolon" /\ UNCHANGED ret
                 \/ At(after) \in ows_ /\ state' = "chunked_BWS_before_ext" /\ UNCHANGED ret
              /\ UNCHANGED <<line, req_type, _uri, f_quoted_open, chunk_ext, skipping,
                             _body_limit, _body_size, _chnkd_size>>
           \/ At(after) \notin {"end", "semicolon"} \union ows_ /\ ChunkError

chunked_BWS_before_ext ==
    /\ state = "chunked_BWS_before_ext"
    /\ LET after == Past(it, ows_)
       IN  \/ At(after) = "semicolon" /\ To("chunked_semicolon", after) /\ UNCHANGED <<chunk_size, chunk_ext>>
           \/ At(after) # "semicolon" /\ ChunkError

\* A semicolon or an equals sign, and the white space behind it.
chunked_semicolon ==
    /\ state = "chunked_semicolon"
    /\ LET after == Past(it + 1, ows_)
       IN  \/ At(after) # "end" /\ To("chunked_ext_name", after) /\ UNCHANGED <<chunk_size, chunk_ext>>
           \/ At(after) = "end" /\ ChunkError

\* A name, and white space before what follows it.
chunked_ext_name ==
    /\ state = "chunked_ext_name"
    /\ LET after == Past(Past(it, name_token_), ows_)
       IN  \/ /\ At(after) = "=" /\ To("chunked_equal", after)
              /\ UNCHANGED <<chunk_size, chunk_ext>>
           \/ /\ At(after) = "semicolon" /\ To("chunked_semicolon", after)
              /\ chunk_ext' = TRUE /\ UNCHANGED chunk_size
           \/ At(after) \notin {"=", "semicolon"} /\ ChunkError

chunked_equal ==
    /\ state = "chunked_equal"
    /\ LET after == Past(it + 1, ows_)
       IN  \/ /\ At(after) = "quote" /\ Goto("chunked_ext_quoted_open", after)
              /\ f_quoted_open' = FALSE
              /\ UNCHANGED <<req_type, chunk_size, chunk_ext, skipping, _body_limit, _body_size,
                             _chnkd_size>>
           \/ /\ At(after) \notin {"quote", "end"} /\ To("chunked_ext_value", after)
              /\ UNCHANGED <<chunk_size, chunk_ext>>
           \/ At(after) = "end" /\ ChunkError

chunked_ext_quoted_open ==
    /\ state = "chunked_ext_quoted_open"
    /\ Goto("chunked_ext_value", it + 1)
    /\ f_quoted_open' = (f_quoted_open \/ At(it) = "quote")
    /\ UNCHANGED <<req_type, chunk_size, chunk_ext, skipping, _body_limit, _body_size,
                   _chnkd_size>>

\* Where a value ends, with the extension put into the header.
AfterValue(i) ==
    /\ \/ At(i) \in ows_ /\ To("chunked_BWS_before_ext", i)
       \/ At(i) = "semicolon" /\ To("chunked_semicolon", i)
       \/ At(i) = "end" /\ To("chunked_almost_done", i)
    /\ chunk_ext' = TRUE /\ UNCHANGED chunk_size

chunked_ext_value ==
    /\ state = "chunked_ext_value"
    /\ LET after == Past(it, name_token_)
       IN  \/ AfterValue(after)
           \/ /\ At(after) = "quote"
              /\ To(IF f_quoted_open THEN "chunked_ext_quoted_close" ELSE "chunked_ext_quoted_open",
                    after)
              /\ UNCHANGED <<chunk_size, chunk_ext>>
           \/ At(after) \notin {"quote", "semicolon", "end"} \union ows_ /\ ChunkError

chunked_ext_quoted_close ==
    /\ state = "chunked_ext_quoted_close"
    /\ f_quoted_open' = FALSE
    /\ UNCHANGED <<req_type, chunk_size, skipping, _body_limit, _body_size, _chnkd_size>>
    /\ \/ /\ At(it + 1) \in name_token_ \union {"quote"}
          /\ Goto(IF At(it + 1) = "quote" THEN "chunked_ext_quoted_open" ELSE "chunked_ext_value", it + 1)
          /\ UNCHANGED chunk_ext
       \/ /\ At(it + 1) \in {"semicolon", "end"} \union ows_
          /\ Goto(CASE At(it + 1) = "semicolon"   -> "chunked_semicolon"
                    [] At(it + 1) = "end" -> "chunked_almost_done"
                    [] OTHER              -> "chunked_BWS_before_ext", it + 1)
          /\ chunk_ext' = TRUE
       \/ /\ At(it + 1) \notin name_token_ \union {"quote", "semicolon", "end"} \union ows_
          /\ ret' = "spx_error" /\ state' = "chunk_returned" /\ it' = it + 1
          /\ UNCHANGED <<line, _uri, chunk_ext>>

\* Falls through into the default of the switch, which is an error.
chunked_almost_done == state = "chunked_almost_done" /\ ChunkError

Walk ==
    \/ chunked_start \/ chunked_size \/ chunked_BWS_before_ext \/ chunked_semicolon
    \/ chunked_ext_name \/ chunked_equal \/ chunked_ext_quoted_open \/ chunked_ext_value
    \/ chunked_ext_quoted_close \/ chunked_almost_done

-----------------------------------------------------------------------------
(* The caller.                                                               *)

BodySizeBefore(size) == _body_size      \* mutant: the chunk at hand is not counted
BodySizeWith(size)   == _body_size + size

\* chunked_body_ refuses a body over its limit, skip_chunked_body_ no body.
Within(size) == skipping \/ BodySizeWith(size) <= _body_limit

Caller ==
    /\ state = "chunk_returned"
    /\ \/ /\ ret = "spx_ok" /\ Within(chunk_size)
          /\ state' = "chunk"
          /\ _body_size' = BodySizeWith(chunk_size)
          /\ _chnkd_size' = (chunk_size + 2) % Modulus
       \/ /\ ret = "spx_ok" /\ ~Within(chunk_size)
          /\ state' = "too_large"
          /\ _body_size' = BodySizeWith(chunk_size)
          /\ _chnkd_size' = (chunk_size + 2) % Modulus
       \/ /\ ret = "spx_error"
          /\ state' = "bad_request"
          /\ UNCHANGED <<_body_size, _chnkd_size>>
    /\ UNCHANGED <<line, it, ret, req_type, _uri, chunk_size, f_quoted_open, chunk_ext, skipping,
                   _body_limit>>

ChunkNext ==
    \/ Next /\ UNCHANGED chunkVars
    \/ Walk
    \/ Caller

ChunkSpec == ChunkInit /\ [][ChunkNext]_allVars

-----------------------------------------------------------------------------
(* A chunk is only begun for a line that is a size and nothing else, and    *)
(* unless its body is thrown away for one that fits the limit. A size that  *)
(* is two below the width of an integer, and under a limit that is two      *)
(* below it every size, is counted in full, with the two octets behind the  *)
(* chunk: neither the size that is read nor the sum has wrapped. (Without   *)
(* such a limit, or when the body is thrown away, the two largest numbers   *)
(* do wrap, and nothing is said of them.) An extension never gets into the  *)
(* header of a request that goes on.                                        *)
CountedInFull == _chnkd_size = Value(line) + 2
ChunkCounted ==
    state = "chunk" =>
        /\ line # <<>> /\ \A i \in DOMAIN line : line[i] \in hexdigit_
        /\ ~chunk_ext
        /\ ~skipping => _body_size <= _body_limit
        /\ \/ Value(line) + 2 < Modulus
           \/ ~skipping /\ _body_limit + 2 < Modulus
           => CountedInFull
=============================================================================
