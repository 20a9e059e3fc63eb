---------------------------- MODULE MCChunkLine ----------------------------
(* Every request line of up to four tokens, and every one of up to ten that  *)
(* differs from a request line in its target, around its spaces or its end; *)
(* every chunk line of up to four tokens, every one of a size, the name of  *)
(* an extension and up to four more, and sizes of up to five digits.        *)
EXTENDS ChunkLine

Tokens == {"GET", "WORD", "SP", "/", "%", "?", "#", "hex", "alnum", "HTTP/1.1", "ctl"}
Strings(n) == UNION {[1 .. k -> Tokens] : k \in 0 .. n}
MCLines ==
    Strings(4)
    \union {<<m, "SP", "/">> \o s \o <<"SP", "HTTP/1.1">> \o tail :
               m \in {"GET", "WORD"}, s \in Strings(4), tail \in {<<>>, <<"hex">>}}

\* Binary sizes of three bits, with a limit that is well below and one that no
\* body reaches.
MCDigits == [d \in {"0", "1"} |-> IF d = "0" THEN 0 ELSE 1]
ChunkTokens == {"0", "1", "SP", "semicolon", "=", "quote", "name", "junk"}
ChunkStrings(n) == UNION {[1 .. k -> ChunkTokens] : k \in 0 .. n}
MCChunkLines ==
    ChunkStrings(4) \union {<<"1", "semicolon", "name", "=">> \o s : s \in ChunkStrings(4)}
    \union {<<"1">> \o s : s \in [1 .. 4 -> DOMAIN MCDigits]}
=============================================================================
