----------------------------- MODULE ByteQueue ------------------------------
(***************************************************************************)
(* What a pair of SpxBuffers promises its users: two queues of bytes.      *)
(* Bytes come from the network into buf, move in order to body, and leave  *)
(* body for a descriptor; lines are taken from the front of buf.  A byte   *)
(* is its position in Input, so that no two are alike.                     *)
(***************************************************************************)
EXTENDS Integers, Sequences

CONSTANTS
  Input,      \* the bytes: "cr", "lf" or anything else
  MaxLine     \* a line found beyond so many bytes may be ignored

VARIABLES
  taken,      \* how many bytes of Input have been taken
  buf, body,  \* the two queues
  result      \* what the latest operation answered, see SpxBuffer

vars == <<taken, buf, body, result>>

Upto(n)     == [i \in 1 .. n |-> taken + i]
Drop(q, n)  == SubSeq(q, n + 1, Len(q))

Answer(kind, bytes) == [kind |-> kind, bytes |-> bytes]
Done == Answer("done", <<>>)

Init == taken = 0 /\ buf = <<>> /\ body = <<>> /\ result = Done

Take ==
  \E n \in 1 .. Len(Input) - taken :
    /\ taken' = taken + n
    /\ \/ buf' = buf \o Upto(n) /\ UNCHANGED body
       \/ body' = body \o Upto(n) /\ UNCHANGED buf
    /\ result' = Done

Move ==
  \E n \in 1 .. Len(buf) :
    /\ body' = body \o SubSeq(buf, 1, n) /\ buf' = Drop(buf, n)
    /\ result' = Done /\ UNCHANGED taken

Delete ==
  \E n \in 1 .. Len(buf) :
    buf' = Drop(buf, n) /\ result' = Done /\ UNCHANGED <<taken, body>>

Write ==
  \E n \in 1 .. Len(body) :
    /\ result' = Answer("write", SubSeq(body, 1, n)) /\ body' = Drop(body, n)
    /\ UNCHANGED <<taken, buf>>

Clear == body' = <<>> /\ result' = Done /\ UNCHANGED <<taken, buf>>

IsLF(q, i)      == Input[q[i]] = "lf"
IsFirstLF(q, p) == IsLF(q, p) /\ \A i \in 1 .. p - 1 : ~IsLF(q, i)

\* The first LF is at p.  What precedes it, without the CR if there is one, is
\* the line.  A bare LF ends a line only for get_lf_line_, and an LF at the
\* very front never does.
GetLine ==
  \/ /\ \A p \in 1 .. Len(buf) : IsFirstLF(buf, p) => p > MaxLine
     /\ result' = Answer("none", <<>>) /\ UNCHANGED buf
  \/ \E p \in 1 .. Len(buf) :
       /\ IsFirstLF(buf, p)
       /\ LET cr == p > 1 /\ Input[buf[p-1]] = "cr"
          IN  \/ /\ p > 1
                 /\ result' = Answer("line", SubSeq(buf, 1, IF cr THEN p - 2 ELSE p - 1))
                 /\ buf' = Drop(buf, p)
              \/ ~cr /\ result' = Answer("bare", <<>>) /\ UNCHANGED buf

Next == \/ Take \/ Move \/ Delete \/ Write \/ Clear
        \/ GetLine /\ UNCHANGED <<taken, body>>

Spec == Init /\ [][Next]_vars
=============================================================================
