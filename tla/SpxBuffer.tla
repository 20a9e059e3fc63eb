----------------------------- MODULE SpxBuffer ------------------------------
(***************************************************************************)
(* class SpxBuffer and class SpxReadBuffer: chains of heap blocks.  buf is *)
(* the _buf of a client, body a buffer that bytes are moved to (_body_buf, *)
(* _chnkd_body, _to_cgi) and that is written to a descriptor; rdbuf is the *)
(* read buffer all clients share.  Blocks change hands when bytes move, so *)
(* each must have one owner and be freed once.                             *)
(*                                                                         *)
(* The heap maps the address of each live block to its contents.  A byte   *)
(* is its position in Input.                                               *)
(***************************************************************************)
EXTENDS Integers, Sequences, FiniteSets, Functions

CONSTANTS
  Input,      \* what arrives: "cr", "lf" or anything else
  BufSize,    \* BUFFER_SIZE, the size of a block of the read buffer
  VecSize,    \* IOV_VEC_SIZE, the number of its blocks
  IovMax,     \* IOV_MAX, how many blocks one writev takes
  MaxLine     \* the `size' argument of get_crlf_line_ and get_lf_line_
ASSUME SizeAssumption == /\ Input \in Seq(STRING)
                         /\ {BufSize, VecSize, IovMax} \subseteq Nat \ {0} /\ MaxLine \in Nat

VARIABLES
  taken,      \* how many bytes of Input have arrived
  heap,       \* [addresses of live blocks -> Seq(bytes)]
  rdbuf,      \* _rdbuf: a sequence of iovecs
  buf, body,  \* the two buffers
  result      \* what the latest operation answered its caller

vars == <<taken, heap, rdbuf, buf, body, result>>

\* An answer: how a call for a line ended ("none", "bare", "line"), "write" or
\* nothing of interest, and the bytes handed over.
Answer(kind, bytes) == [kind |-> kind, bytes |-> bytes]
Done == Answer("done", <<>>)

Garbage == 0                                     \* what new char[n] holds
Iov(base, len) == [base |-> base, len |-> len]

\* pp is _partial_point: the bytes of the first block that are used up.
Empty == [iov |-> <<>>, size |-> 0, pp |-> 0]

-----------------------------------------------------------------------------
(* Blocks and chains.                                                      *)

Fresh(h)        == CHOOSE a \in 1 .. Cardinality(DOMAIN h) + 1 : a \notin DOMAIN h
New(h, data)    == [a \in DOMAIN h \union {Fresh(h)} |-> IF a \in DOMAIN h THEN h[a] ELSE data]
Bases(iovs)     == {iovs[k].base : k \in 1 .. Len(iovs)}
Free(h, iovs)   == Restrict(h, DOMAIN h \ Bases(iovs))

\* The bytes of the k-th block that are in the buffer: those of the first one
\* begin at push_front_addr_().
Slice(h, b, k) ==
  LET from == IF k = 1 THEN b.pp ELSE 0
  IN  SubSeq(h[b.iov[k].base], from + 1, from + b.iov[k].len)

\* The length of the first k blocks, and the bytes in them.
LenUpto(iovs, k) ==
  LET sum[i \in 0 .. Len(iovs)] == IF i = 0 THEN 0 ELSE sum[i - 1] + iovs[i].len IN sum[k]
BytesUpto(h, b, k) ==
  LET bytes[i \in 0 .. Len(b.iov)] == IF i = 0 THEN <<>> ELSE bytes[i - 1] \o Slice(h, b, i)
  IN  bytes[k]

\* How many blocks the loops `while (tmp_size >= it->iov_len)' pass.
Whole(iovs, n) == CHOOSE k \in 0 .. Len(iovs) :
                    /\ LenUpto(iovs, k) <= n
                    /\ k = Len(iovs) \/ LenUpto(iovs, k + 1) > n

\* delete_size_for_move_: the first n bytes leave, no block is freed.
SkipFresh(b, n) ==      \* mutant: _partial_point is set, not advanced
  IF n >= b.size THEN Empty
  ELSE LET k    == Whole(b.iov, n)
           left == n - LenUpto(b.iov, k)
       IN  [iov  |-> <<[b.iov[k+1] EXCEPT !.len = @ - left]>> \o SubSeq(b.iov, k + 2, Len(b.iov)),
            size |-> b.size - n, pp |-> left]

delete_size_for_move_(b, n) ==
  IF n >= b.size THEN Empty
  ELSE LET k    == Whole(b.iov, n)
           left == n - LenUpto(b.iov, k)
       IN  [iov  |-> <<[b.iov[k+1] EXCEPT !.len = @ - left]>> \o SubSeq(b.iov, k + 2, Len(b.iov)),
            size |-> b.size - n,
            pp   |-> IF k = 0 THEN b.pp + left ELSE left]

\* delete_size_: the same, and the blocks passed are freed.
Passed(b, n) == IF n >= b.size THEN b.iov ELSE SubSeq(b.iov, 1, Whole(b.iov, n))
delete_size_(h, b, n) == [heap |-> Free(h, Passed(b, n)), b |-> delete_size_for_move_(b, n)]

\* n bytes in whole blocks, at the end of b.
Extended(b, iovs, n) == [b EXCEPT !.iov = @ \o iovs, !.size = @ + n]

PushBackUncounted(b, v) == [b EXCEPT !.iov = Append(@, v)]   \* mutant: _buf_size is left
push_back(b, v) == [b EXCEPT !.iov = Append(@, v), !.size = @ + v.len]

\* A copy of the first n bytes of the first block, at the end of `to'.
copy(h, from, to, k, n) ==
  [heap |-> New(h, SubSeq(Slice(h, from, k), 1, n)), to |-> push_back(to, Iov(Fresh(h), n))]

-----------------------------------------------------------------------------
(* move_: the new heap and both buffers.                                   *)

\* Whole blocks change hands, and what is left of n is copied from the next.
\* (After move_partial_case_ `size - del_size' of them.)
Give(h, from, to, n) ==
  LET k     == Whole(from.iov, n)
      left  == n - LenUpto(from.iov, k)
      given == Extended(to, SubSeq(from.iov, 1, k), n - left)
  IN  IF left = 0 THEN [heap |-> h, to |-> given] ELSE copy(h, from, given, k + 1, left)

GiveAndFree(h, from, to, n) ==      \* mutant: delete_size_ instead of delete_size_for_move_
  LET c == Give(h, from, to, n)  d == delete_size_(c.heap, from, n)
  IN  [heap |-> d.heap, to |-> c.to, from |-> d.b]
move_nonpartial_case_(h, from, to, n) ==
  LET c == Give(h, from, to, n)
  IN  [heap |-> c.heap, to |-> c.to, from |-> delete_size_for_move_(from, n)]

\* The first block of `from' is partly used up: it cannot be given away.
move_partial_case_(h, from, to, n) ==
  LET first == from.iov[1].len
  IN  IF n < first
      THEN LET c == copy(h, from, to, 1, n)
           IN  [heap |-> c.heap, to |-> c.to, from |-> delete_size_for_move_(from, n)]
      ELSE LET c == copy(h, from, to, 1, first)
               d == delete_size_(c.heap, from, first)
           IN  IF n = first THEN [heap |-> d.heap, to |-> c.to, from |-> d.b]
               ELSE move_nonpartial_case_(d.heap, d.b, c.to, n - first)

Moved(h, from, to, n) ==
  IF from.pp > 0 THEN move_partial_case_(h, from, to, n)
  ELSE move_nonpartial_case_(h, from, to, n)

-----------------------------------------------------------------------------
(* Lines.                                                                  *)

\* find_pos_(LF, MaxLine): the position is compared with the limit only once
\* the first block has been searched.
LFs(h, b, k) == {i \in 1 .. b.iov[k].len : Input[Slice(h, b, k)[i]] = "lf"}
First(S)     == CHOOSE i \in S : \A j \in S : i <= j
find_pos_(h, b) ==
  LET found == {k \in 1 .. Len(b.iov) : LFs(h, b, k) # {}}
      k == First(found)
      p == LenUpto(b.iov, k - 1) + First(LFs(h, b, k)) - 1
  IN  IF found = {} \/ (k > 1 /\ p > MaxLine) THEN -1 ELSE p

pos_val_(h, b, pos) ==
  LET k == Whole(b.iov, pos) IN Slice(h, b, k + 1)[pos - LenUpto(b.iov, k) + 1]

\* get_str_ copies from block after block, the last one in part.
get_str_(h, b, n) ==
  LET k    == Whole(b.iov, n)
      left == n - LenUpto(b.iov, k)
      part == IF left = 0 THEN <<>> ELSE SubSeq(Slice(h, b, k + 1), 1, left)
  IN  BytesUpto(h, b, k) \o part

\* Takes a line of n bytes and the e bytes that end it: two deletions.
TakeLine(n, e) ==
  LET d == delete_size_(heap, buf, n)
      f == delete_size_(d.heap, d.b, e)
  IN  /\ result' = Answer("line", get_str_(heap, buf, n))
      /\ heap' = f.heap /\ buf' = f.b

NoLine(kind) == result' = Answer(kind, <<>>) /\ UNCHANGED <<heap, buf>>

\* get_crlf_line_ (lf = FALSE) and get_lf_line_ (lf = TRUE).
GetLine(lf) ==
  /\ buf.iov # <<>>
  /\ LET p == find_pos_(heap, buf)
     IN  CASE p = -1 -> NoLine("none")
           [] p = 0  -> NoLine("bare")
           [] p > 0 /\ Input[pos_val_(heap, buf, p - 1)] = "cr" -> TakeLine(p - 1, 2)
           [] OTHER  -> IF lf THEN TakeLine(p, 1) ELSE NoLine("bare")
  /\ UNCHANGED <<taken, rdbuf, body>>

-----------------------------------------------------------------------------
(* The operations.                                                         *)

\* set_empty_buf_: new blocks until there are VecSize of them.
Refill(st) ==
  IF Len(st.rdbuf) = VecSize THEN st
  ELSE [rdbuf |-> Append(st.rdbuf, Iov(Fresh(st.heap), BufSize)),
        heap  |-> New(st.heap, [j \in 1 .. BufSize |-> Garbage])]
set_empty_buf_ ==
  LET st[i \in 0 .. VecSize] == IF i = 0 THEN [rdbuf |-> rdbuf, heap |-> heap] ELSE Refill(st[i - 1])
  IN  st[VecSize]

Least(a, b) == IF a <= b THEN a ELSE b
BlocksLess(n)  == n \div BufSize        \* mutant: the block that is partly filled stays behind
Blocks(n)      == (n + BufSize - 1) \div BufSize

\* readv fills the blocks in order; those it has put bytes in go to a buffer,
\* the last of them only as long as it was filled.
read_ ==
  \E n \in 1 .. Least(VecSize * BufSize, Len(Input) - taken) :
    LET st       == set_empty_buf_
        data(i)  == [j \in 1 .. BufSize |-> LET k == (i - 1) * BufSize + j
                                            IN  IF k <= n THEN taken + k ELSE Garbage]
        block(a) == CHOOSE i \in 1 .. VecSize : st.rdbuf[i].base = a
        filled   == [i \in 1 .. VecSize |->
                       IF i = n \div BufSize + 1 /\ n % BufSize # 0
                       THEN [st.rdbuf[i] EXCEPT !.len = n % BufSize] ELSE st.rdbuf[i]]
        gone     == SubSeq(filled, 1, Blocks(n))
    IN  /\ taken' = taken + n
        /\ heap' = [a \in DOMAIN st.heap |-> IF \E i \in 1 .. VecSize : st.rdbuf[i].base = a
                                             THEN data(block(a)) ELSE st.heap[a]]
        /\ rdbuf' = SubSeq(filled, Blocks(n) + 1, VecSize)
        /\ result' = Done
        /\ \/ buf' = Extended(buf, gone, n) /\ UNCHANGED body
           \/ body' = Extended(body, gone, n) /\ UNCHANGED buf

move_ ==
  \E n \in 1 .. buf.size :
    LET m == Moved(heap, buf, body, n)
    IN  /\ heap' = m.heap /\ buf' = m.from /\ body' = m.to
        /\ result' = Done /\ UNCHANGED <<taken, rdbuf>>

delete_ ==
  \E n \in 1 .. buf.size :
    LET d == delete_size_(heap, buf, n)
    IN  /\ heap' = d.heap /\ buf' = d.b
        /\ result' = Done /\ UNCHANGED <<taken, rdbuf, body>>

\* writev takes at most IovMax blocks, and may take less.
write_ ==
  \E n \in 1 .. LenUpto(body.iov, Least(IovMax, Len(body.iov))) :
    LET d == delete_size_(heap, body, n)
    IN  /\ heap' = d.heap /\ body' = d.b
        /\ result' = Answer("write", get_str_(heap, body, n))
        /\ UNCHANGED <<taken, rdbuf, buf>>

add_str ==
  \E n \in 1 .. Len(Input) - taken :
    /\ taken' = taken + n
    /\ heap' = New(heap, [i \in 1 .. n |-> taken + i])
    /\ body' = push_back(body, Iov(Fresh(heap), n))
    /\ result' = Done /\ UNCHANGED <<rdbuf, buf>>

clear_ ==
  /\ heap' = Free(heap, body.iov) /\ body' = Empty
  /\ result' = Done /\ UNCHANGED <<taken, rdbuf, buf>>

Init ==
  /\ taken = 0 /\ heap = <<>> /\ rdbuf = <<>> /\ buf = Empty /\ body = Empty
  /\ result = Done

Next == \/ read_ \/ move_ \/ delete_ \/ write_ \/ add_str \/ clear_
        \/ \E lf \in BOOLEAN : GetLine(lf)

Spec == Init /\ [][Next]_vars

-----------------------------------------------------------------------------

Iovs == rdbuf \o buf.iov \o body.iov

\* Every live block has exactly one owner, and every owner's block is live: no
\* block is freed twice, used after it was freed, or leaked.  (A short move
\* copies, a long one gives blocks away, and only deletions free.)
OneOwner ==
  /\ Cardinality(Bases(Iovs)) = Len(Iovs)
  /\ Bases(Iovs) = DOMAIN heap

\* The counts agree with the chains: a client's framing decisions rest on
\* buf_size_(), its data on the chain.
Chained(b) ==
  /\ b.size = LenUpto(b.iov, Len(b.iov))
  /\ \A k \in 1 .. Len(b.iov) : b.iov[k].len > 0
  /\ IF b.iov = <<>> THEN b.pp = 0 ELSE b.pp + b.iov[1].len <= Len(heap[b.iov[1].base])
CountsAgree == Chained(buf) /\ Chained(body)

\* A block that carried a short read is never filled again: whatever is left in
\* the shared read buffer is whole.
ReadBufferWhole == \A i \in 1 .. Len(rdbuf) : /\ rdbuf[i].len = BufSize
                                              /\ Len(heap[rdbuf[i].base]) = BufSize

\* The chains are the queues of bytes they stand for.
Content(b) == BytesUpto(heap, b, Len(b.iov))
Queues == INSTANCE ByteQueue WITH buf <- Content(buf), body <- Content(body)
ImplementsByteQueue == Queues!Spec
=============================================================================
