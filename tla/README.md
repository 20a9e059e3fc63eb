# SpaceX web server: specifications, model checks and proofs

SpaceX (`src/source/`) is a small HTTP/1.1 server: one process, one thread, one
`kqueue`. This directory holds TLA+ modules translated from its C++ sources, TLC
configurations that check them on small instances, and theorems that TLAPS
proves for every value of the constants. `PROJECT.json` maps each definition to
the lines it stands for.

    tlc -config MCConnection.cfg MCConnection     # one run
    tlapm EventLoopProofs.tla                     # one module of proofs

## 1. The system

| component | source | state | operations |
|---|---|---|---|
| start-up | `spacex.cpp`, `spx_port_info.cpp` | `port_info`, the listening sockets | `main`, `socket_init_and_build_port_info`, `close_socket_and_exit__` |
| configuration parser | `spx_parse_config.cpp` | one large state machine, run once; the server blocks per port | `spx_config_syntax_checker` |
| event loop | `spx_kqueue_module.cpp` | `change_list`, `for_close`, the batch of events | `kqueue_module`, `read_/write_event_handler`, `kevent_eof_handler`, `kevent_error_handler`, `proc_event_wait_pid`, `session_timer_event_handler`, `create_client_event` |
| connection | `spx_client.cpp`, `spx_req_res_field.cpp`, `spx_cgi_chunked.cpp` | `Client` with `ReqField`, `ResField`, `ChunkedField`, `CgiField`: what is parsed, what is buffered, which descriptors are held | `req_res_controller_` and its cases, the handlers of socket, file and pipe events, `disconnect_client_` |
| buffers | `spx_buffer.cpp` | chains of heap blocks, the read buffer all clients share | `read_`, `move_`, `delete_size_`, `write_`, `add_str`, `clear_`, `get_crlf_line_`, `get_lf_line_` |
| sessions | `spx_session_storage.cpp`, `Client::set_cookie_` | map from id to count and expiry; `session_id` per connection | `generate_session_id`, `add_new_session`, visit, `session_cleaner` |
| request line, chunk line | `spx_syntax_checker.cpp` and its callers | position and state of a walk over a line; the size of a chunk | `spx_http_syntax_start_line`, `spx_chunked_syntax_start_line` |
| target resolution | `spx_port_info.cpp` | position, state and flags of a walk over a target; the location found | `get_uri_location_t_`, `path_resolve_` |
| CGI environment, autoindex, response text | `spx_cgi_module.cpp`, `spx_autoindex_generator.cpp`, `spx_core_util_box.cpp` | none that outlives a call | formatting |

**How they interact.** The parser builds the server blocks, the start-up opens a
socket per port and hands `port_info` to the loop. The loop waits in `kevent`,
and calls one handler for each event of the batch. A handler finds its `Client`
in `udata` and runs to completion; nothing is locked because nothing runs
concurrently. What is concurrent is everything outside: the peers, the scripts,
the files and the order in which the kernel reports them. A handler reads
through the shared read buffer into one of the client's buffers, moves bytes
between them, asks target resolution for a location, the session storage for a
cookie, and registers further events in `change_list`, which the kernel sees
with the next `kevent`.

**What is hard here.** A request is spread over many events, and several
requests over one read; bodies go from socket to file or pipe through two or
three buffers from different events; four objects are reset by
`clear_` for the next request on the connection; a script's output, its exit
and the client's hang-up come in any order; error paths leave descriptors and
knotes behind; lengths are unsigned. A closed descriptor's number is handed out
again at once, while events and changes may still mention it, and an object may
be deleted while events still point at it. `PROJECT.json` lists the hazards
with their lines and the properties that cover them.

**What makes each part correct.**

- connection: requests are read where messages start, each is answered once, in
  order and in full; an upload is stored whole and within its limit; nothing of
  a request is left for the next; a disconnect leaves nothing open.
- event loop: no event reaches a deleted client or another client's descriptor;
  no client is deleted twice, none is forgotten; no descriptor is leaked, none
  closed for someone else.
- buffers: a queue of bytes, in order and without loss; each block has exactly
  one owner.
- sessions: a browser is recognised for Max-Age after a visit; expired sessions
  go; a session is not reset by someone else's.
- request line and chunk line: exactly the grammar is accepted, what was
  checked is what is used, and a size is counted in full, against the limit.
- target resolution: nothing of the target is lost, the location is the one the
  configuration means, no null pointer is followed, every walk ends.
- configuration parser and start-up: what is accepted is what request handling
  relies on; `port_info` finds each socket and nothing else.

## 2. The modules

| module | models | state and actions |
|---|---|---|
| `RequestBytes` | the bytes of a conversation, `get_crlf_line_` on them | no state |
| `Conversation` (extends `RequestBytes`) | the site, what peers send, and what they are due: a reading of a talk that knows nothing of the server | no state |
| `Connection` (extends `Conversation`) | one `Client`, the events the loop gives it, its peer and its scripts | below |
| `EventLoop` | `kqueue_module`: many clients, the kernel's filters and descriptors | below |
| `ByteQueue` | what a pair of buffers promises: two queues of bytes | one action per operation |
| `SpxBuffer` | the chains of blocks, the heap, the shared read buffer | one action per public operation; refines `ByteQueue` |
| `SessionStorage` | the storage, `set_cookie_`, the timer, the browsers' cookie jars | `Request`, `Respond`, `Reconnect`, `Tick`, `session_timer_event_handler` |
| `StartLine` | the request-line checker and the cut-out of the target | one action per case of the switch |
| `ChunkLine` (extends `StartLine`) | the chunk-line checker and what its two callers do with the size | one action per case, `Caller` |
| `UriLocation` | `get_uri_location_t_` | one action per case of the switch |
| `ConfigParser` | `spx_config_syntax_checker` | one action per case of the switch |
| `StartUp` (extends `ConfigParser`) | `main` from the parser to the queue | `Read` (a step of the parser), `OpenSocket`, `SocketFails`, `SocketsDone`, `OpenQueue`, `QueueFails` |
| `MC...` | the instances of the runs | |
| `ConnectionProofs`, `EventLoopProofs`, `SpxBufferProofs`, `SessionStorageProofs`, `ChunkLineProofs` (with `StartLine`), `UriLocationProofs`, `ConfigParserProofs`, `StartUpProofs` | theorems about those modules | |

Definitions keep the names of the source (`res_for_post_put_req_`,
`write_for_upload_`, `uri_find_delimeter_case`). A definition whose comment
begins "mutant" or "(Mutation" is a plausible bug in the definition after
it. It is not used by the specification: substituting it shows that a run would
notice (`PROJECT.json`, "mutants").

### Connection

`pc = "wait"`: the client waits for an event. An action that needs an event is
taken only then, and either finishes (`Wait`) or leaves `pc = "ctl"`, in which
the loops and fall-through cases of `req_res_controller_` go on step by step
until nothing can be done without more bytes. No other event is handled in
between, as in the code. `pc = "gone"` after `disconnect_client_`.

| variable | code |
|---|---|
| `rcvd`, `pos` | `_buf` holds the bytes `pos+1 .. rcvd` of what the peer sends |
| `state` | `_state` (`REQ_LINE_PARSING`, `REQ_BODY_CHUNKED`, ...) |
| `req`, `res`, `chnkd`, `cgi`, `skip_size` | the members of those names; buffers are byte counts |
| `fds` | the table of descriptors: kind, registered filters, bytes left to read, the script at the other end |
| `client_w` | an `EVFILT_WRITE` knote is on the socket |
| `failing` | children whose `NOTE_EXIT` will report 256 |
| `disk` | the upload file: bytes stored, the limit, bytes found in `_body_buf` when it was opened |
| `wire` | the responses the peer has received and how much of each body |

`Modulus` stands for 2^32: `_chnkd_size` is a `uint32_t`, and adding 2 to the two
largest sizes wraps it to 0 and 1. Both happen in the model, in `skip_chunked_body_`
and in an upload without a limit; the server then reads on in the wrong place. Framed
conversations have no chunk of these two sizes.

A request line, header or chunk-size line is one symbol between CR and LF, so
the network may cut before, within and after its CRLF. Which lines parse is the
symbol's kind; `StartLine` and `ChunkLine` have the checkers themselves.

Abstractions. One event at a time: the batch and the change list are the subject
of `EventLoop`. `write(2)` on a descriptor reported writable succeeds, possibly
short; at most one short write splits a response header. A CGI header block is
one unit. Whether `remove`, `stat` and `open` succeed follows from the kind of
the target's file. A descriptor is any free one, not the lowest. `EVFILT_READ` on
the upload file has no effect. The 301 of a redirect has no Content-Length
(`spx_req_res_field.cpp:375`) and is taken for a response with an empty body, which is
what the server sends. Cookies, the text of headers and pages are left out.

### EventLoop

The other half: here a request is no more than the descriptors it opens and the
changes it asks for, and the subject is many clients in one loop.

| variable | code |
|---|---|
| `phase` | whether an object lives at an address, and what its request waits for |
| `sock`, `body`, `feed` | `_client_fd`; `_res._body_fd`, `_req._body_fd` or `_cgi._read_from_cgi_fd`; `_cgi._write_to_cgi_fd` |
| `file` | the kernel's descriptors: for whom each was opened, as what, whether the other side is gone |
| `knotes` | the registered filters with their `udata` |
| `changes`, `for_close` | `change_list`, `for_close` |
| `batch` | the events of this round that are still to be handled |
| `pc` | `"apply"` and `"wait"` are within `kevent`, `"handle"` the loop over the events, `"delete"` the loop over `for_close`; `"undefined"` after a use of a deleted client |

`kevent` applies the changes one by one; what cannot be applied becomes an error
event and `kevent` returns without waiting. `Wait` reports any set of events of
at most `MaxEvents`, and unless the array is full everything that certainly is
due. The events are handled in any order, a finer order than the kernel's.
`close` removes a number's filters at once, but not the changes and events
that mention it. `SocketEnds`, `PipeEnds`, `WriteEnds` are the three parts of
`kevent_eof_handler`, `ChangeFailed` is `kevent_error_handler`, `ProgramFailed` is
`proc_event_wait_pid`.

*Calm.* Nothing in the code prevents a number from being handed out while an
old event or change still speaks of it. The old one then acts on the new owner:
reads its bytes as a body, closes its descriptor, deletes its filter. The ghost
`calm` marks the behaviours in which this has not happened, and the properties
are claimed for those. It becomes false in three places:

- a client is given a number that a pending change, an event of this round or a
  field of another request under way still holds (`Disturbed`);
- `kevent` fills its array, so that the two ends of one socket may be reported
  in different rounds: `WRITE|EOF` then closes the socket and its client is never
  deleted (`Wait`);
- a program exits with an error, and its answer is begun whatever its client is
  doing (`ProgramFailed`; the finding of run `exit256` is one consequence).

Two uses of a deleted client remain that need no excuse. The model reaches both
(`UseAfterDelete`), so no property excludes them: the filter for a program's exit
outlives the client, and `proc_event_wait_pid` follows it when the program fails
after its peer hung up; and a `READ` change asked for in the round in which the
client leaves fails in the next one, when `kevent_error_handler` looks at the
object. No other event ever meets a deleted client: that is
`EventsMeetTheirOwner`.

### The others

`SpxBuffer` has the two buffers of a client and the read buffer; a byte is its
position in the input, so loss, duplication and reordering are visible. `heap`
maps live addresses to contents; a double free or a leak is a mismatch between
`heap` and the chains. `result` keeps the answer of the latest operation only.

`SessionStorage`: a client is a browser on its own connection. It keeps the last
cookie and may send that cookie, none, one of an id it had long ago or from
elsewhere, one without `sessionID`, or an empty header. `Request` is a request that
comes to `set_cookie_`, `Respond` a response with `Set-Cookie`. The two are apart
because the code sends whatever `session_id` holds: late, when a program or an
upload answers, or again on a configured error page for a request whose line or
Host is wrong, which does not come to `set_cookie_`. Such a cookie states a fresh
Max-Age and refreshes no session, so the browser may hold it for longer than the
session lasts. Each cookie therefore carries, as history, when it was written
(`visited`), and `BrowserRecognised` counts Max-Age from there. A
generated id is any id: the code makes it from the microseconds of the clock and
two bits of the descriptor. The history variable `ordinary` says that no id of
a live session was generated again. The loop handles the timer within the second
it fires.

`StartLine`: a token is a space, a slash, a percent sign, and so on, or a
run of capitals; `MaxLength` counts tokens. The cases for `%`, `?` and
`#` behind the loop are unreachable, because the loop's table contains these
characters, and are left out. `AcceptsTheGrammar` is about everything but percent
encoding; that an unmatched `%` is accepted is the finding of run `percent`.

`ChunkLine`: `Base`, `Modulus` and `Digits` stand for 16, 2^32 and the hexadecimal
digits; reading a size stops at the largest number, as `operator>>` does, and
`_chnkd_size` is the size plus two modulo `Modulus`. The limit is a variable, as
each location has its own: most have none, which the code writes as 2^64 - 1. Under
a limit two below `Modulus` nothing wraps (`ChunkCounted`). Under a larger one, and
when the body is thrown away (`skip_chunked_body_`), the two largest sizes do wrap,
and `ChunkCounted` claims nothing of them.

`UriLocation`: a target is a sequence of characters, with a percent-encoded
octet as one character. The answers of `opendir` and `open` are
nondeterministic. The state "thrown" stands for the `std::out_of_range` of
`substr(npos)` on a `cgi_pass` without a dot. A location with `cgi_path_info` alone is
answered by CGI with no program named (`spx_port_info.cpp:279`); no text says what it
should do, so no property does. What the configuration parser
guarantees about a server block is the assumption `ConfigAssumption`: a `/`
location; an extension location has a program (`ServersComplete` of
`ConfigParser` is the same statement about what the parser accepts); a location is
kept under its own URI, which begins with a slash and has neither a slash nor a
dot behind it (`conf_location_uri`, `spx_parse_config.cpp:773-801`).
`TargetAssumption` says that a target is not empty and begins with a slash, which
is where `StartLine` begins to read one.

`ConfigParser`: the file is chosen while it is read. `it` is the set of lexemes
the iterator may be at; the state that looks at it settles for one, and the
state that consumes a word chooses its text. A kind of file (`Files`) fixes
which words, ports and URIs may occur and how many servers and locations: the
bounds of the run. Three ways to stop besides `conf_done`: `"error"` (the program
exits), `"thrown"` (`uri.at(0)` on a location without URI), `"overrun"` (a comment at
the end of the file moves the iterator past it). The ghost `plain` says that
every `;` so far ended a setting; a stray `;` leads the parser out of the block
it is in, and is the one way to `"thrown"` and to blocks without a root.

`StartUp`: the process starts with any of the sets `Inherited` of descriptors
open, and a socket gets the lowest free number. `port_info` is indexed by
descriptor and filled with copies in between, and `read_event_handler` takes every
number below its size for a listening socket.

## 3. The runs

Passing runs:

| run | properties | instance |
|---|---|---|
| `conversations` | `TypeOK`, `UploadWithinLimit`, `BodyWithinLength`, `AnswersInOrder`, `ResponsesWellFramed`, `NothingLeftBehind`, `DisconnectCleansUp`, `AckedUploadIsWhole`, `FramedIsOrderly` | 15 orderly conversations of two or three requests (files, empty files, listings, redirects, 403/404/405, sized and chunked uploads, CGI; uploads refused with 404 and 413; chunked bodies where none is taken, empty bodies, a header twice, empty lines before a request), cut after any symbol, in which the peer may hang up at any event; 18 that do not parse, announce wrong sizes, send bodies where none is read, break off a chunk or announce one whose size wraps, with scripts that fail, answer early or outlive the request, and a `fork` that may fail; three descriptors |
| `live` | `AllAnswered` | eight of the orderly ones, without hang-up and without error page files, under `FairSpec` |
| `loop` | `TypeOK`, `EventsMeetTheirOwner`, `DeletedOnce`, `NobodyForgotten`, `NoDescriptorLost`, `ClosesOnlyItsOwn`, `GoneClientsAreDeleted` | two clients on three descriptors, every kind of request, batches of up to three events in every order, peers that close or reset at any time, under `FairSpec` |
| `buffers` | `OneOwner`, `CountsAgree`, `ReadBufferWhole`, `ImplementsByteQueue` | five bytes with a bare LF and a CRLF, blocks of two bytes, two blocks per read and per write |
| `sessions` | `TypeOK`, `BrowserRecognised`, `NoneOverstays`, `LiveSessionKept` | two clients, two ids, cookies and timer of two seconds, six seconds |
| `targets` | `TypeOK`, `CgiHasLocation`, `PiecesMakeTheUri`, `LocationAsConfigured`, `WalkEnds` | all targets of up to six characters over `/ a . x`, all of up to four with `? # %2F`, a set with query and fragment; eight server blocks |
| `syntax` | `AcceptsTheGrammar`, `UriIsTheTarget`, `ChunkCounted` | all request lines of up to four tokens, and a method, a target of up to five tokens and the version with and without something behind; all chunk lines of up to four tokens, those of a size, an extension name and up to four more, and sizes of up to five binary digits with `Modulus` 8, under a limit of 3 and under one beyond all of them |
| `config` | `TypeOK`, `OneDefaultPerPort`, `ServersComplete`, `NoRedirectPair`, `NeverThrown`, `ListenersIndexed`, `ClientsBeyondListeners` | every file of four kinds (three servers on two ports; pages; redirects between two locations; programs) and three sets of inherited descriptors |

Why the bounds are enough. *Connection*: limits of two and three bytes give
bodies below, at and above the limit, chunks that split a body, and reads
and writes that split each of them. Two requests show what is left behind, three
that it is gone. A request holds at most three descriptors; when all are in use
the error paths for a failed `open` and `pipe` are taken. *EventLoop*: two clients
are one whose events are handled and one they might hit by mistake; with three
numbers both can be connected while one holds a file or a pipe, or one alone
can hold all three, and a closed number is soon handed out again. A batch of
three holds the end of a socket on both filters next to another client's event;
the fourth place is never filled while the loop is calm. The
constraint `Calm` stops where nothing is claimed any more: `calm` never becomes true
again, and every property but `TypeOK` holds of what is cut off by its statement. The theorems of section 4 cover any number of clients,
descriptors and events. *SpxBuffer*: a block
size of two gives empty, partly used and full blocks; five bytes need three
blocks, so moves and lines end within a block, at its end and in the
next. *SessionStorage*: six seconds are three lives of a cookie and three periods
of the cleaner, in every relative order. *UriLocation*: six characters hold three
components, a script with path info before and after, and doubled slashes.
*ChunkLine*: five digits of a base of two run past a modulus of eight, so sizes
below, at and above the limit, at the largest number and beyond it all occur, with a limit
and without.
*ConfigParser*: three servers on two ports give a port with two, in which the
default is the first, the second or said by name; two locations are what a
redirect pair needs. `MaxNumbers`, the error numbers of one page, and the
counts of `Files` are the only other bounds.
Symmetry is used only in safety runs: descriptors, clients and ids are model values
that no definition tells apart. `CHECK_DEADLOCK FALSE` is set where a behaviour
ends: a conversation is over, all bytes are consumed, a walk has returned, the
server serves or has exited; and in `loop`, where the program may stop by a use of
a deleted client.

Fairness. `FairSpec` of `Connection` is `WF_vars(Handled)`: `kevent` is
level-triggered, so it reports a condition until it is handled, and the loop does
not stop while an event is due; scripts end and peers send what they have. It
promises no order among due events. `HangUp` is not fair. `FairSpec` of
`EventLoop` is `WF_vars(Loop)`: the loop goes on while it can; a peer's end is never
owed. That a gone peer is noticed follows from `Wait`, which reports what is due.
`FairSpec` of `UriLocation` is `WF_vars(Next)`: the walk is one call.

Each finding is a run in which TLC violates what a comment of the repository says:

| run | what the code does |
|---|---|
| `refused` | "405 not allowed error with keep-alive connection." (`spx_req_res_field.cpp:112`): after a failed `open` the answer is a 404, `_skip_size` is not set and the body is taken for the next request |
| `badrequest` | "bad request will return false and disconnect client." (`spx_client.cpp:64`): `E_BAD_REQ` is overwritten by `REQ_SKIP_BODY_CHUNKED` and the connection goes on: the next request line is taken for a chunk-size line and answered with a second 400 |
| `exit256` | "cgi_process error exit case" (`spx_kqueue_module.cpp:184`): the body of the 500 is never sent, because `is_cgi_` is still set |
| `percent` | "% HEXDIG HEXDIG process" and "unmatched percent encoding" (`spx_syntax_checker.cpp:133`, `:138`): the case is never entered, and a `%` with nothing behind it to make an octet of is accepted |

The properties of `Connection` that speak of answers are claimed for the orderly
conversations (`framed`), which avoid what these findings break; those of uploads
and sizes are claimed for all. `FramedIsOrderly` says of each of their steps what
orderly means: no chunk is taken for malformed, no error page is made while `is_cgi_`
is set, and every script that runs succeeds, announces no length and reads its
input.

Which conversations are framed is not left to the instance. `Conversation` reads a
talk by the rules of the framing (`Reading`: after every byte it is between messages, in
a header, in a body, before a chunk-size line, in a chunk or before the CRLF after it)
and says what the message at hand is due (`Due`). `WellFormed` asks that the reading
never gets stuck, that each body is one the server reads (`Fit`), that no chunk is too
large for `_chnkd_size` to count (`ReadsOn`), and that `ends` and
`answers` of the talk are those of the reading. `FramedAssumption` says so of every
framed talk, and TLC evaluates it on every run of `Connection`. The reading sees all
the bytes and no state of the server, so that it cannot repeat an error of the
server's incremental one.

Two more behaviours keep a conversation out of `live`, and are in the hazards: after a refused chunked upload the next request
waits until the peer sends more, and a POST to a script with an empty sized body
never ends the script's input.

## 4. The proofs

`ConnectionProofs` (for every site, set of scripts, set of peers and of
descriptors). It assumes that the constants have their types, that `NoFd` is no
descriptor, `FramedAssumption` (a framed talk is well formed by the reading of section
3, no `fork` fails in it, and its scripts read their input, succeed and announce no
length) and, if there is a framed talk, room for the two pipes of a program
(`RoomAssumption`). Theorems on uploads and sizes speak of every talk, the others of
framed ones:

- `TypeCorrect`: `Spec => []TypeOK`. One lemma per action. What is not routine:
  no count of a buffer, a page or a body goes below zero, a line found in `_buf` ends
  within it, and `_chnkd_size` keeps to its width. It does wrap: a size line of
  `Modulus - 2` or `Modulus - 1` leaves it at 0 or 1, and taking two from 1 leaves
  `Modulus - 1`.
- `UploadBalances`: `Spec => []UploadAccounted`. `UploadWithinLimit` is not
  inductive: a chunk is counted before its data is read, its data moved before
  it is written, and the file may still be written to after the request has been
  refused. The invariant adds what is stored, what is buffered (`Pending`) and
  what the current chunk still owes (`Ahead`), for each state that reads a body and
  for any `WRITE` knote that is left.
- `UploadSafe`, `LengthSafe`: `[]UploadWithinLimit`, `[]BodyWithinLength` follow.
- `TalkKept`: `Spec => [](talk.framed => OInv /\ Talked)`, the inductive invariant of
  framed conversations, by `StepTalked`. Each half needs the other: a message can be
  read as the talk has it only when nothing of the one before is in the way (`OInv`),
  and that a request leaves nothing behind depends on no chunk being taken for
  malformed, as its error page would be opened over an upload that is still open.
  `OInv` relates what is open, what is read and what is answered. `Owners`: each
  descriptor is in the field for its kind, a page or an upload is open alone, and a
  script's input only with its output, whose reader it waits for. `Quiet`: while a
  response goes out, and until the next request has its header, nothing is open.
  `Taken`: a body is read, and bytes wait in `_body_buf`, only while what takes them is
  open. `Unanswered`: until then `_res` is as `clear_` leaves it, so exactly one header
  is made for a request. `PageRead` and `Writing`: what is written and what is still
  there add up to the length announced. There is one lemma per kind of step: steps
  that only read (`NothingHappens`), that answer (`AnswerMade`), that open
  (`UploadOpened`, `ScriptRuns`) and that write (`ResponseStep`).
  `Talked` compares the server with the talk. `Reads`: `pos` is at a place of the
  reading, and `_state`, `_cnt_len`, `_body_read`, `_chnkd_size` and the request say what
  that place says (`Position`); an upload, and a program's pipes, are open only for
  a message that goes there (`Holders`). `Answers`: as many responses have gone as
  messages have ended, the next included once its header is sent, each with the
  status it is due (`InTurn`). When the client is gone, what was sent was in order (`Prompt`).
- `FramedOrderly` and `AnswersDue`: `[]FramedIsOrderly` and `[]AnswersInOrder` from
  `Talked`; `NothingStays`, `HangUpCleans` and `FramingHolds`: `[]NothingLeftBehind`,
  `[]DisconnectCleansUp`, `[]ResponsesWellFramed` from `OInv`.
- `AckedWhole`: `[]AckedUploadIsWhole`, from `Stores`, inductive next to the two.
  `Marks`: the messages the reading has passed ended behind `pos`, the last one at
  `pos` until the next begins. `Filed`: what is stored and what waits in a buffer are
  together the bytes of this message's body that have been taken, while a chunk is
  counted (`_body_size`) before its data comes. `BodyOf` counts them in the
  talk's bytes, so no byte can be missing, doubled or another message's.

`UploadWithinLimit` allows the bytes that an abandoned upload left in `_body_buf`
(`disk.carried`), because `ReqField::clear_` keeps them.

`EventLoopProofs` (any clients, descriptors, batch size and kinds of requests,
under `EventLoopAssumption`): `TypeCorrect` holds calm or not. `EventsOwned`,
`Deletions`, `Listening`, `DescriptorsKept` and `ClosingOwn` prove the five safety
properties of run `loop`. The inductive invariant is `IInv == Shaped /\ (calm =>
CalmInv)`. None of the five properties is inductive, and they need each other:

- `FilesKept`: each open number is in the field for its kind, of a client at a
  stage that needs it;
- `FiltersKept`: a filter, a change or an event speaks of a closed number or of
  its own client's. This is why the unconditional `close` of
  `kevent_eof_handler` harms no one;
- `Listened`: a client that stays has its read filter, has asked for it, or has
  its peer's end in this very round;
- `EndsTogether`: a reset socket that reports its end to its write filter does so
  to its read filter in the same round, so that its client is deleted although
  `WRITE|EOF` closes the socket first; and a program's input ends in the round its
  output does;
- `WritesResponses`: the write filter of a socket is there only during a
  response. `Gone` follows a filter through the changes still to be made, since a
  `DELETE` waits in the list;
- `LeavingOnce`: a client on `for_close` has no second end among the events.

There is one lemma per kind of step, and `StepKept` puts them together. That
`calm` never becomes true again (`CalmBefore`) lets each lemma assume it before
the step.

`ConfigParserProofs` (any ports, names, URIs and kinds of files; no bound on
servers and locations): `TypeCorrect` and `OneDefault` by `Typed`, which says of the
server block being read that it is known when it is added to its port;
`RedirectsEnd`, `Accepted` and `PlainNeverThrows` by `Walked`, which follows the
parser through its levels: the redirect of the location being read has been
checked against those saved (`Redirected`), and, for a plain file, the
root was saved before the block may close (`RootSaved`).

`StartUpProofs` (any descriptors, inherited sets and ports): `SocketsIndexed`,
`ClientsBehind`, `StartUpTypeCorrect`, and `DefaultsUntilOpened`. `StartInv` relates `port_info` to
what is open: every entry is a copy of a socket's at or behind it (`EntriesOwn`),
and everything below the last socket is open (`DescriptorsKnown`), since
`socket` gives the lowest free number. From the parser it needs one
default server for every port.

`SessionStorageProofs` (any clients, ids, Max-Age and cleaner period):
`TypeCorrect`; `SweptInTime` by `Swept` (no session expired longer ago than the
timer last fired); `BrowserSafe` by `AllCovered` (while `ordinary`, the session of every
cookie, in a jar or in `session_id`, lasts for Max-Age from the visit it stands for); `NeverSetBack` by `Lasting` (no session lasts longer than
one made now, so a refresh only extends it).

`SpxBufferProofs` (every input, size of a block, and length of the read buffer):
`OneOwnerAlways`, `CountsAlwaysAgree`, `ReadBufferAlwaysWhole`, and `ChainsAreQueues`,
the refinement `Spec => ImplementsByteQueue`. The first three need each other: an
operation may free or hand over a block because no other chain has it, and finds
the bytes it counts because the block is live. So `IInv` says that the three chains
together own exactly the heap and share nothing (`AllOwned`), and that the read
buffer is at most `VecSize` whole blocks (`Full`). For the refinement, byte `j` of
block `k` is byte `LenUpto(k-1) + j` of the queue; with that, `InitRefines` and one
`...Refines` lemma per operation, which `StepRefines` puts together.

`ChunkLineProofs` (every line, base, width, limit or none, and size of the body so far,
under `StartLineAssumption` and `ChunkLineAssumption`, which give the constants their types):
`LinesAccepted`, `TargetCutOut`, `ChunksCounted`. `AcceptsTheGrammar` is about a walk
that has returned; `WalkedInv` says for each state of the two switches what has been
seen of the line when it is in that state, so that the last state knows the whole
line. `SizedInv` adds that a size is returned only for a line whose size is all
digits; what `operator>>` reads of it is a recursive function of the digits, and
stays at the largest number once it would pass it.

`UriLocationProofs` (every target, server block and set of methods, under
`ConfigAssumption` and `TargetAssumption`):

- `TypeCorrect` and `CgiSafe`, from the inductive `IInv`, which links the flags of
  the walk to its pointers: once `uri_main` is past both locations are set,
  `cgi_pass` implies `cgi` and excludes `depth_uri`. `PastBounds`: a character loop
  stops by the end of the target.
- `TargetSplit`: `PiecesMakeTheUri` speaks of the end of the walk. `Placed` says
  where the switch stands, from the characters before it; `Cut` that the pieces cut
  so far resolve to what the target up to there resolves to, and that query and
  fragment are what lies behind `?` and `#`. `path_resolve_` is compared one
  character at a time (`ResolvedBy`, `ResolveStep`, `SameComponent`, `SameFurther`),
  because the walk inserts and drops slashes that the resolution does not see.
- `ServedAsConfigured`: `LocationAsConfigured` reads the answer off the components
  of the path. `Settled` says the same of the walk in progress: the first
  component chose the location (`AtHome`), and of the components passed so far none
  is a script (`NoScriptYet`), or one was and the rest is path info (`ScriptFound`),
  or the first location has a program itself, which is passed the rest (`PassedOn`).

Where one of these needs induction (the length of a chain, the value of digits, the
resolution of a path) the model has a recursive function and not an operator, and the
proof takes the least number at which the statement fails: the order on the natural
numbers is well-founded. No induction theorem with an operator parameter is used.

Only model-checked:

- liveness (`AllAnswered`, `GoneClientsAreDeleted`, `WalkEnds`), which TLAPS does not
  reach. Every other property of the passing runs is a theorem.
- That a given talk is well formed. `Reading` is a recursive function of the bytes and
  `FramedAssumption` an assumption: TLC evaluates it for the 15 talks of the runs.

## 5. Not modelled

- `spx_http_syntax_header_line` and `spx_chunked_syntax_data_line`: called from
  nowhere.
- A failing `write(2)` and `kevent` itself failing (the server exits).
- `search_server_config_`: one lookup in a map.
- The environment of a CGI program: strings, built in the child process.
- HTML, dates, status texts, logging, the printing of the configuration, the
  command line: formatting.
- Texts in the configuration: paths and sizes are kept as far as a later case
  tells them apart; `stat` and `opendir` on them succeed or not.
- The test scripts and sample CGI programs; the latter are what `Scripts` abstracts.

## 6. The plan, and what came of it

In this order: `Connection` with its runs and theorems; `SpxBuffer` with
`ByteQueue`; `SessionStorage`, `UriLocation`, each with its theorems; `StartLine`
and `ChunkLine`; `ConfigParser` and `StartUp`, composed, with theorems for the
assumption `UriLocation` makes; `EventLoop` with its theorems; then the theorems of
`SpxBuffer` with its refinement, of the two line checkers, and of the pieces and
locations of a target; then those of orderly conversations, and `Conversation`, the
definition of a well-formed talk, from which `FramedIsOrderly`, `AnswersInOrder` and
`AckedUploadIsWhole` are proved.

Not done: `StartLine` and `UriLocation` in one run, so that the walk over the target
starts from what the checker accepted (the set of targets of `UriLocation` is wider
than what is accepted, except for `%` without hexadecimal digits); a refinement
from `EventLoop` to several `Connection`s, whose state is of another kind.
