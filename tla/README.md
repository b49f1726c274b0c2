# Open Web Server: TLA+ verification project

This directory models the server in `src/open-server/` of the repository: a
small HTTP server that serves files and directory listings. File names below
are relative to that directory. The vendored OpenSSL, the build directories and
the certificates are not part of it: no code path uses them.

## The system

| part | state | operations | talks to |
|---|---|---|---|
| poll server (`poll_server.cpp`) | `fds[100000]`, `nfds`, `compress_array` | one thread: `poll`, scan, `accept`, `recv`, close, squeeze | kernel; calls the composer with what it received |
| message composer (`html_messagecomposer.cpp`) | `messages_`: the unfinished request of each descriptor | `onClientDataArrived`, `verifyMessageComplete` | runs in the poll thread; hands complete requests to the processor |
| message processor (`html_messageprocessor.cpp`) | `qclients_`, its mutex and condition variable, the turn | `onNewClientMessage` (poll thread), `processMessageQueue` (own thread) | pushes sessions to the dispatchers |
| dispatchers (`http_message_dispatcher.cpp`, twelve threads) | a queue, mutex and condition variable each; `cache_` and the working directory of the process shared | `onNewMessageArrived` (processor thread), `dispatchMessageQueue`, `onClientRequest` | `send` on the client's socket, file system |
| client session (`clientsession.h`) | what is still to be sent, flags, cache iterator | none of its own | copied from composer to processor to dispatcher |
| header parser (`http_header_parser.cpp`) | request bytes, path | `parse` | called by the dispatchers |

What is hard here: three kinds of threads hand work over through condition
variables that are waited on without a predicate; the kernel reuses descriptor
numbers while sessions still carry them; responses are sent in pieces with
retries; twelve threads share a cache and a working directory without a lock;
the table of the poll loop is squeezed while events are pending, and is scanned
even when `poll()` failed. `PROJECT.json` lists these hazards one by one, each
at its line.

What makes each part correct:

- poll server: the table holds exactly the open descriptors; an event is only
  ever acted upon for the connection it was reported for; only connections
  whose client left are closed, and those are closed; the table does not
  overflow.
- processor and dispatcher queues: every complete request reaches exactly one
  dispatcher, in order and by turns, is not lost or doubled, and no thread
  sleeps on work.
- dispatchers: what a client receives is the response to its request, without
  gaps or repetitions, whole, and every session comes to an end.
- composer: a request is put together of what its own connection sent, no more
  and no less.
- parser: the path is the one in the request line.

## Modules

**`RequestDistribution`** is the abstract specification of the processor and
its dispatchers: requests are accepted, assigned in arrival order to one
dispatcher each, the dispatchers taking turns, and finished at most once.

**`MessageProcessor`** is the hand-over in detail: the poll thread inside
`onNewClientMessage` (`onNewClientMessage`, `NotifyProcessor`), the processor
(`ProcessorWait`, `ProcessorRelock`, `AssignToWorker`, `NotifyDispatcher`,
`ProcessorUnlock`) and each dispatcher (`DispatcherWait`, `DispatcherBegin`,
`DispatcherEmptyFront`, `DispatcherEnd`). `notify_one` is a step of its own
after the unlock, as in the code. Program counters say who holds which mutex.
What an iteration of a dispatcher does with a session is reduced to its three
ends: popped (`done`), kept with `ewouldblock_flag` set (`blocked`), kept as it
is after a send error (`retry`). `front()` on an empty queue is undefined in
C++: the dispatcher that does it stops in `"undefined"`, and nothing that a
behaviour does after that is meant to say anything about the program.

**`PollServer`** is `PollServer::start` with the kernel's descriptors and
clients that act between any two system calls. A step is one system call or one
slot of a loop over the table. Descriptors are reused, lowest number first.
`poll()` may fail, and fails with EINVAL when the table is longer than
RLIMIT_NOFILE; the code then scans the events of the last successful call.

**`MessageDispatcher`** is the work of the dispatchers: `onClientRequest`
(cache lookup, reading a chunk of a file, or setting the working directory and
listing it in three separate reads) and the send loop with partial writes,
EWOULDBLOCK and errors, over as many iterations as a session takes. Responses
are sequences of parts: a header with its Content-Length, the blocks of a file,
the names, links and heading of a listing. The code does not look at what
`open`, `seek` and `read` return: `ReadFile` delivers any number of blocks, none
when the file cannot be opened, and the rest of the buffer is the zeros that
`resize` left. `seek` needs no case of its own, since a file is only read for a
session that has sent nothing, from offset 0. A connection that breaks
(`broken`) is gone for good, but its socket number is not: `SocketReused` gives
it to a stranger, `send()` then succeeds again, and what it writes does not
count as `delivered`. `bytesleft` is not a variable: the code counts it down
from the size the response had when sending began, the model takes the entry as
it is, and a file's entry is only ever replaced by one as long; an entry that is
replaced while `send()` reads it is a `CacheRace`. `should_cache_response` is not
assigned on the listing path and takes either value. Overlapping accesses to
`cache_`, which no lock protects, are the action `CacheRace`; the two
dispatchers then stop in `"undefined"`. `MCMessageDispatcher` gives it files.

**`MessageComposer`** is `HTML_MessageComposer` with the `recv` of the poll
thread that feeds it: one receive buffer for all connections, which keeps what
earlier calls left behind the data just received, and `messages_`, which no one
clears when a connection closes. A request is a short text that ends with a
blank line; `recv` returns any part of what was sent. `onClientDataArrived`
stores the received bytes for a socket without an entry and appends the whole
buffer to an existing one. An entry always holds at least one byte, so `<<>>`
stands for no entry. `arrived`, `merged`, `filled` and `handed` are history.
`MCMessageComposer` gives it requests.

**`HeaderParser`** is `HTTP_Header_parser::parse` with its offsets, together
with the encoding of names in the links of a listing. Initial states are the
possible requests; the only step parses it, or leaves the range of an iterator
(`parseOutOfRange`), after which the program has no defined behaviour.

**`OpenServer`** composes the parts at the granularity of sessions. It extends
`MessageProcessor` with connections that come and go on reused sockets, ties
each request to the socket and connection it came on, and lets a dispatcher
that works on a session write to whichever connection has its socket number
(`Write`). How a request is put together and what a response consists of are
left to `MessageComposer` and `MessageDispatcher`.

**`MessageProcessorProofs`**, **`PollServerProofs`**, **`MessageDispatcherProofs`**,
**`OpenServerProofs`**, **`MessageComposerProofs`** and **`HeaderParserProofs`**
hold the theorems about the modules they are named after. `OpenServerProofs`
builds on `MessageProcessorProofs`, as `OpenServer` extends `MessageProcessor`;
the last two share **`SequenceFacts`**, lemmas about texts and about induction.

Definitions that start with the comment "Seeded bug" are not part of the model:
each is a variant of the definition after it with a bug a programmer could have
made there, used to confirm that a property can fail.

## Runs

| run | result | shows |
|---|---|---|
| `hand_over` | pass | no request lost or doubled (`HeldExactlyOnce`), no dispatcher asleep on a request (`NoSleepOnWork`), and the threads implement `RequestDistribution` (`DistributesRequests`); a woken processor empties its queue although dispatchers spin on their mutexes, and rotation gives every session its turn |
| `processor_lost_wakeup` | violation | `cv_.wait` without looking at the queue: a request sent while the processor is on its way to `wait` stays until the next one comes |
| `dispatcher_empty_front` | violation | a dispatcher takes a session before the notify for it; that late notify later makes it call `front()` on an empty queue |
| `poll_table` | pass | table, descriptors and events stay consistent through accept, close, reuse, squeeze and `poll()` failures; healthy connections are never closed; the slots in use never exceed twice the number of descriptors; descriptors of clients that left are given back and waiting clients accepted, also after `poll()` rejected a table with too many holes |
| `composer` | pass | requests that arrive whole are handed over as they were sent, whatever other connections left in the buffer; what gets out is always made of whole requests until some `recv` has filled the buffer |
| `composer_merge` | violation | a request in two pieces is continued with the whole receive buffer |
| `header_parser` | pass | links lead back to their files whatever spaces and percent signs the names have; the offsets stay in range for every line with a method, a path and a version |
| `open_server` | pass | a response never goes to another connection while the one that asked is open, and never to an older one; within a dispatcher only a request that had to wait for its client is overtaken |
| `responses` | pass | across partial sends, retries and rotations no place of a response is skipped or sent twice (`ResumesExactly`); uncached responses are delivered whole to clients that stay (`UncachedIsDeliveredWhole`); the cache entry of a file has its size and its blocks in their places, with zeros only behind the last block read (`CachedFileKeepsItsPlaces`); while no connection breaks, the session of a client that keeps reading comes to its end (`ReadingClientIsServed`) |
| `listing_race` | violation | another dispatcher changes the working directory in the middle of a listing |
| `truncated_response` | violation | a cached response is dropped when the socket is full; likewise all but the first chunk of a large file |
| `failed_send` | violation | after a send error an uncached listing is rebuilt and retried for ever |

### Bounds, and why they are enough

- `hand_over`: two dispatchers and five requests, so that the turn wraps around
  twice and three requests share a queue; the theorems cover all other sizes.
  The outcome `retry` is left out, as a session that fails for ever keeps its
  place in front, which is what `failed_send` shows; `open_server` has it.
- `poll_table`: two descriptors, so that neighbouring and separated holes, a
  hole before a connection and a reused descriptor occur; `Slots = 7` leaves
  room beyond what `TableFits` allows, so that a longer table is seen as a
  violation; `NfdsLimit = 3` is exceeded by tables with holes. One connection
  waiting (`MaxBacklog`) is no restriction on the accept loop, as clients may
  connect between two calls of `accept`. One piece of data per connection
  (`MaxSends`) can arrive before, between and after `poll` and `recv`; it also
  keeps a client from holding the poll thread in its receive loop for ever,
  which the code allows.
- `composer`: two sockets and three connections, so that one socket is used
  twice and another connection leaves bytes in the buffer; two requests, of five
  and six bytes, against a buffer of six: one is shorter than the buffer and one
  fills it, and two sent together come out of it in every possible division.
- `header_parser`: names of up to four characters out of a letter, a space and
  the three characters of the escape (the whole escape and its parts next to
  each other occur) and a line break; lines of up to ten letters and spaces, twice as long as the
  fixed offset 4.
- `open_server`: two sockets, two connections (a second one on the same socket
  or on the other), three requests on two dispatchers (two share a queue). No
  spurious wake-ups: they change nothing about who is written to.
- `responses`: two dispatchers, two sessions on the same or on different
  dispatchers, a file of one block, one of three with `FILE_CHUNK = 2`, a
  directory and a missing path: hits, misses, two simultaneous misses, reads
  that fail at every block, more than one chunk, partial sends at every point.
  The connection of one of the two sessions may break (`Fragile`), so that the
  other is served beside dead sockets and strangers; the properties say nothing
  of a session whose own connection is gone. A listing that is sent to one
  stranger after the other would be counted without end in `send_message_index`:
  `MaxIndex = 0` means that a stranger stays. `failed_send` has strangers that
  leave, and the theorems hold for every `MaxIndex` and `Fragile`.
- Deadlock is not checked where the number of requests is bounded: the threads
  then rightly wait for ever. `poll_table` checks it.

### Fairness

Threads keep running: weak fairness for the notify of the poll thread, the
processor, each dispatcher and the poll thread. The processor gets a
dispatcher's mutex although the dispatcher takes it again and again (strong
fairness of `AssignToWorker`): a starving `std::mutex` is allowed by the C++
standard, but not produced by the platform's futex-based one for ever.
`poll()` with an acceptable table does not fail for ever (strong fairness of
`Poll`). A client that keeps reading makes room in its socket (strong fairness
of `SendTo`). Nothing is assumed of clients that connect, send or leave, and
nothing of spurious wake-ups.

## Findings

The violation runs confirm six places where the code does not do what its own
comments say; `PROJECT.json` quotes them. In short: the processor and the
dispatchers wait on condition variables without a predicate
(`html_messageprocessor.cpp:64`, `http_message_dispatcher.cpp:74`); the second
piece of a request is joined with the whole buffer
(`html_messagecomposer.cpp:38`); `setCurrent` is shared by all dispatchers
(`http_message_dispatcher.cpp:293`); cached responses are given up half-way
(`:160`); failing uncached ones are never given up (`:130`).

Four things look wrong and are bounded by what the passing runs show. The
squeeze skips the slot after a hole (`poll_server.cpp:485`), yet the table never
takes more than twice as many slots as there are descriptors. Entries of the
composer outlive their connection, yet only whole requests get out until a
`recv` has returned 65535 bytes at once: the unused end of the buffer keeps a
garbled message from ending with a blank line, so it is never handed over, and
its client waits. A file that cannot be opened or read is answered, and cached
for ever, as zeros under its full Content-Length (`http_message_dispatcher.cpp:246`),
yet the size and the places of what was read are right. And a session keeps its socket number after the connection is
closed, yet its response reaches a stranger only when that number is in use
again.

## Theorems

They hold for every value of the constants that satisfies the named assumptions,
and each states a property that a run checks on a small instance. The inductive
invariants were checked with TLC before they were proved.

### The hand-over (`MessageProcessorProofs`)

For any number of dispatchers and requests, any subset of the outcomes, with or
without spurious wake-ups. Assumption: `ConstantsOK` (at least one dispatcher).

- `TypeCorrect`: `Spec => []TypeOK`. `TypeOK` alone is not inductive, since
  `pop()` on an empty queue has no type; `HasWhatItHandles` says that the
  processor's leftover copy and the session a dispatcher works on are there.
- `DispatcherWakes`: `Spec => []NoSleepOnWork`. Inductive with the types: the
  push makes `LastWorker` the only dispatcher that may be asleep on work, the
  notify wakes it, and a dispatcher goes to sleep only on an empty queue.
- `NoRequestLost`: `Spec => []HeldExactlyOnce`, strengthened by "only assigned
  requests are finished", so that a newly assigned number is new everywhere.
  The lemmas `AppendFacts`, `TailFacts` and `RotatedFacts` say what push, pop
  and rotation do to the elements of a queue.
- `ImplementsDistribution`: `Spec => DistributesRequests`. Initial states map to
  initial states; accepting, assigning and popping map to `Accept`, `Assign` and
  `Finish`, every other step to a stutter.

### The poll loop (`PollServerProofs`)

Assumptions: `ConstantsOK` and `TableIsLongEnough`, which says that the table
has more than two slots for every descriptor. The code's 100000 slots serve
49999 descriptors; a process is usually limited to 1024. Without the assumption
the theorems would be false, as the code does not test `nfds` against the length
of the table when it accepts.

The inductive invariant `PollInv` describes the table (`TableInv`: slot 0 is the
listener, slots below `nfds` are holes without events or open connections, slots
beyond were never used, every open descriptor has exactly one slot), the loops
(`LoopInv`) and the number of holes (`CountInv`).

- `TypeCorrect` (`TypeOK`), `TableIsRight` (`TableHoldsOpenDescriptors`) and
  `EventsAreNotInherited` (`EventsBelongToConnection`) follow from the invariant.
  That a closed slot has its events cleared, and that a slot beyond `nfds` never
  has any, is what the last one needs.
- `TableNeverOverflows` (`TableFits`). The squeeze moves the tail of the table
  over a hole and then goes on to the next slot, so that the second of two
  neighbouring holes stays. The bound is not inductive by itself: accepting
  needs room for the connections still to come. `CountInv` adds that holes are
  fewer than descriptors whenever no close is pending a squeeze, and that during
  a squeeze `nfds` plus the holes left behind it stay within two slots per
  descriptor, because each hole left behind follows one that was removed.
- `HealthyConnectionsStay` (`CloseOnlyAfterClient`), an action property: the step
  that closes finds an event that only a client's leaving can have caused.

### Responses (`MessageDispatcherProofs`)

For any dispatchers, sessions, files of any size, directories, any chunk size and
any bounds on broken connections. Assumption: `ConstantsOK` (kinds of paths are disjoint, a chunk is not
empty, the server starts in a directory).

None of the properties is inductive: what a session holds depends on how far
its dispatcher has got. The invariant `DispatchInv` says it for each place: a
session is in one place of one queue (`OneQueueEach`); one that is not being
worked on is new, or a listing that would have blocked and whose rest completes
what was delivered, or one whose connection is gone (`Waiting`); at each step of
an iteration the session in front is what that step needs (`FrontInv`, with
`Composing`, `Storing`, `SendingTo`); a cache entry of a file is what some miss on
it composes, `Beginning(p, got)` for the number of blocks that could be read
(`CacheInv`). `TurnStep` and `FrontStep` reduce every
step of a dispatcher to the session it works on; `Elsewhere` says that the others
do not notice. When the entry they are sending from is replaced, another part of
the file may have been read for the new one, but its parts have the same places:
`BeginningsAgree`, `PlacesLater` and `PlacesAfter` carry this over to what is
left to send.

- `TypeCorrect` (`TypeOK`) needs "a file is only read for a session that has sent
  nothing", otherwise its offset could be negative. This is why the branch that
  continues a file is dead code: a file's session is always cached by then.
- `NoGapsNoRepeats` (`ResumesExactly`). It is about places, not contents: a client
  may get blocks of the entry it began with and zeros of the one that replaced it.
- `NotGivenUpHalfWay` (`UncachedIsDeliveredWhole`). Sessions whose connection has
  broken are left out, in the property and in the invariant (`Continues`): when
  the socket number is reused, such a session is popped after its response was
  written to a stranger. What is proved is that this never happens to a client
  that stays, whatever happens to the others.
- `CacheEntriesAgree` (`CachedFileKeepsItsPlaces`). It does not say that a cached
  file has been read: with `got = 0` the whole body is zeros.

### The whole server (`OpenServerProofs`)

For any number of sockets, connections, requests and dispatchers. Assumptions:
`ConstantsOK` and `SocketsOK`.

- `ResponsesStayWithTheirConnection` (`StrangersOnlyAfterClose`), strengthened to
  `OwnerInv`: a connection has at most one socket, and the connection that has a
  session's socket is the one that asked or a later one.
- `OnlyDelayedAreOvertaken` (`NoOvertaking`), strengthened to `OrderInv`: in a
  dispatcher's queue the requests that never blocked are in the order of arrival.
  That every request is in one place comes from `NoRequestLost`: a step of
  `OpenServer` is one of `MessageProcessor` or leaves its variables alone
  (`HandOverStep`).

### Requests (`MessageComposerProofs`)

For any sockets, requests, buffer size and numbers of connections. Assumption:
`ConstantsOK`: a request begins with neither CR nor LF, since it begins with a
method, and ends with its only blank line. If one could begin with CR LF, the
blank line before it and these two bytes would make another blank line, and the
theorems would be false.

- `CompletePrefixSplits` is what they rest on: a prefix of requests joined end to
  end that `verifyMessageComplete` accepts consists of whole requests, and so
  does what follows it. By induction on the number of requests.
- The invariant `ComposerInv` says that a connection whose socket has no entry is
  at the beginning of a request, unless an entry of its socket was continued and
  completed; that this takes a full buffer, because as long as no `recv` has
  filled it the last byte of the buffer is NUL, and an entry that was continued
  ends with that byte; and that nothing is left to read on a closed socket.
- `TypeCorrect` (`TypeOK`), `PiecesStayWhole` (`WholePiecesArriveIntact`) and
  `GarbledOnlyByFullBuffer` (`GarbledNeedsFullBuffer`) follow.

### Paths (`HeaderParserProofs`)

For any characters and lengths of names and lines. Assumption: `ConstantsOK`
(the bounds are natural numbers).

- `LinesParse` (`RequestLineParses`): every request has a first end of line, and
  the second of the two spaces lies behind offset 4 and before the end of the
  cut, so that the cut is in range and has a space in it.
- `LinksWork` (`LinksLeadBack`): the path cut out of the request for a link is the
  encoded name (`CutOut`), and decoding it gives the name (`RoundTrip`, by
  induction on its length). The step of the induction is that no escape reaches
  from the encoding of a name into the next character (`EscapesStay`): it would
  have to consist of a percent sign and a 2 that stand in the name itself, and a
  0 behind them, which is the escape that the property excludes. So is a line
  break, which no one encodes and which ends the request line early.

### Induction (`SequenceFacts`)

The library's induction rules take an operator as a parameter, which the provers
cannot instantiate. `SetInduction` is about a set instead: a set of naturals that
contains 0, and n + 1 with every n, is Nat; it follows from the well-foundedness
of `<` on Nat (`LeastNatural`). With the set of lengths for which a statement
holds it proves what `FlattenSeq` computes, and the inductions above.

### Only model-checked

All liveness (`WokenProcessorDrains`, `WaitingClientIsAccepted` and the others),
which takes fairness and ENABLED, and the violations.

## What is not modelled

- The close queue (`checkClosedSessions`, `qclients_close`): sessions enter it
  only when `keep_alive` is false, and nothing ever sets it to false.
- In the poll loop: a descriptor 0 from `accept`, error events on the listening
  socket, socket options, the end of the loop (`end_server` is never set).
- TLS: the functions that would set it up are empty or commented out and
  `use_ssl_` is false. The vendored OpenSSL, by far the largest part of the
  repository, is third-party code that no path of this program calls; modelling
  it would say nothing about the server.
- `main.cpp`, logging, MIME types and HTML formatting.
- In `PollServer` received data disappears into the composer, and in
  `MessageDispatcher` a session arrives with its path: `MessageComposer` and
  `HeaderParser` model what happens to both.
- Requests with a body, and several requests received as one: the code treats
  everything up to a final blank line as one request.
- Files and directories that change while the server runs: sizes are constant,
  and a read that ends early is one of the failures of `ReadFile`.

## Plan

All parts of the server that can be modelled have a module, and every safety
property that a passing run checks is a theorem. What is left:

1. Action properties that say more about single steps of the composition, where
   an invariant only describes the states between them.
2. Composing `MessageComposer` with `HeaderParser`: that what the composer hands
   over for a request that arrives in one piece is what the parser expects.
