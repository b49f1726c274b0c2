------------------------- MODULE MessageDispatcher -------------------------
(***************************************************************************)
(* What the dispatcher threads do with the sessions in their queues:       *)
(* HTTP_Message_Dispatcher::onClientRequest builds a response, and         *)
(* dispatchMessageQueue sends it, over one or more iterations of its loop. *)
(* The dispatchers share the response cache and the working directory of   *)
(* the process; nothing but the queue of each is protected by a lock, which*)
(* its dispatcher holds for a whole iteration (module MessageProcessor     *)
(* models the lock and the wait).                                          *)
(*                                                                         *)
(* A response is a sequence of parts.  A part is the unit that send() can  *)
(* write, and files are measured in parts: the header is one, a file has   *)
(* FileSize[p] "block" parts, and a listing has three, for the three times *)
(* the code asks for the working directory: the entry names, the absolute  *)
(* links and the heading.  The n of a header is its Content-Length.  Where *)
(* a block of a file could not be read the response has "zeros".           *)
(***************************************************************************)
EXTENDS Integers, Sequences

CONSTANTS
    Dispatchers,
    Sessions,    \* the requests of a behaviour
    FileSize,    \* [path of a file -> its size in parts]
    Dirs,        \* paths of directories
    Missing,     \* paths that do not exist
    StartDir,    \* the directory the server was started in
    FILE_CHUNK,  \* most parts of a file read at once
    MaxIndex,    \* bound: for sessions that have sent as much strangers stay
    Fragile,     \* bound: sessions whose connection may break
    NoPath

Files == DOMAIN FileSize
Paths == Files \cup Dirs \cup Missing

ASSUME ConstantsOK ==
    /\ FileSize \in [Files -> Nat]
    /\ Files \cap Dirs = {} /\ Files \cap Missing = {} /\ Dirs \cap Missing = {}
    /\ FILE_CHUNK \in Nat \ {0} /\ MaxIndex \in Nat
    /\ Fragile \subseteq Sessions /\ StartDir \in Dirs /\ NoPath \notin Paths

VARIABLES
    queue,      \* queue[d]: client_sessions_req_resp_queue_
    pc,         \* pc[d]: where in its iteration dispatcher d is
    session,    \* session[s]: the fields of the ClientSession of s
    draft,      \* draft[d]: the listing d is putting together
    total_bytes,\* total_bytes[d]: parts sent in this iteration
    cache_,     \* cache_[p]: the cached response, <<>> when p has no entry
    cwd,        \* the working directory of the process
    broken,     \* sessions whose connection has gone before they were over
    reused,     \* those of them whose socket number another connection has now
    delivered,  \* history: what send() has written to the connection of s
    response    \* history: the response composed or found for s

sharedVars == <<cache_, cwd>>
socketVars == <<broken, reused, delivered>>
vars == <<queue, pc, session, draft, total_bytes, sharedVars, socketVars, response>>

NewSession(p) ==
    [path |-> p, ewouldblock_flag |-> FALSE, is_cached |-> FALSE,
     send_message |-> <<>>, send_message_has_more_bytes |-> FALSE,
     send_message_index |-> 0, send_message_header_size |-> 0]

Init ==
    /\ queue = [d \in Dispatchers |-> <<>>]
    /\ pc = [d \in Dispatchers |-> "idle"]
    /\ session = [s \in Sessions |-> NewSession(NoPath)]
    /\ draft = [d \in Dispatchers |-> <<>>]
    /\ total_bytes = [d \in Dispatchers |-> 0]
    /\ cache_ = [p \in Paths |-> <<>>]
    /\ cwd = StartDir
    /\ broken = {} /\ reused = {}
    /\ delivered = [s \in Sessions |-> <<>>]
    /\ response = [s \in Sessions |-> <<>>]

-----------------------------------------------------------------------------
\* The environment: requests arrive, connections break, accept() hands out
\* their socket numbers again.

onNewMessageArrived(d, s, p) ==
    /\ pc[d] = "idle"
    /\ session[s].path = NoPath
    /\ session' = [session EXCEPT ![s] = NewSession(p)]
    /\ queue' = [queue EXCEPT ![d] = Append(@, s)]
    /\ UNCHANGED <<pc, draft, total_bytes, sharedVars, response, socketVars>>

Queued(s) == \E d \in Dispatchers : \E i \in DOMAIN queue[d] : queue[d][i] = s

\* The connection that has the socket number of s, be it the one that asked or
\* a later one, breaks.  For a session that is over it does not matter.  Without
\* MaxIndex, a listing that is sent to one leaving stranger after the other would
\* be counted without end.
ConnectionBreaks(s) ==
    /\ s \in Fragile /\ Queued(s)
    /\ s \in reused => session[s].send_message_index < MaxIndex
    /\ broken' = broken \cup {s}
    /\ reused' = reused \ {s}
    /\ UNCHANGED <<queue, pc, session, draft, total_bytes, sharedVars, delivered,
                   response>>

\* The poll thread has closed the socket and accept() returns its number for a
\* new connection: send() for s succeeds again, and writes to a stranger.
SocketReused(s) ==
    /\ Queued(s)
    /\ s \in broken \ reused
    /\ reused' = reused \cup {s}
    /\ UNCHANGED <<queue, pc, session, draft, total_bytes, sharedVars, broken,
                   delivered, response>>

\* Nobody has the socket number of s: send() fails.
Dead(s) == s \in broken \ reused

-----------------------------------------------------------------------------
\* Building the response: onClientRequest.

Current(d) == Head(queue[d])
CurrentSession(d) == session[Current(d)]

\* A front session that would have blocked goes to the back if it is not alone.
Rotated(q) ==
    IF session[Head(q)].ewouldblock_flag /\ Len(q) > 1
    THEN Append(Tail(q), Head(q))
    ELSE q

\* Seeded bug: a session that is alone in its queue is left waiting.
HasCompany(d) == Len(queue[d]) > 1

HasWork(d) == queue[d] # <<>>

\* A session that would have blocked has its response already; for another one
\* the path decides.
Begin(d) ==
    LET q == Rotated(queue[d])  c == session[Head(q)] IN
    /\ pc[d] = "idle"
    /\ HasWork(d)
    /\ queue' = [queue EXCEPT ![d] = q]
    /\ session' = [session EXCEPT ![Head(q)].ewouldblock_flag = FALSE]
    /\ pc' = [pc EXCEPT ![d] = IF c.ewouldblock_flag THEN "send"
                               ELSE IF c.path \in Files THEN "find"
                               ELSE "chdir"]
    /\ UNCHANGED <<draft, total_bytes, sharedVars, response, socketVars>>

Header(length) == <<[part |-> "header", of |-> NoPath, n |-> length]>>

\* The session after clear() and the inserts that put its response together.
Composed(c, include_header, body, pending_bytes) ==
    [c EXCEPT
       !.send_message =
            (IF include_header THEN Header(Len(body) + pending_bytes) ELSE <<>>) \o body,
       !.send_message_header_size = IF include_header THEN 1 ELSE @]

\* Seeded bug: Content-Length is the size of the chunk.
PendingNone(p, rest) == 0

\* What the chunk leaves of the file, for Content-Length.
Pending(p, rest) == IF rest > FILE_CHUNK THEN FileSize[p] - FILE_CHUNK ELSE 0

\* Reading the file from where the session has got to, at most FILE_CHUNK, with
\* a header unless the response is being continued.  Nobody looks at what open(),
\* seek() and read() return: after the got blocks that read() has delivered, none
\* when open() has failed, the buffer keeps the zeros of resize().  size() does
\* not need an open file.
WithFile(c, got) ==
    LET sent == c.send_message_index - c.send_message_header_size
        rest == FileSize[c.path] - sent
        more == rest > FILE_CHUNK
        body == [k \in 1 .. (IF more THEN FILE_CHUNK ELSE rest) |->
                    [part |-> IF k <= got THEN "block" ELSE "zeros",
                     of |-> c.path, n |-> sent + k]]
    IN  [Composed(c, ~c.send_message_has_more_bytes, body, Pending(c.path, rest))
           EXCEPT !.send_message_has_more_bytes = more]

\* The path is a file in the cache.
FindCached(d) ==
    LET s == Current(d) IN
    /\ pc[d] = "find"
    /\ cache_[session[s].path] # <<>>
    /\ session' = [session EXCEPT ![s].is_cached = TRUE]
    /\ response' = [response EXCEPT ![s] = cache_[session[s].path]]
    /\ pc' = [pc EXCEPT ![d] = "send"]
    /\ UNCHANGED <<queue, draft, total_bytes, sharedVars, socketVars>>

\* It is not: the response is read from the file, and is to be cached.
ReadFile(d, got) ==
    LET s == Current(d)  c == WithFile(session[s], got) IN
    /\ pc[d] = "find"
    /\ cache_[session[s].path] = <<>>
    /\ session' = [session EXCEPT ![s] = c]
    /\ response' = [response EXCEPT ![s] = c.send_message]
    /\ pc' = [pc EXCEPT ![d] = "store"]
    /\ UNCHANGED <<queue, draft, total_bytes, sharedVars, socketVars>>

\* Seeded bug: a failure is not noticed.
PathTaken(p) == p

\* QDir::setCurrent changes the directory of the whole process, and leaves it
\* when it fails.
CwdAfter(p) == IF p \in Dirs THEN p ELSE cwd

\* Whether it has failed is logged and otherwise ignored.
SetCurrent(d) ==
    /\ pc[d] = "chdir"
    /\ cwd' = CwdAfter(CurrentSession(d).path)
    /\ pc' = [pc EXCEPT ![d] = "names"]
    /\ UNCHANGED <<queue, session, draft, total_bytes, cache_, response, socketVars>>

\* entryInfoList(), then absoluteFilePath() of the entries.
ReadDirectory(d, part, n, next) ==
    /\ pc[d] = part
    /\ draft' = [draft EXCEPT ![d] = Append(@, [part |-> part, of |-> cwd, n |-> n])]
    /\ pc' = [pc EXCEPT ![d] = next]
    /\ UNCHANGED <<queue, session, total_bytes, sharedVars, response, socketVars>>

ListNames(d) == ReadDirectory(d, "names", 1, "links")
ListLinks(d) == ReadDirectory(d, "links", 2, "heading")

\* The heading completes the listing.  should_cache_response has not been
\* assigned on this path, so that it is cached or not.
ListHeading(d) ==
    LET s == Current(d)
        body == <<[part |-> "heading", of |-> cwd, n |-> 0]>> \o draft[d]
        c == Composed(session[s], TRUE, body, 0)
    IN
    /\ pc[d] = "heading"
    /\ session' = [session EXCEPT ![s] = c]
    /\ response' = [response EXCEPT ![s] = c.send_message]
    /\ draft' = [draft EXCEPT ![d] = <<>>]
    /\ \E should_cache_response \in BOOLEAN :
         pc' = [pc EXCEPT ![d] = IF should_cache_response THEN "store" ELSE "send"]
    /\ UNCHANGED <<queue, total_bytes, sharedVars, socketVars>>

\* The response is moved into the cache, over what another dispatcher may have
\* put there since this one looked.
Store(d) ==
    LET s == Current(d) IN
    /\ pc[d] = "store"
    /\ cache_' = [cache_ EXCEPT ![session[s].path] = session[s].send_message]
    /\ session' = [session EXCEPT ![s].send_message = <<>>, ![s].is_cached = TRUE]
    /\ pc' = [pc EXCEPT ![d] = "send"]
    /\ UNCHANGED <<queue, draft, total_bytes, cwd, response, socketVars>>

\* cache_mutex is never locked: while one dispatcher changes the map another
\* may search it, change it or send from the vector that is replaced.  Neither
\* of the two has a defined behaviour from there on.
CacheRace(d) ==
    /\ pc[d] = "store"
    /\ \E e \in Dispatchers \ {d} :
         /\ \/ pc[e] \in {"find", "store"}
            \/ /\ pc[e] = "send"
               /\ CurrentSession(e).is_cached
               /\ CurrentSession(e).path = CurrentSession(d).path
         /\ pc' = [pc EXCEPT ![d] = "undefined", ![e] = "undefined"]
    /\ UNCHANGED <<queue, session, draft, total_bytes, sharedVars, response, socketVars>>

-----------------------------------------------------------------------------
\* Sending: the rest of dispatchMessageQueue.

ResponseData(c) == IF c.is_cached THEN cache_[c.path] ELSE c.send_message

\* bytesleft, which the code counts down from the size the response had when
\* sending began: a file's cache entry is only ever replaced by one as long.
Unsent(d) ==
    LET r == ResponseData(CurrentSession(d)) IN SubSeq(r, total_bytes[d] + 1, Len(r))

\* send() writes k parts, to the connection of the session or, when that one is
\* gone, to the one that has its socket number.
Send(d, k) ==
    /\ pc[d] = "send"
    /\ k \in 1 .. Len(Unsent(d))
    /\ ~Dead(Current(d))
    /\ delivered' = IF Current(d) \in broken THEN delivered
                    ELSE [delivered EXCEPT ![Current(d)] = @ \o SubSeq(Unsent(d), 1, k)]
    /\ total_bytes' = [total_bytes EXCEPT ![d] = @ + k]
    /\ UNCHANGED <<queue, pc, session, draft, sharedVars, response, broken, reused>>

\* Seeded bug: what was sent is not erased.
CountedOnly(c, n) == [c EXCEPT !.send_message_index = @ + n]

\* The n parts sent are counted and, unless they are in the cache, erased.
CountedAndErased(c, n) ==
    [c EXCEPT !.send_message_index = @ + n,
              !.send_message = IF c.is_cached THEN @ ELSE SubSeq(@, n + 1, Len(@))]

\* Seeded bug: a session is over although there is something left to send.
OverHalfWay(c) == c.is_cached \/ ~c.send_message_has_more_bytes

Over(c) ==
    c.is_cached \/ (c.send_message = <<>> /\ ~c.send_message_has_more_bytes)

\* After the send loop.  A session that is over is popped; keep_alive is never
\* false, so none is queued for closing.
EndIteration(d, c) ==
    LET e == CountedAndErased(c, total_bytes[d]) IN
    /\ session' = [session EXCEPT ![Current(d)] = e]
    /\ queue' = [queue EXCEPT ![d] = IF Over(e) THEN Tail(@) ELSE @]
    /\ total_bytes' = [total_bytes EXCEPT ![d] = 0]
    /\ pc' = [pc EXCEPT ![d] = "idle"]
    /\ UNCHANGED <<draft, sharedVars, response, socketVars>>

SendAll(d) ==
    /\ pc[d] = "send"
    /\ Unsent(d) = <<>>
    /\ EndIteration(d, CurrentSession(d))

\* send() fails with EWOULDBLOCK.
SendWouldBlock(d) ==
    /\ pc[d] = "send"
    /\ Unsent(d) # <<>>
    /\ ~Dead(Current(d))
    /\ EndIteration(d, [CurrentSession(d) EXCEPT !.ewouldblock_flag = TRUE])

\* send() fails for another reason, or returns 0: only the fields of a cached
\* session are reset.
SendFails(d) ==
    LET c == CurrentSession(d) IN
    /\ pc[d] = "send"
    /\ Unsent(d) # <<>>
    /\ Dead(Current(d))
    /\ EndIteration(d, IF c.is_cached
                       THEN [c EXCEPT !.send_message = <<>>,
                                      !.send_message_has_more_bytes = FALSE]
                       ELSE c)

-----------------------------------------------------------------------------
Arrivals ==
    \E d \in Dispatchers : \E s \in Sessions : \E p \in Paths :
        onNewMessageArrived(d, s, p)

Sending(d) ==
    \/ \E k \in 1 .. 3 + FILE_CHUNK : Send(d, k)
    \/ SendAll(d)
    \/ SendWouldBlock(d)
    \/ SendFails(d)

Dispatcher(d) ==
    \/ Begin(d)
    \/ FindCached(d)
    \/ \E got \in 0 .. FILE_CHUNK : ReadFile(d, got)
    \/ SetCurrent(d) \/ ListNames(d) \/ ListLinks(d) \/ ListHeading(d)
    \/ Store(d) \/ CacheRace(d)
    \/ Sending(d)

Next ==
    \/ Arrivals
    \/ \E s \in Sessions : ConnectionBreaks(s) \/ SocketReused(s)
    \/ \E d \in Dispatchers : Dispatcher(d)

Spec == Init /\ [][Next]_vars

(***************************************************************************)
(* Dispatcher threads keep running.  A client that keeps reading makes room*)
(* in its socket again and again, so that send() cannot find it full for   *)
(* ever: sending to a session is strongly fair.                            *)
(***************************************************************************)
SendTo(s) ==
    \E d \in Dispatchers :
        /\ queue[d] # <<>>
        /\ Current(d) = s
        /\ \E k \in 1 .. 3 + FILE_CHUNK : Send(d, k)

FairSpec ==
    /\ Spec
    /\ \A d \in Dispatchers : WF_vars(Dispatcher(d))
    /\ \A s \in Sessions : SF_vars(SendTo(s))

-----------------------------------------------------------------------------
\* Properties.

Part == [part : {"header", "block", "zeros", "names", "links", "heading"},
         of : Paths \cup {NoPath}, n : Nat]

\* Every variable keeps to the values its C++ counterpart can have.
TypeOK ==
    /\ queue \in [Dispatchers -> Seq(Sessions)]
    /\ pc \in [Dispatchers -> {"idle", "find", "chdir", "names", "links",
                               "heading", "store", "send", "undefined"}]
    /\ session \in [Sessions ->
          [path : Paths \cup {NoPath}, ewouldblock_flag : BOOLEAN,
           is_cached : BOOLEAN, send_message : Seq(Part),
           send_message_has_more_bytes : BOOLEAN,
           send_message_index : Nat, send_message_header_size : 0 .. 1]]
    /\ draft \in [Dispatchers -> Seq(Part)]
    /\ total_bytes \in [Dispatchers -> Nat]
    /\ cache_ \in [Paths -> Seq(Part)]
    /\ cwd \in Dirs
    /\ broken \in SUBSET Sessions
    /\ reused \in SUBSET broken
    /\ delivered \in [Sessions -> Seq(Part)]
    /\ response \in [Sessions -> Seq(Part)]

\* Two unsynchronised accesses to cache_ have met.
Undefined == \E d \in Dispatchers : pc[d] = "undefined"

Finished(s) == session[s].path # NoPath /\ ~Queued(s)

\* The places the parts of m have in a response, read or not.
Place(x) == [part |-> IF x.part = "zeros" THEN "block" ELSE x.part, of |-> x.of, n |-> x.n]
Places(m) == [k \in DOMAIN m |-> Place(m[k])]

\* Across any number of sends, would-blocks and rotations, what the client has
\* and what is still to be sent fill the places of the response one by one, with
\* no gap and none twice; for a file even while other dispatchers replace its
\* cache entry, by one of which other blocks may have been read.
ResumesExactly ==
    \A d \in Dispatchers : \A i \in DOMAIN queue[d] :
        LET s == queue[d][i]
            rest == IF i = 1 /\ pc[d] = "send" THEN Unsent(d)
                    ELSE session[s].send_message
        IN  /\ s \notin broken
            /\ pc[d] # "undefined"
            /\ response[s] # <<>>
            /\ session[s].is_cached => session[s].path \in Files
            => Places(delivered[s] \o rest) = Places(response[s])

\* A response that is not in the cache is never given up half-way, unless the
\* connection it is for has broken: the socket number may then be another's, and
\* what is sent there is not what the client of s gets.
UncachedIsDeliveredWhole ==
    \A s \in Sessions :
        Finished(s) /\ ~session[s].is_cached /\ s \notin broken
            => delivered[s] = response[s]

\* Whichever dispatcher fills the entry of a file, however many do so at once and
\* whatever they could read, the entry announces the size of the whole file and
\* has as many parts as the file's first chunk; these are the file's blocks from
\* the first one on, each in its place, followed by zeros where read() stopped.
CachedFileKeepsItsPlaces ==
    \A p \in Files :
        cache_[p] # <<>> =>
            /\ cache_[p][1].part = "header"
            /\ cache_[p][1].n = FileSize[p]
            /\ \E got \in 0 .. FILE_CHUNK : \A k \in 2 .. Len(cache_[p]) :
                 cache_[p][k] = [part |-> IF k - 1 <= got THEN "block" ELSE "zeros",
                                 of |-> p, n |-> k - 1]
            /\ Len(cache_[p]) > FILE_CHUNK \/ Len(cache_[p]) = FileSize[p] + 1

\* http_message_dispatcher.cpp:215 "if the url is a file I return the file,
\* otherwise a list of the directories and files as html": the listing is the
\* one of the requested directory.
ListsRequestedDirectory ==
    \A s \in Sessions :
        session[s].path \in Dirs =>
            \A k \in 2 .. Len(response[s]) : response[s][k].of = session[s].path

\* As long as no connection breaks, the session of a client that keeps reading
\* comes to its end.
ReadingClientIsServed ==
    \A s \in Sessions : Queued(s) ~> (~Queued(s) \/ broken # {} \/ Undefined)

\* http_message_dispatcher.cpp:158 "if the whole message has been sent and no
\* continuation is needed, then I delete the session from the queue".
DeletedWhenSent ==
    \A s \in Sessions :
        Finished(s) /\ s \notin broken =>
            Len(delivered[s]) = response[s][1].n + 1

\* http_message_dispatcher.cpp:129 "another error, so I finish processing".
FailedSendEndsProcessing ==
    \A s \in Sessions : s \in broken ~> (~Queued(s) \/ Undefined)
=============================================================================
