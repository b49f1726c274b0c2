-------------------------- MODULE MessageComposer --------------------------
(***************************************************************************)
(* HTML_MessageComposer: the poll thread receives the bytes of a request in*)
(* one or more pieces, and the composer keeps what has arrived on a socket *)
(* in messages_ until it ends with a blank line.                           *)
(*                                                                         *)
(* All connections are received into one buffer, which keeps the bytes of  *)
(* earlier pieces after the ones just received.  Descriptors are reused,   *)
(* and closing a connection does not tell the composer (onClientDisconnect *)
(* has no caller).                                                         *)
(***************************************************************************)
EXTENDS Integers, SequencesExt

CONSTANTS
    Sockets,         \* descriptors of connections
    Requests,        \* what clients send: texts that begin with a method and
                     \* end with their only blank line
    BufSize,         \* length of recv_buffer, 65535 in the code
    MaxConnections,  \* bound on the connections of a behaviour
    MaxRequests      \* bound on the requests of a behaviour

BlankLine == <<"CR", "LF", "CR", "LF">>

\* verifyMessageComplete: the last four bytes are a blank line.
Complete(m) == Len(m) > 3 /\ IsSuffix(BlankLine, m)

ASSUME ConstantsOK ==
    /\ BufSize \in Nat \ {0} /\ MaxConnections \in Nat /\ MaxRequests \in Nat
    /\ \A r \in Requests :
         /\ r \in Seq(STRING) /\ Len(r) > 3 /\ r[1] \notin {"CR", "LF"}
         /\ \A k \in 4 .. Len(r) : Complete(SubSeq(r, 1, k)) <=> k = Len(r)

Bytes == {"NUL"} \cup UNION {ToSet(r) : r \in Requests}

VARIABLES
    recv_buffer,  \* shared by all connections
    messages_,    \* messages_[f]: what is stored for f, <<>> when f has no entry
    open,         \* descriptors of open connections
    unread,       \* unread[f]: bytes sent on f's connection and not received yet
    connections,  \* connections so far
    requests,     \* requests so far
    arrived,      \* history: bytes received on f's connection since a hand-over
    merged,       \* history: sockets whose connection has met a stored entry
    filled,       \* history: some recv() has filled the buffer
    handed        \* history: the latest message handed over

clientVars == <<open, unread, connections, requests>>
vars == <<recv_buffer, messages_, clientVars, arrived, merged, filled, handed>>

Init ==
    /\ recv_buffer = [k \in 1 .. BufSize |-> "NUL"]
    /\ messages_ = [f \in Sockets |-> <<>>]
    /\ open = {} /\ connections = 0 /\ requests = 0
    /\ unread = [f \in Sockets |-> <<>>]
    /\ arrived = [f \in Sockets |-> <<>>]
    /\ merged = {} /\ filled = FALSE
    /\ handed = [request |-> <<>>, arrived |-> <<>>, merged |-> FALSE]

-----------------------------------------------------------------------------
\* Connections come, send requests and go; the composer is not called.

Connect(f) ==
    /\ f \notin open
    /\ connections < MaxConnections
    /\ connections' = connections + 1
    /\ open' = open \cup {f}
    /\ arrived' = [arrived EXCEPT ![f] = <<>>]
    /\ merged' = merged \ {f}
    /\ UNCHANGED <<recv_buffer, messages_, unread, requests, filled, handed>>

ClientSends(f, r) ==
    /\ f \in open
    /\ requests < MaxRequests
    /\ requests' = requests + 1
    /\ unread' = [unread EXCEPT ![f] = @ \o r]
    /\ UNCHANGED <<recv_buffer, messages_, open, connections, arrived, merged,
                   filled, handed>>

\* The connection is closed, and what was not received is gone.
Disconnect(f) ==
    /\ f \in open
    /\ open' = open \ {f}
    /\ unread' = [unread EXCEPT ![f] = <<>>]
    /\ UNCHANGED <<recv_buffer, messages_, connections, requests, arrived, merged,
                   filled, handed>>

-----------------------------------------------------------------------------
\* recv() and onClientDataArrived.

\* The buffer after recv() has written data into it.  Seeded bug: it is cut to
\* the data.
ReceivedCut(data) == data

Received(data) == data \o SubSeq(recv_buffer, Len(data) + 1, BufSize)

\* Seeded bugs: the whole buffer is stored; only data_size bytes are appended,
\* but the entry of an earlier connection is still continued.
StoredBuffer(data, data_size) == data

MergedData(stored, data, data_size) == stored \o SubSeq(data, 1, data_size)

\* The socket has no entry: the data_size bytes received are stored.
StoredFirst(data, data_size) == SubSeq(data, 1, data_size)

\* It has one: the whole vector is appended to it.
StoredMerge(stored, data, data_size) == stored \o data

\* A complete message goes to onNewClientMessage and its entry is erased.
onClientDataArrived(f, data, data_size) ==
    LET message == IF messages_[f] = <<>>
                   THEN StoredFirst(data, data_size)
                   ELSE StoredMerge(messages_[f], data, data_size)
        sofar == arrived[f] \o SubSeq(data, 1, data_size)
        joins == f \in merged \/ messages_[f] # <<>>
    IN
    /\ merged' = IF joins THEN merged \cup {f} ELSE merged
    /\ \/ /\ Complete(message)
          /\ handed' = [request |-> message, arrived |-> sofar, merged |-> joins]
          /\ messages_' = [messages_ EXCEPT ![f] = <<>>]
          /\ arrived' = [arrived EXCEPT ![f] = <<>>]
       \/ /\ ~Complete(message)
          /\ messages_' = [messages_ EXCEPT ![f] = message]
          /\ arrived' = [arrived EXCEPT ![f] = sofar]
          /\ UNCHANGED handed

\* recv() returns any part of what was sent that fits the buffer.
Receive(f, n) ==
    /\ f \in open
    /\ n \in 1 .. BufSize /\ n <= Len(unread[f])
    /\ recv_buffer' = Received(SubSeq(unread[f], 1, n))
    /\ unread' = [unread EXCEPT ![f] = SubSeq(@, n + 1, Len(@))]
    /\ filled' = (filled \/ n = BufSize)
    /\ onClientDataArrived(f, recv_buffer', n)
    /\ UNCHANGED <<open, connections, requests>>

Next ==
    \E f \in Sockets :
        \/ Connect(f)
        \/ \E r \in Requests : ClientSends(f, r)
        \/ \E n \in 1 .. BufSize : Receive(f, n)
        \/ Disconnect(f)

Spec == Init /\ [][Next]_vars

-----------------------------------------------------------------------------
\* Properties.

\* One or more whole requests.
WholeRequests ==
    {FlattenSeq(q) : q \in UNION {[1 .. k -> Requests] : k \in 1 .. MaxRequests}}

\* Every variable keeps to the values its C++ counterpart can have.
TypeOK ==
    /\ recv_buffer \in [1 .. BufSize -> Bytes]
    /\ messages_ \in [Sockets -> Seq(Bytes)]
    /\ open \subseteq Sockets
    /\ unread \in [Sockets -> Seq(Bytes)]
    /\ connections \in 0 .. MaxConnections
    /\ requests \in 0 .. MaxRequests
    /\ arrived \in [Sockets -> Seq(Bytes)]
    /\ merged \subseteq Sockets
    /\ filled \in BOOLEAN
    /\ handed \in [request : Seq(Bytes), arrived : Seq(Bytes), merged : BOOLEAN]

\* As long as its requests arrive in one piece, a connection on a socket with
\* nothing stored is untouched by the others and by the shared buffer: what is
\* handed over is what it sent since the last time, one or more whole requests.
WholePiecesArriveIntact ==
    handed.request # <<>> /\ ~handed.merged =>
        handed.request = handed.arrived /\ handed.request \in WholeRequests

\* Pieces are not joined rightly (see PiecesAreJoined), nor is an entry erased
\* when its connection closes; but what gets out of the composer are whole
\* requests, until some recv() has filled the buffer up to its end.
GarbledNeedsFullBuffer ==
    handed.request # <<>> /\ ~filled => handed.request \in WholeRequests

\* html_messagecomposer.cpp:36 "there is data already, so I merge them" and :49
\* "I wait for the next message to join it": what is stored for a socket is
\* what its connection has sent.
PiecesAreJoined ==
    \A f \in open : messages_[f] = arrived[f]
=============================================================================
