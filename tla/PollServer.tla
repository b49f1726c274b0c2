----------------------------- MODULE PollServer -----------------------------
(***************************************************************************)
(* PollServer::start: the pollfd table, the poll loop and the descriptors  *)
(* the kernel hands out, with clients that connect, send, hang up or reset *)
(* between any two system calls of the loop.                               *)
(*                                                                         *)
(* A step is one system call or one slot of a loop over the table.  Of a   *)
(* pollfd only fd and revents matter (every slot asks for POLLIN): revents *)
(* is "none", "in" when POLLIN is set, or "other".  Setting up the         *)
(* listening socket is Init; data received goes to the message composer,   *)
(* which is not part of this module.  fds[k].fd is 0 in a slot that was    *)
(* never used, -1 in one whose connection was closed.                      *)
(***************************************************************************)
EXTENDS Integers, FiniteSets

CONSTANTS
    listen_sd,    \* the listening descriptor
    Descriptors,  \* descriptors the process limit leaves for connections
    Slots,        \* length of the fds array, 100000 in the code
    NfdsLimit,    \* RLIMIT_NOFILE: poll() fails with EINVAL on more slots
    MaxBacklog,   \* listen() backlog, 32 in the code
    MaxSends      \* bound on the pieces of data one connection sends

ASSUME ConstantsOK ==
    /\ listen_sd \in Nat \ {0} /\ Descriptors \subseteq Nat \ {0, listen_sd}
    /\ Descriptors # {} /\ Slots \in Nat \ {0} /\ {NfdsLimit, MaxBacklog, MaxSends} \subseteq Nat

\* The array has two slots per descriptor and one to spare: 100000 of them serve
\* 49999 connections, and a process may have 1024 unless its limit is raised.
ASSUME TableIsLongEnough ==
    IsFiniteSet(Descriptors) /\ 2 * Cardinality(Descriptors) < Slots

VARIABLES
    fds,            \* the pollfd table
    nfds,           \* slots in use
    compress_array,
    pc,             \* where the loop is
    i,              \* the slot a loop over the table is at
    current_size,   \* nfds when the scan began
    backlog,        \* connections waiting to be accepted
    peer,           \* peer[f]: "free", or what f's client has done last
    data,           \* data[f]: unread data is waiting on f
    sends,          \* sends[f]: pieces of data f's client may still send
    reported        \* history: connections some poll() reported an event of

loopVars == <<pc, i, current_size>>
tableVars == <<fds, nfds, compress_array>>
clientVars == <<backlog, peer, data, sends>>
vars == <<tableVars, loopVars, clientVars, reported>>

Init ==
    /\ fds = [k \in 0 .. Slots - 1 |->
                [fd |-> IF k = 0 THEN listen_sd ELSE 0, revents |-> "none"]]
    /\ nfds = 1 /\ compress_array = FALSE
    /\ pc = "poll" /\ i = 0 /\ current_size = 0
    /\ backlog = 0 /\ reported = {}
    /\ peer = [f \in Descriptors |-> "free"]
    /\ data = [f \in Descriptors |-> FALSE]
    /\ sends = [f \in Descriptors |-> 0]

-----------------------------------------------------------------------------
\* Clients.

ClientConnect ==
    /\ backlog < MaxBacklog
    /\ backlog' = backlog + 1
    /\ UNCHANGED <<peer, data, sends, reported, tableVars, loopVars>>

ClientSend(f) ==
    /\ peer[f] = "open"
    /\ sends[f] > 0
    /\ sends' = [sends EXCEPT ![f] = @ - 1]
    /\ data' = [data EXCEPT ![f] = TRUE]
    /\ UNCHANGED <<backlog, peer, reported, tableVars, loopVars>>

ClientHangUp(f) ==
    /\ peer[f] = "open"
    /\ peer' = [peer EXCEPT ![f] = "closed"]
    /\ UNCHANGED <<backlog, data, sends, reported, tableVars, loopVars>>

\* A reset discards what the client had sent.
ClientReset(f) ==
    /\ peer[f] = "open"
    /\ peer' = [peer EXCEPT ![f] = "reset"]
    /\ data' = [data EXCEPT ![f] = FALSE]
    /\ UNCHANGED <<backlog, sends, reported, tableVars, loopVars>>

Client ==
    \/ ClientConnect
    \/ \E f \in Descriptors : ClientSend(f) \/ ClientHangUp(f) \/ ClientReset(f)

-----------------------------------------------------------------------------
\* poll().

Readable(f) ==
    \/ f = listen_sd /\ backlog > 0
    \/ f \in Descriptors /\ (data[f] \/ peer[f] \in {"closed", "reset"})

\* Seeded bug: the scan leaves out the first slot.
BeginScanLate == pc' = "scan" /\ i' = 1 /\ current_size' = nfds

BeginScan == pc' = "scan" /\ i' = 0 /\ current_size' = nfds

\* poll() without a timeout returns once a descriptor has an event.  A reset
\* connection may be reported with POLLIN or with an error bit alone.
Poll ==
    /\ pc = "poll"
    /\ nfds <= NfdsLimit
    /\ \E k \in 0 .. nfds - 1 : Readable(fds[k].fd)
    /\ \E errors \in SUBSET {f \in Descriptors : peer[f] = "reset"} :
         fds' = [k \in DOMAIN fds |->
                   IF k >= nfds THEN fds[k]
                   ELSE [fd |-> fds[k].fd,
                         revents |-> CASE ~Readable(fds[k].fd) -> "none"
                                       [] fds[k].fd \in errors -> "other"
                                       [] OTHER -> "in"]]
    /\ reported' = reported \cup {f \in Descriptors : Readable(f)}
    /\ BeginScan
    /\ UNCHANGED <<nfds, compress_array, clientVars>>

\* Seeded bug: EINVAL is an error like any other.
FlagUnchanged == compress_array

FlagAfterFailure == compress_array \/ nfds > NfdsLimit

\* poll() fails: EINVAL when given too many slots, or else interrupted or out
\* of memory.  The loop scans the table all the same, with the revents of the
\* last successful poll().
PollFails ==
    /\ pc = "poll"
    /\ compress_array' = FlagAfterFailure
    /\ BeginScan
    /\ UNCHANGED <<fds, nfds, clientVars, reported>>

-----------------------------------------------------------------------------
\* The scan over the slots in use.

NextSlot == pc' = "scan" /\ i' = i + 1 /\ UNCHANGED current_size

\* close() on the descriptor of slot i, which then is a hole in the table.
CloseSlot ==
    /\ fds' = [fds EXCEPT ![i] = [fd |-> -1, revents |-> "none"]]
    /\ peer' = [peer EXCEPT ![fds[i].fd] = "free"]
    /\ data' = [data EXCEPT ![fds[i].fd] = FALSE]
    /\ sends' = [sends EXCEPT ![fds[i].fd] = 0]
    /\ reported' = reported \ {fds[i].fd}
    /\ compress_array' = TRUE
    /\ UNCHANGED <<nfds, backlog>>

Scanning == pc = "scan" /\ i < current_size

ScanQuiet ==
    /\ Scanning
    /\ fds[i].revents = "none"
    /\ NextSlot
    /\ UNCHANGED <<tableVars, clientVars, reported>>

ScanError ==
    /\ Scanning
    /\ fds[i].revents = "other"
    /\ CloseSlot
    /\ NextSlot

\* The listening socket or a connection is readable: its inner loop begins.
ScanReadable ==
    /\ Scanning
    /\ fds[i].revents = "in"
    /\ pc' = IF fds[i].fd = listen_sd THEN "accept" ELSE "recv"
    /\ UNCHANGED <<i, current_size, tableVars, clientVars, reported>>

FreeDescriptors == {f \in Descriptors : peer[f] = "free"}

\* accept() takes the lowest free descriptor.  The new slot gets its fd only:
\* its revents is whatever the slot held.
Accept ==
    /\ pc = "accept"
    /\ backlog > 0
    /\ \E f \in FreeDescriptors :
         /\ \A g \in FreeDescriptors : f <= g
         /\ fds' = [fds EXCEPT ![nfds].fd = f]
         /\ peer' = [peer EXCEPT ![f] = "open"]
         /\ sends' = [sends EXCEPT ![f] = MaxSends]
    /\ nfds' = nfds + 1
    /\ backlog' = backlog - 1
    /\ UNCHANGED <<compress_array, data, reported, loopVars>>

\* accept() fails: nothing is waiting, or there is no descriptor left.
AcceptFails ==
    /\ pc = "accept"
    /\ backlog = 0 \/ FreeDescriptors = {}
    /\ NextSlot
    /\ UNCHANGED <<tableVars, clientVars, reported>>

Recv ==
    /\ pc = "recv"
    /\ data[fds[i].fd]
    /\ data' = [data EXCEPT ![fds[i].fd] = FALSE]
    /\ UNCHANGED <<backlog, peer, sends, tableVars, loopVars, reported>>

RecvWouldBlock ==
    /\ pc = "recv"
    /\ ~data[fds[i].fd]
    /\ peer[fds[i].fd] = "open"
    /\ NextSlot
    /\ UNCHANGED <<tableVars, clientVars, reported>>

\* Seeded bug: EAGAIN closes the connection like any other failure.
AnyError(f) == TRUE

HasLeft(f) == peer[f] # "open"

\* recv() returns 0 or fails: the connection is closed.
RecvClosed ==
    /\ pc = "recv"
    /\ ~data[fds[i].fd]
    /\ HasLeft(fds[i].fd)
    /\ CloseSlot
    /\ NextSlot

-----------------------------------------------------------------------------
\* The end of the scan, and the loop that squeezes the table.

\* Seeded bug: the flag is cleared without squeezing the table.
NoSqueeze == "poll"

AfterScan == IF compress_array THEN "squeeze" ELSE "poll"

ScanEnd ==
    /\ pc = "scan"
    /\ i >= current_size
    /\ pc' = AfterScan
    /\ compress_array' = FALSE
    /\ i' = 0
    /\ UNCHANGED <<fds, nfds, current_size, clientVars, reported>>

\* Seeded bugs: the comment's "we do not need to move back the events and
\* revents fields"; a copy that starts one slot too late.
ShiftDownFdOnly ==
    [k \in DOMAIN fds |-> IF i <= k /\ k < nfds
                          THEN [fds[k] EXCEPT !.fd = fds[k + 1].fd]
                          ELSE fds[k]]

ShiftDownLate ==
    [k \in DOMAIN fds |-> IF i < k /\ k < nfds THEN fds[k + 1] ELSE fds[k]]

\* Slots after i move down by one, fd and revents alike; the loop reads one
\* slot past those in use.
ShiftDown ==
    [k \in DOMAIN fds |-> IF i <= k /\ k < nfds THEN fds[k + 1] ELSE fds[k]]

\* Seeded bug: the loop does not stop at the slots in use.
AllSlots == Slots

SlotsInUse == nfds

\* After a shift the loop goes on with slot i + 1, not with what is now in i.
Squeeze ==
    /\ pc = "squeeze"
    /\ i < SlotsInUse
    /\ IF fds[i].fd = -1
       THEN fds' = ShiftDown /\ nfds' = nfds - 1
       ELSE UNCHANGED <<fds, nfds>>
    /\ i' = i + 1
    /\ UNCHANGED <<compress_array, pc, current_size, clientVars, reported>>

SqueezeEnd ==
    /\ pc = "squeeze"
    /\ i >= nfds
    /\ pc' = "poll"
    /\ i' = 0
    /\ UNCHANGED <<current_size, tableVars, clientVars, reported>>

-----------------------------------------------------------------------------
PollThread ==
    \/ Poll \/ PollFails
    \/ ScanQuiet \/ ScanError \/ ScanReadable \/ ScanEnd
    \/ Accept \/ AcceptFails
    \/ Recv \/ RecvWouldBlock \/ RecvClosed
    \/ Squeeze \/ SqueezeEnd

Next == Client \/ PollThread

Spec == Init /\ [][Next]_vars

(***************************************************************************)
(* The poll thread keeps running, and poll() does not fail for ever when it*)
(* is given a table within the limit.  Clients need not do anything.       *)
(***************************************************************************)
FairSpec ==
    /\ Spec
    /\ WF_vars(PollThread)
    /\ SF_vars(Poll)

-----------------------------------------------------------------------------
\* Properties.

\* Every variable keeps to the values its C++ or kernel counterpart can have.
TypeOK ==
    /\ fds \in [0 .. Slots - 1 ->
                  [fd : Descriptors \cup {-1, 0, listen_sd},
                   revents : {"none", "in", "other"}]]
    /\ nfds \in 1 .. Slots - 1
    /\ compress_array \in BOOLEAN
    /\ pc \in {"poll", "scan", "accept", "recv", "squeeze"}
    /\ i \in 0 .. nfds + 1
    /\ current_size \in 0 .. Slots - 1
    /\ backlog \in 0 .. MaxBacklog
    /\ peer \in [Descriptors -> {"free", "open", "closed", "reset"}]
    /\ data \in [Descriptors -> BOOLEAN]
    /\ sends \in [Descriptors -> 0 .. MaxSends]
    /\ reported \in SUBSET Descriptors

\* Accepting, closing and squeezing never lose or double a connection: the
\* listening socket stays in slot 0, and the open descriptors are exactly the
\* ones in the slots in use, each in one slot.
TableHoldsOpenDescriptors ==
    /\ fds[0].fd = listen_sd
    /\ {f \in Descriptors : peer[f] # "free"}
         = {fds[k].fd : k \in 1 .. nfds - 1} \ {-1}
    /\ \A k, l \in 0 .. nfds - 1 :
         fds[k].fd = fds[l].fd /\ fds[k].fd # -1 => k = l

\* The events in a slot are events of the connection in that slot: none is
\* inherited from a connection that had the slot, or the descriptor, before.
EventsBelongToConnection ==
    \A k \in 0 .. nfds - 1 :
        fds[k].fd # listen_sd /\ fds[k].revents # "none" =>
            fds[k].fd \in reported

\* The server never drops a healthy connection: a descriptor is closed only
\* after its client hung up or reset, even when poll() failed and the table
\* holds the events of an earlier round.
CloseOnlyAfterClient ==
    [][\A f \in Descriptors :
         peer[f] = "open" => peer'[f] # "free"]_peer

\* The squeeze skips the slot after a hole, but the holes it leaves behind do
\* not add up: one less than there are descriptors is the most that survive,
\* so that a table of twice as many slots never overflows in accept or squeeze.
TableFits == nfds <= 2 * Cardinality(Descriptors)

\* The descriptor of a client that hung up or reset is given back, although
\* squeezing skips holes and poll() rejects a table with too many of them.
LeftConnectionIsClosed ==
    \A f \in Descriptors :
        peer[f] \in {"closed", "reset"} ~> peer[f] = "free"

\* A waiting client is accepted as long as there are descriptors for it.
WaitingClientIsAccepted ==
    backlog > 0 ~> (backlog = 0 \/ FreeDescriptors = {})
=============================================================================
