-------------------------- MODULE PollServerProofs --------------------------
(***************************************************************************)
(* Proofs about the pollfd table of PollServer, for any set of descriptors *)
(* and any length of the table that gives each descriptor two slots.       *)
(***************************************************************************)
EXTENDS PollServer, FiniteSetTheorems, TLAPS

-----------------------------------------------------------------------------
\* The inductive invariant.

Slot == [fd : Descriptors \cup {-1, 0, listen_sd}, revents : {"none", "in", "other"}]

Hole == [fd |-> -1, revents |-> "none"]
NeverUsed == [fd |-> 0, revents |-> "none"]

\* A slot in use after the first is a hole without events or holds an open
\* connection with events of its own; an error event means a reset.
SlotInUse(k) ==
    \/ fds[k] = Hole
    \/ /\ fds[k].fd \in Descriptors
       /\ peer[fds[k].fd] # "free"
       /\ fds[k].revents # "none" => fds[k].fd \in reported
       /\ fds[k].revents = "other" => peer[fds[k].fd] = "reset"

Typed ==
    /\ fds \in [0 .. Slots - 1 -> Slot]
    /\ nfds \in 1 .. Slots - 1
    /\ peer \in [Descriptors -> {"free", "open", "closed", "reset"}]
    /\ reported \in SUBSET Descriptors

\* Slot 0 is the listening socket, the slots up to nfds are in use, and what
\* comes after them is as it was when the table was set up.
Layout ==
    /\ fds[0].fd = listen_sd /\ fds[0].revents # "other"
    /\ \A k \in 1 .. nfds - 1 : SlotInUse(k)
    /\ \A k \in nfds .. Slots - 1 : fds[k] = NeverUsed

\* Open descriptors have a slot, and only one.
OneSlotEach ==
    /\ \A f \in Descriptors :
         peer[f] # "free" => \E k \in 1 .. nfds - 1 : fds[k].fd = f
    /\ \A k, l \in 1 .. nfds - 1 :
         fds[k].fd = fds[l].fd /\ fds[k].fd # -1 => k = l

TableInv == Typed /\ Layout /\ OneSlotEach

\* Where the loops over the table are.
LoopInv ==
    /\ compress_array \in BOOLEAN
    /\ pc \in {"poll", "scan", "accept", "recv", "squeeze"}
    /\ i \in 0 .. nfds + 1
    /\ current_size \in 0 .. Slots - 1
    /\ pc \in {"scan", "accept", "recv"} => i <= current_size /\ current_size <= nfds
    /\ pc = "accept" => i = 0 /\ current_size > 0
    /\ pc = "recv" => /\ i \in 1 .. nfds - 1 /\ i < current_size
                      /\ fds[i].fd \in Descriptors

HolesBelow(k) == {j \in 1 .. k - 1 : fds[j].fd = -1}

\* No connection was closed since the last squeeze, or a squeeze is to come.
Settled ==
    \/ pc = "poll" \/ pc = "accept"
    \/ pc = "scan" /\ i = 0
    \/ pc \in {"scan", "recv"} /\ ~compress_array

\* Every hole that a squeeze leaves behind follows one that it removed.
CountInv ==
    /\ nfds <= 2 * Cardinality(Descriptors)
    /\ Settled => Cardinality(HolesBelow(nfds)) < Cardinality(Descriptors)
    /\ pc = "squeeze" =>
         nfds + Cardinality(HolesBelow(i)) <= 2 * Cardinality(Descriptors)

\* What the clients of the table have.
ClientInv ==
    /\ backlog \in 0 .. MaxBacklog
    /\ data \in [Descriptors -> BOOLEAN]
    /\ sends \in [Descriptors -> 0 .. MaxSends]

PollInv == TableInv /\ LoopInv /\ CountInv /\ ClientInv
-----------------------------------------------------------------------------
\* Counting slots.

LEMMA DescriptorCount == Cardinality(Descriptors) \in Nat \ {0}
BY TableIsLongEnough, ConstantsOK, FS_CardinalityType, FS_EmptySet

LEMMA HoleCount ==
    ASSUME NEW k \in Nat
    PROVE  /\ IsFiniteSet(HolesBelow(k))
           /\ Cardinality(HolesBelow(k)) \in Nat
           /\ k > 0 => Cardinality(HolesBelow(k)) <= k - 1
<1>1. IsFiniteSet(1 .. k - 1) /\ (k > 0 => Cardinality(1 .. k - 1) = k - 1)
  BY FS_Interval
<1>2. HolesBelow(k) \in SUBSET (1 .. k - 1)
  BY DEF HolesBelow
<1> QED  BY <1>1, <1>2, FS_Subset, FS_CardinalityType

\* As long as a descriptor is free, the slots in use are the listening socket,
\* the holes, and fewer connections than there are descriptors.
LEMMA RoomForOne ==
    ASSUME TableInv, NEW f \in Descriptors, peer[f] = "free"
    PROVE  nfds <= Cardinality(HolesBelow(nfds)) + Cardinality(Descriptors)
<1> DEFINE H == HolesBelow(nfds)
           C == {k \in 1 .. nfds - 1 : fds[k].fd # -1}
           D == Descriptors \ {f}
           slotFd == [k \in C |-> fds[k].fd]
<1>1. nfds \in Nat \ {0}
  BY DEF TableInv, Typed
<1>2. \A k \in C : fds[k].fd \in D
  BY DEF TableInv, Layout, SlotInUse, Hole
<1>3. slotFd \in Injection(C, D)
  <2>1. slotFd \in [C -> D]
    BY <1>2
  <2>2. \A a, b \in C : slotFd[a] = slotFd[b] => a = b
    BY DEF TableInv, OneSlotEach
  <2> QED  BY <2>1, <2>2 DEF Injection, IsInjective
<1>4. IsFiniteSet(D) /\ Cardinality(D) = Cardinality(Descriptors) - 1
  BY TableIsLongEnough, FS_RemoveElement
<1>5. IsFiniteSet(C) /\ Cardinality(C) <= Cardinality(Descriptors) - 1
  BY <1>3, <1>4, FS_Injection
<1>6. IsFiniteSet(H) /\ Cardinality(H) \in Nat
  BY <1>1, HoleCount
<1>7. H \cup C = 1 .. nfds - 1
  BY DEF HolesBelow
<1>8. Cardinality(1 .. nfds - 1) = nfds - 1
  BY <1>1, FS_Interval
<1> HIDE DEF H, C, D
<1>9. Cardinality(C) \in Nat /\ Cardinality(H \cap C) \in Nat
  BY <1>5, <1>6, FS_CardinalityType, FS_Intersection
<1>10. Cardinality(H \cup C) = Cardinality(H) + Cardinality(C) - Cardinality(H \cap C)
  BY <1>5, <1>6, FS_Union
<1>11. nfds - 1 <= Cardinality(H) + Cardinality(C)
  <2>1. Cardinality(H \cup C) = nfds - 1
    BY <1>7, <1>8, Zenon
  <2>2. nfds - 1 = Cardinality(H) + Cardinality(C) - Cardinality(H \cap C)
    BY <1>10, <2>1, Zenon
  <2> QED  BY <1>1, <1>6, <1>9, <2>2
<1>12. nfds <= Cardinality(H) + Cardinality(Descriptors)
  BY <1>1, <1>5, <1>6, <1>9, <1>11, DescriptorCount
<1> QED  BY <1>12 DEF H

-----------------------------------------------------------------------------
\* Init, and the steps that leave the table as it is.

LEMMA InitPoll == Init => PollInv
<1> SUFFICES ASSUME Init PROVE PollInv
  OBVIOUS
<1>1. Slots \in Nat /\ Slots > 2
  BY TableIsLongEnough, DescriptorCount, ConstantsOK
<1>2. TableInv
  BY <1>1, ConstantsOK DEF Init, TableInv, Typed, Layout, OneSlotEach, Slot, NeverUsed
<1>3. LoopInv
  <2>1. compress_array \in BOOLEAN
    BY DEF Init
  <2>2. i \in 0 .. nfds + 1 /\ current_size \in 0 .. Slots - 1 /\ pc = "poll"
    BY <1>1 DEF Init
  <2> QED  BY <2>1, <2>2 DEF LoopInv
<1>4. CountInv
  <2>1. HolesBelow(nfds) = {}
    BY DEF Init, HolesBelow
  <2>2. Cardinality(HolesBelow(nfds)) = 0
    BY <2>1, FS_EmptySet
  <2> QED  BY <2>2, DescriptorCount DEF Init, CountInv
<1>5. ClientInv
  BY ConstantsOK DEF Init, ClientInv
<1> QED  BY <1>2, <1>3, <1>4, <1>5 DEF PollInv

LEMMA TableUnchanged ==
    ASSUME TableInv, UNCHANGED <<fds, nfds, peer, reported>>
    PROVE  TableInv'
BY DEF TableInv, Typed, Layout, OneSlotEach, SlotInUse

\* Clients do not open or close descriptors of the server, and a connection
\* that was reset stays so.
LEMMA ClientStep ==
    ASSUME PollInv, Client
    PROVE  PollInv'
<1>1. /\ UNCHANGED <<fds, nfds, compress_array, pc, i, current_size, reported>>
      /\ peer' \in [Descriptors -> {"free", "open", "closed", "reset"}]
      /\ \A f \in Descriptors : /\ peer'[f] = "free" <=> peer[f] = "free"
                                /\ peer[f] = "reset" => peer'[f] = "reset"
  BY DEF PollInv, TableInv, Typed, Client, ClientConnect, ClientSend, ClientHangUp,
         ClientReset, tableVars, loopVars
<1>2. TableInv'
  <2>1. Typed' /\ OneSlotEach'
    BY <1>1 DEF PollInv, TableInv, Typed, OneSlotEach
  <2>2. Layout'
    BY <1>1 DEF PollInv, TableInv, Layout, SlotInUse
  <2> QED  BY <2>1, <2>2 DEF TableInv
<1>3. LoopInv'
  BY <1>1 DEF PollInv, LoopInv
<1>4. CountInv'
  BY <1>1 DEF PollInv, CountInv, Settled, HolesBelow
<1>5. ClientInv'
  <2>1. backlog' \in 0 .. MaxBacklog
    BY ConstantsOK DEF PollInv, ClientInv, Client, ClientConnect, ClientSend,
                       ClientHangUp, ClientReset
  <2>2. data' \in [Descriptors -> BOOLEAN]
    BY DEF PollInv, ClientInv, Client, ClientConnect, ClientSend, ClientHangUp,
           ClientReset
  <2>3. sends' \in [Descriptors -> 0 .. MaxSends]
    BY ConstantsOK DEF PollInv, ClientInv, Client, ClientConnect, ClientSend,
                       ClientHangUp, ClientReset
  <2> QED  BY <2>1, <2>2, <2>3 DEF ClientInv
<1> QED  BY <1>2, <1>3, <1>4, <1>5 DEF PollInv

\* Only slot 0 holds the listening socket.
LEMMA ListenerFirst ==
    ASSUME TableInv, NEW k \in 0 .. nfds - 1, fds[k].fd = listen_sd
    PROVE  k = 0
BY ConstantsOK DEF TableInv, Typed, Layout, SlotInUse, Hole

LEMMA ScanStep ==
    ASSUME PollInv, ScanQuiet \/ ScanReadable \/ AcceptFails \/ Recv \/ RecvWouldBlock
                      \/ PollFails
    PROVE  PollInv'
<1>1. UNCHANGED <<fds, nfds, peer, reported>>
  BY DEF ScanQuiet, ScanReadable, AcceptFails, Recv, RecvWouldBlock, PollFails,
         tableVars, clientVars
<1>2. TableInv'
  BY <1>1, TableUnchanged DEF PollInv
<1>3. ClientInv'
  BY DEF PollInv, ClientInv, ScanQuiet, ScanReadable, AcceptFails, Recv,
         RecvWouldBlock, PollFails, clientVars
<1>4. nfds \in 1 .. Slots - 1 /\ Slots \in Nat
  BY ConstantsOK DEF PollInv, TableInv, Typed
<1>5. LoopInv'
  <2>1. CASE ScanQuiet \/ AcceptFails \/ RecvWouldBlock
    BY <1>1, <1>4, <2>1 DEF PollInv, LoopInv, ScanQuiet, AcceptFails, RecvWouldBlock,
                            NextSlot, Scanning, tableVars
  <2>2. CASE ScanReadable
    <3>1. /\ i \in 0 .. nfds - 1 /\ i < current_size /\ current_size <= nfds
          /\ fds[i].revents = "in"
          /\ pc' = IF fds[i].fd = listen_sd THEN "accept" ELSE "recv"
          /\ UNCHANGED <<i, current_size, compress_array>>
      BY <1>4, <2>2 DEF PollInv, LoopInv, ScanReadable, Scanning, tableVars
    <3>2. CASE fds[i].fd = listen_sd
      <4>1. i = 0
        BY <3>1, <3>2, ListenerFirst DEF PollInv
      <4> QED  BY <1>1, <1>4, <3>1, <3>2, <4>1 DEF PollInv, LoopInv
    <3>3. CASE fds[i].fd # listen_sd
      <4>1. i \in 1 .. nfds - 1
        BY <1>4, <3>1, <3>3 DEF PollInv, TableInv, Layout
      <4>2. fds[i].fd \in Descriptors
        BY <3>1, <4>1 DEF PollInv, TableInv, Layout, SlotInUse, Hole
      <4> QED  BY <1>1, <1>4, <3>1, <3>3, <4>1, <4>2 DEF PollInv, LoopInv
    <3> QED  BY <3>2, <3>3
  <2>3. CASE Recv
    BY <1>1, <2>3 DEF PollInv, LoopInv, Recv, tableVars, loopVars
  <2>4. CASE PollFails
    BY <1>1, <1>4, <2>4 DEF PollInv, LoopInv, PollFails, BeginScan, FlagAfterFailure
  <2> QED  BY <2>1, <2>2, <2>3, <2>4
<1>6. CountInv'
  <2>1. pc' # "squeeze"
    BY DEF ScanQuiet, ScanReadable, AcceptFails, Recv, RecvWouldBlock, PollFails,
           NextSlot, BeginScan, loopVars
  <2>2. Settled' => Settled
    <3>1. CASE ScanReadable
      <4>1. pc' = "accept" => i = 0
        BY <1>5, <3>1 DEF LoopInv, ScanReadable
      <4> QED  BY <3>1, <4>1 DEF Settled, ScanReadable, Scanning, tableVars
    <3>2. CASE ScanQuiet \/ AcceptFails \/ RecvWouldBlock
      BY <3>2 DEF Settled, ScanQuiet, AcceptFails, RecvWouldBlock, NextSlot, Scanning,
                  tableVars, PollInv, LoopInv
    <3>3. CASE Recv \/ PollFails
      BY <3>3 DEF Settled, Recv, PollFails, tableVars, loopVars
    <3> QED  BY <3>1, <3>2, <3>3
  <2>3. HolesBelow(nfds)' = HolesBelow(nfds)
    BY <1>1 DEF HolesBelow
  <2> QED  BY <1>1, <2>1, <2>2, <2>3 DEF PollInv, CountInv
<1> QED  BY <1>2, <1>3, <1>5, <1>6 DEF PollInv

LEMMA ScanEndStep ==
    ASSUME PollInv, ScanEnd
    PROVE  PollInv'
<1>1. /\ UNCHANGED <<fds, nfds, current_size, peer, reported, backlog, data, sends>>
      /\ pc = "scan" /\ pc' = (IF compress_array THEN "squeeze" ELSE "poll")
      /\ compress_array' = FALSE /\ i' = 0
  BY DEF ScanEnd, AfterScan, clientVars
<1>2. TableInv' /\ ClientInv'
  BY <1>1, TableUnchanged DEF PollInv, ClientInv
<1>3. nfds \in 1 .. Slots - 1 /\ Slots \in Nat
  BY ConstantsOK DEF PollInv, TableInv, Typed
<1>4. LoopInv'
  <2>1. compress_array' \in BOOLEAN
    BY <1>1
  <2>2. /\ i' \in 0 .. nfds' + 1 /\ current_size' \in 0 .. Slots - 1
        /\ pc' \in {"poll", "squeeze"}
    BY <1>1, <1>3 DEF PollInv, LoopInv
  <2> QED  BY <2>1, <2>2 DEF LoopInv
<1>5. CountInv'
  <2>1. CASE compress_array
    <3>1. HolesBelow(i)' = {}
      BY <1>1 DEF HolesBelow
    <3>2. Cardinality(HolesBelow(i)') = 0
      BY <3>1, FS_EmptySet
    <3> QED  BY <1>1, <1>3, <2>1, <3>2, DescriptorCount DEF PollInv, CountInv, Settled
  <2>2. CASE ~compress_array
    <3>1. HolesBelow(nfds)' = HolesBelow(nfds)
      BY <1>1 DEF HolesBelow
    <3> QED  BY <1>1, <2>2, <3>1 DEF PollInv, CountInv, Settled
  <2> QED  BY <2>1, <2>2
<1> QED  BY <1>2, <1>4, <1>5 DEF PollInv

\* At the end of a squeeze fewer holes are left than there are descriptors: the
\* table has shrunk by at least as many slots as there are holes left, and they
\* are slots of it themselves.
LEMMA SqueezeEndStep ==
    ASSUME PollInv, SqueezeEnd
    PROVE  PollInv'
<1>1. /\ UNCHANGED <<fds, nfds, compress_array, current_size, peer, reported,
                     backlog, data, sends>>
      /\ pc = "squeeze" /\ pc' = "poll" /\ i' = 0 /\ i >= nfds
  BY DEF SqueezeEnd, clientVars, tableVars
<1>2. TableInv' /\ ClientInv'
  BY <1>1, TableUnchanged DEF PollInv, ClientInv
<1>3. nfds \in 1 .. Slots - 1 /\ Slots \in Nat /\ i \in 0 .. nfds + 1
  BY ConstantsOK DEF PollInv, TableInv, Typed, LoopInv
<1>4. LoopInv'
  BY <1>1, <1>3 DEF PollInv, LoopInv
<1>5. CountInv'
  <2>1. HolesBelow(nfds) \in SUBSET HolesBelow(i)
    BY <1>1, <1>3 DEF HolesBelow
  <2>2. Cardinality(HolesBelow(nfds)) <= Cardinality(HolesBelow(i))
    BY <1>3, <2>1, HoleCount, FS_Subset
  <2>3. /\ Cardinality(HolesBelow(nfds)) \in Nat
        /\ Cardinality(HolesBelow(nfds)) <= nfds - 1
        /\ Cardinality(HolesBelow(i)) \in Nat
    BY <1>3, HoleCount
  <2>4. nfds + Cardinality(HolesBelow(i)) <= 2 * Cardinality(Descriptors)
    BY <1>1 DEF PollInv, CountInv
  <2>5. Cardinality(HolesBelow(nfds)) < Cardinality(Descriptors)
    BY <1>3, <2>2, <2>3, <2>4, DescriptorCount
  <2>6. HolesBelow(nfds)' = HolesBelow(nfds)
    BY <1>1 DEF HolesBelow
  <2> QED  BY <1>1, <2>5, <2>6 DEF PollInv, CountInv
<1> QED  BY <1>2, <1>4, <1>5 DEF PollInv
-----------------------------------------------------------------------------
\* The steps that change the table.

\* A successful poll() writes the events of the slots in use: connections with
\* an event are reported, and only reset ones have an error event.
LEMMA PollStep ==
    ASSUME PollInv, Poll
    PROVE  PollInv'
<1>1. PICK errors \in SUBSET {f \in Descriptors : peer[f] = "reset"} :
        fds' = [k \in DOMAIN fds |->
                  IF k >= nfds THEN fds[k]
                  ELSE [fd |-> fds[k].fd,
                        revents |-> CASE ~Readable(fds[k].fd) -> "none"
                                      [] fds[k].fd \in errors -> "other"
                                      [] OTHER -> "in"]]
  BY DEF Poll
<1>2. /\ pc = "poll" /\ pc' = "scan" /\ i' = 0 /\ current_size' = nfds
      /\ reported' = reported \cup {f \in Descriptors : Readable(f)}
      /\ UNCHANGED <<nfds, compress_array, peer, backlog, data, sends>>
  BY DEF Poll, BeginScan, clientVars
<1>3. /\ fds \in [0 .. Slots - 1 -> Slot] /\ DOMAIN fds = 0 .. Slots - 1
      /\ nfds \in 1 .. Slots - 1 /\ Slots \in Nat
  BY ConstantsOK DEF PollInv, TableInv, Typed
<1>4. ASSUME NEW k \in 0 .. Slots - 1
      PROVE  /\ fds'[k].fd = fds[k].fd
             /\ fds'[k] \in Slot
             /\ k >= nfds => fds'[k] = fds[k]
             /\ k < nfds => /\ fds'[k].revents # "none" => Readable(fds[k].fd)
                            /\ fds'[k].revents = "other" => fds[k].fd \in errors
                            /\ fds'[k] = [fd |-> fds[k].fd, revents |-> fds'[k].revents]
  <2>1. CASE k >= nfds
    BY <1>1, <1>3, <2>1
  <2>2. CASE k < nfds
    <3> DEFINE r == CASE ~Readable(fds[k].fd) -> "none"
                      [] fds[k].fd \in errors -> "other"
                      [] OTHER -> "in"
    <3>1. fds'[k] = [fd |-> fds[k].fd, revents |-> r]
      BY <1>1, <1>3, <2>2
    <3>2. /\ r \in {"none", "in", "other"}
          /\ r # "none" => Readable(fds[k].fd)
          /\ r = "other" => fds[k].fd \in errors
      <4>1. CASE ~Readable(fds[k].fd)
        <5>1. fds[k].fd \notin errors
          BY <4>1 DEF Readable
        <5> QED  BY <4>1, <5>1
      <4>2. CASE Readable(fds[k].fd) /\ fds[k].fd \in errors
        BY <4>2
      <4>3. CASE Readable(fds[k].fd) /\ fds[k].fd \notin errors
        BY <4>3
      <4> QED  BY <4>1, <4>2, <4>3
    <3> HIDE DEF r
    <3>3. fds[k].fd \in Descriptors \cup {-1, 0, listen_sd}
      BY <1>3 DEF Slot
    <3> QED  BY <1>3, <2>2, <3>1, <3>2, <3>3 DEF Slot
  <2> QED  BY <1>3, <2>1, <2>2
<1>5. Typed'
  <2>1. fds' = [k \in 0 .. Slots - 1 |-> fds'[k]]
    BY <1>1, <1>3
  <2> QED  BY <1>2, <1>3, <1>4, <2>1 DEF PollInv, TableInv, Typed
<1>6. Layout'
  <2>1. fds'[0].fd = listen_sd /\ fds'[0].revents # "other"
    <3>1. 0 \in 0 .. Slots - 1 /\ 0 < nfds
      BY <1>3
    <3>2. fds[0].fd = listen_sd
      BY DEF PollInv, TableInv, Layout
    <3>3. listen_sd \notin errors
      BY ConstantsOK
    <3> QED  BY <1>4, <3>1, <3>2, <3>3
  <2>2. ASSUME NEW k \in 1 .. nfds - 1 PROVE SlotInUse(k)'
    <3>0. /\ k \in 0 .. Slots - 1 /\ k < nfds
      BY <1>3
    <3>1. CASE fds[k] = Hole
      <4>1. ~Readable(-1)
        BY ConstantsOK DEF Readable
      <4>2. fds[k].fd = -1
        BY <3>1 DEF Hole
      <4>3. fds'[k] = [fd |-> -1, revents |-> fds'[k].revents]
            /\ fds'[k].revents = "none"
        BY <1>4, <3>0, <4>1, <4>2
      <4> QED  BY <4>3 DEF SlotInUse, Hole
    <3>2. CASE fds[k].fd \in Descriptors /\ peer[fds[k].fd] # "free"
      BY <1>2, <1>4, <3>0, <3>2 DEF SlotInUse
    <3> QED  BY <3>1, <3>2 DEF PollInv, TableInv, Layout, SlotInUse
  <2>3. ASSUME NEW k \in nfds .. Slots - 1 PROVE fds'[k] = NeverUsed
    <3>1. k \in 0 .. Slots - 1 /\ k >= nfds
      BY <1>3
    <3> QED  BY <1>4, <3>1 DEF PollInv, TableInv, Layout
  <2> QED  BY <1>2, <2>1, <2>2, <2>3 DEF Layout
<1>7. ASSUME NEW k \in 1 .. nfds - 1 PROVE fds'[k].fd = fds[k].fd
  <2>1. k \in 0 .. Slots - 1
    BY <1>3
  <2> QED  BY <1>4, <2>1
<1>8. OneSlotEach'
  BY <1>2, <1>7 DEF PollInv, TableInv, OneSlotEach
<1>9. LoopInv'
  BY <1>2, <1>3 DEF PollInv, LoopInv
<1>10. CountInv'
  <2>1. HolesBelow(nfds)' = HolesBelow(nfds)
    BY <1>2, <1>7 DEF HolesBelow
  <2> QED  BY <1>2, <2>1 DEF PollInv, CountInv, Settled
<1>11. ClientInv'
  BY <1>2 DEF PollInv, ClientInv
<1> QED  BY <1>5, <1>6, <1>8, <1>9, <1>10, <1>11 DEF PollInv, TableInv

\* Closing a connection empties its one slot and sets the flag.
LEMMA CloseStep ==
    ASSUME PollInv, CloseSlot, NextSlot,
           pc \in {"scan", "recv"}, i < current_size,
           i \in 1 .. nfds - 1, fds[i].fd \in Descriptors
    PROVE  PollInv'
<1> DEFINE f == fds[i].fd
<1>1. /\ fds' = [fds EXCEPT ![i] = Hole]
      /\ peer' = [peer EXCEPT ![f] = "free"]
      /\ data' = [data EXCEPT ![f] = FALSE]
      /\ sends' = [sends EXCEPT ![f] = 0]
      /\ reported' = reported \ {f}
      /\ compress_array' = TRUE
      /\ UNCHANGED <<nfds, backlog, current_size>>
      /\ pc' = "scan" /\ i' = i + 1
  BY DEF CloseSlot, NextSlot, Hole
<1>2. /\ fds \in [0 .. Slots - 1 -> Slot]
      /\ nfds \in 1 .. Slots - 1 /\ Slots \in Nat /\ i \in 0 .. Slots - 1
      /\ peer \in [Descriptors -> {"free", "open", "closed", "reset"}]
      /\ f \in Descriptors /\ f # -1
  BY ConstantsOK DEF PollInv, TableInv, Typed
<1>3. \A k \in 0 .. Slots - 1 : fds'[k] = IF k = i THEN Hole ELSE fds[k]
  BY <1>1, <1>2
<1>4. \A g \in Descriptors : peer'[g] = IF g = f THEN "free" ELSE peer[g]
  BY <1>1, <1>2
<1>5. \A k \in 1 .. nfds - 1 : fds[k].fd = f => k = i
  BY <1>2 DEF PollInv, TableInv, OneSlotEach
<1>6. Typed'
  <2>1. Hole \in Slot
    BY DEF Hole, Slot
  <2> QED  BY <1>1, <1>2, <2>1 DEF PollInv, TableInv, Typed
<1> HIDE DEF f
<1>7. Layout'
  <2>1. fds'[0] = fds[0]
    BY <1>2, <1>3
  <2>2. ASSUME NEW k \in 1 .. nfds - 1 PROVE SlotInUse(k)'
    <3>1. CASE k = i
      BY <1>2, <1>3, <3>1 DEF SlotInUse
    <3>2. CASE k # i
      <4>1. fds'[k] = fds[k] /\ fds[k].fd # f
        BY <1>2, <1>3, <1>5, <3>2
      <4>2. SlotInUse(k)
        BY DEF PollInv, TableInv, Layout
      <4> QED  BY <1>1, <1>4, <4>1, <4>2 DEF SlotInUse
    <3> QED  BY <3>1, <3>2
  <2>3. \A k \in nfds .. Slots - 1 : fds'[k] = fds[k]
    BY <1>2, <1>3
  <2> QED  BY <1>1, <2>1, <2>2, <2>3 DEF PollInv, TableInv, Layout
<1>8. OneSlotEach'
  <2>1. \A g \in Descriptors : peer'[g] # "free" =>
            \E k \in 1 .. nfds - 1 : fds'[k].fd = g
    <3> SUFFICES ASSUME NEW g \in Descriptors, peer'[g] # "free"
                 PROVE  \E k \in 1 .. nfds - 1 : fds'[k].fd = g
      OBVIOUS
    <3>1. g # f /\ peer[g] # "free"
      BY <1>4
    <3>2. PICK k \in 1 .. nfds - 1 : fds[k].fd = g
      BY <3>1 DEF PollInv, TableInv, OneSlotEach
    <3>3. k # i /\ k \in 0 .. Slots - 1
      BY <1>2, <3>1, <3>2 DEF f
    <3> QED  BY <1>3, <3>2, <3>3
  <2>2. \A k, l \in 1 .. nfds - 1 :
            fds'[k].fd = fds'[l].fd /\ fds'[k].fd # -1 => k = l
    BY <1>2, <1>3 DEF PollInv, TableInv, OneSlotEach, Hole
  <2> QED  BY <1>1, <2>1, <2>2 DEF OneSlotEach
<1>9. LoopInv'
  <2>1. compress_array' \in BOOLEAN
    BY <1>1
  <2> QED  BY <1>1, <1>2, <2>1 DEF PollInv, LoopInv
<1>10. CountInv'
  <2>1. ~Settled'
    BY <1>1 DEF Settled
  <2> QED  BY <1>1, <2>1 DEF PollInv, CountInv
<1>11. ClientInv'
  <2>1. data' \in [Descriptors -> BOOLEAN]
    BY <1>1 DEF PollInv, ClientInv
  <2> QED  BY <1>1, <2>1, ConstantsOK DEF PollInv, ClientInv
<1> QED  BY <1>6, <1>7, <1>8, <1>9, <1>10, <1>11 DEF PollInv, TableInv

\* accept() puts a free descriptor into the first slot that is not in use,
\* which is one of the table and has no events.
LEMMA AcceptStep ==
    ASSUME PollInv, Accept
    PROVE  PollInv'
<1>1. PICK f \in Descriptors :
        /\ peer[f] = "free"
        /\ fds' = [fds EXCEPT ![nfds].fd = f]
        /\ peer' = [peer EXCEPT ![f] = "open"]
        /\ sends' = [sends EXCEPT ![f] = MaxSends]
  BY DEF Accept, FreeDescriptors
<1>2. /\ pc = "accept" /\ nfds' = nfds + 1 /\ backlog > 0 /\ backlog' = backlog - 1
      /\ UNCHANGED <<compress_array, data, reported, pc, i, current_size>>
  BY DEF Accept, loopVars
<1>3. /\ fds \in [0 .. Slots - 1 -> Slot]
      /\ nfds \in 1 .. Slots - 1 /\ Slots \in Nat
      /\ peer \in [Descriptors -> {"free", "open", "closed", "reset"}]
  BY ConstantsOK DEF PollInv, TableInv, Typed
<1>4. nfds + 1 <= 2 * Cardinality(Descriptors)
  <2>1. nfds <= Cardinality(HolesBelow(nfds)) + Cardinality(Descriptors)
    BY <1>1, RoomForOne DEF PollInv
  <2>2. Cardinality(HolesBelow(nfds)) < Cardinality(Descriptors)
    BY <1>2 DEF PollInv, CountInv, Settled
  <2>3. Cardinality(HolesBelow(nfds)) \in Nat
    BY <1>3, HoleCount
  <2> QED  BY <1>3, <2>1, <2>2, <2>3, DescriptorCount
<1>5. nfds + 1 \in 1 .. Slots - 1
  BY <1>3, <1>4, TableIsLongEnough, DescriptorCount
<1>6. fds'[nfds] = [fd |-> f, revents |-> "none"]
  <2>1. fds[nfds] = NeverUsed
    BY <1>3 DEF PollInv, TableInv, Layout
  <2> QED  BY <1>1, <1>3, <2>1 DEF NeverUsed
<1>7. \A k \in 0 .. Slots - 1 : k # nfds => fds'[k] = fds[k]
  BY <1>1, <1>3
<1>8. \A g \in Descriptors : peer'[g] = IF g = f THEN "open" ELSE peer[g]
  BY <1>1, <1>3
<1>9. \A k \in 1 .. nfds - 1 : fds[k].fd # f
  BY <1>1, ConstantsOK DEF PollInv, TableInv, Layout, SlotInUse, Hole
<1>10. Typed'
  <2>1. fds' \in [0 .. Slots - 1 -> Slot]
    <3>1. fds' = [k \in 0 .. Slots - 1 |-> fds'[k]]
      BY <1>1, <1>3
    <3>2. \A k \in 0 .. Slots - 1 : fds'[k] \in Slot
      BY <1>3, <1>6, <1>7 DEF Slot
    <3> QED  BY <3>1, <3>2
  <2> QED  BY <1>1, <1>2, <1>3, <1>5, <2>1 DEF PollInv, TableInv, Typed
<1>11. Layout'
  <2>1. fds'[0] = fds[0]
    BY <1>3, <1>7
  <2>2. ASSUME NEW k \in 1 .. nfds PROVE SlotInUse(k)'
    <3>1. CASE k = nfds
      <4>1. fds'[k].fd = f /\ fds'[k].revents = "none" /\ peer'[f] # "free"
        BY <1>6, <1>8, <3>1
      <4> QED  BY <4>1 DEF SlotInUse
    <3>2. CASE k # nfds
      <4>1. fds'[k] = fds[k] /\ fds[k].fd # f /\ k \in 1 .. nfds - 1
        BY <1>3, <1>7, <1>9, <3>2
      <4>2. SlotInUse(k)
        BY <4>1 DEF PollInv, TableInv, Layout
      <4> QED  BY <1>2, <1>8, <4>1, <4>2 DEF SlotInUse
    <3> QED  BY <3>1, <3>2
  <2>3. \A k \in nfds + 1 .. Slots - 1 : fds'[k] = NeverUsed
    BY <1>3, <1>7 DEF PollInv, TableInv, Layout
  <2>4. nfds' - 1 = nfds
    BY <1>2, <1>3
  <2> QED  BY <1>2, <2>1, <2>2, <2>3, <2>4 DEF PollInv, TableInv, Layout
<1>12. OneSlotEach'
  <2>1. nfds' - 1 = nfds /\ nfds \in 1 .. nfds
    BY <1>2, <1>3
  <2>2. \A g \in Descriptors : peer'[g] # "free" => \E k \in 1 .. nfds : fds'[k].fd = g
    <3> SUFFICES ASSUME NEW g \in Descriptors, peer'[g] # "free"
                 PROVE  \E k \in 1 .. nfds : fds'[k].fd = g
      OBVIOUS
    <3>1. CASE g = f
      BY <1>6, <2>1, <3>1
    <3>2. CASE g # f
      <4>1. PICK k \in 1 .. nfds - 1 : fds[k].fd = g
        BY <1>8, <3>2 DEF PollInv, TableInv, OneSlotEach
      <4>2. k \in 1 .. nfds /\ fds'[k] = fds[k]
        BY <1>3, <1>7
      <4> QED  BY <4>1, <4>2
    <3> QED  BY <3>1, <3>2
  <2>3. ASSUME NEW k \in 1 .. nfds, NEW l \in 1 .. nfds,
               fds'[k].fd = fds'[l].fd, fds'[k].fd # -1
        PROVE  k = l
    BY <1>3, <1>6, <1>7, <1>9, <2>3 DEF PollInv, TableInv, OneSlotEach
  <2> QED  BY <2>1, <2>2, <2>3 DEF OneSlotEach
<1>13. LoopInv'
  BY <1>2, <1>3 DEF PollInv, LoopInv
<1>14. CountInv'
  <2>1. HolesBelow(nfds)' = HolesBelow(nfds)
    <3>1. \A k \in 1 .. nfds - 1 : fds'[k] = fds[k]
      BY <1>3, <1>7
    <3>2. fds'[nfds].fd # -1
      BY <1>6, ConstantsOK
    <3> QED  BY <1>2, <1>3, <3>1, <3>2 DEF HolesBelow
  <2> QED  BY <1>2, <1>4, <2>1 DEF PollInv, CountInv, Settled
<1>15. ClientInv'
  BY <1>1, <1>2, ConstantsOK DEF PollInv, ClientInv
<1> QED  BY <1>10, <1>11, <1>12, <1>13, <1>14, <1>15 DEF PollInv, TableInv

\* Removing a hole shifts the slots after it, the first unused one included.
LEMMA SqueezeStep ==
    ASSUME PollInv, Squeeze
    PROVE  PollInv'
<1>1. /\ pc = "squeeze" /\ i < nfds /\ i' = i + 1
      /\ UNCHANGED <<compress_array, pc, current_size, peer, reported, backlog,
                     data, sends>>
  BY DEF Squeeze, SlotsInUse, clientVars
<1>2. /\ fds \in [0 .. Slots - 1 -> Slot]
      /\ nfds \in 1 .. Slots - 1 /\ Slots \in Nat /\ i \in 0 .. nfds - 1
  BY <1>1, ConstantsOK DEF PollInv, TableInv, Typed, LoopInv
<1>3. ClientInv'
  BY <1>1 DEF PollInv, ClientInv
<1>4. CASE fds[i].fd # -1
  <2>1. UNCHANGED <<fds, nfds>>
    BY <1>4 DEF Squeeze
  <2>2. TableInv'
    BY <1>1, <2>1, TableUnchanged DEF PollInv
  <2>3. LoopInv'
    BY <1>1, <1>2, <2>1 DEF PollInv, LoopInv
  <2>4. HolesBelow(i)' = HolesBelow(i)
    BY <1>1, <1>2, <1>4, <2>1 DEF HolesBelow
  <2>5. CountInv'
    BY <1>1, <2>1, <2>4 DEF PollInv, CountInv, Settled
  <2> QED  BY <1>3, <2>2, <2>3, <2>5 DEF PollInv
<1>5. CASE fds[i].fd = -1
  <2>1. fds' = [k \in DOMAIN fds |-> IF i <= k /\ k < nfds THEN fds[k + 1] ELSE fds[k]]
        /\ nfds' = nfds - 1
    BY <1>5 DEF Squeeze, ShiftDown
  <2>2. i \in 1 .. nfds - 1 /\ nfds - 1 \in 1 .. Slots - 1
    BY <1>2, <1>5, ConstantsOK DEF PollInv, TableInv, Layout
  <2>3. \A k \in 0 .. Slots - 1 :
          fds'[k] = IF i <= k /\ k < nfds THEN fds[k + 1] ELSE fds[k]
    BY <1>2, <2>1
  <2>4. Typed'
    <3>1. \A k \in 0 .. Slots - 1 : fds'[k] \in Slot
      BY <1>2, <2>2, <2>3
    <3>2. fds' \in [0 .. Slots - 1 -> Slot]
      BY <1>2, <2>1, <3>1
    <3> QED  BY <1>1, <2>1, <2>2, <3>2 DEF PollInv, TableInv, Typed
  <2>5. \A k \in 1 .. nfds - 2 :
          \/ k < i /\ fds'[k] = fds[k]
          \/ k >= i /\ k + 1 \in 1 .. nfds - 1 /\ fds'[k] = fds[k + 1]
    BY <1>2, <2>2, <2>3
  <2>6. nfds' - 1 = nfds - 2
    BY <1>2, <2>1
  <2>7. Layout'
    <3>1. fds'[0] = fds[0]
      BY <1>2, <2>2, <2>3
    <3>2. ASSUME NEW k \in 1 .. nfds - 2 PROVE SlotInUse(k)'
      <4>1. \E l \in 1 .. nfds - 1 : fds'[k] = fds[l]
        BY <1>2, <2>5
      <4> QED  BY <1>1, <4>1 DEF PollInv, TableInv, Layout, SlotInUse
    <3>3. \A k \in nfds - 1 .. Slots - 1 : fds'[k] = NeverUsed
      <4>1. \A k \in nfds .. Slots - 1 : fds[k] = NeverUsed
        BY DEF PollInv, TableInv, Layout
      <4> QED  BY <1>2, <2>2, <2>3, <4>1
    <3> QED  BY <2>1, <2>6, <3>1, <3>2, <3>3 DEF PollInv, TableInv, Layout
  <2>8. OneSlotEach'
    <3>1. \A g \in Descriptors : peer'[g] # "free" =>
              \E k \in 1 .. nfds - 2 : fds'[k].fd = g
      <4> SUFFICES ASSUME NEW g \in Descriptors, peer[g] # "free"
                   PROVE  \E k \in 1 .. nfds - 2 : fds'[k].fd = g
        BY <1>1
      <4>1. PICK l \in 1 .. nfds - 1 : fds[l].fd = g
        BY DEF PollInv, TableInv, OneSlotEach
      <4>2. l # i
        BY <1>5, <4>1, ConstantsOK
      <4>3. CASE l < i
        <5>1. l \in 1 .. nfds - 2 /\ fds'[l] = fds[l]
          BY <1>2, <2>2, <2>3, <4>3
        <5> QED  BY <4>1, <5>1
      <4>4. CASE l > i
        <5>1. l - 1 \in 1 .. nfds - 2 /\ fds'[l - 1] = fds[l]
          BY <1>2, <2>2, <2>3, <4>4
        <5> QED  BY <4>1, <5>1
      <4> QED  BY <1>2, <4>2, <4>3, <4>4
    <3>2. ASSUME NEW k \in 1 .. nfds - 2, NEW l \in 1 .. nfds - 2,
                 fds'[k].fd = fds'[l].fd, fds'[k].fd # -1
          PROVE  k = l
      <4>1. \A a, b \in 1 .. nfds - 1 :
              fds[a].fd = fds[b].fd /\ fds[a].fd # -1 => a = b
        BY DEF PollInv, TableInv, OneSlotEach
      <4>2. k \in 1 .. nfds - 1 /\ l \in 1 .. nfds - 1
        BY <1>2
      <4>3. CASE k < i /\ l < i
        BY <1>2, <2>5, <3>2, <4>1, <4>2, <4>3
      <4>4. CASE k >= i /\ l >= i
        <5>1. k + 1 = l + 1
          BY <1>2, <2>5, <3>2, <4>1, <4>4
        <5> QED  BY <5>1
      <4>5. CASE k < i /\ l >= i
        <5>1. k = l + 1
          BY <1>2, <2>5, <3>2, <4>1, <4>2, <4>5
        <5> QED  BY <1>2, <4>5, <5>1
      <4>6. CASE k >= i /\ l < i
        <5>1. k + 1 = l
          BY <1>2, <2>5, <3>2, <4>1, <4>2, <4>6
        <5> QED  BY <1>2, <4>6, <5>1
      <4> QED  BY <1>2, <4>3, <4>4, <4>5, <4>6
    <3> QED  BY <2>6, <3>1, <3>2 DEF OneSlotEach
  <2>9. LoopInv'
    BY <1>1, <1>2, <2>1, <2>2 DEF PollInv, LoopInv
  <2>10. CountInv'
    <3>1. HolesBelow(i)' \subseteq HolesBelow(i) \cup {i}
      BY <1>1, <1>2, <2>2, <2>3 DEF HolesBelow
    <3>2. /\ IsFiniteSet(HolesBelow(i)) /\ Cardinality(HolesBelow(i)) \in Nat
      BY <1>2, HoleCount
    <3>3. /\ IsFiniteSet(HolesBelow(i) \cup {i})
          /\ Cardinality(HolesBelow(i) \cup {i}) <= Cardinality(HolesBelow(i)) + 1
          /\ Cardinality(HolesBelow(i) \cup {i}) \in Nat
      BY <3>2, FS_AddElement, FS_CardinalityType
    <3>4. /\ IsFiniteSet(HolesBelow(i)')
          /\ Cardinality(HolesBelow(i)') <= Cardinality(HolesBelow(i) \cup {i})
          /\ Cardinality(HolesBelow(i)') \in Nat
      BY <3>1, <3>3, FS_Subset, FS_CardinalityType
    <3>5. nfds + Cardinality(HolesBelow(i)) <= 2 * Cardinality(Descriptors)
      BY <1>1 DEF PollInv, CountInv
    <3>6. nfds' + Cardinality(HolesBelow(i)') <= 2 * Cardinality(Descriptors)
      BY <1>2, <2>1, <3>2, <3>3, <3>4, <3>5, DescriptorCount
    <3>7. nfds' <= 2 * Cardinality(Descriptors)
      BY <1>2, <2>1, <3>4, <3>6, DescriptorCount
    <3> QED  BY <1>1, <3>6, <3>7 DEF CountInv, Settled
  <2> QED  BY <1>3, <2>4, <2>7, <2>8, <2>9, <2>10 DEF PollInv, TableInv
<1> QED  BY <1>4, <1>5
-----------------------------------------------------------------------------
\* All steps, and the theorems.

\* The slot that an error event or the end of a connection closes holds a
\* connection.
LEMMA ClosingStep ==
    ASSUME PollInv, ScanError \/ RecvClosed
    PROVE  /\ CloseSlot /\ NextSlot
           /\ pc \in {"scan", "recv"} /\ i < current_size
           /\ i \in 1 .. nfds - 1 /\ fds[i].fd \in Descriptors
           /\ peer[fds[i].fd] # "open"
<1>1. CASE ScanError
  <2>1. /\ pc = "scan" /\ i < current_size /\ fds[i].revents = "other"
        /\ CloseSlot /\ NextSlot
    BY <1>1 DEF ScanError, Scanning
  <2>2. nfds \in 1 .. Slots - 1 /\ Slots \in Nat /\ i \in 0 .. nfds - 1
    BY <2>1, ConstantsOK DEF PollInv, TableInv, Typed, LoopInv
  <2>3. i \in 1 .. nfds - 1
    BY <2>1, <2>2 DEF PollInv, TableInv, Layout
  <2>4. fds[i].fd \in Descriptors /\ peer[fds[i].fd] = "reset"
    BY <2>1, <2>3 DEF PollInv, TableInv, Layout, SlotInUse, Hole
  <2> QED  BY <2>1, <2>3, <2>4
<1>2. CASE RecvClosed
  BY <1>2 DEF RecvClosed, HasLeft, PollInv, LoopInv
<1> QED  BY <1>1, <1>2

LEMMA StepPoll == PollInv /\ [Next]_vars => PollInv'
<1> SUFFICES ASSUME PollInv, [Next]_vars PROVE PollInv'
  OBVIOUS
<1>1. CASE ScanError \/ RecvClosed
  BY <1>1, ClosingStep, CloseStep
<1>2. CASE UNCHANGED vars
  <2>1. UNCHANGED <<fds, nfds, compress_array, pc, i, current_size, backlog, peer,
                    data, sends, reported>>
    BY <1>2 DEF vars, tableVars, loopVars, clientVars
  <2>2. TableInv'
    BY <2>1, TableUnchanged DEF PollInv
  <2>3. LoopInv' /\ CountInv' /\ ClientInv'
    BY <2>1 DEF PollInv, LoopInv, CountInv, Settled, HolesBelow, ClientInv
  <2> QED  BY <2>2, <2>3 DEF PollInv
<1> QED
  BY <1>1, <1>2, ClientStep, ScanStep, ScanEndStep, SqueezeEndStep, PollStep,
     AcceptStep, SqueezeStep DEF Next, PollThread

LEMMA PollInvariance == Spec => []PollInv
BY InitPoll, StepPoll, PTL DEF Spec

\* Type correctness of the poll loop: no loop leaves the table.
THEOREM TypeCorrect == Spec => []TypeOK
<1>1. PollInv => TypeOK
  BY DEF PollInv, TableInv, Typed, LoopInv, ClientInv, TypeOK, Slot
<1> QED  BY <1>1, PollInvariance, PTL

\* Accepting, closing and squeezing (PollServer::start) lose no connection and
\* double none, whatever poll() reports or fails to report.
THEOREM TableIsRight == Spec => []TableHoldsOpenDescriptors
<1>1. ASSUME TableInv PROVE TableHoldsOpenDescriptors
  <2>1. nfds \in Nat \ {0}
    BY <1>1, ConstantsOK DEF TableInv, Typed
  <2>2. \A k \in 1 .. nfds - 1 :
          fds[k].fd = -1 \/ (fds[k].fd \in Descriptors /\ peer[fds[k].fd] # "free")
    BY <1>1 DEF TableInv, Layout, SlotInUse, Hole
  <2>3. {f \in Descriptors : peer[f] # "free"}
          = {fds[k].fd : k \in 1 .. nfds - 1} \ {-1}
    <3>1. \A f \in Descriptors : f # -1
      BY ConstantsOK
    <3> QED  BY <1>1, <2>2, <3>1 DEF TableInv, OneSlotEach
  <2>4. fds[0].fd = listen_sd
    BY <1>1 DEF TableInv, Layout
  <2>5. ASSUME NEW k \in 0 .. nfds - 1, NEW l \in 0 .. nfds - 1,
               fds[k].fd = fds[l].fd, fds[k].fd # -1
        PROVE  k = l
    <3>1. CASE k = 0 \/ l = 0
      BY <1>1, <2>4, <2>5, <3>1, ListenerFirst
    <3>2. CASE k # 0 /\ l # 0
      <4>1. k \in 1 .. nfds - 1 /\ l \in 1 .. nfds - 1
        BY <2>1, <3>2
      <4> QED  BY <1>1, <2>5, <4>1 DEF TableInv, OneSlotEach
    <3> QED  BY <3>1, <3>2
  <2> QED  BY <2>3, <2>4, <2>5 DEF TableHoldsOpenDescriptors
<1>2. PollInv => TableHoldsOpenDescriptors
  BY <1>1 DEF PollInv
<1> QED  BY <1>2, PollInvariance, PTL

\* Neither a reused slot nor a reused descriptor inherits an event, also when
\* the events of an earlier poll() are scanned again.
THEOREM EventsAreNotInherited == Spec => []EventsBelongToConnection
<1>1. ASSUME TableInv PROVE EventsBelongToConnection
  <2> SUFFICES ASSUME NEW k \in 0 .. nfds - 1,
                      fds[k].fd # listen_sd, fds[k].revents # "none"
               PROVE  fds[k].fd \in reported
    BY DEF EventsBelongToConnection
  <2>1. nfds \in Nat \ {0} /\ fds[0].fd = listen_sd
    BY <1>1, ConstantsOK DEF TableInv, Typed, Layout
  <2>2. k \in 1 .. nfds - 1
    BY <2>1
  <2> QED  BY <1>1, <2>2 DEF TableInv, Layout, SlotInUse, Hole
<1>2. PollInv => EventsBelongToConnection
  BY <1>1 DEF PollInv
<1> QED  BY <1>2, PollInvariance, PTL

\* Holes that the squeeze skips do not add up: two slots per descriptor are
\* enough for ever.
THEOREM TableNeverOverflows == Spec => []TableFits
<1>1. PollInv => TableFits
  BY DEF PollInv, CountInv, TableFits
<1> QED  BY <1>1, PollInvariance, PTL

\* The server closes a descriptor only after its client has hung up or reset.
THEOREM HealthyConnectionsStay == Spec => CloseOnlyAfterClient
<1>1. ASSUME PollInv, [Next]_vars
      PROVE  [\A f \in Descriptors : peer[f] = "open" => peer'[f] # "free"]_peer
  <2>0. peer \in [Descriptors -> {"free", "open", "closed", "reset"}]
    BY <1>1 DEF PollInv, TableInv, Typed
  <2>1. CASE ScanError \/ RecvClosed
    <3>1. /\ peer' = [peer EXCEPT ![fds[i].fd] = "free"]
          /\ peer[fds[i].fd] # "open"
      BY <1>1, <2>1, ClosingStep DEF CloseSlot
    <3> QED  BY <2>0, <3>1
  <2>2. CASE Client
    BY <2>0, <2>2 DEF Client, ClientConnect, ClientSend, ClientHangUp, ClientReset
  <2>3. CASE Accept
    BY <2>0, <2>3 DEF Accept
  <2>4. CASE UNCHANGED peer
    BY <2>4
  <2>5. CASE UNCHANGED vars
    BY <2>5 DEF vars, clientVars
  <2> QED
    BY <1>1, <2>1, <2>2, <2>3, <2>4, <2>5
       DEF Next, PollThread, Poll, PollFails, ScanQuiet, ScanReadable, ScanEnd,
           AcceptFails, Recv, RecvWouldBlock, Squeeze, SqueezeEnd, clientVars
<1> QED  BY <1>1, PollInvariance, PTL DEF Spec, CloseOnlyAfterClient
=============================================================================
