------------------------ MODULE SelectorServerProofs ------------------------
(***************************************************************************)
(* The accepting side: what the selector, the acceptor and the workers     *)
(* keep true of the connections they share.                                *)
(***************************************************************************)
EXTENDS SelectorServer, TLAPS

AtSocket == {"read", "write", "flush", "send", "error"}

\* The threads: the acceptor holds a connection between its accept and its
\* addConnection; the selector is at a socket or at none, and the flags of the
\* one it is at were struck from the snapshot, so that it comes to it once in
\* an iteration.
Control ==
  /\ con \in [Cons -> Connection]
  /\ known \subseteq Cons
  /\ mtx \in BOOLEAN
  /\ pc \in {"top", "lock", "checked", "wait", "poll", "next", "read", "write",
             "flush", "send", "error", "done"}
  /\ ready \in [Cons -> SUBSET Flags]
  /\ work \in Work
  /\ apc \in {"test", "accept", "count", "add", "done"}
  /\ taken \in Cons \cup {None}
  /\ apc \in {"count", "add"} => taken \in Cons
  /\ stop \in {"no", "flag", "flags", "notified", "shut"}
  /\ overslept \in BOOLEAN /\ alive \in BOOLEAN
  /\ pc \in AtSocket <=> cur # None
  /\ pc = "flush" => work.buffered > 0
  /\ cur # None => ready[cur] = {}

\* Packets the selector has taken from the queue of c and not yet sent.
Buffered(c) == IF cur = c THEN work.buffered ELSE 0

\* A connection: packets are queued only while the selector owns it, with its
\* write flag up; what is taken from its queue or its socket was put there;
\* who works on it is its owner.
SoundCon(c) ==
  /\ con[c].sendQ > 0 => con[c].place = "owned" /\ "write" \in con[c].mask
  /\ con[c].inbox + con[c].toCome <= MaxIn
  /\ con[c].sendQ + con[c].toQueue + Buffered(c) <= MaxOut
  /\ cur = c => con[c].place = "owned"
  /\ ready[c] # {} => con[c].place = "owned"
  /\ apc \in {"count", "add"} /\ taken = c => con[c].place = "taken"

ServerInv == Control /\ \A c \in Cons : SoundCon(c)

-----------------------------------------------------------------------------
(* One connection changes.                                                 *)

\* A connection and the selector's work on it, in numbers.
LEMMA ConNumbers ==
  ASSUME ServerInv, NEW c \in Cons
  PROVE  /\ con[c] \in Connection
         /\ con[c].inbox \in Nat /\ con[c].toCome \in Nat
         /\ con[c].sendQ \in Nat /\ con[c].toQueue \in Nat
         /\ Buffered(c) \in Nat /\ work.buffered \in Nat
         /\ MaxIn \in Nat /\ MaxOut \in Nat
BY ServerAssumption DEF ServerInv, Control, Connection, Work, Buffered

\* A peer or a worker changes one connection, as no thread of the server
\* notices.
LEMMA OneConnection ==
  ASSUME ServerInv, NEW c \in Cons, con' \in [Cons -> Connection],
         \A d \in Cons : d # c => con'[d] = con[d],
         UNCHANGED <<selVars, accVars>>,
         con'[c].sendQ > 0 => con'[c].place = "owned" /\ "write" \in con'[c].mask,
         con'[c].inbox + con'[c].toCome <= MaxIn,
         con'[c].sendQ + con'[c].toQueue <= con[c].sendQ + con[c].toQueue,
         con[c].place # "none" => con'[c].place = con[c].place
  PROVE  \A d \in Cons : SoundCon(d)'
<1>1. \A d \in Cons : SoundCon(d) /\ Buffered(d)' = Buffered(d)
  BY DEF ServerInv, Buffered, cur, selVars
<1>2. ASSUME NEW d \in Cons, d # c
      PROVE  SoundCon(d)'
  BY <1>1, <1>2 DEF SoundCon, cur, selVars, accVars
<1>3. SoundCon(c)'
  <2>1. con'[c].sendQ + con'[c].toQueue + Buffered(c) <= MaxOut
    BY <1>1, ConNumbers DEF SoundCon, Connection
  <2>. QED BY <1>1, <2>1 DEF SoundCon, cur, selVars, accVars
<1>. QED BY <1>2, <1>3

LEMMA PeerKeeps ==
  ASSUME ServerInv, NEW c \in Cons, PeerStep(c)
  PROVE  ServerInv'
<1> DEFINE u == con[c]
           x == con'[c]
<1>1. /\ u \in Connection
      /\ u.inbox \in Nat /\ u.toCome \in Nat /\ u.sendQ \in Nat /\ u.toQueue \in Nat
      /\ MaxIn \in Nat /\ MaxOut \in Nat
      /\ con \in [Cons -> Connection]
  BY ConNumbers DEF ServerInv, Control
<1>2. /\ u.inbox + u.toCome <= MaxIn
      /\ u.sendQ > 0 => u.place = "owned" /\ "write" \in u.mask
  BY DEF ServerInv, SoundCon
<1>3. UNCHANGED <<known, selVars, accVars, endVars>>
  BY DEF PeerStep
<1>4. /\ con' \in [Cons -> Connection]
      /\ \A d \in Cons : d # c => con'[d] = con[d]
      /\ x.mask = u.mask /\ x.sendQ = u.sendQ /\ x.toQueue = u.toQueue
      /\ x.inbox + x.toCome = u.inbox + u.toCome
      /\ u.place # "none" => x.place = u.place
  <2>1. CASE Connects(c)
    BY <1>1, <2>1 DEF Connects, Connection
  <2>2. CASE PeerSends(c)
    <3>1. u.toCome - 1 \in 0..MaxIn /\ u.inbox + 1 \in 0..MaxIn
      BY <1>1, <1>2, <2>2 DEF PeerSends
    <3>. QED BY <1>1, <2>2, <3>1 DEF PeerSends, Connection
  <2>3. CASE PeerFails(c)
    BY <1>1, <2>3 DEF PeerFails, Connection
  <2>. QED BY <2>1, <2>2, <2>3 DEF PeerStep
<1>5. x.sendQ > 0 => u.place # "none"
  BY <1>2, <1>4
<1>6. \A d \in Cons : SoundCon(d)'
  BY <1>1, <1>2, <1>3, <1>4, <1>5, OneConnection
<1>. QED BY <1>3, <1>4, <1>6 DEF ServerInv, Control, selVars, accVars, endVars, cur

\* Whatever the selector does with its snapshot, the packet comes with the
\* write flag.
LEMMA SendPacketKeeps ==
  ASSUME ServerInv, NEW c \in Cons, SendPacket(c)
  PROVE  ServerInv'
<1>1. /\ con[c] \in Connection /\ con \in [Cons -> Connection]
      /\ con[c].sendQ \in Nat /\ con[c].toQueue \in Nat
      /\ con[c].inbox \in Nat /\ con[c].toCome \in Nat
      /\ con[c].sendQ + con[c].toQueue <= MaxOut /\ MaxOut \in Nat
      /\ con[c].inbox + con[c].toCome <= MaxIn
  BY ConNumbers DEF ServerInv, Control, SoundCon
<1>2. /\ con[c].place = "owned" /\ con[c].toQueue > 0
      /\ con' = [con EXCEPT ![c].toQueue = @ - 1, ![c].sendQ = @ + 1, ![c].mask = {"read", "write"}]
      /\ UNCHANGED <<known, selVars, accVars, endVars>>
  BY DEF SendPacket, Queues
<1>3. con[c].toQueue - 1 \in 0..MaxOut /\ con[c].sendQ + 1 \in 0..MaxOut
  BY <1>1, <1>2
<1>4. /\ con' \in [Cons -> Connection]
      /\ \A d \in Cons : d # c => con'[d] = con[d]
      /\ con'[c].sendQ = con[c].sendQ + 1 /\ con'[c].toQueue = con[c].toQueue - 1
      /\ con'[c].mask = {"read", "write"} /\ con'[c].place = con[c].place
      /\ con'[c].inbox = con[c].inbox /\ con'[c].toCome = con[c].toCome
  BY <1>1, <1>2, <1>3 DEF Connection
<1>5. con'[c].sendQ + con'[c].toQueue <= con[c].sendQ + con[c].toQueue
  BY <1>1, <1>4
<1>6. \A d \in Cons : SoundCon(d)'
  BY <1>1, <1>2, <1>4, <1>5, OneConnection
<1>. QED BY <1>2, <1>4, <1>6 DEF ServerInv, Control, selVars, accVars, endVars, cur

\* Only the threads of the server move.
LEMMA ConUnchanged ==
  ASSUME ServerInv, UNCHANGED <<con, ready, work>>,
         \A c \in Cons : apc' \in {"count", "add"} /\ taken' = c
                           => apc \in {"count", "add"} /\ taken = c
  PROVE  /\ con' \in [Cons -> Connection] /\ ready' \in [Cons -> SUBSET Flags] /\ work' \in Work
         /\ (cur # None => ready[cur] = {})' /\ cur' = cur
         /\ \A c \in Cons : SoundCon(c)'
BY DEF ServerInv, Control, SoundCon, Buffered, cur

LEMMA AcceptorKeeps ==
  ASSUME ServerInv, AcceptorStep
  PROVE  ServerInv'
<1>1. CASE AcceptTest \/ AcceptFails \/ CountConnections
  <2>1. /\ UNCHANGED <<con, known, mtx, pc, ready, work, taken, stop, overslept, alive>>
        /\ apc' \in {"test", "accept", "done", "add"}
        /\ apc' = "add" => apc = "count"
    BY <1>1 DEF AcceptTest, AcceptFails, CountConnections, selVars, endVars
  <2>. QED BY <2>1, ConUnchanged DEF ServerInv, Control
<1>2. CASE Accept
  <2>1. PICK c \in Cons : con[c].place = "backlog" /\ con' = [con EXCEPT ![c].place = "taken"]
                          /\ taken' = c
    BY <1>2 DEF Accept
  <2>2. /\ apc' = "count"
        /\ UNCHANGED <<known, mtx, pc, ready, work, stop, overslept, alive>>
    BY <1>2 DEF Accept, selVars, endVars
  <2>3. con \in [Cons -> Connection] /\ con[c] \in Connection
    BY DEF ServerInv, Control
  <2>4. /\ con' \in [Cons -> Connection]
        /\ \A d \in Cons : d # c => con'[d] = con[d]
        /\ con'[c].place = "taken" /\ con'[c].sendQ = con[c].sendQ
        /\ con'[c].toQueue = con[c].toQueue /\ con'[c].mask = con[c].mask
        /\ con'[c].inbox = con[c].inbox /\ con'[c].toCome = con[c].toCome
    BY <2>1, <2>3 DEF Connection
  <2>5. \A d \in Cons : SoundCon(d) /\ Buffered(d)' = Buffered(d)
    BY <2>2 DEF ServerInv, Buffered, cur
  <2>6. SoundCon(c)'
    BY <2>1, <2>2, <2>4, <2>5 DEF SoundCon, cur
  <2>7. \A d \in Cons : d # c => SoundCon(d)'
    BY <2>1, <2>2, <2>4, <2>5 DEF SoundCon, cur
  <2>. QED BY <2>1, <2>2, <2>4, <2>6, <2>7 DEF ServerInv, Control, cur
<1>3. CASE AddConnection
  <2>1. PICK c \in Cons : c = taken
    BY <1>3 DEF AddConnection, Adds, ServerInv, Control
  <2>2. /\ con' = [con EXCEPT ![c].place = "owned", ![c].mask = {"read"}]
        /\ apc = "add" /\ apc' = "test" /\ taken' = None
        /\ pc' = IF pc = "wait" THEN "lock" ELSE pc
        /\ UNCHANGED <<known, mtx, ready, work, stop, overslept, alive>>
    BY <1>3, <2>1 DEF AddConnection, Adds, endVars
  <2>3. con \in [Cons -> Connection] /\ con[c] \in Connection
    BY DEF ServerInv, Control
  <2>4. /\ con' \in [Cons -> Connection]
        /\ \A d \in Cons : d # c => con'[d] = con[d]
        /\ con'[c].place = "owned" /\ con'[c].sendQ = con[c].sendQ
        /\ con'[c].toQueue = con[c].toQueue
        /\ con'[c].inbox = con[c].inbox /\ con'[c].toCome = con[c].toCome
    BY <2>2, <2>3 DEF Connection
  <2>5. \A d \in Cons : SoundCon(d) /\ Buffered(d)' = Buffered(d)
    BY <2>2 DEF ServerInv, Buffered, cur
  <2>6. ~(con[c].sendQ > 0)
    BY <2>1, <2>2, <2>5 DEF SoundCon
  <2>7. SoundCon(c)'
    BY <2>2, <2>4, <2>5, <2>6 DEF SoundCon, cur
  <2>8. \A d \in Cons : d # c => SoundCon(d)'
    BY <2>2, <2>4, <2>5 DEF SoundCon, cur
  <2>9. pc' \in AtSocket <=> pc \in AtSocket
    BY <2>2 DEF AtSocket
  <2>. QED BY <2>2, <2>4, <2>7, <2>8, <2>9 DEF ServerInv, Control, cur
<1>. QED BY <1>1, <1>2, <1>3 DEF AcceptorStep

-----------------------------------------------------------------------------
(* The selector.                                                           *)

\* The selector works on its connection, or leaves it.
LEMMA CurrentCon ==
  ASSUME ServerInv, NEW c \in Cons, cur = c, con' \in [Cons -> Connection],
         \A d \in Cons : d # c => con'[d] = con[d],
         UNCHANGED <<ready, accVars>>,
         cur' = c \/ (cur' = None /\ work'.buffered = 0),
         cur' = c => con'[c].place = "owned",
         con'[c].sendQ > 0 => con'[c].place = "owned" /\ "write" \in con'[c].mask,
         con'[c].inbox + con'[c].toCome <= MaxIn,
         con'[c].sendQ + con'[c].toQueue + work'.buffered <= MaxOut
  PROVE  \A d \in Cons : SoundCon(d)'
<1>1. \A d \in Cons : SoundCon(d)
  BY DEF ServerInv
<1>2. /\ con[c].place = "owned" /\ ready[c] = {} /\ c # None
      /\ ~(apc \in {"count", "add"} /\ taken = c)
  BY <1>1, NoneIsNoConnection DEF ServerInv, Control, SoundCon
<1>4. SoundCon(c)'
  <2>1. con'[c].sendQ + con'[c].toQueue + Buffered(c)' <= MaxOut
    BY <1>2, NoneIsNoConnection DEF Buffered
  <2>. QED BY <1>2, <2>1 DEF SoundCon, accVars
<1>5. ASSUME NEW d \in Cons, d # c
      PROVE  SoundCon(d)'
  <2>1. cur' # d /\ cur # d
    BY <1>5, NoneIsNoConnection
  <2>2. Buffered(d)' = Buffered(d)
    BY <2>1 DEF Buffered
  <2>. QED BY <1>1, <1>5, <2>1, <2>2 DEF SoundCon, accVars
<1>. QED BY <1>4, <1>5

\* The selector is between two sockets.
LEMMA SelectorMoves ==
  ASSUME ServerInv, SelectTop \/ SelectLock \/ SelectWaits \/ EndIteration
  PROVE  ServerInv'
<1>1. /\ UNCHANGED <<con, known, ready, work, apc, taken, stop, overslept, alive>>
      /\ mtx' \in BOOLEAN
      /\ pc \in {"top", "lock", "checked", "next"}
      /\ pc' \in {"top", "lock", "checked", "wait", "poll", "done"}
  BY DEF SelectTop, SelectLock, SelectWaits, EndIteration, SelectorAt, Goto, accVars, endVars,
     ServerInv, Control
<1>2. pc \notin AtSocket /\ pc' \notin AtSocket
  BY <1>1 DEF AtSocket
<1>. QED BY <1>1, <1>2, ConUnchanged DEF ServerInv, Control

\* A poll reports connections of the selector only.
LEMMA PollSocketsKeeps ==
  ASSUME ServerInv, PollSockets
  PROVE  ServerInv'
<1>1. /\ ready' \in [Cons -> SUBSET Flags]
      /\ \A c \in Cons : ready'[c] \in Reported(c)
      /\ pc = "poll" /\ pc' = "next"
      /\ UNCHANGED <<con, known, mtx, work, apc, taken, stop, overslept, alive>>
  BY DEF PollSockets, SelectorAt, Goto, accVars, endVars
<1>2. cur = None /\ pc' \notin AtSocket
  BY <1>1 DEF ServerInv, Control, AtSocket
<1>3. \A c \in Cons : ready'[c] # {} => con[c].place = "owned"
  <2>1. \A c \in Cons : c \notin Owned => Reported(c) = {{}}
    BY DEF Reported
  <2>. QED BY <1>1, <2>1 DEF Owned
<1>4. \A c \in Cons : SoundCon(c)'
  BY <1>1, <1>3 DEF ServerInv, SoundCon, Buffered, cur
<1>. QED BY <1>1, <1>2, <1>4 DEF ServerInv, Control, cur

LEMMA NextSocketKeeps ==
  ASSUME ServerInv, NextSocket
  PROVE  ServerInv'
<1>1. PICK c \in Cons :
        /\ ready[c] # {}
        /\ work' = [cur |-> c, flags |-> ready[c], buffered |-> 0]
        /\ ready' = [ready EXCEPT ![c] = {}]
  BY DEF NextSocket
<1>2. /\ pc = "next" /\ pc' = "read"
      /\ UNCHANGED <<con, known, mtx, apc, taken, stop, overslept, alive>>
  BY DEF NextSocket, SelectorAt, Goto, accVars, endVars
<1>3. cur = None /\ pc' \in AtSocket
  BY <1>2 DEF ServerInv, Control, AtSocket
<1>4. /\ cur' = c /\ work'.buffered = 0 /\ work' \in Work /\ cur' # None
      /\ ready' \in [Cons -> SUBSET Flags] /\ ready'[c] = {}
      /\ \A d \in Cons : d # c => ready'[d] = ready[d]
  BY <1>1, ServerAssumption, NoneIsNoConnection DEF cur, Work, ServerInv, Control
<1>5. \A d \in Cons : SoundCon(d) /\ cur # d
  BY <1>3, NoneIsNoConnection DEF ServerInv
<1>6. \A d \in Cons : Buffered(d)' = 0 /\ Buffered(d) = 0
  BY <1>4, <1>5 DEF Buffered
<1>7. \A d \in Cons : SoundCon(d)'
  BY <1>1, <1>2, <1>4, <1>5, <1>6 DEF SoundCon
<1>. QED BY <1>2, <1>3, <1>4, <1>7 DEF ServerInv, Control

\* What the selector does while it is at a socket: it stays, or goes on to the
\* next.
LEMMA AtCurrent ==
  ASSUME ServerInv, NEW c \in Cons, cur = c, con' \in [Cons -> Connection],
         \A d \in Cons : d # c => con'[d] = con[d],
         SocketFrame, known' \subseteq Cons, work' \in Work,
         \/ pc' \in AtSocket /\ cur' = c
         \/ pc' = "next" /\ work' = NoWork,
         pc' = "flush" => work'.buffered > 0,
         \A d \in Cons : SoundCon(d)'
  PROVE  ServerInv'
<1>1. /\ UNCHANGED <<mtx, ready, apc, taken, stop, overslept, alive>>
      /\ c # None /\ ready[c] = {}
  BY NoneIsNoConnection DEF SocketFrame, accVars, endVars, ServerInv, Control
<1>2. (pc' \in AtSocket <=> cur' # None)
  BY <1>1 DEF AtSocket, NoWork, cur
<1>3. (cur' # None => ready'[cur'] = {})
  BY <1>1, <1>2 DEF AtSocket
<1>4. pc' \in {"next", "read", "write", "flush", "send", "error"}
  BY DEF AtSocket
<1>. QED BY <1>1, <1>2, <1>3, <1>4 DEF ServerInv, Control

\* The connection the selector is at.
LEMMA AtSocketFacts ==
  ASSUME ServerInv, pc \in AtSocket
  PROVE  /\ cur \in Cons /\ con[cur] \in Connection /\ con[cur].place = "owned"
         /\ con \in [Cons -> Connection] /\ known \subseteq Cons /\ work \in Work
         /\ con[cur].inbox \in Nat /\ con[cur].toCome \in Nat
         /\ con[cur].sendQ \in Nat /\ con[cur].toQueue \in Nat /\ work.buffered \in Nat
         /\ MaxIn \in Nat /\ MaxOut \in Nat
         /\ con[cur].sendQ > 0 => "write" \in con[cur].mask
         /\ con[cur].inbox + con[cur].toCome <= MaxIn
         /\ con[cur].sendQ + con[cur].toQueue + work.buffered <= MaxOut
<1>1. cur \in Cons
  BY DEF ServerInv, Control, Work, cur
<1>2. SoundCon(cur) /\ Buffered(cur) = work.buffered
  BY <1>1 DEF ServerInv, Buffered
<1>. QED BY <1>1, <1>2, ConNumbers DEF ServerInv, Control, SoundCon

\* A step at a socket keeps the invariant when it keeps what is the
\* connection's.
LEMMA SocketStep ==
  ASSUME ServerInv, NEW c \in Cons, cur = c, con' \in [Cons -> Connection],
         \A d \in Cons : d # c => con'[d] = con[d],
         SocketFrame, known' \subseteq Cons, work' \in Work,
         \/ pc' \in AtSocket /\ cur' = c /\ con'[c].place = "owned"
         \/ pc' = "next" /\ work' = NoWork,
         pc' = "flush" => work'.buffered > 0,
         con'[c].sendQ > 0 => con'[c].place = "owned" /\ "write" \in con'[c].mask,
         con'[c].inbox + con'[c].toCome <= MaxIn,
         con'[c].sendQ + con'[c].toQueue + work'.buffered <= MaxOut
  PROVE  ServerInv'
<1>1. UNCHANGED <<ready, accVars>>
  BY DEF SocketFrame
<1>2. /\ cur' = c \/ (cur' = None /\ work'.buffered = 0)
      /\ cur' = c => con'[c].place = "owned"
  BY NoneIsNoConnection DEF NoWork, cur
<1>3. \A d \in Cons : SoundCon(d)'
  BY <1>1, <1>2, CurrentCon
<1>4. \/ pc' \in AtSocket /\ cur' = c
      \/ pc' = "next" /\ work' = NoWork
  OBVIOUS
<1>. QED BY <1>3, <1>4, AtCurrent

LEMMA ReadKeeps ==
  ASSUME ServerInv, ReceiveBytes \/ ReadDone \/ ReadThrows
  PROVE  ServerInv'
<1>1. pc = "read" /\ pc \in AtSocket /\ SocketFrame
  BY DEF ReceiveBytes, ReadDone, ReadEnds, ReadThrows, LeaveSocket, SelectorAt, AtSocket, SocketFrame
<1>2. PICK c \in Cons : c = cur
  BY <1>1, AtSocketFacts
<1>3. /\ con[c] \in Connection /\ con[c].place = "owned"
      /\ con \in [Cons -> Connection] /\ known \subseteq Cons /\ work \in Work
      /\ con[c].inbox \in Nat /\ con[c].toCome \in Nat /\ MaxIn \in Nat /\ MaxOut \in Nat
      /\ con[c].sendQ > 0 => "write" \in con[c].mask
      /\ con[c].inbox + con[c].toCome <= MaxIn
      /\ con[c].sendQ + con[c].toQueue + work.buffered <= MaxOut
  BY <1>1, <1>2, AtSocketFacts
<1>4. CASE ReceiveBytes
  <2>1. pc' = pc /\ work' = work /\ known' = known \cup {c}
    BY <1>2, <1>4 DEF ReceiveBytes
  <2>2. PICK j \in 1..con[c].inbox : con' = [con EXCEPT ![c].inbox = @ - j]
    BY <1>2, <1>4 DEF ReceiveBytes
  <2>3. con[c].inbox - j \in 0..MaxIn /\ con[c].inbox - j + con[c].toCome <= MaxIn
    BY <1>3
  <2>4. /\ con' \in [Cons -> Connection]
        /\ \A d \in Cons : d # c => con'[d] = con[d]
        /\ con'[c] = [con[c] EXCEPT !.inbox = @ - j]
    BY <1>3, <2>2, <2>3 DEF Connection
  <2>5. /\ con'[c].place = "owned" /\ con'[c].mask = con[c].mask
        /\ con'[c].inbox = con[c].inbox - j /\ con'[c].toCome = con[c].toCome
        /\ con'[c].sendQ = con[c].sendQ /\ con'[c].toQueue = con[c].toQueue
    BY <1>3, <2>4 DEF Connection
  <2>6. con'[c].sendQ + con'[c].toQueue + work'.buffered <= MaxOut
    BY <1>3, <2>1, <2>5
  <2>7. cur' = c /\ work' \in Work /\ known' \subseteq Cons /\ pc' \in AtSocket
    BY <1>1, <1>2, <1>3, <2>1 DEF cur
  <2>8. pc' # "flush"
    BY <1>1, <2>1
  <2>. QED BY <1>1, <1>2, <1>3, <2>3, <2>4, <2>5, <2>6, <2>7, <2>8, SocketStep
<1>5. CASE ReadDone
  <2>1. pc' = "write" /\ work' = work /\ known' = known
    BY <1>5 DEF ReadDone, ReadEnds, Goto
  <2>2. con' = [con EXCEPT ![c].place = "owned"]
    BY <1>2, <1>3, <1>5 DEF ReadDone, ReadEnds
  <2>3. con' = con
    BY <1>3, <2>2 DEF Connection
  <2>4. cur' = c /\ pc' \in AtSocket
    BY <1>2, <2>1 DEF AtSocket, cur
  <2>. QED BY <1>1, <1>2, <1>3, <2>1, <2>3, <2>4, SocketStep
<1>6. CASE ReadThrows
  <2>1. pc' = "next" /\ work' = NoWork /\ known' = known
    BY <1>6 DEF ReadThrows, LeaveSocket, Goto
  <2>2. con' = [con EXCEPT ![c].peer = "eof", ![c].inbox = 0]
    BY <1>2, <1>6 DEF ReadThrows
  <2>8. 0 \in 0..MaxIn
    BY <1>3
  <2>9. [con[c] EXCEPT !.peer = "eof", !.inbox = 0] \in Connection
    BY <1>3, <2>8 DEF Connection
  <2>3. /\ con' \in [Cons -> Connection]
        /\ \A d \in Cons : d # c => con'[d] = con[d]
        /\ con'[c].place = "owned" /\ con'[c].mask = con[c].mask
        /\ con'[c].inbox = 0 /\ con'[c].toCome = con[c].toCome
        /\ con'[c].sendQ = con[c].sendQ /\ con'[c].toQueue = con[c].toQueue
    BY <1>3, <2>2, <2>9 DEF Connection
  <2>4. work' \in Work /\ work'.buffered = 0 /\ work.buffered \in Nat
    BY <1>3, <2>1 DEF NoWork, Work
  <2>5. con[c].sendQ \in Nat /\ con[c].toQueue \in Nat
    BY <1>3 DEF Connection
  <2>6. /\ con'[c].sendQ + con'[c].toQueue + work'.buffered <= MaxOut
        /\ con'[c].inbox + con'[c].toCome <= MaxIn
    BY <1>3, <2>3, <2>4, <2>5
  <2>. QED BY <1>1, <1>2, <1>3, <2>1, <2>3, <2>4, <2>6, SocketStep
<1>. QED BY <1>4, <1>5, <1>6

LEMMA WriteKeeps ==
  ASSUME ServerInv,
         PollSendablePacket \/ PollEmpty \/ NothingToWrite \/ SendFull \/ SendBytes \/ SendThrows
  PROVE  ServerInv'
<1>1. pc \in {"write", "flush", "send"} /\ pc \in AtSocket /\ SocketFrame /\ known' = known
  BY DEF PollSendablePacket, Polls, PollEmpty, NothingToWrite, SendFull, SendBytes, SendThrows,
         LeaveSocket, SelectorAt, AtSocket, SocketFrame
<1>2. PICK c \in Cons : c = cur
  BY <1>1, AtSocketFacts
<1>3. /\ con[c] \in Connection /\ con[c].place = "owned"
      /\ con \in [Cons -> Connection] /\ known \subseteq Cons /\ work \in Work
      /\ con[c].sendQ \in Nat /\ con[c].toQueue \in Nat /\ work.buffered \in Nat
      /\ MaxIn \in Nat /\ MaxOut \in Nat
      /\ con[c].sendQ > 0 => "write" \in con[c].mask
      /\ con[c].inbox + con[c].toCome <= MaxIn
      /\ con[c].sendQ + con[c].toQueue + work.buffered <= MaxOut
  BY <1>1, <1>2, AtSocketFacts
<1>4. CASE PollSendablePacket
  <2>1. /\ pc' \in {"write", "flush"} /\ con[c].sendQ > 0
        /\ work' = [work EXCEPT !.buffered = @ + 1]
        /\ con' = [con EXCEPT ![c].sendQ = @ - 1, ![c].mask = con[c].mask]
    BY <1>2, <1>4 DEF PollSendablePacket, Polls
  <2>2. con[c].sendQ - 1 \in 0..MaxOut /\ work.buffered + 1 \in 0..MaxOut
    BY <1>3, <2>1
  <2>3. /\ con' \in [Cons -> Connection]
        /\ \A d \in Cons : d # c => con'[d] = con[d]
        /\ con'[c].place = "owned" /\ con'[c].mask = con[c].mask
        /\ con'[c].inbox = con[c].inbox /\ con'[c].toCome = con[c].toCome
        /\ con'[c].sendQ = con[c].sendQ - 1 /\ con'[c].toQueue = con[c].toQueue
    BY <1>3, <2>1, <2>2 DEF Connection
  <2>4. work' \in Work /\ work'.buffered = work.buffered + 1 /\ cur' = c
    BY <1>2, <1>3, <2>1, <2>2 DEF Work, cur
  <2>5. con'[c].sendQ + con'[c].toQueue + work'.buffered <= MaxOut
    BY <1>3, <2>3, <2>4
  <2>6. pc' \in AtSocket /\ work'.buffered > 0
    BY <1>3, <2>1, <2>4 DEF AtSocket
  <2>. QED BY <1>1, <1>2, <1>3, <2>1, <2>3, <2>4, <2>5, <2>6, SocketStep
<1>5. CASE PollEmpty
  <2>1. /\ pc' \in AtSocket /\ pc' # "flush" /\ work' = work /\ con[c].sendQ = 0
        /\ con' = [con EXCEPT ![c].mask = {"read"}]
    BY <1>2, <1>5 DEF PollEmpty, Goto, AtSocket
  <2>2. /\ con' \in [Cons -> Connection]
        /\ \A d \in Cons : d # c => con'[d] = con[d]
        /\ con'[c].place = "owned"
        /\ con'[c].inbox = con[c].inbox /\ con'[c].toCome = con[c].toCome
        /\ con'[c].sendQ = con[c].sendQ /\ con'[c].toQueue = con[c].toQueue
    BY <1>3, <2>1 DEF Connection
  <2>3. ~(con'[c].sendQ > 0) /\ cur' = c
    BY <1>2, <2>1, <2>2 DEF cur
  <2>. QED BY <1>1, <1>2, <1>3, <2>1, <2>2, <2>3, SocketStep
<1>6. CASE NothingToWrite \/ SendBytes
  <2>1. /\ con' = con /\ pc' \in AtSocket /\ pc' # "flush"
        /\ work' = work \/ work' = [work EXCEPT !.buffered = 0]
    BY <1>6 DEF NothingToWrite, SendBytes, Goto, AtSocket
  <2>2. 0 \in 0..MaxOut
    BY <1>3
  <2>3. work' \in Work /\ work'.buffered <= work.buffered /\ work'.buffered \in Nat /\ cur' = c
    BY <1>2, <1>3, <2>1, <2>2 DEF Work, cur
  <2>4. con'[c].sendQ + con'[c].toQueue + work'.buffered <= MaxOut
    BY <1>3, <2>1, <2>3
  <2>. QED BY <1>1, <1>2, <1>3, <2>1, <2>3, <2>4, SocketStep
<1>7. CASE SendThrows
  <2>1. con' = con /\ pc' = "next" /\ work' = NoWork
    BY <1>7 DEF SendThrows, LeaveSocket, Goto
  <2>2. work' \in Work /\ work'.buffered = 0
    BY <1>3, <2>1 DEF NoWork, Work
  <2>3. con'[c].sendQ + con'[c].toQueue + work'.buffered <= MaxOut
    BY <1>3, <2>1, <2>2
  <2>. QED BY <1>1, <1>2, <1>3, <2>1, <2>2, <2>3, SocketStep
<1>8. CASE SendFull
  <2>1. /\ con' = con /\ pc' \in AtSocket /\ pc' # "flush"
        /\ work' = [work EXCEPT !.buffered = 1]
    BY <1>8 DEF SendFull, Goto, AtSocket
  <2>2. work.buffered > 0
    BY <1>8 DEF SendFull, SelectorAt, ServerInv, Control
  <2>3. 1 \in 0..MaxOut
    BY <1>3, <2>2
  <2>4. work' \in Work /\ work'.buffered = 1 /\ cur' = c
    BY <1>2, <1>3, <2>1, <2>3 DEF Work, cur
  <2>5. con'[c].sendQ + con'[c].toQueue + work'.buffered <= MaxOut
    BY <1>3, <2>1, <2>2, <2>4
  <2>. QED BY <1>1, <1>2, <1>3, <2>1, <2>4, <2>5, SocketStep
<1>. QED BY <1>4, <1>5, <1>6, <1>7, <1>8

\* A removed connection is no one's any more: its queue goes with it, and the
\* snapshot holds no flag for it.
LEMMA ErrorKeeps ==
  ASSUME ServerInv, NoError \/ RemoveConnection
  PROVE  ServerInv'
<1>1. pc = "error" /\ pc \in AtSocket /\ SocketFrame /\ known' = known
      /\ pc' = "next" /\ work' = NoWork
  BY DEF NoError, RemoveConnection, LeaveSocket, Goto, SelectorAt, AtSocket, SocketFrame
<1>2. PICK c \in Cons : c = cur
  BY <1>1, AtSocketFacts
<1>3. /\ con[c] \in Connection /\ con[c].place = "owned"
      /\ con \in [Cons -> Connection] /\ known \subseteq Cons
      /\ con[c].sendQ \in Nat /\ con[c].toQueue \in Nat /\ work.buffered \in Nat
      /\ MaxIn \in Nat /\ MaxOut \in Nat
      /\ con[c].sendQ > 0 => "write" \in con[c].mask
      /\ con[c].inbox + con[c].toCome <= MaxIn
      /\ con[c].sendQ + con[c].toQueue + work.buffered <= MaxOut
  BY <1>1, <1>2, AtSocketFacts
<1>4. work' \in Work /\ work'.buffered = 0
  BY <1>1, <1>3 DEF NoWork, Work
<1>5. CASE con' = con
  <2>1. con'[c].sendQ + con'[c].toQueue + work'.buffered <= MaxOut
    BY <1>3, <1>4, <1>5
  <2>. QED BY <1>1, <1>2, <1>3, <1>4, <1>5, <2>1, SocketStep
<1>6. CASE con' = [con EXCEPT ![c].place = "freed", ![c].mask = {}, ![c].sendQ = 0]
  <2>1. 0 \in 0..MaxOut
    BY <1>3
  <2>2. /\ con' \in [Cons -> Connection]
        /\ \A d \in Cons : d # c => con'[d] = con[d]
        /\ con'[c].inbox = con[c].inbox /\ con'[c].toCome = con[c].toCome
        /\ con'[c].sendQ = 0 /\ con'[c].toQueue = con[c].toQueue
    BY <1>3, <1>6, <2>1 DEF Connection
  <2>3. con'[c].sendQ + con'[c].toQueue + work'.buffered <= MaxOut /\ ~(con'[c].sendQ > 0)
    BY <1>3, <1>4, <2>2
  <2>. QED BY <1>1, <1>2, <1>3, <1>4, <2>2, <2>3, SocketStep
<1>. QED BY <1>2, <1>5, <1>6 DEF NoError, RemoveConnection

-----------------------------------------------------------------------------
(* The whole server.                                                       *)

LEMMA ShutDownKeeps ==
  ASSUME ServerInv, ClearFlag \/ ClearSelectorFlag \/ NotifySelector \/ ShutSocket
  PROVE  ServerInv'
<1>1. /\ UNCHANGED <<con, known, mtx, ready, work, apc, taken, alive>>
      /\ stop' \in {"flag", "flags", "notified", "shut"}
      /\ pc' = pc \/ (pc = "wait" /\ pc' = "lock")
      /\ overslept' \in BOOLEAN
  BY DEF ClearFlag, ClearSelectorFlag, NotifySelector, Notifies, ShutSocket, selVars, accVars, ServerInv, Control
<1>2. pc' \in AtSocket <=> pc \in AtSocket
  BY <1>1 DEF AtSocket
<1>. QED BY <1>1, <1>2, ConUnchanged DEF ServerInv, Control

LEMMA CrashKeeps ==
  ASSUME ServerInv, NEW c \in Cons, SendPacketFreed(c)
  PROVE  ServerInv'
<1>1. UNCHANGED <<con, known, mtx, pc, ready, work, apc, taken, stop, overslept>> /\ alive' = FALSE
  BY DEF SendPacketFreed, selVars, accVars
<1>2. /\ con' \in [Cons -> Connection] /\ ready' \in [Cons -> SUBSET Flags] /\ work' \in Work
      /\ (cur # None => ready[cur] = {})' /\ cur' = cur
      /\ \A d \in Cons : SoundCon(d)'
  BY <1>1, ConUnchanged
<1>3. Control'
  <2>1. (pc \in AtSocket <=> cur # None)'
    BY <1>1, <1>2 DEF ServerInv, Control, AtSocket
  <2>. QED BY <1>1, <1>2, <2>1 DEF ServerInv, Control
<1>. QED BY <1>2, <1>3 DEF ServerInv

LEMMA ServerInit == Init => ServerInv
<1> SUFFICES ASSUME Init PROVE ServerInv
  OBVIOUS
<1>1. 0 \in 0..MaxIn /\ 0 \in 0..MaxOut /\ MaxIn \in 0..MaxIn /\ MaxOut \in 0..MaxOut
      /\ MaxIn \in Nat /\ MaxOut \in Nat
  BY ServerAssumption
<1>2. con \in [Cons -> Connection]
  BY <1>1 DEF Init, Connection
<1>3. ready \in [Cons -> SUBSET Flags] /\ \A c \in Cons : ready[c] = {}
  BY DEF Init, NoFlags
<1>4. work \in Work /\ cur = None /\ work.buffered = 0
  BY <1>1 DEF Init, NoWork, Work, cur
<1>5. Control
  BY <1>2, <1>3, <1>4 DEF Init, Control, AtSocket
<1>6. ASSUME NEW c \in Cons
      PROVE  SoundCon(c)
  <2>1. /\ con[c].place = "none" /\ con[c].sendQ = 0 /\ con[c].toQueue = MaxOut
        /\ con[c].inbox = 0 /\ con[c].toCome = MaxIn
    BY DEF Init
  <2>2. Buffered(c) = 0 /\ cur # c
    BY <1>4, NoneIsNoConnection DEF Buffered
  <2>3. con[c].inbox + con[c].toCome <= MaxIn
        /\ con[c].sendQ + con[c].toQueue + Buffered(c) <= MaxOut /\ ~(con[c].sendQ > 0)
    BY <1>1, <2>1, <2>2
  <2>4. apc = "test"
    BY DEF Init
  <2>. QED BY <1>3, <2>2, <2>3, <2>4 DEF SoundCon
<1>. QED BY <1>5, <1>6 DEF ServerInv

LEMMA ServerStep == ServerInv /\ [Next]_vars => ServerInv'
<1> SUFFICES ASSUME ServerInv, [Next]_vars PROVE ServerInv'
  OBVIOUS
<1>1. CASE UNCHANGED vars
  <2>1. UNCHANGED <<con, known, mtx, pc, ready, work, apc, taken, stop, overslept, alive>>
    BY <1>1 DEF vars, selVars, accVars, endVars
  <2>. QED BY <2>1, ConUnchanged DEF ServerInv, Control
<1>2. ASSUME NEW c \in Cons, PeerStep(c) \/ SendPacket(c) \/ SendPacketFreed(c)
      PROVE  ServerInv'
  BY <1>2, PeerKeeps, SendPacketKeeps, CrashKeeps
<1>3. CASE AcceptorStep
  BY <1>3, AcceptorKeeps
<1>4. CASE SelectorStep
  BY <1>4, SelectorMoves, PollSocketsKeeps, NextSocketKeeps, ReadKeeps, WriteKeeps, ErrorKeeps
     DEF SelectorStep
<1>5. CASE ClearFlag \/ ClearSelectorFlag \/ NotifySelector \/ ShutSocket
  BY <1>5, ShutDownKeeps
<1>. QED BY <1>1, <1>2, <1>3, <1>4, <1>5 DEF Next

\* The inductive invariant, for any number of connections, packets that arrive
\* and packets that are queued.
THEOREM ServerInvariant == Spec => []ServerInv
BY ServerInit, ServerStep, PTL DEF Spec

\* Types: a queue or an inbox holds no more than was sent or queued.
THEOREM ServerTypeCorrect == Spec => []ServerTypeOK
<1>1. ServerInv => ServerTypeOK
  BY DEF ServerInv, Control, ServerTypeOK
<1>. QED BY <1>1, ServerInvariant, PTL

\* Connection::sendPacket and the selector: whatever their interleaving, a
\* queued packet keeps the write flag of its socket up.
THEOREM MaskFollowsQueueCorrect == Spec => []MaskFollowsQueue
<1>1. ServerInv => MaskFollowsQueue
  BY DEF ServerInv, SoundCon, MaskFollowsQueue, Owned
<1>. QED BY <1>1, ServerInvariant, PTL

\* selectLoop: no connection it has freed is at its hand, nor in what is left
\* of the snapshot of its poll.
THEOREM SelectorTouchesOwnedCorrect == Spec => []SelectorTouchesOwned
<1>1. ServerInv => SelectorTouchesOwned
  <2> SUFFICES ASSUME ServerInv PROVE SelectorTouchesOwned
    OBVIOUS
  <2>1. cur # None => cur \in Cons
    BY DEF ServerInv, Control, Work, cur
  <2>. QED BY <2>1 DEF ServerInv, SoundCon, SelectorTouchesOwned, Owned
<1>. QED BY <1>1, ServerInvariant, PTL
=============================================================================
