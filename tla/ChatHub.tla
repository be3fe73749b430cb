------------------------------- MODULE ChatHub -------------------------------
(***************************************************************************)
(* chatHub: for every connection a reading goroutine (serveWS, readLoop)   *)
(* and a writing one (writeLoop) share a bounded channel; broadcast and    *)
(* removeClient work on the rooms under h.mu.  A client whose channel is   *)
(* full is dropped.  Sending on a closed channel, or closing it again,     *)
(* panics.                                                                 *)
(*                                                                         *)
(* A room's entry in h.rooms exists while the room has members, so rooms[r]*)
(* = {} stands for a missing entry.  Payloads readLoop ignores change      *)
(* nothing and are left out.                                               *)
(***************************************************************************)
EXTENDS Integers, Sequences

CONSTANTS
  Clients,     \* the connections
  Room,        \* Room[c]: the room c asked for
  SendBuffer,  \* chatSendBuffer
  MaxTexts     \* bound on the texts all clients send

Rooms == {Room[c] : c \in Clients}

ASSUME ChatAssumption == SendBuffer \in Nat \ {0} /\ MaxTexts \in Nat

VARIABLES
  rooms,     \* h.rooms
  phase,     \* phase[c]: "new", "added", "reading", "leaving", "gone"
  writer,    \* writer[c]: the goroutine of writeLoop: "off", "run", "done"
  buf,       \* buf[c]: the messages in c.send
  closed,    \* the clients whose c.send is closed
  conn,      \* the clients whose connection is open
  received,  \* received[c]: the messages written to c's connection
  log,       \* log[r]: the messages broadcast in room r
  from,      \* from[c]: where in the log c was added
  texts,     \* how many texts were sent
  panicked   \* a goroutine panicked

chatVars == <<rooms, phase, writer, buf, closed, conn, received, log, from, texts, panicked>>

Messages == [type : {"joined", "left", "message"}, by : Clients]

ChatInit ==
  /\ rooms = [r \in Rooms |-> {}]
  /\ phase = [c \in Clients |-> "new"]
  /\ writer = [c \in Clients |-> "off"]
  /\ buf = [c \in Clients |-> <<>>]
  /\ closed = {} /\ conn = {}
  /\ received = [c \in Clients |-> <<>>]
  /\ log = [r \in Rooms |-> <<>>]
  /\ from = [c \in Clients |-> 0]
  /\ texts = 0
  /\ panicked = FALSE
-----------------------------------------------------------------------------
\* The members of r whose channel is full.
Slow(r) == {c \in rooms[r] : Len(buf[c]) >= SendBuffer}

\* Mutant of Broadcast: a full channel only misses the message.
BroadcastSkips(r, msg) ==
  /\ log' = [log EXCEPT ![r] = Append(@, msg)]
  /\ buf' = [c \in Clients |-> IF c \in rooms[r] \ Slow(r) THEN Append(buf[c], msg) ELSE buf[c]]
  /\ panicked' = (rooms[r] \cap closed # {})
  /\ UNCHANGED <<rooms, closed>>

\* broadcast, under the mutex: a full channel drops the client.  Its connection
\* is closed by the caller of this operator, see Connections.
Broadcast(r, msg) ==
  /\ log' = [log EXCEPT ![r] = Append(@, msg)]
  /\ buf' = [c \in Clients |-> IF c \in rooms[r] \ Slow(r) THEN Append(buf[c], msg) ELSE buf[c]]
  /\ panicked' = (rooms[r] \cap closed # {})
  /\ rooms' = [rooms EXCEPT ![r] = @ \ Slow(r)]
  /\ closed' = closed \cup Slow(r)

\* Mutant of Connections: the dropped clients' connections stay open.
ConnectionsKept(r, own) == conn \ own

\* The connections still open after a broadcast in r and after closing own.
Connections(r, own) == conn \ (own \cup Slow(r))

\* addClient, under the mutex.
AddClient(c) ==
  /\ rooms' = [rooms EXCEPT ![Room[c]] = @ \cup {c}]
  /\ from' = [from EXCEPT ![c] = Len(log[Room[c]])]

\* serveWS up to addClient; a failed upgrade changes nothing.  (In cmd/app every
\* upgrade fails: the metrics middleware wraps the ResponseWriter in a
\* statusRecorder, which has no Hijack.  The hub is that of chat's own handler.)
Connect(c) ==
  /\ phase[c] = "new"
  /\ phase' = [phase EXCEPT ![c] = "added"]
  /\ conn' = conn \cup {c}
  /\ AddClient(c)
  /\ UNCHANGED <<writer, buf, closed, received, log, texts, panicked>>

\* The rest of serveWS: c itself is told too, then writeLoop and readLoop begin.
Join(c) ==
  /\ phase[c] = "added"
  /\ Broadcast(Room[c], [type |-> "joined", by |-> c])
  /\ conn' = Connections(Room[c], {})
  /\ phase' = [phase EXCEPT ![c] = "reading"]
  /\ writer' = [writer EXCEPT ![c] = "run"]
  /\ UNCHANGED <<received, from, texts>>

\* readLoop gets a text.
Say(c) ==
  /\ phase[c] = "reading" /\ c \in conn /\ texts < MaxTexts
  /\ Broadcast(Room[c], [type |-> "message", by |-> c])
  /\ conn' = Connections(Room[c], {})
  /\ texts' = texts + 1
  /\ UNCHANGED <<phase, writer, received, from>>

\* Mutant of RemoveClient: the channel is closed without asking.
RemoveClientAgain(c) ==
  /\ rooms' = [rooms EXCEPT ![Room[c]] = @ \ {c}]
  /\ closed' = closed \cup {c}
  /\ panicked' = (c \in closed)

\* removeClient: nothing for a client that broadcast has dropped.
RemoveClient(c) ==
  IF c \in rooms[Room[c]]
  THEN /\ rooms' = [rooms EXCEPT ![Room[c]] = @ \ {c}]
       /\ closed' = closed \cup {c}
       /\ panicked' = (c \in closed)
  ELSE UNCHANGED <<rooms, closed, panicked>>

\* ReadMessage fails: the peer left, broke the protocol, or the hub closed the
\* connection.
ReadFails(c) ==
  /\ phase[c] = "reading"
  /\ RemoveClient(c)
  /\ phase' = [phase EXCEPT ![c] = "leaving"]
  /\ UNCHANGED <<writer, buf, conn, received, log, from, texts>>

\* The rest of readLoop's deferred function.
Leave(c) ==
  /\ phase[c] = "leaving"
  /\ Broadcast(Room[c], [type |-> "left", by |-> c])
  /\ conn' = Connections(Room[c], {c})
  /\ phase' = [phase EXCEPT ![c] = "gone"]
  /\ UNCHANGED <<writer, received, from, texts>>

\* writeLoop writes a message.
Write(c) ==
  /\ writer[c] = "run" /\ buf[c] # <<>> /\ c \in conn
  /\ received' = [received EXCEPT ![c] = Append(@, Head(buf[c]))]
  /\ buf' = [buf EXCEPT ![c] = Tail(@)]
  /\ UNCHANGED <<rooms, phase, writer, closed, conn, log, from, texts, panicked>>

\* WriteJSON fails: writeLoop returns, the client stays in its room.
WriteFails(c) ==
  /\ writer[c] = "run" /\ buf[c] # <<>>
  /\ writer' = [writer EXCEPT ![c] = "done"]
  /\ buf' = [buf EXCEPT ![c] = Tail(@)]
  /\ UNCHANGED <<rooms, phase, closed, conn, received, log, from, texts, panicked>>

\* The range over c.send ends.
WriteEnds(c) ==
  /\ writer[c] = "run" /\ buf[c] = <<>> /\ c \in closed
  /\ writer' = [writer EXCEPT ![c] = "done"]
  /\ UNCHANGED <<rooms, phase, buf, closed, conn, received, log, from, texts, panicked>>

Serve(c) == Connect(c) \/ Join(c) \/ Say(c) \/ ReadFails(c) \/ Leave(c)

WriteLoop(c) == Write(c) \/ WriteFails(c) \/ WriteEnds(c)

\* A panic ends the program.
ChatNext == ~panicked /\ \E c \in Clients : Serve(c) \/ WriteLoop(c)

\* Goroutines that can run do run.  Reads and writes on an open connection may
\* block forever (there are no deadlines); on a closed one they fail.
ChatFairness == \A c \in Clients :
  /\ WF_chatVars(~panicked /\ (Join(c) \/ Leave(c)))
  /\ WF_chatVars(~panicked /\ c \notin conn /\ ReadFails(c))
  /\ WF_chatVars(~panicked /\ c \notin conn /\ WriteFails(c))
  /\ WF_chatVars(~panicked /\ WriteEnds(c))

ChatSpec == ChatInit /\ [][ChatNext]_chatVars

FairChatSpec == ChatSpec /\ ChatFairness
-----------------------------------------------------------------------------
ChatTypeOK ==
  /\ rooms \in [Rooms -> SUBSET Clients]
  /\ phase \in [Clients -> {"new", "added", "reading", "leaving", "gone"}]
  /\ writer \in [Clients -> {"off", "run", "done"}]
  /\ buf \in [Clients -> Seq(Messages)]
  /\ \A c \in Clients : Len(buf[c]) <= SendBuffer
  /\ closed \subseteq Clients /\ conn \subseteq Clients
  /\ received \in [Clients -> Seq(Messages)]
  /\ log \in [Rooms -> Seq(Messages)]
  /\ from \in [Clients -> Nat]
  /\ texts \in 0..MaxTexts
  /\ panicked \in BOOLEAN

\* The hub never sends on a closed channel and closes none twice, whether
\* broadcast drops a client, its reader leaves, or both happen at once.
HubNeverPanics == ~panicked

\* While its writer runs, a client of a room has been sent, or has waiting, every
\* message broadcast there since it was added, in order: a slow client is dropped
\* and never skips a message.
NoGaps == \A c \in Clients :
  LET got == received[c] \o buf[c]
      upTo == from[c] + Len(got)
  IN  phase[c] # "new" /\ writer[c] # "done" =>
        /\ got = SubSeq(log[Room[c]], from[c] + 1, upTo)
        /\ c \in rooms[Room[c]] => upTo = Len(log[Room[c]])

\* A client that was dropped or that left is torn down: both its goroutines end,
\* even if the peer never reads again.
DroppedClientsEnd == \A c \in Clients :
  c \in closed ~> (phase[c] = "gone" /\ writer[c] = "done")
=============================================================================
