---------------------------- MODULE ChatHubProofs ----------------------------
(***************************************************************************)
(* For any clients, rooms and channel sizes: the hub never panics, and a   *)
(* client whose writer runs gets every message of its room without a gap.  *)
(***************************************************************************)
EXTENDS ChatHub, SequenceTheorems, TLAPS

\* Who is in a room asked for it and has an open channel; a client that has not
\* come yet has got nothing, one that leaves is in no room.
MemberInv ==
  /\ \A r \in Rooms : \A c \in rooms[r] : Room[c] = r /\ c \notin closed
  /\ \A c \in Clients :
       /\ phase[c] = "new" => received[c] = <<>> /\ buf[c] = <<>>
       /\ phase[c] \in {"new", "added"} => writer[c] = "off"
       /\ phase[c] = "new" => c \notin closed /\ c \notin rooms[Room[c]]

\* Message by message: got, then what waits, is the part of lg behind its first
\* start messages, all of it if c is a member of the room.
Fits(got, waits, lg, start, member) ==
  /\ start + Len(got) + Len(waits) <= Len(lg)
  /\ \A i \in 1..Len(got) : got[i] = lg[start + i]
  /\ \A i \in 1..Len(waits) : waits[i] = lg[start + Len(got) + i]
  /\ member => start + Len(got) + Len(waits) = Len(lg)

\* What client c was sent and what waits in its channel fit the log of its room.
Contiguous(c) == Fits(received[c], buf[c], log[Room[c]], from[c], c \in rooms[Room[c]])

GapInv == \A c \in Clients : phase[c] # "new" /\ writer[c] # "done" => Contiguous(c)

ChatInv == ChatTypeOK /\ MemberInv /\ HubNeverPanics /\ GapInv

\* The log grows while a client that is no longer a member gets nothing.
LEMMA FitsLog ==
  ASSUME NEW S, NEW got \in Seq(S), NEW waits \in Seq(S), NEW lg \in Seq(S), NEW start \in Nat,
         Fits(got, waits, lg, start, FALSE), NEW m \in S
  PROVE  Fits(got, waits, Append(lg, m), start, FALSE)
  <1>1. /\ Len(Append(lg, m)) = Len(lg) + 1
        /\ \A i \in 1..Len(lg) : Append(lg, m)[i] = lg[i]
    OBVIOUS
  <1>2. Len(got) \in Nat /\ Len(waits) \in Nat /\ Len(lg) \in Nat
    OBVIOUS
  <1>3. start + Len(got) + Len(waits) <= Len(lg)
    BY DEF Fits
  <1>4. \A i \in 1..Len(got) : start + i \in 1..Len(lg)
    BY <1>2, <1>3
  <1>5. \A i \in 1..Len(waits) : start + Len(got) + i \in 1..Len(lg)
    BY <1>2, <1>3
  <1> QED BY <1>1, <1>2, <1>3, <1>4, <1>5 DEF Fits

\* The log and a member's channel get the same message.
LEMMA FitsBoth ==
  ASSUME NEW S, NEW got \in Seq(S), NEW waits \in Seq(S), NEW lg \in Seq(S), NEW start \in Nat,
         Fits(got, waits, lg, start, TRUE), NEW m \in S
  PROVE  Fits(got, Append(waits, m), Append(lg, m), start, TRUE)
  <1>1. /\ Len(Append(lg, m)) = Len(lg) + 1
        /\ \A i \in 1..Len(lg) : Append(lg, m)[i] = lg[i]
        /\ Append(lg, m)[Len(lg) + 1] = m
    OBVIOUS
  <1>2. /\ Len(Append(waits, m)) = Len(waits) + 1
        /\ \A i \in 1..Len(waits) : Append(waits, m)[i] = waits[i]
        /\ Append(waits, m)[Len(waits) + 1] = m
    OBVIOUS
  <1>3. Len(got) \in Nat /\ Len(waits) \in Nat /\ Len(lg) \in Nat
    OBVIOUS
  <1>4. start + Len(got) + Len(waits) = Len(lg)
    BY DEF Fits
  <1>5. \A i \in 1..Len(got) : got[i] = Append(lg, m)[start + i]
    <2>1. \A i \in 1..Len(got) : start + i \in 1..Len(lg)
      BY <1>3, <1>4
    <2> QED BY <1>1, <2>1 DEF Fits
  <1>6. \A i \in 1..Len(Append(waits, m)) : Append(waits, m)[i] = Append(lg, m)[start + Len(got) + i]
    <2> SUFFICES ASSUME NEW i \in 1..Len(Append(waits, m))
                 PROVE  Append(waits, m)[i] = Append(lg, m)[start + Len(got) + i]
      OBVIOUS
    <2>1. CASE i = Len(waits) + 1
      <3>1. start + Len(got) + i = Len(lg) + 1
        BY <1>3, <1>4, <2>1
      <3> QED BY <1>1, <1>2, <2>1, <3>1
    <2>2. CASE i \in 1..Len(waits)
      <3>1. start + Len(got) + i \in 1..Len(lg)
        BY <1>3, <1>4, <2>2
      <3> QED BY <1>1, <1>2, <2>2, <3>1 DEF Fits
    <2>3. i \in 1..Len(waits) \/ i = Len(waits) + 1
      BY <1>2, <1>3
    <2> QED BY <2>1, <2>2, <2>3
  <1>7. start + Len(got) + Len(Append(waits, m)) = Len(Append(lg, m))
    BY <1>1, <1>2, <1>3, <1>4
  <1>8. start + Len(got) + Len(Append(waits, m)) <= Len(Append(lg, m))
    BY <1>1, <1>3, <1>7
  <1> QED BY <1>5, <1>6, <1>7, <1>8 DEF Fits

\* The writer moves the first waiting message to the connection.
LEMMA FitsMove ==
  ASSUME NEW S, NEW got \in Seq(S), NEW waits \in Seq(S), NEW lg \in Seq(S), NEW start \in Nat,
         NEW member, Fits(got, waits, lg, start, member), waits # <<>>
  PROVE  Fits(Append(got, Head(waits)), Tail(waits), lg, start, member)
  <1> DEFINE got2 == Append(got, Head(waits))
             waits2 == Tail(waits)
  <1>1. Len(got) \in Nat /\ Len(waits) \in Nat \ {0} /\ Len(lg) \in Nat
    BY EmptySeq
  <1>2. /\ Head(waits) = waits[1] /\ Head(waits) \in S
        /\ waits2 \in Seq(S) /\ Len(waits2) = Len(waits) - 1
        /\ \A i \in 1..Len(waits2) : waits2[i] = waits[i + 1]
    BY <1>1
  <1>3. /\ Len(got2) = Len(got) + 1
        /\ \A i \in 1..Len(got) : got2[i] = got[i]
        /\ got2[Len(got) + 1] = Head(waits)
    BY <1>2
  <1> HIDE DEF got2, waits2
  <1>4. Len(got2) + Len(waits2) = Len(got) + Len(waits)
    BY <1>1, <1>2, <1>3
  <1>5. \A i \in 1..Len(got2) : got2[i] = lg[start + i]
    <2> SUFFICES ASSUME NEW i \in 1..Len(got2) PROVE got2[i] = lg[start + i]
      OBVIOUS
    <2>1. CASE i \in 1..Len(got)
      BY <1>3, <2>1 DEF Fits
    <2>2. CASE i = Len(got) + 1
      <3>1. waits[1] = lg[start + Len(got) + 1]
        BY <1>1 DEF Fits
      <3>2. start + Len(got) + 1 = start + i
        BY <1>1, <2>2
      <3> QED BY <1>2, <1>3, <2>2, <3>1, <3>2
    <2>3. i \in 1..Len(got) \/ i = Len(got) + 1
      BY <1>1, <1>3
    <2> QED BY <2>1, <2>2, <2>3
  <1>6. \A i \in 1..Len(waits2) : waits2[i] = lg[start + Len(got2) + i]
    <2> SUFFICES ASSUME NEW i \in 1..Len(waits2) PROVE waits2[i] = lg[start + Len(got2) + i]
      OBVIOUS
    <2>1. i + 1 \in 1..Len(waits) /\ start + Len(got2) + i = start + Len(got) + (i + 1)
      BY <1>1, <1>2, <1>3
    <2> QED BY <1>2, <2>1 DEF Fits
  <1>7. start + Len(got2) + Len(waits2) = start + Len(got) + Len(waits)
    BY <1>1, <1>2, <1>3
  <1> QED BY <1>5, <1>6, <1>7 DEF Fits, got2, waits2

\* Fits, as NoGaps states it.
LEMMA FitsIsSubSeq ==
  ASSUME NEW S, NEW got \in Seq(S), NEW waits \in Seq(S), NEW lg \in Seq(S), NEW start \in Nat,
         NEW member, Fits(got, waits, lg, start, member)
  PROVE  got \o waits = SubSeq(lg, start + 1, start + Len(got \o waits))
  <1> DEFINE all == got \o waits
             part == SubSeq(lg, start + 1, start + Len(got \o waits))
  <1>1. Len(got) \in Nat /\ Len(waits) \in Nat /\ Len(lg) \in Nat
    OBVIOUS
  <1>2. /\ all \in Seq(S) /\ Len(all) = Len(got) + Len(waits)
        /\ \A i \in 1..(Len(got) + Len(waits)) :
             all[i] = IF i <= Len(got) THEN got[i] ELSE waits[i - Len(got)]
    BY ConcatProperties
  <1> HIDE DEF all
  <1>3. start + Len(all) <= Len(lg)
    BY <1>1, <1>2 DEF Fits
  <1>4. \A i \in (start + 1)..(start + Len(all)) : lg[i] \in S
    BY <1>1, <1>2, <1>3, ElementOfSeq
  <1>5. /\ part \in Seq(S)
        /\ Len(part) = IF start + 1 <= start + Len(all) THEN start + Len(all) - (start + 1) + 1 ELSE 0
        /\ \A i \in 1..(start + Len(all) - (start + 1) + 1) : part[i] = lg[start + 1 + i - 1]
    BY <1>1, <1>2, <1>4, SubSeqProperties DEF all
  <1> HIDE DEF part
  <1>6. Len(part) = Len(all) /\ start + Len(all) - (start + 1) + 1 = Len(all)
    BY <1>1, <1>2, <1>5
  <1>7. \A i \in 1..Len(all) : all[i] = part[i]
    <2> SUFFICES ASSUME NEW i \in 1..Len(all) PROVE all[i] = part[i]
      OBVIOUS
    <2>1. part[i] = lg[start + 1 + i - 1] /\ start + 1 + i - 1 = start + i
      BY <1>5, <1>6
    <2>2. CASE i <= Len(got)
      BY <1>1, <1>2, <2>1, <2>2 DEF Fits
    <2>3. CASE ~(i <= Len(got))
      <3>1. i - Len(got) \in 1..Len(waits) /\ start + Len(got) + (i - Len(got)) = start + i
        BY <1>1, <1>2, <2>3
      <3>2. waits[i - Len(got)] = lg[start + Len(got) + (i - Len(got))]
        BY <3>1 DEF Fits
      <3> QED BY <1>1, <1>2, <2>1, <2>3, <3>1, <3>2
    <2> QED BY <2>2, <2>3
  <1>8. all = part
    BY <1>2, <1>5, <1>6, <1>7, SeqEqual
  <1> QED BY <1>8 DEF all, part
-----------------------------------------------------------------------------
\* Every client's room is one of the rooms.
LEMMA RoomOfClient == \A c \in Clients : Room[c] \in Rooms
  BY DEF Rooms

\* An empty hub satisfies the invariant.
LEMMA ChatInitInv == ChatInit => ChatInv
  <1> SUFFICES ASSUME ChatInit PROVE ChatInv
    OBVIOUS
  <1>1. ChatTypeOK
    <2>1. <<>> \in Seq(Messages) /\ Len(<<>>) = 0
      BY EmptySeq
    <2>2. \A c \in Clients : Len(buf[c]) <= SendBuffer
      <3> TAKE c \in Clients
      <3>1. buf[c] = <<>>
        BY DEF ChatInit
      <3> QED BY <2>1, <3>1, ChatAssumption
    <2>3. buf \in [Clients -> Seq(Messages)] /\ received \in [Clients -> Seq(Messages)]
      BY <2>1 DEF ChatInit
    <2>4. log \in [Rooms -> Seq(Messages)] /\ texts \in 0..MaxTexts
      BY <2>1, ChatAssumption DEF ChatInit
    <2> QED BY <2>2, <2>3, <2>4 DEF ChatInit, ChatTypeOK
  <1>2. MemberInv /\ HubNeverPanics /\ GapInv
    BY RoomOfClient DEF ChatInit, MemberInv, HubNeverPanics, GapInv
  <1> QED BY <1>1, <1>2 DEF ChatInv

\* What a broadcast of m in room r does to the channels, the log and the rooms.
Broadcasted(r, m) ==
  /\ rooms' \in [Rooms -> SUBSET Clients]
  /\ \A q \in Rooms : rooms'[q] = IF q = r THEN rooms[r] \ Slow(r) ELSE rooms[q]
  /\ closed' = closed \cup Slow(r) /\ closed' \subseteq Clients
  /\ panicked' = FALSE
  /\ log' \in [Rooms -> Seq(Messages)]
  /\ \A q \in Rooms : log'[q] = IF q = r THEN Append(log[r], m) ELSE log[q]
  /\ buf' \in [Clients -> Seq(Messages)]
  /\ \A c \in Clients :
       /\ buf'[c] = IF c \in rooms[r] \ Slow(r) THEN Append(buf[c], m) ELSE buf[c]
       /\ Len(buf'[c]) <= SendBuffer

\* What a broadcast, whose sends never wait, does to channels and members.
LEMMA BroadcastEffect ==
  ASSUME ChatInv, NEW r \in Rooms, NEW m \in Messages, Broadcast(r, m)
  PROVE  Broadcasted(r, m)
  <1> USE DEF ChatInv, ChatTypeOK
  <1>1. rooms[r] \in SUBSET Clients /\ Slow(r) \subseteq rooms[r]
    BY DEF Slow
  <1>2. /\ rooms' \in [Rooms -> SUBSET Clients]
        /\ \A q \in Rooms : rooms'[q] = IF q = r THEN rooms[r] \ Slow(r) ELSE rooms[q]
    BY <1>1 DEF Broadcast
  <1>3. closed' = closed \cup Slow(r) /\ closed' \subseteq Clients
    BY <1>1 DEF Broadcast
  <1>4. panicked' = FALSE
    BY DEF Broadcast, MemberInv
  <1>5. log[r] \in Seq(Messages) /\ Append(log[r], m) \in Seq(Messages)
    OBVIOUS
  <1>6. /\ log' \in [Rooms -> Seq(Messages)]
        /\ \A q \in Rooms : log'[q] = IF q = r THEN Append(log[r], m) ELSE log[q]
    BY <1>5 DEF Broadcast
  <1>7. \A c \in Clients : /\ buf'[c] = IF c \in rooms[r] \ Slow(r) THEN Append(buf[c], m) ELSE buf[c]
                           /\ buf'[c] \in Seq(Messages)
                           /\ Len(buf'[c]) <= SendBuffer
    <2> SUFFICES ASSUME NEW c \in Clients
                 PROVE  /\ buf'[c] = IF c \in rooms[r] \ Slow(r) THEN Append(buf[c], m) ELSE buf[c]
                        /\ buf'[c] \in Seq(Messages)
                        /\ Len(buf'[c]) <= SendBuffer
      OBVIOUS
    <2>1. buf[c] \in Seq(Messages) /\ Len(buf[c]) <= SendBuffer /\ Len(buf[c]) \in Nat
      OBVIOUS
    <2>2. CASE c \in rooms[r] \ Slow(r)
      <3>1. buf'[c] = Append(buf[c], m) /\ ~(Len(buf[c]) >= SendBuffer)
        BY <2>2 DEF Broadcast, Slow
      <3>2. Append(buf[c], m) \in Seq(Messages) /\ Len(Append(buf[c], m)) = Len(buf[c]) + 1
        BY <2>1
      <3> QED BY <2>1, <2>2, <3>1, <3>2, ChatAssumption
    <2>3. CASE c \notin rooms[r] \ Slow(r)
      BY <2>1, <2>3 DEF Broadcast
    <2> QED BY <2>2, <2>3
  <1>8. buf' \in [Clients -> Seq(Messages)]
    BY <1>7 DEF Broadcast
  <1> QED BY <1>2, <1>3, <1>4, <1>6, <1>7, <1>8 DEF Broadcasted

\* A broadcast leaves no gap: it appends to a member's channel what it appends to
\* the log, or drops the member.
LEMMA BroadcastContiguous ==
  ASSUME ChatInv, NEW r \in Rooms, NEW m \in Messages, Broadcast(r, m),
         UNCHANGED <<from, received>>,
         NEW c \in Clients, Contiguous(c)
  PROVE  Contiguous(c)'
  <1>0. Broadcasted(r, m)
    BY BroadcastEffect
  <1>1. /\ received[c] \in Seq(Messages) /\ buf[c] \in Seq(Messages)
        /\ log[Room[c]] \in Seq(Messages) /\ from[c] \in Nat /\ Room[c] \in Rooms
    BY RoomOfClient DEF ChatInv, ChatTypeOK
  <1>2. CASE Room[c] # r
    <2>1. c \notin rooms[r]
      BY <1>2 DEF ChatInv, MemberInv
    <2>2. buf'[c] = buf[c] /\ log'[Room[c]] = log[Room[c]] /\ rooms'[Room[c]] = rooms[Room[c]]
      BY <1>1, <1>2, <2>1, <1>0 DEF Broadcasted
    <2> QED BY <2>2 DEF Contiguous
  <1>3. CASE Room[c] = r /\ c \notin rooms[r] \ Slow(r)
    <2>1. buf'[c] = buf[c] /\ c \notin rooms'[r] /\ log'[r] = Append(log[r], m)
      BY <1>3, <1>0 DEF Broadcasted
    <2>2. Fits(received[c], buf[c], log'[r], from[c], FALSE)
      <3>1. Fits(received[c], buf[c], log[r], from[c], FALSE)
        BY <1>3 DEF Contiguous, Fits
      <3>2. Fits(received[c], buf[c], Append(log[r], m), from[c], FALSE)
        BY <1>1, <1>3, <3>1, FitsLog
      <3> QED BY <2>1, <3>2
    <2> QED BY <1>3, <2>1, <2>2 DEF Contiguous, Fits
  <1>4. CASE Room[c] = r /\ c \in rooms[r] \ Slow(r)
    <2>1. buf'[c] = Append(buf[c], m) /\ log'[r] = Append(log[r], m) /\ c \in rooms'[r]
      BY <1>4, <1>0 DEF Broadcasted
    <2>2. Fits(received[c], buf'[c], log'[r], from[c], TRUE)
      BY <1>1, <1>4, <2>1, FitsBoth DEF Contiguous
    <2> QED BY <1>4, <2>1, <2>2 DEF Contiguous
  <1> QED BY <1>2, <1>3, <1>4

\* A broadcast by client d keeps the invariant, once d's own phase, writer and
\* connection are set.
LEMMA BroadcastInv ==
  ASSUME ChatInv, NEW d \in Clients, NEW m \in Messages, Broadcast(Room[d], m),
         UNCHANGED <<from, received>>,
         phase[d] # "new",
         NEW ph \in {"reading", "leaving", "gone"}, phase' = [phase EXCEPT ![d] = ph],
         NEW wr \in {"off", "run", "done"}, writer' = [writer EXCEPT ![d] = wr],
         writer[d] = "done" => wr = "done",
         conn' \subseteq Clients, texts' \in 0..MaxTexts
  PROVE  ChatInv'
  <1> DEFINE r == Room[d]
  <1>1. r \in Rooms
    BY RoomOfClient
  <1>0. Broadcasted(r, m)
    BY <1>1, BroadcastEffect
  <1> HIDE DEF r
  <1>2. ChatTypeOK'
    BY <1>1, <1>0 DEF Broadcasted, ChatInv, ChatTypeOK
  <1>3. MemberInv'
    <2>1. \A q \in Rooms : \A c \in rooms'[q] : Room[c] = q /\ c \notin closed'
      <3> SUFFICES ASSUME NEW q \in Rooms, NEW c \in rooms'[q]
                   PROVE  Room[c] = q /\ c \notin closed'
        OBVIOUS
      <3>1. c \in rooms[q] /\ Room[c] = q /\ c \notin closed
        BY <1>1, <1>0 DEF Broadcasted, ChatInv, MemberInv
      <3>2. c \notin Slow(r)
        BY <1>1, <3>1, <1>0 DEF Broadcasted, ChatInv, MemberInv, Slow
      <3> QED BY <1>1, <3>1, <3>2, <1>0 DEF Broadcasted
    <2>2. ASSUME NEW c \in Clients, phase'[c] = "new"
          PROVE  received'[c] = <<>> /\ buf'[c] = <<>> /\ c \notin closed' /\ c \notin rooms'[Room[c]]
      <3>1. phase[c] = "new"
        BY <2>2 DEF ChatInv, ChatTypeOK
      <3>2. c \notin rooms[r]
        BY <1>1, <3>1 DEF ChatInv, MemberInv
      <3>3. c \notin rooms'[Room[c]]
        BY <1>1, <3>1, <3>2, <1>0, RoomOfClient DEF Broadcasted, ChatInv, MemberInv
      <3> QED BY <1>1, <3>1, <3>2, <3>3, <1>0 DEF Broadcasted, ChatInv, MemberInv, Slow
    <2>3. ASSUME NEW c \in Clients, phase'[c] \in {"new", "added"} PROVE writer'[c] = "off"
      BY <2>3 DEF ChatInv, ChatTypeOK, MemberInv
    <2> QED BY <2>1, <2>2, <2>3 DEF MemberInv
  <1>4. HubNeverPanics'
    BY <1>1, <1>0 DEF Broadcasted, HubNeverPanics
  <1>5. GapInv'
    <2> SUFFICES ASSUME NEW c \in Clients, phase'[c] # "new", writer'[c] # "done"
                 PROVE  Contiguous(c)'
      BY DEF GapInv
    <2>1. phase[c] # "new" /\ writer[c] # "done"
      BY DEF ChatInv, ChatTypeOK
    <2>2. Contiguous(c)
      BY <2>1 DEF ChatInv, GapInv
    <2> QED BY <1>1, <2>2, BroadcastContiguous DEF r
  <1> QED BY <1>2, <1>3, <1>4, <1>5 DEF ChatInv

\* Joining, speaking and leaving each end in a broadcast.
LEMMA SpeakInv ==
  ASSUME ChatInv, NEW c \in Clients, Join(c) \/ Say(c) \/ Leave(c)
  PROVE  ChatInv'
  <1>1. \A t \in {"joined", "left", "message"} : [type |-> t, by |-> c] \in Messages
    BY DEF Messages
  <1>2. conn' \subseteq Clients
    BY DEF Join, Say, Leave, Connections, ChatInv, ChatTypeOK
  <1>3. CASE Join(c)
    <2>1. writer[c] = "done" => FALSE
      BY <1>3 DEF Join, ChatInv, MemberInv
    <2> QED BY <1>1, <1>2, <1>3, <2>1, BroadcastInv DEF Join, ChatInv, ChatTypeOK
  <1>4. CASE Say(c)
    <2>1. phase' = [phase EXCEPT ![c] = "reading"] /\ writer' = [writer EXCEPT ![c] = writer[c]]
      BY <1>4 DEF Say, ChatInv, ChatTypeOK
    <2>2. texts' \in 0..MaxTexts /\ writer[c] \in {"off", "run", "done"}
      BY <1>4, ChatAssumption DEF Say, ChatInv, ChatTypeOK
    <2> QED BY <1>1, <1>2, <1>4, <2>1, <2>2, BroadcastInv DEF Say
  <1>5. CASE Leave(c)
    <2>1. writer' = [writer EXCEPT ![c] = writer[c]]
      BY <1>5 DEF Leave, ChatInv, ChatTypeOK
    <2>2. texts' \in 0..MaxTexts /\ writer[c] \in {"off", "run", "done"}
      BY <1>5 DEF Leave, ChatInv, ChatTypeOK
    <2> QED BY <1>1, <1>2, <1>5, <2>1, <2>2, BroadcastInv DEF Leave
  <1> QED BY <1>3, <1>4, <1>5

\* A client that is added begins at the end of its room's log.
LEMMA ConnectInv ==
  ASSUME ChatInv, NEW c \in Clients, Connect(c)
  PROVE  ChatInv'
  <1>1. Room[c] \in Rooms /\ log[Room[c]] \in Seq(Messages) /\ Len(log[Room[c]]) \in Nat
    BY RoomOfClient DEF ChatInv, ChatTypeOK
  <1>2. ChatTypeOK'
    BY <1>1 DEF Connect, AddClient, ChatInv, ChatTypeOK
  <1>3. MemberInv' /\ HubNeverPanics'
    BY <1>1, RoomOfClient DEF Connect, AddClient, ChatInv, ChatTypeOK, MemberInv, HubNeverPanics
  <1>4. GapInv'
    <2> SUFFICES ASSUME NEW d \in Clients, phase'[d] # "new", writer'[d] # "done"
                 PROVE  Contiguous(d)'
      BY DEF GapInv
    <2>1. CASE d = c
      <3>1. received'[d] = <<>> /\ buf'[d] = <<>> /\ from'[d] = Len(log[Room[d]])
        BY <2>1 DEF Connect, AddClient, ChatInv, ChatTypeOK, MemberInv
      <3>2. Len(<<>>) = 0 /\ log' = log
        BY DEF Connect
      <3> QED BY <1>1, <2>1, <3>1, <3>2 DEF Contiguous, Fits
    <2>2. CASE d # c
      <3>1. /\ received'[d] = received[d] /\ buf'[d] = buf[d] /\ log' = log
            /\ from'[d] = from[d] /\ Room[d] \in Rooms
            /\ phase'[d] = phase[d] /\ writer'[d] = writer[d]
            /\ d \in rooms'[Room[d]] <=> d \in rooms[Room[d]]
        BY <1>1, <2>2, RoomOfClient DEF Connect, AddClient, ChatInv, ChatTypeOK
      <3> QED BY <3>1 DEF Contiguous, Fits, ChatInv, GapInv
    <2> QED BY <2>1, <2>2
  <1> QED BY <1>2, <1>3, <1>4 DEF ChatInv

\* A reader that ends closes its channel if the hub has not done so.
LEMMA ReadFailsInv ==
  ASSUME ChatInv, NEW c \in Clients, ReadFails(c)
  PROVE  ChatInv'
  <1>1. Room[c] \in Rooms
    BY RoomOfClient
  <1>2. /\ \A q \in Rooms : rooms'[q] \subseteq rooms[q]
        /\ rooms' \in [Rooms -> SUBSET Clients]
        /\ closed' \subseteq closed \cup {c} /\ c \notin rooms'[Room[c]]
        /\ panicked' = FALSE
        /\ \A d \in Clients : d # c => (d \in rooms'[Room[d]] <=> d \in rooms[Room[d]])
    <2>1. CASE c \in rooms[Room[c]]
      <3>1. rooms' = [rooms EXCEPT ![Room[c]] = @ \ {c}] /\ closed' = closed \cup {c}
            /\ panicked' = (c \in closed)
        BY <2>1 DEF ReadFails, RemoveClient
      <3>2. c \notin closed
        BY <1>1, <2>1 DEF ChatInv, MemberInv
      <3>3. rooms \in [Rooms -> SUBSET Clients]
        BY DEF ChatInv, ChatTypeOK
      <3>4. \A q \in Rooms : rooms'[q] = IF q = Room[c] THEN rooms[q] \ {c} ELSE rooms[q]
        BY <3>1, <3>3
      <3>5. \A q \in Rooms : rooms'[q] \subseteq rooms[q]
        BY <3>4
      <3>6. rooms' \in [Rooms -> SUBSET Clients]
        BY <3>1, <3>3
      <3>7. closed' \subseteq closed \cup {c} /\ panicked' = FALSE
        <4>1. (c \in closed) = FALSE
          BY <3>2
        <4> QED BY <3>1, <4>1, Zenon
      <3>8. c \notin rooms'[Room[c]]
        BY <1>1, <3>4
      <3>9. \A d \in Clients : d # c => (d \in rooms'[Room[d]] <=> d \in rooms[Room[d]])
        BY <3>4, RoomOfClient
      <3> QED BY <3>5, <3>6, <3>7, <3>8, <3>9
    <2>2. CASE c \notin rooms[Room[c]]
      BY <2>2 DEF ReadFails, RemoveClient, ChatInv, ChatTypeOK, HubNeverPanics
    <2> QED BY <2>1, <2>2
  <1>3. ChatTypeOK'
    BY <1>2 DEF ReadFails, ChatInv, ChatTypeOK
  <1>4. MemberInv'
    BY <1>1, <1>2, RoomOfClient DEF ReadFails, ChatInv, ChatTypeOK, MemberInv
  <1>5. GapInv'
    <2> SUFFICES ASSUME NEW d \in Clients, phase'[d] # "new", writer'[d] # "done"
                 PROVE  Contiguous(d)'
      BY DEF GapInv
    <2>1. phase[d] # "new" /\ writer[d] # "done"
      BY DEF ReadFails, ChatInv, ChatTypeOK
    <2>2. Contiguous(d)
      BY <2>1 DEF ChatInv, GapInv
    <2>3. d \in rooms'[Room[d]] => d \in rooms[Room[d]]
      BY <1>2
    <2> QED BY <2>2, <2>3 DEF ReadFails, Contiguous, Fits
  <1> QED BY <1>2, <1>3, <1>4, <1>5 DEF ChatInv, HubNeverPanics

\* The writer moves messages on, or ends.
LEMMA WriteLoopInv ==
  ASSUME ChatInv, NEW c \in Clients, WriteLoop(c)
  PROVE  ChatInv'
  <1> USE DEF ChatInv
  <1>1. buf[c] \in Seq(Messages) /\ received[c] \in Seq(Messages) /\ Len(buf[c]) <= SendBuffer
    BY DEF ChatTypeOK
  <1>2. buf[c] # <<>> =>
          /\ Head(buf[c]) \in Messages /\ Tail(buf[c]) \in Seq(Messages)
          /\ Len(Tail(buf[c])) <= SendBuffer
          /\ Append(received[c], Head(buf[c])) \in Seq(Messages)
    BY <1>1, ChatAssumption
  <1>3. UNCHANGED <<rooms, phase, closed, conn, log, from, texts, panicked>>
    BY DEF WriteLoop, Write, WriteFails, WriteEnds
  <1>4. writer[c] = "run"
    BY DEF WriteLoop, Write, WriteFails, WriteEnds
  <1>5. ChatTypeOK'
    <2>1. writer' \in [Clients -> {"off", "run", "done"}]
      BY DEF WriteLoop, Write, WriteFails, WriteEnds, ChatTypeOK
    <2>2. buf' \in [Clients -> Seq(Messages)] /\ \A d \in Clients : Len(buf'[d]) <= SendBuffer
      BY <1>2, ZenonT(60) DEF WriteLoop, Write, WriteFails, WriteEnds, ChatTypeOK
    <2>3. received' \in [Clients -> Seq(Messages)]
      BY <1>2 DEF WriteLoop, Write, WriteFails, WriteEnds, ChatTypeOK
    <2> QED BY <1>3, <2>1, <2>2, <2>3 DEF ChatTypeOK
  <1>6. phase[c] # "new"
    BY <1>4 DEF MemberInv
  <1>7. MemberInv' /\ HubNeverPanics'
    BY <1>3, <1>6 DEF WriteLoop, Write, WriteFails, WriteEnds, MemberInv, HubNeverPanics, ChatTypeOK
  <1>8. GapInv'
    <2> SUFFICES ASSUME NEW d \in Clients, phase[d] # "new", writer'[d] # "done"
                 PROVE  Contiguous(d)'
      BY <1>3 DEF GapInv
    <2>1. CASE d # c
      BY <1>3, <2>1 DEF WriteLoop, Write, WriteFails, WriteEnds, GapInv, Contiguous, ChatTypeOK
    <2>2. CASE d = c
      <3>1. Write(c)
        BY <2>2 DEF WriteLoop, WriteFails, WriteEnds, ChatTypeOK
      <3>2. \/ Fits(received[c], buf[c], log[Room[c]], from[c], TRUE)
            \/ (Fits(received[c], buf[c], log[Room[c]], from[c], FALSE) /\ c \notin rooms[Room[c]])
        <4>1. Contiguous(c)
          BY <1>4, <2>2 DEF GapInv
        <4>2. CASE c \in rooms[Room[c]]
          BY <4>1, <4>2 DEF Contiguous, Fits
        <4>3. CASE c \notin rooms[Room[c]]
          BY <4>1, <4>3 DEF Contiguous, Fits
        <4> QED BY <4>2, <4>3
      <3>3. /\ received'[c] = Append(received[c], Head(buf[c])) /\ buf'[c] = Tail(buf[c])
            /\ buf[c] # <<>>
        BY <3>1 DEF Write, ChatTypeOK
      <3>4. log[Room[c]] \in Seq(Messages) /\ from[c] \in Nat
        BY RoomOfClient DEF ChatTypeOK
      <3>5. \/ Fits(received'[c], buf'[c], log[Room[c]], from[c], TRUE)
            \/ (Fits(received'[c], buf'[c], log[Room[c]], from[c], FALSE) /\ c \notin rooms[Room[c]])
        BY <1>1, <3>2, <3>3, <3>4, FitsMove
      <3> QED BY <1>3, <2>2, <3>5 DEF Contiguous, Fits
    <2> QED BY <2>1, <2>2
  <1> QED BY <1>5, <1>7, <1>8

\* The hub's invariant holds in every reachable state.
THEOREM ChatInvariance == ChatSpec => []ChatInv
  <1>1. ChatInv /\ [ChatNext]_chatVars => ChatInv'
    <2> SUFFICES ASSUME ChatInv, [ChatNext]_chatVars PROVE ChatInv'
      OBVIOUS
    <2>1. CASE UNCHANGED chatVars
      BY <2>1 DEF chatVars, ChatInv, ChatTypeOK, MemberInv, HubNeverPanics, GapInv, Contiguous
    <2>2. CASE ChatNext
      BY <2>2, ConnectInv, SpeakInv, ReadFailsInv, WriteLoopInv DEF ChatNext, Serve
    <2> QED BY <2>1, <2>2
  <1> QED BY <1>1, ChatInitInv, PTL DEF ChatSpec

\* No interleaving of joins, texts, drops and leaves sends on a closed channel or
\* closes one twice (broadcast, removeClient).
THEOREM HubDoesNotPanic == ChatSpec => []HubNeverPanics
  <1>1. ChatInv => HubNeverPanics
    BY DEF ChatInv
  <1> QED BY <1>1, ChatInvariance, PTL

\* A client whose writer runs has been sent, or has waiting, an unbroken part of its
\* room's log from where it was added, to the end while it is a member (broadcast,
\* writeLoop).
THEOREM ClientsSeeNoGaps == ChatSpec => []NoGaps
  <1>1. ChatInv => NoGaps
    <2> SUFFICES ASSUME ChatInv, NEW c \in Clients, phase[c] # "new", writer[c] # "done"
                 PROVE  /\ received[c] \o buf[c] =
                             SubSeq(log[Room[c]], from[c] + 1, from[c] + Len(received[c] \o buf[c]))
                        /\ c \in rooms[Room[c]] =>
                             from[c] + Len(received[c] \o buf[c]) = Len(log[Room[c]])
      BY DEF NoGaps
    <2>1. /\ received[c] \in Seq(Messages) /\ buf[c] \in Seq(Messages)
          /\ log[Room[c]] \in Seq(Messages) /\ from[c] \in Nat
      BY RoomOfClient DEF ChatInv, ChatTypeOK
    <2>2. Contiguous(c)
      BY DEF ChatInv, GapInv
    <2>3. Fits(received[c], buf[c], log[Room[c]], from[c], FALSE)
      BY <2>2 DEF Contiguous, Fits
    <2>4. Len(received[c] \o buf[c]) = Len(received[c]) + Len(buf[c])
      BY <2>1, ConcatProperties
    <2>5. Len(received[c]) \in Nat /\ Len(buf[c]) \in Nat /\ Len(log[Room[c]]) \in Nat
      BY <2>1
    <2>6. c \in rooms[Room[c]] => from[c] + Len(received[c] \o buf[c]) = Len(log[Room[c]])
      <3> SUFFICES ASSUME c \in rooms[Room[c]]
                   PROVE  from[c] + Len(received[c] \o buf[c]) = Len(log[Room[c]])
        OBVIOUS
      <3>1. from[c] + Len(received[c]) + Len(buf[c]) = Len(log[Room[c]])
        BY <2>2 DEF Contiguous, Fits
      <3>2. \A f, a, b \in Nat : f + (a + b) = f + a + b
        OBVIOUS
      <3>3. from[c] + (Len(received[c]) + Len(buf[c])) = Len(log[Room[c]])
        BY <2>1, <2>5, <3>1, <3>2
      <3> QED BY <2>4, <3>3, Zenon
    <2> QED BY <2>1, <2>3, <2>6, FitsIsSubSeq
  <1> QED BY <1>1, ChatInvariance, PTL
=============================================================================
