------------------------- MODULE CollabPeers_proofs -------------------------
(***************************************************************************)
(* What the messages between a room and its tabs keep true, for any number *)
(* of sessions, edits, sockets, failed flushes and stops of the server:    *)
(* types, who can have written what a document holds, that no update waits *)
(* in vain, and that a tab at rest agrees with the room.                   *)
(***************************************************************************)
EXTENDS CollabRoom_proofs, FiniteSetTheorems

RoomType == [live : BOOLEAN, doc : Doc, pending : Doc, count : Nat,
             idleTimer : BOOLEAN, flushTimer : BOOLEAN]
RowType == [stored : BOOLEAN, state : Doc, count : Nat]

\* The messages of a queue.
Sent(q) == {q[i] : i \in DOMAIN q}

\* A socket that is held is a peer of its session; what is on its way to a tab is on
\* the socket the tab holds.
Wiring ==
    /\ \A c \in Client : socket[c] # 0 => socket[c] \in peers /\ joined[socket[c]].client = c
    /\ \A c \in opened : socket[c] # 0
    /\ \A k \in Connection : k \notin DOMAIN joined => up[k] = <<>>
    /\ \A k \in Connection : down[k] # <<>> => \E c \in Client : socket[c] = k

\* The clocks of a session count what it has typed, the seeds the rooms.
Counted ==
    /\ rooms <= Len(joined) /\ edits <= MaxEdits
    /\ \A c \in Client :
          /\ IsFiniteSet(Own(c)) /\ Cardinality(Own(c)) <= edits
          /\ \A s \in Own(c) : s.clock <= Cardinality(Own(c))

\* Updates wait with a count of at least one: a flush does not pass them over.
WaitingIsCounted == room.pending # {} => room.count > 0

\* What a session typed is in its own document, wherever else it is.
Messages ==
    /\ \A k \in Connection : \A m \in Sent(down[k]) : m.structs \subseteq room.doc
    /\ \A k \in DOMAIN joined : \A m \in Sent(up[k]) : m.structs \subseteq doc[joined[k].client]

Typed(s) == s.author \in Client => s \in doc[s.author]

Provenance ==
    /\ Messages
    /\ \A s \in room.doc \cup row.state : Typed(s)
    /\ \A c \in Client : \A s \in doc[c] : Typed(s)

TypeInv == RoomInv /\ CollabTypeOK /\ Wiring /\ Counted /\ WaitingIsCounted /\ Provenance

-----------------------------------------------------------------------------
(* Queues.                                                                 *)

LEMMA SentEmpty == Sent(<<>>) = {}
BY DEF Sent

LEMMA SentSingle ==
    ASSUME NEW S, NEW m \in S
    PROVE  <<m>> \in Seq(S) /\ Sent(<<m>>) = {m}
<1>1. <<m>> \in Seq(S) /\ DOMAIN <<m>> = {1} /\ <<m>>[1] = m
  OBVIOUS
<1> QED BY <1>1 DEF Sent

LEMMA SentAppend ==
    ASSUME NEW S, NEW q \in Seq(S), NEW m \in S
    PROVE  Append(q, m) \in Seq(S) /\ Sent(Append(q, m)) = Sent(q) \cup {m}
<1> DEFINE p == Append(q, m)
<1>1. /\ p \in Seq(S) /\ Len(p) = Len(q) + 1 /\ Len(q) \in Nat
      /\ \A i \in 1 .. Len(q) : p[i] = q[i]
      /\ p[Len(q) + 1] = m
  OBVIOUS
<1>2. DOMAIN p = 1 .. Len(q) + 1 /\ DOMAIN q = 1 .. Len(q)
  BY <1>1
<1> HIDE DEF p
<1>3. Sent(p) = Sent(q) \cup {m}
  BY <1>1, <1>2 DEF Sent
<1> QED BY <1>1, <1>3 DEF p

LEMMA SentPair ==
    ASSUME NEW S, NEW q \in Seq(S), NEW m \in S, NEW n \in S
    PROVE  q \o <<m, n>> \in Seq(S) /\ Sent(q \o <<m, n>>) = Sent(q) \cup {m, n}
<1> DEFINE p == q \o <<m, n>>
<1>1. /\ p \in Seq(S) /\ Len(p) = Len(q) + 2 /\ Len(q) \in Nat
      /\ \A i \in 1 .. Len(q) : p[i] = q[i]
      /\ p[Len(q) + 1] = m /\ p[Len(q) + 2] = n
  OBVIOUS
<1>2. DOMAIN p = 1 .. Len(q) + 2 /\ DOMAIN q = 1 .. Len(q)
  BY <1>1
<1> HIDE DEF p
<1>3. Sent(p) = Sent(q) \cup {m, n}
  BY <1>1, <1>2 DEF Sent
<1> QED BY <1>1, <1>3 DEF p

LEMMA SentHead ==
    ASSUME NEW S, NEW q \in Seq(S), q # <<>>
    PROVE  /\ Head(q) \in S /\ Tail(q) \in Seq(S)
           /\ Sent(q) = {Head(q)} \cup Sent(Tail(q))
<1>1. /\ Len(q) \in Nat \ {0} /\ DOMAIN q = 1 .. Len(q)
      /\ Head(q) = q[1] /\ Tail(q) \in Seq(S) /\ Head(q) \in S
      /\ DOMAIN Tail(q) = 1 .. Len(q) - 1
      /\ \A i \in 1 .. Len(q) - 1 : Tail(q)[i] = q[i + 1]
  OBVIOUS
<1>2. \A i \in 1 .. Len(q) : i = 1 \/ (i - 1 \in 1 .. Len(q) - 1 /\ Tail(q)[i - 1] = q[i])
  BY <1>1
<1>3. ASSUME NEW m \in Sent(q) PROVE m \in {Head(q)} \cup Sent(Tail(q))
  <2>1. PICK i \in 1 .. Len(q) : m = q[i]
    BY <1>1 DEF Sent
  <2>2. CASE i = 1
    BY <1>1, <2>1, <2>2
  <2>3. CASE i # 1
    <3>1. i - 1 \in DOMAIN Tail(q) /\ Tail(q)[i - 1] = m
      BY <1>1, <1>2, <2>1, <2>3
    <3> QED BY <3>1 DEF Sent
  <2> QED BY <2>2, <2>3
<1>4. {Head(q)} \cup Sent(Tail(q)) \subseteq Sent(q)
  BY <1>1 DEF Sent
<1> QED BY <1>1, <1>3, <1>4

LEMMA SentPrefix ==
    ASSUME NEW S, NEW q \in Seq(S), NEW n \in 0 .. Len(q)
    PROVE  SubSeq(q, 1, n) \in Seq(S) /\ Sent(SubSeq(q, 1, n)) \subseteq Sent(q)
<1>1. /\ SubSeq(q, 1, n) \in Seq(S) /\ DOMAIN SubSeq(q, 1, n) = 1 .. n
      /\ DOMAIN q = 1 .. Len(q) /\ Len(q) \in Nat
      /\ \A i \in 1 .. n : SubSeq(q, 1, n)[i] = q[i]
  OBVIOUS
<1> QED BY <1>1 DEF Sent

\* The kinds of message.
LEMMA MessageTypes ==
    ASSUME NEW S \in Doc
    PROVE  /\ Step1(S) \in Message /\ Step2(S) \in Message /\ Update(S) \in Message
           /\ Step1(S).type = "step1" /\ Step1(S).structs = Integrated(S)
           /\ Step2(S).type = "step2" /\ Step2(S).structs = S
           /\ Update(S).type = "update" /\ Update(S).structs = S
BY IntegratedSubset DEF Step1, Step2, Update, Message, Doc

-----------------------------------------------------------------------------
(* Flushes.                                                                *)

\* What a flush of r does to the room, the row and the count of failures: what was
\* pending is stored or waits on, unless the database refused it.
LEMMA FlushEffect ==
    ASSUME NEW r \in RoomType, NEW destroy \in BOOLEAN, FlushRoom(r, destroy),
           row \in RowType, failures \in Nat, r.pending \subseteq r.doc,
           r.pending # {} => r.count > 0
    PROVE  /\ room' \in RoomType /\ row' \in RowType
           /\ failures' \in Nat /\ failures' >= failures
           /\ room'.doc = IF destroy THEN {} ELSE r.doc
           /\ row'.state \subseteq row.state \cup r.doc
           /\ WaitingIsCounted'
           /\ \/ r.pending \subseteq row'.state \cup room'.pending
              \/ failures' > failures
           /\ ~destroy => r.pending \subseteq row'.state \cup room'.pending
<1> DEFINE idle == [r EXCEPT !.flushTimer = FALSE]
           clean == [idle EXCEPT !.pending = {}, !.count = 0]
<1>1. /\ idle \in RoomType /\ idle.doc = r.doc /\ idle.pending = r.pending
      /\ idle.count = r.count
  BY DEF RoomType
<1>2. /\ clean \in RoomType /\ clean.doc = r.doc /\ clean.pending = {}
  BY DEF RoomType, Doc
<1>3. NoRoom \in RoomType /\ NoRoom.doc = {} /\ NoRoom.pending = {}
  BY DEF NoRoom, RoomType, Doc
<1>4. CASE r.count = 0 /\ UNCHANGED <<row, failures>> /\ room' = IF destroy THEN NoRoom ELSE idle
  <2>1. r.pending = {}
    BY <1>4
  <2> HIDE DEF idle
  <2> QED BY <1>1, <1>3, <1>4, <2>1 DEF WaitingIsCounted
<1>5. CASE r.count > 0 /\ row' = FlushedRow(r) /\ UNCHANGED failures
           /\ room' = IF destroy THEN NoRoom ELSE clean
  <2>1. /\ row' \in RowType
        /\ row'.state = r.doc \/ row'.state = row.state \cup r.pending
    BY <1>5, CollabAssumption DEF FlushedRow, RowType, RoomType, Doc
  <2>2. r.pending \subseteq row'.state /\ row'.state \subseteq row.state \cup r.doc
    BY <2>1
  <2> HIDE DEF clean
  <2> QED BY <1>2, <1>3, <1>5, <2>1, <2>2 DEF WaitingIsCounted
<1>6. CASE r.count > 0 /\ UNCHANGED row /\ failures' = failures + 1
           /\ room' = IF destroy THEN NoRoom ELSE idle
  <2>1. failures' \in Nat /\ failures' > failures /\ failures' >= failures
    BY <1>6
  <2> HIDE DEF idle, clean
  <2>2. CASE destroy
    BY <1>3, <1>6, <2>1, <2>2 DEF WaitingIsCounted
  <2>3. CASE ~destroy
    BY <1>1, <1>6, <2>1, <2>3 DEF WaitingIsCounted
  <2> QED BY <2>2, <2>3
<1> QED BY <1>4, <1>5, <1>6 DEF FlushRoom

-----------------------------------------------------------------------------
(* Each action keeps TypeInv.                                              *)

TypeParts == CollabTypeOK /\ Wiring /\ Counted /\ WaitingIsCounted /\ Provenance

LEMMA RoomTyped == CollabTypeOK => room \in RoomType /\ row \in RowType
BY DEF CollabTypeOK, RoomType, RowType

\* The bounds are numbers.
LEMMA Bounds == MaxEdits \in Nat /\ MaxConnections \in Nat
BY CollabAssumption

LEMMA TypesInit == Init => TypeParts
<1> SUFFICES ASSUME Init PROVE TypeParts
  OBVIOUS
<1>1. CollabTypeOK
  BY Bounds DEF Init, CollabTypeOK, NoRoom, NoRow, Doc
<1>2. Wiring
  BY DEF Init, Wiring
<1>3. Counted /\ WaitingIsCounted
  <2>1. \A c \in Client : Own(c) = {}
    BY DEF Init, Own
  <2>2. \A c \in Client : /\ IsFiniteSet(Own(c)) /\ Cardinality(Own(c)) = 0
                          /\ \A s \in Own(c) : s.clock <= Cardinality(Own(c))
    BY <2>1, FS_EmptySet
  <2>3. rooms = 0 /\ edits = 0 /\ Len(joined) = 0 /\ WaitingIsCounted
    BY DEF Init, WaitingIsCounted, NoRoom
  <2> QED BY <2>2, <2>3, Bounds DEF Counted
<1>4. Provenance
  BY SentEmpty DEF Init, Provenance, Messages, NoRoom, NoRow, Connection
<1> QED BY <1>1, <1>2, <1>3, <1>4 DEF TypeParts

\* The room of a new peer: it holds what it held, or what is stored, or a seed.
LEMMA JoinedRoomIs ==
    ASSUME TypeInv, Len(joined) < MaxConnections
    PROVE  /\ JoinedRoom \in RoomType
           /\ room.doc \subseteq JoinedRoom.doc
           /\ \A s \in JoinedRoom.doc : s \in room.doc \cup row.state \/ s.author = Server
           /\ JoinedRoom.pending = room.pending
           /\ JoinedRoom.pending # {} => JoinedRoom.count > 0
           /\ room.live => JoinedRoom.doc = room.doc
<1>1. room \in RoomType /\ row \in RowType
  BY RoomTyped DEF TypeInv
<1>2. CASE room.live
  BY <1>1, <1>2 DEF JoinedRoom, RoomType, TypeInv, WaitingIsCounted
<1>3. CASE ~room.live
  <2>1. SeededDoc \in Doc /\ \A s \in SeededDoc : s.author = Server
    BY Bounds DEF SeededDoc, Doc, Struct, TypeInv, CollabTypeOK, Counted
  <2>2. room.doc = {} /\ room.pending = {}
    BY <1>3 DEF TypeInv, RoomInv, GoneIsEmpty
  <2>3. /\ NewRoom \in RoomType /\ NewRoom.pending = {}
        /\ NewRoom.doc = IF row.stored THEN row.state ELSE SeededDoc
    <3>1. (IF row.stored THEN row.state ELSE SeededDoc) \in Doc /\ {} \in Doc
      BY <1>1, <2>1 DEF RowType, Doc
    <3> QED BY <3>1 DEF NewRoom, NoRoom, RoomType
  <2> QED BY <1>3, <2>1, <2>2, <2>3 DEF JoinedRoom
<1> QED BY <1>2, <1>3

LEMMA AcceptTypes ==
    ASSUME TypeInv, NEW c \in Client, NEW access \in Access, Accept(c, access)
    PROVE  TypeParts'
<1> DEFINE k == Len(joined) + 1
           m == Step1(JoinedRoom.doc)
<1>1. /\ socket[c] = 0 /\ Len(joined) < MaxConnections
      /\ joined' = Append(joined, [client |-> c, access |-> access])
      /\ socket' = [socket EXCEPT ![c] = k]
      /\ peers' = peers \cup {k}
      /\ room' = JoinedRoom
      /\ rooms' = IF room.live THEN rooms ELSE rooms + 1
      /\ down' = [down EXCEPT ![k] = <<m>>]
      /\ UNCHANGED <<row, failures, doc, opened, up, needs, edits, stops>>
  BY DEF Accept
<1>2. /\ joined \in Seq([client : Client, access : Access]) /\ Len(joined) \in Nat
      /\ DOMAIN joined = 1 .. Len(joined)
      /\ k \in Connection /\ k \notin DOMAIN joined /\ k # 0
  BY <1>1, Bounds DEF TypeInv, CollabTypeOK, Connection
<1>3. /\ joined' \in Seq([client : Client, access : Access]) /\ Len(joined') = k
      /\ DOMAIN joined' = DOMAIN joined \cup {k}
      /\ joined'[k].client = c
      /\ \A j \in DOMAIN joined : joined'[j] = joined[j]
  BY <1>1, <1>2
<1>4. /\ room' \in RoomType /\ room.doc \subseteq room'.doc
      /\ \A s \in room'.doc : s \in room.doc \cup row.state \/ s.author = Server
      /\ WaitingIsCounted'
  BY <1>1, JoinedRoomIs DEF WaitingIsCounted
<1>5. m \in Message /\ <<m>> \in Seq(Message) /\ Sent(<<m>>) = {m} /\ m.structs \subseteq room'.doc
  <2>1. JoinedRoom.doc \in Doc
    BY <1>1, <1>4 DEF RoomType
  <2>2. m \in Message /\ m.structs \subseteq room'.doc
    BY <1>1, <2>1, MessageTypes, IntegratedSubset
  <2> HIDE DEF m
  <2> QED BY <2>2, SentSingle
<1> HIDE DEF m, k
<1>6. CollabTypeOK'
  <2>1. rooms' \in Nat /\ k <= MaxConnections
    BY <1>1, <1>2 DEF TypeInv, CollabTypeOK, Connection
  <2>2. socket' \in [Client -> {0} \cup DOMAIN joined']
    BY <1>1, <1>3 DEF TypeInv, CollabTypeOK
  <2>3. down' \in [Connection -> Seq(Message)]
    BY <1>1, <1>2, <1>5 DEF TypeInv, CollabTypeOK
  <2> QED BY <1>1, <1>3, <1>4, <2>1, <2>2, <2>3 DEF TypeInv, CollabTypeOK, RoomType
<1>7. Wiring'
  <2>1. socket \in [Client -> {0} \cup DOMAIN joined] /\ down \in [Connection -> Seq(Message)]
    BY DEF TypeInv, CollabTypeOK
  <2>2. \A d \in Client : socket'[d] # 0 => socket'[d] \in peers' /\ joined'[socket'[d]].client = d
    BY <1>1, <1>3, <2>1 DEF TypeInv, Wiring
  <2>3. \A d \in opened' : socket'[d] # 0
    BY <1>1, <1>2, <2>1 DEF TypeInv, Wiring
  <2>4. \A j \in Connection : down'[j] # <<>> => \E d \in Client : socket'[d] = j
    <3> SUFFICES ASSUME NEW j \in Connection, down'[j] # <<>> PROVE \E d \in Client : socket'[d] = j
      OBVIOUS
    <3>1. CASE j = k
      BY <1>1, <2>1, <3>1
    <3>2. CASE j # k
      <4>1. PICK d \in Client : socket[d] = j
        BY <1>1, <2>1, <3>2 DEF TypeInv, Wiring
      <4>2. d # c
        BY <1>1, <4>1, Bounds DEF Connection
      <4> QED BY <1>1, <2>1, <4>1, <4>2
    <3> QED BY <3>1, <3>2
  <2> QED BY <1>1, <1>3, <2>2, <2>3, <2>4 DEF TypeInv, Wiring
<1>8. Counted'
  <2>1. \A d \in Client : Own(d)' = Own(d)
    BY <1>1 DEF Own
  <2>2. rooms' <= Len(joined')
    BY <1>1, <1>2, <1>3 DEF TypeInv, Counted, CollabTypeOK, k
  <2> QED BY <1>1, <2>1, <2>2 DEF TypeInv, Counted
<1>9. Provenance'
  <2>1. \A j \in Connection : \A x \in Sent(down'[j]) : x.structs \subseteq room'.doc
    BY <1>1, <1>4, <1>5 DEF TypeInv, Provenance, Messages, CollabTypeOK
  <2>2. \A j \in DOMAIN joined' : \A x \in Sent(up'[j]) : x.structs \subseteq doc'[joined'[j].client]
    BY <1>1, <1>2, <1>3, SentEmpty DEF TypeInv, Provenance, Messages, Wiring
  <2> QED BY <1>1, <1>4, <2>1, <2>2, CollabAssumption DEF TypeInv, Provenance, Messages, Typed
<1> QED BY <1>4, <1>6, <1>7, <1>8, <1>9 DEF TypeParts

\* One more message to the server; one message less; a prefix of them.
LEMMA UpSend ==
    ASSUME up \in [Connection -> Seq(Message)], NEW k \in Connection, NEW m \in Message,
           up' = [up EXCEPT ![k] = Append(@, m)]
    PROVE  /\ up' \in [Connection -> Seq(Message)]
           /\ Sent(up'[k]) = Sent(up[k]) \cup {m}
           /\ \A j \in Connection \ {k} : up'[j] = up[j]
<1>1. up[k] \in Seq(Message) /\ up'[k] = Append(up[k], m)
  OBVIOUS
<1>2. Append(up[k], m) \in Seq(Message) /\ Sent(Append(up[k], m)) = Sent(up[k]) \cup {m}
  BY <1>1, SentAppend
<1> QED BY <1>1, <1>2

LEMMA UpTake ==
    ASSUME up \in [Connection -> Seq(Message)], NEW k \in Connection, up[k] # <<>>,
           up' = [up EXCEPT ![k] = Tail(@)]
    PROVE  /\ up' \in [Connection -> Seq(Message)] /\ Head(up[k]) \in Message
           /\ Sent(up[k]) = {Head(up[k])} \cup Sent(up'[k])
           /\ \A j \in Connection \ {k} : up'[j] = up[j]
<1>1. up[k] \in Seq(Message) /\ up'[k] = Tail(up[k])
  OBVIOUS
<1>2. /\ Tail(up[k]) \in Seq(Message) /\ Head(up[k]) \in Message
      /\ Sent(up[k]) = {Head(up[k])} \cup Sent(Tail(up[k]))
  BY <1>1, SentHead
<1> QED BY <1>1, <1>2

LEMMA DownTake ==
    ASSUME down \in [Connection -> Seq(Message)], NEW k \in Connection, down[k] # <<>>,
           down' = [down EXCEPT ![k] = Tail(@)]
    PROVE  /\ down' \in [Connection -> Seq(Message)] /\ Head(down[k]) \in Message
           /\ Sent(down[k]) = {Head(down[k])} \cup Sent(down'[k])
           /\ \A j \in Connection \ {k} : down'[j] = down[j]
<1>1. down[k] \in Seq(Message) /\ down'[k] = Tail(down[k])
  OBVIOUS
<1>2. /\ Tail(down[k]) \in Seq(Message) /\ Head(down[k]) \in Message
      /\ Sent(down[k]) = {Head(down[k])} \cup Sent(Tail(down[k]))
  BY <1>1, SentHead
<1> QED BY <1>1, <1>2

\* The socket that a session holds.
LEMMA HeldSocket ==
    ASSUME TypeInv, NEW c \in Client, socket[c] # 0
    PROVE  /\ socket[c] \in Connection /\ socket[c] \in DOMAIN joined
           /\ socket[c] \in peers /\ joined[socket[c]].client = c
BY Bounds DEF TypeInv, CollabTypeOK, Wiring, Connection

\* The session of a connection.
LEMMA Joiner ==
    ASSUME TypeInv, NEW k \in DOMAIN joined
    PROVE  k \in Connection /\ joined[k].client \in Client /\ joined[k].access \in Access
<1> DEFINE R == [client : Client, access : Access]
<1>1. joined \in Seq(R) /\ Len(joined) <= MaxConnections
  BY DEF TypeInv, CollabTypeOK
<1> HIDE DEF R
<1>4. joined[k] \in R /\ k \in 1 .. Len(joined) /\ Len(joined) \in Nat
  BY <1>1
<1>2. joined[k] \in [client : Client, access : Access]
  BY <1>4 DEF R
<1>3. k \in Connection
  BY <1>1, <1>4, Bounds DEF Connection
<1> QED BY <1>2, <1>3

LEMMA OpenTypes ==
    ASSUME TypeInv, NEW c \in Client, Open(c)
    PROVE  TypeParts'
<1> DEFINE k == socket[c]
           m == Step1(doc[c])
<1>1. /\ k # 0 /\ opened' = opened \cup {c}
      /\ up' = [up EXCEPT ![k] = Append(@, m)]
      /\ UNCHANGED <<serverVars, doc, socket, joined, down, needs, edits, stops>>
  BY DEF Open
<1>2. k \in Connection /\ k \in DOMAIN joined /\ joined[k].client = c
  BY <1>1, HeldSocket
<1>3. m \in Message /\ m.structs \subseteq doc[c]
  BY MessageTypes, IntegratedSubset DEF TypeInv, CollabTypeOK
<1> HIDE DEF k, m
<1>4. /\ up' \in [Connection -> Seq(Message)]
      /\ Sent(up'[k]) = Sent(up[k]) \cup {m}
      /\ \A j \in Connection \ {k} : up'[j] = up[j]
  BY <1>1, <1>2, <1>3, UpSend DEF TypeInv, CollabTypeOK
<1>5. CollabTypeOK'
  BY <1>1, <1>4 DEF TypeInv, CollabTypeOK, serverVars
<1>6. Wiring'
  BY <1>1, <1>2, <1>4 DEF TypeInv, Wiring, serverVars, k
<1>7. Counted' /\ WaitingIsCounted'
  BY <1>1 DEF TypeInv, Counted, WaitingIsCounted, serverVars, Own
<1>8. \A j \in DOMAIN joined' : \A x \in Sent(up'[j]) : x.structs \subseteq doc'[joined'[j].client]
  BY <1>1, <1>2, <1>3, <1>4, Joiner DEF TypeInv, Provenance, Messages
<1>9. Provenance'
  BY <1>1, <1>8 DEF TypeInv, Provenance, Messages, Typed, serverVars
<1> QED BY <1>5, <1>6, <1>7, <1>9 DEF TypeParts

LEMMA DropTypes ==
    ASSUME TypeInv, NEW c \in Client, Drop(c)
    PROVE  TypeParts'
<1> DEFINE k == socket[c]
<1>1. /\ k # 0
      /\ socket' = [socket EXCEPT ![c] = 0] /\ opened' = opened \ {c}
      /\ down' = [down EXCEPT ![k] = <<>>]
      /\ UNCHANGED <<serverVars, doc, joined, needs, edits, stops>>
  BY DEF Drop
<1>2. PICK n \in 0 .. Len(up[k]) : up' = [up EXCEPT ![k] = SubSeq(@, 1, n)]
  BY DEF Drop
<1>3. k \in Connection /\ k \in DOMAIN joined /\ joined[k].client = c
  BY <1>1, HeldSocket
<1> HIDE DEF k
<1>4. up \in [Connection -> Seq(Message)] /\ down \in [Connection -> Seq(Message)]
  BY DEF TypeInv, CollabTypeOK
<1>5. SubSeq(up[k], 1, n) \in Seq(Message) /\ Sent(SubSeq(up[k], 1, n)) \subseteq Sent(up[k])
  BY <1>3, <1>4, SentPrefix
<1>6. /\ up' \in [Connection -> Seq(Message)] /\ down' \in [Connection -> Seq(Message)]
      /\ \A j \in Connection : Sent(up'[j]) \subseteq Sent(up[j])
      /\ \A j \in Connection \ {k} : up'[j] = up[j] /\ down'[j] = down[j]
      /\ down'[k] = <<>>
  BY <1>1, <1>2, <1>3, <1>4, <1>5
<1>7. CollabTypeOK'
  BY <1>1, <1>6 DEF TypeInv, CollabTypeOK, serverVars
<1>8. Wiring'
  <2>1. socket \in [Client -> {0} \cup DOMAIN joined]
    BY DEF TypeInv, CollabTypeOK
  <2>2. \A j \in Connection : down'[j] # <<>> => \E d \in Client : socket'[d] = j
    <3> SUFFICES ASSUME NEW j \in Connection, down'[j] # <<>>
                 PROVE  \E d \in Client : socket'[d] = j
      OBVIOUS
    <3>1. j # k /\ down[j] # <<>>
      BY <1>6
    <3>2. PICK d \in Client : socket[d] = j
      BY <3>1 DEF TypeInv, Wiring
    <3> QED BY <1>1, <2>1, <3>1, <3>2 DEF k
  <2>3. \A d \in Client : socket'[d] # 0 => d # c /\ socket'[d] = socket[d]
    BY <1>1, <2>1
  <2>4. \A d \in opened' : socket'[d] # 0
    BY <1>1, <2>1 DEF TypeInv, Wiring, CollabTypeOK
  <2>5. \A j \in Connection : j \notin DOMAIN joined' => up'[j] = <<>>
    BY <1>1, <1>3, <1>6 DEF TypeInv, Wiring
  <2>6. \A d \in Client : socket'[d] # 0 => socket'[d] \in peers' /\ joined'[socket'[d]].client = d
    BY <1>1, <2>3 DEF TypeInv, Wiring, serverVars
  <2> QED BY <2>2, <2>4, <2>5, <2>6 DEF Wiring
<1>9. Counted' /\ WaitingIsCounted'
  BY <1>1 DEF TypeInv, Counted, WaitingIsCounted, serverVars, Own
<1>10. \A j \in DOMAIN joined' : \A x \in Sent(up'[j]) : x.structs \subseteq doc'[joined'[j].client]
  BY <1>1, <1>6, Joiner DEF TypeInv, Provenance, Messages
<1>11. \A j \in Connection : \A x \in Sent(down'[j]) : x.structs \subseteq room'.doc
  BY <1>1, <1>6, SentEmpty DEF TypeInv, Provenance, Messages, serverVars
<1>12. Provenance'
  BY <1>1, <1>10, <1>11 DEF TypeInv, Provenance, Messages, Typed, serverVars
<1> QED BY <1>7, <1>8, <1>9, <1>12 DEF TypeParts

LEMMA DisconnectTypes ==
    ASSUME TypeInv, NEW k \in peers, Disconnect(k)
    PROVE  TypeParts'
<1>1. /\ socket[joined[k].client] # k /\ up[k] = <<>>
      /\ peers' = peers \ {k} /\ room' = LeftRoom(k)
      /\ UNCHANGED <<row, rooms, failures, clientVars, joined, up, down, needs, edits, stops>>
  BY DEF Disconnect
<1>2. room \in RoomType
  BY RoomTyped DEF TypeInv
<1>3. (room.idleTimer \/ (peers = {k})) \in BOOLEAN
  BY <1>2 DEF RoomType
<1>4. /\ room' \in RoomType /\ room'.doc = room.doc /\ room'.pending = room.pending
      /\ room'.count = room.count
  BY <1>1, <1>2, <1>3 DEF LeftRoom, RoomType
<1>5. CollabTypeOK'
  BY <1>1, <1>4 DEF TypeInv, CollabTypeOK, RoomType, clientVars
<1>6. Wiring'
  BY <1>1 DEF TypeInv, Wiring, clientVars
<1>7. Counted' /\ WaitingIsCounted'
  BY <1>1, <1>4 DEF TypeInv, Counted, WaitingIsCounted, clientVars, Own
<1>8. Provenance'
  BY <1>1, <1>4 DEF TypeInv, Provenance, Messages, Typed, clientVars
<1> QED BY <1>5, <1>6, <1>7, <1>8 DEF TypeParts

\* A session types next to what its document has integrated; what its struct needs
\* is that, or was needed before.
LEMMA PlacesAreHeld ==
    ASSUME NEW c, NEW P \in Places(c)
    PROVE  P \subseteq Integrated(doc[c]) /\ P \subseteq doc[c]
BY IntegratedSubset DEF Places

LEMMA BeforeIs ==
    ASSUME NEW S, NEW T, S \subseteq T,
           \A n \in needs : n[1] \in S => n[2] \in T
    PROVE  Before(S) \subseteq T
BY DEF Before

LEMMA EditTypes ==
    ASSUME TypeInv, NEW c \in Client, Edit(c)
    PROVE  TypeParts'
<1>0. PICK n : n = Cardinality(Own(c)) + 1
  OBVIOUS
<1> DEFINE s == [author |-> c, clock |-> n]
           m == Update({s})
           k == socket[c]
<1>1. /\ edits < MaxEdits /\ edits' = edits + 1
      /\ doc' = [doc EXCEPT ![c] = @ \cup {s}]
      /\ up' = IF c \in opened THEN [up EXCEPT ![k] = Append(@, m)] ELSE up
      /\ UNCHANGED <<serverVars, socket, opened, joined, down, stops>>
  BY <1>0 DEF Edit
<1>2. /\ doc \in [Client -> Doc] /\ up \in [Connection -> Seq(Message)] /\ edits \in Nat
      /\ IsFiniteSet(Own(c)) /\ Cardinality(Own(c)) <= edits
      /\ \A x \in Own(c) : x.clock <= Cardinality(Own(c))
  BY DEF TypeInv, CollabTypeOK, Counted
<1>3. /\ Cardinality(Own(c)) \in Nat
      /\ n \in Nat /\ n <= edits + 1 /\ n \in 1 .. MaxEdits + MaxConnections
  BY <1>0, <1>1, <1>2, Bounds, FS_CardinalityType
<1>4. s \in Struct /\ s.author = c /\ s.clock = n
  BY <1>3 DEF Struct
<1>5. m \in Message /\ m.structs = {s}
  BY <1>4, MessageTypes DEF Doc
<1>6. /\ doc' \in [Client -> Doc] /\ doc'[c] = doc[c] \cup {s}
      /\ \A d \in Client \ {c} : doc'[d] = doc[d]
  BY <1>1, <1>2, <1>4 DEF Doc
<1> HIDE DEF m, s, k
<1>7. Own(c)' = Own(c) \cup {s} /\ \A d \in Client \ {c} : Own(d)' = Own(d)
  BY <1>4, <1>6 DEF Own
<1>8. /\ up' \in [Connection -> Seq(Message)]
      /\ \A j \in Connection : up'[j] = up[j] \/ (c \in opened /\ j = k)
      /\ c \in opened => k \in DOMAIN joined /\ joined[k].client = c /\ Sent(up'[k]) = Sent(up[k]) \cup {m}
  <2>1. CASE c \in opened
    <3>1. k \in Connection /\ k \in DOMAIN joined /\ joined[k].client = c
      BY <2>1, HeldSocket DEF TypeInv, Wiring, k
    <3> QED BY <1>1, <1>2, <1>5, <2>1, <3>1, UpSend
  <2>2. CASE c \notin opened
    BY <1>1, <1>2, <2>2
  <2> QED BY <2>1, <2>2
<1>9. CollabTypeOK'
  <2>1. edits' \in Nat
    BY <1>1, <1>2
  <2>2. needs' \subseteq Struct \X Struct
    <3>1. PICK P \in Places(c) : needs' = needs \cup ({s} \X Before(Own(c) \cup P))
      BY <1>0 DEF Edit, s
    <3>2. Own(c) \cup P \subseteq Struct
      BY <1>2, <3>1, PlacesAreHeld DEF Own, Doc
    <3>3. Before(Own(c) \cup P) \subseteq Struct
      BY <3>2, BeforeIs DEF TypeInv, CollabTypeOK
    <3> QED BY <1>4, <3>1, <3>3 DEF TypeInv, CollabTypeOK
  <2> QED BY <1>1, <1>6, <1>8, <2>1, <2>2 DEF TypeInv, CollabTypeOK, serverVars
<1>10. Wiring'
  BY <1>1, <1>8 DEF TypeInv, Wiring, serverVars
<1>11. Counted' /\ WaitingIsCounted'
  <2>1. s \notin Own(c)
    BY <1>0, <1>2, <1>3, <1>4
  <2>2. /\ IsFiniteSet(Own(c) \cup {s})
        /\ Cardinality(Own(c) \cup {s}) = n
    BY <1>0, <1>2, <2>1, FS_AddElement
  <2>3. \A x \in Own(c) \cup {s} : x.clock <= n
    <3>1. \A x \in Own(c) : x.clock \in Nat
      BY <1>2 DEF Own, Doc, Struct
    <3> QED BY <1>0, <1>2, <1>3, <1>4, <3>1
  <2>4. IsFiniteSet(Own(c)') /\ Cardinality(Own(c)') <= edits' /\ \A x \in Own(c)' : x.clock <= Cardinality(Own(c)')
    BY <1>1, <1>3, <1>7, <2>2, <2>3
  <2>5. \A d \in Client \ {c} : Cardinality(Own(d)) <= edits'
    <3>1. \A d \in Client : Cardinality(Own(d)) \in Nat /\ Cardinality(Own(d)) <= edits
      BY FS_CardinalityType DEF TypeInv, Counted
    <3> QED BY <1>1, <1>2, <3>1
  <2>6. rooms' <= Len(joined') /\ edits' <= MaxEdits /\ WaitingIsCounted'
    BY <1>1, <1>2, Bounds DEF TypeInv, Counted, WaitingIsCounted, serverVars
  <2> QED BY <1>7, <2>4, <2>5, <2>6 DEF TypeInv, Counted
<1>12. \A j \in DOMAIN joined' : \A x \in Sent(up'[j]) : x.structs \subseteq doc'[joined'[j].client]
  <2> SUFFICES ASSUME NEW j \in DOMAIN joined, NEW x \in Sent(up'[j])
               PROVE  x.structs \subseteq doc'[joined[j].client]
    BY <1>1
  <2>1. j \in Connection /\ joined[j].client \in Client
    BY Joiner
  <2>2. doc[joined[j].client] \subseteq doc'[joined[j].client]
    BY <1>6, <2>1
  <2>3. CASE x \in Sent(up[j])
    BY <2>2, <2>3 DEF TypeInv, Provenance, Messages
  <2>4. CASE x \notin Sent(up[j])
    BY <1>5, <1>6, <1>8, <2>1, <2>4
  <2> QED BY <2>3, <2>4
<1>13. \A d \in Client : doc[d] \subseteq doc'[d]
  BY <1>6
<1>14. Provenance'
  <2>1. \A x : Typed(x) => Typed(x)'
    BY <1>13 DEF Typed
  <2>2. Typed(s)'
    BY <1>4, <1>6 DEF Typed
  <2>3. \A d \in Client : \A x \in doc'[d] : Typed(x)'
    BY <1>6, <2>1, <2>2 DEF TypeInv, Provenance
  <2>4. \A x \in room'.doc \cup row'.state : Typed(x)'
    BY <1>1, <2>1 DEF TypeInv, Provenance, serverVars
  <2> QED BY <1>1, <1>12, <2>3, <2>4 DEF TypeInv, Provenance, Messages, serverVars
<1> QED BY <1>9, <1>10, <1>11, <1>14 DEF TypeParts

LEMMA ClientReceiveTypes ==
    ASSUME TypeInv, NEW c \in Client, ClientReceive(c)
    PROVE  TypeParts'
<1> DEFINE k == socket[c]
           m == Head(down[k])
           answer == Step2(doc[c] \ m.structs)
<1>1. /\ c \in opened /\ down[k] # <<>> /\ down' = [down EXCEPT ![k] = Tail(@)]
      /\ \/ /\ up' = [up EXCEPT ![k] = Append(@, answer)]
            /\ UNCHANGED doc
         \/ /\ doc' = [doc EXCEPT ![c] = @ \cup m.structs]
            /\ UNCHANGED up
      /\ UNCHANGED <<serverVars, socket, opened, joined, needs, edits, stops>>
  BY DEF ClientReceive
<1>2. k \in Connection /\ k \in DOMAIN joined /\ joined[k].client = c
  BY <1>1, HeldSocket DEF TypeInv, Wiring
<1>3. /\ doc \in [Client -> Doc] /\ up \in [Connection -> Seq(Message)]
      /\ down \in [Connection -> Seq(Message)]
  BY DEF TypeInv, CollabTypeOK
<1>4. answer \in Message /\ answer.structs \subseteq doc[c]
  <2>1. doc[c] \ m.structs \in Doc
    BY <1>3 DEF Doc
  <2> QED BY <2>1, MessageTypes
<1> HIDE DEF k, answer
<1>5. /\ down' \in [Connection -> Seq(Message)] /\ m \in Message
      /\ Sent(down[k]) = {m} \cup Sent(down'[k])
      /\ \A j \in Connection \ {k} : down'[j] = down[j]
  BY <1>1, <1>2, <1>3, DownTake
<1>6. m.structs \subseteq room.doc /\ m.structs \in Doc
  BY <1>2, <1>5 DEF TypeInv, Provenance, Messages, Message
<1> HIDE DEF m
<1>7. /\ up' \in [Connection -> Seq(Message)]
      /\ Sent(up'[k]) \subseteq Sent(up[k]) \cup {answer}
      /\ \A j \in Connection \ {k} : up'[j] = up[j]
  <2>1. CASE up' = [up EXCEPT ![k] = Append(@, answer)]
    BY <1>2, <1>3, <1>4, <2>1, UpSend
  <2>2. CASE UNCHANGED up
    BY <1>3, <2>2
  <2> QED BY <1>1, <2>1, <2>2
<1>8. /\ doc' \in [Client -> Doc] /\ doc[c] \subseteq doc'[c] /\ doc'[c] \subseteq doc[c] \cup m.structs
      /\ \A d \in Client \ {c} : doc'[d] = doc[d]
  BY <1>1, <1>3, <1>6 DEF Doc
<1>9. \A d \in Client : Own(d)' = Own(d)
  BY <1>6, <1>8 DEF Own, TypeInv, Provenance, Typed
<1>10. CollabTypeOK'
  BY <1>1, <1>5, <1>7, <1>8 DEF TypeInv, CollabTypeOK, serverVars
<1>11. Wiring'
  <2>1. \A j \in Connection : j \notin DOMAIN joined' => up'[j] = <<>>
    BY <1>1, <1>2, <1>7 DEF TypeInv, Wiring
  <2>2. \A j \in Connection : down'[j] # <<>> => \E d \in Client : socket'[d] = j
    BY <1>1, <1>5 DEF TypeInv, Wiring, k
  <2> QED BY <1>1, <2>1, <2>2 DEF TypeInv, Wiring, serverVars
<1>12. Counted' /\ WaitingIsCounted'
  BY <1>1, <1>9 DEF TypeInv, Counted, WaitingIsCounted, serverVars
<1>13. Provenance'
  <2>1. \A x : Typed(x) => Typed(x)'
    BY <1>8 DEF Typed
  <2>2. \A j \in DOMAIN joined' : \A x \in Sent(up'[j]) : x.structs \subseteq doc'[joined'[j].client]
    <3> SUFFICES ASSUME NEW j \in DOMAIN joined, NEW x \in Sent(up'[j])
                 PROVE  x.structs \subseteq doc'[joined[j].client]
      BY <1>1
    <3>1. j \in Connection /\ joined[j].client \in Client
      BY Joiner
    <3>2. doc[joined[j].client] \subseteq doc'[joined[j].client]
      BY <1>8, <3>1
    <3> QED BY <1>2, <1>4, <1>7, <3>1, <3>2 DEF TypeInv, Provenance, Messages
  <2>3. \A j \in Connection : \A x \in Sent(down'[j]) : x.structs \subseteq room'.doc
    BY <1>1, <1>2, <1>5 DEF TypeInv, Provenance, Messages, serverVars
  <2>4. \A d \in Client : \A x \in doc'[d] : Typed(x)'
    BY <1>6, <1>8, <2>1 DEF TypeInv, Provenance
  <2> QED BY <1>1, <2>1, <2>2, <2>3, <2>4 DEF TypeInv, Provenance, Messages, serverVars
<1> QED BY <1>10, <1>11, <1>12, <1>13 DEF TypeParts

\* What a peer's structs make integrated.
Fresh(m) == Integrated(room.doc \cup m.structs) \ Integrated(room.doc)

\* The peers that an update of k goes to.
Hears(j, k) == j \in peers \ {k} /\ socket[joined[j].client] = j

\* Merging the structs of a peer: all of them join the document, what becomes
\* integrated waits for the row or is in it, and every other peer is sent it.
LEMMA ApplyEffect ==
    ASSUME TypeInv, NEW k \in peers, NEW m \in Message, ApplyStructs(k, m)
    PROVE  /\ room' \in RoomType /\ row' \in RowType /\ WaitingIsCounted'
           /\ room'.doc = room.doc \cup m.structs
           /\ row'.state \subseteq row.state \cup room'.doc
           /\ room.pending \subseteq row'.state \cup room'.pending
           /\ failures' \in Nat /\ failures' >= failures
           /\ UNCHANGED <<peers, rooms>>
           /\ down' \in [Connection -> Seq(Message)]
           /\ \A j \in Connection : ~Hears(j, k) => down'[j] = down[j]
           /\ \A j \in Connection : Hears(j, k) =>
                 \/ Fresh(m) = {} /\ down'[j] = down[j]
                 \/ Sent(down'[j]) = Sent(down[j]) \cup {Update(Fresh(m))}
<1> DEFINE all == room.doc \cup m.structs
           fresh == Fresh(m)
           next == [room EXCEPT !.doc = all, !.pending = @ \cup fresh, !.count = @ + 1]
<1>1. /\ room \in RoomType /\ row \in RowType /\ failures \in Nat
      /\ down \in [Connection -> Seq(Message)] /\ m.structs \in Doc
  BY RoomTyped DEF TypeInv, CollabTypeOK, Message
<1>2. all \in Doc /\ fresh \in Doc /\ fresh \subseteq all
  BY <1>1, IntegratedSubset DEF RoomType, Doc, Fresh
<1>3. CASE fresh = {}
  <2>1. room' = [room EXCEPT !.doc = all] /\ UNCHANGED <<peers, row, rooms, failures, down>>
    BY <1>3 DEF ApplyStructs, Fresh
  <2>2. room' \in RoomType /\ room'.doc = all /\ room'.pending = room.pending
        /\ room'.count = room.count
    BY <1>1, <1>2, <2>1 DEF RoomType
  <2>3. failures' >= failures
    BY <1>1, <2>1
  <2> QED BY <1>1, <1>3, <2>1, <2>2, <2>3 DEF TypeInv, WaitingIsCounted
<1>4. CASE fresh # {}
  <2>1. /\ down' = [j \in Connection |->
                      IF Hears(j, k) THEN Append(down[j], Update(fresh)) ELSE down[j]]
        /\ \/ FlushRoom(next, FALSE)
           \/ room' = Scheduled(next) /\ UNCHANGED <<row, failures>>
        /\ UNCHANGED <<peers, rooms>>
    BY <1>4 DEF ApplyStructs, Fresh, Hears
  <2>2. /\ next \in RoomType /\ next.doc = all /\ next.pending = room.pending \cup fresh
        /\ next.count > 0
    <3>1. room.count + 1 \in Nat /\ room.count + 1 > 0 /\ room.pending \cup fresh \in Doc
      BY <1>1, <1>2 DEF RoomType, Doc
    <3> HIDE DEF all, fresh
    <3> QED BY <1>1, <1>2, <3>1 DEF RoomType
  <2>3. next.pending \subseteq next.doc
    BY <1>2, <2>2 DEF TypeInv, RoomInv, RoomHoldsRow
  <2> HIDE DEF next, fresh, all
  <2>4. /\ room' \in RoomType /\ row' \in RowType /\ WaitingIsCounted'
        /\ room'.doc = all /\ row'.state \subseteq row.state \cup room'.doc
        /\ next.pending \subseteq row'.state \cup room'.pending
        /\ failures' \in Nat /\ failures' >= failures
    <3>1. CASE FlushRoom(next, FALSE)
      BY <1>1, <2>2, <2>3, <3>1, FlushEffect
    <3>2. CASE room' = Scheduled(next) /\ UNCHANGED <<row, failures>>
      <4>1. /\ room' \in RoomType /\ room'.doc = all /\ room'.pending = next.pending
            /\ room'.count = next.count
        BY <2>2, <3>2 DEF Scheduled, RoomType
      <4>2. failures' >= failures
        BY <1>1, <3>2
      <4> QED BY <1>1, <2>2, <3>2, <4>1, <4>2 DEF WaitingIsCounted
    <3> QED BY <2>1, <3>1, <3>2
  <2>5. Update(fresh) \in Message
    BY <1>2, MessageTypes
  <2>6. \A j \in Connection :
          /\ Append(down[j], Update(fresh)) \in Seq(Message)
          /\ Sent(Append(down[j], Update(fresh))) = Sent(down[j]) \cup {Update(fresh)}
    BY <1>1, <2>5, SentAppend
  <2>7. down' \in [Connection -> Seq(Message)]
    BY <1>1, <2>1, <2>6
  <2>8. \A j \in Connection :
          /\ ~Hears(j, k) => down'[j] = down[j]
          /\ Hears(j, k) => Sent(down'[j]) = Sent(down[j]) \cup {Update(fresh)}
    BY <2>1, <2>6
  <2> QED BY <2>1, <2>2, <2>4, <2>7, <2>8 DEF all, fresh
<1> QED BY <1>3, <1>4

\* The answer to a peer that asks for what it misses.
LEMMA AnswerEffect ==
    ASSUME TypeInv, NEW k \in peers, NEW m, AnswerStep1(k, m)
    PROVE  /\ UNCHANGED serverVars /\ down' \in [Connection -> Seq(Message)]
           /\ \A j \in Connection \ {k} : down'[j] = down[j]
           /\ socket[joined[k].client] # k => down' = down
           /\ socket[joined[k].client] = k =>
                Sent(down'[k]) = Sent(down[k]) \cup {Step2(room.doc \ m.structs), Step1(room.doc)}
<1>1. room \in RoomType /\ down \in [Connection -> Seq(Message)] /\ k \in Connection
  BY RoomTyped, Joiner DEF TypeInv, CollabTypeOK
<1>2. Step2(room.doc \ m.structs) \in Message /\ Step1(room.doc) \in Message
  <2>1. room.doc \in Doc /\ room.doc \ m.structs \in Doc
    BY <1>1 DEF RoomType, Doc
  <2> QED BY <2>1, MessageTypes
<1> DEFINE a == Step2(room.doc \ m.structs)
           b == Step1(room.doc)
           q == down[k] \o <<a, b>>
<1> HIDE DEF a, b
<1>3. q \in Seq(Message) /\ Sent(q) = Sent(down[k]) \cup {a, b}
  <2>1. a \in Message /\ b \in Message /\ down[k] \in Seq(Message)
    BY <1>1, <1>2 DEF a, b
  <2> QED BY <2>1, SentPair
<1>4. UNCHANGED serverVars /\ down' = IF socket[joined[k].client] = k THEN [down EXCEPT ![k] = q] ELSE down
  BY DEF AnswerStep1, a, b
<1> HIDE DEF q
<1> QED BY <1>1, <1>3, <1>4 DEF a, b

\* A message of k is read, whichever way it goes.
LEMMA ReadEffect ==
    ASSUME TypeInv, NEW k \in peers, ServerReceive(k)
    PROVE  /\ k \in Connection /\ k \in DOMAIN joined /\ joined[k].client \in Client
           /\ up' \in [Connection -> Seq(Message)] /\ Head(up[k]) \in Message
           /\ Sent(up[k]) = {Head(up[k])} \cup Sent(up'[k])
           /\ \A j \in Connection \ {k} : up'[j] = up[j]
           /\ Head(up[k]).structs \subseteq doc[joined[k].client]
           /\ UNCHANGED <<clientVars, joined, needs, edits, stops>>
<1>1. up[k] # <<>> /\ up' = [up EXCEPT ![k] = Tail(@)] /\ UNCHANGED <<clientVars, joined, needs, edits, stops>>
  BY DEF ServerReceive
<1>2. k \in DOMAIN joined /\ k \in Connection /\ joined[k].client \in Client
  BY Joiner DEF TypeInv, CollabTypeOK
<1>3. /\ up' \in [Connection -> Seq(Message)] /\ Head(up[k]) \in Message
      /\ Sent(up[k]) = {Head(up[k])} \cup Sent(up'[k])
      /\ \A j \in Connection \ {k} : up'[j] = up[j]
  BY <1>1, <1>2, UpTake DEF TypeInv, CollabTypeOK
<1> QED BY <1>1, <1>2, <1>3 DEF TypeInv, Provenance, Messages

LEMMA ServerReceiveTypes ==
    ASSUME TypeInv, NEW k \in peers, ServerReceive(k)
    PROVE  TypeParts'
<1> DEFINE m == Head(up[k])
           d == joined[k].client
<1>1. /\ k \in Connection /\ k \in DOMAIN joined /\ d \in Client
      /\ up' \in [Connection -> Seq(Message)] /\ m \in Message
      /\ Sent(up[k]) = {m} \cup Sent(up'[k])
      /\ \A j \in Connection \ {k} : up'[j] = up[j]
      /\ m.structs \subseteq doc[d]
      /\ UNCHANGED <<clientVars, joined, needs, edits, stops>>
  BY ReadEffect
<1>2. \/ UNCHANGED <<serverVars, down>>
      \/ AnswerStep1(k, m)
      \/ ApplyStructs(k, m)
  BY DEF ServerReceive
<1> HIDE DEF m
<1>3. room \in RoomType /\ row \in RowType
  BY RoomTyped DEF TypeInv
<1>4. /\ room' \in RoomType /\ row' \in RowType /\ WaitingIsCounted'
      /\ room.doc \subseteq room'.doc /\ room'.doc \subseteq room.doc \cup m.structs
      /\ row'.state \subseteq row.state \cup room'.doc
      /\ failures' \in Nat
      /\ UNCHANGED <<peers, rooms>>
      /\ down' \in [Connection -> Seq(Message)]
      /\ \A j \in Connection : down'[j] # down[j] => socket[joined[j].client] = j
      /\ \A j \in Connection : \A x \in Sent(down'[j]) : x \in Sent(down[j]) \/ x.structs \subseteq room'.doc
  <2>1. CASE UNCHANGED <<serverVars, down>>
    BY <1>3, <2>1 DEF TypeInv, CollabTypeOK, serverVars, WaitingIsCounted
  <2>2. CASE AnswerStep1(k, m)
    <3>1. /\ UNCHANGED serverVars /\ down' \in [Connection -> Seq(Message)]
          /\ \A j \in Connection \ {k} : down'[j] = down[j]
          /\ socket[joined[k].client] # k => down' = down
          /\ socket[joined[k].client] = k =>
                Sent(down'[k]) = Sent(down[k]) \cup {Step2(room.doc \ m.structs), Step1(room.doc)}
      BY <2>2, AnswerEffect
    <3>2. Step2(room.doc \ m.structs).structs \subseteq room.doc /\ Step1(room.doc).structs \subseteq room.doc
      BY IntegratedSubset DEF Step1, Step2
    <3> QED BY <1>3, <3>1, <3>2 DEF TypeInv, CollabTypeOK, serverVars, WaitingIsCounted
  <2>3. CASE ApplyStructs(k, m)
    <3>1. /\ room' \in RoomType /\ row' \in RowType /\ WaitingIsCounted'
          /\ room'.doc = room.doc \cup m.structs
          /\ row'.state \subseteq row.state \cup room'.doc
          /\ failures' \in Nat
          /\ UNCHANGED <<peers, rooms>>
          /\ down' \in [Connection -> Seq(Message)]
          /\ \A j \in Connection : ~Hears(j, k) => down'[j] = down[j]
          /\ \A j \in Connection : Hears(j, k) =>
                \/ Fresh(m) = {} /\ down'[j] = down[j]
                \/ Sent(down'[j]) = Sent(down[j]) \cup {Update(Fresh(m))}
      BY <1>1, <2>3, ApplyEffect
    <3>2. Update(Fresh(m)).structs \subseteq room'.doc
      BY <3>1, IntegratedSubset DEF Update, Fresh
    <3> QED BY <3>1, <3>2 DEF Hears
  <2> QED BY <1>2, <2>1, <2>2, <2>3
<1>5. CollabTypeOK'
  BY <1>1, <1>4 DEF TypeInv, CollabTypeOK, RoomType, RowType, clientVars
<1>6. Wiring'
  <2>1. \A j \in Connection : j \notin DOMAIN joined' => up'[j] = <<>>
    BY <1>1 DEF TypeInv, Wiring
  <2>2. \A j \in Connection : down'[j] # <<>> => \E e \in Client : socket'[e] = j
    <3> SUFFICES ASSUME NEW j \in Connection, down'[j] # <<>> PROVE \E e \in Client : socket[e] = j
      BY <1>1 DEF clientVars
    <3>1. CASE down'[j] = down[j]
      BY <3>1 DEF TypeInv, Wiring
    <3>2. CASE down'[j] # down[j]
      <4>1. Hears(j, k) \/ j = k
        BY <1>2, <1>4, <3>2, <1>1, AnswerEffect, ApplyEffect
      <4>2. j \in DOMAIN joined
        BY <1>1, <4>1 DEF Hears, TypeInv, CollabTypeOK
      <4> QED BY <1>4, <3>2, <4>2, Joiner
    <3> QED BY <3>1, <3>2
  <2> QED BY <1>1, <1>4, <2>1, <2>2 DEF TypeInv, Wiring, clientVars
<1>7. Counted'
  BY <1>1, <1>4 DEF TypeInv, Counted, Own, clientVars
<1>8. Provenance'
  <2>1. \A x : Typed(x)' <=> Typed(x)
    BY <1>1 DEF Typed, clientVars
  <2>2. \A x \in room'.doc \cup row'.state : Typed(x)
    BY <1>1, <1>4 DEF TypeInv, Provenance
  <2>3. \A j \in Connection : \A x \in Sent(down'[j]) : x.structs \subseteq room'.doc
    BY <1>4 DEF TypeInv, Provenance, Messages
  <2>4. \A j \in DOMAIN joined' : \A x \in Sent(up'[j]) : x.structs \subseteq doc'[joined'[j].client]
    BY <1>1, Joiner DEF TypeInv, Provenance, Messages, clientVars
  <2> QED BY <1>1, <2>1, <2>2, <2>3, <2>4 DEF TypeInv, Provenance, Messages, clientVars
<1> QED BY <1>4, <1>5, <1>6, <1>7, <1>8 DEF TypeParts

\* The end of the process.
LEMMA EndTypes ==
    ASSUME TypeInv, room' \in RoomType, row' \in RowType, failures' \in Nat,
           peers' = {}, opened' = {}, socket' = [c \in Client |-> 0],
           up' = [k \in Connection |-> <<>>], down' = [k \in Connection |-> <<>>],
           stops' = stops + 1, UNCHANGED <<rooms, doc, joined, needs, edits>>
    PROVE  CollabTypeOK' /\ Wiring' /\ Counted'
<1>1. CollabTypeOK'
  <2>1. stops' \in Nat /\ rooms' \in Nat /\ edits' \in Nat
    BY DEF TypeInv, CollabTypeOK
  <2>2. socket' \in [Client -> {0} \cup DOMAIN joined']
    OBVIOUS
  <2>3. up' \in [Connection -> Seq(Message)] /\ down' \in [Connection -> Seq(Message)]
    OBVIOUS
  <2> QED BY <2>1, <2>2, <2>3 DEF TypeInv, CollabTypeOK, RoomType, RowType
<1>2. Wiring'
  BY DEF Wiring
<1>3. Counted'
  <2>1. \A c \in Client : Own(c)' = Own(c)
    BY DEF Own
  <2> QED BY <2>1 DEF TypeInv, Counted
<1> QED BY <1>1, <1>2, <1>3

\* The flushes of the timers and of a shutdown.
LEMMA FlushTypes ==
    ASSUME TypeInv, FlushTimer \/ IdleTimer \/ Shutdown
    PROVE  /\ TypeParts'
           /\ room'.doc \in {room.doc, {}}
           /\ row'.state \subseteq row.state \cup room.doc
           /\ \/ room.pending \subseteq row'.state \cup room'.pending
              \/ failures' > failures
<1>1. /\ room \in RoomType /\ row \in RowType /\ failures \in Nat
      /\ room.pending \subseteq room.doc /\ (room.pending # {} => room.count > 0)
  BY RoomTyped DEF TypeInv, CollabTypeOK, RoomInv, RoomHoldsRow, WaitingIsCounted
<1>2. ASSUME NEW destroy \in BOOLEAN, FlushRoom(room, destroy)
      PROVE  /\ room' \in RoomType /\ row' \in RowType /\ WaitingIsCounted'
             /\ room'.doc = IF destroy THEN {} ELSE room.doc
             /\ row'.state \subseteq row.state \cup room.doc
             /\ \/ room.pending \subseteq row'.state \cup room'.pending
                \/ failures' > failures
             /\ failures' \in Nat
  BY <1>1, <1>2, FlushEffect
<1>3. /\ room' \in RoomType /\ row' \in RowType /\ WaitingIsCounted'
      /\ row'.state \subseteq row.state \cup room.doc
      /\ \/ room.pending \subseteq row'.state \cup room'.pending
         \/ failures' > failures
      /\ failures' \in Nat
      /\ room'.doc \in {room.doc, {}}
  BY <1>2 DEF FlushTimer, IdleTimer, Shutdown
<1>4. CASE FlushTimer \/ IdleTimer
  <2>1. UNCHANGED <<peers, rooms, clientVars, joined, up, down, needs, edits, stops>>
    BY <1>4 DEF FlushTimer, IdleTimer
  <2>2. CollabTypeOK' /\ Wiring' /\ Counted'
    BY <1>3, <2>1 DEF TypeInv, CollabTypeOK, RoomType, RowType, Wiring, Counted, Own, clientVars
  <2>3. \A j \in Connection : \A m \in Sent(down'[j]) : m.structs \subseteq room'.doc
    <3>1. CASE FlushTimer
      BY <1>2, <2>1, <3>1 DEF FlushTimer, TypeInv, Provenance, Messages
    <3>2. CASE IdleTimer
      <4>1. \A c \in Client : socket[c] = 0
        BY <3>2 DEF IdleTimer, TypeInv, Wiring
      <4>2. \A j \in Connection : down[j] = <<>>
        BY <4>1, Bounds DEF TypeInv, Wiring, Connection
      <4> QED BY <2>1, <4>2, SentEmpty
    <3> QED BY <1>4, <3>1, <3>2
  <2>4. Provenance'
    BY <1>3, <2>1, <2>3 DEF TypeInv, Provenance, Messages, Typed, clientVars
  <2> QED BY <1>3, <2>2, <2>4 DEF TypeParts
<1>5. CASE Shutdown
  <2>1. /\ peers' = {} /\ opened' = {} /\ socket' = [c \in Client |-> 0]
        /\ up' = [k \in Connection |-> <<>>] /\ down' = [k \in Connection |-> <<>>]
        /\ stops' = stops + 1 /\ UNCHANGED <<rooms, doc, joined, needs, edits>>
    BY <1>5 DEF Shutdown, ProcessEnds
  <2>2. CollabTypeOK' /\ Wiring' /\ Counted'
    BY <1>3, <2>1, EndTypes
  <2>3. Messages'
    BY <2>1, SentEmpty, Joiner DEF Messages
  <2>4. Provenance'
    BY <1>3, <2>1, <2>3 DEF TypeInv, Provenance, Typed
  <2> QED BY <1>3, <2>2, <2>4 DEF TypeParts
<1> QED BY <1>3, <1>4, <1>5

LEMMA CrashTypes ==
    ASSUME TypeInv, Crash
    PROVE  TypeParts'
<1>1. /\ peers' = {} /\ opened' = {} /\ socket' = [c \in Client |-> 0]
      /\ up' = [k \in Connection |-> <<>>] /\ down' = [k \in Connection |-> <<>>]
      /\ stops' = stops + 1 /\ room' = NoRoom
      /\ UNCHANGED <<row, failures, rooms, doc, joined, needs, edits>>
  BY DEF Crash, ProcessEnds
<1>2. NoRoom \in RoomType /\ NoRoom.doc = {} /\ NoRoom.pending = {}
  BY DEF NoRoom, RoomType, Doc
<1>6. row' \in RowType /\ failures' \in Nat
  BY <1>1, RoomTyped DEF TypeInv, CollabTypeOK
<1>3. CollabTypeOK' /\ Wiring' /\ Counted' /\ WaitingIsCounted'
  BY <1>1, <1>2, <1>6, EndTypes DEF WaitingIsCounted
<1>4. Messages'
  BY <1>1, SentEmpty, Joiner DEF Messages
<1>5. Provenance'
  BY <1>1, <1>2, <1>4 DEF TypeInv, Provenance, Typed
<1> QED BY <1>3, <1>5 DEF TypeParts

LEMMA TypesUnchanged == TypeInv /\ UNCHANGED vars => TypeParts'
BY DEF TypeInv, TypeParts, CollabTypeOK, Wiring, Counted, Own, WaitingIsCounted, Provenance,
       Messages, Typed, vars, serverVars, clientVars

LEMMA TypeStep == TypeInv /\ [Next]_vars => TypeInv'
<1> SUFFICES ASSUME TypeInv, [Next]_vars PROVE TypeInv'
  OBVIOUS
<1>1. RoomInv'
  BY RoomStep DEF TypeInv
<1>2. TypeParts'
  BY AcceptTypes, OpenTypes, EditTypes, ClientReceiveTypes, DropTypes, ServerReceiveTypes,
     DisconnectTypes, FlushTypes, CrashTypes, TypesUnchanged DEF Next
<1> QED BY <1>1, <1>2 DEF TypeInv, TypeParts

LEMMA TypeInvHolds == Spec => []TypeInv
<1>1. Init => TypeInv
  BY RoomInit, TypesInit DEF TypeInv, TypeParts
<1> QED BY <1>1, TypeStep, PTL DEF Spec

\* Every reachable state of a room, its tabs and what travels between them is well
\* typed: a clock never leaves its range, a message never its queue.
THEOREM CollabTypeCorrect == Spec => []CollabTypeOK
<1>1. TypeInv => CollabTypeOK
  BY DEF TypeInv
<1> QED BY <1>1, TypeInvHolds, PTL

-----------------------------------------------------------------------------
(* Pending updates.                                                        *)

\* No step drops a pending update that the database did not refuse, but the end of the
\* process: not the arrival of a peer, not compaction, not the end of the room.
THEOREM PendingIsKeptHolds == Spec => PendingIsKept
<1> DEFINE Kept == room.pending \subseteq row'.state \cup room'.pending
<1>1. ASSUME TypeInv, [Next]_vars PROVE Kept \/ failures' > failures \/ Crash
  <2>1. CASE \E c \in Client, access \in Access : Accept(c, access)
    BY <1>1, <2>1, JoinedRoomIs DEF Accept
  <2>2. CASE \E c \in Client : Open(c) \/ Edit(c) \/ ClientReceive(c) \/ Drop(c)
    BY <2>2 DEF Open, Edit, ClientReceive, Drop, serverVars
  <2>3. CASE \E k \in peers : ServerReceive(k)
    <3> PICK k \in peers : ServerReceive(k)
      BY <2>3
    <3>1. CASE UNCHANGED serverVars
      BY <3>1 DEF serverVars
    <3>2. CASE ApplyStructs(k, Head(up[k]))
      BY <1>1, <3>2, ReadEffect, ApplyEffect
    <3> QED BY <3>1, <3>2 DEF ServerReceive, AnswerStep1
  <2>4. CASE \E k \in peers : Disconnect(k)
    BY <1>1, <2>4, RoomTyped DEF Disconnect, LeftRoom, TypeInv, RoomType
  <2>5. CASE FlushTimer \/ IdleTimer \/ Shutdown
    BY <1>1, <2>5, FlushTypes
  <2>6. CASE UNCHANGED vars
    BY <2>6 DEF vars, serverVars
  <2> QED BY <1>1, <2>1, <2>2, <2>3, <2>4, <2>5, <2>6 DEF Next
<1>2. TypeInv /\ [Next]_vars => [Kept \/ failures' > failures \/ Crash]_vars
  BY <1>1
<1> QED BY <1>2, TypeInvHolds, PTL DEF Spec, PendingIsKept

-----------------------------------------------------------------------------
(* Read access.                                                            *)

ReadOnly(c) == \A k \in DOMAIN joined : joined[k].client = c => joined[k].access = "read"

\* What may be anywhere.
Spreads(s) == s.author \in Client => ~ReadOnly(s.author)

ReadOnlyInv ==
    /\ \A s \in room.doc \cup row.state : Spreads(s)
    /\ \A c \in Client : \A s \in doc[c] : s.author = c \/ Spreads(s)

LEMMA ReadOnlyStep == TypeInv /\ ReadOnlyInv /\ [Next]_vars => ReadOnlyInv'
<1> SUFFICES ASSUME TypeInv, ReadOnlyInv, [Next]_vars PROVE ReadOnlyInv'
  OBVIOUS
<1>1. CASE \E c \in Client, access \in Access : Accept(c, access)
  <2> PICK c \in Client, access \in Access : Accept(c, access)
    BY <1>1
  <2>1. /\ Len(joined) < MaxConnections /\ room' = JoinedRoom /\ UNCHANGED <<row, doc>>
        /\ joined' = Append(joined, [client |-> c, access |-> access])
    BY DEF Accept
  <2>2. \A k \in DOMAIN joined : k \in DOMAIN joined' /\ joined'[k] = joined[k]
    BY <2>1 DEF TypeInv, CollabTypeOK
  <2>3. \A s : Spreads(s) => Spreads(s)'
    BY <2>2 DEF Spreads, ReadOnly
  <2>4. \A s \in room'.doc : s \in room.doc \cup row.state \/ s.author = Server
    BY <2>1, JoinedRoomIs
  <2>5. \A s : s.author = Server => Spreads(s)'
    BY CollabAssumption DEF Spreads
  <2> QED BY <2>1, <2>3, <2>4, <2>5 DEF ReadOnlyInv
<1>2. CASE ~(\E c \in Client, access \in Access : Accept(c, access))
  <2>0. UNCHANGED joined
    BY <1>2 DEF Next, Open, Drop, Edit, ClientReceive, ServerReceive, Disconnect, FlushTimer,
                IdleTimer, Shutdown, Crash, ProcessEnds, vars
  <2>1. \A s : Spreads(s)' <=> Spreads(s)
    BY <2>0 DEF Spreads, ReadOnly
  <2>2. SUFFICES /\ \A s \in room'.doc \cup row'.state : Spreads(s)
                 /\ \A c \in Client : \A s \in doc'[c] : s.author = c \/ Spreads(s)
    BY <2>1 DEF ReadOnlyInv
  <2>3. CASE \E c \in Client : Open(c) \/ Drop(c)
    BY <2>3 DEF Open, Drop, serverVars, ReadOnlyInv
  <2>4. CASE \E c \in Client : Edit(c)
    <3> PICK c \in Client : Edit(c)
      BY <2>4
    <3>1. PICK n : doc' = [doc EXCEPT ![c] = @ \cup {[author |-> c, clock |-> n]}]
      BY DEF Edit
    <3>2. doc \in [Client -> Doc] /\ UNCHANGED serverVars
      BY DEF Edit, TypeInv, CollabTypeOK
    <3> QED BY <3>1, <3>2 DEF ReadOnlyInv, serverVars
  <2>5. CASE \E c \in Client : ClientReceive(c)
    <3> PICK c \in Client : ClientReceive(c)
      BY <2>5
    <3>1. /\ UNCHANGED serverVars /\ doc \in [Client -> Doc]
          /\ \/ UNCHANGED doc
             \/ doc' = [doc EXCEPT ![c] = @ \cup Head(down[socket[c]]).structs]
      BY DEF ClientReceive, TypeInv, CollabTypeOK
    <3>2. socket[c] \in Connection /\ down[socket[c]] # <<>>
      BY HeldSocket DEF ClientReceive, TypeInv, Wiring
    <3>3. Head(down[socket[c]]) \in Sent(down[socket[c]])
      BY <3>2, SentHead DEF TypeInv, CollabTypeOK
    <3>4. Head(down[socket[c]]).structs \subseteq room.doc
      BY <3>2, <3>3 DEF TypeInv, Provenance, Messages
    <3> QED BY <3>1, <3>4 DEF ReadOnlyInv, serverVars
  <2>6. CASE \E k \in peers : ServerReceive(k)
    <3> PICK k \in peers : ServerReceive(k)
      BY <2>6
    <3> DEFINE m == Head(up[k])
               d == joined[k].client
    <3>1. /\ k \in DOMAIN joined /\ d \in Client /\ m \in Message /\ m.structs \subseteq doc[d]
          /\ UNCHANGED doc
      BY ReadEffect DEF clientVars
    <3>2. CASE UNCHANGED serverVars
      BY <3>1, <3>2 DEF ReadOnlyInv, serverVars
    <3>3. CASE m.type # "step1" /\ ~Refused(k, m) /\ ApplyStructs(k, m)
      <4>1. ~ReadOnly(d)
        BY <3>1, <3>3 DEF Refused, ReadOnly, Message
      <4>2. \A s \in m.structs : Spreads(s)
        BY <3>1, <4>1 DEF ReadOnlyInv, Spreads
      <4>3. room'.doc = room.doc \cup m.structs /\ row'.state \subseteq row.state \cup room'.doc
        BY <3>1, <3>3, ApplyEffect
      <4> QED BY <3>1, <4>2, <4>3 DEF ReadOnlyInv
    <3> QED BY <3>2, <3>3 DEF ServerReceive, AnswerStep1
  <2>7. CASE \E k \in peers : Disconnect(k)
    BY <2>7, RoomTyped DEF Disconnect, LeftRoom, TypeInv, RoomType, ReadOnlyInv, clientVars
  <2>8. CASE FlushTimer \/ IdleTimer \/ Shutdown
    <3>1. UNCHANGED doc
      BY <2>8 DEF FlushTimer, IdleTimer, Shutdown, ProcessEnds, clientVars
    <3> QED BY <2>8, <3>1, FlushTypes DEF ReadOnlyInv
  <2>9. CASE Crash
    BY <2>9 DEF Crash, ProcessEnds, NoRoom, ReadOnlyInv
  <2>10. CASE UNCHANGED vars
    BY <2>10 DEF vars, serverVars, clientVars, ReadOnlyInv
  <2> QED BY <1>2, <2>3, <2>4, <2>5, <2>6, <2>7, <2>8, <2>9, <2>10 DEF Next
<1> QED BY <1>1, <1>2

\* What a session typed that only joined with read access stays in its own document.
THEOREM ReadOnlyReachesNobodyHolds == Spec => []ReadOnlyReachesNobody
<1>1. Init => ReadOnlyInv
  BY DEF Init, ReadOnlyInv, NoRoom, NoRow
<1>2. TypeInv /\ ReadOnlyInv => ReadOnlyReachesNobody
  BY DEF TypeInv, Provenance, ReadOnlyInv, Spreads, ReadOnly, ReadOnlyReachesNobody
<1> QED BY <1>1, <1>2, ReadOnlyStep, TypeInvHolds, PTL DEF Spec

-----------------------------------------------------------------------------
(* Agreement of a tab at rest with the room.                               *)

\* A queue asks for what the other side misses; a queue brings s.
Asks(q) == \E m \in Sent(q) : m.type = "step1"
Carries(q, s) == \E m \in Sent(q) : m.type # "step1" /\ s \in m.structs

\* What a tab that may edit holds is in the room or on its way, or will be asked for.
Pushed ==
    \A c \in Client : socket[c] # 0 /\ joined[socket[c]].access = "edit" =>
        \/ Asks(down[socket[c]])
        \/ c \in opened /\ \A s \in doc[c] : s \in room.doc \/ Carries(up[socket[c]], s)

NothingLost == stops = 0 /\ failures = 0

\* What the server holds; nothing but one insertion of the body is among it.
Stock == room.doc \cup row.state
Whole == NothingLost /\ OneBody(Stock)

\* What the room has integrated is in the tab or on its way, or asked for.
Pulled ==
    Whole => \A c \in opened :
        \/ Asks(up[socket[c]])
        \/ \A s \in Integrated(room.doc) : s \in doc[c] \/ Carries(down[socket[c]], s)

Needs(s, p) == <<s, p>> \in needs

\* Its author has what a struct needs, and what is needed in its turn is needed.
NeedsInv ==
    /\ \A s, p : Needs(s, p) => s.author \in Client /\ s \in doc[s.author] /\ p \in doc[s.author]
    /\ \A s, p, q : Needs(s, p) /\ Needs(p, q) => Needs(s, q)

IsSeed(s) == s.author = Server

\* A seed is from a room that there was; the body is in every room and row; a seed
\* that a tab brings is stored before it can be lost.
SeedsInv ==
    /\ \A s \in Stock : IsSeed(s) => s.clock <= rooms
    /\ \A c \in Client : \A s \in doc[c] : IsSeed(s) => s.clock <= rooms
    /\ room.live => \E s \in room.doc : IsSeed(s)
    /\ row.stored => \E s \in row.state : IsSeed(s)
    /\ ~row.stored /\ room.pending = {} => OneBody(room.doc)

\* What the server has not, and only its author can bring, or what is a lost seed.
Missing(p) ==
    p \notin Stock /\ (IsSeed(p) \/ \A e \in Client \ {p.author} : p \notin doc[e])

\* A struct of another tab that the server has not needs a missing one.
HasGap ==
    Whole => \A c \in Client : \A s \in doc[c] :
        s.author \in Client \ {c} /\ s \notin Stock => \E p : Needs(s, p) /\ Missing(p)

\* What is still on its way from an author was overtaken by nothing that needs it: a
\* struct of the author that another tab holds is in the room or in the same message.
InOrder ==
    \A k \in peers : \A m \in Sent(up[k]) : m.type # "step1" =>
        \A r \in m.structs : r.author = joined[k].client =>
            \A c \in Client \ {r.author} : \A s \in doc[c] :
                s.author = r.author /\ Needs(s, r) => s \in room.doc \cup m.structs

-----------------------------------------------------------------------------
\* Two sessions hold two sockets.
LEMMA Sockets ==
    ASSUME TypeInv, NEW c \in Client, NEW d \in Client, socket[c] # 0, socket[c] = socket[d]
    PROVE  c = d
BY DEF TypeInv, Wiring

LEMMA IntegratedGrows ==
    ASSUME NEW S, NEW T, S \subseteq T
    PROVE  Integrated(S) \subseteq Integrated(T)
BY DEF Integrated

\* A struct is integrated in S when S holds it and what it needs.
LEMMA IntegratedIs ==
    ASSUME TypeInv, NEW S, NEW s
    PROVE  s \in Integrated(S) <=> s \in S /\ \A p : Needs(s, p) => p \in S
<1>1. \A n \in needs : n = <<n[1], n[2]>>
  BY DEF TypeInv, CollabTypeOK
<1> QED BY <1>1 DEF Integrated, Needs

\* What is integrated in S is integrated wherever all of that is.
LEMMA IntegratedClosed ==
    ASSUME TypeInv, NeedsInv, NEW S, NEW T, Integrated(S) \subseteq T
    PROVE  Integrated(S) \subseteq Integrated(T)
<1> SUFFICES ASSUME NEW s \in Integrated(S), NEW p, Needs(s, p)
             PROVE  p \in T
  BY IntegratedIs
<1>1. \A q : Needs(s, q) => q \in S
  BY IntegratedIs
<1>2. p \in Integrated(S)
  BY <1>1, IntegratedIs DEF NeedsInv
<1> QED BY <1>2

\* A seed needs nothing.
LEMMA SeedsIntegrated ==
    ASSUME TypeInv, NeedsInv, NEW S, NEW s \in S, IsSeed(s)
    PROVE  s \in Integrated(S)
BY IntegratedIs, CollabAssumption DEF NeedsInv, IsSeed

LEMMA AcceptEffect ==
    ASSUME TypeInv, NEW c \in Client, NEW access \in Access, Accept(c, access)
    PROVE  LET k == Len(joined) + 1 IN
           /\ k \in Connection /\ k \notin DOMAIN joined /\ up[k] = <<>> /\ k # 0
           /\ \A j \in DOMAIN joined : joined'[j] = joined[j]
           /\ socket[c] = 0 /\ socket'[c] = k
           /\ \A d \in Client \ {c} : socket'[d] = socket[d]
           /\ peers' = peers \cup {k}
           /\ room.doc \subseteq room'.doc
           /\ \A s \in room'.doc : s \in room.doc \cup row.state \/ s.author = Server
           /\ room.live => room'.doc = room.doc
           /\ Asks(down'[k]) /\ \A j \in Connection \ {k} : down'[j] = down[j]
           /\ UNCHANGED <<row, failures, doc, opened, up, needs, edits, stops>>
<1> DEFINE k == Len(joined) + 1
           m == Step1(JoinedRoom.doc)
<1>1. /\ socket[c] = 0 /\ Len(joined) < MaxConnections
      /\ joined' = Append(joined, [client |-> c, access |-> access])
      /\ socket' = [socket EXCEPT ![c] = k]
      /\ peers' = peers \cup {k} /\ room' = JoinedRoom
      /\ down' = [down EXCEPT ![k] = <<m>>]
      /\ UNCHANGED <<row, failures, doc, opened, up, needs, edits, stops>>
  BY DEF Accept
<1>2. /\ joined \in Seq([client : Client, access : Access])
      /\ socket \in [Client -> {0} \cup DOMAIN joined] /\ down \in [Connection -> Seq(Message)]
  BY DEF TypeInv, CollabTypeOK
<1>3. /\ k \in Connection /\ k \notin DOMAIN joined /\ k # 0
      /\ \A j \in DOMAIN joined : joined'[j] = joined[j]
  BY <1>1, <1>2, Bounds DEF Connection
<1>4. m.type = "step1" /\ Sent(<<m>>) = {m}
  BY SentSingle DEF Step1
<1> HIDE DEF m, k
<1>5. Asks(down'[k]) /\ \A j \in Connection \ {k} : down'[j] = down[j]
  BY <1>1, <1>2, <1>3, <1>4 DEF Asks
<1>6. up[k] = <<>>
  BY <1>3 DEF TypeInv, Wiring
<1> QED BY <1>1, <1>2, <1>3, <1>5, <1>6, JoinedRoomIs DEF k

LEMMA OpenEffect ==
    ASSUME TypeInv, NEW c \in Client, Open(c)
    PROVE  LET k == socket[c] IN
           /\ k \in Connection /\ k \in DOMAIN joined /\ joined[k].client = c
           /\ k # 0 /\ c \notin opened /\ opened' = opened \cup {c}
           /\ Sent(up'[k]) = Sent(up[k]) \cup {Step1(doc[c])}
           /\ \A j \in Connection \ {k} : up'[j] = up[j]
           /\ UNCHANGED <<serverVars, doc, socket, joined, down, needs, edits, stops>>
<1> DEFINE k == socket[c]
           m == Step1(doc[c])
<1>1. /\ k # 0 /\ c \notin opened /\ opened' = opened \cup {c}
      /\ up' = [up EXCEPT ![k] = Append(@, m)]
      /\ UNCHANGED <<serverVars, doc, socket, joined, down, needs, edits, stops>>
  BY DEF Open
<1>2. k \in Connection /\ k \in DOMAIN joined /\ joined[k].client = c
  BY <1>1, HeldSocket
<1>3. m \in Message
  BY MessageTypes DEF TypeInv, CollabTypeOK
<1> HIDE DEF m, k
<1>4. Sent(up'[k]) = Sent(up[k]) \cup {m} /\ \A j \in Connection \ {k} : up'[j] = up[j]
  BY <1>1, <1>2, <1>3, UpSend DEF TypeInv, CollabTypeOK
<1> QED BY <1>1, <1>2, <1>4 DEF m, k

LEMMA DropEffect ==
    ASSUME TypeInv, NEW c \in Client, Drop(c)
    PROVE  LET k == socket[c] IN
           /\ k \in Connection /\ k # 0 /\ joined[k].client = c
           /\ socket'[c] = 0 /\ \A d \in Client \ {c} : socket'[d] = socket[d]
           /\ opened' = opened \ {c}
           /\ \A j \in Connection : Sent(up'[j]) \subseteq Sent(up[j])
           /\ \A j \in Connection \ {k} : up'[j] = up[j] /\ down'[j] = down[j]
           /\ UNCHANGED <<serverVars, doc, joined, needs, edits, stops>>
<1> DEFINE k == socket[c]
<1>1. /\ k # 0
      /\ socket' = [socket EXCEPT ![c] = 0] /\ opened' = opened \ {c}
      /\ down' = [down EXCEPT ![k] = <<>>]
      /\ UNCHANGED <<serverVars, doc, joined, needs, edits, stops>>
  BY DEF Drop
<1>2. PICK n \in 0 .. Len(up[k]) : up' = [up EXCEPT ![k] = SubSeq(@, 1, n)]
  BY DEF Drop
<1>3. k \in Connection /\ k \in DOMAIN joined /\ joined[k].client = c
  BY <1>1, HeldSocket
<1> HIDE DEF k
<1>4. /\ up \in [Connection -> Seq(Message)] /\ down \in [Connection -> Seq(Message)]
      /\ socket \in [Client -> {0} \cup DOMAIN joined]
  BY DEF TypeInv, CollabTypeOK
<1>5. Sent(SubSeq(up[k], 1, n)) \subseteq Sent(up[k])
  BY <1>3, <1>4, SentPrefix
<1> QED BY <1>1, <1>2, <1>3, <1>4, <1>5 DEF k

LEMMA EditEffect ==
    ASSUME TypeInv, NEW c \in Client, Edit(c)
    PROVE  \E s :
           /\ s.author = c /\ s \notin doc[c]
           /\ \E P \in Places(c) : needs' = needs \cup ({s} \X Before(Own(c) \cup P))
           /\ doc'[c] = doc[c] \cup {s} /\ \A d \in Client \ {c} : doc'[d] = doc[d]
           /\ c \in opened => Sent(up'[socket[c]]) = Sent(up[socket[c]]) \cup {Update({s})}
           /\ \A j \in Connection : (c \in opened /\ j = socket[c]) \/ up'[j] = up[j]
           /\ UNCHANGED <<serverVars, socket, opened, joined, down, stops>>
<1>0. PICK n : n = Cardinality(Own(c)) + 1
  OBVIOUS
<1> DEFINE s == [author |-> c, clock |-> n]
           m == Update({s})
           k == socket[c]
<1>1. /\ edits < MaxEdits
      /\ doc' = [doc EXCEPT ![c] = @ \cup {s}]
      /\ up' = IF c \in opened THEN [up EXCEPT ![k] = Append(@, m)] ELSE up
      /\ \E P \in Places(c) : needs' = needs \cup ({s} \X Before(Own(c) \cup P))
      /\ UNCHANGED <<serverVars, socket, opened, joined, down, stops>>
  BY <1>0 DEF Edit
<1>2. /\ doc \in [Client -> Doc] /\ up \in [Connection -> Seq(Message)] /\ edits \in Nat
      /\ IsFiniteSet(Own(c)) /\ Cardinality(Own(c)) <= edits
      /\ \A x \in Own(c) : x.clock <= Cardinality(Own(c))
  BY DEF TypeInv, CollabTypeOK, Counted
<1>3. /\ Cardinality(Own(c)) \in Nat
      /\ n \in Nat /\ n \in 1 .. MaxEdits + MaxConnections
  BY <1>0, <1>1, <1>2, Bounds, FS_CardinalityType
<1>4. s \in Struct /\ s.author = c /\ s.clock = n
  BY <1>3 DEF Struct
<1>5. m \in Message
  BY <1>4, MessageTypes DEF Doc
<1>6. s \notin doc[c]
  <2>1. s \in doc[c] => s.clock <= Cardinality(Own(c))
    BY <1>2, <1>4 DEF Own
  <2> QED BY <1>0, <1>3, <1>4, <2>1
<1>7. doc'[c] = doc[c] \cup {s} /\ \A d \in Client \ {c} : doc'[d] = doc[d]
  BY <1>1, <1>2
<1> HIDE DEF m, k, s
<1>8. /\ c \in opened => Sent(up'[k]) = Sent(up[k]) \cup {m}
      /\ \A j \in Connection : (c \in opened /\ j = k) \/ up'[j] = up[j]
  <2>1. CASE c \in opened
    <3>1. k \in Connection
      BY <2>1, HeldSocket DEF TypeInv, Wiring, k
    <3> QED BY <1>1, <1>2, <1>5, <2>1, <3>1, UpSend
  <2>2. CASE c \notin opened
    BY <1>1, <1>2, <2>2
  <2> QED BY <2>1, <2>2
<1> WITNESS s
<1> QED BY <1>1, <1>4, <1>6, <1>7, <1>8 DEF m, k

LEMMA ClientReceiveEffect ==
    ASSUME TypeInv, NEW c \in Client, ClientReceive(c)
    PROVE  LET k == socket[c]
               m == Head(down[k])
           IN
           /\ c \in opened /\ k \in Connection /\ k # 0 /\ joined[k].client = c
           /\ m.structs \subseteq room.doc
           /\ Sent(down[k]) = {m} \cup Sent(down'[k])
           /\ \A j \in Connection \ {k} : down'[j] = down[j] /\ up'[j] = up[j]
           /\ \A d \in Client \ {c} : doc'[d] = doc[d]
           /\ IF m.type = "step1"
              THEN /\ Sent(up'[k]) = Sent(up[k]) \cup {Step2(doc[c] \ m.structs)}
                   /\ doc'[c] = doc[c]
              ELSE doc'[c] = doc[c] \cup m.structs /\ up'[k] = up[k]
           /\ UNCHANGED <<serverVars, socket, opened, joined, needs, edits, stops>>
<1> DEFINE k == socket[c]
           m == Head(down[k])
           answer == Step2(doc[c] \ m.structs)
<1>1. /\ c \in opened /\ down[k] # <<>> /\ down' = [down EXCEPT ![k] = Tail(@)]
      /\ IF m.type = "step1"
         THEN /\ up' = [up EXCEPT ![k] = Append(@, answer)]
              /\ UNCHANGED doc
         ELSE /\ doc' = [doc EXCEPT ![c] = @ \cup m.structs]
              /\ UNCHANGED up
      /\ UNCHANGED <<serverVars, socket, opened, joined, needs, edits, stops>>
  BY DEF ClientReceive
<1>2. k \in Connection /\ k # 0 /\ joined[k].client = c
  BY <1>1, HeldSocket DEF TypeInv, Wiring
<1>3. /\ doc \in [Client -> Doc] /\ up \in [Connection -> Seq(Message)]
      /\ down \in [Connection -> Seq(Message)]
  BY DEF TypeInv, CollabTypeOK
<1>4. answer \in Message
  <2>1. doc[c] \ m.structs \in Doc
    BY <1>3 DEF Doc
  <2> QED BY <2>1, MessageTypes
<1> HIDE DEF k, answer
<1>5. /\ Sent(down[k]) = {m} \cup Sent(down'[k])
      /\ \A j \in Connection \ {k} : down'[j] = down[j]
  BY <1>1, <1>2, <1>3, DownTake
<1>6. m.structs \subseteq room.doc
  BY <1>2, <1>5 DEF TypeInv, Provenance, Messages
<1> HIDE DEF m
<1>7. CASE m.type = "step1"
  <2>1. Sent(up'[k]) = Sent(up[k]) \cup {answer} /\ \A j \in Connection \ {k} : up'[j] = up[j]
    BY <1>1, <1>2, <1>3, <1>4, <1>7, UpSend
  <2> QED BY <1>1, <1>2, <1>5, <1>6, <1>7, <2>1 DEF k, m, answer
<1>8. CASE m.type # "step1"
  BY <1>1, <1>2, <1>3, <1>5, <1>6, <1>8 DEF k, m
<1> QED BY <1>7, <1>8

LEMMA EndsEffect ==
    ASSUME TypeInv, Crash \/ Shutdown
    PROVE  /\ peers' = {} /\ opened' = {} /\ \A c \in Client : socket'[c] = 0
           /\ stops' # 0
<1>1. /\ peers' = {} /\ opened' = {} /\ socket' = [c \in Client |-> 0]
      /\ stops' = stops + 1
  BY DEF Crash, Shutdown, ProcessEnds
<1>2. stops \in Nat
  BY DEF TypeInv, CollabTypeOK
<1> QED BY <1>1, <1>2

\* An idle room has no tab.
LEMMA IdleEffect ==
    ASSUME TypeInv, IdleTimer
    PROVE  /\ peers = {} /\ opened = {} /\ \A c \in Client : socket[c] = 0
           /\ UNCHANGED <<peers, clientVars, up, down, joined, needs, stops>>
BY DEF IdleTimer, TypeInv, CollabTypeOK, Wiring

LEMMA FlushTimerEffect ==
    ASSUME TypeInv, FlushTimer
    PROVE  /\ room'.doc = room.doc /\ row'.state \subseteq row.state \cup room.doc
           /\ row.state \subseteq row'.state /\ failures' >= failures
           /\ UNCHANGED <<peers, clientVars, up, down, joined, needs, stops>>
<1>1. FlushRoom(room, FALSE) /\ UNCHANGED <<peers, clientVars, up, down, joined, needs, stops>>
  BY DEF FlushTimer
<1>2. /\ room \in RoomType /\ row \in RowType /\ failures \in Nat
      /\ room.pending \subseteq room.doc /\ (room.pending # {} => room.count > 0)
  BY RoomTyped DEF TypeInv, CollabTypeOK, RoomInv, RoomHoldsRow, WaitingIsCounted
<1>3. row.state \subseteq row'.state
  BY FlushStep DEF TypeInv
<1> QED BY <1>1, <1>2, <1>3, FlushEffect

LEMMA DisconnectEffect ==
    ASSUME TypeInv, NEW k \in peers, Disconnect(k)
    PROVE  /\ room'.doc = room.doc /\ peers' \subseteq peers
           /\ UNCHANGED <<row, failures, clientVars, joined, up, down, needs, stops>>
BY RoomTyped DEF Disconnect, LeftRoom, TypeInv, RoomType

\* The server reads a message: it turns it away, or answers it, or merges it.
LEMMA ServerReceiveEffect ==
    ASSUME TypeInv, NEW k \in peers, ServerReceive(k)
    PROVE  LET m == Head(up[k])
               c == joined[k].client
           IN
           /\ k \in Connection /\ k \in DOMAIN joined /\ c \in Client
           /\ Sent(up[k]) = {m} \cup Sent(up'[k])
           /\ \A j \in Connection \ {k} : up'[j] = up[j]
           /\ m.structs \subseteq doc[c]
           /\ room.doc \subseteq room'.doc /\ room'.doc \subseteq room.doc \cup m.structs
           /\ row.state \subseteq row'.state /\ row'.state \subseteq row.state \cup room'.doc
           /\ failures' >= failures
           /\ \A j \in Connection : Sent(down[j]) \subseteq Sent(down'[j])
           /\ \/ m.type # "step1" /\ joined[k].access = "read" /\ UNCHANGED <<room, down>>
              \/ /\ m.type = "step1" /\ UNCHANGED room
                 /\ socket[c] = k => Step2(room.doc \ m.structs) \in Sent(down'[k])
              \/ /\ m.type # "step1" /\ room'.doc = room.doc \cup m.structs
                 /\ \A j \in Connection : Hears(j, k) =>
                       Fresh(m) = {} \/ Update(Fresh(m)) \in Sent(down'[j])
           /\ UNCHANGED <<peers, clientVars, joined, needs, stops>>
<1> DEFINE m == Head(up[k])
           c == joined[k].client
<1>1. /\ k \in Connection /\ k \in DOMAIN joined /\ c \in Client /\ m \in Message
      /\ Sent(up[k]) = {m} \cup Sent(up'[k])
      /\ \A j \in Connection \ {k} : up'[j] = up[j]
      /\ m.structs \subseteq doc[c]
      /\ UNCHANGED <<clientVars, joined, needs, stops>>
  BY ReadEffect
<1>2. row.state \subseteq row'.state
  BY RoomStep DEF TypeInv, Next
<1>3. failures \in Nat
  BY DEF TypeInv, CollabTypeOK
<1>4. \/ m.type # "step1" /\ joined[k].access = "read" /\ UNCHANGED <<serverVars, down>>
      \/ m.type = "step1" /\ AnswerStep1(k, m)
      \/ m.type # "step1" /\ ApplyStructs(k, m)
  BY DEF ServerReceive, Refused
<1> HIDE DEF m
<1>5. CASE m.type # "step1" /\ joined[k].access = "read" /\ UNCHANGED <<serverVars, down>>
  BY <1>1, <1>2, <1>3, <1>5 DEF serverVars, m
<1>6. CASE m.type = "step1" /\ AnswerStep1(k, m)
  <2>1. /\ UNCHANGED serverVars
        /\ \A j \in Connection \ {k} : down'[j] = down[j]
        /\ socket[c] # k => down' = down
        /\ socket[c] = k =>
             Sent(down'[k]) = Sent(down[k]) \cup {Step2(room.doc \ m.structs), Step1(room.doc)}
    BY <1>6, AnswerEffect
  <2>2. \A j \in Connection : Sent(down[j]) \subseteq Sent(down'[j])
    <3>1. Sent(down[k]) \subseteq Sent(down'[k])
      BY <2>1
    <3> QED BY <2>1, <3>1
  <2>3. failures' >= failures /\ UNCHANGED <<room, row, peers>>
    BY <1>3, <2>1 DEF serverVars
  <2> QED BY <1>1, <1>6, <2>1, <2>2, <2>3 DEF m
<1>7. CASE m.type # "step1" /\ ApplyStructs(k, m)
  <2>1. /\ room'.doc = room.doc \cup m.structs
        /\ row'.state \subseteq row.state \cup room'.doc
        /\ failures' >= failures /\ UNCHANGED peers
        /\ \A j \in Connection : ~Hears(j, k) => down'[j] = down[j]
        /\ \A j \in Connection : Hears(j, k) =>
              \/ Fresh(m) = {} /\ down'[j] = down[j]
              \/ Sent(down'[j]) = Sent(down[j]) \cup {Update(Fresh(m))}
    BY <1>1, <1>7, ApplyEffect
  <2>2. \A j \in Connection : Sent(down[j]) \subseteq Sent(down'[j])
    BY <2>1
  <2>3. \A j \in Connection : Hears(j, k) => Fresh(m) = {} \/ Update(Fresh(m)) \in Sent(down'[j])
    BY <2>1
  <2> QED BY <1>1, <1>2, <1>7, <2>1, <2>2, <2>3 DEF m
<1> QED BY <1>4, <1>5, <1>6, <1>7

-----------------------------------------------------------------------------
LEMMA PushedStep == TypeInv /\ Pushed /\ [Next]_vars => Pushed'
<1> SUFFICES ASSUME TypeInv, Pushed, [Next]_vars,
                    NEW d \in Client, socket'[d] # 0, joined'[socket'[d]].access = "edit"
             PROVE  \/ Asks(down'[socket'[d]])
                    \/ d \in opened' /\ \A s \in doc'[d] : s \in room'.doc \/ Carries(up'[socket'[d]], s)
  BY DEF Pushed, Asks, Carries
<1>1. CASE \E c \in Client, access \in Access : Accept(c, access)
  <2> PICK c \in Client, access \in Access : Accept(c, access)
    BY <1>1
  <2>1. CASE d = c
    BY <2>1, AcceptEffect
  <2>2. CASE d # c
    <3>1. socket[d] # 0 /\ socket[d] \in Connection /\ socket[d] \in DOMAIN joined
      BY <2>2, AcceptEffect, HeldSocket
    <3> QED BY <2>2, <3>1, AcceptEffect DEF Pushed
  <2> QED BY <2>1, <2>2
<1>2. CASE \E c \in Client : Open(c)
  <2> PICK c \in Client : Open(c)
    BY <1>2
  <2>1. UNCHANGED <<serverVars, socket, joined, down, doc>> /\ opened' = opened \cup {c}
    BY OpenEffect
  <2>2. socket[d] \in Connection
    BY <2>1, HeldSocket
  <2>3. Sent(up[socket[d]]) \subseteq Sent(up'[socket[d]])
    BY <2>2, OpenEffect
  <2> QED BY <2>1, <2>2, <2>3 DEF Pushed, Carries, serverVars
<1>3. CASE \E c \in Client : Drop(c)
  <2> PICK c \in Client : Drop(c)
    BY <1>3
  <2>1. d # c /\ socket[d] # 0 /\ socket'[d] = socket[d]
    BY DropEffect
  <2>2. socket[d] \in Connection /\ socket[d] # socket[c]
    BY <2>1, HeldSocket, Sockets
  <2> QED BY <2>1, <2>2, DropEffect DEF Pushed, serverVars
<1>4. CASE \E c \in Client : Edit(c)
  <2> PICK c \in Client : Edit(c)
    BY <1>4
  <2>1. PICK s :
           /\ doc'[c] = doc[c] \cup {s} /\ \A e \in Client \ {c} : doc'[e] = doc[e]
           /\ c \in opened => Sent(up'[socket[c]]) = Sent(up[socket[c]]) \cup {Update({s})}
           /\ \A j \in Connection : (c \in opened /\ j = socket[c]) \/ up'[j] = up[j]
           /\ UNCHANGED <<serverVars, socket, opened, joined, down, stops>>
    BY EditEffect
  <2>2. socket[d] \in Connection /\ socket[d] # 0
    BY <2>1, HeldSocket
  <2>3. Sent(up[socket[d]]) \subseteq Sent(up'[socket[d]])
    BY <2>1, <2>2
  <2>4. d = c /\ c \in opened => Carries(up'[socket[d]], s)
    <3>1. Update({s}).type # "step1" /\ s \in Update({s}).structs
      BY DEF Update
    <3> QED BY <2>1, <3>1 DEF Carries
  <2> QED BY <2>1, <2>2, <2>3, <2>4 DEF Pushed, Carries, serverVars
<1>5. CASE \E c \in Client : ClientReceive(c)
  <2> PICK c \in Client : ClientReceive(c)
    BY <1>5
  <2> DEFINE k == socket[c]
             m == Head(down[k])
  <2>1. /\ c \in opened /\ k \in Connection /\ k # 0
        /\ m.structs \subseteq room.doc
        /\ Sent(down[k]) = {m} \cup Sent(down'[k])
        /\ \A j \in Connection \ {k} : down'[j] = down[j] /\ up'[j] = up[j]
        /\ \A e \in Client \ {c} : doc'[e] = doc[e]
        /\ IF m.type = "step1"
           THEN /\ Sent(up'[k]) = Sent(up[k]) \cup {Step2(doc[c] \ m.structs)}
                /\ doc'[c] = doc[c]
           ELSE doc'[c] = doc[c] \cup m.structs /\ up'[k] = up[k]
        /\ UNCHANGED <<serverVars, socket, opened, joined>>
    BY ClientReceiveEffect
  <2>2. socket[d] \in Connection /\ socket[d] # 0
    BY <2>1, HeldSocket
  <2> HIDE DEF m, k
  <2>3. CASE d # c
    BY <2>1, <2>2, <2>3, Sockets DEF Pushed, serverVars, k
  <2>4. CASE d = c /\ m.type = "step1"
    <3>1. \A s \in doc[c] : s \in room.doc \/ Carries(up'[k], s)
      <4>1. /\ Step2(doc[c] \ m.structs).type # "step1"
            /\ Step2(doc[c] \ m.structs).structs = doc[c] \ m.structs
        BY DEF Step2
      <4>2. Step2(doc[c] \ m.structs) \in Sent(up'[k])
        BY <2>1, <2>4
      <4> QED BY <2>1, <4>1, <4>2 DEF Carries
    <3> QED BY <2>1, <2>4, <3>1 DEF serverVars, k
  <2>5. CASE d = c /\ m.type # "step1"
    BY <2>1, <2>2, <2>5 DEF Pushed, Asks, serverVars, k
  <2> QED BY <2>3, <2>4, <2>5
<1>6. CASE \E k \in peers : ServerReceive(k)
  <2> PICK k \in peers : ServerReceive(k)
    BY <1>6
  <2> DEFINE m == Head(up[k])
  <2>1. /\ Sent(up[k]) = {m} \cup Sent(up'[k])
        /\ \A j \in Connection \ {k} : up'[j] = up[j]
        /\ room.doc \subseteq room'.doc
        /\ \A j \in Connection : Sent(down[j]) \subseteq Sent(down'[j])
        /\ \/ m.type # "step1" /\ joined[k].access = "read"
           \/ m.type = "step1"
           \/ m.type # "step1" /\ room'.doc = room.doc \cup m.structs
        /\ UNCHANGED <<peers, socket, opened, doc, joined>>
    BY ServerReceiveEffect DEF clientVars
  <2>2. socket[d] \in Connection /\ socket[d] # 0
    BY <2>1, HeldSocket
  <2> HIDE DEF m
  <2>3. CASE Asks(down[socket[d]])
    BY <2>1, <2>2, <2>3 DEF Asks
  <2>4. CASE ~Asks(down[socket[d]])
    <3>1. d \in opened /\ \A s \in doc[d] : s \in room.doc \/ Carries(up[socket[d]], s)
      BY <2>1, <2>2, <2>4 DEF Pushed
    <3>2. \A s : Carries(up[socket[d]], s) => s \in room'.doc \/ Carries(up'[socket[d]], s)
      BY <2>1, <2>2 DEF Carries
    <3> QED BY <2>1, <3>1, <3>2
  <2> QED BY <2>3, <2>4
<1>7. CASE \E k \in peers : Disconnect(k)
  BY <1>7, DisconnectEffect DEF Pushed, clientVars
<1>8. CASE FlushTimer
  BY <1>8, FlushTimerEffect DEF Pushed, clientVars
<1>9. CASE IdleTimer
  BY <1>9, IdleEffect DEF clientVars
<1>10. CASE Crash \/ Shutdown
  BY <1>10, EndsEffect
<1>11. CASE UNCHANGED vars
  BY <1>11 DEF Pushed, vars, serverVars, clientVars
<1> QED BY <1>1, <1>2, <1>3, <1>4, <1>5, <1>6, <1>7, <1>8, <1>9, <1>10, <1>11 DEF Next

\* The counters of lost updates only grow.
LEMMA NothingLostBefore ==
    ASSUME TypeInv, [Next]_vars, NothingLost'
    PROVE  NothingLost
<1>1. stops \in Nat /\ failures \in Nat
  BY DEF TypeInv, CollabTypeOK
<1>2. stops' = 0 /\ failures' = 0
  BY DEF NothingLost
<1>3. UNCHANGED stops \/ stops' = stops + 1
  BY DEF Next, Accept, Open, Edit, ClientReceive, Drop, ServerReceive, Disconnect, FlushTimer,
         IdleTimer, Crash, Shutdown, ProcessEnds, vars
<1>4. UNCHANGED failures \/ failures' = failures + 1
  <2>1. ASSUME NEW r, NEW destroy, FlushRoom(r, destroy)
        PROVE  UNCHANGED failures \/ failures' = failures + 1
    BY <2>1 DEF FlushRoom
  <2>2. ASSUME NEW k, NEW m, ApplyStructs(k, m)
        PROVE  UNCHANGED failures \/ failures' = failures + 1
    BY <2>1, <2>2 DEF ApplyStructs
  <2>3. ASSUME NEW k \in peers, ServerReceive(k)
        PROVE  UNCHANGED failures \/ failures' = failures + 1
    BY <2>2, <2>3 DEF ServerReceive, AnswerStep1, serverVars
  <2>4. CASE FlushTimer \/ IdleTimer \/ Shutdown
    BY <2>1, <2>4 DEF FlushTimer, IdleTimer, Shutdown
  <2> QED BY <2>3, <2>4 DEF Next, Accept, Open, Edit, ClientReceive, Drop, Disconnect, Crash,
                             serverVars, vars
<1> QED BY <1>1, <1>2, <1>3, <1>4 DEF NothingLost

-----------------------------------------------------------------------------
(* What structs need, and the seeds.                                       *)

\* Documents of tabs only grow, and so does what structs need.
LEMMA DocsGrow ==
    ASSUME TypeInv, [Next]_vars
    PROVE  (\A c \in Client : doc[c] \subseteq doc'[c]) /\ needs \subseteq needs'
<1>1. CASE \E c \in Client : Edit(c)
  <2> PICK c \in Client : Edit(c)
    BY <1>1
  <2>1. needs \subseteq needs'
    BY DEF Edit
  <2>2. \A d \in Client : doc[d] \subseteq doc'[d]
    BY EditEffect
  <2> QED BY <2>1, <2>2
<1>2. CASE \E c \in Client : ClientReceive(c)
  <2> PICK c \in Client : ClientReceive(c)
    BY <1>2
  <2>1. needs \subseteq needs'
    BY DEF ClientReceive
  <2>2. \A d \in Client : doc[d] \subseteq doc'[d]
    BY ClientReceiveEffect
  <2> QED BY <2>1, <2>2
<1>3. CASE UNCHANGED <<doc, needs>>
  BY <1>3
<1> QED BY <1>1, <1>2, <1>3
        DEF Next, Accept, Open, Drop, ServerReceive, Disconnect, FlushTimer, IdleTimer, Crash,
            Shutdown, ProcessEnds, vars, clientVars

LEMMA NeedsStep == TypeInv /\ NeedsInv /\ [Next]_vars => NeedsInv'
<1> SUFFICES ASSUME TypeInv, NeedsInv, [Next]_vars PROVE NeedsInv'
  OBVIOUS
<1>1. CASE UNCHANGED needs
  <2>1. \A s, p : Needs(s, p)' <=> Needs(s, p)
    BY <1>1 DEF Needs
  <2> QED BY <2>1, DocsGrow DEF NeedsInv
<1>2. CASE \E c \in Client : Edit(c)
  <2> PICK c \in Client : Edit(c)
    BY <1>2
  <2>1. PICK s :
           /\ s.author = c /\ s \notin doc[c]
           /\ \E P \in Places(c) : needs' = needs \cup ({s} \X Before(Own(c) \cup P))
           /\ doc'[c] = doc[c] \cup {s} /\ \A d \in Client \ {c} : doc'[d] = doc[d]
           /\ c \in opened => Sent(up'[socket[c]]) = Sent(up[socket[c]]) \cup {Update({s})}
           /\ \A j \in Connection : (c \in opened /\ j = socket[c]) \/ up'[j] = up[j]
           /\ UNCHANGED <<serverVars, socket, opened, joined, down, stops>>
    BY EditEffect
  <2>2. PICK P \in Places(c) : needs' = needs \cup ({s} \X Before(Own(c) \cup P))
    BY <2>1
  <2>3. PICK X, B : X = Own(c) \cup P /\ B = Before(X)
    OBVIOUS
  <2>4. \A x, y : Needs(x, y)' <=> Needs(x, y) \/ (x = s /\ y \in B)
    BY <2>2, <2>3 DEF Needs
  <2>5. /\ X \subseteq B /\ \A x, y : x \in X /\ Needs(x, y) => y \in B
        /\ \A y \in B : y \in X \/ \E x \in X : Needs(x, y)
    <3>1. \A n \in needs : n = <<n[1], n[2]>>
      BY DEF TypeInv, CollabTypeOK
    <3> QED BY <2>3, <3>1 DEF Before, Needs
  <2>6. \A x \in X : x \in doc[c] /\ \A y : Needs(x, y) => y \in doc[c]
    <3>1. \A x \in P : x \in doc[c] /\ \A y : Needs(x, y) => y \in doc[c]
      BY PlacesAreHeld, IntegratedIs
    <3>2. \A x \in Own(c) : x \in doc[c] /\ \A y : Needs(x, y) => y \in doc[c]
      BY DEF Own, NeedsInv
    <3> QED BY <2>3, <3>1, <3>2
  <2>7. B \subseteq doc[c]
    BY <2>5, <2>6
  <2>8. ASSUME NEW x, NEW y, Needs(x, y)'
        PROVE  x.author \in Client /\ x \in doc'[x.author] /\ y \in doc'[x.author]
    BY <2>1, <2>4, <2>7, <2>8, DocsGrow DEF NeedsInv
  <2>9. \A x, y : Needs(x, y) => y # s
    <3> SUFFICES ASSUME NEW x, Needs(x, s) PROVE FALSE
      OBVIOUS
    <3>1. x.author \in Client /\ s \in doc[x.author]
      BY DEF NeedsInv
    <3> QED BY <2>1, <3>1 DEF TypeInv, Provenance, Typed
  <2>10. ASSUME NEW x, NEW y, NEW z, Needs(x, y)', Needs(y, z)'
         PROVE  Needs(x, z)'
    <3>1. CASE Needs(x, y)
      BY <2>4, <2>9, <2>10, <3>1 DEF NeedsInv
    <3>2. CASE x = s /\ y \in B
      <4>1. Needs(y, z)
        BY <2>1, <2>4, <2>7, <2>10, <3>2
      <4>2. z \in B
        BY <2>5, <3>2, <4>1 DEF NeedsInv
      <4> QED BY <2>4, <3>2, <4>2
    <3> QED BY <2>4, <2>10, <3>1, <3>2
  <2> QED BY <2>8, <2>10 DEF NeedsInv
<1> QED BY <1>1, <1>2
        DEF Next, Accept, Open, ClientReceive, Drop, ServerReceive, Disconnect, FlushTimer,
            IdleTimer, Crash, Shutdown, ProcessEnds, vars

\* A flush leaves a seed in the row, and none that the row has not unless it waits.
LEMMA FlushSeeds ==
    ASSUME NEW r \in RoomType, NEW destroy \in BOOLEAN, FlushRoom(r, destroy), row \in RowType,
           r.pending # {} => r.count > 0, \E s \in r.doc : IsSeed(s),
           row.stored => \E s \in row.state : IsSeed(s),
           ~row.stored /\ r.pending = {} => OneBody(r.doc)
    PROVE  /\ row'.stored => \E s \in row'.state : IsSeed(s)
           /\ room'.live => \E s \in room'.doc : IsSeed(s)
           /\ ~row'.stored /\ room'.pending = {} => OneBody(room'.doc)
           /\ \/ failures' = failures + 1
              \/ ~row.stored /\ r.pending # {} => row'.state = r.doc
<1>1. PICK idle : idle = [r EXCEPT !.flushTimer = FALSE]
  OBVIOUS
<1>2. PICK clean : clean = [idle EXCEPT !.pending = {}, !.count = 0]
  OBVIOUS
<1>3. idle.doc = r.doc /\ idle.pending = r.pending /\ clean.doc = r.doc
  BY <1>1, <1>2 DEF RoomType
<1>4. NoRoom.live = FALSE /\ NoRoom.doc = {}
  BY DEF NoRoom
<1>5. OneBody({})
  BY DEF OneBody
<1>6. CASE r.count = 0 /\ UNCHANGED row /\ room' = IF destroy THEN NoRoom ELSE idle
  BY <1>3, <1>4, <1>5, <1>6
<1>7. CASE r.count > 0 /\ row' = FlushedRow(r) /\ room' = IF destroy THEN NoRoom ELSE clean
  <2>1. /\ row'.stored = TRUE
        /\ \/ row'.state = r.doc
           \/ row'.state = row.state \cup r.pending /\ row.stored
    BY <1>7 DEF FlushedRow
  <2> QED BY <1>3, <1>4, <1>7, <2>1
<1>8. CASE /\ r.count > 0 /\ UNCHANGED row /\ room' = IF destroy THEN NoRoom ELSE idle
           /\ failures' = failures + 1
  BY <1>3, <1>4, <1>5, <1>8
<1> QED BY <1>1, <1>2, <1>6, <1>7, <1>8 DEF FlushRoom

\* A flush of the room there is.
LEMMA FlushedSeeds ==
    ASSUME TypeInv, SeedsInv, NEW destroy \in BOOLEAN, FlushRoom(room, destroy), room.live,
           UNCHANGED <<rooms, doc>>
    PROVE  SeedsInv'
<1>1. /\ room \in RoomType /\ row \in RowType /\ failures \in Nat
      /\ room.pending \subseteq room.doc /\ (room.pending # {} => room.count > 0)
  BY RoomTyped DEF TypeInv, CollabTypeOK, RoomInv, RoomHoldsRow, WaitingIsCounted
<1>2. /\ \E s \in room.doc : IsSeed(s)
      /\ row.stored => \E s \in row.state : IsSeed(s)
      /\ ~row.stored /\ room.pending = {} => OneBody(room.doc)
  BY DEF SeedsInv
<1>3. /\ row'.stored => \E s \in row'.state : IsSeed(s)
      /\ room'.live => \E s \in room'.doc : IsSeed(s)
      /\ ~row'.stored /\ room'.pending = {} => OneBody(room'.doc)
  BY <1>1, <1>2, FlushSeeds
<1>4. /\ row'.state \subseteq row.state \cup room.doc
      /\ room'.doc = IF destroy THEN {} ELSE room.doc
  BY <1>1, FlushEffect
<1>5. \A s \in Stock' : s \in Stock
  BY <1>4 DEF Stock
<1> QED BY <1>3, <1>5 DEF SeedsInv

\* The structs of a peer: a seed among them that the room had not waits for the row.
LEMMA AppliedSeeds ==
    ASSUME TypeInv, NeedsInv, SeedsInv, NEW k \in peers, NEW m \in Message, ApplyStructs(k, m),
           NEW e \in Client, m.structs \subseteq doc[e], UNCHANGED doc
    PROVE  SeedsInv'
<1> DEFINE all == room.doc \cup m.structs
           fresh == Fresh(m)
           next == [room EXCEPT !.doc = all, !.pending = @ \cup fresh, !.count = @ + 1]
<1>1. /\ room \in RoomType /\ row \in RowType /\ failures \in Nat /\ m.structs \in Doc
      /\ room.live
  BY RoomTyped DEF TypeInv, CollabTypeOK, Message, RoomInv, PeersKeepTheirRoom
<1>2. all \in Doc /\ fresh \in Doc
  BY <1>1, IntegratedSubset DEF RoomType, Doc, Fresh
<1>3. /\ room'.doc = all /\ row'.state \subseteq row.state \cup all /\ UNCHANGED rooms
  BY ApplyEffect
<1>4. /\ \E s \in room.doc : IsSeed(s)
      /\ row.stored => \E s \in row.state : IsSeed(s)
      /\ ~row.stored /\ room.pending = {} => OneBody(room.doc)
  BY <1>1 DEF SeedsInv
<1>5. \A s \in all : IsSeed(s) /\ s \notin fresh => s \in room.doc
  BY SeedsIntegrated, IntegratedSubset DEF Fresh
<1>6. /\ row'.stored => \E s \in row'.state : IsSeed(s)
      /\ room'.live => \E s \in room'.doc : IsSeed(s)
      /\ ~row'.stored /\ room'.pending = {} => OneBody(room'.doc)
  <2>1. CASE fresh = {}
    <3>1. UNCHANGED row /\ room' = [room EXCEPT !.doc = all]
      BY <2>1 DEF ApplyStructs, Fresh
    <3>2. room'.pending = room.pending
      BY <1>1, <3>1 DEF RoomType
    <3>3. OneBody(room.doc) => OneBody(all)
      BY <1>5, <2>1 DEF OneBody, IsSeed
    <3> QED BY <1>3, <1>4, <3>1, <3>2, <3>3
  <2>2. CASE fresh # {}
    <3>1. /\ next \in RoomType /\ next.doc = all /\ next.pending = room.pending \cup fresh
          /\ next.count > 0
      <4>1. room.count + 1 \in Nat /\ room.count + 1 > 0 /\ room.pending \cup fresh \in Doc
        BY <1>1, <1>2 DEF RoomType, Doc
      <4> HIDE DEF all, fresh
      <4> QED BY <1>1, <1>2, <4>1 DEF RoomType
    <3>2. \/ FlushRoom(next, FALSE)
          \/ room' = Scheduled(next) /\ UNCHANGED <<row, failures>>
      BY <2>2 DEF ApplyStructs, Fresh
    <3> HIDE DEF next, fresh, all
    <3>3. next.pending # {} /\ \E s \in next.doc : IsSeed(s)
      BY <1>4, <2>2, <3>1 DEF all
    <3>4. CASE FlushRoom(next, FALSE)
      BY <1>1, <1>4, <3>1, <3>3, <3>4, FlushSeeds
    <3>5. CASE room' = Scheduled(next) /\ UNCHANGED <<row, failures>>
      <4>1. room'.pending = next.pending /\ room'.doc = next.doc
        BY <3>1, <3>5 DEF Scheduled, RoomType
      <4> QED BY <1>4, <3>3, <3>5, <4>1
    <3> QED BY <3>2, <3>4, <3>5
  <2> QED BY <2>1, <2>2
<1>7. \A s \in Stock' : s \in Stock \/ s \in doc[e]
  BY <1>3 DEF Stock
<1> QED BY <1>3, <1>6, <1>7 DEF SeedsInv

LEMMA SeedsStep == TypeInv /\ NeedsInv /\ SeedsInv /\ [Next]_vars => SeedsInv'
<1> SUFFICES ASSUME TypeInv, NeedsInv, SeedsInv, [Next]_vars PROVE SeedsInv'
  OBVIOUS
<1>1. CASE \E c \in Client, access \in Access : Accept(c, access)
  <2>1. /\ room' = JoinedRoom /\ UNCHANGED <<row, doc>>
        /\ rooms' = IF room.live THEN rooms ELSE rooms + 1
    BY <1>1 DEF Accept
  <2>2. room \in RoomType /\ row \in RowType /\ rooms \in Nat
    BY RoomTyped DEF TypeInv, CollabTypeOK
  <2>3. CASE room.live
    <3>1. room'.doc = room.doc /\ room'.pending = room.pending /\ rooms' = rooms
      BY <2>1, <2>2, <2>3 DEF JoinedRoom, RoomType
    <3> QED BY <2>1, <2>3, <3>1 DEF SeedsInv, Stock
  <2>4. CASE ~room.live
    <3>1. /\ room'.doc = IF row.stored THEN row.state ELSE SeededDoc
          /\ rooms' = rooms + 1 /\ rooms' \in Nat
      BY <2>1, <2>2, <2>4 DEF JoinedRoom, NewRoom, NoRoom
    <3>2. PICK s : s = [author |-> Server, clock |-> rooms + 1]
      OBVIOUS
    <3>3. SeededDoc = {s} /\ IsSeed(s) /\ s.clock <= rooms'
      BY <2>2, <3>1, <3>2 DEF SeededDoc, IsSeed
    <3>4. \A n : n \in Struct /\ n.clock <= rooms => n.clock <= rooms'
      BY <2>2, <3>1 DEF Struct
    <3>5. OneBody(SeededDoc)
      BY <3>3 DEF OneBody
    <3>6. \A n \in Stock' : n \in Stock \/ n = s
      BY <2>1, <3>1, <3>3 DEF Stock
    <3>7. /\ \A n \in Stock : n \in Struct
          /\ \A c \in Client : \A n \in doc[c] : n \in Struct
      BY <2>2 DEF Stock, RoomType, RowType, Doc, TypeInv, CollabTypeOK
    <3>8. /\ \A n \in Stock' : IsSeed(n) => n.clock <= rooms'
          /\ \A c \in Client : \A n \in doc[c] : IsSeed(n) => n.clock <= rooms'
      BY <3>3, <3>4, <3>6, <3>7 DEF SeedsInv
    <3>9. /\ room'.live => \E n \in room'.doc : IsSeed(n)
          /\ row.stored => \E n \in row.state : IsSeed(n)
          /\ ~row.stored => OneBody(room'.doc)
      BY <3>1, <3>3, <3>5 DEF SeedsInv
    <3> QED BY <2>1, <3>8, <3>9 DEF SeedsInv
  <2> QED BY <2>3, <2>4
<1>2. CASE \E c \in Client : Edit(c)
  <2> PICK c \in Client : Edit(c)
    BY <1>2
  <2>1. PICK s : /\ s.author = c /\ doc'[c] = doc[c] \cup {s}
                 /\ \A d \in Client \ {c} : doc'[d] = doc[d] /\ UNCHANGED serverVars
    BY EditEffect
  <2>2. UNCHANGED <<room, row, rooms>> /\ ~IsSeed(s)
    BY <2>1, CollabAssumption DEF Edit, serverVars, IsSeed
  <2>3. \A d \in Client : \A n \in doc'[d] : IsSeed(n) => n \in doc[d]
    BY <2>1, <2>2
  <2> QED BY <2>2, <2>3 DEF SeedsInv, Stock
<1>3. CASE \E c \in Client : ClientReceive(c)
  <2> PICK c \in Client : ClientReceive(c)
    BY <1>3
  <2>1. \A d \in Client : \A n \in doc'[d] : n \in doc[d] \/ n \in room.doc
    BY ClientReceiveEffect
  <2>2. UNCHANGED <<room, row, rooms>>
    BY DEF ClientReceive, serverVars
  <2> QED BY <2>1, <2>2 DEF SeedsInv, Stock
<1>4. CASE \E k \in peers : ServerReceive(k)
  <2> PICK k \in peers : ServerReceive(k)
    BY <1>4
  <2> DEFINE m == Head(up[k])
             e == joined[k].client
  <2>1. e \in Client /\ m \in Message /\ m.structs \subseteq doc[e] /\ UNCHANGED doc
    BY ReadEffect DEF clientVars
  <2>2. UNCHANGED serverVars \/ ApplyStructs(k, m)
    BY DEF ServerReceive, AnswerStep1
  <2> HIDE DEF m, e
  <2>3. CASE UNCHANGED serverVars
    BY <2>1, <2>3 DEF serverVars, SeedsInv, Stock
  <2> QED BY <2>1, <2>2, <2>3, AppliedSeeds
<1>5. CASE FlushTimer \/ IdleTimer \/ Shutdown
  <2>1. room.live
    BY <1>5 DEF FlushTimer, IdleTimer, Shutdown, TypeInv, RoomInv, GoneIsEmpty
  <2>2. /\ \E destroy \in BOOLEAN : FlushRoom(room, destroy)
        /\ UNCHANGED <<rooms, doc>>
    BY <1>5 DEF FlushTimer, IdleTimer, Shutdown, ProcessEnds, clientVars
  <2> QED BY <2>1, <2>2, FlushedSeeds
<1>6. CASE Crash
  <2>1. room' = NoRoom /\ UNCHANGED <<row, rooms, doc>>
    BY <1>6 DEF Crash, ProcessEnds
  <2>2. room'.live = FALSE /\ room'.doc = {}
    BY <2>1 DEF NoRoom
  <2>3. OneBody({})
    BY DEF OneBody
  <2> QED BY <2>1, <2>2, <2>3 DEF SeedsInv, Stock
<1>7. CASE \E k \in peers : Disconnect(k)
  <2>1. room \in RoomType
    BY RoomTyped DEF TypeInv
  <2>2. /\ room'.doc = room.doc /\ room'.pending = room.pending /\ room'.live = room.live
        /\ UNCHANGED <<row, rooms, doc>>
    BY <1>7, <2>1 DEF Disconnect, LeftRoom, RoomType, clientVars
  <2> QED BY <2>2 DEF SeedsInv, Stock
<1>8. CASE UNCHANGED <<room, row, rooms, doc>>
  BY <1>8 DEF SeedsInv, Stock
<1> QED BY <1>1, <1>2, <1>3, <1>4, <1>5, <1>6, <1>7, <1>8
        DEF Next, Open, Drop, vars, serverVars, clientVars

\* An idle room that ends without a refusal leaves what waited in the row, and on a
\* first store all that it held.
LEMMA IdleKeeps ==
    ASSUME TypeInv, SeedsInv, IdleTimer, NothingLost'
    PROVE  /\ room'.doc = {} /\ room.pending \subseteq row'.state
           /\ row.state \subseteq row'.state /\ row'.state \subseteq row.state \cup room.doc
           /\ ~row.stored /\ room.pending # {} => row'.state = room.doc
           /\ room.live /\ UNCHANGED <<doc, needs>>
<1>1. /\ FlushRoom(room, TRUE) /\ room.live /\ UNCHANGED <<doc, needs>>
  BY DEF IdleTimer, TypeInv, RoomInv, GoneIsEmpty, clientVars
<1>2. /\ room \in RoomType /\ row \in RowType /\ failures \in Nat
      /\ room.pending \subseteq room.doc /\ (room.pending # {} => room.count > 0)
  BY RoomTyped DEF TypeInv, CollabTypeOK, RoomInv, RoomHoldsRow, WaitingIsCounted
<1>3. /\ room'.doc = {} /\ row'.state \subseteq row.state \cup room.doc
      /\ room.pending \subseteq row'.state \cup room'.pending \/ failures' > failures
  BY <1>1, <1>2, FlushEffect
<1>4. row.state \subseteq row'.state
  BY FlushStep DEF TypeInv
<1>5. failures = 0 /\ failures' = 0
  BY NothingLostBefore DEF NothingLost, Next
<1>6. room'.pending = {}
  <2>1. room' = NoRoom
    BY <1>1 DEF FlushRoom
  <2> QED BY <2>1 DEF NoRoom
<1>7. ~row.stored /\ room.pending # {} => row'.state = room.doc
  <2>1. /\ \E s \in room.doc : IsSeed(s)
        /\ row.stored => \E s \in row.state : IsSeed(s)
        /\ ~row.stored /\ room.pending = {} => OneBody(room.doc)
    BY <1>1 DEF SeedsInv
  <2>2. failures' # failures + 1
    BY <1>5
  <2> QED BY <1>1, <1>2, <2>1, <2>2, FlushSeeds
<1> QED BY <1>1, <1>3, <1>4, <1>5, <1>6, <1>7

\* The server forgets a struct only with an idle room: never a second seed.
LEMMA WholeBefore ==
    ASSUME TypeInv, NeedsInv, SeedsInv, [Next]_vars, Whole'
    PROVE  Whole
<1>1. NothingLost /\ NothingLost' /\ OneBody(Stock')
  BY NothingLostBefore DEF Whole, OneBody
<1>2. ASSUME Stock \subseteq Stock' PROVE Whole
  BY <1>1, <1>2 DEF Whole, OneBody
<1>3. CASE \E c \in Client, access \in Access : Accept(c, access)
  BY <1>2, <1>3, AcceptEffect DEF Stock
<1>4. CASE \E k \in peers : ServerReceive(k)
  BY <1>2, <1>4, ServerReceiveEffect DEF Stock
<1>5. CASE \E k \in peers : Disconnect(k)
  BY <1>2, <1>5, DisconnectEffect DEF Stock
<1>6. CASE FlushTimer
  BY <1>2, <1>6, FlushTimerEffect DEF Stock
<1>7. CASE IdleTimer
  <2>1. /\ room'.doc = {} /\ room.pending \subseteq row'.state
        /\ row.state \subseteq row'.state
        /\ ~row.stored /\ room.pending # {} => row'.state = room.doc
        /\ row.state \subseteq room.doc
    BY <1>1, <1>7, IdleKeeps DEF TypeInv, RoomInv, RoomHoldsRow
  <2>2. CASE ~row.stored /\ room.pending = {}
    <3>1. OneBody(room.doc)
      BY <2>2 DEF SeedsInv
    <3>2. Stock = room.doc
      BY <2>1 DEF Stock
    <3> QED BY <1>1, <3>1, <3>2 DEF Whole
  <2>3. CASE ~row.stored /\ room.pending # {}
    BY <1>2, <2>1, <2>3 DEF Stock
  <2>4. CASE row.stored
    <3>1. \A s \in Integrated(room.doc) : s \in row.state \cup room.pending
      BY <2>4 DEF TypeInv, RoomInv, Recoverable
    <3>2. \A s \in room.doc : IsSeed(s) => s \in Stock'
      BY <2>1, <3>1, SeedsIntegrated DEF Stock
    <3>3. Stock = room.doc
      BY <2>1 DEF Stock
    <3> QED BY <1>1, <3>2, <3>3 DEF Whole, OneBody, IsSeed
  <2> QED BY <2>2, <2>3, <2>4
<1>8. CASE Crash \/ Shutdown
  BY <1>1, <1>8, EndsEffect DEF NothingLost
<1>9. CASE UNCHANGED <<room, row>>
  BY <1>2, <1>9 DEF Stock
<1> QED BY <1>1, <1>3, <1>4, <1>5, <1>6, <1>7, <1>8, <1>9
        DEF Next, Open, Edit, ClientReceive, Drop, vars, serverVars

\* A message of e never integrates what e has not: what another's struct waited for at
\* the server, e had not without the other, or e brings it before its author does.
LEMMA FreshIsHeld ==
    ASSUME TypeInv, NeedsInv, SeedsInv, HasGap, Whole, room.live,
           NEW e \in Client, NEW m \in Message, m.structs \subseteq doc[e],
           OneBody(room.doc \cup m.structs)
    PROVE  Fresh(m) \subseteq doc[e]
<1> SUFFICES ASSUME NEW s \in Fresh(m), s \notin m.structs PROVE s \in doc[e]
  OBVIOUS
<1>1. /\ s \in room.doc /\ s \notin Integrated(room.doc)
      /\ \A q : Needs(s, q) => q \in room.doc \cup m.structs
  BY IntegratedIs, IntegratedSubset DEF Fresh
<1>2. PICK p : Needs(s, p) /\ p \notin room.doc
  BY <1>1, IntegratedIs
<1>3. p \in m.structs /\ p \in doc[e] /\ p \notin Stock
  BY <1>1, <1>2 DEF Stock, TypeInv, RoomInv, RoomHoldsRow
<1>4. s.author \in Client /\ s \in doc[s.author] /\ p \in doc[s.author]
  BY <1>2 DEF NeedsInv
<1>5. CASE s.author = e
  BY <1>4, <1>5
<1>6. CASE s.author # e
  <2>1. ~IsSeed(p)
    <3>1. PICK t \in room.doc : IsSeed(t)
      BY DEF SeedsInv
    <3> QED BY <1>2, <1>3, <3>1 DEF OneBody, IsSeed
  <2>2. p.author \in Client
    <3>1. p \in Struct
      BY <1>3 DEF TypeInv, CollabTypeOK, Doc
    <3> QED BY <2>1, <3>1 DEF Struct, IsSeed
  <2>3. PICK f \in {e, s.author} : f # p.author
    BY <1>6
  <2>4. f \in Client /\ p \in doc[f]
    BY <1>3, <1>4, <2>3
  <2>5. PICK q : Needs(p, q) /\ Missing(q)
    BY <1>3, <2>2, <2>3, <2>4 DEF HasGap
  <2>6. Needs(s, q) /\ q \notin Stock
    BY <1>2, <2>5 DEF NeedsInv, Missing
  <2>7. q \in m.structs /\ q \in doc[e] /\ q \in doc[s.author]
    BY <1>1, <2>6 DEF Stock, NeedsInv
  <2>8. CASE IsSeed(q)
    <3>1. PICK t \in room.doc : IsSeed(t)
      BY DEF SeedsInv
    <3> QED BY <2>6, <2>7, <2>8, <3>1 DEF OneBody, IsSeed, Stock
  <2>9. CASE ~IsSeed(q)
    BY <1>4, <1>6, <2>5, <2>7, <2>9 DEF Missing
  <2> QED BY <2>8, <2>9
<1> QED BY <1>5, <1>6

LEMMA PulledStep ==
    TypeInv /\ NeedsInv /\ SeedsInv /\ Pulled /\ HasGap /\ [Next]_vars => Pulled'
<1> SUFFICES ASSUME TypeInv, NeedsInv, SeedsInv, Pulled, HasGap, [Next]_vars, Whole',
                    NEW d \in opened'
             PROVE  \/ Asks(up'[socket'[d]])
                    \/ \A s \in Integrated(room'.doc) : s \in doc'[d] \/ Carries(down'[socket'[d]], s)
  BY DocsGrow DEF Pulled, Asks, Carries, Integrated
<1>0. Whole
  BY WholeBefore
<1>1. ASSUME NEW c \in opened
      PROVE  /\ c \in Client /\ socket[c] # 0 /\ socket[c] \in Connection /\ socket[c] \in DOMAIN joined
             /\ socket[c] \in peers /\ joined[socket[c]].client = c
             /\ \/ Asks(up[socket[c]])
                \/ \A s \in Integrated(room.doc) : s \in doc[c] \/ Carries(down[socket[c]], s)
  BY <1>0, HeldSocket DEF TypeInv, CollabTypeOK, Wiring, Pulled
<1>2. CASE \E c \in Client, access \in Access : Accept(c, access)
  <2> PICK c \in Client, access \in Access : Accept(c, access)
    BY <1>2
  <2>1. d \in opened /\ d # c
    BY <1>1, AcceptEffect
  <2>2. room.live
    BY <1>1, <2>1 DEF TypeInv, RoomInv, PeersKeepTheirRoom
  <2> QED BY <1>1, <2>1, <2>2, AcceptEffect
<1>3. CASE \E c \in Client : Open(c)
  <2> PICK c \in Client : Open(c)
    BY <1>3
  <2>1. CASE d = c
    <3>1. Step1(doc[c]).type = "step1"
      BY DEF Step1
    <3> QED BY <2>1, <3>1, OpenEffect DEF Asks
  <2>2. CASE d # c
    <3>1. d \in opened /\ UNCHANGED <<serverVars, doc, socket, down>>
      BY <2>2, OpenEffect
    <3>2. up'[socket[d]] = up[socket[d]]
      BY <1>1, <2>2, <3>1, Sockets, OpenEffect
    <3> QED BY <1>1, <3>1, <3>2 DEF serverVars
  <2> QED BY <2>1, <2>2
<1>4. CASE \E c \in Client : Drop(c)
  <2> PICK c \in Client : Drop(c)
    BY <1>4
  <2>1. d \in opened /\ d # c /\ socket'[d] = socket[d]
    BY <1>1, DropEffect
  <2>2. socket[d] # socket[c]
    BY <1>1, <2>1, Sockets
  <2> QED BY <1>1, <2>1, <2>2, DropEffect DEF serverVars
<1>5. CASE \E c \in Client : Edit(c)
  <2> PICK c \in Client : Edit(c)
    BY <1>5
  <2>1. PICK s :
           /\ doc'[c] = doc[c] \cup {s} /\ \A e \in Client \ {c} : doc'[e] = doc[e]
           /\ c \in opened => Sent(up'[socket[c]]) = Sent(up[socket[c]]) \cup {Update({s})}
           /\ \A j \in Connection : (c \in opened /\ j = socket[c]) \/ up'[j] = up[j]
           /\ UNCHANGED <<serverVars, socket, opened, joined, down, stops>>
    BY EditEffect
  <2>2. d \in opened /\ doc[d] \subseteq doc'[d] /\ Sent(up[socket[d]]) \subseteq Sent(up'[socket[d]])
    BY <1>1, <2>1
  <2> QED BY <1>1, <2>1, <2>2 DEF Asks, serverVars
<1>6. CASE \E c \in Client : ClientReceive(c)
  <2> PICK c \in Client : ClientReceive(c)
    BY <1>6
  <2> DEFINE k == socket[c]
             m == Head(down[k])
  <2>1. /\ c \in opened /\ k \in Connection
        /\ Sent(down[k]) = {m} \cup Sent(down'[k])
        /\ \A j \in Connection \ {k} : down'[j] = down[j] /\ up'[j] = up[j]
        /\ \A e \in Client \ {c} : doc'[e] = doc[e]
        /\ IF m.type = "step1"
           THEN /\ Sent(up'[k]) = Sent(up[k]) \cup {Step2(doc[c] \ m.structs)}
                /\ doc'[c] = doc[c]
           ELSE doc'[c] = doc[c] \cup m.structs /\ up'[k] = up[k]
        /\ UNCHANGED <<serverVars, socket, opened, joined>>
    BY ClientReceiveEffect
  <2> HIDE DEF m, k
  <2>2. d \in opened /\ socket'[d] = socket[d] /\ room'.doc = room.doc
    BY <2>1 DEF serverVars
  <2>3. CASE d # c
    <3>1. socket[d] # k
      BY <1>1, <2>1, <2>2, <2>3, Sockets DEF k
    <3> QED BY <1>1, <2>1, <2>2, <2>3, <3>1
  <2>4. CASE d = c
    <3>1. Asks(up[k]) => Asks(up'[k])
      BY <2>1 DEF Asks
    <3>2. \A s : Carries(down[k], s) => s \in doc'[c] \/ Carries(down'[k], s)
      BY <2>1 DEF Carries
    <3>3. doc[c] \subseteq doc'[c]
      BY <2>1
    <3> QED BY <1>1, <2>1, <2>2, <2>4, <3>1, <3>2, <3>3 DEF k
  <2> QED BY <2>3, <2>4
<1>7. CASE \E k \in peers : ServerReceive(k)
  <2> PICK k \in peers : ServerReceive(k)
    BY <1>7
  <2> DEFINE m == Head(up[k])
             e == joined[k].client
  <2>1. /\ k \in Connection /\ e \in Client
        /\ Sent(up[k]) = {m} \cup Sent(up'[k])
        /\ \A j \in Connection \ {k} : up'[j] = up[j]
        /\ m.structs \subseteq doc[e]
        /\ \A j \in Connection : Sent(down[j]) \subseteq Sent(down'[j])
        /\ \/ m.type # "step1" /\ UNCHANGED room
           \/ /\ m.type = "step1" /\ UNCHANGED room
              /\ socket[e] = k => Step2(room.doc \ m.structs) \in Sent(down'[k])
           \/ /\ m.type # "step1" /\ room'.doc = room.doc \cup m.structs
              /\ \A j \in Connection : Hears(j, k) =>
                    Fresh(m) = {} \/ Update(Fresh(m)) \in Sent(down'[j])
        /\ UNCHANGED <<peers, socket, opened, doc, joined>>
    BY ServerReceiveEffect DEF clientVars
  <2>2. m \in Message /\ room.live
    BY ReadEffect DEF TypeInv, RoomInv, PeersKeepTheirRoom
  <2> HIDE DEF m
  <2>3. PICK j \in Connection : j = socket[d]
    BY <1>1, <2>1
  <2>4. d \in opened /\ socket'[d] = j /\ socket[d] = j /\ doc'[d] = doc[d]
        /\ j \in peers /\ joined[j].client = d /\ d \in Client
    BY <1>1, <2>1, <2>3
  <2>5. CASE Asks(up[j]) /\ ~Asks(up'[j])
    <3>1. j = k /\ e = d /\ m.type = "step1" /\ UNCHANGED room
      BY <2>1, <2>4, <2>5 DEF Asks
    <3>2. Step2(room.doc \ m.structs) \in Sent(down'[j])
      BY <2>1, <2>4, <3>1
    <3>3. /\ Step2(room.doc \ m.structs).type # "step1"
          /\ Step2(room.doc \ m.structs).structs = room.doc \ m.structs
      BY DEF Step2
    <3>4. \A s \in room.doc : s \in doc[d] \/ Carries(down'[j], s)
      BY <2>1, <3>1, <3>2, <3>3 DEF Carries
    <3> QED BY <2>4, <3>1, <3>4, IntegratedSubset
  <2>6. CASE ~Asks(up[j])
    <3> SUFFICES ASSUME NEW s \in Integrated(room'.doc) PROVE s \in doc[d] \/ Carries(down'[j], s)
      BY <2>4
    <3>1. CASE s \in Integrated(room.doc)
      <4>1. s \in doc[d] \/ Carries(down[j], s)
        BY <1>1, <2>4, <2>6, <3>1
      <4> QED BY <2>1, <4>1 DEF Carries
    <3>2. CASE s \notin Integrated(room.doc)
      <4>1. /\ s \in Fresh(m)
            /\ \A i \in Connection : Hears(i, k) => Update(Fresh(m)) \in Sent(down'[i])
        BY <2>1, <3>2 DEF Fresh
      <4>2. CASE j = k
        <5>1. room'.doc = room.doc \cup m.structs
          BY <2>1, <3>2
        <5>2. OneBody(room.doc \cup m.structs)
          BY <5>1 DEF Whole, Stock, OneBody
        <5> QED BY <1>0, <2>1, <2>2, <2>4, <4>1, <4>2, <5>2, FreshIsHeld
      <4>3. CASE j # k
        <5>1. Hears(j, k)
          BY <2>4, <4>3 DEF Hears
        <5>2. Update(Fresh(m)).type # "step1" /\ Update(Fresh(m)).structs = Fresh(m)
          BY DEF Update
        <5> QED BY <4>1, <5>1, <5>2 DEF Carries
      <4> QED BY <4>2, <4>3
    <3> QED BY <3>1, <3>2
  <2> QED BY <2>4, <2>5, <2>6
<1>8. CASE \E k \in peers : Disconnect(k)
  BY <1>1, <1>8, DisconnectEffect DEF clientVars
<1>9. CASE FlushTimer
  BY <1>1, <1>9, FlushTimerEffect DEF clientVars
<1>10. CASE IdleTimer
  BY <1>10, IdleEffect DEF clientVars
<1>11. CASE Crash \/ Shutdown
  BY <1>11, EndsEffect
<1>12. CASE UNCHANGED vars
  BY <1>1, <1>12 DEF vars, serverVars, clientVars
<1> QED BY <1>2, <1>3, <1>4, <1>5, <1>6, <1>7, <1>8, <1>9, <1>10, <1>11, <1>12 DEF Next

\* What is missing stays so while the server and the tabs but its author learn nothing
\* of it.
LEMMA MissingStays ==
    ASSUME NEW p, Missing(p), p \notin Stock',
           \A e \in Client \ {p.author} : p \in doc'[e] => p \in doc[e]
    PROVE  Missing(p)'
BY DEF Missing, IsSeed

LEMMA HasGapStep ==
    TypeInv /\ NeedsInv /\ SeedsInv /\ HasGap /\ InOrder /\ [Next]_vars => HasGap'
<1> SUFFICES ASSUME TypeInv, NeedsInv, SeedsInv, HasGap, InOrder, [Next]_vars, Whole',
                    NEW c \in Client, NEW s \in doc'[c],
                    s.author \in Client \ {c}, s \notin Stock'
             PROVE  \E p : Needs(s, p)' /\ Missing(p)'
  BY DEF HasGap
<1>0. Whole /\ \A p : Needs(s, p) => Needs(s, p)'
  BY WholeBefore, DocsGrow DEF Needs
\* The gap that there was is still one, unless the step fills it or s is new.
<1>1. ASSUME s \in doc[c], s \notin Stock,
             \A p : Needs(s, p) /\ Missing(p) => p \notin Stock',
             \A p : Missing(p) => \A e \in Client \ {p.author} : p \in doc'[e] => p \in doc[e]
      PROVE  \E p : Needs(s, p)' /\ Missing(p)'
  <2>1. PICK p : Needs(s, p) /\ Missing(p)
    BY <1>0, <1>1 DEF HasGap
  <2>2. Missing(p)'
    BY <1>1, <2>1, MissingStays
  <2> QED BY <1>0, <2>1, <2>2
<1>2. ASSUME UNCHANGED doc, Stock' = Stock
      PROVE  \E p : Needs(s, p)' /\ Missing(p)'
  <2>1. \A p : Missing(p) => p \notin Stock
    BY DEF Missing
  <2> QED BY <1>1, <1>2, <2>1
<1>3. CASE \E e \in Client, access \in Access : Accept(e, access)
  <2>1. /\ room.doc \subseteq room'.doc /\ UNCHANGED <<row, doc>>
    BY <1>3, AcceptEffect
  <2>2. \A x \in room'.doc : x \in Stock \/ x.clock = rooms + 1
    <3>1. room' = JoinedRoom /\ room \in RoomType
      BY <1>3, RoomTyped DEF Accept, TypeInv
    <3>2. room'.doc = room.doc \/ room'.doc = row.state \/ room'.doc = SeededDoc
      BY <3>1 DEF JoinedRoom, NewRoom, NoRoom, RoomType
    <3>3. \A x \in SeededDoc : x.clock = rooms + 1
      BY DEF SeededDoc
    <3> QED BY <3>2, <3>3 DEF Stock
  <2>3. ASSUME NEW p, Needs(s, p), Missing(p), p \in Stock'
        PROVE  FALSE
    <3>1. p \notin Stock
      BY <2>3 DEF Missing
    <3>2. p.clock = rooms + 1 /\ IsSeed(p)
      BY <1>3, <2>1, <2>2, <2>3, <3>1, AcceptEffect DEF Stock, IsSeed
    <3>3. p \in doc[s.author] /\ s.author \in Client
      BY <2>3 DEF NeedsInv
    <3>4. p.clock <= rooms /\ rooms \in Nat
      BY <3>2, <3>3 DEF SeedsInv, TypeInv, CollabTypeOK
    <3> QED BY <3>2, <3>4
  <2>4. s \in doc[c] /\ s \notin Stock
    BY <2>1 DEF Stock
  <2> QED BY <1>1, <2>1, <2>3, <2>4
<1>4. CASE \E e \in Client : Open(e)
  BY <1>2, <1>4, OpenEffect DEF Stock, serverVars
<1>5. CASE \E e \in Client : Drop(e)
  BY <1>2, <1>5, DropEffect DEF Stock, serverVars
<1>6. CASE \E e \in Client : Edit(e)
  <2> PICK e \in Client : Edit(e)
    BY <1>6
  <2>1. PICK n : /\ n.author = e /\ UNCHANGED serverVars
                 /\ doc'[e] = doc[e] \cup {n} /\ \A f \in Client \ {e} : doc'[f] = doc[f]
    BY EditEffect
  <2>2. Stock' = Stock
    BY <2>1 DEF Stock, serverVars
  <2>3. s \in doc[c]
    BY <2>1
  <2>4. \A p : Missing(p) => p \notin Stock
    BY DEF Missing
  <2>5. \A p : \A f \in Client \ {p.author} : p \in doc'[f] => p \in doc[f]
    BY <2>1
  <2> QED BY <1>1, <2>2, <2>3, <2>4, <2>5
<1>7. CASE \E e \in Client : ClientReceive(e)
  <2> PICK e \in Client : ClientReceive(e)
    BY <1>7
  <2>1. UNCHANGED serverVars /\ \A f \in Client : doc'[f] \subseteq doc[f] \cup room.doc
    BY ClientReceiveEffect
  <2>2. Stock' = Stock
    BY <2>1 DEF Stock, serverVars
  <2>3. s \in doc[c]
    BY <2>1, <2>2 DEF Stock
  <2>4. \A p : Missing(p) => p \notin Stock /\ p \notin room.doc
    BY DEF Missing, Stock
  <2> QED BY <1>1, <2>1, <2>2, <2>3, <2>4
<1>8. CASE \E k \in peers : ServerReceive(k)
  <2> PICK k \in peers : ServerReceive(k)
    BY <1>8
  <2> DEFINE m == Head(up[k])
             e == joined[k].client
  <2>1. /\ m \in Sent(up[k]) /\ m.structs \subseteq doc[e]
        /\ e \in Client
        /\ room.doc \subseteq room'.doc
        /\ row.state \subseteq row'.state /\ row'.state \subseteq row.state \cup room'.doc
        /\ \/ UNCHANGED room
           \/ m.type # "step1" /\ room'.doc = room.doc \cup m.structs
        /\ UNCHANGED <<peers, doc, joined>>
    BY ServerReceiveEffect DEF clientVars
  <2> HIDE DEF m
  <2>2. s \in doc[c] /\ s \notin Stock /\ Stock \subseteq Stock'
    BY <2>1 DEF Stock
  <2>3. ASSUME NEW p, Needs(s, p), Missing(p), p \in Stock'
        PROVE  FALSE
    <3>1. m.type # "step1" /\ p \in m.structs /\ room'.doc = room.doc \cup m.structs
      BY <2>1, <2>3 DEF Missing, Stock
    <3>2. CASE IsSeed(p)
      <4>1. PICK t \in room.doc : IsSeed(t)
        BY DEF SeedsInv, TypeInv, RoomInv, PeersKeepTheirRoom
      <4>2. t \in Stock /\ t \in Stock' /\ p \notin Stock
        BY <2>2, <2>3, <4>1 DEF Stock, Missing
      <4> QED BY <2>3, <3>2, <4>1, <4>2 DEF Whole, OneBody, IsSeed
    <3>3. CASE ~IsSeed(p)
      <4>1. p.author = e
        BY <2>1, <2>3, <3>1, <3>3 DEF Missing
      <4>2. s.author = e
        BY <2>3, <3>3, <4>1 DEF Missing, NeedsInv
      <4>3. s \in room.doc \cup m.structs
        BY <2>1, <2>2, <2>3, <3>1, <4>1, <4>2 DEF InOrder
      <4> QED BY <3>1, <4>3 DEF Stock
    <3> QED BY <3>2, <3>3
  <2> QED BY <1>1, <2>1, <2>2, <2>3
<1>9. CASE \E k \in peers : Disconnect(k)
  BY <1>2, <1>9, DisconnectEffect DEF Stock, clientVars
<1>10. CASE FlushTimer
  BY <1>2, <1>10, FlushTimerEffect DEF Stock, clientVars
<1>11. CASE IdleTimer
  <2>1. /\ room'.doc = {} /\ room.pending \subseteq row'.state
        /\ row.state \subseteq row'.state /\ row'.state \subseteq row.state \cup room.doc
        /\ row.state \subseteq room.doc /\ UNCHANGED doc
    BY <1>11, IdleKeeps DEF Whole, TypeInv, RoomInv, RoomHoldsRow
  <2>2. s \in doc[c] /\ Stock' = row'.state /\ Stock' \subseteq Stock /\ Stock = room.doc
    BY <2>1 DEF Stock
  <2>3. \A p : Missing(p) => p \notin Stock'
    BY <2>2 DEF Missing
  <2>4. CASE s \notin Stock
    BY <1>1, <2>1, <2>2, <2>3, <2>4
  <2>5. CASE s \in Stock
    <3>1. s \notin Integrated(room.doc)
      BY <2>1, <2>2, CollabAssumption DEF TypeInv, RoomInv, Recoverable
    <3>2. PICK p : Needs(s, p) /\ p \notin Stock
      BY <2>2, <2>5, <3>1, IntegratedIs
    <3>3. PICK q : Needs(s, q) /\ Missing(q)
      <4>1. CASE Missing(p)
        BY <3>2, <4>1
      <4>2. CASE ~Missing(p)
        <5>1. PICK e \in Client \ {p.author} : p \in doc[e] /\ ~IsSeed(p)
          BY <3>2, <4>2 DEF Missing
        <5>2. p.author \in Client
          BY <5>1 DEF TypeInv, CollabTypeOK, Doc, Struct, IsSeed
        <5>3. PICK q : Needs(p, q) /\ Missing(q)
          BY <1>0, <3>2, <5>1, <5>2 DEF HasGap
        <5> QED BY <3>2, <5>3 DEF NeedsInv
      <4> QED BY <4>1, <4>2
    <3>4. Missing(q)'
      BY <2>1, <2>3, <3>3, MissingStays
    <3> QED BY <1>0, <3>3, <3>4
  <2> QED BY <2>4, <2>5
<1>12. CASE Crash \/ Shutdown
  BY <1>12, EndsEffect DEF Whole, NothingLost
<1>13. CASE UNCHANGED vars
  BY <1>2, <1>13 DEF Stock, vars, serverVars, clientVars
<1> QED BY <1>3, <1>4, <1>5, <1>6, <1>7, <1>8, <1>9, <1>10, <1>11, <1>12, <1>13 DEF Next

LEMMA InOrderStep == TypeInv /\ NeedsInv /\ InOrder /\ [Next]_vars => InOrder'
<1> SUFFICES ASSUME TypeInv, NeedsInv, InOrder, [Next]_vars,
                    NEW k \in peers', NEW m \in Sent(up'[k]), m.type # "step1",
                    NEW r \in m.structs, r.author = joined'[k].client,
                    NEW c \in Client \ {r.author}, NEW s \in doc'[c],
                    s.author = r.author, Needs(s, r)'
             PROVE  s \in room'.doc \cup m.structs
  BY DEF InOrder, Needs
<1>0. UNCHANGED needs => Needs(s, r)
  BY DEF Needs
\* A message that was on its way before, and a struct that the tab had.
<1>1. ASSUME k \in peers, m \in Sent(up[k]), joined'[k] = joined[k], s \in doc[c],
             room.doc \subseteq room'.doc, Needs(s, r)
      PROVE  s \in room'.doc \cup m.structs
  BY <1>1 DEF InOrder
<1>2. \A j \in peers : j \in DOMAIN joined /\ j \in Connection /\ joined[j].client \in Client
  BY Joiner DEF TypeInv, CollabTypeOK
<1>3. CASE \E e \in Client, access \in Access : Accept(e, access)
  BY <1>0, <1>1, <1>2, <1>3, AcceptEffect, SentEmpty
<1>4. CASE \E e \in Client : Open(e)
  <2> PICK e \in Client : Open(e)
    BY <1>4
  <2>1. Step1(doc[e]).type = "step1"
    BY DEF Step1
  <2>2. UNCHANGED <<serverVars, doc, joined, needs>>
    BY OpenEffect
  <2>3. k \in peers /\ m \in Sent(up[k])
    BY <1>2, <2>1, <2>2, OpenEffect DEF serverVars
  <2> QED BY <1>0, <1>1, <2>2, <2>3 DEF serverVars
<1>5. CASE \E e \in Client : Drop(e)
  <2> PICK e \in Client : Drop(e)
    BY <1>5
  <2>1. UNCHANGED <<serverVars, doc, joined, needs>> /\ \A j \in Connection : Sent(up'[j]) \subseteq Sent(up[j])
    BY DropEffect
  <2> QED BY <1>0, <1>1, <1>2, <2>1 DEF serverVars
<1>6. CASE \E e \in Client : Edit(e)
  <2> PICK e \in Client : Edit(e)
    BY <1>6
  <2>1. PICK n :
           /\ n.author = e /\ n \notin doc[e]
           /\ \E P \in Places(e) : needs' = needs \cup ({n} \X Before(Own(e) \cup P))
           /\ doc'[e] = doc[e] \cup {n} /\ \A f \in Client \ {e} : doc'[f] = doc[f]
           /\ e \in opened => Sent(up'[socket[e]]) = Sent(up[socket[e]]) \cup {Update({n})}
           /\ \A j \in Connection : (e \in opened /\ j = socket[e]) \/ up'[j] = up[j]
           /\ UNCHANGED <<serverVars, socket, opened, joined, down, stops>>
    BY EditEffect
  <2>2. k \in peers /\ k \in Connection /\ joined' = joined /\ room' = room
    BY <1>2, <2>1 DEF serverVars
  <2>3. s \in doc[c]
    BY <2>1
  <2>4. s # n
    BY <2>1, <2>3 DEF TypeInv, Provenance, Typed
  <2>5. Needs(s, r)
    <3>1. PICK P \in Places(e) : needs' = needs \cup ({n} \X Before(Own(e) \cup P))
      BY <2>1
    <3> QED BY <2>4, <3>1 DEF Needs
  <2>6. CASE m \in Sent(up[k])
    BY <1>1, <2>2, <2>3, <2>5, <2>6
  <2>7. CASE m \notin Sent(up[k])
    <3>1. m = Update({n})
      BY <2>1, <2>2, <2>7
    <3>2. r = n
      BY <3>1 DEF Update
    <3>3. n \in doc[e]
      BY <2>1, <2>5, <3>2 DEF NeedsInv
    <3> QED BY <2>1, <3>3
  <2> QED BY <2>6, <2>7
<1>7. CASE \E e \in Client : ClientReceive(e)
  <2> PICK e \in Client : ClientReceive(e)
    BY <1>7
  <2> DEFINE h == socket[e]
             x == Head(down[h])
  <2>1. /\ h \in Connection /\ joined[h].client = e
        /\ x.structs \subseteq room.doc
        /\ \A j \in Connection \ {h} : up'[j] = up[j]
        /\ \A f \in Client \ {e} : doc'[f] = doc[f]
        /\ IF x.type = "step1"
           THEN /\ Sent(up'[h]) = Sent(up[h]) \cup {Step2(doc[e] \ x.structs)}
                /\ doc'[e] = doc[e]
           ELSE doc'[e] = doc[e] \cup x.structs /\ up'[h] = up[h]
        /\ UNCHANGED <<serverVars, joined, needs>>
    BY ClientReceiveEffect
  <2> HIDE DEF x, h
  <2>2. k \in peers /\ k \in Connection /\ joined' = joined /\ room' = room
    BY <1>2, <2>1 DEF serverVars
  <2>3. s \in doc[c] \/ s \in room.doc
    BY <2>1
  <2>4. CASE m \in Sent(up[k])
    BY <1>0, <1>1, <2>1, <2>2, <2>3, <2>4
  <2>5. CASE m \notin Sent(up[k])
    <3>1. k = h /\ m = Step2(doc[e] \ x.structs)
      BY <2>1, <2>2, <2>5
    <3>2. m.structs = doc[e] \ x.structs /\ r.author = e
      BY <2>1, <2>2, <3>1 DEF Step2
    <3>3. s \in room.doc \/ s \in doc[e]
      BY <2>3, <3>2 DEF TypeInv, Provenance, Typed
    <3> QED BY <2>1, <2>2, <3>2, <3>3
  <2> QED BY <2>4, <2>5
<1>8. CASE \E j \in peers : ServerReceive(j)
  <2> PICK j \in peers : ServerReceive(j)
    BY <1>8
  <2>1. /\ room.doc \subseteq room'.doc
        /\ Sent(up'[j]) \subseteq Sent(up[j]) /\ \A i \in Connection \ {j} : up'[i] = up[i]
        /\ UNCHANGED <<peers, doc, joined, needs>>
    BY ServerReceiveEffect DEF clientVars
  <2> QED BY <1>0, <1>1, <1>2, <2>1
<1>9. CASE \E j \in peers : Disconnect(j)
  BY <1>0, <1>1, <1>9, DisconnectEffect DEF clientVars
<1>10. CASE FlushTimer
  BY <1>0, <1>1, <1>10, FlushTimerEffect DEF clientVars
<1>11. CASE IdleTimer
  BY <1>11, IdleEffect
<1>12. CASE Crash \/ Shutdown
  BY <1>12, EndsEffect
<1>13. CASE UNCHANGED vars
  BY <1>0, <1>1, <1>13 DEF vars, serverVars, clientVars
<1> QED BY <1>3, <1>4, <1>5, <1>6, <1>7, <1>8, <1>9, <1>10, <1>11, <1>12, <1>13 DEF Next

-----------------------------------------------------------------------------
AgreeInv ==
    TypeInv /\ NeedsInv /\ SeedsInv /\ Pushed /\ Pulled /\ HasGap /\ InOrder

LEMMA AgreeInvHolds == Spec => []AgreeInv
<1>1. Init => AgreeInv
  <2>1. Init => TypeInv
    BY RoomInit, TypesInit DEF TypeInv, TypeParts
  <2>2. ASSUME Init PROVE NeedsInv
    BY <2>2 DEF Init, NeedsInv, Needs
  <2>3. ASSUME Init PROVE SeedsInv
    <3>1. room.doc = {} /\ row.state = {} /\ ~room.live /\ ~row.stored
      BY <2>3 DEF Init, NoRoom, NoRow
    <3>2. OneBody({})
      BY DEF OneBody
    <3> QED BY <2>3, <3>1, <3>2 DEF Init, SeedsInv, Stock
  <2>4. ASSUME Init PROVE Pushed /\ Pulled /\ HasGap /\ InOrder
    BY <2>4 DEF Init, Pushed, Pulled, HasGap, InOrder
  <2> QED BY <2>1, <2>2, <2>3, <2>4 DEF AgreeInv
<1>2. AgreeInv /\ [Next]_vars => AgreeInv'
  <2> SUFFICES ASSUME AgreeInv, [Next]_vars PROVE AgreeInv'
    OBVIOUS
  <2>1. TypeInv' /\ NeedsInv' /\ SeedsInv'
    BY TypeStep, NeedsStep, SeedsStep DEF AgreeInv
  <2>2. Pushed' /\ Pulled' /\ HasGap' /\ InOrder'
    BY PushedStep, PulledStep, HasGapStep, InOrderStep DEF AgreeInv
  <2> QED BY <2>1, <2>2 DEF AgreeInv
<1> QED BY <1>1, <1>2, PTL DEF Spec

\* A tab with nothing in flight agrees with the room, for any number of tabs, however
\* the edits of each crossed the handshakes, the flushes and the departures of others:
\* it lacks a struct only after lost updates, or of a room that holds the body twice.
THEOREM SyncedPeersAgreeHolds == Spec => []SyncedPeersAgree
<1>1. AgreeInv => SyncedPeersAgree
  <2> SUFFICES ASSUME AgreeInv, NEW c \in opened, up[socket[c]] = <<>>, down[socket[c]] = <<>>
               PROVE  /\ joined[socket[c]].access = "edit" =>
                            Integrated(doc[c]) \subseteq Integrated(room.doc)
                      /\ NothingLost /\ OneBody(room.doc) =>
                            Integrated(room.doc) \subseteq Integrated(doc[c])
    BY DEF SyncedPeersAgree, NothingLost
  <2>1. c \in Client /\ socket[c] # 0 /\ socket[c] \in peers
    BY DEF AgreeInv, TypeInv, CollabTypeOK, Wiring
  <2>2. /\ ~Asks(up[socket[c]]) /\ ~Asks(down[socket[c]])
        /\ \A s : ~Carries(up[socket[c]], s) /\ ~Carries(down[socket[c]], s)
    BY SentEmpty DEF Asks, Carries
  <2>3. ASSUME joined[socket[c]].access = "edit"
        PROVE  Integrated(doc[c]) \subseteq Integrated(room.doc)
    <3>1. doc[c] \subseteq room.doc
      BY <2>1, <2>2, <2>3 DEF AgreeInv, Pushed
    <3> QED BY <3>1, IntegratedGrows
  <2>4. ASSUME NothingLost, OneBody(room.doc)
        PROVE  Integrated(room.doc) \subseteq Integrated(doc[c])
    <3>1. Stock = room.doc
      BY <2>1 DEF Stock, AgreeInv, TypeInv, RoomInv, RoomHoldsRow, PeersKeepTheirRoom
    <3>2. Whole
      BY <2>4, <3>1 DEF Whole
    <3>3. Integrated(room.doc) \subseteq doc[c]
      BY <2>2, <3>2 DEF AgreeInv, Pulled
    <3> QED BY <3>3, IntegratedClosed DEF AgreeInv
  <2> QED BY <2>3, <2>4
<1> QED BY <1>1, AgreeInvHolds, PTL
=============================================================================
