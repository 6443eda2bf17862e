-------------------------- MODULE CollabRoom_proofs --------------------------
(***************************************************************************)
(* What holds of a collaboration room for any number of sessions, edits,   *)
(* sockets, failed flushes and stops of the server.  RoomInv is inductive. *)
(***************************************************************************)
EXTENDS CollabRoom, TLAPS

RoomShape ==
    /\ DOMAIN room = {"live", "doc", "pending", "count", "idleTimer", "flushTimer"}
    /\ room.live \in BOOLEAN /\ room.idleTimer \in BOOLEAN /\ room.flushTimer \in BOOLEAN
    /\ DOMAIN row = {"stored", "state", "count"}
    /\ row.stored \in BOOLEAN

\* A room that is gone holds nothing and has no timer armed.
GoneIsEmpty ==
    ~room.live => room.doc = {} /\ room.pending = {} /\ ~room.idleTimer /\ ~room.flushTimer

\* A live room holds what is stored and what is pending.
RoomHoldsRow ==
    /\ room.live => row.state \subseteq room.doc
    /\ room.pending \subseteq room.doc
    /\ ~row.stored => row.state = {}

RoomInv == RoomShape /\ GoneIsEmpty /\ RoomHoldsRow /\ PeersKeepTheirRoom /\ Recoverable

-----------------------------------------------------------------------------
\* Integration takes from a set, and takes more from a larger one.
LEMMA IntegratedSubset == ASSUME NEW S PROVE Integrated(S) \subseteq S
BY DEF Integrated

LEMMA IntegratedEmpty == Integrated({}) = {}
BY DEF Integrated

\* A flush of room r, with r in the place of the room: what is stored grows, and
\* what r has integrated is stored or still pending after it.
LEMMA FlushKeeps ==
    ASSUME NEW r,
           DOMAIN r = {"live", "doc", "pending", "count", "idleTimer", "flushTimer"},
           r.live = TRUE, r.idleTimer \in BOOLEAN, r.flushTimer \in BOOLEAN,
           NEW destroy \in BOOLEAN, FlushRoom(r, destroy), RoomShape, UNCHANGED needs,
           row.state \subseteq r.doc, r.pending \subseteq r.doc, ~row.stored => row.state = {},
           \A s \in Integrated(r.doc) : \/ s \in row.state \cup r.pending
                                        \/ ~row.stored /\ s.author = Server
    PROVE  /\ row.state \subseteq row'.state
           /\ RoomShape' /\ GoneIsEmpty' /\ RoomHoldsRow' /\ Recoverable'
           /\ IF destroy THEN room' = NoRoom
              ELSE room'.live /\ (room'.idleTimer = r.idleTimer)
<1> DEFINE F == {"live", "doc", "pending", "count", "idleTimer", "flushTimer"}
           idle == [r EXCEPT !.flushTimer = FALSE]
           clean == [idle EXCEPT !.pending = {}, !.count = 0]
<1>1. /\ DOMAIN idle = F
      /\ idle.doc = r.doc /\ idle.pending = r.pending
      /\ idle.live = TRUE /\ idle.flushTimer = FALSE /\ (idle.idleTimer = r.idleTimer)
  OBVIOUS
<1>2. /\ DOMAIN clean = F
      /\ clean.doc = r.doc /\ clean.pending = {}
      /\ clean.live = TRUE /\ clean.flushTimer = FALSE /\ (clean.idleTimer = r.idleTimer)
  OBVIOUS
<1>3. /\ DOMAIN NoRoom = F
      /\ NoRoom.doc = {} /\ NoRoom.pending = {}
      /\ NoRoom.live = FALSE /\ NoRoom.flushTimer = FALSE /\ NoRoom.idleTimer = FALSE
  BY DEF NoRoom
<1>4. CASE UNCHANGED row /\ room' = IF destroy THEN NoRoom ELSE idle
  <2> HIDE DEF idle, clean
  <2>1. CASE destroy
    BY <2>1, <1>3, <1>4, IntegratedEmpty DEF RoomShape, GoneIsEmpty, RoomHoldsRow, Recoverable, Integrated
  <2>2. CASE ~destroy
    BY <2>2, <1>1, <1>4 DEF RoomShape, GoneIsEmpty, RoomHoldsRow, Recoverable, Integrated
  <2> QED BY <2>1, <2>2, <1>4
<1>5. CASE row' = FlushedRow(r) /\ room' = IF destroy THEN NoRoom ELSE clean
  <2>1. /\ DOMAIN row' = {"stored", "state", "count"}
        /\ row'.stored = TRUE
        /\ \/ row'.state = r.doc
           \/ row'.state = row.state \cup r.pending /\ row.stored
    BY <1>5 DEF FlushedRow, RoomShape
  <2>2. row.state \subseteq row'.state /\ row'.state \subseteq r.doc
    BY <2>1
  <2>3. Integrated(r.doc) \subseteq row'.state
    BY <2>1, IntegratedSubset
  <2> HIDE DEF idle, clean
  <2>4. CASE destroy
    BY <2>1, <2>2, <2>4, <1>3, <1>5, IntegratedEmpty
       DEF RoomShape, GoneIsEmpty, RoomHoldsRow, Recoverable, Integrated
  <2>5. CASE ~destroy
    BY <2>1, <2>2, <2>3, <2>5, <1>2, <1>5
       DEF RoomShape, GoneIsEmpty, RoomHoldsRow, Recoverable, Integrated
  <2> QED BY <2>2, <2>4, <2>5, <1>5
<1> QED BY <1>4, <1>5 DEF FlushRoom

-----------------------------------------------------------------------------
LEMMA RoomInit == Init => RoomInv
BY IntegratedEmpty
   DEF Init, RoomInv, RoomShape, GoneIsEmpty, RoomHoldsRow, PeersKeepTheirRoom, Recoverable, Integrated,
       NoRoom, NoRow

\* getOrCreateRoom: the room of a new peer holds the row, or a seed.
LEMMA AcceptStep ==
    ASSUME RoomInv, NEW c \in Client, NEW access \in Access, Accept(c, access)
    PROVE  RoomInv' /\ row' = row
<1>1. UNCHANGED <<row, needs>> /\ room' = JoinedRoom /\ peers' # {}
  BY DEF Accept
<1>2. CASE room.live
  <2>1. /\ DOMAIN room' = DOMAIN room /\ room'.live = TRUE
        /\ room'.doc = room.doc /\ room'.pending = room.pending
        /\ room'.idleTimer = FALSE /\ (room'.flushTimer = room.flushTimer)
    BY <1>1, <1>2 DEF JoinedRoom, RoomInv, RoomShape
  <2> QED BY <1>1, <1>2, <2>1 DEF RoomInv, RoomShape, GoneIsEmpty, RoomHoldsRow,
                                  PeersKeepTheirRoom, Recoverable, Integrated
<1>3. CASE ~room.live
  <2>1. /\ DOMAIN room' = {"live", "doc", "pending", "count", "idleTimer", "flushTimer"}
        /\ room'.live = TRUE /\ room'.doc = IF row.stored THEN row.state ELSE SeededDoc
        /\ room'.pending = {} /\ room'.idleTimer = FALSE /\ room'.flushTimer = FALSE
    BY <1>1, <1>3 DEF JoinedRoom, NewRoom, NoRoom
  <2>2. \A s \in SeededDoc : s.author = Server
    BY DEF SeededDoc
  <2>3. Recoverable'
    BY <1>1, <2>1, <2>2, IntegratedSubset DEF Recoverable, Integrated, RoomInv, RoomShape
  <2> QED BY <1>1, <2>1, <2>3 DEF RoomInv, RoomShape, GoneIsEmpty, RoomHoldsRow,
                                  PeersKeepTheirRoom
<1> QED BY <1>1, <1>2, <1>3 DEF RoomInv, RoomShape

LEMMA DisconnectStep ==
    ASSUME RoomInv, NEW k \in peers, Disconnect(k)
    PROVE  RoomInv' /\ row' = row
<1>1. /\ UNCHANGED <<row, needs>> /\ peers' = peers \ {k} /\ room.live /\ ~room.idleTimer
      /\ room' = [room EXCEPT !.idleTimer = @ \/ peers = {k}]
  BY DEF Disconnect, LeftRoom, RoomInv, PeersKeepTheirRoom
<1>2. /\ DOMAIN room' = DOMAIN room /\ room'.live
      /\ room'.doc = room.doc /\ room'.pending = room.pending
      /\ (room'.idleTimer = (peers = {k})) /\ (room'.flushTimer = room.flushTimer)
  BY <1>1 DEF RoomInv, RoomShape
<1> QED BY <1>1, <1>2 DEF RoomInv, RoomShape, GoneIsEmpty, RoomHoldsRow, PeersKeepTheirRoom,
                          Recoverable, Integrated

\* The structs of a peer: those that become integrated are pending.
LEMMA ApplyStep ==
    ASSUME RoomInv, NEW k \in peers, NEW m, ApplyStructs(k, m), UNCHANGED needs
    PROVE  RoomInv' /\ row.state \subseteq row'.state
<1> DEFINE all == room.doc \cup m.structs
           fresh == Integrated(all) \ Integrated(room.doc)
           next == [room EXCEPT !.doc = all, !.pending = @ \cup fresh, !.count = @ + 1]
<1>1. room.live /\ ~room.idleTimer /\ UNCHANGED peers
  BY DEF ApplyStructs, RoomInv, PeersKeepTheirRoom
<1>2. CASE fresh = {}
  <2>1. UNCHANGED row /\ room' = [room EXCEPT !.doc = all]
    BY <1>2 DEF ApplyStructs
  <2>2. /\ DOMAIN room' = DOMAIN room /\ room'.doc = all /\ room'.pending = room.pending
        /\ room'.live /\ ~room'.idleTimer /\ room'.idleTimer \in BOOLEAN
        /\ (room'.flushTimer = room.flushTimer)
    BY <1>1, <2>1 DEF RoomInv, RoomShape
  <2>3. Integrated(room'.doc) \subseteq Integrated(room.doc)
    BY <1>2, <2>2
  <2> HIDE DEF next, fresh
  <2>4. Recoverable'
    BY <2>1, <2>2, <2>3 DEF RoomInv, Recoverable, Integrated
  <2> QED BY <1>1, <2>1, <2>2, <2>4 DEF RoomInv, RoomShape, GoneIsEmpty, RoomHoldsRow,
                                        PeersKeepTheirRoom
<1>3. CASE fresh # {}
  <2>1. /\ DOMAIN next = {"live", "doc", "pending", "count", "idleTimer", "flushTimer"}
        /\ next.live = TRUE /\ next.idleTimer = FALSE /\ (next.flushTimer = room.flushTimer)
    BY <1>1 DEF RoomInv, RoomShape
  <2>2. next.doc = all /\ next.pending = room.pending \cup fresh
    BY DEF RoomInv, RoomShape
  <2>3. /\ row.state \subseteq all /\ room.pending \cup fresh \subseteq all
        /\ ~row.stored => row.state = {}
    BY <1>1, IntegratedSubset DEF RoomInv, RoomHoldsRow
  <2>4. \A s \in Integrated(all) : \/ s \in row.state \cup (room.pending \cup fresh)
                                   \/ ~row.stored /\ s.author = Server
    BY DEF RoomInv, Recoverable, Integrated
  <2>5. \/ FlushRoom(next, FALSE)
        \/ room' = Scheduled(next) /\ UNCHANGED row
    BY <1>3 DEF ApplyStructs
  <2> HIDE DEF next, fresh, all
  <2>6. CASE FlushRoom(next, FALSE)
    <3>1. /\ next.idleTimer \in BOOLEAN /\ next.flushTimer \in BOOLEAN /\ next.live = TRUE
          /\ row.state \subseteq next.doc /\ next.pending \subseteq next.doc
          /\ \A s \in Integrated(next.doc) :
                \/ s \in row.state \cup next.pending
                \/ ~row.stored /\ s.author = Server
      BY <2>1, <2>2, <2>3, <2>4 DEF RoomInv, RoomShape
    <3>2. RoomShape /\ (~row.stored => row.state = {})
      BY <2>3 DEF RoomInv
    <3>3. /\ row.state \subseteq row'.state
          /\ RoomShape' /\ GoneIsEmpty' /\ RoomHoldsRow' /\ Recoverable'
          /\ room'.live /\ ~room'.idleTimer
      BY <2>1, <2>6, <3>1, <3>2, FlushKeeps
    <3> QED BY <1>1, <3>3 DEF RoomInv, PeersKeepTheirRoom
  <2>7. CASE room' = Scheduled(next) /\ UNCHANGED row
    <3>1. /\ DOMAIN room' = DOMAIN next /\ room'.doc = all
          /\ room'.pending = room.pending \cup fresh
          /\ room'.live = TRUE /\ room'.idleTimer = FALSE /\ room'.flushTimer = TRUE
      BY <2>1, <2>2, <2>7 DEF Scheduled
    <3> QED BY <1>1, <2>1, <2>3, <2>4, <2>7, <3>1
            DEF RoomInv, RoomShape, GoneIsEmpty, RoomHoldsRow, PeersKeepTheirRoom, Recoverable, Integrated
  <2> QED BY <2>5, <2>6, <2>7
<1> QED BY <1>2, <1>3

\* The timers and the shutdown flush the room there is.
LEMMA FlushStep ==
    ASSUME RoomInv, FlushTimer \/ IdleTimer \/ Shutdown
    PROVE  RoomInv' /\ row.state \subseteq row'.state
<1>0. UNCHANGED needs
  BY DEF FlushTimer, IdleTimer, Shutdown, ProcessEnds
<1>1. room.live = TRUE
  BY DEF FlushTimer, IdleTimer, Shutdown, RoomInv, RoomShape, GoneIsEmpty
<1>2. ASSUME NEW destroy \in BOOLEAN, FlushRoom(room, destroy)
      PROVE  /\ row.state \subseteq row'.state
             /\ RoomShape' /\ GoneIsEmpty' /\ RoomHoldsRow' /\ Recoverable'
             /\ IF destroy THEN room' = NoRoom
                ELSE room'.live /\ (room'.idleTimer = room.idleTimer)
  BY <1>0, <1>1, <1>2, FlushKeeps DEF RoomInv, RoomShape, RoomHoldsRow, Recoverable, Integrated
<1>3. CASE FlushTimer
  BY <1>2, <1>3 DEF FlushTimer, RoomInv, PeersKeepTheirRoom
<1>4. CASE IdleTimer
  BY <1>2, <1>4 DEF IdleTimer, RoomInv, PeersKeepTheirRoom, NoRoom
<1>5. CASE Shutdown
  BY <1>2, <1>5 DEF Shutdown, ProcessEnds, RoomInv, PeersKeepTheirRoom, NoRoom
<1> QED BY <1>3, <1>4, <1>5

LEMMA CrashStep ==
    ASSUME RoomInv, Crash
    PROVE  RoomInv' /\ row' = row
BY IntegratedEmpty
   DEF Crash, ProcessEnds, NoRoom, RoomInv, RoomShape, GoneIsEmpty, RoomHoldsRow,
       PeersKeepTheirRoom, Recoverable, Integrated

LEMMA RoomUnchanged ==
    ASSUME RoomInv, UNCHANGED <<room, peers, row>>, needs \subseteq needs'
    PROVE  RoomInv' /\ row' = row
BY DEF RoomInv, RoomShape, GoneIsEmpty, RoomHoldsRow, PeersKeepTheirRoom, Recoverable, Integrated

LEMMA RoomStep ==
    ASSUME RoomInv, [Next]_vars
    PROVE  RoomInv' /\ row.state \subseteq row'.state
<1>1. CASE \E c \in Client, access \in Access : Accept(c, access)
  BY <1>1, AcceptStep
<1>2. CASE \E c \in Client : Open(c) \/ Edit(c) \/ ClientReceive(c) \/ Drop(c)
  <2>1. UNCHANGED <<room, peers, row>> /\ needs \subseteq needs'
    BY <1>2 DEF Open, Edit, ClientReceive, Drop, serverVars
  <2> QED BY <2>1, RoomUnchanged
<1>3. CASE \E k \in peers : ServerReceive(k)
  <2> PICK k \in peers : ServerReceive(k) BY <1>3
  <2>0. UNCHANGED needs
    BY DEF ServerReceive
  <2>1. CASE UNCHANGED serverVars
    BY <2>0, <2>1, RoomUnchanged DEF serverVars
  <2>2. CASE ApplyStructs(k, Head(up[k]))
    BY <2>0, <2>2, ApplyStep
  <2> QED BY <2>1, <2>2 DEF ServerReceive, AnswerStep1
<1>4. CASE \E k \in peers : Disconnect(k)
  BY <1>4, DisconnectStep
<1>5. CASE FlushTimer \/ IdleTimer \/ Shutdown
  BY <1>5, FlushStep
<1>6. CASE Crash
  BY <1>6, CrashStep
<1>7. CASE UNCHANGED vars
  BY <1>7, RoomUnchanged DEF vars, serverVars
<1> QED BY <1>1, <1>2, <1>3, <1>4, <1>5, <1>6, <1>7 DEF Next

LEMMA RoomInvHolds == Spec => []RoomInv
<1>1. RoomInv /\ [Next]_vars => RoomInv'
  BY RoomStep
<1> QED BY <1>1, RoomInit, PTL DEF Spec

\* A room with a peer is not destroyed under it, and no idle timer runs then.
THEOREM PeersKeepTheirRoomHolds == Spec => []PeersKeepTheirRoom
<1>1. RoomInv => PeersKeepTheirRoom
  BY DEF RoomInv
<1> QED BY <1>1, RoomInvHolds, PTL

\* What the server integrated is stored or waits to be, in every order of flushes,
\* failed flushes, rebuilt rooms and crashes.
THEOREM RecoverableHolds == Spec => []Recoverable
<1>1. RoomInv => Recoverable
  BY DEF RoomInv
<1> QED BY <1>1, RoomInvHolds, PTL

\* Compaction included, no flush takes out of the row what was stored.
THEOREM StoredForGoodHolds == Spec => StoredForGood
<1>1. RoomInv /\ [Next]_vars => [row.state \subseteq row'.state]_vars
  BY RoomStep
<1> QED BY <1>1, RoomInvHolds, PTL DEF Spec, StoredForGood
=============================================================================
