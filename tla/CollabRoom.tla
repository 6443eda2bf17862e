----------------------------- MODULE CollabRoom -----------------------------
(***************************************************************************)
(* Live co-editing of one note: CollabService (apps/server/src/collab) and *)
(* the CollabProvider of each browser tab (apps/web/src/collab).           *)
(*                                                                         *)
(* A Yjs document is the set of the structs it holds; a struct is named by *)
(* its author and its clock, merging documents is union.  A struct needs   *)
(* the earlier ones of its author and those that it was typed next to,     *)
(* whoever their author is; Yjs integrates it once all of them are there   *)
(* and keeps it aside until then.  What a struct inserts or deletes, and   *)
(* the awareness messages, are left out.  A struct of author Server is the *)
(* insertion of the note's body, never empty here, that seeds a document.  *)
(*                                                                         *)
(* The socket of a connection is a pair of FIFO queues.  When it breaks,   *)
(* the tab notices at once; the server still reads a prefix of what was on *)
(* its way and notices later, maybe after the tab has connected again.     *)
(***************************************************************************)
EXTENDS Naturals, Sequences, FiniteSets

CONSTANTS
    Client,              \* sessions of the editor: one Y.Doc each
    Server,              \* the author of the structs that seed a document
    FlushCount,          \* FLUSH_UPDATE_COUNT
    CompactionThreshold, \* CRDT_COMPACTION_THRESHOLD
    MaxEdits,            \* bound: edits in a behaviour
    MaxConnections,      \* bound: sockets accepted in a behaviour
    MaxFailures,         \* bound: flushes that the database refuses
    MaxStops             \* bound: crashes and shutdowns of the server

ASSUME CollabAssumption ==
    /\ Server \notin Client
    /\ {FlushCount, CompactionThreshold} \subseteq Nat \ {0}
    /\ {MaxEdits, MaxConnections, MaxFailures, MaxStops} \subseteq Nat

Connection == 1 .. MaxConnections

Access == {"edit", "read"}

VARIABLES
    room,        \* the entry of rooms for the note
    peers,       \* the connections in room.peers
    row,         \* the note's row of crdt_docs
    doc,         \* the Y.Doc of each session
    socket,      \* the connection each session holds, 0 when it has none
    opened,      \* the sessions whose socket has fired 'open'
    joined,      \* the connections made so far: whose, and with what access
    up, down,    \* what travels to the server and back, per connection
    rooms,       \* how many rooms were created so far
    needs,       \* the pairs of a struct and one that it needs
    edits, failures, stops

serverVars == <<room, peers, row, rooms, failures>>
clientVars == <<doc, socket, opened>>
vars == <<serverVars, clientVars, joined, up, down, needs, edits, stops>>

-----------------------------------------------------------------------------
Struct == [author : Client \cup {Server}, clock : 1 .. MaxEdits + MaxConnections]

\* The structs of S that Yjs has integrated: what they need is in S as well.  Each
\* seed has an author of its own in Yjs and an empty document around it: it needs
\* nothing.
Integrated(S) == {s \in S : \A n \in needs : n[1] = s => n[2] \in S}

\* The body of the note is at most once in S.
OneBody(S) == \A s, t \in S : s.author = Server /\ t.author = Server => s = t

Step1(S) == [type |-> "step1", structs |-> Integrated(S)]
Step2(S) == [type |-> "step2", structs |-> S]
Update(S) == [type |-> "update", structs |-> S]

NoRoom == [live |-> FALSE, doc |-> {}, pending |-> {}, count |-> 0,
           idleTimer |-> FALSE, flushTimer |-> FALSE]
NoRow == [stored |-> FALSE, state |-> {}, count |-> 0]

-----------------------------------------------------------------------------
(* Rooms and their persistence.                                            *)

\* seedDocFromBody: the note's body, by an author that is new each time.
SeededDoc == {[author |-> Server, clock |-> rooms + 1]}

\* A room is loaded from the row, else seeded.  The update listener is attached
\* after that: what was loaded is not pending.
NewRoom == [NoRoom EXCEPT !.live = TRUE,
                          !.doc = IF row.stored THEN row.state ELSE SeededDoc]

\* Mutants: the idle timer is left running; the row is not looked at.
JoinedRoomIdle == IF room.live THEN room ELSE NewRoom
JoinedRoomSeeded == IF room.live THEN [room EXCEPT !.idleTimer = FALSE]
                    ELSE [NewRoom EXCEPT !.doc = SeededDoc]

\* getOrCreateRoom: the idle timer of an existing room is cancelled.
JoinedRoom == IF room.live THEN [room EXCEPT !.idleTimer = FALSE] ELSE NewRoom

\* handleDisconnect: the last peer to leave starts the idle timer.
LeftRoomEarly(k) == [room EXCEPT !.idleTimer = @ \/ peers = {}]  \* mutant
LeftRoom(k) == [room EXCEPT !.idleTimer = @ \/ peers = {k}]

\* scheduleFlush below FlushCount: a timer, unless one is armed.
ScheduledLate(r) == [r EXCEPT !.flushTimer = @ \/ r.count > 1]  \* mutant
Scheduled(r) == [r EXCEPT !.flushTimer = TRUE]

\* Mutants: only the pending updates are written; the counter goes down.
FlushedRowPending(r) ==
    [stored |-> TRUE, state |-> row.state \cup r.pending, count |-> row.count + r.count]
FlushedRowDown(r) ==
    [stored |-> TRUE, state |-> r.doc, count |-> row.count - r.count]

\* The row after the pending updates of r are merged into it.
FlushedRow(r) ==
    LET count == row.count + r.count
        full  == count >= CompactionThreshold
    IN [stored |-> TRUE,
        state  |-> IF full \/ ~row.stored THEN r.doc ELSE row.state \cup r.pending,
        count  |-> IF full THEN 0 ELSE count]

\* flushRoom of r, after which the room is r or is destroyed: the flush timer
\* is cleared, and what the database refuses is put back.
FlushRoom(r, destroy) ==
    LET left(x) == IF destroy THEN NoRoom ELSE x
        idle == [r EXCEPT !.flushTimer = FALSE]
    IN \/ /\ r.count = 0
          /\ room' = left(idle)
          /\ UNCHANGED <<row, failures>>
       \/ /\ r.count > 0
          /\ row' = FlushedRow(r)
          /\ room' = left([idle EXCEPT !.pending = {}, !.count = 0])
          /\ UNCHANGED failures
       \/ /\ r.count > 0 /\ failures < MaxFailures
          /\ failures' = failures + 1
          /\ room' = left(idle)
          /\ UNCHANGED row

-----------------------------------------------------------------------------
(* Connections.                                                            *)

\* handleConnection: an owner or a guest with an edit share, or a guest with
\* a read share, joins the room.
Accept(c, access) ==
    /\ socket[c] = 0
    /\ Len(joined) < MaxConnections
    /\ LET k == Len(joined) + 1 IN
       /\ joined' = Append(joined, [client |-> c, access |-> access])
       /\ socket' = [socket EXCEPT ![c] = k]
       /\ peers' = peers \cup {k}
       /\ room' = JoinedRoom
       /\ rooms' = IF room.live THEN rooms ELSE rooms + 1
       /\ down' = [down EXCEPT ![k] = <<Step1(JoinedRoom.doc)>>]
    /\ UNCHANGED <<row, failures, doc, opened, up, needs, edits, stops>>

\* Mutant: the tab waits for the server to begin.
OpenSilent(c) ==
    /\ socket[c] # 0 /\ c \notin opened
    /\ opened' = opened \cup {c}
    /\ UNCHANGED <<serverVars, doc, socket, joined, up, down, needs, edits, stops>>

\* The tab's 'open' event: it asks for what it misses.
Open(c) ==
    /\ socket[c] # 0 /\ c \notin opened
    /\ opened' = opened \cup {c}
    /\ up' = [up EXCEPT ![socket[c]] = Append(@, Step1(doc[c]))]
    /\ UNCHANGED <<serverVars, doc, socket, joined, down, needs, edits, stops>>

\* The socket breaks, or the session ends (disable(): then it never connects
\* again).  Of what c had sent, the server still reads a prefix.
Drop(c) ==
    LET k == socket[c] IN
    /\ k # 0
    /\ socket' = [socket EXCEPT ![c] = 0]
    /\ opened' = opened \ {c}
    /\ down' = [down EXCEPT ![k] = <<>>]
    /\ \E n \in 0 .. Len(up[k]) : up' = [up EXCEPT ![k] = SubSeq(@, 1, n)]
    /\ UNCHANGED <<serverVars, doc, joined, needs, edits, stops>>

\* The server reads the close of a socket after all that came before it.
Disconnect(k) ==
    /\ k \in peers
    /\ socket[joined[k].client] # k /\ up[k] = <<>>
    /\ peers' = peers \ {k}
    /\ room' = LeftRoom(k)
    /\ UNCHANGED <<row, rooms, failures, clientVars, joined, up, down, needs, edits, stops>>

-----------------------------------------------------------------------------
(* Messages.                                                               *)

\* Where c can type: next to one struct or between two (origin and rightOrigin),
\* or anywhere in an empty document.
Places(c) ==
    LET S == Integrated(doc[c]) IN
    {P \in SUBSET S : Cardinality(P) \in 1 .. 2 \/ S = {}}

Own(c) == {s \in doc[c] : s.author = c}

\* What a struct needs that is typed after those of S: these, and all that they need.
Before(S) == S \cup {n[2] : n \in {d \in needs : d[1] \in S}}

Edit(c) ==
    LET s == [author |-> c, clock |-> Cardinality(Own(c)) + 1]
    IN /\ edits < MaxEdits
       /\ edits' = edits + 1
       /\ \E P \in Places(c) : needs' = needs \cup ({s} \X Before(Own(c) \cup P))
       /\ doc' = [doc EXCEPT ![c] = @ \cup {s}]
       /\ up' = IF c \in opened THEN [up EXCEPT ![socket[c]] = Append(@, Update({s}))]
                ELSE up
       /\ UNCHANGED <<serverVars, socket, opened, joined, down, stops>>

ClientReceive(c) ==
    LET k == socket[c]
        m == Head(down[k])
    IN /\ c \in opened /\ down[k] # <<>>
       /\ down' = [down EXCEPT ![k] = Tail(@)]
       /\ IF m.type = "step1"
          THEN /\ up' = [up EXCEPT ![k] = Append(@, Step2(doc[c] \ m.structs))]
               /\ UNCHANGED doc
          ELSE /\ doc' = [doc EXCEPT ![c] = @ \cup m.structs]
               /\ UNCHANGED up
       /\ UNCHANGED <<serverVars, socket, opened, joined, needs, edits, stops>>

\* A peer asks for what it misses: it gets it, and the server's own vector again.
AnswerStep1(k, m) ==
    /\ down' = IF socket[joined[k].client] = k
               THEN [down EXCEPT ![k] = @ \o <<Step2(room.doc \ m.structs), Step1(room.doc)>>]
               ELSE down
    /\ UNCHANGED serverVars

\* A peer's structs join the document.  Those that become integrated are one
\* update event: it is pending, goes to every other peer, and is flushed at
\* once when FlushCount of them wait, else when the timer fires.
ApplyStructs(k, m) ==
    LET all   == room.doc \cup m.structs
        fresh == Integrated(all) \ Integrated(room.doc)
        next  == [room EXCEPT !.doc = all,
                              !.pending = @ \cup fresh,
                              !.count = @ + 1]
    IN IF fresh = {}
       THEN /\ room' = [room EXCEPT !.doc = all]
            /\ UNCHANGED <<peers, row, rooms, failures, down>>
       ELSE /\ down' = [j \in Connection |->
                          IF j \in peers \ {k} /\ socket[joined[j].client] = j
                          THEN Append(down[j], Update(fresh)) ELSE down[j]]
            /\ IF next.count >= FlushCount
               THEN FlushRoom(next, FALSE)
               ELSE /\ room' = Scheduled(next)
                    /\ UNCHANGED <<row, failures>>
            /\ UNCHANGED <<peers, rooms>>

\* A message of k is turned away: read access allows step1 only.
RefusedUpdates(k, m) == joined[k].access = "read" /\ m.type = "update"  \* mutant
Refused(k, m) == joined[k].access = "read" /\ m.type \in {"step2", "update"}

ServerReceive(k) ==
    LET m == Head(up[k]) IN
    /\ k \in peers /\ up[k] # <<>>
    /\ up' = [up EXCEPT ![k] = Tail(@)]
    /\ \/ Refused(k, m) /\ UNCHANGED <<serverVars, down>>
       \/ m.type = "step1" /\ AnswerStep1(k, m)
       \/ m.type # "step1" /\ ~Refused(k, m) /\ ApplyStructs(k, m)
    /\ UNCHANGED <<clientVars, joined, needs, edits, stops>>

-----------------------------------------------------------------------------
(* Timers and the end of the process.                                      *)

FlushTimer ==
    /\ room.flushTimer
    /\ FlushRoom(room, FALSE)
    /\ UNCHANGED <<peers, rooms, clientVars, joined, up, down, needs, edits, stops>>

\* Mutant: the room is destroyed without a flush.
IdleTimerForgets ==
    /\ room.idleTimer
    /\ peers = {}
    /\ room' = NoRoom
    /\ UNCHANGED <<row, failures, peers, rooms, clientVars, joined, up, down, needs, edits, stops>>

IdleTimer ==
    /\ room.idleTimer
    /\ peers = {}
    /\ FlushRoom(room, TRUE)
    /\ UNCHANGED <<peers, rooms, clientVars, joined, up, down, needs, edits, stops>>

\* Every socket ends with the process; the next one starts without a room.
ProcessEnds ==
    /\ stops < MaxStops
    /\ stops' = stops + 1
    /\ peers' = {}
    /\ socket' = [c \in Client |-> 0]
    /\ opened' = {}
    /\ up' = [k \in Connection |-> <<>>]
    /\ down' = [k \in Connection |-> <<>>]
    /\ UNCHANGED <<rooms, doc, joined, needs, edits>>

Crash ==
    /\ ProcessEnds
    /\ room' = NoRoom
    /\ UNCHANGED <<row, failures>>

Shutdown ==
    /\ room.live
    /\ ProcessEnds
    /\ FlushRoom(room, TRUE)

-----------------------------------------------------------------------------
Init ==
    /\ room = NoRoom /\ row = NoRow
    /\ peers = {} /\ joined = <<>>
    /\ doc = [c \in Client |-> {}]
    /\ socket = [c \in Client |-> 0]
    /\ opened = {}
    /\ up = [k \in Connection |-> <<>>]
    /\ down = [k \in Connection |-> <<>>]
    /\ rooms = 0 /\ failures = 0 /\ needs = {} /\ edits = 0 /\ stops = 0

Next ==
    \/ \E c \in Client, access \in Access : Accept(c, access)
    \/ \E c \in Client : Open(c) \/ Edit(c) \/ ClientReceive(c)
    \/ \E c \in Client : Drop(c)
    \/ \E k \in peers : ServerReceive(k) \/ Disconnect(k)
    \/ FlushTimer \/ IdleTimer \/ Crash \/ Shutdown

Spec == Init /\ [][Next]_vars

\* An armed timer fires (Node's event loop).  Nothing is assumed of sockets.
Fairness == WF_vars(FlushTimer) /\ WF_vars(IdleTimer)

FairSpec == Spec /\ Fairness

-----------------------------------------------------------------------------
(* Properties.                                                             *)

Doc == SUBSET Struct
Message == [type : {"step1", "step2", "update"}, structs : Doc]

\* The type invariant.
CollabTypeOK ==
    /\ room \in [live : BOOLEAN, doc : Doc, pending : Doc, count : Nat,
                 idleTimer : BOOLEAN, flushTimer : BOOLEAN]
    /\ row \in [stored : BOOLEAN, state : Doc, count : Nat]
    /\ peers \subseteq DOMAIN joined
    /\ joined \in Seq([client : Client, access : Access]) /\ Len(joined) <= MaxConnections
    /\ doc \in [Client -> Doc]
    /\ socket \in [Client -> {0} \cup DOMAIN joined]
    /\ opened \subseteq Client
    /\ up \in [Connection -> Seq(Message)] /\ down \in [Connection -> Seq(Message)]
    /\ needs \subseteq Struct \X Struct
    /\ {rooms, failures, edits, stops} \subseteq Nat

\* Whatever the server has integrated is in the row or still pending for it,
\* but for the seed of a note that was never stored: a room that is destroyed
\* or rebuilt after a flush loses nothing (getOrCreateRoom, flushRoom).
Recoverable ==
    \A s \in Integrated(room.doc) :
        \/ s \in row.state \cup room.pending
        \/ ~row.stored /\ s.author = Server

\* Compaction replaces the row by the room's document: that never takes out a
\* struct that was stored, whatever room wrote it (flushRoom).
StoredForGood == [][row.state \subseteq row'.state]_vars

\* A tab with nothing in flight agrees with the room, however its edits crossed the
\* handshake (CollabProvider, handleConnection): if it may edit, the room has what it
\* has; and it has what the room has, unless the server has lost updates before, or
\* the body is in the room twice (SeededOnce): then a tab can have brought what others'
\* structs were waiting for, and the room sends those to everyone but this tab.
SyncedPeersAgree ==
    \A c \in opened :
        LET k == socket[c] IN
        up[k] = <<>> /\ down[k] = <<>> =>
            /\ joined[k].access = "edit" => Integrated(doc[c]) \subseteq Integrated(room.doc)
            /\ stops = 0 /\ failures = 0 /\ OneBody(room.doc) =>
                  Integrated(room.doc) \subseteq Integrated(doc[c])

\* A room with a peer is never destroyed under it: the idle timer that an
\* earlier departure started does not survive a new arrival.
PeersKeepTheirRoom ==
    /\ peers # {} => room.live
    /\ room.idleTimer => peers = {}

\* What a session typed that only ever joined with read access reaches nobody:
\* not the room, not the row, not another tab, through no kind of message.
ReadOnlyReachesNobody ==
    \A c \in Client :
        (\A k \in DOMAIN joined : joined[k].client = c => joined[k].access = "read") =>
            \A s \in room.doc \cup row.state \cup UNION {doc[d] : d \in Client \ {c}} :
                s.author # c

\* An update that waits to be stored is dropped only when the database refuses
\* the last flush of its room, or the process dies (destroyRoom, shutdown).
PendingIsKept ==
    [][\/ room.pending \subseteq row'.state \cup room'.pending
       \/ failures' > failures
       \/ Crash]_vars

\* Pending updates are stored in the end, unless the database refused a flush
\* (then nothing starts the flush timer again) or the process ended.
PendingIsStored == room.pending # {} ~> room.pending = {} \/ failures > 0

\* A room that everyone has left is destroyed in the end, or joined again.
EmptyRoomEnds == room.live /\ peers = {} ~> ~room.live \/ peers # {}

\* crdt.ts says of seeding: "Only inserts text if the doc is empty to avoid
\* duplication".  No document holds the body twice.
SeededOnce ==
    \A S \in {room.doc, row.state} \cup {doc[c] : c \in Client} : OneBody(S)
=============================================================================
