------------------------ MODULE OfflineOutbox_proofs ------------------------
(***************************************************************************)
(* What holds of the shared outbox for any number of tabs, patches and     *)
(* operations: OutboxInv is inductive, and the four properties follow.     *)
(***************************************************************************)
EXTENDS OfflineOutbox, TLAPS

OutboxTypeOK ==
    /\ idb \in [OutboxEntry -> EntryStatus]
    /\ writing \in [Tab -> SUBSET EngineOp]
    /\ memory \in [Tab -> SUBSET EngineOp]
    /\ acked \in [Tab -> SUBSET EngineOp]
    /\ doomed \in [Tab -> SUBSET EngineOp]
    /\ drain \in [Tab -> DrainState]
    /\ base \in [Patch -> Nat] /\ effects \in [Patch -> Nat] /\ rev \in Nat
    /\ done \subseteq Deletes /\ refused \subseteq OutboxEntry /\ pushed \subseteq EngineOp

\* A patch that took effect raised the revision past the one it carries, and was
\* in IndexedDB.
AppliedRaised ==
    \A p \in Patch : /\ effects[p] <= 1
                     /\ effects[p] = 1 => rev > base[p] /\ idb[p] # "none"

\* A put in flight is that of one tab, and its entry is not in IndexedDB yet.
InFlight ==
    \A t \in Tab : \A o \in writing[t] :
        idb[o] = "none" /\ \A u \in Tab : o \in writing[u] => u = t

\* What a drain holds, and what is to be deleted, was in IndexedDB.
HeldWereStored ==
    \A t \in Tab :
        /\ \A e \in drain[t].left \cup doomed[t] : idb[e] # "none"
        /\ drain[t].at \in {"sending", "ok", "error"} => idb[drain[t].entry] # "none"

\* What a tab may delete: operations that were pushed, and entries about which
\* the server has decided.
Decided(e) ==
    IF e \in Patch THEN effects[e] = 1 \/ e \in refused
    ELSE e \in Ignored \/ e \in done \cup refused
AckedArePushed == \A t \in Tab : acked[t] \cup doomed[t] \subseteq pushed
SyncedIsDecided == \A t \in Tab : drain[t].at = "ok" => Decided(drain[t].entry)

OutboxInv ==
    /\ OutboxTypeOK /\ AppliedRaised /\ InFlight /\ HeldWereStored
    /\ AckedArePushed /\ SyncedIsDecided /\ DropsAreAnswered

-----------------------------------------------------------------------------
\* The entry that a drain is busy with, and those it has left, are entries.
LEMMA DrainParts ==
    ASSUME NEW d \in DrainState
    PROVE  /\ d.left \subseteq OutboxEntry
           /\ d.at \in {"idle", "marking", "stuck", "sending", "ok", "error"}
           /\ d.at \in {"sending", "ok", "error"} => d.entry \in OutboxEntry
BY DEF DrainState

\* What a drain becomes is a state of a drain.
LEMMA DrainMoves ==
    ASSUME NEW d \in DrainState, NEW e \in OutboxEntry, NEW a \in {"ok", "error"}
    PROVE  /\ Idle \in DrainState
           /\ [at |-> "stuck", left |-> {}] \in DrainState
           /\ [at |-> "marking", left |-> d.left] \in DrainState
           /\ [at |-> "sending", left |-> d.left \ {e}, entry |-> e] \in DrainState
           /\ d.at = "sending" => [d EXCEPT !.at = a] \in DrainState
           /\ d.at = "sending" => /\ [d EXCEPT !.at = a].left = d.left
                                  /\ [d EXCEPT !.at = a].entry = d.entry
                                  /\ [d EXCEPT !.at = a].at = a
BY DrainParts DEF DrainState, Idle

LEMMA OutboxInitInv == OutboxInit => OutboxInv
<1> SUFFICES ASSUME OutboxInit PROVE OutboxInv OBVIOUS
<1>1. Idle \in DrainState
  BY DEF DrainState, Idle
<1>2. OutboxTypeOK
  BY <1>1 DEF OutboxInit, OutboxTypeOK, EntryStatus
<1>3. AppliedRaised /\ InFlight /\ AckedArePushed /\ DropsAreAnswered
  BY OutboxAssumption DEF OutboxInit, AppliedRaised, InFlight, AckedArePushed, DropsAreAnswered, OutboxEntry
<1>4. HeldWereStored /\ SyncedIsDecided
  BY DEF OutboxInit, HeldWereStored, SyncedIsDecided, Idle
<1> QED BY <1>2, <1>3, <1>4 DEF OutboxInv

-----------------------------------------------------------------------------
\* The steps outside a drain.
LEMMA PatchOfflineInv ==
    ASSUME OutboxInv, NEW t \in Tab, NEW p \in Patch, NEW b \in Nat, PatchOffline(t, p, b)
    PROVE  OutboxInv'
<1> USE DEF PatchOffline, engineState, serverState, noteState, Deletes, Ignored
<1>1. OutboxTypeOK'
  BY DEF OutboxInv, OutboxTypeOK, EntryStatus, OutboxEntry
<1>2. AppliedRaised'
  BY DEF OutboxInv, OutboxTypeOK, AppliedRaised, OutboxEntry
<1>3. InFlight' /\ DropsAreAnswered'
  BY OutboxAssumption DEF OutboxInv, OutboxTypeOK, InFlight, DropsAreAnswered, OutboxEntry
<1>4. HeldWereStored'
  BY DrainParts, OutboxAssumption DEF OutboxInv, OutboxTypeOK, HeldWereStored, OutboxEntry
<1>5. AckedArePushed' /\ SyncedIsDecided'
  BY DEF OutboxInv, AckedArePushed, SyncedIsDecided, Decided
<1> QED BY <1>1, <1>2, <1>3, <1>4, <1>5 DEF OutboxInv

LEMMA RecordInv ==
    ASSUME OutboxInv, NEW t \in Tab, NEW o \in EngineOp, Record(t, o)
    PROVE  OutboxInv'
<1> USE DEF Record, serverState, noteState, Deletes, Ignored
<1>1. OutboxTypeOK'
  BY DEF OutboxInv, OutboxTypeOK
<1>2. AppliedRaised' /\ HeldWereStored' /\ DropsAreAnswered' /\ AckedArePushed' /\ SyncedIsDecided'
  BY DEF OutboxInv, AppliedRaised, HeldWereStored, DropsAreAnswered, AckedArePushed, SyncedIsDecided,
         Decided
<1>3. InFlight'
  BY DEF OutboxInv, OutboxTypeOK, InFlight
<1> QED BY <1>1, <1>2, <1>3 DEF OutboxInv

LEMMA PutLandsInv ==
    ASSUME OutboxInv, NEW t \in Tab, NEW o \in EngineOp, PutLands(t, o)
    PROVE  OutboxInv'
<1> USE DEF PutLands, engineState, serverState, noteState, Deletes, Ignored
<1>1. OutboxTypeOK'
  BY DEF OutboxInv, OutboxTypeOK, EntryStatus
<1>2. AppliedRaised' /\ InFlight' /\ DropsAreAnswered'
  BY DEF OutboxInv, OutboxTypeOK, AppliedRaised, InFlight, DropsAreAnswered, OutboxEntry
<1>3. HeldWereStored'
  BY DrainParts DEF OutboxInv, OutboxTypeOK, HeldWereStored, OutboxEntry
<1>4. AckedArePushed' /\ SyncedIsDecided'
  BY DEF OutboxInv, AckedArePushed, SyncedIsDecided, Decided
<1> QED BY <1>1, <1>2, <1>3, <1>4 DEF OutboxInv

LEMMA EnvironmentInv ==
    ASSUME OutboxInv, GoOffline \/ GoOnline \/ OtherWriter
    PROVE  OutboxInv'
<1> USE DEF GoOffline, GoOnline, OtherWriter, engineState, serverState, noteState, Deletes, Ignored
<1>1. OutboxTypeOK' /\ AppliedRaised'
  BY DEF OutboxInv, OutboxTypeOK, AppliedRaised
<1>2. InFlight' /\ HeldWereStored' /\ DropsAreAnswered' /\ AckedArePushed' /\ SyncedIsDecided'
  BY DEF OutboxInv, InFlight, HeldWereStored, DropsAreAnswered, AckedArePushed, SyncedIsDecided, Decided
<1> QED BY <1>1, <1>2 DEF OutboxInv

LEMMA PushInv ==
    ASSUME OutboxInv, NEW t \in Tab, NEW arrived \in BOOLEAN, PushMemory(t, arrived)
    PROVE  OutboxInv'
<1> USE DEF PushMemory, noteState, Deletes, Ignored
<1>1. OutboxTypeOK'
  BY DEF OutboxInv, OutboxTypeOK
<1>2. AppliedRaised' /\ InFlight' /\ HeldWereStored' /\ DropsAreAnswered' /\ SyncedIsDecided'
  BY DEF OutboxInv, AppliedRaised, InFlight, HeldWereStored, DropsAreAnswered, SyncedIsDecided, Decided
<1>3. AckedArePushed'
  BY DEF OutboxInv, OutboxTypeOK, AckedArePushed
<1> QED BY <1>1, <1>2, <1>3 DEF OutboxInv

LEMMA AckListInv ==
    ASSUME OutboxInv, NEW t \in Tab, AckList(t)
    PROVE  OutboxInv'
<1> USE DEF AckList, serverState, noteState, Deletes, Ignored
<1>1. OutboxTypeOK'
  BY DEF OutboxInv, OutboxTypeOK
<1>2. AppliedRaised' /\ InFlight' /\ DropsAreAnswered' /\ SyncedIsDecided'
  BY DEF OutboxInv, AppliedRaised, InFlight, DropsAreAnswered, SyncedIsDecided, Decided
<1>3. HeldWereStored' /\ AckedArePushed'
  BY DEF OutboxInv, OutboxTypeOK, HeldWereStored, AckedArePushed
<1> QED BY <1>1, <1>2, <1>3 DEF OutboxInv

LEMMA AckDeleteInv ==
    ASSUME OutboxInv, NEW t \in Tab, NEW e \in OutboxEntry, AckDelete(t, e)
    PROVE  OutboxInv'
<1> USE DEF AckDelete, serverState, noteState, Deletes, Ignored
<1>1. OutboxTypeOK' /\ e \in pushed /\ idb[e] # "none" /\ e \in EngineOp
  BY DEF OutboxInv, OutboxTypeOK, EntryStatus, AckedArePushed, HeldWereStored
<1>2. AppliedRaised' /\ InFlight' /\ DropsAreAnswered'
  BY <1>1, OutboxAssumption
     DEF OutboxInv, OutboxTypeOK, AppliedRaised, InFlight, DropsAreAnswered, OutboxEntry
<1>3. HeldWereStored'
  BY <1>1, DrainParts DEF OutboxInv, OutboxTypeOK, HeldWereStored, OutboxEntry
<1>4. AckedArePushed' /\ SyncedIsDecided'
  BY DEF OutboxInv, OutboxTypeOK, AckedArePushed, SyncedIsDecided, Decided
<1> QED BY <1>1, <1>2, <1>3, <1>4 DEF OutboxInv

LEMMA CloseTabInv ==
    ASSUME OutboxInv, NEW t \in Tab, CloseTab(t)
    PROVE  OutboxInv'
<1> USE DEF CloseTab, serverState, noteState, Deletes, Ignored
<1>1. PICK lost \in SUBSET writing[t] :
        idb' = [e \in OutboxEntry |-> IF e \in lost THEN "lost"
                                ELSE IF e \in writing[t] THEN "pending" ELSE idb[e]]
  OBVIOUS
<1>2. /\ \A e \in OutboxEntry : idb[e] # "none" => idb'[e] = idb[e]
      /\ \A e \in OutboxEntry : idb'[e] = "deleted" => idb[e] = "deleted"
  BY <1>1 DEF OutboxInv, OutboxTypeOK, InFlight, OutboxEntry
<1>3. OutboxTypeOK'
  BY <1>1, DrainMoves DEF OutboxInv, OutboxTypeOK, EntryStatus, DrainState, Idle
<1>4. AppliedRaised' /\ DropsAreAnswered'
  BY <1>2 DEF OutboxInv, OutboxTypeOK, AppliedRaised, DropsAreAnswered, OutboxEntry
<1>5. InFlight'
  BY <1>1 DEF OutboxInv, OutboxTypeOK, InFlight, OutboxEntry
<1>6. HeldWereStored'
  BY <1>2, DrainParts DEF OutboxInv, OutboxTypeOK, HeldWereStored, OutboxEntry, Idle
<1>7. AckedArePushed' /\ SyncedIsDecided'
  BY DEF OutboxInv, OutboxTypeOK, AckedArePushed, SyncedIsDecided, Decided, Idle
<1> QED BY <1>3, <1>4, <1>5, <1>6, <1>7 DEF OutboxInv

LEMMA OpenTabInv ==
    ASSUME OutboxInv, NEW t \in Tab, OpenTab(t)
    PROVE  OutboxInv'
<1> USE DEF OpenTab, serverState, noteState, Deletes, Ignored
<1>1. OutboxTypeOK'
  BY DEF OutboxInv, OutboxTypeOK
<1>2. /\ AppliedRaised' /\ InFlight' /\ HeldWereStored' /\ DropsAreAnswered'
      /\ AckedArePushed' /\ SyncedIsDecided'
  BY DEF OutboxInv, AppliedRaised, InFlight, HeldWereStored, DropsAreAnswered, AckedArePushed,
         SyncedIsDecided, Decided
<1> QED BY <1>1, <1>2 DEF OutboxInv

-----------------------------------------------------------------------------
\* The steps of a drain.
LEMMA DrainStartInv ==
    ASSUME OutboxInv, NEW t \in Tab, DrainStart(t) \/ DrainBreaks(t)
    PROVE  OutboxInv'
<1> DEFINE found == {e \in OutboxEntry : idb[e] = "pending"}
           d == IF DrainStart(t) THEN [at |-> "marking", left |-> found]
                ELSE [at |-> "stuck", left |-> {}]
<1>1. /\ drain' = [drain EXCEPT ![t] = d]
      /\ UNCHANGED <<opKind, idb, writing, engineState, open, online, base, serverState, closes>>
  BY DEF DrainStart, DrainBreaks
<1>2. d \in DrainState /\ d.at \in {"marking", "stuck"} /\ d.left \subseteq found
  BY DEF DrainState
<1> HIDE DEF d
<1> USE DEF engineState, serverState, noteState, Deletes, Ignored
<1>3. OutboxTypeOK'
  BY <1>1, <1>2 DEF OutboxInv, OutboxTypeOK
<1>4. AppliedRaised' /\ InFlight' /\ DropsAreAnswered' /\ AckedArePushed'
  BY <1>1 DEF OutboxInv, AppliedRaised, InFlight, DropsAreAnswered, AckedArePushed
<1>5. HeldWereStored' /\ SyncedIsDecided'
  BY <1>1, <1>2 DEF OutboxInv, OutboxTypeOK, HeldWereStored, SyncedIsDecided, Decided
<1> QED BY <1>3, <1>4, <1>5 DEF OutboxInv

LEMMA DrainMarkInv ==
    ASSUME OutboxInv, NEW t \in Tab, NEW e \in OutboxEntry, DrainMark(t, e)
    PROVE  OutboxInv'
<1> DEFINE d == [at |-> "sending", left |-> drain[t].left \ {e}, entry |-> e]
<1> USE DEF engineState, serverState, noteState, Deletes, Ignored
<1>1. drain' = [drain EXCEPT ![t] = d] /\ drain[t] \in DrainState
  BY DEF DrainMark, OutboxInv, OutboxTypeOK
<1>2. d \in DrainState /\ d.at = "sending" /\ d.left \subseteq drain[t].left /\ d.entry = e
  BY <1>1, DrainMoves
<1>3. e \in drain[t].left /\ idb[e] # "none"
  BY DEF DrainMark, OutboxInv, HeldWereStored
<1>4. /\ idb' \in [OutboxEntry -> EntryStatus]
      /\ \A x \in OutboxEntry : (idb'[x] = "none") = (idb[x] = "none")
      /\ \A x \in OutboxEntry : idb'[x] = "deleted" => idb[x] = "deleted"
  BY DEF DrainMark, Updated, InStore, OutboxInv, OutboxTypeOK, EntryStatus
<1>5. UNCHANGED <<opKind, writing, engineState, open, online, base, serverState, closes>>
  BY DEF DrainMark
<1> HIDE DEF d
<1>6. OutboxTypeOK'
  BY <1>1, <1>2, <1>4, <1>5 DEF OutboxInv, OutboxTypeOK
<1>7. AppliedRaised' /\ InFlight' /\ DropsAreAnswered' /\ AckedArePushed'
  BY <1>4, <1>5 DEF OutboxInv, OutboxTypeOK, AppliedRaised, InFlight, DropsAreAnswered, AckedArePushed,
                    OutboxEntry
<1>8. HeldWereStored'
  BY <1>1, <1>2, <1>3, <1>4, <1>5, DrainParts
     DEF OutboxInv, OutboxTypeOK, HeldWereStored, OutboxEntry
<1>9. SyncedIsDecided'
  BY <1>1, <1>2, <1>5 DEF OutboxInv, OutboxTypeOK, SyncedIsDecided, Decided
<1> QED BY <1>6, <1>7, <1>8, <1>9 DEF OutboxInv

LEMMA DrainSendInv ==
    ASSUME OutboxInv, NEW t \in Tab, NEW reached \in BOOLEAN, NEW arrived \in BOOLEAN,
           DrainSend(t, reached, arrived)
    PROVE  OutboxInv'
<1> USE DEF engineState, Deletes, Ignored
<1>1. drain[t] \in DrainState /\ drain[t].at = "sending"
  BY DEF DrainSend, OutboxInv, OutboxTypeOK
<1>2. PICK e \in OutboxEntry : e = drain[t].entry
  BY <1>1, DrainParts
\* What the request does on the server, and what the tab makes of the answer.
<1>3. PICK answer \in Answers(e) :
         /\ drain' = [drain EXCEPT ![t].at = Outcome(answer, arrived)]
         /\ IF reached THEN Handled(e, answer) ELSE UNCHANGED noteState
  BY <1>2 DEF DrainSend
<1>4. PICK a \in {"ok", "error"} : a = Outcome(answer, arrived)
  BY DEF Outcome
<1>5. PICK d \in DrainState : d = [drain[t] EXCEPT !.at = a]
  BY <1>1, <1>2, DrainMoves
<1>6. d.at = a /\ d.left = drain[t].left /\ d.entry = e
  BY <1>1, <1>2, <1>5, DrainMoves
<1>7. /\ drain' = [drain EXCEPT ![t] = d]
      /\ UNCHANGED <<opKind, idb, writing, engineState, open, online, base, pushed, closes>>
  BY <1>2, <1>4, <1>5, <1>3 DEF DrainSend
<1>8. idb[e] # "none"
  BY <1>1, <1>2 DEF OutboxInv, HeldWereStored
<1>9. /\ answer = "ok" /\ e \in Patch => rev = base[e]
      /\ answer = "error" => e \notin Patch
      /\ e \in Ignored => e \notin Patch /\ answer = "ok"
      /\ a = "ok" => reached /\ answer # "error"
      /\ e \notin Patch \cup Deletes /\ answer # "error" => e \in Ignored
  BY <1>2, <1>4, <1>3, OutboxAssumption DEF Answers, Fresh, Outcome, DrainSend, Ignored
<1>10. \/ /\ e \in Patch /\ rev = base[e]
          /\ rev' = rev + 1 /\ effects' = [effects EXCEPT ![e] = @ + 1]
          /\ UNCHANGED <<done, refused>>
       \/ /\ e \in Deletes /\ rev' \in {rev, rev + 1} /\ done' = done \cup {e}
          /\ UNCHANGED <<effects, refused>>
       \/ refused' = refused \cup {e} /\ UNCHANGED <<rev, effects, done>>
       \/ (a = "ok" => e \in Ignored) /\ UNCHANGED <<rev, effects, done, refused>>
  BY <1>3, <1>9 DEF Handled, noteState
<1>11. /\ rev' \in Nat /\ effects' \in [Patch -> Nat] /\ done' \subseteq Deletes
       /\ refused' \subseteq OutboxEntry
  BY <1>10 DEF OutboxInv, OutboxTypeOK
<1>12. AppliedRaised'
  BY <1>7, <1>8, <1>10 DEF OutboxInv, OutboxTypeOK, AppliedRaised
<1>13. \A x \in OutboxEntry : Decided(x) => Decided(x)'
  <2> SUFFICES ASSUME NEW x \in OutboxEntry, Decided(x) PROVE Decided(x)'
    OBVIOUS
  <2>1. CASE x \in Patch /\ effects[x] = 1
    <3>1. effects'[x] = effects[x] \/ effects'[x] = 2
      BY <2>1, <1>10 DEF OutboxInv, OutboxTypeOK
    <3>2. effects'[x] <= 1
      BY <2>1, <1>12 DEF AppliedRaised
    <3> QED BY <2>1, <3>1, <3>2 DEF Decided
  <2>2. CASE ~(x \in Patch /\ effects[x] = 1)
    BY <2>2, <1>7, <1>10 DEF Decided
  <2> QED BY <2>1, <2>2
<1>14. a = "ok" => Decided(e)'
  <2>1. CASE e \in Patch /\ effects' = [effects EXCEPT ![e] = @ + 1]
    <3>1. effects[e] \in Nat /\ effects'[e] = effects[e] + 1
      BY <2>1 DEF OutboxInv, OutboxTypeOK
    <3>2. effects'[e] <= 1
      BY <2>1, <1>12 DEF AppliedRaised
    <3>3. effects'[e] = 1
      BY <3>1, <3>2
    <3> QED BY <2>1, <3>3 DEF Decided
  <2>2. CASE e \in Deletes /\ done' = done \cup {e}
    BY <2>2, OutboxAssumption DEF Decided
  <2>3. CASE refused' = refused \cup {e}
    BY <2>3 DEF Decided
  <2>4. CASE a = "ok" => e \in Ignored
    BY <2>4, <1>7, OutboxAssumption DEF Decided
  <2> QED BY <1>10, <2>1, <2>2, <2>3, <2>4
<1>15. OutboxTypeOK'
  BY <1>7, <1>11 DEF OutboxInv, OutboxTypeOK
<1>16. InFlight' /\ AckedArePushed'
  BY <1>7 DEF OutboxInv, InFlight, AckedArePushed
<1>17. DropsAreAnswered'
  BY <1>7, <1>10 DEF OutboxInv, DropsAreAnswered
<1>18. HeldWereStored'
  BY <1>6, <1>7, <1>8 DEF OutboxInv, OutboxTypeOK, HeldWereStored
<1>19. SyncedIsDecided'
  <2> SUFFICES ASSUME NEW u \in Tab, drain'[u].at = "ok" PROVE Decided(drain[u].entry)'
    BY DEF SyncedIsDecided
  <2>1. CASE u = t
    <3>1. drain'[u] = d
      BY <2>1, <1>7 DEF OutboxInv, OutboxTypeOK
    <3> QED BY <3>1, <1>6, <1>14 DEF Decided
  <2>2. CASE u # t
    <3>1. drain'[u] = drain[u] /\ drain[u].at = "ok"
      BY <2>2, <1>7 DEF OutboxInv, OutboxTypeOK
    <3>2. drain[u].entry \in OutboxEntry /\ Decided(drain[u].entry)
      BY <3>1, DrainParts DEF OutboxInv, OutboxTypeOK, SyncedIsDecided
    <3> QED BY <3>1, <3>2, <1>13 DEF Decided
  <2> QED BY <2>1, <2>2
<1> QED BY <1>12, <1>15, <1>16, <1>17, <1>18, <1>19 DEF OutboxInv

LEMMA DrainSettleInv ==
    ASSUME OutboxInv, NEW t \in Tab, DrainSettle(t)
    PROVE  OutboxInv'
<1> DEFINE e == drain[t].entry
           d == IF drain[t].left = {} THEN Idle ELSE [at |-> "marking", left |-> drain[t].left]
<1> USE DEF engineState, serverState, noteState, Deletes, Ignored
<1>1. /\ drain[t].at \in {"ok", "error"} /\ drain[t] \in DrainState
      /\ drain' = [drain EXCEPT ![t] = d]
      /\ UNCHANGED <<opKind, writing, engineState, open, online, base, serverState, closes>>
  BY DEF DrainSettle, OutboxInv, OutboxTypeOK
<1>2. e \in OutboxEntry /\ idb[e] # "none"
  BY <1>1, DrainParts DEF OutboxInv, HeldWereStored
<1>3. d \in DrainState /\ d.at \in {"idle", "marking"} /\ d.left \subseteq drain[t].left
  BY <1>1, <1>2, DrainMoves DEF Idle
<1>4. /\ idb' \in [OutboxEntry -> EntryStatus]
      /\ \A x \in OutboxEntry : (idb'[x] = "none") = (idb[x] = "none")
      /\ \A x \in OutboxEntry : idb'[x] = "deleted" => idb[x] = "deleted" \/ Decided(x)
  BY <1>1, <1>2 DEF DrainSettle, Updated, InStore, OutboxInv, OutboxTypeOK, EntryStatus, SyncedIsDecided
<1> HIDE DEF d, e
<1>5. OutboxTypeOK'
  BY <1>1, <1>3, <1>4 DEF OutboxInv, OutboxTypeOK
<1>6. AppliedRaised' /\ InFlight' /\ AckedArePushed'
  BY <1>1, <1>4 DEF OutboxInv, OutboxTypeOK, AppliedRaised, InFlight, AckedArePushed, OutboxEntry
<1>7. DropsAreAnswered'
  BY <1>1, <1>4, OutboxAssumption DEF OutboxInv, OutboxTypeOK, DropsAreAnswered, Decided, OutboxEntry
<1>8. HeldWereStored'
  BY <1>1, <1>3, <1>4, DrainParts DEF OutboxInv, OutboxTypeOK, HeldWereStored, OutboxEntry
<1>9. SyncedIsDecided'
  BY <1>1, <1>3 DEF OutboxInv, OutboxTypeOK, SyncedIsDecided, Decided
<1> QED BY <1>5, <1>6, <1>7, <1>8, <1>9 DEF OutboxInv

-----------------------------------------------------------------------------
LEMMA OutboxStepInv == OutboxInv /\ [OutboxNext]_outboxVars => OutboxInv'
<1> SUFFICES ASSUME OutboxInv, [OutboxNext]_outboxVars PROVE OutboxInv' OBVIOUS
<1>1. CASE \E t \in Tab : \E p \in Patch, b \in 0 .. MaxRev + Cardinality(Patch) : PatchOffline(t, p, b)
  BY <1>1, PatchOfflineInv
<1>2. CASE \E t \in Tab, o \in EngineOp : Record(t, o) \/ PutLands(t, o)
  BY <1>2, RecordInv, PutLandsInv
<1>3. CASE \E t \in Tab, e \in OutboxEntry : DrainMark(t, e) \/ AckDelete(t, e)
  BY <1>3, DrainMarkInv, AckDeleteInv
<1>4. CASE \E t \in Tab : DrainStart(t) \/ DrainBreaks(t) \/ DrainSettle(t)
  BY <1>4, DrainStartInv, DrainSettleInv
<1>5. CASE \E t \in Tab : \E reached, arrived \in BOOLEAN : DrainSend(t, reached, arrived)
  BY <1>5, DrainSendInv
<1>6. CASE \E t \in Tab : \E arrived \in BOOLEAN : PushMemory(t, arrived)
  BY <1>6, PushInv
<1>7. CASE \E t \in Tab : AckList(t) \/ CloseTab(t) \/ OpenTab(t)
  BY <1>7, AckListInv, CloseTabInv, OpenTabInv
<1>8. CASE GoOffline \/ GoOnline \/ OtherWriter
  BY <1>8, EnvironmentInv
<1>9. CASE UNCHANGED outboxVars
  BY <1>9 DEF outboxVars, OutboxInv, OutboxTypeOK, AppliedRaised, InFlight, HeldWereStored,
              AckedArePushed, SyncedIsDecided, Decided, DropsAreAnswered,
              Deletes, Ignored
<1> QED BY <1>1, <1>2, <1>3, <1>4, <1>5, <1>6, <1>7, <1>8, <1>9 DEF OutboxNext

LEMMA OutboxInvHolds == OutboxSpec => []OutboxInv
BY OutboxInitInv, OutboxStepInv, PTL DEF OutboxSpec

\* A patch takes effect at most once, however many tabs drain the outbox and
\* whichever answers are lost: the revision it carries is past by then.
THEOREM PatchAppliesOnceHolds == OutboxSpec => []PatchAppliesOnce
<1>1. OutboxInv => PatchAppliesOnce
  BY DEF OutboxInv, OutboxTypeOK, AppliedRaised, PatchAppliesOnce
<1> QED BY <1>1, OutboxInvHolds, PTL

\* No drain deletes an operation that the engine has not pushed, but for a delete
\* that its route carried out or refused, and one that a route ignores.
THEOREM DropsAreAnsweredHolds == OutboxSpec => []DropsAreAnswered
<1>1. OutboxInv => DropsAreAnswered
  BY DEF OutboxInv
<1> QED BY <1>1, OutboxInvHolds, PTL

\* Only a drain that has its answer, and the acknowledgement of a push, delete.
LEMMA Deletions ==
    ASSUME OutboxInv, [OutboxNext]_outboxVars, NEW e \in OutboxEntry, idb[e] # "deleted",
           idb'[e] = "deleted"
    PROVE  e \in pushed \/ Decided(e)
<1> USE DEF OutboxInv, OutboxTypeOK
<1>1. CASE \E t \in Tab : DrainSettle(t)
  BY <1>1 DEF DrainSettle, Updated, InStore, SyncedIsDecided
<1>2. CASE \E t \in Tab, x \in OutboxEntry : AckDelete(t, x)
  BY <1>2 DEF AckDelete, AckedArePushed
<1>3. CASE \E t \in Tab, x \in OutboxEntry : DrainMark(t, x)
  BY <1>3 DEF DrainMark, Updated
<1>4. CASE \E t \in Tab, o \in EngineOp : PutLands(t, o)
  BY <1>4 DEF PutLands, OutboxEntry
<1>5. CASE \E t \in Tab, p \in Patch, b \in 0 .. MaxRev + Cardinality(Patch) : PatchOffline(t, p, b)
  BY <1>5 DEF PatchOffline, OutboxEntry
<1>6. CASE \E t \in Tab : CloseTab(t)
  BY <1>6 DEF CloseTab
<1>7. CASE UNCHANGED idb
  BY <1>7
<1> QED
  BY <1>1, <1>2, <1>3, <1>4, <1>5, <1>6, <1>7
     DEF OutboxNext, outboxVars, Record, DrainStart, DrainBreaks, DrainSend, PushMemory, AckList,
         OpenTab, GoOffline, GoOnline, OtherWriter

\* What is deleted stays so: no step that writes an entry finds it deleted.
LEMMA StaysDeleted ==
    ASSUME OutboxInv, [OutboxNext]_outboxVars, NEW e \in OutboxEntry, idb[e] = "deleted"
    PROVE  idb'[e] = "deleted"
<1> USE DEF OutboxInv, OutboxTypeOK
<1>1. CASE \E t \in Tab : DrainSettle(t)
  BY <1>1 DEF DrainSettle, Updated, InStore
<1>2. CASE \E t \in Tab, x \in OutboxEntry : AckDelete(t, x) \/ DrainMark(t, x)
  BY <1>2 DEF AckDelete, DrainMark, Updated, InStore
<1>3. CASE \E t \in Tab, o \in EngineOp : PutLands(t, o)
  BY <1>3 DEF PutLands, InFlight
<1>4. CASE \E t \in Tab, p \in Patch, b \in 0 .. MaxRev + Cardinality(Patch) : PatchOffline(t, p, b)
  BY <1>4 DEF PatchOffline
<1>5. CASE \E t \in Tab : CloseTab(t)
  BY <1>5 DEF CloseTab, InFlight
<1>6. CASE UNCHANGED idb
  BY <1>6
<1> QED
  BY <1>1, <1>2, <1>3, <1>4, <1>5, <1>6
     DEF OutboxNext, outboxVars, Record, DrainStart, DrainBreaks, DrainSend, PushMemory, AckList,
         OpenTab, GoOffline, GoOnline, OtherWriter

\* A patch leaves IndexedDB only when the server has effects or refused it,
\* whichever tab removes it.
THEOREM RemovedIsDecidedHolds == OutboxSpec => RemovedIsDecided
<1>1. ASSUME OutboxInv, [OutboxNext]_outboxVars
      PROVE  [\A p \in Patch : InStore(p) /\ idb'[p] = "deleted"
                => effects[p] = 1 \/ p \in refused]_outboxVars
  <2> SUFFICES ASSUME NEW p \in Patch, InStore(p), idb'[p] = "deleted"
               PROVE  effects[p] = 1 \/ p \in refused
    OBVIOUS
  <2>1. p \in OutboxEntry /\ p \notin pushed
    BY <1>1, OutboxAssumption DEF OutboxEntry, OutboxInv, OutboxTypeOK
  <2> QED BY <1>1, <2>1, Deletions DEF InStore, Decided
<1> QED BY <1>1, OutboxInvHolds, PTL DEF OutboxSpec, RemovedIsDecided

\* No tab brings back an entry that another deleted.
THEOREM DeletedForGoodHolds == OutboxSpec => DeletedForGood
<1>1. ASSUME OutboxInv, [OutboxNext]_outboxVars
      PROVE  [\A e \in OutboxEntry : idb[e] = "deleted" => idb'[e] = "deleted"]_outboxVars
  BY <1>1, StaysDeleted
<1> QED BY <1>1, OutboxInvHolds, PTL DEF OutboxSpec, DeletedForGood
=============================================================================
