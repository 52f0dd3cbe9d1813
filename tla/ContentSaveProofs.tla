------------------------- MODULE ContentSaveProofs -------------------------
(***************************************************************************)
(* What TLAPS proves of ContentSave, for every set of words and every      *)
(* bound: the types, that a clean body is the bytes it is filed under,     *)
(* that no save of a living entry ever loses another writer's word or the  *)
(* user's own, and that a basis never goes back.                           *)
(***************************************************************************)
EXTENDS ContentSave, TLAPS

Foreign(d) == d \cap Theirs

----------------------------------------------------------------------------
(***************************************************************************)
(* The inductive invariant, in named parts.                                *)
(***************************************************************************)

\* Every version named by the client is one the node has reached, and bytes
\* filed under a version are that version's bytes.
EntryFiled ==
    /\ entry.dirty => entry.held
    /\ ~entry.held => entry.base = 0
    /\ entry.base <= version
    /\ entry.held /\ ~entry.dirty => entry.base >= 1 /\ entry.data = hist[entry.base]

AnswerFiled ==
    flight.phase = "landed" => flight.answer \in 1..version /\ hist[flight.answer] = flight.data

ReadFiled ==
    read.phase = "answered" => read.base \in 1..version /\ read.data = hist[read.base]

GridReadFiled == gridRead.phase = "answered" => gridRead.row \in 1..version

ChainRuns == ~Writing => queue = <<>>

Filed == EntryFiled /\ AnswerFiled /\ ReadFiled /\ GridReadFiled /\ ChainRuns

\* Bytes that derive from the entry's basis hold just the foreign words of
\* the version that basis names.
Derives(d) == entry.base > 0 => Foreign(d) = Foreign(hist[entry.base])

EntryKept ==
    entry.held => /\ Derives(entry.data)
                  /\ Derives(editor)
                  /\ entry.base > 0 => read.phase = "idle"

QueueKept ==
    \A i \in DOMAIN queue : ~queue[i].orphan => entry.held /\ Derives(queue[i].data)

FlightKept ==
    /\ Writing /\ ~flight.orphan =>
         entry.held /\ flight.claim = entry.base /\ Derives(flight.data)
    /\ flight.phase = "landed" => ~flight.orphan /\ flight.claim > 0

StrayKept ==
    \A s \in stray : ~s.orphan /\ s.claim > 0 =>
        s.claim <= version /\ Foreign(s.data) = Foreign(hist[s.claim])

Kept == ~tainted => NoLostUpdate /\ EntryKept /\ QueueKept /\ FlightKept /\ StrayKept

IInv == TypeOK /\ Filed /\ Kept

----------------------------------------------------------------------------
(***************************************************************************)
(* The operators the actions are built from.                               *)
(***************************************************************************)

\* A body is kept as it is or dropped whole.
LEMMA AgedIs ==
    ASSUME NEW e, NEW v
    PROVE  Aged(e, v) = e \/ Aged(e, v) = NoEntry
BY DEF Aged

\* An entry not held is an entry.
LEMMA NoEntryType == NoEntry \in Entry
BY BoundsAssumption DEF NoEntry, Entry, Document

\* Aging an entry leaves one.
LEMMA AgedType ==
    ASSUME NEW e \in Entry, NEW v
    PROVE  Aged(e, v) \in Entry
BY AgedIs, NoEntryType

\* A taken save leaves an entry.
LEMMA SavedType ==
    ASSUME NEW e \in Entry, NEW d \in Document, NEW v \in Version
    PROVE  Saved(e, d, v) \in Entry
<1>1. v \in 0..MaxVersion
  BY BoundsAssumption DEF Version
<1>2. [e EXCEPT !.base = v, !.filed = v] \in Entry
  BY <1>1 DEF Entry
<1>3. [held |-> TRUE, data |-> d, base |-> v, filed |-> v, dirty |-> FALSE] \in Entry
  BY <1>1 DEF Entry
<1> QED BY <1>2, <1>3 DEF Saved

\* A save sent with an entry is a save under way.
LEMMA SentType ==
    ASSUME NEW s \in Save, NEW e \in Entry
    PROVE  Sent(s, e) \in Flight
BY BoundsAssumption DEF Sent, SaveClaim, Save, Entry, Flight, Version

\* Marking the waiting saves changes only their mark.
LEMMA OrphansType ==
    ASSUME NEW q \in Seq(Save)
    PROVE  /\ Orphans(q) \in Seq(Save)
           /\ Len(Orphans(q)) = Len(q)
           /\ \A i \in DOMAIN Orphans(q) : Orphans(q)[i].orphan
<1>1. ASSUME NEW s \in Save PROVE [s EXCEPT !.orphan = TRUE] \in Save
  BY DEF Save
<1>2. Orphans(q) \in [1..Len(q) -> Save]
  <2>1. \A i \in 1..Len(q) : q[i] \in Save
    OBVIOUS
  <2> QED BY <1>1, <2>1 DEF Orphans
<1>3. Orphans(q) \in Seq(Save) /\ Len(Orphans(q)) = Len(q)
  BY <1>2
<1>4. \A i \in DOMAIN Orphans(q) : Orphans(q)[i].orphan
  <2>1. ASSUME NEW s \in Save PROVE [s EXCEPT !.orphan = TRUE].orphan
    BY DEF Save
  <2>2. DOMAIN Orphans(q) = 1..Len(q) /\ \A i \in 1..Len(q) : q[i] \in Save
    BY DEF Orphans
  <2>3. ASSUME NEW i \in 1..Len(q) PROVE Orphans(q)[i].orphan
    BY <2>1, <2>2 DEF Orphans
  <2> QED BY <2>2, <2>3
<1> QED BY <1>3, <1>4


\* A write leaves every earlier version as it was and ends at its own bytes.
LEMMA CommitGrows ==
    ASSUME TypeOK, NEW d \in Document, Commit(d)
    PROVE  /\ version' \in Version /\ version <= version'
           /\ hist' \in [Version -> Document]
           /\ wire' \subseteq 1..version'
           /\ hist'[version'] = d
           /\ \A v \in 1..version : hist'[v] = hist[v]
           /\ \A v \in 1..version' : v \in 1..version \/ v = version'
<1>1. CASE d = Body
  <2>1. version' = version /\ hist' = hist /\ wire' = wire
    BY <1>1 DEF Commit
  <2> QED BY <1>1, <2>1, BoundsAssumption DEF TypeOK, Body, Version
<1>2. CASE d # Body
  <2>1. version + 1 \in Version /\ version' = version + 1
    BY <1>2, BoundsAssumption DEF Commit, TypeOK, Version
  <2>2. hist' = [hist EXCEPT ![version + 1] = d] /\ wire' = wire \cup {version + 1}
    BY <1>2 DEF Commit
  <2> QED BY <2>1, <2>2 DEF TypeOK, Version
<1> QED BY <1>1, <1>2

\* What the end of a save leaves: the entry it was given or none, the chain
\* one save on, and no version the node has not reached.
LEMMA EndSaveSound ==
    ASSUME TypeOK, Filed,
           NEW e \in Entry, NEW rw \in 1..version,
           e.dirty => e.held, ~e.held => e.base = 0, e.base <= version,
           e.held /\ ~e.dirty => e.base >= 1 /\ e.data = hist[e.base],
           EndSave(e, rw), UNCHANGED node
    PROVE  /\ entry' \in Entry /\ owed' \in BOOLEAN /\ row' \in 1..version'
           /\ queue' \in Seq(Save) /\ flight' \in Flight
           /\ EntryFiled' /\ AnswerFiled' /\ ChainRuns'
<1> DEFINE kept  == Aged(e, rw)
           saves == IF entry.held /\ ~kept.held THEN Orphans(queue) ELSE queue
<1>1. kept \in Entry /\ (kept = e \/ kept = NoEntry)
  BY AgedIs, AgedType
<1>2. entry' = kept /\ owed' = e.dirty /\ row' = rw /\ version' = version /\ hist' = hist
  BY DEF EndSave, node
<1>3. EntryFiled'
  BY <1>1, <1>2 DEF EntryFiled, NoEntry, TypeOK, Version
<1>4. queue \in Seq(Save)
  BY DEF TypeOK
<1>5. saves \in Seq(Save) /\ Len(saves) = Len(queue)
  BY <1>4, OrphansType
<1>6. CASE queue = <<>>
  <2>1. flight' = Idle /\ queue' = <<>>
    BY <1>6 DEF EndSave
  <2>2. Idle \in Flight /\ Idle.phase = "idle"
    BY BoundsAssumption DEF Idle, Flight, Document
  <2> QED BY <1>1, <1>2, <1>3, <2>1, <2>2 DEF AnswerFiled, ChainRuns, Writing, Entry
<1>7. CASE queue # <<>>
  <2>1. flight' = Sent(Head(saves), kept) /\ queue' = Tail(saves)
    BY <1>7 DEF EndSave
  <2>2. Len(queue) > 0
    BY <1>4, <1>7
  <2>3. Head(saves) \in Save /\ Tail(saves) \in Seq(Save)
    BY <1>5, <2>2
  <2>4. flight' \in Flight /\ flight'.phase = "sent"
    BY <1>1, <2>1, <2>3, SentType DEF Sent
  <2> QED BY <1>1, <1>2, <1>3, <2>1, <2>3, <2>4 DEF AnswerFiled, ChainRuns, Writing, Entry
<1> QED BY <1>6, <1>7


\* A flush joins the chain, or starts it.
LEMMA EnqueueSound ==
    ASSUME TypeOK, ChainRuns, Enqueue
    PROVE  /\ queue' \in Seq(Save) /\ flight' \in Flight
           /\ flight' = flight \/ flight'.phase = "sent"
           /\ ChainRuns'
<1> DEFINE s == [data |-> entry.data, row |-> row, orphan |-> FALSE]
<1>1. s \in Save
  BY BoundsAssumption DEF TypeOK, Entry, Save, Version
<1>2. CASE Writing
  <2>1. queue' = Append(queue, s) /\ flight' = flight
    BY <1>2 DEF Enqueue
  <2> QED BY <1>1, <1>2, <2>1 DEF TypeOK, ChainRuns, Writing
<1>3. CASE ~Writing
  <2>1. flight' = Sent(s, entry) /\ queue' = queue
    BY <1>3 DEF Enqueue
  <2>2. flight' \in Flight /\ flight'.phase = "sent"
    BY <1>1, <2>1, SentType DEF TypeOK, Sent
  <2> QED BY <1>3, <2>1, <2>2 DEF TypeOK, ChainRuns, Writing
<1> QED BY <1>2, <1>3

----------------------------------------------------------------------------
(***************************************************************************)
(* Types, and bytes filed under versions the node has reached.             *)
(***************************************************************************)

\* The types and Filed hold at the start.
LEMMA InitSound == Init => TypeOK /\ Filed
<1> SUFFICES ASSUME Init PROVE TypeOK /\ Filed
  OBVIOUS
<1> USE BoundsAssumption
<1>1. entry \in Entry /\ flight \in Flight /\ read \in Read /\ gridRead \in GridRead
  BY DEF Init, NoEntry, Entry, Idle, Flight, NoRead, Read, NoGridRead, GridRead, Document
<1>2. TypeOK
  <2>1. {} \in Document /\ <<>> \in Seq(Save) /\ 1 \in Version
    BY DEF Document, Version
  <2>2. version = 1 /\ row = 1 /\ lost = 0 /\ hist = [v \in Version |-> {}]
    BY DEF Init
  <2>3. hist \in [Version -> Document]
    BY <2>1, <2>2
  <2>4. wire = {} /\ stray = {} /\ typed = {} /\ erased = {} /\ refused = {} /\ editor = {}
        /\ queue = <<>> /\ armed = FALSE /\ owed = FALSE /\ tainted = FALSE
    BY DEF Init
  <2>5. version \in Version /\ row \in 1..version /\ lost \in 0..MaxLost
    BY <2>1, <2>2
  <2>6. wire \subseteq 1..version /\ stray \subseteq Stray /\ editor \in Document
        /\ typed \subseteq Mine /\ erased \subseteq Mine /\ refused \in Document
    BY <2>1, <2>4
  <2>7. queue \in Seq(Save) /\ armed \in BOOLEAN /\ owed \in BOOLEAN /\ tainted \in BOOLEAN
    BY <2>1, <2>4
  <2> QED BY <1>1, <2>3, <2>5, <2>6, <2>7, Zenon DEF TypeOK
<1>3. Filed
  BY DEF Init, Filed, EntryFiled, AnswerFiled, ReadFiled, GridReadFiled, ChainRuns, Writing,
         NoEntry, Idle, NoRead, NoGridRead
<1> QED BY <1>2, <1>3

\* Every step keeps the types and Filed.
LEMMA NextSound == TypeOK /\ Filed /\ [Next]_vars => TypeOK' /\ Filed'
<1> SUFFICES ASSUME TypeOK, Filed, [Next]_vars
             PROVE  TypeOK' /\ Filed'
  OBVIOUS
<1> USE BoundsAssumption
<1> USE DEF Filed
<1>typing. ASSUME NEW d \in Document, Edit(d), typed' \subseteq Mine, erased' \subseteq Mine
           PROVE  TypeOK' /\ Filed'
  <2>1. entry' \in Entry /\ entry'.held /\ entry'.dirty /\ entry'.base = entry.base
    BY <1>typing DEF Edit, Edited, TypeOK, Entry
  <2>2. TypeOK'
    BY <1>typing, <2>1 DEF Edit, TypeOK, node, reading
  <2>3. Filed'
    BY <1>typing, <2>1 DEF Edit, node, reading, EntryFiled, AnswerFiled, ReadFiled, GridReadFiled,
                           ChainRuns, Writing
  <2> QED BY <2>2, <2>3
<1>1. ASSUME NEW w \in Mine, Type(w) PROVE TypeOK' /\ Filed'
  <2>1. editor \cup {w} \in Document
    BY DEF TypeOK, Document
  <2> QED BY <1>1, <1>typing, <2>1 DEF Type, TypeOK
<1>2. ASSUME NEW w \in Mine, Erase(w) PROVE TypeOK' /\ Filed'
  <2>1. editor \ {w} \in Document
    BY DEF TypeOK, Document
  <2> QED BY <1>2, <1>typing, <2>1 DEF Erase, TypeOK
<1>3. CASE ShowEditor
  <2>1. entry.data \in Document
    BY DEF TypeOK, Entry
  <2> QED BY <1>3, <2>1 DEF ShowEditor, node, reading, user, TypeOK, EntryFiled, AnswerFiled,
                            ReadFiled, GridReadFiled, ChainRuns, Writing
<1>flush. ASSUME Enqueue \/ UNCHANGED <<queue, flight>>, owed' \in BOOLEAN, armed' \in BOOLEAN,
                 UNCHANGED <<node, wire, stray, lost, row, entry, editor, reading, user,
                             refused, tainted>>
          PROVE  TypeOK' /\ Filed'
  <2>1. queue' \in Seq(Save) /\ flight' \in Flight /\ ChainRuns'
    BY <1>flush, EnqueueSound DEF TypeOK, ChainRuns, Writing
  <2>2. flight' = flight \/ flight'.phase = "sent"
    BY <1>flush, EnqueueSound
  <2>3. TypeOK'
    BY <1>flush, <2>1 DEF TypeOK, node, reading, user
  <2> QED BY <1>flush, <2>1, <2>2, <2>3 DEF node, reading, EntryFiled, AnswerFiled, ReadFiled,
                                            GridReadFiled
<1>4. CASE Sweep
  <2>1. entry.dirty \in BOOLEAN
    BY DEF TypeOK, Entry
  <2> QED BY <1>4, <1>flush, <2>1 DEF Sweep
<1>5. CASE Drain
  <2>1. entry.dirty \in BOOLEAN
    BY DEF TypeOK, Entry
  <2> QED BY <1>5, <1>flush, <2>1 DEF Drain, TypeOK
<1>6. CASE Ascend
  BY <1>6, <1>flush DEF Ascend, TypeOK
<1>commit. ASSUME NEW d \in Document, Commit(d),
                  UNCHANGED <<lost, row, entry, editor, armed, owed, queue, reading, user, refused>>,
                  flight' \in Flight, (flight'.phase = "idle") = (flight.phase = "idle"),
                  flight'.phase = "landed" =>
                      flight' = flight \/ (flight'.answer = version' /\ flight'.data = d),
                  stray' \subseteq Stray, tainted' \in BOOLEAN
           PROVE  TypeOK' /\ Filed'
  <2>1. /\ version' \in Version /\ version <= version' /\ hist' \in [Version -> Document]
        /\ wire' \subseteq 1..version' /\ hist'[version'] = d
        /\ \A v \in 1..version : hist'[v] = hist[v]
    BY <1>commit, CommitGrows
  <2>2. version \in Nat /\ version' \in Nat /\ version >= 1
    BY <2>1 DEF TypeOK, Version
  <2>3. TypeOK'
    BY <1>commit, <2>1, <2>2 DEF TypeOK, reading, user
  <2>4. EntryFiled'
    BY <1>commit, <2>1, <2>2 DEF EntryFiled, TypeOK, Entry
  <2>5. AnswerFiled'
    BY <1>commit, <2>1, <2>2 DEF AnswerFiled
  <2>6. ReadFiled' /\ GridReadFiled' /\ ChainRuns'
    BY <1>commit, <2>1, <2>2 DEF ReadFiled, GridReadFiled, ChainRuns, Writing, reading
  <2> QED BY <2>3, <2>4, <2>5, <2>6
<1>7. CASE NodeTakes
  <2>1. flight.data \in Document /\ version' \in Version
    BY <1>7, CommitGrows DEF NodeTakes, TypeOK, Flight
  <2>2. flight' \in Flight /\ flight'.phase = "landed"
        /\ flight'.answer = version' /\ flight'.data = flight.data
    <3>1. flight' = [flight EXCEPT !.phase = "landed", !.answer = version'] /\ flight \in Flight
      BY <1>7 DEF NodeTakes, TypeOK
    <3>2. version' \in 0..MaxVersion
      BY <2>1 DEF Version
    <3> QED BY <3>1, <3>2 DEF Flight
  <2>3. tainted' \in BOOLEAN
    BY <1>7 DEF NodeTakes, TypeOK, Flight
  <2> QED BY <1>7, <1>commit, <2>1, <2>2, <2>3 DEF NodeTakes, TypeOK
<1>8. CASE NodeRefuses
  <2>1. flight' \in Flight /\ flight'.phase = "refused"
    BY <1>8 DEF NodeRefuses, TypeOK, Flight
  <2> QED BY <1>8, <2>1 DEF NodeRefuses, node, reading, user, TypeOK, EntryFiled, AnswerFiled,
                            ReadFiled, GridReadFiled, ChainRuns, Writing
<1>9. ASSUME NEW s \in stray, StrayArrives(s) PROVE TypeOK' /\ Filed'
  <2>1. s.data \in Document /\ s.orphan \in BOOLEAN
    BY DEF TypeOK, Stray
  <2>2. CASE s.claim = version
    BY <1>9, <1>commit, <2>1, <2>2 DEF StrayArrives, TypeOK
  <2>3. CASE s.claim # version
    BY <1>9, <2>3 DEF StrayArrives, reading, user, TypeOK, EntryFiled, AnswerFiled,
                      ReadFiled, GridReadFiled, ChainRuns, Writing
  <2> QED BY <2>2, <2>3
<1>10. ASSUME NEW s \in stray, StrayEaten(s) PROVE TypeOK' /\ Filed'
  BY <1>10 DEF StrayEaten, node, reading, user, TypeOK, EntryFiled, AnswerFiled,
               ReadFiled, GridReadFiled, ChainRuns, Writing
<1>11. ASSUME NEW w \in Theirs, OtherWrites(w) PROVE TypeOK' /\ Filed'
  <2>1. Body \cup {w} \in Document
    BY DEF TypeOK, Body, Document
  <2> QED BY <1>11, <1>commit, <2>1 DEF OtherWrites, TypeOK
<1>ended. ASSUME NEW e \in Entry, NEW rw \in 1..version,
                 e.dirty => e.held, ~e.held => e.base = 0, e.base <= version,
                 e.held /\ ~e.dirty => e.base >= 1 /\ e.data = hist[e.base],
                 EndSave(e, rw), UNCHANGED <<node, wire, editor, armed, read, user, tainted>>,
                 stray' \subseteq Stray, lost' \in 0..MaxLost, refused' \in Document,
                 gridRead' \in GridRead, gridRead'.phase = "answered" => gridRead'.row = gridRead.row,
                 gridRead'.phase = "answered" => gridRead.phase = "answered"
          PROVE  TypeOK' /\ Filed'
  <2>1. /\ entry' \in Entry /\ owed' \in BOOLEAN /\ row' \in 1..version'
        /\ queue' \in Seq(Save) /\ flight' \in Flight
        /\ EntryFiled' /\ AnswerFiled' /\ ChainRuns'
    BY <1>ended, EndSaveSound
  <2>2. TypeOK'
    BY <1>ended, <2>1 DEF TypeOK, node, user
  <2>3. ReadFiled' /\ GridReadFiled'
    BY <1>ended DEF ReadFiled, GridReadFiled, node
  <2> QED BY <2>1, <2>2, <2>3
<1>12. CASE SaveLanded
  <2> DEFINE v == flight.answer
             e == Saved(entry, flight.data, v)
             rw == IF v >= row THEN v ELSE row
  <2>1. v \in 1..version /\ hist[v] = flight.data /\ flight.data \in Document /\ v \in Version
        /\ version \in Nat /\ row \in 1..version
    BY <1>12 DEF SaveLanded, AnswerFiled, TypeOK, Flight, Version
  <2>2. e \in Entry /\ entry \in Entry
    BY <2>1, SavedType DEF TypeOK
  <2>3. rw \in 1..version /\ EndSave(e, rw)
    BY <1>12, <2>1 DEF SaveLanded
  <2>4. e.held /\ e.base = v /\ (~e.dirty => e.data = flight.data)
    BY <2>2 DEF Saved, EntryFiled, Entry
  <2>5. gridRead' = gridRead /\ gridRead \in GridRead /\ refused' \in Document
        /\ stray' \subseteq Stray /\ lost' \in 0..MaxLost
    BY <1>12 DEF SaveLanded, reading, TypeOK
  <2>6. e.base <= version /\ e.base >= 1 /\ (~e.dirty => e.data = hist[e.base])
    BY <2>1, <2>4
  <2>7. UNCHANGED <<node, wire, editor, armed, read, user, tainted>>
    BY <1>12 DEF SaveLanded, reading
  <2> HIDE DEF e, rw, v
  <2> QED BY <1>ended, <2>2, <2>3, <2>4, <2>5, <2>6, <2>7
<1>13. CASE SaveRefused
  <2>1. NoEntry \in Entry /\ ~NoEntry.dirty /\ ~NoEntry.held /\ NoEntry.base = 0
    BY NoEntryType DEF NoEntry
  <2>2. row \in 1..version /\ EndSave(NoEntry, row) /\ 0 <= version
    BY <1>13 DEF SaveRefused, TypeOK, Version
  <2>3. gridRead' \in GridRead /\ (gridRead'.phase = "answered" =>
            gridRead'.row = gridRead.row /\ gridRead.phase = "answered")
    <3>1. CASE gridRead.phase = "idle"
      <4>1. gridRead' = [NoGridRead EXCEPT !.phase = "asked"]
        BY <1>13, <3>1 DEF SaveRefused
      <4>2. NoGridRead \in GridRead
        BY DEF NoGridRead, GridRead
      <4> QED BY <4>1, <4>2 DEF GridRead
    <3>2. CASE gridRead.phase # "idle"
      <4>1. gridRead' = [gridRead EXCEPT !.owed = TRUE] /\ gridRead \in GridRead
        BY <1>13, <3>2 DEF SaveRefused, TypeOK
      <4> QED BY <4>1 DEF GridRead
    <3> QED BY <3>1, <3>2
  <2>4. refused' \in Document
    BY <1>13 DEF SaveRefused, TypeOK, Entry, Document
  <2>5. UNCHANGED <<node, wire, editor, armed, read, user, tainted>>
        /\ stray' \subseteq Stray /\ lost' \in 0..MaxLost
    BY <1>13 DEF SaveRefused, TypeOK
  <2> QED BY <1>ended, <2>1, <2>2, <2>3, <2>4, <2>5
<1>14. CASE SaveUnheard
  <2>1. entry \in Entry /\ row \in 1..version /\ EndSave(entry, row)
    BY <1>14 DEF SaveUnheard, TypeOK
  <2>2. lost' \in 0..MaxLost
    BY <1>14 DEF SaveUnheard, TypeOK
  <2>3. [data |-> flight.data, claim |-> flight.claim, orphan |-> flight.orphan] \in Stray
    BY DEF TypeOK, Flight, Stray
  <2>4. stray' \subseteq Stray
    BY <1>14, <2>3 DEF SaveUnheard, TypeOK
  <2>5. UNCHANGED <<node, wire, editor, armed, read, user, tainted>>
        /\ refused' \in Document /\ gridRead' = gridRead /\ gridRead \in GridRead
    BY <1>14 DEF SaveUnheard, reading, TypeOK
  <2>6. /\ entry.dirty => entry.held
        /\ ~entry.held => entry.base = 0
        /\ entry.base <= version
        /\ entry.held /\ ~entry.dirty => entry.base >= 1 /\ entry.data = hist[entry.base]
    BY DEF EntryFiled
  <2> QED BY <1>ended, <2>1, <2>2, <2>4, <2>5, <2>6
<1>row. ASSUME NEW v \in 1..version, RowIs(v), gridRead' \in GridRead,
               gridRead'.phase = "answered" =>
                   gridRead.phase = "answered" /\ gridRead'.row = gridRead.row,
               wire' \subseteq wire,
               UNCHANGED <<node, stray, lost, editor, armed, owed, queue, flight, read, user,
                           refused, tainted>>
        PROVE  TypeOK' /\ Filed'
  <2>1. entry' \in Entry /\ (entry' = entry \/ entry' = NoEntry) /\ row' = v
    BY <1>row, AgedIs, AgedType DEF RowIs, TypeOK
  <2>2. TypeOK'
    BY <1>row, <2>1 DEF TypeOK, node, user
  <2>3. EntryFiled'
    BY <1>row, <2>1 DEF EntryFiled, NoEntry, TypeOK, Version, node
  <2> QED BY <1>row, <2>2, <2>3 DEF AnswerFiled, ReadFiled, GridReadFiled, ChainRuns, Writing, node
<1>15. ASSUME NEW v \in wire, Deliver(v) PROVE TypeOK' /\ Filed'
  <2>1. v \in 1..version /\ gridRead \in GridRead
    BY DEF TypeOK
  <2>2. gridRead' \in GridRead /\ gridRead'.phase = gridRead.phase /\ gridRead'.row = gridRead.row
    BY <1>15, <2>1 DEF Deliver, GridRead
  <2>3. CASE v >= row
    BY <1>15, <1>row, <2>1, <2>2, <2>3 DEF Deliver
  <2>4. CASE ~(v >= row)
    BY <1>15, <2>2, <2>4 DEF Deliver, node, user, TypeOK, EntryFiled, AnswerFiled,
                             ReadFiled, GridReadFiled, ChainRuns, Writing
  <2> QED BY <2>3, <2>4
<1>16. ASSUME NEW v \in wire, Coalesce(v) PROVE TypeOK' /\ Filed'
  BY <1>16 DEF Coalesce, node, reading, user, TypeOK, EntryFiled, AnswerFiled,
               ReadFiled, GridReadFiled, ChainRuns, Writing
<1>grid. ASSUME gridRead' \in GridRead, gridRead'.phase = "answered" => gridRead'.row = version,
                UNCHANGED <<node, wire, stray, lost, row, entry, editor, armed, owed, queue,
                            flight, read, user, refused, tainted>>
         PROVE  TypeOK' /\ Filed'
  BY <1>grid DEF node, user, TypeOK, Version, EntryFiled, AnswerFiled, ReadFiled, GridReadFiled,
                 ChainRuns, Writing
<1>noGrid. NoGridRead \in GridRead /\ NoGridRead.phase = "idle"
           /\ [NoGridRead EXCEPT !.phase = "asked"] \in GridRead
           /\ [NoGridRead EXCEPT !.phase = "asked"].phase = "asked"
  <2>1. NoGridRead \in GridRead /\ NoGridRead.phase = "idle"
    BY DEF NoGridRead, GridRead
  <2>2. ASSUME NEW g \in GridRead
        PROVE  [g EXCEPT !.phase = "asked"] \in GridRead
               /\ [g EXCEPT !.phase = "asked"].phase = "asked"
    BY DEF GridRead
  <2> QED BY <2>1, <2>2
<1>17. CASE AskGrid
  BY <1>17, <1>grid, <1>noGrid DEF AskGrid
<1>18. CASE AnswerGrid
  <2>1. gridRead \in GridRead /\ version \in 0..MaxVersion
    BY DEF TypeOK, Version
  <2>2. gridRead' \in GridRead /\ gridRead'.row = version
    BY <1>18, <2>1 DEF AnswerGrid, GridRead
  <2> QED BY <1>18, <1>grid, <2>2 DEF AnswerGrid
<1>19. CASE GridLands
  <2>1. gridRead.row \in 1..version
    BY <1>19 DEF GridLands, GridReadFiled
  <2>2. gridRead' \in GridRead /\ gridRead'.phase # "answered"
    BY <1>19, <1>noGrid DEF GridLands
  <2> QED BY <1>19, <1>row, <2>1, <2>2 DEF GridLands
<1>reads. ASSUME read' \in Read,
                 read'.phase = "answered" => read'.data = Body /\ read'.base = version,
                 lost' \in 0..MaxLost, editor' \in Document,
                 entry' \in Entry, EntryFiled',
                 UNCHANGED <<node, wire, stray, row, armed, owed, queue, flight, gridRead, user,
                             refused, tainted>>
          PROVE  TypeOK' /\ Filed'
  <2>1. TypeOK'
    BY <1>reads DEF TypeOK, node, user
  <2> QED BY <1>reads, <2>1 DEF node, AnswerFiled, ReadFiled, GridReadFiled, ChainRuns, Writing,
                                Body, TypeOK, Version
<1>noRead. NoRead \in Read /\ NoRead.phase = "idle"
  BY DEF NoRead, Read, Document
<1>same. entry' = entry /\ UNCHANGED node => entry' \in Entry /\ EntryFiled'
  BY DEF EntryFiled, node, TypeOK
<1>20. CASE AskBody
  <2>1. row \in 0..MaxVersion
    BY BoundsAssumption DEF TypeOK, Version
  <2>2. read' \in Read /\ read'.phase = "asked"
    BY <1>20, <1>noRead, <2>1 DEF AskBody, Read
  <2> QED BY <1>20, <1>reads, <1>same, <2>2 DEF AskBody, TypeOK
<1>21. CASE AnswerBody
  <2>1. Body \in Document /\ version \in 0..MaxVersion /\ read \in Read
    BY DEF TypeOK, Version, Body
  <2>2. read' \in Read /\ read'.data = Body /\ read'.base = version
    BY <1>21, <2>1 DEF AnswerBody, Read
  <2> QED BY <1>21, <1>reads, <1>same, <2>2 DEF AnswerBody, TypeOK
<1>22. CASE BodyLands
  <2>1. read.base \in 1..version /\ read.data = hist[read.base] /\ read \in Read /\ entry \in Entry
    BY <1>22 DEF BodyLands, ReadFiled, TypeOK
  <2>2. entry' \in Entry /\ EntryFiled'
    BY <1>22, <2>1 DEF BodyLands, Fetched, EntryFiled, Entry, Read, node, TypeOK, Version
  <2>3. editor' \in Document
    BY <1>22, <2>2 DEF BodyLands, TypeOK, Entry
  <2> QED BY <1>22, <1>reads, <1>noRead, <2>2, <2>3 DEF BodyLands, TypeOK
<1>23. CASE BodyUnheard
  <2>1. lost' \in 0..MaxLost
    BY <1>23 DEF BodyUnheard, TypeOK
  <2> QED BY <1>23, <1>reads, <1>same, <1>noRead, <2>1 DEF BodyUnheard, TypeOK
<1>24. CASE UNCHANGED vars
  BY <1>24 DEF vars, TypeOK, EntryFiled, AnswerFiled, ReadFiled, GridReadFiled, ChainRuns, Writing
<1> QED
  BY <1>1, <1>2, <1>3, <1>4, <1>5, <1>6, <1>7, <1>8, <1>9, <1>10, <1>11, <1>12, <1>13, <1>14,
     <1>15, <1>16, <1>17, <1>18, <1>19, <1>20, <1>21, <1>22, <1>23, <1>24 DEF Next

(***************************************************************************)
(* Every variable keeps its type, and every version the client names is    *)
(* one the node has reached.                                               *)
(***************************************************************************)
THEOREM Typed == Spec => []TypeOK
<1> QED BY InitSound, NextSound, PTL DEF Spec

(***************************************************************************)
(* A clean body is the bytes the node held at the version it is filed      *)
(* under, through every fetch, save response, dropped reply and typing     *)
(* over a save in flight (cache.go PutFetchedContent, PutSavedContent).    *)
(***************************************************************************)
THEOREM CleanBodiesAreFiled == Spec => []CleanIsFiled
<1>1. TypeOK /\ Filed => CleanIsFiled
  BY DEF TypeOK, Filed, EntryFiled, CleanIsFiled, Entry, Version
<1> QED BY <1>1, InitSound, NextSound, PTL DEF Spec

----------------------------------------------------------------------------
(***************************************************************************)
(* No lost update.                                                         *)
(***************************************************************************)

\* A write that keeps the words of others loses none, and moves no version
\* anything was based on.
LEMMA CommitKeeps ==
    ASSUME TypeOK, Filed, NoLostUpdate, EntryKept, QueueKept, StrayKept,
           NEW d \in Document, Foreign(Body) \subseteq d, Commit(d),
           UNCHANGED <<entry, editor, queue, read>>, stray' \subseteq stray
    PROVE  /\ NoLostUpdate' /\ EntryKept' /\ QueueKept' /\ StrayKept'
           /\ version \in Nat /\ version <= version'
           /\ \A v \in 1..version : hist'[v] = hist[v]
<1>1. /\ version' \in Version /\ version <= version'
      /\ hist'[version'] = d
      /\ \A v \in 1..version : hist'[v] = hist[v]
      /\ \A v \in 1..version' : v \in 1..version \/ v = version'
  BY CommitGrows
<1>2. version \in Nat /\ entry.base \in 0..version /\ entry' = entry
  BY DEF TypeOK, Version, Entry, Filed, EntryFiled
<1>3. NoLostUpdate'
  BY <1>1 DEF NoLostUpdate, Body, Foreign
<1>4. entry.base > 0 => hist'[entry.base] = hist[entry.base]
  BY <1>1, <1>2
<1>6. EntryKept'
  BY <1>2, <1>4 DEF EntryKept, Derives
<1>7. QueueKept'
  BY <1>2, <1>4 DEF QueueKept, Derives
<1>8. ASSUME NEW s \in stray', ~s.orphan, s.claim > 0
      PROVE  s.claim <= version' /\ Foreign(s.data) = Foreign(hist'[s.claim])
  <2>1. s \in stray /\ s.claim \in 0..MaxVersion
    BY DEF TypeOK, Stray
  <2>2. s.claim <= version /\ Foreign(s.data) = Foreign(hist[s.claim])
    BY <1>8, <2>1 DEF StrayKept
  <2>3. s.claim \in 1..version /\ version' \in Nat
    BY <1>1, <1>2, <1>8, <2>1, <2>2 DEF Version
  <2> QED BY <1>1, <1>2, <2>2, <2>3
<1>9. StrayKept'
  BY <1>8 DEF StrayKept
<1> QED BY <1>1, <1>2, <1>3, <1>6, <1>7, <1>9

\* The chain runs on under an entry that has the same foreign words, or under
\* none, and then every save left in it is an orphan.
LEMMA EndSaveKeeps ==
    ASSUME TypeOK, Filed, EntryKept, QueueKept,
           NEW e \in Entry, NEW rw,
           e.held => entry.held,
           e.held /\ e.base > 0 =>
               /\ entry.base > 0
               /\ Foreign(e.data) = Foreign(hist[entry.base])
               /\ Foreign(hist[e.base]) = Foreign(hist[entry.base]),
           EndSave(e, rw), UNCHANGED <<node, editor, read>>
    PROVE  EntryKept' /\ QueueKept' /\ FlightKept'
<1> DEFINE kept  == Aged(e, rw)
           saves == IF entry.held /\ ~kept.held THEN Orphans(queue) ELSE queue
<1>1. queue \in Seq(Save) /\ entry \in Entry /\ hist' = hist /\ editor' = editor /\ read' = read
  BY DEF TypeOK, node
<1>2. entry' = kept /\ kept \in Entry /\ (kept = e \/ kept = NoEntry)
  BY AgedIs, AgedType DEF EndSave
<1>3. saves \in Seq(Save) /\ Len(saves) = Len(queue)
  BY <1>1, OrphansType
<1>4. ASSUME NEW i \in DOMAIN saves, ~saves[i].orphan
      PROVE  kept.held /\ (kept.base > 0 => Foreign(saves[i].data) = Foreign(hist[kept.base]))
  <2>1. DOMAIN saves = DOMAIN queue
    BY <1>1, <1>3
  <2>2. CASE entry.held /\ ~kept.held
    BY <1>1, <1>4, <2>2, OrphansType
  <2>3. CASE ~(entry.held /\ ~kept.held)
    <3>1. saves[i] = queue[i] /\ i \in DOMAIN queue /\ ~queue[i].orphan
      BY <1>4, <2>1, <2>3
    <3>2. entry.held /\ Derives(queue[i].data)
      BY <3>1 DEF QueueKept
    <3>3. kept.held /\ kept = e
      BY <1>2, <2>3, <3>2 DEF NoEntry
    <3> QED BY <3>1, <3>2, <3>3 DEF Derives
  <2> QED BY <2>2, <2>3
<1>5. EntryKept'
  <2>1. CASE ~kept.held
    BY <1>2, <2>1 DEF EntryKept
  <2>2. CASE kept.held
    <3>1. kept = e /\ entry.held
      BY <1>2, <2>2 DEF NoEntry
    <3>2. kept.base > 0 =>
              /\ entry.base > 0
              /\ Foreign(kept.data) = Foreign(hist[entry.base])
              /\ Foreign(hist[kept.base]) = Foreign(hist[entry.base])
      BY <2>2, <3>1
    <3> HIDE DEF kept
    <3> QED BY <1>1, <1>2, <3>1, <3>2 DEF EntryKept, Derives
  <2> QED BY <2>1, <2>2
<1>6. CASE queue = <<>>
  <2>1. flight' = Idle /\ queue' = <<>>
    BY <1>6 DEF EndSave
  <2> QED BY <1>5, <2>1 DEF QueueKept, FlightKept, Writing, Idle
<1>7. CASE queue # <<>>
  <2>1. flight' = Sent(Head(saves), kept) /\ queue' = Tail(saves)
    BY <1>7 DEF EndSave
  <2>2. Len(saves) > 0 /\ Len(saves) \in Nat
    BY <1>1, <1>3, <1>7
  <2> HIDE DEF saves, kept
  <2>3. QueueKept'
    <3>1. ASSUME NEW i \in DOMAIN queue', ~queue'[i].orphan
          PROVE  entry'.held /\ (entry'.base > 0 => Foreign(queue'[i].data) = Foreign(hist'[entry'.base]))
      <4>1. i + 1 \in DOMAIN saves /\ queue'[i] = saves[i + 1]
        BY <1>3, <2>1, <2>2
      <4> QED BY <1>1, <1>2, <1>4, <3>1, <4>1
    <3> QED BY <3>1 DEF QueueKept, Derives
  <2>4. FlightKept'
    <3>1. Head(saves) = saves[1] /\ 1 \in DOMAIN saves
      BY <1>3, <2>2
    <3>2. /\ flight'.phase = "sent" /\ flight'.data = saves[1].data
          /\ flight'.orphan = saves[1].orphan
          /\ kept.held => flight'.claim = kept.base
      BY <2>1, <3>1 DEF Sent, SaveClaim
    <3> QED BY <1>1, <1>2, <1>4, <3>1, <3>2 DEF FlightKept, Derives
  <2> QED BY <1>5, <2>3, <2>4
<1> QED BY <1>6, <1>7

\* Nothing is kept at the start.
LEMMA InitKept == Init => Kept
BY DEF Init, Kept, NoLostUpdate, Body, EntryKept, QueueKept, FlightKept, StrayKept, Writing,
       NoEntry, Idle

\* Every step keeps what the client's copies derive from.
LEMMA NextKept == TypeOK /\ Filed /\ TypeOK' /\ Kept /\ [Next]_vars => Kept'
<1> SUFFICES ASSUME TypeOK, Filed, TypeOK', Kept, [Next]_vars, ~tainted'
             PROVE  NoLostUpdate' /\ EntryKept' /\ QueueKept' /\ FlightKept' /\ StrayKept'
  BY DEF Kept
<1> DEFINE Goal == NoLostUpdate' /\ EntryKept' /\ QueueKept' /\ FlightKept' /\ StrayKept'
<1>known. ~tainted => NoLostUpdate /\ EntryKept /\ QueueKept /\ FlightKept /\ StrayKept
  BY DEF Kept
<1>calm. ~tainted /\ UNCHANGED <<version, hist, stray>> => NoLostUpdate' /\ StrayKept'
  BY <1>known DEF NoLostUpdate, Body, StrayKept
<1>typing. ASSUME NEW d, Edit(d), Foreign(d) = Foreign(editor) PROVE Goal
  <2>1. ~tainted /\ UNCHANGED <<version, hist, stray, queue, flight, read>> /\ editor' = d
    BY <1>typing DEF Edit, node, reading
  <2>2. entry'.held /\ entry'.base = entry.base /\ entry'.data = d
    BY <1>typing DEF Edit, Edited, TypeOK, Entry
  <2>3. entry.base > 0 => entry.held
    BY DEF Filed, EntryFiled
  <2>4. QueueKept' /\ FlightKept'
    BY <1>known, <2>1, <2>2 DEF QueueKept, FlightKept, Derives, Writing
  <2>5. EntryKept'
    BY <1>typing, <1>known, <2>1, <2>2, <2>3 DEF EntryKept, Derives
  <2> QED BY <1>calm, <2>1, <2>4, <2>5
<1>1. ASSUME NEW w \in Mine, Type(w) PROVE Goal
  <2>1. Foreign(editor \cup {w}) = Foreign(editor)
    BY WordsAssumption DEF Foreign
  <2> QED BY <1>1, <1>typing, <2>1 DEF Type
<1>2. ASSUME NEW w \in Mine, Erase(w) PROVE Goal
  <2>1. Foreign(editor \ {w}) = Foreign(editor)
    BY WordsAssumption DEF Foreign
  <2> QED BY <1>2, <1>typing, <2>1 DEF Erase
<1>3. CASE ShowEditor
  <2>1. ~tainted /\ UNCHANGED <<version, hist, stray, entry, queue, flight, read>>
        /\ editor' = entry.data
    BY <1>3 DEF ShowEditor, node, reading
  <2> QED BY <1>known, <1>calm, <2>1 DEF EntryKept, QueueKept, FlightKept, Derives, Writing
<1>flush. ASSUME (entry.dirty /\ Enqueue) \/ UNCHANGED <<queue, flight>>,
                 UNCHANGED <<node, stray, entry, editor, reading, tainted>>
          PROVE  Goal
  <2>1. ~tainted /\ UNCHANGED <<version, hist, stray, entry, editor, read>>
    BY <1>flush DEF node, reading
  <2>2. EntryKept'
    BY <1>known, <2>1 DEF EntryKept, Derives
  <2>3. CASE UNCHANGED <<queue, flight>>
    BY <1>known, <1>calm, <2>1, <2>2, <2>3 DEF QueueKept, FlightKept, Derives, Writing
  <2>4. CASE entry.dirty /\ Enqueue
    <3> DEFINE s == [data |-> entry.data, row |-> row, orphan |-> FALSE]
    <3>1. entry.held /\ Derives(entry.data) /\ queue \in Seq(Save)
      BY <1>known, <2>1, <2>4 DEF Filed, EntryFiled, EntryKept, TypeOK
    <3>2. CASE Writing
      <4>1. queue' = Append(queue, s) /\ flight' = flight
        BY <2>4, <3>2 DEF Enqueue
      <4>2. \A i \in DOMAIN queue' : queue'[i] = s \/ (i \in DOMAIN queue /\ queue'[i] = queue[i])
        BY <3>1, <4>1
      <4>3. QueueKept'
        BY <1>known, <2>1, <3>1, <4>2 DEF QueueKept, Derives
      <4>4. FlightKept'
        BY <1>known, <2>1, <4>1 DEF FlightKept, Derives, Writing
      <4> QED BY <1>calm, <2>1, <2>2, <4>3, <4>4
    <3>3. CASE ~Writing
      <4>1. flight' = Sent(s, entry) /\ queue' = queue
        BY <2>4, <3>3 DEF Enqueue
      <4>2. QueueKept'
        BY <1>known, <2>1, <4>1 DEF QueueKept, Derives
      <4>3. FlightKept'
        BY <2>1, <3>1, <4>1 DEF FlightKept, Sent, SaveClaim, Derives
      <4> QED BY <1>calm, <2>1, <2>2, <4>2, <4>3
    <3> QED BY <3>2, <3>3
  <2> QED BY <1>flush, <2>3, <2>4
<1>4. CASE Sweep
  BY <1>4, <1>flush DEF Sweep
<1>5. CASE Drain
  BY <1>5, <1>flush DEF Drain
<1>6. CASE Ascend
  BY <1>6, <1>flush DEF Ascend
<1>7. CASE NodeTakes
  <2>1. ~tainted /\ ~flight.orphan /\ flight.phase = "sent" /\ flight.claim = version
    BY <1>7 DEF NodeTakes
  <2>2. entry.held /\ flight.claim = entry.base /\ Derives(flight.data)
    BY <1>known, <2>1 DEF FlightKept, Writing
  <2>3. version > 0 /\ Foreign(flight.data) = Foreign(Body)
    BY <2>1, <2>2 DEF Derives, Body, TypeOK, Version
  <2>4. flight.data \in Document /\ flight \in Flight /\ Foreign(Body) \subseteq flight.data
    BY <2>3 DEF TypeOK, Flight, Foreign
  <2>5. /\ NoLostUpdate' /\ EntryKept' /\ QueueKept' /\ StrayKept'
        /\ version \in Nat
        /\ \A v \in 1..version : hist'[v] = hist[v]
    BY <1>7, <1>known, <2>1, <2>4, CommitKeeps DEF NodeTakes, reading
  <2>6. /\ flight'.orphan = flight.orphan /\ flight'.claim = flight.claim
        /\ flight'.data = flight.data /\ entry' = entry
    BY <1>7, <2>4 DEF NodeTakes, Flight
  <2>7. hist'[entry.base] = hist[entry.base]
    BY <2>1, <2>2, <2>3, <2>5
  <2>8. FlightKept'
    BY <2>1, <2>2, <2>3, <2>6, <2>7 DEF FlightKept, Derives
  <2> QED BY <2>5, <2>8
<1>8. CASE NodeRefuses
  <2>1. ~tainted /\ UNCHANGED <<version, hist, stray, entry, editor, queue, read>>
    BY <1>8 DEF NodeRefuses, node, reading
  <2>2. /\ flight'.phase = "refused" /\ flight'.orphan = flight.orphan
        /\ flight'.claim = flight.claim /\ flight'.data = flight.data /\ Writing
    BY <1>8 DEF NodeRefuses, TypeOK, Flight, Writing
  <2> QED BY <1>known, <1>calm, <2>1, <2>2 DEF EntryKept, QueueKept, FlightKept, Derives
<1>commit. ASSUME NEW d \in Document, Foreign(Body) \subseteq d, Commit(d), ~tainted,
                  UNCHANGED <<entry, editor, queue, flight, reading>>, stray' \subseteq stray
           PROVE  Goal
  <2>1. /\ NoLostUpdate' /\ EntryKept' /\ QueueKept' /\ StrayKept'
        /\ version \in Nat
        /\ \A v \in 1..version : hist'[v] = hist[v]
    BY <1>commit, <1>known, CommitKeeps DEF reading
  <2>2. entry.base > 0 => hist'[entry.base] = hist[entry.base]
    BY <2>1 DEF Filed, EntryFiled, TypeOK, Entry
  <2>3. FlightKept'
    BY <1>commit, <1>known, <2>2 DEF FlightKept, Derives, Writing
  <2> QED BY <2>1, <2>3
<1>9. ASSUME NEW s \in stray, StrayArrives(s) PROVE Goal
  <2>1. s.claim \in Nat /\ s.data \in Document /\ s.orphan \in BOOLEAN /\ stray' \subseteq stray
    BY <1>9 DEF StrayArrives, TypeOK, Stray
  <2>2. CASE s.claim = version
    <3>1. ~tainted /\ ~s.orphan /\ s.claim > 0
      <4>1. tainted' = (tainted \/ s.orphan)
        BY <1>9, <2>2, Zenon DEF StrayArrives
      <4>2. s.claim > 0
        BY <2>2 DEF TypeOK, Version
      <4> QED BY <4>1, <4>2
    <3>2. Foreign(Body) \subseteq s.data
      BY <1>known, <2>2, <3>1 DEF StrayKept, Body, Foreign
    <3> QED BY <1>9, <1>commit, <2>1, <2>2, <3>1, <3>2 DEF StrayArrives
  <2>3. CASE s.claim # version
    <3>1. ~tainted /\ UNCHANGED <<version, hist, entry, editor, queue, flight, read>>
      BY <1>9, <2>3 DEF StrayArrives, reading
    <3> QED BY <1>known, <2>1, <3>1 DEF NoLostUpdate, Body, StrayKept, EntryKept, QueueKept,
                                        FlightKept, Derives, Writing
  <2> QED BY <2>2, <2>3
<1>10. ASSUME NEW s \in stray, StrayEaten(s) PROVE Goal
  <2>1. ~tainted /\ UNCHANGED <<version, hist, entry, editor, queue, flight, read>>
        /\ stray' \subseteq stray
    BY <1>10 DEF StrayEaten, node, reading
  <2> QED BY <1>known, <2>1 DEF NoLostUpdate, Body, StrayKept, EntryKept, QueueKept,
                                FlightKept, Derives, Writing
<1>11. ASSUME NEW w \in Theirs, OtherWrites(w) PROVE Goal
  <2>1. Body \cup {w} \in Document /\ Foreign(Body) \subseteq Body \cup {w}
    BY DEF TypeOK, Body, Document, Foreign
  <2> QED BY <1>11, <1>commit, <2>1 DEF OtherWrites
<1>ended. ASSUME NEW e \in Entry, NEW rw, e.held => entry.held,
                 e.held /\ e.base > 0 =>
                     /\ entry.base > 0
                     /\ Foreign(e.data) = Foreign(hist[entry.base])
                     /\ Foreign(hist[e.base]) = Foreign(hist[entry.base]),
                 EndSave(e, rw), ~tainted, UNCHANGED <<node, editor, read>>, StrayKept'
          PROVE  Goal
  <2>1. EntryKept' /\ QueueKept' /\ FlightKept'
    BY <1>ended, <1>known, EndSaveKeeps
  <2>2. NoLostUpdate'
    BY <1>ended, <1>known DEF NoLostUpdate, Body, node
  <2> QED BY <1>ended, <2>1, <2>2
<1>12. CASE SaveLanded
  <2> DEFINE v == flight.answer
             e == Saved(entry, flight.data, v)
  <2>1. ~tainted /\ UNCHANGED <<version, hist, stray>> /\ UNCHANGED <<node, editor, read>>
    BY <1>12 DEF SaveLanded, node, reading
  <2>2. ~flight.orphan /\ flight.claim > 0
    BY <1>12, <1>known, <2>1 DEF SaveLanded, FlightKept
  <2>3. entry.held /\ entry.base > 0 /\ Foreign(flight.data) = Foreign(hist[entry.base])
    BY <1>12, <1>known, <2>1, <2>2 DEF SaveLanded, FlightKept, Derives, Writing
  <2>4. Foreign(entry.data) = Foreign(hist[entry.base])
    BY <1>known, <2>1, <2>3 DEF EntryKept, Derives
  <2>5. v \in 1..version /\ hist[v] = flight.data /\ v \in Version /\ flight.data \in Document
        /\ entry \in Entry
    BY <1>12 DEF SaveLanded, Filed, AnswerFiled, TypeOK, Flight, Version
  <2>6. e \in Entry
    BY <2>5, SavedType
  <2>7. e.base = v /\ (e.data = flight.data \/ e.data = entry.data)
    BY <2>5 DEF Saved, Entry
  <2>8. Foreign(e.data) = Foreign(hist[entry.base]) /\ Foreign(hist[e.base]) = Foreign(hist[entry.base])
    BY <2>3, <2>4, <2>5, <2>7
  <2>9. EndSave(e, IF v >= row THEN v ELSE row)
    BY <1>12 DEF SaveLanded
  <2> HIDE DEF e, v
  <2> QED BY <1>ended, <1>calm, <2>1, <2>3, <2>6, <2>8, <2>9
<1>13. CASE SaveRefused
  <2>1. ~tainted /\ UNCHANGED <<version, hist, stray>> /\ UNCHANGED <<node, editor, read>>
        /\ EndSave(NoEntry, row)
    BY <1>13 DEF SaveRefused, node
  <2>2. NoEntry \in Entry /\ ~NoEntry.held
    BY NoEntryType DEF NoEntry
  <2> QED BY <1>ended, <1>calm, <2>1, <2>2
<1>14. CASE SaveUnheard
  <2>1. ~tainted /\ UNCHANGED <<version, hist>> /\ UNCHANGED <<node, editor, read>>
        /\ EndSave(entry, row) /\ Writing
    BY <1>14 DEF SaveUnheard, node, reading
  <2>2. entry \in Entry /\ (entry.held /\ entry.base > 0 => Foreign(entry.data) = Foreign(hist[entry.base]))
    BY <1>known, <2>1 DEF TypeOK, EntryKept, Derives
  <2> DEFINE s == [data |-> flight.data, claim |-> flight.claim, orphan |-> flight.orphan]
  <2>3. stray' \subseteq stray \cup {s}
    BY <1>14 DEF SaveUnheard
  <2>4. ~flight.orphan /\ flight.claim > 0 =>
            flight.claim <= version /\ Foreign(flight.data) = Foreign(hist[flight.claim])
    BY <1>known, <2>1 DEF FlightKept, Derives, Filed, EntryFiled
  <2>5. StrayKept'
    BY <1>known, <2>1, <2>3, <2>4 DEF StrayKept
  <2> QED BY <1>ended, <2>1, <2>2, <2>5
<1>row. ASSUME NEW v, RowIs(v), UNCHANGED <<node, stray, editor, queue, flight, read, tainted>>
        PROVE  Goal
  <2>1. ~tainted /\ UNCHANGED <<version, hist, stray, editor, queue, flight, read>>
    BY <1>row DEF node
  <2>2. entry' = entry \/ (~Writing /\ entry' = NoEntry)
    BY <1>row, AgedIs DEF RowIs
  <2>3. CASE entry' = entry
    BY <1>known, <1>calm, <2>1, <2>3 DEF EntryKept, QueueKept, FlightKept, Derives, Writing
  <2>4. CASE ~Writing /\ entry' = NoEntry
    <3>1. queue' = <<>> /\ flight'.phase = "idle"
      BY <2>1, <2>4 DEF Filed, ChainRuns, Writing
    <3> QED BY <1>calm, <2>1, <2>4, <3>1 DEF EntryKept, QueueKept, FlightKept, Writing, NoEntry
  <2> QED BY <2>2, <2>3, <2>4
<1>same. ASSUME UNCHANGED <<node, stray, entry, editor, queue, flight, tainted>>,
                read' = read \/ ~entry.held \/ entry.base = 0 \/ read'.phase = "idle"
         PROVE  Goal
  <2>1. ~tainted /\ UNCHANGED <<version, hist, stray, entry, editor, queue, flight>>
    BY <1>same DEF node
  <2>2. EntryKept'
    BY <1>same, <1>known, <2>1 DEF EntryKept, Derives
  <2> QED BY <1>known, <1>calm, <2>1, <2>2 DEF QueueKept, FlightKept, Derives, Writing
<1>15. ASSUME NEW v \in wire, Deliver(v) PROVE Goal
  <2>1. CASE v >= row
    BY <1>15, <1>row, <2>1 DEF Deliver
  <2>2. CASE ~(v >= row)
    BY <1>15, <1>same, <2>2 DEF Deliver
  <2> QED BY <2>1, <2>2
<1>16. ASSUME NEW v \in wire, Coalesce(v) PROVE Goal
  BY <1>16, <1>same DEF Coalesce, reading
<1>17. CASE AskGrid
  BY <1>17, <1>same DEF AskGrid
<1>18. CASE AnswerGrid
  BY <1>18, <1>same DEF AnswerGrid
<1>19. CASE GridLands
  BY <1>19, <1>row DEF GridLands
<1>20. CASE AskBody
  BY <1>20, <1>same DEF AskBody
<1>21. CASE AnswerBody
  <2>1. ~tainted /\ read.phase = "asked" /\ (entry.held => entry.base <= 0 \/ ~(entry.base > 0))
    BY <1>21, <1>known DEF AnswerBody, EntryKept
  <2>2. ~entry.held \/ entry.base = 0
    BY <2>1 DEF TypeOK, Entry
  <2> QED BY <1>21, <1>same, <2>2 DEF AnswerBody
<1>22. CASE BodyLands
  <2>1. ~tainted /\ UNCHANGED <<version, hist, stray, queue, flight>> /\ read' = NoRead
        /\ entry' = Fetched(entry, read)
    BY <1>22 DEF BodyLands, node
  <2>2. CASE Storable(entry, read)
    <3>1. ~entry.held
      <4>1. ~entry.dirty /\ read.phase = "answered" /\ entry.base \in Nat
        BY <1>22, <2>2 DEF BodyLands, Storable, TypeOK, Entry
      <4>2. entry.held => entry.base > 0
        BY <4>1 DEF Filed, EntryFiled
      <4> QED BY <1>known, <2>1, <4>1, <4>2 DEF EntryKept
    <3>2. entry'.held /\ ~entry'.dirty /\ entry'.data = read.data /\ entry'.base = read.base
          /\ hist[read.base] = read.data
      BY <1>22, <2>1, <2>2 DEF Fetched, BodyLands, Filed, ReadFiled
    <3>3. editor' = read.data
      BY <1>22, <3>2 DEF BodyLands
    <3>4. EntryKept'
      BY <2>1, <3>2, <3>3 DEF EntryKept, Derives, NoRead
    <3>5. QueueKept' /\ FlightKept'
      BY <1>known, <2>1, <3>1 DEF QueueKept, FlightKept, Writing
    <3> QED BY <1>calm, <2>1, <3>4, <3>5
  <2>3. CASE ~Storable(entry, read)
    <3>1. entry' = entry /\ (editor' = entry.data \/ editor' = editor)
      BY <1>22, <2>1, <2>3 DEF Fetched, BodyLands
    <3>2. EntryKept'
      BY <1>known, <2>1, <3>1 DEF EntryKept, Derives, NoRead
    <3> QED BY <1>known, <1>calm, <2>1, <3>1, <3>2 DEF QueueKept, FlightKept, Derives, Writing
  <2> QED BY <2>2, <2>3
<1>23. CASE BodyUnheard
  <2>1. read'.phase = "idle"
    BY <1>23 DEF BodyUnheard, NoRead
  <2> QED BY <1>23, <1>same, <2>1 DEF BodyUnheard
<1>24. CASE UNCHANGED vars
  BY <1>24, <1>same DEF vars, node
<1> QED
  BY <1>1, <1>2, <1>3, <1>4, <1>5, <1>6, <1>7, <1>8, <1>9, <1>10, <1>11, <1>12, <1>13, <1>14,
     <1>15, <1>16, <1>17, <1>18, <1>19, <1>20, <1>21, <1>22, <1>23, <1>24 DEF Next

(***************************************************************************)
(* No update is lost: until the node takes a save whose entry was gone     *)
(* when it was sent, every word another writer has put in the document at  *)
(* any version is still in it.  The claim a save makes is what carries     *)
(* this (textedit/save.go SaveClaim, cache.go SaveBasis, tiles.go          *)
(* claimContentVersion).                                                   *)
(***************************************************************************)
THEOREM NoLostUpdates == Spec => []NoLostUpdateBeforeOrphan
<1>1. Init => IInv
  BY InitSound, InitKept DEF IInv
<1>2. IInv /\ [Next]_vars => IInv'
  BY NextSound, NextKept DEF IInv
<1>3. IInv => NoLostUpdateBeforeOrphan
  BY DEF IInv, Kept, NoLostUpdateBeforeOrphan
<1> QED BY <1>1, <1>2, <1>3, PTL DEF Spec
----------------------------------------------------------------------------
(***************************************************************************)
(* No silent loss.                                                         *)
(***************************************************************************)

Own(d) == d \cap Mine

\* The words the user has typed, has not erased and was not refused.
Live == typed \ (erased \cup refused)

\* No word of the user's is anywhere before the user types it.
TypedFirst ==
    /\ \A v \in 1..version : Own(hist[v]) \subseteq typed
    /\ Own(editor) \subseteq typed /\ Own(entry.data) \subseteq typed
    /\ Own(flight.data) \subseteq typed
    /\ \A i \in DOMAIN queue : Own(queue[i].data) \subseteq typed
    /\ \A s \in stray : Own(s.data) \subseteq typed

\* Unsaved text is what the textarea shows, and the outbox owes it.
Pending == entry.dirty => owed /\ editor = entry.data

Owned == TypedFirst /\ Pending

\* Bytes that hold every live word of the version the entry's basis names.
Holds(d) == entry.base > 0 => Live \cap hist[entry.base] \subseteq d

\* Along the chain and into the entry live words are only added, and a clean
\* entry has no more of them than any save under way.
Follows(d) ==
    /\ Holds(d)
    /\ Live \cap d \subseteq entry.data
    /\ ~entry.dirty => Live \cap entry.data \subseteq d

OwnEntry == entry.held => Holds(editor)

OwnQueue ==
    \A i \in DOMAIN queue : ~queue[i].orphan =>
        /\ Follows(queue[i].data)
        /\ \A j \in DOMAIN queue : i < j /\ ~queue[j].orphan =>
               Live \cap queue[i].data \subseteq queue[j].data

OwnFlight ==
    Writing /\ ~flight.orphan =>
        /\ Follows(flight.data)
        /\ \A i \in DOMAIN queue : ~queue[i].orphan =>
               Live \cap flight.data \subseteq queue[i].data

OwnStray ==
    \A s \in stray : ~s.orphan /\ s.claim > 0 => Live \cap hist[s.claim] \subseteq s.data

\* A live word that was in the document still is, and one that is not is in
\* the dirty entry.
OwnWords ==
    /\ \A v \in 1..version : Live \cap hist[v] \subseteq Body
    /\ \A w \in Live : w \in Body \/ (entry.dirty /\ w \in entry.data)

OwnKept == ~tainted => OwnWords /\ OwnEntry /\ OwnQueue /\ OwnFlight /\ OwnStray

----------------------------------------------------------------------------

\* The user's words are words, and no bytes of the client's or the node's
\* hold others than the two kinds.
LEMMA WordsTyped ==
    ASSUME TypeOK
    PROVE  /\ typed \subseteq Mine /\ Live \subseteq typed
           /\ \A v \in 1..version : v \in Version /\ hist[v] \in Document
           /\ version \in Nat /\ version >= 1 /\ Body = hist[version] /\ Body \in Document
           /\ entry \in Entry /\ entry.data \in Document /\ entry.base \in Nat
           /\ flight \in Flight /\ flight.data \in Document
           /\ queue \in Seq(Save) /\ \A i \in DOMAIN queue : queue[i] \in Save
BY BoundsAssumption DEF TypeOK, Live, Version, Body, Entry, Flight

\* Marking the waiting saves leaves what they hold.
LEMMA OrphansSame ==
    ASSUME NEW q \in Seq(Save)
    PROVE  \A i \in DOMAIN q : Orphans(q)[i].data = q[i].data
<1>1. ASSUME NEW s \in Save PROVE [s EXCEPT !.orphan = TRUE].data = s.data
  BY DEF Save
<1>2. \A i \in DOMAIN q : q[i] \in Save /\ Orphans(q)[i] = [q[i] EXCEPT !.orphan = TRUE]
  BY DEF Orphans
<1>3. QED
  BY <1>1, <1>2

\* A write of bytes the user had typed puts in no word before its time.
LEMMA CommitTyped ==
    ASSUME TypeOK, Owned, NEW d \in Document, Own(d) \subseteq typed, Commit(d),
           UNCHANGED <<entry, editor, owed, queue, typed>>, stray' \subseteq stray,
           flight'.data = flight.data
    PROVE  Owned'
<1>1. /\ version' \in Version /\ hist'[version'] = d
      /\ \A v \in 1..version : hist'[v] = hist[v]
      /\ \A v \in 1..version' : v \in 1..version \/ v = version'
  BY CommitGrows
<1>2. \A v \in 1..version' : Own(hist'[v]) \subseteq typed
  BY <1>1 DEF Owned, TypedFirst
<1>3. QED
  BY <1>2 DEF Owned, TypedFirst, Pending, Own

\* Marking and moving saves along the chain types nothing.
LEMMA EndSaveTyped ==
    ASSUME TypeOK, Owned, NEW e \in Entry, NEW rw, EndSave(e, rw),
           Own(e.data) \subseteq typed, e.dirty => editor = e.data,
           UNCHANGED <<node, editor, typed>>,
           \A s \in stray' : Own(s.data) \subseteq typed
    PROVE  Owned'
<1> DEFINE kept  == Aged(e, rw)
           saves == IF entry.held /\ ~kept.held THEN Orphans(queue) ELSE queue
<1>1. queue \in Seq(Save) /\ version' = version /\ hist' = hist /\ editor' = editor /\ typed' = typed
  BY DEF TypeOK, node
<1>2. entry' = kept /\ owed' = e.dirty /\ kept \in Entry /\ (kept = e \/ kept = NoEntry)
  BY AgedIs, AgedType DEF EndSave
<1>3. Own(entry'.data) \subseteq typed /\ Pending'
  BY <1>1, <1>2 DEF Pending, NoEntry, Own
<1>4. /\ saves \in Seq(Save) /\ Len(saves) = Len(queue)
      /\ \A i \in DOMAIN queue : saves[i].data = queue[i].data
  BY <1>1, OrphansType, OrphansSame
<1>5. Own(flight'.data) \subseteq typed /\ \A i \in DOMAIN queue' : Own(queue'[i].data) \subseteq typed
  <2>1. CASE queue = <<>>
    BY <2>1 DEF EndSave, Idle, Own
  <2>2. CASE queue # <<>>
    <3>1. flight' = Sent(Head(saves), kept) /\ queue' = Tail(saves)
      BY <2>2 DEF EndSave
    <3>2. Len(queue) > 0 /\ 1 \in DOMAIN queue /\ Head(saves) = saves[1]
      BY <1>1, <1>4, <2>2
    <3>3. flight'.data = queue[1].data
      BY <1>4, <3>1, <3>2 DEF Sent
    <3>4. ASSUME NEW i \in DOMAIN queue'
          PROVE  Own(queue'[i].data) \subseteq typed
      <4>1. i + 1 \in DOMAIN queue /\ queue'[i] = saves[i + 1]
        BY <1>1, <1>4, <3>1, <3>2
      <4>2. QED
        BY <1>4, <4>1 DEF Owned, TypedFirst
    <3>5. QED
      BY <3>2, <3>3, <3>4 DEF Owned, TypedFirst
  <2>3. QED
    BY <2>1, <2>2
<1>6. (\A v \in 1..version' : Own(hist'[v]) \subseteq typed') /\ Own(editor') \subseteq typed'
  BY <1>1 DEF Owned, TypedFirst
<1>7. QED
  BY <1>1, <1>3, <1>5, <1>6 DEF Owned, TypedFirst

\* Nothing is typed before the user types it, and unsaved text is owed.
LEMMA InitOwned == Init => Owned
<1> SUFFICES ASSUME Init PROVE Owned
  OBVIOUS
<1>1. 1..version \subseteq Version /\ hist = [v \in Version |-> {}]
  BY BoundsAssumption DEF Init, Version
<1>2. \A v \in 1..version : Own(hist[v]) \subseteq typed
  BY <1>1 DEF Own
<1>3. QED
  BY <1>2 DEF Init, Owned, TypedFirst, Pending, Own, NoEntry, Idle

\* Every step keeps that.
LEMMA NextOwned == TypeOK /\ Filed /\ Owned /\ [Next]_vars => Owned'
<1> SUFFICES ASSUME TypeOK, Filed, Owned, [Next]_vars PROVE Owned'
  OBVIOUS
<1>still. ASSUME UNCHANGED <<version, hist, queue, editor, typed>>, flight'.data = flight.data,
                 entry' = entry \/ entry' = NoEntry, owed' = owed, stray' \subseteq stray
          PROVE  Owned'
  <2>1. Own(entry'.data) \subseteq typed /\ Pending'
    BY <1>still DEF Owned, TypedFirst, Pending, NoEntry, Own
  <2>2. QED
    BY <1>still, <2>1 DEF Owned, TypedFirst
<1>typing. ASSUME NEW d, Edit(d), Own(d) \subseteq typed', typed \subseteq typed'
           PROVE  Owned'
  <2>1. UNCHANGED <<version, hist, stray, queue, flight>> /\ editor' = d /\ owed' = TRUE
        /\ entry' = Edited(entry, d)
    BY <1>typing DEF Edit, node
  <2>2. entry'.data = d
    BY <2>1 DEF Edited, TypeOK, Entry
  <2>3. QED
    BY <1>typing, <2>1, <2>2 DEF Owned, TypedFirst, Pending
<1>1. ASSUME NEW w \in Mine, Type(w) PROVE Owned'
  <2>1. Own(editor \cup {w}) \subseteq typed \cup {w}
    BY DEF Owned, TypedFirst, Own
  <2>2. QED
    BY <1>1, <1>typing, <2>1 DEF Type
<1>2. ASSUME NEW w \in Mine, Erase(w) PROVE Owned'
  <2>1. Own(editor \ {w}) \subseteq typed
    BY DEF Owned, TypedFirst, Own
  <2>2. QED
    BY <1>2, <1>typing, <2>1 DEF Erase
<1>3. CASE ShowEditor
  <2>1. UNCHANGED <<version, hist, stray, queue, flight, entry, owed, typed>> /\ editor' = entry.data
    BY <1>3 DEF ShowEditor, node, user
  <2>2. QED
    BY <2>1 DEF Owned, TypedFirst, Pending
<1>flush. ASSUME Enqueue \/ UNCHANGED <<queue, flight>>, entry.dirty => owed',
                 UNCHANGED <<version, hist, stray, entry, editor, typed>>
          PROVE  Owned'
  <2> DEFINE s == [data |-> entry.data, row |-> row, orphan |-> FALSE]
  <2>1. queue \in Seq(Save)
    BY DEF TypeOK
  <2>2. CASE UNCHANGED <<queue, flight>>
    BY <1>flush, <2>2 DEF Owned, TypedFirst, Pending
  <2>3. CASE Enqueue /\ Writing
    <3>1. queue' = Append(queue, s) /\ flight' = flight
      BY <2>3 DEF Enqueue
    <3>2. \A i \in DOMAIN queue' : queue'[i] = s \/ (i \in DOMAIN queue /\ queue'[i] = queue[i])
      BY <2>1, <3>1
    <3>3. \A i \in DOMAIN queue' : Own(queue'[i].data) \subseteq typed
      BY <3>2 DEF Owned, TypedFirst
    <3>4. QED
      BY <1>flush, <3>1, <3>3 DEF Owned, TypedFirst, Pending
  <2>4. CASE Enqueue /\ ~Writing
    <3>1. queue' = queue /\ flight'.data = entry.data
      BY <2>4 DEF Enqueue, Sent
    <3>2. QED
      BY <1>flush, <3>1 DEF Owned, TypedFirst, Pending
  <2>5. QED
    BY <1>flush, <2>2, <2>3, <2>4
<1>4. CASE Sweep
  BY <1>4, <1>flush DEF Sweep, node, user
<1>5. CASE Drain
  BY <1>5, <1>flush DEF Drain, node, user
<1>6. CASE Ascend
  BY <1>6, <1>flush DEF Ascend, node, user, Owned, Pending
<1>7. CASE NodeTakes
  <2>1. flight.data \in Document /\ flight'.data = flight.data /\ Own(flight.data) \subseteq typed
    BY <1>7 DEF NodeTakes, TypeOK, Flight, Owned, TypedFirst
  <2>2. QED
    BY <1>7, <2>1, CommitTyped DEF NodeTakes, user
<1>8. CASE NodeRefuses
  <2>1. flight'.data = flight.data
    BY <1>8 DEF NodeRefuses, TypeOK, Flight
  <2>2. QED
    BY <1>8, <1>still, <2>1 DEF NodeRefuses, node, user
<1>9. ASSUME NEW s \in stray, StrayArrives(s) PROVE Owned'
  <2>1. s.data \in Document /\ Own(s.data) \subseteq typed /\ stray' \subseteq stray
        /\ UNCHANGED <<entry, editor, owed, queue, flight, typed>>
    BY <1>9 DEF StrayArrives, TypeOK, Stray, Owned, TypedFirst, user
  <2>2. CASE s.claim = version
    BY <1>9, <2>1, <2>2, CommitTyped DEF StrayArrives
  <2>3. CASE s.claim # version
    BY <1>9, <1>still, <2>1, <2>3 DEF StrayArrives
  <2>4. QED
    BY <2>2, <2>3
<1>10. ASSUME NEW s \in stray, StrayEaten(s) PROVE Owned'
  BY <1>10, <1>still DEF StrayEaten, node, user
<1>11. ASSUME NEW w \in Theirs, OtherWrites(w) PROVE Owned'
  <2>1. Body \cup {w} \in Document /\ Own(Body \cup {w}) \subseteq typed
    <3>1. Own(Body) \subseteq typed
      BY WordsTyped DEF Owned, TypedFirst
    <3>2. QED
      BY <3>1, WordsTyped, WordsAssumption DEF Own, Document
  <2>2. QED
    BY <1>11, <2>1, CommitTyped DEF OtherWrites, user
<1>12. CASE SaveLanded
  <2> DEFINE v == flight.answer
             e == Saved(entry, flight.data, v)
  <2>1. v \in Version /\ flight.data \in Document /\ entry \in Entry
    BY <1>12 DEF SaveLanded, Filed, AnswerFiled, TypeOK, Flight, Version
  <2>2. e \in Entry
    BY <2>1, SavedType
  <2>3. (e.data = entry.data \/ e.data = flight.data)
        /\ (e.dirty => entry.dirty /\ e.data = entry.data)
    BY <2>1 DEF Saved, Entry
  <2>4. Own(e.data) \subseteq typed /\ (e.dirty => editor = e.data)
    BY <2>3 DEF Owned, TypedFirst, Pending
  <2>5. EndSave(e, IF v >= row THEN v ELSE row) /\ UNCHANGED <<node, editor, typed, stray>>
    BY <1>12 DEF SaveLanded, user
  <2> HIDE DEF e, v
  <2>6. QED
    BY <2>2, <2>4, <2>5, EndSaveTyped DEF Owned, TypedFirst
<1>13. CASE SaveRefused
  <2>1. NoEntry \in Entry /\ ~NoEntry.dirty /\ Own(NoEntry.data) \subseteq typed
    BY NoEntryType DEF NoEntry, Own
  <2>2. EndSave(NoEntry, row) /\ UNCHANGED <<node, editor, typed, stray>>
    BY <1>13 DEF SaveRefused, user
  <2>3. QED
    BY <2>1, <2>2, EndSaveTyped DEF Owned, TypedFirst
<1>14. CASE SaveUnheard
  <2> DEFINE s == [data |-> flight.data, claim |-> flight.claim, orphan |-> flight.orphan]
  <2>1. entry \in Entry /\ EndSave(entry, row) /\ UNCHANGED <<node, editor, typed>>
        /\ stray' \subseteq stray \cup {s}
    BY <1>14 DEF SaveUnheard, user, TypeOK
  <2>2. \A t \in stray' : Own(t.data) \subseteq typed
    BY <2>1 DEF Owned, TypedFirst
  <2>3. QED
    BY <2>1, <2>2, EndSaveTyped DEF Owned, TypedFirst, Pending
<1>15. ASSUME NEW v \in wire, Deliver(v) PROVE Owned'
  <2>1. entry' = entry \/ entry' = NoEntry
    BY <1>15, AgedIs DEF Deliver, RowIs
  <2>2. QED
    BY <1>15, <1>still, <2>1 DEF Deliver, node, user
<1>16. ASSUME NEW v \in wire, Coalesce(v) PROVE Owned'
  BY <1>16, <1>still DEF Coalesce, node, user
<1>17. CASE AskGrid \/ AnswerGrid \/ AskBody \/ AnswerBody \/ BodyUnheard
  BY <1>17, <1>still DEF AskGrid, AnswerGrid, AskBody, AnswerBody, BodyUnheard, node, user
<1>18. CASE GridLands
  <2>1. entry' = entry \/ entry' = NoEntry
    BY <1>18, AgedIs DEF GridLands, RowIs
  <2>2. QED
    BY <1>18, <1>still, <2>1 DEF GridLands, node, user
<1>19. CASE BodyLands
  <2>1. UNCHANGED <<version, hist, stray, queue, flight, owed, typed>>
    BY <1>19 DEF BodyLands, node, user
  <2>2. Own(read.data) \subseteq typed
    BY <1>19 DEF BodyLands, Filed, ReadFiled, Owned, TypedFirst
  <2>3. \/ entry' = entry
        \/ entry'.data = read.data /\ ~entry'.dirty
    BY <1>19 DEF BodyLands, Fetched
  <2>4. editor' = entry'.data \/ (editor' = editor /\ (entry'.dirty => entry' = entry))
    BY <1>19, <2>3 DEF BodyLands
  <2>5. QED
    BY <2>1, <2>2, <2>3, <2>4 DEF Owned, TypedFirst, Pending
<1>20. CASE UNCHANGED vars
  BY <1>20, <1>still DEF vars
<1> QED
  BY <1>1, <1>2, <1>3, <1>4, <1>5, <1>6, <1>7, <1>8, <1>9, <1>10, <1>11, <1>12, <1>13, <1>14,
     <1>15, <1>16, <1>17, <1>18, <1>19, <1>20 DEF Next

\* A write that keeps the live words of the document loses none.
LEMMA CommitOwn ==
    ASSUME TypeOK, Filed, OwnWords, OwnEntry, OwnQueue, StrayKept, OwnStray,
           NEW d \in Document, Live \cap Body \subseteq d, Commit(d),
           UNCHANGED <<entry, editor, queue, user, refused>>, stray' \subseteq stray
    PROVE  /\ OwnWords' /\ OwnEntry' /\ OwnQueue' /\ OwnStray'
           /\ entry.base > 0 => hist'[entry.base] = hist[entry.base]
           /\ Live' = Live
<1>1. /\ version' \in Version /\ version <= version' /\ hist'[version'] = d
      /\ \A v \in 1..version : hist'[v] = hist[v]
      /\ \A v \in 1..version' : v \in 1..version \/ v = version'
  BY CommitGrows
<1>2. Live' = Live
  BY DEF Live, user
<1>3. entry.base > 0 => hist'[entry.base] = hist[entry.base]
  BY <1>1, WordsTyped DEF Filed, EntryFiled
<1>4. OwnWords'
  <2>1. Body' = d
    BY <1>1 DEF Body
  <2>2. \A v \in 1..version' : Live \cap hist'[v] \subseteq d
    BY <1>1 DEF OwnWords
  <2>3. QED
    BY <1>2, <2>1, <2>2 DEF OwnWords
<1>5. OwnEntry' /\ OwnQueue'
  BY <1>2, <1>3 DEF OwnEntry, OwnQueue, Follows, Holds
<1>6. OwnStray'
  <2>1. ASSUME NEW s \in stray', ~s.orphan, s.claim > 0
        PROVE  Live \cap hist'[s.claim] \subseteq s.data
    <3>1. s \in stray /\ s.claim \in 0..MaxVersion
      BY DEF TypeOK, Stray
    <3>2. s.claim <= version /\ Live \cap hist[s.claim] \subseteq s.data
      BY <2>1, <3>1 DEF StrayKept, OwnStray
    <3>3. s.claim \in 1..version
      BY <2>1, <3>1, <3>2, WordsTyped
    <3>4. QED
      BY <1>1, <3>2, <3>3
  <2>2. QED
    BY <1>2, <2>1 DEF OwnStray
<1>7. QED
  BY <1>2, <1>3, <1>4, <1>5, <1>6

\* The chain runs on under an entry that the saves in it follow, or under none,
\* and then every save left in it is an orphan.
LEMMA EndSaveOwn ==
    ASSUME TypeOK, Filed, QueueKept, OwnQueue,
           NEW e \in Entry, NEW rw, e.held => entry.held,
           e.held =>
               /\ e.base > 0 => Live \cap hist[e.base] \subseteq editor
               /\ \A i \in DOMAIN queue : ~queue[i].orphan =>
                      /\ e.base > 0 => Live \cap hist[e.base] \subseteq queue[i].data
                      /\ Live \cap queue[i].data \subseteq e.data
                      /\ ~e.dirty => Live \cap e.data \subseteq queue[i].data,
           EndSave(e, rw), UNCHANGED <<node, editor>>, e.held => Live' = Live
    PROVE  OwnEntry' /\ OwnQueue' /\ OwnFlight'
<1> DEFINE kept  == Aged(e, rw)
           saves == IF entry.held /\ ~kept.held THEN Orphans(queue) ELSE queue
           Fits(d) == /\ entry'.base > 0 => Live' \cap hist'[entry'.base] \subseteq d
                      /\ Live' \cap d \subseteq entry'.data
                      /\ ~entry'.dirty => Live' \cap entry'.data \subseteq d
<1>1. queue \in Seq(Save) /\ hist' = hist /\ editor' = editor
  BY DEF TypeOK, node
<1>2. entry' = kept /\ (kept = e \/ kept = NoEntry) /\ ~NoEntry.held
  BY AgedIs DEF EndSave, NoEntry
<1>3. saves \in Seq(Save) /\ Len(saves) = Len(queue) /\ DOMAIN saves = DOMAIN queue
  BY <1>1, OrphansType
<1>4. ASSUME NEW i \in DOMAIN queue, ~saves[i].orphan
      PROVE  kept.held /\ kept = e /\ saves = queue
  <2>1. ~(entry.held /\ ~kept.held)
    BY <1>1, <1>3, <1>4, OrphansType
  <2>2. saves = queue
    BY <2>1
  <2>3. entry.held
    BY <1>4, <2>2 DEF QueueKept
  <2>4. QED
    BY <1>2, <2>1, <2>2, <2>3
<1>5. OwnEntry'
  BY <1>1, <1>2 DEF OwnEntry, Holds
<1>6. CASE queue = <<>>
  <2>1. flight' = Idle /\ queue' = <<>>
    BY <1>6 DEF EndSave
  <2>2. QED
    BY <1>5, <2>1 DEF OwnQueue, OwnFlight, Writing, Idle
<1>7. CASE queue # <<>>
  <2>1. flight' = Sent(Head(saves), kept) /\ queue' = Tail(saves)
    BY <1>7 DEF EndSave
  <2>2. 1 \in DOMAIN queue /\ Head(saves) = saves[1]
        /\ \A i \in DOMAIN queue' : i + 1 \in DOMAIN queue /\ queue'[i] = saves[i + 1]
    BY <1>1, <1>3, <1>7, <2>1
  <2>3. flight'.data = saves[1].data /\ flight'.orphan = saves[1].orphan
    BY <2>1, <2>2 DEF Sent
  <2>4. ASSUME NEW i \in DOMAIN queue, ~saves[i].orphan
        PROVE  Fits(saves[i].data) /\ saves = queue
    <3>1. kept.held /\ kept = e /\ saves = queue
      BY <1>4, <2>4
    <3>2. Live' = Live /\ entry' = e /\ ~queue[i].orphan
      BY <1>2, <2>4, <3>1
    <3>3. QED
      BY <1>1, <3>1, <3>2
  <2>5. ASSUME NEW i \in DOMAIN queue, NEW j \in DOMAIN queue, i < j, ~saves[i].orphan, ~saves[j].orphan
        PROVE  Live' \cap saves[i].data \subseteq saves[j].data
    <3>1. kept.held /\ kept = e /\ saves = queue
      BY <1>4, <2>5
    <3>2. Live' = Live
      BY <3>1
    <3>3. QED
      BY <2>5, <3>1, <3>2 DEF OwnQueue
  <2> HIDE DEF saves, kept, Fits
  <2>6. OwnQueue'
    <3>1. ASSUME NEW i \in DOMAIN queue', ~queue'[i].orphan
          PROVE  /\ Fits(queue'[i].data)
                 /\ \A j \in DOMAIN queue' : i < j /\ ~queue'[j].orphan =>
                        Live' \cap queue'[i].data \subseteq queue'[j].data
      <4>1. Fits(queue'[i].data)
        <5>1. i + 1 \in DOMAIN queue /\ queue'[i] = saves[i + 1]
          BY <2>2
        <5>2. Fits(saves[i + 1].data)
          BY <2>4, <3>1, <5>1
        <5>3. QED
          BY <5>1, <5>2
      <4>2. ASSUME NEW j \in DOMAIN queue', i < j, ~queue'[j].orphan
            PROVE  Live' \cap queue'[i].data \subseteq queue'[j].data
        <5>1. i + 1 \in DOMAIN queue /\ j + 1 \in DOMAIN queue
              /\ queue'[i] = saves[i + 1] /\ queue'[j] = saves[j + 1]
          BY <2>2
        <5>2. i + 1 < j + 1
          BY <1>1, <2>1, <1>3, <4>2, <5>1
        <5>3. QED
          BY <2>5, <3>1, <4>2, <5>1, <5>2
      <4>3. QED
        BY <4>1, <4>2
    <3>2. QED
      BY <3>1 DEF OwnQueue, Follows, Holds, Fits
  <2>7. OwnFlight'
    <3>1. ASSUME ~flight'.orphan
          PROVE  /\ Fits(flight'.data)
                 /\ \A i \in DOMAIN queue' : ~queue'[i].orphan =>
                        Live' \cap flight'.data \subseteq queue'[i].data
      <4>1. Fits(saves[1].data)
        BY <2>2, <2>3, <2>4, <3>1
      <4>2. ASSUME NEW i \in DOMAIN queue', ~queue'[i].orphan
            PROVE  Live' \cap flight'.data \subseteq queue'[i].data
        <5>1. i + 1 \in DOMAIN queue /\ queue'[i] = saves[i + 1] /\ 1 < i + 1
          BY <1>1, <1>3, <2>1, <2>2
        <5>2. QED
          BY <2>2, <2>3, <2>5, <3>1, <4>2, <5>1
      <4>3. QED
        BY <2>3, <4>1, <4>2
    <3>2. QED
      BY <3>1 DEF OwnFlight, Follows, Holds, Fits
  <2>8. QED
    BY <1>5, <2>6, <2>7
<1>8. QED
  BY <1>6, <1>7

\* Nothing is live before it is typed.
LEMMA InitOwn == Init => OwnKept
BY DEF Init, OwnKept, OwnWords, OwnEntry, OwnQueue, OwnFlight, OwnStray, Live, Writing, NoEntry, Idle

\* A keystroke keeps every live word: the textarea has all of them, and a word
\* typed for the first time is nowhere else.
LEMMA EditOwn ==
    ASSUME TypeOK, Filed, Owned, EntryKept, QueueKept, FlightKept, StrayKept,
           OwnWords, OwnEntry, OwnQueue, OwnFlight, OwnStray,
           NEW d, NEW w \in Mine, Edit(d),
           Live' \subseteq Live \cup {w}, w \in Live' => w \notin typed /\ w \in d,
           editor \ {w} \subseteq d
    PROVE  OwnWords' /\ OwnEntry' /\ OwnQueue' /\ OwnFlight' /\ OwnStray'
<1>1. UNCHANGED <<version, hist, stray, queue, flight>> /\ editor' = d
  BY DEF Edit, node
<1>2. entry'.held /\ entry'.dirty /\ entry'.data = d /\ entry'.base = entry.base
  BY DEF Edit, Edited, TypeOK, Entry
<1>3. ASSUME NEW X, Own(X) \subseteq typed, NEW x \in Live' \cap X
      PROVE  x \in Live /\ x # w
  BY <1>3 DEF Own
<1>4. entry.held => Live \cap entry.data \subseteq editor
  <2>1. CASE entry.dirty
    BY <2>1 DEF Owned, Pending
  <2>2. CASE ~entry.dirty
    BY <2>2, WordsTyped DEF Filed, EntryFiled, OwnEntry, Holds
  <2>3. QED
    BY <2>1, <2>2
<1>5. entry.base > 0 => entry.held /\ Live' \cap hist[entry.base] \subseteq (Live \cap hist[entry.base]) \ {w}
  <2>1. entry.base > 0 => entry.base \in 1..version
    BY WordsTyped DEF Filed, EntryFiled
  <2>2. entry.base > 0 => Own(hist[entry.base]) \subseteq typed
    BY <2>1 DEF Owned, TypedFirst
  <2>3. QED
    BY <1>3, <2>2, WordsTyped DEF Filed, EntryFiled
<1>6. OwnWords'
  <2>1. ASSUME NEW v \in 1..version
        PROVE  Live' \cap hist[v] \subseteq Body
    BY <1>3 DEF OwnWords, Owned, TypedFirst
  <2>2. ASSUME NEW x \in Live'
        PROVE  x \in Body \/ x \in d
    BY DEF OwnWords, Owned, Pending
  <2>3. QED
    BY <1>1, <1>2, <2>1, <2>2 DEF OwnWords, Body
<1>7. OwnEntry'
  BY <1>1, <1>2, <1>5 DEF OwnEntry, Holds
<1>8. ASSUME NEW X, Own(X) \subseteq typed, entry.held, Follows(X)
      PROVE  /\ entry.base > 0 => Live' \cap hist[entry.base] \subseteq X
             /\ Live' \cap X \subseteq d
  <2>1. Live' \cap X \subseteq (Live \cap X) \ {w}
    BY <1>3, <1>8
  <2>2. Live \cap X \subseteq editor
    BY <1>4, <1>8 DEF Follows
  <2>3. QED
    BY <1>5, <1>8, <2>1, <2>2 DEF Follows, Holds
<1>9. OwnQueue'
  <2>1. ASSUME NEW i \in DOMAIN queue, ~queue[i].orphan
        PROVE  /\ entry.base > 0 => Live' \cap hist[entry.base] \subseteq queue[i].data
               /\ Live' \cap queue[i].data \subseteq d
               /\ \A j \in DOMAIN queue : i < j /\ ~queue[j].orphan =>
                      Live' \cap queue[i].data \subseteq queue[j].data
    <3>1. Own(queue[i].data) \subseteq typed /\ entry.held /\ Follows(queue[i].data)
      BY <2>1 DEF Owned, TypedFirst, QueueKept, OwnQueue
    <3>2. Live' \cap queue[i].data \subseteq Live \cap queue[i].data
      BY <1>3, <3>1
    <3>3. QED
      BY <1>8, <2>1, <3>1, <3>2 DEF OwnQueue
  <2>2. QED
    BY <1>1, <1>2, <2>1 DEF OwnQueue, Follows, Holds
<1>10. OwnFlight'
  <2>1. ASSUME Writing, ~flight.orphan
        PROVE  /\ entry.base > 0 => Live' \cap hist[entry.base] \subseteq flight.data
               /\ Live' \cap flight.data \subseteq d
               /\ \A i \in DOMAIN queue : ~queue[i].orphan =>
                      Live' \cap flight.data \subseteq queue[i].data
    <3>1. Own(flight.data) \subseteq typed /\ entry.held /\ Follows(flight.data)
      BY <2>1 DEF Owned, TypedFirst, FlightKept, OwnFlight
    <3>2. Live' \cap flight.data \subseteq Live \cap flight.data
      BY <1>3, <3>1
    <3>3. QED
      BY <1>8, <2>1, <3>1, <3>2 DEF OwnFlight
  <2>2. QED
    BY <1>1, <1>2, <2>1 DEF OwnFlight, Follows, Holds, Writing
<1>11. OwnStray'
  <2>1. ASSUME NEW s \in stray, ~s.orphan, s.claim > 0
        PROVE  Live' \cap hist[s.claim] \subseteq s.data
    <3>1. s.claim \in 1..version
      BY <2>1, WordsTyped DEF StrayKept, TypeOK, Stray
    <3>2. Own(hist[s.claim]) \subseteq typed
      BY <3>1 DEF Owned, TypedFirst
    <3>3. QED
      BY <1>3, <2>1, <3>2 DEF OwnStray
  <2>2. QED
    BY <1>1, <2>1 DEF OwnStray
<1>12. QED
  BY <1>6, <1>7, <1>9, <1>10, <1>11

\* A flush of unsaved text puts all the live words at the end of the chain.
LEMMA EnqueueOwn ==
    ASSUME TypeOK, Filed, Owned, OwnEntry, OwnQueue, OwnFlight,
           entry.dirty, Enqueue, UNCHANGED <<hist, entry, user, refused>>
    PROVE  OwnQueue' /\ OwnFlight'
<1> DEFINE s == [data |-> entry.data, row |-> row, orphan |-> FALSE]
<1>1. queue \in Seq(Save) /\ Live' = Live
  BY DEF TypeOK, Live, user
<1>2. Follows(entry.data) /\ entry.held
  BY DEF Owned, Pending, OwnEntry, Follows, Filed, EntryFiled
<1>3. CASE Writing
  <2>1. queue' = Append(queue, s) /\ flight' = flight
    BY <1>3 DEF Enqueue
  <2>2. Len(queue) \in Nat /\ DOMAIN queue' = 1..(Len(queue) + 1) /\ DOMAIN queue = 1..Len(queue)
        /\ queue'[Len(queue) + 1] = s /\ \A i \in 1..Len(queue) : queue'[i] = queue[i]
    BY <1>1, <2>1
  <2>3. ASSUME NEW i \in DOMAIN queue', ~queue'[i].orphan
        PROVE  /\ Follows(queue'[i].data)
               /\ \A j \in DOMAIN queue' : i < j /\ ~queue'[j].orphan =>
                      Live \cap queue'[i].data \subseteq queue'[j].data
    <3>1. CASE i = Len(queue) + 1
      BY <1>2, <2>2, <3>1
    <3>2. CASE i \in 1..Len(queue)
      <4>1. queue'[i] = queue[i] /\ Follows(queue[i].data)
        BY <2>2, <2>3, <3>2 DEF OwnQueue
      <4>2. ASSUME NEW j \in DOMAIN queue', i < j, ~queue'[j].orphan
            PROVE  Live \cap queue'[i].data \subseteq queue'[j].data
        <5>1. CASE j = Len(queue) + 1
          BY <2>2, <4>1, <5>1 DEF Follows
        <5>2. CASE j \in 1..Len(queue)
          BY <2>2, <2>3, <3>2, <4>2, <5>2 DEF OwnQueue
        <5>3. QED
          BY <2>2, <5>1, <5>2
      <4>3. QED
        BY <4>1, <4>2
    <3>3. QED
      BY <2>2, <3>1, <3>2
  <2>4. OwnQueue'
    BY <1>1, <2>3 DEF OwnQueue, Follows, Holds
  <2>5. ASSUME Writing, ~flight.orphan, NEW i \in DOMAIN queue', ~queue'[i].orphan
        PROVE  Live \cap flight.data \subseteq queue'[i].data
    <3>1. CASE i = Len(queue) + 1
      BY <2>2, <2>5, <3>1 DEF OwnFlight, Follows
    <3>2. CASE i \in 1..Len(queue)
      BY <2>2, <2>5, <3>2 DEF OwnFlight
    <3>3. QED
      BY <2>2, <3>1, <3>2
  <2>6. OwnFlight'
    BY <1>1, <2>1, <2>5 DEF OwnFlight, Follows, Holds, Writing
  <2>7. QED
    BY <2>4, <2>6
<1>4. CASE ~Writing
  <2>1. queue = <<>> /\ queue' = queue /\ flight'.data = entry.data /\ DOMAIN queue = {}
    BY <1>4 DEF Enqueue, Sent, Filed, ChainRuns
  <2>2. QED
    BY <1>1, <1>2, <2>1 DEF OwnQueue, OwnFlight, Follows, Holds
<1>5. QED
  BY <1>3, <1>4

\* Every step keeps the user's live words.
LEMMA NextOwn == TypeOK /\ Filed /\ Kept /\ Owned /\ OwnKept /\ [Next]_vars => OwnKept'
<1> SUFFICES ASSUME TypeOK, Filed, Kept, Owned, OwnKept, [Next]_vars, ~tainted'
             PROVE  OwnWords' /\ OwnEntry' /\ OwnQueue' /\ OwnFlight' /\ OwnStray'
  BY DEF OwnKept
<1> DEFINE Goal == OwnWords' /\ OwnEntry' /\ OwnQueue' /\ OwnFlight' /\ OwnStray'
<1>known. ~tainted => /\ EntryKept /\ QueueKept /\ FlightKept /\ StrayKept
                      /\ OwnWords /\ OwnEntry /\ OwnQueue /\ OwnFlight /\ OwnStray
  BY DEF Kept, OwnKept
<1>same. ASSUME ~tainted, UNCHANGED <<version, hist, entry, queue, user, refused>>,
                stray' \subseteq stray,
                flight'.data = flight.data, flight'.orphan = flight.orphan, Writing' = Writing,
                editor' = editor \/ (editor' = entry.data /\ ~entry.dirty)
         PROVE  Goal
  <2>1. Live' = Live /\ Body' = Body
    BY <1>same DEF Live, user, Body
  <2>2. OwnEntry'
    <3>1. entry.held /\ ~entry.dirty => Holds(entry.data)
      BY DEF Filed, EntryFiled, Holds
    <3>2. QED
      BY <1>same, <1>known, <2>1, <3>1 DEF OwnEntry, Holds
  <2>3. OwnWords' /\ OwnStray'
    BY <1>same, <1>known, <2>1 DEF OwnWords, OwnStray
  <2>4. OwnQueue' /\ OwnFlight'
    BY <1>same, <1>known, <2>1 DEF OwnQueue, OwnFlight, Follows, Holds
  <2>5. QED
    BY <2>2, <2>3, <2>4
<1>1. ASSUME NEW w \in Mine, Type(w) PROVE Goal
  <2>1. Edit(editor \cup {w}) /\ w \notin typed /\ typed' = typed \cup {w} /\ erased' = erased
        /\ refused' = refused /\ ~tainted
    BY <1>1 DEF Type, Edit
  <2>2. Live' \subseteq Live \cup {w}
    BY <2>1 DEF Live
  <2>3. QED
    BY <1>known, <2>1, <2>2, EditOwn
<1>2. ASSUME NEW w \in Mine, Erase(w) PROVE Goal
  <2>1. Edit(editor \ {w}) /\ typed' = typed /\ erased' = erased \cup {w}
        /\ refused' = refused /\ ~tainted
    BY <1>2 DEF Erase, Edit
  <2>2. Live' \subseteq Live /\ w \notin Live'
    BY <2>1 DEF Live
  <2>3. QED
    BY <1>known, <2>1, <2>2, EditOwn
<1>3. CASE ShowEditor
  <2>1. ~entry.dirty /\ editor' = entry.data
    BY <1>3 DEF ShowEditor, Owned, Pending
  <2>2. QED
    BY <1>3, <1>same, <2>1 DEF ShowEditor, node, Writing
<1>flush. ASSUME (entry.dirty /\ Enqueue) \/ UNCHANGED <<queue, flight>>,
                 UNCHANGED <<node, stray, entry, editor, user, refused, tainted>>
          PROVE  Goal
  <2>1. CASE UNCHANGED <<queue, flight>>
    BY <1>flush, <1>same, <2>1 DEF node, Writing
  <2>2. CASE entry.dirty /\ Enqueue
    <3>1. OwnQueue' /\ OwnFlight'
      BY <1>flush, <1>known, <2>2, EnqueueOwn DEF node
    <3>2. Live' = Live /\ Body' = Body /\ ~tainted
      BY <1>flush DEF Live, user, Body, node
    <3>3. OwnWords' /\ OwnEntry' /\ OwnStray'
      BY <1>flush, <1>known, <3>2 DEF OwnWords, OwnEntry, OwnStray, Holds, node
    <3>4. QED
      BY <3>1, <3>3
  <2>3. QED
    BY <1>flush, <2>1, <2>2
<1>4. CASE Sweep
  BY <1>4, <1>flush DEF Sweep
<1>5. CASE Drain
  BY <1>5, <1>flush DEF Drain
<1>6. CASE Ascend
  BY <1>6, <1>flush DEF Ascend
<1>commit. ASSUME NEW d \in Document, Live \cap Body \subseteq d, Commit(d), ~tainted,
                  UNCHANGED <<entry, editor, queue, user, refused>>, stray' \subseteq stray,
                  flight'.data = flight.data, flight'.orphan = flight.orphan, Writing' = Writing
           PROVE  Goal
  <2>1. /\ OwnWords' /\ OwnEntry' /\ OwnQueue' /\ OwnStray'
        /\ entry.base > 0 => hist'[entry.base] = hist[entry.base]
        /\ Live' = Live
    BY <1>commit, <1>known, CommitOwn
  <2>2. OwnFlight'
    BY <1>commit, <1>known, <2>1 DEF OwnFlight, Follows, Holds
  <2>3. QED
    BY <2>1, <2>2
<1>7. CASE NodeTakes
  <2>1. ~tainted /\ ~flight.orphan /\ flight.phase = "sent" /\ flight.claim = version
    BY <1>7 DEF NodeTakes
  <2>2. entry.base = version /\ Follows(flight.data)
    BY <1>known, <2>1 DEF FlightKept, OwnFlight, Writing
  <2>3. Live \cap Body \subseteq flight.data
    BY <2>2, WordsTyped DEF Follows, Holds
  <2>4. flight \in Flight /\ flight.data \in Document
    BY DEF TypeOK, Flight
  <2>5. flight'.data = flight.data /\ flight'.orphan = flight.orphan /\ flight'.phase = "landed"
    BY <1>7, <2>4 DEF NodeTakes, Flight
  <2>6. Writing' = Writing
    BY <2>1, <2>5 DEF Writing
  <2>7. QED
    BY <1>7, <1>commit, <2>1, <2>3, <2>4, <2>5, <2>6 DEF NodeTakes
<1>8. CASE NodeRefuses
  <2>1. flight'.phase = "refused" /\ flight'.orphan = flight.orphan /\ flight'.data = flight.data
        /\ flight.phase = "sent"
    BY <1>8 DEF NodeRefuses, TypeOK, Flight
  <2>2. Writing' = Writing
    BY <2>1 DEF Writing
  <2>3. QED
    BY <1>8, <1>same, <2>1, <2>2 DEF NodeRefuses, node
<1>9. ASSUME NEW s \in stray, StrayArrives(s) PROVE Goal
  <2>1. s.data \in Document /\ s.orphan \in BOOLEAN /\ stray' \subseteq stray
        /\ UNCHANGED <<entry, editor, queue, flight, user, refused>>
    BY <1>9 DEF StrayArrives, TypeOK, Stray
  <2>2. Writing' = Writing
    BY <2>1 DEF Writing
  <2>3. CASE s.claim = version
    <3>1. ~tainted /\ ~s.orphan
      <4>1. tainted' = (tainted \/ s.orphan)
        BY <1>9, <2>3, Zenon DEF StrayArrives
      <4>2. QED
        BY <4>1
    <3>2. Live \cap Body \subseteq s.data
      BY <1>known, <2>3, <3>1, WordsTyped DEF OwnStray
    <3>3. QED
      BY <1>9, <1>commit, <2>1, <2>2, <2>3, <3>1, <3>2 DEF StrayArrives
  <2>4. CASE s.claim # version
    BY <1>9, <1>same, <2>1, <2>2, <2>4 DEF StrayArrives
  <2>5. QED
    BY <2>3, <2>4
<1>10. ASSUME NEW s \in stray, StrayEaten(s) PROVE Goal
  BY <1>10, <1>same DEF StrayEaten, node, Writing
<1>11. ASSUME NEW w \in Theirs, OtherWrites(w) PROVE Goal
  <2>1. Body \cup {w} \in Document
    BY WordsTyped DEF Document
  <2>2. QED
    BY <1>11, <1>commit, <2>1 DEF OtherWrites, Writing
<1>12. CASE SaveLanded
  <2> DEFINE v == flight.answer
             e == Saved(entry, flight.data, v)
             rw == IF v >= row THEN v ELSE row
  <2>1. ~tainted /\ UNCHANGED <<version, hist, stray, editor, user, refused>> /\ EndSave(e, rw)
    BY <1>12 DEF SaveLanded, node
  <2>2. ~flight.orphan /\ Writing
    BY <1>12, <1>known, <2>1 DEF SaveLanded, FlightKept, Writing
  <2>3. entry.held /\ Follows(flight.data)
        /\ \A i \in DOMAIN queue : ~queue[i].orphan => Live \cap flight.data \subseteq queue[i].data
    BY <1>known, <2>1, <2>2 DEF FlightKept, OwnFlight
  <2>4. v \in 1..version /\ hist[v] = flight.data /\ v \in Version /\ flight.data \in Document
        /\ entry \in Entry
    BY <1>12 DEF SaveLanded, Filed, AnswerFiled, TypeOK, Flight, Version
  <2>5. e \in Entry
    BY <2>4, SavedType
  <2>6. e.base = v /\ \/ e.dirty /\ entry.dirty /\ e.data = entry.data
                      \/ ~e.dirty /\ e.data = flight.data /\ (entry.dirty => entry.data = flight.data)
    BY <2>4 DEF Saved, Entry
  <2> HIDE DEF e, rw, v
  <2>7. Live \cap hist[e.base] \subseteq editor
    <3>1. CASE entry.dirty
      BY <2>3, <2>4, <2>6, <3>1 DEF Follows, Owned, Pending
    <3>2. CASE ~entry.dirty
      <4>1. entry.base > 0 /\ entry.data = hist[entry.base]
        BY <2>3, <3>2, WordsTyped DEF Filed, EntryFiled
      <4>2. Live \cap entry.data \subseteq editor
        BY <1>known, <2>1, <2>3, <4>1 DEF OwnEntry, Holds
      <4>3. QED
        BY <2>3, <2>4, <2>6, <4>2 DEF Follows
    <3>3. QED
      BY <3>1, <3>2
  <2>8. ASSUME NEW i \in DOMAIN queue, ~queue[i].orphan
        PROVE  /\ Live \cap hist[e.base] \subseteq queue[i].data
               /\ Live \cap queue[i].data \subseteq e.data
               /\ ~e.dirty => Live \cap e.data \subseteq queue[i].data
    <3>1. Live \cap queue[i].data \subseteq entry.data /\ Live \cap flight.data \subseteq queue[i].data
      BY <1>known, <2>1, <2>3, <2>8 DEF OwnQueue, Follows
    <3>2. Live \cap queue[i].data \subseteq e.data
      BY <2>3, <2>6, <3>1 DEF Follows
    <3>3. QED
      BY <2>4, <2>6, <3>1, <3>2
  <2>9. Live' = Live /\ Body' = Body
    BY <2>1 DEF Live, user, Body
  <2>10. OwnEntry' /\ OwnQueue' /\ OwnFlight'
    BY <1>known, <2>1, <2>3, <2>5, <2>7, <2>8, <2>9, EndSaveOwn DEF node
  <2>11. OwnStray'
    BY <1>known, <2>1, <2>9 DEF OwnStray
  <2>12. OwnWords'
    <3>1. entry' = e \/ ~e.dirty
      BY <2>1 DEF EndSave, Aged, Behind
    <3>2. ASSUME NEW w \in Live
          PROVE  w \in Body \/ (entry'.dirty /\ w \in entry'.data)
      <4>1. w \in Body \/ (entry.dirty /\ w \in entry.data)
        BY <1>known, <2>1 DEF OwnWords
      <4>2. CASE e.dirty
        BY <2>6, <3>1, <4>1, <4>2
      <4>3. CASE ~e.dirty
        <5>1. entry.dirty => entry.data = hist[v]
          BY <2>4, <2>6, <4>3
        <5>2. QED
          BY <1>known, <2>1, <2>4, <4>1, <5>1 DEF OwnWords
      <4>4. QED
        BY <4>2, <4>3
    <3>3. QED
      BY <1>known, <2>1, <2>9, <3>2 DEF OwnWords
  <2>13. QED
    BY <2>10, <2>11, <2>12
<1>13. CASE SaveRefused
  <2>1. ~tainted /\ UNCHANGED <<version, hist, stray, editor, user>> /\ EndSave(NoEntry, row)
        /\ refused' = (IF entry.dirty THEN refused \cup entry.data ELSE refused)
    BY <1>13 DEF SaveRefused, node
  <2>2. NoEntry \in Entry /\ ~NoEntry.held
    BY NoEntryType DEF NoEntry
  <2>3. OwnEntry' /\ OwnQueue' /\ OwnFlight'
    BY <1>known, <2>1, <2>2, EndSaveOwn DEF node
  <2>4. Live' \subseteq Live /\ Body' = Body /\ (entry.dirty => Live' \cap entry.data = {})
    BY <2>1 DEF Live, user, Body
  <2>5. OwnWords' /\ OwnStray'
    BY <1>known, <2>1, <2>4 DEF OwnWords, OwnStray
  <2>6. QED
    BY <2>3, <2>5
<1>14. CASE SaveUnheard
  <2>1. ~tainted /\ UNCHANGED <<version, hist, editor, user, refused>> /\ EndSave(entry, row) /\ Writing
    BY <1>14 DEF SaveUnheard, node
  <2>2. Live' = Live /\ Body' = Body /\ entry \in Entry
    BY <2>1 DEF Live, user, Body, TypeOK
  <2>3. OwnEntry' /\ OwnQueue' /\ OwnFlight'
    <3>1. entry.held => (entry.base > 0 => Live \cap hist[entry.base] \subseteq editor)
      BY <1>known, <2>1 DEF OwnEntry, Holds
    <3>2. \A i \in DOMAIN queue : ~queue[i].orphan =>
             /\ entry.base > 0 => Live \cap hist[entry.base] \subseteq queue[i].data
             /\ Live \cap queue[i].data \subseteq entry.data
             /\ ~entry.dirty => Live \cap entry.data \subseteq queue[i].data
      BY <1>known, <2>1 DEF OwnQueue, Follows, Holds
    <3>3. QED
      BY <1>known, <2>1, <2>2, <3>1, <3>2, EndSaveOwn DEF node
  <2>4. OwnWords'
    <3>1. entry' = entry \/ ~entry.dirty
      BY <2>1 DEF EndSave, Aged, Behind
    <3>2. QED
      BY <1>known, <2>1, <2>2, <3>1 DEF OwnWords
  <2>5. OwnStray'
    <3> DEFINE s == [data |-> flight.data, claim |-> flight.claim, orphan |-> flight.orphan]
    <3>1. stray' \subseteq stray \cup {s}
      BY <1>14 DEF SaveUnheard
    <3>2. ~flight.orphan /\ flight.claim > 0 => Live \cap hist[flight.claim] \subseteq flight.data
      BY <1>known, <2>1 DEF FlightKept, OwnFlight, Follows, Holds
    <3>3. QED
      BY <1>known, <2>1, <2>2, <3>1, <3>2 DEF OwnStray
  <2>6. QED
    BY <2>3, <2>4, <2>5
<1>row. ASSUME NEW v, RowIs(v), UNCHANGED <<node, stray, editor, queue, flight, user, refused, tainted>>
        PROVE  Goal
  <2>1. ~tainted /\ UNCHANGED <<version, hist, stray, editor, queue, flight, user, refused>>
    BY <1>row DEF node
  <2>2. entry' = entry \/ (~Writing /\ ~entry.dirty /\ entry' = NoEntry)
    BY <1>row DEF RowIs, Aged, Behind
  <2>3. CASE entry' = entry
    BY <1>same, <2>1, <2>3 DEF Writing
  <2>4. CASE ~Writing /\ ~entry.dirty /\ entry' = NoEntry
    <3>1. queue' = <<>> /\ ~Writing'
      BY <2>1, <2>4 DEF Filed, ChainRuns, Writing
    <3>2. Live' = Live /\ Body' = Body
      BY <2>1 DEF Live, user, Body
    <3>3. OwnWords' /\ OwnStray'
      BY <1>known, <2>1, <2>4, <3>2 DEF OwnWords, OwnStray
    <3>4. QED
      BY <2>4, <3>1, <3>3 DEF OwnEntry, OwnQueue, OwnFlight, NoEntry
  <2>5. QED
    BY <2>2, <2>3, <2>4
<1>15. ASSUME NEW v \in wire, Deliver(v) PROVE Goal
  <2>1. CASE v >= row
    BY <1>15, <1>row, <2>1 DEF Deliver
  <2>2. CASE ~(v >= row)
    BY <1>15, <1>same, <2>2 DEF Deliver, node, Writing
  <2>3. QED
    BY <2>1, <2>2
<1>16. ASSUME NEW v \in wire, Coalesce(v) PROVE Goal
  BY <1>16, <1>same DEF Coalesce, node, Writing
<1>17. CASE AskGrid \/ AnswerGrid \/ AskBody \/ AnswerBody \/ BodyUnheard
  BY <1>17, <1>same DEF AskGrid, AnswerGrid, AskBody, AnswerBody, BodyUnheard, node, Writing
<1>18. CASE GridLands
  BY <1>18, <1>row DEF GridLands
<1>19. CASE BodyLands
  <2>1. ~tainted /\ UNCHANGED <<version, hist, stray, queue, flight, user, refused>>
        /\ entry' = Fetched(entry, read)
    BY <1>19 DEF BodyLands, node
  <2>2. CASE Storable(entry, read)
    <3>1. ~entry.dirty /\ ~entry.held
      <4>1. ~entry.dirty /\ read.phase = "answered" /\ entry.base \in Nat
        BY <1>19, <2>2 DEF BodyLands, Storable, TypeOK, Entry
      <4>2. entry.held => entry.base > 0
        BY <4>1 DEF Filed, EntryFiled
      <4>3. QED
        BY <1>known, <2>1, <4>1, <4>2 DEF EntryKept
    <3>2. entry'.held /\ ~entry'.dirty /\ entry'.data = hist[entry'.base] /\ editor' = entry'.data
      BY <1>19, <2>1, <2>2 DEF Fetched, BodyLands, Filed, ReadFiled
    <3>3. Live' = Live /\ Body' = Body
      BY <2>1 DEF Live, user, Body
    <3>4. OwnWords' /\ OwnStray'
      BY <1>known, <2>1, <3>1, <3>3 DEF OwnWords, OwnStray
    <3>5. OwnEntry'
      BY <2>1, <3>2 DEF OwnEntry, Holds
    <3>6. OwnQueue' /\ OwnFlight'
      BY <1>known, <2>1, <3>1 DEF QueueKept, FlightKept, OwnQueue, OwnFlight, Writing
    <3>7. QED
      BY <3>4, <3>5, <3>6
  <2>3. CASE ~Storable(entry, read)
    <3>1. entry' = entry /\ (editor' = editor \/ (editor' = entry.data /\ ~entry.dirty))
      BY <1>19, <2>1, <2>3 DEF Fetched, BodyLands
    <3>2. QED
      BY <1>same, <2>1, <3>1 DEF Writing
  <2>4. QED
    BY <2>2, <2>3
<1>20. CASE UNCHANGED vars
  BY <1>20, <1>same DEF vars, user, Writing
<1> QED
  BY <1>1, <1>2, <1>3, <1>4, <1>5, <1>6, <1>7, <1>8, <1>9, <1>10, <1>11, <1>12, <1>13, <1>14,
     <1>15, <1>16, <1>17, <1>18, <1>19, <1>20 DEF Next

OInv == IInv /\ Owned /\ OwnKept

(***************************************************************************)
(* No typed word is lost silently: until the node takes a save whose entry *)
(* was gone when it was sent, a word the user typed and did not erase is   *)
(* in the document, in the dirty entry the outbox owes, or was in an entry *)
(* the node refused (cache.go PutSavedContent, mutate.go, outbox.go).      *)
(***************************************************************************)
THEOREM NoWordIsLostSilently == Spec => []NoSilentLossBeforeOrphan
<1>1. Init => OInv
  BY InitSound, InitKept, InitOwned, InitOwn DEF OInv, IInv
<1>2. OInv /\ [Next]_vars => OInv'
  BY NextSound, NextKept, NextOwned, NextOwn DEF OInv, IInv
<1>3. OInv => NoSilentLossBeforeOrphan
  BY DEF OInv, Owned, Pending, OwnKept, OwnWords, Live, NoSilentLossBeforeOrphan, NoSilentLoss
<1> QED BY <1>1, <1>2, <1>3, PTL DEF Spec

----------------------------------------------------------------------------
(***************************************************************************)
(* The basis.                                                              *)
(***************************************************************************)

\* While the user writes alone and every call is answered, an answer names the
\* document's version: nothing else writes, and the chain is serial.
AnswersAreNow ==
    /\ lost = 0 => stray = {}
    /\ Alone /\ flight.phase = "landed" => flight.answer = version

\* Somebody else's word, once written, stays in the document's past.
LEMMA AloneBefore ==
    ASSUME TypeOK, NEW d \in Document, Commit(d), UNCHANGED lost, Alone'
    PROVE  Alone /\ Foreign(d) = {}
<1>1. /\ version' \in Version /\ hist'[version'] = d /\ version \in Nat /\ version <= version'
      /\ \A v \in 1..version : hist'[v] = hist[v]
  BY CommitGrows DEF TypeOK, Version
<1>2. version' \in 1..version' /\ \A v \in 1..version : v \in 1..version'
  BY <1>1 DEF Version
<1>3. QED
  BY <1>1, <1>2 DEF Alone, Foreign

\* Every step keeps answers current.
LEMMA NextAnswers == TypeOK /\ Filed /\ AnswersAreNow /\ [Next]_vars => AnswersAreNow'
<1> SUFFICES ASSUME TypeOK, Filed, AnswersAreNow, [Next]_vars PROVE AnswersAreNow'
  OBVIOUS
<1>same. ASSUME UNCHANGED <<version, hist, lost>>, stray' \subseteq stray,
                flight' = flight \/ flight'.phase # "landed"
         PROVE  AnswersAreNow'
  BY <1>same DEF AnswersAreNow, Alone
<1>commit. ASSUME NEW d \in Document, Commit(d), UNCHANGED lost, stray' \subseteq stray,
                  \/ flight'.answer = version'
                  \/ Foreign(d) # {}
           PROVE  AnswersAreNow'
  BY <1>commit, AloneBefore DEF AnswersAreNow
<1>end. ASSUME NEW e, NEW rw, EndSave(e, rw), UNCHANGED <<version, hist>>,
               \/ UNCHANGED <<lost, stray>>
               \/ lost' # 0
        PROVE  AnswersAreNow'
  <2>1. flight'.phase # "landed"
    BY <1>end DEF EndSave, Idle, Sent
  <2>2. QED
    BY <1>end, <2>1 DEF AnswersAreNow, Alone
<1>flush. ASSUME Enqueue \/ UNCHANGED flight, UNCHANGED <<node, lost, stray>>
          PROVE  AnswersAreNow'
  BY <1>flush, <1>same DEF Enqueue, Sent, node
<1>1. ASSUME NEW w \in Mine, Type(w) \/ Erase(w) PROVE AnswersAreNow'
  BY <1>1, <1>same DEF Type, Erase, Edit, node
<1>2. CASE ShowEditor \/ AskGrid \/ AnswerGrid \/ AskBody \/ AnswerBody \/ BodyLands
  BY <1>2, <1>same DEF ShowEditor, AskGrid, AnswerGrid, AskBody, AnswerBody, BodyLands, node
<1>3. CASE Sweep \/ Drain \/ Ascend
  BY <1>3, <1>flush DEF Sweep, Drain, Ascend
<1>4. CASE NodeTakes
  <2>1. flight \in Flight /\ flight.data \in Document
    BY DEF TypeOK, Flight
  <2>2. flight'.answer = version'
    BY <1>4, <2>1 DEF NodeTakes, Flight
  <2>3. QED
    BY <1>4, <1>commit, <2>1, <2>2 DEF NodeTakes
<1>5. CASE NodeRefuses
  <2>1. flight'.phase = "refused"
    BY <1>5 DEF NodeRefuses, TypeOK, Flight
  <2>2. QED
    BY <1>5, <1>same, <2>1 DEF NodeRefuses, node
<1>6. ASSUME NEW s \in stray, StrayArrives(s) \/ StrayEaten(s) PROVE AnswersAreNow'
  <2>1. lost' = lost /\ lost # 0
    BY <1>6 DEF StrayArrives, StrayEaten, AnswersAreNow
  <2>2. QED
    BY <2>1 DEF AnswersAreNow, Alone
<1>7. ASSUME NEW w \in Theirs, OtherWrites(w) PROVE AnswersAreNow'
  <2>1. Body \cup {w} \in Document /\ Foreign(Body \cup {w}) # {}
    BY WordsTyped DEF Document, Foreign
  <2>2. QED
    BY <1>7, <1>commit, <2>1 DEF OtherWrites
<1>8. CASE SaveLanded
  BY <1>8, <1>end DEF SaveLanded, node
<1>9. CASE SaveRefused
  BY <1>9, <1>end DEF SaveRefused, node
<1>10. CASE SaveUnheard
  <2>1. lost' # 0
    BY <1>10 DEF SaveUnheard, TypeOK
  <2>2. QED
    BY <1>10, <1>end, <2>1 DEF SaveUnheard, node
<1>11. ASSUME NEW v \in wire, Deliver(v) \/ Coalesce(v) PROVE AnswersAreNow'
  BY <1>11, <1>same DEF Deliver, Coalesce, node
<1>12. CASE GridLands
  BY <1>12, <1>same DEF GridLands, node
<1>13. CASE BodyUnheard
  <2>1. lost' # 0
    BY <1>13 DEF BodyUnheard, TypeOK
  <2>2. QED
    BY <2>1 DEF AnswersAreNow, Alone
<1>14. CASE UNCHANGED vars
  BY <1>14, <1>same DEF vars
<1> QED
  BY <1>1, <1>2, <1>3, <1>4, <1>5, <1>6, <1>7, <1>8, <1>9, <1>10, <1>11, <1>12, <1>13, <1>14 DEF Next

(***************************************************************************)
(* A save's answer and a late body never put the entry under a version it  *)
(* had left, while the user writes alone and every call is answered        *)
(* (cache.go PutFetchedContent, PutSavedContent).                          *)
(***************************************************************************)
THEOREM BasisNeverGoesBack == Spec => BasisAdvances
<1> DEFINE Inv == TypeOK /\ Filed /\ AnswersAreNow
           Step == entry.held /\ entry'.held /\ Alone => entry'.base >= entry.base
<1>1. Init => Inv
  <2>1. Init => AnswersAreNow
    BY DEF Init, AnswersAreNow, Idle
  <2>2. QED
    BY <2>1, InitSound
<1>2. Inv /\ [Next]_vars => Inv'
  BY NextSound, NextAnswers
<1>3. Inv /\ [Next]_vars => Step
  <2> SUFFICES ASSUME TypeOK, Filed, AnswersAreNow, [Next]_vars,
                      entry.held, entry'.held, Alone
               PROVE  entry'.base >= entry.base
    OBVIOUS
  <2>1. entry \in Entry /\ entry.base \in Nat /\ entry.base <= version /\ ~NoEntry.held
    BY WordsTyped DEF Filed, EntryFiled, NoEntry
  <2>2. CASE entry' = entry \/ entry' = NoEntry
    BY <2>1, <2>2
  <2>3. ASSUME NEW d, Edit(d) PROVE entry'.base >= entry.base
    BY <2>1, <2>3 DEF Edit, Edited, Entry
  <2>4. CASE SaveLanded
    <3> DEFINE e == Saved(entry, flight.data, flight.answer)
    <3>1. e.base = flight.answer
      BY <2>1 DEF Saved, Entry
    <3>2. entry' = e
      BY <2>1, <2>4 DEF SaveLanded, EndSave, Aged
    <3>3. flight.answer = version
      BY <2>4 DEF SaveLanded, AnswersAreNow
    <3>4. QED
      BY <2>1, <3>1, <3>2, <3>3, WordsTyped
  <2>5. CASE BodyLands
    <3>1. read.base \in Nat
      BY DEF TypeOK, Read
    <3>2. QED
      BY <2>1, <2>5, <3>1 DEF BodyLands, Fetched, Storable
  <2>6. CASE SaveRefused \/ SaveUnheard
    BY <2>1, <2>2, <2>6 DEF SaveRefused, SaveUnheard, EndSave, Aged
  <2>7. ASSUME NEW v, RowIs(v) PROVE entry'.base >= entry.base
    BY <2>1, <2>2, <2>7 DEF RowIs, Aged
  <2>8. \/ UNCHANGED entry
        \/ \E d : Edit(d)
        \/ SaveLanded \/ BodyLands \/ SaveRefused \/ SaveUnheard
        \/ \E v : RowIs(v)
    BY DEF Next, vars, Type, Erase, ShowEditor, Sweep, Drain, Ascend, NodeTakes, NodeRefuses,
           StrayArrives, StrayEaten, OtherWrites, Deliver, Coalesce, AskGrid, AnswerGrid,
           GridLands, AskBody, AnswerBody, BodyUnheard
  <2>9. QED
    BY <2>2, <2>3, <2>4, <2>5, <2>6, <2>7, <2>8
<1> HIDE DEF Inv
<1>4. Spec => [][Step]_vars
  BY <1>1, <1>2, <1>3, PTL DEF Spec
<1> QED
  BY <1>4 DEF BasisAdvances
=============================================================================
