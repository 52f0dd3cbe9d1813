---------------------------- MODULE ContentSave ----------------------------
(***************************************************************************)
(* One text document, the node that owns it and one client that edits it.  *)
(*                                                                         *)
(* The node keeps a row and its bytes under one version, and takes a write *)
(* only when the write claims that version (internal/local/store).  The    *)
(* client keeps the row, one content entry (client/cache), the textarea,   *)
(* a serial chain of saves (client/outbox/chain.go), one outbox entry      *)
(* (client/outbox/outbox.go), at most one body read and one grid read.     *)
(* Other writers read the bytes, add to them and write them back.          *)
(*                                                                         *)
(* The bytes of a document are the set of words in it: what a lost update  *)
(* loses is a word.  Each word is typed at most once and erased at most    *)
(* once, which is what bounds the user.                                    *)
(***************************************************************************)
EXTENDS Integers, Sequences, FiniteSets

CONSTANTS
    Mine,         \* the words this client's user may type
    Theirs,       \* the words other writers may add
    Shared,       \* the bodies another document of the node holds too
    MaxVersion,   \* bound on the versions the document reaches
    MaxQueue,     \* bound on the saves waiting behind the one in flight
    MaxStray,     \* bound on the given-up writes still on the wire
    MaxLost       \* bound on the calls that are never answered

ASSUME BoundsAssumption ==
    /\ MaxVersion \in Nat \ {0}
    /\ MaxQueue \in Nat
    /\ MaxStray \in Nat
    /\ MaxLost \in Nat

ASSUME WordsAssumption == Mine \cap Theirs = {}

VARIABLES
    \* the node
    version,   \* the row's content version
    hist,      \* hist[v] is the document as version v left it
    \* the wire
    wire,      \* row versions published and not yet delivered
    stray,     \* writes the client has given up on, still on their way
    lost,      \* calls that have gone unanswered so far
    \* the client
    row,       \* version of the cached row
    entry,     \* the content entry
    editor,    \* what the textarea shows
    armed,     \* the debounced sweep is due
    owed,      \* the outbox holds this document's Content key
    queue,     \* saves waiting on the document's chain
    flight,    \* the chain's running save
    read,      \* the body read in flight
    gridRead,  \* the read of the row's grid in flight
    \* history
    typed,     \* words the user has typed
    erased,    \* words the user has typed and then erased
    refused,   \* words dropped because the node refused the save that had them
    tainted    \* the node has taken a save whose entry was gone when it was sent

node    == <<version, hist>>
reading == <<read, gridRead>>
user    == <<typed, erased>>
vars    == <<version, hist, wire, stray, lost, row, entry, editor, armed, owed,
            queue, flight, read, gridRead, typed, erased, refused, tainted>>

Document == SUBSET (Mine \cup Theirs)
Version  == 1..MaxVersion

\* base is the version the bytes were read at, filed that of the row they are
\* filed under.  base 0 is the zero basis: an edit with no body under it.
Entry  == [held : BOOLEAN, data : Document, base : 0..MaxVersion,
           filed : 0..MaxVersion, dirty : BOOLEAN]
NoEntry == [held |-> FALSE, data |-> {}, base |-> 0, filed |-> 0, dirty |-> FALSE]

\* A save on the chain: the bytes and the row as the flush saw them.  orphan
\* says the entry it was read from has been dropped since.
Save == [data : Document, row : Version, orphan : BOOLEAN]

Flight == [phase : {"idle", "sent", "landed", "refused"}, data : Document,
           claim : 0..MaxVersion, orphan : BOOLEAN, answer : 0..MaxVersion]
Idle == [phase |-> "idle", data |-> {}, claim |-> 0, orphan |-> FALSE, answer |-> 0]

Stray == [data : Document, claim : 0..MaxVersion, orphan : BOOLEAN]

Read == [phase : {"idle", "asked", "answered"}, asked : 0..MaxVersion,
         data : Document, base : 0..MaxVersion]
NoRead == [phase |-> "idle", asked |-> 0, data |-> {}, base |-> 0]

\* A grid read: the row version its answer carries, 0 until the node answers.
GridRead == [phase : {"idle", "asked", "answered"}, row : 0..MaxVersion, owed : BOOLEAN]
NoGridRead == [phase |-> "idle", row |-> 0, owed |-> FALSE]

Writing == flight.phase # "idle"
Body    == hist[version]

Init ==
    /\ version = 1
    /\ hist = [v \in Version |-> {}]
    /\ wire = {} /\ stray = {} /\ lost = 0
    /\ row = 1
    /\ entry = NoEntry
    /\ editor = {}
    /\ armed = FALSE /\ owed = FALSE
    /\ queue = <<>>
    /\ flight = Idle
    /\ read = NoRead
    /\ gridRead = NoGridRead
    /\ typed = {} /\ erased = {} /\ refused = {}
    /\ tainted = FALSE

----------------------------------------------------------------------------
(***************************************************************************)
(* The content entry (client/cache).                                       *)
(***************************************************************************)

\* Rows u and v name one blob.  A blob is found by its bytes while a document
\* holds it and gets a new id once none does.
SameBlob(u, v) == u = v \/ (hist[u] = hist[v] /\ hist[u] \in Shared)

\* Row version v names bytes the entry does not hold.  A dirty entry never is.
Behind(e, v) ==
    /\ e.held /\ ~e.dirty
    /\ \/ v > e.base
       \/ v = e.base /\ ~SameBlob(v, e.filed)

Aged(e, v) == IF Behind(e, v) THEN NoEntry ELSE e

Edited(e, d) == [e EXCEPT !.held = TRUE, !.data = d, !.dirty = TRUE]

\* Mutant: a body read may regress the basis.
StorableAnyBase(e, r) == ~e.dirty /\ SameBlob(r.asked, row)

\* Mutant: a body read replaces an edit.
StorableOverEdit(e, r) == ~(e.held /\ r.base < e.base) /\ SameBlob(r.asked, row)

\* A body read never replaces an edit, never regresses the basis, and is not
\* stored once the row has another blob than the one it was asked against.
Storable(e, r) ==
    /\ ~e.dirty
    /\ ~(e.held /\ r.base < e.base)
    /\ SameBlob(r.asked, row)

Fetched(e, r) ==
    IF Storable(e, r)
    THEN [held |-> TRUE, data |-> r.data, base |-> r.base, filed |-> r.asked, dirty |-> FALSE]
    ELSE e

\* Mutant: a response marks the entry saved whatever has been typed since.
SavedWhatever(e, d, v) ==
    [held |-> TRUE, data |-> IF e.held THEN e.data ELSE d, base |-> v, filed |-> v, dirty |-> FALSE]

\* The response to a save of d, filed at version v: typing that has moved on
\* keeps its bytes and advances only its basis.
Saved(e, d, v) ==
    IF e.dirty /\ e.data # d
    THEN [e EXCEPT !.base = v, !.filed = v]
    ELSE [held |-> TRUE, data |-> d, base |-> v, filed |-> v, dirty |-> FALSE]

----------------------------------------------------------------------------
(***************************************************************************)
(* The chain of saves.                                                     *)
(***************************************************************************)

\* Mutant: the row the flush saw is claimed even when there is an entry.
SaveClaimOfRow(s, e) == s.row

\* The basis a save claims, read when it is sent: the entry's while there is
\* one, else the row the flush saw.
SaveClaim(s, e) == IF e.held THEN e.base ELSE s.row

Sent(s, e) == [phase |-> "sent", data |-> s.data, claim |-> SaveClaim(s, e),
               orphan |-> s.orphan, answer |-> 0]

Orphans(q) == [i \in DOMAIN q |-> [q[i] EXCEPT !.orphan = TRUE]]

Enqueue ==
    LET s == [data |-> entry.data, row |-> row, orphan |-> FALSE] IN
    IF Writing
    THEN /\ Len(queue) < MaxQueue
         /\ queue' = Append(queue, s)
         /\ UNCHANGED flight
    ELSE /\ flight' = Sent(s, entry)
         /\ UNCHANGED queue

\* Mutant: no row ages the body when the write ends.
EndSaveUnaged(e, rw) ==
    LET saves == IF entry.held /\ ~e.held THEN Orphans(queue) ELSE queue
    IN  /\ entry' = e
        /\ owed' = e.dirty
        /\ row' = rw
        /\ IF queue = <<>>
           THEN flight' = Idle /\ queue' = <<>>
           ELSE flight' = Sent(Head(saves), e) /\ queue' = Tail(saves)

\* The running save ends with e as the entry and rw as the row: the outbox is
\* re-recorded, the end of the write ages the body, and the chain runs on.
EndSave(e, rw) ==
    LET kept  == Aged(e, rw)
        saves == IF entry.held /\ ~kept.held THEN Orphans(queue) ELSE queue
    IN  /\ entry' = kept
        /\ owed' = e.dirty
        /\ row' = rw
        /\ IF queue = <<>>
           THEN flight' = Idle /\ queue' = <<>>
           ELSE flight' = Sent(Head(saves), kept) /\ queue' = Tail(saves)

----------------------------------------------------------------------------
(***************************************************************************)
(* The user.                                                               *)
(***************************************************************************)

\* A keystroke mirrors the whole textarea into the entry.
Edit(d) ==
    /\ editor' = d
    /\ entry' = Edited(entry, d)
    /\ armed' = TRUE /\ owed' = TRUE
    /\ UNCHANGED <<node, wire, stray, lost, row, queue, flight, reading, refused, tainted>>

Type(w) ==
    /\ w \notin typed
    /\ typed' = typed \cup {w}
    /\ UNCHANGED erased
    /\ Edit(editor \cup {w})

Erase(w) ==
    /\ w \in editor \ erased
    /\ erased' = erased \cup {w}
    /\ UNCHANGED typed
    /\ Edit(editor \ {w})

\* The textarea is shown again for this document, or redrawn in place: with
\* no edit pending it takes the cached body, and a rebind with none cached
\* clears it.
ShowEditor ==
    /\ editor' = entry.data
    /\ editor' # editor
    /\ UNCHANGED <<node, wire, stray, lost, row, entry, armed, owed, queue, flight,
                   reading, user, refused, tainted>>

(***************************************************************************)
(* Flushes.  Every one reads the entry's bytes when it runs.               *)
(***************************************************************************)

\* The debounce fires: an entry that is no longer dirty is only re-recorded.
Sweep ==
    /\ armed
    /\ armed' = FALSE
    /\ owed' = entry.dirty
    /\ IF entry.dirty THEN Enqueue ELSE UNCHANGED <<queue, flight>>
    /\ UNCHANGED <<node, wire, stray, lost, row, entry, editor, reading, user, refused, tainted>>

\* The outbox drain on a retry kick.
Drain ==
    /\ owed
    /\ owed' = entry.dirty
    /\ IF entry.dirty THEN Enqueue ELSE UNCHANGED <<queue, flight>>
    /\ UNCHANGED <<node, wire, stray, lost, row, entry, editor, armed, reading, user,
                   refused, tainted>>

\* A pane leaves the document: its unsaved text joins the same chain.
Ascend ==
    /\ entry.dirty
    /\ Enqueue
    /\ UNCHANGED <<node, wire, stray, lost, row, entry, editor, armed, owed, reading, user,
                   refused, tainted>>

----------------------------------------------------------------------------
(***************************************************************************)
(* The node.                                                               *)
(***************************************************************************)

\* The write of d in one transaction: identical bytes change nothing.
Commit(d) ==
    IF d = Body
    THEN UNCHANGED <<version, hist, wire>>
    ELSE /\ version < MaxVersion
         /\ version' = version + 1
         /\ hist' = [hist EXCEPT ![version + 1] = d]
         /\ wire' = wire \cup {version + 1}

NodeTakes ==
    /\ flight.phase = "sent"
    /\ flight.claim = version
    /\ Commit(flight.data)
    /\ flight' = [flight EXCEPT !.phase = "landed", !.answer = version']
    /\ tainted' = (tainted \/ flight.orphan)
    /\ UNCHANGED <<stray, lost, row, entry, editor, armed, owed, queue, reading, user, refused>>

NodeRefuses ==
    /\ flight.phase = "sent"
    /\ flight.claim # version
    /\ flight' = [flight EXCEPT !.phase = "refused"]
    /\ UNCHANGED <<node, wire, stray, lost, row, entry, editor, armed, owed, queue, reading,
                   user, refused, tainted>>

\* A write the client gave up on reaches the node after all, or never does.
StrayArrives(s) ==
    /\ stray' = stray \ {s}
    /\ IF s.claim = version
       THEN Commit(s.data) /\ tainted' = (tainted \/ s.orphan)
       ELSE UNCHANGED <<version, hist, wire, tainted>>
    /\ UNCHANGED <<lost, row, entry, editor, armed, owed, queue, flight, reading, user, refused>>

StrayEaten(s) ==
    /\ stray' = stray \ {s}
    /\ UNCHANGED <<node, wire, lost, row, entry, editor, armed, owed, queue, flight, reading,
                   user, refused, tainted>>

\* Another writer adds a word to the bytes it has just read.
OtherWrites(w) ==
    /\ \A v \in 1..version : w \notin hist[v]
    /\ Commit(Body \cup {w})
    /\ UNCHANGED <<stray, lost, row, entry, editor, armed, owed, queue, flight, reading, user,
                   refused, tainted>>

----------------------------------------------------------------------------
(***************************************************************************)
(* Verdicts on the running save.                                           *)
(***************************************************************************)

SaveLanded ==
    /\ flight.phase = "landed"
    /\ LET v == flight.answer IN
       EndSave(Saved(entry, flight.data, v), IF v >= row THEN v ELSE row)
    /\ UNCHANGED <<node, wire, stray, lost, editor, armed, reading, user, refused, tainted>>

\* A refusal drops the entry, whatever it holds by now, and reads the grid again.
SaveRefused ==
    /\ flight.phase = "refused"
    /\ EndSave(NoEntry, row)
    /\ refused' = IF entry.dirty THEN refused \cup entry.data ELSE refused
    /\ gridRead' = IF gridRead.phase = "idle"
                   THEN [NoGridRead EXCEPT !.phase = "asked"]
                   ELSE [gridRead EXCEPT !.owed = TRUE]
    /\ UNCHANGED <<node, wire, stray, lost, editor, armed, read, user, tainted>>

\* Nothing was heard within the deadline.  The request may still be on its way.
SaveUnheard ==
    /\ Writing
    /\ lost < MaxLost
    /\ lost' = lost + 1
    /\ \/ UNCHANGED stray
       \/ /\ flight.phase = "sent"
          /\ Cardinality(stray) < MaxStray
          /\ stray' = stray \cup
                {[data |-> flight.data, claim |-> flight.claim, orphan |-> flight.orphan]}
    /\ EndSave(entry, row)
    /\ UNCHANGED <<node, wire, editor, armed, reading, user, refused, tainted>>

----------------------------------------------------------------------------
(***************************************************************************)
(* Rows and bodies coming in.                                              *)
(***************************************************************************)

\* A row from outside a write: while a save is in flight it ages no body.
RowIs(v) ==
    /\ row' = v
    /\ entry' = IF Writing THEN entry ELSE Aged(entry, v)

\* A TileChanged event.  A row older than the cached one is refused, and a
\* grid read in flight is owed another.
Deliver(v) ==
    /\ wire' = wire \ {v}
    /\ IF v >= row THEN RowIs(v) ELSE UNCHANGED <<row, entry>>
    /\ gridRead' = IF gridRead.phase = "idle" THEN gridRead ELSE [gridRead EXCEPT !.owed = TRUE]
    /\ UNCHANGED <<node, stray, lost, editor, armed, owed, queue, flight, read, user,
                   refused, tainted>>

\* The hub replaces an undelivered event by a later one for the same row.
Coalesce(v) ==
    /\ \E u \in wire : u > v
    /\ wire' = wire \ {v}
    /\ UNCHANGED <<node, stray, lost, row, entry, editor, armed, owed, queue, flight, reading,
                   user, refused, tainted>>

AskGrid ==
    /\ gridRead.phase = "idle"
    /\ gridRead' = [NoGridRead EXCEPT !.phase = "asked"]
    /\ UNCHANGED <<node, wire, stray, lost, row, entry, editor, armed, owed, queue, flight, read,
                   user, refused, tainted>>

AnswerGrid ==
    /\ gridRead.phase = "asked"
    /\ gridRead' = [gridRead EXCEPT !.phase = "answered", !.row = version]
    /\ UNCHANGED <<node, wire, stray, lost, row, entry, editor, armed, owed, queue, flight, read,
                   user, refused, tainted>>

\* A grid read replaces the grid's rows whatever their version.
GridLands ==
    /\ gridRead.phase = "answered"
    /\ RowIs(gridRead.row)
    /\ gridRead' = IF gridRead.owed THEN [NoGridRead EXCEPT !.phase = "asked"] ELSE NoGridRead
    /\ UNCHANGED <<node, wire, stray, lost, editor, armed, owed, queue, flight, read, user,
                   refused, tainted>>

\* The renderer asks for a body it does not hold and is not about to file.
AskBody ==
    /\ ~entry.held /\ ~Writing
    /\ read.phase = "idle"
    /\ read' = [NoRead EXCEPT !.phase = "asked", !.asked = row]
    /\ UNCHANGED <<node, wire, stray, lost, row, entry, editor, armed, owed, queue, flight,
                   gridRead, user, refused, tainted>>

\* Bytes and version are one snapshot.
AnswerBody ==
    /\ read.phase = "asked"
    /\ read' = [read EXCEPT !.phase = "answered", !.data = Body, !.base = version]
    /\ UNCHANGED <<node, wire, stray, lost, row, entry, editor, armed, owed, queue, flight,
                   gridRead, user, refused, tainted>>

\* The body is stored, then the textarea follows it unless an edit is pending.
BodyLands ==
    /\ read.phase = "answered"
    /\ read' = NoRead
    /\ entry' = Fetched(entry, read)
    /\ editor' = IF entry'.held /\ ~entry'.dirty THEN entry'.data ELSE editor
    /\ UNCHANGED <<node, wire, stray, lost, row, armed, owed, queue, flight, gridRead, user,
                   refused, tainted>>

\* A read that is never answered ends at its deadline.
BodyUnheard ==
    /\ read.phase # "idle"
    /\ lost < MaxLost
    /\ lost' = lost + 1
    /\ read' = NoRead
    /\ UNCHANGED <<node, wire, stray, row, entry, editor, armed, owed, queue, flight, gridRead,
                   user, refused, tainted>>

----------------------------------------------------------------------------
Next ==
    \/ \E w \in Mine : Type(w)
    \/ \E w \in Mine : Erase(w)
    \/ ShowEditor
    \/ Sweep
    \/ Drain
    \/ Ascend
    \/ NodeTakes
    \/ NodeRefuses
    \/ \E s \in stray : StrayArrives(s)
    \/ \E s \in stray : StrayEaten(s)
    \/ \E w \in Theirs : OtherWrites(w)
    \/ SaveLanded
    \/ SaveRefused
    \/ SaveUnheard
    \/ \E v \in wire : Deliver(v)
    \/ \E v \in wire : Coalesce(v)
    \/ AskGrid
    \/ AnswerGrid
    \/ GridLands
    \/ AskBody
    \/ AnswerBody
    \/ BodyLands
    \/ BodyUnheard

Spec == Init /\ [][Next]_vars

(***************************************************************************)
(* Fairness.  The debounce timer fires, the retry kick runs on a reconnect *)
(* and on a tick, the node answers what reaches it, the renderer asks on   *)
(* every draw, and calls run under a deadline.  Nobody has to type, leave, *)
(* write elsewhere, or lose a call.                                        *)
(***************************************************************************)
Fairness ==
    /\ WF_vars(Sweep) /\ WF_vars(Drain)
    /\ WF_vars(NodeTakes) /\ WF_vars(NodeRefuses)
    /\ WF_vars(SaveLanded) /\ WF_vars(SaveRefused)
    /\ WF_vars(\E v \in wire : Deliver(v))
    /\ WF_vars(AnswerGrid) /\ WF_vars(GridLands)
    /\ WF_vars(AskBody) /\ WF_vars(AnswerBody) /\ WF_vars(BodyLands)

FairSpec == Spec /\ Fairness

----------------------------------------------------------------------------
(* Type correctness of every variable; hist beyond version is untouched. *)
TypeOK ==
    /\ version \in Version
    /\ hist \in [Version -> Document]
    /\ wire \subseteq 1..version
    /\ stray \subseteq Stray
    /\ lost \in 0..MaxLost
    /\ row \in 1..version
    /\ entry \in Entry
    /\ editor \in Document
    /\ armed \in BOOLEAN /\ owed \in BOOLEAN
    /\ queue \in Seq(Save)
    /\ flight \in Flight
    /\ read \in Read
    /\ gridRead \in GridRead
    /\ typed \subseteq Mine /\ erased \subseteq Mine
    /\ refused \in Document
    /\ tainted \in BOOLEAN

(***************************************************************************)
(* A clean body is the bytes the node held at the version the entry is     *)
(* filed under: what a reader sees and what the next save claims agree.    *)
(***************************************************************************)
CleanIsFiled ==
    entry.held /\ ~entry.dirty => entry.base \in 1..version /\ entry.data = hist[entry.base]

(***************************************************************************)
(* Nobody's word leaves the document unless this user saw it: a word       *)
(* another writer added is still there.  The code keeps this only until    *)
(* the node takes a save whose entry was gone when it was sent; see the    *)
(* README's findings.                                                      *)
(***************************************************************************)
NoLostUpdate == \A v \in 1..version : hist[v] \cap Theirs \subseteq Body
NoLostUpdateBeforeOrphan == tainted \/ NoLostUpdate

(***************************************************************************)
(* A word the user typed and did not erase is in the document, in the      *)
(* dirty entry the outbox owes, or was in an entry the node refused: local *)
(* text is dropped only on the node's verdict.                             *)
(***************************************************************************)
NoSilentLoss ==
    \A w \in typed \ erased :
        w \in Body \cup refused \/ (entry.dirty /\ owed /\ w \in entry.data)
NoSilentLossBeforeOrphan == tainted \/ NoSilentLoss

(***************************************************************************)
(* What a save claims never goes back to an older version: a late body or  *)
(* a late answer does not put the entry under bytes it had already left,   *)
(* which would have the node refuse the next save.  While the user writes  *)
(* alone, that is: an orphan's answer does, once another has written.      *)
(***************************************************************************)
Alone == lost = 0 /\ \A v \in 1..version : hist[v] \cap Theirs = {}
BasisAdvances ==
    [][entry.held /\ entry'.held /\ Alone => entry'.base >= entry.base]_vars

(***************************************************************************)
(* An erased word does not come back: with nothing unsaved or under way    *)
(* the document lacks every word the user erased, unless a refusal or an   *)
(* aged body dropped the entry the erasure was made in.                    *)
(***************************************************************************)
Quiet == ~entry.dirty /\ ~armed /\ ~Writing
ErasedStaysErased == Quiet /\ ~tainted => erased \cap Body = {}

(***************************************************************************)
(* Once the user stops typing and the others stop writing, the client and  *)
(* the node come to agree and stay so: nothing is left unsaved, and the    *)
(* body shown is the node's.  Retries, aged bodies, overtaken reads and    *)
(* re-asked listings all have to end.  The code keeps this where no other  *)
(* document holds a body this one returns to; see the README's findings.   *)
(***************************************************************************)
InStep == entry.held /\ ~entry.dirty /\ entry.data = Body /\ row = version
Converges == <>[]InStep
=============================================================================
