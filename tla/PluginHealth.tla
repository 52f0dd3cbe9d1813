---------------------------- MODULE PluginHealth ----------------------------
(***************************************************************************)
(* Whether a plugin answers, from its process and its source to the        *)
(* clients that draw it: the supervisor, the plugin host that serves the   *)
(* namespace's event stream (internal/pluginhost/adapter.go), and each     *)
(* client's one copy of which sources are dark (client/cache).             *)
(*                                                                         *)
(* The hub between them is what EventHub is shown to be, a Mailbox: here   *)
(* every health event is about one entity, so a stream's box holds the     *)
(* last one undelivered.  The plugin is one that tells its changes, and an *)
(* outage of its source has one reason: both ride the same event.          *)
(***************************************************************************)
EXTENDS Supervisor, Sequences

CONSTANTS
    Clients,
    Listers,     \* the listings under way at a time
    MaxGaps      \* bound on the breaks of each client's stream

ASSUME PluginHealthAssumption == MaxGaps \in Nat

VARIABLES
    out,      \* the plugin's source does not answer the plugin
    srcDark,  \* what the last listing found, as the host keeps it
    everDark, \* history: a listing has found the source dark
    decl,     \* the plugin's declaration, as the host holds it
    lister,   \* where each listing stands, and what it found
    stream,   \* where each client's event stream stands
    hears,    \* the streams whose listener the supervisor calls
    found,    \* the process was up when the stream asked
    mail,     \* the event each stream has yet to relay
    gaps,     \* history: the breaks of each client's stream
    dark,     \* each client's copy: the source is not answering
    crossed   \* history: news came between a change and its telling, or behind
              \* news of it that nobody was there to correct

source  == <<out, srcDark, everDark, decl, lister, crossed>>
streams == <<stream, hears, found, mail, gaps, dark>>
vars    == <<supVars, source, streams>>

Idle == [at |-> "idle", dark |-> FALSE]

Init ==
    /\ SupInit
    /\ out = FALSE /\ srcDark = FALSE /\ everDark = FALSE /\ decl = "none" /\ crossed = FALSE
    /\ lister = [l \in Listers |-> Idle]
    /\ stream = [c \in Clients |-> "down"]
    /\ hears = {} /\ found = [c \in Clients |-> TRUE]
    /\ mail = [c \in Clients |-> <<>>]
    /\ gaps = [c \in Clients |-> 0]
    /\ dark = [c \in Clients |-> FALSE]

\* A health event reaches every stream attached to the hub.
Publish(up) ==
    mail' = [c \in Clients |-> IF stream[c] \in {"down", "retries"} THEN mail[c] ELSE <<up>>]

----------------------------------------------------------------------------
(***************************************************************************)
(* The supervisor's steps.  Its listeners are one per open stream, each    *)
(* publishing to the whole hub.                                            *)
(***************************************************************************)

SupervisorActs == Quietly /\ UNCHANGED <<source, streams>>

\* The host listens too: a process that comes up has declared nothing yet.
SupervisorTells(up) ==
    /\ Tells(up)
    /\ IF hears = {} THEN UNCHANGED mail ELSE Publish(up)
    /\ decl' = IF up THEN "none" ELSE decl
    /\ crossed' = (crossed \/ (hears = {} /\ \E c \in Clients : mail[c] # <<>>))
    /\ UNCHANGED <<out, srcDark, everDark, lister, stream, hears, found, gaps, dark>>

----------------------------------------------------------------------------
(***************************************************************************)
(* Listings, each of which says what it found of the source.               *)
(***************************************************************************)

SourceTurns ==
    /\ out' = ~out
    /\ UNCHANGED <<supVars, srcDark, everDark, decl, lister, crossed, streams>>

At(l, pc) == lister' = [lister EXCEPT ![l].at = pc]

\* A process that is gone answers nothing, and that is news of the source
\* only while the supervisor takes it for up.
Lists(l) ==
    /\ lister[l].at = "idle"
    /\ lister' = [lister EXCEPT ![l] = [at |-> "listed", dark |-> out \/ proc \notin running]]
    /\ UNCHANGED <<supVars, out, srcDark, everDark, decl, crossed, streams>>

NoteSkipped(l) ==
    /\ lister[l].at = "listed" /\ ~health.up
    /\ At(l, "idle")
    /\ UNCHANGED <<supVars, out, srcDark, everDark, decl, crossed, streams>>

Notes(l) ==
    /\ lister[l].at = "listed" /\ health.up
    /\ At(l, "edits")
    /\ UNCHANGED <<supVars, out, srcDark, everDark, decl, crossed, streams>>

\* The edit, under the source's lock; a transition is announced after it.
Edits(l) ==
    /\ lister[l].at = "edits"
    /\ srcDark' = lister[l].dark
    /\ everDark' = (everDark \/ lister[l].dark)
    /\ crossed' = (crossed \/ \E k \in Listers : lister[k].at \in {"changed", "announces"})
    /\ At(l, IF srcDark # lister[l].dark THEN "changed" ELSE "idle")
    /\ UNCHANGED <<supVars, out, decl, streams>>

\* While the process is down its health is the supervisor's to tell.
Withholds(l) ==
    /\ lister[l].at = "changed" /\ ~health.up
    /\ At(l, "idle")
    /\ UNCHANGED <<supVars, out, srcDark, everDark, decl, crossed, streams>>

Announces(l) ==
    /\ lister[l].at = "changed" /\ health.up
    /\ At(l, "announces")
    /\ UNCHANGED <<supVars, out, srcDark, everDark, decl, crossed, streams>>

PublishesSource(l) ==
    /\ lister[l].at = "announces"
    /\ At(l, "idle")
    /\ Publish(~lister[l].dark)
    /\ UNCHANGED <<supVars, out, srcDark, everDark, decl, crossed, stream, hears, found, gaps, dark>>

----------------------------------------------------------------------------
(***************************************************************************)
(* A client's stream.  The router asks for the plugin's declaration,       *)
(* telling the first failure and the recovery itself                       *)
(* (router.watchPlugin); then Adapter.Subscribe attaches to the hub,       *)
(* listens to the supervisor, tells an outage that stands, and relays.     *)
(***************************************************************************)

To(c, pc) == stream' = [stream EXCEPT ![c] = pc]

Opening(c) == stream[c] \in {"down", "retries"}

Declared == decl = "held" \/ (decl = "none" /\ proc \in running)

\* An answer is held if the process was up to give it.
HoldsDecl(d) == decl' = IF decl = "none" /\ health.up THEN d ELSE decl

InfoFails(c) ==
    /\ Opening(c) /\ ~Declared
    /\ HoldsDecl("refused")
    /\ To(c, "retries")
    /\ dark' = [dark EXCEPT ![c] = @ \/ stream[c] = "down"]
    /\ UNCHANGED <<supVars, out, srcDark, everDark, lister, crossed, hears, found, mail, gaps>>

Attaches(c) ==
    /\ Opening(c) /\ Declared
    /\ HoldsDecl("held")
    /\ To(c, "attached")
    /\ dark' = [dark EXCEPT ![c] = @ /\ stream[c] = "down"]
    /\ UNCHANGED <<supVars, out, srcDark, everDark, lister, crossed, hears, found, mail, gaps>>

Listens(c) ==
    /\ stream[c] = "attached"
    /\ hears' = hears \cup {c}
    /\ To(c, "listening")
    /\ UNCHANGED <<supVars, source, found, mail, gaps, dark>>

\* What is sent is read on the spot; the client folds it in (NoteHealth).
TellsProcess(c) ==
    /\ stream[c] = "listening"
    /\ found' = [found EXCEPT ![c] = health.up]
    /\ dark' = [dark EXCEPT ![c] = @ \/ ~health.up]
    /\ To(c, "asked")
    /\ UNCHANGED <<supVars, source, hears, mail, gaps>>

\* Mutant: a subscriber is not told that the source is out already.
TellsNothing(c) ==
    /\ stream[c] = "asked"
    /\ To(c, "relays")
    /\ UNCHANGED <<supVars, source, hears, found, mail, gaps, dark>>

TellsSource(c) ==
    /\ stream[c] = "asked"
    /\ dark' = [dark EXCEPT ![c] = @ \/ (found[c] /\ srcDark)]
    /\ To(c, "relays")
    /\ UNCHANGED <<supVars, source, hears, found, mail, gaps>>

Relays(c) ==
    /\ stream[c] = "relays" /\ mail[c] # <<>>
    /\ dark' = [dark EXCEPT ![c] = ~Head(mail[c])]
    /\ mail' = [mail EXCEPT ![c] = <<>>]
    /\ UNCHANGED <<supVars, source, stream, hears, found, gaps>>

Breaks(c) ==
    /\ stream[c] # "down" /\ gaps[c] < MaxGaps
    /\ To(c, "down")
    /\ gaps' = [gaps EXCEPT ![c] = @ + 1]
    /\ hears' = hears \ {c}
    /\ mail' = [mail EXCEPT ![c] = <<>>]
    /\ UNCHANGED <<supVars, source, found, dark>>

----------------------------------------------------------------------------
ListerStep(l) ==
    \/ NoteSkipped(l) \/ Notes(l) \/ Edits(l)
    \/ Withholds(l) \/ Announces(l) \/ PublishesSource(l)

Next ==
    \/ SupervisorActs
    \/ \E up \in BOOLEAN : SupervisorTells(up)
    \/ SourceTurns
    \/ \E l \in Listers : Lists(l) \/ ListerStep(l)
    \/ \E c \in Clients :
        \/ InfoFails(c) \/ Attaches(c) \/ Listens(c) \/ TellsProcess(c) \/ TellsSource(c)
        \/ Relays(c) \/ Breaks(c)

Spec == Init /\ [][Next]_vars

----------------------------------------------------------------------------
(* Type correctness. *)
PairTypeOK ==
    /\ out \in BOOLEAN /\ srcDark \in BOOLEAN /\ everDark \in BOOLEAN /\ crossed \in BOOLEAN
    /\ decl \in {"none", "held", "refused"}
    /\ lister \in [Listers -> [at : {"idle", "listed", "edits", "changed", "announces"},
                               dark : BOOLEAN]]
    /\ stream \in [Clients -> {"down", "retries", "attached", "listening", "asked", "relays"}]
    /\ hears \subseteq Clients /\ found \in [Clients -> BOOLEAN]
    /\ mail \in [Clients -> {<<>>, <<TRUE>>, <<FALSE>>}]
    /\ gaps \in [Clients -> 0..MaxGaps] /\ dark \in [Clients -> BOOLEAN]

TypeOK == SupTypeOK /\ PairTypeOK

\* Nothing about health is on its way to the client.
Settled(c) ==
    /\ stream[c] = "relays" /\ mail[c] = <<>>
    /\ watch \notin {"exited", "tellsDown", "spawned", "tellsUp"}
    /\ ending \notin {"took", "tells"}
    /\ \A l \in Listers : lister[l].at \notin {"edits", "changed", "announces"}

NotAnswering == ~health.up \/ srcDark

NeverDied == health.up /\ \E p \in Process : spawned = {p}

Awake(c) == Settled(c) /\ (NeverDied \/ ~everDark)

Aware(c) ==
    /\ NotAnswering => dark[c]
    /\ dark[c] => NotAnswering \/ gaps[c] > 0

(* A client that subscribes at any moment, and re-subscribes after a gap,  *)
(* ends up holding dark a plugin whose process is gone, or whose source    *)
(* is, and holds no other dark unless a gap hid the recovery               *)
(* (Adapter.Subscribe: "a subscriber arriving mid-outage ... is told at    *)
(* once").  Outages of the process and of its source, each alone, and no   *)
(* news of them that crossed other news.                                   *)
OutagesAreTold == \A c \in Clients : Awake(c) /\ ~crossed => Aware(c)

(* The same whatever crossed: two listings that find the source otherwise  *)
(* at once publish in either order, and a stream that is attached to the   *)
(* hub and does not listen yet may hold what only others' listeners told.  *)
OutagesAreAlwaysTold == \A c \in Clients : Awake(c) => Aware(c)

(* What the client draws as dark is what the node knows: "It is one fact"  *)
(* (docs/concepts.md, "dark").                                             *)
DarkIsOneFact == \A c \in Clients : Settled(c) => dark[c] = NotAnswering
=============================================================================
