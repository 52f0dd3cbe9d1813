----------------------------- MODULE Connection -----------------------------
(***************************************************************************)
(* One connection to another node (internal/connection/connection.go): its *)
(* transport, the landing its stored links are bound to, and what the node *)
(* records and tells of its health.                                        *)
(*                                                                         *)
(* The server's lock is released between every two steps below: around the *)
(* question to the far node, the write of its answer, and the telling of a *)
(* change.                                                                 *)
(***************************************************************************)
EXTENDS Naturals, FiniteSets

CONSTANTS
    Transports,  \* the transports that may be dialed, in a bound
    Homes,       \* the homes a far node may answer
    Kicks,       \* the background learns under way at a time
    Boot,        \* the learn ConnectAll starts, which nothing counts
    Switch,      \* the user's switch, while it disables the connection
    None,
    MaxFaults    \* bound on the far end's changes, failed calls and ended streams

ASSUME ConnectionAssumption ==
    /\ Transports \cap (Kicks \cup {Boot, Switch, None}) = {}
    /\ {Boot, Switch, None} \cap Kicks = {} /\ Boot # Switch /\ Switch # None
    /\ Boot # None
    /\ None \notin Homes
    /\ MaxFaults \in Nat

VARIABLES
    far,              \* the home the far node answers
    live,             \* the connection's transport
    dialed, shut,     \* history: the transports built, and those closed
    verified,         \* those that have answered the landing
    fetching,         \* those with a background learn
    stored, known,    \* the landing: in the node's store, and as held
    health, told,     \* recorded, and last published
    off, closing,     \* the connection's switch, and the server's end
    task,             \* where each learn, fan-in and the switch stands
    raced,            \* history: two first learns ran at once
    crossed,          \* history: health was recorded with news of it untold
    faults,           \* the faults so far
    refused           \* history: the last answer was of another home

Learns == Kicks \cup {Boot}
Tasks  == Learns \cup Transports \cup {Switch}

carried == <<live, dialed, shut, verified, fetching>>
landing == <<stored, known, raced>>
reach   == <<health, told, crossed>>
ends    == <<off, closing>>
connVars == <<far, faults, carried, landing, reach, ends, task, refused>>

Task == [at : {"idle", "starts", "counts", "looks", "asks", "stores", "verifies",
               "notes", "tellsUp", "tellsDown", "healthy", "out", "takes",
               "shuts", "over"},
         lc : Transports \cup {None}, root : Homes \cup {None},
         got : Homes \cup {None, "up", "down", "mismatch", "disabled"}]
Idle == [at |-> "idle", lc |-> None, root |-> None, got |-> None]

ConnInit ==
    /\ far \in Homes /\ faults = 0
    /\ live = None /\ dialed = {} /\ shut = {} /\ verified = {} /\ fetching = {}
    /\ stored \in Homes \cup {None} /\ known = stored
    /\ health = "up" /\ told = "up"
    /\ off = FALSE /\ closing = "no"
    /\ task = [x \in Tasks |-> IF x = Boot THEN [Idle EXCEPT !.at = "starts"] ELSE Idle]
    /\ raced = FALSE /\ crossed = FALSE /\ refused = FALSE

Fault == faults < MaxFaults /\ faults' = faults + 1

\* The far end is rebuilt, or its address comes to name another node.
FarTurns(h) ==
    /\ h # far
    /\ far' = h /\ Fault
    /\ UNCHANGED <<carried, landing, reach, ends, task, refused>>

----------------------------------------------------------------------------
(***************************************************************************)
(* ensureLive, under the lock: the transport held, a new one, or a refusal *)
(* that nothing records.                                                   *)
(***************************************************************************)

Closed == closing \in {"closed", "ended"}

To(x, pc) == task' = [task EXCEPT ![x].at = pc]

\* A background learn calls twice: from a listing of the connections, before
\* it counts itself, and then in learnRoot.
Calls(x) == task[x].at = "starts" \/ (task[x].at = "idle" /\ x \in Kicks)

Enters(x) == IF task[x].at = "idle" THEN "counts" ELSE "looks"

FindsLive(x) ==
    /\ Calls(x) /\ live # None
    /\ task' = [task EXCEPT ![x].lc = live, ![x].at = Enters(x)]
    /\ UNCHANGED <<far, faults, carried, landing, reach, ends, refused>>

Dials(x, t) ==
    /\ Calls(x)
    /\ live = None /\ ~Closed /\ ~off
    /\ t \in Transports \ dialed
    /\ live' = t /\ dialed' = dialed \cup {t}
    /\ task' = [task EXCEPT ![x].lc = t, ![x].at = Enters(x), ![t].at = "healthy"]
    /\ UNCHANGED <<far, faults, shut, verified, fetching, landing, reach, ends, refused>>

NotesNext(x, st) == task' = [task EXCEPT ![x].at = "notes", ![x].got = st]

DialFails(x) ==
    /\ Calls(x)
    /\ live = None /\ ~Closed /\ ~off
    /\ NotesNext(x, "down")
    /\ Fault
    /\ UNCHANGED <<far, carried, landing, reach, ends, refused>>

\* A background learn that is over clears the mark of whatever transport is
\* held by then.  It does so under the lock once more, later: a listing that
\* comes between finds the mark and does nothing.
Over(x) ==
    /\ task' = [task EXCEPT ![x] = [Idle EXCEPT !.at = IF x = Boot THEN "over" ELSE "idle"]]
    /\ fetching' = IF x # Boot /\ task[x].lc # None THEN fetching \ {live} ELSE fetching

RefusesDial(x) ==
    /\ Calls(x)
    /\ live = None /\ (Closed \/ off)
    /\ Over(x)
    /\ UNCHANGED <<far, faults, live, dialed, shut, verified, landing, reach, ends, refused>>

----------------------------------------------------------------------------
(***************************************************************************)
(* learnRoot, at boot and from every listing of the connections            *)
(* (kickRootFetch, one at a time for a transport).                         *)
(***************************************************************************)

CountsItself(k) ==
    /\ task[k].at = "counts"
    /\ IF task[k].lc \in verified \cup fetching
       THEN task' = [task EXCEPT ![k] = Idle] /\ UNCHANGED fetching
       ELSE /\ fetching' = fetching \cup {task[k].lc}
            /\ To(k, "starts")
    /\ UNCHANGED <<far, faults, live, dialed, shut, verified, landing, reach, ends, refused>>

\* Learns that found no landing yet and may still write one.
FirstLearns == {x \in Learns : /\ task[x].at \in {"asks", "stores", "verifies"}
                               /\ task[x].root = None}

Looks(x) ==
    /\ task[x].at = "looks"
    /\ IF task[x].lc \in verified
       THEN Over(x) /\ UNCHANGED raced
       ELSE /\ task' = [task EXCEPT ![x].at = "asks", ![x].root = known]
            /\ raced' = (raced \/ (known = None /\ FirstLearns # {}))
            /\ UNCHANGED fetching
    /\ UNCHANGED <<far, faults, live, dialed, shut, verified, stored, known, reach, ends, refused>>

\* Mutant: whatever the far node answers is where the connection lands.
TrustsAnswer(x) ==
    /\ task[x].at = "asks"
    /\ task' = [task EXCEPT ![x].got = far, ![x].at = "stores"]
    /\ UNCHANGED <<far, faults, carried, landing, reach, ends, refused>>

Answered(x) ==
    /\ task[x].at = "asks"
    /\ LET root == task[x].root IN
        task' = [task EXCEPT
            ![x].got = IF root \in {None, far} THEN far ELSE "mismatch",
            ![x].at  = IF root = None THEN "stores" ELSE IF root = far THEN "verifies" ELSE "notes"]
    /\ UNCHANGED <<far, faults, carried, landing, reach, ends, refused>>

\* A transport that has been closed fails the question; of an open one no answer
\* comes in time.
NotAnswered(x) ==
    /\ task[x].at = "asks"
    /\ NotesNext(x, "down")
    /\ IF task[x].lc \in shut THEN UNCHANGED faults ELSE Fault
    /\ UNCHANGED <<far, carried, landing, reach, ends, refused>>

Stores(x) ==
    /\ task[x].at = "stores"
    /\ stored' = task[x].got
    /\ To(x, "verifies")
    /\ UNCHANGED <<far, faults, carried, known, raced, reach, ends, refused>>

StoreFails(x) ==
    /\ task[x].at = "stores"
    /\ NotesNext(x, "down")
    /\ Fault
    /\ UNCHANGED <<far, carried, landing, reach, ends, refused>>

Verifies(x) ==
    /\ task[x].at = "verifies"
    /\ verified' = verified \cup {task[x].lc}
    /\ known' = task[x].got
    /\ refused' = FALSE
    /\ NotesNext(x, "up")
    /\ UNCHANGED <<far, faults, live, dialed, shut, fetching, stored, raced, reach, ends>>

----------------------------------------------------------------------------
(***************************************************************************)
(* note, the one writer of health: recorded under the lock, a change of it *)
(* published after.  A connection that is switched off is disabled         *)
(* whatever the note says.                                                 *)
(***************************************************************************)

Telling == {x \in Tasks : task[x].at \in {"tellsUp", "tellsDown"}}

News(st) == IF st = "up" THEN "tellsUp" ELSE "tellsDown"

\* Mutant: a connection nothing is recorded of has no health to change.
ChangesOfRecorded(st) ==
    health # "up" /\ ((health = "up") # (st = "up") \/ (health = "mismatch") # (st = "mismatch"))

Changes(st) == (health = "up") # (st = "up") \/ (health = "mismatch") # (st = "mismatch")

\* The learn of a first landing has clients list again even when its note
\* changed nothing.
FirstLearnt(x) == x \in Learns /\ task[x].got = "up" /\ task[x].root = None

Told(x) ==
    \/ x \in Learns /\ Over(x)
    \/ /\ x \notin Learns
       /\ To(x, IF x = Switch THEN "over" ELSE IF task[x].got = "up" THEN "healthy" ELSE "out")
       /\ UNCHANGED fetching

Records(x, st) ==
    /\ health' = st
    /\ crossed' = (crossed \/ Telling # {})
    /\ IF Changes(st) \/ FirstLearnt(x)
       THEN To(x, IF Changes(st) THEN News(st) ELSE "tellsUp") /\ UNCHANGED fetching
       ELSE Told(x)
    /\ UNCHANGED <<live, dialed, shut, verified, told>>

\* Mutant: a learn or a fan-in that outlived the switch speaks for it.
NotesAsIs(x) ==
    /\ task[x].at = "notes"
    /\ Records(x, task[x].got)
    /\ refused' = (refused \/ task[x].got = "mismatch")
    /\ UNCHANGED <<far, faults, landing, ends>>

Notes(x) ==
    /\ task[x].at = "notes"
    /\ Records(x, IF off THEN "disabled" ELSE task[x].got)
    /\ refused' = (refused \/ task[x].got = "mismatch")
    /\ UNCHANGED <<far, faults, landing, ends>>

Tells(x) ==
    /\ x \in Telling
    /\ told' = IF task[x].at = "tellsUp" THEN "up" ELSE "down"
    /\ Told(x)
    /\ UNCHANGED <<far, faults, live, dialed, shut, verified, landing, health, crossed, ends, refused>>

----------------------------------------------------------------------------
(***************************************************************************)
(* The fan-in of a transport's events (namespace.Refollow): it says once   *)
(* that its stream ended and once that one is established again.           *)
(***************************************************************************)

StreamEnds(t) ==
    /\ task[t].at = "healthy" /\ t \notin shut
    /\ NotesNext(t, "down")
    /\ Fault
    /\ UNCHANGED <<far, carried, landing, reach, ends, refused>>

StreamEstablishes(t) ==
    /\ task[t].at = "out" /\ t \notin shut
    /\ NotesNext(t, "up")
    /\ UNCHANGED <<far, faults, carried, landing, reach, ends, refused>>

FanInEnds(t) ==
    /\ task[t].at \in {"healthy", "out"} /\ t \in shut
    /\ To(t, "over")
    /\ UNCHANGED <<far, faults, carried, landing, reach, ends, refused>>

----------------------------------------------------------------------------
(***************************************************************************)
(* The user's switch (Registry.Disable, then Disable), and the end of the  *)
(* server: the registry forgets what is off before it closes the           *)
(* transport.                                                              *)
(***************************************************************************)

SwitchesOff ==
    /\ closing = "no" /\ ~off
    /\ off' = TRUE
    /\ To(Switch, "takes")
    /\ UNCHANGED <<far, faults, carried, landing, reach, closing, refused>>

\* Mutant: the entry is deleted before it is read.
DeletesFirst ==
    /\ task[Switch].at = "takes"
    /\ live' = None
    /\ To(Switch, "shuts")
    /\ UNCHANGED <<far, faults, dialed, shut, verified, fetching, landing, reach, ends, refused>>

TakesTransport ==
    /\ task[Switch].at = "takes"
    /\ live' = None
    /\ task' = [task EXCEPT ![Switch].lc = live, ![Switch].at = "shuts"]
    /\ UNCHANGED <<far, faults, dialed, shut, verified, fetching, landing, reach, ends, refused>>

ShutsTransport ==
    /\ task[Switch].at = "shuts"
    /\ shut' = shut \cup ({task[Switch].lc} \ {None})
    /\ NotesNext(Switch, "disabled")
    /\ UNCHANGED <<far, faults, live, dialed, verified, fetching, landing, reach, ends, refused>>

RegistryCloses ==
    /\ closing = "no"
    /\ closing' = "registry" /\ off' = FALSE
    /\ UNCHANGED <<far, faults, carried, landing, reach, task, refused>>

Closes ==
    /\ closing = "registry"
    /\ closing' = "closed"
    /\ shut' = shut \cup ({live} \ {None}) /\ live' = None
    /\ UNCHANGED <<far, faults, dialed, verified, fetching, landing, reach, off, task, refused>>

\* Close waits for what was counted: the fan-ins, and the background learns.
CloseReturns ==
    /\ closing = "closed"
    /\ \A t \in Transports : task[t].at \in {"idle", "over"}
    /\ \A k \in Kicks : task[k].at \in {"idle", "counts"}
    /\ closing' = "ended"
    /\ UNCHANGED <<far, faults, carried, landing, reach, off, task, refused>>

----------------------------------------------------------------------------
LearnStep(x) ==
    \/ FindsLive(x) \/ (\E t \in Transports : Dials(x, t)) \/ DialFails(x) \/ RefusesDial(x)
    \/ Looks(x) \/ Answered(x) \/ NotAnswered(x) \/ Stores(x) \/ StoreFails(x)
    \/ Verifies(x)

ConnNext ==
    \/ \E h \in Homes : FarTurns(h)
    \/ \E x \in Learns : LearnStep(x)
    \/ \E k \in Kicks : CountsItself(k)
    \/ \E x \in Tasks : Notes(x) \/ Tells(x)
    \/ \E t \in Transports : StreamEnds(t) \/ StreamEstablishes(t) \/ FanInEnds(t)
    \/ SwitchesOff \/ TakesTransport \/ ShutsTransport
    \/ RegistryCloses \/ Closes \/ CloseReturns

\* Whatever is under way goes on: a question to a far node has a deadline.
ConnFairness ==
    /\ \A x \in Learns : WF_connVars(task[x].at \notin {"idle", "over"} /\ LearnStep(x))
    /\ \A k \in Kicks : WF_connVars(CountsItself(k))
    /\ \A x \in Tasks : WF_connVars(Notes(x) \/ Tells(x))
    /\ \A t \in Transports : WF_connVars(FanInEnds(t))
    /\ WF_connVars(TakesTransport) /\ WF_connVars(ShutsTransport)
    /\ WF_connVars(CloseReturns)

ConnSpec == ConnInit /\ [][ConnNext]_connVars /\ ConnFairness

----------------------------------------------------------------------------
(* Type correctness. *)
ConnTypeOK ==
    /\ far \in Homes /\ faults \in 0..MaxFaults
    /\ live \in Transports \cup {None}
    /\ shut \subseteq dialed /\ dialed \subseteq Transports
    /\ verified \subseteq dialed /\ fetching \subseteq dialed
    /\ stored \in Homes \cup {None} /\ known \in Homes \cup {None}
    /\ health \in {"up", "down", "mismatch", "disabled"} /\ told \in {"up", "down"}
    /\ off \in BOOLEAN /\ closing \in {"no", "registry", "closed", "ended"}
    /\ task \in [Tasks -> Task]
    /\ raced \in BOOLEAN /\ crossed \in BOOLEAN /\ refused \in BOOLEAN

(* No transport is left open that nothing will close: every one dialed and *)
(* not closed is the connection's, or the switch holds it and is about to. *)
(* One that was lost would run its fan-in for ever, and Close would wait   *)
(* for it (ensureLive dials under the lock, Disable takes under it).       *)
NoTransportLeaks == dialed \ shut \subseteq {live, task[Switch].lc}

(* Once Close has returned no fan-in runs and no transport is open or will *)
(* be, whichever learns were under way (Close, "must not outlive the       *)
(* server").                                                               *)
ClosedForGood ==
    closing = "ended" =>
        /\ live = None /\ dialed \ shut \subseteq {task[Switch].lc}
        /\ \A t \in dialed : task[t].at = "over"

(* Close returns: everything it waits for comes to an end.                 *)
CloseEnds == closing = "closed" ~> closing = "ended"

(* A landing, once written down, is never another one: links name it.      *)
(* What is held in memory is what is stored, as soon as a transport is     *)
(* verified.  First learns that ran at once excepted, each of which writes *)
(* what it heard.                                                          *)
LandingIsBound ==
    [][~raced' => /\ stored # None => stored' = stored
                  /\ verified' # verified => known' = stored']_connVars

(* A connection the user disabled carries nothing and is recorded as       *)
(* disabled, whatever learns and fan-ins outlived the switch (note, "does  *)
(* not speak for it").                                                     *)
DisabledIsOff ==
    off /\ task[Switch].at \in {"tellsDown", "over"} => live = None /\ health = "disabled"

(* What was last told of a connection that is not disabled is what is      *)
(* recorded, when no task is about to tell: every change is published, and *)
(* none is lost to a note that came between a change and its telling.      *)
ChangesAreTold ==
    closing = "no" /\ ~off /\ ~crossed /\ Telling = {} => told = IF health = "up" THEN "up" ELSE "down"

(* Once the far node has answered another home than the stored links name, *)
(* and while it stays that node, a read routed through the connection is   *)
(* refused (route, "serves nothing").                                      *)
RefusedServesNothing ==
    refused /\ far # stored /\ live # None /\ ~off => health = "mismatch"

(* The connection's hub is left told that a disabled connection is dark    *)
(* (note: "A learn or fan-in that outlived Disable does not speak for      *)
(* it").  The code breaks this inside the node only: the router tells      *)
(* clients of a disabled source whatever the hub says (asSwitched).        *)
DisabledIsTold ==
    off /\ ~crossed /\ task[Switch].at = "over" /\ Telling = {} => told = "down"
=============================================================================
