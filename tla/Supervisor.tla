----------------------------- MODULE Supervisor -----------------------------
(***************************************************************************)
(* The supervision of one plugin's subprocess                              *)
(* (internal/plugin/supervisor.go).                                        *)
(*                                                                         *)
(* One goroutine looks at the process on a tick, takes a dead one down,    *)
(* waits out the back-off and spawns another.  Close and Disable both end  *)
(* the supervision for good: they close a channel, wait for the goroutine, *)
(* and kill what it left.  The process may exit at any moment, and the     *)
(* supervisor learns of that only when it looks.                           *)
(***************************************************************************)
EXTENDS Integers

CONSTANTS
    Process,      \* the processes the operating system may start, in a bound
    None,         \* no process, no reason
    Reasons,      \* what a stop is for: shutting down, disabled by the user
    FirstBackoff,
    MaxBackoff    \* both in the unit of the first one

ASSUME SupervisorAssumption ==
    /\ None \notin Process \cup Reasons
    /\ FirstBackoff \in Nat \ {0} /\ MaxBackoff \in Nat
    /\ FirstBackoff <= MaxBackoff

VARIABLES
    running,  \* the processes alive
    spawned,  \* history: the processes started so far
    proc,     \* the process calls are routed to
    health,   \* what health readers see, and why
    watch,    \* where the watch goroutine stands
    late,     \* it went to sleep with the supervisor already closing
    backoff,  \* the pause before its next spawn
    ending,   \* where the one stop that runs stands
    reason,   \* the reason it was given
    taken     \* the process it took out to kill

watching == <<watch, late, backoff>>
stopping == <<ending, reason, taken>>
supVars  == <<running, spawned, proc, health, watching, stopping>>

Up      == [up |-> TRUE, why |-> None]
Down(w) == [up |-> FALSE, why |-> w]
Health  == {Up} \cup {Down(w) : w \in Reasons \cup {"exited", "unstartable"}}

Closing == ending # "no"

\* Supervise returns only once a first spawn has succeeded.
SupInit ==
    /\ proc \in Process
    /\ running = {proc} /\ spawned = {proc}
    /\ health = Up
    /\ watch = "tick" /\ late = FALSE /\ backoff = FirstBackoff
    /\ ending = "no" /\ reason = None /\ taken = None

----------------------------------------------------------------------------
(***************************************************************************)
(* The watch goroutine.  A sleep that began before the supervisor closed   *)
(* may still run out, when both of its channels are ready.                 *)
(***************************************************************************)

Sleep(w) == watch' = w /\ late' = Closing

Slept(w) == watch = w /\ ~late

Exits(p) ==
    /\ p \in running
    /\ running' = running \ {p}
    /\ UNCHANGED <<spawned, proc, health, watching, stopping>>

\* How long the dead process ran decides the pause.
Pause(last, stayed) ==
    IF stayed THEN FirstBackoff
    ELSE IF 2 * last < MaxBackoff THEN 2 * last ELSE MaxBackoff

LooksUp ==
    /\ Slept("tick") /\ proc \in running
    /\ Sleep("tick")
    /\ UNCHANGED <<running, spawned, proc, health, backoff, stopping>>

\* There is no process: the last spawn failed.
LooksNone ==
    /\ Slept("tick") /\ proc = None
    /\ Sleep("pause")
    /\ UNCHANGED <<running, spawned, proc, health, backoff, stopping>>

\* Mutant: the dead process stays the one calls are routed to.
FindsDeadKeeps(stayed) ==
    /\ Slept("tick") /\ proc # None /\ proc \notin running
    /\ backoff' = Pause(backoff, stayed)
    /\ watch' = "exited"
    /\ UNCHANGED <<running, spawned, proc, health, late, stopping>>

\* Mutant: a process that is slow is taken for dead, and not killed.
TakesSlowForDead(stayed) ==
    /\ Slept("tick") /\ proc # None
    /\ proc' = None
    /\ backoff' = Pause(backoff, stayed)
    /\ watch' = "exited"
    /\ UNCHANGED <<running, spawned, health, late, stopping>>

FindsDead(stayed) ==
    /\ Slept("tick") /\ proc # None /\ proc \notin running
    /\ proc' = None
    /\ backoff' = Pause(backoff, stayed)
    /\ watch' = "exited"
    /\ UNCHANGED <<running, spawned, health, late, stopping>>

\* Health is recorded under the lock; the listeners hear of a transition after.
Changes(h) == health.up # h.up

RecordsExit ==
    /\ watch = "exited"
    /\ health' = Down("exited")
    /\ IF Changes(Down("exited")) THEN watch' = "tellsDown" /\ UNCHANGED late ELSE Sleep("pause")
    /\ UNCHANGED <<running, spawned, proc, backoff, stopping>>

\* The listeners are called.
WatchTells(up) ==
    /\ watch = IF up THEN "tellsUp" ELSE "tellsDown"
    /\ Sleep(IF up THEN "tick" ELSE "pause")
    /\ UNCHANGED <<running, spawned, proc, health, backoff, stopping>>

GoesToSpawn ==
    /\ Slept("pause")
    /\ watch' = "spawn"
    /\ UNCHANGED <<running, spawned, proc, health, late, backoff, stopping>>

Spawns(p) ==
    /\ watch = "spawn" /\ p \in Process \ spawned
    /\ running' = running \cup {p} /\ spawned' = spawned \cup {p}
    /\ proc' = p
    /\ watch' = "spawned"
    /\ UNCHANGED <<health, late, backoff, stopping>>

RecordsUp ==
    /\ watch = "spawned"
    /\ health' = Up
    /\ IF Changes(Up) THEN watch' = "tellsUp" /\ UNCHANGED late ELSE Sleep("tick")
    /\ UNCHANGED <<running, spawned, proc, backoff, stopping>>

\* A spawn that will not start is a death at age zero, and health is down
\* already.
SpawnFails ==
    /\ watch = "spawn"
    /\ proc' = None
    /\ health' = Down("unstartable")
    /\ backoff' = Pause(backoff, FALSE)
    /\ Sleep("tick")
    /\ UNCHANGED <<running, spawned, stopping>>

WatchEnds ==
    /\ watch \in {"tick", "pause"} /\ Closing
    /\ watch' = "over"
    /\ UNCHANGED <<running, spawned, proc, health, late, backoff, stopping>>

----------------------------------------------------------------------------
(***************************************************************************)
(* The stop, run once: a second caller waits for the first and does        *)
(* nothing.                                                                *)
(***************************************************************************)

StopBegins(r) ==
    /\ ending = "no"
    /\ ending' = "waits" /\ reason' = r
    /\ UNCHANGED <<running, spawned, proc, health, watching, taken>>

\* Mutant: the goroutine is not waited for.
StopTakesAtOnce ==
    /\ ending = "waits"
    /\ taken' = proc /\ proc' = None
    /\ ending' = "took"
    /\ UNCHANGED <<running, spawned, health, watching, reason>>

StopTakes ==
    /\ ending = "waits" /\ watch = "over"
    /\ taken' = proc /\ proc' = None
    /\ ending' = "took"
    /\ UNCHANGED <<running, spawned, health, watching, reason>>

StopRecords ==
    /\ ending = "took"
    /\ health' = Down(reason)
    /\ ending' = IF Changes(Down(reason)) THEN "tells" ELSE "kills"
    /\ UNCHANGED <<running, spawned, proc, watching, reason, taken>>

StopTells ==
    /\ ending = "tells"
    /\ ending' = "kills"
    /\ UNCHANGED <<running, spawned, proc, health, watching, reason, taken>>

StopKills ==
    /\ ending = "kills"
    /\ running' = running \ {taken}
    /\ ending' = "ended"
    /\ UNCHANGED <<spawned, proc, health, watching, reason, taken>>

----------------------------------------------------------------------------
\* Steps no listener hears.
Quietly ==
    \/ \E p \in Process : Exits(p)
    \/ LooksUp \/ LooksNone \/ GoesToSpawn
    \/ \E stayed \in BOOLEAN : FindsDead(stayed)
    \/ RecordsExit \/ RecordsUp
    \/ \E p \in Process : Spawns(p)
    \/ SpawnFails
    \/ WatchEnds
    \/ \E r \in Reasons : StopBegins(r)
    \/ StopTakes \/ StopRecords \/ StopKills

Tells(up) == WatchTells(up) \/ (~up /\ StopTells)

SupNext == Quietly \/ \E up \in BOOLEAN : Tells(up)

SupSpec == SupInit /\ [][SupNext]_supVars

WatchStep ==
    \/ LooksUp \/ LooksNone \/ GoesToSpawn
    \/ \E stayed \in BOOLEAN : FindsDead(stayed)
    \/ RecordsExit \/ RecordsUp
    \/ \E p \in Process : Spawns(p)
    \/ SpawnFails
    \/ \E up \in BOOLEAN : WatchTells(up)
    \/ WatchEnds

StopStep == StopTakes \/ StopRecords \/ StopTells \/ StopKills

----------------------------------------------------------------------------
(* Type correctness. *)
SupTypeOK ==
    /\ running \subseteq spawned /\ spawned \subseteq Process
    /\ proc \in Process \cup {None}
    /\ health \in Health
    /\ watch \in {"tick", "exited", "tellsDown", "tellsUp", "pause", "spawn", "spawned", "over"}
    /\ late \in BOOLEAN
    /\ backoff \in FirstBackoff..MaxBackoff
    /\ ending \in {"no", "waits", "took", "tells", "kills", "ended"}
    /\ reason \in Reasons \cup {None}
    /\ taken \in Process \cup {None}

(* No process is left behind: whatever runs is the process calls go to or  *)
(* the one the stop is about to kill (Supervisor.spawn, stop).             *)
NoneLeftBehind == running \subseteq {proc, taken}

(* Once a stop is over nothing runs or ever will, and whoever asks for the *)
(* plugin's health is told the reason of the first stop (Supervisor.stop,  *)
(* "the first reason is the one that holds").                              *)
StoppedForGood ==
    ending = "ended" => running = {} /\ proc = None /\ health = Down(reason)

(* The watch goroutine at rest leaves health saying whether calls have a   *)
(* process to go to.  A process that has exited and was not looked at yet  *)
(* is still the one calls go to, and they fail.                            *)
HealthIsTheProcess ==
    watch \in {"tick", "pause", "spawn"} /\ ending \in {"no", "waits"}
        => (health.up <=> proc # None)
=============================================================================
