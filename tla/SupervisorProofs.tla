-------------------------- MODULE SupervisorProofs --------------------------
(***************************************************************************)
(* The supervision of a plugin, for every number of processes and every    *)
(* back-off: the inductive invariant behind the three promises Supervisor  *)
(* states, that the plugin's composition with its listings and its         *)
(* listeners (PluginHealth) takes no step a supervisor alone could not,    *)
(* and that an outage is told to every client.  The second part is about   *)
(* the listings the plugin's host watches (Watch), for any number of       *)
(* clients, grids and listings: that a change reaches whoever shows it.    *)
(***************************************************************************)
EXTENDS PluginHealth, Watch, TLAPS

(* Before the stop has taken the process it holds none; once it has, the   *)
(* goroutine is over and calls have no process to go to.                   *)
StopHolds ==
    /\ ending \in {"no", "waits"} => taken = None
    /\ ending \notin {"no", "waits"} => watch = "over" /\ proc = None
    /\ ending \notin {"no", "waits", "took"} => health = Down(reason)
    /\ ending # "no" => reason \in Reasons
    /\ watch = "over" => ending # "no"
    /\ ending = "ended" => running = {}

(* Where the watch goroutine stands says what it has told of the process.  *)
WatchKnows ==
    /\ watch \in {"exited", "tellsDown", "pause", "spawn"} => proc = None
    /\ watch \in {"spawned", "tellsUp"} => proc # None
    /\ watch \in {"tellsDown", "pause", "spawn"} => ~health.up
    /\ watch = "tellsUp" => health.up
    /\ watch = "tick" /\ ending \in {"no", "waits"} => (health.up <=> proc # None)

SupInv == SupTypeOK /\ NoneLeftBehind /\ StopHolds /\ WatchKnows

----------------------------------------------------------------------------
\* The invariant holds of a supervisor just started.
LEMMA SupInitHolds == SupInit => SupInv
<1> SUFFICES ASSUME SupInit PROVE SupInv
  OBVIOUS
<1> USE SupervisorAssumption DEF SupervisorAssumption, SupInit, Up
<1>1. backoff \in FirstBackoff..MaxBackoff
  OBVIOUS
<1>2. SupTypeOK
  BY <1>1 DEF SupTypeOK, Health
<1>3. NoneLeftBehind /\ StopHolds
  BY DEF NoneLeftBehind, StopHolds
<1>4. WatchKnows
  BY DEF WatchKnows
<1>5. QED
  BY <1>2, <1>3, <1>4 DEF SupInv

(* The back-off doubles to its cap (respawnPause).                         *)
LEMMA PauseInRange ==
    ASSUME NEW b \in FirstBackoff..MaxBackoff, NEW stayed \in BOOLEAN
    PROVE  Pause(b, stayed) \in FirstBackoff..MaxBackoff
<1> USE SupervisorAssumption DEF SupervisorAssumption, Pause
<1>1. b \in Nat /\ FirstBackoff <= b
  OBVIOUS
<1>2. CASE stayed
  BY <1>2
<1>3. CASE ~stayed /\ 2 * b < MaxBackoff
  BY <1>1, <1>3
<1>4. CASE ~stayed /\ ~(2 * b < MaxBackoff)
  BY <1>4
<1>5. QED
  BY <1>2, <1>3, <1>4

(* The watch goroutine's steps keep the invariant.                         *)
LEMMA WatchKeeps ==
    ASSUME SupInv, WatchStep
    PROVE  SupInv'
<1> USE SupervisorAssumption DEF SupervisorAssumption, SupInv, SupTypeOK, NoneLeftBehind, StopHolds, WatchKnows,
            Health, Up, Down, watching, stopping, Sleep, Slept, Closing
<1>1. CASE LooksUp
  BY <1>1 DEF LooksUp
<1>2. CASE LooksNone
  BY <1>2 DEF LooksNone
<1>3. CASE GoesToSpawn
  BY <1>3 DEF GoesToSpawn
<1>4. ASSUME NEW stayed \in BOOLEAN, FindsDead(stayed) PROVE SupInv'
  BY <1>4, PauseInRange DEF FindsDead
<1>5. CASE RecordsExit
  BY <1>5 DEF RecordsExit, Changes
<1>6. CASE RecordsUp
  BY <1>6 DEF RecordsUp, Changes
<1>7. ASSUME NEW p \in Process, Spawns(p) PROVE SupInv'
  BY <1>7 DEF Spawns
<1>8. CASE SpawnFails
  BY <1>8, PauseInRange DEF SpawnFails
<1>9. ASSUME NEW up \in BOOLEAN, WatchTells(up) PROVE SupInv'
  BY <1>9 DEF WatchTells
<1>10. CASE WatchEnds
  BY <1>10 DEF WatchEnds
<1>11. QED
  BY <1>1, <1>2, <1>3, <1>4, <1>5, <1>6, <1>7, <1>8, <1>9, <1>10 DEF WatchStep

(* The stop's steps keep it.                                               *)
LEMMA StopKeeps ==
    ASSUME SupInv,
           StopStep \/ \E r \in Reasons : StopBegins(r)
    PROVE  SupInv'
<1> USE SupervisorAssumption DEF SupervisorAssumption, SupInv, SupTypeOK, NoneLeftBehind, StopHolds, WatchKnows,
            Health, Up, Down, watching, stopping, Closing
<1>1. ASSUME NEW r \in Reasons, StopBegins(r) PROVE SupInv'
  BY <1>1 DEF StopBegins
<1>2. CASE StopTakes
  BY <1>2 DEF StopTakes
<1>3. CASE StopRecords
  BY <1>3 DEF StopRecords, Changes
<1>4. CASE StopTells
  BY <1>4 DEF StopTells
<1>5. CASE StopKills
  BY <1>5 DEF StopKills
<1>6. QED
  BY <1>1, <1>2, <1>3, <1>4, <1>5 DEF StopStep

\* So does every step of a supervisor.
LEMMA StepKeeps ==
    ASSUME SupInv, [SupNext]_supVars
    PROVE  SupInv'
<1>1. ASSUME NEW p \in Process, Exits(p) PROVE SupInv'
  BY <1>1 DEF Exits, SupInv, SupTypeOK, NoneLeftBehind, StopHolds, WatchKnows, watching, stopping
<1>2. CASE WatchStep
  BY <1>2, WatchKeeps
<1>3. CASE StopStep \/ \E r \in Reasons : StopBegins(r)
  BY <1>3, StopKeeps
<1>4. CASE UNCHANGED supVars
  BY <1>4 DEF supVars, watching, stopping, SupInv, SupTypeOK, NoneLeftBehind, StopHolds, WatchKnows
<1>5. QED
  BY <1>1, <1>2, <1>3, <1>4 DEF SupNext, Quietly, Tells, WatchStep, StopStep

(* Every state of a supervisor satisfies the invariant.                    *)
THEOREM SupervisorInvariant == SupSpec => []SupInv
<1>1. SupInit => SupInv
  BY SupInitHolds
<1>2. SupInv /\ [SupNext]_supVars => SupInv'
  BY StepKeeps
<1>3. QED
  BY <1>1, <1>2, PTL DEF SupSpec

----------------------------------------------------------------------------
(* The composition adds listings, streams and listeners, and takes no step *)
(* of the supervisor's own.                                                *)
LEMMA NextIsSupervised == [Next]_vars => [SupNext]_supVars
<1> USE DEF supVars
<1>1. ASSUME NEW l \in Listers, Lists(l) \/ ListerStep(l) PROVE UNCHANGED supVars
  BY <1>1 DEF Lists, ListerStep, NoteSkipped, Notes, Edits, Withholds, Announces, PublishesSource
<1>2. ASSUME NEW c \in Clients,
             \/ InfoFails(c) \/ Attaches(c) \/ Listens(c) \/ TellsProcess(c) \/ TellsSource(c)
             \/ Relays(c) \/ Breaks(c)
      PROVE  UNCHANGED supVars
  BY <1>2 DEF InfoFails, Attaches, Listens, TellsProcess, TellsSource, Relays, Breaks
<1>3. CASE SupervisorActs
  BY <1>3 DEF SupervisorActs, SupNext
<1>4. ASSUME NEW up \in BOOLEAN, SupervisorTells(up) PROVE SupNext
  BY <1>4 DEF SupervisorTells, SupNext
<1>5. CASE SourceTurns
  BY <1>5 DEF SourceTurns
<1>6. CASE UNCHANGED vars
  BY <1>6 DEF vars
<1>7. QED
  BY <1>1, <1>2, <1>3, <1>4, <1>5, <1>6 DEF Next

(* The plugin host composed with its supervisor implements the supervisor. *)
THEOREM PluginHealthImplementsSupervisor == Spec => SupSpec
<1>1. Init => SupInit
  BY DEF Init
<1>2. QED
  BY <1>1, NextIsSupervised, PTL DEF Spec, SupSpec

\* So the supervisor's invariant holds in the composition.
THEOREM CompositionInvariant == Spec => []SupInv
BY SupervisorInvariant, PluginHealthImplementsSupervisor, PTL

(* No process is left behind, whatever order exits, respawns and the stop  *)
(* come in (Supervisor.spawn, stop).                                       *)
THEOREM NoProcessIsLeftBehind == Spec => []NoneLeftBehind
<1>1. SupInv => NoneLeftBehind
  BY DEF SupInv
<1>2. QED
  BY <1>1, CompositionInvariant, PTL

(* A stop is for good, and its reason the one that is told (Supervisor.stop). *)
THEOREM StopIsForGood == Spec => []StoppedForGood
<1>1. SupInv => StoppedForGood
  BY DEF SupInv, StopHolds, StoppedForGood
<1>2. QED
  BY <1>1, CompositionInvariant, PTL

(* At rest, health says whether there is a process (Supervisor.watch).     *)
THEOREM RestingHealthIsTheProcess == Spec => []HealthIsTheProcess
<1>1. SupInv => HealthIsTheProcess
  BY DEF SupInv, WatchKnows, HealthIsTheProcess
<1>2. QED
  BY <1>1, CompositionInvariant, PTL
----------------------------------------------------------------------------
(***************************************************************************)
(* Outages are told.  A process's outage and its source's ride the same    *)
(* event, so each is followed while the other does not happen: the news in *)
(* a stream's box, and what a stream whose box is empty has made of its    *)
(* client's copy, agree with what is so whenever no telling is pending.    *)
(***************************************************************************)

(* A stream is in the hub from when it attaches, its listener from when it *)
(* listens, and until it asks its client's copy is what its gaps left.     *)
StreamsStand ==
    \A c \in Clients :
        /\ Opening(c) => mail[c] = <<>>
        /\ c \in hears <=> stream[c] \in {"listening", "asked", "relays"}
        /\ gaps[c] = 0 /\ stream[c] \in {"down", "attached", "listening"} => ~dark[c]

(* A process brought back up is not the first one.                         *)
Respawns ==
    /\ spawned # {}
    /\ watch \in {"spawned", "tellsUp"} => \A p \in Process : spawned # {p}

Telling == watch \in {"tellsDown", "tellsUp"} \/ ending = "tells"

Changing(l) == lister[l].at \in {"changed", "announces"}

Matches(c, up) ==
    /\ mail[c] # <<>> => mail[c] = <<up>>
    /\ mail[c] = <<>> /\ stream[c] = "relays" =>
           /\ ~up => dark[c]
           /\ dark[c] => ~up \/ gaps[c] > 0

(* While no listing has found the source dark, health is the process.      *)
ProcessIsTold ==
    ~everDark =>
        /\ ~srcDark /\ \A l \in Listers : ~Changing(l)
        /\ ~crossed /\ ~Telling =>
               \A c \in Clients :
                   /\ Matches(c, health.up)
                   /\ stream[c] = "asked" /\ mail[c] = <<>> =>
                          /\ ~health.up => dark[c]
                          /\ dark[c] => ~health.up \/ gaps[c] > 0

(* While the first process lives, health is the source.                    *)
SourceIsTold ==
    NeverDied =>
        /\ ~crossed =>
               /\ \A k, l \in Listers : Changing(k) /\ Changing(l) => k = l
               /\ \A l \in Listers : Changing(l) => lister[l].dark = srcDark
               /\ (\A l \in Listers : ~Changing(l)) => \A c \in Clients : Matches(c, ~srcDark)
        /\ \A c \in Clients : stream[c] = "asked" =>
               found[c] /\ (gaps[c] = 0 => ~dark[c])

ToldInv == PairTypeOK /\ StreamsStand /\ Respawns /\ ProcessIsTold /\ SourceIsTold

----------------------------------------------------------------------------
\* What a step that is none of the supervisor's leaves of it.
LEMMA SupStays ==
    ASSUME UNCHANGED supVars
    PROVE  /\ health' = health /\ spawned' = spawned /\ watch' = watch /\ ending' = ending
           /\ proc' = proc /\ running' = running
           /\ Telling' = Telling /\ NeverDied' = NeverDied /\ (Respawns => Respawns')
BY DEF supVars, watching, stopping, Telling, NeverDied, Respawns

\* Health is up or it is not.
LEMMA HealthSaysWhich ==
    ASSUME SupInv
    PROVE  health.up \in BOOLEAN
<1>1. health = Up \/ \E w \in Reasons \cup {"exited", "unstartable"} : health = Down(w)
  BY DEF SupInv, SupTypeOK, Health
<1>2. health = Up => health.up = TRUE
  BY DEF Up
<1>3. ASSUME NEW w, health = Down(w) PROVE health.up = FALSE
  BY <1>3 DEF Down
<1>4. QED
  BY <1>1, <1>2, <1>3

\* A step no listener hears begins a telling or leaves health as it was.
LEMMA QuietIsQuiet ==
    ASSUME SupInv, SupInv', Quietly
    PROVE  ~Telling' => ~Telling /\ health'.up = health.up
<1> USE DEF Telling, Sleep, Slept, Up, Down, Changes, watching, stopping
<1>1. ASSUME NEW p \in Process, Exits(p) PROVE ~Telling' => ~Telling /\ health'.up = health.up
  BY <1>1 DEF Exits
<1>2. CASE LooksUp \/ LooksNone \/ GoesToSpawn \/ WatchEnds
  BY <1>2 DEF LooksUp, LooksNone, GoesToSpawn, WatchEnds
<1>3. ASSUME NEW stayed \in BOOLEAN, FindsDead(stayed)
      PROVE  ~Telling' => ~Telling /\ health'.up = health.up
  BY <1>3 DEF FindsDead
<1>4. CASE RecordsExit
  <2>1. watch = "exited" /\ health' = Down("exited") /\ ending' = ending
    BY <1>4 DEF RecordsExit
  <2>2. watch' # "tellsDown" => health.up = Down("exited").up
    BY <1>4 DEF RecordsExit
  <2>3. ending # "tells"
    BY <2>1 DEF SupInv, StopHolds, SupTypeOK
  <2>4. QED
    BY <2>1, <2>2, <2>3
<1>5. CASE RecordsUp
  <2>1. watch = "spawned" /\ health' = Up /\ ending' = ending
    BY <1>5 DEF RecordsUp
  <2>2. watch' # "tellsUp" => health.up = Up.up
    BY <1>5 DEF RecordsUp
  <2>3. ending # "tells"
    BY <2>1 DEF SupInv, StopHolds, SupTypeOK
  <2>4. QED
    BY <2>1, <2>2, <2>3
<1>6. ASSUME NEW p \in Process, Spawns(p) PROVE ~Telling' => ~Telling /\ health'.up = health.up
  BY <1>6 DEF Spawns
<1>7. CASE SpawnFails
  <2>1. watch = "spawn" /\ health' = Down("unstartable") /\ ending' = ending
    BY <1>7 DEF SpawnFails
  <2>2. health.up = FALSE
    BY <2>1 DEF SupInv, WatchKnows, SupTypeOK, Health
  <2>3. QED
    BY <2>1, <2>2
<1>8. ASSUME NEW r \in Reasons, StopBegins(r) PROVE ~Telling' => ~Telling /\ health'.up = health.up
  BY <1>8 DEF StopBegins
<1>9. CASE StopTakes \/ StopKills
  BY <1>9 DEF StopTakes, StopKills
<1>10. CASE StopRecords
  <2>1. ending = "took" /\ health' = Down(reason) /\ watch' = watch
    BY <1>10 DEF StopRecords
  <2>2. ending' # "tells" => health.up = Down(reason).up
    BY <1>10 DEF StopRecords
  <2>3. watch = "over"
    BY <2>1 DEF SupInv, StopHolds
  <2>4. QED
    BY <2>1, <2>2, <2>3
<1>11. QED
  BY <1>1, <1>2, <1>3, <1>4, <1>5, <1>6, <1>7, <1>8, <1>9, <1>10 DEF Quietly

\* What is told is so, ends the telling, and is never of the first process.
LEMMA TellsWhatIsSo ==
    ASSUME SupInv, Respawns, NEW up \in BOOLEAN, Tells(up)
    PROVE  /\ health' = health /\ health.up = up /\ spawned' = spawned
           /\ Telling /\ ~Telling' /\ ~NeverDied /\ ~NeverDied'
<1> USE DEF Telling, Sleep, watching, stopping
<1>1. CASE WatchTells(up)
  <2>1. health' = health /\ spawned' = spawned /\ ending' = ending
        /\ watch = (IF up THEN "tellsUp" ELSE "tellsDown")
        /\ watch' = (IF up THEN "tick" ELSE "pause")
    BY <1>1 DEF WatchTells
  <2>2. health.up \in BOOLEAN
    BY HealthSaysWhich
  <2>3. health.up = up
    BY <2>1, <2>2 DEF SupInv, WatchKnows
  <2>4. ending # "tells"
    BY <2>1 DEF SupInv, StopHolds
  <2>5. ~NeverDied
    BY <2>1, <2>3 DEF NeverDied, Respawns
  <2>6. QED
    BY <2>1, <2>3, <2>4, <2>5 DEF NeverDied
<1>2. CASE ~up /\ StopTells
  <2>1. health' = health /\ spawned' = spawned /\ ending = "tells" /\ ending' = "kills" /\ watch' = watch
    BY <1>2 DEF StopTells
  <2>2. watch = "over" /\ health = Down(reason)
    BY <2>1 DEF SupInv, StopHolds
  <2>3. health.up = FALSE
    BY <2>2 DEF Down
  <2>4. QED
    BY <1>2, <2>1, <2>2, <2>3 DEF NeverDied
<1>3. QED
  BY <1>1, <1>2 DEF Tells

\* A plugin that never died had not before.
LEMMA RespawnsKept ==
    ASSUME SupInv, SupInv', Respawns, [SupNext]_supVars
    PROVE  Respawns' /\ (NeverDied' => NeverDied)
<1>1. CASE UNCHANGED supVars
  BY <1>1, SupStays
<1>2. ASSUME NEW p \in Process, Spawns(p) PROVE Respawns' /\ (NeverDied' => NeverDied)
  <2>1. watch = "spawn" /\ p \notin spawned /\ spawned' = spawned \cup {p} /\ health' = health
        /\ watch' = "spawned"
    BY <1>2 DEF Spawns
  <2>2. \A q \in Process : spawned' # {q}
    BY <2>1 DEF Respawns
  <2>3. QED
    BY <2>1, <2>2 DEF Respawns, NeverDied
<1>3. CASE RecordsUp
  <2>1. watch = "spawned" /\ spawned' = spawned
    BY <1>3 DEF RecordsUp
  <2>2. QED
    BY <2>1 DEF Respawns, NeverDied
<1>4. ASSUME SupNext, ~RecordsUp, \A p \in Process : ~Spawns(p)
      PROVE  /\ spawned' = spawned /\ (health' = health \/ ~health'.up)
             /\ watch' \in {"spawned", "tellsUp"} => watch' = watch
  <2> USE <1>4 DEF Sleep, Slept, Up, Down, watching, stopping
  <2>1. CASE WatchStep
    <3>1. CASE LooksUp \/ LooksNone \/ GoesToSpawn \/ WatchEnds
      BY <3>1 DEF LooksUp, LooksNone, GoesToSpawn, WatchEnds
    <3>2. CASE \E stayed \in BOOLEAN : FindsDead(stayed)
      BY <3>2 DEF FindsDead
    <3>3. CASE RecordsExit
      BY <3>3 DEF RecordsExit
    <3>4. CASE SpawnFails
      BY <3>4 DEF SpawnFails
    <3>5. CASE \E up \in BOOLEAN : WatchTells(up)
      BY <3>5 DEF WatchTells
    <3>6. QED
      BY <2>1, <3>1, <3>2, <3>3, <3>4, <3>5 DEF WatchStep
  <2>2. CASE StopStep
    BY <2>2 DEF StopStep, StopTakes, StopRecords, StopTells, StopKills
  <2>3. CASE \E r \in Reasons : StopBegins(r)
    BY <2>3 DEF StopBegins
  <2>4. CASE \E p \in Process : Exits(p)
    BY <2>4 DEF Exits
  <2>5. QED
    BY <2>1, <2>2, <2>3, <2>4 DEF SupNext, Quietly, Tells, WatchStep, StopStep
<1>5. QED
  <2>1. CASE SupNext /\ ~RecordsUp /\ \A p \in Process : ~Spawns(p)
    BY <1>4, <2>1 DEF Respawns, NeverDied
  <2>2. QED
    BY <1>1, <1>2, <1>3, <2>1

----------------------------------------------------------------------------
ClientStep(c) ==
    \/ InfoFails(c) \/ Attaches(c) \/ Listens(c) \/ TellsProcess(c) \/ TellsSource(c)
    \/ Relays(c) \/ Breaks(c)

\* What a client's step leaves alone.
LEMMA ClientStays ==
    ASSUME NEW c \in Clients, ClientStep(c)
    PROVE  /\ UNCHANGED supVars
           /\ UNCHANGED <<out, srcDark, everDark, lister, crossed>>
BY DEF ClientStep, InfoFails, Attaches, Listens, TellsProcess, TellsSource, Relays, Breaks, source

\* What a listing's step leaves alone.
LEMMA ListerStays ==
    ASSUME NEW l \in Listers, Lists(l) \/ ListerStep(l)
    PROVE  /\ UNCHANGED supVars
           /\ UNCHANGED <<out, decl, stream, hears, found, gaps, dark>>
           /\ UNCHANGED <<srcDark, everDark, crossed>> \/ Edits(l)
           /\ UNCHANGED mail \/ PublishesSource(l)
BY DEF Lists, ListerStep, NoteSkipped, Notes, Edits, Withholds, Announces, PublishesSource, streams

\* What a box holds after a publish.
LEMMA PublishedIsNews ==
    ASSUME PairTypeOK, NEW up \in BOOLEAN, Publish(up)
    PROVE  mail' \in [Clients -> {<<>>, <<TRUE>>, <<FALSE>>}]
<1>1. <<up>> \in {<<TRUE>>, <<FALSE>>}
  <2>1. CASE up
    BY <2>1
  <2>2. CASE ~up
    BY <2>2
  <2>3. QED
    BY <2>1, <2>2
<1>2. QED
  BY <1>1 DEF PairTypeOK, Publish

\* Every step keeps the types.
LEMMA PairTypesKept ==
    ASSUME SupInv, PairTypeOK, [Next]_vars
    PROVE  PairTypeOK'
<1> USE DEF PairTypeOK
<1>1. ASSUME NEW l \in Listers, Lists(l) \/ ListerStep(l) PROVE PairTypeOK'
  <2> DEFINE At5 == {"idle", "listed", "edits", "changed", "announces"}
  <2>1. lister' \in [Listers -> [at : At5, dark : BOOLEAN]]
    <3>1. CASE Lists(l)
      BY <3>1 DEF Lists
    <3>2. CASE ListerStep(l)
      <4>1. \E pc \in At5 : At(l, pc)
        BY <3>2 DEF ListerStep, NoteSkipped, Notes, Edits, Withholds, Announces, PublishesSource
      <4>2. QED
        BY SMTT(30), <4>1 DEF At
    <3>3. QED
      BY <1>1, <3>1, <3>2
  <2>2. srcDark' \in BOOLEAN /\ everDark' \in BOOLEAN /\ crossed' \in BOOLEAN
    <3>1. CASE Edits(l)
      <4>1. lister[l].dark \in BOOLEAN
        OBVIOUS
      <4>2. QED
        BY <3>1, <4>1 DEF Edits
    <3>2. QED
      BY <1>1, <3>1, ListerStays
  <2>3. mail' \in [Clients -> {<<>>, <<TRUE>>, <<FALSE>>}]
    <3>1. CASE PublishesSource(l)
      <4>1. ASSUME lister[l].dark PROVE Publish(FALSE)
        BY <3>1, <4>1 DEF PublishesSource, Publish
      <4>2. ASSUME ~lister[l].dark PROVE Publish(TRUE)
        BY <3>1, <4>2 DEF PublishesSource, Publish
      <4>3. QED
        BY <4>1, <4>2, PublishedIsNews
    <3>2. QED
      BY <1>1, <3>1, ListerStays
  <2>4. QED
    BY <1>1, <2>1, <2>2, <2>3, ListerStays
<1>2. ASSUME NEW c \in Clients, ClientStep(c) PROVE PairTypeOK'
  <2>1. stream' \in [Clients -> {"down", "retries", "attached", "listening", "asked", "relays"}]
        /\ hears' \subseteq Clients
    BY <1>2 DEF ClientStep, InfoFails, Attaches, Listens, TellsProcess, TellsSource, Relays, Breaks, To
  <2>2. decl' \in {"none", "held", "refused"}
    BY <1>2 DEF ClientStep, InfoFails, Attaches, Listens, TellsProcess, TellsSource, Relays, Breaks,
                source, HoldsDecl
  <2>3. found' \in [Clients -> BOOLEAN]
    BY <1>2, HealthSaysWhich DEF ClientStep, InfoFails, Attaches, Listens, TellsProcess, TellsSource, Relays, Breaks
  <2>4. dark' \in [Clients -> BOOLEAN]
    BY <1>2 DEF ClientStep, InfoFails, Attaches, Listens, TellsProcess, TellsSource, Relays, Breaks
  <2>5. mail' \in [Clients -> {<<>>, <<TRUE>>, <<FALSE>>}]
    BY <1>2 DEF ClientStep, InfoFails, Attaches, Listens, TellsProcess, TellsSource, Relays, Breaks
  <2>6. gaps' \in [Clients -> 0..MaxGaps]
    <3>1. CASE Breaks(c)
      BY <3>1, PluginHealthAssumption DEF Breaks, PluginHealthAssumption
    <3>2. QED
      BY <1>2, <3>1 DEF ClientStep, InfoFails, Attaches, Listens, TellsProcess, TellsSource, Relays
  <2>7. QED
    BY <1>2, <2>1, <2>2, <2>3, <2>4, <2>5, <2>6, ClientStays
<1>3. CASE SupervisorActs
  BY <1>3 DEF SupervisorActs, source, streams
<1>4. ASSUME NEW up \in BOOLEAN, SupervisorTells(up) PROVE PairTypeOK'
  <2>1. mail' \in [Clients -> {<<>>, <<TRUE>>, <<FALSE>>}]
    BY <1>4, PublishedIsNews DEF SupervisorTells
  <2>2. crossed' \in BOOLEAN
    BY <1>4 DEF SupervisorTells
  <2>3. decl' \in {"none", "held", "refused"}
    BY <1>4 DEF SupervisorTells
  <2>4. QED
    BY <1>4, <2>1, <2>2, <2>3 DEF SupervisorTells
<1>5. CASE SourceTurns
  <2>1. out' \in BOOLEAN
    BY <1>5 DEF SourceTurns
  <2>2. QED
    BY <1>5, <2>1 DEF SourceTurns, streams
<1>6. CASE UNCHANGED vars
  BY <1>6 DEF vars, source, streams
<1>7. QED
  BY <1>1, <1>2, <1>3, <1>4, <1>5, <1>6 DEF Next, ClientStep

\* Where a client's stream stands, and how one that opens finds its client.
LEMMA StreamsStandKept ==
    ASSUME PairTypeOK, StreamsStand, [Next]_vars
    PROVE  StreamsStand'
<1> USE DEF PairTypeOK, StreamsStand, Opening
<1>1. ASSUME NEW l \in Listers, Lists(l) \/ ListerStep(l) PROVE StreamsStand'
  <2>1. ASSUME NEW d \in Clients, Opening(d) PROVE mail'[d] = mail[d]
    BY <1>1, <2>1, ListerStays DEF PublishesSource, Publish
  <2>2. QED
    BY <1>1, <2>1, ListerStays
<1>2. ASSUME NEW c \in Clients, ClientStep(c) PROVE StreamsStand'
  <2>1. CASE InfoFails(c) \/ Attaches(c)
    <3>1. UNCHANGED <<hears, mail, gaps>> /\ Opening(c)
          /\ stream' = [stream EXCEPT ![c] = IF InfoFails(c) THEN "retries" ELSE "attached"]
      BY <2>1 DEF InfoFails, Attaches, To
    <3>2. \A d \in Clients : d # c => dark'[d] = dark[d]
      BY <2>1 DEF InfoFails, Attaches
    <3>3. stream'[c] = "attached" /\ gaps[c] = 0 => ~dark'[c]
      BY <2>1, <3>1 DEF InfoFails, Attaches, To
    <3>4. QED
      BY <3>1, <3>2, <3>3
  <2>2. CASE Listens(c)
    BY <2>2 DEF Listens, To
  <2>3. CASE TellsProcess(c) \/ TellsSource(c)
    BY <2>3 DEF TellsProcess, TellsSource, To
  <2>4. CASE Relays(c)
    BY <2>4 DEF Relays
  <2>5. CASE Breaks(c)
    <3>1. gaps'[c] > 0 /\ \A d \in Clients : d # c => gaps'[d] = gaps[d]
      BY <2>5 DEF Breaks
    <3>2. QED
      BY <2>5, <3>1 DEF Breaks, To
  <2>6. QED
    BY <1>2, <2>1, <2>2, <2>3, <2>4, <2>5 DEF ClientStep
<1>3. CASE SupervisorActs
  BY <1>3 DEF SupervisorActs, streams
<1>4. ASSUME NEW up \in BOOLEAN, SupervisorTells(up) PROVE StreamsStand'
  BY <1>4 DEF SupervisorTells, Publish
<1>5. CASE SourceTurns
  BY <1>5 DEF SourceTurns, streams
<1>6. CASE UNCHANGED vars
  BY <1>6 DEF vars, streams
<1>7. QED
  BY <1>1, <1>2, <1>3, <1>4, <1>5, <1>6 DEF Next, ClientStep

----------------------------------------------------------------------------
\* What is published is what every box agrees with.
LEMMA PublishedMatches ==
    ASSUME PairTypeOK, StreamsStand, NEW up \in BOOLEAN, Publish(up), stream' = stream
    PROVE  \A d \in Clients : Matches(d, up)' /\ (stream'[d] = "asked" => mail'[d] # <<>>)
<1> TAKE d \in Clients
<1>1. CASE Opening(d)
  BY <1>1 DEF StreamsStand, Publish, Matches, Opening, PairTypeOK
<1>2. CASE ~Opening(d)
  <2>1. mail'[d] = <<up>>
    BY <1>2 DEF Publish, Opening
  <2>2. mail'[d] # <<>>
    BY <2>1
  <2>3. QED
    BY <2>1, <2>2 DEF Matches
<1>3. QED
  BY <1>1, <1>2

\* What agrees before a client's step agrees after it, unless the stream
\* begins to relay.
LEMMA ClientMatches ==
    ASSUME PairTypeOK, StreamsStand, NEW c \in Clients, ClientStep(c), ~TellsSource(c),
           NEW up \in BOOLEAN, \A d \in Clients : Matches(d, up)
    PROVE  \A d \in Clients : Matches(d, up)'
<1> USE DEF PairTypeOK
<1> TAKE d \in Clients
<1>1. CASE InfoFails(c) \/ Attaches(c) \/ Listens(c) \/ TellsProcess(c)
  <2>1. mail' = mail /\ gaps' = gaps
    BY <1>1 DEF InfoFails, Attaches, Listens, TellsProcess
  <2>2. stream'[d] = "relays" => stream[d] = "relays" /\ dark'[d] = dark[d]
    BY <1>1 DEF InfoFails, Attaches, Listens, TellsProcess, To, Opening
  <2>3. QED
    BY <2>1, <2>2 DEF Matches
<1>2. CASE Relays(c)
  <2>1. mail[c] = <<up>>
    BY <1>2 DEF Relays, Matches
  <2>2. Head(mail[c]) = up
    BY <2>1
  <2>3. dark' = [dark EXCEPT ![c] = ~up] /\ mail' = [mail EXCEPT ![c] = <<>>] /\ UNCHANGED <<stream, gaps>>
    BY <1>2, <2>2 DEF Relays
  <2>4. CASE d = c
    BY <2>3, <2>4 DEF Matches
  <2>5. CASE d # c
    BY <2>3, <2>5 DEF Matches
  <2>6. QED
    BY <2>4, <2>5
<1>3. CASE Breaks(c)
  <2>1. CASE d = c
    BY <1>3, <2>1 DEF Breaks, To, Matches
  <2>2. CASE d # c
    BY <1>3, <2>2 DEF Breaks, To, Matches
  <2>3. QED
    BY <2>1, <2>2
<1>4. QED
  BY <1>1, <1>2, <1>3 DEF ClientStep

\* A stream that starts to relay agrees, if its client's copy did when asked.
LEMMA RelayBegins ==
    ASSUME PairTypeOK, NEW c \in Clients, TellsSource(c), NEW up \in BOOLEAN,
           \A d \in Clients : Matches(d, up),
           mail[c] = <<>> => /\ ~up => dark'[c]
                             /\ dark'[c] => ~up \/ gaps[c] > 0
    PROVE  \A d \in Clients : Matches(d, up)'
<1> TAKE d \in Clients
<1>1. mail' = mail /\ gaps' = gaps
  BY DEF TellsSource
<1>2. CASE d = c
  BY <1>1, <1>2 DEF Matches
<1>3. CASE d # c
  <2>1. stream'[d] = stream[d] /\ dark'[d] = dark[d]
    BY <1>3 DEF TellsSource, To, PairTypeOK
  <2>2. QED
    BY <1>1, <2>1 DEF Matches
<1>4. QED
  BY <1>2, <1>3

AskedKnows(c) ==
    stream[c] = "asked" /\ mail[c] = <<>> =>
        /\ ~health.up => dark[c]
        /\ dark[c] => ~health.up \/ gaps[c] > 0

Agrees == \A c \in Clients : Matches(c, health.up) /\ AskedKnows(c)

\* Before a listing has found the source dark, every step keeps clients told
\* of the process.
LEMMA ProcessStaysTold ==
    ASSUME SupInv, SupInv', ToldInv, PairTypeOK', [Next]_vars
    PROVE  ProcessIsTold'
<1> USE DEF ToldInv
<1>p. ProcessIsTold <=>
        (~everDark => /\ ~srcDark /\ \A l \in Listers : ~Changing(l)
                      /\ ~crossed /\ ~Telling => Agrees)
  BY DEF ProcessIsTold, Agrees, AskedKnows
<1>q. ProcessIsTold' <=>
        (~everDark' => /\ ~srcDark' /\ \A l \in Listers : ~Changing(l)'
                       /\ ~crossed' /\ ~Telling' => Agrees')
  BY DEF ProcessIsTold, Agrees, AskedKnows
<1>b. health.up \in BOOLEAN
  BY HealthSaysWhich
<1>1. ASSUME NEW l \in Listers, Lists(l) \/ ListerStep(l) PROVE ProcessIsTold'
  <2> SUFFICES ASSUME ~everDark' PROVE ProcessIsTold'
    BY <1>q
  <2>1. ~everDark
    <3>1. everDark' = (everDark \/ lister[l].dark) \/ everDark' = everDark
      BY <1>1, ListerStays DEF Edits
    <3>2. QED
      BY <3>1
  <2>2. ~srcDark /\ \A k \in Listers : ~Changing(k)
    BY <1>p, <2>1
  <2>3. ~PublishesSource(l) /\ ~Withholds(l) /\ ~Announces(l)
    BY <2>2 DEF PublishesSource, Withholds, Announces, Changing
  <2>4. ~srcDark' /\ (~crossed' => ~crossed)
    <3>1. CASE Edits(l)
      <4>1. ~lister[l].dark
        BY <3>1 DEF Edits
      <4>2. QED
        BY <3>1, <4>1 DEF Edits
    <3>2. QED
      BY <1>1, <2>2, <3>1, ListerStays
  <2>5. lister'[l].at \in {"idle", "listed", "edits"} /\ \A k \in Listers : k # l => lister'[k] = lister[k]
    <3>1. CASE Edits(l)
      <4>1. lister[l].dark = FALSE /\ srcDark = FALSE
        <5>1. ~lister[l].dark
          BY <3>1 DEF Edits
        <5>2. QED
          BY <2>2, <5>1 DEF PairTypeOK
      <4>2. lister' = [lister EXCEPT ![l].at = "idle"]
        BY <3>1, <4>1 DEF Edits, At
      <4>3. QED
        BY <4>2 DEF PairTypeOK
    <3>2. CASE Lists(l)
      BY <3>2 DEF Lists, PairTypeOK
    <3>3. CASE NoteSkipped(l) \/ Notes(l)
      BY <3>3 DEF NoteSkipped, Notes, At, PairTypeOK
    <3>4. QED
      BY <1>1, <2>3, <3>1, <3>2, <3>3 DEF ListerStep
  <2>6. \A k \in Listers : ~Changing(k)'
    <3> TAKE k \in Listers
    <3>1. CASE k = l
      BY <2>5, <3>1 DEF Changing
    <3>2. CASE k # l
      BY <2>2, <2>5, <3>2 DEF Changing
    <3>3. QED
      BY <3>1, <3>2
  <2>7. UNCHANGED <<mail, stream, dark, gaps, health>> /\ Telling' = Telling
    BY <1>1, <2>3, ListerStays, SupStays
  <2>8. Agrees => Agrees'
    BY <2>7 DEF Agrees, AskedKnows, Matches
  <2>9. QED
    BY <1>p, <1>q, <2>1, <2>4, <2>6, <2>7, <2>8
<1>2. ASSUME NEW c \in Clients, ClientStep(c) PROVE ProcessIsTold'
  <2>1. UNCHANGED <<srcDark, everDark, lister, crossed, health>> /\ Telling' = Telling
    BY <1>2, ClientStays, SupStays
  <2>2. (\A l \in Listers : ~Changing(l)) => \A l \in Listers : ~Changing(l)'
    BY <2>1 DEF Changing
  <2>3. ASSUME Agrees, ~srcDark PROVE Agrees'
    <3>u. PICK up \in BOOLEAN : up = health.up
      BY <1>b
    <3>1. \A d \in Clients : Matches(d, up)
      BY <2>3, <3>u DEF Agrees
    <3>2. CASE TellsSource(c)
      <4>1. srcDark = FALSE
        BY <2>3 DEF PairTypeOK
      <4>2. dark'[c] = dark[c] /\ stream[c] = "asked"
        BY <3>2, <4>1 DEF TellsSource, PairTypeOK
      <4>3. mail[c] = <<>> => /\ ~up => dark'[c]
                              /\ dark'[c] => ~up \/ gaps[c] > 0
        BY <2>3, <3>u, <4>2 DEF Agrees, AskedKnows
      <4>4. \A d \in Clients : Matches(d, up)'
        BY <3>1, <3>2, <4>3, RelayBegins
      <4>5. \A d \in Clients : AskedKnows(d)'
        <5> TAKE d \in Clients
        <5>1. stream'[d] = "asked" => d # c
          BY <3>2 DEF TellsSource, To, PairTypeOK
        <5>2. d # c => stream'[d] = stream[d] /\ dark'[d] = dark[d]
          BY <3>2 DEF TellsSource, To, PairTypeOK
        <5>3. mail' = mail /\ gaps' = gaps
          BY <3>2 DEF TellsSource
        <5>4. QED
          BY <2>1, <2>3, <5>1, <5>2, <5>3 DEF AskedKnows, Agrees
      <4>6. QED
        BY <2>1, <3>u, <4>4, <4>5 DEF Agrees, Matches
    <3>3. CASE ~TellsSource(c)
      <4>1. \A d \in Clients : Matches(d, up)'
        BY <1>2, <3>1, <3>3, ClientMatches
      <4>2. \A d \in Clients : AskedKnows(d)'
        <5> TAKE d \in Clients
        <5> USE DEF PairTypeOK
        <5>1. CASE TellsProcess(c)
          <6>1. mail' = mail /\ gaps' = gaps /\ stream[c] = "listening"
            BY <5>1 DEF TellsProcess
          <6>2. CASE d = c
            <7>1. dark'[c] = (dark[c] \/ ~health.up)
              BY <5>1 DEF TellsProcess
            <7>2. gaps[c] = 0 => ~dark[c]
              BY <6>1 DEF StreamsStand
            <7>3. QED
              BY <2>1, <6>1, <6>2, <7>1, <7>2 DEF AskedKnows
          <6>3. CASE d # c
            <7>1. stream'[d] = stream[d] /\ dark'[d] = dark[d]
              BY <5>1, <6>3 DEF TellsProcess, To
            <7>2. QED
              BY <2>1, <2>3, <6>1, <7>1 DEF AskedKnows, Agrees
          <6>4. QED
            BY <6>2, <6>3
        <5>2. CASE ~TellsProcess(c)
          <6>1. stream'[d] = "asked" => stream[d] = "asked" /\ mail'[d] = mail[d]
                                        /\ dark'[d] = dark[d] /\ gaps'[d] = gaps[d]
            BY ZenonT(30), <1>2, <3>3, <5>2 DEF ClientStep, InfoFails, Attaches, Listens, Relays, Breaks, To, Opening
          <6>2. QED
            BY <2>1, <2>3, <6>1 DEF AskedKnows, Agrees
        <5>3. QED
          BY <5>1, <5>2
      <4>3. QED
        BY <2>1, <3>u, <4>1, <4>2 DEF Agrees, Matches
    <3>4. QED
      BY <3>2, <3>3
  <2>4. QED
    BY <1>p, <1>q, <2>1, <2>2, <2>3
<1>3. CASE SupervisorActs
  <2>1. UNCHANGED <<srcDark, everDark, lister, crossed, mail, stream, dark, gaps>>
    BY <1>3 DEF SupervisorActs, source, streams
  <2>2. ~Telling' => ~Telling /\ health'.up = health.up
    BY <1>3, QuietIsQuiet DEF SupervisorActs
  <2>3. Agrees /\ health'.up = health.up => Agrees'
    BY <2>1 DEF Agrees, AskedKnows, Matches
  <2>4. (\A l \in Listers : ~Changing(l)) => \A l \in Listers : ~Changing(l)'
    BY <2>1 DEF Changing
  <2>5. QED
    BY <1>p, <1>q, <2>1, <2>2, <2>3, <2>4
<1>4. ASSUME NEW up \in BOOLEAN, SupervisorTells(up) PROVE ProcessIsTold'
  <2>1. UNCHANGED <<srcDark, everDark, lister, stream, hears, gaps, dark>> /\ Tells(up)
        /\ crossed' = (crossed \/ (hears = {} /\ \E c \in Clients : mail[c] # <<>>))
        /\ IF hears = {} THEN UNCHANGED mail ELSE Publish(up)
    BY <1>4 DEF SupervisorTells
  <2>2. health' = health /\ health.up = up
    BY <2>1, TellsWhatIsSo
  <2>3. (\A l \in Listers : ~Changing(l)) => \A l \in Listers : ~Changing(l)'
    BY <2>1 DEF Changing
  <2>4. ASSUME ~crossed' PROVE Agrees'
    <3>1. CASE hears = {}
      <4>1. \A c \in Clients : mail'[c] = <<>> /\ stream'[c] \notin {"asked", "relays"}
        BY <2>1, <2>4, <3>1 DEF StreamsStand
      <4>2. QED
        BY <4>1 DEF Agrees, AskedKnows, Matches
    <3>2. CASE hears # {}
      <4>1. \A d \in Clients : Matches(d, up)' /\ (stream'[d] = "asked" => mail'[d] # <<>>)
        BY <2>1, <3>2, PublishedMatches
      <4>2. QED
        BY <2>2, <4>1 DEF Agrees, AskedKnows, Matches
    <3>3. QED
      BY <3>1, <3>2
  <2>5. QED
    BY <1>p, <1>q, <2>1, <2>3, <2>4
<1>5. CASE SourceTurns \/ UNCHANGED vars
  <2>1. UNCHANGED <<srcDark, everDark, lister, crossed, mail, stream, dark, gaps, health>> /\ Telling' = Telling
    BY <1>5, SupStays DEF SourceTurns, streams, vars, source
  <2>2. Agrees => Agrees'
    BY <2>1 DEF Agrees, AskedKnows, Matches
  <2>3. (\A l \in Listers : ~Changing(l)) => \A l \in Listers : ~Changing(l)'
    BY <2>1 DEF Changing
  <2>4. QED
    BY <1>p, <1>q, <2>1, <2>2, <2>3
<1>6. QED
  BY <1>1, <1>2, <1>3, <1>4, <1>5 DEF Next, ClientStep

\* While the first process lives: the listing that changed what is known of
\* the source publishes that, and a stream that asked was told.
LEMMA SourceStaysTold ==
    ASSUME SupInv, ToldInv, PairTypeOK', Respawns', NeverDied' => NeverDied, [Next]_vars
    PROVE  SourceIsTold'
<1> SUFFICES ASSUME NeverDied' PROVE SourceIsTold'
  BY DEF SourceIsTold
<1> DEFINE OneChanges == /\ \A k, l \in Listers : Changing(k) /\ Changing(l) => k = l
                         /\ \A l \in Listers : Changing(l) => lister[l].dark = srcDark
           NoneChanges == \A l \in Listers : ~Changing(l)
           Agree == \A c \in Clients : Matches(c, ~srcDark)
           Asked == \A c \in Clients : stream[c] = "asked" => found[c] /\ (gaps[c] = 0 => ~dark[c])
<1>n. NeverDied /\ health.up
  BY DEF NeverDied
<1>p. (~crossed => OneChanges /\ (NoneChanges => Agree)) /\ Asked
  BY <1>n DEF ToldInv, SourceIsTold
<1>q. (~crossed' => OneChanges' /\ (NoneChanges' => Agree')) /\ Asked' => SourceIsTold'
  BY DEF SourceIsTold
<1> USE DEF ToldInv
<1>1. ASSUME NEW l \in Listers, Lists(l) \/ ListerStep(l) PROVE SourceIsTold'
  <2> USE DEF PairTypeOK
  <2>1. UNCHANGED <<stream, found, gaps, dark>>
    BY <1>1, ListerStays
  <2>2. Asked'
    BY <1>p, <2>1
  <2>3. \A k \in Listers : k # l => lister'[k] = lister[k]
    BY <1>1 DEF Lists, ListerStep, NoteSkipped, Notes, Edits, Withholds, Announces, PublishesSource, At
  <2>4. ASSUME ~crossed' PROVE OneChanges' /\ (NoneChanges' => Agree')
    <3>1. CASE Edits(l)
      <4>1. ~crossed /\ NoneChanges
        BY <2>4, <3>1 DEF Edits, Changing
      <4>2. lister'[l].dark = srcDark' /\ mail' = mail
        BY <3>1 DEF Edits, At, streams
      <4>3. \A k \in Listers : k # l => ~Changing(k)'
        BY <2>3, <4>1 DEF Changing
      <4>4. ~Changing(l)' => srcDark' = srcDark
        BY <3>1 DEF Edits, At, Changing
      <4>5. Agree
        BY <1>p, <4>1
      <4>6. srcDark' = srcDark => Agree'
        BY <2>1, <4>2, <4>5 DEF Matches
      <4>7. QED
        BY <4>2, <4>3, <4>4, <4>6
    <3>2. CASE PublishesSource(l)
      <4>1. ~crossed /\ srcDark' = srcDark /\ Publish(~lister[l].dark) /\ Changing(l)
            /\ lister'[l].at = "idle"
        BY <2>4, <3>2 DEF PublishesSource, Changing, At
      <4>2. \A k \in Listers : ~Changing(k)'
        <5> TAKE k \in Listers
        <5>1. CASE k = l
          BY <4>1, <5>1 DEF Changing
        <5>2. CASE k # l
          <6>1. ~Changing(k)
            BY <1>p, <4>1, <5>2
          <6>2. QED
            BY <2>3, <5>2, <6>1 DEF Changing
        <5>3. QED
          BY <5>1, <5>2
      <4>3. lister[l].dark = srcDark
        BY <1>p, <4>1
      <4>u. PICK up \in BOOLEAN : up = ~srcDark
        OBVIOUS
      <4>4. Publish(up)
        BY <4>1, <4>3, <4>u
      <4>5. \A d \in Clients : Matches(d, up)'
        BY <2>1, <4>4, PublishedMatches
      <4>6. Agree'
        BY <4>1, <4>u, <4>5
      <4>7. QED
        BY <4>2, <4>6
    <3>3. CASE Lists(l) \/ NoteSkipped(l) \/ Notes(l) \/ Withholds(l) \/ Announces(l)
      <4>1. UNCHANGED <<mail, srcDark, crossed>>
        BY <3>3 DEF Lists, NoteSkipped, Notes, Withholds, Announces, streams
      <4>2. ~Withholds(l)
        BY <1>n DEF Withholds
      <4>3. (Changing(l)' <=> Changing(l)) /\ (Changing(l) => lister'[l].dark = lister[l].dark)
        <5>1. CASE Lists(l)
          BY <5>1 DEF Lists, Changing
        <5>2. CASE NoteSkipped(l) \/ Notes(l) \/ Announces(l)
          BY <5>2 DEF NoteSkipped, Notes, Announces, At, Changing
        <5>3. QED
          BY <3>3, <4>2, <5>1, <5>2
      <4>4. \A k \in Listers : Changing(k)' <=> Changing(k)
        BY <2>3, <4>3 DEF Changing
      <4>5. OneChanges /\ (NoneChanges => Agree)
        BY <1>p, <2>4, <4>1
      <4>6. OneChanges'
        BY <2>3, <4>1, <4>3, <4>4, <4>5
      <4>7. NoneChanges' => NoneChanges
        BY <4>4
      <4>8. Agree => Agree'
        BY <2>1, <4>1 DEF Matches
      <4>9. QED
        BY <4>5, <4>6, <4>7, <4>8
    <3>4. QED
      BY <1>1, <3>1, <3>2, <3>3 DEF ListerStep
  <2>5. QED
    BY <1>q, <2>2, <2>4
<1>2. ASSUME NEW c \in Clients, ClientStep(c) PROVE SourceIsTold'
  <2>1. UNCHANGED <<srcDark, lister, crossed, health>>
    BY <1>2, ClientStays, SupStays
  <2>2. OneChanges => OneChanges'
    BY <2>1 DEF Changing
  <2>3. NoneChanges' => NoneChanges
    BY <2>1 DEF Changing
  <2>4. Agree => Agree'
    <3> SUFFICES ASSUME Agree PROVE Agree'
      OBVIOUS
    <3>u. PICK up \in BOOLEAN : up = ~srcDark
      BY DEF PairTypeOK
    <3>1. \A d \in Clients : Matches(d, up)
      BY <3>u
    <3>2. CASE TellsSource(c)
      <4>1. found[c] /\ (gaps[c] = 0 => ~dark[c]) /\ stream[c] = "asked"
        BY <1>p, <3>2 DEF TellsSource
      <4>2. dark'[c] = (dark[c] \/ srcDark)
        BY <3>2, <4>1 DEF TellsSource, PairTypeOK
      <4>3. gaps[c] # 0 => gaps[c] > 0
        BY DEF PairTypeOK
      <4>4. /\ ~up => dark'[c]
            /\ dark'[c] => ~up \/ gaps[c] > 0
        BY <3>u, <4>1, <4>2, <4>3
      <4>5. \A d \in Clients : Matches(d, up)'
        BY <3>1, <3>2, <4>4, RelayBegins
      <4>6. QED
        BY <2>1, <3>u, <4>5
    <3>3. CASE ~TellsSource(c)
      <4>1. \A d \in Clients : Matches(d, up)'
        BY <1>2, <3>1, <3>3, ClientMatches
      <4>2. QED
        BY <2>1, <3>u, <4>1
    <3>4. QED
      BY <3>2, <3>3
  <2>5. Asked'
    <3> SUFFICES ASSUME NEW d \in Clients, stream'[d] = "asked"
                 PROVE  found'[d] /\ (gaps'[d] = 0 => ~dark'[d])
      OBVIOUS
    <3> USE DEF PairTypeOK
    <3>1. CASE TellsProcess(c) /\ d = c
      <4>1. found'[c] = health.up /\ dark'[c] = (dark[c] \/ ~health.up) /\ gaps' = gaps
            /\ stream[c] = "listening"
        BY <3>1 DEF TellsProcess
      <4>2. gaps[c] = 0 => ~dark[c]
        BY <4>1 DEF StreamsStand
      <4>3. QED
        BY <1>n, <3>1, <4>1, <4>2
    <3>2. CASE ~(TellsProcess(c) /\ d = c)
      <4>1. stream[d] = "asked" /\ found'[d] = found[d] /\ dark'[d] = dark[d] /\ gaps'[d] = gaps[d]
        BY ZenonT(30), <1>2, <3>2 DEF ClientStep, InfoFails, Attaches, Listens, TellsProcess, TellsSource, Relays, Breaks,
                          To, Opening
      <4>2. QED
        BY <1>p, <4>1
    <3>3. QED
      BY <3>1, <3>2
  <2>6. QED
    BY <1>p, <1>q, <2>1, <2>2, <2>3, <2>4, <2>5
<1>3. CASE SupervisorActs \/ SourceTurns \/ UNCHANGED vars
  <2>1. UNCHANGED <<srcDark, lister, crossed, mail, stream, dark, gaps, found>>
    BY <1>3 DEF SupervisorActs, SourceTurns, source, streams, vars
  <2>2. (OneChanges => OneChanges') /\ (NoneChanges' => NoneChanges) /\ (Asked => Asked')
    BY <2>1 DEF Changing
  <2>3. Agree => Agree'
    BY <2>1 DEF Matches
  <2>4. QED
    BY <1>p, <1>q, <2>1, <2>2, <2>3
<1>4. ASSUME NEW up \in BOOLEAN, SupervisorTells(up) PROVE FALSE
  BY <1>4, <1>n, TellsWhatIsSo DEF SupervisorTells
<1>5. QED
  BY <1>1, <1>2, <1>3, <1>4 DEF Next, ClientStep

----------------------------------------------------------------------------
(* What is known of a plugin has the types PluginHealth states, and what   *)
(* is on its way to a client agrees with what is so.                       *)
THEOREM ToldInvariance == Spec => [](SupInv /\ ToldInv)
<1>1. Init => ToldInv
  <2> USE DEF Init, SupInit, Idle
  <2>1. Init => PairTypeOK
    <3>1. Init => gaps \in [Clients -> 0..MaxGaps]
      BY PluginHealthAssumption DEF PluginHealthAssumption
    <3>2. Init => lister \in [Listers -> [at : {"idle", "listed", "edits", "changed", "announces"}, dark : BOOLEAN]]
      OBVIOUS
    <3>3. QED
      BY ZenonT(30), <3>1, <3>2 DEF PairTypeOK
  <2>2. Init => StreamsStand /\ Respawns
    BY DEF StreamsStand, Respawns, Opening
  <2>3. Init => \A l \in Listers : ~Changing(l)
    BY DEF Changing
  <2>4. Init => \A c \in Clients : Matches(c, TRUE) /\ stream[c] # "asked"
    BY DEF Matches
  <2>5. Init => ProcessIsTold
    <3>1. Init => health.up = TRUE
      BY DEF Up
    <3>2. QED
      BY <2>3, <2>4, <3>1 DEF ProcessIsTold
  <2>6. Init => SourceIsTold
    <3>1. Init => (~srcDark) = TRUE
      OBVIOUS
    <3>2. QED
      BY <2>3, <2>4, <3>1 DEF SourceIsTold
  <2>7. QED
    BY <2>1, <2>2, <2>5, <2>6 DEF ToldInv
<1>2. SupInv /\ SupInv' /\ ToldInv /\ [Next]_vars => ToldInv'
  <2> SUFFICES ASSUME SupInv, SupInv', ToldInv, [Next]_vars PROVE ToldInv'
    OBVIOUS
  <2>1. PairTypeOK'
    BY PairTypesKept DEF ToldInv
  <2>2. StreamsStand'
    BY StreamsStandKept DEF ToldInv
  <2>3. Respawns' /\ (NeverDied' => NeverDied)
    BY NextIsSupervised, RespawnsKept DEF ToldInv
  <2>4. ProcessIsTold'
    BY <2>1, ProcessStaysTold
  <2>5. SourceIsTold'
    BY <2>1, <2>3, SourceStaysTold
  <2>6. QED
    BY <2>1, <2>2, <2>3, <2>4, <2>5 DEF ToldInv
<1>3. QED
  BY <1>1, <1>2, CompositionInvariant, PTL DEF Spec

(* A client that subscribes at any moment, and re-subscribes after a gap,  *)
(* ends up knowing of a process that is gone or a source that is, and of   *)
(* no other outage unless a gap hid the recovery, for as many clients,     *)
(* listings and processes as there may be (Adapter.Subscribe).             *)
THEOREM NoOutageGoesUntold == Spec => []OutagesAreTold
<1>1. SupInv /\ ToldInv => OutagesAreTold
  <2> SUFFICES ASSUME SupInv, ToldInv, ~crossed, NEW c \in Clients, Awake(c)
               PROVE  Aware(c)
    BY DEF OutagesAreTold
  <2> USE DEF ToldInv
  <2>1. mail[c] = <<>> /\ stream[c] = "relays" /\ ~Telling /\ \A l \in Listers : ~Changing(l)
    BY DEF Awake, Settled, Telling, Changing
  <2>2. CASE NeverDied
    <3>1. Matches(c, ~srcDark)
      BY <2>1, <2>2 DEF SourceIsTold
    <3>2. QED
      BY <2>1, <2>2, <3>1 DEF Matches, Aware, NotAnswering, NeverDied
  <2>3. CASE ~everDark
    <3>1. Matches(c, health.up) /\ ~srcDark
      BY <2>1, <2>3 DEF ProcessIsTold
    <3>2. QED
      BY <2>1, <3>1 DEF Matches, Aware, NotAnswering
  <2>4. QED
    BY <2>2, <2>3 DEF Awake
<1>2. QED
  BY <1>1, ToldInvariance, PTL

----------------------------------------------------------------------------
(***************************************************************************)
(* The listings a plugin's host watches (Watch).                           *)
(***************************************************************************)

\* What a listing under way is of, and what it found.
JobsKnown ==
    /\ \A w \in Workers : jobs[w].at = "idle" => jobs[w] = NoJob
    /\ \A w \in Workers : jobs[w].at # "idle" => jobs[w].of \in Grids
    /\ \A w \in Workers : jobs[w].at = "listed" => jobs[w].sum \in Sums
    /\ \A g \in Grids : jobs[g].at # "idle" => jobs[g].of = g

\* Whose changes the host would hear of, at each place of followScope.
Followed ==
    /\ cur.told \subseteq cur.covers /\ next.told \subseteq next.covers
    /\ cur.open \/ cur = NoStream
    /\ loop.at = "idle" => loop.scope = {} /\ watched = {} /\ ~cur.open
    /\ loop.at = "opening" => next.covers = loop.scope /\ (cur.open => cur.covers = watched)
    /\ loop.at = "checking" => cur.open /\ cur.covers = loop.scope /\ loop.added = Added
    /\ loop.at = "following" => cur.open /\ cur.covers = loop.scope /\ watched = loop.scope
    /\ \A g \in Grids : jobs[g].at # "idle" => cur.open /\ g \in cur.covers
    /\ \A g \in Grids : loop.at = "checking" /\ jobs[g].at # "idle" => g \in loop.added

\* A check holds what the source lists, or the next check is owed.
ChecksAreNow ==
    \A g \in Grids : jobs[g].at = "listed" /\ jobs[g].sum # Dark /\ g \notin cur.told
                         => jobs[g].sum = list[g]

\* What a client holds, and was not told to read again, a check compares with.
HeldIsNoted ==
    \A c \in Viewers, g \in Grids :
        \/ g \in cued[c] \cup moved \/ jobs[c].of = g
        \/ holds[c][g] \in served[g].sums \cup {Unread}

\* The grids a change of which is told, or is about to be listed.
Covered == IF loop.at = "checking" THEN loop.scope ELSE watched

\* Every change of the grid has been checked, or was found out as dark.
Checked(g) ==
    /\ g \in Covered /\ g \notin cur.told \cup moved
    /\ g \in next.told => cur.open
    /\ \/ jobs[g].at = "idle" /\ g \notin missed
       \/ jobs[g].at = "listed" /\ jobs[g].sum = Dark

\* A client's listing of a grid that has changed since.
Old(c, g) == jobs[c].at = "listed" /\ jobs[c].of = g /\ jobs[c].sum \notin {Dark, list[g]}

HoldsNow(g) ==
    \A c \in Viewers : g \in cued[c] \/ jobs[c].of = g \/ holds[c][g] \in {Unread, Dark, list[g]}

\* An old listing will be found out when it settles.
OldIsRaced(g) ==
    \A c \in Viewers : Old(c, g) =>
        \/ g \in cued[c]
        \/ /\ jobs[c].raced /\ served[g].last # jobs[c].sum
           /\ \A b \in Viewers : Old(b, g) => jobs[b].raced

\* What the clients hold of a checked grid is what the source lists.
Held(g) == ~sourceDark /\ Checked(g) => HoldsNow(g) /\ OldIsRaced(g)

ChecksHold == \A g \in Grids : Held(g)

\* An outage found and over: whoever is about to hold it has been told.
DarkKnown ==
    \A c \in Viewers :
        jobs[c].at = "listed" /\ jobs[c].sum = Dark /\ ~sourceDark => jobs[c].of \in cued[c]

Watching ==
    /\ WatchTypeOK /\ JobsKnown /\ Followed /\ ChecksAreNow /\ HeldIsNoted
    /\ ChecksHold /\ DarkKnown /\ DarkEnds

----------------------------------------------------------------------------
LEMMA StreamType ==
    ASSUME NEW s \in Stream, NEW g \in Grids
    PROVE  /\ Tell(s, g) \in Stream
           /\ Tell(s, g).open = s.open /\ Tell(s, g).covers = s.covers
           /\ s.open /\ g \in s.covers => Tell(s, g).told = s.told \cup {g}
           /\ ~(s.open /\ g \in s.covers) => Tell(s, g) = s
  BY DEF Tell, Stream

\* The source moves a grid: who is told.
LEMMA RelistType ==
    ASSUME NEW g \in Grids, Relist(g), WatchTypeOK
    PROVE  /\ list' \in [Grids -> Listings] /\ \A h \in Grids \ {g} : list'[h] = list[h]
           /\ cur' \in Stream /\ next' \in Stream
           /\ changes' \in 0..MaxChanges /\ missed' \subseteq Grids
           /\ \A h \in Grids \ {g} : h \in missed' <=> h \in missed
           /\ cur' = Tell(cur, g) /\ next' = Tell(next, g)
           /\ next = NoStream => next' = NoStream
           /\ cur = NoStream => cur' = NoStream
<1>1. cur \in Stream /\ next \in Stream /\ list \in [Grids -> Listings] /\ missed \subseteq Grids
      /\ changes \in 0..MaxChanges
  BY DEF WatchTypeOK
<1>2. cur' \in Stream /\ next' \in Stream /\ cur' = Tell(cur, g) /\ next' = Tell(next, g)
  BY <1>1, StreamType DEF Relist
<1>3. list' \in [Grids -> Listings] /\ \A h \in Grids \ {g} : list'[h] = list[h]
  BY <1>1 DEF Relist
<1>4. changes' \in 0..MaxChanges /\ missed' \subseteq Grids /\ \A h \in Grids \ {g} : h \in missed' <=> h \in missed
  BY <1>1, WatchAssumption DEF Relist, WatchAssumption
<1>5. (next = NoStream => next' = NoStream) /\ (cur = NoStream => cur' = NoStream)
  BY <1>1, <1>2, StreamType DEF NoStream
<1> QED
  BY <1>2, <1>3, <1>4, <1>5

LEMMA JobType ==
    /\ NoJob \in Job
    /\ \A w \in Workers, g \in Grids : Start(w, g) \in Job
    /\ \A j \in Job, s \in Sums :
            [j EXCEPT !.at = "listed", !.sum = s] \in Job
    /\ \A j \in Job : [j EXCEPT !.raced = TRUE] \in Job
  BY DEF NoJob, Job, Start

(* What a settled listing leaves of the jobs and of what is noted.         *)
LEMMA SettleType ==
    ASSUME NEW w \in Workers, NEW check \in BOOLEAN, Settle(w, check), WatchTypeOK, JobsKnown,
           jobs[w].at = "listed"
    PROVE  /\ jobs' \in [Workers -> Job] /\ jobs'[w] = NoJob
           /\ served' \in [Grids -> [sums : SUBSET Sums, last : Sums \cup {Unread}]]
           /\ \A v \in Workers \ {w} :
                 /\ jobs'[v].at = jobs[v].at /\ jobs'[v].of = jobs[v].of /\ jobs'[v].sum = jobs[v].sum
                 /\ jobs'[v] = jobs[v] \/ jobs[v].of = jobs[w].of
                 /\ jobs[v].of = jobs[w].of => jobs'[v].raced \/ Unnoted(jobs[w], check)
                 /\ Unnoted(jobs[w], check) => jobs'[v] = jobs[v]
           /\ \A g \in Grids : g # jobs[w].of => served'[g] = served[g]
           /\ Unnoted(jobs[w], check) => served' = served
           /\ ~Unnoted(jobs[w], check) =>
                /\ served'[jobs[w].of].last = jobs[w].sum
                /\ Moved(jobs[w], check) => served'[jobs[w].of].sums = {jobs[w].sum}
                /\ ~Moved(jobs[w], check) =>
                        served'[jobs[w].of].sums = served[jobs[w].of].sums \cup {jobs[w].sum}
<1>0. jobs \in [Workers -> Job] /\ served \in [Grids -> [sums : SUBSET Sums, last : Sums \cup {Unread}]]
  BY DEF WatchTypeOK
<1>1. jobs[w].of \in Grids /\ jobs[w].sum \in Sums
  BY DEF JobsKnown
<1>2. jobs' = [v \in Workers |->
                IF v = w THEN NoJob
                ELSE IF jobs[v].of = jobs[w].of /\ ~Unnoted(jobs[w], check)
                     THEN [jobs[v] EXCEPT !.raced = TRUE] ELSE jobs[v]]
  BY DEF Settle, Races
<1>3. jobs' \in [Workers -> Job]
  BY <1>0, <1>2, JobType
<1>4. \A v \in Workers : jobs[v] \in Job
  BY <1>0
<1>5. \A v \in Workers \ {w} :
                 /\ jobs'[v].at = jobs[v].at /\ jobs'[v].of = jobs[v].of /\ jobs'[v].sum = jobs[v].sum
                 /\ jobs'[v] = jobs[v] \/ jobs[v].of = jobs[w].of
                 /\ jobs[v].of = jobs[w].of => jobs'[v].raced \/ Unnoted(jobs[w], check)
                 /\ Unnoted(jobs[w], check) => jobs'[v] = jobs[v]
  BY <1>2, <1>4 DEF Job
<1>6. served' = Note(jobs[w], check)
  BY DEF Settle
<1>7. CASE Unnoted(jobs[w], check)
  BY <1>7, <1>6, <1>3, <1>2, <1>5, <1>0 DEF Note
<1>8. CASE ~Unnoted(jobs[w], check)
  <2>1. PICK r : r = [sums |-> IF Moved(jobs[w], check) THEN {jobs[w].sum}
                               ELSE served[jobs[w].of].sums \cup {jobs[w].sum}, last |-> jobs[w].sum]
    OBVIOUS
  <2>2. served' = [served EXCEPT ![jobs[w].of] = r]
    BY <1>8, <1>6, <2>1 DEF Note
  <2>3. r \in [sums : SUBSET Sums, last : Sums \cup {Unread}]
    BY <2>1, <1>0, <1>1
  <2>4. served' \in [Grids -> [sums : SUBSET Sums, last : Sums \cup {Unread}]]
    BY <2>2, <2>3, <1>0, <1>1
  <2>5. served'[jobs[w].of] = r /\ \A g \in Grids : g # jobs[w].of => served'[g] = served[g]
    BY <2>2, <1>0, <1>1
  <2> QED
    BY <2>1, <2>4, <2>5, <1>8, <1>3, <1>2, <1>5
<1> QED
  BY <1>7, <1>8

(* Who follows what is kept by every step.                                 *)
WatchBase == WatchTypeOK /\ JobsKnown /\ Followed

\* The steps that start, answer and end listings touch neither the streams nor the loop.
LEMMA JobsKeepBase ==
    ASSUME WatchBase, UNCHANGED <<list, shown, loop, watched, next, writing, changes, views>>,
           cur' \in Stream, cur'.open = cur.open, cur'.covers = cur.covers, cur'.told \subseteq cur.told,
           cur.open \/ cur' = cur,
           jobs' \in [Workers -> Job],
           \A w \in Workers : jobs'[w].at = "idle" => jobs'[w] = NoJob,
           \A w \in Workers : jobs'[w].at # "idle" => jobs'[w].of \in Grids,
           \A w \in Workers : jobs'[w].at = "listed" => jobs'[w].sum \in Sums,
           \A g \in Grids : jobs'[g].at # "idle" =>
                /\ jobs'[g].of = g
                /\ jobs[g].at # "idle" \/ (loop.at # "checking" /\ cur.open /\ g \in cur.covers),
           moved' \subseteq Grids, loop.at # "checking" => moved' = {},
           served' \in [Grids -> [sums : SUBSET Sums, last : Sums \cup {Unread}]],
           sourceDark' \in BOOLEAN, holds' \in [Viewers -> [Grids -> Sums \cup {Unread}]],
           cued' \in [Viewers -> SUBSET Grids], reads' \in 0..MaxReads, faults' \in 0..MaxFaults,
           missed' \subseteq Grids
    PROVE  WatchBase'
<1>1. WatchTypeOK'
  BY DEF WatchBase, WatchTypeOK
<1>2. JobsKnown'
  BY DEF JobsKnown
<1>3. cur' = NoStream \/ cur'.open
  BY DEF WatchBase, Followed, WatchTypeOK, NoStream
<1>4. Followed'
  BY <1>3 DEF WatchBase, Followed, Workers, Added
<1> QED
  BY <1>1, <1>2, <1>4 DEF WatchBase

LEMMA CueType ==
    ASSUME NEW gs \in SUBSET Grids, cued \in [Viewers -> SUBSET Grids], Cue(gs)
    PROVE  cued' \in [Viewers -> SUBSET Grids] /\ \A c \in Viewers : cued'[c] = cued[c] \cup gs
  BY DEF Cue

LEMMA FoundType ==
    ASSUME NEW g \in Grids, Found(g), WatchTypeOK
    PROVE  /\ cued' \in [Viewers -> SUBSET Grids]
           /\ moved' \subseteq Grids /\ moved \subseteq moved' /\ moved' \subseteq moved \cup {g}
           /\ loop.at # "checking" => moved' = {}
           /\ \A c \in Viewers : cued[c] \subseteq cued'[c] /\ (\A h \in Grids \ {g} : h \in cued'[c] => h \in cued[c])
           /\ \/ loop.at = "checking" /\ g \in moved'
              \/ \A c \in Viewers : g \in cued'[c]
<1>0. cued \in [Viewers -> SUBSET Grids] /\ moved \subseteq Grids /\ (loop.at # "checking" => moved = {})
  BY DEF WatchTypeOK
<1>1. CASE loop.at = "checking"
  BY <1>0, <1>1 DEF Found
<1>2. CASE loop.at # "checking"
  <2>1. Cue({g}) /\ moved' = moved
    BY <1>2 DEF Found
  <2> QED
    BY <1>0, <1>2, <2>1, CueType
<1> QED
  BY <1>1, <1>2

LEMMA RelistKeepsBase ==
    ASSUME NEW g \in Grids, WatchBase, SourceChanges(g) \/ Writes(g)
    PROVE  WatchBase'
<1>1. Relist(g) /\ UNCHANGED <<shown, loop, watched, jobs, moved, served, sourceDark, holds, cued, views, reads, faults>>
  BY DEF SourceChanges, Writes
<1>2. writing' \in Grids \cup {NoGrid}
  BY DEF SourceChanges, Writes, WatchBase, WatchTypeOK
<1>3. /\ list' \in [Grids -> Listings]
      /\ cur' \in Stream /\ next' \in Stream
      /\ changes' \in 0..MaxChanges /\ missed' \subseteq Grids
      /\ cur' = Tell(cur, g) /\ next' = Tell(next, g)
      /\ next = NoStream => next' = NoStream
      /\ cur = NoStream => cur' = NoStream
  BY <1>1, RelistType DEF WatchBase
<1>4. WatchTypeOK'
  BY <1>1, <1>2, <1>3 DEF WatchBase, WatchTypeOK
<1>5. JobsKnown'
  BY <1>1 DEF WatchBase, JobsKnown
<1>6. cur \in Stream /\ next \in Stream
  BY DEF WatchBase, WatchTypeOK
<1>7. cur'.open = cur.open /\ cur'.covers = cur.covers /\ next'.open = next.open /\ next'.covers = next.covers
  BY <1>3, <1>6, StreamType
<1>8. cur'.told \subseteq cur'.covers /\ next'.told \subseteq next'.covers
  BY <1>3, <1>6, StreamType DEF WatchBase, Followed
<1>9. Followed'
  BY <1>1, <1>3, <1>7, <1>8 DEF WatchBase, Followed, Added
<1> QED
  BY <1>4, <1>5, <1>9 DEF WatchBase

LEMMA AnswersKeepsBase ==
    ASSUME NEW w \in Workers, WatchBase, Answers(w)
    PROVE  WatchBase'
<1>0. /\ jobs \in [Workers -> Job] /\ list \in [Grids -> Listings] /\ cued \in [Viewers -> SUBSET Grids]
      /\ cur \in Stream /\ moved \subseteq Grids /\ faults \in 0..MaxFaults
      /\ jobs[w].of \in Grids
  BY DEF WatchBase, WatchTypeOK, JobsKnown, Answers
<1>1. PICK s \in Sums : jobs' = [jobs EXCEPT ![w].at = "listed", ![w].sum = s]
  BY <1>0 DEF Answers, Sums
<1>2. PICK j : j = [jobs[w] EXCEPT !.at = "listed", !.sum = s]
  OBVIOUS
<1>3. jobs' = [jobs EXCEPT ![w] = j]
  BY <1>0, <1>1, <1>2
<1>4. j \in Job /\ j.at = "listed" /\ j.sum = s /\ j.of = jobs[w].of
  BY <1>0, <1>2, JobType DEF Job
<1>5. jobs' \in [Workers -> Job] /\ jobs'[w] = j /\ \A v \in Workers \ {w} : jobs'[v] = jobs[v]
  BY <1>0, <1>3, <1>4
<1>6. Returns => cued' \in [Viewers -> SUBSET Grids]
  BY <1>0, CueType DEF Returns
<1>7. cued' \in [Viewers -> SUBSET Grids] /\ sourceDark' \in BOOLEAN /\ faults' \in 0..MaxFaults
  <2>1. CASE sourceDark' = FALSE /\ Returns /\ UNCHANGED faults
    BY <1>0, <1>6, <2>1
  <2>2. CASE faults < MaxFaults /\ faults' = faults + 1 /\ sourceDark' = TRUE /\ UNCHANGED cued
    BY <1>0, <2>2, WatchAssumption DEF WatchAssumption
  <2> QED
    BY <2>1, <2>2 DEF Answers
<1>8. /\ \A v \in Workers : jobs'[v].at = "idle" => jobs'[v] = NoJob
      /\ \A v \in Workers : jobs'[v].at # "idle" => jobs'[v].of \in Grids
      /\ \A v \in Workers : jobs'[v].at = "listed" => jobs'[v].sum \in Sums
      /\ \A g \in Grids : jobs'[g].at # "idle" => jobs'[g].of = g /\ jobs[g].at # "idle"
  BY <1>4, <1>5 DEF WatchBase, JobsKnown, Answers, Workers
<1>9. UNCHANGED <<list, shown, loop, watched, cur, next, moved, served, writing, holds, changes, views, reads, missed>>
  BY DEF Answers
<1> QED
  BY <1>0, <1>5, <1>7, <1>8, <1>9, JobsKeepBase DEF WatchBase, WatchTypeOK

LEMMA ReadsKeepsBase ==
    ASSUME NEW c \in Viewers, NEW g \in Grids, WatchBase, Reads(c, g)
    PROVE  WatchBase'
<1>0. /\ jobs \in [Workers -> Job] /\ cued \in [Viewers -> SUBSET Grids] /\ reads \in 0..MaxReads
      /\ cur \in Stream /\ moved \subseteq Grids /\ c \in Workers /\ c \notin Grids
  BY WatchAssumption DEF WatchBase, WatchTypeOK, WatchAssumption, Workers
<1>1. jobs' = [jobs EXCEPT ![c] = Start(c, g)]
  BY DEF Reads
<1>2. Start(c, g) \in Job /\ Start(c, g).at = "asked" /\ Start(c, g).of = g
  BY <1>0, JobType DEF Start, NoJob
<1>3. jobs' \in [Workers -> Job] /\ jobs'[c] = Start(c, g) /\ \A v \in Workers \ {c} : jobs'[v] = jobs[v]
  BY <1>0, <1>1, <1>2
<1>4. cued' \in [Viewers -> SUBSET Grids] /\ reads' \in 0..MaxReads
  BY <1>0, WatchAssumption DEF Reads, WatchAssumption
<1>5. /\ \A v \in Workers : jobs'[v].at = "idle" => jobs'[v] = NoJob
      /\ \A v \in Workers : jobs'[v].at # "idle" => jobs'[v].of \in Grids
      /\ \A v \in Workers : jobs'[v].at = "listed" => jobs'[v].sum \in Sums
      /\ \A h \in Grids : jobs'[h].at # "idle" => jobs'[h].of = h /\ jobs[h].at # "idle"
  BY <1>0, <1>2, <1>3 DEF WatchBase, JobsKnown, Workers
<1>6. UNCHANGED <<list, shown, loop, watched, cur, next, moved, served, sourceDark,
                   writing, holds, changes, views, faults, missed>>
  BY DEF Reads
<1> QED
  BY <1>0, <1>3, <1>4, <1>5, <1>6, JobsKeepBase DEF WatchBase, WatchTypeOK

LEMMA SettledJobs ==
    ASSUME NEW w \in Workers, NEW check \in BOOLEAN, WatchBase, Settle(w, check), jobs[w].at = "listed"
    PROVE  /\ \A v \in Workers : jobs'[v].at = "idle" => jobs'[v] = NoJob
           /\ \A v \in Workers : jobs'[v].at # "idle" => jobs'[v].of \in Grids
           /\ \A v \in Workers : jobs'[v].at = "listed" => jobs'[v].sum \in Sums
           /\ \A h \in Grids : jobs'[h].at # "idle" => jobs'[h].of = h /\ jobs[h].at # "idle"
<1>1. /\ jobs'[w] = NoJob
      /\ \A v \in Workers \ {w} :
            /\ jobs'[v].at = jobs[v].at /\ jobs'[v].of = jobs[v].of /\ jobs'[v].sum = jobs[v].sum
            /\ jobs'[v] = jobs[v] \/ jobs[v].of = jobs[w].of
  BY SettleType DEF WatchBase
<1>2. jobs[w].of \in Grids /\ NoGrid \notin Grids /\ NoJob.at = "idle" /\ NoJob.of = NoGrid
  BY WatchAssumption DEF WatchAssumption, WatchBase, JobsKnown, NoJob
<1>3. \A v \in Workers \ {w} : jobs[v].at = "idle" => jobs'[v] = NoJob
  BY <1>1, <1>2 DEF WatchBase, JobsKnown
<1> QED
  BY <1>1, <1>2, <1>3 DEF WatchBase, JobsKnown, Workers

LEMMA ReadSettlesKeepsBase ==
    ASSUME NEW c \in Viewers, WatchBase, ReadSettles(c)
    PROVE  WatchBase'
<1>0. /\ cued \in [Viewers -> SUBSET Grids] /\ holds \in [Viewers -> [Grids -> Sums \cup {Unread}]]
      /\ cur \in Stream /\ moved \subseteq Grids /\ c \in Workers
      /\ jobs[c].of \in Grids /\ jobs[c].sum \in Sums
  BY DEF WatchBase, WatchTypeOK, JobsKnown, Workers, ReadSettles
<1>1. Settle(c, FALSE) /\ jobs[c].at = "listed"
  BY DEF ReadSettles
<1>2. jobs' \in [Workers -> Job] /\ served' \in [Grids -> [sums : SUBSET Sums, last : Sums \cup {Unread}]]
  BY <1>0, <1>1, SettleType DEF WatchBase
<1>3. /\ \A v \in Workers : jobs'[v].at = "idle" => jobs'[v] = NoJob
      /\ \A v \in Workers : jobs'[v].at # "idle" => jobs'[v].of \in Grids
      /\ \A v \in Workers : jobs'[v].at = "listed" => jobs'[v].sum \in Sums
      /\ \A h \in Grids : jobs'[h].at # "idle" => jobs'[h].of = h /\ jobs[h].at # "idle"
  BY <1>0, <1>1, SettledJobs
<1>4. cued' \in [Viewers -> SUBSET Grids]
  BY <1>0, CueType DEF ReadSettles
<1>5. holds' \in [Viewers -> [Grids -> Sums \cup {Unread}]]
  BY <1>0 DEF ReadSettles
<1>6. UNCHANGED <<list, shown, loop, watched, cur, next, moved, sourceDark, writing,
                   changes, views, reads, faults, missed>>
  BY DEF ReadSettles
<1> QED
  BY <1>0, <1>2, <1>3, <1>4, <1>5, <1>6, JobsKeepBase DEF WatchBase, WatchTypeOK

LEMMA CheckSettlesKeepsBase ==
    ASSUME NEW g \in Grids, WatchBase, CheckSettles(g)
    PROVE  WatchBase'
<1>0. /\ cued \in [Viewers -> SUBSET Grids] /\ jobs \in [Workers -> Job]
      /\ cur \in Stream /\ moved \subseteq Grids /\ g \in Workers /\ faults \in 0..MaxFaults
      /\ missed \subseteq Grids /\ (loop.at # "checking" => moved = {})
      /\ served \in [Grids -> [sums : SUBSET Sums, last : Sums \cup {Unread}]]
  BY DEF WatchBase, WatchTypeOK, Workers
<1>1. /\ missed' \subseteq Grids
      /\ UNCHANGED <<list, shown, loop, watched, cur, next, sourceDark, writing, holds, changes, views, reads>>
  BY <1>0 DEF CheckSettles
<1>2. Found(g) => cued' \in [Viewers -> SUBSET Grids] /\ moved' \subseteq Grids /\ (loop.at # "checking" => moved' = {})
  BY FoundType DEF WatchBase
<1>3. cued' \in [Viewers -> SUBSET Grids] /\ moved' \subseteq Grids /\ (loop.at # "checking" => moved' = {})
  BY <1>0, <1>2 DEF CheckSettles
<1>4. CASE jobs[g].at = "listed" /\ Settle(g, TRUE) /\ UNCHANGED faults
  <2>1. jobs' \in [Workers -> Job] /\ served' \in [Grids -> [sums : SUBSET Sums, last : Sums \cup {Unread}]]
    BY <1>0, <1>4, SettleType DEF WatchBase
  <2>2. /\ \A v \in Workers : jobs'[v].at = "idle" => jobs'[v] = NoJob
        /\ \A v \in Workers : jobs'[v].at # "idle" => jobs'[v].of \in Grids
        /\ \A v \in Workers : jobs'[v].at = "listed" => jobs'[v].sum \in Sums
        /\ \A h \in Grids : jobs'[h].at # "idle" => jobs'[h].of = h /\ jobs[h].at # "idle"
    BY <1>0, <1>4, SettledJobs
  <2> QED
    BY <1>0, <1>1, <1>3, <1>4, <2>1, <2>2, JobsKeepBase DEF WatchBase, WatchTypeOK
<1>5. CASE /\ jobs[g].at = "asked" /\ faults < MaxFaults /\ Left /\ faults' = faults + 1
           /\ jobs' = [jobs EXCEPT ![g] = NoJob] /\ UNCHANGED served
  <2>1. jobs' \in [Workers -> Job] /\ jobs'[g] = NoJob /\ \A v \in Workers \ {g} : jobs'[v] = jobs[v]
    BY <1>0, <1>5, JobType
  <2>2. /\ \A v \in Workers : jobs'[v].at = "idle" => jobs'[v] = NoJob
        /\ \A v \in Workers : jobs'[v].at # "idle" => jobs'[v].of \in Grids
        /\ \A v \in Workers : jobs'[v].at = "listed" => jobs'[v].sum \in Sums
        /\ \A h \in Grids : jobs'[h].at # "idle" => jobs'[h].of = h /\ jobs[h].at # "idle"
    <3>1. NoJob.at = "idle"
      BY DEF NoJob
    <3> QED
      BY <1>0, <2>1, <3>1 DEF WatchBase, JobsKnown, Workers
  <2>3. faults' \in 0..MaxFaults
    BY <1>0, <1>5, WatchAssumption DEF WatchAssumption
  <2> QED
    BY <1>0, <1>1, <1>3, <1>5, <2>1, <2>2, <2>3, JobsKeepBase DEF WatchBase, WatchTypeOK
<1> QED
  BY <1>4, <1>5 DEF CheckSettles

\* The steps of followScope.
LEMMA ScopeKeepsBase ==
    ASSUME WatchBase, TakesScope \/ Opens \/ StreamBreaks \/ OpenFails
    PROVE  WatchBase'
<1>0. /\ loop \in [at : {"idle", "opening", "checking", "following"}, scope : SUBSET Grids, added : SUBSET Grids]
      /\ cur \in Stream /\ next \in Stream /\ shown \subseteq Grids /\ missed \subseteq Grids /\ watched \subseteq Grids
      /\ faults \in 0..MaxFaults /\ moved \subseteq Grids
      /\ (loop.at # "checking" => moved = {}) /\ (loop.at # "opening" => next = NoStream)
  BY DEF WatchBase, WatchTypeOK
<1>1. NoStream \in Stream /\ ~NoStream.open /\ NoStream.told = {} /\ NoStream.covers = {}
  BY DEF Stream, NoStream
<1>2. UNCHANGED <<list, jobs, moved, served, sourceDark, writing, holds, cued, changes, reads>>
  BY DEF TakesScope, Opens, StreamBreaks, OpenFails
<1>3. JobsKnown'
  BY <1>2 DEF WatchBase, JobsKnown
<1>4. CASE TakesScope /\ shown = {}
  <2>1. /\ loop' = [at |-> "idle", scope |-> {}, added |-> {}]
        /\ cur' = NoStream /\ next' = NoStream /\ watched' = {} /\ missed' = {}
        /\ UNCHANGED <<shown, views, faults>> /\ \A g \in Grids : jobs[g].at = "idle"
        /\ loop.at # "checking"
    BY <1>4 DEF TakesScope, Applying
  <2>2. WatchTypeOK'
    BY <1>0, <1>1, <1>2, <2>1 DEF WatchBase, WatchTypeOK
  <2>3. Followed'
    BY <1>1, <1>2, <2>1 DEF Followed
  <2> QED
    BY <2>2, <2>3, <1>3 DEF WatchBase
<1>5. CASE TakesScope /\ shown # {}
  <2>1. /\ loop' = [at |-> "opening", scope |-> shown, added |-> {}]
        /\ next' = [NoStream EXCEPT !.covers = shown]
        /\ missed' \subseteq Grids
        /\ UNCHANGED <<cur, watched, shown, views, faults>>
        /\ loop.at \in {"idle", "opening", "following"}
    BY <1>0, <1>5 DEF TakesScope, Stream
  <2>2. next' \in Stream /\ next'.told = {} /\ next'.covers = shown
    BY <1>0, <2>1 DEF Stream, NoStream
  <2>3. WatchTypeOK'
    BY <1>0, <1>1, <1>2, <2>1, <2>2 DEF WatchBase, WatchTypeOK
  <2>4. cur.open => cur.covers = watched
    BY <2>1, <1>1 DEF WatchBase, Followed
  <2>5. Followed'
    BY <1>1, <1>2, <2>1, <2>2, <2>4 DEF WatchBase, Followed
  <2> QED
    BY <2>3, <2>5, <1>3 DEF WatchBase
<1>6. CASE Opens
  <2>1. /\ next' = [next EXCEPT !.open = TRUE] /\ loop.at = "opening"
        /\ UNCHANGED <<shown, loop, watched, cur, views, faults, missed>>
    BY <1>6 DEF Opens
  <2>2. next' \in Stream /\ next'.told = next.told /\ next'.covers = next.covers
    BY <1>0, <2>1 DEF Stream
  <2>3. WatchTypeOK'
    BY <1>0, <1>2, <2>1, <2>2 DEF WatchBase, WatchTypeOK
  <2>4. Followed'
    BY <1>2, <2>1, <2>2 DEF WatchBase, Followed, Added
  <2> QED
    BY <2>3, <2>4, <1>3 DEF WatchBase
<1>7. CASE StreamBreaks
  <2>1. /\ cur' = NoStream /\ UNCHANGED <<shown, next, views>> /\ \A g \in Grids : jobs[g].at = "idle"
        /\ loop.at \in {"opening", "following"}
    BY <1>7 DEF StreamBreaks, Applying
  <2>2. faults' \in 0..MaxFaults
    BY <1>0, <1>7, WatchAssumption DEF StreamBreaks, WatchAssumption
  <2>3. CASE loop.at = "following"
    <3>1. loop' = [at |-> "idle", scope |-> {}, added |-> {}] /\ watched' = {} /\ missed' = {}
      BY <1>7, <2>3 DEF StreamBreaks
    <3>2. WatchTypeOK'
      BY <1>0, <1>1, <1>2, <2>1, <2>2, <2>3, <3>1 DEF WatchBase, WatchTypeOK
    <3>3. Followed'
      BY <1>0, <1>1, <1>2, <2>1, <2>3, <3>1 DEF Followed
    <3> QED
      BY <3>2, <3>3, <1>3 DEF WatchBase
  <2>4. CASE loop.at # "following"
    <3>1. missed' \subseteq Grids /\ UNCHANGED <<loop, watched>> /\ loop.at = "opening"
      BY <1>0, <1>7, <2>4 DEF StreamBreaks, Stream
    <3>2. WatchTypeOK'
      BY <1>0, <1>1, <1>2, <2>1, <2>2, <3>1 DEF WatchBase, WatchTypeOK
    <3>3. Followed'
      BY <1>0, <1>1, <1>2, <2>1, <3>1 DEF WatchBase, Followed
    <3> QED
      BY <3>2, <3>3, <1>3 DEF WatchBase
  <2> QED
    BY <2>3, <2>4
<1>8. CASE OpenFails
  <2>1. /\ loop' = [at |-> "idle", scope |-> {}, added |-> {}]
        /\ cur' = NoStream /\ next' = NoStream /\ watched' = {} /\ missed' = {}
        /\ UNCHANGED <<shown, views>> /\ \A g \in Grids : jobs[g].at = "idle"
        /\ loop.at = "opening"
    BY <1>8 DEF OpenFails, Applying
  <2>2. faults' \in 0..MaxFaults
    BY <1>0, <1>8, WatchAssumption DEF OpenFails, WatchAssumption
  <2>3. WatchTypeOK'
    BY <1>0, <1>1, <1>2, <2>1, <2>2 DEF WatchBase, WatchTypeOK
  <2>4. Followed'
    BY <1>1, <1>2, <2>1 DEF Followed
  <2> QED
    BY <2>3, <2>4, <1>3 DEF WatchBase
<1> QED
  BY <1>4, <1>5, <1>6, <1>7, <1>8

LEMMA SwapType ==
    ASSUME WatchBase, Swap
    PROVE  /\ jobs' \in [Workers -> Job]
           /\ \A w \in Workers : jobs'[w] = IF w \in Added THEN Start(w, w) ELSE jobs[w]
           /\ \A g \in Grids : Start(g, g).at = "asked" /\ Start(g, g).of = g
           /\ \A g \in Grids : jobs[g].at = "idle"
           /\ Added \subseteq Grids /\ moved = {} /\ loop.at = "opening" /\ next.covers = loop.scope
           /\ loop'.at = "checking" /\ loop'.scope = loop.scope /\ loop'.added = Added /\ Added' = Added
           /\ loop' \in [at : {"idle", "opening", "checking", "following"}, scope : SUBSET Grids, added : SUBSET Grids]
<1>0. /\ loop \in [at : {"idle", "opening", "checking", "following"}, scope : SUBSET Grids, added : SUBSET Grids]
      /\ jobs \in [Workers -> Job] /\ (loop.at # "checking" => moved = {})
  BY DEF WatchBase, WatchTypeOK
<1>1. Added \subseteq Grids /\ \A g \in Grids : Start(g, g) \in Job
  BY <1>0, JobType DEF Added, Workers
<1>2. /\ jobs' = [w \in Workers |-> IF w \in Added THEN Start(w, w) ELSE jobs[w]]
      /\ loop' = [loop EXCEPT !.at = "checking", !.added = Added] /\ watched' = watched
      /\ \A g \in Grids : jobs[g].at = "idle"
      /\ loop.at = "opening"
  BY DEF Swap, Applying
<1>3. loop' \in [at : {"idle", "opening", "checking", "following"}, scope : SUBSET Grids, added : SUBSET Grids]
      /\ loop'.at = "checking" /\ loop'.scope = loop.scope /\ loop'.added = Added
  BY <1>0, <1>1, <1>2
<1>4. Added' = Added
  BY <1>2, <1>3 DEF Added
<1>5. \A g \in Grids : Start(g, g).at = "asked" /\ Start(g, g).of = g
  BY DEF Start, NoJob
<1>6. next.covers = loop.scope
  BY <1>2 DEF WatchBase, Followed
<1> QED
  BY <1>0, <1>1, <1>2, <1>3, <1>4, <1>5, <1>6

LEMMA SwapKeepsBase ==
    ASSUME WatchBase, Swap
    PROVE  WatchBase'
<1>0. /\ cur \in Stream /\ next \in Stream /\ missed \subseteq Grids
  BY DEF WatchBase, WatchTypeOK
<1>1. /\ cur' = next /\ next' = NoStream /\ next.open /\ moved' = {}
      /\ UNCHANGED <<list, shown, watched, served, sourceDark, writing, holds, cued, changes, views, reads, faults>>
  BY DEF Swap
<1>2. NoStream \in Stream /\ NoStream.told = {} /\ NoStream.covers = {}
  BY DEF Stream, NoStream
<1>3. missed' \subseteq Grids
  BY <1>0 DEF Swap, Stream
<1>4. WatchTypeOK'
  BY <1>0, <1>1, <1>2, <1>3, SwapType DEF WatchBase, WatchTypeOK
<1>5. \A w \in Workers : w \in Grids \/ w \notin Added
  BY SwapType
<1>6. JobsKnown'
  BY <1>5, SwapType DEF WatchBase, JobsKnown, Workers
<1>7. \A g \in Grids : jobs'[g].at # "idle" => g \in Added /\ g \in next.covers
  BY SwapType DEF Workers, Added
<1>8. Followed'
  BY <1>1, <1>2, <1>7, SwapType DEF WatchBase, Followed
<1> QED
  BY <1>4, <1>6, <1>8 DEF WatchBase

LEMMA CheckEndsKeepsBase ==
    ASSUME WatchBase, CheckEnds
    PROVE  WatchBase'
<1>0. /\ loop \in [at : {"idle", "opening", "checking", "following"}, scope : SUBSET Grids, added : SUBSET Grids]
      /\ cued \in [Viewers -> SUBSET Grids] /\ moved \subseteq Grids /\ (loop.at # "opening" => next = NoStream)
  BY DEF WatchBase, WatchTypeOK
<1>1. /\ Cue(moved) /\ moved' = {} /\ watched' = loop.scope /\ loop.at = "checking"
      /\ loop' = [loop EXCEPT !.at = "following", !.added = {}]
      /\ \A g \in Grids : jobs[g].at = "idle"
      /\ UNCHANGED <<list, shown, cur, next, jobs, served, sourceDark, writing, holds,
                   changes, views, reads, faults, missed>>
  BY DEF CheckEnds
<1>2. /\ loop' \in [at : {"idle", "opening", "checking", "following"}, scope : SUBSET Grids, added : SUBSET Grids]
      /\ loop'.at = "following" /\ loop'.scope = loop.scope
  BY <1>0, <1>1
<1>3. cued' \in [Viewers -> SUBSET Grids]
  BY <1>0, <1>1, CueType
<1>4. WatchTypeOK'
  BY <1>0, <1>1, <1>2, <1>3 DEF WatchBase, WatchTypeOK
<1>5. JobsKnown'
  BY <1>1 DEF WatchBase, JobsKnown
<1>6. Followed'
  BY <1>1, <1>2 DEF WatchBase, Followed
<1> QED
  BY <1>4, <1>5, <1>6 DEF WatchBase

LEMMA TakesType ==
    ASSUME NEW g \in Grids, WatchBase, Takes(g)
    PROVE  /\ jobs' \in [Workers -> Job] /\ jobs'[g].at = "asked" /\ jobs'[g].of = g
           /\ \A w \in Workers \ {g} : jobs'[w] = jobs[w]
           /\ cur' \in Stream /\ cur'.open = cur.open /\ cur'.covers = cur.covers /\ cur'.told = cur.told \ {g}
<1>0. cur \in Stream /\ jobs \in [Workers -> Job] /\ g \in Workers
  BY DEF WatchBase, WatchTypeOK, Workers
<1>1. jobs' = [jobs EXCEPT ![g] = Start(g, g)] /\ cur' = [cur EXCEPT !.told = @ \ {g}]
  BY DEF Takes
<1>2. Start(g, g) \in Job /\ Start(g, g).at = "asked" /\ Start(g, g).of = g
  BY <1>0, JobType DEF Start, NoJob
<1>3. jobs' \in [Workers -> Job] /\ jobs'[g] = Start(g, g) /\ \A w \in Workers \ {g} : jobs'[w] = jobs[w]
  BY <1>0, <1>1, <1>2
<1>4. cur' \in Stream /\ cur'.open = cur.open /\ cur'.covers = cur.covers /\ cur'.told = cur.told \ {g}
  BY <1>0, <1>1 DEF Stream
<1> QED
  BY <1>2, <1>3, <1>4

LEMMA TakesKeepsBase ==
    ASSUME NEW g \in Grids, WatchBase, Takes(g)
    PROVE  WatchBase'
<1>1. /\ loop.at \in {"opening", "following"} /\ g \in cur.told
      /\ UNCHANGED <<list, shown, loop, watched, next, moved, served, sourceDark, writing,
                   holds, cued, changes, views, reads, faults, missed>>
  BY DEF Takes
<1>2. cur.told \subseteq cur.covers /\ (cur.open \/ cur = NoStream)
  BY DEF WatchBase, Followed
<1>3. cur.open
  BY <1>1, <1>2 DEF NoStream
<1>4. /\ \A v \in Workers : jobs'[v].at = "idle" => jobs'[v] = NoJob
      /\ \A v \in Workers : jobs'[v].at # "idle" => jobs'[v].of \in Grids
      /\ \A v \in Workers : jobs'[v].at = "listed" => jobs'[v].sum \in Sums
      /\ \A h \in Grids : jobs'[h].at # "idle" => jobs'[h].of = h /\ (jobs[h].at # "idle" \/ h = g)
  <2>1. jobs'[g].at = "asked" /\ jobs'[g].of = g /\ \A w \in Workers \ {g} : jobs'[w] = jobs[w]
    BY TakesType
  <2> QED
    BY <2>1 DEF WatchBase, JobsKnown, Workers
<1>5. /\ jobs' \in [Workers -> Job] /\ cur' \in Stream /\ cur'.open = cur.open
      /\ cur'.covers = cur.covers /\ cur'.told \subseteq cur.told
  BY TakesType
<1>6. \A h \in Grids : jobs'[h].at # "idle" =>
          jobs'[h].of = h /\ (jobs[h].at # "idle" \/ (loop.at # "checking" /\ cur.open /\ h \in cur.covers))
  BY <1>1, <1>2, <1>3, <1>4
<1> QED
  BY <1>1, <1>3, <1>4, <1>5, <1>6, JobsKeepBase DEF WatchBase, WatchTypeOK

LEMMA BaseKept ==
    ASSUME WatchBase, [WatchNext]_watchVars
    PROVE  WatchBase'
<1>1. CASE UNCHANGED watchVars
  BY <1>1 DEF watchVars, WatchBase, WatchTypeOK, JobsKnown, Followed, Added
<1>2. CASE WriteAnnounces
  <2>1. /\ writing \in Grids /\ served \in [Grids -> [sums : SUBSET Sums, last : Sums \cup {Unread}]]
        /\ cued \in [Viewers -> SUBSET Grids]
    BY <1>2 DEF WriteAnnounces, WatchBase, WatchTypeOK
  <2>2. /\ served' = [served EXCEPT ![writing].sums = {}] /\ Cue({writing}) /\ writing' = NoGrid
        /\ UNCHANGED <<list, shown, loop, watched, cur, next, jobs, moved, sourceDark, holds, changes, views, reads,
                       faults, missed>>
    BY <1>2 DEF WriteAnnounces
  <2>3. served' \in [Grids -> [sums : SUBSET Sums, last : Sums \cup {Unread}]]
    BY <2>1, <2>2
  <2>4. cued' \in [Viewers -> SUBSET Grids]
    BY <2>1, <2>2, CueType
  <2>5. WatchTypeOK'
    BY <2>2, <2>3, <2>4 DEF WatchBase, WatchTypeOK
  <2> QED
    BY <2>2, <2>5 DEF WatchBase, JobsKnown, Followed, Added
<1>3. ASSUME NEW gs \in SUBSET Grids, SetView(gs) PROVE WatchBase'
  <2>1. shown' \subseteq Grids /\ views' \in 0..MaxViews
    BY <1>3, WatchAssumption DEF SetView, WatchAssumption, WatchBase, WatchTypeOK
  <2>2. UNCHANGED <<list, loop, watched, cur, next, jobs, moved, served, sourceDark,
                   writing, holds, cued, changes, reads, faults, missed>>
    BY <1>3 DEF SetView
  <2>3. WatchTypeOK'
    BY <2>1, <2>2 DEF WatchBase, WatchTypeOK
  <2> QED
    BY <2>2, <2>3 DEF WatchBase, JobsKnown, Followed, Added
<1> QED
  BY <1>1, <1>2, <1>3, RelistKeepsBase, AnswersKeepsBase, ReadsKeepsBase, ReadSettlesKeepsBase, ScopeKeepsBase,
     SwapKeepsBase, CheckSettlesKeepsBase, CheckEndsKeepsBase, TakesKeepsBase DEF WatchNext

----------------------------------------------------------------------------
(* A check holds the source's listing, and what clients hold is noted.     *)
LEMMA ChecksAreNowKept ==
    ASSUME WatchBase, ChecksAreNow, [WatchNext]_watchVars
    PROVE  ChecksAreNow'
<1>0. /\ cur \in Stream /\ next \in Stream
      /\ \A g \in Grids : jobs[g].at # "idle" => cur.open /\ g \in cur.covers /\ jobs[g].of = g
  BY DEF WatchBase, WatchTypeOK, Followed, JobsKnown
<1>1. ASSUME NEW h \in Grids, SourceChanges(h) \/ Writes(h) PROVE ChecksAreNow'
  <2>1. UNCHANGED jobs /\ Relist(h)
    BY <1>1 DEF SourceChanges, Writes
  <2>2. cur' = Tell(cur, h) /\ \A g \in Grids \ {h} : list'[g] = list[g]
    BY <2>1, RelistType DEF WatchBase
  <2>3. \A g \in Grids \ {h} : g \notin cur'.told => g \notin cur.told
    BY <1>0, <2>2, StreamType
  <2>4. jobs[h].at # "idle" => h \in cur'.told
    BY <1>0, <2>2, StreamType
  <2> QED
    BY <2>1, <2>2, <2>3, <2>4 DEF ChecksAreNow
<1>2. ASSUME NEW w \in Workers, Answers(w) PROVE ChecksAreNow'
  <2>1. jobs \in [Workers -> Job] /\ jobs[w].at # "idle" /\ UNCHANGED <<list, cur>> /\ Grids \subseteq Workers
    BY <1>2 DEF Answers, WatchBase, WatchTypeOK, Workers
  <2>2. \A v \in Workers \ {w} : jobs'[v] = jobs[v]
    BY <1>2, <2>1 DEF Answers
  <2>3. jobs'[w].sum \in {Dark, list[jobs[w].of]}
    <3>1. PICK s \in {Dark, list[jobs[w].of]} : jobs' = [jobs EXCEPT ![w].at = "listed", ![w].sum = s]
      BY <1>2 DEF Answers
    <3> QED
      BY <3>1, <2>1 DEF Job
  <2> QED
    BY <1>0, <2>1, <2>2, <2>3 DEF ChecksAreNow
<1>3. ASSUME NEW c \in Viewers, NEW g \in Grids, Reads(c, g) PROVE ChecksAreNow'
  <2>1. UNCHANGED <<list, cur>> /\ jobs \in [Workers -> Job] /\ c \notin Grids
    BY <1>3, WatchAssumption DEF WatchAssumption, Reads, WatchBase, WatchTypeOK
  <2>2. \A h \in Grids : jobs'[h] = jobs[h]
    BY <1>3, <2>1 DEF Reads, Workers
  <2> QED
    BY <2>1, <2>2 DEF ChecksAreNow
<1>4. ASSUME NEW w \in Workers, NEW check \in BOOLEAN, Settle(w, check), jobs[w].at = "listed", UNCHANGED <<list, cur>>
      PROVE ChecksAreNow'
  <2>1. jobs'[w] = NoJob /\ \A v \in Workers \ {w} : jobs'[v].at = jobs[v].at /\ jobs'[v].sum = jobs[v].sum
    BY <1>4, SettleType DEF WatchBase
  <2>2. NoJob.at = "idle" /\ Grids \subseteq Workers
    BY DEF NoJob, Workers
  <2> QED
    BY <1>4, <2>1, <2>2 DEF ChecksAreNow
<1>5. ASSUME NEW c \in Viewers, ReadSettles(c) PROVE ChecksAreNow'
  BY <1>4, <1>5 DEF ReadSettles, Workers
<1>6. ASSUME NEW g \in Grids, CheckSettles(g) PROVE ChecksAreNow'
  <2>0. UNCHANGED <<list, cur>> /\ g \in Workers
    BY <1>6 DEF CheckSettles, Workers
  <2>1. CASE jobs[g].at = "listed" /\ Settle(g, TRUE)
    BY <2>0, <2>1, <1>4
  <2>2. CASE jobs[g].at = "asked" /\ jobs' = [jobs EXCEPT ![g] = NoJob]
    <3>1. jobs'[g].at = "idle" /\ \A h \in Grids \ {g} : jobs'[h] = jobs[h]
      BY <2>0, <2>2 DEF WatchBase, WatchTypeOK, NoJob, Workers
    <3> QED
      BY <2>0, <3>1 DEF ChecksAreNow
  <2> QED
    BY <1>6, <2>1, <2>2 DEF CheckSettles
<1>7. CASE Swap
  <2>1. \A g \in Grids : jobs'[g].at # "listed"
    BY <1>7, SwapType DEF Workers
  <2> QED
    BY <2>1 DEF ChecksAreNow
<1>8. ASSUME NEW g \in Grids, Takes(g) PROVE ChecksAreNow'
  <2>1. UNCHANGED list
    BY <1>8 DEF Takes
  <2> QED
    BY <1>8, <2>1, TakesType DEF ChecksAreNow, Workers
<1>9. CASE TakesScope \/ StreamBreaks \/ OpenFails \/ Opens
  <2>1. UNCHANGED <<list, jobs>> /\ (cur' = cur \/ \A g \in Grids : jobs[g].at = "idle")
    BY <1>9 DEF TakesScope, StreamBreaks, OpenFails, Opens, Applying
  <2> QED
    BY <2>1 DEF ChecksAreNow
<1>10. CASE WriteAnnounces \/ CheckEnds \/ \E gs \in SUBSET Grids : SetView(gs)
  <2>1. UNCHANGED <<list, jobs, cur>>
    BY <1>10 DEF WriteAnnounces, CheckEnds, SetView
  <2> QED
    BY <2>1 DEF ChecksAreNow
<1>11. CASE UNCHANGED watchVars
  BY <1>11 DEF watchVars, ChecksAreNow
<1> QED
  BY <1>1, <1>2, <1>3, <1>5, <1>6, <1>7, <1>8, <1>9, <1>10, <1>11 DEF WatchNext

\* What a client's listing is of stays while it is under way.
LEMMA HeldIsNotedKept ==
    ASSUME WatchBase, HeldIsNoted, [WatchNext]_watchVars
    PROVE  HeldIsNoted'
<1>0. /\ jobs \in [Workers -> Job] /\ cued \in [Viewers -> SUBSET Grids] /\ Viewers \subseteq Workers
      /\ served \in [Grids -> [sums : SUBSET Sums, last : Sums \cup {Unread}]]
      /\ holds \in [Viewers -> [Grids -> Sums \cup {Unread}]]
      /\ Viewers \cap Grids = {} /\ NoGrid \notin Grids
  BY WatchAssumption DEF WatchAssumption, WatchBase, WatchTypeOK, Workers
<1>1. CASE WriteAnnounces
  <2>1. /\ \A c \in Viewers : cued'[c] = cued[c] \cup {writing} /\ UNCHANGED <<jobs, moved, holds>>
        /\ \A g \in Grids \ {writing} : served'[g] = served[g]
    BY <1>0, <1>1, CueType DEF WriteAnnounces, WatchBase, WatchTypeOK
  <2> QED
    BY <2>1 DEF HeldIsNoted
<1>2. ASSUME NEW w \in Workers, Answers(w) PROVE HeldIsNoted'
  <2>1. UNCHANGED <<moved, holds, served>> /\ \A c \in Viewers : jobs'[c].of = jobs[c].of
    <3>1. PICK s : jobs' = [jobs EXCEPT ![w].at = "listed", ![w].sum = s]
      BY <1>2 DEF Answers
    <3> QED
      BY <1>0, <1>2, <3>1 DEF Answers, Job
  <2>2. \A c \in Viewers : cued[c] \subseteq cued'[c]
    BY <1>0, <1>2, CueType DEF Answers, Returns
  <2> QED
    BY <2>1, <2>2 DEF HeldIsNoted
<1>3. ASSUME NEW c \in Viewers, NEW g \in Grids, Reads(c, g) PROVE HeldIsNoted'
  <2>1. UNCHANGED <<moved, holds, served>> /\ jobs[c].of = NoGrid
    BY <1>3, <1>0 DEF Reads, WatchBase, JobsKnown, NoJob
  <2>2. jobs'[c].of = g /\ \A b \in Viewers \ {c} : jobs'[b] = jobs[b]
    BY <1>3, <1>0 DEF Reads, Start, NoJob
  <2>3. cued'[c] = cued[c] \ {g} /\ \A b \in Viewers \ {c} : cued'[b] = cued[b]
    BY <1>3, <1>0 DEF Reads
  <2> QED
    BY <1>0, <2>1, <2>2, <2>3 DEF HeldIsNoted
<1>4. ASSUME NEW c \in Viewers, ReadSettles(c) PROVE HeldIsNoted'
  <2>0. Settle(c, FALSE) /\ jobs[c].at = "listed" /\ UNCHANGED moved /\ ~Unnoted(jobs[c], FALSE)
        /\ jobs[c].of \in Grids
    BY <1>0, <1>4 DEF ReadSettles, Unnoted, WatchBase, JobsKnown
  <2>1. /\ \A v \in Workers \ {c} : jobs'[v].of = jobs[v].of
        /\ \A g \in Grids : g # jobs[c].of => served'[g] = served[g]
        /\ jobs[c].sum \in served'[jobs[c].of].sums
        /\ ~Moved(jobs[c], FALSE) => served[jobs[c].of].sums \subseteq served'[jobs[c].of].sums
    <3>1. c \in Workers /\ WatchTypeOK /\ JobsKnown /\ FALSE \in BOOLEAN
      BY <1>0 DEF WatchBase
    <3>2. /\ \A v \in Workers \ {c} : jobs'[v].of = jobs[v].of
          /\ \A g \in Grids : g # jobs[c].of => served'[g] = served[g]
      BY <2>0, <3>1, SettleType
    <3>3. /\ Moved(jobs[c], FALSE) => served'[jobs[c].of].sums = {jobs[c].sum}
          /\ ~Moved(jobs[c], FALSE) =>
                served'[jobs[c].of].sums = served[jobs[c].of].sums \cup {jobs[c].sum}
      BY <2>0, <3>1, SettleType
    <3> QED
      BY <3>2, <3>3
  <2>2. \A b \in Viewers : cued[b] \subseteq cued'[b] /\ (Moved(jobs[c], FALSE) => jobs[c].of \in cued'[b])
    <3>1. CASE Moved(jobs[c], FALSE)
      <4>1. Cue({jobs[c].of})
        BY <1>4, <3>1 DEF ReadSettles
      <4>2. cued' = [b \in Viewers |-> cued[b] \cup {jobs[c].of}]
        BY <4>1 DEF Cue
      <4> QED
        BY <4>2
    <3>2. CASE ~Moved(jobs[c], FALSE)
      BY <1>4, <3>2 DEF ReadSettles
    <3> QED
      BY <3>1, <3>2
  <2>3. holds'[c][jobs[c].of] = jobs[c].sum /\ \A b \in Viewers, g \in Grids :
            b # c \/ g # jobs[c].of => holds'[b][g] = holds[b][g]
    BY <1>0, <1>4, <2>0 DEF ReadSettles
  <2>4. \A b \in Viewers : b # c => jobs'[b].of = jobs[b].of
    BY <1>0, <2>1
  <2>5. ASSUME NEW b \in Viewers, NEW g \in Grids
        PROVE g \in cued'[b] \cup moved' \/ jobs'[b].of = g \/ holds'[b][g] \in served'[g].sums \cup {Unread}
    <3>1. g \in cued[b] \cup moved \/ jobs[b].of = g \/ holds[b][g] \in served[g].sums \cup {Unread}
      BY DEF HeldIsNoted
    <3>2. CASE b = c /\ g = jobs[c].of
      BY <2>1, <2>3, <3>2
    <3>3. CASE g # jobs[c].of
      BY <2>0, <2>1, <2>2, <2>3, <2>4, <3>1, <3>3
    <3>4. CASE b # c /\ g = jobs[c].of
      BY <2>0, <2>1, <2>2, <2>3, <2>4, <3>1, <3>4
    <3> QED
      BY <3>2, <3>3, <3>4
  <2> QED
    BY <2>5 DEF HeldIsNoted
<1>5. ASSUME NEW g \in Grids, CheckSettles(g) PROVE HeldIsNoted'
  <2>0. UNCHANGED holds /\ g \in Workers
    BY <1>5 DEF CheckSettles, Workers
  <2>1. Found(g) => moved \subseteq moved' /\ \A c \in Viewers : cued[c] \subseteq cued'[c] /\ g \in cued'[c] \cup moved'
    BY FoundType DEF WatchBase
  <2>2. CASE jobs[g].at = "listed" /\ Settle(g, TRUE)
    <3>0. jobs[g].of = g
      BY <2>2 DEF WatchBase, JobsKnown
    <3>1. /\ \A v \in Workers \ {g} : jobs'[v].of = jobs[v].of
          /\ \A h \in Grids : h # g => served'[h] = served[h]
          /\ ~Moved(jobs[g], TRUE) => served[g].sums \subseteq served'[g].sums
      BY <2>0, <2>2, <3>0, SettleType DEF WatchBase
    <3>2. (Moved(jobs[g], TRUE) => Found(g)) /\ (~Moved(jobs[g], TRUE) => UNCHANGED <<moved, cued>>)
      BY <1>5, <2>2 DEF CheckSettles
    <3>3. \A b \in Viewers : jobs'[b].of = jobs[b].of
      BY <1>0, <3>1
    <3>4. ASSUME NEW b \in Viewers, NEW h \in Grids
          PROVE h \in cued'[b] \cup moved' \/ jobs'[b].of = h \/ holds'[b][h] \in served'[h].sums \cup {Unread}
      <4>1. h \in cued[b] \cup moved \/ jobs[b].of = h \/ holds[b][h] \in served[h].sums \cup {Unread}
        BY DEF HeldIsNoted
      <4>2. CASE Moved(jobs[g], TRUE)
        BY <2>0, <2>1, <3>1, <3>2, <3>3, <4>1, <4>2
      <4>3. CASE ~Moved(jobs[g], TRUE)
        BY <2>0, <3>1, <3>2, <3>3, <4>1, <4>3
      <4> QED
        BY <4>2, <4>3
    <3> QED
      BY <3>4 DEF HeldIsNoted
  <2>3. CASE jobs' = [jobs EXCEPT ![g] = NoJob] /\ Found(g) /\ UNCHANGED served
    <3>1. \A c \in Viewers : jobs'[c] = jobs[c]
      BY <1>0, <2>3
    <3> QED
      BY <1>0, <2>0, <2>1, <2>3, <3>1 DEF HeldIsNoted
  <2> QED
    BY <1>5, <2>2, <2>3 DEF CheckSettles
<1>6. CASE CheckEnds
  <2>1. \A c \in Viewers : cued'[c] = cued[c] \cup moved
    BY <1>0, <1>6, CueType DEF CheckEnds, WatchBase, WatchTypeOK
  <2>2. UNCHANGED <<jobs, served, holds>>
    BY <1>6 DEF CheckEnds
  <2> QED
    BY <2>1, <2>2 DEF HeldIsNoted
<1>7. CASE Swap
  <2>1. UNCHANGED <<served, holds, cued>> /\ moved = {} /\ \A c \in Viewers : jobs'[c] = jobs[c]
    BY <1>0, <1>7, SwapType DEF Swap
  <2> QED
    BY <2>1 DEF HeldIsNoted
<1>8. ASSUME NEW g \in Grids, Takes(g) PROVE HeldIsNoted'
  <2>1. UNCHANGED <<served, holds, cued, moved>> /\ \A c \in Viewers : jobs'[c] = jobs[c]
    BY <1>0, <1>8, TakesType DEF Takes
  <2> QED
    BY <2>1 DEF HeldIsNoted
<1>9. CASE \/ UNCHANGED watchVars \/ TakesScope \/ StreamBreaks \/ OpenFails \/ Opens
           \/ \E gs \in SUBSET Grids : SetView(gs) \/ \E g \in Grids : SourceChanges(g) \/ Writes(g)
  <2>1. UNCHANGED <<served, holds, cued, moved, jobs>>
    BY <1>9 DEF watchVars, TakesScope, StreamBreaks, OpenFails, Opens, SetView, SourceChanges, Writes
  <2> QED
    BY <2>1 DEF HeldIsNoted
<1> QED
  BY <1>1, <1>2, <1>3, <1>4, <1>5, <1>6, <1>7, <1>8, <1>9 DEF WatchNext

(* An outage found and over has been told of.                              *)
LEMMA DarkKept ==
    ASSUME WatchBase, DarkKnown, DarkEnds, [WatchNext]_watchVars
    PROVE  DarkKnown' /\ DarkEnds'
<1>0. /\ jobs \in [Workers -> Job] /\ cued \in [Viewers -> SUBSET Grids] /\ Viewers \subseteq Workers
      /\ list \in [Grids -> Listings]
      /\ holds \in [Viewers -> [Grids -> Sums \cup {Unread}]]
      /\ Viewers \cap Grids = {} /\ NoGrid \notin Grids /\ Dark \notin Listings
  BY WatchAssumption DEF WatchAssumption, WatchBase, WatchTypeOK, Workers
<1>1. ASSUME NEW w \in Workers, Answers(w) PROVE DarkKnown' /\ DarkEnds'
  <2>0. UNCHANGED holds /\ jobs[w].at = "asked" /\ jobs[w].of \in Grids
    BY <1>1 DEF Answers, WatchBase, JobsKnown
  <2>1. CASE sourceDark'
    BY <2>1 DEF DarkKnown, DarkEnds
  <2>2. CASE ~sourceDark'
    <3>1. jobs' = [jobs EXCEPT ![w].at = "listed", ![w].sum = list[jobs[w].of]] /\ Returns
      BY <1>1, <2>2 DEF Answers
    <3>2. \A v \in Workers : jobs'[v].of = jobs[v].of /\ (v # w => jobs'[v] = jobs[v])
      BY <3>1, <1>0 DEF Job
    <3>3. jobs'[w].sum # Dark
      BY <3>1, <1>0, <2>0 DEF Job
    <3>4. CASE sourceDark
      <4>1. \A c \in Viewers : Grids \subseteq cued'[c]
        BY <1>0, <3>1, <3>4, CueType DEF Returns
      <4>2. \A c \in Viewers : jobs'[c].at = "listed" => jobs'[c].of \in Grids
        BY <1>0, <2>0, <3>2 DEF WatchBase, JobsKnown
      <4> QED
        BY <4>1, <4>2 DEF DarkKnown, DarkEnds
    <3>5. CASE ~sourceDark
      <4>1. UNCHANGED cued
        BY <3>1, <3>5 DEF Returns
      <4> QED
        BY <1>0, <2>0, <3>2, <3>3, <3>5, <4>1 DEF DarkKnown, DarkEnds
    <3> QED
      BY <3>4, <3>5
  <2> QED
    BY <2>1, <2>2
<1>2. ASSUME NEW c \in Viewers, NEW g \in Grids, Reads(c, g) PROVE DarkKnown' /\ DarkEnds'
  <2>1. UNCHANGED <<holds, sourceDark>> /\ jobs[c].of = NoGrid
    BY <1>2, <1>0 DEF Reads, WatchBase, JobsKnown, NoJob
  <2>2. jobs'[c].of = g /\ jobs'[c].at = "asked" /\ \A b \in Viewers \ {c} : jobs'[b] = jobs[b]
    BY <1>2, <1>0 DEF Reads, Start, NoJob
  <2>3. cued'[c] = cued[c] \ {g} /\ \A b \in Viewers \ {c} : cued'[b] = cued[b]
    BY <1>2, <1>0 DEF Reads
  <2> QED
    BY <1>0, <2>1, <2>2, <2>3 DEF DarkKnown, DarkEnds
<1>3. ASSUME NEW c \in Viewers, ReadSettles(c) PROVE DarkKnown' /\ DarkEnds'
  <2>0. Settle(c, FALSE) /\ jobs[c].at = "listed" /\ UNCHANGED sourceDark /\ jobs[c].of \in Grids
    BY <1>0, <1>3 DEF ReadSettles, WatchBase, JobsKnown
  <2>1. jobs'[c] = NoJob /\ NoJob.at = "idle" /\ \A v \in Workers \ {c} :
            jobs'[v].at = jobs[v].at /\ jobs'[v].of = jobs[v].of /\ jobs'[v].sum = jobs[v].sum
    <3>1. c \in Workers /\ WatchTypeOK /\ JobsKnown /\ FALSE \in BOOLEAN
      BY <1>0 DEF WatchBase
    <3>2. /\ jobs'[c] = NoJob
          /\ \A v \in Workers \ {c} :
                jobs'[v].at = jobs[v].at /\ jobs'[v].of = jobs[v].of /\ jobs'[v].sum = jobs[v].sum
      BY <2>0, <3>1, SettleType
    <3> QED
      BY <3>2 DEF NoJob
  <2>2. \A b \in Viewers : cued[b] \subseteq cued'[b]
    <3>1. CASE Moved(jobs[c], FALSE)
      <4>1. cued' = [b \in Viewers |-> cued[b] \cup {jobs[c].of}]
        BY <1>3, <3>1 DEF ReadSettles, Cue
      <4> QED
        BY <4>1
    <3>2. CASE ~Moved(jobs[c], FALSE)
      BY <1>3, <3>2 DEF ReadSettles
    <3> QED
      BY <3>1, <3>2
  <2>3. holds'[c][jobs[c].of] = jobs[c].sum /\ \A b \in Viewers, g \in Grids :
            b # c \/ g # jobs[c].of => holds'[b][g] = holds[b][g]
    BY <1>0, <1>3, <2>0 DEF ReadSettles
  <2> QED
    BY <1>0, <2>0, <2>1, <2>2, <2>3 DEF DarkKnown, DarkEnds
<1>4. ASSUME NEW g \in Grids, CheckSettles(g) PROVE DarkKnown' /\ DarkEnds'
  <2>0. UNCHANGED <<holds, sourceDark>> /\ g \in Workers
    BY <1>4 DEF CheckSettles, Workers
  <2>1. \A c \in Viewers : cued[c] \subseteq cued'[c]
    BY <1>4, FoundType DEF CheckSettles, WatchBase
  <2>2. \A c \in Viewers : jobs'[c].at = jobs[c].at /\ jobs'[c].of = jobs[c].of /\ jobs'[c].sum = jobs[c].sum
    <3>1. CASE jobs[g].at = "listed" /\ Settle(g, TRUE)
      <4>1. \A v \in Workers \ {g} :
                jobs'[v].at = jobs[v].at /\ jobs'[v].of = jobs[v].of /\ jobs'[v].sum = jobs[v].sum
        BY <2>0, <3>1, SettleType DEF WatchBase
      <4> QED
        BY <1>0, <4>1
    <3>2. CASE jobs' = [jobs EXCEPT ![g] = NoJob]
      BY <1>0, <3>2
    <3> QED
      BY <1>4, <3>1, <3>2 DEF CheckSettles
  <2> QED
    BY <2>0, <2>1, <2>2 DEF DarkKnown, DarkEnds
<1>5. CASE \/ UNCHANGED watchVars \/ TakesScope \/ StreamBreaks \/ OpenFails \/ Opens \/ WriteAnnounces \/ CheckEnds \/ Swap
           \/ \E gs \in SUBSET Grids : SetView(gs) \/ \E g \in Grids : SourceChanges(g) \/ Writes(g) \/ Takes(g)
  <2>1. UNCHANGED <<holds, sourceDark>>
    BY <1>5 DEF watchVars, TakesScope, StreamBreaks, OpenFails, Opens, SetView, SourceChanges, Writes, Takes,
            WriteAnnounces, CheckEnds, Swap
  <2>2. \A c \in Viewers : cued[c] \subseteq cued'[c]
    <3>1. CASE WriteAnnounces
      <4>1. writing \in Grids /\ Cue({writing})
        BY <3>1 DEF WriteAnnounces, WatchBase, WatchTypeOK
      <4> QED
        BY <1>0, <4>1, CueType
    <3>2. CASE CheckEnds
      BY <1>0, <3>2, CueType DEF CheckEnds, WatchBase, WatchTypeOK
    <3> QED
      BY <1>5, <3>1, <3>2 DEF watchVars, TakesScope, StreamBreaks, OpenFails, Opens, SetView, SourceChanges, Writes, Takes, Swap
  <2>3. \A c \in Viewers : jobs'[c] = jobs[c]
    <3>1. CASE Swap
      BY <1>0, <3>1, SwapType
    <3>2. ASSUME NEW g \in Grids, Takes(g) PROVE \A c \in Viewers : jobs'[c] = jobs[c]
      BY <1>0, <3>2, TakesType
    <3> QED
      BY <1>5, <3>1, <3>2 DEF watchVars, TakesScope, StreamBreaks, OpenFails, Opens, SetView, SourceChanges, Writes,
              WriteAnnounces, CheckEnds
  <2> QED
    BY <2>1, <2>2, <2>3 DEF DarkKnown, DarkEnds
<1> QED
  BY <1>1, <1>2, <1>3, <1>4, <1>5 DEF WatchNext

----------------------------------------------------------------------------
(* What was checked stays so until the source changes it unseen.           *)
LEMMA HeldKept ==
    ASSUME NEW g \in Grids, Held(g), sourceDark' = sourceDark,
           \A c \in Viewers : cued[c] \subseteq cued'[c],
           \A c \in Viewers : jobs'[c] = jobs[c] \/ (jobs[c].of # g /\ jobs'[c].of # g),
           list'[g] = list[g], served'[g].last = served[g].last,
           \A c \in Viewers : holds'[c][g] = holds[c][g],
           Checked(g)' => Checked(g)
    PROVE  Held(g)'
  BY DEF Held, HoldsNow, OldIsRaced, Old

\* A grid every client was told to read again.
LEMMA CuedIsHeld ==
    ASSUME NEW g \in Grids, \A c \in Viewers : g \in cued'[c]
    PROVE  Held(g)'
  BY DEF Held, HoldsNow, OldIsRaced

LEMMA RelistHolds ==
    ASSUME NEW h \in Grids, WatchBase, ChecksHold, SourceChanges(h) \/ Writes(h)
    PROVE  ChecksHold'
<1>0. /\ cur \in Stream /\ next \in Stream /\ Relist(h)
      /\ UNCHANGED <<loop, watched, jobs, moved, served, sourceDark, holds, cued>>
  BY DEF SourceChanges, Writes, WatchBase, WatchTypeOK
<1>1. /\ \A g \in Grids \ {h} : list'[g] = list[g] /\ (g \in missed' <=> g \in missed)
      /\ cur' = Tell(cur, h) /\ next' = Tell(next, h)
  BY <1>0, RelistType DEF WatchBase
<1>2. /\ cur'.open = cur.open /\ cur.told \subseteq cur'.told /\ next.told \subseteq next'.told
      /\ cur.open /\ h \in cur.covers => h \in cur'.told
      /\ next.open /\ h \in next.covers => h \in next'.told
  BY <1>0, <1>1, StreamType
<1>3. Covered' = Covered
  BY <1>0 DEF Covered
<1>4. ASSUME NEW g \in Grids \ {h} PROVE Held(g)'
  <2>1. Checked(g)' => Checked(g)
    BY <1>0, <1>1, <1>2, <1>3 DEF Checked
  <2> QED
    <3>1. Held(g) /\ g \in Grids
      BY DEF ChecksHold
    <3> QED
      BY <1>0, <1>1, <2>1, <3>1, HeldKept
<1>5. ~Checked(h)'
  <2> SUFFICES ASSUME Checked(h)' PROVE FALSE
    OBVIOUS
  <2>1. h \in Covered /\ h \notin cur'.told /\ (h \in next'.told => cur.open)
        /\ ((jobs[h].at = "idle" /\ h \notin missed') \/ jobs[h].at = "listed")
    BY <1>0, <1>2, <1>3 DEF Checked
  <2>2. ~(cur.open /\ h \in cur.covers)
    BY <1>2, <2>1
  <2>3. jobs[h].at = "idle" /\ h \notin missed'
    BY <2>1, <2>2 DEF WatchBase, Followed
  <2>4. h \in watched /\ loop.at # "checking"
    BY <2>1, <2>2 DEF Covered, WatchBase, Followed
  <2>5. ~Untold(h)
    BY <1>0, <2>3, <2>4 DEF Relist
  <2>6. next.open /\ h \in next.covers
    BY <2>2, <2>5 DEF Untold
  <2>7. cur.open
    BY <1>2, <2>1, <2>6
  <2>8. loop.at \in {"idle", "opening", "checking", "following"}
    BY DEF WatchBase, WatchTypeOK
  <2>9. cur.covers = watched
    BY <2>4, <2>7, <2>8 DEF WatchBase, Followed
  <2> QED
    BY <2>2, <2>4, <2>7, <2>9
<1> QED
  BY <1>4, <1>5 DEF ChecksHold, Held

\* A listing answered is the source's, or the source is dark.
LEMMA AnswersType ==
    ASSUME NEW w \in Workers, WatchBase, Answers(w)
    PROVE  /\ jobs'[w].at = "listed" /\ jobs'[w].of = jobs[w].of /\ jobs[w].of \in Grids
           /\ \A v \in Workers \ {w} : jobs'[v] = jobs[v]
           /\ ~sourceDark' => jobs'[w].sum = list[jobs[w].of] /\ Returns
<1>0. jobs \in [Workers -> Job] /\ jobs[w].of \in Grids
  BY DEF WatchBase, WatchTypeOK, JobsKnown, Answers
<1>1. CASE sourceDark'
  <2>1. PICK s : jobs' = [jobs EXCEPT ![w].at = "listed", ![w].sum = s]
    BY DEF Answers
  <2> QED
    BY <1>0, <1>1, <2>1 DEF Job
<1>2. CASE ~sourceDark'
  <2>1. jobs' = [jobs EXCEPT ![w].at = "listed", ![w].sum = list[jobs[w].of]] /\ Returns
    BY <1>2 DEF Answers
  <2> QED
    BY <1>0, <2>1 DEF Job
<1> QED
  BY <1>1, <1>2

LEMMA AnswersHold ==
    ASSUME NEW w \in Workers, WatchBase, ChecksHold, Answers(w)
    PROVE  ChecksHold'
<1>0. /\ UNCHANGED <<list, loop, watched, cur, next, moved, served, holds, missed>>
      /\ jobs[w].at = "asked" /\ list \in [Grids -> Listings] /\ Dark \notin Listings
      /\ cued \in [Viewers -> SUBSET Grids] /\ Viewers \subseteq Workers /\ Grids \subseteq Workers
      /\ Viewers \cap Grids = {}
  BY WatchAssumption DEF WatchAssumption, Answers, WatchBase, WatchTypeOK, Workers
<1>1. CASE sourceDark'
  BY <1>1 DEF ChecksHold, Held
<1>2. CASE ~sourceDark' /\ sourceDark
  <2>1. Cue(Grids)
    BY <1>2, AnswersType DEF Returns
  <2>2. \A c \in Viewers, g \in Grids : g \in cued'[c]
    BY <1>0, <2>1, CueType
  <2> QED
    BY <2>2, CuedIsHeld DEF ChecksHold
<1>3. CASE ~sourceDark' /\ ~sourceDark
  <2>1. UNCHANGED cued
    BY <1>3, AnswersType DEF Returns
  <2>2. jobs'[w].sum = list[jobs[w].of] /\ jobs[w].of \in Grids /\ jobs'[w].at = "listed" /\ jobs'[w].of = jobs[w].of
    BY <1>3, AnswersType
  <2>3. \A v \in Workers \ {w} : jobs'[v] = jobs[v]
    BY AnswersType
  <2>4. jobs'[w].sum # Dark
    BY <1>0, <2>2
  <2>5. ASSUME NEW g \in Grids PROVE Held(g)'
    <3>1. Covered' = Covered
      BY <1>0 DEF Covered
    <3>2. Checked(g)' => Checked(g)
      BY <1>0, <2>2, <2>3, <2>4, <3>1 DEF Checked
    <3>3. \A c \in Viewers : jobs'[c].of = jobs[c].of
      BY <1>0, <2>2, <2>3
    <3>4. \A c \in Viewers : Old(c, g)' => Old(c, g) /\ jobs'[c] = jobs[c]
      BY <1>0, <2>2, <2>3 DEF Old
    <3>5. Held(g)
      BY DEF ChecksHold
    <3> QED
      BY <1>0, <1>3, <2>1, <3>2, <3>3, <3>4, <3>5 DEF Held, HoldsNow, OldIsRaced
  <2> QED
    BY <2>5 DEF ChecksHold
<1> QED
  BY <1>1, <1>2, <1>3

LEMMA ReadsHold ==
    ASSUME NEW c \in Viewers, NEW h \in Grids, WatchBase, ChecksHold, Reads(c, h)
    PROVE  ChecksHold'
<1>0. /\ UNCHANGED <<list, loop, watched, cur, next, moved, served, sourceDark, holds, missed>>
      /\ jobs \in [Workers -> Job]
      /\ cued \in [Viewers -> SUBSET Grids] /\ Viewers \subseteq Workers /\ Grids \subseteq Workers
      /\ Viewers \cap Grids = {} /\ NoGrid \notin Grids
  BY WatchAssumption DEF WatchAssumption, Reads, WatchBase, WatchTypeOK, Workers
<1>1. jobs[c].at = "idle" /\ jobs[c].of = NoGrid
  BY <1>0 DEF Reads, WatchBase, JobsKnown, NoJob
<1>2. jobs'[c].of = h /\ jobs'[c].at = "asked" /\ \A v \in Workers \ {c} : jobs'[v] = jobs[v]
  BY <1>0 DEF Reads, Start, NoJob
<1>3. cued'[c] = cued[c] \ {h} /\ \A b \in Viewers \ {c} : cued'[b] = cued[b]
  BY <1>0 DEF Reads
<1>4. ASSUME NEW g \in Grids PROVE Held(g)'
  <2>1. Covered' = Covered
    BY <1>0 DEF Covered
  <2>2. Checked(g)' => Checked(g)
    BY <1>0, <1>2, <2>1 DEF Checked
  <2>3. \A b \in Viewers : Old(b, g)' => Old(b, g) /\ b # c
    BY <1>0, <1>2 DEF Old
  <2>4. Held(g)
    BY DEF ChecksHold
  <2>5. \A b \in Viewers \ {c} : jobs'[b] = jobs[b]
    BY <1>0, <1>2
  <2>6. HoldsNow(g) => HoldsNow(g)'
    BY <1>0, <1>1, <1>2, <1>3, <2>5 DEF HoldsNow
  <2>7. OldIsRaced(g) => OldIsRaced(g)'
    BY <1>0, <1>2, <1>3, <2>3, <2>5 DEF OldIsRaced
  <2> QED
    BY <1>0, <2>2, <2>4, <2>6, <2>7 DEF Held
<1> QED
  BY <1>4 DEF ChecksHold

\* A client's listing settled: an old one is found out, a new one races the rest.
LEMMA ReadSettlesHold ==
    ASSUME NEW c \in Viewers, WatchBase, ChecksHold, ReadSettles(c)
    PROVE  ChecksHold'
<1>h. PICK h \in Grids : h = jobs[c].of
  BY DEF ReadSettles, WatchBase, JobsKnown, Workers
<1>0. /\ UNCHANGED <<list, loop, watched, cur, next, moved, sourceDark, missed>>
      /\ cued \in [Viewers -> SUBSET Grids] /\ Viewers \subseteq Workers /\ Grids \subseteq Workers
      /\ holds \in [Viewers -> [Grids -> Sums \cup {Unread}]]
      /\ Viewers \cap Grids = {} /\ NoGrid \notin Grids
      /\ c \in Workers /\ WatchTypeOK /\ JobsKnown /\ FALSE \in BOOLEAN
      /\ Settle(c, FALSE) /\ jobs[c].at = "listed" /\ h \in Grids /\ ~Unnoted(jobs[c], FALSE)
  BY <1>h, WatchAssumption DEF WatchAssumption, ReadSettles, WatchBase, WatchTypeOK, JobsKnown, Workers, Unnoted
<1>s. /\ c \in Workers /\ WatchTypeOK /\ JobsKnown /\ FALSE \in BOOLEAN
      /\ Settle(c, FALSE) /\ jobs[c].at = "listed"
  BY <1>0
<1>1. /\ jobs'[c] = NoJob
      /\ \A v \in Workers \ {c} :
            /\ jobs'[v].at = jobs[v].at /\ jobs'[v].of = jobs[v].of /\ jobs'[v].sum = jobs[v].sum
            /\ jobs'[v] = jobs[v] \/ jobs[v].of = h
            /\ jobs[v].of = h => jobs'[v].raced
  <2>1. /\ jobs'[c] = NoJob
        /\ \A v \in Workers \ {c} :
            /\ jobs'[v].at = jobs[v].at /\ jobs'[v].of = jobs[v].of /\ jobs'[v].sum = jobs[v].sum
            /\ jobs'[v] = jobs[v] \/ jobs[v].of = jobs[c].of
            /\ jobs[v].of = jobs[c].of => jobs'[v].raced \/ Unnoted(jobs[c], FALSE)
    BY <1>s, SettleType
  <2> QED
    BY <1>h, <1>0, <2>1
<1>2. served'[h].last = jobs[c].sum /\ \A g \in Grids : g # h => served'[g] = served[g]
  <2>1. /\ \A g \in Grids : g # jobs[c].of => served'[g] = served[g]
        /\ ~Unnoted(jobs[c], FALSE) => served'[jobs[c].of].last = jobs[c].sum
    BY <1>s, SettleType
  <2> QED
    BY <1>h, <1>0, <2>1
<1>3. \A b \in Viewers : cued[b] \subseteq cued'[b] /\ (Moved(jobs[c], FALSE) => h \in cued'[b])
  <2>1. CASE Moved(jobs[c], FALSE)
    <3>1. cued' = [b \in Viewers |-> cued[b] \cup {h}]
      BY <1>h, <2>1 DEF ReadSettles, Cue
    <3> QED
      BY <3>1
  <2>2. CASE ~Moved(jobs[c], FALSE)
    BY <2>2 DEF ReadSettles
  <2> QED
    BY <2>1, <2>2
<1>4. holds'[c][h] = jobs[c].sum /\ \A b \in Viewers, g \in Grids :
            b # c \/ g # h => holds'[b][g] = holds[b][g]
  BY <1>h, <1>0 DEF ReadSettles
<1>5. NoJob.of = NoGrid /\ NoJob.at = "idle"
  BY DEF NoJob
<1>6. Covered' = Covered
  BY <1>0 DEF Covered
<1>7. ASSUME NEW g \in Grids PROVE Checked(g)' => Checked(g)
  <2>1. jobs'[g].at = jobs[g].at /\ jobs'[g].sum = jobs[g].sum
    BY <1>0, <1>1
  <2> QED
    BY <1>0, <1>6, <2>1 DEF Checked
<1>8. ASSUME NEW g \in Grids, g # h PROVE Held(g)'
  <2>1. \A b \in Viewers : jobs'[b] = jobs[b] \/ (jobs[b].of # g /\ jobs'[b].of # g)
    <3>1. jobs[c].of # g /\ jobs'[c].of # g
      BY <1>h, <1>0, <1>1, <1>5, <1>8
    <3> QED
      BY <1>0, <1>1, <1>8, <3>1
  <2>2. Held(g) /\ served'[g].last = served[g].last /\ \A b \in Viewers : holds'[b][g] = holds[b][g]
    BY <1>2, <1>4, <1>8 DEF ChecksHold
  <2> QED
    BY <1>0, <1>3, <1>7, <2>1, <2>2, HeldKept
<1>9. Held(h)'
  <2>1. CASE Moved(jobs[c], FALSE)
    BY <1>0, <1>3, <2>1, CuedIsHeld
  <2>2. CASE ~Moved(jobs[c], FALSE)
    <3> SUFFICES ASSUME ~sourceDark, Checked(h)' PROVE HoldsNow(h)' /\ OldIsRaced(h)'
      BY <1>0 DEF Held
    <3>1. HoldsNow(h) /\ OldIsRaced(h)
      BY <1>0, <1>7 DEF ChecksHold, Held
    <3>2. ~jobs[c].raced \/ served[h].last = jobs[c].sum
      BY <1>h, <1>0, <2>2 DEF Moved, Raced
    <3>3. Old(c, h) => h \in cued[c]
      BY <3>1, <3>2 DEF OldIsRaced
    <3>4. Old(c, h) \/ jobs[c].sum \in {Dark, list[h]}
      BY <1>h, <1>0 DEF Old
    <3>5. HoldsNow(h)'
      <4> SUFFICES ASSUME NEW b \in Viewers
                   PROVE  h \in cued'[b] \/ jobs'[b].of = h \/ holds'[b][h] \in {Unread, Dark, list'[h]}
        BY DEF HoldsNow
      <4>1. CASE b = c
        BY <1>0, <1>3, <1>4, <3>3, <3>4, <4>1
      <4>2. CASE b # c
        <5>1. h \in cued[b] \/ jobs[b].of = h \/ holds[b][h] \in {Unread, Dark, list[h]}
          BY <3>1 DEF HoldsNow
        <5>2. jobs'[b].of = jobs[b].of
          BY <1>0, <1>1, <4>2
        <5> QED
          BY <1>0, <1>3, <1>4, <4>2, <5>1, <5>2
      <4> QED
        BY <4>1, <4>2
    <3>6. \A b \in Viewers : Old(b, h)' => b # c /\ Old(b, h) /\ jobs'[b].raced
      BY <1>0, <1>1, <1>5 DEF Old
    <3>7. OldIsRaced(h)'
      <4> SUFFICES ASSUME NEW b \in Viewers, Old(b, h)'
                   PROVE  h \in cued'[b] \/ served'[h].last # jobs'[b].sum
        BY <3>6 DEF OldIsRaced
      <4>1. Old(b, h) /\ b # c /\ jobs'[b].sum = jobs[b].sum
        BY <1>0, <1>1, <3>6
      <4>2. CASE h \in cued[b]
        BY <1>3, <4>2
      <4>3. CASE h \notin cued[b] /\ ~Old(c, h)
        BY <1>2, <3>4, <4>1, <4>3 DEF Old
      <4>4. CASE h \notin cued[b] /\ Old(c, h)
        <5>1. served[h].last # jobs[b].sum /\ jobs[c].raced
          BY <3>1, <4>1, <4>4 DEF OldIsRaced
        <5> QED
          BY <1>2, <3>2, <4>1, <5>1
      <4> QED
        BY <4>2, <4>3, <4>4
    <3> QED
      BY <3>5, <3>7
  <2> QED
    BY <2>1, <2>2
<1> QED
  BY <1>8, <1>9 DEF ChecksHold

\* A check settled: what clients hold is the source's, or they are told.
LEMMA CheckSettlesHold ==
    ASSUME NEW h \in Grids, WatchBase, ChecksAreNow, HeldIsNoted, ChecksHold, CheckSettles(h)
    PROVE  ChecksHold'
<1>0. /\ UNCHANGED <<list, loop, watched, cur, next, sourceDark, holds>>
      /\ cued \in [Viewers -> SUBSET Grids] /\ Viewers \subseteq Workers /\ Grids \subseteq Workers
      /\ jobs \in [Workers -> Job] /\ moved \subseteq Grids
      /\ Viewers \cap Grids = {}
      /\ h \in Workers /\ WatchTypeOK /\ JobsKnown /\ TRUE \in BOOLEAN
      /\ missed' = missed \ {h}
      /\ \A g \in Grids : jobs[g].at # "idle" => jobs[g].of = g
      /\ NoJob.at = "idle"
  BY WatchAssumption DEF WatchAssumption, CheckSettles, WatchBase, WatchTypeOK, JobsKnown, Workers, NoJob
<1>1. Covered' = Covered
  BY <1>0 DEF Covered
<1>2. Found(h) => /\ moved \subseteq moved' /\ \A c \in Viewers : cued[c] \subseteq cued'[c]
                  /\ h \in moved' \/ \A c \in Viewers : h \in cued'[c]
  BY <1>0, FoundType
<1>3. moved \subseteq moved' /\ \A c \in Viewers : cued[c] \subseteq cued'[c]
  BY <1>2 DEF CheckSettles
<1>4. ASSUME Found(h) PROVE Held(h)'
  <2>1. CASE h \in moved'
    BY <2>1 DEF Held, Checked
  <2>2. CASE \A c \in Viewers : h \in cued'[c]
    BY <2>2, CuedIsHeld
  <2> QED
    BY <1>2, <1>4, <2>1, <2>2
<1>5. CASE jobs[h].at = "listed" /\ Settle(h, TRUE)
  <2>0. jobs[h].of = h
    BY <1>0, <1>5
  <2>1. /\ jobs'[h] = NoJob
        /\ \A v \in Workers \ {h} :
            /\ jobs'[v].at = jobs[v].at /\ jobs'[v].of = jobs[v].of /\ jobs'[v].sum = jobs[v].sum
            /\ jobs'[v] = jobs[v] \/ jobs[v].of = h
            /\ jobs[v].of = h => jobs'[v].raced \/ Unnoted(jobs[h], TRUE)
            /\ Unnoted(jobs[h], TRUE) => jobs'[v] = jobs[v]
    <3>1. /\ jobs'[h] = NoJob
          /\ \A v \in Workers \ {h} :
              /\ jobs'[v].at = jobs[v].at /\ jobs'[v].of = jobs[v].of /\ jobs'[v].sum = jobs[v].sum
              /\ jobs'[v] = jobs[v] \/ jobs[v].of = jobs[h].of
              /\ jobs[v].of = jobs[h].of => jobs'[v].raced \/ Unnoted(jobs[h], TRUE)
              /\ Unnoted(jobs[h], TRUE) => jobs'[v] = jobs[v]
      BY <1>0, <1>5, SettleType
    <3> QED
      BY <2>0, <3>1
  <2>2. /\ \A g \in Grids : g # h => served'[g] = served[g]
        /\ Unnoted(jobs[h], TRUE) => served' = served
        /\ ~Unnoted(jobs[h], TRUE) => served'[h].last = jobs[h].sum
    <3>1. /\ \A g \in Grids : g # jobs[h].of => served'[g] = served[g]
          /\ Unnoted(jobs[h], TRUE) => served' = served
          /\ ~Unnoted(jobs[h], TRUE) => served'[jobs[h].of].last = jobs[h].sum
      BY <1>0, <1>5, SettleType
    <3> QED
      BY <2>0, <3>1
  <2>3. ASSUME NEW g \in Grids, g # h PROVE Held(g)'
    <3>1. jobs'[g].at = jobs[g].at /\ jobs'[g].sum = jobs[g].sum
      BY <1>0, <2>1, <2>3
    <3>2. Checked(g)' => Checked(g)
      BY <1>0, <1>1, <1>3, <2>3, <3>1 DEF Checked
    <3>3. \A b \in Viewers : jobs'[b] = jobs[b] \/ (jobs[b].of # g /\ jobs'[b].of # g)
      BY <1>0, <2>1, <2>3
    <3>4. Held(g) /\ served'[g].last = served[g].last
      BY <2>2, <2>3 DEF ChecksHold
    <3> QED
      BY <1>0, <1>3, <3>2, <3>3, <3>4, HeldKept
  <2>4. CASE Moved(jobs[h], TRUE)
    BY <1>4, <2>3, <2>4, <1>5 DEF CheckSettles, ChecksHold
  <2>5. CASE ~Moved(jobs[h], TRUE)
    <3>1. UNCHANGED <<moved, cued>>
      BY <1>5, <2>5 DEF CheckSettles
    <3>2. \A b \in Viewers : jobs'[b].at = jobs[b].at /\ jobs'[b].of = jobs[b].of /\ jobs'[b].sum = jobs[b].sum
      BY <1>0, <2>1
    <3>3. jobs[h].sum = Dark => (Checked(h)' => Checked(h))
      BY <1>0, <1>1, <1>5, <3>1 DEF Checked
    <3>4. CASE Unnoted(jobs[h], TRUE)
      <4>1. \A b \in Viewers : jobs'[b] = jobs[b]
        BY <1>0, <2>1, <3>4
      <4>2. jobs[h].sum = Dark /\ served' = served
        BY <2>2, <3>4 DEF Unnoted
      <4>3. Held(h)
        BY DEF ChecksHold
      <4>4. Held(h)'
        BY <1>0, <1>3, <3>3, <4>1, <4>2, <4>3, HeldKept
      <4> QED
        BY <2>3, <4>4 DEF ChecksHold
    <3>5. CASE ~Unnoted(jobs[h], TRUE)
      <4>1. \A b \in Viewers : jobs[b].of = h => jobs'[b].raced
        BY <1>0, <2>1, <3>5
      <4>2. served[h].sums = {} \/ served[h].sums = {jobs[h].sum}
        BY <2>0, <2>5, <3>5 DEF Moved, Differs
      <4>3. served'[h].last = jobs[h].sum
        BY <2>2, <3>5
      <4>4. ASSUME Checked(h)', ~sourceDark, HoldsNow(h)', jobs[h].sum \in {Dark, list[h]} PROVE OldIsRaced(h)'
        BY <1>0, <3>2, <4>1, <4>3, <4>4 DEF OldIsRaced, Old
      <4>5. CASE jobs[h].sum = Dark
        <5>1. Held(h)
          BY DEF ChecksHold
        <5>2. HoldsNow(h) => HoldsNow(h)'
          BY <1>0, <3>1, <3>2 DEF HoldsNow
        <5>3. Held(h)'
          BY <1>0, <3>3, <4>4, <4>5, <5>1, <5>2 DEF Held
        <5> QED
          BY <2>3, <5>3 DEF ChecksHold
      <4>6. CASE jobs[h].sum # Dark
        <5> SUFFICES ASSUME Checked(h)', ~sourceDark PROVE HoldsNow(h)' /\ OldIsRaced(h)'
          BY <1>0, <2>3 DEF ChecksHold, Held
        <5>1. h \notin cur.told /\ h \notin moved
          BY <1>0, <3>1 DEF Checked
        <5>2. jobs[h].sum = list[h]
          BY <1>5, <4>6, <5>1 DEF ChecksAreNow
        <5>3. HoldsNow(h)'
          <6> SUFFICES ASSUME NEW b \in Viewers
                       PROVE  h \in cued[b] \/ jobs[b].of = h \/ holds[b][h] \in {Unread, list[h]}
            BY <1>0, <3>1, <3>2 DEF HoldsNow
          <6>1. h \in cued[b] \cup moved \/ jobs[b].of = h \/ holds[b][h] \in served[h].sums \cup {Unread}
            BY DEF HeldIsNoted
          <6> QED
            BY <4>2, <5>1, <5>2, <6>1
        <5> QED
          BY <4>4, <5>2, <5>3
      <4> QED
        BY <4>5, <4>6
    <3> QED
      BY <3>4, <3>5
  <2> QED
    BY <2>4, <2>5
<1>6. CASE jobs' = [jobs EXCEPT ![h] = NoJob] /\ Found(h) /\ UNCHANGED served
  <2>1. \A v \in Workers \ {h} : jobs'[v] = jobs[v]
    BY <1>0, <1>6
  <2>2. ASSUME NEW g \in Grids, g # h PROVE Held(g)'
    <3>1. Checked(g)' => Checked(g)
      BY <1>0, <1>1, <1>3, <2>1, <2>2 DEF Checked
    <3>2. \A b \in Viewers : jobs'[b] = jobs[b]
      BY <1>0, <2>1
    <3>3. Held(g)
      BY DEF ChecksHold
    <3> QED
      BY <1>0, <1>3, <1>6, <3>1, <3>2, <3>3, HeldKept
  <2> QED
    BY <1>4, <1>6, <2>2 DEF ChecksHold
<1> QED
  BY <1>5, <1>6 DEF CheckSettles

\* The steps of followScope: a grid held by two streams is checked throughout.
LEMMA ScopeHolds ==
    ASSUME WatchBase, ChecksHold, TakesScope \/ Opens \/ StreamBreaks \/ OpenFails
    PROVE  ChecksHold'
<1>0. /\ UNCHANGED <<list, jobs, moved, served, sourceDark, holds, cued>>
      /\ cur \in Stream /\ next \in Stream
      /\ NoStream.told = {} /\ ~NoStream.open
      /\ \A g \in Grids : jobs[g].at # "idle" => cur.open
  BY DEF TakesScope, Opens, StreamBreaks, OpenFails, WatchBase, WatchTypeOK, NoStream, Followed
<1>1. ASSUME NEW g \in Grids PROVE Checked(g)' => Checked(g)
  <2> SUFFICES ASSUME Checked(g)' PROVE Checked(g)
    OBVIOUS
  <2>1. CASE loop'.at = "idle" /\ watched' = {}
    BY <2>1 DEF Checked, Covered
  <2>2. CASE TakesScope /\ shown # {}
    <3>1. /\ loop'.at = "opening" /\ loop.at # "checking" /\ UNCHANGED <<cur, watched>>
          /\ missed' = IF cur.open THEN missed ELSE missed \cup next.told
      BY <2>2 DEF TakesScope
    <3>2. g \in Covered
      BY <3>1 DEF Checked, Covered
    <3>3. g \in next.told => cur.open
      BY <1>0, <3>1 DEF Checked
    <3> QED
      BY <1>0, <3>1, <3>2, <3>3 DEF Checked
  <2>3. CASE Opens
    <3>1. UNCHANGED <<loop, watched, cur, missed>> /\ next'.told = next.told
      BY <1>0, <2>3 DEF Opens, Stream
    <3> QED
      BY <1>0, <3>1 DEF Checked, Covered
  <2>4. CASE StreamBreaks /\ loop.at # "following"
    <3>1. /\ UNCHANGED <<loop, watched, next>> /\ cur' = NoStream /\ missed' = missed \cup (cur.told \ next.told)
          /\ jobs[g].at = "idle" /\ NoJob.sum # Dark
      BY <2>4, WatchAssumption DEF StreamBreaks, Applying, NoJob, WatchAssumption
    <3>2. g \in Covered
      BY <3>1 DEF Checked, Covered
    <3> QED
      BY <1>0, <3>1, <3>2 DEF Checked
  <2> QED
    BY <2>1, <2>2, <2>3, <2>4 DEF TakesScope, Opens, StreamBreaks, OpenFails
<1>2. ASSUME NEW g \in Grids PROVE Held(g)'
  <2>1. Held(g)
    BY DEF ChecksHold
  <2> QED
    BY <1>0, <1>1, <2>1, HeldKept
<1> QED
  BY <1>2 DEF ChecksHold

LEMMA SwapHolds ==
    ASSUME WatchBase, ChecksHold, Swap
    PROVE  ChecksHold'
<1>0. /\ UNCHANGED <<list, watched, served, sourceDark, holds, cued>> /\ cur' = next /\ next.open
      /\ missed' = (missed \cup (cur.told \ next.told)) \ Added
  BY DEF Swap
<1>1. \A c \in Viewers : jobs'[c] = jobs[c]
  BY SwapType, WatchAssumption DEF WatchAssumption, Workers
<1>2. ASSUME NEW g \in Grids PROVE Checked(g)' => Checked(g)
  <2> SUFFICES ASSUME Checked(g)' PROVE Checked(g)
    OBVIOUS
  <2>1. g \notin Added /\ jobs'[g] = jobs[g] /\ jobs[g].at = "idle"
    BY SwapType DEF Checked, Workers
  <2>2. g \in loop.scope /\ g \in watched
    BY <2>1, SwapType DEF Checked, Covered, Added
  <2>3. g \notin missed /\ g \notin cur.told /\ g \notin next.told
    BY <1>0, <2>1 DEF Checked
  <2> QED
    BY <2>1, <2>2, <2>3, SwapType DEF Checked, Covered
<1>3. ASSUME NEW g \in Grids PROVE Held(g)'
  <2>1. Held(g)
    BY DEF ChecksHold
  <2> QED
    BY <1>0, <1>1, <1>2, <2>1, HeldKept
<1> QED
  BY <1>3 DEF ChecksHold

LEMMA CheckEndsHolds ==
    ASSUME WatchBase, ChecksHold, CheckEnds
    PROVE  ChecksHold'
<1>0. /\ UNCHANGED <<list, cur, next, jobs, served, sourceDark, holds, missed>>
      /\ moved' = {} /\ watched' = loop.scope /\ loop.at = "checking"
      /\ moved \subseteq Grids /\ Cue(moved) /\ cued \in [Viewers -> SUBSET Grids]
      /\ loop'.at = "following"
  BY DEF CheckEnds, WatchBase, WatchTypeOK
<1>1. \A c \in Viewers : cued'[c] = cued[c] \cup moved
  BY <1>0, CueType
<1>2. Covered' = Covered
  BY <1>0 DEF Covered
<1>3. ASSUME NEW g \in Grids PROVE Held(g)'
  <2>1. CASE g \in moved
    BY <1>1, <2>1, CuedIsHeld
  <2>2. CASE g \notin moved
    <3>1. Checked(g)' => Checked(g)
      BY <1>0, <1>2, <2>2 DEF Checked
    <3>2. Held(g)
      BY DEF ChecksHold
    <3> QED
      BY <1>0, <1>1, <3>1, <3>2, HeldKept
  <2> QED
    BY <2>1, <2>2
<1> QED
  BY <1>3 DEF ChecksHold

LEMMA TakesHolds ==
    ASSUME NEW h \in Grids, WatchBase, ChecksHold, Takes(h)
    PROVE  ChecksHold'
<1>0. UNCHANGED <<list, loop, watched, next, moved, served, sourceDark, holds, cued, missed>>
  BY DEF Takes
<1>1. /\ jobs'[h].at = "asked" /\ cur'.open = cur.open /\ cur'.told = cur.told \ {h}
      /\ \A w \in Workers \ {h} : jobs'[w] = jobs[w]
  BY TakesType
<1>2. \A c \in Viewers : jobs'[c] = jobs[c]
  BY <1>1, WatchAssumption DEF WatchAssumption, Workers
<1>3. ASSUME NEW g \in Grids PROVE Held(g)'
  <2>1. Covered' = Covered
    BY <1>0 DEF Covered
  <2>2. Checked(g)' => g # h
    BY <1>1 DEF Checked
  <2>3. g # h => jobs'[g] = jobs[g]
    BY <1>1 DEF Workers
  <2>4. Checked(g)' => Checked(g)
    BY <1>0, <1>1, <2>1, <2>2, <2>3 DEF Checked
  <2>5. Held(g)
    BY DEF ChecksHold
  <2> QED
    BY <1>0, <1>2, <2>4, <2>5, HeldKept
<1> QED
  BY <1>3 DEF ChecksHold

LEMMA AnnouncesHolds ==
    ASSUME WatchBase, ChecksHold, WriteAnnounces
    PROVE  ChecksHold'
<1>0. /\ UNCHANGED <<list, loop, watched, cur, next, jobs, moved, sourceDark, holds, missed>>
      /\ writing \in Grids /\ Cue({writing}) /\ cued \in [Viewers -> SUBSET Grids]
      /\ \A g \in Grids \ {writing} : served'[g] = served[g]
  BY DEF WriteAnnounces, WatchBase, WatchTypeOK
<1>1. cued' = [c \in Viewers |-> cued[c] \cup {writing}]
  BY <1>0 DEF Cue
<1>2. ASSUME NEW g \in Grids PROVE Held(g)'
  <2>1. CASE g = writing
    BY <1>1, <2>1, CuedIsHeld
  <2>2. CASE g # writing
    <3>1. Checked(g)' => Checked(g)
      BY <1>0 DEF Checked, Covered
    <3>2. Held(g) /\ served'[g].last = served[g].last
      BY <1>0, <2>2 DEF ChecksHold
    <3>3. \A c \in Viewers : cued[c] \subseteq cued'[c]
      BY <1>1
    <3> QED
      BY <1>0, <3>1, <3>2, <3>3, HeldKept
  <2> QED
    BY <2>1, <2>2
<1> QED
  BY <1>2 DEF ChecksHold

LEMMA ChecksHoldKept ==
    ASSUME WatchBase, ChecksAreNow, HeldIsNoted, ChecksHold, [WatchNext]_watchVars
    PROVE  ChecksHold'
<1>1. CASE UNCHANGED watchVars \/ \E gs \in SUBSET Grids : SetView(gs)
  <2>1. UNCHANGED <<list, loop, watched, cur, next, jobs, moved, served, sourceDark, holds, cued, missed>>
    BY <1>1 DEF watchVars, SetView
  <2> QED
    BY <2>1 DEF ChecksHold, Held, Checked, Covered, HoldsNow, OldIsRaced, Old
<1> QED
  BY <1>1, RelistHolds, AnswersHold, ReadsHold, ReadSettlesHold, CheckSettlesHold, ScopeHolds, SwapHolds,
     CheckEndsHolds, TakesHolds, AnnouncesHolds DEF WatchNext

LEMMA WatchInitHolds == WatchInit => Watching
<1> SUFFICES ASSUME WatchInit PROVE Watching
  OBVIOUS
<1>0. /\ list \in [Grids -> Listings] /\ shown = {} /\ loop = [at |-> "idle", scope |-> {}, added |-> {}]
      /\ watched = {} /\ cur = NoStream /\ next = NoStream
      /\ jobs = [w \in Workers |-> NoJob] /\ moved = {}
      /\ served = [g \in Grids |-> [sums |-> {}, last |-> Unread]]
      /\ sourceDark = FALSE /\ writing = NoGrid
      /\ holds = [c \in Viewers |-> [g \in Grids |-> Unread]] /\ cued = [c \in Viewers |-> {}]
      /\ changes = 0 /\ views = 0 /\ reads = 0 /\ faults = 0 /\ missed = {}
  BY DEF WatchInit
<1>1. NoStream \in Stream /\ NoStream.told = {} /\ NoStream.covers = {} /\ ~NoStream.open /\ NoJob \in Job
  BY JobType DEF Stream, NoStream
<1>2. Viewers \subseteq Workers /\ Grids \subseteq Workers /\ NoJob.at = "idle" /\ Unread # Dark
  BY WatchAssumption DEF WatchAssumption, Workers, NoJob
<1>3. WatchTypeOK
  <2>1. served \in [Grids -> [sums : SUBSET Sums, last : Sums \cup {Unread}]]
    BY <1>0
  <2>2. holds \in [Viewers -> [Grids -> Sums \cup {Unread}]] /\ cued \in [Viewers -> SUBSET Grids]
    BY <1>0
  <2>3. jobs \in [Workers -> Job]
    BY <1>0, <1>1
  <2>4. /\ loop \in [at : {"idle", "opening", "checking", "following"},
                     scope : SUBSET Grids, added : SUBSET Grids]
        /\ loop.at = "idle"
    BY <1>0
  <2>5. /\ changes \in 0..MaxChanges /\ views \in 0..MaxViews
        /\ reads \in 0..MaxReads /\ faults \in 0..MaxFaults
    BY <1>0, WatchAssumption DEF WatchAssumption
  <2>6. /\ shown \subseteq Grids /\ watched \subseteq Grids /\ moved \subseteq Grids /\ missed \subseteq Grids
        /\ cur \in Stream /\ next \in Stream /\ next = NoStream /\ moved = {}
        /\ sourceDark \in BOOLEAN /\ writing \in Grids \cup {NoGrid}
    BY <1>0, <1>1
  <2> QED
    BY <1>0, <2>1, <2>2, <2>3, <2>4, <2>5, <2>6 DEF WatchTypeOK
<1>4. \A w \in Workers : jobs[w] = NoJob
  BY <1>0
<1>5. JobsKnown
  BY <1>2, <1>4 DEF JobsKnown
<1>6. Followed
  BY <1>0, <1>1, <1>2, <1>4 DEF Followed
<1>7. ChecksAreNow
  BY <1>2, <1>4 DEF ChecksAreNow
<1>8. HeldIsNoted
  BY <1>0 DEF HeldIsNoted
<1>9. ChecksHold
  BY <1>0 DEF ChecksHold, Held, Checked, Covered
<1>10. DarkKnown /\ DarkEnds
  BY <1>0, <1>2, <1>4 DEF DarkKnown, DarkEnds
<1> QED
  BY <1>3, <1>5, <1>6, <1>7, <1>8, <1>9, <1>10 DEF Watching

LEMMA WatchingKept ==
    ASSUME Watching, [WatchNext]_watchVars
    PROVE  Watching'
<1>1. WatchBase
  BY DEF Watching, WatchBase
<1>2. WatchBase'
  BY <1>1, BaseKept
<1>3. ChecksAreNow' /\ HeldIsNoted' /\ DarkKnown' /\ DarkEnds'
  BY <1>1, ChecksAreNowKept, HeldIsNotedKept, DarkKept DEF Watching
<1>4. ChecksHold'
  BY <1>1, ChecksHoldKept DEF Watching
<1> QED
  BY <1>2, <1>3, <1>4 DEF Watching, WatchBase

(* A change of a grid some client shows reaches every client that has read *)
(* it, whatever order its read, the check and the stream's news came in,   *)
(* unless no stream would ever tell of it (internal/pluginhost/watch.go).  *)
THEOREM ShownStaysCurrent == WatchSpec => []ShownIsCurrent
<1>1. Watching => ShownIsCurrent
  <2> SUFFICES ASSUME Watching, Rest, ~sourceDark, NEW c \in Viewers, NEW g \in shown \ missed, holds[c][g] # Dark
               PROVE  Current(c, g)
    BY DEF ShownIsCurrent
  <2>1. /\ loop.scope = shown /\ loop.at = "following" /\ shown \subseteq Grids /\ next = NoStream
        /\ watched = loop.scope /\ cur.told = {} /\ moved = {}
    BY DEF Rest, Watching, Followed, WatchTypeOK
  <2>2. jobs[g].at = "idle" /\ jobs[c] = NoJob /\ g \in Grids
    BY <2>1 DEF Rest, Workers, Watching, JobsKnown
  <2>3. Checked(g)
    BY <2>1, <2>2 DEF Checked, Covered, NoStream
  <2>4. HoldsNow(g)
    BY <2>2, <2>3 DEF Watching, ChecksHold, Held
  <2>5. jobs[c].of # g
    BY <2>2, WatchAssumption DEF WatchAssumption, NoJob
  <2> QED
    BY <2>4, <2>5 DEF HoldsNow, Current
<1> QED
  BY <1>1, WatchInitHolds, WatchingKept, PTL DEF WatchSpec

(* A client left with the rows made up for an outage hears of its end.     *)
THEOREM OutageEndIsHeard == WatchSpec => []DarkEnds
<1>1. Watching => DarkEnds
  BY DEF Watching
<1> QED
  BY <1>1, WatchInitHolds, WatchingKept, PTL DEF WatchSpec
=============================================================================
