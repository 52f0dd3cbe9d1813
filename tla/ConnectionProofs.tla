-------------------------- MODULE ConnectionProofs --------------------------
EXTENDS Connection, TLAPS

Noted == {"up", "down", "mismatch", "disabled"}

(* A learn past its call has a transport, and every transport met was      *)
(* dialed; one that was dialed has its fan-in.                             *)
Placed ==
    /\ live \in dialed \cup {None}
    /\ \A x \in Tasks : task[x].lc \in dialed \cup {None}
    /\ \A x \in Learns : task[x].at \in {"counts", "looks", "asks", "stores", "verifies"}
                            => task[x].lc # None
    /\ \A t \in Transports : t \in dialed <=> task[t].at # "idle"
    /\ \A x \in Tasks : /\ task[x].at \in {"stores", "verifies"} => task[x].got \in Homes
                        /\ task[x].at = "notes" => task[x].got \in Noted

(* The switch is thrown once, takes the transport and closes it; nothing   *)
(* is dialed under it or after Close.                                      *)
Carries ==
    /\ NoTransportLeaks
    /\ task[Switch].at \in {"idle", "takes"} => task[Switch].lc = None
    /\ Closed => live = None
    /\ off => closing = "no"
    /\ off => task[Switch].at # "idle"
    /\ task[Switch].at # "idle" => off \/ closing # "no"
    /\ off /\ task[Switch].at # "takes" => live = None
    /\ off /\ task[Switch].at \notin {"takes", "shuts", "notes"} => health = "disabled"
    /\ closing = "ended" => \A t \in dialed : task[t].at = "over"

(* Where nothing crossed, one task at most has news, and it is of what is  *)
(* recorded.                                                               *)
Tidings ==
    closing = "no" /\ ~off /\ ~crossed =>
        /\ \A x, y \in Telling : x = y
        /\ Telling = {} => told = IF health = "up" THEN "up" ELSE "down"
        /\ \A x \in Telling : task[x].at = IF health = "up" THEN "tellsUp" ELSE "tellsDown"

(* Where no two first learns ran at once: one at most looks for a landing, *)
(* and only while none is known; what every other learn compares with is   *)
(* the landing stored.                                                     *)
Bound ==
    ~raced =>
        /\ \A x, y \in FirstLearns : x = y
        /\ known # None => stored = known /\ FirstLearns = {}
        /\ known = None /\ stored # None => FirstLearns # {}
        /\ \A x \in FirstLearns :
              /\ task[x].at \in {"asks", "stores"} => stored = None
              /\ task[x].at = "verifies" => stored = task[x].got
        /\ \A x \in Learns : task[x].at \in {"asks", "stores", "verifies"} /\ task[x].root # None =>
              /\ task[x].root = known /\ task[x].at # "stores"
              /\ task[x].at = "verifies" => task[x].got = known

Core ==
    /\ far \in Homes /\ faults \in 0..MaxFaults
    /\ live \in Transports \cup {None}
    /\ shut \subseteq dialed /\ dialed \subseteq Transports
    /\ verified \subseteq dialed /\ fetching \subseteq dialed
    /\ stored \in Homes \cup {None} /\ known \in Homes \cup {None}
    /\ health \in {"up", "down", "mismatch", "disabled"} /\ told \in {"up", "down"}
    /\ closing \in {"no", "registry", "closed", "ended"}
    /\ task \in [Tasks -> Task]

Flags == off \in BOOLEAN /\ raced \in BOOLEAN /\ crossed \in BOOLEAN /\ refused \in BOOLEAN

Inv == Core /\ Placed /\ Carries /\ Tidings /\ Bound

Moves(x, at, lc, root, got) ==
    /\ task' \in [Tasks -> Task]
    /\ task'[x].at = at /\ task'[x].lc = lc /\ task'[x].root = root /\ task'[x].got = got
    /\ \A y \in Tasks \ {x} : task'[y] = task[y]

\* What the constants say of the tasks.
LEMMA Learners ==
    /\ Learns \cap Transports = {} /\ Switch \notin Learns /\ Switch \notin Transports
    /\ Tasks = Learns \cup Transports \cup {Switch} /\ Boot \in Learns /\ Kicks \subseteq Learns
    /\ Boot \notin Kicks /\ None \notin Transports \cup Homes
    /\ MaxFaults \in Nat
    /\ Learns \subseteq Tasks /\ Transports \subseteq Tasks /\ Switch \in Tasks
BY ConnectionAssumption DEF ConnectionAssumption, Learns, Tasks

\* A step that leaves the landing and whoever is learning it alone keeps it bound.
LEMMA BoundStays ==
    ASSUME Bound, UNCHANGED landing, FirstLearns' = FirstLearns, FirstLearns \subseteq Learns,
           \A y \in Learns : task'[y] = task[y] \/ task'[y].at \notin {"asks", "stores", "verifies"},
           \A y \in FirstLearns : task'[y] = task[y]
    PROVE  Bound'
BY DEF Bound, landing

\* What places every task after a step.
LEMMA PlacedNow ==
    ASSUME live' \in dialed' \cup {None},
           \A x \in Tasks : task'[x].lc \in dialed' \cup {None},
           \A x \in Learns : task'[x].at \in {"counts", "looks", "asks", "stores", "verifies"}
                               => task'[x].lc # None,
           \A t \in Transports : t \in dialed' <=> task'[t].at # "idle",
           \A x \in Tasks : /\ task'[x].at \in {"stores", "verifies"} => task'[x].got \in Homes
                            /\ task'[x].at = "notes" => task'[x].got \in Noted
    PROVE  Placed'
BY DEF Placed

\* A learn past its call that goes on keeps every task in its place.
LEMMA PlacedStays ==
    ASSUME Placed, UNCHANGED <<live, dialed>>, NEW x \in Learns,
           task[x].at = "asks", task'[x].lc = task[x].lc,
           \/ task'[x].at \in {"stores", "verifies"} /\ task'[x].got \in Homes
           \/ task'[x].at = "notes" /\ task'[x].got \in Noted,
           \A y \in Tasks \ {x} : task'[y] = task[y]
    PROVE  Placed'
BY Learners DEF Placed

\* Every step of a task keeps the invariant.
LEMMA NextKeeps == ASSUME Inv, ConnNext PROVE Inv'
<1> USE DEF Inv
<1>1. ASSUME NEW h \in Homes, FarTurns(h)
      PROVE  Inv'
  <2> USE <1>1, Learners DEF FarTurns, Fault
  <2>0. Switch \in Tasks /\ task[Switch] \in Task
    BY DEF Core
  <2>1. task' = task
    OBVIOUS
  <2>2. Core'
    BY <2>0, <2>1 DEF Core, carried, landing, reach, ends
  <2>3. Placed'
    BY <2>0, <2>1 DEF Placed, Noted, Core, carried, landing, reach, ends
  <2>4. Carries'
    BY <2>0, <2>1 DEF Carries, NoTransportLeaks, Closed, Placed, Core, carried, landing, reach, ends
  <2>9. Telling' = Telling /\ \A y \in Telling : task'[y] = task[y]
    BY <2>1 DEF Telling
  <2>5. Tidings'
    BY <2>9 DEF Tidings, carried, landing, reach, ends
  <2>6. Bound'
    BY <2>0, <2>1 DEF Bound, FirstLearns, Core, carried, landing, reach, ends
  <2>7. QED
    BY <2>2, <2>3, <2>4, <2>5, <2>6 DEF Inv
<1>2. ASSUME NEW x \in Learns, FindsLive(x)
      PROVE  Inv'
  <2> USE <1>2, Learners DEF FindsLive, Calls, Enters
  <2>0. x \in Tasks /\ task[x] \in Task
    BY DEF Core
  <2>a. task[x].at \in {"starts", "idle"} /\ Enters(x) \in {"counts", "looks"}
    OBVIOUS
  <2>1. Moves(x, Enters(x), live, task[x].root, task[x].got)
    BY <2>0 DEF Core, Task, Moves
  <2>2. Core'
    BY <2>0, <2>1, <2>a DEF Moves, Core, carried, landing, reach, ends
  <2>3. Placed'
    BY <2>0, <2>1, <2>a DEF Moves, Placed, Noted, Core, carried, landing, reach, ends
  <2>4. Carries'
    BY <2>0, <2>1, <2>a DEF Moves, Carries, NoTransportLeaks, Closed, Placed, Core, carried, landing, reach, ends
  <2>8. task[x].at \notin {"tellsUp", "tellsDown"} /\ task'[x].at \notin {"tellsUp", "tellsDown"}
    BY <2>0, <2>1, <2>a DEF Moves, Placed
  <2>9. Telling' = Telling /\ \A y \in Telling : task'[y] = task[y]
    BY <2>0, <2>1, <2>8 DEF Moves, Telling
  <2>5. Tidings'
    BY <2>9 DEF Moves, Tidings, carried, landing, reach, ends
  <2>6. Bound'
    BY <2>0, <2>1, <2>a DEF Moves, Bound, FirstLearns, Core, carried, landing, reach, ends
  <2>7. QED
    BY <2>2, <2>3, <2>4, <2>5, <2>6 DEF Inv
<1>3. ASSUME NEW x \in Learns, NEW t \in Transports, Dials(x, t)
      PROVE  Inv'
  <2> USE <1>3, Learners DEF Dials, Calls, Enters, Closed
  <2>0. x \in Tasks /\ task[x] \in Task
    BY DEF Core
  <2>a. t \in Tasks /\ x # t /\ task[t] \in Task /\ Enters(x) \in {"counts", "looks"}
    BY DEF Core
  <2>b. task' \in [Tasks -> Task]
    BY <2>0, <2>a DEF Core, Task
  <2>1. /\ task' \in [Tasks -> Task]
        /\ task'[x].at = Enters(x) /\ task'[x].lc = t
        /\ task'[x].root = task[x].root /\ task'[x].got = task[x].got
        /\ task'[t].at = "healthy" /\ task'[t].lc = task[t].lc
        /\ task'[t].root = task[t].root /\ task'[t].got = task[t].got
        /\ \A y \in Tasks \ {x, t} : task'[y] = task[y]
    BY <2>0, <2>a, <2>b DEF Core, Task
  <2>2. Core'
    BY <2>0, <2>1, <2>a DEF Core, carried, landing, reach, ends
  <2>3. Placed'
    <3>1. /\ live' = t /\ dialed' = dialed \cup {t} /\ Placed
          /\ task[x].at \in {"starts", "idle"}
      BY DEF Inv
    <3> HIDE <1>3
    <3>2. \A y \in Tasks : task'[y].lc \in dialed' \cup {None}
      BY <2>1, <2>a, <3>1 DEF Placed
    <3>3. \A y \in Learns : task'[y].at \in {"counts", "looks", "asks", "stores", "verifies"}
                               => task'[y].lc # None
      BY <2>1, <2>a, <3>1 DEF Placed
    <3>4. \A u \in Transports : u \in dialed' <=> task'[u].at # "idle"
      BY <2>0, <2>1, <2>a, <3>1 DEF Placed
    <3>5. \A y \in Tasks : /\ task'[y].at \in {"stores", "verifies"} => task'[y].got \in Homes
                           /\ task'[y].at = "notes" => task'[y].got \in Noted
      BY <2>1, <2>a, <3>1 DEF Placed
    <3>6. live' \in dialed' \cup {None}
      BY <3>1
    <3>7. QED
      BY <3>2, <3>3, <3>4, <3>5, <3>6, PlacedNow
  <2>4. Carries'
    BY <2>0, <2>1, <2>a DEF Carries, NoTransportLeaks, Closed, Placed, Core, carried, landing, reach, ends
  <2>8. task[x].at \notin {"tellsUp", "tellsDown"} /\ task[t].at \notin {"tellsUp", "tellsDown"}
    BY <2>0, <2>a DEF Placed
  <2>9. Telling' = Telling /\ \A y \in Telling : task'[y] = task[y]
    BY <2>0, <2>a, <2>1, <2>8 DEF Telling
  <2>5. Tidings'
    BY <2>9 DEF Tidings, carried, landing, reach, ends
  <2>e. FirstLearns' = FirstLearns /\ FirstLearns \subseteq Learns /\ x \notin FirstLearns
    BY <2>0, <2>1, <2>a DEF FirstLearns
  <2>c. \A y \in Learns \ {x} : task'[y] = task[y]
    BY <2>0, <2>1, <2>a
  <2>d. task'[x].at \notin {"asks", "stores", "verifies"}
    BY <2>0, <2>1, <2>a
  <2>f. UNCHANGED landing /\ Bound
    BY DEF Inv
  <2>6. Bound'
    BY <2>f, <2>e, <2>c, <2>d, BoundStays
  <2>7. QED
    BY <2>2, <2>3, <2>4, <2>5, <2>6 DEF Inv
<1>4. ASSUME NEW x \in Learns, DialFails(x)
      PROVE  Inv'
  <2> USE <1>4, Learners DEF DialFails, Calls, NotesNext, Fault, Closed
  <2>0. x \in Tasks /\ task[x] \in Task
    BY DEF Core
  <2>1. Moves(x, "notes", task[x].lc, task[x].root, "down")
    BY <2>0 DEF Core, Task, Moves
  <2>2. Core'
    BY <2>0, <2>1 DEF Moves, Core, carried, landing, reach, ends
  <2>3. Placed'
    BY <2>0, <2>1 DEF Moves, Placed, Noted, Core, carried, landing, reach, ends
  <2>4. Carries'
    BY <2>0, <2>1 DEF Moves, Carries, NoTransportLeaks, Closed, Placed, Core, carried, landing, reach, ends
  <2>8. task[x].at \notin {"tellsUp", "tellsDown"} /\ task'[x].at \notin {"tellsUp", "tellsDown"}
    BY <2>0, <2>1 DEF Moves, Placed
  <2>9. Telling' = Telling /\ \A y \in Telling : task'[y] = task[y]
    BY <2>0, <2>1, <2>8 DEF Moves, Telling
  <2>5. Tidings'
    BY <2>9 DEF Moves, Tidings, carried, landing, reach, ends
  <2>6. Bound'
    BY <2>0, <2>1 DEF Moves, Bound, FirstLearns, Core, carried, landing, reach, ends
  <2>7. QED
    BY <2>2, <2>3, <2>4, <2>5, <2>6 DEF Inv
<1>5. ASSUME NEW x \in Learns, RefusesDial(x)
      PROVE  Inv'
  <2> USE <1>5, Learners DEF RefusesDial, Calls, Closed, Over, Idle
  <2>0. x \in Tasks /\ task[x] \in Task
    BY DEF Core
  <2>1. Moves(x, IF x = Boot THEN "over" ELSE "idle", None, None, None)
    BY <2>0 DEF Core, Task, Moves
  <2>2. Core'
    BY <2>0, <2>1 DEF Moves, Core, carried, landing, reach, ends
  <2>3. Placed'
    BY <2>0, <2>1 DEF Moves, Placed, Noted, Core, carried, landing, reach, ends
  <2>4. Carries'
    BY <2>0, <2>1 DEF Moves, Carries, NoTransportLeaks, Closed, Placed, Core, carried, landing, reach, ends
  <2>8. task[x].at \notin {"tellsUp", "tellsDown"} /\ task'[x].at \notin {"tellsUp", "tellsDown"}
    BY <2>0, <2>1 DEF Moves, Placed
  <2>9. Telling' = Telling /\ \A y \in Telling : task'[y] = task[y]
    BY <2>0, <2>1, <2>8 DEF Moves, Telling
  <2>5. Tidings'
    BY <2>9 DEF Moves, Tidings, carried, landing, reach, ends
  <2>6. Bound'
    BY <2>0, <2>1 DEF Moves, Bound, FirstLearns, Core, carried, landing, reach, ends
  <2>7. QED
    BY <2>2, <2>3, <2>4, <2>5, <2>6 DEF Inv
<1>6. ASSUME NEW x \in Learns, Looks(x), task[x].lc \in verified
      PROVE  Inv'
  <2>e. task' = [task EXCEPT ![x] = [Idle EXCEPT !.at = IF x = Boot THEN "over" ELSE "idle"]]
        /\ fetching' = (IF x # Boot /\ task[x].lc # None THEN fetching \ {live} ELSE fetching) /\ UNCHANGED raced
    BY <1>6, Learners DEF Looks, Over, To, landing
  <2>f. /\ task[x].at = "looks"
        /\ fetching' \subseteq fetching
        /\ UNCHANGED <<far, faults, live, dialed, shut, verified, stored, known, reach, ends, refused>>
    BY <1>6, <2>e DEF Looks, Over, To, landing
  <2> USE <2>f, Learners
  <2>0. x \in Tasks /\ task[x] \in Task
    BY <1>6 DEF Core
  <2>1. Moves(x, IF x = Boot THEN "over" ELSE "idle", None, None, None)
    BY <2>0, <2>e DEF Core, Task, Moves, Idle
  <2>2. Core'
    BY <2>0, <2>1 DEF Moves, Placed, Noted, Core, carried, landing, reach, ends
  <2>3. Placed'
    BY <2>0, <2>1 DEF Moves, Placed, Noted, Core, carried, landing, reach, ends
  <2>4. Carries'
    BY <2>0, <2>1 DEF Moves, Carries, NoTransportLeaks, Closed, Placed, Core, carried, landing, reach, ends
  <2>8. task[x].at \notin {"tellsUp", "tellsDown"} /\ task'[x].at \notin {"tellsUp", "tellsDown"}
    BY <2>0, <2>1 DEF Moves, Placed
  <2>9. Telling' = Telling /\ \A y \in Telling : task'[y] = task[y]
    BY <2>0, <2>1, <2>8 DEF Moves, Telling
  <2>5. Tidings'
    BY <2>9 DEF Moves, Tidings, carried, landing, reach, ends
  <2>r. raced' = raced
    BY <2>e
  <2>b. FirstLearns' = FirstLearns /\ FirstLearns \subseteq Learns /\ x \notin FirstLearns
    BY <2>0, <2>1 DEF Moves, FirstLearns
  <2>c. \A y \in Learns \ {x} : task'[y] = task[y]
    BY <2>0, <2>1 DEF Moves
  <2>d. task'[x].at \notin {"asks", "stores", "verifies"}
    BY <2>0, <2>1 DEF Moves
  <2>6. Bound'
    BY <2>0, <2>1, <2>b, <2>c, <2>d, <2>r DEF Moves, Bound, Core, carried, landing, reach, ends
  <2>7. QED
    BY <2>2, <2>3, <2>4, <2>5, <2>6 DEF Inv
<1>7. ASSUME NEW x \in Learns, Looks(x), task[x].lc \notin verified
      PROVE  Inv'
  <2>e. task' = [task EXCEPT ![x].at = "asks", ![x].root = known] /\ UNCHANGED fetching
        /\ raced' = (raced \/ (known = None /\ FirstLearns # {}))
    BY <1>7, Learners DEF Looks, Over, To, landing
  <2>f. /\ task[x].at = "looks"
        /\ fetching' \subseteq fetching
        /\ UNCHANGED <<far, faults, live, dialed, shut, verified, stored, known, reach, ends, refused>>
    BY <1>7, <2>e DEF Looks, Over, To, landing
  <2> USE <2>f, Learners
  <2>0. x \in Tasks /\ task[x] \in Task
    BY <1>7 DEF Core
  <2>1. Moves(x, "asks", task[x].lc, known, task[x].got)
    BY <2>0, <2>e DEF Core, Task, Moves, Idle
  <2>2. Core'
    BY <2>0, <2>1 DEF Moves, Placed, Noted, Core, carried, landing, reach, ends
  <2>3. Placed'
    BY <2>0, <2>1 DEF Moves, Placed, Noted, Core, carried, landing, reach, ends
  <2>4. Carries'
    BY <2>0, <2>1 DEF Moves, Carries, NoTransportLeaks, Closed, Placed, Core, carried, landing, reach, ends
  <2>8. task[x].at \notin {"tellsUp", "tellsDown"} /\ task'[x].at \notin {"tellsUp", "tellsDown"}
    BY <2>0, <2>1 DEF Moves, Placed
  <2>9. Telling' = Telling /\ \A y \in Telling : task'[y] = task[y]
    BY <2>0, <2>1, <2>8 DEF Moves, Telling
  <2>5. Tidings'
    BY <2>9 DEF Moves, Tidings, carried, landing, reach, ends
  <2>a. ~raced' => ~raced /\ (known = None => FirstLearns = {})
    BY <1>7 DEF Looks
  <2>b. FirstLearns' = IF known = None THEN FirstLearns \cup {x} ELSE FirstLearns
    BY <2>0, <2>1 DEF Moves, FirstLearns
  <2>6. Bound'
    BY <2>0, <2>1, <2>a, <2>b DEF Moves, Bound, Core, carried, landing, reach, ends
  <2>7. QED
    BY <2>2, <2>3, <2>4, <2>5, <2>6 DEF Inv
<1>8. ASSUME NEW x \in Learns, Answered(x)
      PROVE  Inv'
  <2> USE <1>8, Learners DEF Answered
  <2>0. x \in Tasks /\ task[x] \in Task
    BY DEF Core
  <2>1. LET root == task[x].root IN
          Moves(x, IF root = None THEN "stores" ELSE IF root = far THEN "verifies" ELSE "notes",
                task[x].lc, root, IF root \in {None, far} THEN far ELSE "mismatch")
    BY <2>0 DEF Core, Task, Moves
  <2>2. Core'
    BY <2>0, <2>1 DEF Moves, Core, carried, landing, reach, ends
  <2>3. Placed'
    <3>1. /\ task[x].at = "asks" /\ task'[x].lc = task[x].lc
          /\ \/ task'[x].at \in {"stores", "verifies"} /\ task'[x].got = far
             \/ task'[x].at = "notes" /\ task'[x].got = "mismatch"
          /\ \A y \in Tasks \ {x} : task'[y] = task[y]
      BY <2>1 DEF Moves
    <3>2. Placed /\ UNCHANGED <<live, dialed>>
      BY DEF Inv, carried
    <3>3. far \in Homes /\ "mismatch" \in Noted
      BY DEF Core, Noted
    <3> HIDE <1>8
    <3>4. \/ task'[x].at \in {"stores", "verifies"} /\ task'[x].got \in Homes
          \/ task'[x].at = "notes" /\ task'[x].got \in Noted
      BY <3>1, <3>3
    <3>5. QED
      BY <3>1, <3>2, <3>4, PlacedStays
  <2>4. Carries'
    BY <2>0, <2>1 DEF Moves, Carries, NoTransportLeaks, Closed, Placed, Core, carried, landing, reach, ends
  <2>8. task[x].at \notin {"tellsUp", "tellsDown"} /\ task'[x].at \notin {"tellsUp", "tellsDown"}
    BY <2>0, <2>1 DEF Moves, Placed
  <2>9. Telling' = Telling /\ \A y \in Telling : task'[y] = task[y]
    BY <2>0, <2>1, <2>8 DEF Moves, Telling
  <2>5. Tidings'
    BY <2>9 DEF Moves, Tidings, carried, landing, reach, ends
  <2>6. Bound'
    <3>1. /\ task'[x].root = task[x].root /\ task[x].at = "asks"
          /\ task[x].root = None => task'[x].at = "stores"
          /\ task[x].root # None => task'[x].at = "notes" \/ (task'[x].at = "verifies" /\ task'[x].got = task[x].root)
          /\ \A y \in Tasks \ {x} : task'[y] = task[y]
      BY <2>1 DEF Moves
    <3>2. FirstLearns' = FirstLearns
      BY <3>1 DEF FirstLearns
    <3>3. UNCHANGED <<stored, known, raced>> /\ Bound
      BY DEF landing, Inv
    <3> SUFFICES ASSUME ~raced PROVE Bound'
      BY <3>3 DEF Bound
    <3>4. \A y \in FirstLearns :
             /\ task'[y].at \in {"asks", "stores"} => stored = None
             /\ task'[y].at = "verifies" => stored = task'[y].got
      <4>1. \A y \in FirstLearns : /\ task[y].at \in {"asks", "stores"} => stored = None
                                   /\ task[y].at = "verifies" => stored = task[y].got
        BY <3>3 DEF Bound
      <4>2. \A y \in FirstLearns : y = x \/ task'[y] = task[y]
        BY <3>1 DEF FirstLearns
      <4>3. x \in FirstLearns => task'[x].at = "stores"
        BY <3>1 DEF FirstLearns
      <4> HIDE <1>8
      <4>4. QED
        BY <3>1, <4>1, <4>2, <4>3
    <3>5. \A y \in Learns : task'[y].at \in {"asks", "stores", "verifies"} /\ task'[y].root # None =>
             /\ task'[y].root = known /\ task'[y].at # "stores"
             /\ task'[y].at = "verifies" => task'[y].got = known
      <4>1. \A y \in Learns : task[y].at \in {"asks", "stores", "verifies"} /\ task[y].root # None =>
               /\ task[y].root = known /\ task[y].at # "stores"
               /\ task[y].at = "verifies" => task[y].got = known
        BY <3>3 DEF Bound
      <4>2. \A y \in Learns \ {x} : task'[y] = task[y]
        BY <3>1
      <4>3. task[x].root # None => task[x].root = known
        BY <3>1, <4>1
      <4> HIDE <1>8
      <4>4. QED
        BY <3>1, <4>1, <4>2, <4>3
    <3>6. QED
      BY <3>2, <3>3, <3>4, <3>5 DEF Bound
  <2>7. QED
    BY <2>2, <2>3, <2>4, <2>5, <2>6 DEF Inv
<1>9. ASSUME NEW x \in Learns, NotAnswered(x)
      PROVE  Inv'
  <2> USE <1>9, Learners DEF NotAnswered, NotesNext, Fault
  <2>0. x \in Tasks /\ task[x] \in Task
    BY DEF Core
  <2>1. Moves(x, "notes", task[x].lc, task[x].root, "down")
    BY <2>0 DEF Core, Task, Moves
  <2>2. Core'
    BY <2>0, <2>1 DEF Moves, Core, carried, landing, reach, ends
  <2>3. Placed'
    BY <2>0, <2>1 DEF Moves, Placed, Noted, Core, carried, landing, reach, ends
  <2>4. Carries'
    BY <2>0, <2>1 DEF Moves, Carries, NoTransportLeaks, Closed, Placed, Core, carried, landing, reach, ends
  <2>8. task[x].at \notin {"tellsUp", "tellsDown"} /\ task'[x].at \notin {"tellsUp", "tellsDown"}
    BY <2>0, <2>1 DEF Moves, Placed
  <2>9. Telling' = Telling /\ \A y \in Telling : task'[y] = task[y]
    BY <2>0, <2>1, <2>8 DEF Moves, Telling
  <2>5. Tidings'
    BY <2>9 DEF Moves, Tidings, carried, landing, reach, ends
  <2>6. Bound'
    BY <2>0, <2>1 DEF Moves, Bound, FirstLearns, Core, carried, landing, reach, ends
  <2>7. QED
    BY <2>2, <2>3, <2>4, <2>5, <2>6 DEF Inv
<1>10. ASSUME NEW x \in Learns, Stores(x)
      PROVE  Inv'
  <2> USE <1>10, Learners DEF Stores, To
  <2>0. x \in Tasks /\ task[x] \in Task
    BY DEF Core
  <2>1. Moves(x, "verifies", task[x].lc, task[x].root, task[x].got)
    BY <2>0 DEF Core, Task, Moves
  <2>2. Core'
    BY <2>0, <2>1 DEF Moves, Placed, Noted, Core, carried, landing, reach, ends
  <2>3. Placed'
    BY <2>0, <2>1 DEF Moves, Placed, Noted, Core, carried, landing, reach, ends
  <2>4. Carries'
    BY <2>0, <2>1 DEF Moves, Carries, NoTransportLeaks, Closed, Placed, Core, carried, landing, reach, ends
  <2>8. task[x].at \notin {"tellsUp", "tellsDown"} /\ task'[x].at \notin {"tellsUp", "tellsDown"}
    BY <2>0, <2>1 DEF Moves, Placed
  <2>9. Telling' = Telling /\ \A y \in Telling : task'[y] = task[y]
    BY <2>0, <2>1, <2>8 DEF Moves, Telling
  <2>5. Tidings'
    BY <2>9 DEF Moves, Tidings, carried, landing, reach, ends
  <2>6. Bound'
    BY <2>0, <2>1 DEF Moves, Bound, FirstLearns, Core, carried, landing, reach, ends
  <2>7. QED
    BY <2>2, <2>3, <2>4, <2>5, <2>6 DEF Inv
<1>11. ASSUME NEW x \in Learns, StoreFails(x)
      PROVE  Inv'
  <2> USE <1>11, Learners DEF StoreFails, NotesNext, Fault
  <2>0. x \in Tasks /\ task[x] \in Task
    BY DEF Core
  <2>1. Moves(x, "notes", task[x].lc, task[x].root, "down")
    BY <2>0 DEF Core, Task, Moves
  <2>2. Core'
    BY <2>0, <2>1 DEF Moves, Core, carried, landing, reach, ends
  <2>3. Placed'
    BY <2>0, <2>1 DEF Moves, Placed, Noted, Core, carried, landing, reach, ends
  <2>4. Carries'
    BY <2>0, <2>1 DEF Moves, Carries, NoTransportLeaks, Closed, Placed, Core, carried, landing, reach, ends
  <2>8. task[x].at \notin {"tellsUp", "tellsDown"} /\ task'[x].at \notin {"tellsUp", "tellsDown"}
    BY <2>0, <2>1 DEF Moves, Placed
  <2>9. Telling' = Telling /\ \A y \in Telling : task'[y] = task[y]
    BY <2>0, <2>1, <2>8 DEF Moves, Telling
  <2>5. Tidings'
    BY <2>9 DEF Moves, Tidings, carried, landing, reach, ends
  <2>6. Bound'
    BY <2>0, <2>1 DEF Moves, Bound, FirstLearns, Core, carried, landing, reach, ends
  <2>7. QED
    BY <2>2, <2>3, <2>4, <2>5, <2>6 DEF Inv
<1>12. ASSUME NEW x \in Learns, Verifies(x)
      PROVE  Inv'
  <2> USE <1>12, Learners DEF Verifies, NotesNext
  <2>0. x \in Tasks /\ task[x] \in Task
    BY DEF Core
  <2>1. Moves(x, "notes", task[x].lc, task[x].root, "up")
    BY <2>0 DEF Core, Task, Moves
  <2>2. Core'
    BY <2>0, <2>1 DEF Moves, Placed, Noted, Core, carried, landing, reach, ends
  <2>3. Placed'
    BY <2>0, <2>1 DEF Moves, Placed, Noted, Core, carried, landing, reach, ends
  <2>4. Carries'
    BY <2>0, <2>1 DEF Moves, Carries, NoTransportLeaks, Closed, Placed, Core, carried, landing, reach, ends
  <2>8. task[x].at \notin {"tellsUp", "tellsDown"} /\ task'[x].at \notin {"tellsUp", "tellsDown"}
    BY <2>0, <2>1 DEF Moves, Placed
  <2>9. Telling' = Telling /\ \A y \in Telling : task'[y] = task[y]
    BY <2>0, <2>1, <2>8 DEF Moves, Telling
  <2>5. Tidings'
    BY <2>9 DEF Moves, Tidings, carried, landing, reach, ends
  <2>6. Bound'
    BY <2>0, <2>1 DEF Moves, Bound, FirstLearns, Core, carried, landing, reach, ends
  <2>7. QED
    BY <2>2, <2>3, <2>4, <2>5, <2>6 DEF Inv
<1>13. ASSUME NEW x \in Kicks, CountsItself(x), task[x].lc \in verified \cup fetching
      PROVE  Inv'
  <2>e. task' = [task EXCEPT ![x] = Idle] /\ UNCHANGED fetching
    BY <1>13, Learners DEF CountsItself, Over, To, landing
  <2>f. /\ task[x].at = "counts"
        /\ fetching' \subseteq fetching \cup {task[x].lc}
        /\ UNCHANGED <<far, faults, live, dialed, shut, verified, landing, reach, ends, refused>>
    BY <1>13, <2>e DEF CountsItself, Over, To, landing
  <2> USE <2>f, Learners
  <2>0. x \in Tasks /\ task[x] \in Task
    BY <1>13 DEF Core
  <2>1. Moves(x, "idle", None, None, None)
    BY <2>0, <2>e DEF Core, Task, Moves, Idle
  <2>2. Core'
    BY <2>0, <2>1 DEF Moves, Placed, Noted, Core, carried, landing, reach, ends
  <2>3. Placed'
    BY <2>0, <2>1 DEF Moves, Placed, Noted, Core, carried, landing, reach, ends
  <2>4. Carries'
    BY <2>0, <2>1 DEF Moves, Carries, NoTransportLeaks, Closed, Placed, Core, carried, landing, reach, ends
  <2>8. task[x].at \notin {"tellsUp", "tellsDown"} /\ task'[x].at \notin {"tellsUp", "tellsDown"}
    BY <2>0, <2>1 DEF Moves, Placed
  <2>9. Telling' = Telling /\ \A y \in Telling : task'[y] = task[y]
    BY <2>0, <2>1, <2>8 DEF Moves, Telling
  <2>5. Tidings'
    BY <2>9 DEF Moves, Tidings, carried, landing, reach, ends
  <2>6. Bound'
    BY <2>0, <2>1 DEF Moves, Bound, FirstLearns, Core, carried, landing, reach, ends
  <2>7. QED
    BY <2>2, <2>3, <2>4, <2>5, <2>6 DEF Inv
<1>14. ASSUME NEW x \in Kicks, CountsItself(x), task[x].lc \notin verified \cup fetching
      PROVE  Inv'
  <2>e. fetching' = fetching \cup {task[x].lc} /\ task' = [task EXCEPT ![x].at = "starts"]
    BY <1>14, Learners DEF CountsItself, Over, To, landing
  <2>f. /\ task[x].at = "counts"
        /\ fetching' \subseteq fetching \cup {task[x].lc}
        /\ UNCHANGED <<far, faults, live, dialed, shut, verified, landing, reach, ends, refused>>
    BY <1>14, <2>e DEF CountsItself, Over, To, landing
  <2> USE <2>f, Learners
  <2>0. x \in Tasks /\ task[x] \in Task
    BY <1>14 DEF Core
  <2>1. Moves(x, "starts", task[x].lc, task[x].root, task[x].got)
    BY <2>0, <2>e DEF Core, Task, Moves, Idle
  <2>2. Core'
    BY <2>0, <2>1 DEF Moves, Placed, Noted, Core, carried, landing, reach, ends
  <2>3. Placed'
    BY <2>0, <2>1 DEF Moves, Placed, Noted, Core, carried, landing, reach, ends
  <2>4. Carries'
    BY <2>0, <2>1 DEF Moves, Carries, NoTransportLeaks, Closed, Placed, Core, carried, landing, reach, ends
  <2>8. task[x].at \notin {"tellsUp", "tellsDown"} /\ task'[x].at \notin {"tellsUp", "tellsDown"}
    BY <2>0, <2>1 DEF Moves, Placed
  <2>9. Telling' = Telling /\ \A y \in Telling : task'[y] = task[y]
    BY <2>0, <2>1, <2>8 DEF Moves, Telling
  <2>5. Tidings'
    BY <2>9 DEF Moves, Tidings, carried, landing, reach, ends
  <2>6. Bound'
    BY <2>0, <2>1 DEF Moves, Bound, FirstLearns, Core, carried, landing, reach, ends
  <2>7. QED
    BY <2>2, <2>3, <2>4, <2>5, <2>6 DEF Inv
<1>15. ASSUME NEW x \in Tasks, Notes(x), Changes((IF off THEN "disabled" ELSE task[x].got))
      PROVE  Inv'
  <2> DEFINE st == IF off THEN "disabled" ELSE task[x].got
  <2>e. task' = [task EXCEPT ![x].at = IF st = "up" THEN "tellsUp" ELSE "tellsDown"] /\ UNCHANGED fetching
    BY <1>15, Learners DEF Notes, Records, Told, To, Over, News, FirstLearnt
  <2>f. /\ task[x].at = "notes"
        /\ fetching' \subseteq fetching
        /\ health' = st /\ (~crossed' => ~crossed /\ Telling = {})
        /\ UNCHANGED <<live, dialed, shut, verified, told, far, faults, landing, ends>>
    BY <1>15, <2>e DEF Notes, Records, Told, To, Over, News, FirstLearnt
  <2>g. /\ (IF off THEN st = "disabled" ELSE st = task[x].got) /\ st \in Noted
        /\ Changes(st)
        /\ TRUE
    BY <1>15, <2>f, Learners DEF Placed, Noted
  <2> HIDE DEF st
  <2> USE <2>f, Learners
  <2>0. x \in Tasks /\ task[x] \in Task
    BY <1>15 DEF Core
  <2>1. Moves(x, IF st = "up" THEN "tellsUp" ELSE "tellsDown", task[x].lc, task[x].root, task[x].got)
    BY <2>0, <2>e DEF Core, Task, Moves, Idle
  <2>2. Core'
    BY <2>0, <2>1, <2>g DEF Moves, Placed, Noted, Core, carried, landing, reach, ends
  <2>3. Placed'
    BY <2>0, <2>1, <2>g DEF Moves, Placed, Noted, Core, carried, landing, reach, ends
  <2>4. Carries'
    BY <2>0, <2>1, <2>g DEF Moves, Carries, NoTransportLeaks, Closed, Placed, Core, carried, landing, reach, ends
  <2>5. Tidings'
    BY <2>0, <2>1, <2>g DEF Moves, Tidings, Telling, Core, Changes, FirstLearnt, carried, landing, reach, ends
  <2>6. Bound'
    BY <2>0, <2>1, <2>g DEF Moves, Bound, FirstLearns, Core, carried, landing, reach, ends
  <2>7. QED
    BY <2>2, <2>3, <2>4, <2>5, <2>6 DEF Inv
<1>16. ASSUME NEW x \in Tasks, Notes(x), ~Changes((IF off THEN "disabled" ELSE task[x].got)), FirstLearnt(x)
      PROVE  Inv'
  <2> DEFINE st == IF off THEN "disabled" ELSE task[x].got
  <2>e. task' = [task EXCEPT ![x].at = "tellsUp"] /\ UNCHANGED fetching
    BY <1>16, Learners DEF Notes, Records, Told, To, Over, News, FirstLearnt
  <2>f. /\ task[x].at = "notes"
        /\ fetching' \subseteq fetching
        /\ health' = st /\ (~crossed' => ~crossed /\ Telling = {})
        /\ UNCHANGED <<live, dialed, shut, verified, told, far, faults, landing, ends>>
    BY <1>16, <2>e DEF Notes, Records, Told, To, Over, News, FirstLearnt
  <2>g. /\ (IF off THEN st = "disabled" ELSE st = task[x].got) /\ st \in Noted
        /\ ~Changes(st)
        /\ FirstLearnt(x)
    BY <1>16, <2>f, Learners DEF Placed, Noted
  <2> HIDE DEF st
  <2> USE <2>f, Learners
  <2>0. x \in Tasks /\ task[x] \in Task
    BY <1>16 DEF Core
  <2>1. Moves(x, "tellsUp", task[x].lc, task[x].root, task[x].got)
    BY <2>0, <2>e DEF Core, Task, Moves, Idle
  <2>2. Core'
    BY <2>0, <2>1, <2>g DEF Moves, Placed, Noted, Core, carried, landing, reach, ends
  <2>3. Placed'
    BY <2>0, <2>1, <2>g DEF Moves, Placed, Noted, Core, carried, landing, reach, ends
  <2>4. Carries'
    BY <2>0, <2>1, <2>g DEF Moves, Carries, NoTransportLeaks, Closed, Placed, Core, carried, landing, reach, ends
  <2>5. Tidings'
    BY <2>0, <2>1, <2>g DEF Moves, Tidings, Telling, Core, Changes, FirstLearnt, carried, landing, reach, ends
  <2>6. Bound'
    BY <2>0, <2>1, <2>g DEF Moves, Bound, FirstLearns, Core, carried, landing, reach, ends
  <2>7. QED
    BY <2>2, <2>3, <2>4, <2>5, <2>6 DEF Inv
<1>17. ASSUME NEW x \in Learns, Notes(x), ~Changes((IF off THEN "disabled" ELSE task[x].got)), ~FirstLearnt(x)
      PROVE  Inv'
  <2> DEFINE st == IF off THEN "disabled" ELSE task[x].got
  <2>e. task' = [task EXCEPT ![x] = [Idle EXCEPT !.at = IF x = Boot THEN "over" ELSE "idle"]]
        /\ fetching' = (IF x # Boot /\ task[x].lc # None THEN fetching \ {live} ELSE fetching)
    BY <1>17, Learners DEF Notes, Records, Told, Over
  <2>f. /\ task[x].at = "notes"
        /\ fetching' \subseteq fetching
        /\ health' = st /\ (~crossed' => ~crossed /\ Telling = {})
        /\ UNCHANGED <<live, dialed, shut, verified, told, far, faults, landing, ends>>
    BY <1>17, <2>e DEF Notes, Records, Told, To, Over, News, FirstLearnt
  <2>g. /\ (IF off THEN st = "disabled" ELSE st = task[x].got) /\ st \in Noted
        /\ ~Changes(st)
        /\ ~FirstLearnt(x)
    BY <1>17, <2>f, Learners DEF Placed, Noted
  <2> HIDE DEF st
  <2> USE <2>f, Learners
  <2>0. x \in Tasks /\ task[x] \in Task
    BY <1>17 DEF Core
  <2>1. Moves(x, IF x = Boot THEN "over" ELSE "idle", None, None, None)
    BY <2>0, <2>e DEF Core, Task, Moves, Idle
  <2>2. Core'
    BY <2>0, <2>1, <2>g DEF Moves, Placed, Noted, Core, carried, landing, reach, ends
  <2>3. Placed'
    BY <2>0, <2>1, <2>g DEF Moves, Placed, Noted, Core, carried, landing, reach, ends
  <2>4. Carries'
    BY <2>0, <2>1, <2>g DEF Moves, Carries, NoTransportLeaks, Closed, Placed, Core, carried, landing, reach, ends
  <2>5. Tidings'
    BY <2>0, <2>1, <2>g DEF Moves, Tidings, Telling, Core, Changes, FirstLearnt, carried, landing, reach, ends
  <2>6. Bound'
    BY <2>0, <2>1, <2>g DEF Moves, Bound, FirstLearns, Core, carried, landing, reach, ends
  <2>7. QED
    BY <2>2, <2>3, <2>4, <2>5, <2>6 DEF Inv
<1>18. ASSUME NEW x \in Tasks \ Learns, Notes(x), ~Changes((IF off THEN "disabled" ELSE task[x].got)), ~FirstLearnt(x)
      PROVE  Inv'
  <2> DEFINE st == IF off THEN "disabled" ELSE task[x].got
  <2>e. task' = [task EXCEPT ![x].at = (IF x = Switch THEN "over" ELSE IF task[x].got = "up" THEN "healthy" ELSE "out")] /\ UNCHANGED fetching
    BY <1>18, Learners DEF Notes, Records, Told, To, Over, News, FirstLearnt
  <2>f. /\ task[x].at = "notes"
        /\ fetching' \subseteq fetching
        /\ health' = st /\ (~crossed' => ~crossed /\ Telling = {})
        /\ UNCHANGED <<live, dialed, shut, verified, told, far, faults, landing, ends>>
    BY <1>18, <2>e DEF Notes, Records, Told, To, Over, News, FirstLearnt
  <2>g. /\ (IF off THEN st = "disabled" ELSE st = task[x].got) /\ st \in Noted
        /\ ~Changes(st)
        /\ ~FirstLearnt(x)
    BY <1>18, <2>f, Learners DEF Placed, Noted
  <2> HIDE DEF st
  <2> USE <2>f, Learners
  <2>0. x \in Tasks /\ task[x] \in Task
    BY <1>18 DEF Core
  <2>1. Moves(x, IF x = Switch THEN "over" ELSE IF task[x].got = "up" THEN "healthy" ELSE "out", task[x].lc, task[x].root, task[x].got)
    BY <2>0, <2>e DEF Core, Task, Moves, Idle
  <2>2. Core'
    BY <2>0, <2>1, <2>g DEF Moves, Placed, Noted, Core, carried, landing, reach, ends
  <2>3. Placed'
    BY <2>0, <2>1, <2>g DEF Moves, Placed, Noted, Core, carried, landing, reach, ends
  <2>4. Carries'
    BY <2>0, <2>1, <2>g DEF Moves, Carries, NoTransportLeaks, Closed, Placed, Core, carried, landing, reach, ends
  <2>5. Tidings'
    BY <2>0, <2>1, <2>g DEF Moves, Tidings, Telling, Core, Changes, FirstLearnt, carried, landing, reach, ends
  <2>6. Bound'
    BY <2>0, <2>1, <2>g DEF Moves, Bound, FirstLearns, Core, carried, landing, reach, ends
  <2>7. QED
    BY <2>2, <2>3, <2>4, <2>5, <2>6 DEF Inv
<1>19. ASSUME NEW x \in Learns, Tells(x)
      PROVE  Inv'
  <2>e. task' = [task EXCEPT ![x] = [Idle EXCEPT !.at = IF x = Boot THEN "over" ELSE "idle"]]
        /\ fetching' = (IF x # Boot /\ task[x].lc # None THEN fetching \ {live} ELSE fetching)
    BY <1>19, Learners DEF Tells, Telling, Told, To, Over
  <2>f. /\ task[x].at \in {"tellsUp", "tellsDown"}
        /\ fetching' \subseteq fetching
        /\ told' \in {"up", "down"} /\ (told' = "up" <=> task[x].at = "tellsUp")
        /\ UNCHANGED <<far, faults, live, dialed, shut, verified, health, crossed>>
        /\ UNCHANGED <<landing, ends>>
    BY <1>19, <2>e DEF Tells, Telling, Told, To, Over
  <2> USE <2>f, Learners
  <2>0. x \in Tasks /\ task[x] \in Task
    BY <1>19 DEF Core
  <2>1. Moves(x, IF x = Boot THEN "over" ELSE "idle", None, None, None)
    BY <2>0, <2>e DEF Core, Task, Moves, Idle
  <2>2. Core'
    BY <2>0, <2>1 DEF Moves, Placed, Noted, Core, carried, landing, reach, ends
  <2>3. Placed'
    BY <2>0, <2>1 DEF Moves, Placed, Noted, Core, carried, landing, reach, ends
  <2>4. Carries'
    BY <2>0, <2>1 DEF Moves, Carries, NoTransportLeaks, Closed, Placed, Core, carried, landing, reach, ends
  <2>5. Tidings'
    BY <2>0, <2>1 DEF Moves, Tidings, Telling, Core, carried, landing, reach, ends
  <2>6. Bound'
    BY <2>0, <2>1 DEF Moves, Bound, FirstLearns, Core, carried, landing, reach, ends
  <2>7. QED
    BY <2>2, <2>3, <2>4, <2>5, <2>6 DEF Inv
<1>20. ASSUME NEW x \in Tasks \ Learns, Tells(x)
      PROVE  Inv'
  <2>e. task' = [task EXCEPT ![x].at = (IF x = Switch THEN "over" ELSE IF task[x].got = "up" THEN "healthy" ELSE "out")] /\ UNCHANGED fetching
    BY <1>20, Learners DEF Tells, Telling, Told, To, Over
  <2>f. /\ task[x].at \in {"tellsUp", "tellsDown"}
        /\ fetching' \subseteq fetching
        /\ told' \in {"up", "down"} /\ (told' = "up" <=> task[x].at = "tellsUp")
        /\ UNCHANGED <<far, faults, live, dialed, shut, verified, health, crossed>>
        /\ UNCHANGED <<landing, ends>>
    BY <1>20, <2>e DEF Tells, Telling, Told, To, Over
  <2> USE <2>f, Learners
  <2>0. x \in Tasks /\ task[x] \in Task
    BY <1>20 DEF Core
  <2>1. Moves(x, IF x = Switch THEN "over" ELSE IF task[x].got = "up" THEN "healthy" ELSE "out", task[x].lc, task[x].root, task[x].got)
    BY <2>0, <2>e DEF Core, Task, Moves, Idle
  <2>2. Core'
    BY <2>0, <2>1 DEF Moves, Placed, Noted, Core, carried, landing, reach, ends
  <2>3. Placed'
    BY <2>0, <2>1 DEF Moves, Placed, Noted, Core, carried, landing, reach, ends
  <2>4. Carries'
    BY <2>0, <2>1 DEF Moves, Carries, NoTransportLeaks, Closed, Placed, Core, carried, landing, reach, ends
  <2>5. Tidings'
    BY <2>0, <2>1 DEF Moves, Tidings, Telling, Core, carried, landing, reach, ends
  <2>6. Bound'
    BY <2>0, <2>1 DEF Moves, Bound, FirstLearns, Core, carried, landing, reach, ends
  <2>7. QED
    BY <2>2, <2>3, <2>4, <2>5, <2>6 DEF Inv
<1>21. ASSUME NEW x \in Transports, StreamEnds(x)
      PROVE  Inv'
  <2> USE <1>21, Learners DEF StreamEnds, NotesNext, Fault
  <2>0. x \in Tasks /\ task[x] \in Task
    BY DEF Core
  <2>1. Moves(x, "notes", task[x].lc, task[x].root, "down")
    BY <2>0 DEF Core, Task, Moves
  <2>2. Core'
    BY <2>0, <2>1 DEF Moves, Core, carried, landing, reach, ends
  <2>3. Placed'
    BY <2>0, <2>1 DEF Moves, Placed, Noted, Core, carried, landing, reach, ends
  <2>4. Carries'
    BY <2>0, <2>1 DEF Moves, Carries, NoTransportLeaks, Closed, Placed, Core, carried, landing, reach, ends
  <2>8. task[x].at \notin {"tellsUp", "tellsDown"} /\ task'[x].at \notin {"tellsUp", "tellsDown"}
    BY <2>0, <2>1 DEF Moves, Placed
  <2>9. Telling' = Telling /\ \A y \in Telling : task'[y] = task[y]
    BY <2>0, <2>1, <2>8 DEF Moves, Telling
  <2>5. Tidings'
    BY <2>9 DEF Moves, Tidings, carried, landing, reach, ends
  <2>6. Bound'
    BY <2>0, <2>1 DEF Moves, Bound, FirstLearns, Core, carried, landing, reach, ends
  <2>7. QED
    BY <2>2, <2>3, <2>4, <2>5, <2>6 DEF Inv
<1>22. ASSUME NEW x \in Transports, StreamEstablishes(x)
      PROVE  Inv'
  <2> USE <1>22, Learners DEF StreamEstablishes, NotesNext
  <2>0. x \in Tasks /\ task[x] \in Task
    BY DEF Core
  <2>1. Moves(x, "notes", task[x].lc, task[x].root, "up")
    BY <2>0 DEF Core, Task, Moves
  <2>2. Core'
    BY <2>0, <2>1 DEF Moves, Core, carried, landing, reach, ends
  <2>3. Placed'
    BY <2>0, <2>1 DEF Moves, Placed, Noted, Core, carried, landing, reach, ends
  <2>4. Carries'
    BY <2>0, <2>1 DEF Moves, Carries, NoTransportLeaks, Closed, Placed, Core, carried, landing, reach, ends
  <2>8. task[x].at \notin {"tellsUp", "tellsDown"} /\ task'[x].at \notin {"tellsUp", "tellsDown"}
    BY <2>0, <2>1 DEF Moves, Placed
  <2>9. Telling' = Telling /\ \A y \in Telling : task'[y] = task[y]
    BY <2>0, <2>1, <2>8 DEF Moves, Telling
  <2>5. Tidings'
    BY <2>9 DEF Moves, Tidings, carried, landing, reach, ends
  <2>6. Bound'
    BY <2>0, <2>1 DEF Moves, Bound, FirstLearns, Core, carried, landing, reach, ends
  <2>7. QED
    BY <2>2, <2>3, <2>4, <2>5, <2>6 DEF Inv
<1>23. ASSUME NEW x \in Transports, FanInEnds(x)
      PROVE  Inv'
  <2> USE <1>23, Learners DEF FanInEnds, To
  <2>0. x \in Tasks /\ task[x] \in Task
    BY DEF Core
  <2>1. Moves(x, "over", task[x].lc, task[x].root, task[x].got)
    BY <2>0 DEF Core, Task, Moves
  <2>2. Core'
    BY <2>0, <2>1 DEF Moves, Core, carried, landing, reach, ends
  <2>3. Placed'
    BY <2>0, <2>1 DEF Moves, Placed, Noted, Core, carried, landing, reach, ends
  <2>4. Carries'
    BY <2>0, <2>1 DEF Moves, Carries, NoTransportLeaks, Closed, Placed, Core, carried, landing, reach, ends
  <2>8. task[x].at \notin {"tellsUp", "tellsDown"} /\ task'[x].at \notin {"tellsUp", "tellsDown"}
    BY <2>0, <2>1 DEF Moves, Placed
  <2>9. Telling' = Telling /\ \A y \in Telling : task'[y] = task[y]
    BY <2>0, <2>1, <2>8 DEF Moves, Telling
  <2>5. Tidings'
    BY <2>9 DEF Moves, Tidings, carried, landing, reach, ends
  <2>6. Bound'
    BY <2>0, <2>1 DEF Moves, Bound, FirstLearns, Core, carried, landing, reach, ends
  <2>7. QED
    BY <2>2, <2>3, <2>4, <2>5, <2>6 DEF Inv
<1>24. ASSUME SwitchesOff
      PROVE  Inv'
  <2> USE <1>24, Learners DEF SwitchesOff, To
  <2>0. Switch \in Tasks /\ task[Switch] \in Task
    BY DEF Core
  <2>1. Moves(Switch, "takes", task[Switch].lc, task[Switch].root, task[Switch].got)
    BY <2>0 DEF Core, Task, Moves
  <2>2. Core'
    BY <2>0, <2>1 DEF Moves, Core, carried, landing, reach, ends
  <2>3. Placed'
    BY <2>0, <2>1 DEF Moves, Placed, Noted, Core, carried, landing, reach, ends
  <2>4. Carries'
    BY <2>0, <2>1 DEF Moves, Carries, NoTransportLeaks, Closed, Placed, Core, carried, landing, reach, ends
  <2>8. task[Switch].at \notin {"tellsUp", "tellsDown"} /\ task'[Switch].at \notin {"tellsUp", "tellsDown"}
    BY <2>0, <2>1 DEF Moves, Carries
  <2>9. Telling' = Telling /\ \A y \in Telling : task'[y] = task[y]
    BY <2>0, <2>1, <2>8 DEF Moves, Telling
  <2>5. Tidings'
    BY <2>9 DEF Moves, Tidings, carried, landing, reach, ends
  <2>6. Bound'
    BY <2>0, <2>1 DEF Moves, Bound, FirstLearns, Core, carried, landing, reach, ends
  <2>7. QED
    BY <2>2, <2>3, <2>4, <2>5, <2>6 DEF Inv
<1>25. ASSUME TakesTransport
      PROVE  Inv'
  <2> USE <1>25, Learners DEF TakesTransport
  <2>0. Switch \in Tasks /\ task[Switch] \in Task
    BY DEF Core
  <2>1. Moves(Switch, "shuts", live, task[Switch].root, task[Switch].got)
    BY <2>0 DEF Core, Task, Moves
  <2>2. Core'
    BY <2>0, <2>1 DEF Moves, Placed, Noted, Core, carried, landing, reach, ends
  <2>3. Placed'
    BY <2>0, <2>1 DEF Moves, Placed, Noted, Core, carried, landing, reach, ends
  <2>4. Carries'
    BY <2>0, <2>1 DEF Moves, Carries, NoTransportLeaks, Closed, Placed, Core, carried, landing, reach, ends
  <2>8. task[Switch].at \notin {"tellsUp", "tellsDown"} /\ task'[Switch].at \notin {"tellsUp", "tellsDown"}
    BY <2>0, <2>1 DEF Moves, Carries
  <2>9. Telling' = Telling /\ \A y \in Telling : task'[y] = task[y]
    BY <2>0, <2>1, <2>8 DEF Moves, Telling
  <2>5. Tidings'
    BY <2>9 DEF Moves, Tidings, carried, landing, reach, ends
  <2>6. Bound'
    BY <2>0, <2>1 DEF Moves, Bound, FirstLearns, Core, carried, landing, reach, ends
  <2>7. QED
    BY <2>2, <2>3, <2>4, <2>5, <2>6 DEF Inv
<1>26. ASSUME ShutsTransport
      PROVE  Inv'
  <2> USE <1>26, Learners DEF ShutsTransport, NotesNext
  <2>0. Switch \in Tasks /\ task[Switch] \in Task
    BY DEF Core
  <2>1. Moves(Switch, "notes", task[Switch].lc, task[Switch].root, "disabled")
    BY <2>0 DEF Core, Task, Moves
  <2>2. Core'
    BY <2>0, <2>1 DEF Moves, Placed, Noted, Core, carried, landing, reach, ends
  <2>3. Placed'
    BY <2>0, <2>1 DEF Moves, Placed, Noted, Core, carried, landing, reach, ends
  <2>4. Carries'
    BY <2>0, <2>1 DEF Moves, Carries, NoTransportLeaks, Closed, Placed, Core, carried, landing, reach, ends
  <2>8. task[Switch].at \notin {"tellsUp", "tellsDown"} /\ task'[Switch].at \notin {"tellsUp", "tellsDown"}
    BY <2>0, <2>1 DEF Moves, Carries
  <2>9. Telling' = Telling /\ \A y \in Telling : task'[y] = task[y]
    BY <2>0, <2>1, <2>8 DEF Moves, Telling
  <2>5. Tidings'
    BY <2>9 DEF Moves, Tidings, carried, landing, reach, ends
  <2>6. Bound'
    BY <2>0, <2>1 DEF Moves, Bound, FirstLearns, Core, carried, landing, reach, ends
  <2>7. QED
    BY <2>2, <2>3, <2>4, <2>5, <2>6 DEF Inv
<1>27. ASSUME RegistryCloses
      PROVE  Inv'
  <2> USE <1>27, Learners DEF RegistryCloses
  <2>0. Switch \in Tasks /\ task[Switch] \in Task
    BY DEF Core
  <2>1. task' = task
    OBVIOUS
  <2>2. Core'
    BY <2>0, <2>1 DEF Core, carried, landing, reach, ends
  <2>3. Placed'
    BY <2>0, <2>1 DEF Placed, Noted, Core, carried, landing, reach, ends
  <2>4. Carries'
    BY <2>0, <2>1 DEF Carries, NoTransportLeaks, Closed, Placed, Core, carried, landing, reach, ends
  <2>9. Telling' = Telling /\ \A y \in Telling : task'[y] = task[y]
    BY <2>1 DEF Telling
  <2>5. Tidings'
    BY <2>9 DEF Tidings, carried, landing, reach, ends
  <2>6. Bound'
    BY <2>0, <2>1 DEF Bound, FirstLearns, Core, carried, landing, reach, ends
  <2>7. QED
    BY <2>2, <2>3, <2>4, <2>5, <2>6 DEF Inv
<1>28. ASSUME Closes
      PROVE  Inv'
  <2> USE <1>28, Learners DEF Closes
  <2>0. Switch \in Tasks /\ task[Switch] \in Task
    BY DEF Core
  <2>1. task' = task
    OBVIOUS
  <2>2. Core'
    BY <2>0, <2>1 DEF Placed, Noted, Core, carried, landing, reach, ends
  <2>3. Placed'
    BY <2>0, <2>1 DEF Placed, Noted, Core, carried, landing, reach, ends
  <2>4. Carries'
    BY <2>0, <2>1 DEF Carries, NoTransportLeaks, Closed, Placed, Core, carried, landing, reach, ends
  <2>9. Telling' = Telling /\ \A y \in Telling : task'[y] = task[y]
    BY <2>1 DEF Telling
  <2>5. Tidings'
    BY <2>9 DEF Tidings, carried, landing, reach, ends
  <2>6. Bound'
    BY <2>0, <2>1 DEF Bound, FirstLearns, Core, carried, landing, reach, ends
  <2>7. QED
    BY <2>2, <2>3, <2>4, <2>5, <2>6 DEF Inv
<1>29. ASSUME CloseReturns
      PROVE  Inv'
  <2> USE <1>29, Learners DEF CloseReturns
  <2>0. Switch \in Tasks /\ task[Switch] \in Task
    BY DEF Core
  <2>1. task' = task
    OBVIOUS
  <2>2. Core'
    BY <2>0, <2>1 DEF Core, carried, landing, reach, ends
  <2>3. Placed'
    BY <2>0, <2>1 DEF Placed, Noted, Core, carried, landing, reach, ends
  <2>4. Carries'
    BY <2>0, <2>1 DEF Carries, NoTransportLeaks, Closed, Placed, Core, carried, landing, reach, ends
  <2>9. Telling' = Telling /\ \A y \in Telling : task'[y] = task[y]
    BY <2>1 DEF Telling
  <2>5. Tidings'
    BY <2>9 DEF Tidings, carried, landing, reach, ends
  <2>6. Bound'
    BY <2>0, <2>1 DEF Bound, FirstLearns, Core, carried, landing, reach, ends
  <2>7. QED
    BY <2>2, <2>3, <2>4, <2>5, <2>6 DEF Inv
<1>30. QED
  BY <1>1, <1>2, <1>3, <1>4, <1>5, <1>6, <1>7, <1>8, <1>9, <1>10, <1>11, <1>12, <1>13, <1>14, <1>15, <1>16, <1>17, <1>18, <1>19, <1>20, <1>21, <1>22, <1>23, <1>24, <1>25, <1>26, <1>27, <1>28, <1>29 DEF ConnNext, LearnStep

\* So does a step of none.
LEMMA StutterKeeps == ASSUME Inv, UNCHANGED connVars PROVE Inv'
<1>1. UNCHANGED <<far, faults, live, dialed, shut, verified, fetching, stored, known, raced, health, told,
                  crossed, off, closing, task, refused>>
  BY DEF connVars, carried, landing, reach, ends
<1>2. Core' /\ Placed'
  BY <1>1 DEF Inv, Core, Placed
<1>3. Carries'
  BY <1>1 DEF Inv, Carries, NoTransportLeaks, Closed
<1>4. Tidings' /\ Bound'
  BY <1>1 DEF Inv, Tidings, Telling, Bound, FirstLearns
<1>5. QED
  BY <1>2, <1>3, <1>4 DEF Inv

\* No transport is dialed and no landing held at the start.
LEMMA InitHolds == ASSUME ConnInit PROVE Inv
<1> USE Learners DEF ConnInit
<1>1. \A x \in Tasks : /\ task[x].at \in {"idle", "starts"} /\ task[x].lc = None
                       /\ x # Boot => task[x].at = "idle"
  BY DEF Idle
<1>2. task \in [Tasks -> Task]
  BY DEF Idle, Task
<1>3. Core
  BY <1>2 DEF Core
<1>4. Placed
  BY <1>1 DEF Placed
<1>5. Carries
  BY <1>1 DEF Carries, NoTransportLeaks, Closed
<1>6. Tidings
  BY <1>1 DEF Tidings, Telling
<1>7. Bound
  BY <1>1 DEF Bound, FirstLearns
<1>8. QED
  BY <1>3, <1>4, <1>5, <1>6, <1>7 DEF Inv

(* In every reachable state of the connection, whatever the far node, the  *)
(* learns and the switch do.                                               *)
THEOREM Invariance == ConnSpec => []Inv
<1>1. Inv /\ [ConnNext]_connVars => Inv'
  BY NextKeeps, StutterKeeps
<1>2. QED
  BY <1>1, InitHolds, PTL DEF ConnSpec

----------------------------------------------------------------------------
\* Every step leaves the flags Booleans.
LEMMA FlagsKeep == ASSUME Flags, [ConnNext]_connVars PROVE Flags'
<1> USE DEF Flags, carried, landing, reach, ends
<1>1. ASSUME NEW x \in Learns, LearnStep(x) PROVE Flags'
  <2>1. CASE Looks(x)
    <3>1. UNCHANGED <<off, crossed, refused>>
      BY <2>1 DEF Looks
    <3>2. raced' \in BOOLEAN
      BY <2>1 DEF Looks
    <3>3. QED
      BY <3>1, <3>2
  <2>2. CASE Verifies(x)
    BY <2>2 DEF Verifies
  <2>3. CASE \/ FindsLive(x) \/ (\E t \in Transports : Dials(x, t)) \/ DialFails(x) \/ RefusesDial(x)
             \/ Answered(x) \/ NotAnswered(x) \/ Stores(x) \/ StoreFails(x)
    BY <2>3 DEF FindsLive, Dials, DialFails, RefusesDial, Answered, NotAnswered, Stores, StoreFails
  <2>4. QED
    BY <1>1, <2>1, <2>2, <2>3 DEF LearnStep
<1>2. ASSUME NEW x \in Tasks, Notes(x) PROVE Flags'
  <2>1. UNCHANGED <<off, raced>>
    BY <1>2 DEF Notes
  <2>2. refused' \in BOOLEAN
    BY <1>2 DEF Notes
  <2>3. crossed' \in BOOLEAN
    BY <1>2 DEF Notes, Records
  <2>4. QED
    BY <2>1, <2>2, <2>3
<1>3. ASSUME \/ \E h \in Homes : FarTurns(h)
             \/ \E k \in Kicks : CountsItself(k)
             \/ \E x \in Tasks : Tells(x)
             \/ \E t \in Transports : StreamEnds(t) \/ StreamEstablishes(t) \/ FanInEnds(t)
             \/ TakesTransport \/ ShutsTransport \/ Closes \/ CloseReturns
      PROVE Flags'
  BY <1>3 DEF FarTurns, CountsItself, Tells, StreamEnds, StreamEstablishes, FanInEnds,
              TakesTransport, ShutsTransport, Closes, CloseReturns
<1>4. ASSUME SwitchesOff \/ RegistryCloses PROVE Flags'
  BY <1>4 DEF SwitchesOff, RegistryCloses
<1>5. CASE UNCHANGED connVars
  BY <1>5 DEF connVars
<1>6. QED
  BY <1>1, <1>2, <1>3, <1>4, <1>5 DEF ConnNext

(* Every variable keeps its type.                                          *)
THEOREM TypesHold == ConnSpec => []ConnTypeOK
<1>1. ConnInit => Flags
  BY DEF ConnInit, Flags
<1>2. Inv /\ Flags => ConnTypeOK
  BY DEF Inv, Core, Flags, ConnTypeOK
<1>3. QED
  BY <1>1, <1>2, FlagsKeep, Invariance, PTL DEF ConnSpec

(* Every transport dialed and not closed is the connection's, or the       *)
(* switch holds it and is about to close it: none is lost between          *)
(* ensureLive, which dials under the lock, and Disable and Close, which    *)
(* take under it.                                                          *)
THEOREM NothingLeaks == ConnSpec => []NoTransportLeaks
<1>1. Inv => NoTransportLeaks
  BY DEF Inv, Carries
<1>2. QED
  BY <1>1, Invariance, PTL

(* A connection the user disabled carries nothing and is recorded as       *)
(* disabled, whatever learns and fan-ins outlived the switch: each of them *)
(* notes under the lock, where the switch is looked at again.              *)
THEOREM DisabledCarriesNothing == ConnSpec => []DisabledIsOff
<1>1. Inv => DisabledIsOff
  BY DEF Inv, Carries, DisabledIsOff
<1>2. QED
  BY <1>1, Invariance, PTL

(* Where no note came between a change and its telling, what was last told *)
(* is what is recorded: every change is published, and none twice.         *)
THEOREM NoChangeGoesUntold == ConnSpec => []ChangesAreTold
<1>1. Inv => ChangesAreTold
  BY DEF Inv, Tidings, ChangesAreTold
<1>2. QED
  BY <1>1, Invariance, PTL

(* Once Close has returned no fan-in runs and nothing is open but what the *)
(* switch still holds: Close waits for what was counted, and nothing is    *)
(* dialed after it.                                                        *)
THEOREM EndsForGood == ConnSpec => []ClosedForGood
<1>1. Inv => ClosedForGood
  BY Learners DEF Inv, Core, Carries, NoTransportLeaks, ClosedForGood, Closed
<1>2. QED
  BY <1>1, Invariance, PTL

----------------------------------------------------------------------------
(* What is written is a first learn's, and what is verified is what was    *)
(* written.                                                                *)
LEMMA WritersAreFirst ==
    ASSUME Inv, ~raced, NEW x \in Learns
    PROVE  /\ task[x].at = "stores" => stored = None
           /\ task[x].at = "verifies" => stored = task[x].got
BY Learners DEF Inv, Core, Bound, FirstLearns

(* A landing, once written down, is never another one, and what is held is *)
(* what is stored, unless two first learns ran at once.                    *)
THEOREM LandingStaysBound == ConnSpec => LandingIsBound
<1> DEFINE Binds == ~raced' => /\ stored # None => stored' = stored
                               /\ verified' # verified => known' = stored'
<1>1. ASSUME Inv, ConnNext PROVE Binds
  <2> USE DEF carried, landing
  <2>1. ASSUME NEW x \in Learns, LearnStep(x) PROVE Binds
    <3>1. CASE Stores(x)
      BY <1>1, <3>1, WritersAreFirst DEF Stores
    <3>2. CASE Verifies(x)
      BY <1>1, <3>2, WritersAreFirst DEF Verifies
    <3>3. CASE \/ FindsLive(x) \/ (\E t \in Transports : Dials(x, t)) \/ DialFails(x) \/ RefusesDial(x)
               \/ Looks(x) \/ Answered(x) \/ NotAnswered(x) \/ StoreFails(x)
      BY <3>3 DEF FindsLive, Dials, DialFails, RefusesDial, Looks, Answered, NotAnswered, StoreFails
    <3>4. QED
      BY <2>1, <3>1, <3>2, <3>3 DEF LearnStep
  <2>2. ASSUME NEW x \in Tasks, Notes(x) \/ Tells(x) PROVE Binds
    BY <2>2 DEF Notes, Tells, Records
  <2>3. ASSUME NEW t \in Transports, StreamEnds(t) \/ StreamEstablishes(t) \/ FanInEnds(t) PROVE Binds
    BY <2>3 DEF StreamEnds, StreamEstablishes, FanInEnds
  <2>4. ASSUME \/ \E h \in Homes : FarTurns(h)
               \/ \E k \in Kicks : CountsItself(k)
               \/ SwitchesOff \/ TakesTransport \/ ShutsTransport
               \/ RegistryCloses \/ Closes \/ CloseReturns
        PROVE Binds
    BY <2>4 DEF FarTurns, CountsItself, SwitchesOff, TakesTransport, ShutsTransport,
                RegistryCloses, Closes, CloseReturns
  <2>5. QED
    BY <1>1, <2>1, <2>2, <2>3, <2>4 DEF ConnNext
<1>2. ASSUME UNCHANGED connVars PROVE UNCHANGED <<stored, verified>>
  BY <1>2 DEF connVars, carried, landing
<1>3. QED
  BY <1>1, Invariance, PTL DEF ConnSpec, LandingIsBound
=============================================================================
