# Gridwell in TLA+

Gridwell shows documents, folders, terminals and web pages as tiles on grids. A
node serves grids over gRPC; a browser client draws them, caches them and writes
them back; plugins and connections to other nodes appear as further namespaces.
What is hard about it is not any one function but what happens between them: a
client that edits ahead of the node, a node that tells many clients of each
other's writes, calls that are given up on and arrive all the same, reads and
events that land in either order.

This directory holds TLA+ models of the parts that decide what a user's words
and tiles survive, the TLC configurations that check them on small instances,
and TLAPS proofs of what holds for every instance.

## The system

| Component | State | Operations | Interacts by |
|---|---|---|---|
| Store (`internal/local/store`) | SQLite rows (tiles, grids, blobs with counts, selections), one transaction at a time | content write claimed by version, placement write claimed by place, copy, delete, trash, select | publishes each write's events after its commit, outside any lock |
| Event hub (`internal/eventhub`) | subscribers, a coalescing queue each, a wake channel, a pump goroutine | publish, subscribe, cancel | a bounded stream per consumer |
| Router and fan-in (`internal/server`, `internal/namespace`) | open streams, which namespaces listen | route by id, one merged stream per client | gRPC streams, context cancellation |
| Source cache (`internal/sourcecache`) | SQLite copy of another source's rows, fold record, single-flight sets | read through, fold events, revalidate, prefetch | background goroutines |
| Plugin host (`internal/plugin`, `internal/pluginhost`) | process, health, listings served | spawn, respawn, watch, compare listings | listeners, watch streams |
| Connections (`internal/connection`) | a transport per name, its landing, health | dial, learn the landing, relay events and views, disable | gRPC to another node |
| What is shown (`internal/subscription`, `client/subscription`) | sessions, the union of grids shown; the view last sent | open, set, close; show, next, reopened | one call from the draw loop |
| Client cache (`client/cache`) | rows, content entries with their basis, placement holds | fetched, edited, saved, aged; events, reads and answers applied | called by the UI thread and by goroutines after calls |
| Save chain and outbox (`client/outbox`, `client/wasm`) | queued saves per document, what is owed | enqueue, answer, drain | timers, retry kicks |
| Read claims (`client/inflight`, `client/events`, `client/retry`) | a claim and a latch per key | ask, owe, cancel, release, settle, resync | event stream, back-off timer |
| Navigation, panes (`client/nav`, `client/pane`) | panes, places, descents under way | descend, ascend, restore | reads that end later |
| Shells (`internal/local/shellsvc`, `client/shellstream`) | attached terminals, streams | take over, release, reap | websockets, tmux |

The rest (gestures, menus, drawing, markdown, themes, the CLI, the MCP API,
configuration, generated code) holds no state that several actors share; it is
listed in `PROJECT.json` and left to unit tests.

### What makes each part correct

- Content saves: no other writer's word is overwritten unseen; no typed word is
  lost silently; what a save claims and what is shown agree; both sides come to
  agree in the end.
- Read claims: one read per key counts; an older listing never replaces a newer
  one; what is stale and unasked is labelled; the client catches up after every
  fault.
- Event hub: publishers never block, no wakeup is lost, each entity's latest
  event arrives, in order of first touch, and goroutines end.
- Placement: one home for a tile, the user's own placement stays under the hand
  until it is echoed, the screen and the node agree at rest.
- Source cache: an answer never undoes a fold that came after it; at rest the
  rows are the far node's, and the client was told of every difference.
- Watched listings: a client at rest has what the source lists, or was told to
  read again; one left with an outage's rows hears of its end.
- Store: counts are exact, each grid has one owner and is reached, nothing live
  is destroyed, events tell all that a write changes.
- Supervisor and health: no process is left behind, a stop is for good, and
  what clients hold dark is what does not answer.
- Connections: no transport leaks, the landing never changes, a disabled
  connection stays off, `Close` returns.
- What is shown: what is on a screen is watched, nothing else is, and a client
  that goes away is not counted.

## Modules

| Module | Models | Runs |
|---|---|---|
| `ContentSave` | one text document: node row and bytes, keyboard, content entry, chain of saves, outbox, late reads, another writer | `content_save`, `content_save_live`, `lost_update` |
| `InflightReads` | one grid's claim, latch, owed re-read, resync and backstop against an event stream that breaks | `inflight_reads` |
| `Mailbox` | what a subscription of the hub promises: one waiting event per entity, replaced in place, delivered in order of first touch | by `event_hub`, `tile_feed` |
| `EventHub` | the hub itself, one step per critical section or channel operation; implements `Mailbox` | `event_hub` |
| `TileFeed` | where one tile is, on the node, on the stream, in the cache and under the hand; its stream is a `Mailbox` | `tile_feed` |
| `TouchedKeys` | what the fold order promises: a read's answer is installed unless a fold since it began touched one of its keys | by `source_cache` |
| `FoldOrder` | the fold order itself: sequence numbers, stamps, counts of the reads in flight; implements `TouchedKeys` (proved) | |
| `SourceCache` | one tile in two cached grids of a connection: hits, misses, revalidations, walks, folds, writes, dark and unheard sources | `source_cache` |
| `Watch` | the plugin host's watched scope, its streams, its checks, and what clients were served | `watch` |
| `Store` | tiles, grids, blob counts and selections under every write | `store` |
| `Supervisor` | one plugin's subprocess: spawn, exit, back-off, respawn, stop | by `plugin_health` |
| `PluginHealth` | `Supervisor` with the plugin's source, its listings, its listeners and each client's stream and copy of what is dark | `plugin_health` |
| `Connection` | one connection's transport, landing, health, fan-in, switch and close | `connection` |
| `Shown` | the clients' trackers and senders, their streams, the node's book and its union | `shown` |
| `ContentSaveProofs`, `InflightReadsProofs`, `EventHubProofs`, `SourceCacheProofs`, `StoreProofs`, `SupervisorProofs`, `ConnectionProofs`, `ShownProofs` | theorems about the modules they are named for (`EventHubProofs` also about `TileFeed`, `SourceCacheProofs` about `FoldOrder`, `SupervisorProofs` about `PluginHealth` and `Watch`) | |

Each `MC*` module extends its specification and gives TLC the symmetry sets, the
functions a cfg cannot write and, where it says so, the cases of a run.
`PROJECT.json` maps every definition to the lines it stands for.

How they compose: `TileFeed` takes its stream from `Mailbox`, which `EventHub`
implements; `SourceCache` takes its installs from `TouchedKeys`, which
`FoldOrder` implements; `PluginHealth` extends `Supervisor` and is proved to take
only its steps. `SourceCache`, `Watch` and `Store` end at the event they tell: a
client is cued to read again, and `InflightReads` and `TileFeed` are what it does
then.

### ContentSave

The node (`version`, `hist`, the bytes of each version) takes a write only when
it claims the current version (`claimContentVersion`), and a write of identical
bytes changes nothing (`swapTileBlob`). The client's `entry` is `contentEntry` in
`client/cache/cache.go`: bytes, the basis they were read at (`base`), the row
they are filed under (`filed`) and whether they are dirty. `queue` and `flight`
are the serial `SaveQueue`; a queued save holds bytes, but the claim is read from
the entry when it is sent (`SaveClaim`). `owed` is the outbox's entry, `armed`
the debounce timer. `wire` is the undelivered `TileChanged` events, as a set
because delivery order does not matter to a version compare (`Deliver` refuses an
older row), and `stray` the writes past their deadline which may still arrive.

The bytes are abstracted to the set of words in them, because a lost update loses
a word; blobs matter only where two versions have the same bytes, and `Shared`
says which bodies another document of the node holds, which is when a blob's id is
found again. `orphan` marks a save whose entry was dropped while it waited, and
`tainted` that the node has taken one: history only, no guard reads them. Words
are typed and erased at most once each, and a keystroke is one word.

### InflightReads

One grid. `claim` is the pointer in `claimSet`, `fetch` the goroutine of each
read: a read that was cancelled keeps running until it returns, which is what
makes a late release dangerous. `latch` is the failure latch; `cache` the listing
and the row shown. The hub's stream is a FIFO (`stream`), emptied by a break.
The resync asks for what was latched and then cancels every read in flight, the
one just asked included. A cancelled read says nothing when it returns, unless its
call was back before the cancel and its goroutine had not run yet: then `loadGrid`
stores what it brought (`back`). The client runs on one thread, so such a read is
handled before another call can come back, and there is one at most (`Back`).
`astray`, `told` and `verdict` are history.

### Mailbox and EventHub

`EventHub` follows `eventhub.go` step by step: the copy of the subscriber list
under the hub's mutex, then one `Enqueue` and one `Signal` per subscriber, which
are two steps since the signal is sent outside the mutex. The pump looks, waits
on wake or done, and blocks sending. `Mailboxes` is the refinement: with
`box` := the queue's keys with their pending events, and `line` := the stream and
the event in hand, every step of a subscription is a step of `Mailbox` or a
stutter. `heard`, `queued` are history. The fallback counter of unkeyed events is
modelled by numbers, which no entity has.

### TileFeed

`row` is the tile's row on the node; a `Commit` owes its events (`telling`),
which are published one at a time after it (`store.withMutation`), so two
writers' events may be published in the opposite order. `box` and `arriving` are the
subscriber's mailbox (`Feed == INSTANCE Mailbox`). `shown` is each cached grid's
row, `hold` the placement the cache shows ahead of its echo, `moves` the user's
writes, `reads` the grid reads. An event carries the number of its commit, which
the client cannot see and which only the history variables use. `excuse` records
which of the divergences below has happened; the properties say how much of
agreement survives without them.

### SourceCache, TouchedKeys, FoldOrder

`far` and `farList` are the far node's rows, `wire` its stream with a coalesced
event per entity, `tile`, `grids` and `body` the cached rows, `reads` every live
read: a revalidation per grid, the prefetch walk's, the user's. A revalidation
looks at the cached rows and begins its read in one step (`Revalidate`; the code
loads the rows first), and the `GridChanged` that `noteReachGrid` publishes when the
source is heard again, just before the install, goes with the landing. A live read
begins (`Begins`), is answered by the far node as it then is, and lands, which is
one step: `foldOrder.install` holds its lock while the answer is written. A fold
is two steps, as in the code: it is recorded under the lock and written after
it, and other reads may land between. `TouchedKeys` states what decides: the keys
folded since a read began. `FoldOrder` is how the code decides it, with one
number per fold, a stamp per key, and the stamps dropped whenever no read is in
flight.

The trash is a grid like another: a deleted tile is moved into it, the answer of
the delete names no row, and the tile is folded away (`Layer.DeleteTile`). `Gone`
is the place of a tile that was destroyed, which nothing brings back.

A write's answer is folded like an event; a body is filed under its tile's id
and leaves with its row. `own` (the version the user's own edit was answered
with), `folded` (the commit of the last fold), `silent` (grids whose rows a read
nobody announces has changed) and `excuse` are history.

### Watch

`loop` is `followScope`: it takes the scope, opens a stream over it while the old
one is still followed, swaps them, and lists each grid the open added. `jobs` are
the listings under way, by client and by checked grid; `served` is what the host
notes that clients may hold (`settle`), and a checked listing is announced when
it is none of those. `Dark` is the listing made up for an outage. `missed`
records the changes no stream will tell, which is the finding below.

### Store

An action is a whole transaction, since the store has one connection to its
database, with the events its caller publishes after the commit. `tiles` keeps
grid, cell, kind, child grid, blob and name of every row, `refs` the counts, `sel`
the selections. Deep copies are one action that chooses the new ids in order, a
destroy removes the closure of grids below the tile. `Under` is that closure: the
least set of grids that holds the tile's own and every grid a door on one of them
leads into, where the code walks the doors (`Store.deleteGrid`). `untold` is what a client
that has heard every event holds wrongly, and where: the ghost variable that
says whether the events tell enough.

### Supervisor and PluginHealth

The supervisor's watch goroutine and its one stop are sequential programs with a
location each (`watch`, `ending`); every lock region is a step, and the telling of
the listeners, done outside the lock, another. The sleep may be cut short by
`done` or run out, and may do either when both are ready (`late`). In
`PluginHealth` the plugin's source fails and recovers behind it (`out`), each
listing finds it so (`noteSource`) and edits the host's copy in three steps
(record, ask whether the process is up, publish), and each client's stream opens:
the declaration is asked for, the stream attaches, listens, and is told of process
and source, one step each. `dark` is the client's copy.

### Connection

Learns (`Kicks`, and `Boot`, which nobody counts), one fan-in per transport and
the switch are the tasks. Every task releases the server's lock around the call
to the far node, around the database write and before it publishes; the model has
a location for each (`asks`, `stores`, `verifies`, `notes`, `tells`). `stored` is
the landing in the node's rows, `known` the one in memory. `raced` and `crossed`
are history: that two first learns ran at once, that news crossed. `LandingIsBound`
and `ChangesAreTold` say nothing of a connection to which that has happened: those
are the cases the code gets wrong. Left out is the second goroutine of a
transport, which sends the far node its share of what is shown and tells on the
connection's health whether that share was refused (`tellFar`, `noteLiveOff`).

A connection can get a second transport: once it was switched off and the registry
has forgotten that, a learn may dial until the server closes. The run has one
transport, because with two it does not end in a few minutes; the theorems hold
for any number. The same properties were checked with two from an unlearnt landing
while the model was written (1.1 million states).

### Shown

The tracker (`want`, `last`, `sent`), its one wake slot and its one sender are
the client's; a call given up on may still be taken (`stray`). A stream is served
in one of the node's `Slots`; its handler opens it, and a second goroutine counts
it once every namespace has settled, and gives the count back when the context
ends, in whatever order the two come. The book keeps counts, views, and the
sessions idle past their last stream, the oldest of which is dropped. A restart
empties it.

## Runs

| Run | Bounds | Shows |
|---|---|---|
| `content_save` | two words of the user's, one of another writer's, the empty body shared, 6 versions, one save queued, one stray write, one lost call; as two cases: the user alone with both words, or one word against the others | a clean body is the node's bytes at its basis; nobody's word is overwritten unseen and no typing lost, as long as every save belongs to a living entry; the basis never goes back |
| `content_save_live` | one word each, no shared body, nothing queued, two lost calls, one stray | client and node come to agree and stay so |
| `lost_update` | one word each, one save queued, nothing lost | the finding below |
| `inflight_reads` | three fetches, three listings, two row versions, two faults | one read is waited for; an unlabelled grid is current; the client converges |
| `event_hub` | two publishers, one subscriber, one entity and unkeyed events, three events, stream of one | the hub is a mailbox; no lost wakeup; publishers return; consumers that read are told; pumps end |
| `tile_feed` | two grids (two places and one), one move by the user, one other writer, two commits, one break or extra read | one home; the hold is shown; agreement at rest |
| `source_cache` | two grids, two commits, faults and relists together (`MaxCommits`), two reads beyond the revalidations, two busy at once | cache and far node agree at rest; every change was announced; no install undoes a fold; no body from before an edit |
| `watch` | two clients, two grids, two listings, one change, two views, two reads, one fault, three of changes, views and faults together (`MaxEvents`) | whoever shows a grid is current or cued; outages' rows end |
| `store` | four tiles, five grids (two of users'), two blobs, one cell each, doors and texts; the last ids made, copied and selected bounded | counts, owners, reachability, selections, what events tell, what may be destroyed |
| `plugin_health` | two processes, one client, one listing at a time, one break, two back-offs, both reasons to stop | no process is left behind; a stop is for good; health is the process; outages are told |
| `connection` | one transport, two homes, one background learn and the boot's, one fault | no leak; disabled is off; changes are told; the landing is bound; `Close` returns |
| `shown` | two clients, one with two slots, two views, one idle session kept, two bounded events | shown is watched; watched is heard; gone is unwatched |

Why these bounds are enough to be worth running: every hazard the properties aim
at needs at most two conflicting actors, one call given up on, one fault and one
change told out of step. Two words give a second edit during a save. One
subscriber is enough for the hub because subscribers share only the set of
subscriptions and the publisher's order through them. Two places in one grid and
one in another distinguish a move within a grid from one across. Four tiles and
two users' grids let a door be copied into a door, trashed with its contents and
destroyed. Two slots of one client let a broken stream's count outlive the
opening of its successor, and the other client's session is what pushes the first
out of the idle ones. Every property has a mutant of the code that breaks it under
the same bounds (`PROJECT.json`, "mutants"), so the interesting case does happen.

`connection` names the home the far node starts with, `shown` the first view of
each client: the others are the same up to renaming.

Type invariants are stated in every module. Those of the modules with proofs are
proved; in the others they served while the model was written, and the runs spend
their properties on what could go wrong.

Deadlock is not checked: every model's bounds stop it, and the programs
themselves may rest with nothing to do.

### Fairness

`ContentSave`: the debounce timer fires; the outbox drains on a retry kick, on a
reconnect and on a tick (`drainOutbox`, `retryBackstop`); the node answers what
reaches it; every verdict is handled; events are delivered; a draw asks for a
missing body. Nothing makes the user type, another writer write, or a call be
lost, and losses are bounded: without that bound a network that drops everything
would refute any convergence.

`InflightReads`: the stream is re-opened by its retry loop, events in it are
handled, reads that can return do (calls run under `inflight.Deadline`), draws
ask, the tick ticks. `EventHub`: goroutines that can run do; consumers need not
receive, except in `Delivers`, whose hypothesis says so.

`Connection`: tasks that can take a step do; a question to the far node ends, as
each has a deadline (`learnRootWait`), and a fan-in's stream ends when its
transport is closed. Nobody has to start a learn. `Shown`: the stream of a closed
page breaks (its connection is gone), and the node's goroutines that can run do.
Nothing makes a page close, and a client's sender need not run.

`TileFeed`, `SourceCache`, `Watch`, `Store` and `PluginHealth` state safety only:
agreement is claimed of states at rest.

## What is proved

Every theorem holds for all values of the constants that satisfy the module's
named assumptions, which only say that bounds are naturals, that markers such as
`None` are not members of the sets they mark, and, in three modules, what the
section below names. Before a proof was begun, TLC checked its invariant on the
module's run.

A safety property is seldom inductive. Each section names the invariant that is,
and what its conjuncts add. The proofs have one lemma per action, and under it one
step per conjunct the action can disturb; lemmas about operators come first.

**ContentSaveProofs** (`BoundsAssumption`; `WordsAssumption`: the user's words are
not the others'). `Typed`, `CleanBodiesAreFiled` and `NoLostUpdates`. The first
two rest on `Filed`: every version the client names is one the node has reached,
the bytes filed under a version are that version's (in the entry, in an answered
read, in a landed answer), and the chain is empty when nothing is in flight.
`NoLostUpdates` adds `Kept`, which says why versions protect words: while the node
has taken no orphan, the entry's bytes, the textarea's, every queued save's and
the running save's all contain exactly the foreign words of the version the
entry's basis names (`Derives`), and a save that is sent claims that very basis.
The part that needs care is a save's answer moving the basis under typing and
under queued saves (`EndSaveKeeps`): it is sound because the bytes just saved have
the foreign words of the basis they claimed. A save whose entry was dropped has
lost that link, which is what finding 1 is about, and why the theorem stops there.
`NoWordIsLostSilently` is the same for the user's own words, and needs more: a
word is not lost while it is typed and unsaved. `Owned` says that nothing holds a
word before it is typed and that a dirty entry is what the textarea shows and is
owed by the outbox. `OwnKept` follows the live words (typed, not erased by the
user, not in an entry the node refused) along the chain: from the version a save
claims to the save, from each save to the next, and from the last to the entry,
they only grow; a clean entry has no more of them than any save under way, so
dropping it drops nothing. `BasisNeverGoesBack` (the action property
`BasisAdvances`) rests on `AnswersAreNow`: while the user writes alone and no call
is lost, the chain is serial and a landed answer names the current version.

**InflightReadsProofs**. `OneReadCounts`, `StaleIsAlwaysLabelled` and the action
property `ListingNeverGoesBack`. A grid may be stale while a read of it is in
flight, so the invariant must say what that read may bring: nothing older than
what is shown, and nothing older than what the client was told of unless it is
owed a re-read (`Fresh`); and a cancelled read that is still heard brings nothing
older than what is shown, nor newer than its successor will (`Heard`). `Known` supplies the rest: nothing the client has, was
told or is about to be told is ahead of the node. `OneRead` is inductive by
itself, and what makes it so is that a release looks whose claim it finds
(`Freed`).

**EventHubProofs**. `NoWakeupIsLost`, and `SubscriptionsAreMailboxes`: for every
subscriber the code's queue, pending map, wake channel and pump implement
`Mailbox`. The invariant ties the wake flag and the pump's location to the queue
(`Waked`), the pending map to the queue (`Handed`, `Ordered`), and counts the
fallback keys of unkeyed events (`Numbered`): there are never more of them than
events published, so a fallback key is always fresh, without which two unkeyed
events would coalesce and the refinement would fail.

Of `TileFeed`: `TileHasOneHome` and `HandIsFollowed`, for any grids, places,
writers and moves. The cache has four ways to change its rows: an event admitted, a
read put, a write's answer stored, a refused placement put back. Each must leave
rows that have the tile in one grid at most (`AtHome`) and, while a placement is
held, there (`UnderHand`). They do, because a row is stored through
`evictElsewhereLocked` only, and under a hold each of them shows the held row. What is
put back by a refusal is the held write's own origin, so `MovesKnown` says that a
held write was made and has one, and that a landed write has an answer. Neither
theorem needs any of the excuses.

`EventsReconcile` is the third: once nothing travels and nothing is held, the
screen shows the tile where the node has it, unless an excuse was met. Its
invariant is `Follows`, which adds three things to the above.

- `Said`: an event, a landed answer or an answered read says no more than the node
  did; an event of the newest commit says what the row is now; the box holds one
  event per key; a request tells the removal before the row. That a removal's key
  is never a row's is an assumption on the names (`FeedAssumption`), as the code's
  keys differ in form (`api/rpc/event.go`).
- `CacheIsTrue`: no row shown is newer than the node's. A held tile is shown, where
  its write put it.
- `Settled`: while no excuse was met, the newest row is awaited or it is kept.
  `Awaited` is what may still bring it: its own event, the reads of a stream about
  to be opened, a read not yet answered, owed again, or answered after the commit.
  `Kept` is that the home grid shows it, or that a hold covers it: then the hold
  still knows the place the row is at (`Knows`), since that is where a read or the
  next row must leave it. `InOrder` is why applying an older event never costs the
  newest row: rows are sent in the order of their commits, none is on its way
  without the newest behind it, and a read that missed the newest row is owed again
  once the stream has carried it.

Every way to lose the newest row is a step that meets an excuse, so the proof also
says that the six are all there are. It found the excuse "late answer" too narrow:
see below.

**SourceCacheProofs**. Of `SourceCache`, over the promise of `TouchedKeys`:
`NoOldBodyIsKept`, the action property `NoAnswerUndoesAFold`, `RowsConverge` and
`EveryChangeIsAnnounced`, which are all that its run checks. The invariant has
four layers, each proved on the ones before.

- `Typed`: the types, what each reader may be asking for (`Assigned`), what an
  event says (`Spoken`), and that a queue names an entity once, since a coalesced
  queue is one whose every event can be told from the others by its key.
- `Newer`: a row carries the number of its commit. Nothing told, folded or
  answered is ahead of the far node (`Behind`). An answer whose key no fold has
  touched is as new as the last fold and as any fold recorded and not yet written
  (`AheadOfFolds`), which is why a fold is recorded before it is written and not
  after. `BodiesNew` is the same of bodies and the user's own edit: between its
  answer and the record of its drop a body read may still bring the old one, and
  the drop takes it.
- `Ordered`: unless the stream lost an event or coalesced a move out of its order,
  the last event about the tile on the wire says how it is now (`InOrder`), and
  the event at hand is that one or is followed by it (`RelayOrdered`). An answer
  is the tile as it is, or the last event is still to come, or a fold has touched
  its key (`AnswersNow`). Hence with nothing on its way the cached rows match
  (`RowsMatch`).
- `Announcing`, which allows lost events: what a client was served of a grid is
  cached still, or it has been cued, or an event about it is on its way
  (`ServedKnown`), or the grid is evicted and what was served is so. The user's
  own read that has not been handed over is the one way round this: what came to
  be cached meanwhile was cued or is `silent`, and its answer is the present or an
  event is coming (`UserReadKnown`).

Of `FoldOrder`: `CountsHold`, the count of reads in flight is exact, and
`KeepsItsPromise`: one number per fold, a stamp per key and a wholesale drop of
stamps implement `TouchedKeys`, by the refinement that reads off the keys stamped
after a read began.

**StoreProofs**. `CountsAreExact`, `OwnershipHolds`, `EveryGridIsReached`,
`SelectionsHold`, `EventsTellWrites`, and the action property
`DeletesDestroyOnlyTrash`. Reachability is not inductive, and "there is a path to a
root" is awkward without recursion; the invariant says instead that every
non-empty set of grids no door outside it leads into holds a root (`Rooted`), from
which `Reached` follows because the grids that are not reached are such a set
(`RootedReaches`). That a move makes no ring is then the guard's doing
(`NoRing`), since the grid a door moves to is not under it. A cascade removes a
closed set of grids, so what is left keeps every conjunct; a deep copy adds one
fresh grid per grid copied (`Fresh`), each with one owner.

**SupervisorProofs**. For the supervisor alone (`SupInv`: types, `NoneLeftBehind`,
`StopHolds`, `WatchKnows`): `NoProcessIsLeftBehind`, `StopIsForGood`,
`RestingHealthIsTheProcess`. `PluginHealthImplementsSupervisor`: the plugin with
its listings and clients takes only a supervisor's steps. For the pair
(`ToldInv`): `NoOutageGoesUntold`. That proof has two regimes: before any listing
found the source dark the client's copy is the process's alone (`ProcessIsTold`),
and afterwards the host's copy stands between (`SourceIsTold`); in each, box and
copy agree with what is so whenever no telling is pending. The history variable
`crossed` excludes the news that overtook other news on its way.

Of `Watch`: `ShownStaysCurrent` and `OutageEndIsHeard`, for any clients, grids and
listings. The invariant is `Watching`. Its heart is `ChecksHold`: while the source
answers, a grid whose every change has been checked (`Checked`: it is covered, no
stream still has news of it, no check is under way, nothing was missed) is held as the
source lists it by every client not cued (`HoldsNow`), and a client's listing still
under way that is older will be found out (`OldIsRaced`: a note made since differs from
it, or its client is cued). Three facts feed it. A check that found the source
answering found what it lists, or its stream has told of a change since
(`ChecksAreNow`). What a client holds is noted, so a check compares with it
(`HeldIsNoted`). And the scope's bookkeeping is exact (`Followed`): a stream covers
what was watched until it is replaced, so a grid in both scopes is never uncovered.
An outage is a second regime, where nothing is claimed until the source answers, and
then everyone is cued (`DarkKnown`). The proof found a hole the run's bounds are too
small for, the second half of finding 7: `missed` had left it out.

**ConnectionProofs**. `NothingLeaks`, `DisabledCarriesNothing`,
`NoChangeGoesUntold`, the action property `LandingStaysBound`, and `EndsForGood`,
the safety half of `Close`. The invariant places every transport that is open
(`Placed`), says what each task carries across the lock it released (`Carries`),
what is still to be told (`Tidings`), and what is stored and known (`Bound`).

**ShownProofs** (`Slots` is finite, since a client's streams are counted).
`WatchedIsAlwaysHeard` and `ShownIsAlwaysWatched`: the count of a session is the
number of its counted streams (`CountExact`), the union is what the counted and
idle sessions show (`UnionExact`), a slot belongs to one session (`SlotsOwned`),
and what a session is believed to show is what it shows (`Told`).

### What is only model-checked

- Liveness (`Converges`, `PublishReturns`, `Delivers`, `PumpEnds`, `CloseEnds`,
  `GoneIsUnwatched`): the prover has no rule for fairness, as it needs ENABLED.
- `NoLostUpdate`, which is refuted, and so has no proof. Every other safety
  property of a run is a theorem.
- What a recursive definition computes: none is used in a module with proofs.

## Findings

`lost_update` is a run TLC refutes; the others are stated in the modules as
properties the code breaks, and any of them can be added to the cfg of its module.

1. `NoLostUpdate` (`client/wasm/mutate.go:341`): a save queued behind one the node
   refuses runs after its entry was dropped, claims the row instead, and
   overwrites a word the user never saw.
2. `ErasedStaysErased` (`client/cache/cache.go:190`): typing that returns to the
   bytes of the save in flight is marked clean while other bytes are queued behind
   it; the queued save then files the word the user erased.
3. `RefusalIsCurrent` (`client/wasm/main.go:802`): a refusal taken before a change
   latches the key after the change was told, and the re-read owed is refused.
4. `ReconciledAfterStaleReads` (`client/cache/cache.go:276`): a read answered
   before a cross-grid move and landing after its events takes the tile from its
   new home; the re-read finds it gone from the old one too.
5. `ReconciledAfterConflicts` (`client/wasm/drop_commit.go:148`): a refused
   placement re-reads the grid the drag began in, though the hold covered the row
   that said the tile is in the other.
6. `CuesRefresh` (`internal/sourcecache/sourcecache.go:481`): a cue to read again
   is answered from the rows it is about.
7. `ScopeChangeLosesNoChange` (`internal/pluginhost/watch.go:172`): a change the
   replaced stream had told and the host had not read goes with that stream; only
   the grids the new scope adds are listed again. So does a change told only to a
   stream being opened, when the scope moves once more before it is swapped in and
   the old stream has ended meanwhile: `followScope` does not look at it while it
   waits for the new one. (One client, three views, one change and one fault show it.)
8. `HeldIsCurrent` (`internal/local/store/trash.go:121`): a month's first delete
   makes a door in the trash that no event names.
9. `DarkIsOneFact` (`internal/pluginhost/adapter.go:296`): a new subscriber is told
   of an outage and never of its end; a client that lost its stream during one
   keeps the plugin dark.
10. `OutagesAreAlwaysTold` (`internal/pluginhost/adapter.go:280`): a client attaches
    to the hub before it listens to the supervisor, so another client's listener can
    put an older "down" behind the answer it is about to be given, and it ends dark
    over a healthy plugin, or the other way round. Listings that end together
    publish in either order.
11. `RefusedServesNothing` (`internal/connection/connection.go:541`): the next
    failure or recovery recorded overwrites a landing's mismatch, and the other
    node's tiles are served under the stored ids.

Met while modelling, and left as stated excuses, history variables or bounds:

- Events of two writers may be published in the opposite order of their commits,
  and a tile's change and its removal are coalesced apart, so that the hub can
  deliver a change made after a removal before it. A placement has no version to
  tell (`excuse` "order" in `TileFeed`).
- A hold whose echo was coalesced into a later move is ended only by the next read
  after its answer. A placement whose answer arrives after another client's move
  was applied shows the older place ("late answer"), one given up on is put back
  without a read ("unheard"), and a read that ends a hold uncovers only its own
  grid ("covered"). The proof of `EventsReconcile` found a second late answer: an
  earlier placement's, whose place is the one a later, landed hold shows. It changes
  no row and passes for the node's word on the later one (`admitLocked` asks only
  that the hold has landed, `client/cache/placement.go`), so it ends the hold over a
  newer row that the hold had covered. Two placements and four commits show it, more than the
  run's bounds hold.
- Arriving somewhere clears every latch, and a held grid that was labelled
  unreachable is then neither labelled nor asked (`astray`).
- With a body another document also holds, a body read before an edit and landing
  after it was undone passes for current: the blob's id is the same
  (`content_save_live` sets `Shared = {}`).
- Source cache: a write's answer may be folded after a newer event, and the
  answer of a delete, which names no row, takes the tile out of the trash grid's
  cached rows when that grid's event was folded first (`excuse` "late answer");
  the walk, a
  `GetTile` and a fold install rows that no event announces (`silent`); the
  served-page cache does not install through the fold order; a body read across
  its tile's eviction stays without a row; a revalidation does not look whether
  the layer is closed.
- Store: a door to another node's grid, put in the trash and named for a month,
  makes every delete of that month fail (`trash.go:104-108`); the ring check gives
  up past 256 ancestors.
- Supervisor: the process's "up" erases a standing outage of its source
  (`docs/freshness.md:602` keeps them apart), and `setSource` asks whether the
  process is up and publishes after its unlock.
- Connection: two first learns at once overwrite the landing, and publish after
  their unlock in either order (`raced`, `crossed`); learns nobody counts outlive
  `Close`. A first learn that outlived the switch publishes that the connection is
  up (`DisabledIsTold`, `connection.go:482`); the router tells clients of a disabled
  source whatever a layer under it says (`asSwitched`, `router.go:720`), so that
  news stays inside the node.
- Shown: a view whose call was given up on waits for the next change, an idle
  session past the limit loses its view, and an abandoned call may land after a
  newer one.

## Not modelled, and the plan

Not modelled yet: terminals (`ShellSession`: takeover and release, the client's
registry of streams), navigation (`Nav`: descents overtaken by gestures), the
outbox's other kinds (layouts, the pagehide beacon), several documents at once,
the served-page cache, the pacing of walks, rows of other namespaces in the
store, the router's tables, addresses and ids. `PROJECT.json` says for each
component what is left, and which hazards no property covers and why.

Next, in order of worth:

1. `ShellSession`, then the outbox's other kinds in `ContentSave`.
2. `Nav`.

Never in reach here: geometry and drawing, wording of messages, the SQLite engine
and gRPC themselves (a transaction is one step, a call is asked, answered and
landed), and real time: a deadline is an action that may fire at any moment.

## Running

    tlc -workers 2 -config content_save.cfg MCContentSaveCases
    tlapm ContentSaveProofs.tla
