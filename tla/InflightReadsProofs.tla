------------------------ MODULE InflightReadsProofs ------------------------
(***************************************************************************)
(* One read is waited for and what is stale is labelled, for any number of *)
(* reads, listings, rows and faults.                                       *)
(*                                                                         *)
(* Labelling is not inductive: a read in flight will replace what is       *)
(* shown.  The invariant says what that read may bring: nothing older than *)
(* what is shown, and nothing older than what the client was told of       *)
(* unless a re-read is owed; that a read heard though cancelled brings     *)
(* nothing older than what is shown nor newer than its successor; and that *)
(* the client is told of nothing the node has not come to.                 *)
(***************************************************************************)
EXTENDS InflightReads, TLAPS

\* Nothing the client has, is told or is about to be told is ahead of the node.
Known ==
    /\ told.listing <= listing /\ told.row <= row /\ cache.listing <= listing
    /\ \A i \in DOMAIN stream :
          stream[i].version <= IF stream[i].kind = "GridChanged" THEN listing ELSE row

\* The answer that counts is not behind what is shown, nor behind what the
\* client was told, unless it is owed a re-read.
Fresh ==
    claim # None /\ fetch[claim].phase = "answered" =>
        /\ cache.listing <= fetch[claim].listing /\ fetch[claim].listing <= listing
        /\ fetch[claim].owed \/ Current(fetch[claim])

\* A read that is heard though cancelled is the only such one, has a successor
\* in flight, and brings nothing older than what is shown nor newer than what
\* the successor brings.
Heard ==
    \A f \in Back :
        /\ claim # None /\ fetch[f].cancelled /\ fetch[f].phase \in {"answered", "failed"}
        /\ \A g \in Back : g = f
        /\ fetch[f].phase = "answered" =>
              /\ cache.listing <= fetch[f].listing /\ fetch[f].listing <= listing
              /\ fetch[claim].phase = "answered" => fetch[f].listing <= fetch[claim].listing

Inv == TypeOK /\ OneRead /\ Known /\ Fresh /\ Heard /\ StaleIsLabelled

\* The reads fs have one that counts, and it holds the claim c.
One(fs, c) == \A f \in Fetches : fs[f].phase # "free" /\ ~fs[f].cancelled <=> f = c

\* Of the reads fs, those heard though cancelled were so before, with what they
\* brought.
KeepsBack(fs) ==
    \A f \in Fetches : fs[f].back =>
        /\ fetch[f].back /\ fs[f].cancelled = fetch[f].cancelled
        /\ fs[f].phase = fetch[f].phase /\ fs[f].listing = fetch[f].listing

\* A read in flight is one of the fetches, and a new one is asked and no more.
LEMMA AskedIs ==
    /\ Asked \in Fetch /\ Asked.phase = "asked" /\ ~Asked.cancelled /\ ~Asked.back
    /\ Free \in Fetch /\ Free.phase = "free" /\ ~Free.cancelled /\ ~Free.back
<1>1. 0 \in 0..MaxListing /\ 0 \in 0..MaxRow
  BY ReadsAssumption DEF ReadsAssumption
<1>2. Free \in Fetch /\ Free.phase = "free" /\ ~Free.cancelled /\ ~Free.back
  BY <1>1 DEF Free, Fetch
<1>3. Asked \in Fetch /\ Asked.phase = "asked" /\ ~Asked.cancelled /\ ~Asked.back
  BY <1>1 DEF Asked, Free, Fetch
<1>4. QED
  BY <1>2, <1>3

\* A fetch takes the free claim with a read not in use, or changes nothing.
LEMMA FetchTakes ==
    ASSUME NEW fs \in [Fetches -> Fetch], NEW c \in Fetches \cup {None}, NEW l, One(fs, c),
           FetchGrid(fs, c, l)
    PROVE  /\ claim' \in Fetches \cup {None} /\ fetch' \in [Fetches -> Fetch] /\ OneRead'
           /\ \/ /\ c = None /\ l = "none" /\ claim' # None /\ fs[claim'].phase = "free"
                 /\ fetch'[claim'] = Asked
              \/ ~(c = None /\ l = "none") /\ claim' = c /\ fetch' = fs
           /\ KeepsBack(fs) => KeepsBack(fetch')
<1>1. CASE c = None /\ l = "none"
  <2> DEFINE s == Spare(fs)
  <2>1. s \in Fetches /\ fs[s].phase = "free" /\ claim' = s /\ fetch' = [fs EXCEPT ![s] = Asked]
    BY <1>1 DEF FetchGrid, Spare
  <2> HIDE DEF s
  <2>2. s # None /\ fetch' \in [Fetches -> Fetch] /\ fetch'[s] = Asked
        /\ \A f \in Fetches : f # s => fetch'[f] = fs[f]
    BY <2>1, AskedIs, ReadsAssumption DEF ReadsAssumption
  <2>3. \A f \in Fetches : fetch'[f].phase # "free" /\ ~fetch'[f].cancelled <=> f = claim'
    BY <1>1, <2>1, <2>2, AskedIs, ReadsAssumption DEF One, ReadsAssumption
  <2>4. ASSUME KeepsBack(fs) PROVE KeepsBack(fetch')
    BY <2>1, <2>2, <2>4, AskedIs DEF KeepsBack
  <2>5. QED
    BY <1>1, <2>1, <2>2, <2>3, <2>4 DEF OneRead
<1>2. CASE ~(c = None /\ l = "none")
  BY <1>2 DEF FetchGrid, One, OneRead
<1>3. QED
  BY <1>1, <1>2

\* A change owes the read that counts a re-ask, and changes nothing else.
LEMMA OwedIs ==
    ASSUME TypeOK, OneRead
    PROVE  /\ Owed(fetch) \in [Fetches -> Fetch] /\ One(Owed(fetch), claim)
           /\ claim # None => Owed(fetch)[claim].owed
           /\ KeepsBack(Owed(fetch))
<1>1. CASE claim = None
  BY <1>1 DEF Owed, One, OneRead, TypeOK, KeepsBack
<1>2. CASE claim # None
  <2> DEFINE r == [fetch[claim] EXCEPT !.owed = TRUE]
  <2>1. claim \in Fetches /\ fetch[claim] \in Fetch /\ Owed(fetch) = [fetch EXCEPT ![claim] = r]
    BY <1>2 DEF Owed, TypeOK
  <2>2. /\ r \in Fetch /\ r.owed /\ r.phase = fetch[claim].phase /\ r.cancelled = fetch[claim].cancelled
        /\ r.back = fetch[claim].back /\ r.listing = fetch[claim].listing
    BY <2>1 DEF Fetch
  <2> HIDE DEF r
  <2>3. Owed(fetch) \in [Fetches -> Fetch] /\ Owed(fetch)[claim] = r
        /\ \A f \in Fetches : f # claim => Owed(fetch)[f] = fetch[f]
    BY <2>1, <2>2 DEF TypeOK
  <2>4. One(Owed(fetch), claim)
    BY <2>2, <2>3 DEF One, OneRead
  <2>5. KeepsBack(Owed(fetch))
    BY <2>2, <2>3 DEF KeepsBack
  <2>6. QED
    BY <2>2, <2>3, <2>4, <2>5
<1>3. QED
  BY <1>1, <1>2

\* What the read that counts has brought back is what it had brought.
LEMMA OwedKeepsAnswer ==
    ASSUME TypeOK, claim # None
    PROVE  Owed(fetch)[claim].listing = fetch[claim].listing
           /\ Owed(fetch)[claim].phase = fetch[claim].phase
<1>1. claim \in Fetches /\ fetch[claim] \in Fetch /\ fetch \in [Fetches -> Fetch]
  BY DEF TypeOK
<1>2. Owed(fetch)[claim] = [fetch[claim] EXCEPT !.owed = TRUE]
  BY <1>1 DEF Owed
<1>3. QED
  BY <1>1, <1>2 DEF Fetch

\* Cancelling leaves no read the client waits for, and at most one it hears.
LEMMA CancelledIs ==
    ASSUME TypeOK, OneRead, NEW isBack \in BOOLEAN,
           latch # "none" => \E f \in Fetches : fetch[f].phase = "free"
    PROVE  /\ Cancelled(isBack) \in [Fetches -> Fetch] /\ One(Cancelled(isBack), None)
           /\ \A f \in Fetches : Cancelled(isBack)[f].back =>
                 \/ fetch[f].back /\ f # claim /\ Cancelled(isBack)[f] = fetch[f]
                 \/ /\ isBack /\ f = claim /\ Cancelled(isBack)[f].cancelled
                    /\ Cancelled(isBack)[f].phase = fetch[f].phase
                    /\ Cancelled(isBack)[f].listing = fetch[f].listing
<1>0. fetch \in [Fetches -> Fetch] /\ claim \in Fetches \cup {None} /\ None \notin Fetches
  BY ReadsAssumption DEF TypeOK, ReadsAssumption
<1>1. CASE claim = None /\ latch = "none"
  <2>1. Cancelled(isBack) = fetch
    BY <1>1 DEF Cancelled
  <2>2. QED
    BY <1>0, <1>1, <2>1 DEF One, OneRead
<1>2. CASE claim # None
  <2> DEFINE r == [fetch[claim] EXCEPT !.cancelled = TRUE, !.back = isBack]
  <2>1. claim \in Fetches /\ fetch[claim] \in Fetch /\ Cancelled(isBack) = [fetch EXCEPT ![claim] = r]
    BY <1>0, <1>2 DEF Cancelled
  <2>2. /\ r \in Fetch /\ r.cancelled /\ r.back = isBack /\ r.phase = fetch[claim].phase
        /\ r.listing = fetch[claim].listing
    BY <2>1 DEF Fetch
  <2> HIDE DEF r
  <2>3. Cancelled(isBack) \in [Fetches -> Fetch] /\ Cancelled(isBack)[claim] = r
        /\ \A f \in Fetches : f # claim => Cancelled(isBack)[f] = fetch[f]
    BY <1>0, <2>1, <2>2
  <2>4. One(Cancelled(isBack), None)
    BY <1>0, <2>2, <2>3 DEF One, OneRead
  <2>5. QED
    BY <2>2, <2>3, <2>4
<1>3. CASE claim = None /\ latch # "none"
  <2> DEFINE r == [Asked EXCEPT !.cancelled = TRUE]
             s == Spare(fetch)
  <2>1. s \in Fetches /\ Cancelled(isBack) = [fetch EXCEPT ![s] = r]
    BY <1>3 DEF Cancelled, Spare
  <2>2. r \in Fetch /\ r.cancelled /\ ~r.back
    BY AskedIs DEF Fetch
  <2> HIDE DEF r, s
  <2>3. Cancelled(isBack) \in [Fetches -> Fetch] /\ Cancelled(isBack)[s] = r
        /\ \A f \in Fetches : f # s => Cancelled(isBack)[f] = fetch[f]
    BY <1>0, <2>1, <2>2
  <2>4. One(Cancelled(isBack), None)
    BY <1>0, <1>3, <2>2, <2>3 DEF One, OneRead
  <2>5. QED
    BY <1>0, <1>3, <2>2, <2>3, <2>4
<1>4. QED
  BY <1>1, <1>2, <1>3

\* The invariant holds of a client that has asked nothing.
LEMMA InitHolds ==
    ASSUME Init
    PROVE  Inv
<1>1. /\ listing = 1 /\ row = 1 /\ gone \subseteq {1} /\ stream = <<>> /\ open = TRUE
      /\ claim = None /\ fetch = [f \in Fetches |-> Free] /\ latch = "none" /\ cache = NoGrid
      /\ told = [listing |-> 0, row |-> 0] /\ verdict = 0 /\ astray = FALSE /\ faults = 0
  BY DEF Init
<1>2. MaxListing \in Nat \ {0} /\ MaxRow \in Nat \ {0} /\ MaxFaults \in Nat /\ None \notin Fetches
  BY ReadsAssumption DEF ReadsAssumption
<1>3. fetch \in [Fetches -> Fetch] /\ \A f \in Fetches : fetch[f].phase = "free" /\ ~fetch[f].back
  BY <1>1, AskedIs
<1>4. TypeOK
  <2>1. listing \in Listing /\ row \in Row /\ gone \subseteq 1..listing /\ verdict \in 0..MaxListing
        /\ faults \in 0..MaxFaults
    BY <1>1, <1>2 DEF Listing, Row
  <2>2. stream \in Seq(Event)
    BY <1>1
  <2>3. cache \in Grid /\ told \in [listing : 0..MaxListing, row : 0..MaxRow]
    BY <1>1, <1>2 DEF Grid, NoGrid
  <2>4. QED
    BY <1>1, <1>3, <2>1, <2>2, <2>3 DEF TypeOK
<1>5. OneRead
  BY <1>1, <1>2, <1>3 DEF OneRead
<1>6. Known
  BY <1>1 DEF Known, NoGrid
<1>7. Fresh /\ StaleIsLabelled
  BY <1>1 DEF Fresh, StaleIsLabelled, NoGrid
<1>8. Heard
  BY <1>3 DEF Heard, Back
<1>9. QED
  BY <1>4, <1>5, <1>6, <1>7, <1>8 DEF Inv

\* What a read that has begun and not been cancelled holds: the claim.
LEMMA ClaimHeld ==
    ASSUME Inv
    PROVE  /\ claim # None => /\ claim \in Fetches /\ fetch[claim] \in Fetch
                              /\ fetch[claim].phase # "free" /\ ~fetch[claim].cancelled
           /\ listing \in Nat /\ row \in Nat /\ cache.listing \in Nat /\ cache.row \in Nat
           /\ told.listing \in Nat /\ told.row \in Nat
           /\ listing <= MaxListing /\ row <= MaxRow /\ MaxListing \in Nat /\ MaxRow \in Nat
<1>1. MaxListing \in Nat \ {0} /\ MaxRow \in Nat \ {0}
  BY ReadsAssumption DEF ReadsAssumption
<1>2. claim # None => claim \in Fetches /\ fetch[claim] \in Fetch
  BY DEF Inv, TypeOK
<1>3. claim # None => fetch[claim].phase # "free" /\ ~fetch[claim].cancelled
  BY <1>2 DEF Inv, OneRead
<1>4. QED
  BY <1>1, <1>2, <1>3 DEF Inv, TypeOK, Listing, Row, Grid

\* What a step cancels no answered read in keeps heard what was, as long as it
\* leaves the listing shown alone and somebody in flight, whose answer is either
\* the one it had or the node's of this moment.
LEMMA HeardStays ==
    ASSUME Inv, KeepsBack(fetch'), claim # None => claim' # None,
           cache'.listing = cache.listing, listing' \in Nat, listing <= listing',
           \/ fetch'[claim'].phase # "answered"
           \/ fetch'[claim'].listing = listing'
           \/ /\ claim' = claim /\ fetch[claim].phase = "answered"
              /\ fetch'[claim'].listing = fetch[claim].listing
    PROVE  Heard'
<1> SUFFICES ASSUME NEW f \in Back'
             PROVE  /\ claim' # None /\ fetch'[f].cancelled /\ fetch'[f].phase \in {"answered", "failed"}
                    /\ \A g \in Back' : g = f
                    /\ fetch'[f].phase = "answered" =>
                          /\ cache'.listing <= fetch'[f].listing /\ fetch'[f].listing <= listing'
                          /\ fetch'[claim'].phase = "answered" => fetch'[f].listing <= fetch'[claim'].listing
  BY DEF Heard
<1>1. \A g \in Back' : g \in Back
  BY DEF Back, KeepsBack
<1>2. f \in Fetches /\ f \in Back /\ fetch'[f].cancelled = fetch[f].cancelled
      /\ fetch'[f].phase = fetch[f].phase /\ fetch'[f].listing = fetch[f].listing
  BY <1>1 DEF Back, KeepsBack
<1>3. /\ claim # None /\ fetch[f].cancelled /\ fetch[f].phase \in {"answered", "failed"}
      /\ \A g \in Back : g = f
      /\ fetch[f].phase = "answered" =>
            /\ cache.listing <= fetch[f].listing /\ fetch[f].listing <= listing
            /\ fetch[claim].phase = "answered" => fetch[f].listing <= fetch[claim].listing
  BY <1>2 DEF Inv, Heard
<1>4. fetch[f].listing \in Nat /\ listing \in Nat
  BY <1>2, ClaimHeld, ReadsAssumption DEF Inv, TypeOK, Fetch, ReadsAssumption
<1>5. QED
  BY <1>1, <1>2, <1>3, <1>4

\* The reads as they stand keep what they brought.
LEMMA SameKeepsBack == KeepsBack(fetch)
BY DEF KeepsBack

\* A read that has just been asked promises nothing: all the invariant says of
\* it follows, and what is shown may be stale while it is in flight.
LEMMA AskedKeeps ==
    ASSUME claim' # None, fetch'[claim'] = Asked
    PROVE  Fresh' /\ StaleIsLabelled'
BY AskedIs DEF Fresh, StaleIsLabelled

\* An event is published at most once, and tells of what the node has come to.
LEMMA PublishKnown ==
    ASSUME Inv, NEW e \in Event, Publish(e), listing' \in Nat, row' \in Nat,
           listing <= listing', row <= row',
           e.version <= IF e.kind = "GridChanged" THEN listing' ELSE row',
           UNCHANGED <<told, cache>>
    PROVE  stream' \in Seq(Event) /\ Known'
<1>1. stream \in Seq(Event) /\ stream' \in Seq(Event)
  BY DEF Publish, Inv, TypeOK
<1>2. ASSUME NEW i \in DOMAIN stream'
      PROVE  stream'[i].version <= IF stream'[i].kind = "GridChanged" THEN listing' ELSE row'
  <2>1. \/ i \in DOMAIN stream /\ stream'[i] = stream[i]
        \/ stream'[i] = e
    BY <1>1, <1>2 DEF Publish
  <2>2. CASE i \in DOMAIN stream /\ stream'[i] = stream[i]
    <3>0. stream[i] \in Event
      BY <1>1, <2>2
    <3>1. stream[i].version \in Nat
      BY <3>0 DEF Event
    <3>2. stream[i].version <= IF stream[i].kind = "GridChanged" THEN listing ELSE row
      BY <2>2 DEF Inv, Known
    <3>3. QED
      BY <2>2, <3>1, <3>2, ClaimHeld
  <2>3. CASE stream'[i] = e
    BY <2>3
  <2>4. QED
    BY <2>1, <2>2, <2>3
<1>3. told'.listing <= listing' /\ told'.row <= row' /\ cache'.listing <= listing'
  BY ClaimHeld DEF Inv, Known
<1>4. QED
  BY <1>1, <1>2, <1>3 DEF Known

\* The listing moves: nothing the client holds or is told moves with it.
LEMMA NodeRelistsKeeps ==
    ASSUME Inv, NEW isGone \in BOOLEAN, NodeRelists(isGone)
    PROVE  Inv'
<1> USE ClaimHeld
<1>1. listing' = listing + 1 /\ listing + 1 \in Listing /\ gone' \subseteq 1..listing'
      /\ UNCHANGED <<row, open, claim, fetch, latch, cache, told, verdict, astray, faults>>
  BY DEF NodeRelists, Inv, TypeOK, Listing
<1>2. GridChanged(listing + 1) \in Event /\ GridChanged(listing + 1).version = listing + 1
      /\ GridChanged(listing + 1).kind = "GridChanged"
  BY DEF GridChanged, Event
<1>3. stream' \in Seq(Event) /\ Known'
  BY <1>1, <1>2, PublishKnown DEF NodeRelists, Listing
<1>4. TypeOK'
  BY <1>1, <1>3 DEF Inv, TypeOK
<1>5. OneRead' /\ StaleIsLabelled'
  BY <1>1 DEF Inv, OneRead, StaleIsLabelled, Current
<1>6. Fresh'
  BY <1>1 DEF Inv, Fresh, Current, Fetch
<1>7. KeepsBack(fetch')
  BY <1>1 DEF KeepsBack
<1>8. Heard'
  BY <1>1, <1>7, HeardStays DEF Listing
<1>9. QED
  BY <1>3, <1>4, <1>5, <1>6, <1>8 DEF Inv

\* The row moves.
LEMMA NodeMovesRowKeeps ==
    ASSUME Inv, NodeMovesRow
    PROVE  Inv'
<1> USE ClaimHeld
<1>1. row' = row + 1 /\ row + 1 \in Row
      /\ UNCHANGED <<listing, gone, open, claim, fetch, latch, cache, told, verdict, astray, faults>>
  BY DEF NodeMovesRow, Inv, TypeOK, Row
<1>2. TileChanged(row + 1) \in Event /\ TileChanged(row + 1).version = row + 1
      /\ TileChanged(row + 1).kind = "TileChanged"
  BY DEF TileChanged, Event
<1>3. stream' \in Seq(Event) /\ Known'
  BY <1>1, <1>2, PublishKnown DEF NodeMovesRow, Row
<1>4. TypeOK'
  BY <1>1, <1>3 DEF Inv, TypeOK
<1>5. OneRead' /\ StaleIsLabelled' /\ Fresh'
  BY <1>1 DEF Inv, OneRead, StaleIsLabelled, Fresh, Current
<1>6. KeepsBack(fetch')
  BY <1>1 DEF KeepsBack
<1>7. Heard'
  BY <1>1, <1>6, HeardStays
<1>8. QED
  BY <1>3, <1>4, <1>5, <1>7 DEF Inv

\* What the node, the stream and the cache say of each other is untouched by a
\* step that touches none of them.
LEMMA KnownStays ==
    ASSUME Inv, UNCHANGED <<listing, row, stream, cache, told>>
    PROVE  Known'
BY DEF Inv, Known

\* The types outlast a step of the client that leaves the node and the stream.
LEMMA ClientTypes ==
    ASSUME Inv, UNCHANGED <<listing, gone, row, stream, told>>, open' \in BOOLEAN,
           claim' \in Fetches \cup {None}, fetch' \in [Fetches -> Fetch],
           latch' \in {"none", "refused", "unreachable"}, cache' \in Grid,
           verdict' \in 0..MaxListing, astray' \in BOOLEAN, faults' \in 0..MaxFaults
    PROVE  TypeOK'
BY DEF Inv, TypeOK

\* The reads as they stand have one that counts.
LEMMA Stands ==
    ASSUME Inv
    PROVE  One(fetch, claim) /\ fetch \in [Fetches -> Fetch] /\ claim \in Fetches \cup {None}
BY DEF Inv, OneRead, One, TypeOK

\* A draw asks for the grid it misses.
LEMMA DrawKeeps ==
    ASSUME Inv, Draw
    PROVE  Inv'
<1>1. claim' \in Fetches \cup {None} /\ fetch' \in [Fetches -> Fetch] /\ OneRead'
      /\ claim' # None /\ fetch'[claim'] = Asked /\ KeepsBack(fetch')
  BY Stands, SameKeepsBack, FetchTakes DEF Draw
<1>2. UNCHANGED <<listing, gone, row, stream, open, latch, cache, told, verdict, faults>> /\ astray' = FALSE
  BY DEF Draw, node
<1>3. TypeOK'
  BY <1>1, <1>2, ClientTypes DEF Inv, TypeOK
<1>4. Heard'
  BY <1>1, <1>2, ClaimHeld, AskedIs, HeardStays
<1>5. QED
  BY <1>1, <1>2, <1>3, <1>4, KnownStays, AskedKeeps DEF Inv

\* Arriving asks only for a grid it misses, and a held one is left astray.
LEMMA ArriveKeeps ==
    ASSUME Inv, Arrive
    PROVE  Inv'
<1>1. UNCHANGED <<listing, gone, row, stream, open, cache, told, verdict, faults>> /\ latch' = "none"
      /\ astray' = (~Asks /\ (astray \/ (cache.held /\ claim = None)))
  BY DEF Arrive, node
<1>2. astray' \in BOOLEAN
  BY <1>1
<1>3. CASE cache.held
  <2>1. UNCHANGED <<claim, fetch>>
    BY <1>3 DEF Arrive
  <2>2. TypeOK'
    BY <1>1, <1>2, <2>1, ClientTypes DEF Inv, TypeOK
  <2>3. OneRead' /\ Fresh' /\ Heard'
    BY <1>1, <2>1 DEF Inv, OneRead, Fresh, Heard, Back, Current
  <2>4. StaleIsLabelled'
    BY <1>1, <1>3, <2>1 DEF StaleIsLabelled, Asks
  <2>5. QED
    BY <1>1, <2>2, <2>3, <2>4, KnownStays DEF Inv
<1>4. CASE ~cache.held
  <2>1. FetchGrid(fetch, claim, "none")
    BY <1>4 DEF Arrive
  <2>2. /\ claim' \in Fetches \cup {None} /\ fetch' \in [Fetches -> Fetch] /\ OneRead'
        /\ \/ claim' # None /\ fetch'[claim'] = Asked
           \/ claim # None /\ claim' = claim /\ fetch' = fetch
        /\ KeepsBack(fetch')
    BY <2>1, Stands, SameKeepsBack, FetchTakes
  <2>3. TypeOK'
    BY <1>1, <1>2, <2>2, ClientTypes DEF Inv, TypeOK
  <2>4. Fresh' /\ StaleIsLabelled'
    BY <1>1, <1>4, <2>2, AskedKeeps DEF Inv, Fresh, StaleIsLabelled, Current
  <2>5. Heard'
    BY <1>1, <2>2, ClaimHeld, AskedIs, HeardStays
  <2>6. QED
    BY <1>1, <2>2, <2>3, <2>4, <2>5, KnownStays DEF Inv
<1>5. QED
  BY <1>3, <1>4

\* The tick asks for what was unreachable.
LEMMA BackstopKeeps ==
    ASSUME Inv, Backstop
    PROVE  Inv'
<1>1. UNCHANGED <<listing, gone, row, stream, open, cache, told, verdict, faults>> /\ latch' = "none"
      /\ astray' = (~Asks /\ astray)
  BY DEF Backstop, node
<1>2. /\ claim' \in Fetches \cup {None} /\ fetch' \in [Fetches -> Fetch] /\ OneRead'
      /\ \/ claim' # None /\ fetch'[claim'] = Asked
         \/ claim # None /\ claim' = claim /\ fetch' = fetch
      /\ KeepsBack(fetch')
  BY Stands, SameKeepsBack, FetchTakes DEF Backstop
<1>3. astray' \in BOOLEAN
  BY <1>1 DEF Inv, TypeOK
<1>4. TypeOK'
  BY <1>1, <1>2, <1>3, ClientTypes DEF Inv, TypeOK
<1>5. Fresh' /\ StaleIsLabelled'
  BY <1>1, <1>2, AskedKeeps DEF Inv, Fresh, StaleIsLabelled, Current
<1>6. Heard'
  BY <1>1, <1>2, ClaimHeld, AskedIs, HeardStays
<1>7. QED
  BY <1>1, <1>2, <1>4, <1>5, <1>6, KnownStays DEF Inv

\* A resync asks for the grid unless nothing of it is held, latched or in flight;
\* what it still hears was answered since what is shown.
LEMMA ResyncAsks ==
    ASSUME Inv, Resync, UNCHANGED <<listing, cache>>
    PROVE  /\ claim' \in Fetches \cup {None} /\ fetch' \in [Fetches -> Fetch] /\ OneRead'
           /\ latch' = "none" /\ astray' \in BOOLEAN
           /\ \/ claim' # None /\ fetch'[claim'] = Asked
              \/ ~cache.held /\ claim' = None
           /\ Heard'
<1>1. latch' = "none" /\ astray' \in BOOLEAN
  BY DEF Resync, Inv, TypeOK
<1>2. CASE cache.held \/ claim # None \/ latch # "none"
  <2>1. PICK isBack \in BOOLEAN : (isBack => MayBeBack) /\ FetchGrid(Cancelled(isBack), None, "none")
    BY <1>2 DEF Resync
  <2> DEFINE fs == Cancelled(isBack)
  <2>2. /\ fs \in [Fetches -> Fetch] /\ One(fs, None)
        /\ \A f \in Fetches : fs[f].back =>
              \/ fetch[f].back /\ f # claim /\ fs[f] = fetch[f]
              \/ /\ isBack /\ f = claim /\ fs[f].cancelled
                 /\ fs[f].phase = fetch[f].phase /\ fs[f].listing = fetch[f].listing
    BY CancelledIs DEF Inv, Resync
  <2> HIDE DEF fs
  <2>3. /\ claim' \in Fetches \cup {None} /\ fetch' \in [Fetches -> Fetch] /\ OneRead'
        /\ claim' # None /\ fetch'[claim'] = Asked
    BY <2>1, <2>2, FetchTakes DEF fs
  <2>4. \A f \in Fetches : fetch'[f].back => fetch'[f] = fs[f]
    <3> DEFINE s == Spare(fs)
    <3>1. fetch' = [fs EXCEPT ![s] = Asked]
      BY <2>1 DEF FetchGrid, fs
    <3> HIDE DEF s
    <3>2. QED
      BY <2>2, <3>1, AskedIs
  <2>5. Heard'
    <3>1. fetch'[claim'].phase # "answered"
      BY <2>3, AskedIs
    <3>2. CASE isBack
      <4>1. /\ claim \in Fetches /\ fetch[claim].phase \in {"answered", "failed"} /\ Back = {}
            /\ fetch[claim].phase = "answered" =>
                  cache.listing <= fetch[claim].listing /\ fetch[claim].listing <= listing
        BY <2>1, <3>2, ClaimHeld DEF MayBeBack, Inv, Fresh
      <4>2. \A f \in Back' : /\ f = claim /\ fetch'[f].cancelled /\ fetch'[f].phase = fetch[claim].phase
                             /\ fetch'[f].listing = fetch[claim].listing
        BY <2>2, <2>4, <4>1 DEF Back
      <4>3. QED
        BY <2>3, <3>1, <4>1, <4>2 DEF Heard
    <3>3. CASE ~isBack
      <4>1. \A f \in Back' : f \in Back /\ fetch'[f] = fetch[f]
        BY <2>2, <2>4, <3>3 DEF Back
      <4>2. QED
        BY <2>3, <3>1, <4>1 DEF Inv, Heard
    <3>4. QED
      BY <3>2, <3>3
  <2>6. QED
    BY <1>1, <2>3, <2>5
<1>3. CASE ~(cache.held \/ claim # None \/ latch # "none")
  <2>1. UNCHANGED <<claim, fetch>>
    BY <1>3 DEF Resync
  <2>2. QED
    BY <1>1, <1>3, <2>1, Stands DEF Inv, OneRead, Heard, Back
<1>4. QED
  BY <1>2, <1>3

\* The stream opens again: the client is told of all the node has come to.
LEMMA ReopenKeeps ==
    ASSUME Inv, Reopen
    PROVE  Inv'
<1> USE ClaimHeld
<1>1. /\ UNCHANGED <<listing, gone, row, stream, cache, verdict, faults>> /\ open' = TRUE
      /\ told' = [listing |-> listing, row |-> row] /\ Resync
  BY DEF Reopen, node
<1>2. /\ claim' \in Fetches \cup {None} /\ fetch' \in [Fetches -> Fetch] /\ OneRead'
      /\ latch' = "none" /\ astray' \in BOOLEAN
      /\ \/ claim' # None /\ fetch'[claim'] = Asked
         \/ ~cache.held /\ claim' = None
      /\ Heard'
  BY <1>1, ResyncAsks
<1>3. told' \in [listing : 0..MaxListing, row : 0..MaxRow]
  BY <1>1
<1>4. TypeOK'
  BY <1>1, <1>2, <1>3 DEF Inv, TypeOK
<1>5. Known'
  BY <1>1 DEF Inv, Known
<1>6. Fresh' /\ StaleIsLabelled'
  BY <1>1, <1>2, AskedKeeps DEF Fresh, StaleIsLabelled
<1>7. QED
  BY <1>2, <1>4, <1>5, <1>6 DEF Inv

\* A source's settled health asks again.
LEMMA HealthSettlesKeeps ==
    ASSUME Inv, HealthSettles
    PROVE  Inv'
<1>1. /\ UNCHANGED <<listing, gone, row, stream, open, cache, told, verdict>> /\ Resync
      /\ faults' = faults + 1 /\ faults < MaxFaults
  BY DEF HealthSettles, node
<1>2. /\ claim' \in Fetches \cup {None} /\ fetch' \in [Fetches -> Fetch] /\ OneRead'
      /\ latch' = "none" /\ astray' \in BOOLEAN
      /\ \/ claim' # None /\ fetch'[claim'] = Asked
         \/ ~cache.held /\ claim' = None
      /\ Heard'
  BY <1>1, ResyncAsks
<1>3. faults' \in 0..MaxFaults
  BY <1>1, ReadsAssumption DEF Inv, TypeOK, ReadsAssumption
<1>4. TypeOK'
  BY <1>1, <1>2, <1>3, ClientTypes DEF Inv, TypeOK
<1>5. Fresh' /\ StaleIsLabelled'
  BY <1>1, <1>2, AskedKeeps DEF Fresh, StaleIsLabelled
<1>6. QED
  BY <1>1, <1>2, <1>4, <1>5, KnownStays DEF Inv

\* The stream breaks, and what was on it is lost.
LEMMA BreakKeeps ==
    ASSUME Inv, Break
    PROVE  Inv'
<1>1. /\ UNCHANGED <<listing, gone, row, claim, fetch, latch, cache, told, verdict, astray>>
      /\ open' = FALSE /\ stream' = <<>> /\ faults' = faults + 1 /\ faults < MaxFaults
  BY DEF Break, node
<1>2. faults' \in 0..MaxFaults
  BY <1>1, ReadsAssumption DEF Inv, TypeOK, ReadsAssumption
<1>3. stream' \in Seq(Event) /\ DOMAIN stream' = {}
  BY <1>1
<1>4. TypeOK'
  BY <1>1, <1>2, <1>3 DEF Inv, TypeOK
<1>5. OneRead' /\ Known' /\ Fresh' /\ Heard' /\ StaleIsLabelled'
  BY <1>1, <1>3 DEF Inv, OneRead, Known, Fresh, Heard, Back, StaleIsLabelled, Current
<1>6. QED
  BY <1>4, <1>5 DEF Inv

\* The event at the head of the stream tells of what the node has come to.
LEMMA HeadKnown ==
    ASSUME Inv, stream # <<>>, stream' = Tail(stream)
    PROVE  /\ Head(stream) \in Event /\ Head(stream).version \in Nat
           /\ Head(stream).version <= IF Head(stream).kind = "GridChanged" THEN listing ELSE row
           /\ stream' \in Seq(Event)
           /\ \A i \in DOMAIN stream' : i + 1 \in DOMAIN stream /\ stream'[i] = stream[i + 1]
<1>1. stream \in Seq(Event)
  BY DEF Inv, TypeOK
<1>2. 1 \in DOMAIN stream /\ Head(stream) = stream[1] /\ Head(stream) \in Event
  BY <1>1
<1>3. Head(stream).version \in Nat
  BY <1>2 DEF Event
<1>4. Head(stream).version <= IF Head(stream).kind = "GridChanged" THEN listing ELSE row
  BY <1>2 DEF Inv, Known
<1>5. stream' \in Seq(Event)
      /\ \A i \in DOMAIN stream' : i + 1 \in DOMAIN stream /\ stream'[i] = stream[i + 1]
  BY <1>1
<1>6. QED
  BY <1>2, <1>3, <1>4, <1>5

\* A changed listing is asked for, or owed by the read in flight.
LEMMA DeliverGridChangedKeeps ==
    ASSUME Inv, DeliverGridChanged
    PROVE  Inv'
<1> USE ClaimHeld
<1>1. /\ UNCHANGED <<listing, gone, row, open, cache, verdict, faults>>
      /\ stream # <<>> /\ stream' = Tail(stream) /\ Head(stream).kind = "GridChanged"
      /\ told' = [told EXCEPT !.listing = Head(stream).version] /\ latch' = "none"
      /\ astray' = (~Asks /\ astray)
  BY DEF DeliverGridChanged, node
<1>2. Owed(fetch) \in [Fetches -> Fetch] /\ One(Owed(fetch), claim)
      /\ (claim # None => Owed(fetch)[claim].owed) /\ KeepsBack(Owed(fetch))
  BY OwedIs DEF Inv
<1>3. /\ claim' \in Fetches \cup {None} /\ fetch' \in [Fetches -> Fetch] /\ OneRead'
      /\ \/ claim' # None /\ fetch'[claim'] = Asked
         \/ claim # None /\ claim' = claim /\ fetch' = Owed(fetch)
      /\ KeepsBack(fetch')
  BY <1>2, Stands, FetchTakes DEF DeliverGridChanged
<1>4. told' \in [listing : 0..MaxListing, row : 0..MaxRow] /\ told'.row = told.row
      /\ told'.listing <= listing
  <2>1. Head(stream).version \in 0..MaxListing /\ Head(stream).version <= listing
    BY <1>1, HeadKnown
  <2>2. told \in [listing : 0..MaxListing, row : 0..MaxRow]
    BY DEF Inv, TypeOK
  <2>3. QED
    BY <1>1, <2>1, <2>2
<1>5. astray' \in BOOLEAN
  BY <1>1 DEF Inv, TypeOK
<1>6. TypeOK'
  BY <1>1, <1>3, <1>4, <1>5, HeadKnown DEF Inv, TypeOK
<1>7. Known'
  <2>1. \A i \in DOMAIN stream' :
           stream'[i].version <= IF stream'[i].kind = "GridChanged" THEN listing ELSE row
    BY <1>1, HeadKnown DEF Inv, Known
  <2>2. QED
    BY <1>1, <1>4, <2>1 DEF Inv, Known
<1>8. Fresh' /\ StaleIsLabelled' /\ Heard'
  <2>1. CASE claim' # None /\ fetch'[claim'] = Asked
    <3>1. Heard'
      BY <1>1, <1>3, <2>1, AskedIs, HeardStays
    <3>2. QED
      BY <2>1, <3>1, AskedKeeps
  <2>2. CASE claim # None /\ claim' = claim /\ fetch' = Owed(fetch)
    <3>1. fetch'[claim'].listing = fetch[claim].listing /\ fetch'[claim'].phase = fetch[claim].phase
          /\ fetch'[claim'].owed
      BY <2>2, <1>2, OwedKeepsAnswer DEF Inv
    <3>2. Heard'
      BY <1>1, <1>3, <2>2, <3>1, HeardStays
    <3>3. QED
      BY <1>1, <2>2, <3>1, <3>2 DEF Inv, Fresh, StaleIsLabelled
  <2>3. QED
    BY <1>3, <2>1, <2>2
<1>9. QED
  BY <1>3, <1>6, <1>7, <1>8 DEF Inv

\* A changed row is folded into the grid that holds it; the read in flight owes it.
LEMMA DeliverTileChangedKeeps ==
    ASSUME Inv, DeliverTileChanged
    PROVE  Inv'
<1> USE ClaimHeld
<1> DEFINE v == Head(stream).version
<1>1. /\ UNCHANGED <<listing, gone, row, open, claim, verdict, faults>>
      /\ stream # <<>> /\ stream' = Tail(stream) /\ Head(stream).kind = "TileChanged"
      /\ told' = [told EXCEPT !.row = v] /\ latch' = "none" /\ fetch' = Owed(fetch)
      /\ cache' = (IF cache.held /\ v >= cache.row THEN [cache EXCEPT !.row = v] ELSE cache)
      /\ astray' = (astray \/ (latch # "none" /\ cache.held /\ claim = None))
  BY DEF DeliverTileChanged, node
<1>2. v \in 0..MaxRow /\ v <= row
  BY <1>1, HeadKnown
<1> HIDE DEF v
<1>3. Owed(fetch) \in [Fetches -> Fetch] /\ One(Owed(fetch), claim)
      /\ (claim # None => Owed(fetch)[claim].owed) /\ KeepsBack(Owed(fetch))
  BY OwedIs DEF Inv
<1>4. OneRead'
  BY <1>1, <1>3 DEF One, OneRead
<1>5. told' \in [listing : 0..MaxListing, row : 0..MaxRow] /\ told'.row = v
      /\ told'.listing = told.listing
  <2>1. told \in [listing : 0..MaxListing, row : 0..MaxRow]
    BY DEF Inv, TypeOK
  <2>2. QED
    BY <1>1, <1>2, <2>1
<1>6. cache' \in Grid /\ cache'.listing = cache.listing /\ cache'.held = cache.held
      /\ (cache.held => cache'.row >= v)
  <2>1. cache \in Grid
    BY DEF Inv, TypeOK
  <2>2. CASE cache.held /\ v >= cache.row
    <3>1. cache' = [cache EXCEPT !.row = v]
      BY <1>1, <2>2
    <3>2. QED
      BY <1>2, <2>1, <3>1 DEF Grid
  <2>3. CASE ~(cache.held /\ v >= cache.row)
    <3>1. cache' = cache
      BY <1>1, <2>3
    <3>2. QED
      BY <1>2, <2>1, <2>3, <3>1
  <2>4. QED
    BY <2>2, <2>3
<1>7. astray' \in BOOLEAN
  BY <1>1 DEF Inv, TypeOK
<1>8. TypeOK'
  BY <1>1, <1>3, <1>5, <1>6, <1>7, HeadKnown DEF Inv, TypeOK
<1>9. Known'
  <2>1. \A i \in DOMAIN stream' :
           stream'[i].version <= IF stream'[i].kind = "GridChanged" THEN listing ELSE row
    BY <1>1, HeadKnown DEF Inv, Known
  <2>2. QED
    BY <1>1, <1>2, <1>5, <1>6, <2>1 DEF Inv, Known
<1>10. Fresh'
  <2>1. CASE claim = None
    BY <1>1, <2>1 DEF Fresh
  <2>2. CASE claim # None
    <3>1. fetch'[claim].listing = fetch[claim].listing /\ fetch'[claim].phase = fetch[claim].phase
          /\ fetch'[claim].owed
      BY <2>2, <1>1, <1>3, OwedKeepsAnswer DEF Inv
    <3>2. QED
      BY <1>1, <1>6, <2>2, <3>1 DEF Inv, Fresh
  <2>3. QED
    BY <2>1, <2>2
<1>11. Heard'
  <2>1. CASE claim = None
    <3>1. Back = {} /\ \A f \in Back' : f \in Back
      BY <1>1, <1>3, <2>1 DEF Inv, Heard, Back, KeepsBack
    <3>2. QED
      BY <3>1 DEF Heard
  <2>2. CASE claim # None
    <3>1. fetch'[claim].listing = fetch[claim].listing /\ fetch'[claim].phase = fetch[claim].phase
      BY <2>2, <1>1, OwedKeepsAnswer DEF Inv
    <3>2. QED
      BY <1>1, <1>3, <1>6, <2>2, <3>1, HeardStays
  <2>3. QED
    BY <2>1, <2>2
<1>12. StaleIsLabelled'
  <2>1. SUFFICES ASSUME cache.held, claim = None, latch = "none"
                 PROVE  astray' \/ Current(cache)'
    BY <1>1, <1>6 DEF StaleIsLabelled
  <2>2. astray \/ Current(cache)
    BY <2>1 DEF Inv, StaleIsLabelled
  <2>3. CASE astray
    BY <1>1, <2>3
  <2>4. CASE Current(cache)
    BY <1>2, <1>5, <1>6, <2>1, <2>4 DEF Current
  <2>5. QED
    BY <2>2, <2>3, <2>4
<1>13. QED
  BY <1>4, <1>8, <1>9, <1>10, <1>12, <1>11 DEF Inv

\* A read the client has not cancelled is the one that counts.
LEMMA UncancelledIsClaim ==
    ASSUME Inv, NEW f \in Fetches, fetch[f].phase # "free", ~fetch[f].cancelled
    PROVE  f = claim /\ claim # None /\ fetch[f] \in Fetch
BY ReadsAssumption DEF Inv, OneRead, TypeOK, ReadsAssumption

\* The node answers with the listing and the row of the moment.
LEMMA AnswerKeeps ==
    ASSUME Inv, NEW f \in Fetches, Answer(f)
    PROVE  Inv'
<1> USE ClaimHeld
<1> DEFINE r == [fetch[f] EXCEPT !.phase = "answered", !.listing = listing, !.row = row]
<1>1. /\ UNCHANGED <<listing, gone, row, stream, open, claim, latch, cache, told, verdict, astray, faults>>
      /\ fetch[f].phase = "asked" /\ ~fetch[f].cancelled
  BY DEF Answer, node
<1>2. f = claim /\ claim # None /\ fetch[f] \in Fetch
  BY <1>1, UncancelledIsClaim
<1>3. fetch \in [Fetches -> Fetch] /\ fetch' = [fetch EXCEPT ![f] = r]
  BY DEF Answer, Inv, TypeOK
<1>4. r \in Fetch /\ r.phase = "answered" /\ r.listing = listing /\ r.row = row /\ ~r.cancelled
      /\ r.back = fetch[f].back
  <2>1. listing \in 0..MaxListing /\ row \in 0..MaxRow
    OBVIOUS
  <2>2. QED
    BY <1>1, <1>2, <2>1 DEF Fetch
<1> HIDE DEF r
<1>5. fetch' \in [Fetches -> Fetch] /\ fetch'[f] = r /\ \A g \in Fetches : g # f => fetch'[g] = fetch[g]
  BY <1>3, <1>4
<1>6. TypeOK'
  BY <1>1, <1>5, ClientTypes DEF Inv, TypeOK
<1>7. OneRead'
  BY <1>1, <1>2, <1>4, <1>5 DEF Inv, OneRead
<1>8. Fresh'
  <2>1. Current(r)
    BY <1>4 DEF Inv, Known, Current
  <2>2. QED
    BY <1>1, <1>2, <1>4, <1>5, <2>1 DEF Inv, Known, Fresh, Current
<1>9. StaleIsLabelled'
  BY <1>1, <1>2 DEF StaleIsLabelled
<1>10. KeepsBack(fetch')
  BY <1>1, <1>4, <1>5 DEF Inv, Heard, Back, KeepsBack
<1>11. Heard'
  BY <1>1, <1>2, <1>4, <1>5, <1>10, HeardStays
<1>12. QED
  BY <1>1, <1>6, <1>7, <1>8, <1>9, <1>11, KnownStays DEF Inv

\* A read that is never heard from fails.
LEMMA UnheardKeeps ==
    ASSUME Inv, NEW f \in Fetches, Unheard(f)
    PROVE  Inv'
<1> DEFINE r == [fetch[f] EXCEPT !.phase = "failed"]
<1>1. /\ UNCHANGED <<listing, gone, row, stream, open, claim, latch, cache, told, verdict, astray>>
      /\ fetch[f].phase # "free" /\ ~fetch[f].cancelled /\ faults' = faults + 1 /\ faults < MaxFaults
  BY DEF Unheard, node
<1>2. f = claim /\ claim # None /\ fetch[f] \in Fetch
  BY <1>1, UncancelledIsClaim
<1>3. fetch \in [Fetches -> Fetch] /\ fetch' = [fetch EXCEPT ![f] = r]
  BY DEF Unheard, Inv, TypeOK
<1>4. r \in Fetch /\ r.phase = "failed" /\ ~r.cancelled /\ r.back = fetch[f].back
  BY <1>1, <1>2 DEF Fetch
<1> HIDE DEF r
<1>5. fetch' \in [Fetches -> Fetch] /\ fetch'[f] = r /\ \A g \in Fetches : g # f => fetch'[g] = fetch[g]
  BY <1>3, <1>4
<1>6. faults' \in 0..MaxFaults
  BY <1>1, ReadsAssumption DEF Inv, TypeOK, ReadsAssumption
<1>7. TypeOK'
  BY <1>1, <1>5, <1>6, ClientTypes DEF Inv, TypeOK
<1>8. OneRead'
  BY <1>1, <1>2, <1>4, <1>5 DEF Inv, OneRead
<1>9. Fresh' /\ StaleIsLabelled'
  BY <1>1, <1>2, <1>4, <1>5 DEF Fresh, StaleIsLabelled
<1>10. KeepsBack(fetch')
  BY <1>1, <1>4, <1>5 DEF Inv, Heard, Back, KeepsBack
<1>11. Heard'
  BY <1>1, <1>2, <1>4, <1>5, <1>10, ClaimHeld, HeardStays
<1>12. QED
  BY <1>1, <1>7, <1>8, <1>9, <1>11, KnownStays DEF Inv

\* What a landed read leaves behind: the other reads, and the claim unless it
\* was its own.
LEMMA Freed ==
    ASSUME Inv, NEW f \in Fetches, fetch[f].phase # "free" \/ fetch[f].cancelled
    PROVE  /\ [fetch EXCEPT ![f] = Free] \in [Fetches -> Fetch]
           /\ One([fetch EXCEPT ![f] = Free], Released(f))
           /\ Released(f) \in Fetches \cup {None}
           /\ fetch[f].cancelled => Released(f) = claim /\ f # claim
           /\ ~fetch[f].cancelled => Released(f) = None /\ f = claim /\ claim # None
           /\ Back \subseteq {f} => \A g \in Fetches : ~[fetch EXCEPT ![f] = Free][g].back
<1> DEFINE freed == [fetch EXCEPT ![f] = Free]
<1>1. fetch \in [Fetches -> Fetch] /\ claim \in Fetches \cup {None} /\ None \notin Fetches
  BY ReadsAssumption DEF Inv, TypeOK, ReadsAssumption
<1>2. freed \in [Fetches -> Fetch] /\ freed[f] = Free /\ \A g \in Fetches : g # f => freed[g] = fetch[g]
  BY <1>1, AskedIs
<1>3. Back \subseteq {f} => \A g \in Fetches : ~freed[g].back
  BY <1>2, AskedIs DEF Back
<1> HIDE DEF freed
<1>4. CASE fetch[f].cancelled
  <2>1. f # claim /\ Released(f) = claim
    BY <1>4 DEF Inv, OneRead, Released
  <2>2. One(freed, claim)
    BY <1>2, <2>1, AskedIs DEF Inv, OneRead, One
  <2>3. QED
    BY <1>1, <1>2, <1>4, <1>3, <2>1, <2>2 DEF freed
<1>5. CASE ~fetch[f].cancelled
  <2>1. f = claim /\ Released(f) = None
    BY <1>5 DEF Inv, OneRead, Released
  <2>2. One(freed, None)
    BY <1>1, <1>2, <2>1, AskedIs DEF Inv, OneRead, One
  <2>3. QED
    BY <1>1, <1>2, <1>5, <1>3, <2>1, <2>2 DEF freed
<1>6. QED
  BY <1>4, <1>5

\* What an answer the client hears brings: a listing no older than the one
\* shown, nor newer than the one a successor brings.
LEMMA AnsweredIs ==
    ASSUME Inv, NEW f \in Fetches, Outcome(fetch[f]) = "answered",
           fetch[f].phase \in {"answered", "failed"} \/ fetch[f].cancelled
    PROVE  /\ cache.listing <= fetch[f].listing /\ fetch[f].listing <= listing
           /\ ~fetch[f].cancelled => fetch[f].owed \/ Current(fetch[f])
           /\ fetch[f].cancelled /\ fetch[claim].phase = "answered" =>
                 fetch[f].listing <= fetch[claim].listing
           /\ [held |-> TRUE, listing |-> fetch[f].listing, row |-> fetch[f].row] \in Grid
<1>1. fetch[f] \in Fetch
  BY DEF Inv, TypeOK
<1>2. fetch[f].listing \in 0..MaxListing /\ fetch[f].row \in 0..MaxRow
  BY <1>1 DEF Fetch
<1>3. [held |-> TRUE, listing |-> fetch[f].listing, row |-> fetch[f].row] \in Grid
  BY <1>2 DEF Grid
<1>4. CASE ~fetch[f].cancelled
  <2>1. fetch[f].phase = "answered"
    BY <1>4 DEF Outcome
  <2>2. f = claim /\ claim # None
    BY <1>4, <2>1, UncancelledIsClaim
  <2>3. QED
    BY <1>3, <1>4, <2>1, <2>2 DEF Inv, Fresh
<1>5. CASE fetch[f].cancelled
  <2>1. fetch[f].back
    BY <1>5 DEF Outcome
  <2>2. f \in Back /\ fetch[f].phase \in {"answered", "failed"} /\ fetch[f].phase # "failed"
    BY <2>1 DEF Outcome, Inv, Heard, Back
  <2>3. QED
    BY <1>3, <1>5, <2>2 DEF Inv, Heard
<1>6. QED
  BY <1>4, <1>5

\* What a read that has ended does to the latch and to what is shown.
LEMMA LandIs ==
    ASSUME Inv, NEW f \in Fetches, Land(f)
    PROVE  /\ latch' \in {"none", "refused", "unreachable"}
           /\ cache' \in Grid /\ cache.listing <= cache'.listing /\ cache'.listing <= listing
           /\ verdict' \in 0..MaxListing
           /\ fetch[f].cancelled => \/ latch' = latch /\ cache' = cache
                                    \/ /\ claim # None
                                       /\ fetch[claim].phase = "answered" =>
                                             cache'.listing <= fetch[claim].listing
           /\ ~fetch[f].cancelled => latch' # "none" \/ fetch[f].owed \/ Current(cache')
<1> USE ClaimHeld
<1> DEFINE o == Outcome(fetch[f])
<1>1. /\ fetch[f].phase \in {"answered", "failed"} \/ fetch[f].cancelled
      /\ latch' = Settled(o)
      /\ cache' = IF o = "answered"
                  THEN [held |-> TRUE, listing |-> fetch[f].listing, row |-> fetch[f].row]
                  ELSE cache
      /\ verdict' = IF o = "refused" THEN fetch[f].listing ELSE verdict
  BY DEF Land
<1>2. /\ o \in {"abandoned", "unreachable", "refused", "answered"}
      /\ fetch[f].cancelled => o = "abandoned" \/ claim # None
      /\ ~fetch[f].cancelled => o # "abandoned"
  <2>1. CASE fetch[f].cancelled
    BY <2>1 DEF Outcome, Inv, Heard, Back
  <2>2. CASE ~fetch[f].cancelled
    BY <2>2 DEF Outcome
  <2>3. QED
    BY <2>1, <2>2
<1>3. latch \in {"none", "refused", "unreachable"} /\ cache \in Grid /\ verdict \in 0..MaxListing
      /\ fetch[f].listing \in 0..MaxListing /\ cache.listing <= listing
  BY DEF Inv, TypeOK, Known, Fetch
<1>4. CASE o = "answered"
  <2>1. /\ cache.listing <= fetch[f].listing /\ fetch[f].listing <= listing
        /\ ~fetch[f].cancelled => fetch[f].owed \/ Current(fetch[f])
        /\ fetch[f].cancelled /\ fetch[claim].phase = "answered" =>
              fetch[f].listing <= fetch[claim].listing
        /\ [held |-> TRUE, listing |-> fetch[f].listing, row |-> fetch[f].row] \in Grid
    BY <1>1, <1>4, AnsweredIs
  <2>2. /\ latch' = "none" /\ verdict' = verdict
        /\ cache' = [held |-> TRUE, listing |-> fetch[f].listing, row |-> fetch[f].row]
    BY <1>1, <1>4 DEF Settled
  <2>3. cache'.listing = fetch[f].listing /\ (Current(fetch[f]) => Current(cache'))
    BY <2>2 DEF Current
  <2>4. fetch[f].cancelled => claim # None
    BY <1>2, <1>4
  <2>5. QED
    BY <1>3, <2>1, <2>2, <2>3, <2>4
<1>5. CASE o # "answered"
  <2>1. cache' = cache /\ latch' \in {"none", "refused", "unreachable"}
        /\ (fetch[f].cancelled => latch' = latch \/ claim # None)
        /\ (~fetch[f].cancelled => latch' # "none")
    BY <1>1, <1>2, <1>3, <1>5 DEF Settled
  <2>2. verdict' \in 0..MaxListing
    BY <1>1, <1>3
  <2>3. claim # None /\ fetch[claim].phase = "answered" => cache.listing <= fetch[claim].listing
    BY DEF Inv, Fresh
  <2>4. QED
    BY <1>3, <2>1, <2>2, <2>3
<1>6. QED
  BY <1>4, <1>5

\* A read that lands late frees nothing of its successor's, and one that counts
\* leaves the grid current, labelled or asked again.
LEMMA LandKeeps ==
    ASSUME Inv, NEW f \in Fetches, Land(f)
    PROVE  Inv'
<1> USE ClaimHeld
<1> DEFINE freed == [fetch EXCEPT ![f] = Free]
           refused == Outcome(fetch[f]) = "refused"
<1>1. /\ UNCHANGED <<listing, gone, row, stream, open, told, faults>>
      /\ fetch[f].phase \in {"answered", "failed"} \/ fetch[f].cancelled
      /\ IF fetch[f].owed THEN FetchGrid(freed, Released(f), latch')
                          ELSE claim' = Released(f) /\ fetch' = freed
      /\ astray' = (~(fetch[f].owed /\ claim' # None) /\ (astray \/ (refused /\ fetch[f].owed)))
  BY DEF Land, node
<1>2. /\ freed \in [Fetches -> Fetch] /\ One(freed, Released(f)) /\ Released(f) \in Fetches \cup {None}
      /\ fetch[f].cancelled => Released(f) = claim /\ f # claim
      /\ ~fetch[f].cancelled => Released(f) = None
      /\ Back \subseteq {f} => \A g \in Fetches : ~freed[g].back
  BY <1>1, Freed
<1>3. fetch[f].cancelled /\ claim # None => freed[claim] = fetch[claim]
  BY <1>2 DEF Inv, TypeOK
<1> HIDE DEF freed, refused
<1>4. /\ claim' \in Fetches \cup {None} /\ fetch' \in [Fetches -> Fetch] /\ OneRead'
      /\ \/ fetch[f].owed /\ claim' # None /\ fetch'[claim'] = Asked
         \/ /\ claim' = Released(f) /\ fetch' = freed
            /\ fetch[f].owed => ~(Released(f) = None /\ latch' = "none")
  <2>1. CASE fetch[f].owed
    <3>1. FetchGrid(freed, Released(f), latch')
      BY <1>1, <2>1
    <3>2. QED
      BY <1>2, <2>1, <3>1, FetchTakes
  <2>2. CASE ~fetch[f].owed
    BY <1>1, <1>2, <2>2 DEF One, OneRead
  <2>3. QED
    BY <2>1, <2>2
<1>5. astray' \in BOOLEAN
  BY <1>1
<1>6. /\ latch' \in {"none", "refused", "unreachable"}
      /\ cache' \in Grid /\ cache.listing <= cache'.listing /\ cache'.listing <= listing
      /\ verdict' \in 0..MaxListing
      /\ fetch[f].cancelled => \/ latch' = latch /\ cache' = cache
                               \/ /\ claim # None
                                  /\ fetch[claim].phase = "answered" =>
                                        cache'.listing <= fetch[claim].listing
      /\ ~fetch[f].cancelled => latch' # "none" \/ fetch[f].owed \/ Current(cache')
  BY LandIs
<1>7. TypeOK'
  BY <1>1, <1>4, <1>5, <1>6, ClientTypes DEF Inv, TypeOK
<1>8. Known'
  BY <1>1, <1>6 DEF Inv, Known
<1>9. Fresh' /\ StaleIsLabelled'
  <2>1. CASE claim' # None /\ fetch'[claim'] = Asked
    BY <2>1, AskedKeeps
  <2>2. CASE /\ ~(claim' # None /\ fetch'[claim'] = Asked)
             /\ claim' = Released(f) /\ fetch' = freed
             /\ fetch[f].owed => ~(Released(f) = None /\ latch' = "none")
    <3>1. CASE fetch[f].cancelled /\ latch' = latch /\ cache' = cache
      <4>1. claim' = claim /\ latch' = latch /\ cache' = cache
            /\ (claim # None => fetch'[claim] = fetch[claim])
        BY <1>2, <1>3, <2>2, <3>1
      <4>2. Fresh'
        BY <1>1, <4>1 DEF Inv, Fresh, Current
      <4>3. claim' = None /\ latch' = "none" => (astray => astray')
        BY <1>1, <2>2
      <4>4. StaleIsLabelled'
        BY <1>1, <4>1, <4>3 DEF Inv, StaleIsLabelled, Current
      <4>5. QED
        BY <4>2, <4>4
    <3>2. CASE fetch[f].cancelled /\ ~(latch' = latch /\ cache' = cache)
      <4>1. claim' = claim /\ claim # None /\ fetch'[claim] = fetch[claim]
            /\ (fetch[claim].phase = "answered" => cache'.listing <= fetch[claim].listing)
        BY <1>2, <1>3, <1>6, <2>2, <3>2
      <4>2. Fresh'
        BY <1>1, <4>1 DEF Inv, Fresh, Current
      <4>3. QED
        BY <4>1, <4>2 DEF StaleIsLabelled
    <3>3. CASE ~fetch[f].cancelled
      <4>1. claim' = None /\ (latch' = "none" => Current(cache'))
        BY <1>2, <1>6, <2>2, <3>3
      <4>2. QED
        BY <1>1, <4>1 DEF Fresh, StaleIsLabelled, Current
    <3>4. QED
      BY <3>1, <3>3, <3>2
  <2>3. QED
    BY <1>4, <2>1, <2>2
<1>10. \A g \in Fetches : fetch'[g].back => g # f /\ fetch'[g] = fetch[g]
  <2>0. \A g \in Fetches : freed[g].back => g # f /\ freed[g] = fetch[g]
    BY AskedIs DEF freed, Inv, TypeOK
  <2>1. CASE ~fetch[f].owed
    BY <1>1, <2>0, <2>1
  <2>2. CASE fetch[f].owed
    <3>1. FetchGrid(freed, Released(f), latch')
      BY <1>1, <2>2
    <3>2. \/ fetch' = freed
          \/ fetch' = [freed EXCEPT ![Spare(freed)] = Asked]
      BY <3>1 DEF FetchGrid
    <3>3. QED
      BY <1>2, <2>0, <3>2, AskedIs
  <2>3. QED
    BY <2>1, <2>2
<1>11. Heard'
  <2>1. CASE Back \subseteq {f} \/ claim = None
    <3>1. \A g \in Back : g = f
      BY <2>1 DEF Inv, Heard
    <3>2. Back' = {}
      BY <1>10, <3>1 DEF Back
    <3>3. QED
      BY <3>2 DEF Heard
  <2>2. CASE ~(Back \subseteq {f}) /\ claim # None
    <3>1. Outcome(fetch[f]) = "abandoned"
      BY <2>2 DEF Land
    <3>2. fetch[f].cancelled /\ cache' = cache
      BY <3>1 DEF Outcome, Land
    <3>3. claim' = claim /\ fetch'[claim] = fetch[claim]
      <4>1. Released(f) = claim /\ freed[claim] = fetch[claim]
        BY <1>2, <1>3, <2>2, <3>2
      <4>2. claim' = claim /\ fetch' = freed
        BY <1>1, <2>2, <4>1 DEF FetchGrid
      <4>3. QED
        BY <4>1, <4>2
    <3>4. KeepsBack(fetch')
      BY <1>10 DEF KeepsBack
    <3>5. QED
      BY <1>1, <2>2, <3>2, <3>3, <3>4, HeardStays
  <2>3. QED
    BY <2>1, <2>2
<1>12. QED
  BY <1>4, <1>7, <1>8, <1>9, <1>11 DEF Inv

\* Every step keeps the invariant.
LEMMA NextKeeps ==
    ASSUME Inv, [Next]_vars
    PROVE  Inv'
<1>1. CASE UNCHANGED vars
  BY <1>1 DEF vars, node, Inv, TypeOK, OneRead, Known, Fresh, Heard, Back, StaleIsLabelled, Current
<1>2. CASE Next
  BY <1>2, NodeRelistsKeeps, NodeMovesRowKeeps, DrawKeeps, ArriveKeeps, BackstopKeeps,
     DeliverGridChangedKeeps, DeliverTileChangedKeeps, BreakKeeps, ReopenKeeps,
     HealthSettlesKeeps, AnswerKeeps, UnheardKeeps, LandKeeps DEF Next
<1>3. QED
  BY <1>1, <1>2

(* The invariant holds in every state the client and the node can reach. *)
THEOREM Invariance == Spec => []Inv
<1>1. Init => Inv
  BY InitHolds
<1>2. Inv /\ [Next]_vars => Inv'
  BY NextKeeps
<1>3. QED
  BY <1>1, <1>2, PTL DEF Spec

(* Every variable keeps its type. *)
THEOREM TypesHold == Spec => []TypeOK
<1>1. Inv => TypeOK
  BY DEF Inv
<1>2. QED
  BY <1>1, Invariance, PTL

(***************************************************************************)
(* However many reads are cancelled and return late, the key has at most   *)
(* one the client waits for, and it holds the claim (client/inflight).     *)
(***************************************************************************)
THEOREM OneReadCounts == Spec => []OneRead
<1>1. Inv => OneRead
  BY DEF Inv
<1>2. QED
  BY <1>1, Invariance, PTL

(***************************************************************************)
(* A grid shown behind what the client was told of has a read in flight or *)
(* a latch to label it, unless it was left astray (client/wasm retryKick,  *)
(* client/events).                                                         *)
(***************************************************************************)
THEOREM StaleIsAlwaysLabelled == Spec => []StaleIsLabelled
<1>1. Inv => StaleIsLabelled
  BY DEF Inv
<1>2. QED
  BY <1>1, Invariance, PTL

(***************************************************************************)
(* No answer, however late, puts an older listing in place of the one      *)
(* shown: the one read waited for, and the one that was back before it was *)
(* cancelled, were answered after what is shown.                           *)
(***************************************************************************)
THEOREM ListingNeverGoesBack == Spec => ListingAdvances
<1>1. Inv /\ [Next]_vars => cache'.listing >= cache.listing
  <2> SUFFICES ASSUME Inv, [Next]_vars PROVE cache'.listing >= cache.listing
    OBVIOUS
  <2>1. CASE UNCHANGED cache
    BY <2>1, ClaimHeld
  <2>2. CASE DeliverTileChanged
    <3>1. cache \in Grid
      BY DEF Inv, TypeOK
    <3>2. cache'.listing = cache.listing
      BY <2>2, <3>1 DEF DeliverTileChanged, Grid
    <3>3. QED
      BY <3>2, ClaimHeld
  <2>3. ASSUME NEW f \in Fetches, Land(f)
        PROVE  cache'.listing >= cache.listing
    <3>1. cache' \in Grid /\ cache.listing <= cache'.listing
      BY <2>3, LandIs
    <3>2. cache'.listing \in Nat
      BY <3>1 DEF Grid
    <3>3. QED
      BY <3>1, <3>2, ClaimHeld
  <2>4. UNCHANGED cache \/ DeliverTileChanged \/ \E f \in Fetches : Land(f)
    BY DEF Next, vars, NodeRelists, NodeMovesRow, Draw, Arrive, Backstop, DeliverGridChanged,
           Break, Reopen, HealthSettles, Answer, Unheard
  <2>5. QED
    BY <2>1, <2>2, <2>3, <2>4
<1>2. QED
  BY <1>1, Invariance, PTL DEF Spec, ListingAdvances
=============================================================================
