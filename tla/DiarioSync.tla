----------------------------- MODULE DiarioSync -----------------------------
(***************************************************************************)
(* Monitoring of the Diario Oficial: users register terms, every worker    *)
(* replica runs its own sync loop, which searches the DJEN page by page    *)
(* for what was made available since the term was last synced, and then    *)
(* stores publications, matches, the time of the sync and the events that  *)
(* announce new matches in one transaction.  The DJEN filters by date and  *)
(* makes publications visible up to MaxDelay after the date they carry.    *)
(***************************************************************************)
EXTENDS Integers, FiniteSets

CONSTANTS
  Replicas, Terms,
  MaxPubs,        \* bound: publications, numbered as they become visible
  MaxTime,        \* bound: the clock
  TicksPerDay,
  Lookback,       \* defaultLookbackWindow
  Overlap,        \* syncOverlapWindow
  MaxDelay,       \* how long after its date a publication may show up
  MaxCycle,       \* how long a cycle takes, bounded by the HTTP timeouts
  PageSize,       \* defaultPageSize
  MaxPages,       \* maxSyncPagesPerTerm
  NewestFirst,    \* the order in which the DJEN lists results
  MaxFaults       \* bound: failed searches and transactions, crashes

ASSUME DiarioAssumption ==
  /\ {MaxPubs, MaxTime, Lookback, Overlap, MaxDelay, MaxCycle, MaxFaults} \subseteq Nat
  /\ {TicksPerDay, PageSize, MaxPages} \subseteq Nat \ {0}
  /\ NewestFirst \in BOOLEAN
  /\ Terms # {}

VARIABLES
  now,
  date, visibleAt, hits,          \* DJEN: of each publication
  term, lastSynced,               \* rows of the monitored terms
  matches, announced,             \* rows of matches, events per match
  phase, todo, listed, began,     \* of each replica: its cycle,
  current, start, since, page, items,   \* and the term it is syncing
  syncedFrom,     \* observer: the date from which a term is complete
  faults

djenVars == <<date, visibleAt, hits>>
tableVars == <<term, lastSynced, matches, announced, syncedFrom>>
searchVars == <<current, start, since, page, items>>
replicaVars == <<phase, todo, listed, began, searchVars>>
vars == <<now, djenVars, tableVars, replicaVars, faults>>

Pubs == 1 .. MaxPubs
Never == -1
Day(time) == time \div TicksPerDay

(* A place holder: no term is being synced.                                *)
NoTerm == CHOOSE t \in Terms : TRUE

Init ==
  /\ now = 0
  /\ date = [p \in Pubs |-> 0]
  /\ visibleAt = [p \in Pubs |-> Never]
  /\ hits = [p \in Pubs |-> {}]
  /\ term = [t \in Terms |-> "none"]
  /\ lastSynced = [t \in Terms |-> Never]
  /\ matches = {}
  /\ announced = [m \in Terms \X Pubs |-> 0]
  /\ phase = [w \in Replicas |-> "idle"]
  /\ todo = [w \in Replicas |-> {}]
  /\ listed = [w \in Replicas |-> lastSynced]
  /\ began = [w \in Replicas |-> 0]
  /\ current = [w \in Replicas |-> NoTerm]
  /\ start = [w \in Replicas |-> 0]
  /\ since = [w \in Replicas |-> 0]
  /\ page = [w \in Replicas |-> 1]
  /\ items = [w \in Replicas |-> {}]
  /\ syncedFrom = [t \in Terms |-> 0]
  /\ faults = 0

(* A term is done with, or a cycle: their local variables are gone.        *)
EndSearch(w, next) ==
  /\ phase' = [phase EXCEPT ![w] = next]
  /\ current' = [current EXCEPT ![w] = NoTerm]
  /\ start' = [start EXCEPT ![w] = 0]
  /\ since' = [since EXCEPT ![w] = 0]
  /\ page' = [page EXCEPT ![w] = 1]
  /\ items' = [items EXCEPT ![w] = {}]

EndCycle(w) ==
  /\ EndSearch(w, "idle")
  /\ todo' = [todo EXCEPT ![w] = {}]
  /\ listed' = [listed EXCEPT ![w] = [t \in Terms |-> Never]]
  /\ began' = [began EXCEPT ![w] = 0]

Fault == faults < MaxFaults /\ faults' = faults + 1

(***************************************************************************)
(* The clock, the DJEN and the users                                       *)
(***************************************************************************)
Tick ==
  /\ now < MaxTime
  /\ \A w \in Replicas : phase[w] # "idle" => now < began[w] + MaxCycle
  /\ now' = now + 1
  /\ UNCHANGED <<djenVars, tableVars, replicaVars, faults>>

Visible == {p \in Pubs : visibleAt[p] # Never}

Publish ==
  LET p == Cardinality(Visible) + 1 IN
  /\ p \in Pubs
  /\ \E d \in Day(now - MaxDelay) .. Day(now) : date' = [date EXCEPT ![p] = d]
  /\ \E T \in SUBSET Terms \ {{}} : hits' = [hits EXCEPT ![p] = T]
  /\ visibleAt' = [visibleAt EXCEPT ![p] = now]
  /\ UNCHANGED <<now, tableVars, replicaVars, faults>>

CreateMonitoredTerm(t) ==
  /\ term[t] = "none"
  /\ term' = [term EXCEPT ![t] = "active"]
  /\ UNCHANGED <<now, djenVars, lastSynced, matches, announced, syncedFrom, replicaVars, faults>>

(* The matches go with the term (ON DELETE CASCADE).                       *)
DeleteMonitoredTerm(t) ==
  /\ term[t] = "active"
  /\ term' = [term EXCEPT ![t] = "deleted"]
  /\ matches' = {m \in matches : m[1] # t}
  /\ UNCHANGED <<now, djenVars, lastSynced, announced, syncedFrom, replicaVars, faults>>

(***************************************************************************)
(* SyncAll                                                                 *)
(***************************************************************************)
(* Mutant: only terms that were never synced are listed.                   *)
ListNewTerms(w) ==
  /\ phase[w] = "idle"
  /\ todo' = [todo EXCEPT ![w] = {t \in Terms : term[t] = "active" /\ lastSynced[t] = Never}]
  /\ listed' = [listed EXCEPT ![w] = lastSynced]
  /\ began' = [began EXCEPT ![w] = now]
  /\ phase' = [phase EXCEPT ![w] = "cycle"]
  /\ UNCHANGED <<now, djenVars, tableVars, searchVars, faults>>

(* A cycle begins: the terms are read once, with their last sync.          *)
ListMonitoredTerms(w) ==
  /\ phase[w] = "idle"
  /\ todo' = [todo EXCEPT ![w] = {t \in Terms : term[t] = "active"}]
  /\ listed' = [listed EXCEPT ![w] = lastSynced]
  /\ began' = [began EXCEPT ![w] = now]
  /\ phase' = [phase EXCEPT ![w] = "cycle"]
  /\ UNCHANGED <<now, djenVars, tableVars, searchVars, faults>>

(* Mutant: no overlap with what was already searched.                      *)
SinceLastSync(last) == Day(IF last = Never THEN now - Lookback ELSE last)

SyncSinceDate(last) == Day(IF last = Never THEN now - Lookback ELSE last - Overlap)

SyncTerm(w, t) ==
  /\ phase[w] = "cycle"
  /\ t \in todo[w]
  /\ todo' = [todo EXCEPT ![w] = @ \ {t}]
  /\ current' = [current EXCEPT ![w] = t]
  /\ start' = [start EXCEPT ![w] = now]
  /\ since' = [since EXCEPT ![w] = SyncSinceDate(listed[w][t])]
  /\ page' = [page EXCEPT ![w] = 1]
  /\ items' = [items EXCEPT ![w] = {}]
  /\ phase' = [phase EXCEPT ![w] = "search"]
  /\ UNCHANGED <<now, djenVars, tableVars, listed, began, faults>>

CycleEnds(w) ==
  /\ phase[w] = "cycle"
  /\ todo[w] = {}
  /\ EndCycle(w)
  /\ UNCHANGED <<now, djenVars, tableVars, faults>>

(* What the DJEN lists now for the term, and one page of it.               *)
Results(w) == {p \in Visible : current[w] \in hits[p] /\ date[p] >= since[w]}

Position(p, S) == Cardinality({q \in S : IF NewestFirst THEN q >= p ELSE q <= p})

Page(w) ==
  {p \in Results(w) :
     Position(p, Results(w)) \in (page[w] - 1) * PageSize + 1 .. page[w] * PageSize}

(* Mutant: the cap on pages is off by one.                                 *)
SearchPastCap(w) ==
  /\ phase[w] = "search"
  /\ items' = [items EXCEPT ![w] = @ \cup Page(w)]
  /\ IF Page(w) = {} \/ page[w] > MaxPages
     THEN phase' = [phase EXCEPT ![w] = "store"] /\ UNCHANGED page
     ELSE page' = [page EXCEPT ![w] = @ + 1] /\ UNCHANGED phase
  /\ UNCHANGED <<now, djenVars, tableVars, todo, listed, began, current, start, since, faults>>

(* Pages are fetched until one is empty or the cap is reached.             *)
Search(w) ==
  /\ phase[w] = "search"
  /\ items' = [items EXCEPT ![w] = @ \cup Page(w)]
  /\ IF Page(w) = {} \/ page[w] = MaxPages
     THEN phase' = [phase EXCEPT ![w] = "store"] /\ UNCHANGED page
     ELSE page' = [page EXCEPT ![w] = @ + 1] /\ UNCHANGED phase
  /\ UNCHANGED <<now, djenVars, tableVars, todo, listed, began, current, start, since, faults>>

NewMatches(w) == ({current[w]} \X items[w]) \ matches

(* Mutant: CreateMatch does not tell a new match from an old one.          *)
Announce(w) ==
  announced' = [m \in Terms \X Pubs |->
    announced[m] + IF m \in {current[w]} \X items[w] THEN 1 ELSE 0]

AnnounceNew(w) ==
  announced' = [m \in Terms \X Pubs |->
    announced[m] + IF m \in NewMatches(w) THEN 1 ELSE 0]

(* The transaction: last_synced_at becomes the time the search began.      *)
StoreResults(w) ==
  LET t == current[w] IN
  /\ phase[w] = "store"
  /\ term[t] = "active"
  /\ matches' = matches \cup NewMatches(w)
  /\ AnnounceNew(w)
  /\ lastSynced' = [lastSynced EXCEPT ![t] = start[w]]
  /\ syncedFrom' = [syncedFrom EXCEPT ![t] = IF lastSynced[t] = Never THEN since[w] ELSE @]
  /\ EndSearch(w, "cycle")
  /\ UNCHANGED <<now, djenVars, term, todo, listed, began, faults>>

(* The term is gone: the foreign key refuses its matches, and with nothing *)
(* to match the update meets no row.                                       *)
StoreNothing(w) ==
  /\ phase[w] = "store"
  /\ term[current[w]] = "deleted"
  /\ EndSearch(w, "cycle")
  /\ UNCHANGED <<now, djenVars, tableVars, todo, listed, began, faults>>

(* A failed search or transaction: the other terms are synced all the same. *)
SyncFails(w) ==
  /\ phase[w] \in {"search", "store"}
  /\ Fault
  /\ EndSearch(w, "cycle")
  /\ UNCHANGED <<now, djenVars, tableVars, todo, listed, began>>

(* The replica dies, or its context is cancelled: the next cycle starts    *)
(* from the tables.                                                        *)
Restart(w) ==
  /\ phase[w] # "idle"
  /\ Fault
  /\ EndCycle(w)
  /\ UNCHANGED <<now, djenVars, tableVars>>

SyncAll(w) ==
  \/ ListMonitoredTerms(w)
  \/ \E t \in Terms : SyncTerm(w, t)
  \/ CycleEnds(w) \/ Search(w) \/ StoreResults(w) \/ StoreNothing(w)

Next ==
  \/ Tick \/ Publish
  \/ \E t \in Terms : CreateMonitoredTerm(t) \/ DeleteMonitoredTerm(t)
  \/ \E w \in Replicas : SyncAll(w) \/ SyncFails(w) \/ Restart(w)

Spec == Init /\ [][Next]_vars

(* The ticker of the sync loop never stops, and each of its cycles ends.   *)
FairSpec == Spec /\ \A w \in Replicas : WF_vars(SyncAll(w))

(***************************************************************************)
(* Properties                                                              *)
(***************************************************************************)
(* The types of the variables.                                             *)
TypeOK ==
  /\ now \in 0 .. MaxTime
  /\ date \in [Pubs -> Int]
  /\ visibleAt \in [Pubs -> 0 .. MaxTime \cup {Never}]
  /\ hits \in [Pubs -> SUBSET Terms]
  /\ term \in [Terms -> {"none", "active", "deleted"}]
  /\ lastSynced \in [Terms -> 0 .. MaxTime \cup {Never}]
  /\ matches \subseteq Terms \X Pubs
  /\ announced \in [Terms \X Pubs -> Nat]
  /\ phase \in [Replicas -> {"idle", "cycle", "search", "store"}]
  /\ todo \in [Replicas -> SUBSET Terms]
  /\ listed \in [Replicas -> [Terms -> 0 .. MaxTime \cup {Never}]]
  /\ began \in [Replicas -> 0 .. MaxTime]
  /\ current \in [Replicas -> Terms]
  /\ start \in [Replicas -> 0 .. MaxTime]
  /\ since \in [Replicas -> Int]
  /\ page \in [Replicas -> 1 .. MaxPages]
  /\ items \in [Replicas -> SUBSET Pubs]
  /\ syncedFrom \in [Terms -> Int]
  /\ faults \in 0 .. MaxFaults

(* A publication the DJEN lists for the term within its window.            *)
Due(t, p) == visibleAt[p] # Never /\ t \in hits[p] /\ date[p] >= syncedFrom[t]

(* "LastSyncedAt so avanca ate onde de fato buscamos" (monitoring.go):     *)
(* whatever was visible before a term's last_synced_at is matched, however *)
(* replicas, failures, late publications and shifting pages interleave.    *)
(* What last_synced_at leaves behind no later search may ever see.         *)
NothingSkipped ==
  \A t \in Terms, p \in Pubs :
    term[t] = "active" /\ Due(t, p) /\ visibleAt[p] < lastSynced[t] => <<t, p>> \in matches

(* A match is announced exactly once, although replicas and overlapping    *)
(* windows find it again and again (CreateMatch, syncTerm).                *)
AnnouncedOnce ==
  \A t \in Terms, p \in Pubs :
    /\ announced[<<t, p>>] <= 1
    /\ term[t] = "active" => (<<t, p>> \in matches <=> announced[<<t, p>>] = 1)

(* A publication of a monitored term is matched in the end, whatever       *)
(* searches, transactions and replicas failed (SyncAll).                   *)
EventuallyMatched ==
  \A t \in Terms, p \in Pubs :
    term[t] = "active" /\ lastSynced[t] # Never /\ Due(t, p) ~>
      <<t, p>> \in matches \/ term[t] = "deleted"
=============================================================================
