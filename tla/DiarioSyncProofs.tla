-------------------------- MODULE DiarioSyncProofs --------------------------
(***************************************************************************)
(* The monitoring of the Diario Oficial, for any replicas, terms and       *)
(* publications, windows, page sizes and numbers of failures.              *)
(***************************************************************************)
EXTENDS DiarioSync, FiniteSetTheorems, WellFoundedInduction, TLAPS

(* A set of numbers has a least one: by this, not by induction, facts      *)
(* about the order of results are proved.                                  *)
LEMMA LeastNumber ==
  ASSUME NEW S \in SUBSET Nat, S # {}
  PROVE  \E m \in S : \A n \in S : m <= n
<1>1. PICK m \in S : \A n \in S : ~(<<n, m>> \in OpToRel(<, Nat))
  BY NatLessThanWellFounded, WFMin
<1>2. \A n \in S : ~(n < m)
  BY <1>1 DEF OpToRel
<1> QED BY <1>2

(* A later time is of the same day or of a later one.                      *)
LEMMA DayMonotone ==
  ASSUME NEW a \in Int, NEW b \in Int, a <= b
  PROVE  Day(a) \in Int /\ Day(b) \in Int /\ Day(a) <= Day(b)
BY DiarioAssumption DEF Day

LEMMA DayType ==
  ASSUME NEW a \in Int
  PROVE  Day(a) \in Int
BY DayMonotone

(***************************************************************************)
(* Types                                                                   *)
(***************************************************************************)
LEMMA TypeInit == Init => TypeOK
<1>1. NoTerm \in Terms
  BY DiarioAssumption DEF NoTerm
<1> QED BY <1>1, DiarioAssumption DEF Init, TypeOK, Never

(* What is gone when a term or a cycle is done with keeps its type.        *)
LEMMA EndSearchType ==
  ASSUME TypeOK, NEW w \in Replicas, NEW next \in {"idle", "cycle"}, EndSearch(w, next)
  PROVE  /\ phase' \in [Replicas -> {"idle", "cycle", "search", "store"}]
         /\ current' \in [Replicas -> Terms]
         /\ start' \in [Replicas -> 0 .. MaxTime]
         /\ since' \in [Replicas -> Int]
         /\ page' \in [Replicas -> 1 .. MaxPages]
         /\ items' \in [Replicas -> SUBSET Pubs]
<1>1. NoTerm \in Terms
  BY DiarioAssumption DEF NoTerm
<1> QED BY <1>1, DiarioAssumption DEF TypeOK, EndSearch

LEMMA EndCycleType ==
  ASSUME TypeOK, NEW w \in Replicas, EndCycle(w)
  PROVE  /\ todo' \in [Replicas -> SUBSET Terms]
         /\ listed' \in [Replicas -> [Terms -> 0 .. MaxTime \cup {Never}]]
         /\ began' \in [Replicas -> 0 .. MaxTime]
BY DiarioAssumption DEF TypeOK, EndCycle, Never

LEMMA SyncSinceType ==
  ASSUME TypeOK, NEW last \in 0 .. MaxTime \cup {Never}
  PROVE  SyncSinceDate(last) \in Int
<1>1. last \in Int /\ now - Lookback \in Int /\ last - Overlap \in Int
  BY DiarioAssumption DEF TypeOK, Never
<1> QED BY <1>1, DayType DEF SyncSinceDate

LEMMA TypeStep ==
  ASSUME TypeOK, [Next]_vars
  PROVE  TypeOK'
<1> USE DiarioAssumption
<1>1. CASE Tick
  BY <1>1 DEF Tick, TypeOK, djenVars, tableVars, replicaVars, searchVars
<1>2. CASE Publish
  <2> DEFINE p == Cardinality(Visible) + 1
  <2>1. p \in Pubs
    BY <1>2 DEF Publish
  <2>2. PICK d \in Day(now - MaxDelay) .. Day(now) : date' = [date EXCEPT ![p] = d]
    BY <1>2 DEF Publish
  <2>3. d \in Int
    BY <2>2
  <2>4. PICK T \in SUBSET Terms : hits' = [hits EXCEPT ![p] = T]
    BY <1>2 DEF Publish
  <2>5. visibleAt' = [visibleAt EXCEPT ![p] = now]
    BY <1>2 DEF Publish
  <2> HIDE DEF p
  <2>6. date' \in [Pubs -> Int] /\ hits' \in [Pubs -> SUBSET Terms]
    BY <2>1, <2>2, <2>3, <2>4 DEF TypeOK
  <2>7. visibleAt' \in [Pubs -> 0 .. MaxTime \cup {Never}]
    BY <2>1, <2>5 DEF TypeOK
  <2> QED BY <1>2, <2>6, <2>7 DEF Publish, TypeOK, tableVars, replicaVars, searchVars
<1>3. ASSUME NEW t \in Terms, CreateMonitoredTerm(t) \/ DeleteMonitoredTerm(t)
      PROVE  TypeOK'
  BY <1>3 DEF CreateMonitoredTerm, DeleteMonitoredTerm, TypeOK, djenVars, replicaVars, searchVars
<1>4. ASSUME NEW w \in Replicas, ListMonitoredTerms(w)
      PROVE  TypeOK'
  BY <1>4 DEF ListMonitoredTerms, TypeOK, djenVars, tableVars, searchVars
<1>5. ASSUME NEW w \in Replicas, NEW t \in Terms, SyncTerm(w, t)
      PROVE  TypeOK'
  <2>1. SyncSinceDate(listed[w][t]) \in Int
    BY SyncSinceType DEF TypeOK
  <2>2. since' \in [Replicas -> Int]
    BY <1>5, <2>1 DEF SyncTerm, TypeOK
  <2>3. /\ todo' \in [Replicas -> SUBSET Terms]
        /\ items' \in [Replicas -> SUBSET Pubs]
        /\ current' \in [Replicas -> Terms]
    BY <1>5 DEF SyncTerm, TypeOK
  <2>4. /\ start' \in [Replicas -> 0 .. MaxTime]
        /\ page' \in [Replicas -> 1 .. MaxPages]
        /\ phase' \in [Replicas -> {"idle", "cycle", "search", "store"}]
    BY <1>5 DEF SyncTerm, TypeOK
  <2> QED BY <1>5, <2>2, <2>3, <2>4 DEF SyncTerm, TypeOK, djenVars, tableVars
<1>6. ASSUME NEW w \in Replicas, CycleEnds(w)
      PROVE  TypeOK'
  BY <1>6, EndSearchType, EndCycleType DEF CycleEnds, EndCycle, TypeOK, djenVars, tableVars
<1>7. ASSUME NEW w \in Replicas, Search(w)
      PROVE  TypeOK'
  <2>1. Page(w) \subseteq Pubs
    BY DEF Page, Results, Visible
  <2>2. items' \in [Replicas -> SUBSET Pubs]
    BY <1>7, <2>1 DEF Search, TypeOK
  <2>3. /\ page' \in [Replicas -> 1 .. MaxPages]
        /\ phase' \in [Replicas -> {"idle", "cycle", "search", "store"}]
    <3>1. CASE Page(w) = {} \/ page[w] = MaxPages
      BY <1>7, <3>1 DEF Search, TypeOK
    <3>2. CASE ~(Page(w) = {} \/ page[w] = MaxPages)
      <4>1. page' = [page EXCEPT ![w] = @ + 1] /\ UNCHANGED phase
        BY <1>7, <3>2 DEF Search
      <4>2. page[w] \in 1 .. MaxPages /\ page[w] # MaxPages
        BY <3>2 DEF TypeOK
      <4>3. page[w] + 1 \in 1 .. MaxPages
        BY <4>2
      <4> QED BY <4>1, <4>3 DEF TypeOK
    <3> QED BY <3>1, <3>2
  <2> QED BY <1>7, <2>2, <2>3 DEF Search, TypeOK, djenVars, tableVars
<1>8. ASSUME NEW w \in Replicas, StoreResults(w)
      PROVE  TypeOK'
  <2> DEFINE t == current[w]
  <2>1. t \in Terms /\ start[w] \in 0 .. MaxTime /\ since[w] \in Int
    BY DEF TypeOK
  <2>2. NewMatches(w) \subseteq Terms \X Pubs
    BY <2>1 DEF NewMatches, TypeOK
  <2>3. announced' \in [Terms \X Pubs -> Nat]
    <3>1. \A m \in Terms \X Pubs : announced[m] + (IF m \in NewMatches(w) THEN 1 ELSE 0) \in Nat
      BY DEF TypeOK
    <3> QED BY <1>8, <3>1 DEF StoreResults, AnnounceNew
  <2>4. /\ matches' \subseteq Terms \X Pubs
        /\ lastSynced' \in [Terms -> 0 .. MaxTime \cup {Never}]
        /\ syncedFrom' \in [Terms -> Int]
    BY <1>8, <2>1, <2>2 DEF StoreResults, TypeOK
  <2>5. EndSearch(w, "cycle")
    BY <1>8 DEF StoreResults
  <2> QED BY <1>8, <2>3, <2>4, <2>5, EndSearchType DEF StoreResults, TypeOK, djenVars
<1>9. ASSUME NEW w \in Replicas, StoreNothing(w) \/ SyncFails(w)
      PROVE  TypeOK'
  <2>1. EndSearch(w, "cycle")
    BY <1>9 DEF StoreNothing, SyncFails
  <2>2. faults' \in 0 .. MaxFaults
    BY <1>9 DEF StoreNothing, SyncFails, Fault, TypeOK
  <2> QED BY <1>9, <2>1, <2>2, EndSearchType
          DEF StoreNothing, SyncFails, TypeOK, djenVars, tableVars
<1>10. ASSUME NEW w \in Replicas, Restart(w)
       PROVE  TypeOK'
  <2>1. EndSearch(w, "idle") /\ EndCycle(w)
    BY <1>10 DEF Restart, EndCycle
  <2>2. faults' \in 0 .. MaxFaults
    BY <1>10 DEF Restart, Fault, TypeOK
  <2> QED BY <1>10, <2>1, <2>2, EndSearchType, EndCycleType
          DEF Restart, TypeOK, djenVars, tableVars
<1>11. CASE UNCHANGED vars
  BY <1>11 DEF vars, TypeOK, djenVars, tableVars, replicaVars, searchVars
<1> QED BY <1>1, <1>2, <1>3, <1>4, <1>5, <1>6, <1>7, <1>8, <1>9, <1>10, <1>11 DEF Next, SyncAll

(* Everything keeps its type: pages are never asked for beyond the cap.    *)
THEOREM TypeCorrect == Spec => []TypeOK
BY TypeInit, TypeStep, PTL DEF Spec

(***************************************************************************)
(* Announcements                                                           *)
(***************************************************************************)
(* A term that nobody registered yet was neither matched nor announced.    *)
Unregistered ==
  \A t \in Terms, p \in Pubs :
    term[t] = "none" => <<t, p>> \notin matches /\ announced[<<t, p>>] = 0

AnnounceInv == TypeOK /\ AnnouncedOnce /\ Unregistered

LEMMA AnnounceInit == Init => AnnounceInv
<1> SUFFICES ASSUME Init PROVE AnnouncedOnce /\ Unregistered
  BY TypeInit DEF AnnounceInv
<1>1. \A t \in Terms, p \in Pubs : announced[<<t, p>>] = 0 /\ <<t, p>> \notin matches
  BY DEF Init
<1>2. \A t \in Terms : term[t] = "none"
  BY DEF Init
<1> QED BY <1>1, <1>2 DEF AnnouncedOnce, Unregistered

(* Only the transaction announces, and only what it adds to the matches of *)
(* a term that exists; a deletion takes the matches of its own term.       *)
LEMMA AnnounceStep ==
  ASSUME AnnounceInv, [Next]_vars
  PROVE  AnnounceInv'
<1> SUFFICES ASSUME NEW t \in Terms, NEW p \in Pubs
             PROVE  /\ announced'[<<t, p>>] \in Nat /\ announced'[<<t, p>>] <= 1
                    /\ term'[t] = "active" =>
                         (<<t, p>> \in matches' <=> announced'[<<t, p>>] = 1)
                    /\ term'[t] = "none" => <<t, p>> \notin matches' /\ announced'[<<t, p>>] = 0
  BY TypeStep DEF AnnounceInv, AnnouncedOnce, Unregistered
<1>1. /\ announced[<<t, p>>] \in Nat /\ announced[<<t, p>>] <= 1
      /\ term[t] = "active" => (<<t, p>> \in matches <=> announced[<<t, p>>] = 1)
      /\ term[t] = "none" => <<t, p>> \notin matches /\ announced[<<t, p>>] = 0
      /\ term \in [Terms -> {"none", "active", "deleted"}]
  BY DEF AnnounceInv, AnnouncedOnce, Unregistered, TypeOK
<1>2. ASSUME NEW u \in Terms, CreateMonitoredTerm(u)
      PROVE  /\ UNCHANGED <<matches, announced>>
             /\ term'[t] = term[t] \/ (term[t] = "none" /\ term'[t] = "active")
  BY <1>1, <1>2 DEF CreateMonitoredTerm
<1>3. ASSUME NEW u \in Terms, DeleteMonitoredTerm(u)
      PROVE  /\ UNCHANGED announced
             /\ \/ term'[t] = term[t] /\ (<<t, p>> \in matches' <=> <<t, p>> \in matches)
                \/ term'[t] = "deleted"
  BY <1>1, <1>3 DEF DeleteMonitoredTerm
<1>4. ASSUME NEW w \in Replicas, StoreResults(w)
      PROVE  /\ UNCHANGED term
             /\ \/ UNCHANGED announced[<<t, p>>] /\ (<<t, p>> \in matches' <=> <<t, p>> \in matches)
                \/ /\ term[t] = "active" /\ <<t, p>> \notin matches
                   /\ <<t, p>> \in matches' /\ announced'[<<t, p>>] = announced[<<t, p>>] + 1
  <2>1. /\ UNCHANGED term /\ matches' = matches \cup NewMatches(w)
        /\ term[current[w]] = "active"
    BY <1>4 DEF StoreResults
  <2>2. announced'[<<t, p>>] = announced[<<t, p>>] + IF <<t, p>> \in NewMatches(w) THEN 1 ELSE 0
    BY <1>4 DEF StoreResults, AnnounceNew
  <2>3. CASE <<t, p>> \in NewMatches(w)
    <3>1. t = current[w] /\ <<t, p>> \notin matches
      BY <2>3 DEF NewMatches
    <3> QED BY <2>1, <2>2, <2>3, <3>1
  <2>4. CASE <<t, p>> \notin NewMatches(w)
    BY <1>1, <2>1, <2>2, <2>4
  <2> QED BY <2>3, <2>4
<1>5. CASE UNCHANGED <<term, matches, announced>>
  BY <1>1, <1>5
<1> QED
  <2>1. \/ \E u \in Terms : CreateMonitoredTerm(u) \/ DeleteMonitoredTerm(u)
        \/ \E w \in Replicas : StoreResults(w)
        \/ UNCHANGED <<term, matches, announced>>
    BY DEF Next, SyncAll, Tick, Publish, ListMonitoredTerms, SyncTerm, CycleEnds, Search,
           StoreNothing, SyncFails, Restart, vars, tableVars
  <2> QED BY <1>1, <1>2, <1>3, <1>4, <1>5, <2>1

(* However often replicas and overlapping windows find a publication, a    *)
(* match is announced once, and a match that stands was announced          *)
(* (CreateMatch, syncTerm).                                                *)
THEOREM EachMatchAnnounced == Spec => []AnnouncedOnce
<1>1. AnnounceInv => AnnouncedOnce
  BY DEF AnnounceInv
<1> QED BY AnnounceInit, AnnounceStep, <1>1, PTL DEF Spec

(***************************************************************************)
(* The order in which the DJEN lists results                               *)
(***************************************************************************)
Listed(p, S) == {q \in S : IF NewestFirst THEN q >= p ELSE q <= p}

LEMMA PubsFinite ==
  ASSUME NEW S \in SUBSET Pubs
  PROVE  IsFiniteSet(S) /\ Cardinality(S) \in Nat
<1>1. IsFiniteSet(1 .. MaxPubs)
  BY DiarioAssumption, FS_Interval
<1>2. IsFiniteSet(S)
  BY <1>1, FS_Subset DEF Pubs
<1> QED BY <1>2, FS_CardinalityType

LEMMA PositionIsCount ==
  ASSUME NEW S, NEW p
  PROVE  Position(p, S) = Cardinality(Listed(p, S))
BY DEF Position, Listed

LEMMA PositionType ==
  ASSUME NEW S \in SUBSET Pubs, NEW p \in Pubs
  PROVE  /\ Position(p, S) \in Nat
         /\ Position(p, S) <= Cardinality(S)
<1>1. Listed(p, S) \in SUBSET Pubs /\ Listed(p, S) \in SUBSET S
  BY DEF Listed
<1>2. Cardinality(Listed(p, S)) \in Nat /\ IsFiniteSet(S)
  BY <1>1, PubsFinite
<1>3. Cardinality(Listed(p, S)) <= Cardinality(S)
  BY <1>1, <1>2, FS_Subset
<1> QED BY <1>2, <1>3, PositionIsCount

(* Results only move to later pages.                                       *)
LEMMA PositionGrows ==
  ASSUME NEW T \in SUBSET Pubs, NEW S \in SUBSET T, NEW p \in Pubs
  PROVE  Position(p, S) <= Position(p, T)
<1>1. Listed(p, S) \in SUBSET Listed(p, T) /\ Listed(p, T) \in SUBSET Pubs
  BY DEF Listed
<1>2. IsFiniteSet(Listed(p, T))
  BY <1>1, PubsFinite
<1>3. Cardinality(Listed(p, S)) <= Cardinality(Listed(p, T))
  BY <1>1, <1>2, FS_Subset
<1> QED BY <1>3, PositionIsCount

(* Without p, those listed up to p are one less.                           *)
LEMMA PositionCounts ==
  ASSUME NEW S \in SUBSET Pubs, NEW p \in S
  PROVE  /\ Listed(p, S) \ {p} \in SUBSET Pubs
         /\ Cardinality(Listed(p, S) \ {p}) = Position(p, S) - 1
<1>1. Listed(p, S) \in SUBSET Pubs /\ p \in Listed(p, S)
  <2>1. p >= p /\ p <= p
    BY DEF Pubs
  <2> QED BY <2>1 DEF Listed
<1>2. IsFiniteSet(Listed(p, S))
  BY <1>1, PubsFinite
<1>3. Cardinality(Listed(p, S) \ {p}) = Cardinality(Listed(p, S)) - 1
  BY <1>1, <1>2, FS_RemoveElement
<1> QED BY <1>1, <1>3, PositionIsCount

LEMMA PositionPositive ==
  ASSUME NEW S \in SUBSET Pubs, NEW p \in S
  PROVE  Position(p, S) >= 1
<1>1. Cardinality(Listed(p, S) \ {p}) \in Nat
  BY PositionCounts, PubsFinite
<1>2. Cardinality(Listed(p, S) \ {p}) = Position(p, S) - 1 /\ Position(p, S) \in Nat
  BY PositionCounts, PositionType
<1> QED BY <1>1, <1>2

(* Positions have no gap: before the second there is a first.              *)
LEMMA PositionBefore ==
  ASSUME NEW S \in SUBSET Pubs, NEW p \in S, Position(p, S) > 1
  PROVE  \E q \in S : Position(q, S) = Position(p, S) - 1
<1> DEFINE B == Listed(p, S) \ {p}
<1>1. B \in SUBSET Pubs /\ B \in SUBSET S /\ Cardinality(B) = Position(p, S) - 1
  BY PositionCounts DEF Listed
<1>2. B # {}
  <2>1. Position(p, S) \in Nat
    BY PositionType
  <2>2. Cardinality(B) # 0
    BY <1>1, <2>1
  <2> QED BY <2>2, FS_EmptySet
<1>3. PICK q \in B : Listed(q, S) = B
  <2>1. CASE NewestFirst
    <3>1. B \in SUBSET Nat
      BY <1>1 DEF Pubs
    <3>2. PICK q \in B : \A r \in B : q <= r
      BY <1>2, <3>1, LeastNumber
    <3>3. \A r \in S : r >= q <=> r \in B
      BY <2>1, <3>2 DEF Listed, Pubs
    <3>4. Listed(q, S) = B
      BY <1>1, <2>1, <3>3 DEF Listed
    <3> QED BY <3>4
  <2>2. CASE ~NewestFirst
    <3> DEFINE C == {n \in Nat : \E r \in B : n = MaxPubs - r}
    <3>1. C \in SUBSET Nat /\ C # {}
      BY <1>1, <1>2, DiarioAssumption DEF Pubs
    <3>2. PICK n \in C : \A m \in C : n <= m
      BY <3>1, LeastNumber
    <3>3. PICK q \in B : n = MaxPubs - q
      BY <3>2
    <3>4. \A r \in B : MaxPubs - r \in C
      BY <1>1, DiarioAssumption DEF Pubs
    <3>5. \A r \in B : r <= q
      BY <1>1, <3>2, <3>3, <3>4, DiarioAssumption DEF Pubs
    <3>6. \A r \in S : r <= q <=> r \in B
      BY <2>2, <3>3, <3>5 DEF Listed, Pubs
    <3>7. Listed(q, S) = B
      BY <1>1, <2>2, <3>6 DEF Listed
    <3> QED BY <3>3, <3>7
  <2> QED BY <2>1, <2>2
<1>4. Position(q, S) = Position(p, S) - 1
  BY <1>1, <1>3, PositionIsCount
<1> QED BY <1>1, <1>3, <1>4

(* So that a page is empty only past the last result.                      *)
LEMMA NoEmptyPageBefore ==
  ASSUME NEW S \in SUBSET Pubs, NEW p \in S, NEW b \in Nat, Position(p, S) > b
  PROVE  \E q \in S : Position(q, S) = b + 1
<1> DEFINE N == {n \in Nat : n > b /\ \E q \in S : n = Position(q, S)}
<1>1. N \in SUBSET Nat /\ N # {}
  BY PositionType
<1>2. PICK n \in N : \A m \in N : n <= m
  BY <1>1, LeastNumber
<1>3. PICK q \in S : n = Position(q, S)
  BY <1>2
<1>4. CASE n > b + 1
  <2>1. PICK r \in S : Position(r, S) = n - 1
    BY <1>2, <1>3, <1>4, PositionBefore
  <2>2. n - 1 \in N
    BY <1>2, <1>4, <2>1
  <2> QED BY <1>2, <2>2
<1>5. CASE n = b + 1
  BY <1>3, <1>5
<1> QED BY <1>2, <1>4, <1>5

LEMMA PageMissed ==
  ASSUME TypeOK, NEW w \in Replicas, NEW p \in Results(w), p \notin Page(w),
         Position(p, Results(w)) > (page[w] - 1) * PageSize
  PROVE  /\ Page(w) # {}
         /\ Position(p, Results(w)) > page[w] * PageSize
<1> DEFINE S == Results(w)
           b == (page[w] - 1) * PageSize
<1>1. S \in SUBSET Pubs /\ p \in S
  BY DEF Results, Visible
<1>2. PageSize \in Nat /\ PageSize >= 1 /\ page[w] \in Nat /\ page[w] >= 1
  BY DiarioAssumption DEF TypeOK
<1>3. b \in Nat /\ page[w] * PageSize = b + PageSize
  BY <1>2
<1>4. Page(w) = {q \in S : Position(q, S) \in b + 1 .. b + PageSize}
  BY <1>3 DEF Page
<1>5. Position(p, S) > b
  OBVIOUS
<1> HIDE DEF b, S
<1>6. PICK q \in S : Position(q, S) = b + 1
  BY <1>1, <1>3, <1>5, NoEmptyPageBefore
<1>7. q \in Page(w)
  BY <1>2, <1>3, <1>4, <1>6
<1>8. Position(p, S) \in Nat
  BY <1>1, PositionType
<1>9. Position(p, S) \notin b + 1 .. b + PageSize
  BY <1>1, <1>4
<1>10. Position(p, S) > b + PageSize
  BY <1>2, <1>3, <1>5, <1>8, <1>9
<1> QED BY <1>3, <1>7, <1>10 DEF S

(***************************************************************************)
(* Nothing is skipped                                                      *)
(***************************************************************************)
(* The clock is ahead of what was written down, and no cycle is older than *)
(* its timeouts allow.                                                     *)
TimeInv ==
  /\ \A t \in Terms : lastSynced[t] <= now
  /\ \A w \in Replicas :
       /\ \A t \in Terms : listed[w][t] <= now
       /\ phase[w] # "idle" => began[w] <= now /\ now <= began[w] + MaxCycle
       /\ phase[w] \in {"search", "store"} => began[w] <= start[w] /\ start[w] <= now

(* What a replica read of the rows when its cycle began, and what the rows *)
(* say now: a first sync that another replica has done meanwhile is recent. *)
RowInv ==
  \A t \in Terms :
    /\ term[t] = "none" => lastSynced[t] = Never
    /\ \A w \in Replicas :
         /\ listed[w][t] # Never => lastSynced[t] # Never
         /\ phase[w] # "idle" /\ listed[w][t] = Never /\ lastSynced[t] # Never =>
              began[w] <= lastSynced[t] + MaxCycle

(* The DJEN shows publications in order, none of them later than MaxDelay. *)
DjenInv ==
  /\ \E n \in 0 .. MaxPubs : Visible = 1 .. n
  /\ \A p \in Pubs : visibleAt[p] # Never =>
       visibleAt[p] <= now /\ Day(visibleAt[p] - MaxDelay) <= date[p]

(* The window of a search is that of the row its cycle began with.         *)
WindowInv ==
  \A w \in Replicas : phase[w] \in {"search", "store"} =>
    since[w] = Day(IF listed[w][current[w]] = Never THEN start[w] - Lookback
                   ELSE listed[w][current[w]] - Overlap)

(* What was visible when a search began is in its items once its pages are *)
(* read: before that it is in them or on a page to come.                   *)
Awaited(w, p) ==
  /\ visibleAt[p] # Never /\ visibleAt[p] < start[w]
  /\ current[w] \in hits[p] /\ date[p] >= since[w]

FoundInv ==
  \A w \in Replicas, p \in Pubs : Awaited(w, p) =>
    /\ phase[w] = "store" => p \in items[w]
    /\ phase[w] = "search" =>
         p \in items[w] \/ Position(p, Results(w)) > (page[w] - 1) * PageSize

(* What the sync before this cycle promised stands.                        *)
KeptInv ==
  \A w \in Replicas, t \in Terms, p \in Pubs :
    /\ term[t] = "active" /\ listed[w][t] # Never
    /\ Due(t, p) /\ visibleAt[p] < listed[w][t]
    => <<t, p>> \in matches

SyncInv ==
  /\ TypeOK
  /\ TimeInv /\ RowInv /\ DjenInv
  /\ WindowInv /\ FoundInv /\ KeptInv
  /\ NothingSkipped

LEMMA SyncInit == Init => SyncInv
<1> SUFFICES ASSUME Init
             PROVE  TimeInv /\ RowInv /\ DjenInv /\ WindowInv /\ FoundInv /\ KeptInv /\ NothingSkipped
  BY TypeInit DEF SyncInv
<1>1. /\ now = 0
      /\ \A p \in Pubs : visibleAt[p] = Never
      /\ \A t \in Terms : lastSynced[t] = Never /\ term[t] = "none"
      /\ \A w \in Replicas : phase[w] = "idle" /\ \A t \in Terms : listed[w][t] = Never
  BY DEF Init
<1>2. TimeInv /\ RowInv /\ WindowInv
  BY <1>1 DEF TimeInv, RowInv, WindowInv, Never
<1>3. DjenInv
  <2>1. Visible = 1 .. 0
    BY <1>1 DEF Visible
  <2>2. 0 \in 0 .. MaxPubs
    BY DiarioAssumption
  <2> QED BY <1>1, <2>1, <2>2 DEF DjenInv
<1>4. FoundInv /\ KeptInv /\ NothingSkipped
  BY <1>1 DEF FoundInv, Awaited, KeptInv, NothingSkipped
<1> QED BY <1>2, <1>3, <1>4

(* The kinds of steps: a replica is done with a term, or with its cycle,   *)
(* in more than one way.                                                   *)
TermDone(w) ==
  /\ phase[w] \in {"search", "store"}
  /\ EndSearch(w, "cycle")
  /\ UNCHANGED <<now, djenVars, tableVars, todo, listed, began>>
CycleDone(w) == EndCycle(w) /\ UNCHANGED <<now, djenVars, tableVars>>

LEMMA Moves ==
  ASSUME [Next]_vars
  PROVE  \/ Tick \/ Publish
         \/ \E t \in Terms : CreateMonitoredTerm(t) \/ DeleteMonitoredTerm(t)
         \/ \E w \in Replicas : ListMonitoredTerms(w) \/ \E t \in Terms : SyncTerm(w, t)
         \/ \E w \in Replicas : Search(w) \/ StoreResults(w)
         \/ \E w \in Replicas : TermDone(w) \/ CycleDone(w)
         \/ UNCHANGED vars
BY DEF Next, SyncAll, CycleEnds, StoreNothing, SyncFails, Restart, TermDone, CycleDone

(* A publication that shows up is new, and dated as late as now.           *)
LEMMA PublishedIsNew ==
  ASSUME SyncInv, Publish
  PROVE  \E p \in Pubs, d \in Int :
           /\ visibleAt[p] = Never /\ Visible' = 1 .. p
           /\ visibleAt' = [visibleAt EXCEPT ![p] = now]
           /\ date' = [date EXCEPT ![p] = d] /\ Day(now - MaxDelay) <= d
           /\ \A q \in Pubs : q # p => hits'[q] = hits[q]
<1>1. PICK n \in 0 .. MaxPubs : Visible = 1 .. n
  BY DEF SyncInv, DjenInv
<1>2. Cardinality(Visible) = n
  BY <1>1, FS_Interval
<1>3. n + 1 \in Pubs
  BY <1>2 DEF Publish
<1>4. visibleAt[n + 1] = Never
  <2>1. n + 1 \notin 1 .. n
    BY <1>1
  <2> QED BY <1>1, <1>3, <2>1 DEF Visible
<1>5. PICK d \in Day(now - MaxDelay) .. Day(now) : date' = [date EXCEPT ![n + 1] = d]
  BY <1>2 DEF Publish
<1>6. visibleAt' = [visibleAt EXCEPT ![n + 1] = now]
  BY <1>2 DEF Publish
<1>7. \A q \in Pubs : q # n + 1 => hits'[q] = hits[q]
  BY <1>2 DEF Publish, SyncInv, TypeOK
<1>8. Visible' = 1 .. n + 1
  <2>1. \A q \in Pubs : visibleAt'[q] # Never <=> visibleAt[q] # Never \/ q = n + 1
    BY <1>3, <1>6 DEF SyncInv, TypeOK, Never
  <2>2. Visible' = Visible \cup {n + 1}
    BY <1>3, <2>1 DEF Visible
  <2>3. (1 .. n) \cup {n + 1} = 1 .. n + 1
    BY <1>1
  <2> QED BY <1>1, <2>2, <2>3
<1>9. now - MaxDelay \in Int /\ now \in Int
  BY DiarioAssumption DEF SyncInv, TypeOK
<1>10. Day(now - MaxDelay) \in Int /\ Day(now) \in Int
  BY <1>9, DayType
<1>11. d \in Int /\ Day(now - MaxDelay) <= d
  BY <1>5, <1>10
<1> QED BY <1>3, <1>4, <1>5, <1>6, <1>7, <1>8, <1>11

(* What is visible stays as it is, and what shows up is visible from now.  *)
LEMMA DjenFrame ==
  ASSUME SyncInv, [Next]_vars
  PROVE  /\ now <= now'
         /\ \A p \in Pubs :
              \/ /\ visibleAt'[p] = visibleAt[p] /\ date'[p] = date[p]
                 /\ hits'[p] = hits[p]
              \/ visibleAt[p] = Never /\ visibleAt'[p] = now
<1>1. now \in Int
  BY DEF SyncInv, TypeOK
<1>2. CASE Publish
  <2>1. PICK q \in Pubs : \E d \in Int :
          /\ visibleAt[q] = Never
          /\ visibleAt' = [visibleAt EXCEPT ![q] = now]
          /\ date' = [date EXCEPT ![q] = d]
          /\ \A r \in Pubs : r # q => hits'[r] = hits[r]
    BY <1>2, PublishedIsNew
  <2>2. now' = now
    BY <1>2 DEF Publish
  <2> QED BY <1>1, <2>1, <2>2 DEF SyncInv, TypeOK
<1>3. CASE ~Publish
  <2>1. UNCHANGED djenVars /\ (now' = now \/ now' = now + 1)
    BY <1>3, Moves DEF Tick, CreateMonitoredTerm, DeleteMonitoredTerm, ListMonitoredTerms,
       SyncTerm, Search, StoreResults, TermDone, CycleDone, vars
  <2> QED BY <1>1, <2>1 DEF djenVars
<1> QED BY <1>2, <1>3

LEMMA DjenStep ==
  ASSUME SyncInv, [Next]_vars
  PROVE  DjenInv'
<1>1. ASSUME NEW p \in Pubs, visibleAt'[p] # Never
      PROVE  visibleAt'[p] <= now' /\ Day(visibleAt'[p] - MaxDelay) <= date'[p]
  <2>1. now <= now' /\ now \in Int /\ now' \in Int /\ visibleAt[p] \in Int
    BY DjenFrame, TypeStep DEF SyncInv, TypeOK, Never
  <2>2. CASE visibleAt'[p] = visibleAt[p] /\ date'[p] = date[p]
    BY <1>1, <2>1, <2>2 DEF SyncInv, DjenInv
  <2>3. CASE visibleAt[p] = Never /\ visibleAt'[p] = now
    <3>1. now # Never
      BY DEF SyncInv, TypeOK, Never
    <3>2. Publish
      BY <2>3, <3>1, Moves DEF Tick, CreateMonitoredTerm, DeleteMonitoredTerm,
         ListMonitoredTerms, SyncTerm, Search, StoreResults, TermDone, CycleDone, vars, djenVars
    <3>3. PICK q \in Pubs, d \in Int :
            /\ visibleAt' = [visibleAt EXCEPT ![q] = now]
            /\ date' = [date EXCEPT ![q] = d] /\ Day(now - MaxDelay) <= d
      BY <3>2, PublishedIsNew
    <3>4. p = q
      BY <2>3, <3>1, <3>3 DEF SyncInv, TypeOK
    <3>5. date'[p] = d
      BY <3>3, <3>4 DEF SyncInv, TypeOK
    <3> QED BY <2>1, <2>3, <3>3, <3>5
  <2> QED BY <2>2, <2>3, DjenFrame
<1>2. \E n \in 0 .. MaxPubs : Visible' = 1 .. n
  <2>1. CASE Publish
    BY <2>1, PublishedIsNew, DiarioAssumption DEF Pubs
  <2>2. CASE ~Publish
    <3>1. UNCHANGED visibleAt
      BY <2>2, Moves DEF Tick, CreateMonitoredTerm, DeleteMonitoredTerm, ListMonitoredTerms,
         SyncTerm, Search, StoreResults, TermDone, CycleDone, vars, djenVars
    <3> QED BY <3>1 DEF SyncInv, DjenInv, Visible
  <2> QED BY <2>1, <2>2
<1> QED BY <1>1, <1>2 DEF DjenInv

LEMMA TimeStep ==
  ASSUME SyncInv, [Next]_vars
  PROVE  TimeInv'
<1> USE DiarioAssumption
<1>1. /\ TimeInv /\ now \in Nat /\ MaxCycle \in Nat
      /\ lastSynced \in [Terms -> 0 .. MaxTime \cup {Never}]
      /\ listed \in [Replicas -> [Terms -> 0 .. MaxTime \cup {Never}]]
      /\ phase \in [Replicas -> {"idle", "cycle", "search", "store"}]
      /\ began \in [Replicas -> 0 .. MaxTime]
      /\ start \in [Replicas -> 0 .. MaxTime]
      /\ current \in [Replicas -> Terms]
  BY DEF SyncInv, TypeOK
<1>2. CASE Tick
  <2>1. /\ now' = now + 1 /\ UNCHANGED <<lastSynced, listed, phase, began, start>>
        /\ \A w \in Replicas : phase[w] # "idle" => now < began[w] + MaxCycle
    BY <1>2 DEF Tick, tableVars, replicaVars, searchVars
  <2>2. /\ \A t \in Terms : lastSynced[t] \in Int
        /\ \A w \in Replicas : began[w] \in Int /\ start[w] \in Int
        /\ \A w \in Replicas, t \in Terms : listed[w][t] \in Int
    BY <1>1 DEF Never
  <2>3. /\ \A t \in Terms : lastSynced[t] <= now + 1
        /\ \A w \in Replicas, t \in Terms : listed[w][t] <= now + 1
    BY <1>1, <2>2 DEF TimeInv
  <2>4. \A w \in Replicas : phase[w] # "idle" =>
          began[w] <= now + 1 /\ now + 1 <= began[w] + MaxCycle
    BY <1>1, <2>1, <2>2 DEF TimeInv
  <2>5. \A w \in Replicas : phase[w] \in {"search", "store"} =>
          began[w] <= start[w] /\ start[w] <= now + 1
    BY <1>1, <2>2 DEF TimeInv
  <2> QED BY <2>1, <2>3, <2>4, <2>5 DEF TimeInv
<1>3. CASE Publish \/ (\E t \in Terms : CreateMonitoredTerm(t) \/ DeleteMonitoredTerm(t))
  BY <1>1, <1>3 DEF Publish, CreateMonitoredTerm, DeleteMonitoredTerm, TimeInv,
                    tableVars, replicaVars, searchVars
<1>4. ASSUME NEW w \in Replicas, ListMonitoredTerms(w)
      PROVE  TimeInv'
  BY <1>1, <1>4 DEF ListMonitoredTerms, TimeInv, tableVars, searchVars
<1>5. ASSUME NEW w \in Replicas, NEW t \in Terms, SyncTerm(w, t)
      PROVE  TimeInv'
  BY <1>1, <1>5 DEF SyncTerm, TimeInv, tableVars
<1>6. ASSUME NEW w \in Replicas, Search(w)
      PROVE  TimeInv'
  BY <1>1, <1>6 DEF Search, TimeInv, tableVars
<1>7. ASSUME NEW w \in Replicas, StoreResults(w)
      PROVE  TimeInv'
  BY <1>1, <1>7 DEF StoreResults, EndSearch, TimeInv
<1>8. ASSUME NEW w \in Replicas, TermDone(w)
      PROVE  TimeInv'
  BY <1>1, <1>8 DEF TermDone, EndSearch, TimeInv, tableVars
<1>9. ASSUME NEW w \in Replicas, CycleDone(w)
      PROVE  TimeInv'
  BY <1>1, <1>9 DEF CycleDone, EndCycle, EndSearch, TimeInv, tableVars, Never
<1>10. CASE UNCHANGED vars
  BY <1>1, <1>10 DEF vars, TimeInv, tableVars, replicaVars, searchVars
<1> QED BY Moves, <1>2, <1>3, <1>4, <1>5, <1>6, <1>7, <1>8, <1>9, <1>10

LEMMA RowStep ==
  ASSUME SyncInv, [Next]_vars
  PROVE  RowInv'
<1> USE DiarioAssumption
<1>1. /\ RowInv /\ TimeInv /\ now \in Nat /\ MaxCycle \in Nat
      /\ term \in [Terms -> {"none", "active", "deleted"}]
      /\ lastSynced \in [Terms -> 0 .. MaxTime \cup {Never}]
      /\ listed \in [Replicas -> [Terms -> 0 .. MaxTime \cup {Never}]]
      /\ phase \in [Replicas -> {"idle", "cycle", "search", "store"}]
      /\ began \in [Replicas -> 0 .. MaxTime]
      /\ start \in [Replicas -> 0 .. MaxTime]
      /\ current \in [Replicas -> Terms]
  BY DEF SyncInv, TypeOK
<1>2. CASE Tick \/ Publish
  BY <1>1, <1>2 DEF Tick, Publish, RowInv, tableVars, replicaVars, searchVars
<1>3. CASE \E t \in Terms : CreateMonitoredTerm(t) \/ DeleteMonitoredTerm(t)
  BY <1>1, <1>3 DEF CreateMonitoredTerm, DeleteMonitoredTerm, RowInv, replicaVars, searchVars
<1>4. ASSUME NEW w \in Replicas, ListMonitoredTerms(w)
      PROVE  RowInv'
  BY <1>1, <1>4 DEF ListMonitoredTerms, RowInv, tableVars, searchVars
<1>5. ASSUME NEW w \in Replicas, NEW t \in Terms, SyncTerm(w, t)
      PROVE  RowInv'
  BY <1>1, <1>5 DEF SyncTerm, RowInv, tableVars
<1>6. ASSUME NEW w \in Replicas, Search(w)
      PROVE  RowInv'
  BY <1>1, <1>6 DEF Search, RowInv, tableVars
<1>7. ASSUME NEW w \in Replicas, StoreResults(w)
      PROVE  RowInv'
  <2>1. /\ phase[w] = "store" /\ term[current[w]] = "active"
        /\ lastSynced' = [lastSynced EXCEPT ![current[w]] = start[w]]
        /\ UNCHANGED <<term, listed, began>>
        /\ \A v \in Replicas : phase'[v] # "idle" => phase[v] # "idle"
    BY <1>1, <1>7 DEF StoreResults, EndSearch
  <2>2. now <= start[w] + MaxCycle /\ start[w] \in Nat
    BY <1>1, <2>1 DEF TimeInv
  <2>3. \A v \in Replicas : phase[v] # "idle" => began[v] <= start[w] + MaxCycle
    BY <1>1, <2>2 DEF TimeInv
  <2> QED BY <1>1, <2>1, <2>2, <2>3 DEF RowInv, Never
<1>8. ASSUME NEW w \in Replicas, TermDone(w)
      PROVE  RowInv'
  <2>1. /\ UNCHANGED <<term, lastSynced, listed, began>>
        /\ \A v \in Replicas : phase'[v] # "idle" => phase[v] # "idle"
    BY <1>1, <1>8 DEF TermDone, EndSearch, tableVars
  <2> QED BY <1>1, <2>1 DEF RowInv
<1>9. ASSUME NEW w \in Replicas, CycleDone(w)
      PROVE  RowInv'
  BY <1>1, <1>9 DEF CycleDone, EndCycle, EndSearch, RowInv, tableVars
<1>10. CASE UNCHANGED vars
  BY <1>1, <1>10 DEF vars, RowInv, tableVars, replicaVars, searchVars
<1> QED BY Moves, <1>2, <1>3, <1>4, <1>5, <1>6, <1>7, <1>8, <1>9, <1>10

LEMMA WindowStep ==
  ASSUME SyncInv, [Next]_vars
  PROVE  WindowInv'
<1>1. /\ WindowInv
      /\ listed \in [Replicas -> [Terms -> 0 .. MaxTime \cup {Never}]]
      /\ phase \in [Replicas -> {"idle", "cycle", "search", "store"}]
      /\ start \in [Replicas -> 0 .. MaxTime]
      /\ since \in [Replicas -> Int]
      /\ current \in [Replicas -> Terms]
  BY DEF SyncInv, TypeOK
<1>2. ASSUME NEW w \in Replicas, NEW t \in Terms, SyncTerm(w, t)
      PROVE  WindowInv'
  <2>1. since'[w] = Day(IF listed'[w][current'[w]] = Never THEN start'[w] - Lookback
                        ELSE listed'[w][current'[w]] - Overlap)
    BY <1>1, <1>2 DEF SyncTerm, SyncSinceDate
  <2>2. \A v \in Replicas : v # w =>
          /\ phase'[v] = phase[v] /\ since'[v] = since[v]
          /\ listed'[v] = listed[v] /\ current'[v] = current[v] /\ start'[v] = start[v]
    BY <1>1, <1>2 DEF SyncTerm
  <2> QED BY <1>1, <2>1, <2>2 DEF WindowInv
<1>3. ASSUME NEW w \in Replicas,
             ListMonitoredTerms(w) \/ StoreResults(w) \/ TermDone(w) \/ CycleDone(w)
      PROVE  WindowInv'
  <2>1. phase'[w] \in {"idle", "cycle"}
    BY <1>1, <1>3 DEF ListMonitoredTerms, StoreResults, TermDone, CycleDone, EndCycle, EndSearch
  <2>2. \A v \in Replicas : v # w =>
          /\ phase'[v] = phase[v] /\ since'[v] = since[v]
          /\ listed'[v] = listed[v] /\ current'[v] = current[v] /\ start'[v] = start[v]
    BY <1>1, <1>3 DEF ListMonitoredTerms, StoreResults, TermDone, CycleDone, EndCycle,
                      EndSearch, searchVars
  <2> QED BY <1>1, <2>1, <2>2 DEF WindowInv
<1>4. ASSUME NEW w \in Replicas, Search(w)
      PROVE  WindowInv'
  <2>1. /\ UNCHANGED <<listed, current, start, since>> /\ phase[w] = "search"
        /\ \A v \in Replicas : v # w => phase'[v] = phase[v]
    BY <1>1, <1>4 DEF Search
  <2> QED BY <1>1, <2>1 DEF WindowInv
<1>5. CASE UNCHANGED replicaVars
  BY <1>1, <1>5 DEF WindowInv, replicaVars, searchVars
<1> QED
  <2>1. \/ \E w \in Replicas : \E t \in Terms : SyncTerm(w, t)
        \/ \E w \in Replicas :
             ListMonitoredTerms(w) \/ StoreResults(w) \/ TermDone(w) \/ CycleDone(w)
        \/ \E w \in Replicas : Search(w)
        \/ UNCHANGED replicaVars
    BY Moves DEF Tick, Publish, CreateMonitoredTerm, DeleteMonitoredTerm, vars
  <2> QED BY <1>2, <1>3, <1>4, <1>5, <2>1

(* A search that nobody touched: what it awaited it awaits, and its        *)
(* results are only more.                                                  *)
LEMMA SearchFrame ==
  ASSUME SyncInv, [Next]_vars, NEW w \in Replicas, phase[w] \in {"search", "store"},
         current'[w] = current[w], start'[w] = start[w], since'[w] = since[w]
  PROVE  /\ Results(w) \in SUBSET Results(w)' /\ Results(w)' \in SUBSET Pubs
         /\ \A p \in Pubs : Awaited(w, p)' => Awaited(w, p) /\ p \in Results(w)
<1>1. /\ start[w] <= now /\ start[w] \in Int /\ now \in Int
      /\ \A p \in Pubs : visibleAt[p] \in Int
  BY DEF SyncInv, TimeInv, TypeOK, Never
<1>2. Results(w) \in SUBSET Results(w)' /\ Results(w)' \in SUBSET Pubs
  BY DjenFrame DEF Results, Visible
<1>3. ASSUME NEW p \in Pubs, Awaited(w, p)'
      PROVE  Awaited(w, p) /\ p \in Results(w)
  <2>1. visibleAt'[p] # now
    BY <1>1, <1>3 DEF Awaited
  <2>2. visibleAt'[p] = visibleAt[p] /\ date'[p] = date[p] /\ hits'[p] = hits[p]
    BY <2>1, DjenFrame
  <2> QED BY <1>3, <2>2 DEF Awaited, Results, Visible
<1> QED BY <1>2, <1>3

LEMMA AwaitedListed ==
  ASSUME NEW w \in Replicas, NEW p \in Pubs, Awaited(w, p)
  PROVE  p \in Results(w)
BY DEF Awaited, Results, Visible

(* No term has more results than the pages of one cycle hold.              *)
ResultsFit ==
  \A w \in Replicas :
    phase[w] = "search" => Cardinality(Results(w)) <= MaxPages * PageSize

LEMMA FoundStep ==
  ASSUME SyncInv, ResultsFit, [Next]_vars
  PROVE  FoundInv'
<1>1. /\ FoundInv
      /\ phase \in [Replicas -> {"idle", "cycle", "search", "store"}]
      /\ start \in [Replicas -> 0 .. MaxTime]
      /\ since \in [Replicas -> Int]
      /\ current \in [Replicas -> Terms]
      /\ page \in [Replicas -> 1 .. MaxPages]
      /\ items \in [Replicas -> SUBSET Pubs]
  BY DEF SyncInv, TypeOK
<1>2. PageSize \in Nat /\ MaxPages \in Nat /\ PageSize >= 1
  BY DiarioAssumption
<1> SUFFICES ASSUME NEW w \in Replicas, NEW p \in Pubs, Awaited(w, p)'
             PROVE  /\ phase'[w] = "store" => p \in items'[w]
                    /\ phase'[w] = "search" =>
                         \/ p \in items'[w]
                         \/ Position(p, Results(w)') > (page'[w] - 1) * PageSize
  BY DEF FoundInv, Position
<1>3. CASE /\ phase'[w] = phase[w] /\ page'[w] = page[w] /\ items'[w] = items[w]
           /\ current'[w] = current[w] /\ start'[w] = start[w] /\ since'[w] = since[w]
  <2>1. CASE phase[w] = "store"
    BY <1>1, <1>3, <2>1, SearchFrame DEF FoundInv
  <2>2. CASE phase[w] = "search"
    <3>1. /\ Awaited(w, p) /\ p \in Results(w)
          /\ Results(w) \in SUBSET Results(w)' /\ Results(w)' \in SUBSET Pubs
      BY <1>3, <2>2, SearchFrame
    <3>2. p \in items[w] \/ Position(p, Results(w)) > (page[w] - 1) * PageSize
      BY <1>1, <2>2, <3>1 DEF FoundInv
    <3>3. Position(p, Results(w)) <= Position(p, Results(w)')
      BY <3>1, PositionGrows
    <3>4. /\ Position(p, Results(w)) \in Nat /\ Position(p, Results(w)') \in Nat
      BY <3>1, PositionType
    <3>5. (page[w] - 1) * PageSize \in Int
      BY <1>1, <1>2
    <3>6. CASE p \in items[w]
      BY <1>3, <2>2, <3>6
    <3>7. CASE Position(p, Results(w)) > (page[w] - 1) * PageSize
      <4>1. Position(p, Results(w)') > (page[w] - 1) * PageSize
        BY <3>3, <3>4, <3>5, <3>7
      <4> QED BY <1>3, <2>2, <4>1
    <3> QED BY <3>2, <3>6, <3>7
  <2> QED BY <1>3, <2>1, <2>2
<1>4. CASE phase'[w] \notin {"search", "store"}
  BY <1>4
<1>5. ASSUME NEW t \in Terms, SyncTerm(w, t)
      PROVE  phase'[w] = "search" /\ Position(p, Results(w)') > (page'[w] - 1) * PageSize
  <2>1. phase'[w] = "search" /\ page'[w] = 1
    BY <1>1, <1>5 DEF SyncTerm
  <2>2. p \in Results(w)' /\ Results(w)' \in SUBSET Pubs
    BY DEF Awaited, Results, Visible
  <2>3. Position(p, Results(w)') >= 1 /\ Position(p, Results(w)') \in Nat
    BY <2>2, PositionPositive, PositionType
  <2>4. (page'[w] - 1) * PageSize = 0
    BY <1>2, <2>1
  <2> QED BY <2>1, <2>3, <2>4
<1>6. CASE Search(w)
  <2>1. /\ phase[w] = "search" /\ items'[w] = items[w] \cup Page(w)
        /\ UNCHANGED <<djenVars, current, start, since>>
    BY <1>1, <1>6 DEF Search
  <2>2. Awaited(w, p) /\ Results(w)' = Results(w)
    BY <2>1 DEF Awaited, Results, Visible, djenVars
  <2>3. p \in Results(w) /\ Results(w) \in SUBSET Pubs
    BY <2>2, AwaitedListed DEF Results, Visible
  <2>4. p \in items[w] \/ Position(p, Results(w)) > (page[w] - 1) * PageSize
    BY <1>1, <2>1, <2>2 DEF FoundInv
  <2>5. CASE p \in items[w] \/ p \in Page(w)
    BY <2>1, <2>5
  <2>6. CASE p \notin items[w] /\ p \notin Page(w)
    <3>1. Page(w) # {} /\ Position(p, Results(w)) > page[w] * PageSize
      BY <2>3, <2>4, <2>6, PageMissed DEF SyncInv
    <3>2. page[w] # MaxPages
      <4>1. /\ Position(p, Results(w)) <= Cardinality(Results(w))
            /\ Position(p, Results(w)) \in Nat
        BY <2>3, PositionType
      <4>2. Cardinality(Results(w)) <= MaxPages * PageSize
        BY <2>1 DEF ResultsFit
      <4>3. Cardinality(Results(w)) \in Nat /\ MaxPages * PageSize \in Nat
        BY <1>2, <2>3, PubsFinite
      <4>4. ~(Position(p, Results(w)) > MaxPages * PageSize)
        BY <4>1, <4>2, <4>3
      <4> QED BY <3>1, <4>4
    <3>3. phase'[w] = "search" /\ page'[w] = page[w] + 1
      BY <1>1, <1>6, <3>1, <3>2 DEF Search
    <3>4. page'[w] - 1 = page[w]
      BY <1>1, <3>3
    <3> QED BY <2>2, <3>1, <3>3, <3>4
  <2> QED BY <2>5, <2>6
<1> QED
  <2>1. ASSUME NEW v \in Replicas, v # w,
               \/ ListMonitoredTerms(v) \/ \E t \in Terms : SyncTerm(v, t)
               \/ Search(v) \/ StoreResults(v) \/ TermDone(v) \/ CycleDone(v)
        PROVE  /\ phase'[w] = phase[w] /\ page'[w] = page[w] /\ items'[w] = items[w]
               /\ current'[w] = current[w] /\ start'[w] = start[w] /\ since'[w] = since[w]
    BY <1>1, <2>1 DEF ListMonitoredTerms, SyncTerm, Search, StoreResults, TermDone, CycleDone,
                      EndCycle, EndSearch, searchVars
  <2>2. CASE ListMonitoredTerms(w) \/ StoreResults(w) \/ TermDone(w) \/ CycleDone(w)
    <3>1. phase'[w] \in {"idle", "cycle"}
      BY <1>1, <2>2 DEF ListMonitoredTerms, StoreResults, TermDone, CycleDone, EndCycle, EndSearch
    <3> QED BY <1>4, <3>1
  <2>3. CASE UNCHANGED replicaVars
    BY <1>3, <2>3 DEF replicaVars, searchVars
  <2>4. \/ \E v \in Replicas :
             \/ ListMonitoredTerms(v) \/ \E t \in Terms : SyncTerm(v, t)
             \/ Search(v) \/ StoreResults(v) \/ TermDone(v) \/ CycleDone(v)
        \/ UNCHANGED replicaVars
    BY Moves DEF Tick, Publish, CreateMonitoredTerm, DeleteMonitoredTerm, vars
  <2>5. CASE \E t \in Terms : SyncTerm(w, t)
    BY <1>5, <2>5
  <2> QED BY <1>3, <1>6, <2>1, <2>2, <2>3, <2>4, <2>5

(* A publication that is due for a term because of a time that is past was *)
(* there before the step, as it is now.                                    *)
LEMMA DueFrame ==
  ASSUME SyncInv, [Next]_vars, NEW p \in Pubs, NEW time \in Int, time <= now,
         visibleAt'[p] < time
  PROVE  visibleAt'[p] = visibleAt[p] /\ date'[p] = date[p] /\ hits'[p] = hits[p]
<1>1. now \in Int
  BY DEF SyncInv, TypeOK
<1>2. visibleAt'[p] # now
  BY <1>1
<1> QED BY <1>2, DjenFrame

LEMMA KeptStep ==
  ASSUME SyncInv, [Next]_vars
  PROVE  KeptInv'
<1> SUFFICES ASSUME NEW w \in Replicas, NEW t \in Terms, NEW p \in Pubs,
                    term'[t] = "active", listed'[w][t] # Never,
                    visibleAt'[p] # Never, t \in hits'[p], date'[p] >= syncedFrom'[t],
                    visibleAt'[p] < listed'[w][t]
             PROVE  <<t, p>> \in matches'
  BY DEF KeptInv, Due
<1>1. /\ term \in [Terms -> {"none", "active", "deleted"}]
      /\ lastSynced \in [Terms -> 0 .. MaxTime \cup {Never}]
      /\ listed \in [Replicas -> [Terms -> 0 .. MaxTime \cup {Never}]]
      /\ syncedFrom \in [Terms -> Int]
      /\ now \in Int /\ visibleAt[p] \in Int
  BY DEF SyncInv, TypeOK, Never
<1>2. CASE listed'[w] = listed[w]
  <2>1. listed[w][t] <= now /\ listed[w][t] \in Int
    BY <1>1 DEF SyncInv, TimeInv, Never
  <2>2. visibleAt'[p] = visibleAt[p] /\ date'[p] = date[p] /\ hits'[p] = hits[p]
    BY <1>2, <2>1, DueFrame
  <2>3. lastSynced[t] # Never /\ term[t] # "none"
    BY <1>2 DEF SyncInv, RowInv
  <2>4. syncedFrom'[t] = syncedFrom[t]
    BY <1>1, <2>3, Moves DEF Tick, Publish, CreateMonitoredTerm, DeleteMonitoredTerm,
       ListMonitoredTerms, SyncTerm, Search, StoreResults, TermDone, CycleDone, vars, tableVars
  <2>5. term[t] = "active"
    BY <1>1, <2>3, Moves DEF Tick, Publish, CreateMonitoredTerm, DeleteMonitoredTerm,
       ListMonitoredTerms, SyncTerm, Search, StoreResults, TermDone, CycleDone, vars, tableVars
  <2>6. Due(t, p) /\ visibleAt[p] < listed[w][t]
    BY <1>2, <2>2, <2>4 DEF Due
  <2>7. <<t, p>> \in matches
    BY <1>2, <2>5, <2>6 DEF SyncInv, KeptInv
  <2>8. \A u \in Terms : DeleteMonitoredTerm(u) => u # t
    BY <1>1 DEF DeleteMonitoredTerm
  <2>9. <<t, p>>[1] = t
    OBVIOUS
  <2> QED BY <2>7, <2>8, <2>9, Moves DEF Tick, Publish, CreateMonitoredTerm,
      DeleteMonitoredTerm, ListMonitoredTerms, SyncTerm, Search, StoreResults,
      TermDone, CycleDone, vars, tableVars
<1>3. CASE ListMonitoredTerms(w)
  <2>1. listed'[w] = lastSynced /\ UNCHANGED <<djenVars, tableVars>>
    BY <1>1, <1>3 DEF ListMonitoredTerms
  <2>2. Due(t, p) /\ visibleAt[p] < lastSynced[t] /\ term[t] = "active"
    BY <2>1 DEF Due, djenVars, tableVars
  <2>3. <<t, p>> \in matches
    BY <2>2 DEF SyncInv, NothingSkipped
  <2> QED BY <2>1, <2>3 DEF tableVars
<1>4. CASE CycleDone(w)
  BY <1>1, <1>4 DEF CycleDone, EndCycle
<1>5. listed'[w] = listed[w] \/ ListMonitoredTerms(w) \/ CycleDone(w)
  BY <1>1, Moves DEF Tick, Publish, CreateMonitoredTerm, DeleteMonitoredTerm,
     ListMonitoredTerms, SyncTerm, Search, StoreResults, TermDone, CycleDone, EndCycle,
     vars, replicaVars
<1> QED BY <1>2, <1>3, <1>4, <1>5

(* The windows are wide enough: the overlap covers the delay of the DJEN,  *)
(* and the first window also covers what two replicas that sync a new term *)
(* at once may take.                                                       *)
WindowsSuffice ==
  /\ MaxDelay <= Overlap
  /\ MaxDelay + 2 * MaxCycle <= Lookback

(* What the transaction leaves unmatched the search did not await.  What   *)
(* is dated before its window was promised by an earlier sync.             *)
LEMMA BeforeWindow ==
  ASSUME SyncInv, WindowsSuffice, NEW w \in Replicas, phase[w] = "store",
         NEW t \in Terms, t = current[w], term[t] = "active", NEW p \in Pubs,
         Due(t, p), lastSynced[t] # Never, date[p] < since[w]
  PROVE  <<t, p>> \in matches
<1> DEFINE seen == listed[w][t]
           limit == IF seen = Never THEN start[w] - Lookback ELSE seen - Overlap
<1> USE DiarioAssumption
<1>1. /\ seen \in 0 .. MaxTime \cup {Never} /\ seen \in Int /\ start[w] \in Int
      /\ visibleAt[p] \in Int /\ date[p] \in Int /\ since[w] \in Int
      /\ lastSynced[t] \in Int /\ began[w] \in Int /\ now \in Int
      /\ Overlap \in Int /\ Lookback \in Int /\ MaxDelay \in Int /\ MaxCycle \in Int
  BY DEF SyncInv, TypeOK, Never
<1>2. since[w] = Day(limit)
  BY DEF SyncInv, WindowInv
<1>3. limit \in Int
  BY <1>1
<1>4. Day(visibleAt[p] - MaxDelay) <= date[p]
  BY DEF SyncInv, DjenInv, Due
<1>5. visibleAt[p] - MaxDelay < limit
  <2>1. visibleAt[p] - MaxDelay \in Int
    BY <1>1
  <2>2. Day(visibleAt[p] - MaxDelay) \in Int
    BY <2>1, DayType
  <2>3. CASE limit <= visibleAt[p] - MaxDelay
    <3>1. Day(limit) <= Day(visibleAt[p] - MaxDelay)
      BY <1>3, <2>1, <2>3, DayMonotone
    <3> QED BY <1>1, <1>2, <1>4, <2>2, <3>1
  <2> QED BY <1>3, <2>1, <2>3
<1>6. CASE seen # Never
  <2>1. visibleAt[p] < seen
    BY <1>1, <1>5, <1>6 DEF WindowsSuffice
  <2> QED BY <1>6, <2>1 DEF SyncInv, KeptInv
<1>7. CASE seen = Never
  <2>1. began[w] <= lastSynced[t] + MaxCycle
    BY <1>7 DEF SyncInv, RowInv
  <2>2. start[w] <= began[w] + MaxCycle
    BY <1>1 DEF SyncInv, TimeInv
  <2>3. visibleAt[p] - MaxDelay < start[w] - Lookback
    BY <1>5, <1>7
  <2>4. visibleAt[p] < lastSynced[t]
    BY <1>1, <2>1, <2>2, <2>3 DEF WindowsSuffice
  <2> QED BY <2>4 DEF SyncInv, NothingSkipped
<1> QED BY <1>6, <1>7

LEMMA StoreSkipsNothing ==
  ASSUME SyncInv, WindowsSuffice, NEW w \in Replicas, StoreResults(w),
         NEW t \in Terms, t = current[w],
         NEW p \in Pubs, Due(t, p)', visibleAt'[p] < lastSynced'[t]
  PROVE  <<t, p>> \in matches'
<1>1. /\ t \in Terms /\ lastSynced \in [Terms -> 0 .. MaxTime \cup {Never}]
      /\ syncedFrom \in [Terms -> Int] /\ since[w] \in Int /\ date[p] \in Int
  BY DEF SyncInv, TypeOK
<1>2. /\ phase[w] = "store" /\ term[t] = "active"
      /\ matches' = matches \cup NewMatches(w)
      /\ lastSynced' = [lastSynced EXCEPT ![t] = start[w]]
      /\ syncedFrom' = [syncedFrom EXCEPT ![t] = IF lastSynced[t] = Never THEN since[w] ELSE @]
      /\ UNCHANGED djenVars
  BY DEF StoreResults
<1>3. /\ visibleAt[p] # Never /\ t \in hits[p] /\ visibleAt[p] < start[w]
      /\ date[p] >= syncedFrom'[t]
  BY <1>1, <1>2 DEF Due, djenVars
<1>4. CASE date[p] >= since[w]
  <2>1. Awaited(w, p)
    BY <1>3, <1>4 DEF Awaited
  <2>2. p \in items[w]
    BY <1>2, <2>1 DEF SyncInv, FoundInv
  <2>3. <<t, p>> \in {t} \X items[w]
    BY <2>2
  <2> QED BY <1>2, <2>3 DEF NewMatches
<1>5. CASE date[p] < since[w]
  <2>1. lastSynced[t] # Never /\ syncedFrom'[t] = syncedFrom[t]
    BY <1>1, <1>2, <1>3, <1>5
  <2>2. Due(t, p)
    BY <1>3, <2>1 DEF Due
  <2>3. <<t, p>> \in matches
    BY <1>1, <1>2, <1>5, <2>1, <2>2, BeforeWindow
  <2> QED BY <1>2, <2>3
<1> QED BY <1>1, <1>4, <1>5

LEMMA SkippedStep ==
  ASSUME SyncInv, WindowsSuffice, [Next]_vars
  PROVE  NothingSkipped'
<1> SUFFICES ASSUME NEW t \in Terms, NEW p \in Pubs, term'[t] = "active", Due(t, p)',
                    visibleAt'[p] < lastSynced'[t]
             PROVE  <<t, p>> \in matches'
  BY DEF NothingSkipped
<1>1. /\ term \in [Terms -> {"none", "active", "deleted"}]
      /\ lastSynced \in [Terms -> 0 .. MaxTime \cup {Never}]
      /\ syncedFrom \in [Terms -> Int]
      /\ now \in Int /\ visibleAt[p] \in Int
  BY DEF SyncInv, TypeOK, Never
<1>2. CASE \E w \in Replicas : StoreResults(w) /\ current[w] = t
  BY <1>2, StoreSkipsNothing
<1>3. CASE ~\E w \in Replicas : StoreResults(w) /\ current[w] = t
  <2>1. lastSynced'[t] = lastSynced[t] /\ syncedFrom'[t] = syncedFrom[t]
    BY <1>1, <1>3, Moves DEF Tick, Publish, CreateMonitoredTerm, DeleteMonitoredTerm,
       ListMonitoredTerms, SyncTerm, Search, StoreResults, TermDone, CycleDone, vars, tableVars
  <2>2. lastSynced[t] <= now /\ lastSynced[t] \in Int
    BY <1>1 DEF SyncInv, TimeInv, Never
  <2>3. visibleAt'[p] = visibleAt[p] /\ date'[p] = date[p] /\ hits'[p] = hits[p]
    BY <2>1, <2>2, DueFrame
  <2>4. Due(t, p) /\ visibleAt[p] < lastSynced[t]
    BY <2>1, <2>3 DEF Due
  <2>5. lastSynced[t] # Never
    <3>1. visibleAt[p] \in 0 .. MaxTime \cup {-1}
      BY DEF SyncInv, TypeOK, Never
    <3>2. visibleAt[p] >= -1
      BY <3>1
    <3> QED BY <1>1, <2>4, <3>2 DEF Never
  <2>6. term[t] # "none"
    BY <2>5 DEF SyncInv, RowInv
  <2>7. term[t] = "active"
    BY <1>1, <2>6, Moves DEF Tick, Publish, CreateMonitoredTerm, DeleteMonitoredTerm,
       ListMonitoredTerms, SyncTerm, Search, StoreResults, TermDone, CycleDone, vars, tableVars
  <2>8. <<t, p>> \in matches
    BY <2>4, <2>7 DEF SyncInv, NothingSkipped
  <2>9. \A u \in Terms : DeleteMonitoredTerm(u) => u # t
    BY <1>1 DEF DeleteMonitoredTerm
  <2>10. <<t, p>>[1] = t
    OBVIOUS
  <2> QED BY <2>8, <2>9, <2>10, Moves DEF Tick, Publish, CreateMonitoredTerm,
      DeleteMonitoredTerm, ListMonitoredTerms, SyncTerm, Search, StoreResults,
      TermDone, CycleDone, vars, tableVars
<1> QED BY <1>2, <1>3

LEMMA SyncStep ==
  ASSUME SyncInv, ResultsFit, WindowsSuffice, [Next]_vars
  PROVE  SyncInv'
<1>1. TypeOK'
  BY TypeStep DEF SyncInv
<1>2. TimeInv' /\ RowInv' /\ DjenInv' /\ WindowInv'
  BY TimeStep, RowStep, DjenStep, WindowStep
<1>3. FoundInv' /\ KeptInv' /\ NothingSkipped'
  BY FoundStep, KeptStep, SkippedStep
<1> QED BY <1>1, <1>2, <1>3 DEF SyncInv

(* Where the windows are wide enough and no term has more results than the *)
(* pages of one cycle hold, a sync never moves last_synced_at past a       *)
(* publication it did not match, whatever replicas overlap, cycles fail    *)
(* and pages shift (syncTerm, syncSinceDate).                              *)
THEOREM NothingIsSkipped ==
  ASSUME WindowsSuffice
  PROVE  Spec /\ []ResultsFit => []NothingSkipped
<1>1. SyncInv /\ ResultsFit /\ [Next]_vars => SyncInv'
  BY SyncStep
<1>2. SyncInv => NothingSkipped
  BY DEF SyncInv
<1> QED BY SyncInit, <1>1, <1>2, PTL DEF Spec
=============================================================================
